---------------------------- MODULE MCPngStream -----------------------------
(* The instance of PngStream for TLC takes its constants from the cfg.      *)
EXTENDS PngStream
=============================================================================
