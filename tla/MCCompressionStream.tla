------------------------ MODULE MCCompressionStream ------------------------
(* The instance of CompressionStream for TLC takes its constants from the   *)
(* cfg.                                                                     *)
EXTENDS CompressionStream
=============================================================================
