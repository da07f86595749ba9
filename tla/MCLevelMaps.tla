---------------------------- MODULE MCLevelMaps ----------------------------
(* The instance of LevelMaps for TLC takes its constants from the cfg.      *)
EXTENDS LevelMaps
=============================================================================
