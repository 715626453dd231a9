---------------------------- MODULE MCConfigFile ----------------------------
(***************************************************************************)
(* The instance of ConfigFile for TLC: see MCConfigFile.cfg.               *)
(***************************************************************************)
EXTENDS ConfigFile
=============================================================================
