------------------------------- MODULE MCHub --------------------------------
(***************************************************************************)
(* The instance of Hub for TLC: see MCHub.cfg.                             *)
(***************************************************************************)
EXTENDS Hub
=============================================================================
