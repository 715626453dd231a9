--------------------------- MODULE MCCoordinator ----------------------------
(***************************************************************************)
(* Coordinator on small instances.                                         *)
(***************************************************************************)
EXTENDS Coordinator

CONSTANTS c1, m1, m2
=============================================================================
