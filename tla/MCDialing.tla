------------------------------ MODULE MCDialing -----------------------------
(***************************************************************************)
(* Dialing on small instances.                                             *)
(***************************************************************************)
EXTENDS Dialing

CONSTANTS alice, bob

\* The first secret of a pair is Put before the rounds, the next one for round 1.
EarlyRounds == [s \in Seeds |-> s - 1]
=============================================================================
