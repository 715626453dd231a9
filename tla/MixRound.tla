------------------------------ MODULE MixRound ------------------------------
(***************************************************************************)
(* What a round of the mixnet promises the one who runs it: the batch is   *)
(* handled at most once, with every message of the batch exactly once and  *)
(* otherwise only noise, and success is reported only for a batch that was *)
(* handled.  A round may fail at any time, also after the batch was        *)
(* handled (then the report got lost).                                     *)
(***************************************************************************)
EXTENDS Sequences, SequencesExt

CONSTANTS
    Expected(_),  \* the messages that a batch of onions carries
    IsNoise(_),   \* is this message noise of a server?
    Nil           \* nothing

VARIABLES
    status,  \* "new", "mixing", "ok" or "failed"
    batch,   \* the onions of the round
    output   \* the messages that were handled, or Nil

roundVars == <<status, batch, output>>

Init ==
    /\ status = "new"
    /\ output = Nil

Start ==
    /\ status = "new"
    /\ status' = "mixing"
    /\ UNCHANGED output

\* The last server handles the messages, also of a round that was given up.
Handle ==
    /\ status \in {"mixing", "failed"}
    /\ output = Nil
    /\ LET handled == ToSet(output')
       IN /\ output' # Nil
          /\ IsInjective(output')
          /\ {m \in handled : ~IsNoise(m)} = Expected(batch)
    /\ UNCHANGED <<status, batch>>

Succeed ==
    /\ status = "mixing"
    /\ output # Nil
    /\ status' = "ok"
    /\ UNCHANGED <<batch, output>>

GiveUp ==
    /\ status \in {"new", "mixing"}
    /\ status' = "failed"
    /\ UNCHANGED <<batch, output>>

Next == Start \/ Handle \/ Succeed \/ GiveUp

Spec == Init /\ [][Next]_roundVars
=============================================================================
