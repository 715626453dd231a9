------------------------------ MODULE MCMixnet ------------------------------
(***************************************************************************)
(* Batches for TLC: a request and a cover message; an onion twice; one     *)
(* that opens at the first server only, and a request; and nothing.        *)
(***************************************************************************)
EXTENDS Mixnet

Request(k, breaks) ==
    [from |-> 0, num |-> <<k>>, breaks |-> breaks, msg |-> [mailbox |-> 1, tail |-> <<k>>]]

Cover(k) ==
    [from |-> 0, num |-> <<k>>, breaks |-> N + 1, msg |-> [mailbox |-> 0, tail |-> << >>]]

SmallBatches ==
    {<<Request(1, N + 1), Cover(2)>>, <<Request(1, N + 1), Request(1, N + 1)>>,
     <<Request(1, 2), Request(2, N + 1)>>, << >>}

\* One noise message, for the dummy mailbox or for the other.
SmallNoise == {[b \in 0 .. NumMailboxes |-> IF b = box THEN 1 ELSE 0] : box \in 0 .. NumMailboxes}
=============================================================================
