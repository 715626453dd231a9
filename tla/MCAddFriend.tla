---------------------------- MODULE MCAddFriend -----------------------------
(***************************************************************************)
(* AddFriend on small instances: who sends requests to whom.               *)
(***************************************************************************)
EXTENDS AddFriend

CONSTANTS alice, bob, carol

Requests(pairs) == [c \in Clients |-> [u \in Clients |-> IF <<c, u>> \in pairs THEN 1 ELSE 0]]

\* Alice asks Bob.
OneRequest == Requests({<<alice, bob>>})

\* Alice and Bob ask each other.
CrossingRequests == Requests({<<alice, bob>>, <<bob, alice>>})

\* Alice asks Bob and Carol.
TwoFriends == Requests({<<alice, bob>>, <<alice, carol>>})
=============================================================================
