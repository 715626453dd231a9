------------------------------- MODULE MCKeys -------------------------------
(***************************************************************************)
(* All that keeps keys, for TLC: the keywheel, with the closed form of     *)
(* getSecret against the loop of the source, the handshake that makes its  *)
(* seeds, the files that identities are kept in, and the PKG servers.      *)
(***************************************************************************)
EXTENDS Keywheel, Handshake, Identity, PKG, TLC

CONSTANT one

\* Two clients that want the same name.
SameName == [c \in Clients |-> one]

\* The four share no state: a behaviour is one of them, while the others stay as
\* they are at first.
KeysInit ==
    /\ Init /\ HandshakeInit /\ IdentityInit /\ PKGInit
    /\ order = 1 \/ file["legacy"] = Absent

WheelAtRest == Init /\ UNCHANGED vars
HandshakeAtRest == HandshakeInit /\ UNCHANGED handshakeVars
FilesAtRest == IdentityInit /\ UNCHANGED identityVars
PKGAtRest == PKGInit /\ UNCHANGED pkgVars

\* Which of its initial states the handshake or the files have matters to no other.
Default == order = 1 /\ file["legacy"] = Absent

KeysNext ==
    \/ Default /\ HandshakeAtRest /\ FilesAtRest /\ PKGAtRest /\ Next
    \/ Default /\ WheelAtRest /\ HandshakeAtRest /\ FilesAtRest /\ PKGNext
    \/ WheelAtRest /\ FilesAtRest /\ PKGAtRest /\ HandshakeNext
    \/ WheelAtRest /\ HandshakeAtRest /\ PKGAtRest /\ IdentityNext

KeysSpec == KeysInit /\ [][KeysNext]_<<vars, handshakeVars, identityVars, pkgVars>>

\* Seeds are interchangeable, and so are usernames.
Symmetry == Permutations(Users) \cup Permutations(Seeds)
=============================================================================
