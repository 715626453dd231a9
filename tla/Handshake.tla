----------------------------- MODULE Handshake ------------------------------
(***************************************************************************)
(* The hybrid handshake of two friends: introductions of version 2         *)
(* (intro.go), signed with both halves of an identity (hybrid/identity.go) *)
(* and with a secret encapsulated to the peer's long-term ML-KEM key, and  *)
(* the keywheel seed that each side derives from two of them               *)
(* (keywheel_seed.go).                                                     *)
(*                                                                         *)
(* Keys, ciphertexts, signatures and hashes are symbolic: two are equal if *)
(* they are made in the same way of the same things.  Nothing calls this   *)
(* yet but the tests: that introductions of one dialing round are put      *)
(* together is how addfriend.go does it for version 1.                     *)
(***************************************************************************)
EXTENDS Integers, Sequences

CONSTANTS
    DialingRounds,  \* dialing rounds
    MaxIntros       \* bound: introductions of each side

Sides == {1, 2}
Peer(p) == 3 - p

ASSUME HandshakeAssumption == DialingRounds \subseteq Nat /\ MaxIntros \in Nat

VARIABLES
    order,  \* the side whose long-term ML-KEM key is first in byte order
    sent,   \* the introductions of each side
    seed    \* what each side has derived last, and from which two

handshakeVars == <<order, sent, seed>>

HandshakeInit ==
    /\ order \in Sides
    /\ sent = [p \in Sides |-> << >>]
    /\ seed = [p \in Sides |-> << >>]
-----------------------------------------------------------------------------
(***************************************************************************)
(* Identities: all keys of a side are derived from its Ed25519 seed, under *)
(* labels of their own.                                                    *)
(***************************************************************************)

edPub(p) == [label |-> "ed25519", of |-> p]
pqPub(p) == [label |-> "pq-id-binding", of |-> p]
kemPub(p) == [label |-> "mlkem-id-binding", of |-> p]

\* bytes.Compare of two ML-KEM keys is at most 0.
NotAfter(a, b) == a = b \/ a.of = order

\* A signature verifies under the key of its maker, over the message that was signed.
Signature(key, msg) == [key |-> key, msg |-> msg]
Verifies(key, msg, sig) == sig = Signature(key, msg)

\* Encapsulate, with fresh coins, and Decapsulate: a ciphertext for another key gives
\* some other secret, and no error.
Encapsulate(to, coins) == [ct |-> [to |-> to, coins |-> coins], ss |-> <<to, coins>>]
Decapsulate(p, ct) == IF ct.to = kemPub(p) THEN <<ct.to, ct.coins>> ELSE <<kemPub(p), ct>>
-----------------------------------------------------------------------------
(***************************************************************************)
(* Introductions.                                                          *)
(***************************************************************************)

\* Mutant of signedMsg: the long-term keys are not part of it.
signedMsgWithoutKeys(i) ==
    <<i.Version, i.Username, i.DHPublicKey, i.MLKEMCiphertext, i.DialingRound>>

\* signedMsg: the last is the hash of the two keys.
signedMsg(i) ==
    <<i.Version, i.Username, i.DHPublicKey, i.MLKEMCiphertext, i.DialingRound,
      <<i.LongTermKey, i.LongTermKeyPQ>>>>

\* What the PKG servers sign together: a name and its Ed25519 key.
Attestation(username, key) == Signature("pkg", <<username, key>>)

\* Sign: both signatures, over the same message.
Sign(i, p) == [i EXCEPT !.Version = 2,
    !.Signature = Signature(edPub(p), signedMsg([i EXCEPT !.Version = 2])),
    !.SignaturePQ = Signature(pqPub(p), signedMsg([i EXCEPT !.Version = 2]))]

\* UnmarshalBinary and Verify: all three must hold.
Verify(i) ==
    /\ i.Version = 2
    /\ Verifies(i.LongTermKey, signedMsg(i), i.Signature)
    /\ Verifies(i.LongTermKeyPQ, signedMsg(i), i.SignaturePQ)
    /\ i.ServerMultisig = Attestation(i.Username, i.LongTermKey)

\* The n-th introduction of side p for its peer.
Introduction(p, n, round) ==
    Sign([Version |-> 0, Username |-> p, DHPublicKey |-> <<p, n>>,
          MLKEMCiphertext |-> Encapsulate(kemPub(Peer(p)), <<p, n>>).ct,
          DialingRound |-> round, LongTermKey |-> edPub(p), LongTermKeyPQ |-> pqPub(p),
          Signature |-> << >>, SignaturePQ |-> << >>,
          ServerMultisig |-> Attestation(p, edPub(p)), Reserved |-> 0], p)

Send(p, round) ==
    /\ Len(sent[p]) < MaxIntros
    /\ sent' = [sent EXCEPT ![p] = Append(@, Introduction(p, Len(@) + 1, round))]
    /\ UNCHANGED <<order, seed>>
-----------------------------------------------------------------------------
(***************************************************************************)
(* The seed.                                                               *)
(***************************************************************************)

\* Mutant of canonicalAlpha: the two secrets stay in the caller's order.
canonicalAlphaNotSecrets(my, their) ==
    IF NotAfter(my.lt, their.lt) THEN <<my, their>>
    ELSE <<[their EXCEPT !.ss = my.ss], [my EXCEPT !.ss = their.ss]>>

\* canonicalAlpha: what is of the side whose long-term key comes first is first.
canonicalAlpha(my, their) == IF NotAfter(my.lt, their.lt) THEN <<my, their>> ELSE <<their, my>>

\* hybridKeywheelSeed of side p, with what it needs of its own introduction and of the
\* peer's; a private X25519 key is named by its public one.
hybridKeywheelSeed(p, mine, theirs, round) ==
    LET my == [lt |-> kemPub(p), ct |-> mine.MLKEMCiphertext, x |-> mine.DHPublicKey,
               ss |-> Encapsulate(kemPub(Peer(p)), mine.MLKEMCiphertext.coins).ss]
        their == [lt |-> kemPub(Peer(p)), ct |-> theirs.MLKEMCiphertext,
                  x |-> theirs.DHPublicKey, ss |-> Decapsulate(p, theirs.MLKEMCiphertext)]
        both == canonicalAlpha(my, their)
        transcript == <<both[1].x, both[2].x, both[1].lt, both[2].lt, both[1].ct, both[2].ct, round>>
    IN \* CombineKEMConcat: salt, key material and label of the key derivation.
       [salt |-> transcript, ikm |-> <<{my.x, their.x}, both[1].ss, both[2].ss>>,
        info |-> "keywheel-seed"]

\* matchToSent: the two are of one dialing round.
Matches(mine, theirs) == mine.DialingRound = theirs.DialingRound

\* A side gets an introduction of its peer, whichever and whenever, and derives the seed
\* from it and one of its own; it may do so again.
Derive(p, mine, theirs) ==
    /\ Verify(theirs)
    /\ Matches(mine, theirs)
    /\ seed' = [seed EXCEPT ![p] = <<[mine |-> mine, theirs |-> theirs,
                  key |-> hybridKeywheelSeed(p, mine, theirs, theirs.DialingRound)]>>]
    /\ UNCHANGED <<order, sent>>

HandshakeNext ==
    \E p \in Sides :
        \/ \E round \in DialingRounds : Send(p, round)
        \/ \E i \in DOMAIN sent[p], j \in DOMAIN sent[Peer(p)] :
             Derive(p, sent[p][i], sent[Peer(p)][j])

HandshakeSpec == HandshakeInit /\ [][HandshakeNext]_handshakeVars
-----------------------------------------------------------------------------
(***************************************************************************)
(* Properties.                                                             *)
(***************************************************************************)

\* Two sides that have derived a seed have the same one if, and only if, they derived it
\* from the same two introductions, although each passes its own things first
\* (keywheel_seed.go, canonicalAlpha).
SeedsAgree ==
    seed[1] # << >> /\ seed[2] # << >> =>
        (seed[1][1].key = seed[2][1].key
           <=> seed[1][1].mine = seed[2][1].theirs /\ seed[1][1].theirs = seed[2][1].mine)

\* The fields of an introduction that are replaced together.
Parts == {{"Username"}, {"DHPublicKey", "MLKEMCiphertext", "DialingRound"}, {"LongTermKey"},
          {"LongTermKeyPQ"}, {"Signature"}, {"SignaturePQ"}, {"ServerMultisig"}}

\* The halves of an introduction belong together: what verifies is an introduction that
\* was signed, all of it.  It is never put together of two, nor does one of the halves
\* come from somebody else who signs all the rest (intro.go, signedMsg: both signatures
\* cover both keys, as the servers attest only the first).
IntroIsWhole ==
    LET intros == UNION {{sent[p][n] : n \in DOMAIN sent[p]} : p \in Sides}
        mixed(i, j, fields) == [f \in DOMAIN i |-> IF f \in fields THEN j[f] ELSE i[f]]
        withHalfOf(p, i) ==
            LET k == [i EXCEPT !.LongTermKeyPQ = pqPub(p)]
            IN [k EXCEPT !.SignaturePQ = Signature(pqPub(p), signedMsg(k))]
    IN \A i \in intros, j \in intros, parts \in SUBSET Parts :
         \E m \in {mixed(i, j, UNION parts)} :
            /\ Verify(m) => m \in intros
            /\ \A p \in Sides : Verify(withHalfOf(p, m)) => withHalfOf(p, m) \in intros
=============================================================================
