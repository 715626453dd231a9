----------------------------- MODULE PKGProofs ------------------------------
(***************************************************************************)
(* What holds of any PKG servers and clients: any rounds, failed calls,    *)
(* handlers that outlive their call, and restarts.                         *)
(***************************************************************************)
EXTENDS PKG, TLAPS

\* Maps from some of S to T.
Maps(S, T) == UNION {[D -> T] : D \in SUBSET S}

Hashes == [hashOf : Nat]
Signatures == [round : PKGRounds, commitments : Maps(PKGs, Hashes)]
RoundStates == [keys : Nat, revealSignature : Signatures \cup {NoReveal}]
RevealedKeys == [keys : Nat, signature : Signatures]

\* Type invariant.
Types ==
    /\ rounds \in [PKGs -> Maps(PKGRounds, RoundStates)]
    /\ handlers \subseteq [pkg : PKGs, round : PKGRounds, step : {"insert", "prune"}, keys : Nat]
    /\ nextKeys \in [PKGs -> Nat]
    /\ users \in [PKGs -> Maps(Names, Clients)]
    /\ userLog \in [PKGs -> Maps(Names, Seq(Clients))]
    /\ txs \subseteq [client : Clients, pkg : PKGs]
    /\ pc \in {"idle", "commit", "reveal"}
    /\ round \in 0 .. MaxRound
    /\ pc # "idle" => round \in PKGRounds
    /\ at \in PKGs
    /\ asked \in BOOLEAN
    /\ commitments \in Maps(PKGs, Hashes)
    /\ settings \in Maps(PKGs, RevealedKeys)
    /\ announced \in Maps(PKGRounds, Maps(PKGs, RevealedKeys))
    /\ extracted \subseteq [client : Clients, pkg : PKGs, round : PKGRounds, keys : Nat]
    /\ latest \in [PKGs -> 0 .. MaxRound]
    /\ lost \in [PKGs -> SUBSET PKGRounds]
    /\ failures \in Nat

\* Nothing is of a round that the coordinator has not begun.  A handler of a round whose
\* call was answered has ended: the call that waits has at most one, and a round that
\* was announced has none.
HandlersEnd ==
    /\ \A h \in handlers : h.round <= round /\ h.round \notin DOMAIN announced
    /\ \A p \in PKGs : latest[p] <= round /\ \A r \in DOMAIN rounds[p] : r <= round
    /\ \A r \in DOMAIN announced : r <= round /\ (pc # "idle" => r < round)
    /\ pc = "commit" =>
         \A h \in handlers : h.round = round =>
            /\ asked
            /\ h.pkg = at
            /\ \A g \in handlers : g.round = round => g = h
    /\ pc = "reveal" => \A h \in handlers : h.round # round

\* Server p has these keys for round r, unless it has restarted or the round is over.
Keeps(p, r, keys) ==
    r \notin lost[p] /\ latest[p] <= r + 1 => r \in DOMAIN rounds[p] /\ rounds[p][r].keys = keys

\* What a server has revealed it keeps, and what it has pruned does not come back.
RevealedIsKept ==
    /\ pc = "commit" => settings = << >>
    /\ pc = "reveal" =>
         /\ DOMAIN settings = 1 .. at - 1
         /\ \A q \in 1 .. at - 1 : Keeps(q, round, settings[q].keys)
    /\ \A r \in DOMAIN announced :
         /\ DOMAIN announced[r] = PKGs
         /\ \A p \in PKGs : Keeps(p, r, announced[r][p].keys)
    /\ OldKeysForgotten

\* The log of a name is its one registration, and only its owner has extracted.
NamesAreOwned ==
    /\ \A p \in PKGs :
         /\ DOMAIN userLog[p] = DOMAIN users[p]
         /\ \A n \in DOMAIN users[p] : userLog[p][n] = <<users[p][n]>>
    /\ \A x \in extracted :
         /\ Username[x.client] \in DOMAIN users[x.pkg]
         /\ users[x.pkg][Username[x.client]] = x.client

\* The inductive invariant.
IInv == Types /\ HandlersEnd /\ RevealedIsKept /\ NamesAreOwned
-----------------------------------------------------------------------------
(***************************************************************************)
(* Maps.                                                                   *)
(***************************************************************************)

\* An empty map has no domain, and is one.
LEMMA EmptyMap ==
    ASSUME NEW S, NEW T
    PROVE  DOMAIN << >> = {} /\ << >> \in Maps(S, T)
<1>1. DOMAIN << >> = {} /\ << >> \in [{} -> T]
  OBVIOUS
<1>2. QED BY <1>1 DEF Maps

\* Where a map is defined, and what it holds.
LEMMA MapFacts ==
    ASSUME NEW S, NEW T, NEW f \in Maps(S, T)
    PROVE  /\ DOMAIN f \subseteq S
           /\ f \in [DOMAIN f -> T]
           /\ \A x \in DOMAIN f : f[x] \in T
BY DEF Maps

\* A function from some of S to T is a map.
LEMMA MapIntro ==
    ASSUME NEW S, NEW T, NEW D, D \subseteq S, NEW f \in [D -> T]
    PROVE  f \in Maps(S, T)
BY DEF Maps

\* With makes a map of a map.
LEMMA WithMap ==
    ASSUME NEW S, NEW T, NEW f \in Maps(S, T), NEW x \in S, NEW y \in T
    PROVE  With(f, x, y) \in Maps(S, T)
<1>1. With(f, x, y) \in [DOMAIN f \cup {x} -> T]
  BY MapFacts DEF With
<1>2. DOMAIN f \cup {x} \subseteq S
  BY MapFacts
<1>3. QED BY <1>1, <1>2, MapIntro

\* Recent leaves some rounds, as they are.
LEMMA RecentFacts ==
    ASSUME NEW r, NEW st
    PROVE  /\ DOMAIN Recent(r, st) = {x \in DOMAIN st : x >= r - 1}
           /\ \A x \in DOMAIN Recent(r, st) : Recent(r, st)[x] = st[x]
BY DEF Recent, Restrict

\* Recent makes a map of a map.
LEMMA RecentMap ==
    ASSUME NEW r, NEW S, NEW T, NEW st \in Maps(S, T)
    PROVE  Recent(r, st) \in Maps(S, T)
<1> DEFINE D == {x \in DOMAIN st : x >= r - 1}
<1>1. Recent(r, st) = [x \in D |-> st[x]]
  BY DEF Recent, Restrict
<1>2. D \subseteq S /\ \A x \in D : st[x] \in T
  BY MapFacts
<1>3. [x \in D |-> st[x]] \in [D -> T]
  BY <1>2
<1>4. [x \in D |-> st[x]] \in Maps(S, T)
  BY <1>2, <1>3, MapIntro
<1>5. QED BY <1>1, <1>4
-----------------------------------------------------------------------------
(***************************************************************************)
(* Types.                                                                  *)
(***************************************************************************)

\* Servers that were just installed satisfy the invariant.
LEMMA InitIInv == PKGInit => IInv
<1> SUFFICES ASSUME PKGInit PROVE IInv
  OBVIOUS
<1> USE PKGAssumption, EmptyMap
<1>1. Types
  <2>1. asked \in BOOLEAN
    BY Zenon DEF PKGInit
  <2>2. QED BY <2>1 DEF PKGInit, Types, PKGs
<1>2. HandlersEnd
  BY DEF PKGInit, HandlersEnd
<1>3. RevealedIsKept
  BY DEF PKGInit, RevealedIsKept, OldKeysForgotten
<1>4. NamesAreOwned
  BY DEF PKGInit, NamesAreOwned
<1>5. QED BY <1>1, <1>2, <1>3, <1>4 DEF IInv

\* What the type invariant says of single values.
LEMMA TypeFacts ==
    ASSUME Types
    PROVE  /\ round \in Nat /\ at \in Nat /\ 1 <= at /\ at <= NumPKGs
           /\ \A p \in PKGs :
                /\ rounds[p] \in Maps(PKGRounds, RoundStates)
                /\ latest[p] \in Nat
           /\ \A p \in PKGs : \A r \in DOMAIN rounds[p] :
                /\ r \in PKGRounds /\ r \in Nat
                /\ rounds[p][r] \in RoundStates
                /\ rounds[p][r].keys \in Nat
           /\ \A r \in DOMAIN announced : r \in Nat
           /\ \A h \in handlers :
                /\ h \in [pkg : PKGs, round : PKGRounds, step : {"insert", "prune"}, keys : Nat]
                /\ h.pkg \in PKGs /\ h.round \in PKGRounds /\ h.round \in Nat /\ h.keys \in Nat
<1> USE PKGAssumption
<1>1. \A r \in PKGRounds : r \in Nat
  BY DEF PKGRounds
<1>2. /\ round \in Nat /\ at \in Nat /\ 1 <= at /\ at <= NumPKGs
      /\ \A p \in PKGs : latest[p] \in Nat
  BY DEF Types, PKGs
<1>3. \A p \in PKGs : rounds[p] \in Maps(PKGRounds, RoundStates)
  BY DEF Types
<1>4. \A p \in PKGs : \A r \in DOMAIN rounds[p] : r \in PKGRounds /\ rounds[p][r] \in RoundStates
  BY <1>3, MapFacts
<1>5. \A st \in RoundStates : st.keys \in Nat
  BY DEF RoundStates
<1>6. \A r \in DOMAIN announced : r \in PKGRounds
  BY MapFacts DEF Types
<1>7. \A h \in handlers :
         /\ h \in [pkg : PKGs, round : PKGRounds, step : {"insert", "prune"}, keys : Nat]
         /\ h.pkg \in PKGs /\ h.round \in PKGRounds /\ h.keys \in Nat
  BY DEF Types
<1>8. QED BY <1>1, <1>2, <1>3, <1>4, <1>5, <1>6, <1>7

\* The state of a round after its keys are revealed.
LEMMA RevealedFacts ==
    ASSUME Types, NEW p \in PKGs, pc = "reveal", Reveals(p)
    PROVE  /\ Revealed(p) \in RoundStates
           /\ Revealed(p).keys = rounds[p][round].keys
           /\ Revealed(p).revealSignature \in Signatures
           /\ [rounds EXCEPT ![p][round] = Revealed(p)] \in [PKGs -> Maps(PKGRounds, RoundStates)]
<1>1. /\ round \in DOMAIN rounds[p] /\ round \in PKGRounds
      /\ rounds[p][round] \in RoundStates
  BY TypeFacts DEF Reveals
<1>2. [round |-> round, commitments |-> commitments] \in Signatures
  BY <1>1 DEF Types, Signatures
<1>3. /\ Revealed(p) \in RoundStates
      /\ Revealed(p).keys = rounds[p][round].keys
      /\ Revealed(p).revealSignature \in Signatures
  BY <1>1, <1>2 DEF Revealed, RoundStates
<1>4. rounds[p] \in [DOMAIN rounds[p] -> RoundStates] /\ DOMAIN rounds[p] \subseteq PKGRounds
  BY TypeFacts, MapFacts
<1>5. [rounds[p] EXCEPT ![round] = Revealed(p)] \in [DOMAIN rounds[p] -> RoundStates]
  BY <1>3, <1>4
<1>6. [rounds[p] EXCEPT ![round] = Revealed(p)] \in Maps(PKGRounds, RoundStates)
  BY <1>4, <1>5, MapIntro
<1>7. [rounds EXCEPT ![p][round] = Revealed(p)] \in [PKGs -> Maps(PKGRounds, RoundStates)]
  BY <1>6 DEF Types
<1>8. QED BY <1>3, <1>7

\* Every step keeps the types.
LEMMA TypesStep ==
    ASSUME IInv, [PKGNext]_pkgVars
    PROVE  Types'
<1> USE PKGAssumption
<1>0. Types
  BY DEF IInv
<1> USE <1>0
<1>1. CASE NewRound
  <2>1. asked' \in BOOLEAN
    BY <1>1, Zenon DEF NewRound
  <2>2. round' \in PKGRounds /\ at' \in PKGs
    BY <1>1 DEF NewRound, Types, PKGRounds, PKGs
  <2>3. round' \in 0 .. MaxRound
    BY <2>2 DEF PKGRounds
  <2>4. QED BY <1>1, <2>1, <2>2, <2>3, EmptyMap DEF NewRound, Types, serverVars, userVars
<1>2. ASSUME NEW p \in PKGs, commitHandler(p) PROVE Types'
  <2>1. round \in PKGRounds /\ nextKeys[p] \in Nat
    BY <1>2 DEF commitHandler, Types
  <2>2. round \in DOMAIN rounds[p] => rounds[p][round].keys \in Nat
    BY TypeFacts
  <2>3. /\ handlers' \subseteq [pkg : PKGs, round : PKGRounds, step : {"insert", "prune"}, keys : Nat]
        /\ nextKeys' \in [PKGs -> Nat]
    <3>1. CASE round \in DOMAIN rounds[p]
      <4>1. [pkg |-> p, round |-> round, step |-> "prune", keys |-> rounds[p][round].keys]
              \in [pkg : PKGs, round : PKGRounds, step : {"insert", "prune"}, keys : Nat]
        BY <2>1, <2>2, <3>1
      <4>2. QED BY <1>2, <3>1, <4>1 DEF commitHandler, Types
    <3>2. CASE round \notin DOMAIN rounds[p]
      <4>1. [pkg |-> p, round |-> round, step |-> "insert", keys |-> nextKeys[p]]
              \in [pkg : PKGs, round : PKGRounds, step : {"insert", "prune"}, keys : Nat]
        BY <2>1
      <4>2. QED BY <1>2, <2>1, <3>2, <4>1 DEF commitHandler, Types
    <3>3. QED BY <3>1, <3>2
  <2>4. QED BY <1>2, <2>3 DEF commitHandler, Types, userVars
<1>3. ASSUME NEW p \in PKGs, revealHandler(p) PROVE Types'
  <2>1. round \in PKGRounds /\ pc = "reveal" /\ Reveals(p)
    BY <1>3 DEF revealHandler, Types
  <2>2. [keys |-> rounds[p][round].keys, signature |-> Revealed(p).revealSignature] \in RevealedKeys
    BY <2>1, RevealedFacts, TypeFacts DEF Reveals, RevealedKeys
  <2>3. settings' \in Maps(PKGs, RevealedKeys)
    BY <1>3, <2>2, WithMap DEF revealHandler, Types
  <2>4. announced' \in Maps(PKGRounds, Maps(PKGs, RevealedKeys))
    <3>1. With(announced, round, settings') \in Maps(PKGRounds, Maps(PKGs, RevealedKeys))
      BY <2>1, <2>3, WithMap DEF Types
    <3>2. QED BY <1>3, <3>1 DEF revealHandler, Types
  <2>5. rounds' \in [PKGs -> Maps(PKGRounds, RoundStates)]
    BY <1>3, <2>1, RevealedFacts DEF revealHandler
  <2>6. at' \in PKGs /\ asked' \in BOOLEAN /\ pc' \in {"idle", "reveal"}
    <3>1. asked' = FALSE
      BY <1>3 DEF revealHandler, Advance
    <3>2. asked' \in BOOLEAN
      BY <3>1, Zenon
    <3>3. at' \in PKGs /\ pc' \in {"idle", "reveal"}
      BY <1>3 DEF revealHandler, Advance, PKGs
    <3>4. QED BY <3>2, <3>3
  <2>7. QED BY <1>3, <2>1, <2>3, <2>4, <2>5, <2>6 DEF revealHandler, Types, userVars
<1>4. ASSUME NEW p \in PKGs, RevealRefused(p) PROVE Types'
  BY <1>4 DEF RevealRefused, Types, serverVars, userVars
<1>5. ASSUME NEW h \in handlers, InsertRound(h) PROVE Types'
  <2> DEFINE st == IF h.round \in DOMAIN rounds[h.pkg] THEN rounds[h.pkg][h.round]
                   ELSE [keys |-> h.keys, revealSignature |-> NoReveal]
  <2>1. h \in [pkg : PKGs, round : PKGRounds, step : {"insert", "prune"}, keys : Nat]
    BY TypeFacts
  <2>2. st \in RoundStates
    BY <2>1, TypeFacts DEF RoundStates
  <2>3. st.keys \in Nat
    BY <2>2 DEF RoundStates
  <2>4. With(rounds[h.pkg], h.round, st) \in Maps(PKGRounds, RoundStates)
    BY <2>1, <2>2, TypeFacts, WithMap
  <2>5. /\ rounds' = [rounds EXCEPT ![h.pkg] = With(rounds[h.pkg], h.round, st)]
        /\ handlers' = (handlers \ {h}) \cup {[h EXCEPT !.step = "prune", !.keys = st.keys]}
    BY <1>5 DEF InsertRound
  <2>6. rounds' \in [PKGs -> Maps(PKGRounds, RoundStates)]
    BY <2>4, <2>5 DEF Types
  <2>7. [h EXCEPT !.step = "prune", !.keys = st.keys]
          \in [pkg : PKGs, round : PKGRounds, step : {"insert", "prune"}, keys : Nat]
    BY <2>1, <2>3
  <2>8. handlers' \subseteq [pkg : PKGs, round : PKGRounds, step : {"insert", "prune"}, keys : Nat]
    BY <2>5, <2>7 DEF Types
  <2>9. QED BY <1>5, <2>6, <2>8 DEF InsertRound, Types, userVars, callVars
<1>6. ASSUME NEW h \in handlers, PruneRounds(h) PROVE Types'
  <2>1. h.pkg \in PKGs /\ h.round \in PKGRounds /\ h.round \in Int /\ h.keys \in Nat
    BY TypeFacts
  <2>2. Recent(h.round, rounds[h.pkg]) \in Maps(PKGRounds, RoundStates)
    BY TypeFacts, <2>1, RecentMap
  <2>3. rounds' \in [PKGs -> Maps(PKGRounds, RoundStates)]
    BY <1>6, <2>2 DEF PruneRounds, Types
  <2>4. latest' \in [PKGs -> 0 .. MaxRound]
    BY <1>6, <2>1 DEF PruneRounds, Types, PKGRounds
  <2>5. commitTo(h.keys) \in Hashes
    BY <2>1 DEF commitTo, Hashes
  <2>6. commitments' \in Maps(PKGs, Hashes)
    BY <1>6, <2>1, <2>5, WithMap DEF PruneRounds, Types
  <2>7. at' \in PKGs /\ asked' \in BOOLEAN /\ (pc' = pc \/ (pc # "idle" /\ pc' \in {"commit", "reveal"}))
    <3>1. asked' = asked \/ asked' = FALSE
      BY <1>6 DEF PruneRounds, Advance
    <3>2. asked \in BOOLEAN
      BY DEF Types
    <3>3. asked' \in BOOLEAN
      BY <3>1, <3>2, Zenon
    <3>4. at' = at \/ at' = IF h.pkg = NumPKGs THEN 1 ELSE h.pkg + 1
      BY <1>6 DEF PruneRounds, Advance
    <3>5. at' \in PKGs
      BY <2>1, <3>4, TypeFacts DEF PKGs
    <3>6. pc' = pc \/ (pc # "idle" /\ pc' \in {"commit", "reveal"})
      BY <1>6 DEF PruneRounds
    <3>7. QED BY <3>3, <3>5, <3>6
  <2>8. handlers' \subseteq handlers
    BY <1>6 DEF PruneRounds
  <2>9. QED BY <1>6, <2>3, <2>4, <2>6, <2>7, <2>8 DEF PruneRounds, Types, userVars
<1>7. CASE CallFails
  <2>1. rounds' \in [PKGs -> Maps(PKGRounds, RoundStates)]
    BY <1>7, RevealedFacts DEF CallFails, Types
  <2>2. QED BY <1>7, <2>1 DEF CallFails, Fail, Types, userVars
<1>8. ASSUME NEW p \in PKGs, RestartPKG(p) PROVE Types'
  <2>1. rounds' \in [PKGs -> Maps(PKGRounds, RoundStates)]
    BY <1>8, EmptyMap DEF RestartPKG, Types
  <2>2. lost' \in [PKGs -> SUBSET PKGRounds]
    BY <1>8, TypeFacts DEF RestartPKG, Types
  <2>3. QED BY <1>8, <2>1, <2>2 DEF RestartPKG, Fail, Types, userVars
<1>9. ASSUME NEW c \in Clients, NEW p \in PKGs, register(c, p) PROVE Types'
  BY <1>9 DEF register, Types, serverVars, callVars
<1>10. ASSUME NEW tx \in txs, CommitRegister(tx) PROVE Types'
  <2> DEFINE name == Username[tx.client]
             old == IF name \in DOMAIN userLog[tx.pkg] THEN userLog[tx.pkg][name] ELSE << >>
  <2>1. tx.client \in Clients /\ tx.pkg \in PKGs /\ name \in Names
    BY DEF Types
  <2>2. /\ users[tx.pkg] \in Maps(Names, Clients)
        /\ userLog[tx.pkg] \in Maps(Names, Seq(Clients))
    BY <2>1 DEF Types
  <2>3. old \in Seq(Clients)
    BY <2>2, MapFacts
  <2>4. Append(old, tx.client) \in Seq(Clients)
    BY <2>1, <2>3
  <2>5. /\ With(users[tx.pkg], name, tx.client) \in Maps(Names, Clients)
        /\ With(userLog[tx.pkg], name, Append(old, tx.client)) \in Maps(Names, Seq(Clients))
    BY <2>1, <2>2, <2>4, WithMap
  <2>6. /\ users' \in [PKGs -> Maps(Names, Clients)]
        /\ userLog' \in [PKGs -> Maps(Names, Seq(Clients))]
    <3>1. CASE Conflicts(tx)
      BY <1>10, <3>1 DEF CommitRegister, Types
    <3>2. CASE ~Conflicts(tx)
      <4>1. /\ users' = [users EXCEPT ![tx.pkg] = With(users[tx.pkg], name, tx.client)]
            /\ userLog' = [userLog EXCEPT ![tx.pkg] =
                              With(userLog[tx.pkg], name, Append(old, tx.client))]
        BY <1>10, <3>2 DEF CommitRegister
      <4>2. QED BY <2>1, <2>5, <4>1 DEF Types
    <3>3. QED BY <3>1, <3>2
  <2>7. QED BY <1>10, <2>6 DEF CommitRegister, Types, serverVars, callVars
<1>11. ASSUME NEW c \in Clients, NEW p \in PKGs, NEW r \in PKGRounds, extract(c, p, r) PROVE Types'
  <2>1. rounds[p][r].keys \in Nat
    BY <1>11, TypeFacts DEF extract
  <2>2. extracted' = extracted \cup
          {[client |-> c, pkg |-> p, round |-> r, keys |-> rounds[p][r].keys]}
    BY <1>11 DEF extract
  <2>3. extracted' \subseteq [client : Clients, pkg : PKGs, round : PKGRounds, keys : Nat]
    BY <2>1, <2>2 DEF Types
  <2>4. QED BY <1>11, <2>3 DEF extract, Types, serverVars, callVars
<1>12. CASE UNCHANGED pkgVars
  BY <1>12 DEF pkgVars, serverVars, userVars, callVars, Types
<1>13. QED
  BY <1>1, <1>2, <1>3, <1>4, <1>5, <1>6, <1>7, <1>8, <1>9, <1>10, <1>11, <1>12
  DEF PKGNext, OpenStep
-----------------------------------------------------------------------------
(***************************************************************************)
(* Rounds.                                                                 *)
(***************************************************************************)

\* What steps of clients leave alone.
ServersRest == UNCHANGED <<serverVars, callVars, lost>>

\* A server's keys change only if a restart or a later commit takes them, for good.
RoundsPersist ==
    \A p \in PKGs :
        /\ latest[p] <= latest'[p]
        /\ lost[p] \subseteq lost'[p]
        /\ \A r \in DOMAIN rounds[p] :
             \/ r \in DOMAIN rounds'[p] /\ rounds'[p][r].keys = rounds[p][r].keys
             \/ r \in lost'[p]
             \/ latest'[p] > r + 1

\* It is so in every step.
LEMMA RoundsPersistStep ==
    ASSUME IInv, [PKGNext]_pkgVars
    PROVE  RoundsPersist
<1> USE PKGAssumption
<1>0. Types
  BY DEF IInv
<1>a. \A p \in PKGs : latest[p] \in Nat /\ \A r \in DOMAIN rounds[p] : r \in Nat
  BY <1>0, TypeFacts
<1>1. CASE UNCHANGED <<rounds, latest, lost>>
  BY <1>1, <1>a DEF RoundsPersist
<1>2. ASSUME NEW p \in PKGs, pc = "reveal", Reveals(p), UNCHANGED <<latest, lost>>,
             rounds' = [rounds EXCEPT ![p][round] = Revealed(p)]
      PROVE  RoundsPersist
  <2>1. Revealed(p).keys = rounds[p][round].keys
    BY <1>0, <1>2, RevealedFacts
  <2>2. \A q \in PKGs : /\ DOMAIN rounds'[q] = DOMAIN rounds[q]
                        /\ \A r \in DOMAIN rounds[q] : rounds'[q][r].keys = rounds[q][r].keys
    BY <1>0, <1>2, <2>1 DEF Types, Reveals
  <2>3. QED BY <1>2, <1>a, <2>2 DEF RoundsPersist
<1>3. ASSUME NEW h \in handlers, InsertRound(h) PROVE RoundsPersist
  <2>1. h.pkg \in PKGs
    BY <1>0, TypeFacts
  <2>2. \A q \in PKGs : \A r \in DOMAIN rounds[q] : r \in DOMAIN rounds'[q] /\ rounds'[q][r] = rounds[q][r]
    BY <1>0, <1>3, <2>1 DEF InsertRound, Types, With
  <2>3. QED BY <1>3, <1>a, <2>2 DEF InsertRound, RoundsPersist
<1>4. ASSUME NEW h \in handlers, PruneRounds(h) PROVE RoundsPersist
  <2>1. h.pkg \in PKGs /\ h.round \in Nat
    BY <1>0, TypeFacts
  <2>2. /\ DOMAIN Recent(h.round, rounds[h.pkg]) = {x \in DOMAIN rounds[h.pkg] : x >= h.round - 1}
        /\ \A x \in DOMAIN Recent(h.round, rounds[h.pkg]) :
             Recent(h.round, rounds[h.pkg])[x] = rounds[h.pkg][x]
    BY DEF Recent, Restrict
  <2>3. /\ rounds' = [rounds EXCEPT ![h.pkg] = Recent(h.round, rounds[h.pkg])]
        /\ latest' = [latest EXCEPT ![h.pkg] = IF @ < h.round THEN h.round ELSE @]
        /\ lost' = lost
    BY <1>4 DEF PruneRounds
  <2>4. latest'[h.pkg] >= h.round /\ \A p \in PKGs : latest[p] <= latest'[p]
    BY <1>0, <1>a, <2>1, <2>3 DEF Types
  <2>5. \A p \in PKGs : \A r \in DOMAIN rounds[p] :
           \/ r \in DOMAIN rounds'[p] /\ rounds'[p][r] = rounds[p][r]
           \/ p = h.pkg /\ r < h.round - 1
    <3> SUFFICES ASSUME NEW p \in PKGs, NEW r \in DOMAIN rounds[p]
                 PROVE  \/ r \in DOMAIN rounds'[p] /\ rounds'[p][r] = rounds[p][r]
                        \/ p = h.pkg /\ r < h.round - 1
      OBVIOUS
    <3>1. CASE p = h.pkg
      <4>1. rounds'[p] = Recent(h.round, rounds[p])
        BY <1>0, <2>3, <3>1 DEF Types
      <4>2. QED BY <1>a, <2>1, <2>2, <3>1, <4>1
    <3>2. CASE p # h.pkg
      BY <1>0, <2>3, <3>2 DEF Types
    <3>3. QED BY <3>1, <3>2
  <2>6. \A p \in PKGs : latest'[p] \in Nat
    BY <1>0, <1>a, <2>1, <2>3 DEF Types
  <2>7. QED BY <1>a, <2>1, <2>3, <2>4, <2>5, <2>6 DEF RoundsPersist
<1>5. ASSUME NEW p \in PKGs, RestartPKG(p) PROVE RoundsPersist
  BY <1>0, <1>a, <1>5 DEF RestartPKG, RoundsPersist, Types
<1>6. QED
  <2>1. CASE NewRound
    BY <1>1, <2>1 DEF NewRound, serverVars
  <2>2. ASSUME NEW p \in PKGs, commitHandler(p) \/ RevealRefused(p) PROVE RoundsPersist
    BY <1>1, <2>2 DEF commitHandler, RevealRefused, serverVars
  <2>3. ASSUME NEW p \in PKGs, revealHandler(p) PROVE RoundsPersist
    BY <1>2, <2>3 DEF revealHandler
  <2>4. CASE CallFails
    BY <1>0, <1>1, <1>2, <2>4 DEF CallFails, Types
  <2>5. ASSUME NEW c \in Clients, NEW p \in PKGs,
               register(c, p) \/ \E r \in PKGRounds : extract(c, p, r) PROVE RoundsPersist
    BY <1>1, <2>5 DEF register, extract, serverVars
  <2>6. ASSUME NEW tx \in txs, CommitRegister(tx) PROVE RoundsPersist
    BY <1>1, <2>6 DEF CommitRegister, serverVars
  <2>7. CASE UNCHANGED pkgVars
    BY <1>1, <2>7 DEF pkgVars, serverVars
  <2>8. QED
    BY <1>3, <1>4, <1>5, <2>1, <2>2, <2>3, <2>4, <2>5, <2>6, <2>7 DEF PKGNext, OpenStep

\* Steps that begin and end no call keep the handlers in order.
LEMMA HandlersEndRest ==
    ASSUME IInv, Types', UNCHANGED <<round, at, asked, announced>>,
           pc' = pc \/ pc' = "idle",
           handlers' \subseteq handlers,
           \A p \in PKGs : /\ latest'[p] <= round
                           /\ \A r \in DOMAIN rounds'[p] : r <= round
    PROVE  HandlersEnd'
BY DEF IInv, HandlersEnd, Types

\* Every step keeps the handlers in order.
LEMMA HandlersEndStep ==
    ASSUME IInv, [PKGNext]_pkgVars
    PROVE  HandlersEnd'
<1> USE PKGAssumption
<1>0. Types /\ HandlersEnd /\ Types'
  BY TypesStep DEF IInv
<1>a. round \in Int /\ \A p \in PKGs : latest[p] \in Int /\ \A r \in DOMAIN rounds[p] : r \in Int
  BY <1>0, TypeFacts
<1>b. \A r \in DOMAIN announced : r \in Int
  BY <1>0, TypeFacts
<1>c. \A h \in handlers : h.pkg \in PKGs /\ h.round \in Int
  BY <1>0, TypeFacts
<1>1. CASE NewRound
  BY <1>0, <1>1, <1>a, <1>b, <1>c DEF NewRound, HandlersEnd, serverVars
<1>2. ASSUME NEW p \in PKGs, commitHandler(p) PROVE HandlersEnd'
  <2>1. PICK new : new.round = round /\ new.pkg = p /\ handlers' = handlers \cup {new}
    BY <1>2 DEF commitHandler
  <2>2. pc = "commit" /\ at = p /\ ~asked /\ asked'
        /\ UNCHANGED <<rounds, latest, pc, round, at, announced>>
    BY <1>2 DEF commitHandler
  <2>3. \A h \in handlers : h.round # round
    BY <1>0, <2>2 DEF HandlersEnd
  <2>4. round \notin DOMAIN announced
    BY <1>0, <1>a, <1>b, <2>2 DEF HandlersEnd
  <2>5. QED BY <1>0, <1>a, <2>1, <2>2, <2>3, <2>4 DEF HandlersEnd
<1>3. ASSUME NEW p \in PKGs, revealHandler(p) PROVE HandlersEnd'
  <2>1. /\ pc = "reveal" /\ Reveals(p) /\ pc' \in {"idle", "reveal"}
        /\ UNCHANGED <<handlers, latest, round>>
        /\ rounds' = [rounds EXCEPT ![p][round] = Revealed(p)]
    BY <1>3 DEF revealHandler
  <2>2. DOMAIN announced' \subseteq DOMAIN announced \cup {round} /\ (pc' # "idle" => announced' = announced)
    BY <1>3 DEF revealHandler, With
  <2>3. \A q \in PKGs : DOMAIN rounds'[q] = DOMAIN rounds[q]
    BY <1>0, <2>1 DEF Types
  <2>4. QED BY <1>0, <1>a, <1>b, <1>c, <2>1, <2>2, <2>3 DEF HandlersEnd
<1>4. ASSUME NEW p \in PKGs, RevealRefused(p) PROVE HandlersEnd'
  BY <1>0, <1>4 DEF RevealRefused, HandlersEnd, serverVars
<1>5. ASSUME NEW h \in handlers, InsertRound(h) PROVE HandlersEnd'
  <2>1. PICK new : handlers' = (handlers \ {h}) \cup {new} /\ new.round = h.round /\ new.pkg = h.pkg
    <3>1. h \in [pkg : PKGs, round : PKGRounds, step : {"insert", "prune"}, keys : Nat]
      BY <1>0, TypeFacts
    <3> DEFINE st == IF h.round \in DOMAIN rounds[h.pkg] THEN rounds[h.pkg][h.round]
                     ELSE [keys |-> h.keys, revealSignature |-> NoReveal]
    <3>2. handlers' = (handlers \ {h}) \cup {[h EXCEPT !.step = "prune", !.keys = st.keys]}
      BY <1>5 DEF InsertRound
    <3>3. ASSUME NEW keys PROVE [h EXCEPT !.step = "prune", !.keys = keys].round = h.round
                             /\ [h EXCEPT !.step = "prune", !.keys = keys].pkg = h.pkg
      BY <3>1
    <3> HIDE DEF st
    <3>4. QED BY <3>2, <3>3
  <2>2. \A p \in PKGs : DOMAIN rounds'[p] \subseteq DOMAIN rounds[p] \cup {h.round}
    BY <1>0, <1>5, <1>c DEF InsertRound, Types, With
  <2>3. UNCHANGED <<latest, pc, round, at, asked, announced>>
    BY <1>5 DEF InsertRound, callVars
  <2>4. \A p \in PKGs : latest'[p] <= round /\ \A r \in DOMAIN rounds'[p] : r <= round
    BY <1>0, <2>2, <2>3 DEF HandlersEnd
  <2>5. QED BY <1>0, <2>1, <2>3, <2>4 DEF HandlersEnd
<1>6. ASSUME NEW h \in handlers, PruneRounds(h) PROVE HandlersEnd'
  <2>1. h.round <= round /\ h.round \in Int /\ h.pkg \in PKGs
    BY <1>0, <1>c DEF HandlersEnd
  <2>2. DOMAIN Recent(h.round, rounds[h.pkg]) \subseteq DOMAIN rounds[h.pkg]
    BY DEF Recent, Restrict
  <2>3. \A p \in PKGs : latest'[p] <= round /\ \A r \in DOMAIN rounds'[p] : r <= round
    BY <1>0, <1>6, <1>a, <2>1, <2>2 DEF PruneRounds, HandlersEnd, Types
  <2>4. handlers' = handlers \ {h} /\ UNCHANGED <<round, announced>>
    BY <1>6 DEF PruneRounds
  <2>5. CASE pc = "commit" /\ round = h.round /\ at = h.pkg
    <3>1. pc' \in {"commit", "reveal"} /\ ~asked'
      BY <1>6, <2>5 DEF PruneRounds, Advance
    <3>2. \A g \in handlers' : g.round # round
      BY <1>0, <2>4, <2>5 DEF HandlersEnd
    <3>3. QED BY <1>0, <2>3, <2>4, <2>5, <3>1, <3>2 DEF HandlersEnd
  <2>6. CASE ~(pc = "commit" /\ round = h.round /\ at = h.pkg)
    <3>1. UNCHANGED <<pc, at, asked>>
      BY <1>6, <2>6 DEF PruneRounds
    <3>2. QED BY <1>0, <2>3, <2>4, <3>1, HandlersEndRest
  <2>7. QED BY <2>5, <2>6
<1>7. CASE CallFails
  <2>1. \A p \in PKGs : DOMAIN rounds'[p] = DOMAIN rounds[p]
    <3>1. CASE UNCHANGED rounds
      BY <3>1
    <3>2. CASE rounds' = [rounds EXCEPT ![at][round] = Revealed(at)]
      BY <1>0, <3>2 DEF Types
    <3>3. QED BY <1>7, <3>1, <3>2 DEF CallFails
  <2>2. QED BY <1>0, <1>7, <2>1, HandlersEndRest DEF CallFails, HandlersEnd
<1>8. ASSUME NEW p \in PKGs, RestartPKG(p) PROVE HandlersEnd'
  <2>1. \A q \in PKGs : DOMAIN rounds'[q] \subseteq DOMAIN rounds[q]
    BY <1>0, <1>8, EmptyMap DEF RestartPKG, Types
  <2>2. QED BY <1>0, <1>8, <2>1, HandlersEndRest DEF RestartPKG, HandlersEnd
<1>9. CASE ServersRest
  BY <1>0, <1>9 DEF ServersRest, serverVars, callVars, HandlersEnd
<1>10. QED
  BY <1>1, <1>2, <1>3, <1>4, <1>5, <1>6, <1>7, <1>8, <1>9
  DEF PKGNext, OpenStep, register, CommitRegister, extract, ServersRest, pkgVars
-----------------------------------------------------------------------------
\* If the coordinator's side does not change, what was revealed is still kept.
LEMMA RevealedIsKeptRest ==
    ASSUME IInv, [PKGNext]_pkgVars, UNCHANGED <<round, settings, announced>>,
           pc' = "commit" => pc = "commit",
           pc' = "reveal" => (pc = "reveal" /\ at' = at) \/ (pc = "commit" /\ at' = 1),
           \A p \in PKGs : \A r \in DOMAIN rounds'[p] : r \in DOMAIN announced => r >= latest'[p] - 1
    PROVE  RevealedIsKept'
<1> USE PKGAssumption
<1>0. Types /\ RevealedIsKept /\ RoundsPersist /\ Types'
  BY RoundsPersistStep, TypesStep DEF IInv
<1>1. ASSUME NEW p \in PKGs, NEW r \in Nat, NEW keys, Keeps(p, r, keys) PROVE Keeps(p, r, keys)'
  <2>1. latest[p] \in Nat /\ latest'[p] \in Nat
    BY <1>0 DEF Types
  <2>2. QED BY <1>0, <1>1, <2>1 DEF RoundsPersist, Keeps
<1>2. pc' = "reveal" => \A q \in 1 .. at' - 1 : Keeps(q, round, settings[q].keys)'
  <2> SUFFICES ASSUME pc' = "reveal", NEW q \in 1 .. at' - 1
               PROVE  Keeps(q, round, settings[q].keys)'
    OBVIOUS
  <2>1. pc = "reveal" /\ at' = at
    OBVIOUS
  <2>a. q \in PKGs /\ round \in Nat
    BY <1>0, <2>1, TypeFacts DEF PKGs
  <2>2. Keeps(q, round, settings[q].keys)
    BY <1>0 DEF RevealedIsKept
  <2>3. QED BY <1>1, <2>a, <2>2 DEF Keeps
<1>3. \A r \in DOMAIN announced : \A p \in PKGs : Keeps(p, r, announced[r][p].keys)'
  <2> SUFFICES ASSUME NEW r \in DOMAIN announced, NEW p \in PKGs
               PROVE  Keeps(p, r, announced[r][p].keys)'
    OBVIOUS
  <2>1. r \in Nat
    BY <1>0, TypeFacts
  <2>2. Keeps(p, r, announced[r][p].keys)
    BY <1>0 DEF RevealedIsKept
  <2>3. QED BY <1>1, <2>1, <2>2 DEF Keeps
<1>4. /\ pc' = "commit" => settings = << >>
      /\ pc' = "reveal" => DOMAIN settings = 1 .. at' - 1
  BY <1>0, EmptyMap DEF RevealedIsKept
<1>5. QED BY <1>0, <1>2, <1>3, <1>4 DEF RevealedIsKept, OldKeysForgotten

\* Every step keeps what was revealed.
LEMMA RevealedIsKeptStep ==
    ASSUME IInv, [PKGNext]_pkgVars
    PROVE  RevealedIsKept'
<1> USE PKGAssumption
<1>0. Types /\ HandlersEnd /\ RevealedIsKept /\ RoundsPersist /\ Types'
  BY RoundsPersistStep, TypesStep DEF IInv
<1>a. round \in Nat /\ \A p \in PKGs : latest[p] \in Nat /\ \A r \in DOMAIN rounds[p] : r \in Nat
  BY <1>0, TypeFacts
<1>b. \A h \in handlers : h.pkg \in PKGs /\ h.round \in Nat
  BY <1>0, TypeFacts
<1>c. \A q \in PKGs : \A r \in DOMAIN rounds[q] : r \in DOMAIN announced => r >= latest[q] - 1
  BY <1>0 DEF RevealedIsKept, OldKeysForgotten
<1>1. CASE NewRound
  <2>1. /\ pc' = "commit" /\ settings' = << >>
        /\ UNCHANGED <<rounds, latest, lost, announced>>
    BY <1>1 DEF NewRound, serverVars
  <2>2. QED BY <1>0, <2>1 DEF RevealedIsKept, OldKeysForgotten, Keeps
<1>2. ASSUME NEW p \in PKGs, commitHandler(p) PROVE RevealedIsKept'
  BY <1>2, <1>c, RevealedIsKeptRest DEF commitHandler
<1>3. ASSUME NEW p \in PKGs, revealHandler(p) PROVE RevealedIsKept'
  <2> DEFINE new == [keys |-> rounds[p][round].keys, signature |-> Revealed(p).revealSignature]
  <2>1. /\ pc = "reveal" /\ at = p /\ Reveals(p) /\ round \in DOMAIN rounds[p]
        /\ rounds' = [rounds EXCEPT ![p][round] = Revealed(p)]
        /\ settings' = With(settings, p, new)
        /\ UNCHANGED <<round, latest, lost>>
    BY <1>3 DEF revealHandler, Reveals
  <2>2. Revealed(p).keys = rounds[p][round].keys
    BY <1>0, <2>1, RevealedFacts
  <2>3. \A q \in PKGs : /\ DOMAIN rounds'[q] = DOMAIN rounds[q]
                        /\ \A r \in DOMAIN rounds[q] : rounds'[q][r].keys = rounds[q][r].keys
    BY <1>0, <2>1, <2>2 DEF Types
  <2>4. \A q \in PKGs : \A r, keys : Keeps(q, r, keys) =>
          (r \notin lost[q] /\ latest[q] <= r + 1 =>
             r \in DOMAIN rounds'[q] /\ rounds'[q][r].keys = keys)
    BY <2>3 DEF Keeps
  <2>5. DOMAIN settings' = 1 .. p /\ p \in 1 .. NumPKGs
    BY <1>0, <2>1 DEF RevealedIsKept, PKGs, With
  <2>6. \A q \in 1 .. p : Keeps(q, round, settings[q].keys)'
    <3> SUFFICES ASSUME NEW q \in 1 .. p PROVE Keeps(q, round, settings[q].keys)'
      OBVIOUS
    <3>1. q \in PKGs
      BY DEF PKGs
    <3>2. CASE q = p
      BY <2>1, <2>3, <3>1, <3>2 DEF Keeps, With
    <3>3. CASE q # p
      <4>1. q \in 1 .. at - 1 /\ q \in DOMAIN settings /\ settings'[q] = settings[q]
        BY <1>0, <2>1, <2>5, <3>3 DEF RevealedIsKept, PKGs, With
      <4>2. Keeps(q, round, settings[q].keys)
        BY <1>0, <2>1, <4>1 DEF RevealedIsKept
      <4>3. QED BY <2>1, <2>3, <3>1, <4>1, <4>2 DEF Keeps
    <3>4. QED BY <3>2, <3>3
  <2>7. \A r \in DOMAIN announced : /\ DOMAIN announced[r] = PKGs
                                   /\ \A q \in PKGs : Keeps(q, r, announced[r][q].keys)
    BY <1>0 DEF RevealedIsKept
  <2>8. \A r \in DOMAIN announced : \A q \in PKGs :
          r \notin lost'[q] /\ latest'[q] <= r + 1 =>
             r \in DOMAIN rounds'[q] /\ rounds'[q][r].keys = announced[r][q].keys
    BY <2>1, <2>3, <2>7 DEF Keeps
  <2>9. CASE p = NumPKGs
    <3>1. pc' = "idle" /\ (announced' = announced \/ announced' = With(announced, round, settings'))
      BY <1>3, <2>9 DEF revealHandler
    <3>2. CASE announced' = announced
      BY <1>c, <2>1, <2>3, <2>7, <2>8, <3>1, <3>2 DEF RevealedIsKept, OldKeysForgotten, Keeps
    <3>3. CASE announced' = With(announced, round, settings')
      <4>1. /\ DOMAIN announced' = DOMAIN announced \cup {round}
            /\ announced'[round] = settings'
            /\ \A r \in DOMAIN announced : r # round => announced'[r] = announced[r]
        BY <3>3 DEF With
      <4>2. DOMAIN settings' = PKGs
        BY <2>5, <2>9 DEF PKGs
      <4>3. \A r \in DOMAIN announced' : \A q \in PKGs : Keeps(q, r, announced[r][q].keys)'
        BY <2>1, <2>5, <2>6, <2>8, <2>9, <4>1 DEF Keeps, PKGs
      <4>4. \A q \in PKGs : latest'[q] <= round
        BY <1>0, <2>1 DEF HandlersEnd
      <4>5. OldKeysForgotten'
        BY <1>a, <1>c, <2>1, <2>3, <4>1, <4>4 DEF OldKeysForgotten
      <4>6. QED BY <2>7, <3>1, <4>1, <4>2, <4>3, <4>5 DEF RevealedIsKept
    <3>4. QED BY <3>1, <3>2, <3>3
  <2>10. CASE p # NumPKGs
    <3>1. pc' = "reveal" /\ at' = p + 1 /\ announced' = announced
      BY <1>3, <2>1, <2>10 DEF revealHandler, Advance
    <3>2. at' - 1 = p
      BY <2>5, <3>1
    <3>3. OldKeysForgotten'
      BY <1>c, <2>1, <2>3, <3>1 DEF OldKeysForgotten
    <3>4. \A r \in DOMAIN announced' : /\ DOMAIN announced'[r] = PKGs
                                      /\ \A q \in PKGs : Keeps(q, r, announced[r][q].keys)'
      BY <2>7, <2>8, <3>1 DEF Keeps
    <3>5. QED BY <2>5, <2>6, <3>1, <3>2, <3>3, <3>4 DEF RevealedIsKept
  <2>11. QED BY <2>9, <2>10
<1>4. ASSUME NEW p \in PKGs, RevealRefused(p) PROVE RevealedIsKept'
  BY <1>4, <1>c, RevealedIsKeptRest DEF RevealRefused, serverVars
<1>5. ASSUME NEW h \in handlers, InsertRound(h) PROVE RevealedIsKept'
  <2>1. h.round \notin DOMAIN announced
    BY <1>0 DEF HandlersEnd
  <2>2. \A p \in PKGs : DOMAIN rounds'[p] \subseteq DOMAIN rounds[p] \cup {h.round}
    BY <1>0, <1>5, <1>b DEF InsertRound, Types, With
  <2>3. UNCHANGED <<latest, pc, round, at, settings, announced>>
    BY <1>5 DEF InsertRound, callVars
  <2>4. QED BY <1>c, <2>1, <2>2, <2>3, RevealedIsKeptRest
<1>6. ASSUME NEW h \in handlers, PruneRounds(h) PROVE RevealedIsKept'
  <2>1. DOMAIN Recent(h.round, rounds[h.pkg]) = {x \in DOMAIN rounds[h.pkg] : x >= h.round - 1}
    BY RecentFacts
  <2>2. /\ rounds' = [rounds EXCEPT ![h.pkg] = Recent(h.round, rounds[h.pkg])]
        /\ latest' = [latest EXCEPT ![h.pkg] = IF @ < h.round THEN h.round ELSE @]
        /\ UNCHANGED <<round, settings, announced>>
    BY <1>6 DEF PruneRounds
  <2>3. \A p \in PKGs : \A r \in DOMAIN rounds'[p] : r \in DOMAIN announced => r >= latest'[p] - 1
    BY <1>0, <1>a, <1>b, <1>c, <2>1, <2>2 DEF Types
  <2>4. /\ pc' = "commit" => pc = "commit"
        /\ pc' = "reveal" => (pc = "reveal" /\ at' = at) \/ (pc = "commit" /\ at' = 1)
    BY <1>6 DEF PruneRounds, Advance
  <2>5. QED BY <2>2, <2>3, <2>4, RevealedIsKeptRest
<1>7. CASE CallFails
  <2>1. \A p \in PKGs : DOMAIN rounds'[p] = DOMAIN rounds[p]
    <3>1. CASE UNCHANGED rounds
      BY <3>1
    <3>2. CASE rounds' = [rounds EXCEPT ![at][round] = Revealed(at)]
      BY <1>0, <3>2 DEF Types
    <3>3. QED BY <1>7, <3>1, <3>2 DEF CallFails
  <2>2. QED BY <1>7, <1>c, <2>1, RevealedIsKeptRest DEF CallFails
<1>8. ASSUME NEW p \in PKGs, RestartPKG(p) PROVE RevealedIsKept'
  <2>1. \A q \in PKGs : DOMAIN rounds'[q] \subseteq DOMAIN rounds[q]
    BY <1>0, <1>8, EmptyMap DEF RestartPKG, Types
  <2>2. QED BY <1>8, <1>c, <2>1, RevealedIsKeptRest DEF RestartPKG
<1>9. CASE ServersRest
  BY <1>9, <1>c, RevealedIsKeptRest DEF ServersRest, serverVars, callVars
<1>10. QED
  BY <1>1, <1>2, <1>3, <1>4, <1>5, <1>6, <1>7, <1>8, <1>9
  DEF PKGNext, OpenStep, register, CommitRegister, extract, ServersRest, pkgVars
-----------------------------------------------------------------------------
(***************************************************************************)
(* Names.                                                                  *)
(***************************************************************************)

\* Every step leaves names to their owners.
LEMMA NamesAreOwnedStep ==
    ASSUME IInv, [PKGNext]_pkgVars
    PROVE  NamesAreOwned'
<1>0. Types /\ NamesAreOwned
  BY DEF IInv
<1>1. CASE UNCHANGED <<users, userLog, extracted>>
  BY <1>0, <1>1 DEF NamesAreOwned
<1>2. ASSUME NEW tx \in txs, CommitRegister(tx) PROVE NamesAreOwned'
  <2> DEFINE name == Username[tx.client]
  <2>1. CASE Conflicts(tx)
    BY <1>1, <1>2, <2>1 DEF CommitRegister
  <2>2. CASE ~Conflicts(tx)
    <3>1. tx.client \in Clients /\ tx.pkg \in PKGs
      BY <1>0 DEF Types
    <3>2. name \notin DOMAIN users[tx.pkg] /\ name \notin DOMAIN userLog[tx.pkg]
      BY <1>0, <2>2, <3>1 DEF Conflicts, NamesAreOwned
    <3>3. /\ users' = [users EXCEPT ![tx.pkg] = With(users[tx.pkg], name, tx.client)]
          /\ userLog' = [userLog EXCEPT ![tx.pkg] = With(userLog[tx.pkg], name, Append(<< >>, tx.client))]
          /\ extracted' = extracted
      BY <1>2, <2>2, <3>2 DEF CommitRegister
    <3>4. Append(<< >>, tx.client) = <<tx.client>>
      OBVIOUS
    <3>5. \A p \in PKGs :
            /\ DOMAIN userLog'[p] = DOMAIN users'[p]
            /\ \A n \in DOMAIN users'[p] : userLog'[p][n] = <<users'[p][n]>>
      BY <1>0, <3>1, <3>2, <3>3, <3>4 DEF NamesAreOwned, Types, With
    <3>6. \A p \in PKGs : \A n \in DOMAIN users[p] : n \in DOMAIN users'[p] /\ users'[p][n] = users[p][n]
      BY <1>0, <3>1, <3>2, <3>3 DEF Types, With
    <3>7. \A x \in extracted : x.pkg \in PKGs
      BY <1>0 DEF Types
    <3>8. QED BY <1>0, <3>3, <3>5, <3>6, <3>7 DEF NamesAreOwned
  <2>3. QED BY <2>1, <2>2
<1>3. ASSUME NEW c \in Clients, NEW p \in PKGs, NEW r \in PKGRounds, extract(c, p, r)
      PROVE  NamesAreOwned'
  BY <1>0, <1>3 DEF extract, NamesAreOwned
<1>4. QED
  BY <1>1, <1>2, <1>3
  DEF PKGNext, OpenStep, NewRound, commitHandler, revealHandler, RevealRefused, InsertRound,
      PruneRounds, CallFails, RestartPKG, register, pkgVars, userVars
-----------------------------------------------------------------------------
(***************************************************************************)
(* Theorems.                                                               *)
(***************************************************************************)

\* The invariant holds of all PKG servers: what commitHandler, revealHandler and the
\* registrations keep (pkg/server.go, pkg/register.go).
THEOREM IInvHolds == PKGSpec => []IInv
<1>1. IInv /\ [PKGNext]_pkgVars => IInv'
  BY TypesStep, HandlersEndStep, RevealedIsKeptStep, NamesAreOwnedStep DEF IInv
<1>2. QED BY InitIInv, <1>1, PTL DEF PKGSpec

\* The state of the servers, of the coordinator's call and of the clients is well typed.
THEOREM TypeCorrect == PKGSpec => []Types
<1>1. IInv => Types
  BY DEF IInv
<1>2. QED BY <1>1, IInvHolds, PTL

\* A server has the keys of a round that was announced until the commit of the round
\* after the next, unless it restarts, and not after it (commitHandler's pruning beside
\* handlers of other calls).
THEOREM KeysAreKept == PKGSpec => []RoundKeysKept
<1>1. IInv => RoundKeysKept
  BY DEF IInv, RevealedIsKept, RoundKeysKept, KeysAvailable, Keeps
<1>2. QED BY <1>1, IInvHolds, PTL

\* A name has one owner at each server, however registrations interleave (register.go's
\* transaction).
THEOREM NamesHaveOneOwner == PKGSpec => []OneOwner
<1>1. IInv => OneOwner
  BY DEF IInv, Types, NamesAreOwned, OneOwner
<1>2. QED BY <1>1, IInvHolds, PTL
=============================================================================
