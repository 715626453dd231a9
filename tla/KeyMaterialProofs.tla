------------------------- MODULE KeyMaterialProofs --------------------------
(***************************************************************************)
(* What holds of every keywheel: any users, seeds, readers and any round   *)
(* width; of the seeds that two sides derive from their introductions,     *)
(* whatever dialing rounds and however many introductions; and of the key  *)
(* files of any host: any number of processes and keys, and processes that *)
(* die between any two steps.                                              *)
(***************************************************************************)
EXTENDS Keywheel, Handshake, Identity, SequenceTheorems, FiniteSetTheorems,
        WellFoundedInduction, TLAPS

-----------------------------------------------------------------------------
(***************************************************************************)
(* Part 1: the keywheel.                                                   *)
(***************************************************************************)

(***************************************************************************)
(* The ratchet's operators.                                                *)
(***************************************************************************)

\* Ratcheting in two stretches hashes with the same rounds as in one.
LEMMA ChainConcat ==
    ASSUME NEW p \in Nat, NEW q \in Nat, NEW r \in Nat, p <= q, q <= r
    PROVE  Chain(p, q) \o Chain(q, r) = Chain(p, r)
<1> DEFINE a == Chain(p, q)
           b == Chain(q, r)
           c == Chain(p, r)
<1>1. a \in Seq(Nat) /\ Len(a) = q - p /\ \A i \in 1 .. (q - p) : a[i] = p + i - 1
  BY DEF Chain
<1>2. b \in Seq(Nat) /\ Len(b) = r - q /\ \A i \in 1 .. (r - q) : b[i] = q + i - 1
  BY DEF Chain
<1>3. c \in Seq(Nat) /\ Len(c) = r - p /\ \A i \in 1 .. (r - p) : c[i] = p + i - 1
  BY DEF Chain
<1> HIDE DEF a, b, c
<1>4. a \o b \in Seq(Nat) /\ Len(a \o b) = r - p
  <2>1. a \o b \in Seq(Nat) /\ Len(a \o b) = Len(a) + Len(b)
    BY <1>1, <1>2, ConcatProperties, Zenon
  <2>2. (q - p) + (r - q) = r - p
    OBVIOUS
  <2>3. QED BY <1>1, <1>2, <2>1, <2>2
<1>5. ASSUME NEW i \in 1 .. (r - p)
      PROVE  (a \o b)[i] = c[i]
  <2>0. i \in 1 .. (Len(a) + Len(b)) /\ i \in Nat
    BY <1>1, <1>2
  <2>1. CASE i <= q - p
    BY <1>1, <1>2, <1>3, <2>0, <2>1, ConcatProperties
  <2>2. CASE i > q - p
    <3>1. i - (q - p) \in 1 .. (r - q)
      BY <2>2
    <3>2. (a \o b)[i] = b[i - (q - p)]
      BY <1>1, <1>2, <2>0, <2>2, ConcatProperties
    <3>3. b[i - (q - p)] = q + (i - (q - p)) - 1
      BY <1>2, <3>1
    <3>4. c[i] = p + i - 1
      BY <1>3
    <3>5. QED BY <2>0, <3>2, <3>3, <3>4
  <2>3. QED BY <2>0, <2>1, <2>2
<1>6. a \o b = c
  BY <1>3, <1>4, <1>5, SeqEqual
<1>7. QED BY <1>6 DEF a, b, c

\* A stretch of the ratchet hashes with rounds.
LEMMA ChainType ==
    ASSUME NEW p \in Rounds, NEW q \in Rounds, p <= q
    PROVE  Chain(p, q) \in Seq(Rounds)
<1>1. ASSUME NEW i \in 1 .. (q - p)
      PROVE  p + i - 1 \in Rounds
  BY RoundLimitAssumption DEF Rounds
<1>2. q - p \in Nat
  BY RoundLimitAssumption DEF Rounds
<1>3. QED BY <1>1, <1>2 DEF Chain

\* getSecret returns a secret exactly for the rounds that are not past.
LEMMA GetSecretType ==
    ASSUME NEW rs \in roundSecret, NEW r \in Rounds
    PROVE  /\ rs.Round <= r => getSecret(rs, r) \in Secret
           /\ getSecret(rs, r) = Nil <=> rs.Round > r
<1>1. rs.Round \in Rounds /\ rs.Secret.seed \in Seeds /\ rs.Secret.chain \in Seq(Rounds)
  BY DEF roundSecret, Secret
<1>2. CASE rs.Round <= r
  <2>1. rs.Secret.chain \o Chain(rs.Round, r) \in Seq(Rounds)
    BY <1>1, <1>2, ChainType, ConcatProperties
  <2>2. ~(rs.Round > r)
    BY <1>1, <1>2, RoundLimitAssumption DEF Rounds
  <2>3. getSecret(rs, r) \in Secret
    BY <1>1, <2>1, <2>2 DEF getSecret, Secret
  <2>4. QED BY <2>2, <2>3, NilAssumption
<1>3. CASE rs.Round > r
  <2>1. ~(rs.Round <= r)
    BY <1>1, <1>3, RoundLimitAssumption DEF Rounds
  <2>2. QED BY <1>3, <2>1 DEF getSecret
<1>4. QED BY <1>1, <1>2, <1>3, RoundLimitAssumption DEF Rounds

\* On an exact entry getSecret returns the secret the friendship is owed.
LEMMA GetSecretExact ==
    ASSUME NEW rs \in roundSecret, NEW r \in Rounds, rs.Round <= r,
           \A s \in DOMAIN putAt : putAt[s] \in Rounds,
           Exact(rs)
    PROVE  getSecret(rs, r) = Expected(rs.Secret.seed, r)
<1> DEFINE p == putAt[rs.Secret.seed]
<1>1. p \in Nat /\ rs.Round \in Nat /\ r \in Nat /\ p <= rs.Round
  BY RoundLimitAssumption DEF Exact, roundSecret, Rounds
<1>2. rs.Secret.chain = Chain(p, rs.Round)
  BY DEF Exact, Expected
<1> HIDE DEF p
<1>3. Chain(p, rs.Round) \o Chain(rs.Round, r) = Chain(p, r)
  BY <1>1, ChainConcat
<1>4. ~(rs.Round > r)
  BY <1>1
<1>5. QED BY <1>2, <1>3, <1>4 DEF getSecret, Expected, p

\* EraseKeys leaves an entry an exact entry, of the same friendship, that is
\* not further back and that is past the erased round unless the round wraps.
LEMMA EraseExact ==
    ASSUME NEW rs \in roundSecret, NEW r \in Rounds,
           \A s \in DOMAIN putAt : putAt[s] \in Rounds,
           Exact(rs)
    PROVE  /\ Erase(rs, r) \in roundSecret
           /\ Exact(Erase(rs, r))
           /\ Erase(rs, r).Secret.seed = rs.Secret.seed
           /\ Erase(rs, r).Round >= rs.Round
           /\ r + 1 \in Rounds => Erase(rs, r).Round >= r + 1
<1> DEFINE n == (r + 1) % RoundLimit
<1>0. r \in Nat /\ r < RoundLimit /\ RoundLimit \in Nat /\ RoundLimit > 0 /\ rs.Round \in Rounds
  BY RoundLimitAssumption DEF roundSecret, Rounds
<1>1. n \in Rounds
  BY <1>0 DEF Rounds
<1>2. r + 1 \in Rounds => n = r + 1
  BY <1>0 DEF Rounds
<1> HIDE DEF n
<1>3. CASE rs.Round <= n
  <2>1. getSecret(rs, n) \in Secret /\ getSecret(rs, n) # Nil
    BY <1>0, <1>1, <1>3, GetSecretType, NilAssumption
  <2>2. getSecret(rs, n) = Expected(rs.Secret.seed, n)
    BY <1>1, <1>3, GetSecretExact
  <2>3. Erase(rs, r) = [Round |-> n, Secret |-> getSecret(rs, n)]
    BY <2>1 DEF Erase, n
  <2>4. Erase(rs, r).Secret.seed = rs.Secret.seed
    BY <2>2, <2>3 DEF Expected
  <2>5. putAt[rs.Secret.seed] <= n
    BY <1>0, <1>1, <1>3 DEF Exact, Rounds
  <2>6. Exact(Erase(rs, r))
    BY <2>2, <2>3, <2>4, <2>5 DEF Exact
  <2>7. Erase(rs, r) \in roundSecret
    BY <1>1, <2>1, <2>3 DEF roundSecret
  <2>8. QED
    BY <1>1, <1>2, <1>3, <2>3, <2>4, <2>6, <2>7 DEF Rounds
<1>4. CASE rs.Round > n
  <2>1. Erase(rs, r) = rs
    BY <1>1, <1>4, GetSecretType DEF Erase, n
  <2>2. QED
    BY <1>0, <1>1, <1>2, <1>4, <2>1 DEF Rounds
<1>5. QED BY <1>0, <1>1, <1>3, <1>4 DEF Rounds

(***************************************************************************)
(* The inductive invariant.                                                *)
(***************************************************************************)

\* Nothing that is exact stops being so when another seed is Put.
LEMMA ExactStable ==
    ASSUME NEW rs, Exact(rs),
           DOMAIN putAt \subseteq DOMAIN putAt',
           \A s \in DOMAIN putAt : putAt'[s] = putAt[s]
    PROVE  /\ rs.Secret.seed \in DOMAIN putAt'
           /\ putAt'[rs.Secret.seed] <= rs.Round
           /\ rs.Secret = [seed |-> rs.Secret.seed,
                           chain |-> Chain(putAt'[rs.Secret.seed], rs.Round)]
BY DEF Exact, Expected

\* The empty wheel of a new client satisfies the invariant.
LEMMA InitIInv == Init => IInv
<1> SUFFICES ASSUME Init PROVE IInv
  OBVIOUS
<1>1. DOMAIN secrets = {} /\ DOMAIN disk = {} /\ DOMAIN putAt = {}
      /\ DOMAIN gone = {} /\ DOMAIN diskGone = {}
  BY DEF Init
<1>2. Idle \in Reader
  BY RoundLimitAssumption DEF Idle, Reader, Rounds
<1>3. TypeOK
  BY <1>1, <1>2 DEF Init, TypeOK, Idle, Live
<1>4. QED
  BY <1>1, <1>3 DEF Init, IInv, ExactMap, ExactReader, Idle

\* Put and Remove leave every reader typed and exact: a reader whose struct they
\* take out of the map keeps that struct.
LEMMA DetachIInv ==
    ASSUME IInv, NEW u \in Users, readers' = Detach(u),
           \A x \in DOMAIN secrets : x # u => x \in DOMAIN secrets' /\ secrets'[x] = secrets[x],
           DOMAIN putAt \subseteq DOMAIN putAt',
           \A s \in DOMAIN putAt : putAt'[s] = putAt[s]
    PROVE  /\ readers' \in [Readers -> Reader]
           /\ \A t \in Readers : Live(readers[t])' => readers'[t].user \in DOMAIN secrets'
           /\ \A t \in Readers : ExactReader(readers[t])'
<1>6. ASSUME NEW t \in Readers
      PROVE  readers'[t] = IF Live(readers[t]) /\ readers[t].user = u
                           THEN [readers[t] EXCEPT !.frozen = secrets[u]]
                           ELSE readers[t]
  BY DEF Detach
<1>7. ASSUME NEW t \in Readers, Live(readers[t]), readers[t].user = u
      PROVE  secrets[u] \in roundSecret /\ secrets[u] # Nil
  BY <1>7, NilAssumption DEF IInv, TypeOK
<1>8. readers' \in [Readers -> Reader]
  <2>1. ASSUME NEW t \in Readers PROVE readers'[t] \in Reader
    <3>1. readers[t] \in Reader
      BY DEF IInv, TypeOK
    <3>2. CASE Live(readers[t]) /\ readers[t].user = u
      <4>1. readers'[t] = [readers[t] EXCEPT !.frozen = secrets[u]]
        BY <1>6, <3>2
      <4>2. QED BY <1>7, <3>1, <3>2, <4>1 DEF Reader
    <3>3. CASE ~(Live(readers[t]) /\ readers[t].user = u)
      BY <1>6, <3>1, <3>3
    <3>4. QED BY <3>2, <3>3
  <2>2. QED BY <2>1 DEF Detach
<1>9. ASSUME NEW t \in Readers, Live(readers[t])'
      PROVE  readers'[t].user \in DOMAIN secrets'
  <2>1. readers[t] \in Reader
    BY DEF IInv, TypeOK
  <2>2. CASE Live(readers[t]) /\ readers[t].user = u
    BY <1>6, <1>7, <1>9, <2>1, <2>2 DEF Live, Reader
  <2>3. CASE ~(Live(readers[t]) /\ readers[t].user = u)
    BY <1>6, <1>9, <2>3 DEF Live, IInv, TypeOK
  <2>4. QED BY <2>2, <2>3
<1>10. ASSUME NEW rs, Exact(rs)
      PROVE  /\ rs.Secret.seed \in DOMAIN putAt'
             /\ putAt'[rs.Secret.seed] <= rs.Round
             /\ rs.Secret = [seed |-> rs.Secret.seed,
                             chain |-> Chain(putAt'[rs.Secret.seed], rs.Round)]
  BY <1>10, ExactStable
<1>11. ASSUME NEW t \in Readers
       PROVE  ExactReader(readers[t])'
  <2>1. readers[t] \in Reader /\ ExactReader(readers[t])
    BY DEF IInv, TypeOK
  <2>2. CASE readers[t].pc = "loading" /\ ~readers[t].raced
    <3>1. /\ readers'[t].pc = "loading"
          /\ readers'[t].round = readers[t].round
          /\ readers'[t].Round = readers[t].Round
          /\ readers'[t].Secret = readers[t].Secret
      BY <1>6, <2>1, <2>2 DEF Reader
    <3>2. Deref(readers[t])' = Deref(readers[t])
      <4>1. CASE Live(readers[t]) /\ readers[t].user = u
        <5>1. readers'[t].frozen = secrets[u]
          BY <1>6, <2>1, <4>1 DEF Reader
        <5>2. secrets[u] # Nil
          BY <1>7, <4>1
        <5>3. QED BY <4>1, <5>1, <5>2 DEF Deref, Live
      <4>2. CASE Live(readers[t]) /\ readers[t].user # u
        <5>1. readers[t].user \in DOMAIN secrets
          BY <4>2 DEF IInv, TypeOK
        <5>2. QED BY <1>6, <4>2, <5>1 DEF Deref, Live
      <4>3. CASE ~Live(readers[t])
        BY <1>6, <2>2, <4>3 DEF Deref, Live
      <4>4. QED BY <4>1, <4>2, <4>3
    <3>3. Exact(Deref(readers[t]))'
      BY <1>10, <2>1, <2>2, <3>2 DEF ExactReader, Exact, Expected
    <3>4. QED BY <2>1, <2>2, <3>1, <3>2, <3>3 DEF ExactReader
  <2>3. CASE ~(readers[t].pc = "loading" /\ ~readers[t].raced)
    <3>1. /\ readers'[t].pc = readers[t].pc
          /\ readers'[t].raced = readers[t].raced
          /\ readers'[t].round = readers[t].round
          /\ readers'[t].panic = readers[t].panic
          /\ readers'[t].result = readers[t].result
      BY <1>6, <2>1 DEF Reader
    <3>2. QED BY <2>1, <2>3, <3>1 DEF ExactReader, Expected
  <2>4. QED BY <2>2, <2>3
<1>12. QED BY <1>8, <1>9, <1>11

\* Put starts an exact entry: a fresh seed and an empty chain.
LEMMA PutIInv ==
    ASSUME IInv, NEW u \in Users, NEW r \in Rounds, NEW sd \in Seeds, Put(u, r, sd)
    PROVE  IInv'
<1> DEFINE new == [Round |-> r, Secret |-> [seed |-> sd, chain |-> << >>]]
<1>1. new \in roundSecret
  BY DEF roundSecret, Secret
<1>2. /\ DOMAIN secrets' = DOMAIN secrets \cup {u}
      /\ secrets'[u] = new
      /\ \A x \in DOMAIN secrets : x # u => secrets'[x] = secrets[x]
  BY DEF Put
<1>3. /\ DOMAIN putAt' = DOMAIN putAt \cup {sd} /\ sd \notin DOMAIN putAt
      /\ putAt'[sd] = r
      /\ \A s \in DOMAIN putAt : putAt'[s] = putAt[s]
  BY DEF Put
<1>4. /\ DOMAIN gone' = DOMAIN gone \cup {sd}
      /\ gone'[sd] = 0
      /\ \A s \in DOMAIN gone : s # sd => gone'[s] = gone[s]
  BY DEF Put
<1>5. disk' = disk /\ diskGone' = diskGone
  BY DEF Put
<1>6. /\ readers' \in [Readers -> Reader]
      /\ \A t \in Readers : Live(readers[t])' => readers'[t].user \in DOMAIN secrets'
      /\ \A t \in Readers : ExactReader(readers[t])'
  <2>1. readers' = Detach(u)
    BY DEF Put
  <2>2. QED BY <1>2, <1>3, <2>1, DetachIInv
<1> HIDE DEF new
<1>7. TypeOK'
  <2>3. \A s \in DOMAIN putAt' : putAt'[s] \in Rounds
    BY <1>3 DEF IInv, TypeOK
  <2>4. \A s \in DOMAIN gone' : gone'[s] \in Rounds
    BY <1>4, RoundLimitAssumption DEF IInv, TypeOK, Rounds
  <2>5. \A x \in DOMAIN secrets' : secrets'[x] \in roundSecret
    BY <1>1, <1>2 DEF IInv, TypeOK
  <2>6. QED
    BY <1>2, <1>3, <1>5, <1>6, <2>3, <2>4, <2>5 DEF IInv, TypeOK
<1>8. ASSUME NEW rs, Exact(rs)
      PROVE  /\ rs.Secret.seed \in DOMAIN putAt'
             /\ putAt'[rs.Secret.seed] <= rs.Round
             /\ rs.Secret = [seed |-> rs.Secret.seed,
                             chain |-> Chain(putAt'[rs.Secret.seed], rs.Round)]
  BY <1>3, <1>8, ExactStable
<1>9. ExactMap(secrets, gone)'
  <2>1. r <= r /\ 0 <= r /\ Chain(r, r) = << >>
    BY RoundLimitAssumption DEF Chain, Rounds
  <2>2. Exact(secrets[u])' /\ (secrets[u].Secret.seed)' \in DOMAIN gone'
        /\ gone'[(secrets[u].Secret.seed)'] <= secrets'[u].Round
    BY <1>2, <1>3, <1>4, <2>1 DEF Exact, Expected, new
  <2>3. ASSUME NEW x \in DOMAIN secrets, x # u
        PROVE  Exact(secrets[x])' /\ (secrets[x].Secret.seed)' \in DOMAIN gone'
               /\ gone'[(secrets[x].Secret.seed)'] <= secrets'[x].Round
    <3>1. Exact(secrets[x]) /\ secrets[x].Secret.seed \in DOMAIN gone
          /\ gone[secrets[x].Secret.seed] <= secrets[x].Round
      BY DEF IInv, ExactMap
    <3>2. secrets[x].Secret.seed # sd
      BY <1>3, <3>1 DEF Exact
    <3>3. QED BY <1>2, <1>4, <1>8, <2>3, <3>1, <3>2 DEF Exact, Expected
  <2>4. QED BY <1>2, <2>2, <2>3 DEF ExactMap
<1>10. ExactMap(disk, diskGone)'
  <2>1. ASSUME NEW x \in DOMAIN disk
        PROVE  Exact(disk[x])' /\ (disk[x].Secret.seed)' \in DOMAIN diskGone'
               /\ diskGone'[(disk[x].Secret.seed)'] <= disk'[x].Round
    <3>1. Exact(disk[x]) /\ disk[x].Secret.seed \in DOMAIN diskGone
          /\ diskGone[disk[x].Secret.seed] <= disk[x].Round
      BY DEF IInv, ExactMap
    <3>2. QED BY <1>5, <1>8, <3>1 DEF Exact, Expected
  <2>2. QED BY <1>5, <2>1 DEF ExactMap
<1>11. QED BY <1>6, <1>7, <1>9, <1>10 DEF IInv

\* Remove preserves the invariant: the other entries stay as they are.
LEMMA RemoveIInv ==
    ASSUME IInv, NEW u \in Users, Remove(u)
    PROVE  IInv'
<1>1. /\ DOMAIN secrets' = DOMAIN secrets \ {u}
      /\ \A x \in DOMAIN secrets' : secrets'[x] = secrets[x]
      /\ disk' = disk /\ putAt' = putAt /\ gone' = gone /\ diskGone' = diskGone
  BY DEF Remove
<1>2. /\ readers' \in [Readers -> Reader]
      /\ \A t \in Readers : Live(readers[t])' => readers'[t].user \in DOMAIN secrets'
      /\ \A t \in Readers : ExactReader(readers[t])'
  <2>1. readers' = Detach(u)
    BY DEF Remove
  <2>2. QED BY <1>1, <2>1, DetachIInv
<1>3. TypeOK'
  BY <1>1, <1>2 DEF IInv, TypeOK
<1>4. ExactMap(secrets, gone)' /\ ExactMap(disk, diskGone)'
  BY <1>1 DEF IInv, ExactMap, Exact, Expected
<1>5. QED BY <1>2, <1>3, <1>4 DEF IInv

\* EraseKeys preserves the invariant: every entry advances as a whole, and the
\* readers that it overlaps are marked as raced.
LEMMA EraseKeysIInv ==
    ASSUME IInv, NEW r \in Rounds, EraseKeys(r)
    PROVE  IInv'
<1>1. /\ DOMAIN secrets' = DOMAIN secrets
      /\ \A x \in DOMAIN secrets : secrets'[x] = Erase(secrets[x], r)
      /\ disk' = disk /\ putAt' = putAt /\ diskGone' = diskGone
  BY DEF EraseKeys
<1>2. /\ DOMAIN gone' = DOMAIN gone
      /\ \A s \in DOMAIN gone :
            gone'[s] = IF r + 1 \in Rounds /\ r + 1 > gone[s] THEN r + 1 ELSE gone[s]
  BY DEF EraseKeys
<1>3. ASSUME NEW t \in Readers
      PROVE  readers'[t] = Overlapped(readers[t])
  BY DEF EraseKeys
<1>4. ASSUME NEW x \in DOMAIN secrets
      PROVE  /\ secrets'[x] \in roundSecret
             /\ Exact(secrets'[x])
             /\ secrets'[x].Secret.seed = secrets[x].Secret.seed
             /\ secrets'[x].Round >= secrets[x].Round
             /\ r + 1 \in Rounds => secrets'[x].Round >= r + 1
  <2>1. secrets[x] \in roundSecret /\ Exact(secrets[x])
    BY DEF IInv, TypeOK, ExactMap
  <2>2. \A s \in DOMAIN putAt : putAt[s] \in Rounds
    BY DEF IInv, TypeOK
  <2>3. secrets'[x] = Erase(secrets[x], r)
    BY <1>1
  <2>4. QED BY <2>1, <2>2, <2>3, EraseExact
<1>5. TypeOK'
  <2>1. ASSUME NEW t \in Readers
        PROVE  readers'[t] \in Reader /\ (Live(readers[t])' => readers'[t].user \in DOMAIN secrets')
    <3>1. readers[t] \in Reader
      BY DEF IInv, TypeOK
    <3>2. CASE Live(readers[t])
      <4>1. readers'[t] = [readers[t] EXCEPT !.raced = TRUE]
        BY <1>3, <3>2 DEF Overlapped
      <4>2. QED BY <1>1, <3>1, <3>2, <4>1 DEF Reader, IInv, TypeOK
    <3>3. CASE ~Live(readers[t])
      BY <1>3, <3>1, <3>3 DEF Overlapped, Live
    <3>4. QED BY <3>2, <3>3
  <2>2. readers' \in [Readers -> Reader]
    BY <2>1 DEF EraseKeys
  <2>3. \A s \in DOMAIN gone' : gone'[s] \in Rounds
    BY <1>2 DEF IInv, TypeOK
  <2>4. QED BY <1>1, <1>4, <2>1, <2>2, <2>3 DEF IInv, TypeOK
<1>6. ExactMap(secrets, gone)'
  <2>1. ASSUME NEW x \in DOMAIN secrets
        PROVE  /\ Exact(secrets[x])'
               /\ (secrets[x].Secret.seed)' \in DOMAIN gone'
               /\ gone'[(secrets[x].Secret.seed)'] <= secrets'[x].Round
    <3>1. /\ secrets[x].Secret.seed \in DOMAIN gone
          /\ gone[secrets[x].Secret.seed] <= secrets[x].Round
          /\ gone[secrets[x].Secret.seed] \in Nat
          /\ secrets[x].Round \in Nat /\ secrets'[x].Round \in Nat /\ r \in Nat
      BY <1>4, RoundLimitAssumption DEF IInv, ExactMap, TypeOK, roundSecret, Rounds
    <3>2. gone'[secrets[x].Secret.seed] <= secrets'[x].Round
      BY <1>2, <1>4, <3>1
    <3>3. Exact(secrets[x])'
      BY <1>1, <1>4 DEF Exact, Expected
    <3>4. QED BY <1>2, <1>4, <3>1, <3>2, <3>3
  <2>2. QED BY <1>1, <2>1 DEF ExactMap
<1>7. ExactMap(disk, diskGone)'
  BY <1>1 DEF IInv, ExactMap, Exact, Expected
<1>8. ASSUME NEW t \in Readers
      PROVE  ExactReader(readers[t])'
  <2>1. readers[t] \in Reader /\ ExactReader(readers[t])
    BY DEF IInv, TypeOK
  <2>2. CASE Live(readers[t])
    <3>1. readers'[t] = [readers[t] EXCEPT !.raced = TRUE]
      BY <1>3, <2>2 DEF Overlapped
    <3>2. readers'[t].raced = TRUE
      BY <2>1, <3>1 DEF Reader
    <3>3. QED BY <3>2 DEF ExactReader
  <2>3. CASE ~Live(readers[t])
    <3>1. readers'[t] = readers[t]
      BY <1>3, <2>3 DEF Overlapped
    <3>2. readers[t].pc = "loading" => Deref(readers[t])' = Deref(readers[t])
      BY <2>3, <3>1 DEF Deref, Live
    <3>3. QED BY <1>1, <2>1, <3>1, <3>2 DEF ExactReader, Exact, Expected
  <2>4. QED BY <2>2, <2>3
<1>9. QED BY <1>5, <1>6, <1>7, <1>8 DEF IInv

\* Saving the wheel preserves the invariant: the file is the wheel of this moment.
LEMMA PersistIInv == ASSUME IInv, Persist PROVE IInv'
<1>1. TypeOK'
  BY DEF IInv, TypeOK, Persist, Live
<1>2. ExactMap(secrets, gone)' /\ ExactMap(disk, diskGone)'
  BY DEF IInv, ExactMap, Exact, Expected, Persist
<1>3. \A t \in Readers : ExactReader(readers[t])'
  BY DEF IInv, ExactReader, Deref, Exact, Expected, Persist
<1>4. QED BY <1>1, <1>2, <1>3 DEF IInv

\* Loading the file preserves the invariant: it is an exact wheel of an earlier
\* moment, and no reader survives.
LEMMA RestartIInv == ASSUME IInv, Restart PROVE IInv'
<1>1. Idle \in Reader
  BY RoundLimitAssumption DEF Idle, Reader, Rounds
<1>2. TypeOK'
  BY <1>1 DEF IInv, TypeOK, Restart, Live, Idle
<1>3. ExactMap(secrets, gone)' /\ ExactMap(disk, diskGone)'
  BY DEF IInv, ExactMap, Exact, Expected, Restart
<1>4. \A t \in Readers : ExactReader(readers[t])'
  BY DEF ExactReader, Idle, Restart
<1>5. QED BY <1>2, <1>3, <1>4 DEF IInv

\* A reader's own step preserves the invariant if it leaves the reader typed
\* and exact.
LEMMA ReaderStepIInv ==
    ASSUME IInv, NEW t \in Readers, NEW rd \in Reader,
           readers' = [readers EXCEPT ![t] = rd],
           UNCHANGED <<secrets, disk, putAt, gone, diskGone>>,
           Live(rd) => rd.user \in DOMAIN secrets,
           ExactReader(rd)
    PROVE  IInv'
<1>1. readers \in [Readers -> Reader]
  BY DEF IInv, TypeOK
<1>2. readers' \in [Readers -> Reader] /\ readers'[t] = rd
      /\ \A x \in Readers : x # t => readers'[x] = readers[x]
  BY <1>1
<1>3. ASSUME NEW x \in Readers
      PROVE  (Live(readers[x])' => readers'[x].user \in DOMAIN secrets')
             /\ ExactReader(readers[x])'
  <2>1. CASE x = t
    BY <1>2, <2>1 DEF Live, ExactReader, Deref, Exact, Expected
  <2>2. CASE x # t
    <3>1. readers'[x] = readers[x]
      BY <1>2, <2>2
    <3>2. ExactReader(readers[x]) /\ (Live(readers[x]) => readers[x].user \in DOMAIN secrets)
      BY DEF IInv, TypeOK
    <3>3. QED BY <3>1, <3>2 DEF Live, ExactReader, Deref, Exact, Expected
  <2>3. QED BY <2>1, <2>2
<1>4. TypeOK'
  BY <1>2, <1>3 DEF IInv, TypeOK
<1>5. ExactMap(secrets, gone)' /\ ExactMap(disk, diskGone)'
  BY DEF IInv, ExactMap, Exact, Expected
<1>6. QED BY <1>3, <1>4, <1>5 DEF IInv

\* Fetching a struct preserves the invariant: its round is not past the round
\* that is read.
LEMMA BeginReadIInv ==
    ASSUME IInv, NEW t \in Readers, NEW u \in Users, NEW r \in Rounds, BeginRead(t, u, r)
    PROVE  IInv'
<1>1. CASE u \notin DOMAIN secrets \/ secrets[u].Round > r
  <2> DEFINE rd == [Idle EXCEPT !.pc = "done", !.round = r]
  <2>1. /\ rd \in Reader /\ rd.pc = "done" /\ rd.result = Nil /\ rd.panic = FALSE
    BY RoundLimitAssumption DEF Idle, Reader, Rounds
  <2>2. readers' = [readers EXCEPT ![t] = rd] /\ UNCHANGED <<secrets, disk, putAt, gone, diskGone>>
    BY <1>1 DEF BeginRead
  <2> HIDE DEF rd
  <2>3. ExactReader(rd) /\ ~Live(rd)
    BY <2>1 DEF ExactReader, Live
  <2>4. QED BY <2>1, <2>2, <2>3, ReaderStepIInv
<1>2. CASE ~(u \notin DOMAIN secrets \/ secrets[u].Round > r)
  <2> DEFINE rd == Fetched(u, r)
  <2>1. /\ rd \in Reader /\ rd.pc = "loading" /\ rd.user = u /\ rd.round = r
        /\ rd.frozen = Nil /\ rd.Round = Nil /\ rd.Secret = Nil
    BY RoundLimitAssumption DEF Idle, Reader, Rounds, Fetched
  <2>2. readers' = [readers EXCEPT ![t] = rd] /\ UNCHANGED <<secrets, disk, putAt, gone, diskGone>>
    BY <1>2 DEF BeginRead
  <2> HIDE DEF rd
  <2>3. u \in DOMAIN secrets /\ secrets[u].Round <= r /\ Exact(secrets[u])
    BY <1>2, RoundLimitAssumption DEF IInv, TypeOK, ExactMap, roundSecret, Rounds
  <2>4. ExactReader(rd)
    BY <2>1, <2>3 DEF ExactReader, Deref
  <2>5. QED BY <2>1, <2>2, <2>3, <2>4, ReaderStepIInv
<1>3. QED BY <1>1, <1>2

\* The struct that a reader's pointer leads to is a roundSecret.
LEMMA DerefType ==
    ASSUME IInv, NEW t \in Readers, readers[t].pc = "loading"
    PROVE  Deref(readers[t]) \in roundSecret
<1>1. readers[t] \in Reader
  BY DEF IInv, TypeOK
<1>2. QED BY <1>1 DEF IInv, TypeOK, Reader, Deref, Live

\* Loading the round of a struct preserves the invariant.
LEMMA LoadRoundIInv ==
    ASSUME IInv, NEW t \in Readers, LoadRound(t)
    PROVE  IInv'
<1> DEFINE rd == [readers[t] EXCEPT !.Round = Deref(readers[t]).Round]
<1>1. readers[t] \in Reader /\ readers[t].pc = "loading" /\ ExactReader(readers[t])
  BY DEF IInv, TypeOK, LoadRound
<1>2. Deref(readers[t]).Round \in Rounds
  BY <1>1, DerefType DEF roundSecret
<1>3. /\ rd \in Reader /\ rd.pc = "loading" /\ rd.user = readers[t].user
      /\ rd.round = readers[t].round /\ rd.frozen = readers[t].frozen
      /\ rd.raced = readers[t].raced /\ rd.Round = Deref(readers[t]).Round
      /\ rd.Secret = readers[t].Secret
  BY <1>1, <1>2 DEF Reader
<1>4. readers' = [readers EXCEPT ![t] = rd] /\ UNCHANGED <<secrets, disk, putAt, gone, diskGone>>
  BY DEF LoadRound, IInv, TypeOK
<1> HIDE DEF rd
<1>5. Deref(rd) = Deref(readers[t])
  BY <1>3 DEF Deref
<1>6. ExactReader(rd)
  BY <1>1, <1>3, <1>5 DEF ExactReader
<1>7. Live(rd) => rd.user \in DOMAIN secrets
  BY <1>1, <1>3 DEF Live, IInv, TypeOK
<1>8. QED BY <1>3, <1>4, <1>6, <1>7, ReaderStepIInv

\* Loading the secret of a struct preserves the invariant.
LEMMA LoadSecretIInv ==
    ASSUME IInv, NEW t \in Readers, LoadSecret(t)
    PROVE  IInv'
<1> DEFINE rd == [readers[t] EXCEPT !.Secret = Deref(readers[t]).Secret]
<1>1. readers[t] \in Reader /\ readers[t].pc = "loading" /\ ExactReader(readers[t])
  BY DEF IInv, TypeOK, LoadSecret
<1>2. Deref(readers[t]).Secret \in Secret
  BY <1>1, DerefType DEF roundSecret
<1>3. /\ rd \in Reader /\ rd.pc = "loading" /\ rd.user = readers[t].user
      /\ rd.round = readers[t].round /\ rd.frozen = readers[t].frozen
      /\ rd.raced = readers[t].raced /\ rd.Secret = Deref(readers[t]).Secret
      /\ rd.Round = readers[t].Round
  BY <1>1, <1>2 DEF Reader
<1>4. readers' = [readers EXCEPT ![t] = rd] /\ UNCHANGED <<secrets, disk, putAt, gone, diskGone>>
  BY DEF LoadSecret, IInv, TypeOK
<1> HIDE DEF rd
<1>5. Deref(rd) = Deref(readers[t])
  BY <1>3 DEF Deref
<1>6. ExactReader(rd)
  BY <1>1, <1>3, <1>5 DEF ExactReader
<1>7. Live(rd) => rd.user \in DOMAIN secrets
  BY <1>1, <1>3 DEF Live, IInv, TypeOK
<1>8. QED BY <1>3, <1>4, <1>6, <1>7, ReaderStepIInv

\* Hashing the copied secret preserves the invariant: a copy that no EraseKeys
\* overlapped is one exact struct.
LEMMA FinishReadIInv ==
    ASSUME IInv, NEW t \in Readers, FinishRead(t)
    PROVE  IInv'
<1> DEFINE copy == Copied(readers[t])
           key == getSecret(copy, readers[t].round)
           rd == [Idle EXCEPT !.pc = "done", !.round = readers[t].round,
                              !.raced = readers[t].raced,
                              !.result = key, !.panic = (key = Nil)]
<1>1. /\ readers[t] \in Reader /\ readers[t].pc = "loading" /\ ExactReader(readers[t])
      /\ readers[t].Round # Nil /\ readers[t].Secret # Nil /\ readers[t].round \in Rounds
  BY DEF IInv, TypeOK, FinishRead, Reader
<1>2. copy \in roundSecret
  BY <1>1 DEF Copied, Reader, roundSecret
<1>3. readers' = [readers EXCEPT ![t] = rd] /\ UNCHANGED <<secrets, disk, putAt, gone, diskGone>>
  BY DEF FinishRead
<1> HIDE DEF copy
<1>4. key \in Secret \cup {Nil}
  BY <1>1, <1>2, GetSecretType, RoundLimitAssumption DEF roundSecret, Rounds
<1> HIDE DEF key
<1>5. /\ rd \in Reader /\ rd.pc = "done" /\ rd.round = readers[t].round
      /\ rd.raced = readers[t].raced /\ rd.result = key /\ rd.panic = (key = Nil)
  BY <1>1, <1>4 DEF Idle, Reader
<1> HIDE DEF rd
<1>6. ASSUME ~readers[t].raced
      PROVE  key # Nil /\ key.seed \in DOMAIN putAt /\ key = Expected(key.seed, readers[t].round)
  <2>1. copy = Deref(readers[t])
    <3>1. Deref(readers[t]) \in roundSecret
      BY <1>1, DerefType
    <3>2. copy.Round = Deref(readers[t]).Round /\ copy.Secret = Deref(readers[t]).Secret
      BY <1>1, <1>6 DEF ExactReader, Copied, copy
    <3>3. QED BY <1>2, <3>1, <3>2 DEF roundSecret
  <2>2. Exact(copy) /\ copy.Round <= readers[t].round
    BY <1>1, <1>6, <2>1 DEF ExactReader
  <2>3. \A s \in DOMAIN putAt : putAt[s] \in Rounds
    BY DEF IInv, TypeOK
  <2>4. key = Expected(copy.Secret.seed, readers[t].round)
    BY <1>1, <1>2, <2>2, <2>3, GetSecretExact DEF key
  <2>5. key # Nil
    BY <1>1, <1>2, <2>2, GetSecretType, NilAssumption DEF key
  <2>6. key.seed = copy.Secret.seed
    BY <2>4 DEF Expected
  <2>7. QED BY <2>2, <2>4, <2>5, <2>6 DEF Exact
<1>7. ExactReader(rd) /\ ~Live(rd)
  BY <1>5, <1>6 DEF ExactReader, Live
<1>8. QED BY <1>3, <1>5, <1>7, ReaderStepIInv

\* A step that changes nothing preserves the invariant.
LEMMA StutterIInv == ASSUME IInv, UNCHANGED vars PROVE IInv'
BY DEF vars, IInv, TypeOK, ExactMap, ExactReader, Exact, Expected, Deref, Live

\* The invariant holds throughout every execution of the keywheel.
THEOREM IInvHolds == Spec => []IInv
<1>1. IInv /\ [Next]_vars => IInv'
  <2> SUFFICES ASSUME IInv, [Next]_vars PROVE IInv'
    OBVIOUS
  <2>1. CASE \E u \in Users, r \in Rounds, s \in Seeds : Put(u, r, s)
    BY <2>1, PutIInv
  <2>2. CASE \E u \in Users : Remove(u)
    BY <2>2, RemoveIInv
  <2>3. CASE \E r \in Rounds : EraseKeys(r)
    BY <2>3, EraseKeysIInv
  <2>4. CASE Persist
    BY <2>4, PersistIInv
  <2>5. CASE Restart
    BY <2>5, RestartIInv
  <2>6. CASE \E t \in Readers, u \in Users, r \in Rounds : BeginRead(t, u, r)
    BY <2>6, BeginReadIInv
  <2>7. CASE \E t \in Readers : LoadRound(t) \/ LoadSecret(t) \/ FinishRead(t)
    BY <2>7, LoadRoundIInv, LoadSecretIInv, FinishReadIInv
  <2>8. CASE UNCHANGED vars
    BY <2>8, StutterIInv
  <2>9. QED BY <2>1, <2>2, <2>3, <2>4, <2>5, <2>6, <2>7, <2>8 DEF Next
<1>2. QED BY <1>1, InitIInv, PTL DEF Spec

(***************************************************************************)
(* What a client relies on.                                                *)
(***************************************************************************)

\* The wheel, the file and the readers keep their types, and a reader whose
\* struct is in the map finds it there.
THEOREM TypeCorrect == Spec => []TypeOK
<1>1. IInv => TypeOK
  BY DEF IInv
<1>2. QED BY <1>1, IInvHolds, PTL

\* The secret of a round depends only on what was Put, never on the erasures,
\* saves and restarts in between: so two friends' wheels agree.
THEOREM KeysAreDetermined == Spec => []KeyDetermined
<1>1. ASSUME IInv, NEW u \in DOMAIN secrets, NEW r \in Rounds,
             getSecret(secrets[u], r) # Nil
      PROVE  getSecret(secrets[u], r) = Expected(getSecret(secrets[u], r).seed, r)
  <2>1. secrets[u] \in roundSecret /\ Exact(secrets[u])
        /\ \A s \in DOMAIN putAt : putAt[s] \in Rounds
    BY <1>1 DEF IInv, TypeOK, ExactMap
  <2>2. secrets[u].Round <= r
    BY <1>1, <2>1, GetSecretType, RoundLimitAssumption DEF roundSecret, Rounds
  <2>3. getSecret(secrets[u], r) = Expected(secrets[u].Secret.seed, r)
    BY <2>1, <2>2, GetSecretExact
  <2>4. QED BY <2>3 DEF Expected
<1>2. IInv => KeyDetermined
  BY <1>1 DEF KeyDetermined
<1>3. QED BY <1>2, IInvHolds, PTL

\* After EraseKeys(r) no key of round r or before can be derived again.
THEOREM KeysAreErased == Spec => []ForwardSecrecy
<1>1. ASSUME IInv, NEW u \in DOMAIN secrets, NEW r \in Rounds,
             r < gone[secrets[u].Secret.seed]
      PROVE  getSecret(secrets[u], r) = Nil
  <2>1. /\ secrets[u] \in roundSecret
        /\ gone[secrets[u].Secret.seed] <= secrets[u].Round
        /\ gone[secrets[u].Secret.seed] \in Rounds
    BY <1>1 DEF IInv, TypeOK, ExactMap
  <2>2. secrets[u].Round > r
    BY <1>1, <2>1, RoundLimitAssumption DEF roundSecret, Rounds
  <2>3. QED BY <2>2 DEF getSecret
<1>2. IInv => ForwardSecrecy
  BY <1>1 DEF ForwardSecrecy
<1>3. QED BY <1>2, IInvHolds, PTL

\* SessionKey and OutgoingDialToken are right unless EraseKeys overlaps them.
THEOREM UnracedReadsAreExact == Spec => []UnracedReadIsExact
<1>1. IInv => UnracedReadIsExact
  BY DEF IInv, ExactReader, UnracedReadIsExact
<1>2. QED BY <1>1, IInvHolds, PTL
-----------------------------------------------------------------------------
(***************************************************************************)
(* The closed form of getSecret.                                           *)
(***************************************************************************)

\* A nonempty set of natural numbers has a least one.
LEMMA Least ==
    ASSUME NEW S, S \subseteq Nat, S # {}
    PROVE  \E n \in S : \A m \in S : n <= m
<1> DEFINE R == OpToRel(<, Nat)
<1>1. PICK n \in S : \A m \in S : ~ (<<m, n>> \in R)
  <2>1. IsWellFoundedOn(R, Nat)
    BY NatLessThanWellFounded
  <2> HIDE DEF R
  <2>2. QED BY <2>1, WFMin
<1>2. ASSUME NEW m \in S, m < n PROVE FALSE
  <2>1. <<m, n>> \in {ss \in Nat \X Nat : ss[1] < ss[2]}
    BY <1>2
  <2>2. <<m, n>> \in R
    BY <2>1 DEF OpToRel
  <2> HIDE DEF R
  <2>3. QED BY <1>1, <2>2, Zenon
<1>3. \A m \in S : n <= m
  BY <1>2
<1>4. QED BY <1>3

\* What the loop has made of a secret with which it started at p when its variable is r.
Hashed(secret, p, r) ==
    IF r <= p THEN secret ELSE [seed |-> secret.seed, chain |-> secret.chain \o Chain(p, r)]

\* One more round makes the chain one longer.
LEMMA HashedOnce ==
    ASSUME NEW secret \in Secret, NEW p \in Rounds, NEW r \in Rounds, p < r
    PROVE  Hashed(secret, p, r) = hash1(Hashed(secret, p, r - 1), r - 1)
<1>1. /\ r - 1 \in Rounds /\ p <= r - 1 /\ r - 1 <= r /\ r > p
      /\ p \in Nat /\ r - 1 \in Nat /\ r \in Nat
  BY RoundLimitAssumption DEF Rounds
<1>2. Chain(r - 1, r) = <<r - 1>>
  BY <1>1 DEF Chain
<1>3. Chain(p, r) = Chain(p, r - 1) \o <<r - 1>>
  BY <1>1, <1>2, ChainConcat
<1>4. Chain(p, r - 1) \in Seq(Rounds) /\ secret.chain \in Seq(Rounds) /\ <<r - 1>> \in Seq(Rounds)
  BY <1>1, ChainType DEF Secret
<1>5. secret.chain \o Chain(p, r) = Append(secret.chain \o Chain(p, r - 1), r - 1)
  <2>1. secret.chain \o Chain(p, r) = (secret.chain \o Chain(p, r - 1)) \o <<r - 1>>
    <3>1. (secret.chain \o Chain(p, r - 1)) \o <<r - 1>>
            = secret.chain \o (Chain(p, r - 1) \o <<r - 1>>)
      <4>1. \A s, t, u \in Seq(Rounds) : (s \o t) \o u = s \o (t \o u)
        BY ConcatAssociative
      <4>2. QED BY <1>4, <4>1, Zenon
    <3>2. QED BY <1>3, <3>1, Zenon
  <2>2. QED BY <1>1, <1>4, <2>1, AppendIsConcat, ConcatProperties
<1>6. Hashed(secret, p, r - 1)
        = [seed |-> secret.seed, chain |-> secret.chain \o Chain(p, r - 1)]
  <2>1. CASE r - 1 = p
    <3>1. Chain(p, r - 1) = << >>
      BY <1>1, <2>1 DEF Chain
    <3>2. secret.chain \o Chain(p, r - 1) = secret.chain
      BY <1>4, <3>1, ConcatEmptySeq
    <3>3. secret = [seed |-> secret.seed, chain |-> secret.chain]
      BY DEF Secret
    <3>4. Hashed(secret, p, r - 1) = secret
      BY <1>1, <2>1 DEF Hashed
    <3>5. QED BY <3>2, <3>3, <3>4
  <2>2. CASE r - 1 > p
    BY <1>1, <2>2 DEF Hashed
  <2>3. QED BY <1>1, <2>1, <2>2
<1>7. Hashed(secret, p, r) = [seed |-> secret.seed, chain |-> secret.chain \o Chain(p, r)]
  BY <1>1 DEF Hashed
<1>8. hash1(Hashed(secret, p, r - 1), r - 1)
        = [seed |-> secret.seed, chain |-> Append(secret.chain \o Chain(p, r - 1), r - 1)]
  <2> DEFINE chain == secret.chain \o Chain(p, r - 1)
             last == r - 1
  <2> HIDE DEF chain
  <2>1. [[seed |-> secret.seed, chain |-> chain] EXCEPT !.chain = Append(@, last)]
          = [seed |-> secret.seed, chain |-> Append(chain, last)]
    OBVIOUS
  <2>2. QED BY <1>6, <2>1 DEF hash1, chain
<1>9. QED BY <1>5, <1>7, <1>8

\* The loop computes it: the equations of HashLoop have Hashed as their only solution, or
\* there would be a first round for which they had another.
LEMMA LoopIsHashed ==
    ASSUME NEW secret \in Secret, NEW p \in Rounds, NEW round \in Rounds
    PROVE  HashLoop(secret, p)[round] = Hashed(secret, p, round)
<1> DEFINE Step(f) == [r \in Rounds |-> IF r <= p THEN secret ELSE hash1(f[r - 1], r - 1)]
           loop == CHOOSE f : f = Step(f)
           Bad == {r \in Rounds : loop[r] # Hashed(secret, p, r)}
<1>1. HashLoop(secret, p) = loop
  BY DEF HashLoop
<1>2. \A r \in Rounds : r \in Nat /\ (r > p => r - 1 \in Rounds) /\ (r <= p \/ p < r)
  BY RoundLimitAssumption DEF Rounds
<1>3. loop = Step(loop)
  <2> DEFINE f == [r \in Rounds |-> Hashed(secret, p, r)]
  <2>1. f = Step(f)
    <3>1. ASSUME NEW r \in Rounds
          PROVE  f[r] = IF r <= p THEN secret ELSE hash1(f[r - 1], r - 1)
      <4>1. CASE r <= p
        BY <4>1 DEF Hashed
      <4>2. CASE p < r
        <5>1. r - 1 \in Rounds /\ ~ (r <= p)
          BY <1>2, <4>2
        <5>2. QED BY <4>2, <5>1, HashedOnce
      <4>3. QED BY <1>2, <4>1, <4>2
    <3>2. QED BY <3>1
  <2> HIDE DEF Step, f
  <2>2. QED BY <2>1
<1>4. \A r \in Rounds : loop[r] = IF r <= p THEN secret ELSE hash1(loop[r - 1], r - 1)
  <2> HIDE DEF loop
  <2>1. QED BY <1>3
<1> HIDE DEF loop
<1>5. Bad = {}
  <2> SUFFICES ASSUME Bad # {} PROVE FALSE
    OBVIOUS
  <2>1. PICK r \in Bad : \A q \in Bad : r <= q
    <3>1. Bad \subseteq Nat
      BY <1>2
    <3> HIDE DEF Bad
    <3>2. QED BY <3>1, Least
  <2>2. r \in Rounds /\ loop[r] # Hashed(secret, p, r)
    OBVIOUS
  <2>3. p < r
    <3>1. SUFFICES ASSUME r <= p PROVE FALSE
      BY <1>2, <2>2
    <3>2. loop[r] = secret /\ Hashed(secret, p, r) = secret
      BY <1>4, <2>2, <3>1, Zenon DEF Hashed
    <3>3. QED BY <2>2, <3>2
  <2>4. r - 1 \in Rounds /\ ~ (r <= p)
    BY <1>2, <2>2, <2>3, RoundLimitAssumption DEF Rounds
  <2>5. loop[r - 1] = Hashed(secret, p, r - 1)
    <3>1. r - 1 \notin Bad
      <4> HIDE DEF Bad
      <4>1. QED BY <1>2, <2>1, <2>2
    <3>2. QED BY <2>4, <3>1
  <2>6. QED BY <1>4, <2>2, <2>3, <2>4, <2>5, HashedOnce
<1>6. QED BY <1>1, <1>5

\* getSecret, which the model has in closed form, is the loop of the source on every entry
\* there can be, those included that a reader has put together of two (keywheel.go, getSecret).
THEOREM ClosedFormIsTheLoop == Spec => []GetSecretIsTheLoop
<1> DEFINE Same(rs) == \A r \in Rounds :
             getSecret(rs, r) = IF rs.Round > r THEN Nil ELSE HashLoop(rs.Secret, rs.Round)[r]
<1>1. ASSUME NEW rs, rs.Round \in Rounds, rs.Secret \in Secret
      PROVE  Same(rs)
  <2> SUFFICES ASSUME NEW r \in Rounds, ~ (rs.Round > r)
               PROVE  getSecret(rs, r) = HashLoop(rs.Secret, rs.Round)[r]
    BY DEF getSecret
  <2>1. HashLoop(rs.Secret, rs.Round)[r] = Hashed(rs.Secret, rs.Round, r)
    BY <1>1, LoopIsHashed
  <2>2. getSecret(rs, r) = [seed |-> rs.Secret.seed, chain |-> rs.Secret.chain \o Chain(rs.Round, r)]
    BY DEF getSecret
  <2>3. CASE rs.Round < r
    BY <1>1, <2>1, <2>2, <2>3, RoundLimitAssumption DEF Hashed, Rounds
  <2>4. CASE rs.Round = r
    <3>1. Chain(rs.Round, r) = << >>
      BY <1>1, <2>4, RoundLimitAssumption DEF Chain, Rounds
    <3>2. rs.Secret.chain \o Chain(rs.Round, r) = rs.Secret.chain
      BY <1>1, <3>1, ConcatEmptySeq DEF Secret
    <3>3. rs.Secret = [seed |-> rs.Secret.seed, chain |-> rs.Secret.chain]
      BY <1>1 DEF Secret
    <3>4. QED BY <1>1, <2>1, <2>2, <2>4, <3>2, <3>3, RoundLimitAssumption DEF Hashed, Rounds
  <2>5. QED BY <1>1, <2>3, <2>4, RoundLimitAssumption DEF Rounds
<1>2. TypeOK => GetSecretIsTheLoop
  <2> SUFFICES ASSUME TypeOK PROVE GetSecretIsTheLoop
    OBVIOUS
  <2>1. \A u \in DOMAIN secrets : Same(secrets[u])
    BY <1>1 DEF TypeOK, roundSecret
  <2>2. \A u \in DOMAIN disk : Same(disk[u])
    BY <1>1 DEF TypeOK, roundSecret
  <2>3. ASSUME NEW t \in Readers, readers[t].Round # Nil, readers[t].Secret # Nil
        PROVE  Same(Copied(readers[t]))
    <3>1. readers[t].Round \in Rounds /\ readers[t].Secret \in Secret
      BY <2>3 DEF TypeOK, Reader
    <3>2. Copied(readers[t]).Round \in Rounds /\ Copied(readers[t]).Secret \in Secret
      BY <3>1 DEF Copied
    <3> HIDE DEF Same
    <3>3. QED BY <1>1, <3>2
  <2>4. QED BY <2>1, <2>2, <2>3 DEF GetSecretIsTheLoop
<1>3. QED BY <1>2, TypeCorrect, PTL
-----------------------------------------------------------------------------
(***************************************************************************)
(* Part 2: the handshake.                                                  *)
(***************************************************************************)

\* The name of the X25519 key, and of the coins, of a side's n-th introduction.
Fresh(p, n) == <<p, n>>

\* What side p puts into the seed with an introduction of its own.
Half(p, i) ==
    [lt |-> kemPub(p), ct |-> i.MLKEMCiphertext, x |-> i.DHPublicKey,
     ss |-> <<kemPub(Peer(p)), i.MLKEMCiphertext.coins>>]

\* The seed of both halves in canonical order.
Combined(both, xs, round) ==
    [salt |-> <<both[1].x, both[2].x, both[1].lt, both[2].lt, both[1].ct, both[2].ct, round>>,
     ikm |-> <<xs, both[1].ss, both[2].ss>>, info |-> "keywheel-seed"]

Introductions == {Introduction(p, n, r) : p \in Sides, n \in Nat, r \in DialingRounds}

\* The n-th introduction of a side is its n-th, of some dialing round.
IntroductionsAreOwn ==
    /\ order \in Sides
    /\ sent \in [Sides -> Seq(Introductions)]
    /\ \A p \in Sides : \A n \in DOMAIN sent[p] :
         \E r \in DialingRounds : sent[p][n] = Introduction(p, n, r)

\* Side p has derived its seed from its i-th introduction and the j-th of its peer.
DerivedFrom(p, i, j) ==
    /\ sent[p][i].DialingRound = sent[Peer(p)][j].DialingRound
    /\ seed[p] = <<[mine |-> sent[p][i], theirs |-> sent[Peer(p)][j],
                    key |-> hybridKeywheelSeed(p, sent[p][i], sent[Peer(p)][j],
                                               sent[Peer(p)][j].DialingRound)]>>

\* A seed is derived from two introductions of one dialing round.
SeedsAreDerived ==
    /\ DOMAIN seed = Sides
    /\ \A p \in Sides : seed[p] # << >> =>
         \E i \in DOMAIN sent[p], j \in DOMAIN sent[Peer(p)] : DerivedFrom(p, i, j)

\* The inductive invariant.
SeedsIInv == IntroductionsAreOwn /\ SeedsAreDerived
-----------------------------------------------------------------------------
\* There are two sides, and their keys differ.
LEMMA SideFacts ==
    /\ Peer(1) = 2 /\ Peer(2) = 1
    /\ \A p \in Sides : Peer(p) \in Sides /\ Peer(Peer(p)) = p /\ Peer(p) # p
    /\ \A p, q : kemPub(p) = kemPub(q) => p = q
BY DEF Sides, Peer, kemPub

\* The fresh key of an introduction stays what it is when the introduction is signed.
LEMMA IntroKey == \A p, n, r : Introduction(p, n, r).DHPublicKey = Fresh(p, n)
BY DEF Introduction, Sign, Fresh

\* What an introduction carries, with its signatures.
LEMMA IntroFacts ==
    ASSUME NEW p, NEW n, NEW r
    PROVE  /\ Introduction(p, n, r).MLKEMCiphertext
                = [to |-> kemPub(Peer(p)), coins |-> Fresh(p, n)]
           /\ Introduction(p, n, r).DialingRound = r
BY DEF Introduction, Sign, Encapsulate, Fresh

\* Of introductions that were sent, each side makes the same two halves: one half is what
\* it encapsulated itself, the other what it decapsulates.
LEMMA SeedOfHalves ==
    ASSUME NEW p \in Sides, NEW n, NEW r, NEW m, NEW s, NEW round
    PROVE  LET mine == Introduction(p, n, r)
               theirs == Introduction(Peer(p), m, s)
           IN hybridKeywheelSeed(p, mine, theirs, round)
                = Combined(canonicalAlpha(Half(p, mine), Half(Peer(p), theirs)),
                           {mine.DHPublicKey, theirs.DHPublicKey}, round)
<1> DEFINE mine == Introduction(p, n, r)
           theirs == Introduction(Peer(p), m, s)
           my == [lt |-> kemPub(p), ct |-> mine.MLKEMCiphertext, x |-> mine.DHPublicKey,
                  ss |-> Encapsulate(kemPub(Peer(p)), mine.MLKEMCiphertext.coins).ss]
           their == [lt |-> kemPub(Peer(p)), ct |-> theirs.MLKEMCiphertext,
                     x |-> theirs.DHPublicKey, ss |-> Decapsulate(p, theirs.MLKEMCiphertext)]
<1>1. my = Half(p, mine)
  BY DEF Half, Encapsulate
<1>2. theirs.MLKEMCiphertext.to = kemPub(p)
  <2>1. theirs.MLKEMCiphertext = [to |-> kemPub(Peer(Peer(p))), coins |-> Fresh(Peer(p), m)]
    BY IntroFacts
  <2>2. theirs.MLKEMCiphertext.to = kemPub(Peer(Peer(p)))
    BY <2>1
  <2>3. Peer(Peer(p)) = p
    BY SideFacts
  <2>4. QED BY <2>2, <2>3
<1>3. Decapsulate(p, theirs.MLKEMCiphertext) = <<kemPub(p), theirs.MLKEMCiphertext.coins>>
  BY <1>2 DEF Decapsulate
<1>4. their = Half(Peer(p), theirs)
  BY <1>3, SideFacts DEF Half
<1>5. my.x = mine.DHPublicKey /\ their.x = theirs.DHPublicKey
  OBVIOUS
<1>6. hybridKeywheelSeed(p, mine, theirs, round)
        = Combined(canonicalAlpha(my, their), {my.x, their.x}, round)
  BY DEF hybridKeywheelSeed, Combined
<1> HIDE DEF mine, theirs, my, their
<1>7. hybridKeywheelSeed(p, mine, theirs, round)
        = Combined(canonicalAlpha(Half(p, mine), Half(Peer(p), theirs)),
                   {mine.DHPublicKey, theirs.DHPublicKey}, round)
  BY <1>1, <1>4, <1>5, <1>6
<1>8. QED BY <1>7 DEF mine, theirs

\* Both sides bring two halves into one order, that of the long-term keys.
LEMMA OneOrder ==
    ASSUME order \in Sides, NEW a, NEW b
    PROVE  /\ canonicalAlpha(Half(1, a), Half(2, b)) = canonicalAlpha(Half(2, b), Half(1, a))
           /\ canonicalAlpha(Half(1, a), Half(2, b)) =
                IF order = 1 THEN <<Half(1, a), Half(2, b)>> ELSE <<Half(2, b), Half(1, a)>>
<1>1. /\ Half(1, a).lt = kemPub(1) /\ Half(2, b).lt = kemPub(2)
      /\ kemPub(1) # kemPub(2) /\ kemPub(1).of = 1 /\ kemPub(2).of = 2
  BY DEF Half, kemPub
<1>2. NotAfter(Half(1, a).lt, Half(2, b).lt) <=> order = 1
  BY <1>1 DEF NotAfter
<1>3. NotAfter(Half(2, b).lt, Half(1, a).lt) <=> order = 2
  BY <1>1 DEF NotAfter
<1>4. order = 1 \/ order = 2
  BY DEF Sides
<1> HIDE DEF Half
<1>5. QED BY <1>2, <1>3, <1>4 DEF canonicalAlpha

\* The X25519 keys of both introductions can be told from a seed.
LEMMA SeedTellsKeys ==
    ASSUME order \in Sides, NEW a, NEW b, NEW c, NEW d, NEW xs, NEW ys, NEW r, NEW s,
           Combined(canonicalAlpha(Half(1, a), Half(2, b)), xs, r)
             = Combined(canonicalAlpha(Half(1, c), Half(2, d)), ys, s)
    PROVE  a.DHPublicKey = c.DHPublicKey /\ b.DHPublicKey = d.DHPublicKey
<1> DEFINE first == canonicalAlpha(Half(1, a), Half(2, b))
           second == canonicalAlpha(Half(1, c), Half(2, d))
<1>1. first[1].x = second[1].x /\ first[2].x = second[2].x
  <2>1. Combined(first, xs, r).salt = Combined(second, ys, s).salt
    OBVIOUS
  <2>2. <<first[1].x, first[2].x, first[1].lt, first[2].lt, first[1].ct, first[2].ct, r>>
          = <<second[1].x, second[2].x, second[1].lt, second[2].lt, second[1].ct, second[2].ct, s>>
    BY <2>1 DEF Combined
  <2>3. QED BY <2>2
<1>2. /\ Half(1, a).x = a.DHPublicKey /\ Half(2, b).x = b.DHPublicKey
      /\ Half(1, c).x = c.DHPublicKey /\ Half(2, d).x = d.DHPublicKey
  BY DEF Half
<1>3. /\ first = IF order = 1 THEN <<Half(1, a), Half(2, b)>> ELSE <<Half(2, b), Half(1, a)>>
      /\ second = IF order = 1 THEN <<Half(1, c), Half(2, d)>> ELSE <<Half(2, d), Half(1, c)>>
  BY OneOrder
<1> HIDE DEF Half, first, second
<1>4. QED BY <1>1, <1>2, <1>3

-----------------------------------------------------------------------------
LEMMA SeedsInitIInv == HandshakeInit => SeedsIInv
<1> SUFFICES ASSUME HandshakeInit PROVE SeedsIInv
  OBVIOUS
<1>1. IntroductionsAreOwn
  <2>1. \A p \in Sides : sent[p] = << >>
    BY DEF HandshakeInit
  <2>2. sent \in [Sides -> Seq(Introductions)]
    <3>1. << >> \in Seq(Introductions)
      OBVIOUS
    <3>2. QED BY <3>1 DEF HandshakeInit
  <2>3. QED BY <2>1, <2>2 DEF HandshakeInit, IntroductionsAreOwn
<1>2. SeedsAreDerived
  BY DEF HandshakeInit, SeedsAreDerived
<1>3. QED BY <1>1, <1>2 DEF SeedsIInv

\* A further introduction is its side's own, and the earlier ones stay where they were.
LEMMA SendStep ==
    ASSUME SeedsIInv, NEW p \in Sides, NEW round \in DialingRounds, Send(p, round)
    PROVE  SeedsIInv'
<1> DEFINE new == Introduction(p, Len(sent[p]) + 1, round)
<1>1. /\ order \in Sides
      /\ sent \in [Sides -> Seq(Introductions)]
      /\ \A q \in Sides : \A n \in DOMAIN sent[q] :
           \E r \in DialingRounds : sent[q][n] = Introduction(q, n, r)
  BY DEF SeedsIInv, IntroductionsAreOwn
<1>2. /\ order' = order /\ seed' = seed
      /\ sent' = [sent EXCEPT ![p] = Append(sent[p], new)]
  BY DEF Send
<1>3. new \in Introductions
  <2>1. Len(sent[p]) + 1 \in Nat
    BY <1>1
  <2>2. QED BY <2>1 DEF Introductions
<1> HIDE DEF new
<1>4. Append(sent[p], new) \in Seq(Introductions)
  BY <1>1, <1>3
<1>5. sent' \in [Sides -> Seq(Introductions)]
  BY <1>1, <1>2, <1>4
<1>6. \A q \in Sides : \A n \in DOMAIN sent[q] :
        n \in DOMAIN sent'[q] /\ sent'[q][n] = sent[q][n]
  BY <1>1, <1>2, <1>3
<1>7. \A q \in Sides : \A n \in DOMAIN sent'[q] :
        \/ n \in DOMAIN sent[q] /\ sent'[q][n] = sent[q][n]
        \/ q = p /\ n = Len(sent[p]) + 1 /\ sent'[q][n] = new
  BY <1>1, <1>2, <1>3
<1>8. \A q \in Sides : \A n \in DOMAIN sent'[q] :
        \E r \in DialingRounds : sent'[q][n] = Introduction(q, n, r)
  <2> SUFFICES ASSUME NEW q \in Sides, NEW n \in DOMAIN sent'[q]
               PROVE  \E r \in DialingRounds : sent'[q][n] = Introduction(q, n, r)
    OBVIOUS
  <2>1. CASE n \in DOMAIN sent[q] /\ sent'[q][n] = sent[q][n]
    BY <1>1, <2>1
  <2>2. CASE q = p /\ n = Len(sent[p]) + 1 /\ sent'[q][n] = new
    BY <2>2 DEF new
  <2>3. QED BY <1>7, <2>1, <2>2
<1>9. IntroductionsAreOwn'
  BY <1>1, <1>2, <1>5, <1>8 DEF IntroductionsAreOwn
<1>10. SeedsAreDerived'
  <2>1. DOMAIN seed = Sides
    BY DEF SeedsIInv, SeedsAreDerived
  <2> SUFFICES ASSUME NEW q \in Sides, seed[q] # << >>
               PROVE  \E i \in DOMAIN sent'[q], j \in DOMAIN sent'[Peer(q)] :
                        DerivedFrom(q, i, j)'
    BY <1>2, <2>1 DEF SeedsAreDerived
  <2>2. PICK i \in DOMAIN sent[q], j \in DOMAIN sent[Peer(q)] : DerivedFrom(q, i, j)
    BY DEF SeedsIInv, SeedsAreDerived
  <2>3. Peer(q) \in Sides
    BY SideFacts
  <2>4. /\ i \in DOMAIN sent'[q] /\ sent'[q][i] = sent[q][i]
        /\ j \in DOMAIN sent'[Peer(q)] /\ sent'[Peer(q)][j] = sent[Peer(q)][j]
    BY <1>6, <2>3
  <2>5. DerivedFrom(q, i, j)'
    <3> DEFINE mine == sent[q][i]
               theirs == sent[Peer(q)][j]
               key == hybridKeywheelSeed(q, mine, theirs, theirs.DialingRound)
    <3>1. /\ mine.DialingRound = theirs.DialingRound
          /\ seed[q] = <<[mine |-> mine, theirs |-> theirs, key |-> key]>>
      BY <2>2 DEF DerivedFrom
    <3>2. mine' = mine /\ theirs' = theirs
      BY <2>4
    <3> HIDE DEF mine, theirs
    <3>3. key' = key
      BY <1>2, <3>2 DEF hybridKeywheelSeed, canonicalAlpha, NotAfter
    <3> HIDE DEF key
    <3>4. /\ mine'.DialingRound = theirs'.DialingRound
          /\ seed'[q] = <<[mine |-> mine', theirs |-> theirs', key |-> key']>>
      BY <3>1, <3>2, <3>3, <1>2
    <3>5. QED BY <3>4 DEF DerivedFrom, mine, theirs, key
  <2>6. QED BY <2>4, <2>5
<1>11. QED BY <1>9, <1>10 DEF SeedsIInv

\* A seed that is derived is derived from two introductions that match.
LEMMA DeriveStep ==
    ASSUME SeedsIInv, NEW p \in Sides, NEW i \in DOMAIN sent[p], NEW j \in DOMAIN sent[Peer(p)],
           Derive(p, sent[p][i], sent[Peer(p)][j])
    PROVE  SeedsIInv'
<1> DEFINE new == <<[mine |-> sent[p][i], theirs |-> sent[Peer(p)][j],
                     key |-> hybridKeywheelSeed(p, sent[p][i], sent[Peer(p)][j],
                                                sent[Peer(p)][j].DialingRound)]>>
<1>1. /\ order' = order /\ sent' = sent
      /\ seed' = [seed EXCEPT ![p] = new]
      /\ sent[p][i].DialingRound = sent[Peer(p)][j].DialingRound
  BY DEF Derive, Matches
<1>2. DOMAIN seed = Sides
  BY DEF SeedsIInv, SeedsAreDerived
<1>3. IntroductionsAreOwn'
  BY <1>1 DEF SeedsIInv, IntroductionsAreOwn
<1>4. \A q \in Sides : \A k \in DOMAIN sent[q], l \in DOMAIN sent[Peer(q)] :
        DerivedFrom(q, k, l) /\ q # p => DerivedFrom(q, k, l)'
  <2> SUFFICES ASSUME NEW q \in Sides, NEW k \in DOMAIN sent[q], NEW l \in DOMAIN sent[Peer(q)],
                      DerivedFrom(q, k, l), q # p
               PROVE  DerivedFrom(q, k, l)'
    OBVIOUS
  <2> DEFINE key == hybridKeywheelSeed(q, sent[q][k], sent[Peer(q)][l],
                                       sent[Peer(q)][l].DialingRound)
  <2>1. seed'[q] = seed[q]
    <3> HIDE DEF new
    <3>1. QED BY <1>1, <1>2
  <2>2. key' = key
    BY <1>1 DEF hybridKeywheelSeed, canonicalAlpha, NotAfter
  <2>3. /\ sent[q][k].DialingRound = sent[Peer(q)][l].DialingRound
        /\ seed[q] = <<[mine |-> sent[q][k], theirs |-> sent[Peer(q)][l], key |-> key]>>
    BY DEF DerivedFrom
  <2> HIDE DEF key
  <2>4. /\ sent'[q][k].DialingRound = sent'[Peer(q)][l].DialingRound
        /\ seed'[q] = <<[mine |-> sent'[q][k], theirs |-> sent'[Peer(q)][l], key |-> key']>>
    BY <1>1, <2>1, <2>2, <2>3
  <2>5. QED BY <2>4 DEF DerivedFrom, key
<1>5. DerivedFrom(p, i, j)'
  <2> DEFINE key == hybridKeywheelSeed(p, sent[p][i], sent[Peer(p)][j],
                                       sent[Peer(p)][j].DialingRound)
  <2>1. key' = key
    BY <1>1 DEF hybridKeywheelSeed, canonicalAlpha, NotAfter
  <2>2. new = <<[mine |-> sent[p][i], theirs |-> sent[Peer(p)][j], key |-> key]>>
    OBVIOUS
  <2>3. seed'[p] = new
    <3> HIDE DEF new
    <3>1. QED BY <1>1, <1>2
  <2> HIDE DEF key, new
  <2>4. /\ sent'[p][i].DialingRound = sent'[Peer(p)][j].DialingRound
        /\ seed'[p] = <<[mine |-> sent'[p][i], theirs |-> sent'[Peer(p)][j], key |-> key']>>
    BY <1>1, <2>1, <2>2, <2>3
  <2>5. QED BY <2>4 DEF DerivedFrom, key
<1>6. SeedsAreDerived'
  <2>1. DOMAIN seed' = Sides
    BY <1>1, <1>2
  <2> SUFFICES ASSUME NEW q \in Sides, seed'[q] # << >>
               PROVE  \E k \in DOMAIN sent'[q], l \in DOMAIN sent'[Peer(q)] :
                        DerivedFrom(q, k, l)'
    BY <2>1 DEF SeedsAreDerived
  <2>2. CASE q = p
    BY <1>1, <1>5, <2>2
  <2>3. CASE q # p
    <3>1. seed[q] # << >>
      <4> HIDE DEF new
      <4>1. QED BY <1>1, <1>2, <2>3
    <3>2. PICK k \in DOMAIN sent[q], l \in DOMAIN sent[Peer(q)] : DerivedFrom(q, k, l)
      BY <3>1 DEF SeedsIInv, SeedsAreDerived
    <3>3. QED BY <1>1, <1>4, <2>3, <3>2
  <2>4. QED BY <2>2, <2>3
<1>7. QED BY <1>3, <1>6 DEF SeedsIInv

LEMMA SeedsStep == SeedsIInv /\ [HandshakeNext]_handshakeVars => SeedsIInv'
<1> SUFFICES ASSUME SeedsIInv, [HandshakeNext]_handshakeVars PROVE SeedsIInv'
  OBVIOUS
<1>1. CASE \E p \in Sides : \E round \in DialingRounds : Send(p, round)
  BY <1>1, SendStep
<1>2. CASE \E p \in Sides : \E i \in DOMAIN sent[p], j \in DOMAIN sent[Peer(p)] :
             Derive(p, sent[p][i], sent[Peer(p)][j])
  BY <1>2, DeriveStep
<1>3. CASE UNCHANGED handshakeVars
  <2>1. order' = order /\ sent' = sent /\ seed' = seed
    BY <1>3 DEF handshakeVars
  <2>2. IntroductionsAreOwn'
    BY <2>1 DEF SeedsIInv, IntroductionsAreOwn
  <2>3. SeedsAreDerived'
    <3> SUFFICES ASSUME NEW p \in Sides, seed'[p] # << >>
                 PROVE  \E i \in DOMAIN sent'[p], j \in DOMAIN sent'[Peer(p)] :
                          DerivedFrom(p, i, j)'
      BY <2>1 DEF SeedsIInv, SeedsAreDerived
    <3>1. PICK i \in DOMAIN sent[p], j \in DOMAIN sent[Peer(p)] : DerivedFrom(p, i, j)
      BY <2>1 DEF SeedsIInv, SeedsAreDerived
    <3> DEFINE key == hybridKeywheelSeed(p, sent[p][i], sent[Peer(p)][j],
                                         sent[Peer(p)][j].DialingRound)
    <3>2. key' = key
      BY <2>1 DEF hybridKeywheelSeed, canonicalAlpha, NotAfter
    <3>3. /\ sent[p][i].DialingRound = sent[Peer(p)][j].DialingRound
          /\ seed[p] = <<[mine |-> sent[p][i], theirs |-> sent[Peer(p)][j], key |-> key]>>
      BY <3>1 DEF DerivedFrom
    <3> HIDE DEF key
    <3>4. DerivedFrom(p, i, j)'
      <4>1. /\ sent'[p][i].DialingRound = sent'[Peer(p)][j].DialingRound
            /\ seed'[p] = <<[mine |-> sent'[p][i], theirs |-> sent'[Peer(p)][j], key |-> key']>>
        BY <2>1, <3>2, <3>3
      <4>2. QED BY <4>1 DEF DerivedFrom, key
    <3>5. QED BY <2>1, <3>4
  <2>4. QED BY <2>2, <2>3 DEF SeedsIInv
<1>4. QED BY <1>1, <1>2, <1>3 DEF HandshakeNext

\* Everything that is sent is an introduction of its sender, and every seed comes of two of
\* them that are of one dialing round (intro.go, keywheel_seed.go).
THEOREM SeedsIInvHolds == HandshakeSpec => []SeedsIInv
<1>1. QED BY SeedsInitIInv, SeedsStep, PTL DEF HandshakeSpec
-----------------------------------------------------------------------------
\* The seed of side p is of its i-th introduction and of the j-th of its peer q.
MadeOf(p, q, i, j) ==
    /\ seed[p][1].mine = sent[p][i] /\ seed[p][1].theirs = sent[q][j]
    /\ sent[p][i].DHPublicKey = Fresh(p, i) /\ sent[q][j].DHPublicKey = Fresh(q, j)
    /\ sent[p][i].DialingRound = sent[q][j].DialingRound
    /\ seed[p][1].key = Combined(
         canonicalAlpha(Half(p, sent[p][i]), Half(q, sent[q][j])),
         {sent[p][i].DHPublicKey, sent[q][j].DHPublicKey}, sent[p][i].DialingRound)

\* Every seed is made of two introductions.
LEMMA SeedIsOf ==
    ASSUME SeedsIInv, NEW p \in Sides, NEW q, q = Peer(p), seed[p] # << >>
    PROVE  \E i \in DOMAIN sent[p], j \in DOMAIN sent[q] : MadeOf(p, q, i, j)
<1>1. PICK i \in DOMAIN sent[p], j \in DOMAIN sent[q] : DerivedFrom(p, i, j)
  BY DEF SeedsIInv, SeedsAreDerived
<1>2. q \in Sides
  BY SideFacts
<1>3. PICK r : sent[p][i] = Introduction(p, i, r)
  BY DEF SeedsIInv, IntroductionsAreOwn
<1>4. PICK s : sent[q][j] = Introduction(q, j, s)
  BY <1>2 DEF SeedsIInv, IntroductionsAreOwn
<1>5. sent[p][i].DHPublicKey = Fresh(p, i)
  <2>1. Introduction(p, i, r).DHPublicKey = Fresh(p, i)
    BY IntroKey
  <2>2. QED BY <1>3, <2>1
<1>6. sent[q][j].DHPublicKey = Fresh(q, j)
  <2>1. Introduction(q, j, s).DHPublicKey = Fresh(q, j)
    BY IntroKey
  <2>2. QED BY <1>4, <2>1
<1>7. hybridKeywheelSeed(p, sent[p][i], sent[q][j], sent[p][i].DialingRound)
        = Combined(canonicalAlpha(Half(p, sent[p][i]), Half(q, sent[q][j])),
                   {sent[p][i].DHPublicKey, sent[q][j].DHPublicKey},
                   sent[p][i].DialingRound)
  BY <1>3, <1>4, SeedOfHalves
<1> DEFINE key == hybridKeywheelSeed(p, sent[p][i], sent[q][j], sent[q][j].DialingRound)
<1>8. /\ sent[p][i].DialingRound = sent[q][j].DialingRound
      /\ seed[p] = <<[mine |-> sent[p][i], theirs |-> sent[q][j], key |-> key]>>
  BY <1>1 DEF DerivedFrom
<1>9. key = hybridKeywheelSeed(p, sent[p][i], sent[q][j], sent[p][i].DialingRound)
  BY <1>8
<1> HIDE DEF key
<1>10. /\ seed[p][1].mine = sent[p][i] /\ seed[p][1].theirs = sent[q][j]
       /\ seed[p][1].key = key
  BY <1>8
<1>11. MadeOf(p, q, i, j)
  BY <1>5, <1>6, <1>7, <1>8, <1>9, <1>10 DEF MadeOf
<1>12. QED BY <1>11

LEMMA Agreement == SeedsIInv => SeedsAgree
<1> SUFFICES ASSUME SeedsIInv, seed[1] # << >>, seed[2] # << >>
             PROVE  seed[1][1].key = seed[2][1].key
                      <=> seed[1][1].mine = seed[2][1].theirs /\ seed[1][1].theirs = seed[2][1].mine
  BY DEF SeedsAgree
<1>1. 1 \in Sides /\ 2 \in Sides /\ Peer(1) = 2 /\ Peer(2) = 1
  BY SideFacts DEF Sides
<1>2. order \in Sides
  BY DEF SeedsIInv, IntroductionsAreOwn
<1>3. PICK i \in DOMAIN sent[1], j \in DOMAIN sent[2] : MadeOf(1, 2, i, j)
  BY <1>1, SeedIsOf
<1>4. PICK k \in DOMAIN sent[2], l \in DOMAIN sent[1] : MadeOf(2, 1, k, l)
  BY <1>1, SeedIsOf
<1>5. seed[2][1].key = Combined(canonicalAlpha(Half(1, sent[1][l]), Half(2, sent[2][k])),
        {sent[2][k].DHPublicKey, sent[1][l].DHPublicKey}, sent[2][k].DialingRound)
  BY <1>2, <1>4, OneOrder DEF MadeOf
<1>6. ASSUME seed[1][1].key = seed[2][1].key
      PROVE  seed[1][1].mine = seed[2][1].theirs /\ seed[1][1].theirs = seed[2][1].mine
  <2>1. /\ sent[1][i].DHPublicKey = sent[1][l].DHPublicKey
        /\ sent[2][j].DHPublicKey = sent[2][k].DHPublicKey
    BY <1>2, <1>3, <1>5, <1>6, SeedTellsKeys DEF MadeOf
  <2>2. Fresh(1, i) = Fresh(1, l) /\ Fresh(2, j) = Fresh(2, k)
    BY <2>1, <1>3, <1>4 DEF MadeOf
  <2>3. i = l /\ j = k
    BY <2>2 DEF Fresh
  <2>4. QED BY <2>3, <1>3, <1>4 DEF MadeOf
<1>7. ASSUME seed[1][1].mine = seed[2][1].theirs, seed[1][1].theirs = seed[2][1].mine
      PROVE  seed[1][1].key = seed[2][1].key
  <2>1. sent[1][i] = sent[1][l] /\ sent[2][j] = sent[2][k]
    BY <1>3, <1>4, <1>7 DEF MadeOf
  <2>2. {sent[1][i].DHPublicKey, sent[2][j].DHPublicKey}
          = {sent[2][k].DHPublicKey, sent[1][l].DHPublicKey}
    BY <2>1
  <2>3. sent[1][i].DialingRound = sent[2][k].DialingRound
    BY <2>1, <1>4 DEF MadeOf
  <2>4. QED BY <1>3, <1>5, <2>1, <2>2, <2>3 DEF MadeOf
<1>8. QED BY <1>6, <1>7

\* Two sides have the same seed if, and only if, they derived it from the same two
\* introductions, however many there are and of whatever rounds (keywheel_seed.go,
\* canonicalAlpha and hybridKeywheelSeed).
THEOREM SeedsAreTheSame == HandshakeSpec => []SeedsAgree
<1>1. QED BY SeedsIInvHolds, Agreement, PTL
-----------------------------------------------------------------------------
(***************************************************************************)
(* Introductions that somebody puts together.                              *)
(***************************************************************************)

Fields == {"Version", "Username", "DHPublicKey", "MLKEMCiphertext", "DialingRound", "LongTermKey",
           "LongTermKeyPQ", "Signature", "SignaturePQ", "ServerMultisig", "Reserved"}

\* x has the form of an introduction.
HasForm(x) == x = [f \in Fields |-> x[f]] /\ x.Version = 2 /\ x.Reserved = 0

\* An introduction verifies.
LEMMA IntroVerifies ==
    ASSUME NEW p, NEW n, NEW r
    PROVE  HasForm(Introduction(p, n, r)) /\ Verify(Introduction(p, n, r))
<1> DEFINE pre == [Version |-> 0, Username |-> p, DHPublicKey |-> <<p, n>>,
                   MLKEMCiphertext |-> Encapsulate(kemPub(Peer(p)), <<p, n>>).ct,
                   DialingRound |-> r, LongTermKey |-> edPub(p), LongTermKeyPQ |-> pqPub(p),
                   Signature |-> << >>, SignaturePQ |-> << >>,
                   ServerMultisig |-> Attestation(p, edPub(p)), Reserved |-> 0]
           i == [pre EXCEPT !.Version = 2]
           k == [pre EXCEPT !.Version = 2,
                            !.Signature = Signature(edPub(p), signedMsg(i)),
                            !.SignaturePQ = Signature(pqPub(p), signedMsg(i))]
<1>1. Introduction(p, n, r) = k
  BY Zenon DEF Introduction, Sign
<1>2. signedMsg(k) = signedMsg(i)
  BY DEF signedMsg
<1>3. /\ k.LongTermKey = edPub(p) /\ k.LongTermKeyPQ = pqPub(p) /\ k.Version = 2 /\ k.Reserved = 0
      /\ k.Signature = Signature(edPub(p), signedMsg(i))
      /\ k.SignaturePQ = Signature(pqPub(p), signedMsg(i))
      /\ k.ServerMultisig = Attestation(p, edPub(p)) /\ k.Username = p
  OBVIOUS
<1>4. k = [f \in Fields |-> k[f]]
  BY DEF Fields
<1> HIDE DEF k, i, pre
<1>5. QED BY <1>1, <1>2, <1>3, <1>4 DEF Verify, Verifies, HasForm

\* What verifies with the Ed25519 signature of an introduction is that introduction: the message
\* fixes the other half and both keys, and the attestation the name and the Ed25519 key.
LEMMA SignatureFixes ==
    ASSUME NEW k, HasForm(k), Verify(k), NEW x, HasForm(x), Verify(x), x.Signature = k.Signature
    PROVE  x = k
<1>1. Signature(x.LongTermKey, signedMsg(x)) = Signature(k.LongTermKey, signedMsg(k))
  BY DEF Verify, Verifies
<1>2. x.LongTermKey = k.LongTermKey /\ signedMsg(x) = signedMsg(k)
  BY <1>1 DEF Signature
<1>3. /\ x.Username = k.Username /\ x.DHPublicKey = k.DHPublicKey
      /\ x.MLKEMCiphertext = k.MLKEMCiphertext /\ x.DialingRound = k.DialingRound
      /\ x.LongTermKeyPQ = k.LongTermKeyPQ
  BY <1>2 DEF signedMsg
<1>4. x.SignaturePQ = k.SignaturePQ /\ x.ServerMultisig = k.ServerMultisig
  BY <1>2, <1>3 DEF Verify, Verifies
<1>5. \A f \in Fields : x[f] = k[f]
  BY <1>2, <1>3, <1>4 DEF Fields, HasForm
<1>6. QED BY <1>5 DEF HasForm

LEMMA Whole == SeedsIInv => IntroIsWhole
<1> SUFFICES ASSUME SeedsIInv PROVE IntroIsWhole
  OBVIOUS
<1> DEFINE intros == UNION {{sent[p][n] : n \in DOMAIN sent[p]} : p \in Sides}
           mixed(i, j, fields) == [f \in DOMAIN i |-> IF f \in fields THEN j[f] ELSE i[f]]
           withKey(p, i) == [i EXCEPT !.LongTermKeyPQ = pqPub(p)]
           withHalfOf(p, i) ==
             [withKey(p, i) EXCEPT !.SignaturePQ = Signature(pqPub(p), signedMsg(withKey(p, i)))]
<1>1. ASSUME NEW i \in intros
      PROVE  HasForm(i) /\ Verify(i)
  <2>1. PICK p \in Sides : \E n \in DOMAIN sent[p] : i = sent[p][n]
    OBVIOUS
  <2>2. PICK n \in DOMAIN sent[p] : i = sent[p][n]
    BY <2>1
  <2>3. PICK r : i = Introduction(p, n, r)
    BY <2>2 DEF SeedsIInv, IntroductionsAreOwn
  <2>4. QED BY <2>3, IntroVerifies
<1>2. ASSUME NEW i \in intros, NEW j \in intros, NEW x, HasForm(x), Verify(x),
             x.Signature \in {i.Signature, j.Signature}
      PROVE  x \in intros
  BY <1>1, <1>2, SignatureFixes
<1>3. ASSUME NEW i \in intros, NEW j \in intros, NEW parts \in SUBSET Parts,
             NEW m, m = mixed(i, j, UNION parts)
      PROVE  /\ Verify(m) => m \in intros
             /\ \A p \in Sides : Verify(withHalfOf(p, m)) => withHalfOf(p, m) \in intros
  <2> HIDE DEF intros
  <2>1. HasForm(i) /\ HasForm(j)
    BY <1>1
  <2>2. DOMAIN i = Fields
    BY <2>1 DEF HasForm
  <2>3. \A f \in Fields : m[f] \in {i[f], j[f]}
    BY <1>3, <2>2
  <2>4. DOMAIN m = Fields /\ m = [f \in Fields |-> m[f]]
    BY <1>3, <2>2
  <2>5. HasForm(m) /\ m.Signature \in {i.Signature, j.Signature}
    BY <2>1, <2>3, <2>4 DEF HasForm, Fields
  <2>6. ASSUME NEW p \in Sides, Verify(withHalfOf(p, m))
        PROVE  withHalfOf(p, m) \in intros
    <3> DEFINE x == withHalfOf(p, m)
    <3>1. HasForm(x) /\ x.Signature = m.Signature
      BY <2>4, <2>5 DEF HasForm, Fields
    <3> HIDE DEF x
    <3>2. x \in intros
      BY <1>2, <2>5, <2>6, <3>1 DEF x
    <3>3. QED BY <3>2 DEF x
  <2>7. QED BY <1>2, <2>5, <2>6
<1>4. \A i \in intros, j \in intros, parts \in SUBSET Parts :
        \E m \in {mixed(i, j, UNION parts)} :
          /\ Verify(m) => m \in intros
          /\ \A p \in Sides : Verify(withHalfOf(p, m)) => withHalfOf(p, m) \in intros
  <2> HIDE DEF intros, mixed, withHalfOf
  <2>1. QED BY <1>3
<1>5. QED BY <1>4, Zenon DEF IntroIsWhole

\* No two introductions can be put together, and nobody can sign one half of another's: what the
\* peer accepts was signed as it is (intro.go, signedMsg and Verify).
THEOREM IntrosAreWhole == HandshakeSpec => []IntroIsWhole
<1>1. QED BY SeedsIInvHolds, Whole, PTL
-----------------------------------------------------------------------------
(***************************************************************************)
(* Part 3: the key files.                                                  *)
(***************************************************************************)

\* The files that are ever written.
Written == {"public", "private", "v2"}

\* The files that a process still has to write: all that keygen writes, the identity file
\* alone, or what is left of them.
Todos == {<< >>, <<"v2">>, <<"private">>, <<"private", "v2">>, <<"public", "private">>,
          <<"public", "private", "v2">>}

Elements(todo) == {todo[i] : i \in DOMAIN todo}

AtWork(p) == process[p].at \in {"open", "write"}

\* Those that it has not opened yet.
Unopened(p) ==
    IF process[p].at = "write" THEN Elements(Tail(process[p].todo)) ELSE Elements(process[p].todo)

ProcessStates == [at : {"idle", "passphrase", "load", "upgrade", "open", "write"},
                  todo : Todos, key : KeySeeds, keygen : BOOLEAN]

\* Type invariant.
Types ==
    /\ file \in [Files -> KeySeeds \cup {Absent, Torn}]
    /\ file["legacy"] \in {Absent, Legacy}
    /\ process \in [Processes -> ProcessStates]
    /\ generated \in 0 .. MaxKeys
    /\ kept \subseteq Written \X KeySeeds

\* One keygen runs at a time, and no file that it still has to truncate has appeared;
\* an upgrade only writes the identity file, and there is an older one.
WritersAreApart ==
    /\ \A p \in Processes : AtWork(p) =>
         /\ process[p].todo # << >>
         /\ process[p].keygen \/ (process[p].todo = <<"v2">> /\ file["legacy"] # Absent)
    /\ \A p, q \in Processes : process[p].keygen /\ process[q].keygen => p = q
    /\ \A p \in Processes : process[p].keygen =>
         \A f \in Unopened(p) : f # "v2" => file[f] = Absent
    /\ \A p \in Processes : process[p].at = "passphrase" =>
         process[p].keygen /\ "public" \in Elements(process[p].todo)

\* A file that is being written is torn, and one process writes it.
WrittenOnce ==
    /\ \A p \in Processes : process[p].at = "write" => file[Head(process[p].todo)] = Torn
    /\ \A p, q \in Processes :
         /\ process[p].at = "write" /\ process[q].at = "write"
         /\ Head(process[p].todo) = Head(process[q].todo)
         => p = q

\* What was reported is in its file, and what is whole in a file was reported.
WholeIsKept ==
    /\ \A k \in kept : file[k[1]] = k[2]
    /\ \A f \in Written : file[f] \in KeySeeds => <<f, file[f]>> \in kept

\* Without an older installation, keygen opens the public key first, and what it writes
\* after that is one key.
OneKey ==
    file["legacy"] = Absent =>
        /\ file["public"] = Absent => file["private"] = Absent /\ file["v2"] = Absent
        /\ \A k, l \in kept : k[2] = l[2]
        /\ \A p \in Processes : AtWork(p) =>
             /\ \A k \in kept : k[2] = process[p].key
             /\ file["public"] = Absent => process[p].at = "open" /\ Head(process[p].todo) = "public"

\* The inductive invariant.
FilesIInv == Types /\ WritersAreApart /\ WrittenOnce /\ WholeIsKept /\ OneKey
-----------------------------------------------------------------------------
\* What the provers need to know of lists of files.
LEMMA TodoFacts ==
    /\ Elements(<< >>) = {}
    /\ Elements(<<"v2">>) = {"v2"}
    /\ Head(<<"v2">>) = "v2" /\ Tail(<<"v2">>) = << >> /\ <<"v2">> # << >>
    /\ \A t \in Todos : Elements(t) \subseteq Written
    /\ \A t \in Todos : t # << >> =>
         /\ Tail(t) \in Todos
         /\ Head(t) \in Written
         /\ Elements(t) = {Head(t)} \cup Elements(Tail(t))
         /\ Head(t) \notin Elements(Tail(t))
         /\ Head(t) = "v2" => Tail(t) = << >>
         /\ Tail(t) # << >> => Head(Tail(t)) # "public"
         /\ "public" \in Elements(t) => Head(t) = "public"
<1>1. /\ Elements(<< >>) = {}
      /\ Elements(<<"v2">>) = {"v2"}
      /\ Elements(<<"private">>) = {"private"}
      /\ Elements(<<"private", "v2">>) = {"private", "v2"}
      /\ Elements(<<"public", "private">>) = {"public", "private"}
      /\ Elements(<<"public", "private", "v2">>) = {"public", "private", "v2"}
  BY DEF Elements
<1>2. /\ Head(<<"v2">>) = "v2" /\ Tail(<<"v2">>) = << >> /\ <<"v2">> # << >>
      /\ Head(<<"private">>) = "private" /\ Tail(<<"private">>) = << >>
      /\ Head(<<"private", "v2">>) = "private" /\ Tail(<<"private", "v2">>) = <<"v2">>
      /\ Head(<<"public", "private">>) = "public" /\ Tail(<<"public", "private">>) = <<"private">>
      /\ Head(<<"public", "private", "v2">>) = "public"
      /\ Tail(<<"public", "private", "v2">>) = <<"private", "v2">>
  OBVIOUS
<1>3. ASSUME NEW t \in Todos, t # << >>
      PROVE  /\ Tail(t) \in Todos
             /\ Head(t) \in Written
             /\ Elements(t) = {Head(t)} \cup Elements(Tail(t))
             /\ Head(t) \notin Elements(Tail(t))
             /\ Head(t) = "v2" => Tail(t) = << >>
             /\ Tail(t) # << >> => Head(Tail(t)) # "public"
             /\ "public" \in Elements(t) => Head(t) = "public"
  <2>1. CASE t = <<"v2">>
    BY <1>1, <1>2, <2>1 DEF Todos, Written
  <2>2. CASE t = <<"private">>
    BY <1>1, <1>2, <2>2 DEF Todos, Written
  <2>3. CASE t = <<"private", "v2">>
    BY <1>1, <1>2, <2>3 DEF Todos, Written
  <2>4. CASE t = <<"public", "private">>
    BY <1>1, <1>2, <2>4 DEF Todos, Written
  <2>5. CASE t = <<"public", "private", "v2">>
    BY <1>1, <1>2, <2>5 DEF Todos, Written
  <2>6. QED BY <1>3, <2>1, <2>2, <2>3, <2>4, <2>5 DEF Todos
<1>4. \A t \in Todos : Elements(t) \subseteq Written
  BY <1>1 DEF Todos, Written
<1>5. QED BY <1>1, <1>2, <1>3, <1>4

\* Those that keygen writes begin with the public key.
LEMMA WantedFacts ==
    ASSUME NEW hybrid \in BOOLEAN
    PROVE  /\ Wanted(hybrid) \in Todos /\ "public" \in Elements(Wanted(hybrid))
           /\ Elements(Wanted(hybrid)) = {Wanted(hybrid)[i] : i \in DOMAIN Wanted(hybrid)}
<1>1. Wanted(hybrid) \in {<<"public", "private">>, <<"public", "private", "v2">>}
  BY DEF Wanted
<1>2. Wanted(hybrid) \in Todos /\ Wanted(hybrid)[1] = "public" /\ 1 \in DOMAIN Wanted(hybrid)
  BY <1>1 DEF Todos
<1>3. QED BY <1>2 DEF Elements

\* The states that processes are put into.
LEMMA AtFacts ==
    ASSUME NEW place \in {"idle", "passphrase", "load", "upgrade"}, NEW keygen \in BOOLEAN
    PROVE  /\ At(place, keygen) \in ProcessStates
           /\ At(place, keygen).at = place /\ At(place, keygen).keygen = keygen
<1>1. << >> \in Todos /\ Legacy \in KeySeeds
  BY IdentityAssumption DEF Todos, KeySeeds, Legacy
<1>2. At(place, keygen) = [at |-> place, todo |-> << >>, key |-> Legacy, keygen |-> keygen]
  BY DEF At, Writer
<1>3. QED BY <1>1, <1>2 DEF ProcessStates

\* A process that does not run is no keygen.
LEMMA NoProcessFacts == NoProcess \in ProcessStates /\ NoProcess.at = "idle" /\ NoProcess.keygen = FALSE
BY AtFacts, Zenon DEF NoProcess

\* A host that was just installed satisfies the invariant.
LEMMA FilesInitIInv == IdentityInit => FilesIInv
<1> SUFFICES ASSUME IdentityInit PROVE FilesIInv
  OBVIOUS
<1>0. /\ NoProcess \in ProcessStates /\ NoProcess.at = "idle" /\ NoProcess.keygen = FALSE
      /\ Legacy \in KeySeeds
  BY IdentityAssumption, NoProcessFacts DEF KeySeeds, Legacy
<1>1. Types
  BY <1>0, IdentityAssumption DEF IdentityInit, Types, Files
<1>2. WritersAreApart
  BY <1>0 DEF IdentityInit, WritersAreApart, AtWork
<1>3. WrittenOnce
  BY <1>0 DEF IdentityInit, WrittenOnce
<1>4. WholeIsKept
  BY IdentityAssumption DEF IdentityInit, WholeIsKept, Written, Files
<1>5. OneKey
  BY <1>0 DEF IdentityInit, OneKey, AtWork, Files
<1>6. QED BY <1>1, <1>2, <1>3, <1>4, <1>5 DEF FilesIInv
-----------------------------------------------------------------------------
(***************************************************************************)
(* Steps.                                                                  *)
(***************************************************************************)

\* A process that stops writing, or that only reads, disturbs nothing.
LEMMA RestIInv ==
    ASSUME FilesIInv, NEW p \in Processes, NEW new \in ProcessStates,
           new.at \in {"idle", "load", "upgrade"}, new.keygen = FALSE,
           process' = [process EXCEPT ![p] = new],
           UNCHANGED <<file, generated, kept>>
    PROVE  FilesIInv'
<1>1. /\ process'[p] = new
      /\ \A q \in Processes : q # p => process'[q] = process[q]
  BY DEF FilesIInv, Types
<1>2. Types'
  BY DEF FilesIInv, Types
<1>3. WritersAreApart'
  BY <1>1 DEF FilesIInv, WritersAreApart, AtWork, Unopened
<1>4. WrittenOnce'
  BY <1>1 DEF FilesIInv, WrittenOnce
<1>5. WholeIsKept'
  BY DEF FilesIInv, WholeIsKept
<1>6. OneKey'
  BY <1>1 DEF FilesIInv, OneKey, AtWork
<1>7. QED BY <1>2, <1>3, <1>4, <1>5, <1>6 DEF FilesIInv

\* A keygen that starts has found none of its files.
LEMMA KeygenIInv ==
    ASSUME FilesIInv, NEW p \in Processes, NEW hybrid \in BOOLEAN, Keygen(p, hybrid)
    PROVE  FilesIInv'
<1> DEFINE wanted == Wanted(hybrid)
           new == [At("passphrase", TRUE) EXCEPT !.todo = wanted]
<1>1. /\ wanted \in Todos /\ "public" \in Elements(wanted)
      /\ Elements(wanted) = {wanted[i] : i \in DOMAIN wanted}
  BY WantedFacts
<1>2. /\ new \in ProcessStates
      /\ new.at = "passphrase" /\ new.keygen = TRUE /\ new.todo = wanted
  <2>1. /\ At("passphrase", TRUE) \in ProcessStates
        /\ At("passphrase", TRUE).at = "passphrase" /\ At("passphrase", TRUE).keygen = TRUE
    BY AtFacts, Zenon
  <2>2. QED BY <1>1, <2>1 DEF ProcessStates
<1>3. /\ process' = [process EXCEPT ![p] = new]
      /\ UNCHANGED <<file, generated, kept>>
      /\ \A q \in Processes : ~process[q].keygen
      /\ \A f \in Elements(wanted) : file[f] = Absent
  BY <1>1 DEF Keygen, CheckOverwrite
<1> HIDE DEF wanted, new
<1>4. /\ process'[p] = new
      /\ \A q \in Processes : q # p => process'[q] = process[q]
  BY <1>3 DEF FilesIInv, Types
<1>5. Types'
  BY <1>2, <1>3 DEF FilesIInv, Types
<1>6. WritersAreApart'
  BY <1>1, <1>2, <1>3, <1>4 DEF FilesIInv, WritersAreApart, AtWork, Unopened
<1>7. WrittenOnce'
  BY <1>2, <1>3, <1>4 DEF FilesIInv, WrittenOnce
<1>8. WholeIsKept'
  BY <1>3 DEF FilesIInv, WholeIsKept
<1>9. OneKey'
  BY <1>2, <1>3, <1>4 DEF FilesIInv, OneKey, AtWork
<1>10. QED BY <1>5, <1>6, <1>7, <1>8, <1>9 DEF FilesIInv

\* The key is new, and where there is no older installation nothing was reported yet.
LEMMA GenerateKeyIInv ==
    ASSUME FilesIInv, NEW p \in Processes, GenerateKey(p)
    PROVE  FilesIInv'
<1> DEFINE new == Writer(process[p].todo, generated', TRUE)
<1>1. /\ process[p].at = "passphrase" /\ process[p].keygen
      /\ process[p].todo \in Todos /\ "public" \in Elements(process[p].todo)
  BY DEF GenerateKey, FilesIInv, Types, ProcessStates, WritersAreApart
<1>2. process[p].todo # << >> /\ Head(process[p].todo) = "public"
  BY <1>1, TodoFacts
<1>3. generated' \in 0 .. MaxKeys /\ generated' \in KeySeeds
  BY IdentityAssumption DEF GenerateKey, FilesIInv, Types, KeySeeds, Legacy
<1>4. /\ new \in ProcessStates
      /\ new.at = "open" /\ new.keygen = TRUE /\ new.todo = process[p].todo
  BY <1>1, <1>3 DEF Writer, ProcessStates
<1>5. /\ process' = [process EXCEPT ![p] = new]
      /\ UNCHANGED <<file, kept>>
  BY DEF GenerateKey
<1> HIDE DEF new
<1>6. /\ process'[p] = new
      /\ \A q \in Processes : q # p => process'[q] = process[q]
  BY <1>5 DEF FilesIInv, Types
<1>7. file["public"] = Absent
  BY <1>1 DEF FilesIInv, WritersAreApart, Unopened
<1>8. Types'
  BY <1>3, <1>4, <1>5 DEF FilesIInv, Types
<1>9. WritersAreApart'
  BY <1>1, <1>2, <1>4, <1>5, <1>6 DEF FilesIInv, WritersAreApart, AtWork, Unopened
<1>10. WrittenOnce'
  BY <1>4, <1>5, <1>6 DEF FilesIInv, WrittenOnce
<1>11. WholeIsKept'
  BY <1>5 DEF FilesIInv, WholeIsKept
<1>12. OneKey'
  <2>1. file["legacy"] = Absent => kept = {}
    BY <1>7, IdentityAssumption DEF FilesIInv, Types, WholeIsKept, OneKey, Written
  <2>2. QED BY <1>2, <1>4, <1>5, <1>6, <2>1 DEF FilesIInv, OneKey, AtWork
<1>13. QED BY <1>8, <1>9, <1>10, <1>11, <1>12 DEF FilesIInv

\* An upgrade that finds an older installation is about to write its key.
LEMMA UpgradeIInv ==
    ASSUME FilesIInv, NEW p \in Processes, Upgrade(p), file["legacy"] # Absent
    PROVE  FilesIInv'
<1> DEFINE new == Writer(<<"v2">>, file["legacy"], FALSE)
<1>1. file["legacy"] \in KeySeeds /\ <<"v2">> \in Todos
  BY IdentityAssumption DEF FilesIInv, Types, KeySeeds, Legacy, Todos
<1>2. /\ new \in ProcessStates
      /\ new.at = "open" /\ new.keygen = FALSE /\ new.todo = <<"v2">>
  BY <1>1 DEF Writer, ProcessStates
<1>3. /\ process' = [process EXCEPT ![p] = new]
      /\ UNCHANGED <<file, generated, kept>>
  BY DEF Upgrade
<1> HIDE DEF new
<1>4. /\ process'[p] = new
      /\ \A q \in Processes : q # p => process'[q] = process[q]
  BY <1>3 DEF FilesIInv, Types
<1>5. Types'
  BY <1>2, <1>3 DEF FilesIInv, Types
<1>6. WritersAreApart'
  BY <1>2, <1>3, <1>4, TodoFacts DEF FilesIInv, WritersAreApart, AtWork, Unopened
<1>7. WrittenOnce'
  BY <1>2, <1>3, <1>4 DEF FilesIInv, WrittenOnce
<1>8. WholeIsKept'
  BY <1>3 DEF FilesIInv, WholeIsKept
<1>9. OneKey'
  BY <1>3 DEF FilesIInv, OneKey
<1>10. QED BY <1>5, <1>6, <1>7, <1>8, <1>9 DEF FilesIInv

\* A file is opened that nobody else writes, and that holds nothing that was reported.
LEMMA OpenIInv ==
    ASSUME FilesIInv, NEW p \in Processes, Open(p),
           Exclusive(Head(process[p].todo)) => file[Head(process[p].todo)] = Absent
    PROVE  FilesIInv'
<1> DEFINE f == Head(process[p].todo)
           new == [process[p] EXCEPT !.at = "write"]
<1>1. /\ process[p].at = "open" /\ process[p] \in ProcessStates
      /\ process[p].todo \in Todos /\ process[p].todo # << >>
  BY DEF Open, FilesIInv, Types, ProcessStates, WritersAreApart, AtWork
<1>2. /\ f \in Written /\ f \in Files /\ f # "legacy"
      /\ Elements(process[p].todo) = {f} \cup Elements(Tail(process[p].todo))
      /\ f \notin Elements(Tail(process[p].todo))
  BY <1>1, TodoFacts DEF Written, Files
<1>3. file[f] = Absent
  BY <1>1, <1>2, TodoFacts DEF Exclusive, FilesIInv, WritersAreApart, AtWork, Unopened
<1>4. /\ process' = [process EXCEPT ![p] = new]
      /\ file' = [file EXCEPT ![f] = Torn]
      /\ UNCHANGED <<generated, kept>>
  BY DEF Open
<1>5. /\ new \in ProcessStates /\ new.at = "write"
      /\ new.todo = process[p].todo /\ new.key = process[p].key /\ new.keygen = process[p].keygen
  BY <1>1 DEF ProcessStates
<1>6. Torn \notin KeySeeds /\ Absent \notin KeySeeds /\ Torn # Absent
  BY IdentityAssumption
<1> HIDE DEF f, new
<1>7. /\ process'[p] = new
      /\ \A q \in Processes : q # p => process'[q] = process[q]
      /\ file'[f] = Torn
      /\ \A g \in Files : g # f => file'[g] = file[g]
  BY <1>2, <1>4 DEF FilesIInv, Types
<1>8. Types'
  BY <1>2, <1>4, <1>5, <1>7 DEF FilesIInv, Types, Files
<1>9. \A q \in Processes : process[q].keygen /\ q # p => f = "v2"
  BY <1>1, TodoFacts DEF f, FilesIInv, WritersAreApart, AtWork
<1>10. WritersAreApart'
  <2>1. \A q \in Processes : AtWork(q)' =>
           /\ process'[q].todo # << >>
           /\ process'[q].keygen \/ (process'[q].todo = <<"v2">> /\ file'["legacy"] # Absent)
    BY <1>1, <1>2, <1>5, <1>7 DEF FilesIInv, WritersAreApart, AtWork, Files
  <2>2. \A q, r \in Processes : process'[q].keygen /\ process'[r].keygen => q = r
    BY <1>5, <1>7 DEF FilesIInv, WritersAreApart
  <2>3. ASSUME NEW q \in Processes, process'[q].keygen, NEW g \in Unopened(q)', g # "v2"
        PROVE  file'[g] = Absent
    <3>1. g \in Unopened(q) /\ g # f /\ process[q].keygen
      BY <1>1, <1>2, <1>5, <1>7, <1>9, <2>3 DEF Unopened
    <3>2. file[g] = Absent
      BY <2>3, <3>1 DEF FilesIInv, WritersAreApart
    <3>3. g \in Files
      <4>1. process[q].todo \in Todos /\ (process[q].at = "write" => process[q].todo # << >>)
        BY DEF FilesIInv, Types, ProcessStates, WritersAreApart, AtWork
      <4>2. QED BY <3>1, <4>1, TodoFacts DEF Unopened, Written, Files
    <3>4. QED BY <1>7, <3>1, <3>2, <3>3
  <2>4. \A q \in Processes : process'[q].at = "passphrase" =>
           process'[q].keygen /\ "public" \in Elements(process'[q].todo)
    BY <1>5, <1>7 DEF FilesIInv, WritersAreApart
  <2>5. QED BY <2>1, <2>2, <2>3, <2>4 DEF WritersAreApart
<1>11. WrittenOnce'
  <2>1. \A q \in Processes : q # p /\ process[q].at = "write" =>
           /\ Head(process[q].todo) # f
           /\ Head(process[q].todo) \in Files
    BY <1>3, <1>6, TodoFacts DEF FilesIInv, Types, ProcessStates, WritersAreApart, AtWork, WrittenOnce, Written, Files
  <2>2. QED BY <1>5, <1>7, <2>1 DEF f, FilesIInv, WrittenOnce
<1>12. WholeIsKept'
  BY <1>2, <1>3, <1>4, <1>6, <1>7 DEF FilesIInv, Types, WholeIsKept, Written, Files
<1>13. OneKey'
  BY <1>1, <1>2, <1>3, <1>4, <1>5, <1>6, <1>7 DEF f, FilesIInv, OneKey, AtWork, Files
<1>14. QED BY <1>8, <1>10, <1>11, <1>12, <1>13 DEF FilesIInv

\* What is written was not in the file before, and nobody else is writing it.
LEMMA WriteIInv ==
    ASSUME FilesIInv, NEW p \in Processes, Write(p)
    PROVE  FilesIInv'
<1> DEFINE f == Head(process[p].todo)
           left == Tail(process[p].todo)
           key == process[p].key
           new == IF left = << >> THEN NoProcess
                  ELSE [process[p] EXCEPT !.at = "open", !.todo = left]
<1>1. /\ process[p].at = "write" /\ process[p] \in ProcessStates
      /\ process[p].todo \in Todos /\ process[p].todo # << >>
      /\ key \in KeySeeds
  BY DEF Write, FilesIInv, Types, ProcessStates, WritersAreApart, AtWork
<1>2. /\ f \in Written /\ f \in Files /\ f # "legacy"
      /\ left \in Todos
      /\ f \notin Elements(left)
      /\ f = "v2" => left = << >>
  BY <1>1, TodoFacts DEF Written, Files
<1>3. file[f] = Torn
  BY <1>1 DEF FilesIInv, WrittenOnce
<1>4. /\ process' = [process EXCEPT ![p] = new]
      /\ file' = [file EXCEPT ![f] = key]
      /\ kept' = kept \cup {<<f, key>>}
      /\ UNCHANGED generated
  BY DEF Write, Keep
<1>5. /\ new \in ProcessStates
      /\ (new.at = "idle" /\ new.keygen = FALSE)
         \/ (/\ left # << >> /\ new.at = "open" /\ new.todo = left
             /\ new.key = key /\ new.keygen = process[p].keygen)
  <2>1. CASE left = << >>
    BY <2>1, NoProcessFacts
  <2>2. CASE left # << >>
    BY <1>1, <1>2, <2>2 DEF ProcessStates
  <2>3. QED BY <2>1, <2>2
<1>6. Torn \notin KeySeeds /\ Absent \notin KeySeeds /\ Torn # Absent
  BY IdentityAssumption
<1> HIDE DEF f, left, key, new
<1>7. /\ process'[p] = new
      /\ \A q \in Processes : q # p => process'[q] = process[q]
      /\ file'[f] = key
      /\ \A g \in Files : g # f => file'[g] = file[g]
  BY <1>2, <1>4 DEF FilesIInv, Types
<1>8. Types'
  BY <1>1, <1>2, <1>4, <1>5, <1>7 DEF FilesIInv, Types, Files
<1>9. \A q \in Processes : process[q].keygen /\ q # p => f = "v2"
  BY <1>1, TodoFacts DEF f, FilesIInv, WritersAreApart, AtWork
<1>10. WritersAreApart'
  <2>1. \A q \in Processes : AtWork(q)' =>
           /\ process'[q].todo # << >>
           /\ process'[q].keygen \/ (process'[q].todo = <<"v2">> /\ file'["legacy"] # Absent)
    <3>1. left # << >> => process[p].keygen
      BY <1>1, TodoFacts DEF left, FilesIInv, WritersAreApart, AtWork
    <3>2. QED BY <1>2, <1>5, <1>7, <3>1 DEF FilesIInv, WritersAreApart, AtWork, Files
  <2>2. \A q, r \in Processes : process'[q].keygen /\ process'[r].keygen => q = r
    BY <1>5, <1>7 DEF FilesIInv, WritersAreApart
  <2>3. ASSUME NEW q \in Processes, process'[q].keygen, NEW g \in Unopened(q)', g # "v2"
        PROVE  file'[g] = Absent
    <3>1. g \in Unopened(q) /\ g # f /\ process[q].keygen
      BY <1>1, <1>2, <1>5, <1>7, <1>9, <2>3 DEF Unopened, left
    <3>2. file[g] = Absent
      BY <2>3, <3>1 DEF FilesIInv, WritersAreApart
    <3>3. g \in Files
      <4>1. process[q].todo \in Todos /\ (process[q].at = "write" => process[q].todo # << >>)
        BY DEF FilesIInv, Types, ProcessStates, WritersAreApart, AtWork
      <4>2. QED BY <3>1, <4>1, TodoFacts DEF Unopened, Written, Files
    <3>4. QED BY <1>7, <3>1, <3>2, <3>3
  <2>4. \A q \in Processes : process'[q].at = "passphrase" =>
           process'[q].keygen /\ "public" \in Elements(process'[q].todo)
    BY <1>5, <1>7 DEF FilesIInv, WritersAreApart
  <2>5. QED BY <2>1, <2>2, <2>3, <2>4 DEF WritersAreApart
<1>11. WrittenOnce'
  <2>1. \A q \in Processes : q # p /\ process[q].at = "write" =>
           /\ Head(process[q].todo) # f
           /\ Head(process[q].todo) \in Files
    BY <1>1, TodoFacts
    DEF f, FilesIInv, Types, ProcessStates, WritersAreApart, AtWork, WrittenOnce, Written, Files
  <2>2. QED BY <1>5, <1>7, <2>1 DEF FilesIInv, WrittenOnce
<1>12. WholeIsKept'
  <2>1. \A k \in kept : k[1] # f /\ k[1] \in Files
    BY <1>3, <1>6 DEF FilesIInv, Types, WholeIsKept, Written, Files
  <2>2. \A k \in kept' : file'[k[1]] = k[2]
    BY <1>4, <1>7, <2>1 DEF FilesIInv, WholeIsKept
  <2>3. \A g \in Written : file'[g] \in KeySeeds => <<g, file'[g]>> \in kept'
    BY <1>4, <1>7 DEF FilesIInv, WholeIsKept, Written, Files
  <2>4. QED BY <2>2, <2>3 DEF WholeIsKept
<1>13. OneKey'
  <2> SUFFICES ASSUME file["legacy"] = Absent
               PROVE  /\ file'["public"] = Absent => file'["private"] = Absent /\ file'["v2"] = Absent
                      /\ \A k, l \in kept' : k[2] = l[2]
                      /\ \A q \in Processes : AtWork(q)' =>
                           /\ \A k \in kept' : k[2] = process'[q].key
                           /\ file'["public"] # Absent
    BY <1>2, <1>7 DEF OneKey, Files
  <2>1. process[p].keygen /\ file["public"] # Absent /\ \A k \in kept : k[2] = key
    BY <1>1 DEF key, FilesIInv, WritersAreApart, OneKey, AtWork
  <2>2. file'["public"] # Absent
    BY <1>1, <1>6, <1>7, <2>1 DEF Files
  <2>3. \A k \in kept' : k[2] = key
    BY <1>4, <2>1
  <2>4. \A q \in Processes : AtWork(q)' => process'[q].key = key
    BY <1>1, <1>5, <1>7, <2>1 DEF FilesIInv, WritersAreApart, AtWork
  <2>5. QED BY <2>2, <2>3, <2>4
<1>14. QED BY <1>8, <1>10, <1>11, <1>12, <1>13 DEF FilesIInv

\* What a whole file holds was reported when it was written.
LEMMA ReadIInv ==
    ASSUME FilesIInv, NEW f \in Written, file[f] \in KeySeeds, Keep(f, file[f])
    PROVE  kept' = kept
BY DEF FilesIInv, WholeIsKept, Keep

\* Every step keeps the invariant.
LEMMA NextIInv ==
    ASSUME FilesIInv, [IdentityNext]_identityVars
    PROVE  FilesIInv'
<1>1. ASSUME NEW p \in Processes, NEW hybrid \in BOOLEAN, Keygen(p, hybrid) PROVE FilesIInv'
  BY <1>1, KeygenIInv
<1>2. ASSUME NEW p \in Processes, GenerateKey(p) PROVE FilesIInv'
  BY <1>2, GenerateKeyIInv
<1>3. ASSUME NEW p \in Processes, LoadOrUpgrade(p) PROVE FilesIInv'
  <2>1. /\ At("load", FALSE) \in ProcessStates /\ At("upgrade", FALSE) \in ProcessStates
        /\ At("load", FALSE).at = "load" /\ At("upgrade", FALSE).at = "upgrade"
        /\ At("load", FALSE).keygen = FALSE /\ At("upgrade", FALSE).keygen = FALSE
    BY AtFacts, Zenon
  <2>2. CASE process' = [process EXCEPT ![p] = At("load", FALSE)]
    BY <1>3, <2>1, <2>2, RestIInv DEF LoadOrUpgrade
  <2>3. CASE process' = [process EXCEPT ![p] = At("upgrade", FALSE)]
    BY <1>3, <2>1, <2>3, RestIInv DEF LoadOrUpgrade
  <2>4. QED BY <1>3, <2>2, <2>3 DEF LoadOrUpgrade
<1>4. ASSUME NEW p \in Processes, process' = [process EXCEPT ![p] = NoProcess],
             UNCHANGED <<file, generated, kept>>
      PROVE  FilesIInv'
  BY <1>4, NoProcessFacts, RestIInv
<1>5. ASSUME NEW p \in Processes, LoadIdentityFile(p) PROVE FilesIInv'
  <2>1. kept' = kept
    BY <1>5, ReadIInv DEF LoadIdentityFile, Written
  <2>2. QED BY <1>4, <1>5, <2>1 DEF LoadIdentityFile
<1>6. ASSUME NEW p \in Processes, Upgrade(p) PROVE FilesIInv'
  BY <1>4, <1>6, UpgradeIInv DEF Upgrade
<1>7. ASSUME NEW p \in Processes, Open(p) PROVE FilesIInv'
  <2>1. CASE Exclusive(Head(process[p].todo)) => file[Head(process[p].todo)] = Absent
    BY <1>7, <2>1, OpenIInv
  <2>2. CASE Exclusive(Head(process[p].todo)) /\ file[Head(process[p].todo)] # Absent
    BY <1>4, <1>7, <2>2 DEF Open
  <2>3. QED BY <2>1, <2>2
<1>8. ASSUME NEW p \in Processes, Write(p) PROVE FilesIInv'
  BY <1>8, WriteIInv
<1>9. ASSUME NEW p \in Processes, GiveUp(p) PROVE FilesIInv'
  BY <1>4, <1>9 DEF GiveUp
<1>10. CASE UNCHANGED identityVars
  BY <1>10 DEF identityVars, FilesIInv, Types, WritersAreApart, AtWork, Unopened, WrittenOnce, WholeIsKept, OneKey
<1>11. CASE ReadPrivateKey
  BY <1>10, <1>11, ReadIInv DEF ReadPrivateKey, Written, identityVars
<1>12. QED
  BY <1>1, <1>2, <1>3, <1>5, <1>6, <1>7, <1>8, <1>9, <1>10, <1>11 DEF IdentityNext
-----------------------------------------------------------------------------
(***************************************************************************)
(* Theorems.                                                               *)
(***************************************************************************)

\* The invariant holds of all hosts: what the exclusive open of WriteIdentityFile and
\* keygen's checkOverwrite keep (hybrid/identity_file.go).
THEOREM FilesIInvHolds == IdentitySpec => []FilesIInv
<1>1. FilesIInv /\ [IdentityNext]_identityVars => FilesIInv'
  BY NextIInv
<1>2. QED BY FilesInitIInv, <1>1, PTL DEF IdentitySpec

\* The files, processes and history are well typed.
THEOREM FilesTypeCorrect == IdentitySpec => []Types
<1>1. FilesIInv => Types
  BY DEF FilesIInv
<1>2. QED BY <1>1, FilesIInvHolds, PTL

\* An identity that was reported written, or was loaded, stays in its file, and is the only
\* one of its host, whatever runs at once and dies (WriteIdentityFile, checkOverwrite).
THEOREM IdentitiesAreKept == IdentitySpec => []IdentityIsKept
<1>1. FilesIInv => IdentityIsKept
  <2> SUFFICES ASSUME FilesIInv PROVE IdentityIsKept
    OBVIOUS
  <2>1. \A k \in kept : file[k[1]] = k[2]
    BY DEF FilesIInv, WholeIsKept
  <2>2. ASSUME file["legacy"] = Absent PROVE Cardinality({k[2] : k \in kept}) <= 1
    <3> DEFINE seeds == {k[2] : k \in kept}
    <3>1. CASE kept = {}
      BY <3>1, FS_EmptySet
    <3>2. CASE kept # {}
      <4>1. PICK l \in kept : TRUE
        BY <3>2
      <4>2. seeds = {l[2]}
        BY <2>2, <4>1 DEF FilesIInv, OneKey
      <4>3. Cardinality({l[2]}) = 1
        BY FS_Singleton
      <4> HIDE DEF seeds
      <4>4. Cardinality(seeds) <= 1
        BY <4>2, <4>3
      <4>5. QED BY <4>4 DEF seeds
    <3>3. QED BY <3>1, <3>2
  <2>3. QED BY <2>1, <2>2 DEF IdentityIsKept
<1>2. QED BY <1>1, FilesIInvHolds, PTL
=============================================================================
