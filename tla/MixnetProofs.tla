---------------------------- MODULE MixnetProofs ----------------------------
(***************************************************************************)
(* Proofs about Mixnet: everybody's noise is in what is handled, replies   *)
(* find their senders, and the round keeps the promise of MixRound.        *)
(***************************************************************************)
EXTENDS Mixnet, SequenceTheorems, FiniteSetTheorems, WellFoundedInduction, TLAPS

Stages == {"idle", "adding", "closing", "fetching", "draining", "handling", "ok", "failed", "lost"}

StateType ==
    [numIncoming : Nat, incoming : Seq(Onion \cup {Nil}), acceptingOnions : BOOLEAN,
     jobs : SUBSET Nat, noiseDone : {"unset", "open", "closed"}, index : Seq(Nat),
     replies : Seq(Message \cup {Nil}), encryptDone : BOOLEAN]

\* Type invariant.
Types ==
    /\ bidirectional \in BOOLEAN
    /\ batch \in Batches
    /\ rounds \subseteq Servers
    /\ st \in [Servers -> StateType]
    /\ noise \in [Servers -> Seq(Onion)]
    /\ pc \in [0 .. N -> Stages]
    /\ outgoing \in [0 .. N -> Seq(Onion)]
    /\ stream \in [Callers -> Seq({"new", "open", "done", "error"})]
    /\ shuffler \in [Servers -> Seq(Nat)]
    /\ handled \in Seq(Message) \cup {Nil}
    /\ replies \in Seq(Message \cup {Nil}) \cup {Nil}

\* What is called, and whether it fails.
CallTypes ==
    /\ setup \in {"NewRound", "SetRoundSettings", "done", "failed"}
    /\ answers \in [Servers -> {"none", "ok", "error"}]
    /\ deletes \subseteq Servers
    /\ failures \in 0 .. MaxFailures

\* The round goes down the chain: a server begins when the one before has sent all onions,
\* and what is done when there is an answer was handled.
InOrder ==
    /\ setup # "done" => \A c \in 0 .. N : pc[c] = "idle"
    /\ \A s, t \in 0 .. N : t < s /\ pc[s] # "idle" => pc[t] \notin {"idle", "draining", "adding"}
    /\ pc[0] \notin {"draining", "handling", "lost"}
    /\ pc[N] \notin {"adding", "closing", "fetching"}
    /\ \A c \in Callers : pc[c] # "handling"
    /\ \A c \in Callers : pc[c] = "fetching" =>
          bidirectional /\ (c + 1 \in rounds => pc[c + 1] = "ok")
    /\ handled # Nil => pc[N] \notin {"idle", "draining", "handling"}
    /\ \A c \in 0 .. N : pc[c] \in {"ok", "fetching"} => handled # Nil

\* Noise of server s, and all that there is in a round.
IsNoiseOf(s, o) == \E b \in 0 .. NumMailboxes, i \in Nat : o = NoiseOnion(s, b, i)

IsOnion(onions, o) == o \in ToSet(onions) \/ \E s \in Servers : IsNoiseOf(s, o)

\* What a server can do only after its noise was made, and no noise is made any more.
Mixing == {"adding", "closing", "fetching", "handling", "ok", "failed"}

\* Noise is made once, before its server mixes, and each onion of it is its own.
NoiseFits ==
    \A s \in Servers :
        /\ pc[s] \in Mixing => st[s].noiseDone = "closed"
        /\ pc[s] = "lost" => st[s].noiseDone = "unset"
        /\ \A o \in ToSet(noise[s]) : IsNoiseOf(s, o)
        /\ IsInjective(noise[s])

\* What server s makes of an onion.
Opened(s, onion) == IF onion.breaks = s THEN Nil ELSE onion

\* While c adds its onions, and when it has added them, they are in their places or with a worker.
InPlace(c, i) == i \in st[c + 1].jobs \/ st[c + 1].incoming[i] = Opened(c + 1, outgoing[c][i])

\* What server c + 1 has of the onions of c.
Added(c) ==
    LET next == st[c + 1]
    IN /\ next.jobs \subseteq DOMAIN next.incoming \cap DOMAIN outgoing[c]
       /\ pc[c] \in {"idle", "draining"} => next.numIncoming = 0 /\ next.incoming = << >>
       /\ pc[c] = "adding" =>
             /\ DOMAIN stream[c] = DOMAIN outgoing[c]
             /\ \/ /\ next.numIncoming = 0 /\ next.incoming = << >>
                   /\ \A i \in DOMAIN stream[c] : stream[c][i] \in {"new", "error"}
                \/ /\ next.numIncoming = Len(outgoing[c]) /\ next.acceptingOnions
                   /\ Len(next.incoming) = Len(outgoing[c])
             /\ \A i \in DOMAIN stream[c] : stream[c][i] = "done" => InPlace(c, i)
             /\ \A i \in next.jobs : stream[c][i] = "done"
       /\ (pc[c] = "closing" /\ pc[c + 1] = "idle" /\ c + 1 \in rounds) \/ pc[c + 1] = "draining" =>
             /\ Len(next.incoming) = Len(outgoing[c])
             /\ \A i \in DOMAIN outgoing[c] : InPlace(c, i)

\* The onions that are left after server s, with the noise up to there.
Left(s) == {o \in ToSet(batch) : o.breaks > s} \cup UNION {ToSet(noise[t]) : t \in 1 .. s}

\* Server s, or the coordinator, has sent what it sends.
HasMixed(s) == pc[s] \in Mixing \/ (s < N /\ pc[s + 1] # "idle")

\* It sends those onions, each request once; dummies may be dropped.
Carried(s) ==
    /\ ToSet(outgoing[s]) \subseteq Left(s)
    /\ \A o \in Left(s) : o.msg.mailbox # 0 => o \in ToSet(outgoing[s])
    /\ s > 0 => \A i, j \in DOMAIN outgoing[s] :
          outgoing[s][i].msg.mailbox # 0 /\ outgoing[s][i] = outgoing[s][j] => i = j

\* The onion at i opens everywhere, is no dummy, and no copy of it comes before.
Survives(onions, i) ==
    /\ onions[i].breaks > N /\ onions[i].msg.mailbox # 0
    /\ \A j \in 1 .. i - 1 : onions[j] # onions[i]

\* msgs answers onions, position by position, each request once.
Answers(onions, msgs) ==
    /\ Len(msgs) = Len(onions)
    /\ \A i \in DOMAIN onions :
          /\ msgs[i] \in {onions[i].msg, Nil}
          /\ Survives(onions, i) => msgs[i] = onions[i].msg
    /\ \A i, j \in DOMAIN onions :
          msgs[i] # Nil /\ msgs[j] # Nil /\ onions[i] = onions[j] => i = j

\* Each request is once in onions.
Once(onions) ==
    \A i, j \in DOMAIN onions : onions[i].msg.mailbox # 0 /\ onions[i] = onions[j] => i = j

\* What Unshuffle makes of msgs, for permutation p and noise own.
Restored(p, own, msgs) ==
    SubSeq([k \in DOMAIN p |-> msgs[CHOOSE j \in DOMAIN p : p[j] = k]], 1, Len(p) - Len(own))

\* index and permutation p say where in sent is what was got, for server s with noise own.
Routes(s, index, got, sent, own, p) ==
    /\ Len(index) = Len(got)
    /\ \A i \in DOMAIN index :
          /\ Survives(got, i) => index[i] # 0
          /\ index[i] # 0 =>
                /\ index[i] <= Len(sent) - Len(own)
                /\ s < N => /\ \E j \in DOMAIN sent : p[j] = index[i]
                            /\ \A j \in DOMAIN sent : p[j] = index[i] => sent[j] = got[i]
                /\ s = N => sent[index[i]] = got[i]
    /\ \A i, j \in DOMAIN index : index[i] # 0 /\ index[j] # 0 /\ got[i] = got[j] => i = j
    /\ s < N => Len(p) = Len(sent)

\* Server s knows where each onion that it got is in what it sent.
Routed(s) == Routes(s, st[s].index, outgoing[s - 1], outgoing[s], noise[s], shuffler[s])

\* What a server has after it has mixed, and after it has the replies.
Mixed ==
    /\ pc[0] # "idle" => outgoing[0] = batch
    /\ \A s \in 0 .. N : HasMixed(s) => Carried(s)
    /\ \A s \in Servers :
          /\ pc[s] \in Mixing \ {"failed"} => Routed(s)
          /\ pc[s] = "ok" /\ bidirectional => Answers(outgoing[s - 1], st[s].replies)

\* What has come of it.
Done ==
    /\ handled # Nil => \A m : m \in ToSet(handled) <=>
          m \in Messages(batch) \/ \E s \in Servers : m \in Messages(noise[s])
    /\ replies # Nil => Answers(batch, replies)

\* The inductive invariant.
IInv ==
    /\ Types /\ CallTypes /\ InOrder /\ NoiseFits
    /\ \A c \in Callers : Added(c)
    /\ Mixed /\ Done
-----------------------------------------------------------------------------
(***************************************************************************)
(* The sequences that the model builds.                                    *)
(***************************************************************************)

\* A non-empty set of natural numbers has a least element: what induction is used for here.
LEMMA Least ==
    ASSUME NEW S, S \subseteq Nat, S # {}
    PROVE  \E n \in S : \A m \in S : n <= m
<1> DEFINE R == OpToRel(<, Nat)
<1>1. PICK n \in S : \A m \in S : ~ (<<m, n>> \in R)
  <2>1. IsWellFoundedOn(R, Nat)
    BY NatLessThanWellFounded
  <2> HIDE DEF R
  <2>2. QED BY <2>1, WFMin
<1>2. ASSUME NEW m \in S, m < n PROVE FALSE
  <2>1. <<m, n>> \in {ss \in Nat \X Nat : ss[1] < ss[2]}
    BY <1>2
  <2>2. <<m, n>> \in R
    BY <2>1 DEF OpToRel
  <2> HIDE DEF R
  <2>3. QED BY <1>1, <2>2, Zenon
<1>3. \A m \in S : n <= m
  BY <1>2
<1>4. QED BY <1>3

\* Positions that are kept are numbered from 1, without gaps.
LEMMA RankFacts ==
    ASSUME NEW n \in Nat, NEW kept \in SUBSET (1 .. n)
    PROVE  /\ Cardinality(kept) \in Nat
           /\ \A i \in kept : Rank(kept, i) \in 1 .. Cardinality(kept)
           /\ \A i, j \in kept : Rank(kept, i) = Rank(kept, j) => i = j
           /\ \A k \in 1 .. Cardinality(kept) : \E i \in kept : Rank(kept, i) = k
<1> DEFINE c == Cardinality(kept)
           upTo(i) == {j \in kept : j <= i}
<1>1. IsFiniteSet(kept) /\ c \in Nat
  <2>1. IsFiniteSet(1 .. n)
    BY FS_Interval
  <2>2. IsFiniteSet(kept)
    BY <2>1, FS_Subset
  <2>3. QED BY <2>2, FS_CardinalityType
<1>2. ASSUME NEW i \in kept
      PROVE  /\ IsFiniteSet(upTo(i)) /\ i \in upTo(i)
             /\ Rank(kept, i) = Cardinality(upTo(i)) /\ Rank(kept, i) \in 1 .. c
  <2>1. upTo(i) \in SUBSET kept /\ i \in upTo(i)
    OBVIOUS
  <2> HIDE DEF upTo
  <2>2. IsFiniteSet(upTo(i)) /\ Cardinality(upTo(i)) <= c /\ Cardinality(upTo(i)) \in Nat
    BY <1>1, <2>1, FS_Subset, FS_CardinalityType
  <2>3. Cardinality(upTo(i)) # 0
    BY <2>1, <2>2, FS_EmptySet
  <2>4. Rank(kept, i) = Cardinality(upTo(i))
    BY DEF Rank, upTo
  <2>5. QED BY <1>1, <2>1, <2>2, <2>3, <2>4
<1>3. ASSUME NEW i \in kept, NEW j \in kept, i < j
      PROVE  Rank(kept, i) # Rank(kept, j)
  <2>1. upTo(i) \in SUBSET upTo(j) /\ j \notin upTo(i)
    <3>1. kept \subseteq Nat
      OBVIOUS
    <3>2. i \in Nat /\ j \in Nat /\ ~(j <= i)
      BY <1>3, <3>1
    <3>3. \A k \in kept : k <= i => k <= j
      BY <1>3, <3>1, <3>2
    <3>4. QED BY <3>2, <3>3
  <2> HIDE DEF upTo
  <2>2. IsFiniteSet(upTo(j)) /\ j \in upTo(j)
        /\ Rank(kept, i) = Cardinality(upTo(i)) /\ Rank(kept, j) = Cardinality(upTo(j))
    BY <1>2
  <2>3. Cardinality(upTo(j)) = Cardinality(upTo(i)) => upTo(j) = upTo(i)
    BY <2>1, <2>2, FS_Subset
  <2>4. QED BY <2>1, <2>2, <2>3
<1>4. \A i, j \in kept : Rank(kept, i) = Rank(kept, j) => i = j
  <2> SUFFICES ASSUME NEW i \in kept, NEW j \in kept, Rank(kept, i) = Rank(kept, j), i # j
               PROVE  FALSE
    OBVIOUS
  <2>1. i < j \/ j < i
    OBVIOUS
  <2>2. QED BY <1>3, <2>1
<1>5. \A k \in 1 .. c : \E i \in kept : Rank(kept, i) = k
  <2> DEFINE f == [i \in kept |-> Rank(kept, i)]
             T == 1 .. c
  <2>1. f \in [kept -> T] /\ \A i \in kept : f[i] = Rank(kept, i)
    BY <1>2
  <2>2. IsInjective(f)
    <3> HIDE DEF f, T
    <3>1. QED BY <1>4, <2>1 DEF IsInjective
  <2>3. IsFiniteSet(T) /\ Cardinality(T) = c
    <3>1. 1 \in Int /\ c \in Int /\ (c >= 1 => c - 1 + 1 = c) /\ (1 > c => c = 0)
      BY <1>1
    <3> HIDE DEF c
    <3>2. QED BY <3>1, FS_Interval
  <2> HIDE DEF f, T, c
  <2>4. f \in Injection(kept, T)
    BY <2>1, <2>2 DEF Injection
  <2>5. f \in Surjection(kept, T)
    BY <2>3, <2>4, FS_Injection DEF c
  <2>6. \A k \in T : \E i \in kept : f[i] = k
    BY <2>5 DEF Surjection
  <2>7. QED BY <2>1, <2>6 DEF T
<1>6. QED BY <1>1, <1>2, <1>4, <1>5

\* Appended has what is kept, each in its place.
LEMMA AppendedFacts ==
    ASSUME NEW S, NEW s \in Seq(S), NEW kept \in SUBSET (DOMAIN s)
    PROVE  /\ Cardinality(kept) \in Nat
           /\ Appended(s, kept) \in [1 .. Cardinality(kept) -> S]
           /\ \A i \in kept : /\ Rank(kept, i) \in 1 .. Cardinality(kept)
                              /\ Appended(s, kept)[Rank(kept, i)] = s[i]
           /\ \A i, j \in kept : Rank(kept, i) = Rank(kept, j) => i = j
           /\ \A k \in 1 .. Cardinality(kept) :
                 \E i \in kept : Rank(kept, i) = k /\ Appended(s, kept)[k] = s[i]
<1> DEFINE c == Cardinality(kept)
           at(k) == CHOOSE i \in kept : Rank(kept, i) = k
<1>1. /\ c \in Nat
      /\ \A i \in kept : Rank(kept, i) \in 1 .. c
      /\ \A i, j \in kept : Rank(kept, i) = Rank(kept, j) => i = j
      /\ \A k \in 1 .. c : \E i \in kept : Rank(kept, i) = k
  <2>1. Len(s) \in Nat /\ kept \in SUBSET (1 .. Len(s))
    OBVIOUS
  <2>2. QED BY <2>1, RankFacts
<1>2. \A k \in 1 .. c : at(k) \in kept /\ Rank(kept, at(k)) = k
  BY <1>1
<1>3. Appended(s, kept) = [k \in 1 .. c |-> s[at(k)]]
  BY DEF Appended
<1> HIDE DEF c, at
<1>4. \A k \in 1 .. c : s[at(k)] \in S
  BY <1>2
<1>5. \A i \in kept : at(Rank(kept, i)) = i
  BY <1>1, <1>2
<1>6. Appended(s, kept) \in [1 .. c -> S]
  BY <1>3, <1>4
<1>7. \A i \in kept : Appended(s, kept)[Rank(kept, i)] = s[i]
  BY <1>1, <1>3, <1>5
<1>8. \A k \in 1 .. c : Rank(kept, at(k)) = k /\ Appended(s, kept)[k] = s[at(k)]
  BY <1>2, <1>3
<1>9. QED BY <1>1, <1>2, <1>6, <1>7, <1>8 DEF c

\* A finite set as a sequence.
LEMMA SetToSeqFacts ==
    ASSUME NEW S, IsFiniteSet(S)
    PROVE  SetToSeq(S) \in Seq(S) /\ IsInjective(SetToSeq(S)) /\ ToSet(SetToSeq(S)) = S
<1> DEFINE D == 1 .. Cardinality(S)
<1>1. Cardinality(S) \in Nat /\ ExistsBijection(D, S)
  BY FS_CardinalityType
<1>2. PICK g : g \in [D -> S] /\ IsInjective(g)
  BY <1>1 DEF ExistsBijection, Bijection, Injection
<1>3. SetToSeq(S) \in [D -> S] /\ IsInjective(SetToSeq(S))
  BY <1>2 DEF SetToSeq
<1> DEFINE f == SetToSeq(S)
<1>4. IsFiniteSet(D) /\ Cardinality(D) = Cardinality(S)
  <2> DEFINE c == Cardinality(S)
  <2>1. 1 \in Int /\ c \in Int /\ (c >= 1 => c - 1 + 1 = c) /\ (1 > c => c = 0)
    BY <1>1
  <2> HIDE DEF c
  <2>2. IsFiniteSet(1 .. c) /\ Cardinality(1 .. c) = c
    BY <2>1, FS_Interval
  <2>3. QED BY <2>2 DEF c
<1> HIDE DEF f
<1>5. f \in Injection(D, S)
  BY <1>3 DEF Injection, f
<1>6. f \in Surjection(D, S)
  <2> HIDE DEF D
  <2>1. QED BY <1>4, <1>5, FS_Injection
<1>7. ToSet(f) = S
  <2>1. f \in [D -> S] /\ \A x \in S : \E i \in D : f[i] = x
    BY <1>6 DEF Surjection
  <2> HIDE DEF D
  <2>2. QED BY <2>1 DEF ToSet
<1>8. QED BY <1>1, <1>3, <1>7 DEF f

\* What is in two sequences, one after the other.
IsConcat(S, s, t, u) == s \in Seq(S) /\ t \in Seq(S) /\ u = s \o t

\* The elements of a concatenation.
LEMMA ConcatFacts ==
    ASSUME NEW S, NEW s, NEW t, NEW u, IsConcat(S, s, t, u)
    PROVE  /\ u \in Seq(S) /\ Len(u) = Len(s) + Len(t)
           /\ \A i \in 1 .. Len(s) : u[i] = s[i]
           /\ \A i \in 1 .. Len(t) : u[Len(s) + i] = t[i]
           /\ \A k \in 1 .. Len(u) :
                 k \in 1 .. Len(s) \/ \E i \in 1 .. Len(t) : k = Len(s) + i
<1>1. /\ s \o t \in Seq(S) /\ Len(s \o t) = Len(s) + Len(t)
      /\ \A i \in 1 .. Len(s) + Len(t) :
            (s \o t)[i] = IF i <= Len(s) THEN s[i] ELSE t[i - Len(s)]
  BY ConcatProperties DEF IsConcat
<1>2. Len(s) \in Nat /\ Len(t) \in Nat /\ u = s \o t
  BY DEF IsConcat
<1> DEFINE m == Len(s)
           n == Len(t)
<1> HIDE DEF m, n
<1>3. m \in Nat /\ n \in Nat /\ u \in Seq(S) /\ Len(u) = m + n
      /\ \A i \in 1 .. m + n : u[i] = IF i <= m THEN s[i] ELSE t[i - m]
  BY <1>1, <1>2 DEF m, n
<1>4. \A i \in 1 .. m : u[i] = s[i]
  BY <1>3
<1>5. \A i \in 1 .. n : u[m + i] = t[i]
  <2> SUFFICES ASSUME NEW i \in 1 .. n PROVE u[m + i] = t[i]
    OBVIOUS
  <2>1. m + i \in 1 .. m + n /\ ~(m + i <= m) /\ m + i - m = i
    BY <1>3
  <2>2. QED BY <1>3, <2>1
<1>6. \A k \in 1 .. m + n : k \in 1 .. m \/ \E i \in 1 .. n : k = m + i
  <2> SUFFICES ASSUME NEW k \in 1 .. m + n, k \notin 1 .. m PROVE \E i \in 1 .. n : k = m + i
    OBVIOUS
  <2>1. k - m \in 1 .. n /\ k = m + (k - m)
    BY <1>3
  <2>2. QED BY <2>1
<1>7. QED BY <1>3, <1>4, <1>5, <1>6 DEF m, n
-----------------------------------------------------------------------------
(***************************************************************************)
(* Onions.                                                                 *)
(***************************************************************************)

\* What an onion of noise is.
LEMMA NoiseOnionFacts ==
    ASSUME NEW s \in Servers, NEW b \in 0 .. NumMailboxes, NEW i \in Nat,
           NEW o, o = NoiseOnion(s, b, i)
    PROVE  /\ o \in Onion /\ o.from = s /\ o.from # 0 /\ o.num = <<b, i>> /\ o.breaks = N + 1
           /\ o.msg.mailbox = b
           /\ o.msg.tail = IF b = 0 THEN << >> ELSE <<s, b, i>>
<1>1. s \in Nat /\ b \in Nat /\ s \in 0 .. N /\ s # 0 /\ N + 1 \in 1 .. N + 1
  BY MixnetAssumption DEF Servers
<1>2. <<b, i>> \in Seq(Nat) /\ <<s, b, i>> \in Seq(Nat) /\ << >> \in Seq(Nat)
  BY <1>1
<1> DEFINE t == IF b = 0 THEN << >> ELSE <<s, b, i>>
           m == [mailbox |-> b, tail |-> t]
<1>3. t \in Seq(Nat)
  BY <1>2
<1>4. o = [from |-> s, num |-> <<b, i>>, breaks |-> N + 1, msg |-> m]
  BY DEF NoiseOnion
<1> HIDE DEF t
<1>5. m \in Message /\ m.mailbox = b /\ m.tail = t
  BY <1>3 DEF Message
<1> HIDE DEF m
<1>6. o \in Onion
  BY <1>1, <1>2, <1>4, <1>5 DEF Onion
<1>7. o.from = s /\ o.num = <<b, i>> /\ o.breaks = N + 1 /\ o.msg = m
  BY <1>4
<1>8. QED BY <1>1, <1>5, <1>6, <1>7 DEF t

\* The noise that a server makes is a finite set.
LEMMA NoiseOnionsFacts ==
    ASSUME NEW s \in Servers, NEW counts \in NoiseCounts
    PROVE  /\ IsFiniteSet(NoiseOnions(s, counts))
           /\ \A o \in NoiseOnions(s, counts) : IsNoiseOf(s, o)
<1> DEFINE B == 0 .. NumMailboxes
           I(b) == 1 .. counts[b]
           F(b) == {NoiseOnion(s, b, i) : i \in I(b)}
<1>1. \A b \in B : counts[b] \in Nat
  BY MixnetAssumption
<1>2. ASSUME NEW b \in B PROVE IsFiniteSet(F(b))
  <2> DEFINE f == [i \in I(b) |-> NoiseOnion(s, b, i)]
  <2>1. IsFiniteSet(I(b))
    BY <1>1, FS_Interval
  <2>2. f \in Surjection(I(b), F(b))
    BY DEF Surjection
  <2> HIDE DEF f, F, I
  <2>3. QED BY <2>1, <2>2, FS_Surjection
<1>3. IsFiniteSet({F(b) : b \in B})
  <2> DEFINE f == [b \in B |-> F(b)]
             T == {F(b) : b \in B}
  <2>1. IsFiniteSet(B)
    BY MixnetAssumption, FS_Interval
  <2> HIDE DEF F
  <2>2. f \in Surjection(B, T)
    BY DEF Surjection
  <2> HIDE DEF f, B, T
  <2>3. QED BY <2>1, <2>2, FS_Surjection DEF T
<1>4. NoiseOnions(s, counts) = UNION {F(b) : b \in B}
  BY DEF NoiseOnions
<1>5. IsFiniteSet(NoiseOnions(s, counts))
  <2> HIDE DEF F
  <2> DEFINE T == {F(b) : b \in B}
  <2>1. \A U \in T : IsFiniteSet(U)
    BY <1>2
  <2> HIDE DEF T
  <2>2. IsFiniteSet(UNION T)
    BY <1>3, <2>1, FS_UNION DEF T
  <2>3. QED BY <1>4, <2>2 DEF T
<1>6. ASSUME NEW o \in NoiseOnions(s, counts) PROVE IsNoiseOf(s, o)
  <2>1. PICK b \in B : o \in F(b)
    BY <1>4
  <2>2. PICK i \in I(b) : o = NoiseOnion(s, b, i)
    BY <2>1
  <2>3. i \in Nat
    BY <1>1
  <2>4. QED BY <2>2, <2>3 DEF IsNoiseOf
<1>7. QED BY <1>5, <1>6

\* What the assumption says of the onions of a batch.
LEMMA BatchFacts ==
    ASSUME NEW onions \in Batches, NEW o \in ToSet(onions)
    PROVE  /\ o \in Onion /\ o.from = 0
           /\ o.msg.mailbox = 0 <=> o.msg.tail = << >>
           /\ Len(o.msg.tail) # 3
           /\ \A p \in ToSet(onions) :
                 (\/ o.num = p.num
                  \/ o.msg.tail = p.msg.tail /\ o.msg.mailbox # 0) => o = p
<1>1. onions \in Seq(Onion)
  BY BatchAssumption
<1>2. PICK i \in DOMAIN onions : o = onions[i]
  BY DEF ToSet
<1>3. o \in Onion
  BY <1>1, <1>2
<1>4. o.from = 0 /\ (o.msg.mailbox = 0 <=> o.msg.tail = << >>) /\ Len(o.msg.tail) # 3
  BY <1>2, BatchAssumption
<1>5. ASSUME NEW p \in ToSet(onions),
             \/ o.num = p.num
             \/ o.msg.tail = p.msg.tail /\ o.msg.mailbox # 0
      PROVE  o = p
  <2>1. PICK j \in DOMAIN onions : p = onions[j]
    BY DEF ToSet
  <2>2. QED BY <1>2, <1>5, <2>1, BatchAssumption
<1>6. QED BY <1>3, <1>4, <1>5

\* Who made an onion and the last bytes tell which it is, and so do those of a request.
LEMMA KeyTells ==
    ASSUME NEW onions \in Batches, NEW o, NEW p, IsOnion(onions, o), IsOnion(onions, p)
    PROVE  /\ o \in Onion
           /\ o.from = p.from /\ o.num = p.num => o = p
           /\ o.msg.mailbox # 0 /\ o.msg.tail = p.msg.tail => o = p
           /\ o.msg.mailbox # 0 => (o.from = 0 <=> ~IsNoise(o.msg))
           /\ o.from = 0 <=> o \in ToSet(onions)
<1>1. ASSUME NEW s \in Servers, NEW q, IsNoiseOf(s, q)
      PROVE  /\ q \in Onion /\ q.from = s /\ q.from # 0
             /\ q.msg.mailbox # 0 => Len(q.msg.tail) = 3 /\ q.msg.tail # << >>
             /\ q.msg.mailbox = 0 => q.msg.tail = << >>
  <2>1. PICK b \in 0 .. NumMailboxes, i \in Nat : q = NoiseOnion(s, b, i)
    BY <1>1 DEF IsNoiseOf
  <2>2. /\ q \in Onion /\ q.from = s /\ q.from # 0 /\ q.msg.mailbox = b
        /\ q.msg.tail = IF b = 0 THEN << >> ELSE <<s, b, i>>
    BY <2>1, NoiseOnionFacts
  <2>3. Len(<<s, b, i>>) = 3 /\ <<s, b, i>> # << >>
    OBVIOUS
  <2>4. QED BY <2>2, <2>3
<1>2. CASE o \in ToSet(onions) /\ p \in ToSet(onions)
  BY <1>2, BatchFacts DEF IsNoise
<1>3. CASE \E s \in Servers : IsNoiseOf(s, o) /\ p \in ToSet(onions)
  <2>1. p.from = 0 /\ Len(p.msg.tail) # 3
    BY <1>3, BatchFacts
  <2>2. /\ o \in Onion /\ o.from # 0 /\ (o.msg.mailbox # 0 => Len(o.msg.tail) = 3)
    BY <1>1, <1>3
  <2>3. o \notin ToSet(onions)
    BY <2>2, BatchFacts
  <2>4. QED BY <2>1, <2>2, <2>3 DEF IsNoise
<1>4. CASE \E s \in Servers : IsNoiseOf(s, p) /\ o \in ToSet(onions)
  <2>1. /\ o \in Onion /\ o.from = 0 /\ Len(o.msg.tail) # 3
        /\ o.msg.mailbox # 0 => o.msg.tail # << >>
    BY <1>4, BatchFacts
  <2>2. /\ p.from # 0 /\ (p.msg.mailbox # 0 => Len(p.msg.tail) = 3)
        /\ p.msg.mailbox = 0 => p.msg.tail = << >>
    BY <1>1, <1>4
  <2>3. QED BY <1>4, <2>1, <2>2 DEF IsNoise
<1>5. CASE (\E s \in Servers : IsNoiseOf(s, o)) /\ (\E s \in Servers : IsNoiseOf(s, p))
  <2>1. PICK s \in Servers, b \in 0 .. NumMailboxes, i \in Nat : o = NoiseOnion(s, b, i)
    BY <1>5 DEF IsNoiseOf
  <2>2. PICK t \in Servers, d \in 0 .. NumMailboxes, j \in Nat : p = NoiseOnion(t, d, j)
    BY <1>5 DEF IsNoiseOf
  <2>3. /\ o \in Onion /\ o.from = s /\ o.from # 0 /\ o.num = <<b, i>> /\ o.msg.mailbox = b
        /\ o.msg.tail = IF b = 0 THEN << >> ELSE <<s, b, i>>
    BY <2>1, NoiseOnionFacts
  <2>4. /\ p.from = t /\ p.num = <<d, j>> /\ p.msg.mailbox = d
        /\ p.msg.tail = IF d = 0 THEN << >> ELSE <<t, d, j>>
    BY <2>2, NoiseOnionFacts
  <2>5. ASSUME o.from = p.from, o.num = p.num PROVE o = p
    <3>1. s = t /\ b = d /\ i = j
      BY <2>3, <2>4, <2>5
    <3>2. QED BY <2>1, <2>2, <3>1
  <2>6. ASSUME o.msg.mailbox # 0, o.msg.tail = p.msg.tail PROVE o = p
    <3>1. <<s, b, i>> # << >> /\ Len(<<s, b, i>>) = 3
      OBVIOUS
    <3>2. d # 0 /\ <<s, b, i>> = <<t, d, j>>
      BY <2>3, <2>4, <2>6, <3>1
    <3>3. s = t /\ b = d /\ i = j
      BY <3>2
    <3>4. QED BY <2>1, <2>2, <3>3
  <2>7. o.msg.mailbox # 0 => IsNoise(o.msg)
    <3>1. Len(<<s, b, i>>) = 3
      OBVIOUS
    <3>2. QED BY <2>3, <3>1 DEF IsNoise
  <2>8. o \notin ToSet(onions)
    BY <2>3, BatchFacts
  <2>9. QED BY <2>3, <2>5, <2>6, <2>7, <2>8
<1>6. QED BY <1>2, <1>3, <1>4, <1>5 DEF IsOnion
-----------------------------------------------------------------------------
(***************************************************************************)
(* What a server makes of the onions that it gets.                         *)
(***************************************************************************)

\* Server s gets onions of a round and opens them.
Opens(s, onions, got, incoming) ==
    /\ s \in Servers /\ onions \in Batches /\ got \in Seq(Onion)
    /\ \A o \in ToSet(got) : IsOnion(onions, o)
    /\ incoming \in Seq(Onion \cup {Nil}) /\ Len(incoming) = Len(got)
    /\ \A i \in DOMAIN got : incoming[i] = Opened(s, got[i])

\* Of the onions that open, the first of each stays, and every request has one that does.
LEMMA KeptFacts ==
    ASSUME NEW s, NEW onions, NEW got, NEW incoming, Opens(s, onions, got, incoming)
    PROVE  /\ Kept(s, incoming) \subseteq DOMAIN got
           /\ \A i \in Kept(s, incoming) : incoming[i] = got[i] /\ got[i].breaks # s
           /\ \A i \in DOMAIN got :
                 got[i].breaks # s /\ got[i].msg.mailbox # 0
                    => \E j \in Kept(s, incoming) : got[j] = got[i]
           /\ \A i \in DOMAIN got : Survives(got, i) => i \in Kept(s, incoming)
           /\ \A i, j \in Kept(s, incoming) : got[i] = got[j] => i = j
<1> DEFINE kept == Kept(s, incoming)
           key(i) == msgkey(s, incoming[i])
<1>0. /\ s \in Servers /\ onions \in Batches /\ got \in Seq(Onion)
      /\ \A o \in ToSet(got) : IsOnion(onions, o)
      /\ incoming \in Seq(Onion \cup {Nil}) /\ Len(incoming) = Len(got)
      /\ \A i \in DOMAIN got : incoming[i] = Opened(s, got[i])
  BY DEF Opens
<1>1. DOMAIN got = 1 .. Len(got) /\ DOMAIN incoming = 1 .. Len(got) /\ Len(got) \in Nat
  BY <1>0
<1>2. \A i \in kept : /\ i \in DOMAIN got /\ incoming[i] # Nil
                      /\ \A j \in 1 .. i - 1 : incoming[j] # Nil => key(j) # key(i)
  BY <1>1 DEF Kept
<1>3. \A i \in DOMAIN got : got[i] \in Onion /\ got[i] # Nil /\ IsOnion(onions, got[i])
  BY <1>0, <1>1, NilAssumption DEF ToSet
<1>4. \A i \in DOMAIN got : /\ incoming[i] # Nil => incoming[i] = got[i] /\ got[i].breaks # s
                            /\ got[i].breaks # s => incoming[i] = got[i] /\ incoming[i] # Nil
  BY <1>0, <1>3 DEF Opened
<1>5. ASSUME NEW i \in DOMAIN got, NEW j \in DOMAIN got, got[i].msg.mailbox # 0,
             msgkey(s, got[i]) = msgkey(s, got[j])
      PROVE  got[i] = got[j]
  <2>1. s < N => got[i].from = got[j].from /\ got[i].num = got[j].num
    <3>1. ASSUME s < N PROVE <<got[i].from, got[i].num>> = <<got[j].from, got[j].num>>
      BY <1>5, <3>1 DEF msgkey
    <3>2. QED BY <3>1
  <2>2. ~(s < N) => got[i].msg.tail = got[j].msg.tail
    BY <1>5 DEF msgkey
  <2>3. QED BY <1>0, <1>3, <1>5, <2>1, <2>2, KeyTells
<1>6. \A i \in DOMAIN got :
         got[i].breaks # s /\ got[i].msg.mailbox # 0 => \E j \in kept : got[j] = got[i]
  <2> SUFFICES ASSUME NEW i \in DOMAIN got, got[i].breaks # s, got[i].msg.mailbox # 0
               PROVE  \E j \in kept : got[j] = got[i]
    OBVIOUS
  <2> DEFINE same == {j \in DOMAIN got : incoming[j] # Nil /\ key(j) = key(i)}
  <2>1. i \in same /\ same \subseteq Nat
    BY <1>1, <1>4
  <2>2. PICK j \in same : \A k \in same : j <= k
    <3> HIDE DEF same
    <3>1. QED BY <2>1, Least
  <2>3. ASSUME NEW k \in 1 .. j - 1, incoming[k] # Nil PROVE key(k) # key(j)
    <3>1. k \in DOMAIN got /\ ~(j <= k)
      BY <1>1
    <3>2. k \notin same
      BY <2>2, <3>1
    <3>3. QED BY <2>3, <3>1, <3>2
  <2>4. j \in kept
    BY <1>1, <2>3 DEF Kept
  <2>5. msgkey(s, got[i]) = msgkey(s, got[j])
    BY <1>4
  <2>6. got[i] = got[j]
    BY <1>5, <2>5
  <2>7. QED BY <2>4, <2>6
<1>7. \A i \in DOMAIN got : Survives(got, i) => i \in kept
  <2> SUFFICES ASSUME NEW i \in DOMAIN got, Survives(got, i) PROVE i \in kept
    OBVIOUS
  <2>1. got[i].breaks > N /\ got[i].msg.mailbox # 0 /\ \A j \in 1 .. i - 1 : got[j] # got[i]
    BY DEF Survives
  <2>2. got[i].breaks # s
    <3>1. s \in Nat /\ N \in Nat /\ s <= N
      BY <1>0, MixnetAssumption DEF Servers
    <3>2. got[i].breaks \in Nat
      BY <1>3, <3>1 DEF Onion
    <3>3. QED BY <2>1, <3>1, <3>2
  <2>3. ASSUME NEW j \in 1 .. i - 1, incoming[j] # Nil PROVE key(j) # key(i)
    <3>1. j \in DOMAIN got /\ got[j] # got[i]
      BY <1>1, <2>1
    <3>2. msgkey(s, got[i]) # msgkey(s, got[j])
      BY <1>5, <2>1, <3>1
    <3>3. QED BY <1>4, <2>2, <2>3, <3>1, <3>2
  <2>4. QED BY <1>1, <1>4, <2>2, <2>3 DEF Kept
<1>8. \A i, j \in kept : got[i] = got[j] => i = j
  <2> SUFFICES ASSUME NEW i \in kept, NEW j \in kept, got[i] = got[j], i # j PROVE FALSE
    OBVIOUS
  <2>1. i \in Nat /\ j \in Nat /\ i >= 1 /\ j >= 1 /\ incoming[i] = incoming[j] /\ incoming[i] # Nil
    BY <1>1, <1>2, <1>4
  <2>2. key(i) = key(j)
    BY <2>1
  <2>3. i \in 1 .. j - 1 \/ j \in 1 .. i - 1
    BY <2>1
  <2> HIDE DEF key
  <2>4. QED BY <1>2, <2>1, <2>2, <2>3
<1>9. QED BY <1>2, <1>4, <1>6, <1>7, <1>8
\* What goes on: what was kept, and the noise behind it.
GoesOn(got, incoming, kept, own, all) ==
    /\ got \in Seq(Onion) /\ incoming \in Seq(Onion \cup {Nil}) /\ Len(incoming) = Len(got)
    /\ kept \in SUBSET (DOMAIN got) /\ \A i \in kept : incoming[i] = got[i]
    /\ own \in Seq(Onion) /\ all = Appended(incoming, kept) \o own

\* Where it is, c of it from others.
Placed(got, kept, own, all, c) ==
    /\ all \in Seq(Onion) /\ Len(all) = c + Len(own)
    /\ \A i \in kept : Rank(kept, i) \in 1 .. Len(all) - Len(own) /\ all[Rank(kept, i)] = got[i]
    /\ \A i \in DOMAIN own : all[c + i] = own[i]
    /\ \A k \in DOMAIN all :
          (\E i \in kept : k = Rank(kept, i)) \/ \E i \in DOMAIN own : k = c + i

\* What is kept comes first, then the noise.
LEMMA AllFacts ==
    ASSUME NEW got, NEW incoming, NEW kept, NEW own, NEW all, GoesOn(got, incoming, kept, own, all)
    PROVE  Placed(got, kept, own, all, Cardinality(kept))
<1> DEFINE c == Cardinality(kept)
           first == Appended(incoming, kept)
<1>0. /\ got \in Seq(Onion) /\ incoming \in Seq(Onion \cup {Nil}) /\ Len(incoming) = Len(got)
      /\ kept \in SUBSET (DOMAIN got) /\ \A i \in kept : incoming[i] = got[i]
      /\ own \in Seq(Onion) /\ all = Appended(incoming, kept) \o own
  BY DEF GoesOn
<1>1. kept \in SUBSET (DOMAIN incoming)
  BY <1>0
<1>2. /\ c \in Nat /\ first \in [1 .. c -> Onion \cup {Nil}]
      /\ \A i \in kept : Rank(kept, i) \in 1 .. c /\ first[Rank(kept, i)] = got[i]
      /\ \A k \in 1 .. c : \E i \in kept : Rank(kept, i) = k /\ first[k] = got[i]
  <2>1. /\ c \in Nat /\ first \in [1 .. c -> Onion \cup {Nil}]
        /\ \A i \in kept : Rank(kept, i) \in 1 .. c /\ first[Rank(kept, i)] = incoming[i]
        /\ \A k \in 1 .. c : \E i \in kept : Rank(kept, i) = k /\ first[k] = incoming[i]
    BY <1>0, <1>1, AppendedFacts
  <2> HIDE DEF c, first
  <2>2. QED BY <1>0, <2>1
<1>3. \A i \in kept : got[i] \in Onion
  BY <1>0
<1> HIDE DEF c, first
<1>4. \A k \in 1 .. c : first[k] \in Onion
  BY <1>2, <1>3
<1>5. first \in [1 .. c -> Onion]
  BY <1>2, <1>4
<1>6. first \in Seq(Onion) /\ Len(first) = c
  BY <1>2, <1>5
<1>7. IsConcat(Onion, first, own, all)
  BY <1>0, <1>6 DEF first, IsConcat
<1>8. /\ all \in Seq(Onion) /\ Len(all) = c + Len(own)
      /\ \A i \in 1 .. c : all[i] = first[i]
      /\ \A i \in 1 .. Len(own) : all[c + i] = own[i]
      /\ \A k \in 1 .. Len(all) : k \in 1 .. c \/ \E i \in 1 .. Len(own) : k = c + i
  <2>1. all \in Seq(Onion) /\ Len(all) = Len(first) + Len(own)
    BY <1>7, ConcatFacts
  <2>2. \A i \in 1 .. Len(first) : all[i] = first[i]
    BY <1>7, ConcatFacts
  <2>3. \A i \in 1 .. Len(own) : all[Len(first) + i] = own[i]
    BY <1>7, ConcatFacts
  <2>4. \A k \in 1 .. Len(all) :
           k \in 1 .. Len(first) \/ \E i \in 1 .. Len(own) : k = Len(first) + i
    BY <1>7, ConcatFacts
  <2>5. QED BY <1>6, <2>1, <2>2, <2>3, <2>4
<1>9. DOMAIN own = 1 .. Len(own) /\ DOMAIN all = 1 .. Len(all) /\ Len(own) \in Nat
  BY <1>0, <1>8
<1>10. Len(all) - Len(own) = c
  BY <1>2, <1>8, <1>9
<1>11. QED BY <1>2, <1>8, <1>9, <1>10 DEF c, Placed

\* The noise of s is told from what s gets by where it is from.
IsOwn(s, got, own) ==
    /\ own \in Seq(Onion) /\ IsInjective(own)
    /\ \A o \in ToSet(own) : o.from = s
    /\ \A o \in ToSet(got) : o.from # s

\* Of what it gets, all that opens and is not a dummy goes on, once, with the noise behind it.
Sends(s, got, own, all, index) ==
    /\ all \in Seq(Onion)
    /\ index \in Seq(Nat) /\ Len(index) = Len(got)
    /\ ToSet(all) \subseteq {o \in ToSet(got) : o.breaks # s} \cup ToSet(own)
    /\ ToSet(own) \subseteq ToSet(all)
    /\ \A o \in ToSet(got) : o.breaks # s /\ o.msg.mailbox # 0 => o \in ToSet(all)
    /\ IsInjective(all)
    /\ \A i \in DOMAIN index :
          /\ Survives(got, i) => index[i] # 0
          /\ index[i] # 0 => /\ index[i] \in 1 .. Len(all) - Len(own)
                             /\ index[i] \in DOMAIN all
                             /\ all[index[i]] = got[i]
    /\ \A i, j \in DOMAIN index : index[i] # 0 /\ index[j] # 0 /\ got[i] = got[j] => i = j

\* What a server sends when it has mixed, before the shuffle.
LEMMA MixSends ==
    ASSUME NEW s, NEW onions, NEW got, NEW incoming, Opens(s, onions, got, incoming),
           NEW own, IsOwn(s, got, own),
           NEW kept, kept = Kept(s, incoming),
           NEW all, all = Appended(incoming, kept) \o own,
           NEW index, index = IncomingIndex(incoming, kept)
    PROVE  Sends(s, got, own, all, index)
<1> DEFINE c == Cardinality(kept)
<1>0. /\ got \in Seq(Onion) /\ incoming \in Seq(Onion \cup {Nil}) /\ Len(incoming) = Len(got)
      /\ own \in Seq(Onion) /\ IsInjective(own)
      /\ \A o \in ToSet(own) : o.from = s
      /\ \A o \in ToSet(got) : o.from # s
  BY DEF Opens, IsOwn
<1>1. DOMAIN got = 1 .. Len(got) /\ DOMAIN incoming = DOMAIN got /\ Len(got) \in Nat
  BY <1>0
<1>2. /\ kept \subseteq DOMAIN got
      /\ \A i \in kept : incoming[i] = got[i] /\ got[i].breaks # s
      /\ \A i \in DOMAIN got :
            got[i].breaks # s /\ got[i].msg.mailbox # 0 => \E j \in kept : got[j] = got[i]
      /\ \A i \in DOMAIN got : Survives(got, i) => i \in kept
      /\ \A i, j \in kept : got[i] = got[j] => i = j
  <2> DEFINE K == Kept(s, incoming)
  <2>2. K \subseteq DOMAIN got /\ \A i \in K : incoming[i] = got[i] /\ got[i].breaks # s
    BY KeptFacts
  <2>3. \A i \in DOMAIN got :
           got[i].breaks # s /\ got[i].msg.mailbox # 0 => \E j \in K : got[j] = got[i]
    BY KeptFacts
  <2>4. \A i \in DOMAIN got : Survives(got, i) => i \in K
    BY KeptFacts
  <2>5. \A i, j \in K : got[i] = got[j] => i = j
    BY KeptFacts
  <2> HIDE DEF K
  <2>6. QED BY <2>2, <2>3, <2>4, <2>5 DEF K
<1>3. /\ all \in Seq(Onion) /\ Len(all) = c + Len(own)
      /\ \A i \in kept : Rank(kept, i) \in 1 .. Len(all) - Len(own) /\ all[Rank(kept, i)] = got[i]
      /\ \A i \in DOMAIN own : all[c + i] = own[i]
      /\ \A k \in DOMAIN all :
            (\E i \in kept : k = Rank(kept, i)) \/ \E i \in DOMAIN own : k = c + i
  <2>1. GoesOn(got, incoming, kept, own, all)
    BY <1>0, <1>2 DEF GoesOn
  <2>2. Placed(got, kept, own, all, c)
    BY <2>1, AllFacts
  <2> HIDE DEF c
  <2>3. QED BY <2>2 DEF Placed
<1>4. c \in Nat /\ Len(own) \in Nat /\ Len(all) \in Nat /\ DOMAIN all = 1 .. Len(all)
      /\ DOMAIN own = 1 .. Len(own)
  <2>1. kept \in SUBSET (DOMAIN incoming)
    BY <1>1, <1>2
  <2>2. c \in Nat
    BY <1>0, <2>1, AppendedFacts
  <2>3. QED BY <1>0, <1>3, <2>2
<1>5. \A i \in kept : Rank(kept, i) \in Nat /\ Rank(kept, i) # 0 /\ Rank(kept, i) \in DOMAIN all
  BY <1>3, <1>4
<1>6. \A i \in DOMAIN own : c + i \in DOMAIN all
  BY <1>3, <1>4
<1> HIDE DEF c
<1>7. index = [i \in DOMAIN got |-> IF i \in kept THEN Rank(kept, i) ELSE 0]
  BY <1>1 DEF IncomingIndex
<1>8. \A i \in DOMAIN got : index[i] = IF i \in kept THEN Rank(kept, i) ELSE 0
  BY <1>7
<1>9. index \in Seq(Nat) /\ Len(index) = Len(got) /\ DOMAIN index = DOMAIN got
  <2>1. index \in [1 .. Len(got) -> Nat]
    BY <1>1, <1>5, <1>7
  <2> DEFINE n == Len(got)
  <2>2. n \in Nat /\ index \in [1 .. n -> Nat]
    BY <1>1, <2>1
  <2> HIDE DEF n
  <2>3. index \in Seq(Nat) /\ Len(index) = n /\ DOMAIN index = 1 .. n
    BY <2>2
  <2>4. QED BY <1>1, <2>3 DEF n
<1>10. ToSet(all) \subseteq {o \in ToSet(got) : o.breaks # s} \cup ToSet(own)
  <2> SUFFICES ASSUME NEW k \in DOMAIN all
               PROVE  all[k] \in {o \in ToSet(got) : o.breaks # s} \cup ToSet(own)
    BY DEF ToSet
  <2>1. CASE \E i \in kept : k = Rank(kept, i)
    BY <1>2, <1>3, <2>1 DEF ToSet
  <2>2. CASE \E i \in DOMAIN own : k = c + i
    BY <1>3, <2>2 DEF ToSet
  <2>3. QED BY <1>3, <2>1, <2>2
<1>11. ToSet(own) \subseteq ToSet(all)
  <2> SUFFICES ASSUME NEW i \in DOMAIN own PROVE own[i] \in ToSet(all)
    BY DEF ToSet
  <2>1. own[i] = all[c + i] /\ c + i \in DOMAIN all
    BY <1>3, <1>6
  <2>2. QED BY <2>1 DEF ToSet
<1>12. \A o \in ToSet(got) : o.breaks # s /\ o.msg.mailbox # 0 => o \in ToSet(all)
  <2> SUFFICES ASSUME NEW i \in DOMAIN got, got[i].breaks # s, got[i].msg.mailbox # 0
               PROVE  got[i] \in ToSet(all)
    BY DEF ToSet
  <2>1. PICK j \in kept : got[j] = got[i]
    BY <1>2
  <2>2. QED BY <1>3, <1>5, <2>1 DEF ToSet
<1>13. IsInjective(all)
  <2> SUFFICES ASSUME NEW k \in DOMAIN all, NEW l \in DOMAIN all, all[k] = all[l]
               PROVE  k = l
    BY DEF IsInjective
  <2>1. ASSUME NEW i \in kept, NEW j \in kept, k = Rank(kept, i), l = Rank(kept, j)
        PROVE  k = l
    BY <1>2, <1>3, <2>1
  <2>2. ASSUME NEW i \in DOMAIN own, NEW j \in DOMAIN own, k = c + i, l = c + j
        PROVE  k = l
    <3>1. own[i] = own[j]
      BY <1>3, <2>2
    <3>2. i = j
      BY <1>0, <3>1 DEF IsInjective
    <3>3. QED BY <2>2, <3>2
  <2>3. ASSUME NEW i \in kept, NEW j \in DOMAIN own,
               \/ k = Rank(kept, i) /\ l = c + j
               \/ l = Rank(kept, i) /\ k = c + j
        PROVE  FALSE
    <3>1. got[i] = own[j]
      BY <1>3, <2>3
    <3>2. got[i].from # s /\ own[j].from = s
      BY <1>0, <1>2 DEF ToSet
    <3>3. QED BY <3>1, <3>2
  <2>4. QED BY <1>3, <2>1, <2>2, <2>3
<1>14. \A i \in DOMAIN index :
          /\ Survives(got, i) => index[i] # 0
          /\ index[i] # 0 => /\ index[i] \in 1 .. Len(all) - Len(own)
                             /\ index[i] \in DOMAIN all
                             /\ all[index[i]] = got[i]
  BY <1>2, <1>3, <1>5, <1>8, <1>9
<1>15. \A i, j \in DOMAIN index : index[i] # 0 /\ index[j] # 0 /\ got[i] = got[j] => i = j
  BY <1>2, <1>8, <1>9
<1>16. QED BY <1>3, <1>9, <1>10, <1>11, <1>12, <1>13, <1>14, <1>15 DEF Sends
-----------------------------------------------------------------------------
(***************************************************************************)
(* Every step keeps the types.                                             *)
(***************************************************************************)

\* Servers and their callers.
LEMMA Chain ==
    /\ N \in Nat /\ N >= 1
    /\ \A s \in Servers : s \in 0 .. N /\ s - 1 \in Callers /\ s - 1 \in 0 .. N /\ s - 1 + 1 = s
    /\ \A c \in Callers : c \in 0 .. N /\ c + 1 \in Servers /\ c + 1 \in 0 .. N /\ (c + 1) - 1 = c
                          /\ (c # 0 => c \in Servers)
    /\ \A s \in Servers : s < N => s \in Callers
    /\ N \in Servers /\ 0 \in Callers
BY MixnetAssumption, SMT DEF Servers, Callers

\* The steps of NewRound, and the noise.
LEMMA SetupTypes ==
    ASSUME Types, Setup
    PROVE  Types'
<1>1. ASSUME NEW s \in Servers, NewRound(s) PROVE Types'
  BY <1>1 DEF Types, NewRound, endVars
<1>2. ASSUME NEW s \in Servers, SetRoundSettings(s) PROVE Types'
  <2>1. st' \in [Servers -> StateType]
    <3>1. [st[s] EXCEPT !.noiseDone = "open"] \in StateType
      BY DEF Types, StateType
    <3>2. QED BY <1>2, <3>1 DEF Types, SetRoundSettings
  <2>2. QED BY <1>2, <2>1 DEF Types, SetRoundSettings, endVars
<1>3. ASSUME NEW s \in Servers, NEW counts \in NoiseCounts, GenerateNoise(s, counts)
      PROVE  Types'
  <2>1. SetToSeq(NoiseOnions(s, counts)) \in Seq(Onion)
    <3>1. /\ IsFiniteSet(NoiseOnions(s, counts))
          /\ \A o \in NoiseOnions(s, counts) : IsNoiseOf(s, o)
      BY NoiseOnionsFacts
    <3>2. NoiseOnions(s, counts) \subseteq Onion
      <4> SUFFICES ASSUME NEW o \in NoiseOnions(s, counts) PROVE o \in Onion
        OBVIOUS
      <4>1. PICK b \in 0 .. NumMailboxes, i \in Nat : o = NoiseOnion(s, b, i)
        BY <3>1 DEF IsNoiseOf
      <4>2. QED BY <4>1, NoiseOnionFacts
    <3>3. SetToSeq(NoiseOnions(s, counts)) \in Seq(NoiseOnions(s, counts))
      BY <3>1, SetToSeqFacts
    <3> DEFINE T == NoiseOnions(s, counts)
    <3> HIDE DEF T
    <3>4. T \subseteq Onion /\ SetToSeq(T) \in Seq(T)
      BY <3>2, <3>3 DEF T
    <3>5. SetToSeq(T) \in Seq(Onion)
      BY <3>4
    <3>6. QED BY <3>5 DEF T
  <2>2. QED BY <1>3, <2>1 DEF Types, StateType, GenerateNoise, setupVars, endVars
<1>4. SetupAnswered => Types'
  BY DEF Types, SetupAnswered, endVars
<1>5. QED BY <1>1, <1>2, <1>3, <1>4 DEF Setup

\* The steps of a caller but GetOnions; a job is a position of what comes in.
LEMMA CallerTypes ==
    ASSUME Types, NEW c \in Callers,
           \/ \E i \in DOMAIN stream[c] : AddOnions(c, i) \/ ReceiveOnion(c, i)
           \/ OnionsAdded(c) \/ RoundClosed(c) \/ CallFails(c)
    PROVE  Types'
<1>1. ASSUME NEW i \in DOMAIN stream[c], AddOnions(c, i) PROVE Types'
  <2>1. outgoing[c] \in Seq(Onion) /\ c + 1 \in Servers
    BY Chain DEF Types
  <2>2. [j \in DOMAIN outgoing[c] |-> Nil] \in Seq(Onion \cup {Nil}) /\ Len(outgoing[c]) \in Nat
    BY <2>1
  <2> DEFINE room == [j \in DOMAIN outgoing[c] |-> Nil]
             size == Len(outgoing[c])
             new == [st[c + 1] EXCEPT !.numIncoming = size, !.acceptingOnions = TRUE,
                                      !.incoming = room]
  <2>3. st' \in [Servers -> StateType]
    <3>1. st' = st \/ st' = [st EXCEPT ![c + 1] = new]
      BY <1>1 DEF AddOnions
    <3>2. st[c + 1] \in StateType /\ room \in Seq(Onion \cup {Nil}) /\ size \in Nat
      BY <2>1, <2>2 DEF Types
    <3> HIDE DEF room, size
    <3>3. new \in StateType
      BY <3>2 DEF StateType
    <3> HIDE DEF new
    <3>4. QED BY <2>1, <3>1, <3>3 DEF Types
  <2>4. stream[c] \in Seq({"new", "open", "done", "error"})
    BY DEF Types
  <2>5. stream' \in [Callers -> Seq({"new", "open", "done", "error"})]
    <3>1. ASSUME NEW x \in {"new", "open", "done", "error"}
          PROVE  [stream[c] EXCEPT ![i] = x] \in Seq({"new", "open", "done", "error"})
      BY <2>4, ExceptSeq
    <3>2. \/ stream' = [stream EXCEPT ![c] = [stream[c] EXCEPT ![i] = "open"]]
          \/ stream' = [stream EXCEPT ![c] = [stream[c] EXCEPT ![i] = "error"]]
      BY <1>1 DEF AddOnions
    <3>3. /\ [stream[c] EXCEPT ![i] = "open"] \in Seq({"new", "open", "done", "error"})
          /\ [stream[c] EXCEPT ![i] = "error"] \in Seq({"new", "open", "done", "error"})
      BY <3>1
    <3> DEFINE T == Seq({"new", "open", "done", "error"})
               one == [stream[c] EXCEPT ![i] = "open"]
               other == [stream[c] EXCEPT ![i] = "error"]
    <3>4. stream \in [Callers -> T]
      BY DEF Types
    <3> HIDE DEF T, one, other
    <3>5. stream' = [stream EXCEPT ![c] = one] \/ stream' = [stream EXCEPT ![c] = other]
      BY <3>2 DEF one, other
    <3>6. one \in T /\ other \in T
      BY <3>3 DEF one, other, T
    <3>7. stream' \in [Callers -> T]
      BY <3>4, <3>5, <3>6
    <3>8. QED BY <3>7 DEF T
  <2>6. QED BY <1>1, <2>3, <2>5 DEF Types, AddOnions, setupVars, endVars
<1>2. ASSUME NEW i \in DOMAIN stream[c], ReceiveOnion(c, i) PROVE Types'
  <2>0. stream[c] \in Seq({"new", "open", "done", "error"})
    BY DEF Types
  <2>1. i \in Nat /\ c + 1 \in Servers
    <3>1. DOMAIN stream[c] = 1 .. Len(stream[c]) /\ Len(stream[c]) \in Nat
      BY <2>0
    <3>2. QED BY <3>1, Chain
  <2>2. st' \in [Servers -> StateType]
    <3> DEFINE jobs == IF st[c + 1].acceptingOnions THEN st[c + 1].jobs \cup {i} ELSE st[c + 1].jobs
    <3>1. st[c + 1] \in StateType /\ jobs \in SUBSET Nat
      BY <2>1 DEF Types, StateType
    <3>2. st' = [st EXCEPT ![c + 1] = [st[c + 1] EXCEPT !.jobs = jobs]]
      BY <1>2 DEF ReceiveOnion
    <3> HIDE DEF jobs
    <3>3. [st[c + 1] EXCEPT !.jobs = jobs] \in StateType
      BY <3>1 DEF StateType
    <3>4. QED BY <2>1, <3>2, <3>3 DEF Types
  <2>3. stream' \in [Callers -> Seq({"new", "open", "done", "error"})]
    <3>1. [stream[c] EXCEPT ![i] = "done"] \in Seq({"new", "open", "done", "error"})
      BY <2>0, ExceptSeq
    <3>2. QED BY <1>2, <3>1 DEF Types, ReceiveOnion
  <2>4. QED BY <1>2, <2>2, <2>3 DEF Types, ReceiveOnion, setupVars, endVars
<1>3. ASSUME OnionsAdded(c) PROVE Types'
  BY <1>3, Chain DEF Types, Stages, OnionsAdded, EndCall, setupVars, endVars
<1>4. ASSUME RoundClosed(c) PROVE Types'
  BY <1>4, Chain DEF Types, Stages, RoundClosed, EndCall, setupVars, endVars
<1>5. ASSUME CallFails(c) PROVE Types'
  BY <1>5, Chain DEF Types, Stages, CallFails, EndCall, setupVars, endVars
<1>6. QED BY <1>1, <1>2, <1>3, <1>4, <1>5

\* The steps of a server but Mix.
LEMMA ServerTypes ==
    ASSUME Types, NEW s \in Servers, Added(s - 1),
           \/ \E i \in st[s].jobs : decryptionWorker(s, i)
           \/ CloseRound(s) \/ encryptReplies(s) \/ DeleteRound(s) \/ DeleteFails(s)
           \/ SetupFails(s) \/ Restart(s)
    PROVE  Types'
<1>1. ASSUME NEW i \in st[s].jobs, decryptionWorker(s, i) PROVE Types'
  <2>1. /\ st[s] \in StateType /\ s - 1 \in 0 .. N
        /\ i \in DOMAIN st[s].incoming /\ i \in DOMAIN outgoing[s - 1]
    BY <1>1, Chain DEF Types, Added
  <2>2. outgoing[s - 1][i] \in Onion /\ st[s].incoming \in Seq(Onion \cup {Nil})
    BY <2>1 DEF Types, StateType
  <2> DEFINE new == IF outgoing[s - 1][i].breaks = s THEN Nil ELSE outgoing[s - 1][i]
  <2>3. [st[s].incoming EXCEPT ![i] = new] \in Seq(Onion \cup {Nil})
    <3>1. new \in Onion \cup {Nil}
      BY <2>2
    <3> HIDE DEF new
    <3>2. QED BY <2>1, <2>2, <3>1
  <2>4. st' = [st EXCEPT ![s].incoming = [@ EXCEPT ![i] = new], ![s].jobs = @ \ {i}]
    BY <1>1 DEF decryptionWorker
  <2> HIDE DEF new
  <2>5. st' \in [Servers -> StateType]
    BY <2>1, <2>3, <2>4 DEF Types, StateType
  <2>6. QED BY <1>1, <2>5 DEF Types, decryptionWorker, setupVars, endVars
<1>2. ASSUME CloseRound(s) PROVE Types'
  <2>1. st' \in [Servers -> StateType]
    BY <1>2 DEF Types, StateType, CloseRound
  <2>2. pc' \in [0 .. N -> Stages]
    BY <1>2, Chain DEF Types, Stages, CloseRound
  <2>3. QED BY <1>2, <2>1, <2>2 DEF Types, CloseRound, setupVars, endVars
<1>3. ASSUME encryptReplies(s) PROVE Types'
  BY <1>3, Chain DEF Types, StateType, encryptReplies, setupVars, endVars
<1>4. ASSUME DeleteRound(s) PROVE Types'
  BY <1>4, Chain DEF Types, DeleteRound, setupVars, endVars
<1>5. ASSUME DeleteFails(s) PROVE Types'
  BY <1>5, Chain DEF Types, DeleteFails, setupVars, endVars
<1>6. ASSUME SetupFails(s) PROVE Types'
  BY <1>6, Chain DEF Types, SetupFails, setupVars, endVars
<1>7. ASSUME Restart(s) PROVE Types'
  <2>1. NewState \in StateType
    <3>1. << >> \in Seq(Onion \cup {Nil}) /\ << >> \in Seq(Nat) /\ << >> \in Seq(Message \cup {Nil})
      OBVIOUS
    <3>2. QED BY <3>1 DEF NewState, StateType
  <2>2. st' \in [Servers -> StateType]
    BY <1>7, <2>1 DEF Types, Restart
  <2>3. pc' \in [0 .. N -> Stages]
    BY <1>7, Chain DEF Types, Stages, Restart
  <2>4. rounds' \subseteq Servers
    BY <1>7 DEF Types, Restart
  <2>5. QED BY <1>7, <2>2, <2>3, <2>4 DEF Types, Restart, setupVars
<1>8. QED BY <1>1, <1>2, <1>3, <1>4, <1>5, <1>6, <1>7

\* The steps at the end of RunRound, whose onions and replies come later.
LEMMA OtherTypes ==
    ASSUME Types, RunRound \/ HandleMessagesFails
    PROVE  Types'
<1>1. ASSUME RunRound PROVE Types'
  <2>1. batch \in Seq(Onion)
    BY BatchAssumption DEF Types
  <2>2. [i \in DOMAIN batch |-> "new"] \in Seq({"new", "open", "done", "error"})
    BY <2>1
  <2>3. QED BY <1>1, <2>1, <2>2, Chain DEF Types, Stages, RunRound, setupVars, endVars
<1>2. ASSUME HandleMessagesFails PROVE Types'
  BY <1>2, Chain DEF Types, Stages, HandleMessagesFails, setupVars, endVars
<1>3. QED BY <1>1, <1>2
-----------------------------------------------------------------------------
(***************************************************************************)
(* The order of the calls.                                                 *)
(***************************************************************************)

\* The calls of NewRound and the failures.
LEMMA CallsStep ==
    ASSUME CallTypes, Next
    PROVE  CallTypes'
<1>1. MaxFailures \in Nat
  BY MixnetAssumption
<1>2. Setup => CallTypes'
  BY <1>1 DEF CallTypes, Setup, NewRound, SetRoundSettings, GenerateNoise, SetupAnswered,
              setupVars, endVars
<1>3. ASSUME NEW c \in Callers, CallerStep(c) PROVE CallTypes'
  <2>1. c + 1 \in Servers
    BY Chain
  <2>2. ASSUME NEW i \in DOMAIN stream[c], AddOnions(c, i) \/ ReceiveOnion(c, i) PROVE CallTypes'
    BY <2>2 DEF CallTypes, AddOnions, ReceiveOnion, setupVars, endVars
  <2>3. OnionsAdded(c) => CallTypes'
    BY <2>1 DEF CallTypes, OnionsAdded, EndCall, setupVars, endVars
  <2>4. RoundClosed(c) => CallTypes'
    BY <2>1 DEF CallTypes, RoundClosed, EndCall, setupVars, endVars
  <2>5. GetOnions(c) => CallTypes'
    BY <2>1 DEF CallTypes, GetOnions, EndCall, setupVars, endVars
  <2>6. QED BY <1>3, <2>2, <2>3, <2>4, <2>5 DEF CallerStep
<1>4. ASSUME NEW s \in Servers, ServerStep(s) PROVE CallTypes'
  BY <1>1, <1>4 DEF CallTypes, ServerStep, decryptionWorker, CloseRound, Mix, encryptReplies,
                    DeleteRound, setupVars, endVars
<1>5. Failure => CallTypes'
  <2>0. failures < MaxFailures /\ failures' = failures + 1 /\ CallTypes
        => failures' \in 0 .. MaxFailures
    BY <1>1 DEF CallTypes
  <2>1. ASSUME NEW s \in Servers, SetupFails(s) \/ DeleteFails(s) PROVE CallTypes'
    <3>1. SetupFails(s) => CallTypes'
      BY <2>0 DEF CallTypes, SetupFails, Fail, endVars
    <3>2. DeleteFails(s) => CallTypes'
      BY <2>0 DEF CallTypes, DeleteFails, Fail, setupVars
    <3>3. QED BY <2>1, <3>1, <3>2
  <2>2. ASSUME NEW s \in Servers, Restart(s) PROVE CallTypes'
    BY <2>0, <2>2 DEF CallTypes, Restart, Fail, setupVars
  <2>3. ASSUME NEW c \in Callers, CallFails(c) PROVE CallTypes'
    <3>1. c + 1 \in Servers
      BY Chain
    <3>2. failures' \in 0 .. MaxFailures
      BY <2>0, <2>3 DEF CallTypes, CallFails, Fail
    <3>3. QED BY <2>3, <3>1, <3>2 DEF CallTypes, CallFails, EndCall, setupVars, endVars
  <2>4. HandleMessagesFails => CallTypes'
    BY <1>1 DEF CallTypes, HandleMessagesFails, Fail, setupVars, endVars
  <2>5. QED BY <2>1, <2>2, <2>3, <2>4 DEF Failure
<1>6. RunRound \/ HandleMessages => CallTypes'
  BY <1>1 DEF CallTypes, RunRound, HandleMessages, Fail, setupVars, endVars
<1>7. QED BY <1>2, <1>3, <1>4, <1>5, <1>6 DEF Next

orderVars == <<setup, pc, bidirectional, handled, rounds>>

\* A step that moves nobody keeps the order.
LEMMA OrderKept ==
    ASSUME InOrder, UNCHANGED orderVars
    PROVE  InOrder'
BY DEF InOrder, orderVars

\* Server or caller i goes on to v.
Goes(i, v) ==
    /\ pc' = [pc EXCEPT ![i] = v]
    /\ UNCHANGED <<setup, bidirectional, handled>>
    /\ rounds' \subseteq rounds
    /\ pc[i] # "idle" \/ (i > 0 /\ pc[i - 1] = "closing")
    /\ v # "idle"
    /\ v \in {"draining", "adding"} => pc[i] \in {"idle", "draining", "adding"}
    /\ i = 0 => v \notin {"draining", "handling", "lost"}
    /\ i = N => v \notin {"adding", "closing", "fetching"}
    /\ i < N => v # "handling"
    /\ v = "fetching" => bidirectional /\ pc[i + 1] = "ok"
    /\ v \in {"ok", "fetching"} => handled # Nil
    /\ i = N /\ handled # Nil => v \notin {"draining", "handling"}
    /\ pc[i] = "ok" => i \notin rounds'

\* A step that moves one server or caller within these bounds keeps the order.
LEMMA GoesInOrder ==
    ASSUME Types, InOrder, NEW i \in 0 .. N, NEW v \in Stages, Goes(i, v)
    PROVE  InOrder'
<1>1. N \in Nat /\ N >= 1 /\ i \in Nat /\ i <= N
  BY Chain
<1>2. pc \in [0 .. N -> Stages]
  BY DEF Types
<1>3. /\ \A t \in 0 .. N : t # i => pc'[t] = pc[t]
      /\ pc'[i] = v
  BY <1>2 DEF Goes
<1>4. \A t \in 0 .. N : t < i => pc[t] \notin {"idle", "draining", "adding"}
  BY <1>1 DEF Goes, InOrder
<1>5. v \in {"draining", "adding"} => \A s \in 0 .. N : i < s => pc[s] = "idle"
  BY <1>1 DEF Goes, InOrder
<1>6. setup = "done" /\ setup' = setup
  BY <1>1 DEF Goes, InOrder
<1>7. \A s, t \in 0 .. N : t < s /\ pc'[s] # "idle" => pc'[t] \notin {"idle", "draining", "adding"}
  <2> SUFFICES ASSUME NEW s \in 0 .. N, NEW t \in 0 .. N, t < s, pc'[s] # "idle"
               PROVE  pc'[t] \notin {"idle", "draining", "adding"}
    OBVIOUS
  <2>1. CASE s = i
    BY <1>3, <1>4, <2>1
  <2>2. CASE s # i /\ t = i
    BY <1>3, <1>5, <2>2 DEF Goes
  <2>3. CASE s # i /\ t # i
    BY <1>3, <2>3 DEF InOrder
  <2>4. QED BY <2>1, <2>2, <2>3
<1>8. /\ pc'[0] \notin {"draining", "handling", "lost"}
      /\ pc'[N] \notin {"adding", "closing", "fetching"}
      /\ handled # Nil => pc'[N] \notin {"idle", "draining", "handling"}
  <2>1. 0 \in 0 .. N /\ N \in 0 .. N
    BY Chain
  <2>2. QED BY <1>3, <2>1 DEF Goes, InOrder
<1>9. \A c \in Callers : pc'[c] # "handling"
  <2>1. \A c \in Callers : c \in 0 .. N /\ c < N
    BY <1>1 DEF Callers
  <2>2. QED BY <1>3, <2>1 DEF Goes, InOrder
<1>10. ASSUME NEW c \in Callers, pc'[c] = "fetching"
       PROVE  bidirectional /\ (c + 1 \in rounds' => pc'[c + 1] = "ok")
  <2>1. c \in 0 .. N /\ c + 1 \in 0 .. N /\ c + 1 # c
    BY Chain
  <2>2. CASE c = i
    BY <1>3, <1>10, <2>1, <2>2 DEF Goes
  <2>3. CASE c + 1 = i
    <3>1. pc[c] = "fetching"
      BY <1>3, <1>10, <2>1, <2>3
    <3>2. bidirectional /\ (c + 1 \in rounds => pc[i] = "ok")
      BY <2>3, <3>1 DEF InOrder
    <3>3. QED BY <2>3, <3>2 DEF Goes
  <2>4. CASE c # i /\ c + 1 # i
    BY <1>3, <1>10, <2>1, <2>4 DEF Goes, InOrder
  <2>5. QED BY <2>2, <2>3, <2>4
<1>11. \A c \in 0 .. N : pc'[c] \in {"ok", "fetching"} => handled # Nil
  BY <1>3 DEF Goes, InOrder
<1>12. handled' = handled /\ bidirectional' = bidirectional
  BY DEF Goes
<1>13. QED BY <1>6, <1>7, <1>8, <1>9, <1>10, <1>11, <1>12 DEF InOrder

\* NewRound, its failures and the start of the round.
LEMMA SetupOrder ==
    ASSUME Types, InOrder, Setup \/ RunRound \/ \E s \in Servers : SetupFails(s)
    PROVE  InOrder'
<1>1. ASSUME NEW s \in Servers, NewRound(s) PROVE InOrder'
  BY <1>1, Chain DEF InOrder, Types, NewRound, endVars
<1>2. ASSUME NEW s \in Servers, SetRoundSettings(s) \/ SetupFails(s) PROVE InOrder'
  BY <1>2, OrderKept DEF orderVars, SetRoundSettings, SetupFails, endVars
<1>3. ASSUME NEW s \in Servers, NEW counts \in NoiseCounts, GenerateNoise(s, counts)
      PROVE  InOrder'
  BY <1>3, OrderKept DEF orderVars, GenerateNoise, setupVars, endVars
<1>4. ASSUME SetupAnswered PROVE InOrder'
  BY <1>4, Chain DEF InOrder, Types, SetupAnswered, endVars
<1>5. ASSUME RunRound PROVE InOrder'
  <2>0. pc \in [0 .. N -> Stages] /\ N \in Nat /\ N >= 1
    BY Chain DEF Types
  <2>1. 0 \in 0 .. N /\ N # 0 /\ N \in 0 .. N
        /\ pc' = [pc EXCEPT ![0] = "adding"] /\ setup = "done" /\ pc[0] = "idle"
    BY <1>5, <2>0 DEF RunRound
  <2>2. \A s \in 0 .. N : s > 0 => pc[s] = "idle" /\ pc'[s] = "idle"
    <3>1. \A s \in 0 .. N : 0 < s => pc[s] = "idle"
      BY <2>1 DEF InOrder
    <3>2. QED BY <2>0, <2>1, <3>1
  <2>3. pc'[0] = "adding"
    BY <2>0, <2>1
  <2>4. UNCHANGED <<setup, bidirectional, handled, rounds>>
    BY <1>5 DEF RunRound, setupVars
  <2>5. handled = Nil
    BY <2>0, <2>1, <2>2 DEF InOrder
  <2>6. \A s \in 0 .. N : pc'[s] = IF s = 0 THEN "adding" ELSE "idle"
    BY <2>0, <2>2, <2>3
  <2>7. Callers \subseteq 0 .. N
    BY Chain
  <2>8. QED BY <2>0, <2>1, <2>4, <2>5, <2>6, <2>7 DEF InOrder
<1>6. QED BY <1>1, <1>2, <1>3, <1>4, <1>5 DEF Setup

\* The steps of a caller.
LEMMA CallerOrder ==
    ASSUME Types, InOrder, NEW c \in Callers, CallerStep(c) \/ CallFails(c)
    PROVE  InOrder'
<1>0. c \in 0 .. N /\ c + 1 \in 0 .. N /\ c < N /\ c # N
  BY Chain DEF Callers
<1>1. ASSUME NEW i \in DOMAIN stream[c], AddOnions(c, i) \/ ReceiveOnion(c, i) PROVE InOrder'
  BY <1>1, OrderKept DEF orderVars, AddOnions, ReceiveOnion, setupVars, endVars
<1>2. ASSUME OnionsAdded(c) PROVE InOrder'
  <2>1. /\ pc' = [pc EXCEPT ![c] = "failed"] \/ pc' = [pc EXCEPT ![c] = "closing"]
        /\ pc[c] = "adding" /\ UNCHANGED <<setup, bidirectional, handled, rounds>>
    BY <1>2 DEF OnionsAdded, EndCall, setupVars
  <2>2. Goes(c, "failed") \/ Goes(c, "closing")
    BY <1>0, <2>1 DEF Goes
  <2>3. QED BY <1>0, <2>2, GoesInOrder DEF Stages
<1>3. ASSUME RoundClosed(c) PROVE InOrder'
  <2>1. pc[c + 1] = "ok" => handled # Nil
    BY Chain DEF InOrder
  <2>2. /\ pc[c] = "closing" /\ UNCHANGED <<setup, bidirectional, handled, rounds>>
        /\ \/ pc[c + 1] = "ok" /\ bidirectional /\ pc' = [pc EXCEPT ![c] = "fetching"]
           \/ pc[c + 1] = "ok" /\ pc' = [pc EXCEPT ![c] = "ok"]
           \/ pc' = [pc EXCEPT ![c] = "failed"]
    BY <1>3 DEF RoundClosed, EndCall, setupVars
  <2>3. Goes(c, "failed") \/ Goes(c, "fetching") \/ Goes(c, "ok")
    BY <1>0, <2>1, <2>2 DEF Goes
  <2>4. QED BY <1>0, <2>3, GoesInOrder DEF Stages
<1>4. ASSUME GetOnions(c) PROVE InOrder'
  <2>1. pc[c] = "fetching" /\ handled # Nil
    BY <1>4, Chain DEF InOrder, GetOnions
  <2>2. PICK v \in {"failed", "ok"} : Goes(c, v)
    BY <1>4, <2>1, Chain DEF GetOnions, EndCall, Goes, setupVars
  <2>3. QED BY <2>2, GoesInOrder, Chain DEF Stages
<1>5. ASSUME CallFails(c) PROVE InOrder'
  <2>1. Goes(c, "failed")
    BY <1>5, Chain DEF CallFails, EndCall, Goes, setupVars
  <2>2. QED BY <2>1, GoesInOrder, Chain DEF Stages
<1>6. QED BY <1>1, <1>2, <1>3, <1>4, <1>5 DEF CallerStep

\* The steps of a server, and its restart.
LEMMA ServerOrder ==
    ASSUME Types, InOrder, NEW s \in Servers, ServerStep(s) \/ DeleteFails(s) \/ Restart(s)
    PROVE  InOrder'
<1>1. ASSUME NEW i \in st[s].jobs, decryptionWorker(s, i) PROVE InOrder'
  BY <1>1, OrderKept DEF orderVars, decryptionWorker, setupVars, endVars
<1>2. ASSUME encryptReplies(s) \/ DeleteFails(s) PROVE InOrder'
  BY <1>2, OrderKept DEF orderVars, encryptReplies, DeleteFails, setupVars, endVars
<1>3. ASSUME CloseRound(s) PROVE InOrder'
  <2>1. N = s => handled = Nil
    BY <1>3, Chain DEF InOrder, CloseRound
  <2>2. s \in 0 .. N /\ s > 0 /\ s # 0
    BY Chain DEF Servers
  <2>3. /\ pc' = [pc EXCEPT ![s] = "draining"] /\ pc[s] = "idle" /\ pc[s - 1] = "closing"
        /\ UNCHANGED <<setup, bidirectional, handled, rounds>>
    BY <1>3 DEF CloseRound, setupVars
  <2>4. Goes(s, "draining")
    BY <2>1, <2>2, <2>3 DEF Goes
  <2>5. QED BY <2>2, <2>4, GoesInOrder DEF Stages
<1>4. ASSUME Mix(s) PROVE InOrder'
  <2>1. /\ pc[s] = "draining" /\ UNCHANGED <<setup, bidirectional, handled, rounds>>
        /\ \/ s < N /\ pc' = [pc EXCEPT ![s] = "adding"]
           \/ ~(s < N) /\ pc' = [pc EXCEPT ![s] = "handling"]
    BY <1>4 DEF Mix, setupVars
  <2>2. N = s => handled = Nil
    BY <2>1, Chain DEF InOrder
  <2>3. s \in 0 .. N /\ s # 0 /\ N \in Nat
    BY Chain DEF Servers
  <2>4. Goes(s, "adding") \/ Goes(s, "handling")
    BY <2>1, <2>2, <2>3 DEF Goes
  <2>5. QED BY <2>3, <2>4, GoesInOrder DEF Stages
<1>5. ASSUME DeleteRound(s) PROVE InOrder'
  BY <1>5, Chain DEF InOrder, Types, Stages, DeleteRound, setupVars, endVars
<1>6. ASSUME Restart(s) PROVE InOrder'
  <2>0. s \in 0 .. N /\ s - 1 \in 0 .. N /\ s # 0 /\ s - 1 < s /\ s - 1 # N /\ N \in Nat
        /\ pc \in [0 .. N -> Stages]
    <3>1. s \in 1 .. N /\ N \in Nat
      BY Chain DEF Servers
    <3>2. s \in 0 .. N /\ s - 1 \in 0 .. N /\ s # 0 /\ s - 1 < s /\ s - 1 # N
      BY <3>1
    <3>3. QED BY <3>1, <3>2 DEF Types
  <2>1. /\ UNCHANGED <<setup, bidirectional, handled>> /\ rounds' = rounds \ {s}
        /\ pc' = [pc EXCEPT ![s] = IF @ = "idle" THEN @ ELSE "lost",
                            ![s - 1] = IF @ = "adding" THEN "failed" ELSE @]
    BY <1>6 DEF Restart, setupVars
  <2>2. pc[s - 1] = "adding" => pc[s] = "idle"
    BY <2>0 DEF InOrder
  <2>3. CASE pc[s - 1] = "adding"
    <3>1. pc' = [pc EXCEPT ![s - 1] = "failed"]
      BY <2>0, <2>1, <2>2, <2>3
    <3>2. Goes(s - 1, "failed")
      BY <2>0, <2>1, <2>3, <3>1 DEF Goes
    <3>3. QED BY <2>0, <3>2, GoesInOrder DEF Stages
  <2>4. CASE pc[s - 1] # "adding" /\ pc[s] # "idle"
    <3>1. pc' = [pc EXCEPT ![s] = "lost"]
      <4>1. /\ pc' \in [0 .. N -> Stages]
            /\ \A t \in 0 .. N : pc'[t] = IF t = s THEN "lost" ELSE pc[t]
        <5>1. "lost" \in Stages /\ "failed" \in Stages
          BY DEF Stages
        <5> HIDE DEF Stages
        <5>2. QED BY <2>0, <2>1, <2>4, <5>1
      <4>2. QED BY <2>0, <4>1
    <3>2. Goes(s, "lost")
      BY <2>0, <2>1, <2>4, <3>1 DEF Goes
    <3>3. QED BY <2>0, <3>2, GoesInOrder DEF Stages
  <2>5. CASE pc[s - 1] # "adding" /\ pc[s] = "idle"
    <3>1. pc' = pc
      BY <2>0, <2>1, <2>5
    <3>2. QED BY <2>0, <2>1, <3>1, Chain DEF InOrder
  <2>6. QED BY <2>3, <2>4, <2>5
<1>7. QED BY <1>1, <1>2, <1>3, <1>4, <1>5, <1>6 DEF ServerStep

\* The last server handles the messages.
LEMMA HandlingOrder ==
    ASSUME Types, InOrder, HandleMessages \/ HandleMessagesFails, HandleMessages => handled' # Nil
    PROVE  InOrder'
<1>0. /\ N \in Nat /\ N >= 1 /\ N \in 0 .. N /\ N # 0 /\ pc \in [0 .. N -> Stages]
      /\ Callers \subseteq 0 .. N /\ \A c \in Callers : c # N
  BY Chain DEF Types, Callers
<1>1. ASSUME HandleMessages PROVE InOrder'
  <2>1. PICK v \in {"ok", "failed"} :
           /\ pc[N] = "handling" /\ pc' = [pc EXCEPT ![N] = v] /\ handled' # Nil
           /\ UNCHANGED <<setup, bidirectional, rounds>>
    BY <1>1 DEF HandleMessages, setupVars
  <2>2. \A c \in 0 .. N : pc'[c] = IF c = N THEN v ELSE pc[c]
    BY <1>0, <2>1
  <2>3. \A c \in 0 .. N : pc[c] # "fetching" /\ (c # N => pc[c] \notin {"idle", "draining", "adding"})
    <3>1. handled = Nil
      BY <1>0, <2>1 DEF InOrder
    <3>2. \A c \in 0 .. N : c # N => c < N
      BY <1>0
    <3>3. QED BY <1>0, <2>1, <3>1, <3>2 DEF InOrder
  <2>4. setup = "done"
    BY <1>0, <2>1 DEF InOrder
  <2>5. \A s, t \in 0 .. N : t < s => t # N
    BY <1>0
  <2>6. QED BY <1>0, <2>1, <2>2, <2>3, <2>4, <2>5 DEF InOrder
<1>2. ASSUME HandleMessagesFails PROVE InOrder'
  <2>1. Goes(N, "failed")
    BY <1>0, <1>2 DEF HandleMessagesFails, Goes, setupVars
  <2>2. QED BY <1>0, <2>1, GoesInOrder DEF Stages
<1>3. QED BY <1>1, <1>2
-----------------------------------------------------------------------------
(***************************************************************************)
(* Most steps move no onions.                                              *)
(***************************************************************************)

\* No onions, replies or noise are made, and nobody becomes one who has mixed.
Calm ==
    /\ UNCHANGED <<bidirectional, batch, noise, outgoing, shuffler, handled>>
    /\ \A s \in 0 .. N :
          /\ pc'[s] \in Mixing => pc[s] \in Mixing
          /\ pc'[s] # "idle" => pc[s] # "idle" \/ (s > 0 /\ pc[s - 1] \in Mixing)
    /\ \A s \in Servers :
          /\ pc'[s] \in Mixing \ {"failed"} =>
                /\ pc[s] \in Mixing \ {"failed"}
                /\ st'[s].index = st[s].index /\ st'[s].replies = st[s].replies
          /\ bidirectional /\ pc'[s] = "ok" => pc[s] = "ok"

\* The steps that are not.
Moves ==
    \/ \E s \in Servers, counts \in NoiseCounts : GenerateNoise(s, counts)
    \/ RunRound
    \/ \E s \in Servers : Mix(s)
    \/ \E c \in Callers : GetOnions(c)
    \/ HandleMessages

\* All other steps are calm.
LEMMA CalmSteps ==
    ASSUME Types, InOrder, Next, ~Moves
    PROVE  Calm /\ replies' = replies
<1>0. /\ N \in Nat /\ N >= 1 /\ N \in Servers /\ Servers \subseteq 0 .. N /\ Callers \subseteq 0 .. N
      /\ \A s \in Servers : s > 0 /\ s # 0 /\ s - 1 \in 0 .. N /\ s - 1 \in Callers /\ s - 1 # s
      /\ \A c \in Callers : c + 1 \in Servers /\ c # N
      /\ pc \in [0 .. N -> Stages] /\ st \in [Servers -> StateType]
  BY Chain DEF Types, Servers, Callers
<1>1. ASSUME NEW s \in Servers, NewRound(s)
      PROVE  Calm /\ replies' = replies
  BY <1>1 DEF Calm, NewRound, endVars
<1>2. ASSUME NEW s \in Servers, SetRoundSettings(s)
      PROVE  Calm /\ replies' = replies
  <2>1. \A t \in Servers : st'[t].index = st[t].index /\ st'[t].replies = st[t].replies
    <3> DEFINE new == [st[s] EXCEPT !.noiseDone = "open"]
    <3>1. st' = st \/ st' = [st EXCEPT ![s] = new]
      BY <1>2 DEF SetRoundSettings
    <3>2. new.index = st[s].index /\ new.replies = st[s].replies
      BY <1>0 DEF StateType
    <3> HIDE DEF new
    <3>3. QED BY <1>0, <3>1, <3>2
  <2>2. QED BY <1>2, <2>1 DEF Calm, SetRoundSettings, endVars
<1>3. ASSUME SetupAnswered
      PROVE  Calm /\ replies' = replies
  BY <1>3 DEF Calm, SetupAnswered, endVars
<1>4. ASSUME NEW c \in Callers, NEW i \in DOMAIN stream[c], AddOnions(c, i)
      PROVE  Calm /\ replies' = replies
  <2>1. \A t \in Servers : st'[t].index = st[t].index /\ st'[t].replies = st[t].replies
    <3> DEFINE new == [st[c + 1] EXCEPT !.numIncoming = Len(outgoing[c]), !.acceptingOnions = TRUE,
                                        !.incoming = [j \in DOMAIN outgoing[c] |-> Nil]]
    <3>1. st' = st \/ st' = [st EXCEPT ![c + 1] = new]
      BY <1>4 DEF AddOnions
    <3>2. new.index = st[c + 1].index /\ new.replies = st[c + 1].replies
      BY <1>0 DEF StateType
    <3> HIDE DEF new
    <3>3. QED BY <1>0, <3>1, <3>2
  <2>2. QED BY <1>4, <2>1 DEF Calm, AddOnions, setupVars, endVars
<1>5. ASSUME NEW c \in Callers, NEW i \in DOMAIN stream[c], ReceiveOnion(c, i)
      PROVE  Calm /\ replies' = replies
  BY <1>0, <1>5 DEF Calm, StateType, ReceiveOnion, setupVars, endVars
<1>6. ASSUME NEW c \in Callers, OnionsAdded(c)
      PROVE  Calm /\ replies' = replies
  BY <1>0, <1>6 DEF Calm, Mixing, OnionsAdded, EndCall, setupVars, endVars
<1>7. ASSUME NEW c \in Callers, RoundClosed(c)
      PROVE  Calm /\ replies' = replies
  BY <1>0, <1>7 DEF Calm, Mixing, RoundClosed, EndCall, setupVars, endVars
<1>8. ASSUME NEW c \in Callers, CallFails(c)
      PROVE  Calm /\ replies' = replies
  BY <1>0, <1>8 DEF Calm, Mixing, CallFails, EndCall, setupVars, endVars
<1>9. ASSUME NEW s \in Servers, NEW i \in st[s].jobs, decryptionWorker(s, i)
      PROVE  Calm /\ replies' = replies
  BY <1>0, <1>9 DEF Calm, StateType, decryptionWorker, setupVars, endVars
<1>10. ASSUME NEW s \in Servers, CloseRound(s)
      PROVE  Calm /\ replies' = replies
  BY <1>0, <1>10 DEF Calm, Mixing, StateType, CloseRound, setupVars, endVars
<1>11. ASSUME NEW s \in Servers, encryptReplies(s)
      PROVE  Calm /\ replies' = replies
  BY <1>0, <1>11 DEF Calm, StateType, encryptReplies, setupVars, endVars
<1>12. ASSUME NEW s \in Servers, DeleteRound(s) \/ DeleteFails(s) \/ SetupFails(s)
      PROVE  Calm /\ replies' = replies
  BY <1>12 DEF Calm, DeleteRound, DeleteFails, SetupFails, setupVars, endVars
<1>13. ASSUME NEW s \in Servers, Restart(s)
      PROVE  Calm /\ replies' = replies
  BY <1>0, <1>13 DEF Calm, Mixing, StateType, Restart, setupVars
<1>14. ASSUME HandleMessagesFails
      PROVE  Calm /\ replies' = replies
  BY <1>0, <1>14 DEF Calm, Mixing, HandleMessagesFails, setupVars, endVars
<1>15. QED
  BY <1>1, <1>2, <1>3, <1>4, <1>5, <1>6, <1>7, <1>8, <1>9, <1>10, <1>11, <1>12, <1>13, <1>14
     DEF Next, Moves, Setup, CallerStep, ServerStep, Failure

\* What holds of the onions that one server or another sent does not change.
LEMMA CarriedKept ==
    ASSUME NEW s \in 0 .. N, Carried(s), batch' = batch, outgoing'[s] = outgoing[s],
           \A t \in 1 .. s : noise'[t] = noise[t]
    PROVE  Carried(s)'
<1>1. Left(s)' = Left(s)
  BY DEF Left
<1>2. QED BY <1>1 DEF Carried

\* What a server needs to find its way back does not change either.
LEMMA RoutedKept ==
    ASSUME NEW s \in Servers, Routed(s), st'[s].index = st[s].index,
           outgoing'[s - 1] = outgoing[s - 1], outgoing'[s] = outgoing[s],
           noise'[s] = noise[s], shuffler'[s] = shuffler[s]
    PROVE  Routed(s)'
BY DEF Routed

\* A calm step keeps what is said of servers that have mixed.
LEMMA CalmMixed ==
    ASSUME Types, Mixed, Calm
    PROVE  Mixed' /\ (Done /\ replies' = replies => Done')
<1>0. \A s \in Servers : s \in 0 .. N /\ s - 1 \in 0 .. N
  BY Chain
<1>1. pc'[0] # "idle" => outgoing'[0] = batch'
  <2>1. 0 \in 0 .. N /\ ~(0 > 0)
    BY Chain
  <2>2. QED BY <2>1 DEF Calm, Mixed
<1>2. ASSUME NEW s \in 0 .. N, HasMixed(s)' PROVE Carried(s)'
  <2>1. HasMixed(s)
    <3>1. CASE pc'[s] \in Mixing
      BY <3>1 DEF Calm, HasMixed
    <3>2. CASE s < N /\ pc'[s + 1] # "idle"
      <4>1. s + 1 \in 0 .. N /\ (s + 1) - 1 = s
        BY <3>2, Chain
      <4>2. pc[s + 1] # "idle" \/ pc[s] \in Mixing
        BY <3>2, <4>1 DEF Calm
      <4>3. QED BY <3>2, <4>2 DEF HasMixed
    <3>3. QED BY <1>2, <3>1, <3>2 DEF HasMixed
  <2>2. QED BY <2>1, CarriedKept DEF Calm, Mixed
<1>3. ASSUME NEW s \in Servers, pc'[s] \in Mixing \ {"failed"} PROVE Routed(s)'
  BY <1>3, RoutedKept DEF Calm, Mixed
<1>4. ASSUME NEW s \in Servers, pc'[s] = "ok" /\ bidirectional'
      PROVE  Answers(outgoing'[s - 1], st'[s].replies)
  <2>1. "ok" \in Mixing \ {"failed"}
    BY DEF Mixing
  <2>2. QED BY <1>4, <2>1 DEF Calm, Mixed
<1>5. Mixed'
  BY <1>1, <1>2, <1>3, <1>4 DEF Mixed
<1>6. Done /\ replies' = replies => Done'
  BY DEF Calm, Done, Messages
<1>7. QED BY <1>5, <1>6
-----------------------------------------------------------------------------
(***************************************************************************)
(* Noise is made before a server mixes, and once.                          *)
(***************************************************************************)

\* Steps that leave the noise alone.
LEMMA NoiseKept ==
    ASSUME NoiseFits, noise' = noise,
           \A s \in Servers : /\ st'[s].noiseDone = st[s].noiseDone
                              /\ pc'[s] \in Mixing => pc[s] \in Mixing
                              /\ pc'[s] = "lost" => pc[s] = "lost"
    PROVE  NoiseFits'
BY DEF NoiseFits

\* No server goes on before its noise is made.
LEMMA NoiseStep ==
    ASSUME Types, InOrder, NoiseFits, Next
    PROVE  NoiseFits'
<1>0. /\ N \in Nat /\ N >= 1 /\ N \in Servers /\ Servers \subseteq 0 .. N /\ Callers \subseteq 0 .. N
      /\ \A s \in Servers : s > 0 /\ s # 0 /\ s - 1 \in 0 .. N /\ s - 1 \in Callers /\ s - 1 # s
      /\ \A c \in Callers : c + 1 \in Servers /\ c # N
      /\ pc \in [0 .. N -> Stages] /\ st \in [Servers -> StateType]
      /\ 0 \in 0 .. N
  BY Chain DEF Types, Servers, Callers
<1>1. ASSUME NEW s \in Servers, NewRound(s) PROVE NoiseFits'
  BY <1>1, NoiseKept DEF NewRound, endVars
<1>2. ASSUME NEW s \in Servers, SetRoundSettings(s) PROVE NoiseFits'
  <2>1. \A t \in Servers : pc[t] = "idle" /\ pc'[t] = "idle" /\ noise'[t] = noise[t]
    BY <1>0, <1>2 DEF InOrder, SetRoundSettings
  <2>2. QED BY <2>1 DEF NoiseFits, Mixing
<1>3. ASSUME NEW s \in Servers, NEW counts \in NoiseCounts, GenerateNoise(s, counts)
      PROVE  NoiseFits'
  <2> DEFINE made == NoiseOnions(s, counts)
             new == [st[s] EXCEPT !.noiseDone = "closed"]
  <2>1. /\ ToSet(SetToSeq(made)) = made /\ IsInjective(SetToSeq(made))
        /\ \A o \in made : IsNoiseOf(s, o)
    BY NoiseOnionsFacts, SetToSeqFacts
  <2>2. /\ st' = [st EXCEPT ![s] = new] /\ noise' = [noise EXCEPT ![s] = SetToSeq(made)]
        /\ pc' = pc /\ st[s].noiseDone = "open"
    BY <1>3 DEF GenerateNoise
  <2>3. new.noiseDone = "closed"
    BY <1>0 DEF StateType
  <2>4. noise \in [Servers -> Seq(Onion)]
    BY DEF Types
  <2> HIDE DEF made, new
  <2>5. \A t \in Servers : /\ st'[t].noiseDone = IF t = s THEN "closed" ELSE st[t].noiseDone
                           /\ noise'[t] = IF t = s THEN SetToSeq(made) ELSE noise[t]
    BY <1>0, <2>2, <2>3, <2>4
  <2>6. QED BY <2>1, <2>2, <2>5 DEF NoiseFits
<1>4. ASSUME SetupAnswered PROVE NoiseFits'
  BY <1>4, NoiseKept DEF SetupAnswered, endVars
<1>5. ASSUME RunRound PROVE NoiseFits'
  <2>1. \A s \in Servers : pc'[s] = pc[s]
    BY <1>0, <1>5 DEF RunRound
  <2>2. QED BY <1>5, <2>1, NoiseKept DEF RunRound
<1>6. ASSUME NEW c \in Callers, NEW i \in DOMAIN stream[c], AddOnions(c, i) PROVE NoiseFits'
  <2>1. \A t \in Servers : st'[t].noiseDone = st[t].noiseDone
    <3> DEFINE new == [st[c + 1] EXCEPT !.numIncoming = Len(outgoing[c]), !.acceptingOnions = TRUE,
                                        !.incoming = [j \in DOMAIN outgoing[c] |-> Nil]]
    <3>1. st' = st \/ st' = [st EXCEPT ![c + 1] = new]
      BY <1>6 DEF AddOnions
    <3>2. new.noiseDone = st[c + 1].noiseDone
      BY <1>0 DEF StateType
    <3> HIDE DEF new
    <3>3. QED BY <1>0, <3>1, <3>2
  <2>2. QED BY <1>6, <2>1, NoiseKept DEF AddOnions
<1>7. ASSUME NEW c \in Callers, NEW i \in DOMAIN stream[c], ReceiveOnion(c, i) PROVE NoiseFits'
  <2>1. \A t \in Servers : st'[t].noiseDone = st[t].noiseDone
    BY <1>0, <1>7 DEF StateType, ReceiveOnion
  <2>2. QED BY <1>7, <2>1, NoiseKept DEF ReceiveOnion
<1>8. ASSUME NEW c \in Callers, OnionsAdded(c) \/ RoundClosed(c) \/ CallFails(c) PROVE NoiseFits'
  <2>1. \A s \in Servers : pc'[s] # pc[s] => pc[s] \in Mixing /\ pc'[s] # "lost"
    BY <1>0, <1>8 DEF OnionsAdded, RoundClosed, CallFails, EndCall, Mixing
  <2>2. noise' = noise /\ st' = st
    BY <1>8 DEF OnionsAdded, RoundClosed, CallFails
  <2>3. QED BY <2>1, <2>2, NoiseKept
<1>9. ASSUME NEW c \in Callers, GetOnions(c) PROVE NoiseFits'
  <2>1. \A s \in Servers : pc'[s] # pc[s] => pc[s] \in Mixing /\ pc'[s] # "lost"
    BY <1>0, <1>9 DEF GetOnions, EndCall, Mixing
  <2>2. \A t \in Servers : st'[t].noiseDone = st[t].noiseDone
    <3> DEFINE r == SealReplies(st[c].index, Unshuffle(c, st[c + 1].replies))
    <3>1. st' # st => c # 0 /\ st' = [st EXCEPT ![c].replies = r]
      BY <1>9 DEF GetOnions
    <3>2. c # 0 => c \in Servers
      BY Chain
    <3> HIDE DEF r
    <3>3. CASE st' = st
      BY <3>3
    <3>4. CASE c \in Servers /\ st' = [st EXCEPT ![c].replies = r]
      BY <1>0, <3>4 DEF StateType
    <3>5. QED BY <3>1, <3>2, <3>3, <3>4
  <2>3. QED BY <1>9, <2>1, <2>2, NoiseKept DEF GetOnions
<1>10. ASSUME NEW s \in Servers, NEW i \in st[s].jobs, decryptionWorker(s, i) PROVE NoiseFits'
  <2>1. \A t \in Servers : st'[t].noiseDone = st[t].noiseDone
    BY <1>0, <1>10 DEF StateType, decryptionWorker
  <2>2. QED BY <1>10, <2>1, NoiseKept DEF decryptionWorker
<1>11. ASSUME NEW s \in Servers, CloseRound(s) PROVE NoiseFits'
  <2>1. \A t \in Servers : st'[t].noiseDone = st[t].noiseDone
    BY <1>0, <1>11 DEF StateType, CloseRound
  <2>2. \A t \in Servers : pc'[t] = pc[t] \/ pc'[t] = "draining"
    BY <1>0, <1>11 DEF CloseRound
  <2>3. QED BY <1>11, <2>1, <2>2, NoiseKept DEF CloseRound, Mixing
<1>12. ASSUME NEW s \in Servers, Mix(s) PROVE NoiseFits'
  <2>1. \A t \in Servers : st'[t].noiseDone = st[t].noiseDone
    <3> DEFINE kept == Kept(s, st[s].incoming)
               index == IncomingIndex(st[s].incoming, kept)
    <3>1. st' = [st EXCEPT ![s].index = index, ![s].incoming = << >>]
      BY <1>12 DEF Mix
    <3> HIDE DEF index
    <3>2. QED BY <1>0, <3>1 DEF StateType
  <2>2. \A t \in Servers : t # s => pc'[t] = pc[t]
    BY <1>0, <1>12 DEF Mix
  <2>3. pc'[s] # "lost" /\ st[s].noiseDone = "closed" /\ noise' = noise
    BY <1>0, <1>12 DEF Mix, noiseWait
  <2>4. QED BY <2>1, <2>2, <2>3 DEF NoiseFits
<1>13. ASSUME NEW s \in Servers, encryptReplies(s) PROVE NoiseFits'
  <2>1. \A t \in Servers : st'[t].noiseDone = st[t].noiseDone
    BY <1>0, <1>13 DEF StateType, encryptReplies
  <2>2. QED BY <1>13, <2>1, NoiseKept DEF encryptReplies
<1>14. ASSUME NEW s \in Servers, DeleteRound(s) \/ DeleteFails(s) \/ SetupFails(s)
       PROVE  NoiseFits'
  BY <1>14, NoiseKept DEF DeleteRound, DeleteFails, SetupFails
<1>15. ASSUME NEW s \in Servers, Restart(s) PROVE NoiseFits'
  <2>1. \A t \in Servers : st'[t] = IF t = s THEN NewState ELSE st[t]
    BY <1>0, <1>15 DEF Restart
  <2>2. NewState.noiseDone = "unset"
    BY DEF NewState
  <2>3. pc'[s] \notin Mixing
    BY <1>0, <1>15 DEF Restart, Mixing
  <2>4. \A t \in Servers : t # s /\ pc'[t] # pc[t] => pc[t] = "adding" /\ pc'[t] = "failed"
    BY <1>0, <1>15 DEF Restart
  <2>5. noise' = noise
    BY <1>15 DEF Restart
  <2>6. QED BY <2>1, <2>2, <2>3, <2>4, <2>5 DEF NoiseFits, Mixing
<1>16. ASSUME HandleMessages PROVE NoiseFits'
  <2>1. \A s \in Servers : pc'[s] # pc[s] => pc[s] \in Mixing /\ pc'[s] # "lost"
    BY <1>0, <1>16 DEF HandleMessages, Mixing
  <2>2. \A t \in Servers : st'[t].noiseDone = st[t].noiseDone
    <3> DEFINE r == IF bidirectional
                    THEN SealReplies(st[N].index, [j \in DOMAIN outgoing[N] |-> outgoing[N][j].msg])
                    ELSE << >>
    <3>1. st' = [st EXCEPT ![N].replies = r]
      BY <1>16 DEF HandleMessages
    <3> HIDE DEF r
    <3>2. QED BY <1>0, <3>1 DEF StateType
  <2>3. QED BY <1>16, <2>1, <2>2, NoiseKept DEF HandleMessages
<1>17. ASSUME HandleMessagesFails PROVE NoiseFits'
  <2>1. \A s \in Servers : pc'[s] # pc[s] => pc[s] \in Mixing /\ pc'[s] # "lost"
    BY <1>0, <1>17 DEF HandleMessagesFails, Mixing
  <2>2. QED BY <1>17, <2>1, NoiseKept DEF HandleMessagesFails
<1>18. QED
  BY <1>1, <1>2, <1>3, <1>4, <1>5, <1>6, <1>7, <1>8, <1>9, <1>10, <1>11, <1>12, <1>13, <1>14,
     <1>15, <1>16, <1>17
     DEF Next, Setup, CallerStep, ServerStep, Failure
-----------------------------------------------------------------------------
(***************************************************************************)
(* The onions that are added are all there when they are mixed.            *)
(***************************************************************************)

\* The streams of c end as they began: what c adds is not touched.
Untouched(c) ==
    /\ st'[c + 1].jobs = st[c + 1].jobs /\ st'[c + 1].incoming = st[c + 1].incoming
    /\ st'[c + 1].numIncoming = st[c + 1].numIncoming
    /\ outgoing'[c] = outgoing[c]
    /\ pc'[c] \in {"idle", "draining"} => pc[c] \in {"idle", "draining"}
    /\ pc'[c] = "adding" => /\ pc[c] = "adding" /\ stream'[c] = stream[c]
                            /\ st'[c + 1].acceptingOnions = st[c + 1].acceptingOnions
    /\ (pc'[c] = "closing" /\ pc'[c + 1] = "idle" /\ c + 1 \in rounds') \/ pc'[c + 1] = "draining" =>
          (pc[c] = "closing" /\ pc[c + 1] = "idle" /\ c + 1 \in rounds) \/ pc[c + 1] = "draining"

\* A step that does not touch the onions of c.
LEMMA AddedKept ==
    ASSUME NEW c \in Callers, Added(c), Untouched(c)
    PROVE  Added(c)'
<1>1. \A i : InPlace(c, i)' <=> InPlace(c, i)
  BY DEF Untouched, InPlace
<1>2. QED BY <1>1 DEF Untouched, Added

\* The steps that add onions: the rest leaves them alone.
Adds(c) ==
    \/ c = 0 /\ RunRound
    \/ \E i \in DOMAIN stream[c] : AddOnions(c, i) \/ ReceiveOnion(c, i)
    \/ \E i \in st[c + 1].jobs : decryptionWorker(c + 1, i)
    \/ OnionsAdded(c)
    \/ Mix(c + 1)
    \/ c # 0 /\ Mix(c)
    \/ Restart(c + 1)

\* All steps but those of Adds(c) are such steps.
LEMMA UntouchedSteps ==
    ASSUME Types, InOrder, NEW c \in Callers, Next, ~Adds(c)
    PROVE  Untouched(c)
<1>0. /\ c \in 0 .. N /\ c + 1 \in 0 .. N /\ c + 1 \in Servers /\ c + 1 # c /\ c # N
      /\ N \in Servers /\ Servers \subseteq 0 .. N /\ Callers \subseteq 0 .. N
      /\ \A s \in Servers : s - 1 \in 0 .. N /\ s - 1 + 1 = s
      /\ \A d \in Callers : d + 1 \in Servers /\ (d + 1 = c + 1 => d = c)
      /\ pc \in [0 .. N -> Stages] /\ st \in [Servers -> StateType] /\ rounds \subseteq Servers
      /\ outgoing \in [0 .. N -> Seq(Onion)]
      /\ stream \in [Callers -> Seq({"new", "open", "done", "error"})]
  BY Chain DEF Types, Servers, Callers
<1>1. ASSUME NEW s \in Servers, NewRound(s) PROVE Untouched(c)
  BY <1>0, <1>1 DEF Untouched, NewRound, InOrder, endVars
<1>2. ASSUME NEW s \in Servers, SetRoundSettings(s) PROVE Untouched(c)
  <2> DEFINE new == [st[s] EXCEPT !.noiseDone = "open"]
  <2>1. st' = st \/ st' = [st EXCEPT ![s] = new]
    BY <1>2 DEF SetRoundSettings
  <2>2. /\ new.jobs = st[s].jobs /\ new.incoming = st[s].incoming
        /\ new.numIncoming = st[s].numIncoming /\ new.acceptingOnions = st[s].acceptingOnions
    BY <1>0 DEF StateType
  <2> HIDE DEF new
  <2>3. QED BY <1>0, <1>2, <2>1, <2>2 DEF Untouched, SetRoundSettings, endVars
<1>3. ASSUME NEW s \in Servers, NEW counts \in NoiseCounts, GenerateNoise(s, counts)
      PROVE  Untouched(c)
  BY <1>0, <1>3 DEF Untouched, StateType, GenerateNoise, setupVars, endVars
<1>4. ASSUME SetupAnswered PROVE Untouched(c)
  BY <1>4 DEF Untouched, SetupAnswered, endVars
<1>5. ASSUME RunRound PROVE Untouched(c)
  <2>1. c # 0 /\ 0 \in 0 .. N /\ 0 # c + 1
    BY <1>5, Chain DEF Adds, Callers
  <2>2. pc'[c] = pc[c] /\ outgoing'[c] = outgoing[c] /\ stream'[c] = stream[c] /\ pc'[c + 1] = pc[c + 1]
    BY <1>0, <1>5, <2>1 DEF RunRound
  <2>3. QED BY <1>5, <2>2 DEF Untouched, RunRound
<1>6. ASSUME NEW d \in Callers, NEW i \in DOMAIN stream[d], AddOnions(d, i) \/ ReceiveOnion(d, i)
      PROVE  Untouched(c)
  <2>1. d # c /\ d + 1 # c + 1
    BY <1>0, <1>6 DEF Adds
  <2>2. st'[c + 1] = st[c + 1]
    BY <1>0, <1>6, <2>1 DEF AddOnions, ReceiveOnion
  <2>3. stream'[c] = stream[c]
    BY <1>0, <1>6, <2>1 DEF AddOnions, ReceiveOnion
  <2>4. UNCHANGED <<pc, rounds, outgoing>>
    BY <1>6 DEF AddOnions, ReceiveOnion
  <2>5. QED BY <2>2, <2>3, <2>4 DEF Untouched
<1>7. ASSUME NEW s \in Servers, NEW i \in st[s].jobs, decryptionWorker(s, i) PROVE Untouched(c)
  <2>1. s # c + 1
    BY <1>0, <1>7 DEF Adds
  <2>2. st'[c + 1] = st[c + 1]
    BY <1>0, <1>7, <2>1 DEF decryptionWorker
  <2>3. QED BY <1>7, <2>2 DEF Untouched, decryptionWorker
<1>8. ASSUME NEW d \in Callers, OnionsAdded(d) PROVE Untouched(c)
  <2>1. d # c
    BY <1>8 DEF Adds
  <2>2. pc'[c] = pc[c] /\ pc'[c + 1] \in {pc[c + 1], "failed", "closing"}
    BY <1>0, <1>8, <2>1 DEF OnionsAdded, EndCall
  <2>3. QED BY <1>8, <2>2 DEF Untouched, OnionsAdded
<1>9. ASSUME NEW d \in Callers, RoundClosed(d) \/ CallFails(d) PROVE Untouched(c)
  <2>1. pc'[c] \in {pc[c], "failed", "fetching", "ok"}
        /\ pc'[c + 1] \in {pc[c + 1], "failed", "fetching", "ok"}
    BY <1>0, <1>9 DEF RoundClosed, CallFails, EndCall
  <2>2. UNCHANGED <<st, outgoing, stream, rounds>>
    BY <1>9 DEF RoundClosed, CallFails
  <2>3. QED BY <2>1, <2>2 DEF Untouched
<1>10. ASSUME NEW d \in Callers, GetOnions(d) PROVE Untouched(c)
  <2>1. pc'[c] \in {pc[c], "failed", "ok"} /\ pc'[c + 1] \in {pc[c + 1], "failed", "ok"}
    BY <1>0, <1>10 DEF GetOnions, EndCall
  <2>2. \A t \in Servers : /\ st'[t].jobs = st[t].jobs /\ st'[t].incoming = st[t].incoming
                           /\ st'[t].numIncoming = st[t].numIncoming
                           /\ st'[t].acceptingOnions = st[t].acceptingOnions
    <3> DEFINE r == SealReplies(st[d].index, Unshuffle(d, st[d + 1].replies))
    <3>1. st' # st => d # 0 /\ st' = [st EXCEPT ![d].replies = r]
      BY <1>10 DEF GetOnions
    <3>2. d # 0 => d \in Servers
      BY Chain
    <3> HIDE DEF r
    <3>3. CASE st' = st
      BY <3>3
    <3>4. CASE d \in Servers /\ st' = [st EXCEPT ![d].replies = r]
      BY <1>0, <3>4 DEF StateType
    <3>5. QED BY <3>1, <3>2, <3>3, <3>4
  <2>3. QED BY <1>0, <1>10, <2>1, <2>2 DEF Untouched, GetOnions
<1>11. ASSUME NEW s \in Servers, CloseRound(s) PROVE Untouched(c)
  <2>1. /\ pc' = [pc EXCEPT ![s] = "draining"] /\ UNCHANGED <<outgoing, stream, rounds>>
        /\ pc[s - 1] = "closing" /\ pc[s] = "idle" /\ s \in rounds
        /\ st' = [st EXCEPT ![s].acceptingOnions = FALSE]
    BY <1>11 DEF CloseRound
  <2>2. \A t \in Servers : /\ st'[t].jobs = st[t].jobs /\ st'[t].incoming = st[t].incoming
                           /\ st'[t].numIncoming = st[t].numIncoming
                           /\ t # s => st'[t].acceptingOnions = st[t].acceptingOnions
    BY <1>0, <2>1 DEF StateType
  <2>3. /\ pc'[c] = IF c = s THEN "draining" ELSE pc[c]
        /\ pc'[c + 1] = IF c + 1 = s THEN "draining" ELSE pc[c + 1]
        /\ c = s => pc[c] = "idle"
        /\ c + 1 = s => pc[c] = "closing"
    <3>1. c + 1 = s => s - 1 = c
      BY <1>0
    <3>2. QED BY <1>0, <2>1, <3>1
  <2>4. QED BY <1>0, <2>1, <2>2, <2>3 DEF Untouched
<1>12. ASSUME NEW s \in Servers, Mix(s) PROVE Untouched(c)
  <2>1. s # c + 1 /\ s # c
    <3>1. \A t \in Servers : t # 0
      BY DEF Servers
    <3>2. QED BY <1>0, <1>12, <3>1 DEF Adds
  <2>2. pc'[c] = pc[c] /\ pc'[c + 1] = pc[c + 1]
    BY <1>0, <1>12, <2>1 DEF Mix
  <2>3. st'[c + 1] = st[c + 1]
    BY <1>0, <1>12, <2>1 DEF Mix
  <2>4. outgoing'[c] = outgoing[c] /\ stream'[c] = stream[c]
    BY <1>0, <1>12, <2>1 DEF Mix
  <2>5. QED BY <1>12, <2>2, <2>3, <2>4 DEF Untouched, Mix
<1>13. ASSUME NEW s \in Servers, encryptReplies(s) PROVE Untouched(c)
  BY <1>0, <1>13 DEF Untouched, StateType, encryptReplies
<1>14. ASSUME NEW s \in Servers, DeleteRound(s) \/ DeleteFails(s) \/ SetupFails(s)
       PROVE  Untouched(c)
  <2>1. UNCHANGED <<pc, st, outgoing, stream>> /\ rounds' \subseteq rounds
    BY <1>14 DEF DeleteRound, DeleteFails, SetupFails
  <2>2. QED BY <2>1 DEF Untouched
<1>15. ASSUME NEW s \in Servers, Restart(s) PROVE Untouched(c)
  <2>1. s # c + 1
    BY <1>15 DEF Adds
  <2>2. st'[c + 1] = st[c + 1]
    BY <1>0, <1>15, <2>1 DEF Restart
  <2>3. pc'[c] \in {pc[c], "failed", "lost"} /\ pc'[c + 1] \in {pc[c + 1], "failed"}
    BY <1>0, <1>15, <2>1 DEF Restart
  <2>4. UNCHANGED <<outgoing, stream>> /\ rounds' \subseteq rounds
    BY <1>15 DEF Restart
  <2>5. QED BY <2>2, <2>3, <2>4 DEF Untouched
<1>16. ASSUME HandleMessages PROVE Untouched(c)
  <2> DEFINE r == IF bidirectional
                  THEN SealReplies(st[N].index, [j \in DOMAIN outgoing[N] |-> outgoing[N][j].msg])
                  ELSE << >>
  <2>1. st' = [st EXCEPT ![N].replies = r]
    BY <1>16 DEF HandleMessages
  <2> HIDE DEF r
  <2>2. \A t \in Servers : /\ st'[t].jobs = st[t].jobs /\ st'[t].incoming = st[t].incoming
                           /\ st'[t].numIncoming = st[t].numIncoming
                           /\ st'[t].acceptingOnions = st[t].acceptingOnions
    BY <1>0, <2>1 DEF StateType
  <2>3. pc'[c] = pc[c] /\ pc'[c + 1] \in {pc[c + 1], "ok", "failed"}
    BY <1>0, <1>16 DEF HandleMessages
  <2>4. QED BY <1>0, <1>16, <2>2, <2>3 DEF Untouched, HandleMessages
<1>17. ASSUME HandleMessagesFails PROVE Untouched(c)
  <2>1. pc'[c] = pc[c] /\ pc'[c + 1] \in {pc[c + 1], "failed"}
    BY <1>0, <1>17 DEF HandleMessagesFails
  <2>2. QED BY <1>17, <2>1 DEF Untouched, HandleMessagesFails
<1>18. QED
  BY <1>1, <1>2, <1>3, <1>4, <1>5, <1>6, <1>7, <1>8, <1>9, <1>10, <1>11, <1>12, <1>13, <1>14,
     <1>15, <1>16, <1>17
     DEF Next, Setup, CallerStep, ServerStep, Failure

\* A worker opens the onion of its job.
LEMMA WorkerOpens ==
    ASSUME NEW s, NEW i, NEW onion, onion = outgoing[s - 1][i], decryptionWorker(s, i)
    PROVE  st' = [st EXCEPT ![s].incoming[i] = Opened(s, onion), ![s].jobs = @ \ {i}]
BY DEF decryptionWorker, Opened

\* A step that adds onions keeps track of them.
LEMMA AddedStep ==
    ASSUME Types, InOrder, NEW c \in Callers, Added(c), Adds(c)
    PROVE  Added(c)'
<1> DEFINE next == st[c + 1]
           out == outgoing[c]
           K == {"new", "open", "done", "error"}
<1>0. /\ c \in 0 .. N /\ c + 1 \in 0 .. N /\ c + 1 \in Servers /\ c + 1 # c /\ c # N /\ (c + 1) - 1 = c
      /\ c < c + 1 /\ N \in Nat
      /\ pc \in [0 .. N -> Stages] /\ st \in [Servers -> StateType]
      /\ outgoing \in [0 .. N -> Seq(Onion)] /\ stream \in [Callers -> Seq(K)]
  <2>1. /\ pc \in [0 .. N -> Stages] /\ st \in [Servers -> StateType]
        /\ outgoing \in [0 .. N -> Seq(Onion)] /\ stream \in [Callers -> Seq(K)]
    BY DEF Types
  <2>2. c \in 0 .. N - 1 /\ N \in Nat
    BY Chain DEF Callers
  <2>3. c + 1 # c /\ c # N /\ (c + 1) - 1 = c /\ c < c + 1
    BY <2>2
  <2>4. c \in 0 .. N /\ c + 1 \in 0 .. N /\ c + 1 \in Servers
    BY Chain
  <2>5. QED BY <2>1, <2>2, <2>3, <2>4
<1>1. /\ next \in StateType /\ out \in Seq(Onion) /\ stream[c] \in Seq(K)
      /\ next.incoming \in Seq(Onion \cup {Nil}) /\ next.jobs \in SUBSET Nat
  BY <1>0 DEF StateType
<1>2. /\ DOMAIN out = 1 .. Len(out) /\ Len(out) \in Nat
      /\ DOMAIN next.incoming = 1 .. Len(next.incoming) /\ Len(next.incoming) \in Nat
  BY <1>1
<1>3. next.incoming = << >> => next.jobs = {}
  BY DEF Added
<1>4. ASSUME c = 0, RunRound PROVE Added(c)'
  <2>1. /\ st' = st /\ pc'[c] = "adding" /\ pc'[c + 1] = pc[c + 1] /\ pc[c] = "idle"
        /\ outgoing'[c] = batch /\ stream'[c] = [i \in DOMAIN batch |-> "new"]
    BY <1>0, <1>4 DEF RunRound
  <2>2. next.numIncoming = 0 /\ next.incoming = << >> /\ next.jobs = {}
    BY <1>3, <2>1 DEF Added
  <2>3. pc[c + 1] = "idle"
    BY <1>0, <2>1 DEF InOrder
  <2>4. DOMAIN stream'[c] = DOMAIN outgoing'[c] /\ \A i \in DOMAIN stream'[c] : stream'[c][i] = "new"
    BY <2>1
  <2>5. QED BY <2>1, <2>2, <2>3, <2>4 DEF Added
<1>5. ASSUME NEW i \in DOMAIN stream[c], AddOnions(c, i) PROVE Added(c)'
  <2>1. pc[c] = "adding" /\ pc[c + 1] = "idle" /\ UNCHANGED <<pc, outgoing>>
    BY <1>0, <1>5 DEF AddOnions, InOrder
  <2>2. /\ DOMAIN stream[c] = DOMAIN out
        /\ \/ /\ next.numIncoming = 0 /\ next.incoming = << >> /\ next.jobs = {}
              /\ \A j \in DOMAIN stream[c] : stream[c][j] \in {"new", "error"}
           \/ /\ next.numIncoming = Len(out) /\ next.acceptingOnions
              /\ Len(next.incoming) = Len(out)
        /\ \A j \in DOMAIN stream[c] : stream[c][j] = "done" => InPlace(c, j)
        /\ \A j \in next.jobs : stream[c][j] = "done"
        /\ next.jobs \subseteq DOMAIN next.incoming \cap DOMAIN out
    BY <1>3, <2>1 DEF Added
  <2>3. Len(out) # 0
    BY <1>2, <2>2
  <2>4. /\ stream[c][i] = "new" /\ DOMAIN stream'[c] = DOMAIN stream[c]
        /\ \A j \in DOMAIN stream[c] : j # i => stream'[c][j] = stream[c][j]
        /\ stream'[c][i] = IF c + 1 \in rounds THEN "open" ELSE "error"
    BY <1>0, <1>5 DEF AddOnions
  <2>5. i \notin next.jobs
    BY <2>2, <2>4
  <2>6. CASE c + 1 \in rounds /\ firstStream(c + 1)
    <3> DEFINE room == [j \in DOMAIN out |-> Nil]
               new == [next EXCEPT !.numIncoming = Len(out), !.acceptingOnions = TRUE,
                                   !.incoming = room]
    <3>1. st' = [st EXCEPT ![c + 1] = new]
      BY <1>5, <2>6 DEF AddOnions
    <3>2. new.numIncoming = Len(out) /\ new.acceptingOnions /\ new.incoming = room
          /\ new.jobs = next.jobs
      BY <1>1 DEF StateType
    <3>3. Len(room) = Len(out)
      BY <1>2
    <3> HIDE DEF room, new
    <3>4. st'[c + 1] = new
      BY <1>0, <3>1
    <3>5. /\ next.jobs = {}
          /\ \A j \in DOMAIN stream[c] : stream[c][j] \in {"new", "error"}
      BY <2>2, <2>3, <2>6 DEF firstStream
    <3>6. \A j \in DOMAIN stream'[c] : stream'[c][j] # "done"
      BY <2>4, <3>5
    <3>7. QED BY <2>1, <2>2, <2>4, <3>2, <3>3, <3>4, <3>5, <3>6 DEF Added
  <2>7. CASE c + 1 \in rounds /\ ~firstStream(c + 1)
    <3>1. st' = st
      BY <1>5, <2>7 DEF AddOnions
    <3>2. next.numIncoming # 0
      BY <2>7 DEF firstStream
    <3>3. \A j : InPlace(c, j)' <=> InPlace(c, j)
      BY <2>1, <3>1 DEF InPlace
    <3>4. \A j \in DOMAIN stream'[c] : stream'[c][j] = "done" => j # i /\ stream[c][j] = "done"
      BY <2>4, <2>7
    <3>5. \A j \in next.jobs : stream'[c][j] = "done"
      BY <2>2, <2>4, <2>5
    <3>6. QED BY <2>1, <2>2, <2>4, <3>1, <3>2, <3>3, <3>4, <3>5 DEF Added
  <2>8. CASE c + 1 \notin rounds
    <3>1. st' = st
      BY <1>5, <2>8 DEF AddOnions
    <3>2. \A j : InPlace(c, j)' <=> InPlace(c, j)
      BY <2>1, <3>1 DEF InPlace
    <3>3. \A j \in DOMAIN stream'[c] : stream'[c][j] = "done" => j # i /\ stream[c][j] = "done"
      BY <2>4, <2>8
    <3>4. \A j \in next.jobs : stream'[c][j] = "done"
      BY <2>2, <2>4, <2>5
    <3>5. (\A j \in DOMAIN stream[c] : stream[c][j] \in {"new", "error"})
          => \A j \in DOMAIN stream'[c] : stream'[c][j] \in {"new", "error"}
      BY <2>4, <2>8
    <3>6. QED BY <2>1, <2>2, <2>4, <3>1, <3>2, <3>3, <3>4, <3>5 DEF Added
  <2>9. QED BY <2>6, <2>7, <2>8
<1>6. ASSUME NEW i \in DOMAIN stream[c], ReceiveOnion(c, i) PROVE Added(c)'
  <2>1. pc[c] = "adding" /\ pc[c + 1] = "idle" /\ UNCHANGED <<pc, outgoing>> /\ stream[c][i] = "open"
    BY <1>0, <1>6 DEF ReceiveOnion, InOrder
  <2>2. /\ DOMAIN stream[c] = DOMAIN out
        /\ next.numIncoming = Len(out) /\ next.acceptingOnions /\ Len(next.incoming) = Len(out)
        /\ \A j \in DOMAIN stream[c] : stream[c][j] = "done" => InPlace(c, j)
        /\ \A j \in next.jobs : stream[c][j] = "done"
        /\ next.jobs \subseteq DOMAIN next.incoming \cap DOMAIN out
    BY <2>1 DEF Added
  <2> DEFINE new == [next EXCEPT !.jobs = @ \cup {i}]
  <2>3. st' = [st EXCEPT ![c + 1] = new]
    BY <1>6, <2>2 DEF ReceiveOnion
  <2>4. /\ new.numIncoming = next.numIncoming /\ new.acceptingOnions = next.acceptingOnions
        /\ new.incoming = next.incoming /\ new.jobs = next.jobs \cup {i}
    BY <1>1 DEF StateType
  <2> HIDE DEF new
  <2>5. st'[c + 1] = new
    BY <1>0, <2>3
  <2>6. /\ DOMAIN stream'[c] = DOMAIN stream[c] /\ stream'[c][i] = "done"
        /\ \A j \in DOMAIN stream[c] : j # i => stream'[c][j] = stream[c][j]
    BY <1>0, <1>6 DEF ReceiveOnion
  <2>7. \A j \in DOMAIN stream[c] : InPlace(c, j) \/ j = i => InPlace(c, j)'
    BY <2>1, <2>4, <2>5 DEF InPlace
  <2>8. i \in DOMAIN next.incoming
    BY <1>2, <2>2
  <2>9. QED BY <2>1, <2>2, <2>4, <2>5, <2>6, <2>7, <2>8 DEF Added
<1>7. ASSUME NEW i \in next.jobs, decryptionWorker(c + 1, i) PROVE Added(c)'
  <2> DEFINE opened == Opened(c + 1, out[i])
             new == [next EXCEPT !.incoming = [@ EXCEPT ![i] = opened], !.jobs = @ \ {i}]
  <2>1. UNCHANGED <<pc, outgoing, stream, rounds>>
    BY <1>7 DEF decryptionWorker
  <2>2. st' = [st EXCEPT ![c + 1].incoming[i] = opened, ![c + 1].jobs = @ \ {i}]
    <3>1. out[i] = outgoing[(c + 1) - 1][i]
      BY <1>0
    <3>2. QED BY <1>7, <3>1, WorkerOpens
  <2>3. i \in DOMAIN next.incoming /\ i \in DOMAIN out
        /\ next.jobs \subseteq DOMAIN next.incoming \cap DOMAIN out
    BY <1>7 DEF Added
  <2>4. /\ new.numIncoming = next.numIncoming /\ new.acceptingOnions = next.acceptingOnions
        /\ new.incoming = [next.incoming EXCEPT ![i] = opened] /\ new.jobs = next.jobs \ {i}
    BY <1>1 DEF StateType
  <2>5. st' = [st EXCEPT ![c + 1] = new]
    BY <2>2
  <2> DEFINE incoming == [next.incoming EXCEPT ![i] = opened]
  <2>6. /\ DOMAIN incoming = DOMAIN next.incoming /\ Len(incoming) = Len(next.incoming)
        /\ incoming[i] = opened /\ \A j \in DOMAIN incoming : j # i => incoming[j] = next.incoming[j]
    BY <1>1, <2>3
  <2>7. next.incoming # << >> /\ Len(next.incoming) # 0
    BY <1>2, <2>3
  <2> HIDE DEF new, incoming
  <2>8. st'[c + 1] = new
    BY <1>0, <2>5
  <2>9. new.incoming = incoming
    BY <2>4 DEF incoming
  <2>10. \A j \in DOMAIN out : Len(next.incoming) = Len(out) /\ InPlace(c, j) => InPlace(c, j)'
    BY <1>2, <2>1, <2>4, <2>6, <2>8, <2>9 DEF InPlace
  <2>11. QED BY <2>1, <2>3, <2>4, <2>6, <2>7, <2>8, <2>9, <2>10 DEF Added
<1>8. ASSUME OnionsAdded(c) PROVE Added(c)'
  <2>1. /\ pc[c] = "adding" /\ UNCHANGED <<st, outgoing, stream, rounds>>
        /\ \A i \in DOMAIN stream[c] : stream[c][i] \in {"done", "error"}
        /\ pc'[c] \in {"failed", "closing"} /\ pc'[c + 1] = pc[c + 1]
        /\ pc'[c] = "closing" => \A i \in DOMAIN stream[c] : stream[c][i] # "error"
    BY <1>0, <1>8 DEF OnionsAdded, EndCall
  <2>2. pc[c + 1] = "idle"
    BY <1>0, <2>1 DEF InOrder
  <2>3. pc'[c] = "closing" => Len(next.incoming) = Len(out) /\ \A i \in DOMAIN out : InPlace(c, i)
    <3>1. SUFFICES ASSUME pc'[c] = "closing"
                   PROVE  Len(next.incoming) = Len(out) /\ \A i \in DOMAIN out : InPlace(c, i)
      OBVIOUS
    <3>2. DOMAIN stream[c] = DOMAIN out /\ \A i \in DOMAIN out : stream[c][i] = "done"
      BY <2>1, <3>1 DEF Added
    <3>3. CASE Len(next.incoming) = Len(out)
      BY <2>1, <3>2, <3>3 DEF Added
    <3>4. CASE next.incoming = << >> /\ \A i \in DOMAIN stream[c] : stream[c][i] \in {"new", "error"}
      <4>1. DOMAIN out = {}
        BY <3>2, <3>4
      <4>2. Len(out) = 0 /\ Len(next.incoming) = 0
        <5>1. Len(out) >= 1 => 1 \in DOMAIN out
          BY <1>2
        <5>2. Len(<< >>) = 0
          OBVIOUS
        <5>3. Len(next.incoming) = 0
          BY <3>4, <5>2
        <5> DEFINE n == Len(out)
        <5>4. n \in Nat /\ ~(n >= 1)
          BY <1>2, <4>1, <5>1
        <5> HIDE DEF n
        <5>5. n = 0
          BY <5>4
        <5>6. QED BY <5>3, <5>5 DEF n
      <4>3. QED BY <4>1, <4>2
    <3>5. QED BY <2>1, <3>3, <3>4 DEF Added
  <2>4. \A i : InPlace(c, i)' <=> InPlace(c, i)
    BY <2>1 DEF InPlace
  <2>5. QED BY <2>1, <2>2, <2>3, <2>4 DEF Added
<1>9. ASSUME Mix(c + 1) PROVE Added(c)'
  <2>1. pc[c + 1] = "draining" /\ pc[c] \notin {"idle", "draining", "adding"}
    BY <1>0, <1>9 DEF Mix, InOrder
  <2>2. pc'[c] = pc[c] /\ pc'[c + 1] \in {"adding", "handling"}
    BY <1>0, <1>9 DEF Mix
  <2>3. next.jobs = {}
    BY <1>9 DEF Mix, decryptWait
  <2>4. st'[c + 1].jobs = next.jobs
    <3> DEFINE index == IncomingIndex(next.incoming, Kept(c + 1, next.incoming))
    <3>1. st' = [st EXCEPT ![c + 1].index = index, ![c + 1].incoming = << >>]
      BY <1>9 DEF Mix
    <3> HIDE DEF index
    <3>2. QED BY <1>0, <3>1 DEF StateType
  <2>5. QED BY <2>1, <2>2, <2>3, <2>4 DEF Added
<1>10. ASSUME c # 0, Mix(c) PROVE Added(c)'
  <2>1. pc[c] = "draining" /\ pc[c + 1] = "idle" /\ c < N
    BY <1>0, <1>10 DEF Mix, InOrder
  <2>2. /\ next.jobs = {} /\ next.numIncoming = 0 /\ next.incoming = << >>
    BY <1>3, <2>1 DEF Added
  <2>3. /\ pc' = [pc EXCEPT ![c] = "adding"]
        /\ \E p, u : /\ outgoing' = [outgoing EXCEPT ![c] = [j \in DOMAIN p |-> u[p[j]]]]
                     /\ stream' = [stream EXCEPT ![c] = [j \in DOMAIN p |-> "new"]]
    BY <1>10, <2>1 DEF Mix
  <2>4. /\ DOMAIN stream'[c] = DOMAIN outgoing'[c]
        /\ \A j \in DOMAIN stream'[c] : stream'[c][j] = "new"
    BY <1>0, <2>3
  <2>5. st'[c + 1] = next
    BY <1>0, <1>10 DEF Mix
  <2>6. pc'[c] = "adding" /\ pc'[c + 1] = "idle"
    BY <1>0, <2>1, <2>3
  <2>7. QED BY <2>2, <2>4, <2>5, <2>6 DEF Added
<1>11. ASSUME Restart(c + 1) PROVE Added(c)'
  <2>1. st'[c + 1] = NewState /\ c + 1 \notin rounds'
    BY <1>0, <1>11 DEF Restart
  <2>2. NewState.jobs = {} /\ NewState.numIncoming = 0 /\ NewState.incoming = << >>
    BY DEF NewState
  <2>3. pc'[c] # "adding" /\ pc'[c + 1] # "draining"
    BY <1>0, <1>11 DEF Restart
  <2>4. QED BY <2>1, <2>2, <2>3 DEF Added
<1>12. QED BY <1>4, <1>5, <1>6, <1>7, <1>8, <1>9, <1>10, <1>11 DEF Adds
-----------------------------------------------------------------------------
(***************************************************************************)
(* Onions that move.                                                       *)
(***************************************************************************)

\* The noise of a server says so, and opens everywhere.
LEMMA NoiseTells ==
    ASSUME NEW t \in Servers, NEW o, IsNoiseOf(t, o)
    PROVE  o \in Onion /\ o.from = t /\ o.breaks = N + 1
<1>1. PICK b \in 0 .. NumMailboxes, i \in Nat : o = NoiseOnion(t, b, i)
  BY DEF IsNoiseOf
<1>2. o \in Onion
  BY <1>1, NoiseOnionFacts
<1>3. o.from = t /\ o.breaks = N + 1
  BY <1>1 DEF NoiseOnion
<1>4. QED BY <1>2, <1>3

\* What is left after server s: what was left before and opens, with the noise of s.
LEMMA LeftFacts ==
    ASSUME batch \in Batches, NoiseFits, NEW s \in Servers
    PROVE  /\ \A o \in Left(s - 1) : IsOnion(batch, o) /\ o \in Onion /\ o.from # s
           /\ Left(s) = {o \in Left(s - 1) : o.breaks # s} \cup ToSet(noise[s])
<1>1. s \in 1 .. N /\ N \in Nat /\ s - 1 \in Nat
  BY Chain DEF Servers
<1>2. \A t \in 1 .. s : t \in Servers /\ (t = s \/ t \in 1 .. s - 1)
  BY <1>1 DEF Servers
<1>3. \A t \in 1 .. s - 1 : t \in 1 .. s /\ t # s
  BY <1>1
<1>4. ASSUME NEW t \in Servers, NEW o \in ToSet(noise[t])
      PROVE  o \in Onion /\ o.from = t /\ o.breaks = N + 1 /\ IsOnion(batch, o)
  <2>1. IsNoiseOf(t, o)
    BY <1>4 DEF NoiseFits
  <2>2. o \in Onion /\ o.from = t /\ o.breaks = N + 1
    BY <2>1, NoiseTells
  <2>3. QED BY <2>1, <2>2 DEF IsOnion
<1>5. ASSUME NEW o \in ToSet(batch)
      PROVE  o \in Onion /\ o.from = 0 /\ IsOnion(batch, o) /\ o.breaks \in 1 .. N + 1
  <2>1. o \in Onion /\ o.from = 0
    BY BatchFacts
  <2>2. QED BY <2>1 DEF IsOnion, Onion
<1>6. ASSUME NEW o \in Left(s - 1)
      PROVE  /\ IsOnion(batch, o) /\ o \in Onion /\ o.from # s
             /\ o.breaks # s => o \in Left(s)
  <2>1. CASE o \in ToSet(batch) /\ o.breaks > s - 1
    <3>1. o.breaks # s => o.breaks > s
      BY <1>1, <1>5, <2>1
    <3>2. QED BY <1>1, <1>5, <2>1, <3>1 DEF Left
  <2>2. CASE \E t \in 1 .. s - 1 : o \in ToSet(noise[t])
    BY <1>2, <1>3, <1>4, <2>2 DEF Left
  <2>3. QED BY <2>1, <2>2 DEF Left
<1>7. ToSet(noise[s]) \subseteq Left(s)
  BY <1>1 DEF Left
<1>8. ASSUME NEW o \in Left(s), o \notin ToSet(noise[s]) PROVE o \in Left(s - 1) /\ o.breaks # s
  <2>1. CASE o \in ToSet(batch) /\ o.breaks > s
    <3>1. o.breaks > s - 1 /\ o.breaks # s
      BY <1>1, <1>5, <2>1
    <3>2. QED BY <2>1, <3>1 DEF Left
  <2>2. CASE \E t \in 1 .. s : o \in ToSet(noise[t])
    <3>1. PICK t \in 1 .. s : o \in ToSet(noise[t])
      BY <2>2
    <3>2. t \in 1 .. s - 1 /\ t \in Servers
      BY <1>2, <1>8, <3>1
    <3>3. o.breaks = N + 1
      BY <1>4, <3>1, <3>2
    <3>4. N + 1 # s
      BY <1>1
    <3>5. QED BY <3>1, <3>2, <3>3, <3>4 DEF Left
  <2>3. QED BY <2>1, <2>2 DEF Left
<1>9. QED BY <1>6, <1>7, <1>8

\* A permutation moves the onions and does not change which they are.
LEMMA Shuffled ==
    ASSUME NEW s \in Servers, s < N, NEW got, NEW own, NEW all, NEW index,
           Sends(s, got, own, all, index),
           NEW p \in Bijection(DOMAIN all, DOMAIN all),
           NEW sent, sent = [j \in DOMAIN p |-> all[p[j]]]
    PROVE  /\ sent \in Seq(Onion) /\ p \in Seq(Nat) /\ Len(p) = Len(sent) /\ DOMAIN p = DOMAIN sent
           /\ Len(sent) = Len(all)
           /\ ToSet(sent) = ToSet(all) /\ IsInjective(sent)
           /\ Routes(s, index, got, sent, own, p)
<1>0. all \in Seq(Onion) /\ IsInjective(all)
  BY DEF Sends
<1> DEFINE D == DOMAIN all
           n == Len(all)
<1>1. D = 1 .. n /\ n \in Nat
  BY <1>0
<1>2. /\ p \in [D -> D]
      /\ \A i, j \in D : p[i] = p[j] => i = j
      /\ \A k \in D : \E j \in D : p[j] = k
  BY DEF Bijection, Injection, Surjection, IsInjective
<1>3. \A i \in D : all[i] \in Onion
  BY <1>0
<1> HIDE DEF D, n
<1>4. sent \in [D -> Onion] /\ \A j \in D : sent[j] = all[p[j]]
  BY <1>2, <1>3
<1>5. D \subseteq Nat
  BY <1>1
<1>6. /\ sent \in Seq(Onion) /\ Len(sent) = n /\ DOMAIN sent = D
      /\ p \in Seq(Nat) /\ Len(p) = n /\ DOMAIN p = D
  <2>1. p \in [1 .. n -> Nat]
    BY <1>1, <1>2, <1>5
  <2>2. sent \in [1 .. n -> Onion]
    BY <1>1, <1>4
  <2>3. QED BY <1>1, <2>1, <2>2
<1>7. ToSet(sent) = ToSet(all)
  <2>1. ASSUME NEW j \in D PROVE sent[j] \in ToSet(all)
    BY <1>2, <1>4 DEF ToSet, D
  <2>2. ASSUME NEW k \in D PROVE all[k] \in ToSet(sent)
    <3>1. PICK j \in D : p[j] = k
      BY <1>2
    <3>2. QED BY <1>4, <1>6, <3>1 DEF ToSet
  <2>3. DOMAIN sent = D /\ DOMAIN all = D
    BY <1>6 DEF D
  <2>4. ToSet(sent) \subseteq ToSet(all)
    BY <2>1, <2>3 DEF ToSet
  <2>5. ToSet(all) \subseteq ToSet(sent)
    BY <2>2, <2>3 DEF ToSet
  <2>6. QED BY <2>4, <2>5
<1>8. IsInjective(sent)
  <2> SUFFICES ASSUME NEW i \in D, NEW j \in D, sent[i] = sent[j] PROVE i = j
    BY <1>6 DEF IsInjective
  <2>1. all[p[i]] = all[p[j]] /\ p[i] \in D /\ p[j] \in D
    BY <1>2, <1>4
  <2>2. p[i] = p[j]
    BY <1>0, <2>1 DEF IsInjective, D
  <2>3. QED BY <1>2, <2>2
<1>9. Routes(s, index, got, sent, own, p)
  <2>1. index \in Seq(Nat) /\ Len(index) = Len(got) /\ s # N
    BY Chain DEF Sends, Servers
  <2>2. ASSUME NEW i \in DOMAIN index
        PROVE  /\ Survives(got, i) => index[i] # 0
               /\ index[i] # 0 =>
                     /\ index[i] <= Len(sent) - Len(own)
                     /\ \E j \in DOMAIN sent : p[j] = index[i]
                     /\ \A j \in DOMAIN sent : p[j] = index[i] => sent[j] = got[i]
    <3>1. /\ Survives(got, i) => index[i] # 0
          /\ index[i] # 0 => /\ index[i] \in 1 .. n - Len(own)
                             /\ index[i] \in D
                             /\ all[index[i]] = got[i]
      BY DEF Sends, n, D
    <3>2. index[i] # 0 => index[i] <= n - Len(own)
      BY <3>1
    <3>3. QED BY <1>2, <1>4, <1>6, <3>1, <3>2
  <2>3. \A i, j \in DOMAIN index : index[i] # 0 /\ index[j] # 0 /\ got[i] = got[j] => i = j
    BY DEF Sends
  <2>4. QED BY <1>6, <2>1, <2>2, <2>3 DEF Routes
<1>10. QED BY <1>6, <1>7, <1>8, <1>9 DEF n

\* The last server has no need of one.
LEMMA NotShuffled ==
    ASSUME NEW got, NEW own, NEW all, NEW index, Sends(N, got, own, all, index), NEW p
    PROVE  Routes(N, index, got, all, own, p)
<1>1. N \in Nat /\ ~(N < N)
  BY Chain
<1>2. \A i \in DOMAIN index : index[i] # 0 => index[i] <= Len(all) - Len(own)
  BY DEF Sends
<1>3. QED BY <1>1, <1>2 DEF Sends, Routes
-----------------------------------------------------------------------------
(***************************************************************************)
(* The steps that move onions.                                             *)
(***************************************************************************)

\* While a server has not mixed no server after it has.
LEMMA NotYet ==
    ASSUME InOrder, NEW s \in Servers, pc[s] \in {"idle", "draining"}
    PROVE  /\ \A t \in 0 .. N : HasMixed(t) => t < s
           /\ \A t \in Servers : pc[t] \in Mixing => t < s
           /\ handled = Nil
<1>1. s \in 0 .. N /\ s \in Nat /\ N \in Nat /\ N \in 0 .. N /\ Servers \subseteq 0 .. N
  BY Chain DEF Servers
<1>2. \A t \in 0 .. N : s < t => pc[t] = "idle"
  BY <1>1 DEF InOrder
<1>3. \A t \in 0 .. N : pc[t] \in Mixing => t < s
  <2> SUFFICES ASSUME NEW t \in 0 .. N, pc[t] \in Mixing PROVE t < s
    OBVIOUS
  <2>1. pc[t] # "idle" /\ t # s
    BY DEF Mixing
  <2>2. QED BY <1>1, <1>2, <2>1
<1>4. ASSUME NEW t \in 0 .. N, HasMixed(t) PROVE t < s
  <2>1. CASE pc[t] \in Mixing
    BY <1>3, <2>1
  <2>2. CASE t < N /\ pc[t + 1] # "idle"
    <3>1. t + 1 \in 0 .. N /\ t < t + 1
      BY <1>1, <2>2
    <3>2. pc[t] \notin {"idle", "draining", "adding"}
      BY <2>2, <3>1 DEF InOrder
    <3>3. t # s /\ ~(s < t)
      BY <1>2, <3>2
    <3>4. QED BY <1>1, <3>3
  <2>3. QED BY <1>4, <2>1, <2>2 DEF HasMixed
<1>5. pc[N] \in {"idle", "draining"}
  <2>1. CASE s = N
    BY <2>1
  <2>2. CASE s < N
    BY <1>1, <1>2, <2>2
  <2>3. QED BY <1>1, <2>1, <2>2 DEF Servers
<1>6. handled = Nil
  BY <1>5 DEF InOrder
<1>7. QED BY <1>1, <1>3, <1>4, <1>6

\* Noise is made before the server mixes, when nobody has seen it.
LEMMA NoiseMade ==
    ASSUME Types, InOrder, NoiseFits, Mixed, Done, NEW s \in Servers, NEW counts \in NoiseCounts,
           GenerateNoise(s, counts)
    PROVE  Mixed' /\ Done'
<1>1. /\ UNCHANGED <<bidirectional, batch, pc, outgoing, shuffler, handled, replies>>
      /\ st[s].noiseDone = "open"
      /\ \A t \in Servers : t # s => noise'[t] = noise[t]
      /\ \A t \in Servers : st'[t].index = st[t].index /\ st'[t].replies = st[t].replies
  BY DEF GenerateNoise, setupVars, Types, StateType
<1>2. pc[s] \in {"idle", "draining"}
  <2>1. pc[s] \in Stages
    BY Chain DEF Types
  <2>2. pc[s] \notin Mixing /\ pc[s] # "lost"
    BY <1>1 DEF NoiseFits
  <2>3. QED BY <2>1, <2>2 DEF Stages, Mixing
<1>3. /\ \A t \in 0 .. N : HasMixed(t) => t < s
      /\ \A t \in Servers : pc[t] \in Mixing => t < s
      /\ handled = Nil
  BY <1>2, NotYet
<1>4. \A t \in 0 .. N : t < s => \A u \in 1 .. t : u \in Servers /\ u # s
  BY Chain DEF Servers
<1>5. ASSUME NEW t \in 0 .. N, HasMixed(t)' PROVE Carried(t)'
  <2>1. HasMixed(t)
    BY <1>1, <1>5 DEF HasMixed
  <2>2. \A u \in 1 .. t : noise'[u] = noise[u]
    BY <1>1, <1>3, <1>4, <2>1
  <2>3. Carried(t)
    BY <2>1 DEF Mixed
  <2>4. QED BY <1>1, <2>2, <2>3, CarriedKept
<1>6. ASSUME NEW t \in Servers, pc'[t] \in Mixing \ {"failed"} PROVE Routed(t)'
  <2>1. t < s /\ t # s
    <3>1. t < s
      BY <1>1, <1>3, <1>6
    <3>2. t \in Nat /\ s \in Nat
      BY Chain DEF Servers
    <3>3. QED BY <3>1, <3>2
  <2>2. Routed(t)
    BY <1>1, <1>6 DEF Mixed
  <2>3. QED BY <1>1, <2>1, <2>2, RoutedKept
<1>7. Mixed'
  BY <1>1, <1>5, <1>6 DEF Mixed
<1>8. Done'
  BY <1>1, <1>3 DEF Done
<1>9. QED BY <1>7, <1>8

\* The coordinator sends its batch.
LEMMA RoundRun ==
    ASSUME Types, InOrder, NoiseFits, Mixed, Done, RunRound
    PROVE  Mixed' /\ Done'
<1>0. N \in Nat /\ N >= 1 /\ 0 \in 0 .. N /\ pc \in [0 .. N -> Stages]
      /\ outgoing \in [0 .. N -> Seq(Onion)]
  BY Chain DEF Types
<1>1. /\ pc[0] = "idle" /\ UNCHANGED <<bidirectional, batch, noise, handled, replies>>
      /\ pc' = [pc EXCEPT ![0] = "adding"] /\ outgoing' = [outgoing EXCEPT ![0] = batch]
  BY DEF RunRound, setupVars
<1>2. \A t \in 0 .. N : t # 0 => pc'[t] = "idle"
  <2>1. \A t \in 0 .. N : t # 0 => 0 < t
    BY <1>0
  <2>2. \A t \in 0 .. N : t # 0 => pc[t] = "idle"
    BY <1>0, <1>1, <2>1 DEF InOrder
  <2>3. QED BY <1>0, <1>1, <2>2
<1>3. outgoing'[0] = batch
  BY <1>0, <1>1
<1>4. ASSUME NEW t \in 0 .. N, HasMixed(t)' PROVE t = 0
  <2>1. t < N => t + 1 \in 0 .. N /\ t + 1 # 0
    BY <1>0
  <2>2. QED BY <1>2, <1>4, <2>1 DEF HasMixed, Mixing
<1>5. Carried(0)'
  <2>1. \A o \in ToSet(batch) : o.breaks > 0
    <3> SUFFICES ASSUME NEW o \in ToSet(batch) PROVE o.breaks > 0
      OBVIOUS
    <3>1. o \in Onion
      BY BatchFacts DEF Types
    <3>2. o.breaks \in 1 .. N + 1
      BY <3>1 DEF Onion
    <3>3. QED BY <1>0, <3>2
  <2>2. 1 .. 0 = {}
    OBVIOUS
  <2>3. Left(0) = ToSet(batch)
    BY <2>1, <2>2 DEF Left
  <2>4. Left(0)' = Left(0)
    BY <1>1 DEF Left
  <2>5. QED BY <1>1, <1>3, <2>3, <2>4 DEF Carried
<1>6. Mixed'
  <2>1. \A s \in Servers : pc'[s] = "idle"
    BY <1>2, Chain DEF Servers
  <2>2. QED BY <1>1, <1>3, <1>4, <1>5, <2>1 DEF Mixed, Mixing
<1>7. Done'
  BY <1>1 DEF Done
<1>8. QED BY <1>6, <1>7

\* What a server has when it mixes.
LEMMA MixFacts ==
    ASSUME Types, InOrder, NoiseFits, NEW s \in Servers, Added(s - 1), Mixed, Mix(s),
           NEW incoming, incoming = st[s].incoming,
           NEW kept, kept = Kept(s, incoming),
           NEW all, all = Appended(incoming, kept) \o noise[s],
           NEW index, index = IncomingIndex(incoming, kept)
    PROVE  Sends(s, outgoing[s - 1], noise[s], all, index)
<1> DEFINE c == s - 1
           got == outgoing[c]
<1>0. c \in Callers /\ c \in 0 .. N /\ c + 1 = s /\ c < s /\ s \in 0 .. N /\ c < N
  <2>1. s \in 1 .. N /\ N \in Nat
    BY Chain DEF Servers
  <2>2. QED BY <2>1 DEF Callers
<1>1. got \in Seq(Onion) /\ incoming \in Seq(Onion \cup {Nil})
      /\ noise[s] \in Seq(Onion) /\ batch \in Batches
  BY <1>0 DEF Types, StateType
<1>2. pc[s] = "draining" /\ st[s].jobs = {}
  BY DEF Mix, decryptWait
<1> HIDE DEF c
<1>3. Len(incoming) = Len(got) /\ \A i \in DOMAIN got : incoming[i] = Opened(s, got[i])
  BY <1>0, <1>2 DEF Added, InPlace
<1>4. HasMixed(c)
  BY <1>0, <1>2 DEF HasMixed
<1>5. ToSet(got) \subseteq Left(c)
  BY <1>0, <1>4 DEF Mixed, Carried
<1>6. \A o \in ToSet(got) : IsOnion(batch, o) /\ o.from # s
  BY <1>1, <1>5, LeftFacts DEF c
<1>7. Opens(s, batch, got, incoming)
  BY <1>1, <1>3, <1>6 DEF Opens
<1>8. IsOwn(s, got, noise[s])
  <2>1. \A o \in ToSet(noise[s]) : o.from = s
    BY NoiseTells DEF NoiseFits
  <2>2. QED BY <1>1, <1>6, <2>1 DEF IsOwn, NoiseFits
<1>9. QED BY <1>7, <1>8, MixSends DEF c

\* What it sends is what is left.
LEMMA MixCarries ==
    ASSUME batch \in Batches, NoiseFits, NEW s \in Servers, Carried(s - 1),
           NEW all, NEW index, Sends(s, outgoing[s - 1], noise[s], all, index),
           NEW sent, ToSet(sent) = ToSet(all), IsInjective(sent)
    PROVE  /\ ToSet(sent) \subseteq Left(s)
           /\ \A o \in Left(s) : o.msg.mailbox # 0 => o \in ToSet(sent)
           /\ \A i, j \in DOMAIN sent : sent[i].msg.mailbox # 0 /\ sent[i] = sent[j] => i = j
<1> DEFINE got == ToSet(outgoing[s - 1])
           own == ToSet(noise[s])
           before == Left(s - 1)
<1>1. /\ ToSet(all) \subseteq {o \in got : o.breaks # s} \cup own
      /\ own \subseteq ToSet(all)
      /\ \A o \in got : o.breaks # s /\ o.msg.mailbox # 0 => o \in ToSet(all)
  BY DEF Sends
<1>2. got \subseteq before /\ \A o \in before : o.msg.mailbox # 0 => o \in got
  BY DEF Carried
<1>3. Left(s) = {o \in before : o.breaks # s} \cup own
  BY LeftFacts
<1> HIDE DEF got, own, before
<1>4. QED BY <1>1, <1>2, <1>3 DEF IsInjective

\* A server mixes.
LEMMA MixMoves ==
    ASSUME Types, InOrder, NoiseFits, NEW s \in Servers, Added(s - 1), Mixed, Done, Mix(s)
    PROVE  Types' /\ Mixed' /\ Done'
<1> DEFINE incoming == st[s].incoming
           kept == Kept(s, incoming)
           own == noise[s]
           all == Appended(incoming, kept) \o own
           index == IncomingIndex(incoming, kept)
           got == outgoing[s - 1]
<1>0. /\ N \in Nat /\ s \in 0 .. N /\ s - 1 \in 0 .. N /\ s - 1 # s /\ s # 0 /\ s \in Nat
      /\ Servers \subseteq 0 .. N /\ 0 \in 0 .. N /\ s - 1 < s
      /\ pc \in [0 .. N -> Stages] /\ st \in [Servers -> StateType]
      /\ outgoing \in [0 .. N -> Seq(Onion)] /\ shuffler \in [Servers -> Seq(Nat)]
      /\ stream \in [Callers -> Seq({"new", "open", "done", "error"})] /\ batch \in Batches
  <2>1. s \in 1 .. N /\ N \in Nat
    BY Chain DEF Servers
  <2>2. /\ s \in 0 .. N /\ s - 1 \in 0 .. N /\ s - 1 # s /\ s # 0 /\ s \in Nat
        /\ 0 \in 0 .. N /\ s - 1 < s /\ Servers \subseteq 0 .. N
    BY <2>1 DEF Servers
  <2>3. QED BY <2>1, <2>2 DEF Types
<1>1. Sends(s, got, own, all, index)
  BY MixFacts
<1>2. /\ pc[s] = "draining" /\ UNCHANGED <<bidirectional, batch, rounds, noise, handled, replies>>
      /\ st' = [st EXCEPT ![s].index = index, ![s].incoming = << >>]
  BY DEF Mix, setupVars
<1> HIDE DEF incoming, kept, all, index
<1>3. /\ \A t \in 0 .. N : HasMixed(t) => t < s
      /\ \A t \in Servers : pc[t] \in Mixing => t < s
      /\ handled = Nil
  BY <1>2, NotYet
<1>4. Carried(s - 1)
  <2>1. (s - 1) + 1 = s /\ s - 1 < N
    BY <1>0
  <2>2. HasMixed(s - 1)
    BY <1>2, <2>1 DEF HasMixed
  <2>3. QED BY <1>0, <2>2 DEF Mixed
<1>5. \E sent, p :
         /\ sent \in Seq(Onion) /\ p \in Seq(Nat)
         /\ ToSet(sent) = ToSet(all) /\ IsInjective(sent)
         /\ Routes(s, index, got, sent, own, p)
         /\ outgoing' = [outgoing EXCEPT ![s] = sent]
         /\ shuffler' = [shuffler EXCEPT ![s] = p]
         /\ pc' = [pc EXCEPT ![s] = IF s < N THEN "adding" ELSE "handling"]
         /\ stream' \in [Callers -> Seq({"new", "open", "done", "error"})]
  <2>1. CASE s < N
    <3>1. PICK p \in Bijection(DOMAIN all, DOMAIN all) :
             /\ shuffler' = [shuffler EXCEPT ![s] = p]
             /\ outgoing' = [outgoing EXCEPT ![s] = [j \in DOMAIN p |-> all[p[j]]]]
             /\ stream' = [stream EXCEPT ![s] = [j \in DOMAIN p |-> "new"]]
             /\ pc' = [pc EXCEPT ![s] = "adding"]
      BY <2>1 DEF Mix, incoming, kept, all
    <3> DEFINE sent == [j \in DOMAIN p |-> all[p[j]]]
               streams == [j \in DOMAIN p |-> "new"]
    <3>2. /\ sent \in Seq(Onion) /\ p \in Seq(Nat) /\ Len(p) = Len(sent) /\ DOMAIN p = DOMAIN sent
          /\ ToSet(sent) = ToSet(all) /\ IsInjective(sent)
          /\ Routes(s, index, got, sent, own, p)
      BY <1>1, <2>1, Shuffled
    <3>3. streams \in Seq({"new", "open", "done", "error"})
      BY <3>2
    <3>4. outgoing' = [outgoing EXCEPT ![s] = sent] /\ stream' = [stream EXCEPT ![s] = streams]
      BY <3>1
    <3> HIDE DEF sent, streams
    <3>5. stream' \in [Callers -> Seq({"new", "open", "done", "error"})]
      <4> DEFINE K == Seq({"new", "open", "done", "error"})
      <4>1. stream \in [Callers -> K] /\ streams \in K
        BY <1>0, <3>3
      <4> HIDE DEF K
      <4>2. stream' \in [Callers -> K]
        BY <3>4, <4>1
      <4>3. QED BY <4>2 DEF K
    <3>6. QED BY <2>1, <3>1, <3>2, <3>4, <3>5
  <2>2. CASE ~(s < N)
    <3>1. /\ shuffler' = shuffler /\ stream' = stream
          /\ outgoing' = [outgoing EXCEPT ![s] = all]
          /\ pc' = [pc EXCEPT ![s] = "handling"]
      BY <2>2 DEF Mix, incoming, kept, all
    <3>2. all \in Seq(Onion) /\ IsInjective(all)
      BY <1>1 DEF Sends
    <3>3. s = N
      BY <1>0, <2>2
    <3>4. Routes(s, index, got, all, own, shuffler[s])
      BY <1>1, <3>3, NotShuffled
    <3>5. shuffler' = [shuffler EXCEPT ![s] = shuffler[s]] /\ shuffler[s] \in Seq(Nat)
      BY <1>0, <3>1
    <3>6. QED BY <1>0, <2>2, <3>1, <3>2, <3>4, <3>5
  <2>3. QED BY <2>1, <2>2
<1>6. PICK sent, p :
         /\ sent \in Seq(Onion) /\ p \in Seq(Nat)
         /\ ToSet(sent) = ToSet(all) /\ IsInjective(sent)
         /\ Routes(s, index, got, sent, own, p)
         /\ outgoing' = [outgoing EXCEPT ![s] = sent]
         /\ shuffler' = [shuffler EXCEPT ![s] = p]
         /\ pc' = [pc EXCEPT ![s] = IF s < N THEN "adding" ELSE "handling"]
         /\ stream' \in [Callers -> Seq({"new", "open", "done", "error"})]
  BY <1>5
<1>7. /\ outgoing'[s] = sent /\ \A t \in 0 .. N : t # s => outgoing'[t] = outgoing[t] /\ pc'[t] = pc[t]
      /\ shuffler'[s] = p /\ \A t \in Servers : t # s => shuffler'[t] = shuffler[t]
      /\ pc'[s] \in {"adding", "handling"}
      /\ outgoing' \in [0 .. N -> Seq(Onion)] /\ shuffler' \in [Servers -> Seq(Nat)]
  BY <1>0, <1>6
<1>8. index \in Seq(Nat)
  BY <1>1 DEF Sends
<1>9. /\ st'[s].index = index
      /\ \A t \in Servers : /\ st'[t].replies = st[t].replies
                            /\ t # s => st'[t].index = st[t].index
      /\ st' \in [Servers -> StateType]
  <2>1. << >> \in Seq(Onion \cup {Nil})
    OBVIOUS
  <2> DEFINE new == [st[s] EXCEPT !.index = index, !.incoming = << >>]
  <2>2. st' = [st EXCEPT ![s] = new]
    BY <1>2
  <2>3. new.index = index /\ new.replies = st[s].replies /\ new \in StateType
    BY <1>0, <1>8, <2>1 DEF StateType
  <2> HIDE DEF new
  <2>4. QED BY <1>0, <2>2, <2>3
<1>10. Types'
  <2>1. pc' \in [0 .. N -> Stages]
    BY <1>0, <1>6 DEF Stages
  <2>2. QED BY <1>2, <1>6, <1>7, <1>9, <2>1 DEF Types
<1>11. Carried(s)'
  <2>1. /\ ToSet(sent) \subseteq Left(s)
        /\ \A o \in Left(s) : o.msg.mailbox # 0 => o \in ToSet(sent)
        /\ \A i, j \in DOMAIN sent : sent[i].msg.mailbox # 0 /\ sent[i] = sent[j] => i = j
    BY <1>0, <1>1, <1>4, <1>6, MixCarries
  <2>2. Left(s)' = Left(s)
    BY <1>2 DEF Left
  <2>3. QED BY <1>7, <2>1, <2>2 DEF Carried
<1>12. ASSUME NEW t \in 0 .. N, HasMixed(t)' PROVE Carried(t)'
  <2>1. CASE t = s
    BY <1>11, <2>1
  <2>2. CASE t # s
    <3>1. HasMixed(t)
      <4>1. CASE pc'[t] \in Mixing
        BY <1>7, <2>2, <4>1 DEF HasMixed
      <4>2. CASE t < N /\ pc'[t + 1] # "idle"
        <5>1. t + 1 \in 0 .. N
          BY <1>0, <4>2
        <5>2. pc[t + 1] # "idle"
          BY <1>2, <1>7, <4>2, <5>1
        <5>3. QED BY <4>2, <5>2 DEF HasMixed
      <4>3. QED BY <1>12, <4>1, <4>2 DEF HasMixed
    <3>2. Carried(t)
      BY <3>1 DEF Mixed
    <3>3. QED BY <1>2, <1>7, <2>2, <3>2, CarriedKept
  <2>3. QED BY <2>1, <2>2
<1>13. ASSUME NEW t \in Servers, pc'[t] \in Mixing \ {"failed"} PROVE Routed(t)'
  <2>1. CASE t = s
    BY <1>0, <1>2, <1>6, <1>7, <1>9, <2>1 DEF Routed
  <2>2. CASE t # s
    <3>1. pc[t] \in Mixing \ {"failed"}
      BY <1>0, <1>7, <1>13, <2>2
    <3>2. t < s /\ t - 1 \in 0 .. N /\ t - 1 # s /\ t \in 0 .. N
      <4>1. t < s
        BY <1>3, <3>1
      <4>2. t \in 1 .. N
        BY DEF Servers
      <4>3. QED BY <1>0, <4>1, <4>2
    <3>3. Routed(t)
      BY <3>1 DEF Mixed
    <3>4. QED BY <1>2, <1>7, <1>9, <2>2, <3>2, <3>3, RoutedKept
  <2>3. QED BY <2>1, <2>2
<1>14. ASSUME NEW t \in Servers, pc'[t] = "ok" /\ bidirectional'
       PROVE  Answers(outgoing'[t - 1], st'[t].replies)
  <2>1. t # s /\ pc[t] = "ok" /\ pc[t] \in Mixing /\ bidirectional
    BY <1>0, <1>2, <1>7, <1>14 DEF Mixing
  <2>2. t - 1 \in 0 .. N /\ t - 1 # s
    <3>1. t < s
      BY <1>3, <2>1
    <3>2. t \in 1 .. N
      BY DEF Servers
    <3>3. QED BY <1>0, <3>1, <3>2
  <2>3. Answers(outgoing[t - 1], st[t].replies)
    BY <2>1 DEF Mixed
  <2>4. QED BY <1>7, <1>9, <2>2, <2>3
<1>15. pc'[0] # "idle" => outgoing'[0] = batch'
  BY <1>0, <1>2, <1>7 DEF Mixed
<1>16. Mixed'
  BY <1>12, <1>13, <1>14, <1>15 DEF Mixed
<1>17. Done'
  BY <1>2, <1>3 DEF Done
<1>18. QED BY <1>10, <1>16, <1>17
-----------------------------------------------------------------------------
(***************************************************************************)
(* Messages that are handled, and replies.                                 *)
(***************************************************************************)

\* Nothing is no message.
LEMMA OnionFacts ==
    /\ \A o \in Onion : o.msg \in Message
    /\ \A m \in Message : m # Nil
<1>1. \A o \in Onion : o.msg \in Message
  BY DEF Onion
<1>2. \A m \in Message : m # Nil
  BY NilAssumption
<1>3. QED BY <1>1, <1>2

\* What is put into mailboxes: the messages that are not dummies, each where an onion is.
LEMMA DeliverableFacts ==
    ASSUME NEW onions \in Seq(Onion)
    PROVE  /\ Deliverable(onions) \in Seq(Message)
           /\ ToSet(Deliverable(onions)) = {o.msg : o \in {o \in ToSet(onions) : o.msg.mailbox # 0}}
           /\ (\A i, j \in DOMAIN onions :
                  onions[i].msg.mailbox # 0 /\ onions[i].msg = onions[j].msg => i = j)
              => IsInjective(Deliverable(onions))
<1> DEFINE msgs == [j \in DOMAIN onions |-> onions[j].msg]
           kept == {j \in DOMAIN onions : onions[j].msg.mailbox # 0}
           out == Appended(msgs, kept)
           c == Cardinality(kept)
<1>1. DOMAIN onions = 1 .. Len(onions) /\ Len(onions) \in Nat
  OBVIOUS
<1>2. \A j \in DOMAIN onions : onions[j] \in Onion /\ onions[j].msg \in Message
  <2>1. \A j \in DOMAIN onions : onions[j] \in Onion
    OBVIOUS
  <2>2. QED BY <2>1, OnionFacts
<1>3. msgs \in Seq(Message) /\ DOMAIN msgs = DOMAIN onions
  BY <1>1, <1>2
<1>4. \A j \in DOMAIN onions : msgs[j] = onions[j].msg
  OBVIOUS
<1>5. kept \in SUBSET (DOMAIN msgs)
  BY <1>3
<1>6. \A j : j \in kept <=> j \in DOMAIN onions /\ onions[j].msg.mailbox # 0
  OBVIOUS
<1>7. Deliverable(onions) = out
  BY DEF Deliverable
<1> HIDE DEF msgs, kept
<1>8. /\ c \in Nat /\ out \in [1 .. c -> Message]
      /\ \A i \in kept : Rank(kept, i) \in 1 .. c /\ out[Rank(kept, i)] = msgs[i]
      /\ \A k \in 1 .. c : \E i \in kept : Rank(kept, i) = k /\ out[k] = msgs[i]
  <2>1. c \in Nat
    BY <1>3, <1>5, AppendedFacts
  <2>2. out \in [1 .. c -> Message]
    BY <1>3, <1>5, AppendedFacts
  <2>3. \A i \in kept : Rank(kept, i) \in 1 .. c /\ out[Rank(kept, i)] = msgs[i]
    BY <1>3, <1>5, AppendedFacts
  <2>4. \A k \in 1 .. c : \E i \in kept : Rank(kept, i) = k /\ out[k] = msgs[i]
    BY <1>3, <1>5, AppendedFacts
  <2>5. QED BY <2>1, <2>2, <2>3, <2>4
<1> HIDE DEF out, c
<1>9. out \in Seq(Message) /\ DOMAIN out = 1 .. c
  BY <1>8
<1>10. ToSet(out) = {o.msg : o \in {o \in ToSet(onions) : o.msg.mailbox # 0}}
  <2>1. ASSUME NEW k \in 1 .. c
        PROVE  \E o \in ToSet(onions) : o.msg.mailbox # 0 /\ out[k] = o.msg
    <3>1. PICK i \in kept : out[k] = msgs[i]
      BY <1>8
    <3>2. onions[i] \in ToSet(onions)
      BY <1>6 DEF ToSet
    <3>3. QED BY <1>4, <1>6, <3>1, <3>2
  <2>2. ASSUME NEW o \in ToSet(onions), o.msg.mailbox # 0 PROVE \E k \in 1 .. c : out[k] = o.msg
    <3>1. PICK i \in DOMAIN onions : o = onions[i]
      BY DEF ToSet
    <3>2. i \in kept
      BY <1>6, <2>2, <3>1
    <3>3. QED BY <1>4, <1>8, <3>1, <3>2
  <2>3. ToSet(out) = {out[k] : k \in 1 .. c}
    BY <1>9 DEF ToSet
  <2>4. QED BY <2>1, <2>2, <2>3
<1>11. ASSUME \A i, j \in DOMAIN onions :
                 onions[i].msg.mailbox # 0 /\ onions[i].msg = onions[j].msg => i = j
       PROVE  IsInjective(out)
  <2> SUFFICES ASSUME NEW k \in 1 .. c, NEW l \in 1 .. c, out[k] = out[l] PROVE k = l
    BY <1>9 DEF IsInjective
  <2>1. PICK i \in kept : Rank(kept, i) = k /\ out[k] = msgs[i]
    BY <1>8
  <2>2. PICK j \in kept : Rank(kept, j) = l /\ out[l] = msgs[j]
    BY <1>8
  <2>3. i = j
    BY <1>4, <1>6, <1>11, <2>1, <2>2
  <2>4. QED BY <2>1, <2>2, <2>3
<1>12. QED BY <1>7, <1>9, <1>10, <1>11

\* The last server answers what it got: the reply to an onion is its message.
LEMMA LastAnswers ==
    ASSUME NEW got \in Seq(Onion), NEW sent \in Seq(Onion), NEW own \in Seq(Onion), NEW p,
           NEW index \in Seq(Nat), Routes(N, index, got, sent, own, p),
           NEW msgs, msgs = [j \in DOMAIN sent |-> sent[j].msg]
    PROVE  /\ SealReplies(index, msgs) \in Seq(Message \cup {Nil})
           /\ Answers(got, SealReplies(index, msgs))
<1> DEFINE r == SealReplies(index, msgs)
<1>0. N \in Nat /\ Len(index) = Len(got) /\ Len(got) \in Nat /\ Len(sent) \in Nat /\ Len(own) \in Nat
      /\ DOMAIN got = 1 .. Len(got) /\ DOMAIN sent = 1 .. Len(sent) /\ DOMAIN index = 1 .. Len(got)
  <2>1. N \in Nat /\ Len(index) = Len(got)
    BY Chain DEF Routes
  <2>2. /\ Len(got) \in Nat /\ Len(sent) \in Nat /\ Len(own) \in Nat
        /\ DOMAIN got = 1 .. Len(got) /\ DOMAIN sent = 1 .. Len(sent) /\ DOMAIN index = 1 .. Len(index)
    OBVIOUS
  <2>3. QED BY <2>1, <2>2
<1>1. /\ \A i \in DOMAIN index :
            /\ index[i] \in Nat
            /\ Survives(got, i) => index[i] # 0
            /\ index[i] # 0 => index[i] <= Len(sent) - Len(own) /\ sent[index[i]] = got[i]
      /\ \A i, j \in DOMAIN index : index[i] # 0 /\ index[j] # 0 /\ got[i] = got[j] => i = j
  BY DEF Routes
<1>2. \A i \in DOMAIN index : index[i] # 0 => index[i] \in DOMAIN sent /\ index[i] > 0
  BY <1>0, <1>1
<1>3. \A i \in DOMAIN got : got[i].msg \in Message /\ got[i].msg # Nil
  <2>1. \A i \in DOMAIN got : got[i] \in Onion
    OBVIOUS
  <2>2. QED BY <2>1, OnionFacts
<1>4. r = [i \in DOMAIN index |-> IF index[i] > 0 THEN msgs[index[i]] ELSE Nil]
  BY DEF SealReplies
<1>5. \A i \in DOMAIN index : /\ index[i] # 0 => r[i] = got[i].msg
                              /\ index[i] = 0 => r[i] = Nil
  <2> SUFFICES ASSUME NEW i \in DOMAIN index
               PROVE  (index[i] # 0 => r[i] = got[i].msg) /\ (index[i] = 0 => r[i] = Nil)
    OBVIOUS
  <2>1. r[i] = IF index[i] > 0 THEN msgs[index[i]] ELSE Nil
    BY <1>4
  <2>2. CASE index[i] = 0
    BY <2>1, <2>2
  <2>3. CASE index[i] # 0
    <3>1. index[i] \in DOMAIN sent /\ index[i] > 0 /\ sent[index[i]] = got[i]
      BY <1>1, <1>2, <2>3
    <3> DEFINE k == index[i]
    <3> HIDE DEF k, r
    <3>2. k \in DOMAIN sent /\ sent[k] = got[i] /\ r[i] = msgs[k]
      BY <2>1, <3>1 DEF k
    <3>3. msgs[k] = sent[k].msg
      BY <3>2
    <3>4. QED BY <2>3, <3>2, <3>3
  <2>4. QED BY <2>2, <2>3
<1>6. \A i \in DOMAIN index : r[i] \in {got[i].msg, Nil}
  BY <1>5
<1> HIDE DEF r
<1>7. r \in Seq(Message \cup {Nil}) /\ Len(r) = Len(got)
  <2> DEFINE n == Len(got)
  <2>1. r \in [1 .. n -> Message \cup {Nil}] /\ n \in Nat
    BY <1>0, <1>3, <1>4, <1>6
  <2> HIDE DEF n
  <2>2. r \in Seq(Message \cup {Nil}) /\ Len(r) = n
    BY <2>1
  <2>3. QED BY <2>2 DEF n
<1>8. Answers(got, r)
  <2>1. \A i \in DOMAIN got : r[i] \in {got[i].msg, Nil} /\ (Survives(got, i) => r[i] = got[i].msg)
    BY <1>0, <1>1, <1>5, <1>6
  <2>2. \A i, j \in DOMAIN got : r[i] # Nil /\ r[j] # Nil /\ got[i] = got[j] => i = j
    BY <1>0, <1>1, <1>5
  <2>3. QED BY <1>7, <2>1, <2>2 DEF Answers
<1>9. QED BY <1>7, <1>8 DEF r

\* A server that is not the last unshuffles the replies that it gets, and answers.
LEMMA UnshuffledAnswers ==
    ASSUME NEW c \in Servers, c < N,
           NEW got \in Seq(Onion), NEW sent \in Seq(Onion), NEW own \in Seq(Onion), NEW p \in Seq(Nat),
           NEW index \in Seq(Nat), Routes(c, index, got, sent, own, p),
           Once(sent),
           NEW msgs, Answers(sent, msgs)
    PROVE  /\ SealReplies(index, Restored(p, own, msgs)) \in Seq(Message \cup {Nil})
           /\ Answers(got, SealReplies(index, Restored(p, own, msgs)))
<1> DEFINE original == [k \in DOMAIN p |-> msgs[CHOOSE j \in DOMAIN p : p[j] = k]]
           back == Restored(p, own, msgs)
           n == Len(p) - Len(own)
           r == SealReplies(index, back)
<1>a. /\ original = [k \in DOMAIN p |-> msgs[CHOOSE j \in DOMAIN p : p[j] = k]]
      /\ back = SubSeq(original, 1, n)
  BY DEF Restored
<1> HIDE DEF original, back
<1>0. /\ N \in Nat /\ Len(index) = Len(got) /\ Len(p) = Len(sent)
      /\ Len(got) \in Nat /\ Len(sent) \in Nat /\ Len(own) \in Nat /\ n \in Int /\ n <= Len(p)
      /\ DOMAIN got = 1 .. Len(got) /\ DOMAIN sent = 1 .. Len(sent) /\ DOMAIN index = 1 .. Len(got)
      /\ DOMAIN p = DOMAIN sent
  <2>1. N \in Nat /\ Len(index) = Len(got) /\ Len(p) = Len(sent)
    BY Chain DEF Routes
  <2>2. /\ Len(got) \in Nat /\ Len(sent) \in Nat /\ Len(own) \in Nat
        /\ DOMAIN got = 1 .. Len(got) /\ DOMAIN sent = 1 .. Len(sent) /\ DOMAIN index = 1 .. Len(index)
        /\ DOMAIN p = 1 .. Len(p)
    OBVIOUS
  <2>3. QED BY <2>1, <2>2
<1>1. /\ \A i \in DOMAIN index :
            /\ Survives(got, i) => index[i] # 0
            /\ index[i] # 0 => /\ index[i] <= Len(sent) - Len(own)
                               /\ \E j \in DOMAIN sent : p[j] = index[i]
                               /\ \A j \in DOMAIN sent : p[j] = index[i] => sent[j] = got[i]
      /\ \A i, j \in DOMAIN index : index[i] # 0 /\ index[j] # 0 /\ got[i] = got[j] => i = j
  BY DEF Routes
<1>2. \A i \in DOMAIN index : index[i] # 0 => index[i] \in 1 .. n
  <2>1. \A i \in DOMAIN index : index[i] \in Nat
    OBVIOUS
  <2>2. QED BY <1>0, <1>1, <2>1
<1>3. \A k \in 1 .. n : back[k] = original[k]
  <2> DEFINE S == {original[k] : k \in DOMAIN p}
  <2>1. \A k \in 1 .. n : original[k] \in S
    <3>1. \A k \in 1 .. n : k \in DOMAIN p
      BY <1>0
    <3>2. QED BY <3>1
  <2> HIDE DEF S
  <2>2. 1 \in Int /\ n \in Int /\ back = SubSeq(original, 1, n)
    BY <1>0, <1>a
  <2> HIDE DEF n
  <2>3. \A k \in 1 .. n - 1 + 1 : SubSeq(original, 1, n)[k] = original[1 + k - 1]
    BY <2>1, <2>2, SubSeqProperties
  <2>4. \A k \in 1 .. n : k \in 1 .. n - 1 + 1 /\ 1 + k - 1 = k
    BY <2>2
  <2>5. QED BY <2>2, <2>3, <2>4
<1>4. ASSUME NEW i \in DOMAIN index, index[i] # 0
      PROVE  \E j \in DOMAIN sent : sent[j] = got[i] /\ r[i] = msgs[j]
  <2> DEFINE k == index[i]
             j == CHOOSE j \in DOMAIN p : p[j] = k
  <2>1. j \in DOMAIN p /\ p[j] = k
    BY <1>0, <1>1, <1>4
  <2>2. sent[j] = got[i]
    BY <1>0, <1>1, <1>4, <2>1
  <2>3. k \in 1 .. n /\ k \in DOMAIN p /\ k > 0
    <3>1. k \in 1 .. n
      BY <1>2, <1>4
    <3>2. QED BY <1>0, <3>1
  <2>4. original[k] = msgs[j]
    BY <1>a, <2>3
  <2>5. r[i] = back[k]
    BY <2>3 DEF SealReplies
  <2> HIDE DEF j, k, r, n
  <2>6. j \in DOMAIN sent
    BY <1>0, <2>1
  <2>7. r[i] = msgs[j]
    BY <1>3, <2>3, <2>4, <2>5
  <2>8. QED BY <2>2, <2>6, <2>7
<1>5. \A i \in DOMAIN index : index[i] = 0 => r[i] = Nil
  BY DEF SealReplies
<1>6. r = [i \in DOMAIN index |-> r[i]]
  BY DEF SealReplies
<1> HIDE DEF r, n
<1>7. \A j \in DOMAIN sent : /\ msgs[j] \in {sent[j].msg, Nil}
                             /\ Survives(sent, j) => msgs[j] = sent[j].msg
  BY DEF Answers
<1>8. \A i \in DOMAIN index : r[i] \in {got[i].msg, Nil}
  BY <1>4, <1>5, <1>7
<1>9. \A i \in DOMAIN got : Survives(got, i) => r[i] = got[i].msg
  <2> SUFFICES ASSUME NEW i \in DOMAIN got, Survives(got, i) PROVE r[i] = got[i].msg
    OBVIOUS
  <2>1. i \in DOMAIN index /\ index[i] # 0
    BY <1>0, <1>1
  <2>2. PICK j \in DOMAIN sent : sent[j] = got[i] /\ r[i] = msgs[j]
    BY <1>4, <2>1
  <2>3. sent[j].breaks > N /\ sent[j].msg.mailbox # 0
    BY <2>2 DEF Survives
  <2>4. ASSUME NEW k \in 1 .. j - 1 PROVE sent[k] # sent[j]
    <3>1. k \in DOMAIN sent /\ k # j
      BY <1>0
    <3>2. QED BY <2>3, <3>1 DEF Once
  <2>5. Survives(sent, j)
    BY <2>3, <2>4 DEF Survives
  <2>6. QED BY <1>7, <2>2, <2>5
<1>10. \A i, j \in DOMAIN got : r[i] # Nil /\ r[j] # Nil /\ got[i] = got[j] => i = j
  BY <1>0, <1>1, <1>5
<1>11. r \in Seq(Message \cup {Nil}) /\ Len(r) = Len(got)
  <2> DEFINE m == Len(got)
  <2>1. \A i \in DOMAIN got : got[i] \in Onion
    OBVIOUS
  <2>2. \A i \in DOMAIN index : r[i] \in Message \cup {Nil}
    BY <1>0, <1>8, <2>1, OnionFacts
  <2>3. r \in [1 .. m -> Message \cup {Nil}] /\ m \in Nat
    BY <1>0, <1>6, <2>2
  <2> HIDE DEF m
  <2>4. r \in Seq(Message \cup {Nil}) /\ Len(r) = m
    BY <2>3
  <2>5. QED BY <2>4 DEF m
<1>12. Answers(got, r)
  BY <1>0, <1>8, <1>9, <1>10, <1>11 DEF Answers
<1>13. QED BY <1>11, <1>12 DEF r, back

\* The messages of onions, by onion and not by position.
LEMMA MessagesFacts ==
    ASSUME NEW onions, NEW m
    PROVE  m \in Messages(onions) <=>
              \E o \in ToSet(onions) : o.breaks > N /\ o.msg.mailbox # 0 /\ m = o.msg
BY DEF Messages, ToSet

\* What the last server delivers: the messages of the batch, and the noise.
LEMMA DeliveredFacts ==
    ASSUME Types, NoiseFits, Carried(N),
           NEW out, out = Deliverable(outgoing[N])
    PROVE  /\ out \in Seq(Message) /\ out # Nil /\ IsInjective(out)
           /\ \A m : m \in ToSet(out) <=>
                 m \in Messages(batch) \/ \E s \in Servers : m \in Messages(noise[s])
           /\ {m \in ToSet(out) : ~IsNoise(m)} = Messages(batch)
<1> DEFINE sent == outgoing[N]
<1>0. /\ N \in Servers /\ N \in 0 .. N /\ N \in Nat /\ N > 0 /\ Servers = 1 .. N
      /\ sent \in Seq(Onion) /\ batch \in Batches
  BY Chain DEF Types, Servers
<1>1. /\ \A o \in ToSet(sent) : o \in Left(N)
      /\ \A o \in Left(N) : o.msg.mailbox # 0 => o \in ToSet(sent)
      /\ \A i, j \in DOMAIN sent : sent[i].msg.mailbox # 0 /\ sent[i] = sent[j] => i = j
  BY <1>0 DEF Carried
<1>2. /\ out \in Seq(Message)
      /\ ToSet(out) = {o.msg : o \in {o \in ToSet(sent) : o.msg.mailbox # 0}}
      /\ (\A i, j \in DOMAIN sent : sent[i].msg.mailbox # 0 /\ sent[i].msg = sent[j].msg => i = j)
         => IsInjective(out)
  BY <1>0, DeliverableFacts
<1>3. ASSUME NEW o \in Left(N)
      PROVE  /\ IsOnion(batch, o) /\ o.breaks > N
             /\ o \in ToSet(batch) \/ \E s \in Servers : o \in ToSet(noise[s])
  <2>1. CASE o \in ToSet(batch) /\ o.breaks > N
    BY <2>1 DEF IsOnion
  <2>2. CASE \E s \in 1 .. N : o \in ToSet(noise[s])
    <3>1. PICK s \in Servers : o \in ToSet(noise[s])
      BY <1>0, <2>2
    <3>2. IsNoiseOf(s, o)
      BY <3>1 DEF NoiseFits
    <3>3. o.breaks = N + 1
      BY <3>2, NoiseTells
    <3>4. QED BY <1>0, <3>1, <3>2, <3>3 DEF IsOnion
  <2>3. QED BY <2>1, <2>2 DEF Left
<1>4. ASSUME NEW s \in Servers, NEW o \in ToSet(noise[s]) PROVE o \in Left(N)
  BY <1>0 DEF Left
<1>5. IsInjective(out)
  <2>1. ASSUME NEW i \in DOMAIN sent, NEW j \in DOMAIN sent,
               sent[i].msg.mailbox # 0, sent[i].msg = sent[j].msg
        PROVE  i = j
    <3>1. IsOnion(batch, sent[i]) /\ IsOnion(batch, sent[j])
      BY <1>1, <1>3 DEF ToSet
    <3>2. sent[i] = sent[j]
      BY <1>0, <2>1, <3>1, KeyTells
    <3>3. QED BY <1>1, <2>1, <3>2
  <2>2. QED BY <1>2, <2>1
<1>6. \A m : m \in ToSet(out) <=> \E o \in Left(N) : o.msg.mailbox # 0 /\ m = o.msg
  BY <1>1, <1>2
<1> HIDE DEF sent
<1>7. ASSUME NEW m
      PROVE  m \in ToSet(out) <=>
                m \in Messages(batch) \/ \E s \in Servers : m \in Messages(noise[s])
  <2>1. ASSUME m \in ToSet(out)
        PROVE  m \in Messages(batch) \/ \E s \in Servers : m \in Messages(noise[s])
    <3>1. PICK o \in Left(N) : o.msg.mailbox # 0 /\ m = o.msg
      BY <1>6, <2>1
    <3>2. QED BY <1>3, <3>1, MessagesFacts
  <2>2. ASSUME m \in Messages(batch) PROVE m \in ToSet(out)
    <3>1. PICK o \in ToSet(batch) : o.breaks > N /\ o.msg.mailbox # 0 /\ m = o.msg
      BY <2>2, MessagesFacts
    <3>2. o \in Left(N)
      BY <3>1 DEF Left
    <3>3. QED BY <1>6, <3>1, <3>2
  <2>3. ASSUME NEW s \in Servers, m \in Messages(noise[s]) PROVE m \in ToSet(out)
    <3>1. PICK o \in ToSet(noise[s]) : o.breaks > N /\ o.msg.mailbox # 0 /\ m = o.msg
      BY <2>3, MessagesFacts
    <3>2. QED BY <1>4, <1>6, <3>1
  <2>4. QED BY <2>1, <2>2, <2>3
<1>8. ASSUME NEW m \in ToSet(out), ~IsNoise(m) PROVE m \in Messages(batch)
  <2>1. PICK o \in Left(N) : o.msg.mailbox # 0 /\ m = o.msg
    BY <1>6
  <2>2. o \in ToSet(batch)
    <3>1. IsOnion(batch, o) /\ batch \in Batches
      BY <1>0, <1>3
    <3>2. QED BY <1>8, <2>1, <3>1, KeyTells
  <2>3. QED BY <1>3, <2>1, <2>2, MessagesFacts
<1>9. ASSUME NEW m \in Messages(batch) PROVE ~IsNoise(m)
  <2>1. PICK o \in ToSet(batch) : m = o.msg
    BY MessagesFacts
  <2>2. Len(o.msg.tail) # 3
    BY <1>0, BatchFacts
  <2>3. QED BY <2>1, <2>2 DEF IsNoise
<1>10. out # Nil
  <2>1. out \in Seq(Message \cup {Nil})
    BY <1>2
  <2>2. QED BY <2>1, NilAssumption
<1>11. {m \in ToSet(out) : ~IsNoise(m)} = Messages(batch)
  BY <1>7, <1>8, <1>9
<1>12. QED BY <1>2, <1>5, <1>7, <1>10, <1>11

\* The last server handles the messages, and answers them.
LEMMA MessagesHandled ==
    ASSUME Types, InOrder, NoiseFits, Mixed, Done, HandleMessages
    PROVE  Types' /\ Mixed' /\ Done' /\ handled' # Nil
<1> DEFINE sent == outgoing[N]
           got == outgoing[N - 1]
           msgs == [j \in DOMAIN sent |-> sent[j].msg]
           answer == SealReplies(st[N].index, msgs)
           r == IF bidirectional THEN answer ELSE << >>
           new == [st[N] EXCEPT !.replies = r]
<1>0. /\ N \in Servers /\ N \in 0 .. N /\ N - 1 \in 0 .. N /\ N # 0 /\ Servers \subseteq 0 .. N
      /\ 0 \in 0 .. N /\ N \in Nat
      /\ pc \in [0 .. N -> Stages] /\ st \in [Servers -> StateType]
      /\ sent \in Seq(Onion) /\ got \in Seq(Onion) /\ noise[N] \in Seq(Onion)
      /\ st[N].index \in Seq(Nat) /\ bidirectional \in BOOLEAN
  <2>1. /\ N \in Servers /\ N \in 0 .. N /\ N - 1 \in 0 .. N /\ N # 0 /\ Servers \subseteq 0 .. N
        /\ 0 \in 0 .. N /\ N \in Nat
    <3>1. N \in Nat /\ N >= 1
      BY Chain
    <3>2. QED BY <3>1 DEF Servers
  <2>2. QED BY <2>1 DEF Types, StateType
<1>1. /\ pc[N] = "handling" /\ handled' = Deliverable(sent)
      /\ UNCHANGED <<bidirectional, batch, rounds, noise, outgoing, stream, shuffler, replies>>
      /\ st' = [st EXCEPT ![N] = new]
      /\ pc' = [pc EXCEPT ![N] = "ok"] \/ pc' = [pc EXCEPT ![N] = "failed"]
  BY DEF HandleMessages, setupVars
<1>2. pc[N] \in Mixing /\ pc[N] \in Mixing \ {"failed"}
  BY <1>1 DEF Mixing
<1>3. Carried(N) /\ Routed(N)
  BY <1>0, <1>2 DEF Mixed, HasMixed
<1>4. /\ handled' \in Seq(Message) /\ handled' # Nil
      /\ \A m : m \in ToSet(handled') <=>
            m \in Messages(batch) \/ \E s \in Servers : m \in Messages(noise[s])
  BY <1>1, <1>3, DeliveredFacts
<1>5. answer \in Seq(Message \cup {Nil}) /\ Answers(got, answer)
  BY <1>0, <1>3, LastAnswers DEF Routed
<1>6. r \in Seq(Message \cup {Nil}) /\ (bidirectional => r = answer)
  BY <1>5
<1> HIDE DEF answer, r, msgs
<1>7. new \in StateType /\ new.replies = r /\ new.index = st[N].index
  BY <1>0, <1>6 DEF StateType
<1> HIDE DEF new
<1>8. /\ st' \in [Servers -> StateType] /\ st'[N].replies = r /\ st'[N].index = st[N].index
      /\ \A s \in Servers : s # N => st'[s] = st[s]
  BY <1>0, <1>1, <1>7
<1>9. pc' \in [0 .. N -> Stages] /\ pc'[N] \in {"ok", "failed"}
      /\ \A s \in 0 .. N : s # N => pc'[s] = pc[s]
  BY <1>0, <1>1 DEF Stages
<1>10. Types'
  BY <1>1, <1>4, <1>8, <1>9 DEF Types
<1>11. ASSUME NEW s \in 0 .. N, HasMixed(s)' PROVE Carried(s)'
  <2>1. HasMixed(s)
    <3>1. CASE pc'[s] \in Mixing
      BY <1>2, <1>9, <3>1 DEF HasMixed
    <3>2. CASE s < N /\ pc'[s + 1] # "idle"
      <4>1. s + 1 \in 0 .. N
        BY <1>0, <3>2
      <4>2. pc[s + 1] # "idle"
        BY <1>1, <1>9, <3>2, <4>1
      <4>3. QED BY <3>2, <4>2 DEF HasMixed
    <3>3. QED BY <1>11, <3>1, <3>2 DEF HasMixed
  <2>2. QED BY <1>1, <2>1, CarriedKept DEF Mixed
<1>12. ASSUME NEW s \in Servers, pc'[s] \in Mixing \ {"failed"} PROVE Routed(s)'
  <2>1. pc[s] \in Mixing \ {"failed"}
    BY <1>0, <1>2, <1>9, <1>12
  <2>2. Routed(s) /\ st'[s].index = st[s].index
    BY <1>8, <2>1 DEF Mixed
  <2>3. QED BY <1>1, <2>2, RoutedKept
<1>13. ASSUME NEW s \in Servers, pc'[s] = "ok" /\ bidirectional'
       PROVE  Answers(outgoing'[s - 1], st'[s].replies)
  <2>1. CASE s = N
    BY <1>1, <1>5, <1>6, <1>8, <1>13, <2>1
  <2>2. CASE s # N
    BY <1>0, <1>1, <1>8, <1>9, <1>13, <2>2 DEF Mixed
  <2>3. QED BY <2>1, <2>2
<1>14. pc'[0] # "idle" => outgoing'[0] = batch'
  BY <1>0, <1>1, <1>9 DEF Mixed
<1>15. Mixed'
  BY <1>11, <1>12, <1>13, <1>14 DEF Mixed
<1>16. Done'
  <2>1. \A m : m \in ToSet(handled') <=>
           m \in Messages(batch)' \/ \E s \in Servers : m \in Messages(noise[s])'
    BY <1>1, <1>4 DEF Messages
  <2>2. replies' # Nil => Answers(batch', replies')
    BY <1>1 DEF Done
  <2>3. QED BY <2>1, <2>2 DEF Done
<1>17. QED BY <1>4, <1>10, <1>15, <1>16

\* A caller has the replies: a server undoes what it has done, the coordinator is done.
LEMMA RepliesFetched ==
    ASSUME Types, InOrder, NoiseFits, Mixed, Done, NEW c \in Callers, GetOnions(c)
    PROVE  Types' /\ Mixed' /\ Done'
<1>0. /\ N \in Nat /\ Servers \subseteq 0 .. N /\ Callers \subseteq 0 .. N
      /\ c \in 0 .. N /\ c + 1 \in 0 .. N /\ c + 1 \in Servers /\ c + 1 # c /\ c < N /\ 0 \in 0 .. N
      /\ (c + 1) - 1 = c /\ (c # 0 => c \in Servers /\ c - 1 \in 0 .. N /\ c - 1 # c)
      /\ pc \in [0 .. N -> Stages] /\ st \in [Servers -> StateType] /\ batch \in Batches
  <2>1. c \in 0 .. N - 1 /\ N \in Nat
    BY Chain DEF Callers
  <2>2. QED BY <2>1 DEF Types, Servers, Callers
<1>1. /\ pc[c] = "fetching" /\ bidirectional
      /\ UNCHANGED <<bidirectional, batch, rounds, noise, outgoing, stream, shuffler, handled>>
      /\ c + 1 \in rounds => pc[c + 1] = "ok"
      /\ pc' = [pc EXCEPT ![c] = "ok"] \/ pc' = [pc EXCEPT ![c] = "failed"]
  BY <1>0 DEF GetOnions, EndCall, setupVars, InOrder
<1>2. pc' \in [0 .. N -> Stages] /\ pc'[c] \in {"ok", "failed"}
      /\ \A s \in 0 .. N : s # c => pc'[s] = pc[s]
  BY <1>0, <1>1 DEF Stages
<1>3. pc[c] \in Mixing /\ pc[c] \in Mixing \ {"failed"}
  BY <1>1 DEF Mixing
<1>4. ASSUME c + 1 \notin rounds PROVE Types' /\ Mixed' /\ Done'
  <2>1. pc'[c] = "failed" /\ UNCHANGED <<st, replies>>
    BY <1>0, <1>2, <1>4 DEF GetOnions, EndCall
  <2>2. Types'
    BY <1>1, <1>2, <2>1 DEF Types
  <2>3. Calm
    BY <1>0, <1>1, <1>2, <1>3, <2>1 DEF Calm
  <2>4. QED BY <2>1, <2>2, <2>3, CalmMixed
<1>5. ASSUME c + 1 \in rounds
      PROVE  st[c + 1].replies \in Seq(Message \cup {Nil}) /\ Answers(outgoing[c], st[c + 1].replies)
  <2>1. st[c + 1].replies \in Seq(Message \cup {Nil})
    BY <1>0 DEF StateType
  <2>2. Answers(outgoing[(c + 1) - 1], st[c + 1].replies)
    BY <1>0, <1>1, <1>5 DEF Mixed
  <2>3. QED BY <1>0, <2>1, <2>2
<1>6. ASSUME c + 1 \in rounds, c = 0 PROVE Types' /\ Mixed' /\ Done'
  <2>1. replies' = st[c + 1].replies /\ st' = st
    BY <1>6 DEF GetOnions
  <2>2. Types'
    BY <1>1, <1>2, <1>5, <1>6, <2>1 DEF Types
  <2>3. \A s \in Servers : s # c
    BY <1>6 DEF Servers
  <2>4. Calm
    BY <1>0, <1>1, <1>2, <1>3, <2>1, <2>3 DEF Calm
  <2>5. outgoing[c] = batch
    BY <1>1, <1>6 DEF Mixed
  <2>6. Done'
    <3>1. handled' # Nil => \A m : m \in ToSet(handled') <=>
             m \in Messages(batch)' \/ \E s \in Servers : m \in Messages(noise[s])'
      BY <1>1 DEF Done, Messages
    <3>2. Answers(batch', replies')
      BY <1>1, <1>5, <1>6, <2>1, <2>5
    <3>3. QED BY <3>1, <3>2 DEF Done
  <2>7. QED BY <2>2, <2>4, <2>6, CalmMixed
<1>7. ASSUME c + 1 \in rounds, c # 0 PROVE Types' /\ Mixed' /\ Done'
  <2> DEFINE msgs == st[c + 1].replies
             p == shuffler[c]
             r == SealReplies(st[c].index, Restored(p, noise[c], msgs))
             new == [st[c] EXCEPT !.replies = r]
  <2>1. c \in Servers /\ c - 1 \in 0 .. N /\ c - 1 # c
    BY <1>0, <1>7
  <2>2. st' = [st EXCEPT ![c] = new] /\ UNCHANGED replies
    BY <1>7 DEF GetOnions, Unshuffle, Restored
  <2>3. Routed(c) /\ Carried(c)
    BY <1>0, <1>3, <2>1 DEF Mixed, HasMixed
  <2>4. /\ \A i, j \in DOMAIN outgoing[c] :
              outgoing[c][i].msg.mailbox # 0 /\ outgoing[c][i] = outgoing[c][j] => i = j
    <3>1. c > 0
      BY <2>1 DEF Servers
    <3>2. QED BY <2>3, <3>1 DEF Carried
  <2>5. /\ outgoing[c] \in Seq(Onion) /\ outgoing[c - 1] \in Seq(Onion) /\ noise[c] \in Seq(Onion)
        /\ p \in Seq(Nat) /\ st[c].index \in Seq(Nat)
    BY <1>0, <2>1 DEF Types, StateType
  <2>6. r \in Seq(Message \cup {Nil}) /\ Answers(outgoing[c - 1], r)
    <3>1. Routes(c, st[c].index, outgoing[c - 1], outgoing[c], noise[c], p)
      BY <2>3 DEF Routed
    <3>2. Answers(outgoing[c], msgs)
      BY <1>5, <1>7
    <3> HIDE DEF p, msgs
    <3>3. Once(outgoing[c])
      BY <2>4 DEF Once
    <3>4. QED BY <1>0, <2>1, <2>5, <3>1, <3>2, <3>3, UnshuffledAnswers
  <2> HIDE DEF r
  <2>7. new \in StateType /\ new.replies = r /\ new.index = st[c].index
    BY <1>0, <2>1, <2>6 DEF StateType
  <2> HIDE DEF new
  <2>8. /\ st' \in [Servers -> StateType] /\ st'[c].replies = r /\ st'[c].index = st[c].index
        /\ \A s \in Servers : s # c => st'[s] = st[s]
    BY <1>0, <2>1, <2>2, <2>7
  <2>9. Types'
    BY <1>1, <1>2, <2>2, <2>8 DEF Types
  <2>10. ASSUME NEW s \in 0 .. N, HasMixed(s)' PROVE Carried(s)'
    <3>1. HasMixed(s)
      <4>1. CASE pc'[s] \in Mixing
        BY <1>2, <1>3, <4>1 DEF HasMixed
      <4>2. CASE s < N /\ pc'[s + 1] # "idle"
        <5>1. s + 1 \in 0 .. N
          BY <1>0, <4>2
        <5>2. pc[s + 1] # "idle"
          BY <1>1, <1>2, <4>2, <5>1
        <5>3. QED BY <4>2, <5>2 DEF HasMixed
      <4>3. QED BY <2>10, <4>1, <4>2 DEF HasMixed
    <3>2. QED BY <1>1, <3>1, CarriedKept DEF Mixed
  <2>11. ASSUME NEW s \in Servers, pc'[s] \in Mixing \ {"failed"} PROVE Routed(s)'
    <3>1. pc[s] \in Mixing \ {"failed"}
      BY <1>0, <1>2, <1>3, <2>11
    <3>2. Routed(s) /\ st'[s].index = st[s].index
      BY <2>8, <3>1 DEF Mixed
    <3>3. QED BY <1>1, <3>2, RoutedKept
  <2>12. ASSUME NEW s \in Servers, pc'[s] = "ok" /\ bidirectional'
         PROVE  Answers(outgoing'[s - 1], st'[s].replies)
    <3>1. CASE s = c
      BY <1>1, <2>6, <2>8, <3>1
    <3>2. CASE s # c
      BY <1>0, <1>1, <1>2, <2>8, <2>12, <3>2 DEF Mixed
    <3>3. QED BY <3>1, <3>2
  <2>13. pc'[0] # "idle" => outgoing'[0] = batch'
    BY <1>0, <1>1, <1>2, <1>7 DEF Mixed
  <2>14. Mixed'
    BY <2>10, <2>11, <2>12, <2>13 DEF Mixed
  <2>15. Done'
    BY <1>1, <2>2 DEF Done, Messages
  <2>16. QED BY <2>9, <2>14, <2>15
<1>8. QED BY <1>4, <1>6, <1>7

\* The invariant holds at first.
LEMMA InitIInv == Init => IInv
<1> SUFFICES ASSUME Init PROVE IInv
  OBVIOUS
<1>0. N \in Nat /\ 0 \in 0 .. N /\ N \in 0 .. N
  BY Chain
<1>1. NewState \in StateType
  BY DEF NewState, StateType
<1>2. Types
  BY <1>1 DEF Types, Init, Stages
<1>3. CallTypes
  BY MixnetAssumption DEF CallTypes, Init
<1>4. InOrder
  BY <1>0 DEF InOrder, Init, Callers
<1>5. \A s \in 0 .. N : pc[s] = "idle"
  BY DEF Init
<1>6. NoiseFits
  <2> SUFFICES ASSUME NEW s \in Servers
               PROVE  /\ pc[s] \notin Mixing /\ pc[s] # "lost"
                      /\ \A o \in ToSet(noise[s]) : IsNoiseOf(s, o)
                      /\ IsInjective(noise[s])
    BY DEF NoiseFits
  <2>1. pc[s] \notin Mixing /\ pc[s] # "lost"
    BY <1>5, Chain DEF Mixing
  <2>2. noise[s] = << >>
    BY DEF Init
  <2>3. QED BY <2>1, <2>2 DEF ToSet, IsInjective
<1>7. \A c \in Callers : Added(c)
  <2> SUFFICES ASSUME NEW c \in Callers PROVE Added(c)
    OBVIOUS
  <2>1. st[c + 1] = NewState /\ pc[c] = "idle" /\ pc[c + 1] = "idle"
    BY <1>5, Chain DEF Init
  <2>2. QED BY <2>1 DEF Added, NewState
<1>8. Mixed
  <2>1. \A s \in 0 .. N : ~HasMixed(s)
    BY <1>0, <1>5 DEF HasMixed, Mixing
  <2>2. \A s \in Servers : pc[s] \notin Mixing /\ pc[s] # "ok"
    BY <1>5, Chain DEF Mixing
  <2>3. QED BY <1>0, <1>5, <2>1, <2>2 DEF Mixed
<1>9. Done
  BY DEF Done, Init
<1>10. QED BY <1>2, <1>3, <1>4, <1>6, <1>7, <1>8, <1>9 DEF IInv

\* Every step is one of those above.
LEMMA NextTypes ==
    ASSUME IInv, Next
    PROVE  Types' /\ InOrder' /\ Mixed' /\ Done'
<1>0. /\ Types /\ InOrder /\ NoiseFits /\ Mixed /\ Done
      /\ \A s \in Servers : Added(s - 1)
  BY Chain DEF IInv
<1>1. CASE HandleMessages
  BY <1>0, <1>1, MessagesHandled, HandlingOrder
<1>2. ASSUME NEW c \in Callers, GetOnions(c)
      PROVE  Types' /\ InOrder' /\ Mixed' /\ Done'
  BY <1>0, <1>2, RepliesFetched, CallerOrder DEF CallerStep
<1>3. ASSUME NEW s \in Servers, Mix(s)
      PROVE  Types' /\ InOrder' /\ Mixed' /\ Done'
  BY <1>0, <1>3, MixMoves, ServerOrder DEF ServerStep
<1>4. ASSUME ~HandleMessages, \A c \in Callers : ~GetOnions(c), \A s \in Servers : ~Mix(s)
      PROVE  Types' /\ InOrder' /\ Mixed' /\ Done'
  <2>1. Types' /\ InOrder'
    <3>1. CASE Setup
      BY <1>0, <3>1, SetupTypes, SetupOrder
    <3>2. CASE RunRound
      BY <1>0, <3>2, OtherTypes, SetupOrder
    <3>3. ASSUME NEW c \in Callers, CallerStep(c) PROVE Types' /\ InOrder'
      <4>1. \/ \E i \in DOMAIN stream[c] : AddOnions(c, i) \/ ReceiveOnion(c, i)
            \/ OnionsAdded(c) \/ RoundClosed(c)
        BY <1>4, <3>3 DEF CallerStep
      <4>2. QED BY <1>0, <3>3, <4>1, CallerTypes, CallerOrder
    <3>4. ASSUME NEW s \in Servers, ServerStep(s) PROVE Types' /\ InOrder'
      <4>1. \/ \E i \in st[s].jobs : decryptionWorker(s, i)
            \/ CloseRound(s) \/ encryptReplies(s) \/ DeleteRound(s)
        BY <1>4, <3>4 DEF ServerStep
      <4>2. QED BY <1>0, <3>4, <4>1, ServerTypes, ServerOrder
    <3>5. ASSUME NEW s \in Servers, SetupFails(s) \/ DeleteFails(s) \/ Restart(s)
          PROVE  Types' /\ InOrder'
      BY <1>0, <3>5, ServerTypes, ServerOrder, SetupOrder
    <3>6. ASSUME NEW c \in Callers, CallFails(c) PROVE Types' /\ InOrder'
      BY <1>0, <3>6, CallerTypes, CallerOrder
    <3>7. CASE HandleMessagesFails
      BY <1>0, <3>7, OtherTypes, HandlingOrder, <1>4
    <3>8. QED BY <1>4, <3>1, <3>2, <3>3, <3>4, <3>5, <3>6, <3>7 DEF Next, Failure
  <2>2. Mixed' /\ Done'
    <3>1. CASE Moves
      <4>1. CASE RunRound
        BY <1>0, <4>1, RoundRun
      <4>2. ASSUME NEW s \in Servers, NEW counts \in NoiseCounts, GenerateNoise(s, counts)
            PROVE  Mixed' /\ Done'
        BY <1>0, <4>2, NoiseMade
      <4>3. QED BY <1>4, <3>1, <4>1, <4>2 DEF Moves
    <3>2. CASE ~Moves
      BY <1>0, <3>2, CalmSteps, CalmMixed
    <3>3. QED BY <3>1, <3>2
  <2>3. QED BY <2>1, <2>2
<1>5. QED BY <1>1, <1>2, <1>3, <1>4

\* A step keeps the invariant.
LEMMA NextIInv == ASSUME IInv, Next PROVE IInv'
<1>1. Types' /\ InOrder' /\ Mixed' /\ Done'
  BY NextTypes
<1>2. CallTypes' /\ NoiseFits'
  BY CallsStep, NoiseStep DEF IInv
<1>3. ASSUME NEW c \in Callers PROVE Added(c)'
  <2>1. Types /\ InOrder /\ Added(c)
    BY DEF IInv
  <2>2. CASE Adds(c)
    BY <2>1, <2>2, AddedStep
  <2>3. CASE ~Adds(c)
    BY <2>1, <2>3, UntouchedSteps, AddedKept
  <2>4. QED BY <2>2, <2>3
<1>4. QED BY <1>1, <1>2, <1>3 DEF IInv

\* So does a step of nobody.
LEMMA StutterIInv == ASSUME IInv, UNCHANGED vars PROVE IInv'
<1> USE DEF vars, setupVars, endVars
<1>1. Types' /\ CallTypes'
  BY DEF IInv, Types, CallTypes
<1>2. InOrder' /\ NoiseFits'
  BY DEF IInv, InOrder, NoiseFits
<1>3. \A c \in Callers : Added(c)'
  BY DEF IInv, Added, InPlace
<1>4. Mixed'
  BY DEF IInv, Mixed, HasMixed, Carried, Left, Routed
<1>5. Done'
  BY DEF IInv, Done, Messages
<1>6. QED BY <1>1, <1>2, <1>3, <1>4, <1>5 DEF IInv

\* The invariant holds of every chain, batch and noise.
THEOREM IInvHolds == Spec => []IInv
<1>1. IInv /\ [Next]_vars => IInv'
  BY NextIInv, StutterIInv
<1>2. QED BY <1>1, InitIInv, PTL DEF Spec
-----------------------------------------------------------------------------
(***************************************************************************)
(* The properties.                                                         *)
(***************************************************************************)

\* Jobs are positions of the batch that comes in, calls and failures are within their bounds.
THEOREM TypeCorrect == Spec => []TypeOK
<1>1. IInv => TypeOK
  <2> SUFFICES ASSUME IInv PROVE TypeOK
    OBVIOUS
  <2>1. ASSUME NEW s \in Servers PROVE st[s].jobs \subseteq DOMAIN st[s].incoming
    <3>1. Added(s - 1) /\ (s - 1) + 1 = s
      BY Chain DEF IInv, Servers
    <3>2. QED BY <3>1 DEF Added
  <2>2. QED BY <2>1 DEF IInv, Types, CallTypes, TypeOK, Stages
<1>2. QED BY <1>1, IInvHolds, PTL

\* When the messages are handled, the noise of every server of the chain is among them: no
\* server could mix before its noise was made, and what it mixed was not dropped later.
THEOREM NoiseHides == Spec => []NoiseIsIncluded
<1>1. IInv => NoiseIsIncluded
  <2> SUFFICES ASSUME IInv, handled # Nil, NEW s \in Servers
               PROVE  /\ st[s].noiseDone = "closed" \/ pc[s] = "lost"
                      /\ Messages(noise[s]) \subseteq ToSet(handled)
    BY DEF NoiseIsIncluded
  <2>1. pc[N] \notin {"idle", "draining", "handling"}
    BY DEF IInv, InOrder
  <2>2. pc[s] \notin {"idle", "draining"}
    <3>1. CASE s = N
      BY <2>1, <3>1
    <3>2. CASE s # N
      <4>1. s \in 0 .. N /\ N \in 0 .. N /\ s < N
        BY <3>2, Chain DEF Servers
      <4>2. QED BY <2>1, <4>1 DEF IInv, InOrder
    <3>3. QED BY <3>1, <3>2
  <2>3. pc[s] \in Mixing \cup {"lost"}
    BY <2>2, Chain DEF IInv, Types, Stages, Mixing
  <2>4. st[s].noiseDone = "closed" \/ pc[s] = "lost"
    BY <2>3 DEF IInv, NoiseFits
  <2>5. Messages(noise[s]) \subseteq ToSet(handled)
    BY DEF IInv, Done
  <2>6. QED BY <2>4, <2>5
<1>2. QED BY <1>1, IInvHolds, PTL

\* Among the positions of a message in the batch, one is answered.
LEMMA OneAnswer ==
    ASSUME Types, replies # Nil, Answers(batch, replies), NEW m \in Messages(batch)
    PROVE  \E i \in DOMAIN batch : {j \in DOMAIN batch : replies[j] = m} = {i}
<1>0. batch \in Batches /\ batch \in Seq(Onion)
  BY BatchAssumption DEF Types
<1> DEFINE S == {i \in DOMAIN batch :
                   batch[i].breaks > N /\ batch[i].msg.mailbox # 0 /\ batch[i].msg = m}
<1>1. S \subseteq Nat /\ S # {}
  BY <1>0 DEF Messages
<1>2. PICK i \in S : \A j \in S : i <= j
  <2> HIDE DEF S
  <2>1. QED BY <1>1, Least
<1>3. /\ i \in DOMAIN batch /\ batch[i].breaks > N /\ batch[i].msg.mailbox # 0 /\ batch[i].msg = m
      /\ i \in Nat
  BY <1>1, <1>2
<1>4. ASSUME NEW j \in 1 .. i - 1 PROVE batch[j] # batch[i]
  <2>1. j \in DOMAIN batch /\ ~(i <= j)
    BY <1>0, <1>3
  <2>2. j \notin S
    BY <1>2, <2>1
  <2>3. QED BY <1>3, <2>1, <2>2
<1> HIDE DEF S
<1>5. Survives(batch, i)
  BY <1>3, <1>4 DEF Survives
<1>6. replies[i] = m
  BY <1>3, <1>5 DEF Answers
<1>7. m # Nil
  <2>1. batch[i] \in Onion
    BY <1>0, <1>3
  <2>2. QED BY <1>3, <2>1, OnionFacts
<1>8. ASSUME NEW j \in DOMAIN batch, replies[j] = m PROVE j = i
  <2>1. batch[j].msg = m
    BY <1>7, <1>8 DEF Answers
  <2>2. batch[i] \in ToSet(batch) /\ batch[j] \in ToSet(batch)
    BY <1>3 DEF ToSet
  <2>3. batch[i] = batch[j]
    BY <1>0, <1>3, <2>1, <2>2, BatchFacts
  <2>4. QED BY <1>3, <1>6, <1>7, <1>8, <2>3 DEF Answers
<1>9. QED BY <1>3, <1>6, <1>8

\* The replies come back in the order of the batch, one for each message that arrived: each
\* server undoes its own shuffle and filtering.
THEOREM RepliesFindSenders == Spec => []RepliesMatch
<1>1. IInv => RepliesMatch
  <2> SUFFICES ASSUME IInv, replies # Nil
               PROVE  /\ Len(replies) = Len(batch)
                      /\ \A i \in DOMAIN batch : replies[i] \in {batch[i].msg, Nil}
                      /\ \A m \in Messages(batch) :
                            Cardinality({i \in DOMAIN batch : replies[i] = m}) = 1
    BY DEF RepliesMatch
  <2>1. Types /\ Answers(batch, replies)
    BY DEF IInv, Done
  <2>2. ASSUME NEW m \in Messages(batch)
        PROVE  Cardinality({i \in DOMAIN batch : replies[i] = m}) = 1
    <3>1. PICK i : {j \in DOMAIN batch : replies[j] = m} = {i}
      BY <2>1, OneAnswer
    <3>2. QED BY <3>1, FS_Singleton
  <2>3. QED BY <2>1, <2>2 DEF Answers
<1>2. QED BY <1>1, IInvHolds, PTL

\* What the coordinator does but to begin the round.
LEMMA CoordinatorSteps ==
    ASSUME Types, InOrder, Next, ~RunRound, ~HandleMessages
    PROVE  /\ handled' = handled /\ batch' = batch
           /\ pc[0] \in {"idle", "ok", "failed"} => pc'[0] = pc[0]
           /\ pc[0] # "idle" => pc'[0] # "idle"
<1>0. /\ N \in Nat /\ N # 0 /\ 0 \in 0 .. N
      /\ \A s \in Servers : s # 0 /\ s \in Nat /\ s \in 0 .. N /\ s - 1 \in 0 .. N
      /\ pc \in [0 .. N -> Stages] /\ Callers \subseteq 0 .. N
  <2>1. N \in Nat /\ N >= 1
    BY Chain
  <2>2. QED BY <2>1 DEF Types, Servers, Callers
<1> DEFINE Goal == /\ handled' = handled /\ batch' = batch
                   /\ pc[0] \in {"idle", "ok", "failed"} => pc'[0] = pc[0]
                   /\ pc[0] # "idle" => pc'[0] # "idle"
<1>1. CASE Setup
  BY <1>1 DEF Setup, NewRound, SetRoundSettings, GenerateNoise, SetupAnswered
<1>2. ASSUME NEW c \in Callers, CallerStep(c) PROVE Goal
  <2>1. CASE \E i \in DOMAIN stream[c] : AddOnions(c, i) \/ ReceiveOnion(c, i)
    BY <2>1 DEF AddOnions, ReceiveOnion
  <2>2. CASE OnionsAdded(c)
    BY <1>0, <2>2 DEF OnionsAdded, EndCall
  <2>3. CASE RoundClosed(c)
    BY <1>0, <2>3 DEF RoundClosed, EndCall
  <2>4. CASE GetOnions(c)
    BY <1>0, <2>4 DEF GetOnions, EndCall
  <2>5. QED BY <1>2, <2>1, <2>2, <2>3, <2>4 DEF CallerStep
<1>3. ASSUME NEW s \in Servers, ServerStep(s) PROVE Goal
  <2>1. CASE \E i \in st[s].jobs : decryptionWorker(s, i)
    BY <2>1 DEF decryptionWorker
  <2>2. CASE CloseRound(s)
    BY <1>0, <2>2 DEF CloseRound
  <2>3. CASE Mix(s)
    BY <1>0, <2>3 DEF Mix
  <2>4. CASE encryptReplies(s) \/ DeleteRound(s)
    BY <2>4 DEF encryptReplies, DeleteRound
  <2>5. QED BY <1>3, <2>1, <2>2, <2>3, <2>4 DEF ServerStep
<1>4. ASSUME NEW s \in Servers, SetupFails(s) \/ DeleteFails(s) PROVE Goal
  BY <1>4 DEF SetupFails, DeleteFails
<1>5. ASSUME NEW s \in Servers, Restart(s) PROVE Goal
  BY <1>0, <1>5 DEF Restart
<1>6. ASSUME NEW c \in Callers, CallFails(c) PROVE Goal
  BY <1>0, <1>6 DEF CallFails, EndCall
<1>7. CASE HandleMessagesFails
  BY <1>0, <1>7 DEF HandleMessagesFails
<1>8. QED BY <1>1, <1>2, <1>3, <1>4, <1>5, <1>6, <1>7 DEF Next, Failure

\* Every step of the mixnet is one of MixRound, or none.
LEMMA PromiseStep ==
    ASSUME IInv, [Next]_vars
    PROVE  [Promise!Next]_(Promise!roundVars)
<1> USE DEF Promise!roundVars
<1>0. Types /\ InOrder /\ NoiseFits /\ Mixed /\ 0 \in 0 .. N /\ N \in 0 .. N /\ N > 0 /\ 0 \in Callers
      /\ pc \in [0 .. N -> Stages]
  <2>1. N \in Nat /\ N >= 1 /\ 0 \in Callers
    BY Chain
  <2>2. QED BY <2>1 DEF IInv, Types
<1>1. CASE RunRound
  <2>1. pc[0] = "idle" /\ pc'[0] = "adding" /\ handled' = handled
    BY <1>0, <1>1 DEF RunRound
  <2>2. Promise!Start
    BY <2>1 DEF Promise!Start
  <2>3. QED BY <2>2 DEF Promise!Next
<1>2. CASE HandleMessages
  <2>1. /\ pc[N] = "handling" /\ handled' = Deliverable(outgoing[N]) /\ batch' = batch
        /\ pc'[0] = pc[0]
    BY <1>0, <1>2 DEF HandleMessages
  <2>2. handled = Nil
    BY <1>0, <2>1 DEF InOrder
  <2>3. pc[0] \notin {"idle", "ok"}
    BY <1>0, <2>1, <2>2 DEF InOrder
  <2>4. Carried(N)
    BY <1>0, <2>1 DEF Mixed, HasMixed, Mixing
  <2>5. /\ handled' # Nil /\ IsInjective(handled')
        /\ {m \in ToSet(handled') : ~IsNoise(m)} = Messages(batch)
    BY <1>0, <2>1, <2>4, DeliveredFacts
  <2>6. Promise!Handle
    <3>1. (IF pc[0] \in {"ok", "failed"} THEN pc[0]
           ELSE IF pc[0] = "idle" THEN "new" ELSE "mixing") \in {"mixing", "failed"}
      BY <2>3
    <3>2. {m \in ToSet(handled') : ~IsNoise(m)} = Messages(batch)
      BY <2>5
    <3>3. QED BY <2>1, <2>2, <2>5, <3>1, <3>2
      DEF Promise!Handle, Promise!ToSet, ToSet, Promise!IsInjective, IsInjective
  <2>7. QED BY <2>6 DEF Promise!Next
<1>3. CASE Next /\ ~RunRound /\ ~HandleMessages
  <2>1. /\ handled' = handled /\ batch' = batch
        /\ pc[0] \in {"idle", "ok", "failed"} => pc'[0] = pc[0]
        /\ pc[0] # "idle" => pc'[0] # "idle"
    BY <1>0, <1>3, CoordinatorSteps
  <2>2. pc'[0] = "ok" => handled' # Nil
    <3>1. InOrder'
      BY <1>3, NextTypes
    <3>2. QED BY <1>0, <3>1 DEF InOrder
  <2>3. CASE pc[0] \in {"idle", "ok", "failed"} \/ pc'[0] \notin {"ok", "failed"}
    BY <2>1, <2>3
  <2>4. CASE pc[0] \notin {"idle", "ok", "failed"} /\ pc'[0] = "ok"
    <3>1. Promise!Succeed
      BY <2>1, <2>2, <2>4 DEF Promise!Succeed
    <3>2. QED BY <3>1 DEF Promise!Next
  <2>5. CASE pc[0] \notin {"idle", "ok", "failed"} /\ pc'[0] = "failed"
    <3>1. Promise!GiveUp
      BY <2>1, <2>5 DEF Promise!GiveUp
    <3>2. QED BY <3>1 DEF Promise!Next
  <2>6. QED BY <2>3, <2>4, <2>5
<1>4. CASE UNCHANGED vars
  BY <1>4 DEF vars
<1>5. QED BY <1>1, <1>2, <1>3, <1>4

\* The round handles the batch at most once, with each of its messages once and otherwise only
\* noise, and tells the coordinator of success only then: Mixnet implements MixRound.
THEOREM MixnetIsMixRound == Spec => KeepsPromise
<1>1. Init => Promise!Init
  BY Chain DEF Init, Promise!Init
<1>2. QED BY <1>1, PromiseStep, IInvHolds, PTL DEF Spec, KeepsPromise, Promise!Spec
=============================================================================
