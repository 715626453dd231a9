------------------------- MODULE ConfigChainProofs --------------------------
(***************************************************************************)
(* What holds of any guardians, clients and configurations: whoever signs  *)
(* what, whatever the operator sets and however many saves fail; and of    *)
(* any document (ConfigFile), however it is edited.                        *)
(***************************************************************************)
EXTENDS ConfigChain, ConfigFile, SequenceTheorems, WellFoundedInduction, TLAPS

Configs == [PrevConfigHash : Nat, Guardians : SUBSET Guardians, Created : Nat, signed : SUBSET Guardians]

\* Each configuration names an earlier one; the first names none.
Links ==
    /\ written \in Seq(Configs) /\ written # << >>
    /\ \A h \in DOMAIN written : written[h].PrevConfigHash < h

\* A server, or its file, knows configurations that exist, with signatures that were made,
\* and the current one is among them.
Store(all, current) ==
    /\ DOMAIN all \subseteq DOMAIN written
    /\ \A h \in DOMAIN all : all[h] \subseteq written[h].signed
    /\ current \in DOMAIN all

Stores ==
    /\ Store(allConfigs, currentConfig)
    /\ Store(file.all, file.current)
    /\ announced \subseteq DOMAIN written
    /\ have \in [Clients -> DOMAIN written]

\* What has been announced, and what a client has, is behind what is current, and that is saved.
Saved ==
    ~unsaved =>
        /\ file.all = allConfigs /\ file.current = currentConfig
        /\ announced \subseteq Ancestors(currentConfig)
        /\ \A c \in Clients : have[c] \in Ancestors(currentConfig)

\* The inductive invariant.
IInv == Links /\ Stores /\ Saved /\ ChainOfTrust
-----------------------------------------------------------------------------
(***************************************************************************)
(* Ancestors.                                                              *)
(***************************************************************************)

\* A configuration and those before it are the least set of this kind.
LEMMA AncestorFacts ==
    ASSUME Links, NEW h \in DOMAIN written
    PROVE  /\ h \in Ancestors(h) /\ Ancestors(h) \subseteq DOMAIN written
           /\ Closed(Ancestors(h))
           /\ \A S \in SUBSET DOMAIN written : h \in S /\ Closed(S) => Ancestors(h) \subseteq S
<1>1. h \in Ancestors(h) /\ Ancestors(h) \subseteq DOMAIN written
  BY DEF Ancestors
<1>2. ASSUME NEW x \in Ancestors(h), written[x].PrevConfigHash # 0
      PROVE  written[x].PrevConfigHash \in Ancestors(h)
  <2>1. x \in DOMAIN written /\ DOMAIN written = 1 .. Len(written) /\ Len(written) \in Nat
    BY <1>1 DEF Links
  <2>2. written[x] \in Configs /\ written[x].PrevConfigHash < x
    BY <2>1 DEF Links
  <2>3. written[x].PrevConfigHash \in DOMAIN written
    <3>1. written[x].PrevConfigHash \in Nat
      BY <2>2 DEF Configs
    <3>2. QED BY <1>2, <2>1, <2>2, <3>1
  <2>4. QED BY <1>2, <2>3 DEF Ancestors, Closed
<1>3. Closed(Ancestors(h))
  BY <1>2 DEF Closed
<1>4. \A S \in SUBSET DOMAIN written : h \in S /\ Closed(S) => Ancestors(h) \subseteq S
  BY DEF Ancestors
<1>5. QED BY <1>1, <1>3, <1>4

\* The ancestors of an ancestor.
LEMMA AncestorsTransitive ==
    ASSUME Links, NEW h \in DOMAIN written, NEW x \in Ancestors(h)
    PROVE  Ancestors(x) \subseteq Ancestors(h)
<1>1. x \in DOMAIN written /\ Ancestors(h) \in SUBSET DOMAIN written /\ Closed(Ancestors(h))
  BY AncestorFacts
<1>2. QED BY <1>1, AncestorFacts

\* A configuration that exists keeps what is before it, and whoever signed it.
Kept(h) ==
    /\ h \in DOMAIN written'
    /\ written'[h].PrevConfigHash = written[h].PrevConfigHash
    /\ written'[h].Guardians = written[h].Guardians
    /\ written[h].signed \subseteq written'[h].signed

\* The ancestors of a configuration stay the same.
LEMMA AncestorsKept ==
    ASSUME Links, Links', \A h \in DOMAIN written : Kept(h), NEW h \in DOMAIN written
    PROVE  Ancestors(h)' = Ancestors(h)
<1> PICK D : D = DOMAIN written
  OBVIOUS
<1>1. \A x \in D : x \in DOMAIN written' /\ written'[x].PrevConfigHash = written[x].PrevConfigHash
  BY DEF Kept
<1>2. ASSUME NEW x \in D
      PROVE  written[x].PrevConfigHash \in D \cup {0}
  <2>1. D = 1 .. Len(written) /\ Len(written) \in Nat /\ written[x] \in Configs
    BY DEF Links
  <2>2. written[x].PrevConfigHash \in Nat /\ written[x].PrevConfigHash < x
    BY <2>1 DEF Links, Configs
  <2>3. QED BY <2>1, <2>2
<1>3. ASSUME NEW x \in Ancestors(h)'
      PROVE  x \in Ancestors(h)
  <2>1. x \in DOMAIN written' /\ \A S \in SUBSET DOMAIN written' : h \in S /\ Closed(S)' => x \in S
    BY <1>3 DEF Ancestors, Closed
  <2>2. D \in SUBSET DOMAIN written' /\ Closed(D)'
    BY <1>1, <1>2 DEF Closed
  <2>3. x \in D
    BY <2>1, <2>2
  <2>4. ASSUME NEW S \in SUBSET D, h \in S, Closed(S)
        PROVE  x \in S
    <3>1. S \in SUBSET DOMAIN written' /\ Closed(S)'
      BY <1>1, <2>4 DEF Closed
    <3>2. QED BY <2>1, <2>4, <3>1
  <2>5. QED BY <2>3, <2>4 DEF Ancestors
<1>4. ASSUME NEW x \in Ancestors(h)
      PROVE  x \in Ancestors(h)'
  <2>1. x \in D /\ \A S \in SUBSET D : h \in S /\ Closed(S) => x \in S
    BY <1>4 DEF Ancestors
  <2>2. ASSUME NEW S \in SUBSET DOMAIN written', h \in S, Closed(S)'
        PROVE  x \in S
    <3>1. S \cap D \in SUBSET D /\ h \in S \cap D
      BY <2>2
    <3>2. Closed(S \cap D)
      BY <1>1, <1>2, <2>2 DEF Closed
    <3>3. QED BY <2>1, <3>1, <3>2
  <2>3. x \in DOMAIN written'
    BY <1>1, <2>1
  <2>4. QED BY <2>2, <2>3 DEF Ancestors, Closed
<1>5. QED BY <1>3, <1>4
-----------------------------------------------------------------------------
(***************************************************************************)
(* The chain that the server sends.                                        *)
(***************************************************************************)

\* A non-empty set of natural numbers has a least element: what induction is used for here.
LEMMA Least ==
    ASSUME NEW S, S \subseteq Nat, S # {}
    PROVE  \E n \in S : \A m \in S : n <= m
<1> DEFINE R == OpToRel(<, Nat)
<1>1. PICK n \in S : \A m \in S : ~ (<<m, n>> \in R)
  <2>1. IsWellFoundedOn(R, Nat)
    BY NatLessThanWellFounded
  <2> HIDE DEF R
  <2>2. QED BY <2>1, WFMin
<1>2. ASSUME NEW m \in S, m < n PROVE FALSE
  <2>1. <<m, n>> \in {ss \in Nat \X Nat : ss[1] < ss[2]}
    BY <1>2
  <2>2. <<m, n>> \in R
    BY <2>1 DEF OpToRel
  <2> HIDE DEF R
  <2>3. QED BY <1>1, <2>2, Zenon
<1>3. \A m \in S : n <= m
  BY <1>2
<1>4. QED BY <1>3

\* One step of the loop of getChainHandler.
Link(from, chain, h) ==
    IF h \in {0, from} THEN << >> ELSE <<h>> \o chain[written[h].PrevConfigHash]

\* The loop ends for the hashes up to m, with a sequence of configurations.
IsComputed(from, m) ==
    \E chain \in [0 .. Len(written) -> Seq(DOMAIN written)] :
        \A h \in 0 .. m : chain[h] = Link(from, chain, h)

\* A step of the loop returns a sequence of configurations.
LEMMA LinkType ==
    ASSUME Links, NEW from, NEW chain \in [0 .. Len(written) -> Seq(DOMAIN written)],
           NEW h \in 0 .. Len(written)
    PROVE  Link(from, chain, h) \in Seq(DOMAIN written)
<1>1. CASE h \in {0, from}
  BY <1>1 DEF Link
<1>2. CASE h \notin {0, from}
  <2>1. h \in DOMAIN written /\ written[h] \in Configs /\ Len(written) \in Nat
    BY <1>2 DEF Links
  <2>2. written[h].PrevConfigHash \in 0 .. Len(written)
    BY <2>1 DEF Links, Configs
  <2>3. chain[written[h].PrevConfigHash] \in Seq(DOMAIN written) /\ <<h>> \in Seq(DOMAIN written)
    BY <2>1, <2>2
  <2>4. <<h>> \o chain[written[h].PrevConfigHash] \in Seq(DOMAIN written)
    BY <2>3
  <2>5. QED BY <1>2, <2>4 DEF Link
<1>3. QED BY <1>1, <1>2

\* The loop ends: what is left to do is about an earlier configuration.
LEMMA ChainExists ==
    ASSUME Links, NEW from, NEW m \in 0 .. Len(written)
    PROVE  IsComputed(from, m)
<1> DEFINE N == Len(written)
           Bad == {n \in 0 .. N : ~IsComputed(from, n)}
<1> SUFFICES ASSUME Bad # {} PROVE FALSE
  OBVIOUS
<1>1. PICK n \in Bad : \A i \in Bad : n <= i
  <2>1. Bad \subseteq Nat
    OBVIOUS
  <2>2. QED BY <2>1, Least
<1>2. n \in 0 .. N /\ ~IsComputed(from, n) /\ N \in Nat
  BY DEF Links
<1>3. PICK chain \in [0 .. N -> Seq(DOMAIN written)] :
        \A h \in 0 .. n - 1 : chain[h] = Link(from, chain, h)
  <2>1. CASE n = 0
    <3> DEFINE f == [h \in 0 .. N |-> << >>]
    <3>1. f \in [0 .. N -> Seq(DOMAIN written)] /\ 0 .. n - 1 = {}
      BY <2>1
    <3> HIDE DEF f
    <3>2. QED BY <3>1
  <2>2. CASE n # 0
    <3>1. n - 1 \in 0 .. N /\ ~(n <= n - 1)
      BY <1>2, <2>2
    <3>2. IsComputed(from, n - 1)
      BY <1>1, <3>1
    <3>3. QED BY <3>2 DEF IsComputed
  <2>3. QED BY <2>1, <2>2
<1> DEFINE f == [chain EXCEPT ![n] = Link(from, chain, n)]
<1>4. Link(from, chain, n) \in Seq(DOMAIN written)
  BY <1>2, LinkType
<1>5. f \in [0 .. N -> Seq(DOMAIN written)]
  BY <1>2, <1>4
<1>6. ASSUME NEW h \in 0 .. n
      PROVE  f[h] = Link(from, f, h)
  <2>1. h # 0 => written[h].PrevConfigHash \in 0 .. N /\ written[h].PrevConfigHash # n
    <3>1. h # 0 => h \in DOMAIN written /\ h <= n
      BY <1>2
    <3>2. h # 0 => written[h] \in Configs /\ written[h].PrevConfigHash < h
      BY <3>1 DEF Links
    <3>3. QED BY <1>2, <3>2 DEF Configs
  <2>2. h # 0 => f[written[h].PrevConfigHash] = chain[written[h].PrevConfigHash]
    BY <2>1
  <2>3. Link(from, f, h) = Link(from, chain, h)
    <3> HIDE DEF f
    <3>1. QED BY <2>2 DEF Link
  <2>4. CASE h = n
    BY <1>2, <2>3, <2>4
  <2>5. CASE h # n
    <3>1. h \in 0 .. n - 1 /\ f[h] = chain[h]
      BY <1>2, <2>5
    <3>2. QED BY <1>3, <2>3, <3>1
  <2>6. QED BY <2>4, <2>5
<1> HIDE DEF f
<1>7. IsComputed(from, n)
  BY <1>5, <1>6 DEF IsComputed
<1>8. QED BY <1>2, <1>7

\* The chain starts with what the client wants.
LEMMA GetChainFacts ==
    ASSUME Links, NEW from, NEW want \in DOMAIN written
    PROVE  /\ getChain(from, want) \in Seq(DOMAIN written)
           /\ Len(getChain(from, want)) > 0
           /\ getChain(from, want)[1] = want
<1> DEFINE N == Len(written)
           Step(f) == [h \in 0 .. N |->
                         IF h \in {0, from} THEN << >> ELSE <<h>> \o f[written[h].PrevConfigHash]]
           chain == CHOOSE f : f = Step(f)
           p == written[want].PrevConfigHash
           Bad == {h \in 0 .. N : chain[h] \notin Seq(DOMAIN written)}
<1>1. N \in Nat /\ DOMAIN written = 1 .. N
  BY DEF Links
<1>2. getChain(from, want) = <<want>> \o chain[p]
  BY DEF getChain
<1>3. chain = Step(chain)
  <2>1. IsComputed(from, N)
    <3>1. N \in 0 .. N
      BY <1>1
    <3>2. QED BY <3>1, ChainExists
  <2> HIDE DEF chain
  <2>2. PICK f \in [0 .. N -> Seq(DOMAIN written)] : \A h \in 0 .. N : f[h] = Link(from, f, h)
    BY <2>1 DEF IsComputed
  <2>3. f = Step(f)
    BY <2>2 DEF Link
  <2> HIDE DEF Step
  <2>4. QED BY <2>3 DEF chain
<1> HIDE DEF chain
<1>4. \A h \in 0 .. N : chain[h] = Link(from, chain, h)
  <2>1. \A h \in 0 .. N : Step(chain)[h] = Link(from, chain, h)
    BY DEF Link
  <2> HIDE DEF Step
  <2>2. QED BY <1>3, <2>1
<1>5. ASSUME NEW h \in 1 .. N
      PROVE  written[h].PrevConfigHash \in 0 .. N /\ written[h].PrevConfigHash < h
  <2>1. written[h] \in Configs /\ written[h].PrevConfigHash < h
    BY <1>1 DEF Links
  <2>2. QED BY <1>1, <2>1 DEF Configs
<1>6. Bad = {}
  <2> SUFFICES ASSUME Bad # {} PROVE FALSE
    OBVIOUS
  <2>1. PICK h \in Bad : \A i \in Bad : h <= i
    <3>1. Bad \subseteq Nat
      OBVIOUS
    <3>2. QED BY <3>1, Least
  <2>2. h \in 0 .. N /\ chain[h] \notin Seq(DOMAIN written) /\ chain[h] = Link(from, chain, h)
    BY <1>4
  <2>3. h \notin {0, from}
    <3>1. h \in {0, from} => Link(from, chain, h) = << >>
      BY DEF Link
    <3>2. << >> \in Seq(DOMAIN written)
      OBVIOUS
    <3>3. QED BY <2>2, <3>1, <3>2
  <2>4. h \in 1 .. N
    BY <1>1, <2>2, <2>3
  <2>5. chain[written[h].PrevConfigHash] \in Seq(DOMAIN written)
    BY <1>1, <1>5, <2>1, <2>4
  <2>6. <<h>> \in Seq(DOMAIN written)
    BY <1>1, <2>4
  <2>7. <<h>> \o chain[written[h].PrevConfigHash] \in Seq(DOMAIN written)
    BY <2>5, <2>6
  <2>8. QED BY <2>2, <2>3, <2>7 DEF Link
<1>7. chain[p] \in Seq(DOMAIN written) /\ <<want>> \in Seq(DOMAIN written)
  BY <1>1, <1>5, <1>6
<1>8. QED BY <1>2, <1>7

\* What FetchAndVerifyChain has checked when it accepts: each of the chain names the next, which
\* is, after the last, what the client has, and was signed by that one's guardians.
LEMMA VerifiedChain ==
    ASSUME Links, Stores, NEW from \in DOMAIN written, NEW want \in DOMAIN written,
           FetchAndVerifyChain(from, want)
    PROVE  LET configs == getChain(from, want) IN
           \A i \in 1 .. Len(configs) :
             \E next \in DOMAIN written :
               /\ next = IF i < Len(configs) THEN configs[i + 1] ELSE from
               /\ written[configs[i]].PrevConfigHash = next
               /\ written[next].Guardians \subseteq written[configs[i]].signed
<1> PICK configs : configs = getChain(from, want)
  OBVIOUS
<1> DEFINE n == Len(configs)
           known == [i \in DOMAIN configs |-> Known(configs[i])]
           chain == Append(known, Signed(from, {}))
<1>1. configs \in Seq(DOMAIN written) /\ n \in Nat /\ DOMAIN configs = 1 .. n
  BY GetChainFacts
<1>2. \A i \in 1 .. n : configs[i] \in DOMAIN allConfigs /\ configs[i] \in DOMAIN written
  BY <1>1 DEF FetchAndVerifyChain
<1>3. /\ Len(chain) = n + 1
      /\ \A i \in 1 .. n : chain[i] = Known(configs[i])
      /\ chain[n + 1] = Signed(from, {})
  <2>1. known \in Seq({Known(configs[i]) : i \in 1 .. n}) /\ Len(known) = n
    BY <1>1
  <2>2. \A i \in 1 .. n : known[i] = Known(configs[i])
    BY <1>1
  <2> HIDE DEF known
  <2>3. QED BY <1>1, <2>1, <2>2
<1>4. VerifyConfigChain(chain)
  BY DEF FetchAndVerifyChain
<1> HIDE DEF chain
<1>5. ASSUME NEW i \in 1 .. n
      PROVE  \E next \in DOMAIN written :
               /\ next = IF i < n THEN configs[i + 1] ELSE from
               /\ written[configs[i]].PrevConfigHash = next
               /\ written[next].Guardians \subseteq written[configs[i]].signed
  <2> DEFINE next == IF i < n THEN configs[i + 1] ELSE from
  <2>1. next \in DOMAIN written
    BY <1>1, <1>2
  <2> HIDE DEF known
  <2>2. chain[i + 1].hash = next
    <3>1. CASE i < n
      <4>1. i + 1 \in 1 .. n
        BY <1>1, <3>1
      <4>2. chain[i + 1] = Known(configs[i + 1])
        BY <1>3, <4>1
      <4>3. QED BY <3>1, <4>2 DEF Known, Signed
    <3>2. CASE ~(i < n)
      <4>1. i = n
        <5> HIDE DEF n
        <5>1. n \in Nat /\ i \in 1 .. n
          BY <1>1
        <5>2. QED BY <3>2, <5>1
      <4>2. QED BY <1>3, <3>2, <4>1 DEF Signed
    <3>3. QED BY <3>1, <3>2
  <2>3. chain[i].hash = configs[i] /\ chain[i].Signatures = allConfigs[configs[i]]
    <3>1. chain[i] = Known(configs[i])
      BY <1>3
    <3>2. QED BY <3>1 DEF Known, Signed
  <2>4. i \in 1 .. Len(chain) - 1
    BY <1>1, <1>3
  <2>5. /\ written[configs[i]].PrevConfigHash = next
        /\ written[next].Guardians \subseteq allConfigs[configs[i]]
    BY <1>4, <2>2, <2>3, <2>4 DEF VerifyConfigChain
  <2>6. allConfigs[configs[i]] \subseteq written[configs[i]].signed
    BY <1>2 DEF Stores, Store
  <2> HIDE DEF next
  <2>7. QED BY <2>1, <2>5, <2>6 DEF next
<1>6. QED BY <1>5

\* What the client goes to was agreed to back to what it has, and is ahead of it.
LEMMA Followed ==
    ASSUME Links, Stores, NEW from \in DOMAIN written, NEW want \in DOMAIN written,
           FetchAndVerifyChain(from, want)
    PROVE  /\ \A h \in Ancestors(want) : h \in Ancestors(from) \/ Agreed(h)
           /\ from \in Ancestors(want)
<1> PICK configs : configs = getChain(from, want)
  OBVIOUS
<1> DEFINE n == Len(configs)
           S == {configs[i] : i \in 1 .. n}
<1>1. configs \in Seq(DOMAIN written) /\ n \in Nat /\ n > 0 /\ configs[1] = want
  BY GetChainFacts
<1>2. ASSUME NEW i \in 1 .. n
      PROVE  /\ configs[i] \in DOMAIN written
             /\ written[configs[i]].PrevConfigHash = IF i < n THEN configs[i + 1] ELSE from
             /\ Agreed(configs[i])
  BY <1>1, VerifiedChain DEF Agreed
<1>3. from # 0
  BY DEF Links
<1>4. \A h \in Ancestors(want) : h \in Ancestors(from) \/ Agreed(h)
  <2>1. S \cup Ancestors(from) \in SUBSET DOMAIN written
    BY <1>2, AncestorFacts
  <2>2. want \in S
    BY <1>1
  <2>3. from \in Ancestors(from) /\ Closed(Ancestors(from))
    BY AncestorFacts
  <2>4. ASSUME NEW i \in 1 .. n
        PROVE  written[configs[i]].PrevConfigHash \in S \cup Ancestors(from)
    <3>1. CASE i < n
      <4>1. i + 1 \in 1 .. n
        BY <1>1, <3>1
      <4>2. QED BY <1>2, <3>1, <4>1
    <3>2. CASE ~(i < n)
      BY <1>2, <2>3, <3>2
    <3>3. QED BY <3>1, <3>2
  <2>5. Closed(S \cup Ancestors(from))
    BY <2>3, <2>4 DEF Closed
  <2>6. \A h \in S : Agreed(h)
    BY <1>2
  <2> HIDE DEF S
  <2>7. Ancestors(want) \subseteq S \cup Ancestors(from)
    BY <2>1, <2>2, <2>5, AncestorFacts
  <2>8. QED BY <2>6, <2>7
<1>5. from \in Ancestors(want)
  <2>1. want \in Ancestors(want) /\ Closed(Ancestors(want))
    BY AncestorFacts
  <2> DEFINE Bad == {i \in 1 .. n : configs[i] \notin Ancestors(want)}
  <2>2. Bad = {}
    <3> SUFFICES ASSUME Bad # {} PROVE FALSE
      OBVIOUS
    <3>1. PICK i \in Bad : \A j \in Bad : i <= j
      <4>1. Bad \subseteq Nat
        OBVIOUS
      <4>2. QED BY <4>1, Least
    <3>2. i \in 1 .. n /\ i # 1
      BY <1>1, <2>1
    <3>3. i - 1 \in 1 .. n /\ i - 1 < n /\ configs[i - 1] \in Ancestors(want)
      BY <1>1, <3>1, <3>2
    <3>4. written[configs[i - 1]].PrevConfigHash = configs[i] /\ configs[i] # 0
      <4>1. configs[i] \in DOMAIN written
        BY <1>2, <3>2
      <4>2. written[configs[i - 1]].PrevConfigHash = configs[(i - 1) + 1]
        BY <1>2, <3>3
      <4>3. (i - 1) + 1 = i
        BY <3>2
      <4>4. QED BY <4>1, <4>2, <4>3 DEF Links
    <3>5. QED BY <2>1, <3>3, <3>4 DEF Closed
  <2>3. n \in 1 .. n /\ configs[n] \in Ancestors(want)
    BY <1>1, <2>2
  <2>4. written[configs[n]].PrevConfigHash = from
    BY <1>2, <2>3
  <2>5. QED BY <1>3, <2>1, <2>3, <2>4 DEF Closed
<1>6. QED BY <1>4, <1>5
-----------------------------------------------------------------------------
(***************************************************************************)
(* Steps.                                                                  *)
(***************************************************************************)

\* Configurations are only added and signed.
LEMMA LinksStep ==
    ASSUME Links, Stores, [Next]_vars
    PROVE  Links' /\ \A h \in DOMAIN written : Kept(h)
<1>1. /\ written \in Seq(Configs) /\ written # << >>
      /\ Len(written) \in Nat /\ DOMAIN written = 1 .. Len(written)
  BY DEF Links
<1>2. CASE written' = written
  BY <1>2 DEF Links, Kept
<1>3. ASSUME NEW guardians \in SUBSET Guardians, NEW created \in 1 .. MaxTime,
             NewConfig(guardians, created)
      PROVE  Links' /\ \A h \in DOMAIN written : Kept(h)
  <2> DEFINE conf == [PrevConfigHash |-> currentConfig, Guardians |-> guardians,
                      Created |-> created, signed |-> {}]
  <2>1. currentConfig \in 1 .. Len(written) /\ created \in Nat
    BY <1>1, ConfigAssumption DEF Stores, Store
  <2>2. conf \in Configs /\ conf.PrevConfigHash = currentConfig
    BY <1>1, <2>1 DEF Configs
  <2> HIDE DEF conf
  <2>3. written' = Append(written, conf)
    BY <1>3 DEF NewConfig, conf
  <2>4. /\ written' \in Seq(Configs) /\ Len(written') = Len(written) + 1
        /\ \A h \in 1 .. Len(written) : written'[h] = written[h]
        /\ written'[Len(written) + 1] = conf
    BY <1>1, <2>2, <2>3
  <2>5. DOMAIN written' = 1 .. Len(written) + 1 /\ written' # << >>
    BY <1>1, <2>4
  <2>6. ASSUME NEW h \in DOMAIN written'
        PROVE  written'[h].PrevConfigHash < h
    <3>1. CASE h \in DOMAIN written
      BY <1>1, <2>4, <3>1 DEF Links
    <3>2. CASE h \notin DOMAIN written
      <4>1. h = Len(written) + 1
        BY <1>1, <2>5, <3>2
      <4>2. QED BY <1>1, <2>1, <2>2, <2>4, <4>1
    <3>3. QED BY <3>1, <3>2
  <2>7. \A h \in DOMAIN written : Kept(h)
    BY <1>1, <2>4, <2>5 DEF Kept
  <2>8. QED BY <2>4, <2>5, <2>6, <2>7 DEF Links
<1>4. ASSUME NEW h \in DOMAIN written, NEW g \in Guardians, Sign(g, h)
      PROVE  Links' /\ \A x \in DOMAIN written : Kept(x)
  <2>1. written' = [written EXCEPT ![h] = [written[h] EXCEPT !.signed = @ \cup {g}]]
    BY <1>4 DEF Sign
  <2>2. \A x \in DOMAIN written : written[x] \in Configs
    BY <1>1
  <2>3. /\ DOMAIN written' = DOMAIN written
        /\ \A x \in DOMAIN written :
             /\ written'[x] \in Configs
             /\ written'[x].PrevConfigHash = written[x].PrevConfigHash
             /\ written'[x].Guardians = written[x].Guardians
             /\ written[x].signed \subseteq written'[x].signed
    BY <1>1, <2>1, <2>2 DEF Configs
  <2>4. written' \in [1 .. Len(written) -> Configs]
    BY <1>1, <2>1, <2>3
  <2>5. written' \in Seq(Configs) /\ written' # << >>
    BY <1>1, <2>3, <2>4
  <2>6. QED BY <2>3, <2>5 DEF Links, Kept
<1>5. CASE Server
  BY <1>2, <1>5 DEF Server, newConfigHandler, PersistFails, SetCurrentConfig
<1>6. QED
  BY <1>2, <1>3, <1>4, <1>5 DEF Next, Expire, Restart, Announce, newRound, vars

\* What a server comes to know with a new current configuration.
LEMMA LearnedFacts ==
    ASSUME Links, NEW all, NEW current, Store(all, current),
           NEW h \in DOMAIN written, NEW signatures \in SUBSET written[h].signed
    PROVE  Store(Learned(all, Signed(h, signatures)), h)
BY DEF Store, Learned, Signed

\* What is stored stays true of what is written.
LEMMA StoreKept ==
    ASSUME \A h \in DOMAIN written : Kept(h), NEW all, NEW current, Store(all, current)
    PROVE  Store(all, current)'
BY DEF Store, Kept

\* The steps that change what the server or its file knows.
LEMMA ServerSteps ==
    ASSUME [Next]_vars
    PROVE  \/ UNCHANGED <<allConfigs, currentConfig, file, unsaved>>
           \/ \E h \in DOMAIN written : \E signatures \in SUBSET written[h].signed :
                \/ newConfigHandler(Signed(h, signatures))
                \/ PersistFails(Signed(h, signatures))
                \/ SetCurrentConfig(Signed(h, signatures))
           \/ Restart
BY DEF Next, Server, NewConfig, Expire, Sign, Announce, newRound, serverVars, vars

\* The parts of the invariant.
LEMMA ServerStep ==
    ASSUME Links, Stores, [Next]_vars
    PROVE  Store(allConfigs, currentConfig)' /\ Store(file.all, file.current)'
<1>1. \A h \in DOMAIN written : Kept(h)
  BY LinksStep
<1>2. ASSUME NEW all, NEW current, Store(all, current)
      PROVE  Store(all, current)'
  BY <1>1, <1>2, StoreKept
<1>3. Store(allConfigs, currentConfig) /\ Store(file.all, file.current)
  BY DEF Stores
<1>4. PICK all, current, all2, current2 :
        /\ allConfigs' = all /\ currentConfig' = current
        /\ file'.all = all2 /\ file'.current = current2
  OBVIOUS
<1>5. Store(all, current) /\ Store(all2, current2)
  <2>1. CASE UNCHANGED <<allConfigs, currentConfig, file>>
    BY <1>3, <1>4, <2>1
  <2>2. CASE Restart
    BY <1>3, <1>4, <2>2 DEF Restart
  <2>3. ASSUME NEW h \in DOMAIN written, NEW signatures \in SUBSET written[h].signed,
               newConfigHandler(Signed(h, signatures))
        PROVE  Store(all, current) /\ Store(all2, current2)
    <3>1. Store(Learned(allConfigs, Signed(h, signatures)), h)
      BY <1>3, LearnedFacts
    <3>2. Signed(h, signatures).hash = h
      BY DEF Signed
    <3>3. QED BY <1>4, <2>3, <3>1, <3>2 DEF newConfigHandler
  <2>4. ASSUME NEW h \in DOMAIN written, NEW signatures \in SUBSET written[h].signed,
               PersistFails(Signed(h, signatures))
        PROVE  Store(all, current) /\ Store(all2, current2)
    <3>1. Store(Learned(allConfigs, Signed(h, signatures)), h)
      BY <1>3, LearnedFacts
    <3>2. Signed(h, signatures).hash = h
      BY DEF Signed
    <3>3. QED BY <1>3, <1>4, <2>4, <3>1, <3>2 DEF PersistFails
  <2>5. ASSUME NEW h \in DOMAIN written, NEW signatures \in SUBSET written[h].signed,
               SetCurrentConfig(Signed(h, signatures))
        PROVE  Store(all, current) /\ Store(all2, current2)
    <3>1. Store(Learned(file.all, Signed(h, signatures)), h)
      BY <1>3, LearnedFacts
    <3>2. Signed(h, signatures).hash = h
      BY DEF Signed
    <3>3. QED BY <1>4, <2>5, <3>1, <3>2 DEF SetCurrentConfig
  <2>6. QED BY <2>1, <2>2, <2>3, <2>4, <2>5, ServerSteps
<1>6. Store(all, current)' /\ Store(all2, current2)'
  BY <1>2, <1>5
<1>7. QED BY <1>4, <1>6 DEF Store

\* The coordinator announces what is current, and clients go to what is announced.
LEMMA AnnouncedSteps ==
    ASSUME [Next]_vars
    PROVE  \/ UNCHANGED <<announced, have>>
           \/ Announce
           \/ \E c \in Clients : \E h \in announced : newRound(c, h)
BY DEF Next, Server, NewConfig, Expire, Sign, newConfigHandler, PersistFails, SetCurrentConfig,
       Restart, vars

\* Everyone's configurations exist.
LEMMA StoresStep ==
    ASSUME Links, Stores, [Next]_vars
    PROVE  Stores'
<1>1. DOMAIN written \subseteq DOMAIN written'
  BY LinksStep DEF Kept
<1>2. announced' \subseteq DOMAIN written /\ have' \in [Clients -> DOMAIN written]
  <2>1. CASE UNCHANGED <<announced, have>>
    BY <2>1 DEF Stores
  <2>2. CASE Announce
    BY <2>2 DEF Announce, Stores, Store
  <2>3. ASSUME NEW c \in Clients, NEW h \in announced, newRound(c, h)
        PROVE  announced' \subseteq DOMAIN written /\ have' \in [Clients -> DOMAIN written]
    BY <2>3 DEF newRound, Stores
  <2>4. QED BY <2>1, <2>2, <2>3, AnnouncedSteps
<1>3. announced' \subseteq DOMAIN written' /\ have' \in [Clients -> DOMAIN written']
  BY <1>1, <1>2
<1>4. QED BY <1>3, ServerStep DEF Stores

\* What is behind what is current stays behind it, unless the operator sets something else or
\* a configuration that was not saved is forgotten.
LEMMA CurrentGoesOn ==
    ASSUME Links, Stores, Saved, ~unsaved', [Next]_vars, NEW h \in Ancestors(currentConfig)
    PROVE  h \in Ancestors(currentConfig)'
<1>1. /\ Links' /\ Stores' /\ (\A x \in DOMAIN written : Kept(x))
      /\ currentConfig \in DOMAIN written /\ currentConfig' \in DOMAIN written'
  BY LinksStep, StoresStep DEF Stores, Store
<1>2. h \in Ancestors(currentConfig)'  \/ currentConfig' # currentConfig
  <2>1. PICK x : x = currentConfig
    OBVIOUS
  <2>2. Ancestors(x)' = Ancestors(x)
    BY <1>1, <2>1, AncestorsKept
  <2>3. currentConfig' = x => Ancestors(currentConfig)' = Ancestors(x)'
    BY DEF Ancestors
  <2>4. QED BY <2>1, <2>2, <2>3
<1>3. ASSUME NEW x \in DOMAIN written, NEW signatures \in SUBSET written[x].signed,
             newConfigHandler(Signed(x, signatures))
      PROVE  h \in Ancestors(currentConfig)'
  <2>1. /\ currentConfig' = x /\ written' = written
        /\ written[x].PrevConfigHash = currentConfig
    BY <1>3 DEF newConfigHandler, Accepts, Signed
  <2>2. Ancestors(currentConfig)' = Ancestors(x)
    BY <2>1 DEF Ancestors, Closed
  <2>3. currentConfig \in Ancestors(x)
    <3>1. x \in Ancestors(x) /\ Closed(Ancestors(x))
      BY AncestorFacts
    <3>2. currentConfig # 0
      BY <1>1 DEF Links
    <3>3. QED BY <2>1, <3>1, <3>2 DEF Closed
  <2>4. QED BY <2>2, <2>3, AncestorsTransitive
<1>4. currentConfig' = currentConfig \/ \E x \in DOMAIN written :
        \E signatures \in SUBSET written[x].signed : newConfigHandler(Signed(x, signatures))
  <2>1. CASE Restart
    BY <2>1 DEF Restart, Saved
  <2>2. QED BY <2>1, ServerSteps DEF PersistFails, SetCurrentConfig
<1>5. QED BY <1>2, <1>3, <1>4

\* A save that works puts the new configuration in the file, and announcements follow it.
LEMMA SavedStep ==
    ASSUME Links, Stores, Saved, [Next]_vars
    PROVE  Saved'
<1> SUFFICES ASSUME ~unsaved'
             PROVE  /\ file'.all = allConfigs' /\ file'.current = currentConfig'
                    /\ announced' \subseteq Ancestors(currentConfig)'
                    /\ \A c \in Clients : have'[c] \in Ancestors(currentConfig)'
  BY DEF Saved
<1>1. ~unsaved
  BY DEF Next, Server, NewConfig, Expire, Sign, newConfigHandler, PersistFails, SetCurrentConfig,
         Restart, Announce, newRound, vars
<1>2. file'.all = allConfigs' /\ file'.current = currentConfig'
  <2>1. CASE UNCHANGED <<allConfigs, currentConfig, file>>
    BY <1>1, <2>1 DEF Saved
  <2>2. CASE Restart
    BY <2>2 DEF Restart
  <2>3. ASSUME NEW conf, newConfigHandler(conf)
        PROVE  file'.all = allConfigs' /\ file'.current = currentConfig'
    BY <2>3 DEF newConfigHandler
  <2>4. QED BY <2>1, <2>2, <2>3, ServerSteps DEF PersistFails, SetCurrentConfig
<1>3. announced' \subseteq Ancestors(currentConfig) /\ \A c \in Clients : have'[c] \in Ancestors(currentConfig)
  <2>1. currentConfig \in Ancestors(currentConfig)
    BY AncestorFacts DEF Stores, Store
  <2>2. CASE UNCHANGED <<announced, have>>
    BY <1>1, <2>2 DEF Saved
  <2>3. CASE Announce
    BY <1>1, <2>1, <2>3 DEF Announce, Saved
  <2>4. ASSUME NEW c \in Clients, NEW h \in announced, newRound(c, h)
        PROVE  /\ announced' \subseteq Ancestors(currentConfig)
               /\ \A d \in Clients : have'[d] \in Ancestors(currentConfig)
    BY <1>1, <2>4 DEF newRound, Saved, Stores
  <2>5. QED BY <2>2, <2>3, <2>4, AnnouncedSteps
<1>4. QED BY <1>2, <1>3, CurrentGoesOn

\* What a client goes to.
LEMMA ClientStep ==
    ASSUME Links, Stores, [Next]_vars, NEW c \in Clients
    PROVE  /\ have'[c] \in DOMAIN written
           /\ have[c] \in Ancestors(have'[c])
           /\ \A h \in Ancestors(have'[c]) : h \in Ancestors(have[c]) \/ Agreed(h)
<1>1. have[c] \in DOMAIN written /\ have[c] \in Ancestors(have[c])
  BY AncestorFacts DEF Stores
<1>2. CASE have'[c] = have[c]
  BY <1>1, <1>2
<1>3. ASSUME NEW h \in announced, newRound(c, h)
      PROVE  /\ have'[c] \in DOMAIN written
             /\ have[c] \in Ancestors(have'[c])
             /\ \A x \in Ancestors(have'[c]) : x \in Ancestors(have[c]) \/ Agreed(x)
  <2>1. have'[c] = h /\ h \in DOMAIN written /\ FetchAndVerifyChain(have[c], h)
    BY <1>3 DEF newRound, Stores
  <2>2. QED BY <1>1, <2>1, Followed
<1>4. QED
  <2>1. ASSUME NEW d \in Clients, NEW h \in announced, newRound(d, h)
        PROVE  d = c \/ have'[c] = have[c]
    BY <2>1 DEF newRound, Stores
  <2>2. QED BY <1>2, <1>3, <2>1, AnnouncedSteps DEF Announce

\* What was agreed to stays so.
LEMMA AgreedKept ==
    ASSUME Links, \A h \in DOMAIN written : Kept(h), NEW h \in DOMAIN written, Agreed(h)
    PROVE  Agreed(h)'
<1>1. written[h] \in Configs /\ written[h].PrevConfigHash < h /\ DOMAIN written = 1 .. Len(written)
  BY DEF Links
<1>2. written[h].PrevConfigHash # 0 => written[h].PrevConfigHash \in DOMAIN written
  BY <1>1 DEF Links, Configs
<1>3. QED BY <1>2 DEF Agreed, Kept

\* Trust goes on through what a client loads and through what is written and signed meanwhile.
LEMMA TrustStep ==
    ASSUME Links, Stores, ChainOfTrust, [Next]_vars
    PROVE  ChainOfTrust'
<1> SUFFICES ASSUME NEW c \in Clients
             PROVE  (\A h \in Ancestors(have[c]) : Agreed(h))'
  BY DEF ChainOfTrust
<1>1. Links' /\ \A x \in DOMAIN written : Kept(x)
  BY LinksStep
<1>2. PICK x \in DOMAIN written : x = have'[c]
  BY ClientStep
<1>3. Ancestors(x)' = Ancestors(x) /\ Ancestors(x) \subseteq DOMAIN written
  BY <1>1, AncestorsKept, AncestorFacts
<1>4. ASSUME NEW h \in Ancestors(x)
      PROVE  Agreed(h)'
  <2>1. Agreed(h)
    BY <1>2, ClientStep DEF ChainOfTrust
  <2>2. QED BY <1>1, <1>3, <2>1, AgreedKept
<1>5. (\A h \in Ancestors(x) : Agreed(h))'
  BY <1>3, <1>4
<1>6. QED BY <1>2, <1>5 DEF Ancestors
-----------------------------------------------------------------------------
(***************************************************************************)
(* Theorems.                                                               *)
(***************************************************************************)

\* The first configuration is all there is.
LEMMA InitIInv == Init => IInv
<1> SUFFICES ASSUME Init PROVE IInv
  OBVIOUS
<1>1. /\ First \in Configs /\ First.PrevConfigHash = 0 /\ First.signed = Guardians
      /\ written = <<First>>
  BY DEF Init, First, Configs
<1>2. DOMAIN written = {1} /\ written[1] = First
  BY <1>1
<1>3. Links
  BY <1>1, <1>2 DEF Links
<1>4. Stores
  BY <1>1, <1>2 DEF Init, Stores, Store
<1>5. 1 \in Ancestors(1) /\ Ancestors(1) = {1}
  BY <1>2, <1>3, AncestorFacts
<1>6. Saved
  BY <1>5 DEF Init, Saved
<1>7. Agreed(1)
  BY <1>1, <1>2 DEF Agreed
<1>8. ChainOfTrust
  BY <1>5, <1>7 DEF Init, ChainOfTrust
<1>9. QED BY <1>3, <1>4, <1>6, <1>8 DEF IInv

\* The invariant holds of guardians, server, coordinator and clients together.
THEOREM IInvHolds == Spec => []IInv
<1>1. IInv /\ [Next]_vars => IInv'
  BY LinksStep, StoresStep, SavedStep, TrustStep DEF IInv
<1>2. QED BY <1>1, InitIInv, PTL DEF Spec

\* Every configuration that a client trusts has the signatures of all guardians of the one before
\* it, back to the first, although VerifyConfigChain sees only what the server sends.
THEOREM TrustRollsForward == Spec => []ChainOfTrust
<1>1. IInv => ChainOfTrust
  BY DEF IInv
<1>2. QED BY <1>1, IInvHolds, PTL

\* What a client has is behind what the server has, as long as newConfigHandler saves what it
\* accepts and the operator leaves the chain alone.
THEOREM ChainsDoNotPart == Spec => []NoFork
<1>1. IInv => NoFork
  BY DEF IInv, Saved, NoFork
<1>2. QED BY <1>1, IInvHolds, PTL

\* newRound never takes a client to a configuration that is not ahead of the one that it has.
THEOREM ClientsGoForward == Spec => OnlyForward
<1>1. IInv /\ [Next]_vars => [\A c \in Clients : have[c] \in Ancestors(have'[c])]_vars
  <2> SUFFICES ASSUME IInv, [Next]_vars, NEW c \in Clients
               PROVE  have[c] \in Ancestors(have'[c])
    OBVIOUS
  <2>1. QED BY ClientStep DEF IInv
<1>2. QED BY <1>1, IInvHolds, PTL DEF Spec, OnlyForward
-----------------------------------------------------------------------------
(***************************************************************************)
(* The document (ConfigFile): what is written is what is read.             *)
(***************************************************************************)

\* A signed configuration, and its text, with these fields.
Doc(version, min, service, prev, inner, guardians, signatures) ==
    [Version |-> version, MinClientVersion |-> min, Service |-> service, PrevConfigHash |-> prev,
     Inner |-> inner, Guardians |-> guardians, Signatures |-> signatures]

IsDoc(d) ==
    /\ d = Doc(d.Version, d.MinClientVersion, d.Service, d.PrevConfigHash, d.Inner, d.Guardians,
               d.Signatures)
    /\ d.Service \in Services

\* An inner configuration, of the version that its service has, without what that cannot say.
InnerConf(service, inner) ==
    /\ inner = [Version |-> inner.Version, Servers |-> inner.Servers, Registrar |-> inner.Registrar]
    /\ \/ /\ inner.Version = 1
          /\ inner.Registrar = [Key |-> Unset, Address |-> inner.Registrar.Address]
          /\ service # "AddFriend" => inner.Registrar.Address = Unset
       \/ inner.Version = 2 /\ service = "AddFriend"

\* What such a configuration is written as.
InnerText(service, text) ==
    \/ /\ text = [Version |-> 1, Servers |-> text.Servers, RegistrarHost |-> text.RegistrarHost]
       /\ service # "AddFriend" => text.RegistrarHost = Unset
    \/ /\ text = [Version |-> 2, Servers |-> text.Servers, Registrar |-> text.Registrar]
       /\ service = "AddFriend"

IsConf(conf) == IsDoc(conf) /\ InnerConf(conf.Service, conf.Inner)
IsText(text) == IsDoc(text) /\ InnerText(text.Service, text.Inner)

\* What Marshal and Unmarshal leave as it is.
SameButInner(d, e) ==
    /\ d.Version = e.Version /\ d.MinClientVersion = e.MinClientVersion /\ d.Service = e.Service
    /\ d.PrevConfigHash = e.PrevConfigHash /\ d.Guardians = e.Guardians
    /\ d.Signatures = e.Signatures

\* A document of which one field is changed.
LEMMA DocWith ==
    ASSUME NEW d, IsDoc(d), NEW x
    PROVE  /\ [d EXCEPT !.Inner = x] = Doc(d.Version, d.MinClientVersion, d.Service, d.PrevConfigHash, x,
                                           d.Guardians, d.Signatures)
           /\ [d EXCEPT !.Signatures = x] = Doc(d.Version, d.MinClientVersion, d.Service,
                                                d.PrevConfigHash, d.Inner, d.Guardians, x)
BY DEF IsDoc, Doc

\* The same of the other fields.
LEMMA DocWithOther ==
    ASSUME NEW d, IsDoc(d), NEW x
    PROVE  /\ [d EXCEPT !.Version = x] = Doc(x, d.MinClientVersion, d.Service, d.PrevConfigHash, d.Inner,
                                             d.Guardians, d.Signatures)
           /\ [d EXCEPT !.MinClientVersion = x] = Doc(d.Version, x, d.Service, d.PrevConfigHash,
                                                      d.Inner, d.Guardians, d.Signatures)
           /\ [d EXCEPT !.PrevConfigHash = x] = Doc(d.Version, d.MinClientVersion, d.Service, x,
                                                    d.Inner, d.Guardians, d.Signatures)
           /\ [d EXCEPT !.Guardians = x] = Doc(d.Version, d.MinClientVersion, d.Service,
                                               d.PrevConfigHash, d.Inner, x, d.Signatures)
BY DEF IsDoc, Doc

\* The fields of a document.
LEMMA DocFields ==
    ASSUME NEW v, NEW m, NEW s \in Services, NEW p, NEW i, NEW g, NEW x
    PROVE  LET d == Doc(v, m, s, p, i, g, x)
           IN /\ IsDoc(d)
              /\ d.Version = v /\ d.MinClientVersion = m /\ d.Service = s /\ d.PrevConfigHash = p
              /\ d.Inner = i /\ d.Guardians = g /\ d.Signatures = x
BY DEF IsDoc, Doc

\* What is written of an inner configuration is read again as it was, and the other way round.
LEMMA InnerFormats ==
    ASSUME NEW s \in Services
    PROVE  /\ \A inner : InnerConf(s, inner) =>
                /\ InnerText(s, MarshalInner(s, inner)) /\ decodeInner(MarshalInner(s, inner)) = inner
                /\ MarshalInner(s, inner).Version = inner.Version
                /\ MarshalInner(s, inner).Servers = inner.Servers
                /\ inner.Version \in Versions(s)
           /\ \A text : InnerText(s, text) =>
                /\ InnerConf(s, decodeInner(text)) /\ MarshalInner(s, decodeInner(text)) = text
                /\ decodeInner(text).Servers = text.Servers
                /\ text.Version \in Versions(s)
<1>1. ASSUME NEW inner, InnerConf(s, inner)
      PROVE  /\ InnerText(s, MarshalInner(s, inner)) /\ decodeInner(MarshalInner(s, inner)) = inner
             /\ MarshalInner(s, inner).Version = inner.Version
             /\ MarshalInner(s, inner).Servers = inner.Servers
             /\ inner.Version \in Versions(s)
  <2>1. CASE inner.Version = 1
    <3>1. /\ inner = [Version |-> 1, Servers |-> inner.Servers, Registrar |-> inner.Registrar]
          /\ inner.Registrar = [Key |-> Unset, Address |-> inner.Registrar.Address]
          /\ s # "AddFriend" => inner.Registrar.Address = Unset
      BY <1>1, <2>1 DEF InnerConf
    <3> DEFINE text == v1(s, inner)
    <3>2. MarshalInner(s, inner) = text
      BY <2>1 DEF MarshalInner
    <3>3. /\ text = [Version |-> 1, Servers |-> inner.Servers, RegistrarHost |-> inner.Registrar.Address]
          /\ text.Version = 1 /\ text.Servers = inner.Servers
          /\ text.RegistrarHost = inner.Registrar.Address
      BY <3>1 DEF v1
    <3> HIDE DEF text
    <3>4. InnerText(s, text)
      BY <3>1, <3>3 DEF InnerText
    <3>5. decodeInner(text) = inner
      BY <3>1, <3>3 DEF decodeInner, fromV1
    <3>6. QED BY <2>1, <3>2, <3>3, <3>4, <3>5 DEF Versions, LatestVersion
  <2>2. CASE inner.Version # 1
    <3>1. /\ inner = [Version |-> 2, Servers |-> inner.Servers, Registrar |-> inner.Registrar]
          /\ s = "AddFriend" /\ inner.Version = 2
      BY <1>1, <2>2 DEF InnerConf
    <3> DEFINE text == v2(inner)
    <3>2. MarshalInner(s, inner) = text
      BY <2>2 DEF MarshalInner
    <3>3. /\ text = [Version |-> 2, Servers |-> inner.Servers, Registrar |-> inner.Registrar]
          /\ text.Version = 2 /\ text.Servers = inner.Servers /\ text.Registrar = inner.Registrar
      BY DEF v2
    <3> HIDE DEF text
    <3>4. InnerText(s, text)
      BY <3>1, <3>3 DEF InnerText
    <3>5. decodeInner(text) = inner
      BY <3>1, <3>3 DEF decodeInner, fromV2
    <3>6. QED BY <3>1, <3>2, <3>3, <3>4, <3>5 DEF Versions, LatestVersion
  <2>3. QED BY <2>1, <2>2
<1>2. ASSUME NEW text, InnerText(s, text)
      PROVE  /\ InnerConf(s, decodeInner(text)) /\ MarshalInner(s, decodeInner(text)) = text
             /\ decodeInner(text).Servers = text.Servers
             /\ text.Version \in Versions(s)
  <2> DEFINE inner == decodeInner(text)
  <2>1. CASE text.Version = 1
    <3>1. /\ text = [Version |-> 1, Servers |-> text.Servers, RegistrarHost |-> text.RegistrarHost]
          /\ s # "AddFriend" => text.RegistrarHost = Unset
      BY <1>2, <2>1 DEF InnerText
    <3>2. inner = [Version |-> 1, Servers |-> text.Servers,
                   Registrar |-> [Key |-> Unset, Address |-> text.RegistrarHost]]
      BY <2>1 DEF decodeInner, fromV1
    <3> HIDE DEF inner
    <3>3. /\ inner.Version = 1 /\ inner.Servers = text.Servers
          /\ inner.Registrar = [Key |-> Unset, Address |-> text.RegistrarHost]
          /\ inner.Registrar.Address = text.RegistrarHost
      BY <3>2
    <3>4. InnerConf(s, inner)
      BY <3>1, <3>2, <3>3 DEF InnerConf
    <3>5. MarshalInner(s, inner) = text
      <4>1. (IF s = "AddFriend" THEN text.RegistrarHost ELSE Unset) = text.RegistrarHost
        BY <3>1
      <4>2. MarshalInner(s, inner) =
              [Version |-> 1, Servers |-> text.Servers,
               RegistrarHost |-> IF s = "AddFriend" THEN text.RegistrarHost ELSE Unset]
        BY <3>3 DEF MarshalInner, v1
      <4>3. QED BY <3>1, <4>1, <4>2
    <3>6. QED BY <2>1, <3>3, <3>4, <3>5 DEF inner, Versions, LatestVersion
  <2>2. CASE text.Version # 1
    <3>1. /\ text = [Version |-> 2, Servers |-> text.Servers, Registrar |-> text.Registrar]
          /\ s = "AddFriend" /\ text.Version = 2
      BY <1>2, <2>2 DEF InnerText
    <3>2. inner = [Version |-> 2, Servers |-> text.Servers, Registrar |-> text.Registrar]
      BY <2>2 DEF decodeInner, fromV2
    <3> HIDE DEF inner
    <3>3. inner.Version = 2 /\ inner.Servers = text.Servers /\ inner.Registrar = text.Registrar
      BY <3>2
    <3>4. InnerConf(s, inner)
      BY <3>1, <3>2, <3>3 DEF InnerConf
    <3>5. MarshalInner(s, inner) = text
      BY <3>1, <3>3 DEF MarshalInner, v2
    <3>6. QED BY <3>1, <3>3, <3>4, <3>5 DEF inner, Versions, LatestVersion
  <2>3. QED BY <2>1, <2>2
<1>3. QED BY <1>1, <1>2

\* A configuration that is written and read is the same; a hash is of all but the signatures.
LEMMA MarshalFacts ==
    ASSUME NEW conf, IsConf(conf)
    PROVE  /\ IsText(Marshal(conf)) /\ Unmarshal(Marshal(conf)) = conf
           /\ SameButInner(Marshal(conf), conf)
           /\ Unsigned(Marshal(conf)) = SigningMessage(conf)
           /\ SigningMessage(conf).Guardians = conf.Guardians
           /\ conf.Version = SignedConfigVersion => Decodes(Marshal(conf))
<1> DEFINE s == conf.Service
           inner == MarshalInner(s, conf.Inner)
           text == Marshal(conf)
<1>1. s \in Services /\ InnerConf(s, conf.Inner) /\ IsDoc(conf)
  BY DEF IsConf, IsDoc
<1>2. /\ InnerText(s, inner) /\ decodeInner(inner) = conf.Inner
      /\ inner.Version = conf.Inner.Version /\ conf.Inner.Version \in Versions(s)
  BY <1>1, InnerFormats
<1> HIDE DEF inner
<1>3. text = Doc(conf.Version, conf.MinClientVersion, s, conf.PrevConfigHash, inner, conf.Guardians,
                 conf.Signatures)
  BY <1>1, DocWith DEF Marshal, inner
<1> HIDE DEF text
<1>4. IsDoc(text) /\ text.Inner = inner /\ SameButInner(text, conf)
  BY <1>1, <1>3, DocFields DEF SameButInner
<1>5. IsText(text)
  BY <1>2, <1>4 DEF IsText, SameButInner
<1>6. Unmarshal(text) = conf
  <2>1. Unmarshal(text) =
          Doc(text.Version, text.MinClientVersion, text.Service, text.PrevConfigHash, conf.Inner,
              text.Guardians, text.Signatures)
    BY <1>2, <1>4, DocWith DEF Unmarshal
  <2>2. QED BY <1>1, <1>4, <2>1 DEF IsDoc, SameButInner
<1> DEFINE msg == Doc(conf.Version, conf.MinClientVersion, s, conf.PrevConfigHash, inner,
                      conf.Guardians, << >>)
<1>7. Unsigned(text) = msg
  <2>1. Unsigned(text) = Doc(text.Version, text.MinClientVersion, text.Service, text.PrevConfigHash,
                             text.Inner, text.Guardians, << >>)
    BY <1>4, DocWith DEF Unsigned
  <2>2. QED BY <1>4, <2>1 DEF SameButInner
<1>8. SigningMessage(conf) = msg
  <2> DEFINE bare == [conf EXCEPT !.Signatures = << >>]
  <2>1. bare = Doc(conf.Version, conf.MinClientVersion, s, conf.PrevConfigHash, conf.Inner,
                   conf.Guardians, << >>)
    BY <1>1, DocWith
  <2>2. SigningMessage(conf) = [bare EXCEPT !.Inner = inner]
    BY DEF SigningMessage, inner
  <2> HIDE DEF bare
  <2>3. /\ IsDoc(bare) /\ bare.Version = conf.Version
        /\ bare.MinClientVersion = conf.MinClientVersion /\ bare.Service = s
        /\ bare.PrevConfigHash = conf.PrevConfigHash /\ bare.Guardians = conf.Guardians
        /\ bare.Signatures = << >>
    BY <1>1, <2>1, DocFields
  <2>4. [bare EXCEPT !.Inner = inner] =
          Doc(bare.Version, bare.MinClientVersion, bare.Service, bare.PrevConfigHash, inner,
              bare.Guardians, bare.Signatures)
    BY <2>3, DocWith
  <2>5. QED BY <2>2, <2>3, <2>4
<1>9. msg.Guardians = conf.Guardians
  BY <1>1, DocFields
<1>10. conf.Version = SignedConfigVersion => Decodes(text)
  BY <1>2, <1>4 DEF Decodes, SameButInner
<1>11. QED BY <1>4, <1>5, <1>6, <1>7, <1>8, <1>9, <1>10 DEF text

\* So is a text that is read and written.
LEMMA UnmarshalFacts ==
    ASSUME NEW text, IsText(text)
    PROVE  /\ IsConf(Unmarshal(text)) /\ Marshal(Unmarshal(text)) = text
           /\ SameButInner(Unmarshal(text), text)
           /\ SigningMessage(Unmarshal(text)) = Unsigned(text)
           /\ Sent(text) = Unmarshal(text)
<1> DEFINE s == text.Service
           inner == decodeInner(text.Inner)
           conf == Unmarshal(text)
<1>1. s \in Services /\ InnerText(s, text.Inner) /\ IsDoc(text)
  BY DEF IsText, IsDoc
<1>2. InnerConf(s, inner) /\ MarshalInner(s, inner) = text.Inner
  BY <1>1, InnerFormats
<1> HIDE DEF inner
<1>3. conf = Doc(text.Version, text.MinClientVersion, s, text.PrevConfigHash, inner, text.Guardians,
                 text.Signatures)
  BY <1>1, DocWith DEF Unmarshal, inner
<1> HIDE DEF conf
<1>4. IsDoc(conf) /\ conf.Inner = inner /\ SameButInner(conf, text)
  BY <1>1, <1>3, DocFields DEF SameButInner
<1>5. IsConf(conf)
  BY <1>2, <1>4 DEF IsConf, SameButInner
<1>6. Marshal(conf) = text
  <2>1. Marshal(conf) =
          Doc(conf.Version, conf.MinClientVersion, conf.Service, conf.PrevConfigHash, text.Inner,
              conf.Guardians, conf.Signatures)
    BY <1>2, <1>4, DocWith DEF Marshal, SameButInner
  <2>2. QED BY <1>1, <1>4, <2>1 DEF IsDoc, SameButInner
<1>7. SigningMessage(conf) = Unsigned(text)
  BY <1>5, <1>6, MarshalFacts
<1>8. Sent(text) = conf
  BY <1>6 DEF Sent, conf
<1>9. QED BY <1>4, <1>5, <1>6, <1>7, <1>8 DEF conf

\* A signature that is added to a text changes nothing else of it.
LEMMA SignedText ==
    ASSUME NEW text, IsText(text), NEW x
    PROVE  LET signed == Marshal([Unmarshal(text) EXCEPT !.Signatures = x])
           IN /\ signed = [text EXCEPT !.Signatures = x]
              /\ IsText(signed) /\ signed.Signatures = x
              /\ Unsigned(signed) = Unsigned(text)
              /\ signed.PrevConfigHash = text.PrevConfigHash
<1> DEFINE conf == Unmarshal(text)
           c2 == [conf EXCEPT !.Signatures = x]
           t2 == [text EXCEPT !.Signatures = x]
<1>1. IsConf(conf) /\ IsDoc(conf) /\ Marshal(conf) = text /\ SameButInner(conf, text)
  BY UnmarshalFacts DEF IsConf
<1>2. IsDoc(text) /\ text.Service \in Services /\ InnerText(text.Service, text.Inner)
  BY DEF IsText, IsDoc
<1>3. MarshalInner(conf.Service, conf.Inner) = text.Inner
  <2>1. [conf EXCEPT !.Inner = MarshalInner(conf.Service, @)].Inner
          = MarshalInner(conf.Service, conf.Inner)
    BY <1>1, DocWith, DocFields DEF IsDoc
  <2>2. QED BY <1>1, <2>1 DEF Marshal
<1> HIDE DEF conf
<1>4. /\ c2 = Doc(text.Version, text.MinClientVersion, text.Service, text.PrevConfigHash, conf.Inner,
                  text.Guardians, x)
      /\ t2 = Doc(text.Version, text.MinClientVersion, text.Service, text.PrevConfigHash, text.Inner,
                  text.Guardians, x)
  <2>1. c2 = Doc(conf.Version, conf.MinClientVersion, conf.Service, conf.PrevConfigHash, conf.Inner,
                 conf.Guardians, x)
    BY <1>1, DocWith
  <2>2. t2 = Doc(text.Version, text.MinClientVersion, text.Service, text.PrevConfigHash, text.Inner,
                 text.Guardians, x)
    BY <1>2, DocWith
  <2>3. QED BY <1>1, <2>1, <2>2 DEF SameButInner
<1> HIDE DEF c2, t2
<1>5. /\ IsDoc(c2) /\ c2.Version = text.Version /\ c2.MinClientVersion = text.MinClientVersion
      /\ c2.Service = text.Service /\ c2.PrevConfigHash = text.PrevConfigHash
      /\ c2.Inner = conf.Inner /\ c2.Guardians = text.Guardians /\ c2.Signatures = x
  BY <1>2, <1>4, DocFields
<1>6. /\ IsDoc(t2) /\ t2.Version = text.Version /\ t2.MinClientVersion = text.MinClientVersion
      /\ t2.Service = text.Service /\ t2.PrevConfigHash = text.PrevConfigHash
      /\ t2.Inner = text.Inner /\ t2.Guardians = text.Guardians /\ t2.Signatures = x
  BY <1>2, <1>4, DocFields
<1>7. Marshal(c2) = t2
  <2>1. MarshalInner(c2.Service, c2.Inner) = text.Inner
    BY <1>1, <1>3, <1>5 DEF SameButInner
  <2>2. Marshal(c2) = Doc(c2.Version, c2.MinClientVersion, c2.Service, c2.PrevConfigHash, text.Inner,
                          c2.Guardians, c2.Signatures)
    BY <1>5, <2>1, DocWith DEF Marshal
  <2>3. QED BY <1>4, <1>5, <2>2
<1>8. IsText(t2)
  BY <1>2, <1>6 DEF IsText
<1>9. Unsigned(t2) = Unsigned(text)
  <2>1. Unsigned(t2) = Doc(t2.Version, t2.MinClientVersion, t2.Service, t2.PrevConfigHash, t2.Inner,
                           t2.Guardians, << >>)
    BY <1>6, DocWith DEF Unsigned
  <2>2. Unsigned(text) = Doc(text.Version, text.MinClientVersion, text.Service, text.PrevConfigHash,
                             text.Inner, text.Guardians, << >>)
    BY <1>2, DocWith DEF Unsigned
  <2>3. QED BY <1>6, <2>1, <2>2
<1>10. QED BY <1>6, <1>7, <1>8, <1>9 DEF c2, t2, conf

\* A configuration and another that is hashed as it is have the same guardians.
LEMMA SameHash ==
    ASSUME NEW conf, NEW prev, NEW other, IsConf(prev), IsConf(other), Hash(prev) = Hash(other),
           VerifyLink(conf, prev)
    PROVE  VerifyLink(conf, other)
<1>1. prev.Guardians = other.Guardians
  BY MarshalFacts DEF Hash
<1>2. QED BY <1>1 DEF VerifyLink
-----------------------------------------------------------------------------
(***************************************************************************)
(* The document on its way.                                                *)
(***************************************************************************)

\* The server's configurations pass Validate, and each is verified for the one before.
ChainKept ==
    /\ \E S : accepted \in Seq(S)
    /\ accepted # << >>
    /\ \A i \in DOMAIN accepted : IsConf(accepted[i]) /\ Validate(accepted[i])
    /\ \A i \in 2 .. Len(accepted) : VerifyLink(accepted[i], accepted[i - 1])

\* A guardian whose key a configuration or the one before it lists has signed it.
SignersKept ==
    \A i \in 2 .. Len(accepted) : \A k \in Signers(accepted[i], accepted[i - 1]) :
        <<k, SigningMessage(accepted[i])>> \in reviewed

\* The file names the configuration that it was made of.  Its signatures were made by the tool,
\* and those since the last edit are of the file as it is.
FileKept ==
    /\ complete = [after |-> complete.after, by |-> complete.by]
    /\ document # Unset =>
         /\ IsText(document)
         /\ complete.after \in DOMAIN accepted
         /\ document.PrevConfigHash = Hash(accepted[complete.after])
         /\ \A k \in DOMAIN document.Signatures : document.Signatures[k].Ed \in reviewed
         /\ \A k \in complete.by :
              /\ k \in DOMAIN document.Signatures
              /\ document.Signatures[k] = HybridSignature(k, Unsigned(document))

\* A client has what the server had.
ClientKept ==
    /\ IsConf(holding)
    /\ \E i \in DOMAIN accepted : Hash(holding) = Hash(accepted[i])

FileInv == ChainKept /\ SignersKept /\ FileKept /\ ClientKept

\* The current configuration is read as it was written.
LEMMA CurrentFacts ==
    ASSUME ChainKept
    PROVE  /\ Len(accepted) \in Nat \ {0} /\ DOMAIN accepted = 1 .. Len(accepted)
           /\ Len(accepted) \in DOMAIN accepted
           /\ IsConf(Current) /\ Validate(Current) /\ CurrentConfig = Current
           /\ \A i \in DOMAIN accepted : Unmarshal(Marshal(accepted[i])) = accepted[i]
<1>1. Len(accepted) \in Nat \ {0} /\ DOMAIN accepted = 1 .. Len(accepted)
  BY DEF ChainKept
<1>2. Len(accepted) \in DOMAIN accepted
  BY <1>1
<1>3. IsConf(Current) /\ Validate(Current)
  BY <1>2 DEF ChainKept, Current
<1>4. CurrentConfig = Current
  BY <1>3, MarshalFacts DEF CurrentConfig
<1>5. \A i \in DOMAIN accepted : Unmarshal(Marshal(accepted[i])) = accepted[i]
  BY MarshalFacts DEF ChainKept
<1>6. QED BY <1>1, <1>2, <1>3, <1>4, <1>5

\* The operator's first configuration is one that is read as it was written, and is valid.
LEMMA FirstIsGood ==
    ASSUME NEW service \in Services, NEW version \in Versions(service), NEW registrar \in Registrars
    PROVE  IsConf(FirstConfig(service, version, registrar))
           /\ Validate(FirstConfig(service, version, registrar))
<1> DEFINE reg == [Key |-> IF version = 2 THEN registrar ELSE Unset,
                   Address |-> IF service = "AddFriend" THEN registrar ELSE Unset]
           inner == [Version |-> version, Servers |-> "valid", Registrar |-> reg]
           guardians == {Entry(k, k) : k \in Keys}
           unsigned == Doc(SignedConfigVersion, SignedConfigVersion, service, Unset, inner, guardians,
                           << >>)
           sigs == [k \in Keys |-> HybridSignature(k, SigningMessage(unsigned))]
           conf == FirstConfig(service, version, registrar)
<1>1. conf = [unsigned EXCEPT !.Signatures = sigs]
  BY DEF FirstConfig, Doc
<1>2. /\ version \in {1, 2} /\ (version = 2 => service = "AddFriend")
      /\ (version = 1 => reg.Key = Unset) /\ (service # "AddFriend" => reg.Address = Unset)
      /\ reg = [Key |-> reg.Key, Address |-> reg.Address]
  BY DEF Versions, LatestVersion, Services
<1> HIDE DEF reg
<1>3. /\ inner = [Version |-> inner.Version, Servers |-> inner.Servers, Registrar |-> inner.Registrar]
      /\ inner.Version = version /\ inner.Registrar = reg /\ inner.Servers = "valid"
  OBVIOUS
<1> HIDE DEF inner
<1>4. InnerConf(service, inner)
  BY <1>2, <1>3 DEF InnerConf
<1> HIDE DEF guardians
<1>5. /\ IsDoc(unsigned) /\ unsigned.Version = 2 /\ unsigned.MinClientVersion = 2
      /\ unsigned.Service = service /\ unsigned.Inner = inner
  BY DocFields DEF SignedConfigVersion
<1> HIDE DEF unsigned, sigs, conf
<1>6. conf = Doc(unsigned.Version, unsigned.MinClientVersion, unsigned.Service,
                 unsigned.PrevConfigHash, unsigned.Inner, unsigned.Guardians, sigs)
  BY <1>1, <1>5, DocWith
<1>7. /\ IsDoc(conf) /\ conf.Version = 2 /\ conf.MinClientVersion = 2 /\ conf.Service = service
      /\ conf.Inner = inner
  BY <1>5, <1>6, DocFields
<1>8. IsConf(conf)
  BY <1>4, <1>7 DEF IsConf
<1>9. Validate(conf)
  BY <1>3, <1>7 DEF Validate, SignedConfigVersion
<1>10. QED BY <1>8, <1>9 DEF conf

\* So is what guardian-new-config makes, which names the one that it comes after.
LEMMA RenewedIsGood ==
    ASSUME NEW conf, IsConf(conf)
    PROVE  /\ IsConf(Renewed(conf)) /\ Renewed(conf).PrevConfigHash = Hash(conf)
           /\ Renewed(conf).Signatures = << >>
<1> DEFINE L == LatestVersion(conf.Service)
           inner == [conf.Inner EXCEPT !.Version = L]
           d1 == [conf EXCEPT !.Inner = inner]
           d2 == [d1 EXCEPT !.PrevConfigHash = Hash(conf)]
           d3 == [d2 EXCEPT !.Signatures = << >>]
           d4 == [d3 EXCEPT !.Version = SignedConfigVersion]
           d5 == [d4 EXCEPT !.MinClientVersion = SignedConfigVersion]
<1>1. conf.Service \in Services /\ InnerConf(conf.Service, conf.Inner) /\ IsDoc(conf)
  BY DEF IsConf, IsDoc
<1>2. Renewed(conf) = d5
  BY DEF Renewed
<1>3. /\ inner = [Version |-> L, Servers |-> conf.Inner.Servers, Registrar |-> conf.Inner.Registrar]
      /\ inner.Version = L /\ inner.Registrar = conf.Inner.Registrar
      /\ inner.Servers = conf.Inner.Servers
  BY <1>1 DEF InnerConf
<1> HIDE DEF inner
<1>4. InnerConf(conf.Service, inner)
  <2>1. (conf.Service = "AddFriend" /\ L = 2) \/ (conf.Service # "AddFriend" /\ L = 1)
    BY DEF LatestVersion
  <2>2. QED BY <1>1, <1>3, <2>1 DEF InnerConf
<1>5. IsDoc(d1) /\ d1.Service = conf.Service /\ d1.Inner = inner
  <2>1. d1 = Doc(conf.Version, conf.MinClientVersion, conf.Service, conf.PrevConfigHash,
               inner, conf.Guardians, conf.Signatures)
    BY <1>1, DocWith
  <2> HIDE DEF d1
  <2>2. QED BY <1>1, <1>1, <2>1, DocFields
<1> HIDE DEF d1
<1>6. IsDoc(d2) /\ d2.Service = conf.Service /\ d2.Inner = inner /\ d2.PrevConfigHash = Hash(conf)
  <2>1. d2 = Doc(d1.Version, d1.MinClientVersion, d1.Service, Hash(conf),
               d1.Inner, d1.Guardians, d1.Signatures)
    BY <1>5, DocWithOther
  <2> HIDE DEF d2
  <2>2. QED BY <1>1, <1>5, <2>1, DocFields
<1> HIDE DEF d2
<1>7. IsDoc(d3) /\ d3.Service = conf.Service /\ d3.Inner = inner
      /\ d3.PrevConfigHash = Hash(conf) /\ d3.Signatures = << >>
  <2>1. d3 = Doc(d2.Version, d2.MinClientVersion, d2.Service, d2.PrevConfigHash,
               d2.Inner, d2.Guardians, << >>)
    BY <1>6, DocWith
  <2> HIDE DEF d3
  <2>2. QED BY <1>1, <1>6, <2>1, DocFields
<1> HIDE DEF d3
<1>8. IsDoc(d4) /\ d4.Service = conf.Service /\ d4.Inner = inner
      /\ d4.PrevConfigHash = Hash(conf) /\ d4.Signatures = << >>
  <2>1. d4 = Doc(SignedConfigVersion, d3.MinClientVersion, d3.Service, d3.PrevConfigHash,
               d3.Inner, d3.Guardians, d3.Signatures)
    BY <1>7, DocWithOther
  <2> HIDE DEF d4
  <2>2. QED BY <1>1, <1>7, <2>1, DocFields
<1> HIDE DEF d4
<1>9. IsDoc(d5) /\ d5.Service = conf.Service /\ d5.Inner = inner
      /\ d5.PrevConfigHash = Hash(conf) /\ d5.Signatures = << >>
  <2>1. d5 = Doc(d4.Version, SignedConfigVersion, d4.Service, d4.PrevConfigHash,
               d4.Inner, d4.Guardians, d4.Signatures)
    BY <1>8, DocWithOther
  <2> HIDE DEF d5
  <2>2. QED BY <1>1, <1>8, <2>1, DocFields
<1> HIDE DEF d5
<1>10. QED BY <1>2, <1>4, <1>9 DEF IsConf

\* guardian-new-config: the file names the current configuration, and nobody has signed it.
LEMMA NewFileStep == ASSUME FileInv, NewFile PROVE FileInv'
<1> DEFINE conf == Renewed(Current)
<1>1. /\ document' = Marshal(conf) /\ complete' = [after |-> Len(accepted), by |-> {}]
      /\ accepted' = accepted /\ holding' = holding /\ reviewed' = reviewed
  BY CurrentFacts DEF NewFile, FileInv
<1>2. IsConf(conf) /\ conf.PrevConfigHash = Hash(Current) /\ conf.Signatures = << >>
  BY CurrentFacts, RenewedIsGood DEF FileInv
<1> HIDE DEF conf
<1>3. /\ IsText(document') /\ document'.PrevConfigHash = Hash(Current)
      /\ document'.Signatures = << >>
  BY <1>1, <1>2, MarshalFacts DEF SameButInner
<1>4. Len(accepted) \in DOMAIN accepted
  BY CurrentFacts DEF FileInv
<1>5. FileKept'
  <2>1. /\ complete'.after = Len(accepted) /\ complete'.by = {}
        /\ complete' = [after |-> complete'.after, by |-> complete'.by]
    BY <1>1
  <2>2. DOMAIN document'.Signatures = {}
    BY <1>3
  <2>3. QED BY <1>1, <1>3, <1>4, <2>1, <2>2 DEF FileKept, Current
<1>6. QED BY <1>1, <1>5 DEF FileInv, ChainKept, SignersKept, ClientKept

\* An edit changes what is signed, and leaves the signatures that are there.
LEMMA EditStep == ASSUME FileInv, EditFile PROVE FileInv'
<1>1. IsText(document) /\ IsDoc(document) /\ InnerText(document.Service, document.Inner)
  BY DEF EditFile, FileInv, FileKept, IsText
<1> DEFINE Edited(text) == /\ Edit(text) /\ IsText(text)
                           /\ text.PrevConfigHash = document.PrevConfigHash
                           /\ text.Signatures = document.Signatures
<1>2. ASSUME NEW version, NEW min, EditVersions(version, min)
      PROVE  \E text : Edited(text)
  <2> DEFINE d1 == [document EXCEPT !.Version = version]
             d2 == [d1 EXCEPT !.MinClientVersion = min]
  <2>1. d1 = Doc(version, document.MinClientVersion, document.Service, document.PrevConfigHash,
                 document.Inner, document.Guardians, document.Signatures)
    BY <1>1, DocWithOther
  <2>2. Edit(d2)
    BY <1>2 DEF EditVersions
  <2> HIDE DEF d1
  <2>3. /\ IsDoc(d1) /\ d1.Service = document.Service /\ d1.PrevConfigHash = document.PrevConfigHash
        /\ d1.Inner = document.Inner /\ d1.Signatures = document.Signatures
    BY <1>1, <2>1, DocFields DEF IsDoc
  <2>4. d2 = Doc(d1.Version, min, d1.Service, d1.PrevConfigHash, d1.Inner, d1.Guardians,
                 d1.Signatures)
    BY <2>3, DocWithOther
  <2> HIDE DEF d2
  <2>5. /\ IsDoc(d2) /\ d2.Service = document.Service /\ d2.PrevConfigHash = document.PrevConfigHash
        /\ d2.Inner = document.Inner /\ d2.Signatures = document.Signatures
    BY <2>3, <2>4, DocFields DEF IsDoc
  <2>6. QED BY <1>1, <2>2, <2>5 DEF IsText
<1>3. ASSUME NEW guardians, EditGuardians(guardians)
      PROVE  \E text : Edited(text)
  <2> DEFINE text == [document EXCEPT !.Guardians = guardians]
  <2>1. text = Doc(document.Version, document.MinClientVersion, document.Service,
                   document.PrevConfigHash, document.Inner, guardians, document.Signatures)
    BY <1>1, DocWithOther
  <2>2. Edit(text)
    BY <1>3 DEF EditGuardians
  <2> HIDE DEF text
  <2>3. /\ IsDoc(text) /\ text.Service = document.Service
        /\ text.PrevConfigHash = document.PrevConfigHash
        /\ text.Inner = document.Inner /\ text.Signatures = document.Signatures
    BY <1>1, <2>1, DocFields DEF IsDoc
  <2>4. QED BY <1>1, <2>2, <2>3 DEF IsText
<1>4. ASSUME NEW inner, InnerText(document.Service, inner), Edit([document EXCEPT !.Inner = inner])
      PROVE  \E text : Edited(text)
  <2> DEFINE text == [document EXCEPT !.Inner = inner]
  <2>1. text = Doc(document.Version, document.MinClientVersion, document.Service,
                   document.PrevConfigHash, inner, document.Guardians, document.Signatures)
    BY <1>1, DocWith
  <2>2. Edit(text)
    BY <1>4
  <2> HIDE DEF text
  <2>3. /\ IsDoc(text) /\ text.Service = document.Service
        /\ text.PrevConfigHash = document.PrevConfigHash
        /\ text.Inner = inner /\ text.Signatures = document.Signatures
    BY <1>1, <2>1, DocFields DEF IsDoc
  <2>4. QED BY <1>4, <2>2, <2>3 DEF IsText
<1>5. ASSUME NEW servers, EditServers(servers)
      PROVE  \E text : Edited(text)
  <2> DEFINE inner == [document.Inner EXCEPT !.Servers = servers]
  <2>1. Edit([document EXCEPT !.Inner = inner])
    BY <1>5 DEF EditServers
  <2>2. InnerText(document.Service, inner)
    BY <1>1 DEF InnerText
  <2> HIDE DEF inner
  <2>3. QED BY <1>4, <2>1, <2>2
<1>6. ASSUME NEW key, NEW address, EditRegistrar(key, address)
      PROVE  \E text : Edited(text)
  <2> DEFINE inner == [document.Inner EXCEPT !.Registrar = [Key |-> key, Address |-> address]]
  <2>1. Edit([document EXCEPT !.Inner = inner]) /\ document.Inner.Version = 2
    BY <1>6 DEF EditRegistrar
  <2>2. InnerText(document.Service, inner)
    BY <1>1, <2>1 DEF InnerText
  <2> HIDE DEF inner
  <2>3. QED BY <1>4, <2>1, <2>2
<1>7. PICK text : Edited(text)
  BY <1>2, <1>3, <1>5, <1>6 DEF EditFile
<1>8. /\ document' = text /\ accepted' = accepted /\ holding' = holding /\ reviewed' = reviewed
      /\ document # Unset /\ complete' = [complete EXCEPT !.by = {}]
  BY <1>7 DEF Edit, EditFile
<1>9. FileKept'
  <2>1. /\ complete'.after = complete.after /\ complete'.by = {}
        /\ complete' = [after |-> complete'.after, by |-> complete'.by]
    BY <1>8 DEF FileInv, FileKept
  <2>2. QED BY <1>7, <1>8, <2>1 DEF FileInv, FileKept
<1>10. QED BY <1>8, <1>9 DEF FileInv, ChainKept, SignersKept, ClientKept

\* guardian-sign-config: the signature is of the text that the guardian has in front of it.
LEMMA SignStep == ASSUME FileInv, document # Unset, NEW key \in Keys, SignFile(key) PROVE FileInv'
<1> DEFINE conf == Unmarshal(document)
           msg == Unsigned(document)
           signature == HybridSignature(key, msg)
           sigs == [k \in DOMAIN document.Signatures \cup {key} |->
                       IF k = key THEN signature ELSE document.Signatures[k]]
<1>1. IsText(document)
  BY DEF FileInv, FileKept
<1>2. conf.Signatures = document.Signatures /\ SigningMessage(conf) = msg
  BY <1>1, UnmarshalFacts DEF SameButInner
<1>3. /\ document' = Marshal([conf EXCEPT !.Signatures = sigs])
      /\ reviewed' = reviewed \cup {<<key, msg>>}
      /\ complete' = [complete EXCEPT !.by = @ \cup {key}]
      /\ accepted' = accepted /\ holding' = holding
  BY <1>2 DEF SignFile
<1> HIDE DEF sigs
<1>4. /\ IsText(document') /\ document'.Signatures = sigs /\ Unsigned(document') = msg
      /\ document'.PrevConfigHash = document.PrevConfigHash
  BY <1>1, <1>3, SignedText
<1>5. /\ DOMAIN sigs = DOMAIN document.Signatures \cup {key} /\ sigs[key] = signature
      /\ \A k \in DOMAIN document.Signatures : k # key => sigs[k] = document.Signatures[k]
  BY DEF sigs
<1>6. signature.Ed = <<key, msg>>
  BY DEF HybridSignature
<1> HIDE DEF signature, msg
<1>7. FileKept'
  <2>1. /\ complete'.after = complete.after /\ complete'.by = complete.by \cup {key}
        /\ complete' = [after |-> complete'.after, by |-> complete'.by]
    BY <1>3 DEF FileInv, FileKept
  <2>2. \A k \in DOMAIN document'.Signatures : document'.Signatures[k].Ed \in reviewed'
    BY <1>3, <1>4, <1>5, <1>6 DEF FileInv, FileKept
  <2>3. \A k \in complete'.by : /\ k \in DOMAIN document'.Signatures
                               /\ document'.Signatures[k] = HybridSignature(k, Unsigned(document'))
    BY <1>4, <1>5, <2>1 DEF FileInv, FileKept, signature, msg
  <2>4. QED BY <1>3, <1>4, <2>1, <2>2, <2>3 DEF FileInv, FileKept
<1>8. SignersKept'
  BY <1>3 DEF FileInv, SignersKept
<1>9. QED BY <1>3, <1>7, <1>8 DEF FileInv, ChainKept, ClientKept

\* Who is verified for a link has signed it.
LEMMA LinkIsSigned ==
    ASSUME NEW conf, NEW prev, VerifyLink(conf, prev), NEW k \in Signers(conf, prev)
    PROVE  k \in DOMAIN conf.Signatures /\ conf.Signatures[k].Ed = <<k, SigningMessage(conf)>>
<1>1. PICK g \in conf.Guardians \cup prev.Guardians : g.Key = k
  BY DEF Signers
<1>2. \E h \in conf.Guardians \cup prev.Guardians : h.Key = k /\ verifyHybridGuardianSig(conf, h)
  BY <1>1 DEF VerifyLink
<1>3. QED BY <1>2 DEF verifyHybridGuardianSig

\* guardian-upload-config and newConfigHandler.
LEMMA UploadStep == ASSUME FileInv, document # Unset, Upload PROVE FileInv'
<1> DEFINE conf == Unmarshal(document)
           n == Len(accepted)
<1>1. IsText(document) /\ \A k \in DOMAIN document.Signatures : document.Signatures[k].Ed \in reviewed
  BY DEF FileInv, FileKept
<1>2. IsConf(conf) /\ conf.Signatures = document.Signatures /\ Sent(document) = conf
  BY <1>1, UnmarshalFacts DEF SameButInner
<1>3. /\ accepted' = Append(accepted, conf) /\ Validate(conf) /\ VerifyLink(conf, Current)
      /\ document' = document /\ holding' = holding /\ reviewed' = reviewed /\ complete' = complete
  BY <1>2 DEF Upload, IsAccepted, Readable
<1>4. \A k \in Signers(conf, Current) : <<k, SigningMessage(conf)>> \in reviewed
  BY <1>1, <1>2, <1>3, LinkIsSigned
<1> HIDE DEF conf
<1>5. PICK S : accepted \in Seq(S)
  BY DEF FileInv, ChainKept
<1>6. /\ n \in Nat /\ DOMAIN accepted = 1 .. n /\ DOMAIN accepted' = 1 .. n + 1 /\ Len(accepted') = n + 1
      /\ accepted'[n + 1] = conf /\ \A i \in 1 .. n : accepted'[i] = accepted[i]
      /\ accepted' \in Seq(S \cup {conf}) /\ accepted' # << >> /\ n # 0
  <2>1. accepted \in Seq(S \cup {conf}) /\ conf \in S \cup {conf}
    BY <1>5
  <2>2. accepted # << >>
    BY DEF FileInv, ChainKept
  <2>3. QED BY <1>3, <2>1, <2>2
<1>7. ASSUME NEW i \in 2 .. n + 1
      PROVE  \/ i \in 2 .. n /\ accepted'[i] = accepted[i] /\ accepted'[i - 1] = accepted[i - 1]
             \/ accepted'[i] = conf /\ accepted'[i - 1] = Current
  <2>1. CASE i = n + 1
    BY <1>6, <2>1 DEF Current
  <2>2. CASE i # n + 1
    BY <1>6, <2>2
  <2>3. QED BY <2>1, <2>2
<1>8. ChainKept'
  <2>1. \A i \in DOMAIN accepted' : IsConf(accepted'[i]) /\ Validate(accepted'[i])
    <3>1. \A i \in 1 .. n + 1 : i \in 1 .. n \/ i = n + 1
      BY <1>6
    <3>2. QED BY <1>2, <1>3, <1>6, <3>1 DEF FileInv, ChainKept
  <2>2. \A i \in 2 .. n + 1 : VerifyLink(accepted'[i], accepted'[i - 1])
    BY <1>3, <1>7 DEF FileInv, ChainKept
  <2>3. QED BY <1>6, <2>1, <2>2 DEF ChainKept
<1>9. SignersKept'
  <2>1. \A i \in 2 .. n + 1 : \A k \in Signers(accepted'[i], accepted'[i - 1]) :
          <<k, SigningMessage(accepted'[i])>> \in reviewed
    BY <1>4, <1>7 DEF FileInv, SignersKept
  <2>2. QED BY <1>3, <1>6, <2>1 DEF SignersKept
<1>10. FileKept'
  <2>1. complete.after \in DOMAIN accepted =>
          complete.after \in DOMAIN accepted' /\ accepted'[complete.after] = accepted[complete.after]
    BY <1>6
  <2>2. QED BY <1>3, <2>1 DEF FileInv, FileKept
<1>11. ClientKept'
  <2>1. PICK i \in DOMAIN accepted : Hash(holding) = Hash(accepted[i])
    BY DEF FileInv, ClientKept
  <2>2. i \in DOMAIN accepted' /\ accepted'[i] = accepted[i]
    BY <1>6
  <2>3. QED BY <1>3, <2>1, <2>2 DEF FileInv, ClientKept
<1>12. QED BY <1>8, <1>9, <1>10, <1>11 DEF FileInv

\* FetchAndVerifyChain: the client has what the server has.
LEMMA FetchStep == ASSUME FileInv, Fetch PROVE FileInv'
<1>1. /\ holding' = Current /\ accepted' = accepted /\ document' = document /\ reviewed' = reviewed
      /\ complete' = complete
  BY CurrentFacts DEF Fetch, FileInv, CurrentConfig
<1>2. IsConf(Current) /\ Len(accepted) \in DOMAIN accepted
  BY CurrentFacts DEF FileInv
<1>3. ClientKept'
  BY <1>1, <1>2 DEF ClientKept, Current
<1>4. QED BY <1>1, <1>3 DEF FileInv, ChainKept, SignersKept, FileKept

\* The chain that the server sends begins after the configuration that the client has.
LEMMA ChainBegins ==
    ASSUME FileInv, Hash(holding) # Hash(Current)
    PROVE  \E first \in 2 .. Len(accepted) :
             /\ Hash(accepted[first - 1]) = Hash(holding)
             /\ ChainFrom(holding) = [i \in 1 .. Len(accepted) - first + 1 |-> accepted[first + i - 1]]
<1> DEFINE n == Len(accepted)
           from == {i \in DOMAIN accepted : i = 1 \/ Hash(accepted[i - 1]) = Hash(holding)}
           first == CHOOSE i \in from : \A j \in from : j <= i
<1>1. n \in Nat \ {0} /\ DOMAIN accepted = 1 .. n
  BY CurrentFacts DEF FileInv
<1>2. PICK j \in 1 .. n : Hash(holding) = Hash(accepted[j])
  BY <1>1 DEF FileInv, ClientKept
<1>3. j # n
  BY <1>2 DEF Current
<1>4. j + 1 \in from /\ j + 1 >= 2
  <2>1. j + 1 \in 1 .. n /\ (j + 1) - 1 = j /\ j + 1 >= 2
    <3> HIDE DEF n
    <3>1. n \in Nat /\ j \in 1 .. n /\ j # n
      BY <1>1, <1>2, <1>3
    <3>2. QED BY <3>1
  <2>2. QED BY <1>1, <1>2, <2>1
<1>5. \E i \in from : \A k \in from : k <= i
  <2> DEFINE S == {n - i : i \in from}
  <2>1. S \subseteq Nat /\ S # {}
    BY <1>1, <1>4
  <2>2. PICK m \in S : \A x \in S : m <= x
    BY <2>1, Least
  <2>3. PICK i \in from : m = n - i
    BY <2>2
  <2>4. \A k \in from : n - k \in S /\ k \in Nat
    BY <1>1
  <2> HIDE DEF S, from, n
  <2>5. \A k \in from : k <= i
    BY <1>1, <2>2, <2>3, <2>4
  <2>6. QED BY <2>5
<1>6. first \in from /\ \A k \in from : k <= first
  BY <1>5
<1>7. ChainFrom(holding) =
        [i \in 1 .. n - first + 1 |-> Unmarshal(Marshal(accepted[first + i - 1]))]
  BY DEF ChainFrom
<1>8. \A k \in from : k \in 1 .. n /\ (k = 1 \/ Hash(accepted[k - 1]) = Hash(holding))
  BY <1>1
<1> HIDE DEF first, from
<1>9. first \in 2 .. n /\ Hash(accepted[first - 1]) = Hash(holding)
  <2>1. first >= 2 /\ first \in 1 .. n
    BY <1>1, <1>2, <1>4, <1>6, <1>8
  <2>2. QED BY <1>1, <1>6, <1>8, <2>1
<1>10. \A i \in 1 .. n - first + 1 :
         Unmarshal(Marshal(accepted[first + i - 1])) = accepted[first + i - 1]
  <2>1. \A i \in 1 .. n - first + 1 : first + i - 1 \in DOMAIN accepted
    BY <1>1, <1>9
  <2>2. QED BY <2>1, CurrentFacts DEF FileInv
<1>11. [i \in 1 .. n - first + 1 |-> Unmarshal(Marshal(accepted[first + i - 1]))]
         = [i \in 1 .. n - first + 1 |-> accepted[first + i - 1]]
  BY <1>10
<1>12. QED BY <1>7, <1>9, <1>11

\* A client that is behind verifies what the server sends.
LEMMA BehindFetches ==
    ASSUME FileInv, Hash(holding) # Hash(Current)
    PROVE  FetchIsGood
<1> DEFINE n == Len(accepted)
<1>1. PICK first \in 2 .. n :
        /\ Hash(accepted[first - 1]) = Hash(holding)
        /\ ChainFrom(holding) = [i \in 1 .. n - first + 1 |-> accepted[first + i - 1]]
  BY ChainBegins
<1> DEFINE rest == ChainFrom(holding)
           chain == <<holding>> \o rest
           N == n - first + 2
<1>2. n \in Nat \ {0} /\ DOMAIN accepted = 1 .. n /\ first \in 2 .. n
  BY CurrentFacts DEF FileInv
<1>3. PICK S : accepted \in Seq(S)
  BY DEF FileInv, ChainKept
<1>4. rest \in Seq(S \cup {holding}) /\ Len(rest) = N - 1 /\ N \in Nat /\ N >= 2
      /\ \A i \in 1 .. N - 1 : rest[i] = accepted[first + i - 1]
  <2>1. \A i \in 1 .. n - first + 1 : first + i - 1 \in 1 .. n
    BY <1>2
  <2>2. \A i \in 1 .. n : accepted[i] \in S
    BY <1>2, <1>3
  <2>3. rest \in [1 .. n - first + 1 -> S \cup {holding}] /\ n - first + 1 \in Nat
    BY <1>1, <1>2, <2>1, <2>2
  <2> HIDE DEF rest
  <2>4. rest \in Seq(S \cup {holding}) /\ Len(rest) = n - first + 1
    BY <2>3
  <2>5. N - 1 = n - first + 1 /\ N \in Nat /\ N >= 2
    BY <1>2
  <2> HIDE DEF N
  <2>6. \A i \in 1 .. n - first + 1 : rest[i] = accepted[first + i - 1]
    BY <1>1 DEF rest
  <2>7. QED BY <2>4, <2>5, <2>6
<1> HIDE DEF rest
<1>5. Len(chain) = N /\ chain[1] = holding /\ \A i \in 2 .. N : chain[i] = rest[i - 1]
  <2>1. <<holding>> \in Seq(S \cup {holding}) /\ Len(<<holding>>) = 1 /\ <<holding>>[1] = holding
    OBVIOUS
  <2>2. QED BY <1>4, <2>1
<1>6. \A i \in 2 .. N : chain[i] = accepted[first + i - 2] /\ first + i - 2 \in 2 .. n
  <2>1. ASSUME NEW i \in 2 .. N PROVE chain[i] = accepted[first + i - 2] /\ first + i - 2 \in 2 .. n
    <3>1. i - 1 \in 1 .. N - 1 /\ first + (i - 1) - 1 = first + i - 2 /\ first + i - 2 \in 2 .. n
      BY <1>2, <1>4
    <3>2. QED BY <1>4, <1>5, <3>1
  <2>2. QED BY <2>1
<1> HIDE DEF chain
<1>7. chain[N] = Current
  <2>1. N \in 2 .. N /\ first + N - 2 = n
    BY <1>2, <1>4
  <2>2. QED BY <1>6, <2>1 DEF Current
<1>8. VerifyLink(chain[2], holding)
  <2>1. 2 \in 2 .. N /\ first + 2 - 2 = first
    BY <1>2, <1>4
  <2>2. chain[2] = accepted[first]
    BY <1>6, <2>1
  <2>3. VerifyLink(accepted[first], accepted[first - 1])
    BY <1>2 DEF FileInv, ChainKept
  <2>4. first - 1 \in DOMAIN accepted
    BY <1>2
  <2>5. IsConf(accepted[first - 1]) /\ IsConf(holding)
    BY <2>4 DEF FileInv, ChainKept, ClientKept
  <2>6. QED BY <1>1, <2>2, <2>3, <2>5, SameHash
<1>9. ASSUME NEW i \in 2 .. N PROVE VerifyLink(chain[i], chain[i - 1])
  <2>1. CASE i = 2
    BY <1>5, <1>8, <2>1
  <2>2. CASE i # 2
    <3>1. i - 1 \in 2 .. N /\ first + (i - 1) - 2 = (first + i - 2) - 1
      BY <1>2, <1>4, <2>2
    <3>2. chain[i - 1] = accepted[(first + i - 2) - 1]
      BY <1>6, <3>1
    <3>3. QED BY <1>6, <3>2 DEF FileInv, ChainKept
  <2>3. QED BY <2>1, <2>2
<1>10. Validate(Current)
  BY CurrentFacts DEF FileInv
<1>11. QED BY <1>5, <1>7, <1>9, <1>10 DEF FetchIsGood, chain, rest

\* A file that is signed as it is by all who have to is verified by the server.
LEMMA SignedIsLinked ==
    ASSUME FileInv, document # Unset, Readable(document), complete.after = Len(accepted),
           Paired(Unmarshal(document)), Paired(Current),
           Signers(Unmarshal(document), Current) \subseteq complete.by
    PROVE  IsAccepted(document)
<1> DEFINE conf == Unmarshal(document)
<1>1. IsText(document) /\ document.PrevConfigHash = Hash(Current)
  BY DEF FileInv, FileKept, Current
<1>2. /\ SigningMessage(conf) = Unsigned(document) /\ Sent(document) = conf
      /\ Marshal(conf) = document /\ SameButInner(conf, document)
  BY <1>1, UnmarshalFacts
<1>3. ASSUME NEW g \in conf.Guardians \cup Current.Guardians PROVE verifyHybridGuardianSig(conf, g)
  <2>1. g.Key \in complete.by /\ g.PQKey = g.Key
    BY DEF Signers, Paired
  <2>2. g.Key \in DOMAIN conf.Signatures
        /\ conf.Signatures[g.Key] = HybridSignature(g.Key, SigningMessage(conf))
    BY <1>2, <2>1 DEF FileInv, FileKept, SameButInner
  <2> HIDE DEF conf
  <2>3. QED BY <2>1, <2>2 DEF verifyHybridGuardianSig, HybridSignature
<1>4. conf.PrevConfigHash = Hash(Current)
  BY <1>1, <1>2 DEF SameButInner
<1> HIDE DEF conf
<1>5. VerifyLink(conf, Current)
  BY <1>3, <1>4 DEF VerifyLink
<1>6. QED BY <1>2, <1>5 DEF IsAccepted, conf

\* The invariant of a document's way holds.
THEOREM FileInvHolds == ConfigFileSpec => []FileInv
<1>1. ConfigFileInit => FileInv
  <2> SUFFICES ASSUME ConfigFileInit PROVE FileInv
    OBVIOUS
  <2>1. PICK first : /\ accepted = <<first>> /\ IsConf(first) /\ Validate(first)
    BY FirstIsGood DEF ConfigFileInit
  <2>2. /\ accepted \in Seq({first}) /\ accepted # << >> /\ DOMAIN accepted = {1} /\ Len(accepted) = 1
        /\ accepted[1] = first /\ 2 .. Len(accepted) = {}
    BY <2>1
  <2>3. ChainKept /\ SignersKept
    BY <2>1, <2>2 DEF ChainKept, SignersKept
  <2>4. FileKept
    BY DEF ConfigFileInit, FileKept
  <2>5. ClientKept
    BY <2>1, <2>2 DEF ConfigFileInit, ClientKept
  <2>6. QED BY <2>3, <2>4, <2>5 DEF FileInv
<1>2. FileInv /\ [ConfigFileNext]_fileVars => FileInv'
  <2> SUFFICES ASSUME FileInv, [ConfigFileNext]_fileVars PROVE FileInv'
    OBVIOUS
  <2>1. CASE UNCHANGED fileVars
    BY <2>1 DEF fileVars, FileInv, ChainKept, SignersKept, FileKept, ClientKept
  <2>2. QED
    BY <2>1, NewFileStep, EditStep, SignStep, UploadStep, FetchStep DEF ConfigFileNext
<1>3. QED BY <1>1, <1>2, PTL DEF ConfigFileSpec

\* Whatever is edited, whoever signs, and through whichever formats it goes: what the server and
\* a client have is, written out, a text that every guardian who had to agree has signed.
THEOREM WhatIsUsedWasSigned == ConfigFileSpec => []UsedAsSigned
<1>1. FileInv => UsedAsSigned
  <2> SUFFICES ASSUME FileInv PROVE UsedAsSigned
    OBVIOUS
  <2>1. \A i \in DOMAIN accepted : Unsigned(Marshal(accepted[i])) = Hash(accepted[i])
    BY MarshalFacts DEF FileInv, ChainKept, Hash
  <2>2. Unsigned(Marshal(holding)) = Hash(holding)
    BY MarshalFacts DEF FileInv, ClientKept, Hash
  <2>3. ASSUME NEW i \in 2 .. Len(accepted)
        PROVE  Signers(accepted[i], accepted[i - 1]) \X {Unsigned(Marshal(accepted[i]))} \subseteq reviewed
    <3>1. i \in DOMAIN accepted
      BY CurrentFacts DEF FileInv
    <3>2. Unsigned(Marshal(accepted[i])) = SigningMessage(accepted[i])
      BY <2>1, <3>1 DEF Hash
    <3>3. QED BY <3>2 DEF FileInv, SignersKept
  <2>4. QED BY <2>1, <2>2, <2>3 DEF UsedAsSigned, FileInv, ClientKept
<1>2. QED BY <1>1, FileInvHolds, PTL

\* No hop breaks a hash or a signature: what is made of the current configuration, and signed by
\* all who have to, is accepted, and a client that is behind verifies the chain to it.
THEOREM WhatIsSignedIsAccepted == ConfigFileSpec => []SignedIsAccepted
<1>1. FileInv => SignedIsAccepted
  BY SignedIsLinked, BehindFetches DEF SignedIsAccepted
<1>2. QED BY <1>1, FileInvHolds, PTL
=============================================================================
