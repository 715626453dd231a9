---------------------------- MODULE DialingProofs ---------------------------
(***************************************************************************)
(* What holds of any clients that call each other: any number of calls,    *)
(* rounds, secrets, crashes and failures, and handlers that overlap.       *)
(***************************************************************************)
EXTENDS Dialing, Integers, SequenceTheorems, WellFoundedInduction, TLAPS

Entries == [seed : Seeds, Round : Nat]
Maps(S) == UNION {[D -> S] : D \in SUBSET Clients}
RoundKeys == [pair : SUBSET Clients, seed : Seeds, round : Rounds]
CallObjects ==
    [state : {"none", "checked", "queued", "sending", "sent", "cancelled", "removed", "lost"},
     from : Clients \cup {Nil}, Username : Clients \cup {Nil}, intent : Intents,
     sentRound : Rounds \cup {0}, dialToken : Tokens \cup {Nil}, sessionKey : RoundKeys \cup {Nil}]
Candidates == [from : Clients, token : Tokens]
KnownEntries == [friend : Clients, seed : Seeds, round : Rounds]
TaskRecords ==
    [kind : {"send", "read", "scan"}, client : Clients, round : Rounds \cup {0},
     pc : {"stamp", "begin", "token", "key", "store", "computed", "hits", "persist"},
     call : Calls \cup {Nil}, intent : Intents, token : Tokens \cup {Nil},
     key : RoundKeys \cup {Nil}, hits : SUBSET Candidates, entries : SUBSET KnownEntries]
CallRecords ==
    [to : Clients, from : Clients, token : Tokens, Round : Rounds, Intent : Intents,
     SessionKey : RoundKeys \cup {Nil}]

\* Type invariant, for the keys, the calls, the tasks and the rounds.
KeyTypes ==
    /\ wheel \in [Clients -> Maps(Entries)]
    /\ wheelFile \in [Clients -> Maps(Entries)]
    /\ puts \in [Clients -> Maps(Seeds)]
    /\ \A c \in Clients : c \notin DOMAIN wheel[c] /\ c \notin DOMAIN wheelFile[c]
    /\ \A c \in Clients : DOMAIN puts[c] = Clients \ {c}
    /\ erased \in [Clients -> SUBSET KnownEntries]
CallTypes ==
    /\ outgoingCalls \in [Clients -> Seq(Calls)]
    /\ call \in [Calls -> CallObjects]
TaskTypes == tasks \subseteq TaskRecords
RoundTypes ==
    /\ ready \in [Clients -> SUBSET Rounds]
    /\ mixed \in [Clients -> SUBSET Rounds]
    /\ scanned \in [Clients -> SUBSET Rounds]
    /\ net \in [Rounds -> {"none", "open", "mixing", "published", "failed"}]
    /\ tokens \in [Rounds -> SUBSET Tokens]
    /\ received \subseteq CallRecords
Types == KeyTypes /\ CallTypes /\ TaskTypes /\ RoundTypes

\* Only a scan has entries and hits.
TaskKinds ==
    \A t \in tasks :
        IF t.kind = "scan" THEN t.call = Nil /\ t.round \in Rounds /\ t.pc \in {"hits", "persist"}
        ELSE t.call \in Calls /\ t.pc \notin {"hits", "persist"} /\ t.hits = {} /\ t.entries = {}

\* A wheel does not have the keys of an entry that was erased.
Past(w, e) == e.friend \in DOMAIN w /\ w[e.friend].seed = e.seed => w[e.friend].Round > e.round

\* The secrets of a wheel are no newer than those that were Put, and start at their rounds.
WheelOK(w, put) ==
    \A u \in DOMAIN w : w[u].seed <= put[u] /\ DialRound[w[u].seed] <= w[u].Round

\* Every secret in use, on the disk or known to a scan was Put, and the next one is newer.
SeedsWerePut ==
    /\ \A c \in Clients : WheelOK(wheel[c], puts[c]) /\ WheelOK(wheelFile[c], puts[c])
    /\ \A t \in tasks : \A e \in t.entries :
         e.friend # t.client /\ e.seed <= puts[t.client][e.friend] /\ e.round = t.round
    /\ \A c \in Clients : \A e \in erased[c] : e.friend # c /\ e.seed <= puts[c][e.friend]

\* What a scan has erased is erased before it is saved, and afterwards also on the disk.
ErasedForGood ==
    /\ \A t \in tasks : t.pc = "persist" => \A e \in t.entries : Past(wheel[t.client], e)
    /\ \A c \in Clients : \A e \in erased[c] : Past(wheel[c], e) /\ Past(wheelFile[c], e)

\* A token, or a key, of the call o.
TokenOf(o, token, intent) ==
    \E s \in Seeds :
        /\ DialRound[s] <= o.sentRound
        /\ token = DialToken(o.from, o.Username, s, o.sentRound, o.Username, intent)
KeyOf(o, key) == \E s \in Seeds : key = RoundKey(o.from, o.Username, s, o.sentRound)

\* A call has a token, and a key, of the one round in which it was sent.
CallOK(o) ==
    /\ o.state = "none" => o = NoCall
    /\ o.state # "none" => o.from \in Clients /\ o.Username \in Clients \ {o.from}
    /\ o.state \in {"checked", "queued"} => o.sentRound = 0
    /\ o.sentRound = 0 => o.dialToken = Nil /\ o.sessionKey = Nil
    /\ o.dialToken # Nil => TokenOf(o, o.dialToken, o.intent)
    /\ o.sessionKey # Nil => KeyOf(o, o.sessionKey)

\* A queue holds queued calls of its client, each once.
QueueOK(c, q) ==
    \A i \in DOMAIN q :
        /\ call[q[i]].state = "queued" /\ call[q[i]].from = c
        /\ \A j \in DOMAIN q : q[i] = q[j] => i = j

\* What a task is about to store is of its call, and what it is about to send is what is
\* stored.
TaskOK(t, o) ==
    /\ o.from = t.client
    /\ o.state \in (IF t.kind = "send" THEN {"sending"} ELSE {"sending", "sent"})
    /\ t.kind = "read" => t.pc \in {"begin", "token", "key", "store"}
    /\ t.pc = "stamp" => o.sentRound = 0 /\ t.round # 0
    /\ t.kind = "send" /\ t.pc # "stamp" => o.sentRound = t.round
    /\ t.pc \in {"token", "key", "store"} => o.sentRound = t.round /\ t.round # 0
    /\ t.pc \in {"key", "store"} /\ t.token # Nil => TokenOf(o, t.token, t.intent)
    /\ t.pc = "store" /\ t.key # Nil => KeyOf(o, t.key)
    /\ t.pc = "computed" /\ t.token # Nil => t.token = o.dialToken

CallsAreSentOnce ==
    /\ \A k \in Calls : CallOK(call[k])
    /\ \A c \in Clients : QueueOK(c, outgoingCalls[c])
    /\ \A t \in tasks : t.kind # "scan" => TaskOK(t, call[t.call])
    /\ \A s, t \in tasks : s.kind = "send" /\ t.kind = "send" /\ s.call = t.call => s = t

\* A candidate is a token of its friend for this client, this round and some intent, and
\* some call's unless the mailbox did not decode.
CandidateOK(c, r, from, token) ==
    /\ from # c
    /\ \E s \in Seeds : token = DialToken(c, from, s, r, c, token.intent)
    /\ [to |-> c, Round |-> r] \notin badFilters => token \in tokens[r]

\* Tokens in a round are of calls, and what is received is of its round.
TokensWereSent ==
    /\ \A r \in Rounds : \A token \in tokens[r] :
         /\ token # Nil
         /\ token.round = r
         /\ DialRound[token.seed] <= r
         /\ \E k \in Calls : call[k].dialToken = token
    /\ \A t \in tasks : \A x \in t.hits : CandidateOK(t.client, t.round, x.from, x.token)
    /\ \A x \in received :
         /\ CandidateOK(x.to, x.Round, x.from, x.token)
         /\ x.Intent = x.token.intent
         /\ x.SessionKey # Nil => \E s \in Seeds : x.SessionKey = RoundKey(x.to, x.from, s, x.Round)

\* The inductive invariant.
IInv == Types /\ TaskKinds /\ SeedsWerePut /\ ErasedForGood /\ CallsAreSentOnce /\ TokensWereSent

\* An entry is where its secret starts, or past a round that was scanned.
EntryOK(c, e) ==
    e.Round # DialRound[e.seed] => e.Round - 1 \in scanned[c]

\* The call of which this is the token was found by the scan t, or received.
Found(c, hits, e, token) ==
    token.to = c /\ token.pair = {c, e.friend} /\ token.seed = e.seed =>
        \/ [from |-> e.friend, token |-> token] \in hits
        \/ \E x \in received : x.to = c /\ x.token = token

\* With rounds that do not overlap, a round opens when those before it are over, and a mailbox
\* is opened before the next round.
RoundsInOrder ==
    /\ \A r, q \in Rounds : q < r /\ net[r] # "none" => net[q] \in {"published", "failed"}
    /\ \A c \in Clients : \A r \in ready[c] :
         /\ net[r] # "none"
         /\ net[r] = "published" /\ r \notin scanned[c] => \A q \in Rounds : q > r => net[q] = "none"
    /\ \A c \in Clients : \A r \in scanned[c] : net[r] = "published"

EntriesOK == \A c \in Clients : \A w \in {wheel[c], wheelFile[c]} : \A u \in DOMAIN w : EntryOK(c, w[u])

ScansAreOfRounds ==
    \A t \in tasks :
        t.kind = "scan" => t.round \in scanned[t.client] /\ (t.pc = "persist" => t.hits = {})

\* A scan sees all calls of its round, and has received them when it erases their keys.
CallsAreFound ==
    /\ \A t \in tasks : \A e \in t.entries : \A token \in tokens[t.round] :
         Found(t.client, t.hits, e, token)
    /\ \A c \in Clients : \A e \in erased[c] :
         /\ net[e.round] = "published"
         /\ \A token \in tokens[e.round] : Found(c, {}, e, token)

\* The inductive invariant when rounds do not overlap.
ScansAreComplete == RoundsInOrder /\ EntriesOK /\ ScansAreOfRounds /\ CallsAreFound
-----------------------------------------------------------------------------
(***************************************************************************)
(* Sequences.                                                              *)
(***************************************************************************)

\* A non-empty set of natural numbers has a least element: what induction is used for here.
LEMMA Least ==
    ASSUME NEW S, S \subseteq Nat, S # {}
    PROVE  \E n \in S : \A m \in S : n <= m
<1> DEFINE R == OpToRel(<, Nat)
<1>1. PICK n \in S : \A m \in S : ~ (<<m, n>> \in R)
  <2>1. IsWellFoundedOn(R, Nat)
    BY NatLessThanWellFounded
  <2> HIDE DEF R
  <2>2. QED BY <2>1, WFMin
<1>2. ASSUME NEW m \in S, m < n PROVE FALSE
  <2>1. <<m, n>> \in {ss \in Nat \X Nat : ss[1] < ss[2]}
    BY <1>2
  <2>2. <<m, n>> \in R
    BY <2>1 DEF OpToRel
  <2> HIDE DEF R
  <2>3. QED BY <1>1, <2>2, Zenon
<1>3. \A m \in S : n <= m
  BY <1>2
<1>4. QED BY <1>3

\* One step of the loop that Without is.
Kept(queue, dropped, kept, n) ==
    IF n = 0 THEN << >>
    ELSE IF queue[n] \in dropped THEN kept[n - 1] ELSE Append(kept[n - 1], queue[n])

\* It has a result, a sequence over S, for every length up to m.
IsComputed(queue, dropped, S, m) ==
    \E kept \in [0 .. m -> Seq(S)] : \A n \in 0 .. m : kept[n] = Kept(queue, dropped, kept, n)

\* The loop has a result for every length.
LEMMA KeptExists ==
    ASSUME NEW S, NEW queue \in Seq(S), NEW dropped, NEW m \in 0 .. Len(queue)
    PROVE  IsComputed(queue, dropped, S, m)
<1> DEFINE Good(n) == \E f \in [0 .. n -> Seq(S)] : \A i \in 0 .. n : f[i] = Kept(queue, dropped, f, i)
           Bad == {n \in 0 .. Len(queue) : ~Good(n)}
<1> SUFFICES Bad = {}
  BY DEF IsComputed
<1> SUFFICES ASSUME Bad # {} PROVE FALSE
  OBVIOUS
<1>1. PICK n \in Bad : \A i \in Bad : n <= i
  <2> HIDE DEF Good
  <2>1. Bad \subseteq Nat
    OBVIOUS
  <2>2. QED BY <2>1, Least
<1>2. n \in 0 .. Len(queue) /\ ~Good(n)
  OBVIOUS
<1>3. n # 0
  <2>1. SUFFICES ASSUME n = 0 PROVE FALSE
    OBVIOUS
  <2> DEFINE f == [i \in 0 .. 0 |-> << >>]
  <2>2. f \in [0 .. 0 -> Seq(S)]
    OBVIOUS
  <2>3. \A i \in 0 .. 0 : f[i] = Kept(queue, dropped, f, i)
    BY DEF Kept
  <2>4. QED BY <1>2, <2>1, <2>2, <2>3
<1>4. n - 1 \in 0 .. Len(queue) /\ n - 1 \notin Bad
  <2> HIDE DEF Bad, Good
  <2>1. n \in Nat /\ Len(queue) \in Nat
    BY <1>2
  <2>2. QED BY <1>1, <1>2, <1>3, <2>1
<1>5. PICK g \in [0 .. n - 1 -> Seq(S)] : \A i \in 0 .. n - 1 : g[i] = Kept(queue, dropped, g, i)
  BY <1>4
<1> DEFINE f == [i \in 0 .. n |-> IF i < n THEN g[i] ELSE Kept(queue, dropped, g, n)]
<1> HIDE DEF Bad, Good
<1>6. n \in Nat \ {0} /\ n - 1 \in 0 .. n - 1
  BY <1>2, <1>3
<1>7. Kept(queue, dropped, g, n) \in Seq(S)
  <2>1. g[n - 1] \in Seq(S) /\ queue[n] \in S
    BY <1>2, <1>6
  <2>2. Append(g[n - 1], queue[n]) \in Seq(S)
    BY <2>1
  <2>3. QED BY <1>6, <2>1, <2>2 DEF Kept
<1>8. f \in [0 .. n -> Seq(S)]
  BY <1>6, <1>7
<1>9. \A i \in 0 .. n : f[i] = Kept(queue, dropped, f, i)
  <2> SUFFICES ASSUME NEW i \in 0 .. n PROVE f[i] = Kept(queue, dropped, f, i)
    OBVIOUS
  <2>1. i # 0 => f[i - 1] = g[i - 1]
    BY <1>6
  <2>2. Kept(queue, dropped, f, i) = Kept(queue, dropped, g, i)
    <3> HIDE DEF f
    <3>1. QED BY <2>1 DEF Kept
  <2>3. CASE i < n
    BY <1>5, <1>6, <2>2, <2>3
  <2>4. CASE i = n
    BY <1>6, <2>2, <2>4
  <2>5. QED BY <1>6, <2>3, <2>4
<1>10. Good(n)
  BY <1>8, <1>9 DEF Good
<1>11. QED BY <1>2, <1>10

\* No element twice.
Distinct(q) == \A i, j \in DOMAIN q : q[i] = q[j] => i = j

\* What Without leaves: the calls of the queue that are not dropped, none twice.
LEMMA WithoutFacts ==
    ASSUME NEW S, NEW queue \in Seq(S), NEW dropped
    PROVE  /\ Without(queue, dropped) \in Seq(S)
           /\ \A i \in DOMAIN Without(queue, dropped) : \E j \in DOMAIN queue :
                Without(queue, dropped)[i] = queue[j] /\ queue[j] \notin dropped
           /\ Distinct(queue) => Distinct(Without(queue, dropped))
<1> USE DEF Distinct
<1> DEFINE Step(f) == [n \in 0 .. Len(queue) |->
                         IF n = 0 THEN << >>
                         ELSE IF queue[n] \in dropped THEN f[n - 1] ELSE Append(f[n - 1], queue[n])]
           kept == CHOOSE f : f = Step(f)
           Good(n) == /\ kept[n] \in Seq(S)
                      /\ \A i \in DOMAIN kept[n] : \E j \in 1 .. n :
                           kept[n][i] = queue[j] /\ queue[j] \notin dropped
                      /\ Distinct(queue) => Distinct(kept[n])
           Bad == {n \in 0 .. Len(queue) : ~Good(n)}
<1>1. Len(queue) \in Nat /\ DOMAIN queue = 1 .. Len(queue)
  OBVIOUS
<1>2. Without(queue, dropped) = kept[Len(queue)]
  BY DEF Without
<1>3. kept = Step(kept)
  <2>1. IsComputed(queue, dropped, S, Len(queue))
    <3>1. Len(queue) \in 0 .. Len(queue)
      BY <1>1
    <3>2. QED BY <3>1, KeptExists
  <2> HIDE DEF kept
  <2>2. PICK f \in [0 .. Len(queue) -> Seq(S)] :
          \A n \in 0 .. Len(queue) : f[n] = Kept(queue, dropped, f, n)
    BY <2>1 DEF IsComputed
  <2>3. f = Step(f)
    BY <2>2 DEF Kept
  <2> HIDE DEF Step
  <2>4. QED BY <2>3 DEF kept
<1>4. \A n \in 0 .. Len(queue) : kept[n] = Kept(queue, dropped, kept, n)
  <2> HIDE DEF kept
  <2>1. QED BY <1>3 DEF Kept
<1> HIDE DEF kept
<1>5. Bad = {}
  <2> SUFFICES ASSUME Bad # {} PROVE FALSE
    OBVIOUS
  <2>1. PICK n \in Bad : \A i \in Bad : n <= i
    <3> HIDE DEF Good
    <3>1. Bad \subseteq Nat
      BY <1>1
    <3>2. QED BY <3>1, Least
  <2>2. n \in 0 .. Len(queue) /\ ~Good(n)
    OBVIOUS
  <2>3. n # 0
    <3>1. SUFFICES ASSUME n = 0 PROVE FALSE
      OBVIOUS
    <3>2. kept[n] = << >>
      BY <1>4, <2>2, <3>1 DEF Kept
    <3>3. QED BY <2>2, <3>2
  <2>4. n - 1 \in 0 .. Len(queue) /\ Good(n - 1)
    <3> HIDE DEF Good
    <3>1. n \in Nat
      BY <1>1, <2>2
    <3>2. QED BY <1>1, <2>1, <2>2, <2>3, <3>1
  <2>5. CASE queue[n] \in dropped
    <3>1. kept[n] = kept[n - 1]
      BY <1>4, <2>2, <2>3, <2>5 DEF Kept
    <3>2. QED BY <2>2, <2>4, <3>1
  <2>6. CASE queue[n] \notin dropped
    <3> DEFINE q == kept[n - 1]
    <3>1. kept[n] = Append(q, queue[n])
      BY <1>4, <2>2, <2>3, <2>6 DEF Kept
    <3>2. /\ q \in Seq(S)
          /\ \A i \in DOMAIN q : \E j \in 1 .. n - 1 : q[i] = queue[j] /\ queue[j] \notin dropped
          /\ Distinct(queue) => Distinct(q)
      BY <2>4
    <3>3. queue[n] \in S /\ n \in 1 .. Len(queue) /\ n \in Nat
      BY <1>1, <2>2, <2>3
    <3> HIDE DEF q
    <3>4. /\ kept[n] \in Seq(S)
          /\ DOMAIN kept[n] = 1 .. Len(q) + 1
          /\ DOMAIN q = 1 .. Len(q) /\ Len(q) \in Nat
          /\ \A i \in 1 .. Len(q) : kept[n][i] = q[i]
          /\ kept[n][Len(q) + 1] = queue[n]
      BY <3>1, <3>2, <3>3
    <3>5. ASSUME NEW i \in DOMAIN kept[n]
          PROVE  \E j \in 1 .. n : kept[n][i] = queue[j] /\ queue[j] \notin dropped
      <4>1. CASE i = Len(q) + 1
        BY <2>6, <3>3, <3>4, <4>1
      <4>2. CASE i \in 1 .. Len(q)
        BY <3>2, <3>3, <3>4, <4>2
      <4>3. QED BY <3>4, <3>5, <4>1, <4>2
    <3>6. ASSUME Distinct(queue), NEW i \in 1 .. Len(q)
          PROVE  q[i] # queue[n]
      <4>1. PICK j \in 1 .. n - 1 : q[i] = queue[j]
        BY <3>2, <3>4
      <4>2. j \in DOMAIN queue /\ n \in DOMAIN queue /\ j # n
        BY <1>1, <3>3
      <4>3. QED BY <3>6, <4>1, <4>2
    <3>7. ASSUME Distinct(queue), NEW i \in DOMAIN kept[n], NEW j \in DOMAIN kept[n],
                 kept[n][i] = kept[n][j]
          PROVE  i = j
      <4>1. (i \in 1 .. Len(q) \/ i = Len(q) + 1) /\ (j \in 1 .. Len(q) \/ j = Len(q) + 1)
        BY <3>4, <3>7
      <4>2. CASE i \in 1 .. Len(q) /\ j \in 1 .. Len(q)
        BY <3>2, <3>4, <3>7, <4>2
      <4>3. QED BY <3>4, <3>6, <3>7, <4>1, <4>2
    <3>8. Good(n)
      BY <3>4, <3>5, <3>7
    <3>9. QED BY <2>2, <3>8
  <2>7. QED BY <2>5, <2>6
<1>6. Good(Len(queue))
  <2> HIDE DEF Good
  <2>1. QED BY <1>1, <1>5
<1>7. QED BY <1>1, <1>2, <1>6

\* What RemoveAt leaves: the other elements, none twice.
LEMMA RemoveAtFacts ==
    ASSUME NEW S, NEW queue \in Seq(S), NEW n \in DOMAIN queue
    PROVE  /\ RemoveAt(queue, n) \in Seq(S)
           /\ \A i \in DOMAIN RemoveAt(queue, n) : \E j \in DOMAIN queue \ {n} :
                RemoveAt(queue, n)[i] = queue[j]
           /\ Distinct(queue) => Distinct(RemoveAt(queue, n))
<1> USE DEF Distinct
<1> DEFINE left == SubSeq(queue, 1, n - 1)
           right == SubSeq(queue, n + 1, Len(queue))
           q == RemoveAt(queue, n)
           at(i) == IF i < n THEN i ELSE i + 1
<1>1. Len(queue) \in Nat /\ DOMAIN queue = 1 .. Len(queue) /\ n \in 1 .. Len(queue)
  OBVIOUS
<1>2. /\ left \in Seq(S) /\ Len(left) = n - 1
      /\ \A i \in 1 .. n - 1 : left[i] = queue[i]
  BY <1>1
<1>3. /\ right \in Seq(S) /\ Len(right) = Len(queue) - n
      /\ \A i \in 1 .. Len(queue) - n : right[i] = queue[i + n]
  BY <1>1
<1>4. q = left \o right
  BY DEF RemoveAt
<1> HIDE DEF left, right, q
<1>5. /\ q \in Seq(S)
      /\ DOMAIN q = 1 .. Len(queue) - 1
      /\ \A i \in 1 .. Len(queue) - 1 : q[i] = IF i < n THEN left[i] ELSE right[i - (n - 1)]
  <2>1. /\ q \in Seq(S)
        /\ Len(q) = Len(left) + Len(right)
        /\ \A i \in 1 .. Len(left) + Len(right) :
             q[i] = IF i <= Len(left) THEN left[i] ELSE right[i - Len(left)]
    BY <1>2, <1>3, <1>4, ConcatProperties
  <2>2. Len(left) + Len(right) = Len(queue) - 1
    BY <1>1, <1>2, <1>3
  <2>3. DOMAIN q = 1 .. Len(queue) - 1
    BY <2>1, <2>2
  <2>4. \A i \in 1 .. Len(queue) - 1 : i <= Len(left) <=> i < n
    BY <1>1, <1>2
  <2>5. QED BY <1>2, <2>1, <2>2, <2>3, <2>4
<1>6. \A i \in DOMAIN q : at(i) \in DOMAIN queue \ {n} /\ q[i] = queue[at(i)]
  <2> SUFFICES ASSUME NEW i \in DOMAIN q
               PROVE  at(i) \in DOMAIN queue \ {n} /\ q[i] = queue[at(i)]
    OBVIOUS
  <2>1. CASE i < n
    BY <1>1, <1>2, <1>5, <2>1
  <2>2. CASE ~(i < n)
    <3>1. i - (n - 1) \in 1 .. Len(queue) - n /\ (i - (n - 1)) + n = i + 1
      BY <1>1, <1>5, <2>2
    <3>2. right[i - (n - 1)] = queue[i + 1]
      BY <1>3, <3>1
    <3>3. QED BY <1>1, <1>5, <2>2, <3>2
  <2>3. QED BY <2>1, <2>2
<1>7. \A i, j \in DOMAIN q : at(i) = at(j) => i = j
  BY <1>1, <1>5
<1>8. /\ q \in Seq(S)
      /\ \A i \in DOMAIN q : \E j \in DOMAIN queue \ {n} : q[i] = queue[j]
      /\ Distinct(queue) => Distinct(q)
  <2> HIDE DEF at
  <2>1. QED BY <1>5, <1>6, <1>7
<1>9. QED BY <1>8 DEF q
-----------------------------------------------------------------------------
(***************************************************************************)
(* Types.                                                                  *)
(***************************************************************************)

\* The elements of Maps(S).
LEMMA IsMap ==
    ASSUME NEW S, NEW D \in SUBSET Clients, NEW w \in [D -> S]
    PROVE  w \in Maps(S)
BY DEF Maps

\* The domain of such a map.
LEMMA MapFacts ==
    ASSUME NEW S, NEW w \in Maps(S)
    PROVE  /\ DOMAIN w \in SUBSET Clients
           /\ w \in [DOMAIN w -> S]
BY DEF Maps

\* The wheel's operators.
LEMMA ErasedFacts ==
    ASSUME NEW w \in Maps(Entries), NEW r \in Nat
    PROVE  /\ Erased(w, r) \in Maps(Entries)
           /\ DOMAIN Erased(w, r) = DOMAIN w
           /\ \A u \in DOMAIN w :
                /\ Erased(w, r)[u].seed = w[u].seed
                /\ w[u].Round <= Erased(w, r)[u].Round
                /\ r < Erased(w, r)[u].Round
                /\ Erased(w, r)[u].Round \in {w[u].Round, r + 1}
<1>1. DOMAIN w \in SUBSET Clients /\ w \in [DOMAIN w -> Entries]
  BY MapFacts
<1>2. \A u \in DOMAIN w :
        /\ Erased(w, r)[u] \in Entries
        /\ Erased(w, r)[u].seed = w[u].seed
        /\ w[u].Round <= Erased(w, r)[u].Round
        /\ r < Erased(w, r)[u].Round
        /\ Erased(w, r)[u].Round \in {w[u].Round, r + 1}
  BY <1>1 DEF Erased, Entries
<1>3. Erased(w, r) \in [DOMAIN w -> Entries]
  BY <1>2 DEF Erased
<1>4. QED BY <1>1, <1>2, <1>3, IsMap

\* The types of tokens and keys.
LEMMA DialTokenType ==
    ASSUME NEW a \in Clients, NEW b \in Clients, NEW s \in Seeds, NEW r \in Rounds,
           NEW to \in Clients, NEW i \in Intents
    PROVE  DialToken(a, b, s, r, to, i) \in Tokens /\ RoundKey(a, b, s, r) \in RoundKeys
BY DEF DialToken, RoundKey, Tokens, RoundKeys

\* What the reads of the wheel return.
LEMMA ReadFacts ==
    ASSUME KeyTypes, SeedsWerePut,
           NEW c \in Clients, NEW u \in Clients, NEW r \in Rounds, NEW i \in Intents
    PROVE  /\ OutgoingDialToken(c, u, r, i) \in Tokens \cup {Nil}
           /\ SessionKey(c, u, r) \in RoundKeys \cup {Nil}
           /\ OutgoingDialToken(c, u, r, i) # Nil =>
                \E s \in Seeds :
                  DialRound[s] <= r /\ OutgoingDialToken(c, u, r, i) = DialToken(c, u, s, r, u, i)
           /\ SessionKey(c, u, r) # Nil => \E s \in Seeds : SessionKey(c, u, r) = RoundKey(c, u, s, r)
<1>1. wheel[c] \in Maps(Entries) /\ WheelOK(wheel[c], puts[c])
  BY DEF KeyTypes, SeedsWerePut
<1>2. CASE u \in Reachable(c, r)
  <2> DEFINE s == wheel[c][u].seed
  <2>1. u \in DOMAIN wheel[c] /\ wheel[c][u] \in Entries /\ wheel[c][u].Round <= r
    BY <1>1, <1>2, MapFacts DEF Reachable
  <2>2. s \in Seeds /\ wheel[c][u].Round \in Nat /\ DialRound[s] <= wheel[c][u].Round
    BY <1>1, <2>1 DEF Entries, WheelOK
  <2>3. DialRound[s] <= r
    BY <2>1, <2>2, DialingAssumption DEF Rounds
  <2>4. /\ OutgoingDialToken(c, u, r, i) = DialToken(c, u, s, r, u, i)
        /\ SessionKey(c, u, r) = RoundKey(c, u, s, r)
    BY <1>2 DEF OutgoingDialToken, SessionKey
  <2>5. DialToken(c, u, s, r, u, i) \in Tokens /\ RoundKey(c, u, s, r) \in RoundKeys
    BY <2>2, DialTokenType
  <2> HIDE DEF s
  <2>6. QED BY <2>2, <2>3, <2>4, <2>5
<1>3. CASE u \notin Reachable(c, r)
  BY <1>3 DEF OutgoingDialToken, SessionKey
<1>4. QED BY <1>2, <1>3

\* The steps that change a wheel, its file or the histories of both.
LEMMA KeySteps ==
    ASSUME TaskTypes, [Next]_vars
    PROVE  \/ UNCHANGED <<wheel, wheelFile, puts, erased>>
           \/ \E c \in Clients : \E u \in Clients \ {c} : RemoveFriend(c, u) \/ PutKey(c, u)
           \/ \E c \in Clients : Crash(c)
           \/ \E t \in tasks : EraseKeys(t) \/ PersistKeywheel(t)
<1>1. CASE UNCHANGED vars
  BY <1>1 DEF vars, keys, history
<1>2. CASE Application
  BY <1>2 DEF Application, Call, Enqueue, UpdateIntent, Cancel, BeginSessionKey, keys, history
<1>3. CASE Handlers
  <2>1. ASSUME NEW c \in Clients, NEW r \in Rounds,
               \/ sendDialingOnion(c, r) \/ FetchFails(c, r)
               \/ \E bad \in BOOLEAN : scanBloomFilter(c, r, bad)
        PROVE  UNCHANGED <<wheel, wheelFile, puts, erased>>
    BY <2>1 DEF sendDialingOnion, scanBloomFilter, FetchFails, keys, history
  <2>2. ASSUME NEW t \in tasks, TaskStep(t), ~EraseKeys(t), ~PersistKeywheel(t)
        PROVE  UNCHANGED <<wheel, wheelFile, puts, erased>>
    BY <2>2 DEF TaskStep, StampCall, BeginCompute, ReadToken, ReadKey, StoreKeys, SendOnion,
                ReceiveCall, keys, history
  <2>3. ASSUME NEW t \in tasks, SendPanics(t)
        PROVE  \E c \in Clients : Crash(c)
    BY <2>3 DEF SendPanics, TaskTypes, TaskRecords
  <2>4. QED BY <1>3, <2>1, <2>2, <2>3 DEF Handlers
<1>4. CASE Service
  BY <1>4 DEF Service, OpenRound, PublishRound, FailRound, keys, history
<1>5. QED BY <1>1, <1>2, <1>3, <1>4 DEF Next

\* The wheels after a step of c are functions as before.
LEMMA KeyTypesStep ==
    ASSUME KeyTypes, TaskTypes, [Next]_vars
    PROVE  KeyTypes'
<1>1. CASE UNCHANGED <<wheel, wheelFile, puts, erased>>
  BY <1>1 DEF KeyTypes
<1>2. ASSUME NEW c \in Clients, NEW u \in Clients \ {c}, RemoveFriend(c, u)
      PROVE  KeyTypes'
  <2> DEFINE w == [x \in DOMAIN wheel[c] \ {u} |-> wheel[c][x]]
  <2>1. /\ wheel' = [wheel EXCEPT ![c] = w]
        /\ wheelFile' = [wheelFile EXCEPT ![c] = w]
        /\ UNCHANGED <<puts, erased>>
    BY <1>2 DEF RemoveFriend, KeyTypes, history
  <2>2. DOMAIN wheel[c] \in SUBSET Clients /\ wheel[c] \in [DOMAIN wheel[c] -> Entries]
    BY MapFacts DEF KeyTypes
  <2>3. w \in [DOMAIN wheel[c] \ {u} -> Entries] /\ c \notin DOMAIN w
    BY <2>2 DEF KeyTypes
  <2>4. w \in Maps(Entries)
    BY <2>2, <2>3, IsMap
  <2> HIDE DEF w
  <2>5. QED BY <2>1, <2>3, <2>4 DEF KeyTypes
<1>3. ASSUME NEW c \in Clients, NEW u \in Clients \ {c}, PutKey(c, u)
      PROVE  KeyTypes'
  <2> DEFINE s == puts[c][u] + 1
             D == DOMAIN wheel[c] \cup {u}
             w == [x \in D |-> IF x = u THEN [seed |-> s, Round |-> DialRound[s]] ELSE wheel[c][x]]
             p == [puts[c] EXCEPT ![u] = s]
  <2>1. /\ wheel' = [wheel EXCEPT ![c] = w]
        /\ puts' = [puts EXCEPT ![c] = p]
        /\ s \in Seeds
        /\ UNCHANGED <<wheelFile, erased>>
    BY <1>3 DEF PutKey, KeyTypes
  <2>2. /\ DOMAIN wheel[c] \in SUBSET Clients /\ wheel[c] \in [DOMAIN wheel[c] -> Entries]
        /\ DOMAIN puts[c] = Clients \ {c} /\ puts[c] \in [DOMAIN puts[c] -> Seeds]
    BY MapFacts DEF KeyTypes
  <2>3. [seed |-> s, Round |-> DialRound[s]] \in Entries
    BY <2>1, DialingAssumption DEF Entries
  <2>4. w \in [D -> Entries] /\ c \notin D /\ D \in SUBSET Clients
    <3> HIDE DEF s
    <3>1. QED BY <2>2, <2>3 DEF KeyTypes
  <2>5. p \in [Clients \ {c} -> Seeds]
    <3> HIDE DEF s
    <3>1. QED BY <2>1, <2>2
  <2> HIDE DEF w, p, D, s
  <2>6. w \in Maps(Entries) /\ p \in Maps(Seeds) /\ DOMAIN w = D /\ DOMAIN p = Clients \ {c}
    BY <2>4, <2>5, IsMap
  <2>7. QED BY <2>1, <2>4, <2>6 DEF KeyTypes
<1>4. ASSUME NEW c \in Clients, Crash(c)
      PROVE  KeyTypes'
  BY <1>4 DEF Crash, KeyTypes, history
<1>5. ASSUME NEW t \in tasks, EraseKeys(t)
      PROVE  KeyTypes'
  <2>1. t.client \in Clients /\ t.round \in Nat
    BY DialingAssumption DEF TaskTypes, TaskRecords, Rounds
  <2> DEFINE c == t.client
             w == Erased(wheel[c], t.round)
  <2>2. wheel' = [wheel EXCEPT ![c] = w] /\ UNCHANGED <<wheelFile, puts, erased>>
    BY <1>5, <2>1 DEF EraseKeys, KeyTypes, history
  <2>3. w \in Maps(Entries) /\ DOMAIN w = DOMAIN wheel[c]
    BY <2>1, ErasedFacts DEF KeyTypes
  <2> HIDE DEF w
  <2>4. QED BY <2>1, <2>2, <2>3 DEF KeyTypes
<1>6. ASSUME NEW t \in tasks, PersistKeywheel(t)
      PROVE  KeyTypes'
  <2>1. t.client \in Clients /\ t.entries \in SUBSET KnownEntries
    BY DEF TaskTypes, TaskRecords
  <2>2. QED BY <1>6, <2>1 DEF PersistKeywheel, KeyTypes
<1>7. QED BY <1>1, <1>2, <1>3, <1>4, <1>5, <1>6, KeySteps
-----------------------------------------------------------------------------
(***************************************************************************)
(* Tasks.                                                                  *)
(***************************************************************************)

\* A computation is over: a send handler goes on, the application's ends.
LEMMA ComputedFacts ==
    ASSUME NEW t, NEW token, Computed(t, token), NEW t2 \in tasks'
    PROVE  \/ t2 \in tasks \ {t}
           \/ t.kind = "send" /\ t2 = [t EXCEPT !.pc = "computed", !.token = token]
BY DEF Computed

\* The task with which a scan starts.
ScanTask(c, r, bad) ==
    [Task("scan", c, r, "hits", Nil) EXCEPT
       !.hits = Hits(c, r, bad),
       !.entries = {[friend |-> u, seed |-> wheel[c][u].seed, round |-> r] : u \in DOMAIN wheel[c]}]

\* The steps that make or change a scan.
LEMMA ScanSteps ==
    ASSUME TaskTypes, TaskKinds, CallTypes, [Next]_vars, NEW t2 \in tasks'
    PROVE  \/ t2 \in tasks
           \/ /\ t2.kind # "scan" /\ t2.call \in Calls /\ t2.pc \notin {"hits", "persist"}
              /\ t2.hits = {} /\ t2.entries = {}
           \/ \E t \in tasks : \E x \in t.hits :
                ReceiveCall(t, x) /\ t2 = [t EXCEPT !.hits = @ \ {x}]
           \/ \E t \in tasks : EraseKeys(t) /\ t2 = [t EXCEPT !.pc = "persist"]
           \/ \E c \in Clients, r \in Rounds, bad \in BOOLEAN :
                scanBloomFilter(c, r, bad) /\ t2 = ScanTask(c, r, bad)
<1> DEFINE NotScan == /\ t2.kind # "scan" /\ t2.call \in Calls /\ t2.pc \notin {"hits", "persist"}
                      /\ t2.hits = {} /\ t2.entries = {}
<1>1. CASE UNCHANGED vars
  BY <1>1 DEF vars
<1>2. CASE Application
  <2>1. ASSUME NEW k \in Calls, BeginSessionKey(k)
        PROVE  t2 \in tasks \/ NotScan
    BY <2>1 DEF BeginSessionKey, Task
  <2>2. QED BY <1>2, <2>1 DEF Application, Call, RemoveFriend, PutKey, Enqueue, UpdateIntent, Cancel
<1>3. CASE Service
  BY <1>3 DEF Service, OpenRound, PublishRound, FailRound
<1>4. ASSUME NEW c \in Clients, Crash(c)
      PROVE  t2 \in tasks
  BY <1>4 DEF Crash
<1>5. ASSUME NEW c \in Clients, NEW r \in Rounds, sendDialingOnion(c, r)
      PROVE  t2 \in tasks \/ NotScan
  <2>1. outgoingCalls[c] \in Seq(Calls) /\ outgoingCalls[c] # << >>
    BY <1>5 DEF sendDialingOnion, CallTypes
  <2>2. Head(outgoingCalls[c]) \in Calls
    BY <2>1
  <2>3. QED BY <1>5, <2>2 DEF sendDialingOnion, Task
<1>6. ASSUME NEW c \in Clients, NEW r \in Rounds, NEW bad \in BOOLEAN, scanBloomFilter(c, r, bad)
      PROVE  t2 \in tasks \/ t2 = ScanTask(c, r, bad)
  BY <1>6 DEF scanBloomFilter, ScanTask
<1>7. ASSUME NEW c \in Clients, NEW r \in Rounds, FetchFails(c, r)
      PROVE  t2 \in tasks
  BY <1>7 DEF FetchFails
<1>8. ASSUME NEW t \in tasks, TaskStep(t)
      PROVE  \/ t2 \in tasks
             \/ NotScan
             \/ \E x \in t.hits : ReceiveCall(t, x) /\ t2 = [t EXCEPT !.hits = @ \ {x}]
             \/ EraseKeys(t) /\ t2 = [t EXCEPT !.pc = "persist"]
  <2>1. t \in TaskRecords
    BY DEF TaskTypes
  <2>2. t.pc \notin {"hits", "persist"} =>
          t.kind # "scan" /\ t.call \in Calls /\ t.hits = {} /\ t.entries = {}
    BY DEF TaskKinds
  <2>3. CASE StampCall(t) \/ BeginCompute(t) \/ ReadToken(t) \/ ReadKey(t) \/ StoreKeys(t)
    <3>1. t.pc \notin {"hits", "persist"}
      BY <2>3 DEF StampCall, BeginCompute, ReadToken, ReadKey, StoreKeys
    <3>2. CASE StampCall(t)
      BY <2>1, <2>2, <3>1, <3>2 DEF StampCall, Advance, TaskRecords
    <3>3. CASE BeginCompute(t)
      <4>1. \/ t2 \in tasks
            \/ \E token : t2 = [t EXCEPT !.pc = "computed", !.token = token]
            \/ \E o : t2 = [t EXCEPT !.pc = "token", !.intent = o.intent, !.round = o.sentRound]
        BY <3>3, ComputedFacts DEF BeginCompute, Advance
      <4>2. QED BY <2>1, <2>2, <3>1, <4>1 DEF TaskRecords
    <3>4. CASE ReadToken(t)
      BY <2>1, <2>2, <3>1, <3>4 DEF ReadToken, Advance, TaskRecords
    <3>5. CASE ReadKey(t)
      BY <2>1, <2>2, <3>1, <3>5 DEF ReadKey, Advance, TaskRecords
    <3>6. CASE StoreKeys(t)
      <4>1. \/ t2 \in tasks
            \/ \E token : t2 = [t EXCEPT !.pc = "computed", !.token = token]
        BY <3>6, ComputedFacts DEF StoreKeys
      <4>2. QED BY <2>1, <2>2, <3>1, <4>1 DEF TaskRecords
    <3>7. QED BY <2>3, <3>2, <3>3, <3>4, <3>5, <3>6
  <2>4. CASE SendOnion(t) \/ PersistKeywheel(t)
    BY <2>4 DEF SendOnion, PersistKeywheel
  <2>5. ASSUME NEW x \in t.hits, ReceiveCall(t, x)
        PROVE  t2 \in tasks \/ t2 = [t EXCEPT !.hits = @ \ {x}]
    BY <2>5 DEF ReceiveCall, Advance
  <2>6. CASE EraseKeys(t)
    BY <2>6 DEF EraseKeys, Advance
  <2>7. QED BY <1>8, <2>3, <2>4, <2>5, <2>6 DEF TaskStep
<1>9. ASSUME NEW t \in tasks, SendPanics(t)
      PROVE  t2 \in tasks
  BY <1>9 DEF SendPanics, Crash
<1>10. QED BY <1>1, <1>2, <1>3, <1>4, <1>5, <1>6, <1>7, <1>8, <1>9 DEF Next, Handlers

\* Tasks keep their kinds.
LEMMA TaskKindsStep ==
    ASSUME TaskTypes, TaskKinds, CallTypes, [Next]_vars
    PROVE  TaskKinds'
<1> SUFFICES ASSUME NEW t2 \in tasks'
             PROVE  IF t2.kind = "scan"
                    THEN t2.call = Nil /\ t2.round \in Rounds /\ t2.pc \in {"hits", "persist"}
                    ELSE /\ t2.call \in Calls /\ t2.pc \notin {"hits", "persist"}
                         /\ t2.hits = {} /\ t2.entries = {}
  BY DEF TaskKinds
<1>1. CASE t2 \in tasks
  BY <1>1 DEF TaskKinds
<1>2. ASSUME NEW t \in tasks, NEW x \in t.hits, ReceiveCall(t, x), t2 = [t EXCEPT !.hits = @ \ {x}]
      PROVE  t2.kind = "scan" /\ t2.call = Nil /\ t2.round \in Rounds /\ t2.pc \in {"hits", "persist"}
  BY <1>2 DEF ReceiveCall, TaskKinds, TaskTypes, TaskRecords
<1>3. ASSUME NEW t \in tasks, EraseKeys(t), t2 = [t EXCEPT !.pc = "persist"]
      PROVE  t2.kind = "scan" /\ t2.call = Nil /\ t2.round \in Rounds /\ t2.pc \in {"hits", "persist"}
  BY <1>3 DEF EraseKeys, TaskKinds, TaskTypes, TaskRecords
<1>4. ASSUME NEW c \in Clients, NEW r \in Rounds, NEW bad \in BOOLEAN, t2 = ScanTask(c, r, bad)
      PROVE  t2.kind = "scan" /\ t2.call = Nil /\ t2.round \in Rounds /\ t2.pc \in {"hits", "persist"}
  BY <1>4 DEF ScanTask, Task
<1>5. QED BY <1>1, <1>2, <1>3, <1>4, ScanSteps

\* Entries of scans, when the wheel or the disk does not change.
LEMMA SeedsWerePutStep ==
    ASSUME KeyTypes, TaskTypes, TaskKinds, CallTypes, SeedsWerePut, [Next]_vars
    PROVE  SeedsWerePut'
<1> DEFINE EntriesWerePut(t, p) ==
             \A e \in t.entries :
               e.friend # t.client /\ e.seed <= p[t.client][e.friend] /\ e.round = t.round
<1>1. \A c \in Clients : \A u \in Clients \ {c} :
        puts[c][u] \in Nat /\ puts'[c][u] \in Nat /\ puts[c][u] <= puts'[c][u]
  <2> SUFFICES ASSUME NEW c \in Clients, NEW u \in Clients \ {c}
               PROVE  puts[c][u] \in Nat /\ puts'[c][u] \in Nat /\ puts[c][u] <= puts'[c][u]
    OBVIOUS
  <2>1. KeyTypes'
    BY KeyTypesStep
  <2>2. puts[c] \in [Clients \ {c} -> Seeds] /\ puts'[c] \in [Clients \ {c} -> Seeds]
    BY <2>1, MapFacts DEF KeyTypes
  <2>3. puts[c][u] \in Nat /\ puts'[c][u] \in Nat
    BY <2>2 DEF Seeds
  <2>4. CASE puts' = puts
    BY <2>3, <2>4
  <2>5. ASSUME NEW d \in Clients, NEW v \in Clients \ {d}, PutKey(d, v)
        PROVE  puts[c][u] <= puts'[c][u]
    <3>1. puts[d] \in [Clients \ {d} -> Seeds]
      BY MapFacts DEF KeyTypes
    <3>2. puts' = [puts EXCEPT ![d] = [puts[d] EXCEPT ![v] = puts[d][v] + 1]]
      BY <2>5 DEF PutKey, KeyTypes
    <3>3. puts[d][v] <= puts[d][v] + 1
      BY <3>1 DEF Seeds
    <3>4. QED BY <2>2, <2>3, <3>1, <3>2, <3>3 DEF KeyTypes
  <2>6. QED BY <2>3, <2>4, <2>5, KeySteps DEF RemoveFriend, Crash, EraseKeys, PersistKeywheel, history
<1>2. ASSUME NEW c \in Clients, NEW w \in Maps(Entries), c \notin DOMAIN w, WheelOK(w, puts[c])
      PROVE  WheelOK(w, puts'[c])
  <2>1. DOMAIN w \in SUBSET Clients /\ w \in [DOMAIN w -> Entries]
    BY MapFacts
  <2>2. ASSUME NEW u \in DOMAIN w
        PROVE  w[u].seed <= puts'[c][u]
    <3>1. u \in Clients \ {c} /\ w[u].seed \in Nat /\ w[u].seed <= puts[c][u]
      BY <1>2, <2>1, <2>2 DEF WheelOK, Entries, Seeds
    <3>2. QED BY <1>1, <3>1
  <2>3. QED BY <1>2, <2>2 DEF WheelOK
<1>3. \A c \in Clients : WheelOK(wheel'[c], puts'[c]) /\ WheelOK(wheelFile'[c], puts'[c])
  <2>0. \A c \in Clients : WheelOK(wheel[c], puts'[c]) /\ WheelOK(wheelFile[c], puts'[c])
    BY <1>2 DEF KeyTypes, SeedsWerePut
  <2>1. CASE UNCHANGED <<wheel, wheelFile, puts, erased>>
    BY <2>0, <2>1
  <2>2. ASSUME NEW c \in Clients, NEW u \in Clients \ {c}, RemoveFriend(c, u)
        PROVE  \A d \in Clients : WheelOK(wheel'[d], puts'[d]) /\ WheelOK(wheelFile'[d], puts'[d])
    <3> DEFINE w == [x \in DOMAIN wheel[c] \ {u} |-> wheel[c][x]]
    <3>1. wheel' = [wheel EXCEPT ![c] = w] /\ wheelFile' = [wheelFile EXCEPT ![c] = w]
      BY <2>2 DEF RemoveFriend, KeyTypes
    <3>2. WheelOK(w, puts'[c])
      BY <2>0 DEF WheelOK
    <3> HIDE DEF w
    <3>3. QED BY <2>0, <3>1, <3>2 DEF KeyTypes
  <2>3. ASSUME NEW c \in Clients, NEW u \in Clients \ {c}, PutKey(c, u)
        PROVE  \A d \in Clients : WheelOK(wheel'[d], puts'[d]) /\ WheelOK(wheelFile'[d], puts'[d])
    <3> DEFINE s == puts[c][u] + 1
               w == [x \in DOMAIN wheel[c] \cup {u} |->
                       IF x = u THEN [seed |-> s, Round |-> DialRound[s]] ELSE wheel[c][x]]
    <3>1. wheel' = [wheel EXCEPT ![c] = w] /\ wheelFile' = wheelFile /\ s \in Seeds
      BY <2>3 DEF PutKey, KeyTypes
    <3>2. puts'[c][u] = s
      <4>1. puts[c] \in [Clients \ {c} -> Seeds]
        BY MapFacts DEF KeyTypes
      <4>2. QED BY <2>3, <4>1 DEF PutKey, KeyTypes
    <3>3. DialRound[s] <= DialRound[s] /\ s <= s
      BY <3>1, DialingAssumption DEF Seeds
    <3>4. WheelOK(w, puts'[c])
      <4> HIDE DEF s
      <4>1. QED BY <2>0, <3>2, <3>3 DEF WheelOK
    <3> HIDE DEF w, s
    <3>5. QED BY <2>0, <3>1, <3>4 DEF KeyTypes
  <2>4. ASSUME NEW c \in Clients, Crash(c)
        PROVE  \A d \in Clients : WheelOK(wheel'[d], puts'[d]) /\ WheelOK(wheelFile'[d], puts'[d])
    BY <2>0, <2>4 DEF Crash, KeyTypes
  <2>5. ASSUME NEW t \in tasks, EraseKeys(t)
        PROVE  \A d \in Clients : WheelOK(wheel'[d], puts'[d]) /\ WheelOK(wheelFile'[d], puts'[d])
    <3> DEFINE c == t.client
               w == Erased(wheel[c], t.round)
    <3>1. c \in Clients /\ t.round \in Nat
      BY DialingAssumption DEF TaskTypes, TaskRecords, Rounds
    <3>2. wheel' = [wheel EXCEPT ![c] = w] /\ UNCHANGED <<wheelFile, puts>>
      BY <2>5, <3>1 DEF EraseKeys, KeyTypes, history
    <3>3. wheel[c] \in Maps(Entries) /\ wheel[c] \in [DOMAIN wheel[c] -> Entries]
      BY <3>1, MapFacts DEF KeyTypes
    <3>4. WheelOK(w, puts'[c])
      <4> SUFFICES ASSUME NEW x \in DOMAIN w
                   PROVE  w[x].seed <= puts'[c][x] /\ DialRound[w[x].seed] <= w[x].Round
        BY DEF WheelOK
      <4>1. x \in DOMAIN wheel[c] /\ w[x].seed = wheel[c][x].seed /\ wheel[c][x].Round <= w[x].Round
        BY <3>1, <3>3, ErasedFacts
      <4>2. w[x] \in Entries
        BY <3>1, <3>3, ErasedFacts, MapFacts
      <4>3. wheel[c][x].seed \in Seeds /\ wheel[c][x].Round \in Nat /\ w[x].Round \in Nat
        BY <3>3, <4>1, <4>2 DEF Entries
      <4>4. WheelOK(wheel[c], puts[c])
        BY <3>1 DEF SeedsWerePut
      <4> HIDE DEF w, c
      <4>5. DialRound[wheel[c][x].seed] <= wheel[c][x].Round /\ wheel[c][x].seed <= puts'[c][x]
        BY <3>2, <4>1, <4>4 DEF WheelOK
      <4>6. DialRound[wheel[c][x].seed] \in Nat
        BY <4>3, DialingAssumption
      <4>7. DialRound[wheel[c][x].seed] <= w[x].Round
        BY <4>1, <4>3, <4>5, <4>6
      <4>8. QED BY <4>1, <4>5, <4>7
    <3> HIDE DEF w, c
    <3>5. QED BY <2>0, <3>1, <3>2, <3>4 DEF KeyTypes
  <2>6. ASSUME NEW t \in tasks, PersistKeywheel(t)
        PROVE  \A d \in Clients : WheelOK(wheel'[d], puts'[d]) /\ WheelOK(wheelFile'[d], puts'[d])
    <3>1. t.client \in Clients
      BY DEF TaskTypes, TaskRecords
    <3>2. QED BY <2>0, <2>6, <3>1 DEF PersistKeywheel, KeyTypes
  <2>7. QED BY <2>1, <2>2, <2>3, <2>4, <2>5, <2>6, KeySteps
<1>4. ASSUME NEW t2 \in tasks'
      PROVE  EntriesWerePut(t2, puts')
  <2>1. ASSUME NEW t \in tasks
        PROVE  EntriesWerePut(t, puts')
    <3> SUFFICES ASSUME NEW e \in t.entries
                 PROVE  e.friend # t.client /\ e.seed <= puts'[t.client][e.friend] /\ e.round = t.round
      OBVIOUS
    <3>1. e.friend # t.client /\ e.seed <= puts[t.client][e.friend] /\ e.round = t.round
      BY DEF SeedsWerePut
    <3>2. t.client \in Clients /\ e.friend \in Clients /\ e.seed \in Nat
      BY DEF TaskTypes, TaskRecords, KnownEntries, Seeds
    <3>3. QED BY <1>1, <3>1, <3>2
  <2>2. ASSUME NEW t \in tasks, NEW x \in t.hits, t2 = [t EXCEPT !.hits = @ \ {x}]
        PROVE  EntriesWerePut(t2, puts')
    <3>1. t2.client = t.client /\ t2.entries = t.entries /\ t2.round = t.round
      BY <2>2 DEF TaskTypes, TaskRecords
    <3>2. QED BY <2>1, <3>1
  <2>3. ASSUME NEW t \in tasks, t2 = [t EXCEPT !.pc = "persist"]
        PROVE  EntriesWerePut(t2, puts')
    <3>1. t2.client = t.client /\ t2.entries = t.entries /\ t2.round = t.round
      BY <2>3 DEF TaskTypes, TaskRecords
    <3>2. QED BY <2>1, <3>1
  <2>4. ASSUME NEW c \in Clients, NEW r \in Rounds, NEW bad \in BOOLEAN,
               scanBloomFilter(c, r, bad), t2 = ScanTask(c, r, bad)
        PROVE  EntriesWerePut(t2, puts')
    <3>1. /\ t2.client = c /\ t2.round = r
          /\ t2.entries = {[friend |-> u, seed |-> wheel[c][u].seed, round |-> r] : u \in DOMAIN wheel[c]}
      BY <2>4 DEF ScanTask, Task
    <3>2. puts' = puts
      BY <2>4 DEF scanBloomFilter
    <3>3. c \notin DOMAIN wheel[c] /\ WheelOK(wheel[c], puts[c])
      BY DEF KeyTypes, SeedsWerePut
    <3>4. QED BY <3>1, <3>2, <3>3 DEF WheelOK
  <2>5. QED BY <2>1, <2>2, <2>3, <2>4, ScanSteps
<1>5. ASSUME NEW c \in Clients, NEW e \in erased'[c]
      PROVE  e.friend # c /\ e.seed <= puts'[c][e.friend]
  <2>1. \/ e \in erased[c]
        \/ \E t \in tasks : t.client = c /\ e \in t.entries
    <3>1. CASE erased' = erased
      BY <1>5, <3>1
    <3>2. ASSUME NEW t \in tasks, PersistKeywheel(t)
          PROVE  e \in erased[c] \/ (t.client = c /\ e \in t.entries)
      <4>1. erased' = [erased EXCEPT ![t.client] = erased[t.client] \cup t.entries]
        BY <3>2 DEF PersistKeywheel
      <4>2. erased'[c] = IF c = t.client THEN erased[c] \cup t.entries ELSE erased[c]
        BY <4>1 DEF KeyTypes
      <4>3. e \in erased'[c]
        BY <1>5
      <4>4. QED BY <4>2, <4>3
    <3>3. QED BY <3>1, <3>2, KeySteps DEF RemoveFriend, PutKey, Crash, EraseKeys, history
  <2>2. e.friend # c /\ e.seed <= puts[c][e.friend]
    BY <2>1 DEF SeedsWerePut
  <2>3. e \in KnownEntries
    BY <2>1 DEF KeyTypes, TaskTypes, TaskRecords
  <2>4. QED BY <1>1, <2>2, <2>3 DEF KnownEntries, Seeds
<1>6. QED
  <2> HIDE DEF EntriesWerePut
  <2>1. \A t \in tasks' : EntriesWerePut(t, puts')
    BY <1>4
  <2>2. QED BY <1>3, <1>5, <2>1 DEF SeedsWerePut, EntriesWerePut

\* What a step makes of a wheel or of its file: of the wheel or the file before it, by
\* erasing, by leaving out, or by adding a newer secret.
LEMMA WheelSteps ==
    ASSUME KeyTypes, TaskTypes, SeedsWerePut, [Next]_vars,
           NEW c \in Clients, NEW w \in {wheel'[c], wheelFile'[c]},
           NEW u \in DOMAIN w
    PROVE  \/ u \in DOMAIN wheel[c] /\ w[u] = wheel[c][u]
           \/ u \in DOMAIN wheelFile[c] /\ w[u] = wheelFile[c][u]
           \/ u # c /\ w[u].seed = puts[c][u] + 1 /\ w[u].Round = DialRound[w[u].seed]
           \/ \E t \in tasks : EraseKeys(t) /\ t.client = c /\ w = Erased(wheel[c], t.round)
<1>1. CASE UNCHANGED <<wheel, wheelFile, puts, erased>>
  BY <1>1
<1>2. ASSUME NEW d \in Clients, NEW v \in Clients \ {d}, RemoveFriend(d, v)
      PROVE  \/ u \in DOMAIN wheel[c] /\ w[u] = wheel[c][u]
             \/ u \in DOMAIN wheelFile[c] /\ w[u] = wheelFile[c][u]
  <2> DEFINE z == [x \in DOMAIN wheel[d] \ {v} |-> wheel[d][x]]
  <2>1. /\ wheel'[c] = IF c = d THEN z ELSE wheel[c]
        /\ wheelFile'[c] = IF c = d THEN z ELSE wheelFile[c]
    BY <1>2 DEF RemoveFriend, KeyTypes
  <2>2. QED BY <2>1
<1>3. ASSUME NEW d \in Clients, NEW v \in Clients \ {d}, PutKey(d, v)
      PROVE  \/ u \in DOMAIN wheel[c] /\ w[u] = wheel[c][u]
             \/ u \in DOMAIN wheelFile[c] /\ w[u] = wheelFile[c][u]
             \/ u # c /\ w[u].seed = puts[c][u] + 1 /\ w[u].Round = DialRound[w[u].seed]
  <2> DEFINE s == puts[d][v] + 1
             z == [x \in DOMAIN wheel[d] \cup {v} |->
                     IF x = v THEN [seed |-> s, Round |-> DialRound[s]] ELSE wheel[d][x]]
  <2>1. /\ wheel'[c] = IF c = d THEN z ELSE wheel[c]
        /\ wheelFile'[c] = wheelFile[c]
    BY <1>3 DEF PutKey, KeyTypes
  <2>2. QED BY <2>1
<1>4. ASSUME NEW d \in Clients, Crash(d)
      PROVE  \/ u \in DOMAIN wheel[c] /\ w[u] = wheel[c][u]
             \/ u \in DOMAIN wheelFile[c] /\ w[u] = wheelFile[c][u]
  <2>1. wheel'[c] \in {wheel[c], wheelFile[c]} /\ wheelFile'[c] = wheelFile[c]
    BY <1>4 DEF Crash, KeyTypes
  <2>2. QED BY <2>1
<1>5. ASSUME NEW t \in tasks, EraseKeys(t)
      PROVE  \/ u \in DOMAIN wheel[c] /\ w[u] = wheel[c][u]
             \/ u \in DOMAIN wheelFile[c] /\ w[u] = wheelFile[c][u]
             \/ t.client = c /\ w = Erased(wheel[c], t.round)
  <2>1. /\ wheel'[c] = IF c = t.client THEN Erased(wheel[c], t.round) ELSE wheel[c]
        /\ wheelFile'[c] = wheelFile[c]
    BY <1>5 DEF EraseKeys, KeyTypes
  <2>2. QED BY <2>1
<1>6. ASSUME NEW t \in tasks, PersistKeywheel(t)
      PROVE  \/ u \in DOMAIN wheel[c] /\ w[u] = wheel[c][u]
             \/ u \in DOMAIN wheelFile[c] /\ w[u] = wheelFile[c][u]
  <2>1. wheelFile'[c] \in {wheel[c], wheelFile[c]} /\ wheel'[c] = wheel[c]
    BY <1>6 DEF PersistKeywheel, KeyTypes
  <2>2. w = wheel[c] \/ w = wheelFile[c]
    BY <2>1
  <2>3. QED BY <2>2
<1>7. QED BY <1>1, <1>2, <1>3, <1>4, <1>5, <1>6, KeySteps

\* A wheel past an entry stays past it, and the new wheel of a step does when both the wheel
\* and the file were.
LEMMA PastSteps ==
    ASSUME KeyTypes, TaskTypes, SeedsWerePut, [Next]_vars,
           NEW c \in Clients, NEW e \in KnownEntries,
           e.friend # c, e.seed <= puts[c][e.friend]
    PROVE  /\ Past(wheel[c], e) /\ Past(wheelFile[c], e) =>
                Past(wheel'[c], e) /\ Past(wheelFile'[c], e)
           /\ Past(wheel[c], e) /\ ~Crash(c) => Past(wheel'[c], e)
<1>1. /\ puts[c] \in [Clients \ {c} -> Seeds]
      /\ wheel[c] \in Maps(Entries) /\ wheel[c] \in [DOMAIN wheel[c] -> Entries]
  BY MapFacts DEF KeyTypes
<1>2. e.friend \in Clients \ {c} /\ e.seed \in Nat /\ e.round \in Nat /\ puts[c][e.friend] \in Nat
  BY <1>1, DialingAssumption DEF KnownEntries, Seeds, Rounds
<1>3. ASSUME NEW t \in tasks, Past(wheel[c], e)
      PROVE  Past(Erased(wheel[c], t.round), e)
  <2> DEFINE w == Erased(wheel[c], t.round)
  <2>1. t.round \in Nat
    BY DialingAssumption DEF TaskTypes, TaskRecords, Rounds
  <2>2. /\ DOMAIN w = DOMAIN wheel[c] /\ w \in Maps(Entries)
        /\ \A u \in DOMAIN wheel[c] : w[u].seed = wheel[c][u].seed /\ wheel[c][u].Round <= w[u].Round
    BY <1>1, <2>1, ErasedFacts
  <2>3. w \in [DOMAIN w -> Entries]
    BY <2>2, MapFacts
  <2> HIDE DEF w
  <2>4. SUFFICES ASSUME e.friend \in DOMAIN w, w[e.friend].seed = e.seed PROVE w[e.friend].Round > e.round
    BY DEF Past, w
  <2>5. wheel[c][e.friend].Round > e.round /\ wheel[c][e.friend].Round <= w[e.friend].Round
    BY <1>3, <2>2, <2>4 DEF Past
  <2>6. wheel[c][e.friend].Round \in Nat /\ w[e.friend].Round \in Nat
    BY <1>1, <2>2, <2>3, <2>4 DEF Entries
  <2>7. QED BY <1>2, <2>5, <2>6
<1>4. ASSUME NEW w \in {wheel'[c], wheelFile'[c]}, Past(wheel[c], e), Past(wheelFile[c], e)
      PROVE  Past(w, e)
  <2>1. SUFFICES ASSUME e.friend \in DOMAIN w, w[e.friend].seed = e.seed PROVE w[e.friend].Round > e.round
    BY DEF Past
  <2>2. ~(w[e.friend].seed = puts[c][e.friend] + 1)
    BY <1>2, <2>1
  <2>3. QED BY <1>3, <1>4, <2>1, <2>2, WheelSteps DEF Past
<1>5. ASSUME Past(wheel[c], e), ~Crash(c)
      PROVE  Past(wheel'[c], e)
  <2>1. SUFFICES ASSUME e.friend \in DOMAIN wheel'[c], wheel'[c][e.friend].seed = e.seed
                 PROVE  wheel'[c][e.friend].Round > e.round
    BY DEF Past
  <2>2. ~(wheel'[c][e.friend].seed = puts[c][e.friend] + 1)
    BY <1>2, <2>1
  <2>3. CASE UNCHANGED <<wheel, wheelFile, puts, erased>>
    BY <1>5, <2>1, <2>3 DEF Past
  <2>4. ASSUME NEW d \in Clients, NEW v \in Clients \ {d}, RemoveFriend(d, v)
        PROVE  wheel'[c][e.friend].Round > e.round
    <3> DEFINE z == [x \in DOMAIN wheel[d] \ {v} |-> wheel[d][x]]
    <3>1. wheel'[c] = IF c = d THEN z ELSE wheel[c]
      BY <2>4 DEF RemoveFriend, KeyTypes
    <3>2. QED BY <1>5, <2>1, <3>1 DEF Past
  <2>5. ASSUME NEW d \in Clients, NEW v \in Clients \ {d}, PutKey(d, v)
        PROVE  wheel'[c][e.friend].Round > e.round
    <3> DEFINE s == puts[d][v] + 1
               z == [x \in DOMAIN wheel[d] \cup {v} |->
                       IF x = v THEN [seed |-> s, Round |-> DialRound[s]] ELSE wheel[d][x]]
    <3>1. wheel'[c] = IF c = d THEN z ELSE wheel[c]
      BY <2>5 DEF PutKey, KeyTypes
    <3>2. QED BY <1>5, <2>1, <2>2, <3>1 DEF Past
  <2>6. ASSUME NEW d \in Clients, Crash(d)
        PROVE  wheel'[c][e.friend].Round > e.round
    <3>1. wheel'[c] = wheel[c]
      BY <1>5, <2>6 DEF Crash, KeyTypes
    <3>2. QED BY <1>5, <2>1, <3>1 DEF Past
  <2>7. ASSUME NEW t \in tasks, EraseKeys(t)
        PROVE  wheel'[c][e.friend].Round > e.round
    <3>1. wheel'[c] = IF c = t.client THEN Erased(wheel[c], t.round) ELSE wheel[c]
      BY <2>7 DEF EraseKeys, KeyTypes
    <3>2. QED BY <1>3, <1>5, <2>1, <3>1 DEF Past
  <2>8. ASSUME NEW t \in tasks, PersistKeywheel(t)
        PROVE  wheel'[c][e.friend].Round > e.round
    BY <1>5, <2>1, <2>8 DEF PersistKeywheel, Past
  <2>9. QED BY <2>3, <2>4, <2>5, <2>6, <2>7, <2>8, KeySteps
<1>6. QED BY <1>4, <1>5

\* EraseKeys makes a scan's entries past before PersistKeywheel saves that; no other step goes back.
LEMMA ErasedForGoodStep ==
    ASSUME KeyTypes, TaskTypes, TaskKinds, CallTypes, SeedsWerePut, ErasedForGood, [Next]_vars
    PROVE  ErasedForGood'
<1>1. ASSUME NEW t2 \in tasks', t2.pc = "persist", NEW e \in t2.entries
      PROVE  Past(wheel'[t2.client], e)
  <2>1. CASE t2 \in tasks
    <3>1. /\ t2.client \in Clients /\ e \in KnownEntries
          /\ e.friend # t2.client /\ e.seed <= puts[t2.client][e.friend]
          /\ Past(wheel[t2.client], e)
      BY <1>1, <2>1 DEF TaskTypes, TaskRecords, SeedsWerePut, ErasedForGood
    <3>2. ~Crash(t2.client)
      BY DEF Crash
    <3>3. QED BY <3>1, <3>2, PastSteps
  <2>2. ASSUME NEW t \in tasks, NEW x \in t.hits, ReceiveCall(t, x), t2 = [t EXCEPT !.hits = @ \ {x}]
        PROVE  FALSE
    BY <1>1, <2>2 DEF ReceiveCall, TaskTypes, TaskRecords
  <2>3. ASSUME NEW t \in tasks, EraseKeys(t), t2 = [t EXCEPT !.pc = "persist"]
        PROVE  Past(wheel'[t2.client], e)
    <3>1. t2.client = t.client /\ t2.entries = t.entries /\ t.client \in Clients
      BY <2>3 DEF TaskTypes, TaskRecords
    <3>2. e.round = t.round /\ e \in KnownEntries /\ t.round \in Nat
      BY <3>1, DialingAssumption DEF SeedsWerePut, TaskTypes, TaskRecords, Rounds
    <3>3. wheel[t.client] \in Maps(Entries)
      BY <3>1 DEF KeyTypes
    <3>4. wheel'[t.client] = Erased(wheel[t.client], t.round)
      BY <2>3, <3>1 DEF EraseKeys, KeyTypes
    <3>5. /\ DOMAIN Erased(wheel[t.client], t.round) = DOMAIN wheel[t.client]
          /\ \A u \in DOMAIN wheel[t.client] : t.round < Erased(wheel[t.client], t.round)[u].Round
      BY <3>2, <3>3, ErasedFacts
    <3>6. Erased(wheel[t.client], t.round) \in Maps(Entries)
      BY <3>2, <3>3, ErasedFacts
    <3>7. \A u \in DOMAIN wheel[t.client] : Erased(wheel[t.client], t.round)[u].Round \in Nat
      <4>1. Erased(wheel[t.client], t.round) \in [DOMAIN wheel[t.client] -> Entries]
        BY <3>5, <3>6, MapFacts
      <4>2. QED BY <4>1 DEF Entries
    <3>8. QED BY <3>1, <3>2, <3>4, <3>5, <3>7 DEF Past
  <2>4. ASSUME NEW c \in Clients, NEW r \in Rounds, NEW bad \in BOOLEAN, t2 = ScanTask(c, r, bad)
        PROVE  FALSE
    BY <1>1, <2>4 DEF ScanTask, Task
  <2>5. QED BY <1>1, <2>1, <2>2, <2>3, <2>4, ScanSteps
<1>2. ASSUME NEW c \in Clients, NEW e \in erased'[c]
      PROVE  Past(wheel'[c], e) /\ Past(wheelFile'[c], e)
  <2>1. CASE e \in erased[c]
    <3>1. /\ e \in KnownEntries /\ e.friend # c /\ e.seed <= puts[c][e.friend]
          /\ Past(wheel[c], e) /\ Past(wheelFile[c], e)
      BY <2>1 DEF KeyTypes, SeedsWerePut, ErasedForGood
    <3>2. QED BY <3>1, PastSteps
  <2>2. CASE e \notin erased[c]
    <3>1. PICK t \in tasks : PersistKeywheel(t)
      BY <1>2, <2>2, KeySteps DEF RemoveFriend, PutKey, Crash, EraseKeys, history
    <3>2. t.client \in Clients
      BY DEF TaskTypes, TaskRecords
    <3>3. erased'[c] = IF c = t.client THEN erased[c] \cup t.entries ELSE erased[c]
      <4>1. erased' = [erased EXCEPT ![t.client] = erased[t.client] \cup t.entries]
        BY <3>1 DEF PersistKeywheel
      <4>2. QED BY <4>1 DEF KeyTypes
    <3>4. t.client = c /\ e \in t.entries
      BY <1>2, <2>2, <3>3
    <3>5. Past(wheel[c], e)
      BY <3>1, <3>4 DEF PersistKeywheel, ErasedForGood
    <3>6. wheel' = wheel /\ wheelFile'[c] = wheel[c]
      BY <3>1, <3>4 DEF PersistKeywheel, KeyTypes
    <3>7. QED BY <3>5, <3>6
  <2>3. QED BY <2>1, <2>2
<1>3. QED BY <1>1, <1>2 DEF ErasedForGood
-----------------------------------------------------------------------------
(***************************************************************************)
(* Calls.                                                                  *)
(***************************************************************************)

\* The head of a queue.
LEMMA HeadFacts ==
    ASSUME CallTypes, CallsAreSentOnce, NEW c \in Clients, outgoingCalls[c] # << >>
    PROVE  /\ Head(outgoingCalls[c]) \in Calls
           /\ call[Head(outgoingCalls[c])].state = "queued"
           /\ call[Head(outgoingCalls[c])].from = c
<1>1. outgoingCalls[c] \in Seq(Calls) /\ QueueOK(c, outgoingCalls[c])
  BY DEF CallTypes, CallsAreSentOnce
<1>2. 1 \in DOMAIN outgoingCalls[c] /\ Head(outgoingCalls[c]) = outgoingCalls[c][1]
  BY <1>1
<1>3. QED BY <1>1, <1>2 DEF QueueOK

\* A call that was created has a client; a call of a client was created.
LEMMA CreatedFacts ==
    ASSUME CallTypes, CallsAreSentOnce, NEW k \in Calls
    PROVE  call[k].state # "none" <=> call[k].from \in Clients
BY DialingAssumption DEF CallsAreSentOnce, CallOK, NoCall

\* The call of a task.
LEMMA TaskCall ==
    ASSUME TaskTypes, TaskKinds, CallsAreSentOnce, NEW t \in tasks, t.pc \notin {"hits", "persist"}
    PROVE  /\ t.kind \in {"send", "read"} /\ t.call \in Calls /\ TaskOK(t, call[t.call])
           /\ t \in TaskRecords
BY DEF TaskTypes, TaskRecords, TaskKinds, CallsAreSentOnce

\* What a step makes of a call: it creates it, takes it on, changes its intent, or gives it
\* its round, or its token and key.
Created(k) ==
    \E c \in Clients : \E u \in Clients \ {c} : \E i \in Intents :
        /\ call[k].state = "none"
        /\ call'[k] = [NoCall EXCEPT !.state = "checked", !.from = c, !.Username = u, !.intent = i]
Moved(k) ==
    \E s \in {"queued", "cancelled", "removed", "lost", "sending", "sent"} :
        /\ call[k].state # "none"
        /\ s = "queued" => call[k].state = "checked"
        /\ s \in {"cancelled", "removed", "sending"} => call[k].state = "queued"
        /\ s = "lost" => \E c \in Clients : Crash(c) /\ call[k].from = c
        /\ s = "sent" => \E t \in tasks : SendOnion(t) /\ t.call = k
        /\ call'[k] = [call[k] EXCEPT !.state = s]
Updated(k) ==
    \E i \in Intents :
        /\ call[k].state \in {"queued", "sending", "sent"}
        /\ call[k].dialToken = Nil
        /\ call'[k] = [call[k] EXCEPT !.intent = i]
Stamped(k) ==
    \E t \in tasks :
        /\ StampCall(t) /\ t.call = k
        /\ call'[k] = [call[k] EXCEPT !.sentRound = t.round]
Stored(k) ==
    \E t \in tasks :
        /\ StoreKeys(t) /\ t.call = k
        /\ call[k].dialToken = Nil
        /\ call'[k] = [call[k] EXCEPT !.intent = t.intent, !.dialToken = t.token, !.sessionKey = t.key]

\* What a step makes of a call.
LEMMA CallSteps ==
    ASSUME Types, TaskKinds, CallsAreSentOnce, [Next]_vars, NEW k \in Calls
    PROVE  call'[k] = call[k] \/ Created(k) \/ Moved(k) \/ Updated(k) \/ Stamped(k) \/ Stored(k)
<1>0. call \in [Calls -> CallObjects]
  BY DEF Types, CallTypes
<1>1. CASE UNCHANGED vars
  BY <1>1 DEF vars
<1>2. ASSUME NEW c \in Clients, NEW u \in Clients \ {c}, NEW i \in Intents, NEW k2 \in Calls,
             Call(c, u, k2, i)
      PROVE  call'[k] = call[k] \/ Created(k)
  <2>1. CASE k = k2
    BY <1>0, <1>2, <2>1 DEF Call, Created
  <2>2. CASE k # k2
    BY <1>0, <1>2, <2>2 DEF Call
  <2>3. QED BY <2>1, <2>2
<1>3. ASSUME NEW c \in Clients, NEW u \in Clients \ {c}, RemoveFriend(c, u)
      PROVE  call'[k] = call[k] \/ Moved(k)
  <2>1. \/ call'[k] = call[k]
        \/ k \in ToSet(outgoingCalls[c]) /\ call'[k] = [call[k] EXCEPT !.state = "removed"]
    BY <1>0, <1>3 DEF RemoveFriend
  <2>2. k \in ToSet(outgoingCalls[c]) => call[k].state = "queued"
    BY DEF ToSet, CallsAreSentOnce, QueueOK
  <2>3. QED BY <2>1, <2>2 DEF Moved
<1>4. ASSUME NEW k2 \in Calls, Enqueue(k2)
      PROVE  call'[k] = call[k] \/ Moved(k)
  BY <1>0, <1>4 DEF Enqueue, CallObjects, Moved
<1>5. ASSUME NEW k2 \in Calls, NEW i \in Intents, UpdateIntent(k2, i)
      PROVE  call'[k] = call[k] \/ Updated(k)
  BY <1>0, <1>5 DEF UpdateIntent, Updated
<1>6. ASSUME NEW k2 \in Calls, Cancel(k2)
      PROVE  call'[k] = call[k] \/ Moved(k)
  BY <1>0, <1>6 DEF Cancel, CallObjects, Moved
<1>7. ASSUME NEW c \in Clients, Crash(c)
      PROVE  call'[k] = call[k] \/ Moved(k)
  <2>1. \/ call'[k] = call[k]
        \/ call[k].from = c /\ call'[k] = [call[k] EXCEPT !.state = "lost"]
    BY <1>0, <1>7 DEF Crash
  <2>2. call[k].from = c => call[k].state # "none"
    BY CreatedFacts DEF Types
  <2>3. QED BY <1>7, <2>1, <2>2 DEF Moved
<1>8. ASSUME NEW c \in Clients, NEW r \in Rounds, sendDialingOnion(c, r)
      PROVE  call'[k] = call[k] \/ Moved(k)
  <2>1. call[Head(outgoingCalls[c])].state = "queued" /\ Head(outgoingCalls[c]) \in Calls
    BY <1>8, HeadFacts DEF sendDialingOnion, Types
  <2>2. QED BY <1>0, <1>8, <2>1 DEF sendDialingOnion, CallObjects, Moved
<1>9. ASSUME NEW t \in tasks, StampCall(t)
      PROVE  call'[k] = call[k] \/ Stamped(k)
  BY <1>0, <1>9 DEF StampCall, Stamped
<1>10. ASSUME NEW t \in tasks, StoreKeys(t)
       PROVE  call'[k] = call[k] \/ Stored(k)
  <2>1. \/ call'[k] = call[k]
        \/ /\ t.call = k /\ call[k].dialToken = Nil
           /\ call'[k] = [call[k] EXCEPT !.intent = t.intent, !.dialToken = t.token, !.sessionKey = t.key]
    BY <1>0, <1>10 DEF StoreKeys
  <2>2. QED BY <1>10, <2>1 DEF Stored
<1>11. ASSUME NEW t \in tasks, SendOnion(t)
       PROVE  call'[k] = call[k] \/ Moved(k)
  <2>1. call[t.call].state \in {"sending", "sent"}
    BY <1>11, TaskCall DEF SendOnion, TaskOK, Types
  <2>2. QED BY <1>0, <1>11, <2>1 DEF SendOnion, CallObjects, Moved
<1>12. ASSUME NEW t \in tasks,
              \/ BeginCompute(t) \/ ReadToken(t) \/ ReadKey(t) \/ EraseKeys(t) \/ PersistKeywheel(t)
              \/ \E x \in t.hits : ReceiveCall(t, x)
       PROVE  call'[k] = call[k]
  BY <1>12 DEF BeginCompute, ReadToken, ReadKey, EraseKeys, PersistKeywheel, ReceiveCall
<1>13. ASSUME NEW t \in tasks, SendPanics(t)
       PROVE  \E c \in Clients : Crash(c)
  BY <1>13 DEF SendPanics, Types, TaskTypes, TaskRecords
<1>14. CASE Service
  BY <1>14 DEF Service, OpenRound, PublishRound, FailRound
<1>15. CASE Application
  <2>1. ASSUME NEW c \in Clients, NEW u \in Clients \ {c}, PutKey(c, u)
        PROVE  call'[k] = call[k]
    BY <2>1 DEF PutKey
  <2>2. ASSUME NEW k2 \in Calls, BeginSessionKey(k2)
        PROVE  call'[k] = call[k]
    BY <2>2 DEF BeginSessionKey
  <2>3. QED BY <1>2, <1>3, <1>4, <1>5, <1>6, <1>15, <2>1, <2>2 DEF Application
<1>16. ASSUME NEW c \in Clients, NEW r \in Rounds,
              FetchFails(c, r) \/ \E bad \in BOOLEAN : scanBloomFilter(c, r, bad)
       PROVE  call'[k] = call[k]
  BY <1>16 DEF FetchFails, scanBloomFilter
<1>17. ASSUME NEW t \in tasks, TaskStep(t)
       PROVE  call'[k] = call[k] \/ Moved(k) \/ Stamped(k) \/ Stored(k)
  BY <1>9, <1>10, <1>11, <1>12, <1>17 DEF TaskStep
<1>18. QED BY <1>1, <1>7, <1>8, <1>13, <1>14, <1>15, <1>16, <1>17 DEF Next, Handlers

\* What a step makes of a queue.
LEMMA QueueSteps ==
    ASSUME Types, TaskKinds, CallsAreSentOnce, [Next]_vars, NEW c \in Clients
    PROVE  \/ outgoingCalls'[c] = outgoingCalls[c]
           \/ \E k \in Calls :
                /\ Enqueue(k) /\ call[k].from = c
                /\ outgoingCalls'[c] = Append(outgoingCalls[c], k)
           \/ \E k \in Calls : \E i \in DOMAIN outgoingCalls[c] :
                /\ Cancel(k) /\ outgoingCalls[c][i] = k
                /\ outgoingCalls'[c] = RemoveAt(outgoingCalls[c], i)
           \/ \E u \in Clients :
                /\ RemoveFriend(c, u)
                /\ outgoingCalls'[c] =
                     Without(outgoingCalls[c], {k \in ToSet(outgoingCalls[c]) : call[k].Username = u})
           \/ Crash(c) /\ outgoingCalls'[c] = << >>
           \/ \E r \in Rounds :
                /\ sendDialingOnion(c, r)
                /\ outgoingCalls'[c] = Tail(outgoingCalls[c])
<1>0. outgoingCalls \in [Clients -> Seq(Calls)]
  BY DEF Types, CallTypes
<1>1. CASE UNCHANGED vars
  BY <1>1 DEF vars
<1>2. ASSUME NEW d \in Clients, NEW u \in Clients \ {d}, RemoveFriend(d, u)
      PROVE  \/ outgoingCalls'[c] = outgoingCalls[c]
             \/ /\ RemoveFriend(c, u)
                /\ outgoingCalls'[c] =
                     Without(outgoingCalls[c], {k \in ToSet(outgoingCalls[c]) : call[k].Username = u})
  BY <1>0, <1>2 DEF RemoveFriend
<1>3. ASSUME NEW k \in Calls, Enqueue(k)
      PROVE  \/ outgoingCalls'[c] = outgoingCalls[c]
             \/ call[k].from = c /\ outgoingCalls'[c] = Append(outgoingCalls[c], k)
  BY <1>0, <1>3 DEF Enqueue
<1>4. ASSUME NEW k \in Calls, Cancel(k)
      PROVE  \/ outgoingCalls'[c] = outgoingCalls[c]
             \/ \E i \in DOMAIN outgoingCalls[c] :
                  outgoingCalls[c][i] = k /\ outgoingCalls'[c] = RemoveAt(outgoingCalls[c], i)
  BY <1>0, <1>4 DEF Cancel
<1>5. ASSUME NEW d \in Clients, Crash(d)
      PROVE  \/ outgoingCalls'[c] = outgoingCalls[c]
             \/ Crash(c) /\ outgoingCalls'[c] = << >>
  BY <1>0, <1>5 DEF Crash
<1>6. ASSUME NEW d \in Clients, NEW r \in Rounds, sendDialingOnion(d, r)
      PROVE  \/ outgoingCalls'[c] = outgoingCalls[c]
             \/ sendDialingOnion(c, r) /\ outgoingCalls'[c] = Tail(outgoingCalls[c])
  BY <1>0, <1>6 DEF sendDialingOnion
<1>7. CASE Application
  BY <1>2, <1>3, <1>4, <1>7 DEF Application, Call, PutKey, UpdateIntent, BeginSessionKey
<1>8. CASE Service
  BY <1>8 DEF Service, OpenRound, PublishRound, FailRound
<1>9. ASSUME NEW t \in tasks, TaskStep(t)
      PROVE  outgoingCalls'[c] = outgoingCalls[c]
  BY <1>9 DEF TaskStep, StampCall, BeginCompute, ReadToken, ReadKey, StoreKeys, SendOnion,
              ReceiveCall, EraseKeys, PersistKeywheel
<1>10. ASSUME NEW t \in tasks, SendPanics(t)
       PROVE  \E d \in Clients : Crash(d)
  BY <1>10 DEF SendPanics, Types, TaskTypes, TaskRecords
<1>11. ASSUME NEW d \in Clients, NEW r \in Rounds,
              FetchFails(d, r) \/ \E bad \in BOOLEAN : scanBloomFilter(d, r, bad)
       PROVE  outgoingCalls'[c] = outgoingCalls[c]
  BY <1>11 DEF FetchFails, scanBloomFilter
<1>12. QED BY <1>1, <1>5, <1>6, <1>7, <1>8, <1>9, <1>10, <1>11 DEF Next, Handlers

\* The types of queues and calls.
LEMMA CallTypesStep ==
    ASSUME Types, TaskKinds, CallsAreSentOnce, [Next]_vars
    PROVE  CallTypes'
<1>1. /\ outgoingCalls \in [Clients -> Seq(Calls)]
      /\ call \in [Calls -> CallObjects]
  BY DEF Types, CallTypes
<1>2. /\ call' = [k \in Calls |-> call'[k]]
      /\ outgoingCalls' = [c \in Clients |-> outgoingCalls'[c]]
  <2>1. CASE UNCHANGED vars
    BY <1>1, <2>1 DEF vars
  <2>2. CASE Application
    BY <1>1, <2>2 DEF Application, Call, Enqueue, UpdateIntent, Cancel, BeginSessionKey, RemoveFriend, PutKey
  <2>3. CASE Service
    BY <1>1, <2>3 DEF Service, OpenRound, PublishRound, FailRound
  <2>4. ASSUME NEW c, Crash(c)
        PROVE  /\ call' = [k \in Calls |-> call'[k]]
               /\ outgoingCalls' = [d \in Clients |-> outgoingCalls'[d]]
    BY <1>1, <2>4 DEF Crash
  <2>5. CASE Handlers
    BY <1>1, <2>4, <2>5 DEF Handlers, sendDialingOnion, scanBloomFilter, FetchFails, SendPanics, TaskStep,
       StampCall, BeginCompute, ReadToken, ReadKey, StoreKeys, SendOnion, ReceiveCall, EraseKeys,
       PersistKeywheel
  <2>6. QED BY <2>1, <2>2, <2>3, <2>4, <2>5 DEF Next
<1>3. ASSUME NEW k \in Calls
      PROVE  call'[k] \in CallObjects
  <2>1. call[k] \in CallObjects
    BY <1>1
  <2>2. CASE Stamped(k)
    BY <2>1, <2>2 DEF Stamped, Types, TaskTypes, TaskRecords, CallObjects
  <2>3. CASE Stored(k)
    BY <2>1, <2>3 DEF Stored, Types, TaskTypes, TaskRecords, CallObjects
  <2>4. CASE Updated(k)
    BY <2>1, <2>4 DEF Updated, CallObjects
  <2>5. CASE Moved(k)
    BY <2>1, <2>5 DEF Moved, CallObjects
  <2>6. CASE Created(k)
    BY <2>6 DEF Created, CallObjects, NoCall
  <2>7. QED BY <2>1, <2>2, <2>3, <2>4, <2>5, <2>6, CallSteps
<1>4. ASSUME NEW c \in Clients
      PROVE  outgoingCalls'[c] \in Seq(Calls)
  <2>1. outgoingCalls[c] \in Seq(Calls)
    BY <1>1
  <2>2. \A k \in Calls : Append(outgoingCalls[c], k) \in Seq(Calls)
    BY <2>1
  <2>3. \A i \in DOMAIN outgoingCalls[c] : RemoveAt(outgoingCalls[c], i) \in Seq(Calls)
    BY <2>1, RemoveAtFacts
  <2>4. \A dropped : Without(outgoingCalls[c], dropped) \in Seq(Calls)
    BY <2>1, WithoutFacts
  <2>5. << >> \in Seq(Calls)
    OBVIOUS
  <2>6. outgoingCalls[c] # << >> => Tail(outgoingCalls[c]) \in Seq(Calls)
    BY <2>1
  <2>7. \A r \in Rounds : sendDialingOnion(c, r) => outgoingCalls[c] # << >>
    BY DEF sendDialingOnion
  <2>8. QED BY <2>1, <2>2, <2>3, <2>4, <2>5, <2>6, <2>7, QueueSteps
<1>5. QED BY <1>2, <1>3, <1>4 DEF CallTypes

\* Fields of tasks.
LEMMA TaskTypesStep ==
    ASSUME Types, TaskKinds, CallsAreSentOnce, SeedsWerePut, [Next]_vars
    PROVE  TaskTypes'
<1> SUFFICES ASSUME NEW t2 \in tasks' PROVE t2 \in TaskRecords
  BY DEF TaskTypes
<1> USE DEF Types
<1>1. CASE t2 \in tasks
  BY <1>1 DEF TaskTypes
<1>2. ASSUME NEW k \in Calls, BeginSessionKey(k), t2 = Task("read", call[k].from, 0, "begin", k)
      PROVE  t2 \in TaskRecords
  <2>1. call[k].from \in Clients
    BY <1>2, CreatedFacts DEF BeginSessionKey
  <2>2. QED BY <1>2, <2>1, DialingAssumption DEF Task, TaskRecords, Intents
<1>3. ASSUME NEW c \in Clients, NEW r \in Rounds, sendDialingOnion(c, r),
             t2 = Task("send", c, r, "stamp", Head(outgoingCalls[c]))
      PROVE  t2 \in TaskRecords
  <2>1. Head(outgoingCalls[c]) \in Calls
    BY <1>3, HeadFacts DEF sendDialingOnion
  <2>2. QED BY <1>3, <2>1, DialingAssumption DEF Task, TaskRecords, Intents
<1>4. ASSUME NEW c \in Clients, NEW r \in Rounds, NEW bad \in BOOLEAN, t2 = ScanTask(c, r, bad)
      PROVE  t2 \in TaskRecords
  <2>1. wheel[c] \in [DOMAIN wheel[c] -> Entries] /\ DOMAIN wheel[c] \in SUBSET Clients
    BY MapFacts DEF KeyTypes
  <2>2. Hits(c, r, bad) \subseteq Candidates
    <3>1. \A u \in Reachable(c, r), i \in Intents :
            [from |-> u, token |-> DialToken(c, u, wheel[c][u].seed, r, c, i)] \in Candidates
      BY <2>1, DialTokenType DEF Reachable, Candidates, Entries
    <3>2. QED BY <3>1 DEF Hits, IncomingDialTokens
  <2>3. {[friend |-> u, seed |-> wheel[c][u].seed, round |-> r] : u \in DOMAIN wheel[c]} \subseteq KnownEntries
    BY <2>1 DEF KnownEntries, Entries
  <2> DEFINE H == Hits(c, r, bad)
             E == {[friend |-> u, seed |-> wheel[c][u].seed, round |-> r] : u \in DOMAIN wheel[c]}
  <2>4. t2 = [Task("scan", c, r, "hits", Nil) EXCEPT !.hits = H, !.entries = E]
    BY <1>4 DEF ScanTask
  <2>5. H \subseteq Candidates /\ E \subseteq KnownEntries
    BY <2>2, <2>3
  <2> HIDE DEF H, E
  <2>6. Task("scan", c, r, "hits", Nil) \in TaskRecords
    BY DialingAssumption DEF Task, TaskRecords, Intents
  <2>7. QED BY <2>4, <2>5, <2>6 DEF TaskRecords
<1>5. ASSUME NEW t \in tasks, TaskStep(t), t2 \notin tasks
      PROVE  t2 \in TaskRecords
  <2>1. t \in TaskRecords
    BY DEF TaskTypes
  <2>0. /\ \A token \in Tokens \cup {Nil} : [t EXCEPT !.pc = "computed", !.token = token] \in TaskRecords
        /\ \A i \in Intents, r \in Rounds \cup {0} :
             [t EXCEPT !.pc = "token", !.intent = i, !.round = r] \in TaskRecords
    BY <2>1 DEF TaskRecords
  <2>2. CASE StampCall(t)
    <3>1. t2 = [t EXCEPT !.pc = "begin"]
      BY <1>5, <2>2 DEF StampCall, Advance
    <3>2. QED BY <2>1, <3>1 DEF TaskRecords
  <2>3. CASE BeginCompute(t)
    <3>1. /\ call[t.call].dialToken \in Tokens \cup {Nil}
          /\ call[t.call].intent \in Intents /\ call[t.call].sentRound \in Rounds \cup {0}
      BY <2>3, TaskCall DEF BeginCompute, CallTypes, CallObjects
    <3>2. \/ t2 = [t EXCEPT !.pc = "computed", !.token = call[t.call].dialToken]
          \/ t2 = [t EXCEPT !.pc = "token", !.intent = call[t.call].intent, !.round = call[t.call].sentRound]
      BY <1>5, <2>3, ComputedFacts DEF BeginCompute, Advance
    <3>3. QED BY <2>0, <3>1, <3>2
  <2>4. CASE ReadToken(t)
    <3>1. /\ t.call \in Calls /\ TaskOK(t, call[t.call]) /\ CallOK(call[t.call])
          /\ t.client \in Clients /\ t.round \in Rounds /\ t.intent \in Intents
      BY <2>4, TaskCall DEF ReadToken, TaskOK, TaskRecords, CallsAreSentOnce
    <3>2. call[t.call].Username \in Clients
      BY <2>4, <3>1 DEF CallOK, TaskOK
    <3>3. OutgoingDialToken(t.client, call[t.call].Username, t.round, t.intent) \in Tokens \cup {Nil}
      BY <3>1, <3>2, ReadFacts
    <3>4. t2 = [t EXCEPT !.pc = "key", !.token =
                  OutgoingDialToken(t.client, call[t.call].Username, t.round, t.intent)]
      BY <1>5, <2>4 DEF ReadToken, Advance
    <3>5. QED BY <2>1, <3>3, <3>4 DEF TaskRecords
  <2>5. CASE ReadKey(t)
    <3>1. /\ t.call \in Calls /\ TaskOK(t, call[t.call]) /\ CallOK(call[t.call])
          /\ t.client \in Clients /\ t.round \in Rounds /\ t.intent \in Intents
      BY <2>5, TaskCall DEF ReadKey, TaskOK, TaskRecords, CallsAreSentOnce
    <3>2. call[t.call].Username \in Clients
      BY <2>5, <3>1 DEF CallOK, TaskOK
    <3>3. SessionKey(t.client, call[t.call].Username, t.round) \in RoundKeys \cup {Nil}
      BY <3>1, <3>2, ReadFacts
    <3>4. t2 = [t EXCEPT !.pc = "store", !.key = SessionKey(t.client, call[t.call].Username, t.round)]
      BY <1>5, <2>5 DEF ReadKey, Advance
    <3>5. QED BY <2>1, <3>3, <3>4 DEF TaskRecords
  <2>6. CASE StoreKeys(t)
    <3>1. t.call \in Calls /\ call[t.call].dialToken \in Tokens \cup {Nil} /\ t.token \in Tokens \cup {Nil}
      BY <2>1, <2>6, TaskCall DEF StoreKeys, CallTypes, CallObjects, TaskRecords
    <3>2. \/ t2 = [t EXCEPT !.pc = "computed", !.token = call[t.call].dialToken]
          \/ t2 = [t EXCEPT !.pc = "computed", !.token = t.token]
      BY <1>5, <2>6, ComputedFacts DEF StoreKeys
    <3>3. QED BY <2>0, <3>1, <3>2
  <2>7. CASE SendOnion(t) \/ PersistKeywheel(t)
    BY <1>5, <2>7 DEF SendOnion, PersistKeywheel
  <2>8. ASSUME NEW x \in t.hits, ReceiveCall(t, x)
        PROVE  t2 \in TaskRecords
    <3>1. t2 = [t EXCEPT !.hits = @ \ {x}]
      BY <1>5, <2>8 DEF ReceiveCall, Advance
    <3>2. QED BY <2>1, <3>1 DEF TaskRecords
  <2>9. CASE EraseKeys(t)
    <3>1. t2 = [t EXCEPT !.pc = "persist"]
      BY <1>5, <2>9 DEF EraseKeys, Advance
    <3>2. QED BY <2>1, <3>1 DEF TaskRecords
  <2>10. QED BY <1>5, <2>2, <2>3, <2>4, <2>5, <2>6, <2>7, <2>8, <2>9 DEF TaskStep
<1>6. CASE Application
  BY <1>1, <1>2, <1>6 DEF Application, Call, Enqueue, UpdateIntent, Cancel, BeginSessionKey, RemoveFriend, PutKey
<1>7. CASE Service
  BY <1>1, <1>7 DEF Service, OpenRound, PublishRound, FailRound
<1>8. ASSUME NEW c, Crash(c)
      PROVE  t2 \in TaskRecords
  BY <1>1, <1>8 DEF Crash
<1>9. CASE Handlers
  <2>1. ASSUME NEW c \in Clients, NEW r \in Rounds, sendDialingOnion(c, r)
        PROVE  t2 \in TaskRecords
    BY <1>1, <1>3, <2>1 DEF sendDialingOnion
  <2>2. ASSUME NEW c \in Clients, NEW r \in Rounds, NEW bad \in BOOLEAN, scanBloomFilter(c, r, bad)
        PROVE  t2 \in TaskRecords
    BY <1>1, <1>4, <2>2 DEF scanBloomFilter, ScanTask
  <2>3. ASSUME NEW c \in Clients, NEW r \in Rounds, FetchFails(c, r)
        PROVE  t2 \in TaskRecords
    BY <1>1, <2>3 DEF FetchFails
  <2>4. ASSUME NEW t \in tasks, SendPanics(t)
        PROVE  t2 \in TaskRecords
    BY <1>8, <2>4 DEF SendPanics
  <2>5. QED BY <1>1, <1>5, <1>9, <2>1, <2>2, <2>3, <2>4 DEF Handlers
<1>10. CASE UNCHANGED vars
  BY <1>1, <1>10 DEF vars
<1>11. QED BY <1>6, <1>7, <1>8, <1>9, <1>10 DEF Next

\* The types of rounds, tokens and received calls.
LEMMA RoundTypesStep ==
    ASSUME Types, TaskKinds, SeedsWerePut, [Next]_vars
    PROVE  RoundTypes'
<1> USE DEF Types
<1>1. CASE UNCHANGED vars
  BY <1>1 DEF vars, rounds, service, history, RoundTypes
<1>2. CASE Application
  BY <1>2 DEF Application, Call, Enqueue, UpdateIntent, Cancel, BeginSessionKey, RemoveFriend, PutKey,
              rounds, service, history, RoundTypes
<1>3. ASSUME NEW c \in Clients, Crash(c)
      PROVE  RoundTypes'
  BY <1>3 DEF Crash, service, history, RoundTypes
<1>4. ASSUME NEW r \in Rounds, NEW Ready \in SUBSET Clients, OpenRound(r, Ready)
      PROVE  RoundTypes'
  <2>1. net' \in [Rounds -> {"none", "open", "mixing", "published", "failed"}]
    BY <1>4 DEF OpenRound, RoundTypes
  <2>2. ready' \in [Clients -> SUBSET Rounds]
    BY <1>4 DEF OpenRound, RoundTypes
  <2>3. QED BY <1>4, <2>1, <2>2 DEF OpenRound, history, RoundTypes
<1>5. ASSUME NEW r \in Rounds, PublishRound(r) \/ FailRound(r)
      PROVE  RoundTypes'
  BY <1>5 DEF PublishRound, FailRound, rounds, history, RoundTypes
<1>6. ASSUME NEW c \in Clients, NEW r \in Rounds,
             \/ sendDialingOnion(c, r) \/ FetchFails(c, r)
             \/ \E bad \in BOOLEAN : scanBloomFilter(c, r, bad)
      PROVE  RoundTypes'
  <2>1. CASE sendDialingOnion(c, r)
    BY <2>1 DEF sendDialingOnion, service, history, RoundTypes
  <2>2. CASE FetchFails(c, r)
    BY <2>2 DEF FetchFails, service, history, RoundTypes
  <2>3. ASSUME NEW bad \in BOOLEAN, scanBloomFilter(c, r, bad)
        PROVE  RoundTypes'
    BY <2>3 DEF scanBloomFilter, service, RoundTypes
  <2>4. QED BY <1>6, <2>1, <2>2, <2>3
<1>7. ASSUME NEW t \in tasks, TaskStep(t)
      PROVE  RoundTypes'
  <2>1. t \in TaskRecords
    BY DEF TaskTypes
  <2>2. CASE SendOnion(t)
    <3>1. t.token \in Tokens
      BY <2>1, <2>2 DEF SendOnion, TaskRecords
    <3>2. QED BY <2>2, <3>1 DEF SendOnion, rounds, history, RoundTypes
  <2>3. ASSUME NEW x \in t.hits, ReceiveCall(t, x)
        PROVE  RoundTypes'
    <3>1. t.round \in Rounds /\ t.client \in Clients /\ x \in Candidates
      BY <2>1, <2>3 DEF ReceiveCall, TaskKinds, TaskRecords
    <3>2. SessionKey(t.client, x.from, t.round) \in RoundKeys \cup {Nil}
      <4>1. 0 \in Intents
        BY DialingAssumption DEF Intents
      <4>2. QED BY <3>1, <4>1, ReadFacts DEF Candidates
    <3> DEFINE y == [to |-> t.client, from |-> x.from, token |-> x.token, Round |-> t.round,
                     Intent |-> x.token.intent, SessionKey |-> SessionKey(t.client, x.from, t.round)]
    <3>3. y \in CallRecords
      BY <3>1, <3>2 DEF CallRecords, Candidates, Tokens
    <3>4. received' = received \cup {y}
      BY <2>3 DEF ReceiveCall
    <3> HIDE DEF y
    <3>5. QED BY <2>3, <3>3, <3>4 DEF ReceiveCall, rounds, service, RoundTypes
  <2>4. CASE \/ StampCall(t) \/ BeginCompute(t) \/ ReadToken(t) \/ ReadKey(t) \/ StoreKeys(t)
             \/ EraseKeys(t) \/ PersistKeywheel(t)
    BY <2>4 DEF StampCall, BeginCompute, ReadToken, ReadKey, StoreKeys, EraseKeys, PersistKeywheel,
                rounds, service, history, RoundTypes
  <2>5. QED BY <1>7, <2>2, <2>3, <2>4 DEF TaskStep
<1>8. ASSUME NEW t \in tasks, SendPanics(t)
      PROVE  RoundTypes'
  <2>1. t.client \in Clients
    BY DEF TaskTypes, TaskRecords
  <2>2. QED BY <1>3, <1>8, <2>1 DEF SendPanics
<1>9. QED BY <1>1, <1>2, <1>3, <1>4, <1>5, <1>6, <1>7, <1>8 DEF Next, Handlers, Service
-----------------------------------------------------------------------------
(***************************************************************************)
(* A call is sent once, with one token.                                    *)
(***************************************************************************)

\* What a step leaves of a call.
LEMMA CallKeeps ==
    ASSUME Types, TaskKinds, CallsAreSentOnce, [Next]_vars, NEW k \in Calls, call[k].state # "none"
    PROVE  /\ call'[k].from = call[k].from /\ call'[k].Username = call[k].Username
           /\ call'[k].state # "none"
           /\ call[k].sentRound # 0 => call'[k].sentRound = call[k].sentRound
           /\ call[k].dialToken # Nil => /\ call'[k].dialToken = call[k].dialToken
                                         /\ call'[k].intent = call[k].intent
<1>1. call[k] \in CallObjects /\ CallOK(call[k])
  BY DEF Types, CallTypes, CallsAreSentOnce
<1>2. CASE Created(k)
  BY <1>2 DEF Created
<1>3. CASE Moved(k)
  BY <1>1, <1>3 DEF Moved, CallObjects
<1>4. CASE Updated(k)
  BY <1>1, <1>4 DEF Updated, CallObjects
<1>5. CASE Stamped(k)
  <2>1. PICK t \in tasks : /\ StampCall(t) /\ t.call = k
                           /\ call'[k] = [call[k] EXCEPT !.sentRound = t.round]
    BY <1>5 DEF Stamped
  <2>2. TaskOK(t, call[k]) /\ t.pc = "stamp"
    BY <2>1, TaskCall DEF StampCall, Types
  <2>3. call[k].sentRound = 0
    BY <2>2 DEF TaskOK
  <2>4. QED BY <1>1, <2>1, <2>3 DEF CallObjects
<1>6. CASE Stored(k)
  BY <1>1, <1>6 DEF Stored, CallObjects
<1>7. QED BY <1>1, <1>2, <1>3, <1>4, <1>5, <1>6, CallSteps

\* A token, or a key, of a call stays one.
LEMMA TokenOfKeeps ==
    ASSUME NEW o, NEW o2, o2.from = o.from, o2.Username = o.Username, o2.sentRound = o.sentRound,
           NEW token, NEW intent
    PROVE  /\ TokenOf(o, token, intent) => TokenOf(o2, token, intent)
           /\ KeyOf(o, token) => KeyOf(o2, token)
BY DEF TokenOf, KeyOf

\* A call keeps its round, and the first token and key that computeKeys gives it.
LEMMA CallOKStep ==
    ASSUME Types, TaskKinds, CallsAreSentOnce, [Next]_vars, NEW k \in Calls
    PROVE  CallOK(call'[k])
<1>1. call[k] \in CallObjects /\ CallOK(call[k])
  BY DEF Types, CallTypes, CallsAreSentOnce
<1>2. CASE Created(k)
  BY <1>2, DialingAssumption DEF Created, CallOK, NoCall
<1>3. CASE Moved(k)
  <2>1. PICK s \in {"queued", "cancelled", "removed", "lost", "sending", "sent"} :
          /\ call[k].state # "none"
          /\ s = "queued" => call[k].state = "checked"
          /\ call'[k] = [call[k] EXCEPT !.state = s]
    BY <1>3 DEF Moved
  <2>2. /\ call'[k].state = s
        /\ call'[k].from = call[k].from /\ call'[k].Username = call[k].Username
        /\ call'[k].sentRound = call[k].sentRound /\ call'[k].intent = call[k].intent
        /\ call'[k].dialToken = call[k].dialToken /\ call'[k].sessionKey = call[k].sessionKey
    BY <1>1, <2>1 DEF CallObjects
  <2>3. QED BY <1>1, <2>1, <2>2, TokenOfKeeps DEF CallOK
<1>4. CASE Updated(k)
  <2>1. PICK i : /\ call[k].state \in {"queued", "sending", "sent"} /\ call[k].dialToken = Nil
                 /\ call'[k] = [call[k] EXCEPT !.intent = i]
    BY <1>4 DEF Updated
  <2>2. /\ call'[k].state = call[k].state
        /\ call'[k].from = call[k].from /\ call'[k].Username = call[k].Username
        /\ call'[k].sentRound = call[k].sentRound
        /\ call'[k].dialToken = Nil /\ call'[k].sessionKey = call[k].sessionKey
    BY <1>1, <2>1 DEF CallObjects
  <2>3. QED BY <1>1, <2>1, <2>2, TokenOfKeeps DEF CallOK
<1>5. CASE Stamped(k)
  <2>1. PICK t \in tasks : /\ StampCall(t) /\ t.call = k
                           /\ call'[k] = [call[k] EXCEPT !.sentRound = t.round]
    BY <1>5 DEF Stamped
  <2>2. TaskOK(t, call[k]) /\ t.pc = "stamp"
    BY <2>1, TaskCall DEF StampCall, Types
  <2>3. call[k].sentRound = 0 /\ t.round # 0 /\ call[k].state \in {"sending", "sent"}
    BY <2>2 DEF TaskOK
  <2>4. call[k].dialToken = Nil /\ call[k].sessionKey = Nil
    BY <1>1, <2>3 DEF CallOK
  <2>5. /\ call'[k].state = call[k].state
        /\ call'[k].from = call[k].from /\ call'[k].Username = call[k].Username
        /\ call'[k].sentRound = t.round
        /\ call'[k].dialToken = Nil /\ call'[k].sessionKey = Nil
    BY <1>1, <2>1, <2>4 DEF CallObjects
  <2>6. QED BY <1>1, <2>3, <2>5 DEF CallOK
<1>6. CASE Stored(k)
  <2>1. PICK t \in tasks :
          /\ StoreKeys(t) /\ t.call = k
          /\ call'[k] = [call[k] EXCEPT !.intent = t.intent, !.dialToken = t.token, !.sessionKey = t.key]
    BY <1>6 DEF Stored
  <2>2. TaskOK(t, call[k]) /\ t.pc = "store"
    BY <2>1, TaskCall DEF StoreKeys, Types
  <2>3. /\ call[k].sentRound # 0 /\ call[k].state \in {"sending", "sent"}
        /\ t.token # Nil => TokenOf(call[k], t.token, t.intent)
        /\ t.key # Nil => KeyOf(call[k], t.key)
    BY <2>2 DEF TaskOK
  <2>4. /\ call'[k].state = call[k].state
        /\ call'[k].from = call[k].from /\ call'[k].Username = call[k].Username
        /\ call'[k].sentRound = call[k].sentRound /\ call'[k].intent = t.intent
        /\ call'[k].dialToken = t.token /\ call'[k].sessionKey = t.key
    BY <1>1, <2>1 DEF CallObjects
  <2>5. QED BY <1>1, <2>3, <2>4, TokenOfKeeps DEF CallOK
<1>7. QED BY <1>1, <1>2, <1>3, <1>4, <1>5, <1>6, CallSteps

\* A queued call stays queued unless it is taken out of its queue.
LEMMA QueuedKeeps ==
    ASSUME Types, TaskKinds, CallsAreSentOnce, [Next]_vars, NEW k \in Calls, call[k].state = "queued",
           ~Cancel(k),
           \A c \in Clients : ~Crash(c) /\ (\A u \in Clients : ~RemoveFriend(c, u))
                                        /\ (\A r \in Rounds : ~sendDialingOnion(c, r))
    PROVE  call'[k].state = "queued" /\ call'[k].from = call[k].from
<1>0. call \in [Calls -> CallObjects]
  BY DEF Types, CallTypes
<1>1. CASE UNCHANGED vars
  BY <1>1 DEF vars
<1>2. CASE Application
  <2>1. ASSUME NEW c \in Clients, NEW u \in Clients, NEW k2 \in Calls, NEW i \in Intents, Call(c, u, k2, i)
        PROVE  call'[k] = call[k]
    BY <1>0, <2>1 DEF Call
  <2>2. ASSUME NEW k2 \in Calls, Enqueue(k2)
        PROVE  call'[k] = call[k]
    BY <1>0, <2>2 DEF Enqueue
  <2>3. ASSUME NEW k2 \in Calls, Cancel(k2)
        PROVE  call'[k] = call[k]
    BY <1>0, <2>3 DEF Cancel
  <2>4. ASSUME NEW k2 \in Calls, NEW i \in Intents, UpdateIntent(k2, i)
        PROVE  call'[k].state = "queued" /\ call'[k].from = call[k].from
    BY <1>0, <2>4 DEF UpdateIntent, CallObjects
  <2>5. QED BY <1>2, <2>1, <2>2, <2>3, <2>4 DEF Application, BeginSessionKey, PutKey
<1>3. CASE Service
  BY <1>3 DEF Service, OpenRound, PublishRound, FailRound
<1>4. ASSUME NEW t \in tasks, TaskStep(t)
      PROVE  call'[k].state = "queued" /\ call'[k].from = call[k].from
  <2>1. t.pc \notin {"hits", "persist"} => t.call # k
    BY TaskCall DEF TaskOK, Types
  <2>2. CASE StampCall(t)
    BY <1>0, <2>1, <2>2 DEF StampCall
  <2>3. CASE StoreKeys(t)
    BY <1>0, <2>1, <2>3 DEF StoreKeys
  <2>4. CASE SendOnion(t)
    BY <1>0, <2>1, <2>4 DEF SendOnion
  <2>5. QED BY <1>4, <2>2, <2>3, <2>4 DEF TaskStep, BeginCompute, ReadToken, ReadKey, ReceiveCall, EraseKeys, PersistKeywheel
<1>5. ASSUME NEW t \in tasks
      PROVE  ~SendPanics(t)
  BY DEF SendPanics, Types, TaskTypes, TaskRecords
<1>6. QED BY <1>1, <1>2, <1>3, <1>4, <1>5 DEF Next, Handlers, scanBloomFilter, FetchFails

\* Queues stay without duplicates through Cancel, Remove and nextOutgoingCall.
LEMMA QueueOKStep ==
    ASSUME Types, TaskKinds, CallsAreSentOnce, [Next]_vars, NEW c \in Clients
    PROVE  QueueOK(c, outgoingCalls[c])'
<1> DEFINE q == outgoingCalls[c]
           q2 == outgoingCalls'[c]
<1>0. /\ outgoingCalls \in [Clients -> Seq(Calls)] /\ call \in [Calls -> CallObjects]
      /\ q \in Seq(Calls)
  BY DEF Types, CallTypes
<1>1. /\ \A i \in DOMAIN q : q[i] \in Calls /\ call[q[i]].state = "queued" /\ call[q[i]].from = c
      /\ Distinct(q)
  BY <1>0 DEF CallsAreSentOnce, QueueOK, Distinct
<1>2. SUFFICES /\ \A i \in DOMAIN q2 : call'[q2[i]].state = "queued" /\ call'[q2[i]].from = c
               /\ Distinct(q2)
  BY DEF QueueOK, Distinct
<1> HIDE DEF q, q2
<1>3. ASSUME NEW k \in Calls, Enqueue(k)
      PROVE  /\ \A i \in DOMAIN q2 : call'[q2[i]].state = "queued" /\ call'[q2[i]].from = c
             /\ Distinct(q2)
  <2>1. \A i \in DOMAIN q : q[i] # k /\ call'[q[i]] = call[q[i]]
    BY <1>0, <1>1, <1>3 DEF Enqueue
  <2>2. call[k].from = c => call'[k].state = "queued" /\ call'[k].from = c
    BY <1>0, <1>3 DEF Enqueue, CallObjects
  <2>3. q2 = IF call[k].from = c THEN Append(q, k) ELSE q
    BY <1>0, <1>3 DEF Enqueue, q, q2
  <2>4. CASE call[k].from = c
    <3>1. /\ DOMAIN q2 = DOMAIN q \cup {Len(q) + 1}
          /\ \A i \in DOMAIN q : q2[i] = q[i]
          /\ q2[Len(q) + 1] = k
      BY <1>0, <2>3, <2>4
    <3>2. QED BY <1>1, <2>1, <2>2, <2>4, <3>1 DEF Distinct
  <2>5. QED BY <1>1, <2>1, <2>3, <2>4
<1>4. ASSUME NEW k \in Calls, Cancel(k)
      PROVE  /\ \A i \in DOMAIN q2 : call'[q2[i]].state = "queued" /\ call'[q2[i]].from = c
             /\ Distinct(q2)
  <2>1. \A i \in DOMAIN q : q[i] # k => call'[q[i]] = call[q[i]]
    BY <1>0, <1>1, <1>4 DEF Cancel
  <2>2. CASE call[k].from # c
    <3>1. q2 = q
      BY <1>0, <1>4, <2>2 DEF Cancel, q, q2
    <3>2. QED BY <1>1, <2>1, <2>2, <3>1
  <2>3. CASE call[k].from = c
    <3>1. PICK n \in DOMAIN q : q[n] = k /\ q2 = RemoveAt(q, n)
      BY <1>0, <1>4, <2>3 DEF Cancel, q, q2
    <3>2. /\ \A i \in DOMAIN q2 : \E j \in DOMAIN q \ {n} : q2[i] = q[j]
          /\ Distinct(q2)
      BY <1>0, <1>1, <3>1, RemoveAtFacts
    <3>3. \A j \in DOMAIN q \ {n} : q[j] # k
      BY <1>1, <3>1 DEF Distinct
    <3>4. QED BY <1>1, <2>1, <3>2, <3>3
  <2>4. QED BY <2>2, <2>3
<1>5. ASSUME NEW d \in Clients, NEW u \in Clients, RemoveFriend(d, u)
      PROVE  /\ \A i \in DOMAIN q2 : call'[q2[i]].state = "queued" /\ call'[q2[i]].from = c
             /\ Distinct(q2)
  <2> DEFINE dropped == {k \in ToSet(outgoingCalls[d]) : call[k].Username = u}
  <2>1. call' = [k \in Calls |-> IF k \in dropped THEN [call[k] EXCEPT !.state = "removed"] ELSE call[k]]
    BY <1>5 DEF RemoveFriend
  <2>2. d # c => \A k \in dropped : call[k].from = d
    BY DEF ToSet, CallsAreSentOnce, QueueOK
  <2>3. q2 = IF d = c THEN Without(q, dropped) ELSE q
    BY <1>0, <1>5 DEF RemoveFriend, q, q2
  <2> HIDE DEF dropped
  <2>4. CASE d = c
    <3>1. /\ \A i \in DOMAIN q2 : \E j \in DOMAIN q : q2[i] = q[j] /\ q[j] \notin dropped
          /\ Distinct(q2)
      BY <1>0, <1>1, <2>3, <2>4, WithoutFacts
    <3>2. QED BY <1>1, <2>1, <3>1
  <2>5. CASE d # c
    BY <1>1, <2>1, <2>2, <2>3, <2>5
  <2>6. QED BY <2>4, <2>5
<1>6. ASSUME NEW d \in Clients, NEW r \in Rounds, sendDialingOnion(d, r)
      PROVE  /\ \A i \in DOMAIN q2 : call'[q2[i]].state = "queued" /\ call'[q2[i]].from = c
             /\ Distinct(q2)
  <2> DEFINE k == Head(outgoingCalls[d])
  <2>1. /\ call' = [call EXCEPT ![k].state = "sending"]
        /\ q2 = IF d = c THEN Tail(q) ELSE q
        /\ d = c => q # << >>
    BY <1>0, <1>6 DEF sendDialingOnion, q, q2
  <2>2. k \in Calls /\ call[k].from = d
    BY <1>6, HeadFacts DEF sendDialingOnion, Types
  <2>3. \A i \in DOMAIN q : q[i] # k => call'[q[i]] = call[q[i]]
    BY <1>0, <1>1, <2>1, <2>2
  <2>4. CASE d # c
    BY <1>1, <2>1, <2>2, <2>3, <2>4
  <2>5. CASE d = c
    <3>1. q # << >> /\ q2 = Tail(q) /\ k = Head(q)
      BY <2>1, <2>5 DEF q
    <3>2. /\ k = q[1] /\ 1 \in DOMAIN q
          /\ \A i \in DOMAIN q2 : i + 1 \in DOMAIN q /\ i + 1 # 1 /\ q2[i] = q[i + 1] /\ i \in Nat
      BY <1>0, <3>1
    <3>3. QED BY <1>1, <2>3, <3>2 DEF Distinct
  <2>6. QED BY <2>4, <2>5
<1>7. ASSUME NEW d \in Clients, Crash(d)
      PROVE  /\ \A i \in DOMAIN q2 : call'[q2[i]].state = "queued" /\ call'[q2[i]].from = c
             /\ Distinct(q2)
  <2>1. q2 = IF d = c THEN << >> ELSE q
    BY <1>0, <1>7 DEF Crash, q, q2
  <2>2. d # c => \A i \in DOMAIN q : call'[q[i]] = call[q[i]]
    BY <1>1, <1>7 DEF Crash
  <2>3. QED BY <1>1, <2>1, <2>2 DEF Distinct
<1>8. CASE ~\/ \E k \in Calls : Enqueue(k) \/ Cancel(k)
            \/ \E d \in Clients : \/ \E u \in Clients : RemoveFriend(d, u)
                                  \/ \E r \in Rounds : sendDialingOnion(d, r)
                                  \/ Crash(d)
  <2>1. q2 = q
    BY <1>8, QueueSteps DEF q, q2
  <2>2. \A i \in DOMAIN q : call'[q[i]].state = "queued" /\ call'[q[i]].from = c
    BY <1>1, <1>8, QueuedKeeps
  <2>3. QED BY <1>1, <2>1, <2>2
<1>9. QED BY <1>3, <1>4, <1>5, <1>6, <1>7, <1>8

\* The steps that make or change another task than a scan.
Steps(t) == StampCall(t) \/ BeginCompute(t) \/ ReadToken(t) \/ ReadKey(t) \/ StoreKeys(t)

\* The steps that make or change the task of a call.
LEMMA TaskSteps ==
    ASSUME Types, TaskKinds, CallsAreSentOnce, [Next]_vars,
           NEW t2 \in tasks', t2 \notin tasks, t2.kind # "scan"
    PROVE  \/ \E k \in Calls : BeginSessionKey(k) /\ t2 = Task("read", call[k].from, 0, "begin", k)
           \/ \E c \in Clients : \E r \in Rounds :
                /\ sendDialingOnion(c, r)
                /\ t2 = Task("send", c, r, "stamp", Head(outgoingCalls[c]))
           \/ \E t \in tasks :
                /\ Steps(t)
                /\ t2.kind = t.kind /\ t2.call = t.call /\ t2.client = t.client
                /\ tasks' = (tasks \ {t}) \cup {t2}
<1>1. CASE UNCHANGED vars \/ Service
  BY <1>1 DEF vars, Service, OpenRound, PublishRound, FailRound
<1>2. CASE Application
  BY <1>2 DEF Application, Call, Enqueue, UpdateIntent, Cancel, BeginSessionKey, RemoveFriend, PutKey
<1>3. ASSUME NEW c, Crash(c)
      PROVE  FALSE
  BY <1>3 DEF Crash
<1>4. ASSUME NEW c \in Clients, NEW r \in Rounds, sendDialingOnion(c, r)
      PROVE  t2 = Task("send", c, r, "stamp", Head(outgoingCalls[c]))
  BY <1>4 DEF sendDialingOnion
<1>5. ASSUME NEW c \in Clients, NEW r \in Rounds, NEW bad \in BOOLEAN, scanBloomFilter(c, r, bad)
      PROVE  FALSE
  <2>1. t2 = ScanTask(c, r, bad)
    BY <1>5 DEF scanBloomFilter, ScanTask
  <2>2. QED BY <2>1 DEF ScanTask, Task
<1>6. ASSUME NEW t \in tasks, TaskStep(t)
      PROVE  /\ Steps(t)
             /\ t2.kind = t.kind /\ t2.call = t.call /\ t2.client = t.client
             /\ tasks' = (tasks \ {t}) \cup {t2}
  <2>1. t \in TaskRecords
    BY DEF Types, TaskTypes
  <2>2. CASE StampCall(t)
    <3>1. t2 = [t EXCEPT !.pc = "begin"] /\ tasks' = (tasks \ {t}) \cup {t2}
      BY <2>2 DEF StampCall, Advance
    <3>2. QED BY <2>1, <2>2, <3>1 DEF TaskRecords, Steps
  <2>3. CASE ReadToken(t)
    <3>1. PICK token : t2 = [t EXCEPT !.pc = "key", !.token = token] /\ tasks' = (tasks \ {t}) \cup {t2}
      BY <2>3 DEF ReadToken, Advance
    <3>2. QED BY <2>1, <2>3, <3>1 DEF TaskRecords, Steps
  <2>4. CASE ReadKey(t)
    <3>1. PICK key : t2 = [t EXCEPT !.pc = "store", !.key = key] /\ tasks' = (tasks \ {t}) \cup {t2}
      BY <2>4 DEF ReadKey, Advance
    <3>2. QED BY <2>1, <2>4, <3>1 DEF TaskRecords, Steps
  <2>5. ASSUME NEW token, Computed(t, token)
        PROVE  /\ t2.kind = t.kind /\ t2.call = t.call /\ t2.client = t.client
               /\ tasks' = (tasks \ {t}) \cup {t2}
    <3>1. t2 = [t EXCEPT !.pc = "computed", !.token = token] /\ tasks' = (tasks \ {t}) \cup {t2}
      BY <2>5 DEF Computed
    <3>2. QED BY <2>1, <3>1 DEF TaskRecords
  <2>6. CASE BeginCompute(t)
    <3>1. \/ Computed(t, call[t.call].dialToken)
          \/ /\ t2 = [t EXCEPT !.pc = "token", !.intent = call[t.call].intent,
                               !.round = call[t.call].sentRound]
             /\ tasks' = (tasks \ {t}) \cup {t2}
      BY <2>6 DEF BeginCompute, Advance
    <3>2. QED BY <2>1, <2>5, <2>6, <3>1 DEF TaskRecords, Steps
  <2>7. CASE StoreKeys(t)
    BY <2>5, <2>7 DEF StoreKeys, Steps
  <2>8. CASE SendOnion(t) \/ PersistKeywheel(t)
    BY <2>8 DEF SendOnion, PersistKeywheel
  <2>9. CASE EraseKeys(t) \/ \E x \in t.hits : ReceiveCall(t, x)
    <3>1. t.kind = "scan"
      BY <2>9 DEF EraseKeys, ReceiveCall, TaskKinds
    <3>2. \E h : t2 = [t EXCEPT !.hits = h] \/ t2 = [t EXCEPT !.pc = h]
      BY <2>9 DEF EraseKeys, ReceiveCall, Advance
    <3>3. QED BY <2>1, <3>1, <3>2 DEF TaskRecords
  <2>10. QED BY <1>6, <2>2, <2>3, <2>4, <2>6, <2>7, <2>8, <2>9 DEF TaskStep
<1>7. QED BY <1>1, <1>2, <1>3, <1>4, <1>5, <1>6 DEF Next, Handlers, FetchFails, SendPanics

\* A send handler that was there before a step and still is.
LEMMA OneSender ==
    ASSUME Types, TaskKinds, CallsAreSentOnce, [Next]_vars,
           NEW s2 \in tasks', NEW t2 \in tasks', s2.kind = "send", t2.kind = "send", s2.call = t2.call
    PROVE  s2 = t2
<1>1. \A s, t \in tasks : s.kind = "send" /\ t.kind = "send" /\ s.call = t.call => s = t
  BY DEF CallsAreSentOnce
<1>2. ASSUME NEW c \in Clients, NEW r \in Rounds, sendDialingOnion(c, r),
             NEW s \in tasks, s.kind = "send", s.call = Head(outgoingCalls[c])
      PROVE  FALSE
  <2>1. call[Head(outgoingCalls[c])].state = "queued"
    BY <1>2, HeadFacts DEF sendDialingOnion, Types
  <2>2. s.pc \notin {"hits", "persist"}
    BY <1>2 DEF TaskKinds
  <2>3. TaskOK(s, call[s.call])
    BY <2>2, TaskCall DEF Types
  <2>4. QED BY <1>2, <2>1, <2>3 DEF TaskOK
<1>3. ASSUME NEW a \in tasks', NEW b \in tasks', a \in tasks, b \notin tasks,
             a.kind = "send", b.kind = "send", a.call = b.call
      PROVE  FALSE
  <2>1. CASE \E k \in Calls : BeginSessionKey(k) /\ b = Task("read", call[k].from, 0, "begin", k)
    BY <1>3, <2>1 DEF Task
  <2>2. ASSUME NEW c \in Clients, NEW r \in Rounds, sendDialingOnion(c, r),
               b = Task("send", c, r, "stamp", Head(outgoingCalls[c]))
        PROVE  FALSE
    <3>1. b.call = Head(outgoingCalls[c])
      BY <2>2 DEF Task
    <3>2. QED BY <1>2, <1>3, <2>2, <3>1
  <2>3. ASSUME NEW t \in tasks, b.kind = t.kind, b.call = t.call, tasks' = (tasks \ {t}) \cup {b}
        PROVE  FALSE
    BY <1>1, <1>3, <2>3
  <2>4. b.kind # "scan"
    BY <1>3
  <2>5. QED BY <1>3, <2>1, <2>2, <2>3, <2>4, TaskSteps
<1>4. ASSUME s2 \notin tasks, t2 \notin tasks, s2 # t2
      PROVE  FALSE
  <2>1. CASE \E t \in tasks : tasks' = (tasks \ {t}) \cup {t2}
    BY <1>4, <2>1
  <2>2. CASE \E k \in Calls : BeginSessionKey(k) /\ t2 = Task("read", call[k].from, 0, "begin", k)
    BY <2>2 DEF Task
  <2>3. ASSUME NEW c \in Clients, NEW r \in Rounds, sendDialingOnion(c, r)
        PROVE  FALSE
    BY <1>4, <2>3 DEF sendDialingOnion
  <2>4. t2.kind # "scan"
    OBVIOUS
  <2>5. QED BY <1>4, <2>1, <2>2, <2>3, <2>4, TaskSteps
<1>5. QED BY <1>1, <1>3, <1>4

\* A task that stays as it is.
LEMMA TaskOKKeeps ==
    ASSUME Types, TaskKinds, CallsAreSentOnce, [Next]_vars,
           NEW t2 \in tasks', t2 \in tasks, t2.kind # "scan"
    PROVE  TaskOK(t2, call'[t2.call])
<1> DEFINE k == t2.call
<1>1. k \in Calls /\ t2.pc \notin {"hits", "persist"}
  BY DEF TaskKinds
<1>2. t2.kind \in {"send", "read"} /\ TaskOK(t2, call[k]) /\ t2 \in TaskRecords
  BY <1>1, TaskCall DEF Types
<1>3. /\ call[k] \in CallObjects
      /\ call[k].state \in {"sending", "sent"} /\ call[k].from = t2.client
  BY <1>1, <1>2 DEF Types, CallTypes, TaskOK
<1> HIDE DEF k
<1>4. CASE call'[k] = call[k]
  BY <1>2, <1>4 DEF k
<1>5. CASE Created(k)
  BY <1>3, <1>5 DEF Created
<1>6. CASE Moved(k)
  <2>1. PICK s \in {"queued", "cancelled", "removed", "lost", "sending", "sent"} :
          /\ s = "queued" => call[k].state = "checked"
          /\ s \in {"cancelled", "removed", "sending"} => call[k].state = "queued"
          /\ s = "lost" => \E c \in Clients : Crash(c) /\ call[k].from = c
          /\ s = "sent" => \E t \in tasks : SendOnion(t) /\ t.call = k
          /\ call'[k] = [call[k] EXCEPT !.state = s]
    BY <1>6 DEF Moved
  <2>2. s # "lost"
    BY <1>3, <2>1 DEF Crash
  <2>3. s = "sent"
    BY <1>3, <2>1, <2>2
  <2>4. t2.kind = "read"
    <3>1. SUFFICES ASSUME t2.kind = "send" PROVE FALSE
      BY <1>2
    <3>2. PICK t \in tasks : SendOnion(t) /\ t.call = k
      BY <2>1, <2>3
    <3>3. t.kind = "send"
      BY <3>2, TaskCall DEF SendOnion, TaskOK, Types
    <3>4. t = t2
      BY <3>1, <3>2, <3>3 DEF CallsAreSentOnce, k
    <3>5. QED BY <3>2, <3>4 DEF SendOnion
  <2>5. /\ call'[k].state = "sent"
        /\ call'[k].from = call[k].from /\ call'[k].Username = call[k].Username
        /\ call'[k].sentRound = call[k].sentRound /\ call'[k].dialToken = call[k].dialToken
    BY <1>3, <2>1, <2>3 DEF CallObjects
  <2>6. QED BY <1>2, <2>4, <2>5, TokenOfKeeps DEF TaskOK, k
<1>7. CASE Updated(k)
  <2>1. PICK i : call'[k] = [call[k] EXCEPT !.intent = i]
    BY <1>7 DEF Updated
  <2>2. /\ call'[k].state = call[k].state
        /\ call'[k].from = call[k].from /\ call'[k].Username = call[k].Username
        /\ call'[k].sentRound = call[k].sentRound /\ call'[k].dialToken = call[k].dialToken
    BY <1>3, <2>1 DEF CallObjects
  <2>3. QED BY <1>2, <2>2, TokenOfKeeps DEF TaskOK, k
<1>8. CASE Stamped(k)
  <2>1. PICK t \in tasks : /\ StampCall(t) /\ t.call = k
                           /\ call'[k] = [call[k] EXCEPT !.sentRound = t.round]
    BY <1>8 DEF Stamped
  <2>2. TaskOK(t, call[k]) /\ t.pc = "stamp" /\ t.kind \in {"send", "read"} /\ t \in TaskRecords
    BY <2>1, TaskCall DEF StampCall, Types
  <2>3. call[k].sentRound = 0 /\ t.round # 0 /\ t.kind = "send"
    BY <2>2 DEF TaskOK
  <2>4. t2.kind # "send"
    <3>1. SUFFICES ASSUME t2.kind = "send" PROVE FALSE
      OBVIOUS
    <3>2. t = t2
      BY <2>1, <2>3, <3>1 DEF CallsAreSentOnce, k
    <3>3. t2 = [t EXCEPT !.pc = "begin"]
      BY <2>1, <3>2 DEF StampCall, Advance
    <3>4. t2.pc = "begin"
      BY <2>2, <3>3 DEF TaskRecords
    <3>5. QED BY <2>2, <3>2, <3>4
  <2>5. t2.pc = "begin"
    BY <1>2, <2>3, <2>4 DEF TaskOK
  <2>6. call'[k].state = call[k].state /\ call'[k].from = call[k].from
    BY <1>3, <2>1 DEF CallObjects
  <2>7. QED BY <1>2, <2>4, <2>5, <2>6 DEF TaskOK, k
<1>9. CASE Stored(k)
  <2>1. PICK t : call[k].dialToken = Nil /\
          call'[k] = [call[k] EXCEPT !.intent = t.intent, !.dialToken = t.token, !.sessionKey = t.key]
    BY <1>9 DEF Stored
  <2>2. /\ call'[k].state = call[k].state
        /\ call'[k].from = call[k].from /\ call'[k].Username = call[k].Username
        /\ call'[k].sentRound = call[k].sentRound
    BY <1>3, <2>1 DEF CallObjects
  <2>3. t2.pc = "computed" => t2.token = Nil
    BY <1>2, <2>1 DEF TaskOK
  <2>4. QED BY <1>2, <2>2, <2>3, TokenOfKeeps DEF TaskOK, k
<1>10. QED BY <1>1, <1>4, <1>5, <1>6, <1>7, <1>8, <1>9, CallSteps

\* A task that a step makes or changes.
LEMMA TaskOKNew ==
    ASSUME Types, TaskKinds, CallsAreSentOnce, SeedsWerePut, [Next]_vars,
           NEW t2 \in tasks', t2 \notin tasks, t2.kind # "scan"
    PROVE  TaskOK(t2, call'[t2.call])
<1>1. ASSUME NEW k \in Calls, BeginSessionKey(k), t2 = Task("read", call[k].from, 0, "begin", k)
      PROVE  TaskOK(t2, call'[t2.call])
  <2>1. /\ t2.kind = "read" /\ t2.client = call[k].from /\ t2.pc = "begin" /\ t2.call = k
    BY <1>1 DEF Task
  <2>2. call' = call /\ call[k].state \in {"sending", "sent"}
    BY <1>1 DEF BeginSessionKey
  <2>3. QED BY <2>1, <2>2 DEF TaskOK
<1>2. ASSUME NEW c \in Clients, NEW r \in Rounds, sendDialingOnion(c, r),
             t2 = Task("send", c, r, "stamp", Head(outgoingCalls[c]))
      PROVE  TaskOK(t2, call'[t2.call])
  <2> DEFINE k == Head(outgoingCalls[c])
  <2>1. k \in Calls /\ call[k].state = "queued" /\ call[k].from = c
    BY <1>2, HeadFacts DEF sendDialingOnion, Types
  <2>2. t2.kind = "send" /\ t2.client = c /\ t2.pc = "stamp" /\ t2.call = k /\ t2.round = r
    BY <1>2 DEF Task
  <2>3. call[k] \in CallObjects /\ CallOK(call[k]) /\ call'[k] = [call[k] EXCEPT !.state = "sending"]
    BY <1>2, <2>1 DEF sendDialingOnion, Types, CallTypes, CallsAreSentOnce
  <2> HIDE DEF k
  <2>4. /\ call'[k].state = "sending" /\ call'[k].from = c
        /\ call'[k].sentRound = 0
    BY <2>1, <2>3 DEF CallObjects, CallOK
  <2>5. r # 0
    BY DEF Rounds
  <2>6. QED BY <2>2, <2>4, <2>5 DEF TaskOK
<1>3. ASSUME NEW t \in tasks, Steps(t), t2.kind = t.kind, t2.call = t.call, t2.client = t.client,
             tasks' = (tasks \ {t}) \cup {t2}
      PROVE  TaskOK(t2, call'[t2.call])
  <2> DEFINE k == t.call
  <2>0. t.pc \notin {"hits", "persist"}
    BY <1>3 DEF Steps, StampCall, BeginCompute, ReadToken, ReadKey, StoreKeys
  <2>1. /\ k \in Calls /\ TaskOK(t, call[k]) /\ t \in TaskRecords /\ t.kind \in {"send", "read"}
        /\ call \in [Calls -> CallObjects] /\ call[k] \in CallObjects /\ CallOK(call[k])
    BY <2>0, TaskCall DEF Types, CallTypes, CallsAreSentOnce
  <2>2. t2.call = k /\ call[k].from \in Clients /\ call[k].Username \in Clients
    BY <1>3, <2>1 DEF TaskOK, CallOK
  <2> HIDE DEF k
  <2>3. CASE StampCall(t)
    <3>1. /\ t2 = [t EXCEPT !.pc = "begin"] /\ t.pc = "stamp"
          /\ call' = [call EXCEPT ![k].sentRound = t.round]
      BY <2>3 DEF StampCall, Advance, k
    <3>2. t2.pc = "begin" /\ t2.round = t.round
      BY <2>1, <3>1 DEF TaskRecords
    <3>3. call'[k].state = call[k].state /\ call'[k].from = call[k].from /\ call'[k].sentRound = t.round
      BY <2>1, <3>1 DEF CallObjects
    <3>4. QED BY <1>3, <2>1, <2>2, <3>1, <3>2, <3>3 DEF TaskOK
  <2>4. CASE BeginCompute(t)
    <3>1. call' = call /\ t.pc = "begin"
      BY <2>4 DEF BeginCompute
    <3>2. CASE call[k].sentRound = 0 \/ call[k].dialToken # Nil
      <4>1. t2 = [t EXCEPT !.pc = "computed", !.token = call[k].dialToken] /\ t.kind = "send"
        BY <2>4, <3>2, ComputedFacts DEF BeginCompute, k
      <4>2. t2.pc = "computed" /\ t2.token = call[k].dialToken /\ t2.round = t.round
        BY <2>1, <4>1 DEF TaskRecords
      <4>3. QED BY <1>3, <2>1, <2>2, <3>1, <4>1, <4>2 DEF TaskOK
    <3>3. CASE ~(call[k].sentRound = 0 \/ call[k].dialToken # Nil)
      <4>1. t2 = [t EXCEPT !.pc = "token", !.intent = call[k].intent, !.round = call[k].sentRound]
        BY <2>4, <3>3 DEF BeginCompute, Advance, k
      <4>2. t2.pc = "token" /\ t2.round = call[k].sentRound
        BY <2>1, <4>1 DEF TaskRecords
      <4>3. QED BY <1>3, <2>1, <2>2, <3>1, <3>3, <4>2 DEF TaskOK
    <3>4. QED BY <3>2, <3>3
  <2>5. CASE ReadToken(t)
    <3> DEFINE token == OutgoingDialToken(t.client, call[k].Username, t.round, t.intent)
    <3>1. call' = call /\ t.pc = "token" /\ t2 = [t EXCEPT !.pc = "key", !.token = token]
      BY <2>5 DEF ReadToken, Advance, k
    <3>2. /\ call[k].sentRound = t.round /\ t.round # 0 /\ t.client = call[k].from
      BY <2>1, <3>1 DEF TaskOK
    <3>3. t.round \in Rounds /\ t.intent \in Intents
      BY <2>1, <3>2 DEF TaskRecords
    <3>4. token # Nil => \E s \in Seeds :
            DialRound[s] <= t.round /\
            token = DialToken(t.client, call[k].Username, s, t.round, call[k].Username, t.intent)
      BY <2>2, <3>2, <3>3, ReadFacts DEF Types
    <3> HIDE DEF token
    <3>5. token # Nil => TokenOf(call[k], token, t.intent)
      BY <3>2, <3>4 DEF TokenOf
    <3>6. t2.pc = "key" /\ t2.token = token /\ t2.round = t.round /\ t2.intent = t.intent
      BY <2>1, <3>1 DEF TaskRecords
    <3>7. QED BY <1>3, <2>1, <2>2, <3>1, <3>2, <3>5, <3>6 DEF TaskOK
  <2>6. CASE ReadKey(t)
    <3> DEFINE key == SessionKey(t.client, call[k].Username, t.round)
    <3>1. call' = call /\ t.pc = "key" /\ t2 = [t EXCEPT !.pc = "store", !.key = key]
      BY <2>6 DEF ReadKey, Advance, k
    <3>2. /\ call[k].sentRound = t.round /\ t.round # 0 /\ t.client = call[k].from
          /\ t.token # Nil => TokenOf(call[k], t.token, t.intent)
      BY <2>1, <3>1 DEF TaskOK
    <3>3. t.round \in Rounds /\ t.intent \in Intents
      BY <2>1, <3>2 DEF TaskRecords
    <3>4. key # Nil => \E s \in Seeds : key = RoundKey(t.client, call[k].Username, s, t.round)
      BY <2>2, <3>2, <3>3, ReadFacts DEF Types
    <3> HIDE DEF key
    <3>5. key # Nil => KeyOf(call[k], key)
      BY <3>2, <3>4 DEF KeyOf
    <3>6. /\ t2.pc = "store" /\ t2.key = key /\ t2.round = t.round /\ t2.intent = t.intent
          /\ t2.token = t.token
      BY <2>1, <3>1 DEF TaskRecords
    <3>7. QED BY <1>3, <2>1, <2>2, <3>1, <3>2, <3>5, <3>6 DEF TaskOK
  <2>7. CASE StoreKeys(t)
    <3>1. t.pc = "store"
      BY <2>7 DEF StoreKeys
    <3>2. PICK token : t2 = [t EXCEPT !.pc = "computed", !.token = token] /\ t.kind = "send" /\ token = call'[k].dialToken
      <4>1. CASE call[k].dialToken # Nil
        BY <2>7, <4>1, ComputedFacts DEF StoreKeys, k
      <4>2. CASE call[k].dialToken = Nil
        <5>1. t2 = [t EXCEPT !.pc = "computed", !.token = t.token] /\ t.kind = "send"
          BY <2>7, <4>2, ComputedFacts DEF StoreKeys, k
        <5>2. call' = [call EXCEPT ![k].intent = t.intent, ![k].dialToken = t.token, ![k].sessionKey = t.key]
          BY <2>7, <4>2 DEF StoreKeys, k
        <5>3. call'[k].dialToken = t.token
          BY <2>1, <5>2 DEF CallObjects
        <5>4. QED BY <5>1, <5>3
      <4>3. QED BY <4>1, <4>2
    <3>3. t2.pc = "computed" /\ t2.token = call'[k].dialToken /\ t2.round = t.round
      BY <2>1, <3>2 DEF TaskRecords
    <3>4. /\ call'[k].state = call[k].state /\ call'[k].from = call[k].from
          /\ call'[k].sentRound = call[k].sentRound
      BY <2>1, <2>7 DEF StoreKeys, CallObjects, k
    <3>5. QED BY <1>3, <2>1, <2>2, <3>1, <3>2, <3>3, <3>4 DEF TaskOK
  <2>8. QED BY <1>3, <2>3, <2>4, <2>5, <2>6, <2>7 DEF Steps
<1>4. QED BY <1>1, <1>2, <1>3, TaskSteps

\* The part of the invariant that is about calls.
LEMMA CallsAreSentOnceStep ==
    ASSUME Types, TaskKinds, CallsAreSentOnce, SeedsWerePut, [Next]_vars
    PROVE  CallsAreSentOnce'
<1>1. \A k \in Calls : CallOK(call[k])'
  BY CallOKStep
<1>2. \A c \in Clients : QueueOK(c, outgoingCalls[c])'
  BY QueueOKStep
<1>3. \A t \in tasks' : t.kind # "scan" => TaskOK(t, call'[t.call])
  BY TaskOKKeeps, TaskOKNew
<1>4. \A s, t \in tasks' : s.kind = "send" /\ t.kind = "send" /\ s.call = t.call => s = t
  BY OneSender
<1>5. QED BY <1>1, <1>2, <1>3, <1>4 DEF CallsAreSentOnce
-----------------------------------------------------------------------------
(***************************************************************************)
(* What is received was sent.                                              *)
(***************************************************************************)

\* Tokens of a round are only added, and mailboxes that did not decode only join.
LEMMA TokensGrow ==
    ASSUME Types, [Next]_vars
    PROVE  /\ \A r \in Rounds : tokens[r] \subseteq tokens'[r]
           /\ badFilters \subseteq badFilters'
<1> USE DEF Types, RoundTypes
<1>1. CASE UNCHANGED vars
  BY <1>1 DEF vars, service, history
<1>2. CASE Application
  BY <1>2 DEF Application, Call, Enqueue, UpdateIntent, Cancel, BeginSessionKey, RemoveFriend, PutKey,
              service, history
<1>3. ASSUME NEW c, Crash(c)
      PROVE  tokens' = tokens /\ badFilters' = badFilters
  BY <1>3 DEF Crash, service, history
<1>4. CASE Service
  BY <1>4 DEF Service, OpenRound, PublishRound, FailRound, history
<1>5. ASSUME NEW c \in Clients, NEW r \in Rounds,
             \/ sendDialingOnion(c, r) \/ FetchFails(c, r)
             \/ \E bad \in BOOLEAN : scanBloomFilter(c, r, bad)
      PROVE  tokens' = tokens /\ badFilters \subseteq badFilters'
  BY <1>5 DEF sendDialingOnion, scanBloomFilter, FetchFails, service, history
<1>6. ASSUME NEW t \in tasks, SendOnion(t)
      PROVE  (\A r \in Rounds : tokens[r] \subseteq tokens'[r]) /\ badFilters' = badFilters
  BY <1>6 DEF SendOnion, history
<1>7. ASSUME NEW t \in tasks, TaskStep(t), ~SendOnion(t)
      PROVE  tokens' = tokens /\ badFilters' = badFilters
  BY <1>7 DEF TaskStep, StampCall, BeginCompute, ReadToken, ReadKey, StoreKeys, ReceiveCall, EraseKeys,
              PersistKeywheel, service, history
<1>8. ASSUME NEW t \in tasks, SendPanics(t)
      PROVE  tokens' = tokens /\ badFilters' = badFilters
  BY <1>3, <1>8 DEF SendPanics
<1>9. QED BY <1>1, <1>2, <1>3, <1>4, <1>5, <1>6, <1>7, <1>8 DEF Next, Handlers

\* A new token of a round is that of a handler whose onion leaves.
LEMMA NewToken ==
    ASSUME Types, [Next]_vars, NEW r \in Rounds, NEW token \in tokens'[r], token \notin tokens[r]
    PROVE  \E t \in tasks : SendOnion(t) /\ t.round = r /\ t.token = token
<1> USE DEF Types, RoundTypes
<1>1. CASE UNCHANGED vars
  BY <1>1 DEF vars, service
<1>2. CASE Application
  BY <1>2 DEF Application, Call, Enqueue, UpdateIntent, Cancel, BeginSessionKey, RemoveFriend, PutKey, service
<1>3. ASSUME NEW c, Crash(c)
      PROVE  FALSE
  BY <1>3 DEF Crash, service
<1>4. CASE Service
  BY <1>4 DEF Service, OpenRound, PublishRound, FailRound
<1>5. ASSUME NEW c \in Clients, NEW q \in Rounds,
             \/ sendDialingOnion(c, q) \/ FetchFails(c, q)
             \/ \E bad \in BOOLEAN : scanBloomFilter(c, q, bad)
      PROVE  FALSE
  BY <1>5 DEF sendDialingOnion, scanBloomFilter, FetchFails, service
<1>6. ASSUME NEW t \in tasks, SendOnion(t)
      PROVE  t.round = r /\ t.token = token
  BY <1>6 DEF SendOnion
<1>7. ASSUME NEW t \in tasks, TaskStep(t), ~SendOnion(t)
      PROVE  FALSE
  BY <1>7 DEF TaskStep, StampCall, BeginCompute, ReadToken, ReadKey, StoreKeys, ReceiveCall, EraseKeys,
              PersistKeywheel, service
<1>8. ASSUME NEW t \in tasks, SendPanics(t)
      PROVE  FALSE
  BY <1>3, <1>8 DEF SendPanics
<1>9. QED BY <1>1, <1>2, <1>3, <1>4, <1>5, <1>6, <1>7, <1>8 DEF Next, Handlers

\* The steps that change what is received.
LEMMA ReceiveSteps ==
    ASSUME [Next]_vars
    PROVE  received' = received \/ \E t \in tasks : \E y \in t.hits : ReceiveCall(t, y)
<1>1. CASE UNCHANGED vars
  BY <1>1 DEF vars, history
<1>2. CASE Application
  BY <1>2 DEF Application, Call, Enqueue, UpdateIntent, Cancel, BeginSessionKey, RemoveFriend, PutKey, history
<1>3. ASSUME NEW c, Crash(c)
      PROVE  received' = received
  BY <1>3 DEF Crash, history
<1>4. CASE Service
  BY <1>4 DEF Service, OpenRound, PublishRound, FailRound, history
<1>5. ASSUME NEW c \in Clients, NEW r \in Rounds,
             \/ sendDialingOnion(c, r) \/ FetchFails(c, r)
             \/ \E bad \in BOOLEAN : scanBloomFilter(c, r, bad)
      PROVE  received' = received
  BY <1>5 DEF sendDialingOnion, scanBloomFilter, FetchFails, history
<1>6. ASSUME NEW t \in tasks, TaskStep(t)
      PROVE  received' = received \/ \E y \in t.hits : ReceiveCall(t, y)
  BY <1>6 DEF TaskStep, StampCall, BeginCompute, ReadToken, ReadKey, StoreKeys, SendOnion, EraseKeys,
              PersistKeywheel, history
<1>7. ASSUME NEW t \in tasks, SendPanics(t)
      PROVE  received' = received
  BY <1>3, <1>7 DEF SendPanics
<1>8. QED BY <1>1, <1>2, <1>3, <1>4, <1>5, <1>6, <1>7 DEF Next, Handlers

\* The received calls after a step.
LEMMA ReceivedSteps ==
    ASSUME [Next]_vars
    PROVE  /\ received \subseteq received'
           /\ \A x \in received' :
                \/ x \in received
                \/ \E t \in tasks : \E y \in t.hits :
                     /\ ReceiveCall(t, y)
                     /\ x = [to |-> t.client, from |-> y.from, token |-> y.token, Round |-> t.round,
                             Intent |-> y.token.intent, SessionKey |-> SessionKey(t.client, y.from, t.round)]
<1>1. \A t \in tasks : \A y \in t.hits :
        ReceiveCall(t, y) => received' = received \cup
          {[to |-> t.client, from |-> y.from, token |-> y.token, Round |-> t.round,
            Intent |-> y.token.intent, SessionKey |-> SessionKey(t.client, y.from, t.round)]}
  BY DEF ReceiveCall
<1>2. CASE \E t \in tasks : \E y \in t.hits : ReceiveCall(t, y)
  BY <1>1, <1>2
<1>3. QED BY <1>2, ReceiveSteps

\* The token of a handler that sends is its call's, and of its round.
LEMMA SentToken ==
    ASSUME Types, TaskKinds, CallsAreSentOnce, NEW t \in tasks, SendOnion(t)
    PROVE  /\ t.token # Nil
           /\ t.token.round = t.round
           /\ DialRound[t.token.seed] <= t.round
           /\ t.call \in Calls /\ call[t.call].dialToken = t.token
<1>1. /\ t.pc = "computed" /\ t.token # Nil
      /\ t.kind \in {"send", "read"} /\ t.call \in Calls /\ TaskOK(t, call[t.call])
  BY TaskCall DEF SendOnion, Types
<1>2. t.token = call[t.call].dialToken /\ call[t.call].sentRound = t.round
  BY <1>1 DEF TaskOK
<1>3. TokenOf(call[t.call], t.token, call[t.call].intent)
  BY <1>1, <1>2 DEF CallsAreSentOnce, CallOK
<1>4. PICK s \in Seeds :
        /\ DialRound[s] <= t.round
        /\ t.token = DialToken(call[t.call].from, call[t.call].Username, s, t.round,
                               call[t.call].Username, call[t.call].intent)
  BY <1>2, <1>3 DEF TokenOf
<1>5. t.token.round = t.round /\ t.token.seed = s
  BY <1>4 DEF DialToken
<1>6. QED BY <1>1, <1>2, <1>4, <1>5

\* The part of the invariant that is about tokens.
LEMMA TokensWereSentStep ==
    ASSUME Types, TaskKinds, SeedsWerePut, CallsAreSentOnce, TokensWereSent, [Next]_vars
    PROVE  TokensWereSent'
<1>1. ASSUME NEW r \in Rounds, NEW token \in tokens'[r]
      PROVE  /\ token # Nil /\ token.round = r /\ DialRound[token.seed] <= r
             /\ \E k \in Calls : call'[k].dialToken = token
  <2>1. /\ token # Nil /\ token.round = r /\ DialRound[token.seed] <= r
        /\ \E k \in Calls : call[k].dialToken = token
    <3>1. CASE token \in tokens[r]
      BY <3>1 DEF TokensWereSent
    <3>2. CASE token \notin tokens[r]
      <4>1. PICK t \in tasks : SendOnion(t) /\ t.round = r /\ t.token = token
        BY <3>2, NewToken
      <4>2. QED BY <4>1, SentToken
    <3>3. QED BY <3>1, <3>2
  <2>2. PICK k \in Calls : call[k].dialToken = token
    BY <2>1
  <2>3. call[k].state # "none"
    BY <2>1, <2>2 DEF CallsAreSentOnce, CallOK, NoCall
  <2>4. QED BY <2>1, <2>2, <2>3, CallKeeps
<1>2. ASSUME NEW c \in Clients, NEW r \in Rounds, NEW from, NEW token, CandidateOK(c, r, from, token)
      PROVE  CandidateOK(c, r, from, token)'
  BY <1>2, TokensGrow DEF CandidateOK
<1>3. ASSUME NEW t2 \in tasks', NEW x \in t2.hits
      PROVE  CandidateOK(t2.client, t2.round, x.from, x.token)'
  <2>1. ASSUME NEW t \in tasks, x \in t.hits
        PROVE  CandidateOK(t.client, t.round, x.from, x.token)'
    <3>1. t.client \in Clients /\ t.round \in Rounds
      BY <2>1 DEF Types, TaskTypes, TaskRecords, TaskKinds
    <3>2. QED BY <1>2, <2>1, <3>1 DEF TokensWereSent
  <2>2. ASSUME NEW t \in tasks, NEW y \in t.hits, t2 = [t EXCEPT !.hits = @ \ {y}]
        PROVE  CandidateOK(t2.client, t2.round, x.from, x.token)'
    <3>1. t2.client = t.client /\ t2.round = t.round /\ x \in t.hits
      BY <2>2 DEF Types, TaskTypes, TaskRecords
    <3>2. QED BY <2>1, <3>1
  <2>3. ASSUME NEW t \in tasks, EraseKeys(t), t2 = [t EXCEPT !.pc = "persist"]
        PROVE  FALSE
    BY <2>3 DEF EraseKeys, Types, TaskTypes, TaskRecords
  <2>4. ASSUME NEW c \in Clients, NEW r \in Rounds, NEW bad \in BOOLEAN,
               scanBloomFilter(c, r, bad), t2 = ScanTask(c, r, bad)
        PROVE  CandidateOK(t2.client, t2.round, x.from, x.token)'
    <3>1. t2.client = c /\ t2.round = r /\ t2.hits = Hits(c, r, bad)
      BY <2>4 DEF ScanTask, Task
    <3>2. PICK u \in Reachable(c, r), i \in Intents :
            x = [from |-> u, token |-> DialToken(c, u, wheel[c][u].seed, r, c, i)]
      BY <3>1 DEF Hits, IncomingDialTokens
    <3>3. u \in DOMAIN wheel[c] /\ wheel[c] \in [DOMAIN wheel[c] -> Entries] /\ u # c
      BY MapFacts DEF Reachable, Types, KeyTypes
    <3>4. wheel[c][u].seed \in Seeds
      BY <3>3 DEF Entries
    <3>5. x.token.intent = i
      BY <3>2 DEF DialToken
    <3>6. bad \/ x.token \in tokens[r]
      BY <3>1 DEF Hits
    <3>7. bad => [to |-> c, Round |-> r] \in badFilters'
      BY <2>4 DEF scanBloomFilter
    <3>8. \A q \in Rounds : tokens[q] \subseteq tokens'[q]
      BY TokensGrow
    <3>9. QED BY <3>1, <3>2, <3>3, <3>4, <3>5, <3>6, <3>7, <3>8 DEF CandidateOK
  <2>5. QED BY <2>1, <2>2, <2>3, <2>4, ScanSteps DEF Types
<1>4. ASSUME NEW x \in received'
      PROVE  /\ CandidateOK(x.to, x.Round, x.from, x.token)'
             /\ x.Intent = x.token.intent
             /\ x.SessionKey # Nil =>
                  \E s \in Seeds : x.SessionKey = RoundKey(x.to, x.from, s, x.Round)
  <2>1. CASE x \in received
    <3>1. x.to \in Clients /\ x.Round \in Rounds
      BY <2>1 DEF Types, RoundTypes, CallRecords
    <3>2. QED BY <1>2, <2>1, <3>1 DEF TokensWereSent
  <2>2. ASSUME NEW t \in tasks, NEW y \in t.hits, ReceiveCall(t, y),
               x = [to |-> t.client, from |-> y.from, token |-> y.token, Round |-> t.round,
                    Intent |-> y.token.intent, SessionKey |-> SessionKey(t.client, y.from, t.round)]
        PROVE  /\ CandidateOK(x.to, x.Round, x.from, x.token)'
               /\ x.Intent = x.token.intent
               /\ x.SessionKey # Nil =>
                    \E s \in Seeds : x.SessionKey = RoundKey(x.to, x.from, s, x.Round)
    <3>1. t.client \in Clients /\ t.round \in Rounds /\ y \in Candidates
      BY <2>2 DEF ReceiveCall, TaskKinds, Types, TaskTypes, TaskRecords
    <3>2. CandidateOK(t.client, t.round, y.from, y.token)
      BY DEF TokensWereSent
    <3>3. 0 \in Intents /\ y.from \in Clients
      BY <3>1, DialingAssumption DEF Intents, Candidates
    <3>4. SessionKey(t.client, y.from, t.round) # Nil =>
            \E s \in Seeds : SessionKey(t.client, y.from, t.round) = RoundKey(t.client, y.from, s, t.round)
      BY <3>1, <3>3, ReadFacts DEF Types
    <3>5. /\ x.to = t.client /\ x.from = y.from /\ x.token = y.token /\ x.Round = t.round
          /\ x.Intent = y.token.intent /\ x.SessionKey = SessionKey(t.client, y.from, t.round)
      BY <2>2
    <3>6. QED BY <1>2, <3>1, <3>2, <3>4, <3>5
  <2>3. QED BY <2>1, <2>2, ReceivedSteps
<1>5. QED BY <1>1, <1>3, <1>4 DEF TokensWereSent
-----------------------------------------------------------------------------
(***************************************************************************)
(* Theorems.                                                               *)
(***************************************************************************)

\* Nothing was put, called or sent before the start but the first secrets.
LEMMA InitIInv == Init => IInv
<1> SUFFICES ASSUME Init PROVE IInv
  OBVIOUS
<1>0. /\ 1 \in Seeds /\ DialRound[1] \in Nat
      /\ DialRound[1] <= DialRound[1] /\ 0 \in Intents
  BY DialingAssumption DEF Seeds, Intents
<1>1. KeyTypes
  <2> DEFINE w(c) == [u \in Clients \ {c} |-> [seed |-> 1, Round |-> DialRound[1]]]
             p(c) == [u \in Clients \ {c} |-> 1]
  <2>1. \A c \in Clients : w(c) \in [Clients \ {c} -> Entries] /\ p(c) \in [Clients \ {c} -> Seeds]
    BY <1>0 DEF Entries
  <2>2. \A c \in Clients : w(c) \in Maps(Entries) /\ p(c) \in Maps(Seeds)
    <3> HIDE DEF w, p
    <3>1. QED BY <2>1, IsMap
  <2>3. wheel = [c \in Clients |-> w(c)] /\ wheelFile = [c \in Clients |-> w(c)] /\ puts = [c \in Clients |-> p(c)]
    BY DEF Init
  <2>4. erased \in [Clients -> SUBSET KnownEntries]
    BY DEF Init
  <2>5. \A c \in Clients : DOMAIN w(c) = Clients \ {c} /\ DOMAIN p(c) = Clients \ {c}
    OBVIOUS
  <2> HIDE DEF w, p
  <2>6. QED BY <2>2, <2>3, <2>4, <2>5 DEF KeyTypes
<1>2. CallTypes
  BY <1>0 DEF Init, CallTypes, CallObjects, NoCall
<1>3. TaskTypes /\ TaskKinds
  BY DEF Init, TaskTypes, TaskKinds
<1>4. RoundTypes
  BY DEF Init, RoundTypes
<1>5. SeedsWerePut
  BY <1>0 DEF Init, SeedsWerePut, WheelOK
<1>6. ErasedForGood
  BY DEF Init, ErasedForGood
<1>7. CallsAreSentOnce
  BY DEF Init, CallsAreSentOnce, CallOK, NoCall, QueueOK
<1>8. TokensWereSent
  BY DEF Init, TokensWereSent
<1>9. QED BY <1>1, <1>2, <1>3, <1>4, <1>5, <1>6, <1>7, <1>8 DEF IInv, Types

\* IInv is an inductive invariant.
THEOREM IInvHolds == Spec => []IInv
<1>1. IInv /\ [Next]_vars => IInv'
  <2> SUFFICES ASSUME IInv, [Next]_vars PROVE IInv'
    OBVIOUS
  <2> USE DEF IInv
  <2>1. KeyTypes' /\ TaskKinds'
    BY KeyTypesStep, TaskKindsStep DEF Types
  <2>2. CallTypes' /\ TaskTypes' /\ RoundTypes'
    BY CallTypesStep, TaskTypesStep, RoundTypesStep
  <2>3. SeedsWerePut' /\ ErasedForGood'
    BY SeedsWerePutStep, ErasedForGoodStep DEF Types
  <2>4. CallsAreSentOnce' /\ TokensWereSent'
    BY CallsAreSentOnceStep, TokensWereSentStep
  <2>5. QED BY <2>1, <2>2, <2>3, <2>4 DEF Types
<1>2. QED BY <1>1, InitIInv, PTL DEF Spec

\* The state has its types, and a queue holds queued calls of its client.
THEOREM TypeCorrect == Spec => []TypeOK
<1>1. IInv => TypeOK
  <2> SUFFICES ASSUME IInv PROVE TypeOK
    OBVIOUS
  <2>1. ASSUME NEW c \in Clients
        PROVE  /\ DOMAIN wheel[c] \subseteq Clients \ {c}
               /\ \A u \in DOMAIN wheel[c] : wheel[c][u].seed \in Seeds /\ wheel[c][u].Round \in Nat
    <3>1. DOMAIN wheel[c] \in SUBSET Clients /\ wheel[c] \in [DOMAIN wheel[c] -> Entries] /\ c \notin DOMAIN wheel[c]
      BY MapFacts DEF IInv, Types, KeyTypes
    <3>2. QED BY <3>1 DEF Entries
  <2>2. \A c \in Clients : \A k \in ToSet(outgoingCalls[c]) : call[k].state = "queued" /\ call[k].from = c
    BY DEF IInv, CallsAreSentOnce, QueueOK, ToSet
  <2>3. \A t \in tasks : t.client \in Clients /\ t.call \in Calls \cup {Nil}
    BY DEF IInv, Types, TaskTypes, TaskRecords
  <2>4. QED BY <2>1, <2>2, <2>3 DEF TypeOK, IInv, Types, RoundTypes
<1>2. QED BY <1>1, IInvHolds, PTL

\* What scanBloomFilter has erased, and saved, stays erased: no crash brings the keys back, and
\* neither does a new secret with the same friend.
THEOREM ForwardSecrecy == Spec => []ForwardSecret
<1>1. IInv => ForwardSecret
  BY DEF IInv, ErasedForGood, Past, ForwardSecret
<1>2. QED BY <1>1, IInvHolds, PTL

\* The token that sendDialingOnion sends is the one that computeKeys kept with the call.
THEOREM TokensMatchCalls == Spec => []TokenMatchesCall
<1>1. IInv => TokenMatchesCall
  <2> SUFFICES ASSUME IInv, NEW t \in tasks, t.pc = "computed", t.token # Nil
               PROVE  t.token = call[t.call].dialToken
    BY DEF TokenMatchesCall
  <2>1. TaskOK(t, call[t.call])
    BY TaskCall DEF IInv, Types
  <2>2. QED BY <2>1 DEF TaskOK
<1>2. QED BY <1>1, IInvHolds, PTL

\* Whom ReceivedCall names has called: this client, in this round and with this intent.
THEOREM ReceivedCallsWereMade == Spec => []NoGhostCall
<1>1. IInv => NoGhostCall
  <2> SUFFICES ASSUME IInv, NEW x \in received, [to |-> x.to, Round |-> x.Round] \notin badFilters
               PROVE  \E k \in Calls :
                        /\ call[k].from = x.from
                        /\ call[k].Username = x.to
                        /\ call[k].sentRound = x.Round
                        /\ call[k].dialToken # Nil => call[k].intent = x.Intent
    BY DEF NoGhostCall
  <2>1. x.Round \in Rounds /\ CandidateOK(x.to, x.Round, x.from, x.token) /\ x.Intent = x.token.intent
    BY DEF IInv, Types, RoundTypes, CallRecords, TokensWereSent
  <2>2. x.token \in tokens[x.Round] /\ x.from # x.to
    BY <2>1 DEF CandidateOK
  <2>3. PICK s \in Seeds : x.token = DialToken(x.to, x.from, s, x.Round, x.to, x.Intent)
    BY <2>1 DEF CandidateOK
  <2>4. PICK k \in Calls : call[k].dialToken = x.token /\ x.token # Nil
    BY <2>1, <2>2 DEF IInv, TokensWereSent
  <2>5. CallOK(call[k])
    BY DEF IInv, CallsAreSentOnce
  <2>6. TokenOf(call[k], x.token, call[k].intent) /\ call[k].Username # call[k].from
    BY <2>4, <2>5 DEF CallOK, NoCall
  <2>7. PICK s2 \in Seeds :
          x.token = DialToken(call[k].from, call[k].Username, s2, call[k].sentRound, call[k].Username,
                              call[k].intent)
    BY <2>6 DEF TokenOf
  <2>8. /\ call[k].from = x.from /\ call[k].Username = x.to
        /\ call[k].sentRound = x.Round /\ call[k].intent = x.Intent
    <3>1. /\ {call[k].from, call[k].Username} = {x.to, x.from}
          /\ call[k].Username = x.to
          /\ call[k].sentRound = x.Round /\ call[k].intent = x.Intent
      BY <2>3, <2>7 DEF DialToken
    <3>2. QED BY <2>2, <2>6, <3>1
  <2>9. QED BY <2>8
<1>2. QED BY <1>1, IInvHolds, PTL

\* With one secret for each pair, both ends of a call get the same session key: the token is of
\* this secret and of the round, and so is each key.  computeKeys reads the token and the key in
\* two steps, and PutKey may come between them, so this needs that no secret follows another.
THEOREM KeysAgree == ASSUME MaxSeed = 1 PROVE Spec => []SessionKeysAgree
<1>1. IInv => SessionKeysAgree
  <2> SUFFICES ASSUME IInv, NEW x \in received, NEW k \in Calls,
                      call[k].dialToken = x.token, call[k].sessionKey # Nil, x.SessionKey # Nil
               PROVE  call[k].sessionKey = x.SessionKey
    BY DEF SessionKeysAgree
  <2>1. x.Round \in Rounds /\ CandidateOK(x.to, x.Round, x.from, x.token)
    BY DEF IInv, Types, RoundTypes, CallRecords, TokensWereSent
  <2>2. PICK s \in Seeds : x.token = DialToken(x.to, x.from, s, x.Round, x.to, x.token.intent)
    BY <2>1 DEF CandidateOK
  <2>3. PICK s2 \in Seeds : x.SessionKey = RoundKey(x.to, x.from, s2, x.Round)
    BY DEF IInv, TokensWereSent
  <2>4. CallOK(call[k])
    BY DEF IInv, CallsAreSentOnce
  <2>5. PICK s3 \in Seeds :
          call[k].sessionKey = RoundKey(call[k].from, call[k].Username, s3, call[k].sentRound)
    BY <2>4 DEF CallOK, KeyOf
  <2>6. s2 = 1 /\ s3 = 1
    BY DEF Seeds
  <2>7. {call[k].from, call[k].Username} = {x.to, x.from} /\ call[k].sentRound = x.Round
    <3>1. x.token # Nil
      BY DialingAssumption DEF IInv, Types, RoundTypes, CallRecords
    <3>2. TokenOf(call[k], x.token, call[k].intent)
      BY <2>4, <3>1 DEF CallOK
    <3>3. PICK s4 \in Seeds :
            x.token = DialToken(call[k].from, call[k].Username, s4, call[k].sentRound,
                                call[k].Username, call[k].intent)
      BY <3>2 DEF TokenOf
    <3>4. QED BY <2>2, <3>3 DEF DialToken
  <2>8. QED BY <2>3, <2>5, <2>6, <2>7 DEF RoundKey
<1>2. QED BY <1>1, IInvHolds, PTL
-----------------------------------------------------------------------------
(***************************************************************************)
(* No call is missed when rounds do not overlap.                           *)
(***************************************************************************)

\* What a step makes of the rounds.
LEMMA RoundSteps ==
    ASSUME Types, [Next]_vars
    PROVE  \/ net' = net /\ scanned' = scanned /\ \A c \in Clients : ready'[c] \subseteq ready[c]
           \/ \E r \in Rounds : \E Ready \in SUBSET Clients : OpenRound(r, Ready)
           \/ \E r \in Rounds : PublishRound(r) \/ FailRound(r)
           \/ \E c \in Clients : \E r \in Rounds :
                /\ net[r] = "published" /\ r \in ready[c] \ scanned[c]
                /\ net' = net /\ ready' = ready
                /\ scanned' = [scanned EXCEPT ![c] = scanned[c] \cup {r}]
<1>1. CASE UNCHANGED vars
  BY <1>1 DEF vars, rounds, service
<1>2. CASE Application
  BY <1>2 DEF Application, Call, Enqueue, UpdateIntent, Cancel, BeginSessionKey, RemoveFriend, PutKey,
              rounds, service
<1>3. ASSUME NEW c \in Clients, Crash(c)
      PROVE  net' = net /\ scanned' = scanned /\ \A d \in Clients : ready'[d] \subseteq ready[d]
  BY <1>3 DEF Crash, service, Types, RoundTypes
<1>4. CASE Service
  BY <1>4 DEF Service
<1>5. ASSUME NEW c \in Clients, NEW r \in Rounds, sendDialingOnion(c, r)
      PROVE  net' = net /\ scanned' = scanned /\ ready' = ready
  BY <1>5 DEF sendDialingOnion, service
<1>6. ASSUME NEW c \in Clients, NEW r \in Rounds,
             FetchFails(c, r) \/ \E bad \in BOOLEAN : scanBloomFilter(c, r, bad)
      PROVE  /\ net[r] = "published" /\ r \in ready[c] \ scanned[c]
             /\ net' = net /\ ready' = ready
             /\ scanned' = [scanned EXCEPT ![c] = scanned[c] \cup {r}]
  BY <1>6 DEF FetchFails, scanBloomFilter, service
<1>7. ASSUME NEW t \in tasks, TaskStep(t)
      PROVE  net' = net /\ scanned' = scanned /\ ready' = ready
  BY <1>7 DEF TaskStep, StampCall, BeginCompute, ReadToken, ReadKey, StoreKeys, SendOnion, ReceiveCall,
              EraseKeys, PersistKeywheel, rounds, service
<1>8. ASSUME NEW t \in tasks, SendPanics(t)
      PROVE  net' = net /\ scanned' = scanned /\ \A d \in Clients : ready'[d] \subseteq ready[d]
  BY <1>3, <1>8 DEF SendPanics, Types, TaskTypes, TaskRecords
<1>9. QED BY <1>1, <1>2, <1>3, <1>4, <1>5, <1>6, <1>7, <1>8 DEF Next, Handlers

\* A published round stays published, and a scanned one scanned.
LEMMA RoundsKeep ==
    ASSUME Types, [Next]_vars
    PROVE  /\ \A r \in Rounds : net[r] = "published" => net'[r] = "published"
           /\ \A c \in Clients : scanned[c] \subseteq scanned'[c]
<1> USE DEF Types, RoundTypes
<1>1. ASSUME NEW r \in Rounds, NEW Ready \in SUBSET Clients, OpenRound(r, Ready)
      PROVE  scanned' = scanned /\ \A q \in Rounds : net[q] = "published" => net'[q] = "published"
  BY <1>1 DEF OpenRound
<1>2. ASSUME NEW r \in Rounds, PublishRound(r) \/ FailRound(r)
      PROVE  scanned' = scanned /\ \A q \in Rounds : net[q] = "published" => net'[q] = "published"
  BY <1>2 DEF PublishRound, FailRound, rounds
<1>3. QED BY <1>1, <1>2, RoundSteps

\* The parts of ScansAreComplete: the rounds, the wheels, the scans, what was erased.
LEMMA RoundsInOrderStep ==
    ASSUME Punctual, Types, RoundsInOrder, [Next]_vars
    PROVE  RoundsInOrder'
<1> USE DEF Types, RoundTypes
<1>1. CASE net' = net /\ scanned' = scanned /\ \A c \in Clients : ready'[c] \subseteq ready[c]
  BY <1>1 DEF RoundsInOrder
<1>2. ASSUME NEW r \in Rounds, NEW Ready \in SUBSET Clients, OpenRound(r, Ready)
      PROVE  RoundsInOrder'
  <2>1. /\ \A q \in 1 .. r - 1 : net[q] \in {"published", "failed"}
        /\ \A c \in Clients : \A q \in ready[c] : net[q] = "published" => q \in scanned[c]
        /\ net[r] = "none" /\ scanned' = scanned
        /\ net' = [q \in Rounds |->
                     IF q = r THEN "open" ELSE IF net[q] = "open" THEN "mixing" ELSE net[q]]
        /\ \A c \in Clients : ready'[c] \subseteq ready[c] \cup {r}
    BY <1>2 DEF OpenRound, Settled
  <2>2. \A q \in Rounds : q < r => net[q] \in {"published", "failed"}
    BY <2>1 DEF Rounds
  <2>3. \A q \in Rounds : r < q => net[q] = "none"
    BY <2>1 DEF RoundsInOrder
  <2>4. \A p, q \in Rounds : q < p /\ net'[p] # "none" => net'[q] \in {"published", "failed"}
    <3> SUFFICES ASSUME NEW p \in Rounds, NEW q \in Rounds, q < p, net'[p] # "none"
                 PROVE  net'[q] \in {"published", "failed"}
      OBVIOUS
    <3>1. ~(r < p)
      BY <2>1, <2>3 DEF Rounds
    <3>2. q < r
      BY <3>1, DialingAssumption DEF Rounds
    <3>3. QED BY <2>1, <2>2, <3>2 DEF Rounds
  <2>5. \A c \in Clients : \A q \in ready'[c] :
          net'[q] # "none" /\ (net'[q] = "published" => q \in scanned'[c])
    BY <2>1 DEF RoundsInOrder
  <2>6. \A c \in Clients : \A q \in scanned'[c] : net'[q] = "published"
    BY <2>1 DEF RoundsInOrder
  <2>7. QED BY <2>4, <2>5, <2>6 DEF RoundsInOrder
<1>3. ASSUME NEW r \in Rounds, PublishRound(r) \/ FailRound(r)
      PROVE  RoundsInOrder'
  <2>1. PICK s \in {"published", "failed"} : net' = [net EXCEPT ![r] = s]
    BY <1>3 DEF PublishRound, FailRound
  <2>2. net[r] \in {"open", "mixing"} /\ ready' = ready /\ scanned' = scanned
    BY <1>3 DEF PublishRound, FailRound, rounds
  <2>3. \A q \in Rounds : r < q => net[q] = "none"
    BY <2>2 DEF RoundsInOrder
  <2>4. \A p, q \in Rounds : q < p /\ net'[p] # "none" => net'[q] \in {"published", "failed"}
    BY <2>1, <2>2 DEF RoundsInOrder
  <2>5. \A c \in Clients : \A q \in ready'[c] :
          /\ net'[q] # "none"
          /\ net'[q] = "published" /\ q \notin scanned'[c] => \A p \in Rounds : p > q => net'[p] = "none"
    <3> SUFFICES ASSUME NEW c \in Clients, NEW q \in ready'[c]
                 PROVE  /\ net'[q] # "none"
                        /\ net'[q] = "published" /\ q \notin scanned'[c] =>
                             \A p \in Rounds : p > q => net'[p] = "none"
      OBVIOUS
    <3>1. q \in ready[c] /\ q \in Rounds
      BY <2>2
    <3>2. CASE q = r
      BY <2>1, <2>3, <3>2 DEF Rounds
    <3>3. CASE q # r
      <4>1. net'[q] = net[q] /\ net[q] # "none"
        BY <2>1, <3>1, <3>3 DEF RoundsInOrder
      <4>2. ASSUME net[q] = "published", q \notin scanned[c], NEW p \in Rounds, p > q
            PROVE  net'[p] = "none"
        <5>1. net[p] = "none"
          BY <3>1, <4>2 DEF RoundsInOrder
        <5>2. p # r
          BY <2>2, <5>1
        <5>3. QED BY <2>1, <5>1, <5>2
      <4>3. QED BY <2>2, <4>1, <4>2
    <3>4. QED BY <3>2, <3>3
  <2>6. \A c \in Clients : \A q \in scanned'[c] : net'[q] = "published"
    <3>1. \A c \in Clients : \A q \in scanned[c] : net[q] = "published" /\ q # r
      BY <2>2 DEF RoundsInOrder
    <3>2. QED BY <2>1, <2>2, <3>1
  <2>7. QED BY <2>4, <2>5, <2>6 DEF RoundsInOrder
<1>4. ASSUME NEW c \in Clients, NEW r \in Rounds,
             net[r] = "published", net' = net, ready' = ready,
             scanned' = [scanned EXCEPT ![c] = scanned[c] \cup {r}]
      PROVE  RoundsInOrder'
  <2>1. \A d \in Clients : scanned'[d] \subseteq scanned[d] \cup {r} /\ scanned[d] \subseteq scanned'[d]
    BY <1>4
  <2>2. QED BY <1>4, <2>1 DEF RoundsInOrder
<1>5. QED BY <1>1, <1>2, <1>3, <1>4, RoundSteps

\* Only EraseKeys of a scanned round moves an entry on; a file has what a wheel had.
LEMMA EntriesOKStep ==
    ASSUME Types, TaskKinds, SeedsWerePut, EntriesOK, ScansAreOfRounds, [Next]_vars
    PROVE  EntriesOK'
<1> SUFFICES ASSUME NEW c \in Clients, NEW w \in {wheel'[c], wheelFile'[c]}, NEW u \in DOMAIN w
             PROVE  w[u].Round # DialRound[w[u].seed] => w[u].Round - 1 \in scanned'[c]
  BY DEF EntriesOK, EntryOK
<1>1. ASSUME NEW z \in {wheel[c], wheelFile[c]}, u \in DOMAIN z, w[u] = z[u]
      PROVE  w[u].Round # DialRound[w[u].seed] => w[u].Round - 1 \in scanned'[c]
  <2>1. EntryOK(c, z[u])
    BY <1>1 DEF EntriesOK
  <2>2. QED BY <1>1, <2>1, RoundsKeep DEF EntryOK
<1>2. ASSUME NEW t \in tasks, EraseKeys(t), t.client = c, w = Erased(wheel[c], t.round)
      PROVE  w[u].Round # DialRound[w[u].seed] => w[u].Round - 1 \in scanned'[c]
  <2>1. wheel[c] \in Maps(Entries) /\ t.round \in Nat
    BY DialingAssumption DEF Types, KeyTypes, TaskTypes, TaskRecords, Rounds
  <2>2. /\ u \in DOMAIN wheel[c] /\ w[u].seed = wheel[c][u].seed
        /\ w[u].Round \in {wheel[c][u].Round, t.round + 1}
    BY <1>2, <2>1, ErasedFacts
  <2>3. EntryOK(c, wheel[c][u])
    BY <2>2 DEF EntriesOK
  <2>4. t.round \in scanned'[c]
    <3>1. t.kind = "scan"
      BY <1>2 DEF EraseKeys, TaskKinds
    <3>2. QED BY <1>2, <3>1, RoundsKeep DEF ScansAreOfRounds
  <2>5. CASE w[u].Round = wheel[c][u].Round
    BY <2>2, <2>3, <2>5, RoundsKeep DEF EntryOK
  <2>6. CASE w[u].Round = t.round + 1
    BY <2>1, <2>4, <2>6
  <2>7. QED BY <2>2, <2>5, <2>6
<1>3. QED BY <1>1, <1>2, WheelSteps DEF Types

\* A scan is of a round whose mailbox was opened.
LEMMA ScansAreOfRoundsStep ==
    ASSUME Types, TaskKinds, ScansAreOfRounds, [Next]_vars
    PROVE  ScansAreOfRounds'
<1> SUFFICES ASSUME NEW t2 \in tasks', t2.kind = "scan"
             PROVE  t2.round \in scanned'[t2.client] /\ (t2.pc = "persist" => t2.hits = {})
  BY DEF ScansAreOfRounds
<1>1. CASE t2 \in tasks
  BY <1>1, RoundsKeep DEF ScansAreOfRounds, Types, TaskTypes, TaskRecords
<1>2. ASSUME NEW t \in tasks, NEW x \in t.hits, ReceiveCall(t, x), t2 = [t EXCEPT !.hits = @ \ {x}]
      PROVE  t2.round \in scanned'[t2.client] /\ (t2.pc = "persist" => t2.hits = {})
  <2>1. /\ t2.round = t.round /\ t2.client = t.client /\ t.kind = "scan" /\ t2.pc = "hits"
        /\ t.client \in Clients
    BY <1>2 DEF ReceiveCall, Types, TaskTypes, TaskRecords
  <2>2. QED BY <2>1, RoundsKeep DEF ScansAreOfRounds
<1>3. ASSUME NEW t \in tasks, EraseKeys(t), t2 = [t EXCEPT !.pc = "persist"]
      PROVE  t2.round \in scanned'[t2.client] /\ (t2.pc = "persist" => t2.hits = {})
  <2>1. /\ t2.round = t.round /\ t2.client = t.client /\ t.kind = "scan" /\ t2.hits = {}
        /\ t.client \in Clients
    BY <1>3 DEF EraseKeys, Types, TaskTypes, TaskRecords
  <2>2. QED BY <2>1, RoundsKeep DEF ScansAreOfRounds
<1>4. ASSUME NEW c \in Clients, NEW r \in Rounds, NEW bad \in BOOLEAN,
             scanBloomFilter(c, r, bad), t2 = ScanTask(c, r, bad)
      PROVE  t2.round \in scanned'[t2.client] /\ (t2.pc = "persist" => t2.hits = {})
  <2>1. t2.round = r /\ t2.client = c /\ t2.pc = "hits"
    BY <1>4 DEF ScanTask, Task
  <2>2. r \in scanned'[c]
    BY <1>4 DEF scanBloomFilter, Types, RoundTypes
  <2>3. QED BY <2>1, <2>2
<1>5. QED BY <1>1, <1>2, <1>3, <1>4, ScanSteps DEF Types

\* The tokens of a published round stay as they are.
LEMMA PublishedTokens ==
    ASSUME Types, [Next]_vars, NEW r \in Rounds, net[r] = "published"
    PROVE  tokens'[r] \subseteq tokens[r]
<1> SUFFICES ASSUME NEW token \in tokens'[r], token \notin tokens[r]
             PROVE  FALSE
  OBVIOUS
<1>1. PICK t \in tasks : SendOnion(t) /\ t.round = r
  BY NewToken
<1>2. tokens' = tokens
  BY <1>1 DEF SendOnion
<1>3. QED BY <1>2

\* A scan that begins sees every call of the round: its wheel has not passed the round, and what
\* reached the filter is a hit.
LEMMA NewScan ==
    ASSUME Types, SeedsWerePut, TokensWereSent, RoundsInOrder, EntriesOK,
           NEW c \in Clients, NEW r \in Rounds, NEW bad \in BOOLEAN, scanBloomFilter(c, r, bad),
           NEW u \in DOMAIN wheel[c], NEW token \in tokens[r],
           token.to = c, token.pair = {c, u}, token.seed = wheel[c][u].seed
    PROVE  [from |-> u, token |-> token] \in Hits(c, r, bad)
<1> DEFINE s == wheel[c][u].seed
           R == wheel[c][u].Round
<1>1. s \in Seeds /\ R \in Nat /\ u \in Clients
  <2>1. DOMAIN wheel[c] \in SUBSET Clients /\ wheel[c] \in [DOMAIN wheel[c] -> Entries]
    BY MapFacts DEF Types, KeyTypes
  <2>2. QED BY <2>1 DEF Entries
<1>2. token \in Tokens /\ token.round = r /\ DialRound[s] <= r
  BY DEF Types, RoundTypes, TokensWereSent
<1>3. R <= r
  <2>1. CASE R = DialRound[s]
    BY <1>2, <2>1
  <2>2. CASE R # DialRound[s]
    <3>1. R - 1 \in scanned[c]
      BY <2>2 DEF EntriesOK, EntryOK
    <3>2. R - 1 \in Rounds /\ net[R - 1] = "published"
      BY <3>1 DEF RoundsInOrder, Types, RoundTypes
    <3>3. r \in ready[c] /\ r \notin scanned[c] /\ net[r] = "published"
      BY DEF scanBloomFilter
    <3>4. ~(R - 1 > r) /\ R - 1 # r
      BY <3>1, <3>2, <3>3 DEF RoundsInOrder
    <3>5. QED BY <1>1, <3>4, DialingAssumption DEF Rounds
  <2>3. QED BY <2>1, <2>2
<1>4. u \in Reachable(c, r)
  BY <1>3 DEF Reachable
<1>5. token.intent \in Intents
  BY <1>2 DEF Tokens
<1>6. token = DialToken(c, u, s, r, c, token.intent)
  BY <1>2 DEF Tokens, DialToken
<1>7. [from |-> u, token |-> token] \in IncomingDialTokens(c, r)
  BY <1>4, <1>5, <1>6 DEF IncomingDialTokens
<1>8. QED BY <1>7 DEF Hits

\* A hit becomes a received call before the scan goes on to erase.
LEMMA CallsAreFoundStep ==
    ASSUME Types, TaskKinds, SeedsWerePut, TokensWereSent,
           RoundsInOrder, EntriesOK, ScansAreOfRounds, CallsAreFound, [Next]_vars
    PROVE  CallsAreFound'
<1>1. received \subseteq received'
  BY ReceivedSteps
<1>2. ASSUME NEW t \in tasks, NEW e \in t.entries, NEW token \in tokens'[t.round]
      PROVE  Found(t.client, t.hits, e, token)
  <2>1. t.round \in Rounds /\ t.round \in scanned[t.client] /\ t.client \in Clients
    BY DEF TaskKinds, ScansAreOfRounds, Types, TaskTypes, TaskRecords
  <2>2. net[t.round] = "published"
    BY <2>1 DEF RoundsInOrder
  <2>3. token \in tokens[t.round]
    BY <2>1, <2>2, PublishedTokens
  <2>4. QED BY <2>3 DEF CallsAreFound
<1>3. ASSUME NEW t2 \in tasks', NEW e \in t2.entries, NEW token \in tokens'[t2.round]
      PROVE  Found(t2.client, t2.hits, e, token)'
  <2>1. CASE t2 \in tasks
    BY <1>1, <1>2, <2>1 DEF Found
  <2>2. ASSUME NEW t \in tasks, NEW x \in t.hits, ReceiveCall(t, x), t2 = [t EXCEPT !.hits = @ \ {x}]
        PROVE  Found(t2.client, t2.hits, e, token)'
    <3>1. /\ t2.client = t.client /\ t2.entries = t.entries /\ t2.round = t.round
          /\ t2.hits = t.hits \ {x}
      BY <2>2 DEF Types, TaskTypes, TaskRecords
    <3>2. Found(t.client, t.hits, e, token)
      BY <1>2, <3>1
    <3>3. \E y \in received' : y.to = t.client /\ y.token = x.token
      <4> DEFINE y == [to |-> t.client, from |-> x.from, token |-> x.token, Round |-> t.round,
                       Intent |-> x.token.intent, SessionKey |-> SessionKey(t.client, x.from, t.round)]
      <4>1. y \in received'
        BY <2>2 DEF ReceiveCall
      <4>2. y.to = t.client /\ y.token = x.token
        OBVIOUS
      <4>3. QED BY <4>1, <4>2
    <3>4. ASSUME [from |-> e.friend, token |-> token] = x
          PROVE  \E y \in received' : y.to = t.client /\ y.token = token
      BY <3>3, <3>4
    <3>5. QED BY <1>1, <3>1, <3>2, <3>4 DEF Found
  <2>3. ASSUME NEW t \in tasks, EraseKeys(t), t2 = [t EXCEPT !.pc = "persist"]
        PROVE  Found(t2.client, t2.hits, e, token)'
    <3>1. /\ t2.client = t.client /\ t2.entries = t.entries /\ t2.round = t.round
          /\ t2.hits = t.hits
      BY <2>3 DEF Types, TaskTypes, TaskRecords
    <3>2. Found(t.client, t.hits, e, token)
      BY <1>2, <3>1
    <3>3. QED BY <1>1, <3>1, <3>2 DEF Found
  <2>4. ASSUME NEW c \in Clients, NEW r \in Rounds, NEW bad \in BOOLEAN,
               scanBloomFilter(c, r, bad), t2 = ScanTask(c, r, bad)
        PROVE  Found(t2.client, t2.hits, e, token)'
    <3>1. /\ t2.client = c /\ t2.round = r /\ t2.hits = Hits(c, r, bad)
          /\ t2.entries = {[friend |-> u, seed |-> wheel[c][u].seed, round |-> r] : u \in DOMAIN wheel[c]}
      BY <2>4 DEF ScanTask, Task
    <3>2. PICK u \in DOMAIN wheel[c] : e = [friend |-> u, seed |-> wheel[c][u].seed, round |-> r]
      BY <3>1
    <3>3. token \in tokens[r]
      BY <2>4, <3>1 DEF scanBloomFilter, service
    <3>4. token.to = c /\ token.pair = {c, u} /\ token.seed = wheel[c][u].seed =>
            [from |-> u, token |-> token] \in Hits(c, r, bad)
      BY <2>4, <3>3, NewScan
    <3>5. QED BY <3>1, <3>2, <3>4 DEF Found
  <2>5. QED BY <2>1, <2>2, <2>3, <2>4, ScanSteps DEF Types
<1>4. ASSUME NEW c \in Clients, NEW e \in erased'[c]
      PROVE  /\ net'[e.round] = "published"
             /\ \A token \in tokens'[e.round] : Found(c, {}, e, token)'
  <2>1. /\ e.round \in Rounds /\ net[e.round] = "published"
        /\ \A token \in tokens[e.round] : Found(c, {}, e, token)
    <3>1. CASE e \in erased[c]
      BY <3>1 DEF CallsAreFound, Types, KeyTypes, KnownEntries
    <3>2. CASE e \notin erased[c]
      <4>1. PICK t \in tasks : PersistKeywheel(t)
        BY <1>4, <3>2, KeySteps DEF RemoveFriend, PutKey, Crash, EraseKeys, history, Types
      <4>2. t.client \in Clients
        BY DEF Types, TaskTypes, TaskRecords
      <4>3. erased'[c] = IF c = t.client THEN erased[c] \cup t.entries ELSE erased[c]
        <5>1. erased' = [erased EXCEPT ![t.client] = erased[t.client] \cup t.entries]
          BY <4>1 DEF PersistKeywheel
        <5>2. QED BY <5>1 DEF Types, KeyTypes
      <4>4. t.client = c /\ e \in t.entries
        BY <1>4, <3>2, <4>3
      <4>5. t.kind = "scan" /\ t.hits = {} /\ t.round \in Rounds
        BY <4>1 DEF PersistKeywheel, TaskKinds, ScansAreOfRounds
      <4>6. e.round = t.round
        BY <4>4 DEF SeedsWerePut
      <4>7. net[t.round] = "published"
        BY <4>4, <4>5 DEF ScansAreOfRounds, RoundsInOrder
      <4>8. \A token \in tokens[t.round] : Found(c, {}, e, token)
        BY <4>4, <4>5 DEF CallsAreFound
      <4>9. QED BY <4>5, <4>6, <4>7, <4>8
    <3>3. QED BY <3>1, <3>2
  <2>2. tokens'[e.round] \subseteq tokens[e.round] /\ net'[e.round] = "published"
    BY <2>1, PublishedTokens, RoundsKeep
  <2>3. QED BY <1>1, <2>1, <2>2 DEF Found
<1>5. QED BY <1>3, <1>4 DEF CallsAreFound

\* Before the first round nothing is scanned.
LEMMA InitScans == Init => ScansAreComplete
<1> SUFFICES ASSUME Init PROVE ScansAreComplete
  OBVIOUS
<1>1. \A r \in Rounds : net[r] = "none"
  BY DEF Init
<1>2. \A c \in Clients : ready[c] = {} /\ scanned[c] = {} /\ erased[c] = {}
  BY DEF Init
<1>3. \A c \in Clients : wheelFile[c] = wheel[c] /\ \A u \in DOMAIN wheel[c] :
        wheel[c][u].seed = 1 /\ wheel[c][u].Round = DialRound[1]
  BY DEF Init
<1>4. tasks = {}
  BY DEF Init
<1>5. RoundsInOrder
  BY <1>1, <1>2 DEF RoundsInOrder
<1>6. EntriesOK
  BY <1>3 DEF EntriesOK, EntryOK
<1>7. QED BY <1>2, <1>4, <1>5, <1>6 DEF ScansAreComplete, ScansAreOfRounds, CallsAreFound

\* If the rounds do not overlap, a client has received the calls of a round, of every friend that
\* it knew when it opened the mailbox, when the round's keys are erased for good.
THEOREM NoCallIsMissed == ASSUME Punctual PROVE Spec => []NoMissedCall
<1>1. IInv /\ ScansAreComplete /\ [Next]_vars => ScansAreComplete'
  BY RoundsInOrderStep, EntriesOKStep, ScansAreOfRoundsStep, CallsAreFoundStep DEF IInv, ScansAreComplete
<1>2. ScansAreComplete => NoMissedCall
  BY DEF ScansAreComplete, CallsAreFound, Found, NoMissedCall
<1>3. QED BY <1>1, <1>2, InitScans, IInvHolds, PTL DEF Spec
=============================================================================
