--------------------------- MODULE AddFriendProofs --------------------------
(***************************************************************************)
(* What holds of any clients that make friends: any number of requests,    *)
(* rounds, failures and crashes, and handlers that overlap.                *)
(***************************************************************************)
EXTENDS AddFriend, Integers, SequenceTheorems, FunctionTheorems, FiniteSetTheorems,
        WellFoundedInduction, TLAPS

(***************************************************************************)
(* Sequences.                                                              *)
(***************************************************************************)

\* A non-empty set of natural numbers has a least element: what induction is used for here.
LEMMA Least ==
    ASSUME NEW S, S \subseteq Nat, S # {}
    PROVE  \E n \in S : \A m \in S : n <= m
<1> DEFINE R == OpToRel(<, Nat)
<1>1. PICK n \in S : \A m \in S : ~ (<<m, n>> \in R)
  <2>1. IsWellFoundedOn(R, Nat)
    BY NatLessThanWellFounded
  <2> HIDE DEF R
  <2>2. QED BY <2>1, WFMin
<1>2. ASSUME NEW m \in S, m < n PROVE FALSE
  <2>1. <<m, n>> \in {ss \in Nat \X Nat : ss[1] < ss[2]}
    BY <1>2
  <2>2. <<m, n>> \in R
    BY <2>1 DEF OpToRel
  <2> HIDE DEF R
  <2>3. QED BY <1>1, <2>2, Zenon
<1>3. \A m \in S : n <= m
  BY <1>2
<1>4. QED BY <1>3

\* One step of the loop that Without is.
Kept(queue, req, kept, n) ==
    IF n = 0 THEN << >>
    ELSE IF queue[n] = req THEN kept[n - 1] ELSE Append(kept[n - 1], queue[n])

\* It has a result, a sequence over S, for every length up to m.
IsComputed(queue, req, S, m) ==
    \E kept \in [0 .. m -> Seq(S)] : \A n \in 0 .. m : kept[n] = Kept(queue, req, kept, n)

\* The loop has a result for every length.
LEMMA KeptExists ==
    ASSUME NEW S, NEW queue \in Seq(S), NEW req, NEW m \in 0 .. Len(queue)
    PROVE  IsComputed(queue, req, S, m)
<1> DEFINE Good(n) == \E f \in [0 .. n -> Seq(S)] : \A i \in 0 .. n : f[i] = Kept(queue, req, f, i)
           Bad == {n \in 0 .. Len(queue) : ~Good(n)}
<1> SUFFICES Bad = {}
  BY DEF IsComputed
<1> SUFFICES ASSUME Bad # {} PROVE FALSE
  OBVIOUS
<1>1. PICK n \in Bad : \A i \in Bad : n <= i
  <2> HIDE DEF Good
  <2>1. Bad \subseteq Nat
    OBVIOUS
  <2>2. QED BY <2>1, Least
<1>2. n \in 0 .. Len(queue) /\ ~Good(n)
  OBVIOUS
<1>3. n # 0
  <2>1. SUFFICES ASSUME n = 0 PROVE FALSE
    OBVIOUS
  <2> DEFINE f == [i \in 0 .. 0 |-> << >>]
  <2>2. f \in [0 .. 0 -> Seq(S)]
    OBVIOUS
  <2>3. \A i \in 0 .. 0 : f[i] = Kept(queue, req, f, i)
    BY DEF Kept
  <2>4. QED BY <1>2, <2>1, <2>2, <2>3
<1>4. n - 1 \in 0 .. Len(queue) /\ n - 1 \notin Bad
  <2> HIDE DEF Bad, Good
  <2>1. n \in Nat /\ Len(queue) \in Nat
    BY <1>2
  <2>2. QED BY <1>1, <1>2, <1>3, <2>1
<1>5. PICK g \in [0 .. n - 1 -> Seq(S)] : \A i \in 0 .. n - 1 : g[i] = Kept(queue, req, g, i)
  BY <1>4
<1> DEFINE f == [i \in 0 .. n |-> IF i < n THEN g[i] ELSE Kept(queue, req, g, n)]
<1> HIDE DEF Bad, Good
<1>6. n \in Nat \ {0} /\ n - 1 \in 0 .. n - 1
  BY <1>2, <1>3
<1>7. Kept(queue, req, g, n) \in Seq(S)
  <2>1. g[n - 1] \in Seq(S) /\ queue[n] \in S
    BY <1>2, <1>6
  <2>2. Append(g[n - 1], queue[n]) \in Seq(S)
    BY <2>1
  <2>3. QED BY <1>6, <2>1, <2>2 DEF Kept
<1>8. f \in [0 .. n -> Seq(S)]
  BY <1>6, <1>7
<1>9. \A i \in 0 .. n : f[i] = Kept(queue, req, f, i)
  <2> SUFFICES ASSUME NEW i \in 0 .. n PROVE f[i] = Kept(queue, req, f, i)
    OBVIOUS
  <2>1. i # 0 => f[i - 1] = g[i - 1]
    BY <1>6
  <2>2. Kept(queue, req, f, i) = Kept(queue, req, g, i)
    <3> HIDE DEF f
    <3>1. QED BY <2>1 DEF Kept
  <2>3. CASE i < n
    BY <1>5, <1>6, <2>2, <2>3
  <2>4. CASE i = n
    BY <1>6, <2>2, <2>4
  <2>5. QED BY <1>6, <2>3, <2>4
<1>10. Good(n)
  BY <1>8, <1>9 DEF Good
<1>11. QED BY <1>2, <1>10

\* What Without leaves: all elements but that one.
LEMMA WithoutFacts ==
    ASSUME NEW S, NEW queue \in Seq(S), NEW req
    PROVE  /\ Without(queue, req) \in Seq(S)
           /\ ToSet(Without(queue, req)) = ToSet(queue) \ {req}
<1> DEFINE Step(f) == [n \in 0 .. Len(queue) |->
                         IF n = 0 THEN << >>
                         ELSE IF queue[n] = req THEN f[n - 1] ELSE Append(f[n - 1], queue[n])]
           kept == CHOOSE f : f = Step(f)
           Good(n) == /\ kept[n] \in Seq(S)
                      /\ \A i \in DOMAIN kept[n] : \E j \in 1 .. n :
                           kept[n][i] = queue[j] /\ queue[j] # req
                      /\ \A j \in 1 .. n : queue[j] # req =>
                           \E i \in DOMAIN kept[n] : kept[n][i] = queue[j]
           Bad == {n \in 0 .. Len(queue) : ~Good(n)}
<1>1. Len(queue) \in Nat /\ DOMAIN queue = 1 .. Len(queue)
  OBVIOUS
<1>2. Without(queue, req) = kept[Len(queue)]
  BY DEF Without
<1>3. kept = Step(kept)
  <2>1. IsComputed(queue, req, S, Len(queue))
    <3>1. Len(queue) \in 0 .. Len(queue)
      BY <1>1
    <3>2. QED BY <3>1, KeptExists
  <2> HIDE DEF kept
  <2>2. PICK f \in [0 .. Len(queue) -> Seq(S)] :
          \A n \in 0 .. Len(queue) : f[n] = Kept(queue, req, f, n)
    BY <2>1 DEF IsComputed
  <2>3. f = Step(f)
    BY <2>2 DEF Kept
  <2> HIDE DEF Step
  <2>4. QED BY <2>3 DEF kept
<1>4. \A n \in 0 .. Len(queue) : kept[n] = Kept(queue, req, kept, n)
  <2> HIDE DEF kept
  <2>1. QED BY <1>3 DEF Kept
<1> HIDE DEF kept
<1>5. Bad = {}
  <2> SUFFICES ASSUME Bad # {} PROVE FALSE
    OBVIOUS
  <2>1. PICK n \in Bad : \A i \in Bad : n <= i
    <3> HIDE DEF Good
    <3>1. Bad \subseteq Nat
      BY <1>1
    <3>2. QED BY <3>1, Least
  <2>2. n \in 0 .. Len(queue) /\ ~Good(n)
    OBVIOUS
  <2>3. n # 0
    <3>1. SUFFICES ASSUME n = 0 PROVE FALSE
      OBVIOUS
    <3>2. kept[n] = << >>
      BY <1>4, <2>2, <3>1 DEF Kept
    <3>3. QED BY <2>2, <3>1, <3>2
  <2>4. n - 1 \in 0 .. Len(queue) /\ Good(n - 1)
    <3> HIDE DEF Good
    <3>1. n - 1 \in 0 .. Len(queue) /\ ~(n <= n - 1)
      BY <1>1, <2>2, <2>3
    <3>2. QED BY <2>1, <3>1
  <2>5. n \in DOMAIN queue /\ n \in Nat /\ queue[n] \in S
    BY <1>1, <2>2, <2>3
  <2>6. CASE queue[n] = req
    <3>1. kept[n] = kept[n - 1]
      BY <1>4, <2>2, <2>3, <2>6 DEF Kept
    <3>2. \A j \in 1 .. n : j \in 1 .. n - 1 \/ j = n
      BY <2>5
    <3>3. \A j \in 1 .. n - 1 : j \in 1 .. n
      BY <2>5
    <3>4. QED BY <2>2, <2>4, <2>6, <3>1, <3>2, <3>3
  <2>7. CASE queue[n] # req
    <3> DEFINE p == kept[n - 1]
               q == kept[n]
    <3>1. q = Append(p, queue[n])
      BY <1>4, <2>2, <2>3, <2>7 DEF Kept
    <3>2. p \in Seq(S) /\ Len(p) \in Nat /\ DOMAIN p = 1 .. Len(p)
      BY <2>4
    <3>3. \A i \in DOMAIN p : \E j \in 1 .. n - 1 : p[i] = queue[j] /\ queue[j] # req
      BY <2>4
    <3>4. \A j \in 1 .. n - 1 : queue[j] # req => \E i \in DOMAIN p : p[i] = queue[j]
      BY <2>4
    <3> HIDE DEF p, q
    <3>5. /\ q \in Seq(S) /\ DOMAIN q = 1 .. Len(p) + 1
          /\ q[Len(p) + 1] = queue[n]
          /\ \A i \in 1 .. Len(p) : q[i] = p[i]
      BY <2>5, <3>1, <3>2
    <3>6. \A i \in DOMAIN q : i \in DOMAIN p \/ i = Len(p) + 1
      BY <3>2, <3>5
    <3>7. \A i \in DOMAIN q : \E j \in 1 .. n : q[i] = queue[j] /\ queue[j] # req
      <4> SUFFICES ASSUME NEW i \in DOMAIN q
                   PROVE  \E j \in 1 .. n : q[i] = queue[j] /\ queue[j] # req
        OBVIOUS
      <4>1. CASE i \in DOMAIN p
        <5>1. PICK j \in 1 .. n - 1 : p[i] = queue[j] /\ queue[j] # req
          BY <3>3, <4>1
        <5>2. j \in 1 .. n /\ q[i] = p[i]
          BY <2>5, <3>2, <3>5, <4>1
        <5>3. QED BY <5>1, <5>2
      <4>2. CASE i = Len(p) + 1
        <5>1. n \in 1 .. n
          BY <1>1, <2>3, <2>5
        <5>2. QED BY <2>7, <3>5, <4>2, <5>1
      <4>3. QED BY <3>6, <4>1, <4>2
    <3>8. \A j \in 1 .. n : queue[j] # req => \E i \in DOMAIN q : q[i] = queue[j]
      <4> SUFFICES ASSUME NEW j \in 1 .. n, queue[j] # req
                   PROVE  \E i \in DOMAIN q : q[i] = queue[j]
        OBVIOUS
      <4>1. CASE j = n
        <5>1. Len(p) + 1 \in DOMAIN q
          BY <3>2, <3>5
        <5>2. QED BY <3>5, <4>1, <5>1
      <4>2. CASE j # n
        <5>1. j \in 1 .. n - 1
          BY <2>5, <4>2
        <5>2. PICK i \in DOMAIN p : p[i] = queue[j]
          BY <3>4, <5>1
        <5>3. i \in DOMAIN q /\ q[i] = p[i]
          BY <3>2, <3>5
        <5>4. QED BY <5>2, <5>3
      <4>3. QED BY <4>1, <4>2
    <3>9. Good(n)
      BY <3>5, <3>7, <3>8 DEF p, q
    <3>10. QED BY <2>2, <3>9
  <2>8. QED BY <2>6, <2>7
<1>6. Good(Len(queue))
  <2> HIDE DEF Good
  <2>1. QED BY <1>1, <1>5
<1>7. PICK q : q = kept[Len(queue)]
  OBVIOUS
<1>8. /\ q \in Seq(S)
      /\ \A i \in DOMAIN q : \E j \in DOMAIN queue : q[i] = queue[j] /\ queue[j] # req
      /\ \A j \in DOMAIN queue : queue[j] # req => \E i \in DOMAIN q : q[i] = queue[j]
  BY <1>1, <1>6, <1>7
<1>9. ToSet(q) = ToSet(queue) \ {req}
  BY <1>8 DEF ToSet
<1>10. QED BY <1>2, <1>7, <1>8, <1>9

\* What RemoveAt leaves: the elements before and after that one.
LEMMA RemoveAtFacts ==
    ASSUME NEW S, NEW queue \in Seq(S), NEW n \in DOMAIN queue
    PROVE  /\ RemoveAt(queue, n) \in Seq(S)
           /\ DOMAIN RemoveAt(queue, n) = 1 .. Len(queue) - 1
           /\ \A i \in 1 .. Len(queue) - 1 :
                RemoveAt(queue, n)[i] = IF i < n THEN queue[i] ELSE queue[i + 1]
<1> DEFINE left == SubSeq(queue, 1, n - 1)
           right == SubSeq(queue, n + 1, Len(queue))
           q == RemoveAt(queue, n)
<1>1. Len(queue) \in Nat /\ DOMAIN queue = 1 .. Len(queue) /\ n \in 1 .. Len(queue)
  OBVIOUS
<1>2. /\ left \in Seq(S) /\ Len(left) = n - 1
      /\ \A i \in 1 .. n - 1 : left[i] = queue[i]
  BY <1>1
<1>3. /\ right \in Seq(S) /\ Len(right) = Len(queue) - n
      /\ \A i \in 1 .. Len(queue) - n : right[i] = queue[i + n]
  BY <1>1
<1>4. q = left \o right
  BY DEF RemoveAt
<1> HIDE DEF left, right, q
<1>5. /\ q \in Seq(S)
      /\ DOMAIN q = 1 .. Len(queue) - 1
      /\ \A i \in 1 .. Len(queue) - 1 : q[i] = IF i < n THEN left[i] ELSE right[i - (n - 1)]
  <2>1. /\ q \in Seq(S)
        /\ Len(q) = Len(left) + Len(right)
        /\ \A i \in 1 .. Len(left) + Len(right) :
             q[i] = IF i <= Len(left) THEN left[i] ELSE right[i - Len(left)]
    BY <1>2, <1>3, <1>4, ConcatProperties
  <2>2. Len(left) + Len(right) = Len(queue) - 1
    BY <1>1, <1>2, <1>3
  <2>3. DOMAIN q = 1 .. Len(queue) - 1
    BY <2>1, <2>2
  <2>4. \A i \in 1 .. Len(queue) - 1 : i <= Len(left) <=> i < n
    BY <1>1, <1>2
  <2>5. QED BY <1>2, <2>1, <2>2, <2>3, <2>4
<1>6. \A i \in 1 .. Len(queue) - 1 : q[i] = IF i < n THEN queue[i] ELSE queue[i + 1]
  <2> SUFFICES ASSUME NEW i \in 1 .. Len(queue) - 1
               PROVE  q[i] = IF i < n THEN queue[i] ELSE queue[i + 1]
    OBVIOUS
  <2>1. CASE i < n
    BY <1>1, <1>2, <1>5, <2>1
  <2>2. CASE ~(i < n)
    <3>1. i - (n - 1) \in 1 .. Len(queue) - n /\ (i - (n - 1)) + n = i + 1
      BY <1>1, <2>2
    <3>2. right[i - (n - 1)] = queue[i + 1]
      BY <1>3, <3>1
    <3>3. QED BY <1>1, <1>5, <2>2, <3>2
  <2>3. QED BY <2>1, <2>2
<1>7. QED BY <1>5, <1>6 DEF q

\* The index that SelectInSeq returns.
LEMMA MinFacts ==
    ASSUME NEW S, S \subseteq Nat, S # {}
    PROVE  Min(S) \in S
<1>1. \E n \in S : \A m \in S : n <= m
  BY Least
<1>2. QED BY <1>1 DEF Min

\* A request that was received and belongs to st.
LEMMA MatchToIncomingFacts ==
    ASSUME NEW S, NEW c \in Clients, incoming[c] \in Seq(S), NEW st, matchToIncoming(c, st) # 0
    PROVE  /\ matchToIncoming(c, st) \in DOMAIN incoming[c]
           /\ Matches(incoming[c][matchToIncoming(c, st)], st)
<1> DEFINE I == {i \in 1 .. Len(incoming[c]) : Matches(incoming[c][i], st)}
<1>1. matchToIncoming(c, st) = IF I # {} THEN Min(I) ELSE 0
  BY DEF matchToIncoming, SelectInSeq
<1>2. I \subseteq Nat /\ I # {}
  BY <1>1
<1>3. Min(I) \in I
  <2> HIDE DEF I
  <2>1. QED BY <1>2, MinFacts
<1>4. QED BY <1>1, <1>2, <1>3

\* A request that was sent and belongs to in.
LEMMA MatchToSentFacts ==
    ASSUME NEW S, NEW c \in Clients, sent[c] \in Seq(S), NEW in, matchToSent(c, in) # 0
    PROVE  /\ matchToSent(c, in) \in DOMAIN sent[c]
           /\ Matches(in, sent[c][matchToSent(c, in)])
<1> DEFINE I == {i \in 1 .. Len(sent[c]) : Matches(in, sent[c][i])}
<1>1. matchToSent(c, in) = IF I # {} THEN Min(I) ELSE 0
  BY DEF matchToSent, SelectInSeq
<1>2. I \subseteq Nat /\ I # {}
  BY <1>1
<1>3. Min(I) \in I
  <2> HIDE DEF I
  <2>1. QED BY <1>2, MinFacts
<1>4. QED BY <1>1, <1>2, <1>3
-----------------------------------------------------------------------------
(***************************************************************************)
(* The inductive invariant.                                                *)
(***************************************************************************)

\* The owner of c has approved a request of u.
Agreed(c, u) == \E dh \in approved[c] : dh.owner = u

\* The requests that c may have received, sent and queued: a key pair is of its maker, for its
\* recipient and for the dialing round of the request; who confirms has approved.
ReceivedBy(c) == {in \in IncomingRequest : MadeFor(in.DH, in.Username, c, in.DialRound)}
SentBy(c) == {st \in SentRequest : /\ MadeFor(st.DH, c, st.Username, st.DialRound)
                                   /\ st.Confirmation => Agreed(c, st.Username)}
QueuedBy(c) == {out \in OutgoingRequest : out.Confirmation => Agreed(c, out.Username)}

\* The users that c has confirmed, and with which request of its own.
Met(c) == {f.sent.Username : f \in {x \in confirmed : x.who = c /\ x.sent \in SentBy(c)}}

\* What c may hold in memory and in the client file.
Memories(c) ==
    [friends : SUBSET Met(c), incoming : Seq(ReceivedBy(c)),
     outgoing : Seq(QueuedBy(c)), sent : Seq(SentBy(c))]

\* The key of c for u comes from a key pair of each.
Mutual(c, u, entry) ==
    \E mine, theirs \in entry.Secret :
        /\ entry.Secret = {mine, theirs}
        /\ MadeFor(mine, c, u, entry.Round)
        /\ MadeFor(theirs, u, c, entry.Round)

Wheels(c) ==
    {w \in UNION {[D -> [Round : DialRounds, Secret : SUBSET KeyPair]] : D \in SUBSET Clients} :
       \A u \in DOMAIN w : Mutual(c, u, w[u])}

\* What a handler has at its point of the code.
Proper(t) ==
    /\ t.pc \in {"put", "commit"} => t.in # Nil /\ t.sent # Nil /\ Matches(t.in, t.sent)
    /\ t.kind = "send" => t.sent # Nil
    /\ t.kind = "decode" => t.in # Nil /\ t.pc # "persist"
    /\ t.kind = "decode" /\ t.pc \in {"match", "append"} => t.sent = Nil
    /\ t.kind = "scan" => t.pc = "persist" /\ t.sent = Nil

Handler(c) ==
    {t \in [kind : {"send", "decode", "scan"}, round : Rounds,
            pc : {"match", "append", "put", "commit", "persist"},
            in : ReceivedBy(c) \cup {Nil}, sent : SentBy(c) \cup {Nil}] : Proper(t)}

\* All that c holds is in order.
InOrder(c) ==
    /\ friends[c] \subseteq Met(c)
    /\ incoming[c] \in Seq(ReceivedBy(c))
    /\ outgoing[c] \in Seq(QueuedBy(c))
    /\ sent[c] \in Seq(SentBy(c))
    /\ wheel[c] \in Wheels(c)
    /\ tasks[c] \subseteq Handler(c)
    /\ clientFile[c] \in Memories(c)
    /\ wheelFile[c] \in Wheels(c)

Domains ==
    /\ DOMAIN friends = Clients /\ DOMAIN incoming = Clients /\ DOMAIN outgoing = Clients
    /\ DOMAIN sent = Clients /\ DOMAIN wheel = Clients /\ DOMAIN tasks = Clients
    /\ DOMAIN clientFile = Clients /\ DOMAIN wheelFile = Clients /\ DOMAIN approved = Clients
    /\ friends = [c \in Clients |-> friends[c]]

\* The rounds, and the onions that reached them.
RoundsInOrder ==
    /\ ready \in [Clients -> SUBSET Rounds]
    /\ mixed \in [Clients -> SUBSET Rounds]
    /\ scanned \in [Clients -> SUBSET Rounds]
    /\ locked \subseteq Clients
    /\ net \in [Rounds -> {"none", "open", "mixing", "published", "failed"}]
    /\ nonce \in [Clients -> Nat]
    /\ DOMAIN onions = Rounds
    /\ \A r \in Rounds : \A o \in onions[r] : o.to \in Clients => o.intro \in ReceivedBy(o.to)

\* The requests that c has made, wherever they are: with a handler, waiting for an answer, or
\* answered.
Travelling(c) == {t.sent : t \in {x \in tasks[c] : x.sent # Nil}}
Answered(c) == {f.sent : f \in {x \in confirmed : x.who = c}}
Settled(c) == ToSet(sent[c]) \cup Answered(c)
Known(c) == Travelling(c) \cup Settled(c)

Made(c, u) == {st \in Known(c) : st.Username = u /\ ~st.Confirmation}

\* Until the process ends, a handler that has only to save has left its request where it is
\* found, no key pair is made twice, and no request is lost or doubled.
Counted(c) ==
    /\ \A t \in tasks[c] : t.kind = "send" /\ t.pc = "persist" => t.sent \in Settled(c)
    /\ \A st \in Known(c) : st.DH.n \in 0 .. nonce[c] - 1
    /\ \A u \in Clients :
         /\ IsFiniteSet(Made(c, u))
         /\ asked[c][u] = Cardinality(RequestsTo(outgoing[c], u)) + Cardinality(Made(c, u))

RequestsCounted ==
    /\ crashes \in Nat
    /\ DOMAIN asked = Clients /\ \A c \in Clients : DOMAIN asked[c] = Clients
    /\ crashes = 0 => \A c \in Clients : Counted(c)

IInv ==
    /\ Domains
    /\ \A c \in Clients : InOrder(c)
    /\ RoundsInOrder
    /\ RequestsCounted
-----------------------------------------------------------------------------
(***************************************************************************)
(* What a client holds.                                                    *)
(***************************************************************************)

\* What was approved and confirmed stays so.
Grows ==
    /\ confirmed \subseteq confirmed'
    /\ \A c \in Clients : approved[c] \subseteq approved'[c]

\* Nothing changes for the client d.
Keeps(d) ==
    /\ friends'[d] = friends[d] /\ incoming'[d] = incoming[d] /\ outgoing'[d] = outgoing[d]
    /\ sent'[d] = sent[d] /\ wheel'[d] = wheel[d] /\ tasks'[d] = tasks[d]
    /\ clientFile'[d] = clientFile[d] /\ wheelFile'[d] = wheelFile[d]

\* What a client may hold only grows.
LEMMA SetsGrow ==
    ASSUME NEW c \in Clients, Grows
    PROVE  /\ SentBy(c) \subseteq SentBy(c)' /\ QueuedBy(c) \subseteq QueuedBy(c)'
           /\ Met(c) \subseteq Met(c)' /\ Handler(c) \subseteq Handler(c)'
           /\ Memories(c) \subseteq Memories(c)'
           /\ Seq(SentBy(c)) \subseteq Seq(SentBy(c)') /\ Seq(QueuedBy(c)) \subseteq Seq(QueuedBy(c)')
<1>1. \A u : Agreed(c, u) => Agreed(c, u)'
  BY DEF Grows, Agreed
<1>2. SentBy(c) \subseteq SentBy(c)' /\ QueuedBy(c) \subseteq QueuedBy(c)'
  BY <1>1 DEF SentBy, QueuedBy
<1>3. Met(c) \subseteq Met(c)'
  BY <1>2 DEF Met, Grows
<1>4. Handler(c) \subseteq Handler(c)'
  BY <1>2 DEF Handler
<1>5. Seq(SentBy(c)) \subseteq Seq(SentBy(c)') /\ Seq(QueuedBy(c)) \subseteq Seq(QueuedBy(c)')
  BY <1>2
<1>6. Memories(c) \subseteq Memories(c)'
  BY <1>3, <1>5 DEF Memories
<1>7. QED BY <1>2, <1>3, <1>4, <1>5, <1>6

\* A client for which nothing changes keeps its order.
LEMMA KeepsInOrder ==
    ASSUME NEW c \in Clients, InOrder(c), Keeps(c), Grows
    PROVE  InOrder(c)'
<1> USE SetsGrow DEF Keeps
<1>1. friends'[c] \subseteq Met(c)' /\ incoming'[c] \in Seq(ReceivedBy(c))
  BY DEF InOrder
<1>2. outgoing'[c] \in Seq(QueuedBy(c)') /\ sent'[c] \in Seq(SentBy(c)')
  BY DEF InOrder
<1>3. wheel'[c] \in Wheels(c) /\ wheelFile'[c] \in Wheels(c)
  BY DEF InOrder
<1>4. tasks'[c] \subseteq Handler(c)' /\ clientFile'[c] \in Memories(c)'
  BY DEF InOrder
<1>5. QED BY <1>1, <1>2, <1>3, <1>4 DEF InOrder

\* What a client saves of its memory.
LEMMA SavedFacts ==
    ASSUME NEW c \in Clients, friends[c] \subseteq Met(c), incoming[c] \in Seq(ReceivedBy(c)),
           outgoing[c] \in Seq(QueuedBy(c)), sent[c] \in Seq(SentBy(c))
    PROVE  Saved(c) \in Memories(c)
BY DEF Saved, Memories

\* At first every client is in order.
LEMMA InitInOrder == Init => Domains /\ \A c \in Clients : InOrder(c)
<1> SUFFICES ASSUME Init PROVE Domains /\ \A c \in Clients : InOrder(c)
  OBVIOUS
<1>1. Domains
  BY DEF Init, Domains
<1>2. ASSUME NEW c \in Clients PROVE InOrder(c)
  <2>1. /\ friends[c] = {} /\ incoming[c] = << >> /\ outgoing[c] = << >> /\ sent[c] = << >>
        /\ wheel[c] = << >> /\ tasks[c] = {}
        /\ clientFile[c] = Saved(c) /\ wheelFile[c] = << >>
    BY DEF Init
  <2>2. << >> \in Wheels(c)
    <3>1. << >> \in [{} -> [Round : DialRounds, Secret : SUBSET KeyPair]]
      OBVIOUS
    <3>2. QED BY <3>1 DEF Wheels
  <2>3. \A S : << >> \in Seq(S)
    OBVIOUS
  <2>4. clientFile[c] \in Memories(c)
    BY <2>1, <2>3, SavedFacts
  <2>5. QED BY <2>1, <2>2, <2>3, <2>4 DEF InOrder
<1>3. QED BY <1>1, <1>2

\* A step of one client changes nothing for the others.
LEMMA ClientStep ==
    ASSUME Domains, NEW c \in Clients, Application(c) \/ Handlers(c) \/ Crash(c)
    PROVE  Domains' /\ Grows /\ \A d \in Clients \ {c} : Keeps(d)
<1> USE DEF Domains, Grows, Keeps
<1>1. ASSUME NEW u \in Clients, SendFriendRequest(c, u)
      PROVE  Domains' /\ Grows /\ \A d \in Clients \ {c} : Keeps(d)
  BY <1>1 DEF SendFriendRequest, PersistLocked, PersistClient, volatile
<1>2. ASSUME NEW i \in DOMAIN outgoing[c], CancelOutgoing(c, i)
      PROVE  Domains' /\ Grows /\ \A d \in Clients \ {c} : Keeps(d)
  BY <1>2 DEF CancelOutgoing, PersistLocked, PersistClient, volatile
<1>3. ASSUME Restart(c)
      PROVE  Domains' /\ Grows /\ \A d \in Clients \ {c} : Keeps(d)
  BY <1>3 DEF Restart
<1>4. ASSUME NEW i \in DOMAIN incoming[c], Approve(c, i)
      PROVE  Domains' /\ Grows /\ \A d \in Clients \ {c} : Keeps(d)
  BY <1>4 DEF Approve, PersistLocked, PersistClient, volatile
<1>5. ASSUME NEW i \in DOMAIN incoming[c], Reject(c, i)
      PROVE  Domains' /\ Grows /\ \A d \in Clients \ {c} : Keeps(d)
  BY <1>5 DEF Reject, PersistLocked, PersistClient, volatile, bounds
<1>6. ASSUME NEW u \in friends[c], RemoveFriend(c, u)
      PROVE  Domains' /\ Grows /\ \A d \in Clients \ {c} : Keeps(d)
  BY <1>6 DEF RemoveFriend, PersistLocked, PersistClient, volatile, bounds
<1>7. ASSUME NEW r \in Rounds, NEW last \in DialRounds, sendAddFriendOnion(c, r, last)
      PROVE  Domains' /\ Grows /\ \A d \in Clients \ {c} : Keeps(d)
  BY <1>7 DEF sendAddFriendOnion, files
<1>8. ASSUME NEW r \in Rounds, scanMailbox(c, r)
      PROVE  Domains' /\ Grows /\ \A d \in Clients \ {c} : Keeps(d)
  BY <1>8 DEF scanMailbox, files, memory, bounds
<1>9. ASSUME NEW t \in tasks[c], MatchSent(c, t) \/ MatchIncoming(c, t)
      PROVE  Domains' /\ Grows /\ \A d \in Clients \ {c} : Keeps(d)
  BY <1>9 DEF MatchSent, MatchIncoming, Advance, files, memory, bounds
<1>10. ASSUME NEW t \in tasks[c], AppendSent(c, t) \/ AppendIncoming(c, t)
       PROVE  Domains' /\ Grows /\ \A d \in Clients \ {c} : Keeps(d)
  BY <1>10 DEF AppendSent, AppendIncoming, Advance, files, bounds
<1>11. ASSUME NEW t \in tasks[c], PutKey(c, t)
       PROVE  Domains' /\ Grows /\ \A d \in Clients \ {c} : Keeps(d)
  BY <1>11 DEF PutKey, Advance, files, bounds
<1>12. ASSUME NEW t \in tasks[c], CommitFriend(c, t)
       PROVE  Domains' /\ Grows /\ \A d \in Clients \ {c} : Keeps(d)
  BY <1>12 DEF CommitFriend, files, bounds
<1>13. ASSUME NEW t \in tasks[c], FinishHandler(c, t)
       PROVE  Domains' /\ Grows /\ \A d \in Clients \ {c} : Keeps(d)
  BY <1>13 DEF FinishHandler, PersistClient, memory, bounds
<1>14. ASSUME FinishPersist(c) \/ PersistKeywheel(c) \/ PersistIdle(c)
       PROVE  Domains' /\ Grows /\ \A d \in Clients \ {c} : Keeps(d)
  BY <1>14 DEF FinishPersist, PersistKeywheel, PersistIdle, memory, volatile, bounds
<1>15. ASSUME SaveNewConfig(c)
       PROVE  Domains' /\ Grows /\ \A d \in Clients \ {c} : Keeps(d)
  BY <1>15 DEF SaveNewConfig, PersistLocked, PersistClient, memory, volatile
<1>16. CASE Application(c)
  <2> USE <1>16
  <2>1. CASE \E u \in Clients : SendFriendRequest(c, u)
    BY <1>1, <2>1
  <2>2. CASE \E i \in DOMAIN outgoing[c] : CancelOutgoing(c, i) \/ CancelPanics(c, i)
    BY <1>2, <1>3, <2>2 DEF CancelPanics
  <2>3. CASE \E i \in DOMAIN incoming[c] : Approve(c, i) \/ Reject(c, i)
    BY <1>4, <1>5, <2>3
  <2>4. CASE \E u \in friends[c] : RemoveFriend(c, u)
    BY <1>6, <2>4
  <2>5. QED BY <2>1, <2>2, <2>3, <2>4 DEF Application
<1>17. CASE Handlers(c)
  <2> USE <1>17
  <2>1. CASE \E r \in Rounds : \E last \in DialRounds : sendAddFriendOnion(c, r, last)
    BY <1>7, <2>1
  <2>2. CASE \E r \in Rounds : scanMailbox(c, r)
    BY <1>8, <2>2
  <2>3. CASE \E t \in tasks[c] : \/ MatchSent(c, t) \/ AppendSent(c, t) \/ MatchIncoming(c, t)
                                 \/ AppendIncoming(c, t) \/ PutKey(c, t) \/ CommitFriend(c, t)
                                 \/ FinishHandler(c, t)
    BY <1>9, <1>10, <1>11, <1>12, <1>13, <2>3
  <2>4. CASE FinishPersist(c) \/ PersistKeywheel(c) \/ PersistIdle(c) \/ SaveNewConfig(c)
    BY <1>14, <1>15, <2>4
  <2>5. QED BY <2>1, <2>2, <2>3, <2>4 DEF Handlers
<1>18. CASE Crash(c)
  BY <1>3, <1>18 DEF Crash
<1>19. QED BY <1>16, <1>17, <1>18

\* A client is in order after a step if its memory is: it saves what it has in memory.
LEMMA MemoryInOrder ==
    ASSUME Domains, NEW c \in Clients, InOrder(c), Grows,
           friends'[c] \subseteq Met(c)', incoming'[c] \in Seq(ReceivedBy(c)),
           outgoing'[c] \in Seq(QueuedBy(c)'), sent'[c] \in Seq(SentBy(c)'),
           wheel'[c] \in Wheels(c), tasks'[c] \subseteq Handler(c)',
           PersistClient(c) \/ clientFile'[c] = clientFile[c],
           wheelFile'[c] \in {wheelFile[c], wheel[c]}
    PROVE  InOrder(c)'
<1>1. clientFile'[c] \in Memories(c)'
  <2>1. CASE PersistClient(c)
    <3>1. clientFile'[c] = [friends |-> friends'[c], incoming |-> incoming'[c],
                            outgoing |-> outgoing'[c], sent |-> sent'[c]]
      BY <2>1 DEF PersistClient, Saved, Domains
    <3>2. QED BY <3>1 DEF Memories
  <2>2. CASE clientFile'[c] = clientFile[c]
    BY <2>2, SetsGrow DEF InOrder
  <2>3. QED BY <2>1, <2>2
<1>2. wheelFile'[c] \in Wheels(c)
  BY DEF InOrder
<1>3. QED BY <1>1, <1>2 DEF InOrder

\* The requests of the queues are what their index says.
LEMMA ElementFacts ==
    ASSUME NEW c \in Clients, InOrder(c)
    PROVE  /\ \A i \in DOMAIN incoming[c] : incoming[c][i] \in ReceivedBy(c)
           /\ \A i \in DOMAIN outgoing[c] : outgoing[c][i] \in QueuedBy(c)
           /\ \A i \in DOMAIN sent[c] : sent[c][i] \in SentBy(c)
           /\ \A t \in tasks[c] : t \in Handler(c)
BY DEF InOrder

\* What is in a queue, or is taken out of it, is no nil.
LEMMA NotNil ==
    ASSUME NEW c \in Clients
    PROVE  Nil \notin ReceivedBy(c) /\ Nil \notin SentBy(c)
BY NilAssumption DEF ReceivedBy, SentBy

\* After a restart a client has what it had saved.
LEMMA RestartInOrder ==
    ASSUME Domains, NEW c \in Clients, InOrder(c), Restart(c)
    PROVE  InOrder(c)'
<1>1. Grows
  BY ClientStep DEF Crash
<1> DEFINE saved == clientFile[c].outgoing
           reloaded == [i \in DOMAIN saved |-> [saved[i] EXCEPT !.client = TRUE]]
<1>2. /\ friends'[c] = clientFile[c].friends /\ incoming'[c] = clientFile[c].incoming
      /\ outgoing'[c] = reloaded /\ sent'[c] = clientFile[c].sent
      /\ wheel'[c] = wheelFile[c] /\ tasks'[c] = {}
      /\ clientFile' = clientFile /\ wheelFile' = wheelFile /\ approved' = approved
  BY DEF Restart, Domains
<1>3. clientFile[c] \in Memories(c)'
  BY <1>1, SetsGrow DEF InOrder
<1>4. /\ friends'[c] \subseteq Met(c)' /\ incoming'[c] \in Seq(ReceivedBy(c))
      /\ sent'[c] \in Seq(SentBy(c)') /\ saved \in Seq(QueuedBy(c)')
  BY <1>2, <1>3 DEF Memories
<1>5. outgoing'[c] \in Seq(QueuedBy(c)')
  <2> HIDE DEF saved
  <2>1. ASSUME NEW i \in DOMAIN saved PROVE reloaded[i] \in QueuedBy(c)'
    <3>1. saved[i] \in QueuedBy(c)'
      BY <1>4
    <3>2. [saved[i] EXCEPT !.client = TRUE] \in QueuedBy(c)'
      BY <3>1 DEF QueuedBy, OutgoingRequest
    <3>3. QED BY <3>2
  <2>2. DOMAIN saved = 1 .. Len(saved) /\ Len(saved) \in Nat
    BY <1>4
  <2> HIDE DEF reloaded
  <2>3. DOMAIN reloaded = 1 .. Len(saved) /\ reloaded = [i \in 1 .. Len(saved) |-> reloaded[i]]
    BY <2>2 DEF reloaded
  <2>4. reloaded \in Seq(QueuedBy(c)')
    BY <2>1, <2>2, <2>3
  <2>5. QED BY <1>2, <2>4
<1>6. wheel'[c] \in Wheels(c) /\ tasks'[c] \subseteq Handler(c)'
  BY <1>2 DEF InOrder
<1>7. QED BY <1>1, <1>2, <1>4, <1>5, <1>6, MemoryInOrder

\* The application's calls keep the order.
LEMMA ApplicationInOrder ==
    ASSUME Domains, NEW c \in Clients, InOrder(c), Application(c)
    PROVE  InOrder(c)'
<1>1. Grows
  BY ClientStep
<1>2. /\ friends[c] \subseteq Met(c)' /\ incoming[c] \in Seq(ReceivedBy(c))
      /\ outgoing[c] \in Seq(QueuedBy(c)') /\ sent[c] \in Seq(SentBy(c)')
      /\ wheel[c] \in Wheels(c) /\ tasks[c] \subseteq Handler(c)'
  BY <1>1, SetsGrow DEF InOrder
<1>3. ASSUME NEW u \in Clients, SendFriendRequest(c, u)
      PROVE  InOrder(c)'
  <2> DEFINE out == Outgoing(u, FALSE, 0, TRUE)
  <2>1. /\ friends'[c] = friends[c] /\ incoming'[c] = incoming[c] /\ sent'[c] = sent[c]
        /\ wheel'[c] = wheel[c] /\ tasks'[c] = tasks[c] /\ wheelFile'[c] = wheelFile[c]
        /\ outgoing'[c] = Append(outgoing[c], out)
        /\ PersistClient(c)
    BY <1>3 DEF SendFriendRequest, PersistLocked, volatile, Domains
  <2>2. out \in QueuedBy(c)'
    BY AddFriendAssumption DEF Outgoing, QueuedBy, OutgoingRequest
  <2>3. outgoing'[c] \in Seq(QueuedBy(c)')
    <3> HIDE DEF out
    <3>1. QED BY <1>2, <2>1, <2>2
  <2>4. QED BY <1>1, <1>2, <2>1, <2>3, MemoryInOrder
<1>4. ASSUME NEW i \in DOMAIN outgoing[c], CancelOutgoing(c, i)
      PROVE  InOrder(c)'
  <2>1. /\ friends'[c] = friends[c] /\ incoming'[c] = incoming[c] /\ sent'[c] = sent[c]
        /\ wheel'[c] = wheel[c] /\ tasks'[c] = tasks[c] /\ wheelFile'[c] = wheelFile[c]
        /\ outgoing'[c] = RemoveAt(outgoing[c], i)
        /\ PersistClient(c)
    BY <1>4 DEF CancelOutgoing, PersistLocked, volatile, Domains
  <2>2. outgoing'[c] \in Seq(QueuedBy(c)')
    BY <1>2, <2>1, RemoveAtFacts
  <2>3. QED BY <1>1, <1>2, <2>1, <2>2, MemoryInOrder
<1>5. ASSUME NEW i \in DOMAIN incoming[c], Approve(c, i)
      PROVE  InOrder(c)'
  <2> DEFINE in == incoming[c][i]
             out == Outgoing(in.Username, TRUE, in.DialRound, FALSE)
  <2>1. /\ friends'[c] = friends[c] /\ incoming'[c] = incoming[c] /\ sent'[c] = sent[c]
        /\ wheel'[c] = wheel[c] /\ tasks'[c] = tasks[c] /\ wheelFile'[c] = wheelFile[c]
        /\ outgoing'[c] = Append(outgoing[c], out)
        /\ approved'[c] = approved[c] \cup {in.DH}
        /\ PersistClient(c)
    BY <1>5 DEF Approve, PersistLocked, volatile, Domains
  <2>2. in \in ReceivedBy(c)
    BY ElementFacts
  <2>3. in.DH.owner = in.Username /\ in.Username \in Clients /\ in.DialRound \in DialRounds
    BY <2>2 DEF ReceivedBy, MadeFor, IncomingRequest
  <2> HIDE DEF in
  <2>4. out \in QueuedBy(c)'
    BY <2>1, <2>3 DEF Outgoing, QueuedBy, OutgoingRequest, Agreed
  <2>5. outgoing'[c] \in Seq(QueuedBy(c)')
    <3> HIDE DEF out
    <3>1. QED BY <1>2, <2>1, <2>4
  <2>6. QED BY <1>1, <1>2, <2>1, <2>5, MemoryInOrder
<1>6. ASSUME NEW i \in DOMAIN incoming[c], Reject(c, i)
      PROVE  InOrder(c)'
  <2>1. /\ friends'[c] = friends[c] /\ outgoing'[c] = outgoing[c] /\ sent'[c] = sent[c]
        /\ wheel'[c] = wheel[c] /\ tasks'[c] = tasks[c] /\ wheelFile'[c] = wheelFile[c]
        /\ incoming'[c] = RemoveAt(incoming[c], i)
        /\ PersistClient(c)
    BY <1>6 DEF Reject, PersistLocked, volatile, Domains
  <2>2. incoming'[c] \in Seq(ReceivedBy(c))
    BY <1>2, <2>1, RemoveAtFacts
  <2>3. QED BY <1>1, <1>2, <2>1, <2>2, MemoryInOrder
<1>7. ASSUME NEW u \in friends[c], RemoveFriend(c, u)
      PROVE  InOrder(c)'
  <2>1. /\ friends'[c] = friends[c] \ {u} /\ incoming'[c] = incoming[c]
        /\ outgoing'[c] = outgoing[c] /\ sent'[c] = sent[c]
        /\ wheel'[c] = [x \in DOMAIN wheel[c] \ {u} |-> wheel[c][x]]
        /\ tasks'[c] = tasks[c] /\ wheelFile'[c] = wheelFile[c]
        /\ PersistClient(c)
    BY <1>7 DEF RemoveFriend, PersistLocked, volatile, Domains
  <2>2. wheel'[c] \in Wheels(c)
    <3>1. PICK D \in SUBSET Clients : wheel[c] \in [D -> [Round : DialRounds, Secret : SUBSET KeyPair]]
      BY <1>2 DEF Wheels
    <3>2. wheel'[c] \in [D \ {u} -> [Round : DialRounds, Secret : SUBSET KeyPair]]
      BY <2>1, <3>1
    <3>3. \A x \in DOMAIN wheel'[c] : Mutual(c, x, wheel'[c][x])
      BY <1>2, <2>1 DEF Wheels
    <3>4. QED BY <3>2, <3>3 DEF Wheels
  <2>3. QED BY <1>1, <1>2, <2>1, <2>2, MemoryInOrder
<1>8. ASSUME NEW i \in DOMAIN outgoing[c], CancelPanics(c, i)
      PROVE  Restart(c)
  BY <1>8 DEF CancelPanics
<1>9. Restart(c) \/ InOrder(c)'
  BY <1>3, <1>4, <1>5, <1>6, <1>7, <1>8 DEF Application
<1>10. QED BY <1>9, RestartInOrder

\* The handlers keep the order.
LEMMA HandlersInOrder ==
    ASSUME Domains, NEW c \in Clients, InOrder(c), RoundsInOrder, Handlers(c)
    PROVE  InOrder(c)'
<1>1. Grows
  BY ClientStep
<1>2. /\ friends[c] \subseteq Met(c)' /\ incoming[c] \in Seq(ReceivedBy(c))
      /\ outgoing[c] \in Seq(QueuedBy(c)') /\ sent[c] \in Seq(SentBy(c)')
      /\ wheel[c] \in Wheels(c) /\ tasks[c] \subseteq Handler(c)'
  BY <1>1, SetsGrow DEF InOrder
<1>3. ASSUME NEW r \in Rounds, NEW last \in DialRounds, sendAddFriendOnion(c, r, last)
      PROVE  InOrder(c)'
  <2> DEFINE out == Head(outgoing[c])
             st == genIntro(c, out, last)
             t == Task("send", r, "match", Nil, st)
  <2>1. /\ friends'[c] = friends[c] /\ incoming'[c] = incoming[c] /\ sent'[c] = sent[c]
        /\ wheel'[c] = wheel[c] /\ wheelFile'[c] = wheelFile[c] /\ clientFile'[c] = clientFile[c]
        /\ outgoing[c] # << >> /\ outgoing'[c] = Tail(outgoing[c])
        /\ tasks'[c] = tasks[c] \cup {t} /\ approved' = approved
    BY <1>3 DEF sendAddFriendOnion, files, Domains
  <2>2. out \in QueuedBy(c) /\ outgoing'[c] \in Seq(QueuedBy(c)')
    BY <1>2, <2>1 DEF InOrder
  <2>3. /\ out.Username \in Clients /\ out.DialRound \in DialRounds /\ out.Confirmation \in BOOLEAN
        /\ out.Confirmation => Agreed(c, out.Username)
    <3> HIDE DEF out
    <3>1. QED BY <2>2 DEF QueuedBy, OutgoingRequest
  <2>4. st \in SentBy(c)
    <3>1. nonce[c] \in Nat
      BY DEF RoundsInOrder
    <3> HIDE DEF out
    <3>2. st \in SentRequest /\ st.Username = out.Username /\ st.Confirmation = out.Confirmation
      BY <2>3, <3>1 DEF genIntro, SentRequest, KeyPair
    <3>3. MadeFor(st.DH, c, st.Username, st.DialRound)
      BY DEF genIntro, MadeFor
    <3> HIDE DEF st
    <3>4. QED BY <2>3, <3>2, <3>3 DEF SentBy
  <2>5. t \in Handler(c)
    <3> HIDE DEF st
    <3>1. st # Nil
      BY <2>4, NotNil
    <3>2. QED BY <2>4, <3>1 DEF Task, Handler, Proper
  <2>6. tasks'[c] \subseteq Handler(c)'
    <3> HIDE DEF t
    <3>1. QED BY <1>1, <1>2, <2>1, <2>5, SetsGrow
  <2>7. QED BY <1>1, <1>2, <2>1, <2>2, <2>6, MemoryInOrder
<1>4. ASSUME NEW r \in Rounds, scanMailbox(c, r)
      PROVE  InOrder(c)'
  <2>1. /\ friends'[c] = friends[c] /\ incoming'[c] = incoming[c] /\ outgoing'[c] = outgoing[c]
        /\ sent'[c] = sent[c] /\ wheel'[c] = wheel[c]
        /\ wheelFile'[c] = wheelFile[c] /\ clientFile'[c] = clientFile[c]
        /\ tasks'[c] = tasks[c] \cup {Task("scan", r, "persist", Nil, Nil)}
                                \cup {Task("decode", r, "match", in, Nil) : in \in Mailbox(c, r)}
    BY <1>4 DEF scanMailbox, files, memory, Domains
  <2>2. Task("scan", r, "persist", Nil, Nil) \in Handler(c)
    BY DEF Task, Handler, Proper
  <2>3. ASSUME NEW in \in Mailbox(c, r) PROVE Task("decode", r, "match", in, Nil) \in Handler(c)
    <3>1. in \in ReceivedBy(c)
      BY DEF Mailbox, RoundsInOrder
    <3>2. in # Nil
      BY <3>1, NotNil
    <3>3. QED BY <3>1, <3>2 DEF Task, Handler, Proper
  <2>4. tasks'[c] \subseteq Handler(c)'
    BY <1>1, <1>2, <2>1, <2>2, <2>3, SetsGrow
  <2>5. QED BY <1>1, <1>2, <2>1, <2>4, MemoryInOrder
<1>5. ASSUME NEW t \in tasks[c], MatchSent(c, t)
      PROVE  InOrder(c)'
  <2> DEFINE i == matchToIncoming(c, t.sent)
             t2 == IF i = 0 THEN [t EXCEPT !.pc = "append"]
                   ELSE [t EXCEPT !.pc = "put", !.in = incoming[c][i]]
  <2>1. /\ friends'[c] = friends[c] /\ incoming'[c] = incoming[c] /\ outgoing'[c] = outgoing[c]
        /\ sent'[c] = sent[c] /\ wheel'[c] = wheel[c]
        /\ wheelFile'[c] = wheelFile[c] /\ clientFile'[c] = clientFile[c]
        /\ tasks'[c] = (tasks[c] \ {t}) \cup {t2} /\ t.kind = "send"
    BY <1>5 DEF MatchSent, Advance, files, memory, Domains
  <2>2. t \in Handler(c)
    BY ElementFacts
  <2>3. i # 0 => incoming[c][i] \in ReceivedBy(c) /\ Matches(incoming[c][i], t.sent)
    BY <1>2, ElementFacts, MatchToIncomingFacts
  <2>4. t2 \in Handler(c)
    <3> HIDE DEF i
    <3>1. QED BY <2>1, <2>2, <2>3, NotNil DEF Handler, Proper
  <2>5. tasks'[c] \subseteq Handler(c)'
    <3> HIDE DEF t2
    <3>1. QED BY <1>1, <1>2, <2>1, <2>4, SetsGrow
  <2>6. QED BY <1>1, <1>2, <2>1, <2>5, MemoryInOrder
<1>6. ASSUME NEW t \in tasks[c], MatchIncoming(c, t)
      PROVE  InOrder(c)'
  <2> DEFINE i == matchToSent(c, t.in)
             t2 == IF i = 0 THEN [t EXCEPT !.pc = "append"]
                   ELSE [t EXCEPT !.pc = "put", !.sent = sent[c][i]]
  <2>1. /\ friends'[c] = friends[c] /\ incoming'[c] = incoming[c] /\ outgoing'[c] = outgoing[c]
        /\ sent'[c] = sent[c] /\ wheel'[c] = wheel[c]
        /\ wheelFile'[c] = wheelFile[c] /\ clientFile'[c] = clientFile[c]
        /\ tasks'[c] = (tasks[c] \ {t}) \cup {t2} /\ t.kind = "decode" /\ t.pc = "match"
    BY <1>6 DEF MatchIncoming, Advance, files, memory, Domains
  <2>2. t \in Handler(c)
    BY ElementFacts
  <2>3. i # 0 => sent[c][i] \in SentBy(c) /\ Matches(t.in, sent[c][i])
    <3>1. sent[c] \in Seq(SentBy(c))
      BY DEF InOrder
    <3>2. QED BY <3>1, ElementFacts, MatchToSentFacts
  <2>4. t2 \in Handler(c)
    <3> HIDE DEF i
    <3>1. QED BY <2>1, <2>2, <2>3, NotNil DEF Handler, Proper
  <2>5. tasks'[c] \subseteq Handler(c)'
    <3> HIDE DEF t2
    <3>1. QED BY <1>1, <1>2, <2>1, <2>4, SetsGrow
  <2>6. QED BY <1>1, <1>2, <2>1, <2>5, MemoryInOrder
<1>7. ASSUME NEW t \in tasks[c], AppendSent(c, t)
      PROVE  InOrder(c)'
  <2> DEFINE t2 == [t EXCEPT !.pc = "persist"]
  <2>1. /\ friends'[c] = friends[c] /\ incoming'[c] = incoming[c] /\ outgoing'[c] = outgoing[c]
        /\ wheel'[c] = wheel[c] /\ wheelFile'[c] = wheelFile[c] /\ clientFile'[c] = clientFile[c]
        /\ sent'[c] = Append(sent[c], t.sent)
        /\ tasks'[c] = (tasks[c] \ {t}) \cup {t2} /\ t.kind = "send"
    BY <1>7 DEF AppendSent, Advance, files, Domains
  <2>2. t \in Handler(c)
    BY ElementFacts
  <2>3. t2 \in Handler(c) /\ t.sent \in SentBy(c)
    BY <2>1, <2>2 DEF Handler, Proper
  <2>4. tasks'[c] \subseteq Handler(c)' /\ sent'[c] \in Seq(SentBy(c)')
    <3> HIDE DEF t2
    <3>1. t2 \in Handler(c)' /\ t.sent \in SentBy(c)'
      BY <1>1, <2>3, SetsGrow
    <3>2. QED BY <1>2, <2>1, <3>1
  <2>5. QED BY <1>1, <1>2, <2>1, <2>4, MemoryInOrder
<1>8. ASSUME NEW t \in tasks[c], AppendIncoming(c, t)
      PROVE  InOrder(c)'
  <2>1. /\ friends'[c] = friends[c] /\ outgoing'[c] = outgoing[c] /\ sent'[c] = sent[c]
        /\ wheel'[c] = wheel[c] /\ wheelFile'[c] = wheelFile[c] /\ clientFile'[c] = clientFile[c]
        /\ incoming'[c] = Append(incoming[c], t.in)
        /\ tasks'[c] = tasks[c] \ {t} /\ t.kind = "decode"
    BY <1>8 DEF AppendIncoming, files, Domains
  <2>2. t \in Handler(c)
    BY ElementFacts
  <2>3. t.in \in ReceivedBy(c)
    BY <2>1, <2>2 DEF Handler, Proper
  <2>4. incoming'[c] \in Seq(ReceivedBy(c)) /\ tasks'[c] \subseteq Handler(c)'
    BY <1>2, <2>1, <2>3
  <2>5. QED BY <1>1, <1>2, <2>1, <2>4, MemoryInOrder
<1>9. ASSUME NEW t \in tasks[c], PutKey(c, t)
      PROVE  InOrder(c)'
  <2> DEFINE t2 == [t EXCEPT !.pc = "commit"]
             u == t.in.Username
             entry == [Round |-> t.in.DialRound, Secret |-> {t.in.DH, t.sent.DH}]
  <2>1. /\ friends'[c] = friends[c] /\ incoming'[c] = incoming[c] /\ outgoing'[c] = outgoing[c]
        /\ sent'[c] = sent[c] /\ wheelFile'[c] = wheelFile[c] /\ clientFile'[c] = clientFile[c]
        /\ wheel'[c] = [x \in DOMAIN wheel[c] \cup {u} |-> IF x = u THEN entry ELSE wheel[c][x]]
        /\ tasks'[c] = (tasks[c] \ {t}) \cup {t2} /\ t.pc = "put"
    BY <1>9 DEF PutKey, Advance, files, Domains
  <2>2. t \in Handler(c)
    BY ElementFacts
  <2>3. t2 \in Handler(c)
    BY <2>1, <2>2 DEF Handler, Proper
  <2>4. t.in \in ReceivedBy(c) /\ t.sent \in SentBy(c) /\ Matches(t.in, t.sent)
    BY <2>1, <2>2 DEF Handler, Proper
  <2>5. /\ u \in Clients /\ entry \in [Round : DialRounds, Secret : SUBSET KeyPair]
        /\ Mutual(c, u, entry)
    <3>1. /\ t.in.DH \in KeyPair /\ t.sent.DH \in KeyPair /\ t.in.DialRound \in DialRounds
          /\ u \in Clients
      BY <2>4 DEF ReceivedBy, SentBy, IncomingRequest, SentRequest
    <3>2. /\ MadeFor(t.sent.DH, c, u, entry.Round) /\ MadeFor(t.in.DH, u, c, entry.Round)
          /\ entry.Secret = {t.sent.DH, t.in.DH}
      BY <2>4 DEF ReceivedBy, SentBy, Matches
    <3>3. entry \in [Round : DialRounds, Secret : SUBSET KeyPair]
      BY <3>1
    <3> HIDE DEF entry, u
    <3>4. QED BY <3>1, <3>2, <3>3 DEF Mutual
  <2>6. wheel'[c] \in Wheels(c)
    <3> HIDE DEF entry, u
    <3>1. PICK D \in SUBSET Clients : wheel[c] \in [D -> [Round : DialRounds, Secret : SUBSET KeyPair]]
      BY <1>2 DEF Wheels
    <3>2. wheel'[c] \in [D \cup {u} -> [Round : DialRounds, Secret : SUBSET KeyPair]]
      BY <2>1, <2>5, <3>1
    <3>3. D \cup {u} \in SUBSET Clients
      BY <2>5
    <3>4. ASSUME NEW x \in DOMAIN wheel'[c] PROVE Mutual(c, x, wheel'[c][x])
      <4>1. CASE x = u
        BY <2>1, <2>5, <4>1
      <4>2. CASE x # u
        BY <1>2, <2>1, <4>2 DEF Wheels
      <4>3. QED BY <4>1, <4>2
    <3>5. QED BY <3>2, <3>3, <3>4 DEF Wheels
  <2>7. tasks'[c] \subseteq Handler(c)'
    <3> HIDE DEF t2
    <3>1. QED BY <1>1, <1>2, <2>1, <2>3, SetsGrow
  <2>8. QED BY <1>1, <1>2, <2>1, <2>6, <2>7, MemoryInOrder
<1>10. ASSUME NEW t \in tasks[c], CommitFriend(c, t)
       PROVE  InOrder(c)'
  <2> DEFINE t2 == [t EXCEPT !.pc = "persist"]
             f == [who |-> c, in |-> t.in, sent |-> t.sent]
  <2>1. /\ friends'[c] = friends[c] \cup {t.in.Username} /\ outgoing'[c] = outgoing[c]
        /\ incoming'[c] = Without(incoming[c], t.in)
        /\ sent'[c] = Without(sent[c], t.sent)
        /\ wheel'[c] = wheel[c] /\ wheelFile'[c] = wheelFile[c] /\ clientFile'[c] = clientFile[c]
        /\ tasks'[c] = (tasks[c] \ {t}) \cup IF t.kind = "send" THEN {t2} ELSE {}
        /\ t.pc = "commit" /\ f \in confirmed' /\ approved' = approved
    BY <1>10 DEF CommitFriend, files, bounds, Domains
  <2>2. t \in Handler(c)
    BY ElementFacts
  <2>3. /\ t.in \in ReceivedBy(c) /\ t.sent \in SentBy(c) /\ Matches(t.in, t.sent)
        /\ t.kind = "send" => t2 \in Handler(c)
    BY <2>1, <2>2 DEF Handler, Proper
  <2>4. friends'[c] \subseteq Met(c)'
    <3>1. t.sent \in SentBy(c)' /\ t.in.Username = t.sent.Username
      BY <1>1, <2>3, SetsGrow DEF Matches
    <3>2. f.who = c /\ f.sent = t.sent
      OBVIOUS
    <3> HIDE DEF f
    <3>3. t.in.Username \in Met(c)'
      BY <2>1, <3>1, <3>2 DEF Met
    <3>4. QED BY <1>2, <2>1, <3>3
  <2>5. incoming'[c] \in Seq(ReceivedBy(c)) /\ sent'[c] \in Seq(SentBy(c)')
    BY <1>2, <2>1, WithoutFacts
  <2>6. tasks'[c] \subseteq Handler(c)'
    <3> HIDE DEF t2
    <3>1. QED BY <1>1, <1>2, <2>1, <2>3, SetsGrow
  <2>7. QED BY <1>1, <1>2, <2>1, <2>4, <2>5, <2>6, MemoryInOrder
<1>11. ASSUME NEW t \in tasks[c], FinishHandler(c, t)
       PROVE  InOrder(c)'
  <2>1. /\ friends'[c] = friends[c] /\ incoming'[c] = incoming[c] /\ outgoing'[c] = outgoing[c]
        /\ sent'[c] = sent[c] /\ wheel'[c] = wheel[c] /\ wheelFile'[c] = wheelFile[c]
        /\ tasks'[c] = tasks[c] \ {t} /\ PersistClient(c)
    BY <1>11 DEF FinishHandler, memory, Domains
  <2>2. QED BY <1>1, <1>2, <2>1, MemoryInOrder
<1>12. ASSUME FinishPersist(c) \/ PersistKeywheel(c) \/ PersistIdle(c) \/ SaveNewConfig(c)
       PROVE  InOrder(c)'
  <2>1. /\ friends'[c] = friends[c] /\ incoming'[c] = incoming[c] /\ outgoing'[c] = outgoing[c]
        /\ sent'[c] = sent[c] /\ wheel'[c] = wheel[c] /\ tasks'[c] = tasks[c]
        /\ wheelFile'[c] \in {wheelFile[c], wheel[c]}
    BY <1>12 DEF FinishPersist, PersistKeywheel, PersistIdle, SaveNewConfig, PersistLocked,
                 memory, volatile, Domains
  <2>2. PersistClient(c) \/ clientFile'[c] = clientFile[c]
    <3>1. CASE FinishPersist(c) \/ PersistKeywheel(c)
      BY <3>1 DEF FinishPersist, PersistKeywheel
    <3>2. CASE PersistIdle(c)
      BY <3>2 DEF PersistIdle, PersistClient, Saved, memory
    <3>3. CASE SaveNewConfig(c)
      BY <3>3, Zenon DEF SaveNewConfig, PersistLocked
    <3>4. QED BY <1>12, <3>1, <3>2, <3>3
  <2>3. QED BY <1>1, <1>2, <2>1, <2>2, MemoryInOrder
<1>13. QED BY <1>3, <1>4, <1>5, <1>6, <1>7, <1>8, <1>9, <1>10, <1>11, <1>12 DEF Handlers
-----------------------------------------------------------------------------
(***************************************************************************)
(* The rounds.                                                             *)
(***************************************************************************)

\* At first there are no rounds.
LEMMA InitRounds == Init => RoundsInOrder
BY DEF Init, RoundsInOrder

\* The steps of the service keep the rounds in order, and what the clients hold.
LEMMA ServiceStep ==
    ASSUME Domains, RoundsInOrder, Service
    PROVE  Domains' /\ Grows /\ RoundsInOrder' /\ \A d \in Clients : Keeps(d)
<1>1. ASSUME NEW r \in Rounds, NEW Ready \in SUBSET Clients, OpenRound(r, Ready)
      PROVE  Domains' /\ Grows /\ RoundsInOrder' /\ \A d \in Clients : Keeps(d)
  <2>1. Domains' /\ Grows /\ \A d \in Clients : Keeps(d)
    BY <1>1 DEF OpenRound, memory, files, Domains, Grows, Keeps
  <2>2. /\ mixed' = mixed /\ scanned' = scanned /\ locked' = locked /\ nonce' = nonce
        /\ onions' = onions
    BY <1>1 DEF OpenRound, files
  <2>3. ready' \in [Clients -> SUBSET Rounds]
    BY <1>1 DEF OpenRound, RoundsInOrder
  <2>4. net' \in [Rounds -> {"none", "open", "mixing", "published", "failed"}]
    BY <1>1 DEF OpenRound, RoundsInOrder
  <2>5. RoundsInOrder'
    BY <2>2, <2>3, <2>4 DEF RoundsInOrder
  <2>6. QED BY <2>1, <2>5
<1>2. ASSUME NEW r \in Rounds, PublishRound(r) \/ FailRound(r)
      PROVE  Domains' /\ Grows /\ RoundsInOrder' /\ \A d \in Clients : Keeps(d)
  <2>1. Domains' /\ Grows /\ \A d \in Clients : Keeps(d)
    BY <1>2 DEF PublishRound, FailRound, memory, volatile, files, bounds, Domains, Grows, Keeps
  <2>2. RoundsInOrder'
    BY <1>2 DEF PublishRound, FailRound, volatile, rounds, files, bounds, RoundsInOrder
  <2>3. QED BY <2>1, <2>2
<1>3. QED BY <1>1, <1>2 DEF Service

\* So do the steps of a client; the onion that it sends is for its friend.
LEMMA ClientRounds ==
    ASSUME Domains, NEW c \in Clients, InOrder(c), RoundsInOrder,
           Application(c) \/ Handlers(c) \/ Crash(c)
    PROVE  RoundsInOrder'
<1> USE DEF RoundsInOrder
<1>1. ASSUME NEW u \in Clients, SendFriendRequest(c, u)
      PROVE  RoundsInOrder'
  BY <1>1 DEF SendFriendRequest, PersistLocked, volatile, rounds, service
<1>2. ASSUME NEW i \in DOMAIN outgoing[c], CancelOutgoing(c, i)
      PROVE  RoundsInOrder'
  BY <1>2 DEF CancelOutgoing, PersistLocked, volatile, rounds, service
<1>3. ASSUME Restart(c)
      PROVE  RoundsInOrder'
  BY <1>3 DEF Restart, service
<1>4. ASSUME NEW i \in DOMAIN incoming[c], Approve(c, i)
      PROVE  RoundsInOrder'
  BY <1>4 DEF Approve, PersistLocked, volatile, rounds, service
<1>5. ASSUME NEW i \in DOMAIN incoming[c], Reject(c, i)
      PROVE  RoundsInOrder'
  BY <1>5 DEF Reject, PersistLocked, volatile, rounds, service, bounds
<1>6. ASSUME NEW u \in friends[c], RemoveFriend(c, u)
      PROVE  RoundsInOrder'
  BY <1>6 DEF RemoveFriend, PersistLocked, volatile, rounds, service, bounds
<1>7. ASSUME NEW r \in Rounds, NEW last \in DialRounds, sendAddFriendOnion(c, r, last)
      PROVE  RoundsInOrder'
  <2> DEFINE out == Head(outgoing[c])
             st == genIntro(c, out, last)
             onion == [to |-> st.Username, intro |-> Introduction(c, st)]
  <2>1. /\ ready' = ready /\ mixed' = [mixed EXCEPT ![c] = @ \cup {r}] /\ scanned' = scanned
        /\ locked' = locked /\ net' = net /\ nonce' = [nonce EXCEPT ![c] = @ + 1]
        /\ outgoing[c] # << >>
        /\ onions' = onions \/ onions' = [onions EXCEPT ![r] = @ \cup {onion}]
    BY <1>7 DEF sendAddFriendOnion, files
  <2>2. out \in OutgoingRequest
    <3>1. out \in QueuedBy(c)
      BY <2>1 DEF InOrder
    <3>2. QED BY <3>1 DEF QueuedBy
  <2>3. onion.intro \in ReceivedBy(onion.to)
    <3> HIDE DEF out
    <3>1. /\ st.DH \in KeyPair /\ st.DialRound \in DialRounds
          /\ MadeFor(st.DH, c, st.Username, st.DialRound)
      BY <2>2 DEF genIntro, KeyPair, OutgoingRequest, MadeFor
    <3> HIDE DEF st
    <3>2. onion.intro = [Username |-> c, DH |-> st.DH, DialRound |-> st.DialRound]
          /\ onion.to = st.Username
      BY DEF Introduction
    <3> HIDE DEF onion
    <3>3. onion.intro \in IncomingRequest
      BY <3>1, <3>2 DEF IncomingRequest
    <3>4. MadeFor(onion.intro.DH, onion.intro.Username, onion.to, onion.intro.DialRound)
      BY <3>1, <3>2
    <3>5. QED BY <3>3, <3>4 DEF ReceivedBy
  <2> HIDE DEF onion
  <2>4. DOMAIN onions' = Rounds
    BY <2>1
  <2>5. \A q \in Rounds : \A o \in onions'[q] : o.to \in Clients => o.intro \in ReceivedBy(o.to)
    <3> SUFFICES ASSUME NEW q \in Rounds, NEW o \in onions'[q], o.to \in Clients
                 PROVE  o.intro \in ReceivedBy(o.to)
      OBVIOUS
    <3>1. o \in onions[q] \/ o = onion
      BY <2>1
    <3>2. o \in onions[q] => o.intro \in ReceivedBy(o.to)
      OBVIOUS
    <3>3. o = onion => o.intro \in ReceivedBy(o.to)
      BY <2>3
    <3>4. QED BY <3>1, <3>2, <3>3
  <2>6. mixed' \in [Clients -> SUBSET Rounds] /\ nonce' \in [Clients -> Nat]
    BY <2>1
  <2>7. QED BY <2>1, <2>4, <2>5, <2>6
<1>8. ASSUME NEW r \in Rounds, scanMailbox(c, r)
      PROVE  RoundsInOrder'
  BY <1>8 DEF scanMailbox, files, service, bounds
<1>9. ASSUME NEW t \in tasks[c],
             \/ MatchSent(c, t) \/ MatchIncoming(c, t) \/ AppendSent(c, t) \/ AppendIncoming(c, t)
             \/ PutKey(c, t) \/ CommitFriend(c, t) \/ FinishHandler(c, t)
      PROVE  RoundsInOrder'
  <2>1. /\ ready' = ready /\ mixed' = mixed /\ scanned' = scanned /\ locked' = locked
        /\ net' = net /\ nonce' = nonce /\ onions' = onions
    BY <1>9 DEF MatchSent, MatchIncoming, AppendSent, AppendIncoming, PutKey, CommitFriend,
                FinishHandler, rounds, files, service, bounds
  <2>2. QED BY <2>1
<1>10. ASSUME FinishPersist(c) \/ PersistKeywheel(c) \/ PersistIdle(c) \/ SaveNewConfig(c)
       PROVE  RoundsInOrder'
  <2>1. /\ ready' = ready /\ mixed' = mixed /\ scanned' = scanned
        /\ net' = net /\ nonce' = nonce /\ onions' = onions /\ locked' \subseteq Clients
    BY <1>10 DEF FinishPersist, PersistKeywheel, PersistIdle, SaveNewConfig, PersistLocked,
                 volatile, rounds, files, service, bounds
  <2>2. QED BY <2>1
<1>11. CASE Application(c)
  BY <1>1, <1>2, <1>3, <1>4, <1>5, <1>6, <1>11 DEF Application, CancelPanics
<1>12. CASE Handlers(c)
  BY <1>7, <1>8, <1>9, <1>10, <1>12 DEF Handlers
<1>13. CASE Crash(c)
  BY <1>3, <1>13 DEF Crash
<1>14. QED BY <1>11, <1>12, <1>13
-----------------------------------------------------------------------------
(***************************************************************************)
(* Requests in the outgoing queue.                                         *)
(***************************************************************************)

\* They can be counted.
LEMMA QueueIsFinite ==
    ASSUME NEW S, NEW queue \in Seq(S), NEW u
    PROVE  /\ IsFiniteSet(RequestsTo(queue, u))
           /\ Cardinality(RequestsTo(queue, u)) \in Nat
<1>1. IsFiniteSet(1 .. Len(queue))
  BY FS_Interval
<1>2. RequestsTo(queue, u) \in SUBSET (1 .. Len(queue))
  BY DEF RequestsTo
<1>3. IsFiniteSet(RequestsTo(queue, u))
  BY <1>1, <1>2, FS_Subset
<1>4. QED BY <1>3, FS_CardinalityType

\* One more.
LEMMA CountAppend ==
    ASSUME NEW S, NEW queue \in Seq(S), NEW x \in S, NEW u
    PROVE  Cardinality(RequestsTo(Append(queue, x), u))
             = Cardinality(RequestsTo(queue, u)) + IF x.Username = u /\ ~x.Confirmation THEN 1 ELSE 0
<1> DEFINE new == Append(queue, x)
           n == Len(queue) + 1
<1>1. /\ Len(queue) \in Nat /\ DOMAIN queue = 1 .. Len(queue) /\ DOMAIN new = 1 .. n
      /\ new[n] = x /\ \A i \in 1 .. Len(queue) : new[i] = queue[i]
  OBVIOUS
<1>2. IsFiniteSet(RequestsTo(queue, u)) /\ Cardinality(RequestsTo(queue, u)) \in Nat
  BY QueueIsFinite
<1>3. n \notin RequestsTo(queue, u)
  BY <1>1 DEF RequestsTo
<1> HIDE DEF new
<1>4. \A i : i \in 1 .. n <=> i \in 1 .. Len(queue) \/ i = n
  BY <1>1
<1> HIDE DEF n
<1>5. CASE x.Username = u /\ ~x.Confirmation
  <2>1. RequestsTo(new, u) = RequestsTo(queue, u) \cup {n}
    BY <1>1, <1>4, <1>5 DEF RequestsTo
  <2>2. Cardinality(RequestsTo(queue, u) \cup {n}) = Cardinality(RequestsTo(queue, u)) + 1
    BY <1>2, <1>3, FS_AddElement
  <2>3. QED BY <1>5, <2>1, <2>2 DEF new
<1>6. CASE ~(x.Username = u /\ ~x.Confirmation)
  <2>1. RequestsTo(new, u) = RequestsTo(queue, u)
    BY <1>1, <1>4, <1>6 DEF RequestsTo
  <2>2. QED BY <1>2, <1>6, <2>1 DEF new
<1>7. QED BY <1>5, <1>6

\* One less: those behind it move up.
LEMMA CountLess ==
    ASSUME NEW S, NEW queue \in Seq(S), NEW n \in DOMAIN queue, NEW new,
           DOMAIN new = 1 .. Len(queue) - 1,
           \A i \in 1 .. Len(queue) - 1 : new[i] = IF i < n THEN queue[i] ELSE queue[i + 1],
           NEW u
    PROVE  Cardinality(RequestsTo(new, u))
             = Cardinality(RequestsTo(queue, u))
                 - IF queue[n].Username = u /\ ~queue[n].Confirmation THEN 1 ELSE 0
<1> DEFINE A == RequestsTo(new, u)
           B == RequestsTo(queue, u)
           f == [i \in A |-> IF i < n THEN i ELSE i + 1]
<1>1. Len(queue) \in Nat /\ DOMAIN queue = 1 .. Len(queue) /\ n \in 1 .. Len(queue)
  OBVIOUS
<1>2. IsFiniteSet(B) /\ Cardinality(B) \in Nat
  BY QueueIsFinite
<1>3. f \in Bijection(A, B \ {n})
  <2>1. ASSUME NEW i \in A PROVE f[i] \in B \ {n}
    BY <1>1 DEF RequestsTo
  <2>2. ASSUME NEW i \in A, NEW j \in A, f[i] = f[j] PROVE i = j
    BY <1>1, <2>2 DEF RequestsTo
  <2>3. ASSUME NEW k \in B \ {n} PROVE \E i \in A : f[i] = k
    <3>1. CASE k < n
      <4>1. k \in A
        BY <1>1, <3>1 DEF RequestsTo
      <4>2. QED BY <3>1, <4>1
    <3>2. CASE ~(k < n)
      <4>1. k - 1 \in A /\ ~(k - 1 < n) /\ (k - 1) + 1 = k
        BY <1>1, <3>2 DEF RequestsTo
      <4>2. QED BY <4>1
    <3>3. QED BY <3>1, <3>2
  <2>4. f \in [A -> B \ {n}]
    BY <2>1
  <2> HIDE DEF f, A, B
  <2>5. QED BY <2>2, <2>3, <2>4 DEF Bijection, Injection, Surjection, IsInjective
<1>4. ExistsBijection(B \ {n}, A)
  BY <1>3, Fun_ExistsBijSymmetric DEF ExistsBijection
<1>5. /\ IsFiniteSet(B \ {n})
      /\ Cardinality(B \ {n}) = IF n \in B THEN Cardinality(B) - 1 ELSE Cardinality(B)
  BY <1>2, FS_RemoveElement
<1>6. Cardinality(A) = Cardinality(B \ {n})
  BY <1>4, <1>5, FS_Bijection
<1>7. n \in B <=> queue[n].Username = u /\ ~queue[n].Confirmation
  BY <1>1 DEF RequestsTo
<1> HIDE DEF A, B
<1>8. Cardinality(A) = Cardinality(B) - IF queue[n].Username = u /\ ~queue[n].Confirmation THEN 1 ELSE 0
  BY <1>2, <1>5, <1>6, <1>7
<1>9. QED BY <1>8 DEF A, B

\* A request that is taken from the queue is one less to its user.
LEMMA CountRemoveAt ==
    ASSUME NEW S, NEW queue \in Seq(S), NEW n \in DOMAIN queue, NEW u
    PROVE  Cardinality(RequestsTo(RemoveAt(queue, n), u))
             = Cardinality(RequestsTo(queue, u))
                 - IF queue[n].Username = u /\ ~queue[n].Confirmation THEN 1 ELSE 0
BY RemoveAtFacts, CountLess

\* So it is when the first is taken.
LEMMA CountTail ==
    ASSUME NEW S, NEW queue \in Seq(S), queue # << >>, NEW u
    PROVE  Cardinality(RequestsTo(Tail(queue), u))
             = Cardinality(RequestsTo(queue, u))
                 - IF Head(queue).Username = u /\ ~Head(queue).Confirmation THEN 1 ELSE 0
<1> DEFINE new == Tail(queue)
<1>1. /\ Len(queue) \in Nat /\ 1 \in DOMAIN queue /\ Head(queue) = queue[1]
      /\ DOMAIN new = 1 .. Len(queue) - 1
      /\ \A i \in 1 .. Len(queue) - 1 : new[i] = queue[i + 1]
  OBVIOUS
<1> HIDE DEF new
<1>2. \A i \in 1 .. Len(queue) - 1 : new[i] = IF i < 1 THEN queue[i] ELSE queue[i + 1]
  BY <1>1
<1>3. Cardinality(RequestsTo(new, u))
        = Cardinality(RequestsTo(queue, u))
            - IF queue[1].Username = u /\ ~queue[1].Confirmation THEN 1 ELSE 0
  BY <1>1, <1>2, CountLess
<1>4. QED BY <1>1, <1>3 DEF new
-----------------------------------------------------------------------------
(***************************************************************************)
(* Counting the requests.                                                  *)
(***************************************************************************)

\* What a queue holds when one is added.
LEMMA AppendToSet ==
    ASSUME NEW S, NEW queue \in Seq(S), NEW x \in S
    PROVE  ToSet(Append(queue, x)) = ToSet(queue) \cup {x}
<1> DEFINE q == Append(queue, x)
           n == Len(queue) + 1
<1>1. /\ DOMAIN queue = 1 .. Len(queue) /\ Len(queue) \in Nat
      /\ DOMAIN q = 1 .. n /\ q[n] = x /\ \A i \in 1 .. Len(queue) : q[i] = queue[i]
  OBVIOUS
<1>2. \A i : i \in 1 .. n <=> i \in 1 .. Len(queue) \/ i = n
  BY <1>1
<1> HIDE DEF q, n
<1>3. ToSet(q) = ToSet(queue) \cup {x}
  BY <1>1, <1>2 DEF ToSet
<1>4. QED BY <1>3 DEF q

\* The requests that c knows are the same, and its count goes with the queue.
SameRequests(c) ==
    /\ Known(c)' = Known(c) /\ Settled(c) \subseteq Settled(c)'
    /\ nonce'[c] = nonce[c]
    /\ \A t \in tasks'[c] : t.kind = "send" /\ t.pc = "persist" =>
         t \in tasks[c] \/ t.sent \in Settled(c)'
    /\ \A u \in Clients : \E k \in {-1, 0, 1} :
         /\ asked'[c][u] = asked[c][u] + k
         /\ Cardinality(RequestsTo(outgoing'[c], u)) = Cardinality(RequestsTo(outgoing[c], u)) + k

\* Where the requests are the same, so is their number.
LEMMA SameRequestsCounted ==
    ASSUME NEW c \in Clients, NEW S, outgoing[c] \in Seq(S), Counted(c), SameRequests(c)
    PROVE  Counted(c)'
<1>1. \A u : Made(c, u)' = Made(c, u)
  BY DEF SameRequests, Made
<1>2. \A t \in tasks'[c] : t.kind = "send" /\ t.pc = "persist" => t.sent \in Settled(c)'
  BY DEF SameRequests, Counted
<1>3. \A st \in Known(c)' : st.DH.n \in 0 .. nonce'[c] - 1
  BY DEF SameRequests, Counted
<1>4. ASSUME NEW u \in Clients
      PROVE  /\ IsFiniteSet(Made(c, u)')
             /\ asked'[c][u] = Cardinality(RequestsTo(outgoing'[c], u)) + Cardinality(Made(c, u)')
  <2> DEFINE a == Cardinality(RequestsTo(outgoing[c], u))
             b == Cardinality(Made(c, u))
  <2>1. IsFiniteSet(Made(c, u)) /\ asked[c][u] = a + b
    BY DEF Counted
  <2>2. a \in Nat /\ b \in Nat
    BY <2>1, QueueIsFinite, FS_CardinalityType
  <2>3. PICK k \in {-1, 0, 1} : /\ asked'[c][u] = asked[c][u] + k
                                /\ Cardinality(RequestsTo(outgoing'[c], u)) = a + k
    BY DEF SameRequests
  <2> HIDE DEF a
  <2>4. asked'[c][u] = Cardinality(RequestsTo(outgoing'[c], u)) + b
    <3> HIDE DEF b
    <3>1. QED BY <2>1, <2>2, <2>3
  <2>5. QED BY <1>1, <2>1, <2>4
<1>5. QED BY <1>2, <1>3, <1>4 DEF Counted

\* Nothing of what is counted of d changes.
Uncounted(d) ==
    /\ Keeps(d) /\ Answered(d)' = Answered(d)
    /\ nonce'[d] = nonce[d] /\ asked'[d] = asked[d]

\* A client that does nothing keeps its count.
LEMMA UncountedIsSame ==
    ASSUME NEW d \in Clients, InOrder(d), Counted(d), Uncounted(d)
    PROVE  Counted(d)'
<1>1. Travelling(d)' = Travelling(d) /\ Settled(d)' = Settled(d)
  BY DEF Uncounted, Keeps, Travelling, Settled
<1>2. Known(d)' = Known(d)
  BY <1>1 DEF Known
<1>3. \A u : Made(d, u)' = Made(d, u)
  BY <1>2 DEF Made
<1>4. /\ tasks'[d] = tasks[d] /\ outgoing'[d] = outgoing[d] /\ nonce'[d] = nonce[d]
      /\ asked'[d] = asked[d]
  BY DEF Uncounted, Keeps
<1>5. QED BY <1>1, <1>2, <1>3, <1>4 DEF Counted

\* A handler goes on as T (a mailbox handler may have met its request), and what it
\* leaves is settled.
LEMMA HandlerMoves ==
    ASSUME NEW c \in Clients, NEW t \in tasks[c], NEW T,
           tasks'[c] = (tasks[c] \ {t}) \cup T,
           \A x \in T : x.sent = Nil \/ x.sent \in Known(c),
           t.sent = Nil \/ t.sent \in Settled(c)' \/ \E x \in T : x.sent = t.sent,
           Settled(c) \subseteq Settled(c)', Settled(c)' \subseteq Known(c)
    PROVE  Known(c)' = Known(c)
<1>1. Travelling(c)' \subseteq Known(c)
  BY DEF Travelling, Known
<1>2. Travelling(c) \subseteq Travelling(c)' \cup Settled(c)'
  <2> SUFFICES ASSUME NEW x \in tasks[c], x.sent # Nil
               PROVE  x.sent \in Travelling(c)' \cup Settled(c)'
    BY DEF Travelling
  <2>1. CASE x # t
    BY <2>1 DEF Travelling
  <2>2. CASE x = t
    BY <2>2 DEF Travelling
  <2>3. QED BY <2>1, <2>2
<1>3. QED BY <1>1, <1>2 DEF Known

\* The step of a client counts nothing of the others, and a crash is one.
LEMMA ClientBounds ==
    ASSUME Domains, RequestsCounted, NEW c \in Clients, Application(c) \/ Handlers(c) \/ Crash(c)
    PROVE  /\ \A d \in Clients \ {c} : Uncounted(d)
           /\ DOMAIN asked' = Clients /\ \A d \in Clients : DOMAIN asked'[d] = Clients
           /\ crashes' \in Nat /\ (crashes' = 0 => crashes = 0)
<1> DEFINE Rest == /\ \A d \in Clients \ {c} : nonce'[d] = nonce[d] /\ asked'[d] = asked[d]
                   /\ DOMAIN asked' = Clients /\ \A d \in Clients : DOMAIN asked'[d] = Clients
                   /\ crashes' \in Nat /\ (crashes' = 0 => crashes = 0)
                   /\ \A f \in confirmed' : f \in confirmed \/ f.who = c
<1> USE DEF RequestsCounted
<1>1. ASSUME NEW u \in Clients, SendFriendRequest(c, u) PROVE Rest
  BY <1>1 DEF SendFriendRequest
<1>2. ASSUME NEW i \in DOMAIN outgoing[c], CancelOutgoing(c, i) PROVE Rest
  <2>1. /\ nonce' = nonce /\ crashes' = crashes /\ confirmed' = confirmed
        /\ \/ asked' = asked
           \/ asked' = [asked EXCEPT ![c][outgoing[c][i].Username] = @ - 1]
    BY <1>2 DEF CancelOutgoing
  <2>2. QED BY <2>1
<1>3. ASSUME Restart(c) PROVE Rest
  BY <1>3 DEF Restart
<1>4. ASSUME NEW i \in DOMAIN incoming[c], Approve(c, i) \/ Reject(c, i) PROVE Rest
  BY <1>4 DEF Approve, Reject, bounds
<1>5. ASSUME NEW u \in friends[c], RemoveFriend(c, u) PROVE Rest
  BY <1>5 DEF RemoveFriend, bounds
<1>6. ASSUME NEW r \in Rounds, NEW last \in DialRounds, sendAddFriendOnion(c, r, last) PROVE Rest
  <2>1. /\ nonce' = [nonce EXCEPT ![c] = @ + 1] /\ asked' = asked /\ crashes' = crashes
        /\ confirmed' = confirmed
    BY <1>6 DEF sendAddFriendOnion
  <2>2. QED BY <2>1
<1>7. ASSUME NEW r \in Rounds, scanMailbox(c, r) PROVE Rest
  BY <1>7 DEF scanMailbox, bounds
<1>8. ASSUME NEW t \in tasks[c],
             \/ MatchSent(c, t) \/ MatchIncoming(c, t) \/ AppendSent(c, t) \/ AppendIncoming(c, t)
             \/ PutKey(c, t) \/ FinishHandler(c, t)
      PROVE  Rest
  BY <1>8 DEF MatchSent, MatchIncoming, AppendSent, AppendIncoming, PutKey, FinishHandler, bounds
<1>9. ASSUME NEW t \in tasks[c], CommitFriend(c, t) PROVE Rest
  <2>1. /\ nonce' = nonce /\ asked' = asked /\ crashes' = crashes
        /\ confirmed' = confirmed \cup {[who |-> c, in |-> t.in, sent |-> t.sent]}
    BY <1>9 DEF CommitFriend, bounds
  <2>2. QED BY <2>1
<1>10. ASSUME FinishPersist(c) \/ PersistKeywheel(c) \/ PersistIdle(c) \/ SaveNewConfig(c) PROVE Rest
  BY <1>10 DEF FinishPersist, PersistKeywheel, PersistIdle, SaveNewConfig, bounds
<1> HIDE DEF Rest
<1>11. ASSUME Application(c) PROVE Rest
  BY <1>1, <1>2, <1>3, <1>4, <1>5, <1>11 DEF Application, CancelPanics
<1>12. ASSUME Handlers(c) PROVE Rest
  BY <1>6, <1>7, <1>8, <1>9, <1>10, <1>12 DEF Handlers
<1>13. ASSUME Crash(c) PROVE Rest
  BY <1>3, <1>13 DEF Crash
<1>14. Rest
  BY <1>11, <1>12, <1>13
<1>15. \A d \in Clients \ {c} : Keeps(d) /\ confirmed \subseteq confirmed'
  BY ClientStep DEF Grows
<1>16. \A d \in Clients \ {c} : Answered(d)' = Answered(d)
  BY <1>14, <1>15 DEF Rest, Answered
<1>17. QED BY <1>14, <1>15, <1>16 DEF Rest, Uncounted

\* What a client knows is with its handlers, in the sent queue or confirmed.
LEMMA SameKnown ==
    ASSUME NEW c \in Clients, tasks'[c] = tasks[c], sent'[c] = sent[c], confirmed' = confirmed
    PROVE  Known(c)' = Known(c) /\ Settled(c)' = Settled(c)
BY DEF Known, Settled, Travelling, Answered

\* The application's calls keep the count.
LEMMA ApplicationCounted ==
    ASSUME Domains, NEW c \in Clients, InOrder(c), RoundsInOrder, RequestsCounted,
           Application(c), crashes' = 0
    PROVE  Counted(c)'
<1>1. crashes = 0 /\ Counted(c)
  BY ClientBounds DEF RequestsCounted
<1>2. outgoing[c] \in Seq(QueuedBy(c)) /\ DOMAIN asked = Clients /\ DOMAIN asked[c] = Clients
  BY DEF InOrder, RequestsCounted
<1>3. \A u \in Clients : /\ Cardinality(RequestsTo(outgoing[c], u)) \in Nat
                         /\ asked[c][u] \in Nat
  <2> SUFFICES ASSUME NEW u \in Clients
               PROVE  /\ Cardinality(RequestsTo(outgoing[c], u)) \in Nat
                      /\ asked[c][u] \in Nat
    OBVIOUS
  <2>1. Cardinality(RequestsTo(outgoing[c], u)) \in Nat
    BY <1>2, QueueIsFinite
  <2>2. Cardinality(Made(c, u)) \in Nat
    BY <1>1, FS_CardinalityType DEF Counted
  <2>3. asked[c][u] = Cardinality(RequestsTo(outgoing[c], u)) + Cardinality(Made(c, u))
    BY <1>1 DEF Counted
  <2>4. QED BY <2>1, <2>2, <2>3
<1>4. ASSUME NEW u \in Clients, SendFriendRequest(c, u)
      PROVE  Counted(c)'
  <2> DEFINE out == Outgoing(u, FALSE, 0, TRUE)
  <2>1. /\ tasks'[c] = tasks[c] /\ sent'[c] = sent[c] /\ confirmed' = confirmed
        /\ nonce' = nonce
        /\ outgoing'[c] = Append(outgoing[c], out)
        /\ asked' = [asked EXCEPT ![c][u] = @ + 1]
    BY <1>4 DEF SendFriendRequest, volatile, Domains
  <2>2. out \in QueuedBy(c) /\ out.Username = u /\ ~out.Confirmation
    BY AddFriendAssumption DEF Outgoing, QueuedBy, OutgoingRequest
  <2> HIDE DEF out
  <2>3. ASSUME NEW v \in Clients
        PROVE  \E k \in {-1, 0, 1} :
                 /\ asked'[c][v] = asked[c][v] + k
                 /\ Cardinality(RequestsTo(outgoing'[c], v)) = Cardinality(RequestsTo(outgoing[c], v)) + k
    <3> DEFINE k == IF v = u THEN 1 ELSE 0
    <3>1. Cardinality(RequestsTo(outgoing'[c], v)) = Cardinality(RequestsTo(outgoing[c], v)) + k
      BY <1>2, <2>1, <2>2, CountAppend
    <3>2. asked'[c][v] = asked[c][v] + k
      BY <1>2, <1>3, <2>1
    <3>3. k \in {-1, 0, 1}
      OBVIOUS
    <3> HIDE DEF k
    <3>4. QED BY <3>1, <3>2, <3>3
  <2>4. Known(c)' = Known(c) /\ Settled(c)' = Settled(c)
    BY <2>1, SameKnown
  <2>5. SameRequests(c)
    BY <2>1, <2>3, <2>4 DEF SameRequests
  <2>6. QED BY <1>1, <1>2, <2>5, SameRequestsCounted
<1>5. ASSUME NEW i \in DOMAIN outgoing[c], CancelOutgoing(c, i)
      PROVE  Counted(c)'
  <2> DEFINE out == outgoing[c][i]
  <2>1. /\ tasks'[c] = tasks[c] /\ sent'[c] = sent[c] /\ confirmed' = confirmed
        /\ nonce' = nonce
        /\ outgoing'[c] = RemoveAt(outgoing[c], i)
        /\ asked' = IF out.Confirmation THEN asked ELSE [asked EXCEPT ![c][out.Username] = @ - 1]
    BY <1>5 DEF CancelOutgoing, volatile, Domains
  <2>2. out \in OutgoingRequest
    BY <1>2 DEF QueuedBy
  <2>3. out.Confirmation \in BOOLEAN /\ out.Username \in Clients
    BY <2>2 DEF OutgoingRequest
  <2>4. ASSUME NEW v \in Clients
        PROVE  \E k \in {-1, 0, 1} :
                 /\ asked'[c][v] = asked[c][v] + k
                 /\ Cardinality(RequestsTo(outgoing'[c], v)) = Cardinality(RequestsTo(outgoing[c], v)) + k
    <3> DEFINE k == IF out.Username = v /\ ~out.Confirmation THEN -1 ELSE 0
    <3>1. Cardinality(RequestsTo(outgoing'[c], v)) = Cardinality(RequestsTo(outgoing[c], v)) + k
      <4>1. Cardinality(RequestsTo(RemoveAt(outgoing[c], i), v))
              = Cardinality(RequestsTo(outgoing[c], v))
                  - IF out.Username = v /\ ~out.Confirmation THEN 1 ELSE 0
        BY <1>2, CountRemoveAt
      <4>2. QED BY <1>3, <2>1, <4>1
    <3> HIDE DEF out
    <3>2. asked'[c][v] = asked[c][v] + k
      <4>1. CASE out.Confirmation
        BY <1>3, <2>1, <4>1
      <4>2. CASE ~out.Confirmation
        BY <1>2, <1>3, <2>1, <2>3, <4>2
      <4>3. QED BY <4>1, <4>2
    <3>3. k \in {-1, 0, 1}
      OBVIOUS
    <3> HIDE DEF k
    <3>4. QED BY <3>1, <3>2, <3>3
  <2>5. Known(c)' = Known(c) /\ Settled(c)' = Settled(c)
    BY <2>1, SameKnown
  <2>6. SameRequests(c)
    BY <2>1, <2>4, <2>5 DEF SameRequests
  <2>7. QED BY <1>1, <1>2, <2>6, SameRequestsCounted
<1>6. ASSUME NEW i \in DOMAIN incoming[c], Approve(c, i)
      PROVE  Counted(c)'
  <2> DEFINE in == incoming[c][i]
             out == Outgoing(in.Username, TRUE, in.DialRound, FALSE)
  <2>1. /\ tasks'[c] = tasks[c] /\ sent'[c] = sent[c] /\ confirmed' = confirmed
        /\ nonce' = nonce /\ asked' = asked
        /\ outgoing'[c] = Append(outgoing[c], out)
    BY <1>6 DEF Approve, volatile, Domains
  <2>2. in.Username \in Clients /\ in.DialRound \in DialRounds
    BY ElementFacts DEF ReceivedBy, IncomingRequest
  <2> HIDE DEF in
  <2>3. out \in OutgoingRequest /\ out.Confirmation
    BY <2>2 DEF Outgoing, OutgoingRequest
  <2> HIDE DEF out
  <2>4. outgoing[c] \in Seq(OutgoingRequest)
    BY <1>2 DEF QueuedBy
  <2>5. ASSUME NEW v \in Clients
        PROVE  \E k \in {-1, 0, 1} :
                 /\ asked'[c][v] = asked[c][v] + k
                 /\ Cardinality(RequestsTo(outgoing'[c], v)) = Cardinality(RequestsTo(outgoing[c], v)) + k
    <3>1. Cardinality(RequestsTo(outgoing'[c], v)) = Cardinality(RequestsTo(outgoing[c], v)) + 0
      BY <1>3, <2>1, <2>3, <2>4, CountAppend
    <3>2. asked'[c][v] = asked[c][v] + 0
      BY <1>3, <2>1
    <3>3. QED BY <3>1, <3>2
  <2>6. Known(c)' = Known(c) /\ Settled(c)' = Settled(c)
    BY <2>1, SameKnown
  <2>7. SameRequests(c)
    BY <2>1, <2>5, <2>6 DEF SameRequests
  <2>8. QED BY <1>1, <1>2, <2>7, SameRequestsCounted
<1>7. ASSUME (\E i \in DOMAIN incoming[c] : Reject(c, i)) \/ (\E u \in friends[c] : RemoveFriend(c, u))
      PROVE  Counted(c)'
  <2>1. /\ tasks'[c] = tasks[c] /\ sent'[c] = sent[c] /\ confirmed' = confirmed
        /\ nonce' = nonce /\ asked' = asked /\ outgoing'[c] = outgoing[c]
    BY <1>7 DEF Reject, RemoveFriend, volatile, bounds, Domains
  <2>2. Known(c)' = Known(c) /\ Settled(c)' = Settled(c)
    BY <2>1, SameKnown
  <2>3. SameRequests(c)
    BY <1>3, <2>1, <2>2 DEF SameRequests
  <2>4. QED BY <1>1, <1>2, <2>3, SameRequestsCounted
<1>8. ASSUME NEW i \in DOMAIN outgoing[c], CancelPanics(c, i) PROVE FALSE
  BY <1>1, <1>8 DEF CancelPanics, Restart
<1>9. QED BY <1>4, <1>5, <1>6, <1>7, <1>8 DEF Application

\* The request that goes with an onion leaves the queue for its handler; its key pair is new.
LEMMA OnionCounted ==
    ASSUME Domains, NEW c \in Clients, InOrder(c), RoundsInOrder, Counted(c),
           NEW r \in Rounds, NEW last \in DialRounds, sendAddFriendOnion(c, r, last)
    PROVE  Counted(c)'
<1> DEFINE out == Head(outgoing[c])
           st == genIntro(c, out, last)
           t == Task("send", r, "match", Nil, st)
<1>1. /\ sent' = sent /\ confirmed' = confirmed /\ asked' = asked
      /\ outgoing[c] # << >> /\ outgoing'[c] = Tail(outgoing[c])
      /\ tasks'[c] = tasks[c] \cup {t}
      /\ nonce[c] \in Nat /\ nonce'[c] = nonce[c] + 1
  BY DEF sendAddFriendOnion, Domains, RoundsInOrder
<1>2. out \in QueuedBy(c) /\ outgoing[c] \in Seq(QueuedBy(c))
  BY <1>1 DEF InOrder
<1>3. out \in OutgoingRequest
  BY <1>2 DEF QueuedBy
<1>4. out.Username \in Clients /\ out.Confirmation \in BOOLEAN /\ out.DialRound \in DialRounds
  BY <1>3 DEF OutgoingRequest
<1>5. ASSUME NEW v \in Clients
      PROVE  /\ Cardinality(RequestsTo(outgoing[c], v)) \in Nat
             /\ Cardinality(RequestsTo(outgoing'[c], v))
                  = Cardinality(RequestsTo(outgoing[c], v))
                      - IF out.Username = v /\ ~out.Confirmation THEN 1 ELSE 0
  <2>1. Cardinality(RequestsTo(outgoing[c], v)) \in Nat
    BY <1>2, QueueIsFinite
  <2>2. Cardinality(RequestsTo(Tail(outgoing[c]), v))
          = Cardinality(RequestsTo(outgoing[c], v))
              - IF out.Username = v /\ ~out.Confirmation THEN 1 ELSE 0
    BY <1>1, <1>2, CountTail
  <2> HIDE DEF out
  <2>3. QED BY <1>1, <2>1, <2>2
<1> HIDE DEF out
<1>6. st \in SentRequest /\ st.DH.n = nonce[c]
  BY <1>1, <1>4 DEF genIntro, SentRequest, KeyPair
<1>7. st.Username = out.Username /\ st.Confirmation = out.Confirmation
  BY DEF genIntro
<1> HIDE DEF st
<1>8. st # Nil
  BY <1>6, NilAssumption
<1>9. t.sent = st /\ t.pc = "match"
  BY DEF Task
<1> HIDE DEF t
<1>10. Travelling(c)' = Travelling(c) \cup {st} /\ Settled(c)' = Settled(c)
  BY <1>1, <1>8, <1>9 DEF Travelling, Settled, Answered
<1>11. Known(c)' = Known(c) \cup {st}
  BY <1>10 DEF Known
<1>12. \A x \in Known(c) : x.DH.n \in 0 .. nonce[c] - 1
  BY DEF Counted
<1>13. st \notin Known(c)
  BY <1>1, <1>6, <1>12
<1>14. \A x \in Known(c)' : x.DH.n \in 0 .. nonce'[c] - 1
  BY <1>1, <1>6, <1>11, <1>12
<1>15. \A x \in tasks'[c] : x.kind = "send" /\ x.pc = "persist" => x.sent \in Settled(c)'
  BY <1>1, <1>9, <1>10 DEF Counted
<1>16. ASSUME NEW u \in Clients
       PROVE  /\ IsFiniteSet(Made(c, u)')
              /\ asked'[c][u] = Cardinality(RequestsTo(outgoing'[c], u)) + Cardinality(Made(c, u)')
  <2> DEFINE a == Cardinality(RequestsTo(outgoing[c], u))
             b == Cardinality(RequestsTo(outgoing'[c], u))
             m == Made(c, u)
  <2>1. IsFiniteSet(m) /\ Cardinality(m) \in Nat /\ asked'[c][u] = a + Cardinality(m)
    BY <1>1, FS_CardinalityType DEF Counted
  <2>2. a \in Nat /\ b = a - IF out.Username = u /\ ~out.Confirmation THEN 1 ELSE 0
    BY <1>5
  <2>3. CASE out.Username = u /\ ~out.Confirmation
    <3>1. m' = m \cup {st} /\ st \notin m
      BY <1>7, <1>11, <1>13, <2>3 DEF Made
    <3>2. IsFiniteSet(m') /\ Cardinality(m') = Cardinality(m) + 1
      <4> HIDE DEF m
      <4>1. QED BY <2>1, <3>1, FS_AddElement
    <3> HIDE DEF a, b, m
    <3>3. asked'[c][u] = b + Cardinality(m')
      BY <2>1, <2>2, <2>3, <3>2
    <3>4. QED BY <3>2, <3>3 DEF b, m
  <2>4. CASE ~(out.Username = u /\ ~out.Confirmation)
    <3>1. m' = m
      BY <1>7, <1>11, <2>4 DEF Made
    <3> HIDE DEF a, b, m
    <3>2. IsFiniteSet(m') /\ asked'[c][u] = b + Cardinality(m')
      BY <2>1, <2>2, <2>4, <3>1
    <3>3. QED BY <3>2 DEF b, m
  <2>5. QED BY <2>3, <2>4
<1>17. QED BY <1>14, <1>15, <1>16 DEF Counted

\* The step of a handler that leaves the queue alone: the client knows the same requests.
KnowsTheSame(c) ==
    /\ Known(c)' = Known(c) /\ Settled(c) \subseteq Settled(c)'
    /\ nonce' = nonce /\ asked' = asked /\ outgoing'[c] = outgoing[c]
    /\ \A t \in tasks'[c] : t.kind = "send" /\ t.pc = "persist" =>
         t \in tasks[c] \/ t.sent \in Settled(c)'

\* Such a step keeps the count.
LEMMA KnowsTheSameCounted ==
    ASSUME NEW c \in Clients, InOrder(c), Counted(c), KnowsTheSame(c)
    PROVE  Counted(c)'
<1>1. outgoing[c] \in Seq(QueuedBy(c))
  BY DEF InOrder
<1>2. ASSUME NEW u \in Clients
      PROVE  \E k \in {-1, 0, 1} :
               /\ asked'[c][u] = asked[c][u] + k
               /\ Cardinality(RequestsTo(outgoing'[c], u)) = Cardinality(RequestsTo(outgoing[c], u)) + k
  <2>1. Cardinality(RequestsTo(outgoing[c], u)) \in Nat /\ Cardinality(Made(c, u)) \in Nat
    BY <1>1, QueueIsFinite, FS_CardinalityType DEF Counted
  <2>2. asked[c][u] \in Nat
    BY <2>1 DEF Counted
  <2>3. QED BY <2>1, <2>2 DEF KnowsTheSame
<1>3. SameRequests(c)
  BY <1>2 DEF SameRequests, KnowsTheSame
<1>4. QED BY <1>1, <1>3, SameRequestsCounted

\* All steps of the handlers are of that kind, but the one that sends an onion.
LEMMA HandlersKnow ==
    ASSUME Domains, NEW c \in Clients, InOrder(c), Counted(c), Handlers(c)
    PROVE  \/ KnowsTheSame(c)
           \/ \E r \in Rounds, last \in DialRounds : sendAddFriendOnion(c, r, last)
<1>1. Counted(c)
  OBVIOUS
<1>2. outgoing[c] \in Seq(QueuedBy(c)) /\ sent[c] \in Seq(SentBy(c))
  BY DEF InOrder
<1>3. ASSUME Known(c)' = Known(c), Settled(c) \subseteq Settled(c)', nonce' = nonce, asked' = asked,
             outgoing'[c] = outgoing[c],
             \A t \in tasks'[c] : t.kind = "send" /\ t.pc = "persist" =>
               t \in tasks[c] \/ t.sent \in Settled(c)'
      PROVE  KnowsTheSame(c)
  BY <1>3 DEF KnowsTheSame
<1>5. ASSUME NEW r \in Rounds, scanMailbox(c, r)
      PROVE  KnowsTheSame(c)
  <2> DEFINE new == {Task("scan", r, "persist", Nil, Nil)}
                      \cup {Task("decode", r, "match", in, Nil) : in \in Mailbox(c, r)}
  <2>1. /\ outgoing' = outgoing /\ sent' = sent /\ confirmed' = confirmed
        /\ nonce' = nonce /\ asked' = asked /\ tasks'[c] = tasks[c] \cup new
    BY <1>5 DEF scanMailbox, memory, bounds, Domains
  <2>2. \A x \in new : x.sent = Nil /\ x.kind # "send"
    BY DEF Task
  <2> HIDE DEF new
  <2>3. Settled(c)' = Settled(c) /\ Known(c)' = Known(c)
    BY <2>1, <2>2 DEF Known, Travelling, Settled, Answered
  <2>4. QED BY <1>3, <2>1, <2>2, <2>3
<1>6. ASSUME NEW t \in tasks[c], NEW t2, tasks'[c] = (tasks[c] \ {t}) \cup {t2},
             t2.sent = t.sent \/ (t.sent = Nil /\ t2.sent \in ToSet(sent[c])),
             sent' = sent, confirmed' = confirmed,
             nonce' = nonce, asked' = asked, outgoing' = outgoing,
             ~(t2.kind = "send" /\ t2.pc = "persist")
      PROVE  KnowsTheSame(c)
  <2>1. Settled(c)' = Settled(c)
    BY <1>6 DEF Settled, Answered
  <2>2. t2.sent = Nil \/ t2.sent \in Known(c)
    BY <1>6 DEF Known, Travelling, Settled
  <2>3. Known(c)' = Known(c)
    <3> DEFINE T == {t2}
    <3>1. tasks'[c] = (tasks[c] \ {t}) \cup T
      BY <1>6
    <3>2. \A x \in T : x.sent = Nil \/ x.sent \in Known(c)
      BY <2>2
    <3>3. t.sent = Nil \/ t.sent \in Settled(c)' \/ \E x \in T : x.sent = t.sent
      BY <1>6
    <3>4. Settled(c) \subseteq Settled(c)' /\ Settled(c)' \subseteq Known(c)
      BY <2>1 DEF Known
    <3> HIDE DEF T
    <3>5. QED BY <3>1, <3>2, <3>3, <3>4, HandlerMoves
  <2>4. QED BY <1>3, <1>6, <2>1, <2>3
<1>7. ASSUME NEW t \in tasks[c], MatchSent(c, t)
      PROVE  KnowsTheSame(c)
  <2> DEFINE i == matchToIncoming(c, t.sent)
             t2 == IF i = 0 THEN [t EXCEPT !.pc = "append"]
                   ELSE [t EXCEPT !.pc = "put", !.in = incoming[c][i]]
  <2>1. /\ outgoing' = outgoing /\ sent' = sent /\ confirmed' = confirmed
        /\ nonce' = nonce /\ asked' = asked /\ tasks'[c] = (tasks[c] \ {t}) \cup {t2}
    BY <1>7 DEF MatchSent, Advance, memory, bounds, Domains
  <2>2. t \in Handler(c)
    BY ElementFacts
  <2>3. t2.sent = t.sent /\ t2.pc # "persist"
    <3> HIDE DEF i
    <3>1. QED BY <2>2 DEF Handler
  <2> HIDE DEF t2
  <2>4. QED BY <1>6, <2>1, <2>3
<1>8. ASSUME NEW t \in tasks[c], MatchIncoming(c, t)
      PROVE  KnowsTheSame(c)
  <2> DEFINE i == matchToSent(c, t.in)
             t2 == IF i = 0 THEN [t EXCEPT !.pc = "append"]
                   ELSE [t EXCEPT !.pc = "put", !.sent = sent[c][i]]
  <2>1. /\ outgoing' = outgoing /\ sent' = sent /\ confirmed' = confirmed
        /\ nonce' = nonce /\ asked' = asked /\ tasks'[c] = (tasks[c] \ {t}) \cup {t2}
        /\ t.kind = "decode" /\ t.pc = "match"
    BY <1>8 DEF MatchIncoming, Advance, memory, bounds, Domains
  <2>2. t \in Handler(c)
    BY ElementFacts
  <2>3. t.sent = Nil
    BY <2>1, <2>2 DEF Handler, Proper
  <2>4. i # 0 => sent[c][i] \in ToSet(sent[c])
    <3>1. i # 0 => i \in DOMAIN sent[c]
      BY <1>2, MatchToSentFacts
    <3> HIDE DEF i
    <3>2. QED BY <3>1 DEF ToSet
  <2>5. (t2.sent = t.sent \/ t2.sent \in ToSet(sent[c])) /\ t2.pc # "persist"
    <3> HIDE DEF i
    <3>1. QED BY <2>2, <2>4 DEF Handler
  <2> HIDE DEF t2
  <2>6. QED BY <1>6, <2>1, <2>3, <2>5
<1>9. ASSUME NEW t \in tasks[c], PutKey(c, t)
      PROVE  KnowsTheSame(c)
  <2> DEFINE t2 == [t EXCEPT !.pc = "commit"]
  <2>1. /\ outgoing' = outgoing /\ sent' = sent /\ confirmed' = confirmed
        /\ nonce' = nonce /\ asked' = asked /\ tasks'[c] = (tasks[c] \ {t}) \cup {t2}
    BY <1>9 DEF PutKey, Advance, bounds, Domains
  <2>2. t \in Handler(c)
    BY ElementFacts
  <2>3. t2.sent = t.sent /\ t2.pc # "persist"
    BY <2>2 DEF Handler
  <2> HIDE DEF t2
  <2>4. QED BY <1>6, <2>1, <2>3
<1>10. ASSUME NEW t \in tasks[c], AppendSent(c, t)
       PROVE  KnowsTheSame(c)
  <2> DEFINE t2 == [t EXCEPT !.pc = "persist"]
             T == {t2}
  <2>1. /\ outgoing' = outgoing /\ sent'[c] = Append(sent[c], t.sent) /\ confirmed' = confirmed
        /\ nonce' = nonce /\ asked' = asked /\ tasks'[c] = (tasks[c] \ {t}) \cup T
        /\ t.kind = "send"
    BY <1>10 DEF AppendSent, Advance, bounds, Domains
  <2>2. t \in Handler(c)
    BY ElementFacts
  <2>3. t2.sent = t.sent /\ t.sent \in SentBy(c) /\ t.sent # Nil
    BY <2>1, <2>2 DEF Handler, Proper
  <2>4. ToSet(sent'[c]) = ToSet(sent[c]) \cup {t.sent}
    BY <1>2, <2>1, <2>3, AppendToSet
  <2>5. Settled(c)' = Settled(c) \cup {t.sent}
    BY <2>1, <2>4 DEF Settled, Answered
  <2>6. t.sent \in Known(c)
    BY <2>3 DEF Known, Travelling
  <2>7. \A x \in T : x.sent = t.sent
    BY <2>3
  <2> HIDE DEF T
  <2>8. Known(c)' = Known(c)
    <3>1. Settled(c) \subseteq Settled(c)' /\ Settled(c)' \subseteq Known(c)
      BY <2>5, <2>6 DEF Known
    <3>2. \A x \in T : x.sent = Nil \/ x.sent \in Known(c)
      BY <2>6, <2>7
    <3>3. t.sent = Nil \/ t.sent \in Settled(c)' \/ \E x \in T : x.sent = t.sent
      BY <2>5
    <3>4. QED BY <2>1, <3>1, <3>2, <3>3, HandlerMoves
  <2>9. QED BY <1>3, <2>1, <2>5, <2>7, <2>8
<1>11. ASSUME NEW t \in tasks[c], AppendIncoming(c, t) \/ FinishHandler(c, t)
       PROVE  KnowsTheSame(c)
  <2>1. /\ outgoing' = outgoing /\ sent' = sent /\ confirmed' = confirmed
        /\ nonce' = nonce /\ asked' = asked /\ tasks'[c] = (tasks[c] \ {t}) \cup {}
        /\ (t.kind = "decode" /\ t.pc = "append") \/ t.pc = "persist"
    BY <1>11 DEF AppendIncoming, FinishHandler, memory, bounds, Domains
  <2>2. t \in Handler(c)
    BY ElementFacts
  <2>3. Settled(c)' = Settled(c)
    BY <2>1 DEF Settled, Answered
  <2>4. t.sent = Nil \/ t.sent \in Settled(c)'
    BY <1>1, <2>1, <2>2, <2>3 DEF Handler, Proper, Counted
  <2>5. Known(c)' = Known(c)
    <3>1. Settled(c) \subseteq Settled(c)' /\ Settled(c)' \subseteq Known(c)
      BY <2>3 DEF Known
    <3> DEFINE T == {}
    <3>2. tasks'[c] = (tasks[c] \ {t}) \cup T /\ \A x \in T : x.sent = Nil \/ x.sent \in Known(c)
      BY <2>1
    <3>3. t.sent = Nil \/ t.sent \in Settled(c)' \/ \E x \in T : x.sent = t.sent
      BY <2>4
    <3> HIDE DEF T
    <3>4. QED BY <3>1, <3>2, <3>3, HandlerMoves
  <2>6. QED BY <1>3, <2>1, <2>3, <2>5
<1>12. ASSUME NEW t \in tasks[c], CommitFriend(c, t)
       PROVE  KnowsTheSame(c)
  <2> DEFINE f == [who |-> c, in |-> t.in, sent |-> t.sent]
             t2 == [t EXCEPT !.pc = "persist"]
             T == IF t.kind = "send" THEN {t2} ELSE {}
  <2>1. /\ outgoing' = outgoing /\ sent'[c] = Without(sent[c], t.sent)
        /\ confirmed' = confirmed \cup {f}
        /\ nonce' = nonce /\ asked' = asked /\ tasks'[c] = (tasks[c] \ {t}) \cup T
        /\ t.pc = "commit"
    BY <1>12 DEF CommitFriend, bounds, Domains
  <2>2. t \in Handler(c)
    BY ElementFacts
  <2>3. t2.sent = t.sent /\ t.sent # Nil
    BY <2>1, <2>2 DEF Handler, Proper
  <2>4. ToSet(sent'[c]) = ToSet(sent[c]) \ {t.sent}
    BY <1>2, <2>1, WithoutFacts
  <2>5. f.who = c /\ f.sent = t.sent
    OBVIOUS
  <2> HIDE DEF f
  <2>6. Answered(c)' = Answered(c) \cup {t.sent}
    BY <2>1, <2>5 DEF Answered
  <2>7. Settled(c)' = Settled(c) \cup {t.sent}
    BY <2>4, <2>6 DEF Settled
  <2>8. t.sent \in Known(c)
    BY <2>3 DEF Known, Travelling
  <2>9. \A x \in T : x.sent = t.sent
    BY <2>3
  <2> HIDE DEF T
  <2>10. Known(c)' = Known(c)
    <3>1. Settled(c) \subseteq Settled(c)' /\ Settled(c)' \subseteq Known(c)
      BY <2>7, <2>8 DEF Known
    <3>2. \A x \in T : x.sent = Nil \/ x.sent \in Known(c)
      BY <2>8, <2>9
    <3>3. t.sent = Nil \/ t.sent \in Settled(c)' \/ \E x \in T : x.sent = t.sent
      BY <2>7
    <3>4. QED BY <2>1, <3>1, <3>2, <3>3, HandlerMoves
  <2>11. QED BY <1>3, <2>1, <2>7, <2>9, <2>10
<1>13. ASSUME FinishPersist(c) \/ PersistKeywheel(c) \/ PersistIdle(c) \/ SaveNewConfig(c)
       PROVE  KnowsTheSame(c)
  <2>1. /\ outgoing' = outgoing /\ sent' = sent /\ confirmed' = confirmed /\ tasks' = tasks
        /\ nonce' = nonce /\ asked' = asked
    BY <1>13 DEF FinishPersist, PersistKeywheel, PersistIdle, SaveNewConfig, memory, volatile, bounds
  <2>2. Known(c)' = Known(c) /\ Settled(c)' = Settled(c)
    BY <2>1, SameKnown
  <2>3. QED BY <1>3, <2>1, <2>2
<1>14. QED BY <1>5, <1>7, <1>8, <1>9, <1>10, <1>11, <1>12, <1>13 DEF Handlers

\* The handlers keep the count.
LEMMA HandlersCounted ==
    ASSUME Domains, NEW c \in Clients, InOrder(c), RoundsInOrder, RequestsCounted,
           Handlers(c), crashes' = 0
    PROVE  Counted(c)'
<1>1. Counted(c)
  BY ClientBounds DEF RequestsCounted
<1>2. QED BY <1>1, HandlersKnow, KnowsTheSameCounted, OnionCounted
-----------------------------------------------------------------------------
(***************************************************************************)
(* The invariant, and what it says.                                        *)
(***************************************************************************)

\* At first nothing was asked.
LEMMA InitCounted == Init => RequestsCounted
<1> SUFFICES ASSUME Init PROVE RequestsCounted
  OBVIOUS
<1>1. ASSUME NEW c \in Clients PROVE Counted(c)
  <2>1. /\ outgoing[c] = << >> /\ sent[c] = << >> /\ tasks[c] = {} /\ confirmed = {}
        /\ \A u \in Clients : asked[c][u] = 0
    BY DEF Init
  <2>2. Known(c) = {} /\ \A u : Made(c, u) = {} /\ RequestsTo(outgoing[c], u) = {}
    BY <2>1 DEF Known, Travelling, Settled, Answered, Made, RequestsTo, ToSet
  <2>3. IsFiniteSet({}) /\ Cardinality({}) = 0
    BY FS_EmptySet
  <2>4. ASSUME NEW u \in Clients
        PROVE  /\ IsFiniteSet(Made(c, u))
               /\ asked[c][u] = Cardinality(RequestsTo(outgoing[c], u)) + Cardinality(Made(c, u))
    <3>1. Made(c, u) = {} /\ RequestsTo(outgoing[c], u) = {} /\ asked[c][u] = 0
      BY <2>1, <2>2
    <3>2. QED BY <2>3, <3>1
  <2>5. (\A t \in tasks[c] : FALSE) /\ (\A st \in Known(c) : FALSE)
    BY <2>1, <2>2
  <2>6. QED BY <2>4, <2>5 DEF Counted
<1>2. QED BY <1>1 DEF Init, RequestsCounted

\* The invariant holds at first, and every step keeps it.
LEMMA InductiveInit == Init => IInv
BY InitInOrder, InitRounds, InitCounted DEF IInv

\* Every step of a client or of the service keeps the invariant.
LEMMA InductiveStep == IInv /\ [Next]_vars => IInv'
<1> SUFFICES ASSUME IInv, [Next]_vars PROVE IInv'
  OBVIOUS
<1> USE DEF IInv
<1>1. ASSUME NEW c \in Clients, Application(c) \/ Handlers(c) \/ Crash(c)
      PROVE  IInv'
  <2>1. Domains' /\ Grows /\ \A d \in Clients \ {c} : Keeps(d)
    BY <1>1, ClientStep
  <2>2. InOrder(c)'
    BY <1>1, ApplicationInOrder, HandlersInOrder, RestartInOrder DEF Crash
  <2>3. \A d \in Clients : InOrder(d)'
    BY <2>1, <2>2, KeepsInOrder
  <2>4. RoundsInOrder'
    BY <1>1, ClientRounds
  <2>5. /\ \A d \in Clients \ {c} : Uncounted(d)
        /\ DOMAIN asked' = Clients /\ \A d \in Clients : DOMAIN asked'[d] = Clients
        /\ crashes' \in Nat /\ (crashes' = 0 => crashes = 0)
    BY <1>1, ClientBounds
  <2>6. ASSUME crashes' = 0, NEW d \in Clients PROVE Counted(d)'
    <3>1. CASE d = c
      <4>1. CASE Application(c)
        BY <2>6, <3>1, <4>1, ApplicationCounted
      <4>2. CASE Handlers(c)
        BY <2>6, <3>1, <4>2, HandlersCounted
      <4>3. CASE Crash(c)
        BY <2>6, <4>3 DEF Crash, Restart, RequestsCounted
      <4>4. QED BY <1>1, <4>1, <4>2, <4>3
    <3>2. CASE d # c
      BY <2>5, <2>6, <3>2, UncountedIsSame DEF RequestsCounted
    <3>3. QED BY <3>1, <3>2
  <2>7. RequestsCounted'
    BY <2>5, <2>6 DEF RequestsCounted
  <2>8. QED BY <2>1, <2>3, <2>4, <2>7
<1>2. ASSUME Service PROVE IInv'
  <2>1. Domains' /\ Grows /\ RoundsInOrder' /\ \A d \in Clients : Keeps(d)
    BY <1>2, ServiceStep
  <2>2. \A d \in Clients : InOrder(d)'
    BY <2>1, KeepsInOrder
  <2>3. nonce' = nonce /\ asked' = asked /\ crashes' = crashes /\ confirmed' = confirmed
    BY <1>2 DEF Service, OpenRound, PublishRound, FailRound, bounds
  <2>4. \A d \in Clients : Uncounted(d)
    BY <2>1, <2>3 DEF Uncounted, Answered
  <2>5. crashes = 0 => \A d \in Clients : Counted(d)'
    BY <2>4, UncountedIsSame DEF RequestsCounted
  <2>6. RequestsCounted'
    BY <2>3, <2>5 DEF RequestsCounted
  <2>7. QED BY <2>1, <2>2, <2>6
<1>3. ASSUME UNCHANGED vars PROVE IInv'
  <2> USE <1>3 DEF vars, memory, volatile, rounds, files, service, bounds
  <2>1. Domains' /\ RoundsInOrder' /\ Grows /\ \A d \in Clients : Keeps(d)
    BY DEF Domains, RoundsInOrder, Grows, Keeps
  <2>2. \A d \in Clients : InOrder(d)'
    BY <2>1, KeepsInOrder
  <2>3. nonce' = nonce /\ asked' = asked /\ crashes' = crashes /\ confirmed' = confirmed
    OBVIOUS
  <2>4. \A d \in Clients : Uncounted(d)
    BY <2>1, <2>3 DEF Uncounted, Answered
  <2>5. crashes = 0 => \A d \in Clients : Counted(d)'
    BY <2>4, UncountedIsSame DEF RequestsCounted
  <2>6. RequestsCounted'
    BY <2>3, <2>5 DEF RequestsCounted
  <2>7. QED BY <2>1, <2>2, <2>6
<1>4. QED BY <1>1, <1>2, <1>3 DEF Next

\* What every client holds, in memory and on disk, comes from requests that were made for it.
THEOREM IInvHolds == Spec => []IInv
BY InductiveInit, InductiveStep, PTL DEF Spec

\* Type correctness; a handler that is about to confirm a friend has both requests.
THEOREM TypeCorrect == Spec => []TypeOK
<1>1. ASSUME IInv PROVE TypeOK
  <2>1. ASSUME NEW c \in Clients
        PROVE  /\ friends[c] \in SUBSET Clients
               /\ \A i \in DOMAIN outgoing[c] : outgoing[c][i] \in OutgoingRequest
               /\ \A i \in DOMAIN incoming[c] : incoming[c][i].DialRound \in DialRounds
               /\ DOMAIN wheel[c] \subseteq Clients
               /\ \A t \in tasks[c] : t.pc \in {"put", "commit"} => t.in # Nil /\ t.sent # Nil
    <3>1. InOrder(c)
      BY <1>1 DEF IInv
    <3>2. friends[c] \subseteq Clients
      <4>1. \A st \in SentBy(c) : st.Username \in Clients
        BY DEF SentBy, SentRequest
      <4>2. Met(c) \subseteq Clients
        BY <4>1 DEF Met
      <4>3. QED BY <3>1, <4>2 DEF InOrder
    <3>3. \A i \in DOMAIN outgoing[c] : outgoing[c][i] \in OutgoingRequest
      BY <3>1, ElementFacts DEF QueuedBy
    <3>4. \A i \in DOMAIN incoming[c] : incoming[c][i].DialRound \in DialRounds
      BY <3>1, ElementFacts DEF ReceivedBy, IncomingRequest
    <3>5. DOMAIN wheel[c] \subseteq Clients
      BY <3>1 DEF InOrder, Wheels
    <3>6. \A t \in tasks[c] : t.pc \in {"put", "commit"} => t.in # Nil /\ t.sent # Nil
      BY <3>1, ElementFacts DEF Handler, Proper
    <3>7. QED BY <3>2, <3>3, <3>4, <3>5, <3>6
  <2>2. friends \in [Clients -> SUBSET Clients]
    BY <1>1, <2>1 DEF IInv, Domains
  <2>3. QED BY <1>1, <2>1, <2>2 DEF IInv, RoundsInOrder, TypeOK
<1>2. QED BY <1>1, IInvHolds, PTL

\* A key comes from a key pair of each of the two friends, made for each other and for the
\* dialing round that the key is kept under.
THEOREM KeysAreMutual == Spec => []KeyIsMutual
<1>1. ASSUME IInv PROVE KeyIsMutual
  <2>1. ASSUME NEW c \in Clients, NEW w \in Wheels(c), NEW u \in DOMAIN w
        PROVE  \E mine, theirs \in w[u].Secret :
                 /\ w[u].Secret = {mine, theirs}
                 /\ MadeFor(mine, c, u, w[u].Round)
                 /\ MadeFor(theirs, u, c, w[u].Round)
    BY <2>1 DEF Wheels, Mutual
  <2>2. \A c \in Clients : wheel[c] \in Wheels(c) /\ wheelFile[c] \in Wheels(c)
    BY <1>1 DEF IInv, InOrder
  <2>3. QED BY <2>1, <2>2 DEF KeyIsMutual
<1>2. QED BY <1>1, IInvHolds, PTL

\* Nobody enters an address book, in memory or on disk, unless its owner asked that user or
\* approved a request of theirs.
THEOREM FriendsConsented == Spec => []Consent
<1>1. ASSUME IInv PROVE Consent
  <2> SUFFICES ASSUME NEW c \in Clients, NEW u \in friends[c] \cup clientFile[c].friends
               PROVE  \/ \E f \in confirmed : /\ f.who = c /\ f.sent.Username = u
                                              /\ ~f.sent.Confirmation
                      \/ \E dh \in approved[c] : dh.owner = u
    BY DEF Consent
  <2>1. u \in Met(c)
    BY <1>1 DEF IInv, InOrder, Memories
  <2>2. PICK f \in confirmed : f.who = c /\ f.sent \in SentBy(c) /\ f.sent.Username = u
    BY <2>1 DEF Met
  <2>3. f.sent.Confirmation => Agreed(c, u)
    BY <2>2 DEF SentBy
  <2>4. QED BY <2>2, <2>3 DEF Agreed
<1>2. QED BY <1>1, IInvHolds, PTL

\* Until the process ends, a request that was not cancelled is queued, on its way, waiting for
\* an answer or confirmed, and in one of these places only.
THEOREM RequestsAreConserved == Spec => []RequestConserved
<1>1. ASSUME IInv PROVE RequestConserved
  <2>1. ASSUME NEW c \in Clients, NEW u \in Clients, crashes = 0
        PROVE  asked[c][u] = Cardinality(RequestsTo(outgoing[c], u)) + Cardinality(Made(c, u))
    BY <1>1, <2>1 DEF IInv, RequestsCounted, Counted
  <2>2. \A c \in Clients :
          Known(c) = {t.sent : t \in {x \in tasks[c] : x.sent # Nil}} \cup ToSet(sent[c])
                       \cup {f.sent : f \in {x \in confirmed : x.who = c}}
    BY DEF Known, Travelling, Settled, Answered
  <2>3. QED BY <2>1, <2>2 DEF RequestConserved, Made
<1>2. QED BY <1>1, IInvHolds, PTL

\* Who is about to enter the address book has a key; nobody loses one.
KeyBeforeFriend ==
    crashes = 0 =>
      \A c \in Clients :
        /\ friends[c] \subseteq DOMAIN wheel[c]
        /\ \A t \in tasks[c] : t.pc = "commit" => t.in.Username \in DOMAIN wheel[c]

\* Every step keeps the key of every friend.
LEMMA KeyBeforeFriendStep ==
    ASSUME Removers = {}, IInv, KeyBeforeFriend, [Next]_vars
    PROVE  KeyBeforeFriend'
<1> SUFFICES ASSUME crashes' = 0, NEW d \in Clients
             PROVE  /\ friends'[d] \subseteq DOMAIN wheel'[d]
                    /\ \A t \in tasks'[d] : t.pc = "commit" => t.in.Username \in DOMAIN wheel'[d]
  BY DEF KeyBeforeFriend
<1> DEFINE Has == /\ friends'[d] \subseteq DOMAIN wheel'[d]
                  /\ \A t \in tasks'[d] : t.pc = "commit" => t.in.Username \in DOMAIN wheel'[d]
<1> USE DEF IInv
<1>1. ASSUME crashes = 0, friends'[d] = friends[d], DOMAIN wheel[d] \subseteq DOMAIN wheel'[d],
             \A t \in tasks'[d] : t.pc = "commit" => t \in tasks[d]
      PROVE  Has
  BY <1>1 DEF KeyBeforeFriend
<1>2. ASSUME crashes = 0, Keeps(d) PROVE Has
  BY <1>2 DEF Keeps, KeyBeforeFriend
<1>3. CASE Service
  <2>1. Keeps(d) /\ crashes' = crashes
    BY <1>3, ServiceStep DEF Service, OpenRound, PublishRound, FailRound, bounds
  <2>2. QED BY <1>2, <2>1
<1>4. CASE UNCHANGED vars
  BY <1>2, <1>4 DEF vars, memory, volatile, files, bounds, Keeps
<1>5. ASSUME NEW c \in Clients, Application(c) \/ Handlers(c) \/ Crash(c)
      PROVE  Has
  <2>1. crashes = 0
    BY <1>5, ClientBounds
  <2>2. CASE d # c
    BY <1>2, <1>5, <2>1, <2>2, ClientStep
  <2>3. CASE d = c /\ Application(c)
    <3>1. ASSUME NEW u \in Clients, SendFriendRequest(c, u)
          PROVE  friends' = friends /\ wheel' = wheel /\ tasks' = tasks
      BY <3>1 DEF SendFriendRequest, volatile
    <3>2. ASSUME NEW i \in DOMAIN outgoing[c], CancelOutgoing(c, i)
          PROVE  friends' = friends /\ wheel' = wheel /\ tasks' = tasks
      BY <3>2 DEF CancelOutgoing, volatile
    <3>3. ASSUME NEW i \in DOMAIN outgoing[c], CancelPanics(c, i) PROVE FALSE
      BY <2>1, <3>3 DEF CancelPanics, Restart
    <3>4. ASSUME NEW i \in DOMAIN incoming[c], Approve(c, i) \/ Reject(c, i)
          PROVE  friends' = friends /\ wheel' = wheel /\ tasks' = tasks
      BY <3>4 DEF Approve, Reject, volatile
    <3>5. ASSUME NEW u \in friends[c], RemoveFriend(c, u) PROVE FALSE
      BY <3>5 DEF RemoveFriend
    <3>6. friends' = friends /\ wheel' = wheel /\ tasks' = tasks
      BY <2>3, <3>1, <3>2, <3>3, <3>4, <3>5 DEF Application
    <3>7. QED BY <1>1, <2>1, <3>6
  <2>4. CASE d = c /\ Handlers(c)
    <3> USE <2>1, <2>4
    <3> HIDE DEF Has
    <3>1. ASSUME NEW r \in Rounds, NEW last \in DialRounds, sendAddFriendOnion(c, r, last)
          PROVE  Has
      <4>1. /\ friends' = friends /\ wheel' = wheel
            /\ \A t \in tasks'[d] : t \in tasks[d] \/ t.pc = "match"
        BY <3>1 DEF sendAddFriendOnion, Task, Domains
      <4>2. QED BY <1>1, <4>1
    <3>2. ASSUME NEW r \in Rounds, scanMailbox(c, r)
          PROVE  Has
      <4>1. /\ friends' = friends /\ wheel' = wheel
            /\ \A t \in tasks'[d] : t \in tasks[d] \/ t.pc \in {"match", "persist"}
        BY <3>2 DEF scanMailbox, memory, Task, Domains
      <4>2. QED BY <1>1, <4>1
    <3>3. ASSUME NEW t \in tasks[c], MatchSent(c, t) \/ MatchIncoming(c, t) PROVE Has
      <4> DEFINE i == matchToIncoming(c, t.sent)
                 j == matchToSent(c, t.in)
      <4>1. t \in Handler(c)
        BY ElementFacts
      <4>2. /\ friends' = friends /\ wheel' = wheel
            /\ \/ tasks'[d] = (tasks[d] \ {t}) \cup {[t EXCEPT !.pc = "append"]}
               \/ tasks'[d] = (tasks[d] \ {t}) \cup {[t EXCEPT !.pc = "put", !.in = incoming[c][i]]}
               \/ tasks'[d] = (tasks[d] \ {t}) \cup {[t EXCEPT !.pc = "put", !.sent = sent[c][j]]}
        BY <3>3 DEF MatchSent, MatchIncoming, Advance, memory, Domains
      <4> HIDE DEF i, j
      <4>3. \A x \in tasks'[d] : x \in tasks[d] \/ x.pc \in {"append", "put"}
        BY <4>1, <4>2 DEF Handler
      <4>4. QED BY <1>1, <4>2, <4>3
    <3>4. ASSUME NEW t \in tasks[c], AppendSent(c, t) \/ AppendIncoming(c, t) \/ FinishHandler(c, t)
          PROVE  Has
      <4>1. t \in Handler(c)
        BY ElementFacts
      <4>2. /\ friends' = friends /\ wheel' = wheel
            /\ tasks'[d] \subseteq tasks[d] \cup {[t EXCEPT !.pc = "persist"]}
        BY <3>4 DEF AppendSent, AppendIncoming, FinishHandler, Advance, memory, Domains
      <4>3. \A x \in tasks'[d] : x \in tasks[d] \/ x.pc = "persist"
        BY <4>1, <4>2 DEF Handler
      <4>4. QED BY <1>1, <4>2, <4>3
    <3>5. ASSUME NEW t \in tasks[c], PutKey(c, t) PROVE Has
      <4> DEFINE t2 == [t EXCEPT !.pc = "commit"]
      <4>1. /\ friends' = friends
            /\ DOMAIN wheel'[d] = DOMAIN wheel[d] \cup {t.in.Username}
            /\ tasks'[d] \subseteq tasks[d] \cup {t2}
        BY <3>5 DEF PutKey, Advance, Domains
      <4>2. t \in Handler(c)
        BY ElementFacts
      <4>3. t2.in = t.in
        BY <4>2 DEF Handler
      <4> HIDE DEF t2
      <4>4. QED BY <4>1, <4>3 DEF Has, KeyBeforeFriend
    <3>6. ASSUME NEW t \in tasks[c], CommitFriend(c, t) PROVE Has
      <4> DEFINE t2 == [t EXCEPT !.pc = "persist"]
      <4>1. /\ friends'[d] = friends[d] \cup {t.in.Username} /\ wheel' = wheel
            /\ tasks'[d] \subseteq tasks[d] \cup {t2} /\ t.pc = "commit"
        BY <3>6 DEF CommitFriend, Domains
      <4>2. t \in Handler(c)
        BY ElementFacts
      <4>3. t2.pc = "persist"
        BY <4>2 DEF Handler
      <4> HIDE DEF t2
      <4>4. QED BY <4>1, <4>3 DEF Has, KeyBeforeFriend
    <3>7. ASSUME FinishPersist(c) \/ PersistKeywheel(c) \/ PersistIdle(c) \/ SaveNewConfig(c) PROVE Has
      <4>1. friends' = friends /\ wheel' = wheel /\ tasks' = tasks
        BY <3>7 DEF FinishPersist, PersistKeywheel, PersistIdle, SaveNewConfig, memory, volatile
      <4>2. QED BY <1>1, <4>1
    <3>8. QED BY <3>1, <3>2, <3>3, <3>4, <3>5, <3>6, <3>7 DEF Handlers
  <2>5. CASE Crash(c)
    BY <2>1, <2>5 DEF Crash, Restart
  <2>6. QED BY <1>5, <2>2, <2>3, <2>4, <2>5
<1>6. QED BY <1>3, <1>4, <1>5 DEF Next

\* Until the process ends, and if the application removes nobody, every friend has a key,
\* whatever overlaps.
THEOREM FriendsHaveKeys ==
    ASSUME Removers = {}
    PROVE  Spec => [](crashes = 0 => FriendHasKey)
<1>1. Init => KeyBeforeFriend
  BY DEF Init, KeyBeforeFriend
<1>2. IInv /\ KeyBeforeFriend /\ [Next]_vars => KeyBeforeFriend'
  BY KeyBeforeFriendStep
<1>3. KeyBeforeFriend => (crashes = 0 => FriendHasKey)
  BY DEF KeyBeforeFriend, FriendHasKey
<1>4. QED BY <1>1, <1>2, <1>3, IInvHolds, PTL DEF Spec
-----------------------------------------------------------------------------
(***************************************************************************)
(* The two halves of a pair meet.                                          *)
(***************************************************************************)

\* No received request of in belongs to a request of st that waits for an answer.
NoPair(in, st) == \A x \in ToSet(in), y \in ToSet(st) : ~Matches(x, y)

\* A handler that found no match is about to queue a request for which there still is none.
Pending(c, t) ==
    t.pc = "append" =>
        IF t.kind = "send" THEN \A in \in ToSet(incoming[c]) : ~Matches(in, t.sent)
        ELSE \A st \in ToSet(sent[c]) : ~Matches(t.in, st)

\* The handlers of a client that run at the same time are all of the same direction.
OneDirection(c) == \A t, x \in tasks[c] : t.kind = "send" <=> x.kind = "send"

PairsMeet(c) ==
    /\ NoPair(incoming[c], sent[c])
    /\ NoPair(clientFile[c].incoming, clientFile[c].sent)
    /\ OneDirection(c)
    /\ \A t \in tasks[c] : Pending(c, t)

\* A search that fails leaves no element that would match.
LEMMA NoMatchFacts ==
    ASSUME NEW S, NEW c \in Clients, NEW x
    PROVE  /\ incoming[c] \in Seq(S) /\ matchToIncoming(c, x) = 0 =>
                \A in \in ToSet(incoming[c]) : ~Matches(in, x)
           /\ sent[c] \in Seq(S) /\ matchToSent(c, x) = 0 =>
                \A st \in ToSet(sent[c]) : ~Matches(x, st)
<1>1. ASSUME incoming[c] \in Seq(S), matchToIncoming(c, x) = 0, NEW in \in ToSet(incoming[c])
      PROVE  ~Matches(in, x)
  <2> DEFINE I == {i \in 1 .. Len(incoming[c]) : Matches(incoming[c][i], x)}
  <2>1. matchToIncoming(c, x) = IF I # {} THEN Min(I) ELSE 0
    BY DEF matchToIncoming, SelectInSeq
  <2>2. I \subseteq Nat \ {0} /\ (I # {} => Min(I) \in I)
    <3>1. I \subseteq Nat \ {0}
      OBVIOUS
    <3> HIDE DEF I
    <3>2. QED BY <3>1, MinFacts
  <2>3. PICK i \in DOMAIN incoming[c] : in = incoming[c][i]
    BY <1>1 DEF ToSet
  <2>4. I = {} /\ DOMAIN incoming[c] = 1 .. Len(incoming[c])
    <3> HIDE DEF I
    <3>1. QED BY <1>1, <2>1, <2>2
  <2>5. QED BY <2>3, <2>4
<1>2. ASSUME sent[c] \in Seq(S), matchToSent(c, x) = 0, NEW st \in ToSet(sent[c])
      PROVE  ~Matches(x, st)
  <2> DEFINE I == {i \in 1 .. Len(sent[c]) : Matches(x, sent[c][i])}
  <2>1. matchToSent(c, x) = IF I # {} THEN Min(I) ELSE 0
    BY DEF matchToSent, SelectInSeq
  <2>2. I \subseteq Nat \ {0} /\ (I # {} => Min(I) \in I)
    <3>1. I \subseteq Nat \ {0}
      OBVIOUS
    <3> HIDE DEF I
    <3>2. QED BY <3>1, MinFacts
  <2>3. PICK i \in DOMAIN sent[c] : st = sent[c][i]
    BY <1>2 DEF ToSet
  <2>4. I = {} /\ DOMAIN sent[c] = 1 .. Len(sent[c])
    <3> HIDE DEF I
    <3>1. QED BY <1>2, <2>1, <2>2
  <2>5. QED BY <2>3, <2>4
<1>3. QED BY <1>1, <1>2

\* What RemoveAt leaves was there before.
LEMMA RemoveAtToSet ==
    ASSUME NEW S, NEW queue \in Seq(S), NEW n \in DOMAIN queue
    PROVE  ToSet(RemoveAt(queue, n)) \subseteq ToSet(queue)
<1> DEFINE q == RemoveAt(queue, n)
<1>1. /\ DOMAIN q = 1 .. Len(queue) - 1
      /\ \A i \in 1 .. Len(queue) - 1 : q[i] = IF i < n THEN queue[i] ELSE queue[i + 1]
  BY RemoveAtFacts
<1>2. Len(queue) \in Nat /\ DOMAIN queue = 1 .. Len(queue)
  OBVIOUS
<1> HIDE DEF q
<1>3. \A i \in DOMAIN q : \E j \in DOMAIN queue : q[i] = queue[j]
  BY <1>1, <1>2
<1>4. ToSet(q) \subseteq ToSet(queue)
  BY <1>3 DEF ToSet
<1>5. QED BY <1>4 DEF q

\* What the client saves, if it saves, is what it has.
LEMMA SavesMemory ==
    ASSUME Domains, NEW c \in Clients, PersistClient(c)
    PROVE  clientFile'[c].incoming = incoming'[c] /\ clientFile'[c].sent = sent'[c]
<1>1. clientFile'[c] = [friends |-> friends'[c], incoming |-> incoming'[c],
                        outgoing |-> outgoing'[c], sent |-> sent'[c]]
  BY DEF PersistClient, Saved, Domains
<1>2. QED BY <1>1

\* A step that queues nothing, and after which every handler was there or comes from one of the
\* same direction that has nothing to queue, leaves no pair.
LEMMA PairsKept ==
    ASSUME Domains, NEW c \in Clients, PairsMeet(c),
           ToSet(incoming'[c]) \subseteq ToSet(incoming[c]),
           ToSet(sent'[c]) \subseteq ToSet(sent[c]),
           PersistClient(c) \/ clientFile'[c] = clientFile[c],
           \A t \in tasks'[c] : t \in tasks[c] \/ (/\ t.pc # "append"
                                                   /\ \E x \in tasks[c] : t.kind = x.kind)
    PROVE  PairsMeet(c)'
<1>1. NoPair(incoming[c], sent[c])'
  BY DEF PairsMeet, NoPair
<1>2. NoPair(clientFile[c].incoming, clientFile[c].sent)'
  BY <1>1, SavesMemory DEF PairsMeet
<1>3. OneDirection(c)'
  BY DEF PairsMeet, OneDirection
<1>4. ASSUME NEW t \in tasks'[c] PROVE Pending(c, t)'
  <2>1. CASE t \in tasks[c]
    BY <2>1 DEF PairsMeet, Pending
  <2>2. CASE t.pc # "append"
    BY <2>2 DEF Pending
  <2>3. QED BY <2>1, <2>2
<1>5. QED BY <1>1, <1>2, <1>3, <1>4 DEF PairsMeet

\* A restart loads two queues that were saved together.
LEMMA RestartPairs ==
    ASSUME Domains, NEW c \in Clients, PairsMeet(c), Restart(c)
    PROVE  PairsMeet(c)'
<1>1. /\ incoming'[c] = clientFile[c].incoming /\ sent'[c] = clientFile[c].sent
      /\ tasks'[c] = {} /\ clientFile' = clientFile
  BY DEF Restart, Domains
<1>2. QED BY <1>1 DEF PairsMeet, OneDirection

\* The application's calls queue no received request and none that waits for an answer.
LEMMA ApplicationPairs ==
    ASSUME Domains, NEW c \in Clients, InOrder(c), PairsMeet(c), Application(c)
    PROVE  PairsMeet(c)'
<1> DEFINE Quiet == /\ incoming' = incoming /\ sent' = sent /\ tasks' = tasks
                    /\ PersistClient(c)
<1>1. Quiet => PairsMeet(c)'
  BY PairsKept
<1> HIDE DEF Quiet
<1>2. ASSUME NEW u \in Clients, SendFriendRequest(c, u) PROVE Quiet
  BY <1>2 DEF SendFriendRequest, PersistLocked, volatile, Quiet
<1>3. ASSUME NEW i \in DOMAIN outgoing[c], CancelOutgoing(c, i) PROVE Quiet
  BY <1>3 DEF CancelOutgoing, PersistLocked, volatile, Quiet
<1>4. ASSUME NEW i \in DOMAIN outgoing[c], CancelPanics(c, i) PROVE PairsMeet(c)'
  BY <1>4, RestartPairs DEF CancelPanics
<1>5. ASSUME NEW i \in DOMAIN incoming[c], Approve(c, i) PROVE Quiet
  BY <1>5 DEF Approve, PersistLocked, volatile, Quiet
<1>6. ASSUME NEW i \in DOMAIN incoming[c], Reject(c, i) PROVE PairsMeet(c)'
  <2>1. /\ incoming'[c] = RemoveAt(incoming[c], i) /\ sent' = sent /\ tasks' = tasks
        /\ PersistClient(c)
    BY <1>6 DEF Reject, PersistLocked, volatile, Domains
  <2>2. ToSet(RemoveAt(incoming[c], i)) \subseteq ToSet(incoming[c])
    BY RemoveAtToSet DEF InOrder
  <2>3. QED BY <2>1, <2>2, PairsKept
<1>7. ASSUME NEW u \in friends[c], RemoveFriend(c, u) PROVE Quiet
  BY <1>7 DEF RemoveFriend, PersistLocked, volatile, Quiet
<1>8. QED BY <1>1, <1>2, <1>3, <1>4, <1>5, <1>6, <1>7 DEF Application

\* The handlers keep the pairs apart: the search that found nothing is still true when the
\* request is queued, for the other queue cannot have grown since.
LEMMA HandlersPairs ==
    ASSUME ~Overlap, Domains, NEW c \in Clients, InOrder(c), PairsMeet(c), Handlers(c)
    PROVE  PairsMeet(c)'
<1> HIDE DEF PairsMeet
<1>1. \A t \in tasks[c] : t \in Handler(c)
  BY ElementFacts
<1>2. ASSUME NEW r \in Rounds, NEW last \in DialRounds, sendAddFriendOnion(c, r, last)
      PROVE  PairsMeet(c)'
  <2>1. PICK t : t.kind = "send" /\ t.pc = "match" /\ tasks'[c] = tasks[c] \cup {t}
    <3> DEFINE st == genIntro(c, Head(outgoing[c]), last)
               new == Task("send", r, "match", Nil, st)
    <3>1. tasks'[c] = tasks[c] \cup {new}
      BY <1>2 DEF sendAddFriendOnion, Domains
    <3>2. new.kind = "send" /\ new.pc = "match"
      BY DEF Task
    <3>3. QED BY <3>1, <3>2
  <2>2. /\ incoming' = incoming /\ sent' = sent /\ clientFile' = clientFile
        /\ MayStart(c, {"scan", "decode"})
    BY <1>2 DEF sendAddFriendOnion, files
  <2>3. \A x \in tasks[c] : x.kind = "send"
    BY <1>1, <2>2 DEF MayStart, Handler
  <2>4. OneDirection(c)'
    BY <2>1, <2>3 DEF OneDirection
  <2>5. \A x \in tasks'[c] : Pending(c, x)'
    BY <2>1, <2>2 DEF Pending, PairsMeet
  <2>6. QED BY <2>2, <2>4, <2>5 DEF PairsMeet
<1>3. ASSUME NEW r \in Rounds, scanMailbox(c, r) PROVE PairsMeet(c)'
  <2>1. \A t \in tasks'[c] : t \in tasks[c] \/ (t.kind # "send" /\ t.pc # "append")
    BY <1>3 DEF scanMailbox, Task, Domains
  <2>2. /\ incoming' = incoming /\ sent' = sent /\ clientFile' = clientFile
        /\ MayStart(c, {"send"})
    BY <1>3 DEF scanMailbox, memory, files
  <2>3. \A x \in tasks[c] : x.kind # "send"
    BY <2>2 DEF MayStart
  <2>4. OneDirection(c)'
    BY <2>1, <2>3 DEF OneDirection
  <2>5. \A x \in tasks'[c] : Pending(c, x)'
    BY <2>1, <2>2 DEF Pending, PairsMeet
  <2>6. QED BY <2>2, <2>4, <2>5 DEF PairsMeet
<1>4. ASSUME NEW t \in tasks[c], MatchSent(c, t) PROVE PairsMeet(c)'
  <2> DEFINE i == matchToIncoming(c, t.sent)
             t2 == IF i = 0 THEN [t EXCEPT !.pc = "append"]
                   ELSE [t EXCEPT !.pc = "put", !.in = incoming[c][i]]
  <2>1. /\ incoming' = incoming /\ sent' = sent /\ clientFile' = clientFile
        /\ tasks'[c] = (tasks[c] \ {t}) \cup {t2} /\ t.kind = "send"
    BY <1>4 DEF MatchSent, Advance, memory, files, Domains
  <2>2. t2.kind = "send" /\ t2.sent = t.sent /\ (i # 0 => t2.pc = "put")
    BY <1>1, <2>1 DEF Handler
  <2>3. i = 0 => \A in \in ToSet(incoming[c]) : ~Matches(in, t.sent)
    BY NoMatchFacts DEF InOrder
  <2>4. i = 0 \/ t2.pc # "append"
    BY <2>2
  <2> HIDE DEF i, t2
  <2>5. ASSUME NEW x \in tasks'[c] PROVE Pending(c, x)'
    <3>1. CASE x \in tasks[c]
      BY <2>1, <3>1 DEF Pending, PairsMeet
    <3>2. CASE x = t2
      BY <2>1, <2>2, <2>3, <2>4, <3>2 DEF Pending
    <3>3. QED BY <2>1, <3>1, <3>2
  <2>6. OneDirection(c)'
    BY <2>1, <2>2 DEF OneDirection, PairsMeet
  <2>7. QED BY <2>1, <2>5, <2>6 DEF PairsMeet
<1>5. ASSUME NEW t \in tasks[c], MatchIncoming(c, t) PROVE PairsMeet(c)'
  <2> DEFINE i == matchToSent(c, t.in)
             t2 == IF i = 0 THEN [t EXCEPT !.pc = "append"]
                   ELSE [t EXCEPT !.pc = "put", !.sent = sent[c][i]]
  <2>1. /\ incoming' = incoming /\ sent' = sent /\ clientFile' = clientFile
        /\ tasks'[c] = (tasks[c] \ {t}) \cup {t2} /\ t.kind = "decode"
    BY <1>5 DEF MatchIncoming, Advance, memory, files, Domains
  <2>2. t2.kind = "decode" /\ t2.in = t.in /\ (i # 0 => t2.pc = "put")
    BY <1>1, <2>1 DEF Handler
  <2>3. i = 0 => \A st \in ToSet(sent[c]) : ~Matches(t.in, st)
    BY NoMatchFacts DEF InOrder
  <2>4. i = 0 \/ t2.pc # "append"
    BY <2>2
  <2> HIDE DEF i, t2
  <2>5. ASSUME NEW x \in tasks'[c] PROVE Pending(c, x)'
    <3>1. CASE x \in tasks[c]
      BY <2>1, <3>1 DEF Pending, PairsMeet
    <3>2. CASE x = t2
      BY <2>1, <2>2, <2>3, <2>4, <3>2 DEF Pending
    <3>3. QED BY <2>1, <3>1, <3>2
  <2>6. OneDirection(c)'
    BY <2>1, <2>2 DEF OneDirection, PairsMeet
  <2>7. QED BY <2>1, <2>5, <2>6 DEF PairsMeet
<1>6. ASSUME NEW t \in tasks[c], AppendSent(c, t) PROVE PairsMeet(c)'
  <2> DEFINE t2 == [t EXCEPT !.pc = "persist"]
  <2>1. /\ incoming' = incoming /\ clientFile' = clientFile
        /\ sent'[c] = Append(sent[c], t.sent)
        /\ tasks'[c] = (tasks[c] \ {t}) \cup {t2} /\ t.kind = "send" /\ t.pc = "append"
    BY <1>6 DEF AppendSent, Advance, files, Domains
  <2>2. t2.kind = "send" /\ t2.pc = "persist" /\ t.sent \in SentBy(c)
    BY <1>1, <2>1 DEF Handler, Proper
  <2> HIDE DEF t2
  <2>3. ToSet(sent'[c]) = ToSet(sent[c]) \cup {t.sent}
    BY <2>1, <2>2, AppendToSet DEF InOrder
  <2>4. NoPair(incoming[c], sent[c])'
    BY <2>1, <2>3 DEF PairsMeet, Pending, NoPair
  <2>5. \A x \in tasks'[c] : x.kind = "send"
    BY <2>1, <2>2 DEF PairsMeet, OneDirection
  <2>6. \A x \in tasks'[c] : Pending(c, x)'
    BY <2>1, <2>2, <2>5 DEF PairsMeet, Pending
  <2>7. QED BY <2>1, <2>4, <2>5, <2>6 DEF PairsMeet, OneDirection
<1>7. ASSUME NEW t \in tasks[c], AppendIncoming(c, t) PROVE PairsMeet(c)'
  <2>1. /\ sent' = sent /\ clientFile' = clientFile
        /\ incoming'[c] = Append(incoming[c], t.in)
        /\ tasks'[c] = tasks[c] \ {t} /\ t.kind = "decode" /\ t.pc = "append"
    BY <1>7 DEF AppendIncoming, files, Domains
  <2>2. t.in \in ReceivedBy(c)
    BY <1>1, <2>1 DEF Handler, Proper
  <2>3. ToSet(incoming'[c]) = ToSet(incoming[c]) \cup {t.in}
    BY <2>1, <2>2, AppendToSet DEF InOrder
  <2>4. NoPair(incoming[c], sent[c])'
    BY <2>1, <2>3 DEF PairsMeet, Pending, NoPair
  <2>5. \A x \in tasks'[c] : x.kind # "send"
    BY <2>1 DEF PairsMeet, OneDirection
  <2>6. \A x \in tasks'[c] : Pending(c, x)'
    BY <2>1, <2>5 DEF PairsMeet, Pending
  <2>7. QED BY <2>1, <2>4, <2>5, <2>6 DEF PairsMeet, OneDirection
<1>8. ASSUME NEW t \in tasks[c], PutKey(c, t) PROVE PairsMeet(c)'
  <2> DEFINE t2 == [t EXCEPT !.pc = "commit"]
  <2>1. /\ incoming' = incoming /\ sent' = sent /\ clientFile' = clientFile
        /\ tasks'[c] = (tasks[c] \ {t}) \cup {t2}
    BY <1>8 DEF PutKey, Advance, files, Domains
  <2>2. t2.kind = t.kind /\ t2.pc = "commit"
    BY <1>1 DEF Handler
  <2> HIDE DEF t2
  <2>3. QED BY <2>1, <2>2, PairsKept
<1>9. ASSUME NEW t \in tasks[c], CommitFriend(c, t) PROVE PairsMeet(c)'
  <2> DEFINE t2 == [t EXCEPT !.pc = "persist"]
  <2>1. /\ incoming'[c] = Without(incoming[c], t.in) /\ sent'[c] = Without(sent[c], t.sent)
        /\ clientFile' = clientFile /\ tasks'[c] \subseteq tasks[c] \cup {t2}
    BY <1>9 DEF CommitFriend, files, Domains
  <2>2. t2.kind = t.kind /\ t2.pc = "persist"
    BY <1>1 DEF Handler
  <2> HIDE DEF t2
  <2>3. /\ ToSet(incoming'[c]) \subseteq ToSet(incoming[c])
        /\ ToSet(sent'[c]) \subseteq ToSet(sent[c])
    BY <2>1, WithoutFacts DEF InOrder
  <2>4. QED BY <2>1, <2>2, <2>3, PairsKept
<1>10. ASSUME NEW t \in tasks[c], FinishHandler(c, t) PROVE PairsMeet(c)'
  <2>1. /\ incoming' = incoming /\ sent' = sent /\ PersistClient(c)
        /\ tasks'[c] \subseteq tasks[c]
    BY <1>10 DEF FinishHandler, memory, Domains
  <2>2. QED BY <2>1, PairsKept
<1>11. ASSUME FinishPersist(c) \/ PersistKeywheel(c) \/ PersistIdle(c) \/ SaveNewConfig(c)
       PROVE  PairsMeet(c)'
  <2>1. incoming' = incoming /\ sent' = sent /\ tasks' = tasks
    BY <1>11 DEF FinishPersist, PersistKeywheel, PersistIdle, SaveNewConfig, memory, volatile
  <2>2. PersistClient(c) \/ clientFile' = clientFile
    BY <1>11 DEF FinishPersist, PersistKeywheel, PersistIdle, SaveNewConfig, PersistLocked,
                 PersistClient, Saved, memory
  <2>3. QED BY <2>1, <2>2, PairsKept
<1>12. QED BY <1>2, <1>3, <1>4, <1>5, <1>6, <1>7, <1>8, <1>9, <1>10, <1>11 DEF Handlers

\* Every step lets the handlers see what the others left.
LEMMA PairsStep ==
    ASSUME ~Overlap, IInv, [Next]_vars, NEW d \in Clients, PairsMeet(d)
    PROVE  PairsMeet(d)'
<1> USE DEF IInv
<1>1. Keeps(d) => PairsMeet(d)'
  BY PairsKept DEF Keeps
<1>2. CASE Service
  BY <1>1, <1>2, ServiceStep
<1>3. CASE UNCHANGED vars
  BY <1>1, <1>3 DEF vars, memory, volatile, files, Keeps
<1>4. ASSUME NEW c \in Clients, Application(c) \/ Handlers(c) \/ Crash(c)
      PROVE  PairsMeet(d)'
  <2>1. CASE d # c
    BY <1>1, <1>4, <2>1, ClientStep
  <2>2. CASE d = c
    BY <1>4, <2>2, ApplicationPairs, HandlersPairs, RestartPairs DEF Crash
  <2>3. QED BY <2>1, <2>2
<1>5. QED BY <1>2, <1>3, <1>4 DEF Next

\* What PairsMeet says holds for every client.
AllMeet == \A c \in Clients : PairsMeet(c)

\* If a client's send and mailbox handlers do not overlap, each sees what the other left.
THEOREM PairsAlwaysMeet == ASSUME ~Overlap PROVE Spec => []AllMeet
<1>1. Init => AllMeet
  <2> SUFFICES ASSUME Init, NEW c \in Clients PROVE PairsMeet(c)
    BY DEF AllMeet
  <2>1. incoming[c] = << >> /\ sent[c] = << >> /\ tasks[c] = {} /\ clientFile[c] = Saved(c)
    BY DEF Init
  <2>2. QED BY <2>1 DEF PairsMeet, NoPair, OneDirection, Saved, ToSet
<1>2. IInv /\ AllMeet /\ [Next]_vars => AllMeet'
  BY PairsStep DEF AllMeet
<1>3. QED BY <1>1, <1>2, IInvHolds, PTL DEF Spec

\* If a client's send and mailbox handlers do not overlap, then at rest no received request waits
\* for the application while one that belongs to it waits for an answer: whatever rounds fail or
\* deliver late, whoever crashes, and however many requests cross.
THEOREM NoPairIsStranded == ASSUME ~Overlap PROVE Spec => []NoStrandedPair
<1>1. IInv /\ AllMeet => NoStrandedPair
  BY DEF AllMeet, PairsMeet, NoPair, NoStrandedPair, ToSet
<1>2. QED BY <1>1, IInvHolds, PairsAlwaysMeet, PTL
-----------------------------------------------------------------------------
(***************************************************************************)
(* Friends agree on their key when only one of the two asked.              *)
(***************************************************************************)

\* Of two users at most one asks the other, and only once.
OneAsks == \A a, b \in Clients : Budget[a][b] + Budget[b][a] <= 1

\* c has approved a request that u made for the dialing round dial.
Approved(c, u, dial) == \E dh \in approved[c] : dh.owner = u /\ dh.dial = dial

\* No two confirmations for the same user wait to be sent.
ConfirmsOnce(q) ==
    \A i, j \in DOMAIN q :
        i # j /\ q[i].Confirmation /\ q[j].Confirmation => q[i].Username # q[j].Username

\* c makes at most one request for each user, and who has a request to make never confirms.
AskedOnce(c) ==
    /\ Known(c) \subseteq SentBy(c)
    /\ \A u \in Clients : asked[c][u] <= Budget[c][u]
    /\ \A st1, st2 \in Known(c) : st1.Username = st2.Username => st1 = st2
    /\ \A st \in Known(c) : st.Confirmation => Approved(c, st.Username, st.DialRound)
    /\ \A out \in ToSet(outgoing[c]) : out.Confirmation =>
         /\ Approved(c, out.Username, out.DialRound)
         /\ \A st \in Known(c) : st.Username = out.Username => ~st.Confirmation
    /\ ConfirmsOnce(outgoing[c])
    /\ \A dh \in approved[c] : Budget[c][dh.owner] = 0

\* The introduction in was made for c by the user it names.
Comes(c, in) ==
    \E st \in Known(in.Username) : st.Username = c /\ in = Introduction(in.Username, st)

\* What c has found in its mailboxes.
Seen(c) == UNION {Mailbox(c, r) : r \in scanned[c]}

\* What c approved, was shown and confirmed was made for c, and came in a mailbox.  Who has a
\* request to make is shown none of the same user.
Received(c) ==
    /\ \A dh \in approved[c] : /\ dh.owner \in Clients
                              /\ \E st \in Known(dh.owner) : st.Username = c /\ st.DH = dh
    /\ \A in \in ToSet(incoming[c]) : in \in Seen(c) /\ Budget[c][in.Username] = 0
    /\ \A f \in confirmed : f.who = c => f.in \in Seen(c) /\ f.in.Username = f.sent.Username

\* What a handler holds came in the mailbox that it decodes, and was not confirmed before.
Holds(c, t) ==
    /\ t.in # Nil => t.in \in Seen(c)
    /\ t.kind # "send" => t.sent = Nil \/ t.sent \in Settled(c)
    /\ t.kind = "decode" =>
         /\ t.round \in scanned[c] /\ t.in \in Mailbox(c, t.round)
         /\ t.pc = "append" => Budget[c][t.in.Username] = 0
         /\ \A f \in confirmed : f.who = c => f.in # t.in

\* No introduction is decoded twice.
DecodedOnce(c) ==
    /\ \A t \in tasks[c] : Holds(c, t)
    /\ \A t, x \in tasks[c] : t.kind = "decode" /\ x.kind = "decode" /\ t.in = x.in => t = x

\* An onion carries an introduction that was made for its recipient, in one round only.
OnionsOnce ==
    /\ \A r \in Rounds : \A o \in onions[r] :
         o.to \in Clients /\ o.intro.Username \in Clients /\ Comes(o.to, o.intro)
    /\ \A r1, r2 \in Rounds : \A o1 \in onions[r1], o2 \in onions[r2] :
         o1.intro = o2.intro => r1 = r2

\* The key for u comes from a request of c for u and one of u for c.
KeyFrom(c, u, entry) ==
    \E mine \in Known(c), theirs \in Known(u) :
        /\ mine.Username = u /\ theirs.Username = c /\ mine.DialRound = theirs.DialRound
        /\ entry = [Round |-> mine.DialRound, Secret |-> {theirs.DH, mine.DH}]

KeysFrom(c) == \A u \in DOMAIN wheel[c] : KeyFrom(c, u, wheel[c][u])

InStep(c) == AskedOnce(c) /\ Received(c) /\ DecodedOnce(c) /\ KeysFrom(c)

\* What holds between two users of whom one asked, until a process ends.
OneRequestEach == OnionsOnce /\ \A c \in Clients : InStep(c)

\* What clients know, and what they found, only grows.
MoreKnown ==
    /\ \A c \in Clients : Known(c) \subseteq Known(c)' /\ Settled(c) \subseteq Settled(c)'
    /\ \A c \in Clients : scanned[c] \subseteq scanned'[c]
    /\ \A r \in Rounds : onions[r] \subseteq onions'[r]

\* So do the mailboxes, what was found in them, and what was made for whom.
LEMMA MoreSeen ==
    ASSUME MoreKnown, NEW c \in Clients, scanned[c] \subseteq Rounds
    PROVE  /\ \A r \in Rounds : Mailbox(c, r) \subseteq Mailbox(c, r)'
           /\ Seen(c) \subseteq Seen(c)'
           /\ \A in : in.Username \in Clients /\ Comes(c, in) => Comes(c, in)'
<1>1. \A r \in Rounds : Mailbox(c, r) \subseteq Mailbox(c, r)'
  BY DEF MoreKnown, Mailbox
<1>2. Seen(c) \subseteq Seen(c)'
  BY <1>1 DEF MoreKnown, Seen
<1>3. ASSUME NEW in, in.Username \in Clients, Comes(c, in) PROVE Comes(c, in)'
  BY <1>3 DEF MoreKnown, Comes, Introduction
<1>4. QED BY <1>1, <1>2, <1>3

\* A key keeps coming from the two requests.
LEMMA MoreKeys ==
    ASSUME MoreKnown, NEW c \in Clients, NEW u \in Clients, NEW entry, KeyFrom(c, u, entry)
    PROVE  KeyFrom(c, u, entry)'
BY DEF MoreKnown, KeyFrom

\* What was found in a mailbox was made for its reader by the user it names.
LEMMA SeenComes ==
    ASSUME OnionsOnce, NEW c \in Clients, scanned[c] \subseteq Rounds, NEW in \in Seen(c)
    PROVE  in.Username \in Clients /\ Comes(c, in)
<1>1. PICK r \in scanned[c] : in \in Mailbox(c, r)
  BY DEF Seen
<1>2. PICK o \in onions[r] : o.to = c /\ o.intro = in
  BY <1>1 DEF Mailbox
<1>3. QED BY <1>1, <1>2 DEF OnionsOnce

\* What an introduction says is what its sender keeps.
LEMMA ComesFacts ==
    ASSUME NEW c \in Clients, NEW in, in.Username \in Clients, AskedOnce(in.Username), Comes(c, in)
    PROVE  \E st \in Known(in.Username) :
             /\ st.Username = c /\ in = Introduction(in.Username, st)
             /\ in.DH = st.DH /\ in.DialRound = st.DialRound
             /\ st.DH.owner = in.Username /\ st.DH.dial = st.DialRound
             /\ \A x \in Known(in.Username) : x.Username = c => x = st
<1>1. PICK st \in Known(in.Username) : st.Username = c /\ in = Introduction(in.Username, st)
  BY DEF Comes
<1>2. in.DH = st.DH /\ in.DialRound = st.DialRound
  BY <1>1 DEF Introduction
<1>3. st \in SentBy(in.Username)
  BY <1>1 DEF AskedOnce
<1>4. st.DH.owner = in.Username /\ st.DH.dial = st.DialRound
  BY <1>3 DEF SentBy, MadeFor
<1>5. \A x \in Known(in.Username) : x.Username = c => x = st
  BY <1>1 DEF AskedOnce
<1>6. QED BY <1>1, <1>2, <1>4, <1>5

\* A handler holds what it held, unless it is confirmed.
LEMMA HoldsKept ==
    ASSUME RoundsInOrder, MoreKnown, NEW c \in Clients, NEW t, Holds(c, t),
           \A f \in confirmed' : f.who = c => f \in confirmed \/ t.kind # "decode" \/ f.in # t.in
    PROVE  Holds(c, t)'
<1>1. scanned[c] \subseteq Rounds
  BY DEF RoundsInOrder
<1>2. /\ t.in # Nil => t.in \in Seen(c)'
      /\ t.kind # "send" => t.sent = Nil \/ t.sent \in Settled(c)'
  BY <1>1, MoreSeen DEF Holds, MoreKnown
<1>3. t.kind = "decode" => t.round \in scanned'[c] /\ t.in \in Mailbox(c, t.round)'
  BY <1>1, MoreSeen DEF Holds, MoreKnown
<1>4. QED BY <1>2, <1>3 DEF Holds

\* Where nothing changes, and only one's own confirmations are recorded, all stays in step.
LEMMA StaysInStep ==
    ASSUME RoundsInOrder, MoreKnown, Grows, NEW c \in Clients, InOrder(c), InStep(c), Keeps(c),
           Known(c)' = Known(c), asked'[c] = asked[c], approved'[c] = approved[c],
           \A f \in confirmed' : f.who = c => f \in confirmed
    PROVE  InStep(c)'
<1>1. scanned[c] \subseteq Rounds
  BY DEF RoundsInOrder
<1>2. AskedOnce(c)'
  <2>1. SentBy(c) \subseteq SentBy(c)'
    BY SetsGrow
  <2>2. Known(c)' \subseteq SentBy(c)'
    BY <2>1 DEF InStep, AskedOnce
  <2>3. outgoing'[c] = outgoing[c]
    BY DEF Keeps
  <2>4. QED BY <2>2, <2>3 DEF InStep, AskedOnce, Approved
<1>3. Received(c)'
  <2>1. incoming'[c] = incoming[c]
    BY DEF Keeps
  <2>2. \A dh \in approved'[c] : /\ dh.owner \in Clients
                                 /\ \E st \in Known(dh.owner)' : st.Username = c /\ st.DH = dh
    BY DEF InStep, Received, MoreKnown
  <2>3. QED BY <1>1, <2>1, <2>2, MoreSeen DEF InStep, Received
<1>4. DecodedOnce(c)'
  <2>1. tasks'[c] = tasks[c]
    BY DEF Keeps
  <2>2. \A t \in tasks[c] : Holds(c, t)'
    BY HoldsKept DEF InStep, DecodedOnce
  <2>3. QED BY <2>1, <2>2 DEF InStep, DecodedOnce
<1>5. KeysFrom(c)'
  <2>1. wheel'[c] = wheel[c] /\ DOMAIN wheel[c] \subseteq Clients
    BY DEF Keeps, InOrder, Wheels
  <2>2. QED BY <2>1, MoreKeys DEF InStep, KeysFrom
<1>6. QED BY <1>2, <1>3, <1>4, <1>5 DEF InStep

\* Until a process ends, the application's calls leave the handlers and the requests that wait
\* for an answer alone.
LEMMA ApplicationQuiet ==
    ASSUME NEW c \in Clients, Application(c), crashes = 0, crashes' = 0
    PROVE  tasks' = tasks /\ sent' = sent /\ confirmed' = confirmed
<1>1. ASSUME NEW u \in Clients, SendFriendRequest(c, u)
      PROVE  tasks' = tasks /\ sent' = sent /\ confirmed' = confirmed
  BY <1>1 DEF SendFriendRequest, volatile
<1>2. ASSUME NEW i \in DOMAIN outgoing[c], CancelOutgoing(c, i)
      PROVE  tasks' = tasks /\ sent' = sent /\ confirmed' = confirmed
  BY <1>2 DEF CancelOutgoing, volatile
<1>3. ASSUME NEW i \in DOMAIN outgoing[c], CancelPanics(c, i) PROVE FALSE
  BY <1>3 DEF CancelPanics, Restart
<1>4. ASSUME NEW i \in DOMAIN incoming[c], Approve(c, i) \/ Reject(c, i)
      PROVE  tasks' = tasks /\ sent' = sent /\ confirmed' = confirmed
  BY <1>4 DEF Approve, Reject, volatile
<1>5. ASSUME NEW u \in friends[c], RemoveFriend(c, u)
      PROVE  tasks' = tasks /\ sent' = sent /\ confirmed' = confirmed
  BY <1>5 DEF RemoveFriend, volatile
<1>6. QED BY <1>1, <1>2, <1>3, <1>4, <1>5 DEF Application

\* The step of a client approves, confirms and opens mailboxes for nobody else.
LEMMA LeavesOthers ==
    ASSUME Domains, RoundsInOrder, NEW c \in Clients, Application(c) \/ Handlers(c), crashes = 0,
           crashes' = 0
    PROVE  /\ \A d \in Clients \ {c} : approved'[d] = approved[d]
           /\ \A d \in Clients : scanned[d] \subseteq scanned'[d]
           /\ \A r \in Rounds : onions[r] \subseteq onions'[r]
           /\ \A f \in confirmed' : f \in confirmed \/ f.who = c
<1> DEFINE Rest == /\ \A d \in Clients \ {c} : approved'[d] = approved[d]
                   /\ \A d \in Clients : scanned[d] \subseteq scanned'[d]
                   /\ \A r \in Rounds : onions[r] \subseteq onions'[r]
                   /\ \A f \in confirmed' : f \in confirmed \/ f.who = c
           Same == approved' = approved /\ scanned' = scanned /\ onions' = onions
<1>1. Same /\ confirmed' = confirmed => Rest
  OBVIOUS
<1>2. ASSUME NEW u \in Clients, SendFriendRequest(c, u) PROVE Rest
  BY <1>2 DEF SendFriendRequest, volatile, rounds, service
<1>3. ASSUME NEW i \in DOMAIN outgoing[c], CancelOutgoing(c, i) PROVE Rest
  BY <1>3 DEF CancelOutgoing, volatile, rounds, service
<1>4. ASSUME NEW i \in DOMAIN outgoing[c], CancelPanics(c, i) PROVE FALSE
  BY <1>4 DEF CancelPanics, Restart
<1>5. ASSUME NEW i \in DOMAIN incoming[c], Approve(c, i) PROVE Rest
  BY <1>5 DEF Approve, volatile, rounds, service, Domains
<1>6. ASSUME (\E i \in DOMAIN incoming[c] : Reject(c, i)) \/ (\E u \in friends[c] : RemoveFriend(c, u))
      PROVE  Rest
  BY <1>1, <1>6 DEF Reject, RemoveFriend, volatile, rounds, service, bounds
<1>7. ASSUME NEW r \in Rounds, NEW last \in DialRounds, sendAddFriendOnion(c, r, last) PROVE Rest
  <2>1. approved' = approved /\ scanned' = scanned /\ confirmed' = confirmed
    BY <1>7 DEF sendAddFriendOnion
  <2>2. \A q \in Rounds : onions[q] \subseteq onions'[q]
    BY <1>7 DEF sendAddFriendOnion, RoundsInOrder
  <2>3. QED BY <2>1, <2>2
<1>8. ASSUME NEW r \in Rounds, scanMailbox(c, r) PROVE Rest
  <2>1. approved' = approved /\ onions' = onions /\ confirmed' = confirmed
        /\ scanned' = [scanned EXCEPT ![c] = @ \cup {r}]
    BY <1>8 DEF scanMailbox, service, bounds
  <2>2. \A d \in Clients : scanned[d] \subseteq scanned'[d]
    BY <2>1 DEF RoundsInOrder
  <2>3. QED BY <2>1, <2>2
<1>9. ASSUME NEW t \in tasks[c],
             \/ MatchSent(c, t) \/ MatchIncoming(c, t) \/ AppendSent(c, t) \/ AppendIncoming(c, t)
             \/ PutKey(c, t) \/ FinishHandler(c, t)
      PROVE  Rest
  <2>1. Same /\ confirmed' = confirmed
    BY <1>9 DEF MatchSent, MatchIncoming, AppendSent, AppendIncoming, PutKey, FinishHandler,
                rounds, service, bounds
  <2>2. QED BY <1>1, <2>1
<1>10. ASSUME NEW t \in tasks[c], CommitFriend(c, t) PROVE Rest
  BY <1>10 DEF CommitFriend, rounds, service, bounds
<1>11. ASSUME FinishPersist(c) \/ PersistKeywheel(c) \/ PersistIdle(c) \/ SaveNewConfig(c) PROVE Rest
  BY <1>1, <1>11 DEF FinishPersist, PersistKeywheel, PersistIdle, SaveNewConfig, volatile, rounds,
                     service, bounds
<1> HIDE DEF Rest
<1>12. ASSUME Application(c) PROVE Rest
  BY <1>2, <1>3, <1>4, <1>5, <1>6, <1>12 DEF Application
<1>13. ASSUME Handlers(c) PROVE Rest
  BY <1>7, <1>8, <1>9, <1>10, <1>11, <1>13 DEF Handlers
<1>14. Rest
  BY <1>12, <1>13
<1>15. QED BY <1>14 DEF Rest

\* What sendAddFriendOnion makes of the first request in the queue.
OnionOf(c, r, out, st, t) ==
    /\ st.Username = out.Username /\ st.Confirmation = out.Confirmation
    /\ st.Confirmation => st.DialRound = out.DialRound
    /\ st.DH.n = nonce[c]
    /\ t.kind = "send" /\ t.in = Nil /\ t.sent = st /\ st # Nil
    /\ tasks'[c] = tasks[c] \cup {t}
    /\ Known(c)' = Known(c) \cup {st} /\ Settled(c)' = Settled(c)
    /\ \A q \in Rounds : \A o \in onions'[q] :
         o \in onions[q] \/ (q = r /\ o.to = st.Username /\ o.intro = Introduction(c, st))

\* The request that goes with an onion is new, and is the one that was queued.
LEMMA OnionFacts ==
    ASSUME Domains, NEW c \in Clients, RoundsInOrder, InOrder(c),
           NEW r \in Rounds, NEW last \in DialRounds, sendAddFriendOnion(c, r, last)
    PROVE  \E st, t : OnionOf(c, r, Head(outgoing[c]), st, t)
<1> DEFINE out == Head(outgoing[c])
           st == genIntro(c, out, last)
           t == Task("send", r, "match", Nil, st)
           onion == [to |-> st.Username, intro |-> Introduction(c, st)]
<1>1. /\ sent' = sent /\ confirmed' = confirmed /\ outgoing[c] # << >>
      /\ tasks'[c] = tasks[c] \cup {t}
      /\ onions' = onions \/ onions' = [onions EXCEPT ![r] = @ \cup {onion}]
  BY DEF sendAddFriendOnion, Domains
<1>2. out \in OutgoingRequest
  BY <1>1 DEF InOrder, QueuedBy
<1>3. /\ out.Username \in Clients /\ out.Confirmation \in BOOLEAN /\ out.DialRound \in DialRounds
      /\ nonce[c] \in Nat
  BY <1>2 DEF OutgoingRequest, RoundsInOrder
<1> HIDE DEF out
<1>4. st \in SentRequest
  BY <1>3 DEF genIntro, SentRequest, KeyPair
<1>5. st # Nil
  BY <1>4, NilAssumption
<1>6. /\ st.Username = out.Username /\ st.Confirmation = out.Confirmation /\ st.DH.n = nonce[c]
      /\ st.Confirmation => st.DialRound = out.DialRound
  BY <1>3 DEF genIntro
<1> HIDE DEF st
<1>7. t.kind = "send" /\ t.in = Nil /\ t.sent = st
  BY DEF Task
<1> HIDE DEF t
<1>8. Travelling(c)' = Travelling(c) \cup {st} /\ Settled(c)' = Settled(c)
  BY <1>1, <1>5, <1>7 DEF Travelling, Settled, Answered
<1>9. Known(c)' = Known(c) \cup {st}
  BY <1>8 DEF Known
<1>10. \A q \in Rounds : \A o \in onions'[q] : o \in onions[q] \/ (q = r /\ o = onion)
  BY <1>1 DEF RoundsInOrder
<1>11. onion.to = st.Username /\ onion.intro = Introduction(c, st)
  OBVIOUS
<1> HIDE DEF onion
<1>12. QED BY <1>1, <1>5, <1>6, <1>7, <1>8, <1>9, <1>10, <1>11 DEF OnionOf, out

\* Until a process ends, what clients know only grows; the step of a client is about what it knows.
LEMMA KnowsMore ==
    ASSUME IInv, NEW c \in Clients, Application(c) \/ Handlers(c), crashes' = 0
    PROVE  MoreKnown /\ \A d \in Clients \ {c} : Known(d)' = Known(d)
<1>1. crashes = 0 /\ Counted(c)
  BY ClientBounds DEF IInv, RequestsCounted
<1>2. ASSUME NEW d \in Clients \ {c} PROVE Known(d)' = Known(d) /\ Settled(d)' = Settled(d)
  <2>1. Uncounted(d)
    BY ClientBounds DEF IInv
  <2>2. Travelling(d)' = Travelling(d) /\ Settled(d)' = Settled(d)
    BY <2>1 DEF Uncounted, Keeps, Travelling, Settled
  <2>3. QED BY <2>2 DEF Known
<1>3. Known(c) \subseteq Known(c)' /\ Settled(c) \subseteq Settled(c)'
  <2>1. CASE Application(c)
    <3>1. tasks' = tasks /\ sent' = sent /\ confirmed' = confirmed
      BY <1>1, <2>1, ApplicationQuiet
    <3>2. QED BY <3>1, SameKnown
  <2>2. CASE KnowsTheSame(c)
    BY <2>2 DEF KnowsTheSame
  <2>3. ASSUME NEW r \in Rounds, NEW last \in DialRounds, sendAddFriendOnion(c, r, last)
        PROVE  Known(c) \subseteq Known(c)' /\ Settled(c) \subseteq Settled(c)'
    BY <2>3, OnionFacts DEF OnionOf, IInv
  <2>4. QED BY <1>1, <2>1, <2>2, <2>3, HandlersKnow DEF IInv
<1>4. QED BY <1>1, <1>2, <1>3, LeavesOthers DEF MoreKnown, IInv

\* What is left of the queue, or added to it, confirms nothing twice.
LEMMA ConfirmsLess ==
    ASSUME NEW S, NEW queue \in Seq(S), ConfirmsOnce(queue), NEW n \in DOMAIN queue
    PROVE  ConfirmsOnce(RemoveAt(queue, n))
<1> DEFINE q == RemoveAt(queue, n)
<1>1. /\ DOMAIN q = 1 .. Len(queue) - 1
      /\ \A i \in 1 .. Len(queue) - 1 : q[i] = IF i < n THEN queue[i] ELSE queue[i + 1]
  BY RemoveAtFacts
<1>2. Len(queue) \in Nat /\ DOMAIN queue = 1 .. Len(queue)
  OBVIOUS
<1> HIDE DEF q
<1>3. ConfirmsOnce(q)
  <2> SUFFICES ASSUME NEW i \in DOMAIN q, NEW j \in DOMAIN q, i # j,
                      q[i].Confirmation, q[j].Confirmation
               PROVE  q[i].Username # q[j].Username
    BY DEF ConfirmsOnce
  <2> DEFINE k == IF i < n THEN i ELSE i + 1
             l == IF j < n THEN j ELSE j + 1
  <2>1. k \in DOMAIN queue /\ l \in DOMAIN queue /\ k # l
    BY <1>1, <1>2
  <2>2. q[i] = queue[k] /\ q[j] = queue[l]
    BY <1>1, <1>2
  <2> HIDE DEF k, l
  <2>3. QED BY <2>1, <2>2 DEF ConfirmsOnce
<1>4. QED BY <1>3 DEF q

\* When the first of a queue is taken, nobody else there confirms for the same user.
LEMMA ConfirmsTail ==
    ASSUME NEW S, NEW queue \in Seq(S), ConfirmsOnce(queue), queue # << >>
    PROVE  /\ Head(queue) \in ToSet(queue)
           /\ ToSet(Tail(queue)) \subseteq ToSet(queue)
           /\ ConfirmsOnce(Tail(queue))
           /\ Head(queue).Confirmation =>
                \A x \in ToSet(Tail(queue)) : x.Confirmation => x.Username # Head(queue).Username
<1> DEFINE q == Tail(queue)
           h == Head(queue)
<1>1. /\ Len(queue) \in Nat \ {0} /\ DOMAIN queue = 1 .. Len(queue) /\ h = queue[1]
      /\ DOMAIN q = 1 .. Len(queue) - 1
      /\ \A i \in 1 .. Len(queue) - 1 : q[i] = queue[i + 1]
  OBVIOUS
<1> HIDE DEF q, h
<1>2. h \in ToSet(queue)
  BY <1>1 DEF ToSet
<1>3. \A i \in DOMAIN q : i + 1 \in DOMAIN queue /\ i + 1 # 1 /\ q[i] = queue[i + 1]
  BY <1>1
<1>4. ToSet(q) \subseteq ToSet(queue)
  BY <1>3 DEF ToSet
<1>5. ConfirmsOnce(q)
  <2>1. \A i, j \in DOMAIN q : i # j => i + 1 # j + 1
    BY <1>1
  <2>2. QED BY <1>3, <2>1 DEF ConfirmsOnce
<1>6. ASSUME h.Confirmation, NEW x \in ToSet(q), x.Confirmation PROVE x.Username # h.Username
  <2>1. PICK i \in DOMAIN q : x = q[i]
    BY DEF ToSet
  <2>2. 1 \in DOMAIN queue
    BY <1>1
  <2>3. QED BY <1>1, <1>3, <1>6, <2>1, <2>2 DEF ConfirmsOnce
<1>7. QED BY <1>2, <1>4, <1>5, <1>6 DEF q, h

\* A confirmation that is added is for a user for whom none waits.
LEMMA ConfirmsMore ==
    ASSUME NEW S, NEW queue \in Seq(S), ConfirmsOnce(queue), NEW x,
           x.Confirmation => \A y \in ToSet(queue) : y.Confirmation => y.Username # x.Username
    PROVE  /\ ToSet(Append(queue, x)) = ToSet(queue) \cup {x}
           /\ ConfirmsOnce(Append(queue, x))
<1> DEFINE T == S \cup {x}
           q == Append(queue, x)
<1>1. queue \in Seq(T) /\ x \in T
  OBVIOUS
<1>2. ToSet(q) = ToSet(queue) \cup {x}
  <2> HIDE DEF T
  <2>1. QED BY <1>1, AppendToSet
<1>3. /\ Len(queue) \in Nat /\ DOMAIN queue = 1 .. Len(queue) /\ DOMAIN q = 1 .. Len(queue) + 1
      /\ q[Len(queue) + 1] = x /\ \A i \in 1 .. Len(queue) : q[i] = queue[i]
  BY <1>1
<1> HIDE DEF q
<1>4. \A i \in DOMAIN q : (i \in DOMAIN queue /\ q[i] = queue[i] /\ q[i] \in ToSet(queue))
                          \/ (i = Len(queue) + 1 /\ q[i] = x)
  BY <1>3 DEF ToSet
<1>5. ConfirmsOnce(q)
  BY <1>4 DEF ConfirmsOnce
<1>6. QED BY <1>2, <1>5 DEF q

\* What was asked is counted, in the queue and among what was made.
LEMMA AskedIsNat ==
    ASSUME NEW c \in Clients, InOrder(c), Counted(c), NEW u \in Clients
    PROVE  /\ Cardinality(RequestsTo(outgoing[c], u)) \in Nat /\ Cardinality(Made(c, u)) \in Nat
           /\ asked[c][u] = Cardinality(RequestsTo(outgoing[c], u)) + Cardinality(Made(c, u))
           /\ asked[c][u] \in Nat
<1>1. Cardinality(RequestsTo(outgoing[c], u)) \in Nat
  BY QueueIsFinite DEF InOrder
<1>2. Cardinality(Made(c, u)) \in Nat
  BY FS_CardinalityType DEF Counted
<1>3. asked[c][u] = Cardinality(RequestsTo(outgoing[c], u)) + Cardinality(Made(c, u))
  BY DEF Counted
<1>4. QED BY <1>1, <1>2, <1>3

\* Who has a request on its way, or waiting, to u was to ask u.
LEMMA AskerHasBudget ==
    ASSUME NEW c \in Clients, InOrder(c), Counted(c), AskedOnce(c), NEW u \in Clients
    PROVE  /\ (\E st \in Known(c) : st.Username = u /\ ~st.Confirmation) => Budget[c][u] # 0
           /\ (\E out \in ToSet(outgoing[c]) : out.Username = u /\ ~out.Confirmation) =>
                Budget[c][u] # 0 /\ (Budget[c][u] = 1 => Made(c, u) = {})
<1> DEFINE k == Cardinality(RequestsTo(outgoing[c], u))
           m == Cardinality(Made(c, u))
<1>1. k \in Nat /\ m \in Nat /\ asked[c][u] = k + m /\ IsFiniteSet(Made(c, u))
  BY AskedIsNat DEF Counted
<1>2. Budget[c][u] \in Nat /\ asked[c][u] <= Budget[c][u]
  BY AddFriendAssumption DEF AskedOnce
<1>3. m = 0 <=> Made(c, u) = {}
  BY <1>1, FS_EmptySet
<1>4. IsFiniteSet(RequestsTo(outgoing[c], u))
  BY QueueIsFinite DEF InOrder
<1>5. k = 0 <=> RequestsTo(outgoing[c], u) = {}
  BY <1>4, FS_EmptySet
<1> HIDE DEF k, m
<1>6. ASSUME NEW st \in Known(c), st.Username = u, ~st.Confirmation PROVE Budget[c][u] # 0
  <2>1. Made(c, u) # {}
    BY <1>6 DEF Made
  <2>2. QED BY <1>1, <1>2, <1>3, <2>1
<1>7. ASSUME NEW out \in ToSet(outgoing[c]), out.Username = u, ~out.Confirmation
      PROVE  Budget[c][u] # 0 /\ (Budget[c][u] = 1 => Made(c, u) = {})
  <2>1. RequestsTo(outgoing[c], u) # {}
    BY <1>7 DEF RequestsTo, ToSet
  <2>2. QED BY <1>1, <1>2, <1>3, <1>5, <2>1
<1>8. QED BY <1>6, <1>7

\* A step that queues nothing and makes no request keeps what is asked once.
LEMMA AskedOnceKept ==
    ASSUME Grows, NEW c \in Clients, AskedOnce(c), Known(c)' = Known(c),
           \A u \in Clients : asked'[c][u] <= Budget[c][u],
           ToSet(outgoing'[c]) \subseteq ToSet(outgoing[c]), ConfirmsOnce(outgoing'[c]),
           approved'[c] = approved[c]
    PROVE  AskedOnce(c)'
<1>1. SentBy(c) \subseteq SentBy(c)'
  BY SetsGrow
<1>2. Known(c)' \subseteq SentBy(c)'
  BY <1>1 DEF AskedOnce
<1>3. QED BY <1>2 DEF AskedOnce, Approved, ConfirmsOnce

\* An introduction that waits for the application, or was approved, is the only request of its
\* maker for c.
LEMMA ApproveFacts ==
    ASSUME IInv, OneRequestEach, NEW c \in Clients, NEW in \in ToSet(incoming[c])
    PROVE  /\ in.Username \in Clients /\ Budget[c][in.Username] = 0
           /\ in.DH.owner = in.Username /\ in.DH.dial = in.DialRound
           /\ \E st \in Known(in.Username) : st.Username = c /\ st.DH = in.DH
           /\ \A dh \in approved[c] : dh.owner = in.Username => dh = in.DH
<1>1. in \in Seen(c) /\ Budget[c][in.Username] = 0
  BY DEF OneRequestEach, InStep, Received
<1>2. in.Username \in Clients /\ Comes(c, in)
  BY <1>1, SeenComes DEF OneRequestEach, IInv, RoundsInOrder
<1>3. AskedOnce(in.Username)
  BY <1>2 DEF OneRequestEach, InStep
<1>4. PICK st \in Known(in.Username) :
        /\ st.Username = c /\ in.DH = st.DH /\ in.DialRound = st.DialRound
        /\ st.DH.owner = in.Username /\ st.DH.dial = st.DialRound
        /\ \A x \in Known(in.Username) : x.Username = c => x = st
  BY <1>2, <1>3, ComesFacts
<1>5. ASSUME NEW dh \in approved[c], dh.owner = in.Username PROVE dh = in.DH
  <2>1. \E x \in Known(dh.owner) : x.Username = c /\ x.DH = dh
    BY DEF OneRequestEach, InStep, Received
  <2>2. QED BY <1>4, <1>5, <2>1
<1>6. QED BY <1>1, <1>2, <1>4, <1>5

\* The application's calls keep what is asked once.
LEMMA ApplicationAsked ==
    ASSUME IInv, OneRequestEach, NEW c \in Clients, Application(c), crashes' = 0
    PROVE  AskedOnce(c)'
<1>1. /\ crashes = 0 /\ Counted(c) /\ AskedOnce(c) /\ Domains /\ InOrder(c)
      /\ DOMAIN asked = Clients /\ DOMAIN asked[c] = Clients
  BY ClientBounds DEF IInv, RequestsCounted, OneRequestEach, InStep
<1>2. Grows
  BY <1>1, ClientStep
<1>3. Known(c)' = Known(c)
  BY <1>1, ApplicationQuiet, SameKnown
<1>4. outgoing[c] \in Seq(QueuedBy(c)) /\ ConfirmsOnce(outgoing[c])
  BY <1>1 DEF InOrder, AskedOnce
<1>5. \A u \in Clients : /\ asked[c][u] \in Nat /\ Budget[c][u] \in Nat
                         /\ asked[c][u] <= Budget[c][u]
  BY <1>1, AskedIsNat, AddFriendAssumption DEF AskedOnce
<1>6. ASSUME NEW u \in Clients, SendFriendRequest(c, u) PROVE AskedOnce(c)'
  <2> DEFINE new == Outgoing(u, FALSE, 0, TRUE)
  <2>1. /\ outgoing'[c] = Append(outgoing[c], new) /\ approved' = approved
        /\ asked[c][u] < Budget[c][u] /\ asked' = [asked EXCEPT ![c][u] = @ + 1]
    BY <1>1, <1>6 DEF SendFriendRequest, Domains
  <2>2. \A v \in Clients : asked'[c][v] = IF v = u THEN asked[c][v] + 1 ELSE asked[c][v]
    BY <1>1, <2>1
  <2>3. \A v \in Clients : asked'[c][v] <= Budget[c][v]
    BY <1>5, <2>1, <2>2
  <2>4. ~new.Confirmation
    BY DEF Outgoing
  <2> HIDE DEF new
  <2>5. ToSet(outgoing'[c]) = ToSet(outgoing[c]) \cup {new} /\ ConfirmsOnce(outgoing'[c])
    BY <1>4, <2>1, <2>4, ConfirmsMore
  <2>6. SentBy(c) \subseteq SentBy(c)'
    BY <1>2, SetsGrow
  <2>7. Known(c)' \subseteq SentBy(c)'
    BY <1>1, <1>3, <2>6 DEF AskedOnce
  <2>8. ConfirmsOnce(outgoing[c])'
    BY <2>5 DEF ConfirmsOnce
  <2>9. QED BY <1>1, <1>3, <2>1, <2>3, <2>4, <2>5, <2>7, <2>8 DEF AskedOnce, Approved
<1>7. ASSUME NEW i \in DOMAIN outgoing[c], CancelOutgoing(c, i) PROVE AskedOnce(c)'
  <2> DEFINE u == outgoing[c][i].Username
  <2>1. /\ outgoing'[c] = RemoveAt(outgoing[c], i) /\ approved' = approved
        /\ asked' = asked \/ asked' = [asked EXCEPT ![c][u] = @ - 1]
    BY <1>1, <1>7 DEF CancelOutgoing, Domains
  <2> HIDE DEF u
  <2>2. \A v \in Clients : asked'[c][v] = asked[c][v] \/ asked'[c][v] = asked[c][v] - 1
    BY <1>1, <2>1
  <2>3. \A v \in Clients : asked'[c][v] <= Budget[c][v]
    BY <1>5, <2>2
  <2>4. ToSet(outgoing'[c]) \subseteq ToSet(outgoing[c]) /\ ConfirmsOnce(outgoing'[c])
    BY <1>4, <2>1, RemoveAtToSet, ConfirmsLess
  <2>5. QED BY <1>1, <1>2, <1>3, <2>1, <2>3, <2>4, AskedOnceKept
<1>8. ASSUME NEW i \in DOMAIN incoming[c], Approve(c, i) PROVE AskedOnce(c)'
  <2> DEFINE in == incoming[c][i]
             new == Outgoing(in.Username, TRUE, in.DialRound, FALSE)
  <2>1. /\ outgoing'[c] = Append(outgoing[c], new) /\ asked' = asked
        /\ in.DH \notin approved[c] /\ approved'[c] = approved[c] \cup {in.DH}
    BY <1>1, <1>8 DEF Approve, Domains
  <2>2. in \in ToSet(incoming[c])
    BY DEF ToSet
  <2>3. new.Username = in.Username /\ new.DialRound = in.DialRound /\ new.Confirmation
    BY DEF Outgoing
  <2> HIDE DEF in, new
  <2>4. /\ in.Username \in Clients /\ Budget[c][in.Username] = 0
        /\ in.DH.owner = in.Username /\ in.DH.dial = in.DialRound
        /\ \A dh \in approved[c] : dh.owner # in.Username
    BY <2>1, <2>2, ApproveFacts
  <2>5. \A dial : ~Approved(c, in.Username, dial)
    BY <2>4 DEF Approved
  <2>6. \A u, dial : Approved(c, u, dial) => Approved(c, u, dial)'
    BY <2>1 DEF Approved
  <2>7. \E dh \in approved'[c] : dh.owner = in.Username /\ dh.dial = in.DialRound
    BY <2>1, <2>4
  <2>8. \A out \in ToSet(outgoing[c]) : out.Confirmation => out.Username # new.Username
    BY <1>1, <2>3, <2>5 DEF AskedOnce
  <2>9. ToSet(outgoing'[c]) = ToSet(outgoing[c]) \cup {new} /\ ConfirmsOnce(outgoing'[c])
    BY <1>4, <2>1, <2>8, ConfirmsMore
  <2>10. ASSUME NEW out \in ToSet(outgoing'[c]), out.Confirmation
         PROVE  /\ Approved(c, out.Username, out.DialRound)'
                /\ \A st \in Known(c) : st.Username = out.Username => ~st.Confirmation
    <3>1. CASE out \in ToSet(outgoing[c])
      BY <1>1, <2>6, <2>10, <3>1 DEF AskedOnce
    <3>2. CASE out = new
      <4>1. \A st \in Known(c) : st.Username = out.Username => ~st.Confirmation
        BY <1>1, <2>3, <2>5, <3>2 DEF AskedOnce
      <4>2. Approved(c, out.Username, out.DialRound)'
        BY <2>3, <2>7, <3>2 DEF Approved
      <4>3. QED BY <4>1, <4>2
    <3>3. QED BY <2>9, <3>1, <3>2
  <2>11. SentBy(c) \subseteq SentBy(c)'
    BY <1>2, SetsGrow
  <2>12. Known(c)' \subseteq SentBy(c)'
    BY <1>1, <1>3, <2>11 DEF AskedOnce
  <2>13. ConfirmsOnce(outgoing[c])'
    BY <2>9 DEF ConfirmsOnce
  <2>14. \A st \in Known(c) : st.Confirmation => Approved(c, st.Username, st.DialRound)'
    BY <1>1, <2>6 DEF AskedOnce
  <2>15. \A dh \in approved'[c] : Budget[c][dh.owner] = 0
    BY <1>1, <2>1, <2>4 DEF AskedOnce
  <2>16. /\ \A u \in Clients : asked'[c][u] <= Budget[c][u]
         /\ \A st1, st2 \in Known(c) : st1.Username = st2.Username => st1 = st2
    BY <1>1, <2>1 DEF AskedOnce
  <2>17. QED BY <1>3, <2>10, <2>12, <2>13, <2>14, <2>15, <2>16 DEF AskedOnce
<1>9. ASSUME (\E i \in DOMAIN incoming[c] : Reject(c, i)) \/ (\E u \in friends[c] : RemoveFriend(c, u))
      PROVE  AskedOnce(c)'
  <2>1. outgoing' = outgoing /\ asked' = asked /\ approved' = approved
    BY <1>9 DEF Reject, RemoveFriend, bounds
  <2>2. QED BY <1>1, <1>2, <1>3, <1>4, <1>5, <2>1, AskedOnceKept
<1>10. ASSUME NEW i \in DOMAIN outgoing[c], CancelPanics(c, i) PROVE FALSE
  BY <1>1, <1>10 DEF CancelPanics, Restart
<1>11. QED BY <1>6, <1>7, <1>8, <1>9, <1>10 DEF Application

\* The request that goes with an onion is the first that its maker makes for that user: nobody
\* both asks and confirms.
LEMMA OnionAsked ==
    ASSUME OneAsks, IInv, OneRequestEach, NEW c \in Clients, NEW r \in Rounds, NEW last \in DialRounds,
           sendAddFriendOnion(c, r, last), crashes' = 0
    PROVE  AskedOnce(c)'
<1> DEFINE out == Head(outgoing[c])
<1>1. Handlers(c)
  BY DEF Handlers
<1>2. crashes = 0 /\ Counted(c) /\ AskedOnce(c) /\ Domains /\ InOrder(c)
  BY <1>1, ClientBounds DEF IInv, RequestsCounted, OneRequestEach, InStep
<1>3. PICK st, t : OnionOf(c, r, out, st, t)
  BY <1>2, OnionFacts DEF IInv
<1>4. /\ outgoing[c] # << >> /\ outgoing'[c] = Tail(outgoing[c])
      /\ approved' = approved /\ asked' = asked
  BY <1>2 DEF sendAddFriendOnion, Domains
<1>5. outgoing[c] \in Seq(QueuedBy(c)) /\ ConfirmsOnce(outgoing[c])
  BY <1>2 DEF InOrder, AskedOnce
<1>6. /\ out \in ToSet(outgoing[c]) /\ ToSet(outgoing'[c]) \subseteq ToSet(outgoing[c])
      /\ ConfirmsOnce(outgoing'[c])
      /\ out.Confirmation => \A x \in ToSet(outgoing'[c]) : x.Confirmation => x.Username # out.Username
  BY <1>4, <1>5, ConfirmsTail
<1>7. out \in QueuedBy(c)
  BY <1>4, <1>5
<1>8. out.Username \in Clients /\ out.Confirmation \in BOOLEAN
  BY <1>7 DEF QueuedBy, OutgoingRequest
<1> HIDE DEF out
<1>9. st.Username = out.Username /\ st.Confirmation = out.Confirmation
      /\ (st.Confirmation => st.DialRound = out.DialRound)
      /\ Known(c)' = Known(c) \cup {st} /\ t \in tasks'[c] /\ t.sent = st /\ st # Nil
  BY <1>3 DEF OnionOf
<1>10. \A x \in Known(c) : x.Username # st.Username
  <2> SUFFICES ASSUME NEW x \in Known(c), x.Username = st.Username PROVE FALSE
    OBVIOUS
  <2>1. x.Confirmation \in BOOLEAN
    BY <1>2 DEF AskedOnce, SentBy, SentRequest
  <2>2. CASE ~out.Confirmation
    <3>1. Budget[c][out.Username] # 0
      BY <1>2, <1>6, <1>8, <2>2, AskerHasBudget
    <3>2. Budget[c][out.Username] = 1
      <4>1. Budget[c][out.Username] + Budget[out.Username][c] <= 1
        BY <1>8 DEF OneAsks
      <4>2. Budget[c][out.Username] \in Nat /\ Budget[out.Username][c] \in Nat
        BY <1>8, AddFriendAssumption
      <4>3. QED BY <3>1, <4>1, <4>2
    <3>3. Made(c, out.Username) = {}
      BY <1>2, <1>6, <1>8, <2>2, <3>2, AskerHasBudget
    <3>4. x.Confirmation
      BY <1>9, <2>1, <3>3 DEF Made
    <3>5. Approved(c, out.Username, x.DialRound)
      BY <1>2, <1>9, <3>4 DEF AskedOnce
    <3>6. QED BY <1>2, <3>1, <3>5 DEF AskedOnce, Approved
  <2>3. CASE out.Confirmation
    <3>1. Approved(c, out.Username, out.DialRound) /\ ~x.Confirmation
      BY <1>2, <1>6, <1>9, <2>3 DEF AskedOnce
    <3>2. Budget[c][out.Username] # 0
      BY <1>2, <1>8, <1>9, <3>1, AskerHasBudget
    <3>3. QED BY <1>2, <3>1, <3>2 DEF AskedOnce, Approved
  <2>4. QED BY <1>8, <2>2, <2>3
<1>11. Known(c)' \subseteq SentBy(c)'
  <2>1. Grows /\ InOrder(c)'
    BY <1>1, <1>2, ClientStep, HandlersInOrder DEF IInv
  <2>2. SentBy(c) \subseteq SentBy(c)'
    BY <2>1, SetsGrow
  <2>3. st \in SentBy(c)'
    BY <1>9, <2>1 DEF InOrder, Handler
  <2>4. QED BY <1>2, <1>9, <2>2, <2>3 DEF AskedOnce
<1>12. \A x \in Known(c)' : x.Confirmation => Approved(c, x.Username, x.DialRound)'
  BY <1>2, <1>4, <1>6, <1>9 DEF AskedOnce, Approved
<1>13. \A y \in ToSet(outgoing'[c]) : y.Confirmation =>
         /\ Approved(c, y.Username, y.DialRound)'
         /\ \A x \in Known(c)' : x.Username = y.Username => ~x.Confirmation
  BY <1>2, <1>4, <1>6, <1>8, <1>9 DEF AskedOnce, Approved
<1>14. \A x, y \in Known(c)' : x.Username = y.Username => x = y
  BY <1>2, <1>9, <1>10 DEF AskedOnce
<1>15. ConfirmsOnce(outgoing[c])'
  BY <1>6 DEF ConfirmsOnce
<1>16. QED BY <1>2, <1>4, <1>11, <1>12, <1>13, <1>14, <1>15 DEF AskedOnce

\* The onions carry what their senders know: a new one its new request.
LEMMA OnionsStep ==
    ASSUME IInv, OneRequestEach, NEW c \in Clients, Application(c) \/ Handlers(c), crashes' = 0
    PROVE  OnionsOnce'
<1>1. MoreKnown
  BY KnowsMore
<1>2. /\ crashes = 0 /\ Counted(c) /\ Domains /\ RoundsInOrder /\ InOrder(c) /\ OnionsOnce
      /\ InOrder(c)'
  BY ClientBounds, InductiveStep DEF IInv, RequestsCounted, OneRequestEach, Next
<1>3. ASSUME NEW d \in Clients, NEW in, in.Username \in Clients, Comes(d, in) PROVE Comes(d, in)'
  BY <1>1, <1>2, <1>3, MoreSeen DEF RoundsInOrder
<1>4. ASSUME onions' = onions PROVE OnionsOnce'
  BY <1>2, <1>3, <1>4 DEF OnionsOnce
<1>5. ASSUME NEW r \in Rounds, NEW last \in DialRounds, sendAddFriendOnion(c, r, last)
      PROVE  OnionsOnce'
  <2>1. PICK st, t : OnionOf(c, r, Head(outgoing[c]), st, t)
    BY <1>2, <1>5, OnionFacts
  <2>2. /\ st \in Known(c)' /\ st.DH.n = nonce[c] /\ t \in tasks'[c] /\ t.sent = st /\ st # Nil
        /\ \A q \in Rounds : \A o \in onions'[q] :
             o \in onions[q] \/ (q = r /\ o.to = st.Username /\ o.intro = Introduction(c, st))
    BY <2>1 DEF OnionOf
  <2>3. st.Username \in Clients
    BY <1>2, <2>2 DEF InOrder, Handler, SentBy, SentRequest
  <2> DEFINE intro == Introduction(c, st)
  <2>4. intro.Username = c /\ intro.DH = st.DH
    BY DEF Introduction
  <2>5. Comes(st.Username, intro)'
    BY <2>2, <2>4 DEF Comes, Introduction
  <2>6. \A q \in Rounds : \A o \in onions[q] : o.intro # intro
    <3> SUFFICES ASSUME NEW q \in Rounds, NEW o \in onions[q], o.intro = intro PROVE FALSE
      OBVIOUS
    <3>1. Comes(o.to, intro)
      BY <1>2 DEF OnionsOnce
    <3>2. PICK x \in Known(c) : intro = Introduction(c, x)
      BY <2>4, <3>1 DEF Comes
    <3>3. x.DH.n = nonce[c]
      BY <2>2, <2>4, <3>2 DEF Introduction
    <3>4. x.DH.n \in 0 .. nonce[c] - 1 /\ nonce[c] \in Nat
      BY <1>2 DEF Counted, RoundsInOrder
    <3>5. QED BY <3>3, <3>4
  <2> HIDE DEF intro
  <2>7. \A q \in Rounds : \A o \in onions'[q] :
          o \in onions[q] \/ (q = r /\ o.to = st.Username /\ o.intro = intro)
    BY <2>2 DEF intro
  <2>8. \A q \in Rounds : \A o \in onions'[q] :
          o.to \in Clients /\ o.intro.Username \in Clients /\ Comes(o.to, o.intro)'
    BY <1>2, <1>3, <2>3, <2>4, <2>5, <2>7 DEF OnionsOnce
  <2>9. \A q1, q2 \in Rounds : \A o1 \in onions'[q1], o2 \in onions'[q2] :
          o1.intro = o2.intro => q1 = q2
    BY <1>2, <2>6, <2>7 DEF OnionsOnce
  <2>10. QED BY <2>8, <2>9 DEF OnionsOnce
<1>6. CASE Application(c)
  <2>1. onions' = onions
    BY <1>2, <1>6 DEF Application, SendFriendRequest, CancelOutgoing, CancelPanics, Restart, Approve,
                      Reject, RemoveFriend, service
  <2>2. QED BY <1>4, <2>1
<1>7. ASSUME NEW r \in Rounds, scanMailbox(c, r) PROVE OnionsOnce'
  BY <1>4, <1>7 DEF scanMailbox, service
<1>8. ASSUME NEW t \in tasks[c],
             \/ MatchSent(c, t) \/ MatchIncoming(c, t) \/ AppendSent(c, t) \/ AppendIncoming(c, t)
             \/ PutKey(c, t) \/ CommitFriend(c, t) \/ FinishHandler(c, t)
      PROVE  OnionsOnce'
  BY <1>4, <1>8 DEF MatchSent, MatchIncoming, AppendSent, AppendIncoming, PutKey, CommitFriend,
                    FinishHandler, service
<1>9. ASSUME FinishPersist(c) \/ PersistKeywheel(c) \/ PersistIdle(c) \/ SaveNewConfig(c)
      PROVE  OnionsOnce'
  BY <1>4, <1>9 DEF FinishPersist, PersistKeywheel, PersistIdle, SaveNewConfig, service
<1>10. QED BY <1>5, <1>6, <1>7, <1>8, <1>9 DEF Handlers

\* A step that shows the application nothing and approves nothing.
LEMMA ReceivedKept ==
    ASSUME RoundsInOrder, MoreKnown, NEW c \in Clients, Received(c),
           \A in \in ToSet(incoming'[c]) :
             in \in ToSet(incoming[c]) \/ (in \in Seen(c) /\ Budget[c][in.Username] = 0),
           \A dh \in approved'[c] :
             \/ dh \in approved[c]
             \/ dh.owner \in Clients /\ \E st \in Known(dh.owner) : st.Username = c /\ st.DH = dh,
           \A f \in confirmed' : f.who = c =>
             f \in confirmed \/ (f.in \in Seen(c) /\ f.in.Username = f.sent.Username)
    PROVE  Received(c)'
<1>1. Seen(c) \subseteq Seen(c)'
  BY MoreSeen DEF RoundsInOrder
<1>2. \A in \in ToSet(incoming'[c]) : in \in Seen(c)' /\ Budget[c][in.Username] = 0
  BY <1>1 DEF Received
<1>3. \A f \in confirmed' : f.who = c => f.in \in Seen(c)' /\ f.in.Username = f.sent.Username
  BY <1>1 DEF Received
<1>4. \A dh \in approved'[c] : /\ dh.owner \in Clients
                               /\ \E st \in Known(dh.owner)' : st.Username = c /\ st.DH = dh
  BY DEF Received, MoreKnown
<1>5. QED BY <1>2, <1>3, <1>4 DEF Received

\* A handler goes on as t2, or ends.
LEMMA DecodedMoves ==
    ASSUME RoundsInOrder, MoreKnown, NEW c \in Clients, DecodedOnce(c), confirmed' = confirmed,
           NEW t \in tasks[c], NEW t2, tasks'[c] \subseteq (tasks[c] \ {t}) \cup {t2},
           t2.kind = t.kind, t.kind = "decode" => t2.in = t.in,
           \A x \in tasks'[c] : x = t2 => Holds(c, x)'
    PROVE  DecodedOnce(c)'
<1>1. \A x \in tasks'[c] : Holds(c, x)'
  BY HoldsKept DEF DecodedOnce
<1>2. \A x, y \in tasks'[c] : x.kind = "decode" /\ y.kind = "decode" /\ x.in = y.in => x = y
  BY DEF DecodedOnce
<1>3. QED BY <1>1, <1>2 DEF DecodedOnce

\* Handlers that end leave nothing to be decoded twice.
LEMMA DecodedLess ==
    ASSUME RoundsInOrder, MoreKnown, NEW c \in Clients, DecodedOnce(c), confirmed' = confirmed,
           tasks'[c] \subseteq tasks[c]
    PROVE  DecodedOnce(c)'
BY HoldsKept DEF DecodedOnce

\* A step that only takes keys away keeps where they come from.
LEMMA KeysKept ==
    ASSUME MoreKnown, NEW c \in Clients, InOrder(c), KeysFrom(c),
           DOMAIN wheel'[c] \subseteq DOMAIN wheel[c],
           \A u \in DOMAIN wheel'[c] : wheel'[c][u] = wheel[c][u]
    PROVE  KeysFrom(c)'
<1>1. DOMAIN wheel[c] \subseteq Clients
  BY DEF InOrder, Wheels
<1>2. ASSUME NEW u \in DOMAIN wheel'[c] PROVE KeyFrom(c, u, wheel[c][u])'
  <2>1. PICK entry : entry = wheel[c][u]
    OBVIOUS
  <2>2. u \in Clients /\ KeyFrom(c, u, entry)
    BY <1>1, <2>1 DEF KeysFrom
  <2>3. KeyFrom(c, u, entry)'
    BY <2>2, MoreKeys
  <2>4. entry = wheel'[c][u]
    BY <2>1
  <2>5. QED BY <2>3, <2>4 DEF KeyFrom
<1>3. QED BY <1>2 DEF KeysFrom

\* The answer to a request that was made finds it: it waits for the answer, and no answer came
\* before.  Who finds none was not to ask.
LEMMA AnswerMatches ==
    ASSUME OneAsks, IInv, crashes = 0, OneRequestEach, NEW c \in Clients, PairsMeet(c),
           NEW t \in tasks[c], t.kind = "decode", t.pc = "match", matchToSent(c, t.in) = 0
    PROVE  Budget[c][t.in.Username] = 0
<1> DEFINE in == t.in
           u == t.in.Username
<1>1. /\ InOrder(c) /\ AskedOnce(c) /\ Counted(c) /\ Received(c) /\ DecodedOnce(c) /\ OnionsOnce
      /\ scanned[c] \subseteq Rounds
  BY DEF IInv, RequestsCounted, OneRequestEach, InStep, RoundsInOrder
<1>2. Holds(c, t) /\ in \in Seen(c)
  <2>1. t.in # Nil
    BY <1>1 DEF InOrder, Handler, Proper
  <2>2. QED BY <1>1, <2>1 DEF DecodedOnce, Holds
<1>3. u \in Clients /\ Comes(c, in)
  BY <1>1, <1>2, SeenComes
<1>4. AskedOnce(u) /\ Received(u) /\ InOrder(u) /\ Counted(u)
  BY <1>3 DEF OneRequestEach, InStep, IInv, RequestsCounted
<1>5. PICK st \in Known(u) :
        /\ st.Username = c /\ in = Introduction(u, st) /\ in.DialRound = st.DialRound
        /\ \A x \in Known(u) : x.Username = c => x = st
  BY <1>3, <1>4, ComesFacts
<1> SUFFICES ASSUME Budget[c][u] # 0 PROVE FALSE
  BY DEF u
<1> HIDE DEF in, u
<1>6. Budget[u][c] = 0
  <2>1. Budget[c][u] \in Nat /\ Budget[u][c] \in Nat /\ Budget[c][u] + Budget[u][c] <= 1
    BY <1>3, AddFriendAssumption DEF OneAsks
  <2>2. QED BY <2>1
<1>7. st.Confirmation
  BY <1>4, <1>5, <1>3, <1>6, AskerHasBudget
<1>8. PICK dh \in approved[u] : dh.owner = c /\ dh.dial = st.DialRound
  BY <1>4, <1>5, <1>7 DEF AskedOnce, Approved
<1>9. PICK mine \in Known(c) : mine.Username = u /\ mine.DH = dh
  BY <1>4, <1>8 DEF Received
<1>10. mine.DialRound = dh.dial /\ mine # Nil
  <2>1. mine \in SentBy(c)
    BY <1>1, <1>9 DEF AskedOnce
  <2>2. QED BY <1>9, <2>1, NotNil DEF SentBy, MadeFor
<1>11. Matches(in, mine)
  <2>1. in.Username = u
    BY DEF in, u
  <2>2. QED BY <1>5, <1>8, <1>9, <1>10, <2>1 DEF Matches
<1>12. mine \in Settled(c)
  <2>1. \A x \in tasks[c] : x.kind # "send"
    BY DEF PairsMeet, OneDirection
  <2>2. \A x \in tasks[c] : x.sent = Nil \/ x.sent \in Settled(c)
    BY <1>1, <2>1 DEF DecodedOnce, Holds
  <2>3. QED BY <1>9, <1>10, <2>2 DEF Known, Travelling
<1>13. mine \notin ToSet(sent[c])
  <2>1. sent[c] \in Seq(SentBy(c)) /\ matchToSent(c, in) = 0
    BY <1>1 DEF InOrder, in
  <2>2. \A x \in ToSet(sent[c]) : ~Matches(in, x)
    BY <2>1, NoMatchFacts
  <2>3. QED BY <1>11, <2>2
<1>14. PICK f \in confirmed : f.who = c /\ f.sent = mine
  BY <1>12, <1>13 DEF Settled, Answered
<1>15. f.in = in
  <2>1. f.in \in Seen(c) /\ f.in.Username = u
    BY <1>1, <1>9, <1>14 DEF Received
  <2>2. Comes(c, f.in)
    BY <1>1, <2>1, SeenComes
  <2>3. PICK x \in Known(u) : x.Username = c /\ f.in = Introduction(u, x)
    BY <2>1, <2>2 DEF Comes
  <2>4. x = st
    BY <1>5, <2>3
  <2>5. QED BY <1>5, <2>3, <2>4
<1>16. QED BY <1>2, <1>14, <1>15 DEF Holds, in

\* The application's calls keep what is received and the keys.
LEMMA ApplicationInStep ==
    ASSUME IInv, OneRequestEach, NEW c \in Clients, Application(c), crashes' = 0
    PROVE  InStep(c)'
<1>1. /\ crashes = 0 /\ Counted(c) /\ Domains /\ RoundsInOrder /\ InOrder(c) /\ InStep(c)
  BY ClientBounds DEF IInv, RequestsCounted, OneRequestEach
<1>2. MoreKnown
  BY KnowsMore
<1>3. tasks' = tasks /\ confirmed' = confirmed
  BY <1>1, ApplicationQuiet
<1>4. AskedOnce(c)'
  BY ApplicationAsked
<1>5. DecodedOnce(c)'
  BY <1>1, <1>2, <1>3, DecodedLess DEF InStep
<1>6. ASSUME ToSet(incoming'[c]) \subseteq ToSet(incoming[c]), approved' = approved
      PROVE  Received(c)'
  BY <1>1, <1>2, <1>3, <1>6, ReceivedKept DEF InStep
<1>7. wheel' = wheel => KeysFrom(c)'
  BY <1>1, <1>2, KeysKept DEF InStep
<1>8. ASSUME \/ \E u \in Clients : SendFriendRequest(c, u)
             \/ \E i \in DOMAIN outgoing[c] : CancelOutgoing(c, i)
      PROVE  Received(c)' /\ KeysFrom(c)'
  <2>1. incoming' = incoming /\ approved' = approved /\ wheel' = wheel
    BY <1>8 DEF SendFriendRequest, CancelOutgoing
  <2>2. QED BY <1>6, <1>7, <2>1
<1>9. ASSUME NEW i \in DOMAIN incoming[c], Approve(c, i) PROVE Received(c)' /\ KeysFrom(c)'
  <2> DEFINE in == incoming[c][i]
  <2>1. /\ incoming' = incoming /\ wheel' = wheel
        /\ approved'[c] = approved[c] \cup {in.DH}
    BY <1>1, <1>9 DEF Approve, Domains
  <2>2. in \in ToSet(incoming[c])
    BY DEF ToSet
  <2> HIDE DEF in
  <2>3. in.DH.owner \in Clients /\ \E st \in Known(in.DH.owner) : st.Username = c /\ st.DH = in.DH
    BY <2>2, ApproveFacts
  <2>4. Received(c)'
    BY <1>1, <1>2, <1>3, <2>1, <2>3, ReceivedKept DEF InStep
  <2>5. QED BY <1>7, <2>1, <2>4
<1>10. ASSUME NEW i \in DOMAIN incoming[c], Reject(c, i) PROVE Received(c)' /\ KeysFrom(c)'
  <2>1. /\ incoming'[c] = RemoveAt(incoming[c], i) /\ approved' = approved /\ wheel' = wheel
    BY <1>1, <1>10 DEF Reject, bounds, Domains
  <2>2. ToSet(incoming'[c]) \subseteq ToSet(incoming[c])
    BY <1>1, <2>1, RemoveAtToSet DEF InOrder
  <2>3. QED BY <1>6, <1>7, <2>1, <2>2
<1>11. ASSUME NEW u \in friends[c], RemoveFriend(c, u) PROVE Received(c)' /\ KeysFrom(c)'
  <2>1. /\ incoming' = incoming /\ approved' = approved
        /\ wheel'[c] = [x \in DOMAIN wheel[c] \ {u} |-> wheel[c][x]]
    BY <1>1, <1>11 DEF RemoveFriend, bounds, Domains
  <2>2. KeysFrom(c)'
    BY <1>1, <1>2, <2>1, KeysKept DEF InStep
  <2>3. QED BY <1>6, <2>1, <2>2
<1>12. ASSUME NEW i \in DOMAIN outgoing[c], CancelPanics(c, i) PROVE FALSE
  BY <1>1, <1>12 DEF CancelPanics, Restart
<1>13. Received(c)' /\ KeysFrom(c)'
  BY <1>8, <1>9, <1>10, <1>11, <1>12 DEF Application
<1>14. QED BY <1>4, <1>5, <1>13 DEF InStep

\* The handlers keep all in step.
LEMMA HandlersInStep ==
    ASSUME OneAsks, IInv, OneRequestEach, NEW c \in Clients, PairsMeet(c), Handlers(c), crashes' = 0
    PROVE  InStep(c)'
<1>1. /\ crashes = 0 /\ Counted(c) /\ Domains /\ RoundsInOrder /\ InOrder(c) /\ OnionsOnce
      /\ AskedOnce(c) /\ Received(c) /\ DecodedOnce(c) /\ KeysFrom(c)
  BY ClientBounds DEF IInv, RequestsCounted, OneRequestEach, InStep
<1>2. MoreKnown /\ Grows
  BY <1>1, KnowsMore, ClientStep
<1>3. \A t \in tasks[c] : t \in Handler(c) /\ Holds(c, t)
  BY <1>1, ElementFacts DEF DecodedOnce
<1>4. Seen(c) \subseteq Seen(c)' /\ Settled(c) \subseteq Settled(c)'
  BY <1>1, <1>2, MoreSeen DEF MoreKnown, RoundsInOrder
<1> DEFINE Others == Received(c)' /\ DecodedOnce(c)' /\ KeysFrom(c)'
<1>5. ASSUME incoming' = incoming, confirmed' = confirmed, approved' = approved PROVE Received(c)'
  BY <1>1, <1>2, <1>5, ReceivedKept
<1>6. wheel' = wheel => KeysFrom(c)'
  BY <1>1, <1>2, KeysKept
<1>7. ASSUME NEW r \in Rounds, NEW last \in DialRounds, sendAddFriendOnion(c, r, last)
      PROVE  InStep(c)'
  <2>1. PICK st, t : OnionOf(c, r, Head(outgoing[c]), st, t)
    BY <1>1, <1>7, OnionFacts
  <2>2. /\ incoming' = incoming /\ confirmed' = confirmed /\ approved' = approved /\ wheel' = wheel
        /\ t.kind = "send" /\ t.in = Nil /\ tasks'[c] = tasks[c] \cup {t}
    BY <1>7, <2>1 DEF sendAddFriendOnion, OnionOf
  <2>3. \A x \in tasks'[c] : Holds(c, x)'
    <3>1. \A x \in tasks[c] : Holds(c, x)'
      BY <1>1, <1>2, <1>3, <2>2, HoldsKept
    <3>2. \A x : x = t => Holds(c, x)'
      BY <2>2 DEF Holds
    <3>3. QED BY <2>2, <3>1, <3>2
  <2>4. DecodedOnce(c)'
    BY <1>1, <2>2, <2>3 DEF DecodedOnce
  <2>5. AskedOnce(c)'
    BY <1>7, OnionAsked
  <2>6. QED BY <1>5, <1>6, <2>2, <2>4, <2>5 DEF InStep
<1>8. ASSUME NEW r \in Rounds, scanMailbox(c, r) PROVE Others
  <2> DEFINE scan == Task("scan", r, "persist", Nil, Nil)
             new == {Task("decode", r, "match", in, Nil) : in \in Mailbox(c, r)}
  <2>1. /\ incoming' = incoming /\ confirmed' = confirmed /\ approved' = approved /\ wheel' = wheel
        /\ onions' = onions /\ scanned'[c] = scanned[c] \cup {r} /\ r \notin scanned[c]
        /\ tasks'[c] = tasks[c] \cup {scan} \cup new
    BY <1>1, <1>8 DEF scanMailbox, memory, service, bounds, Domains, RoundsInOrder
  <2>2. scan.kind = "scan" /\ scan.in = Nil /\ scan.sent = Nil
    BY DEF Task
  <2>3. \A x \in new : /\ x.kind = "decode" /\ x.round = r /\ x.pc = "match" /\ x.sent = Nil
                       /\ x.in \in Mailbox(c, r) /\ x = Task("decode", r, "match", x.in, Nil)
    BY DEF Task
  <2> HIDE DEF scan, new
  <2>4. ASSUME NEW q \in scanned[c], NEW in \in Mailbox(c, q) PROVE in \notin Mailbox(c, r)
    <3>1. q \in Rounds
      BY <1>1 DEF RoundsInOrder
    <3>2. \A o1 \in onions[q], o2 \in onions[r] : o1.intro = o2.intro => q = r
      BY <1>1, <3>1 DEF OnionsOnce
    <3>3. QED BY <2>1, <3>2 DEF Mailbox
  <2>5. \A in \in Seen(c) : in \notin Mailbox(c, r)
    BY <2>4 DEF Seen
  <2>6. Mailbox(c, r)' = Mailbox(c, r)
    BY <2>1 DEF Mailbox
  <2>7. ASSUME NEW x \in tasks'[c] PROVE Holds(c, x)'
    <3>1. CASE x \in tasks[c]
      BY <1>1, <1>2, <1>3, <2>1, <3>1, HoldsKept
    <3>2. CASE x = scan
      BY <2>2, <3>2 DEF Holds
    <3>3. CASE x \in new
      <4>1. x.in \in Seen(c)'
        BY <2>1, <2>3, <2>6, <3>3 DEF Seen
      <4>2. \A f \in confirmed' : f.who = c => f.in # x.in
        BY <1>1, <2>1, <2>3, <2>5, <3>3 DEF Received
      <4>3. QED BY <2>1, <2>3, <2>6, <3>3, <4>1, <4>2 DEF Holds
    <3>4. QED BY <2>1, <3>1, <3>2, <3>3
  <2>8. ASSUME NEW x \in tasks'[c], NEW y \in tasks'[c],
               x.kind = "decode", y.kind = "decode", x.in = y.in
        PROVE  x = y
    <3>1. \A z \in tasks[c] : z.kind = "decode" => z.in \notin Mailbox(c, r)
      BY <1>3, <2>4 DEF Holds
    <3>2. x # scan /\ y # scan
      BY <2>2, <2>8
    <3>3. QED BY <1>1, <2>1, <2>3, <2>8, <3>1, <3>2 DEF DecodedOnce
  <2>9. DecodedOnce(c)'
    BY <2>7, <2>8 DEF DecodedOnce
  <2>10. QED BY <1>5, <1>6, <2>1, <2>9
<1>9. ASSUME NEW t \in tasks[c], MatchSent(c, t) PROVE Others
  <2> DEFINE i == matchToIncoming(c, t.sent)
             t2 == IF i = 0 THEN [t EXCEPT !.pc = "append"]
                   ELSE [t EXCEPT !.pc = "put", !.in = incoming[c][i]]
  <2>1. /\ incoming' = incoming /\ confirmed' = confirmed /\ approved' = approved /\ wheel' = wheel
        /\ tasks'[c] = (tasks[c] \ {t}) \cup {t2} /\ t.kind = "send"
    BY <1>1, <1>9 DEF MatchSent, Advance, memory, bounds, Domains
  <2>2. t2.kind = "send" /\ t2.in = IF i = 0 THEN t.in ELSE incoming[c][i]
    BY <1>3, <2>1 DEF Handler
  <2>3. i # 0 => incoming[c][i] \in ToSet(incoming[c])
    <3>1. i # 0 => i \in DOMAIN incoming[c]
      BY <1>1, MatchToIncomingFacts DEF InOrder
    <3> HIDE DEF i
    <3>2. QED BY <3>1 DEF ToSet
  <2>4. t2.in # Nil => t2.in \in Seen(c)
    <3> HIDE DEF i, t2
    <3>1. QED BY <1>1, <1>3, <2>2, <2>3 DEF Received, Holds
  <2> HIDE DEF i, t2
  <2>5. \A x \in tasks'[c] : x = t2 => Holds(c, x)'
    BY <1>4, <2>2, <2>4 DEF Holds
  <2>6. DecodedOnce(c)'
    BY <1>1, <1>2, <2>1, <2>2, <2>5, DecodedMoves
  <2>7. QED BY <1>5, <1>6, <2>1, <2>6
<1>10. ASSUME NEW t \in tasks[c], MatchIncoming(c, t) PROVE Others
  <2> DEFINE i == matchToSent(c, t.in)
             t2 == IF i = 0 THEN [t EXCEPT !.pc = "append"]
                   ELSE [t EXCEPT !.pc = "put", !.sent = sent[c][i]]
  <2>1. /\ incoming' = incoming /\ confirmed' = confirmed /\ approved' = approved /\ wheel' = wheel
        /\ tasks'[c] = (tasks[c] \ {t}) \cup {t2} /\ t.kind = "decode" /\ t.pc = "match"
        /\ scanned' = scanned /\ onions' = onions
    BY <1>1, <1>10 DEF MatchIncoming, Advance, memory, rounds, service, bounds, Domains
  <2>2. /\ t2.kind = "decode" /\ t2.in = t.in /\ t2.round = t.round
        /\ t2.sent = IF i = 0 THEN t.sent ELSE sent[c][i]
        /\ t2.pc = IF i = 0 THEN "append" ELSE "put"
    BY <1>3, <2>1 DEF Handler
  <2>3. i # 0 => sent[c][i] \in ToSet(sent[c])
    <3>1. i # 0 => i \in DOMAIN sent[c]
      BY <1>1, MatchToSentFacts DEF InOrder
    <3> HIDE DEF i
    <3>2. QED BY <3>1 DEF ToSet
  <2>4. i = 0 => Budget[c][t.in.Username] = 0
    BY <1>1, <2>1, AnswerMatches
  <2> HIDE DEF i, t2
  <2>5. t2.sent = Nil \/ t2.sent \in Settled(c)
    BY <1>3, <2>1, <2>2, <2>3 DEF Holds, Settled
  <2>6. Holds(c, t)'
    BY <1>1, <1>2, <1>3, <2>1, HoldsKept
  <2>7. \A x \in tasks'[c] : x = t2 => Holds(c, x)'
    BY <1>4, <2>1, <2>2, <2>4, <2>5, <2>6 DEF Holds
  <2>8. DecodedOnce(c)'
    BY <1>1, <1>2, <2>1, <2>2, <2>7, DecodedMoves
  <2>9. QED BY <1>5, <1>6, <2>1, <2>8
<1>11. ASSUME NEW t \in tasks[c], AppendSent(c, t) PROVE Others
  <2> DEFINE t2 == [t EXCEPT !.pc = "persist"]
  <2>1. /\ incoming' = incoming /\ confirmed' = confirmed /\ approved' = approved /\ wheel' = wheel
        /\ tasks'[c] = (tasks[c] \ {t}) \cup {t2} /\ t.kind = "send"
    BY <1>1, <1>11 DEF AppendSent, Advance, bounds, Domains
  <2>2. t2.kind = "send" /\ t2.in = t.in
    BY <1>3, <2>1 DEF Handler
  <2> HIDE DEF t2
  <2>3. \A x \in tasks'[c] : x = t2 => Holds(c, x)'
    BY <1>3, <1>4, <2>2 DEF Holds
  <2>4. DecodedOnce(c)'
    BY <1>1, <1>2, <2>1, <2>2, <2>3, DecodedMoves
  <2>5. QED BY <1>5, <1>6, <2>1, <2>4
<1>12. ASSUME NEW t \in tasks[c], AppendIncoming(c, t) PROVE Others
  <2>1. /\ incoming'[c] = Append(incoming[c], t.in) /\ confirmed' = confirmed
        /\ approved' = approved /\ wheel' = wheel
        /\ tasks'[c] \subseteq tasks[c] /\ t.kind = "decode" /\ t.pc = "append"
    BY <1>1, <1>12 DEF AppendIncoming, bounds, Domains
  <2>2. t.in \in ReceivedBy(c) /\ t.in # Nil
    BY <1>3, <2>1 DEF Handler, Proper
  <2>3. t.in \in Seen(c) /\ Budget[c][t.in.Username] = 0
    BY <1>3, <2>1, <2>2 DEF Holds
  <2>4. ToSet(incoming'[c]) = ToSet(incoming[c]) \cup {t.in}
    BY <1>1, <2>1, <2>2, AppendToSet DEF InOrder
  <2>5. Received(c)'
    BY <1>1, <1>2, <2>1, <2>3, <2>4, ReceivedKept
  <2>6. DecodedOnce(c)'
    BY <1>1, <1>2, <2>1, DecodedLess
  <2>7. QED BY <1>6, <2>1, <2>5, <2>6
<1>13. ASSUME NEW t \in tasks[c], PutKey(c, t) PROVE Others
  <2> DEFINE t2 == [t EXCEPT !.pc = "commit"]
             v == t.in.Username
             entry == [Round |-> t.in.DialRound, Secret |-> {t.in.DH, t.sent.DH}]
  <2>1. /\ incoming' = incoming /\ confirmed' = confirmed /\ approved' = approved
        /\ tasks'[c] = (tasks[c] \ {t}) \cup {t2} /\ t.pc = "put"
        /\ DOMAIN wheel'[c] = DOMAIN wheel[c] \cup {v}
        /\ \A u \in DOMAIN wheel'[c] : wheel'[c][u] = IF u = v THEN entry ELSE wheel[c][u]
    BY <1>1, <1>13 DEF PutKey, Advance, bounds, Domains
  <2>2. t2.kind = t.kind /\ t2.in = t.in /\ t2.sent = t.sent /\ t2.round = t.round /\ t2.pc = "commit"
    BY <1>3, <2>1 DEF Handler
  <2> HIDE DEF t2
  <2>3. Holds(c, t)'
    BY <1>1, <1>2, <1>3, <2>1, HoldsKept
  <2>4. \A x \in tasks'[c] : x = t2 => Holds(c, x)'
    BY <2>2, <2>3 DEF Holds
  <2>5. DecodedOnce(c)'
    BY <1>1, <1>2, <2>1, <2>2, <2>4, DecodedMoves
  <2>6. v \in Clients /\ KeyFrom(c, v, entry)
    <3>1. /\ t.in # Nil /\ t.sent # Nil /\ t.in.Username = t.sent.Username
          /\ t.in.DialRound = t.sent.DialRound
      BY <1>3, <2>1 DEF Handler, Proper, Matches
    <3>2. t.sent \in Known(c)
      BY <3>1 DEF Known, Travelling
    <3>3. t.in \in Seen(c)
      BY <1>3, <3>1 DEF Holds
    <3>4. v \in Clients /\ Comes(c, t.in)
      BY <1>1, <3>3, SeenComes DEF RoundsInOrder
    <3>5. AskedOnce(v)
      BY <3>4 DEF OneRequestEach, InStep
    <3>6. PICK st \in Known(v) : /\ st.Username = c /\ t.in.DH = st.DH
                                 /\ t.in.DialRound = st.DialRound
      BY <3>4, <3>5, ComesFacts
    <3>7. QED BY <3>1, <3>2, <3>4, <3>6 DEF KeyFrom
  <2>7. DOMAIN wheel[c] \subseteq Clients
    BY <1>1 DEF InOrder, Wheels
  <2>8. ASSUME NEW u \in DOMAIN wheel'[c] PROVE KeyFrom(c, u, wheel[c][u])'
    <3>1. PICK e : e = wheel'[c][u]
      OBVIOUS
    <3>2. u \in Clients /\ KeyFrom(c, u, e)
      <4> HIDE DEF v, entry
      <4>1. CASE u = v
        BY <2>1, <2>6, <3>1, <4>1
      <4>2. CASE u # v
        BY <1>1, <2>1, <2>7, <3>1, <4>2 DEF KeysFrom
      <4>3. QED BY <4>1, <4>2
    <3>3. KeyFrom(c, u, e)'
      BY <1>2, <3>2, MoreKeys
    <3>4. QED BY <3>1, <3>3 DEF KeyFrom
  <2>9. KeysFrom(c)'
    BY <2>8 DEF KeysFrom
  <2>10. QED BY <1>5, <2>1, <2>5, <2>9
<1>14. ASSUME NEW t \in tasks[c], CommitFriend(c, t) PROVE Others
  <2> DEFINE t2 == [t EXCEPT !.pc = "persist"]
             f == [who |-> c, in |-> t.in, sent |-> t.sent]
  <2>1. /\ incoming'[c] = Without(incoming[c], t.in) /\ confirmed' = confirmed \cup {f}
        /\ approved' = approved /\ wheel' = wheel /\ t.pc = "commit"
        /\ tasks'[c] = (tasks[c] \ {t}) \cup IF t.kind = "send" THEN {t2} ELSE {}
    BY <1>1, <1>14 DEF CommitFriend, bounds, Domains
  <2>2. t2.kind = t.kind /\ t2.in = t.in
    BY <1>3 DEF Handler
  <2>3. f.who = c /\ f.in = t.in /\ f.sent = t.sent
    OBVIOUS
  <2> HIDE DEF t2, f
  <2>4. t.in \in Seen(c) /\ t.in.Username = t.sent.Username
    BY <1>3, <2>1 DEF Handler, Proper, Matches, Holds
  <2>5. ToSet(incoming'[c]) \subseteq ToSet(incoming[c])
    BY <1>1, <2>1, WithoutFacts DEF InOrder
  <2>6. Received(c)'
    BY <1>1, <1>2, <2>1, <2>3, <2>4, <2>5, ReceivedKept
  <2>7. ASSUME NEW x \in tasks[c], x # t PROVE Holds(c, x)'
    <3>1. x.kind = "decode" => t.kind # "send"
      BY DEF PairsMeet, OneDirection
    <3>2. t.kind = "decode" \/ t.kind = "send"
      BY <1>3, <2>1 DEF Handler, Proper
    <3>3. x.kind # "decode" \/ f.in # x.in
      BY <1>1, <2>3, <2>7, <3>1, <3>2 DEF DecodedOnce
    <3>4. QED BY <1>1, <1>2, <1>3, <2>1, <3>3, HoldsKept
  <2>8. ASSUME NEW x \in tasks'[c], x = t2, t.kind = "send" PROVE Holds(c, x)'
    BY <1>4, <2>2, <2>4, <2>8 DEF Holds
  <2>9. \A x \in tasks'[c] : Holds(c, x)'
    BY <2>1, <2>7, <2>8
  <2>10. \A x \in tasks'[c] : x \in tasks[c] \/ x.kind # "decode"
    BY <2>1, <2>2
  <2>11. DecodedOnce(c)'
    BY <1>1, <2>9, <2>10 DEF DecodedOnce
  <2>12. QED BY <1>6, <2>1, <2>6, <2>11
<1>15. ASSUME NEW t \in tasks[c], FinishHandler(c, t) PROVE Others
  <2>1. /\ incoming' = incoming /\ confirmed' = confirmed /\ approved' = approved /\ wheel' = wheel
        /\ tasks'[c] \subseteq tasks[c]
    BY <1>1, <1>15 DEF FinishHandler, memory, bounds, Domains
  <2>2. QED BY <1>1, <1>2, <1>5, <1>6, <2>1, DecodedLess
<1>16. ASSUME FinishPersist(c) \/ PersistKeywheel(c) \/ PersistIdle(c) \/ SaveNewConfig(c) PROVE Others
  <2>1. /\ incoming' = incoming /\ confirmed' = confirmed /\ approved' = approved /\ wheel' = wheel
        /\ tasks' = tasks
    BY <1>16 DEF FinishPersist, PersistKeywheel, PersistIdle, SaveNewConfig, memory, volatile, bounds
  <2>2. QED BY <1>1, <1>2, <1>5, <1>6, <2>1, DecodedLess
<1> HIDE DEF Others
<1>17. ASSUME Others, KnowsTheSame(c), approved' = approved PROVE InStep(c)'
  <2>1. /\ outgoing'[c] = outgoing[c] /\ Known(c)' = Known(c) /\ asked' = asked
    BY <1>17 DEF KnowsTheSame
  <2>2. AskedOnce(c)'
    BY <1>1, <1>2, <1>17, <2>1, AskedOnceKept DEF AskedOnce
  <2>3. QED BY <1>17, <2>2 DEF Others, InStep
<1>18. ASSUME NEW r \in Rounds, scanMailbox(c, r) PROVE Others /\ approved' = approved
  <2>1. approved' = approved
    BY <1>18 DEF scanMailbox, bounds
  <2>2. QED BY <1>8, <1>18, <2>1
<1>19. ASSUME NEW t \in tasks[c],
              \/ MatchSent(c, t) \/ MatchIncoming(c, t) \/ AppendSent(c, t) \/ AppendIncoming(c, t)
              \/ PutKey(c, t) \/ CommitFriend(c, t) \/ FinishHandler(c, t)
       PROVE  Others /\ approved' = approved
  <2>1. approved' = approved
    BY <1>19 DEF MatchSent, MatchIncoming, AppendSent, AppendIncoming, PutKey, CommitFriend,
                 FinishHandler, bounds
  <2>2. QED BY <1>9, <1>10, <1>11, <1>12, <1>13, <1>14, <1>15, <1>19, <2>1
<1>20. ASSUME FinishPersist(c) \/ PersistKeywheel(c) \/ PersistIdle(c) \/ SaveNewConfig(c)
       PROVE  Others /\ approved' = approved
  <2>1. approved' = approved
    BY <1>20 DEF FinishPersist, PersistKeywheel, PersistIdle, SaveNewConfig, bounds
  <2>2. QED BY <1>16, <1>20, <2>1
<1>21. (Others /\ approved' = approved)
       \/ \E r \in Rounds, last \in DialRounds : sendAddFriendOnion(c, r, last)
  BY <1>18, <1>19, <1>20 DEF Handlers
<1>22. KnowsTheSame(c) \/ \E r \in Rounds, last \in DialRounds : sendAddFriendOnion(c, r, last)
  BY <1>1, HandlersKnow DEF IInv
<1>23. QED BY <1>7, <1>17, <1>21, <1>22

\* Every step keeps all in step, until a process ends.
LEMMA OneRequestStep ==
    ASSUME OneAsks, IInv, AllMeet, crashes = 0 => OneRequestEach, [Next]_vars, crashes' = 0
    PROVE  OneRequestEach'
<1> USE DEF IInv
<1>1. ASSUME MoreKnown, Grows, crashes = 0, NEW d \in Clients, Keeps(d), Known(d)' = Known(d),
             asked'[d] = asked[d], approved'[d] = approved[d],
             \A f \in confirmed' : f.who = d => f \in confirmed
      PROVE  InStep(d)'
  BY <1>1, StaysInStep DEF OneRequestEach
<1>2. ASSUME NEW c \in Clients, Application(c) \/ Handlers(c) PROVE OneRequestEach'
  <2>1. crashes = 0 /\ \A d \in Clients \ {c} : Uncounted(d)
    BY <1>2, ClientBounds
  <2>2. OneRequestEach /\ PairsMeet(c)
    BY <2>1 DEF AllMeet
  <2>3. OnionsOnce'
    BY <1>2, <2>2, OnionsStep
  <2>4. InStep(c)'
    BY <1>2, <2>1, <2>2, ApplicationInStep, HandlersInStep
  <2>5. MoreKnown /\ Grows /\ \A d \in Clients \ {c} : Known(d)' = Known(d)
    BY <1>2, KnowsMore, ClientStep
  <2>6. /\ \A d \in Clients \ {c} : approved'[d] = approved[d]
        /\ \A f \in confirmed' : f \in confirmed \/ f.who = c
    BY <1>2, <2>1, LeavesOthers
  <2>7. ASSUME NEW d \in Clients \ {c} PROVE InStep(d)'
    <3>1. Keeps(d) /\ asked'[d] = asked[d]
      BY <2>1 DEF Uncounted
    <3>2. QED BY <1>1, <2>1, <2>5, <2>6, <3>1
  <2>8. QED BY <2>3, <2>4, <2>7 DEF OneRequestEach
<1>3. ASSUME NEW c \in Clients, Crash(c) PROVE FALSE
  <2>1. crashes = 0
    BY <1>3, ClientBounds
  <2>2. QED BY <1>3, <2>1 DEF Crash, Restart
<1>4. ASSUME Grows, \A d \in Clients : Keeps(d), onions' = onions, scanned' = scanned,
             asked' = asked, approved' = approved, confirmed' = confirmed, crashes' = crashes
      PROVE  OneRequestEach'
  <2>1. ASSUME NEW d \in Clients PROVE Known(d)' = Known(d) /\ Settled(d)' = Settled(d)
    BY <1>4, SameKnown DEF Keeps
  <2>2. MoreKnown
    BY <1>4, <2>1 DEF MoreKnown
  <2>3. OneRequestEach
    BY <1>4
  <2>4. \A d \in Clients : InStep(d)'
    BY <1>1, <1>4, <2>1, <2>2
  <2>5. \A d \in Clients : \A in : in.Username \in Clients /\ Comes(d, in) => Comes(d, in)'
    BY <2>2, MoreSeen DEF RoundsInOrder
  <2>6. OnionsOnce'
    BY <1>4, <2>3, <2>5 DEF OneRequestEach, OnionsOnce
  <2>7. QED BY <2>4, <2>6 DEF OneRequestEach
<1>5. CASE Service
  <2>1. Grows /\ \A d \in Clients : Keeps(d)
    BY <1>5, ServiceStep
  <2>2. /\ onions' = onions /\ scanned' = scanned /\ asked' = asked /\ approved' = approved
        /\ confirmed' = confirmed /\ crashes' = crashes
    BY <1>5 DEF Service, OpenRound, PublishRound, FailRound, volatile, rounds, bounds
  <2>3. QED BY <1>4, <2>1, <2>2
<1>6. CASE UNCHANGED vars
  BY <1>4, <1>6 DEF vars, memory, volatile, rounds, files, service, bounds, Keeps, Grows
<1>7. QED BY <1>2, <1>3, <1>5, <1>6 DEF Next

\* Two keys that come from the only requests two users made for each other are the same.
LEMMA OneRequestAgrees == ASSUME OneRequestEach PROVE KeysAgree
<1> SUFFICES ASSUME NEW a \in Clients, NEW b \in Clients, b \in DOMAIN wheel[a], a \in DOMAIN wheel[b]
             PROVE  wheel[a][b] = wheel[b][a]
  BY DEF KeysAgree
<1>1. /\ AskedOnce(a) /\ AskedOnce(b)
      /\ KeyFrom(a, b, wheel[a][b]) /\ KeyFrom(b, a, wheel[b][a])
  BY DEF OneRequestEach, InStep, KeysFrom
<1>2. PICK mine \in Known(a), theirs \in Known(b) :
        /\ mine.Username = b /\ theirs.Username = a /\ mine.DialRound = theirs.DialRound
        /\ wheel[a][b] = [Round |-> mine.DialRound, Secret |-> {theirs.DH, mine.DH}]
  BY <1>1 DEF KeyFrom
<1>3. PICK st \in Known(b), x \in Known(a) :
        /\ st.Username = a /\ x.Username = b /\ st.DialRound = x.DialRound
        /\ wheel[b][a] = [Round |-> st.DialRound, Secret |-> {x.DH, st.DH}]
  BY <1>1 DEF KeyFrom
<1>4. x = mine /\ st = theirs
  BY <1>1, <1>2, <1>3 DEF AskedOnce
<1>5. QED BY <1>2, <1>3, <1>4

\* When of two users at most one asks the other, and only once, and a client's send and mailbox
\* handlers do not overlap, two friends hold the same key until a process ends: whatever rounds
\* fail or deliver late, whoever else asks, whatever is rejected, cancelled or removed.
THEOREM FriendsAgree == ASSUME OneAsks, ~Overlap PROVE Spec => [](crashes = 0 => KeysAgree)
<1> DEFINE UntilCrash == crashes = 0 => OneRequestEach
<1>1. Init => UntilCrash
  <2> SUFFICES ASSUME Init PROVE OneRequestEach
    OBVIOUS
  <2>1. OnionsOnce
    BY DEF Init, OnionsOnce
  <2>2. ASSUME NEW c \in Clients PROVE InStep(c)
    <3>1. /\ outgoing[c] = << >> /\ incoming[c] = << >> /\ sent[c] = << >> /\ tasks[c] = {}
          /\ wheel[c] = << >> /\ approved[c] = {} /\ confirmed = {}
          /\ \A u \in Clients : asked[c][u] = 0
      BY DEF Init
    <3>2. Known(c) = {}
      BY <3>1 DEF Known, Travelling, Settled, Answered, ToSet
    <3>3. AskedOnce(c)
      BY <3>1, <3>2, AddFriendAssumption DEF AskedOnce, ConfirmsOnce, ToSet
    <3>4. Received(c)
      BY <3>1 DEF Received, ToSet
    <3>5. DecodedOnce(c)
      BY <3>1 DEF DecodedOnce
    <3>6. KeysFrom(c)
      BY <3>1 DEF KeysFrom
    <3>7. QED BY <3>3, <3>4, <3>5, <3>6 DEF InStep
  <2>3. QED BY <2>1, <2>2 DEF OneRequestEach
<1>2. IInv /\ AllMeet /\ UntilCrash /\ [Next]_vars => UntilCrash'
  BY OneRequestStep
<1>3. UntilCrash => (crashes = 0 => KeysAgree)
  BY OneRequestAgrees
<1> HIDE DEF UntilCrash
<1>4. QED BY <1>1, <1>2, <1>3, IInvHolds, PairsAlwaysMeet, PTL DEF Spec
=============================================================================
