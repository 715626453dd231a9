----------------------------- MODULE HubProofs ------------------------------
(***************************************************************************)
(* What holds of the hub, whatever the number of connections, rounds and   *)
(* replies, and whatever the room in a queue.                              *)
(***************************************************************************)
EXTENDS Hub, WellFoundedInduction, SequenceTheorems, TLAPS

Messages == [id : {"pkg", "mix", "mailbox", "error"}, round : Nat \cup {Nil}]

\* What a connection is given, and how it came.
Items == [msg : Messages, via : {"hub", "send"}]

Unregistered == {"new", "register"}
Ended == {"unregister_done", "unregister_serve", "unregister_failed", "done", "failed"}
Stages == Unregistered \cup {"snapshot", "connect", "serve"} \cup Ended

ConnType ==
    [stage : Stages, pending : Seq(Messages), mu : Tasks \cup {Nil, "handler"},
     queue : Seq(Items), closed : BOOLEAN, chan : {"open", "closed"}, panicked : BOOLEAN,
     writer : {"off", "run", "done"}, sock : {"open", "closed"}, got : Seq(Items), since : Nat]

TaskType ==
    [pc : {"idle", "lock", "next", "offer"}, msg : Messages \cup {Nil}, todo : SUBSET Conns,
     at : Conns \cup {Nil}]

\* Type invariant.
Types ==
    /\ conns \subseteq Conns
    /\ holder \in Tasks \cup {Nil}
    /\ conn \in [Conns -> ConnType]
    /\ latest \in [Kept -> Nat]
    /\ task \in [Tasks -> TaskType]
    /\ log \in Seq(Messages)

\* A goroutine that broadcasts holds Hub.mu, and its message is the last one of the log.
OneBroadcasts ==
    \A t \in Tasks :
        /\ task[t].pc \in {"idle", "lock"} => task[t].todo = {}
        /\ task[t].pc # "idle" => task[t].msg \in Messages
        /\ task[t].pc \in {"next", "offer"} =>
              /\ holder = t
              /\ log # << >> /\ task[t].msg = log[Len(log)]
        /\ task[t].pc = "offer" => task[t].at \in task[t].todo
        /\ task[t].todo \subseteq conns

\* A connection's channel is closed when its flag says so, which is before its handler
\* ends; the hub knows it from its registration until it is closed; and who holds its lock
\* to send has something to send.
ConnFits(r, known) ==
    /\ ~r.panicked
    /\ r.chan = "closed" <=> r.closed
    /\ r.stage \in Ended => r.closed
    /\ known => r.stage \notin Unregistered
    /\ r.stage \notin Unregistered /\ ~r.closed => known
    /\ r.stage \in Unregistered => r.got = << >> /\ r.queue = << >>
    /\ r.stage \in Unregistered \cup {"snapshot", "connect"} => r.writer = "off"
    /\ r.mu = "handler" => r.stage \in {"connect", "serve"} /\ r.pending # << >>

ConnsFit == \A c \in Conns : ConnFits(conn[c], c \in conns)

Given(r) == r.got \o r.queue
Due(r, sent) == SubSeq(sent, r.since + 1, Len(sent))

\* What connection r was given of the broadcasts since it was registered is how they begin,
\* and all of them but for the one that is on its way.
GivenOf(r, sent, toCome) ==
    /\ r.since <= Len(sent)
    /\ toCome => r.since < Len(sent)
    /\ IsPrefix(ByHub(r.got), Due(r, sent))
    /\ r.writer # "done" => IsPrefix(ByHub(Given(r)), Due(r, sent))
    /\ ~r.closed /\ r.writer # "done" =>
          ByHub(Given(r)) = IF toCome THEN Front(Due(r, sent)) ELSE Due(r, sent)

ToCome(c) == \E t \in Tasks : c \in task[t].todo

GivenAsSent == \A c \in Conns : Registered(c) => GivenOf(conn[c], log, ToCome(c))

\* From its registration on, an announcement that is the latest is on its way to connection
\* r: onConnect is still to read it, or sends it, or it was sent, or it is being broadcast.
OnTheWay(r, m, coming) ==
    ~r.closed /\ r.writer # "done" =>
        \/ r.stage = "snapshot"
        \/ r.stage = "connect" /\ \E i \in DOMAIN r.pending : r.pending[i] = m
        \/ \E i \in DOMAIN Given(r) : Given(r)[i].msg = m
        \/ coming

\* Message m is still to be broadcast to connection c.
IsComing(m, c) ==
    \E t \in Tasks : task[t].msg = m /\ (task[t].pc = "lock" \/ c \in task[t].todo)

LatestFor(r, c) ==
    \A id \in Kept : latest[id] > 0 =>
        OnTheWay(r, Message(id, latest[id]), IsComing(Message(id, latest[id]), c))

LatestIsOnTheWay == \A c \in Conns : Registered(c) => LatestFor(conn[c], c)

IInv == Types /\ OneBroadcasts /\ ConnsFit /\ GivenAsSent /\ LatestIsOnTheWay
-----------------------------------------------------------------------------
(***************************************************************************)
(* Sequences.                                                              *)
(***************************************************************************)

\* A non-empty set of natural numbers has a least element: what induction is used for here.
LEMMA Least ==
    ASSUME NEW S, S \subseteq Nat, S # {}
    PROVE  \E n \in S : \A m \in S : n <= m
<1> DEFINE R == OpToRel(<, Nat)
<1>1. PICK n \in S : \A m \in S : ~ (<<m, n>> \in R)
  <2>1. IsWellFoundedOn(R, Nat)
    BY NatLessThanWellFounded
  <2> HIDE DEF R
  <2>2. QED BY <2>1, WFMin
<1>2. ASSUME NEW m \in S, m < n PROVE FALSE
  <2>1. <<m, n>> \in {ss \in Nat \X Nat : ss[1] < ss[2]}
    BY <1>2
  <2>2. <<m, n>> \in R
    BY <2>1 DEF OpToRel
  <2> HIDE DEF R
  <2>3. QED BY <1>1, <2>2, Zenon
<1>3. \A m \in S : n <= m
  BY <1>2
<1>4. QED BY <1>3

\* The part of a sequence from its position k + 1 to n.
LEMMA Part ==
    ASSUME NEW S, NEW s \in Seq(S), NEW k \in Nat, NEW n \in Nat, k <= n, n <= Len(s)
    PROVE  /\ SubSeq(s, k + 1, n) \in Seq(S)
           /\ Len(SubSeq(s, k + 1, n)) = n - k
           /\ \A i \in 1 .. n - k : SubSeq(s, k + 1, n)[i] = s[k + i]
<1> DEFINE u == SubSeq(s, k + 1, n)
<1>1. k + 1 \in Int /\ n \in Int /\ \A i \in k + 1 .. n : s[i] \in S
  OBVIOUS
<1>2. /\ u \in Seq(S)
      /\ Len(u) = IF k + 1 <= n THEN n - (k + 1) + 1 ELSE 0
      /\ \A i \in 1 .. n - (k + 1) + 1 : u[i] = s[k + 1 + i - 1]
  <2> DEFINE j == k + 1
  <2>1. j \in Int /\ \A i \in j .. n : s[i] \in S
    BY <1>1
  <2> HIDE DEF j
  <2>2. /\ SubSeq(s, j, n) \in Seq(S)
        /\ Len(SubSeq(s, j, n)) = IF j <= n THEN n - j + 1 ELSE 0
        /\ \A i \in 1 .. n - j + 1 : SubSeq(s, j, n)[i] = s[j + i - 1]
    BY <1>1, <2>1, SubSeqProperties
  <2>3. QED BY <2>2 DEF j
<1> HIDE DEF u
<1>3. Len(u) = n - k
  BY <1>2
<1>4. \A i \in 1 .. n - k : u[i] = s[k + i]
  <2> SUFFICES ASSUME NEW i \in 1 .. n - k PROVE u[i] = s[k + i]
    OBVIOUS
  <2>1. i \in 1 .. n - (k + 1) + 1 /\ k + 1 + i - 1 = k + i
    OBVIOUS
  <2>2. QED BY <1>2, <2>1
<1>5. QED BY <1>2, <1>3, <1>4 DEF u

\* A prefix, position by position.
LEMMA PrefixMeans ==
    ASSUME NEW S, NEW s \in Seq(S), NEW t \in Seq(S)
    PROVE  IsPrefix(s, t) <=> Len(s) <= Len(t) /\ \A i \in 1 .. Len(s) : s[i] = t[i]
<1>1. Len(s) \in Nat /\ Len(t) \in Nat
  OBVIOUS
<1>2. SubSeq(s, 1, Len(s)) = s
  BY SubSeqFull
<1>3. CASE Len(s) <= Len(t)
  <2> DEFINE u == SubSeq(t, 1, Len(s))
  <2>1. \A i \in 1 .. Len(s) : t[i] \in S
    BY <1>1, <1>3
  <2>2. u \in Seq(S) /\ Len(u) = Len(s) /\ \A i \in 1 .. Len(s) : u[i] = t[i]
    <3>1. 0 \in Nat /\ 0 <= Len(s) /\ 0 + 1 = 1
      BY <1>1
    <3>2. /\ u \in Seq(S)
          /\ Len(u) = Len(s) - 0
          /\ \A i \in 1 .. Len(s) - 0 : u[i] = t[0 + i]
      BY <1>1, <1>3, <3>1, Part
    <3> HIDE DEF u
    <3>3. QED BY <1>1, <3>2
  <2>3. s = u <=> \A i \in 1 .. Len(s) : s[i] = t[i]
    <3> HIDE DEF u
    <3>1. ASSUME \A i \in 1 .. Len(s) : s[i] = t[i] PROVE s = u
      BY <2>2, <3>1, SeqEqual
    <3>2. QED BY <2>2, <3>1
  <2>4. QED BY <1>2, <1>3, <2>3 DEF IsPrefix
<1>4. CASE ~(Len(s) <= Len(t))
  BY <1>4 DEF IsPrefix
<1>5. QED BY <1>3, <1>4

LEMMA PrefixTrans ==
    ASSUME NEW S, NEW s \in Seq(S), NEW t \in Seq(S), NEW u \in Seq(S),
           IsPrefix(s, t), IsPrefix(t, u)
    PROVE  IsPrefix(s, u)
<1>1. Len(s) \in Nat /\ Len(t) \in Nat /\ Len(u) \in Nat
  OBVIOUS
<1>2. /\ Len(s) <= Len(t) /\ \A i \in 1 .. Len(s) : s[i] = t[i]
      /\ Len(t) <= Len(u) /\ \A i \in 1 .. Len(t) : t[i] = u[i]
  BY PrefixMeans
<1>3. Len(s) <= Len(u) /\ \A i \in 1 .. Len(s) : s[i] = u[i]
  BY <1>1, <1>2
<1>4. QED BY <1>3, PrefixMeans

LEMMA PrefixAppend ==
    ASSUME NEW S, NEW s \in Seq(S), NEW x \in S
    PROVE  IsPrefix(s, s) /\ IsPrefix(s, Append(s, x))
<1> DEFINE t == Append(s, x)
<1>1. t \in Seq(S) /\ Len(t) = Len(s) + 1 /\ Len(s) \in Nat
  OBVIOUS
<1>2. \A i \in 1 .. Len(s) : s[i] = t[i]
  BY AppendProperties
<1>3. IsPrefix(s, s)
  BY <1>1, PrefixMeans
<1> HIDE DEF t
<1>4. Len(s) <= Len(t)
  BY <1>1
<1>5. IsPrefix(s, t)
  BY <1>1, <1>2, <1>4, PrefixMeans
<1>6. QED BY <1>3, <1>5 DEF t

\* One step of the loop that ByHub is.
Step(s, f, n) ==
    IF n = 0 THEN << >>
    ELSE IF s[n].via = "hub" THEN Append(f[n - 1], s[n].msg) ELSE f[n - 1]

\* f is what that loop computes up to m.
IsLoop(s, f, m) ==
    f \in [0 .. m -> Seq(Messages)] /\ \A n \in 0 .. m : f[n] = Step(s, f, n)

\* The loop has a result for every length.
LEMMA LoopExists ==
    ASSUME NEW s \in Seq(Items), NEW m \in 0 .. Len(s)
    PROVE  \E f : IsLoop(s, f, m)
<1> DEFINE Good(n) == \E f : IsLoop(s, f, n)
           Bad == {n \in 0 .. Len(s) : ~Good(n)}
<1> SUFFICES Bad = {}
  OBVIOUS
<1> SUFFICES ASSUME Bad # {} PROVE FALSE
  OBVIOUS
<1>1. PICK n \in Bad : \A i \in Bad : n <= i
  <2> HIDE DEF Good
  <2>1. Bad \subseteq Nat
    OBVIOUS
  <2>2. QED BY <2>1, Least
<1>2. n \in 0 .. Len(s) /\ ~Good(n)
  OBVIOUS
<1>3. n # 0
  <2>1. SUFFICES ASSUME n = 0 PROVE FALSE
    OBVIOUS
  <2> DEFINE f == [i \in 0 .. 0 |-> << >>]
  <2>2. f \in [0 .. 0 -> Seq(Messages)]
    OBVIOUS
  <2>3. \A i \in 0 .. 0 : f[i] = Step(s, f, i)
    BY DEF Step
  <2>4. IsLoop(s, f, 0)
    <3> HIDE DEF f
    <3>1. QED BY <2>2, <2>3 DEF IsLoop
  <2>5. QED BY <1>2, <2>1, <2>4
<1>4. n - 1 \in 0 .. Len(s) /\ n - 1 \notin Bad
  <2> HIDE DEF Bad, Good
  <2>1. n \in Nat /\ Len(s) \in Nat
    BY <1>2
  <2>2. QED BY <1>1, <1>2, <1>3, <2>1
<1>5. PICK g : IsLoop(s, g, n - 1)
  BY <1>4
<1> DEFINE f == [i \in 0 .. n |-> IF i < n THEN g[i] ELSE Step(s, g, n)]
<1> HIDE DEF Bad, Good
<1>6. n \in Nat \ {0} /\ n - 1 \in 0 .. n - 1
  BY <1>2, <1>3
<1>7. Step(s, g, n) \in Seq(Messages)
  <2>1. g[n - 1] \in Seq(Messages) /\ s[n] \in Items
    BY <1>2, <1>5, <1>6 DEF IsLoop
  <2>2. s[n].msg \in Messages
    BY <2>1 DEF Items
  <2>3. Append(g[n - 1], s[n].msg) \in Seq(Messages)
    BY <2>1, <2>2
  <2>4. QED BY <1>6, <2>1, <2>3 DEF Step
<1>8. f \in [0 .. n -> Seq(Messages)]
  BY <1>5, <1>6, <1>7 DEF IsLoop
<1>9. \A i \in 0 .. n : f[i] = Step(s, f, i)
  <2> SUFFICES ASSUME NEW i \in 0 .. n PROVE f[i] = Step(s, f, i)
    OBVIOUS
  <2>1. i # 0 => f[i - 1] = g[i - 1]
    BY <1>6
  <2>2. Step(s, f, i) = Step(s, g, i)
    <3> HIDE DEF f
    <3>1. QED BY <2>1 DEF Step
  <2>3. CASE i < n
    BY <1>5, <1>6, <2>2, <2>3 DEF IsLoop
  <2>4. CASE i = n
    BY <1>6, <2>2, <2>4
  <2>5. QED BY <1>6, <2>3, <2>4
<1>10. Good(n)
  <2> HIDE DEF f
  <2>1. IsLoop(s, f, n)
    BY <1>8, <1>9 DEF IsLoop
  <2>2. QED BY <2>1 DEF Good
<1>11. QED BY <1>2, <1>10

LEMMA ByHubIsLoop ==
    ASSUME NEW s \in Seq(Items)
    PROVE  \E f : IsLoop(s, f, Len(s)) /\ ByHub(s) = f[Len(s)]
<1> DEFINE Loop(f) == [n \in 0 .. Len(s) |->
                         IF n = 0 THEN << >>
                         ELSE IF s[n].via = "hub" THEN Append(f[n - 1], s[n].msg) ELSE f[n - 1]]
           hub == CHOOSE f : f = Loop(f)
<1>1. ByHub(s) = hub[Len(s)]
  BY DEF ByHub
<1>2. PICK f : IsLoop(s, f, Len(s))
  <2>1. Len(s) \in 0 .. Len(s)
    OBVIOUS
  <2>2. QED BY <2>1, LoopExists
<1>3. hub = Loop(hub)
  <2> HIDE DEF hub
  <2>1. f = Loop(f)
    BY <1>2 DEF IsLoop, Step
  <2> HIDE DEF Loop
  <2>2. QED BY <2>1 DEF hub
<1> HIDE DEF hub
<1>4. \A n \in 0 .. Len(s) : hub[n] = Step(s, hub, n)
  BY <1>3 DEF Step
<1>5. \A n \in 0 .. Len(s) : hub[n] = f[n]
  <2> DEFINE Bad == {n \in 0 .. Len(s) : hub[n] # f[n]}
  <2> SUFFICES ASSUME Bad # {} PROVE FALSE
    OBVIOUS
  <2>1. PICK n \in Bad : \A i \in Bad : n <= i
    <3>1. Bad \subseteq Nat
      OBVIOUS
    <3>2. QED BY <3>1, Least
  <2>2. n # 0 => n - 1 \in 0 .. Len(s) /\ hub[n - 1] = f[n - 1]
    BY <2>1
  <2>3. QED BY <1>2, <1>4, <2>1, <2>2 DEF Step, IsLoop
<1>6. QED BY <1>1, <1>2, <1>5

\* The loop only looks at what it has come to.
LEMMA LoopsAgree ==
    ASSUME NEW s \in Seq(Items), NEW u \in Seq(Items), NEW f, NEW g, NEW m \in Nat,
           m <= Len(s), m <= Len(u), \A i \in 1 .. m : s[i] = u[i],
           IsLoop(s, f, Len(s)), IsLoop(u, g, Len(u))
    PROVE  \A n \in 0 .. m : f[n] = g[n]
<1> DEFINE Bad == {n \in 0 .. m : f[n] # g[n]}
<1> SUFFICES ASSUME Bad # {} PROVE FALSE
  OBVIOUS
<1>1. PICK n \in Bad : \A i \in Bad : n <= i
  <2>1. Bad \subseteq Nat
    OBVIOUS
  <2>2. QED BY <2>1, Least
<1>2. n # 0 => f[n - 1] = g[n - 1] /\ s[n] = u[n]
  BY <1>1
<1>3. f[n] = Step(s, f, n) /\ g[n] = Step(u, g, n)
  BY <1>1 DEF IsLoop
<1>4. QED BY <1>1, <1>2, <1>3 DEF Step

\* What was given is of messages.
LEMMA ByHubType ==
    ASSUME NEW s \in Seq(Items)
    PROVE  ByHub(s) \in Seq(Messages) /\ ByHub(<< >>) = << >>
<1>1. PICK f : IsLoop(s, f, Len(s)) /\ ByHub(s) = f[Len(s)]
  BY ByHubIsLoop
<1>2. << >> \in Seq(Items) /\ Len(<< >>) = 0
  OBVIOUS
<1>3. PICK g : IsLoop(<< >>, g, 0) /\ ByHub(<< >>) = g[0]
  <2>1. PICK g : IsLoop(<< >>, g, Len(<< >>)) /\ ByHub(<< >>) = g[Len(<< >>)]
    BY <1>2, ByHubIsLoop
  <2>2. QED BY <1>2, <2>1
<1>4. g[0] = << >>
  BY <1>3 DEF IsLoop, Step
<1>5. Len(s) \in 0 .. Len(s)
  OBVIOUS
<1>6. QED BY <1>1, <1>3, <1>4, <1>5 DEF IsLoop

LEMMA ByHubAppend ==
    ASSUME NEW s \in Seq(Items), NEW x \in Items
    PROVE  ByHub(Append(s, x)) = IF x.via = "hub" THEN Append(ByHub(s), x.msg) ELSE ByHub(s)
<1> DEFINE u == Append(s, x)
<1>1. /\ u \in Seq(Items) /\ Len(u) = Len(s) + 1 /\ Len(s) \in Nat
      /\ \A i \in 1 .. Len(s) : s[i] = u[i]
      /\ u[Len(u)] = x
  BY AppendProperties
<1> HIDE DEF u
<1>2. PICK f : IsLoop(s, f, Len(s)) /\ ByHub(s) = f[Len(s)]
  BY ByHubIsLoop
<1>3. PICK g : IsLoop(u, g, Len(u)) /\ ByHub(u) = g[Len(u)]
  BY <1>1, ByHubIsLoop
<1>4. f[Len(s)] = g[Len(s)]
  <2>1. \A n \in 0 .. Len(s) : f[n] = g[n]
    <3>1. Len(s) \in Nat /\ Len(s) <= Len(s) /\ Len(s) <= Len(u)
      BY <1>1
    <3>2. QED BY <1>1, <1>2, <1>3, <3>1, LoopsAgree
  <2>2. QED BY <1>1, <2>1
<1>5. g[Len(u)] = Step(u, g, Len(u)) /\ Len(u) # 0 /\ Len(u) - 1 = Len(s)
  BY <1>1, <1>3 DEF IsLoop
<1>6. QED BY <1>1, <1>2, <1>3, <1>4, <1>5 DEF Step, u

\* Whoever has read less has read a prefix.
LEMMA ByHubGrows ==
    ASSUME NEW s \in Seq(Items), NEW v \in Seq(Items), Len(s) <= Len(v),
           \A i \in 1 .. Len(s) : s[i] = v[i]
    PROVE  IsPrefix(ByHub(s), ByHub(v))
<1>1. Len(s) \in Nat /\ Len(v) \in Nat /\ Len(s) <= Len(s)
  OBVIOUS
<1>2. PICK f : IsLoop(s, f, Len(s)) /\ ByHub(s) = f[Len(s)]
  BY ByHubIsLoop
<1>3. PICK g : IsLoop(v, g, Len(v)) /\ ByHub(v) = g[Len(v)]
  BY <1>1, ByHubIsLoop
<1>4. f[Len(s)] = g[Len(s)]
  <2>1. \A n \in 0 .. Len(s) : f[n] = g[n]
    BY <1>1, <1>2, <1>3, LoopsAgree
  <2>2. QED BY <1>1, <2>1
<1> DEFINE Bad == {n \in 0 .. Len(v) : n >= Len(s) /\ ~IsPrefix(g[Len(s)], g[n])}
<1>5. Bad = {}
  <2> SUFFICES ASSUME Bad # {} PROVE FALSE
    OBVIOUS
  <2>1. PICK n \in Bad : \A i \in Bad : n <= i
    <3>1. Bad \subseteq Nat
      OBVIOUS
    <3>2. QED BY <3>1, Least
  <2>2. n \in 0 .. Len(v) /\ n >= Len(s) /\ ~IsPrefix(g[Len(s)], g[n])
    BY <2>1
  <2>3. g[Len(s)] \in Seq(Messages) /\ g[n] \in Seq(Messages)
    <3>1. Len(s) \in 0 .. Len(v)
      BY <1>1
    <3>2. QED BY <1>3, <2>2, <3>1 DEF IsLoop
  <2>4. n # Len(s)
    <3>1. IsPrefix(g[Len(s)], g[Len(s)])
      BY <2>3, PrefixMeans
    <3>2. QED BY <2>2, <3>1
  <2>5. n - 1 \in 0 .. Len(v) /\ n - 1 >= Len(s) /\ n # 0
    BY <1>1, <2>2, <2>4
  <2>6. IsPrefix(g[Len(s)], g[n - 1])
    BY <2>1, <2>5
  <2>7. g[n] = g[n - 1] \/ g[n] = Append(g[n - 1], v[n].msg)
    BY <1>3, <2>2, <2>5 DEF IsLoop, Step
  <2>8. v[n].msg \in Messages /\ g[n - 1] \in Seq(Messages)
    <3>1. v[n] \in Items
      BY <1>1, <2>2, <2>5
    <3>2. QED BY <1>3, <2>5, <3>1 DEF Items, IsLoop
  <2>9. IsPrefix(g[n - 1], g[n])
    BY <2>7, <2>8, PrefixAppend
  <2>10. QED BY <2>2, <2>3, <2>6, <2>8, <2>9, PrefixTrans
<1>6. IsPrefix(g[Len(s)], g[Len(v)])
  <2>1. Len(v) \in 0 .. Len(v) /\ Len(v) >= Len(s)
    BY <1>1
  <2>2. QED BY <1>5, <2>1
<1>7. QED BY <1>2, <1>3, <1>4, <1>6

LEMMA ByHubPrefix ==
    ASSUME NEW s \in Seq(Items), NEW u \in Seq(Items)
    PROVE  IsPrefix(ByHub(s), ByHub(s \o u))
<1> DEFINE v == s \o u
<1>1. /\ v \in Seq(Items) /\ Len(v) = Len(s) + Len(u) /\ Len(s) \in Nat /\ Len(u) \in Nat
      /\ \A i \in 1 .. Len(s) : s[i] = v[i]
  BY ConcatProperties
<1> HIDE DEF v
<1>2. Len(s) <= Len(v)
  BY <1>1
<1>3. QED BY <1>1, <1>2, ByHubGrows DEF v
-----------------------------------------------------------------------------
(***************************************************************************)
(* What a step does to one connection.                                     *)
(***************************************************************************)

\* The broadcasts since a connection was registered.
LEMMA DueFacts ==
    ASSUME NEW r \in ConnType, NEW sent \in Seq(Messages), r.since <= Len(sent)
    PROVE  /\ Due(r, sent) \in Seq(Messages)
           /\ Len(Due(r, sent)) = Len(sent) - r.since
           /\ \A i \in 1 .. Len(sent) - r.since : Due(r, sent)[i] = sent[r.since + i]
<1>1. r.since \in Nat /\ Len(sent) \in Nat /\ Len(sent) <= Len(sent)
  BY DEF ConnType
<1>2. QED BY <1>1, Part DEF Due

LEMMA FrontFacts ==
    ASSUME NEW S, NEW d \in Seq(S), d # << >>
    PROVE  /\ Front(d) \in Seq(S)
           /\ IsPrefix(Front(d), d)
           /\ Append(Front(d), d[Len(d)]) = d
<1> DEFINE f == SubSeq(d, 1, Len(d) - 1)
           u == Append(f, d[Len(d)])
<1>1. Len(d) \in Nat /\ Len(d) > 0
  OBVIOUS
<1>2. /\ f \in Seq(S) /\ Len(f) = Len(d) - 1
      /\ \A i \in 1 .. Len(d) - 1 : f[i] = d[i]
  <2> DEFINE n == Len(d) - 1
  <2>1. 0 \in Nat /\ n \in Nat /\ 0 <= n /\ n <= Len(d)
    BY <1>1
  <2> HIDE DEF n
  <2>2. /\ SubSeq(d, 0 + 1, n) \in Seq(S)
        /\ Len(SubSeq(d, 0 + 1, n)) = n - 0
        /\ \A i \in 1 .. n - 0 : SubSeq(d, 0 + 1, n)[i] = d[0 + i]
    BY <2>1, Part
  <2>3. /\ SubSeq(d, 1, n) \in Seq(S)
        /\ Len(SubSeq(d, 1, n)) = n
        /\ \A i \in 1 .. n : SubSeq(d, 1, n)[i] = d[i]
    <3>1. 0 + 1 = 1 /\ n - 0 = n /\ \A i \in 1 .. n : 0 + i = i
      BY <2>1
    <3>2. QED BY <2>2, <3>1
  <2>4. QED BY <2>3 DEF n
<1>3. Front(d) = f
  BY DEF Front
<1> HIDE DEF f
<1>4. IsPrefix(f, d)
  <2>1. Len(f) <= Len(d) /\ \A i \in 1 .. Len(f) : f[i] = d[i]
    BY <1>1, <1>2
  <2>2. QED BY <1>2, <2>1, PrefixMeans
<1>5. u = d
  <2>1. d[Len(d)] \in S
    BY <1>1
  <2>2. /\ u \in Seq(S) /\ Len(u) = Len(d) /\ u[Len(d)] = d[Len(d)]
        /\ \A i \in 1 .. Len(f) : u[i] = f[i]
    <3>1. /\ u \in Seq(S) /\ Len(u) = Len(f) + 1 /\ u[Len(f) + 1] = d[Len(d)]
          /\ \A i \in 1 .. Len(f) : u[i] = f[i]
      BY <1>2, <2>1, AppendProperties
    <3> HIDE DEF u
    <3>2. QED BY <1>1, <1>2, <3>1
  <2> HIDE DEF u
  <2>3. \A i \in 1 .. Len(u) : u[i] = d[i]
    BY <1>1, <1>2, <2>2
  <2>4. QED BY <2>2, <2>3, SeqEqual
<1>6. QED BY <1>2, <1>3, <1>4, <1>5

\* With one more broadcast one more is due.
LEMMA DueAppend ==
    ASSUME NEW r \in ConnType, NEW sent \in Seq(Messages), r.since <= Len(sent),
           NEW m \in Messages
    PROVE  /\ Due(r, Append(sent, m)) = Append(Due(r, sent), m)
           /\ Front(Due(r, Append(sent, m))) = Due(r, sent)
<1> DEFINE more == Append(sent, m)
           d == Due(r, sent)
           e == Due(r, more)
           a == Append(d, m)
           n == Len(sent) - r.since
<1>1. /\ more \in Seq(Messages) /\ Len(more) = Len(sent) + 1 /\ more[Len(sent) + 1] = m
      /\ \A i \in 1 .. Len(sent) : more[i] = sent[i]
  BY AppendProperties
<1>2. r.since \in Nat /\ Len(sent) \in Nat /\ n \in Nat
  BY DEF ConnType
<1> HIDE DEF more
<1>3. d \in Seq(Messages) /\ Len(d) = n /\ \A i \in 1 .. n : d[i] = sent[r.since + i]
  BY DueFacts
<1>4. /\ e \in Seq(Messages) /\ Len(e) = n + 1
      /\ \A i \in 1 .. n + 1 : e[i] = more[r.since + i]
  <2>1. r.since <= Len(more)
    BY <1>1, <1>2
  <2>2. /\ e \in Seq(Messages) /\ Len(e) = Len(more) - r.since
        /\ \A i \in 1 .. Len(more) - r.since : e[i] = more[r.since + i]
    BY <1>1, <2>1, DueFacts
  <2> HIDE DEF e
  <2>3. Len(more) - r.since = n + 1
    BY <1>1, <1>2
  <2>4. QED BY <2>2, <2>3
<1> HIDE DEF d, e
<1>5. a \in Seq(Messages) /\ Len(a) = n + 1 /\ a[n + 1] = m /\ \A i \in 1 .. n : a[i] = d[i]
  BY <1>3, AppendProperties
<1> HIDE DEF a
<1>6. e = a
  <2>1. \A i \in 1 .. n + 1 : e[i] = a[i]
    <3> SUFFICES ASSUME NEW i \in 1 .. n + 1 PROVE e[i] = a[i]
      OBVIOUS
    <3>1. CASE i = n + 1
      <4>1. r.since + i = Len(sent) + 1
        BY <1>2, <3>1
      <4>2. e[i] = m
        BY <1>1, <1>4, <4>1
      <4>3. QED BY <1>5, <3>1, <4>2
    <3>2. CASE i # n + 1
      <4>1. i \in 1 .. n /\ r.since + i \in 1 .. Len(sent)
        <5>1. i \in Int /\ 1 <= i /\ i <= n
          BY <1>2, <3>2
        <5>2. r.since + i \in Int /\ 1 <= r.since + i /\ r.since + i <= Len(sent)
          BY <1>2, <5>1
        <5> HIDE DEF n
        <5>3. QED BY <1>2, <5>1, <5>2
      <4>2. QED BY <1>1, <1>3, <1>4, <1>5, <4>1
    <3>3. QED BY <3>1, <3>2
  <2>2. QED BY <1>4, <1>5, <2>1, SeqEqual
<1>7. Front(e) = d
  <2>1. e # << >>
    BY <1>2, <1>4
  <2>2. Front(e) \in Seq(Messages) /\ Append(Front(e), e[Len(e)]) = e
    BY <1>4, <2>1, FrontFacts
  <2>3. e[Len(e)] = m
    BY <1>2, <1>4, <1>5, <1>6
  <2>4. Append(Front(e), m) = Append(d, m)
    BY <1>6, <2>2, <2>3 DEF a
  <2>5. QED BY <1>3, <2>2, <2>4, AppendInjective
<1>8. QED BY <1>6, <1>7 DEF a, e, more, d

\* What was given is a sequence of items, and one more in the queue is one more given.
LEMMA GivenFacts ==
    ASSUME NEW r \in ConnType
    PROVE  /\ Given(r) \in Seq(Items)
           /\ Len(Given(r)) = Len(r.got) + Len(r.queue)
<1>1. r.got \in Seq(Items) /\ r.queue \in Seq(Items)
  BY DEF ConnType
<1>2. QED BY <1>1, ConcatProperties DEF Given

\* Queues and what was read are put together in any order.
LEMMA ItemsAssociative ==
    ASSUME NEW a \in Seq(Items), NEW b \in Seq(Items), NEW c \in Seq(Items)
    PROVE  (a \o b) \o c = a \o (b \o c)
BY ConcatAssociative

LEMMA GivenAppend ==
    ASSUME NEW r \in ConnType, NEW s \in ConnType, NEW x \in Items,
           s.got = r.got, s.queue = Append(r.queue, x)
    PROVE  Given(s) = Append(Given(r), x)
<1>1. r.got \in Seq(Items) /\ r.queue \in Seq(Items) /\ <<x>> \in Seq(Items)
  BY DEF ConnType
<1>2. Given(s) = r.got \o (r.queue \o <<x>>)
  BY <1>1, AppendIsConcat DEF Given
<1>3. Given(s) = (r.got \o r.queue) \o <<x>>
  <2>1. (r.got \o r.queue) \o <<x>> = r.got \o (r.queue \o <<x>>)
    <3> DEFINE a == r.got
               q == r.queue
               y == <<x>>
    <3>1. a \in Seq(Items) /\ q \in Seq(Items) /\ y \in Seq(Items)
      BY <1>1
    <3> HIDE DEF a, q, y
    <3>2. (a \o q) \o y = a \o (q \o y)
      BY <3>1, ItemsAssociative
    <3>3. QED BY <3>2 DEF a, q, y
  <2>2. QED BY <1>2, <2>1
<1>4. QED BY <1>3, GivenFacts, AppendIsConcat DEF Given

\* Nothing was given, read or lost: at most the connection was closed or its writer ended.
LEMMA GivenKept ==
    ASSUME NEW r \in ConnType, NEW s \in ConnType, NEW sent, NEW b,
           s.got = r.got, s.queue = r.queue, s.since = r.since,
           r.closed => s.closed, r.writer = "done" => s.writer = "done",
           GivenOf(r, sent, b)
    PROVE  GivenOf(s, sent, b)
BY DEF GivenOf, Given, Due

LEMMA GivenEnds ==
    ASSUME NEW r \in ConnType, NEW s \in ConnType, NEW sent, NEW b,
           s.got = r.got, s.since = r.since, s.writer = "done",
           GivenOf(r, sent, b)
    PROVE  GivenOf(s, sent, b)
BY DEF GivenOf, Due

\* A reply or a kept announcement was queued.
LEMMA GivenSent ==
    ASSUME NEW r \in ConnType, NEW s \in ConnType, NEW sent, NEW b, NEW m \in Messages,
           s.got = r.got, s.queue = Append(r.queue, [msg |-> m, via |-> "send"]),
           s.since = r.since, s.closed = r.closed, s.writer = r.writer,
           GivenOf(r, sent, b)
    PROVE  GivenOf(s, sent, b)
<1> DEFINE x == [msg |-> m, via |-> "send"]
<1>1. x \in Items
  BY DEF Items
<1>2. ByHub(Given(s)) = ByHub(Given(r))
  <2>1. ByHub(Append(Given(r), x)) = ByHub(Given(r))
    BY <1>1, GivenFacts, ByHubAppend
  <2>2. QED BY <1>1, <2>1, GivenAppend
<1>3. QED BY <1>2 DEF GivenOf, Due

\* The broadcast that was on its way was queued.
LEMMA GivenOffered ==
    ASSUME NEW r \in ConnType, NEW s \in ConnType, NEW sent \in Seq(Messages), sent # << >>,
           s.got = r.got,
           s.queue = Append(r.queue, [msg |-> sent[Len(sent)], via |-> "hub"]),
           s.since = r.since, s.closed = r.closed, s.writer = r.writer,
           ~r.closed,
           GivenOf(r, sent, TRUE)
    PROVE  GivenOf(s, sent, FALSE)
<1> DEFINE m == sent[Len(sent)]
           x == [msg |-> m, via |-> "hub"]
           d == Due(r, sent)
<1>1. Len(sent) \in Nat \ {0} /\ m \in Messages /\ x \in Items
  BY DEF Items
<1>2. r.since < Len(sent) /\ r.since \in Nat
  BY DEF GivenOf, ConnType
<1>3. d \in Seq(Messages) /\ d # << >> /\ d[Len(d)] = m
  <2>1. r.since <= Len(sent)
    BY <1>1, <1>2
  <2>2. /\ d \in Seq(Messages) /\ Len(d) = Len(sent) - r.since
        /\ \A i \in 1 .. Len(sent) - r.since : d[i] = sent[r.since + i]
    BY <2>1, DueFacts
  <2> HIDE DEF d
  <2>3. Len(d) \in 1 .. Len(sent) - r.since /\ r.since + Len(d) = Len(sent)
    BY <1>1, <1>2, <2>2
  <2>4. QED BY <2>2, <2>3
<1>4. r.writer # "done" => ByHub(Given(s)) = d
  <2>1. SUFFICES ASSUME r.writer # "done" PROVE ByHub(Given(s)) = d
    OBVIOUS
  <2>2. ByHub(Given(r)) = Front(d)
    BY <2>1 DEF GivenOf
  <2>3. ByHub(Append(Given(r), x)) = Append(ByHub(Given(r)), m)
    BY <1>1, GivenFacts, ByHubAppend
  <2>4. Append(Front(d), d[Len(d)]) = d
    BY <1>3, FrontFacts
  <2>5. QED BY <1>1, <1>3, <2>2, <2>3, <2>4, GivenAppend
<1>5. IsPrefix(d, d)
  BY <1>3, PrefixMeans
<1>6. Due(s, sent) = d
  BY DEF Due
<1> HIDE DEF d
<1>7. IsPrefix(ByHub(s.got), d)
  BY <1>6 DEF GivenOf, d, Due
<1>8. QED BY <1>1, <1>2, <1>4, <1>5, <1>6, <1>7 DEF GivenOf

\* The first of the queue was read.
LEMMA GivenWritten ==
    ASSUME NEW r \in ConnType, NEW s \in ConnType, NEW sent, NEW b, r.queue # << >>,
           s.got = Append(r.got, Head(r.queue)), s.queue = Tail(r.queue),
           s.since = r.since, s.closed = r.closed, s.writer = r.writer, r.writer # "done",
           sent \in Seq(Messages),
           GivenOf(r, sent, b)
    PROVE  Given(s) = Given(r) /\ GivenOf(s, sent, b)
<1> DEFINE x == Head(r.queue)
           q == Tail(r.queue)
<1>1. /\ r.got \in Seq(Items) /\ r.queue \in Seq(Items)
      /\ s.got \in Seq(Items) /\ s.queue \in Seq(Items)
  BY DEF ConnType
<1>2. x \in Items /\ q \in Seq(Items) /\ <<x>> \in Seq(Items)
  BY <1>1, HeadTailProperties
<1>3. r.queue = <<x>> \o q
  <2> DEFINE u == <<x>> \o q
  <2>1. /\ u \in Seq(Items) /\ Len(u) = Len(r.queue)
        /\ \A i \in 1 .. Len(u) : u[i] = r.queue[i]
    <3>1. Len(<<x>>) = 1 /\ <<x>>[1] = x /\ Len(r.queue) \in Nat \ {0} /\ x = r.queue[1]
      BY <1>1
    <3>2. Len(q) = Len(r.queue) - 1 /\ \A i \in 1 .. Len(q) : q[i] = r.queue[i + 1]
      BY <1>1, HeadTailProperties
    <3>3. /\ u \in Seq(Items) /\ Len(u) = 1 + Len(q)
          /\ \A i \in 1 .. 1 + Len(q) : u[i] = IF i <= 1 THEN <<x>>[i] ELSE q[i - 1]
      BY <1>2, <3>1, ConcatProperties
    <3> HIDE DEF u, x, q
    <3>4. \A i \in 1 .. 1 + Len(q) : u[i] = r.queue[i]
      <4> SUFFICES ASSUME NEW i \in 1 .. 1 + Len(q) PROVE u[i] = r.queue[i]
        OBVIOUS
      <4>1. CASE i = 1
        BY <3>1, <3>3, <4>1
      <4>2. CASE i # 1
        <5>1. i - 1 \in 1 .. Len(q) /\ ~(i <= 1) /\ i - 1 + 1 = i
          BY <3>1, <3>2, <4>2
        <5>2. QED BY <3>2, <3>3, <5>1
      <4>3. QED BY <4>1, <4>2
    <3>5. QED BY <3>1, <3>2, <3>3, <3>4
  <2> HIDE DEF u
  <2>2. QED BY <1>1, <2>1, SeqEqual DEF u
<1>4. Given(s) = Given(r)
  <2>1. Given(s) = (r.got \o <<x>>) \o q
    BY <1>1, <1>2, AppendIsConcat DEF Given
  <2>2. Given(s) = r.got \o (<<x>> \o q)
    <3> DEFINE a == r.got
               y == <<x>>
    <3>1. a \in Seq(Items) /\ q \in Seq(Items) /\ y \in Seq(Items)
      BY <1>1, <1>2
    <3> HIDE DEF a, q, y
    <3>2. (a \o y) \o q = a \o (y \o q)
      BY <3>1, ItemsAssociative
    <3>3. QED BY <2>1, <3>2 DEF a, q, y
  <2>3. QED BY <1>3, <2>2 DEF Given
<1>5. IsPrefix(ByHub(s.got), ByHub(Given(s)))
  BY <1>1, ByHubPrefix DEF Given
<1>6. Due(s, sent) = Due(r, sent) /\ IsPrefix(ByHub(Given(s)), Due(r, sent))
  BY <1>4 DEF Due, GivenOf
<1>7. IsPrefix(ByHub(s.got), Due(s, sent))
  <2>1. Due(r, sent) \in Seq(Messages)
    <3>1. r.since <= Len(sent)
      BY DEF GivenOf
    <3>2. QED BY <3>1, DueFacts
  <2>2. ByHub(s.got) \in Seq(Messages) /\ ByHub(Given(s)) \in Seq(Messages)
    BY <1>1, GivenFacts, ByHubType
  <2>3. QED BY <1>5, <1>6, <2>1, <2>2, PrefixTrans
<1>8. QED BY <1>4, <1>6, <1>7 DEF GivenOf

\* Another broadcast began, and is on its way to whom the hub knows.
LEMMA GivenLogged ==
    ASSUME NEW r \in ConnType, NEW sent \in Seq(Messages), NEW m \in Messages,
           NEW b \in BOOLEAN, ~r.closed => b,
           GivenOf(r, sent, FALSE)
    PROVE  GivenOf(r, Append(sent, m), b)
<1> DEFINE d == Due(r, sent)
           e == Due(r, Append(sent, m))
<1>1. r.since \in Nat /\ Len(sent) \in Nat /\ r.since <= Len(sent)
      /\ Len(Append(sent, m)) = Len(sent) + 1
  BY DEF ConnType, GivenOf
<1>2. d \in Seq(Messages) /\ e = Append(d, m) /\ Front(e) = d
  BY <1>1, DueFacts, DueAppend
<1>3. IsPrefix(d, e) /\ e \in Seq(Messages)
  <2> HIDE DEF d, e
  <2>1. QED BY <1>2, PrefixAppend
<1>4. r.got \in Seq(Items) /\ Given(r) \in Seq(Items)
  BY GivenFacts DEF ConnType
<1>5. ByHub(r.got) \in Seq(Messages) /\ ByHub(Given(r)) \in Seq(Messages)
  BY <1>4, ByHubType
<1>6. IsPrefix(ByHub(r.got), e)
  <2>1. IsPrefix(ByHub(r.got), d)
    BY DEF GivenOf
  <2> HIDE DEF d, e
  <2>2. QED BY <1>2, <1>3, <1>5, <2>1, PrefixTrans
<1>7. r.writer # "done" => IsPrefix(ByHub(Given(r)), e)
  <2>1. r.writer # "done" => IsPrefix(ByHub(Given(r)), d)
    BY DEF GivenOf
  <2> HIDE DEF d, e
  <2>2. QED BY <1>2, <1>3, <1>5, <2>1, PrefixTrans
<1>8. ~r.closed /\ r.writer # "done" => b /\ ByHub(Given(r)) = Front(e)
  <2>1. ~r.closed /\ r.writer # "done" => ByHub(Given(r)) = d
    BY DEF GivenOf
  <2> HIDE DEF d, e
  <2>2. QED BY <1>2, <2>1
<1> HIDE DEF d
<1>9. r.since < Len(Append(sent, m)) /\ r.since <= Len(Append(sent, m))
  BY <1>1
<1>10. QED BY <1>6, <1>7, <1>8, <1>9 DEF GivenOf

-----------------------------------------------------------------------------
(***************************************************************************)
(* The steps.                                                              *)
(***************************************************************************)

\* While nobody holds Hub.mu no broadcast is on its way.
LEMMA NobodyBroadcasts ==
    ASSUME IInv, holder = Nil
    PROVE  \A t \in Tasks : task[t].todo = {}
<1> SUFFICES ASSUME NEW t \in Tasks PROVE task[t].todo = {}
  OBVIOUS
<1>1. holder # t
  BY NilAssumption DEF Tasks
<1>2. task[t].pc \in {"idle", "lock", "next", "offer"}
  BY DEF IInv, Types, TaskType
<1>3. QED BY <1>1, <1>2 DEF IInv, OneBroadcasts

\* A step that changes one connection, and perhaps whether the hub knows it.
LEMMA OneConn ==
    ASSUME IInv, NEW c \in Conns, NEW r \in ConnType,
           conn' = [conn EXCEPT ![c] = r],
           UNCHANGED <<holder, latest, task, log>>,
           conns' = conns \/ (holder = Nil /\ conns' \in {conns \cup {c}, conns \ {c}}),
           ConnFits(r, c \in conns'),
           r.stage \notin Unregistered => GivenOf(r, log, ToCome(c)) /\ LatestFor(r, c)
    PROVE  IInv'
<1>1. conn'[c] = r /\ \A d \in Conns \ {c} : conn'[d] = conn[d]
  BY DEF IInv, Types
<1>2. Types'
  BY DEF IInv, Types
<1>3. OneBroadcasts'
  <2> SUFFICES ASSUME NEW t \in Tasks PROVE (task[t].todo \subseteq conns)'
    BY DEF IInv, OneBroadcasts
  <2>1. CASE conns' = conns
    BY <2>1 DEF IInv, OneBroadcasts
  <2>2. CASE holder = Nil
    BY <2>2, NobodyBroadcasts
  <2>3. QED BY <2>1, <2>2
<1>4. ConnsFit'
  <2> SUFFICES ASSUME NEW d \in Conns PROVE ConnFits(conn'[d], d \in conns')
    BY DEF ConnsFit
  <2>1. CASE d = c
    BY <1>1, <2>1
  <2>2. CASE d # c
    <3>1. conn'[d] = conn[d] /\ (d \in conns' <=> d \in conns)
      BY <1>1, <2>2
    <3>2. QED BY <3>1 DEF IInv, ConnsFit, ConnFits
  <2>3. QED BY <2>1, <2>2
<1>5. \A d \in Conns : ToCome(d)' <=> ToCome(d)
  BY DEF ToCome
<1>6. GivenAsSent'
  <2> SUFFICES ASSUME NEW d \in Conns, Registered(d)' PROVE GivenOf(conn'[d], log, ToCome(d))
    BY DEF GivenAsSent, ToCome
  <2>1. CASE d = c
    BY <1>1, <2>1 DEF Registered, Unregistered
  <2>2. CASE d # c
    BY <1>1, <2>2 DEF IInv, GivenAsSent, Registered
  <2>3. QED BY <2>1, <2>2
<1>7. LatestIsOnTheWay'
  <2> SUFFICES ASSUME NEW d \in Conns, Registered(d)' PROVE LatestFor(conn'[d], d)
    BY DEF LatestIsOnTheWay, LatestFor, IsComing
  <2>1. CASE d = c
    BY <1>1, <2>1 DEF Registered, Unregistered
  <2>2. CASE d # c
    BY <1>1, <2>2 DEF IInv, LatestIsOnTheWay, Registered
  <2>3. QED BY <2>1, <2>2
<1>8. QED BY <1>2, <1>3, <1>4, <1>6, <1>7 DEF IInv

\* What is known of one connection.
LEMMA ConnFacts ==
    ASSUME IInv, NEW c \in Conns
    PROVE  /\ conn[c] \in ConnType
           /\ ConnFits(conn[c], c \in conns)
           /\ conn[c].stage \notin Unregistered =>
                GivenOf(conn[c], log, ToCome(c)) /\ LatestFor(conn[c], c)
BY DEF IInv, Types, ConnsFit, GivenAsSent, LatestIsOnTheWay, Registered, Unregistered

LEMMA DialKeeps ==
    ASSUME IInv, NEW c \in Conns, Dial(c)
    PROVE  IInv'
<1>1. PICK r : r = [conn[c] EXCEPT !.stage = "register"]
  OBVIOUS
<1>2. conn[c].stage = "new" /\ conn' = [conn EXCEPT ![c] = r]
  BY <1>1 DEF Dial
<1>3. r \in ConnType
  BY <1>1, ConnFacts DEF ConnType, Stages, Unregistered
<1>4. UNCHANGED <<conns, holder, latest, task, log>>
  BY DEF Dial, handlerUnchanged
<1>5. ConnFits(r, c \in conns')
  BY <1>1, <1>2, <1>4, ConnFacts DEF ConnFits, ConnType, Unregistered, Ended
<1>6. r.stage \in Unregistered
  BY <1>1, ConnFacts DEF ConnType, Unregistered
<1>7. QED BY <1>2, <1>3, <1>4, <1>5, <1>6, OneConn

\* From here on each broadcast is for this connection.
LEMMA registerKeeps ==
    ASSUME IInv, NEW c \in Conns, register(c)
    PROVE  IInv'
<1>1. PICK r : r = [conn[c] EXCEPT !.stage = "snapshot", !.since = Len(log)]
  OBVIOUS
<1>2. /\ conn[c].stage = "register" /\ conn' = [conn EXCEPT ![c] = r]
      /\ holder = Nil /\ conns' = conns \cup {c}
  BY <1>1 DEF register
<1>3. log \in Seq(Messages) /\ Len(log) \in Nat
  BY DEF IInv, Types
<1>4. r \in ConnType /\ r.since = Len(log) /\ r.stage = "snapshot"
  BY <1>1, <1>3, ConnFacts DEF ConnType, Stages
<1>5. UNCHANGED <<holder, latest, task, log>>
  BY DEF register, handlerUnchanged
<1>6. r.got = << >> /\ r.queue = << >>
  BY <1>1, <1>2, ConnFacts DEF ConnFits, ConnType, Unregistered
<1>7. ConnFits(r, c \in conns')
  BY <1>1, <1>2, ConnFacts DEF ConnFits, ConnType, Unregistered, Ended
<1>8. GivenOf(r, log, ToCome(c))
  <2>1. ~ToCome(c)
    BY <1>2, NobodyBroadcasts DEF ToCome
  <2>2. Due(r, log) = << >>
    <3>1. Due(r, log) \in Seq(Messages) /\ Len(Due(r, log)) = 0
      BY <1>3, <1>4, DueFacts
    <3>2. QED BY <3>1, EmptySeq
  <2>3. Given(r) = << >> /\ ByHub(<< >>) = << >>
    <3>1. << >> \in Seq(Items)
      OBVIOUS
    <3>2. QED BY <1>6, <3>1, ConcatEmptySeq, ByHubType DEF Given
  <2>4. IsPrefix(<< >>, << >>)
    <3> DEFINE e == << >>
    <3>1. e \in Seq(Messages)
      OBVIOUS
    <3> HIDE DEF e
    <3>2. IsPrefix(e, e)
      BY <3>1, PrefixMeans
    <3>3. QED BY <3>2 DEF e
  <2>5. QED BY <1>3, <1>4, <1>6, <2>1, <2>2, <2>3, <2>4 DEF GivenOf
<1>9. LatestFor(r, c)
  BY <1>4 DEF LatestFor, OnTheWay
<1>10. QED BY <1>2, <1>4, <1>5, <1>7, <1>8, <1>9, OneConn

\* The latest announcements are among those that onConnect reads.
LEMMA LatestIsRead ==
    ASSUME IInv
    PROVE  /\ Latest \in Seq(Messages)
           /\ \A id \in Kept : latest[id] > 0 =>
                \E i \in DOMAIN Latest : Latest[i] = Message(id, latest[id])
<1> DEFINE Of(id) == IF latest[id] = 0 THEN << >> ELSE <<Message(id, latest[id])>>
           a == Of("mix")
           b == Of("pkg")
<1>1. latest["mix"] \in Nat /\ latest["pkg"] \in Nat
  BY DEF IInv, Types, Kept
<1>2. Message("mix", latest["mix"]) \in Messages /\ Message("pkg", latest["pkg"]) \in Messages
  BY <1>1 DEF Message, Messages
<1>3. a \in Seq(Messages) /\ b \in Seq(Messages)
  BY <1>2
<1>4. Latest = a \o b
  BY DEF Latest
<1>5. /\ latest["mix"] > 0 => Len(a) = 1 /\ a[1] = Message("mix", latest["mix"])
      /\ latest["pkg"] > 0 => Len(b) = 1 /\ b[1] = Message("pkg", latest["pkg"])
  BY <1>1
<1> HIDE DEF a, b
<1> DEFINE l == a \o b
<1>6. /\ l \in Seq(Messages) /\ Len(l) = Len(a) + Len(b)
      /\ \A i \in 1 .. Len(a) + Len(b) : l[i] = IF i <= Len(a) THEN a[i] ELSE b[i - Len(a)]
  BY <1>3, ConcatProperties
<1> HIDE DEF l
<1>7. latest["mix"] > 0 => 1 \in DOMAIN l /\ l[1] = Message("mix", latest["mix"])
  BY <1>3, <1>5, <1>6
<1>8. latest["pkg"] > 0 =>
        Len(a) + 1 \in DOMAIN l /\ l[Len(a) + 1] = Message("pkg", latest["pkg"])
  <2> SUFFICES ASSUME latest["pkg"] > 0
               PROVE  Len(a) + 1 \in DOMAIN l /\ l[Len(a) + 1] = Message("pkg", latest["pkg"])
    OBVIOUS
  <2>1. Len(b) = 1 /\ Len(a) \in Nat /\ Len(a) + 1 - Len(a) = 1
    BY <1>3, <1>5
  <2>2. Len(a) + 1 \in 1 .. Len(a) + Len(b) /\ ~(Len(a) + 1 <= Len(a))
    BY <2>1
  <2>3. QED BY <1>5, <1>6, <2>1, <2>2
<1>9. QED BY <1>4, <1>6, <1>7, <1>8 DEF Kept, l

LEMMA onConnectKeeps ==
    ASSUME IInv, NEW c \in Conns, onConnect(c)
    PROVE  IInv'
<1>1. PICK r : r = [conn[c] EXCEPT !.stage = "connect", !.pending = Latest]
  OBVIOUS
<1>2. conn[c].stage = "snapshot" /\ conn' = [conn EXCEPT ![c] = r]
  BY <1>1 DEF onConnect
<1>3. /\ r \in ConnType /\ r.stage = "connect" /\ r.pending = Latest
      /\ r.got = conn[c].got /\ r.queue = conn[c].queue /\ r.since = conn[c].since
      /\ r.closed = conn[c].closed /\ r.writer = conn[c].writer
  BY <1>1, ConnFacts, LatestIsRead DEF ConnType, Stages
<1>4. UNCHANGED <<conns, holder, latest, task, log>>
  BY DEF onConnect, handlerUnchanged
<1>5. ConnFits(r, c \in conns')
  BY <1>1, <1>2, <1>4, ConnFacts DEF ConnFits, ConnType, Unregistered, Ended
<1>6. GivenOf(r, log, ToCome(c))
  BY <1>2, <1>3, ConnFacts, GivenKept DEF Unregistered
<1>7. LatestFor(r, c)
  BY <1>3, LatestIsRead DEF LatestFor, OnTheWay
<1>8. QED BY <1>2, <1>3, <1>4, <1>5, <1>6, <1>7, OneConn

LEMMA incomingOnionKeeps ==
    ASSUME IInv, NEW c \in Conns, incomingOnion(c)
    PROVE  IInv'
<1>1. PICK r : r = [conn[c] EXCEPT !.pending = <<Message("error", Nil)>>]
  OBVIOUS
<1>2. conn[c].stage = "serve" /\ conn' = [conn EXCEPT ![c] = r]
  BY <1>1 DEF incomingOnion
<1>3. <<Message("error", Nil)>> \in Seq(Messages)
  <2>1. Message("error", Nil) \in Messages
    BY DEF Message, Messages
  <2>2. QED BY <2>1
<1>4. /\ r \in ConnType /\ r.stage = "serve"
      /\ r.got = conn[c].got /\ r.queue = conn[c].queue /\ r.since = conn[c].since
      /\ r.closed = conn[c].closed /\ r.writer = conn[c].writer
  BY <1>1, <1>2, <1>3, ConnFacts DEF ConnType
<1>5. UNCHANGED <<conns, holder, latest, task, log>>
  BY DEF incomingOnion, handlerUnchanged
<1>6. ConnFits(r, c \in conns')
  BY <1>1, <1>2, <1>5, ConnFacts DEF ConnFits, ConnType, Unregistered, Ended
<1>7. GivenOf(r, log, ToCome(c))
  BY <1>2, <1>4, ConnFacts, GivenKept DEF Unregistered
<1>8. LatestFor(r, c)
  BY <1>2, <1>4, ConnFacts DEF LatestFor, OnTheWay, Given, Unregistered
<1>9. QED BY <1>2, <1>4, <1>5, <1>6, <1>7, <1>8, OneConn

LEMMA SendLockKeeps ==
    ASSUME IInv, NEW c \in Conns, SendLock(c)
    PROVE  IInv'
<1>1. PICK r : r = [conn[c] EXCEPT !.mu = "handler"]
  OBVIOUS
<1>2. conn[c].stage \in {"connect", "serve"} /\ conn' = [conn EXCEPT ![c] = r]
  BY <1>1 DEF SendLock
<1>3. /\ r \in ConnType /\ r.stage = conn[c].stage /\ r.pending = conn[c].pending
      /\ r.got = conn[c].got /\ r.queue = conn[c].queue /\ r.since = conn[c].since
      /\ r.closed = conn[c].closed /\ r.writer = conn[c].writer
  BY <1>1, ConnFacts DEF ConnType
<1>4. UNCHANGED <<conns, holder, latest, task, log>>
  BY DEF SendLock, handlerUnchanged
<1>5. ConnFits(r, c \in conns')
  <2>1. r.pending # << >>
    BY <1>3 DEF SendLock
  <2>2. QED BY <1>1, <1>2, <1>3, <1>4, <2>1, ConnFacts DEF ConnFits, ConnType
<1>6. GivenOf(r, log, ToCome(c))
  BY <1>2, <1>3, ConnFacts, GivenKept DEF Unregistered
<1>7. LatestFor(r, c)
  BY <1>2, <1>3, ConnFacts DEF LatestFor, OnTheWay, Given, Unregistered
<1>8. QED BY <1>2, <1>3, <1>4, <1>5, <1>6, <1>7, OneConn

\* An item more in the queue is given, and what was given stays so.
LEMMA AppendedIsGiven ==
    ASSUME NEW r \in ConnType, NEW s \in ConnType, NEW x \in Items,
           s.got = r.got, s.queue = Append(r.queue, x)
    PROVE  /\ \E i \in DOMAIN Given(s) : Given(s)[i] = x
           /\ \A i \in DOMAIN Given(r) : i \in DOMAIN Given(s) /\ Given(s)[i] = Given(r)[i]
<1>1. Given(s) = Append(Given(r), x) /\ Given(r) \in Seq(Items)
  BY GivenAppend, GivenFacts
<1> DEFINE g == Given(r)
           h == Given(s)
<1>2. /\ h \in Seq(Items) /\ Len(h) = Len(g) + 1 /\ Len(g) \in Nat
      /\ h[Len(g) + 1] = x /\ \A i \in 1 .. Len(g) : h[i] = g[i]
  BY <1>1, AppendProperties
<1> HIDE DEF g, h
<1>3. DOMAIN g = 1 .. Len(g) /\ DOMAIN h = 1 .. Len(h)
  BY <1>1, <1>2 DEF g
<1>4. Len(g) + 1 \in DOMAIN h /\ \A i \in DOMAIN g : i \in DOMAIN h /\ h[i] = g[i]
  BY <1>2, <1>3
<1>5. QED BY <1>2, <1>4 DEF g, h

\* Send queues the message, or gives up because the connection is closed, or closes it.
LEMMA SendKeeps ==
    ASSUME IInv, NEW c \in Conns, Send(c)
    PROVE  IInv'
<1> DEFINE q == conn[c]
           m == Head(q.pending)
           sent == [Offer(q, m, "send") EXCEPT !.mu = Nil]
<1>1. PICK r : r = CASE q.closed -> [sent EXCEPT !.pending = << >>, !.stage = AfterError(q.stage)]
                     [] ~q.closed /\ HasRoom(q) -> [sent EXCEPT !.pending = Tail(@)]
                     [] ~q.closed /\ ~HasRoom(q) -> [sent EXCEPT !.pending = << >>,
                                                         !.stage = UnregisterThen(q.stage)]
  OBVIOUS
<1>2. q.stage \in {"connect", "serve"} /\ conn' = [conn EXCEPT ![c] = r]
  BY <1>1 DEF Send
<1>3. UNCHANGED <<conns, holder, latest, task, log>>
  BY DEF Send, handlerUnchanged
<1>4. q \in ConnType /\ ConnFits(q, c \in conns) /\ GivenOf(q, log, ToCome(c)) /\ LatestFor(q, c)
  BY <1>2, ConnFacts DEF Unregistered
<1>5. << >> \in Seq(Messages) /\ Nil \in Tasks \cup {Nil, "handler"}
  OBVIOUS
<1>6. CASE q.closed
  <2>1. r = [q EXCEPT !.mu = Nil, !.pending = << >>, !.stage = AfterError(q.stage)]
    BY <1>1, <1>4, <1>6 DEF Offer, ConnType
  <2>2. AfterError(q.stage) \in {"failed", "serve"}
    BY DEF AfterError
  <2>3. /\ r \in ConnType /\ r.stage \in {"failed", "serve"} /\ r.closed
        /\ r.got = q.got /\ r.queue = q.queue /\ r.since = q.since
        /\ r.closed = q.closed /\ r.writer = q.writer /\ r.chan = q.chan
        /\ r.panicked = q.panicked /\ r.mu = Nil
    BY <1>4, <1>5, <1>6, <2>1, <2>2 DEF ConnType, Stages, Ended
  <2> HIDE DEF q
  <2>4. ConnFits(r, c \in conns')
    BY <1>2, <1>3, <1>4, <2>3, NilAssumption DEF ConnFits, Unregistered
  <2>5. GivenOf(r, log, ToCome(c)) /\ LatestFor(r, c)
    BY <1>4, <2>3, GivenKept DEF LatestFor, OnTheWay
  <2>6. QED BY <1>2, <1>3, <2>3, <2>4, <2>5, OneConn
<1>7. CASE ~q.closed /\ HasRoom(q)
  <2> DEFINE x == [msg |-> m, via |-> "send"]
  <2>1. r = [Enqueue(q, m, "send") EXCEPT !.mu = Nil, !.pending = Tail(@)]
    BY <1>1, <1>7 DEF Offer
  <2>2. q.pending \in Seq(Messages) /\ q.pending # << >>
    BY <1>4 DEF Send, ConnFits, ConnType
  <2>3. m \in Messages /\ Tail(q.pending) \in Seq(Messages) /\ x \in Items
    BY <2>2, HeadTailProperties DEF Items
  <2>4. Append(q.queue, x) \in Seq(Items)
    BY <1>4, <2>3 DEF ConnType
  <2>5. /\ r \in ConnType /\ r.stage = q.stage /\ r.pending = Tail(q.pending) /\ r.mu = Nil
        /\ r.got = q.got /\ r.queue = Append(q.queue, x) /\ r.since = q.since
        /\ r.closed = q.closed /\ r.writer = q.writer /\ r.chan = q.chan
        /\ r.panicked = (q.panicked \/ q.chan = "closed")
    <3> HIDE DEF q, m
    <3>1. r = [q EXCEPT !.queue = Append(q.queue, x), !.panicked = q.panicked \/ q.chan = "closed",
                        !.mu = Nil, !.pending = Tail(q.pending)]
      BY <1>4, <2>1 DEF Enqueue, ConnType
    <3> HIDE DEF x
    <3>2. QED BY <1>4, <1>5, <2>3, <2>4, <3>1 DEF ConnType
  <2>6. ConnFits(r, c \in conns')
    <3> HIDE DEF q
    <3>1. QED BY <1>2, <1>3, <1>4, <1>7, <2>5, NilAssumption DEF ConnFits, Unregistered, Ended
  <2>7. GivenOf(r, log, ToCome(c))
    BY <1>4, <2>3, <2>5, GivenSent
  <2>8. LatestFor(r, c)
    <3> SUFFICES ASSUME NEW id \in Kept, latest[id] > 0
                 PROVE  OnTheWay(r, Message(id, latest[id]), IsComing(Message(id, latest[id]), c))
      BY DEF LatestFor
    <3> DEFINE k == Message(id, latest[id])
    <3>1. OnTheWay(q, k, IsComing(k, c))
      BY <1>4 DEF LatestFor
    <3> HIDE DEF q, k, x
    <3>2. /\ \E i \in DOMAIN Given(r) : Given(r)[i] = x
          /\ \A i \in DOMAIN Given(q) : i \in DOMAIN Given(r) /\ Given(r)[i] = Given(q)[i]
      BY <1>4, <2>3, <2>5, AppendedIsGiven
    <3>3. (\E i \in DOMAIN Given(q) : Given(q)[i].msg = k)
            => \E i \in DOMAIN Given(r) : Given(r)[i].msg = k
      BY <3>2
    <3>4. (\E i \in DOMAIN q.pending : q.pending[i] = k)
            => \/ \E i \in DOMAIN r.pending : r.pending[i] = k
               \/ \E i \in DOMAIN Given(r) : Given(r)[i].msg = k
      <4> SUFFICES ASSUME NEW i \in DOMAIN q.pending, q.pending[i] = k
                   PROVE  \/ \E j \in DOMAIN r.pending : r.pending[j] = k
                          \/ \E j \in DOMAIN Given(r) : Given(r)[j].msg = k
        OBVIOUS
      <4>1. CASE i = 1
        <5>1. m = q.pending[1]
          BY <2>2
        <5>2. x.msg = k
          BY <4>1, <5>1 DEF x
        <5>3. QED BY <3>2, <5>2
      <4>2. CASE i # 1
        <5>1. i \in 2 .. Len(q.pending)
          BY <2>2, <4>2
        <5>2. i - 1 \in DOMAIN Tail(q.pending) /\ Tail(q.pending)[i - 1] = q.pending[i]
          BY <2>2, <5>1, HeadTailProperties
        <5>3. QED BY <2>5, <5>2
      <4>3. QED BY <4>1, <4>2
    <3>5. QED BY <2>5, <3>1, <3>3, <3>4 DEF OnTheWay, k
  <2>9. r.stage \notin Unregistered
    BY <1>2, <2>5 DEF Unregistered
  <2>10. QED BY <1>2, <1>3, <2>5, <2>6, <2>7, <2>8, OneConn
<1>8. CASE ~q.closed /\ ~HasRoom(q)
  <2>1. r = [CloseChan(q) EXCEPT !.mu = Nil, !.pending = << >>, !.stage = UnregisterThen(q.stage)]
    BY <1>1, <1>8 DEF Offer
  <2>2. UnregisterThen(q.stage) \in {"unregister_failed", "unregister_serve"}
    BY DEF UnregisterThen
  <2>3. /\ r \in ConnType /\ r.stage \in {"unregister_failed", "unregister_serve"} /\ r.closed
        /\ r.got = q.got /\ r.queue = q.queue /\ r.since = q.since
        /\ r.writer = q.writer /\ r.chan = "closed"
        /\ r.panicked = (q.panicked \/ q.chan = "closed") /\ r.mu = Nil
    <3>1. PICK w : w = CloseChan(q)
      OBVIOUS
    <3>2. /\ w \in ConnType /\ w.closed /\ w.chan = "closed"
          /\ w.got = q.got /\ w.queue = q.queue /\ w.since = q.since /\ w.writer = q.writer
          /\ w.panicked = (q.panicked \/ q.chan = "closed")
      BY <1>4, <3>1 DEF CloseChan, ConnType
    <3>3. r = [w EXCEPT !.mu = Nil, !.pending = << >>, !.stage = UnregisterThen(q.stage)]
      BY <2>1, <3>1
    <3>4. UnregisterThen(q.stage) \in Stages
      BY <2>2 DEF Stages, Ended
    <3> HIDE DEF q
    <3>5. QED BY <2>2, <3>2, <3>3, <3>4, <1>5 DEF ConnType
  <2> HIDE DEF q
  <2>4. ConnFits(r, c \in conns')
    BY <1>2, <1>3, <1>4, <1>8, <2>3, NilAssumption DEF ConnFits, Unregistered
  <2>5. GivenOf(r, log, ToCome(c)) /\ LatestFor(r, c)
    BY <1>4, <2>3, GivenKept DEF LatestFor, OnTheWay
  <2>6. QED BY <1>2, <1>3, <2>3, <2>4, <2>5, OneConn
<1>9. QED BY <1>6, <1>7, <1>8

LEMMA StartPumpsKeeps ==
    ASSUME IInv, NEW c \in Conns, StartPumps(c)
    PROVE  IInv'
<1>1. PICK r : r = [conn[c] EXCEPT !.stage = "serve", !.writer = "run"]
  OBVIOUS
<1>2. /\ conn[c].stage = "connect" /\ conn[c].pending = << >>
      /\ conn' = [conn EXCEPT ![c] = r]
  BY <1>1 DEF StartPumps
<1>3. /\ r \in ConnType /\ r.stage = "serve" /\ r.pending = << >>
      /\ r.got = conn[c].got /\ r.queue = conn[c].queue /\ r.since = conn[c].since
      /\ r.closed = conn[c].closed /\ r.writer = "run"
  BY <1>1, <1>2, ConnFacts DEF ConnType, Stages
<1>4. UNCHANGED <<conns, holder, latest, task, log>>
  BY DEF StartPumps, handlerUnchanged
<1>5. ConnFits(r, c \in conns')
  BY <1>1, <1>2, <1>3, <1>4, ConnFacts DEF ConnFits, ConnType, Unregistered, Ended
<1>6. conn[c].writer # "done" => GivenOf(r, log, ToCome(c)) /\ LatestFor(r, c)
  <2>1. SUFFICES ASSUME conn[c].writer # "done"
                 PROVE  GivenOf(r, log, ToCome(c)) /\ LatestFor(r, c)
    OBVIOUS
  <2>2. GivenOf(r, log, ToCome(c))
    BY <1>2, <1>3, <2>1, ConnFacts DEF Unregistered, GivenOf, Given, Due
  <2>3. LatestFor(r, c)
    <3> SUFFICES ASSUME NEW id \in Kept, latest[id] > 0
                 PROVE  OnTheWay(r, Message(id, latest[id]), IsComing(Message(id, latest[id]), c))
      BY DEF LatestFor
    <3>1. OnTheWay(conn[c], Message(id, latest[id]), IsComing(Message(id, latest[id]), c))
      BY <1>2, ConnFacts DEF LatestFor, Unregistered
    <3>2. DOMAIN conn[c].pending = {}
      BY <1>2
    <3>3. QED BY <1>2, <1>3, <2>1, <3>1, <3>2 DEF OnTheWay, Given
  <2>4. QED BY <2>2, <2>3
<1>7. conn[c].writer # "done"
  BY <1>2, ConnFacts DEF ConnFits
<1>8. QED BY <1>2, <1>3, <1>4, <1>5, <1>6, <1>7, OneConn

\* readPump closes the connection if nobody has.
LEMMA ReadFailsKeeps ==
    ASSUME IInv, NEW c \in Conns, ReadFails(c)
    PROVE  IInv'
<1> DEFINE q == conn[c]
<1>1. PICK r : r = [(IF q.closed THEN q ELSE CloseChan(q)) EXCEPT !.stage = "unregister_done"]
  OBVIOUS
<1>2. /\ q.stage = "serve" /\ q.mu = Nil /\ conn' = [conn EXCEPT ![c] = r]
  BY <1>1 DEF ReadFails
<1>3. UNCHANGED <<conns, holder, latest, task, log>>
  BY DEF ReadFails, handlerUnchanged
<1>4. q \in ConnType /\ ConnFits(q, c \in conns) /\ GivenOf(q, log, ToCome(c)) /\ LatestFor(q, c)
  BY <1>2, ConnFacts DEF Unregistered
<1> HIDE DEF q
<1>5. /\ r \in ConnType /\ r.stage = "unregister_done" /\ r.mu = Nil
      /\ r.got = q.got /\ r.queue = q.queue /\ r.since = q.since
      /\ r.closed /\ r.writer = q.writer /\ r.chan = "closed" /\ ~r.panicked
  <2>1. CASE q.closed
    BY <1>1, <1>2, <1>4, <2>1 DEF ConnType, ConnFits, Stages, Ended
  <2>2. CASE ~q.closed
    <3>1. r = [q EXCEPT !.closed = TRUE, !.chan = "closed",
                        !.panicked = q.panicked \/ q.chan = "closed",
                        !.stage = "unregister_done"]
      BY <1>1, <1>4, <2>2 DEF CloseChan, ConnType
    <3>2. q.chan # "closed" /\ ~q.panicked
      BY <1>4, <2>2 DEF ConnFits
    <3>3. QED BY <1>2, <1>4, <3>1, <3>2 DEF ConnType, Stages, Ended
  <2>3. QED BY <2>1, <2>2
<1>6. ConnFits(r, c \in conns')
  BY <1>2, <1>3, <1>4, <1>5, NilAssumption DEF ConnFits, Unregistered, Ended
<1>7. GivenOf(r, log, ToCome(c)) /\ LatestFor(r, c)
  BY <1>4, <1>5, GivenKept DEF LatestFor, OnTheWay
<1>8. QED BY <1>2, <1>3, <1>5, <1>6, <1>7, OneConn DEF q

LEMMA unregisterKeeps ==
    ASSUME IInv, NEW c \in Conns, unregister(c)
    PROVE  IInv'
<1> DEFINE q == conn[c]
<1>1. PICK r : r = [q EXCEPT
          !.stage = CASE q.stage = "unregister_done" -> "done"
                      [] q.stage = "unregister_serve" -> "serve"
                      [] q.stage = "unregister_failed" -> "failed",
          !.sock = IF q.stage = "unregister_done" THEN "closed" ELSE @]
  OBVIOUS
<1>2. /\ q.stage \in {"unregister_done", "unregister_serve", "unregister_failed"}
      /\ conn' = [conn EXCEPT ![c] = r]
      /\ holder = Nil /\ conns' = conns \ {c}
  BY <1>1 DEF unregister
<1>3. UNCHANGED <<holder, latest, task, log>>
  BY DEF unregister, handlerUnchanged
<1>4. q \in ConnType /\ ConnFits(q, c \in conns) /\ GivenOf(q, log, ToCome(c)) /\ LatestFor(q, c)
  BY <1>2, ConnFacts DEF Unregistered
<1> HIDE DEF q
<1>5. /\ r \in ConnType /\ r.stage \in {"done", "serve", "failed"} /\ r.mu = q.mu
      /\ r.got = q.got /\ r.queue = q.queue /\ r.since = q.since
      /\ r.closed = q.closed /\ r.writer = q.writer /\ r.chan = q.chan
      /\ r.panicked = q.panicked
  <2>1. PICK stage \in {"done", "serve", "failed"}, sock \in {"open", "closed"} :
          r = [q EXCEPT !.stage = stage, !.sock = sock]
    BY <1>1, <1>2, <1>4 DEF ConnType
  <2>2. QED BY <1>4, <2>1 DEF ConnType, Stages, Ended
<1>6. q.closed /\ q.mu # "handler" /\ c \notin conns'
  BY <1>2, <1>4 DEF ConnFits, Ended
<1>7. ConnFits(r, c \in conns')
  BY <1>4, <1>5, <1>6 DEF ConnFits, Unregistered
<1>8. GivenOf(r, log, ToCome(c)) /\ LatestFor(r, c)
  BY <1>4, <1>5, <1>6, GivenKept DEF LatestFor, OnTheWay
<1>9. QED BY <1>2, <1>3, <1>5, <1>7, <1>8, OneConn DEF q

LEMMA WriteKeeps ==
    ASSUME IInv, NEW c \in Conns, Write(c)
    PROVE  IInv'
<1> DEFINE q == conn[c]
<1>1. PICK r : r = [q EXCEPT !.got = Append(q.got, Head(q.queue)), !.queue = Tail(q.queue)]
  OBVIOUS
<1>2. q \in ConnType /\ ConnFits(q, c \in conns)
  BY ConnFacts
<1>3. q.writer = "run" /\ q.queue # << >> /\ conn' = [conn EXCEPT ![c] = r]
  <2>1. [Serve(q) EXCEPT !.queue = Tail(q.queue)] = r
    BY <1>1, <1>2 DEF Serve, ConnType
  <2>2. conn' = [conn EXCEPT ![c] = [Serve(q) EXCEPT !.queue = Tail(q.queue)]]
    BY DEF Write
  <2>3. QED BY <2>1, <2>2 DEF Write
<1>4. UNCHANGED <<conns, holder, latest, task, log>>
  BY DEF Write, writerUnchanged
<1>5. q.stage \notin Unregistered
  BY <1>2, <1>3 DEF ConnFits
<1>6. GivenOf(q, log, ToCome(c)) /\ LatestFor(q, c) /\ log \in Seq(Messages)
  BY <1>5, ConnFacts DEF IInv, Types
<1> HIDE DEF q
<1>7. /\ r \in ConnType /\ r.stage = q.stage /\ r.mu = q.mu /\ r.pending = q.pending
      /\ r.got = Append(q.got, Head(q.queue)) /\ r.queue = Tail(q.queue) /\ r.since = q.since
      /\ r.closed = q.closed /\ r.writer = q.writer /\ r.chan = q.chan
      /\ r.panicked = q.panicked
  <2>1. q.queue \in Seq(Items) /\ q.got \in Seq(Items)
    BY <1>2 DEF ConnType
  <2>2. Append(q.got, Head(q.queue)) \in Seq(Items) /\ Tail(q.queue) \in Seq(Items)
    BY <1>3, <2>1, HeadTailProperties
  <2>3. QED BY <1>1, <1>2, <2>2 DEF ConnType
<1>8. ConnFits(r, c \in conns')
  BY <1>2, <1>4, <1>5, <1>7 DEF ConnFits
<1>9. Given(r) = Given(q) /\ GivenOf(r, log, ToCome(c))
  <2>1. q.writer # "done"
    BY <1>3
  <2>2. QED BY <1>2, <1>3, <1>6, <1>7, <2>1, GivenWritten
<1>10. LatestFor(r, c)
  BY <1>6, <1>7, <1>9 DEF LatestFor, OnTheWay
<1>11. QED BY <1>3, <1>4, <1>7, <1>8, <1>9, <1>10, OneConn DEF q

LEMMA WriterEndsKeeps ==
    ASSUME IInv, NEW c \in Conns, WriterEnds(c)
    PROVE  IInv'
<1> DEFINE q == conn[c]
<1>1. PICK r : r = [q EXCEPT !.queue = IF @ = << >> THEN @ ELSE Tail(@),
                             !.writer = "done", !.sock = "closed"]
  OBVIOUS
<1>2. q \in ConnType /\ ConnFits(q, c \in conns)
  BY ConnFacts
<1>3. q.writer = "run" /\ conn' = [conn EXCEPT ![c] = r]
  BY <1>1, <1>2 DEF WriterEnds
<1>4. UNCHANGED <<conns, holder, latest, task, log>>
  BY DEF WriterEnds, writerUnchanged
<1>5. q.stage \notin Unregistered \cup {"snapshot", "connect"}
  BY <1>2, <1>3 DEF ConnFits
<1>6. GivenOf(q, log, ToCome(c))
  BY <1>5, ConnFacts DEF Unregistered
<1> HIDE DEF q
<1>7. /\ r \in ConnType /\ r.stage = q.stage /\ r.mu = q.mu /\ r.pending = q.pending
      /\ r.got = q.got /\ r.since = q.since
      /\ r.closed = q.closed /\ r.writer = "done" /\ r.chan = q.chan
      /\ r.panicked = q.panicked
  <2>1. q.queue \in Seq(Items)
    BY <1>2 DEF ConnType
  <2>2. PICK queue \in Seq(Items) : queue = IF q.queue = << >> THEN q.queue ELSE Tail(q.queue)
    BY <2>1, HeadTailProperties
  <2>3. r = [q EXCEPT !.queue = queue, !.writer = "done", !.sock = "closed"]
    BY <1>1, <1>2, <2>2 DEF ConnType
  <2>4. QED BY <1>2, <2>3 DEF ConnType
<1>8. ConnFits(r, c \in conns')
  BY <1>2, <1>4, <1>5, <1>7 DEF ConnFits
<1>9. GivenOf(r, log, ToCome(c)) /\ LatestFor(r, c)
  BY <1>2, <1>6, <1>7, GivenEnds DEF LatestFor, OnTheWay
<1>10. QED BY <1>3, <1>4, <1>7, <1>8, <1>9, OneConn DEF q

\* The iteration has the lock of a connection.
LEMMA LockConnKeeps ==
    ASSUME IInv, NEW t \in Tasks, NEW c \in Conns, LockConn(t, c)
    PROVE  IInv'
<1>1. PICK r : r = [conn[c] EXCEPT !.mu = t]
  OBVIOUS
<1>2. /\ task[t].pc = "next" /\ c \in task[t].todo
      /\ conn' = [conn EXCEPT ![c] = r]
      /\ task' = [task EXCEPT ![t].pc = "offer", ![t].at = c]
      /\ UNCHANGED <<conns, holder, latest, log>>
  BY <1>1 DEF LockConn
<1>3. /\ r \in ConnType /\ r.stage = conn[c].stage /\ r.pending = conn[c].pending /\ r.mu = t
      /\ r.got = conn[c].got /\ r.queue = conn[c].queue /\ r.since = conn[c].since
      /\ r.closed = conn[c].closed /\ r.writer = conn[c].writer /\ r.chan = conn[c].chan
      /\ r.panicked = conn[c].panicked
  BY <1>1, ConnFacts DEF ConnType
<1>4. conn'[c] = r /\ \A d \in Conns \ {c} : conn'[d] = conn[d]
  BY <1>2 DEF IInv, Types
<1>5. task \in [Tasks -> TaskType]
  BY DEF IInv, Types
<1>6. /\ task'[t] = [task[t] EXCEPT !.pc = "offer", !.at = c]
      /\ \A u \in Tasks \ {t} : task'[u] = task[u]
  BY <1>2, <1>5
<1>7. \A u \in Tasks : /\ task'[u].todo = task[u].todo /\ task'[u].msg = task[u].msg
                       /\ task'[u].pc = "lock" <=> task[u].pc = "lock"
  BY <1>2, <1>5, <1>6 DEF TaskType
<1>8. Types'
  <2>1. task' \in [Tasks -> TaskType]
    <3>1. task'[t] \in TaskType
      BY <1>1, <1>5, <1>6 DEF TaskType
    <3>2. \A u \in Tasks : task'[u] \in TaskType
      BY <1>5, <1>6, <3>1
    <3>3. task' = [u \in Tasks |-> task'[u]]
      BY <1>2, <1>5
    <3>4. QED BY <3>2, <3>3
  <2>2. conn' \in [Conns -> ConnType]
    BY <1>2, <1>3 DEF IInv, Types
  <2>3. QED BY <1>2, <2>1, <2>2 DEF IInv, Types
<1>9. OneBroadcasts'
  <2> SUFFICES ASSUME NEW u \in Tasks
               PROVE  /\ task'[u].pc \in {"idle", "lock"} => task'[u].todo = {}
                      /\ task'[u].pc # "idle" => task'[u].msg \in Messages
                      /\ task'[u].pc \in {"next", "offer"} =>
                            holder = u /\ log # << >> /\ task'[u].msg = log[Len(log)]
                      /\ task'[u].pc = "offer" => task'[u].at \in task'[u].todo
                      /\ task'[u].todo \subseteq conns
    BY <1>2 DEF OneBroadcasts
  <2>1. CASE u = t
    BY <1>2, <1>5, <1>6, <2>1 DEF IInv, OneBroadcasts, TaskType
  <2>2. CASE u # t
    BY <1>6, <2>2 DEF IInv, OneBroadcasts
  <2>3. QED BY <2>1, <2>2
<1>10. ConnsFit'
  <2> SUFFICES ASSUME NEW d \in Conns PROVE ConnFits(conn'[d], d \in conns)
    BY <1>2 DEF ConnsFit
  <2>1. CASE d = c
    <3>1. t # "handler"
      BY DEF Tasks
    <3>2. QED BY <1>3, <1>4, <2>1, <3>1, ConnFacts DEF ConnFits
  <2>2. CASE d # c
    BY <1>4, <2>2, ConnFacts
  <2>3. QED BY <2>1, <2>2
<1>11. \A d : ToCome(d)' <=> ToCome(d)
  BY <1>7 DEF ToCome
<1>12. \A m, d : IsComing(m, d)' <=> IsComing(m, d)
  BY <1>7 DEF IsComing
<1>13. \A d \in Conns : Registered(d)' =>
          conn[d].stage \notin Unregistered
  <2> SUFFICES ASSUME NEW d \in Conns, Registered(d)' PROVE conn[d].stage \notin Unregistered
    OBVIOUS
  <2>1. conn'[d].stage = conn[d].stage
    BY <1>3, <1>4
  <2>2. QED BY <2>1 DEF Registered, Unregistered
<1>14. GivenAsSent'
  <2> SUFFICES ASSUME NEW d \in Conns, Registered(d)' PROVE GivenOf(conn'[d], log, ToCome(d)')
    BY <1>2 DEF GivenAsSent
  <2>1. GivenOf(conn[d], log, ToCome(d))
    BY <1>13, ConnFacts
  <2>2. GivenOf(conn'[d], log, ToCome(d))
    <3>1. CASE d = c
      BY <1>3, <1>4, <2>1, <3>1, ConnFacts, GivenKept
    <3>2. CASE d # c
      BY <1>4, <2>1, <3>2
    <3>3. QED BY <3>1, <3>2
  <2>3. QED BY <1>11, <2>2 DEF GivenOf
<1>15. LatestIsOnTheWay'
  <2> SUFFICES ASSUME NEW d \in Conns, Registered(d)', NEW id \in Kept, latest[id] > 0,
                      NEW m, m = Message(id, latest[id])
               PROVE  OnTheWay(conn'[d], m, IsComing(m, d)')
    BY <1>2 DEF LatestIsOnTheWay, LatestFor, IsComing
  <2>1. OnTheWay(conn[d], m, IsComing(m, d))
    BY <1>13, ConnFacts DEF LatestFor
  <2>2. OnTheWay(conn[d], m, IsComing(m, d)')
    BY <1>12, <2>1 DEF OnTheWay
  <2>3. CASE d = c
    BY <1>3, <1>4, <2>2, <2>3 DEF OnTheWay, Given
  <2>4. CASE d # c
    BY <1>4, <2>2, <2>4
  <2>5. QED BY <2>3, <2>4
<1>16. QED BY <1>8, <1>9, <1>10, <1>14, <1>15 DEF IInv

\* The message is offered: it is queued, or the connection was closed or is now.
LEMMA OfferOneKeeps ==
    ASSUME IInv, NEW t \in Tasks, OfferOne(t)
    PROVE  IInv'
<1>1. PICK c, q, m, r : /\ c = task[t].at /\ q = conn[c] /\ m = task[t].msg
                         /\ r = [Offer(q, m, "hub") EXCEPT !.mu = Nil]
  OBVIOUS
<1> DEFINE x == [msg |-> m, via |-> "hub"]
           full == ~q.closed /\ ~HasRoom(q)
<1>2. /\ task[t].pc = "offer"
      /\ conn' = [conn EXCEPT ![c] = r]
      /\ conns' = IF full THEN conns \ {c} ELSE conns
      /\ task' = [task EXCEPT ![t].pc = "next", ![t].todo = @ \ {c}]
      /\ UNCHANGED <<holder, latest, log>>
  BY <1>1 DEF OfferOne
<1>3. /\ task \in [Tasks -> TaskType] /\ conn \in [Conns -> ConnType] /\ log \in Seq(Messages)
      /\ conns \subseteq Conns
  BY DEF IInv, Types
<1>4. /\ c \in task[t].todo /\ c \in Conns /\ c \in conns
      /\ m \in Messages /\ x \in Items
      /\ holder = t /\ log # << >> /\ m = log[Len(log)]
  BY <1>1, <1>2, <1>3 DEF IInv, OneBroadcasts, TaskType, Items
<1>5. \A u \in Tasks \ {t} : task[u].todo = {}
  <2> SUFFICES ASSUME NEW u \in Tasks \ {t} PROVE task[u].todo = {}
    OBVIOUS
  <2>1. task[u].pc \in {"idle", "lock", "next", "offer"}
    BY <1>3 DEF TaskType
  <2>2. QED BY <1>4, <2>1 DEF IInv, OneBroadcasts
<1>6. /\ task'[t] = [task[t] EXCEPT !.pc = "next", !.todo = @ \ {c}]
      /\ \A u \in Tasks \ {t} : task'[u] = task[u]
  BY <1>2, <1>3
<1>7. /\ task'[t].todo = task[t].todo \ {c} /\ task'[t].msg = m /\ task'[t].pc = "next"
  BY <1>1, <1>3, <1>6 DEF TaskType
<1>8. ToCome(c) /\ ~ToCome(c)' /\ \A d \in Conns \ {c} : ToCome(d)' <=> ToCome(d)
  BY <1>4, <1>5, <1>6, <1>7 DEF ToCome
<1>9. \A k : \A d \in Conns : IsComing(k, d) => IsComing(k, d)' \/ (d = c /\ k = m)
  <2> SUFFICES ASSUME NEW k, NEW d \in Conns, IsComing(k, d), ~(d = c /\ k = m)
               PROVE  IsComing(k, d)'
    OBVIOUS
  <2>1. PICK u \in Tasks : task[u].msg = k /\ (task[u].pc = "lock" \/ d \in task[u].todo)
    BY DEF IsComing
  <2>2. CASE u = t
    <3>1. d \in task[t].todo /\ k = m
      BY <1>1, <1>2, <2>1, <2>2
    <3>2. d \in task'[t].todo /\ task'[t].msg = k
      BY <1>7, <3>1
    <3>3. QED BY <3>2 DEF IsComing
  <2>3. CASE u # t
    <3>1. task'[u] = task[u]
      BY <1>6, <2>3
    <3>2. task'[u].msg = k /\ (task'[u].pc = "lock" \/ d \in task'[u].todo)
      BY <2>1, <3>1
    <3>3. QED BY <3>2 DEF IsComing
  <2>4. QED BY <2>2, <2>3
<1>10. /\ conn'[c] = r /\ \A d \in Conns \ {c} : conn'[d] = conn[d]
  BY <1>2, <1>3, <1>4
<1>11. q \in ConnType /\ ConnFits(q, TRUE) /\ q.stage \notin Unregistered
       /\ GivenOf(q, log, TRUE) /\ LatestFor(q, c)
  <2>1. q \in ConnType /\ ConnFits(q, c \in conns)
    BY <1>1, <1>4, ConnFacts
  <2>2. ConnFits(q, TRUE) /\ q.stage \notin Unregistered
    BY <1>4, <2>1 DEF ConnFits
  <2>3. GivenOf(q, log, ToCome(c)) /\ LatestFor(q, c)
    BY <1>1, <1>4, <2>2, ConnFacts
  <2>4. QED BY <1>8, <2>1, <2>2, <2>3 DEF GivenOf
<1>12. /\ r \in ConnType /\ r.stage = q.stage /\ r.pending = q.pending /\ r.mu = Nil
       /\ r.got = q.got /\ r.since = q.since /\ r.writer = q.writer
       /\ ~r.panicked /\ (r.chan = "closed" <=> r.closed)
       /\ \/ r.closed /\ r.queue = q.queue
          \/ ~q.closed /\ ~r.closed /\ r.queue = Append(q.queue, x) /\ ~full
       /\ ~full => r.closed = q.closed
  <2>1. CASE q.closed
    <3>1. r = [q EXCEPT !.mu = Nil]
      BY <1>1, <2>1 DEF Offer
    <3>2. QED BY <1>11, <2>1, <3>1 DEF ConnType, ConnFits
  <2>2. CASE ~q.closed /\ HasRoom(q)
    <3>1. Append(q.queue, x) \in Seq(Items)
      BY <1>4, <1>11 DEF ConnType
    <3> HIDE DEF x
    <3>2. r = [q EXCEPT !.queue = Append(q.queue, x), !.panicked = q.panicked \/ q.chan = "closed",
                        !.mu = Nil]
      BY <1>1, <1>11, <2>2 DEF Offer, Enqueue, ConnType, x
    <3>3. q.chan # "closed" /\ ~q.panicked
      BY <1>11, <2>2 DEF ConnFits
    <3>4. QED BY <1>11, <2>2, <3>1, <3>2, <3>3 DEF ConnType
  <2>3. CASE full
    <3>1. r = [q EXCEPT !.closed = TRUE, !.chan = "closed",
                        !.panicked = q.panicked \/ q.chan = "closed",
                        !.mu = Nil]
      BY <1>1, <1>11, <2>3 DEF Offer, CloseChan, ConnType
    <3>2. q.chan # "closed" /\ ~q.panicked
      BY <1>11, <2>3 DEF ConnFits
    <3>3. QED BY <1>11, <2>3, <3>1, <3>2 DEF ConnType
  <2>4. QED BY <2>1, <2>2, <2>3
<1>13. Types'
  <2>1. task' \in [Tasks -> TaskType]
    <3>1. task'[t] \in TaskType
      BY <1>3, <1>4, <1>6 DEF TaskType
    <3>2. \A u \in Tasks : task'[u] \in TaskType
      BY <1>3, <1>6, <3>1
    <3>3. task' = [u \in Tasks |-> task'[u]]
      BY <1>2, <1>3
    <3>4. QED BY <3>2, <3>3
  <2>2. conn' \in [Conns -> ConnType]
    BY <1>2, <1>3, <1>12
  <2>3. conns' \subseteq Conns
    BY <1>2, <1>3
  <2>4. QED BY <1>2, <2>1, <2>2, <2>3 DEF IInv, Types
<1>14. OneBroadcasts'
  <2> SUFFICES ASSUME NEW u \in Tasks
               PROVE  /\ task'[u].pc \in {"idle", "lock"} => task'[u].todo = {}
                      /\ task'[u].pc # "idle" => task'[u].msg \in Messages
                      /\ task'[u].pc \in {"next", "offer"} =>
                            holder = u /\ log # << >> /\ task'[u].msg = log[Len(log)]
                      /\ task'[u].pc = "offer" => task'[u].at \in task'[u].todo
                      /\ task'[u].todo \subseteq conns'
    BY <1>2 DEF OneBroadcasts
  <2>1. CASE u = t
    <3>1. task[t].todo \subseteq conns
      BY DEF IInv, OneBroadcasts
    <3>2. QED BY <1>2, <1>4, <1>7, <2>1, <3>1
  <2>2. CASE u # t
    BY <1>5, <1>6, <2>2 DEF IInv, OneBroadcasts
  <2>3. QED BY <2>1, <2>2
<1>15. ConnsFit'
  <2> SUFFICES ASSUME NEW d \in Conns PROVE ConnFits(conn'[d], d \in conns')
    BY DEF ConnsFit
  <2>1. CASE d = c
    <3>1. full => r.closed
      BY <1>12
    <3>2. ~full => (c \in conns')
      BY <1>2, <1>4
    <3>3. ConnFits(r, c \in conns')
      BY <1>11, <1>12, <3>1, <3>2, NilAssumption DEF ConnFits, Unregistered
    <3>4. QED BY <1>10, <2>1, <3>3
  <2>2. CASE d # c
    <3>1. d \in conns' <=> d \in conns
      BY <1>2, <2>2
    <3>2. ConnFits(conn[d], d \in conns)
      BY ConnFacts
    <3>3. QED BY <1>10, <2>2, <3>1, <3>2 DEF ConnFits
  <2>3. QED BY <2>1, <2>2
<1>16. \A d \in Conns : Registered(d)' => conn[d].stage \notin Unregistered
  <2> SUFFICES ASSUME NEW d \in Conns, Registered(d)' PROVE conn[d].stage \notin Unregistered
    OBVIOUS
  <2>1. conn'[d].stage = conn[d].stage
    BY <1>1, <1>10, <1>12
  <2>2. QED BY <2>1 DEF Registered, Unregistered
<1>17. GivenAsSent'
  <2> SUFFICES ASSUME NEW d \in Conns, Registered(d)' PROVE GivenOf(conn'[d], log, ToCome(d)')
    BY <1>2 DEF GivenAsSent
  <2>1. CASE d = c
    <3>1. CASE r.closed /\ r.queue = q.queue
      BY <1>8, <1>10, <1>11, <1>12, <2>1, <3>1 DEF GivenOf, Given, Due
    <3>2. CASE ~q.closed /\ ~r.closed /\ r.queue = Append(q.queue, x)
      <4>1. r.queue = Append(q.queue, [msg |-> log[Len(log)], via |-> "hub"])
        BY <1>4, <3>2
      <4>2. GivenOf(r, log, FALSE)
        BY <1>3, <1>4, <1>11, <1>12, <3>2, <4>1, GivenOffered
      <4>3. QED BY <1>8, <1>10, <2>1, <4>2 DEF GivenOf
    <3>3. QED BY <1>12, <3>1, <3>2
  <2>2. CASE d # c
    <3>1. GivenOf(conn[d], log, ToCome(d))
      BY <1>16, ConnFacts
    <3>2. QED BY <1>8, <1>10, <2>2, <3>1 DEF GivenOf
  <2>3. QED BY <2>1, <2>2
<1>18. LatestIsOnTheWay'
  <2> SUFFICES ASSUME NEW d \in Conns, Registered(d)', NEW id \in Kept, latest[id] > 0,
                      NEW k, k = Message(id, latest[id])
               PROVE  OnTheWay(conn'[d], k, IsComing(k, d)')
    BY <1>2 DEF LatestIsOnTheWay, LatestFor, IsComing
  <2>1. OnTheWay(conn[d], k, IsComing(k, d))
    BY <1>16, ConnFacts DEF LatestFor
  <2>2. CASE d = c
    <3>1. CASE r.closed
      BY <1>10, <2>2, <3>1 DEF OnTheWay
    <3>2. CASE ~q.closed /\ ~r.closed /\ r.queue = Append(q.queue, x)
      <4>1. /\ \E i \in DOMAIN Given(r) : Given(r)[i] = x
            /\ \A i \in DOMAIN Given(q) : i \in DOMAIN Given(r) /\ Given(r)[i] = Given(q)[i]
        BY <1>4, <1>11, <1>12, <3>2, AppendedIsGiven
      <4>2. k = m => \E i \in DOMAIN Given(r) : Given(r)[i].msg = k
        BY <4>1
      <4> HIDE DEF x
      <4>3. (\E i \in DOMAIN Given(q) : Given(q)[i].msg = k)
              => \E i \in DOMAIN Given(r) : Given(r)[i].msg = k
        BY <4>1
      <4>4. IsComing(k, d) => IsComing(k, d)' \/ k = m
        BY <1>9
      <4>5. OnTheWay(q, k, IsComing(k, d))
        BY <1>1, <2>1, <2>2
      <4>6. OnTheWay(r, k, IsComing(k, d)')
        BY <1>12, <3>2, <4>2, <4>3, <4>4, <4>5 DEF OnTheWay
      <4>7. QED BY <1>10, <2>2, <4>6 DEF OnTheWay
    <3>3. QED BY <1>12, <3>1, <3>2
  <2>3. CASE d # c
    <3>1. IsComing(k, d) => IsComing(k, d)'
      BY <1>9, <2>3
    <3>2. QED BY <1>10, <2>1, <2>3, <3>1 DEF OnTheWay
  <2>4. QED BY <2>2, <2>3
<1>19. QED BY <1>13, <1>14, <1>15, <1>17, <1>18 DEF IInv

\* A broadcast begins: it is on its way to all that the hub knows.
LEMMA LockKeeps ==
    ASSUME IInv, NEW t \in Tasks, Lock(t)
    PROVE  IInv'
<1>1. PICK m : m = task[t].msg
  OBVIOUS
<1>2. /\ task[t].pc = "lock" /\ holder = Nil /\ holder' = t
      /\ task' = [task EXCEPT ![t].pc = "next", ![t].todo = conns]
      /\ log' = Append(log, m)
      /\ UNCHANGED <<conns, conn, latest>>
  BY <1>1 DEF Lock
<1>3. /\ task \in [Tasks -> TaskType] /\ log \in Seq(Messages) /\ conns \subseteq Conns
      /\ m \in Messages
  BY <1>1, <1>2 DEF IInv, Types, OneBroadcasts
<1>4. /\ task'[t] = [task[t] EXCEPT !.pc = "next", !.todo = conns]
      /\ \A u \in Tasks \ {t} : task'[u] = task[u]
  BY <1>2, <1>3
<1>5. task'[t].pc = "next" /\ task'[t].todo = conns /\ task'[t].msg = m
  BY <1>1, <1>3, <1>4 DEF TaskType
<1>6. \A u \in Tasks : task[u].todo = {}
  BY <1>2, NobodyBroadcasts
<1>7. log' \in Seq(Messages) /\ log' # << >> /\ log'[Len(log')] = m
  <2> DEFINE l == Append(log, m)
  <2>1. l \in Seq(Messages) /\ Len(l) = Len(log) + 1 /\ l[Len(log) + 1] = m /\ l # << >>
    BY <1>3, AppendProperties
  <2> HIDE DEF l
  <2>2. QED BY <1>2, <2>1 DEF l
<1>8. Types'
  <2>1. task' \in [Tasks -> TaskType]
    <3>1. task'[t] \in TaskType
      <4>1. task[t] \in TaskType
        BY <1>3
      <4>2. QED BY <1>3, <1>4, <4>1 DEF TaskType
    <3>2. \A u \in Tasks : task'[u] \in TaskType
      BY <1>3, <1>4, <3>1
    <3>3. task' = [u \in Tasks |-> task'[u]]
      BY <1>2, <1>3
    <3>4. QED BY <3>2, <3>3
  <2>2. QED BY <1>2, <1>7, <2>1 DEF IInv, Types
<1>9. OneBroadcasts'
  <2> SUFFICES ASSUME NEW u \in Tasks
               PROVE  /\ task'[u].pc \in {"idle", "lock"} => task'[u].todo = {}
                      /\ task'[u].pc # "idle" => task'[u].msg \in Messages
                      /\ task'[u].pc \in {"next", "offer"} =>
                            holder' = u /\ log' # << >> /\ task'[u].msg = log'[Len(log')]
                      /\ task'[u].pc = "offer" => task'[u].at \in task'[u].todo
                      /\ task'[u].todo \subseteq conns
    BY <1>2 DEF OneBroadcasts
  <2>1. CASE u = t
    BY <1>2, <1>3, <1>5, <1>7, <2>1
  <2>2. CASE u # t
    <3>1. task'[u] = task[u] /\ holder # u
      BY <1>2, <1>4, <2>2, NilAssumption DEF Tasks
    <3>2. task[u].pc \notin {"next", "offer"}
      BY <3>1 DEF IInv, OneBroadcasts
    <3>3. QED BY <1>6, <3>1, <3>2 DEF IInv, OneBroadcasts
  <2>3. QED BY <2>1, <2>2
<1>10. ConnsFit'
  BY <1>2 DEF IInv, ConnsFit
<1>11. \A d \in Conns : ~ToCome(d) /\ (ToCome(d)' <=> d \in conns)
  BY <1>4, <1>5, <1>6 DEF ToCome
<1>12. \A d \in Conns : Registered(d)' => conn[d].stage \notin Unregistered
  BY <1>2 DEF Registered, Unregistered
<1>13. GivenAsSent'
  <2> SUFFICES ASSUME NEW d \in Conns, Registered(d)' PROVE GivenOf(conn[d], log', ToCome(d)')
    BY <1>2 DEF GivenAsSent
  <2>1. /\ conn[d] \in ConnType /\ ConnFits(conn[d], d \in conns)
        /\ GivenOf(conn[d], log, ToCome(d))
    BY <1>12, ConnFacts
  <2>2. GivenOf(conn[d], log, FALSE)
    BY <1>11, <2>1 DEF GivenOf
  <2>3. ~conn[d].closed => d \in conns
    BY <1>12, <2>1 DEF ConnFits
  <2>4. PICK b \in BOOLEAN : b <=> d \in conns
    OBVIOUS
  <2>5. GivenOf(conn[d], Append(log, m), b)
    BY <1>3, <2>1, <2>2, <2>3, <2>4, GivenLogged
  <2>6. b <=> ToCome(d)'
    BY <1>11, <2>4
  <2>7. QED BY <1>2, <2>5, <2>6 DEF GivenOf
<1>14. LatestIsOnTheWay'
  <2> SUFFICES ASSUME NEW d \in Conns, Registered(d)', NEW id \in Kept, latest[id] > 0,
                      NEW k, k = Message(id, latest[id])
               PROVE  OnTheWay(conn[d], k, IsComing(k, d)')
    BY <1>2 DEF LatestIsOnTheWay, LatestFor, IsComing
  <2>1. OnTheWay(conn[d], k, IsComing(k, d)) /\ ConnFits(conn[d], d \in conns)
    BY <1>12, ConnFacts DEF LatestFor
  <2>2. SUFFICES ASSUME ~conn[d].closed, IsComing(k, d) PROVE IsComing(k, d)'
    BY <2>1 DEF OnTheWay
  <2>3. d \in conns
    BY <1>12, <2>1, <2>2 DEF ConnFits
  <2>4. PICK u \in Tasks : task[u].msg = k /\ task[u].pc = "lock"
    BY <1>6, <2>2 DEF IsComing
  <2>5. CASE u = t
    BY <1>1, <1>5, <2>3, <2>4, <2>5 DEF IsComing
  <2>6. CASE u # t
    BY <1>4, <2>4, <2>6 DEF IsComing
  <2>7. QED BY <2>5, <2>6
<1>15. QED BY <1>8, <1>9, <1>10, <1>13, <1>14 DEF IInv

\* A goroutine that holds nothing and has nobody left begins or ends a broadcast.
LEMMA TaskKeeps ==
    ASSUME IInv, NEW t \in Tasks, NEW k \in TaskType,
           task[t].todo = {}, task[t].pc # "lock",
           task' = [task EXCEPT ![t] = k],
           k.todo = {}, k.pc \in {"idle", "lock"}, k.pc = "lock" => k.msg \in Messages,
           UNCHANGED <<conns, conn, log>>,
           holder' = holder \/ (holder' = Nil /\ holder = t),
           latest' \in [Kept -> Nat],
           \A id \in Kept : latest'[id] # latest[id] =>
               k.pc = "lock" /\ k.msg = Message(id, latest'[id])
    PROVE  IInv'
<1>1. task \in [Tasks -> TaskType] /\ log \in Seq(Messages) /\ conns \subseteq Conns
  BY DEF IInv, Types
<1>2. task'[t] = k /\ \A u \in Tasks \ {t} : task'[u] = task[u]
  BY <1>1
<1>3. Types'
  <2>1. task' \in [Tasks -> TaskType]
    BY <1>1
  <2>2. QED BY <2>1 DEF IInv, Types
<1>4. OneBroadcasts'
  <2> SUFFICES ASSUME NEW u \in Tasks
               PROVE  /\ task'[u].pc \in {"idle", "lock"} => task'[u].todo = {}
                      /\ task'[u].pc # "idle" => task'[u].msg \in Messages
                      /\ task'[u].pc \in {"next", "offer"} =>
                            holder' = u /\ log # << >> /\ task'[u].msg = log[Len(log)]
                      /\ task'[u].pc = "offer" => task'[u].at \in task'[u].todo
                      /\ task'[u].todo \subseteq conns
    BY DEF OneBroadcasts
  <2>1. CASE u = t
    BY <1>2, <2>1
  <2>2. CASE u # t
    BY <1>2, <2>2 DEF IInv, OneBroadcasts
  <2>3. QED BY <2>1, <2>2
<1>5. ConnsFit'
  BY DEF IInv, ConnsFit
<1>6. \A d \in Conns : ToCome(d)' <=> ToCome(d)
  BY <1>2 DEF ToCome
<1>7. \A d \in Conns : Registered(d)' => conn[d].stage \notin Unregistered
  BY DEF Registered, Unregistered
<1>8. GivenAsSent'
  <2> SUFFICES ASSUME NEW d \in Conns, Registered(d)' PROVE GivenOf(conn[d], log, ToCome(d)')
    BY DEF GivenAsSent
  <2>1. GivenOf(conn[d], log, ToCome(d))
    BY <1>7, ConnFacts
  <2>2. QED BY <1>6, <2>1 DEF GivenOf
<1>9. LatestIsOnTheWay'
  <2> SUFFICES ASSUME NEW d \in Conns, Registered(d)', NEW id \in Kept, latest'[id] > 0,
                      NEW m, m = Message(id, latest'[id])
               PROVE  OnTheWay(conn[d], m, IsComing(m, d)')
    BY DEF LatestIsOnTheWay, LatestFor, IsComing
  <2>1. CASE latest'[id] = latest[id]
    <3>1. OnTheWay(conn[d], m, IsComing(m, d))
      <4>1. m = Message(id, latest[id]) /\ latest[id] > 0
        BY <2>1
      <4>2. QED BY <1>7, <4>1, ConnFacts DEF LatestFor
    <3>2. IsComing(m, d) => IsComing(m, d)'
      BY <1>2 DEF IsComing
    <3>3. QED BY <3>1, <3>2 DEF OnTheWay
  <2>2. CASE latest'[id] # latest[id]
    <3>1. IsComing(m, d)'
      BY <1>2, <2>2 DEF IsComing
    <3>2. QED BY <3>1 DEF OnTheWay
  <2>3. QED BY <2>1, <2>2
<1>10. QED BY <1>3, <1>4, <1>5, <1>8, <1>9 DEF IInv

LEMMA UnlockKeeps ==
    ASSUME IInv, NEW t \in Tasks, Unlock(t)
    PROVE  IInv'
<1>1. /\ task[t].pc = "next" /\ task[t].todo = {} /\ holder' = Nil
      /\ task' = [task EXCEPT ![t] = Idle]
      /\ UNCHANGED <<conns, conn, latest, log>>
  BY DEF Unlock
<1>2. holder = t /\ latest \in [Kept -> Nat]
  BY <1>1 DEF IInv, OneBroadcasts, Types
<1>3. Idle \in TaskType /\ Idle.todo = {} /\ Idle.pc = "idle"
  BY DEF Idle, TaskType
<1>4. PICK k : k = Idle
  OBVIOUS
<1>5. QED BY <1>1, <1>2, <1>3, <1>4, TaskKeeps

\* What Begin makes of a goroutine.
LEMMA BegunIsTask ==
    ASSUME NEW m \in Messages
    PROVE  LET k == [Idle EXCEPT !.pc = "lock", !.msg = m]
           IN  k \in TaskType /\ k.todo = {} /\ k.pc = "lock" /\ k.msg = m
BY DEF Idle, TaskType

LEMMA AnswerKeeps ==
    ASSUME IInv, NEW r \in 1 .. MaxRound, Answer(r)
    PROVE  IInv'
<1>1. PICK m : m = Message("mailbox", r)
  OBVIOUS
<1>2. PICK k : k = [Idle EXCEPT !.pc = "lock", !.msg = m]
  OBVIOUS
<1>3. /\ task["run"].pc = "idle" /\ task' = [task EXCEPT !["run"] = k]
      /\ UNCHANGED <<conns, conn, holder, latest, log>>
  BY <1>1, <1>2 DEF Answer, Begin
<1>4. m \in Messages
  BY <1>1, HubAssumption DEF Message, Messages
<1>5. k \in TaskType /\ k.todo = {} /\ k.pc = "lock" /\ k.msg = m
  BY <1>2, <1>4, BegunIsTask
<1>6. "run" \in Tasks /\ task["run"].todo = {} /\ latest \in [Kept -> Nat]
  BY <1>3 DEF IInv, Types, OneBroadcasts, Tasks
<1>7. QED BY <1>3, <1>4, <1>5, <1>6, TaskKeeps

LEMMA AnnounceKeeps ==
    ASSUME IInv, Announce
    PROVE  IInv'
<1>1. PICK id \in Kept, r \in 1 .. MaxRound :
        /\ latest' = [latest EXCEPT ![id] = r]
        /\ Begin("loop", Message(id, r))
  BY DEF Announce, Kept
<1>2. PICK m : m = Message(id, r)
  OBVIOUS
<1>3. PICK k : k = [Idle EXCEPT !.pc = "lock", !.msg = m]
  OBVIOUS
<1>4. /\ task["loop"].pc = "idle" /\ task' = [task EXCEPT !["loop"] = k]
      /\ UNCHANGED <<conns, conn, holder, log>>
  BY <1>1, <1>2, <1>3 DEF Announce, Begin
<1>5. m \in Messages /\ r \in Nat
  BY <1>2, HubAssumption DEF Message, Messages, Kept
<1>6. k \in TaskType /\ k.todo = {} /\ k.pc = "lock" /\ k.msg = m
  BY <1>3, <1>5, BegunIsTask
<1>7. "loop" \in Tasks /\ task["loop"].todo = {} /\ latest \in [Kept -> Nat]
  BY <1>4 DEF IInv, Types, OneBroadcasts, Tasks
<1>8. /\ latest' \in [Kept -> Nat]
      /\ \A i \in Kept : latest'[i] # latest[i] => k.pc = "lock" /\ k.msg = Message(i, latest'[i])
  BY <1>1, <1>2, <1>5, <1>6, <1>7
<1>9. QED BY <1>4, <1>5, <1>6, <1>7, <1>8, TaskKeeps

\* Everything else that may happen changes none of what the invariant is about.
LEMMA RestKeeps ==
    ASSUME IInv, UNCHANGED <<conns, holder, conn, latest, task, log>>
    PROVE  IInv'
<1>1. Types' /\ OneBroadcasts' /\ ConnsFit'
  BY DEF IInv, Types, OneBroadcasts, ConnsFit
<1>2. GivenAsSent'
  BY DEF IInv, GivenAsSent, ToCome, Registered
<1>3. LatestIsOnTheWay'
  BY DEF IInv, LatestIsOnTheWay, LatestFor, IsComing, Registered
<1>4. QED BY <1>1, <1>2, <1>3 DEF IInv

-----------------------------------------------------------------------------
(***************************************************************************)
(* The theorems.                                                           *)
(***************************************************************************)

LEMMA InitHolds ==
    Init => IInv
<1> SUFFICES ASSUME Init PROVE IInv
  OBVIOUS
<1> USE DEF Init
<1>1. NewConn \in ConnType
  <2>1. << >> \in Seq(Messages) /\ << >> \in Seq(Items)
    OBVIOUS
  <2>2. QED BY <2>1 DEF NewConn, ConnType, Stages, Unregistered
<1>2. Idle \in TaskType
  BY DEF Idle, TaskType
<1>3. << >> \in Seq(Messages)
  OBVIOUS
<1>4. Types
  BY <1>1, <1>2, <1>3 DEF Types
<1>5. OneBroadcasts
  BY DEF OneBroadcasts, Idle
<1>6. ConnsFit
  BY NilAssumption DEF ConnsFit, ConnFits, NewConn, Unregistered, Ended
<1>7. \A c \in Conns : ~Registered(c)
  BY DEF Registered, NewConn
<1>8. QED BY <1>4, <1>5, <1>6, <1>7 DEF IInv, GivenAsSent, LatestIsOnTheWay

\* Every step keeps the invariant.
LEMMA NextKeeps ==
    IInv /\ [Next]_vars => IInv'
<1> SUFFICES ASSUME IInv, [Next]_vars PROVE IInv'
  OBVIOUS
<1>1. CASE Announce
  BY <1>1, AnnounceKeeps
<1>2. ASSUME NEW r \in 1 .. MaxRound, Answer(r) PROVE IInv'
  BY <1>2, AnswerKeeps
<1>3. ASSUME NEW t \in Tasks, Broadcasting(t) PROVE IInv'
  <2>1. CASE Lock(t)
    BY <2>1, LockKeeps
  <2>2. ASSUME NEW c \in Conns, LockConn(t, c) PROVE IInv'
    BY <2>2, LockConnKeeps
  <2>3. CASE OfferOne(t)
    BY <2>3, OfferOneKeeps
  <2>4. CASE Unlock(t)
    BY <2>4, UnlockKeeps
  <2>5. QED BY <1>3, <2>1, <2>2, <2>3, <2>4 DEF Broadcasting
<1>4. ASSUME NEW c \in Conns, Dial(c) \/ incomingOnion(c) \/ Gone(c) PROVE IInv'
  <2>1. CASE Dial(c)
    BY <2>1, DialKeeps
  <2>2. CASE incomingOnion(c)
    BY <2>2, incomingOnionKeeps
  <2>3. CASE Gone(c)
    BY <2>3, RestKeeps DEF Gone
  <2>4. QED BY <1>4, <2>1, <2>2, <2>3
<1>5. ASSUME NEW c \in Conns, Handler(c) PROVE IInv'
  <2>1. CASE register(c)
    BY <2>1, registerKeeps
  <2>2. CASE onConnect(c)
    BY <2>2, onConnectKeeps
  <2>3. CASE SendLock(c)
    BY <2>3, SendLockKeeps
  <2>4. CASE Send(c)
    BY <2>4, SendKeeps
  <2>5. CASE StartPumps(c)
    BY <2>5, StartPumpsKeeps
  <2>6. CASE ReadFails(c)
    BY <2>6, ReadFailsKeeps
  <2>7. CASE unregister(c)
    BY <2>7, unregisterKeeps
  <2>8. QED BY <1>5, <2>1, <2>2, <2>3, <2>4, <2>5, <2>6, <2>7 DEF Handler
<1>6. ASSUME NEW c \in Conns, Writer(c) PROVE IInv'
  BY <1>6, WriteKeeps, WriterEndsKeeps DEF Writer
<1>7. CASE UNCHANGED vars
  BY <1>7, RestKeeps DEF vars
<1>8. QED BY <1>1, <1>2, <1>3, <1>4, <1>5, <1>6, <1>7 DEF Next

\* The invariant holds, however connections, replies and broadcasts interleave.
THEOREM IInvHolds == Spec => []IInv
<1>1. QED BY InitHolds, NextKeeps, PTL DEF Spec

\* Nobody sends on a closed channel or closes one twice, although readPump, Send and
\* Broadcast may each find a reason to close it (hub.go:53-60, 130-153, 213-239).
THEOREM NobodyPanics == Spec => []NoPanic
<1>1. IInv => NoPanic
  BY DEF IInv, ConnsFit, ConnFits, NoPanic
<1>2. QED BY <1>1, IInvHolds, PTL

\* A client that is served has every broadcast since it was registered, in order, or it is
\* on its way; and the latest announcements of before (hub.go:180-183, 228-234).
THEOREM ServedMissNothing == Spec => []NothingIsMissed
<1>1. ASSUME IInv PROVE NoGap
  <2> SUFFICES ASSUME NEW c \in Conns, Registered(c)
               PROVE  LET r == conn[c]
                          due == SubSeq(log, r.since + 1, Len(log))
                          toCome == \E t \in Tasks : c \in task[t].todo
                      IN /\ IsPrefix(ByHub(r.got), due)
                         /\ ~r.closed /\ r.writer # "done" =>
                              ByHub(r.got \o r.queue) = IF toCome THEN Front(due) ELSE due
    BY DEF NoGap
  <2>1. GivenOf(conn[c], log, ToCome(c))
    BY <1>1 DEF IInv, GivenAsSent
  <2>2. QED BY <2>1 DEF GivenOf, Given, Due, ToCome
<1>2. ASSUME IInv PROVE LatestIsKnown
  <2> SUFFICES ASSUME NEW c \in Conns,
                      conn[c].stage = "serve", ~conn[c].closed, conn[c].writer = "run",
                      NEW id \in Kept, latest[id] > 0,
                      NEW m, m = Message(id, latest[id])
               PROVE  (\E x \in Range(conn[c].got \o conn[c].queue) : x.msg = m) \/ IsComing(m, c)
    BY DEF LatestIsKnown, IsComing
  <2>1. OnTheWay(conn[c], m, IsComing(m, c))
    BY <1>2 DEF IInv, LatestIsOnTheWay, LatestFor, Registered
  <2>2. CASE \E i \in DOMAIN Given(conn[c]) : Given(conn[c])[i].msg = m
    BY <2>2 DEF Given, Range
  <2>3. QED BY <2>1, <2>2 DEF OnTheWay
<1>3. QED BY <1>1, <1>2, IInvHolds, PTL DEF NothingIsMissed
=============================================================================
