-------------------------------- MODULE Hub ---------------------------------
(***************************************************************************)
(* The hub (typesocket/hub.go) as the coordinator uses it: the websockets  *)
(* on which announcements go out.  Two goroutines broadcast: the           *)
(* coordinator's loop, which first makes an announcement the latest one,   *)
(* and runRound, which tells the end of a round.  Each connection has a    *)
(* handler (ServeHTTP, onConnect, then readPump) and a writer (writePump). *)
(*                                                                         *)
(* Hub.mu and serverConn.mu are explicit, because Broadcast holds the      *)
(* first while it takes the second of one connection after the other.      *)
(***************************************************************************)
EXTENDS Integers, Sequences, SequencesExt, FiniteSets

CONSTANTS
    Conns,      \* the connections that clients may make
    QueueSize,  \* capacity of serverConn.send (64)
    MaxRound,   \* bound: rounds are 1 .. MaxRound
    MaxReplies, \* bound: onions for the wrong round
    MaxGone,    \* bound: connections that the client or the network ends
    Nil         \* nobody, nothing

ASSUME HubAssumption ==
    QueueSize \in Nat \ {0} /\ {MaxRound, MaxReplies, MaxGone} \subseteq Nat

ASSUME NilAssumption == Nil \notin {"loop", "run", "handler"}

VARIABLES
    conns,      \* Hub.conns
    holder,     \* who holds Hub.mu
    conn,       \* the connections
    latest,     \* Server.latestPKGRound and latestMixRound
    task,       \* the two goroutines that broadcast
    log,        \* history: the broadcasts, in the order in which they got Hub.mu
    replies,    \* replies so far
    gone        \* the connections that have broken

vars == <<conns, holder, conn, latest, task, log, replies, gone>>

Tasks == {"loop", "run"}
Kept == {"pkg", "mix"}
Message(id, r) == [id |-> id, round |-> r]

Idle == [pc |-> "idle", msg |-> Nil, todo |-> {}, at |-> Nil]

\* A connection before the client dials.
NewConn ==
    [stage |-> "new", pending |-> << >>, mu |-> Nil, queue |-> << >>, closed |-> FALSE,
     chan |-> "open", panicked |-> FALSE, writer |-> "off", sock |-> "open",
     got |-> << >>, since |-> 0]

Init ==
    /\ conns = {}
    /\ holder = Nil
    /\ conn = [c \in Conns |-> NewConn]
    /\ latest = [k \in Kept |-> 0]
    /\ task = [t \in Tasks |-> Idle]
    /\ log = << >>
    /\ replies = 0
    /\ gone = {}

-----------------------------------------------------------------------------
(* The channel of a connection.  Go panics on a send to a closed channel   *)
(* and on closing it again.  What a connection was given is tagged with    *)
(* how it came: by Broadcast ("hub") or by Send ("send").                  *)

Enqueue(r, m, via) ==
    [r EXCEPT !.queue = Append(@, [msg |-> m, via |-> via]),
              !.panicked = @ \/ r.chan = "closed"]

CloseChan(r) ==
    [r EXCEPT !.closed = TRUE, !.chan = "closed", !.panicked = @ \/ r.chan = "closed"]

HasRoom(r) == Len(r.queue) < QueueSize

\* Mutant of Offer: a message for a full queue is dropped.
OfferOrDrop(r, m, via) == IF r.closed \/ ~HasRoom(r) THEN r ELSE Enqueue(r, m, via)

\* Mutant of Offer: the connection may have been closed.
OfferUnchecked(r, m, via) == IF HasRoom(r) THEN Enqueue(r, m, via) ELSE CloseChan(r)

\* A message for a connection that is not closed is queued if there is room, and
\* otherwise closes it.
Offer(r, m, via) ==
    CASE r.closed -> r
      [] ~r.closed /\ HasRoom(r) -> Enqueue(r, m, via)
      [] ~r.closed /\ ~HasRoom(r) -> CloseChan(r)

-----------------------------------------------------------------------------
(* Broadcasting.                                                           *)

Begin(t, m) == task' = [task EXCEPT ![t] = [Idle EXCEPT !.pc = "lock", !.msg = m]]

\* The loop announces the PKG settings of the next round, or the mix settings of
\* this one, and keeps them for those who connect later.
Announce ==
    /\ task["loop"].pc = "idle"
    /\ LET id == IF latest["mix"] = latest["pkg"] THEN "pkg" ELSE "mix"
           r == latest[id] + 1
       IN /\ r \in 1 .. MaxRound
          /\ latest' = [latest EXCEPT ![id] = r]
          /\ Begin("loop", Message(id, r))
    /\ UNCHANGED <<conns, holder, conn, log, replies, gone>>

\* A round whose mixing is over is answered: with its mailboxes or an error, which
\* makes no difference here.
Answer(r) ==
    /\ task["run"].pc = "idle"
    /\ Message("mix", r) \in Range(log)
    /\ task["loop"].msg # Message("mix", r)
    /\ Message("mailbox", r) \notin Range(log)
    /\ Begin("run", Message("mailbox", r))
    /\ UNCHANGED <<conns, holder, conn, latest, log, replies, gone>>

Lock(t) ==
    /\ task[t].pc = "lock"
    /\ holder = Nil
    /\ holder' = t
    /\ task' = [task EXCEPT ![t].pc = "next", ![t].todo = conns]
    /\ log' = Append(log, task[t].msg)
    /\ UNCHANGED <<conns, conn, latest, replies, gone>>

\* The iteration takes the lock of a connection,
LockConn(t, c) ==
    /\ task[t].pc = "next"
    /\ c \in task[t].todo
    /\ conn[c].mu = Nil
    /\ conn' = [conn EXCEPT ![c].mu = t]
    /\ task' = [task EXCEPT ![t].pc = "offer", ![t].at = c]
    /\ UNCHANGED <<conns, holder, latest, log, replies, gone>>

\* Mutant of OfferOne: a full queue is waited for.
OfferOneWaits(t) ==
    /\ task[t].pc = "offer"
    /\ LET c == task[t].at IN
          /\ conn[c].closed \/ HasRoom(conn[c])
          /\ conn' = [conn EXCEPT ![c] = [Offer(@, task[t].msg, "hub") EXCEPT !.mu = Nil]]
          /\ task' = [task EXCEPT ![t].pc = "next", ![t].todo = @ \ {c}]
    /\ UNCHANGED <<conns, holder, latest, log, replies, gone>>

\* and offers it the message; a connection whose queue is full is forgotten.
OfferOne(t) ==
    /\ task[t].pc = "offer"
    /\ LET c == task[t].at
           full == ~conn[c].closed /\ ~HasRoom(conn[c])
       IN /\ conn' = [conn EXCEPT ![c] = [Offer(@, task[t].msg, "hub") EXCEPT !.mu = Nil]]
          /\ conns' = IF full THEN conns \ {c} ELSE conns
          /\ task' = [task EXCEPT ![t].pc = "next", ![t].todo = @ \ {c}]
    /\ UNCHANGED <<holder, latest, log, replies, gone>>

Unlock(t) ==
    /\ task[t].pc = "next"
    /\ task[t].todo = {}
    /\ holder' = Nil
    /\ task' = [task EXCEPT ![t] = Idle]
    /\ UNCHANGED <<conns, conn, latest, log, replies, gone>>

-----------------------------------------------------------------------------
(* The handler of a connection.                                            *)

handlerUnchanged == UNCHANGED <<latest, task, log>>

\* The client dials and the request is upgraded to a websocket.
Dial(c) ==
    /\ conn[c].stage = "new"
    /\ conn' = [conn EXCEPT ![c].stage = "register"]
    /\ handlerUnchanged /\ UNCHANGED <<conns, holder, replies, gone>>

register(c) ==
    /\ conn[c].stage = "register"
    /\ holder = Nil
    /\ conns' = conns \cup {c}
    /\ conn' = [conn EXCEPT ![c].stage = "snapshot", ![c].since = Len(log)]
    /\ handlerUnchanged /\ UNCHANGED <<holder, replies, gone>>

\* The latest announcements, the mix settings first.
Latest ==
    LET Of(id) == IF latest[id] = 0 THEN << >> ELSE <<Message(id, latest[id])>>
    IN Of("mix") \o Of("pkg")

\* onConnect reads the latest announcements, and sends them one by one.
onConnect(c) ==
    /\ conn[c].stage = "snapshot"
    /\ conn' = [conn EXCEPT ![c].stage = "connect", ![c].pending = Latest]
    /\ handlerUnchanged /\ UNCHANGED <<conns, holder, replies, gone>>

\* A client sends an onion for the wrong round, which readPump's handler refuses.  (The
\* round in the reply is left out.)
incomingOnion(c) ==
    /\ conn[c].stage = "serve"
    /\ conn[c].pending = << >>
    /\ conn[c].sock = "open" /\ c \notin gone
    /\ replies < MaxReplies
    /\ replies' = replies + 1
    /\ conn' = [conn EXCEPT ![c].pending = <<Message("error", Nil)>>]
    /\ handlerUnchanged /\ UNCHANGED <<conns, holder, gone>>

\* Where the handler goes on after a Send failed: onConnect gives up, the handler of
\* an onion does not look at the error.
AfterError(stage) == IF stage = "connect" THEN "failed" ELSE "serve"
UnregisterThen(stage) == IF stage = "connect" THEN "unregister_failed" ELSE "unregister_serve"

\* Send: takes the lock of the connection,
SendLock(c) ==
    /\ conn[c].stage \in {"connect", "serve"}
    /\ conn[c].pending # << >>
    /\ conn[c].mu = Nil
    /\ conn' = [conn EXCEPT ![c].mu = "handler"]
    /\ handlerUnchanged /\ UNCHANGED <<conns, holder, replies, gone>>

\* and offers the message; it releases the lock before it takes Hub.mu to unregister.
Send(c) ==
    /\ conn[c].mu = "handler"
    /\ conn[c].stage \in {"connect", "serve"}
    /\ LET r == conn[c]
           sent == [Offer(r, Head(r.pending), "send") EXCEPT !.mu = Nil]
       IN conn' = [conn EXCEPT ![c] =
             CASE r.closed -> [sent EXCEPT !.pending = << >>, !.stage = AfterError(r.stage)]
               [] ~r.closed /\ HasRoom(r) -> [sent EXCEPT !.pending = Tail(@)]
               [] ~r.closed /\ ~HasRoom(r) -> [sent EXCEPT !.pending = << >>,
                                                           !.stage = UnregisterThen(r.stage)]]
    /\ handlerUnchanged /\ UNCHANGED <<conns, holder, replies, gone>>

\* onConnect is done: the pumps start.
StartPumps(c) ==
    /\ conn[c].stage = "connect"
    /\ conn[c].pending = << >>
    /\ conn' = [conn EXCEPT ![c].stage = "serve", ![c].writer = "run"]
    /\ handlerUnchanged /\ UNCHANGED <<conns, holder, replies, gone>>

\* readPump cannot read any more: it closes the channel if nobody has,
ReadFails(c) ==
    /\ conn[c].stage = "serve"
    /\ conn[c].pending = << >>
    /\ conn[c].sock = "closed" \/ c \in gone
    /\ conn[c].mu = Nil
    /\ conn' = [conn EXCEPT ![c] =
          [(IF conn[c].closed THEN @ ELSE CloseChan(@)) EXCEPT !.stage = "unregister_done"]]
    /\ handlerUnchanged /\ UNCHANGED <<conns, holder, replies, gone>>

\* and the connection is forgotten.
unregister(c) ==
    /\ conn[c].stage \in {"unregister_done", "unregister_serve", "unregister_failed"}
    /\ holder = Nil
    /\ conns' = conns \ {c}
    /\ conn' = [conn EXCEPT
          ![c].stage = CASE conn[c].stage = "unregister_done" -> "done"
                         [] conn[c].stage = "unregister_serve" -> "serve"
                         [] conn[c].stage = "unregister_failed" -> "failed",
          ![c].sock = IF conn[c].stage = "unregister_done" THEN "closed" ELSE @]
    /\ handlerUnchanged /\ UNCHANGED <<holder, replies, gone>>

-----------------------------------------------------------------------------
(* The writer, the client and the network.                                 *)

writerUnchanged == UNCHANGED <<conns, holder, latest, task, log, replies, gone>>

\* The client reads a message.  (It handles each in a goroutine of its own.)
Serve(r) == [r EXCEPT !.got = Append(@, Head(r.queue))]

\* The next message is written, and the client reads it.
Write(c) ==
    /\ conn[c].writer = "run"
    /\ conn[c].queue # << >>
    /\ conn[c].sock = "open" /\ c \notin gone
    /\ conn' = [conn EXCEPT ![c] = [Serve(@) EXCEPT !.queue = Tail(conn[c].queue)]]
    /\ writerUnchanged

\* A message is not written in time or the websocket is broken, or a ping is not
\* written, or the channel is closed and empty: the writer closes the websocket.
WriterEnds(c) ==
    /\ conn[c].writer = "run"
    /\ conn[c].queue # << >> \/ conn[c].chan = "closed"
          \/ conn[c].sock = "closed" \/ c \in gone
    /\ conn' = [conn EXCEPT ![c].queue = IF @ = << >> THEN @ ELSE Tail(@),
                            ![c].writer = "done", ![c].sock = "closed"]
    /\ writerUnchanged

\* The client closes the connection, does not answer for pongWait, or sends what
\* readPump cannot read.
Gone(c) ==
    /\ conn[c].stage # "new" /\ conn[c].sock = "open"
    /\ c \notin gone
    /\ Cardinality(gone) < MaxGone
    /\ gone' = gone \cup {c}
    /\ UNCHANGED <<conns, holder, conn, latest, task, log, replies>>

-----------------------------------------------------------------------------
Broadcasting(t) ==
    \/ Lock(t)
    \/ \E c \in Conns : LockConn(t, c)
    \/ OfferOne(t)
    \/ Unlock(t)

Handler(c) ==
    register(c) \/ onConnect(c) \/ SendLock(c) \/ Send(c) \/ StartPumps(c)
    \/ ReadFails(c) \/ unregister(c)

Writer(c) == Write(c) \/ WriterEnds(c)

Next ==
    \/ Announce
    \/ \E r \in 1 .. MaxRound : Answer(r)
    \/ \E t \in Tasks : Broadcasting(t)
    \/ \E c \in Conns : Dial(c) \/ Handler(c) \/ incomingOnion(c) \/ Writer(c) \/ Gone(c)

Spec == Init /\ [][Next]_vars

\* Goroutines run, and a mutex that is released again and again is got in the end.  A
\* write ends within writeWait, in one way or the other.  Clients owe nothing.
FairSpec ==
    /\ Spec
    /\ \A t \in Tasks : WF_vars(Broadcasting(t))
    /\ \A c \in Conns : WF_vars(Handler(c)) /\ WF_vars(Writer(c))

-----------------------------------------------------------------------------
(* Properties.                                                             *)

Registered(c) == conn[c].stage \notin {"new", "register"}

\* The broadcasts in what a connection was given.
ByHub(s) ==
    LET hub[n \in 0 .. Len(s)] ==
            IF n = 0 THEN << >>
            ELSE IF s[n].via = "hub" THEN Append(hub[n - 1], s[n].msg) ELSE hub[n - 1]
    IN hub[Len(s)]

\* No goroutine sends on a closed channel or closes one twice, although readPump, Send
\* and Broadcast may each find a reason to close it (hub.go:53-60, 130-153, 213-239).
NoPanic == \A c \in Conns : ~conn[c].panicked

\* A client reads the broadcasts since it was registered in order and without a gap: a
\* queue that overflows ends the connection, and never drops just a message
\* (hub.go:228-234).
NoGap ==
    \A c \in Conns : Registered(c) =>
        LET r == conn[c]
            due == SubSeq(log, r.since + 1, Len(log))
            toCome == \E t \in Tasks : c \in task[t].todo
        IN /\ IsPrefix(ByHub(r.got), due)
           /\ ~r.closed /\ r.writer # "done" =>
                 ByHub(r.got \o r.queue) = IF toCome THEN Front(due) ELSE due

\* A client that is served has been given the latest announcements or is about to be,
\* whenever it connected: the coordinator keeps an announcement before it broadcasts it
\* (coordinator/server.go:298-303, 335-341) and the hub registers a connection before
\* onConnect reads what was kept (hub.go:180-183).
LatestIsKnown ==
    \A c \in Conns : conn[c].stage = "serve" /\ ~conn[c].closed /\ conn[c].writer = "run" =>
        \A m \in {Message(id, latest[id]) : id \in {k \in Kept : latest[k] > 0}} :
            \/ \E x \in Range(conn[c].got \o conn[c].queue) : x.msg = m
            \/ \E t \in Tasks : task[t].msg = m /\ (task[t].pc = "lock" \/ c \in task[t].todo)

\* Every broadcast ends, however slow the clients are: it waits for no queue, and no one
\* who holds the lock of a connection waits for the hub (hub.go:130-153, 213-239).
BroadcastEnds == \A t \in Tasks : task[t].pc # "idle" ~> task[t].pc = "idle"

\* A connection that is broken or was closed leaves the hub, and its goroutines end
\* (hub.go:52-62, 94-128).
ClosedIsReleased ==
    \A c \in Conns :
        conn[c].closed \/ c \in gone ~>
            /\ c \notin conns
            /\ conn[c].stage \in {"done", "failed"}
            /\ conn[c].writer # "run"

\* A client that the hub serves misses no message, of before it came or since.
NothingIsMissed == NoGap /\ LatestIsKnown

\* Neither slow clients nor dead ones hold anything up.
NothingIsHeldUp == BroadcastEnds /\ ClosedIsReleased
=============================================================================
