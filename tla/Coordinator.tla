---------------------------- MODULE Coordinator -----------------------------
(***************************************************************************)
(* The coordinator of one service (coordinator/server.go, persist.go) with *)
(* the CDN, and with the PKG servers and the mixnet as it sees them: calls *)
(* that succeed or fail.  Its loop opens rounds one after the other, while *)
(* a goroutine per round (runRound) waits for the mixnet; onions arrive at *)
(* any time.  The round number is the only state that is saved.            *)
(*                                                                         *)
(* srv.mu makes its sections single steps.  Broadcasts are recorded, their *)
(* way to the clients is not part of this module.                          *)
(***************************************************************************)
EXTENDS CDN, FiniteSets

CONSTANTS
    Clients,      \* clients that send an onion in every round
    Mixers,       \* signing keys of last mixers, one in each configuration
    Service,      \* "AddFriend" or "Dialing"
    MaxRound,     \* bound: rounds are 1 .. MaxRound
    MaxMixing,    \* bound: rounds that are in the mixnet at once
    MaxFailures,  \* bound: failed calls, and restarts of the CDN
    MaxCrashes    \* bound: crashes of the coordinator

Rounds == 1 .. MaxRound
Onion == [client : Clients, round : Rounds]

ASSUME CoordinatorAssumption ==
    /\ Service \in {"AddFriend", "Dialing"}
    /\ MaxRound \in Nat /\ MaxMixing \in Nat /\ MaxFailures \in Nat /\ MaxCrashes \in Nat

VARIABLES
    pc,         \* where the loop is
    round,      \* Server.round
    onions,     \* Server.onions
    file,       \* PersistPath: the saved round
    mixer,      \* the last mixer of the configuration in use
    closed,     \* Server.closed
    waiting,    \* rounds whose runRound waits for the mixnet
    mixing,     \* the mixnet: batch, last mixer and state of each round
    announced,  \* history: what was broadcast
    accepted,   \* history: onions that were accepted, and whether after the cut
    sent,       \* onions the clients have sent
    failures,   \* failures so far
    crashes     \* crashes so far

loopVars == <<pc, round, file, mixer>>
vars == <<cdnVars, loopVars, onions, closed, waiting, mixing, announced, accepted, sent,
          failures, crashes>>

Message(id, r) == [id |-> id, round |-> r]

Broadcast(id, r) == announced' = announced \cup {Message(id, r)}

\* A server that "init" created, and that LoadPersistedState and Run started.
Init ==
    /\ CDNInit
    /\ pc = "config"
    /\ round = 0
    /\ onions = {}
    /\ file = 0
    /\ mixer \in Mixers
    /\ closed = FALSE
    /\ waiting = {}
    /\ mixing = << >>
    /\ announced = {}
    /\ accepted = {}
    /\ sent = {}
    /\ failures = 0
    /\ crashes = 0

\* A call fails.
Fail == failures < MaxFailures /\ failures' = failures + 1

\* Rounds whose batch the mixnet has not finished.
InMixnet == {r \in DOMAIN mixing : mixing[r].state = "mixing"}
-----------------------------------------------------------------------------
(***************************************************************************)
(* loop.                                                                   *)
(***************************************************************************)

\* The configuration is fetched, the round number is incremented and saved.
BeginRound(m) ==
    /\ pc = "config"
    /\ round < MaxRound
    /\ mixer' = m
    /\ round' = round + 1
    /\ file' = round + 1
    /\ pc' = "announce"
    /\ UNCHANGED <<cdnVars, onions, closed, waiting, mixing, announced, accepted, sent,
                   failures, crashes>>

\* persistLocked fails: the loop ends, with the new number in memory.
PersistFails ==
    /\ pc = "config"
    /\ round < MaxRound
    /\ Fail
    /\ round' = round + 1
    /\ pc' = "stopped"
    /\ UNCHANGED <<cdnVars, file, mixer, onions, closed, waiting, mixing, announced, accepted,
                   sent, crashes>>

AnnounceRound ==
    /\ pc = "announce"
    /\ Broadcast("newround", round)
    /\ pc' = IF Service = "AddFriend" THEN "pkg" ELSE "cdn"
    /\ UNCHANGED <<cdnVars, round, file, mixer, onions, closed, waiting, mixing, accepted, sent,
                   failures, crashes>>

\* pkgClient.NewRound succeeds.
AnnouncePKG ==
    /\ pc = "pkg"
    /\ Broadcast("pkg", round)
    /\ pc' = "pkgwait"
    /\ UNCHANGED <<cdnVars, round, file, mixer, onions, closed, waiting, mixing, accepted, sent,
                   failures, crashes>>

\* prepCDN succeeds.
PrepCDN ==
    /\ pc = "cdn"
    /\ NewBucket(round, mixer)
    /\ pc' = "mixnet"
    /\ UNCHANGED <<round, file, mixer, onions, closed, waiting, mixing, announced, accepted, sent,
                   failures, crashes>>

\* prepCDN fails, before or after the CDN has made the bucket: the loop ends.  (That
\* the CDN refuses because the bucket exists is what BucketIsNew excludes.)
PrepCDNFails ==
    /\ pc = "cdn"
    /\ Fail
    /\ UNCHANGED cdnVars \/ NewBucket(round, mixer)
    /\ pc' = "stopped"
    /\ UNCHANGED <<round, file, mixer, onions, closed, waiting, mixing, announced,
                   accepted, sent, crashes>>

\* mixnetClient.NewRound succeeds.
AnnounceMix ==
    /\ pc = "mixnet"
    /\ Broadcast("mix", round)
    /\ pc' = "mixwait"
    /\ UNCHANGED <<cdnVars, round, file, mixer, onions, closed, waiting, mixing, accepted, sent,
                   failures, crashes>>

\* Mutant of RetryRound: the round is tried again under its number.
RetryRoundAgain ==
    /\ pc \in {"pkg", "mixnet"}
    /\ Fail
    /\ pc' = "announce"
    /\ UNCHANGED <<cdnVars, round, file, mixer, onions, closed, waiting, mixing, announced,
                   accepted, sent, crashes>>

\* The configuration cannot be fetched, or pkgClient.NewRound or
\* mixnetClient.NewRound fails: the round is given up.
RetryRound ==
    /\ pc \in {"config", "pkg", "mixnet"}
    /\ Fail
    /\ pc' = "retry"
    /\ UNCHANGED <<cdnVars, round, file, mixer, onions, closed, waiting, mixing, announced,
                   accepted, sent, crashes>>

\* A sleep ends.
Wake ==
    /\ \/ pc \in {"retry", "roundwait"} /\ pc' = "config"
       \/ pc = "pkgwait" /\ pc' = "cdn"
    /\ UNCHANGED <<cdnVars, round, file, mixer, onions, closed, waiting, mixing, announced,
                   accepted, sent, failures, crashes>>

\* Mutant of StartMixing: the next batch begins before runRound has taken this one.
StartMixingEmpty ==
    /\ pc = "mixwait"
    /\ Cardinality(InMixnet \cup waiting) < MaxMixing
    /\ waiting' = waiting \cup {round}
    /\ mixing' = With(mixing, round, [batch |-> {}, mixer |-> mixer, state |-> "mixing"])
    /\ onions' = {}
    /\ pc' = "roundwait"
    /\ UNCHANGED <<cdnVars, round, file, mixer, closed, announced, accepted, sent,
                   failures, crashes>>

\* MixWait is over: the onions go to a new runRound, and the next batch begins.
StartMixing ==
    /\ pc = "mixwait"
    /\ Cardinality(InMixnet \cup waiting) < MaxMixing
    /\ waiting' = waiting \cup {round}
    /\ mixing' = With(mixing, round, [batch |-> onions, mixer |-> mixer, state |-> "mixing"])
    /\ onions' = {}
    /\ pc' = "roundwait"
    /\ UNCHANGED <<cdnVars, round, file, mixer, closed, announced, accepted, sent,
                   failures, crashes>>

\* Close wakes the sleeps.
Close ==
    /\ ~closed
    /\ closed' = TRUE
    /\ UNCHANGED <<cdnVars, loopVars, onions, waiting, mixing, announced, accepted, sent,
                   failures, crashes>>

Shutdown ==
    /\ closed
    /\ pc \in {"retry", "pkgwait", "mixwait", "roundwait"}
    /\ pc' = "stopped"
    /\ UNCHANGED <<cdnVars, round, file, mixer, onions, closed, waiting, mixing, announced,
                   accepted, sent, failures, crashes>>
-----------------------------------------------------------------------------
(***************************************************************************)
(* The other goroutines, the mixnet, and restarts.                         *)
(***************************************************************************)

\* A client sends its onion when it has heard of the round's mix settings; it may
\* arrive at any later time.
incomingOnion(o) ==
    /\ Message("mix", o.round) \in announced
    /\ o \notin sent
    /\ sent' = sent \cup {o}
    /\ IF o.round = round
       THEN /\ onions' = onions \cup {o}
            /\ accepted' = accepted \cup {[onion |-> o, late |-> o.round \in DOMAIN mixing]}
       ELSE UNCHANGED <<onions, accepted>>
    /\ UNCHANGED <<cdnVars, loopVars, closed, waiting, mixing, announced, failures, crashes>>

\* The batch has come through the mixnet, whose last server puts the mailboxes
\* (HandleMessages).  Onions of another round do not decrypt.
Upload(r) ==
    /\ mixing[r].state = "mixing"
    /\ Put(r, mixing[r].mixer, {o \in mixing[r].batch : o.round = r})
    /\ mixing' = [mixing EXCEPT ![r].state = "done"]
    /\ UNCHANGED <<loopVars, onions, closed, waiting, announced, accepted, sent,
                   failures, crashes>>

\* The CDN refuses the mailboxes, a server fails, or an answer is lost on the way back.
MixFails(r) ==
    /\ \/ mixing[r].state = "mixing" /\ ~MayPut(r, mixing[r].mixer) /\ UNCHANGED failures
       \/ mixing[r].state \in {"mixing", "done"} /\ r \in waiting /\ Fail
    /\ mixing' = [mixing EXCEPT ![r].state = "failed"]
    /\ UNCHANGED <<cdnVars, loopVars, onions, closed, waiting, announced, accepted, sent, crashes>>

\* Mutant of EndRound: a failed round is only logged.
EndRoundSilently(r) ==
    /\ r \in waiting
    /\ mixing[r].state \in {"done", "failed"}
    /\ announced' = IF mixing[r].state = "done"
                    THEN announced \cup {Message("mailbox", r)} ELSE announced
    /\ waiting' = waiting \ {r}
    /\ UNCHANGED <<cdnVars, loopVars, onions, closed, mixing, accepted, sent, failures, crashes>>

\* runRound gets the mixnet's answer.
EndRound(r) ==
    /\ r \in waiting
    /\ \/ mixing[r].state = "done" /\ Broadcast("mailbox", r)
       \/ mixing[r].state = "failed" /\ Broadcast("error", r)
    /\ waiting' = waiting \ {r}
    /\ UNCHANGED <<cdnVars, loopVars, onions, closed, mixing, accepted, sent, failures, crashes>>

\* The process dies; LoadPersistedState and Run start it again.  What the mixnet
\* has been given goes on there.
Crash ==
    /\ crashes < MaxCrashes
    /\ crashes' = crashes + 1
    /\ pc' = "config"
    /\ round' = file
    /\ onions' = {}
    /\ closed' = FALSE
    /\ waiting' = {}
    /\ UNCHANGED <<cdnVars, file, mixer, mixing, announced, accepted, sent, failures>>

Storage ==
    /\ \/ Tick /\ UNCHANGED failures
       \/ (\E left \in SUBSET DOMAIN stored : DeleteExpired(left)) /\ UNCHANGED failures
       \/ CDNRestart /\ Fail
    /\ UNCHANGED <<loopVars, onions, closed, waiting, mixing, announced, accepted, sent, crashes>>

Loop ==
    \/ \E m \in Mixers : BeginRound(m)
    \/ AnnounceRound
    \/ AnnouncePKG
    \/ PrepCDN
    \/ AnnounceMix
    \/ Wake
    \/ StartMixing

Next ==
    \/ Loop
    \/ PersistFails
    \/ PrepCDNFails
    \/ RetryRound
    \/ Close
    \/ Shutdown
    \/ \E o \in Onion : incomingOnion(o)
    \/ \E r \in DOMAIN mixing : Upload(r) \/ MixFails(r) \/ EndRound(r)
    \/ Crash
    \/ Storage

Spec == Init /\ [][Next]_vars

\* The loop's sleeps end, the servers it calls answer, and goroutines run.
Fairness ==
    /\ WF_vars(Loop)
    /\ \A r \in Rounds :
         WF_vars(r \in DOMAIN mixing /\ (Upload(r) \/ MixFails(r) \/ EndRound(r)))

FairSpec == Spec /\ Fairness
-----------------------------------------------------------------------------
(***************************************************************************)
(* Properties.                                                             *)
(***************************************************************************)

Types ==
    /\ pc \in {"config", "announce", "pkg", "pkgwait", "cdn", "mixnet", "mixwait", "roundwait",
               "retry", "stopped"}
    /\ round \in 0 .. MaxRound
    /\ file \in 0 .. MaxRound
    /\ pc # "stopped" => file = round
    /\ pc \notin {"config", "retry", "stopped"} => round \in Rounds
    /\ mixer \in Mixers
    /\ onions \subseteq Onion
    /\ waiting \subseteq DOMAIN mixing
    /\ DOMAIN mixing \subseteq Rounds
    /\ \A r \in DOMAIN mixing :
         mixing[r] \in [batch : SUBSET Onion, mixer : Mixers, state : {"mixing", "done", "failed"}]
    /\ DOMAIN uploaders \subseteq Rounds

\* Type correctness; as long as the loop runs, the round it works on is saved.
TypeOK == Types /\ closed \in BOOLEAN

\* A round number is announced once, through whatever failures and restarts, so
\* that keys, nonces and buckets of a round are never used for another one
\* (coordinator/server.go:265 saves the number before it is broadcast).
RoundIsFresh == pc = "announce" => \A a \in announced : a.round < round

\* The CDN never refuses the coordinator's new bucket: "bucket already exists"
\* (cdn/cdn.go:136) would end the loop for good.
BucketIsNew == pc = "cdn" => round \notin DOMAIN uploaders

\* What the clients may fetch: the mailboxes of a round that was announced as done,
\* for at least the CDN's time to live (cdn/cdn.go:33: "how long a key is stored
\* before it is deleted").  Rounds whose number begins with that of another, as 10
\* does with 1, have no such promise: they are deleted with the other.
MailboxIsKept ==
    \A r \in Rounds :
        /\ Message("mailbox", r) \in announced
        /\ clock < putAt[r] + TTL
        /\ \A q \in Rounds \ {r} : ~DecimalPrefix(q, r)
        => r \in DOMAIN stored

\* An onion that the coordinator accepted before the cut of its round is in the
\* mailboxes that it announces for the round.
OnTimeIsServed ==
    \A a \in accepted :
        /\ ~a.late
        /\ Message("mailbox", a.onion.round) \in announced
        /\ a.onion.round \in DOMAIN stored
        => a.onion \in stored[a.onion.round]

\* The clients hear of every round that they were asked to send onions in, unless
\* the coordinator dies or is closed.
MixAnswered ==
    \A r \in Rounds :
        Message("mix", r) \in announced
        ~> Message("mailbox", r) \in announced \/ Message("error", r) \in announced
           \/ crashes > 0 \/ closed
-----------------------------------------------------------------------------
(***************************************************************************)
(* The inductive invariant behind RoundIsFresh, BucketIsNew and            *)
(* OnTimeIsServed.                                                         *)
(***************************************************************************)

\* The loop has saved the round and not yet got to its bucket, to the broadcast of
\* its mix settings, or to its cut.
BeforeBucket == {"announce", "pkg", "pkgwait", "cdn"}
BeforeMix == BeforeBucket \cup {"mixnet"}
BeforeCut == BeforeMix \cup {"mixwait"}

\* Whatever was announced, prepared or mixed is of a saved round, and not yet of
\* the one the loop is working on.
NumbersArePast ==
    /\ \A a \in announced :
         /\ a.round \in Rounds /\ a.round <= file
         /\ pc = "announce" => a.round < round
         /\ pc \in BeforeMix /\ a.id = "mix" => a.round < round
    /\ \A r \in DOMAIN uploaders : r <= file /\ (pc \in BeforeBucket => r < round)
    /\ \A r \in DOMAIN mixing : r <= file /\ (pc \in BeforeCut => r < round)

\* The CDN holds what the mixnet got, and the mixnet what was accepted in time.
OnionsAreKept ==
    /\ \A r \in DOMAIN stored :
         r \in DOMAIN mixing /\ stored[r] = {o \in mixing[r].batch : o.round = r}
    /\ \A a \in accepted :
         /\ Message("mix", a.onion.round) \in announced
         /\ ~a.late =>
              /\ a.onion.round \in DOMAIN mixing => a.onion \in mixing[a.onion.round].batch
              /\ pc = "mixwait" /\ a.onion.round = round => a.onion \in onions

IInv == Types /\ NumbersArePast /\ OnionsAreKept
=============================================================================
