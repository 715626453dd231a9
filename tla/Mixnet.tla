------------------------------- MODULE Mixnet -------------------------------
(***************************************************************************)
(* One round of the mixnet (mixnet/mixnet.go) with the mixers of the two   *)
(* services (addfriend/mixer.go, dialing/mixer.go).                        *)
(*                                                                         *)
(* Servers are 1 .. N in the order of the chain; caller 0 is the           *)
(* coordinator, and caller c talks to server c + 1.  pc[c] is where caller *)
(* c is in addOnions and RunRound; for a server this is within its handler *)
(* of CloseRound.  The streams of AddOnions, the decryption workers, the   *)
(* noise and the encryption of replies are goroutines and steps of their   *)
(* own.  Rounds share nothing but the workers, so there is one.            *)
(*                                                                         *)
(* An onion has an identity and a message, and may fail to open at some    *)
(* server (breaks).  Calls fail, servers restart and lose their rounds.    *)
(***************************************************************************)
EXTENDS Integers, Sequences, FiniteSets, SequencesExt

CONSTANTS
    N,             \* length of the chain
    Batches,       \* the batches that the coordinator may have
    NumMailboxes,  \* mailboxes of the round
    NoiseCounts,   \* bound: the numbers of noise messages that Laplace may give
    MaxFailures,   \* bound: failed calls and restarts
    Nil            \* nothing

Servers == 1 .. N
Callers == 0 .. N - 1

ASSUME MixnetAssumption ==
    /\ N \in Nat \ {0}
    /\ NumMailboxes \in Nat
    /\ NoiseCounts \subseteq [0 .. NumMailboxes -> Nat]
    /\ MaxFailures \in Nat

\* Onions, from a client or from the noise of a server; num stands for the last 8 bytes,
\* and tail for those of the message.  Mailbox 0 takes the dummies, which are all zero.
Message == [mailbox : 0 .. NumMailboxes, tail : Seq(Nat)]
Onion == [from : 0 .. N, num : Seq(Nat), breaks : 1 .. N + 1, msg : Message]

\* What clients send: 8 bytes are the same in copies of an onion only, and tell it from noise.
ASSUME BatchAssumption ==
    \A onions \in Batches :
        /\ onions \in Seq(Onion)
        /\ \A i \in DOMAIN onions : LET m == onions[i].msg
                                   IN /\ onions[i].from = 0
                                      /\ m.mailbox = 0 <=> m.tail = << >>
                                      /\ Len(m.tail) # 3
        /\ \A i, j \in DOMAIN onions :
              (\/ onions[i].num = onions[j].num
               \/ onions[i].msg.tail = onions[j].msg.tail /\ onions[i].msg.mailbox # 0)
              => onions[i] = onions[j]

ASSUME NilAssumption == Nil \notin Onion \cup Message \cup Seq(Message \cup {Nil})

VARIABLES
    bidirectional,  \* MixService.Bidirectional of the service
    setup,          \* Client.NewRound: the calls that it makes now
    answers,        \* Client.NewRound: the answers to them
    batch,          \* the onions of the coordinator
    rounds,         \* the servers that have the round in Server.rounds
    st,             \* roundState of each server
    noise,          \* roundState.noise, kept when the code drops it
    pc,             \* callers and handlers of CloseRound
    outgoing,       \* what each caller sends
    stream,         \* the AddOnions streams of each caller, one for each onion
    shuffler,       \* the permutation of each server
    handled,        \* what HandleMessages put into mailboxes, or answered
    replies,        \* what the coordinator gets back
    deletes,        \* servers for which a DeleteRound is under way
    undeleted,      \* history: servers whose DeleteRound did not happen
    failures        \* failures so far

setupVars == <<bidirectional, setup, answers>>
endVars == <<deletes, undeleted>>
vars == <<setupVars, batch, rounds, st, noise, pc, outgoing, stream, shuffler, handled, replies,
          endVars, failures>>

\* A new roundState.
NewState ==
    [numIncoming |-> 0, incoming |-> << >>, acceptingOnions |-> FALSE, jobs |-> {},
     noiseDone |-> "unset", index |-> << >>, replies |-> << >>, encryptDone |-> FALSE]

Init ==
    /\ bidirectional \in BOOLEAN
    /\ setup = "NewRound"
    /\ answers = [s \in Servers |-> "none"]
    /\ batch \in Batches
    /\ rounds = {}
    /\ st = [s \in Servers |-> NewState]
    /\ noise = [s \in Servers |-> << >>]
    /\ pc = [i \in 0 .. N |-> "idle"]
    /\ outgoing = [i \in 0 .. N |-> << >>]
    /\ stream = [c \in Callers |-> << >>]
    /\ shuffler = [s \in Servers |-> << >>]
    /\ handled = Nil
    /\ replies = Nil
    /\ deletes = {}
    /\ undeleted = {}
    /\ failures = 0

Fail == failures < MaxFailures /\ failures' = failures + 1
-----------------------------------------------------------------------------
(***************************************************************************)
(* Client.NewRound, and the calls that it makes of all servers at once.    *)
(***************************************************************************)

NewRound(s) ==
    /\ setup = "NewRound"
    /\ answers[s] = "none"
    /\ rounds' = rounds \cup {s}
    /\ answers' = [answers EXCEPT ![s] = "ok"]
    /\ UNCHANGED <<bidirectional, setup, batch, st, noise, pc, outgoing, stream, shuffler,
                   handled, replies, endVars, failures>>

\* The settings are signed, and the noise is started.
SetRoundSettings(s) ==
    /\ setup = "SetRoundSettings"
    /\ answers[s] = "none"
    /\ IF s \in rounds
       THEN /\ answers' = [answers EXCEPT ![s] = "ok"]
            /\ st' = [st EXCEPT ![s].noiseDone = "open"]
       ELSE /\ answers' = [answers EXCEPT ![s] = "error"]
            /\ UNCHANGED st
    /\ UNCHANGED <<bidirectional, setup, batch, rounds, noise, pc, outgoing, stream, shuffler,
                   handled, replies, endVars, failures>>

\* A call fails before it has an effect; or its answer is lost.
SetupFails(s) ==
    /\ setup \in {"NewRound", "SetRoundSettings"}
    /\ answers[s] \in {"none", "ok"}
    /\ Fail
    /\ answers' = [answers EXCEPT ![s] = "error"]
    /\ UNCHANGED <<bidirectional, setup, batch, rounds, st, noise, pc, outgoing, stream, shuffler,
                   handled, replies, endVars>>

\* Client.NewRound has all answers.
SetupAnswered ==
    /\ setup \in {"NewRound", "SetRoundSettings"}
    /\ \A s \in Servers : answers[s] # "none"
    /\ setup' = IF \E s \in Servers : answers[s] = "error" THEN "failed"
                ELSE IF setup = "NewRound" THEN "SetRoundSettings" ELSE "done"
    /\ answers' = [s \in Servers |-> "none"]
    /\ UNCHANGED <<bidirectional, batch, rounds, st, noise, pc, outgoing, stream, shuffler,
                   handled, replies, endVars, failures>>

\* The noise of server s for mailbox b: random, but the dummy mailbox is all zero.
NoiseOnion(s, b, i) ==
    [from |-> s, num |-> <<b, i>>, breaks |-> N + 1,
     msg |-> [mailbox |-> b, tail |-> IF b = 0 THEN << >> ELSE <<s, b, i>>]]

NoiseOnions(s, counts) ==
    UNION {{NoiseOnion(s, b, i) : i \in 1 .. counts[b]} : b \in 0 .. NumMailboxes}

GenerateNoise(s, counts) ==
    /\ st[s].noiseDone = "open"
    /\ noise' = [noise EXCEPT ![s] = SetToSeq(NoiseOnions(s, counts))]
    /\ st' = [st EXCEPT ![s].noiseDone = "closed"]
    /\ UNCHANGED <<setupVars, batch, rounds, pc, outgoing, stream, shuffler, handled, replies,
                   endVars, failures>>
-----------------------------------------------------------------------------
(***************************************************************************)
(* addOnions at the caller, AddOnions and the workers at the server.       *)
(***************************************************************************)

\* The coordinator runs the round.
RunRound ==
    /\ setup = "done"
    /\ pc[0] = "idle"
    /\ pc' = [pc EXCEPT ![0] = "adding"]
    /\ outgoing' = [outgoing EXCEPT ![0] = batch]
    /\ stream' = [stream EXCEPT ![0] = [i \in DOMAIN batch |-> "new"]]
    /\ UNCHANGED <<setupVars, batch, rounds, st, noise, shuffler, handled, replies, endVars,
                   failures>>

\* Mutant of firstStream and of noiseWait.
Always(s) == s \in Servers

\* numIncoming is not set.
firstStream(s) == st[s].numIncoming = 0

\* A stream begins: the first one makes room for the onions of all.
AddOnions(c, i) ==
    /\ pc[c] = "adding"
    /\ stream[c][i] = "new"
    /\ IF c + 1 \in rounds
       THEN /\ stream' = [stream EXCEPT ![c][i] = "open"]
            /\ IF firstStream(c + 1)
               THEN st' = [st EXCEPT ![c + 1].numIncoming = Len(outgoing[c]),
                                     ![c + 1].acceptingOnions = TRUE,
                                     ![c + 1].incoming = [j \in DOMAIN outgoing[c] |-> Nil]]
               ELSE UNCHANGED st
       ELSE /\ stream' = [stream EXCEPT ![c][i] = "error"]
            /\ UNCHANGED st
    /\ UNCHANGED <<setupVars, batch, rounds, noise, pc, outgoing, shuffler, handled, replies,
                   endVars, failures>>

\* An onion is received and given to the workers, and the stream ends.
ReceiveOnion(c, i) ==
    /\ pc[c] = "adding"
    /\ stream[c][i] = "open"
    /\ stream' = [stream EXCEPT ![c][i] = "done"]
    /\ st' = [st EXCEPT ![c + 1].jobs = IF st[c + 1].acceptingOnions THEN @ \cup {i} ELSE @]
    /\ UNCHANGED <<setupVars, batch, rounds, noise, pc, outgoing, shuffler, handled, replies,
                   endVars, failures>>

decryptionWorker(s, i) ==
    /\ i \in st[s].jobs
    /\ LET onion == outgoing[s - 1][i]
       IN st' = [st EXCEPT ![s].incoming[i] = IF onion.breaks = s THEN Nil ELSE onion,
                           ![s].jobs = @ \ {i}]
    /\ UNCHANGED <<setupVars, batch, rounds, noise, pc, outgoing, stream, shuffler, handled,
                   replies, endVars, failures>>

\* RunRoundUnidirectional deletes the round whatever has happened, and
\* RunRoundBidirectional when it has the replies.
EndCall(c, result) ==
    /\ pc' = [pc EXCEPT ![c] = result]
    /\ deletes' = IF bidirectional /\ result = "failed" THEN deletes ELSE deletes \cup {c + 1}
    /\ UNCHANGED undeleted

\* All streams have ended.
OnionsAdded(c) ==
    /\ pc[c] = "adding"
    /\ \A i \in DOMAIN stream[c] : stream[c][i] \in {"done", "error"}
    /\ IF \E i \in DOMAIN stream[c] : stream[c][i] = "error"
       THEN EndCall(c, "failed")
       ELSE /\ pc' = [pc EXCEPT ![c] = "closing"]
            /\ UNCHANGED endVars
    /\ UNCHANGED <<setupVars, batch, rounds, st, noise, outgoing, stream, shuffler, handled,
                   replies, failures>>
-----------------------------------------------------------------------------
(***************************************************************************)
(* CloseRound.                                                             *)
(***************************************************************************)

\* No new jobs from here on.
CloseRound(s) ==
    /\ pc[s - 1] = "closing"
    /\ pc[s] = "idle"
    /\ s \in rounds
    /\ pc' = [pc EXCEPT ![s] = "draining"]
    /\ st' = [st EXCEPT ![s].acceptingOnions = FALSE]
    /\ UNCHANGED <<setupVars, batch, rounds, noise, outgoing, stream, shuffler, handled, replies,
                   endVars, failures>>

\* The last 8 bytes of what server s has opened.
msgkey(s, onion) == IF s < N THEN <<onion.from, onion.num>> ELSE onion.msg.tail

\* The positions that filterIncoming keeps: the first of each key.
Kept(s, incoming) ==
    {i \in DOMAIN incoming :
        /\ incoming[i] # Nil
        /\ \A j \in 1 .. i - 1 :
             incoming[j] # Nil => msgkey(s, incoming[j]) # msgkey(s, incoming[i])}

\* Where position i goes when those of kept are appended one after the other, and the
\* sequence that this makes: incomingValid.
Rank(kept, i) == Cardinality({j \in kept : j <= i})

Appended(s, kept) == [k \in 1 .. Cardinality(kept) |-> s[CHOOSE i \in kept : Rank(kept, i) = k]]

\* incomingIndex, 0 for the onions that were dropped.
IncomingIndex(incoming, kept) ==
    [i \in DOMAIN incoming |-> IF i \in kept THEN Rank(kept, i) ELSE 0]

\* decryptWg.Wait: the workers have opened all onions.
decryptWait(s) == st[s].jobs = {}

\* <-noiseDone.
noiseWait(s) == st[s].noiseDone = "closed"

\* All jobs are done and so is the noise: the batch of server s goes on, shuffled
\* if there is a next server.
Mix(s) ==
    /\ pc[s] = "draining"
    /\ decryptWait(s)
    /\ noiseWait(s)
    /\ LET incoming == st[s].incoming
           kept == Kept(s, incoming)
           all == Appended(incoming, kept) \o noise[s]
       IN /\ st' = [st EXCEPT ![s].index = IncomingIndex(incoming, kept), ![s].incoming = << >>]
          /\ IF s < N
             THEN \E p \in Bijection(DOMAIN all, DOMAIN all) :
                    /\ shuffler' = [shuffler EXCEPT ![s] = p]
                    /\ outgoing' = [outgoing EXCEPT ![s] = [j \in DOMAIN p |-> all[p[j]]]]
                    /\ stream' = [stream EXCEPT ![s] = [j \in DOMAIN p |-> "new"]]
                    /\ pc' = [pc EXCEPT ![s] = "adding"]
             ELSE /\ outgoing' = [outgoing EXCEPT ![s] = all]
                  /\ pc' = [pc EXCEPT ![s] = "handling"]
                  /\ UNCHANGED <<shuffler, stream>>
    /\ UNCHANGED <<setupVars, batch, rounds, noise, handled, replies, endVars, failures>>

\* encryptReplies, its result; a dropped onion is answered under a key of nobody.
SealReplies(index, msgs) ==
    [i \in DOMAIN index |-> IF index[i] > 0 THEN msgs[index[i]] ELSE Nil]

\* The messages for mailboxes other than that of the dummies.
Deliverable(onions) ==
    Appended([j \in DOMAIN onions |-> onions[j].msg],
             {j \in DOMAIN onions : onions[j].msg.mailbox # 0})

\* HandleMessages groups the messages by mailbox and puts them.  A bidirectional
\* service answers each message.
HandleMessages ==
    /\ pc[N] = "handling"
    /\ handled' = Deliverable(outgoing[N])
    /\ st' = [st EXCEPT ![N].replies =
           IF bidirectional
           THEN SealReplies(st[N].index, [j \in DOMAIN outgoing[N] |-> outgoing[N][j].msg])
           ELSE << >>]
    /\ \/ pc' = [pc EXCEPT ![N] = "ok"] /\ UNCHANGED failures
       \/ pc' = [pc EXCEPT ![N] = "failed"] /\ Fail
    /\ UNCHANGED <<setupVars, batch, rounds, noise, outgoing, stream, shuffler, replies, endVars>>

HandleMessagesFails ==
    /\ pc[N] = "handling"
    /\ Fail
    /\ pc' = [pc EXCEPT ![N] = "failed"]
    /\ UNCHANGED <<setupVars, batch, rounds, st, noise, outgoing, stream, shuffler, handled,
                   replies, endVars>>

\* Mutant of encryptReplies: it does not end when there is nothing to encrypt.
encryptRepliesSome(s) ==
    /\ bidirectional
    /\ pc[s] = "ok"
    /\ ~st[s].encryptDone
    /\ st[s].replies # << >>
    /\ st' = [st EXCEPT ![s].encryptDone = TRUE]
    /\ UNCHANGED <<setupVars, batch, rounds, noise, pc, outgoing, stream, shuffler, handled,
                   replies, endVars, failures>>

\* The goroutine of encryptReplies ends.
encryptReplies(s) ==
    /\ bidirectional
    /\ pc[s] = "ok"
    /\ ~st[s].encryptDone
    /\ st' = [st EXCEPT ![s].encryptDone = TRUE]
    /\ UNCHANGED <<setupVars, batch, rounds, noise, pc, outgoing, stream, shuffler, handled,
                   replies, endVars, failures>>
-----------------------------------------------------------------------------
(***************************************************************************)
(* The end of RunRoundUnidirectional and RunRoundBidirectional.            *)
(***************************************************************************)

\* CloseRound returns, if only to say that the round is not known.
RoundClosed(c) ==
    /\ pc[c] = "closing"
    /\ \/ pc[c + 1] = "ok"
          /\ IF bidirectional
             THEN pc' = [pc EXCEPT ![c] = "fetching"] /\ UNCHANGED endVars
             ELSE EndCall(c, "ok")
       \/ pc[c + 1] \in {"failed", "lost"} /\ EndCall(c, "failed")
       \/ pc[c + 1] = "idle" /\ c + 1 \notin rounds /\ EndCall(c, "failed")
    /\ UNCHANGED <<setupVars, batch, rounds, st, noise, outgoing, stream, shuffler, handled,
                   replies, failures>>

\* Mutant of Unshuffle: the replies stay in the shuffled order.
UnshuffleNot(s, msgs) == SubSeq(msgs, 1, Len(shuffler[s]) - Len(noise[s]))

\* The replies in the order before the shuffle, without those to the noise.
Unshuffle(s, msgs) ==
    LET p == shuffler[s]
        original == [k \in DOMAIN p |-> msgs[CHOOSE j \in DOMAIN p : p[j] = k]]
    IN SubSeq(original, 1, Len(p) - Len(noise[s]))

\* The replies are fetched when they are encrypted.
GetOnions(c) ==
    /\ pc[c] = "fetching"
    /\ IF c + 1 \in rounds
       THEN /\ st[c + 1].encryptDone
            /\ EndCall(c, "ok")
            /\ IF c = 0
               THEN replies' = st[1].replies /\ UNCHANGED st
               ELSE /\ st' = [st EXCEPT ![c].replies =
                           SealReplies(st[c].index, Unshuffle(c, st[c + 1].replies))]
                    /\ UNCHANGED replies
       ELSE EndCall(c, "failed") /\ UNCHANGED <<st, replies>>
    /\ UNCHANGED <<setupVars, batch, rounds, noise, outgoing, stream, shuffler, handled, failures>>

DeleteRound(s) ==
    /\ s \in deletes
    /\ deletes' = deletes \ {s}
    /\ rounds' = rounds \ {s}
    /\ UNCHANGED <<setupVars, batch, st, noise, pc, outgoing, stream, shuffler, handled, replies,
                   undeleted, failures>>

DeleteFails(s) ==
    /\ s \in deletes
    /\ Fail
    /\ deletes' = deletes \ {s}
    /\ undeleted' = undeleted \cup {s}
    /\ UNCHANGED <<setupVars, batch, rounds, st, noise, pc, outgoing, stream, shuffler, handled,
                   replies>>

\* The caller of s has given up: the context of its CloseRound is cancelled.
Cancelled(s) == s > 0 /\ pc[s] # "idle" /\ pc[s - 1] # "closing"

\* A call breaks, on the way there or back.
CallFails(c) ==
    /\ pc[c] \in {"adding", "closing", "fetching"}
    /\ IF Cancelled(c) THEN UNCHANGED failures ELSE Fail
    /\ EndCall(c, "failed")
    /\ UNCHANGED <<setupVars, batch, rounds, st, noise, outgoing, stream, shuffler, handled,
                   replies>>

\* Server s restarts: its rounds, the calls it answers and those it makes are gone.
Restart(s) ==
    /\ Fail
    /\ rounds' = rounds \ {s}
    /\ st' = [st EXCEPT ![s] = NewState]
    /\ pc' = [pc EXCEPT ![s] = IF @ = "idle" THEN @ ELSE "lost",
                        ![s - 1] = IF @ = "adding" THEN "failed" ELSE @]
    /\ deletes' = (deletes \ {s + 1}) \cup (IF pc[s - 1] = "adding" /\ ~bidirectional THEN {s} ELSE {})
    /\ undeleted' = undeleted \cup (deletes \cap {s + 1})
    /\ UNCHANGED <<setupVars, batch, noise, outgoing, stream, shuffler, handled, replies>>
-----------------------------------------------------------------------------
Setup ==
    \/ \E s \in Servers :
         \/ NewRound(s)
         \/ SetRoundSettings(s)
         \/ \E counts \in NoiseCounts : GenerateNoise(s, counts)
    \/ SetupAnswered

CallerStep(c) ==
    \/ \E i \in DOMAIN stream[c] : AddOnions(c, i) \/ ReceiveOnion(c, i)
    \/ OnionsAdded(c)
    \/ RoundClosed(c)
    \/ GetOnions(c)

ServerStep(s) ==
    \/ \E i \in st[s].jobs : decryptionWorker(s, i)
    \/ CloseRound(s)
    \/ Mix(s)
    \/ encryptReplies(s)
    \/ DeleteRound(s)

Failure ==
    \/ \E s \in Servers : SetupFails(s) \/ DeleteFails(s) \/ Restart(s)
    \/ \E c \in Callers : CallFails(c)
    \/ HandleMessagesFails

Next ==
    \/ Setup
    \/ RunRound
    \/ \E c \in Callers : CallerStep(c)
    \/ \E s \in Servers : ServerStep(s)
    \/ HandleMessages
    \/ Failure

Spec == Init /\ [][Next]_vars

\* Goroutines run and calls return; the coordinator runs the round that it has set up.
Fairness ==
    /\ WF_vars(Setup)
    /\ WF_vars(RunRound)
    /\ \A c \in Callers : WF_vars(CallerStep(c))
    /\ \A s \in Servers : WF_vars(ServerStep(s))
    /\ WF_vars(HandleMessages)

FairSpec == Spec /\ Fairness
-----------------------------------------------------------------------------
(***************************************************************************)
(* Properties.                                                             *)
(***************************************************************************)

TypeOK ==
    /\ setup \in {"NewRound", "SetRoundSettings", "done", "failed"}
    /\ answers \in [Servers -> {"none", "ok", "error"}]
    /\ rounds \subseteq Servers
    /\ pc \in [0 .. N -> {"idle", "adding", "closing", "fetching", "draining", "handling", "ok",
                          "failed", "lost"}]
    /\ \A s \in Servers : st[s].jobs \subseteq DOMAIN st[s].incoming
    /\ deletes \subseteq Servers
    /\ failures \in 0 .. MaxFailures

\* The messages of a batch: those of onions that open at every server, outside
\* mailbox 0.
Messages(onions) ==
    {onions[i].msg : i \in {i \in DOMAIN onions :
                               onions[i].breaks > N /\ onions[i].msg.mailbox # 0}}

\* Noise is what no client of a batch has sent.
IsNoise(m) == Len(m.tail) = 3

\* A round of the mixnet keeps the promise of MixRound to the coordinator.
Promise == INSTANCE MixRound WITH
    Expected <- Messages,
    output <- handled,
    status <- IF pc[0] \in {"ok", "failed"} THEN pc[0]
              ELSE IF pc[0] = "idle" THEN "new" ELSE "mixing"

KeepsPromise == Promise!Spec

\* Each server hides the batch in its own noise: when the messages are handled,
\* the noise of every server of the chain is among them (RoundSettings are signed,
\* and the noise is awaited, for this reason).
NoiseIsIncluded ==
    handled # Nil => \A s \in Servers :
        /\ st[s].noiseDone = "closed" \/ pc[s] = "lost"
        /\ Messages(noise[s]) \subseteq ToSet(handled)

\* The reply at position i answers the onion at position i, and every message that
\* arrives is answered once.
RepliesMatch ==
    replies # Nil =>
        /\ Len(replies) = Len(batch)
        /\ \A i \in DOMAIN batch : replies[i] \in {batch[i].msg, Nil}
        /\ \A m \in Messages(batch) : Cardinality({i \in DOMAIN batch : replies[i] = m}) = 1

\* RunRound returns, whatever fails; and after a round that went well every server
\* forgets its onion key, unless the call that tells it so is lost.
RoundEnds ==
    /\ pc[0] = "adding" ~> pc[0] \in {"ok", "failed"}
    /\ pc[0] = "ok" ~> rounds \subseteq undeleted
=============================================================================
