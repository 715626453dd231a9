------------------------- MODULE CoordinatorProofs --------------------------
(***************************************************************************)
(* What holds of every coordinator: any clients, mixers and numbers of     *)
(* rounds, failures and crashes.                                           *)
(***************************************************************************)
EXTENDS Coordinator, TLAPS

\* What With's result is defined on, and what it holds.
LEMMA WithFacts ==
    ASSUME NEW f, NEW x, NEW y
    PROVE  /\ DOMAIN With(f, x, y) = DOMAIN f \cup {x}
           /\ With(f, x, y)[x] = y
           /\ \A z \in DOMAIN f : z # x => With(f, x, y)[z] = f[z]
BY DEF With

\* An empty map has no domain.
LEMMA EmptyDomain == DOMAIN << >> = {}
OBVIOUS

\* A coordinator that was just installed satisfies the invariant.
LEMMA InitIInv == Init => IInv
<1> SUFFICES ASSUME Init PROVE IInv
  OBVIOUS
<1> USE EmptyDomain, CoordinatorAssumption
<1>1. Types
  BY DEF Init, CDNInit, Types
<1>2. NumbersArePast
  BY DEF Init, CDNInit, NumbersArePast
<1>3. OnionsAreKept
  BY DEF Init, CDNInit, OnionsAreKept
<1>4. QED BY <1>1, <1>2, <1>3 DEF IInv

\* The next round is above everything that was saved before.
LEMMA BeginRoundIInv ==
    ASSUME IInv, NEW m \in Mixers, BeginRound(m)
    PROVE  IInv'
<1> USE CoordinatorAssumption DEF Rounds, cdnVars, loopVars, BeginRound
<1>1. Types'
  BY DEF IInv, Types, NumbersArePast
<1>2. NumbersArePast'
  BY DEF IInv, Types, NumbersArePast, BeforeBucket, BeforeMix, BeforeCut
<1>3. OnionsAreKept'
  BY DEF IInv, Types, NumbersArePast, OnionsAreKept, BeforeBucket, BeforeMix, BeforeCut
<1>4. QED BY <1>1, <1>2, <1>3 DEF IInv

\* A round that could not be saved is not announced.
LEMMA PersistFailsIInv ==
    ASSUME IInv, PersistFails
    PROVE  IInv'
<1> USE CoordinatorAssumption DEF Rounds, cdnVars, loopVars, PersistFails, Fail
<1>1. Types'
  BY DEF IInv, Types, NumbersArePast
<1>2. NumbersArePast'
  BY DEF IInv, Types, NumbersArePast, BeforeBucket, BeforeMix, BeforeCut
<1>3. OnionsAreKept'
  BY DEF IInv, Types, NumbersArePast, OnionsAreKept, BeforeBucket, BeforeMix, BeforeCut
<1>4. QED BY <1>1, <1>2, <1>3 DEF IInv

\* The announcements of the loop are of its own round.
LEMMA AnnounceRoundIInv ==
    ASSUME IInv, AnnounceRound
    PROVE  IInv'
<1>0. /\ announced \subseteq announced' /\ pc' # "mixwait"
      /\ UNCHANGED <<stored, mixing, accepted, onions, round>>
  BY DEF AnnounceRound, Broadcast, cdnVars
<1>1. Types'
  BY DEF AnnounceRound, cdnVars, IInv, Types
<1>2. NumbersArePast'
  BY CoordinatorAssumption
  DEF AnnounceRound, Broadcast, Message, cdnVars, Rounds, IInv, Types, NumbersArePast,
      BeforeBucket, BeforeMix, BeforeCut
<1>3. OnionsAreKept'
  BY <1>0 DEF IInv, OnionsAreKept
<1>4. QED BY <1>1, <1>2, <1>3 DEF IInv

\* The same for the PKG settings.
LEMMA AnnouncePKGIInv ==
    ASSUME IInv, AnnouncePKG
    PROVE  IInv'
<1>0. /\ announced \subseteq announced' /\ pc' # "mixwait"
      /\ UNCHANGED <<stored, mixing, accepted, onions, round>>
  BY DEF AnnouncePKG, Broadcast, cdnVars
<1>1. Types'
  BY DEF AnnouncePKG, cdnVars, IInv, Types
<1>2. NumbersArePast'
  BY CoordinatorAssumption
  DEF AnnouncePKG, Broadcast, Message, cdnVars, Rounds, IInv, Types, NumbersArePast,
      BeforeBucket, BeforeMix, BeforeCut
<1>3. OnionsAreKept'
  BY <1>0 DEF IInv, OnionsAreKept
<1>4. QED BY <1>1, <1>2, <1>3 DEF IInv

\* The bucket is that of the round.
LEMMA PrepCDNIInv ==
    ASSUME IInv, PrepCDN
    PROVE  IInv'
<1>0. DOMAIN uploaders' = DOMAIN uploaders \cup {round}
  BY WithFacts DEF PrepCDN, NewBucket
<1>1. round \in Rounds /\ file = round
  BY CoordinatorAssumption DEF PrepCDN, IInv, Types, Rounds
<1>2. Types'
  BY <1>0, <1>1 DEF PrepCDN, IInv, Types
<1>3. NumbersArePast'
  BY <1>0, <1>1, CoordinatorAssumption
  DEF PrepCDN, IInv, Types, NumbersArePast, Rounds, BeforeBucket, BeforeMix, BeforeCut
<1>4. OnionsAreKept'
  BY DEF PrepCDN, NewBucket, IInv, OnionsAreKept
<1>5. QED BY <1>2, <1>3, <1>4 DEF IInv

\* When the loop ends, nothing else changes.
LEMMA PrepCDNFailsIInv ==
    ASSUME IInv, PrepCDNFails
    PROVE  IInv'
<1>1. round \in Rounds /\ file = round /\ pc' = "stopped"
  BY CoordinatorAssumption DEF PrepCDNFails, IInv, Types, Rounds
<1>2. /\ DOMAIN uploaders' \subseteq DOMAIN uploaders \cup {round}
      /\ UNCHANGED <<stored, round, file, mixer, onions, waiting, mixing, announced, accepted>>
  <2>1. CASE UNCHANGED cdnVars
    BY <2>1 DEF PrepCDNFails, cdnVars
  <2>2. CASE NewBucket(round, mixer)
    BY <2>2, WithFacts DEF PrepCDNFails, NewBucket
  <2>3. QED BY <2>1, <2>2 DEF PrepCDNFails
<1>3. Types'
  BY <1>1, <1>2 DEF IInv, Types
<1>4. NumbersArePast'
  BY <1>1, <1>2, CoordinatorAssumption
  DEF IInv, Types, NumbersArePast, Rounds, BeforeBucket, BeforeMix, BeforeCut
<1>5. OnionsAreKept'
  BY <1>1, <1>2 DEF IInv, OnionsAreKept
<1>6. QED BY <1>3, <1>4, <1>5 DEF IInv

\* No onion of the round has come before its mix settings are out.
LEMMA AnnounceMixIInv ==
    ASSUME IInv, AnnounceMix
    PROVE  IInv'
<1>0. /\ announced \subseteq announced'
      /\ UNCHANGED <<stored, mixing, accepted, onions, round>>
  BY DEF AnnounceMix, Broadcast, cdnVars
<1>1. Types'
  BY DEF AnnounceMix, cdnVars, IInv, Types
<1>2. NumbersArePast'
  BY CoordinatorAssumption
  DEF AnnounceMix, Broadcast, Message, cdnVars, Rounds, IInv, Types, NumbersArePast,
      BeforeBucket, BeforeMix, BeforeCut
<1>3. \A a \in accepted : a.onion.round # round
  <2>1. ASSUME NEW a \in accepted PROVE a.onion.round < round
    BY DEF AnnounceMix, IInv, OnionsAreKept, NumbersArePast, BeforeMix, Message
  <2>2. round \in Nat
    BY CoordinatorAssumption DEF IInv, Types
  <2>3. QED BY <2>1, <2>2
<1>4. OnionsAreKept'
  BY <1>0, <1>3 DEF IInv, OnionsAreKept
<1>5. QED BY <1>1, <1>2, <1>4 DEF IInv

\* A round that is given up is over.
LEMMA RetryRoundIInv ==
    ASSUME IInv, RetryRound
    PROVE  IInv'
<1> USE CoordinatorAssumption DEF Rounds, cdnVars, loopVars, RetryRound, Fail
<1>1. Types'
  BY DEF IInv, Types, NumbersArePast
<1>2. NumbersArePast'
  BY DEF IInv, Types, NumbersArePast, BeforeBucket, BeforeMix, BeforeCut
<1>3. OnionsAreKept'
  BY DEF IInv, Types, NumbersArePast, OnionsAreKept, BeforeBucket, BeforeMix, BeforeCut
<1>4. QED BY <1>1, <1>2, <1>3 DEF IInv

\* A sleep ends.
LEMMA WakeIInv ==
    ASSUME IInv, Wake
    PROVE  IInv'
<1> USE CoordinatorAssumption DEF Rounds, cdnVars, loopVars, Wake
<1>1. Types'
  BY DEF IInv, Types, NumbersArePast
<1>2. NumbersArePast'
  BY DEF IInv, Types, NumbersArePast, BeforeBucket, BeforeMix, BeforeCut
<1>3. OnionsAreKept'
  BY DEF IInv, Types, NumbersArePast, OnionsAreKept, BeforeBucket, BeforeMix, BeforeCut
<1>4. QED BY <1>1, <1>2, <1>3 DEF IInv

\* The batch holds what was accepted in time.
LEMMA StartMixingIInv ==
    ASSUME IInv, StartMixing
    PROVE  IInv'
<1>0. /\ DOMAIN mixing' = DOMAIN mixing \cup {round}
      /\ mixing'[round] = [batch |-> onions, mixer |-> mixer, state |-> "mixing"]
      /\ \A r \in DOMAIN mixing : r # round => mixing'[r] = mixing[r]
  <2>1. mixing' = With(mixing, round, [batch |-> onions, mixer |-> mixer, state |-> "mixing"])
    BY DEF StartMixing
  <2>2. QED BY <2>1 DEF With
<1>1. /\ round \in Rounds /\ file = round /\ round \notin DOMAIN mixing
      /\ pc = "mixwait" /\ pc' = "roundwait"
      /\ UNCHANGED <<uploaders, stored, round, file, mixer, announced, accepted>>
      /\ onions' = {} /\ waiting' = waiting \cup {round}
  <2>1. round \in 0 .. MaxRound /\ file = round /\ round \notin DOMAIN mixing
    BY CoordinatorAssumption DEF StartMixing, IInv, Types, NumbersArePast, BeforeCut
  <2>2. round \in Rounds
    BY DEF StartMixing, IInv, Types
  <2>3. QED BY <2>1, <2>2 DEF StartMixing, cdnVars
<1>2. Types'
  BY <1>0, <1>1 DEF IInv, Types
<1>3. NumbersArePast'
  BY <1>0, <1>1, CoordinatorAssumption
  DEF IInv, Types, NumbersArePast, Rounds, BeforeBucket, BeforeMix, BeforeCut
<1>4. OnionsAreKept'
  BY <1>0, <1>1 DEF IInv, OnionsAreKept
<1>5. QED BY <1>2, <1>3, <1>4 DEF IInv

\* The loop ends.
LEMMA ShutdownIInv ==
    ASSUME IInv, Shutdown
    PROVE  IInv'
<1> USE CoordinatorAssumption DEF Rounds, cdnVars, loopVars, Shutdown
<1>1. Types'
  BY DEF IInv, Types, NumbersArePast
<1>2. NumbersArePast'
  BY DEF IInv, Types, NumbersArePast, BeforeBucket, BeforeMix, BeforeCut
<1>3. OnionsAreKept'
  BY DEF IInv, Types, NumbersArePast, OnionsAreKept, BeforeBucket, BeforeMix, BeforeCut
<1>4. QED BY <1>1, <1>2, <1>3 DEF IInv

\* An onion that comes before the cut is in the batch to be.
LEMMA IncomingOnionIInv ==
    ASSUME IInv, NEW o \in Onion, incomingOnion(o)
    PROVE  IInv'
<1> USE CoordinatorAssumption DEF Rounds, cdnVars, loopVars, incomingOnion, Onion
<1>1. Types'
  BY DEF IInv, Types, NumbersArePast
<1>2. NumbersArePast'
  BY DEF IInv, Types, NumbersArePast, BeforeBucket, BeforeMix, BeforeCut
<1>3. ASSUME NEW a \in accepted'
      PROVE  /\ Message("mix", a.onion.round) \in announced'
             /\ ~a.late =>
                  /\ a.onion.round \in DOMAIN mixing' =>
                       a.onion \in mixing'[a.onion.round].batch
                  /\ pc' = "mixwait" /\ a.onion.round = round' => a.onion \in onions'
  <2>1. CASE a \in accepted
    BY <2>1 DEF IInv, OnionsAreKept
  <2>2. CASE a \notin accepted
    <3>1. /\ a = [onion |-> o, late |-> o.round \in DOMAIN mixing]
          /\ onions' = onions \cup {o}
      BY <1>3, <2>2
    <3>2. a.onion = o /\ (a.late <=> o.round \in DOMAIN mixing)
      BY <3>1, Zenon
    <3>3. QED BY <3>1, <3>2
  <2>3. QED BY <2>1, <2>2
<1>4. OnionsAreKept'
  BY <1>3 DEF IInv, OnionsAreKept
<1>5. QED BY <1>1, <1>2, <1>4 DEF IInv

\* The CDN gets what the mixnet got.
LEMMA UploadIInv ==
    ASSUME IInv, NEW r \in DOMAIN mixing, Upload(r)
    PROVE  IInv'
<1> USE CoordinatorAssumption DEF Rounds, cdnVars, loopVars, Upload, Put
<1>1. Types'
  BY WithFacts DEF IInv, Types, NumbersArePast
<1>2. NumbersArePast'
  BY WithFacts DEF IInv, Types, NumbersArePast, BeforeBucket, BeforeMix, BeforeCut
<1>3. OnionsAreKept'
  <2>1. /\ DOMAIN mixing' = DOMAIN mixing
        /\ \A q \in DOMAIN mixing : mixing'[q].batch = mixing[q].batch
    BY DEF IInv, Types
  <2>2. /\ DOMAIN stored' = DOMAIN stored \cup {r}
        /\ stored'[r] = {o \in mixing[r].batch : o.round = r}
        /\ \A q \in DOMAIN stored : q # r => stored'[q] = stored[q]
    <3>1. stored' = With(stored, r, {o \in mixing[r].batch : o.round = r})
      OBVIOUS
    <3>2. QED BY <3>1 DEF With
  <2>3. QED BY <2>1, <2>2 DEF IInv, OnionsAreKept
<1>4. QED BY <1>1, <1>2, <1>3 DEF IInv

\* A failure of the mixnet leaves the batch what it was.
LEMMA MixFailsIInv ==
    ASSUME IInv, NEW r \in DOMAIN mixing, MixFails(r)
    PROVE  IInv'
<1> USE CoordinatorAssumption DEF Rounds, cdnVars, loopVars, MixFails, Fail
<1>1. Types'
  BY DEF IInv, Types, NumbersArePast
<1>2. NumbersArePast'
  BY DEF IInv, Types, NumbersArePast, BeforeBucket, BeforeMix, BeforeCut
<1>3. OnionsAreKept'
  <2>1. /\ DOMAIN mixing' = DOMAIN mixing
        /\ \A q \in DOMAIN mixing : mixing'[q].batch = mixing[q].batch
    BY DEF IInv, Types
  <2>2. QED BY <2>1 DEF IInv, OnionsAreKept
<1>4. QED BY <1>1, <1>2, <1>3 DEF IInv

\* Only a round that was cut is announced as done or failed.
LEMMA EndRoundIInv ==
    ASSUME IInv, NEW r \in DOMAIN mixing, EndRound(r)
    PROVE  IInv'
<1> USE CoordinatorAssumption DEF Rounds, cdnVars, loopVars, EndRound, Broadcast, Message
<1>1. Types'
  BY DEF IInv, Types, NumbersArePast
<1>2. NumbersArePast'
  BY DEF IInv, Types, NumbersArePast, BeforeBucket, BeforeMix, BeforeCut
<1>3. OnionsAreKept'
  BY DEF IInv, Types, NumbersArePast, OnionsAreKept, BeforeBucket, BeforeMix, BeforeCut
<1>4. QED BY <1>1, <1>2, <1>3 DEF IInv

\* After a crash no onion of the saved round can be in a batch to be.
LEMMA CrashIInv ==
    ASSUME IInv, Crash
    PROVE  IInv'
<1> USE CoordinatorAssumption DEF Rounds, cdnVars, loopVars, Crash
<1>1. Types'
  BY DEF IInv, Types, NumbersArePast
<1>2. NumbersArePast'
  BY DEF IInv, Types, NumbersArePast, BeforeBucket, BeforeMix, BeforeCut
<1>3. OnionsAreKept'
  BY DEF IInv, Types, NumbersArePast, OnionsAreKept, BeforeBucket, BeforeMix, BeforeCut
<1>4. QED BY <1>1, <1>2, <1>3 DEF IInv

\* The CDN loses buckets and mailboxes but gains none.
LEMMA StorageIInv ==
    ASSUME IInv, Storage
    PROVE  IInv'
<1> USE CoordinatorAssumption DEF Rounds, cdnVars, loopVars, Storage, Tick, DeleteExpired, CDNRestart, Fail
<1>1. Types'
  BY EmptyDomain DEF IInv, Types, NumbersArePast
<1>2. NumbersArePast'
  BY EmptyDomain DEF IInv, Types, NumbersArePast, BeforeBucket, BeforeMix, BeforeCut
<1>3. OnionsAreKept'
  BY EmptyDomain DEF IInv, Types, NumbersArePast, OnionsAreKept, BeforeBucket, BeforeMix, BeforeCut
<1>4. QED BY <1>1, <1>2, <1>3 DEF IInv

\* A step that changes nothing preserves the invariant.
LEMMA StutterIInv == ASSUME IInv, UNCHANGED vars PROVE IInv'
BY DEF vars, cdnVars, loopVars, IInv, Types, NumbersArePast, OnionsAreKept

\* Close only sets the flag.
LEMMA CloseIInv == ASSUME IInv, Close PROVE IInv'
BY DEF Close, cdnVars, loopVars, IInv, Types, NumbersArePast, OnionsAreKept

\* The invariant holds throughout every execution of the coordinator.
THEOREM IInvHolds == Spec => []IInv
<1>1. IInv /\ [Next]_vars => IInv'
  <2> SUFFICES ASSUME IInv, [Next]_vars PROVE IInv'
    OBVIOUS
  <2>1. CASE Loop
    BY <2>1, BeginRoundIInv, AnnounceRoundIInv, AnnouncePKGIInv, PrepCDNIInv, AnnounceMixIInv,
       WakeIInv, StartMixingIInv DEF Loop
  <2>2. CASE PersistFails \/ PrepCDNFails \/ RetryRound
    BY <2>2, PersistFailsIInv, PrepCDNFailsIInv, RetryRoundIInv
  <2>3. CASE Close \/ Shutdown \/ Crash \/ Storage
    BY <2>3, CloseIInv, ShutdownIInv, CrashIInv, StorageIInv
  <2>4. CASE \E o \in Onion : incomingOnion(o)
    BY <2>4, IncomingOnionIInv
  <2>5. CASE \E r \in DOMAIN mixing : Upload(r) \/ MixFails(r) \/ EndRound(r)
    BY <2>5, UploadIInv, MixFailsIInv, EndRoundIInv
  <2>6. CASE UNCHANGED vars
    BY <2>6, StutterIInv
  <2>7. QED BY <2>1, <2>2, <2>3, <2>4, <2>5, <2>6 DEF Next
<1>2. QED BY <1>1, InitIInv, PTL DEF Spec

(***************************************************************************)
(* What the clients and the servers rely on.                               *)
(***************************************************************************)

\* The coordinator's state keeps its types, and the round in work is saved.
THEOREM TypeCorrect == Spec => []TypeOK
<1>1. Init => closed \in BOOLEAN
  BY DEF Init
<1>2. closed \in BOOLEAN /\ [Next]_vars => (closed \in BOOLEAN)'
  BY DEF Next, vars, Loop, BeginRound, PersistFails, AnnounceRound, AnnouncePKG, PrepCDN,
         PrepCDNFails, AnnounceMix, RetryRound, Wake, StartMixing, Close, Shutdown,
         incomingOnion, Upload, MixFails, EndRound, Crash, Storage
<1>3. IInv /\ closed \in BOOLEAN => TypeOK
  BY DEF IInv, TypeOK
<1>4. QED BY <1>1, <1>2, <1>3, IInvHolds, PTL DEF Spec

\* No round number is announced twice, whatever fails or crashes.
THEOREM RoundsAreFresh == Spec => []RoundIsFresh
<1>1. IInv => RoundIsFresh
  BY DEF IInv, NumbersArePast, RoundIsFresh
<1>2. QED BY <1>1, IInvHolds, PTL

\* The CDN never answers the coordinator that the bucket already exists.
THEOREM BucketsAreNew == Spec => []BucketIsNew
<1>1. IInv => BucketIsNew
  <2> SUFFICES ASSUME IInv, pc = "cdn", round \in DOMAIN uploaders PROVE FALSE
    BY DEF BucketIsNew
  <2>1. round < round /\ round \in Nat
    BY CoordinatorAssumption DEF IInv, Types, NumbersArePast, BeforeBucket
  <2>2. QED BY <2>1
<1>2. QED BY <1>1, IInvHolds, PTL

\* An onion that was accepted before the cut is in the mailboxes of its round.
THEOREM AcceptedIsServed == Spec => []OnTimeIsServed
<1>1. IInv => OnTimeIsServed
  BY DEF IInv, OnionsAreKept, OnTimeIsServed
<1>2. QED BY <1>1, IInvHolds, PTL
-----------------------------------------------------------------------------
(***************************************************************************)
(* Mailboxes.                                                              *)
(***************************************************************************)

\* No other round's number is the beginning of this one's.
OwnPrefix(r) == \A q \in Rounds \ {r} : ~DecimalPrefix(q, r)

\* A round is put once, and what was put stays until its one Expires entry is due.
MailboxesStay ==
    /\ clock \in Nat
    /\ \A r \in DOMAIN putAt :
         /\ r \in DOMAIN mixing /\ mixing[r].state # "mixing"
         /\ putAt[r] \in Nat
         /\ clock < putAt[r] + TTL /\ OwnPrefix(r) => r \in DOMAIN stored
    /\ \A t \in DOMAIN expires : expires[t] \in DOMAIN putAt /\ t = putAt[expires[t]] + TTL
    /\ \A r \in DOMAIN mixing : mixing[r].state = "done" => r \in DOMAIN putAt
    /\ \A r \in Rounds : Message("mailbox", r) \in announced => r \in DOMAIN putAt

\* At first nothing is put.
LEMMA InitMailboxes == Init => MailboxesStay
BY EmptyDomain DEF Init, CDNInit, MailboxesStay

\* The steps that leave the CDN, the mixnet and the announced mailboxes alone.
LEMMA OtherSteps ==
    ASSUME MailboxesStay, UNCHANGED <<clock, putAt, expires, stored, mixing>>,
           \A r \in Rounds : Message("mailbox", r) \in announced' => Message("mailbox", r) \in announced
    PROVE  MailboxesStay'
BY DEF MailboxesStay

\* A batch that is new in the mixnet was not put.
LEMMA StartMixingMailboxes ==
    ASSUME IInv, MailboxesStay, StartMixing
    PROVE  MailboxesStay'
<1>1. /\ UNCHANGED <<clock, putAt, expires, stored, announced>>
      /\ mixing' = With(mixing, round, [batch |-> onions, mixer |-> mixer, state |-> "mixing"])
  BY DEF StartMixing, cdnVars
<1>2. round \notin DOMAIN mixing
  BY CoordinatorAssumption DEF StartMixing, IInv, Types, NumbersArePast, BeforeCut
<1>3. /\ DOMAIN mixing' = DOMAIN mixing \cup {round}
      /\ mixing'[round].state = "mixing"
      /\ \A r \in DOMAIN mixing : mixing'[r] = mixing[r]
  BY <1>1, <1>2 DEF With
<1>4. QED BY <1>1, <1>2, <1>3 DEF MailboxesStay

\* The mailboxes are put now, and their Expires entry is due in TTL seconds; the entry that
\* it may overwrite is of another round.
LEMMA UploadMailboxes ==
    ASSUME IInv, MailboxesStay, NEW r \in DOMAIN mixing, Upload(r)
    PROVE  MailboxesStay'
<1> DEFINE boxes == {o \in mixing[r].batch : o.round = r}
<1>1. /\ stored' = With(stored, r, boxes) /\ expires' = With(expires, clock + TTL, r)
      /\ putAt' = With(putAt, r, clock)
      /\ clock' = clock /\ announced' = announced
      /\ mixing' = [mixing EXCEPT ![r].state = "done"] /\ mixing[r].state = "mixing"
  BY DEF Upload, Put
<1> HIDE DEF boxes
<1>2. /\ DOMAIN stored' = DOMAIN stored \cup {r}
      /\ DOMAIN putAt' = DOMAIN putAt \cup {r} /\ putAt'[r] = clock
      /\ \A q \in DOMAIN putAt : q # r => putAt'[q] = putAt[q]
      /\ DOMAIN expires' = DOMAIN expires \cup {clock + TTL} /\ expires'[clock + TTL] = r
      /\ \A t \in DOMAIN expires : t # clock + TTL => expires'[t] = expires[t]
  <2>1. DOMAIN stored' = DOMAIN stored \cup {r}
    BY <1>1 DEF With
  <2>2. /\ DOMAIN putAt' = DOMAIN putAt \cup {r} /\ putAt'[r] = clock
        /\ \A q \in DOMAIN putAt : q # r => putAt'[q] = putAt[q]
    BY <1>1 DEF With
  <2>3. /\ DOMAIN expires' = DOMAIN expires \cup {clock + TTL} /\ expires'[clock + TTL] = r
        /\ \A t \in DOMAIN expires : t # clock + TTL => expires'[t] = expires[t]
    BY <1>1 DEF With
  <2>4. QED BY <2>1, <2>2, <2>3
<1>3. r \notin DOMAIN putAt
  BY <1>1 DEF MailboxesStay
<1>4. /\ DOMAIN mixing' = DOMAIN mixing /\ mixing'[r].state = "done"
      /\ \A q \in DOMAIN mixing : q # r => mixing'[q] = mixing[q]
  BY <1>1 DEF IInv, Types
<1>5. ASSUME NEW q \in DOMAIN putAt'
      PROVE  /\ q \in DOMAIN mixing' /\ mixing'[q].state # "mixing"
             /\ putAt'[q] \in Nat
             /\ clock' < putAt'[q] + TTL /\ OwnPrefix(q) => q \in DOMAIN stored'
  BY <1>1, <1>2, <1>4 DEF MailboxesStay
<1>6. ASSUME NEW t \in DOMAIN expires'
      PROVE  expires'[t] \in DOMAIN putAt' /\ t = putAt'[expires'[t]] + TTL
  BY <1>2, <1>3 DEF MailboxesStay
<1>7. \A q \in DOMAIN mixing' : mixing'[q].state = "done" => q \in DOMAIN putAt'
  BY <1>2, <1>4 DEF MailboxesStay
<1>8. \A q \in Rounds : Message("mailbox", q) \in announced' => q \in DOMAIN putAt'
  BY <1>1, <1>2 DEF MailboxesStay
<1>9. QED BY <1>1, <1>5, <1>6, <1>7, <1>8 DEF MailboxesStay

\* A round that failed is not mixed again.
LEMMA MixFailsMailboxes ==
    ASSUME IInv, MailboxesStay, NEW r \in DOMAIN mixing, MixFails(r)
    PROVE  MailboxesStay'
<1>1. /\ UNCHANGED <<clock, putAt, expires, stored, announced>>
      /\ mixing' = [mixing EXCEPT ![r].state = "failed"]
  BY DEF MixFails, cdnVars
<1>2. /\ DOMAIN mixing' = DOMAIN mixing /\ mixing'[r].state = "failed"
      /\ \A q \in DOMAIN mixing : q # r => mixing'[q] = mixing[q]
  BY <1>1 DEF IInv, Types
<1>3. QED BY <1>1, <1>2 DEF MailboxesStay

\* A mailbox that is announced was put.
LEMMA EndRoundMailboxes ==
    ASSUME IInv, MailboxesStay, NEW r \in DOMAIN mixing, EndRound(r)
    PROVE  MailboxesStay'
<1>1. UNCHANGED <<clock, putAt, expires, stored, mixing>>
  BY DEF EndRound, cdnVars
<1>2. ASSUME NEW q \in Rounds, Message("mailbox", q) \in announced'
      PROVE  q \in DOMAIN putAt
  BY <1>2 DEF EndRound, Broadcast, Message, MailboxesStay
<1>3. QED BY <1>1, <1>2 DEF MailboxesStay

\* deleteExpired takes only mailboxes whose own entry is due, unless another round's number is
\* the beginning of theirs.
LEMMA StorageMailboxes ==
    ASSUME IInv, MailboxesStay, Storage
    PROVE  MailboxesStay'
<1>1. UNCHANGED <<mixing, announced, putAt, expires>>
  BY DEF Storage, Tick, DeleteExpired, CDNRestart
<1>2. CASE Tick
  <2>1. clock' = clock + 1 /\ stored' = stored
    BY <1>2 DEF Tick
  <2>2. TTL \in Nat
    BY CDNAssumption
  <2>3. QED BY <1>1, <2>1, <2>2 DEF MailboxesStay
<1>3. ASSUME NEW left \in SUBSET DOMAIN stored, DeleteExpired(left)
      PROVE  MailboxesStay'
  <2>1. clock' = clock /\ DOMAIN stored' = {q \in DOMAIN stored : Expired(q) => q \in left}
    BY <1>3 DEF DeleteExpired
  <2>2. ASSUME NEW r \in DOMAIN putAt, clock < putAt[r] + TTL, OwnPrefix(r)
        PROVE  r \in DOMAIN stored'
    <3>1. r \in DOMAIN stored
      BY <2>2 DEF MailboxesStay
    <3>2. ~Expired(r)
      <4> SUFFICES ASSUME NEW t \in DOMAIN expires, t <= clock, DecimalPrefix(expires[t], r)
                   PROVE  FALSE
        BY DEF Expired
      <4>1. expires[t] \in DOMAIN putAt /\ t = putAt[expires[t]] + TTL
        BY DEF MailboxesStay
      <4>2. expires[t] \in Rounds
        BY <4>1 DEF MailboxesStay, IInv, Types
      <4>3. expires[t] = r
        BY <2>2, <4>2 DEF OwnPrefix
      <4>4. putAt[r] \in Nat /\ clock \in Nat /\ TTL \in Nat
        BY CDNAssumption DEF MailboxesStay
      <4>5. QED BY <2>2, <4>1, <4>3, <4>4
    <3>3. QED BY <2>1, <3>1, <3>2
  <2>3. QED BY <1>1, <2>1, <2>2 DEF MailboxesStay
<1>4. CASE CDNRestart
  <2>1. UNCHANGED <<clock, stored>>
    BY <1>4 DEF CDNRestart
  <2>2. QED BY <1>1, <2>1 DEF MailboxesStay
<1>5. QED BY <1>2, <1>3, <1>4 DEF Storage

\* An announced mailbox can be fetched for the CDN's time to live, if no other round's number is
\* the beginning of its number.
THEOREM MailboxesAreKept == Spec => []MailboxIsKept
<1>1. IInv /\ MailboxesStay /\ [Next]_vars => MailboxesStay'
  <2> SUFFICES ASSUME IInv, MailboxesStay, [Next]_vars PROVE MailboxesStay'
    OBVIOUS
  <2>1. CASE Loop /\ ~StartMixing
    BY <2>1, OtherSteps
    DEF Loop, BeginRound, AnnounceRound, AnnouncePKG, PrepCDN, NewBucket, AnnounceMix, Wake,
        Broadcast, Message, cdnVars
  <2>2. CASE PersistFails \/ PrepCDNFails \/ RetryRound \/ Close \/ Shutdown \/ Crash
    BY <2>2, OtherSteps
    DEF PersistFails, PrepCDNFails, NewBucket, RetryRound, Close, Shutdown, Crash, cdnVars
  <2>3. CASE \E o \in Onion : incomingOnion(o)
    BY <2>3, OtherSteps DEF incomingOnion, cdnVars
  <2>4. CASE \E r \in DOMAIN mixing : Upload(r) \/ MixFails(r) \/ EndRound(r)
    BY <2>4, UploadMailboxes, MixFailsMailboxes, EndRoundMailboxes
  <2>5. CASE UNCHANGED vars
    BY <2>5, OtherSteps DEF vars, cdnVars
  <2>6. QED BY <2>1, <2>2, <2>3, <2>4, <2>5, StartMixingMailboxes, StorageMailboxes DEF Next
<1>2. MailboxesStay => MailboxIsKept
  BY DEF MailboxesStay, OwnPrefix, MailboxIsKept
<1>3. QED BY <1>1, <1>2, InitMailboxes, IInvHolds, PTL DEF Spec
=============================================================================
