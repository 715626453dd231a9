----------------------------- MODULE AddFriend ------------------------------
(***************************************************************************)
(* The add-friend protocol between clients (addfriend.go, friendrequest.go *)
(* persist.go, and Friend.Remove of friend.go).                            *)
(*                                                                         *)
(* Every message of the coordinator is handled in a goroutine of its own   *)
(* (typesocket/client.go), so a client's handlers interleave with each     *)
(* other and with the application's calls.  Client.mu makes the sections   *)
(* it protects single steps; a handler that releases it in between is a    *)
(* task with a program counter.  A client's state lives in two files,      *)
(* written one after the other, and a crash may come between any two       *)
(* steps.                                                                  *)
(*                                                                         *)
(* The coordinator, the mixnet and the CDN appear as one round service: a  *)
(* round opens, and later either publishes the onions that reached it or   *)
(* fails and loses them.  A client is ready for a round when its newround  *)
(* and pkg handlers succeeded.  A handler that returns early changes no    *)
(* state of this module and is not a step of it.                           *)
(*                                                                         *)
(* IBE, signatures and Diffie-Hellman are symbolic: a shared key is the    *)
(* pair of the two key pairs it comes from.                                *)
(***************************************************************************)
EXTENDS Naturals, SequencesExt

CONSTANTS
    Clients,       \* users, each with one client
    MaxRound,      \* bound: add-friend rounds are 1 .. MaxRound
    DialRounds,    \* what lastDialingRound may hold (0: nothing since the start)
    Budget,        \* bound: requests of c to u that are not cancelled
    Overlap,       \* whether a client's send and mailbox handlers overlap in time
    Removers,      \* clients whose application calls Friend.Remove
    MaxCrashes,    \* bound: crashes and panics
    MaxSaves,      \* bound: saves that other handlers make meanwhile
    MaxFailures,   \* bound: failed rounds, late onions, clients not ready for a round
    Nil            \* nil

Rounds == 1 .. MaxRound

KeyPair == [owner : Clients, peer : Clients, dial : DialRounds, n : Nat]

IncomingRequest == [Username : Clients, DH : KeyPair, DialRound : DialRounds]

OutgoingRequest ==
    [Username : Clients, Confirmation : BOOLEAN, DialRound : DialRounds, client : BOOLEAN]

SentRequest ==
    [Username : Clients, Confirmation : BOOLEAN, DialRound : DialRounds, DH : KeyPair]

ASSUME NilAssumption == Nil \notin IncomingRequest \cup SentRequest

ASSUME AddFriendAssumption ==
    /\ MaxRound \in Nat
    /\ DialRounds \subseteq Nat /\ 0 \in DialRounds
    /\ Budget \in [Clients -> [Clients -> Nat]]
    /\ \A c \in Clients : Budget[c][c] = 0
    /\ MaxCrashes \in Nat /\ MaxFailures \in Nat /\ MaxSaves \in Nat
    /\ Overlap \in BOOLEAN

VARIABLES
    friends,          \* Client.friends: the address book
    incoming,         \* Client.incomingFriendRequests
    outgoing,         \* Client.outgoingFriendRequests
    sent,             \* Client.sentFriendRequests
    wheel,            \* Client.wheel: what newFriend Put for each friend
    ready,            \* rounds whose keys a client has extracted
    mixed,            \* rounds whose mix message a client has handled
    scanned,          \* rounds whose mailbox message a client has handled
    tasks,            \* handlers that are between two critical sections
    clientFile,       \* ClientPersistPath
    wheelFile,        \* KeywheelPersistPath
    locked,           \* clients inside persistLocked, between the two files
    net,              \* state of every add-friend round
    onions,           \* introductions that reached each round
    asked,            \* calls of SendFriendRequest that were not cancelled
    nonce,            \* key pairs generated so far
    approved,         \* requests the application has approved
    crashes,          \* crashes so far
    saves,            \* saves by other handlers so far
    failures,         \* failures so far
    confirmed         \* history: every newFriend(in, sent) that completed

memory == <<friends, incoming, outgoing, sent, wheel>>
rounds == <<ready, mixed, scanned>>
volatile == <<rounds, tasks>>
files == <<clientFile, wheelFile, locked>>
service == <<net, onions>>
bounds == <<asked, nonce, approved, crashes, saves, failures>>
vars == <<memory, volatile, files, service, bounds, confirmed>>
-----------------------------------------------------------------------------
\* A request in the outgoing queue.  Its ExpectedKey, which no code reads, is left
\* out.  The client pointer is nil in the request
\* that Approve makes, until the client is reloaded.
Outgoing(u, confirmation, dial, client) ==
    [Username |-> u, Confirmation |-> confirmation, DialRound |-> dial, client |-> client]

\* What the client file holds.
Saved(c) ==
    [friends |-> friends[c], incoming |-> incoming[c],
     outgoing |-> outgoing[c], sent |-> sent[c]]

Init ==
    /\ friends = [c \in Clients |-> {}]
    /\ incoming = [c \in Clients |-> << >>]
    /\ outgoing = [c \in Clients |-> << >>]
    /\ sent = [c \in Clients |-> << >>]
    /\ wheel = [c \in Clients |-> << >>]
    /\ ready = [c \in Clients |-> {}]
    /\ mixed = [c \in Clients |-> {}]
    /\ scanned = [c \in Clients |-> {}]
    /\ tasks = [c \in Clients |-> {}]
    /\ clientFile = [c \in Clients |-> Saved(c)]
    /\ wheelFile = wheel
    /\ locked = {}
    /\ net = [r \in Rounds |-> "none"]
    /\ onions = [r \in Rounds |-> {}]
    /\ asked = [c \in Clients |-> [u \in Clients |-> 0]]
    /\ nonce = [c \in Clients |-> 0]
    /\ approved = [c \in Clients |-> {}]
    /\ crashes = 0
    /\ saves = 0
    /\ failures = 0
    /\ confirmed = {}
-----------------------------------------------------------------------------
(***************************************************************************)
(* Persistence.                                                            *)
(***************************************************************************)

\* persistClientLocked: to be conjoined after the primed queues are known.
PersistClient(c) == clientFile' = [clientFile EXCEPT ![c] = Saved(c)']

\* persistLocked: the client file now, the keywheel file in FinishPersist unless
\* it is up to date; the client's mutex stays locked in between.
PersistLocked(c) ==
    /\ PersistClient(c)
    /\ locked' = IF wheelFile[c] = wheel'[c] THEN locked ELSE locked \cup {c}
    /\ UNCHANGED wheelFile

FinishPersist(c) ==
    /\ c \in locked
    /\ wheelFile' = [wheelFile EXCEPT ![c] = wheel[c]]
    /\ locked' = locked \ {c}
    /\ UNCHANGED <<memory, volatile, clientFile, service, bounds, confirmed>>

\* The tail of a dialing round's scanBloomFilter: persistKeywheel.
PersistKeywheel(c) ==
    /\ c \notin locked
    /\ saves < MaxSaves
    /\ saves' = saves + 1
    /\ wheelFile' = [wheelFile EXCEPT ![c] = wheel[c]]
    /\ UNCHANGED <<memory, volatile, clientFile, locked, service,
                   asked, nonce, approved, crashes, failures, confirmed>>

\* persistClient at the end of a sendAddFriendOnion that had nothing to send, or
\* of a scanMailbox that found nothing: "Always persist client to avoid
\* side-channels".
PersistIdle(c) ==
    /\ c \notin locked
    /\ ready[c] # {}
    /\ saves < MaxSaves
    /\ saves' = saves + 1
    /\ clientFile' = [clientFile EXCEPT ![c] = Saved(c)]
    /\ UNCHANGED <<memory, volatile, wheelFile, locked, service,
                   asked, nonce, approved, crashes, failures, confirmed>>

\* The process ends and LoadClient starts from the two files: the queues and
\* the address book come back, the handlers, the rounds and the last dialing
\* round do not.
Restart(c) ==
    /\ crashes < MaxCrashes
    /\ crashes' = crashes + 1
    /\ friends' = [friends EXCEPT ![c] = clientFile[c].friends]
    /\ incoming' = [incoming EXCEPT ![c] = clientFile[c].incoming]
    /\ outgoing' = [outgoing EXCEPT ![c] =
                      [i \in DOMAIN clientFile[c].outgoing |->
                         [clientFile[c].outgoing[i] EXCEPT !.client = TRUE]]]
    /\ sent' = [sent EXCEPT ![c] = clientFile[c].sent]
    /\ wheel' = [wheel EXCEPT ![c] = wheelFile[c]]
    /\ ready' = [ready EXCEPT ![c] = {}]
    /\ tasks' = [tasks EXCEPT ![c] = {}]
    /\ locked' = locked \ {c}
    /\ UNCHANGED <<mixed, scanned, clientFile, wheelFile, service,
                   asked, nonce, approved, saves, failures, confirmed>>

Crash(c) == Restart(c)
-----------------------------------------------------------------------------
(***************************************************************************)
(* The application's calls (friendrequest.go, friend.go).                  *)
(***************************************************************************)

SendFriendRequest(c, u) ==
    /\ c \notin locked
    /\ asked[c][u] < Budget[c][u]
    /\ asked' = [asked EXCEPT ![c][u] = @ + 1]
    /\ outgoing' = [outgoing EXCEPT ![c] = Append(@, Outgoing(u, FALSE, 0, TRUE))]
    /\ UNCHANGED <<friends, incoming, sent, wheel>>
    /\ PersistLocked(c)
    /\ UNCHANGED <<volatile, service, nonce, approved, crashes, saves, failures, confirmed>>

\* OutgoingFriendRequest.Cancel, for a request that is still in the queue.
CancelOutgoing(c, i) ==
    /\ c \notin locked
    /\ outgoing[c][i].client
    /\ outgoing' = [outgoing EXCEPT ![c] = RemoveAt(@, i)]
    /\ asked' = IF outgoing[c][i].Confirmation THEN asked
                ELSE [asked EXCEPT ![c][outgoing[c][i].Username] = @ - 1]
    /\ UNCHANGED <<friends, incoming, sent, wheel>>
    /\ PersistLocked(c)
    /\ UNCHANGED <<volatile, service, nonce, approved, crashes, saves, failures, confirmed>>

\* Cancel dereferences the request's client, which Approve left nil.
CancelPanics(c, i) ==
    /\ ~outgoing[c][i].client
    /\ Restart(c)

\* Approve, which the application calls once for a request it was shown.
Approve(c, i) ==
    LET in == incoming[c][i] IN
    /\ c \notin locked
    /\ in.DH \notin approved[c]
    /\ approved' = [approved EXCEPT ![c] = @ \cup {in.DH}]
    /\ outgoing' = [outgoing EXCEPT ![c] =
                      Append(@, Outgoing(in.Username, TRUE, in.DialRound, FALSE))]
    /\ UNCHANGED <<friends, incoming, sent, wheel>>
    /\ PersistLocked(c)
    /\ UNCHANGED <<volatile, service, asked, nonce, crashes, saves, failures, confirmed>>

\* Reject, for a request that is still in the queue.
Reject(c, i) ==
    /\ c \notin locked
    /\ incoming' = [incoming EXCEPT ![c] = RemoveAt(@, i)]
    /\ UNCHANGED <<friends, outgoing, sent, wheel>>
    /\ PersistLocked(c)
    /\ UNCHANGED <<volatile, service, bounds, confirmed>>

\* Friend.Remove (its effect on queued calls belongs to Dialing).
RemoveFriend(c, u) ==
    /\ c \in Removers
    /\ c \notin locked
    /\ u \in friends[c]
    /\ friends' = [friends EXCEPT ![c] = @ \ {u}]
    /\ wheel' = [wheel EXCEPT ![c] = [x \in DOMAIN @ \ {u} |-> @[x]]]
    /\ UNCHANGED <<incoming, outgoing, sent>>
    /\ PersistLocked(c)
    /\ UNCHANGED <<volatile, service, bounds, confirmed>>
-----------------------------------------------------------------------------
(***************************************************************************)
(* The coordinator, the mixnet and the CDN, as the clients see them.       *)
(***************************************************************************)

\* The coordinator announces round r, and the newround and pkg handlers
\* (newAddFriendRound, extractPKGKeys) run at every client: those in Ready end
\* up with the round's keys.  The others were offline, or a handler failed
\* there, which is final: PrivateKeys is allocated before the extractions.
\* The round before takes no more onions, though it may still be in the mixnet.
OpenRound(r, Ready) ==
    /\ net[r] = "none"
    /\ r > 1 => net[r - 1] # "none"
    /\ failures + Cardinality(Clients \ Ready) <= MaxFailures
    /\ failures' = failures + Cardinality(Clients \ Ready)
    /\ net' = [q \in Rounds |->
                 IF q = r THEN "open" ELSE IF net[q] = "open" THEN "mixing" ELSE net[q]]
    /\ ready' = [c \in Clients |-> IF c \in Ready THEN ready[c] \cup {r} ELSE ready[c]]
    /\ UNCHANGED <<memory, mixed, scanned, tasks, files, onions,
                   asked, nonce, approved, crashes, saves, confirmed>>

\* The batch of round r went through the mixnet; its mailboxes are announced.
PublishRound(r) ==
    /\ net[r] \in {"open", "mixing"}
    /\ net' = [net EXCEPT ![r] = "published"]
    /\ UNCHANGED <<memory, volatile, files, onions, bounds, confirmed>>

\* The mixnet failed: the clients hear of an error and the onions are lost.
FailRound(r) ==
    /\ net[r] \in {"open", "mixing"}
    /\ failures < MaxFailures
    /\ failures' = failures + 1
    /\ net' = [net EXCEPT ![r] = "failed"]
    /\ UNCHANGED <<memory, volatile, files, onions, asked, nonce, approved, crashes, saves, confirmed>>

\* loadAddFriendConfig or newDialingRound: the announced configuration is new,
\* and the client saves itself with it.
SaveNewConfig(c) ==
    /\ c \notin locked
    /\ saves < MaxSaves
    /\ saves' = saves + 1
    /\ UNCHANGED memory
    /\ PersistLocked(c)
    /\ UNCHANGED <<volatile, service, asked, nonce, approved, crashes, failures, confirmed>>
-----------------------------------------------------------------------------
(***************************************************************************)
(* sendAddFriendOnion.                                                     *)
(***************************************************************************)

Task(kind, r, pc, in, st) == [kind |-> kind, round |-> r, pc |-> pc, in |-> in, sent |-> st]

Advance(c, t, t2) == tasks' = [tasks EXCEPT ![c] = (@ \ {t}) \cup {t2}]

\* genIntro's sentFriendRequest, with a fresh key pair.  last is the client's
\* lastDialingRound, which the handlers of the dialing rounds store without
\* order among them and which a restart resets to 0.
genIntro(c, out, last) ==
    LET dial == IF out.Confirmation THEN out.DialRound ELSE last
    IN  [Username |-> out.Username, Confirmation |-> out.Confirmation, DialRound |-> dial,
         DH |-> [owner |-> c, peer |-> out.Username, dial |-> dial, n |-> nonce[c]]]

\* The introduction as its recipient decodes it: an IncomingFriendRequest.
Introduction(c, st) ==
    [Username |-> c, DH |-> st.DH, DialRound |-> st.DialRound]

\* Without Overlap a send handler runs to its end before a mailbox handler of
\* the client begins, and the other way round.
MayStart(c, kinds) == Overlap \/ \A t \in tasks[c] : t.kind \notin kinds

\* nextOutgoingFriendRequest, genIntro and Send.  An onion that comes when the
\* round is no longer open is not part of its batch.
sendAddFriendOnion(c, r, last) ==
    LET st == genIntro(c, Head(outgoing[c]), last)
        onion == [to |-> st.Username, intro |-> Introduction(c, st)]
    IN  /\ r \in ready[c] \ mixed[c]
        /\ c \notin locked
        /\ MayStart(c, {"scan", "decode"})
        /\ outgoing[c] # << >>
        /\ Head(outgoing[c]).Confirmation => last = 0
        /\ mixed' = [mixed EXCEPT ![c] = @ \cup {r}]
        /\ outgoing' = [outgoing EXCEPT ![c] = Tail(@)]
        /\ nonce' = [nonce EXCEPT ![c] = @ + 1]
        /\ \/ /\ net[r] = "open"
              /\ onions' = [onions EXCEPT ![r] = @ \cup {onion}]
              /\ UNCHANGED failures
           \/ /\ net[r] # "open"
              /\ failures < MaxFailures
              /\ failures' = failures + 1
              /\ UNCHANGED onions
        /\ tasks' = [tasks EXCEPT ![c] = @ \cup {Task("send", r, "match", Nil, st)}]
        /\ UNCHANGED <<friends, incoming, sent, wheel, ready, scanned, files, net,
                       asked, approved, crashes, saves, confirmed>>

\* Mutant of Matches: any two requests of the dialing round.
MatchesRound(in, st) == in.DialRound = st.DialRound

\* The two requests belong together.
Matches(in, st) == in.Username = st.Username /\ in.DialRound = st.DialRound

matchToIncoming(c, st) == SelectInSeq(incoming[c], LAMBDA in : Matches(in, st))

MatchSent(c, t) ==
    LET i == matchToIncoming(c, t.sent) IN
    /\ t.kind = "send" /\ t.pc = "match"
    /\ c \notin locked
    /\ Advance(c, t, IF i = 0 THEN [t EXCEPT !.pc = "append"]
                     ELSE [t EXCEPT !.pc = "put", !.in = incoming[c][i]])
    /\ UNCHANGED <<memory, rounds, files, service, bounds, confirmed>>

\* Mutant of AppendSent: only the latest request is remembered.
AppendSentOverwrites(c, t) ==
    /\ t.kind = "send" /\ t.pc = "append"
    /\ c \notin locked
    /\ sent' = [sent EXCEPT ![c] = <<t.sent>>]
    /\ Advance(c, t, [t EXCEPT !.pc = "persist"])
    /\ UNCHANGED <<friends, incoming, outgoing, wheel, rounds,
                   files, service, bounds, confirmed>>

AppendSent(c, t) ==
    /\ t.kind = "send" /\ t.pc = "append"
    /\ c \notin locked
    /\ sent' = [sent EXCEPT ![c] = Append(@, t.sent)]
    /\ Advance(c, t, [t EXCEPT !.pc = "persist"])
    /\ UNCHANGED <<friends, incoming, outgoing, wheel, rounds,
                   files, service, bounds, confirmed>>
-----------------------------------------------------------------------------
(***************************************************************************)
(* scanMailbox and decodeAddFriendMessage.                                 *)
(***************************************************************************)

\* The introductions in c's mailbox of round r that c can decrypt.
Mailbox(c, r) == {o.intro : o \in {x \in onions[r] : x.to = c}}

\* Every introduction that decrypts is decoded in parallel with the others.
\* The round's mutex, which sendAddFriendOnion holds to its end, is needed.
scanMailbox(c, r) ==
    /\ net[r] = "published"
    /\ r \in ready[c] \ scanned[c]
    /\ MayStart(c, {"send"})
    /\ Mailbox(c, r) # {}
    /\ \A t \in tasks[c] : ~(t.kind = "send" /\ t.round = r)
    /\ scanned' = [scanned EXCEPT ![c] = @ \cup {r}]
    /\ tasks' = [tasks EXCEPT ![c] =
                   @ \cup {Task("scan", r, "persist", Nil, Nil)}
                     \cup {Task("decode", r, "match", in, Nil) : in \in Mailbox(c, r)}]
    /\ UNCHANGED <<memory, ready, mixed, files, service, bounds, confirmed>>

matchToSent(c, in) == SelectInSeq(sent[c], LAMBDA st : Matches(in, st))

\* Mutants of MatchIncoming: the answer is always shown to the application; the
\* friend is confirmed without a key.
MatchIncomingNever(c, t) ==
    /\ t.kind = "decode" /\ t.pc = "match"
    /\ c \notin locked
    /\ Advance(c, t, [t EXCEPT !.pc = "append"])
    /\ UNCHANGED <<memory, rounds, files, service, bounds, confirmed>>

MatchIncomingSkipsPut(c, t) ==
    LET i == matchToSent(c, t.in) IN
    /\ t.kind = "decode" /\ t.pc = "match"
    /\ c \notin locked
    /\ Advance(c, t, IF i = 0 THEN [t EXCEPT !.pc = "append"]
                     ELSE [t EXCEPT !.pc = "commit", !.sent = sent[c][i]])
    /\ UNCHANGED <<memory, rounds, files, service, bounds, confirmed>>

MatchIncoming(c, t) ==
    LET i == matchToSent(c, t.in) IN
    /\ t.kind = "decode" /\ t.pc = "match"
    /\ c \notin locked
    /\ Advance(c, t, IF i = 0 THEN [t EXCEPT !.pc = "append"]
                     ELSE [t EXCEPT !.pc = "put", !.sent = sent[c][i]])
    /\ UNCHANGED <<memory, rounds, files, service, bounds, confirmed>>

AppendIncoming(c, t) ==
    /\ t.kind = "decode" /\ t.pc = "append"
    /\ c \notin locked
    /\ incoming' = [incoming EXCEPT ![c] = Append(@, t.in)]
    /\ tasks' = [tasks EXCEPT ![c] = @ \ {t}]
    /\ UNCHANGED <<friends, outgoing, sent, wheel, rounds,
                   files, service, bounds, confirmed>>
-----------------------------------------------------------------------------
(***************************************************************************)
(* newFriend, and the end of both handlers.                                *)
(***************************************************************************)

\* Mutant of PutKey: the shared key depends on which side computes it: own key
\* pair first.
PutKeyUnordered(c, t) ==
    /\ t.pc = "put"
    /\ wheel' = [wheel EXCEPT ![c] =
                   [u \in DOMAIN @ \cup {t.in.Username} |->
                      IF u = t.in.Username
                      THEN [Round |-> t.in.DialRound, Secret |-> <<t.sent.DH, t.in.DH>>]
                      ELSE @[u]]]
    /\ Advance(c, t, [t EXCEPT !.pc = "commit"])
    /\ UNCHANGED <<friends, incoming, outgoing, sent, rounds,
                   files, service, bounds, confirmed>>

\* wheel.Put, under the wheel's mutex and not the client's.
PutKey(c, t) ==
    /\ t.pc = "put"
    /\ wheel' = [wheel EXCEPT ![c] =
                   [u \in DOMAIN @ \cup {t.in.Username} |->
                      IF u = t.in.Username
                      THEN [Round |-> t.in.DialRound, Secret |-> {t.in.DH, t.sent.DH}]
                      ELSE @[u]]]
    /\ Advance(c, t, [t EXCEPT !.pc = "commit"])
    /\ UNCHANGED <<friends, incoming, outgoing, sent, rounds,
                   files, service, bounds, confirmed>>

\* What newFriend leaves of a queue.  It compares pointers; requests that are
\* not the same differ in their key pairs.
Without(queue, req) ==
    LET kept[n \in 0 .. Len(queue)] ==
            IF n = 0 THEN << >>
            ELSE IF queue[n] = req THEN kept[n - 1] ELSE Append(kept[n - 1], queue[n])
    IN kept[Len(queue)]

\* The address book and the two queues; then ConfirmedFriend.
CommitFriend(c, t) ==
    /\ t.pc = "commit"
    /\ c \notin locked
    /\ friends' = [friends EXCEPT ![c] = @ \cup {t.in.Username}]
    /\ incoming' = [incoming EXCEPT ![c] = Without(@, t.in)]
    /\ sent' = [sent EXCEPT ![c] = Without(@, t.sent)]
    /\ confirmed' = confirmed \cup {[who |-> c, in |-> t.in, sent |-> t.sent]}
    /\ tasks' = [tasks EXCEPT ![c] =
                   (@ \ {t}) \cup IF t.kind = "send" THEN {[t EXCEPT !.pc = "persist"]} ELSE {}]
    /\ UNCHANGED <<outgoing, wheel, rounds, files, service, bounds>>

\* persistClient, the client file alone, when the handler is done.
FinishHandler(c, t) ==
    /\ t.pc = "persist"
    /\ t.kind = "scan" => \A d \in tasks[c] : ~(d.kind = "decode" /\ d.round = t.round)
    /\ c \notin locked
    /\ UNCHANGED memory
    /\ PersistClient(c)
    /\ tasks' = [tasks EXCEPT ![c] = @ \ {t}]
    /\ UNCHANGED <<rounds, wheelFile, locked, service, bounds, confirmed>>
-----------------------------------------------------------------------------
Application(c) ==
    \/ \E u \in Clients : SendFriendRequest(c, u)
    \/ \E i \in DOMAIN outgoing[c] : CancelOutgoing(c, i) \/ CancelPanics(c, i)
    \/ \E i \in DOMAIN incoming[c] : Approve(c, i) \/ Reject(c, i)
    \/ \E u \in friends[c] : RemoveFriend(c, u)

Handlers(c) ==
    \/ \E r \in Rounds :
         \/ \E last \in DialRounds : sendAddFriendOnion(c, r, last)
         \/ scanMailbox(c, r)
    \/ \E t \in tasks[c] :
         \/ MatchSent(c, t)
         \/ AppendSent(c, t)
         \/ MatchIncoming(c, t)
         \/ AppendIncoming(c, t)
         \/ PutKey(c, t)
         \/ CommitFriend(c, t)
         \/ FinishHandler(c, t)
    \/ FinishPersist(c)
    \/ PersistKeywheel(c)
    \/ PersistIdle(c)
    \/ SaveNewConfig(c)

Service ==
    \E r \in Rounds :
        (\E Ready \in SUBSET Clients : OpenRound(r, Ready)) \/ PublishRound(r) \/ FailRound(r)

Next ==
    \/ \E c \in Clients : Application(c) \/ Handlers(c) \/ Crash(c)
    \/ Service

Spec == Init /\ [][Next]_vars
-----------------------------------------------------------------------------
(***************************************************************************)
(* Properties.                                                             *)
(***************************************************************************)

\* Type correctness; a task that is about to confirm a friend has both requests.
TypeOK ==
    /\ friends \in [Clients -> SUBSET Clients]
    /\ \A c \in Clients : \A i \in DOMAIN outgoing[c] : outgoing[c][i] \in OutgoingRequest
    /\ \A c \in Clients : \A i \in DOMAIN incoming[c] : incoming[c][i].DialRound \in DialRounds
    /\ \A c \in Clients : DOMAIN wheel[c] \subseteq Clients
    /\ ready \in [Clients -> SUBSET Rounds]
    /\ mixed \in [Clients -> SUBSET Rounds]
    /\ scanned \in [Clients -> SUBSET Rounds]
    /\ \A c \in Clients : \A t \in tasks[c] :
         t.pc \in {"put", "commit"} => t.in # Nil /\ t.sent # Nil
    /\ locked \subseteq Clients
    /\ net \in [Rounds -> {"none", "open", "mixing", "published", "failed"}]

\* Friends who both have a key for each other have the same key for the same
\* dialing round; alpenhorn_test.go:203 asserts it of the session keys.
KeysAgree ==
    \A a, b \in Clients :
        b \in DOMAIN wheel[a] /\ a \in DOMAIN wheel[b] => wheel[a][b] = wheel[b][a]

\* A key pair that owner made for peer and for this dialing round.
MadeFor(dh, owner, peer, dial) == dh.owner = owner /\ dh.peer = peer /\ dh.dial = dial

\* The key that a client keeps for a friend, in memory or on disk, comes from a
\* key pair it made for that friend and one the friend made for it, both meant
\* for the dialing round the key is kept under: never from a third party's
\* request, nor from requests of two different attempts.
KeyIsMutual ==
    \A c \in Clients : \A w \in {wheel[c], wheelFile[c]} : \A u \in DOMAIN w :
        \E mine, theirs \in w[u].Secret :
            /\ w[u].Secret = {mine, theirs}
            /\ MadeFor(mine, c, u, w[u].Round)
            /\ MadeFor(theirs, u, c, w[u].Round)

\* Nobody enters an address book unless its owner sent that user a request or
\* approved one of theirs.
Consent ==
    \A c \in Clients : \A u \in friends[c] \cup clientFile[c].friends :
        \/ \E f \in confirmed : f.who = c /\ f.sent.Username = u /\ ~f.sent.Confirmation
        \/ \E dh \in approved[c] : dh.owner = u

RequestsTo(q, u) == {i \in DOMAIN q : q[i].Username = u /\ ~q[i].Confirmation}

\* As long as the process lives, a request that was not cancelled is in exactly
\* one place: queued, on its way, waiting for an answer, or confirmed.
RequestConserved ==
    \A c, u \in Clients :
        LET travelling == {t.sent : t \in {x \in tasks[c] : x.sent # Nil}}
            answered == {f.sent : f \in {x \in confirmed : x.who = c}}
            made == {st \in travelling \cup ToSet(sent[c]) \cup answered :
                       st.Username = u /\ ~st.Confirmation}
        IN  crashes = 0 =>
              asked[c][u] = Cardinality(RequestsTo(outgoing[c], u)) + Cardinality(made)

\* A friend can be called: Friend.Call needs the friend's keywheel entry, and
\* client.go:82 says that the keywheel can be recreated from the client state.
FriendHasKey ==
    \A c \in Clients : friends[c] \subseteq DOMAIN wheel[c]

\* When no handler is running, no received request still waits for the
\* application while the request that matches it still waits for an answer:
\* the pair has been confirmed (client.go:30: ConfirmedFriend is called when
\* the protocol is completed between two friends).
NoStrandedPair ==
    \A c \in Clients :
        tasks[c] = {} =>
            \A i \in DOMAIN incoming[c], j \in DOMAIN sent[c] :
                ~Matches(incoming[c][i], sent[c][j])
=============================================================================
