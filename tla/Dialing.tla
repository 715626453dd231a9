------------------------------- MODULE Dialing ------------------------------
(***************************************************************************)
(* The dialing protocol between clients (dialing.go and the calls of       *)
(* friend.go): queueing a call, sending its dial token in a round,         *)
(* scanning the round's Bloom filter for tokens of friends, and erasing    *)
(* the keys of the round.                                                  *)
(*                                                                         *)
(* The mix and mailbox handlers of all rounds run in goroutines of their   *)
(* own, next to the application's calls.  Client.mu protects the queue and *)
(* the call objects, the wheel has a mutex of its own, and computeKeys,    *)
(* Call and scanBloomFilter release what they hold between their steps.    *)
(*                                                                         *)
(* A keywheel entry is the seed it was Put with and its round: Keywheel    *)
(* shows that seed and round determine the secret.  The reads of the wheel *)
(* are single steps here; what happens inside them is Keywheel's subject.  *)
(* The coordinator, the mixnet and the CDN are one round service, as in    *)
(* AddFriend.                                                              *)
(***************************************************************************)
EXTENDS Naturals, SequencesExt

CONSTANTS
    Clients,       \* users, each with one client
    Calls,         \* the OutgoingCall objects the applications will create
    IntentMax,     \* intents are 0 .. IntentMax - 1
    MaxRound,      \* bound: dialing rounds are 1 .. MaxRound
    MaxSeed,       \* bound: secrets 1 .. MaxSeed per pair, the first Put at the start
    DialRound,     \* DialRound[s]: the round that secret s is Put for
    Callers,       \* clients whose application calls friends
    Removers,      \* clients whose application calls Friend.Remove
    Readers,       \* clients whose application asks a call for its session key
    Punctual,      \* whether rounds do not overlap: the handlers of one end before the next opens
    MaxCrashes,    \* bound: crashes and panics
    MaxFailures,   \* bound: late onions, failed rounds, clients not ready for a round,
                   \* mailboxes that cannot be fetched or decoded
    Nil            \* nil

Rounds == 1 .. MaxRound
Intents == 0 .. IntentMax - 1
Seeds == 1 .. MaxSeed
Tokens == [pair : SUBSET Clients, seed : Seeds, round : Rounds, to : Clients, intent : Intents]

ASSUME DialingAssumption ==
    /\ IntentMax \in Nat \ {0}
    /\ MaxRound \in Nat
    /\ MaxSeed \in Nat \ {0}
    /\ DialRound \in [Seeds -> Nat]
    /\ Nil \notin Clients \cup Calls \cup Tokens
    /\ Punctual \in BOOLEAN
    /\ MaxCrashes \in Nat /\ MaxFailures \in Nat

VARIABLES
    wheel,        \* Client.wheel: friends, each with a seed and a round
    wheelFile,    \* KeywheelPersistPath
    outgoingCalls, \* Client.outgoingCalls
    call,         \* the OutgoingCall objects
    tasks,        \* handlers and application calls that are between two steps
    ready,        \* Client.dialingRounds: rounds announced to the client
    mixed,        \* rounds whose mix message a client has handled
    scanned,      \* rounds whose mailbox message a client has handled
    net,          \* state of every dialing round
    tokens,       \* tokens that reached each round
    puts,         \* history: the last secret that c Put for u
    received,     \* history: what ReceivedCall was called with
    erased,       \* history: the keys that a scan knew and whose erasure reached the disk
    badFilters,   \* history: mailboxes that did not decode
    crashes, failures  \* so far

keys == <<wheel, wheelFile>>
rounds == <<ready, mixed, scanned>>
service == <<net, tokens>>
history == <<puts, received, erased, badFilters>>
bounds == <<crashes, failures>>
vars == <<keys, outgoingCalls, call, tasks, rounds, service, history, bounds>>
-----------------------------------------------------------------------------
(***************************************************************************)
(* The wheel.                                                              *)
(***************************************************************************)

\* Mutant of DialToken: the token does not say whom it calls.
DialTokenUndirected(a, b, seed, round, to, intent) ==
    [pair |-> {a, b}, seed |-> seed, round |-> round, to |-> Nil, intent |-> intent]

\* hash2 and hash3, by what they are applied to.
DialToken(a, b, seed, round, to, intent) ==
    [pair |-> {a, b}, seed |-> seed, round |-> round, to |-> to, intent |-> intent]
RoundKey(a, b, seed, round) == [pair |-> {a, b}, seed |-> seed, round |-> round]

\* The friends of c whose secret for the round is not erased.
Reachable(c, round) == {u \in DOMAIN wheel[c] : wheel[c][u].Round <= round}

OutgoingDialToken(c, u, round, intent) ==
    IF u \in Reachable(c, round) THEN DialToken(c, u, wheel[c][u].seed, round, u, intent) ELSE Nil

SessionKey(c, u, round) ==
    IF u \in Reachable(c, round) THEN RoundKey(c, u, wheel[c][u].seed, round) ELSE Nil

\* The tokens that friends of c may have sent it in the round, with the friend.
IncomingDialTokens(c, round) ==
    {[from |-> u, token |-> DialToken(c, u, wheel[c][u].seed, round, c, i)] :
        u \in Reachable(c, round), i \in Intents}

\* Mutants of Erased: the round itself survives; the next one is lost too.
ErasedTooLittle(w, round) ==
    [u \in DOMAIN w |-> IF w[u].Round <= round THEN [w[u] EXCEPT !.Round = round] ELSE w[u]]
ErasedTooMuch(w, round) ==
    [u \in DOMAIN w |-> IF w[u].Round <= round + 2 THEN [w[u] EXCEPT !.Round = round + 2] ELSE w[u]]

\* EraseKeys.
Erased(w, round) ==
    [u \in DOMAIN w |-> IF w[u].Round <= round + 1 THEN [w[u] EXCEPT !.Round = round + 1] ELSE w[u]]
-----------------------------------------------------------------------------
\* A call object that the application has not created yet.
NoCall ==
    [state |-> "none", from |-> Nil, Username |-> Nil, intent |-> 0,
     sentRound |-> 0, dialToken |-> Nil, sessionKey |-> Nil]

\* Every pair of clients became friends before the first round.
Init ==
    /\ wheel = [c \in Clients |-> [u \in Clients \ {c} |-> [seed |-> 1, Round |-> DialRound[1]]]]
    /\ wheelFile = wheel
    /\ outgoingCalls = [c \in Clients |-> << >>]
    /\ call = [k \in Calls |-> NoCall]
    /\ tasks = {}
    /\ ready = [c \in Clients |-> {}]
    /\ mixed = [c \in Clients |-> {}]
    /\ scanned = [c \in Clients |-> {}]
    /\ net = [r \in Rounds |-> "none"]
    /\ tokens = [r \in Rounds |-> {}]
    /\ puts = [c \in Clients |-> [u \in Clients \ {c} |-> 1]]
    /\ received = {}
    /\ erased = [c \in Clients |-> {}]
    /\ badFilters = {}
    /\ crashes = 0
    /\ failures = 0
-----------------------------------------------------------------------------
(***************************************************************************)
(* The application's calls (friend.go).                                    *)
(***************************************************************************)

\* Friend.Call, first half: the friend is in the keywheel.
Call(c, u, k, intent) ==
    /\ c \in Callers
    /\ call[k].state = "none"
    /\ u \in DOMAIN wheel[c]
    /\ call' = [call EXCEPT ![k] =
                  [NoCall EXCEPT !.state = "checked", !.from = c, !.Username = u,
                                 !.intent = intent]]
    /\ UNCHANGED <<keys, outgoingCalls, tasks, rounds, service, history, bounds>>

\* Friend.Call, second half: the call joins the queue.
Enqueue(k) ==
    /\ call[k].state = "checked"
    /\ outgoingCalls' = [outgoingCalls EXCEPT ![call[k].from] = Append(@, k)]
    /\ call' = [call EXCEPT ![k].state = "queued"]
    /\ UNCHANGED <<keys, tasks, rounds, service, history, bounds>>

\* UpdateIntent, when it returns nil.
UpdateIntent(k, intent) ==
    /\ call[k].state \in {"queued", "sending", "sent"}
    /\ call[k].dialToken = Nil
    /\ call[k].intent # intent
    /\ call' = [call EXCEPT ![k].intent = intent]
    /\ UNCHANGED <<keys, outgoingCalls, tasks, rounds, service, history, bounds>>

\* OutgoingCall.Cancel, when the call is in the queue.
Cancel(k) ==
    /\ call[k].state = "queued"
    /\ \E i \in DOMAIN outgoingCalls[call[k].from] :
         /\ outgoingCalls[call[k].from][i] = k
         /\ outgoingCalls' = [outgoingCalls EXCEPT ![call[k].from] = RemoveAt(@, i)]
    /\ call' = [call EXCEPT ![k].state = "cancelled"]
    /\ UNCHANGED <<keys, tasks, rounds, service, history, bounds>>

\* What is left of a queue when the dropped calls are taken out.
Without(queue, dropped) ==
    LET kept[n \in 0 .. Len(queue)] ==
            IF n = 0 THEN << >>
            ELSE IF queue[n] \in dropped THEN kept[n - 1] ELSE Append(kept[n - 1], queue[n])
    IN kept[Len(queue)]

\* Friend.Remove: the keywheel entry, the queued calls, and both files.
RemoveFriend(c, u) ==
    LET dropped == {k \in ToSet(outgoingCalls[c]) : call[k].Username = u}
    IN  /\ c \in Removers
        /\ u \in DOMAIN wheel[c]
        /\ wheel' = [wheel EXCEPT ![c] = [x \in DOMAIN @ \ {u} |-> @[x]]]
        /\ wheelFile' = [wheelFile EXCEPT ![c] = wheel'[c]]
        /\ outgoingCalls' = [outgoingCalls EXCEPT ![c] = Without(@, dropped)]
        /\ call' = [k \in Calls |->
                      IF k \in dropped THEN [call[k] EXCEPT !.state = "removed"] ELSE call[k]]
        /\ UNCHANGED <<tasks, rounds, service, history, bounds>>

\* newFriend, when the pair runs the add-friend protocol again: each of the two
\* clients Puts the pair's next secret when its own handler gets there.
PutKey(c, u) ==
    LET seed == puts[c][u] + 1 IN
    /\ seed \in Seeds
    /\ puts' = [puts EXCEPT ![c][u] = seed]
    /\ wheel' = [wheel EXCEPT ![c] =
                   [x \in DOMAIN @ \cup {u} |->
                      IF x = u THEN [seed |-> seed, Round |-> DialRound[seed]] ELSE @[x]]]
    /\ UNCHANGED <<wheelFile, outgoingCalls, call, tasks, rounds, service,
                   received, erased, badFilters, bounds>>
-----------------------------------------------------------------------------
(***************************************************************************)
(* The process and the round service.                                      *)
(***************************************************************************)

\* The process ends and LoadClient starts from the files: neither the queue of
\* calls nor the rounds are in them.
Crash(c) ==
    /\ crashes < MaxCrashes
    /\ crashes' = crashes + 1
    /\ wheel' = [wheel EXCEPT ![c] = wheelFile[c]]
    /\ outgoingCalls' = [outgoingCalls EXCEPT ![c] = << >>]
    /\ call' = [k \in Calls |->
                  IF call[k].from = c THEN [call[k] EXCEPT !.state = "lost"] ELSE call[k]]
    /\ tasks' = {t \in tasks : t.client # c}
    /\ ready' = [ready EXCEPT ![c] = {}]
    /\ UNCHANGED <<wheelFile, mixed, scanned, service, history, failures>>

\* Every announcement so far has been handled.
Settled ==
    /\ \A t \in tasks : t.kind = "read"
    /\ \A c \in Clients : \A r \in ready[c] :
         /\ net[r] = "open" /\ outgoingCalls[c] # << >> => r \in mixed[c]
         /\ net[r] = "published" => r \in scanned[c]

\* The coordinator announces round r: newDialingRound runs at every client in
\* Ready; the others are offline, or cannot fetch the new configuration.
OpenRound(r, Ready) ==
    /\ Punctual => Settled /\ \A q \in 1 .. r - 1 : net[q] \in {"published", "failed"}
    /\ net[r] = "none"
    /\ r > 1 => net[r - 1] # "none"
    /\ failures + Cardinality(Clients \ Ready) <= MaxFailures
    /\ failures' = failures + Cardinality(Clients \ Ready)
    /\ net' = [q \in Rounds |->
                 IF q = r THEN "open" ELSE IF net[q] = "open" THEN "mixing" ELSE net[q]]
    /\ ready' = [c \in Clients |-> IF c \in Ready THEN ready[c] \cup {r} ELSE ready[c]]
    /\ UNCHANGED <<keys, outgoingCalls, call, tasks, mixed, scanned, tokens, history,
                   crashes>>

\* The batch of round r went through the mixnet; its mailboxes are announced.
PublishRound(r) ==
    /\ Punctual => Settled
    /\ net[r] \in {"open", "mixing"}
    /\ net' = [net EXCEPT ![r] = "published"]
    /\ UNCHANGED <<keys, outgoingCalls, call, tasks, rounds, tokens, history, bounds>>

\* The mixnet failed and the tokens of the round are lost.
FailRound(r) ==
    /\ net[r] \in {"open", "mixing"}
    /\ failures < MaxFailures
    /\ failures' = failures + 1
    /\ net' = [net EXCEPT ![r] = "failed"]
    /\ UNCHANGED <<keys, outgoingCalls, call, tasks, rounds, tokens, history,
                   crashes>>
-----------------------------------------------------------------------------
(***************************************************************************)
(* computeKeys, in a send handler or in the application's SessionKey.      *)
(***************************************************************************)

Task(kind, c, r, pc, k) ==
    [kind |-> kind, client |-> c, round |-> r, pc |-> pc, call |-> k,
     intent |-> 0, token |-> Nil, key |-> Nil, hits |-> {}, entries |-> {}]

Advance(t, t2) == tasks' = (tasks \ {t}) \cup {t2}

\* A handler goes on with the token, the application's SessionKey returns.
Computed(t, token) ==
    tasks' = (tasks \ {t}) \cup
                IF t.kind = "send" THEN {[t EXCEPT !.pc = "computed", !.token = token]} ELSE {}

\* The application calls SessionKey on one of its calls.
BeginSessionKey(k) ==
    /\ call[k].state \in {"sending", "sent"}
    /\ call[k].from \in Readers
    /\ call[k].dialToken = Nil
    /\ \A t \in tasks : ~(t.kind = "read" /\ t.call = k)
    /\ tasks' = tasks \cup {Task("read", call[k].from, 0, "begin", k)}
    /\ UNCHANGED <<keys, outgoingCalls, call, rounds, service, history, bounds>>

\* The first critical section of computeKeys.
BeginCompute(t) ==
    LET o == call[t.call] IN
    /\ t.pc = "begin"
    /\ IF o.sentRound = 0 \/ o.dialToken # Nil
       THEN Computed(t, o.dialToken)
       ELSE Advance(t, [t EXCEPT !.pc = "token", !.intent = o.intent, !.round = o.sentRound])
    /\ UNCHANGED <<keys, outgoingCalls, call, rounds, service, history, bounds>>

\* The two reads of the wheel, without the client's mutex.
ReadToken(t) ==
    /\ t.pc = "token"
    /\ Advance(t, [t EXCEPT !.pc = "key", !.token =
                     OutgoingDialToken(t.client, call[t.call].Username, t.round, t.intent)])
    /\ UNCHANGED <<keys, outgoingCalls, call, rounds, service, history, bounds>>

\* Mutant of ReadKey: the key of the next round.
ReadKeyNextRound(t) ==
    /\ t.pc = "key"
    /\ Advance(t, [t EXCEPT !.pc = "store", !.key =
                     SessionKey(t.client, call[t.call].Username, t.round + 1)])
    /\ UNCHANGED <<keys, outgoingCalls, call, rounds, service, history, bounds>>

ReadKey(t) ==
    /\ t.pc = "key"
    /\ Advance(t, [t EXCEPT !.pc = "store", !.key =
                     SessionKey(t.client, call[t.call].Username, t.round)])
    /\ UNCHANGED <<keys, outgoingCalls, call, rounds, service, history, bounds>>

\* Mutant of StoreKeys: the handler uses its own token although another computation came
\* first.
StoreKeysUsesOwn(t) ==
    /\ t.pc = "store"
    /\ Computed(t, t.token)
    /\ IF call[t.call].dialToken # Nil
       THEN UNCHANGED call
       ELSE call' = [call EXCEPT ![t.call].intent = t.intent, ![t.call].dialToken = t.token,
                                 ![t.call].sessionKey = t.key]
    /\ UNCHANGED <<keys, outgoingCalls, rounds, service, history, bounds>>

\* The second critical section: the first of two computations is kept.
StoreKeys(t) ==
    /\ t.pc = "store"
    /\ IF call[t.call].dialToken # Nil
       THEN Computed(t, call[t.call].dialToken) /\ UNCHANGED call
       ELSE /\ Computed(t, t.token)
            /\ call' = [call EXCEPT ![t.call].intent = t.intent, ![t.call].dialToken = t.token,
                                    ![t.call].sessionKey = t.key]
    /\ UNCHANGED <<keys, outgoingCalls, rounds, service, history, bounds>>
-----------------------------------------------------------------------------
(***************************************************************************)
(* sendDialingOnion.                                                       *)
(***************************************************************************)

\* nextOutgoingCall.  A handler that finds the queue empty sends cover traffic,
\* changes no state of this module and is not a step of it.
sendDialingOnion(c, r) ==
    LET k == Head(outgoingCalls[c]) IN
    /\ r \in ready[c] \ mixed[c]
    /\ Punctual => net[r] = "open"
    /\ outgoingCalls[c] # << >>
    /\ mixed' = [mixed EXCEPT ![c] = @ \cup {r}]
    /\ outgoingCalls' = [outgoingCalls EXCEPT ![c] = Tail(@)]
    /\ call' = [call EXCEPT ![k].state = "sending"]
    /\ tasks' = tasks \cup {Task("send", c, r, "stamp", k)}
    /\ UNCHANGED <<keys, ready, scanned, service, history, bounds>>

\* The call gets its round; the application hears of SendingCall.
StampCall(t) ==
    /\ t.pc = "stamp"
    /\ call' = [call EXCEPT ![t.call].sentRound = t.round]
    /\ Advance(t, [t EXCEPT !.pc = "begin"])
    /\ UNCHANGED <<keys, outgoingCalls, rounds, service, history, bounds>>

\* The onion leaves.  One that comes when the round is no longer open is not
\* part of its batch.
SendOnion(t) ==
    /\ t.pc = "computed"
    /\ t.token # Nil
    /\ call' = [call EXCEPT ![t.call].state = "sent"]
    /\ \/ /\ net[t.round] = "open"
          /\ tokens' = [tokens EXCEPT ![t.round] = @ \cup {t.token}]
          /\ UNCHANGED failures
       \/ /\ net[t.round] # "open"
          /\ failures < MaxFailures
          /\ failures' = failures + 1
          /\ UNCHANGED tokens
    /\ tasks' = tasks \ {t}
    /\ UNCHANGED <<keys, outgoingCalls, rounds, net, history, crashes>>

\* token[:] dereferences a nil token: the process ends.
SendPanics(t) ==
    /\ t.pc = "computed"
    /\ t.token = Nil
    /\ Crash(t.client)
-----------------------------------------------------------------------------
(***************************************************************************)
(* scanBloomFilter.                                                        *)
(***************************************************************************)

\* The candidates that the filter of the round accepts.  A mailbox that does not
\* decode leaves the zero Filter, whose Test is true of everything.
Hits(c, r, bad) == {x \in IncomingDialTokens(c, r) : bad \/ x.token \in tokens[r]}

scanBloomFilter(c, r, bad) ==
    /\ net[r] = "published"
    /\ r \in ready[c] \ scanned[c]
    /\ \/ ~bad /\ UNCHANGED <<failures, badFilters>>
       \/ /\ bad
          /\ failures < MaxFailures
          /\ failures' = failures + 1
          /\ badFilters' = badFilters \cup {[to |-> c, Round |-> r]}
    /\ scanned' = [scanned EXCEPT ![c] = @ \cup {r}]
    /\ tasks' = tasks \cup {[Task("scan", c, r, "hits", Nil) EXCEPT
                              !.hits = Hits(c, r, bad),
                              !.entries = {[friend |-> u, seed |-> wheel[c][u].seed, round |-> r] :
                                             u \in DOMAIN wheel[c]}]}
    /\ UNCHANGED <<keys, outgoingCalls, call, ready, mixed, service,
                   puts, received, erased, crashes>>

\* The mailbox cannot be fetched: the handler returns and erases nothing.
FetchFails(c, r) ==
    /\ net[r] = "published"
    /\ r \in ready[c] \ scanned[c]
    /\ failures < MaxFailures
    /\ failures' = failures + 1
    /\ scanned' = [scanned EXCEPT ![c] = @ \cup {r}]
    /\ UNCHANGED <<keys, outgoingCalls, call, tasks, ready, mixed, service, history,
                   crashes>>

\* One ReceivedCall, with the session key read now.
ReceiveCall(t, x) ==
    /\ t.pc = "hits"
    /\ received' = received \cup
         {[to |-> t.client, from |-> x.from, token |-> x.token, Round |-> t.round,
           Intent |-> x.token.intent, SessionKey |-> SessionKey(t.client, x.from, t.round)]}
    /\ Advance(t, [t EXCEPT !.hits = @ \ {x}])
    /\ UNCHANGED <<keys, outgoingCalls, call, rounds, service, puts, erased, badFilters, bounds>>

EraseKeys(t) ==
    /\ t.pc = "hits"
    /\ t.hits = {}
    /\ wheel' = [wheel EXCEPT ![t.client] = Erased(@, t.round)]
    /\ Advance(t, [t EXCEPT !.pc = "persist"])
    /\ UNCHANGED <<wheelFile, outgoingCalls, call, rounds, service, history, bounds>>

\* persistKeywheel; the history records what is erased for good.
PersistKeywheel(t) ==
    /\ t.pc = "persist"
    /\ wheelFile' = [wheelFile EXCEPT ![t.client] = wheel[t.client]]
    /\ erased' = [erased EXCEPT ![t.client] = @ \cup t.entries]
    /\ tasks' = tasks \ {t}
    /\ UNCHANGED <<wheel, outgoingCalls, call, rounds, service, puts, received,
                   badFilters, bounds>>
-----------------------------------------------------------------------------
Application ==
    \/ \E c \in Clients : \E u \in Clients \ {c} :
         \/ \E k \in Calls, i \in Intents : Call(c, u, k, i)
         \/ RemoveFriend(c, u)
         \/ PutKey(c, u)
    \/ \E k \in Calls :
         \/ Enqueue(k)
         \/ \E i \in Intents : UpdateIntent(k, i)
         \/ Cancel(k)
         \/ BeginSessionKey(k)

TaskStep(t) ==
    \/ StampCall(t)
    \/ BeginCompute(t)
    \/ ReadToken(t)
    \/ ReadKey(t)
    \/ StoreKeys(t)
    \/ SendOnion(t)
    \/ \E x \in t.hits : ReceiveCall(t, x)
    \/ EraseKeys(t)
    \/ PersistKeywheel(t)

Handlers ==
    \/ \E c \in Clients, r \in Rounds :
         \/ sendDialingOnion(c, r)
         \/ \E bad \in BOOLEAN : scanBloomFilter(c, r, bad)
         \/ FetchFails(c, r)
    \/ \E t \in tasks : TaskStep(t) \/ SendPanics(t)

Service ==
    \E r \in Rounds :
        (\E Ready \in SUBSET Clients : OpenRound(r, Ready)) \/ PublishRound(r) \/ FailRound(r)

Next ==
    \/ Application
    \/ Handlers
    \/ Service
    \/ \E c \in Clients : Crash(c)

Spec == Init /\ [][Next]_vars

\* Goroutines are scheduled, and the coordinator's loop and its mixnet calls go
\* on; nothing obliges the application, and nothing has to fail.
Fairness ==
    /\ \A c \in Clients, r \in Rounds :
         /\ WF_vars(sendDialingOnion(c, r))
         /\ WF_vars(scanBloomFilter(c, r, FALSE))
    /\ \A c \in Clients, kind \in {"send", "read", "scan"} :
         WF_vars(\E t \in tasks : t.client = c /\ t.kind = kind /\ TaskStep(t))
    /\ \A r \in Rounds : WF_vars(OpenRound(r, Clients)) /\ WF_vars(PublishRound(r))

FairSpec == Spec /\ Fairness
-----------------------------------------------------------------------------
(***************************************************************************)
(* Properties.                                                             *)
(***************************************************************************)

\* Type correctness; a queue holds existing calls of its client.
TypeOK ==
    /\ \A c \in Clients : DOMAIN wheel[c] \subseteq Clients \ {c}
    /\ \A c \in Clients : \A u \in DOMAIN wheel[c] :
         wheel[c][u].seed \in Seeds /\ wheel[c][u].Round \in Nat
    /\ \A c \in Clients : \A k \in ToSet(outgoingCalls[c]) :
         call[k].state = "queued" /\ call[k].from = c
    /\ \A t \in tasks : t.client \in Clients /\ t.call \in Calls \cup {Nil}
    /\ ready \in [Clients -> SUBSET Rounds]
    /\ mixed \in [Clients -> SUBSET Rounds]
    /\ scanned \in [Clients -> SUBSET Rounds]
    /\ net \in [Rounds -> {"none", "open", "mixing", "published", "failed"}]

\* The application of the caller and that of the called get the same session
\* key for a call, when they get one (alpenhorn_test.go:203).
SessionKeysAgree ==
    \A x \in received, k \in Calls :
        /\ call[k].dialToken = x.token
        /\ call[k].sessionKey # Nil
        /\ x.SessionKey # Nil
        => call[k].sessionKey = x.SessionKey

\* Every incoming call was made: ReceivedCall names a friend who sent this call
\* to this client, in this round and with this intent.  A mailbox that did not
\* decode is excepted: scanBloomFilter reports it and scans the zero filter.
NoGhostCall ==
    \A x \in received : [to |-> x.to, Round |-> x.Round] \notin badFilters =>
      \E k \in Calls :
        /\ call[k].from = x.from
        /\ call[k].Username = x.to
        /\ call[k].sentRound = x.Round
        /\ call[k].dialToken # Nil => call[k].intent = x.Intent

\* When the erasure of a round's keys has reached the disk, neither the wheel
\* nor the file can give the keys of that round or of an earlier one again,
\* through whatever restarts.
ForwardSecret ==
    \A c \in Clients : \A e \in erased[c] : \A w \in {wheel[c], wheelFile[c]} :
        e.friend \in DOMAIN w /\ w[e.friend].seed = e.seed => w[e.friend].Round > e.round

\* The keys of a round are not erased before the friend's call of that round was
\* received, if the client knew the friend when it opened the mailbox: no scan of
\* another round makes this one miss a call.
NoMissedCall ==
    \A c \in Clients : \A e \in erased[c] : \A token \in tokens[e.round] :
        token.to = c /\ token.pair = {c, e.friend} /\ token.seed = e.seed =>
            \E x \in received : x.to = c /\ x.token = token

\* The onion carries the token whose session key the application gets, although
\* the handler and the application may both compute the keys.
TokenMatchesCall ==
    \A t \in tasks :
        t.pc = "computed" /\ t.token # Nil => t.token = call[t.call].dialToken

\* A call in the queue is received, if enough rounds follow and the application
\* does not give it up.
CallDelivered ==
    \A k \in Calls :
        /\ call[k].state = "queued"
        /\ Cardinality({r \in Rounds : net[r] = "none"}) >= Len(outgoingCalls[call[k].from])
        ~> \/ call[k].state \in {"cancelled", "removed"}
           \/ \E x \in received : x.token = call[k].dialToken
=============================================================================
