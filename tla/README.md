# Neverlur in TLA+

A verification project for Neverlur (a fork of Alpenhorn): TLA+ modules
translated from the Go source, TLC configurations that check them on small
instances, and theorems that TLAPS proves for every instance. Paths and line
numbers refer to the repository's `src/`.

Neverlur lets two users who know each other's name agree on a shared secret
without revealing that they did. A user sends a *friend request* through a
mixnet; when both sides have sent one, each combines the two Diffie-Hellman key
pairs into the secret that starts a *keywheel*. In every *dialing round* the
keywheel yields a dial token, which calls the friend, and a session key for
the conversation; after the round its keys are erased.

## 1. The system

| Part | State | Operations | Talks to |
|---|---|---|---|
| Keywheel (`keywheel/keywheel.go`) | a secret and a round per friend | Put, Remove, SessionKey, OutgoingDialToken, IncomingDialTokens, EraseKeys, (un)marshal | client |
| Client, add-friend (`addfriend.go`, `friendrequest.go`) | address book; queues of incoming, outgoing and sent requests; state of the rounds | SendFriendRequest, Cancel, Approve, Reject; handlers of newround, pkg, mix and mailbox | coordinator, PKG servers, CDN, keywheel |
| Client, dialing (`dialing.go`, `friend.go`) | queue of calls, call objects, state of the rounds | Call, UpdateIntent, Cancel, SessionKey, Remove; handlers of newround, mix and mailbox | coordinator, CDN, keywheel |
| Client persistence (`persist.go`) | the client file and the keywheel file | persist, persistClient, persistKeywheel, LoadClient | all of the client |
| Coordinator (`coordinator/`) | round number (saved), onions of the round, shutdown | loop, runRound, incomingOnion, Close, LoadPersistedState | clients (hub), PKG servers, mixnet, CDN |
| CDN (`cdn/cdn.go`) | uploaders (memory), mailboxes and expiry times (database) | newbucket, put, get, deleteExpired | coordinator, last mixer, clients |
| Hub (`typesocket/`) | connections, each with a queue of 64 messages | register, unregister, Broadcast, Send, the read and write pumps | coordinator, clients |
| Mixnet (`mixnet/`, `addfriend/mixer.go`, `dialing/mixer.go`) | per round: keys, incoming onions, noise, result | NewRound, SetRoundSettings, AddOnions, CloseRound, GetOnions, DeleteRound | the next mixer, CDN |
| PKG server (`pkg/`) | users, per round: commitment and keys | register, commit, reveal, extract, status | coordinator, clients |
| Configuration (`config/`) | chain of signed configurations, the current one, a file | upload, set, fetch and verify a chain, save and load | guardians, coordinator, clients |
| Guardian tools (`cmd/guardian/`) | a configuration file on its way from one guardian to the next | keygen, new-config, sign-config, upload-config | configuration server |
| Handshake, version 2 (`intro.go`, `keywheel_seed.go`, `hybrid/`, `pqsig/`, `pqkem/`) | introductions, the seed of a keywheel | sign and verify an introduction, derive the seed | tests only, so far |
| Key files (`hybrid/identity_file.go`, keygen) | an identity file, a guardian's key pair | generate, load, upgrade an older installation | servers, guardian tools |
| TOML reader (`encoding/toml/`) | lexer and parser goroutines, a channel between them | Unmarshal | the servers' configuration files |

A coordinator opens round after round. For each it broadcasts *newround*
(clients fetch the configuration), *pkg* (add-friend clients extract their
round keys), *mix* (clients send one onion, real or cover), and when the mixnet
is done *mailbox* or *error*. Each message is handled by the client in a
goroutine of its own, and rounds overlap: the next one is announced while the
last is in the mixnet.

What makes this hard to get right, and hard to test:

* **Interleaving.** A client's handlers for several rounds run beside each
  other and beside the application's calls. The client's mutex is released in
  the middle of `sendAddFriendOnion`, `decodeAddFriendMessage`, `Call`,
  `computeKeys` and `scanBloomFilter`; the keywheel has another mutex, which
  two of its readers release too early.
* **Crashes.** The client's state is in two files that are not written
  together, and onions leave before anything is saved. The coordinator saves
  one number. The CDN's uploaders are not saved.
* **Ordering.** Nothing orders the mailbox announcements of two rounds, yet the
  scan of a dialing round erases the keys of that round and of all before it.
* **Partial failure.** Any call of the coordinator may fail after others of the
  round have succeeded; a client may miss a round; an onion may come too late; a
  process may die with a key file half-written.
* **Formats and versions.** A signed configuration is written and read at each of five
  hops, in the format of its inner version, and what was signed is hashed again after
  each. The TOML reader is a hand-written lexer under a generated grammar.

`PROJECT.json` lists the hazards, each at its line with the properties
that would catch it, and every component with what is modelled of it.

## 2. The modules

| Module | Models | State and actions |
|---|---|---|
| `Keywheel` | `keywheel/keywheel.go` | `secrets` is the map, `disk` the file. Locked operations are single actions. `SessionKey` and `OutgoingDialToken` are readers with a program counter that load the two fields one at a time. A secret is its seed and the sequence of rounds it was hashed with. |
| `AddFriend` | `addfriend.go`, `friendrequest.go`, `persist.go`, `Friend.Remove` | queues, address book and wheel in memory and in the two files; handlers are tasks with a program counter whose steps are the code's critical sections; a key pair is owner, peer, dialing round and a number, a shared key the set of two key pairs. |
| `Dialing` | `dialing.go`, calls of `friend.go` | wheel and its file, the queue, the call objects; the steps of `sendDialingOnion`, `computeKeys` and `scanBloomFilter`. A keywheel entry is a seed and a round: `Keywheel` shows that these determine the secret. |
| `CDN` | `cdn/cdn.go` | uploaders, stored mailboxes, the Expires index and a clock |
| `Coordinator` | `coordinator/server.go`, `persist.go`, composed with `CDN` | the loop with one value of `pc` per call or wait, `runRound` as a set of waiting rounds, the mixnet as calls that succeed or fail |
| `Hub` | `typesocket/hub.go`, `client.go`, and how the coordinator uses them | a connection is a record: stage of its handler, queue, closed flag, channel, writer, websocket. `Hub.mu` and the connections' mutexes are explicit. Two goroutines broadcast: the loop and `runRound`. |
| `Mixnet` | `mixnet/mixnet.go`, the two `mixer.go` | one round: per server the round state (settings, opened onions, jobs, closed, noise), per caller (the coordinator is caller 0, server i calls server i+1) where its call is. Onions are symbolic: who made them, how deep they open, what they carry. |
| `MixRound` | | what a round promises the coordinator; `Mixnet` is shown to implement it |
| `PKG` | `pkg/server.go`, `register.go`, `extract.go` | per server the rounds with their keys, the users and their log; the coordinator's calls with handlers that go on when a call is given up; registrations as transactions that read, then commit or conflict |
| `ConfigChain` | `config/`, the new-config tool, the client's use | the server's configurations and current one in memory and in its file, the clients' current one, announcements under way, a clock for creation and expiry; a configuration is its predecessor, its guardians and its dates; guardians sign copies of their own, so that one configuration exists with several sets of signatures |
| `ConfigFile` | the document: `config/config.go` and the guardians' tools | the file as text, the server's configurations, the client's; new-config, an edit, sign-config, upload and fetch, each with the marshalling and unmarshalling it does, in the format of the versions. A hash is what is hashed, a signature is key and message. |
| `Handshake` | `intro.go`, `keywheel_seed.go`, the parts of `hybrid/`, `pqsig/`, `pqkem/` they use | the introductions of two sides, which may be taken apart and put together again; `Derive` is both halves of the seed. Keys, ciphertexts and signatures are records of what they were made from. |
| `Identity` | `hybrid/identity_file.go`, `neverlur-guardian-keygen` | the files of a host and its processes; opening and writing a file are separate steps, and a process may die between any two |
| `AddFriendProofs`, `DialingProofs`, `CoordinatorProofs`, `MixnetProofs`, `PKGProofs`, `HubProofs` | | theorems about the module that each is named for |
| `KeyMaterialProofs` | | theorems about `Keywheel`, `Handshake` and `Identity` |
| `ConfigChainProofs` | | theorems about `ConfigChain` and `ConfigFile` |
| `TomlDocument` | | what a document means, said of the sequence of its items: grammar, literals, the tree of tables |
| `Toml` | `encoding/toml/`: `lexer.go`, `parser.go`, the actions of `parser.y` | the lexer's state functions by symbol, goyacc's tables and loop, and the channel where they meet |
| `MCAddFriend`, `MCDialing`, `MCCoordinator`, `MCHub`, `MCMixnet`, `MCConfigChain`, `MCConfigFile` | | the instances for TLC |
| `MCKeys`, `MCDocuments` | | instances of several modules: `Keywheel`, `Handshake`, `Identity` and `PKG`; `Toml` and `ConfigFile` |

`Coordinator` extends `CDN` and conjoins its actions: `PrepCDN` is the loop's
step and the CDN's `NewBucket`, `Upload` is the mixnet's and the CDN's `Put`.
`AddFriend` and `Dialing` see the servers as a round service: a round opens,
stops taking onions when the next one opens, and is published or fails. This is
the interface that `Coordinator` implements: its *mix* opens the round,
*mailbox* publishes it, *error* fails it, and an onion that comes after the cut
is lost to its round. In the same way `Coordinator` sees a mixnet that handles a
batch or fails: this is `MixRound`, and `Mixnet!KeepsPromise` is the refinement, with
the caller's state, the batch and what the last server handled as the mapping; it is
proved for chains of any length.

`MCKeys` and `MCDocuments` compose nothing: their modules share no state, and are checked
one at a time. A behaviour is a behaviour of one of them, while the others stay at their
initial state. `ConfigChain` and `ConfigFile` see the same code from two sides: the first
has the times, failures and restarts, the second the document and its bytes.

Conventions. A step that the code makes under one lock is one action. A
handler that returns early and changes nothing is no action. Definitions whose
comment begins with "Mutant of" are deliberate bugs: each is named in
`PROJECT.json` with the property that must notice it. Cryptography is symbolic
throughout.

## 3. The runs

Every passing run explores its instance completely.

| Run | Question | Instance |
|---|---|---|
| `keys` | *Keywheel.* Do keys depend only on what was Put? Do erased keys stay erased, through saves and restarts? Are reads exact that no erasure overlaps? Is the closed form of `getSecret` what the loop computes? *Handshake.* Do both sides derive the same seed, from introductions that are whole? *Key files.* Is a key that was reported written or was used still there, and the same, whatever dies? *PKG.* Are the keys of a round in use there, and those of its settings, and older ones gone? Does a name have one owner? | 2 users, 2 secrets, 3 rounds that wrap, 1 reader; 2 sides with 2 introductions each, 2 dialing rounds; 3 processes, 2 generated keys; 2 PKG servers, 3 rounds, 2 clients that want one name, 1 failed call or restart |
| `addfriend` | Do both sides get the same key? Does a friend have a key? Is every matching pair confirmed? | Alice asks Bob; 4 rounds, 3 dialing rounds, 1 failure, 1 save by another handler, removals; handlers of one client do not overlap |
| `addfriend_three` | Does a key come from one request of each of the two, for one dialing round? Is nobody a friend without consent? Is no request lost while the process lives? | Alice asks Bob and Carol at once; all handlers overlap; 1 crash or panic |
| `dialing` | Was every received call made? Are keys kept until the round's calls are received, and gone afterwards, also on disk? | 1 call, 2 rounds one after the other, 2 secrets per pair, removal, 1 crash, 1 failure of any kind |
| `dialing_overlap` | Do caller and called get the same session key? Does the onion carry the token of that key although handler and application compute it twice? | 1 call, 2 intents, 2 overlapping rounds, SessionKey and UpdateIntent at any time, 1 crash |
| `dialing_live` | Is every queued call received? | 2 calls, 3 rounds, fairness |
| `coordinator` | Are round numbers never used twice? Is what was accepted in time served? Are mailboxes kept for their time? Is every mix announcement answered? | 2 overlapping rounds, 2 configurations, 1 crash, 1 failure or restart of the CDN, fairness |
| `hub` | Does no goroutine send on or close a closed channel? Does a client get every broadcast, and, whenever it connects, the latest announcements? Do broadcasts end, and are dead connections released? | 1 connection, queue of 2, 2 rounds with up to 6 broadcasts by two goroutines, 1 refused onion, 1 broken connection, fairness |
| `mixnet` | Is a batch handled at most once, exactly, and with all servers' noise? Do replies go to their senders? Does a round end, and is it forgotten? | 2 servers, batches of up to 2 onions with a duplicate, an undecryptable one and none, 1 noise message per server, services with and without replies, 1 failed call or restart, fairness |
| `config` | Does a client only follow its chain of trust, and forward? Do the saved chains never fork? Does a client reach what stays current? | 2 guardians, 3 configurations with copies signed by any of them, 3 times, 1 client, 1 failure, restart or intervention, fairness |
| `documents` | *TOML.* Is the map what the document says, and a malformed one refused? Does Unmarshal return? *Configurations.* Is what a client uses, to the last field, what its guardians have signed? Is what they all have signed accepted by the server and by its clients? | any 3 of 16 symbols after each of 12 beginnings, fairness; 2 guardians, 2 registrars, a chain of 3, 1 edit of a file |
| `config_second_key` | violation, see section 6 | a guardian stays and its second key changes |

Four more configurations reproduce counterexamples of section 6: `MCAddFriendTornSave.cfg`
(`FriendHasKey`), `MCAddFriendKeyMismatch.cfg` (`KeysAgree`) and `MCAddFriendStranded.cfg`
(`NoStrandedPair`) with `MCAddFriend`, and `MCDialingMissed.cfg` (`NoMissedCall`) with `MCDialing`.

### Bounds, and why they are enough

All bounds are CONSTANTS with "bound" in their comment, and appear in guards.

* *Rounds.* A friend request needs two add-friend rounds, one each way; the
  third and fourth let one fail, be missed, or overlap the answer. A call needs
  one dialing round; the second is what overlaps it or erases its keys; the third
  in `dialing_live` is for the second call. The coordinator's properties are about
  a round and the next one, or about a round before and after a restart.
* *Clients.* The protocols are between two users. The third, in
  `addfriend_three`, is the one an answer could be attributed to by mistake.
* *Crashes, failures, saves.* One of each: the properties compare a state with
  what one interruption leaves. A failure counts whatever fails: a round, a
  client that is not ready, an onion that is late, a mailbox that cannot be
  fetched or decoded.
* *Rounds of the keywheel* are counted modulo `RoundLimit` (2^32 in the code), so
  that the wrap happens within the instance.
* The CDN's clock has two values with a time to live of one: before and at the
  expiry.
* *Servers.* Two mixers are a first and a last one; every step of the chain is between
  neighbours. Two PKG servers can commit and reveal in any order, and one can fail
  when the other has not. The PKG keeps two rounds, so that a third one prunes.
* *The hub's queue* of 2 holds just what `onConnect` sends; the six broadcasts overflow
  it at any point of a connection's life. One connection is enough: a connection
  shares only `Hub.mu` with the others, and the two goroutines that broadcast compete
  for that as others would.
* *Configurations.* Three make a chain with a link the client has not seen, and a fork. In
  `documents` the third is the successor of one that was accepted, which is what tells
  whether a configuration can be continued from.
* *Introductions.* Two of each side are what can be mixed up; the dialing rounds are what
  tells which two belong together.
* *Key files.* Three processes: one that writes, one that finds the file half-written and
  one that comes after both. Two generated keys and the older one can be confused.
* *Documents.* Errors of a lexer and of an LR parser show in a short tail, provided that
  what comes before has brought them into every state. That is what the beginnings are
  for: inside a value, an array, a name, a string, a number or a comment, and after tables
  that the next name may collide with. Symbols are representatives of the classes of
  characters that the code distinguishes.

`Overlap` and `Punctual` are not bounds: they choose whether handlers of one
client, or of consecutive rounds, run beside each other. The passing runs that
exclude overlap do so because the code does not keep the property otherwise;
section 6 shows the counterexamples.

`CHECK_DEADLOCK FALSE` in all runs: at the bounds there is nothing left to do,
and an application may stop calling.

### Fairness

`Dialing!FairSpec` gives weak fairness to the goroutines that were started (the
send and scan handlers and the application's `SessionKey`, one condition per
client and kind) and to the round service: the coordinator's loop opens the next
round and the mixnet answers. It gives none to the application and none to
failures. Goroutines are scheduled by Go, and the loop only sleeps for finite
times. `dialing_live` has no failures or crashes and rounds that wait for
handlers (`Punctual`): with them a call may be lost for good, because the code
neither retries nor saves it.

`Coordinator!FairSpec` gives weak fairness to the loop (its sleeps end and its
calls return) and to each `runRound` together with the mixnet's answer. The code
waits without a time limit (`context.Background()`), so this assumes that the
servers answer, if only with an error. `MixAnswered` holds until the
coordinator dies or is closed.

`Hub!FairSpec` gives weak fairness to the broadcasting goroutines, to the handler and to
the writer of each connection. A write ends within `writeWait`, well or badly, and
nothing is assumed of clients. Go hands a mutex to whoever waits long enough; in the
instance it is taken finitely often, so that weak fairness is the same.

`Mixnet!FairSpec`: goroutines run and calls return, if only with an error.
`DocumentsSpec` gives weak fairness to the lexer, to the parser, two goroutines that Go
schedules, and to `Reveal`, which only says that a document ends.
`ConfigChain!FairSpec`: the coordinator keeps announcing rounds and a connected client
handles what it hears; `Converges` is about a configuration that stays current, with a
server that keeps what it has accepted.

## 4. What is proved

TLAPS checks these for all values of the constants, under the named
assumptions of the modules (the bounds are numbers, `RoundLimit` is not 0, `Nil`
is no secret, no request, no token, no message and no goroutine). Some theorems have a hypothesis of their own,
given with them below.

**AddFriendProofs.** `TypeCorrect`, `KeysAreMutual`, `FriendsConsented`, `RequestsAreConserved`
and `FriendsHaveKeys`: any number of clients, requests, rounds, failures and crashes, and
handlers that overlap. `KeyIsMutual` is about the wheels and their files; what makes it true is in
the queues, with the handlers, on the wire and in the client files. `InOrder` therefore says the
same of every place a client has: a request that it received is from its maker, for this client
and of its round (`ReceivedBy`), one that it sent is for its friend (`SentBy`), and a handler that
is about to confirm holds two that match. A restart brings back what was saved, so that the
client file is in order too (`Memories`). `Consent` needs that who confirms has approved.
Approvals and confirmations are histories that only grow, and so do the sets of what a queue
may hold (`SetsGrow`), which is why the steps of other clients do no harm. `Counted` is for
`RequestConserved`: what was asked is what is queued and what is known otherwise, with a handler,
in the sent queue or confirmed. A handler that only has to save has left its request where it is
found, and key pairs are numbered below `nonce`, so that a new one is not taken for an old.
It holds until a process ends. So does `FriendsHaveKeys`, whose hypothesis is that nobody is
removed (`Removers = {}`): `Remove` between the two halves of `newFriend` would take the new key
along with the old friend.

`NoPairIsStranded` assumes that a client's send handler and mailbox handler do not overlap
(`~Overlap`); without that it is false (section 6). Crossing requests, failed rounds and crashes do
not matter. `NoStrandedPair` looks at a client at rest. `PairsMeet` says how it gets there: in the
queues, and in the client file, which a restart brings back, no received request matches a sent
one; only one kind of handler is running; and a handler that is about to append its request has
looked through the other queue, where nothing matching can have come since.

`FriendsAgree` assumes the same, and that of two users at most one asks the other, once
(`OneAsks`). It holds until a process ends. All three are needed: TLC finds different keys when
requests cross, when two handlers of a client overlap, and when a client crashes between an onion and
the next save, after which it sends the same request with a new key pair. `KeysAgree` speaks of
two wheels, in each of which a key may be put twice, one side may be ahead of the other, or have
removed the friend. `OneRequestEach` says why the two entries come from the same pair of requests. `AskedOnce`:
a client knows of at most one request of its own for each user, and who has a request to make
never confirms, since nobody confirms what was not approved, and approving needs a request. `OnionsOnce`
and `DecodedOnce`: an introduction is in one round only and decoded once. `Received`: what the
application is shown came from someone whom the client was not to ask. The step that needs the rest is
`AnswerMatches`: the answer to a client's own request finds it waiting, and is never shown to the
application as a new request. Otherwise the application could approve it, and make a second key.

**DialingProofs.** `TypeCorrect`, `ForwardSecrecy`, `TokensMatchCalls`, `ReceivedCallsWereMade`,
`KeysAgree` and `NoCallIsMissed`: any number of clients, calls, secrets, rounds and crashes.
`IInv` has three parts that matter. `ErasedForGood`: the entries of wheel and file, and the secrets
still to be put, are past what a scan has erased and saved. `CallsAreSentOnce`: what a handler read
of a call is what the call holds or was computed from it, and a call has one send handler.
`TokensWereSent`: the tokens of a round, and so the hits of a scan, were kept with a call.
`KeysAgree` assumes one secret for each pair (`MaxSeed = 1`), because `computeKeys` reads token
and key in two steps and a new secret may come between them (section 6). `NoCallIsMissed` assumes
rounds that do not overlap (`Punctual`), because of the missed call of section 6. It needs a
second invariant, `ScansAreComplete`: a key that is gone was erased by the scan of its round,
which had found the calls of every friend in the wheel before, and an entry that is not where its
secret began is past a round that was scanned.

**CoordinatorProofs.** `TypeCorrect`, `RoundsAreFresh`, `BucketsAreNew`, `AcceptedIsServed` and
`MailboxesAreKept`: any number of rounds, clients, failures, crashes and restarts of the CDN. `IInv`
has two parts. `NumbersArePast`: what was announced, prepared at the CDN or given to
the mixnet has a number that is saved, and as long as the loop has not got to
the same point of its own round, a smaller one. This is what makes the crash
case work: the loop resumes from the saved number. `OnionsAreKept`: the CDN holds
what the mixnet got; the mixnet got what was accepted before the cut; and while the
round is open that is in `onions`. It needs that no onion is accepted before the
round's mix settings are out, and so the first part. `MailboxesAreKept` adds `MailboxesStay`: a
round is put once, its entries in the Expires index fall due no sooner than the mailboxes may
go, and an entry deletes its round and those whose number begins with that round's.

**MixnetProofs.** `TypeCorrect`, `NoiseHides`, `RepliesFindSenders` and `MixnetIsMixRound`: chains
of any length, any batches, any noise and any number of failed calls and restarts. The properties speak
of what comes out at the two ends; `IInv` says what every server on the way contributes.
`InOrder`: the round goes down the chain once, so that a server which gets onions is not
heard of by those behind it. `Added`: an onion that was sent is with a worker or opened in its
place, also while streams of the same batch fail. `NoiseFits`: no server goes on before its noise is
made. `Carried`: each server sends what is left of the batch (`Left`, what opens at all servers up to it)
with the noise of all of them, each request once; dummies may be dropped as duplicates of each
other. At the last server that is what `MixRound` promises. `Routed`: `incomingIndex` and the
permutation lead from every position that a server got to the place where the onion went, if
it is the first of its kind, and no two of a kind lead anywhere. So a reply that is unshuffled
and put at its index answers the onion that came from there (`Answers`), server by server back to the coordinator. What
the arguments rest on is `KeyTells`: the eight bytes that `filterIncoming` compares belong to one onion.
This is `BatchAssumption`; the bytes are random in the code, which does not exclude a collision.
`MixnetIsMixRound` maps every step: `RunRound` is `Start`, `HandleMessages` is `Handle`, the
coordinator's last call is `Succeed` or `GiveUp`, and all others leave what the coordinator sees.

**ConfigChainProofs.** `TrustRollsForward`, `ChainsDoNotPart` and `ClientsGoForward`: any number
of guardians, configurations, clients, failed saves and interventions. `Ancestors` is the least
set that is closed under the link to the configuration before; `Links` says that links go back
in time, from which the ancestors of a configuration are itself and those of the one it names.
`Stores`: what server and file know exists, with signatures that were made. The proof of a
client's step follows the chain that the server sends: `FetchAndVerifyChain` compares each
configuration with the next only, yet all of them are linked and agreed. `Saved` is `NoFork` with
the file and the announcements in it, since a restart makes the one current and a client
follows the others however late.

Of `ConfigFile`, `WhatIsUsedWasSigned` and `WhatIsSignedIsAccepted`: any guardians and registrars,
any number of configurations and edits, in both versions and services. The first half is about the formats.
`InnerFormats` says that what is written of an inner configuration is read again as it was, if it
holds nothing that its version cannot say (`InnerConf`); `MarshalFacts` and `UnmarshalFacts` lift
this to the document, and to the message that is hashed and signed. The second half is `FileInv`. `ChainKept`: each
configuration of the server has that form and was verified for the one before. `FileKept`: the file
names the configuration that it was made of by its hash, every signature in it was made of a text that
the guardian had in front of it, and those since the last edit are of the file as it is. `SignersKept` follows
from this when the file is uploaded (`LinkIsSigned`). A client that is behind is sent a chain that
begins after what it has (`ChainBegins`), and a link verifies for any configuration with the same
hash (`SameHash`). That hashes differ along the chain is not needed: the latest fit is taken.

**PKGProofs.** `TypeCorrect`, `KeysAreKept` and `NamesHaveOneOwner`: any number of servers,
rounds, clients, failed calls and restarts. `RoundKeysKept` is about the keys at rest;
what could spoil it is under way. So `IInv` has `HandlersEnd`: a commit that is still running
is of the round in work or of one that was given up, and no commit of a round runs
beside its reveal, since the coordinator waits for all answers before. `RevealedIsKept`: what a server has
revealed for a round it has until the round is pruned or it restarts, while the others
still answer as well as after the announcement. Pruning keeps what `announced` needs because no
handler commits a round beyond the one in work. `NamesAreOwned` ties the users to their logs and every
extraction to the registration that allowed it.

**HubProofs.** `NobodyPanics` and `ServedMissNothing`: any number of connections, rounds, replies
and broken connections, and queues of any length. `NothingIsMissed` compares what a client has read
and what waits in its queue with the log; it is not inductive, because it does not say for whom the
broadcast in work still is. `IInv` does: `OneBroadcasts`, that who broadcasts holds
`Hub.mu`, that its message is the last of the log and that those it still has to visit are in the
hub; `ConnFits`, that the hub knows a connection from its registration until it is closed, so that
the next broadcast will find it; `GivenOf`, that a connection was given the broadcasts since
it was registered, all but one if one is on its way, and that its client has read a prefix of
them; `OnTheWay`, that a latest announcement, from the moment it is kept, is with a goroutine that
will broadcast it, still to be read by `onConnect`, among what `onConnect` is sending, or given.
The order of the two in the source, keep and then broadcast, register and then read, makes it so.
`NoPanic` needs that a channel is closed exactly when the flag is set, and that no one sends or
closes without having looked at it under the connection's lock.

**KeyMaterialProofs.** Of `Keywheel`, `TypeCorrect`, `KeysAreDetermined`, `KeysAreErased` and
`UnracedReadsAreExact`: any number of users, readers and rounds. The properties are
not inductive: that a key is right tomorrow needs to know how the entry came to be.
`IInv` says that each entry of the wheel, *and of the file*, because a restart
makes it the wheel, is exactly as far along as its round says (`Exact`: the seed
hashed with the rounds from its Put on, once and in order) and is past what was
erased; and that a reader which no erasure overlapped holds fields of one such
entry, whether or not Remove or Put has taken that entry out of the map. The core is `ChainConcat`: ratcheting in
two stretches is ratcheting in one. `EraseExact` lifts it to `EraseKeys`, with the
wrap of `round + 1`. `ClosedFormIsTheLoop` ties the model to the source: `getSecret`, which
the modules have in closed form, is the loop of the code, on torn reads too.

Of `Handshake`, `SeedsAreTheSame` and `IntrosAreWhole`: any number of introductions and
dialing rounds. `SeedsIInv` says of every seed which introduction of each side it was derived from. `SeedOfHalves` writes it as
two halves, each of which both sides can make: what one encapsulated the other decapsulates.
`OneOrder` says that `canonicalAlpha` brings them into one order, and `SeedTellsKeys` that no
other pair of introductions leads to the same seed. `IntrosAreWhole` rests on `SignatureFixes`:
a signature that verifies is of one message, which holds every field. Two long-term keys are
taken to differ, and hashes and ciphertexts to have no collisions.

Of `Identity`, `FilesTypeCorrect` and `IdentitiesAreKept`: any number of processes, each of
which may die anywhere. `FilesIInv` says that a file that is being written is torn and has one
writer (`WrittenOnce`); that the writers keep apart: one keygen at a time, whose files were
not there, and upgrades, which only write the identity file of an older installation
(`WritersAreApart`); and that whole files are exactly those reported (`WholeIsKept`). That all
files of a new installation hold one key needs the order in which keygen opens them: the public key comes
first, so that a keygen that died half way is noticed by the next one (`OneKey`).

Loops that the modules have as recursive functions, as `getSecret`, `newFriend`,
`getChainHandler` and the properties of `Hub` do, are reasoned about through the least number at which a claim fails (`Least`).

Only model-checked:

* the liveness properties (`CallDelivered`, `MixAnswered`, `RoundEnds`, `Converges`,
  `NothingIsHeldUp`, `ParseReturns`), which are out of TLAPS' reach;
* `ParseIsExact`, which compares two recursive definitions: an induction over the text.

## 5. The properties that matter

* Keywheel: two friends derive the same keys at whatever pace each erases, saves and
  restarts (`KeyDetermined`); erased is erased (`ForwardSecrecy`).
* Add-friend: a key is mutual (`KeyIsMutual`) and agreed (`KeysAgree`); friends are made
  by consent (`Consent`); requests are neither lost nor doubled
  (`RequestConserved`); confirmed friends can be called (`FriendHasKey`); nobody waits
  for an answer that has come (`NoStrandedPair`).
* Dialing: calls are neither invented (`NoGhostCall`) nor overlooked (`NoMissedCall`);
  keys agree (`SessionKeysAgree`) and match what was sent (`TokenMatchesCall`); erasure reaches the disk (`ForwardSecret`); calls arrive
  (`CallDelivered`).
* Coordinator and CDN: numbers are fresh (`RoundIsFresh`), accepted
  onions are served (`OnTimeIsServed`, `MailboxIsKept`), clients are answered
  (`MixAnswered`).
* Hub: announcements are complete, also for those who connect in the middle of one
  (`NothingIsMissed`); no client can crash the coordinator (`NoPanic`), stop a broadcast or
  stay in the hub when it is gone (`NothingIsHeldUp`).
* Mixnet: the batch is handled at most once, each message exactly once and otherwise only
  noise, and success is only reported then (`KeepsPromise`); everyone's noise is in it
  (`NoiseIsIncluded`); replies find their senders through shuffling, dropped and repeated
  onions (`RepliesMatch`); the round ends whatever fails, and its keys are
  deleted after a success (`RoundEnds`).
* PKG: an announced round can be extracted from with the keys of its settings
  until the next but one, when its keys are gone (`RoundKeysKept`); a name has one owner
  (`OneOwner`).
* Handshake: the two seeds agree whenever both sides use the same two introductions
  (`SeedsAgree`), and each of those is what its owner signed for this peer, all of it
  (`IntroIsWhole`).
* Key files: a key that was reported written, or was loaded, is the one that is there
  (`IdentityIsKept`).
* Configuration: every configuration a client takes is signed by the guardians of the one
  before, all the way from its first (`ChainOfTrust`), it never goes back (`OnlyForward`), and
  saved chains do not part (`NoFork`); it gets to what stays current (`Converges`).
  Through all formats it is used as it was signed (`UsedAsSigned`), and no format makes a
  signature worthless (`SignedIsAccepted`).
* TOML: a document means what its items say or is an error (`ParseIsExact`), and is
  answered in any case (`ParseReturns`).

## 6. Where the code and its documentation disagree

Shown by a run (`findings` in `PROJECT.json` quotes the lines):

* `config_second_key`: `VerifyConfigChain` skips a guardian of the new configuration that it
  has verified for the one before (`config/config.go:138-141`), by its Ed25519 key alone.
  If the new list has another ML-DSA key for that guardian, the server accepts a
  configuration without a signature of that key. `Verify` then refuses it wherever it is
  fetched: clients, the coordinator, and the tool that would make the next one, until
  the operator sets another. `docs/wire-signed-config-v2.md:94-96` and `:105` want every
  guardian of both lists to have signed.

Counterexamples that TLC gives for the configurations at the end of the table of section 3:

* Torn save: the handlers that confirm a friend save the client file and not the keywheel
  file, and delete the key pairs. After a crash the friend cannot be called, and the
  keywheel cannot be recreated from the client's state, which `client.go:82` relies on.
* Key mismatch: requests are matched by user and dialing round alone. Two users who ask
  each other and also approve what they receive have two requests each in play, and may
  combine different ones.
* Stranded pair: the handler that sends and the one that receives each look for the
  other's request before they queue their own.
* Missed call: mailboxes of two rounds are announced by goroutines of their own, and the
  scan of round r+1 erases what the scan of round r still needs.

Seen while modelling, in the models or in the source:

* Keywheel and calls. `SessionKey` and `OutgoingDialToken` of the keywheel read an entry that
  `EraseKeys` may be rewriting (`raced` readers in `Keywheel`: a wrong key, or a panic), hence
  the exception in `UnracedReadIsExact`. `computeKeys` reads token and session key in two
  steps, so that an erasure in between gives a nil key and a new secret a key that does
  not belong to the token (hence one secret in `dialing_overlap`). `UpdateIntent`
  succeeds while `computeKeys` uses the old intent. `Remove` between the halves of `Call`
  leaves a call whose token is nil (`SendPanics`). A mailbox that does not decode is
  scanned as the zero filter, which contains everything (the exception in
  `NoGhostCall`).
* Friend requests. `Cancel` of the request that `Approve` made dereferences nil
  (`CancelPanics`). A crash after the onion left and before the save sends a request
  again with another key pair, and one between dequeuing and recording loses it
  (`RequestConserved` is claimed without crashes only). `ExpectedKey` is never compared
  (`client.go:43`, `UnexpectedSigningKey`).
* Coordinator, CDN and hub. A late onion is put into the batch of the next round. Expiry
  deletes by decimal prefix, round 10 with round 1: the exception in `MailboxIsKept`. When
  `onConnect` fails, `ServeHTTP` returns without closing the websocket: the stage `failed`
  with an open socket in `Hub`, until the client gives up.
* Mixnet. After a failure nobody tells the servers beyond it to delete the round, and a
  failed round with replies is not deleted at all: their onion keys stay in memory
  (`RoundEnds` claims forgetting after success only). `CloseRound` does not look again
  whether the round is closed after it has waited.
* PKG. `appendLog` unmarshals a log without stripping its version byte, which would refuse a
  user's second event; today there is only one. A name can be registered by one user at one
  PKG server and by another at the next.
* Configuration. The server changes its memory before it saves, so that a failed save and a
  restart leave clients on a configuration the server has forgotten (the exception in
  `NoFork`). A client rejects the round of an older configuration when announcements arrive
  out of order. Once the current configuration has expired, the tool that makes the next one
  refuses to. `SetCurrentConfig` does not look at the chain.
  The first version of the add-friend configuration has no place for the registrar's key and
  drops it silently. `Validate` accepts an inner version of which `SigningMessage` panics. The
  sign tool does not compare the guardian's second key with the list. New-config takes the
  hash of its predecessor before it changes it to the latest version, which is the only
  right order (`RenewedTooSoon` is the mutant that has the other).
* Handshake. `docs/wire-introduction-v2.md:94` orders the two sides by user name, the code by
  their ML-KEM keys; the two interoperate with themselves only. The servers' attestation
  covers the Ed25519 key and neither of the others.
* Key files. A torn identity file blocks every later load, although the older file it was
  made from is still there. Of two processes that upgrade at once, the loser gets the error
  of the exclusive open rather than the identity, and a reader may meet the other's file
  half-written. A keygen that dies between the public and the private key leaves files that
  the next one refuses to overwrite. Two that run at once might mix their keys; the model
  has one at a time. Nothing calls fsync.
* TOML. A NUL where a value belongs ends the document without an error, and between entries
  with one. A key hides a table of the same name without an error, and the second of two
  equal keys the first. A second entry on the same line is accepted; empty arrays, arrays
  over several lines (`arrayDepth` is written and never read) and `1e5` are refused. A lexical
  error reaches the parser as the end of the document, so that `yyParse` may succeed and only
  `lexer.err` tells. After an error the lexer's goroutine waits for a reader for ever.

## 7. What is not modelled, and the plan

Not modelled:

* A client's connections: bootstrapping its configuration, reconnecting, events to the
  application; the client's side of the PKG protocol beyond ready or not.
* Bits: the Bloom filter is the set of what was put in, without false positives; onions,
  boxes, keys and their packing are symbolic. Cryptographic guarantees are assumed. How
  likely traffic analysis succeeds is not a question for a model checker.
* Errors of the file system at clients; power failures.
* Of the TOML package, `decode.go`, which copies a map into a Go structure by reflection.
* TLS and HTTP (`edtls`, `edhttp`), logging, the flags and wiring of the commands, test doubles,
  generated encoders: no protocol state.

The order of the work so far: the keywheel and the add-friend and dialing protocols
first, because they are what the program is for; then the round, from the coordinator and
the CDN down to the mixnet and the PKG servers; then what everything else stands on, the
configuration and the hub; last the documents and keys that these are made of: the TOML
reader, the formats of configurations, the key files and the hybrid handshake.

Next, in this order:

1. `Friendship`, an abstract specification of what add-friend promises two users, and
   `AddFriend` shown to implement it where it does.
2. The composition of `Coordinator` and `Mixnet`: `Upload` and `MixFails` derived from
   `MixRound`, and the round service that the clients assume derived from `Coordinator`.
3. Connecting again: the application's loop around `ConnectAddFriend` and `ConnectDialing`, the
   announcements that are missed meanwhile, and the two that `onConnect` repeats.
