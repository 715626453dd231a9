------------------------------ MODULE Keywheel ------------------------------
(***************************************************************************)
(* The keywheel of one client (keywheel/keywheel.go): for every friend a   *)
(* secret that belongs to one dialing round and that is ratcheted forward, *)
(* never back.                                                             *)
(*                                                                         *)
(* Secrets are symbolic: hash1 is one-way and collision free, so a secret  *)
(* is the seed it started from and the rounds it was hashed with, in       *)
(* order.                                                                  *)
(*                                                                         *)
(* Put, Remove, EraseKeys, IncomingDialTokens and MarshalBinary hold the   *)
(* wheel's mutex from beginning to end and are single steps.  SessionKey   *)
(* and OutgoingDialToken take it only to fetch a *roundSecret and read the *)
(* fields of what it points at afterwards, while EraseKeys may be writing  *)
(* them: they are Readers with a program counter, and the two field loads  *)
(* happen in either order, which gives every mixture of old and new values *)
(* that EraseKeys' two stores can show.                                    *)
(***************************************************************************)
EXTENDS Naturals, Sequences

CONSTANTS
    Users,       \* usernames, the keys of the map
    Seeds,       \* initial secrets; every Put brings a fresh one
    Readers,     \* goroutines inside SessionKey or OutgoingDialToken
    RoundLimit,  \* rounds are uint32: 0 .. RoundLimit - 1, and they wrap
    Nil          \* the nil *[32]byte

Rounds == 0 .. RoundLimit - 1

Secret == [seed : Seeds, chain : Seq(Rounds)]

roundSecret == [Round : Rounds, Secret : Secret]

ASSUME RoundLimitAssumption == RoundLimit \in Nat \ {0}
ASSUME NilAssumption == Nil \notin Secret \cup roundSecret \cup Rounds

VARIABLES
    secrets,   \* the wheel's map, a partial function from Users
    disk,      \* the keywheel file: what MarshalBinary last produced
    readers,   \* the state of every reader
    putAt,     \* history: the round each seed was Put for
    gone,      \* history: EraseKeys has erased the rounds below gone[seed]
    diskGone   \* history: the same for what the file holds

vars == <<secrets, disk, readers, putAt, gone, diskGone>>
-----------------------------------------------------------------------------
(***************************************************************************)
(* The ratchet.                                                            *)
(***************************************************************************)

\* hash1: one turn of the wheel.
hash1(s, r) == [s EXCEPT !.chain = Append(@, r)]

\* Mutant of Chain: the loop hashes with the target round too (r <= round).
ChainPastEnd(p, q) == [i \in 1 .. (IF q > p THEN (q - p) + 1 ELSE 0) |-> p + i - 1]

\* The rounds that the loop of getSecret hashes with, from p up to q - 1.
Chain(p, q) == [i \in 1 .. (q - p) |-> p + i - 1]

\* getSecret: nil for a round that is already past.
getSecret(rs, round) ==
    IF rs.Round > round
    THEN Nil
    ELSE [seed  |-> rs.Secret.seed,
          chain |-> rs.Secret.chain \o Chain(rs.Round, round)]

\* Mutant of Erase: the round itself survives (newRound := round).
EraseKeepsRound(rs, round) ==
    IF rs.Round > round THEN rs
    ELSE [Round |-> round, Secret |-> getSecret(rs, round)]

\* Mutant of Erase: the round advances and the secret is not ratcheted.
EraseKeepsSecret(rs, round) ==
    IF rs.Round > round THEN rs ELSE [rs EXCEPT !.Round = (round + 1) % RoundLimit]

\* EraseKeys' effect on one entry; round + 1 is computed in uint32.
Erase(rs, round) ==
    LET newRound == (round + 1) % RoundLimit
        newSecret == getSecret(rs, newRound)
    IN  IF newSecret # Nil
        THEN [Round |-> newRound, Secret |-> newSecret]
        ELSE rs
-----------------------------------------------------------------------------
\* A reader: the call it executes, the struct its pointer led to if that struct
\* has left the map (Nil while it is still there), the fields it has copied so
\* far, and what it returned.
Idle ==
    [pc |-> "idle", user |-> Nil, round |-> 0, frozen |-> Nil, raced |-> FALSE,
     Round |-> Nil, Secret |-> Nil, result |-> Nil, panic |-> FALSE]

\* The struct a reader's pointer leads to.  Put and Remove take it out of the
\* map but not away from the reader, which keeps seeing it as it then was.
Deref(rd) == IF rd.frozen = Nil THEN secrets[rd.user] ELSE rd.frozen

\* The reader's struct is still in the map, where EraseKeys writes to it.
Live(rd) == rd.pc = "loading" /\ rd.frozen = Nil

\* What Put and Remove of u do to the readers that already fetched u's struct.
Detach(u) ==
    [t \in Readers |->
        IF Live(readers[t]) /\ readers[t].user = u
        THEN [readers[t] EXCEPT !.frozen = secrets[u]]
        ELSE readers[t]]

\* What EraseKeys does to a reader that already fetched a struct of the map.
Overlapped(rd) == IF Live(rd) THEN [rd EXCEPT !.raced = TRUE] ELSE rd

Init ==
    /\ secrets = << >>
    /\ disk = << >>
    /\ readers = [t \in Readers |-> Idle]
    /\ putAt = << >>
    /\ gone = << >>
    /\ diskGone = << >>

Put(username, round, seed) ==
    /\ seed \notin DOMAIN putAt
    /\ secrets' = [u \in DOMAIN secrets \cup {username} |->
                     IF u = username
                     THEN [Round |-> round, Secret |-> [seed |-> seed, chain |-> << >>]]
                     ELSE secrets[u]]
    /\ readers' = Detach(username)
    /\ putAt' = [s \in DOMAIN putAt \cup {seed} |-> IF s = seed THEN round ELSE putAt[s]]
    /\ gone' = [s \in DOMAIN gone \cup {seed} |-> IF s = seed THEN 0 ELSE gone[s]]
    /\ UNCHANGED <<disk, diskGone>>

Remove(username) ==
    /\ secrets' = [u \in DOMAIN secrets \ {username} |-> secrets[u]]
    /\ readers' = Detach(username)
    /\ UNCHANGED <<disk, putAt, gone, diskGone>>

EraseKeys(round) ==
    /\ secrets' = [u \in DOMAIN secrets |-> Erase(secrets[u], round)]
    /\ readers' = [t \in Readers |-> Overlapped(readers[t])]
    /\ gone' = [s \in DOMAIN gone |->
                   IF round + 1 \in Rounds /\ round + 1 > gone[s] THEN round + 1 ELSE gone[s]]
    /\ UNCHANGED <<disk, putAt, diskGone>>

\* MarshalBinary and the write of the keywheel file.
Persist ==
    /\ disk' = secrets
    /\ diskGone' = gone
    /\ UNCHANGED <<secrets, readers, putAt, gone>>

\* The process dies and UnmarshalBinary reads the file back.
Restart ==
    /\ secrets' = disk
    /\ gone' = diskGone
    /\ readers' = [t \in Readers |-> Idle]
    /\ UNCHANGED <<disk, putAt, diskGone>>
-----------------------------------------------------------------------------
(***************************************************************************)
(* SessionKey(username, round) and OutgoingDialToken(username, round, _).  *)
(***************************************************************************)

Fetched(username, round) ==
    [Idle EXCEPT !.pc = "loading", !.user = username, !.round = round]

\* Mutant of BeginRead: the test that the round is not past is missing.
BeginReadUnchecked(t, username, round) ==
    /\ readers[t].pc \in {"idle", "done"}
    /\ username \in DOMAIN secrets
    /\ readers' = [readers EXCEPT ![t] = Fetched(username, round)]
    /\ UNCHANGED <<secrets, disk, putAt, gone, diskGone>>

\* get, then the test that the round is not already past.
BeginRead(t, username, round) ==
    /\ readers[t].pc \in {"idle", "done"}
    /\ readers' = [readers EXCEPT ![t] =
            IF username \notin DOMAIN secrets \/ secrets[username].Round > round
            THEN [Idle EXCEPT !.pc = "done", !.round = round]
            ELSE Fetched(username, round)]
    /\ UNCHANGED <<secrets, disk, putAt, gone, diskGone>>

\* Copying the struct for getSecret's value receiver: each field is loaded on
\* its own.
LoadRound(t) ==
    /\ readers[t].pc = "loading"
    /\ readers[t].Round = Nil
    /\ readers' = [readers EXCEPT ![t].Round = Deref(readers[t]).Round]
    /\ UNCHANGED <<secrets, disk, putAt, gone, diskGone>>

LoadSecret(t) ==
    /\ readers[t].pc = "loading"
    /\ readers[t].Secret = Nil
    /\ readers' = [readers EXCEPT ![t].Secret = Deref(readers[t]).Secret]
    /\ UNCHANGED <<secrets, disk, putAt, gone, diskGone>>

\* The copy that getSecret works on.
Copied(rd) == [Round |-> rd.Round, Secret |-> rd.Secret]

\* getSecret on the copy; hashing a nil secret panics.
FinishRead(t) ==
    LET key == getSecret(Copied(readers[t]), readers[t].round)
    IN  /\ readers[t].pc = "loading"
        /\ readers[t].Round # Nil
        /\ readers[t].Secret # Nil
        /\ readers' = [readers EXCEPT ![t] =
                [Idle EXCEPT !.pc = "done", !.round = readers[t].round,
                             !.raced = readers[t].raced,
                             !.result = key, !.panic = (key = Nil)]]
        /\ UNCHANGED <<secrets, disk, putAt, gone, diskGone>>

Next ==
    \/ \E u \in Users, r \in Rounds, s \in Seeds : Put(u, r, s)
    \/ \E u \in Users : Remove(u)
    \/ \E r \in Rounds : EraseKeys(r)
    \/ Persist
    \/ Restart
    \/ \E t \in Readers, u \in Users, r \in Rounds : BeginRead(t, u, r)
    \/ \E t \in Readers : LoadRound(t) \/ LoadSecret(t) \/ FinishRead(t)

Spec == Init /\ [][Next]_vars
-----------------------------------------------------------------------------
(***************************************************************************)
(* Properties.                                                             *)
(***************************************************************************)

Reader ==
    [pc : {"idle", "loading", "done"}, user : Users \cup {Nil}, round : Rounds,
     frozen : roundSecret \cup {Nil}, raced : BOOLEAN,
     Round : Rounds \cup {Nil}, Secret : Secret \cup {Nil},
     result : Secret \cup {Nil}, panic : BOOLEAN]

\* Type correctness of the wheel, the file and the readers: in particular a
\* reader whose struct is still in the map finds it there.
TypeOK ==
    /\ DOMAIN secrets \subseteq Users
    /\ \A u \in DOMAIN secrets : secrets[u] \in roundSecret
    /\ DOMAIN disk \subseteq Users
    /\ \A u \in DOMAIN disk : disk[u] \in roundSecret
    /\ readers \in [Readers -> Reader]
    /\ \A t \in Readers : Live(readers[t]) => readers[t].user \in DOMAIN secrets
    /\ DOMAIN putAt \subseteq Seeds
    /\ \A s \in DOMAIN putAt : putAt[s] \in Rounds
    /\ \A s \in DOMAIN gone : gone[s] \in Rounds
    /\ \A s \in DOMAIN diskGone : diskGone[s] \in Rounds

\* The secret that the wheel owes a friendship that started from seed: the
\* seed hashed with every round from the one it was Put for, once and in order.
Expected(seed, round) == [seed |-> seed, chain |-> Chain(putAt[seed], round)]

\* The loop of getSecret as it is written, for r := rs.Round; r < round; r++: the secret
\* when its variable, which starts at p, is r.
HashLoop(secret, p) ==
    LET loop[r \in Rounds] == IF r <= p THEN secret ELSE hash1(loop[r - 1], r - 1)
    IN loop

\* getSecret's closed form is what the source's loop computes (keywheel.go, getSecret), on
\* every entry that the wheel, the file or a torn read can hold.
GetSecretIsTheLoop ==
    LET entries == {secrets[u] : u \in DOMAIN secrets} \cup {disk[u] : u \in DOMAIN disk}
                   \cup {Copied(readers[t]) : t \in {x \in Readers :
                           readers[x].Round # Nil /\ readers[x].Secret # Nil}}
    IN  \A rs \in entries : \A r \in Rounds :
            getSecret(rs, r) = IF rs.Round > r THEN Nil ELSE HashLoop(rs.Secret, rs.Round)[r]

\* An entry is exactly as far along as its Round says.
Exact(rs) ==
    /\ rs.Secret.seed \in DOMAIN putAt
    /\ putAt[rs.Secret.seed] <= rs.Round
    /\ rs.Secret = Expected(rs.Secret.seed, rs.Round)

\* Two friends derive the same keys although each erases, persists, crashes
\* and reloads at its own pace, because whatever happened to the wheel, the
\* secret it yields for a round (getSecret, under the lock: what
\* IncomingDialTokens uses) depends only on what was Put and on that round.
KeyDetermined ==
    \A u \in DOMAIN secrets : \A r \in Rounds :
        LET key == getSecret(secrets[u], r)
        IN  key # Nil => key = Expected(key.seed, r)

\* Forward secrecy: once EraseKeys was called with a round, neither that round
\* nor an earlier one can be derived from a secret that was in the wheel at the
\* time (and, after a restart, in the file that was saved).  The last round
\* before the uint32 wraps is not promised: EraseKeys(2^32 - 1) computes
\* newRound = 0 and erases nothing.
ForwardSecrecy ==
    \A u \in DOMAIN secrets : \A r \in Rounds :
        r < gone[secrets[u].Secret.seed] => getSecret(secrets[u], r) = Nil

\* A SessionKey or OutgoingDialToken that no EraseKeys overlapped returns nil
\* or the right key and does not panic, even when the friend was removed or
\* replaced while it ran.
UnracedReadIsExact ==
    \A t \in Readers :
        readers[t].pc = "done" /\ ~readers[t].raced =>
            /\ ~readers[t].panic
            /\ readers[t].result # Nil =>
                 readers[t].result = Expected(readers[t].result.seed, readers[t].round)
-----------------------------------------------------------------------------
(***************************************************************************)
(* The inductive invariant behind KeyDetermined, ForwardSecrecy and        *)
(* UnracedReadIsExact.                                                     *)
(***************************************************************************)

\* An entry of the map m is exact and past what g says was erased of it.
ExactMap(m, g) ==
    \A u \in DOMAIN m :
        /\ Exact(m[u])
        /\ m[u].Secret.seed \in DOMAIN g
        /\ g[m[u].Secret.seed] <= m[u].Round

\* A reader that no EraseKeys overlapped has copied the fields of one exact
\* struct whose round is not past the round it reads for.
ExactReader(rd) ==
    /\ rd.pc = "loading" /\ ~rd.raced =>
         /\ Exact(Deref(rd))
         /\ Deref(rd).Round <= rd.round
         /\ rd.Round # Nil => rd.Round = Deref(rd).Round
         /\ rd.Secret # Nil => rd.Secret = Deref(rd).Secret
    /\ rd.pc = "done" /\ ~rd.raced =>
         /\ ~rd.panic
         /\ rd.result # Nil => /\ rd.result.seed \in DOMAIN putAt
                              /\ rd.result = Expected(rd.result.seed, rd.round)

IInv ==
    /\ TypeOK
    /\ ExactMap(secrets, gone)
    /\ ExactMap(disk, diskGone)
    /\ \A t \in Readers : ExactReader(readers[t])
=============================================================================
