-------------------------------- MODULE PKG ---------------------------------
(***************************************************************************)
(* The PKG servers (pkg/), the coordinator's client that opens a round     *)
(* with them (CoordinatorClient.NewRound), and clients that register and   *)
(* extract.                                                                *)
(*                                                                         *)
(* In every round each server makes new master keys, first commits to      *)
(* them, and reveals them when all have committed; it keeps the keys of a  *)
(* round until the commit of the round after the next.  commitHandler      *)
(* takes srv.mu three times, and is three steps; a call that the           *)
(* coordinator has given up may still be running.  Keys are numbers.       *)
(*                                                                         *)
(* Users are in a database (badger) with serializable transactions.        *)
(***************************************************************************)
EXTENDS Integers, Sequences, FiniteSets, Functions

CONSTANTS
    NumPKGs,      \* servers, called in the order 1 .. NumPKGs
    Clients,      \* clients; a client is its login key
    Names,        \* usernames
    Username,     \* the username that a client wants
    MaxRound,     \* bound: rounds are 1 .. MaxRound
    MaxFailures,  \* bound: failed calls and restarts
    NoReveal      \* the reveal signature that is not there yet

PKGs == 1 .. NumPKGs
PKGRounds == 1 .. MaxRound

ASSUME PKGAssumption ==
    /\ NumPKGs \in Nat \ {0}
    /\ Username \in [Clients -> Names]
    /\ MaxRound \in Nat /\ MaxFailures \in Nat

VARIABLES
    rounds,       \* Server.rounds: keys and reveal signature of each round
    handlers,     \* commitHandlers that run
    nextKeys,     \* the next new keys of each server
    users,        \* the database: the login key of each registered name
    userLog,      \* the database: the UserEventLog of each name
    txs,          \* registrations that have found their name free
    pc,           \* CoordinatorClient.NewRound: what it calls now
    round,        \* the round that it opens
    at,           \* the server that it calls
    asked,        \* has this server got the call?
    commitments,  \* the commitments so far
    settings,     \* the RoundSettings so far
    announced,    \* the RoundSettings of each round that was opened
    extracted,    \* keys that clients have extracted
    latest,       \* history: the last round whose commit has pruned, by server
    lost,         \* history: rounds whose keys a restart has taken, by server
    failures      \* failures so far

serverVars == <<rounds, handlers, nextKeys, latest>>
userVars == <<users, userLog, txs, extracted>>
callVars == <<pc, round, at, asked, commitments, settings, announced>>
pkgVars == <<serverVars, userVars, callVars, lost, failures>>

PKGInit ==
    /\ rounds = [p \in PKGs |-> << >>]
    /\ handlers = {}
    /\ nextKeys = [p \in PKGs |-> 1]
    /\ users = [p \in PKGs |-> << >>]
    /\ userLog = [p \in PKGs |-> << >>]
    /\ txs = {}
    /\ pc = "idle"
    /\ round = 0
    /\ at = 1
    /\ asked = FALSE
    /\ commitments = << >>
    /\ settings = << >>
    /\ announced = << >>
    /\ extracted = {}
    /\ latest = [p \in PKGs |-> 0]
    /\ lost = [p \in PKGs |-> {}]
    /\ failures = 0

Fail == failures < MaxFailures /\ failures' = failures + 1

\* f with f[x] = y.
With(f, x, y) == [z \in DOMAIN f \cup {x} |-> IF z = x THEN y ELSE f[z]]

\* The hash of the master keys.
commitTo(keys) == [hashOf |-> keys]
-----------------------------------------------------------------------------
(***************************************************************************)
(* CoordinatorClient.NewRound and the handlers that it calls.              *)
(***************************************************************************)

\* The coordinator opens the next round; it never opens one twice (Coordinator).
NewRound ==
    /\ pc = "idle"
    /\ round < MaxRound
    /\ round' = round + 1
    /\ pc' = "commit"
    /\ at' = 1
    /\ asked' = FALSE
    /\ commitments' = << >>
    /\ settings' = << >>
    /\ UNCHANGED <<serverVars, userVars, announced, lost, failures>>

\* commitHandler looks for the round, and makes keys if it is new.
commitHandler(p) ==
    /\ pc = "commit"
    /\ at = p
    /\ ~asked
    /\ asked' = TRUE
    /\ IF round \in DOMAIN rounds[p]
       THEN /\ handlers' = handlers \cup
                   {[pkg |-> p, round |-> round, step |-> "prune", keys |-> rounds[p][round].keys]}
            /\ UNCHANGED nextKeys
       ELSE /\ handlers' = handlers \cup
                   {[pkg |-> p, round |-> round, step |-> "insert", keys |-> nextKeys[p]]}
            /\ nextKeys' = [nextKeys EXCEPT ![p] = @ + 1]
    /\ UNCHANGED <<rounds, latest, userVars, pc, round, at, commitments, settings, announced, lost,
                   failures>>

\* It adds the round, unless another has added it.
InsertRound(h) ==
    /\ h.step = "insert"
    /\ LET known == h.round \in DOMAIN rounds[h.pkg]
           st == IF known THEN rounds[h.pkg][h.round]
                 ELSE [keys |-> h.keys, revealSignature |-> NoReveal]
       IN /\ rounds' = [rounds EXCEPT ![h.pkg] = With(@, h.round, st)]
          /\ handlers' = (handlers \ {h}) \cup {[h EXCEPT !.step = "prune", !.keys = st.keys]}
    /\ UNCHANGED <<nextKeys, latest, userVars, callVars, lost, failures>>

\* Mutant of Recent: one round too few is left.
RecentTooFew(r, st) == Restrict(st, {x \in DOMAIN st : x >= r})

\* The rounds that a commit of round r leaves.
Recent(r, st) == Restrict(st, {x \in DOMAIN st : x >= r - 1})

\* The coordinator has called server p, and goes on to the next.
Advance(p) ==
    /\ asked' = FALSE
    /\ at' = IF p = NumPKGs THEN 1 ELSE p + 1

\* It forgets old rounds and answers, if the coordinator still waits.
PruneRounds(h) ==
    /\ h.step = "prune"
    /\ rounds' = [rounds EXCEPT ![h.pkg] = Recent(h.round, @)]
    /\ latest' = [latest EXCEPT ![h.pkg] = IF @ < h.round THEN h.round ELSE @]
    /\ handlers' = handlers \ {h}
    /\ IF pc = "commit" /\ round = h.round /\ at = h.pkg
       THEN /\ commitments' = With(commitments, h.pkg, commitTo(h.keys))
            /\ Advance(h.pkg)
            /\ pc' = IF h.pkg = NumPKGs THEN "reveal" ELSE "commit"
       ELSE UNCHANGED <<commitments, at, asked, pc>>
    /\ UNCHANGED <<nextKeys, userVars, round, settings, announced, lost, failures>>

\* RoundSettings.Verify: all have signed the commitments to the keys they reveal.
VerifySettings(s) ==
    \A p \in PKGs : s[p].signature =
        [round |-> round, commitments |-> [q \in PKGs |-> commitTo(s[q].keys)]]

\* Server p knows the round, and has made the commitment or has revealed before.
Reveals(p) ==
    /\ round \in DOMAIN rounds[p]
    /\ \/ rounds[p][round].revealSignature # NoReveal
       \/ commitments[p] = commitTo(rounds[p][round].keys)

\* The keys are revealed with a signature of all commitments, which is made once.
Revealed(p) ==
    LET st == rounds[p][round]
    IN [st EXCEPT !.revealSignature =
           IF @ = NoReveal THEN [round |-> round, commitments |-> commitments] ELSE @]

revealHandler(p) ==
    /\ pc = "reveal"
    /\ at = p
    /\ Reveals(p)
    /\ rounds' = [rounds EXCEPT ![p][round] = Revealed(p)]
    /\ settings' = With(settings, p, [keys |-> rounds[p][round].keys,
                                      signature |-> Revealed(p).revealSignature])
    /\ Advance(p)
    /\ IF p = NumPKGs
       THEN /\ pc' = "idle"
            /\ announced' = IF VerifySettings(settings') THEN With(announced, round, settings')
                            ELSE announced
       ELSE UNCHANGED <<pc, announced>>
    /\ UNCHANGED <<handlers, nextKeys, latest, userVars, round, commitments, lost, failures>>

\* The server does not know the round, or has not made this commitment: NewRound
\* returns an error.
RevealRefused(p) ==
    /\ pc = "reveal"
    /\ at = p
    /\ ~Reveals(p)
    /\ pc' = "idle"
    /\ UNCHANGED <<serverVars, userVars, round, at, asked, commitments, settings, announced, lost,
                   failures>>

\* A call fails, or its answer is lost: NewRound returns an error, and what the
\* server does goes on.
CallFails ==
    /\ pc \in {"commit", "reveal"}
    /\ Fail
    /\ pc' = "idle"
    /\ \/ UNCHANGED rounds
       \/ /\ pc = "reveal"
          /\ Reveals(at)
          /\ rounds' = [rounds EXCEPT ![at][round] = Revealed(at)]
    /\ UNCHANGED <<handlers, nextKeys, latest, userVars, round, at, asked, commitments, settings,
                   announced, lost>>

\* A server restarts: the keys of all rounds are gone.
RestartPKG(p) ==
    /\ Fail
    /\ rounds' = [rounds EXCEPT ![p] = << >>]
    /\ lost' = [lost EXCEPT ![p] = @ \cup DOMAIN rounds[p]]
    /\ handlers' = {h \in handlers : h.pkg # p}
    /\ pc' = IF pc = "commit" /\ at = p /\ asked THEN "idle" ELSE pc
    /\ UNCHANGED <<nextKeys, latest, userVars, round, at, asked, commitments, settings, announced>>
-----------------------------------------------------------------------------
(***************************************************************************)
(* Clients.                                                                *)
(***************************************************************************)

\* register finds the name free, in a transaction.
register(c, p) ==
    /\ Username[c] \notin DOMAIN users[p]
    /\ txs' = txs \cup {[client |-> c, pkg |-> p]}
    /\ UNCHANGED <<serverVars, users, userLog, extracted, callVars, lost, failures>>

\* The transaction commits, unless what it has read has changed since.
Conflicts(tx) == Username[tx.client] \in DOMAIN users[tx.pkg]

\* Mutant of CommitRegister: the name is not read in the transaction.
CommitRegisterBlind(tx) ==
    LET name == Username[tx.client]
        old == IF name \in DOMAIN userLog[tx.pkg] THEN userLog[tx.pkg][name] ELSE << >>
    IN /\ txs' = txs \ {tx}
       /\ users' = [users EXCEPT ![tx.pkg] = With(@, name, tx.client)]
       /\ userLog' = [userLog EXCEPT ![tx.pkg] = With(@, name, Append(old, tx.client))]
       /\ UNCHANGED <<serverVars, extracted, callVars, lost, failures>>

\* The login key and the log are written together.
CommitRegister(tx) ==
    /\ txs' = txs \ {tx}
    /\ IF Conflicts(tx)
       THEN UNCHANGED <<users, userLog>>
       ELSE LET name == Username[tx.client]
                old == IF name \in DOMAIN userLog[tx.pkg] THEN userLog[tx.pkg][name] ELSE << >>
            IN /\ users' = [users EXCEPT ![tx.pkg] = With(@, name, tx.client)]
               /\ userLog' = [userLog EXCEPT ![tx.pkg] = With(@, name, Append(old, tx.client))]
    /\ UNCHANGED <<serverVars, extracted, callVars, lost, failures>>

\* A client that has the settings of round r extracts its key from server p, which
\* knows the round and the client's login key.  (lastExtraction is written and never
\* read.)
extract(c, p, r) ==
    /\ r \in DOMAIN announced
    /\ r \in DOMAIN rounds[p]
    /\ Username[c] \in DOMAIN users[p]
    /\ users[p][Username[c]] = c
    /\ extracted' = extracted \cup
           {[client |-> c, pkg |-> p, round |-> r, keys |-> rounds[p][r].keys]}
    /\ UNCHANGED <<serverVars, users, userLog, txs, callVars, lost, failures>>
-----------------------------------------------------------------------------
OpenStep ==
    \/ \E p \in PKGs : commitHandler(p) \/ revealHandler(p) \/ RevealRefused(p)
    \/ \E h \in handlers : InsertRound(h) \/ PruneRounds(h)

PKGNext ==
    \/ NewRound
    \/ OpenStep
    \/ CallFails
    \/ \E p \in PKGs : RestartPKG(p)
    \/ \E c \in Clients, p \in PKGs : register(c, p) \/ \E r \in PKGRounds : extract(c, p, r)
    \/ \E tx \in txs : CommitRegister(tx)

PKGSpec == PKGInit /\ [][PKGNext]_pkgVars
-----------------------------------------------------------------------------
(***************************************************************************)
(* Properties.                                                             *)
(***************************************************************************)

\* While clients use a round, which is until the commit of the round after the
\* next, every server extracts for it, unless it restarts, and with the master key
\* of the round's settings: friends encrypt to the key that the client gets.
KeysAvailable ==
    \A r \in DOMAIN announced, p \in PKGs :
        r \notin lost[p] /\ latest[p] <= r + 1 =>
            r \in DOMAIN rounds[p] /\ rounds[p][r].keys = announced[r][p].keys

\* Later it cannot: the master keys of a round that was used are gone.
OldKeysForgotten ==
    \A p \in PKGs : \A r \in DOMAIN rounds[p] :
        r \in DOMAIN announced => r >= latest[p] - 1

\* A name has one owner at a server, for ever: the keys of a name go to one client,
\* and the log shows it.
OneOwner ==
    \A p \in PKGs :
        /\ \A n \in DOMAIN users[p] : userLog[p][n] = <<users[p][n]>>
        /\ \A x, y \in extracted :
             x.pkg = p /\ y.pkg = p /\ Username[x.client] = Username[y.client]
                => x.client = y.client

\* A server can extract for a round exactly while clients may need it to.
RoundKeysKept == KeysAvailable /\ OldKeysForgotten
=============================================================================
