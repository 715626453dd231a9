---------------------------- MODULE ConfigChain -----------------------------
(***************************************************************************)
(* The signed configurations of one service (config/): guardians write and *)
(* sign them, the configuration server keeps the chain and its current     *)
(* end, the coordinator announces the hash of the current one, and clients *)
(* catch up to what is announced.                                          *)
(*                                                                         *)
(* A configuration is named by its hash, which is a number: 0 is the empty *)
(* hash, 1 the first configuration.  The hash covers all but the           *)
(* signatures: a file and the server hold a hash with some of them.        *)
(* Guardians sign copies of a file one after the other and each on its     *)
(* own; a copy may have any signatures that were made of its contents, and *)
(* those of other contents do not count.  Guardians' clocks differ:        *)
(* Created is any of 1 .. MaxTime, or 0 in the first one.                  *)
(***************************************************************************)
EXTENDS Integers, Sequences, FiniteSets

CONSTANTS
    Guardians,    \* guardians
    Clients,      \* clients
    MaxConfigs,   \* bound: configurations that are ever written
    MaxTime,      \* bound: times of creation
    MaxFailures   \* bound: failures to save, and configurations set by the operator

Hashes == 1 .. MaxConfigs

ASSUME ConfigAssumption ==
    /\ MaxConfigs \in Nat \ {0} /\ MaxTime \in Nat \ {0} /\ MaxFailures \in Nat

VARIABLES
    written,        \* the configurations that exist, by hash, and who has signed them
    allConfigs,     \* Server.allConfigs: the signatures of each hash it knows
    currentConfig,  \* Server.currentConfig
    file,           \* the server's file: the two above
    expired,        \* configurations that have expired
    announced,      \* hashes that the coordinator has announced
    have,           \* the configuration of each client
    unsaved,        \* history: a save has failed, or the operator has set a configuration
    failures        \* failures so far

serverVars == <<allConfigs, currentConfig, file>>
vars == <<written, serverVars, expired, announced, have, unsaved, failures>>

\* The first configuration, signed by all its guardians.
First == [PrevConfigHash |-> 0, Guardians |-> Guardians, Created |-> 0, signed |-> Guardians]

Init ==
    /\ written = <<First>>
    /\ allConfigs = [h \in {1} |-> Guardians]
    /\ currentConfig = 1
    /\ file = [all |-> [h \in {1} |-> Guardians], current |-> 1]
    /\ expired = {}
    /\ announced = {}
    /\ have = [c \in Clients |-> 1]
    /\ unsaved = FALSE
    /\ failures = 0

Fail == failures < MaxFailures /\ failures' = failures + 1

\* What a chain of configurations is verified on: a hash, and the signatures it came with.
Signed(h, signatures) == [hash |-> h, Signatures |-> signatures]

\* Verify: the configuration is signed by its own guardians.
Verify(conf) == written[conf.hash].Guardians \subseteq conf.Signatures

\* Mutant of VerifyConfigChain: the guardians of the one before need not sign.
VerifyConfigChainOwn(chain) ==
    \A i \in 1 .. Len(chain) - 1 :
        /\ written[chain[i].hash].PrevConfigHash = chain[i + 1].hash
        /\ Verify(chain[i])

\* Mutant of VerifyConfigChain: the hash of the one before is not compared.
VerifyConfigChainUnlinked(chain) ==
    \A i \in 1 .. Len(chain) - 1 :
        written[chain[i + 1].hash].Guardians \cup written[chain[i].hash].Guardians
            \subseteq chain[i].Signatures

\* VerifyConfigChain, newest first: each names the hash of the one before, and is signed
\* by the guardians of both.
VerifyConfigChain(chain) ==
    \A i \in 1 .. Len(chain) - 1 :
        LET curr == written[chain[i].hash]
            prev == written[chain[i + 1].hash]
        IN /\ curr.PrevConfigHash = chain[i + 1].hash
           /\ prev.Guardians \cup curr.Guardians \subseteq chain[i].Signatures

\* The configurations of a server that also has this one.
Learned(all, conf) ==
    [h \in DOMAIN all \cup {conf.hash} |-> IF h = conf.hash THEN conf.Signatures ELSE all[h]]

\* What the server knows of a hash.
Known(h) == Signed(h, allConfigs[h])

\* What Client.CurrentConfig accepts.
CurrentIsValid == currentConfig \notin expired /\ Verify(Known(currentConfig))
-----------------------------------------------------------------------------
(***************************************************************************)
(* Guardians and the server.                                               *)
(***************************************************************************)

\* A guardian writes a configuration on top of the current one (guardian-new-config).
NewConfig(guardians, created) ==
    /\ Len(written) < MaxConfigs
    /\ CurrentIsValid
    /\ written' = Append(written, [PrevConfigHash |-> currentConfig, Guardians |-> guardians,
                                   Created |-> created, signed |-> {}])
    /\ UNCHANGED <<serverVars, expired, announced, have, unsaved, failures>>

\* A guardian adds its signature to a copy (guardian-sign-config), in its list or not.
Sign(g, h) ==
    /\ g \notin written[h].signed
    /\ written' = [written EXCEPT ![h].signed = @ \cup {g}]
    /\ UNCHANGED <<serverVars, expired, announced, have, unsaved, failures>>

\* Mutant of Accepts: the time of creation is not compared.
AcceptsAnyTime(conf) ==
    /\ written[conf.hash].PrevConfigHash = currentConfig
    /\ VerifyConfigChain(<<conf, Known(currentConfig)>>)

\* The conditions of newConfigHandler.
Accepts(conf) ==
    /\ written[conf.hash].PrevConfigHash = currentConfig
    /\ written[conf.hash].Created > written[currentConfig].Created
    /\ VerifyConfigChain(<<conf, Known(currentConfig)>>)

\* Mutant of newConfigHandler: the file is not written.
newConfigHandlerUnsaved(conf) ==
    /\ Accepts(conf)
    /\ currentConfig' = conf.hash
    /\ allConfigs' = Learned(allConfigs, conf)
    /\ UNCHANGED <<written, file, expired, announced, have, unsaved, failures>>

\* The new configuration becomes current, and is saved.
newConfigHandler(conf) ==
    /\ Accepts(conf)
    /\ currentConfig' = conf.hash
    /\ allConfigs' = Learned(allConfigs, conf)
    /\ file' = [all |-> allConfigs', current |-> conf.hash]
    /\ UNCHANGED <<written, expired, announced, have, unsaved, failures>>

\* persistLocked fails: the error is reported, the configuration stays current.
PersistFails(conf) ==
    /\ Accepts(conf)
    /\ Fail
    /\ currentConfig' = conf.hash
    /\ allConfigs' = Learned(allConfigs, conf)
    /\ unsaved' = TRUE
    /\ UNCHANGED <<written, file, expired, announced, have>>

\* The operator sets a configuration in the file while the server is down
\* (SetCurrentConfig does not look at the chain), and starts it.
SetCurrentConfig(conf) ==
    /\ Fail
    /\ currentConfig' = conf.hash
    /\ allConfigs' = Learned(file.all, conf)
    /\ file' = [all |-> allConfigs', current |-> conf.hash]
    /\ unsaved' = TRUE
    /\ UNCHANGED <<written, expired, announced, have>>

\* LoadServer.
Restart ==
    /\ allConfigs' = file.all
    /\ currentConfig' = file.current
    /\ UNCHANGED <<written, file, expired, announced, have, unsaved, failures>>

Expire(h) ==
    /\ expired' = expired \cup {h}
    /\ UNCHANGED <<written, serverVars, announced, have, unsaved, failures>>
-----------------------------------------------------------------------------
(***************************************************************************)
(* The coordinator and the clients.                                        *)
(***************************************************************************)

\* The coordinator opens a round with the current configuration.
Announce ==
    /\ CurrentIsValid
    /\ announced' = announced \cup {currentConfig}
    /\ UNCHANGED <<written, serverVars, expired, have, unsaved, failures>>

\* getChainHandler: from want back to, and without, have; or to the first one.
getChain(from, want) ==
    LET chain[h \in 0 .. Len(written)] ==
            IF h \in {0, from} THEN << >> ELSE <<h>> \o chain[written[h].PrevConfigHash]
    IN <<want>> \o chain[written[want].PrevConfigHash]

\* FetchAndVerifyChain succeeds.
FetchAndVerifyChain(from, want) ==
    LET configs == getChain(from, want)
    IN /\ \A i \in DOMAIN configs : configs[i] \in DOMAIN allConfigs
       /\ written[want].Created > written[from].Created
       /\ want \notin expired
       /\ VerifyConfigChain(Append([i \in DOMAIN configs |-> Known(configs[i])], Signed(from, {})))

\* A client hears of a round with a configuration that it does not have, in
\* whatever order, and loads it.
newRound(c, h) ==
    /\ h # have[c]
    /\ FetchAndVerifyChain(have[c], h)
    /\ have' = [have EXCEPT ![c] = h]
    /\ UNCHANGED <<written, serverVars, expired, announced, unsaved, failures>>
-----------------------------------------------------------------------------
Server ==
    \E h \in DOMAIN written : \E signatures \in SUBSET written[h].signed :
        LET conf == Signed(h, signatures)
        IN newConfigHandler(conf) \/ PersistFails(conf) \/ SetCurrentConfig(conf)

Next ==
    \/ \E guardians \in SUBSET Guardians \ {{}}, created \in 1 .. MaxTime :
          NewConfig(guardians, created)
    \/ \E h \in DOMAIN written : Expire(h) \/ \E g \in Guardians : Sign(g, h)
    \/ Server
    \/ Restart
    \/ Announce
    \/ \E c \in Clients : \E h \in announced : newRound(c, h)

Spec == Init /\ [][Next]_vars

\* The coordinator opens rounds again and again, and clients hear of them.
Fairness ==
    /\ WF_vars(Announce)
    /\ \A c \in Clients, h \in Hashes : WF_vars(h \in announced /\ newRound(c, h))

FairSpec == Spec /\ Fairness
-----------------------------------------------------------------------------
(***************************************************************************)
(* Properties.                                                             *)
(***************************************************************************)

\* A set that has, with a configuration, the one before it.
Closed(S) == \A x \in S : written[x].PrevConfigHash \in S \cup {0}

\* h and the configurations before it: what every such set with h has.
Ancestors(h) ==
    {x \in DOMAIN written : \A S \in SUBSET DOMAIN written : h \in S /\ Closed(S) => x \in S}

\* h was agreed to by the guardians of the configuration before it.
Agreed(h) ==
    LET prev == written[h].PrevConfigHash
    IN prev = 0 \/ written[prev].Guardians \subseteq written[h].signed

\* Trust rolls forward through the chain: each configuration from the first to the
\* one that a client uses was signed by the guardians of the one before it, whatever
\* the server was made to serve (docs/wire-signed-config-v2.md:101).
ChainOfTrust == \A c \in Clients : \A h \in Ancestors(have[c]) : Agreed(h)

\* The server's chain and that of a client do not part: what a client has is part of
\* what the server has, through restarts, if saving works.
NoFork == ~unsaved => \A c \in Clients : have[c] \in Ancestors(currentConfig)

\* Clients only go forward on the chain, although announcements come in any order.
OnlyForward == [][\A c \in Clients : have[c] \in Ancestors(have'[c])]_vars

\* No client is locked out: it gets a configuration that stays current, however many
\* it has missed, as the server has checked all that the client checks.
Converges ==
    \A c \in Clients, h \in Hashes :
        currentConfig = h ~> have[c] = h \/ currentConfig # h \/ h \in expired \/ unsaved
=============================================================================
