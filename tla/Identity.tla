------------------------------ MODULE Identity ------------------------------
(***************************************************************************)
(* The key files of one host: the key pair and the identity that           *)
(* neverlur-guardian-keygen writes, and the identity file                  *)
(* (hybrid/identity_file.go) that is loaded, or made from the raw seed of  *)
(* an older installation, by any number of processes at once.              *)
(*                                                                         *)
(* All keys of an identity are derived from its seed, so a file holds a    *)
(* seed, or the torn beginning of one, which no reader takes for a whole   *)
(* file.  Opening and writing a file are steps of their own, and a process *)
(* may end between any two.  Nothing removes a file.                       *)
(***************************************************************************)
EXTENDS Naturals, Sequences, FiniteSets

CONSTANTS
    Processes,  \* processes of the host
    MaxKeys,    \* bound: keys that are ever generated
    Absent,     \* there is no such file
    Torn        \* the file is empty, or incomplete

Legacy == 0                  \* the seed of the older installation
KeySeeds == Legacy .. MaxKeys

ASSUME IdentityAssumption ==
    /\ MaxKeys \in Nat
    /\ Absent # Torn /\ {Absent, Torn} \cap KeySeeds = {}

\* The files; -hybrid-out and the loaders mean the same "v2".
Files == {"public", "private", "v2", "legacy"}

VARIABLES
    file,       \* what each file holds
    process,    \* what each process is about to do
    generated,  \* keys generated so far
    kept        \* history: the seeds that were reported written or were loaded, and from where

identityVars == <<file, process, generated, kept>>

\* A process that writes a seed to some files, one after the other.
Writer(todo, key, keygen) == [at |-> "open", todo |-> todo, key |-> key, keygen |-> keygen]
At(place, keygen) == [Writer(<< >>, Legacy, keygen) EXCEPT !.at = place]
NoProcess == At("idle", FALSE)

IdentityInit ==
    /\ \E legacy \in {Absent, Legacy} : file = [f \in Files |-> IF f = "legacy" THEN legacy ELSE Absent]
    /\ process = [p \in Processes |-> NoProcess]
    /\ generated = 0
    /\ kept = {}

Keep(f, key) == kept' = kept \cup {<<f, key>>}
-----------------------------------------------------------------------------
\* checkOverwrite of each file that is to be written.
CheckOverwrite(files) == \A f \in files : file[f] = Absent

\* Mutant of Exclusive: the identity file is truncated too.
ExclusiveNot(f) == FALSE

\* Whether a file is opened with O_EXCL: WriteIdentityFile does, keygen's own files are
\* truncated.
Exclusive(f) == f = "v2"

\* The files of a key pair, and the identity file if the operator wants one.
Wanted(hybrid) == IF hybrid THEN <<"public", "private", "v2">> ELSE <<"public", "private">>

\* keygen starts, if no other is running, looks for the files and asks for a passphrase.
Keygen(p, hybrid) ==
    /\ process[p] = NoProcess
    /\ \A q \in Processes : ~process[q].keygen
    /\ LET wanted == Wanted(hybrid)
       IN /\ CheckOverwrite({wanted[i] : i \in DOMAIN wanted})
          /\ process' = [process EXCEPT ![p] = [At("passphrase", TRUE) EXCEPT !.todo = wanted]]
    /\ UNCHANGED <<file, generated, kept>>

\* The operator has given the passphrase: the key is generated.
GenerateKey(p) ==
    /\ process[p].at = "passphrase"
    /\ generated < MaxKeys
    /\ generated' = generated + 1
    /\ process' = [process EXCEPT ![p] = Writer(@.todo, generated', TRUE)]
    /\ UNCHANGED <<file, kept>>

\* LoadOrUpgradeIdentityFile starts, and looks for the identity file.
LoadOrUpgrade(p) ==
    /\ process[p] = NoProcess
    /\ process' = [process EXCEPT ![p] =
                      At(IF file["v2"] # Absent THEN "load" ELSE "upgrade", FALSE)]
    /\ UNCHANGED <<file, generated, kept>>

\* It was there: LoadIdentityFile reads it, and fails if it is torn.
LoadIdentityFile(p) ==
    /\ process[p].at = "load"
    /\ process' = [process EXCEPT ![p] = NoProcess]
    /\ IF file["v2"] \in KeySeeds THEN Keep("v2", file["v2"]) ELSE UNCHANGED kept
    /\ UNCHANGED <<file, generated>>

\* It was not: the older file is read, and the identity file written, or there is no identity.
Upgrade(p) ==
    /\ process[p].at = "upgrade"
    /\ process' = [process EXCEPT ![p] =
                      IF file["legacy"] = Absent THEN NoProcess
                      ELSE Writer(<<"v2">>, file["legacy"], FALSE)]
    /\ UNCHANGED <<file, generated, kept>>

\* A file is created, or opened and truncated; if O_EXCL refuses it, the process gives up.
Open(p) ==
    /\ process[p].at = "open"
    /\ LET f == Head(process[p].todo)
       IN IF Exclusive(f) /\ file[f] # Absent
          THEN process' = [process EXCEPT ![p] = NoProcess] /\ UNCHANGED file
          ELSE process' = [process EXCEPT ![p].at = "write"] /\ file' = [file EXCEPT ![f] = Torn]
    /\ UNCHANGED <<generated, kept>>

\* The file is written whole.
Write(p) ==
    /\ process[p].at = "write"
    /\ LET f == Head(process[p].todo)
           left == Tail(process[p].todo)
       IN /\ file' = [file EXCEPT ![f] = process[p].key]
          /\ Keep(f, process[p].key)
          /\ process' = [process EXCEPT ![p] = IF left = << >> THEN NoProcess
                                               ELSE [@ EXCEPT !.at = "open", !.todo = left]]
    /\ UNCHANGED generated

\* The process dies, or the disk is full and it gives up.
GiveUp(p) ==
    /\ process[p] # NoProcess
    /\ process' = [process EXCEPT ![p] = NoProcess]
    /\ UNCHANGED <<file, generated, kept>>

\* ReadPrivateKey, with the right passphrase: signing tools use the key.
ReadPrivateKey ==
    /\ file["private"] \in KeySeeds
    /\ Keep("private", file["private"])
    /\ UNCHANGED <<file, process, generated>>
-----------------------------------------------------------------------------
IdentityNext ==
    \/ \E p \in Processes :
          \/ \E hybrid \in BOOLEAN : Keygen(p, hybrid)
          \/ GenerateKey(p)
          \/ LoadOrUpgrade(p)
          \/ LoadIdentityFile(p)
          \/ Upgrade(p)
          \/ Open(p)
          \/ Write(p)
          \/ GiveUp(p)
    \/ ReadPrivateKey

IdentitySpec == IdentityInit /\ [][IdentityNext]_identityVars
-----------------------------------------------------------------------------
(***************************************************************************)
(* Property.                                                               *)
(***************************************************************************)

\* An identity is never lost: a seed that a tool has reported written, or that was loaded,
\* stays in its file, whole, although tools run at once and die anywhere; and on a host
\* without an older installation all the files hold one identity.
IdentityIsKept ==
    /\ \A k \in kept : file[k[1]] = k[2]
    /\ file["legacy"] = Absent => Cardinality({k[2] : k \in kept}) <= 1
=============================================================================
