----------------------------- MODULE ConfigFile ------------------------------
(***************************************************************************)
(* A signed configuration on its way (config/config.go and the guardians'  *)
(* tools): the server's current one is fetched and made into a new file,   *)
(* which is edited, signed by one guardian after the other, uploaded, and  *)
(* fetched by a client.  At every hop it is written as JSON and read       *)
(* again, in the format of its version; a hash and a signature are made    *)
(* and verified of what was read.                                          *)
(*                                                                         *)
(* ConfigChain is about the chain, times and failures, this module about   *)
(* the document: times are left out, and of an inner configuration the     *)
(* registrar is kept, whose key only the second version carries, and       *)
(* whether Validate passes all its other servers.  A hash is what is       *)
(* hashed, a signature is the two keys and the message it was made with.   *)
(***************************************************************************)
EXTENDS Integers, Sequences

CONSTANTS
    Keys,        \* guardians, by their Ed25519 key, the only one that signs with that key
    Registrars,  \* keys and addresses of registrars
    Unset,       \* the empty key, the empty hash
    MaxChain,    \* bound: configurations of the server
    MaxEdits     \* bound: edits of a file

Services == {"AddFriend", "Dialing"}

ASSUME ConfigFileAssumption == MaxChain \in Nat /\ MaxEdits \in Nat /\ Unset \notin Registrars

VARIABLES
    document,  \* the file that guardians work on, as text, or Unset
    accepted,  \* Server: its current configuration, and those before it
    holding,   \* the configuration of a client
    edits,     \* edits so far
    reviewed,  \* history: who has signed which text
    complete   \* history: what the file came after, and who has signed it since the last edit

fileVars == <<document, accepted, holding, edits, reviewed, complete>>
-----------------------------------------------------------------------------
(***************************************************************************)
(* The formats.                                                            *)
(***************************************************************************)

SignedConfigVersion == 2
LatestVersion(service) == IF service = "AddFriend" THEN 2 ELSE 1
Versions(service) == 1 .. LatestVersion(service)

\* MarshalJSON of an inner configuration: version 1 of AddFriend has the registrar's
\* address only, and Dialing has none.
v1(service, inner) ==
    [Version |-> 1, Servers |-> inner.Servers,
     RegistrarHost |-> IF service = "AddFriend" THEN inner.Registrar.Address ELSE Unset]

v2(inner) == [Version |-> 2, Servers |-> inner.Servers, Registrar |-> inner.Registrar]

MarshalInner(service, inner) == IF inner.Version = 1 THEN v1(service, inner) ELSE v2(inner)

\* UnmarshalJSON, by the version that it finds.
fromV1(text) ==
    [Version |-> 1, Servers |-> text.Servers,
     Registrar |-> [Key |-> Unset, Address |-> text.RegistrarHost]]

fromV2(text) == [Version |-> 2, Servers |-> text.Servers, Registrar |-> text.Registrar]

decodeInner(text) == IF text.Version = 1 THEN fromV1(text) ELSE fromV2(text)

\* SignedConfig's MarshalJSON and UnmarshalJSON, which refuse every version but their own.
Marshal(conf) == [conf EXCEPT !.Inner = MarshalInner(conf.Service, @)]

Decodes(text) ==
    /\ text.Version = SignedConfigVersion
    /\ text.Inner.Version \in Versions(text.Service)

Unmarshal(text) == [text EXCEPT !.Inner = decodeInner(@)]

\* Validate: a guardian's keys have their lengths, whosever they are.
Validate(conf) ==
    /\ conf.Version = SignedConfigVersion
    /\ conf.MinClientVersion <= SignedConfigVersion
    /\ conf.Inner.Servers = "valid"

\* What both the tools and the server read of a text.
Readable(text) == Decodes(text) /\ Validate(Unmarshal(text))

\* Mutant of SigningMessage: of the inner configuration the version counts.
SigningMessageOuter(conf) == [conf EXCEPT !.Signatures = << >>, !.Inner = @.Version]

\* SigningMessage: the configuration as JSON without its signatures.  Hash hashes it.
SigningMessage(conf) ==
    [conf EXCEPT !.Signatures = << >>, !.Inner = MarshalInner(conf.Service, @)]

Hash(conf) == SigningMessage(conf)

\* The hybrid signature that a tool makes with a guardian's seed.
HybridSignature(key, msg) == [Ed |-> <<key, msg>>, PQ |-> <<key, msg>>]

\* verifyHybridGuardianSig: both halves verify, under the two keys of the guardian's entry.
verifyHybridGuardianSig(conf, guardian) ==
    /\ guardian.Key \in DOMAIN conf.Signatures
    /\ conf.Signatures[guardian.Key].Ed = <<guardian.Key, SigningMessage(conf)>>
    /\ conf.Signatures[guardian.Key].PQ = <<guardian.PQKey, SigningMessage(conf)>>

VerifySelf(conf) == \A g \in conf.Guardians : verifyHybridGuardianSig(conf, g)

\* VerifyConfigChain of two: a key that was verified for the one before is not looked at
\* again.
VerifyLink(conf, prev) ==
    /\ conf.PrevConfigHash = Hash(prev)
    /\ \A g \in prev.Guardians : verifyHybridGuardianSig(conf, g)
    /\ \A g \in conf.Guardians :
          g.Key \in {h.Key : h \in prev.Guardians} \/ verifyHybridGuardianSig(conf, g)
-----------------------------------------------------------------------------
(***************************************************************************)
(* The steps.                                                              *)
(***************************************************************************)

\* Entries of guardians: the second key should be that of the same guardian.
Entry(key, pqKey) == [Key |-> key, PQKey |-> pqKey]

\* The operator's first configuration, of any version, signed by its guardians.
FirstConfig(service, version, registrar) ==
    LET unsigned == [Version |-> SignedConfigVersion, MinClientVersion |-> SignedConfigVersion,
                     Service |-> service, PrevConfigHash |-> Unset,
                     Inner |-> [Version |-> version, Servers |-> "valid",
                                Registrar |-> [Key |-> IF version = 2 THEN registrar ELSE Unset,
                                               Address |-> IF service = "AddFriend"
                                                           THEN registrar ELSE Unset]],
                     Guardians |-> {Entry(k, k) : k \in Keys}, Signatures |-> << >>]
    IN [unsigned EXCEPT !.Signatures = [k \in Keys |-> HybridSignature(k, SigningMessage(unsigned))]]

ConfigFileInit ==
    /\ document = Unset
    /\ \E service \in Services : \E version \in Versions(service), registrar \in Registrars :
          accepted = <<FirstConfig(service, version, registrar)>>
    /\ holding = accepted[1]
    /\ edits = 0
    /\ reviewed = {}
    /\ complete = [after |-> 0, by |-> {}]

Current == accepted[Len(accepted)]

\* Client.CurrentConfig: what the server has, written and read, is valid and signed.
CurrentConfig == Unmarshal(Marshal(Current))
CurrentConfigIsGood == Readable(Marshal(Current)) /\ VerifySelf(CurrentConfig)

\* Mutant of Renewed: the hash is taken after the inner version was raised.
RenewedTooSoon(conf) ==
    LET latest == [conf EXCEPT !.Inner.Version = LatestVersion(conf.Service)]
    IN [latest EXCEPT !.PrevConfigHash = Hash(latest), !.Signatures = << >>,
                      !.Version = SignedConfigVersion, !.MinClientVersion = SignedConfigVersion]

\* What guardian-new-config makes of the current configuration: it comes after it, unsigned
\* and in the latest versions.
Renewed(conf) ==
    [conf EXCEPT !.Inner.Version = LatestVersion(conf.Service), !.PrevConfigHash = Hash(conf),
                 !.Signatures = << >>,
                 !.Version = SignedConfigVersion, !.MinClientVersion = SignedConfigVersion]

NewFile ==
    /\ Len(accepted) < MaxChain
    /\ CurrentConfigIsGood
    /\ document' = Marshal(Renewed(CurrentConfig))
    /\ complete' = [after |-> Len(accepted), by |-> {}]
    /\ UNCHANGED <<accepted, holding, edits, reviewed>>

\* Somebody changes the text.
Edit(text) ==
    /\ edits < MaxEdits
    /\ text # document
    /\ document' = text
    /\ edits' = edits + 1
    /\ complete' = [complete EXCEPT !.by = {}]
    /\ UNCHANGED <<accepted, holding, reviewed>>

EditVersions(version, min) ==
    Edit([document EXCEPT !.Version = version, !.MinClientVersion = min])

EditGuardians(guardians) == Edit([document EXCEPT !.Guardians = guardians])

EditServers(servers) == Edit([document EXCEPT !.Inner.Servers = servers])

EditRegistrar(key, address) ==
    /\ document.Inner.Version = 2
    /\ Edit([document EXCEPT !.Inner.Registrar = [Key |-> key, Address |-> address]])

\* What a reader of a text sees of it, whoever has signed it.
Unsigned(text) == [text EXCEPT !.Signatures = << >>]

\* guardian-sign-config: the text is read, and written with one signature more.
SignFile(key) ==
    /\ Readable(document)
    /\ LET conf == Unmarshal(document)
           signature == HybridSignature(key, SigningMessage(conf))
       IN document' = Marshal([conf EXCEPT !.Signatures =
              [k \in DOMAIN conf.Signatures \cup {key} |->
                   IF k = key THEN signature ELSE conf.Signatures[k]]])
    /\ reviewed' = reviewed \cup {<<key, Unsigned(document)>>}
    /\ complete' = [complete EXCEPT !.by = @ \cup {key}]
    /\ UNCHANGED <<accepted, holding, edits>>

\* The tool reads the file and posts it, and the server reads what it gets.
Sent(text) == Unmarshal(Marshal(Unmarshal(text)))

IsAccepted(text) ==
    /\ Readable(text) /\ Readable(Marshal(Unmarshal(text)))
    /\ VerifyLink(Sent(text), Current)

\* guardian-upload-config and newConfigHandler.
Upload ==
    /\ IsAccepted(document)
    /\ accepted' = Append(accepted, Sent(document))
    /\ UNCHANGED <<document, holding, edits, reviewed, complete>>

\* The chain that getChainHandler sends for what a client has, oldest first.
ChainFrom(conf) ==
    LET from == {i \in DOMAIN accepted : i = 1 \/ Hash(accepted[i - 1]) = Hash(conf)}
        first == CHOOSE i \in from : \A j \in from : j <= i
    IN [i \in 1 .. Len(accepted) - first + 1 |-> Unmarshal(Marshal(accepted[first + i - 1]))]

\* FetchAndVerifyChain succeeds.
FetchIsGood ==
    LET chain == <<holding>> \o ChainFrom(holding)
    IN /\ Validate(chain[Len(chain)])
       /\ Hash(chain[Len(chain)]) = Hash(Current)
       /\ \A i \in 2 .. Len(chain) : VerifyLink(chain[i], chain[i - 1])

Fetch ==
    /\ Hash(holding) # Hash(Current)
    /\ FetchIsGood
    /\ holding' = Unmarshal(Marshal(Current))
    /\ UNCHANGED <<document, accepted, edits, reviewed, complete>>
-----------------------------------------------------------------------------
\* Lists of guardians: each at most once, with anybody's second key.
GuardianLists == {{Entry(k, pq[k]) : k \in DOMAIN pq} : pq \in UNION {[ks -> Keys] : ks \in SUBSET Keys}}

EditFile ==
    /\ document # Unset
    /\ \/ EditVersions(1, 2) \/ EditVersions(2, 3)
       \/ \E guardians \in GuardianLists : EditGuardians(guardians)
       \/ EditServers("invalid")
       \/ \E key \in Registrars \cup {Unset}, address \in Registrars : EditRegistrar(key, address)

ConfigFileNext ==
    \/ NewFile
    \/ EditFile
    \/ document # Unset /\ (Upload \/ \E key \in Keys : SignFile(key))
    \/ Fetch

ConfigFileSpec == ConfigFileInit /\ [][ConfigFileNext]_fileVars
-----------------------------------------------------------------------------
(***************************************************************************)
(* Properties.                                                             *)
(***************************************************************************)

\* Who has to sign conf, which comes after prev.
Signers(conf, prev) == {g.Key : g \in conf.Guardians \cup prev.Guardians}

\* A configuration that the server or the client has, written out, is a text that each
\* guardian who had to agree has signed: signatures cover all that is used, through every
\* format and hop.
UsedAsSigned ==
    /\ \A i \in 2 .. Len(accepted) :
          Signers(accepted[i], accepted[i - 1]) \X {Unsigned(Marshal(accepted[i]))} \subseteq reviewed
    /\ \E i \in DOMAIN accepted : Unsigned(Marshal(holding)) = Unsigned(Marshal(accepted[i]))

\* The keys of a guardian belong together, as neverlur-guardian-keygen makes them.
Paired(conf) == \A g \in conf.Guardians : g.PQKey = g.Key

\* Nothing that a hop does breaks a hash or a signature: a file that was made of what is
\* current, and signed as it is by all who have to, is accepted by the server, whatever
\* version the one before had; and a client gets whatever the server has accepted.
SignedIsAccepted ==
    /\ (/\ document # Unset /\ Readable(document)
        /\ complete.after = Len(accepted)
        /\ Paired(Unmarshal(document)) /\ Paired(Current)
        /\ Signers(Unmarshal(document), Current) \subseteq complete.by)
       => IsAccepted(document)
    /\ Hash(holding) = Hash(Current) \/ FetchIsGood

\* Every configuration that the server has accepted is signed, in both halves, by every
\* guardian it lists (docs/wire-signed-config-v2.md:96, 105).
AcceptedVerifies == VerifySelf(Current)
=============================================================================
