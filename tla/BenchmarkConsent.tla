--------------------------- MODULE BenchmarkConsent ---------------------------
(***************************************************************************)
(* Consent to the benchmark, the project's key, and the contributions that *)
(* depend on both (apps/cli/src/commands/benchmark.rs, project.rs,         *)
(* apps/api/src/routes/ingest.rs, contributions.rs, operator_entities.rs). *)
(*                                                                         *)
(* Consent is a table to which events are appended; a request that wants   *)
(* to contribute loads the key, reads the consent and stores what it has   *)
(* sealed, each on its own, while commands that withdraw the consent       *)
(* append their event and then destroy the key.                            *)
(*                                                                         *)
(* One project and one domain.  The key store is one step here: how its    *)
(* legs fail is in SecretChain, how the domain is proven in                *)
(* EntityVerification.                                                     *)
(***************************************************************************)
EXTENDS Integers, Sequences, SequencesExt

CONSTANTS
  Requests,    \* requests that contribute
  Commands,    \* runs of the command line
  MaxEvents,   \* bound: consent events
  MaxKeks,     \* bound: keys made
  MaxCallers   \* bound: requests and commands

VARIABLES
  consent,   \* rows of benchmark_consent, in order
  kek,       \* the project's key, 0 if there is none
  keksMade,  \* number of keys made
  claim,     \* the domain's entity: "absent", "unverified" or "verified"
  request,   \* request[r]: what a request is doing
  command,   \* command[c]: what a command is doing
  eraser,    \* an operator's erase of the domain
  outbox,    \* rows of anonymous_contributions
  named,     \* rows of contributions, the identified ones
  others,    \* another project has contributions linked to the domain
  callers,   \* number of requests and commands begun
  \* history
  withdrawn  \* opt-out rows whose command has reported success

consentVars == <<consent, kek, keksMade, claim, request, command, eraser, outbox, named, others, callers, withdrawn>>

\* The steps of each command, in the order of the code.
CommandSteps ==
  [optin |-> <<"optin">>,
   optinBrand |-> <<"checkAnonymous", "checkClaim", "optinBrand">>,
   optout |-> <<"optout", "readBrand", "optoutBrand", "destroy">>,
   optoutBrand |-> <<"optoutBrand">>,
   shred |-> <<"optout", "destroy">>]

\* Mutant of RequestSteps: the consent is read before the key is loaded.
ConsentBeforeKey ==
  [anonymous |-> <<"consent", "key", "store">>,
   identified |-> <<"key", "open", "resolve", "claim", "insert">>]

\* The steps of a request of each kind.
RequestSteps ==
  [anonymous |-> <<"key", "consent", "store">>,
   identified |-> <<"key", "open", "resolve", "claim", "insert">>]

\* key: the one the request has loaded; readAt: events there were when it read the
\* consent; priorKeks: keys made by the last withdrawal before it began.
NoRequest == [kind |-> "anonymous", at |-> 0, key |-> 0, readAt |-> 0, priorKeks |-> 0]
NoCommand == [call |-> "optin", at |-> 0, row |-> 0]

ConsentInit ==
  /\ consent = <<>> /\ kek = 0 /\ keksMade = 0
  /\ claim \in {"absent", "unverified", "verified"}
  /\ request = [r \in Requests |-> NoRequest]
  /\ command = [c \in Commands |-> NoCommand]
  /\ eraser = [step |-> "idle", unique |-> FALSE]
  /\ outbox = {} /\ named = {} /\ others = FALSE /\ callers = 0
  /\ withdrawn = [rows |-> {}, keks |-> 0]

\* latest_for_tier, and whether it is an opt-in.
Latest(tier) == SelectLastInSeq(consent, LAMBDA e : e.tier = tier)
TierActive(tier) == Latest(tier) # 0 /\ consent[Latest(tier)].event = "optin"
AppendConsent(event, tier) ==
  /\ Len(consent) < MaxEvents
  /\ consent' = Append(consent, [event |-> event, tier |-> tier])

Doing(c, s) ==
  command[c].at \in DOMAIN CommandSteps[command[c].call] /\ CommandSteps[command[c].call][command[c].at] = s

\* The command goes on by n steps, or ends; row is the opt-out row it has appended.
Onward(c, n, row) ==
  LET ends == command[c].at + n > Len(CommandSteps[command[c].call])
  IN  /\ command' = [command EXCEPT ![c] = IF ends THEN NoCommand
                                         ELSE [call |-> @.call, at |-> @.at + n, row |-> row]]
      /\ withdrawn' = IF ends /\ command[c].call \in {"optout", "shred"}
                      THEN [rows |-> withdrawn.rows \cup {row}, keks |-> keksMade]
                      ELSE withdrawn

InvokeCommand(c, what) ==
  /\ command[c].at = 0 /\ callers < MaxCallers
  /\ callers' = callers + 1
  /\ command' = [command EXCEPT ![c] = [NoCommand EXCEPT !.call = what, !.at = 1]]
  /\ UNCHANGED <<consent, kek, keksMade, claim, request, eraser, outbox, named, others, withdrawn>>

\* A prompt answered with no, an error of the database or of the key store, a crash.
CommandFails(c) ==
  /\ command[c].at # 0
  /\ command' = [command EXCEPT ![c] = NoCommand]
  /\ UNCHANGED <<consent, kek, keksMade, claim, request, eraser, outbox, named, others, callers, withdrawn>>

RecordOptin(c) ==
  /\ \/ Doing(c, "optin") /\ AppendConsent("optin", "anonymous")
     \/ Doing(c, "optinBrand") /\ AppendConsent("optin", "brand")
  /\ Onward(c, 1, 0)
  /\ UNCHANGED <<kek, keksMade, claim, request, eraser, outbox, named, others, callers>>

\* The brand tier asks for an active anonymous tier and a verified domain.
CheckForBrand(c) ==
  /\ \/ Doing(c, "checkAnonymous") /\ TierActive("anonymous")
     \/ Doing(c, "checkClaim") /\ claim = "verified"
  /\ Onward(c, 1, 0)
  /\ UNCHANGED <<consent, kek, keksMade, claim, request, eraser, outbox, named, others, callers>>

RecordOptout(c) ==
  /\ Doing(c, "optout")
  /\ AppendConsent("optout", "anonymous")
  /\ Onward(c, 1, Len(consent) + 1)
  /\ UNCHANGED <<kek, keksMade, claim, request, eraser, outbox, named, others, callers>>

\* A full opt-out revokes the brand tier if it is active.
ReadBrandTier(c) ==
  /\ Doing(c, "readBrand")
  /\ Onward(c, IF TierActive("brand") THEN 1 ELSE 2, command[c].row)
  /\ UNCHANGED <<consent, kek, keksMade, claim, request, eraser, outbox, named, others, callers>>

RecordBrandOptout(c) ==
  /\ Doing(c, "optoutBrand")
  /\ AppendConsent("optout", "brand")
  /\ Onward(c, 1, command[c].row)
  /\ UNCHANGED <<kek, keksMade, claim, request, eraser, outbox, named, others, callers>>

DestroyKek(c) ==
  /\ Doing(c, "destroy")
  /\ kek' = 0
  /\ Onward(c, 1, command[c].row)
  /\ UNCHANGED <<consent, keksMade, claim, request, eraser, outbox, named, others, callers>>

\* load_or_create.
MintKek ==
  /\ kek = 0 /\ keksMade < MaxKeks
  /\ keksMade' = keksMade + 1 /\ kek' = keksMade + 1
  /\ UNCHANGED <<consent, claim, request, command, eraser, outbox, named, others, callers, withdrawn>>

-----------------------------------------------------------------------------
OnStep(r, s) ==
  request[r].at \in DOMAIN RequestSteps[request[r].kind] /\ RequestSteps[request[r].kind][request[r].at] = s
Further(r, rec) == request' = [request EXCEPT ![r] = [rec EXCEPT !.at = @ + 1]]
Replied(r) == request' = [request EXCEPT ![r] = NoRequest]

\* A run with `contribute: true`, or a sealed contribution with a token.
ReceiveRequest(r, kind) ==
  /\ request[r].at = 0 /\ callers < MaxCallers
  /\ callers' = callers + 1
  /\ Further(r, [NoRequest EXCEPT !.kind = kind, !.priorKeks = withdrawn.keks])
  /\ UNCHANGED <<consent, kek, keksMade, claim, command, eraser, outbox, named, others, withdrawn>>

\* 403 kek_missing without a key.
LoadKek(r) ==
  /\ OnStep(r, "key")
  /\ IF kek = 0 THEN Replied(r) ELSE Further(r, [request[r] EXCEPT !.key = kek])
  /\ UNCHANGED <<consent, kek, keksMade, claim, command, eraser, outbox, named, others, callers, withdrawn>>

\* Without an active opt-in the run is stored and nothing contributed.
ReadConsent(r) ==
  /\ OnStep(r, "consent")
  /\ IF TierActive("anonymous") THEN Further(r, [request[r] EXCEPT !.readAt = Len(consent)]) ELSE Replied(r)
  /\ UNCHANGED <<consent, kek, keksMade, claim, command, eraser, outbox, named, others, callers, withdrawn>>

\* The seal goes into the transaction of the run.  The row it refers to is of the
\* project, the tier and the terms the INSERT asks for: rows are only appended.
StoreSealed(r) ==
  /\ OnStep(r, "store")
  /\ outbox' = outbox \cup {[key |-> request[r].key, readAt |-> request[r].readAt, priorKeks |-> request[r].priorKeks]}
  /\ Replied(r)
  /\ UNCHANGED <<consent, kek, keksMade, claim, command, eraser, named, others, callers, withdrawn>>

\* The client sealed it under the key of its day.
OpenSeal(r) ==
  /\ OnStep(r, "open")
  /\ \E s \in 1 .. keksMade : IF s = request[r].key THEN Further(r, request[r]) ELSE Replied(r)
  /\ UNCHANGED <<consent, kek, keksMade, claim, command, eraser, outbox, named, others, callers, withdrawn>>

\* The token must be that of an attempt it has proven, and the domain verified now:
\* two statements.  What the tier says is not asked.
ResolveToken(r) ==
  /\ OnStep(r, "resolve")
  /\ \E proven \in (IF claim = "absent" THEN {FALSE} ELSE BOOLEAN) : IF proven THEN Further(r, request[r]) ELSE Replied(r)
  /\ UNCHANGED <<consent, kek, keksMade, claim, command, eraser, outbox, named, others, callers, withdrawn>>

ReadClaim(r) ==
  /\ OnStep(r, "claim")
  /\ IF claim = "verified" THEN Further(r, request[r]) ELSE Replied(r)
  /\ UNCHANGED <<consent, kek, keksMade, claim, command, eraser, outbox, named, others, callers, withdrawn>>

\* The foreign keys: some consent row, of whatever tier and event, and the entity.
InsertIdentified(r) ==
  /\ OnStep(r, "insert")
  /\ IF consent # <<>> /\ claim # "absent"
     THEN named' = named \cup {[key |-> request[r].key, linked |-> TRUE, priorKeks |-> request[r].priorKeks]}
     ELSE UNCHANGED named
  /\ Replied(r)
  /\ UNCHANGED <<consent, kek, keksMade, claim, command, eraser, outbox, others, callers, withdrawn>>

\* An error of the database before the commit, or a client that goes away.
RequestFails(r) ==
  /\ request[r].at # 0
  /\ Replied(r)
  /\ UNCHANGED <<consent, kek, keksMade, claim, command, eraser, outbox, named, others, callers, withdrawn>>

-----------------------------------------------------------------------------
\* An operator erases the domain: the project it maps to is looked up first, rows are
\* deleted or delinked in one transaction, and then the key goes.
MapDomain ==
  /\ eraser.step = "idle" /\ claim # "absent"
  /\ eraser' = [step |-> "delete", unique |-> ~others /\ \E row \in named : row.linked]
  /\ UNCHANGED <<consent, kek, keksMade, claim, request, command, outbox, named, others, callers, withdrawn>>

EraseDomain ==
  /\ eraser.step = "delete"
  /\ claim' = "absent"
  /\ named' = {[row EXCEPT !.linked = FALSE] : row \in named}
  /\ others' = FALSE
  /\ eraser' = [eraser EXCEPT !.step = IF eraser.unique THEN "destroy" ELSE "idle"]
  /\ UNCHANGED <<consent, kek, keksMade, request, command, outbox, callers, withdrawn>>

\* A key store that fails leaves the key; there is nothing left to erase again.
EraseKek ==
  /\ eraser.step = "destroy"
  /\ kek' \in {0, kek}
  /\ eraser' = [eraser EXCEPT !.step = "idle"]
  /\ UNCHANGED <<consent, keksMade, claim, request, command, outbox, named, others, callers, withdrawn>>

\* The registry (EntityVerification), and the other projects.
ClaimChanges ==
  /\ claim' \in {"unverified", "verified"}
  /\ UNCHANGED <<consent, kek, keksMade, request, command, eraser, outbox, named, others, callers, withdrawn>>

OthersContribute ==
  /\ claim = "verified" /\ others' = TRUE
  /\ UNCHANGED <<consent, kek, keksMade, claim, request, command, eraser, outbox, named, callers, withdrawn>>

ConsentNext ==
  \/ \E c \in Commands :
       \/ \E what \in DOMAIN CommandSteps : InvokeCommand(c, what)
       \/ CommandFails(c) \/ RecordOptin(c) \/ CheckForBrand(c) \/ RecordOptout(c)
       \/ ReadBrandTier(c) \/ RecordBrandOptout(c) \/ DestroyKek(c)
  \/ \E r \in Requests :
       \/ \E kind \in DOMAIN RequestSteps : ReceiveRequest(r, kind)
       \/ LoadKek(r) \/ ReadConsent(r) \/ StoreSealed(r) \/ OpenSeal(r)
       \/ ResolveToken(r) \/ ReadClaim(r) \/ InsertIdentified(r) \/ RequestFails(r)
  \/ MintKek \/ MapDomain \/ EraseDomain \/ EraseKek \/ ClaimChanges \/ OthersContribute

ConsentSpec == ConsentInit /\ [][ConsentNext]_consentVars

-----------------------------------------------------------------------------
\* Once a full opt-out has reported success, the key in the store opens no contribution
\* of a request that read the consent before it, however late that request stored it;
\* and a request that begins after it contributes, of either kind, only under a key made
\* since.
OptOutHolds ==
  /\ \A row \in outbox : \A i \in withdrawn.rows : row.readAt < i => row.key # kek
  /\ \A row \in outbox \cup named : row.key > row.priorKeks
===============================================================================
