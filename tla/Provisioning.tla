----------------------------- MODULE Provisioning -----------------------------
(***************************************************************************)
(* Self-service signup and its saga (apps/api/src/routes/signup.rs,        *)
(* crates/storage/src/repositories/provisioning_saga.rs).                  *)
(*                                                                         *)
(* A signup is one request of eight statements, each committed by itself;  *)
(* nothing takes up a saga that was left half way.  The saga's constraint  *)
(* on the operator is DEFERRABLE, and Postgres refuses such a constraint   *)
(* as the arbiter of ON CONFLICT DO UPDATE: with the constraint as it is   *)
(* migrated the third statement always fails.  The constant says so, and   *)
(* with FALSE the module is the rest of the code, behind a constraint that *)
(* can arbitrate.                                                          *)
(***************************************************************************)
EXTENDS Integers, Sequences

CONSTANTS
  Signups,      \* signup requests; each creates at most one organization
  Addresses,    \* e-mail addresses
  Deferrable    \* saga_operator_unique is DEFERRABLE INITIALLY DEFERRED

ASSUME ProvisioningConstants == Deferrable \in BOOLEAN

VARIABLES
  signup,     \* signup[r]: [at, address], the statement a request has come to
  org,        \* org[r]: the organization of a request: [state, entitled, owner]
  saga,       \* saga[a]: the saga of the operator with an address
  verifying,  \* verifying[a]: what the handler of a verification has done
  faulted     \* history: requests that met a failure of the database

provisioningVars == <<signup, org, saga, verifying, faulted>>

Statements == <<"org", "operator", "saga", "kms", "entitle", "entitled", "owner", "ownerSet", "mail">>
NoOrg == [state |-> "none", entitled |-> FALSE, owner |-> FALSE]
\* The token is that of the request that made the saga; its hash is stored.
NoSaga == [step |-> "none", org |-> "none", expired |-> FALSE]

ProvisioningInit ==
  /\ signup = [r \in Signups |-> [at |-> 0, address |-> "none"]]
  /\ org = [r \in Signups |-> NoOrg]
  /\ saga = [a \in Addresses |-> NoSaga]
  /\ verifying = [a \in Addresses |-> "none"]
  /\ faulted = {}

Statement(r, s) == signup[r].at \in 1 .. Len(Statements) /\ Statements[signup[r].at] = s
AddressOf(r) == signup[r].address
\* Requests whose operator row exists: the address is the login, which is unique.
Registered(a) == \E r \in Signups : AddressOf(r) = a /\ (signup[r].at >= 3 \/ signup[r].at = -3)
\* at: 1.. the statement to come, Len + 1 answered 201, -1 answered 500, -3 answered 500
\* (or died) with the operator row committed.
Proceed(r) == signup' = [signup EXCEPT ![r].at = @ + 1]
Answer500(r) == signup' = [signup EXCEPT ![r].at = IF @ >= 3 THEN -3 ELSE -1]
Answered500(r) == signup[r].at < 0

SubmitSignup(r, a) ==
  /\ signup[r].at = 0
  /\ signup' = [signup EXCEPT ![r] = [at |-> 1, address |-> a]]
  /\ UNCHANGED <<org, saga, verifying, faulted>>

\* Any statement may fail, and the process may die before it: what is committed stays.
StatementFails(r) ==
  /\ signup[r].at \in 1 .. Len(Statements)
  /\ Answer500(r)
  /\ faulted' = faulted \cup {r}
  /\ UNCHANGED <<org, saga, verifying>>

\* The column's default is 'trial'.
CreateOrg(r) ==
  /\ Statement(r, "org")
  /\ org' = [org EXCEPT ![r].state = "trial"]
  /\ Proceed(r)
  /\ UNCHANGED <<saga, verifying, faulted>>

\* Mutant of CreateOperator: an existing operator is taken as it is.
CreateOperatorOrTake(r) ==
  /\ Statement(r, "operator")
  /\ Proceed(r)
  /\ UNCHANGED <<org, saga, verifying, faulted>>

CreateOperator(r) ==
  /\ Statement(r, "operator")
  /\ IF Registered(AddressOf(r)) THEN Answer500(r) ELSE Proceed(r)
  /\ UNCHANGED <<org, saga, verifying, faulted>>

CreateSaga(r) ==
  /\ Statement(r, "saga")
  /\ IF Deferrable
     THEN Answer500(r) /\ UNCHANGED saga
     ELSE /\ Proceed(r)
          /\ saga' = IF saga[AddressOf(r)] # NoSaga THEN saga
                     ELSE [saga EXCEPT ![AddressOf(r)] = [step |-> "created", org |-> r, expired |-> FALSE]]
  /\ UNCHANGED <<org, verifying, faulted>>

\* advance_*: a no-op unless the saga is at the step before.
Step(r, from, to) ==
  /\ saga' = IF saga[AddressOf(r)].step = from THEN [saga EXCEPT ![AddressOf(r)].step = to] ELSE saga
  /\ Proceed(r)
  /\ UNCHANGED <<org, verifying, faulted>>

AdvanceKms(r) == Statement(r, "kms") /\ Step(r, "created", "kms_done")
AdvanceEntitlement(r) == Statement(r, "entitled") /\ Step(r, "kms_done", "entitlement")
AdvanceOwnerSet(r) == Statement(r, "ownerSet") /\ Step(r, "entitlement", "owner_set")

UpsertEntitlement(r) ==
  /\ Statement(r, "entitle")
  /\ org' = [org EXCEPT ![r].entitled = TRUE]
  /\ Proceed(r)
  /\ UNCHANGED <<saga, verifying, faulted>>

AddOwner(r) ==
  /\ Statement(r, "owner")
  /\ org' = [org EXCEPT ![r].owner = TRUE]
  /\ Proceed(r)
  /\ UNCHANGED <<saga, verifying, faulted>>

MailToken(r) ==
  /\ Statement(r, "mail")
  /\ Proceed(r)
  /\ UNCHANGED <<org, saga, verifying, faulted>>

(***************************************************************************)
(* verify_email, by whoever was mailed the token the saga has.             *)
(***************************************************************************)
TokenMailed(a) == \E r \in Signups : saga[a].org = r /\ signup[r].at > Len(Statements)

FindSaga(a) ==
  /\ TokenMailed(a) /\ ~saga[a].expired /\ verifying[a] = "none"
  /\ verifying' = [verifying EXCEPT ![a] = "found"]
  /\ UNCHANGED <<signup, org, saga, faulted>>

CompleteSaga(a) ==
  /\ verifying[a] = "found"
  /\ IF saga[a].step = "owner_set" /\ ~saga[a].expired
     THEN /\ saga' = [saga EXCEPT ![a].step = "complete"]
          /\ verifying' = [verifying EXCEPT ![a] = "completed"]
     ELSE verifying' = [verifying EXCEPT ![a] = "none"] /\ UNCHANGED saga
  /\ UNCHANGED <<signup, org, faulted>>

SetTrial(a) ==
  /\ verifying[a] = "completed"
  /\ org' = [org EXCEPT ![saga[a].org].state = "trial"]
  /\ verifying' = [verifying EXCEPT ![a] = "none"]
  /\ UNCHANGED <<signup, saga, faulted>>

ExpireToken(a) ==
  /\ saga[a] # NoSaga /\ ~saga[a].expired
  /\ saga' = [saga EXCEPT ![a].expired = TRUE]
  /\ UNCHANGED <<signup, org, verifying, faulted>>

ProvisioningNext ==
  \/ \E r \in Signups :
       \/ \E a \in Addresses : SubmitSignup(r, a)
       \/ StatementFails(r) \/ CreateOrg(r) \/ CreateOperator(r) \/ CreateSaga(r)
       \/ AdvanceKms(r) \/ UpsertEntitlement(r) \/ AdvanceEntitlement(r)
       \/ AddOwner(r) \/ AdvanceOwnerSet(r) \/ MailToken(r)
  \/ \E a \in Addresses : FindSaga(a) \/ CompleteSaga(a) \/ SetTrial(a) \/ ExpireToken(a)

ProvisioningSpec == ProvisioningInit /\ [][ProvisioningNext]_provisioningVars

-----------------------------------------------------------------------------
Reached(a, steps) == saga[a].step \in steps

\* The step a saga has reached is true of its own organization, whatever other requests
\* of the same address do: the plan and the owner are there before the step says so.
SagaTellsTruth ==
  \A a \in Addresses :
    /\ Reached(a, {"entitlement", "owner_set", "complete"}) => org[saga[a].org].entitled
    /\ Reached(a, {"owner_set", "complete"}) => org[saga[a].org].owner

\* A signup with a new address is answered 500 only if the database failed it
\* (apps/api/src/routes/signup.rs:3-8, provisioning_saga.rs:35-37).
SignupSucceeds ==
  \A r \in Signups : Answered500(r) =>
    \/ r \in faulted
    \/ \E s \in Signups \ {r} : AddressOf(s) = AddressOf(r)
=============================================================================
