----------------------------- MODULE AccountProofs -----------------------------
(***************************************************************************)
(* Proofs about what customers and operators do to an account: the signup  *)
(* (Provisioning), for any number of requests and addresses and for either *)
(* form of the saga's constraint; the mail (Comms), for any number of      *)
(* concurrent sends and pages and without a bound on either; and disputes  *)
(* (DisputeReview), for any number of disputes and operators.              *)
(***************************************************************************)
EXTENDS Provisioning, Comms, DisputeReview, TLAPS

-----------------------------------------------------------------------------
(* Signups.                                                                *)

Orgs == [state : {"none", "trial"}, entitled : BOOLEAN, owner : BOOLEAN]
SagaSteps == {"none", "created", "kms_done", "entitlement", "owner_set", "complete"}
Sagas == [step : SagaSteps, org : Signups \cup {"none"}, expired : BOOLEAN]
HasOperator(r) == signup[r].at >= 3 \/ signup[r].at = -3

ProvisioningTypes ==
  /\ signup \in [Signups -> [at : {-3, -1} \cup 0 .. 10, address : Addresses \cup {"none"}]]
  /\ org \in [Signups -> Orgs]
  /\ saga \in [Addresses -> Sagas]
  /\ verifying \in [Addresses -> {"none", "found", "completed"}]

\* An address is the login of one operator, so one request of an address gets that far.
OneOperator ==
  \A r, s \in Signups :
    HasOperator(r) /\ HasOperator(s) /\ AddressOf(r) = AddressOf(s) => r = s

\* A saga belongs to the request that has the operator of its address.
SagaHasRequest ==
  \A a \in Addresses : saga[a].step # "none" =>
    saga[a].org \in Signups /\ AddressOf(saga[a].org) = a /\ HasOperator(saga[a].org)

\* What a request has done by the statement it has come to.
StatementsDone ==
  \A r \in Signups :
    /\ signup[r].at # 0 => AddressOf(r) \in Addresses
    /\ signup[r].at >= 6 => org[r].entitled
    /\ signup[r].at >= 8 => org[r].owner

ProvisioningInv ==
  ProvisioningTypes /\ OneOperator /\ SagaHasRequest /\ StatementsDone /\ SagaTellsTruth

-----------------------------------------------------------------------------
\* The number of each statement of a request.
LEMMA StatementNumbers ==
  ASSUME NEW r
  PROVE  /\ Len(Statements) = 9
         /\ Statement(r, "org") => signup[r].at = 1
         /\ Statement(r, "operator") => signup[r].at = 2
         /\ Statement(r, "saga") => signup[r].at = 3
         /\ Statement(r, "kms") => signup[r].at = 4
         /\ Statement(r, "entitle") => signup[r].at = 5
         /\ Statement(r, "entitled") => signup[r].at = 6
         /\ Statement(r, "owner") => signup[r].at = 7
         /\ Statement(r, "ownerSet") => signup[r].at = 8
         /\ Statement(r, "mail") => signup[r].at = 9
<1>1. Len(Statements) = 9 BY DEF Statements
<1>2. ASSUME NEW i \in 1 .. 9
      PROVE  i = 1 \/ i = 2 \/ i = 3 \/ i = 4 \/ i = 5 \/ i = 6 \/ i = 7 \/ i = 8 \/ i = 9
  OBVIOUS
<1>3. /\ Statements[1] = "org" /\ Statements[2] = "operator" /\ Statements[3] = "saga"
      /\ Statements[4] = "kms" /\ Statements[5] = "entitle" /\ Statements[6] = "entitled"
      /\ Statements[7] = "owner" /\ Statements[8] = "ownerSet" /\ Statements[9] = "mail"
  BY DEF Statements
<1> QED BY <1>1, <1>2, <1>3 DEF Statement

\* Nobody has signed up in the initial state.
LEMMA InitProvisioning == ProvisioningInit => ProvisioningInv
BY DEF ProvisioningInit, ProvisioningInv, ProvisioningTypes, OneOperator, SagaHasRequest,
       StatementsDone, SagaTellsTruth, Reached, HasOperator, AddressOf, NoOrg, NoSaga, Orgs, Sagas, SagaSteps

\* How a request that goes on, or is answered, leaves the requests.
Moved(r, at) ==
  /\ signup' \in [Signups -> [at : {-3, -1} \cup 0 .. 10, address : Addresses \cup {"none"}]]
  /\ OneOperator'
  /\ signup'[r].at = at
  /\ \A s \in Signups :
       /\ s # r => signup'[s] = signup[s]
       /\ AddressOf(s)' = AddressOf(s)
       /\ HasOperator(s) => HasOperator(s)'

\* A request goes on; past the second statement only if its address has no operator yet.
LEMMA RequestProceeds ==
  ASSUME ProvisioningTypes, OneOperator, NEW r \in Signups,
         signup[r].at \in 1 .. 9, Proceed(r), signup[r].at = 2 => ~Registered(AddressOf(r))
  PROVE  Moved(r, signup[r].at + 1)
<1>1. signup[r].at + 1 \in 0 .. 10 OBVIOUS
<1>2. /\ signup' \in [Signups -> [at : {-3, -1} \cup 0 .. 10, address : Addresses \cup {"none"}]]
      /\ signup'[r].at = signup[r].at + 1 /\ signup'[r].address = signup[r].address
      /\ \A s \in Signups : s # r => signup'[s] = signup[s]
  BY <1>1 DEF ProvisioningTypes, Proceed
<1>3. \A s \in Signups : HasOperator(s)' => HasOperator(s) \/ (s = r /\ signup[r].at = 2)
  BY <1>2 DEF HasOperator, ProvisioningTypes
<1>4. ASSUME signup[r].at = 2, NEW s \in Signups, HasOperator(s) PROVE AddressOf(s) # AddressOf(r)
  BY <1>4 DEF Registered, HasOperator
<1>5. OneOperator'
  BY <1>2, <1>3, <1>4 DEF OneOperator, AddressOf
<1> QED BY <1>2, <1>5 DEF Moved, AddressOf, HasOperator

\* A request is answered 500; an operator that was committed stays.
LEMMA RequestAnswered ==
  ASSUME ProvisioningTypes, OneOperator, NEW r \in Signups, signup[r].at \in 1 .. 9, Answer500(r)
  PROVE  \E at \in {-3, -1} : Moved(r, at)
<1> DEFINE at == IF signup[r].at >= 3 THEN -3 ELSE -1
<1>1. at \in {-3, -1} OBVIOUS
<1>2. signup' = [signup EXCEPT ![r].at = at] BY DEF Answer500
<1>3. at = -3 <=> signup[r].at >= 3 OBVIOUS
<1> HIDE DEF at
<1>4. /\ signup' \in [Signups -> [at : {-3, -1} \cup 0 .. 10, address : Addresses \cup {"none"}]]
      /\ signup'[r].at = at /\ signup'[r].address = signup[r].address
      /\ \A s \in Signups : s # r => signup'[s] = signup[s]
  BY <1>1, <1>2 DEF ProvisioningTypes
<1>5. \A s \in Signups : HasOperator(s)' <=> HasOperator(s)
  BY <1>1, <1>3, <1>4 DEF HasOperator
<1>6. OneOperator' BY <1>4, <1>5 DEF OneOperator, AddressOf
<1> QED BY <1>1, <1>4, <1>5, <1>6 DEF Moved, AddressOf

\* A request that has moved, with what it had to do done, keeps the invariant.
LEMMA MoveKeepsInv ==
  ASSUME ProvisioningInv, NEW r \in Signups, NEW at \in {-3, -1} \cup 1 .. 10, Moved(r, at),
         signup[r].at # 0, UNCHANGED <<saga, verifying>>,
         org' \in [Signups -> Orgs],
         \A s \in Signups : /\ org[s].entitled => org'[s].entitled
                            /\ org[s].owner => org'[s].owner,
         at >= 6 => org'[r].entitled,
         at >= 8 => org'[r].owner
  PROVE  ProvisioningInv'
<1>1. ProvisioningTypes' BY DEF ProvisioningInv, ProvisioningTypes, Moved
<1>2. SagaHasRequest'
  BY DEF ProvisioningInv, SagaHasRequest, Moved, HasOperator, AddressOf
<1>3. StatementsDone'
  <2> SUFFICES ASSUME NEW s \in Signups
               PROVE  /\ signup'[s].at # 0 => AddressOf(s)' \in Addresses
                      /\ signup'[s].at >= 6 => org'[s].entitled
                      /\ signup'[s].at >= 8 => org'[s].owner
    BY DEF StatementsDone
  <2>1. CASE s = r BY <2>1 DEF ProvisioningInv, StatementsDone, Moved
  <2>2. CASE s # r BY <2>2 DEF ProvisioningInv, StatementsDone, Moved
  <2> QED BY <2>1, <2>2
<1>4. SagaTellsTruth'
  BY DEF ProvisioningInv, SagaTellsTruth, SagaHasRequest, Reached
<1> QED BY <1>1, <1>2, <1>3, <1>4 DEF ProvisioningInv, Moved

\* The statements up to the saga.
LEMMA BeginningKeepsInv ==
  ASSUME ProvisioningInv, NEW r \in Signups,
         \/ \E a \in Addresses : SubmitSignup(r, a)
         \/ StatementFails(r) \/ CreateOrg(r) \/ CreateOperator(r) \/ CreateSaga(r)
  PROVE  ProvisioningInv'
<1> USE StatementNumbers
<1>1. ASSUME NEW a \in Addresses, SubmitSignup(r, a) PROVE ProvisioningInv'
  <2>1. /\ signup' \in [Signups -> [at : {-3, -1} \cup 0 .. 10, address : Addresses \cup {"none"}]]
        /\ signup'[r].at = 1 /\ signup'[r].address = a /\ signup[r].at = 0
        /\ \A s \in Signups : s # r => signup'[s] = signup[s]
    BY <1>1 DEF SubmitSignup, ProvisioningInv, ProvisioningTypes
  <2>2. \A s \in Signups :
          /\ HasOperator(s)' <=> HasOperator(s)
          /\ HasOperator(s) => s # r /\ AddressOf(s)' = AddressOf(s)
    BY <2>1 DEF HasOperator, AddressOf
  <2>3. OneOperator' BY <2>2 DEF ProvisioningInv, OneOperator
  <2>4. StatementsDone'
    BY <1>1, <2>1 DEF SubmitSignup, ProvisioningInv, StatementsDone, AddressOf
  <2>5. SagaHasRequest'
    BY <1>1, <2>1 DEF SubmitSignup, ProvisioningInv, SagaHasRequest, HasOperator, AddressOf
  <2> QED BY <1>1, <2>1, <2>3, <2>4, <2>5
          DEF SubmitSignup, ProvisioningInv, ProvisioningTypes, SagaTellsTruth, Reached
<1>2. ASSUME signup[r].at \in 1 .. 9, Answer500(r), UNCHANGED <<org, saga, verifying>>
      PROVE  ProvisioningInv'
  <2>1. PICK at \in {-3, -1} : Moved(r, at)
    BY <1>2, RequestAnswered DEF ProvisioningInv
  <2> QED BY <1>2, <2>1, MoveKeepsInv DEF ProvisioningInv, ProvisioningTypes
<1>3. CASE StatementFails(r) BY <1>2, <1>3 DEF StatementFails
<1>4. CASE CreateOrg(r)
  <2>1. Moved(r, 2) BY <1>4, RequestProceeds DEF CreateOrg, ProvisioningInv
  <2>2. /\ org' \in [Signups -> Orgs]
        /\ \A s \in Signups : (org[s].entitled => org'[s].entitled) /\ (org[s].owner => org'[s].owner)
    BY <1>4 DEF CreateOrg, ProvisioningInv, ProvisioningTypes, Orgs
  <2> QED BY <1>4, <2>1, <2>2, MoveKeepsInv DEF CreateOrg
<1>5. CASE CreateOperator(r)
  <2>1. CASE Registered(AddressOf(r)) BY <1>2, <1>5, <2>1 DEF CreateOperator
  <2>2. CASE ~Registered(AddressOf(r))
    <3>1. Moved(r, 3) BY <1>5, <2>2, RequestProceeds DEF CreateOperator, ProvisioningInv
    <3> QED BY <1>5, <2>2, <3>1, MoveKeepsInv DEF CreateOperator, ProvisioningInv, ProvisioningTypes
  <2> QED BY <2>1, <2>2
<1>6. CASE CreateSaga(r)
  <2>1. CASE Deferrable BY <1>2, <1>6, <2>1 DEF CreateSaga
  <2>2. CASE ~Deferrable
    <3>1. Moved(r, 4) BY <1>6, <2>2, RequestProceeds DEF CreateSaga, ProvisioningInv
    <3>2. AddressOf(r) \in Addresses BY <1>6 DEF CreateSaga, ProvisioningInv, StatementsDone
    <3>3. CASE saga[AddressOf(r)] # NoSaga
      BY <1>6, <2>2, <3>1, <3>3, MoveKeepsInv DEF CreateSaga, ProvisioningInv, ProvisioningTypes
    <3>4. CASE saga[AddressOf(r)] = NoSaga
      <4>1. saga' = [saga EXCEPT ![AddressOf(r)] = [step |-> "created", org |-> r, expired |-> FALSE]]
        BY <1>6, <2>2, <3>4 DEF CreateSaga
      <4>2. saga' \in [Addresses -> Sagas]
        BY <3>2, <4>1 DEF ProvisioningInv, ProvisioningTypes, Sagas, SagaSteps
      <4>3. SagaHasRequest'
        BY <3>1, <3>2, <4>1
           DEF ProvisioningInv, ProvisioningTypes, SagaHasRequest, Moved, HasOperator, AddressOf
      <4>4. StatementsDone'
        BY <1>6, <3>1 DEF CreateSaga, ProvisioningInv, StatementsDone, Moved
      <4>5. SagaTellsTruth'
        BY <1>6, <3>2, <4>1
           DEF CreateSaga, ProvisioningInv, ProvisioningTypes, SagaTellsTruth, Reached
      <4> QED BY <1>6, <3>1, <4>2, <4>3, <4>4, <4>5
              DEF CreateSaga, Moved, ProvisioningInv, ProvisioningTypes
    <3> QED BY <3>3, <3>4
  <2> QED BY <2>1, <2>2
<1> QED BY <1>1, <1>3, <1>4, <1>5, <1>6

\* An advance finds the saga of its address at the step before: then it is its own saga.
LEMMA OwnSaga ==
  ASSUME ProvisioningInv, NEW r \in Signups, signup[r].at \in 3 .. 9
  PROVE  /\ AddressOf(r) \in Addresses
         /\ saga[AddressOf(r)].step # "none" => saga[AddressOf(r)].org = r
<1> USE DEF ProvisioningInv, StatementsDone, SagaHasRequest, OneOperator
<1>1. HasOperator(r) BY DEF HasOperator
<1>2. AddressOf(r) \in Addresses OBVIOUS
<1> QED BY <1>1, <1>2

\* The three advances of a request.
LEMMA StepKeepsInv ==
  ASSUME ProvisioningInv, NEW r \in Signups, NEW from, NEW to, Step(r, from, to),
         \/ signup[r].at = 4 /\ from = "created" /\ to = "kms_done"
         \/ signup[r].at = 6 /\ from = "kms_done" /\ to = "entitlement"
         \/ signup[r].at = 8 /\ from = "entitlement" /\ to = "owner_set"
  PROVE  ProvisioningInv'
<1>1. Moved(r, signup[r].at + 1) BY RequestProceeds DEF Step, ProvisioningInv
<1>2. AddressOf(r) \in Addresses BY OwnSaga
<1>3. CASE saga[AddressOf(r)].step = from
  <2>1. saga[AddressOf(r)].org = r BY <1>3, OwnSaga
  <2>2. saga' = [saga EXCEPT ![AddressOf(r)].step = to] BY <1>3 DEF Step
  <2>3. /\ saga' \in [Addresses -> Sagas]
        /\ \A a \in Addresses : saga'[a].org = saga[a].org /\ (a # AddressOf(r) => saga'[a] = saga[a])
        /\ saga'[AddressOf(r)].step = to
    BY <1>2, <2>2 DEF ProvisioningInv, ProvisioningTypes, Sagas, SagaSteps
  <2>4. SagaHasRequest'
    BY <1>1, <1>2, <1>3, <2>1, <2>3 DEF ProvisioningInv, SagaHasRequest, Moved, HasOperator, AddressOf
  <2>5. StatementsDone' BY <1>1 DEF Moved, Step, ProvisioningInv, StatementsDone
  <2>6. SagaTellsTruth'
    BY <1>2, <1>3, <2>1, <2>3 DEF Step, ProvisioningInv, StatementsDone, SagaTellsTruth, Reached
  <2> QED BY <1>1, <2>3, <2>4, <2>5, <2>6 DEF Moved, Step, ProvisioningInv, ProvisioningTypes
<1>4. CASE saga[AddressOf(r)].step # from
  BY <1>1, <1>4, MoveKeepsInv DEF Step, ProvisioningInv, ProvisioningTypes, StatementsDone
<1> QED BY <1>3, <1>4

\* The statements that follow the saga.
LEMMA AdvancesKeepInv ==
  ASSUME ProvisioningInv, NEW r \in Signups,
         \/ AdvanceKms(r) \/ UpsertEntitlement(r) \/ AdvanceEntitlement(r)
         \/ AddOwner(r) \/ AdvanceOwnerSet(r) \/ MailToken(r)
  PROVE  ProvisioningInv'
<1> USE StatementNumbers
<1>1. CASE AdvanceKms(r) BY <1>1, StepKeepsInv DEF AdvanceKms
<1>2. CASE AdvanceEntitlement(r) BY <1>2, StepKeepsInv DEF AdvanceEntitlement
<1>3. CASE AdvanceOwnerSet(r) BY <1>3, StepKeepsInv DEF AdvanceOwnerSet
<1>4. CASE UpsertEntitlement(r)
  <2>1. Moved(r, 6) BY <1>4, RequestProceeds DEF UpsertEntitlement, ProvisioningInv
  <2>2. /\ org' \in [Signups -> Orgs] /\ org'[r].entitled
        /\ \A s \in Signups : (org[s].entitled => org'[s].entitled) /\ (org[s].owner => org'[s].owner)
    <3>1. /\ r \in Signups /\ org \in [Signups -> Orgs]
          /\ org' = [org EXCEPT ![r].entitled = TRUE]
      BY <1>4 DEF UpsertEntitlement, ProvisioningInv, ProvisioningTypes
    <3> QED BY ONLY <3>1 DEF Orgs
  <2>3. signup[r].at # 0 /\ UNCHANGED <<saga, verifying>> BY <1>4 DEF UpsertEntitlement
  <2>4. 6 \in {-3, -1} \cup 1 .. 10 /\ ~(6 >= 8) OBVIOUS
  <2> QED BY <2>1, <2>2, <2>3, <2>4, MoveKeepsInv, Zenon
<1>5. CASE AddOwner(r)
  <2>1. Moved(r, 8) BY <1>5, RequestProceeds DEF AddOwner, ProvisioningInv
  <2>2. /\ org' \in [Signups -> Orgs] /\ org'[r].owner
        /\ \A s \in Signups : (org[s].entitled => org'[s].entitled) /\ (org[s].owner => org'[s].owner)
    <3>1. /\ r \in Signups /\ org \in [Signups -> Orgs]
          /\ org' = [org EXCEPT ![r].owner = TRUE]
      BY <1>5 DEF AddOwner, ProvisioningInv, ProvisioningTypes
    <3> QED BY ONLY <3>1 DEF Orgs
  <2>3. signup[r].at # 0 /\ UNCHANGED <<saga, verifying>> BY <1>5 DEF AddOwner
  <2>4. org[r].entitled BY <1>5 DEF AddOwner, ProvisioningInv, StatementsDone
  <2>5. 8 \in {-3, -1} \cup 1 .. 10 OBVIOUS
  <2> QED BY <2>1, <2>2, <2>3, <2>4, <2>5, MoveKeepsInv, Zenon
<1>6. CASE MailToken(r)
  <2>1. Moved(r, 10) BY <1>6, RequestProceeds DEF MailToken, ProvisioningInv
  <2> QED BY <1>6, <2>1, MoveKeepsInv
          DEF MailToken, ProvisioningInv, ProvisioningTypes, StatementsDone
<1> QED BY <1>1, <1>2, <1>3, <1>4, <1>5, <1>6

\* The verification of an address, which touches its own saga.
LEMMA VerificationKeepsInv ==
  ASSUME ProvisioningInv, NEW a \in Addresses,
         FindSaga(a) \/ CompleteSaga(a) \/ SetTrial(a) \/ ExpireToken(a)
  PROVE  ProvisioningInv'
<1>1. CASE FindSaga(a)
  BY <1>1 DEF FindSaga, ProvisioningInv, ProvisioningTypes, OneOperator, SagaHasRequest, StatementsDone,
              SagaTellsTruth, Reached, HasOperator, AddressOf
<1>2. CASE CompleteSaga(a)
  <2>1. CASE saga[a].step = "owner_set" /\ ~saga[a].expired
    <3>1. saga' = [saga EXCEPT ![a].step = "complete"] /\ verifying' = [verifying EXCEPT ![a] = "completed"]
      BY <1>2, <2>1 DEF CompleteSaga
    <3>2. saga' \in [Addresses -> Sagas]
      BY <3>1 DEF ProvisioningInv, ProvisioningTypes, Sagas, SagaSteps
    <3>3. \A b \in Addresses : /\ saga'[b].org = saga[b].org /\ (b # a => saga'[b] = saga[b])
                              /\ saga'[a].step = "complete"
      BY <3>1 DEF ProvisioningInv, ProvisioningTypes, Sagas
    <3>4. verifying' \in [Addresses -> {"none", "found", "completed"}]
      BY <3>1 DEF ProvisioningInv, ProvisioningTypes
    <3> QED BY <1>2, <2>1, <3>2, <3>3, <3>4
            DEF CompleteSaga, ProvisioningInv, ProvisioningTypes, OneOperator, SagaHasRequest,
                StatementsDone, SagaTellsTruth, Reached, HasOperator, AddressOf
  <2>2. CASE ~(saga[a].step = "owner_set" /\ ~saga[a].expired)
    BY <1>2, <2>2 DEF CompleteSaga, ProvisioningInv, ProvisioningTypes, OneOperator, SagaHasRequest,
                      StatementsDone, SagaTellsTruth, Reached, HasOperator, AddressOf
  <2> QED BY <2>1, <2>2
<1>3. CASE SetTrial(a)
  <2>1. /\ org' \in [Signups -> Orgs]
        /\ \A s \in Signups : (org[s].entitled => org'[s].entitled) /\ (org[s].owner => org'[s].owner)
    BY <1>3 DEF SetTrial, Orgs, ProvisioningInv, ProvisioningTypes
  <2>2. verifying' \in [Addresses -> {"none", "found", "completed"}]
    BY <1>3 DEF SetTrial, ProvisioningInv, ProvisioningTypes
  <2> QED BY <1>3, <2>1, <2>2
          DEF SetTrial, ProvisioningInv, ProvisioningTypes, OneOperator, SagaHasRequest,
              StatementsDone, SagaTellsTruth, Reached, HasOperator, AddressOf
<1>4. CASE ExpireToken(a)
  <2>1. /\ saga' \in [Addresses -> Sagas]
        /\ \A b \in Addresses : saga'[b].org = saga[b].org /\ saga'[b].step = saga[b].step
    BY <1>4 DEF ExpireToken, Sagas, ProvisioningInv, ProvisioningTypes
  <2> QED BY <1>4, <2>1
          DEF ExpireToken, ProvisioningInv, ProvisioningTypes, OneOperator, SagaHasRequest,
              StatementsDone, SagaTellsTruth, Reached, HasOperator, AddressOf
<1> QED BY <1>1, <1>2, <1>3, <1>4

\* Every step keeps the invariant.
LEMMA NextProvisioning == ProvisioningInv /\ [ProvisioningNext]_provisioningVars => ProvisioningInv'
<1> SUFFICES ASSUME ProvisioningInv, [ProvisioningNext]_provisioningVars PROVE ProvisioningInv'
  OBVIOUS
<1>1. CASE ProvisioningNext
  BY <1>1, BeginningKeepsInv, AdvancesKeepInv, VerificationKeepsInv DEF ProvisioningNext
<1>2. CASE UNCHANGED provisioningVars
  BY <1>2 DEF provisioningVars, ProvisioningInv, ProvisioningTypes, OneOperator, SagaHasRequest,
       StatementsDone, SagaTellsTruth, Reached, HasOperator, AddressOf
<1> QED BY <1>1, <1>2

\* The step of a saga (provisioning_saga.rs: advance_*, complete) is true of the
\* organization it names, however many requests of the address are under way or failed.
THEOREM SagaTellsTruthAlways == ProvisioningSpec => []SagaTellsTruth
<1>1. ProvisioningInv => SagaTellsTruth BY DEF ProvisioningInv
<1> QED BY <1>1, InitProvisioning, NextProvisioning, PTL DEF ProvisioningSpec

-----------------------------------------------------------------------------
(* Mail.                                                                   *)

MailSteps == {"idle", "preferences", "list", "marketing", "reserve", "link", "downgrade"}
PageSteps == {"idle", "save", "suppress", "turnOff"}

\* What the sends, the pages and the rows look like; a reservation is one row at most.
CommsTypes ==
  /\ subscription \in [exists : BOOLEAN, on : BOOLEAN, off : BOOLEAN, eu : BOOLEAN]
  /\ listed \in BOOLEAN
  /\ sendLog \in [sent : {0, 1}, failed : Nat]
  /\ mailer \in [Mailers -> [step : MailSteps, after : BOOLEAN, welcome : BOOLEAN]]
  /\ page \in [Pages -> [step : PageSteps, on : BOOLEAN, off : BOOLEAN]]
  /\ unsubscribed \in BOOLEAN /\ unwelcome \in BOOLEAN /\ misreported \in BOOLEAN
  /\ deliveries \in Nat

\* Nothing takes an address off the suppression list, the list is written before the
\* acknowledgment, and a send looks at it after it has begun.
ListBindsSends ==
  /\ ~unwelcome
  /\ unsubscribed => listed
  /\ \A p \in Pages : page[p].step = "turnOff" => listed
  /\ \A m \in Mailers :
       /\ mailer[m].after => unsubscribed
       /\ mailer[m].step = "marketing" => ~mailer[m].after

\* The row of the key is there from the reservation on, and its holder is alone.
OneHolder ==
  ~misreported =>
    /\ deliveries \in {0, 1}
    /\ deliveries = 1 => sendLog.sent = 1
    /\ \A m \in Mailers : mailer[m].step \in {"link", "downgrade"} =>
         /\ sendLog.sent = 1 /\ deliveries = 0
         /\ \A n \in Mailers \ {m} : mailer[n].step \notin {"link", "downgrade"}

CommsInv == CommsTypes /\ ListBindsSends /\ OneHolder

-----------------------------------------------------------------------------
\* In the initial states nobody has begun, and nothing has gone out.
LEMMA InitComms == CommsInit => CommsInv
<1> SUFFICES ASSUME CommsInit PROVE CommsInv
  OBVIOUS
<1> USE DEF CommsInit, NoMail, NoPage
<1>1. subscription \in [exists : BOOLEAN, on : BOOLEAN, off : BOOLEAN, eu : BOOLEAN]
  <2>1. CASE subscription = [exists |-> FALSE, on |-> FALSE, off |-> FALSE, eu |-> FALSE]
    BY <2>1
  <2>2. CASE subscription \in [exists : {TRUE}, on : BOOLEAN, off : {FALSE}, eu : BOOLEAN]
    BY <2>2
  <2> QED BY <2>1, <2>2 DEF Subscriptions
<1>2. CommsTypes BY <1>1 DEF CommsTypes, MailSteps, PageSteps
<1> QED BY <1>2 DEF CommsInv, ListBindsSends, OneHolder

\* A send that ends leaves what it has written.
LEMMA EndKeepsInv ==
  ASSUME CommsInv, NEW m \in Mailers, MailEnds(m),
         UNCHANGED <<subscription, listed, sendLog, page, unsubscribed, unwelcome, deliveries, misreported>>
  PROVE  CommsInv'
BY DEF CommsInv, CommsTypes, ListBindsSends, OneHolder, MailSteps, NoMail, MailEnds

\* The five steps of a marketing send.
LEMMA MarketingKeepsInv ==
  ASSUME CommsInv, NEW m \in Mailers,
         BeginMarketing(m) \/ ReadSubscription(m) \/ DecideMarketing(m) \/ HandOver(m) \/ MailFails(m)
  PROVE  CommsInv'
<1> USE DEF CommsInv, CommsTypes, ListBindsSends, OneHolder, MailSteps, NoMail, MailStep, MailEnds, CountMail
<1>1. CASE BeginMarketing(m) BY <1>1 DEF BeginMarketing
<1>2. CASE ReadSubscription(m)
  <2>1. CASE subscription.exists
    <3> DEFINE sees == subscription.on /\ ~subscription.off /\ ~subscription.eu
    <3>1. sees \in BOOLEAN OBVIOUS
    <3>2. mailer' = [mailer EXCEPT ![m].step = "list", ![m].welcome = sees]
      BY <1>2, <2>1 DEF ReadSubscription
    <3> HIDE DEF sees
    <3> QED BY <1>2, <3>1, <3>2 DEF ReadSubscription
  <2>2. CASE ~subscription.exists BY <1>2, <2>2, EndKeepsInv DEF ReadSubscription
  <2> QED BY <2>1, <2>2
<1>3. CASE DecideMarketing(m)
  <2>1. CASE mailer[m].welcome /\ ~listed BY <1>3, <2>1 DEF DecideMarketing
  <2>2. CASE ~(mailer[m].welcome /\ ~listed) BY <1>3, <2>2, EndKeepsInv DEF DecideMarketing
  <2> QED BY <2>1, <2>2
<1>4. CASE HandOver(m) BY <1>4 DEF HandOver
<1>5. CASE MailFails(m) BY <1>5 DEF MailFails
<1> QED BY <1>1, <1>2, <1>3, <1>4, <1>5

\* The steps of a send with a dedup key: the reservation lets one in, and only a holder
\* gives it up.
LEMMA MagicLinkKeepsInv ==
  ASSUME CommsInv, NEW m \in Mailers,
         BeginMagicLink(m) \/ ReserveDedup(m) \/ DeliverLink(m) \/ TransportRefuses(m) \/ MarkDedupFailed(m)
  PROVE  CommsInv'
<1> USE DEF CommsInv, CommsTypes, ListBindsSends, OneHolder, MailSteps, NoMail, MailStep, MailEnds, CountMail
<1>1. CASE BeginMagicLink(m) BY <1>1 DEF BeginMagicLink
<1>2. CASE ReserveDedup(m)
  <2>1. CASE sendLog.sent = 0
    <3>1. /\ mailer' = [mailer EXCEPT ![m].step = "link"]
          /\ sendLog' = [sendLog EXCEPT !.sent = 1]
          /\ UNCHANGED <<subscription, listed, page, unsubscribed, unwelcome, deliveries, misreported>>
      BY <1>2, <2>1 DEF ReserveDedup
    <3>2. /\ sendLog' \in [sent : {0, 1}, failed : Nat] /\ sendLog'.sent = 1
          /\ mailer' \in [Mailers -> [step : MailSteps, after : BOOLEAN, welcome : BOOLEAN]]
          /\ mailer'[m].step = "link" /\ mailer'[m].after = mailer[m].after
          /\ \A n \in Mailers \ {m} : mailer'[n] = mailer[n]
      BY <3>1
    <3>3. ~misreported => /\ deliveries = 0
                         /\ \A n \in Mailers : mailer[n].step \notin {"link", "downgrade"}
      BY <2>1
    <3> QED BY <3>1, <3>2, <3>3
  <2>2. CASE sendLog.sent # 0 BY <1>2, <2>2, EndKeepsInv DEF ReserveDedup
  <2> QED BY <2>1, <2>2
<1>3. CASE DeliverLink(m)
  <2>1. CASE misreported' = misreported /\ MailEnds(m) BY <1>3, <2>1 DEF DeliverLink
  <2>2. CASE misreported' = TRUE /\ MailStep(m, "link", "downgrade") BY <1>3, <2>2 DEF DeliverLink
  <2>3. \E reported \in {TRUE, FALSE} :
          /\ misreported' = (misreported \/ ~reported)
          /\ IF reported THEN MailEnds(m) ELSE MailStep(m, "link", "downgrade")
    BY <1>3 DEF DeliverLink
  <2>4. misreported = TRUE \/ misreported = FALSE OBVIOUS
  <2> QED BY ONLY <2>1, <2>2, <2>3, <2>4
<1>4. CASE TransportRefuses(m) BY <1>4 DEF TransportRefuses
<1>5. CASE MarkDedupFailed(m) BY <1>5 DEF MarkDedupFailed
<1> QED BY <1>1, <1>2, <1>3, <1>4, <1>5

\* The preference center, and what happens to the rows besides.
LEMMA PagesKeepInv ==
  ASSUME CommsInv,
         \/ \E eu \in BOOLEAN : Subscribe(eu)
         \/ \E p \in Pages :
              \/ ResolveForm(p) \/ SaveForm(p) \/ ResolveUnsubscribe(p)
              \/ Suppress(p) \/ TurnOff(p) \/ PageFails(p)
         \/ ExpireLink
  PROVE  CommsInv'
<1> USE DEF CommsInv, CommsTypes, ListBindsSends, OneHolder, PageSteps, NoPage, PageStep, PageEnds, CountMail
<1>1. ASSUME NEW eu \in BOOLEAN, Subscribe(eu) PROVE CommsInv'
  BY <1>1 DEF Subscribe
<1>2. ASSUME NEW p \in Pages, ResolveForm(p) PROVE CommsInv'
  BY <1>2 DEF ResolveForm
<1>3. ASSUME NEW p \in Pages, SaveForm(p) PROVE CommsInv'
  BY <1>3 DEF SaveForm
<1>4. ASSUME NEW p \in Pages, ResolveUnsubscribe(p) PROVE CommsInv'
  BY <1>4 DEF ResolveUnsubscribe
<1>5. ASSUME NEW p \in Pages, Suppress(p) PROVE CommsInv'
  BY <1>5 DEF Suppress
<1>6. ASSUME NEW p \in Pages, TurnOff(p) PROVE CommsInv'
  BY <1>6 DEF TurnOff
<1>7. ASSUME NEW p \in Pages, PageFails(p) PROVE CommsInv'
  BY <1>7 DEF PageFails
<1>8. CASE ExpireLink BY <1>8 DEF ExpireLink
<1> QED BY <1>1, <1>2, <1>3, <1>4, <1>5, <1>6, <1>7, <1>8

\* Every step keeps the invariant.
LEMMA NextComms == CommsInv /\ [CommsNext]_commsVars => CommsInv'
<1> SUFFICES ASSUME CommsInv, [CommsNext]_commsVars PROVE CommsInv'
  OBVIOUS
<1>1. CASE CommsNext
  BY <1>1, MarketingKeepsInv, MagicLinkKeepsInv, PagesKeepInv DEF CommsNext
<1>2. CASE UNCHANGED commsVars
  BY <1>2 DEF commsVars, CommsInv, CommsTypes, ListBindsSends, OneHolder
<1> QED BY <1>1, <1>2

\* The invariant of the preference center and the send log.
THEOREM CommsInvariant == CommsSpec => []CommsInv
BY InitComms, NextComms, PTL DEF CommsSpec

\* An acknowledged unsubscribe binds every marketing send that begins after it
\* (dispatch.rs reads the suppression list after the preferences).
THEOREM UnsubscribeHoldsAlways == CommsSpec => []UnsubscribeHolds
<1>1. CommsInv => UnsubscribeHolds BY DEF CommsInv, ListBindsSends, UnsubscribeHolds
<1> QED BY <1>1, CommsInvariant, PTL

\* A dedup key lets one message out (repo.rs: the partial unique index on the sent rows),
\* unless the transport called a delivery a failure.
THEOREM DeliveredOnceAlways == CommsSpec => []DeliveredOnce
<1>1. CommsInv => DeliveredOnce BY DEF CommsInv, CommsTypes, OneHolder, DeliveredOnce
<1> QED BY <1>1, CommsInvariant, PTL
-----------------------------------------------------------------------------
(* Disputes and their review.                                              *)

DecisionEvents == {"approved", "rejected", "conflict_adjudicated", "control_transferred", "honored", "refused"}
HidingEvents == {"suppressed", "unsuppressed", "honored", "refused"}
TrailEvents == DecisionEvents \cup HidingEvents \cup {"submitted"}
TrailEntries == [at : Nat, event : TrailEvents]
Decisions ==
  [step : {"idle", "read", "decide"}, dispute : Disputes \cup {"none"},
   verdict : DOMAIN Verdicts \cup {"none"}, at : Nat, seen : BOOLEAN]
Statuses == {"none", "open", "approved", "rejected", "resolved"}

DisputesTyped ==
  /\ dispute \in [Disputes -> [type : DisputeTypes \cup {"none"}, status : Statuses, suppressed : BOOLEAN]]
  /\ trail \in [Disputes -> SUBSET TrailEntries]
  /\ started \in Nat
  /\ deciding \in [DisputeOperators -> Decisions]

DecidesOn(o, d) == deciding[o].step # "idle" /\ deciding[o].dispute = d

\* No event and no decision is later than the last transaction begun, and what is
\* decided has been submitted.
TransactionsKnown ==
  /\ \A d \in Disputes : \A t \in trail[d] : t.at <= started
  /\ \A d \in Disputes : dispute[d] = NoDispute => trail[d] = {}
  /\ \A o \in DisputeOperators : deciding[o].step # "idle" =>
       /\ deciding[o].dispute \in Disputes /\ deciding[o].verdict \in DOMAIN Verdicts
       /\ deciding[o].at <= started
       /\ dispute[deciding[o].dispute] # NoDispute

\* Unless two have decided a dispute at once, a decision on it began after all its trail
\* says, and the flag it has read is the flag still.
DecisionsAreLast ==
  \A d \in Disputes \ crossed : \A o \in DisputeOperators : DecidesOn(o, d) =>
    /\ \A t \in trail[d] : t.at < deciding[o].at
    /\ deciding[o].step = "decide" => deciding[o].seen = dispute[d].suppressed

DisputeInv == DisputesTyped /\ TransactionsKnown /\ DecisionsAreLast /\ TrailTellsDispute

\* What each verdict gives and leaves, one by one.
LEMMA VerdictFacts ==
  /\ DOMAIN Verdicts = {"approve", "reject", "adjudicate", "transfer", "honor", "refuse"}
  /\ Verdicts["approve"].status = "approved" /\ Verdicts["approve"].event = "approved"
  /\ Verdicts["reject"].status = "rejected" /\ Verdicts["reject"].event = "rejected"
  /\ Verdicts["adjudicate"].status = "resolved" /\ Verdicts["adjudicate"].event = "conflict_adjudicated"
  /\ Verdicts["transfer"].status = "resolved" /\ Verdicts["transfer"].event = "control_transferred"
  /\ Verdicts["honor"].status = "approved" /\ Verdicts["honor"].event = "honored"
  /\ Verdicts["refuse"].status = "rejected" /\ Verdicts["refuse"].event = "refused"
BY DEF Verdicts

\* The decisions' events are those of the verdicts, and tell the verdicts apart.
LEMMA VerdictEvents ==
  /\ {Verdicts[v].event : v \in DOMAIN Verdicts} = DecisionEvents
  /\ \A v \in DOMAIN Verdicts : Verdicts[v].status \in Statuses \ {"none"}
  /\ \A v, w \in DOMAIN Verdicts : Verdicts[v].event = Verdicts[w].event => v = w
<1>1. \A v \in DOMAIN Verdicts :
        v = "approve" \/ v = "reject" \/ v = "adjudicate" \/ v = "transfer" \/ v = "honor" \/ v = "refuse"
  BY VerdictFacts
<1>2. {"approve", "reject", "adjudicate", "transfer", "honor", "refuse"} \subseteq DOMAIN Verdicts
  BY VerdictFacts
<1> DEFINE Event(v) == Verdicts[v].event
           Status(v) == Verdicts[v].status
<1>3. /\ Event("approve") = "approved" /\ Event("reject") = "rejected"
      /\ Event("adjudicate") = "conflict_adjudicated" /\ Event("transfer") = "control_transferred"
      /\ Event("honor") = "honored" /\ Event("refuse") = "refused"
      /\ Status("approve") = "approved" /\ Status("reject") = "rejected" /\ Status("adjudicate") = "resolved"
      /\ Status("transfer") = "resolved" /\ Status("honor") = "approved" /\ Status("refuse") = "rejected"
  BY VerdictFacts
<1>4. {Event(v) : v \in DOMAIN Verdicts} = {Verdicts[v].event : v \in DOMAIN Verdicts} OBVIOUS
<1>5. \A v \in DOMAIN Verdicts : Event(v) = Verdicts[v].event /\ Status(v) = Verdicts[v].status OBVIOUS
<1> HIDE DEF Event, Status
<1>6. \A v \in DOMAIN Verdicts : Event(v) \in DecisionEvents BY <1>1, <1>3 DEF DecisionEvents
<1>7. \A ev \in DecisionEvents : \E v \in DOMAIN Verdicts : Event(v) = ev BY <1>2, <1>3 DEF DecisionEvents
<1>8. {Event(v) : v \in DOMAIN Verdicts} = DecisionEvents BY <1>6, <1>7
<1>9. \A v \in DOMAIN Verdicts : Status(v) \in Statuses \ {"none"} BY <1>1, <1>3 DEF Statuses
<1>10. \A v, w \in DOMAIN Verdicts : Event(v) = Event(w) => v = w BY <1>1, <1>3
<1> QED BY <1>4, <1>5, <1>8, <1>9, <1>10

\* The last events of some kinds, after a transaction that began after all the others:
\* its own if it has any of these kinds, else the ones there were.
LEMMA LastAfter ==
  ASSUME trail \in [Disputes -> SUBSET TrailEntries], NEW d \in Disputes, NEW at \in Nat,
         NEW events \in SUBSET TrailEvents, NEW kinds,
         \A t \in trail[d] : t.at < at, Told(d, at, events)
  PROVE  /\ trail' \in [Disputes -> SUBSET TrailEntries]
         /\ \A c \in Disputes \ {d} : trail'[c] = trail[c]
         /\ \A t \in trail'[d] : t \in trail[d] \/ t.at = at
         /\ kinds \cap events # {} => LastOf(d, kinds)' = kinds \cap events
         /\ kinds \cap events = {} => LastOf(d, kinds)' = LastOf(d, kinds)
<1> DEFINE new == {[at |-> at, event |-> ev] : ev \in events}
<1>1. trail' = [trail EXCEPT ![d] = @ \cup new] BY DEF Told
<1>2. /\ \A t \in new : t \in TrailEntries /\ t.at = at /\ t.event \in events
      /\ \A ev \in events : \E t \in new : t.event = ev
  <2>1. ASSUME NEW ev \in events
        PROVE  /\ [at |-> at, event |-> ev] \in TrailEntries
               /\ [at |-> at, event |-> ev].at = at /\ [at |-> at, event |-> ev].event = ev
    BY DEF TrailEntries
  <2> QED BY <2>1
<1> HIDE DEF new
<1>3. trail'[d] = trail[d] \cup new /\ \A c \in Disputes \ {d} : trail'[c] = trail[c] BY <1>1
<1>4. trail' \in [Disputes -> SUBSET TrailEntries] BY <1>1, <1>2
<1>5. \A t \in trail[d] : t.at \in Nat BY DEF TrailEntries
<1> DEFINE told == {t \in trail[d] : t.event \in kinds}
           toldNext == {t \in trail'[d] : t.event \in kinds}
           last(S) == {t \in S : \A w \in S : w.at <= t.at}
<1>6. /\ LastOf(d, kinds) = {t.event : t \in last(told)}
      /\ LastOf(d, kinds)' = {t.event : t \in last(toldNext)}
  BY Zenon DEF LastOf
<1>7. CASE kinds \cap events = {}
  <2>1. toldNext = told BY <1>2, <1>3, <1>7
  <2> QED BY <1>3, <1>4, <1>2, <1>6, <1>7, <2>1
<1>8. CASE kinds \cap events # {}
  <2>1. \A t \in last(toldNext) : t \in new /\ t.event \in kinds
    <3>1. PICK n \in new : n.event \in kinds BY <1>2, <1>8
    <3>2. n \in toldNext /\ n.at = at BY <1>2, <1>3, <3>1
    <3> QED BY <1>3, <1>5, <3>2
  <2>2. \A t \in new : t.event \in kinds => t \in last(toldNext)
    BY <1>2, <1>3, <1>5
  <2>3. {t.event : t \in last(toldNext)} = kinds \cap events
    <3> HIDE DEF last, toldNext
    <3> QED BY <1>2, <2>1, <2>2
  <2> QED BY <1>2, <1>3, <1>4, <1>6, <1>8, <2>3
<1> QED BY <1>7, <1>8

\* What the trail of one dispute tells.
StatusTold(d) ==
  dispute[d] # NoDispute =>
    IF LastOf(d, DecisionEvents) = {} THEN dispute[d].status = "open"
    ELSE \A v \in DOMAIN Verdicts :
           Verdicts[v].event \in LastOf(d, DecisionEvents) => dispute[d].status = Verdicts[v].status

FlagTold(d) ==
  dispute[d].suppressed <=> LastOf(d, HidingEvents) \cap {"suppressed", "honored"} # {}

\* What the trails tell, dispute by dispute.
LEMMA ToldOneByOne ==
  /\ TrailTellsStatus <=> \A d \in Disputes \ crossed : StatusTold(d)
  /\ TrailTellsSuppression <=> \A d \in Disputes \ (crossed \cup reversed) : FlagTold(d)
<1>1. TrailTellsStatus <=> \A d \in Disputes \ crossed : StatusTold(d)
  BY VerdictEvents, Zenon DEF TrailTellsStatus, StatusTold
<1>2. TrailTellsSuppression <=> \A d \in Disputes \ (crossed \cup reversed) : FlagTold(d)
  BY Zenon DEF TrailTellsSuppression, FlagTold, HidingEvents
<1> QED BY <1>1, <1>2

\* ... and after a step.
LEMMA ToldOneByOneNext ==
  /\ TrailTellsStatus' <=> \A d \in Disputes \ crossed' : StatusTold(d)'
  /\ TrailTellsSuppression' <=> \A d \in Disputes \ (crossed' \cup reversed') : FlagTold(d)'
<1>1. TrailTellsStatus' <=> \A d \in Disputes \ crossed' : StatusTold(d)'
  BY VerdictEvents, Zenon DEF TrailTellsStatus, StatusTold
<1>2. TrailTellsSuppression' <=> \A d \in Disputes \ (crossed' \cup reversed') : FlagTold(d)'
  BY Zenon DEF TrailTellsSuppression, FlagTold, HidingEvents
<1> QED BY <1>1, <1>2

\* A dispute that is left alone, with its trail, is told as before.
LEMMA RestsAsTold ==
  ASSUME NEW d \in Disputes, dispute'[d] = dispute[d], trail'[d] = trail[d]
  PROVE  (StatusTold(d) => StatusTold(d)') /\ (FlagTold(d) => FlagTold(d)')
<1>1. \A kinds : LastOf(d, kinds)' = LastOf(d, kinds) BY DEF LastOf
<1> QED BY <1>1 DEF StatusTold, FlagTold, NoDispute

\* Nothing is last in a trail that is empty.
LEMMA NothingLast == ASSUME NEW d \in Disputes, trail[d] = {}, NEW kinds PROVE LastOf(d, kinds) = {}
BY DEF LastOf

\* A submission opens the dispute's trail, and a removal hides the domain at once.
LEMMA SubmitKeepsInv ==
  ASSUME DisputeInv, NEW d \in Disputes, NEW type \in DisputeTypes, SubmitDispute(d, type)
  PROVE  DisputeInv'
<1> DEFINE events == {"submitted"} \cup {ev \in {"suppressed"} : type = "removal"}
           hides == type = "removal"
<1>1. /\ events \in SUBSET TrailEvents /\ events \cap DecisionEvents = {}
      /\ hides => events \cap HidingEvents = {"suppressed"}
      /\ ~hides => events \cap HidingEvents = {}
  BY DEF TrailEvents, DecisionEvents, HidingEvents
<1>2. /\ hides \in BOOLEAN /\ dispute[d] = NoDispute /\ trail[d] = {}
      /\ started \in Nat /\ started + 1 \in Nat /\ started' = started + 1
      /\ dispute' = [dispute EXCEPT ![d] = [type |-> type, status |-> "open", suppressed |-> hides]]
      /\ Told(d, started + 1, events)
      /\ UNCHANGED <<deciding, crossed, reversed>>
  BY DEF SubmitDispute, DisputeInv, DisputesTyped, TransactionsKnown
<1> HIDE DEF hides, events
<1>3. /\ trail' \in [Disputes -> SUBSET TrailEntries]
      /\ \A c \in Disputes \ {d} : trail'[c] = trail[c]
      /\ \A t \in trail'[d] : t.at = started + 1
      /\ \A kinds : /\ kinds \cap events # {} => LastOf(d, kinds)' = kinds \cap events
                    /\ kinds \cap events = {} => LastOf(d, kinds)' = {}
  <2>1. trail \in [Disputes -> SUBSET TrailEntries] /\ \A t \in trail[d] : t.at < started + 1
    BY <1>2 DEF DisputeInv, DisputesTyped
  <2>2. ASSUME NEW kinds
        PROVE  /\ trail' \in [Disputes -> SUBSET TrailEntries]
               /\ \A c \in Disputes \ {d} : trail'[c] = trail[c]
               /\ \A t \in trail'[d] : t \in trail[d] \/ t.at = started + 1
               /\ kinds \cap events # {} => LastOf(d, kinds)' = kinds \cap events
               /\ kinds \cap events = {} => LastOf(d, kinds)' = LastOf(d, kinds)
    BY <1>1, <1>2, <2>1, LastAfter
  <2>3. \A kinds : LastOf(d, kinds) = {} BY <1>2, NothingLast
  <2> QED BY <1>2, <2>2, <2>3
<1>4. /\ dispute' \in [Disputes -> [type : DisputeTypes \cup {"none"}, status : Statuses, suppressed : BOOLEAN]]
      /\ \A c \in Disputes \ {d} : dispute'[c] = dispute[c]
      /\ dispute'[d].status = "open" /\ dispute'[d].suppressed = hides /\ dispute'[d] # NoDispute
  BY <1>2 DEF DisputeInv, DisputesTyped, Statuses, NoDispute
<1>5. DisputesTyped' BY <1>2, <1>3, <1>4 DEF DisputeInv, DisputesTyped
<1>6. TransactionsKnown'
  <2>1. \A c \in Disputes : \A t \in trail'[c] : t.at <= started'
    <3>1. \A c \in Disputes : \A t \in trail[c] : t.at \in Nat /\ t.at <= started
      BY DEF DisputeInv, DisputesTyped, TransactionsKnown, TrailEntries
    <3> QED BY <1>2, <1>3, <3>1
  <2>2. \A c \in Disputes : dispute'[c] = NoDispute => trail'[c] = {}
    BY <1>3, <1>4 DEF DisputeInv, TransactionsKnown
  <2>3. \A o \in DisputeOperators : deciding[o].step # "idle" =>
          deciding[o].at \in Nat /\ deciding[o].at <= started /\ dispute'[deciding[o].dispute] # NoDispute
    BY <1>4 DEF DisputeInv, DisputesTyped, TransactionsKnown, Decisions
  <2>4. \A o \in DisputeOperators : deciding[o].step # "idle" => deciding[o].at <= started'
    BY <1>2, <2>3
  <2> QED BY <1>2, <2>1, <2>2, <2>3, <2>4 DEF DisputeInv, TransactionsKnown
<1>7. DecisionsAreLast'
  BY <1>2, <1>3, <1>4 DEF DisputeInv, TransactionsKnown, DecisionsAreLast, DecidesOn
<1>8. StatusTold(d)' BY <1>1, <1>3, <1>4 DEF StatusTold
<1>9. FlagTold(d)' BY <1>1, <1>2, <1>3, <1>4 DEF FlagTold
<1>10. TrailTellsDispute'
  BY <1>2, <1>3, <1>4, <1>8, <1>9, RestsAsTold, ToldOneByOne, ToldOneByOneNext DEF DisputeInv, TrailTellsDispute
<1> QED BY <1>5, <1>6, <1>7, <1>10 DEF DisputeInv

\* Until its commit a decision changes nothing: it begins, finds the dispute, or fails.
LEMMA UncommittedKeepsInv ==
  ASSUME DisputeInv, NEW o \in DisputeOperators,
         \/ \E d \in Disputes, verdict \in DOMAIN Verdicts : BeginDecision(o, d, verdict)
         \/ ReadDispute(o) \/ DecisionFails(o)
  PROVE  DisputeInv'
<1>1. UNCHANGED <<dispute, trail, crossed, reversed>> BY DEF BeginDecision, ReadDispute, DecisionFails
<1>2. TrailTellsDispute'
  BY <1>1, RestsAsTold, ToldOneByOne, ToldOneByOneNext DEF DisputeInv, TrailTellsDispute
<1>3. ASSUME NEW d \in Disputes, NEW verdict \in DOMAIN Verdicts, BeginDecision(o, d, verdict)
      PROVE  DisputesTyped' /\ TransactionsKnown' /\ DecisionsAreLast'
  <2>1. /\ started \in Nat /\ started' = started + 1 /\ started' \in Nat /\ started < started'
        /\ dispute[d] # NoDispute
    BY <1>3 DEF BeginDecision, DisputeInv, DisputesTyped
  <2>2. deciding' = [deciding EXCEPT ![o] = [step |-> "read", dispute |-> d, verdict |-> verdict,
                                             at |-> started', seen |-> FALSE]]
    BY <1>3, <2>1 DEF BeginDecision
  <2>3. /\ deciding' \in [DisputeOperators -> Decisions]
        /\ \A p \in DisputeOperators \ {o} : deciding'[p] = deciding[p]
        /\ deciding'[o].step = "read" /\ deciding'[o].dispute = d /\ deciding'[o].verdict = verdict
        /\ deciding'[o].at = started'
    BY <2>1, <2>2 DEF DisputeInv, DisputesTyped, Decisions
  <2>4. DisputesTyped' BY <1>1, <2>1, <2>3 DEF DisputeInv, DisputesTyped
  <2>5. TransactionsKnown'
    BY <1>1, <2>1, <2>3 DEF DisputeInv, DisputesTyped, TransactionsKnown, Decisions, TrailEntries
  <2>6. DecisionsAreLast'
    BY <1>1, <2>1, <2>3 DEF DisputeInv, DisputesTyped, TransactionsKnown, DecisionsAreLast, DecidesOn, TrailEntries
  <2> QED BY <2>4, <2>5, <2>6
<1>4. ASSUME deciding' = [deciding EXCEPT ![o] = NotDeciding], UNCHANGED started
      PROVE  DisputesTyped' /\ TransactionsKnown' /\ DecisionsAreLast'
  <2>1. /\ deciding' \in [DisputeOperators -> Decisions] /\ deciding'[o].step = "idle"
        /\ \A p \in DisputeOperators \ {o} : deciding'[p] = deciding[p]
    BY <1>4 DEF DisputeInv, DisputesTyped, Decisions, NotDeciding
  <2> QED BY <1>1, <1>4, <2>1
          DEF DisputeInv, DisputesTyped, TransactionsKnown, DecisionsAreLast, DecidesOn
<1>5. CASE ReadDispute(o)
  <2>1. UNCHANGED started BY <1>5 DEF ReadDispute
  <2>2. CASE Verdicts[deciding[o].verdict].for \in {"any", dispute[deciding[o].dispute].type}
    <3>1. /\ deciding[o].step = "read" /\ dispute[deciding[o].dispute].suppressed \in BOOLEAN
          /\ deciding' = [deciding EXCEPT ![o] =
               [deciding[o] EXCEPT !.step = "decide", !.seen = dispute[deciding[o].dispute].suppressed]]
      BY <1>5, <2>2 DEF ReadDispute, DisputeInv, DisputesTyped, TransactionsKnown
    <3>2. /\ deciding' \in [DisputeOperators -> Decisions]
          /\ \A p \in DisputeOperators \ {o} : deciding'[p] = deciding[p]
          /\ deciding'[o].dispute = deciding[o].dispute /\ deciding'[o].verdict = deciding[o].verdict
          /\ deciding'[o].at = deciding[o].at
          /\ deciding'[o].seen = dispute[deciding[o].dispute].suppressed
      BY <3>1 DEF DisputeInv, DisputesTyped, Decisions
    <3>3. DisputesTyped' BY <1>1, <2>1, <3>2 DEF DisputeInv, DisputesTyped
    <3>4. TransactionsKnown' BY <1>1, <2>1, <3>1, <3>2 DEF DisputeInv, TransactionsKnown
    <3>5. DecisionsAreLast' BY <1>1, <3>1, <3>2 DEF DisputeInv, DecisionsAreLast, DecidesOn
    <3> QED BY <1>2, <3>3, <3>4, <3>5 DEF DisputeInv
  <2>3. CASE Verdicts[deciding[o].verdict].for \notin {"any", dispute[deciding[o].dispute].type}
    <3>1. deciding' = [deciding EXCEPT ![o] = NotDeciding] BY <1>5, <2>3 DEF ReadDispute
    <3> QED BY <1>2, <1>4, <2>1, <3>1 DEF DisputeInv
  <2> QED BY <2>2, <2>3
<1>6. CASE DecisionFails(o) BY <1>2, <1>4, <1>6 DEF DecisionFails, DisputeInv
<1>7. CASE \E d \in Disputes, verdict \in DOMAIN Verdicts : BeginDecision(o, d, verdict)
  BY <1>2, <1>3, <1>7 DEF DisputeInv
<1> QED BY <1>2, <1>3, <1>5, <1>6, <1>7 DEF DisputeInv

\* What a commit tells and leaves; it crosses the dispute if another decision has begun.
LEMMA CommitKeepsInv ==
  ASSUME DisputeInv, NEW o \in DisputeOperators, CommitDecision(o)
  PROVE  DisputeInv'
<1>d. PICK d \in Disputes : d = deciding[o].dispute
  BY DEF CommitDecision, DisputeInv, TransactionsKnown
<1> DEFINE v == deciding[o].verdict
           at == deciding[o].at
           status == Verdicts[v].status
           hides == Suppressed(d, v)
           events == {Verdicts[v].event} \cup LiftingEvents(o)
<1>1. /\ d \in Disputes /\ d = deciding[o].dispute /\ v \in DOMAIN Verdicts /\ at \in Nat /\ at <= started
      /\ deciding[o].step = "decide" /\ dispute[d] # NoDispute /\ DecidesOn(o, d)
  BY <1>d DEF CommitDecision, DisputeInv, DisputesTyped, TransactionsKnown, Decisions, DecidesOn
<1>2. /\ dispute' = [dispute EXCEPT ![d].status = status, ![d].suppressed = hides]
      /\ Told(d, at, events)
      /\ crossed' = IF Rivals(o) # {} THEN crossed \cup {d} ELSE crossed
      /\ reversed' = IF v = "refuse" /\ dispute[d].suppressed THEN reversed \cup {d} ELSE reversed
      /\ deciding' = [deciding EXCEPT ![o] = NotDeciding]
      /\ started' = started
  BY <1>d DEF CommitDecision
<1>3. status \in Statuses \ {"none"} /\ hides \in BOOLEAN
  BY <1>1, VerdictEvents DEF Suppressed, DisputeInv, DisputesTyped
<1>4. /\ LiftingEvents(o) = IF v = "reject" /\ deciding[o].seen THEN {"unsuppressed"} ELSE {}
      /\ Verdicts[v].event \in DecisionEvents
  BY <1>1, VerdictEvents DEF LiftingEvents
<1>5. /\ events \in SUBSET TrailEvents
      /\ DecisionEvents \cap events = {Verdicts[v].event}
  BY <1>4 DEF TrailEvents, DecisionEvents, HidingEvents
<1>6. HidingEvents \cap events = CASE v = "honor" -> {"honored"}
                                   [] v = "refuse" -> {"refused"}
                                   [] v = "reject" /\ deciding[o].seen -> {"unsuppressed"}
                                   [] OTHER -> {}
  <2>1. events = {Verdicts[v].event} \cup (IF v = "reject" /\ deciding[o].seen THEN {"unsuppressed"} ELSE {})
    BY <1>4
  <2> HIDE DEF events
  <2>2. /\ v = "honor" => Verdicts[v].event = "honored"
        /\ v = "refuse" => Verdicts[v].event = "refused"
        /\ v \notin {"honor", "refuse"} => Verdicts[v].event \notin HidingEvents
    BY <1>1, VerdictFacts DEF HidingEvents
  <2> QED BY <2>1, <2>2 DEF HidingEvents
<1>7. /\ v = "honor" => hides = TRUE
      /\ v = "reject" => hides = FALSE
      /\ v \notin {"honor", "reject"} => hides = dispute[d].suppressed
  BY DEF Suppressed
<1> HIDE DEF v, at, status, hides, events
<1>8. /\ dispute' \in [Disputes -> [type : DisputeTypes \cup {"none"}, status : Statuses, suppressed : BOOLEAN]]
      /\ \A c \in Disputes \ {d} : dispute'[c] = dispute[c]
      /\ dispute'[d].status = status /\ dispute'[d].suppressed = hides
      /\ dispute'[d] # NoDispute
  BY <1>1, <1>2, <1>3 DEF DisputeInv, DisputesTyped, NoDispute
<1>9. /\ deciding' \in [DisputeOperators -> Decisions] /\ deciding'[o].step = "idle"
      /\ \A p \in DisputeOperators \ {o} : deciding'[p] = deciding[p]
  BY <1>2 DEF DisputeInv, DisputesTyped, Decisions, NotDeciding
<1>10. /\ trail' \in [Disputes -> SUBSET TrailEntries]
       /\ \A c \in Disputes \ {d} : trail'[c] = trail[c]
       /\ \A t \in trail'[d] : t \in trail[d] \/ t.at = at
  <2>1. \A ev \in events : [at |-> at, event |-> ev] \in TrailEntries BY <1>1, <1>5 DEF TrailEntries
  <2>2. trail' = [trail EXCEPT ![d] = @ \cup {[at |-> at, event |-> ev] : ev \in events}] BY <1>2 DEF Told
  <2> QED BY <1>1, <2>1, <2>2 DEF DisputeInv, DisputesTyped
<1>11. DisputesTyped' BY <1>2, <1>8, <1>9, <1>10 DEF DisputeInv, DisputesTyped
<1>12. TransactionsKnown'
  <2>1. \A c \in Disputes : \A t \in trail'[c] : t.at <= started'
    BY <1>1, <1>2, <1>10 DEF DisputeInv, TransactionsKnown
  <2>2. \A c \in Disputes : dispute'[c] = NoDispute => trail'[c] = {}
    BY <1>8, <1>10 DEF DisputeInv, TransactionsKnown
  <2>3. \A p \in DisputeOperators : deciding'[p].step # "idle" => deciding'[p] = deciding[p] BY <1>9
  <2>4. \A c \in Disputes : dispute[c] # NoDispute => dispute'[c] # NoDispute BY <1>8
  <2> QED BY <1>2, <2>1, <2>2, <2>3, <2>4 DEF DisputeInv, TransactionsKnown
<1>13. \A p \in DisputeOperators : DecidesOn(p, d) /\ d \notin crossed' => p = o
  <2>1. SUFFICES ASSUME NEW p \in DisputeOperators \ {o}, DecidesOn(p, d), d \notin crossed' PROVE FALSE
    OBVIOUS
  <2>2. p \in Rivals(o) BY <1>1, <2>1 DEF Rivals, DecidesOn, DisputeInv, DisputesTyped, Decisions
  <2> QED BY <1>2, <2>1, <2>2
<1>14. DecisionsAreLast'
  <2>1. SUFFICES ASSUME NEW c \in Disputes \ crossed', NEW p \in DisputeOperators, DecidesOn(p, c)'
                 PROVE  /\ \A t \in trail'[c] : t.at < deciding'[p].at
                        /\ deciding'[p].step = "decide" => deciding'[p].seen = dispute'[c].suppressed
    BY DEF DecisionsAreLast
  <2>2. p # o /\ deciding'[p] = deciding[p] /\ DecidesOn(p, c) BY <1>9, <2>1 DEF DecidesOn
  <2>3. c # d BY <1>13, <2>1, <2>2
  <2>4. c \notin crossed BY <1>2, <2>1
  <2> QED BY <1>8, <1>10, <2>2, <2>3, <2>4 DEF DisputeInv, DecisionsAreLast
<1>15. ASSUME d \notin crossed' PROVE StatusTold(d)' /\ (d \notin reversed' => FlagTold(d)')
  <2>1. d \notin crossed BY <1>2, <1>15
  <2>2. (\A t \in trail[d] : t.at < at) /\ deciding[o].seen = dispute[d].suppressed
    BY <1>1, <2>1 DEF DisputeInv, DecisionsAreLast, at
  <2>3. ASSUME NEW kinds
        PROVE  /\ kinds \cap events # {} => LastOf(d, kinds)' = kinds \cap events
               /\ kinds \cap events = {} => LastOf(d, kinds)' = LastOf(d, kinds)
    BY <1>1, <1>2, <1>5, <2>2, LastAfter DEF DisputeInv, DisputesTyped
  <2>4. LastOf(d, DecisionEvents)' = {Verdicts[v].event} BY <1>5, <2>3
  <2>5. StatusTold(d)' BY <1>1, <1>8, <2>4, VerdictEvents DEF StatusTold, status
  <2>6. ASSUME d \notin reversed' PROVE FlagTold(d)'
    <3>1. d \notin reversed /\ ~(v = "refuse" /\ dispute[d].suppressed) BY <1>2, <2>6
    <3>2. FlagTold(d) BY <1>1, <2>1, <3>1, ToldOneByOne DEF DisputeInv, TrailTellsDispute
    <3>3. dispute[d].suppressed \in BOOLEAN BY <1>1 DEF DisputeInv, DisputesTyped
    <3>4. CASE HidingEvents \cap events = {}
      <4>1. LastOf(d, HidingEvents)' = LastOf(d, HidingEvents) BY <2>3, <3>4
      <4>2. v # "honor" /\ (v = "reject" => ~dispute[d].suppressed) BY <1>6, <2>2, <3>4
      <4>3. hides = dispute[d].suppressed BY <1>7, <3>3, <4>2
      <4> QED BY <1>8, <3>2, <4>1, <4>3 DEF FlagTold
    <3>5. CASE HidingEvents \cap events # {}
      <4>1. LastOf(d, HidingEvents)' = HidingEvents \cap events BY <2>3, <3>5
      <4>2. \/ v = "honor" /\ HidingEvents \cap events = {"honored"} /\ hides
            \/ v = "refuse" /\ HidingEvents \cap events = {"refused"} /\ ~hides
            \/ v = "reject" /\ HidingEvents \cap events = {"unsuppressed"} /\ ~hides
        BY <1>6, <1>7, <3>1, <3>3, <3>5
      <4> QED BY <1>8, <4>1, <4>2 DEF FlagTold
    <3> QED BY <3>4, <3>5
  <2> QED BY <2>5, <2>6
<1>16. TrailTellsDispute'
  <2>1. \A c \in Disputes \ crossed' : StatusTold(c)'
    BY <1>2, <1>8, <1>10, <1>15, RestsAsTold, ToldOneByOne DEF DisputeInv, TrailTellsDispute
  <2>2. \A c \in Disputes \ (crossed' \cup reversed') : FlagTold(c)'
    BY <1>2, <1>8, <1>10, <1>15, RestsAsTold, ToldOneByOne DEF DisputeInv, TrailTellsDispute
  <2> QED BY <2>1, <2>2, ToldOneByOneNext DEF TrailTellsDispute
<1> QED BY <1>11, <1>12, <1>14, <1>16 DEF DisputeInv

\* Nothing is disputed in the initial state.
LEMMA InitDispute == DisputeInit => DisputeInv
<1> SUFFICES ASSUME DisputeInit PROVE DisputeInv OBVIOUS
<1>1. /\ \A d \in Disputes : dispute[d] = NoDispute /\ trail[d] = {}
      /\ \A o \in DisputeOperators : deciding[o].step = "idle"
  BY DEF DisputeInit, NotDeciding
<1>2. DisputesTyped BY DEF DisputeInit, DisputesTyped, NoDispute, NotDeciding, Decisions, Statuses
<1>3. TransactionsKnown BY <1>1 DEF TransactionsKnown
<1>4. DecisionsAreLast BY <1>1 DEF DecisionsAreLast, DecidesOn
<1>5. \A d \in Disputes : StatusTold(d) /\ FlagTold(d)
  BY <1>1, NothingLast DEF StatusTold, FlagTold, NoDispute
<1> QED BY <1>2, <1>3, <1>4, <1>5, ToldOneByOne DEF DisputeInv, TrailTellsDispute

\* Every step keeps the invariant.
LEMMA NextDispute == DisputeInv /\ [DisputeNext]_disputeVars => DisputeInv'
<1> SUFFICES ASSUME DisputeInv, [DisputeNext]_disputeVars PROVE DisputeInv' OBVIOUS
<1>1. CASE DisputeNext BY <1>1, SubmitKeepsInv, UncommittedKeepsInv, CommitKeepsInv DEF DisputeNext
<1>2. CASE UNCHANGED disputeVars
  <2>1. TrailTellsDispute' BY <1>2, RestsAsTold, ToldOneByOne, ToldOneByOneNext
    DEF disputeVars, DisputeInv, TrailTellsDispute
  <2> QED BY <1>2, <2>1
    DEF disputeVars, DisputeInv, DisputesTyped, TransactionsKnown, DecisionsAreLast, DecidesOn
<1> QED BY <1>1, <1>2

\* A dispute is what its trail says last (decisions of routes/disputes.rs, append_event),
\* through any number of decisions, failed or repeated, unless two operators decided it
\* at once or an honored objection was refused later.
THEOREM TrailTellsDisputeAlways == DisputeSpec => []TrailTellsDispute
<1>1. DisputeInv => TrailTellsDispute BY DEF DisputeInv
<1> QED BY <1>1, InitDispute, NextDispute, PTL DEF DisputeSpec
===============================================================================
