-------------------------- MODULE EntityVerification --------------------------
(***************************************************************************)
(* The claim of one domain: challenges, their single use, the daily        *)
(* re-check and the operator's corrections (apps/api/src/routes/           *)
(* verification.rs, operator_entities.rs, crates/storage/src/repositories/ *)
(* verification.rs, entities.rs, disputes.rs).                             *)
(*                                                                         *)
(* Every handler is a sequence of separate statements on two tables, the   *)
(* entity and the ledger of attempts.  Consuming a challenge is one        *)
(* conditional update; the status of the entity is written without looking *)
(* at what it is by then.                                                  *)
(***************************************************************************)
EXTENDS Integers, Sequences, FiniteSets

CONSTANTS
  Handlers,       \* handlers that may be at work at once: API requests, worker sweeps
  AttemptLimit,   \* RATE_LIMIT_PER_HOUR
  MaxAttempts,    \* bound: rows in the ledger
  MaxRequests     \* bound: requests and sweeps begun

ASSUME EntityConstants ==
  /\ AttemptLimit \in Nat \ {0} /\ MaxAttempts \in Nat /\ MaxRequests \in Nat
  /\ IsFiniteSet(Handlers)

VARIABLES
  entity,      \* the row of the domain: [status, method, grace]
  attempts,    \* the ledger, oldest first: [method, state, lapsed]
  lastProof,   \* the dns challenge consumed last, 0 if none
  hourAgo,     \* rows up to this one are older than an hour
  zone,        \* tokens published in the domain's TXT record (external)
  handler,     \* handler[h]: what a handler is doing
  requests,    \* number of requests begun
  \* history
  starters,    \* rows inserted by start_verification
  backing,     \* what the last write of 'verified' rests on
  spentBy,     \* spentBy[t]: how often a token has been consumed
  mishaps      \* what has come in between

entityVars == <<entity, attempts, lastProof, hourAgo, zone, handler, requests,
                starters, backing, spentBy, mishaps>>

Methods == {"dns", "email"}
Absent == [status |-> "absent", method |-> "none", grace |-> FALSE]
AtRest == [step |-> "rest", method |-> "none", token |-> 0, values |-> {}, limited |-> FALSE]

EntityInit ==
  /\ entity = Absent
  /\ attempts = <<>> /\ lastProof = 0 /\ hourAgo = 0
  /\ zone = {}
  /\ handler = [h \in Handlers |-> AtRest] /\ requests = 0
  /\ starters = {} /\ backing = 0 /\ spentBy = [t \in 1 .. MaxAttempts |-> 0]
  /\ mishaps = {}

On(h, s) == handler[h].step = s
Exists == entity.status # "absent"
\* classify_token: pending and not expired.
Live(t) == t \in 1 .. Len(attempts) /\ attempts[t].state = "pending" /\ ~attempts[t].lapsed
Tell(h, s) == handler' = [handler EXCEPT ![h].step = s]
Respond(h) == handler' = [handler EXCEPT ![h] = AtRest]
Note(what, holds) == mishaps' = IF holds THEN mishaps \cup {what} ELSE mishaps

\* A handler that is idle takes up a request.
Take(h, rec) ==
  /\ On(h, "rest") /\ requests < MaxRequests
  /\ requests' = requests + 1
  /\ handler' = [handler EXCEPT ![h] = rec]

(***************************************************************************)
(* start_verification: count, insert the entity if it is new, move it from *)
(* unclaimed to pending, expire the live challenge, insert another.        *)
(***************************************************************************)
\* Mutant of StartCounts: only live challenges count.
StartCountsLive(h, m) ==
  /\ Cardinality({t \in hourAgo + 1 .. Len(attempts) : Live(t)}) < AttemptLimit
  /\ Take(h, [AtRest EXCEPT !.step = "ensure", !.method = m, !.limited = TRUE])
  /\ UNCHANGED <<entity, attempts, lastProof, hourAgo, zone, starters, backing, spentBy, mishaps>>

StartCounts(h, m) ==
  /\ Len(attempts) - hourAgo < AttemptLimit
  /\ Take(h, [AtRest EXCEPT !.step = "ensure", !.method = m, !.limited = TRUE])
  /\ UNCHANGED <<entity, attempts, lastProof, hourAgo, zone, starters, backing, spentBy, mishaps>>

StartEnsures(h) ==
  /\ On(h, "ensure")
  /\ entity' = IF Exists THEN entity ELSE [Absent EXCEPT !.status = "unclaimed"]
  /\ Tell(h, IF entity'.status = "unclaimed" THEN "setPending" ELSE "expire")
  /\ UNCHANGED <<attempts, lastProof, hourAgo, zone, requests, starters, backing, spentBy, mishaps>>

\* set_claim_status has no condition on the status.
StartSetsPending(h) ==
  /\ On(h, "setPending")
  /\ entity' = IF Exists THEN [entity EXCEPT !.status = "pending"] ELSE entity
  /\ Note("downgraded", entity.status \in {"verified", "revoked"})
  /\ Tell(h, "expire")
  /\ UNCHANGED <<attempts, lastProof, hourAgo, zone, requests, starters, backing, spentBy>>

ExpireLive(h) ==
  /\ On(h, "expire")
  /\ attempts' = [t \in DOMAIN attempts |->
       IF attempts[t].method = handler[h].method /\ attempts[t].state = "pending"
       THEN [attempts[t] EXCEPT !.state = "expired"] ELSE attempts[t]]
  /\ Tell(h, "mint")
  /\ UNCHANGED <<entity, lastProof, hourAgo, zone, requests, starters, backing, spentBy, mishaps>>

\* The row refers to the entity, and the index admits one live challenge of a method:
\* a handler that has lost either answers 500.
LiveOf(m) == \E t \in DOMAIN attempts : attempts[t].method = m /\ attempts[t].state = "pending"

Mint(h) ==
  /\ On(h, "mint")
  /\ IF Exists /\ ~LiveOf(handler[h].method)
     THEN /\ Len(attempts) < MaxAttempts
          /\ attempts' = Append(attempts, [method |-> handler[h].method, state |-> "pending", lapsed |-> FALSE])
          /\ starters' = IF handler[h].limited THEN starters \cup {Len(attempts) + 1} ELSE starters
     ELSE UNCHANGED <<attempts, starters>>
  /\ Respond(h)
  /\ UNCHANGED <<entity, lastProof, hourAgo, zone, requests, backing, spentBy, mishaps>>

\* retrigger: an email challenge on the operator's word, with no count.
Retrigger(h) ==
  /\ Exists
  /\ Take(h, [AtRest EXCEPT !.step = "expire", !.method = "email"])
  /\ UNCHANGED <<entity, attempts, lastProof, hourAgo, zone, starters, backing, spentBy, mishaps>>

(***************************************************************************)
(* check_verification reads the TXT record and tries its values in turn;   *)
(* verify_magic_link tries the token of its URL.                           *)
(***************************************************************************)
CheckResolves(h) ==
  /\ Take(h, [AtRest EXCEPT !.step = "find", !.method = "dns", !.values = zone])
  /\ UNCHANGED <<entity, attempts, lastProof, hourAgo, zone, starters, backing, spentBy, mishaps>>

OpenLink(h) ==
  /\ \E t \in DOMAIN attempts :
       /\ attempts[t].method = "email" /\ attempts[t].state # "erased"
       /\ Take(h, [AtRest EXCEPT !.step = "find", !.method = "email", !.values = {t}])
  /\ UNCHANGED <<entity, attempts, lastProof, hourAgo, zone, starters, backing, spentBy, mishaps>>

FindToken(h) ==
  /\ On(h, "find")
  /\ IF handler[h].values = {} THEN Respond(h)
     ELSE \E t \in handler[h].values :
            handler' = [handler EXCEPT ![h].values = @ \ {t}, ![h].token = t,
              ![h].step = IF Live(t) /\ attempts[t].method = handler[h].method THEN "consume" ELSE "find"]
  /\ UNCHANGED <<entity, attempts, lastProof, hourAgo, zone, requests, starters, backing, spentBy, mishaps>>

\* Mutant of Consume: the update has no condition.
ConsumeAgain(h) ==
  /\ On(h, "consume")
  /\ LET t == handler[h].token IN
       IF attempts[t].state # "erased"
       THEN /\ attempts' = [attempts EXCEPT ![t].state = "verified"]
            /\ lastProof' = IF handler[h].method = "dns" THEN t ELSE lastProof
            /\ spentBy' = [spentBy EXCEPT ![t] = @ + 1]
            /\ Tell(h, "flip")
       ELSE UNCHANGED <<attempts, lastProof, spentBy>> /\ Tell(h, "find")
  /\ UNCHANGED <<entity, hourAgo, zone, requests, starters, backing, mishaps>>

Consume(h) ==
  /\ On(h, "consume")
  /\ LET t == handler[h].token IN
       IF Live(t)
       THEN /\ attempts' = [attempts EXCEPT ![t].state = "verified"]
            /\ lastProof' = IF handler[h].method = "dns" THEN t ELSE lastProof
            /\ spentBy' = [spentBy EXCEPT ![t] = @ + 1]
            /\ Tell(h, "flip")
       ELSE UNCHANGED <<attempts, lastProof, spentBy>> /\ Tell(h, "find")
  /\ UNCHANGED <<entity, hourAgo, zone, requests, starters, backing, mishaps>>

\* Mutant of Flip: only a pending entity becomes verified.
FlipPending(h) ==
  /\ On(h, "flip")
  /\ entity' = IF entity.status = "pending" THEN [entity EXCEPT !.status = "verified", !.method = handler[h].method] ELSE entity
  /\ backing' = handler[h].token
  /\ Respond(h)
  /\ UNCHANGED <<attempts, lastProof, hourAgo, zone, requests, starters, spentBy, mishaps>>

\* grace_period_start stays as it is.
Flip(h) ==
  /\ On(h, "flip")
  /\ entity' = IF Exists THEN [entity EXCEPT !.status = "verified", !.method = handler[h].method] ELSE entity
  /\ backing' = handler[h].token
  /\ mishaps' = mishaps \cup {what \in {"erased", "reordered"} :
                              IF what = "erased" THEN attempts[handler[h].token].state = "erased"
                              ELSE \E t \in handler[h].token + 1 .. Len(attempts) : attempts[t].state = "verified"}
  /\ Respond(h)
  /\ UNCHANGED <<attempts, lastProof, hourAgo, zone, requests, starters, spentBy>>

\* The database or the process fails between the two statements.
FlipFails(h) ==
  /\ On(h, "flip")
  /\ Note("unflipped", TRUE)
  /\ Respond(h)
  /\ UNCHANGED <<entity, attempts, lastProof, hourAgo, zone, requests, starters, backing, spentBy>>

(***************************************************************************)
(* run_reverification_job, and an operator's revoke: both end in           *)
(* revoke_entity.                                                          *)
(***************************************************************************)
\* dns_verified_domains: the challenge consumed last.
SweepLists(h) ==
  /\ entity.status = "verified" /\ entity.method = "dns" /\ lastProof # 0
  /\ Take(h, [AtRest EXCEPT !.step = "lookup", !.token = lastProof])
  /\ UNCHANGED <<entity, attempts, lastProof, hourAgo, zone, starters, backing, spentBy, mishaps>>

\* A transient error is not a removal.
SweepLooksUp(h) ==
  /\ On(h, "lookup")
  /\ \/ handler[h].token \in zone /\ Respond(h)
     \/ handler[h].token \notin zone /\ Tell(h, "revoke")
     \/ Respond(h)
  /\ UNCHANGED <<entity, attempts, lastProof, hourAgo, zone, requests, starters, backing, spentBy, mishaps>>

OperatorRevokes(h) ==
  /\ entity.status = "verified"
  /\ Take(h, [AtRest EXCEPT !.step = "revoke"])
  /\ UNCHANGED <<entity, attempts, lastProof, hourAgo, zone, starters, backing, spentBy, mishaps>>

SetGrace(h) ==
  /\ On(h, "revoke")
  /\ entity' = IF entity.status = "verified" THEN [entity EXCEPT !.status = "revoked", !.grace = TRUE] ELSE entity
  /\ Note("outdatedSweep", handler[h].token # 0 /\ (backing # handler[h].token \/ handler[h].token \in zone))
  /\ Tell(h, "record")
  /\ UNCHANGED <<attempts, lastProof, hourAgo, zone, requests, starters, backing, spentBy>>

\* The ledger row is an attempt like any other: the rate limit counts it.
RecordRevocation(h) ==
  /\ On(h, "record")
  /\ IF Exists
     THEN /\ Len(attempts) < MaxAttempts
          /\ attempts' = Append(attempts, [method |-> "dns", state |-> "revoked", lapsed |-> TRUE])
     ELSE UNCHANGED attempts
  /\ Respond(h)
  /\ UNCHANGED <<entity, lastProof, hourAgo, zone, requests, starters, backing, spentBy, mishaps>>

(***************************************************************************)
(* An operator's decisions, each one statement or one transaction.         *)
(***************************************************************************)
Overrule(m, clearsGrace) ==
  /\ Exists /\ requests < MaxRequests
  /\ entity' = [entity EXCEPT !.status = "verified", !.method = m, !.grace = @ /\ ~clearsGrace]
  /\ backing' = 0
  /\ requests' = requests + 1
  /\ UNCHANGED <<attempts, lastProof, hourAgo, zone, handler, starters, spentBy, mishaps>>

OverrideVerify == Overrule("manual", FALSE)
AdjudicateConflict == Overrule("dns", FALSE)
TransferControl == Overrule("dns", TRUE)

EraseEntity ==
  /\ Exists /\ requests < MaxRequests
  /\ entity' = Absent
  /\ attempts' = [t \in DOMAIN attempts |-> [attempts[t] EXCEPT !.state = "erased"]]
  /\ lastProof' = 0 /\ hourAgo' = Len(attempts)
  /\ requests' = requests + 1
  /\ UNCHANGED <<zone, handler, starters, backing, spentBy, mishaps>>

(***************************************************************************)
(* The claimant's zone and the clock.                                      *)
(***************************************************************************)
Publish ==
  /\ \E t \in DOMAIN attempts : attempts[t].method = "dns" /\ zone' = {t}
  /\ zone' # zone
  /\ UNCHANGED <<entity, attempts, lastProof, hourAgo, handler, requests, starters, backing, spentBy, mishaps>>

Unpublish ==
  /\ zone # {} /\ zone' = {}
  /\ UNCHANGED <<entity, attempts, lastProof, hourAgo, handler, requests, starters, backing, spentBy, mishaps>>

Lapse ==
  /\ \E t \in DOMAIN attempts :
       ~attempts[t].lapsed /\ attempts' = [attempts EXCEPT ![t].lapsed = TRUE]
  /\ UNCHANGED <<entity, lastProof, hourAgo, zone, handler, requests, starters, backing, spentBy, mishaps>>

HourPasses ==
  /\ hourAgo < Len(attempts)
  /\ hourAgo' = Len(attempts)
  /\ UNCHANGED <<entity, attempts, lastProof, zone, handler, requests, starters, backing, spentBy, mishaps>>

EntityNext ==
  \/ \E h \in Handlers :
       \/ \E m \in Methods : StartCounts(h, m)
       \/ StartEnsures(h) \/ StartSetsPending(h) \/ ExpireLive(h) \/ Mint(h) \/ Retrigger(h)
       \/ CheckResolves(h) \/ OpenLink(h) \/ FindToken(h) \/ Consume(h) \/ Flip(h) \/ FlipFails(h)
       \/ SweepLists(h) \/ SweepLooksUp(h) \/ OperatorRevokes(h) \/ SetGrace(h) \/ RecordRevocation(h)
  \/ OverrideVerify \/ AdjudicateConflict \/ TransferControl \/ EraseEntity
  \/ Publish \/ Unpublish \/ Lapse \/ HourPasses

EntitySpec == EntityInit /\ [][EntityNext]_entityVars

-----------------------------------------------------------------------------
InHour(t) == t > hourAgo

VerifiedIsProven ==
  /\ \A t \in 1 .. MaxAttempts : spentBy[t] <= 1
  /\ entity.status = "verified" /\ backing # 0 /\ "erased" \notin mishaps
       => attempts[backing].state = "verified" /\ attempts[backing].method = entity.method

SweepChecksProof ==
  entity.status = "verified" /\ entity.method = "dns" /\ lastProof # 0 =>
    \/ backing \in {0, lastProof}
    \/ \E h \in Handlers : On(h, "flip") /\ handler[h].token = lastProof
    \/ mishaps \cap {"unflipped", "reordered"} # {}

\* A challenge is consumed at most once; an entity that a claimant has had verified rests
\* on a consumed challenge of its own, unless it was erased and claimed anew while a
\* handler was between consuming and marking; and the daily sweep looks for the record of
\* the very challenge a dns-verified entity rests on, unless an operator decided, or two
\* handlers marked it in another order than they consumed.
ClaimRestsOnProof == VerifiedIsProven /\ SweepChecksProof

\* Whoever has spent a challenge has a verified entity, until it is revoked, unless the
\* handler has died in between or a start has put it back to pending.
SpentTokenVerifies ==
  \A t \in DOMAIN attempts :
    attempts[t].state = "verified" /\ mishaps \cap {"unflipped", "downgraded"} = {} =>
      \/ entity.status \in {"verified", "revoked"}
      \/ \E h \in Handlers : On(h, "flip") /\ handler[h].token = t

\* start_verification issues at most its limit within an hour, and one more for every
\* other handler that has counted and not yet inserted.
HourlyLimitHolds ==
  Cardinality({t \in starters : InHour(t)}) <= AttemptLimit + Cardinality(Handlers) - 1
=============================================================================
