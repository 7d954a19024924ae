---------------------------- MODULE DisputeReview ----------------------------
(***************************************************************************)
(* Disputes, their review and their audit trail                            *)
(* (crates/storage/src/repositories/disputes.rs, routes/disputes.rs).      *)
(*                                                                         *)
(* A decision is one transaction: it reads the dispute, updates its row    *)
(* and appends to the trail.  No decision asks what the dispute's status   *)
(* is, so a dispute may be decided again, and two operators may decide it  *)
(* at once; the row lock orders their commits.  An event's created_at is   *)
(* the time its transaction began, and the trail is read in that order.    *)
(* What a decision does to the entity's claim is in EntityVerification.    *)
(***************************************************************************)
EXTENDS Integers

CONSTANTS
  Disputes,          \* disputes about one domain
  DisputeOperators,  \* requests of operators, one decision after the other
  MaxTransactions       \* bound: transactions begun

ASSUME DisputeConstants == MaxTransactions \in Nat

VARIABLES
  dispute,      \* dispute[d]: [type, status, suppressed]
  trail,        \* trail[d]: events [at, event]; at numbers the transactions as they begin
  deciding,     \* deciding[o]: [step, dispute, verdict, at, seen]
  displayName,  \* the dispute whose proposal is the entity's name, "own" before any
  started,      \* number of transactions begun
  \* history
  crossed,      \* disputes decided by two transactions at once
  reversed      \* disputes whose honored objection was refused later

disputeVars == <<dispute, trail, deciding, displayName, started, crossed, reversed>>

DisputeTypes == {"correction", "claim_conflict", "gdpr_objection", "removal", "change_of_control"}
NoDispute == [type |-> "none", status |-> "none", suppressed |-> FALSE]
NotDeciding == [step |-> "idle", dispute |-> "none", verdict |-> "none", at |-> 0, seen |-> FALSE]

\* A verdict: the type it is for ("any"), the status it gives and the event it leaves.
Verdicts ==
  [approve    |-> [for |-> "correction",        status |-> "approved", event |-> "approved"],
   reject     |-> [for |-> "any",               status |-> "rejected", event |-> "rejected"],
   adjudicate |-> [for |-> "claim_conflict",    status |-> "resolved", event |-> "conflict_adjudicated"],
   transfer   |-> [for |-> "change_of_control", status |-> "resolved", event |-> "control_transferred"],
   honor      |-> [for |-> "gdpr_objection",    status |-> "approved", event |-> "honored"],
   refuse     |-> [for |-> "gdpr_objection",    status |-> "rejected", event |-> "refused"]]

DisputeInit ==
  /\ dispute = [d \in Disputes |-> NoDispute]
  /\ trail = [d \in Disputes |-> {}]
  /\ deciding = [o \in DisputeOperators |-> NotDeciding]
  /\ displayName = "own"
  /\ started = 0
  /\ crossed = {} /\ reversed = {}

Told(d, at, events) == trail' = [trail EXCEPT ![d] = @ \cup {[at |-> at, event |-> ev] : ev \in events}]

\* submit: a removal hides the domain until it is reviewed.
SubmitDispute(d, type) ==
  /\ dispute[d] = NoDispute /\ started < MaxTransactions
  /\ started' = started + 1
  /\ dispute' = [dispute EXCEPT ![d] = [type |-> type, status |-> "open", suppressed |-> type = "removal"]]
  /\ Told(d, started + 1, {"submitted"} \cup {ev \in {"suppressed"} : type = "removal"})
  /\ UNCHANGED <<deciding, displayName, crossed, reversed>>

BeginDecision(o, d, verdict) ==
  /\ deciding[o].step = "idle" /\ dispute[d] # NoDispute /\ started < MaxTransactions
  /\ started' = started + 1
  /\ deciding' = [deciding EXCEPT ![o] = [step |-> "read", dispute |-> d, verdict |-> verdict,
                                          at |-> started + 1, seen |-> FALSE]]
  /\ UNCHANGED <<dispute, trail, displayName, crossed, reversed>>

\* NotFound for a dispute of another type.
ReadDispute(o) ==
  /\ deciding[o].step = "read"
  /\ LET d == deciding[o].dispute
         fits == Verdicts[deciding[o].verdict].for \in {"any", dispute[d].type} IN
     deciding' = [deciding EXCEPT ![o] =
       IF fits THEN [@ EXCEPT !.step = "decide", !.seen = dispute[d].suppressed] ELSE NotDeciding]
  /\ UNCHANGED <<dispute, trail, displayName, started, crossed, reversed>>

\* An error rolls the whole decision back.
DecisionFails(o) ==
  /\ deciding[o].step \in {"read", "decide"}
  /\ deciding' = [deciding EXCEPT ![o] = NotDeciding]
  /\ UNCHANGED <<dispute, trail, displayName, started, crossed, reversed>>

\* The flag after a verdict: a rejection clears it, an honored objection sets it, and
\* a refused one leaves it as it is.
Suppressed(d, verdict) ==
  CASE verdict = "reject" -> FALSE [] verdict = "honor" -> TRUE [] OTHER -> dispute[d].suppressed

LiftingEvents(o) == {ev \in {"unsuppressed"} : deciding[o].verdict = "reject" /\ deciding[o].seen}

\* The decisions on the same dispute that have begun and not ended.
Rivals(o) == {p \in DisputeOperators \ {o} :
  deciding[p].step \in {"read", "decide"} /\ deciding[p].dispute = deciding[o].dispute}

\* Mutant of CommitDecision: the trail is written after the commit and may fail.
CommitThenLog(o) ==
  /\ deciding[o].step = "decide"
  /\ LET d == deciding[o].dispute  v == deciding[o].verdict IN
       /\ dispute' = [dispute EXCEPT ![d].status = Verdicts[v].status,
                                     ![d].suppressed = Suppressed(d, v)]
       /\ \/ Told(d, deciding[o].at, {Verdicts[v].event} \cup LiftingEvents(o))
          \/ UNCHANGED trail
       /\ crossed' = IF Rivals(o) # {} THEN crossed \cup {d} ELSE crossed
  /\ deciding' = [deciding EXCEPT ![o] = NotDeciding]
  /\ UNCHANGED <<displayName, started, reversed>>

CommitDecision(o) ==
  /\ deciding[o].step = "decide"
  /\ LET d == deciding[o].dispute  v == deciding[o].verdict IN
       /\ dispute' = [dispute EXCEPT ![d].status = Verdicts[v].status,
                                     ![d].suppressed = Suppressed(d, v)]
       /\ Told(d, deciding[o].at, {Verdicts[v].event} \cup LiftingEvents(o))
       /\ \/ v = "approve" /\ displayName' = d
          \/ UNCHANGED displayName    \* another verdict, or no proposed value
       /\ crossed' = IF Rivals(o) # {} THEN crossed \cup {d} ELSE crossed
       /\ reversed' = IF v = "refuse" /\ dispute[d].suppressed THEN reversed \cup {d} ELSE reversed
  /\ deciding' = [deciding EXCEPT ![o] = NotDeciding]
  /\ UNCHANGED started

DisputeNext ==
  \/ \E d \in Disputes, type \in DisputeTypes : SubmitDispute(d, type)
  \/ \E o \in DisputeOperators :
       \/ \E d \in Disputes, verdict \in DOMAIN Verdicts : BeginDecision(o, d, verdict)
       \/ ReadDispute(o) \/ DecisionFails(o) \/ CommitDecision(o)

DisputeSpec == DisputeInit /\ [][DisputeNext]_disputeVars

-----------------------------------------------------------------------------
\* The last of a dispute's events of some kinds, as the trail is read.
LastOf(d, kinds) ==
  LET told == {t \in trail[d] : t.event \in kinds} IN
  {t.event : t \in {u \in told : \A w \in told : w.at <= u.at}}

TrailTellsStatus ==
  \A d \in Disputes \ crossed :
    dispute[d] # NoDispute =>
      LET last == LastOf(d, {Verdicts[v].event : v \in DOMAIN Verdicts}) IN
      IF last = {} THEN dispute[d].status = "open"
      ELSE \A v \in DOMAIN Verdicts : Verdicts[v].event \in last => dispute[d].status = Verdicts[v].status

TrailTellsSuppression ==
  \A d \in Disputes \ (crossed \cup reversed) :
    dispute[d].suppressed <=>
      LastOf(d, {"suppressed", "unsuppressed", "honored", "refused"}) \cap {"suppressed", "honored"} # {}

\* A dispute is what its trail says last, through repeated and failing decisions: its
\* status is that of the last decision, and it hides its domain exactly when the last
\* event about that says so.  The exceptions are two operators deciding it at once, and
\* an objection refused that had been honored.
TrailTellsDispute == TrailTellsStatus /\ TrailTellsSuppression
=============================================================================
