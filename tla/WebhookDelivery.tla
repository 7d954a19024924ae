--------------------------- MODULE WebhookDelivery ---------------------------
(***************************************************************************)
(* Webhook deliveries: fan-out of an event to the subscribed webhooks, the *)
(* delivery sweep, and the automatic disabling of a broken target.         *)
(*                                                                         *)
(* The actors share two Postgres tables, webhooks and webhook_deliveries:  *)
(*   - producers (the recommendation routes of the API, and the worker for *)
(*     its lifecycle events) fan one event out into one pending row per    *)
(*     active subscribed webhook (webhooks/fanout.rs);                     *)
(*   - pollers sweep the pending rows (webhooks/poller.rs) and spawn one   *)
(*     task per row that posts it, marks it, and may disable its webhook   *)
(*     (webhooks/tick.rs).  The standalone worker and the one inside       *)
(*     `ogeo serve` are two pollers over one table;                        *)
(*   - an operator reenables a disabled webhook (`ogeo webhook reenable`). *)
(*                                                                         *)
(* Each action is one SQL statement or one HTTP exchange with the in-memory*)
(* step that follows it.                                                   *)
(*                                                                         *)
(* Not modelled: signing, egress policy and secret rotation (an exchange is*)
(* its classified outcome); the waits of the retry ladder: every row is    *)
(* inserted with attempt 1 and next_attempt_at NULL and no statement       *)
(* changes attempt, so a row is due as soon as it is pending and the       *)
(* ladder-exhausted branch of process_one_due is never taken.              *)
(***************************************************************************)
EXTENDS Integers, FiniteSets

CONSTANTS
  Webhooks,     \* webhook rows; declared before the model starts
  Events,       \* events, each emitted once: bounds the rows
  Subscribed,   \* the webhooks whose event_kinds name each event's kind
  Pollers,      \* processes that call poll_once
  BatchLimit,   \* DEFAULT_BATCH_LIMIT
  Threshold     \* AUTO_DISABLE_THRESHOLD

Deliveries == Webhooks \X Events     \* at most one row per webhook and event
Tasks == Pollers \X Deliveries       \* process_one_due of one poller on one row

ASSUME WebhookConstants ==
  /\ Subscribed \in [Events -> SUBSET Webhooks]
  /\ BatchLimit \in Nat \ {0}
  /\ Threshold \in Nat \ {0}

VARIABLES
  \* --- database -------------------------------------------------------
  status,      \* webhook_deliveries.status, "none" before the INSERT
  created,     \* webhook_deliveries.created_at
  clock,       \* the next created_at
  disabled,    \* webhooks.disabled
  \* --- producers -------------------------------------------------------
  emitted,     \* the event's fan-out has read the webhooks
  fan,         \* matching webhooks it has not inserted a row for yet
  \* --- pollers -----------------------------------------------------------
  phase,       \* where the process is
  batch,       \* due rows of the sweep that are not looked up yet
  task,        \* where the task on a row is
  \* --- history -----------------------------------------------------------
  heard,       \* answers received: <<delivery, answer>>
  recorded,    \* tasks that ran their mark: <<poller, delivery>>
  excused      \* webhooks whose last threshold check was cut short or undone

dbVars == <<status, created, clock, disabled>>
producerVars == <<emitted, fan>>
pollerVars == <<phase, batch, task>>
history == <<heard, recorded, excused>>
vars == <<dbVars, producerVars, pollerVars, history>>

-----------------------------------------------------------------------------
(* State                                                                   *)

Answers == {"ok", "retry", "reject"}
Outcomes == {"delivered", "failed", "dropped"}

\* The status a row gets for an answer.
OutcomeOf == [a \in Answers |-> CASE a = "ok" -> "delivered"
                                  [] a = "retry" -> "failed"
                                  [] a = "reject" -> "dropped"]

TaskStates == {"none", "post", "count", "disable"} \cup Answers

DeliveryRows == {d \in Deliveries : status[d] # "none"}
RowsOf(w) == {d \in DeliveryRows : d[1] = w}
Pending == {d \in DeliveryRows : status[d] = "pending"}

\* Types; created_at orders the rows, and a fan-out inserts no row twice.
TypeOK ==
  /\ status \in [Deliveries -> {"none", "pending"} \cup Outcomes]
  /\ created \in [Deliveries -> Nat]
  /\ clock \in Nat
  /\ \A d \in DeliveryRows : created[d] < clock
  /\ \A c, d \in DeliveryRows : created[c] = created[d] => c = d
  /\ disabled \in [Webhooks -> BOOLEAN]
  /\ emitted \in [Events -> BOOLEAN]
  /\ fan \in [Events -> SUBSET Webhooks]
  /\ \A w \in Webhooks, e \in Events :
       /\ w \in fan[e] => emitted[e] /\ <<w, e>> \notin DeliveryRows
       /\ <<w, e>> \in DeliveryRows => emitted[e]
  /\ phase \in [Pollers -> {"down", "idle", "sweep"}]
  /\ batch \in [Pollers -> SUBSET Deliveries]
  /\ task \in [Tasks -> TaskStates]
  /\ heard \subseteq Deliveries \X Answers
  /\ recorded \subseteq Tasks
  /\ excused \subseteq Webhooks

Init ==
  /\ status = [d \in Deliveries |-> "none"]
  /\ created = [d \in Deliveries |-> 0]
  /\ clock = 0
  /\ disabled = [w \in Webhooks |-> FALSE]
  /\ emitted = [e \in Events |-> FALSE]
  /\ fan = [e \in Events |-> {}]
  /\ phase = [p \in Pollers |-> "down"]
  /\ batch = [p \in Pollers |-> {}]
  /\ task = [t \in Tasks |-> "none"]
  /\ heard = {}
  /\ recorded = {}
  /\ excused = {}

-----------------------------------------------------------------------------
(* Producers and operator                                                  *)

\* enqueue_event reads the project's webhooks and keeps the active subscribers.
Emit(e) ==
  /\ ~emitted[e]
  /\ emitted' = [emitted EXCEPT ![e] = TRUE]
  /\ fan' = [fan EXCEPT ![e] = {w \in Subscribed[e] : ~disabled[w]}]
  /\ UNCHANGED <<dbVars, pollerVars, history>>

\* Mutant: the fan-out inserts a second row for a webhook it has served.
InsertRowAgain(w, e) ==
  /\ w \in fan[e]
  /\ status' = [status EXCEPT ![<<w, e>>] = "pending"]
  /\ created' = [created EXCEPT ![<<w, e>>] = clock]
  /\ clock' = clock + 1
  /\ UNCHANGED <<disabled, emitted, fan, pollerVars, history>>

\* insert_pending, for one of the matching webhooks.
InsertRow(w, e) ==
  /\ w \in fan[e]
  /\ status' = [status EXCEPT ![<<w, e>>] = "pending"]
  /\ created' = [created EXCEPT ![<<w, e>>] = clock]
  /\ clock' = clock + 1
  /\ fan' = [fan EXCEPT ![e] = @ \ {w}]
  /\ UNCHANGED <<disabled, emitted, pollerVars, history>>

\* An INSERT fails or the producer dies: the webhooks that are left get no row,
\* and nobody emits the event again.
AbortFanOut(e) ==
  /\ fan[e] # {}
  /\ fan' = [fan EXCEPT ![e] = {}]
  /\ UNCHANGED <<dbVars, emitted, pollerVars, history>>

\* `ogeo webhook reenable`.
Reenable(w) ==
  /\ disabled[w]
  /\ disabled' = [disabled EXCEPT ![w] = FALSE]
  /\ excused' = excused \cup {w}
  /\ UNCHANGED <<status, created, clock, producerVars, pollerVars, heard, recorded>>

-----------------------------------------------------------------------------
(* The sweep                                                               *)

Boot(p) ==
  /\ phase[p] = "down"
  /\ phase' = [phase EXCEPT ![p] = "idle"]
  /\ UNCHANGED <<dbVars, producerVars, batch, task, history>>

\* The tasks of a poller's JoinSet are gone: an answer not recorded is forgotten, a
\* threshold check not finished is cut short.
TasksAborted(p) ==
  /\ batch' = [batch EXCEPT ![p] = {}]
  /\ task' = [t \in Tasks |-> IF t[1] = p THEN "none" ELSE task[t]]
  /\ excused' = excused \cup
       {w \in Webhooks : \E e \in Events : task[<<p, <<w, e>>>>] \in {"count", "disable"}}

\* The process dies, or shuts down between two sweeps.
Stop(p) ==
  /\ phase[p] # "down"
  /\ phase' = [phase EXCEPT ![p] = "down"]
  /\ TasksAborted(p)
  /\ UNCHANGED <<dbVars, producerVars, heard, recorded>>

\* Mutant: the sweep also takes the rows marked failed.
DueWithFailed ==
  LET candidates == {d \in DeliveryRows : status[d] \in {"pending", "failed"}}
  IN {d \in candidates :
        Cardinality({c \in candidates : created[c] < created[d]}) < BatchLimit}

\* list_due: the oldest BatchLimit pending rows, whatever became of their webhook.
Due == {d \in Pending : Cardinality({c \in Pending : created[c] < created[d]}) < BatchLimit}

ListDue(p) ==
  /\ phase[p] = "idle"
  /\ Due # {}
  /\ phase' = [phase EXCEPT ![p] = "sweep"]
  /\ batch' = [batch EXCEPT ![p] = Due]
  /\ UNCHANGED <<dbVars, producerVars, task, history>>

NextInBatch(p, d) == d \in batch[p] /\ \A c \in batch[p] : created[d] <= created[c]

\* Mutant: rows of a webhook that has dropped one are skipped, disabled or not.
LookUpUntilDropped(p, d) ==
  /\ NextInBatch(p, d)
  /\ batch' = [batch EXCEPT ![p] = @ \ {d}]
  /\ task' = [task EXCEPT ![<<p, d>>] =
                IF \E c \in RowsOf(d[1]) : status[c] = "dropped" THEN "none" ELSE "post"]
  /\ UNCHANGED <<dbVars, producerVars, phase, history>>

\* get_by_id of the row's webhook; its task is spawned unless it is disabled.
LookUp(p, d) ==
  /\ NextInBatch(p, d)
  /\ batch' = [batch EXCEPT ![p] = @ \ {d}]
  /\ task' = [task EXCEPT ![<<p, d>>] = IF disabled[d[1]] THEN "none" ELSE "post"]
  /\ UNCHANGED <<dbVars, producerVars, phase, history>>

\* get_by_id fails: poll_once returns Err, which drops its JoinSet.
AbortSweep(p) ==
  /\ batch[p] # {}
  /\ phase' = [phase EXCEPT ![p] = "idle"]
  /\ TasksAborted(p)
  /\ UNCHANGED <<dbVars, producerVars, heard, recorded>>

\* Every task has been joined.
EndSweep(p) ==
  /\ phase[p] = "sweep"
  /\ batch[p] = {}
  /\ \A d \in Deliveries : task[<<p, d>>] = "none"
  /\ phase' = [phase EXCEPT ![p] = "idle"]
  /\ UNCHANGED <<dbVars, producerVars, batch, task, history>>

-----------------------------------------------------------------------------
(* process_one_due                                                         *)

\* deliver_one: the target answers, or the attempt times out ("retry").
Post(p, d) ==
  /\ task[<<p, d>>] = "post"
  /\ \E a \in Answers :
       /\ task' = [task EXCEPT ![<<p, d>>] = a]
       /\ heard' = heard \cup {<<d, a>>}
  /\ UNCHANGED <<dbVars, producerVars, phase, batch, recorded, excused>>

\* Mutant: an UPDATE without its status = 'pending' predicate.
MarkedAnyway(d, outcome) == status' = [status EXCEPT ![d] = outcome]

\* UPDATE ... WHERE id = $1 AND status = 'pending'.
Marked(d, outcome) ==
  status' = [status EXCEPT ![d] = IF @ = "pending" THEN outcome ELSE @]

\* Mutant: a timeout is recorded as a delivery.
MarkOptimistic(p, d) ==
  LET answer == task[<<p, d>>] IN
  /\ answer \in Answers
  /\ Marked(d, IF answer = "retry" THEN "delivered" ELSE OutcomeOf[answer])
  /\ task' = [task EXCEPT ![<<p, d>>] = IF answer = "reject" THEN "count" ELSE "none"]
  /\ recorded' = recorded \cup {<<p, d>>}
  /\ UNCHANGED <<created, clock, disabled, producerVars, phase, batch, heard, excused>>

\* mark_delivered, mark_failed_retryable or mark_dropped.
Mark(p, d) ==
  LET answer == task[<<p, d>>] IN
  /\ answer \in Answers
  /\ Marked(d, OutcomeOf[answer])
  /\ task' = [task EXCEPT ![<<p, d>>] = IF answer = "reject" THEN "count" ELSE "none"]
  /\ recorded' = recorded \cup {<<p, d>>}
  /\ UNCHANGED <<created, clock, disabled, producerVars, phase, batch, heard, excused>>

\* The UPDATE fails: the task ends, the row is still pending.
LoseMark(p, d) ==
  /\ task[<<p, d>>] \in Answers
  /\ task' = [task EXCEPT ![<<p, d>>] = "none"]
  /\ UNCHANGED <<dbVars, producerVars, phase, batch, history>>

\* Mutant: the count stops at a delivered row only.
StreakOfFailures(w) ==
  Cardinality({d \in RowsOf(w) :
    \A c \in RowsOf(w) : created[d] <= created[c] => status[c] \in {"dropped", "failed"}})

\* count_consecutive_dropped: from the newest row back to the first one that is not
\* dropped.  Its LIMIT 50 is above the threshold.
Streak(w) ==
  Cardinality({d \in RowsOf(w) :
    \A c \in RowsOf(w) : created[d] <= created[c] => status[c] = "dropped"})

\* Mutant: > instead of >=.
ShouldDisableLate(n) == n > Threshold

ShouldAutoDisable(n) == n >= Threshold

Count(p, d) ==
  /\ task[<<p, d>>] = "count"
  /\ task' = [task EXCEPT ![<<p, d>>] =
                IF ShouldAutoDisable(Streak(d[1])) THEN "disable" ELSE "none"]
  /\ excused' = excused \ {d[1]}
  /\ UNCHANGED <<dbVars, producerVars, phase, batch, heard, recorded>>

Disable(p, d) ==
  /\ task[<<p, d>>] = "disable"
  /\ disabled' = [disabled EXCEPT ![d[1]] = TRUE]
  /\ task' = [task EXCEPT ![<<p, d>>] = "none"]
  /\ UNCHANGED <<status, created, clock, producerVars, phase, batch, history>>

\* The count fails, or the UPDATE of the webhook does: the row stays dropped.
LoseCheck(p, d) ==
  /\ task[<<p, d>>] \in {"count", "disable"}
  /\ task' = [task EXCEPT ![<<p, d>>] = "none"]
  /\ excused' = excused \cup {d[1]}
  /\ UNCHANGED <<dbVars, producerVars, phase, batch, heard, recorded>>

-----------------------------------------------------------------------------
(* Specification                                                           *)

SweepStep(p) == EndSweep(p) \/ AbortSweep(p) \/ \E d \in Deliveries : LookUp(p, d)

TaskStep(p, d) ==
  \/ Post(p, d) \/ Mark(p, d) \/ LoseMark(p, d)
  \/ Count(p, d) \/ Disable(p, d) \/ LoseCheck(p, d)

Next ==
  \/ \E e \in Events :
       \/ Emit(e) \/ AbortFanOut(e)
       \/ \E w \in Webhooks : InsertRow(w, e)
  \/ \E w \in Webhooks : Reenable(w)
  \/ \E p \in Pollers :
       \/ Boot(p) \/ Stop(p) \/ ListDue(p) \/ SweepStep(p)
       \/ \E d \in Deliveries : TaskStep(p, d)

Spec == Init /\ [][Next]_vars

(***************************************************************************)
(* Fairness.  A running poller goes on: its loop polls again, a spawned    *)
(* task is run by the runtime and its HTTP exchange ends by answer or      *)
(* timeout.  A database call may fail, but one that is made again in every *)
(* sweep does not fail every time.  Nothing obliges a process to start or  *)
(* to stay up, a producer to finish, or an operator to reenable.           *)
(***************************************************************************)
Fairness ==
  \A p \in Pollers :
    /\ WF_vars(ListDue(p))
    /\ WF_vars(SweepStep(p))
    /\ \A d \in Deliveries :
         /\ WF_vars(TaskStep(p, d))
         /\ SF_vars(LookUp(p, d))
         /\ SF_vars(Mark(p, d))

FairSpec == Spec /\ Fairness

-----------------------------------------------------------------------------
(* Safety                                                                  *)

\* webhook_deliveries.rs:3-12.  A row leaves pending once: whatever another poller
\* hears for the same row later, and in whatever order the answers are recorded, the
\* outcome does not change.
OutcomeIsFinal ==
  [][\A d \in Deliveries : status[d] \in Outcomes => status'[d] = status[d]]_vars

\* An outcome is an answer the target really gave to some poller for that very row
\* (tick.rs process_one_due): no crash, abort or race invents one.
AnswerBacksOutcome ==
  \A d \in Deliveries : status[d] \in Outcomes =>
    \E a \in Answers : status[d] = OutcomeOf[a] /\ <<d, a>> \in heard

\* A poller never posts a row again once it has run the mark for it, even when
\* another poller settled the row first: duplicates come from a second poller or
\* from a failed mark, never from the sweep itself (poller.rs poll_once joins its
\* tasks before it lists again).
NoSelfRepeat ==
  \A t \in Tasks : task[t] = "post" => t \notin recorded

\* dispatcher.rs:57-61.  A webhook is disabled only after its target rejected
\* Threshold different rows for good; timeouts, 429 and 5xx never add up to it.
OnlyRejectsDisable ==
  \A w \in Webhooks : disabled[w] =>
    Cardinality({d \in Deliveries : d[1] = w /\ <<d, "reject">> \in heard}) >= Threshold

\* The Threshold newest rows of the webhook exist and are all dropped.
NewestDropped(w) ==
  \E newest \in SUBSET RowsOf(w) :
    /\ Cardinality(newest) = Threshold
    /\ \A d \in newest : status[d] = "dropped"
    /\ \A c \in RowsOf(w) \ newest, d \in newest : created[c] < created[d]

\* tick.rs:22-24.  When the Threshold newest rows of a webhook are dropped and no
\* task is about to check, the webhook is disabled, unless the last check was cut
\* short or an operator reenabled it since: no order in which two pollers drop rows
\* and producers insert new ones lets a broken target escape.
StreakDisables ==
  \A w \in Webhooks :
    \/ ~NewestDropped(w)
    \/ disabled[w]
    \/ w \in excused
    \/ \E t \in Tasks : t[2][1] = w /\ task[t] \in {"count", "disable"}

\* poller.rs:14-16: "a failing target does not block sibling deliveries".  As long as a
\* row of an enabled webhook is pending, the next sweep lists some such row.
SiblingsAreListed ==
  (\E d \in Pending : ~disabled[d[1]]) => \E d \in Due : ~disabled[d[1]]

-----------------------------------------------------------------------------
(* Liveness                                                                *)

\* Some poller eventually stays up.
StaysUp == \E p \in Pollers : <>[](phase[p] # "down")

\* poller.rs:40-112 with tick.rs:58-131.  A pending row is attempted and settled, or its
\* webhook is disabled, however many sweeps are aborted and marks fail on the way.
PendingIsSettled ==
  StaysUp => \A d \in Deliveries : status[d] = "pending" ~> (status[d] # "pending" \/ disabled[d[1]])

\* webhook_deliveries.rs:7: a failed row "will retry".
FailedIsRetried ==
  StaysUp => \A d \in Deliveries : status[d] = "failed" ~> (status[d] # "failed" \/ disabled[d[1]])
=============================================================================
