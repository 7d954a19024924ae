---------------------------- MODULE TickScheduler ----------------------------
(***************************************************************************)
(* Scheduled ticks: discovery, at-most-once claim, execution, marking and  *)
(* orphan reaping.                                                         *)
(*                                                                         *)
(* The actors share two Postgres tables, schedules and schedule_ticks:     *)
(*   - worker processes run a poll loop (apps/worker/src/run.rs): reap     *)
(*     orphaned ticks, fan the due schedules out to one task ("unit") per  *)
(*     project (apps/worker/src/dispatch.rs), publish the lifecycle events *)
(*     the units return;                                                   *)
(*   - API requests POST /v1/schedules/:id/run trigger a schedule by hand  *)
(*     through the same claim / run / mark code                            *)
(*     (crates/scheduler/src/dispatch.rs);                                 *)
(*   - API requests create, pause, resume and delete schedules.            *)
(*                                                                         *)
(* Each action is one SQL statement together with the in-memory step that  *)
(* follows it; everything else may interleave between two statements.  A   *)
(* process may stop at any point and a database call may fail at any point.*)
(*                                                                         *)
(* Not modelled here: calendar recurrences (only the anchored frequency    *)
(* cadence of anchor_next_tick), the arithmetic of the daily run cap, the  *)
(* text of a run, and mention or citation extraction, whose failure the    *)
(* code only logs.                                                         *)
(***************************************************************************)
EXTENDS Integers, Sequences, FiniteSets

CONSTANTS
  Workers,         \* worker processes
  Requests,        \* "run now" requests, each received once: bounds their number
  Projects,        \* active (non-archived) projects
  Schedules,       \* schedule ids; a deleted id is never used again (UUID v4)
  ProjectOf,       \* the project that owns each schedule
  Interval,        \* the cadence: minutes between two anchored slots
  ReapAge,         \* REAPER_IDLE_SECONDS
  MaxConcurrency,  \* DEFAULT_MAX_PROJECT_CONCURRENCY: permits of one sweep
  Cells,           \* bound: most rows one prompts x providers matrix yields
  Edited,          \* bound: the schedules that clients pause or delete
  MaxTime          \* bound: the clock stops here

Units == Workers \X Projects        \* one dispatch task per worker and project
Runners == Units \cup Requests      \* whoever may claim and run a tick
Time == 0 .. MaxTime
Keys == Schedules \X Time           \* schedule_ticks (schedule_id, tick_ts)

ASSUME TickConstants ==
  /\ ProjectOf \in [Schedules -> Projects]
  /\ Interval \in Nat \ {0}
  /\ ReapAge \in Nat
  /\ MaxConcurrency \in Nat \ {0}
  /\ Cells \in Nat
  /\ Edited \subseteq Schedules
  /\ MaxTime \in Nat
  /\ Units \cap Requests = {}

VARIABLES
  now,         \* the wall clock
  \* --- database -------------------------------------------------------
  schedule,    \* schedules row: [state, paused, created]
  tick,        \* schedule_ticks row per key: [status, at, manual]
  runs,        \* prompt_runs rows linked to the tick (schedule_tick_id)
  \* --- worker poll loop -----------------------------------------------
  phase,       \* where a worker's sweep is
  clock,       \* the instant passed to fan_out_dispatch, read once per sweep (0 outside)
  reaped,      \* rolled-forward keys whose events are still to be published
  \* --- dispatch units and run-now handlers -----------------------------
  pc,          \* where a runner is
  key,         \* the tick a runner is working on
  left,        \* records of its matrix still to be persisted
  due,         \* keys a unit discovered and has not tried to claim yet
  outbox,      \* lifecycle events a unit has accumulated
  \* --- history ---------------------------------------------------------
  claims,      \* successful claims of a key
  execs,       \* times the provider matrix was driven for a key
  produced,    \* records the matrix of a key returned
  published    \* events published for a key, in order

dbVars == <<schedule, tick, runs>>
loopVars == <<phase, clock, reaped>>
runnerVars == <<pc, key, left, due, outbox>>
history == <<claims, execs, produced, published>>
vars == <<now, dbVars, loopVars, runnerVars, history>>

-----------------------------------------------------------------------------
(* State                                                                   *)

NoRow == [status |-> "none", at |-> 0, manual |-> FALSE]
TickRow == [status : {"none", "claimed", "completed", "failed", "rolled_forward"},
            at : Time, manual : BOOLEAN]
ScheduleRow == [state : {"absent", "live", "deleted"}, paused : BOOLEAN, created : Time]
Events == [kind : {"claimed", "completed", "failed"}, key : Keys]
NoKey == <<>>

UnitPCs == {"off", "queued", "loop", "matrix", "persist", "fail", "done"}
RequestPCs == {"off", "claim", "matrix", "persist", "fail", "done"}

Holding == {"matrix", "persist", "fail"}          \* owns a claimed tick
Running == Holding \cup {"loop"}                  \* a unit: owns a fan-out permit
Keyed == Holding \cup {"claim"}                   \* works on a tick of its own

TypeOK ==
  /\ now \in Time
  /\ schedule \in [Schedules -> ScheduleRow]
  /\ tick \in [Keys -> TickRow]
  /\ runs \in [Keys -> Nat]
  /\ phase \in [Workers -> {"down", "idle", "reaped", "dispatch", "report"}]
  /\ clock \in [Workers -> Time]
  /\ reaped \in [Workers -> SUBSET Keys]
  /\ pc \in [Runners -> UnitPCs \cup RequestPCs]
  /\ key \in [Runners -> Keys \cup {NoKey}]
  /\ \A r \in Runners : pc[r] \in Keyed => key[r] \in Keys
  /\ left \in [Runners -> Nat]
  /\ due \in [Units -> SUBSET Keys]
  /\ outbox \in [Units -> Seq(Events)]
  /\ claims \in [Keys -> Nat]
  /\ execs \in [Keys -> Nat]
  /\ produced \in [Keys -> Nat]
  /\ published \in [Keys -> Seq({"claimed", "completed", "failed", "rolled_forward"})]

Init ==
  /\ now = 0
  /\ schedule = [s \in Schedules |-> [state |-> "absent", paused |-> FALSE, created |-> 0]]
  /\ tick = [k \in Keys |-> NoRow]
  /\ runs = [k \in Keys |-> 0]
  /\ phase = [w \in Workers |-> "down"]
  /\ clock = [w \in Workers |-> 0]
  /\ reaped = [w \in Workers |-> {}]
  /\ pc = [r \in Runners |-> "off"]
  /\ key = [r \in Runners |-> NoKey]
  /\ left = [r \in Runners |-> 0]
  /\ due = [u \in Units |-> {}]
  /\ outbox = [u \in Units |-> <<>>]
  /\ claims = [k \in Keys |-> 0]
  /\ execs = [k \in Keys |-> 0]
  /\ produced = [k \in Keys |-> 0]
  /\ published = [k \in Keys |-> <<>>]

Live(s) == schedule[s].state = "live"
HasRow(k) == tick[k].status # "none"
UnitsOf(w) == {w} \X Projects

-----------------------------------------------------------------------------
(* The clock, and the schedules API                                        *)

\* Time passes between any two steps.
Advance ==
  /\ now < MaxTime
  /\ now' = now + 1
  /\ UNCHANGED <<dbVars, loopVars, runnerVars, history>>

\* POST /v1/schedules: a fresh id, active, created_at = now().
CreateSchedule(s) ==
  /\ schedule[s].state = "absent"
  /\ schedule' = [schedule EXCEPT ![s] = [state |-> "live", paused |-> FALSE, created |-> now]]
  /\ UNCHANGED <<now, tick, runs, loopVars, runnerVars, history>>

\* PATCH /v1/schedules/:id {paused}.
SetPaused(s, b) ==
  /\ Live(s)
  /\ schedule[s].paused # b
  /\ schedule' = [schedule EXCEPT ![s].paused = b]
  /\ UNCHANGED <<now, tick, runs, loopVars, runnerVars, history>>

\* Mutant: without ON DELETE CASCADE on schedule_ticks.
DeleteKeepsTicks(s) ==
  /\ Live(s)
  /\ schedule' = [schedule EXCEPT ![s] = [state |-> "deleted", paused |-> FALSE, created |-> 0]]
  /\ UNCHANGED <<now, tick, runs, loopVars, runnerVars, history>>

\* DELETE /v1/schedules/:id: schedule_ticks rows cascade, prompt_runs rows stay
\* but lose their schedule_tick_id (ON DELETE SET NULL).
DeleteSchedule(s) ==
  /\ Live(s)
  /\ schedule' = [schedule EXCEPT ![s] = [state |-> "deleted", paused |-> FALSE, created |-> 0]]
  /\ tick' = [k \in Keys |-> IF k[1] = s THEN NoRow ELSE tick[k]]
  /\ runs' = [k \in Keys |-> IF k[1] = s THEN 0 ELSE runs[k]]
  /\ UNCHANGED <<now, loopVars, runnerVars, history>>

-----------------------------------------------------------------------------
(* Worker poll loop                                                        *)

\* The process starts and enters its poll loop.
Boot(w) ==
  /\ phase[w] = "down"
  /\ phase' = [phase EXCEPT ![w] = "idle"]
  /\ UNCHANGED <<now, dbVars, clock, reaped, runnerVars, history>>

\* The process dies, or shuts down between two sweeps: its memory is lost, and
\* every unit it spawned goes with it.
Stop(w) ==
  /\ phase[w] # "down"
  /\ phase' = [phase EXCEPT ![w] = "down"]
  /\ clock' = [clock EXCEPT ![w] = 0]
  /\ reaped' = [reaped EXCEPT ![w] = {}]
  /\ pc' = [r \in Runners |-> IF r \in UnitsOf(w) THEN "off" ELSE pc[r]]
  /\ key' = [r \in Runners |-> IF r \in UnitsOf(w) THEN NoKey ELSE key[r]]
  /\ left' = [r \in Runners |-> IF r \in UnitsOf(w) THEN 0 ELSE left[r]]
  /\ due' = [u \in Units |-> IF u \in UnitsOf(w) THEN {} ELSE due[u]]
  /\ outbox' = [u \in Units |-> IF u \in UnitsOf(w) THEN <<>> ELSE outbox[u]]
  /\ UNCHANGED <<now, dbVars, history>>

\* Mutant: the cutoff is added instead of subtracted: only young claims are reaped.
StaleYoung == {k \in Keys : tick[k].status = "claimed" /\ tick[k].at + ReapAge > now}

\* Mutant: the reaper's UPDATE without its status = 'claimed' predicate.
StaleAnyStatus == {k \in Keys : HasRow(k) /\ tick[k].at + ReapAge < now}

\* The rows the reaper's WHERE clause selects.
Stale == {k \in Keys : tick[k].status = "claimed" /\ tick[k].at + ReapAge < now}

\* reap_orphans: UPDATE ... SET status = 'rolled_forward' ... RETURNING.
ReapOrphans(w) ==
  /\ phase[w] = "idle"
  /\ phase' = [phase EXCEPT ![w] = "reaped"]
  /\ tick' = [k \in Keys |-> IF k \in Stale
                             THEN [tick[k] EXCEPT !.status = "rolled_forward"]
                             ELSE tick[k]]
  /\ reaped' = [reaped EXCEPT ![w] = Stale]
  /\ UNCHANGED <<now, schedule, runs, clock, runnerVars, history>>

\* The reaper's statement fails: logged, the sweep goes on.
SkipReap(w) ==
  /\ phase[w] = "idle"
  /\ phase' = [phase EXCEPT ![w] = "reaped"]
  /\ UNCHANGED <<now, dbVars, clock, reaped, runnerVars, history>>

\* One TickRolledForward is published.  A NOTIFY that fails is only logged: what
\* subscribers see is then a subsequence of published, here and in PublishEvent.
PublishReaped(w) ==
  /\ phase[w] = "reaped"
  /\ \E k \in reaped[w] :
       /\ reaped' = [reaped EXCEPT ![w] = @ \ {k}]
       /\ published' = [published EXCEPT ![k] = Append(@, "rolled_forward")]
  /\ UNCHANGED <<now, dbVars, phase, clock, runnerVars, claims, execs, produced>>

\* fan_out_dispatch: one spawned task per project, each waiting for a permit.
FanOut(w) ==
  /\ phase[w] = "reaped"
  /\ reaped[w] = {}
  /\ phase' = [phase EXCEPT ![w] = "dispatch"]
  /\ clock' = [clock EXCEPT ![w] = now]
  /\ pc' = [r \in Runners |-> IF r \in UnitsOf(w) THEN "queued" ELSE pc[r]]
  /\ UNCHANGED <<now, dbVars, reaped, key, left, due, outbox, history>>

\* No dispatch this sweep: no config or registry, or list_projects failed.
SkipFanOut(w) ==
  /\ phase[w] = "reaped"
  /\ reaped[w] = {}
  /\ phase' = [phase EXCEPT ![w] = "idle"]
  /\ UNCHANGED <<now, dbVars, clock, reaped, runnerVars, history>>

\* Every unit has been joined; one that failed has no events left.
Join(w) ==
  /\ phase[w] = "dispatch"
  /\ \A u \in UnitsOf(w) : pc[u] = "done"
  /\ phase' = [phase EXCEPT ![w] = "report"]
  /\ clock' = [clock EXCEPT ![w] = 0]
  /\ UNCHANGED <<now, dbVars, reaped, runnerVars, history>>

\* One event of a unit's report is published.
PublishEvent(w) ==
  /\ phase[w] = "report"
  /\ \E u \in UnitsOf(w) :
       /\ outbox[u] # <<>>
       /\ outbox' = [outbox EXCEPT ![u] = Tail(@)]
       /\ published' = [published EXCEPT ![Head(outbox[u]).key] =
                          Append(@, Head(outbox[u]).kind)]
  /\ UNCHANGED <<now, dbVars, loopVars, pc, key, left, due, claims, execs, produced>>

\* The sweep ends; the webhook and ETL sweeps that follow are other modules'.
EndSweep(w) ==
  /\ phase[w] = "report"
  /\ \A u \in UnitsOf(w) : outbox[u] = <<>>
  /\ phase' = [phase EXCEPT ![w] = "idle"]
  /\ pc' = [r \in Runners |-> IF r \in UnitsOf(w) THEN "off" ELSE pc[r]]
  /\ UNCHANGED <<now, dbVars, clock, reaped, key, left, due, outbox, history>>

-----------------------------------------------------------------------------
(* Discovery and claim                                                     *)

\* Mutant: the cadence is not anchored, the next tick is one interval later.
NextTickUnanchored(last_run) == last_run + Interval

\* anchor_next_tick: the smallest multiple of the interval after last_run.
NextTick(last_run) == (last_run \div Interval + 1) * Interval

Rows(s) == {t \in Time : HasRow(<<s, t>>)}

\* Mutant: the anchor ignores ticks that did not complete.
AnchorCompletedOnly(s) ==
  LET done == {t \in Rows(s) : tick[<<s, t>>].status = "completed"}
  IN IF done = {} THEN schedule[s].created
                  ELSE CHOOSE t \in done : \A x \in done : x <= t

\* MAX(tick_ts) of any status, or created_at for a schedule that never ticked.
Anchor(s) ==
  IF Rows(s) = {} THEN schedule[s].created
                  ELSE CHOOSE t \in Rows(s) : \A x \in Rows(s) : x <= t

\* discover_due_schedules_scoped: the keys of the project's unpaused schedules
\* whose next anchored tick is not after the sweep's clock.
Discovered(w, p) ==
  {k \in Keys : /\ ProjectOf[k[1]] = p
                /\ Live(k[1])
                /\ ~schedule[k[1]].paused
                /\ k[2] = NextTick(Anchor(k[1]))
                /\ k[2] <= clock[w]}

HasPermit(w) ==
  Cardinality({u \in UnitsOf(w) : pc[u] \in Running}) < MaxConcurrency

\* A unit gets a permit and reads its due schedules.
Discover(w, p) ==
  LET u == <<w, p>> IN
  /\ pc[u] = "queued"
  /\ HasPermit(w)
  /\ pc' = [pc EXCEPT ![u] = "loop"]
  /\ due' = [due EXCEPT ![u] = Discovered(w, p)]
  /\ UNCHANGED <<now, dbVars, loopVars, key, left, outbox, history>>

\* A unit gets a permit and finds its organization's daily run cap reached.
SkipUnit(w, p) ==
  LET u == <<w, p>> IN
  /\ pc[u] = "queued"
  /\ HasPermit(w)
  /\ pc' = [pc EXCEPT ![u] = "done"]
  /\ UNCHANGED <<now, dbVars, loopVars, key, left, due, outbox, history>>

\* Mutant: ON CONFLICT DO UPDATE, so that a second claim of the key wins too.
ClaimOverwrites(k, by_hand, r) ==
  /\ Live(k[1])
  /\ tick' = [tick EXCEPT ![k] = [status |-> "claimed", at |-> now, manual |-> by_hand]]
  /\ claims' = [claims EXCEPT ![k] = @ + 1]
  /\ pc' = [pc EXCEPT ![r] = "matrix"]
  /\ key' = [key EXCEPT ![r] = k]

\* claim_tick: INSERT ... ON CONFLICT (schedule_id, tick_ts) DO NOTHING, under
\* the foreign key to schedules; the runner goes on to run the tick.
Claim(k, by_hand, r) ==
  /\ Live(k[1])
  /\ ~HasRow(k)
  /\ tick' = [tick EXCEPT ![k] = [status |-> "claimed", at |-> now, manual |-> by_hand]]
  /\ claims' = [claims EXCEPT ![k] = @ + 1]
  /\ pc' = [pc EXCEPT ![r] = "matrix"]
  /\ key' = [key EXCEPT ![r] = k]

\* Mutant: the tick is let go but the unit stays in the middle of run_tick.
UnitFailsMidway(u) ==
  /\ key' = [key EXCEPT ![u] = NoKey]
  /\ UNCHANGED <<pc, left, due, outbox>>

\* The unit's sweep returns Err: what it still had to do and the events it had
\* accumulated are dropped.
UnitFails(u) ==
  /\ pc' = [pc EXCEPT ![u] = "done"]
  /\ key' = [key EXCEPT ![u] = NoKey]
  /\ left' = [left EXCEPT ![u] = 0]
  /\ due' = [due EXCEPT ![u] = {}]
  /\ outbox' = [outbox EXCEPT ![u] = <<>>]

\* A run-now handler returns, with whatever status code.
RequestEnds(q) ==
  /\ pc' = [pc EXCEPT ![q] = "done"]
  /\ key' = [key EXCEPT ![q] = NoKey]
  /\ left' = [left EXCEPT ![q] = 0]
  /\ UNCHANGED <<due, outbox>>

\* The unit wins the claim of one of its due ticks.
ClaimWon(u) ==
  /\ pc[u] = "loop"
  /\ \E k \in due[u] :
       /\ Claim(k, FALSE, u)
       /\ due' = [due EXCEPT ![u] = @ \ {k}]
       /\ outbox' = [outbox EXCEPT ![u] = Append(@, [kind |-> "claimed", key |-> k])]
  /\ UNCHANGED <<now, schedule, runs, loopVars, left, execs, produced, published>>

\* AlreadyClaimed: somebody else owns the tick; skip it.
ClaimLost(u) ==
  /\ pc[u] = "loop"
  /\ \E k \in due[u] :
       /\ Live(k[1]) /\ HasRow(k)
       /\ due' = [due EXCEPT ![u] = @ \ {k}]
  /\ UNCHANGED <<now, dbVars, loopVars, pc, key, left, outbox, history>>

\* The schedule was deleted since it was discovered: foreign-key violation.
ClaimRejected(u) ==
  /\ pc[u] = "loop"
  /\ \E k \in due[u] : ~Live(k[1])
  /\ UnitFails(u)
  /\ UNCHANGED <<now, dbVars, loopVars, history>>

\* Nothing left to claim: the unit returns Ok(events) and frees its permit.
UnitDone(u) ==
  /\ pc[u] = "loop"
  /\ due[u] = {}
  /\ pc' = [pc EXCEPT ![u] = "done"]
  /\ UNCHANGED <<now, dbVars, loopVars, key, left, due, outbox, history>>

\* run_schedule_now: the row exists in the project, paused or not; tick_ts = now.
StartRunNow(q, s) ==
  /\ pc[q] = "off"
  /\ Live(s)
  /\ pc' = [pc EXCEPT ![q] = "claim"]
  /\ key' = [key EXCEPT ![q] = <<s, now>>]
  /\ UNCHANGED <<now, dbVars, loopVars, left, due, outbox, history>>

RunNowClaims(q) ==
  /\ pc[q] = "claim"
  /\ Claim(key[q], TRUE, q)
  /\ UNCHANGED <<now, schedule, runs, loopVars, left, due, outbox, execs, produced, published>>

\* 409 tick_already_claimed, or 500 when the schedule is gone.
RunNowRefused(q) ==
  /\ pc[q] = "claim"
  /\ ~Live(key[q][1]) \/ HasRow(key[q])
  /\ RequestEnds(q)
  /\ UNCHANGED <<now, dbVars, loopVars, history>>

-----------------------------------------------------------------------------
(* run_tick and mark_tick, the same for a unit and for a run-now handler   *)

\* No prompt row or no configured provider: Ok((0, 0)), no provider is called.
EmptyMatrix(r) ==
  /\ pc[r] = "matrix"
  /\ pc' = [pc EXCEPT ![r] = "persist"]
  /\ left' = [left EXCEPT ![r] = 0]
  /\ UNCHANGED <<now, dbVars, loopVars, key, due, outbox, history>>

\* A prompt lookup fails before any provider call.
FailMatrix(r) ==
  /\ pc[r] = "matrix"
  /\ pc' = [pc EXCEPT ![r] = "fail"]
  /\ UNCHANGED <<now, dbVars, loopVars, key, left, due, outbox, history>>

\* Mutant: a run that yields no record is tried again.
RunMatrixAgain(r) ==
  /\ pc[r] = "matrix"
  /\ \E n \in 0 .. Cells :
       /\ left' = [left EXCEPT ![r] = n]
       /\ produced' = [produced EXCEPT ![key[r]] = n]
       /\ pc' = [pc EXCEPT ![r] = IF n = 0 /\ execs[key[r]] < 2 THEN "matrix" ELSE "persist"]
  /\ execs' = [execs EXCEPT ![key[r]] = @ + 1]
  /\ UNCHANGED <<now, dbVars, loopVars, key, due, outbox, claims, published>>

\* orchestrator.run_all: the whole matrix runs before anything is stored.  n is
\* what is left of it to store: a cell that panicked yields no row.
RunMatrix(r) ==
  /\ pc[r] = "matrix"
  /\ \E n \in 0 .. Cells :
       /\ left' = [left EXCEPT ![r] = n]
       /\ produced' = [produced EXCEPT ![key[r]] = n]
  /\ execs' = [execs EXCEPT ![key[r]] = @ + 1]
  /\ pc' = [pc EXCEPT ![r] = "persist"]
  /\ UNCHANGED <<now, dbVars, loopVars, key, due, outbox, claims, published>>

\* insert_scheduled_run: one prompt_runs row, under the foreign key to the tick.
PersistRow(r) ==
  /\ pc[r] = "persist"
  /\ left[r] > 0
  /\ HasRow(key[r])
  /\ runs' = [runs EXCEPT ![key[r]] = @ + 1]
  /\ left' = [left EXCEPT ![r] = @ - 1]
  /\ UNCHANGED <<now, schedule, tick, loopVars, pc, key, due, outbox, history>>

\* Mutant: a failed insert is skipped instead of ending run_tick.
SkipPersist(r) ==
  /\ pc[r] = "persist"
  /\ left[r] > 0
  /\ left' = [left EXCEPT ![r] = @ - 1]
  /\ UNCHANGED <<now, dbVars, loopVars, pc, key, due, outbox, history>>

\* The insert fails: run_tick returns Err, the rows already stored stay.
FailPersist(r) ==
  /\ pc[r] = "persist"
  /\ left[r] > 0
  /\ pc' = [pc EXCEPT ![r] = "fail"]
  /\ left' = [left EXCEPT ![r] = 0]
  /\ UNCHANGED <<now, dbVars, loopVars, key, due, outbox, history>>

\* mark_tick: UPDATE ... WHERE id = tick_id, whatever the status is by now, and a
\* no-op when the row is gone.
Marked(k, status) ==
  tick' = [tick EXCEPT ![k] = IF HasRow(k) THEN [@ EXCEPT !.status = status] ELSE @]

\* After mark_tick a unit records the event and takes its next due tick; a
\* run-now handler answers its client and publishes nothing.
Proceed(r, status) ==
  \/ /\ r \in Units
     /\ outbox' = [outbox EXCEPT ![r] = Append(@, [kind |-> status, key |-> key[r]])]
     /\ pc' = [pc EXCEPT ![r] = "loop"]
     /\ key' = [key EXCEPT ![r] = NoKey]
     /\ UNCHANGED <<left, due>>
  \/ /\ r \in Requests
     /\ RequestEnds(r)

\* Mutant: the event is recorded although mark_tick has not run.
CompleteUnmarked(r) ==
  /\ pc[r] = "persist"
  /\ left[r] = 0
  /\ UNCHANGED tick
  /\ Proceed(r, "completed")
  /\ UNCHANGED <<now, schedule, runs, loopVars, history>>

MarkCompleted(r) ==
  /\ pc[r] = "persist"
  /\ left[r] = 0
  /\ Marked(key[r], "completed")
  /\ Proceed(r, "completed")
  /\ UNCHANGED <<now, schedule, runs, loopVars, history>>

MarkFailed(r) ==
  /\ pc[r] = "fail"
  /\ Marked(key[r], "failed")
  /\ Proceed(r, "failed")
  /\ UNCHANGED <<now, schedule, runs, loopVars, history>>

\* A database error outside run_tick, or a panic contained at the join boundary:
\* the tick, if one was claimed, stays behind as it is.
BreakUnit(u) ==
  /\ pc[u] \in Running \cup {"queued"}
  /\ UnitFails(u)
  /\ UNCHANGED <<now, dbVars, loopVars, history>>

\* The handler ends early: a database error, the client hangs up and the future is
\* dropped, or the API process dies.
BreakRequest(q) ==
  /\ pc[q] \in Keyed
  /\ RequestEnds(q)
  /\ UNCHANGED <<now, dbVars, loopVars, history>>

-----------------------------------------------------------------------------
(* Specification                                                           *)

RunStep(r) ==
  \/ EmptyMatrix(r) \/ FailMatrix(r) \/ RunMatrix(r)
  \/ PersistRow(r) \/ FailPersist(r)
  \/ MarkCompleted(r) \/ MarkFailed(r)

ClaimStep(u) == ClaimWon(u) \/ ClaimLost(u) \/ ClaimRejected(u) \/ UnitDone(u)

LoopStep(w) ==
  \/ ReapOrphans(w) \/ SkipReap(w) \/ PublishReaped(w)
  \/ FanOut(w) \/ SkipFanOut(w) \/ Join(w) \/ PublishEvent(w) \/ EndSweep(w)

Next ==
  \/ Advance
  \/ \E s \in Schedules :
       \/ CreateSchedule(s)
       \/ s \in Edited /\ DeleteSchedule(s)
       \/ s \in Edited /\ \E b \in BOOLEAN : SetPaused(s, b)
  \/ \E w \in Workers : Boot(w) \/ Stop(w) \/ LoopStep(w)
  \/ \E w \in Workers, p \in Projects : Discover(w, p) \/ SkipUnit(w, p)
  \/ \E u \in Units : ClaimStep(u) \/ BreakUnit(u)
  \/ \E q \in Requests :
       \/ \E s \in Schedules : StartRunNow(q, s)
       \/ RunNowClaims(q) \/ RunNowRefused(q) \/ BreakRequest(q)
  \/ \E r \in Runners : RunStep(r)

Spec == Init /\ [][Next]_vars

(***************************************************************************)
(* Fairness.  The tokio runtime runs every ready task, a provider call ends *)
(* by answer or timeout, so each step of a sweep is weakly fair.  A database*)
(* call may fail, but one made again in every sweep does not fail every    *)
(* time, and the daily run cap is lifted at midnight: the steps of a sweep *)
(* that may be skipped are strongly fair.  Nothing obliges a worker to     *)
(* start, to stop or to stay up, nor a client to send anything.            *)
(***************************************************************************)
Fairness ==
  /\ \A w \in Workers :
       /\ WF_vars(LoopStep(w))
       /\ SF_vars(ReapOrphans(w))
       /\ SF_vars(FanOut(w))
  /\ \A w \in Workers, p \in Projects :
       /\ WF_vars(Discover(w, p) \/ SkipUnit(w, p))
       /\ SF_vars(Discover(w, p))
  /\ \A u \in Units :
       /\ WF_vars(ClaimStep(u))
       /\ SF_vars(ClaimWon(u))
  /\ \A r \in Runners : WF_vars(RunStep(r))

FairSpec == Spec /\ Fairness

-----------------------------------------------------------------------------
(* Safety                                                                  *)

\* worker.rs:3-6.  However workers, run-now requests, restarts and reaps
\* interleave, a (schedule_id, tick_ts) is claimed at most once and the provider
\* matrix is driven at most once for it: no prompt is ever billed twice.
AtMostOnce ==
  \A k \in Keys : claims[k] <= 1 /\ execs[k] <= 1

\* Why that is so, as an inductive invariant (worker.rs claim_tick, dispatch.rs).
\* The unique constraint remembers every claim while the schedule lives, and a
\* deleted schedule accepts no claim; whoever holds a tick is the only one to hold
\* it, has not driven its matrix before, and finds the row still without verdict
\* (or gone) when it comes to mark it.
RowsRememberClaims ==
  \A k \in Keys :
    /\ claims[k] \in 0 .. 1
    /\ execs[k] <= claims[k]
    /\ Live(k[1]) => (HasRow(k) <=> claims[k] = 1)
    /\ ~Live(k[1]) => ~HasRow(k)
    /\ schedule[k[1]].state = "absent" => claims[k] = 0

HoldersOwnTicks ==
  \A r \in Runners : pc[r] \in Holding =>
    /\ claims[key[r]] = 1
    /\ pc[r] = "matrix" => execs[key[r]] = 0
    /\ HasRow(key[r]) => tick[key[r]].status \in {"claimed", "rolled_forward"}
    /\ \A other \in Runners :
         pc[other] \in Holding /\ key[other] = key[r] => other = r

Ownership ==
  /\ RowsRememberClaims
  /\ HoldersOwnTicks
  /\ \A q \in Requests : pc[q] = "claim" => schedule[key[q][1]].state # "absent"

\* A tick reads "completed" only when every record its matrix returned is stored
\* as a prompt_runs row of that tick; a failed or reaped tick may hold some of
\* them, never more (dispatch.rs run_tick and mark_tick).
CompletedIsWhole ==
  \A k \in Keys :
    /\ runs[k] <= produced[k]
    /\ tick[k].status = "completed" => runs[k] = produced[k]

Slot(t) == t % Interval = 0

\* Discovery walks the cadence one slot at a time: when a slot after creation has
\* no tick although a later tick exists, it was a run-now tick that jumped over
\* it (it became MAX(tick_ts)), never the cadence itself.
GapsAreManual ==
  \A s \in Schedules : Live(s) =>
    \A t \in Time :
      (Slot(t) /\ schedule[s].created < t /\ t \notin Rows(s)) =>
        \A x \in Rows(s) :
          (t < x /\ \A y \in Rows(s) : t < y => x <= y) => tick[<<s, x>>].manual

Outcomes == {"completed", "failed"}

\* What subscribers are told about a tick agrees with the table: no event twice,
\* "claimed" never after an outcome, never both outcomes, and a published outcome is
\* the status the row has now (unless its schedule was deleted).
EventsTell ==
  \A k \in Keys :
    LET told == published[k] IN
    /\ \A i, j \in DOMAIN told : told[i] = told[j] => i = j
    /\ \A i, j \in DOMAIN told : told[i] \in Outcomes /\ told[j] = "claimed" => j < i
    /\ \A i \in DOMAIN told : told[i] \in Outcomes /\ Live(k[1]) => tick[k].status = told[i]

\* A tick marked completed or failed keeps that status until its schedule is
\* deleted: neither the reaper nor a second runner rewrites the verdict.
SettledIsFinal ==
  [][\A k \in Keys :
       tick[k].status \in Outcomes =>
         tick'[k] = tick[k] \/ schedule'[k[1]].state = "deleted"]_vars

\* How the state of a tick looks from outside: the row, or its absence for good.
StatusOf(k) == IF schedule[k[1]].state = "deleted" THEN "gone" ELSE tick[k].status

Ledger == INSTANCE TickLedger
            WITH Ticks <- Keys, status <- [k \in Keys |-> StatusOf(k)], ran <- execs

\* The scheduler as a whole implements the life of a tick in TickLedger: one claim,
\* at most one execution and only before the verdict, one verdict.
TicksFollowLedger == Ledger!LedgerSpec

-----------------------------------------------------------------------------
(* Liveness                                                                *)

\* Some worker process eventually stays up.
StaysUp == \E w \in Workers : <>[](phase[w] # "down")

\* worker.rs:6-8.  No tick stays "claimed" for good: whatever became of the process
\* that claimed it, it is marked by its owner or rolled forward by the reaper.
StaleClaimSettles ==
  StaysUp =>
    \A k \in Keys :
      (tick[k].status = "claimed" /\ tick[k].at + ReapAge < now)
        ~> tick[k].status # "claimed"

\* A schedule left alone and not paused is served: a slot that has come gets a
\* tick of its own or has been passed by a later one, even if the tick before it
\* was orphaned, failed or reaped.
DueSlotServed ==
  StaysUp =>
    \A s \in Schedules, t \in Time :
      (Live(s) /\ Slot(t) /\ schedule[s].created < t /\ t <= now)
        ~> (~Live(s) \/ schedule[s].paused \/ \E x \in Rows(s) : t <= x)
=============================================================================
