------------------------------- MODULE EtlQueue -------------------------------
(***************************************************************************)
(* The ClickHouse migration: the etl_jobs queue and the resumable copy of a *)
(* project's analytics rows from Postgres to ClickHouse.                   *)
(*                                                                         *)
(*   - POST /v1/setup/clickhouse/resume enqueues a job (routes/setup.rs);  *)
(*   - workers claim the oldest pending job, run the migration and mark    *)
(*     the job (apps/worker/src/etl.rs);                                   *)
(*   - `ogeo analytics migrate-to-clickhouse` runs the same migration      *)
(*     without a job (cli/src/commands/analytics.rs);                      *)
(*   - the migration (metrics_store/clickhouse_etl.rs) copies batches of   *)
(*     rows and keeps a checkpoint, from which an interrupted one resumes. *)
(*                                                                         *)
(* Each action is one statement sent to Postgres or ClickHouse, with the   *)
(* step in memory that follows it.                                         *)
(*                                                                         *)
(* Not modelled: the contents of a row; a statement of a dead process that *)
(* ClickHouse applies only after the next migration has started; the       *)
(* heartbeat columns, which only a status page reads.                       *)
(* ClickHouse queues ALTER ... DELETE and applies it to the rows present     *)
(* when it was sent: `stored' is what it holds once its queue is empty.     *)
(***************************************************************************)
EXTENDS Integers, Sequences, FiniteSets, Functions

CONSTANTS
  Workers,     \* worker processes
  Commands,    \* CLI invocations: bounds their number
  Jobs,        \* etl_jobs rows: bounds the requests
  Projects,
  ProjectOf,   \* the project of each job
  Rows,        \* analytics rows a project may have
  Totals,      \* those that are citation totals; the others are visibility points
  SortKey,     \* what the two reads order by, points before totals
  Volatile,    \* rows that may come and go in Postgres
  BatchSize,   \* DEFAULT_ETL_BATCH_SIZE
  Nobody       \* "no job", "no project"

Runners == Workers \cup Commands      \* whoever may run the migration

ASSUME EtlConstants ==
  /\ ProjectOf \in [Jobs -> Projects]
  /\ Totals \subseteq Rows
  /\ Volatile \subseteq Rows
  /\ SortKey \in [Rows -> Nat]
  /\ \A r \in Rows \ Totals, t \in Totals : SortKey[r] < SortKey[t]
  /\ BatchSize \in Nat \ {0}
  /\ IsFiniteSet(Jobs) /\ IsFiniteSet(Rows)
  /\ Workers \cap Commands = {}
  /\ Nobody \notin Jobs \cup Projects

VARIABLES
  \* --- Postgres ---------------------------------------------------------
  job,       \* etl_jobs.status
  asked,     \* etl_jobs.requested_at, as a rank
  source,    \* the rows the two analytics reads would return now
  point,     \* analytics_migration_state: [state, done]
  \* --- ClickHouse ---------------------------------------------------------
  stored,    \* copies of each row
  \* --- runners ------------------------------------------------------------
  pc,        \* where a runner is
  busy,      \* the job a worker has claimed
  target,    \* the project a runner migrates
  plan,      \* the rows it has read, in order
  last,      \* last_completed
  \* --- history ------------------------------------------------------------
  starts,    \* how often a job was claimed
  lost,      \* jobs whose worker died, or whose mark failed
  goal,      \* what the project's open migration started with
  cuts,      \* attempts cut inside a batch since it started
  tangled,   \* runners that shared their project with another runner
  tainted    \* projects copied by tangled runners, or resumed with other rows

postgres == <<job, asked, source, point>>
runnerVars == <<pc, busy, target, plan, last>>
history == <<starts, lost, goal, cuts, tangled, tainted>>
vars == <<postgres, stored, runnerVars, history>>

-----------------------------------------------------------------------------
(* State                                                                   *)

Migrating == {"plan", "look", "wipe_points", "wipe_totals", "reset",
              "points", "totals", "advance", "finish"}
Settling == {"ok", "bad"}

TypeOK ==
  /\ job \in [Jobs -> {"none", "pending", "running", "done", "failed"}]
  /\ asked \in [Jobs -> Nat]
  /\ source \in [Projects -> SUBSET Rows]
  /\ point \in [Projects -> [state : {"none", "open", "finished"}, done : Nat]]
  /\ stored \in [Projects -> [Rows -> Nat]]
  /\ pc \in [Runners -> {"off", "idle", "ended"} \cup Migrating \cup Settling]
  /\ busy \in [Runners -> Jobs \cup {Nobody}]
  /\ target \in [Runners -> Projects \cup {Nobody}]
  /\ plan \in [Runners -> Seq(Rows)]
  /\ last \in [Runners -> Nat]
  /\ \A r \in Runners : pc[r] \in Migrating => target[r] \in Projects
  /\ \A w \in Workers : pc[w] \in Migrating \cup Settling => busy[w] \in Jobs
  /\ starts \in [Jobs -> Nat]
  /\ lost \subseteq Jobs
  /\ goal \in [Projects -> Seq(Rows)]
  /\ cuts \in [Projects -> Nat]
  /\ tangled \subseteq Runners
  /\ tainted \subseteq Projects

Init ==
  /\ job = [j \in Jobs |-> "none"]
  /\ asked = [j \in Jobs |-> 0]
  /\ source = [p \in Projects |-> Rows]
  /\ point = [p \in Projects |-> [state |-> "none", done |-> 0]]
  /\ stored = [p \in Projects |-> [x \in Rows |-> 0]]
  /\ pc = [r \in Runners |-> "off"]
  /\ busy = [r \in Runners |-> Nobody]
  /\ target = [r \in Runners |-> Nobody]
  /\ plan = [r \in Runners |-> <<>>]
  /\ last = [r \in Runners |-> 0]
  /\ starts = [j \in Jobs |-> 0]
  /\ lost = {}
  /\ goal = [p \in Projects |-> <<>>]
  /\ cuts = [p \in Projects |-> 0]
  /\ tangled = {}
  /\ tainted = {}

-----------------------------------------------------------------------------
(* Requests, data and processes                                            *)

\* post_clickhouse_resume.
Enqueue(j) ==
  /\ job[j] = "none"
  /\ job' = [job EXCEPT ![j] = "pending"]
  /\ asked' = [asked EXCEPT ![j] = Cardinality({i \in Jobs : job[i] # "none"})]
  /\ UNCHANGED <<source, point, stored, runnerVars, history>>

\* New runs, or the window of days moving on, change what the reads return.
SourceChanges(p, x) ==
  /\ x \in Volatile
  /\ source' = [source EXCEPT ![p] = IF x \in @ THEN @ \ {x} ELSE @ \cup {x}]
  /\ UNCHANGED <<job, asked, point, stored, runnerVars, history>>

Boot(w) ==
  /\ pc[w] = "off"
  /\ pc' = [pc EXCEPT ![w] = "idle"]
  /\ UNCHANGED <<postgres, stored, busy, target, plan, last, history>>

\* A runner turns to another job, or to none: the migration's memory goes.
Leave(r, next) ==
  /\ pc' = [pc EXCEPT ![r] = next]
  /\ target' = [target EXCEPT ![r] = Nobody]
  /\ plan' = [plan EXCEPT ![r] = <<>>]
  /\ last' = [last EXCEPT ![r] = 0]
  /\ tangled' = tangled \ {r}
  /\ cuts' = IF pc[r] \in {"totals", "advance"}
             THEN [cuts EXCEPT ![target[r]] = @ + 1]
             ELSE cuts

\* The process dies, or shuts down between two sweeps.
Stop(w) ==
  /\ pc[w] # "off"
  /\ Leave(w, "off")
  /\ busy' = [busy EXCEPT ![w] = Nobody]
  /\ lost' = IF busy[w] = Nobody THEN lost ELSE lost \cup {busy[w]}
  /\ UNCHANGED <<postgres, stored, starts, goal, tainted>>

-----------------------------------------------------------------------------
(* The queue                                                               *)

\* A runner begins to migrate a project, perhaps beside others.
Begin(r, p) ==
  LET others == {x \in Runners \ {r} : pc[x] \in Migrating /\ target[x] = p} IN
  /\ pc' = [pc EXCEPT ![r] = "plan"]
  /\ target' = [target EXCEPT ![r] = p]
  /\ tangled' = IF others = {} THEN tangled ELSE tangled \cup others \cup {r}
  /\ tainted' = IF others = {} THEN tainted ELSE tainted \cup {p}

\* Mutant: the claim does not look at pending rows only.
ClaimableUnsettled == {j \in Jobs : job[j] \in {"pending", "running"}}

\* Mutant: one job of a project at a time.
ClaimablePerProject ==
  {j \in Jobs : job[j] = "pending" /\
     \A i \in Jobs : ProjectOf[i] = ProjectOf[j] => job[i] # "running"}

Claimable == {j \in Jobs : job[j] = "pending"}

\* claim_etl_job: the oldest pending row, locked with SKIP LOCKED and updated in
\* one statement.
ClaimJob(w) ==
  /\ pc[w] = "idle"
  /\ \E j \in Claimable :
       /\ \A i \in Claimable : asked[j] <= asked[i]
       /\ job' = [job EXCEPT ![j] = "running"]
       /\ busy' = [busy EXCEPT ![w] = j]
       /\ starts' = [starts EXCEPT ![j] = @ + 1]
       /\ Begin(w, ProjectOf[j])
  /\ UNCHANGED <<asked, source, point, stored, plan, last, lost, goal, cuts>>

\* run_migrate of the CLI.
CommandStarts(c, p) ==
  /\ pc[c] = "off"
  /\ Begin(c, p)
  /\ UNCHANGED <<postgres, stored, busy, plan, last, starts, lost, goal, cuts>>

\* mark_done or mark_failed of the worker's job.
Marked(w, status) ==
  /\ job' = [job EXCEPT ![busy[w]] = status]
  /\ Leave(w, "idle")
  /\ busy' = [busy EXCEPT ![w] = Nobody]
  /\ UNCHANGED <<asked, source, point, stored, starts, lost, goal, tainted>>

MarkDone(w) == pc[w] = "ok" /\ Marked(w, "done")

\* Mutant: a failed job is logged but not marked.
LogFailed(w) ==
  /\ pc[w] = "bad"
  /\ Leave(w, "idle")
  /\ busy' = [busy EXCEPT ![w] = Nobody]
  /\ UNCHANGED <<postgres, stored, starts, lost, goal, tainted>>

MarkFailed(w) == pc[w] = "bad" /\ Marked(w, "failed")

\* The mark fails: drain_etl_jobs returns Err and the worker goes on without it.
LoseMark(w) ==
  /\ pc[w] \in Settling
  /\ Leave(w, "idle")
  /\ busy' = [busy EXCEPT ![w] = Nobody]
  /\ lost' = lost \cup {busy[w]}
  /\ UNCHANGED <<postgres, stored, starts, goal, tainted>>

-----------------------------------------------------------------------------
(* migrate_project_resumable                                               *)

\* The orders in which the two reads may return a set of rows: neither ORDER BY
\* breaks ties (analytics/src/lib.rs:166, 383).
Orderings(S) ==
  {s \in Bijection(1 .. Cardinality(S), S) :
     \A i, k \in DOMAIN s : i < k => SortKey[s[i]] <= SortKey[s[k]]}

\* The rows are read and cut into batches.
Materialise(r) ==
  /\ pc[r] = "plan"
  /\ \E rows \in Orderings(source[target[r]]) : plan' = [plan EXCEPT ![r] = rows]
  /\ pc' = [pc EXCEPT ![r] = "look"]
  /\ UNCHANGED <<postgres, stored, busy, target, last, history>>

\* Where the loop over the batches goes when n of them are behind.
LoopAt(r, n) == IF n * BatchSize < Len(plan[r]) THEN "points" ELSE "finish"

\* An open checkpoint is resumed; a finished one, or none, is a fresh run.
ReadCheckpoint(r) ==
  LET p == target[r] IN
  /\ pc[r] = "look"
  /\ IF point[p].state = "open"
     THEN /\ last' = [last EXCEPT ![r] = point[p].done]
          /\ pc' = [pc EXCEPT ![r] = LoopAt(r, point[p].done)]
          /\ tainted' = IF plan[r] = goal[p] THEN tainted ELSE tainted \cup {p}
     ELSE /\ pc' = [pc EXCEPT ![r] = "wipe_points"]
          /\ UNCHANGED <<last, tainted>>
  /\ UNCHANGED <<postgres, stored, busy, target, plan, starts, lost, goal, cuts, tangled>>

\* ALTER TABLE visibility_points DELETE.
WipePoints(r) ==
  LET p == target[r] IN
  /\ pc[r] = "wipe_points"
  /\ stored' = [stored EXCEPT ![p] = [x \in Rows |-> IF x \in Totals THEN @[x] ELSE 0]]
  /\ pc' = [pc EXCEPT ![r] = "wipe_totals"]
  /\ UNCHANGED <<postgres, busy, target, plan, last, history>>

\* Mutant: citation_totals is forgotten.
WipeNoTotals(r) ==
  /\ pc[r] = "wipe_totals"
  /\ pc' = [pc EXCEPT ![r] = "reset"]
  /\ UNCHANGED <<postgres, stored, busy, target, plan, last, history>>

\* ALTER TABLE citation_totals DELETE.
WipeTotals(r) ==
  LET p == target[r] IN
  /\ pc[r] = "wipe_totals"
  /\ stored' = [stored EXCEPT ![p] = [x \in Rows |-> IF x \in Totals THEN 0 ELSE @[x]]]
  /\ pc' = [pc EXCEPT ![r] = "reset"]
  /\ UNCHANGED <<postgres, busy, target, plan, last, history>>

\* INSERT ... ON CONFLICT DO UPDATE of the checkpoint.
Reset(r) ==
  LET p == target[r] IN
  /\ pc[r] = "reset"
  /\ point' = [point EXCEPT ![p] = [state |-> "open", done |-> 0]]
  /\ last' = [last EXCEPT ![r] = 0]
  /\ pc' = [pc EXCEPT ![r] = LoopAt(r, 0)]
  /\ goal' = [goal EXCEPT ![p] = plan[r]]
  /\ cuts' = [cuts EXCEPT ![p] = 0]
  /\ tainted' = IF r \in tangled THEN tainted ELSE tainted \ {p}
  /\ UNCHANGED <<job, asked, source, stored, busy, target, plan, starts, lost, tangled>>

\* Mutant: the batch starts one row late.
BatchShifted(r) ==
  {plan[r][i] : i \in {k \in DOMAIN plan[r] : last[r] * BatchSize + 1 < k
                                            /\ k <= (last[r] + 1) * BatchSize}}

\* The rows of the next batch.
Batch(r) ==
  {plan[r][i] : i \in {k \in DOMAIN plan[r] : last[r] * BatchSize < k
                                            /\ k <= (last[r] + 1) * BatchSize}}

Seeded(p, S) ==
  stored' = [stored EXCEPT ![p] = [x \in Rows |-> IF x \in S THEN @[x] + 1 ELSE @[x]]]

\* INSERT INTO visibility_points; none when the batch has no points.
SeedPoints(r) ==
  /\ pc[r] = "points"
  /\ Seeded(target[r], Batch(r) \ Totals)
  /\ pc' = [pc EXCEPT ![r] = "totals"]
  /\ UNCHANGED <<postgres, busy, target, plan, last, history>>

\* INSERT INTO citation_totals; none when the batch has no totals.
SeedTotals(r) ==
  /\ pc[r] = "totals"
  /\ Seeded(target[r], Batch(r) \cap Totals)
  /\ pc' = [pc EXCEPT ![r] = "advance"]
  /\ UNCHANGED <<postgres, busy, target, plan, last, history>>

\* Mutant: the checkpoint is kept in memory only.
AdvanceUnsaved(r) ==
  /\ pc[r] = "advance"
  /\ last' = [last EXCEPT ![r] = @ + 1]
  /\ pc' = [pc EXCEPT ![r] = LoopAt(r, last[r] + 1)]
  /\ UNCHANGED <<postgres, stored, busy, target, plan, history>>

\* UPDATE ... SET last_completed_batch_id.
Advance(r) ==
  /\ pc[r] = "advance"
  /\ point' = [point EXCEPT ![target[r]].done = last[r] + 1]
  /\ last' = [last EXCEPT ![r] = @ + 1]
  /\ pc' = [pc EXCEPT ![r] = LoopAt(r, last[r] + 1)]
  /\ UNCHANGED <<job, asked, source, stored, busy, target, plan, history>>

\* UPDATE ... SET finished_at; the worker still has to mark its job.
Finish(r) ==
  /\ pc[r] = "finish"
  /\ point' = [point EXCEPT ![target[r]].state = "finished"]
  /\ Leave(r, IF r \in Commands THEN "ended" ELSE "ok")
  /\ UNCHANGED <<job, asked, source, stored, busy, starts, lost, goal, tainted>>

\* Mutant: the worker loses its job's id with the error.
FailNameless(r) ==
  /\ pc[r] \in Migrating
  /\ Leave(r, IF r \in Commands THEN "ended" ELSE "bad")
  /\ busy' = [busy EXCEPT ![r] = Nobody]
  /\ UNCHANGED <<postgres, stored, starts, lost, goal, tainted>>

\* A connection, a read or a statement fails, no prompt is declared, or the CLI is
\* killed.  A statement that took effect but whose answer was lost is the next
\* action followed by this one.
Fail(r) ==
  /\ pc[r] \in Migrating
  /\ Leave(r, IF r \in Commands THEN "ended" ELSE "bad")
  /\ UNCHANGED <<postgres, stored, busy, starts, lost, goal, tainted>>

-----------------------------------------------------------------------------
(* Specification                                                           *)

MigrationStep(r) ==
  \/ Materialise(r) \/ ReadCheckpoint(r)
  \/ WipePoints(r) \/ WipeTotals(r) \/ Reset(r)
  \/ SeedPoints(r) \/ SeedTotals(r) \/ Advance(r) \/ Finish(r)
  \/ Fail(r)

SettleStep(w) == MarkDone(w) \/ MarkFailed(w) \/ LoseMark(w)

Next ==
  \/ \E j \in Jobs : Enqueue(j)
  \/ \E p \in Projects, x \in Rows : SourceChanges(p, x)
  \/ \E w \in Workers : Boot(w) \/ Stop(w) \/ ClaimJob(w) \/ SettleStep(w)
  \/ \E c \in Commands, p \in Projects : CommandStarts(c, p)
  \/ \E r \in Runners : MigrationStep(r)

Spec == Init /\ [][Next]_vars

(***************************************************************************)
(* Fairness.  The poll loop of a running worker claims again and again, and *)
(* a statement it has sent ends by answer or error.  Nothing obliges a     *)
(* worker to start or to stay up, nor a client to ask.                     *)
(***************************************************************************)
Fairness ==
  \A w \in Workers :
    /\ WF_vars(ClaimJob(w))
    /\ WF_vars(SettleStep(w))
    /\ WF_vars(MigrationStep(w))

FairSpec == Spec /\ Fairness

-----------------------------------------------------------------------------
(* Safety                                                                  *)

\* etl.rs:14-16.  A job is claimed at most once and by one worker, and while a worker
\* has it the row says so, however many workers race for it, fail and come back.
JobsRunOnce ==
  /\ \A j \in Jobs : starts[j] <= 1
  /\ \A w \in Workers : busy[w] # Nobody =>
       /\ job[busy[w]] = "running"
       /\ \A v \in Workers : busy[v] = busy[w] => v = w

\* The rows of the first n batches of the open migration.
Covered(p, n) == {goal[p][i] : i \in {k \in DOMAIN goal[p] : k <= n * BatchSize}}

\* clickhouse_etl.rs:179-181.  What an open checkpoint counts as done is in
\* ClickHouse, whichever statement failed and wherever a worker died, as long as
\* nobody migrated the project at the same time or resumed it with other rows.
CheckpointIsBacked ==
  \A p \in Projects \ tainted : point[p].state = "open" =>
    \A x \in Covered(p, point[p].done) : stored[p][x] >= 1

\* When a migration finishes, ClickHouse holds (once queued deletions have run) every row
\* it set out to copy and no row of an earlier migration, after any number of
\* interruptions, with the same exceptions.
FinishedIsWhole ==
  [][\A p \in Projects \ tainted :
       (point[p].state = "open" /\ point'[p].state = "finished") =>
         {x \in Rows : stored[p][x] > 0} = Range(goal[p])]_vars

\* What one pass over the rows S leaves in ClickHouse: its tables do not merge equal rows.
SinglePass(S) == [x \in Rows |-> IF x \in S THEN 1 ELSE 0]

\* clickhouse_etl.rs:181-183, as far as it is so.  A migration that was interrupted between
\* batches only, however often and wherever, leaves what a single pass leaves, each row
\* once, with the same exceptions.  A cut between the inserts of a batch and its checkpoint
\* is another matter: see ResumeConverges.
BoundaryCutsConverge ==
  [][\A p \in Projects \ tainted :
       (point[p].state = "open" /\ point'[p].state = "finished" /\ cuts[p] = 0) =>
         stored[p] = SinglePass(Range(goal[p]))]_vars

-----------------------------------------------------------------------------
(* What the documentation says and the code does not do                    *)

\* clickhouse_etl.rs:178-183: the rows come "in a deterministic order", so that
\* "interrupt+resume converges to the same state as a single pass".  One runner, and
\* rows that do not change: a finished migration has copied all of them.
ResumeLosesNothing ==
  [][\A p \in Projects :
       (Cardinality(Runners) = 1 /\ Volatile = {}
        /\ point[p].state = "open" /\ point'[p].state = "finished") =>
         \A x \in source[p] : stored[p][x] >= 1]_vars

\* The same sentence, of rows that come in one order only: a finished migration has copied
\* each of them once.
ResumeConverges ==
  [][\A p \in Projects :
       (Cardinality(Runners) = 1 /\ Volatile = {} /\ IsInjective(SortKey)
        /\ point[p].state = "open" /\ point'[p].state = "finished") =>
         stored[p] = SinglePass(source[p])]_vars

-----------------------------------------------------------------------------
(* Liveness                                                                *)

StaysUp == \E w \in Workers : <>[](pc[w] # "off")

\* A job that was asked for is claimed, however other jobs end or get lost.
PendingIsClaimed ==
  StaysUp => \A j \in Jobs : job[j] = "pending" ~> job[j] # "pending"

\* A claimed job ends as done or failed unless its worker died or its mark was lost;
\* nothing else leaves it running.
RunningSettles ==
  \A j \in Jobs : job[j] = "running" ~> (job[j] \in {"done", "failed"} \/ j \in lost)
=============================================================================
