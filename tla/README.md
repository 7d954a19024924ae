# Verification of anseo

This directory holds TLA+ specifications of the parts of this repository in which several
processes or requests meet in one database, the TLC configurations that check them on small
instances, and theorems about them checked by TLAPS. Paths in this file are relative to the
repository's root, line numbers to this commit.

Contents: [inventory](#inventory), [modules](#modules), [TickScheduler](#tickscheduler),
[WebhookDelivery](#webhookdelivery), [EtlQueue](#etlqueue), [service modules](#service-modules),
[runs](#runs), [proofs](#proofs), [findings](#findings), [observations](#observations),
[not modelled](#not-modelled), [plan](#plan).

## Inventory

Anseo asks several AI providers a project's prompts on a cadence, stores the answers, and
tells people about them. Its processes (the API server, one or more workers, the CLI, the MCP
server, the web application) share one Postgres database and talk through its tables; there is
no other coordination. What is hard is therefore what happens between two SQL statements.

| Component | State it keeps | Operations | What is hard | Correct when |
|---|---|---|---|---|
| Scheduled ticks (`crates/scheduler/src/{dispatch,worker}.rs`, `apps/worker/src/{run,dispatch}.rs`, `apps/api/src/routes/schedules.rs`) | `schedules`, `schedule_ticks`, `prompt_runs`; per worker a sweep with one task per project and a permit semaphore | create / pause / delete, discover, claim, run the matrix, persist, mark, reap, run-now, publish events | several workers and API requests claim the same slot; crash between claim and mark; the reaper meets a live owner | no slot is run twice, verdicts stay, completed means stored, every stale claim is settled, every due slot is served |
| Webhook delivery (`crates/scheduler/src/webhooks/`, `crates/storage/src/repositories/{webhook_deliveries,webhooks}.rs`) | `webhook_deliveries`, `webhooks.disabled`; per poller a batch and a JoinSet | fan-out, list due, post, mark, count streak, disable, reenable | two pollers over one table, marks that fail, drops racing inserts, bounded batches | an outcome is final and was really heard, broken targets and only those are disabled, pending rows are settled |
| ClickHouse ETL (`apps/worker/src/etl.rs`, `crates/analytics/src/metrics_store/clickhouse_etl.rs`) | `etl_jobs`, `analytics_migration_state`, ClickHouse rows | enqueue, claim (SKIP LOCKED), migrate in checkpointed batches, mark | crash between claim and mark, between insert and checkpoint; two jobs of one project | a finished migration holds the rows it set out for, and each once if no attempt was cut inside a batch; a job is eventually settled |
| Signup saga (`apps/api/src/routes/signup.rs`, `crates/storage/src/repositories/provisioning_saga.rs`) | organizations, members, entitlements, saga row | sign up, advance the steps, verify the email | nine separate statements, resubmission, a constraint that cannot arbitrate | the step a saga has reached is true of its organization |
| Entity claims (`apps/api/src/routes/{verification,operator_entities}.rs`, `crates/storage/src/repositories/{verification,entities}.rs`) | the entity's claim, the ledger of challenges | start, check, magic link, daily sweep, revoke, overrule, erase | consume-then-mark, count-then-insert, a sweep that lists once | a verified claim rests on its own challenge, spent once |
| Disputes (`apps/api/src/routes/disputes.rs`, `crates/storage/src/repositories/disputes.rs`) | dispute rows, their trail of events, the entity's name | submit, approve, reject, adjudicate, transfer, assess an objection | decisions that do not look at the status they find | status and suppression are what the trail says last |
| Secret store (`crates/core/src/secret_store.rs`, `crates/benchmark/src/crypto.rs`) | an OS keyring, encrypted files, a cache per process | get, set, remove, mint, destroy | whole-file read-modify-write without a lock, legs that fail | a key that has sealed something stays readable, a destroyed one does not |
| Benchmark consent (`apps/cli/src/commands/{benchmark,project}.rs`, `apps/api/src/routes/{ingest,contributions}.rs`) | consent events of two tiers, the project's key, contributions | opt in, opt out, shred, contribute, erase | key and consent read before they are used | after an opt-out nothing of the project can be opened |
| Mail (`crates/comms/src/{dispatch,repo}.rs`, `apps/api/src/routes/comms.rs`) | preferences, suppressions, send log | send, deduplicate, edit preferences, unsubscribe | decide-then-send, forms that overwrite one another, errors after delivery | an unsubscribed address gets no marketing, a keyed mail goes out once |
| Provider orchestrator and its callers (`crates/providers/src/{orchestrator,persistence}.rs`, `apps/api/src/routes/prompt_runs.rs`, `apps/cli/src/commands/run.rs`) | permits, one task per cell, stored records | run all cells, store for schedule, API or CLI | panics, callers that hang up, inserts that fail half-way | success means stored, except for a command that has no database |
| Site events (`crates/storage/src/repositories/site_events.rs`, `apps/worker/src/run.rs`) | raw events, three rollups | insert, roll up, prune | overlapping sweeps, rows that become visible late | a final day is whole, nothing uncounted is pruned |
| Project and prompt identity (`apps/api/src/routes/{brand,projects,prompts}.rs`, their repositories, `crates/core/src/config.rs`) | projects, prompts, stored runs; ids are hashes of names | create, rename a brand or a prompt, delete, store a run | ids that change, in statements after those that justified it | runs keep their prompt, ids can be computed from names |
| Cadence and calendars (`crates/scheduler/src/{lib,worker}.rs`) | the recurrence, the last tick | next tick | clocks that change, phase of every n days | the first slot after the last tick, none skipped or doubled |
| Fan-out and daily run cap (`apps/worker/src/dispatch.rs`) | permits, counts of today's runs | count, skip, dispatch | the count is stale when used | every due project is served |
| Event transport (`crates/scheduler/src/transport.rs`) | a NOTIFY listener | publish, subscribe | best effort, lag | order per tick |
| Organization dunning and offboarding (`crates/storage/src/repositories/{org_dunning,offboarding}.rs`) | organization state, offboarding row | grace, suspend, restore, delete; export, shred | list-then-act jobs | outside these models |
| Recommendations (`crates/recommendations/src/lifecycle.rs`, `apps/api/src/routes/recommendations.rs`) | recommendation state | transition, emit event | read-check-write without a predicate | outside these models |
| Plugin host, authentication, authorization, billing, audit log, site audit, extractors, configuration, clients | mostly immutable data, files, caches | parse, check, render, store | data and I/O rather than interleaving | outside these models |

Calls between the modelled parts: the worker's poll loop reaps, dispatches and publishes
(`apps/worker/src/run.rs:203-300`), then sweeps webhooks and ETL jobs in the same pass. Webhook
rows are produced by the API's recommendation routes and by the worker for its lifecycle events,
but the event kinds a webhook may subscribe to leave only the `recommendation.*` events in
practice. The three sweeps write no table another of them reads (the migration reads stored
runs, of which `EtlQueue` keeps only that the rows of its reads may change), so the three modules
are independent. Where the other components touch, one module takes the other's part as a step of
its own: the schedule's matrix of calls is one step in `TickScheduler` and unfolded in
`PromptMatrix`; the key store is one step in `BenchmarkConsent` and unfolded in `SecretChain`; a
domain's claim changes at any moment in `BenchmarkConsent` and is `EntityVerification`'s subject; a
decision of a dispute overrules a claim in `EntityVerification` and writes its trail in
`DisputeReview`; a magic link is requested in `EntityVerification` and mailed once in `Comms`.

`PROJECT.json` lists the hazards of all these parts, each at the line where it bites, and for
each the properties that would catch it going wrong.

## Modules

| Module | Role |
|---|---|
| `TickScheduler` | scheduled ticks: schedules API, poll loop, units, run-now handlers |
| `TickLedger` | abstract specification: the life of one `(schedule_id, tick_ts)` |
| `MCTickScheduler` | instances of `TickScheduler` for TLC |
| `TickSchedulerProofs` | theorems about `TickScheduler`, among them that it implements `TickLedger` |
| `WebhookDelivery` | producers, pollers and operators over the delivery table |
| `MCWebhookDelivery` | instances of `WebhookDelivery` for TLC |
| `WebhookDeliveryProofs` | theorems about `WebhookDelivery` |
| `EtlQueue` | the ClickHouse job queue and the resumable migration |
| `MCEtlQueue` | instances of `EtlQueue` for TLC |
| `MCSweeps` | the webhook and ETL sweeps side by side, for the liveness of both |
| `EtlQueueProofs` | theorems about `EtlQueue` |
| `Provisioning` | signup, its saga, the verification of the address |
| `EntityVerification` | the claim of a domain and its challenges |
| `DisputeReview` | disputes, decisions and their trail |
| `SecretChain` | the chain of secret backends and the key that lives in it |
| `BenchmarkConsent` | consent, key, sealed and identified contributions |
| `Comms` | marketing and transactional mail, preference pages |
| `PromptMatrix` | the matrix of provider calls and the three callers that store its records |
| `SiteEvents` | raw events, rollups, retention |
| `BrandIdentity` | projects, prompts and runs under ids derived from names |
| `CalendarTicks` | the slots of calendar recurrences |
| `MCServices` | the ten modules above side by side, for TLC |
| `EntityVerificationProofs`, `BrandIdentityProofs` | theorems about those two modules |
| `AccountProofs` | theorems about `Provisioning`, `Comms` and `DisputeReview` |
| `KeyProofs` | theorems about `SecretChain` and `BenchmarkConsent` |
| `JobProofs` | theorems about `SiteEvents`, `PromptMatrix` and `CalendarTicks` |

Everywhere an action is one SQL statement together with the in-memory step that
follows it: Postgres makes a single statement atomic under READ COMMITTED, and everything else may interleave between two
statements. Where the code does use a transaction (a dispute's decision, the rename of a brand) its
reads and its commit are actions of their own if others can come in between. A definition that begins with the word *Mutant* in its comment is never used by a
specification: it is a plausible bug kept beside the definition it distorts, to see that a
property notices it.

## TickScheduler

State and code:

| Variables | Code |
|---|---|
| `schedule`, `tick`, `runs` | tables `schedules`, `schedule_ticks`, `prompt_runs` with a `schedule_tick_id`; `tick[k].manual` only records who claimed |
| `phase`, `clock`, `reaped` | where `run_poll_loop` / `run_tick` of a worker is, the `now` read once per sweep, the reaped keys whose events are still to be published |
| `pc`, `key`, `left`, `due`, `outbox` | one task per worker and project (`run_isolated`) or one run-now handler: its tick, the records still to store, the due list, the events accumulated |
| `claims`, `execs`, `produced`, `published` | history, read by properties only |

Actions and code: `CreateSchedule`, `SetPaused`, `DeleteSchedule` are the routes (the
delete cascades to ticks and detaches runs); `Boot`, `Stop` the process; `ReapOrphans`,
`PublishReaped`, `FanOut`, `Join`, `PublishEvent`, `EndSweep` the sweep; `Discover` reads the
due list under a permit; `ClaimWon`, `ClaimLost`, `ClaimRejected` are the three outcomes of the
`INSERT ... ON CONFLICT DO NOTHING`; `RunMatrix`, `PersistRow`, `MarkCompleted`, `MarkFailed`
and the failures beside them are `run_tick` and `mark_tick`; `StartRunNow`, `RunNowClaims`,
`RunNowRefused` the run-now route. A unit or a handler can break at every one of its steps
(`BreakUnit`, `BreakRequest`): a database error, a panic contained by the join, a client that
hangs up, all leave a claimed row behind.

Abstractions: time is a small integer and a slot a multiple of `Interval`; a run is one record
of a count; the cap on daily runs is a choice (`SkipUnit`). A tick's name is its key, which is
what the unique constraint compares.

Properties. `AtMostOnce`: no slot is claimed or executed twice. `Ownership`: the reason, an
inductive invariant about rows, claims and holders. `SettledIsFinal`: a verdict stays.
`CompletedIsWhole`: a completed tick has stored everything its matrix returned. `GapsAreManual`:
the cadence walks slot by slot, and only a run-now tick can pass over one. `EventsTell`: events
agree with the table and with one another. `TicksFollowLedger`: refinement of `TickLedger`, with
`status` mapped to the row (or to "gone" once the schedule is deleted) and `ran` to `execs`.
`StaleClaimSettles`, `DueSlotServed`: liveness.

## WebhookDelivery

| Variables | Code |
|---|---|
| `status`, `created`, `clock`, `disabled` | `webhook_deliveries.status` and `created_at`, the order of inserts, `webhooks.disabled` |
| `emitted`, `fan` | an event's fan-out: whether it has read the webhooks, and those it has no row for yet |
| `phase`, `batch`, `task` | a poller: running or not, the rows listed and not looked up yet, where each spawned task is |
| `heard`, `recorded`, `excused` | history: answers received, marks executed, webhooks whose last threshold check was cut short or undone |

`Emit`, `InsertRow`, `AbortFanOut` are `enqueue_event`; `ListDue`, `LookUp`, `AbortSweep`,
`EndSweep` are `poll_once`; `Post`, `Mark`, `LoseMark`, `Count`, `Disable`, `LoseCheck` are
`process_one_due` with `drop_and_maybe_disable`; `Reenable` is the CLI command. The repository's
`disable` function for operators has no caller, so no action models it.

Two processes run a poller over the same table: the worker and the loop inside `ogeo serve`.
`list_due` takes no lock, hence a row can be posted twice; what the properties say is what
remains true then.

Properties. `OutcomeIsFinal`, `AnswerBacksOutcome`, `NoSelfRepeat`: outcomes are written once,
were really heard, and a duplicate needs a second poller or a failed mark. `OnlyRejectsDisable`
and `StreakDisables` are the two directions of automatic disabling: never without enough
rejected rows, always once the newest rows are all dropped and no check is pending.
`PendingIsSettled`: liveness.

## EtlQueue

| Variables | Code |
|---|---|
| `job`, `asked` | `etl_jobs.status`, and `requested_at` as a rank |
| `source` | the rows `visibility_trend` and `citation_summary` would return now |
| `point` | `analytics_migration_state`: absent, open or finished, and `last_completed_batch_id` |
| `stored` | copies of each row in ClickHouse, once its queued deletions have run |
| `pc`, `busy`, `target`, `plan`, `last` | a runner (worker or CLI command): where it is, its job, its project, the rows it has read in order, `last_completed` |
| `starts`, `lost` | history: claims of a job; jobs whose worker died or whose mark failed |
| `goal`, `cuts` | history: the rows an open migration set out to copy; attempts cut inside a batch since |
| `tangled`, `tainted` | history: runners that met another one on their project; projects such runners have written, or a resumed run has continued with other rows |

`Enqueue` is `post_clickhouse_resume`; `ClaimJob`, `MarkDone`, `MarkFailed`, `LoseMark` are
`drain_etl_jobs`; `CommandStarts` the CLI command. `Materialise` to `Finish` are the statements
of `migrate_project_resumable`, in order: read the rows, read the checkpoint, wipe two tables,
reset the checkpoint, and per batch insert points, insert totals, advance. `Fail` ends a migration at any of
them, `Stop` a worker. The order of rows that tie is a choice (`Orderings`), because neither read has
a total order. A batch is a slice of the list the runner has read, and a resumed run skips by number
in a list it has read again, exactly as the code does.

Nothing locks a project: two jobs, or a job and the command, may migrate it at once, and the code
promises nothing then. `tainted` says where that has happened. It is cleared when a runner
that met nobody resets the checkpoint after its wipe, since the two deletions remove whatever the others
left.

Properties. `JobsRunOnce`: one claim, one worker, and the row says so. `CheckpointIsBacked`: a
checkpoint never runs ahead of the rows. `FinishedIsWhole`: exactly the rows the migration set out to
copy are there when it finishes. `BoundaryCutsConverge`: a migration interrupted between batches only,
however often, leaves what a single pass leaves, each row once. The insert of a batch and its
checkpoint are two statements on two databases, so a cut between them leaves duplicates:
`ResumeConverges`, which promises convergence whatever the cut, is refuted (finding 5). `PendingIsClaimed`,
`RunningSettles`: liveness; a job in `lost` stays running for good, there is no reaper.

## Service modules

Ten smaller modules, each of one service. They share no variables, so `MCServices` runs them side by
side: its variable `scope` says which of them a behaviour is of, the others keep their initial
state, and the numbers of states add up instead of multiplying. Every statement of every handler
may fail or be the last of its process, unless a section says otherwise. Where the code promises less than
one might wish, a property names the cases it leaves out, and a history variable records that one
of them has occurred (`mishaps`, `causes`, `late`, `crossed`, `reversed`, `misreported`, `strayed`).

### Provisioning

`signup[r].at` is the statement a request has come to, of the nine in `Statements`; `org`, `saga` are the
rows; `verifying` the handler of a link. `SubmitSignup` to `MailToken` are `signup`, statement by
statement, with two requests for the same or for different addresses; `FindSaga`, `CompleteSaga`,
`SetTrial` are `verify_email`; `StatementFails` ends a request anywhere. The constant `Deferrable` says
whether the saga's constraint is declared as the migration has it. With it the third statement is refused by
Postgres (finding 4); the run `services` has it FALSE to check the rest of the code.
`SagaTellsTruth`: the plan and the owner exist before the saga's step says so, also when a second
request meets the saga of the first.

### EntityVerification

One domain. `entity` is its row, `attempts` the ledger of challenges in order, `zone` the tokens in its
TXT record, `handler[h]` an API request, an operator's or the daily sweep. Starting is five statements
(`StartCounts`, `StartEnsures`, `StartSetsPending`, `ExpireLive`, `Mint`), a check or a magic link
finds a token, consumes it with a conditional update and then marks the entity (`FindToken`, `Consume`,
`Flip`), the sweep lists, looks up and revokes (`SweepLists`, `SweepLooksUp`, `SetGrace`,
`RecordRevocation`). An operator overrules, adjudicates, transfers, retriggers and erases.
`ClaimRestsOnProof`: a challenge is spent once, a claimant's verified entity rests on one of its own
that was spent, and the sweep looks for the record of that one. `SpentTokenVerifies`: who spent one has a verified entity, or a handler is about to
mark it. `HourlyLimitHolds`: concurrent starts pass the limit by at most one per other handler.

### DisputeReview

`dispute`, `trail` are the rows; `deciding[o]` a decision's transaction, which begins, reads the dispute
and commits (`BeginDecision`, `ReadDispute`, `CommitDecision`); no decision looks at the status it
finds. Events are ordered by the time their transaction began, because `created_at` is `now()`.
`TrailTellsDispute`: the status is that of the last decision of the trail, and the dispute hides its
domain exactly when the last event about that says so.

### SecretChain

`leg[l]` is what a durable leg of the chain holds, `cache[c]` the map a process last wrote to a file and the
modification time it then saw, `proc[c]` a call: which, at which step, on which leg. A get walks the
legs until one has the entry, a set stops at the first that accepts, a remove visits all. A
file is read, changed in memory and written whole (`SetReadsFile` or `RemoveReadsFile`, then
`WriteFile` or `TearFile`, then `NoteTime`); nothing is locked, and a file that cannot be
read is written as if it had been empty. `SealedStaysReadable`: a key that has sealed a contribution stays until
a destroy removes it. `ShredTakesEffect`: a destroy that reports success leaves no leg with a key that was
there. Both name the overlaps of processes and failures of legs under which the code cannot keep them.

### BenchmarkConsent

`consent` is the table of events, to which rows are only appended; `kek` the project's key; `outbox` and `named` the
sealed and the identified contributions; `request` and `command` handlers and CLI commands, whose
steps are the sequences `RequestSteps` and `CommandSteps` in the order of the code; `eraser` an
operator's erasure. `OptOutHolds`: after a full opt-out has reported success the key in the store opens
nothing of a request that read the consent before it, and requests that begin later contribute only
under a key made since. The property rests on an order nobody wrote down: the request loads its key before it
reads the consent.

### Comms

One recipient, one deduplication key. `subscription`, `listed`, `sendLog` are the rows of preferences,
suppressions and the send log; `mailer` a send, `page` a request of the preference center.
A marketing send reads the preferences, then the suppressions, and hands over the
mail afterwards; a preference form saves what its page was rendered with. The transport is external: it
accepts, refuses, or reports an error for a mail it has delivered. `UnsubscribeHolds`: no marketing send that
begins after an acknowledged unsubscribe reaches the transport. `DeliveredOnce`: a keyed mail goes
out once.

### PromptMatrix

`task[c]` is a cell's task, `permits` the semaphore, `caller` who waits for them and stores their
records: the schedule, the API or the CLI, each in its own way. `TakePermit`, `AnswerCall`,
`PanicInCall` are the tasks, `JoinTasks` the join, `StoreForSchedule`, `StoreForCommand`,
`StoreForApi` the callers, `Abandon` a client that hangs up, `AllStored` and `EndCommand` the end of a
tick's and of a command's. `database` is FALSE for a command run without `DATABASE_URL`, which stores
nothing and still exits 0 when a cell succeeded (`run.rs:68-107`). `SuccessIsStored`: what a caller
reports as success is stored, but for the cells it names (panics of a schedule, other models of an API
request, everything of a command without a database); a command that reports success has had an answer.

### SiteEvents

`raw[e]` is a row with the time its insert began, which may be seen later than that; `rollup[t][d]` the set of events a
daily rollup of a table has counted; `sweeper[w]` the statement a worker's sweep has come to.
Every statement has its own snapshot and its own `now()`, so midnight may pass between two of them.
`RollupsAreWhole`: a final day has all its events, and none is pruned that one of the three tables has not
counted. Both hold because a sweep prunes only after three rollups have succeeded, and because
the retention is longer than the days a rollup recomputes (`Retention` at least 3).

### BrandIdentity

Ids are hashes of names; here a project's id is the name it was derived from, a prompt's the pair of a brand and a
name. `edit[h]` is a request with what it has read: `put_brand` (`FindRow`, `RestoreRow`,
`UpdateBrand`, `CountBrandRuns`, `ListPrompts`, `RenameBrand`), `create_project`, `create_prompt`,
`update_prompt`, `delete_prompt`, the storing of a run, and the CLI's upserts, which take every id from the
names in `anseo.yaml`. The primary keys, the unique index and the restricting foreign keys are guards of
the inserts, renames and deletions. `RunsKeepTheirPrompt`: counting the runs first and renaming or
deleting later never takes the prompt from a run, because the foreign key refuses it.
`IdsAreDerived`: ids can be computed from names. The code breaks this in three ways, which `strayed`
records and the property excepts: a project renamed away is put back under another name (`restored`); a brand is
renamed after its prompts had been listed and changed since (`relisted`); and `brand_name_for` answers with the
brand configured at boot whenever `get_brand` finds no row *or fails* (`prompts.rs:129-134`), and the
request goes on with it (`ReadBrand`, `misread` if that is not the project's brand). A project's id
is affected by the first only.

### CalendarTicks

A time of day in a zone whose clocks go forward once and back once by one unit, either first; a rule for
weekdays or every n days; the last tick. `RunSlot` and `RunNow` move the last tick.
`NextCalendarTick` is `next_calendar_tick` day by day, `NextIsFirstSlot` compares it with the
definition of a slot instant by instant: the first time on a matching date that the wall clock shows the time of
day.

## Runs

Bounds are CONSTANTS in the `.cfg` files. Deadlock checking is off everywhere: every clock,
event and request is finite, so the models may stop.

| Run | Instance | Shows |
|---|---|---|
| `tick_safety` | 2 workers, 1 schedule, slots every tick of a clock up to 2 | types, `AtMostOnce`, `EventsTell`, `SettledIsFinal`, with crashes, reaps, pauses and deletion |
| `tick_runnow` | 1 worker, 1 run-now request, a slot every second tick, clock to 3 | `Ownership`, `CompletedIsWhole`, `GapsAreManual`, refinement of `TickLedger`, with manual ticks between slots |
| `tick_live` | 1 worker, 2 projects sharing 1 permit, 1 schedule | `StaleClaimSettles`, `DueSlotServed` |
| `webhook_safety` | 1 webhook, 2 events, 2 pollers, batch 2, threshold 2 | types, `OutcomeIsFinal`, `AnswerBacksOutcome`, `NoSelfRepeat`, `OnlyRejectsDisable`, `StreakDisables` |
| `webhook_retry` | 1 webhook, 1 event, 1 poller | violation, finding 2 |
| `webhook_backlog` | 2 webhooks, 2 events, batch 1, threshold 1 | violation, finding 3 |
| `sweeps_live` | 2 workers, 2 jobs of one project, a point and a total, batch 1; beside it 1 webhook, 2 events, 1 poller, threshold 1, batch of every row | `JobsRunOnce`, `PendingIsClaimed`, `RunningSettles`, `PendingIsSettled` |
| `etl_copy` | 1 worker with 2 jobs and 1 command on one project, 2 tied points and a total that comes and goes, batch 2 | types, `CheckpointIsBacked`, `FinishedIsWhole`, `BoundaryCutsConverge` |
| `etl_resume` | 1 worker, 2 jobs, 2 tied points, batch 1 | violation, finding 1 |
| `etl_cut` | 1 worker, 2 jobs, a point and a total, no ties, batch 1 | violation, finding 5 |
| `services` | ten modules side by side, two concurrent handlers of everything | the fifteen properties of the service modules |
| `signup` | `Provisioning` with the constraint as migrated | violation, finding 4 |

Why the bounds suffice. The races of a tick need two claimants of one key, hence two workers or
a worker and a request; the clock bound gives each schedule a tick to be orphaned, reaped, and
followed by the next slot. `ReapAge = 0` makes a claim stale one tick of the clock later, so
that a reap can meet a live owner. `Interval = 2` in `tick_runnow` leaves room for a manual tick between two slots,
and `Cells = 1` already separates stored from missing records. A permit shared by two projects
is the smallest case in which a leaked permit starves somebody. For webhooks two rows and a
threshold of two are the smallest streak that must not be mistaken for a single drop, two pollers
the smallest duplicate post. In `sweeps_live` the batch holds every row, because with a smaller
one the property fails (finding 3). For the migration, three rows in batches of two give a full
and a partial batch, one with both kinds of rows or none of one kind; two jobs and a command give an interrupted, a resumed and a
fresh run in any order and the overlap of two, and a second job of the same project is what a lost
job might block. `tick_safety` uses symmetry of workers, `webhook_safety` of
pollers and events; neither checks a liveness property.

In `services` every race has the two participants it needs: two handlers, sweepers, operators, mailers, pages,
clients or editors, interchangeable under the symmetry `Alike` where the module does not tell them
apart. Three challenges and four requests let a challenge be consumed while another is issued and the
domain is then checked by the sweep; with three requests the sweep has nothing outdated to look at. An attempt
limit of one makes two concurrent starts pass it. Four days with a retention of three let an event be counted, made
final and pruned in the middle of its day; two events on one day separate a rollup from its recomputation. Five transactions give a
dispute a decision, a second one and their overlap. A matrix of three models
at two providers has cells without a client, several models of one provider, and more calls than the
two permits; a second prompt only repeats them. Two keys distinguish a destroyed key from its successor, three calls a mint, a destroy and a write
by somebody else. Three consent events are an opt-in, an opt-out and another opt-in; with three callers a request meets
two commands. Three mails and page requests let an unsubscribe come before a send while an older form is
open. Three edits of two brands and two prompt names are a rename, what it renames and a request between its
steps; four edits were checked too, in a run of its own (489,000 states), and
showed nothing more. The calendar's days have three units and its weeks two days, which keeps a
change of clocks able to fall on any moment of a slot, before or after it; `Horizon` is longer than every rule needs.

Fairness. A running process goes on: tokio schedules every ready task, a provider call or an HTTP
exchange ends by answer or timeout, so the steps of a sweep, of a unit, of a delivery task and of a
worker's migration are weakly fair. A step whose database call may fail is retried by every later sweep; the models assume
that it does not fail in each of them (strong fairness of `ReapOrphans`, `FanOut`, `Discover`,
`ClaimWon`, `LookUp`, `Mark`). The daily cap is lifted at midnight, which is the same assumption
for `Discover`. Nothing obliges a process to start, stop or stay up, time to pass, a client
to act: liveness properties say *if some worker (poller) eventually stays up*.

## Proofs

All theorems hold for every value of the constants under the named assumptions of their modules:
`TickConstants`, `WebhookConstants`, `EtlConstants` (types of the constants, positive interval,
permits, batch and threshold, finitely many jobs and rows), `ProvisioningConstants`,
`EntityConstants`, `BrandConstants` (types, finitely many handlers), `SiteConstants` (a retention of three days or more),
`SecretConstants` (the chain is a list of backends, some of them files), `DisputeConstants`, `MatrixConstants`
(types) and `CalendarConstants` (days, weeks and horizon are not empty).
TLC evaluates them in every run that uses the module. `Comms` and `BenchmarkConsent` need none.

`TickSchedulerProofs`:

- `TypeCorrect`: `Spec => []TypeOK`, with one lemma per group of actions.
- `TicksAreOwned`: `Spec => []Ownership`. `AtMostOnce` is not inductive: nothing in it keeps a
  holder from driving the matrix of a tick that was driven before. `Ownership` adds what makes it so:
  while a schedule lives, rows and claims agree (the unique constraint remembers); a dead schedule takes
  no claim (the foreign key); a holder is the only one of its tick, has not driven the matrix while it
  is before it, and finds the row claimed or rolled forward when it marks it. Most steps give nobody a
  tick and touch no table (`QuietStep`); the claim, the reap, the deletion and the mark are the real
  cases.
- `TicksRunAtMostOnce`, `VerdictsAreFinal`: from `Ownership`.
- `CompletedTicksAreWhole`: `CompletedIsWhole` says nothing of a tick that is being stored. `RowsAccounted`
  adds that what is stored and what is left to store make up what the matrix returned (as long as the row
  exists: a deletion takes the stored rows with it), so that a runner marks a tick completed only with nothing left.
- `OnlyHandsLeaveGaps`: a gap speaks of two ticks and a slot between them. The inductive invariant `Cadence`
  speaks of one tick: it is the next slot after another tick, or after the schedule's creation (`Follows`), and
  so is every tick that a unit has found due: ticks are never removed while the schedule lives, so that what
  discovery computed from the newest one stays true until it is claimed. That nothing
  lies between a time and its next slot is arithmetic (`NextTickSkipsNothing`), and that a set of ticks has
  a newest one is well-foundedness (`LeastExists`, `GreatestExists`).
- `EventsAreTrue`: the invariant `Telling` follows an event from the outbox of whoever has it to what
  is published. What a unit keeps has not been told, the events of a tick are kept by one unit only, and if
  the tick is held, by that unit; an outcome that is kept or told agrees with the row (`KeptIsTrue`,
  `ToldIsTrue`), and what a worker has reaped was reaped by it alone (`ReapedIsTrue`).
- `SchedulerFollowsLedger`: `Spec => TicksFollowLedger`. `LedgerSteps` classifies every step
  of the scheduler as a stutter of the ledger or a claim, an execution, a roll-forward, a mark
  or a deletion; `StepsFollowLedger` maps each to the ledger's action under the two invariants.

`WebhookDeliveryProofs`, with the inductive invariant `Inv`: `TypeOK` (which says that creation
times order the rows and that a fan-out inserts no row twice), `Sweeping` (a poller that has a batch
or tasks is in a sweep, and a task's row exists and is no longer in the batch), `AnswersHeard` (a task
holds an answer its target gave), `MarkedOnce` (a row a poller has marked is settled, out of its
batch and not posted by it), and `AnswerBacksOutcome`. `NoSelfRepeat` needs all of them: a second
post by the same poller needs the row listed again, which needs it pending, which `MarkedOnce`
excludes. Theorems: `TypeCorrect`, `OutcomesAreBacked`, `PollersDoNotRepeat`, `OutcomesAreFinal`.
Two more are about counts of finite sets. `DisabledForRejects` (`RejectInv`): a task that goes on to disable has
counted a streak, each row of which is dropped, hence was rejected (`AnswerBacksOutcome`). `StreaksDisable`
(`StreakInv`): a drop that completes a streak is followed by a count in the same task, and a count that finds the
newest rows dropped sees at least as many (`StreakIsCounted`), so that it cannot leave the webhook enabled.

`EtlQueueProofs`:

- `TypeCorrect`, from one lemma for the steps of the migration and one for the queue.
- `JobsAreRunOnce`. The number of claims follows from the status (`ClaimsCounted`): a claim needs a
  pending row, and no step makes a row pending again. A job in a worker's hands is running, hence not
  claimable (`Held`).
- `CheckpointsAreBacked` and `FinishedAreWhole`, with the inductive invariant `BackInv`. Two runners
  on one project are both tangled and the project is tainted (`Entangled`, `Tainting`), so that on
  an untainted project a step of one runner is seen by nobody else (`BackStep`). What is left is
  sequential: while that runner wipes, the checkpoint is not open (`WipesClosed`) and what it has wiped is gone
  (`WipedSoFar`); while it copies, its memory equals the checkpoint and its inserts of the current
  batch are there (`CopiesOpen`); it finishes when no batch is left (`AtEnd`). `Backed` and `Exact` are then
  the two inclusions of `FinishedIsWhole`. The proof does not depend on the order of the rows: a resumed
  run that reads them in another order taints its project, which is the gap finding 1 is about.
- `BoundaryCutsConvergeAlways`, with `CutInv` beside `BackInv`: a row has one copy per cut, and one more if the
  checkpoint covers it or it is in flight in the current batch (`Bounded`, `Accounted`). Without a cut the
  step that finishes finds at most one copy of each row, and by `FinishFindsAll` at least one of those it set out for. An insert adds a copy
  only to rows not yet accounted for, because a plan names a row once (`Plain`) and batches of one plan are disjoint
  (`BatchIsNew`); a runner that leaves with rows in flight is a cut.

`AccountProofs`, signups (`ProvisioningInv`): `SagaTellsTruth` speaks of the saga's row only; what makes it inductive is
`StatementsDone` (what a request has done by the statement it has come to), `SagaHasRequest` (a saga
names the organization of a request of its address that has got as far as the operator) and
`OneOperator` (there is one such request, because a login is unique). The last two are why a second
signup cannot advance the saga of the first. The proof does not look at `Deferrable`.

`EntityVerificationProofs`, with the inductive invariant `EntityInv`: a challenge is spent once
(`SpentOnce`) because consuming is conditional on it being pending; the pending one of a method is the
newest (`NewestIsLive`), so that none is consumed after a newer one (`HandlersHold`, `LastIsConsumed`);
an entity rests on a consumed challenge of its method (`BackingIsConsumed`) which is the sweep's
(`SweepChecksProof`); a domain is without entity only after an erasure (`AbsentIsErased`). Steps that leave the
ledger and the entity alone are handled once (`QuietStep`). The two theorems on claims are weaker than one might
wish by the same `mishaps` as the properties. `HourlyLimitHoldsAlways` has an invariant of its own, `LimitInv`:
the challenges issued within the hour and the handlers that have counted and not yet inserted are together at most
the limit and the other handlers; a start counts what has been issued but not who else has counted.

`AccountProofs`, mail (`CommsInv`): the suppression list is written before the acknowledgment and never
shrinks, and a send looks at it after it has begun (`ListBindsSends`); the row of a dedup key is reserved
before the mail is handed over, and who has reserved it is alone until it has been delivered
(`OneHolder`, unless the transport has misreported).

`JobProofs`, site events (`SiteInv`): a sweep deletes only after three rollups, which have made final every
day two days older than the sweep (`SweptDaysAreFinal`), and sweeps and insertions see midnight once
at most (`ClocksAgree`), so that with the retention what is deleted is older than that
(`PrunedDaysAreFinal`); a final day is whole (`FinalDaysAreWhole`, but for inserts named in `late`).

`BrandIdentityProofs`, with `BrandInv`: the second half of a prompt's id is its name whatever happens
to the brand (`RowTypes`); what a request knows of the project it works for, by the step it has
come to, as long as nothing has `strayed` (`EditTypes`; the brand a request holds may be the configured
one after any failed read); and the two properties, each kept by the
constraints that guard the statement in question.

`AccountProofs`, disputes (`DisputeInv`): the trail is a set that is read in the order of its times, and a
transaction's time is that of its beginning, so that `TrailTellsDispute` is lost as soon as a decision
commits after one that began later. `DecisionsAreLast` is what prevents it: on a dispute that no two operators have
decided at once, a decision under way began after everything the trail says, and the flag it has read is
still the dispute's. It is inductive because a commit that has rivals puts the dispute into `crossed`.
`LastAfter` says what the last event of some kinds is after a commit: the commit's own if it has one of these
kinds, else what it was. `TransactionsKnown` bounds times and says that only what was submitted is decided.

`KeyProofs`, the chain (`SecretInv`, all of it under "no two processes have overlapped on the file"):

- `FilesKnown`: a cached map whose time is the file's is the file, and so is the map a process is about to
  write, with the change of its call (`BufferRight`). Without it nothing is known of the read-modify-write of
  the whole file, in which every call rewrites the key's entry.
- `KeysAreNew`: a key on its way into the chain is in no leg, aimed at by no destroy, shredded by none and made by
  no other process. It is why a late write cannot bring back what a destroy has removed.
- `NoKeyReturns`: the legs a destroy has come past hold none of the keys it is after (`LegsCleared`), unless
  a leg has failed. `ShredTakesEffect` is the case of a destroy that is through.
- `NoKeyIsLost`: who can seal (`Holding`) has a key that is stored or has been destroyed since, unless one of the
  causes named in the property has occurred. `SealedStaysReadable` needs it at the step that seals.

A step of a process is looked at twice: once for what it does to the legs (`KekStep`) and once for where keys
go (`KeysPassOnStep`); the four parts follow from these two facts. The argument does not depend on the number of
legs, on which of them are files, or on the bounds on calls and keys.

`KeyProofs`, consent (`ConsentInv`): the key in the store is the newest and younger than the last completed
withdrawal (`KekIsNewest`); a request holds a key younger than the withdrawals before it began
(`LoadedSince`), and once it has read the consent, one that is not in the store any more if that consent
has been withdrawn since (`DeadIfWithdrawn`). The first reading of the key before the consent, and the shredding
that follows the opt-out row, are what carries `OptOutHolds`.

`JobProofs`, the matrix (`MatrixInv`): a caller stores only after the join, when no task changes its outcome
any more (`JoinedTasksStay`), and what is stored and what remains make up what was asked (`StoredSoFar`), or,
for a command without a database, nothing is stored.

`JobProofs`, calendars: `NextIsFirstSlot` compares two computations, so that the work is arithmetic and not
induction over steps; the invariant `CalendarTyped` only keeps the last tick an instant. The wall clock shows an
instant or one unit more (`WallIsNear`), so that the instants of a date are one before its time of day or at it, and
the earliest is the one at which the clock shows what it did not show one unit earlier
(`EarliestIsFirstShown`). Dates do not go back (`DatesDoNotGoBack`), and a later date has its earliest instant strictly later
(`EarliestGrows`). Hence candidates and slots ahead correspond one to one
(`CandidateIsSlot`, `SlotIsCandidate`), in the same order, and the least of either is the same.
The proof does not look at the rule that makes a day match.

Every invariant and every action property that a passing run checks is stated by a theorem. Only
model-checked are the liveness properties `StaleClaimSettles`, `DueSlotServed`, `PendingIsSettled`, `PendingIsClaimed` and `RunningSettles`
(temporal reasoning under fairness is out of the prover's reach).

## Findings

1. `etl_resume`. `crates/analytics/src/metrics_store/clickhouse_etl.rs:177-183` says that rows come in a
   deterministic order and that "interrupt+resume converges to the same state as a single pass".
   The reads leave ties unordered (`crates/analytics/src/lib.rs:166` and `383`), and a resumed run
   skips by position: with two providers on one day, one row may be copied twice and the other never.
2. `webhook_retry`. `crates/storage/src/repositories/webhook_deliveries.rs:7` says of a failed row
   that it "will retry". `list_due` selects pending rows only and nothing makes a failed row pending
   again: a delivery that meets one timeout, 429 or 5xx is never attempted again.
3. `webhook_backlog`. `crates/scheduler/src/webhooks/poller.rs:14-16` says that a failing target does
   not block its siblings. The rows of a disabled webhook stay pending and `list_due` takes the oldest
   64 whatever their webhook's state: a full batch of them starves all other webhooks.
4. `signup`. `apps/api/src/routes/signup.rs:3-8` and `provisioning_saga.rs:35-37` describe a signup whose
   saga row is inserted or taken over on conflict. The constraint the insert names is
   `DEFERRABLE INITIALLY DEFERRED` (`migrations/20260619100000_org_state_machine.sql:60-61`), which
   Postgres does not accept as an arbiter: the statement fails for every signup, after the organization
   and the operator have been committed.
5. `etl_cut`. The sentence of finding 1, and `apps/cli/src/commands/analytics.rs:4-6` ("partial runs converge
   to a clean state on the next invocation"), fail without ties too. The inserts of a batch
   (`clickhouse_etl.rs:302`, `321`) and its checkpoint (`325`) are separate statements on two databases, and
   the next run resumes at the checkpoint without a wipe. An attempt that ends between them has its batch
   inserted again; the tables are plain `MergeTree` (`clickhouse_schema.sql:21`, `30`) and keep both
   copies, which the read of points returns twice and that of citations adds up. The repository's test
   (`crates/analytics/tests/migrate_resumable.rs`) interrupts between batches, where `BoundaryCutsConverge`
   is proved.

## Observations

What the models showed besides, without a run of its own. Some are departures of the code from a comment, some
are the cases that the properties above leave out.

Scheduled ticks. `crates/scheduler/src/worker.rs:163-165` says that a worker back from an outage records the skipped slot as
missed; the code anchors on the latest tick (`dispatch.rs:88-110`), so the late slot is run at once, and nothing
records `missed`. `worker.rs:25-27` says that a slow provider call cannot race a reap; the idle limit
of 300 s counts from the claim, and a matrix of many slow cells takes longer.

Signup. The column's default state is `trial` where the comment at `signup.rs:111` says `unconfigured`; nothing resumes a
saga, and the clean-up job the migration mentions does not exist, so organizations of failed signups stay.

Claims. Two concurrent starts and a check between their statements put a verified entity back to pending, although the
comment at `verification.rs:268-280` calls the start additive. Rows of revocations and of an
operator's retriggers count against the claimant's rate limit. Setting a claim's status does not clear
`grace_period_start`.

Disputes. An objection that was honored and is then refused leaves the domain suppressed with status
`rejected`, which the comment at `disputes.rs:275-279` excludes; `is_suppressed` has no caller outside tests.

Secrets. `ChainedStore::remove` succeeds if any leg did (`secret_store.rs:1080-1105`), while
`crypto.rs:205-207` promises that the key is gone. A file that cannot be read is replaced by one with
only the new entry (`secret_store.rs:887`). `load_or_create` has no caller outside tests, so nothing in production
mints a key.

Consent. Shredding a project does not revoke the brand tier, which `benchmark.rs:295-301` says a full opt-out must.
An identified contribution asks for some consent row, of whatever tier and event. The project that an
erasure maps its domain to is read before the deletion, and an erasure whose key store fails cannot be
repeated.

Mail. The SMTP transport always refuses (`transport.rs:87-94`). `send_marketing`, `upsert_subscription` and
`store_token` are called by tests only. An expired link still answers "You are unsubscribed".

Matrix. The API stores the first record when a provider has several models (`prompt_runs.rs:263-265` speaks of the
record). A panicked cell makes the CLI lose all records, because its made-up prompt id is stored first and refused.
Without `DATABASE_URL` the CLI stores nothing and exits 0 if a cell succeeded (`run.rs:68-71` intends this); a
database that is named but fails makes the same run exit with an internal error.

Calendars. `every N days` accepts any N, but the search ends after 800 days: a larger N runs once and is
skipped ever after as unparseable. The comment on clocks says that a time in a gap is resolved to the
earliest valid instant and also that the day is skipped; it is skipped.

Identity. `brand_name_for` (`prompts.rs:125-134`) is documented to fall back to the configured brand when no row
exists, "for multi-project correctness", but its `_` arm takes every error of the read as well: in any other
project a transient failure stores or renames a prompt under an id of the wrong brand. Two concurrent renames of a brand to one name leave a second project: the later request puts the old id back
under the new name and then fails. A prompt created between the list and the rename is moved but
keeps its id, after which the CLI's upsert of it fails on the unique index. Of two concurrent renames of one
prompt the second reports success although it updates no row. The CLI, run with the old name in
`anseo.yaml`, creates the renamed project anew. The rename (`projects.rs:258-347`) does not list `crawler_events`
and `audit_runs`, whose rows are deleted with the old project, nor `brand_accuracy_claims`, whose rows make it fail.

## Not modelled

- The retry ladder's waits: no row has an attempt above 1 (finding 2), so its branches are unreachable.
- Signing, egress policy, secret rotation of webhooks: an exchange is its classified outcome.
- The contents of ClickHouse rows, the heartbeat columns of a migration (only a status page reads them),
  and a statement of a dead process that ClickHouse applies after the next migration has begun.
- The arithmetic of the daily cap (nothing sets `projects.organization_id`, and scheduled runs carry no
  organization, so the count is zero), extraction of mentions and citations, cadences that do not divide a day.
- Delivery of NOTIFY events to SSE subscribers: a lost NOTIFY is only logged, so what a subscriber sees is
  a subsequence of `published`.
- Recommendations: as wired no analyzer yields one (`crates/recommendations/src/assembly.rs:10-13`), so the
  transitions of their states are never taken.
- Dunning and offboarding: functions that mostly have no caller, so the order in which they would be called is not
  in the code. What calls there are (`apps/api/src/routes/dsar.rs`) cannot reach `record_shredded`, because
  nothing calls `advance_to_pending_shred` before it.
- Functions without a caller: `mark_pending_conflict`, `mark_failed`, `reopen_after_grace_period`, the webhook
  repository's `disable`.
- Archiving of projects, the seeding of prompts at boot, bundle import.
- Authentication and authorization (pure checks of tokens and a static matrix), billing (single upserts),
  the organization's audit log (inserts only), the rate limiter (one bucket behind a mutex), the plugin host (manifests,
  signatures and a child process), the site audit (scores over HTML).
- Extractors, analytics, configuration and the clients: pure functions over text and
  floating-point numbers, or plain I/O. They and the web application are most of the repository's lines,
  which is why the modules cover the smaller part of them.

## Plan

| Modules | State | What remains |
|---|---|---|
| `TickScheduler`, `TickLedger` | checked, every safety property proved | nothing |
| `WebhookDelivery` | checked, every safety property proved (finding 3 refutes `SiblingsAreListed`) | nothing |
| `EtlQueue` | checked, every safety property proved | nothing |
| `Provisioning`, `EntityVerification`, `Comms`, `SiteEvents`, `BrandIdentity` | checked, every safety property proved | nothing |
| `DisputeReview`, `SecretChain`, `BenchmarkConsent`, `PromptMatrix`, `CalendarTicks` | checked, every safety property proved | nothing |
| an organization's life | not begun | once dunning and offboarding have callers |
| recommendations | not begun | once an analyzer is wired; then composed with the fan-out of `WebhookDelivery` |
