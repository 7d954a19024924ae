----------------------------- MODULE PromptMatrix -----------------------------
(***************************************************************************)
(* The matrix of provider calls and what becomes of its records            *)
(* (crates/providers/src/orchestrator.rs, persistence.rs, run_tick of      *)
(* crates/scheduler/src/dispatch.rs, apps/api/src/routes/prompt_runs.rs,   *)
(* apps/cli/src/commands/run.rs).                                          *)
(*                                                                         *)
(* One task per cell (prompt, model), a semaphore over their calls, and a  *)
(* caller that joins the tasks and stores the records.  A task that panics *)
(* leaves a record with a name and ids of its own, "<panic>", which sorts  *)
(* before the others and which the three callers treat in three ways.      *)
(*                                                                         *)
(* In TickScheduler this is the step RunMatrix, with the schedule as the   *)
(* caller.                                                                 *)
(***************************************************************************)
EXTENDS Integers, FiniteSets

CONSTANTS
  MatrixPrompts,    \* prompts of the configuration
  Models,           \* models, each of one provider
  ProviderOf,       \* ProviderOf[m]: its provider
  CallPermits       \* `concurrency` of the configuration, at least 1

ASSUME MatrixConstants == CallPermits \in Nat \ {0}

VARIABLES
  source,      \* who runs the matrix: "schedule", "api" or "cli"
  database,    \* there is one to store in; the command may run without DATABASE_URL
  asked,       \* the cells that pass the filter
  registered,  \* providers with a client
  task,        \* task[c]: what a cell's task is doing or has ended with
  permits,     \* permits left
  caller,      \* "joining", "storing", then "ok", "error" or "gone"
  remaining,   \* cells whose record is still to be stored
  stored       \* cells with a row in prompt_runs

matrixVars == <<source, database, asked, registered, task, permits, caller, remaining, stored>>

MatrixCells == MatrixPrompts \X Models
Providers == {ProviderOf[m] : m \in Models}
OfProvider(q) == {m \in Models : ProviderOf[m] = q}

\* The schedule asks its registered providers only, the API one prompt and one
\* provider, the command whatever its filter lets through, which may be nothing.
MatrixInit ==
  /\ source \in {"schedule", "api", "cli"}
  /\ database \in BOOLEAN /\ (source # "cli" => database)
  /\ registered \in SUBSET Providers
  /\ \E ps \in SUBSET MatrixPrompts, qs \in SUBSET Providers :
       /\ source # "cli" => ps # {} /\ qs # {}
       /\ source = "schedule" => qs \subseteq registered
       /\ source = "api" => Cardinality(ps) = 1 /\ Cardinality(qs) = 1
       /\ asked = ps \X UNION {OfProvider(q) : q \in qs}
  /\ task = [c \in MatrixCells |-> "waiting"]
  /\ permits = CallPermits
  /\ caller = "joining"
  /\ remaining = {} /\ stored = {}

Ended == {"ok", "failed", "panicked"}
Panicked == {c \in asked : task[c] = "panicked"}
Succeeded == {c \in asked : task[c] = "ok"}
Ends(c, outcome) == task' = [task EXCEPT ![c] = outcome]

\* No client: a failed record, and no permit is asked for.
AnswerUnregistered(c) ==
  /\ c \in asked /\ task[c] = "waiting" /\ ProviderOf[c[2]] \notin registered
  /\ Ends(c, "failed")
  /\ UNCHANGED <<source, database, asked, registered, permits, caller, remaining, stored>>

TakePermit(c) ==
  /\ c \in asked /\ task[c] = "waiting" /\ ProviderOf[c[2]] \in registered
  /\ permits > 0
  /\ permits' = permits - 1
  /\ Ends(c, "calling")
  /\ UNCHANGED <<source, database, asked, registered, caller, remaining, stored>>

\* An answer, an error, a timeout, or a model the provider does not know.
AnswerCall(c) ==
  /\ task[c] = "calling"
  /\ \E outcome \in {"ok", "failed"} : Ends(c, outcome)
  /\ permits' = permits + 1
  /\ UNCHANGED <<source, database, asked, registered, caller, remaining, stored>>

PanicInCall(c) ==
  /\ task[c] = "calling"
  /\ Ends(c, "panicked")
  /\ permits' = permits + 1
  /\ UNCHANGED <<source, database, asked, registered, caller, remaining, stored>>

\* run_all returns when every task has been joined, whoever failed.
JoinTasks ==
  /\ caller = "joining" /\ \A c \in asked : task[c] \in Ended
  /\ caller' = "storing" /\ remaining' = asked
  /\ UNCHANGED <<source, database, asked, registered, task, permits, stored>>

\* The client of the API goes away: its handler is dropped, the tasks run on.
Abandon ==
  /\ source = "api" /\ caller \in {"joining", "storing"}
  /\ caller' = "gone"
  /\ UNCHANGED <<source, database, asked, registered, task, permits, remaining, stored>>

\* Records of panics come first, the rest in the order of the configuration.
FirstRecords == IF remaining \cap Panicked # {} THEN remaining \cap Panicked ELSE remaining

Keep(c) == stored' = stored \cup {c} /\ remaining' = remaining \ {c} /\ UNCHANGED caller
Skip(c) == remaining' = remaining \ {c} /\ UNCHANGED <<caller, stored>>
Refuse == caller' = "error" /\ UNCHANGED <<stored, remaining>>

\* The schedule looks up the prompt by the record's name and passes over a panic.
StoreForSchedule(c) ==
  /\ source = "schedule" /\ caller = "storing" /\ c \in FirstRecords
  /\ IF c \in Panicked THEN Skip(c) ELSE Keep(c)
  /\ UNCHANGED <<source, database, asked, registered, task, permits>>

\* The command stores the record's own prompt id: that of a panic is in no table.
StoreForCommand(c) ==
  /\ source = "cli" /\ database /\ caller = "storing" /\ c \in FirstRecords
  /\ IF c \in Panicked THEN Refuse ELSE Keep(c)
  /\ UNCHANGED <<source, database, asked, registered, task, permits>>

\* The API stores the first record, for the prompt of its request, and answers.
StoreForApi(c) ==
  /\ source = "api" /\ caller = "storing" /\ c \in FirstRecords
  /\ stored' = stored \cup {c}
  /\ caller' = "ok"
  /\ UNCHANGED <<source, database, asked, registered, task, permits, remaining>>

\* Mutant of StoreFails: the record is dropped and the next one stored.
StoreFailsAndGoesOn ==
  /\ caller = "storing" /\ database
  /\ \E c \in FirstRecords : Skip(c)
  /\ UNCHANGED <<source, database, asked, registered, task, permits>>

\* The command finds no connection, or a row, or the provenance after it, cannot be
\* inserted; a deleted prompt is one cause.
StoreFails ==
  /\ caller = "storing" /\ database
  /\ Refuse
  /\ UNCHANGED <<source, database, asked, registered, task, permits>>

AllStored ==
  /\ source = "schedule" /\ caller = "storing" /\ remaining = {}
  /\ caller' = "ok"
  /\ UNCHANGED <<source, database, asked, registered, task, permits, remaining, stored>>

\* The command stores everything or, without a database, nothing; its exit code then says
\* whether a cell succeeded.
EndCommand ==
  /\ source = "cli" /\ caller = "storing" /\ (database => remaining = {})
  /\ caller' = IF Succeeded # {} THEN "ok" ELSE "error"
  /\ UNCHANGED <<source, database, asked, registered, task, permits, remaining, stored>>

MatrixNext ==
  \/ \E c \in MatrixCells :
       \/ AnswerUnregistered(c) \/ TakePermit(c) \/ AnswerCall(c) \/ PanicInCall(c)
       \/ StoreForSchedule(c) \/ StoreForCommand(c) \/ StoreForApi(c)
  \/ JoinTasks \/ Abandon \/ StoreFails \/ AllStored \/ EndCommand

MatrixSpec == MatrixInit /\ [][MatrixNext]_matrixVars

-----------------------------------------------------------------------------
\* When the caller reports success every cell that was asked has its row, except a
\* panicked one of a schedule, those of an API request with several models, of which one
\* has, and those of a command without DATABASE_URL, which stores nothing.  A command that
\* reports success has had an answer, with or without a database.
SuccessIsStored ==
  caller = "ok" =>
    /\ source = "cli" => Succeeded # {}
    /\ \/ source = "schedule" /\ stored = asked \ Panicked
       \/ source = "cli" /\ database /\ stored = asked /\ Panicked = {}
       \/ source = "cli" /\ ~database /\ stored = {}
       \/ source = "api" /\ Cardinality(stored) = 1
=============================================================================
