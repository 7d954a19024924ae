------------------------------ MODULE SiteEvents ------------------------------
(***************************************************************************)
(* Site events, their daily rollups and the retention of the raw rows      *)
(* (crates/storage/src/repositories/site_events.rs, apps/worker/src/run.rs,*)
(* apps/api/src/routes/site_events.rs).                                    *)
(*                                                                         *)
(* A sweep is four statements, each with its own snapshot and its own      *)
(* now(): the rollups of events, pages and referrers, and the deletion.  A *)
(* row carries the time its statement began and may be seen later.  A      *)
(* rollup is modelled by the set of events it has counted.                 *)
(***************************************************************************)
EXTENDS Integers, Sequences

CONSTANTS
  SiteEventIds,   \* events of one type, with a path and a referrer
  Sweepers,       \* worker processes
  Retention,      \* SITE_EVENT_RETENTION_DAYS
  LastDay         \* bound: the last day of the model

ASSUME SiteConstants == Retention \in Nat \ {0, 1, 2} /\ LastDay \in Nat

VARIABLES
  today,      \* the current date in UTC
  raw,        \* raw[e]: [state, ts]
  rollup,     \* rollup[table][d]: [counted, finalized]
  sweeper,    \* sweeper[w]: the statement a worker's sweep has come to
  late        \* history: events committed when a rollup of their day was final

siteVars == <<today, raw, rollup, sweeper, late>>

Days == 0 .. LastDay
Tables == {"events", "pages", "referrers"}
NoRollup == [counted |-> {}, finalized |-> FALSE]
SweepSteps == <<"events", "pages", "referrers", "prune">>

SiteInit ==
  /\ today = 0
  /\ raw = [e \in SiteEventIds |-> [state |-> "unsent", ts |-> 0]]
  /\ rollup = [t \in Tables |-> [d \in Days |-> NoRollup]]
  /\ sweeper = [w \in Sweepers |-> [at |-> 0, since |-> 0]]
  /\ late = {}

Rows(d) == {e \in SiteEventIds : raw[e].state = "stored" /\ raw[e].ts = d}

\* ts is the time the INSERT begins.
SendEvent(e) ==
  /\ raw[e].state = "unsent"
  /\ raw' = [raw EXCEPT ![e] = [state |-> "inserting", ts |-> today]]
  /\ UNCHANGED <<today, rollup, sweeper, late>>

CommitEvent(e) ==
  /\ raw[e].state = "inserting"
  /\ raw' = [raw EXCEPT ![e].state = "stored"]
  /\ late' = IF \E t \in Tables : rollup[t][raw[e].ts].finalized THEN late \cup {e} ELSE late
  /\ UNCHANGED <<today, rollup, sweeper>>

\* The API answers 204 all the same.
LoseEvent(e) ==
  /\ raw[e].state = "inserting"
  /\ raw' = [raw EXCEPT ![e].state = "lost"]
  /\ UNCHANGED <<today, rollup, sweeper, late>>

\* No insertion lasts a day and no sweep does: together they stay below the retention.
Midnight ==
  /\ today < LastDay
  /\ \A e \in SiteEventIds : raw[e].state = "inserting" => raw[e].ts = today
  /\ \A w \in Sweepers : sweeper[w].at # 0 => sweeper[w].since = today
  /\ today' = today + 1
  /\ UNCHANGED <<raw, rollup, sweeper, late>>

\* After the boot of a process and then daily.
BeginSweep(w) ==
  /\ sweeper[w].at = 0
  /\ sweeper' = [sweeper EXCEPT ![w] = [at |-> 1, since |-> today]]
  /\ UNCHANGED <<today, raw, rollup, late>>

\* Mutant of ComputeRollup: a final row is computed again.
RecomputeRollup(w) ==
  /\ sweeper[w].at \in 1 .. 3
  /\ LET t == SweepSteps[sweeper[w].at] IN
       rollup' = [rollup EXCEPT ![t] = [d \in Days |->
         IF Rows(d) = {} THEN rollup[t][d] ELSE [counted |-> Rows(d), finalized |-> d < today]]]
  /\ sweeper' = [sweeper EXCEPT ![w].at = @ + 1]
  /\ UNCHANGED <<today, raw, late>>

\* One bucket for every day that has raw rows, unless its bucket is final.
ComputeRollup(w) ==
  /\ sweeper[w].at \in 1 .. 3
  /\ LET t == SweepSteps[sweeper[w].at] IN
       rollup' = [rollup EXCEPT ![t] = [d \in Days |->
         IF Rows(d) = {} \/ rollup[t][d].finalized THEN rollup[t][d]
         ELSE [counted |-> Rows(d), finalized |-> d < today]]]
  /\ sweeper' = [sweeper EXCEPT ![w].at = @ + 1]
  /\ UNCHANGED <<today, raw, late>>

RollupFails(w) ==
  /\ sweeper[w].at \in 1 .. 3
  /\ sweeper' = [sweeper EXCEPT ![w].at = 0]
  /\ UNCHANGED <<today, raw, rollup, late>>

\* The cut goes through the middle of a day.
PruneRaw(w) ==
  /\ sweeper[w].at = 4
  /\ \E cut \in SUBSET Rows(today - Retention) :
       raw' = [e \in SiteEventIds |->
         IF raw[e].state = "stored" /\ (raw[e].ts < today - Retention \/ e \in cut)
         THEN [raw[e] EXCEPT !.state = "pruned"] ELSE raw[e]]
  /\ sweeper' = [sweeper EXCEPT ![w].at = 0]
  /\ UNCHANGED <<today, rollup, late>>

PruneFails(w) ==
  /\ sweeper[w].at = 4
  /\ sweeper' = [sweeper EXCEPT ![w].at = 0]
  /\ UNCHANGED <<today, raw, rollup, late>>

SiteNext ==
  \/ \E e \in SiteEventIds : SendEvent(e) \/ CommitEvent(e) \/ LoseEvent(e)
  \/ Midnight
  \/ \E w \in Sweepers :
       BeginSweep(w) \/ ComputeRollup(w) \/ RollupFails(w) \/ PruneRaw(w) \/ PruneFails(w)

SiteSpec == SiteInit /\ [][SiteNext]_siteVars

-----------------------------------------------------------------------------
FinalDaysAreWhole ==
  \A t \in Tables, d \in Days : rollup[t][d].finalized =>
    {e \in SiteEventIds : raw[e].state \in {"stored", "pruned"} /\ raw[e].ts = d} \ late
      \subseteq rollup[t][d].counted

PrunedIsCounted ==
  \A e \in SiteEventIds \ late : raw[e].state = "pruned" =>
    \A t \in Tables : e \in rollup[t][raw[e].ts].counted

\* A final rollup counts every event of its day, and a raw row is deleted only when all
\* three rollups have counted it, though sweeps of two workers overlap and any of their
\* statements may fail.  The exception is an event committed when its day was final.
RollupsAreWhole == FinalDaysAreWhole /\ PrunedIsCounted
=============================================================================
