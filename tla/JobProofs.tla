-------------------------------- MODULE JobProofs --------------------------------
(***************************************************************************)
(* Proofs about what runs by itself or is fed by requests: the days of     *)
(* site events (SiteEvents), for any number of events and workers, any     *)
(* length of the run and any retention of three days or more; the matrix   *)
(* of provider calls (PromptMatrix), for any prompts and models; and the   *)
(* slots of a calendar (CalendarTicks), for days, weeks and horizons of    *)
(* any length and clocks that change at any two instants.                  *)
(***************************************************************************)
EXTENDS SiteEvents, PromptMatrix, CalendarTicks, FiniteSetTheorems, WellFoundedInduction,
        NaturalsInduction, TLAPS

-----------------------------------------------------------------------------
(* Site events.                                                            *)

Rollups == [counted : SUBSET SiteEventIds, finalized : BOOLEAN]

SiteTypes ==
  /\ today \in Days
  /\ raw \in [SiteEventIds -> [state : {"unsent", "inserting", "stored", "lost", "pruned"}, ts : Days]]
  /\ rollup \in [Tables -> [Days -> Rollups]]
  /\ sweeper \in [Sweepers -> [at : 0 .. 4, since : Days]]

\* An insertion and a sweep last into the next day at most.
ClocksAgree ==
  /\ \A e \in SiteEventIds : raw[e].ts <= today /\ (raw[e].state = "inserting" => raw[e].ts >= today - 1)
  /\ \A w \in Sweepers : sweeper[w].at # 0 => today - 1 <= sweeper[w].since /\ sweeper[w].since <= today

\* What a statement of a sweep has seen: every row that is two days older than the sweep.
SweptDaysAreFinal ==
  \A w \in Sweepers : \A i \in 1 .. 3 : i < sweeper[w].at =>
    \A e \in SiteEventIds : raw[e].state = "stored" /\ raw[e].ts < sweeper[w].since - 1 =>
      rollup[SweepSteps[i]][raw[e].ts].finalized

PrunedDaysAreFinal ==
  \A e \in SiteEventIds : raw[e].state = "pruned" =>
    \A t \in Tables : rollup[t][raw[e].ts].finalized

SiteInv ==
  SiteTypes /\ ClocksAgree /\ SweptDaysAreFinal /\ PrunedDaysAreFinal /\ FinalDaysAreWhole

-----------------------------------------------------------------------------
\* The tables are rolled up in this order.
LEMMA TablesInOrder ==
  /\ SweepSteps[1] = "events" /\ SweepSteps[2] = "pages" /\ SweepSteps[3] = "referrers"
  /\ \A i \in 1 .. 3 : SweepSteps[i] \in Tables
  /\ \A t \in Tables : \E i \in 1 .. 3 : t = SweepSteps[i]
<1>1. SweepSteps[1] = "events" /\ SweepSteps[2] = "pages" /\ SweepSteps[3] = "referrers"
  BY DEF SweepSteps
<1>2. \A i \in 1 .. 3 : i = 1 \/ i = 2 \/ i = 3 OBVIOUS
<1> QED BY <1>1, <1>2 DEF Tables

\* Nothing has been sent, and nothing counted.
LEMMA InitSite == SiteInit => SiteInv
BY SiteConstants
   DEF SiteInit, SiteInv, SiteTypes, ClocksAgree, SweptDaysAreFinal, PrunedDaysAreFinal,
       FinalDaysAreWhole, Days, Rollups, NoRollup

\* An event is sent, stored or lost; one that is stored late is named so.
LEMMA EventsKeepInv ==
  ASSUME SiteInv, NEW e \in SiteEventIds, SendEvent(e) \/ CommitEvent(e) \/ LoseEvent(e)
  PROVE  SiteInv'
<1>1. /\ raw' \in [SiteEventIds -> [state : {"unsent", "inserting", "stored", "lost", "pruned"}, ts : Days]]
      /\ \A g \in SiteEventIds \ {e} : raw'[g] = raw[g]
      /\ UNCHANGED <<today, rollup, sweeper>> /\ late \subseteq late'
      /\ raw'[e].state \in {"inserting", "lost", "stored"}
      /\ raw'[e].state = "inserting" => raw'[e].ts = today
      /\ raw'[e].state # "inserting" => raw[e].state = "inserting" /\ raw'[e].ts = raw[e].ts
      /\ raw'[e].state = "stored" /\ (\E t \in Tables : rollup[t][raw[e].ts].finalized) => e \in late'
  <2> USE DEF SiteInv, SiteTypes
  <2>1. CASE SendEvent(e) BY <2>1 DEF SendEvent
  <2>2. CASE CommitEvent(e) BY <2>2 DEF CommitEvent
  <2>3. CASE LoseEvent(e) BY <2>3 DEF LoseEvent
  <2> QED BY <2>1, <2>2, <2>3
<1>2. SiteTypes' BY <1>1 DEF SiteInv, SiteTypes
<1>3. ClocksAgree'
  <2>1. today \in Int /\ \A g \in SiteEventIds : raw[g].ts \in Int /\ raw'[g].ts \in Int
    BY <1>1 DEF SiteInv, SiteTypes, Days
  <2>2. ASSUME NEW g \in SiteEventIds
        PROVE  raw'[g].ts <= today /\ (raw'[g].state = "inserting" => raw'[g].ts >= today - 1)
    <3>1. CASE g = e /\ raw'[e].state = "inserting" BY <1>1, <2>1, <3>1
    <3>2. CASE g = e /\ raw'[e].state # "inserting"
      BY <1>1, <2>1, <3>2 DEF SiteInv, ClocksAgree
    <3>3. CASE g # e BY <1>1, <3>3 DEF SiteInv, ClocksAgree
    <3> QED BY <3>1, <3>2, <3>3
  <2> QED BY <1>1, <2>2 DEF SiteInv, ClocksAgree
<1>4. SweptDaysAreFinal'
  <2> SUFFICES ASSUME NEW w \in Sweepers, NEW i \in 1 .. 3, i < sweeper[w].at,
                      NEW g \in SiteEventIds, raw'[g].state = "stored", raw'[g].ts < sweeper[w].since - 1
               PROVE  rollup[SweepSteps[i]][raw'[g].ts].finalized
    BY <1>1 DEF SweptDaysAreFinal
  <2>1. g # e
    <3> SUFFICES ASSUME g = e PROVE FALSE
      OBVIOUS
    <3>1. raw[e].ts >= today - 1 /\ raw'[e].ts = raw[e].ts BY <1>1 DEF SiteInv, ClocksAgree
    <3>2. sweeper[w].since <= today /\ sweeper[w].at \in 0 .. 4
      BY DEF SiteInv, SiteTypes, ClocksAgree
    <3> QED BY <3>1, <3>2 DEF SiteInv, SiteTypes, Days
  <2> QED BY <1>1, <2>1 DEF SiteInv, SweptDaysAreFinal
<1>5. PrunedDaysAreFinal' BY <1>1 DEF SiteInv, PrunedDaysAreFinal
<1>6. FinalDaysAreWhole' BY <1>1 DEF SiteInv, FinalDaysAreWhole
<1> QED BY <1>2, <1>3, <1>4, <1>5, <1>6 DEF SiteInv

\* Midnight waits for what began the day before.
LEMMA MidnightKeepsInv ==
  ASSUME SiteInv, Midnight
  PROVE  SiteInv'
<1>1. SiteTypes' BY SiteConstants DEF SiteInv, SiteTypes, Midnight, Days
<1>2. ClocksAgree' BY SiteConstants DEF SiteInv, SiteTypes, ClocksAgree, Midnight, Days
<1> QED BY <1>1, <1>2 DEF Midnight, SiteInv, SweptDaysAreFinal, PrunedDaysAreFinal, FinalDaysAreWhole

\* A sweep begins, or ends with a statement that fails.
LEMMA SweepEndsKeepInv ==
  ASSUME SiteInv, NEW w \in Sweepers, BeginSweep(w) \/ RollupFails(w) \/ PruneFails(w)
  PROVE  SiteInv'
<1>1. /\ sweeper' \in [Sweepers -> [at : 0 .. 4, since : Days]]
      /\ sweeper'[w].at \in {0, 1} /\ (sweeper'[w].at = 1 => sweeper'[w].since = today)
      /\ \A v \in Sweepers \ {w} : sweeper'[v] = sweeper[v]
      /\ UNCHANGED <<today, raw, rollup, late>>
  BY DEF SiteInv, SiteTypes, BeginSweep, RollupFails, PruneFails
<1>2. ClocksAgree' BY <1>1 DEF SiteInv, SiteTypes, ClocksAgree, Days
<1>3. SweptDaysAreFinal' BY <1>1 DEF SiteInv, SweptDaysAreFinal
<1> QED BY <1>1, <1>2, <1>3 DEF SiteInv, SiteTypes, PrunedDaysAreFinal, FinalDaysAreWhole

\* A rollup makes final what is past, and a day whose rows are being pruned is final already.
LEMMA RollupKeepsInv ==
  ASSUME SiteInv, NEW w \in Sweepers, ComputeRollup(w)
  PROVE  SiteInv'
<1> DEFINE t == SweepSteps[sweeper[w].at]
<1>1. sweeper[w].at \in 1 .. 3 /\ t \in Tables /\ UNCHANGED <<today, raw, late>>
  BY TablesInOrder DEF ComputeRollup
<1>2. rollup' = [rollup EXCEPT ![t] = [d \in Days |->
        IF Rows(d) = {} \/ rollup[t][d].finalized THEN rollup[t][d]
        ELSE [counted |-> Rows(d), finalized |-> d < today]]]
  BY DEF ComputeRollup
<1>3. /\ sweeper' \in [Sweepers -> [at : 0 .. 4, since : Days]]
      /\ sweeper'[w].at = sweeper[w].at + 1 /\ sweeper'[w].since = sweeper[w].since
      /\ \A v \in Sweepers \ {w} : sweeper'[v] = sweeper[v]
  BY <1>1 DEF ComputeRollup, SiteInv, SiteTypes
<1> HIDE DEF t
<1>4. \A d \in Days : Rows(d) \subseteq SiteEventIds BY DEF Rows
<1>5. /\ \A s \in Tables \ {t} : rollup'[s] = rollup[s]
      /\ \A d \in Days : rollup'[t][d] = IF Rows(d) = {} \/ rollup[t][d].finalized THEN rollup[t][d]
                                         ELSE [counted |-> Rows(d), finalized |-> d < today]
  BY <1>1, <1>2 DEF SiteInv, SiteTypes
<1>6. SiteTypes'
  <2>1. rollup' \in [Tables -> [Days -> Rollups]]
    <3>1. [d \in Days |->
            IF Rows(d) = {} \/ rollup[t][d].finalized THEN rollup[t][d]
            ELSE [counted |-> Rows(d), finalized |-> d < today]] \in [Days -> Rollups]
      BY <1>1, <1>4 DEF SiteInv, SiteTypes, Rollups
    <3> QED BY <1>1, <1>2, <3>1 DEF SiteInv, SiteTypes
  <2> QED BY <1>1, <1>3, <2>1 DEF SiteInv, SiteTypes
<1>7. ClocksAgree' BY <1>1, <1>3 DEF SiteInv, SiteTypes, ClocksAgree
<1>8. \A s \in Tables, d \in Days : rollup[s][d].finalized => rollup'[s][d].finalized
  BY <1>5
<1>9. SweptDaysAreFinal'
  <2> SUFFICES ASSUME NEW v \in Sweepers, NEW i \in 1 .. 3, i < sweeper'[v].at,
                      NEW e \in SiteEventIds, raw[e].state = "stored", raw[e].ts < sweeper'[v].since - 1
               PROVE  rollup'[SweepSteps[i]][raw[e].ts].finalized
    BY <1>1 DEF SweptDaysAreFinal
  <2>1. SweepSteps[i] \in Tables /\ raw[e].ts \in Days BY TablesInOrder DEF SiteInv, SiteTypes
  <2>2. CASE i < sweeper[v].at
    <3>1. sweeper'[v].since = sweeper[v].since BY <1>3
    <3> QED BY <1>8, <2>1, <2>2, <3>1 DEF SiteInv, SweptDaysAreFinal
  <2>3. CASE ~(i < sweeper[v].at)
    <3>1. v = w /\ i = sweeper[w].at
      BY <1>1, <1>3, <2>3 DEF SiteInv, SiteTypes
    <3>2. SweepSteps[i] = t BY <3>1 DEF t
    <3>3. raw[e].ts < today
      <4>1. sweeper[w].since <= today BY <1>1 DEF SiteInv, ClocksAgree
      <4>2. raw[e].ts < sweeper[w].since - 1 BY <1>3, <3>1
      <4>3. today \in Int /\ raw[e].ts \in Int /\ sweeper[w].since \in Int
        BY DEF SiteInv, SiteTypes, Days
      <4> QED BY <4>1, <4>2, <4>3
    <3>4. Rows(raw[e].ts) # {} BY DEF Rows
    <3>5. CASE rollup[t][raw[e].ts].finalized BY <1>8, <2>1, <3>2, <3>5
    <3>6. CASE ~rollup[t][raw[e].ts].finalized
      <4>1. rollup'[t][raw[e].ts] = [counted |-> Rows(raw[e].ts), finalized |-> raw[e].ts < today]
        BY <1>5, <2>1, <3>4, <3>6
      <4>2. rollup'[t][raw[e].ts] = [counted |-> Rows(raw[e].ts), finalized |-> TRUE]
        <5>1. (raw[e].ts < today) = TRUE BY <3>3
        <5> QED BY ONLY <4>1, <5>1, Zenon
      <4> QED BY <3>2, <4>2
    <3> QED BY <3>5, <3>6
  <2> QED BY <2>2, <2>3
<1>10. PrunedDaysAreFinal'
  BY <1>1, <1>8 DEF SiteInv, SiteTypes, PrunedDaysAreFinal
<1>11. FinalDaysAreWhole'
  <2> SUFFICES ASSUME NEW s \in Tables, NEW d \in Days, rollup'[s][d].finalized,
                      NEW e \in SiteEventIds, raw[e].state \in {"stored", "pruned"}, raw[e].ts = d, e \notin late
               PROVE  e \in rollup'[s][d].counted
    BY <1>1 DEF FinalDaysAreWhole
  <2>1. CASE rollup'[s][d] = rollup[s][d] BY <2>1 DEF SiteInv, FinalDaysAreWhole
  <2>2. CASE rollup'[s][d] # rollup[s][d]
    <3>1. s = t /\ rollup'[t][d] = [counted |-> Rows(d), finalized |-> d < today] /\ ~rollup[t][d].finalized
      BY <1>5, <2>2
    <3>2. raw[e].state = "stored" BY <3>1 DEF SiteInv, PrunedDaysAreFinal
    <3> QED BY <3>1, <3>2 DEF Rows
  <2> QED BY <2>1, <2>2
<1> QED BY <1>6, <1>7, <1>9, <1>10, <1>11 DEF SiteInv

\* What is pruned is older than the sweep by more than an insertion and the sweep last.
LEMMA PruneKeepsInv ==
  ASSUME SiteInv, NEW w \in Sweepers, PruneRaw(w)
  PROVE  SiteInv'
<1>1. PICK cut \in SUBSET Rows(today - Retention) :
        raw' = [e \in SiteEventIds |->
          IF raw[e].state = "stored" /\ (raw[e].ts < today - Retention \/ e \in cut)
          THEN [raw[e] EXCEPT !.state = "pruned"] ELSE raw[e]]
  BY DEF PruneRaw
<1>2. /\ sweeper[w].at = 4 /\ sweeper' = [sweeper EXCEPT ![w].at = 0]
      /\ UNCHANGED <<today, rollup, late>>
  BY DEF PruneRaw
<1>3. ASSUME NEW e \in SiteEventIds
      PROVE  /\ raw'[e].ts = raw[e].ts
             /\ raw'[e] = raw[e]
                  \/ /\ raw[e].state = "stored" /\ raw'[e].state = "pruned"
                     /\ raw[e].ts <= today - Retention
  BY <1>1, SiteConstants DEF SiteInv, SiteTypes, Rows, Days
<1>4. /\ raw' \in [SiteEventIds -> [state : {"unsent", "inserting", "stored", "lost", "pruned"}, ts : Days]]
      /\ sweeper' \in [Sweepers -> [at : 0 .. 4, since : Days]]
      /\ sweeper'[w].at = 0
      /\ \A v \in Sweepers \ {w} : sweeper'[v] = sweeper[v]
  BY <1>1, <1>2 DEF SiteInv, SiteTypes
<1>5. SiteTypes' BY <1>2, <1>4 DEF SiteInv, SiteTypes
<1>6. ClocksAgree' BY <1>2, <1>3, <1>4 DEF SiteInv, ClocksAgree
<1>7. SweptDaysAreFinal' BY <1>2, <1>3, <1>4 DEF SiteInv, SweptDaysAreFinal
<1>8. PrunedDaysAreFinal'
  <2> SUFFICES ASSUME NEW e \in SiteEventIds, raw'[e].state = "pruned", NEW t \in Tables
               PROVE  rollup[t][raw[e].ts].finalized
    BY <1>2, <1>3 DEF PrunedDaysAreFinal
  <2>1. CASE raw'[e] = raw[e] BY <2>1 DEF SiteInv, PrunedDaysAreFinal
  <2>2. CASE raw'[e] # raw[e]
    <3>1. raw[e].state = "stored" /\ raw[e].ts <= today - Retention BY <1>3, <2>2
    <3>2. raw[e].ts < sweeper[w].since - 1
      BY <1>2, <3>1, SiteConstants DEF SiteInv, SiteTypes, ClocksAgree, Days
    <3>3. PICK i \in 1 .. 3 : t = SweepSteps[i] BY TablesInOrder
    <3>4. i < sweeper[w].at BY <1>2
    <3> QED BY <3>1, <3>2, <3>3, <3>4 DEF SiteInv, SweptDaysAreFinal
  <2> QED BY <2>1, <2>2
<1>9. FinalDaysAreWhole' BY <1>2, <1>3 DEF SiteInv, FinalDaysAreWhole
<1> QED BY <1>5, <1>6, <1>7, <1>8, <1>9 DEF SiteInv

\* Every step keeps the invariant.
LEMMA NextSite == SiteInv /\ [SiteNext]_siteVars => SiteInv'
<1> SUFFICES ASSUME SiteInv, [SiteNext]_siteVars PROVE SiteInv'
  OBVIOUS
<1>1. CASE SiteNext
  BY <1>1, EventsKeepInv, MidnightKeepsInv, SweepEndsKeepInv, RollupKeepsInv, PruneKeepsInv DEF SiteNext
<1>2. CASE UNCHANGED siteVars
  BY <1>2 DEF siteVars, SiteInv, SiteTypes, ClocksAgree, SweptDaysAreFinal, PrunedDaysAreFinal,
       FinalDaysAreWhole
<1> QED BY <1>1, <1>2

\* A final rollup counts its whole day, and only what is in all three final rollups is
\* deleted (site_events.rs: the rollups before the deletion, and never a final row again).
THEOREM RollupsAreWholeAlways == SiteSpec => []RollupsAreWhole
<1>1. SiteInv => RollupsAreWhole
  <2> SUFFICES ASSUME SiteInv PROVE PrunedIsCounted
    BY DEF SiteInv, RollupsAreWhole
  <2> SUFFICES ASSUME NEW e \in SiteEventIds \ late, raw[e].state = "pruned", NEW t \in Tables
               PROVE  e \in rollup[t][raw[e].ts].counted
    BY DEF PrunedIsCounted
  <2>1. rollup[t][raw[e].ts].finalized BY DEF SiteInv, PrunedDaysAreFinal
  <2>2. raw[e].ts \in Days BY DEF SiteInv, SiteTypes
  <2> QED BY <2>1, <2>2 DEF SiteInv, FinalDaysAreWhole
<1> QED BY <1>1, InitSite, NextSite, PTL DEF SiteSpec

-----------------------------------------------------------------------------
(* The matrix.  Once all tasks have been joined none moves any more, and   *)
(* what is stored is what the source keeps of the records gone through.    *)

MatrixTypes ==
  /\ source \in {"schedule", "api", "cli"} /\ database \in BOOLEAN
  /\ asked \subseteq MatrixCells
  /\ task \in [MatrixCells -> {"waiting", "calling"} \cup Ended]
  /\ caller \in {"joining", "storing", "ok", "error", "gone"}
  /\ remaining \subseteq asked

JoinedTasksStay == caller \in {"storing", "ok"} => \A c \in asked : task[c] \in Ended

StoredSoFar ==
  /\ caller = "joining" => stored = {}
  /\ caller = "storing" =>
       \/ source = "schedule" /\ stored = (asked \ remaining) \ Panicked
       \/ source = "cli" /\ database /\ stored = asked \ remaining /\ Panicked \subseteq remaining
       \/ source = "cli" /\ ~database /\ stored = {}
       \/ source = "api" /\ stored = {}

MatrixInv == MatrixTypes /\ JoinedTasksStay /\ StoredSoFar /\ SuccessIsStored

\* A task takes a step; the caller has not joined it then.
LEMMA TaskKeepsInv ==
  ASSUME MatrixInv, NEW c \in MatrixCells, task[c] \in {"waiting", "calling"},
         NEW to \in {"waiting", "calling"} \cup Ended, Ends(c, to),
         UNCHANGED <<source, database, asked, caller, remaining, stored>>
  PROVE  MatrixInv'
<1>1. MatrixTypes' BY DEF MatrixInv, MatrixTypes, Ends
<1>2. \A d \in asked : task[d] \in Ended => task'[d] = task[d]
  BY DEF MatrixInv, MatrixTypes, Ends, Ended
<1>3. caller \in {"storing", "ok"} => Panicked' = Panicked /\ Succeeded' = Succeeded
  BY <1>2 DEF MatrixInv, JoinedTasksStay, Panicked, Succeeded
<1>4. JoinedTasksStay' /\ StoredSoFar' /\ SuccessIsStored'
  BY <1>2, <1>3 DEF MatrixInv, JoinedTasksStay, StoredSoFar, SuccessIsStored
<1> QED BY <1>1, <1>4 DEF MatrixInv

\* The caller takes a step.
LEMMA CallerKeepsInv ==
  ASSUME MatrixInv,
         \/ \E c \in MatrixCells : StoreForSchedule(c) \/ StoreForCommand(c) \/ StoreForApi(c)
         \/ JoinTasks \/ Abandon \/ StoreFails \/ AllStored \/ EndCommand
  PROVE  MatrixInv'
<1> USE DEF MatrixInv
<1>1. FirstRecords \subseteq remaining BY DEF FirstRecords
<1>2. task' = task /\ UNCHANGED <<source, database, asked>> => Panicked' = Panicked /\ Succeeded' = Succeeded
  BY DEF Panicked, Succeeded
<1>3. ASSUME NEW c \in MatrixCells, StoreForSchedule(c) PROVE MatrixInv'
  <2>1. /\ source = "schedule" /\ caller = "storing" /\ caller' = "storing" /\ c \in remaining
        /\ remaining' = remaining \ {c} /\ UNCHANGED <<source, database, asked, task>>
        /\ stored' = IF c \in Panicked THEN stored ELSE stored \cup {c}
    BY <1>1, <1>3 DEF StoreForSchedule, Skip, Keep
  <2>2. stored' = (asked \ remaining') \ Panicked BY <2>1 DEF MatrixTypes, StoredSoFar
  <2> QED BY <1>2, <2>1, <2>2 DEF MatrixTypes, JoinedTasksStay, StoredSoFar, SuccessIsStored
<1>4. ASSUME NEW c \in MatrixCells, StoreForCommand(c) PROVE MatrixInv'
  <2>1. /\ source = "cli" /\ database /\ caller = "storing" /\ c \in remaining /\ UNCHANGED <<source, database, asked, task>>
    BY <1>1, <1>4 DEF StoreForCommand
  <2>2. CASE c \in Panicked
    BY <1>4, <2>1, <2>2 DEF StoreForCommand, Refuse, MatrixTypes, JoinedTasksStay, StoredSoFar, SuccessIsStored
  <2>3. CASE c \notin Panicked
    <3>1. caller' = "storing" /\ remaining' = remaining \ {c} /\ stored' = stored \cup {c}
      BY <1>4, <2>1, <2>3 DEF StoreForCommand, Keep
    <3>2. stored' = asked \ remaining' /\ Panicked \subseteq remaining'
      BY <2>1, <2>3, <3>1 DEF MatrixTypes, StoredSoFar
    <3> QED BY <1>2, <2>1, <3>1, <3>2 DEF MatrixTypes, JoinedTasksStay, StoredSoFar, SuccessIsStored
  <2> QED BY <2>2, <2>3
<1>5. ASSUME NEW c \in MatrixCells, StoreForApi(c) PROVE MatrixInv'
  <2>1. /\ source = "api" /\ caller = "storing" /\ caller' = "ok" /\ stored' = stored \cup {c}
        /\ UNCHANGED <<source, database, asked, task, remaining>>
    BY <1>5 DEF StoreForApi
  <2>2. stored' = {c} BY <2>1 DEF StoredSoFar
  <2>3. Cardinality(stored') = 1 BY <2>2, FS_Singleton
  <2> QED BY <2>1, <2>3 DEF MatrixTypes, JoinedTasksStay, StoredSoFar, SuccessIsStored
<1>6. CASE JoinTasks
  <2>1. /\ caller = "joining" /\ caller' = "storing" /\ remaining' = asked /\ UNCHANGED <<source, database, asked, task, stored>>
        /\ \A c \in asked : task[c] \in Ended
    BY <1>6 DEF JoinTasks
  <2>2. stored' = {} /\ Panicked \subseteq asked BY <2>1 DEF StoredSoFar, Panicked
  <2> QED BY <1>2, <2>1, <2>2 DEF MatrixTypes, JoinedTasksStay, StoredSoFar, SuccessIsStored
<1>7. CASE Abandon BY <1>7 DEF Abandon, MatrixTypes, JoinedTasksStay, StoredSoFar, SuccessIsStored
<1>8. CASE StoreFails BY <1>8 DEF StoreFails, Refuse, MatrixTypes, JoinedTasksStay, StoredSoFar, SuccessIsStored
<1>9. CASE AllStored
  <2>1. /\ source = "schedule" /\ caller = "storing" /\ remaining = {} /\ caller' = "ok"
        /\ UNCHANGED <<source, database, asked, task, remaining, stored>>
    BY <1>9 DEF AllStored
  <2>2. SuccessIsStored' BY <1>2, <2>1 DEF MatrixTypes, StoredSoFar, SuccessIsStored
  <2> QED BY <2>1, <2>2 DEF MatrixTypes, JoinedTasksStay, StoredSoFar
<1>10. CASE EndCommand
  <2>1. /\ source = "cli" /\ caller = "storing" /\ (database => remaining = {})
        /\ caller' = IF Succeeded # {} THEN "ok" ELSE "error"
        /\ UNCHANGED <<source, database, asked, task, remaining, stored>>
    BY <1>10 DEF EndCommand
  <2>2. database => stored = asked /\ Panicked = {} BY <2>1 DEF StoredSoFar
  <2>3. ~database => stored = {} BY <2>1 DEF StoredSoFar
  <2>4. SuccessIsStored' BY <1>2, <2>1, <2>2, <2>3 DEF MatrixTypes, SuccessIsStored
  <2> QED BY <2>1, <2>4 DEF MatrixTypes, JoinedTasksStay, StoredSoFar
<1> QED BY <1>3, <1>4, <1>5, <1>6, <1>7, <1>8, <1>9, <1>10

\* Every step of the matrix keeps its invariant.
LEMMA NextMatrix == MatrixInv /\ [MatrixNext]_matrixVars => MatrixInv'
<1> SUFFICES ASSUME MatrixInv, [MatrixNext]_matrixVars PROVE MatrixInv'
  OBVIOUS
<1>1. CASE UNCHANGED matrixVars
  BY <1>1 DEF matrixVars, MatrixInv, MatrixTypes, JoinedTasksStay, StoredSoFar, SuccessIsStored, Panicked,
           Succeeded
<1>2. ASSUME NEW c \in MatrixCells, AnswerUnregistered(c) \/ TakePermit(c) \/ AnswerCall(c) \/ PanicInCall(c)
      PROVE  MatrixInv'
  <2>1. PICK to \in {"calling"} \cup Ended : Ends(c, to)
    BY <1>2 DEF AnswerUnregistered, TakePermit, AnswerCall, PanicInCall, Ended
  <2>2. task[c] \in {"waiting", "calling"} /\ UNCHANGED <<source, database, asked, caller, remaining, stored>>
    BY <1>2 DEF AnswerUnregistered, TakePermit, AnswerCall, PanicInCall
  <2> QED BY <2>1, <2>2, TaskKeepsInv
<1> QED BY <1>1, <1>2, CallerKeepsInv DEF MatrixNext

\* A caller that reports success (run_tick, the run command, the prompt-runs route) has a
\* row for every cell it asked, but for panicked cells of a schedule, the API's one row and
\* a command without DATABASE_URL, which has none; a command has had an answer besides.
THEOREM SuccessIsStoredAlways == MatrixSpec => []SuccessIsStored
<1>1. MatrixInit => MatrixInv
  <2> SUFFICES ASSUME MatrixInit PROVE MatrixInv
    OBVIOUS
  <2>1. asked \subseteq MatrixCells
    <3>1. PICK ps \in SUBSET MatrixPrompts, qs \in SUBSET Providers :
            asked = ps \X UNION {OfProvider(q) : q \in qs}
      BY DEF MatrixInit
    <3>2. UNION {OfProvider(q) : q \in qs} \subseteq Models BY DEF OfProvider
    <3> QED BY <3>1, <3>2 DEF MatrixCells
  <2> QED BY <2>1 DEF MatrixInit, MatrixInv, MatrixTypes, JoinedTasksStay, StoredSoFar, SuccessIsStored
<1>2. MatrixInv => SuccessIsStored BY DEF MatrixInv
<1> QED BY <1>1, <1>2, NextMatrix, PTL DEF MatrixSpec

-----------------------------------------------------------------------------
(* The slots of a calendar.                                                *)

\* A quotient and a remainder are the only ones.
LEMMA Division ==
  ASSUME NEW n \in Nat
  PROVE  /\ n \div DayLength \in Nat
         /\ n % DayLength \in 0 .. (DayLength - 1)
         /\ n = ((n \div DayLength) * DayLength) + (n % DayLength)
<1>1. ASSUME NEW d \in Nat \ {0}
      PROVE  n \div d \in Nat /\ n % d \in 0 .. (d - 1) /\ n = (d * (n \div d)) + (n % d)
  OBVIOUS
<1>2. DayLength \in Nat \ {0} BY CalendarConstants
<1>3. \A q \in Nat : DayLength * q = q * DayLength BY <1>2
<1> QED BY <1>1, <1>2, <1>3

\* A later day begins a day's length later, at least.
LEMMA LaterDay ==
  ASSUME NEW d \in Nat, NEW e \in Nat, d < e
  PROVE  d * DayLength \in Nat /\ e * DayLength \in Nat /\ d * DayLength + DayLength <= e * DayLength
<1>1. PICK k \in Nat : e = d + 1 + k
  <2>1. e - d - 1 \in Nat /\ e = d + 1 + (e - d - 1) OBVIOUS
  <2> QED BY <2>1
<1>2. e * DayLength = d * DayLength + DayLength + k * DayLength BY <1>1, CalendarConstants
<1>3. d * DayLength \in Nat /\ k * DayLength \in Nat /\ e * DayLength \in Nat BY CalendarConstants
<1> QED BY <1>2, <1>3, CalendarConstants

\* ... of a number, whatever way it is put together.
LEMMA DivisionIsUnique ==
  ASSUME NEW n \in Nat, NEW d \in Nat, NEW r \in 0 .. DayLength - 1, n = d * DayLength + r
  PROVE  n \div DayLength = d /\ n % DayLength = r
<1> DEFINE q == n \div DayLength
           s == n % DayLength
<1>1. q \in Nat /\ s \in 0 .. DayLength - 1 /\ n = q * DayLength + s BY Division
<1> HIDE DEF q, s
<1>2. d * DayLength \in Nat /\ q * DayLength \in Nat /\ DayLength \in Nat BY <1>1, CalendarConstants
<1>3. ~(d < q) BY <1>1, <1>2, LaterDay
<1>4. ~(q < d) BY <1>1, <1>2, LaterDay
<1>5. q = d BY <1>1, <1>3, <1>4
<1>6. s = r BY <1>1, <1>2, <1>5
<1> QED BY <1>5, <1>6 DEF q, s

\* The least member of a set.
LEMMA MinIs ==
  ASSUME NEW S \in SUBSET Int, NEW x \in S, \A y \in S : x <= y
  PROVE  Min(S) = x
<1>1. \E z \in S : \A y \in S : z <= y OBVIOUS
<1>2. Min(S) \in S /\ \A y \in S : Min(S) <= y BY <1>1 DEF Min
<1> HIDE DEF Min
<1>3. Min(S) \in Int /\ x \in Int /\ Min(S) <= x /\ x <= Min(S) BY <1>2
<1> QED BY <1>3

\* Dates that are any have a least one.
LEMMA LeastDate ==
  ASSUME NEW S \in SUBSET Nat, S # {}
  PROVE  \E x \in S : \A y \in S : x <= y
<1>1. IsWellFoundedOn(OpToRel(<, Nat), Nat) BY NatLessThanWellFounded
<1>2. PICK x \in S : \A y \in S : ~(<<y, x>> \in OpToRel(<, Nat)) BY <1>1, WFMin
<1>3. \A y \in S : ~(y < x) BY <1>2 DEF OpToRel
<1> QED BY <1>3

\* What a recurrence and a zone look like, and the last tick is an instant.
CalendarTyped ==
  /\ calendar.at \in 0 .. DayLength - 1
  /\ clocks.forward \in Nat /\ clocks.back \in Nat
  /\ lastTick \in Nat

\* The clock on the wall shows the instant or one unit more, and never goes back by more
\* than it repeats.
LEMMA WallIsNear ==
  ASSUME CalendarTyped, NEW t \in Int
  PROVE  /\ WallClock(t) \in Int /\ (WallClock(t) = t \/ WallClock(t) = t + 1)
         /\ t \in Nat => WallClock(t) \in Nat
BY DEF WallClock

Wall(date) == date * DayLength + calendar.at

\* The instants of a date are those at which the wall clock shows its time of day.
LEMMA WallOfDate ==
  ASSUME CalendarTyped, NEW date \in Nat
  PROVE  /\ Wall(date) \in Nat
         /\ \A t \in Int : t \in InstantsOn(date) <=> WallClock(t) = Wall(date)
         /\ InstantsOn(date) \in SUBSET Int
         /\ \A t \in InstantsOn(date) : t <= Wall(date) /\ t >= Wall(date) - 1
<1>1. calendar.at \in Nat BY CalendarConstants DEF CalendarTyped
<1>2. date * DayLength \in Nat BY CalendarConstants
<1>3. Wall(date) \in Nat BY <1>1, <1>2 DEF Wall
<1>4. InstantsOn(date) = {t \in {Wall(date) - 1, Wall(date)} : WallClock(t) = Wall(date)}
  BY DEF InstantsOn, Wall
<1>5. \A t \in Int : WallClock(t) = t \/ WallClock(t) = t + 1 BY WallIsNear
<1> HIDE DEF Wall
<1> QED BY <1>3, <1>4, <1>5

\* An instant that shows the time of day is one of its date's.
LEMMA ShowsTime ==
  ASSUME CalendarTyped, NEW t \in Nat
  PROVE  /\ DateOf(t) \in Nat
         /\ WallClock(t) % DayLength = calendar.at => t \in InstantsOn(DateOf(t))
<1>1. WallClock(t) \in Nat BY WallIsNear
<1>2. /\ DateOf(t) \in Nat
      /\ WallClock(t) = (DateOf(t) * DayLength) + (WallClock(t) % DayLength)
  BY <1>1, Division, Zenon DEF DateOf
<1>3. WallClock(t) % DayLength = calendar.at => WallClock(t) = Wall(DateOf(t)) BY <1>2 DEF Wall
<1> QED BY <1>2, <1>3, WallOfDate

\* ... and the instants of a date have that date and show the time of day.
LEMMA DateOfInstant ==
  ASSUME CalendarTyped, NEW date \in Nat, NEW t \in InstantsOn(date)
  PROVE  DateOf(t) = date /\ WallClock(t) % DayLength = calendar.at
<1>1. t \in Int /\ WallClock(t) = Wall(date) /\ Wall(date) \in Nat BY WallOfDate
<1>2. calendar.at \in 0 .. DayLength - 1 BY DEF CalendarTyped
<1> QED BY <1>1, <1>2, DivisionIsUnique DEF Wall, DateOf

\* The earliest instant of a date is the one the clock does not show a second time.
LEMMA EarliestIsFirstShown ==
  ASSUME CalendarTyped, NEW date \in Nat, NEW t \in InstantsOn(date)
  PROVE  /\ t = Min(InstantsOn(date)) <=> WallClock(t - 1) # WallClock(t)
         /\ Min(InstantsOn(date)) \in InstantsOn(date)
<1>1. t \in Int /\ t - 1 \in Int /\ WallClock(t) = Wall(date) BY WallOfDate
<1>2. \A s \in InstantsOn(date) : s \in Int /\ WallClock(s) = Wall(date) BY WallOfDate
<1>3. \A s \in InstantsOn(date) : s < t => s = t - 1
  BY <1>1, <1>2, WallIsNear
<1>4. CASE WallClock(t - 1) # WallClock(t)
  <2>1. \A s \in InstantsOn(date) : t <= s BY <1>1, <1>2, <1>3, <1>4
  <2>2. Min(InstantsOn(date)) = t BY <2>1, MinIs, WallOfDate
  <2> QED BY <1>4, <2>2
<1>5. CASE WallClock(t - 1) = WallClock(t)
  <2>1. t - 1 \in InstantsOn(date) BY <1>1, <1>5, WallOfDate
  <2>2. \A s \in InstantsOn(date) : t - 1 <= s BY <1>1, <1>2, <1>3
  <2>3. Min(InstantsOn(date)) = t - 1 BY <2>1, <2>2, MinIs, WallOfDate
  <2> QED BY <1>1, <1>5, <2>1, <2>3
<1> QED BY <1>4, <1>5

\* A later date has its earliest instant later.
LEMMA EarliestGrows ==
  ASSUME CalendarTyped, NEW d \in Nat, NEW e \in Nat, d < e,
         NEW s \in InstantsOn(d), NEW t \in InstantsOn(e)
  PROVE  s < t
<1>1. /\ s \in Int /\ t \in Int /\ WallClock(s) = Wall(d) /\ WallClock(t) = Wall(e)
      /\ s <= Wall(d) /\ t >= Wall(e) - 1 /\ Wall(d) \in Nat /\ Wall(e) \in Nat
  BY WallOfDate
<1>2. Wall(d) < Wall(e)
  <2>1. calendar.at \in Nat /\ DayLength \in Nat \ {0} BY CalendarConstants DEF CalendarTyped
  <2> QED BY <2>1, LaterDay DEF Wall
<1>3. s # t BY <1>1, <1>2
<1> QED BY <1>1, <1>2, <1>3

\* The dates among which the next slot is sought, and their earliest instants.
Candidates ==
  {d \in DateOf(lastTick) .. DateOf(lastTick) + Horizon - 1 :
     /\ DayMatches(DateOf(lastTick), d)
     /\ InstantsOn(d) # {} /\ Min(InstantsOn(d)) > lastTick}

Earliest(d) == Min(InstantsOn(d))

\* The slots of NextIsFirstSlot.
SlotsAhead ==
  {t \in lastTick + 1 .. lastTick + (Horizon + 1) * DayLength :
     IsSlot(DateOf(lastTick), t) /\ DateOf(t) < DateOf(lastTick) + Horizon}

\* A candidate has an earliest instant, after the last tick.
LEMMA CandidateFacts ==
  ASSUME CalendarTyped, NEW d \in Candidates
  PROVE  /\ d \in Nat /\ Earliest(d) \in InstantsOn(d)
         /\ Earliest(d) \in Nat /\ Earliest(d) > lastTick
<1>1. lastTick \in Nat /\ DateOf(lastTick) \in Nat /\ Horizon \in Nat \ {0}
  BY ShowsTime, CalendarConstants DEF CalendarTyped
<1>2. /\ d \in DateOf(lastTick) .. DateOf(lastTick) + Horizon - 1
      /\ InstantsOn(d) # {} /\ Earliest(d) > lastTick
  BY DEF Candidates, Earliest
<1>3. d \in Nat BY <1>1, <1>2
<1>4. Earliest(d) \in InstantsOn(d) BY <1>2, <1>3, EarliestIsFirstShown DEF Earliest
<1>5. Earliest(d) \in Int BY <1>3, <1>4, WallOfDate
<1> QED BY <1>1, <1>2, <1>3, <1>4, <1>5

\* The earliest instant of a candidate is a slot ahead.
LEMMA CandidateIsSlot ==
  ASSUME CalendarTyped, NEW d \in Candidates
  PROVE  Earliest(d) \in SlotsAhead
<1> DEFINE t == Earliest(d)
           anchor == DateOf(lastTick)
<1>1. d \in Nat /\ t \in InstantsOn(d) /\ t \in Nat /\ t > lastTick BY CandidateFacts
<1>2. /\ anchor \in Nat /\ lastTick \in Nat /\ Horizon \in Nat \ {0} /\ DayLength \in Nat \ {0}
      /\ d \in anchor .. anchor + Horizon - 1 /\ DayMatches(anchor, d)
  BY ShowsTime, CalendarConstants DEF CalendarTyped, Candidates
<1>3. DateOf(t) = d /\ WallClock(t) % DayLength = calendar.at BY <1>1, DateOfInstant
<1>4. WallClock(t - 1) # WallClock(t) BY <1>1, EarliestIsFirstShown DEF Earliest
<1>5. IsSlot(anchor, t) BY <1>2, <1>3, <1>4 DEF IsSlot
<1>6. t <= lastTick + (Horizon + 1) * DayLength
  <2>1. t <= Wall(d) /\ Wall(d) = d * DayLength + calendar.at BY <1>1, WallOfDate DEF Wall
  <2>2. calendar.at \in 0 .. DayLength - 1 BY DEF CalendarTyped
  <2>3. anchor * DayLength <= lastTick + 1
    <3>1. WallClock(lastTick) \in Nat /\ WallClock(lastTick) <= lastTick + 1 BY <1>2, WallIsNear
    <3>2. /\ WallClock(lastTick) % DayLength \in 0 .. (DayLength - 1)
          /\ WallClock(lastTick) = (anchor * DayLength) + (WallClock(lastTick) % DayLength)
      BY <3>1, Division, Zenon DEF DateOf
    <3>3. anchor * DayLength \in Nat BY <1>2
    <3> HIDE DEF anchor
    <3> QED BY <1>2, <3>1, <3>2, <3>3
  <2> HIDE DEF t, anchor
  <2>4. d < anchor + Horizon /\ anchor + Horizon \in Nat BY <1>2
  <2>5. d * DayLength + DayLength <= (anchor + Horizon) * DayLength BY <1>1, <2>4, LaterDay
  <2>6. (anchor + Horizon) * DayLength = anchor * DayLength + Horizon * DayLength BY <1>2
  <2>7. (Horizon + 1) * DayLength = Horizon * DayLength + DayLength BY <1>2
  <2>8. /\ anchor * DayLength \in Nat /\ Horizon * DayLength \in Nat /\ d * DayLength \in Nat
    BY <1>1, <1>2
  <2> QED BY <1>1, <1>2, <2>1, <2>2, <2>3, <2>5, <2>6, <2>7, <2>8
<1>7. DateOf(t) < anchor + Horizon BY <1>2, <1>3
<1>8. t \in lastTick + 1 .. lastTick + (Horizon + 1) * DayLength
  <2> HIDE DEF t
  <2>1. (Horizon + 1) * DayLength \in Nat BY <1>2
  <2> QED BY <1>1, <1>2, <1>6, <2>1
<1> QED BY <1>5, <1>7, <1>8 DEF SlotsAhead

\* The date of an instant is not before that of an earlier one.
LEMMA DatesDoNotGoBack ==
  ASSUME CalendarTyped, NEW s \in Nat, NEW t \in Nat, s < t
  PROVE  DateOf(s) <= DateOf(t)
<1> DEFINE v == WallClock(s)
           w == WallClock(t)
<1>1. v \in Nat /\ w \in Nat /\ v <= w BY WallIsNear
<1>2. DateOf(s) = v \div DayLength /\ DateOf(t) = w \div DayLength BY DEF DateOf
<1> HIDE DEF v, w
<1> DEFINE d == v \div DayLength
           e == w \div DayLength
<1>3. /\ d \in Nat /\ e \in Nat
      /\ v % DayLength \in 0 .. (DayLength - 1) /\ v = (d * DayLength) + (v % DayLength)
      /\ w % DayLength \in 0 .. (DayLength - 1) /\ w = (e * DayLength) + (w % DayLength)
  BY <1>1, Division
<1>4. DayLength \in Nat \ {0} BY CalendarConstants
<1> HIDE DEF d, e
<1>5. ASSUME e < d PROVE FALSE
  <2>1. e * DayLength \in Nat /\ d * DayLength \in Nat /\ e * DayLength + DayLength <= d * DayLength
    BY <1>3, <1>5, LaterDay
  <2> QED BY <1>1, <1>3, <1>4, <2>1
<1> QED BY <1>2, <1>3, <1>5 DEF d, e

\* A slot ahead is the earliest instant of a candidate, its own date.
LEMMA SlotIsCandidate ==
  ASSUME CalendarTyped, NEW t \in SlotsAhead
  PROVE  DateOf(t) \in Candidates /\ t = Earliest(DateOf(t))
<1> DEFINE d == DateOf(t)
           anchor == DateOf(lastTick)
<1>1. lastTick \in Nat /\ Horizon \in Nat \ {0} /\ DayLength \in Nat \ {0} /\ anchor \in Nat
  BY ShowsTime, CalendarConstants DEF CalendarTyped
<1>2. /\ t \in Nat /\ lastTick < t /\ d < anchor + Horizon
      /\ WallClock(t) % DayLength = calendar.at /\ DayMatches(anchor, d)
      /\ WallClock(t - 1) # WallClock(t)
  <2>1. t \in lastTick + 1 .. lastTick + (Horizon + 1) * DayLength BY DEF SlotsAhead
  <2>2. (Horizon + 1) * DayLength \in Nat BY <1>1
  <2>3. t \in Nat /\ lastTick < t BY <1>1, <2>1, <2>2
  <2> QED BY <2>3 DEF SlotsAhead, IsSlot
<1>3. d \in Nat /\ t \in InstantsOn(d) BY <1>2, ShowsTime
<1>4. t = Earliest(d) BY <1>2, <1>3, EarliestIsFirstShown DEF Earliest
<1>5. anchor <= d BY <1>1, <1>2, DatesDoNotGoBack
<1>6. d \in anchor .. anchor + Horizon - 1
  <2> HIDE DEF d, anchor
  <2> QED BY <1>1, <1>2, <1>3, <1>5
<1> QED BY <1>2, <1>3, <1>4, <1>6 DEF Candidates, Earliest

\* What the search by dates finds is the first of the slots.
LEMMA SearchFindsFirst == CalendarTyped => NextIsFirstSlot
<1> SUFFICES ASSUME CalendarTyped PROVE NextIsFirstSlot OBVIOUS
<1>1. NextCalendarTick(lastTick) =
        IF Candidates = {} THEN {} ELSE {Min(InstantsOn(Min(Candidates)))}
  BY Zenon DEF NextCalendarTick, Candidates
<1>2. NextIsFirstSlot <=>
        NextCalendarTick(lastTick) = IF SlotsAhead = {} THEN {} ELSE {Min(SlotsAhead)}
  BY Zenon DEF NextIsFirstSlot, SlotsAhead
<1>3. CASE Candidates = {}
  <2>1. SlotsAhead = {} BY <1>3, SlotIsCandidate
  <2> QED BY <1>1, <1>2, <1>3, <2>1
<1>4. CASE Candidates # {}
  <2>1. Candidates \in SUBSET Nat BY CandidateFacts
  <2>2. PICK d \in Candidates : \A e \in Candidates : d <= e BY <1>4, <2>1, LeastDate
  <2>3. Min(Candidates) = d BY <2>1, <2>2, MinIs
  <2>4. Earliest(d) \in SlotsAhead BY CandidateIsSlot
  <2>5. SlotsAhead \in SUBSET Int BY SlotIsCandidate, CandidateFacts
  <2>6. ASSUME NEW t \in SlotsAhead PROVE Earliest(d) <= t
    <3>1. DateOf(t) \in Candidates /\ t = Earliest(DateOf(t)) BY SlotIsCandidate
    <3>2. d <= DateOf(t) BY <2>2, <3>1
    <3>3. CASE DateOf(t) = d BY <2>4, <2>5, <3>1, <3>3
    <3>4. CASE d < DateOf(t)
      <4>1. /\ d \in Nat /\ DateOf(t) \in Nat
            /\ Earliest(d) \in InstantsOn(d) /\ t \in InstantsOn(DateOf(t))
        BY <3>1, CandidateFacts, Zenon
      <4>2. Earliest(d) < t BY <3>4, <4>1, EarliestGrows
      <4>3. Earliest(d) \in Int /\ t \in Int BY <2>4, <2>5
      <4> QED BY <4>2, <4>3
    <3>5. d \in Nat /\ DateOf(t) \in Nat BY <2>1, <3>1
    <3>6. d = DateOf(t) \/ d < DateOf(t) BY <3>2, <3>5
    <3> QED BY <3>3, <3>4, <3>6
  <2>7. Min(SlotsAhead) = Earliest(d) BY <2>4, <2>5, <2>6, MinIs
  <2> QED BY <1>1, <1>2, <1>4, <2>3, <2>4, <2>7 DEF Earliest
<1> QED BY <1>3, <1>4

\* The last tick is an instant, and the recurrence and the zone stay what they are.
LEMMA InitCalendar == CalendarInit => CalendarTyped
BY CalendarConstants DEF CalendarInit, CalendarTyped

\* A tick, of the cadence or not, is an instant after the last.
LEMMA NextCalendar == CalendarTyped /\ [CalendarNext]_calendarVars => CalendarTyped'
<1> SUFFICES ASSUME CalendarTyped, [CalendarNext]_calendarVars PROVE CalendarTyped' OBVIOUS
<1>1. CASE RunSlot
  <2>1. lastTick' \in NextCalendarTick(lastTick) BY <1>1 DEF RunSlot
  <2>2. lastTick' \in SlotsAhead
    <3>1. Candidates # {} /\ NextCalendarTick(lastTick) = {Min(InstantsOn(Min(Candidates)))}
      BY <2>1, Zenon DEF NextCalendarTick, Candidates
    <3>2. Min(Candidates) \in Candidates
      <4>1. Candidates \in SUBSET Nat BY CandidateFacts
      <4>2. PICK d \in Candidates : \A e \in Candidates : d <= e BY <3>1, <4>1, LeastDate
      <4> QED BY <4>1, <4>2, MinIs
    <3> QED BY <2>1, <3>1, <3>2, CandidateIsSlot DEF Earliest
  <2>3. lastTick' \in Nat BY <2>2, SlotIsCandidate, CandidateFacts
  <2> QED BY <1>1, <2>3 DEF RunSlot, CalendarTyped
<1>2. CASE RunNow BY <1>2, CalendarConstants DEF RunNow, CalendarTyped
<1>3. CASE UNCHANGED calendarVars BY <1>3 DEF calendarVars, CalendarTyped
<1> QED BY <1>1, <1>2, <1>3 DEF CalendarNext

\* next_calendar_tick returns the first slot after the last tick (scheduler worker.rs,
\* local_to_utc for gaps and repeated hours), for days and weeks of any length, any
\* horizon, any rule and any two changes of the clocks.
THEOREM NextIsFirstSlotAlways == CalendarSpec => []NextIsFirstSlot
<1> QED BY InitCalendar, NextCalendar, SearchFindsFirst, PTL DEF CalendarSpec
===============================================================================
