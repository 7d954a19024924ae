------------------------- MODULE TickSchedulerProofs -------------------------
(***************************************************************************)
(* What holds of TickScheduler for every set of workers, projects,          *)
(* schedules and requests, and for every value of the other constants.     *)
(*                                                                         *)
(* The argument: Ownership is inductive given TypeOK.  AtMostOnce,          *)
(* SettledIsFinal and the implementation of TickLedger follow from it.     *)
(* WholeInv (which cells of the matrix are accounted for), Cadence (which  *)
(* slots have been filled) and Telling (what the events on their way say)  *)
(* are inductive given both.                                               *)
(***************************************************************************)
EXTENDS TickScheduler, WellFoundedInduction, TLAPS

\* The clock, schedules and runs keep their types under the actions of clients.
LEMMA TypeOfClientSteps ==
  ASSUME TypeOK,
         \/ Advance
         \/ \E s \in Schedules :
              \/ CreateSchedule(s)
              \/ s \in Edited /\ DeleteSchedule(s)
              \/ s \in Edited /\ \E b \in BOOLEAN : SetPaused(s, b)
  PROVE  TypeOK'
<1> USE TickConstants DEF TypeOK, dbVars, loopVars, runnerVars, history
<1>1. CASE Advance
  BY <1>1 DEF Advance, Time
<1>2. ASSUME NEW s \in Schedules, CreateSchedule(s) PROVE TypeOK'
  <2>1. schedule' \in [Schedules -> ScheduleRow]
    BY <1>2 DEF CreateSchedule, ScheduleRow
  <2> QED BY <1>2, <2>1 DEF CreateSchedule
<1>3. ASSUME NEW s \in Schedules, DeleteSchedule(s) PROVE TypeOK'
  <2>1. schedule' \in [Schedules -> ScheduleRow]
    BY <1>3 DEF DeleteSchedule, ScheduleRow, Time
  <2>2. tick' \in [Keys -> TickRow] /\ runs' \in [Keys -> Nat]
    BY <1>3 DEF DeleteSchedule, TickRow, NoRow, Time
  <2> QED BY <1>3, <2>1, <2>2 DEF DeleteSchedule
<1>4. ASSUME NEW s \in Schedules, NEW b \in BOOLEAN, SetPaused(s, b) PROVE TypeOK'
  <2>1. schedule' \in [Schedules -> ScheduleRow]
    <3>1. [schedule[s] EXCEPT !.paused = b] \in ScheduleRow
      BY schedule[s] \in ScheduleRow DEF ScheduleRow
    <3> QED BY <1>4, <3>1 DEF SetPaused
  <2> QED BY <1>4, <2>1 DEF SetPaused
<1> QED BY <1>1, <1>2, <1>3, <1>4

\* The poll loop keeps every variable in its type, crash included.
LEMMA TypeOfLoopSteps ==
  ASSUME TypeOK, NEW w \in Workers, Boot(w) \/ Stop(w) \/ LoopStep(w)
  PROVE  TypeOK'
<1> USE TickConstants DEF TypeOK, Units, Runners, UnitsOf,
                          dbVars, loopVars, runnerVars, history
<1>1. CASE Boot(w)
  BY <1>1 DEF Boot
<1>2. CASE Stop(w)
  BY <1>2 DEF Stop, Time, UnitPCs, Keyed, Holding
<1>3. CASE ReapOrphans(w)
  BY <1>3 DEF ReapOrphans, Stale, TickRow
<1>4. CASE SkipReap(w)
  BY <1>4 DEF SkipReap
<1>5. CASE PublishReaped(w)
  <2>1. PICK k \in reaped[w] :
          /\ reaped' = [reaped EXCEPT ![w] = @ \ {k}]
          /\ published' = [published EXCEPT ![k] = Append(@, "rolled_forward")]
    BY <1>5 DEF PublishReaped
  <2>2. published' \in [Keys -> Seq({"claimed", "completed", "failed", "rolled_forward"})]
    BY <2>1
  <2> QED BY <1>5, <2>1, <2>2 DEF PublishReaped
<1>6. CASE FanOut(w)
  BY <1>6 DEF FanOut, UnitPCs, Keyed, Holding
<1>7. CASE SkipFanOut(w)
  BY <1>7 DEF SkipFanOut
<1>8. CASE Join(w)
  BY <1>8 DEF Join, Time
<1>9. CASE PublishEvent(w)
  <2>1. PICK u \in UnitsOf(w) :
          /\ outbox[u] # <<>>
          /\ outbox' = [outbox EXCEPT ![u] = Tail(@)]
          /\ published' = [published EXCEPT ![Head(outbox[u]).key] =
                             Append(@, Head(outbox[u]).kind)]
    BY <1>9 DEF PublishEvent
  <2>2. /\ outbox[u] \in Seq(Events)
        /\ Head(outbox[u]) \in Events
        /\ Tail(outbox[u]) \in Seq(Events)
    BY <2>1
  <2>3. outbox' \in [Units -> Seq(Events)]
    BY <2>1, <2>2
  <2>4. published' \in [Keys -> Seq({"claimed", "completed", "failed", "rolled_forward"})]
    BY <2>1, <2>2 DEF Events
  <2> QED BY <1>9, <2>3, <2>4 DEF PublishEvent
<1>10. CASE EndSweep(w)
  BY <1>10 DEF EndSweep, UnitPCs, Keyed, Holding
<1> QED BY <1>1, <1>2, <1>3, <1>4, <1>5, <1>6, <1>7, <1>8, <1>9, <1>10 DEF LoopStep

\* Discovery and the claims of units and requests.
LEMMA TypeOfClaimSteps ==
  ASSUME TypeOK,
         \/ \E w \in Workers, p \in Projects : Discover(w, p) \/ SkipUnit(w, p)
         \/ \E u \in Units : ClaimStep(u) \/ BreakUnit(u)
         \/ \E q \in Requests :
              \/ \E s \in Schedules : StartRunNow(q, s)
              \/ RunNowClaims(q) \/ RunNowRefused(q) \/ BreakRequest(q)
  PROVE  TypeOK'
<1> USE TickConstants DEF TypeOK, Units, Runners, dbVars, loopVars, runnerVars, history
<1>1. ASSUME NEW w \in Workers, NEW p \in Projects, Discover(w, p) PROVE TypeOK'
  BY <1>1 DEF Discover, Discovered, UnitPCs, Keyed, Holding
<1>2. ASSUME NEW w \in Workers, NEW p \in Projects, SkipUnit(w, p) PROVE TypeOK'
  BY <1>2 DEF SkipUnit, UnitPCs, Keyed, Holding
<1>3. ASSUME NEW u \in Units, ClaimWon(u) PROVE TypeOK'
  <2>1. PICK k \in due[u] :
          /\ Claim(k, FALSE, u)
          /\ due' = [due EXCEPT ![u] = @ \ {k}]
          /\ outbox' = [outbox EXCEPT ![u] = Append(@, [kind |-> "claimed", key |-> k])]
    BY <1>3 DEF ClaimWon
  <2>2. outbox' \in [Units -> Seq(Events)]
    <3>1. k \in Keys
      OBVIOUS
    <3>2. [kind |-> "claimed", key |-> k] \in Events
      BY <3>1 DEF Events
    <3> QED BY <2>1, <3>2
  <2>3. tick' \in [Keys -> TickRow]
    <3>1. [status |-> "claimed", at |-> now, manual |-> FALSE] \in TickRow
      BY DEF TickRow
    <3> QED BY <2>1, <3>1 DEF Claim
  <2>4. /\ pc' = [pc EXCEPT ![u] = "matrix"]
        /\ key' = [key EXCEPT ![u] = k]
        /\ claims' = [claims EXCEPT ![k] = @ + 1]
        /\ k \in Keys /\ u \in Runners
    BY <2>1 DEF Claim
  <2>5. /\ pc' \in [Runners -> UnitPCs \cup RequestPCs]
        /\ key' \in [Runners -> Keys \cup {NoKey}]
        /\ \A r \in Runners : pc'[r] \in Keyed => key'[r] \in Keys
    BY <2>4 DEF UnitPCs, Keyed, Holding
  <2>6. /\ claims' \in [Keys -> Nat]
        /\ due' \in [Units -> SUBSET Keys]
    BY <2>1, <2>4
  <2> QED BY <1>3, <2>2, <2>3, <2>5, <2>6 DEF ClaimWon
<1>4. ASSUME NEW u \in Units, ClaimLost(u) PROVE TypeOK'
  BY <1>4 DEF ClaimLost
<1>5. ASSUME NEW u \in Units, ClaimRejected(u) PROVE TypeOK'
  BY <1>5 DEF ClaimRejected, UnitFails, UnitPCs, Keyed, Holding
<1>6. ASSUME NEW u \in Units, UnitDone(u) PROVE TypeOK'
  BY <1>6 DEF UnitDone, UnitPCs, Keyed, Holding
<1>7. ASSUME NEW u \in Units, BreakUnit(u) PROVE TypeOK'
  BY <1>7 DEF BreakUnit, UnitFails, UnitPCs, Keyed, Holding
<1>8. ASSUME NEW q \in Requests, NEW s \in Schedules, StartRunNow(q, s) PROVE TypeOK'
  BY <1>8 DEF StartRunNow, RequestPCs, Keyed, Holding, Keys
<1>9. ASSUME NEW q \in Requests, RunNowClaims(q) PROVE TypeOK'
  <2>1. [status |-> "claimed", at |-> now, manual |-> TRUE] \in TickRow
    BY DEF TickRow
  <2>2. tick' \in [Keys -> TickRow]
    BY <1>9, <2>1 DEF RunNowClaims, Claim
  <2> QED BY <1>9, <2>2 DEF RunNowClaims, Claim, UnitPCs, Keyed, Holding
<1>10. ASSUME NEW q \in Requests, RunNowRefused(q) PROVE TypeOK'
  BY <1>10 DEF RunNowRefused, RequestEnds, RequestPCs, Keyed, Holding
<1>11. ASSUME NEW q \in Requests, BreakRequest(q) PROVE TypeOK'
  BY <1>11 DEF BreakRequest, RequestEnds, RequestPCs, Keyed, Holding
<1> QED BY <1>1, <1>2, <1>3, <1>4, <1>5, <1>6, <1>7, <1>8, <1>9, <1>10, <1>11 DEF ClaimStep

\* What mark_tick and the step after it do to the table and to the runner.
LEMMA TypeOfMark ==
  ASSUME TypeOK, NEW k \in Keys, NEW verdict \in Outcomes, Marked(k, verdict)
  PROVE  tick' \in [Keys -> TickRow]
<1>1. tick[k] \in TickRow
  BY DEF TypeOK
<1>2. [tick[k] EXCEPT !.status = verdict] \in TickRow
  BY <1>1 DEF TickRow, Outcomes
<1> QED BY <1>1, <1>2 DEF TypeOK, Marked

\* A unit that goes on to its next tick keeps the types.
LEMMA TypeOfProceed ==
  ASSUME TypeOK, NEW r \in Runners, key[r] \in Keys, NEW verdict \in Outcomes, Proceed(r, verdict)
  PROVE  /\ pc' \in [Runners -> UnitPCs \cup RequestPCs]
         /\ key' \in [Runners -> Keys \cup {NoKey}]
         /\ \A x \in Runners : pc'[x] \in Keyed => key'[x] \in Keys
         /\ left' \in [Runners -> Nat]
         /\ due' \in [Units -> SUBSET Keys]
         /\ outbox' \in [Units -> Seq(Events)]
<1>1. ASSUME r \in Units,
             outbox' = [outbox EXCEPT ![r] = Append(@, [kind |-> verdict, key |-> key[r]])],
             pc' = [pc EXCEPT ![r] = "loop"],
             key' = [key EXCEPT ![r] = NoKey],
             UNCHANGED <<left, due>>
      PROVE  /\ pc' \in [Runners -> UnitPCs \cup RequestPCs]
             /\ key' \in [Runners -> Keys \cup {NoKey}]
             /\ \A x \in Runners : pc'[x] \in Keyed => key'[x] \in Keys
             /\ left' \in [Runners -> Nat]
             /\ due' \in [Units -> SUBSET Keys]
             /\ outbox' \in [Units -> Seq(Events)]
  <2>1. [kind |-> verdict, key |-> key[r]] \in Events
    BY DEF Events, Outcomes
  <2>2. outbox' \in [Units -> Seq(Events)]
    BY <1>1, <2>1 DEF TypeOK
  <2> QED BY <1>1, <2>2 DEF TypeOK, UnitPCs, Keyed, Holding
<1>2. CASE RequestEnds(r)
  BY <1>2 DEF RequestEnds, TypeOK, UnitPCs, Keyed, Holding
<1> QED BY <1>1, <1>2 DEF Proceed

\* The execution of a claimed tick.
LEMMA TypeOfRunSteps ==
  ASSUME TypeOK, NEW r \in Runners, RunStep(r)
  PROVE  TypeOK'
<1> USE TickConstants DEF TypeOK, dbVars, loopVars, runnerVars, history
<1>1. CASE EmptyMatrix(r)
  BY <1>1 DEF EmptyMatrix, UnitPCs, Keyed, Holding
<1>2. CASE FailMatrix(r)
  BY <1>2 DEF FailMatrix, UnitPCs, Keyed, Holding
<1>3. CASE RunMatrix(r)
  BY <1>3 DEF RunMatrix, UnitPCs, Keyed, Holding
<1>4. CASE PersistRow(r)
  BY <1>4 DEF PersistRow, Keyed, Holding
<1>5. CASE FailPersist(r)
  BY <1>5 DEF FailPersist, UnitPCs, Keyed, Holding
<1>6. CASE MarkCompleted(r)
  <2>1. key[r] \in Keys /\ "completed" \in Outcomes
    BY <1>6 DEF MarkCompleted, Keyed, Holding, Outcomes
  <2>2. tick' \in [Keys -> TickRow]
    BY <1>6, <2>1, TypeOfMark DEF MarkCompleted
  <2> QED BY <1>6, <2>1, <2>2, TypeOfProceed DEF MarkCompleted
<1>7. CASE MarkFailed(r)
  <2>1. key[r] \in Keys /\ "failed" \in Outcomes
    BY <1>7 DEF MarkFailed, Keyed, Holding, Outcomes
  <2>2. tick' \in [Keys -> TickRow]
    BY <1>7, <2>1, TypeOfMark DEF MarkFailed
  <2> QED BY <1>7, <2>1, <2>2, TypeOfProceed DEF MarkFailed
<1> QED BY <1>1, <1>2, <1>3, <1>4, <1>5, <1>6, <1>7 DEF RunStep

\* Every variable keeps its type, whatever the interleaving of workers, requests,
\* crashes and failed calls (apps/worker/src/run.rs, scheduler/src/dispatch.rs).
THEOREM TypeCorrect == Spec => []TypeOK
<1>1. Init => TypeOK
  <2> SUFFICES ASSUME Init PROVE TypeOK
    OBVIOUS
  <2>1. 0 \in Time
    BY TickConstants DEF Time
  <2>2. NoRow \in TickRow
    BY <2>1 DEF NoRow, TickRow
  <2>3. tick \in [Keys -> TickRow] /\ schedule \in [Schedules -> ScheduleRow]
    BY <2>1, <2>2 DEF Init, ScheduleRow
  <2>4. outbox \in [Units -> Seq(Events)]
    BY DEF Init
  <2>5. published \in [Keys -> Seq({"claimed", "completed", "failed", "rolled_forward"})]
    BY DEF Init
  <2> QED BY <2>1, <2>3, <2>4, <2>5 DEF Init, TypeOK, UnitPCs, Keyed, Holding
<1>2. TypeOK /\ [Next]_vars => TypeOK'
  <2> SUFFICES ASSUME TypeOK, [Next]_vars PROVE TypeOK'
    OBVIOUS
  <2>1. CASE UNCHANGED vars
    BY <2>1 DEF TypeOK, vars, dbVars, loopVars, runnerVars, history
  <2>2. CASE Next
    BY <2>2, TypeOfClientSteps, TypeOfLoopSteps, TypeOfClaimSteps, TypeOfRunSteps DEF Next
  <2> QED BY <2>1, <2>2
<1> QED BY <1>1, <1>2, PTL DEF Spec

-----------------------------------------------------------------------------
(* Ownership *)

\* A step after which every runner at work was already at work on the same tick,
\* and none is back before its matrix.
NoNewHolder ==
  \A r \in Runners : pc'[r] \in Keyed =>
    /\ key'[r] = key[r]
    /\ pc[r] \in Keyed
    /\ pc'[r] \in Holding => pc[r] \in Holding
    /\ pc'[r] \in {"matrix", "claim"} => pc[r] = pc'[r]

\* Steps that leave the tables and the history alone and give nobody a tick.
LEMMA QuietStep ==
  ASSUME TypeOK, Ownership, NoNewHolder, UNCHANGED <<schedule, tick, claims, execs>>
  PROVE  Ownership'
<1>1. RowsRememberClaims'
  BY DEF Ownership, RowsRememberClaims, Live, HasRow
<1>2. HoldersOwnTicks'
  <2> SUFFICES ASSUME NEW r \in Runners, pc'[r] \in Holding
               PROVE  /\ claims[key'[r]] = 1
                      /\ pc'[r] = "matrix" => execs[key'[r]] = 0
                      /\ HasRow(key'[r]) => tick[key'[r]].status \in {"claimed", "rolled_forward"}
                      /\ \A other \in Runners :
                           pc'[other] \in Holding /\ key'[other] = key'[r] => other = r
    BY DEF HoldersOwnTicks, HasRow
  <2> QED BY DEF Ownership, HoldersOwnTicks, NoNewHolder, Keyed
<1>3. \A q \in Requests : pc'[q] = "claim" => schedule[key'[q][1]].state # "absent"
  BY DEF Ownership, NoNewHolder, Keyed, Runners
<1> QED BY <1>1, <1>2, <1>3 DEF Ownership

\* The poll loop: only the reaper writes a row, and it leaves verdicts alone.
LEMMA OwnershipOfLoopSteps ==
  ASSUME TypeOK, Ownership, NEW w \in Workers, Boot(w) \/ Stop(w) \/ LoopStep(w)
  PROVE  Ownership'
<1> USE DEF dbVars, loopVars, runnerVars, history
<1>1. CASE ReapOrphans(w)
  <2>1. \A k \in Keys : tick'[k].status = IF k \in Stale THEN "rolled_forward" ELSE tick[k].status
    BY <1>1 DEF ReapOrphans, TypeOK, TickRow
  <2>2. \A k \in Keys : HasRow(k)' = HasRow(k)
    BY <2>1 DEF HasRow, Stale
  <2>3. UNCHANGED <<schedule, pc, key, claims, execs>>
    BY <1>1 DEF ReapOrphans
  <2>4. RowsRememberClaims'
    BY <2>2, <2>3 DEF Ownership, RowsRememberClaims, Live
  <2>5. HoldersOwnTicks'
    BY <2>1, <2>2, <2>3 DEF Ownership, HoldersOwnTicks, TypeOK, Keyed
  <2> QED BY <2>3, <2>4, <2>5 DEF Ownership
<1>2. CASE Boot(w)
  BY <1>2, QuietStep DEF Boot, NoNewHolder
<1>3. CASE Stop(w)
  BY <1>3, QuietStep DEF Stop, NoNewHolder, TypeOK, Keyed, Holding
<1>4. CASE SkipReap(w)
  BY <1>4, QuietStep DEF SkipReap, NoNewHolder
<1>5. CASE PublishReaped(w)
  BY <1>5, QuietStep DEF PublishReaped, NoNewHolder
<1>6. CASE FanOut(w)
  BY <1>6, QuietStep DEF FanOut, NoNewHolder, Keyed, Holding
<1>7. CASE SkipFanOut(w)
  BY <1>7, QuietStep DEF SkipFanOut, NoNewHolder
<1>8. CASE Join(w)
  BY <1>8, QuietStep DEF Join, NoNewHolder
<1>9. CASE PublishEvent(w)
  BY <1>9, QuietStep DEF PublishEvent, NoNewHolder
<1>10. CASE EndSweep(w)
  BY <1>10, QuietStep DEF EndSweep, NoNewHolder, Keyed, Holding
<1> QED BY <1>1, <1>2, <1>3, <1>4, <1>5, <1>6, <1>7, <1>8, <1>9, <1>10 DEF LoopStep

\* Clients: a new schedule has no past, and a deleted one keeps no rows.
LEMMA OwnershipOfClientSteps ==
  ASSUME TypeOK, Ownership,
         \/ Advance
         \/ \E s \in Schedules :
              \/ CreateSchedule(s)
              \/ s \in Edited /\ DeleteSchedule(s)
              \/ s \in Edited /\ \E b \in BOOLEAN : SetPaused(s, b)
  PROVE  Ownership'
<1> USE DEF dbVars, loopVars, runnerVars, history
<1>1. CASE Advance
  BY <1>1, QuietStep DEF Advance, NoNewHolder
<1>2. ASSUME NEW s \in Schedules, CreateSchedule(s) PROVE Ownership'
  <2>1. UNCHANGED <<tick, claims, execs, pc, key>> /\ schedule[s].state = "absent"
    BY <1>2 DEF CreateSchedule
  <2>2. \A x \in Schedules : schedule'[x].state = IF x = s THEN "live" ELSE schedule[x].state
    BY <1>2 DEF CreateSchedule, TypeOK
  <2>3. RowsRememberClaims'
    BY <2>1, <2>2 DEF Ownership, RowsRememberClaims, Live, HasRow, Keys
  <2>4. HoldersOwnTicks'
    BY <2>1 DEF Ownership, HoldersOwnTicks, HasRow
  <2>5. \A q \in Requests : pc[q] = "claim" => key[q][1] \in Schedules
    BY DEF TypeOK, Runners, Keyed, Keys
  <2> QED BY <2>1, <2>2, <2>3, <2>4, <2>5 DEF Ownership
<1>3. ASSUME NEW s \in Schedules, DeleteSchedule(s) PROVE Ownership'
  <2>1. UNCHANGED <<claims, execs, pc, key>> /\ schedule[s].state = "live"
    BY <1>3 DEF DeleteSchedule, Live
  <2>2. \A x \in Schedules : schedule'[x].state = IF x = s THEN "deleted" ELSE schedule[x].state
    BY <1>3 DEF DeleteSchedule, TypeOK
  <2>3. \A k \in Keys : tick'[k] = IF k[1] = s THEN NoRow ELSE tick[k]
    BY <1>3 DEF DeleteSchedule
  <2>4. RowsRememberClaims'
    BY <2>1, <2>2, <2>3 DEF Ownership, RowsRememberClaims, Live, HasRow, Keys, NoRow
  <2>5. HoldersOwnTicks'
    <3>1. \A k \in Keys : HasRow(k)' => tick'[k] = tick[k] /\ HasRow(k)
      BY <2>3 DEF HasRow, NoRow
    <3>2. \A r \in Runners : pc[r] \in Holding => key[r] \in Keys
      BY DEF TypeOK, Keyed
    <3> QED BY <2>1, <3>1, <3>2 DEF Ownership, HoldersOwnTicks, HasRow
  <2>6. \A q \in Requests : pc[q] = "claim" => key[q][1] \in Schedules
    BY DEF TypeOK, Runners, Keyed, Keys
  <2> QED BY <2>1, <2>2, <2>4, <2>5, <2>6 DEF Ownership
<1>4. ASSUME NEW s \in Schedules, NEW b \in BOOLEAN, SetPaused(s, b) PROVE Ownership'
  <2>1. UNCHANGED <<tick, claims, execs, pc, key>>
    BY <1>4 DEF SetPaused
  <2>2. \A x \in Schedules : schedule'[x].state = schedule[x].state
    BY <1>4 DEF SetPaused, TypeOK, ScheduleRow
  <2>3. RowsRememberClaims'
    BY <2>1, <2>2 DEF Ownership, RowsRememberClaims, Live, HasRow, Keys
  <2>4. HoldersOwnTicks'
    BY <2>1 DEF Ownership, HoldersOwnTicks, HasRow
  <2>5. \A q \in Requests : pc[q] = "claim" => key[q][1] \in Schedules
    BY DEF TypeOK, Runners, Keyed, Keys
  <2> QED BY <2>1, <2>2, <2>3, <2>4, <2>5 DEF Ownership
<1> QED BY <1>1, <1>2, <1>3, <1>4

\* A claim that inserts the row makes the runner its only holder.
LEMMA OwnershipOfClaim ==
  ASSUME TypeOK, Ownership, NEW r \in Runners, NEW k \in Keys, NEW by_hand \in BOOLEAN,
         pc[r] \notin Holding, Claim(k, by_hand, r), UNCHANGED <<schedule, execs>>
  PROVE  Ownership'
<1>1. claims[k] = 0 /\ execs[k] = 0
  BY DEF Claim, Ownership, RowsRememberClaims, TypeOK
<1>2. /\ claims' = [claims EXCEPT ![k] = 1]
      /\ pc' = [pc EXCEPT ![r] = "matrix"]
      /\ key' = [key EXCEPT ![r] = k]
  BY <1>1 DEF Claim, TypeOK
<1>3. /\ tick'[k].status = "claimed"
      /\ \A x \in Keys \ {k} : tick'[x] = tick[x]
  BY DEF Claim, TypeOK
<1>4. \A other \in Runners : pc[other] \in Holding => key[other] # k
  BY <1>1 DEF Ownership, HoldersOwnTicks
<1>5. RowsRememberClaims'
  BY <1>1, <1>2, <1>3 DEF Ownership, RowsRememberClaims, Claim, Live, HasRow, TypeOK
<1>6. HoldersOwnTicks'
  <2>1. \A x \in Runners : pc'[x] \in Holding /\ x # r =>
           pc[x] = pc'[x] /\ key'[x] = key[x] /\ key[x] \in Keys \ {k}
    BY <1>2, <1>4 DEF TypeOK, Keyed
  <2>2. pc'[r] = "matrix" /\ key'[r] = k
    BY <1>2 DEF TypeOK
  <2>3. \A x \in Keys \ {k} : HasRow(x)' = HasRow(x) /\ claims'[x] = claims[x]
    BY <1>2, <1>3 DEF HasRow, TypeOK
  <2>4. ASSUME NEW x \in Runners, x # r, pc'[x] \in Holding
        PROVE  /\ claims'[key'[x]] = 1
               /\ pc'[x] = "matrix" => execs'[key'[x]] = 0
               /\ HasRow(key[x])' => tick'[key'[x]].status \in {"claimed", "rolled_forward"}
               /\ \A other \in Runners :
                    pc'[other] \in Holding /\ key'[other] = key'[x] => other = x
    BY <1>3, <2>1, <2>2, <2>3, <2>4 DEF Ownership, HoldersOwnTicks
  <2>5. claims'[k] = 1 /\ execs'[k] = 0
    BY <1>1, <1>2 DEF TypeOK
  <2> QED BY <1>3, <2>1, <2>2, <2>4, <2>5 DEF HoldersOwnTicks, HasRow
<1>7. \A q \in Requests : pc'[q] = "claim" => pc[q] = "claim" /\ key'[q] = key[q]
  BY <1>2 DEF TypeOK, Runners
<1> QED BY <1>5, <1>6, <1>7 DEF Ownership

\* Discovery, claims and refusals.
LEMMA OwnershipOfClaimSteps ==
  ASSUME TypeOK, Ownership,
         \/ \E w \in Workers, p \in Projects : Discover(w, p) \/ SkipUnit(w, p)
         \/ \E u \in Units : ClaimStep(u) \/ BreakUnit(u)
         \/ \E q \in Requests :
              \/ \E s \in Schedules : StartRunNow(q, s)
              \/ RunNowClaims(q) \/ RunNowRefused(q) \/ BreakRequest(q)
  PROVE  Ownership'
<1> USE DEF dbVars, loopVars, runnerVars, history
<1>1. ASSUME NEW w \in Workers, NEW p \in Projects, Discover(w, p) \/ SkipUnit(w, p) PROVE Ownership'
  BY <1>1, QuietStep DEF Discover, SkipUnit, NoNewHolder, TypeOK, Keyed, Holding
<1>2. ASSUME NEW u \in Units, ClaimWon(u) PROVE Ownership'
  <2>1. PICK k \in due[u] : Claim(k, FALSE, u)
    BY <1>2 DEF ClaimWon
  <2>2. k \in Keys /\ u \in Runners
    BY DEF TypeOK, Runners
  <2>3. pc[u] \notin Holding /\ UNCHANGED <<schedule, execs>>
    BY <1>2 DEF ClaimWon, Holding
  <2> QED BY <2>1, <2>2, <2>3, OwnershipOfClaim
<1>3. ASSUME NEW u \in Units, ClaimLost(u) PROVE Ownership'
  BY <1>3, QuietStep DEF ClaimLost, NoNewHolder
<1>4. ASSUME NEW u \in Units, ClaimRejected(u) \/ BreakUnit(u) PROVE Ownership'
  <2>1. UnitFails(u) /\ UNCHANGED <<schedule, tick, claims, execs>>
    BY <1>4 DEF ClaimRejected, BreakUnit
  <2>2. NoNewHolder
    BY <2>1 DEF UnitFails, NoNewHolder, TypeOK, Keyed, Holding
  <2> QED BY <2>1, <2>2, QuietStep
<1>5. ASSUME NEW u \in Units, UnitDone(u) PROVE Ownership'
  BY <1>5, QuietStep DEF UnitDone, NoNewHolder, TypeOK, Keyed, Holding
<1>6. ASSUME NEW q \in Requests, NEW s \in Schedules, StartRunNow(q, s) PROVE Ownership'
  <2>1. /\ UNCHANGED <<schedule, tick, claims, execs>>
        /\ Live(s)
        /\ pc[q] = "off"
        /\ pc' = [pc EXCEPT ![q] = "claim"]
        /\ key' = [key EXCEPT ![q] = <<s, now>>]
    BY <1>6 DEF StartRunNow
  <2>2. \A r \in Runners : pc'[r] \in Holding => pc'[r] = pc[r] /\ key'[r] = key[r]
    BY <2>1 DEF TypeOK, Holding
  <2>3. RowsRememberClaims'
    BY <2>1 DEF Ownership, RowsRememberClaims, Live, HasRow
  <2>4. HoldersOwnTicks'
    BY <2>1, <2>2 DEF Ownership, HoldersOwnTicks, HasRow
  <2>5. ASSUME NEW x \in Requests, pc'[x] = "claim"
        PROVE  schedule[key'[x][1]].state # "absent"
    <3>1. CASE x = q
      BY <2>1, <3>1 DEF TypeOK, Runners, Live
    <3>2. CASE x # q
      BY <2>1, <2>5, <3>2 DEF Ownership, TypeOK, Runners
    <3> QED BY <3>1, <3>2
  <2> QED BY <2>1, <2>3, <2>4, <2>5 DEF Ownership
<1>7. ASSUME NEW q \in Requests, RunNowClaims(q) PROVE Ownership'
  <2>1. key[q] \in Keys /\ q \in Runners /\ pc[q] \notin Holding
    BY <1>7 DEF RunNowClaims, TypeOK, Runners, Keyed, Holding
  <2> QED BY <1>7, <2>1, OwnershipOfClaim DEF RunNowClaims
<1>8. ASSUME NEW q \in Requests, RunNowRefused(q) \/ BreakRequest(q) PROVE Ownership'
  <2>1. RequestEnds(q) /\ UNCHANGED <<schedule, tick, claims, execs>>
    BY <1>8 DEF RunNowRefused, BreakRequest
  <2>2. NoNewHolder
    BY <2>1 DEF RequestEnds, NoNewHolder, TypeOK, Keyed, Holding
  <2> QED BY <2>1, <2>2, QuietStep
<1> QED BY <1>1, <1>2, <1>3, <1>4, <1>5, <1>6, <1>7, <1>8 DEF ClaimStep

\* Marking: the only holder of the tick writes the verdict and lets go of it.
LEMMA OwnershipOfMark ==
  ASSUME TypeOK, Ownership, NEW r \in Runners, NEW verdict \in Outcomes,
         pc[r] \in Holding, Marked(key[r], verdict), Proceed(r, verdict),
         UNCHANGED <<schedule, claims, execs>>
  PROVE  Ownership'
<1>1. key[r] \in Keys
  BY DEF TypeOK, Keyed
<1>2. \A x \in Runners : pc'[x] \in Keyed =>
         x # r /\ pc'[x] = pc[x] /\ key'[x] = key[x]
  BY DEF Proceed, RequestEnds, TypeOK, Keyed, Holding
<1>3. \A k \in Keys : k # key[r] => tick'[k] = tick[k]
  BY DEF Marked, TypeOK
<1>4. tick'[key[r]].status # "none" <=> tick[key[r]].status # "none"
  BY <1>1 DEF Marked, TypeOK, HasRow, TickRow, Outcomes
<1>5. \A k \in Keys : HasRow(k)' <=> HasRow(k)
  BY <1>3, <1>4 DEF HasRow
<1>6. RowsRememberClaims'
  BY <1>5 DEF Ownership, RowsRememberClaims, Live
<1>7. HoldersOwnTicks'
  <2>1. \A x \in Runners : pc'[x] \in Holding => key[x] \in Keys /\ key[x] # key[r]
    BY <1>2 DEF Ownership, HoldersOwnTicks, TypeOK, Keyed
  <2> QED BY <1>2, <1>3, <1>5, <2>1 DEF Ownership, HoldersOwnTicks, HasRow, Keyed
<1>8. \A q \in Requests : pc'[q] = "claim" => pc[q] = "claim" /\ key'[q] = key[q]
  BY <1>2 DEF Runners, Keyed
<1> QED BY <1>6, <1>7, <1>8 DEF Ownership

\* The execution of a claimed tick.
LEMMA OwnershipOfRunSteps ==
  ASSUME TypeOK, Ownership, NEW r \in Runners, RunStep(r)
  PROVE  Ownership'
<1> USE DEF dbVars, loopVars, runnerVars, history
<1>1. CASE EmptyMatrix(r)
  BY <1>1, QuietStep DEF EmptyMatrix, NoNewHolder, TypeOK, Keyed, Holding
<1>2. CASE FailMatrix(r)
  BY <1>2, QuietStep DEF FailMatrix, NoNewHolder, TypeOK, Keyed, Holding
<1>3. CASE RunMatrix(r)
  <2>1. /\ pc[r] = "matrix"
        /\ pc' = [pc EXCEPT ![r] = "persist"]
        /\ execs' = [execs EXCEPT ![key[r]] = @ + 1]
        /\ UNCHANGED <<schedule, tick, claims, key>>
    BY <1>3 DEF RunMatrix
  <2>2. key[r] \in Keys /\ execs[key[r]] = 0 /\ claims[key[r]] = 1
    BY <2>1 DEF Ownership, HoldersOwnTicks, TypeOK, Keyed, Holding
  <2>3. RowsRememberClaims'
    BY <2>1, <2>2 DEF Ownership, RowsRememberClaims, Live, HasRow, TypeOK
  <2>4. HoldersOwnTicks'
    <3>1. \A x \in Runners : pc'[x] \in Holding => pc[x] \in Holding /\ key[x] \in Keys
      BY <2>1 DEF TypeOK, Keyed, Holding
    <3>2. \A x \in Runners : pc'[x] = "matrix" => pc[x] = "matrix" /\ x # r
      BY <2>1 DEF TypeOK
    <3>3. \A x \in Runners : pc'[x] = "matrix" => execs'[key[x]] = execs[key[x]]
      BY <2>1, <2>2, <3>1, <3>2 DEF Ownership, HoldersOwnTicks, TypeOK, Holding
    <3> QED BY <2>1, <3>1, <3>2, <3>3 DEF Ownership, HoldersOwnTicks, HasRow
  <2>5. \A q \in Requests : pc'[q] = "claim" => pc[q] = "claim"
    BY <2>1 DEF TypeOK, Runners
  <2> QED BY <2>1, <2>3, <2>4, <2>5 DEF Ownership
<1>4. CASE PersistRow(r)
  BY <1>4, QuietStep DEF PersistRow, NoNewHolder
<1>5. CASE FailPersist(r)
  BY <1>5, QuietStep DEF FailPersist, NoNewHolder, TypeOK, Keyed, Holding
<1>6. CASE MarkCompleted(r)
  <2>1. pc[r] \in Holding /\ "completed" \in Outcomes
    BY <1>6 DEF MarkCompleted, Holding, Outcomes
  <2>2. Marked(key[r], "completed") /\ Proceed(r, "completed") /\ UNCHANGED <<schedule, claims, execs>>
    BY <1>6 DEF MarkCompleted
  <2> QED BY <2>1, <2>2, OwnershipOfMark
<1>7. CASE MarkFailed(r)
  <2>1. pc[r] \in Holding /\ "failed" \in Outcomes
    BY <1>7 DEF MarkFailed, Holding, Outcomes
  <2>2. Marked(key[r], "failed") /\ Proceed(r, "failed") /\ UNCHANGED <<schedule, claims, execs>>
    BY <1>7 DEF MarkFailed
  <2> QED BY <2>1, <2>2, OwnershipOfMark
<1> QED BY <1>1, <1>2, <1>3, <1>4, <1>5, <1>6, <1>7 DEF RunStep

\* Whoever holds a tick holds it alone and before its verdict, whatever the
\* interleaving of sweeps, run-now requests, reaps, crashes and deletions
\* (worker.rs claim_tick and reap_orphans, dispatch.rs mark_tick).
THEOREM TicksAreOwned == Spec => []Ownership
<1>1. Init => Ownership
  BY TickConstants DEF Init, Ownership, RowsRememberClaims, HoldersOwnTicks, Live, HasRow,
         NoRow, Keys, Holding, Runners
<1>2. TypeOK /\ Ownership /\ [Next]_vars => Ownership'
  <2> SUFFICES ASSUME TypeOK, Ownership, [Next]_vars PROVE Ownership'
    OBVIOUS
  <2>1. CASE UNCHANGED vars
    BY <2>1, QuietStep DEF NoNewHolder, vars, dbVars, loopVars, runnerVars, history
  <2>2. CASE Next
    BY <2>2, OwnershipOfClientSteps, OwnershipOfLoopSteps, OwnershipOfClaimSteps,
       OwnershipOfRunSteps DEF Next
  <2> QED BY <2>1, <2>2
<1> QED BY <1>1, <1>2, TypeCorrect, PTL DEF Spec

\* No tick is claimed twice and no provider matrix is driven twice for one tick
\* (worker.rs:3-6), with any number of workers, requests and restarts.
THEOREM TicksRunAtMostOnce == Spec => []AtMostOnce
<1>1. TypeOK /\ Ownership => AtMostOnce
  <2> SUFFICES ASSUME TypeOK, Ownership, NEW k \in Keys
               PROVE  claims[k] <= 1 /\ execs[k] <= 1
    BY DEF AtMostOnce
  <2>1. claims[k] \in 0 .. 1 /\ execs[k] <= claims[k]
    BY DEF Ownership, RowsRememberClaims
  <2>2. execs[k] \in Nat
    BY DEF TypeOK
  <2> QED BY <2>1, <2>2
<1> QED BY <1>1, TypeCorrect, TicksAreOwned, PTL

-----------------------------------------------------------------------------
(* Completed ticks are whole *)

\* Where the records of a tick are while it runs: before its matrix there are
\* none, and while a runner stores them what is stored and what is left of them
\* add up to what the matrix returned, as long as the tick has its row.
RowsAccounted ==
  /\ \A k \in Keys : execs[k] = 0 => produced[k] = 0
  /\ \A r \in Runners :
       pc[r] = "persist" /\ HasRow(key[r]) => runs[key[r]] + left[r] = produced[key[r]]

WholeInv == CompletedIsWhole /\ RowsAccounted

\* A step that stores nothing, completes no tick and sets no runner to storing.
RowsRest ==
  /\ UNCHANGED <<runs, produced, execs>>
  /\ \A k \in Keys : tick'[k].status = "completed" => tick[k].status = "completed"
  /\ \A r \in Runners : pc'[r] = "persist" =>
       /\ pc[r] = "persist"
       /\ key'[r] = key[r] /\ left'[r] = left[r]
       /\ tick'[key[r]].status # "none" => HasRow(key[r])

\* Such a step keeps the account.
LEMMA RestingRows ==
  ASSUME WholeInv, RowsRest
  PROVE  WholeInv'
<1>1. CompletedIsWhole'
  BY DEF WholeInv, CompletedIsWhole, RowsRest
<1>2. RowsAccounted'
  BY DEF WholeInv, RowsAccounted, RowsRest, HasRow
<1> QED BY <1>1, <1>2 DEF WholeInv

\* Clients: deleting a schedule takes the rows of its ticks and their links along.
LEMMA WholeUnderClientSteps ==
  ASSUME TypeOK, WholeInv,
         \/ Advance
         \/ \E s \in Schedules :
              \/ CreateSchedule(s)
              \/ s \in Edited /\ DeleteSchedule(s)
              \/ s \in Edited /\ \E b \in BOOLEAN : SetPaused(s, b)
  PROVE  WholeInv'
<1> USE DEF dbVars, loopVars, runnerVars, history
<1>1. CASE Advance
  BY <1>1, RestingRows DEF Advance, RowsRest, HasRow
<1>2. ASSUME NEW s \in Schedules, CreateSchedule(s) PROVE WholeInv'
  BY <1>2, RestingRows DEF CreateSchedule, RowsRest, HasRow
<1>3. ASSUME NEW s \in Schedules, DeleteSchedule(s) PROVE WholeInv'
  <2>1. UNCHANGED <<pc, key, left, produced, execs>>
    BY <1>3 DEF DeleteSchedule
  <2>2. \A k \in Keys : /\ tick'[k] = IF k[1] = s THEN NoRow ELSE tick[k]
                        /\ runs'[k] = IF k[1] = s THEN 0 ELSE runs[k]
    BY <1>3 DEF DeleteSchedule
  <2>3. CompletedIsWhole'
    <3>1. \A k \in Keys : produced[k] \in Nat
      BY DEF TypeOK
    <3> QED BY <2>1, <2>2, <3>1 DEF WholeInv, CompletedIsWhole, NoRow
  <2>4. RowsAccounted'
    <3>1. \A r \in Runners : pc[r] = "persist" => key[r] \in Keys
      BY DEF TypeOK, Keyed, Holding
    <3> QED BY <2>1, <2>2, <3>1 DEF WholeInv, RowsAccounted, HasRow, NoRow
  <2> QED BY <2>3, <2>4 DEF WholeInv
<1>4. ASSUME NEW s \in Schedules, NEW b \in BOOLEAN, SetPaused(s, b) PROVE WholeInv'
  BY <1>4, RestingRows DEF SetPaused, RowsRest, HasRow
<1> QED BY <1>1, <1>2, <1>3, <1>4

\* The poll loop: the reaper completes no tick and inserts no row, a crash only
\* drops what units were doing.
LEMMA WholeUnderLoopSteps ==
  ASSUME TypeOK, WholeInv, NEW w \in Workers, Boot(w) \/ Stop(w) \/ LoopStep(w)
  PROVE  WholeInv'
<1> USE DEF dbVars, loopVars, runnerVars, history
<1>1. CASE ReapOrphans(w)
  <2>1. \A k \in Keys : tick'[k].status = IF k \in Stale THEN "rolled_forward" ELSE tick[k].status
    BY <1>1 DEF ReapOrphans, TypeOK, TickRow
  <2>2. \A r \in Runners : pc[r] = "persist" => key[r] \in Keys
    BY DEF TypeOK, Keyed, Holding
  <2>3. \A k \in Stale : HasRow(k)
    BY DEF Stale, HasRow
  <2>4. RowsRest
    BY <1>1, <2>1, <2>2, <2>3 DEF ReapOrphans, RowsRest, HasRow
  <2> QED BY <2>4, RestingRows
<1>2. CASE Boot(w)
  BY <1>2, RestingRows DEF Boot, RowsRest, HasRow
<1>3. CASE Stop(w)
  BY <1>3, RestingRows DEF Stop, RowsRest, HasRow, TypeOK
<1>4. CASE SkipReap(w) \/ SkipFanOut(w)
  BY <1>4, RestingRows DEF SkipReap, SkipFanOut, RowsRest, HasRow
<1>5. CASE PublishReaped(w) \/ PublishEvent(w)
  BY <1>5, RestingRows DEF PublishReaped, PublishEvent, RowsRest, HasRow
<1>6. CASE FanOut(w)
  BY <1>6, RestingRows DEF FanOut, RowsRest, HasRow, TypeOK
<1>7. CASE Join(w)
  BY <1>7, RestingRows DEF Join, RowsRest, HasRow
<1>8. CASE EndSweep(w)
  BY <1>8, RestingRows DEF EndSweep, RowsRest, HasRow, TypeOK
<1> QED BY <1>1, <1>2, <1>3, <1>4, <1>5, <1>6, <1>7, <1>8 DEF LoopStep

\* The row a claim inserts is nobody's to store into: whoever is storing holds a
\* claim of its key, and this key had none.
LEMMA WholeUnderClaim ==
  ASSUME TypeOK, Ownership, WholeInv, NEW r \in Runners, NEW k \in Keys,
         NEW by_hand \in BOOLEAN, Claim(k, by_hand, r),
         UNCHANGED <<runs, produced, execs, left>>
  PROVE  WholeInv'
<1>1. claims[k] = 0
  BY DEF Claim, Ownership, RowsRememberClaims, TypeOK
<1>2. \A x \in Runners : pc[x] = "persist" => key[x] \in Keys \ {k}
  BY <1>1 DEF Ownership, HoldersOwnTicks, TypeOK, Keyed, Holding
<1>3. /\ tick'[k].status = "claimed"
      /\ \A x \in Keys \ {k} : tick'[x] = tick[x]
  BY DEF Claim, TypeOK
<1>4. \A x \in Runners : pc'[x] = "persist" => x # r /\ pc[x] = "persist" /\ key'[x] = key[x]
  BY DEF Claim, TypeOK
<1>5. RowsRest
  BY <1>2, <1>3, <1>4 DEF RowsRest, HasRow
<1> QED BY <1>5, RestingRows

\* Discovery, claims and refusals.
LEMMA WholeUnderClaimSteps ==
  ASSUME TypeOK, Ownership, WholeInv,
         \/ \E w \in Workers, p \in Projects : Discover(w, p) \/ SkipUnit(w, p)
         \/ \E u \in Units : ClaimStep(u) \/ BreakUnit(u)
         \/ \E q \in Requests :
              \/ \E s \in Schedules : StartRunNow(q, s)
              \/ RunNowClaims(q) \/ RunNowRefused(q) \/ BreakRequest(q)
  PROVE  WholeInv'
<1> USE DEF dbVars, loopVars, runnerVars, history
<1>1. ASSUME NEW w \in Workers, NEW p \in Projects, Discover(w, p) \/ SkipUnit(w, p) PROVE WholeInv'
  BY <1>1, RestingRows DEF Discover, SkipUnit, RowsRest, HasRow, TypeOK
<1>2. ASSUME NEW u \in Units, ClaimWon(u) PROVE WholeInv'
  <2>1. PICK k \in due[u] : Claim(k, FALSE, u)
    BY <1>2 DEF ClaimWon
  <2>2. k \in Keys /\ u \in Runners
    BY DEF TypeOK, Runners
  <2> QED BY <1>2, <2>1, <2>2, WholeUnderClaim DEF ClaimWon
<1>3. ASSUME NEW u \in Units, ClaimLost(u) PROVE WholeInv'
  BY <1>3, RestingRows DEF ClaimLost, RowsRest, HasRow
<1>4. ASSUME NEW u \in Units, ClaimRejected(u) \/ BreakUnit(u) PROVE WholeInv'
  BY <1>4, RestingRows DEF ClaimRejected, BreakUnit, UnitFails, RowsRest, HasRow, TypeOK
<1>5. ASSUME NEW u \in Units, UnitDone(u) PROVE WholeInv'
  BY <1>5, RestingRows DEF UnitDone, RowsRest, HasRow, TypeOK
<1>6. ASSUME NEW q \in Requests, NEW s \in Schedules, StartRunNow(q, s) PROVE WholeInv'
  BY <1>6, RestingRows DEF StartRunNow, RowsRest, HasRow, TypeOK
<1>7. ASSUME NEW q \in Requests, RunNowClaims(q) PROVE WholeInv'
  <2>1. key[q] \in Keys /\ q \in Runners
    BY <1>7 DEF RunNowClaims, TypeOK, Runners, Keyed
  <2> QED BY <1>7, <2>1, WholeUnderClaim DEF RunNowClaims
<1>8. ASSUME NEW q \in Requests, RunNowRefused(q) \/ BreakRequest(q) PROVE WholeInv'
  BY <1>8, RestingRows DEF RunNowRefused, BreakRequest, RequestEnds, RowsRest, HasRow, TypeOK
<1> QED BY <1>1, <1>2, <1>3, <1>4, <1>5, <1>6, <1>7, <1>8 DEF ClaimStep

\* The holder of a tick starts to store what its matrix returned, or nothing.
LEMMA WholeUnderMatrix ==
  ASSUME TypeOK, Ownership, WholeInv, NEW r \in Runners, EmptyMatrix(r) \/ RunMatrix(r)
  PROVE  WholeInv'
<1> USE DEF dbVars, loopVars, runnerVars, history
<1> DEFINE k == key[r]
<1>1. /\ pc[r] = "matrix" /\ k \in Keys /\ execs[k] = 0 /\ runs[k] \in Nat
  BY DEF EmptyMatrix, RunMatrix, Ownership, HoldersOwnTicks, TypeOK, Keyed, Holding
<1>2. produced[k] = 0 /\ runs[k] = 0
  BY <1>1 DEF WholeInv, RowsAccounted, CompletedIsWhole, TypeOK
<1>3. tick[k].status # "completed"
  BY <1>1 DEF Ownership, HoldersOwnTicks, HasRow, Holding
<1>4. /\ UNCHANGED <<tick, runs, key>>
      /\ \A x \in Runners : x # r => pc'[x] = pc[x] /\ left'[x] = left[x]
  BY DEF EmptyMatrix, RunMatrix, TypeOK
<1>5. /\ left'[r] \in Nat /\ produced'[k] = left'[r]
      /\ \A x \in Keys : x # k => produced'[x] = produced[x] /\ execs'[x] = execs[x]
      /\ execs'[k] = 0 => produced'[k] = 0
  <2>1. CASE EmptyMatrix(r)
    BY <1>1, <1>2, <2>1 DEF EmptyMatrix, TypeOK
  <2>2. CASE RunMatrix(r)
    <3>1. PICK n \in 0 .. Cells : /\ left' = [left EXCEPT ![r] = n]
                                  /\ produced' = [produced EXCEPT ![k] = n]
      BY <2>2 DEF RunMatrix
    <3>2. execs'[k] = 1 /\ \A x \in Keys : x # k => execs'[x] = execs[x]
      BY <1>1, <2>2 DEF RunMatrix, TypeOK
    <3> QED BY <1>1, <3>1, <3>2, TickConstants DEF TypeOK
  <2> QED BY <2>1, <2>2
<1>6. CompletedIsWhole'
  BY <1>2, <1>3, <1>4, <1>5 DEF WholeInv, CompletedIsWhole
<1>7. RowsAccounted'
  <2>1. \A x \in Runners : x # r /\ pc[x] = "persist" => key[x] \in Keys /\ key[x] # k
    BY <1>1 DEF Ownership, HoldersOwnTicks, TypeOK, Keyed, Holding
  <2>2. \A x \in Runners : pc'[x] = "persist" /\ HasRow(key[x])' =>
           runs'[key'[x]] + left'[x] = produced'[key'[x]]
    BY <1>2, <1>4, <1>5, <2>1 DEF WholeInv, RowsAccounted, HasRow
  <2> QED BY <1>4, <1>5, <2>2 DEF WholeInv, RowsAccounted, HasRow
<1> QED BY <1>6, <1>7 DEF WholeInv

\* One record is stored: one more run, one less to store.
LEMMA WholeUnderPersist ==
  ASSUME TypeOK, Ownership, WholeInv, NEW r \in Runners, PersistRow(r)
  PROVE  WholeInv'
<1> USE DEF dbVars, loopVars, runnerVars, history
<1> DEFINE k == key[r]
<1>1. /\ pc[r] = "persist" /\ HasRow(k) /\ k \in Keys
      /\ left[r] \in Nat /\ left[r] > 0 /\ runs[k] \in Nat
  BY DEF PersistRow, TypeOK, Keyed, Holding
<1>2. runs[k] + left[r] = produced[k]
  BY <1>1 DEF WholeInv, RowsAccounted
<1>3. tick[k].status # "completed"
  BY <1>1 DEF Ownership, HoldersOwnTicks, Holding
<1>4. /\ UNCHANGED <<tick, pc, key, execs, produced>>
      /\ runs'[k] = runs[k] + 1 /\ left'[r] = left[r] - 1
      /\ \A x \in Keys : x # k => runs'[x] = runs[x]
      /\ \A x \in Runners : x # r => left'[x] = left[x]
  BY <1>1 DEF PersistRow, TypeOK
<1>5. CompletedIsWhole'
  BY <1>1, <1>2, <1>3, <1>4 DEF WholeInv, CompletedIsWhole
<1>6. RowsAccounted'
  <2>1. \A x \in Runners : x # r /\ pc[x] = "persist" => key[x] \in Keys /\ key[x] # k
    BY <1>1 DEF Ownership, HoldersOwnTicks, TypeOK, Keyed, Holding
  <2> QED BY <1>1, <1>2, <1>4, <2>1 DEF WholeInv, RowsAccounted, HasRow
<1> QED BY <1>5, <1>6 DEF WholeInv

\* A verdict is written: "completed" when nothing is left to store.
LEMMA WholeUnderMark ==
  ASSUME TypeOK, WholeInv, NEW r \in Runners, MarkCompleted(r) \/ MarkFailed(r)
  PROVE  WholeInv'
<1> USE DEF dbVars, loopVars, runnerVars, history
<1>1. PICK verdict \in Outcomes :
        /\ Marked(key[r], verdict) /\ Proceed(r, verdict)
        /\ UNCHANGED <<runs, produced, execs>>
        /\ verdict = "completed" => pc[r] = "persist" /\ left[r] = 0
  BY DEF MarkCompleted, MarkFailed, Outcomes
<1>2. key[r] \in Keys
  BY DEF MarkCompleted, MarkFailed, TypeOK, Keyed, Holding
<1>3. \A k \in Keys : tick'[k].status = IF k = key[r] /\ HasRow(k) THEN verdict ELSE tick[k].status
  BY <1>1, <1>2 DEF Marked, TypeOK, TickRow
<1>4. \A x \in Runners : pc'[x] = "persist" =>
         pc[x] = "persist" /\ key'[x] = key[x] /\ left'[x] = left[x] /\ key[x] \in Keys
  BY <1>1 DEF Proceed, RequestEnds, TypeOK, Keyed, Holding
<1>5. HasRow(key[r]) /\ verdict = "completed" => runs[key[r]] = produced[key[r]]
  BY <1>1, <1>2 DEF WholeInv, RowsAccounted, TypeOK
<1>6. CompletedIsWhole'
  BY <1>1, <1>3, <1>5 DEF WholeInv, CompletedIsWhole
<1>7. RowsAccounted'
  BY <1>1, <1>3, <1>4 DEF WholeInv, RowsAccounted, HasRow
<1> QED BY <1>6, <1>7 DEF WholeInv

\* A tick reads "completed" only with every record its matrix returned stored, with
\* any number of workers, requests, crashes and failed inserts (dispatch.rs run_tick
\* and mark_tick).
THEOREM CompletedTicksAreWhole == Spec => []CompletedIsWhole
<1>1. Init => WholeInv
  BY DEF Init, WholeInv, CompletedIsWhole, RowsAccounted, NoRow
<1>2. TypeOK /\ Ownership /\ WholeInv /\ [Next]_vars => WholeInv'
  <2> SUFFICES ASSUME TypeOK, Ownership, WholeInv, [Next]_vars PROVE WholeInv'
    OBVIOUS
  <2>1. CASE UNCHANGED vars
    BY <2>1, RestingRows DEF RowsRest, HasRow, vars, dbVars, loopVars, runnerVars, history
  <2>2. ASSUME NEW r \in Runners, RunStep(r) PROVE WholeInv'
    <3>1. CASE FailMatrix(r) \/ FailPersist(r)
      BY <3>1, RestingRows DEF FailMatrix, FailPersist, RowsRest, HasRow, TypeOK,
         dbVars, loopVars, runnerVars, history
    <3> QED BY <2>2, <3>1, WholeUnderMatrix, WholeUnderPersist, WholeUnderMark DEF RunStep
  <2>3. CASE Next
    BY <2>2, <2>3, WholeUnderClientSteps, WholeUnderLoopSteps, WholeUnderClaimSteps DEF Next
  <2> QED BY <2>1, <2>3
<1>3. WholeInv => CompletedIsWhole
  BY DEF WholeInv
<1> QED BY <1>1, <1>2, <1>3, TypeCorrect, TicksAreOwned, PTL DEF Spec

-----------------------------------------------------------------------------
(* The cadence walks one slot at a time *)

\* Rust's Euclidean division on natural numbers.
LEMMA Division ==
  ASSUME NEW a \in Nat, NEW d \in Nat \ {0}
  PROVE  /\ a \div d \in Nat
         /\ a % d \in 0 .. (d - 1)
         /\ a = (d * (a \div d)) + (a % d)
OBVIOUS

\* anchor_next_tick skips no slot: what it returns is not after any multiple of the
\* interval that is later than the last tick.
LEMMA NextTickSkipsNothing ==
  ASSUME NEW a \in Nat, NEW t \in Nat, Slot(t), a < t
  PROVE  NextTick(a) <= t
<1> DEFINE p == a \div Interval
           q == t \div Interval
<1>1. p \in Nat /\ a >= Interval * p
  <2>1. /\ p \in Nat /\ a % Interval \in 0 .. (Interval - 1)
        /\ a = (Interval * p) + (a % Interval)
    BY Division, TickConstants
  <2> HIDE DEF p
  <2> QED BY <2>1, TickConstants
<1>2. q \in Nat /\ t = Interval * q
  <2>1. q \in Nat /\ t = (Interval * q) + (t % Interval)
    BY Division, TickConstants
  <2>2. t % Interval = 0
    BY DEF Slot
  <2> HIDE DEF q
  <2> QED BY <2>1, <2>2, TickConstants
<1>3. NextTick(a) = (p + 1) * Interval
  BY DEF NextTick
<1> HIDE DEF p, q
<1>4. p < q
  <2>1. Interval * p < Interval * q /\ Interval * p \in Nat /\ Interval * q \in Nat
    BY <1>1, <1>2, TickConstants
  <2> QED BY <2>1, <1>1, <1>2, TickConstants
<1>5. (p + 1) * Interval <= q * Interval
  <2>1. p + 1 \in Nat /\ p + 1 <= q
    BY <1>1, <1>2, <1>4
  <2> QED BY <2>1, <1>2, TickConstants
<1>6. q * Interval = t
  BY <1>2, TickConstants
<1> QED BY <1>3, <1>5, <1>6

\* A set of times that is not empty has a least and a greatest member.
LEMMA LeastExists ==
  ASSUME NEW S \in SUBSET Nat, S # {}
  PROVE  \E x \in S : \A y \in S : x <= y
<1>1. IsWellFoundedOn(OpToRel(<, Nat), Nat)
  BY NatLessThanWellFounded
<1>2. PICK x \in S : \A y \in S : ~(<<y, x>> \in OpToRel(<, Nat))
  BY <1>1, WFMin
<1>3. \A y \in S : ~(y < x)
  BY <1>2 DEF OpToRel
<1> QED BY <1>3

\* ... and a bounded one a greatest.
LEMMA GreatestExists ==
  ASSUME NEW S \in SUBSET Time, S # {}
  PROVE  \E x \in S : \A y \in S : y <= x
<1> DEFINE T == {n \in Nat : \E x \in S : n + x = MaxTime}
<1>1. \A x \in S : x \in Nat /\ MaxTime - x \in T
  BY TickConstants DEF Time
<1>2. T # {} /\ T \in SUBSET Nat
  BY <1>1
<1> HIDE DEF T
<1>3. PICK n \in T : \A m \in T : n <= m
  BY <1>2, LeastExists
<1>4. PICK x \in S : n + x = MaxTime
  BY <1>3 DEF T
<1>5. \A y \in S : n <= MaxTime - y
  BY <1>1, <1>3
<1>6. \A y \in S : y <= x
  BY <1>1, <1>2, <1>4, <1>5, TickConstants
<1> QED BY <1>6

\* The key is the slot after a tick of the schedule, or after its creation.
Follows(k) ==
  \E a \in Time : /\ k[2] = NextTick(a)
                  /\ a = schedule[k[1]].created \/ HasRow(<<k[1], a>>)

\* Every tick of the cadence, and every one that a unit is about to claim, follows
\* another.
Cadence ==
  /\ \A k \in Keys : Live(k[1]) /\ HasRow(k) /\ ~tick[k].manual => Follows(k)
  /\ \A u \in Units : \A k \in due[u] :
       schedule[k[1]].state # "absent" /\ (Live(k[1]) => Follows(k))

\* Steps that add no row and no due tick.
CadenceRests ==
  /\ \A s \in Schedules :
       /\ schedule[s].state # "absent" => schedule'[s].state # "absent"
       /\ schedule'[s].state = "live" =>
            schedule[s].state = "live" /\ schedule'[s].created = schedule[s].created
  /\ \A k \in Keys : schedule'[k[1]].state = "live" =>
       /\ tick'[k].status # "none" <=> tick[k].status # "none"
       /\ tick'[k].manual = tick[k].manual
  /\ \A u \in Units : due'[u] \subseteq due[u]

\* A step that touches neither clock, schedules nor ticks keeps the cadence.
LEMMA RestingCadence ==
  ASSUME TypeOK, Cadence, CadenceRests
  PROVE  Cadence'
<1>1. ASSUME NEW k \in Keys, Follows(k), Live(k[1])'
      PROVE  Follows(k)'
  <2>1. PICK a \in Time : /\ k[2] = NextTick(a)
                          /\ a = schedule[k[1]].created \/ HasRow(<<k[1], a>>)
    BY <1>1 DEF Follows
  <2>2. k[1] \in Schedules /\ <<k[1], a>> \in Keys /\ <<k[1], a>>[1] = k[1]
    BY DEF Keys
  <2>3. a = schedule'[k[1]].created \/ HasRow(<<k[1], a>>)'
    BY <1>1, <2>1, <2>2 DEF CadenceRests, Live, HasRow
  <2> QED BY <2>1, <2>3 DEF Follows, NextTick
<1>2. ASSUME NEW k \in Keys, Live(k[1])', HasRow(k)', ~tick'[k].manual PROVE Follows(k)'
  <2>1. Live(k[1]) /\ HasRow(k) /\ ~tick[k].manual
    BY <1>2 DEF CadenceRests, Live, HasRow, Keys
  <2> QED BY <1>1, <1>2, <2>1 DEF Cadence
<1>3. ASSUME NEW u \in Units, NEW k \in due'[u]
      PROVE  schedule'[k[1]].state # "absent" /\ (Live(k[1])' => Follows(k)')
  <2>1. k \in due[u] /\ k \in Keys /\ k[1] \in Schedules
    BY <1>3 DEF CadenceRests, TypeOK, Keys
  <2>2. Live(k[1])' => Live(k[1])
    BY <2>1 DEF CadenceRests, Live
  <2> QED BY <1>1, <2>1, <2>2 DEF Cadence, CadenceRests
<1> QED BY <1>2, <1>3 DEF Cadence

\* A claim: by hand, or of a tick that follows another.
LEMMA CadenceOfClaim ==
  ASSUME TypeOK, Cadence, NEW r \in Runners, NEW k \in Keys, NEW by_hand \in BOOLEAN,
         Claim(k, by_hand, r), by_hand \/ Follows(k),
         schedule' = schedule, \A u \in Units : due'[u] \subseteq due[u]
  PROVE  Cadence'
<1>1. /\ tick'[k].status = "claimed" /\ tick'[k].manual = by_hand
      /\ \A x \in Keys : x # k => tick'[x] = tick[x]
  BY DEF Claim, TypeOK
<1>2. \A x \in Keys : HasRow(x) => HasRow(x)'
  BY <1>1 DEF HasRow
<1>3. ASSUME NEW x \in Keys, Follows(x) PROVE Follows(x)'
  <2>1. PICK a \in Time : /\ x[2] = NextTick(a)
                          /\ a = schedule[x[1]].created \/ HasRow(<<x[1], a>>)
    BY <1>3 DEF Follows
  <2>2. <<x[1], a>> \in Keys
    BY DEF Keys
  <2> QED BY <1>2, <2>1, <2>2 DEF Follows, NextTick
<1>4. ASSUME NEW x \in Keys, Live(x[1])', HasRow(x)', ~tick'[x].manual PROVE Follows(x)'
  <2>1. CASE x = k
    BY <1>1, <1>3, <1>4, <2>1
  <2>2. CASE x # k
    BY <1>1, <1>3, <1>4, <2>2 DEF Cadence, Live, HasRow
  <2> QED BY <2>1, <2>2
<1>5. ASSUME NEW u \in Units, NEW x \in due'[u]
      PROVE  schedule'[x[1]].state # "absent" /\ (Live(x[1])' => Follows(x)')
  <2>1. x \in due[u] /\ x \in Keys
    BY <1>5 DEF TypeOK
  <2> QED BY <1>3, <2>1 DEF Cadence, Live
<1> QED BY <1>4, <1>5 DEF Cadence

\* Discovery: the next tick is computed from the latest row, or from the creation.
LEMMA DiscoveredFollows ==
  ASSUME TypeOK, NEW w \in Workers, NEW p \in Projects, NEW k \in Discovered(w, p)
  PROVE  k \in Keys /\ Live(k[1]) /\ Follows(k)
<1>1. k \in Keys /\ Live(k[1]) /\ k[2] = NextTick(Anchor(k[1]))
  BY DEF Discovered
<1>2. k[1] \in Schedules
  BY <1>1 DEF Keys
<1>3. CASE Rows(k[1]) = {}
  <2>1. Anchor(k[1]) = schedule[k[1]].created /\ schedule[k[1]].created \in Time
    BY <1>2, <1>3 DEF Anchor, TypeOK, ScheduleRow
  <2> QED BY <1>1, <2>1 DEF Follows
<1>4. CASE Rows(k[1]) # {}
  <2>1. Rows(k[1]) \in SUBSET Time
    BY DEF Rows
  <2>2. \E t \in Rows(k[1]) : \A x \in Rows(k[1]) : x <= t
    BY <1>4, <2>1, GreatestExists
  <2>3. Anchor(k[1]) \in Rows(k[1])
    BY <1>4, <2>2 DEF Anchor
  <2>4. Anchor(k[1]) \in Time /\ HasRow(<<k[1], Anchor(k[1])>>)
    BY <2>3 DEF Rows
  <2> QED BY <1>1, <2>4 DEF Follows
<1> QED BY <1>1, <1>3, <1>4

\* Every step keeps the cadence.
LEMMA NextCadence ==
  ASSUME TypeOK, Ownership, Cadence, [Next]_vars
  PROVE  Cadence'
<1> USE DEF dbVars, loopVars, runnerVars, history
<1>1. CASE UNCHANGED vars \/ Advance
  BY <1>1, RestingCadence DEF CadenceRests, vars, Advance
<1>2. ASSUME NEW s \in Schedules, CreateSchedule(s) PROVE Cadence'
  <2>1. /\ schedule[s].state = "absent"
        /\ UNCHANGED <<tick, due>>
        /\ \A x \in Schedules : x # s => schedule'[x] = schedule[x]
    BY <1>2 DEF CreateSchedule, TypeOK
  <2>2. ASSUME NEW k \in Keys, k[1] # s, Follows(k) PROVE Follows(k)'
    <3>1. schedule'[k[1]] = schedule[k[1]]
      BY <2>1, <2>2 DEF Keys
    <3> QED BY <2>1, <2>2, <3>1 DEF Follows, HasRow, NextTick
  <2>3. ASSUME NEW k \in Keys, Live(k[1])', HasRow(k)', ~tick'[k].manual PROVE Follows(k)'
    <3>1. HasRow(k)
      BY <2>1, <2>3 DEF HasRow
    <3>2. Live(k[1]) /\ k[1] # s
      BY <2>1, <3>1 DEF Ownership, RowsRememberClaims, Live
    <3> QED BY <2>1, <2>2, <2>3, <3>1, <3>2 DEF Cadence
  <2>4. ASSUME NEW u \in Units, NEW k \in due'[u]
        PROVE  schedule'[k[1]].state # "absent" /\ (Live(k[1])' => Follows(k)')
    <3>1. k \in due[u] /\ k \in Keys /\ k[1] \in Schedules /\ k[1] # s
      BY <2>1, <2>4 DEF Cadence, TypeOK, Keys
    <3> QED BY <2>1, <2>2, <3>1 DEF Cadence, Live
  <2> QED BY <2>3, <2>4 DEF Cadence
<1>3. ASSUME NEW s \in Schedules, DeleteSchedule(s) PROVE Cadence'
  <2>1. /\ due' = due
        /\ \A x \in Schedules : schedule'[x].state = IF x = s THEN "deleted" ELSE schedule[x].state
        /\ \A x \in Schedules : x # s => schedule'[x] = schedule[x]
        /\ \A k \in Keys : k[1] # s => tick'[k] = tick[k]
    BY <1>3 DEF DeleteSchedule, TypeOK
  <2>2. CadenceRests
    BY <2>1 DEF CadenceRests, Keys
  <2> QED BY <2>2, RestingCadence
<1>4. ASSUME NEW s \in Schedules, NEW b \in BOOLEAN, SetPaused(s, b) PROVE Cadence'
  <2>1. \A x \in Schedules :
          schedule'[x].state = schedule[x].state /\ schedule'[x].created = schedule[x].created
    BY <1>4 DEF SetPaused, TypeOK, ScheduleRow
  <2> QED BY <1>4, <2>1, RestingCadence DEF SetPaused, CadenceRests
<1>5. ASSUME NEW w \in Workers, Boot(w) \/ Stop(w) \/ LoopStep(w) PROVE Cadence'
  <2>1. CASE ReapOrphans(w)
    <3>1. \A k \in Keys : /\ tick'[k].status = IF k \in Stale THEN "rolled_forward" ELSE tick[k].status
                          /\ tick'[k].manual = tick[k].manual
      BY <2>1 DEF ReapOrphans, TypeOK, TickRow
    <3>2. \A k \in Stale : tick[k].status = "claimed"
      BY DEF Stale
    <3> QED BY <2>1, <3>1, <3>2, RestingCadence DEF ReapOrphans, CadenceRests
  <2>2. CASE Stop(w)
    BY <2>2, RestingCadence DEF Stop, CadenceRests
  <2>3. CASE Boot(w) \/ SkipReap(w) \/ PublishReaped(w) \/ FanOut(w) \/ SkipFanOut(w)
             \/ Join(w) \/ PublishEvent(w) \/ EndSweep(w)
    BY <2>3, RestingCadence DEF Boot, SkipReap, PublishReaped, FanOut, SkipFanOut, Join,
       PublishEvent, EndSweep, CadenceRests
  <2> QED BY <1>5, <2>1, <2>2, <2>3 DEF LoopStep
<1>6. ASSUME NEW w \in Workers, NEW p \in Projects, Discover(w, p) PROVE Cadence'
  <2> DEFINE u == <<w, p>>
  <2>1. /\ UNCHANGED <<schedule, tick>>
        /\ due' = [due EXCEPT ![u] = Discovered(w, p)]
    BY <1>6 DEF Discover
  <2>2. \A k : Follows(k)' = Follows(k)
    BY <2>1 DEF Follows, HasRow, NextTick
  <2>3. \A k \in Keys : Live(k[1])' /\ HasRow(k)' /\ ~tick'[k].manual => Follows(k)'
    BY <2>1, <2>2 DEF Cadence, Live, HasRow
  <2>4. ASSUME NEW x \in Units, NEW k \in due'[x]
        PROVE  schedule'[k[1]].state # "absent" /\ (Live(k[1])' => Follows(k)')
    <3>1. CASE x = u
      <4>1. k \in Discovered(w, p)
        BY <2>1, <2>4, <3>1 DEF TypeOK
      <4>2. Live(k[1]) /\ Follows(k)
        BY <4>1, DiscoveredFollows
      <4> QED BY <2>1, <2>2, <4>2 DEF Live
    <3>2. CASE x # u
      <4>1. k \in due[x]
        BY <2>1, <2>4, <3>2 DEF TypeOK
      <4> QED BY <2>1, <2>2, <4>1 DEF Cadence, Live
    <3> QED BY <3>1, <3>2
  <2> QED BY <2>3, <2>4 DEF Cadence
<1>7. ASSUME NEW w \in Workers, NEW p \in Projects, SkipUnit(w, p) PROVE Cadence'
  BY <1>7, RestingCadence DEF SkipUnit, CadenceRests
<1>8. ASSUME NEW u \in Units, ClaimWon(u) PROVE Cadence'
  <2>1. PICK k \in due[u] : Claim(k, FALSE, u) /\ due' = [due EXCEPT ![u] = @ \ {k}]
    BY <1>8 DEF ClaimWon
  <2>2. k \in Keys /\ u \in Runners /\ schedule' = schedule
    BY <1>8 DEF TypeOK, Runners, ClaimWon
  <2>3. Follows(k)
    BY <2>1 DEF Cadence, Claim
  <2>4. \A x \in Units : due'[x] \subseteq due[x]
    BY <2>1 DEF TypeOK
  <2> QED BY <2>1, <2>2, <2>3, <2>4, CadenceOfClaim
<1>9. ASSUME NEW u \in Units, ClaimLost(u) \/ UnitDone(u) PROVE Cadence'
  <2>1. UNCHANGED <<schedule, tick>> /\ \A x \in Units : due'[x] \subseteq due[x]
    BY <1>9 DEF ClaimLost, UnitDone, TypeOK
  <2> QED BY <2>1, RestingCadence DEF CadenceRests
<1>10. ASSUME NEW u \in Units, ClaimRejected(u) \/ BreakUnit(u) PROVE Cadence'
  <2>1. UNCHANGED <<schedule, tick>> /\ \A x \in Units : due'[x] \subseteq due[x]
    BY <1>10 DEF ClaimRejected, BreakUnit, UnitFails, TypeOK
  <2> QED BY <2>1, RestingCadence DEF CadenceRests
<1>11. ASSUME NEW q \in Requests, RunNowClaims(q) PROVE Cadence'
  <2>1. key[q] \in Keys /\ q \in Runners
    BY <1>11 DEF RunNowClaims, TypeOK, Runners, Keyed
  <2>2. Claim(key[q], TRUE, q) /\ UNCHANGED <<schedule, due>>
    BY <1>11 DEF RunNowClaims
  <2> QED BY <2>1, <2>2, CadenceOfClaim
<1>12. ASSUME NEW q \in Requests,
              \/ \E s \in Schedules : StartRunNow(q, s)
              \/ RunNowRefused(q) \/ BreakRequest(q)
       PROVE  Cadence'
  BY <1>12, RestingCadence DEF StartRunNow, RunNowRefused, BreakRequest, RequestEnds, CadenceRests
<1>13. ASSUME NEW r \in Runners, RunStep(r) PROVE Cadence'
  <2>1. CASE MarkCompleted(r) \/ MarkFailed(r)
    <3>1. PICK verdict \in Outcomes : Marked(key[r], verdict) /\ UNCHANGED <<schedule, due>>
      BY <2>1 DEF MarkCompleted, MarkFailed, Outcomes, Proceed, RequestEnds
    <3>2. \A k \in Keys : /\ tick'[k].status # "none" <=> tick[k].status # "none"
                          /\ tick'[k].manual = tick[k].manual
      BY <3>1 DEF Marked, HasRow, TypeOK, TickRow, Outcomes
    <3> QED BY <3>1, <3>2, RestingCadence DEF CadenceRests
  <2>2. CASE EmptyMatrix(r) \/ FailMatrix(r) \/ RunMatrix(r) \/ PersistRow(r) \/ FailPersist(r)
    BY <2>2, RestingCadence DEF EmptyMatrix, FailMatrix, RunMatrix, PersistRow, FailPersist, CadenceRests
  <2> QED BY <1>13, <2>1, <2>2 DEF RunStep
<1> QED BY <1>1, <1>2, <1>3, <1>4, <1>5, <1>6, <1>7, <1>8, <1>9, <1>10, <1>11, <1>12, <1>13
        DEF Next, ClaimStep

\* A slot that has no tick although a later one exists was jumped over by a run-now
\* tick (worker.rs anchor_next_tick and discover_due_schedules_scoped, dispatch.rs
\* run_schedule_now): for every cadence, outage, orphan and interleaving.
THEOREM OnlyHandsLeaveGaps == Spec => []GapsAreManual
<1>1. Init => Cadence
  BY DEF Init, Cadence, HasRow, NoRow
<1>2. TypeOK /\ Cadence => GapsAreManual
  <2> SUFFICES ASSUME TypeOK, Cadence, NEW s \in Schedules, Live(s), NEW t \in Time,
                      Slot(t), schedule[s].created < t, t \notin Rows(s),
                      NEW x \in Rows(s), t < x,
                      \A y \in Rows(s) : t < y => x <= y,
                      ~tick[<<s, x>>].manual
               PROVE  FALSE
    BY DEF GapsAreManual
  <2>1. /\ <<s, x>> \in Keys /\ HasRow(<<s, x>>)
        /\ x \in Nat /\ t \in Nat
    BY TickConstants DEF Rows, Keys, Time
  <2>2. Follows(<<s, x>>)
    BY <2>1 DEF Cadence
  <2>3. PICK a \in Time : x = NextTick(a) /\ (a = schedule[s].created \/ HasRow(<<s, a>>))
    BY <2>2 DEF Follows
  <2>4. a \in Nat
    BY TickConstants DEF Time
  <2>5. ~(a < t)
    <3>1. SUFFICES ASSUME a < t PROVE FALSE
      OBVIOUS
    <3>2. x <= t
      BY <2>3, <2>4, <2>1, <3>1, NextTickSkipsNothing
    <3> QED BY <2>1, <3>2
  <2>6. a \in Rows(s) /\ a # t
    <3>1. schedule[s].created \in Nat
      BY TickConstants DEF TypeOK, ScheduleRow, Time
    <3>2. a # schedule[s].created
      BY <2>1, <2>4, <2>5, <3>1
    <3>3. a \in Rows(s)
      BY <2>3, <3>2 DEF Rows
    <3> QED BY <3>3
  <2>7. t < a /\ a < x
    <3>1. x > a
      <4>1. a \div Interval \in Nat /\ a % Interval \in 0 .. (Interval - 1)
            /\ a = (Interval * (a \div Interval)) + (a % Interval)
        BY <2>4, TickConstants, Division
      <4>2. (a \div Interval + 1) * Interval = (Interval * (a \div Interval)) + Interval
        BY <4>1, TickConstants
      <4>3. Interval * (a \div Interval) \in Nat
        BY <4>1, TickConstants
      <4> QED BY <2>3, <4>1, <4>2, <4>3, TickConstants DEF NextTick
    <3> QED BY <2>1, <2>4, <2>5, <2>6, <3>1
  <2>8. x <= a
    BY <2>6, <2>7
  <2> QED BY <2>1, <2>4, <2>7, <2>8
<1> QED BY <1>1, <1>2, NextCadence, TypeCorrect, TicksAreOwned, PTL DEF Spec

-----------------------------------------------------------------------------
(* What subscribers are told *)

\* The members of a sequence, and a sequence without repetition.
Mem(s) == {s[i] : i \in 1 .. Len(s)}
Distinct(s) == \A i, j \in 1 .. Len(s) : s[i] = s[j] => i = j

\* What subscribers have been told of a tick, and what a unit still has to tell.
Told(k) == Mem(published[k])
Kept(u) == Mem(outbox[u])

Holds(r, k) == pc[r] \in Holding /\ key[r] = k

\* Told and kept events are in order: no outcome before the claim.
ToldInOrder(k) ==
  /\ Distinct(published[k])
  /\ \A i, j \in 1 .. Len(published[k]) :
       published[k][i] \in Outcomes /\ published[k][j] = "claimed" => j < i
KeptInOrder(u) ==
  /\ Distinct(outbox[u])
  /\ \A i, j \in 1 .. Len(outbox[u]) :
       /\ outbox[u][i].kind \in Outcomes /\ outbox[u][j].kind = "claimed"
       /\ outbox[u][i].key = outbox[u][j].key
       => j < i

\* What is told of a tick has a claim behind it; an outcome agrees with the row, and
\* nobody holds the tick any more; a tick told rolled forward is not claimed again.
ToldIsTrue(k) ==
  /\ Told(k) # {} => claims[k] = 1
  /\ \A verdict \in Told(k) \cap Outcomes :
       /\ Live(k[1]) => tick[k].status = verdict
       /\ \A r \in Runners : ~Holds(r, k)
  /\ "rolled_forward" \in Told(k) => tick[k].status # "claimed"

\* What a unit keeps has not been told, a claim not after its outcome; every event of
\* the tick that is still kept is kept by this unit, and if the tick is held it is held
\* by this unit, which has claimed it and no more.
KeptIsTrue(u, e) ==
  /\ e.kind \notin Told(e.key)
  /\ e.kind = "claimed" => Told(e.key) \cap Outcomes = {}
  /\ claims[e.key] = 1
  /\ e.kind \in Outcomes /\ Live(e.key[1]) => tick[e.key].status = e.kind
  /\ \A r \in Runners : Holds(r, e.key) => r = u /\ e.kind = "claimed"
  /\ \A v \in Units : \A f \in Kept(v) : f.key = e.key => v = u

\* What a worker has reaped and not published yet was reaped by it alone.
ReapedIsTrue(w, k) ==
  /\ "rolled_forward" \notin Told(k)
  /\ claims[k] = 1
  /\ tick[k].status # "claimed"
  /\ \A v \in Workers : k \in reaped[v] => v = w

Telling ==
  /\ \A k \in Keys : ToldInOrder(k) /\ ToldIsTrue(k)
  /\ \A u \in Units : KeptInOrder(u) /\ \A e \in Kept(u) : KeptIsTrue(u, e)
  /\ \A w \in Workers : \A k \in reaped[w] : ReapedIsTrue(w, k)

\* What is in a queue after an event has been put at its end.
LEMMA MemOfAppend ==
  ASSUME NEW S, NEW s \in Seq(S), NEW e \in S
  PROVE  /\ Mem(Append(s, e)) = Mem(s) \cup {e}
         /\ Distinct(s) /\ e \notin Mem(s) => Distinct(Append(s, e))
<1>1. /\ Len(Append(s, e)) = Len(s) + 1 /\ Len(s) \in Nat
      /\ Append(s, e)[Len(s) + 1] = e
      /\ \A i \in 1 .. Len(s) : Append(s, e)[i] = s[i]
  OBVIOUS
<1>2. Mem(Append(s, e)) = Mem(s) \cup {e}
  <2>1. 1 .. Len(Append(s, e)) = (1 .. Len(s)) \cup {Len(s) + 1}
    BY <1>1
  <2>2. \A x \in Mem(Append(s, e)) : x \in Mem(s) \cup {e}
    BY <1>1, <2>1 DEF Mem
  <2>3. \A x \in Mem(s) \cup {e} : x \in Mem(Append(s, e))
    BY <1>1, <2>1 DEF Mem
  <2> QED BY <2>2, <2>3
<1>3. ASSUME Distinct(s), e \notin Mem(s) PROVE Distinct(Append(s, e))
  BY <1>1, <1>3 DEF Distinct, Mem
<1> QED BY <1>2, <1>3

\* What is in a queue after its head has been taken.
LEMMA MemOfTail ==
  ASSUME NEW S, NEW s \in Seq(S), s # <<>>, Distinct(s)
  PROVE  /\ Head(s) \in Mem(s)
         /\ Mem(Tail(s)) = Mem(s) \ {Head(s)}
         /\ Distinct(Tail(s))
<1>1. /\ Len(s) \in Nat \ {0} /\ Len(Tail(s)) = Len(s) - 1 /\ Head(s) = s[1]
      /\ \A i \in 1 .. Len(s) - 1 : Tail(s)[i] = s[i + 1]
  OBVIOUS
<1>2. Head(s) \in Mem(s)
  BY <1>1 DEF Mem
<1>3. ASSUME NEW x \in Mem(Tail(s)) PROVE x \in Mem(s) /\ x # Head(s)
  <2>1. PICK i \in 1 .. Len(s) - 1 : x = s[i + 1]
    BY <1>1 DEF Mem
  <2>2. i + 1 \in 1 .. Len(s) /\ 1 \in 1 .. Len(s) /\ i + 1 # 1
    BY <1>1
  <2> QED BY <1>1, <2>1, <2>2 DEF Mem, Distinct
<1>4. ASSUME NEW x \in Mem(s), x # Head(s) PROVE x \in Mem(Tail(s))
  <2>1. PICK i \in 1 .. Len(s) : x = s[i]
    BY DEF Mem
  <2>2. i - 1 \in 1 .. Len(s) - 1 /\ (i - 1) + 1 = i
    BY <1>1, <1>4, <2>1
  <2>3. x = Tail(s)[i - 1]
    BY <1>1, <2>1, <2>2
  <2> QED BY <1>1, <2>2, <2>3 DEF Mem
<1>5. Distinct(Tail(s))
  <2> SUFFICES ASSUME NEW i \in 1 .. Len(Tail(s)), NEW j \in 1 .. Len(Tail(s)),
                      Tail(s)[i] = Tail(s)[j]
               PROVE  i = j
    BY DEF Distinct
  <2>1. s[i + 1] = s[j + 1] /\ i + 1 \in 1 .. Len(s) /\ j + 1 \in 1 .. Len(s)
    BY <1>1
  <2>2. i + 1 = j + 1
    BY <2>1 DEF Distinct
  <2> QED BY <2>2
<1> QED BY <1>2, <1>3, <1>4, <1>5

\* The types of the events that are on their way, and of the rows they tell of.
LEMMA KeptTypes ==
  ASSUME TypeOK, NEW u \in Units, NEW e \in Kept(u)
  PROVE  /\ e \in Events /\ e.key \in Keys
         /\ e.kind \in {"claimed", "completed", "failed"}
<1>1. outbox[u] \in Seq(Events)
  BY DEF TypeOK
<1>2. PICK i \in 1 .. Len(outbox[u]) : e = outbox[u][i]
  BY DEF Kept, Mem
<1>3. e \in Events
  BY <1>1, <1>2
<1> QED BY <1>3 DEF Events

\* Steps after which nobody has news: nothing is told, claimed or settled, nobody gets
\* a tick, and what was kept is kept or dropped as a whole.
NoNews ==
  /\ UNCHANGED <<published, claims>>
  /\ \A u \in Units : outbox'[u] = outbox[u] \/ outbox'[u] = <<>>
  /\ \A w \in Workers : reaped'[w] \subseteq reaped[w]
  /\ \A r \in Runners : pc'[r] \in Holding => pc[r] \in Holding /\ key'[r] = key[r]
  /\ \A k \in Keys :
       /\ tick'[k].status = "claimed" => tick[k].status = "claimed"
       /\ claims[k] = 1 /\ schedule'[k[1]].state = "live" =>
            Live(k[1]) /\ tick'[k].status = tick[k].status

\* A step that leaves ticks and events alone leaves what is told true.
LEMMA TellingRests ==
  ASSUME TypeOK, Telling, NoNews
  PROVE  Telling'
<1>1. \A k : Told(k)' = Told(k)
  BY DEF NoNews, Told, Mem
<1>2. \A u \in Units : Kept(u)' = Kept(u) \/ Kept(u)' = {}
  BY DEF NoNews, Kept, Mem
<1>3. \A r \in Runners, k \in Keys : Holds(r, k)' => Holds(r, k)
  BY DEF NoNews, Holds
<1>4. \A u \in Units : \A e \in Kept(u) : e \in Events /\ e.key \in Keys
  BY KeptTypes
<1>5. ASSUME NEW k \in Keys PROVE ToldInOrder(k)' /\ ToldIsTrue(k)'
  <2>1. ToldInOrder(k)'
    BY DEF NoNews, Telling, ToldInOrder, Distinct
  <2>2. ToldIsTrue(k)
    BY DEF Telling
  <2>3. \A verdict \in Told(k) \cap Outcomes : Live(k[1])' => tick'[k].status = verdict
    BY <2>2 DEF ToldIsTrue, NoNews, Live
  <2> QED BY <1>1, <1>3, <2>1, <2>2, <2>3 DEF ToldIsTrue, NoNews
<1>6. ASSUME NEW u \in Units PROVE KeptInOrder(u)'
  <2>1. CASE outbox'[u] = outbox[u]
    BY <2>1 DEF Telling, KeptInOrder, Distinct
  <2>2. CASE outbox'[u] = <<>>
    BY <2>2 DEF KeptInOrder, Distinct
  <2> QED BY <2>1, <2>2 DEF NoNews
<1>7. ASSUME NEW u \in Units, NEW e \in Kept(u)' PROVE KeptIsTrue(u, e)'
  <2>1. e \in Kept(u) /\ e.key \in Keys
    BY <1>2, <1>4, <1>7
  <2>2. KeptIsTrue(u, e)
    BY <2>1 DEF Telling
  <2>3. e.kind \in Outcomes /\ Live(e.key[1])' => tick'[e.key].status = e.kind
    BY <2>1, <2>2 DEF KeptIsTrue, NoNews, Live
  <2>4. \A v \in Units : \A f \in Kept(v)' : f.key = e.key => v = u
    BY <1>2, <2>2 DEF KeptIsTrue
  <2> QED BY <1>1, <1>3, <2>1, <2>2, <2>3, <2>4 DEF KeptIsTrue, NoNews
<1>8. ASSUME NEW w \in Workers, NEW k \in reaped'[w] PROVE ReapedIsTrue(w, k)'
  <2>1. k \in reaped[w] /\ k \in Keys
    BY <1>8 DEF NoNews, TypeOK
  <2>2. ReapedIsTrue(w, k)
    BY <2>1 DEF Telling
  <2> QED BY <1>1, <2>1, <2>2 DEF ReapedIsTrue, NoNews
<1> QED BY <1>5, <1>6, <1>7, <1>8 DEF Telling

\* The reaper takes claimed ticks only: none that was reaped or settled before.
LEMMA TellingOfReap ==
  ASSUME TypeOK, Ownership, Telling, NEW w \in Workers, ReapOrphans(w)
  PROVE  Telling'
<1>1. /\ UNCHANGED <<published, claims, outbox, pc, key, schedule>>
      /\ reaped' = [reaped EXCEPT ![w] = Stale]
      /\ \A k \in Keys : tick'[k].status = IF k \in Stale THEN "rolled_forward" ELSE tick[k].status
  BY DEF ReapOrphans, TypeOK, TickRow, runnerVars, history
<1>2. \A k \in Stale : /\ k \in Keys /\ tick[k].status = "claimed" /\ claims[k] = 1
                       /\ "rolled_forward" \notin Told(k)
                       /\ \A v \in Workers : k \notin reaped[v]
  <2> SUFFICES ASSUME NEW k \in Stale
               PROVE  /\ k \in Keys /\ tick[k].status = "claimed" /\ claims[k] = 1
                      /\ "rolled_forward" \notin Told(k)
                      /\ \A v \in Workers : k \notin reaped[v]
    OBVIOUS
  <2>1. k \in Keys /\ tick[k].status = "claimed" /\ HasRow(k)
    BY DEF Stale, HasRow
  <2>2. claims[k] = 1
    BY <2>1 DEF Ownership, RowsRememberClaims
  <2> QED BY <2>1, <2>2 DEF Telling, ToldIsTrue, ReapedIsTrue
<1>3. /\ \A k : Told(k)' = Told(k)
      /\ \A u : Kept(u)' = Kept(u)
      /\ \A r, k : Holds(r, k)' = Holds(r, k)
  BY <1>1 DEF Told, Kept, Mem, Holds
<1>4. ASSUME NEW k \in Keys PROVE ToldInOrder(k)' /\ ToldIsTrue(k)'
  <2>1. ToldInOrder(k)'
    BY <1>1 DEF Telling, ToldInOrder, Distinct
  <2>2. ToldIsTrue(k)
    BY DEF Telling
  <2>3. \A verdict \in Told(k) \cap Outcomes : Live(k[1])' => tick'[k].status = verdict
    BY <1>1, <1>2, <2>2 DEF ToldIsTrue, Live, Outcomes
  <2>4. "rolled_forward" \in Told(k) => tick'[k].status # "claimed"
    BY <1>1, <2>2 DEF ToldIsTrue
  <2> QED BY <1>1, <1>3, <2>1, <2>2, <2>3, <2>4 DEF ToldIsTrue
<1>5. ASSUME NEW u \in Units PROVE KeptInOrder(u)'
  BY <1>1 DEF Telling, KeptInOrder, Distinct
<1>6. ASSUME NEW u \in Units, NEW e \in Kept(u) PROVE KeptIsTrue(u, e)'
  <2>1. KeptIsTrue(u, e) /\ e.key \in Keys
    BY KeptTypes DEF Telling
  <2>2. e.kind \in Outcomes /\ Live(e.key[1])' => tick'[e.key].status = e.kind
    BY <1>1, <1>2, <2>1 DEF KeptIsTrue, Live, Outcomes
  <2> QED BY <1>1, <1>3, <2>1, <2>2 DEF KeptIsTrue
<1>7. ASSUME NEW v \in Workers, NEW k \in reaped'[v] PROVE ReapedIsTrue(v, k)'
  <2>1. CASE v = w
    <3>1. k \in Stale
      BY <1>1, <1>7, <2>1 DEF TypeOK
    <3>2. \A x \in Workers : k \in reaped'[x] => x = w
      BY <1>1, <1>2, <3>1 DEF TypeOK
    <3> QED BY <1>1, <1>2, <1>3, <2>1, <3>1, <3>2 DEF ReapedIsTrue
  <2>2. CASE v # w
    <3>1. k \in reaped[v] /\ k \in Keys
      BY <1>1, <1>7, <2>2 DEF TypeOK
    <3>2. ReapedIsTrue(v, k) /\ k \notin Stale
      BY <1>2, <3>1 DEF Telling
    <3>3. \A x \in Workers : k \in reaped'[x] => x = v
      BY <1>1, <3>2 DEF ReapedIsTrue, TypeOK
    <3> QED BY <1>1, <1>3, <3>1, <3>2, <3>3 DEF ReapedIsTrue
  <2> QED BY <2>1, <2>2
<1> QED BY <1>3, <1>4, <1>5, <1>6, <1>7 DEF Telling

\* A tick rolled forward is told once.
LEMMA TellingOfReaped ==
  ASSUME TypeOK, Telling, NEW w \in Workers, PublishReaped(w)
  PROVE  Telling'
<1>1. PICK k \in reaped[w] :
        /\ reaped' = [reaped EXCEPT ![w] = @ \ {k}]
        /\ published' = [published EXCEPT ![k] = Append(@, "rolled_forward")]
  BY DEF PublishReaped
<1>2. k \in Keys /\ UNCHANGED <<claims, outbox, pc, key, schedule, tick>>
  BY DEF PublishReaped, TypeOK, runnerVars, dbVars
<1>3. ReapedIsTrue(w, k) /\ ToldInOrder(k) /\ ToldIsTrue(k)
  BY <1>2 DEF Telling
<1>4. /\ published[k] \in Seq({"claimed", "completed", "failed", "rolled_forward"})
      /\ published'[k] = Append(published[k], "rolled_forward")
      /\ \A x \in Keys : x # k => published'[x] = published[x]
  BY <1>1, <1>2 DEF TypeOK
<1>5. /\ Told(k)' = Told(k) \cup {"rolled_forward"}
      /\ Distinct(published[k])'
      /\ \A x \in Keys : x # k => Told(x)' = Told(x)
  BY <1>3, <1>4, MemOfAppend DEF Told, ReapedIsTrue, ToldInOrder, Mem, Distinct
<1>6. /\ \A u : Kept(u)' = Kept(u)
      /\ \A r, x : Holds(r, x)' = Holds(r, x)
  BY <1>2 DEF Kept, Mem, Holds
<1>7. ToldInOrder(k)'
  <2>1. /\ Len(published'[k]) = Len(published[k]) + 1 /\ Len(published[k]) \in Nat
        /\ published'[k][Len(published[k]) + 1] = "rolled_forward"
        /\ \A i \in 1 .. Len(published[k]) : published'[k][i] = published[k][i]
    BY <1>4
  <2>2. ASSUME NEW i \in 1 .. Len(published'[k]), NEW j \in 1 .. Len(published'[k]),
               published'[k][i] \in Outcomes, published'[k][j] = "claimed"
        PROVE  j < i
    <3>1. i \in 1 .. Len(published[k]) /\ j \in 1 .. Len(published[k])
      BY <2>1, <2>2 DEF Outcomes
    <3> QED BY <1>3, <2>1, <2>2, <3>1 DEF ToldInOrder
  <2> QED BY <1>5, <2>2 DEF ToldInOrder
<1>8. ToldIsTrue(k)'
  <2>1. Told(k)' \cap Outcomes = Told(k) \cap Outcomes
    BY <1>5 DEF Outcomes
  <2> QED BY <1>2, <1>3, <1>6, <2>1 DEF ToldIsTrue, ReapedIsTrue, Live
<1>9. ASSUME NEW x \in Keys, x # k PROVE ToldInOrder(x)' /\ ToldIsTrue(x)'
  <2>1. ToldInOrder(x) /\ ToldIsTrue(x)
    BY DEF Telling
  <2>2. ToldInOrder(x)'
    BY <1>4, <1>9, <2>1 DEF ToldInOrder, Distinct
  <2> QED BY <1>2, <1>5, <1>6, <1>9, <2>1, <2>2 DEF ToldIsTrue, Live
<1>10. ASSUME NEW u \in Units PROVE KeptInOrder(u)'
  BY <1>2 DEF Telling, KeptInOrder, Distinct
<1>11. ASSUME NEW u \in Units, NEW e \in Kept(u) PROVE KeptIsTrue(u, e)'
  <2>1. KeptIsTrue(u, e) /\ e.key \in Keys /\ e.kind # "rolled_forward"
    BY KeptTypes DEF Telling
  <2>2. /\ e.kind \notin Told(e.key)'
        /\ Told(e.key)' \cap Outcomes = Told(e.key) \cap Outcomes
    BY <1>5, <2>1 DEF KeptIsTrue, Outcomes
  <2> QED BY <1>2, <1>6, <2>1, <2>2 DEF KeptIsTrue, Live
<1>12. ASSUME NEW v \in Workers, NEW x \in reaped'[v] PROVE ReapedIsTrue(v, x)'
  <2>1. x \in reaped[v] /\ x \in Keys
    BY <1>1, <1>12 DEF TypeOK
  <2>2. ReapedIsTrue(v, x)
    BY <2>1 DEF Telling
  <2>3. x # k
    BY <1>1, <1>3, <1>12, <2>1 DEF ReapedIsTrue, TypeOK
  <2>4. \A y \in Workers : reaped'[y] \subseteq reaped[y]
    BY <1>1 DEF TypeOK
  <2> QED BY <1>2, <1>5, <2>1, <2>2, <2>3, <2>4 DEF ReapedIsTrue
<1> QED BY <1>6, <1>7, <1>8, <1>9, <1>10, <1>11, <1>12 DEF Telling

\* A kept event is told, the oldest first: it was not told before, and a claim that is
\* still kept is not older than an outcome that goes.
LEMMA TellingOfEvent ==
  ASSUME TypeOK, Telling, NEW w \in Workers, PublishEvent(w)
  PROVE  Telling'
<1>1. PICK u \in UnitsOf(w) :
        /\ outbox[u] # <<>>
        /\ outbox' = [outbox EXCEPT ![u] = Tail(@)]
        /\ published' = [published EXCEPT ![Head(outbox[u]).key] = Append(@, Head(outbox[u]).kind)]
  BY DEF PublishEvent
<1>2. u \in Units /\ outbox[u] \in Seq(Events)
  BY DEF UnitsOf, Units, TypeOK
<1>3. PICK e \in Events : e = Head(outbox[u])
  BY <1>1, <1>2
<1>4. PICK k \in Keys : k = e.key /\ e.kind \in {"claimed", "completed", "failed"}
  BY DEF Events
<1>5. UNCHANGED <<claims, pc, key, schedule, tick, reaped>>
  BY DEF PublishEvent, dbVars, loopVars
<1>6. KeptInOrder(u)
  BY <1>2 DEF Telling
<1>7. /\ e \in Kept(u)
      /\ Mem(Tail(outbox[u])) = Kept(u) \ {e}
      /\ Distinct(Tail(outbox[u]))
  BY <1>3, <1>1, <1>2, <1>6, MemOfTail DEF Kept, KeptInOrder
<1>8. KeptIsTrue(u, e) /\ ToldInOrder(k) /\ ToldIsTrue(k)
  BY <1>2, <1>7, <1>4 DEF Telling
<1>9. /\ outbox'[u] = Tail(outbox[u])
      /\ \A v \in Units : v # u => outbox'[v] = outbox[v]
      /\ published[k] \in Seq({"claimed", "completed", "failed", "rolled_forward"})
      /\ published'[k] = Append(published[k], e.kind)
      /\ \A x \in Keys : x # k => published'[x] = published[x]
  BY <1>3, <1>1, <1>2, <1>4 DEF TypeOK
<1>10. /\ Told(k)' = Told(k) \cup {e.kind}
      /\ Distinct(published[k])'
      /\ \A x \in Keys : x # k => Told(x)' = Told(x)
  BY <1>4, <1>8, <1>9, MemOfAppend DEF Told, KeptIsTrue, ToldInOrder, Mem, Distinct
<1>11. /\ Kept(u)' = Kept(u) \ {e}
       /\ \A v \in Units : v # u => Kept(v)' = Kept(v)
       /\ \A r, x : Holds(r, x)' = Holds(r, x)
  <2>1. \A v \in Units : Kept(v)' = Mem(outbox'[v])
    BY DEF Kept
  <2>2. \A r, x : Holds(r, x)' = Holds(r, x)
    BY <1>5 DEF Holds
  <2> QED BY <1>2, <1>7, <1>9, <2>1, <2>2 DEF Kept
<1>12. ToldInOrder(k)'
  <2>1. /\ Len(published'[k]) = Len(published[k]) + 1 /\ Len(published[k]) \in Nat
        /\ published'[k][Len(published[k]) + 1] = e.kind
        /\ \A i \in 1 .. Len(published[k]) : published'[k][i] = published[k][i]
    BY <1>4, <1>9
  <2>2. ASSUME NEW i \in 1 .. Len(published'[k]), NEW j \in 1 .. Len(published'[k]),
               published'[k][i] \in Outcomes, published'[k][j] = "claimed"
        PROVE  j < i
    <3>1. CASE i = Len(published[k]) + 1
      BY <2>1, <2>2, <3>1 DEF Outcomes
    <3>2. CASE i \in 1 .. Len(published[k]) /\ j = Len(published[k]) + 1
      <4>1. e.kind = "claimed" /\ published[k][i] \in Told(k) \cap Outcomes
        BY <2>1, <2>2, <3>2 DEF Told, Mem
      <4> QED BY <1>4, <1>8, <4>1 DEF KeptIsTrue
    <3>3. CASE i \in 1 .. Len(published[k]) /\ j \in 1 .. Len(published[k])
      BY <1>8, <2>1, <2>2, <3>3 DEF ToldInOrder
    <3> QED BY <2>1, <3>1, <3>2, <3>3
  <2> QED BY <1>10, <2>2 DEF ToldInOrder
<1>13. ToldIsTrue(k)'
  <2>1. claims'[k] = 1
    BY <1>5, <1>4, <1>8 DEF KeptIsTrue
  <2>2. "rolled_forward" \in Told(k)' => tick'[k].status # "claimed"
    BY <1>5, <1>4, <1>8, <1>10 DEF ToldIsTrue
  <2>3. ASSUME NEW verdict \in Told(k)' \cap Outcomes
        PROVE  /\ Live(k[1])' => tick'[k].status = verdict
               /\ \A r \in Runners : ~Holds(r, k)'
    <3>1. CASE verdict \in Told(k)
      BY <1>5, <1>8, <1>11, <2>3, <3>1 DEF ToldIsTrue, Live
    <3>2. CASE verdict = e.kind
      BY <1>5, <1>4, <1>8, <1>11, <2>3, <3>2 DEF KeptIsTrue, Live, Outcomes
    <3> QED BY <1>10, <3>1, <3>2
  <2> QED BY <2>1, <2>2, <2>3 DEF ToldIsTrue
<1>14. ASSUME NEW x \in Keys, x # k PROVE ToldInOrder(x)' /\ ToldIsTrue(x)'
  <2>1. ToldInOrder(x) /\ ToldIsTrue(x)
    BY DEF Telling
  <2>2. ToldInOrder(x)'
    BY <1>9, <1>14, <2>1 DEF ToldInOrder, Distinct
  <2> QED BY <1>5, <1>10, <1>11, <1>14, <2>1, <2>2 DEF ToldIsTrue, Live
<1>15. KeptInOrder(u)'
  <2>1. /\ Len(outbox[u]) \in Nat \ {0} /\ Len(Tail(outbox[u])) = Len(outbox[u]) - 1
        /\ \A i \in 1 .. Len(outbox[u]) - 1 : Tail(outbox[u])[i] = outbox[u][i + 1]
    BY <1>1, <1>2
  <2> DEFINE s == Tail(outbox[u])
  <2>2. ASSUME NEW i \in 1 .. Len(s), NEW j \in 1 .. Len(s),
               s[i].kind \in Outcomes, s[j].kind = "claimed", s[i].key = s[j].key
        PROVE  j < i
    <3>1. /\ i + 1 \in 1 .. Len(outbox[u]) /\ j + 1 \in 1 .. Len(outbox[u])
          /\ s[i] = outbox[u][i + 1] /\ s[j] = outbox[u][j + 1]
      BY <2>1
    <3>2. j + 1 < i + 1
      BY <1>6, <2>2, <3>1 DEF KeptInOrder
    <3> QED BY <3>2
  <2> HIDE DEF s
  <2>3. outbox'[u] = s
    BY <1>9 DEF s
  <2> QED BY <1>7, <2>2, <2>3 DEF KeptInOrder, s
<1>16. ASSUME NEW v \in Units, v # u PROVE KeptInOrder(v)'
  BY <1>9, <1>16 DEF Telling, KeptInOrder, Distinct
<1>17. ASSUME NEW v \in Units, NEW f \in Kept(v)' PROVE KeptIsTrue(v, f)'
  <2>1. f \in Kept(v) /\ f.key \in Keys /\ f \in Events
    BY <1>11, <1>17, KeptTypes
  <2>2. KeptIsTrue(v, f)
    BY <2>1 DEF Telling
  <2>3. \A x \in Units : \A g \in Kept(x)' : g.key = f.key => x = v
    BY <1>11, <2>2 DEF KeptIsTrue
  <2>4. f.kind \notin Told(f.key)' /\ (f.kind = "claimed" => Told(f.key)' \cap Outcomes = {})
    <3>1. CASE f.key # k
      BY <1>10, <2>1, <2>2, <3>1 DEF KeptIsTrue
    <3>2. CASE f.key = k
      <4>1. v = u /\ f # e
        BY <1>2, <1>7, <1>4, <1>8, <1>11, <1>17, <2>1, <3>2 DEF KeptIsTrue
      <4>2. f.kind # e.kind
        BY <1>4, <2>1, <3>2, <4>1 DEF Events
      <4>3. ASSUME f.kind = "claimed" PROVE e.kind \notin Outcomes
        <5>1. SUFFICES ASSUME e.kind \in Outcomes PROVE FALSE
          OBVIOUS
        <5>2. PICK j \in 1 .. Len(outbox[u]) : f = outbox[u][j]
          BY <2>1, <4>1 DEF Kept, Mem
        <5>3. 1 \in 1 .. Len(outbox[u]) /\ e = outbox[u][1]
          BY <1>3, <1>1, <1>2
        <5>4. j < 1
          BY <1>6, <1>4, <3>2, <4>3, <5>1, <5>2, <5>3 DEF KeptInOrder
        <5> QED BY <5>2, <5>4
      <4> QED BY <1>10, <2>2, <3>2, <4>2, <4>3 DEF KeptIsTrue
    <3> QED BY <3>1, <3>2
  <2> QED BY <1>5, <1>11, <2>2, <2>3, <2>4 DEF KeptIsTrue, Live
<1>18. ASSUME NEW x \in Workers, NEW y \in reaped'[x] PROVE ReapedIsTrue(x, y)'
  <2>1. y \in reaped[x] /\ y \in Keys
    BY <1>5, <1>18 DEF TypeOK
  <2>2. ReapedIsTrue(x, y)
    BY <2>1 DEF Telling
  <2>3. "rolled_forward" \notin Told(y)'
    BY <1>4, <1>10, <2>1, <2>2 DEF ReapedIsTrue
  <2> QED BY <1>5, <2>2, <2>3 DEF ReapedIsTrue
<1> QED BY <1>12, <1>13, <1>14, <1>15, <1>16, <1>17, <1>18 DEF Telling

\* A claim that is won is the first news of its tick; one won by hand is told nobody.
LEMMA TellingOfClaim ==
  ASSUME TypeOK, Ownership, Telling, NEW r \in Runners, NEW k \in Keys,
         NEW by_hand \in BOOLEAN, Claim(k, by_hand, r),
         UNCHANGED <<schedule, published, reaped>>,
         \/ r \in Units /\ outbox' = [outbox EXCEPT ![r] = Append(@, [kind |-> "claimed", key |-> k])]
         \/ outbox' = outbox
  PROVE  Telling'
<1> DEFINE e == [kind |-> "claimed", key |-> k]
<1>1. claims[k] = 0
  BY DEF Claim, Ownership, RowsRememberClaims, TypeOK
<1>2. /\ claims'[k] = 1 /\ tick'[k].status = "claimed"
      /\ \A x \in Keys : x # k => claims'[x] = claims[x] /\ tick'[x] = tick[x]
      /\ \A x \in Runners : x # r => pc'[x] = pc[x] /\ key'[x] = key[x]
      /\ pc'[r] = "matrix" /\ key'[r] = k
  BY <1>1 DEF Claim, TypeOK
<1>3. /\ Told(k) = {}
      /\ \A u \in Units : \A f \in Kept(u) : f.key # k /\ f.key \in Keys
      /\ \A v \in Workers : k \notin reaped[v]
      /\ \A x \in Runners : ~Holds(x, k)
  BY <1>1, KeptTypes DEF Telling, ToldIsTrue, KeptIsTrue, ReapedIsTrue, Ownership, HoldersOwnTicks, Holds
<1>4. e \in Events /\ e.key = k /\ e.kind = "claimed"
  BY DEF Events
<1>5. \A x : Told(x)' = Told(x)
  BY DEF Told, Mem
<1>6. ASSUME NEW u \in Units
      PROVE  /\ KeptInOrder(u)'
             /\ Kept(u)' = Kept(u) \/ (u = r /\ Kept(u)' = Kept(u) \cup {e})
  <2>1. KeptInOrder(u) /\ outbox[u] \in Seq(Events)
    BY DEF Telling, TypeOK
  <2>2. CASE outbox'[u] = outbox[u]
    BY <2>1, <2>2 DEF KeptInOrder, Distinct, Kept, Mem
  <2>3. CASE u = r /\ outbox'[u] = Append(outbox[u], e)
    <3>1. e \notin Kept(u)
      BY <1>3, <1>4
    <3>2. /\ Mem(Append(outbox[u], e)) = Kept(u) \cup {e}
          /\ Distinct(Append(outbox[u], e))
      BY <1>4, <2>1, <3>1, MemOfAppend DEF Kept, KeptInOrder
    <3>3. /\ Len(outbox'[u]) = Len(outbox[u]) + 1 /\ Len(outbox[u]) \in Nat
          /\ outbox'[u][Len(outbox[u]) + 1] = e
          /\ \A i \in 1 .. Len(outbox[u]) : outbox'[u][i] = outbox[u][i] /\ outbox[u][i] \in Kept(u)
      BY <1>4, <2>1, <2>3 DEF Kept, Mem
    <3>4. ASSUME NEW i \in 1 .. Len(outbox'[u]), NEW j \in 1 .. Len(outbox'[u]),
                 outbox'[u][i].kind \in Outcomes, outbox'[u][j].kind = "claimed",
                 outbox'[u][i].key = outbox'[u][j].key
          PROVE  j < i
      <4>1. i \in 1 .. Len(outbox[u]) /\ outbox[u][i].key # k
        BY <1>3, <1>4, <3>3, <3>4 DEF Outcomes
      <4>2. j \in 1 .. Len(outbox[u])
        BY <1>4, <3>3, <3>4, <4>1
      <4> QED BY <2>1, <3>3, <3>4, <4>1, <4>2 DEF KeptInOrder
    <3> QED BY <2>3, <3>2, <3>4 DEF KeptInOrder, Kept
  <2> QED BY <2>2, <2>3 DEF TypeOK
<1>7. ASSUME NEW x \in Keys PROVE ToldInOrder(x)' /\ ToldIsTrue(x)'
  <2>1. ToldInOrder(x) /\ ToldIsTrue(x)
    BY DEF Telling
  <2>2. ToldInOrder(x)'
    BY <2>1 DEF ToldInOrder, Distinct
  <2>3. ToldIsTrue(x)'
    <3>1. CASE x = k
      BY <1>3, <1>5, <3>1 DEF ToldIsTrue
    <3>2. CASE x # k
      BY <1>2, <1>5, <2>1, <3>2 DEF ToldIsTrue, Holds, Live
    <3> QED BY <3>1, <3>2
  <2> QED BY <2>2, <2>3
<1>8. ASSUME NEW u \in Units, NEW f \in Kept(u)' PROVE KeptIsTrue(u, f)'
  <2>1. CASE f \in Kept(u)
    <3>1. KeptIsTrue(u, f) /\ f.key # k /\ f.key \in Keys
      BY <1>3, <2>1 DEF Telling
    <3>2. \A v \in Units : \A g \in Kept(v)' : g.key = f.key => v = u
      BY <1>4, <1>6, <3>1 DEF KeptIsTrue
    <3>3. \A x \in Runners : Holds(x, f.key)' => Holds(x, f.key)
      BY <1>2, <3>1 DEF Holds
    <3> QED BY <1>2, <1>5, <3>1, <3>2, <3>3 DEF KeptIsTrue, Live
  <2>2. CASE u = r /\ f = e
    <3>1. \A v \in Units : \A g \in Kept(v)' : g.key = k => v = u
      BY <1>3, <1>6, <2>2
    <3>2. \A x \in Runners : Holds(x, k)' => x = r
      BY <1>2, <1>3 DEF Holds
    <3> QED BY <1>2, <1>3, <1>4, <1>5, <2>2, <3>1, <3>2 DEF KeptIsTrue, Outcomes
  <2> QED BY <1>6, <1>8, <2>1, <2>2
<1>9. ASSUME NEW w \in Workers, NEW x \in reaped'[w] PROVE ReapedIsTrue(w, x)'
  <2>1. ReapedIsTrue(w, x) /\ x # k /\ x \in Keys
    BY <1>3, <1>9 DEF Telling, TypeOK
  <2> QED BY <1>2, <1>5, <2>1 DEF ReapedIsTrue
<1> QED BY <1>6, <1>7, <1>8, <1>9 DEF Telling

\* The verdict of a tick is the last news of it, and its only holder keeps it to tell;
\* a run-now handler tells nobody, and nobody else has news of its tick.
LEMMA TellingOfMark ==
  ASSUME TypeOK, Ownership, Telling, NEW r \in Runners, NEW verdict \in Outcomes,
         pc[r] \in Holding, Marked(key[r], verdict), Proceed(r, verdict),
         UNCHANGED <<schedule, claims, published, reaped>>
  PROVE  Telling'
<1>1. PICK k \in Keys : k = key[r]
  BY DEF TypeOK, Keyed
<1>2. PICK e \in Events : e.kind = verdict /\ e.key = k /\ e = [kind |-> verdict, key |-> key[r]]
  BY <1>1 DEF Events, Outcomes
<1>3. /\ claims[k] = 1
      /\ Live(k[1]) => HasRow(k)
      /\ \A x \in Runners : Holds(x, k) => x = r
  BY <1>1 DEF Ownership, HoldersOwnTicks, RowsRememberClaims, Holds
<1>4. \A x \in Keys : tick'[x].status = IF x = k /\ HasRow(x) THEN verdict ELSE tick[x].status
  BY <1>1 DEF Marked, TypeOK, TickRow
<1>5. /\ \A x \in Runners, y \in Keys : Holds(x, y)' => Holds(x, y)
      /\ \A x \in Runners : ~Holds(x, k)'
  <2>1. pc'[r] \notin Holding /\ \A x \in Runners : x # r => pc'[x] = pc[x] /\ key'[x] = key[x]
    BY DEF Proceed, RequestEnds, TypeOK, Holding
  <2> QED BY <1>1, <1>3, <2>1 DEF Holds
<1>6. /\ Told(k) \cap Outcomes = {}
      /\ \A u \in Units : \A f \in Kept(u) : f.key = k => u = r /\ f.kind = "claimed"
  <2>1. Holds(r, k)
    BY <1>1 DEF Holds
  <2> QED BY <1>1, <2>1 DEF Telling, ToldIsTrue, KeptIsTrue
<1>7. \A x : Told(x)' = Told(x)
  BY DEF Told, Mem
<1>8. \A u \in Units : \A f \in Kept(u) : f.key \in Keys
  BY KeptTypes
<1>9. ASSUME NEW u \in Units
      PROVE  \/ outbox'[u] = outbox[u]
             \/ u = r /\ outbox'[u] = Append(outbox[u], e)
  BY <1>1, <1>2 DEF Proceed, RequestEnds, TypeOK
<1>10. ASSUME NEW u \in Units
       PROVE  /\ KeptInOrder(u)'
              /\ Kept(u)' = Kept(u) \/ (u = r /\ Kept(u)' = Kept(u) \cup {e})
  <2>1. KeptInOrder(u) /\ outbox[u] \in Seq(Events)
    BY DEF Telling, TypeOK
  <2>2. CASE outbox'[u] = outbox[u]
    BY <2>1, <2>2 DEF KeptInOrder, Distinct, Kept, Mem
  <2>3. CASE u = r /\ outbox'[u] = Append(outbox[u], e)
    <3>1. e \notin Kept(u)
      BY <1>2, <1>6 DEF Outcomes
    <3>2. /\ Mem(Append(outbox[u], e)) = Kept(u) \cup {e}
          /\ Distinct(Append(outbox[u], e))
      BY <1>2, <2>1, <3>1, MemOfAppend DEF Kept, KeptInOrder
    <3>3. /\ Len(outbox'[u]) = Len(outbox[u]) + 1 /\ Len(outbox[u]) \in Nat
          /\ outbox'[u][Len(outbox[u]) + 1] = e
          /\ \A i \in 1 .. Len(outbox[u]) : outbox'[u][i] = outbox[u][i]
      BY <1>2, <2>1, <2>3
    <3>4. ASSUME NEW i \in 1 .. Len(outbox'[u]), NEW j \in 1 .. Len(outbox'[u]),
                 outbox'[u][i].kind \in Outcomes, outbox'[u][j].kind = "claimed",
                 outbox'[u][i].key = outbox'[u][j].key
          PROVE  j < i
      <4>1. j \in 1 .. Len(outbox[u])
        BY <1>2, <3>3, <3>4 DEF Outcomes
      <4>2. CASE i = Len(outbox[u]) + 1
        BY <3>3, <4>1, <4>2
      <4>3. CASE i \in 1 .. Len(outbox[u])
        BY <2>1, <3>3, <3>4, <4>1, <4>3 DEF KeptInOrder
      <4> QED BY <3>3, <4>2, <4>3
    <3> QED BY <2>3, <3>2, <3>4 DEF KeptInOrder, Kept
  <2> QED BY <1>9, <2>2, <2>3
<1>11. ASSUME NEW x \in Keys PROVE ToldInOrder(x)' /\ ToldIsTrue(x)'
  <2>1. ToldInOrder(x) /\ ToldIsTrue(x)
    BY DEF Telling
  <2>2. ToldInOrder(x)'
    BY <2>1 DEF ToldInOrder, Distinct
  <2>3. ToldIsTrue(x)'
    <3>1. CASE x = k
      BY <1>3, <1>4, <1>6, <1>7, <2>1, <3>1 DEF ToldIsTrue, Outcomes
    <3>2. CASE x # k
      BY <1>4, <1>5, <1>7, <2>1, <3>2 DEF ToldIsTrue, Live
    <3> QED BY <3>1, <3>2
  <2> QED BY <2>2, <2>3
<1>12. ASSUME NEW u \in Units, NEW f \in Kept(u)' PROVE KeptIsTrue(u, f)'
  <2>1. \A v \in Units : \A g \in Kept(v)' : g.key = f.key => v = u
    <3> SUFFICES ASSUME NEW v \in Units, NEW g \in Kept(v)', g.key = f.key PROVE v = u
      OBVIOUS
    <3>1. (g \in Kept(v) \/ (v = r /\ g = e)) /\ (f \in Kept(u) \/ (u = r /\ f = e))
      BY <1>10, <1>12
    <3> QED BY <1>2, <1>6, <3>1 DEF Telling, KeptIsTrue
  <2>2. CASE f \in Kept(u)
    <3>1. KeptIsTrue(u, f) /\ f.key \in Keys
      BY <1>8, <2>2 DEF Telling
    <3>2. f.kind \in Outcomes /\ Live(f.key[1])' => tick'[f.key].status = f.kind
      BY <1>4, <1>6, <2>2, <3>1 DEF KeptIsTrue, Live, Outcomes
    <3> QED BY <1>5, <1>7, <2>1, <3>1, <3>2 DEF KeptIsTrue
  <2>3. CASE u = r /\ f = e
    <3>1. verdict \notin Told(k) /\ verdict # "claimed"
      BY <1>6 DEF Outcomes
    <3>2. Live(k[1])' => tick'[k].status = verdict
      BY <1>3, <1>4 DEF Live
    <3> QED BY <1>2, <1>3, <1>5, <1>7, <2>1, <2>3, <3>1, <3>2 DEF KeptIsTrue
  <2> QED BY <1>10, <1>12, <2>2, <2>3
<1>13. ASSUME NEW w \in Workers, NEW x \in reaped'[w] PROVE ReapedIsTrue(w, x)'
  <2>1. ReapedIsTrue(w, x) /\ x \in Keys
    BY <1>13 DEF Telling, TypeOK
  <2>2. tick'[x].status # "claimed"
    BY <1>4, <2>1 DEF ReapedIsTrue, Outcomes
  <2> QED BY <1>7, <2>1, <2>2 DEF ReapedIsTrue
<1> QED BY <1>10, <1>11, <1>12, <1>13 DEF Telling

\* Every step leaves what is told true.
LEMMA NextTelling ==
  ASSUME TypeOK, Ownership, Telling, [Next]_vars
  PROVE  Telling'
<1> USE DEF dbVars, loopVars, runnerVars, history
<1>1. CASE UNCHANGED vars \/ Advance
  BY <1>1, TellingRests DEF NoNews, vars, Advance, Live
<1>2. ASSUME NEW s \in Schedules, CreateSchedule(s) PROVE Telling'
  <2>1. /\ UNCHANGED <<tick, claims, published, outbox, reaped, pc, key>>
        /\ schedule[s].state = "absent"
        /\ \A x \in Schedules : x # s => schedule'[x] = schedule[x]
    BY <1>2 DEF CreateSchedule, TypeOK
  <2>2. \A k \in Keys : k[1] \in Schedules /\ (claims[k] = 1 => k[1] # s)
    BY <2>1 DEF Ownership, RowsRememberClaims, Keys
  <2> QED BY <2>1, <2>2, TellingRests DEF NoNews, Live
<1>3. ASSUME NEW s \in Schedules, DeleteSchedule(s) PROVE Telling'
  <2>1. /\ UNCHANGED <<claims, published, outbox, reaped, pc, key>>
        /\ schedule'[s].state = "deleted"
        /\ \A x \in Schedules : x # s => schedule'[x] = schedule[x]
        /\ \A k \in Keys : tick'[k] = IF k[1] = s THEN NoRow ELSE tick[k]
    BY <1>3 DEF DeleteSchedule, TypeOK
  <2>2. NoRow.status = "none" /\ \A k \in Keys : k[1] \in Schedules
    BY DEF NoRow, Keys
  <2> QED BY <2>1, <2>2, TellingRests DEF NoNews, Live
<1>4. ASSUME NEW s \in Schedules, NEW b \in BOOLEAN, SetPaused(s, b) PROVE Telling'
  <2>1. \A x \in Schedules : schedule'[x].state = schedule[x].state
    BY <1>4 DEF SetPaused, TypeOK, ScheduleRow
  <2>2. \A k \in Keys : k[1] \in Schedules
    BY DEF Keys
  <2> QED BY <1>4, <2>1, <2>2, TellingRests DEF SetPaused, NoNews, Live
<1>5. ASSUME NEW w \in Workers, Boot(w) \/ Stop(w) \/ LoopStep(w) PROVE Telling'
  <2>1. CASE Stop(w)
    <3>1. /\ UNCHANGED <<schedule, tick, claims, published>>
          /\ \A u \in Units : outbox'[u] = outbox[u] \/ outbox'[u] = <<>>
          /\ \A x \in Workers : reaped'[x] \subseteq reaped[x]
      BY <2>1 DEF Stop, TypeOK
    <3>2. \A r \in Runners : pc'[r] \in Holding => pc'[r] = pc[r] /\ key'[r] = key[r]
      BY <2>1 DEF Stop, TypeOK, Holding
    <3> QED BY <3>1, <3>2, TellingRests DEF NoNews, Live
  <2>2. CASE FanOut(w) \/ EndSweep(w)
    <3>1. \A r \in Runners : pc'[r] \in Holding => pc'[r] = pc[r] /\ key'[r] = key[r]
      BY <2>2 DEF FanOut, EndSweep, TypeOK, Holding
    <3> QED BY <2>2, <3>1, TellingRests DEF FanOut, EndSweep, NoNews, Live
  <2>3. CASE Boot(w) \/ SkipReap(w) \/ SkipFanOut(w) \/ Join(w)
    BY <2>3, TellingRests DEF Boot, SkipReap, SkipFanOut, Join, NoNews, Live
  <2> QED BY <1>5, <2>1, <2>2, <2>3, TellingOfReap, TellingOfReaped, TellingOfEvent DEF LoopStep
<1>6. ASSUME NEW w \in Workers, NEW p \in Projects, Discover(w, p) \/ SkipUnit(w, p) PROVE Telling'
  <2>1. \A r \in Runners : pc'[r] \in Holding => pc'[r] = pc[r] /\ key'[r] = key[r]
    BY <1>6 DEF Discover, SkipUnit, TypeOK, Holding
  <2> QED BY <1>6, <2>1, TellingRests DEF Discover, SkipUnit, NoNews, Live
<1>7. ASSUME NEW u \in Units, ClaimWon(u) PROVE Telling'
  <2>1. PICK k \in due[u] :
          /\ Claim(k, FALSE, u)
          /\ outbox' = [outbox EXCEPT ![u] = Append(@, [kind |-> "claimed", key |-> k])]
    BY <1>7 DEF ClaimWon
  <2>2. k \in Keys /\ u \in Runners /\ UNCHANGED <<schedule, published, reaped>>
    BY <1>7 DEF TypeOK, Runners, ClaimWon
  <2> QED BY <2>1, <2>2, TellingOfClaim
<1>8. ASSUME NEW u \in Units, ClaimLost(u) \/ UnitDone(u) PROVE Telling'
  <2>1. \A r \in Runners : pc'[r] \in Holding => pc'[r] = pc[r] /\ key'[r] = key[r]
    BY <1>8 DEF ClaimLost, UnitDone, TypeOK, Holding
  <2> QED BY <1>8, <2>1, TellingRests DEF ClaimLost, UnitDone, NoNews, Live
<1>9. ASSUME NEW u \in Units, ClaimRejected(u) \/ BreakUnit(u) PROVE Telling'
  <2>1. UnitFails(u) /\ UNCHANGED <<schedule, tick, claims, published, reaped>>
    BY <1>9 DEF ClaimRejected, BreakUnit
  <2>2. /\ \A r \in Runners : pc'[r] \in Holding => pc'[r] = pc[r] /\ key'[r] = key[r]
        /\ \A v \in Units : outbox'[v] = outbox[v] \/ outbox'[v] = <<>>
    BY <2>1 DEF UnitFails, TypeOK, Holding
  <2> QED BY <2>1, <2>2, TellingRests DEF NoNews, Live
<1>10. ASSUME NEW q \in Requests, RunNowClaims(q) PROVE Telling'
  <2>1. key[q] \in Keys /\ q \in Runners
    BY <1>10 DEF RunNowClaims, TypeOK, Runners, Keyed
  <2>2. Claim(key[q], TRUE, q) /\ UNCHANGED <<schedule, published, reaped, outbox>>
    BY <1>10 DEF RunNowClaims
  <2> QED BY <2>1, <2>2, TellingOfClaim
<1>11. ASSUME NEW q \in Requests,
              \/ \E s \in Schedules : StartRunNow(q, s)
              \/ RunNowRefused(q) \/ BreakRequest(q)
       PROVE  Telling'
  <2>1. \A r \in Runners : pc'[r] \in Holding => pc'[r] = pc[r] /\ key'[r] = key[r]
    BY <1>11 DEF StartRunNow, RunNowRefused, BreakRequest, RequestEnds, TypeOK, Holding
  <2>2. UNCHANGED <<schedule, tick, claims, published, reaped, outbox>>
    BY <1>11 DEF StartRunNow, RunNowRefused, BreakRequest, RequestEnds
  <2> QED BY <2>1, <2>2, TellingRests DEF NoNews, Live
<1>12. ASSUME NEW r \in Runners, RunStep(r) PROVE Telling'
  <2>1. CASE MarkCompleted(r) \/ MarkFailed(r)
    <3>1. PICK verdict \in Outcomes :
            /\ pc[r] \in Holding /\ Marked(key[r], verdict) /\ Proceed(r, verdict)
            /\ UNCHANGED <<schedule, claims, published, reaped>>
      BY <2>1 DEF MarkCompleted, MarkFailed, Outcomes, Holding
    <3> QED BY <3>1, TellingOfMark
  <2>2. CASE EmptyMatrix(r) \/ FailMatrix(r) \/ RunMatrix(r) \/ PersistRow(r) \/ FailPersist(r)
    <3>1. \A x \in Runners : pc'[x] \in Holding => pc[x] \in Holding /\ key'[x] = key[x]
      BY <2>2 DEF EmptyMatrix, FailMatrix, RunMatrix, PersistRow, FailPersist, TypeOK, Holding
    <3>2. UNCHANGED <<schedule, tick, claims, published, reaped, outbox>>
      BY <2>2 DEF EmptyMatrix, FailMatrix, RunMatrix, PersistRow, FailPersist
    <3> QED BY <3>1, <3>2, TellingRests DEF NoNews, Live
  <2> QED BY <1>12, <2>1, <2>2 DEF RunStep
<1> QED BY <1>1, <1>2, <1>3, <1>4, <1>5, <1>6, <1>7, <1>8, <1>9, <1>10, <1>11, <1>12
        DEF Next, ClaimStep

\* What subscribers are told about a tick agrees with the table (dispatch.rs, run.rs): no
\* event twice, "claimed" never after an outcome, and an outcome is the row's status, with
\* any number of workers, crashes, dropped units and late marks.
THEOREM EventsAreTrue == Spec => []EventsTell
<1>1. Init => Telling
  <2> SUFFICES ASSUME Init PROVE Telling
    OBVIOUS
  <2>1. /\ \A k \in Keys : published[k] = <<>> /\ Told(k) = {}
        /\ \A u \in Units : outbox[u] = <<>> /\ Kept(u) = {}
        /\ \A w \in Workers : reaped[w] = {}
    BY DEF Init, Told, Kept, Mem
  <2> QED BY <2>1 DEF Telling, ToldInOrder, ToldIsTrue, KeptInOrder, Distinct
<1>2. TypeOK /\ Telling => EventsTell
  <2> SUFFICES ASSUME TypeOK, Telling, NEW k \in Keys
               PROVE  LET told == published[k] IN
                      /\ \A i, j \in DOMAIN told : told[i] = told[j] => i = j
                      /\ \A i, j \in DOMAIN told : told[i] \in Outcomes /\ told[j] = "claimed" => j < i
                      /\ \A i \in DOMAIN told :
                           told[i] \in Outcomes /\ Live(k[1]) => tick[k].status = told[i]
    BY DEF EventsTell
  <2>1. ToldInOrder(k) /\ ToldIsTrue(k)
    BY DEF Telling
  <2>2. DOMAIN published[k] = 1 .. Len(published[k])
    BY DEF TypeOK
  <2>3. \A i \in DOMAIN published[k] : published[k][i] \in Told(k)
    BY <2>2 DEF Told, Mem
  <2> QED BY <2>1, <2>2, <2>3 DEF ToldInOrder, ToldIsTrue, Distinct
<1> QED BY <1>1, <1>2, NextTelling, TypeCorrect, TicksAreOwned, PTL DEF Spec

-----------------------------------------------------------------------------
(* Verdicts, and the implementation of TickLedger *)

\* Nothing that the ledger looks at changes.
LedgerStutters ==
  /\ UNCHANGED <<tick, execs>>
  /\ \A s \in Schedules : schedule'[s].state = "deleted" <=> schedule[s].state = "deleted"

\* The steps that touch what the ledger looks at.
LEMMA LedgerSteps ==
  ASSUME TypeOK, Next
  PROVE  \/ LedgerStutters
         \/ \E s \in Schedules : DeleteSchedule(s)
         \/ \E w \in Workers : ReapOrphans(w)
         \/ \E r \in Runners, k \in Keys, by_hand \in BOOLEAN :
              Claim(k, by_hand, r) /\ UNCHANGED <<schedule, execs>>
         \/ \E r \in Runners : RunMatrix(r)
         \/ \E r \in Runners, verdict \in Outcomes :
              pc[r] \in Holding /\ Marked(key[r], verdict) /\ UNCHANGED <<schedule, execs>>
<1> DEFINE Goal ==
         \/ LedgerStutters
         \/ \E s \in Schedules : DeleteSchedule(s)
         \/ \E w \in Workers : ReapOrphans(w)
         \/ \E r \in Runners, k \in Keys, by_hand \in BOOLEAN :
              Claim(k, by_hand, r) /\ UNCHANGED <<schedule, execs>>
         \/ \E r \in Runners : RunMatrix(r)
         \/ \E r \in Runners, verdict \in Outcomes :
              pc[r] \in Holding /\ Marked(key[r], verdict) /\ UNCHANGED <<schedule, execs>>
<1> USE DEF dbVars, loopVars, runnerVars, history
<1>1. CASE Advance
  BY <1>1 DEF Advance, LedgerStutters
<1>2. ASSUME NEW s \in Schedules, CreateSchedule(s) PROVE LedgerStutters
  BY <1>2 DEF CreateSchedule, LedgerStutters, TypeOK
<1>3. ASSUME NEW s \in Schedules, NEW b \in BOOLEAN, SetPaused(s, b) PROVE LedgerStutters
  <2>1. \A x \in Schedules : schedule'[x].state = schedule[x].state
    BY <1>3 DEF SetPaused, TypeOK, ScheduleRow
  <2> QED BY <1>3, <2>1 DEF SetPaused, LedgerStutters
<1>4. ASSUME NEW w \in Workers, Boot(w) \/ Stop(w) \/ LoopStep(w) PROVE Goal
  BY <1>4 DEF Boot, Stop, LoopStep, SkipReap, PublishReaped, FanOut, SkipFanOut, Join,
              PublishEvent, EndSweep, LedgerStutters
<1>5. ASSUME NEW w \in Workers, NEW p \in Projects, Discover(w, p) \/ SkipUnit(w, p)
      PROVE  LedgerStutters
  BY <1>5 DEF Discover, SkipUnit, LedgerStutters
<1>6. ASSUME NEW u \in Units, ClaimStep(u) \/ BreakUnit(u) PROVE Goal
  <2>1. CASE ClaimWon(u)
    <3>1. PICK k \in due[u] : Claim(k, FALSE, u) /\ UNCHANGED <<schedule, execs>>
      BY <2>1 DEF ClaimWon
    <3>2. k \in Keys /\ u \in Runners
      BY DEF TypeOK, Runners
    <3> QED BY <3>1, <3>2
  <2>2. CASE ~ClaimWon(u)
    BY <1>6, <2>2 DEF ClaimStep, ClaimLost, ClaimRejected, UnitDone, BreakUnit, LedgerStutters
  <2> QED BY <2>1, <2>2
<1>7. ASSUME NEW q \in Requests,
             \/ \E s \in Schedules : StartRunNow(q, s)
             \/ RunNowClaims(q) \/ RunNowRefused(q) \/ BreakRequest(q)
      PROVE  Goal
  <2>1. CASE RunNowClaims(q)
    <3>1. q \in Runners /\ key[q] \in Keys
      BY <2>1 DEF RunNowClaims, TypeOK, Runners, Keyed
    <3>2. Claim(key[q], TRUE, q) /\ UNCHANGED <<schedule, execs>>
      BY <2>1 DEF RunNowClaims
    <3> QED BY <3>1, <3>2
  <2>2. CASE ~RunNowClaims(q)
    BY <1>7, <2>2 DEF StartRunNow, RunNowRefused, BreakRequest, LedgerStutters
  <2> QED BY <2>1, <2>2
<1>8. ASSUME NEW r \in Runners, RunStep(r) PROVE Goal
  <2>1. CASE MarkCompleted(r)
    <3>1. /\ pc[r] \in Holding /\ "completed" \in Outcomes
          /\ Marked(key[r], "completed") /\ UNCHANGED <<schedule, execs>>
      BY <2>1 DEF MarkCompleted, Holding, Outcomes
    <3> QED BY <3>1
  <2>2. CASE MarkFailed(r)
    <3>1. /\ pc[r] \in Holding /\ "failed" \in Outcomes
          /\ Marked(key[r], "failed") /\ UNCHANGED <<schedule, execs>>
      BY <2>2 DEF MarkFailed, Holding, Outcomes
    <3> QED BY <3>1
  <2>3. CASE EmptyMatrix(r) \/ FailMatrix(r) \/ PersistRow(r) \/ FailPersist(r)
    BY <2>3 DEF EmptyMatrix, FailMatrix, PersistRow, FailPersist, LedgerStutters
  <2> QED BY <1>8, <2>1, <2>2, <2>3 DEF RunStep
<1> HIDE DEF Goal
<1>9. Goal
  BY <1>1, <1>2, <1>3, <1>4, <1>5, <1>6, <1>7, <1>8 DEF Next, Goal
<1> QED BY <1>9 DEF Goal

\* No step rewrites a verdict: the reaper selects claimed rows only, and whoever
\* marks a tick holds it, which nobody does once it is settled.
LEMMA VerdictStays ==
  ASSUME TypeOK, Ownership, Next, NEW k \in Keys, tick[k].status \in Outcomes
  PROVE  tick'[k] = tick[k] \/ schedule'[k[1]].state = "deleted"
<1>1. CASE LedgerStutters
  BY <1>1 DEF LedgerStutters
<1>2. ASSUME NEW s \in Schedules, DeleteSchedule(s)
      PROVE  tick'[k] = tick[k] \/ schedule'[k[1]].state = "deleted"
  BY <1>2 DEF DeleteSchedule, TypeOK, Keys
<1>3. ASSUME NEW w \in Workers, ReapOrphans(w) PROVE tick'[k] = tick[k]
  BY <1>3 DEF ReapOrphans, Stale, Outcomes
<1>4. ASSUME NEW r \in Runners, NEW x \in Keys, NEW by_hand \in BOOLEAN, Claim(x, by_hand, r)
      PROVE  tick'[k] = tick[k]
  BY <1>4 DEF Claim, HasRow, TypeOK, Outcomes
<1>5. ASSUME NEW r \in Runners, RunMatrix(r) PROVE tick'[k] = tick[k]
  BY <1>5 DEF RunMatrix, dbVars
<1>6. ASSUME NEW r \in Runners, NEW verdict \in Outcomes,
             pc[r] \in Holding, Marked(key[r], verdict)
      PROVE  tick'[k] = tick[k]
  <2>1. key[r] # k
    BY <1>6 DEF Ownership, HoldersOwnTicks, HasRow, Outcomes
  <2> QED BY <1>6, <2>1 DEF Marked, TypeOK
<1> QED BY <1>1, <1>2, <1>3, <1>4, <1>5, <1>6, LedgerSteps

\* A tick marked completed or failed keeps its verdict until its schedule is
\* deleted (dispatch.rs mark_tick, worker.rs reap_orphans).
THEOREM VerdictsAreFinal == Spec => SettledIsFinal
<1>1. TypeOK /\ Ownership /\ [Next]_vars =>
        [\A k \in Keys : tick[k].status \in Outcomes =>
            tick'[k] = tick[k] \/ schedule'[k[1]].state = "deleted"]_vars
  BY VerdictStays
<1> QED BY <1>1, TypeCorrect, TicksAreOwned, PTL DEF Spec, SettledIsFinal

\* Every step of the scheduler is a step of the ledger, or none.
LEMMA StepsFollowLedger ==
  ASSUME TypeOK, Ownership, Next
  PROVE  Ledger!LedgerNext \/ UNCHANGED Ledger!ledger
<1> DEFINE status == [k \in Keys |-> StatusOf(k)]
<1>1. CASE LedgerStutters
  <2>1. \A k \in Keys : StatusOf(k)' = StatusOf(k)
    BY <1>1 DEF LedgerStutters, StatusOf, Keys
  <2>2. status' = status
    BY <2>1
  <2> QED BY <1>1, <2>2 DEF LedgerStutters, Ledger!ledger
<1>2. ASSUME NEW s \in Schedules, DeleteSchedule(s) PROVE Ledger!LedgerNext
  <2> DEFINE erased == {k \in Keys : k[1] = s}
  <2>1. \A k \in Keys : StatusOf(k)' = IF k \in erased THEN "gone" ELSE StatusOf(k)
    BY <1>2 DEF DeleteSchedule, StatusOf, TypeOK, Keys
  <2>2. status' = [k \in Keys |-> IF k \in erased THEN "gone" ELSE status[k]]
    BY <2>1
  <2>3. UNCHANGED execs
    BY <1>2 DEF DeleteSchedule, history
  <2>4. Ledger!Erase(erased)
    BY <2>2, <2>3 DEF Ledger!Erase
  <2>5. erased \in SUBSET Keys
    OBVIOUS
  <2> QED BY <2>4, <2>5 DEF Ledger!LedgerNext
<1>3. ASSUME NEW w \in Workers, ReapOrphans(w) PROVE Ledger!LedgerNext
  <2>1. Stale \in SUBSET Keys
    BY DEF Stale
  <2>2. \A k \in Stale : StatusOf(k) = "claimed"
    BY DEF Stale, StatusOf, Ownership, RowsRememberClaims, Live, HasRow
  <2>3. \A k \in Keys : tick'[k].status = IF k \in Stale THEN "rolled_forward" ELSE tick[k].status
    BY <1>3 DEF ReapOrphans, TypeOK, TickRow
  <2>4. UNCHANGED <<schedule, execs>>
    BY <1>3 DEF ReapOrphans, history
  <2>5. \A k \in Keys : StatusOf(k)' = IF k \in Stale THEN "rolled_forward" ELSE StatusOf(k)
    BY <2>2, <2>3, <2>4 DEF StatusOf
  <2>6. status' = [k \in Keys |-> IF k \in Stale THEN "rolled_forward" ELSE status[k]]
    BY <2>5
  <2>7. Ledger!RollForward(Stale)
    BY <2>1, <2>2, <2>4, <2>6 DEF Ledger!RollForward
  <2> QED BY <2>1, <2>7 DEF Ledger!LedgerNext
<1>4. ASSUME NEW r \in Runners, NEW k \in Keys, NEW by_hand \in BOOLEAN,
             Claim(k, by_hand, r), UNCHANGED <<schedule, execs>>
      PROVE  Ledger!LedgerNext
  <2>1. StatusOf(k) = "none" /\ execs[k] = 0
    BY <1>4 DEF Claim, StatusOf, Live, HasRow, Ownership, RowsRememberClaims, TypeOK
  <2>2. \A x \in Keys : StatusOf(x)' = IF x = k THEN "claimed" ELSE StatusOf(x)
    BY <1>4 DEF Claim, StatusOf, Live, TypeOK
  <2>3. status' = [status EXCEPT ![k] = "claimed"]
    BY <2>2
  <2>4. Ledger!ClaimTick(k)
    BY <1>4, <2>1, <2>3 DEF Ledger!ClaimTick
  <2> QED BY <2>4 DEF Ledger!LedgerNext
<1>5. ASSUME NEW r \in Runners, RunMatrix(r) PROVE Ledger!LedgerNext
  <2>1. key[r] \in Keys /\ execs[key[r]] = 0 /\ claims[key[r]] = 1
    BY <1>5 DEF RunMatrix, Ownership, HoldersOwnTicks, TypeOK, Keyed, Holding
  <2>2. StatusOf(key[r]) \in {"claimed", "rolled_forward", "gone"}
    <3>1. schedule[key[r][1]].state \in {"absent", "live", "deleted"}
      BY <2>1 DEF TypeOK, ScheduleRow, Keys
    <3>2. schedule[key[r][1]].state # "absent"
      BY <2>1 DEF Ownership, RowsRememberClaims
    <3>3. schedule[key[r][1]].state = "live" =>
            tick[key[r]].status \in {"claimed", "rolled_forward"}
      BY <1>5, <2>1 DEF RunMatrix, Holding, Ownership, RowsRememberClaims, HoldersOwnTicks, Live
    <3> QED BY <3>1, <3>2, <3>3 DEF StatusOf
  <2>3. execs' = [execs EXCEPT ![key[r]] = 1]
    BY <1>5, <2>1 DEF RunMatrix, TypeOK
  <2>4. UNCHANGED <<schedule, tick>>
    BY <1>5 DEF RunMatrix, dbVars
  <2>5. status' = status
    BY <2>4 DEF StatusOf
  <2>6. Ledger!Execute(key[r])
    BY <2>1, <2>2, <2>3, <2>5 DEF Ledger!Execute, Ledger!Open
  <2> QED BY <2>1, <2>6 DEF Ledger!LedgerNext
<1>6. ASSUME NEW r \in Runners, NEW verdict \in Outcomes, pc[r] \in Holding,
             Marked(key[r], verdict), UNCHANGED <<schedule, execs>>
      PROVE  Ledger!LedgerNext \/ UNCHANGED Ledger!ledger
  <2>1. key[r] \in Keys
    BY <1>6 DEF TypeOK, Keyed
  <2>2. CASE ~HasRow(key[r])
    <3>1. tick' = tick
      BY <1>6, <2>2, <2>1 DEF Marked, TypeOK
    <3>2. status' = status
      BY <1>6, <3>1 DEF StatusOf
    <3> QED BY <1>6, <3>2 DEF Ledger!ledger
  <2>3. CASE HasRow(key[r])
    <3>1. StatusOf(key[r]) \in {"claimed", "rolled_forward"}
      BY <1>6, <2>1, <2>3 DEF StatusOf, Ownership, HoldersOwnTicks, RowsRememberClaims, Live
    <3>2. \A x \in Keys : tick'[x].status = IF x = key[r] THEN verdict ELSE tick[x].status
      BY <1>6, <2>1, <2>3 DEF Marked, TypeOK, TickRow
    <3>3. \A x \in Keys : StatusOf(x)' = IF x = key[r] THEN verdict ELSE StatusOf(x)
      BY <1>6, <3>1, <3>2 DEF StatusOf
    <3>4. status' = [status EXCEPT ![key[r]] = verdict]
      BY <3>3
    <3>5. Ledger!Settle(key[r], verdict)
      BY <1>6, <2>1, <3>1, <3>4 DEF Ledger!Settle, Ledger!Open
    <3> QED BY <2>1, <3>5 DEF Ledger!LedgerNext, Outcomes
  <2> QED BY <2>2, <2>3
<1> QED BY <1>1, <1>2, <1>3, <1>4, <1>5, <1>6, LedgerSteps

\* The scheduler implements the life of a tick (TickLedger): one claim, at most one
\* execution and only before the verdict, one verdict.
THEOREM SchedulerFollowsLedger == Spec => TicksFollowLedger
<1>1. Init => Ledger!LedgerInit
  <2> SUFFICES ASSUME Init PROVE Ledger!LedgerInit
    OBVIOUS
  <2>1. \A k \in Keys : StatusOf(k) = "none"
    BY DEF Init, StatusOf, NoRow, Keys
  <2> QED BY <2>1 DEF Init, Ledger!LedgerInit
<1>2. TypeOK /\ Ownership /\ [Next]_vars => [Ledger!LedgerNext]_(Ledger!ledger)
  <2> SUFFICES ASSUME TypeOK, Ownership, [Next]_vars
               PROVE  Ledger!LedgerNext \/ UNCHANGED Ledger!ledger
    OBVIOUS
  <2>1. CASE UNCHANGED vars
    BY <2>1 DEF vars, dbVars, history, Ledger!ledger, StatusOf
  <2> QED BY <2>1, StepsFollowLedger
<1> QED BY <1>1, <1>2, TypeCorrect, TicksAreOwned, PTL DEF Spec, TicksFollowLedger, Ledger!LedgerSpec
=============================================================================
