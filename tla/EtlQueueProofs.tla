---------------------------- MODULE EtlQueueProofs ----------------------------
(***************************************************************************)
(* What holds of EtlQueue for every set of workers, commands, jobs and     *)
(* projects, and every order of rows and batch size.                       *)
(*                                                                         *)
(* The argument: TypeCorrect; JobsRunOnce from an invariant that ties the  *)
(* number of claims to the status; CheckpointIsBacked from one that says   *)
(* how the one runner of an untainted project stands to its checkpoint;    *)
(* BoundaryCutsConverge from these and a count of what is in flight.       *)
(***************************************************************************)
EXTENDS EtlQueue, FiniteSetTheorems, TLAPS

-----------------------------------------------------------------------------
(* Types *)

\* Any order in which the reads return rows is a sequence of rows (the materialised
\* row set of migrate_project_resumable).
LEMMA OrderingsType ==
  ASSUME NEW S \in SUBSET Rows, NEW s \in Orderings(S)
  PROVE  s \in Seq(Rows)
<1>1. Cardinality(S) \in Nat
  BY EtlConstants, FS_Subset, FS_CardinalityType
<1>2. s \in [1 .. Cardinality(S) -> Rows]
  BY DEF Orderings, Bijection, Injection, Surjection
<1> QED BY <1>1, <1>2

\* Leaving a job keeps the types of what a runner remembers.
LEMMA TypeOfLeave ==
  ASSUME TypeOK, NEW r \in Runners, NEW next \in {"off", "idle", "ended"} \cup Settling,
         Leave(r, next)
  PROVE  /\ pc' \in [Runners -> {"off", "idle", "ended"} \cup Migrating \cup Settling]
         /\ target' \in [Runners -> Projects \cup {Nobody}]
         /\ plan' \in [Runners -> Seq(Rows)]
         /\ last' \in [Runners -> Nat]
         /\ tangled' \subseteq Runners
         /\ cuts' \in [Projects -> Nat]
         /\ \A q \in Runners : pc'[q] \in Migrating => target'[q] \in Projects
<1> USE DEF TypeOK, Leave
<1>1. pc' \in [Runners -> {"off", "idle", "ended"} \cup Migrating \cup Settling]
  OBVIOUS
<1>2. target' \in [Runners -> Projects \cup {Nobody}] /\ last' \in [Runners -> Nat]
  OBVIOUS
<1>3. plan' \in [Runners -> Seq(Rows)]
  <2>1. <<>> \in Seq(Rows)
    OBVIOUS
  <2> QED BY <2>1
<1>4. tangled' \subseteq Runners
  OBVIOUS
<1>5. cuts' \in [Projects -> Nat]
  <2>1. CASE pc[r] \in {"totals", "advance"}
    <3>1. target[r] \in Projects
      BY <2>1 DEF Migrating
    <3> QED BY <2>1, <3>1
  <2>2. CASE pc[r] \notin {"totals", "advance"}
    BY <2>2
  <2> QED BY <2>1, <2>2
<1>6. \A q \in Runners : pc'[q] \in Migrating => target'[q] \in Projects
  BY DEF Migrating, Settling
<1> QED BY <1>1, <1>2, <1>3, <1>4, <1>5, <1>6

\* Starting a migration does, too.
LEMMA TypeOfBegin ==
  ASSUME TypeOK, NEW r \in Runners, NEW p \in Projects, Begin(r, p)
  PROVE  /\ pc' \in [Runners -> {"off", "idle", "ended"} \cup Migrating \cup Settling]
         /\ target' \in [Runners -> Projects \cup {Nobody}]
         /\ tangled' \subseteq Runners
         /\ tainted' \subseteq Projects
         /\ \A q \in Runners : pc'[q] \in Migrating => target'[q] \in Projects
BY DEF TypeOK, Begin, Migrating

\* The steps of the migration keep the types.
LEMMA TypeOfMigrationStep ==
  ASSUME TypeOK, NEW r \in Runners, MigrationStep(r)
  PROVE  TypeOK'
<1>1. CASE Materialise(r)
  <2>1. target[r] \in Projects
    BY <1>1 DEF TypeOK, Materialise, Migrating
  <2>2. PICK rows \in Orderings(source[target[r]]) : plan' = [plan EXCEPT ![r] = rows]
    BY <1>1 DEF Materialise
  <2>3. rows \in Seq(Rows)
    BY <2>1, <2>2, OrderingsType DEF TypeOK
  <2>4. plan' \in [Runners -> Seq(Rows)]
    BY <2>2, <2>3 DEF TypeOK
  <2> QED BY <1>1, <2>4 DEF TypeOK, Materialise, Migrating, postgres, history
<1>2. CASE ReadCheckpoint(r)
  <2>1. target[r] \in Projects
    BY <1>2 DEF TypeOK, ReadCheckpoint, Migrating
  <2>2. last' \in [Runners -> Nat] /\ tainted' \subseteq Projects
    <3>1. point[target[r]].done \in Nat
      BY <2>1 DEF TypeOK
    <3>2. \/ last' = last /\ tainted' = tainted
          \/ /\ last' = [last EXCEPT ![r] = point[target[r]].done]
             /\ tainted' \in {tainted, tainted \cup {target[r]}}
      BY <1>2 DEF ReadCheckpoint
    <3> QED BY <2>1, <3>1, <3>2 DEF TypeOK
  <2>3. PICK next \in {"points", "finish", "wipe_points"} : pc' = [pc EXCEPT ![r] = next]
    BY <1>2 DEF ReadCheckpoint, LoopAt
  <2> QED BY <1>2, <2>1, <2>2, <2>3 DEF TypeOK, ReadCheckpoint, Migrating, postgres
<1>3. CASE WipePoints(r)
  <2>1. target[r] \in Projects
    BY <1>3 DEF TypeOK, WipePoints, Migrating
  <2>2. stored' \in [Projects -> [Rows -> Nat]]
    BY <1>3, <2>1 DEF TypeOK, WipePoints
  <2> QED BY <1>3, <2>2 DEF TypeOK, WipePoints, Migrating, postgres, history
<1>4. CASE WipeTotals(r)
  <2>1. target[r] \in Projects
    BY <1>4 DEF TypeOK, WipeTotals, Migrating
  <2>2. stored' \in [Projects -> [Rows -> Nat]]
    BY <1>4, <2>1 DEF TypeOK, WipeTotals
  <2> QED BY <1>4, <2>2 DEF TypeOK, WipeTotals, Migrating, postgres, history
<1>5. CASE Reset(r)
  <2>1. target[r] \in Projects
    BY <1>5 DEF TypeOK, Reset, Migrating
  <2> QED BY <1>5, <2>1 DEF TypeOK, Reset, LoopAt, Migrating
<1>6. CASE SeedPoints(r)
  <2>1. target[r] \in Projects
    BY <1>6 DEF TypeOK, SeedPoints, Migrating
  <2>2. stored' \in [Projects -> [Rows -> Nat]]
    BY <1>6, <2>1 DEF TypeOK, SeedPoints, Seeded
  <2> QED BY <1>6, <2>2 DEF TypeOK, SeedPoints, Migrating, postgres, history
<1>7. CASE SeedTotals(r)
  <2>1. target[r] \in Projects
    BY <1>7 DEF TypeOK, SeedTotals, Migrating
  <2>2. stored' \in [Projects -> [Rows -> Nat]]
    BY <1>7, <2>1 DEF TypeOK, SeedTotals, Seeded
  <2> QED BY <1>7, <2>2 DEF TypeOK, SeedTotals, Migrating, postgres, history
<1>8. CASE Advance(r)
  <2>1. target[r] \in Projects
    BY <1>8 DEF TypeOK, Advance, Migrating
  <2>2. last[r] + 1 \in Nat
    BY DEF TypeOK
  <2>3. point' \in [Projects -> [state : {"none", "open", "finished"}, done : Nat]]
    BY <1>8, <2>1, <2>2 DEF TypeOK, Advance
  <2>4. last' \in [Runners -> Nat]
    BY <1>8, <2>2 DEF TypeOK, Advance
  <2>5. PICK next \in {"points", "finish"} : pc' = [pc EXCEPT ![r] = next]
    BY <1>8 DEF Advance, LoopAt
  <2> QED BY <1>8, <2>1, <2>3, <2>4, <2>5 DEF TypeOK, Advance, Migrating, history
<1>9. CASE Finish(r)
  <2>1. target[r] \in Projects
    BY <1>9 DEF TypeOK, Finish, Migrating
  <2>2. Leave(r, IF r \in Commands THEN "ended" ELSE "ok")
    BY <1>9 DEF Finish
  <2> HIDE DEF Leave
  <2>3. point' \in [Projects -> [state : {"none", "open", "finished"}, done : Nat]]
    BY <1>9, <2>1 DEF TypeOK, Finish
  <2>4. \A w \in Workers : pc'[w] \in Migrating \cup Settling => busy'[w] \in Jobs
    BY <1>9, EtlConstants DEF TypeOK, Finish, Leave, Migrating, Runners
  <2> QED BY <1>9, <2>2, <2>3, <2>4, TypeOfLeave DEF TypeOK, Finish, Settling
<1>10. CASE Fail(r)
  <2>1. Leave(r, IF r \in Commands THEN "ended" ELSE "bad")
    BY <1>10 DEF Fail
  <2>2. \A w \in Workers : pc'[w] \in Migrating \cup Settling => busy'[w] \in Jobs
    BY <1>10, EtlConstants DEF TypeOK, Fail, Leave, Migrating, Runners
  <2> QED BY <1>10, <2>1, <2>2, TypeOfLeave DEF TypeOK, Fail, postgres, Settling
<1> QED BY <1>1, <1>2, <1>3, <1>4, <1>5, <1>6, <1>7, <1>8, <1>9, <1>10 DEF MigrationStep

\* So do requests, changes of the data and what workers do with the queue.
LEMMA TypeOfQueueStep ==
  ASSUME TypeOK,
         \/ \E j \in Jobs : Enqueue(j)
         \/ \E p \in Projects, x \in Rows : SourceChanges(p, x)
         \/ \E w \in Workers : Boot(w) \/ Stop(w) \/ ClaimJob(w) \/ SettleStep(w)
         \/ \E c \in Commands, p \in Projects : CommandStarts(c, p)
  PROVE  TypeOK'
<1>1. ASSUME NEW j \in Jobs, Enqueue(j) PROVE TypeOK'
  <2>1. Cardinality({i \in Jobs : job[i] # "none"}) \in Nat
    BY EtlConstants, FS_Subset, FS_CardinalityType
  <2> QED BY <1>1, <2>1 DEF TypeOK, Enqueue, runnerVars, history
<1>2. ASSUME NEW p \in Projects, NEW x \in Rows, SourceChanges(p, x) PROVE TypeOK'
  BY <1>2 DEF TypeOK, SourceChanges, runnerVars, history
<1>3. ASSUME NEW w \in Workers, Boot(w) PROVE TypeOK'
  BY <1>3 DEF TypeOK, Boot, postgres, history, Migrating, Settling, Runners
<1>4. ASSUME NEW w \in Workers, Stop(w) PROVE TypeOK'
  <2>1. Leave(w, "off") /\ w \in Runners
    BY <1>4 DEF Stop, Runners
  <2>2. \A v \in Workers : pc'[v] \in Migrating \cup Settling => busy'[v] \in Jobs
    BY <1>4 DEF TypeOK, Stop, Leave, Migrating, Settling, Runners
  <2>3. lost' \subseteq Jobs
    BY <1>4, <2>1 DEF TypeOK, Stop
  <2> QED BY <1>4, <2>1, <2>2, <2>3, TypeOfLeave DEF TypeOK, Stop, postgres
<1>5. ASSUME NEW w \in Workers, ClaimJob(w) PROVE TypeOK'
  <2>1. PICK j \in Claimable :
          /\ job' = [job EXCEPT ![j] = "running"]
          /\ busy' = [busy EXCEPT ![w] = j]
          /\ starts' = [starts EXCEPT ![j] = @ + 1]
          /\ Begin(w, ProjectOf[j])
    BY <1>5 DEF ClaimJob
  <2>2. j \in Jobs /\ ProjectOf[j] \in Projects /\ w \in Runners
    BY EtlConstants DEF Claimable, Runners
  <2>3. \A v \in Workers : pc'[v] \in Migrating \cup Settling => busy'[v] \in Jobs
    BY <2>1, <2>2 DEF TypeOK, Begin, Runners
  <2>4. /\ job' \in [Jobs -> {"none", "pending", "running", "done", "failed"}]
        /\ starts' \in [Jobs -> Nat]
        /\ busy' \in [Runners -> Jobs \cup {Nobody}]
    BY <2>1, <2>2 DEF TypeOK
  <2>5. UNCHANGED <<asked, source, point, stored, plan, last, lost, goal, cuts>>
    BY <1>5 DEF ClaimJob
  <2> QED BY <2>1, <2>2, <2>3, <2>4, <2>5, TypeOfBegin DEF TypeOK
<1>6. ASSUME NEW w \in Workers, NEW status \in {"done", "failed"}, Marked(w, status),
             pc[w] \in Settling
      PROVE  TypeOK'
  <2>1. Leave(w, "idle") /\ w \in Runners
    BY <1>6 DEF Marked, Runners
  <2>2. \A v \in Workers : pc'[v] \in Migrating \cup Settling => busy'[v] \in Jobs
    BY <1>6 DEF TypeOK, Marked, Leave, Migrating, Settling, Runners
  <2> QED BY <1>6, <2>1, <2>2, TypeOfLeave DEF TypeOK, Marked
<1>7. ASSUME NEW w \in Workers, LoseMark(w) PROVE TypeOK'
  <2>1. Leave(w, "idle") /\ w \in Runners
    BY <1>7 DEF LoseMark, Runners
  <2>2. \A v \in Workers : pc'[v] \in Migrating \cup Settling => busy'[v] \in Jobs
    BY <1>7 DEF TypeOK, LoseMark, Leave, Migrating, Settling, Runners
  <2>3. lost' \subseteq Jobs
    BY <1>7 DEF TypeOK, LoseMark
  <2> QED BY <1>7, <2>1, <2>2, <2>3, TypeOfLeave DEF TypeOK, LoseMark, postgres
<1>8. ASSUME NEW c \in Commands, NEW p \in Projects, CommandStarts(c, p) PROVE TypeOK'
  <2>1. Begin(c, p) /\ c \in Runners
    BY <1>8 DEF CommandStarts, Runners
  <2>2. \A v \in Workers : pc'[v] \in Migrating \cup Settling => busy'[v] \in Jobs
    BY <1>8, EtlConstants DEF TypeOK, CommandStarts, Begin, Runners
  <2> QED BY <1>8, <2>1, <2>2, TypeOfBegin DEF TypeOK, CommandStarts, postgres
<1> QED
  BY <1>1, <1>2, <1>3, <1>4, <1>5, <1>6, <1>7, <1>8 DEF SettleStep, MarkDone, MarkFailed, Settling

\* The first state is well typed: nothing requested, every process down.
LEMMA TypeOfInit == Init => TypeOK
<1>1. <<>> \in Seq(Rows)
  OBVIOUS
<1> QED BY <1>1 DEF Init, TypeOK, Migrating, Settling, Runners

\* Every reachable state is well typed: a runner that migrates has a project, and a
\* worker that migrates or settles has a job (drain_etl_jobs).
THEOREM TypeCorrect == Spec => []TypeOK
<1>1. Init => TypeOK
  BY TypeOfInit
<1>2. TypeOK /\ [Next]_vars => TypeOK'
  <2> SUFFICES ASSUME TypeOK, [Next]_vars PROVE TypeOK'
    OBVIOUS
  <2>1. CASE UNCHANGED vars
    BY <2>1 DEF TypeOK, vars, postgres, runnerVars, history
  <2>2. CASE Next
    BY <2>2, TypeOfMigrationStep, TypeOfQueueStep DEF Next
  <2> QED BY <2>1, <2>2
<1> QED BY <1>1, <1>2, PTL DEF Spec

-----------------------------------------------------------------------------
(* The queue *)

\* The number of claims follows from the status, and a job in a worker's hands is
\* running and in nobody else's.
ClaimsCounted ==
  \A j \in Jobs : starts[j] = IF job[j] \in {"none", "pending"} THEN 0 ELSE 1

Held(w) ==
  busy[w] # Nobody =>
    /\ job[busy[w]] = "running"
    /\ \A v \in Workers : busy[v] = busy[w] => v = w

QueueInv == TypeOK /\ ClaimsCounted /\ \A w \in Workers : Held(w)

\* Steps that leave the queue alone.
LEMMA QueueUnchanged ==
  ASSUME QueueInv, TypeOK', UNCHANGED <<job, busy, starts>>
  PROVE  QueueInv'
BY DEF QueueInv, ClaimsCounted, Held

\* A worker lets go of its job, which may get its mark.
LEMMA QueueReleased ==
  ASSUME QueueInv, TypeOK', NEW w \in Workers,
         busy' = [busy EXCEPT ![w] = Nobody], starts' = starts,
         \/ job' = job
         \/ busy[w] # Nobody /\ \E status \in {"done", "failed"} :
              job' = [job EXCEPT ![busy[w]] = status]
  PROVE  QueueInv'
<1> USE DEF QueueInv
<1>1. w \in Runners /\ Workers \subseteq Runners
  BY DEF Runners
<1>2. busy[w] # Nobody => busy[w] \in Jobs /\ job[busy[w]] = "running"
  BY <1>1 DEF TypeOK, Held
<1>3. ClaimsCounted'
  BY <1>2 DEF TypeOK, ClaimsCounted
<1>4. ASSUME NEW v \in Workers PROVE Held(v)'
  <2>1. CASE v = w
    BY <1>1, <2>1 DEF TypeOK, Held
  <2>2. CASE v # w
    <3>1. busy'[v] = busy[v] /\ Held(v)
      BY <1>1, <2>2 DEF TypeOK
    <3>2. busy[v] # Nobody => busy[v] # busy[w]
      BY <2>2, <3>1 DEF Held
    <3>3. busy[v] # Nobody => job'[busy[v]] = job[busy[v]]
      BY <1>1, <1>2, <3>2 DEF TypeOK
    <3>4. \A u \in Workers : busy'[u] = busy[u] \/ busy'[u] = Nobody
      BY <1>1 DEF TypeOK
    <3> QED BY <3>1, <3>3, <3>4 DEF Held
  <2> QED BY <2>1, <2>2
<1> QED BY <1>3, <1>4

\* A claim takes a pending job, which nobody holds.
LEMMA QueueClaimed ==
  ASSUME QueueInv, TypeOK', NEW w \in Workers, ClaimJob(w)
  PROVE  QueueInv'
<1> USE DEF QueueInv
<1>1. PICK j \in Claimable :
        /\ job' = [job EXCEPT ![j] = "running"]
        /\ busy' = [busy EXCEPT ![w] = j]
        /\ starts' = [starts EXCEPT ![j] = @ + 1]
  BY DEF ClaimJob
<1>2. j \in Jobs /\ job[j] = "pending" /\ Workers \subseteq Runners
  BY DEF Claimable, Runners
<1>3. \A v \in Workers : busy[v] # j
  BY <1>2, EtlConstants DEF Held
<1>4. ClaimsCounted'
  BY <1>1, <1>2 DEF TypeOK, ClaimsCounted
<1>5. ASSUME NEW v \in Workers PROVE Held(v)'
  <2>1. CASE v = w
    BY <1>1, <1>2, <1>3, <2>1 DEF TypeOK, Held
  <2>2. CASE v # w
    BY <1>1, <1>2, <1>3, <2>2 DEF TypeOK, Held
  <2> QED BY <2>1, <2>2
<1> QED BY <1>4, <1>5

\* However many workers race for it, a job is claimed once and by one worker, and its
\* row says so while the worker has it (claim_etl_job).
THEOREM JobsAreRunOnce == Spec => []JobsRunOnce
<1>1. Init => QueueInv
  <2> SUFFICES ASSUME Init PROVE ClaimsCounted /\ \A w \in Workers : Held(w)
    BY TypeOfInit DEF QueueInv
  <2> QED BY DEF Init, ClaimsCounted, Held, Runners
<1>2. QueueInv /\ TypeOK' /\ [Next]_vars => QueueInv'
  <2> SUFFICES ASSUME QueueInv, TypeOK', [Next]_vars PROVE QueueInv'
    OBVIOUS
  <2>1. CASE UNCHANGED vars
    BY <2>1, QueueUnchanged DEF vars, postgres, runnerVars, history
  <2>2. ASSUME NEW j \in Jobs, Enqueue(j) PROVE QueueInv'
    <3>1. ClaimsCounted'
      BY <2>2 DEF Enqueue, QueueInv, TypeOK, ClaimsCounted, history
    <3>2. \A w \in Workers : Held(w)'
      BY <2>2 DEF Enqueue, QueueInv, TypeOK, Held, runnerVars, Runners
    <3> QED BY <3>1, <3>2 DEF QueueInv
  <2>3. ASSUME NEW p \in Projects, NEW x \in Rows, SourceChanges(p, x) PROVE QueueInv'
    BY <2>3, QueueUnchanged DEF SourceChanges, runnerVars, history
  <2>4. ASSUME NEW w \in Workers, Boot(w) PROVE QueueInv'
    BY <2>4, QueueUnchanged DEF Boot, postgres, history
  <2>5. ASSUME NEW w \in Workers, Stop(w) \/ LoseMark(w) PROVE QueueInv'
    BY <2>5, QueueReleased DEF Stop, LoseMark, postgres
  <2>6. ASSUME NEW w \in Workers, MarkDone(w) \/ MarkFailed(w) PROVE QueueInv'
    <3>1. busy[w] # Nobody
      BY <2>6, EtlConstants DEF MarkDone, MarkFailed, QueueInv, TypeOK, Settling
    <3> QED BY <2>6, <3>1, QueueReleased DEF MarkDone, MarkFailed, Marked
  <2>7. ASSUME NEW w \in Workers, ClaimJob(w) PROVE QueueInv'
    BY <2>7, QueueClaimed
  <2>8. ASSUME NEW c \in Commands, NEW p \in Projects, CommandStarts(c, p) PROVE QueueInv'
    BY <2>8, QueueUnchanged DEF CommandStarts, postgres
  <2>9. ASSUME NEW r \in Runners, MigrationStep(r) PROVE QueueInv'
    <3>1. UNCHANGED <<job, busy, starts>>
      BY <2>9 DEF MigrationStep, Materialise, ReadCheckpoint, WipePoints, WipeTotals, Reset,
         SeedPoints, SeedTotals, Advance, Finish, Fail, postgres, history
    <3> QED BY <3>1, QueueUnchanged
  <2> QED BY <2>1, <2>2, <2>3, <2>4, <2>5, <2>6, <2>7, <2>8, <2>9 DEF Next, SettleStep
<1>3. QueueInv => JobsRunOnce
  BY DEF QueueInv, ClaimsCounted, Held, JobsRunOnce
<1> QED BY <1>1, <1>2, <1>3, TypeCorrect, PTL DEF Spec

-----------------------------------------------------------------------------
(* The checkpoint *)

Wiping == {"wipe_points", "wipe_totals", "reset"}
Copying == {"points", "totals", "advance", "finish"}

\* Two runners on one project are entangled, and the project is tainted.
Entangled(q, r) ==
  (q # r /\ pc[q] \in Migrating /\ pc[r] \in Migrating /\ target[q] = target[r]) =>
    q \in tangled /\ target[q] \in tainted

\* While the one runner of a project wipes it, its checkpoint is not open.
WipesClosed(r) ==
  (pc[r] \in Wiping /\ target[r] \notin tainted) => point[target[r]].state # "open"

\* While it copies, its memory is what the checkpoint says, and what it has inserted
\* of the next batch is there.
CopiesOpen(r) ==
  (pc[r] \in Copying /\ target[r] \notin tainted) =>
    /\ point[target[r]].state = "open"
    /\ plan[r] = goal[target[r]]
    /\ last[r] = point[target[r]].done
    /\ pc[r] = "totals" => \A x \in Batch(r) \ Totals : stored[target[r]][x] >= 1
    /\ pc[r] = "advance" => \A x \in Batch(r) : stored[target[r]][x] >= 1

\* A runner is tangled only while it migrates, and its project is then tainted.
Tainting(r) == r \in tangled => pc[r] \in Migrating /\ target[r] \in tainted

\* A runner that nobody disturbed has removed what it has wiped.
WipedSoFar(r) ==
  r \notin tangled =>
    /\ pc[r] \in {"wipe_totals", "reset"} =>
         \A x \in Rows \ Totals : stored[target[r]][x] = 0
    /\ pc[r] = "reset" => \A x \in Totals : stored[target[r]][x] = 0

\* A runner finishes when no batch is left.
AtEnd(r) == pc[r] = "finish" => ~ (last[r] * BatchSize < Len(plan[r]))

\* An open migration has copied what it counts ...
Backed(p) ==
  (p \notin tainted /\ point[p].state = "open") =>
    \A x \in Covered(p, point[p].done) : stored[p][x] >= 1

\* ... and nothing but what it set out to copy.
Exact(p) ==
  (p \notin tainted /\ point[p].state = "open") =>
    \A x \in Rows : stored[p][x] > 0 => x \in Range(goal[p])

BackInv ==
  /\ TypeOK
  /\ \A q, r \in Runners : Entangled(q, r)
  /\ \A r \in Runners : WipesClosed(r) /\ CopiesOpen(r)
  /\ \A r \in Runners : Tainting(r) /\ WipedSoFar(r) /\ AtEnd(r)
  /\ \A p \in Projects : Backed(p) /\ Exact(p)

\* Steps after which every migrating runner is where it was: requests, boots and
\* runners that leave.
LEMMA BackOthers ==
  ASSUME BackInv, TypeOK', UNCHANGED <<point, stored, goal, tainted>>,
         \A r \in Runners : pc'[r] \in Migrating =>
           /\ pc'[r] = pc[r] /\ target'[r] = target[r]
           /\ plan'[r] = plan[r] /\ last'[r] = last[r]
           /\ r \in tangled => r \in tangled',
         \A r \in Runners : r \in tangled' =>
           r \in tangled /\ (pc[r] \in Migrating => pc'[r] \in Migrating)
  PROVE  BackInv'
<1>1. \A q, r \in Runners : Entangled(q, r)'
  BY DEF BackInv, Entangled
<1>2. ASSUME NEW r \in Runners PROVE WipesClosed(r)' /\ CopiesOpen(r)'
  <2>1. CASE pc'[r] \in Migrating
    BY <2>1 DEF BackInv, WipesClosed, CopiesOpen, Batch
  <2>2. CASE pc'[r] \notin Migrating
    BY <2>2 DEF WipesClosed, CopiesOpen, Wiping, Copying, Migrating
  <2> QED BY <2>1, <2>2
<1>3. ASSUME NEW r \in Runners PROVE Tainting(r)' /\ WipedSoFar(r)' /\ AtEnd(r)'
  <2>1. Tainting(r)'
    BY DEF BackInv, Tainting
  <2>2. CASE pc'[r] \in Migrating
    BY <2>1, <2>2 DEF BackInv, WipedSoFar, AtEnd
  <2>3. CASE pc'[r] \notin Migrating
    BY <2>1, <2>3 DEF WipedSoFar, AtEnd, Migrating
  <2> QED BY <2>1, <2>2, <2>3
<1>4. \A p \in Projects : Backed(p)' /\ Exact(p)'
  BY DEF BackInv, Backed, Covered, Exact
<1> QED BY <1>1, <1>2, <1>3, <1>4 DEF BackInv

\* A runner that leaves keeps what the others rely on.
LEMMA BackLeave ==
  ASSUME BackInv, TypeOK', NEW r \in Runners, NEW next \in {"off", "idle", "ended"} \cup Settling,
         Leave(r, next), UNCHANGED <<point, stored, goal, tainted>>
  PROVE  BackInv'
<1>1. ASSUME NEW q \in Runners, pc'[q] \in Migrating
      PROVE  /\ pc'[q] = pc[q] /\ target'[q] = target[q]
             /\ plan'[q] = plan[q] /\ last'[q] = last[q]
             /\ q \in tangled => q \in tangled'
  <2>1. q # r
    BY <1>1 DEF Leave, BackInv, TypeOK, Migrating, Settling
  <2> QED BY <2>1 DEF Leave, BackInv, TypeOK
<1>2. ASSUME NEW q \in Runners, q \in tangled'
      PROVE  q \in tangled /\ (pc[q] \in Migrating => pc'[q] \in Migrating)
  BY <1>2 DEF Leave, BackInv, TypeOK
<1> QED BY <1>1, <1>2, BackOthers

\* A runner that begins entangles itself with whoever migrates the same project.
LEMMA BackBegin ==
  ASSUME BackInv, TypeOK', NEW r \in Runners, pc[r] \notin Migrating,
         NEW p \in Projects, Begin(r, p),
         UNCHANGED <<point, stored, goal, plan, last>>
  PROVE  BackInv'
<1>1. /\ pc'[r] = "plan" /\ target'[r] = p
      /\ \A q \in Runners \ {r} : pc'[q] = pc[q] /\ target'[q] = target[q]
      /\ tainted \subseteq tainted' /\ tangled \subseteq tangled'
  BY DEF Begin, BackInv, TypeOK
<1>2. ASSUME NEW q \in Runners, NEW u \in Runners PROVE Entangled(q, u)'
  <2>1. CASE q # r /\ u # r
    BY <1>1, <2>1 DEF BackInv, Entangled
  <2>2. ASSUME NEW v \in Runners \ {r}, pc[v] \in Migrating, target[v] = p
        PROVE  v \in tangled' /\ r \in tangled' /\ p \in tainted'
    BY <2>2 DEF Begin
  <2> QED BY <1>1, <2>1, <2>2 DEF Entangled
<1>3. ASSUME NEW q \in Runners PROVE WipesClosed(q)' /\ CopiesOpen(q)'
  <2>1. CASE q = r
    BY <1>1, <2>1 DEF WipesClosed, CopiesOpen, Wiping, Copying
  <2>2. CASE q # r
    BY <1>1, <2>2 DEF BackInv, WipesClosed, CopiesOpen, Batch
  <2> QED BY <2>1, <2>2
<1>4. ASSUME NEW q \in Runners PROVE Tainting(q)' /\ WipedSoFar(q)' /\ AtEnd(q)'
  <2>1. CASE q = r
    <3>1. r \notin tangled
      BY DEF BackInv, Tainting
    <3>2. Tainting(r)'
      BY <1>1, <3>1 DEF Begin, Tainting, Migrating
    <3> QED BY <1>1, <2>1, <3>2 DEF WipedSoFar, AtEnd
  <2>2. CASE q # r
    <3>1. Tainting(q)'
      BY <1>1, <2>2 DEF Begin, BackInv, Tainting
    <3> QED BY <1>1, <2>2, <3>1 DEF BackInv, WipedSoFar, AtEnd
  <2> QED BY <2>1, <2>2
<1>5. \A o \in Projects : Backed(o)' /\ Exact(o)'
  BY <1>1 DEF BackInv, Backed, Covered, Exact
<1> QED BY <1>2, <1>3, <1>4, <1>5 DEF BackInv

\* Everything but one runner and its project stays as it is.
Only(r) ==
  /\ pc[r] \in Migrating /\ pc'[r] \in Migrating
  /\ UNCHANGED <<target, tangled>>
  /\ \A q \in Runners \ {r} : pc'[q] = pc[q] /\ plan'[q] = plan[q] /\ last'[q] = last[q]
  /\ \A o \in Projects \ {target[r]} :
       /\ point'[o] = point[o] /\ stored'[o] = stored[o] /\ goal'[o] = goal[o]
       /\ o \in tainted' <=> o \in tainted
  /\ (r \in tangled /\ target[r] \in tainted) => target[r] \in tainted'

\* For such a step it is enough to look at that runner and that project: any other
\* runner on the project is entangled with it.
LEMMA BackStep ==
  ASSUME BackInv, TypeOK', NEW r \in Runners, Only(r),
         WipesClosed(r)', CopiesOpen(r)', WipedSoFar(r)', AtEnd(r)',
         Backed(target[r])', Exact(target[r])'
  PROVE  BackInv'
<1>1. \A q \in Runners : pc[q] \in Migrating <=> pc'[q] \in Migrating
  BY DEF Only
<1>2. ASSUME NEW q \in Runners \ {r}, pc[q] \in Migrating, target[q] = target[r]
      PROVE  q \in tangled /\ r \in tangled /\ target[r] \in tainted'
  BY <1>2 DEF Only, BackInv, Entangled
<1>3. ASSUME NEW q \in Runners, NEW u \in Runners PROVE Entangled(q, u)'
  <2>1. SUFFICES ASSUME q # u, pc'[q] \in Migrating, pc'[u] \in Migrating, target'[q] = target'[u]
                 PROVE  q \in tangled' /\ target'[q] \in tainted'
    BY DEF Entangled
  <2>2. target' = target /\ tangled' = tangled
    BY DEF Only
  <2>3. pc[q] \in Migrating /\ pc[u] \in Migrating /\ q \in tangled /\ target[q] \in tainted
    BY <1>1, <2>1, <2>2 DEF BackInv, Entangled
  <2>4. CASE target[q] = target[r]
    BY <1>2, <2>1, <2>2, <2>3, <2>4
  <2>5. CASE target[q] # target[r]
    <3>1. target[q] \in Projects
      BY <2>3 DEF BackInv, TypeOK
    <3> QED BY <2>2, <2>3, <2>5, <3>1 DEF Only
  <2> QED BY <2>4, <2>5
<1>4. ASSUME NEW q \in Runners PROVE WipesClosed(q)' /\ CopiesOpen(q)'
  <2>1. CASE q = r
    BY <2>1
  <2>2. CASE q # r /\ pc[q] \notin Migrating
    BY <2>2 DEF Only, WipesClosed, CopiesOpen, Wiping, Copying, Migrating
  <2>3. CASE q # r /\ pc[q] \in Migrating /\ target[q] = target[r]
    BY <1>2, <2>3 DEF Only, WipesClosed, CopiesOpen
  <2>4. CASE q # r /\ pc[q] \in Migrating /\ target[q] # target[r]
    <3>1. target[q] \in Projects \ {target[r]}
      BY <2>4 DEF BackInv, TypeOK
    <3>2. WipesClosed(q) /\ CopiesOpen(q)
      BY DEF BackInv
    <3>3. /\ pc'[q] = pc[q] /\ plan'[q] = plan[q] /\ last'[q] = last[q] /\ target' = target
          /\ point'[target[q]] = point[target[q]] /\ stored'[target[q]] = stored[target[q]]
          /\ goal'[target[q]] = goal[target[q]]
          /\ target[q] \in tainted' <=> target[q] \in tainted
      BY <2>4, <3>1 DEF Only
    <3> QED BY <3>2, <3>3 DEF WipesClosed, CopiesOpen, Batch
  <2> QED BY <2>1, <2>2, <2>3, <2>4
<1>5. ASSUME NEW q \in Runners PROVE Tainting(q)' /\ WipedSoFar(q)' /\ AtEnd(q)'
  <2>1. target' = target /\ tangled' = tangled /\ Tainting(q) /\ WipedSoFar(q) /\ AtEnd(q)
    BY DEF Only, BackInv
  <2>2. Tainting(q)'
    <3>1. CASE q = r
      BY <2>1, <3>1 DEF Tainting, Only
    <3>2. CASE q # r /\ target[q] = target[r]
      BY <1>1, <1>2, <2>1, <3>2 DEF Tainting
    <3>3. CASE q # r /\ target[q] # target[r]
      <4>1. pc[q] \in Migrating => target[q] \in Projects
        BY DEF BackInv, TypeOK
      <4> QED BY <1>1, <2>1, <3>3, <4>1 DEF Tainting, Only
    <3> QED BY <3>1, <3>2, <3>3
  <2>3. CASE q = r
    BY <2>2, <2>3
  <2>4. CASE q # r /\ pc[q] \notin Migrating
    BY <2>2, <2>4 DEF Only, WipedSoFar, AtEnd, Migrating
  <2>5. CASE q # r /\ pc[q] \in Migrating /\ target[q] = target[r]
    BY <1>2, <2>1, <2>2, <2>5 DEF Only, WipedSoFar, AtEnd
  <2>6. CASE q # r /\ pc[q] \in Migrating /\ target[q] # target[r]
    <3>1. target[q] \in Projects \ {target[r]}
      BY <2>6 DEF BackInv, TypeOK
    <3>2. pc'[q] = pc[q] /\ plan'[q] = plan[q] /\ last'[q] = last[q]
          /\ stored'[target[q]] = stored[target[q]]
      BY <2>6, <3>1 DEF Only
    <3> QED BY <2>1, <2>2, <3>2 DEF WipedSoFar, AtEnd
  <2> QED BY <2>3, <2>4, <2>5, <2>6
<1>6. ASSUME NEW o \in Projects PROVE Backed(o)' /\ Exact(o)'
  <2>1. CASE o = target[r]
    BY <2>1 DEF Only, Backed, Covered, Exact
  <2>2. CASE o # target[r]
    BY <2>2 DEF Only, BackInv, Backed, Covered, Exact
  <2> QED BY <2>1, <2>2
<1> QED BY <1>3, <1>4, <1>5, <1>6 DEF BackInv

\* The reads, and the look at the checkpoint.
LEMMA BackOfPlanning ==
  ASSUME BackInv, TypeOK', NEW r \in Runners, Materialise(r) \/ ReadCheckpoint(r)
  PROVE  BackInv'
<1> DEFINE p == target[r]
<1> USE DEF BackInv
<1>1. pc[r] \in Migrating /\ p \in Projects
  BY DEF Materialise, ReadCheckpoint, Migrating, TypeOK
<1>2. CASE Materialise(r)
  <2>1. /\ pc'[r] = "look" /\ UNCHANGED <<point, stored, goal, target, last, tangled, tainted>>
        /\ \A q \in Runners \ {r} : pc'[q] = pc[q] /\ plan'[q] = plan[q]
    BY <1>2 DEF Materialise, TypeOK, postgres, history
  <2>2. Only(r)
    BY <1>1, <2>1 DEF Only, Migrating
  <2>3. WipesClosed(r)' /\ CopiesOpen(r)' /\ WipedSoFar(r)' /\ AtEnd(r)'
    BY <2>1 DEF WipesClosed, CopiesOpen, Wiping, Copying, WipedSoFar, AtEnd
  <2>4. Backed(p)' /\ Exact(p)'
    BY <1>1, <2>1 DEF Backed, Covered, Exact
  <2> QED BY <2>2, <2>3, <2>4, BackStep
<1>3. CASE ReadCheckpoint(r)
  <2>1. /\ UNCHANGED <<point, stored, goal, target, plan, tangled>>
        /\ \A q \in Runners \ {r} : pc'[q] = pc[q] /\ last'[q] = last[q]
        /\ tainted' = tainted \/ tainted' = tainted \cup {p}
    BY <1>3 DEF ReadCheckpoint, TypeOK, postgres
  <2>2. \/ /\ point[p].state = "open"
           /\ pc'[r] \in {"points", "finish"} /\ last'[r] = point[p].done
           /\ pc'[r] = "finish" => ~ (point[p].done * BatchSize < Len(plan[r]))
           /\ plan[r] = goal[p] \/ p \in tainted'
        \/ point[p].state # "open" /\ pc'[r] = "wipe_points"
    BY <1>3 DEF ReadCheckpoint, LoopAt, TypeOK
  <2>3. Only(r)
    BY <1>1, <2>1, <2>2 DEF Only, Migrating
  <2>4. WipesClosed(r)' /\ CopiesOpen(r)' /\ WipedSoFar(r)' /\ AtEnd(r)'
    BY <2>1, <2>2 DEF WipesClosed, CopiesOpen, Wiping, Copying, WipedSoFar, AtEnd
  <2>5. Backed(p)' /\ Exact(p)'
    BY <1>1, <2>1 DEF Backed, Covered, Exact
  <2> QED BY <2>3, <2>4, <2>5, BackStep
<1> QED BY <1>2, <1>3

\* A fresh run wipes the copy of a project without an open checkpoint, and opens one
\* that counts nothing.
LEMMA BackOfWiping ==
  ASSUME BackInv, TypeOK', NEW r \in Runners, WipePoints(r) \/ WipeTotals(r) \/ Reset(r)
  PROVE  BackInv'
<1> DEFINE p == target[r]
<1> USE DEF BackInv
<1>1. pc[r] \in Migrating /\ pc[r] \in Wiping /\ p \in Projects
  BY DEF WipePoints, WipeTotals, Reset, Migrating, Wiping, TypeOK
<1>2. p \notin tainted => point[p].state # "open"
  BY <1>1 DEF WipesClosed
<1>3. CASE WipePoints(r) \/ WipeTotals(r)
  <2>1. /\ UNCHANGED <<point, goal, target, plan, last, tangled, tainted>>
        /\ \A q \in Runners \ {r} : pc'[q] = pc[q]
        /\ \A o \in Projects \ {p} : stored'[o] = stored[o]
        /\ pc'[r] \in {"wipe_totals", "reset"}
    BY <1>3 DEF WipePoints, WipeTotals, TypeOK, postgres, history
  <2>2. Only(r)
    BY <1>1, <2>1 DEF Only, Migrating
  <2>3. WipesClosed(r)' /\ CopiesOpen(r)' /\ AtEnd(r)' /\ Backed(p)' /\ Exact(p)'
    BY <1>2, <2>1 DEF WipesClosed, CopiesOpen, Wiping, Copying, AtEnd, Backed, Exact
  <2>4. WipedSoFar(r)'
    <3>1. CASE WipePoints(r)
      BY <1>1, <2>1, <3>1 DEF WipePoints, WipedSoFar, TypeOK
    <3>2. CASE WipeTotals(r)
      BY <1>1, <2>1, <3>2, EtlConstants DEF WipeTotals, WipedSoFar, TypeOK
    <3> QED BY <1>3, <3>1, <3>2
  <2> QED BY <2>2, <2>3, <2>4, BackStep
<1>4. CASE Reset(r)
  <2>1. /\ UNCHANGED <<stored, target, plan, tangled>>
        /\ \A q \in Runners \ {r} : pc'[q] = pc[q] /\ last'[q] = last[q]
        /\ \A o \in Projects \ {p} : point'[o] = point[o] /\ goal'[o] = goal[o]
        /\ \A o \in Projects \ {p} : o \in tainted' <=> o \in tainted
        /\ r \in tangled => tainted' = tainted
        /\ pc'[r] \in {"points", "finish"} /\ last'[r] = 0
        /\ pc'[r] = "finish" => ~ (0 * BatchSize < Len(plan[r]))
    BY <1>4 DEF Reset, LoopAt, TypeOK
  <2>2. point'[p] = [state |-> "open", done |-> 0] /\ goal'[p] = plan[r]
    BY <1>1, <1>4 DEF Reset, TypeOK
  <2>3. Only(r)
    BY <1>1, <2>1 DEF Only, Migrating
  <2>4. WipesClosed(r)' /\ CopiesOpen(r)' /\ WipedSoFar(r)' /\ AtEnd(r)'
    BY <2>1, <2>2 DEF WipesClosed, CopiesOpen, Wiping, Copying, WipedSoFar, AtEnd
  <2>5. Covered(p, 0)' = {}
    <3>1. goal'[p] \in Seq(Rows) /\ p' = p
      BY <1>1, <2>1 DEF TypeOK
    <3>2. 0 * BatchSize = 0
      BY EtlConstants
    <3>3. \A k \in DOMAIN goal'[p] : ~ (k <= 0)
      BY <3>1
    <3> QED BY <3>1, <3>2, <3>3 DEF Covered
  <2>6. Backed(p)'
    BY <2>1, <2>2, <2>5 DEF Backed, Covered
  <2>7. Exact(p)'
    <3>1. SUFFICES ASSUME p \notin tainted' PROVE \A x \in Rows : stored[p][x] = 0
      BY <2>1 DEF Exact
    <3>2. r \notin tangled
      BY <2>1, <3>1 DEF Tainting
    <3>3. pc[r] = "reset"
      BY <1>4 DEF Reset
    <3> QED BY <3>2, <3>3 DEF WipedSoFar
  <2> QED BY <2>3, <2>4, <2>6, <2>7, BackStep
<1> QED BY <1>3, <1>4

\* An insert only adds copies, and leaves at least one of each row of its part of the
\* batch.
LEMMA BackOfSeeding ==
  ASSUME BackInv, TypeOK', NEW r \in Runners, SeedPoints(r) \/ SeedTotals(r)
  PROVE  BackInv'
<1> DEFINE p == target[r]
<1> USE DEF BackInv
<1>1. pc[r] \in Migrating /\ pc[r] \in Copying /\ p \in Projects
  BY DEF SeedPoints, SeedTotals, Migrating, Copying, TypeOK
<1>2. PICK S \in {Batch(r) \ Totals, Batch(r) \cap Totals} :
        /\ Seeded(p, S)
        /\ \/ pc[r] = "points" /\ pc'[r] = "totals" /\ S = Batch(r) \ Totals
           \/ pc[r] = "totals" /\ pc'[r] = "advance" /\ S = Batch(r) \cap Totals
  BY DEF SeedPoints, SeedTotals, TypeOK
<1>3. /\ UNCHANGED <<point, goal, target, plan, last, tangled, tainted>>
      /\ \A q \in Runners \ {r} : pc'[q] = pc[q]
  BY DEF SeedPoints, SeedTotals, TypeOK, postgres, history
<1>4. /\ \A o \in Projects \ {p} : stored'[o] = stored[o]
      /\ \A x \in Rows : stored'[p][x] = IF x \in S THEN stored[p][x] + 1 ELSE stored[p][x]
  BY <1>1, <1>2 DEF Seeded, TypeOK
<1>5. /\ \A x \in Rows : stored[p][x] \in Nat
      /\ Batch(r) \subseteq Rows
      /\ \A n : Covered(p, n) \subseteq Rows
  <2>1. plan[r] \in Seq(Rows) /\ goal[p] \in Seq(Rows)
    BY <1>1 DEF TypeOK
  <2> QED BY <1>1, <2>1 DEF TypeOK, Batch, Covered
<1>6. \A x \in Rows : (stored[p][x] >= 1 \/ x \in S) => stored'[p][x] >= 1
  BY <1>4, <1>5
<1>7. Only(r)
  BY <1>1, <1>2, <1>3, <1>4 DEF Only, Migrating
<1>8. Batch(r)' = Batch(r)
  BY <1>3 DEF Batch
<1>9. WipesClosed(r)' /\ WipedSoFar(r)' /\ AtEnd(r)'
  BY <1>2 DEF WipesClosed, Wiping, WipedSoFar, AtEnd
<1>10. CopiesOpen(r)'
  BY <1>1, <1>2, <1>3, <1>5, <1>6, <1>8 DEF CopiesOpen
<1>11. Backed(p)'
  <2>1. \A n : Covered(p, n)' = Covered(p, n)
    BY <1>3 DEF Covered
  <2> QED BY <1>1, <1>3, <1>5, <1>6, <2>1 DEF Backed
<1>12. Exact(p)'
  <2>1. SUFFICES ASSUME p \notin tainted, point[p].state = "open", NEW x \in Rows,
                        stored'[p][x] > 0
                 PROVE  x \in Range(goal[p])
    BY <1>3 DEF Exact
  <2>2. CASE x \in S
    <3>1. plan[r] = goal[p]
      BY <1>1, <2>1 DEF CopiesOpen
    <3> QED BY <2>2, <3>1 DEF Batch, Range
  <2>3. CASE x \notin S
    BY <1>1, <1>4, <2>1, <2>3 DEF Exact
  <2> QED BY <2>2, <2>3
<1> QED BY <1>7, <1>9, <1>10, <1>11, <1>12, BackStep

\* The checkpoint moves over a batch that is there.
LEMMA BackOfAdvance ==
  ASSUME BackInv, TypeOK', NEW r \in Runners, Advance(r)
  PROVE  BackInv'
<1> DEFINE p == target[r]
<1> USE DEF BackInv
<1>1. pc[r] = "advance" /\ p \in Projects /\ last[r] \in Nat
  BY DEF Advance, Migrating, TypeOK
<1>2. /\ UNCHANGED <<stored, goal, target, plan, tangled, tainted>>
      /\ \A q \in Runners \ {r} : pc'[q] = pc[q] /\ last'[q] = last[q]
      /\ \A o \in Projects \ {p} : point'[o] = point[o]
      /\ pc'[r] \in {"points", "finish"} /\ last'[r] = last[r] + 1
      /\ pc'[r] = "finish" => ~ ((last[r] + 1) * BatchSize < Len(plan[r]))
  BY <1>1 DEF Advance, LoopAt, TypeOK, history
<1>3. point'[p].state = point[p].state /\ point'[p].done = last[r] + 1
  BY <1>1 DEF Advance, TypeOK
<1>4. Only(r)
  BY <1>1, <1>2 DEF Only, Migrating
<1>5. WipesClosed(r)' /\ CopiesOpen(r)' /\ WipedSoFar(r)' /\ AtEnd(r)'
  BY <1>1, <1>2, <1>3 DEF WipesClosed, CopiesOpen, Wiping, Copying, WipedSoFar, AtEnd
<1>6. Backed(p)'
  <2>1. SUFFICES ASSUME p \notin tainted, NEW x \in Covered(p, last[r] + 1)
                 PROVE  stored[p][x] >= 1
    BY <1>1, <1>2, <1>3 DEF Backed, Covered
  <2>2. point[p].state = "open" /\ plan[r] = goal[p] /\ last[r] = point[p].done
        /\ \A y \in Batch(r) : stored[p][y] >= 1
    BY <1>1, <2>1 DEF CopiesOpen, Copying
  <2>3. x \in Covered(p, last[r]) \/ x \in Batch(r)
    <3>1. PICK k \in DOMAIN goal[p] : x = goal[p][k] /\ k <= (last[r] + 1) * BatchSize
      BY <2>1 DEF Covered
    <3>2. k \in Nat /\ last[r] * BatchSize \in Int
      <4>1. goal[p] \in Seq(Rows)
        BY <1>1 DEF TypeOK
      <4> QED BY <1>1, <3>1, <4>1, EtlConstants
    <3>3. k <= last[r] * BatchSize \/ last[r] * BatchSize < k
      BY <3>2
    <3> QED BY <2>2, <3>1, <3>3 DEF Covered, Batch
  <2> QED BY <1>1, <2>1, <2>2, <2>3 DEF Backed
<1>7. Exact(p)'
  BY <1>1, <1>2, <1>3 DEF Exact
<1> QED BY <1>4, <1>5, <1>6, <1>7, BackStep

\* A migration that finishes or fails.
LEMMA BackOfEnding ==
  ASSUME BackInv, TypeOK', NEW r \in Runners, Finish(r) \/ Fail(r)
  PROVE  BackInv'
<1> USE DEF BackInv
<1>1. CASE Fail(r)
  <2>1. UNCHANGED <<point, stored, goal, tainted>>
    BY <1>1 DEF Fail, postgres
  <2> QED BY <1>1, <2>1, BackLeave DEF Fail, Settling
<1>2. CASE Finish(r)
  <2> DEFINE p == target[r]
  <2>1. pc[r] = "finish" /\ p \in Projects
    BY <1>2 DEF Finish, Migrating, TypeOK
  <2>2. /\ UNCHANGED <<stored, goal, tainted>> /\ pc'[r] \notin Migrating
        /\ point'[p].state = "finished"
        /\ \A o \in Projects \ {p} : point'[o] = point[o]
    BY <1>2, <2>1 DEF Finish, Leave, TypeOK, Migrating
  <2>3. \A q \in Runners \ {r} :
          /\ pc'[q] = pc[q] /\ target'[q] = target[q] /\ plan'[q] = plan[q] /\ last'[q] = last[q]
          /\ q \in tangled' <=> q \in tangled
          /\ r \notin tangled'
    BY <1>2 DEF Finish, Leave, TypeOK
  <2>4. \A q, u \in Runners : Entangled(q, u)'
    BY <2>2, <2>3 DEF Entangled
  <2>5. ASSUME NEW q \in Runners PROVE WipesClosed(q)' /\ CopiesOpen(q)'
    <3>1. CASE q = r \/ pc'[q] \notin Migrating
      BY <2>2, <3>1 DEF WipesClosed, CopiesOpen, Wiping, Copying, Migrating
    <3>2. CASE q # r /\ pc[q] \in Migrating /\ target[q] = p
      BY <2>1, <2>2, <2>3, <3>2 DEF WipesClosed, CopiesOpen, Entangled, Migrating
    <3>3. CASE q # r /\ pc[q] \in Migrating /\ target[q] # p
      <4>1. target[q] \in Projects
        BY <3>3 DEF TypeOK
      <4> QED BY <2>2, <2>3, <3>3, <4>1 DEF WipesClosed, CopiesOpen, Batch
    <3> QED BY <2>3, <3>1, <3>2, <3>3
  <2>6. ASSUME NEW q \in Runners PROVE Tainting(q)' /\ WipedSoFar(q)' /\ AtEnd(q)'
    <3>1. CASE q = r
      BY <1>2, <2>2, <3>1 DEF Finish, Leave, Tainting, WipedSoFar, AtEnd, Migrating
    <3>2. CASE q # r
      BY <2>2, <2>3, <3>2 DEF Tainting, WipedSoFar, AtEnd
    <3> QED BY <3>1, <3>2
  <2>7. \A o \in Projects : Backed(o)' /\ Exact(o)'
    BY <2>2 DEF Backed, Covered, Exact
  <2> QED BY <2>4, <2>5, <2>6, <2>7
<1> QED BY <1>1, <1>2

\* The invariant holds at first, when nobody migrates ...
LEMMA BackInit == Init => BackInv
<1> SUFFICES ASSUME Init PROVE BackInv
  OBVIOUS
<1>1. \A r \in Runners : pc[r] = "off" /\ r \notin tangled
  BY DEF Init
<1>2. \A p \in Projects : point[p].state = "none"
  BY DEF Init
<1> QED BY <1>1, <1>2, TypeOfInit
   DEF BackInv, Entangled, WipesClosed, CopiesOpen, Backed, Migrating, Wiping, Copying,
       Tainting, WipedSoFar, AtEnd, Exact

\* ... and every step keeps it.
LEMMA BackNext ==
  ASSUME BackInv, TypeOK', [Next]_vars
  PROVE  BackInv'
<1>1. CASE UNCHANGED vars
  BY <1>1, BackOthers DEF vars, postgres, runnerVars, history
<1>2. ASSUME NEW j \in Jobs, Enqueue(j) PROVE BackInv'
  BY <1>2, BackOthers DEF Enqueue, runnerVars, history
<1>3. ASSUME NEW p \in Projects, NEW x \in Rows, SourceChanges(p, x) PROVE BackInv'
  BY <1>3, BackOthers DEF SourceChanges, runnerVars, history
<1>4. ASSUME NEW w \in Workers, Boot(w) PROVE BackInv'
  <2>1. \A r \in Runners : /\ pc'[r] \in Migrating => pc'[r] = pc[r]
                           /\ pc[r] \in Migrating => pc'[r] \in Migrating
    BY <1>4 DEF Boot, BackInv, TypeOK, Migrating
  <2> QED BY <1>4, <2>1, BackOthers DEF Boot, postgres, history
<1>5. ASSUME NEW w \in Workers, Stop(w) \/ SettleStep(w) PROVE BackInv'
  <2>1. /\ \E next \in {"off", "idle"} : Leave(w, next)
        /\ UNCHANGED <<point, stored, goal, tainted>>
    BY <1>5 DEF Stop, SettleStep, MarkDone, MarkFailed, Marked, LoseMark, postgres
  <2>2. w \in Runners
    BY DEF Runners
  <2> QED BY <2>1, <2>2, BackLeave
<1>6. ASSUME NEW w \in Workers, ClaimJob(w) PROVE BackInv'
  <2>1. /\ \E j \in Jobs : Begin(w, ProjectOf[j])
        /\ UNCHANGED <<point, stored, goal, plan, last>>
    BY <1>6 DEF ClaimJob, Claimable
  <2>2. /\ w \in Runners /\ pc[w] \notin Migrating
        /\ \A j \in Jobs : ProjectOf[j] \in Projects
    BY <1>6, EtlConstants DEF Runners, ClaimJob, Migrating
  <2> QED BY <2>1, <2>2, BackBegin
<1>7. ASSUME NEW c \in Commands, NEW p \in Projects, CommandStarts(c, p) PROVE BackInv'
  <2>1. /\ c \in Runners /\ pc[c] \notin Migrating
        /\ Begin(c, p) /\ UNCHANGED <<point, stored, goal, plan, last>>
    BY <1>7 DEF CommandStarts, Runners, postgres, Migrating
  <2> QED BY <2>1, BackBegin
<1>8. ASSUME NEW r \in Runners, MigrationStep(r) PROVE BackInv'
  BY <1>8, BackOfPlanning, BackOfWiping, BackOfSeeding, BackOfAdvance, BackOfEnding
     DEF MigrationStep
<1> QED BY <1>1, <1>2, <1>3, <1>4, <1>5, <1>6, <1>7, <1>8 DEF Next

\* What an open checkpoint counts is in ClickHouse, for any number of workers and
\* commands, any batch size and any sequence of interruptions, on a project that nobody
\* migrated at the same time or resumed with other rows (migrate_project_resumable).
THEOREM CheckpointsAreBacked == Spec => []CheckpointIsBacked
<1>1. BackInv => CheckpointIsBacked
  BY DEF BackInv, Backed, CheckpointIsBacked
<1> QED BY <1>1, BackInit, BackNext, TypeCorrect, PTL DEF Spec

\* The step that finishes a migration finds the rows it set out for, all of them and no
\* other: its runner has come to the end of the list it resumed (Finish).
LEMMA FinishFindsAll ==
  ASSUME BackInv, Next, NEW p \in Projects \ tainted,
         point[p].state = "open", point'[p].state = "finished"
  PROVE  {x \in Rows : stored[p][x] > 0} = Range(goal[p])
<1>1. PICK r \in Runners : Finish(r) /\ target[r] = p
  <2>1. CASE \E r \in Runners : MigrationStep(r)
    <3>1. PICK r \in Runners : MigrationStep(r)
      BY <2>1
    <3>2. Reset(r) \/ Advance(r) \/ Finish(r)
      BY <3>1 DEF MigrationStep, Materialise, ReadCheckpoint, WipePoints, WipeTotals,
         SeedPoints, SeedTotals, Fail, postgres
    <3>3. point'[p] # point[p] /\ point \in [Projects -> [state : {"none", "open", "finished"}, done : Nat]]
      BY DEF BackInv, TypeOK
    <3>4. ~ Reset(r)
      BY <3>3 DEF Reset
    <3>5. ~ Advance(r)
      BY <3>3 DEF Advance
    <3> QED BY <3>2, <3>3, <3>4, <3>5 DEF Finish
  <2>2. CASE ~ \E r \in Runners : MigrationStep(r)
    <3>1. point' = point
      BY <2>2 DEF Next, Enqueue, SourceChanges, Boot, Stop, ClaimJob, SettleStep,
         MarkDone, MarkFailed, Marked, LoseMark, CommandStarts, postgres
    <3> QED BY <3>1
  <2> QED BY <2>1, <2>2
<1>2. /\ plan[r] = goal[p] /\ last[r] = point[p].done
      /\ ~ (last[r] * BatchSize < Len(plan[r]))
  BY <1>1 DEF Finish, BackInv, CopiesOpen, Copying, AtEnd
<1>3. goal[p] \in Seq(Rows) /\ last[r] * BatchSize \in Int
  <2>1. last[r] \in Nat /\ BatchSize \in Nat
    BY <1>1, EtlConstants DEF BackInv, TypeOK
  <2>2. last[r] * BatchSize \in Int
    BY <2>1
  <2> QED BY <2>2 DEF BackInv, TypeOK
<1>4. \A k \in DOMAIN goal[p] : k <= point[p].done * BatchSize
  BY <1>2, <1>3
<1>5. Range(goal[p]) \subseteq Rows /\ Covered(p, point[p].done) = Range(goal[p])
  BY <1>3, <1>4 DEF Covered, Range
<1>6. \A x \in Range(goal[p]) : stored[p][x] >= 1
  BY <1>5 DEF BackInv, Backed
<1>7. \A x \in Rows : stored[p][x] > 0 => x \in Range(goal[p])
  BY DEF BackInv, Exact
<1>8. \A x \in Rows : stored[p][x] \in Nat
  BY DEF BackInv, TypeOK
<1> QED BY <1>5, <1>6, <1>7, <1>8

\* A migration that finishes has copied every row it set out to copy and left no row of
\* an earlier one (the same exceptions).
THEOREM FinishedAreWhole == Spec => FinishedIsWhole
<1>1. BackInv /\ Next =>
        \A p \in Projects \ tainted :
          (point[p].state = "open" /\ point'[p].state = "finished") =>
            {x \in Rows : stored[p][x] > 0} = Range(goal[p])
  BY FinishFindsAll
<1> QED BY <1>1, BackInit, BackNext, TypeCorrect, PTL DEF Spec, FinishedIsWhole

-----------------------------------------------------------------------------
(* Copies *)

\* The reads name a row once.
Plain ==
  /\ \A r \in Runners : IsInjective(plan[r])
  /\ \A p \in Projects : IsInjective(goal[p])

\* What a runner has inserted of its current batch.
InFlight(r) == CASE pc[r] = "totals"  -> Batch(r) \ Totals
                 [] pc[r] = "advance" -> Batch(r)
                 [] OTHER             -> {}

\* What the current attempt and the checkpoint account for.
Accounted(p) ==
  Covered(p, point[p].done)
    \cup UNION {InFlight(r) : r \in {q \in Runners : target[q] = p}}

\* One copy for each cut, and one more of what is accounted for.
Bounded(p) ==
  (p \notin tainted /\ point[p].state = "open") =>
    \A x \in Rows : /\ stored[p][x] <= 1 + cuts[p]
                    /\ x \notin Accounted(p) => stored[p][x] <= cuts[p]

CutInv == Plain /\ \A p \in Projects : Bounded(p)

\* Plans come from the reads and are forgotten; goals come from plans.
LEMMA PlainNext ==
  ASSUME TypeOK, Plain, [Next]_vars
  PROVE  Plain'
<1>1. IsInjective(<<>>)
  BY DEF IsInjective
<1>2. ASSUME NEW r \in Runners, NEW next, Leave(r, next), goal' = goal PROVE Plain'
  <2>1. \A q \in Runners : plan'[q] = plan[q] \/ plan'[q] = <<>>
    BY <1>2 DEF Leave, TypeOK
  <2> QED BY <1>1, <1>2, <2>1 DEF Plain
<1>3. CASE UNCHANGED <<plan, goal>>
  BY <1>3 DEF Plain
<1>4. ASSUME NEW r \in Runners, MigrationStep(r) PROVE Plain'
  <2>1. CASE Materialise(r)
    <3>1. PICK rows \in Orderings(source[target[r]]) : plan' = [plan EXCEPT ![r] = rows]
      BY <2>1 DEF Materialise
    <3>2. IsInjective(rows)
      BY DEF Orderings, Bijection, Injection
    <3>3. \A q \in Runners : plan'[q] = plan[q] \/ plan'[q] = rows
      BY <3>1 DEF TypeOK
    <3> QED BY <2>1, <3>2, <3>3 DEF Materialise, Plain, history
  <2>2. CASE Reset(r)
    <3>1. \A p \in Projects : goal'[p] = goal[p] \/ goal'[p] = plan[r]
      BY <2>2 DEF Reset, TypeOK
    <3> QED BY <2>2, <3>1 DEF Reset, Plain
  <2>3. CASE Finish(r) \/ Fail(r)
    BY <1>2, <2>3 DEF Finish, Fail
  <2>4. CASE ~ (Materialise(r) \/ Reset(r) \/ Finish(r) \/ Fail(r))
    BY <1>3, <1>4, <2>4 DEF MigrationStep, ReadCheckpoint, WipePoints, WipeTotals,
       SeedPoints, SeedTotals, Advance, history
  <2> QED BY <2>1, <2>2, <2>3, <2>4
<1>5. ASSUME NEW w \in Workers, Stop(w) \/ SettleStep(w) PROVE Plain'
  <2>1. w \in Runners
    BY DEF Runners
  <2> QED BY <1>2, <1>5, <2>1 DEF Stop, SettleStep, MarkDone, MarkFailed, Marked, LoseMark
<1>6. CASE ~ ((\E r \in Runners : MigrationStep(r))
              \/ \E w \in Workers : Stop(w) \/ SettleStep(w))
  BY <1>3, <1>6 DEF vars, Next, Enqueue, SourceChanges, Boot, ClaimJob, CommandStarts,
     postgres, runnerVars, history
<1> QED BY <1>4, <1>5, <1>6

\* A project whose checkpoint and copy stay as they are keeps its bound, when nothing
\* stops being accounted for without a cut that is counted.
LEMMA BoundRests ==
  ASSUME TypeOK, TypeOK', NEW p \in Projects, Bounded(p),
         point'[p] = point[p], stored'[p] = stored[p], goal'[p] = goal[p],
         p \in tainted => p \in tainted',
         cuts'[p] >= cuts[p],
         p \notin tainted' => \/ cuts'[p] >= cuts[p] + 1
                              \/ Accounted(p) \subseteq Accounted(p)'
  PROVE  Bounded(p)'
<1>1. SUFFICES ASSUME p \notin tainted', point[p].state = "open", NEW x \in Rows
               PROVE  /\ stored[p][x] <= 1 + cuts'[p]
                      /\ x \notin Accounted(p)' => stored[p][x] <= cuts'[p]
  BY DEF Bounded
<1>2. stored[p][x] \in Nat /\ cuts[p] \in Nat /\ cuts'[p] \in Nat
  BY DEF TypeOK
<1>3. /\ stored[p][x] <= 1 + cuts[p]
      /\ x \notin Accounted(p) => stored[p][x] <= cuts[p]
  BY <1>1 DEF Bounded
<1> QED BY <1>1, <1>2, <1>3

\* Nothing of a runner's counts any more after it has left or while it does not copy.
LEMMA InFlightRests ==
  ASSUME NEW r \in Runners, pc'[r] = pc[r], plan'[r] = plan[r], last'[r] = last[r]
  PROVE  InFlight(r)' = InFlight(r)
BY DEF InFlight, Batch

\* What is accounted for depends on the checkpoint and on the runners of the project.
LEMMA AccountedKept ==
  ASSUME NEW p \in Projects, point'[p] = point[p], goal'[p] = goal[p],
         \A q \in Runners : (target[q] = p /\ InFlight(q) # {}) =>
           target'[q] = p /\ InFlight(q) \subseteq InFlight(q)'
  PROVE  Accounted(p) \subseteq Accounted(p)'
<1>1. Covered(p, point[p].done)' = Covered(p, point[p].done)
  BY DEF Covered
<1>2. ASSUME NEW r \in Runners, target[r] = p, NEW x \in InFlight(r) PROVE x \in Accounted(p)'
  BY <1>2 DEF Accounted
<1> QED BY <1>1, <1>2 DEF Accounted

\* Who leaves inside a batch is counted; who leaves elsewhere had nothing in flight.
LEMMA CutLeave ==
  ASSUME TypeOK, TypeOK', CutInv, NEW r \in Runners,
         NEW next \in {"off", "idle", "ended"} \cup Settling, Leave(r, next),
         UNCHANGED <<stored, goal, tainted>>,
         NEW p \in Projects,
         point'[p] = point[p] \/ point'[p].state # "open"
  PROVE  Bounded(p)'
<1>1. CASE point'[p].state # "open"
  BY <1>1 DEF Bounded
<1>2. CASE point'[p] = point[p]
  <2>1. cuts[p] \in Nat /\ cuts \in [Projects -> Nat]
    BY DEF TypeOK
  <2>2. \A q \in Runners \ {r} : InFlight(q)' = InFlight(q) /\ target'[q] = target[q]
    BY InFlightRests DEF Leave, TypeOK
  <2>3. CASE InFlight(r) # {} /\ target[r] = p
    <3>1. pc[r] \in {"totals", "advance"}
      BY <2>3 DEF InFlight
    <3>2. cuts'[p] = cuts[p] + 1
      BY <2>1, <2>3, <3>1 DEF Leave
    <3> QED BY <1>2, <2>1, <3>2, BoundRests DEF CutInv
  <2>4. CASE ~ (InFlight(r) # {} /\ target[r] = p)
    <3>1. cuts'[p] >= cuts[p]
      BY <2>1 DEF Leave
    <3>2. Accounted(p) \subseteq Accounted(p)'
      BY <1>2, <2>2, <2>4, AccountedKept
    <3> QED BY <1>2, <3>1, <3>2, BoundRests DEF CutInv
  <2> QED BY <2>3, <2>4
<1> QED BY <1>1, <1>2

\* A runner that begins has nothing in flight, before or after.
LEMMA CutBegin ==
  ASSUME TypeOK, TypeOK', CutInv, NEW r \in Runners, NEW o \in Projects, Begin(r, o),
         pc[r] \notin Migrating, UNCHANGED <<point, stored, goal, plan, last, cuts>>,
         NEW p \in Projects
  PROVE  Bounded(p)'
<1>1. \A q \in Runners \ {r} : InFlight(q)' = InFlight(q) /\ target'[q] = target[q]
  BY InFlightRests DEF Begin, TypeOK
<1>2. InFlight(r) = {}
  BY DEF InFlight, Migrating
<1>3. Accounted(p) \subseteq Accounted(p)'
  BY <1>1, <1>2, AccountedKept
<1>4. cuts'[p] >= cuts[p]
  BY DEF TypeOK
<1>5. p \in tainted => p \in tainted'
  BY DEF Begin
<1> QED BY <1>3, <1>4, <1>5, BoundRests DEF CutInv

\* A step of one runner leaves the bounds of the other projects alone.
LEMMA CutElsewhere ==
  ASSUME TypeOK, TypeOK', CutInv, NEW r \in Runners, Only(r),
         NEW p \in Projects \ {target[r]}, cuts'[p] = cuts[p]
  PROVE  Bounded(p)'
<1>1. \A q \in Runners : target[q] = p => target'[q] = p /\ InFlight(q)' = InFlight(q)
  BY InFlightRests DEF Only
<1>2. Accounted(p) \subseteq Accounted(p)'
  BY <1>1, AccountedKept DEF Only
<1>3. cuts'[p] >= cuts[p]
  BY DEF TypeOK
<1> QED BY <1>2, <1>3, BoundRests DEF CutInv, Only

\* Nobody else migrates an untainted project, and who copies it is at its checkpoint.
LEMMA CopiesAlone ==
  ASSUME BackInv, NEW r \in Runners, pc[r] \in Copying, target[r] \notin tainted
  PROVE  /\ point[target[r]].state = "open"
         /\ plan[r] = goal[target[r]] /\ last[r] = point[target[r]].done
         /\ Accounted(target[r]) = Covered(target[r], last[r]) \cup InFlight(r)
<1>1. /\ point[target[r]].state = "open"
      /\ plan[r] = goal[target[r]] /\ last[r] = point[target[r]].done
  BY DEF BackInv, CopiesOpen
<1>2. ASSUME NEW q \in Runners \ {r}, target[q] = target[r] PROVE InFlight(q) = {}
  <2>1. pc[q] \notin Migrating
    BY <1>2 DEF BackInv, Entangled, Copying, Migrating
  <2> QED BY <2>1 DEF InFlight, Migrating
<1> QED BY <1>1, <1>2 DEF Accounted

\* The next batch has no row of the batches behind: a plan names a row once.
LEMMA BatchIsNew ==
  ASSUME TypeOK, Plain, NEW r \in Runners, pc[r] \in Copying, plan[r] = goal[target[r]]
  PROVE  Batch(r) \cap Covered(target[r], last[r]) = {}
<1>1. target[r] \in Projects /\ last[r] * BatchSize \in Int
  <2>1. last[r] \in Nat /\ BatchSize \in Nat
    BY EtlConstants DEF TypeOK
  <2>2. last[r] * BatchSize \in Int
    BY <2>1
  <2> QED BY <2>2 DEF TypeOK, Copying, Migrating
<1>2. DOMAIN goal[target[r]] \subseteq Int
  BY <1>1 DEF TypeOK
<1>3. ASSUME NEW x \in Batch(r), x \in Covered(target[r], last[r]) PROVE FALSE
  <2>1. PICK i \in DOMAIN goal[target[r]] : x = goal[target[r]][i] /\ last[r] * BatchSize < i
    BY DEF Batch
  <2>2. PICK k \in DOMAIN goal[target[r]] : x = goal[target[r]][k] /\ k <= last[r] * BatchSize
    BY <1>3 DEF Covered
  <2>3. i = k
    BY <1>1, <2>1, <2>2 DEF Plain, IsInjective
  <2> QED BY <1>1, <1>2, <2>1, <2>2, <2>3
<1> QED BY <1>3

\* An insert adds a copy of rows that were not accounted for and now are.
LEMMA CutOfSeeding ==
  ASSUME BackInv, TypeOK', CutInv, NEW r \in Runners, SeedPoints(r) \/ SeedTotals(r),
         NEW p \in Projects
  PROVE  Bounded(p)'
<1> DEFINE o == target[r]
<1> USE DEF BackInv
<1>1. pc[r] \in Migrating /\ pc[r] \in Copying /\ o \in Projects
  BY DEF SeedPoints, SeedTotals, Migrating, Copying, TypeOK
<1>2. PICK S \in {Batch(r) \ Totals, Batch(r) \cap Totals} :
        /\ Seeded(o, S)
        /\ \/ pc[r] = "points" /\ pc'[r] = "totals" /\ S = Batch(r) \ Totals
           \/ pc[r] = "totals" /\ pc'[r] = "advance" /\ S = Batch(r) \cap Totals
  BY DEF SeedPoints, SeedTotals, TypeOK
<1>3. /\ UNCHANGED <<point, goal, target, plan, last, tangled, tainted, cuts>>
      /\ \A q \in Runners \ {r} : pc'[q] = pc[q]
  BY DEF SeedPoints, SeedTotals, TypeOK, postgres, history
<1>4. /\ \A q \in Projects \ {o} : stored'[q] = stored[q]
      /\ \A x \in Rows : stored'[o][x] = IF x \in S THEN stored[o][x] + 1 ELSE stored[o][x]
  BY <1>1, <1>2 DEF Seeded, TypeOK
<1>5. Only(r)
  BY <1>1, <1>2, <1>3, <1>4 DEF Only, Migrating
<1>6. CASE p # o
  BY <1>3, <1>5, <1>6, CutElsewhere
<1>7. CASE p = o
  <2>1. SUFFICES ASSUME o \notin tainted
                 PROVE  \A x \in Rows : /\ stored'[o][x] <= 1 + cuts[o]
                                        /\ x \notin Accounted(o)' => stored'[o][x] <= cuts[o]
    BY <1>3, <1>7 DEF Bounded
  <2>2. /\ point[o].state = "open" /\ plan[r] = goal[o]
        /\ Accounted(o) = Covered(o, last[r]) \cup InFlight(r)
    BY <1>1, <2>1, CopiesAlone
  <2>3. S \cap Accounted(o) = {}
    <3>1. Batch(r) \cap Covered(o, last[r]) = {}
      BY <1>1, <2>2, BatchIsNew DEF CutInv
    <3>2. S \cap InFlight(r) = {}
      BY <1>2 DEF InFlight
    <3> QED BY <1>2, <2>2, <3>1, <3>2
  <2>4. Accounted(o) \cup S \subseteq Accounted(o)'
    <3>1. Batch(r)' = Batch(r)
      BY <1>3 DEF Batch
    <3>2. InFlight(r) \cup S \subseteq InFlight(r)'
      BY <1>2, <3>1 DEF InFlight
    <3>3. \A q \in Runners : InFlight(q) \subseteq InFlight(q)'
      BY <1>3, <3>2, InFlightRests
    <3>4. Accounted(o) \subseteq Accounted(o)'
      BY <1>1, <1>3, <3>3, AccountedKept
    <3>5. InFlight(r)' \subseteq Accounted(o)'
      BY <1>3 DEF Accounted
    <3> QED BY <3>2, <3>4, <3>5
  <2>5. TAKE x \in Rows
  <2>6. stored[o][x] \in Nat /\ cuts[o] \in Nat
    BY <1>1 DEF TypeOK
  <2>7. /\ stored[o][x] <= 1 + cuts[o]
        /\ x \notin Accounted(o) => stored[o][x] <= cuts[o]
    BY <1>1, <2>1, <2>2 DEF CutInv, Bounded
  <2>8. CASE x \in S
    BY <1>4, <2>3, <2>4, <2>6, <2>7, <2>8
  <2>9. CASE x \notin S
    BY <1>4, <2>4, <2>6, <2>7, <2>9
  <2> QED BY <2>8, <2>9
<1> QED BY <1>6, <1>7

\* The checkpoint takes over what was in flight.
LEMMA CutOfAdvance ==
  ASSUME BackInv, TypeOK', CutInv, NEW r \in Runners, Advance(r), NEW p \in Projects
  PROVE  Bounded(p)'
<1> DEFINE o == target[r]
<1> USE DEF BackInv
<1>1. pc[r] = "advance" /\ o \in Projects /\ last[r] \in Nat
  BY DEF Advance, Migrating, TypeOK
<1>2. /\ UNCHANGED <<stored, goal, target, plan, tangled, tainted, cuts>>
      /\ \A q \in Runners \ {r} : pc'[q] = pc[q] /\ last'[q] = last[q]
      /\ \A q \in Projects \ {o} : point'[q] = point[q]
      /\ pc'[r] \in {"points", "finish"}
      /\ point'[o].state = point[o].state /\ point'[o].done = last[r] + 1
  BY <1>1 DEF Advance, LoopAt, TypeOK, history
<1>3. Only(r)
  BY <1>1, <1>2 DEF Only, Migrating
<1>4. CASE p # o
  BY <1>2, <1>3, <1>4, CutElsewhere
<1>5. CASE p = o
  <2>1. SUFFICES ASSUME o \notin tainted PROVE Bounded(o)'
    BY <1>2, <1>5 DEF Bounded
  <2>2. /\ plan[r] = goal[o]
        /\ Accounted(o) = Covered(o, last[r]) \cup InFlight(r)
    BY <1>1, <2>1, CopiesAlone DEF Copying
  <2>3. InFlight(r) = Batch(r)
    BY <1>1 DEF InFlight
  <2>4. Covered(o, last[r]) \cup Batch(r) \subseteq Covered(o, last[r] + 1)
    <3>1. /\ last[r] * BatchSize \in Int /\ (last[r] + 1) * BatchSize \in Int
          /\ last[r] * BatchSize <= (last[r] + 1) * BatchSize
      <4>1. BatchSize \in Nat
        BY EtlConstants
      <4>2. (last[r] + 1) * BatchSize = last[r] * BatchSize + BatchSize
        BY <1>1, <4>1
      <4>3. last[r] * BatchSize \in Int
        BY <1>1, <4>1
      <4> QED BY <4>1, <4>2, <4>3
    <3>2. DOMAIN goal[o] \subseteq Int
      BY <1>1 DEF TypeOK
    <3>3. \A k \in DOMAIN goal[o] : k <= last[r] * BatchSize => k <= (last[r] + 1) * BatchSize
      BY <3>1, <3>2
    <3> QED BY <2>2, <3>3 DEF Covered, Batch
  <2>5. Covered(o, last[r] + 1) \subseteq Accounted(o)'
    BY <1>2 DEF Accounted, Covered
  <2>6. \A x \in Rows : x \notin Accounted(o)' => x \notin Accounted(o)
    BY <2>2, <2>3, <2>4, <2>5
  <2> QED BY <1>1, <1>2, <2>1, <2>6 DEF CutInv, Bounded
<1> QED BY <1>4, <1>5

\* Reads and wipes insert nothing, and a fresh run opens an empty copy without cuts.
LEMMA CutOfPreparing ==
  ASSUME BackInv, TypeOK', CutInv, NEW r \in Runners, NEW p \in Projects,
         Materialise(r) \/ ReadCheckpoint(r) \/ WipePoints(r) \/ WipeTotals(r) \/ Reset(r)
  PROVE  Bounded(p)'
<1> DEFINE o == target[r]
<1> USE DEF BackInv
<1>1. /\ pc[r] \in {"plan", "look"} \cup Wiping /\ pc[r] \in Migrating
      /\ o \in Projects /\ InFlight(r) = {}
  BY DEF Materialise, ReadCheckpoint, WipePoints, WipeTotals, Reset, Wiping, Migrating,
     InFlight, TypeOK
<1>2. /\ target' = target
      /\ \A q \in Runners \ {r} : pc'[q] = pc[q] /\ plan'[q] = plan[q] /\ last'[q] = last[q]
  BY DEF Materialise, ReadCheckpoint, WipePoints, WipeTotals, Reset, TypeOK, postgres, history
<1>3. \A q \in Projects \ {o} :
        /\ point'[q] = point[q] /\ stored'[q] = stored[q] /\ goal'[q] = goal[q]
        /\ cuts'[q] = cuts[q] /\ (q \in tainted => q \in tainted')
  <2>1. CASE Materialise(r) \/ ReadCheckpoint(r)
    BY <2>1 DEF Materialise, ReadCheckpoint, postgres, history
  <2>2. CASE WipePoints(r) \/ WipeTotals(r)
    BY <2>2 DEF WipePoints, WipeTotals, TypeOK, postgres, history
  <2>3. CASE Reset(r)
    BY <2>3 DEF Reset, TypeOK
  <2> QED BY <2>1, <2>2, <2>3
<1>4. \A q \in Runners \ {r} : InFlight(q)' = InFlight(q)
  BY <1>2, InFlightRests
<1>5. \A q \in Projects : cuts[q] \in Nat /\ cuts'[q] \in Nat
  BY DEF TypeOK
<1>6. CASE p # o
  <2>1. Accounted(p) \subseteq Accounted(p)'
    BY <1>1, <1>2, <1>3, <1>4, <1>6, AccountedKept
  <2> QED BY <1>3, <1>5, <1>6, <2>1, BoundRests DEF CutInv
<1>7. CASE p = o /\ (Materialise(r) \/ ReadCheckpoint(r))
  <2>1. /\ point' = point /\ stored' = stored /\ goal' = goal /\ cuts' = cuts
        /\ p \in tainted => p \in tainted'
    BY <1>7 DEF Materialise, ReadCheckpoint, postgres, history
  <2>2. Accounted(p) \subseteq Accounted(p)'
    BY <1>1, <1>2, <1>4, <2>1, AccountedKept
  <2> QED BY <1>5, <2>1, <2>2, BoundRests DEF CutInv
<1>8. CASE p = o /\ (WipePoints(r) \/ WipeTotals(r))
  <2>1. point' = point /\ tainted' = tainted /\ pc[r] \in Wiping
    BY <1>8 DEF WipePoints, WipeTotals, postgres, history, Wiping
  <2> QED BY <1>8, <2>1 DEF WipesClosed, Bounded
<1>9. CASE p = o /\ Reset(r)
  <2>1. SUFFICES ASSUME p \notin tainted' PROVE \A x \in Rows : stored'[p][x] = 0 /\ cuts'[p] = 0
    BY DEF Bounded
  <2>2. r \notin tangled
    BY <1>9, <2>1 DEF Reset, Tainting
  <2>3. \A x \in Rows : stored[p][x] = 0
    BY <1>9, <2>2 DEF Reset, WipedSoFar
  <2> QED BY <1>9, <2>3 DEF Reset, TypeOK
<1> QED BY <1>6, <1>7, <1>8, <1>9

\* Every step keeps the bounds.
LEMMA CutNext ==
  ASSUME BackInv, TypeOK', CutInv, [Next]_vars
  PROVE  CutInv'
<1> USE DEF BackInv
<1>1. Plain'
  BY PlainNext DEF CutInv
<1> SUFFICES ASSUME NEW p \in Projects PROVE Bounded(p)'
  BY <1>1 DEF CutInv
<1>2. CASE UNCHANGED <<point, stored, runnerVars, history>>
  <2>1. Accounted(p)' = Accounted(p)
    BY <1>2 DEF Accounted, Covered, InFlight, Batch, runnerVars, history
  <2>2. Bounded(p)
    BY DEF CutInv
  <2> QED BY <1>2, <2>1, <2>2 DEF Bounded, runnerVars, history
<1>3. ASSUME NEW w \in Workers, Boot(w) PROVE Bounded(p)'
  <2>1. w \in Runners /\ InFlight(w) = {}
    BY <1>3 DEF Boot, Runners, InFlight
  <2>2. \A q \in Runners \ {w} : InFlight(q)' = InFlight(q)
    BY <1>3, InFlightRests DEF Boot, TypeOK
  <2>3. Accounted(p) \subseteq Accounted(p)'
    BY <1>3, <2>1, <2>2, AccountedKept DEF Boot, postgres, history
  <2>4. cuts'[p] >= cuts[p]
    BY <1>3 DEF Boot, history, TypeOK
  <2> QED BY <1>3, <2>3, <2>4, BoundRests DEF Boot, postgres, history, CutInv
<1>4. ASSUME NEW w \in Workers, Stop(w) \/ SettleStep(w) PROVE Bounded(p)'
  <2>1. /\ \E next \in {"off", "idle"} : Leave(w, next)
        /\ UNCHANGED <<point, stored, goal, tainted>>
    BY <1>4 DEF Stop, SettleStep, MarkDone, MarkFailed, Marked, LoseMark, postgres
  <2>2. w \in Runners
    BY DEF Runners
  <2> QED BY <2>1, <2>2, CutLeave
<1>5. ASSUME NEW w \in Workers, ClaimJob(w) PROVE Bounded(p)'
  <2>1. /\ \E j \in Jobs : Begin(w, ProjectOf[j])
        /\ UNCHANGED <<point, stored, goal, plan, last, cuts>>
    BY <1>5 DEF ClaimJob, Claimable
  <2>2. /\ w \in Runners /\ pc[w] \notin Migrating
        /\ \A j \in Jobs : ProjectOf[j] \in Projects
    BY <1>5, EtlConstants DEF Runners, ClaimJob, Migrating
  <2> QED BY <2>1, <2>2, CutBegin
<1>6. ASSUME NEW c \in Commands, NEW o \in Projects, CommandStarts(c, o) PROVE Bounded(p)'
  <2>1. /\ c \in Runners /\ pc[c] \notin Migrating
        /\ Begin(c, o) /\ UNCHANGED <<point, stored, goal, plan, last, cuts>>
    BY <1>6 DEF CommandStarts, Runners, postgres, Migrating
  <2> QED BY <2>1, CutBegin
<1>7. ASSUME NEW r \in Runners, Finish(r) \/ Fail(r) PROVE Bounded(p)'
  <2>1. /\ \E next \in {"ended"} \cup Settling : Leave(r, next)
        /\ UNCHANGED <<stored, goal, tainted>>
    BY <1>7 DEF Finish, Fail, Settling, postgres
  <2>2. point'[p] = point[p] \/ point'[p].state # "open"
    BY <1>7 DEF Finish, Fail, TypeOK, postgres
  <2> QED BY <2>1, <2>2, CutLeave
<1>8. ASSUME NEW r \in Runners, MigrationStep(r) PROVE Bounded(p)'
  BY <1>7, <1>8, CutOfPreparing, CutOfSeeding, CutOfAdvance DEF MigrationStep
<1>9. ASSUME NEW j \in Jobs, Enqueue(j) PROVE Bounded(p)'
  BY <1>2, <1>9 DEF Enqueue
<1>10. ASSUME NEW o \in Projects, NEW x \in Rows, SourceChanges(o, x) PROVE Bounded(p)'
  BY <1>2, <1>10 DEF SourceChanges
<1> QED BY <1>2, <1>3, <1>4, <1>5, <1>6, <1>8, <1>9, <1>10 DEF Next, vars, postgres

\* For any order of the rows, any batch size and any interruptions between batches, what
\* one runner at a time has migrated is in the end what a single pass leaves
\* (migrate_project_resumable): the finish finds every row, and one copy of it.
THEOREM BoundaryCutsConvergeAlways == Spec => BoundaryCutsConverge
<1>1. Init => CutInv
  BY DEF Init, CutInv, Plain, Bounded, IsInjective
<1>2. BackInv /\ CutInv /\ Next =>
        \A p \in Projects \ tainted :
          (point[p].state = "open" /\ point'[p].state = "finished" /\ cuts[p] = 0) =>
            stored[p] = SinglePass(Range(goal[p]))
  <2>1. SUFFICES ASSUME BackInv, CutInv, Next, NEW p \in Projects \ tainted,
                        point[p].state = "open", point'[p].state = "finished", cuts[p] = 0
                 PROVE  stored[p] = SinglePass(Range(goal[p]))
    OBVIOUS
  <2>2. stored[p] \in [Rows -> Nat]
    BY <2>1 DEF BackInv, TypeOK
  <2>3. {x \in Rows : stored[p][x] > 0} = Range(goal[p])
    BY <2>1, FinishFindsAll
  <2>4. \A x \in Rows : stored[p][x] <= 1
    BY <2>1, <2>2 DEF CutInv, Bounded
  <2>5. \A x \in Rows : stored[p][x] = IF x \in Range(goal[p]) THEN 1 ELSE 0
    BY <2>2, <2>3, <2>4
  <2> QED BY <2>2, <2>5 DEF SinglePass
<1> QED BY <1>1, <1>2, BackInit, BackNext, CutNext, TypeCorrect, PTL DEF Spec, BoundaryCutsConverge
=============================================================================
