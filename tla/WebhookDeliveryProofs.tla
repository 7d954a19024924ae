------------------------ MODULE WebhookDeliveryProofs ------------------------
(***************************************************************************)
(* Proofs about WebhookDelivery, for every number of webhooks, events and  *)
(* pollers, every batch limit and every threshold.                         *)
(***************************************************************************)
EXTENDS WebhookDelivery, FiniteSetTheorems, TLAPS

-----------------------------------------------------------------------------
(* Types                                                                   *)

\* The initial state is well typed.
LEMMA InitTypeOK == Init => TypeOK
BY WebhookConstants DEF Init, TypeOK, DeliveryRows, Outcomes, TaskStates, Answers, Tasks

\* Producers, operators and processes.
LEMMA TypeOfProducers ==
  ASSUME TypeOK,
         \/ \E e \in Events :
              \/ Emit(e) \/ AbortFanOut(e)
              \/ \E w \in Webhooks : InsertRow(w, e)
         \/ \E w \in Webhooks : Reenable(w)
  PROVE  TypeOK'
<1> USE WebhookConstants DEF dbVars, producerVars, pollerVars, history
<1>1. ASSUME NEW e \in Events, Emit(e) PROVE TypeOK'
  BY <1>1 DEF Emit, TypeOK, DeliveryRows
<1>2. ASSUME NEW e \in Events, AbortFanOut(e) PROVE TypeOK'
  BY <1>2 DEF AbortFanOut, TypeOK, DeliveryRows
<1>3. ASSUME NEW e \in Events, NEW w \in Webhooks, InsertRow(w, e) PROVE TypeOK'
  <2> DEFINE d == <<w, e>>
  <2>1. d \in Deliveries /\ d \notin DeliveryRows
    BY <1>3 DEF InsertRow, TypeOK, Deliveries
  <2>2. DeliveryRows' = DeliveryRows \cup {d}
    BY <1>3, <2>1 DEF InsertRow, TypeOK, DeliveryRows
  <2>3. /\ \A c \in DeliveryRows' : created'[c] < clock'
        /\ \A b, c \in DeliveryRows' : created'[b] = created'[c] => b = c
    BY <1>3, <2>1, <2>2 DEF InsertRow, TypeOK, DeliveryRows
  <2>4. \A x \in Webhooks, y \in Events :
          /\ x \in fan'[y] => emitted'[y] /\ <<x, y>> \notin DeliveryRows'
          /\ <<x, y>> \in DeliveryRows' => emitted'[y]
    BY <1>3, <2>2 DEF InsertRow, TypeOK
  <2> QED BY <1>3, <2>1, <2>3, <2>4 DEF InsertRow, TypeOK
<1>4. ASSUME NEW w \in Webhooks, Reenable(w) PROVE TypeOK'
  BY <1>4 DEF Reenable, TypeOK, DeliveryRows
<1> QED BY <1>1, <1>2, <1>3, <1>4

\* The sweep of a poller.
LEMMA TypeOfSweeps ==
  ASSUME TypeOK,
         \E p \in Pollers : Boot(p) \/ Stop(p) \/ ListDue(p) \/ SweepStep(p)
  PROVE  TypeOK'
<1> USE DEF dbVars, producerVars, history, TypeOK, DeliveryRows
<1>1. ASSUME NEW p \in Pollers, Boot(p) PROVE TypeOK'
  BY <1>1 DEF Boot
<1>2. ASSUME NEW p \in Pollers, TasksAborted(p)
      PROVE  /\ batch' \in [Pollers -> SUBSET Deliveries]
             /\ task' \in [Tasks -> TaskStates]
             /\ excused' \subseteq Webhooks
  BY <1>2 DEF TasksAborted, TaskStates
<1>3. ASSUME NEW p \in Pollers, Stop(p) PROVE TypeOK'
  BY <1>2, <1>3 DEF Stop
<1>4. ASSUME NEW p \in Pollers, ListDue(p) PROVE TypeOK'
  <2>1. Due \subseteq Deliveries
    BY DEF Due, Pending
  <2> QED BY <1>4, <2>1 DEF ListDue
<1>5. ASSUME NEW p \in Pollers, NEW d \in Deliveries, LookUp(p, d) PROVE TypeOK'
  BY <1>5 DEF LookUp, TaskStates
<1>6. ASSUME NEW p \in Pollers, AbortSweep(p) PROVE TypeOK'
  BY <1>2, <1>6 DEF AbortSweep
<1>7. ASSUME NEW p \in Pollers, EndSweep(p) PROVE TypeOK'
  BY <1>7 DEF EndSweep
<1> QED BY <1>1, <1>3, <1>4, <1>5, <1>6, <1>7 DEF SweepStep

\* A task on a row.
LEMMA TypeOfTasks ==
  ASSUME TypeOK, NEW p \in Pollers, NEW d \in Deliveries, TaskStep(p, d),
         status[d] # "none"
  PROVE  TypeOK'
<1> USE DEF dbVars, producerVars, history, TypeOK
<1>1. CASE Post(p, d)
  <2>1. PICK a \in Answers :
          /\ task' = [task EXCEPT ![<<p, d>>] = a]
          /\ heard' = heard \cup {<<d, a>>}
    BY <1>1 DEF Post
  <2>2. task' \in [Tasks -> TaskStates]
    BY <2>1 DEF TaskStates
  <2>3. heard' \subseteq Deliveries \X Answers
    BY <2>1
  <2> QED BY <1>1, <2>2, <2>3 DEF Post, DeliveryRows
<1>2. CASE Mark(p, d)
  <2>1. /\ <<p, d>> \in Tasks
        /\ task' \in [Tasks -> TaskStates]
        /\ recorded' \subseteq Tasks
    BY <1>2 DEF Mark, Tasks, TaskStates
  <2>2. OutcomeOf[task[<<p, d>>]] \in Outcomes
    BY <1>2 DEF Mark, OutcomeOf, Outcomes, Answers
  <2>3. /\ status' \in [Deliveries -> {"none", "pending"} \cup Outcomes]
        /\ \A c \in Deliveries : status'[c] = "none" <=> status[c] = "none"
    BY <1>2, <2>2 DEF Mark, Marked, Outcomes
  <2>4. DeliveryRows' = DeliveryRows
    BY <2>3 DEF DeliveryRows
  <2> QED BY <1>2, <2>1, <2>3, <2>4 DEF Mark
<1>3. CASE LoseMark(p, d)
  BY <1>3 DEF LoseMark, DeliveryRows, TaskStates
<1>4. CASE Count(p, d)
  BY <1>4 DEF Count, DeliveryRows, TaskStates
<1>5. CASE Disable(p, d)
  BY <1>5 DEF Disable, DeliveryRows, TaskStates, Deliveries
<1>6. CASE LoseCheck(p, d)
  BY <1>6 DEF LoseCheck, DeliveryRows, TaskStates, Deliveries
<1> QED BY <1>1, <1>2, <1>3, <1>4, <1>5, <1>6 DEF TaskStep

-----------------------------------------------------------------------------
(* The inductive invariant                                                 *)

\* Tasks and batches exist only inside a sweep; a row is in the batch or has a task,
\* not both, and either way it exists.
SweepingOn(p, d) ==
  /\ d \in batch[p] => phase[p] = "sweep" /\ task[<<p, d>>] = "none" /\ status[d] # "none"
  /\ task[<<p, d>>] # "none" => phase[p] = "sweep" /\ status[d] # "none"

Sweeping == \A p \in Pollers, d \in Deliveries : SweepingOn(p, d)

\* A task holds an answer its target gave.
AnswersHeard ==
  \A t \in Tasks : task[t] \in Answers => <<t[2], task[t]>> \in heard

\* Once a poller has run its mark for a row the row is settled, and the poller neither
\* has it in its batch nor posts it.
MarkedOnce ==
  \A t \in recorded :
    /\ status[t[2]] \in Outcomes
    /\ t[2] \notin batch[t[1]]
    /\ task[t] \notin Answers \cup {"post"}

Inv == TypeOK /\ Sweeping /\ AnswersHeard /\ MarkedOnce /\ AnswerBacksOutcome

\* The initial state satisfies Inv.
LEMMA InitInv == Init => Inv
<1> SUFFICES ASSUME Init PROVE Inv
  OBVIOUS
<1>1. TypeOK
  BY InitTypeOK
<1>2. Sweeping
  BY DEF Init, Sweeping, SweepingOn, Tasks
<1>3. AnswersHeard /\ MarkedOnce /\ AnswerBacksOutcome
  BY DEF Init, AnswersHeard, MarkedOnce, AnswerBacksOutcome, Answers, Outcomes
<1> QED BY <1>1, <1>2, <1>3 DEF Inv

\* Steps that leave rows, tasks and answers alone.
LEMMA InvOfProducers ==
  ASSUME Inv,
         \/ \E e \in Events : Emit(e) \/ AbortFanOut(e)
         \/ \E w \in Webhooks : Reenable(w)
         \/ \E p \in Pollers : Boot(p)
  PROVE  Inv'
<1>1. TypeOK'
  BY TypeOfProducers, TypeOfSweeps DEF Inv
<1>2. /\ UNCHANGED <<status, batch, task, heard, recorded>>
      /\ phase' = phase \/ \E p \in Pollers : phase[p] = "down" /\ phase' = [phase EXCEPT ![p] = "idle"]
  BY DEF Emit, AbortFanOut, Reenable, Boot, dbVars, producerVars, pollerVars, history
<1>3. Sweeping'
  <2> SUFFICES ASSUME NEW q \in Pollers, NEW d \in Deliveries PROVE SweepingOn(q, d)'
    BY DEF Sweeping
  <2>1. SweepingOn(q, d)
    BY DEF Inv, Sweeping
  <2>2. phase[q] = "sweep" => phase'[q] = "sweep"
    BY <1>2 DEF Inv, TypeOK
  <2> QED BY <1>2, <2>1, <2>2 DEF SweepingOn
<1> QED BY <1>1, <1>2, <1>3 DEF Inv, AnswersHeard, MarkedOnce, AnswerBacksOutcome

\* A new row is pending and nobody has a task on it.
LEMMA InvOfInsert ==
  ASSUME Inv, NEW w \in Webhooks, NEW e \in Events, InsertRow(w, e)
  PROVE  Inv'
<1> USE DEF InsertRow, pollerVars, history
<1>1. TypeOK'
  BY TypeOfProducers DEF Inv
<1>2. <<w, e>> \in Deliveries /\ status[<<w, e>>] = "none"
  BY DEF Inv, TypeOK, DeliveryRows, Deliveries
<1>3. Sweeping'
  <2> SUFFICES ASSUME NEW q \in Pollers, NEW d \in Deliveries PROVE SweepingOn(q, d)'
    BY DEF Sweeping
  <2>1. SweepingOn(q, d)
    BY DEF Inv, Sweeping
  <2>2. status[d] # "none" => status'[d] # "none"
    BY <1>2 DEF Inv, TypeOK
  <2> QED BY <2>1, <2>2 DEF SweepingOn
<1>4. MarkedOnce' /\ AnswerBacksOutcome'
  <2>1. \A d \in Deliveries : status[d] \in Outcomes => d # <<w, e>>
    BY <1>2 DEF Outcomes
  <2>2. \A d \in Deliveries : d # <<w, e>> => status'[d] = status[d]
    BY DEF Inv, TypeOK
  <2>3. \A t \in recorded : t[2] \in Deliveries
    BY DEF Inv, TypeOK, Tasks
  <2>4. status'[<<w, e>>] \notin Outcomes
    BY <1>2 DEF Inv, TypeOK, Outcomes
  <2> QED BY <2>1, <2>2, <2>3, <2>4 DEF Inv, MarkedOnce, AnswerBacksOutcome
<1>5. AnswersHeard'
  BY DEF Inv, AnswersHeard
<1> QED BY <1>1, <1>3, <1>4, <1>5 DEF Inv

\* A sweep begins with rows that nobody here has marked, goes on, or is cut short.
LEMMA InvOfSweeps ==
  ASSUME Inv, NEW p \in Pollers, Stop(p) \/ ListDue(p) \/ SweepStep(p)
  PROVE  Inv'
<1> USE DEF dbVars, producerVars, history
<1>1. TypeOK'
  BY TypeOfSweeps DEF Inv
<1>2. CASE Stop(p) \/ AbortSweep(p)
  <2>1. /\ UNCHANGED <<status, heard, recorded>>
        /\ TasksAborted(p)
        /\ \A q \in Pollers : q # p => phase'[q] = phase[q]
    BY <1>2 DEF Stop, AbortSweep, Inv, TypeOK
  <2>2. /\ batch'[p] = {}
        /\ \A q \in Pollers : q # p => batch'[q] = batch[q]
        /\ \A t \in Tasks : task'[t] = IF t[1] = p THEN "none" ELSE task[t]
    BY <2>1 DEF TasksAborted, Inv, TypeOK
  <2>3. Sweeping'
    BY <2>1, <2>2 DEF Inv, Sweeping, SweepingOn, Tasks
  <2>4. AnswersHeard' /\ MarkedOnce' /\ AnswerBacksOutcome'
    BY <2>1, <2>2 DEF Inv, TypeOK, AnswersHeard, MarkedOnce, AnswerBacksOutcome, Answers, Tasks
  <2> QED BY <1>1, <2>3, <2>4 DEF Inv
<1>3. CASE ListDue(p)
  <2>1. /\ UNCHANGED <<status, task, heard, recorded>>
        /\ phase[p] = "idle" /\ phase' = [phase EXCEPT ![p] = "sweep"]
        /\ batch' = [batch EXCEPT ![p] = Due]
    BY <1>3 DEF ListDue
  <2>2. \A d \in Due : d \in Deliveries /\ status[d] = "pending"
    BY DEF Due, Pending, DeliveryRows
  <2>3. \A d \in Deliveries : task[<<p, d>>] = "none"
    BY <2>1 DEF Inv, Sweeping, SweepingOn
  <2>4. Sweeping'
    <3> SUFFICES ASSUME NEW q \in Pollers, NEW d \in Deliveries PROVE SweepingOn(q, d)'
      BY DEF Sweeping
    <3>1. SweepingOn(q, d)
      BY DEF Inv, Sweeping
    <3>2. /\ phase'[p] = "sweep" /\ batch'[p] = Due
          /\ q # p => phase'[q] = phase[q] /\ batch'[q] = batch[q]
      BY <2>1 DEF Inv, TypeOK
    <3> QED BY <2>1, <2>2, <2>3, <3>1, <3>2 DEF SweepingOn
  <2>5. MarkedOnce'
    BY <2>1, <2>2 DEF Inv, TypeOK, MarkedOnce, Outcomes, Tasks
  <2> QED BY <1>1, <2>1, <2>4, <2>5 DEF Inv, AnswersHeard, AnswerBacksOutcome
<1>4. ASSUME NEW d \in Deliveries, LookUp(p, d) PROVE Inv'
  <2>1. /\ UNCHANGED <<status, phase, heard, recorded>>
        /\ d \in batch[p] /\ batch' = [batch EXCEPT ![p] = @ \ {d}]
        /\ \E s \in {"none", "post"} : task' = [task EXCEPT ![<<p, d>>] = s]
        /\ <<p, d>> \in Tasks
    BY <1>4 DEF LookUp, NextInBatch, Tasks
  <2>2. Sweeping'
    <3> SUFFICES ASSUME NEW q \in Pollers, NEW c \in Deliveries PROVE SweepingOn(q, c)'
      BY DEF Sweeping
    <3>1. SweepingOn(q, c) /\ SweepingOn(p, d)
      BY DEF Inv, Sweeping
    <3>2. /\ batch'[q] = IF q = p THEN batch[q] \ {d} ELSE batch[q]
          /\ <<q, c>> # <<p, d>> => task'[<<q, c>>] = task[<<q, c>>]
      BY <2>1 DEF Inv, TypeOK, Tasks
    <3> QED BY <2>1, <3>1, <3>2 DEF SweepingOn
  <2>3. <<p, d>> \notin recorded
    BY <2>1 DEF Inv, MarkedOnce
  <2>4. MarkedOnce' /\ AnswersHeard'
    BY <2>1, <2>3 DEF Inv, TypeOK, MarkedOnce, AnswersHeard, Answers, Tasks
  <2> QED BY <1>1, <2>1, <2>2, <2>4 DEF Inv, AnswerBacksOutcome
<1>5. CASE EndSweep(p)
  <2>1. /\ UNCHANGED <<status, batch, task, heard, recorded>>
        /\ phase' = [phase EXCEPT ![p] = "idle"]
        /\ batch[p] = {} /\ \A d \in Deliveries : task[<<p, d>>] = "none"
    BY <1>5 DEF EndSweep
  <2>2. Sweeping'
    <3> SUFFICES ASSUME NEW q \in Pollers, NEW d \in Deliveries PROVE SweepingOn(q, d)'
      BY DEF Sweeping
    <3>1. SweepingOn(q, d)
      BY DEF Inv, Sweeping
    <3>2. q # p => phase'[q] = phase[q]
      BY <2>1 DEF Inv, TypeOK
    <3> QED BY <2>1, <3>1, <3>2 DEF SweepingOn
  <2> QED BY <1>1, <2>1, <2>2 DEF Inv, AnswersHeard, MarkedOnce, AnswerBacksOutcome
<1> QED BY <1>2, <1>3, <1>4, <1>5 DEF SweepStep

\* A task posts, marks and checks a row of its own.
LEMMA InvOfTasks ==
  ASSUME Inv, NEW p \in Pollers, NEW d \in Deliveries, TaskStep(p, d)
  PROVE  Inv'
<1> USE DEF dbVars, producerVars, history
<1>1. /\ task[<<p, d>>] # "none" /\ <<p, d>> \in Tasks
      /\ status[d] # "none" /\ d \notin batch[p]
  BY DEF Inv, Sweeping, SweepingOn, Tasks, TaskStep, Post, Mark, LoseMark, Count, Disable,
         LoseCheck, Answers
<1>2. TypeOK'
  BY <1>1, TypeOfTasks DEF Inv
<1>3. /\ UNCHANGED <<phase, batch>>
      /\ \A t \in Tasks : t # <<p, d>> => task'[t] = task[t]
  BY DEF Inv, TypeOK, TaskStep, Post, Mark, LoseMark, Count, Disable, LoseCheck
<1>4. \A c \in Deliveries : status[c] # "pending" => status'[c] = status[c]
  BY DEF Inv, TypeOK, TaskStep, Post, Mark, Marked, LoseMark, Count, Disable, LoseCheck
<1>5. \A c \in Deliveries : status[c] = "pending" => status'[c] # "none"
  BY DEF Inv, TypeOK, TaskStep, Post, Mark, Marked, LoseMark, Count, Disable, LoseCheck,
         OutcomeOf, Answers
<1>6. Sweeping'
  <2> SUFFICES ASSUME NEW q \in Pollers, NEW c \in Deliveries PROVE SweepingOn(q, c)'
    BY DEF Sweeping
  <2>1. SweepingOn(q, c) /\ SweepingOn(p, d)
    BY DEF Inv, Sweeping
  <2>2. <<q, c>> \in Tasks
    BY DEF Tasks
  <2> QED BY <1>1, <1>3, <1>4, <1>5, <2>1, <2>2 DEF SweepingOn
<1>7. CASE Post(p, d)
  <2>1. PICK a \in Answers :
          /\ task' = [task EXCEPT ![<<p, d>>] = a]
          /\ heard' = heard \cup {<<d, a>>}
    BY <1>7 DEF Post
  <2>2. UNCHANGED <<status, recorded>>
    BY <1>7 DEF Post
  <2>3. AnswersHeard'
    BY <1>1, <1>3, <2>1 DEF Inv, TypeOK, AnswersHeard, Tasks
  <2>4. <<p, d>> \notin recorded
    BY <1>7 DEF Inv, MarkedOnce, Post
  <2>5. MarkedOnce'
    BY <1>3, <2>2, <2>4 DEF Inv, TypeOK, MarkedOnce
  <2>6. AnswerBacksOutcome'
    BY <2>1, <2>2 DEF Inv, AnswerBacksOutcome
  <2> QED BY <1>2, <1>6, <2>3, <2>5, <2>6 DEF Inv
<1>8. CASE Mark(p, d)
  <2> DEFINE a == task[<<p, d>>]
  <2>1. /\ a \in Answers
        /\ OutcomeOf[a] \in Outcomes
        /\ status' = [status EXCEPT ![d] = IF @ = "pending" THEN OutcomeOf[a] ELSE @]
        /\ task'[<<p, d>>] \in {"count", "none"}
        /\ heard' = heard /\ recorded' = recorded \cup {<<p, d>>}
    BY <1>1, <1>8 DEF Mark, Marked, Inv, TypeOK, OutcomeOf, Outcomes, Answers
  <2>2. status'[d] \in Outcomes
    BY <1>1, <2>1 DEF Inv, TypeOK
  <2>3. AnswersHeard'
    BY <1>3, <2>1 DEF Inv, AnswersHeard, Answers
  <2>4. MarkedOnce'
    BY <1>1, <1>3, <1>4, <2>1, <2>2 DEF Inv, TypeOK, MarkedOnce, Answers, Tasks, Outcomes
  <2>5. <<d, a>> \in heard
    BY <1>1, <2>1 DEF Inv, AnswersHeard
  <2>6. AnswerBacksOutcome'
    BY <2>1, <2>5 DEF Inv, TypeOK, AnswerBacksOutcome
  <2> QED BY <1>2, <1>6, <2>3, <2>4, <2>6 DEF Inv
<1>9. CASE LoseMark(p, d) \/ Count(p, d) \/ Disable(p, d) \/ LoseCheck(p, d)
  <2>1. /\ UNCHANGED <<status, heard, recorded>>
        /\ task'[<<p, d>>] \in {"none", "disable"}
    BY <1>1, <1>9 DEF LoseMark, Count, Disable, LoseCheck, Inv, TypeOK
  <2>2. AnswersHeard' /\ MarkedOnce'
    BY <1>3, <2>1 DEF Inv, TypeOK, AnswersHeard, MarkedOnce, Answers
  <2> QED BY <1>2, <1>6, <2>1, <2>2 DEF Inv, AnswerBacksOutcome
<1> QED BY <1>7, <1>8, <1>9 DEF TaskStep

\* Every step keeps Inv.
LEMMA NextInv == Inv /\ [Next]_vars => Inv'
<1> SUFFICES ASSUME Inv, [Next]_vars PROVE Inv'
  OBVIOUS
<1>1. CASE UNCHANGED vars
  BY <1>1 DEF vars, dbVars, producerVars, pollerVars, history, Inv, TypeOK, DeliveryRows, Sweeping,
              SweepingOn, AnswersHeard, MarkedOnce, AnswerBacksOutcome
<1>2. CASE Next
  BY <1>2, InvOfProducers, InvOfInsert, InvOfSweeps, InvOfTasks DEF Next
<1> QED BY <1>1, <1>2

\* Inv holds of every reachable state.
LEMMA SpecInv == Spec => []Inv
BY InitInv, NextInv, PTL DEF Spec

-----------------------------------------------------------------------------
(* Theorems                                                                *)

\* Types; created_at orders the rows, and a fan-out inserts no row twice.
THEOREM TypeCorrect == Spec => []TypeOK
<1>1. Inv => TypeOK
  BY DEF Inv
<1> QED BY SpecInv, <1>1, PTL

\* Whatever pollers, crashes and lost calls do, an outcome is an answer the target gave.
THEOREM OutcomesAreBacked == Spec => []AnswerBacksOutcome
<1>1. Inv => AnswerBacksOutcome
  BY DEF Inv
<1> QED BY SpecInv, <1>1, PTL

\* A poller that has run its mark for a row never posts the row again.
THEOREM PollersDoNotRepeat == Spec => []NoSelfRepeat
<1>1. Inv => NoSelfRepeat
  BY DEF Inv, MarkedOnce, NoSelfRepeat
<1> QED BY SpecInv, <1>1, PTL

\* An outcome does not change: every UPDATE is predicated on pending, and an INSERT
\* never meets a row that exists.
THEOREM OutcomesAreFinal == Spec => OutcomeIsFinal
<1>1. Inv /\ [Next]_vars =>
        [\A d \in Deliveries : status[d] \in Outcomes => status'[d] = status[d]]_vars
  <2> SUFFICES ASSUME Inv, Next, NEW d \in Deliveries, status[d] \in Outcomes
               PROVE  status'[d] = status[d]
    OBVIOUS
  <2>1. ASSUME NEW w \in Webhooks, NEW e \in Events, InsertRow(w, e)
        PROVE  status'[d] = status[d]
    BY <2>1 DEF InsertRow, Inv, TypeOK, DeliveryRows, Deliveries, Outcomes
  <2>2. ASSUME NEW p \in Pollers, NEW c \in Deliveries, TaskStep(p, c)
        PROVE  status'[d] = status[d]
    BY <2>2 DEF TaskStep, Post, Mark, Marked, LoseMark, Count, Disable, LoseCheck, dbVars,
                Inv, TypeOK, Outcomes
  <2> QED BY <2>1, <2>2 DEF Next, Emit, AbortFanOut, Reenable, Boot, Stop, ListDue, SweepStep,
                            LookUp, AbortSweep, EndSweep, dbVars
<1> QED BY SpecInv, <1>1, PTL DEF Spec, OutcomeIsFinal

-----------------------------------------------------------------------------
(* Automatic disabling                                                     *)

\* The rows of a webhook that its target rejected for good.
Rejected(w) == {d \in Deliveries : d[1] = w /\ <<d, "reject">> \in heard}

\* A disabled webhook, and one that a task is about to disable, has its rejects.
RejectInv ==
  /\ \A w \in Webhooks : IsFiniteSet(Rejected(w))
  /\ \A w \in Webhooks : disabled[w] => Cardinality(Rejected(w)) >= Threshold
  /\ \A t \in Tasks : task[t] = "disable" => Cardinality(Rejected(t[2][1])) >= Threshold

\* Every row of the streak that count_consecutive_dropped returns was rejected.
LEMMA StreakWasRejected ==
  ASSUME Inv, RejectInv, NEW w \in Webhooks
  PROVE  Streak(w) \in Nat /\ Streak(w) <= Cardinality(Rejected(w))
<1> DEFINE S == {d \in RowsOf(w) :
                   \A c \in RowsOf(w) : created[d] <= created[c] => status[c] = "dropped"}
<1>1. ASSUME NEW d \in S PROVE d \in Rejected(w)
  <2>1. d \in Deliveries /\ d[1] = w /\ d \in RowsOf(w)
    BY DEF RowsOf, DeliveryRows
  <2>2. status[d] = "dropped"
    BY <2>1 DEF Inv, TypeOK
  <2>3. PICK a \in Answers : status[d] = OutcomeOf[a] /\ <<d, a>> \in heard
    BY <2>1, <2>2 DEF Inv, AnswerBacksOutcome, Outcomes
  <2>4. a = "reject"
    BY <2>2, <2>3 DEF OutcomeOf, Answers
  <2> QED BY <2>1, <2>3, <2>4 DEF Rejected
<1>2. S \in SUBSET Rejected(w) /\ IsFiniteSet(Rejected(w))
  BY <1>1 DEF RejectInv
<1>3. IsFiniteSet(S) /\ Cardinality(S) <= Cardinality(Rejected(w))
  BY <1>2, FS_Subset
<1>4. Cardinality(S) \in Nat
  BY <1>3, FS_CardinalityType
<1>5. Streak(w) = Cardinality(S)
  BY DEF Streak
<1> QED BY <1>3, <1>4, <1>5

\* Steps that hear nothing new and bring no webhook nearer to being disabled.
LEMMA RejectsRest ==
  ASSUME RejectInv, heard' = heard,
         \A w \in Webhooks : disabled'[w] => disabled[w],
         \A t \in Tasks : task'[t] = "disable" => task[t] = "disable"
  PROVE  RejectInv'
BY DEF RejectInv, Rejected

\* An answer adds at most one reject and takes none away.
LEMMA RejectsGrow ==
  ASSUME Inv, RejectInv, NEW p \in Pollers, NEW d \in Deliveries, Post(p, d)
  PROVE  RejectInv'
<1>1. PICK a \in Answers : /\ task' = [task EXCEPT ![<<p, d>>] = a]
                           /\ heard' = heard \cup {<<d, a>>}
  BY DEF Post
<1>2. disabled' = disabled
  BY DEF Post, dbVars
<1>3. ASSUME NEW w \in Webhooks
      PROVE  /\ IsFiniteSet(Rejected(w)')
             /\ Cardinality(Rejected(w)) <= Cardinality(Rejected(w)')
             /\ Cardinality(Rejected(w)) \in Nat /\ Cardinality(Rejected(w)') \in Nat
  <2>1. Rejected(w)' = Rejected(w) \/ Rejected(w)' = Rejected(w) \cup {d}
    <3>1. CASE a = "reject" /\ d[1] = w
      BY <1>1, <3>1 DEF Rejected
    <3>2. CASE ~(a = "reject" /\ d[1] = w)
      BY <1>1, <3>2 DEF Rejected
    <3> QED BY <3>1, <3>2
  <2>2. IsFiniteSet(Rejected(w))
    BY DEF RejectInv
  <2>3. IsFiniteSet(Rejected(w)') /\ Rejected(w) \in SUBSET (Rejected(w)')
    BY <2>1, <2>2, FS_AddElement
  <2>4. Cardinality(Rejected(w)) <= Cardinality(Rejected(w)')
    BY <2>3, FS_Subset
  <2> QED BY <2>2, <2>3, <2>4, FS_CardinalityType
<1>4. \A t \in Tasks : task'[t] = "disable" => task[t] = "disable" /\ t[2][1] \in Webhooks
  BY <1>1 DEF Inv, TypeOK, Answers, Tasks, Deliveries
<1> QED BY <1>2, <1>3, <1>4, WebhookConstants DEF RejectInv

\* Every step keeps RejectInv.
LEMMA NextRejects ==
  ASSUME Inv, RejectInv, [Next]_vars
  PROVE  RejectInv'
<1> USE DEF dbVars, producerVars, pollerVars, history
<1>1. CASE UNCHANGED vars
  BY <1>1, RejectsRest DEF vars
<1>2. ASSUME NEW e \in Events,
             Emit(e) \/ AbortFanOut(e) \/ \E w \in Webhooks : InsertRow(w, e)
      PROVE  RejectInv'
  BY <1>2, RejectsRest DEF Emit, AbortFanOut, InsertRow
<1>3. ASSUME NEW w \in Webhooks, Reenable(w) PROVE RejectInv'
  BY <1>3, RejectsRest DEF Reenable, Inv, TypeOK
<1>4. ASSUME NEW p \in Pollers, Boot(p) \/ Stop(p) \/ ListDue(p) \/ SweepStep(p) PROVE RejectInv'
  <2>1. heard' = heard /\ disabled' = disabled
    BY <1>4 DEF Boot, Stop, ListDue, SweepStep, EndSweep, AbortSweep, LookUp
  <2>2. \/ task' = task
        \/ TasksAborted(p)
        \/ \E d \in Deliveries : LookUp(p, d)
    BY <1>4 DEF Boot, Stop, ListDue, SweepStep, EndSweep, AbortSweep
  <2>3. \A t \in Tasks : task'[t] = "disable" => task[t] = "disable"
    <3>1. CASE TasksAborted(p)
      BY <3>1 DEF TasksAborted
    <3>2. ASSUME NEW d \in Deliveries, LookUp(p, d)
          PROVE  \A t \in Tasks : task'[t] = "disable" => task[t] = "disable"
      <4>1. PICK s \in {"none", "post"} : task' = [task EXCEPT ![<<p, d>>] = s]
        BY <3>2 DEF LookUp
      <4>2. task \in [Tasks -> TaskStates]
        BY DEF Inv, TypeOK
      <4> QED BY <4>1, <4>2
    <3> QED BY <2>2, <3>1, <3>2
  <2> QED BY <2>1, <2>3, RejectsRest
<1>5. ASSUME NEW p \in Pollers, NEW d \in Deliveries, TaskStep(p, d) PROVE RejectInv'
  <2>1. CASE Mark(p, d) \/ LoseMark(p, d) \/ LoseCheck(p, d)
    BY <2>1, RejectsRest DEF Mark, LoseMark, LoseCheck, Inv, TypeOK
  <2>2. CASE Count(p, d)
    <3>1. d[1] \in Webhooks
      BY DEF Deliveries
    <3>2. heard' = heard /\ disabled' = disabled
      BY <2>2 DEF Count
    <3>3. task' = [task EXCEPT ![<<p, d>>] =
                     IF ShouldAutoDisable(Streak(d[1])) THEN "disable" ELSE "none"]
      BY <2>2 DEF Count
    <3>4. Cardinality(Rejected(d[1])) \in Nat
      BY <3>1, FS_CardinalityType DEF RejectInv
    <3>5. ShouldAutoDisable(Streak(d[1])) => Cardinality(Rejected(d[1])) >= Threshold
      BY <3>1, <3>4, StreakWasRejected, WebhookConstants DEF ShouldAutoDisable
    <3>6. \A t \in Tasks : task'[t] = "disable" => Cardinality(Rejected(t[2][1])) >= Threshold
      BY <3>3, <3>5 DEF RejectInv, Inv, TypeOK
    <3> QED BY <3>2, <3>6 DEF RejectInv, Rejected
  <2>3. CASE Disable(p, d)
    <3>1. heard' = heard /\ <<p, d>> \in Tasks
      BY <2>3 DEF Disable, Tasks
    <3>2. Cardinality(Rejected(d[1])) >= Threshold
      BY <2>3, <3>1 DEF Disable, RejectInv
    <3>3. \A w \in Webhooks : disabled'[w] => disabled[w] \/ w = d[1]
      BY <2>3 DEF Disable, Inv, TypeOK
    <3>4. \A t \in Tasks : task'[t] = "disable" => task[t] = "disable"
      BY <2>3 DEF Disable, Inv, TypeOK
    <3> QED BY <3>1, <3>2, <3>3, <3>4 DEF RejectInv, Rejected
  <2> QED BY <1>5, <2>1, <2>2, <2>3, RejectsGrow DEF TaskStep
<1> QED BY <1>1, <1>2, <1>3, <1>4, <1>5 DEF Next

\* A webhook is disabled only after its target rejected Threshold different rows for
\* good (dispatcher.rs:57-61), whatever pollers, restarts and reenabling do.
THEOREM DisabledForRejects == Spec => []OnlyRejectsDisable
<1>1. Init => RejectInv
  <2> SUFFICES ASSUME Init PROVE RejectInv
    OBVIOUS
  <2>1. \A w \in Webhooks : Rejected(w) = {}
    BY DEF Init, Rejected
  <2> QED BY <2>1, FS_EmptySet DEF Init, RejectInv
<1>2. RejectInv => OnlyRejectsDisable
  BY DEF RejectInv, Rejected, OnlyRejectsDisable
<1> QED BY <1>1, <1>2, SpecInv, NextRejects, PTL DEF Spec

\* The rows the newest ones are taken from are finite in number.
StreakInv == IsFiniteSet(DeliveryRows) /\ StreakDisables

\* The count that follows a drop sees the whole streak.
LEMMA StreakIsCounted ==
  ASSUME Inv, IsFiniteSet(DeliveryRows), NEW w \in Webhooks, NewestDropped(w)
  PROVE  ShouldAutoDisable(Streak(w))
<1> DEFINE S == {d \in RowsOf(w) :
                   \A c \in RowsOf(w) : created[d] <= created[c] => status[c] = "dropped"}
<1>1. PICK newest \in SUBSET RowsOf(w) :
        /\ Cardinality(newest) = Threshold
        /\ \A d \in newest : status[d] = "dropped"
        /\ \A c \in RowsOf(w) \ newest, d \in newest : created[c] < created[d]
  BY DEF NewestDropped
<1>2. \A d \in RowsOf(w) : created[d] \in Nat
  BY DEF RowsOf, DeliveryRows, Inv, TypeOK
<1>3. newest \in SUBSET S
  BY <1>1, <1>2
<1>4. IsFiniteSet(S)
  <2>1. S \in SUBSET DeliveryRows
    BY DEF RowsOf
  <2> QED BY <2>1, FS_Subset
<1>5. Cardinality(newest) <= Cardinality(S) /\ Cardinality(S) \in Nat
  BY <1>3, <1>4, FS_Subset, FS_CardinalityType
<1> QED BY <1>1, <1>5, WebhookConstants DEF Streak, ShouldAutoDisable

\* Newest rows that are dropped after a step were so before it, when the step neither
\* adds, reorders nor drops rows of the webhook.
LEMMA NewestWereDropped ==
  ASSUME NEW w \in Webhooks, RowsOf(w)' = RowsOf(w), NewestDropped(w)',
         \A d \in RowsOf(w) : /\ created'[d] = created[d]
                              /\ status'[d] = "dropped" => status[d] = "dropped"
  PROVE  NewestDropped(w)
<1>1. PICK newest \in SUBSET RowsOf(w) :
        /\ Cardinality(newest) = Threshold
        /\ \A d \in newest : status'[d] = "dropped"
        /\ \A c \in RowsOf(w) \ newest, d \in newest : created'[c] < created'[d]
  BY DEF NewestDropped
<1> QED BY <1>1 DEF NewestDropped

\* Steps that drop no row, and that end a check only by excusing or disabling.
LEMMA StreaksRest ==
  ASSUME StreakInv, created' = created,
         \A d \in Deliveries : /\ status'[d] = "none" <=> status[d] = "none"
                               /\ status'[d] = "dropped" => status[d] = "dropped",
         \A w \in Webhooks : disabled[w] => disabled'[w] \/ w \in excused',
         excused \subseteq excused',
         \A t \in Tasks : task[t] \in {"count", "disable"} =>
           \/ task'[t] \in {"count", "disable"}
           \/ t[2][1] \in excused'
           \/ disabled'[t[2][1]]
  PROVE  StreakInv'
<1>1. DeliveryRows' = DeliveryRows
  BY DEF DeliveryRows
<1>2. ASSUME NEW w \in Webhooks, NewestDropped(w)'
      PROVE  \/ disabled'[w] \/ w \in excused'
             \/ \E t \in Tasks : t[2][1] = w /\ task'[t] \in {"count", "disable"}
  <2>1. RowsOf(w)' = RowsOf(w) /\ RowsOf(w) \subseteq Deliveries
    BY <1>1 DEF RowsOf, DeliveryRows
  <2>2. NewestDropped(w)
    BY <1>2, <2>1, NewestWereDropped
  <2> QED BY <2>2 DEF StreakInv, StreakDisables
<1>3. StreakDisables'
  BY <1>2 DEF StreakDisables
<1> QED BY <1>1, <1>3 DEF StreakInv

\* A new row is pending and the newest of its webhook: no streak is in place.
LEMMA StreakOfInsert ==
  ASSUME Inv, StreakInv, NEW w \in Webhooks, NEW e \in Events, InsertRow(w, e)
  PROVE  StreakInv'
<1> DEFINE new == <<w, e>>
<1>1. /\ new \in Deliveries /\ new \notin DeliveryRows
      /\ status' = [status EXCEPT ![new] = "pending"]
      /\ created' = [created EXCEPT ![new] = clock]
      /\ UNCHANGED <<disabled, excused, task>>
  BY DEF InsertRow, Inv, TypeOK, Deliveries, pollerVars, history
<1>2. DeliveryRows' = DeliveryRows \cup {new}
  BY <1>1 DEF Inv, TypeOK, DeliveryRows
<1>3. IsFiniteSet(DeliveryRows')
  BY <1>2, FS_AddElement DEF StreakInv
<1>4. ASSUME NewestDropped(w)' PROVE FALSE
  <2>1. PICK newest \in SUBSET (RowsOf(w)') :
          /\ Cardinality(newest) = Threshold
          /\ \A d \in newest : status'[d] = "dropped"
          /\ \A c \in RowsOf(w)' \ newest, d \in newest : created'[c] < created'[d]
    BY <1>4 DEF NewestDropped
  <2>2. new \in RowsOf(w)' \ newest
    BY <1>1, <1>2, <2>1 DEF RowsOf, Inv, TypeOK
  <2>3. PICK d \in newest : TRUE
    BY <2>1, FS_EmptySet, WebhookConstants
  <2>4. d \in DeliveryRows /\ d # new
    BY <1>2, <2>2, <2>3 DEF RowsOf
  <2>5. created'[d] = created[d] /\ created'[new] = clock /\ created[d] < clock
    BY <1>1, <2>4 DEF Inv, TypeOK, DeliveryRows
  <2>6. created[d] \in Nat /\ clock \in Nat
    BY <2>4 DEF Inv, TypeOK, DeliveryRows
  <2> QED BY <2>1, <2>2, <2>3, <2>5, <2>6
<1>5. ASSUME NEW x \in Webhooks, x # w, NewestDropped(x)'
      PROVE  NewestDropped(x)
  <2>1. RowsOf(x)' = RowsOf(x) /\ RowsOf(x) \subseteq Deliveries \ {new}
    BY <1>1, <1>2, <1>5 DEF RowsOf, DeliveryRows
  <2>2. \A d \in RowsOf(x) : created'[d] = created[d] /\ status'[d] = status[d]
    BY <1>1, <2>1 DEF Inv, TypeOK
  <2> QED BY <1>5, <2>1, <2>2, NewestWereDropped
<1>6. StreakDisables'
  BY <1>1, <1>4, <1>5 DEF StreakInv, StreakDisables
<1> QED BY <1>3, <1>6 DEF StreakInv

\* A row that is dropped is followed by a check of its webhook.
LEMMA StreakOfMark ==
  ASSUME Inv, StreakInv, NEW p \in Pollers, NEW d \in Deliveries, Mark(p, d)
  PROVE  StreakInv'
<1> DEFINE answer == task[<<p, d>>]
<1>1. /\ answer \in Answers /\ <<p, d>> \in Tasks
      /\ status' = [status EXCEPT ![d] = IF @ = "pending" THEN OutcomeOf[answer] ELSE @]
      /\ task' = [task EXCEPT ![<<p, d>>] = IF answer = "reject" THEN "count" ELSE "none"]
      /\ UNCHANGED <<created, disabled, excused>>
  BY DEF Mark, Marked, Tasks
<1>2. /\ OutcomeOf[answer] # "none"
      /\ OutcomeOf[answer] = "dropped" => answer = "reject"
  BY <1>1 DEF OutcomeOf, Answers
<1>3. DeliveryRows' = DeliveryRows
  BY <1>1, <1>2 DEF Inv, TypeOK, DeliveryRows
<1>4. ASSUME NEW w \in Webhooks, NewestDropped(w)'
      PROVE  \/ disabled'[w] \/ w \in excused'
             \/ \E t \in Tasks : t[2][1] = w /\ task'[t] \in {"count", "disable"}
  <2>1. CASE answer = "reject" /\ w = d[1]
    <3>1. task'[<<p, d>>] = "count" /\ <<p, d>>[2][1] = w
      BY <1>1, <2>1 DEF Inv, TypeOK
    <3> QED BY <1>1, <3>1
  <2>2. CASE ~(answer = "reject" /\ w = d[1])
    <3>1. RowsOf(w)' = RowsOf(w) /\ \A c \in RowsOf(w) : c \in Deliveries /\ c[1] = w
      BY <1>3 DEF RowsOf, DeliveryRows
    <3>2. \A c \in RowsOf(w) : status'[c] = "dropped" => status[c] = "dropped"
      BY <1>1, <1>2, <2>2, <3>1 DEF Inv, TypeOK
    <3>3. NewestDropped(w)
      BY <1>1, <1>4, <3>1, <3>2, NewestWereDropped
    <3>4. \A t \in Tasks : task[t] \in {"count", "disable"} => task'[t] = task[t]
      BY <1>1 DEF Inv, TypeOK, Answers
    <3> QED BY <1>1, <3>3, <3>4 DEF StreakInv, StreakDisables
  <2> QED BY <2>1, <2>2
<1>5. StreakDisables'
  BY <1>4 DEF StreakDisables
<1> QED BY <1>3, <1>5 DEF StreakInv

\* A count that finds the streak in place goes on to disable the webhook.
LEMMA StreakOfCount ==
  ASSUME Inv, StreakInv, NEW p \in Pollers, NEW d \in Deliveries, Count(p, d)
  PROVE  StreakInv'
<1>1. /\ <<p, d>> \in Tasks
      /\ task' = [task EXCEPT ![<<p, d>>] =
                    IF ShouldAutoDisable(Streak(d[1])) THEN "disable" ELSE "none"]
      /\ excused' = excused \ {d[1]}
      /\ UNCHANGED <<status, created, disabled>>
  BY DEF Count, Tasks, dbVars
<1>2. DeliveryRows' = DeliveryRows /\ \A w \in Webhooks : NewestDropped(w)' = NewestDropped(w)
  BY <1>1 DEF DeliveryRows, RowsOf, NewestDropped
<1>3. ASSUME NEW w \in Webhooks, NewestDropped(w)
      PROVE  \/ disabled'[w] \/ w \in excused'
             \/ \E t \in Tasks : t[2][1] = w /\ task'[t] \in {"count", "disable"}
  <2>1. CASE w = d[1]
    <3>1. ShouldAutoDisable(Streak(d[1]))
      BY <1>3, <2>1, StreakIsCounted DEF StreakInv
    <3>2. task'[<<p, d>>] = "disable" /\ <<p, d>>[2][1] = w
      BY <1>1, <2>1, <3>1 DEF Inv, TypeOK
    <3> QED BY <1>1, <3>2
  <2>2. CASE w # d[1]
    <3>1. \A t \in Tasks : t[2][1] = w => task'[t] = task[t]
      BY <1>1, <2>2 DEF Inv, TypeOK
    <3> QED BY <1>1, <1>3, <2>2, <3>1 DEF StreakInv, StreakDisables
  <2> QED BY <2>1, <2>2
<1>4. StreakDisables'
  BY <1>2, <1>3 DEF StreakDisables
<1> QED BY <1>2, <1>4 DEF StreakInv

\* Every step keeps StreakInv.
LEMMA NextStreaks ==
  ASSUME Inv, StreakInv, [Next]_vars
  PROVE  StreakInv'
<1> USE DEF dbVars, producerVars, pollerVars, history
<1>1. CASE UNCHANGED vars
  BY <1>1, StreaksRest DEF vars
<1>2. ASSUME NEW e \in Events, Emit(e) \/ AbortFanOut(e) PROVE StreakInv'
  BY <1>2, StreaksRest DEF Emit, AbortFanOut
<1>3. ASSUME NEW w \in Webhooks, Reenable(w) PROVE StreakInv'
  BY <1>3, StreaksRest DEF Reenable, Inv, TypeOK
<1>4. ASSUME NEW p \in Pollers, Boot(p) \/ ListDue(p) \/ EndSweep(p) PROVE StreakInv'
  BY <1>4, StreaksRest DEF Boot, ListDue, EndSweep
<1>5. ASSUME NEW p \in Pollers, Stop(p) \/ AbortSweep(p) PROVE StreakInv'
  <2>1. TasksAborted(p) /\ UNCHANGED <<status, created, disabled>>
    BY <1>5 DEF Stop, AbortSweep
  <2>2. excused \subseteq excused'
    BY <2>1 DEF TasksAborted
  <2>3. ASSUME NEW t \in Tasks, task[t] \in {"count", "disable"}, task'[t] # task[t]
        PROVE  t[2][1] \in excused'
    <3>1. t[1] = p
      BY <2>1, <2>3 DEF TasksAborted
    <3>2. PICK w \in Webhooks, e \in Events : t[2] = <<w, e>>
      BY DEF Tasks, Deliveries
    <3>3. t = <<p, <<w, e>>>> /\ t[2][1] = w
      BY <3>1, <3>2 DEF Tasks
    <3> QED BY <2>1, <2>3, <3>3 DEF TasksAborted
  <2> QED BY <2>1, <2>2, <2>3, StreaksRest
<1>6. ASSUME NEW p \in Pollers, NEW d \in Deliveries, LookUp(p, d) PROVE StreakInv'
  <2>1. task[<<p, d>>] = "none"
    BY <1>6 DEF LookUp, NextInBatch, Inv, Sweeping, SweepingOn
  <2>2. \A t \in Tasks : task[t] \in {"count", "disable"} => task'[t] = task[t]
    BY <1>6, <2>1 DEF LookUp, Inv, TypeOK
  <2> QED BY <1>6, <2>2, StreaksRest DEF LookUp
<1>7. ASSUME NEW p \in Pollers, NEW d \in Deliveries, TaskStep(p, d) PROVE StreakInv'
  <2>1. CASE Post(p, d) \/ LoseMark(p, d)
    <3>1. /\ UNCHANGED <<status, created, disabled, excused>>
          /\ task[<<p, d>>] \notin {"count", "disable"}
          /\ \A t \in Tasks : t # <<p, d>> => task'[t] = task[t]
      BY <2>1 DEF Post, LoseMark, Answers, Inv, TypeOK
    <3> QED BY <3>1, StreaksRest
  <2>2. CASE Disable(p, d) \/ LoseCheck(p, d)
    <3>1. d[1] \in Webhooks
      BY DEF Deliveries
    <3>2. /\ UNCHANGED <<status, created>>
          /\ disabled'[d[1]] \/ d[1] \in excused'
          /\ \A w \in Webhooks : disabled[w] => disabled'[w]
          /\ excused \subseteq excused'
          /\ \A t \in Tasks : t # <<p, d>> => task'[t] = task[t]
      BY <2>2, <3>1 DEF Disable, LoseCheck, Inv, TypeOK
    <3> QED BY <3>2, StreaksRest
  <2> QED BY <1>7, <2>1, <2>2, StreakOfMark, StreakOfCount DEF TaskStep
<1> QED BY <1>1, <1>2, <1>3, <1>4, <1>5, <1>6, <1>7, StreakOfInsert DEF Next, SweepStep

\* When the Threshold newest rows of a webhook are dropped and no check is on its way,
\* the webhook is disabled, unless the last check was cut short or undone
\* (tick.rs:22-24): no interleaving of pollers and producers lets it escape.
THEOREM StreaksDisable == Spec => []StreakDisables
<1>1. Init => StreakInv
  <2> SUFFICES ASSUME Init PROVE StreakInv
    OBVIOUS
  <2>1. DeliveryRows = {}
    BY DEF Init, DeliveryRows
  <2>2. ASSUME NEW w \in Webhooks, NewestDropped(w) PROVE FALSE
    <3>1. PICK newest \in SUBSET RowsOf(w) : Cardinality(newest) = Threshold
      BY <2>2 DEF NewestDropped
    <3>2. newest = {}
      BY <2>1, <3>1 DEF RowsOf
    <3> QED BY <3>1, <3>2, FS_EmptySet, WebhookConstants
  <2> QED BY <2>1, <2>2, FS_EmptySet DEF StreakInv, StreakDisables
<1>2. StreakInv => StreakDisables
  BY DEF StreakInv
<1> QED BY <1>1, <1>2, SpecInv, NextStreaks, PTL DEF Spec
=============================================================================
