------------------------------ MODULE TickLedger ------------------------------
(***************************************************************************)
(* What the tick table promises, whoever the actors are and however they   *)
(* fail: the life of one (schedule_id, tick_ts).  It is claimed once, its   *)
(* provider matrix runs at most once and only before a verdict, the verdict *)
(* is given once, an orphan may be rolled forward before its verdict, and   *)
(* only the deletion of its schedule erases it.                            *)
(*                                                                         *)
(* TickScheduler implements this module (TickSchedulerProofs).             *)
(***************************************************************************)
EXTENDS Integers

CONSTANT Ticks

VARIABLES
  status,   \* "none", "claimed", "rolled_forward", "completed", "failed", "gone"
  ran       \* how often the provider matrix has been driven

ledger == <<status, ran>>

Open == {"claimed", "rolled_forward"}

LedgerInit ==
  /\ status = [k \in Ticks |-> "none"]
  /\ ran = [k \in Ticks |-> 0]

ClaimTick(k) ==
  /\ status[k] = "none"
  /\ ran[k] = 0
  /\ status' = [status EXCEPT ![k] = "claimed"]
  /\ UNCHANGED ran

\* The owner may still be at work when the row is rolled forward or deleted.
Execute(k) ==
  /\ status[k] \in Open \cup {"gone"}
  /\ ran[k] = 0
  /\ ran' = [ran EXCEPT ![k] = 1]
  /\ UNCHANGED status

RollForward(abandoned) ==
  /\ \A k \in abandoned : status[k] = "claimed"
  /\ status' = [k \in Ticks |-> IF k \in abandoned THEN "rolled_forward" ELSE status[k]]
  /\ UNCHANGED ran

Settle(k, verdict) ==
  /\ status[k] \in Open
  /\ status' = [status EXCEPT ![k] = verdict]
  /\ UNCHANGED ran

Erase(erased) ==
  /\ status' = [k \in Ticks |-> IF k \in erased THEN "gone" ELSE status[k]]
  /\ UNCHANGED ran

LedgerNext ==
  \/ \E k \in Ticks :
       \/ ClaimTick(k) \/ Execute(k)
       \/ \E verdict \in {"completed", "failed"} : Settle(k, verdict)
  \/ \E ticks \in SUBSET Ticks : RollForward(ticks) \/ Erase(ticks)

LedgerSpec == LedgerInit /\ [][LedgerNext]_ledger
=============================================================================
