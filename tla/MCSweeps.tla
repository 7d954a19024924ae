------------------------------- MODULE MCSweeps -------------------------------
(***************************************************************************)
(* The two sweeps that follow the scheduled ticks in a pass of the poll    *)
(* loop (apps/worker/src/run.rs), webhook deliveries and ETL jobs, side by *)
(* side: they share no state, so a behaviour is one of one sweep, and the  *)
(* states add up.                                                          *)
(*                                                                         *)
(* The sweep a behaviour is not of stays in its initial state, where no    *)
(* process runs and nothing fair is enabled: its fairness asks for nothing.*)
(***************************************************************************)
EXTENDS MCEtlQueue

CONSTANTS Webhooks, Events, Subscribed, Pollers, BatchLimit, Threshold

CONSTANTS h1, e1, e2, pa   \* a webhook, two events, a poller

VARIABLES
  sweep,     \* the one of this behaviour
  status, created, clock, disabled, emitted, fan, phase, batch, task, heard, recorded, excused

Webhook == INSTANCE WebhookDelivery

webhookVars == <<status, created, clock, disabled, emitted, fan, phase, batch, task,
                 heard, recorded, excused>>

\* The webhook subscribes to both events.
AllSubscribe == [e \in Events |-> Webhooks]

SweepsInit == sweep \in {"webhooks", "jobs"} /\ Init /\ Webhook!Init

SweepsNext ==
  /\ UNCHANGED sweep
  /\ \/ sweep = "jobs" /\ Next /\ UNCHANGED webhookVars
     \/ sweep = "webhooks" /\ Webhook!Next /\ UNCHANGED vars

FairSweeps ==
  /\ SweepsInit /\ [][SweepsNext]_<<sweep, vars, webhookVars>>
  /\ Fairness /\ Webhook!Fairness

\* tick.rs:58-131, poller.rs:40-112.  A pending delivery is settled, or its webhook is
\* disabled, if a poller stays up (see WebhookDelivery).
PendingIsSettled == Webhook!PendingIsSettled
=============================================================================
