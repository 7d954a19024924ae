-------------------------- MODULE MCWebhookDelivery --------------------------
(***************************************************************************)
(* Small instances of WebhookDelivery for TLC.                             *)
(***************************************************************************)
EXTENDS WebhookDelivery, TLC

CONSTANTS wa, wb, e1, e2, e3, pa, pb

\* Every webhook subscribes to every event.
AllSubscribe == [e \in Events |-> Webhooks]

\* One webhook subscribes to both events, the other to the second one only.
OneAndBoth == [e \in Events |-> IF e = e2 THEN {wa, wb} ELSE {wa}]

Symmetric == Permutations(Pollers) \cup Permutations(Events)
=============================================================================
