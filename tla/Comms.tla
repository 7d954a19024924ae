--------------------------------- MODULE Comms ---------------------------------
(***************************************************************************)
(* Outbound mail and its preference center (crates/comms/src/dispatch.rs,  *)
(* repo.rs, apps/api/src/routes/comms.rs).                                 *)
(*                                                                         *)
(* A marketing send reads the recipient's preferences, then the            *)
(* suppression list, and only then hands the message to the transport,     *)
(* while the recipient's pages change both.  A transactional send with a   *)
(* dedup key reserves the key in the send log first.                       *)
(*                                                                         *)
(* One recipient and one dedup key: no statement involves two.  The        *)
(* transport is a trait; whatever implements it may report an error after  *)
(* the message has gone out.                                               *)
(***************************************************************************)
EXTENDS Integers

CONSTANTS
  Mailers,   \* concurrent sends
  Pages,     \* concurrent requests to the preference center
  MaxMail    \* bound: sends and requests

VARIABLES
  subscription,  \* row of comms_subscriptions
  listed,        \* row of comms_suppressions
  linkValid,     \* the preference token has not expired
  sendLog,       \* rows of comms_send_log with the dedup key: sent, failed
  mailer,        \* mailer[m]: what a send is doing
  page,          \* page[p]: what a request is doing
  mailBegun,     \* number of sends and requests begun
  \* history
  unsubscribed,  \* an unsubscribe has been acknowledged
  unwelcome,     \* a marketing send that began after that has reached the transport
  deliveries,    \* messages with the dedup key that went out
  misreported    \* one of them went out although the transport reported an error

commsVars == <<subscription, listed, linkValid, sendLog, mailer, page, mailBegun,
               unsubscribed, unwelcome, deliveries, misreported>>

\* A recipient who has not opted in has no row.
Subscriptions == {[exists |-> FALSE, on |-> FALSE, off |-> FALSE, eu |-> FALSE]}
                   \cup [exists : {TRUE}, on : BOOLEAN, off : {FALSE}, eu : BOOLEAN]

NoMail == [step |-> "idle", after |-> FALSE, welcome |-> FALSE]
NoPage == [step |-> "idle", on |-> FALSE, off |-> FALSE]

CommsInit ==
  /\ subscription \in Subscriptions
  /\ listed = FALSE /\ linkValid = TRUE
  /\ sendLog = [sent |-> 0, failed |-> 0]
  /\ mailer = [m \in Mailers |-> NoMail]
  /\ page = [p \in Pages |-> NoPage]
  /\ mailBegun = 0
  /\ unsubscribed = FALSE /\ unwelcome = FALSE
  /\ deliveries = 0 /\ misreported = FALSE

MailStep(m, from, to) == mailer[m].step = from /\ mailer' = [mailer EXCEPT ![m].step = to]
MailEnds(m) == mailer' = [mailer EXCEPT ![m] = NoMail]
PageStep(p, from, to) == page[p].step = from /\ page' = [page EXCEPT ![p].step = to]
PageEnds(p) == page' = [page EXCEPT ![p] = NoPage]
CountMail == mailBegun < MaxMail /\ mailBegun' = mailBegun + 1

\* upsert_subscription refreshes the residency and keeps the preferences.
Subscribe(eu) ==
  /\ CountMail
  /\ subscription' = IF subscription.exists THEN [subscription EXCEPT !.eu = eu]
                     ELSE [exists |-> TRUE, on |-> TRUE, off |-> FALSE, eu |-> eu]
  /\ UNCHANGED <<listed, linkValid, sendLog, mailer, page, unsubscribed, unwelcome, deliveries, misreported>>

-----------------------------------------------------------------------------
BeginMarketing(m) ==
  /\ mailer[m].step = "idle" /\ CountMail
  /\ mailer' = [mailer EXCEPT ![m] = [NoMail EXCEPT !.step = "preferences", !.after = unsubscribed]]
  /\ UNCHANGED <<subscription, listed, linkValid, sendLog, page, unsubscribed, unwelcome, deliveries, misreported>>

\* No row, no mail.  welcome: no toggle and no missing consent stands against it; the
\* code sets marketing_consent nowhere, so an EU resident gets none.
ReadSubscription(m) ==
  /\ mailer[m].step = "preferences"
  /\ IF subscription.exists
     THEN mailer' = [mailer EXCEPT ![m].step = "list",
                                   ![m].welcome = subscription.on /\ ~subscription.off /\ ~subscription.eu]
     ELSE MailEnds(m)
  /\ UNCHANGED <<subscription, listed, linkValid, sendLog, page, mailBegun, unsubscribed, unwelcome, deliveries, misreported>>

\* marketing_decision.
DecideMarketing(m) ==
  /\ mailer[m].step = "list"
  /\ IF mailer[m].welcome /\ ~listed THEN MailStep(m, "list", "marketing") ELSE MailEnds(m)
  /\ UNCHANGED <<subscription, listed, linkValid, sendLog, page, mailBegun, unsubscribed, unwelcome, deliveries, misreported>>

HandOver(m) ==
  /\ mailer[m].step = "marketing"
  /\ unwelcome' = (unwelcome \/ mailer[m].after)
  /\ MailEnds(m)
  /\ UNCHANGED <<subscription, listed, linkValid, sendLog, page, mailBegun, unsubscribed, deliveries, misreported>>

-----------------------------------------------------------------------------
BeginMagicLink(m) ==
  /\ CountMail
  /\ MailStep(m, "idle", "reserve")
  /\ UNCHANGED <<subscription, listed, linkValid, sendLog, page, unsubscribed, unwelcome, deliveries, misreported>>

\* Mutant of ReserveDedup: already_sent_dedup in place of the insert.
LookForDedup(m) ==
  /\ mailer[m].step = "reserve"
  /\ IF sendLog.sent = 0 THEN MailStep(m, "reserve", "link") ELSE MailEnds(m)
  /\ UNCHANGED <<subscription, listed, linkValid, sendLog, page, mailBegun, unsubscribed, unwelcome, deliveries, misreported>>

\* The partial unique index on rows with outcome 'sent' lets one caller in.
ReserveDedup(m) ==
  /\ mailer[m].step = "reserve"
  /\ IF sendLog.sent = 0
     THEN MailStep(m, "reserve", "link") /\ sendLog' = [sendLog EXCEPT !.sent = 1]
     ELSE MailEnds(m) /\ UNCHANGED sendLog
  /\ UNCHANGED <<subscription, listed, linkValid, page, mailBegun, unsubscribed, unwelcome, deliveries, misreported>>

DeliverLink(m) ==
  /\ mailer[m].step = "link"
  /\ deliveries' = deliveries + 1
  /\ \E reported \in BOOLEAN :
       /\ misreported' = (misreported \/ ~reported)
       /\ IF reported THEN MailEnds(m) ELSE MailStep(m, "link", "downgrade")
  /\ UNCHANGED <<subscription, listed, linkValid, sendLog, page, mailBegun, unsubscribed, unwelcome>>

TransportRefuses(m) ==
  /\ MailStep(m, "link", "downgrade")
  /\ UNCHANGED <<subscription, listed, linkValid, sendLog, page, mailBegun, unsubscribed, unwelcome, deliveries, misreported>>

\* Every row of the key with outcome 'sent', whoever inserted it.
MarkDedupFailed(m) ==
  /\ mailer[m].step = "downgrade"
  /\ sendLog' = [sent |-> 0, failed |-> sendLog.failed + sendLog.sent]
  /\ MailEnds(m)
  /\ UNCHANGED <<subscription, listed, linkValid, page, mailBegun, unsubscribed, unwelcome, deliveries, misreported>>

\* An error of the database, or a crash, at any step: a reservation stays.
MailFails(m) ==
  /\ mailer[m].step # "idle"
  /\ MailEnds(m)
  /\ UNCHANGED <<subscription, listed, linkValid, sendLog, page, mailBegun, unsubscribed, unwelcome, deliveries, misreported>>

-----------------------------------------------------------------------------
\* Both pages look the token up first.  A page that unsubscribes says so even when the
\* token has expired; a form may have been rendered at any time, so its toggles are free.
ResolveForm(p) ==
  /\ page[p].step = "idle" /\ CountMail /\ linkValid
  /\ \E on, off \in BOOLEAN : page' = [page EXCEPT ![p] = [step |-> "save", on |-> on, off |-> off]]
  /\ UNCHANGED <<subscription, listed, linkValid, sendLog, mailer, unsubscribed, unwelcome, deliveries, misreported>>

SaveForm(p) ==
  /\ page[p].step = "save"
  /\ subscription' = IF subscription.exists THEN [subscription EXCEPT !.on = page[p].on, !.off = page[p].off]
                     ELSE subscription
  /\ PageEnds(p)
  /\ UNCHANGED <<listed, linkValid, sendLog, mailer, mailBegun, unsubscribed, unwelcome, deliveries, misreported>>

ResolveUnsubscribe(p) ==
  /\ CountMail /\ linkValid
  /\ PageStep(p, "idle", "suppress")
  /\ UNCHANGED <<subscription, listed, linkValid, sendLog, mailer, unsubscribed, unwelcome, deliveries, misreported>>

\* Mutant of Suppress: only the preferences are changed.
SuppressByPreference(p) ==
  /\ PageStep(p, "suppress", "turnOff")
  /\ UNCHANGED <<subscription, listed, linkValid, sendLog, mailer, mailBegun, unsubscribed, unwelcome, deliveries, misreported>>

Suppress(p) ==
  /\ PageStep(p, "suppress", "turnOff")
  /\ listed' = TRUE
  /\ UNCHANGED <<subscription, linkValid, sendLog, mailer, mailBegun, unsubscribed, unwelcome, deliveries, misreported>>

\* The outcome of this update is ignored.
TurnOff(p) ==
  /\ page[p].step = "turnOff"
  /\ \E saved \in BOOLEAN :
       subscription' = IF saved /\ subscription.exists THEN [subscription EXCEPT !.off = TRUE] ELSE subscription
  /\ unsubscribed' = TRUE
  /\ PageEnds(p)
  /\ UNCHANGED <<listed, linkValid, sendLog, mailer, mailBegun, unwelcome, deliveries, misreported>>

PageFails(p) ==
  /\ page[p].step \in {"save", "suppress"}
  /\ PageEnds(p)
  /\ UNCHANGED <<subscription, listed, linkValid, sendLog, mailer, mailBegun, unsubscribed, unwelcome, deliveries, misreported>>

ExpireLink ==
  /\ linkValid' = FALSE
  /\ UNCHANGED <<subscription, listed, sendLog, mailer, page, mailBegun, unsubscribed, unwelcome, deliveries, misreported>>

CommsNext ==
  \/ \E eu \in BOOLEAN : Subscribe(eu)
  \/ \E m \in Mailers :
       \/ BeginMarketing(m) \/ ReadSubscription(m) \/ DecideMarketing(m) \/ HandOver(m)
       \/ BeginMagicLink(m) \/ ReserveDedup(m) \/ DeliverLink(m) \/ TransportRefuses(m)
       \/ MarkDedupFailed(m) \/ MailFails(m)
  \/ \E p \in Pages :
       \/ ResolveForm(p) \/ SaveForm(p) \/ ResolveUnsubscribe(p) \/ Suppress(p) \/ TurnOff(p) \/ PageFails(p)
  \/ ExpireLink

CommsSpec == CommsInit /\ [][CommsNext]_commsVars

-----------------------------------------------------------------------------
\* After an unsubscribe has been acknowledged no marketing send that begins reaches the
\* transport, whatever older forms are submitted and whoever subscribes the address again.
UnsubscribeHolds == ~unwelcome

\* A message with a dedup key goes out once, whoever sends at the same time or again,
\* unless the transport reported an error for a message it had delivered.
DeliveredOnce == ~misreported => deliveries <= 1
================================================================================
