------------------------ MODULE EntityVerificationProofs ------------------------
(***************************************************************************)
(* Proofs about EntityVerification, for any number of handlers, requests   *)
(* and rows of the ledger.                                                 *)
(***************************************************************************)
EXTENDS EntityVerification, FiniteSetTheorems, TLAPS

EntityRows ==
  [status : {"absent", "unclaimed", "pending", "verified", "revoked"},
   method : Methods \cup {"none", "manual"}, grace : BOOLEAN]
AttemptRows ==
  [method : Methods, state : {"pending", "expired", "verified", "revoked", "erased"}, lapsed : BOOLEAN]
HandlerSteps ==
  {"rest", "ensure", "setPending", "expire", "mint", "find", "consume", "flip", "lookup", "revoke", "record"}
StartSteps == {"ensure", "setPending", "expire", "mint"}   \* on the way to a new challenge
HandlerRows ==
  [step : HandlerSteps, method : Methods \cup {"none"}, token : Nat, values : SUBSET Nat, limited : BOOLEAN]

EntityTypes ==
  /\ entity \in EntityRows
  /\ attempts \in Seq(AttemptRows) /\ Len(attempts) <= MaxAttempts
  /\ lastProof \in Nat /\ backing \in Nat /\ zone \subseteq Nat
  /\ handler \in [Handlers -> HandlerRows]
  /\ spentBy \in [1 .. MaxAttempts -> Nat]
  /\ \A h \in Handlers : handler[h].step \in StartSteps => handler[h].method \in Methods

Spent(t) == attempts[t].state \in {"verified", "erased"}

\* A challenge that is consumed is never pending again.
SpentOnce ==
  \A t \in 1 .. MaxAttempts :
    spentBy[t] <= 1 /\ (spentBy[t] # 0 => t <= Len(attempts) /\ Spent(t))

\* The live challenge of a method is the newest; the record of a revocation is none.
NewestIsLive ==
  \A s, t \in 1 .. Len(attempts) :
    s < t /\ attempts[s].method = attempts[t].method /\ attempts[t].state # "revoked"
      => attempts[s].state # "pending"

\* A handler that is to consume or to mark has a challenge of its method, and none is
\* consumed after a newer one.
HandlersHold ==
  \A h \in Handlers : handler[h].step \in {"consume", "flip"} =>
    /\ handler[h].token \in 1 .. Len(attempts)
    /\ attempts[handler[h].token].method = handler[h].method
    /\ On(h, "flip") =>
         /\ Spent(handler[h].token)
         /\ handler[h].method = "dns" => lastProof = 0 \/ handler[h].token <= lastProof

LastIsConsumed ==
  lastProof # 0 =>
    /\ lastProof \in 1 .. Len(attempts)
    /\ attempts[lastProof].state = "verified" /\ attempts[lastProof].method = "dns"

BackingIsConsumed ==
  entity.status = "verified" /\ backing # 0 /\ "erased" \notin mishaps =>
    /\ backing \in 1 .. Len(attempts)
    /\ attempts[backing].state = "verified" /\ attempts[backing].method = entity.method

AbsentIsErased ==
  entity.status = "absent" => \A t \in 1 .. Len(attempts) : attempts[t].state = "erased"

EntityInv ==
  /\ EntityTypes /\ SpentOnce /\ NewestIsLive /\ HandlersHold /\ LastIsConsumed /\ BackingIsConsumed
  /\ AbsentIsErased /\ SweepChecksProof /\ SpentTokenVerifies

-----------------------------------------------------------------------------
\* An empty ledger and no entity.
LEMMA InitEntity == EntityInit => EntityInv
BY EntityConstants
   DEF EntityInit, EntityInv, EntityTypes, SpentOnce, NewestIsLive, HandlersHold, LastIsConsumed,
       BackingIsConsumed, AbsentIsErased, SweepChecksProof, SpentTokenVerifies, EntityRows, AttemptRows,
       HandlerRows, HandlerSteps, StartSteps, AtRest, Absent, Methods, On, Spent

\* Handlers go on without consuming or marking, and none leaves the latter undone.
HandlersStay ==
  /\ handler' \in [Handlers -> HandlerRows]
  /\ \A g \in Handlers :
       \/ handler'[g] = handler[g]
       \/ /\ handler[g].step # "flip" /\ handler'[g].step \notin {"consume", "flip"}
          /\ handler'[g].step \in StartSteps => handler'[g].method \in Methods

\* The ledger is appended to, and live challenges expire.
LedgerGrows ==
  /\ attempts' \in Seq(AttemptRows)
  /\ Len(attempts) <= Len(attempts') /\ Len(attempts') <= MaxAttempts
  /\ \A t \in 1 .. Len(attempts) :
       /\ attempts'[t].method = attempts[t].method
       /\ \/ attempts'[t].state = attempts[t].state
          \/ attempts[t].state = "pending" /\ attempts'[t].state = "expired"
  /\ \A t \in Len(attempts) + 1 .. Len(attempts') : attempts'[t].state # "verified"
  /\ Len(attempts) < Len(attempts') => entity.status # "absent"
  /\ NewestIsLive'

\* The entity is inserted, put to pending, or revoked.
EntityMoves ==
  /\ entity' \in EntityRows
  /\ entity'.status = "verified" => entity.status = "verified" /\ entity'.method = entity.method
  /\ entity.status \in {"verified", "revoked"} =>
       entity'.status \in {"verified", "revoked"} \/ "downgraded" \in mishaps'
  /\ entity.status # "absent" => entity'.status # "absent"

\* A step that consumes nothing and marks nothing.
LEMMA QuietStep ==
  ASSUME EntityInv, HandlersStay, LedgerGrows, EntityMoves, zone' \subseteq Nat,
         UNCHANGED <<lastProof, backing, spentBy>>, mishaps \subseteq mishaps'
  PROVE  EntityInv'
<1>1. Len(attempts) \in Nat /\ Len(attempts') \in Nat BY DEF EntityInv, EntityTypes, LedgerGrows
<1>2. EntityTypes'
  BY DEF EntityInv, EntityTypes, HandlersStay, LedgerGrows, EntityMoves, On
<1>3. SpentOnce' BY <1>1 DEF EntityInv, SpentOnce, Spent, LedgerGrows
<1>4. HandlersHold' BY <1>1 DEF EntityInv, HandlersHold, HandlersStay, Spent, LedgerGrows, On
<1>5. LastIsConsumed' BY <1>1 DEF EntityInv, LastIsConsumed, LedgerGrows
<1>6. BackingIsConsumed' BY <1>1 DEF EntityInv, BackingIsConsumed, LedgerGrows, EntityMoves
<1>7. AbsentIsErased' BY <1>1 DEF EntityInv, AbsentIsErased, LedgerGrows, EntityMoves
<1>8. \A g \in Handlers : On(g, "flip") => handler'[g] = handler[g] BY DEF HandlersStay, On
<1>9. SweepChecksProof'
  BY <1>8 DEF EntityInv, SweepChecksProof, EntityMoves, On
<1>10. SpentTokenVerifies'
  <2> SUFFICES ASSUME NEW t \in DOMAIN attempts', attempts'[t].state = "verified",
                      mishaps' \cap {"unflipped", "downgraded"} = {}
               PROVE  \/ entity'.status \in {"verified", "revoked"}
                      \/ \E h \in Handlers : On(h, "flip")' /\ handler'[h].token = t
    BY DEF SpentTokenVerifies
  <2>1. t \in DOMAIN attempts /\ attempts[t].state = "verified"
    BY <1>1 DEF EntityInv, EntityTypes, LedgerGrows
  <2>2. mishaps \cap {"unflipped", "downgraded"} = {} OBVIOUS
  <2>3. CASE entity.status \in {"verified", "revoked"} BY <2>3 DEF EntityMoves
  <2>4. CASE \E h \in Handlers : On(h, "flip") /\ handler[h].token = t BY <1>8, <2>4 DEF On
  <2> QED BY <2>1, <2>2, <2>3, <2>4 DEF EntityInv, SpentTokenVerifies
<1> QED BY <1>2, <1>3, <1>4, <1>5, <1>6, <1>7, <1>9, <1>10 DEF EntityInv, LedgerGrows

\* Nothing happens to the ledger, or to the entity.
LEMMA NothingMoves ==
  ASSUME EntityInv
  PROVE  /\ UNCHANGED attempts => LedgerGrows
         /\ UNCHANGED entity => EntityMoves
         /\ UNCHANGED handler => HandlersStay
BY DEF EntityInv, EntityTypes, LedgerGrows, EntityMoves, HandlersStay, NewestIsLive

\* One handler goes on.
LEMMA OneHandler ==
  ASSUME EntityInv, NEW h \in Handlers, NEW c \in HandlerRows, handler' = [handler EXCEPT ![h] = c],
         handler[h].step # "flip", c.step \notin {"consume", "flip"},
         c.step \in StartSteps => c.method \in Methods
  PROVE  HandlersStay
BY DEF EntityInv, EntityTypes, HandlersStay

\* A handler that takes up a request.
LEMMA TakesUp ==
  ASSUME EntityInv, NEW h \in Handlers, NEW c \in HandlerRows, Take(h, c),
         c.step \notin {"consume", "flip"}, c.step \in StartSteps => c.method \in Methods,
         UNCHANGED <<entity, attempts, lastProof, zone, backing, spentBy, mishaps>>
  PROVE  EntityInv'
<1>1. HandlersStay BY OneHandler DEF Take, On
<1> QED BY <1>1, NothingMoves, QuietStep DEF EntityInv, EntityTypes

\* The requests that begin with a read.
LEMMA BeginningsKeepInv ==
  ASSUME EntityInv, NEW h \in Handlers,
         \/ \E m \in Methods : StartCounts(h, m)
         \/ Retrigger(h) \/ CheckResolves(h) \/ OpenLink(h) \/ SweepLists(h) \/ OperatorRevokes(h)
  PROVE  EntityInv'
<1> USE DEF HandlerRows, HandlerSteps, StartSteps, AtRest, Methods
<1>1. lastProof \in Nat /\ zone \subseteq Nat BY DEF EntityInv, EntityTypes
<1>2. ASSUME NEW m \in Methods, StartCounts(h, m) PROVE EntityInv'
  BY <1>2, TakesUp DEF StartCounts
<1>3. CASE Retrigger(h) BY <1>3, TakesUp DEF Retrigger
<1>4. CASE CheckResolves(h) BY <1>1, <1>4, TakesUp DEF CheckResolves
<1>5. CASE OpenLink(h)
  <2>1. PICK t \in DOMAIN attempts :
          Take(h, [AtRest EXCEPT !.step = "find", !.method = "email", !.values = {t}])
    BY <1>5 DEF OpenLink
  <2>2. t \in Nat BY DEF EntityInv, EntityTypes
  <2> QED BY <1>5, <2>1, <2>2, TakesUp DEF OpenLink
<1>6. CASE SweepLists(h) BY <1>1, <1>6, TakesUp DEF SweepLists
<1>7. CASE OperatorRevokes(h) BY <1>7, TakesUp DEF OperatorRevokes
<1> QED BY <1>2, <1>3, <1>4, <1>5, <1>6, <1>7

\* A handler that goes on to a step, or responds.
LEMMA TellsStep ==
  ASSUME EntityInv, NEW h \in Handlers, handler[h].step # "flip",
         \/ Respond(h)
         \/ \E s \in {"rest", "find", "lookup", "revoke", "record"} : Tell(h, s)
         \/ \E s \in StartSteps : Tell(h, s) /\ handler[h].method \in Methods
  PROVE  HandlersStay
<1>1. handler[h] \in HandlerRows BY DEF EntityInv, EntityTypes
<1>2. CASE Respond(h)
  <2>1. AtRest \in HandlerRows /\ AtRest.step = "rest" BY DEF AtRest, HandlerRows, HandlerSteps
  <2> QED BY <1>2, <2>1, OneHandler DEF Respond, StartSteps
<1>3. ASSUME NEW s \in {"rest", "find", "lookup", "revoke", "record"}, Tell(h, s)
      PROVE  HandlersStay
  <2>1. [handler[h] EXCEPT !.step = s] \in HandlerRows /\ [handler[h] EXCEPT !.step = s].step = s
    BY <1>1 DEF HandlerRows, HandlerSteps
  <2> QED BY <1>3, <2>1, OneHandler DEF Tell, StartSteps
<1>4. ASSUME NEW s \in StartSteps, Tell(h, s), handler[h].method \in Methods
      PROVE  HandlersStay
  <2>1. /\ [handler[h] EXCEPT !.step = s] \in HandlerRows /\ [handler[h] EXCEPT !.step = s].step = s
        /\ [handler[h] EXCEPT !.step = s].method = handler[h].method
    BY <1>1 DEF HandlerRows, HandlerSteps, StartSteps
  <2> QED BY <1>4, <2>1, OneHandler DEF Tell, StartSteps
<1> QED BY <1>2, <1>3, <1>4

\* The ledger row of a sweep, and of a start, is the newest.
LEMMA AppendGrows ==
  ASSUME EntityInv, NEW r \in AttemptRows, attempts' = Append(attempts, r),
         Len(attempts) < MaxAttempts, entity.status # "absent", r.state # "verified",
         r.state # "revoked" => ~LiveOf(r.method)
  PROVE  LedgerGrows
<1>1. attempts \in Seq(AttemptRows) /\ MaxAttempts \in Nat BY EntityConstants DEF EntityInv, EntityTypes
<1>2. /\ attempts' \in Seq(AttemptRows) /\ Len(attempts') = Len(attempts) + 1
      /\ \A t \in 1 .. Len(attempts) : attempts'[t] = attempts[t]
      /\ attempts'[Len(attempts) + 1] = r /\ Len(attempts) \in Nat
  BY <1>1
<1>3. NewestIsLive'
  <2> SUFFICES ASSUME NEW s \in 1 .. Len(attempts'), NEW t \in 1 .. Len(attempts'), s < t,
                      attempts'[s].method = attempts'[t].method, attempts'[t].state # "revoked",
                      attempts'[s].state = "pending"
               PROVE  FALSE
    BY DEF NewestIsLive
  <2>1. s \in 1 .. Len(attempts) /\ attempts'[s] = attempts[s] BY <1>2
  <2>2. CASE t \in 1 .. Len(attempts) BY <1>2, <2>1, <2>2 DEF EntityInv, NewestIsLive
  <2>3. CASE t = Len(attempts) + 1
    <3>1. LiveOf(r.method) BY <1>1, <1>2, <2>1, <2>3 DEF LiveOf
    <3> QED BY <1>2, <2>3, <3>1
  <2> QED BY <1>2, <2>2, <2>3
<1>4. Len(attempts') <= MaxAttempts BY <1>1, <1>2
<1>5. \A t \in Len(attempts) + 1 .. Len(attempts') : attempts'[t].state # "verified"
  BY <1>2
<1> QED BY <1>2, <1>3, <1>4, <1>5 DEF LedgerGrows

\* Issuing a challenge.
LEMMA StartKeepsInv ==
  ASSUME EntityInv, NEW h \in Handlers,
         StartEnsures(h) \/ StartSetsPending(h) \/ ExpireLive(h) \/ Mint(h)
  PROVE  EntityInv'
<1> USE NothingMoves DEF On
<1>1. /\ entity \in EntityRows /\ lastProof \in Nat /\ zone \subseteq Nat /\ Len(attempts) <= MaxAttempts
      /\ attempts \in Seq(AttemptRows)
      /\ handler[h].step \in StartSteps => handler[h].method \in Methods
  BY DEF EntityInv, EntityTypes
<1>2. CASE StartEnsures(h)
  <2>1. HandlersStay BY <1>1, <1>2, TellsStep DEF StartEnsures, StartSteps
  <2>2. EntityMoves BY <1>1, <1>2 DEF StartEnsures, EntityMoves, Exists, Absent, EntityRows
  <2> QED BY <1>1, <1>2, <2>1, <2>2, QuietStep DEF StartEnsures
<1>3. CASE StartSetsPending(h)
  <2>1. HandlersStay BY <1>1, <1>3, TellsStep DEF StartSetsPending, StartSteps
  <2>2. /\ mishaps \subseteq mishaps'
        /\ entity.status \in {"verified", "revoked"} => "downgraded" \in mishaps'
    BY <1>3 DEF StartSetsPending, Note
  <2>3. entity' \in EntityRows /\ (entity.status # "absent" => entity'.status = "pending")
          /\ (entity.status = "absent" => entity' = entity)
    BY <1>1, <1>3 DEF StartSetsPending, Exists, EntityRows
  <2>4. EntityMoves BY <2>2, <2>3 DEF EntityMoves
  <2> QED BY <1>1, <1>3, <2>1, <2>2, <2>4, QuietStep DEF StartSetsPending
<1>4. CASE ExpireLive(h)
  <2>1. HandlersStay BY <1>1, <1>4, TellsStep DEF ExpireLive, StartSteps
  <2>2. DOMAIN attempts = 1 .. Len(attempts) /\ Len(attempts) \in Nat BY <1>1
  <2>3. \A t \in 1 .. Len(attempts) : attempts[t] \in AttemptRows BY <1>1
  <2>4. attempts' \in [1 .. Len(attempts) -> AttemptRows]
    BY <1>4, <2>2, <2>3 DEF ExpireLive, AttemptRows
  <2>5. attempts' \in Seq(AttemptRows) /\ Len(attempts') = Len(attempts) BY <2>2, <2>4
  <2>6. \A t \in 1 .. Len(attempts) :
          /\ attempts'[t].method = attempts[t].method
          /\ \/ attempts'[t].state = attempts[t].state
             \/ attempts[t].state = "pending" /\ attempts'[t].state = "expired"
    BY <1>4, <2>2, <2>3 DEF ExpireLive, AttemptRows
  <2>7. NewestIsLive' BY <2>5, <2>6 DEF EntityInv, NewestIsLive
  <2>8. LedgerGrows BY <1>1, <2>2, <2>5, <2>6, <2>7 DEF LedgerGrows
  <2> QED BY <1>1, <1>4, <2>1, <2>8, QuietStep DEF ExpireLive
<1>5. CASE Mint(h)
  <2>1. HandlersStay BY <1>5, TellsStep DEF Mint
  <2>2. CASE Exists /\ ~LiveOf(handler[h].method)
    <3> DEFINE r == [method |-> handler[h].method, state |-> "pending", lapsed |-> FALSE]
    <3>1. r \in AttemptRows BY <1>1, <1>5 DEF Mint, AttemptRows, StartSteps
    <3>2. LedgerGrows BY <1>5, <2>2, <3>1, AppendGrows DEF Mint, Exists
    <3> QED BY <1>1, <1>5, <2>1, <3>2, QuietStep DEF Mint
  <2>3. CASE ~(Exists /\ ~LiveOf(handler[h].method))
    BY <1>1, <1>5, <2>1, <2>3, QuietStep DEF Mint
  <2> QED BY <2>2, <2>3
<1> QED BY <1>2, <1>3, <1>4, <1>5

\* The sweep and an operator's revocation.
LEMMA SweepKeepsInv ==
  ASSUME EntityInv, NEW h \in Handlers,
         SweepLooksUp(h) \/ SetGrace(h) \/ RecordRevocation(h)
  PROVE  EntityInv'
<1> USE NothingMoves DEF On
<1>1. entity \in EntityRows /\ zone \subseteq Nat BY DEF EntityInv, EntityTypes
<1>2. CASE SweepLooksUp(h)
  <2>1. HandlersStay BY <1>2, TellsStep DEF SweepLooksUp
  <2> QED BY <1>1, <1>2, <2>1, QuietStep DEF SweepLooksUp
<1>3. CASE SetGrace(h)
  <2>1. HandlersStay BY <1>3, TellsStep DEF SetGrace
  <2>2. mishaps \subseteq mishaps' BY <1>3 DEF SetGrace, Note
  <2>3. EntityMoves BY <1>1, <1>3 DEF SetGrace, EntityMoves, EntityRows
  <2> QED BY <1>1, <1>3, <2>1, <2>2, <2>3, QuietStep DEF SetGrace
<1>4. CASE RecordRevocation(h)
  <2>1. HandlersStay BY <1>4, TellsStep DEF RecordRevocation
  <2>2. CASE Exists
    <3> DEFINE r == [method |-> "dns", state |-> "revoked", lapsed |-> TRUE]
    <3>1. r \in AttemptRows BY DEF AttemptRows, Methods
    <3>2. LedgerGrows BY <1>4, <2>2, <3>1, AppendGrows DEF RecordRevocation, Exists
    <3> QED BY <1>1, <1>4, <2>1, <3>2, QuietStep DEF RecordRevocation
  <2>3. CASE ~Exists BY <1>1, <1>4, <2>1, <2>3, QuietStep DEF RecordRevocation
  <2> QED BY <2>2, <2>3
<1> QED BY <1>2, <1>3, <1>4

\* The zone and the clock.
LEMMA ClockKeepsInv ==
  ASSUME EntityInv, Publish \/ Unpublish \/ Lapse \/ HourPasses
  PROVE  EntityInv'
<1> USE NothingMoves
<1>1. attempts \in Seq(AttemptRows) /\ Len(attempts) <= MaxAttempts /\ zone \subseteq Nat
  BY DEF EntityInv, EntityTypes
<1>2. CASE Publish BY <1>1, <1>2, QuietStep DEF Publish
<1>3. CASE Unpublish BY <1>1, <1>3, QuietStep DEF Unpublish
<1>4. CASE HourPasses BY <1>1, <1>4, QuietStep DEF HourPasses
<1>5. CASE Lapse
  <2>1. PICK u \in DOMAIN attempts : attempts' = [attempts EXCEPT ![u].lapsed = TRUE] BY <1>5 DEF Lapse
  <2>2. /\ attempts' \in Seq(AttemptRows) /\ Len(attempts') = Len(attempts) /\ Len(attempts) \in Nat
        /\ \A t \in 1 .. Len(attempts) :
             attempts'[t].method = attempts[t].method /\ attempts'[t].state = attempts[t].state
    <3>1. u \in 1 .. Len(attempts) /\ attempts[u] \in AttemptRows BY <1>1
    <3>2. /\ [attempts[u] EXCEPT !.lapsed = TRUE] \in AttemptRows
          /\ [attempts[u] EXCEPT !.lapsed = TRUE].method = attempts[u].method
          /\ [attempts[u] EXCEPT !.lapsed = TRUE].state = attempts[u].state
      BY <3>1 DEF AttemptRows
    <3>3. attempts' = [attempts EXCEPT ![u] = [attempts[u] EXCEPT !.lapsed = TRUE]] BY <2>1
    <3> QED BY <1>1, <3>1, <3>2, <3>3
  <2>3. NewestIsLive' BY <2>2 DEF EntityInv, NewestIsLive
  <2>4. LedgerGrows BY <1>1, <2>2, <2>3 DEF LedgerGrows
  <2> QED BY <1>1, <1>5, <2>4, QuietStep DEF Lapse
<1> QED BY <1>2, <1>3, <1>4, <1>5

\* A handler tries the next value.
LEMMA FindKeepsInv ==
  ASSUME EntityInv, NEW h \in Handlers, FindToken(h)
  PROVE  EntityInv'
<1> USE NothingMoves
<1>1. /\ handler[h] \in HandlerRows /\ handler[h].step = "find" /\ zone \subseteq Nat
      /\ UNCHANGED <<entity, attempts, lastProof, zone, backing, spentBy, mishaps>>
  BY DEF EntityInv, EntityTypes, FindToken, On
<1>2. CASE handler[h].values = {}
  <2>1. HandlersStay BY <1>1, <1>2, TellsStep DEF FindToken
  <2> QED BY <1>1, <2>1, QuietStep
<1>3. CASE handler[h].values # {}
  <2>1. PICK t \in handler[h].values :
          handler' = [handler EXCEPT ![h].values = @ \ {t}, ![h].token = t,
            ![h].step = IF Live(t) /\ attempts[t].method = handler[h].method THEN "consume" ELSE "find"]
    BY <1>3 DEF FindToken
  <2> DEFINE step == IF Live(t) /\ attempts[t].method = handler[h].method THEN "consume" ELSE "find"
             c == [handler[h] EXCEPT !.values = @ \ {t}, !.token = t, !.step = step]
  <2>2. handler' = [handler EXCEPT ![h] = c] BY <2>1
  <2>3. step \in {"consume", "find"} OBVIOUS
  <2> HIDE DEF step
  <2>4. c \in HandlerRows /\ c.step = step /\ c.token = t /\ c.method = handler[h].method
    BY <1>1, <2>3 DEF HandlerRows, HandlerSteps
  <2> HIDE DEF c
  <2>5. CASE step = "find"
    <3>1. HandlersStay BY <1>1, <2>2, <2>4, <2>5, OneHandler DEF StartSteps
    <3> QED BY <1>1, <3>1, QuietStep
  <2>6. CASE step = "consume"
    <3>1. Live(t) /\ attempts[t].method = handler[h].method BY <2>6 DEF step
    <3>2. /\ handler' \in [Handlers -> HandlerRows] /\ handler'[h] = c
          /\ \A g \in Handlers \ {h} : handler'[g] = handler[g]
      BY <2>2, <2>4 DEF EntityInv, EntityTypes
    <3>3. EntityTypes' BY <1>1, <2>4, <2>6, <3>2 DEF EntityInv, EntityTypes, StartSteps
    <3>4. HandlersHold' BY <1>1, <2>4, <2>6, <3>1, <3>2 DEF EntityInv, HandlersHold, On, Live, Spent
    <3>5. SweepChecksProof' BY <1>1, <3>2 DEF EntityInv, SweepChecksProof, On
    <3>6. SpentTokenVerifies' BY <1>1, <3>2 DEF EntityInv, SpentTokenVerifies, On
    <3> QED BY <1>1, <3>3, <3>4, <3>5, <3>6
            DEF EntityInv, SpentOnce, NewestIsLive, LastIsConsumed, BackingIsConsumed, AbsentIsErased, Spent
  <2> QED BY <2>3, <2>5, <2>6
<1> QED BY <1>2, <1>3

\* A live challenge is consumed: no newer one of its method has been, and it had not.
LEMMA ConsumeKeepsInv ==
  ASSUME EntityInv, NEW h \in Handlers, Consume(h)
  PROVE  EntityInv'
<1> DEFINE t == handler[h].token
<1>1. /\ handler[h] \in HandlerRows /\ handler[h].step = "consume" /\ zone \subseteq Nat
      /\ UNCHANGED <<entity, zone, backing, mishaps>>
      /\ attempts \in Seq(AttemptRows) /\ Len(attempts) <= MaxAttempts /\ Len(attempts) \in Nat
      /\ spentBy \in [1 .. MaxAttempts -> Nat] /\ MaxAttempts \in Nat
  BY EntityConstants DEF EntityInv, EntityTypes, Consume, On
<1>2. t \in 1 .. Len(attempts) /\ attempts[t].method = handler[h].method
  BY <1>1 DEF EntityInv, HandlersHold
<1>3. CASE ~Live(t)
  <2>1. HandlersStay BY <1>1, <1>3, TellsStep DEF Consume
  <2> QED BY <1>1, <1>3, <2>1, NothingMoves, QuietStep DEF Consume
<1>4. CASE Live(t)
  <2>1. /\ attempts' = [attempts EXCEPT ![t].state = "verified"]
        /\ lastProof' = IF handler[h].method = "dns" THEN t ELSE lastProof
        /\ spentBy' = [spentBy EXCEPT ![t] = @ + 1]
        /\ handler' = [handler EXCEPT ![h].step = "flip"]
        /\ attempts[t].state = "pending"
    BY <1>4 DEF Consume, Tell, Live
  <2>2. /\ attempts' \in Seq(AttemptRows) /\ Len(attempts') = Len(attempts)
        /\ attempts'[t].state = "verified" /\ attempts'[t].method = attempts[t].method
        /\ \A u \in 1 .. Len(attempts) : u # t => attempts'[u] = attempts[u]
    <3>1. attempts[t] \in AttemptRows BY <1>1, <1>2
    <3>2. /\ [attempts[t] EXCEPT !.state = "verified"] \in AttemptRows
          /\ [attempts[t] EXCEPT !.state = "verified"].method = attempts[t].method
          /\ [attempts[t] EXCEPT !.state = "verified"].state = "verified"
      BY <3>1 DEF AttemptRows
    <3>3. attempts' = [attempts EXCEPT ![t] = [attempts[t] EXCEPT !.state = "verified"]] BY <2>1
    <3> QED BY <1>1, <1>2, <3>2, <3>3
  <2>3. /\ handler' \in [Handlers -> HandlerRows]
        /\ handler'[h].step = "flip" /\ handler'[h].token = t /\ handler'[h].method = handler[h].method
        /\ \A g \in Handlers \ {h} : handler'[g] = handler[g]
    BY <1>1, <2>1 DEF EntityInv, EntityTypes, HandlerRows, HandlerSteps
  <2>4. /\ spentBy' \in [1 .. MaxAttempts -> Nat] /\ spentBy'[t] = spentBy[t] + 1
        /\ \A u \in 1 .. MaxAttempts : u # t => spentBy'[u] = spentBy[u]
    <3>1. t \in 1 .. MaxAttempts /\ spentBy[t] \in Nat BY <1>1, <1>2
    <3> QED BY <1>1, <2>1, <3>1
  <2>5. ASSUME NEW u \in 1 .. Len(attempts), Spent(u), attempts[u].method = attempts[t].method
        PROVE  u < t
    BY <1>2, <2>1, <2>5 DEF EntityInv, NewestIsLive, Spent
  <2> HIDE DEF t
  <2>6. EntityTypes'
    BY <1>1, <1>2, <2>1, <2>2, <2>3, <2>4 DEF EntityInv, EntityTypes, StartSteps
  <2>7. SpentOnce' BY <1>1, <1>2, <2>1, <2>2, <2>4 DEF EntityInv, SpentOnce, Spent
  <2>8. NewestIsLive' BY <1>2, <2>1, <2>2 DEF EntityInv, NewestIsLive
  <2>9. LastIsConsumed' BY <1>2, <2>1, <2>2 DEF EntityInv, LastIsConsumed
  <2>10. HandlersHold'
    <3> SUFFICES ASSUME NEW g \in Handlers, handler'[g].step \in {"consume", "flip"}
                 PROVE  /\ handler'[g].token \in 1 .. Len(attempts')
                        /\ attempts'[handler'[g].token].method = handler'[g].method
                        /\ handler'[g].step = "flip" =>
                             /\ attempts'[handler'[g].token].state \in {"verified", "erased"}
                             /\ handler'[g].method = "dns" => lastProof' = 0 \/ handler'[g].token <= lastProof'
      BY DEF HandlersHold, On, Spent
    <3>1. CASE g = h BY <1>2, <2>1, <2>2, <2>3, <3>1 DEF Spent
    <3>2. CASE g # h
      <4>1. handler'[g] = handler[g] BY <2>3, <3>2
      <4>2. /\ handler[g].token \in 1 .. Len(attempts)
            /\ attempts[handler[g].token].method = handler[g].method
            /\ On(g, "flip") =>
                 /\ Spent(handler[g].token)
                 /\ handler[g].method = "dns" => lastProof = 0 \/ handler[g].token <= lastProof
        BY <4>1 DEF EntityInv, HandlersHold
      <4>3. attempts'[handler[g].token].method = attempts[handler[g].token].method BY <2>2, <4>2
      <4>4. ASSUME handler[g].step = "flip"
            PROVE  attempts'[handler[g].token].state \in {"verified", "erased"}
        BY <2>2, <4>2, <4>4 DEF On, Spent
      <4>5. ASSUME handler[g].step = "flip", handler[g].method = "dns"
            PROVE  lastProof' = 0 \/ handler[g].token <= lastProof'
        <5>1. On(g, "flip") BY <4>5 DEF On
        <5>2. CASE handler[h].method = "dns" BY <1>2, <2>1, <2>5, <4>2, <4>5, <5>1, <5>2
        <5>3. CASE handler[h].method # "dns" BY <2>1, <4>2, <4>5, <5>1, <5>3
        <5> QED BY <5>2, <5>3
      <4> QED BY <2>2, <4>1, <4>2, <4>3, <4>4, <4>5
    <3> QED BY <3>1, <3>2
  <2>11. BackingIsConsumed' BY <1>1, <1>2, <2>1, <2>2 DEF EntityInv, BackingIsConsumed
  <2>12. AbsentIsErased' BY <1>1, <1>2, <2>1 DEF EntityInv, AbsentIsErased
  <2>13. SweepChecksProof'
    <3>1. CASE handler[h].method = "dns" BY <2>1, <2>3, <3>1 DEF SweepChecksProof, On
    <3>2. CASE handler[h].method # "dns"
      <4>1. \A g \in Handlers : On(g, "flip") => handler'[g] = handler[g] BY <1>1, <2>3 DEF On
      <4> QED BY <1>1, <2>1, <3>2, <4>1 DEF EntityInv, SweepChecksProof, On
    <3> QED BY <3>1, <3>2
  <2>14. SpentTokenVerifies' BY <1>1, <2>1, <2>2, <2>3 DEF EntityInv, SpentTokenVerifies, On
  <2> QED BY <2>6, <2>7, <2>8, <2>9, <2>10, <2>11, <2>12, <2>13, <2>14 DEF EntityInv
<1> QED BY <1>3, <1>4

\* A handler that has consumed marks the entity, which then rests on its challenge.
LEMMA FlipKeepsInv ==
  ASSUME EntityInv, NEW h \in Handlers, Flip(h)
  PROVE  EntityInv'
<1> DEFINE t == handler[h].token
<1>1. /\ handler[h].step = "flip" /\ handler' = [handler EXCEPT ![h] = AtRest]
      /\ UNCHANGED <<attempts, lastProof, zone, spentBy>> /\ backing' = t
      /\ entity' = IF Exists THEN [entity EXCEPT !.status = "verified", !.method = handler[h].method] ELSE entity
      /\ mishaps' = mishaps \cup {what \in {"erased", "reordered"} :
                              IF what = "erased" THEN attempts[t].state = "erased"
                              ELSE \E u \in t + 1 .. Len(attempts) : attempts[u].state = "verified"}
  BY DEF Flip, On, Respond
<1>2. /\ t \in 1 .. Len(attempts) /\ attempts[t].method = handler[h].method /\ Spent(t)
      /\ handler[h].method = "dns" => lastProof = 0 \/ t <= lastProof
  BY <1>1 DEF EntityInv, HandlersHold, On
<1>3. /\ mishaps \subseteq mishaps'
      /\ "erased" \notin mishaps' => attempts[t].state = "verified"
      /\ \A u \in t + 1 .. Len(attempts) : attempts[u].state = "verified" => "reordered" \in mishaps'
  BY <1>1, <1>2 DEF Spent
<1>4. attempts \in Seq(AttemptRows) /\ Len(attempts) \in Nat /\ entity \in EntityRows
  BY DEF EntityInv, EntityTypes
<1>5. handler[h].method \in Methods
  <2>1. attempts[t] \in AttemptRows BY <1>2, <1>4
  <2> QED BY <1>2, <2>1 DEF AttemptRows
<1>6. /\ handler' \in [Handlers -> HandlerRows] /\ handler'[h].step = "rest"
      /\ \A g \in Handlers \ {h} : handler'[g] = handler[g]
  BY <1>1 DEF EntityInv, EntityTypes, AtRest, HandlerRows, HandlerSteps
<1>7. CASE Exists
  <2>1. entity' \in EntityRows /\ entity'.status = "verified" /\ entity'.method = handler[h].method
    BY <1>1, <1>4, <1>5, <1>7 DEF EntityRows
  <2>2. EntityTypes' BY <1>1, <1>2, <1>6, <2>1 DEF EntityInv, EntityTypes, StartSteps
  <2>3. HandlersHold' BY <1>1, <1>6 DEF EntityInv, HandlersHold, On, Spent
  <2>4. BackingIsConsumed' BY <1>1, <1>2, <1>3, <2>1 DEF BackingIsConsumed
  <2>5. SweepChecksProof'
    <3>1. SUFFICES ASSUME handler[h].method = "dns", lastProof # 0, t # lastProof
                   PROVE  "reordered" \in mishaps'
      BY <1>1, <2>1 DEF SweepChecksProof
    <3>2. lastProof \in t + 1 .. Len(attempts) /\ attempts[lastProof].state = "verified"
      BY <1>2, <1>4, <3>1 DEF EntityInv, LastIsConsumed
    <3> QED BY <1>3, <3>2
  <2>6. SpentTokenVerifies' BY <2>1 DEF SpentTokenVerifies
  <2> QED BY <1>1, <2>1, <2>2, <2>3, <2>4, <2>5, <2>6
          DEF EntityInv, SpentOnce, NewestIsLive, LastIsConsumed, AbsentIsErased, Spent
<1>8. CASE ~Exists
  <2>1. entity' = entity /\ entity.status = "absent" BY <1>1, <1>8 DEF Exists
  <2>2. EntityTypes' BY <1>1, <1>2, <1>4, <1>6, <2>1 DEF EntityInv, EntityTypes, StartSteps
  <2>3. HandlersHold' BY <1>1, <1>6 DEF EntityInv, HandlersHold, On, Spent
  <2>4. BackingIsConsumed' /\ SweepChecksProof' BY <2>1 DEF BackingIsConsumed, SweepChecksProof
  <2>5. SpentTokenVerifies' BY <1>1, <1>4, <2>1 DEF EntityInv, AbsentIsErased, SpentTokenVerifies
  <2> QED BY <1>1, <2>1, <2>2, <2>3, <2>4, <2>5
          DEF EntityInv, SpentOnce, NewestIsLive, LastIsConsumed, AbsentIsErased, Spent
<1> QED BY <1>7, <1>8

\* A handler that dies instead leaves its mark on the history.
LEMMA FlipFailsKeepsInv ==
  ASSUME EntityInv, NEW h \in Handlers, FlipFails(h)
  PROVE  EntityInv'
<1>1. /\ handler[h].step = "flip" /\ handler' = [handler EXCEPT ![h] = AtRest]
      /\ UNCHANGED <<entity, attempts, lastProof, zone, spentBy, backing>>
      /\ mishaps' = mishaps \cup {"unflipped"}
  BY DEF FlipFails, On, Respond, Note
<1>2. /\ handler' \in [Handlers -> HandlerRows] /\ handler'[h].step = "rest"
      /\ \A g \in Handlers \ {h} : handler'[g] = handler[g]
  BY <1>1 DEF EntityInv, EntityTypes, AtRest, HandlerRows, HandlerSteps
<1>3. EntityTypes' BY <1>1, <1>2 DEF EntityInv, EntityTypes, StartSteps
<1>4. HandlersHold' BY <1>1, <1>2 DEF EntityInv, HandlersHold, On, Spent
<1>5. "unflipped" \in mishaps' /\ ("erased" \notin mishaps' => "erased" \notin mishaps) BY <1>1
<1>6. SweepChecksProof' /\ SpentTokenVerifies' BY <1>5 DEF SweepChecksProof, SpentTokenVerifies
<1> QED BY <1>1, <1>3, <1>4, <1>5, <1>6
        DEF EntityInv, SpentOnce, NewestIsLive, LastIsConsumed, BackingIsConsumed, AbsentIsErased, Spent

\* What an operator decides rests on no challenge.
LEMMA OverruleKeepsInv ==
  ASSUME EntityInv, NEW m \in {"dns", "manual"}, NEW clears \in BOOLEAN, Overrule(m, clears)
  PROVE  EntityInv'
<1>1. /\ UNCHANGED <<attempts, lastProof, zone, handler, spentBy, mishaps>> /\ backing' = 0
      /\ entity' = [entity EXCEPT !.status = "verified", !.method = m, !.grace = @ /\ ~clears]
  BY DEF Overrule
<1>2. entity' \in EntityRows /\ entity'.status = "verified"
  <2> DEFINE grace == entity.grace /\ ~clears
  <2>1. entity \in EntityRows /\ grace \in BOOLEAN BY DEF EntityInv, EntityTypes, EntityRows
  <2>2. entity' = [entity EXCEPT !.status = "verified", !.method = m, !.grace = grace] BY <1>1
  <2> HIDE DEF grace
  <2> QED BY <2>1, <2>2 DEF EntityRows, Methods
<1>3. EntityTypes' BY <1>1, <1>2 DEF EntityInv, EntityTypes
<1>4. HandlersHold' BY <1>1 DEF EntityInv, HandlersHold, On, Spent
<1>5. BackingIsConsumed' /\ SweepChecksProof' /\ SpentTokenVerifies' /\ AbsentIsErased'
  BY <1>1, <1>2 DEF BackingIsConsumed, SweepChecksProof, SpentTokenVerifies, AbsentIsErased
<1> QED BY <1>1, <1>3, <1>4, <1>5
        DEF EntityInv, SpentOnce, NewestIsLive, LastIsConsumed, Spent

\* Erasing an entity takes its challenges from all who have them in hand.
LEMMA EraseKeepsInv ==
  ASSUME EntityInv, EraseEntity
  PROVE  EntityInv'
<1>1. /\ entity' = Absent /\ lastProof' = 0
      /\ attempts' = [t \in DOMAIN attempts |-> [attempts[t] EXCEPT !.state = "erased"]]
      /\ UNCHANGED <<zone, handler, backing, spentBy, mishaps>>
  BY DEF EraseEntity
<1>2. DOMAIN attempts = 1 .. Len(attempts) /\ Len(attempts) \in Nat
  BY DEF EntityInv, EntityTypes
<1>3. ASSUME NEW t \in 1 .. Len(attempts)
      PROVE  /\ [attempts[t] EXCEPT !.state = "erased"] \in AttemptRows
             /\ [attempts[t] EXCEPT !.state = "erased"].state = "erased"
             /\ [attempts[t] EXCEPT !.state = "erased"].method = attempts[t].method
  <2>1. attempts[t] \in AttemptRows BY DEF EntityInv, EntityTypes
  <2> QED BY <2>1 DEF AttemptRows
<1>4. attempts' \in [1 .. Len(attempts) -> AttemptRows] BY <1>1, <1>2, <1>3
<1>5. /\ attempts' \in Seq(AttemptRows) /\ Len(attempts') = Len(attempts)
      /\ \A t \in 1 .. Len(attempts) : attempts'[t].state = "erased" /\ attempts'[t].method = attempts[t].method
  <2>1. attempts' \in Seq(AttemptRows) /\ Len(attempts') = Len(attempts) BY <1>2, <1>4
  <2>2. \A t \in 1 .. Len(attempts) : attempts'[t] = [attempts[t] EXCEPT !.state = "erased"]
    BY <1>1, <1>2
  <2> QED BY <1>3, <2>1, <2>2
<1>6. entity' \in EntityRows /\ entity'.status = "absent" BY <1>1 DEF Absent, EntityRows
<1>7. EntityTypes' BY <1>1, <1>5, <1>6 DEF EntityInv, EntityTypes
<1>8. SpentOnce' BY <1>1, <1>2, <1>5 DEF EntityInv, SpentOnce, Spent
<1>9. HandlersHold' BY <1>1, <1>2, <1>5 DEF EntityInv, HandlersHold, Spent, On
<1>10. NewestIsLive' /\ LastIsConsumed' /\ AbsentIsErased'
  BY <1>1, <1>5 DEF NewestIsLive, LastIsConsumed, AbsentIsErased
<1>11. BackingIsConsumed' /\ SweepChecksProof' BY <1>6 DEF BackingIsConsumed, SweepChecksProof
<1>12. SpentTokenVerifies' BY <1>2, <1>4, <1>5 DEF SpentTokenVerifies
<1> QED BY <1>7, <1>8, <1>9, <1>10, <1>11, <1>12 DEF EntityInv

\* Every step keeps the invariant.
LEMMA NextEntity == EntityInv /\ [EntityNext]_entityVars => EntityInv'
<1> SUFFICES ASSUME EntityInv, [EntityNext]_entityVars PROVE EntityInv'
  OBVIOUS
<1>1. CASE EntityNext
  <2>1. CASE \E h \in Handlers :
               \/ \E m \in Methods : StartCounts(h, m)
               \/ StartEnsures(h) \/ StartSetsPending(h) \/ ExpireLive(h) \/ Mint(h) \/ Retrigger(h)
               \/ CheckResolves(h) \/ OpenLink(h) \/ FindToken(h) \/ Consume(h) \/ Flip(h) \/ FlipFails(h)
               \/ SweepLists(h) \/ SweepLooksUp(h) \/ OperatorRevokes(h) \/ SetGrace(h) \/ RecordRevocation(h)
    BY <2>1, BeginningsKeepInv, StartKeepsInv, FindKeepsInv, ConsumeKeepsInv, FlipKeepsInv,
       FlipFailsKeepsInv, SweepKeepsInv
  <2>2. CASE OverrideVerify \/ AdjudicateConflict \/ TransferControl
    BY <2>2, OverruleKeepsInv DEF OverrideVerify, AdjudicateConflict, TransferControl
  <2>3. CASE EraseEntity BY <2>3, EraseKeepsInv
  <2>4. CASE Publish \/ Unpublish \/ Lapse \/ HourPasses BY <2>4, ClockKeepsInv
  <2> QED BY <1>1, <2>1, <2>2, <2>3, <2>4 DEF EntityNext
<1>2. CASE UNCHANGED entityVars
  <2>1. /\ UNCHANGED <<entity, attempts, lastProof, zone, handler, backing, spentBy, mishaps>>
    BY <1>2 DEF entityVars
  <2> QED BY <2>1, NothingMoves, QuietStep DEF EntityInv, EntityTypes
<1> QED BY <1>1, <1>2

\* The invariant of a claim, its ledger and the handlers at work on it.
THEOREM EntityInvariant == EntitySpec => []EntityInv
BY InitEntity, NextEntity, PTL DEF EntitySpec

\* A challenge is consumed once, a verified entity rests on one of its own, and the daily
\* sweep looks for that one (verification.rs: consume, set_claim_status and
\* dns_verified_domains are separate statements), but for the mishaps named.
THEOREM ClaimRestsOnProofAlways == EntitySpec => []ClaimRestsOnProof
<1>1. EntityInv => VerifiedIsProven
  BY DEF EntityInv, SpentOnce, BackingIsConsumed, VerifiedIsProven
<1>2. EntityInv => ClaimRestsOnProof BY <1>1 DEF EntityInv, ClaimRestsOnProof
<1> QED BY <1>2, EntityInvariant, PTL

\* Whoever has spent a challenge has a verified entity, or one that was revoked since,
\* unless a handler has died or a start has put it back to pending.
THEOREM SpentTokenVerifiesAlways == EntitySpec => []SpentTokenVerifies
<1>1. EntityInv => SpentTokenVerifies BY DEF EntityInv
<1> QED BY <1>1, EntityInvariant, PTL

-----------------------------------------------------------------------------
(* The hourly limit *)

Issued == {t \in starters : InHour(t)}               \* within the hour
Cleared == {h \in Handlers : handler[h].limited}     \* have counted and not yet inserted

\* What has been issued and what may be issued by who has counted: a start that counts
\* sees what has been issued, if not who else has counted.
LimitInv ==
  /\ hourAgo \in 0 .. Len(attempts) /\ starters \subseteq 1 .. Len(attempts)
  /\ Cardinality(Issued) + Cardinality(Cleared) <= AttemptLimit + Cardinality(Handlers) - 1

\* Both counts are numbers, and neither exceeds what it is taken from.
LEMMA LimitCounts ==
  ASSUME EntityInv, hourAgo \in 0 .. Len(attempts), starters \subseteq 1 .. Len(attempts)
  PROVE  /\ IsFiniteSet(Issued) /\ Cardinality(Issued) \in Nat
         /\ Cardinality(Issued) <= Len(attempts) - hourAgo
         /\ IsFiniteSet(Cleared) /\ Cardinality(Cleared) \in Nat
         /\ Cardinality(Handlers) \in Nat /\ Cardinality(Cleared) <= Cardinality(Handlers)
<1>1. Len(attempts) \in Nat /\ hourAgo \in Nat
  BY DEF EntityInv, EntityTypes
<1>2. /\ IsFiniteSet(hourAgo + 1 .. Len(attempts))
      /\ Cardinality(hourAgo + 1 .. Len(attempts)) = Len(attempts) - hourAgo
  <2> DEFINE a == hourAgo + 1  b == Len(attempts)
  <2>1. a \in Int /\ b \in Int /\ (a > b => b - hourAgo = 0) /\ b - a + 1 = b - hourAgo
    BY <1>1
  <2> HIDE DEF a, b
  <2>2. IsFiniteSet(a .. b) /\ Cardinality(a .. b) = IF a > b THEN 0 ELSE b - a + 1
    BY <2>1, FS_Interval
  <2> QED BY <2>1, <2>2 DEF a, b
<1>3. Issued \subseteq hourAgo + 1 .. Len(attempts)
  <2>1. ASSUME NEW t \in Issued PROVE t \in hourAgo + 1 .. Len(attempts)
    <3>1. t \in 1 .. Len(attempts) /\ t > hourAgo
      BY DEF Issued, InHour
    <3> QED BY <1>1, <3>1
  <2> QED BY <2>1
<1>4. IsFiniteSet(Issued) /\ Cardinality(Issued) <= Len(attempts) - hourAgo
  BY <1>2, <1>3, FS_Subset
<1>5. IsFiniteSet(Cleared) /\ Cardinality(Cleared) <= Cardinality(Handlers)
  BY EntityConstants, FS_Subset DEF Cleared
<1> QED BY <1>4, <1>5, EntityConstants, FS_CardinalityType

\* A step that inserts no challenge and clears no handler.
LEMMA LimitRests ==
  ASSUME EntityInv, EntityInv', LimitInv, UNCHANGED <<hourAgo, starters>>,
         Len(attempts) <= Len(attempts'),
         \A h \in Handlers : handler'[h].limited => handler[h].limited
  PROVE  LimitInv'
<1>1. Len(attempts) \in Nat /\ Len(attempts') \in Nat
  BY DEF EntityInv, EntityTypes
<1>2. hourAgo' \in 0 .. Len(attempts') /\ starters' \subseteq 1 .. Len(attempts')
  BY <1>1 DEF LimitInv
<1>3. Issued' = Issued /\ Cleared' \subseteq Cleared
  BY DEF Issued, Cleared, InHour
<1>4. Cardinality(Cleared') <= Cardinality(Cleared)
  BY <1>3, LimitCounts, FS_Subset DEF LimitInv
<1>5. /\ Cardinality(Issued) \in Nat /\ Cardinality(Cleared) \in Nat
      /\ Cardinality(Handlers) \in Nat /\ Cardinality(Cleared') \in Nat
  BY <1>3, LimitCounts, FS_Subset, FS_CardinalityType DEF LimitInv
<1> QED BY <1>2, <1>3, <1>4, <1>5, EntityConstants DEF LimitInv

\* A start counts, and is one of those that may issue.
LEMMA LimitOfCounting ==
  ASSUME EntityInv, EntityInv', LimitInv, NEW h \in Handlers, NEW m \in Methods, StartCounts(h, m)
  PROVE  LimitInv'
<1>1. UNCHANGED <<attempts, hourAgo, starters>> /\ Len(attempts) - hourAgo < AttemptLimit
  BY DEF StartCounts
<1>2. Len(attempts) \in Nat /\ hourAgo \in Nat
  BY DEF EntityInv, EntityTypes, LimitInv
<1>3. Issued' = Issued
  BY <1>1 DEF Issued, InHour
<1>4. /\ Cardinality(Issued) \in Nat /\ Cardinality(Issued) <= Len(attempts) - hourAgo
  BY LimitCounts DEF LimitInv
<1>5. hourAgo' \in 0 .. Len(attempts') /\ starters' \subseteq 1 .. Len(attempts')
  BY <1>1 DEF LimitInv
<1>6. Cleared' \subseteq Handlers
  BY DEF Cleared
<1>7. /\ Cardinality(Cleared') <= Cardinality(Handlers)
      /\ Cardinality(Cleared') \in Nat /\ Cardinality(Handlers) \in Nat
  BY <1>6, EntityConstants, FS_Subset, FS_CardinalityType
<1> QED BY <1>1, <1>2, <1>3, <1>4, <1>5, <1>7, EntityConstants DEF LimitInv

\* An insertion turns one that may issue into one that has been issued.
LEMMA LimitOfMint ==
  ASSUME EntityInv, EntityInv', LimitInv, NEW h \in Handlers, Mint(h)
  PROVE  LimitInv'
<1>1. Len(attempts) \in Nat /\ hourAgo \in Nat /\ attempts \in Seq(AttemptRows)
  BY DEF EntityInv, EntityTypes, LimitInv
<1>2. /\ hourAgo' = hourAgo
      /\ \A g \in Handlers \ {h} : handler'[g] = handler[g]
      /\ ~handler'[h].limited
  BY DEF Mint, Respond, AtRest, EntityInv, EntityTypes
<1>3. CASE starters' = starters
  <2>1. Len(attempts) <= Len(attempts')
    BY <1>1 DEF Mint
  <2> QED BY <1>2, <1>3, <2>1, LimitRests
<1>4. CASE starters' # starters
  <2>1. /\ handler[h].limited /\ starters' = starters \cup {Len(attempts) + 1}
        /\ Len(attempts') = Len(attempts) + 1
    BY <1>1, <1>4 DEF Mint
  <2>2. hourAgo' \in 0 .. Len(attempts') /\ starters' \subseteq 1 .. Len(attempts')
    <3>1. hourAgo \in 0 .. Len(attempts) /\ starters \subseteq 1 .. Len(attempts)
      BY DEF LimitInv
    <3>2. \A t \in 1 .. Len(attempts) : t \in 1 .. Len(attempts')
      BY <1>1, <2>1
    <3>3. Len(attempts) + 1 \in 1 .. Len(attempts') /\ hourAgo' \in 0 .. Len(attempts')
      BY <1>1, <1>2, <2>1, <3>1
    <3> QED BY <2>1, <3>1, <3>2, <3>3
  <2>3. Issued' = Issued \cup {Len(attempts) + 1}
    <3>1. Len(attempts) + 1 > hourAgo
      BY <1>1 DEF LimitInv
    <3> QED BY <1>2, <2>1, <3>1 DEF Issued, InHour
  <2>4. Len(attempts) + 1 \notin Issued
    BY <1>1 DEF Issued, LimitInv
  <2>5. Cleared' = Cleared \ {h} /\ h \in Cleared
    BY <1>2, <2>1 DEF Cleared
  <2>6. IsFiniteSet(Issued) /\ IsFiniteSet(Cleared)
    BY LimitCounts DEF LimitInv
  <2>7. Cardinality(Issued') = Cardinality(Issued) + 1
    BY <2>3, <2>4, <2>6, FS_AddElement
  <2>8. Cardinality(Cleared') = Cardinality(Cleared) - 1
    BY <2>5, <2>6, FS_RemoveElement
  <2>9. /\ Cardinality(Issued) \in Nat /\ Cardinality(Cleared) \in Nat
        /\ Cardinality(Handlers) \in Nat
    BY LimitCounts DEF LimitInv
  <2> QED BY <2>2, <2>7, <2>8, <2>9, EntityConstants DEF LimitInv
<1> QED BY <1>3, <1>4

\* An hour passes, or everything is erased: nothing has been issued within the hour.
LEMMA LimitOfHour ==
  ASSUME EntityInv, EntityInv', LimitInv, hourAgo' = Len(attempts'),
         starters' = starters, Len(attempts') = Len(attempts)
  PROVE  LimitInv'
<1>1. Len(attempts) \in Nat
  BY DEF EntityInv, EntityTypes
<1>2. Issued' = {}
  <2>1. \A t \in starters' : t \in 1 .. Len(attempts) /\ ~ (t > hourAgo')
    BY <1>1 DEF LimitInv
  <2> QED BY <2>1 DEF Issued, InHour
<1>3. Cardinality(Issued') = 0
  BY <1>2, FS_EmptySet
<1>4. hourAgo' \in 0 .. Len(attempts') /\ starters' \subseteq 1 .. Len(attempts')
  BY <1>1 DEF LimitInv
<1>5. Cleared' \subseteq Handlers
  BY DEF Cleared
<1>6. /\ Cardinality(Cleared') <= Cardinality(Handlers)
      /\ Cardinality(Cleared') \in Nat /\ Cardinality(Handlers) \in Nat
  BY <1>5, EntityConstants, FS_Subset, FS_CardinalityType
<1> QED BY <1>3, <1>4, <1>6, EntityConstants DEF LimitInv

\* Steps of a handler that neither count nor insert.
LEMMA LimitOfHandlers ==
  ASSUME EntityInv, EntityInv', LimitInv, NEW h \in Handlers,
         \/ StartEnsures(h) \/ StartSetsPending(h) \/ ExpireLive(h) \/ Retrigger(h)
         \/ CheckResolves(h) \/ OpenLink(h) \/ FindToken(h) \/ Consume(h) \/ Flip(h) \/ FlipFails(h)
         \/ SweepLists(h) \/ SweepLooksUp(h) \/ OperatorRevokes(h) \/ SetGrace(h) \/ RecordRevocation(h)
  PROVE  LimitInv'
<1>1. /\ attempts \in Seq(AttemptRows) /\ Len(attempts) \in Nat
      /\ DOMAIN attempts = 1 .. Len(attempts)
      /\ handler \in [Handlers -> HandlerRows]
  BY DEF EntityInv, EntityTypes
<1>2. UNCHANGED <<hourAgo, starters>>
  BY DEF StartEnsures, StartSetsPending, ExpireLive, Retrigger, CheckResolves, OpenLink, FindToken,
     Consume, Flip, FlipFails, SweepLists, SweepLooksUp, OperatorRevokes, SetGrace, RecordRevocation
<1>3. Len(attempts) <= Len(attempts')
  <2>1. CASE ExpireLive(h)
    <3>1. DOMAIN attempts' = DOMAIN attempts
      BY <2>1 DEF ExpireLive
    <3>2. attempts' \in Seq(AttemptRows)
      BY DEF EntityInv, EntityTypes
    <3> QED BY <1>1, <3>1, <3>2
  <2>2. CASE Consume(h)
    <3>1. attempts' = attempts \/ \E t : attempts' = [attempts EXCEPT ![t].state = "verified"]
      BY <2>2 DEF Consume
    <3>2. DOMAIN attempts' = DOMAIN attempts
      BY <3>1
    <3>3. attempts' \in Seq(AttemptRows)
      BY DEF EntityInv, EntityTypes
    <3> QED BY <1>1, <3>2, <3>3
  <2>3. CASE RecordRevocation(h)
    BY <1>1, <2>3 DEF RecordRevocation
  <2>4. CASE UNCHANGED attempts
    BY <1>1, <2>4
  <2> QED BY <2>1, <2>2, <2>3, <2>4 DEF StartEnsures, StartSetsPending, Retrigger, CheckResolves,
      OpenLink, FindToken, Flip, FlipFails, SweepLists, SweepLooksUp, OperatorRevokes, SetGrace
<1>4. \A g \in Handlers : handler'[g].limited => handler[g].limited
  <2>1. CASE \E s : Tell(h, s)
    BY <1>1, <2>1 DEF Tell, HandlerRows
  <2>2. CASE Respond(h)
    BY <1>1, <2>2 DEF Respond, AtRest
  <2>3. CASE Retrigger(h) \/ CheckResolves(h) \/ OpenLink(h) \/ SweepLists(h) \/ OperatorRevokes(h)
    BY <1>1, <2>3 DEF Retrigger, CheckResolves, OpenLink, SweepLists, OperatorRevokes, Take, AtRest
  <2>4. CASE FindToken(h)
    <3>1. CASE handler[h].values = {}
      BY <2>2, <2>4, <3>1 DEF FindToken
    <3>2. CASE handler[h].values # {}
      <4>1. PICK t \in handler[h].values, s \in {"consume", "find"} :
              handler' = [handler EXCEPT ![h] =
                [handler[h] EXCEPT !.values = handler[h].values \ {t}, !.token = t, !.step = s]]
        BY <1>1, <2>4, <3>2 DEF FindToken
      <4>2. handler[h] \in HandlerRows
        BY <1>1
      <4>3. handler'[h].limited = handler[h].limited
        BY <1>1, <4>1, <4>2 DEF HandlerRows
      <4> QED BY <1>1, <4>1, <4>3
    <3> QED BY <3>1, <3>2
  <2> QED BY <2>1, <2>2, <2>3, <2>4 DEF StartEnsures, StartSetsPending, ExpireLive, Consume, Flip,
      FlipFails, SweepLooksUp, SetGrace, RecordRevocation
<1> QED BY <1>2, <1>3, <1>4, LimitRests

\* Every step keeps the count.
LEMMA LimitNext ==
  ASSUME EntityInv, EntityInv', LimitInv, [EntityNext]_entityVars
  PROVE  LimitInv'
<1>1. /\ attempts \in Seq(AttemptRows) /\ Len(attempts) \in Nat
      /\ DOMAIN attempts = 1 .. Len(attempts)
      /\ attempts' \in Seq(AttemptRows)
  BY DEF EntityInv, EntityTypes
<1>2. ASSUME UNCHANGED <<attempts, hourAgo, starters, handler>> PROVE LimitInv'
  BY <1>1, <1>2, LimitRests
<1>3. CASE UNCHANGED entityVars \/ OverrideVerify \/ AdjudicateConflict \/ TransferControl
           \/ Publish \/ Unpublish
  BY <1>2, <1>3 DEF entityVars, OverrideVerify, AdjudicateConflict, TransferControl, Overrule,
     Publish, Unpublish
<1>4. CASE Lapse
  <2>1. DOMAIN attempts' = DOMAIN attempts
    BY <1>4 DEF Lapse
  <2>2. Len(attempts') = Len(attempts)
    BY <1>1, <2>1
  <2> QED BY <1>1, <1>4, <2>2, LimitRests DEF Lapse
<1>5. CASE EraseEntity
  <2>1. DOMAIN attempts' = DOMAIN attempts
    BY <1>5 DEF EraseEntity
  <2>2. Len(attempts') = Len(attempts)
    BY <1>1, <2>1
  <2> QED BY <1>5, <2>2, LimitOfHour DEF EraseEntity
<1>6. CASE HourPasses
  BY <1>6, LimitOfHour DEF HourPasses
<1> QED BY <1>3, <1>4, <1>5, <1>6, LimitOfCounting, LimitOfMint, LimitOfHandlers DEF EntityNext

\* start_verification issues at most its limit within an hour, and one more for each other
\* handler that counted before the insertions it should have seen; however many handlers
\* and whatever the limit.
THEOREM HourlyLimitHoldsAlways == EntitySpec => []HourlyLimitHolds
<1>1. EntityInit => LimitInv
  <2> SUFFICES ASSUME EntityInit PROVE LimitInv
    OBVIOUS
  <2>1. Len(attempts) = 0 /\ hourAgo = 0 /\ starters = {}
    BY DEF EntityInit
  <2>2. Issued = {} /\ Cleared = {}
    BY <2>1 DEF EntityInit, Issued, Cleared, AtRest
  <2>3. Cardinality(Issued) = 0 /\ Cardinality(Cleared) = 0 /\ Cardinality(Handlers) \in Nat
    BY <2>2, FS_EmptySet, FS_CardinalityType, EntityConstants
  <2> QED BY <2>1, <2>3, EntityConstants DEF LimitInv
<1>2. EntityInv /\ LimitInv => HourlyLimitHolds
  <2> SUFFICES ASSUME EntityInv, LimitInv PROVE HourlyLimitHolds
    OBVIOUS
  <2>1. /\ Cardinality(Issued) \in Nat /\ Cardinality(Cleared) \in Nat
        /\ Cardinality(Handlers) \in Nat
    BY LimitCounts DEF LimitInv
  <2>2. Cardinality(Issued) <= AttemptLimit + Cardinality(Handlers) - 1
    BY <2>1, EntityConstants DEF LimitInv
  <2> QED BY <2>2 DEF HourlyLimitHolds, Issued
<1> QED BY <1>1, <1>2, LimitNext, EntityInvariant, PTL DEF EntitySpec
================================================================================
