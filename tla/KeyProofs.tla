------------------------------- MODULE KeyProofs -------------------------------
(***************************************************************************)
(* Proofs about the keys of a project: the chain that stores them          *)
(* (SecretChain), for a chain of any legs and any number of processes and  *)
(* calls; and the consent that decides what is sealed under them           *)
(* (BenchmarkConsent), for any number of commands and requests.            *)
(***************************************************************************)
EXTENDS SecretChain, BenchmarkConsent, TLAPS

-----------------------------------------------------------------------------
(* The chain.  As long as no process has written over what another one     *)
(* wrote, what a process believes of a file is true while the file keeps   *)
(* its time.  A key that is being stored for the first time is known to    *)
(* its maker alone; so nothing brings back a key that a destroy has taken  *)
(* out of a leg, and only a destroy takes one out.                         *)

Secrets == [SecretNames -> Nat]
ProcRecords ==
  [call : Calls, step : {"idle", "get", "keyed", "set", "remove", "write", "stat"}, at : Nat \ {0}, key : Nat,
   buffer : Secrets, readAt : Nat, aim : SUBSET Nat]

\* The steps of a process belong to its call, and only a destroy is after keys.
StepOfCall(q) ==
  /\ q.call # "destroy" => q.aim = {}
  /\ q.step \in {"get", "keyed"} => q.call \in {"create", "load"}
  /\ q.step = "set" => q.call \in {"create", "login"}
  /\ q.step = "remove" => q.call \in {"destroy", "revoke"}
  /\ q.step \in {"write", "stat"} => /\ q.call \in {"create", "login", "destroy", "revoke"}
                                    /\ q.at <= Len(Legs) /\ Legs[q.at] \in FileLegs

SecretTypes ==
  /\ leg \in [LegNames -> Secrets] /\ mtime \in [LegNames -> Nat]
  /\ cache \in [Clients -> [FileLegs -> [time : Nat, map : Secrets]]]
  /\ proc \in [Clients -> ProcRecords]
  /\ minted \in Nat /\ sealedBy \subseteq Nat /\ destroyed \subseteq Nat /\ shredded \subseteq Nat
  /\ \A c \in Clients : StepOfCall(proc[c])

\* What a process is about to write to the file it has read, for the key's entry.
BufferRight(q, stored) ==
  /\ q.call = "create" => q.buffer["kek"] = q.key
  /\ q.call = "destroy" => q.buffer["kek"] = 0
  /\ q.call \in {"login", "revoke"} => q.buffer["kek"] \in {0, stored}
  /\ q.call \in {"login", "revoke"} /\ "blind" \notin causes => q.buffer["kek"] = stored

FileKnown(q) ==
  /\ q.step \in {"write", "stat"} => q.readAt <= mtime[Legs[q.at]]
  /\ q.step = "write" /\ q.readAt = mtime[Legs[q.at]] => BufferRight(q, leg[Legs[q.at]]["kek"])
  /\ q.step = "stat" /\ q.readAt = mtime[Legs[q.at]] => q.buffer = leg[Legs[q.at]]

FilesKnown ==
  /\ \A c \in Clients, l \in FileLegs :
       /\ cache[c][l].time <= mtime[l]
       /\ cache[c][l].time = mtime[l] => cache[c][l].map = leg[l]
  /\ \A c \in Clients : FileKnown(proc[c])

\* A key is being stored for the first time: no leg, no destroy and no other maker knows it.
Storing(q) == q.call = "create" /\ q.step \in {"set", "write"}
KeysAreNew ==
  /\ Stored \cup shredded \subseteq 1 .. minted
  /\ \A c \in Clients : proc[c].aim \subseteq 1 .. minted
  /\ \A c \in Clients : Storing(proc[c]) =>
       /\ proc[c].key \in 1 .. minted
       /\ proc[c].key \notin Stored \cup shredded
       /\ \A d \in Clients : /\ proc[c].key \notin proc[d].aim
                             /\ d # c /\ Storing(proc[d]) => proc[d].key # proc[c].key

\* The legs a destroy has come past do not hold the keys it is after.
Past(q, i) == i < q.at \/ (i = q.at /\ q.step = "stat")
LegsCleared ==
  \A c \in Clients : \A i \in 1 .. Len(Legs) :
    proc[c].call = "destroy" /\ Past(proc[c], i) => leg[Legs[i]]["kek"] \notin proc[c].aim
NoKeyReturns == "legFailed" \notin causes => LegsCleared /\ shredded \cap Stored = {}

\* Whoever holds a key that is stored can seal with it.
Holding(q) == q.step = "keyed" \/ (q.call = "create" /\ q.step = "stat")
NoKeyIsLost ==
  causes \cap {"twoKeys", "blind", "torn"} = {} =>
    /\ sealedBy \subseteq Stored \cup destroyed
    /\ \A c \in Clients : Holding(proc[c]) => proc[c].key \in Stored \cup destroyed

SecretInv ==
  /\ SecretTypes
  /\ "overlap" \notin causes => FilesKnown /\ KeysAreNew /\ NoKeyReturns /\ NoKeyIsLost

-----------------------------------------------------------------------------
\* The steps of one process.
ClientSteps(c) ==
  \/ \E what \in Calls : BeginCall(c, what)
  \/ GetHit(c) \/ GetMiss(c) \/ NotFound(c) \/ Seal(c)
  \/ SetKeyring(c) \/ SetReadsFile(c) \/ SetFails(c) \/ SetEnds(c)
  \/ RemoveKeyring(c) \/ RemoveReadsFile(c) \/ RemoveFails(c) \/ RemoveEnds(c)
  \/ WriteFile(c) \/ TearFile(c) \/ WriteFails(c) \/ NoteTime(c)

\* The legs of the chain are places of the model.
LEMMA LegFacts ==
  /\ Len(Legs) \in Nat /\ FileLegs \subseteq LegNames
  /\ \A i \in 1 .. Len(Legs) : Legs[i] \in LegNames
BY SecretConstants DEF LegNames

\* The leg, the entry, the value and the view of a process are what they should be.
LEMMA ProcFacts ==
  ASSUME SecretTypes, NEW c \in Clients
  PROVE  /\ proc[c] \in ProcRecords /\ StepOfCall(proc[c])
         /\ OnLeg(c) => proc[c].at \in 1 .. Len(Legs) /\ Leg(c) \in LegNames
         /\ EntryOf(c) \in SecretNames /\ ValueOf(c) \in Nat
         /\ \A l \in LegNames : View(c, l) \in Secrets
         /\ NoEntries \in Secrets
<1>1. proc[c] \in ProcRecords /\ StepOfCall(proc[c]) BY DEF SecretTypes
<1>2. OnLeg(c) => proc[c].at \in 1 .. Len(Legs) /\ Leg(c) \in LegNames
  BY <1>1, LegFacts DEF OnLeg, Leg, ProcRecords
<1>3. EntryOf(c) \in SecretNames /\ ValueOf(c) \in Nat
  BY <1>1 DEF EntryOf, ValueOf, SecretNames, ProcRecords
<1>4. \A l \in LegNames : View(c, l) \in Secrets
  BY DEF View, SecretTypes
<1>5. NoEntries \in Secrets BY DEF NoEntries, Secrets
<1> QED BY <1>1, <1>2, <1>3, <1>4, <1>5

\* The first step of a call.
LEMMA FirstSteps ==
  ASSUME NEW what \in Calls
  PROVE  FirstStep[what] = IF what \in {"create", "load"} THEN "get" ELSE IF what = "login" THEN "set" ELSE "remove"
BY DEF Calls, FirstStep

\* A process does something to its own record.
LEMMA ProcTypes ==
  ASSUME SecretTypes, NEW c \in Clients, NEW q \in ProcRecords, StepOfCall(q), proc' = [proc EXCEPT ![c] = q]
  PROVE  proc' \in [Clients -> ProcRecords] /\ \A d \in Clients : StepOfCall(proc'[d])
BY DEF SecretTypes

\* ... seen from its record after the step.
LEMMA ProcOnly ==
  ASSUME SecretTypes, NEW c \in Clients, proc' \in [Clients -> ProcRecords], StepOfCall(proc'[c]),
         \A d \in Clients \ {c} : proc'[d] = proc[d]
  PROVE  proc' \in [Clients -> ProcRecords] /\ \A d \in Clients : StepOfCall(proc'[d])
BY DEF SecretTypes

\* Every step keeps the types.
LEMMA SecretTypesStep == SecretTypes /\ [SecretNext]_secretVars => SecretTypes'
<1> SUFFICES ASSUME SecretTypes, [SecretNext]_secretVars PROVE SecretTypes'
  OBVIOUS
<1>1. CASE UNCHANGED secretVars BY <1>1 DEF SecretTypes, secretVars
<1>2. ASSUME NEW c \in Clients, ClientSteps(c)
      PROVE  SecretTypes'
  <2> DEFINE ProcOk == proc' \in [Clients -> ProcRecords] /\ \A d \in Clients : StepOfCall(proc'[d])
  <2>1. /\ proc[c] \in ProcRecords /\ StepOfCall(proc[c]) /\ proc \in [Clients -> ProcRecords]
        /\ \A d \in Clients : StepOfCall(proc[d])
        /\ Resting \in ProcRecords /\ StepOfCall(Resting)
        /\ EntryOf(c) \in SecretNames /\ ValueOf(c) \in Nat
        /\ \A l \in LegNames : View(c, l) \in Secrets
        /\ NoEntries \in Secrets
    BY ProcFacts DEF SecretTypes, Resting, ProcRecords, StepOfCall, Calls
  <2>2. Return(c) => ProcOk BY <2>1 DEF Return
  <2>3. NextLeg(c) /\ proc[c].step \notin {"write", "stat"} => ProcOk 
    <3> SUFFICES ASSUME NextLeg(c), proc[c].step \notin {"write", "stat"} PROVE ProcOk
      OBVIOUS
    <3> DEFINE q == [proc[c] EXCEPT !.at = @ + 1]
    <3>1. q \in ProcRecords BY <2>1 DEF ProcRecords
    <3>2. StepOfCall(q) BY <2>1 DEF ProcRecords, StepOfCall
    <3>3. proc' = [proc EXCEPT ![c] = q] BY <2>1 DEF NextLeg
    <3> QED BY <2>1, <3>1, <3>2, <3>3
  <2>4. Stored \subseteq Nat BY DEF Stored, SecretTypes, Secrets, SecretNames
  <2>5. CASE \E what \in Calls : BeginCall(c, what)
    <3>1. PICK what \in Calls : BeginCall(c, what) BY <2>5
    <3> DEFINE aim == IF what = "destroy" THEN Stored ELSE {}
    <3>2. aim \subseteq Nat BY <2>4
    <3>3. proc' = [proc EXCEPT ![c] = [Resting EXCEPT !.call = what, !.step = FirstStep[what], !.aim = aim]]
      BY <3>1 DEF BeginCall
    <3> HIDE DEF aim
    <3>4. FirstStep[what] = IF what \in {"create", "load"} THEN "get" ELSE IF what = "login" THEN "set" ELSE "remove"
      BY FirstSteps
    <3>5. what # "destroy" => aim = {} BY DEF aim
    <3>6. /\ proc' \in [Clients -> ProcRecords] /\ proc'[c].call = what /\ proc'[c].step = FirstStep[what]
          /\ proc'[c].aim = aim /\ \A d \in Clients \ {c} : proc'[d] = proc[d]
      BY <2>1, <3>2, <3>3, <3>4 DEF ProcRecords
    <3>7. StepOfCall(proc'[c]) BY <3>4, <3>5, <3>6 DEF StepOfCall, Calls
    <3>8. ProcOk BY <3>6, <3>7, ProcOnly
    <3> QED BY <3>1, <3>8 DEF BeginCall, SecretTypes
  <2>6. CASE GetHit(c)
    <3>1. View(c, Leg(c))["kek"] \in Nat BY <2>1, <2>6, ProcFacts DEF GetHit, Secrets, SecretNames
    <3>2. ProcOk BY <2>1, <2>6, <3>1 DEF GetHit, At, ProcRecords, StepOfCall
    <3> QED BY <2>6, <3>2 DEF GetHit, SecretTypes
  <2>7. CASE GetMiss(c) BY <2>3, <2>7 DEF GetMiss, At, SecretTypes
  <2>8. CASE NotFound(c)
    <3>1. minted' \in Nat BY <2>8 DEF NotFound, SecretTypes
    <3>2. ProcOk
      <4>1. CASE Return(c) BY <2>2, <4>1
      <4>2. CASE /\ proc[c].call = "create" /\ minted + 1 \in Nat
                 /\ proc' = [proc EXCEPT ![c].key = minted + 1, ![c].step = "set", ![c].at = 1]
        <5> DEFINE key == minted + 1
                   one == 1
        <5>1. /\ proc' = [proc EXCEPT ![c].key = key, ![c].step = "set", ![c].at = one]
              /\ key \in Nat /\ one \in Nat \ {0}
          BY <4>2
        <5> HIDE DEF key, one
        <5> DEFINE q == [proc[c] EXCEPT !.key = key, !.step = "set", !.at = one]
        <5>2. q \in ProcRecords /\ q.step = "set" /\ q.call = "create" /\ q.aim = proc[c].aim
          BY <2>1, <4>2, <5>1 DEF ProcRecords
        <5>3. proc' = [proc EXCEPT ![c] = q] BY <2>1, <5>1
        <5> HIDE DEF q
        <5>4. StepOfCall(q) BY <2>1, <4>2, <5>2 DEF StepOfCall
        <5> QED BY <5>2, <5>3, <5>4, ProcTypes
      <4> QED BY <2>8, <4>1, <4>2 DEF NotFound, SecretTypes
    <3> QED BY <2>8, <3>1, <3>2 DEF NotFound, SecretTypes
  <2>9. CASE Seal(c)
    <3>1. proc[c].key \in Nat BY <2>1 DEF ProcRecords
    <3> QED BY <2>2, <2>9, <3>1 DEF Seal, SecretTypes
  <2>10. Accepted(c) /\ proc[c].call \in {"create", "login"} => ProcOk
    <3> SUFFICES ASSUME Accepted(c), proc[c].call \in {"create", "login"} PROVE ProcOk
      OBVIOUS
    <3>1. CASE proc[c].call = "create"
      <4>1. proc' = [proc EXCEPT ![c].step = "keyed"] BY <3>1 DEF Accepted, Go
      <4>2. /\ proc' \in [Clients -> ProcRecords] /\ proc'[c].call = "create" /\ proc'[c].step = "keyed"
            /\ proc'[c].aim = proc[c].aim /\ \A d \in Clients \ {c} : proc'[d] = proc[d]
        BY <2>1, <3>1, <4>1 DEF ProcRecords
      <4>3. StepOfCall(proc'[c]) BY <2>1, <3>1, <4>2 DEF StepOfCall
      <4> QED BY <4>2, <4>3, ProcOnly
    <3> QED BY <2>2, <3>1 DEF Accepted
  <2>11. CASE SetKeyring(c)
    <3>1. ProcOk BY <2>1, <2>10, <2>11 DEF SetKeyring, At, StepOfCall
    <3>2. leg' \in [LegNames -> Secrets] BY <2>1, <2>11 DEF SetKeyring, SecretTypes, Secrets
    <3> QED BY <2>11, <3>1, <3>2 DEF SetKeyring, SecretTypes
  <2>12. CASE SetReadsFile(c)
    <3>1. PICK base \in {View(c, Leg(c)), NoEntries} :
            proc' = [proc EXCEPT ![c].buffer = [base EXCEPT ![EntryOf(c)] = ValueOf(c)],
                                 ![c].readAt = mtime[Leg(c)], ![c].step = "write"]
      BY <2>12 DEF SetReadsFile
    <3> DEFINE map == [base EXCEPT ![EntryOf(c)] = ValueOf(c)]
    <3>2. Leg(c) \in LegNames /\ Leg(c) \in FileLegs /\ OnLeg(c)
      BY <2>12, ProcFacts DEF SetReadsFile, OnFile
    <3>3. map \in Secrets /\ mtime[Leg(c)] \in Nat BY <2>1, <3>2 DEF Secrets, SecretTypes
    <3> HIDE DEF map
    <3>4. proc' = [proc EXCEPT ![c].buffer = map, ![c].readAt = mtime[Leg(c)], ![c].step = "write"]
      BY <3>1 DEF map
    <3>5. ProcOk BY <2>1, <2>12, <3>2, <3>3, <3>4 DEF SetReadsFile, At, ProcRecords, StepOfCall, OnLeg, Leg
    <3> QED BY <2>12, <3>5 DEF SetReadsFile, SecretTypes
  <2>13. CASE SetFails(c) BY <2>3, <2>13 DEF SetFails, At, SecretTypes
  <2>14. CASE SetEnds(c) BY <2>2, <2>14 DEF SetEnds, SecretTypes
  <2>15. Removed(c) \subseteq Nat \/ ~OnLeg(c)
    BY ProcFacts DEF Removed, SecretTypes, Secrets, SecretNames
  <2>16. CASE RemoveKeyring(c)
    <3>1. leg' \in [LegNames -> Secrets] BY <2>1, <2>16 DEF RemoveKeyring, SecretTypes, Secrets
    <3> QED BY <2>3, <2>15, <2>16, <3>1 DEF RemoveKeyring, At, SecretTypes
  <2>17. CASE RemoveReadsFile(c)
    <3>1. CASE View(c, Leg(c))[EntryOf(c)] = 0
      BY <2>3, <2>17, <3>1 DEF RemoveReadsFile, At, SecretTypes
    <3>2. CASE View(c, Leg(c))[EntryOf(c)] # 0
      <4> DEFINE map == [View(c, Leg(c)) EXCEPT ![EntryOf(c)] = 0]
      <4>1. Leg(c) \in LegNames /\ Leg(c) \in FileLegs /\ OnLeg(c)
        BY <2>17, ProcFacts DEF RemoveReadsFile, OnFile
      <4>2. map \in Secrets /\ mtime[Leg(c)] \in Nat BY <2>1, <4>1 DEF Secrets, SecretTypes
      <4> HIDE DEF map
      <4>3. proc' = [proc EXCEPT ![c].buffer = map, ![c].readAt = mtime[Leg(c)], ![c].step = "write"]
        BY <2>17, <3>2 DEF RemoveReadsFile, map
      <4>4. ProcOk BY <2>1, <2>17, <4>1, <4>2, <4>3 DEF RemoveReadsFile, At, ProcRecords, StepOfCall, OnLeg, Leg
      <4> QED BY <2>17, <4>4 DEF RemoveReadsFile, SecretTypes
    <3> QED BY <3>1, <3>2
  <2>18. CASE RemoveFails(c) BY <2>3, <2>18 DEF RemoveFails, At, SecretTypes
  <2>19. CASE RemoveEnds(c)
    <3>1. proc[c].aim \subseteq Nat BY <2>1 DEF ProcRecords
    <3> QED BY <2>2, <2>19, <3>1 DEF RemoveEnds, SecretTypes
  <2>20. At(c, "write") \/ At(c, "stat") => /\ OnLeg(c) /\ Leg(c) \in LegNames /\ Leg(c) \in FileLegs
                                             /\ proc[c].call \in {"create", "login", "destroy", "revoke"}
    BY <2>1, ProcFacts DEF At, StepOfCall, OnLeg, Leg
  <2>21. CASE WriteFile(c)
    <3>1. proc[c].buffer \in Secrets /\ mtime[Leg(c)] + 1 \in Nat
      BY <2>1, <2>20, <2>21 DEF WriteFile, SecretTypes, ProcRecords
    <3>2. proc' = [proc EXCEPT ![c].readAt = mtime[Leg(c)] + 1, ![c].step = "stat"] BY <2>21 DEF WriteFile
    <3>3. ProcOk
      <4>1. /\ proc' \in [Clients -> ProcRecords] /\ proc'[c].call = proc[c].call /\ proc'[c].at = proc[c].at
            /\ proc'[c].step = "stat" /\ \A d \in Clients \ {c} : proc'[d] = proc[d]
        BY <2>1, <3>1, <3>2 DEF ProcRecords
      <4>2. StepOfCall(proc'[c]) BY <2>1, <2>21, <4>1 DEF WriteFile, At, StepOfCall
      <4> QED BY <4>1, <4>2, ProcOnly
    <3>4. leg' \in [LegNames -> Secrets] /\ mtime' \in [LegNames -> Nat]
      BY <2>21, <3>1 DEF WriteFile, SecretTypes
    <3> QED BY <2>15, <2>20, <2>21, <3>3, <3>4 DEF WriteFile, SecretTypes
  <2>22. CASE TearFile(c)
    <3>1. leg' \in [LegNames -> Secrets] /\ mtime' \in [LegNames -> Nat]
      BY <2>1, <2>20, <2>22 DEF TearFile, SecretTypes
    <3> QED BY <2>2, <2>22, <3>1 DEF TearFile, SecretTypes
  <2>23. CASE WriteFails(c)
    <3> DEFINE step == FirstStep[IF proc[c].call = "create" THEN "login" ELSE proc[c].call]
    <3>1. /\ step = IF proc[c].call \in {"create", "login"} THEN "set" ELSE "remove"
          /\ proc[c].call \in {"create", "login", "destroy", "revoke"}
      BY <2>20, <2>23 DEF WriteFails, FirstStep
    <3>2. proc' = [proc EXCEPT ![c].step = step, ![c].at = @ + 1] BY <2>23 DEF WriteFails
    <3> HIDE DEF step
    <3>3. ProcOk
      <4>1. /\ proc' \in [Clients -> ProcRecords] /\ proc'[c].call = proc[c].call
            /\ proc'[c].step = step /\ proc'[c].aim = proc[c].aim /\ \A d \in Clients \ {c} : proc'[d] = proc[d]
        BY <2>1, <3>1, <3>2 DEF ProcRecords
      <4>2. StepOfCall(proc'[c]) BY <2>1, <3>1, <4>1 DEF StepOfCall
      <4> QED BY <4>1, <4>2, ProcOnly
    <3> QED BY <2>23, <3>3 DEF WriteFails, SecretTypes
  <2>24. CASE NoteTime(c)
    <3>1. /\ proc[c].call \in {"create", "login", "destroy", "revoke"}
          /\ proc[c].call \notin {"create", "login"} =>
               proc' = [proc EXCEPT ![c].step = "remove", ![c].at = @ + 1]
      BY <2>20, <2>24 DEF NoteTime
    <3>2. ProcOk
      <4>1. CASE proc[c].call \in {"create", "login"} BY <2>10, <2>24, <4>1 DEF NoteTime
      <4>2. CASE proc[c].call \notin {"create", "login"} BY <2>1, <3>1, <4>2 DEF ProcRecords, StepOfCall
      <4> QED BY <4>1, <4>2
    <3> DEFINE note == [time |-> mtime[Leg(c)], map |-> proc[c].buffer]
    <3>3. note \in [time : Nat, map : Secrets]
      BY <2>1, <2>20, <2>24 DEF NoteTime, SecretTypes, ProcRecords
    <3>4. cache' = [cache EXCEPT ![c][Leg(c)] = note] BY <2>24 DEF NoteTime
    <3> HIDE DEF note
    <3>5. cache' \in [Clients -> [FileLegs -> [time : Nat, map : Secrets]]]
      BY <3>3, <3>4 DEF SecretTypes
    <3> QED BY <2>24, <3>2, <3>5 DEF NoteTime, SecretTypes
  <2> QED BY <1>2, <2>5, <2>6, <2>7, <2>8, <2>9, <2>11, <2>12, <2>13, <2>14, <2>16, <2>17, <2>18, <2>19,
             <2>21, <2>22, <2>23, <2>24 DEF ClientSteps
<1> QED BY <1>1, <1>2 DEF SecretNext, ClientSteps

\* What a process sees of a leg is what is there, unless files have been overwritten.
LEMMA ViewIsTrue ==
  ASSUME FilesKnown, NEW c \in Clients, NEW l \in LegNames
  PROVE  View(c, l) = leg[l]
BY DEF FilesKnown, View

\* No step but that of WriteFile and of NoteTime, which compare the times, may overwrite.
LEMMA FilesKnownStep ==
  ASSUME SecretTypes, SecretTypes', FilesKnown, NEW c \in Clients, ClientSteps(c), "overlap" \notin causes'
  PROVE  FilesKnown'
<1>1. /\ proc[c] \in ProcRecords /\ StepOfCall(proc[c]) /\ proc \in [Clients -> ProcRecords]
      /\ leg \in [LegNames -> Secrets] /\ mtime \in [LegNames -> Nat] /\ FileLegs \subseteq LegNames
      /\ cache \in [Clients -> [FileLegs -> [time : Nat, map : Secrets]]]
      /\ \A d \in Clients : FileKnown(proc[d])
      /\ \A d \in Clients : proc[d].step \in {"write", "stat"} => Legs[proc[d].at] \in FileLegs
  BY LegFacts DEF SecretTypes, FilesKnown, StepOfCall
<1>2. At(c, "write") \/ At(c, "stat") => Leg(c) \in FileLegs /\ Leg(c) \in LegNames /\ Leg(c) = Legs[proc[c].at]
  BY <1>1 DEF At, Leg
\* A step that touches no file keeps what the others know.
<1>3. ASSUME UNCHANGED <<mtime, cache>>, \A l \in FileLegs : leg'[l] = leg[l],
             \A d \in Clients \ {c} : proc'[d] = proc[d], FileKnown(proc[c])', causes \subseteq causes'
      PROVE  FilesKnown'
  <2>1. ASSUME NEW d \in Clients \ {c} PROVE FileKnown(proc[d])'
    BY <1>1, <1>3, <2>1 DEF FileKnown, BufferRight
  <2> QED BY <1>3, <2>1 DEF FilesKnown
<1>4. ASSUME UNCHANGED <<leg, mtime, cache>>, \A d \in Clients \ {c} : proc'[d] = proc[d],
             proc'[c].step \notin {"write", "stat"}, causes \subseteq causes'
      PROVE  FilesKnown'
  BY <1>3, <1>4 DEF FileKnown
\* A file that is written has a new time, which nobody has seen.
<1>5. ASSUME NEW l \in FileLegs, NEW map \in Secrets, leg' = [leg EXCEPT ![l] = map],
             mtime' = [mtime EXCEPT ![l] = @ + 1], cache' = cache, causes \subseteq causes',
             \A d \in Clients \ {c} : proc'[d] = proc[d], FileKnown(proc[c])'
      PROVE  FilesKnown'
  <2>1. mtime'[l] = mtime[l] + 1 /\ mtime[l] \in Nat BY <1>1, <1>5
  <2>2. ASSUME NEW d \in Clients \ {c} PROVE FileKnown(proc[d])'
    <3>1. proc'[d] = proc[d] /\ FileKnown(proc[d]) /\ proc[d].readAt \in Nat
      BY <1>1, <1>5 DEF ProcRecords
    <3>2. CASE Legs[proc[d].at] = l BY <1>5, <2>1, <3>1, <3>2 DEF FileKnown
    <3>3. CASE Legs[proc[d].at] # l /\ proc[d].step \in {"write", "stat"}
      <4>1. Legs[proc[d].at] \in LegNames BY <1>1, <3>3
      <4>2. mtime'[Legs[proc[d].at]] = mtime[Legs[proc[d].at]] /\ leg'[Legs[proc[d].at]] = leg[Legs[proc[d].at]]
        BY <1>1, <1>5, <3>3, <4>1
      <4> QED BY <1>5, <3>1, <4>2 DEF FileKnown, BufferRight
    <3> QED BY <3>1, <3>2, <3>3 DEF FileKnown
  <2>3. ASSUME NEW d \in Clients, NEW k \in FileLegs
        PROVE  /\ cache'[d][k].time <= mtime'[k]
               /\ cache'[d][k].time = mtime'[k] => cache'[d][k].map = leg'[k]
    <3>1. /\ cache[d][k].time \in Nat /\ mtime[k] \in Nat /\ cache[d][k].time <= mtime[k]
          /\ cache[d][k].time = mtime[k] => cache[d][k].map = leg[k]
      BY <1>1 DEF FilesKnown
    <3> QED BY <1>1, <1>5, <2>1, <3>1
  <2> QED BY <1>5, <2>2, <2>3 DEF FilesKnown
<1> USE <1>1 DEF ProcRecords
<1>6. CASE \E what \in Calls : BeginCall(c, what)
  <2>1. PICK what \in Calls : BeginCall(c, what) BY <1>6
  <2>2. FirstStep[what] \notin {"write", "stat"} BY FirstSteps
  <2>3. proc'[c].step = FirstStep[what] BY <2>1 DEF BeginCall, Resting
  <2>4. /\ UNCHANGED <<leg, mtime, cache>> /\ causes \subseteq causes'
        /\ \A d \in Clients \ {c} : proc'[d] = proc[d]
    BY <2>1 DEF BeginCall
  <2> QED BY <1>4, <2>2, <2>3, <2>4
<1>7. CASE GetHit(c) \/ GetMiss(c) \/ NotFound(c) \/ Seal(c)
  <2>1. UNCHANGED <<leg, mtime, cache>> /\ causes \subseteq causes' BY <1>7 DEF GetHit, GetMiss, NotFound, Seal
  <2>2. (\A d \in Clients \ {c} : proc'[d] = proc[d]) /\ proc'[c].step \notin {"write", "stat"}
    BY <1>7 DEF GetHit, GetMiss, NotFound, Seal, Return, NextLeg, At, Resting
  <2> QED BY <1>4, <2>1, <2>2
<1>8. CASE SetFails(c) \/ SetEnds(c) \/ RemoveFails(c) \/ RemoveEnds(c)
  <2>1. UNCHANGED <<leg, mtime, cache>> /\ causes \subseteq causes'
    BY <1>8 DEF SetFails, SetEnds, RemoveFails, RemoveEnds, Blame
  <2>2. (\A d \in Clients \ {c} : proc'[d] = proc[d]) /\ proc'[c].step \notin {"write", "stat"}
    BY <1>8 DEF SetFails, SetEnds, RemoveFails, RemoveEnds, Return, NextLeg, At, Resting
  <2> QED BY <1>4, <2>1, <2>2
<1>9. CASE WriteFails(c)
  <2> DEFINE call == IF proc[c].call = "create" THEN "login" ELSE proc[c].call
  <2>1. call \in Calls /\ FirstStep[call] \notin {"write", "stat"} BY FirstSteps DEF Calls
  <2>2. proc' = [proc EXCEPT ![c].step = FirstStep[call], ![c].at = @ + 1] BY <1>9 DEF WriteFails
  <2> HIDE DEF call
  <2>3. (\A d \in Clients \ {c} : proc'[d] = proc[d]) /\ proc'[c].step \notin {"write", "stat"} BY <2>1, <2>2
  <2>4. UNCHANGED <<leg, mtime, cache>> /\ causes \subseteq causes' BY <1>9 DEF WriteFails, Blame
  <2> QED BY <1>4, <2>3, <2>4
<1>10. Return(c) \/ Go(c, "keyed") \/ NextLeg(c) =>
         \A d \in Clients \ {c} : proc'[d] = proc[d]
  BY DEF Return, Go, NextLeg
\* The keyring is no file.
<1>11. CASE SetKeyring(c) \/ RemoveKeyring(c)
  <2>1. Leg(c) \notin FileLegs BY <1>11 DEF SetKeyring, RemoveKeyring, OnFile
  <2>2. /\ \A l \in FileLegs : leg'[l] = leg[l]
        /\ UNCHANGED <<mtime, cache>> /\ causes \subseteq causes'
    BY <1>11, <2>1 DEF SetKeyring, RemoveKeyring, Blame
  <2>3. (\A d \in Clients \ {c} : proc'[d] = proc[d]) /\ proc'[c].step \notin {"write", "stat"}
    BY <1>11 DEF SetKeyring, RemoveKeyring, Accepted, Go, Return, NextLeg, At, Resting
  <2> QED BY <1>3, <2>2, <2>3 DEF FileKnown
\* What is about to be written is the file as it is, but for one entry.
<1>12. CASE SetReadsFile(c)
  <2>1. OnLeg(c) /\ Leg(c) \in FileLegs /\ Leg(c) \in LegNames /\ Leg(c) = Legs[proc[c].at]
    BY <1>12 DEF SetReadsFile, OnFile, Leg
  <2>2. View(c, Leg(c)) = leg[Leg(c)] BY <2>1, ViewIsTrue
  <2>3. PICK base \in {leg[Leg(c)], NoEntries} :
          /\ proc' = [proc EXCEPT ![c].buffer = [base EXCEPT ![EntryOf(c)] = ValueOf(c)],
                                  ![c].readAt = mtime[Leg(c)], ![c].step = "write"]
          /\ Blame("blind", base # leg[Leg(c)])
    BY <1>12, <2>2 DEF SetReadsFile
  <2> DEFINE map == [base EXCEPT ![EntryOf(c)] = ValueOf(c)]
  <2>4. map["kek"] = IF EntryOf(c) = "kek" THEN ValueOf(c) ELSE base["kek"]
    <3>1. base \in Secrets /\ EntryOf(c) \in SecretNames BY <2>1, ProcFacts
    <3> QED BY <3>1 DEF Secrets, SecretNames
  <2>5. proc' = [proc EXCEPT ![c].buffer = map, ![c].readAt = mtime[Leg(c)], ![c].step = "write"] BY <2>3
  <2> HIDE DEF map
  <2>6. /\ \A d \in Clients \ {c} : proc'[d] = proc[d]
        /\ proc'[c].call = proc[c].call /\ proc'[c].step = "write" /\ proc'[c].buffer = map /\ proc'[c].at = proc[c].at
        /\ proc'[c].readAt = mtime[Leg(c)] /\ proc'[c].key = proc[c].key
    BY <2>5
  <2>7. UNCHANGED <<leg, mtime, cache>> /\ causes \subseteq causes' BY <1>12, <2>3 DEF SetReadsFile, Blame
  <2>8. BufferRight(proc[c], leg[Legs[proc[c].at]]["kek"])'
    <3>1. proc[c].call \in {"create", "login"} BY <1>12 DEF SetReadsFile, At, StepOfCall
    <3>2. CASE proc[c].call = "create"
      <4>1. map["kek"] = proc[c].key BY <2>4, <3>2 DEF EntryOf, ValueOf
      <4> QED BY <2>6, <3>2, <4>1 DEF BufferRight
    <3>3. CASE proc[c].call = "login"
      <4>1. map["kek"] = base["kek"] BY <2>4, <3>3 DEF EntryOf
      <4>2. NoEntries["kek"] = 0 BY DEF NoEntries, SecretNames
      <4>3. "blind" \notin causes' => base = leg[Leg(c)] BY <2>3 DEF Blame
      <4>4. leg'[Legs[proc'[c].at]] = leg[Leg(c)] BY <2>1, <2>6, <2>7
      <4> QED BY <2>3, <2>6, <2>7, <3>3, <4>1, <4>2, <4>3, <4>4 DEF BufferRight
    <3> QED BY <3>1, <3>2, <3>3
  <2>9. FileKnown(proc[c])'
    <3>1. Legs[proc'[c].at] = Leg(c) /\ mtime' = mtime /\ mtime[Leg(c)] \in Nat
      BY <2>1, <2>6, <2>7 DEF Leg
    <3> QED BY <2>6, <2>8, <3>1 DEF FileKnown
  <2> QED BY <1>3, <2>6, <2>7, <2>9
<1>13. CASE RemoveReadsFile(c)
  <2>1. OnLeg(c) /\ Leg(c) \in FileLegs /\ Leg(c) \in LegNames /\ Leg(c) = Legs[proc[c].at]
    BY <1>13 DEF RemoveReadsFile, OnFile, Leg
  <2>2. View(c, Leg(c)) = leg[Leg(c)] BY <2>1, ViewIsTrue
  <2>3. UNCHANGED <<leg, mtime, cache>> /\ causes' = causes BY <1>13 DEF RemoveReadsFile
  <2>4. CASE NextLeg(c)
    BY <1>4, <1>13, <2>3, <2>4 DEF NextLeg, RemoveReadsFile, At
  <2>5. CASE proc' = [proc EXCEPT ![c].buffer = [View(c, Leg(c)) EXCEPT ![EntryOf(c)] = 0],
                                  ![c].readAt = mtime[Leg(c)], ![c].step = "write"]
    <3> DEFINE map == [leg[Leg(c)] EXCEPT ![EntryOf(c)] = 0]
    <3>1. map["kek"] = IF EntryOf(c) = "kek" THEN 0 ELSE leg[Leg(c)]["kek"]
      <4>1. leg[Leg(c)] \in Secrets /\ EntryOf(c) \in SecretNames BY <2>1, ProcFacts
      <4> QED BY <4>1 DEF Secrets, SecretNames
    <3>2. proc' = [proc EXCEPT ![c].buffer = map, ![c].readAt = mtime[Leg(c)], ![c].step = "write"] BY <2>2, <2>5
    <3> HIDE DEF map
    <3>3. /\ \A d \in Clients \ {c} : proc'[d] = proc[d]
          /\ proc'[c].call = proc[c].call /\ proc'[c].step = "write" /\ proc'[c].buffer = map /\ proc'[c].at = proc[c].at
          /\ proc'[c].readAt = mtime[Leg(c)] /\ proc'[c].key = proc[c].key
      BY <3>2
    <3>4. proc[c].call \in {"destroy", "revoke"} BY <1>13 DEF RemoveReadsFile, At, StepOfCall
    <3>5. leg'[Legs[proc'[c].at]] = leg[Leg(c)] BY <2>1, <2>3, <3>3
    <3>6. BufferRight(proc[c], leg[Legs[proc[c].at]]["kek"])'
      BY <3>1, <3>3, <3>4, <3>5 DEF BufferRight, EntryOf
    <3>7. Legs[proc'[c].at] = Leg(c) /\ mtime' = mtime /\ mtime[Leg(c)] \in Nat BY <2>1, <2>3, <3>3
    <3>8. FileKnown(proc[c])' BY <3>3, <3>6, <3>7 DEF FileKnown
    <3> QED BY <1>3, <2>3, <3>3, <3>8
  <2> QED BY <1>13, <2>4, <2>5 DEF RemoveReadsFile
\* What a process has written is in the file while the file keeps the time of the write.
<1>14. CASE WriteFile(c)
  <2>1. Leg(c) \in FileLegs /\ Leg(c) \in LegNames /\ Leg(c) = Legs[proc[c].at] /\ proc[c].buffer \in Secrets
    BY <1>2, <1>14 DEF WriteFile
  <2>2. /\ leg' = [leg EXCEPT ![Leg(c)] = proc[c].buffer] /\ mtime' = [mtime EXCEPT ![Leg(c)] = @ + 1]
        /\ cache' = cache /\ causes \subseteq causes'
    BY <1>14 DEF WriteFile
  <2> DEFINE time == mtime[Leg(c)] + 1
  <2>3. proc' = [proc EXCEPT ![c].readAt = time, ![c].step = "stat"] BY <1>14 DEF WriteFile
  <2>4. mtime'[Leg(c)] = time /\ time \in Nat /\ leg'[Leg(c)] = proc[c].buffer BY <2>1, <2>2
  <2> HIDE DEF time
  <2>5. /\ \A d \in Clients \ {c} : proc'[d] = proc[d]
        /\ proc'[c].step = "stat" /\ proc'[c].readAt = time /\ proc'[c].at = proc[c].at
        /\ proc'[c].buffer = proc[c].buffer
    BY <2>3
  <2>6. FileKnown(proc[c])' BY <2>1, <2>4, <2>5 DEF FileKnown
  <2> QED BY <1>5, <2>1, <2>2, <2>5, <2>6
<1>15. CASE TearFile(c)
  <2>1. Leg(c) \in FileLegs /\ Leg(c) \in LegNames /\ NoEntries \in Secrets
    BY <1>2, <1>15, ProcFacts DEF TearFile
  <2>2. /\ leg' = [leg EXCEPT ![Leg(c)] = NoEntries] /\ mtime' = [mtime EXCEPT ![Leg(c)] = @ + 1]
        /\ cache' = cache /\ causes \subseteq causes'
    BY <1>15 DEF TearFile, Blame
  <2>3. (\A d \in Clients \ {c} : proc'[d] = proc[d]) /\ proc'[c].step = "idle"
    BY <1>15 DEF TearFile, Return, Resting
  <2>4. FileKnown(proc[c])' BY <2>3 DEF FileKnown
  <2> QED BY <1>5, <2>1, <2>2, <2>3, <2>4
\* Nobody has written since: the map it notes is that of the time it notes.
<1>16. CASE NoteTime(c)
  <2>1. Leg(c) \in FileLegs /\ Leg(c) \in LegNames /\ Leg(c) = Legs[proc[c].at] /\ proc[c].step = "stat"
    BY <1>2, <1>16 DEF NoteTime, At
  <2>2. proc[c].readAt = mtime[Leg(c)] BY <1>16 DEF NoteTime, Blame
  <2>3. proc[c].buffer = leg[Leg(c)] BY <1>1, <2>1, <2>2 DEF FileKnown
  <2> DEFINE note == [time |-> mtime[Leg(c)], map |-> proc[c].buffer]
  <2>4. cache' = [cache EXCEPT ![c][Leg(c)] = note] /\ UNCHANGED <<leg, mtime>> /\ causes \subseteq causes'
    BY <1>16 DEF NoteTime, Blame
  <2>5. note.time = mtime[Leg(c)] /\ note.map = leg[Leg(c)] /\ mtime[Leg(c)] \in Nat BY <2>1, <2>3
  <2> HIDE DEF note
  <2>6. (\A d \in Clients \ {c} : proc'[d] = proc[d]) /\ proc'[c].step \notin {"write", "stat"}
    <3>1. CASE Return(c) BY <3>1 DEF Return, Resting
    <3>2. CASE Go(c, "keyed") BY <3>2 DEF Go
    <3>3. CASE proc' = [proc EXCEPT ![c].step = "remove", ![c].at = @ + 1] BY <3>3
    <3> QED BY <1>16, <3>1, <3>2, <3>3 DEF NoteTime, Accepted
  <2>7. \A d \in Clients : FileKnown(proc[d])'
    BY <2>4, <2>6, <1>1 DEF FileKnown, BufferRight
  <2>8. ASSUME NEW d \in Clients, NEW k \in FileLegs
        PROVE  /\ cache'[d][k].time <= mtime'[k]
               /\ cache'[d][k].time = mtime'[k] => cache'[d][k].map = leg'[k]
    <3>1. CASE d = c /\ k = Leg(c)
      <4>1. cache'[d][k] = note BY <2>1, <2>4, <3>1
      <4> QED BY <2>4, <2>5, <3>1, <4>1
    <3>2. CASE ~(d = c /\ k = Leg(c))
      <4>1. cache'[d][k] = cache[d][k] BY <2>1, <2>4, <3>2
      <4> QED BY <2>4, <4>1 DEF FilesKnown
    <3> QED BY <3>1, <3>2
  <2> QED BY <2>7, <2>8 DEF FilesKnown
<1> QED BY <1>6, <1>7, <1>8, <1>9, <1>11, <1>12, <1>13, <1>14, <1>15, <1>16 DEF ClientSteps

\* What a step of c does to the key's entry of the legs: it is kept or cleared, unless c
\* stores its new key there; and what is not there any more has been destroyed.
KekKept(c) ==
  /\ \A l \in LegNames :
       \/ leg'[l]["kek"] \in {0, leg[l]["kek"]}
       \/ Storing(proc[c]) /\ ~Storing(proc'[c]) /\ leg'[l]["kek"] = proc[c].key
  /\ destroyed \subseteq destroyed'
  /\ causes' \cap {"twoKeys", "blind", "torn"} = {} =>
       /\ Stored \subseteq Stored' \cup destroyed'
       /\ Storing(proc[c]) /\ Holding(proc'[c]) => proc[c].key \in Stored'

\* A write of one leg, to the keyring or to a file.
LEMMA OneLegWritten ==
  ASSUME SecretTypes, KeysAreNew, NEW c \in Clients, NEW l \in LegNames, NEW map \in Secrets,
         leg' = [leg EXCEPT ![l] = map],
         destroyed' = destroyed \cup (IF Destroying(c) THEN {leg[l]["kek"]} \ {0} ELSE {}),
         \/ /\ proc[c].call = "create" /\ Storing(proc[c]) /\ ~Storing(proc'[c]) /\ map["kek"] = proc[c].key
            /\ "twoKeys" \notin causes' => ~TwoKeys(c)
         \/ proc[c].call = "destroy" /\ map["kek"] = 0
         \/ /\ proc[c].call \in {"login", "revoke"} /\ map["kek"] \in {0, leg[l]["kek"]}
            /\ "blind" \notin causes' => map["kek"] = leg[l]["kek"]
  PROVE  KekKept(c)
<1>1. /\ leg \in [LegNames -> Secrets] /\ leg'[l] = map
      /\ \A k \in LegNames \ {l} : leg'[k] = leg[k]
      /\ Stored = {leg[k]["kek"] : k \in LegNames} \ {0}
      /\ Stored' = {leg'[k]["kek"] : k \in LegNames} \ {0}
      /\ minted \in Nat
  BY DEF SecretTypes, Stored
<1>2. CASE proc[c].call = "create"
  <2>1. proc[c].key \in 1 .. minted /\ proc[c].key \notin Stored BY <1>2 DEF KeysAreNew
  <2>2. "twoKeys" \notin causes' => Stored = {} BY <1>2, <2>1 DEF TwoKeys
  <2>3. proc[c].key \in Stored' BY <1>1, <1>2, <2>1
  <2> QED BY <1>1, <1>2, <2>2, <2>3 DEF KekKept
<1>3. CASE proc[c].call = "destroy"
  <2>1. Stored \subseteq Stored' \cup destroyed' BY <1>1, <1>3 DEF Destroying
  <2> QED BY <1>1, <1>3, <2>1 DEF KekKept, Storing
<1>4. CASE proc[c].call \in {"login", "revoke"}
  <2>1. "blind" \notin causes' => Stored \subseteq Stored' BY <1>1, <1>4
  <2> QED BY <1>1, <1>4, <2>1 DEF KekKept, Storing
<1> QED BY <1>2, <1>3, <1>4

\* Every step of a client keeps the key's entries so.
LEMMA KekStep ==
  ASSUME SecretTypes, SecretTypes', FilesKnown, KeysAreNew, NEW c \in Clients, ClientSteps(c), "overlap" \notin causes'
  PROVE  KekKept(c)
<1>1. /\ proc[c] \in ProcRecords /\ StepOfCall(proc[c]) /\ proc \in [Clients -> ProcRecords]
      /\ proc' \in [Clients -> ProcRecords]
      /\ leg \in [LegNames -> Secrets] /\ FileLegs \subseteq LegNames /\ NoEntries \in Secrets
      /\ EntryOf(c) \in SecretNames /\ ValueOf(c) \in Nat
      /\ OnLeg(c) => Leg(c) \in LegNames
  BY LegFacts, ProcFacts DEF SecretTypes
<1>2. ASSUME UNCHANGED <<leg, destroyed>>, ~Holding(proc'[c]) \/ ~Storing(proc[c]) PROVE KekKept(c)
  BY <1>2 DEF KekKept, Stored
<1>3. CASE \E what \in Calls : BeginCall(c, what)
  BY <1>2, <1>3 DEF BeginCall, At, Storing
<1>4. CASE GetHit(c) \/ GetMiss(c) \/ NotFound(c) \/ Seal(c)
  BY <1>2, <1>4 DEF GetHit, GetMiss, NotFound, Seal, At, Storing
<1>5. CASE SetReadsFile(c) \/ SetFails(c) \/ SetEnds(c)
  <2>1. proc'[c].step \in {"write", "set", "idle"}
    <3>1. CASE SetReadsFile(c) BY <1>1, <3>1 DEF SetReadsFile
    <3>2. CASE SetFails(c) BY <1>1, <3>2 DEF SetFails, NextLeg, At, ProcRecords
    <3>3. CASE SetEnds(c) BY <1>1, <3>3 DEF SetEnds, Return, Resting
    <3> QED BY <1>5, <3>1, <3>2, <3>3
  <2> QED BY <1>2, <1>5, <2>1 DEF SetReadsFile, SetFails, SetEnds, Holding
<1>6. CASE RemoveReadsFile(c) \/ RemoveFails(c) \/ RemoveEnds(c)
  BY <1>2, <1>6 DEF RemoveReadsFile, RemoveFails, RemoveEnds, At, Storing
<1>7. CASE WriteFails(c)
  <2>1. /\ proc[c].call \in {"create", "login", "destroy", "revoke"}
        /\ UNCHANGED <<leg, destroyed>>
    BY <1>1, <1>7 DEF WriteFails, At, StepOfCall
  <2>2. CASE proc[c].call = "create"
    <3>1. FirstStep["login"] = "set" BY DEF FirstStep
    <3>2. proc'[c].step = "set" BY <1>1, <1>7, <2>2, <3>1 DEF WriteFails
    <3> QED BY <1>2, <2>1, <3>2 DEF Holding
  <2>3. CASE proc[c].call # "create" BY <1>2, <2>1, <2>3 DEF Storing
  <2> QED BY <2>2, <2>3
<1>8. CASE NoteTime(c) BY <1>2, <1>8 DEF NoteTime, At, Storing
<1>9. CASE SetKeyring(c)
  <2> DEFINE map == [leg[Leg(c)] EXCEPT ![EntryOf(c)] = ValueOf(c)]
  <2>1. Leg(c) \in LegNames /\ proc[c].call \in {"create", "login"} /\ proc[c].step = "set" /\ destroyed' = destroyed
    BY <1>1, <1>9 DEF SetKeyring, At, StepOfCall
  <2>2. map \in Secrets /\ leg' = [leg EXCEPT ![Leg(c)] = map] BY <1>1, <1>9, <2>1 DEF SetKeyring, Secrets
  <2>3. map["kek"] = IF EntryOf(c) = "kek" THEN ValueOf(c) ELSE leg[Leg(c)]["kek"]
    BY <1>1, <2>1 DEF Secrets, SecretNames
  <2>4. "twoKeys" \notin causes' => ~TwoKeys(c) BY <1>9 DEF SetKeyring, Blame
  <2>5. proc'[c].step \in {"keyed", "idle"}
    <3>1. CASE Go(c, "keyed") BY <1>1, <3>1 DEF Go
    <3>2. CASE Return(c) BY <1>1, <3>2 DEF Return, Resting
    <3> QED BY <1>9, <3>1, <3>2 DEF SetKeyring, Accepted
  <2> HIDE DEF map
  <2>6. CASE proc[c].call = "create"
    <3>1. map["kek"] = proc[c].key BY <2>3, <2>6 DEF EntryOf, ValueOf
    <3> QED BY <2>1, <2>2, <2>4, <2>5, <2>6, <3>1, OneLegWritten DEF Destroying, Storing
  <2>7. CASE proc[c].call = "login"
    <3>1. map["kek"] = leg[Leg(c)]["kek"] BY <2>3, <2>7 DEF EntryOf
    <3> QED BY <2>1, <2>2, <2>7, <3>1, OneLegWritten DEF Destroying
  <2> QED BY <2>1, <2>6, <2>7
<1>10. CASE RemoveKeyring(c)
  <2> DEFINE map == [leg[Leg(c)] EXCEPT ![EntryOf(c)] = 0]
  <2>1. Leg(c) \in LegNames /\ proc[c].call \in {"destroy", "revoke"} /\ destroyed' = destroyed \cup Removed(c)
    BY <1>1, <1>10 DEF RemoveKeyring, At, StepOfCall
  <2>2. map \in Secrets /\ leg' = [leg EXCEPT ![Leg(c)] = map] BY <1>1, <1>10, <2>1 DEF RemoveKeyring, Secrets
  <2>3. map["kek"] = IF EntryOf(c) = "kek" THEN 0 ELSE leg[Leg(c)]["kek"]
    BY <1>1, <2>1 DEF Secrets, SecretNames
  <2>4. map["kek"] = IF proc[c].call = "destroy" THEN 0 ELSE leg[Leg(c)]["kek"]
    BY <2>1, <2>3 DEF EntryOf
  <2> HIDE DEF map
  <2> QED BY <2>1, <2>2, <2>4, OneLegWritten DEF Removed
<1>11. CASE WriteFile(c)
  <2>1. /\ Leg(c) \in LegNames /\ Leg(c) = Legs[proc[c].at] /\ proc[c].step = "write"
        /\ proc[c].call \in {"create", "login", "destroy", "revoke"}
        /\ proc[c].buffer \in Secrets /\ leg' = [leg EXCEPT ![Leg(c)] = proc[c].buffer]
        /\ destroyed' = destroyed \cup Removed(c)
    BY <1>1, <1>11 DEF WriteFile, At, StepOfCall, Leg, ProcRecords
  <2>2. proc[c].readAt = mtime[Leg(c)] BY <1>11 DEF WriteFile
  <2>3. BufferRight(proc[c], leg[Leg(c)]["kek"]) BY <2>1, <2>2 DEF FilesKnown, FileKnown
  <2>4. proc'[c].step = "stat" BY <1>1, <1>11 DEF WriteFile
  <2>5. /\ "twoKeys" \notin causes' => ~TwoKeys(c)
        /\ "blind" \notin causes' => "blind" \notin causes
    BY <1>11 DEF WriteFile
  <2> QED BY <2>1, <2>3, <2>4, <2>5, OneLegWritten DEF BufferRight, Storing, Removed
<1>12. CASE TearFile(c)
  <2>1. /\ Leg(c) \in LegNames /\ leg' = [leg EXCEPT ![Leg(c)] = NoEntries] /\ destroyed' = destroyed
        /\ "torn" \in causes'
    BY <1>1, <1>12 DEF TearFile, At, StepOfCall, Leg, Blame
  <2>2. NoEntries["kek"] = 0 BY DEF NoEntries, SecretNames
  <2>3. \A l \in LegNames : leg'[l]["kek"] \in {0, leg[l]["kek"]} BY <1>1, <2>1, <2>2
  <2> QED BY <2>1, <2>3 DEF KekKept
<1> QED BY <1>3, <1>4, <1>5, <1>6, <1>7, <1>8, <1>9, <1>10, <1>11, <1>12 DEF ClientSteps

\* Where the keys of processes come from and go to in a step of c.
KeysPassOn(c) ==
  /\ \A d \in Clients \ {c} : proc'[d] = proc[d]
  /\ At(c, "idle") \/ proc'[c].call \in {proc[c].call, "load"}
  /\ minted' \in Nat /\ minted <= minted'
  /\ Storing(proc'[c]) =>
       \/ Storing(proc[c]) /\ proc'[c].key = proc[c].key
       \/ proc'[c].key = minted + 1 /\ minted' = minted + 1 /\ ~Storing(proc[c])
  /\ Holding(proc'[c]) =>
       \/ (Holding(proc[c]) \/ Storing(proc[c])) /\ proc'[c].key = proc[c].key
       \/ proc'[c].key \in Stored /\ leg' = leg
  /\ proc'[c].aim \subseteq proc[c].aim \/ proc'[c].aim \subseteq Stored
  /\ shredded' \subseteq shredded \cup proc[c].aim
  /\ sealedBy' \subseteq sealedBy \cup (IF Holding(proc[c]) THEN {proc[c].key} ELSE {})

\* Every step of a client passes keys on so.
LEMMA KeysPassOnStep ==
  ASSUME SecretTypes, SecretTypes', FilesKnown, NEW c \in Clients, ClientSteps(c)
  PROVE  KeysPassOn(c)
<1>1. /\ proc[c] \in ProcRecords /\ StepOfCall(proc[c]) /\ proc \in [Clients -> ProcRecords]
      /\ minted \in Nat /\ minted <= minted /\ minted <= minted + 1
      /\ leg \in [LegNames -> Secrets]
  BY DEF SecretTypes
\* A step that changes only the step, the leg or the buffer of c.
<1>2. ASSUME UNCHANGED <<minted, shredded, sealedBy>>, \A d \in Clients \ {c} : proc'[d] = proc[d],
             proc'[c].key = proc[c].key, proc'[c].aim = proc[c].aim, proc'[c].call = proc[c].call,
             Storing(proc'[c]) => Storing(proc[c]), Holding(proc'[c]) => Holding(proc[c]) \/ Storing(proc[c])
      PROVE  KeysPassOn(c)
  BY <1>1, <1>2 DEF KeysPassOn
\* A call that returns.
<1>3. ASSUME minted' = minted, shredded' \subseteq shredded \cup proc[c].aim, Return(c),
             sealedBy' \subseteq sealedBy \cup (IF Holding(proc[c]) THEN {proc[c].key} ELSE {})
      PROVE  KeysPassOn(c)
  <2>1. proc'[c] = Resting /\ \A d \in Clients \ {c} : proc'[d] = proc[d] BY <1>1, <1>3 DEF Return
  <2>2. ~Storing(Resting) /\ ~Holding(Resting) /\ Resting.aim = {} /\ Resting.call = "load" BY DEF Resting, Storing, Holding
  <2> QED BY <1>1, <1>3, <2>1, <2>2 DEF KeysPassOn
<1>4. ASSUME NextLeg(c)
      PROVE  /\ \A d \in Clients \ {c} : proc'[d] = proc[d]
             /\ proc'[c].key = proc[c].key /\ proc'[c].aim = proc[c].aim
             /\ proc'[c].call = proc[c].call /\ proc'[c].step = proc[c].step
  BY <1>1, <1>4 DEF NextLeg, ProcRecords
<1>5. ASSUME Go(c, "keyed")
      PROVE  /\ \A d \in Clients \ {c} : proc'[d] = proc[d]
             /\ proc'[c].key = proc[c].key /\ proc'[c].aim = proc[c].aim
             /\ proc'[c].call = proc[c].call /\ proc'[c].step = "keyed"
  BY <1>1, <1>5 DEF Go, ProcRecords
<1>6. CASE \E what \in Calls : BeginCall(c, what)
  <2>1. PICK what \in Calls : BeginCall(c, what) BY <1>6
  <2> DEFINE aim == IF what = "destroy" THEN Stored ELSE {}
  <2>2. proc' = [proc EXCEPT ![c] = [Resting EXCEPT !.call = what, !.step = FirstStep[what], !.aim = aim]]
    BY <2>1 DEF BeginCall
  <2>3. aim \subseteq Stored OBVIOUS
  <2> HIDE DEF aim
  <2>4. /\ \A d \in Clients \ {c} : proc'[d] = proc[d]
        /\ proc'[c].aim = aim /\ proc'[c].call = what /\ proc'[c].step = FirstStep[what]
    BY <1>1, <2>2 DEF Resting
  <2>5. ~Storing(proc'[c]) /\ ~Holding(proc'[c])
    BY <2>4, FirstSteps DEF Storing, Holding
  <2>6. At(c, "idle") BY <2>1 DEF BeginCall
  <2> QED BY <1>1, <2>1, <2>3, <2>4, <2>5, <2>6 DEF KeysPassOn, BeginCall
<1>7. CASE GetHit(c)
  <2>1. leg' = leg /\ OnLeg(c) /\ View(c, Leg(c))["kek"] # 0 /\ UNCHANGED <<minted, shredded, sealedBy>>
    BY <1>7 DEF GetHit
  <2>2. Leg(c) \in LegNames BY <2>1, ProcFacts
  <2>3. View(c, Leg(c))["kek"] \in Stored BY <2>1, <2>2, ViewIsTrue DEF Stored
  <2> DEFINE key == View(c, Leg(c))["kek"]
  <2>4. proc' = [proc EXCEPT ![c].key = key, ![c].step = "keyed"] BY <1>7 DEF GetHit
  <2> HIDE DEF key
  <2>5. /\ \A d \in Clients \ {c} : proc'[d] = proc[d]
        /\ proc'[c].key = key /\ proc'[c].step = "keyed" /\ proc'[c].aim = proc[c].aim
        /\ proc'[c].call = proc[c].call
    BY <1>1, <2>4 DEF ProcRecords
  <2> QED BY <1>1, <2>1, <2>3, <2>5 DEF KeysPassOn, Storing, key
<1>8. CASE GetMiss(c) \/ SetFails(c) \/ RemoveFails(c) \/ RemoveKeyring(c)
  <2>1. NextLeg(c) /\ UNCHANGED <<minted, shredded, sealedBy>> BY <1>8 DEF GetMiss, SetFails, RemoveFails, RemoveKeyring
  <2> QED BY <1>2, <1>4, <2>1 DEF Storing, Holding
<1>9. CASE NotFound(c)
  <2>1. UNCHANGED <<leg, shredded, sealedBy>> /\ proc[c].step = "get" BY <1>9 DEF NotFound, At
  <2>2. CASE Return(c) /\ minted' = minted BY <1>3, <2>1, <2>2
  <2>3. CASE /\ minted' = minted + 1
             /\ proc' = [proc EXCEPT ![c].key = minted + 1, ![c].step = "set", ![c].at = 1]
    <3> DEFINE key == minted + 1
               one == 1
    <3>1. proc' = [proc EXCEPT ![c].key = key, ![c].step = "set", ![c].at = one] /\ key \in Nat BY <1>1, <2>3
    <3> HIDE DEF key, one
    <3>2. /\ \A d \in Clients \ {c} : proc'[d] = proc[d]
          /\ proc'[c].key = key /\ proc'[c].step = "set" /\ proc'[c].aim = proc[c].aim
          /\ proc'[c].call = proc[c].call
      BY <1>1, <3>1 DEF ProcRecords
    <3>3. ~Storing(proc[c]) BY <2>1 DEF Storing
    <3>4. proc'[c].key = minted + 1 BY <3>2 DEF key
    <3> QED BY <1>1, <2>1, <2>3, <3>2, <3>3, <3>4 DEF KeysPassOn, Holding
  <2> QED BY <1>9, <2>2, <2>3 DEF NotFound
<1>10. CASE Seal(c)
  <2>1. Holding(proc[c]) BY <1>10 DEF Seal, At, Holding
  <2> QED BY <1>3, <1>10, <2>1 DEF Seal
<1>11. CASE SetEnds(c) \/ RemoveEnds(c) \/ TearFile(c)
  BY <1>3, <1>11 DEF SetEnds, RemoveEnds, TearFile
\* Who is let go on holds the key it has stored.
<1>12. ASSUME Accepted(c), UNCHANGED <<minted, shredded, sealedBy>>, proc[c].step \in {"set", "stat"}
       PROVE  KeysPassOn(c)
  <2>1. CASE Return(c) BY <1>3, <1>12, <2>1
  <2>2. CASE proc[c].call = "create" /\ Go(c, "keyed")
    BY <1>2, <1>5, <1>12, <2>2 DEF Storing, Holding
  <2> QED BY <1>12, <2>1, <2>2 DEF Accepted
<1>13. CASE SetKeyring(c) BY <1>12, <1>13 DEF SetKeyring, At
<1>14. ASSUME NEW map \in Secrets, NEW time \in Nat, NEW s \in {"write", "stat"},
              proc' = [proc EXCEPT ![c].buffer = map, ![c].readAt = time, ![c].step = s]
       PROVE  /\ \A d \in Clients \ {c} : proc'[d] = proc[d]
              /\ proc'[c].key = proc[c].key /\ proc'[c].aim = proc[c].aim
              /\ proc'[c].call = proc[c].call /\ proc'[c].step = s
  BY <1>1, <1>14 DEF ProcRecords
<1>15. OnFile(c) \/ At(c, "write") => Leg(c) \in LegNames /\ mtime[Leg(c)] \in Nat
  BY <1>1, LegFacts, ProcFacts DEF OnFile, At, StepOfCall, Leg, SecretTypes
<1>16. CASE SetReadsFile(c)
  <2>1. PICK base \in {View(c, Leg(c)), NoEntries} :
          proc' = [proc EXCEPT ![c].buffer = [base EXCEPT ![EntryOf(c)] = ValueOf(c)],
                               ![c].readAt = mtime[Leg(c)], ![c].step = "write"]
    BY <1>16 DEF SetReadsFile
  <2>2. [base EXCEPT ![EntryOf(c)] = ValueOf(c)] \in Secrets
    <3>1. base \in Secrets /\ EntryOf(c) \in SecretNames /\ ValueOf(c) \in Nat
      BY <1>15, <1>16, ProcFacts DEF SetReadsFile
    <3> QED BY <3>1 DEF Secrets
  <2>3. UNCHANGED <<minted, shredded, sealedBy>> /\ proc[c].step = "set" BY <1>16 DEF SetReadsFile, At
  <2>4. mtime[Leg(c)] \in Nat BY <1>15, <1>16 DEF SetReadsFile
  <2>5. /\ \A d \in Clients \ {c} : proc'[d] = proc[d]
        /\ proc'[c].key = proc[c].key /\ proc'[c].aim = proc[c].aim
        /\ proc'[c].call = proc[c].call /\ proc'[c].step = "write"
    BY <1>14, <2>1, <2>2, <2>4
  <2> QED BY <1>2, <2>3, <2>5 DEF Storing, Holding
<1>17. CASE RemoveReadsFile(c)
  <2>1. UNCHANGED <<minted, shredded, sealedBy>> /\ proc[c].step = "remove" /\ OnFile(c)
    BY <1>17 DEF RemoveReadsFile, At
  <2>2. CASE NextLeg(c) BY <1>2, <1>4, <2>1, <2>2 DEF Storing, Holding
  <2>3. CASE proc' = [proc EXCEPT ![c].buffer = [View(c, Leg(c)) EXCEPT ![EntryOf(c)] = 0],
                                  ![c].readAt = mtime[Leg(c)], ![c].step = "write"]
    <3>1. [View(c, Leg(c)) EXCEPT ![EntryOf(c)] = 0] \in Secrets
      <4>1. View(c, Leg(c)) \in Secrets /\ EntryOf(c) \in SecretNames BY <1>15, <2>1, ProcFacts
      <4> QED BY <4>1 DEF Secrets
    <3>2. /\ \A d \in Clients \ {c} : proc'[d] = proc[d]
          /\ proc'[c].key = proc[c].key /\ proc'[c].aim = proc[c].aim
          /\ proc'[c].call = proc[c].call /\ proc'[c].step = "write"
      BY <1>14, <1>15, <2>1, <2>3, <3>1
    <3>3. proc[c].call # "create" BY <1>1, <2>1 DEF StepOfCall
    <3> QED BY <1>2, <2>1, <3>2, <3>3 DEF Storing, Holding
  <2> QED BY <1>17, <2>2, <2>3 DEF RemoveReadsFile
<1>18. CASE WriteFile(c)
  <2> DEFINE time == mtime[Leg(c)] + 1
  <2>1. proc' = [proc EXCEPT ![c].readAt = time, ![c].step = "stat"] /\ UNCHANGED <<minted, shredded, sealedBy>>
    BY <1>18 DEF WriteFile
  <2> HIDE DEF time
  <2>2. /\ \A d \in Clients \ {c} : proc'[d] = proc[d]
        /\ proc'[c].key = proc[c].key /\ proc'[c].aim = proc[c].aim
        /\ proc'[c].call = proc[c].call /\ proc'[c].step = "stat"
    BY <1>1, <2>1 DEF ProcRecords
  <2>3. proc[c].step = "write" BY <1>18 DEF WriteFile, At
  <2> QED BY <1>2, <2>1, <2>2, <2>3 DEF Storing, Holding
<1>19. ASSUME NEW s \in {"set", "remove"}, proc' = [proc EXCEPT ![c].step = s, ![c].at = @ + 1]
       PROVE  /\ \A d \in Clients \ {c} : proc'[d] = proc[d]
              /\ proc'[c].key = proc[c].key /\ proc'[c].aim = proc[c].aim
              /\ proc'[c].call = proc[c].call /\ proc'[c].step = s
  BY <1>1, <1>19 DEF ProcRecords
<1>20. CASE WriteFails(c)
  <2> DEFINE call == IF proc[c].call = "create" THEN "login" ELSE proc[c].call
             s == FirstStep[call]
  <2>1. proc[c].step = "write" /\ proc[c].call \in {"create", "login", "destroy", "revoke"}
    BY <1>1, <1>20 DEF WriteFails, At, StepOfCall
  <2>2. s \in {"set", "remove"} BY <2>1 DEF FirstStep
  <2>3. proc' = [proc EXCEPT ![c].step = s, ![c].at = @ + 1] /\ UNCHANGED <<minted, shredded, sealedBy>>
    BY <1>20 DEF WriteFails
  <2> HIDE DEF s
  <2> QED BY <1>2, <1>19, <2>1, <2>2, <2>3 DEF Storing, Holding
<1>21. CASE NoteTime(c)
  <2>1. proc[c].step = "stat" /\ UNCHANGED <<minted, shredded, sealedBy>> BY <1>21 DEF NoteTime, At
  <2>2. CASE Accepted(c) BY <1>12, <2>1, <2>2
  <2>3. CASE proc' = [proc EXCEPT ![c].step = "remove", ![c].at = @ + 1]
    BY <1>2, <1>19, <2>1, <2>3 DEF Storing, Holding
  <2> QED BY <1>21, <2>2, <2>3 DEF NoteTime
<1> QED BY <1>6, <1>7, <1>8, <1>9, <1>10, <1>11, <1>13, <1>16, <1>17, <1>18, <1>20, <1>21 DEF ClientSteps

\* A new key stays unknown until it is stored, and then its maker is not storing any more.
LEMMA KeysAreNewStep ==
  ASSUME SecretTypes, SecretTypes', KeysAreNew, NEW c \in Clients, KekKept(c), KeysPassOn(c)
  PROVE  KeysAreNew'
<1>1. /\ minted \in Nat /\ minted' \in Nat /\ minted <= minted' /\ \A d \in Clients \ {c} : proc'[d] = proc[d]
      /\ \A d \in Clients : proc[d].key \in Nat
  BY DEF SecretTypes, KeysPassOn, ProcRecords
\* What is in the legs was there before, or has just been stored.
<1>2. ASSUME NEW k \in Stored'
      PROVE  k \in Stored \/ (Storing(proc[c]) /\ ~Storing(proc'[c]) /\ k = proc[c].key)
  <2>1. PICK l \in LegNames : k = leg'[l]["kek"] /\ k # 0 BY DEF Stored
  <2>2. leg[l]["kek"] # 0 => leg[l]["kek"] \in Stored BY DEF Stored
  <2> QED BY <2>1, <2>2 DEF KekKept
<1>3. Stored' \subseteq 1 .. minted'
  <2>1. \A k \in Stored' : k \in 1 .. minted BY <1>2 DEF KeysAreNew
  <2> QED BY <1>1, <2>1
<1>4. /\ shredded' \subseteq shredded \cup proc[c].aim
      /\ shredded' \subseteq 1 .. minted'
  <2>1. shredded' \subseteq shredded \cup proc[c].aim BY DEF KeysPassOn
  <2>2. \A k \in shredded' : k \in 1 .. minted BY <2>1 DEF KeysAreNew
  <2> QED BY <1>1, <2>1, <2>2
<1>5. ASSUME NEW d \in Clients, NEW k \in proc'[d].aim
      PROVE  k \in Stored \/ k \in proc[d].aim
  BY <1>1 DEF KeysPassOn
<1>6. \A d \in Clients : proc'[d].aim \subseteq 1 .. minted'
  <2>1. \A d \in Clients : \A k \in proc'[d].aim : k \in 1 .. minted BY <1>5 DEF KeysAreNew
  <2> QED BY <1>1, <2>1
\* Who was storing is still alone with its key; who has just minted has one beyond all others.
<1>7. ASSUME NEW d \in Clients, Storing(proc'[d])
      PROVE  \/ Storing(proc[d]) /\ proc'[d].key = proc[d].key
             \/ d = c /\ proc'[d].key = minted + 1 /\ minted' = minted + 1 /\ ~Storing(proc[c])
  BY <1>1, <1>7 DEF KeysPassOn
<1>8. ASSUME NEW d \in Clients, Storing(proc'[d])
      PROVE  /\ proc'[d].key \in 1 .. minted'
             /\ proc'[d].key \notin Stored' \cup shredded'
             /\ \A e \in Clients : /\ proc'[d].key \notin proc'[e].aim
                                   /\ e # d /\ Storing(proc'[e]) => proc'[e].key # proc'[d].key
  <2>1. CASE Storing(proc[d]) /\ proc'[d].key = proc[d].key
    <3>1. /\ proc[d].key \in 1 .. minted /\ proc[d].key \notin Stored \cup shredded
          /\ \A e \in Clients : /\ proc[d].key \notin proc[e].aim
                                /\ e # d /\ Storing(proc[e]) => proc[e].key # proc[d].key
      BY <2>1 DEF KeysAreNew
    <3>2. proc[d].key \in 1 .. minted' BY <1>1, <3>1
    <3>3. proc[d].key \notin Stored'
      <4>1. CASE d = c BY <1>2, <1>8, <3>1, <4>1
      <4>2. CASE d # c BY <1>2, <3>1, <4>2
      <4> QED BY <4>1, <4>2
    <3>4. proc[d].key \notin shredded' BY <1>4, <3>1
    <3>5. ASSUME NEW e \in Clients PROVE proc[d].key \notin proc'[e].aim BY <1>5, <3>1
    <3>6. ASSUME NEW e \in Clients, e # d, Storing(proc'[e]) PROVE proc'[e].key # proc[d].key
      BY <1>1, <1>7, <3>1, <3>6
    <3> QED BY <2>1, <3>2, <3>3, <3>4, <3>5, <3>6
  <2>2. CASE d = c /\ proc'[d].key = minted + 1 /\ minted' = minted + 1 /\ ~Storing(proc[c])
    <3>1. \A k \in 1 .. minted : k # proc'[d].key BY <1>1, <2>2
    <3>2. proc'[d].key \in 1 .. minted' BY <1>1, <2>2
    <3>3. proc'[d].key \notin Stored' BY <1>2, <2>2, <3>1 DEF KeysAreNew
    <3>4. proc'[d].key \notin shredded' BY <1>4, <3>1 DEF KeysAreNew
    <3>5. ASSUME NEW e \in Clients PROVE proc'[d].key \notin proc'[e].aim BY <1>5, <3>1 DEF KeysAreNew
    <3>6. ASSUME NEW e \in Clients, e # d, Storing(proc'[e]) PROVE proc'[e].key # proc'[d].key
      <4>1. Storing(proc[e]) /\ proc'[e].key = proc[e].key BY <1>7, <2>2, <3>6
      <4>2. proc[e].key \in 1 .. minted BY <4>1 DEF KeysAreNew
      <4> QED BY <3>1, <4>1, <4>2
    <3> QED BY <3>2, <3>3, <3>4, <3>5, <3>6
  <2> QED BY <1>7, <1>8, <2>1, <2>2
<1> QED BY <1>3, <1>4, <1>6, <1>8 DEF KeysAreNew

\* A destroy comes past a leg once it has seen it clear, or cleared it.
LEMMA LegIsCleared ==
  ASSUME SecretTypes, SecretTypes', FilesKnown, NEW c \in Clients, ClientSteps(c),
         {"overlap", "legFailed"} \cap causes' = {},
         NEW i \in 1 .. Len(Legs), proc'[c].call = "destroy", Past(proc'[c], i)
  PROVE  /\ proc[c].call = "destroy" /\ proc'[c].aim = proc[c].aim
         /\ Past(proc[c], i) \/ leg'[Legs[i]]["kek"] = 0
<1>1. /\ proc[c] \in ProcRecords /\ StepOfCall(proc[c]) /\ proc \in [Clients -> ProcRecords]
      /\ leg \in [LegNames -> Secrets] /\ FileLegs \subseteq LegNames
      /\ Len(Legs) \in Nat /\ Legs[i] \in LegNames /\ proc[c].at \in Nat \ {0}
  BY LegFacts DEF SecretTypes, ProcRecords
<1>2. ~Return(c)
  <2> SUFFICES ASSUME Return(c) PROVE FALSE
    OBVIOUS
  <2> QED BY <1>1 DEF Return, Resting
<1>3. At(c, "idle") \/ proc[c].call = "destroy"
  <2>1. KeysPassOn(c) BY KeysPassOnStep
  <2> QED BY <2>1 DEF KeysPassOn
<1>4. ASSUME NextLeg(c)
      PROVE  proc'[c].aim = proc[c].aim /\ proc'[c].call = proc[c].call /\ proc'[c].step = proc[c].step
             /\ proc'[c].at = proc[c].at + 1
  BY <1>1, <1>4 DEF NextLeg, ProcRecords
<1>5. CASE \E what \in Calls : BeginCall(c, what)
  <2>1. PICK what \in Calls : BeginCall(c, what) BY <1>5
  <2> DEFINE aim == IF what = "destroy" THEN Stored ELSE {}
  <2>2. proc' = [proc EXCEPT ![c] = [Resting EXCEPT !.call = what, !.step = FirstStep[what], !.aim = aim]]
    BY <2>1 DEF BeginCall
  <2> HIDE DEF aim
  <2>3. proc'[c].at = 1 /\ proc'[c].step = FirstStep[what] BY <1>1, <2>2 DEF Resting
  <2>4. FirstStep[what] # "stat" BY FirstSteps
  <2> QED BY <2>3, <2>4 DEF Past
<1>6. CASE RemoveKeyring(c)
  <2>1. NextLeg(c) /\ proc[c].step = "remove" /\ leg' = [leg EXCEPT ![Leg(c)][EntryOf(c)] = 0] BY <1>6 DEF RemoveKeyring, At
  <2>2. proc[c].call = "destroy" BY <1>4, <2>1
  <2>3. EntryOf(c) = "kek" BY <2>2 DEF EntryOf
  <2>4. CASE i = proc[c].at
    <3>1. Leg(c) = Legs[i] BY <2>4 DEF Leg
    <3> QED BY <1>1, <1>4, <2>1, <2>2, <2>3, <3>1 DEF Secrets, SecretNames
  <2>5. CASE i # proc[c].at BY <1>1, <1>4, <2>1, <2>2, <2>5 DEF Past
  <2> QED BY <2>4, <2>5
<1>7. CASE RemoveReadsFile(c)
  <2>1. proc[c].step = "remove" /\ OnFile(c) /\ leg' = leg BY <1>7 DEF RemoveReadsFile, At
  <2>2. CASE NextLeg(c) /\ View(c, Leg(c))[EntryOf(c)] = 0
    <3>1. proc[c].call = "destroy" BY <1>4, <2>2
    <3>2. EntryOf(c) = "kek" BY <3>1 DEF EntryOf
    <3>3. View(c, Leg(c)) = leg[Leg(c)] BY <1>1, <2>1, ViewIsTrue DEF OnFile
    <3>4. leg'[Leg(c)]["kek"] = 0 BY <2>1, <2>2, <3>2, <3>3
    <3> QED BY <1>1, <1>4, <2>1, <2>2, <3>1, <3>4 DEF Past, Leg
  <2>3. CASE proc' = [proc EXCEPT ![c].buffer = [View(c, Leg(c)) EXCEPT ![EntryOf(c)] = 0],
                                  ![c].readAt = mtime[Leg(c)], ![c].step = "write"]
    <3> DEFINE map == [View(c, Leg(c)) EXCEPT ![EntryOf(c)] = 0]
    <3>1. proc' = [proc EXCEPT ![c].buffer = map, ![c].readAt = mtime[Leg(c)], ![c].step = "write"] BY <2>3
    <3> HIDE DEF map
    <3>2. /\ proc'[c].aim = proc[c].aim /\ proc'[c].call = proc[c].call /\ proc'[c].step = "write"
          /\ proc'[c].at = proc[c].at
      BY <1>1, <3>1 DEF ProcRecords
    <3> QED BY <3>2 DEF Past
  <2> QED BY <1>7, <2>2, <2>3 DEF RemoveReadsFile
<1>8. CASE WriteFile(c)
  <2> DEFINE time == mtime[Leg(c)] + 1
  <2>1. proc' = [proc EXCEPT ![c].readAt = time, ![c].step = "stat"] BY <1>8 DEF WriteFile
  <2> HIDE DEF time
  <2>2. /\ proc'[c].aim = proc[c].aim /\ proc'[c].call = proc[c].call /\ proc'[c].at = proc[c].at
    BY <1>1, <2>1 DEF ProcRecords
  <2>3. Leg(c) = Legs[proc[c].at] /\ proc[c].step = "write" /\ proc[c].readAt = mtime[Leg(c)]
        /\ leg' = [leg EXCEPT ![Leg(c)] = proc[c].buffer]
    BY <1>8 DEF WriteFile, At, Leg
  <2>4. proc[c].buffer["kek"] = 0 BY <2>2, <2>3 DEF FilesKnown, FileKnown, BufferRight
  <2> QED BY <1>1, <2>2, <2>3, <2>4 DEF Past
<1>9. CASE NoteTime(c)
  <2>1. proc[c].step = "stat" /\ leg' = leg BY <1>9 DEF NoteTime, At
  <2>2. proc[c].call = "destroy" BY <1>3, <2>1 DEF At
  <2>3. proc' = [proc EXCEPT ![c].step = "remove", ![c].at = @ + 1] BY <1>9, <2>2 DEF NoteTime
  <2>4. /\ proc'[c].aim = proc[c].aim /\ proc'[c].call = proc[c].call /\ proc'[c].at = proc[c].at + 1
        /\ proc'[c].step = "remove"
    BY <1>1, <2>3 DEF ProcRecords
  <2> QED BY <1>1, <2>1, <2>4 DEF Past
<1>10. CASE RemoveFails(c) \/ WriteFails(c)
  <2>1. ~Destroying(c) BY <1>10 DEF RemoveFails, WriteFails, Blame
  <2>2. ~At(c, "idle") BY <1>10 DEF RemoveFails, WriteFails, At
  <2> QED BY <1>3, <2>1, <2>2 DEF Destroying
<1>11. CASE GetHit(c) \/ GetMiss(c) \/ NotFound(c) \/ Seal(c) \/ SetKeyring(c) \/ SetReadsFile(c) \/ SetFails(c) \/ SetEnds(c)
  <2>1. proc[c].step \in {"get", "keyed", "set"}
    BY <1>11 DEF GetHit, GetMiss, NotFound, Seal, SetKeyring, SetReadsFile, SetFails, SetEnds, At
  <2> QED BY <1>1, <1>3, <2>1 DEF At, StepOfCall
<1>12. CASE RemoveEnds(c) \/ TearFile(c) BY <1>2, <1>12 DEF RemoveEnds, TearFile
<1> QED BY <1>5, <1>6, <1>7, <1>8, <1>9, <1>10, <1>11, <1>12 DEF ClientSteps

\* Nothing brings back what a destroy is after, or has shredded.
LEMMA NoKeyReturnsStep ==
  ASSUME SecretTypes, SecretTypes', FilesKnown, KeysAreNew, NoKeyReturns, NEW c \in Clients, ClientSteps(c),
         KekKept(c), KeysPassOn(c), "overlap" \notin causes', causes \subseteq causes'
  PROVE  NoKeyReturns'
<1> SUFFICES ASSUME "legFailed" \notin causes' PROVE LegsCleared' /\ shredded' \cap Stored' = {}
  BY DEF NoKeyReturns
<1>1. LegsCleared /\ shredded \cap Stored = {} /\ \A d \in Clients \ {c} : proc'[d] = proc[d]
  BY DEF NoKeyReturns, KeysPassOn
<1>2. \A d \in Clients : 0 \notin proc[d].aim
  BY DEF KeysAreNew, SecretTypes
\* A key that is aimed at or shredded is in a leg only if it was there before.
<1>3. ASSUME NEW l \in LegNames, NEW k \in shredded \cup UNION {proc[d].aim : d \in Clients}, leg'[l]["kek"] = k
      PROVE  leg[l]["kek"] = k
  <2>1. k # 0
    <3>1. 0 \notin shredded BY DEF KeysAreNew, SecretTypes
    <3> QED BY <1>2, <3>1
  <2>2. Storing(proc[c]) => k # proc[c].key BY DEF KeysAreNew
  <2> QED BY <1>3, <2>1, <2>2 DEF KekKept
<1>4. ASSUME NEW d \in Clients, NEW i \in 1 .. Len(Legs), proc'[d].call = "destroy", Past(proc'[d], i)
      PROVE  leg'[Legs[i]]["kek"] \notin proc'[d].aim
  <2>1. Legs[i] \in LegNames BY LegFacts
  <2>2. /\ proc[d].call = "destroy" /\ proc'[d].aim = proc[d].aim
        /\ Past(proc[d], i) \/ leg'[Legs[i]]["kek"] = 0
    <3>1. CASE d = c BY <1>4, <3>1, LegIsCleared
    <3>2. CASE d # c BY <1>1, <1>4, <3>2
    <3> QED BY <3>1, <3>2
  <2>3. CASE leg'[Legs[i]]["kek"] = 0 BY <1>2, <2>2, <2>3
  <2>4. CASE Past(proc[d], i)
    <3>1. leg[Legs[i]]["kek"] \notin proc[d].aim BY <1>1, <2>2, <2>4 DEF LegsCleared
    <3> QED BY <1>3, <2>1, <2>2, <3>1
  <2> QED BY <2>2, <2>3, <2>4
\* A destroy that reports success has come past every leg.
<1>5. shredded' = shredded \/ (RemoveEnds(c) /\ shredded' = shredded \cup proc[c].aim)
  <2>1. CASE RemoveEnds(c) BY <2>1 DEF RemoveEnds
  <2>2. CASE ~RemoveEnds(c)
    BY <2>2 DEF ClientSteps, BeginCall, GetHit, GetMiss, NotFound, Seal, SetKeyring, SetReadsFile, SetFails, SetEnds,
                RemoveKeyring, RemoveReadsFile, RemoveFails, WriteFile, TearFile, WriteFails, NoteTime
  <2> QED BY <2>1, <2>2
<1>6. ASSUME NEW k \in shredded', NEW l \in LegNames, leg'[l]["kek"] = k PROVE FALSE
  <2>1. leg[l]["kek"] = k BY <1>3, <1>5, <1>6
  <2>2. k \in Stored
    <3>1. k # 0 BY <1>2, <1>5 DEF KeysAreNew, SecretTypes
    <3> QED BY <2>1, <3>1 DEF Stored
  <2>3. RemoveEnds(c) /\ k \in proc[c].aim BY <1>1, <1>5, <2>2
  <2>4. PICK i \in 1 .. Len(Legs) : l = Legs[i] BY DEF LegNames
  <2>5. ~OnLeg(c) /\ proc[c].step = "remove" BY <2>3 DEF RemoveEnds, At
  <2>6. Past(proc[c], i) BY <2>5, LegFacts DEF Past, OnLeg, SecretTypes, ProcRecords
  <2>7. CASE proc[c].call = "destroy" BY <1>1, <2>1, <2>3, <2>4, <2>6, <2>7 DEF LegsCleared
  <2>8. CASE proc[c].call # "destroy" BY <2>3, <2>8 DEF SecretTypes, StepOfCall
  <2> QED BY <2>7, <2>8
<1>7. shredded' \cap Stored' = {} BY <1>6 DEF Stored
<1> QED BY <1>4, <1>7 DEF LegsCleared

\* Only a destroy takes a key out of the legs that someone holds or has sealed with.
LEMMA NoKeyIsLostStep ==
  ASSUME SecretTypes, SecretTypes', NoKeyIsLost, NEW c \in Clients, KekKept(c), KeysPassOn(c), causes \subseteq causes'
  PROVE  NoKeyIsLost'
<1> SUFFICES ASSUME causes' \cap {"twoKeys", "blind", "torn"} = {}
             PROVE  /\ sealedBy' \subseteq Stored' \cup destroyed'
                    /\ \A d \in Clients : Holding(proc'[d]) => proc'[d].key \in Stored' \cup destroyed'
  BY DEF NoKeyIsLost
<1>1. /\ sealedBy \subseteq Stored \cup destroyed
      /\ \A d \in Clients : Holding(proc[d]) => proc[d].key \in Stored \cup destroyed
  BY DEF NoKeyIsLost
<1>2. Stored \cup destroyed \subseteq Stored' \cup destroyed' BY DEF KekKept
<1>3. sealedBy' \subseteq Stored' \cup destroyed' BY <1>1, <1>2 DEF KeysPassOn
<1>4. ASSUME NEW d \in Clients, Holding(proc'[d]) PROVE proc'[d].key \in Stored' \cup destroyed'
  <2>1. CASE d # c
    <3>1. proc'[d] = proc[d] BY <2>1 DEF KeysPassOn
    <3> QED BY <1>1, <1>2, <1>4, <3>1
  <2>2. CASE d = c
    <3>1. CASE Holding(proc[c]) /\ proc'[c].key = proc[c].key BY <1>1, <1>2, <2>2, <3>1
    <3>2. CASE Storing(proc[c]) /\ proc'[c].key = proc[c].key BY <1>4, <2>2, <3>2 DEF KekKept
    <3>3. CASE proc'[c].key \in Stored BY <1>2, <2>2, <3>3
    <3> QED BY <1>4, <2>2, <3>1, <3>2, <3>3 DEF KeysPassOn
  <2> QED BY <2>1, <2>2
<1> QED BY <1>3, <1>4

\* SecretInv is inductive.
LEMMA SecretStep == SecretInv /\ [SecretNext]_secretVars => SecretInv'
<1> SUFFICES ASSUME SecretInv, [SecretNext]_secretVars PROVE SecretInv'
  OBVIOUS
<1>1. SecretTypes /\ SecretTypes' BY SecretTypesStep DEF SecretInv
<1>2. CASE UNCHANGED secretVars
  BY <1>1, <1>2 DEF secretVars, SecretInv, FilesKnown, FileKnown, BufferRight, KeysAreNew, Stored, NoKeyReturns,
                    LegsCleared, NoKeyIsLost
<1>3. ASSUME NEW c \in Clients, ClientSteps(c) PROVE SecretInv'
  <2>1. causes \subseteq causes'
    BY <1>3 DEF ClientSteps, BeginCall, GetHit, GetMiss, NotFound, Seal, SetKeyring, SetReadsFile, SetFails, SetEnds,
                RemoveKeyring, RemoveReadsFile, RemoveFails, RemoveEnds, WriteFile, TearFile, WriteFails, NoteTime, Blame
  <2> SUFFICES ASSUME "overlap" \notin causes' PROVE (FilesKnown /\ KeysAreNew /\ NoKeyReturns /\ NoKeyIsLost)'
    BY <1>1 DEF SecretInv
  <2>2. FilesKnown /\ KeysAreNew /\ NoKeyReturns /\ NoKeyIsLost BY <2>1 DEF SecretInv
  <2>3. KekKept(c) BY <1>1, <1>3, <2>2, KekStep
  <2>4. KeysPassOn(c) BY <1>1, <1>3, <2>2, KeysPassOnStep
  <2>5. FilesKnown' BY <1>1, <1>3, <2>2, FilesKnownStep
  <2>6. KeysAreNew' BY <1>1, <2>2, <2>3, <2>4, KeysAreNewStep
  <2>7. NoKeyReturns' BY <1>1, <1>3, <2>1, <2>2, <2>3, <2>4, NoKeyReturnsStep
  <2>8. NoKeyIsLost' BY <1>1, <2>1, <2>2, <2>3, <2>4, NoKeyIsLostStep
  <2> QED BY <2>5, <2>6, <2>7, <2>8
<1> QED BY <1>2, <1>3 DEF SecretNext, ClientSteps

\* Legs, caches and processes keep their shapes, and SecretInv holds.
THEOREM SecretInvHolds == SecretSpec => []SecretInv
<1>1. SecretInit => SecretInv
  <2> SUFFICES ASSUME SecretInit PROVE SecretInv
    OBVIOUS
  <2>1. /\ NoEntries \in Secrets /\ NoEntries["kek"] = 0
        /\ Resting \in ProcRecords /\ StepOfCall(Resting) /\ Resting.aim = {} /\ Resting.step = "idle"
        /\ Resting.call = "load" /\ FileLegs \subseteq LegNames
    BY LegFacts DEF NoEntries, Secrets, SecretNames, Resting, ProcRecords, StepOfCall, Calls
  <2>2. SecretTypes BY <2>1 DEF SecretInit, SecretTypes
  <2>3. Stored = {} BY <2>1 DEF SecretInit, Stored
  <2>4. FilesKnown BY <2>1 DEF SecretInit, FilesKnown, FileKnown
  <2>5. KeysAreNew BY <2>1, <2>3 DEF SecretInit, KeysAreNew, Storing
  <2>6. NoKeyReturns /\ NoKeyIsLost
    BY <2>1, <2>3 DEF SecretInit, NoKeyReturns, LegsCleared, NoKeyIsLost, Holding
  <2> QED BY <2>2, <2>4, <2>5, <2>6 DEF SecretInv
<1> QED BY <1>1, SecretStep, PTL DEF SecretSpec

\* A key that has sealed a contribution is in some durable leg until a destroy takes it out
\* (ChainedSecretStore::set and remove, the file backend's read-modify-write), unless two
\* processes overlapped on the file, a map was unreadable, a write was torn, or a second
\* key was made while the first could not be seen.
THEOREM SealedStaysReadableAlways == SecretSpec => []SealedStaysReadable
<1>1. SecretInv => SealedStaysReadable BY DEF SecretInv, NoKeyIsLost, SealedStaysReadable
<1> QED BY <1>1, SecretInvHolds, PTL

\* After a destroy that has reported success (remove on every leg of the chain) no leg holds
\* a key that was stored when it began, unless a leg failed or processes overlapped on the
\* file.
THEOREM ShredTakesEffectAlways == SecretSpec => []ShredTakesEffect
<1>1. SecretInv => ShredTakesEffect BY DEF SecretInv, NoKeyReturns, ShredTakesEffect
<1> QED BY <1>1, SecretInvHolds, PTL

-----------------------------------------------------------------------------
(* Consent and the key.  The key in the store is the last one made, and    *)
(* younger than the last withdrawal; whoever has loaded a key holds one    *)
(* that was younger than the withdrawals before its request, and, once the *)
(* consent has been read, one that is not in the store any more if that    *)
(* consent has been withdrawn since.                                       *)

ConsentEvents == [event : {"optin", "optout"}, tier : {"anonymous", "brand"}]
ConsentCalls == {"optin", "optinBrand", "optout", "optoutBrand", "shred"}
FullOptouts == {"optout", "shred"}

RequestRecords ==
  [kind : {"anonymous", "identified"}, at : Nat, key : Nat, readAt : Nat, priorKeks : Nat]
CommandRecords == [call : ConsentCalls, at : Nat, row : Nat]
SealRecords == [key : Nat, readAt : Nat, priorKeks : Nat]
NamedRecords == [key : Nat, linked : BOOLEAN, priorKeks : Nat]

ConsentTypes ==
  /\ consent \in Seq(ConsentEvents)
  /\ kek \in Nat /\ keksMade \in Nat
  /\ request \in [Requests -> RequestRecords]
  /\ command \in [Commands -> CommandRecords]
  /\ outbox \subseteq SealRecords /\ named \subseteq NamedRecords
  /\ withdrawn \in [rows : SUBSET Nat, keks : Nat]

\* The key in the store, if any, is the newest, and made since the last withdrawal.
KekIsNewest ==
  /\ withdrawn.keks <= keksMade
  /\ kek # 0 => kek = keksMade /\ withdrawn.keks < kek

\* The opt-out rows that commands refer to have been appended.
OptoutRowsExist ==
  /\ \A i \in withdrawn.rows : i <= Len(consent)
  /\ \A c \in Commands : command[c].call \in FullOptouts /\ command[c].at > 1 => command[c].row <= Len(consent)

\* The key k, loaded on behalf of a request that began when prior keys had been made.
LoadedSince(k, prior) == prior < k /\ k <= keksMade

\* What readAt events of the consent allowed to seal under k does not outlive its withdrawal.
DeadIfWithdrawn(k, readAt) == \A i \in withdrawn.rows : readAt < i => k # kek

RequestHolds(q) ==
  /\ q.priorKeks <= withdrawn.keks
  /\ q.at > 1 => LoadedSince(q.key, q.priorKeks)
  /\ q.kind = "anonymous" /\ q.at > 2 => DeadIfWithdrawn(q.key, q.readAt)

SealHolds(row) == LoadedSince(row.key, row.priorKeks) /\ DeadIfWithdrawn(row.key, row.readAt)

ContributionsHold ==
  /\ \A r \in Requests : RequestHolds(request[r])
  /\ \A row \in outbox : SealHolds(row)
  /\ \A row \in named : LoadedSince(row.key, row.priorKeks)

ConsentInv == ConsentTypes /\ KekIsNewest /\ OptoutRowsExist /\ ContributionsHold

-----------------------------------------------------------------------------
\* Which command, and how far it has come, by the step it is about to take.
LEMMA CommandOnStep ==
  ASSUME NEW c \in Commands, NEW s, ConsentTypes, Doing(c, s)
  PROVE  /\ command[c].at \in 1 .. 4
         /\ s = "optout" => command[c].call \in FullOptouts /\ command[c].at = 1
         /\ s = "readBrand" => command[c].call = "optout" /\ command[c].at = 2
         /\ s = "destroy" => /\ command[c].call \in FullOptouts
                             /\ command[c].at > 1
                             /\ command[c].at = Len(CommandSteps[command[c].call])
         /\ s # "optout" /\ command[c].call \in FullOptouts => command[c].at > 1
         /\ s # "destroy" /\ command[c].call \in FullOptouts =>
              /\ command[c].at + 1 <= Len(CommandSteps[command[c].call])
              /\ s = "readBrand" => command[c].at + 2 <= Len(CommandSteps[command[c].call])
<1> DEFINE call == command[c].call
           at == command[c].at
<1>1. call \in ConsentCalls /\ at \in Nat
  BY DEF ConsentTypes, CommandRecords
<1>2. at \in DOMAIN CommandSteps[call] /\ CommandSteps[call][at] = s
  BY DEF Doing
<1> HIDE DEF call, at
<1>3. CASE call = "optin" BY <1>1, <1>2, <1>3 DEF CommandSteps, FullOptouts, call, at
<1>4. CASE call = "optinBrand" BY <1>1, <1>2, <1>4 DEF CommandSteps, FullOptouts, call, at
<1>5. CASE call = "optout" BY <1>1, <1>2, <1>5 DEF CommandSteps, FullOptouts, call, at
<1>6. CASE call = "optoutBrand" BY <1>1, <1>2, <1>6 DEF CommandSteps, FullOptouts, call, at
<1>7. CASE call = "shred" BY <1>1, <1>2, <1>7 DEF CommandSteps, FullOptouts, call, at
<1> QED BY <1>1, <1>3, <1>4, <1>5, <1>6, <1>7 DEF ConsentCalls

\* A command that goes on leaves the withdrawals alone, unless it has destroyed the key.
LEMMA OnwardQuiet ==
  ASSUME NEW c \in Commands, NEW s, ConsentTypes, Doing(c, s), s # "destroy",
         NEW n \in {1, 2}, n = 2 => s = "readBrand", NEW row \in Nat, Onward(c, n, row)
  PROVE  withdrawn' = withdrawn
<1>1. command[c].call \in FullOptouts => command[c].at + n <= Len(CommandSteps[command[c].call])
  BY CommandOnStep
<1>2. command[c].call \in FullOptouts => Len(CommandSteps[command[c].call]) \in Nat
  BY DEF FullOptouts, CommandSteps
<1> QED BY <1>1, <1>2 DEF Onward, FullOptouts, ConsentTypes, CommandRecords

\* The row of a command that goes on is the one it is given.
LEMMA OnwardCommands ==
  ASSUME NEW c \in Commands, ConsentTypes, NEW n \in {1, 2}, NEW row \in Nat, Onward(c, n, row),
         OptoutRowsExist, Len(consent') \in Nat, Len(consent) <= Len(consent'),
         command[c].call \in FullOptouts => row <= Len(consent')
  PROVE  /\ command' \in [Commands -> CommandRecords]
         /\ \A d \in Commands :
              command'[d].call \in FullOptouts /\ command'[d].at > 1 => command'[d].row <= Len(consent')
<1> DEFINE ends == command[c].at + n > Len(CommandSteps[command[c].call])
           next == command[c].at + n
<1>1. NoCommand \in CommandRecords /\ NoCommand.at = 0
  BY DEF NoCommand, ConsentCalls, CommandRecords
<1>2. command' = [command EXCEPT ![c] = IF ends THEN NoCommand
                                         ELSE [call |-> @.call, at |-> next, row |-> row]]
  BY DEF Onward
<1>3. command \in [Commands -> CommandRecords] /\ next \in Nat
  BY DEF ConsentTypes, CommandRecords
<1> HIDE DEF ends, next
<1>4. ASSUME NEW d \in Commands, command'[d].call \in FullOptouts, command'[d].at > 1
      PROVE  command'[d].row <= Len(consent')
  <2>1. CASE d # c BY <1>2, <1>3, <1>4, <2>1 DEF OptoutRowsExist, ConsentTypes, CommandRecords
  <2>2. CASE d = c BY <1>1, <1>2, <1>3, <1>4, <2>2 DEF CommandRecords
  <2> QED BY <2>1, <2>2
<1>5. command' \in [Commands -> CommandRecords]
  BY <1>1, <1>2, <1>3 DEF CommandRecords
<1> QED BY <1>4, <1>5

\* A request takes a step, and may leave a contribution.
LEMMA RequestStep ==
  ASSUME ConsentInv, NEW r \in Requests, NEW q \in RequestRecords, RequestHolds(q),
         request' = [request EXCEPT ![r] = q],
         outbox' \subseteq SealRecords, \A row \in outbox' : SealHolds(row),
         named' \subseteq NamedRecords, \A row \in named' : LoadedSince(row.key, row.priorKeks),
         UNCHANGED <<consent, kek, keksMade, command, withdrawn>>
  PROVE  ConsentInv'
<1> USE DEF ConsentInv
<1>1. ConsentTypes' BY DEF ConsentTypes
<1>2. KekIsNewest' /\ OptoutRowsExist' BY DEF KekIsNewest, OptoutRowsExist
<1>3. \A p \in Requests : RequestHolds(request'[p])
  BY DEF ContributionsHold, ConsentTypes
<1>4. ContributionsHold'
  BY <1>3 DEF ContributionsHold, RequestHolds, SealHolds, LoadedSince, DeadIfWithdrawn
<1> QED BY <1>1, <1>2, <1>4

\* A command takes a step, short of the destruction of the key.
LEMMA CommandStep ==
  ASSUME ConsentInv, NEW c \in Commands, NEW s, Doing(c, s), s # "destroy",
         NEW n \in {1, 2}, n = 2 => s = "readBrand", NEW row \in Nat, Onward(c, n, row),
         consent' \in Seq(ConsentEvents), Len(consent) <= Len(consent'),
         command[c].call \in FullOptouts => row <= Len(consent'),
         UNCHANGED <<kek, keksMade, request, outbox, named>>
  PROVE  ConsentInv'
<1> USE DEF ConsentInv
<1>1. withdrawn' = withdrawn BY OnwardQuiet
<1>2. Len(consent) \in Nat /\ Len(consent') \in Nat BY DEF ConsentTypes
<1>3. ConsentTypes' BY <1>1, <1>2, OnwardCommands DEF ConsentTypes
<1>4. KekIsNewest' BY <1>1 DEF KekIsNewest
<1>5. OptoutRowsExist'
  <2>1. \A i \in withdrawn'.rows : i <= Len(consent')
    BY <1>1, <1>2 DEF OptoutRowsExist, ConsentTypes
  <2> QED BY <1>2, <2>1, OnwardCommands DEF OptoutRowsExist
<1>6. ContributionsHold'
  BY <1>1 DEF ContributionsHold, RequestHolds, SealHolds, LoadedSince, DeadIfWithdrawn
<1> QED BY <1>3, <1>4, <1>5, <1>6

\* The key goes or is replaced by a newer one, and what is withdrawn may grow with it:
\* what was sealed or loaded before is not under the key in the store any more.
LEMMA KekChanges ==
  ASSUME ConsentInv, kek' \in Nat, keksMade' \in Nat, withdrawn' \in [rows : SUBSET Nat, keks : Nat],
         keksMade <= keksMade', withdrawn.keks <= withdrawn'.keks, KekIsNewest',
         kek' = 0 \/ kek' > keksMade \/ (kek' = kek /\ withdrawn' = withdrawn),
         UNCHANGED <<request, outbox, named>>
  PROVE  ContributionsHold'
<1> USE DEF ConsentInv, ConsentTypes
<1>1. ASSUME NEW k \in Nat, NEW prior \in Nat, LoadedSince(k, prior) PROVE LoadedSince(k, prior)'
  BY <1>1 DEF LoadedSince
<1>2. ASSUME NEW k \in Nat, NEW prior \in Nat, NEW readAt \in Nat, LoadedSince(k, prior), DeadIfWithdrawn(k, readAt)
      PROVE  DeadIfWithdrawn(k, readAt)'
  BY <1>2 DEF LoadedSince, DeadIfWithdrawn
<1>3. ASSUME NEW r \in Requests PROVE RequestHolds(request[r])'
  <2>1. request[r] \in RequestRecords /\ RequestHolds(request[r]) /\ request'[r] = request[r]
    BY DEF ContributionsHold
  <2> QED BY <1>1, <1>2, <2>1 DEF RequestHolds, RequestRecords
<1>4. ASSUME NEW row \in outbox' PROVE SealHolds(row)'
  <2>1. row \in SealRecords /\ SealHolds(row) BY <1>4 DEF ContributionsHold
  <2> QED BY <1>1, <1>2, <2>1 DEF SealHolds, SealRecords
<1>5. ASSUME NEW row \in named' PROVE LoadedSince(row.key, row.priorKeks)'
  <2>1. row \in NamedRecords /\ LoadedSince(row.key, row.priorKeks) BY <1>5 DEF ContributionsHold
  <2> QED BY <1>1, <2>1 DEF NamedRecords
<1> QED BY <1>3, <1>4, <1>5 DEF ContributionsHold

\* A request comes in, goes on, answers or fails.
LEMMA RequestsKeepInv ==
  ASSUME ConsentInv, NEW r \in Requests,
         \/ \E kind \in DOMAIN RequestSteps : ReceiveRequest(r, kind)
         \/ LoadKek(r) \/ ReadConsent(r) \/ StoreSealed(r) \/ OpenSeal(r)
         \/ ResolveToken(r) \/ ReadClaim(r) \/ InsertIdentified(r) \/ RequestFails(r)
  PROVE  ConsentInv'
<1> DEFINE q == request[r]
<1>1. /\ q \in RequestRecords /\ RequestHolds(q)
      /\ consent \in Seq(ConsentEvents) /\ Len(consent) \in Nat
      /\ kek \in Nat /\ keksMade \in Nat /\ withdrawn.keks \in Nat /\ withdrawn.rows \subseteq Nat
      /\ outbox \subseteq SealRecords /\ \A row \in outbox : SealHolds(row)
      /\ named \subseteq NamedRecords /\ \A row \in named : LoadedSince(row.key, row.priorKeks)
  BY DEF ConsentInv, ConsentTypes, ContributionsHold
<1>2. NoRequest \in RequestRecords /\ RequestHolds(NoRequest)
  BY <1>1 DEF NoRequest, RequestRecords, RequestHolds
<1>3. ASSUME Replied(r), UNCHANGED <<consent, kek, keksMade, command, withdrawn, outbox, named>>
      PROVE  ConsentInv'
  BY <1>1, <1>2, <1>3, RequestStep DEF Replied
<1>4. ASSUME NEW rec \in RequestRecords, Further(r, rec), rec.at = q.at, RequestHolds([rec EXCEPT !.at = @ + 1]),
             UNCHANGED <<consent, kek, keksMade, command, withdrawn, outbox, named>>
      PROVE  ConsentInv'
  <2>1. [rec EXCEPT !.at = @ + 1] \in RequestRecords BY <1>4 DEF RequestRecords
  <2> QED BY <1>1, <1>4, <2>1, RequestStep DEF Further
<1>5. ASSUME NEW kind \in DOMAIN RequestSteps, ReceiveRequest(r, kind) PROVE ConsentInv'
  <2> DEFINE new == [NoRequest EXCEPT !.kind = kind, !.priorKeks = withdrawn.keks]
  <2>1. kind \in {"anonymous", "identified"} BY DEF RequestSteps
  <2>2. new \in RequestRecords /\ new.at = 0 /\ new.priorKeks = withdrawn.keks
    BY <1>1, <2>1 DEF NoRequest, RequestRecords
  <2>3. new \in RequestRecords /\ RequestHolds([new EXCEPT !.at = @ + 1])
    BY <1>1, <2>1, <2>2 DEF RequestRecords, RequestHolds
  <2>4. q.at = 0 /\ new.at = 0 BY <1>5, <2>2 DEF ReceiveRequest
  <2> QED BY <1>4, <1>5, <2>3, <2>4 DEF ReceiveRequest
\* What a request does on its way, by its kind.
<1>6. ASSUME NEW s, OnStep(r, s)
      PROVE  /\ q.at >= 1
             /\ s = "key" => q.at = 1
             /\ s = "consent" => q.kind = "anonymous" /\ q.at = 2
             /\ s = "store" => q.kind = "anonymous" /\ q.at = 3
             /\ s \in {"open", "resolve", "claim", "insert"} => q.kind = "identified" /\ q.at > 1
  <2>1. q.kind \in {"anonymous", "identified"} /\ q.at \in Nat BY <1>1 DEF RequestRecords
  <2>2. CASE q.kind = "anonymous" BY <1>6, <2>1, <2>2 DEF OnStep, RequestSteps
  <2>3. CASE q.kind = "identified" BY <1>6, <2>1, <2>3 DEF OnStep, RequestSteps
  <2> QED BY <2>1, <2>2, <2>3
\* The key of a request is young enough, now that it is loaded.
<1>7. CASE LoadKek(r)
  <2>1. CASE kek = 0 BY <1>3, <1>7, <2>1 DEF LoadKek
  <2>2. CASE kek # 0
    <3> DEFINE new == [q EXCEPT !.key = kek]
    <3>1. new \in RequestRecords /\ new.at = q.at BY <1>1 DEF RequestRecords
    <3>2. q.at = 1 BY <1>6, <1>7 DEF LoadKek
    <3>3. LoadedSince(kek, q.priorKeks)
      BY <1>1, <2>2 DEF ConsentInv, KekIsNewest, LoadedSince, RequestHolds, RequestRecords
    <3>4. RequestHolds([new EXCEPT !.at = @ + 1])
      BY <1>1, <3>2, <3>3 DEF RequestHolds, RequestRecords
    <3> QED BY <1>4, <1>7, <2>2, <3>1, <3>4 DEF LoadKek
  <2> QED BY <2>1, <2>2
\* All withdrawals so far are in what it has read.
<1>8. CASE ReadConsent(r)
  <2>1. CASE ~TierActive("anonymous") BY <1>3, <1>8, <2>1 DEF ReadConsent
  <2>2. CASE TierActive("anonymous")
    <3> DEFINE new == [q EXCEPT !.readAt = Len(consent)]
    <3>1. new \in RequestRecords /\ new.at = q.at BY <1>1 DEF RequestRecords
    <3>2. q.at = 2 BY <1>6, <1>8 DEF ReadConsent
    <3>3. DeadIfWithdrawn(q.key, Len(consent))
      BY <1>1 DEF ConsentInv, OptoutRowsExist, DeadIfWithdrawn
    <3>4. RequestHolds([new EXCEPT !.at = @ + 1])
      BY <1>1, <3>2, <3>3 DEF RequestHolds, RequestRecords
    <3> QED BY <1>4, <1>8, <2>2, <3>1, <3>4 DEF ReadConsent
  <2> QED BY <2>1, <2>2
<1>9. CASE StoreSealed(r)
  <2> DEFINE row == [key |-> q.key, readAt |-> q.readAt, priorKeks |-> q.priorKeks]
  <2>1. row \in SealRecords BY <1>1 DEF RequestRecords, SealRecords
  <2>2. SealHolds(row) BY <1>1, <1>6, <1>9 DEF StoreSealed, RequestHolds, SealHolds
  <2>3. outbox' = outbox \cup {row} BY <1>9 DEF StoreSealed
  <2>4. outbox' \subseteq SealRecords /\ \A w \in outbox' : SealHolds(w) BY <1>1, <2>1, <2>2, <2>3
  <2> QED BY <1>1, <1>2, <1>9, <2>4, RequestStep DEF StoreSealed, Replied
<1>10. CASE InsertIdentified(r)
  <2> DEFINE row == [key |-> q.key, linked |-> TRUE, priorKeks |-> q.priorKeks]
  <2>1. row \in NamedRecords BY <1>1 DEF RequestRecords, NamedRecords
  <2>2. LoadedSince(row.key, row.priorKeks) BY <1>1, <1>6, <1>10 DEF InsertIdentified, RequestHolds
  <2>3. named' = named \cup {row} \/ named' = named BY <1>10 DEF InsertIdentified
  <2>4. named' \subseteq NamedRecords /\ \A w \in named' : LoadedSince(w.key, w.priorKeks)
    BY <1>1, <2>1, <2>2, <2>3
  <2> QED BY <1>1, <1>2, <1>10, <2>4, RequestStep DEF InsertIdentified, Replied
<1>11. CASE OpenSeal(r) \/ ResolveToken(r) \/ ReadClaim(r)
  <2>1. q.kind = "identified" /\ q.at > 1 BY <1>6, <1>11 DEF OpenSeal, ResolveToken, ReadClaim
  <2>2. RequestHolds([q EXCEPT !.at = @ + 1]) BY <1>1, <2>1 DEF RequestHolds, RequestRecords
  <2>3. Further(r, q) \/ Replied(r) BY <1>11 DEF OpenSeal, ResolveToken, ReadClaim
  <2>4. UNCHANGED <<consent, kek, keksMade, command, withdrawn, outbox, named>>
    BY <1>11 DEF OpenSeal, ResolveToken, ReadClaim
  <2> QED BY <1>1, <1>3, <1>4, <2>2, <2>3, <2>4
<1>12. CASE RequestFails(r) BY <1>3, <1>12 DEF RequestFails
<1> QED BY <1>5, <1>7, <1>8, <1>9, <1>10, <1>11, <1>12

\* A command is invoked, takes a step or fails.
LEMMA CommandsKeepInv ==
  ASSUME ConsentInv, NEW c \in Commands,
         \/ \E what \in DOMAIN CommandSteps : InvokeCommand(c, what)
         \/ CommandFails(c) \/ RecordOptin(c) \/ CheckForBrand(c) \/ RecordOptout(c)
         \/ ReadBrandTier(c) \/ RecordBrandOptout(c) \/ DestroyKek(c)
  PROVE  ConsentInv'
<1>1. /\ ConsentTypes /\ OptoutRowsExist
      /\ consent \in Seq(ConsentEvents) /\ Len(consent) \in Nat
      /\ command[c] \in CommandRecords /\ command[c].row \in Nat
  BY DEF ConsentInv, ConsentTypes, CommandRecords
\* A command that is only begun or given up refers to no row.
<1>2. ASSUME NEW new \in CommandRecords, new.at <= 1, command' = [command EXCEPT ![c] = new],
             UNCHANGED <<consent, kek, keksMade, request, outbox, named, withdrawn>>
      PROVE  ConsentInv'
  <2>1. ConsentTypes' BY <1>2 DEF ConsentInv, ConsentTypes
  <2>2. KekIsNewest' BY <1>2 DEF ConsentInv, KekIsNewest
  <2>3. OptoutRowsExist' BY <1>1, <1>2 DEF OptoutRowsExist, ConsentTypes, CommandRecords
  <2>4. ContributionsHold'
    BY <1>2 DEF ConsentInv, ContributionsHold, RequestHolds, SealHolds, LoadedSince, DeadIfWithdrawn
  <2> QED BY <2>1, <2>2, <2>3, <2>4 DEF ConsentInv
<1>3. CASE \E what \in DOMAIN CommandSteps : InvokeCommand(c, what)
  <2>1. PICK what \in DOMAIN CommandSteps : InvokeCommand(c, what) BY <1>3
  <2> DEFINE new == [NoCommand EXCEPT !.call = what, !.at = 1]
  <2>2. what \in ConsentCalls BY DEF CommandSteps, ConsentCalls
  <2>3. new \in CommandRecords /\ new.at = 1 BY <2>2 DEF NoCommand, CommandRecords
  <2>4. new.at <= 1 BY <2>3
  <2>5. /\ command' = [command EXCEPT ![c] = new]
        /\ UNCHANGED <<consent, kek, keksMade, request, outbox, named, withdrawn>>
    BY <2>1 DEF InvokeCommand
  <2> HIDE DEF new
  <2> QED BY <1>2, <2>3, <2>4, <2>5
<1>4. CASE CommandFails(c)
  <2>1. NoCommand \in CommandRecords /\ NoCommand.at <= 1 BY DEF NoCommand, CommandRecords, ConsentCalls
  <2> QED BY <1>2, <1>4, <2>1 DEF CommandFails
\* Events are appended, and what has been said of the rows before stays true.
<1>5. ASSUME NEW event \in {"optin", "optout"}, NEW tier \in {"anonymous", "brand"}, AppendConsent(event, tier)
      PROVE  consent' \in Seq(ConsentEvents) /\ Len(consent') = Len(consent) + 1
  BY <1>1, <1>5 DEF AppendConsent, ConsentEvents
<1>6. CASE RecordOptin(c)
  <2>1. PICK s \in {"optin", "optinBrand"}, tier \in {"anonymous", "brand"} : Doing(c, s) /\ AppendConsent("optin", tier)
    BY <1>6 DEF RecordOptin
  <2>2. consent' \in Seq(ConsentEvents) /\ Len(consent') = Len(consent) + 1 BY <1>5, <2>1
  <2>3. s # "destroy" /\ Onward(c, 1, 0) /\ UNCHANGED <<kek, keksMade, request, outbox, named>>
    BY <1>6 DEF RecordOptin
  <2>4. Len(consent) <= Len(consent') /\ 0 <= Len(consent') BY <1>1, <2>2
  <2> QED BY <2>1, <2>2, <2>3, <2>4, CommandStep
<1>7. CASE CheckForBrand(c)
  <2>1. PICK s \in {"checkAnonymous", "checkClaim"} : Doing(c, s) BY <1>7 DEF CheckForBrand
  <2>2. Onward(c, 1, 0) /\ UNCHANGED <<consent, kek, keksMade, request, outbox, named>> BY <1>7 DEF CheckForBrand
  <2>3. consent' \in Seq(ConsentEvents) /\ Len(consent) <= Len(consent') /\ 0 <= Len(consent') BY <1>1, <2>2
  <2> QED BY <2>1, <2>2, <2>3, CommandStep
<1>8. CASE RecordOptout(c)
  <2>1. consent' \in Seq(ConsentEvents) /\ Len(consent') = Len(consent) + 1 BY <1>5, <1>8 DEF RecordOptout
  <2>2. /\ Doing(c, "optout") /\ Onward(c, 1, Len(consent) + 1)
        /\ UNCHANGED <<kek, keksMade, request, outbox, named>>
    BY <1>8 DEF RecordOptout
  <2>3. Len(consent) <= Len(consent') /\ Len(consent) + 1 <= Len(consent') /\ Len(consent) + 1 \in Nat BY <1>1, <2>1
  <2> QED BY <2>1, <2>2, <2>3, CommandStep
\* What is left of a full opt-out refers to the row appended before.
<1>9. CASE ReadBrandTier(c)
  <2>1. PICK n \in {1, 2} : Onward(c, n, command[c].row) BY <1>9 DEF ReadBrandTier
  <2>2. Doing(c, "readBrand") /\ UNCHANGED <<consent, kek, keksMade, request, outbox, named>>
    BY <1>9 DEF ReadBrandTier
  <2>3. consent' \in Seq(ConsentEvents) /\ Len(consent) <= Len(consent') BY <1>1, <2>2
  <2>4. command[c].call \in FullOptouts => command[c].row <= Len(consent')
    BY <1>1, <2>2, CommandOnStep DEF OptoutRowsExist
  <2> QED BY <1>1, <2>1, <2>2, <2>3, <2>4, CommandStep
<1>10. CASE RecordBrandOptout(c)
  <2>1. consent' \in Seq(ConsentEvents) /\ Len(consent') = Len(consent) + 1 BY <1>5, <1>10 DEF RecordBrandOptout
  <2>2. /\ Doing(c, "optoutBrand") /\ Onward(c, 1, command[c].row)
        /\ UNCHANGED <<kek, keksMade, request, outbox, named>>
    BY <1>10 DEF RecordBrandOptout
  <2>3. Len(consent) <= Len(consent') BY <1>1, <2>1
  <2>4. command[c].call \in FullOptouts => command[c].row <= Len(consent)
    BY <1>1, <2>2, CommandOnStep DEF OptoutRowsExist
  <2>5. command[c].call \in FullOptouts => command[c].row <= Len(consent') BY <1>1, <2>1, <2>4
  <2> QED BY <1>1, <2>1, <2>2, <2>3, <2>5, CommandStep
\* The key goes before success is reported.
<1>11. CASE DestroyKek(c)
  <2>1. /\ Doing(c, "destroy") /\ kek' = 0 /\ Onward(c, 1, command[c].row)
        /\ UNCHANGED <<consent, keksMade, request, outbox, named>>
    BY <1>11 DEF DestroyKek
  <2>2. /\ command[c].call \in FullOptouts /\ command[c].at > 1
        /\ command[c].row <= Len(consent)
    BY <1>1, <2>1, CommandOnStep DEF OptoutRowsExist
  <2>3. \/ withdrawn' = withdrawn
        \/ withdrawn' = [rows |-> withdrawn.rows \cup {command[c].row}, keks |-> keksMade]
    BY <2>1 DEF Onward
  <2>4. /\ withdrawn' \in [rows : SUBSET Nat, keks : Nat]
        /\ withdrawn.keks <= withdrawn'.keks /\ withdrawn'.keks <= keksMade
        /\ \A i \in withdrawn'.rows : i <= Len(consent')
    <3>1. /\ withdrawn \in [rows : SUBSET Nat, keks : Nat] /\ keksMade \in Nat /\ withdrawn.keks <= keksMade
          /\ \A i \in withdrawn.rows : i <= Len(consent)
      BY DEF ConsentInv, ConsentTypes, KekIsNewest, OptoutRowsExist
    <3> QED BY <1>1, <2>1, <2>2, <2>3, <3>1
  <2>5. KekIsNewest' BY <2>1, <2>4 DEF KekIsNewest
  <2>6. /\ command' \in [Commands -> CommandRecords]
        /\ \A d \in Commands :
             command'[d].call \in FullOptouts /\ command'[d].at > 1 => command'[d].row <= Len(consent')
    <3>1. consent' = consent /\ Len(consent') \in Nat BY <1>1, <2>1
    <3> QED BY <1>1, <2>1, <2>2, <3>1, OnwardCommands
  <2>7. OptoutRowsExist' BY <2>4, <2>6 DEF OptoutRowsExist
  <2>8. ConsentTypes' BY <2>1, <2>4, <2>6 DEF ConsentInv, ConsentTypes
  <2>9. ContributionsHold' 
    <3>1. kek' \in Nat /\ keksMade' \in Nat /\ keksMade <= keksMade' BY <2>1 DEF ConsentInv, ConsentTypes
    <3> QED BY <2>1, <2>4, <2>5, <3>1, KekChanges
  <2> QED BY <2>5, <2>7, <2>8, <2>9 DEF ConsentInv
<1> QED BY <1>3, <1>4, <1>6, <1>7, <1>8, <1>9, <1>10, <1>11

\* ConsentInv is inductive.
LEMMA ConsentStep == ConsentInv /\ [ConsentNext]_consentVars => ConsentInv'
<1> SUFFICES ASSUME ConsentInv, [ConsentNext]_consentVars PROVE ConsentInv'
  OBVIOUS
<1>1. ASSUME kek' \in Nat, keksMade' \in Nat, keksMade <= keksMade', KekIsNewest',
             kek' = 0 \/ kek' > keksMade \/ kek' = kek, outbox' = outbox,
             named' \subseteq NamedRecords, \A row \in named' : LoadedSince(row.key, row.priorKeks),
             keksMade' # keksMade => named' = named,
             UNCHANGED <<consent, request, command, withdrawn>>
      PROVE  ConsentInv'
  <2>1. ConsentTypes' BY <1>1 DEF ConsentInv, ConsentTypes
  <2>2. OptoutRowsExist' BY <1>1 DEF ConsentInv, OptoutRowsExist
  <2>3. ContributionsHold'
    <3>1. CASE named' = named
      <4>1. withdrawn \in [rows : SUBSET Nat, keks : Nat] /\ withdrawn.keks <= withdrawn'.keks
        BY <1>1 DEF ConsentInv, ConsentTypes
      <4> QED BY <1>1, <3>1, <4>1, KekChanges
    <3>2. CASE keksMade' = keksMade
      <4>1. \A row \in named' : LoadedSince(row.key, row.priorKeks)' BY <1>1, <3>2 DEF LoadedSince
      <4>2. \A r \in Requests : RequestHolds(request[r])'
        BY <1>1, <3>2 DEF ConsentInv, ContributionsHold, ConsentTypes, RequestRecords, RequestHolds,
                          LoadedSince, DeadIfWithdrawn
      <4>3. \A row \in outbox' : SealHolds(row)'
        BY <1>1, <3>2 DEF ConsentInv, ContributionsHold, ConsentTypes, SealRecords, SealHolds,
                          LoadedSince, DeadIfWithdrawn
      <4> QED BY <4>1, <4>2, <4>3 DEF ContributionsHold
    <3> QED BY <1>1, <3>1, <3>2
  <2> QED BY <1>1, <2>1, <2>2, <2>3 DEF ConsentInv
<1>2. /\ kek \in Nat /\ keksMade \in Nat /\ withdrawn.keks \in Nat /\ withdrawn.keks <= keksMade
      /\ KekIsNewest /\ named \subseteq NamedRecords
      /\ \A row \in named : LoadedSince(row.key, row.priorKeks)
  BY DEF ConsentInv, ConsentTypes, KekIsNewest, ContributionsHold
<1>3. CASE MintKek
  <2>1. KekIsNewest' BY <1>2, <1>3 DEF MintKek, KekIsNewest
  <2> QED BY <1>1, <1>2, <1>3, <2>1 DEF MintKek
<1>4. CASE EraseKek
  <2>1. KekIsNewest' BY <1>2, <1>4 DEF EraseKek, KekIsNewest
  <2> QED BY <1>1, <1>2, <1>4, <2>1 DEF EraseKek
<1>5. CASE EraseDomain
  <2>1. KekIsNewest' BY <1>2, <1>5 DEF EraseDomain, KekIsNewest
  <2>2. ASSUME NEW w \in named'
        PROVE  w \in NamedRecords /\ LoadedSince(w.key, w.priorKeks)
    <3>1. PICK row \in named : w = [row EXCEPT !.linked = FALSE] BY <1>5 DEF EraseDomain
    <3>2. row \in NamedRecords /\ LoadedSince(row.key, row.priorKeks) BY <1>2
    <3> QED BY <3>1, <3>2 DEF NamedRecords
  <2> QED BY <1>1, <1>2, <1>5, <2>1, <2>2 DEF EraseDomain
<1>6. CASE MapDomain \/ ClaimChanges \/ OthersContribute \/ UNCHANGED consentVars
  <2>1. UNCHANGED <<consent, kek, keksMade, request, command, outbox, named, withdrawn>>
    BY <1>6 DEF MapDomain, ClaimChanges, OthersContribute, consentVars
  <2>2. KekIsNewest' BY <1>2, <2>1 DEF KekIsNewest
  <2> QED BY <1>1, <1>2, <2>1, <2>2
<1>7. CASE \E c \in Commands :
             \/ \E what \in DOMAIN CommandSteps : InvokeCommand(c, what)
             \/ CommandFails(c) \/ RecordOptin(c) \/ CheckForBrand(c) \/ RecordOptout(c)
             \/ ReadBrandTier(c) \/ RecordBrandOptout(c) \/ DestroyKek(c)
  BY <1>7, CommandsKeepInv
<1>8. CASE \E r \in Requests :
             \/ \E kind \in DOMAIN RequestSteps : ReceiveRequest(r, kind)
             \/ LoadKek(r) \/ ReadConsent(r) \/ StoreSealed(r) \/ OpenSeal(r)
             \/ ResolveToken(r) \/ ReadClaim(r) \/ InsertIdentified(r) \/ RequestFails(r)
  BY <1>8, RequestsKeepInv
<1> QED BY <1>3, <1>4, <1>5, <1>6, <1>7, <1>8 DEF ConsentNext

\* Commands, requests, keys and contributions keep their shapes, and ConsentInv holds.
THEOREM ConsentInvHolds == ConsentSpec => []ConsentInv
<1>1. ConsentInit => ConsentInv
  <2> SUFFICES ASSUME ConsentInit PROVE ConsentInv
    OBVIOUS
  <2>1. NoRequest \in RequestRecords /\ NoRequest.at = 0 /\ NoRequest.priorKeks = 0
    BY DEF NoRequest, RequestRecords
  <2>2. NoCommand \in CommandRecords /\ NoCommand.at = 0
    BY DEF NoCommand, CommandRecords, ConsentCalls
  <2>3. ConsentTypes BY <2>1, <2>2 DEF ConsentInit, ConsentTypes
  <2>4. KekIsNewest /\ OptoutRowsExist BY <2>2 DEF ConsentInit, KekIsNewest, OptoutRowsExist
  <2>5. ContributionsHold BY <2>1 DEF ConsentInit, ContributionsHold, RequestHolds
  <2> QED BY <2>3, <2>4, <2>5 DEF ConsentInv
<1> QED BY <1>1, ConsentStep, PTL DEF ConsentSpec

\* Once a full opt-out has reported success (the opt-out row, then the shredding of the key),
\* no contribution allowed by the consent before it can be opened with the key in the
\* store, and what begins later is sealed under a younger key.
THEOREM OptOutHoldsAlways == ConsentSpec => []OptOutHolds
<1>1. ConsentInv => OptOutHolds
  <2> SUFFICES ASSUME ConsentInv PROVE OptOutHolds
    OBVIOUS
  <2>1. \A row \in outbox : SealHolds(row) BY DEF ConsentInv, ContributionsHold
  <2>2. \A row \in named : LoadedSince(row.key, row.priorKeks) BY DEF ConsentInv, ContributionsHold
  <2>3. \A row \in outbox \cup named : row.key \in Nat /\ row.priorKeks \in Nat
    BY DEF ConsentInv, ConsentTypes, SealRecords, NamedRecords
  <2> QED BY <2>1, <2>2, <2>3 DEF OptOutHolds, SealHolds, LoadedSince, DeadIfWithdrawn
<1> QED BY <1>1, ConsentInvHolds, PTL
=============================================================================
