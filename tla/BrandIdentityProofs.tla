-------------------------- MODULE BrandIdentityProofs --------------------------
(***************************************************************************)
(* Proofs about BrandIdentity, for any number of requests under way and    *)
(* any sets of names.                                                      *)
(***************************************************************************)
EXTENDS BrandIdentity, TLAPS

-----------------------------------------------------------------------------
(* The shape of rows and requests, by kind.  Whatever happens to a brand,  *)
(* the second half of a prompt's id is the prompt's name.                  *)

Ids == Brands \X PromptNames
ProjectRecords == [id : Brands, name : Brands]
PromptRecords == {p \in [id : Ids, project : Brands, name : PromptNames] : p.id[2] = p.name}

BrandCalls ==
  [op : {"brand"}, step : {"row", "restore", "update", "count", "list", "rename"},
   project : Brands, name : Brands, listed : SUBSET PromptRecords]
ProjectCalls == [op : {"project"}, step : {"look", "found"}, name : Brands]
CreateCalls ==
  [op : {"create"}, step : {"brand", "clash", "insert"}, project : Brands, name : PromptNames, brand : Brands]
UpdateCalls ==
  [op : {"update"}, step : {"get", "brand", "runs", "free", "rekey"}, project : Brands, id : Ids,
   name : PromptNames, brand : Brands]
DeleteCalls == [op : {"delete"}, step : {"get", "runs", "delete"}, project : Brands, id : Ids]
FindCalls == [op : {"run"}, step : {"find"}, project : Brands, name : PromptNames]
CliCalls == [op : {"cli"}, step : {"project", "prompt"}, project : Brands, name : PromptNames]
StoreCalls ==
  {c \in [op : {"run", "cli"}, step : {"store"}, id : Ids, name : PromptNames] : c.id[2] = c.name}

Calls ==
  {Idle} \cup BrandCalls \cup ProjectCalls \cup CreateCalls \cup UpdateCalls \cup DeleteCalls
    \cup FindCalls \cup CliCalls \cup StoreCalls

\* What a request has found out by the step it has come to, unless one has gone astray.
Knows(c, causes) ==
  /\ c \in BrandCalls /\ c.step = "update" => c.name = c.project
  /\ causes = {} /\ c \in CreateCalls /\ c.step # "brand" => c.brand = c.project
  /\ causes = {} /\ c \in UpdateCalls /\ c.step \notin {"get", "brand"} => c.brand = c.project
  /\ causes = {} /\ c \in UpdateCalls /\ c.step # "get" => c.id[1] = c.project

RowTypes ==
  /\ projects \subseteq ProjectRecords
  /\ prompts \subseteq PromptRecords
  /\ promptRuns \subseteq [prompt : Ids, asked : PromptNames]

EditTypes ==
  /\ edit \in [Editors -> Calls]
  /\ \A h \in Editors : Knows(edit[h], strayed)

BrandInv == RowTypes /\ EditTypes /\ RunsKeepTheirPrompt /\ IdsAreDerived

-----------------------------------------------------------------------------
\* The step of a request tells its kind.
LEMMA StepTellsKind ==
  ASSUME NEW c \in Calls
  PROVE  /\ c.step \in {"row", "restore", "update", "count", "list", "rename"} => c \in BrandCalls
         /\ c.step \in {"look", "found"} => c \in ProjectCalls
         /\ c.step \in {"clash", "insert"} => c \in CreateCalls
         /\ c.step = "brand" => c \in CreateCalls \cup UpdateCalls
         /\ c.step \in {"get", "runs"} => c \in UpdateCalls \cup DeleteCalls
         /\ c.step \in {"free", "rekey"} => c \in UpdateCalls
         /\ c.step = "delete" => c \in DeleteCalls
         /\ c.step = "find" => c \in FindCalls
         /\ c.step \in {"project", "prompt"} => c \in CliCalls
         /\ c.step = "store" => c \in StoreCalls
<1> USE DEF BrandCalls, ProjectCalls, CreateCalls, UpdateCalls, DeleteCalls, FindCalls, CliCalls,
            StoreCalls, Idle
<1>1. CASE c = Idle BY <1>1
<1>2. CASE c \in BrandCalls BY <1>2
<1>3. CASE c \in ProjectCalls BY <1>3
<1>4. CASE c \in CreateCalls BY <1>4
<1>5. CASE c \in UpdateCalls BY <1>5
<1>6. CASE c \in DeleteCalls BY <1>6
<1>7. CASE c \in FindCalls BY <1>7
<1>8. CASE c \in CliCalls BY <1>8
<1>9. CASE c \in StoreCalls BY <1>9
<1> QED BY <1>1, <1>2, <1>3, <1>4, <1>5, <1>6, <1>7, <1>8, <1>9 DEF Calls

\* Only these three kinds of request have anything to know.
LEMMA OthersKnow ==
  ASSUME NEW c, NEW causes,
         c \in {Idle} \cup ProjectCalls \cup DeleteCalls \cup FindCalls \cup CliCalls \cup StoreCalls
  PROVE  c \in Calls /\ Knows(c, causes)
<1>1. c \in Calls BY DEF Calls
<1>2. c \notin BrandCalls \cup CreateCalls \cup UpdateCalls
  <2> USE DEF BrandCalls, ProjectCalls, CreateCalls, UpdateCalls, DeleteCalls, FindCalls, CliCalls,
              StoreCalls
  <2>1. CASE c = Idle BY <2>1 DEF Idle
  <2>2. CASE c \in ProjectCalls BY <2>2
  <2>3. CASE c \in DeleteCalls BY <2>3
  <2>4. CASE c \in FindCalls BY <2>4
  <2>5. CASE c \in CliCalls BY <2>5
  <2>6. CASE c \in StoreCalls BY <2>6
  <2> QED BY <2>1, <2>2, <2>3, <2>4, <2>5, <2>6
<1> QED BY <1>1, <1>2 DEF Knows

\* The kinds are disjoint.
LEMMA KindsDiffer ==
  ASSUME NEW c
  PROVE  /\ c \in BrandCalls => c \notin CreateCalls /\ c \notin UpdateCalls
         /\ c \in CreateCalls => c \notin BrandCalls /\ c \notin UpdateCalls
         /\ c \in UpdateCalls => c \notin BrandCalls /\ c \notin CreateCalls
BY DEF BrandCalls, CreateCalls, UpdateCalls

\* A request that takes a step takes no knowledge from another.
LEMMA EditTo ==
  ASSUME EditTypes, NEW h \in Editors, NEW c \in Calls, edit' = [edit EXCEPT ![h] = c],
         strayed \subseteq strayed', Knows(c, strayed')
  PROVE  EditTypes'
<1>1. edit' \in [Editors -> Calls] BY DEF EditTypes
<1>2. ASSUME NEW g \in Editors PROVE Knows(edit'[g], strayed')
  <2>1. CASE g = h BY <2>1 DEF EditTypes
  <2>2. CASE g # h
    <3>1. edit'[g] = edit[g] /\ Knows(edit[g], strayed) BY <2>2 DEF EditTypes
    <3> QED BY <3>1 DEF Knows
  <2> QED BY <2>1, <2>2
<1> QED BY <1>1, <1>2 DEF EditTypes

\* An answer ends a request.
LEMMA AnswerKeepsEdits ==
  ASSUME EditTypes, NEW h \in Editors, Answer(h), strayed \subseteq strayed'
  PROVE  EditTypes'
<1>1. Idle \in Calls /\ Knows(Idle, strayed') BY OthersKnow
<1> QED BY <1>1, EditTo DEF Answer

\* A request that only reads.
LEMMA RowsStay ==
  ASSUME BrandInv, EditTypes', UNCHANGED <<projects, prompts, promptRuns>>, strayed \subseteq strayed'
  PROVE  BrandInv'
BY DEF BrandInv, RowTypes, RunsKeepTheirPrompt, IdsAreDerived, PromptRows

\* One brand and one prompt to begin with.
LEMMA InitBrand == BrandInit => BrandInv
<1> SUFFICES ASSUME BrandInit PROVE BrandInv
  OBVIOUS
<1>1. PICK n \in PromptNames :
        prompts = {[id |-> <<Configured, n>>, project |-> Configured, name |-> n]}
  BY DEF BrandInit
<1>2. RowTypes /\ IdsAreDerived /\ RunsKeepTheirPrompt
  BY <1>1, BrandConstants
     DEF BrandInit, RowTypes, ProjectRecords, PromptRecords, Ids, IdsAreDerived, RunsKeepTheirPrompt
<1>3. Idle \in Calls /\ Knows(Idle, strayed) BY OthersKnow
<1>4. EditTypes BY <1>3 DEF BrandInit, EditTypes
<1> QED BY <1>2, <1>4 DEF BrandInv

\* A new request knows its project and its names.
LEMMA BeginKeepsInv ==
  ASSUME BrandInv, NEW h \in Editors, BeginEdit(h)
  PROVE  BrandInv'
<1>1. PICK row \in projects, b \in Brands, n \in PromptNames : \E call \in
       {[op |-> "brand", step |-> "row", project |-> row.id, name |-> b, listed |-> {}],
        [op |-> "project", step |-> "look", name |-> b],
        [op |-> "create", step |-> "brand", project |-> row.id, name |-> n, brand |-> row.name],
        [op |-> "run", step |-> "find", project |-> row.id, name |-> n],
        [op |-> "cli", step |-> "project", project |-> b, name |-> n]}
       \cup {[op |-> "update", step |-> "get", project |-> row.id, id |-> p.id, name |-> n,
              brand |-> row.name] : p \in prompts}
       \cup {[op |-> "delete", step |-> "get", project |-> row.id, id |-> p.id] : p \in prompts} :
         edit' = [edit EXCEPT ![h] = call]
  BY DEF BeginEdit
<1>2. PICK c \in
       {[op |-> "brand", step |-> "row", project |-> row.id, name |-> b, listed |-> {}],
        [op |-> "project", step |-> "look", name |-> b],
        [op |-> "create", step |-> "brand", project |-> row.id, name |-> n, brand |-> row.name],
        [op |-> "run", step |-> "find", project |-> row.id, name |-> n],
        [op |-> "cli", step |-> "project", project |-> b, name |-> n]}
       \cup {[op |-> "update", step |-> "get", project |-> row.id, id |-> p.id, name |-> n,
              brand |-> row.name] : p \in prompts}
       \cup {[op |-> "delete", step |-> "get", project |-> row.id, id |-> p.id] : p \in prompts} :
         edit' = [edit EXCEPT ![h] = c]
  BY <1>1
<1>3. row.id \in Brands /\ row.name \in Brands
  BY DEF BrandInv, RowTypes, ProjectRecords
<1>4. \A p \in prompts : p.id \in Ids
  BY DEF BrandInv, RowTypes, PromptRecords
<1>5. c \in Calls /\ Knows(c, strayed)
  <2>1. CASE c = [op |-> "brand", step |-> "row", project |-> row.id, name |-> b, listed |-> {}]
    <3>1. c \in BrandCalls BY <1>3, <2>1 DEF BrandCalls
    <3> QED BY <2>1, <3>1, KindsDiffer DEF Calls, Knows
  <2>2. CASE c = [op |-> "project", step |-> "look", name |-> b]
    <3>1. c \in ProjectCalls BY <2>2 DEF ProjectCalls
    <3> QED BY <3>1, OthersKnow
  <2>3. CASE c = [op |-> "create", step |-> "brand", project |-> row.id, name |-> n, brand |-> row.name]
    <3>1. c \in CreateCalls BY <1>3, <2>3 DEF CreateCalls
    <3> QED BY <2>3, <3>1, KindsDiffer DEF Calls, Knows
  <2>4. CASE c = [op |-> "run", step |-> "find", project |-> row.id, name |-> n]
    <3>1. c \in FindCalls BY <1>3, <2>4 DEF FindCalls
    <3> QED BY <3>1, OthersKnow
  <2>5. CASE c = [op |-> "cli", step |-> "project", project |-> b, name |-> n]
    <3>1. c \in CliCalls BY <2>5 DEF CliCalls
    <3> QED BY <3>1, OthersKnow
  <2>6. ASSUME NEW p \in prompts,
               c = [op |-> "update", step |-> "get", project |-> row.id, id |-> p.id, name |-> n,
                    brand |-> row.name]
        PROVE  c \in Calls /\ Knows(c, strayed)
    <3>1. c \in UpdateCalls BY <1>3, <1>4, <2>6 DEF UpdateCalls
    <3> QED BY <2>6, <3>1, KindsDiffer DEF Calls, Knows
  <2>7. ASSUME NEW p \in prompts,
               c = [op |-> "delete", step |-> "get", project |-> row.id, id |-> p.id]
        PROVE  c \in Calls /\ Knows(c, strayed)
    <3>1. c \in DeleteCalls BY <1>3, <1>4, <2>7 DEF DeleteCalls
    <3> QED BY <3>1, OthersKnow
  <2> QED BY <1>2, <2>1, <2>2, <2>3, <2>4, <2>5, <2>6, <2>7
<1>6. UNCHANGED <<projects, prompts, promptRuns, strayed>> BY DEF BeginEdit
<1>7. EditTypes' BY <1>2, <1>5, <1>6, EditTo DEF BrandInv, EditTypes
<1> QED BY <1>6, <1>7, RowsStay

\* The reads of put_brand and create_project.
LEMMA BrandReadsKeepInv ==
  ASSUME BrandInv, NEW h \in Editors,
         FailEdit(h) \/ FindRow(h) \/ CountBrandRuns(h) \/ ListPrompts(h) \/ LookForProject(h)
  PROVE  BrandInv'
<1>1. edit[h] \in Calls /\ Knows(edit[h], strayed) /\ EditTypes
  BY DEF BrandInv, EditTypes
<1>2. UNCHANGED <<projects, prompts, promptRuns, strayed>>
  BY DEF FailEdit, FindRow, CountBrandRuns, ListPrompts, LookForProject
<1>3. CASE Answer(h) BY <1>1, <1>2, <1>3, AnswerKeepsEdits, RowsStay
<1>4. ASSUME NEW c \in Calls, edit' = [edit EXCEPT ![h] = c], Knows(c, strayed) PROVE BrandInv'
  BY <1>1, <1>2, <1>4, EditTo, RowsStay
<1>5. CASE FindRow(h)
  <2>1. edit[h] \in BrandCalls BY <1>1, <1>5, StepTellsKind DEF FindRow, Awaits
  <2> DEFINE step == IF ProjectRows(edit[h].project) = {} THEN "restore"
                     ELSE IF edit[h].name = edit[h].project THEN "update" ELSE "count"
             c == [edit[h] EXCEPT !.step = step]
  <2>2. c \in BrandCalls /\ c.step = step /\ c.name = edit[h].name /\ c.project = edit[h].project
    BY <2>1 DEF BrandCalls
  <2>3. Knows(c, strayed) BY <2>2, KindsDiffer DEF Knows
  <2>4. edit' = [edit EXCEPT ![h] = c] BY <1>5 DEF FindRow, Goes
  <2> QED BY <1>4, <2>2, <2>3, <2>4 DEF Calls
<1>6. CASE CountBrandRuns(h) /\ Goes(h, "list")
  <2>1. edit[h] \in BrandCalls BY <1>1, <1>6, StepTellsKind DEF CountBrandRuns, Awaits
  <2> DEFINE c == [edit[h] EXCEPT !.step = "list"]
  <2>2. c \in BrandCalls /\ c.step = "list" BY <2>1 DEF BrandCalls
  <2>3. Knows(c, strayed) BY <2>2, KindsDiffer DEF Knows
  <2> QED BY <1>4, <1>6, <2>2, <2>3 DEF Calls, Goes
<1>7. CASE ListPrompts(h)
  <2>1. edit[h] \in BrandCalls BY <1>1, <1>7, StepTellsKind DEF ListPrompts, Awaits
  <2> DEFINE c == [edit[h] EXCEPT !.listed = PromptsOf(edit[h].project), !.step = "rename"]
  <2>2. PromptsOf(edit[h].project) \subseteq PromptRecords BY DEF PromptsOf, BrandInv, RowTypes
  <2>3. c \in BrandCalls /\ c.step = "rename" BY <2>1, <2>2 DEF BrandCalls
  <2>4. Knows(c, strayed) BY <2>3, KindsDiffer DEF Knows
  <2>5. edit' = [edit EXCEPT ![h] = c] BY <1>7 DEF ListPrompts
  <2> QED BY <1>4, <2>3, <2>4, <2>5 DEF Calls
<1>8. CASE LookForProject(h) /\ Goes(h, "found")
  <2>1. edit[h] \in ProjectCalls BY <1>1, <1>8, StepTellsKind DEF LookForProject, Awaits
  <2> DEFINE c == [edit[h] EXCEPT !.step = "found"]
  <2>2. c \in ProjectCalls BY <2>1 DEF ProjectCalls
  <2> QED BY <1>4, <1>8, <2>2, OthersKnow DEF Goes
<1> QED BY <1>3, <1>5, <1>6, <1>7, <1>8 DEF FailEdit, CountBrandRuns, LookForProject

\* The brand a prompt's new id is made of is its project's, or the request is astray.
LEMMA ReadBrandKeepsInv ==
  ASSUME BrandInv, NEW h \in Editors, ReadBrand(h)
  PROVE  BrandInv'
<1> DEFINE names == {r.name : r \in ProjectRows(edit[h].project)}
           step == IF edit[h].op = "create" THEN "clash" ELSE "runs"
<1>1. edit[h] \in Calls /\ Knows(edit[h], strayed) /\ EditTypes
  BY DEF BrandInv, EditTypes
<1>2. PICK brand \in names \cup {Configured} :
        /\ edit' = [edit EXCEPT ![h].brand = brand, ![h].step = step]
        /\ strayed' = IF brand \in names THEN strayed ELSE strayed \cup {"misread"}
  BY DEF ReadBrand
<1> DEFINE c == [edit[h] EXCEPT !.brand = brand, !.step = step]
<1>3. /\ edit[h] \in CreateCalls \cup UpdateCalls /\ edit[h].step = "brand"
      /\ edit' = [edit EXCEPT ![h] = c]
      /\ strayed \subseteq strayed' /\ (strayed' = {} => brand \in names)
      /\ UNCHANGED <<projects, prompts, promptRuns>>
  BY <1>1, <1>2, StepTellsKind DEF ReadBrand, Awaits
<1>4. brand \in Brands
  BY <1>2, BrandConstants DEF ProjectRows, ProjectRecords, BrandInv, RowTypes
<1>5. strayed' = {} => brand = edit[h].project
  BY <1>3 DEF ProjectRows, BrandInv, IdsAreDerived
<1> HIDE DEF names
<1>6. CASE edit[h] \in CreateCalls
  <2>1. c \in CreateCalls /\ c.project = edit[h].project /\ c.brand = brand
    BY <1>4, <1>6 DEF CreateCalls
  <2>2. Knows(c, strayed') BY <1>5, <2>1, KindsDiffer DEF Knows
  <2>3. c \in Calls BY <2>1 DEF Calls
  <2> HIDE DEF c
  <2> QED BY <1>1, <1>2, <1>3, <2>2, <2>3, EditTo, RowsStay
<1>7. CASE edit[h] \in UpdateCalls
  <2>1. /\ c \in UpdateCalls /\ c.project = edit[h].project /\ c.brand = brand
        /\ c.id = edit[h].id
    BY <1>4, <1>7 DEF UpdateCalls
  <2>2. strayed = {} => edit[h].id[1] = edit[h].project BY <1>1, <1>3, <1>7 DEF Knows
  <2>3. Knows(c, strayed') BY <1>3, <1>5, <2>1, <2>2, KindsDiffer DEF Knows
  <2>4. c \in Calls BY <2>1 DEF Calls
  <2> HIDE DEF c
  <2> QED BY <1>1, <1>2, <1>3, <2>3, <2>4, EditTo, RowsStay
<1> QED BY <1>3, <1>6, <1>7

\* The other reads of the prompt routes, and of a run.
LEMMA PromptReadsKeepInv ==
  ASSUME BrandInv, NEW h \in Editors,
         LookForClash(h) \/ GetPrompt(h) \/ CountPromptRuns(h) \/ LookForNewId(h) \/ FindPrompt(h)
  PROVE  BrandInv'
<1>1. edit[h] \in Calls /\ Knows(edit[h], strayed) /\ EditTypes
  BY DEF BrandInv, EditTypes
<1>2. UNCHANGED <<projects, prompts, promptRuns, strayed>>
  BY DEF LookForClash, GetPrompt, CountPromptRuns, LookForNewId, FindPrompt
<1>3. CASE Answer(h) BY <1>1, <1>2, <1>3, AnswerKeepsEdits, RowsStay
<1>4. ASSUME NEW c \in Calls, edit' = [edit EXCEPT ![h] = c], Knows(c, strayed) PROVE BrandInv'
  BY <1>1, <1>2, <1>4, EditTo, RowsStay
<1>5. CASE LookForClash(h) /\ Goes(h, "insert")
  <2>1. edit[h] \in CreateCalls /\ edit[h].step = "clash"
    BY <1>1, <1>5, StepTellsKind DEF LookForClash, Awaits
  <2> DEFINE c == [edit[h] EXCEPT !.step = "insert"]
  <2>2. c \in CreateCalls /\ c.brand = edit[h].brand /\ c.project = edit[h].project
    BY <2>1 DEF CreateCalls
  <2>3. Knows(c, strayed) BY <1>1, <2>1, <2>2, KindsDiffer DEF Knows
  <2> QED BY <1>4, <1>5, <2>2, <2>3 DEF Calls, Goes
<1>6. CASE GetPrompt(h) /\ ~Answer(h)
  <2>1. edit[h] \in UpdateCalls \cup DeleteCalls BY <1>1, <1>6, StepTellsKind DEF GetPrompt, Awaits
  <2>2. PICK p \in PromptRows(edit[h].id) : p.project = edit[h].project BY <1>6 DEF GetPrompt
  <2>3. CASE edit[h] \in UpdateCalls
    <3> DEFINE c == [edit[h] EXCEPT !.step = "brand"]
    <3>1. edit' = [edit EXCEPT ![h] = c] BY <1>6, <2>3 DEF GetPrompt, Goes, UpdateCalls
    <3>2. c \in UpdateCalls /\ c.step = "brand" /\ c.id = edit[h].id /\ c.project = edit[h].project
      BY <2>3 DEF UpdateCalls
    <3>3. strayed = {} => edit[h].id[1] = edit[h].project
      BY <2>2 DEF PromptRows, BrandInv, IdsAreDerived
    <3>4. Knows(c, strayed) BY <3>2, <3>3, KindsDiffer DEF Knows
    <3> QED BY <1>4, <3>1, <3>2, <3>4 DEF Calls
  <2>4. CASE edit[h] \in DeleteCalls
    <3> DEFINE c == [edit[h] EXCEPT !.step = "runs"]
    <3>1. edit' = [edit EXCEPT ![h] = c] BY <1>6, <2>4 DEF GetPrompt, Goes, DeleteCalls
    <3>2. c \in DeleteCalls BY <2>4 DEF DeleteCalls
    <3> QED BY <1>4, <3>1, <3>2, OthersKnow
  <2> QED BY <2>1, <2>3, <2>4
<1>7. CASE CountPromptRuns(h) /\ ~Answer(h)
  <2>1. edit[h] \in UpdateCalls \cup DeleteCalls /\ edit[h].step = "runs"
    BY <1>1, <1>7, StepTellsKind DEF CountPromptRuns, Awaits
  <2>2. CASE edit[h] \in UpdateCalls
    <3> DEFINE c == [edit[h] EXCEPT !.step = "free"]
    <3>1. edit' = [edit EXCEPT ![h] = c] BY <1>7, <2>2 DEF CountPromptRuns, Goes, UpdateCalls
    <3>2. /\ c \in UpdateCalls /\ c.brand = edit[h].brand
          /\ c.id = edit[h].id /\ c.project = edit[h].project
      BY <2>2 DEF UpdateCalls
    <3>3. Knows(c, strayed) BY <1>1, <2>1, <2>2, <3>2, KindsDiffer DEF Knows
    <3> QED BY <1>4, <3>1, <3>2, <3>3 DEF Calls
  <2>3. CASE edit[h] \in DeleteCalls
    <3> DEFINE c == [edit[h] EXCEPT !.step = "delete"]
    <3>1. edit' = [edit EXCEPT ![h] = c] BY <1>7, <2>3 DEF CountPromptRuns, Goes, DeleteCalls
    <3>2. c \in DeleteCalls BY <2>3 DEF DeleteCalls
    <3> QED BY <1>4, <3>1, <3>2, OthersKnow
  <2> QED BY <2>1, <2>2, <2>3
<1>8. CASE LookForNewId(h) /\ Goes(h, "rekey")
  <2>1. edit[h] \in UpdateCalls /\ edit[h].step = "free"
    BY <1>1, <1>8, StepTellsKind DEF LookForNewId, Awaits
  <2> DEFINE c == [edit[h] EXCEPT !.step = "rekey"]
  <2>2. /\ c \in UpdateCalls /\ c.brand = edit[h].brand
        /\ c.id = edit[h].id /\ c.project = edit[h].project
    BY <2>1 DEF UpdateCalls
  <2>3. Knows(c, strayed) BY <1>1, <2>1, <2>2, KindsDiffer DEF Knows
  <2> QED BY <1>4, <1>8, <2>2, <2>3 DEF Calls, Goes
<1>9. CASE FindPrompt(h) /\ ~Answer(h)
  <2>1. PICK p \in prompts :
          edit' = [edit EXCEPT ![h] = [op |-> "run", step |-> "store", id |-> p.id, name |-> p.name]]
    BY <1>9 DEF FindPrompt, PromptsOf
  <2> DEFINE c == [op |-> "run", step |-> "store", id |-> p.id, name |-> p.name]
  <2>2. c \in StoreCalls BY DEF StoreCalls, BrandInv, RowTypes, PromptRecords
  <2> QED BY <1>4, <2>1, <2>2, OthersKnow
<1> QED BY <1>3, <1>5, <1>6, <1>7, <1>8, <1>9 DEF LookForClash, GetPrompt, CountPromptRuns, LookForNewId, FindPrompt

\* A step that changes projects only: the runs and the prompts have nothing to lose.
LEMMA ProjectsChange ==
  ASSUME BrandInv, EditTypes', UNCHANGED <<prompts, promptRuns>>,
         projects' \subseteq ProjectRecords, strayed \subseteq strayed',
         "restored" \notin strayed' => \A r \in projects' : r.id = r.name
  PROVE  BrandInv'
BY DEF BrandInv, RowTypes, RunsKeepTheirPrompt, IdsAreDerived, PromptRows

\* Inserting, restoring and updating a project.
LEMMA ProjectWritesKeepInv ==
  ASSUME BrandInv, NEW h \in Editors,
         RestoreRow(h) \/ UpdateBrand(h) \/ FoundProject(h) \/ UpsertProject(h)
  PROVE  BrandInv'
<1>1. edit[h] \in Calls /\ Knows(edit[h], strayed) /\ EditTypes
  BY DEF BrandInv, EditTypes
<1>2. projects \subseteq ProjectRecords /\ ("restored" \notin strayed => \A r \in projects : r.id = r.name)
  BY DEF BrandInv, RowTypes, IdsAreDerived
<1>3. CASE RestoreRow(h)
  <2>1. edit[h] \in BrandCalls BY <1>1, <1>3, StepTellsKind DEF RestoreRow, Awaits
  <2> DEFINE step == IF edit[h].name = edit[h].project THEN "update" ELSE "count"
             c == [edit[h] EXCEPT !.step = step]
  <2>2. c \in BrandCalls /\ c.step = step /\ c.name = edit[h].name /\ c.project = edit[h].project
    BY <2>1 DEF BrandCalls
  <2>3. Knows(c, strayed') BY <2>2, KindsDiffer DEF Knows
  <2>4. edit' = [edit EXCEPT ![h] = c] BY <1>3 DEF RestoreRow, Goes
  <2>5. strayed \subseteq strayed' /\ ("restored" \notin strayed' => edit[h].name = edit[h].project)
    BY <1>3 DEF RestoreRow
  <2>6. EditTypes' BY <1>1, <2>2, <2>3, <2>4, <2>5, EditTo DEF Calls
  <2>7. [id |-> edit[h].project, name |-> edit[h].name] \in ProjectRecords
    BY <2>1 DEF BrandCalls, ProjectRecords
  <2> QED BY <1>2, <1>3, <2>5, <2>6, <2>7, ProjectsChange DEF RestoreRow
<1>4. CASE UpdateBrand(h)
  <2>1. edit[h] \in BrandCalls /\ edit[h].step = "update"
    BY <1>1, <1>4, StepTellsKind DEF UpdateBrand, Awaits
  <2>2. edit[h].name = edit[h].project /\ edit[h].name \in Brands
    BY <1>1, <2>1 DEF Knows, BrandCalls
  <2>3. EditTypes' BY <1>1, <1>4, AnswerKeepsEdits DEF UpdateBrand
  <2>4. \A r \in ProjectRows(edit[h].project) :
          /\ [r EXCEPT !.name = edit[h].name] \in ProjectRecords
          /\ [r EXCEPT !.name = edit[h].name].id = [r EXCEPT !.name = edit[h].name].name
    BY <1>2, <2>2 DEF ProjectRows, ProjectRecords
  <2>5. /\ projects' \subseteq ProjectRecords
        /\ "restored" \notin strayed => \A r \in projects' : r.id = r.name
    BY <1>2, <1>4, <2>4 DEF UpdateBrand
  <2> QED BY <1>4, <2>3, <2>5, ProjectsChange DEF UpdateBrand
<1>5. CASE FoundProject(h)
  <2>1. edit[h] \in ProjectCalls BY <1>1, <1>5, StepTellsKind DEF FoundProject, Awaits
  <2>2. EditTypes' BY <1>1, <1>5, AnswerKeepsEdits DEF FoundProject
  <2>3. [id |-> edit[h].name, name |-> edit[h].name] \in ProjectRecords
    BY <2>1 DEF ProjectCalls, ProjectRecords
  <2> QED BY <1>2, <1>5, <2>2, <2>3, ProjectsChange DEF FoundProject
<1>6. CASE UpsertProject(h)
  <2>1. edit[h] \in CliCalls BY <1>1, <1>6, StepTellsKind DEF UpsertProject, Awaits
  <2> DEFINE c == [edit[h] EXCEPT !.step = "prompt"]
  <2>2. c \in CliCalls BY <2>1 DEF CliCalls
  <2>3. EditTypes' BY <1>1, <1>6, <2>2, OthersKnow, EditTo DEF UpsertProject, Goes
  <2>4. [id |-> edit[h].project, name |-> edit[h].project] \in ProjectRecords
    BY <2>1 DEF CliCalls, ProjectRecords
  <2> QED BY <1>2, <1>6, <2>3, <2>4, ProjectsChange DEF UpsertProject
<1> QED BY <1>3, <1>4, <1>5, <1>6

\* A step that adds or changes prompts, and leaves those with runs their ids and names.
LEMMA PromptsChange ==
  ASSUME BrandInv, EditTypes', UNCHANGED <<projects, promptRuns>>,
         prompts' \subseteq PromptRecords, strayed \subseteq strayed',
         \A p \in prompts : RunsOf({p}) = {} \/ \E q \in prompts' : q.id = p.id,
         strayed' = {} => \A p \in prompts' : p.id = <<p.project, p.name>>
  PROVE  BrandInv'
<1>1. ASSUME NEW r \in promptRuns PROVE \E q \in prompts' : q.id = r.prompt /\ q.name = r.asked
  <2>1. PICK p \in prompts : p.id = r.prompt /\ p.name = r.asked
    BY DEF BrandInv, RunsKeepTheirPrompt, PromptRows
  <2>2. r \in RunsOf({p}) BY <2>1 DEF RunsOf
  <2>3. PICK q \in prompts' : q.id = p.id BY <2>2
  <2>4. q.name = q.id[2] /\ p.name = p.id[2]
    BY DEF BrandInv, RowTypes, PromptRecords
  <2> QED BY <2>1, <2>3, <2>4
<1> QED BY <1>1 DEF BrandInv, RowTypes, RunsKeepTheirPrompt, IdsAreDerived, PromptRows

\* Inserting, renaming and deleting a prompt.
LEMMA PromptWritesKeepInv ==
  ASSUME BrandInv, NEW h \in Editors,
         InsertPrompt(h) \/ RenamePrompt(h) \/ DeletePrompt(h) \/ UpsertPrompt(h)
  PROVE  BrandInv'
<1>1. edit[h] \in Calls /\ Knows(edit[h], strayed) /\ EditTypes
  BY DEF BrandInv, EditTypes
<1>2. prompts \subseteq PromptRecords /\ (strayed = {} => \A p \in prompts : p.id = <<p.project, p.name>>)
  BY DEF BrandInv, RowTypes, IdsAreDerived
<1>3. CASE InsertPrompt(h)
  <2>1. edit[h] \in CreateCalls /\ edit[h].step = "insert"
    BY <1>1, <1>3, StepTellsKind DEF InsertPrompt, Awaits
  <2>2. EditTypes' BY <1>1, <1>3, AnswerKeepsEdits DEF InsertPrompt
  <2> DEFINE new == [id |-> NewId(h), project |-> edit[h].project, name |-> edit[h].name]
  <2>3. new \in PromptRecords BY <2>1 DEF CreateCalls, PromptRecords, NewId, Ids
  <2>4. strayed = {} => new.id = <<new.project, new.name>> BY <1>1, <2>1 DEF Knows, NewId
  <2>5. prompts' = prompts \cup {new} BY <1>3 DEF InsertPrompt
  <2> HIDE DEF new
  <2> QED BY <1>2, <1>3, <2>2, <2>3, <2>4, <2>5, PromptsChange DEF InsertPrompt
<1>4. CASE RenamePrompt(h)
  <2>1. edit[h] \in UpdateCalls /\ edit[h].step = "rekey"
    BY <1>1, <1>4, StepTellsKind DEF RenamePrompt, Awaits
  <2>2. EditTypes' BY <1>1, <1>4, AnswerKeepsEdits DEF RenamePrompt
  <2> DEFINE old == PromptRows(edit[h].id)
             New(p) == [p EXCEPT !.id = NewId(h), !.name = edit[h].name]
  <2>3. prompts' = (prompts \ old) \cup {New(p) : p \in old} /\ RunsOf(old) = {}
    BY <1>4 DEF RenamePrompt
  <2>4. ASSUME NEW p \in old PROVE New(p) \in PromptRecords
    BY <1>2, <2>1 DEF PromptRows, UpdateCalls, PromptRecords, NewId, Ids
  <2>5. ASSUME NEW p \in old, strayed = {} PROVE New(p).id = <<New(p).project, New(p).name>>
    <3>1. p.project = edit[h].project /\ edit[h].brand = edit[h].project
      BY <1>1, <1>2, <2>1, <2>5 DEF Knows, PromptRows
    <3>2. /\ New(p).id = <<edit[h].brand, edit[h].name>>
          /\ New(p).project = p.project /\ New(p).name = edit[h].name
      BY <1>2 DEF PromptRows, PromptRecords, NewId
    <3> QED BY <3>1, <3>2
  <2>6. ASSUME NEW p \in prompts PROVE RunsOf({p}) = {} \/ \E q \in prompts' : q.id = p.id
    <3>1. CASE p \in old BY <2>3, <3>1 DEF RunsOf
    <3>2. CASE p \notin old BY <2>3, <3>2
    <3> QED BY <3>1, <3>2
  <2> HIDE DEF old, New
  <2>7. prompts' \subseteq PromptRecords BY <1>2, <2>3, <2>4
  <2>8. strayed = {} => \A p \in prompts' : p.id = <<p.project, p.name>> BY <1>2, <2>3, <2>5
  <2> QED BY <1>4, <2>2, <2>6, <2>7, <2>8, PromptsChange DEF RenamePrompt
<1>5. CASE DeletePrompt(h)
  <2>1. EditTypes' BY <1>1, <1>5, AnswerKeepsEdits DEF DeletePrompt
  <2>2. ASSUME NEW p \in prompts PROVE RunsOf({p}) = {} \/ \E q \in prompts' : q.id = p.id
    BY <1>5 DEF DeletePrompt, RunsOf
  <2> QED BY <1>2, <1>5, <2>1, <2>2, PromptsChange DEF DeletePrompt
<1>6. CASE UpsertPrompt(h)
  <2> DEFINE id == <<edit[h].project, edit[h].name>>
             new == [id |-> id, project |-> edit[h].project, name |-> edit[h].name]
             c == [op |-> "cli", step |-> "store", id |-> id, name |-> edit[h].name]
  <2>1. edit[h] \in CliCalls BY <1>1, <1>6, StepTellsKind DEF UpsertPrompt, Awaits
  <2>2. c \in StoreCalls BY <2>1 DEF CliCalls, StoreCalls, Ids
  <2>3. edit' = [edit EXCEPT ![h] = c] BY <1>6 DEF UpsertPrompt
  <2>4. EditTypes' BY <1>1, <1>6, <2>2, <2>3, OthersKnow, EditTo DEF UpsertPrompt
  <2>5. new \in PromptRecords /\ new.id = <<new.project, new.name>>
    BY <2>1 DEF CliCalls, PromptRecords, Ids
  <2>6. prompts' = prompts \/ prompts' = prompts \cup {new} BY <1>6 DEF UpsertPrompt
  <2> HIDE DEF new
  <2> QED BY <1>2, <1>6, <2>4, <2>5, <2>6, PromptsChange DEF UpsertPrompt
<1> QED BY <1>3, <1>4, <1>5, <1>6

\* Storing a run: the foreign key finds the prompt, and its id tells the name.
LEMMA StoreRunKeepsInv ==
  ASSUME BrandInv, NEW h \in Editors, StoreRun(h)
  PROVE  BrandInv'
<1>1. edit[h] \in StoreCalls
  BY StepTellsKind DEF StoreRun, Awaits, BrandInv, EditTypes
<1>2. EditTypes' BY AnswerKeepsEdits DEF StoreRun, BrandInv, EditTypes
<1>3. PICK p \in prompts : p.id = edit[h].id BY DEF StoreRun, PromptRows
<1>4. p.name = edit[h].name
  BY <1>1, <1>3 DEF StoreCalls, BrandInv, RowTypes, PromptRecords
<1>5. RowTypes' BY <1>1 DEF StoreRun, StoreCalls, BrandInv, RowTypes
<1>6. RunsKeepTheirPrompt'
  BY <1>3, <1>4 DEF StoreRun, BrandInv, RunsKeepTheirPrompt, PromptRows
<1> QED BY <1>2, <1>5, <1>6 DEF StoreRun, BrandInv, IdsAreDerived

\* Renaming a brand: prompts with runs keep their ids, and every prompt of the project is
\* among those listed unless the request has gone astray.
LEMMA RenameBrandKeepsInv ==
  ASSUME BrandInv, NEW h \in Editors, RenameBrand(h)
  PROVE  BrandInv'
<1> DEFINE old == edit[h].project
           new == edit[h].name
           Was(p) == {q \in edit[h].listed : q.id = p.id}
           Moved(p) == IF p.project = old THEN [p EXCEPT !.project = new] ELSE p
<1>1. edit[h] \in BrandCalls /\ EditTypes
  BY StepTellsKind DEF RenameBrand, Awaits, BrandInv, EditTypes
<1>2. prompts \subseteq PromptRecords /\ (strayed = {} => \A p \in prompts : p.id = <<p.project, p.name>>)
  BY DEF BrandInv, RowTypes, IdsAreDerived
<1>3. /\ prompts' = {Rekeyed(h, p) : p \in prompts}
      /\ RunsOf({p \in prompts : Rekeyed(h, p).id # p.id}) = {}
      /\ strayed' = Relisted(h)
      /\ projects' = (projects \ ProjectRows(old)) \cup {[id |-> new, name |-> new]}
      /\ UNCHANGED promptRuns /\ Answer(h)
  BY DEF RenameBrand
<1>4. strayed \subseteq strayed' /\ (strayed' = {} => strayed = {} /\ edit[h].listed = PromptsOf(old))
  BY <1>3 DEF Relisted
<1>5. EditTypes' BY <1>1, <1>3, <1>4, AnswerKeepsEdits
<1>6. new \in Brands /\ edit[h].listed \subseteq PromptRecords BY <1>1 DEF BrandCalls
<1>7. ASSUME NEW p \in prompts
      PROVE  /\ Rekeyed(h, p) \in PromptRecords /\ Rekeyed(h, p).name = p.name
             /\ Rekeyed(h, p).project = IF p.project = old THEN new ELSE p.project
             /\ Rekeyed(h, p).id = IF Was(p) = {} THEN p.id ELSE <<new, p.name>>
  <2>1. Moved(p) \in PromptRecords /\ Moved(p).id = p.id /\ Moved(p).name = p.name
        /\ Moved(p).project = IF p.project = old THEN new ELSE p.project
    BY <1>2, <1>6 DEF PromptRecords
  <2>2. CASE Was(p) = {} BY <2>1, <2>2 DEF Rekeyed
  <2>3. CASE Was(p) # {}
    <3>1. PICK q \in Was(p) : q = (CHOOSE x \in Was(p) : TRUE) BY <2>3
    <3>2. q.name = p.name BY <1>2, <1>6 DEF PromptRecords
    <3>3. Rekeyed(h, p) = [Moved(p) EXCEPT !.id = <<new, p.name>>] BY <2>3, <3>1, <3>2 DEF Rekeyed
    <3> HIDE DEF Moved
    <3>4. p.name \in PromptNames BY <1>2 DEF PromptRecords
    <3> QED BY <1>6, <2>1, <2>3, <3>3, <3>4 DEF PromptRecords, Ids
  <2> QED BY <2>2, <2>3
<1>8. prompts' \subseteq PromptRecords BY <1>3, <1>7
<1>9. ASSUME NEW r \in promptRuns PROVE \E q \in prompts' : q.id = r.prompt /\ q.name = r.asked
  <2>1. PICK p \in prompts : p.id = r.prompt /\ p.name = r.asked
    BY DEF BrandInv, RunsKeepTheirPrompt, PromptRows
  <2>2. Rekeyed(h, p).id = p.id BY <1>3, <2>1 DEF RunsOf
  <2>3. Rekeyed(h, p) \in prompts' BY <1>3
  <2>4. Rekeyed(h, p).name = p.name BY <1>7
  <2> QED BY <2>1, <2>2, <2>3, <2>4
<1>10. ASSUME strayed' = {}, NEW p \in prompts
       PROVE  Rekeyed(h, p).id = <<Rekeyed(h, p).project, Rekeyed(h, p).name>>
  <2>1. strayed = {} /\ edit[h].listed = PromptsOf(old) BY <1>4, <1>10
  <2>2. p.id = <<p.project, p.name>> BY <1>2, <2>1
  <2>3. CASE p.project = old
    <3>1. p \in Was(p) BY <2>1, <2>3 DEF PromptsOf
    <3> QED BY <1>7, <2>3, <3>1
  <2>4. CASE p.project # old
    <3>1. \A q \in edit[h].listed : q.id = <<old, q.name>> BY <1>2, <2>1 DEF PromptsOf
    <3>2. Was(p) = {} BY <2>2, <2>4, <3>1
    <3> QED BY <1>7, <2>2, <2>4, <3>2
  <2> QED BY <2>3, <2>4
<1>11. RowTypes'
  BY <1>3, <1>6, <1>8 DEF BrandInv, RowTypes, ProjectRecords
<1>12. RunsKeepTheirPrompt' BY <1>3, <1>9 DEF RunsKeepTheirPrompt, PromptRows
<1>13. IdsAreDerived'
  <2>1. "restored" \notin strayed' => \A r \in projects' : r.id = r.name
    BY <1>3, <1>4 DEF BrandInv, IdsAreDerived
  <2> QED BY <1>3, <1>10, <2>1 DEF IdsAreDerived
<1> QED BY <1>5, <1>11, <1>12, <1>13 DEF BrandInv

\* Every step keeps the invariant.
LEMMA NextBrand == BrandInv /\ [BrandNext]_brandVars => BrandInv'
<1> SUFFICES ASSUME BrandInv, [BrandNext]_brandVars PROVE BrandInv'
  OBVIOUS
<1>1. CASE BrandNext
  BY <1>1, BeginKeepsInv, BrandReadsKeepInv, ReadBrandKeepsInv, PromptReadsKeepInv,
     ProjectWritesKeepInv, PromptWritesKeepInv, StoreRunKeepsInv, RenameBrandKeepsInv DEF BrandNext
<1>2. CASE UNCHANGED brandVars
  BY <1>2 DEF brandVars, BrandInv, RowTypes, EditTypes, RunsKeepTheirPrompt, IdsAreDerived, PromptRows
<1> QED BY <1>1, <1>2

\* The invariant of names, ids and the requests under way.  What it says of the brand a
\* request has read (brand_name_for) is said as long as none was given a brand that its
\* project does not have, which a failed read of the row suffices for, as does a row that
\* is gone; and of other requests' projects and prompts, as long as none was put back
\* under another name or relisted.
THEOREM BrandInvariant == BrandSpec => []BrandInv
BY InitBrand, NextBrand, PTL DEF BrandSpec

\* Neither a rename nor a deletion, of a prompt or a brand, takes a prompt from its runs
\* (the counts of runs in brand.rs and prompts.rs are repeated by the foreign key).
THEOREM RunsKeepTheirPromptAlways == BrandSpec => []RunsKeepTheirPrompt
<1>1. BrandInv => RunsKeepTheirPrompt BY DEF BrandInv
<1> QED BY <1>1, BrandInvariant, PTL

\* Ids are those of the names (project_id_for_name, prompt_id_for).  Projects: unless one
\* was put back under another name (put_brand).  Prompts: unless besides a brand was
\* renamed with other prompts than had been listed, or a request went on with the
\* configured brand because its project's row was gone or could not be read
\* (brand_name_for).
THEOREM IdsAreDerivedAlways == BrandSpec => []IdsAreDerived
<1>1. BrandInv => IdsAreDerived BY DEF BrandInv
<1> QED BY <1>1, BrandInvariant, PTL
================================================================================
