----------------------------- MODULE BrandIdentity -----------------------------
(***************************************************************************)
(* The ids of projects and prompts, which are hashes of names              *)
(* (project_id_for_name and prompt_id_for of crates/core/src/config.rs),   *)
(* and the requests that insert, rename and delete them or store runs for  *)
(* them: apps/api/src/routes/{brand,projects,prompts,prompt_runs}.rs over  *)
(* the repositories of projects and prompts, and persist_records of        *)
(* crates/providers/src/persistence.rs for the command line.               *)
(*                                                                         *)
(* A request is a sequence of statements.  Renaming a brand gives its      *)
(* project and all its prompts other ids, in one transaction, for the      *)
(* prompts the request has listed before.                                  *)
(***************************************************************************)
EXTENDS Integers, FiniteSets

CONSTANTS
  Brands,        \* brand names; a project's id is the name it was derived from
  PromptNames,   \* prompt names; a prompt's id is a brand and a name
  Configured,    \* the brand of anseo.yaml, as read at boot
  Editors,       \* requests under way at once
  MaxEdits       \* bound: requests

ASSUME BrandConstants == Configured \in Brands /\ MaxEdits \in Nat

VARIABLES
  projects,      \* rows [id, name]
  prompts,       \* rows [id, project, name]
  promptRuns,    \* rows [prompt, asked]: the id stored, the name that was asked
  edit,          \* edit[h]: what a request has read, and its next step
  edits,         \* requests begun
  strayed        \* history: "restored", a project was put back under another name;
                 \* "relisted", a brand was renamed with other prompts than were listed;
                 \* "misread", a request went on with a brand its project does not have

brandVars == <<projects, prompts, promptRuns, edit, edits, strayed>>

Idle == [step |-> "idle"]

BrandInit ==
  /\ projects = {[id |-> Configured, name |-> Configured]}
  /\ \E n \in PromptNames : prompts = {[id |-> <<Configured, n>>, project |-> Configured, name |-> n]}
  /\ promptRuns = {}
  /\ edit = [h \in Editors |-> Idle]
  /\ edits = 0
  /\ strayed = {}

ProjectRows(id) == {r \in projects : r.id = id}
PromptRows(id) == {p \in prompts : p.id = id}
PromptsOf(id) == {p \in prompts : p.project = id}
RunsOf(ps) == {r \in promptRuns : r.prompt \in {p.id : p \in ps}}

Awaits(h, step) == edit[h].step = step
Goes(h, step) == edit' = [edit EXCEPT ![h].step = step]
Answer(h) == edit' = [edit EXCEPT ![h] = Idle]

\* A request of each kind, for a project its header or key has resolved to.
BeginEdit(h) ==
  /\ Awaits(h, "idle") /\ edits < MaxEdits
  /\ edits' = edits + 1
  /\ \E row \in projects, b \in Brands, n \in PromptNames : \E call \in
       {[op |-> "brand", step |-> "row", project |-> row.id, name |-> b, listed |-> {}],
        [op |-> "project", step |-> "look", name |-> b],
        [op |-> "create", step |-> "brand", project |-> row.id, name |-> n, brand |-> row.name],
        [op |-> "run", step |-> "find", project |-> row.id, name |-> n],
        [op |-> "cli", step |-> "project", project |-> b, name |-> n]}
       \cup {[op |-> "update", step |-> "get", project |-> row.id, id |-> p.id, name |-> n,
              brand |-> row.name] : p \in prompts}
       \cup {[op |-> "delete", step |-> "get", project |-> row.id, id |-> p.id] : p \in prompts} :
         edit' = [edit EXCEPT ![h] = call]
  /\ UNCHANGED <<projects, prompts, promptRuns, strayed>>

\* A statement fails, or the process dies; a transaction is rolled back.
FailEdit(h) ==
  /\ ~Awaits(h, "idle") /\ Answer(h)
  /\ UNCHANGED <<projects, prompts, promptRuns, edits, strayed>>

-----------------------------------------------------------------------------
\* put_brand and create_project.

\* The row may have gone since the project was resolved; then it is put back, with the
\* new name on the old id.
FindRow(h) ==
  /\ Awaits(h, "row")
  /\ Goes(h, IF ProjectRows(edit[h].project) = {} THEN "restore"
             ELSE IF edit[h].name = edit[h].project THEN "update" ELSE "count")
  /\ UNCHANGED <<projects, prompts, promptRuns, edits, strayed>>

RestoreRow(h) ==
  /\ Awaits(h, "restore") /\ ProjectRows(edit[h].project) = {}
  /\ projects' = projects \cup {[id |-> edit[h].project, name |-> edit[h].name]}
  /\ strayed' = IF edit[h].name = edit[h].project THEN strayed ELSE strayed \cup {"restored"}
  /\ Goes(h, IF edit[h].name = edit[h].project THEN "update" ELSE "count")
  /\ UNCHANGED <<prompts, promptRuns, edits>>

UpdateBrand(h) ==
  /\ Awaits(h, "update")
  /\ projects' = (projects \ ProjectRows(edit[h].project))
                   \cup {[r EXCEPT !.name = edit[h].name] : r \in ProjectRows(edit[h].project)}
  /\ Answer(h)
  /\ UNCHANGED <<prompts, promptRuns, edits, strayed>>

\* A brand with runs keeps its name.
CountBrandRuns(h) ==
  /\ Awaits(h, "count")
  /\ IF RunsOf(PromptsOf(edit[h].project)) # {} THEN Answer(h) ELSE Goes(h, "list")
  /\ UNCHANGED <<projects, prompts, promptRuns, edits, strayed>>

ListPrompts(h) ==
  /\ Awaits(h, "list")
  /\ edit' = [edit EXCEPT ![h].listed = PromptsOf(edit[h].project), ![h].step = "rename"]
  /\ UNCHANGED <<projects, prompts, promptRuns, edits, strayed>>

Relisted(h) ==
  IF PromptsOf(edit[h].project) = edit[h].listed THEN strayed ELSE strayed \cup {"relisted"}

\* Mutant of RenameBrand: the prompts are moved, and keep their ids.
MoveWithoutRekey(h) ==
  /\ Awaits(h, "rename")
  /\ ProjectRows(edit[h].project) # {} /\ ProjectRows(edit[h].name) = {}
  /\ projects' = (projects \ ProjectRows(edit[h].project))
                   \cup {[id |-> edit[h].name, name |-> edit[h].name]}
  /\ prompts' = {IF p.project = edit[h].project THEN [p EXCEPT !.project = edit[h].name] ELSE p :
                   p \in prompts}
  /\ strayed' = Relisted(h)
  /\ Answer(h)
  /\ UNCHANGED <<promptRuns, edits>>

\* rename_on_empty of the projects: one transaction.  Its statements wait for the rows
\* other requests have touched, so nothing comes in between that does not fail it.  All
\* prompts move; those that were listed, if they still have the id, get another.
Rekeyed(h, p) ==
  LET was == {q \in edit[h].listed : q.id = p.id}
      moved == IF p.project = edit[h].project THEN [p EXCEPT !.project = edit[h].name] ELSE p
  IN IF was = {} THEN moved
     ELSE [moved EXCEPT !.id = <<edit[h].name, (CHOOSE q \in was : TRUE).name>>]

RenameBrand(h) ==
  LET rows == {Rekeyed(h, p) : p \in prompts}
      changed == {p \in prompts : Rekeyed(h, p).id # p.id}
  IN /\ Awaits(h, "rename")
     /\ ProjectRows(edit[h].project) # {} /\ ProjectRows(edit[h].name) = {}
     /\ RunsOf(changed) = {}
     /\ Cardinality({p.id : p \in rows}) = Cardinality(prompts)
     /\ projects' = (projects \ ProjectRows(edit[h].project))
                      \cup {[id |-> edit[h].name, name |-> edit[h].name]}
     /\ prompts' = rows
     /\ strayed' = Relisted(h)
     /\ Answer(h)
     /\ UNCHANGED <<promptRuns, edits>>

LookForProject(h) ==
  /\ Awaits(h, "look")
  /\ IF ProjectRows(edit[h].name) # {} THEN Answer(h) ELSE Goes(h, "found")
  /\ UNCHANGED <<projects, prompts, promptRuns, edits, strayed>>

FoundProject(h) ==
  /\ Awaits(h, "found") /\ ProjectRows(edit[h].name) = {}
  /\ projects' = projects \cup {[id |-> edit[h].name, name |-> edit[h].name]}
  /\ Answer(h)
  /\ UNCHANGED <<prompts, promptRuns, edits, strayed>>

-----------------------------------------------------------------------------
\* create_prompt, update_prompt and delete_prompt.

\* brand_name_for: the brand as the database has it; or the one read at boot, when the row
\* is gone and equally when the read fails, and the request goes on.
ReadBrand(h) ==
  LET names == {r.name : r \in ProjectRows(edit[h].project)}
  IN /\ Awaits(h, "brand")
     /\ \E brand \in names \cup {Configured} :
          /\ edit' = [edit EXCEPT
               ![h].brand = brand,
               ![h].step = IF edit[h].op = "create" THEN "clash" ELSE "runs"]
          /\ strayed' = IF brand \in names THEN strayed ELSE strayed \cup {"misread"}
     /\ UNCHANGED <<projects, prompts, promptRuns, edits>>

NewId(h) == <<edit[h].brand, edit[h].name>>

\* The primary key, and the unique index on project and name.
Taken(id, project, name) ==
  \E p \in prompts : p.id = id \/ (p.project = project /\ p.name = name)

\* Two reads, neither of which decides: the insert is refused all the same.
LookForClash(h) ==
  /\ Awaits(h, "clash")
  /\ IF Taken(NewId(h), edit[h].project, edit[h].name) THEN Answer(h) ELSE Goes(h, "insert")
  /\ UNCHANGED <<projects, prompts, promptRuns, edits, strayed>>

InsertPrompt(h) ==
  /\ Awaits(h, "insert")
  /\ ~Taken(NewId(h), edit[h].project, edit[h].name)
  /\ ProjectRows(edit[h].project) # {}
  /\ prompts' = prompts \cup {[id |-> NewId(h), project |-> edit[h].project, name |-> edit[h].name]}
  /\ Answer(h)
  /\ UNCHANGED <<projects, promptRuns, edits, strayed>>

GetPrompt(h) ==
  /\ Awaits(h, "get")
  /\ IF \E p \in PromptRows(edit[h].id) : p.project = edit[h].project
     THEN Goes(h, IF edit[h].op = "update" THEN "brand" ELSE "runs")
     ELSE Answer(h)
  /\ UNCHANGED <<projects, prompts, promptRuns, edits, strayed>>

\* A prompt with runs is neither renamed nor deleted; one that keeps its id has its
\* text updated.
CountPromptRuns(h) ==
  /\ Awaits(h, "runs")
  /\ IF edit[h].op = "update" /\ NewId(h) = edit[h].id THEN Answer(h)
     ELSE IF RunsOf(PromptRows(edit[h].id)) # {} THEN Answer(h)
     ELSE Goes(h, IF edit[h].op = "update" THEN "free" ELSE "delete")
  /\ UNCHANGED <<projects, prompts, promptRuns, edits, strayed>>

LookForNewId(h) ==
  /\ Awaits(h, "free")
  /\ IF PromptRows(NewId(h)) # {} THEN Answer(h) ELSE Goes(h, "rekey")
  /\ UNCHANGED <<projects, prompts, promptRuns, edits, strayed>>

\* Mutant of RenamePrompt: runs follow the id of their prompt (ON UPDATE CASCADE).
RenameWithRuns(h) ==
  LET old == PromptRows(edit[h].id)
  IN /\ Awaits(h, "rekey")
     /\ \A p \in old : ~\E q \in prompts \ old :
          q.id = NewId(h) \/ (q.project = p.project /\ q.name = edit[h].name)
     /\ prompts' = (prompts \ old) \cup {[p EXCEPT !.id = NewId(h), !.name = edit[h].name] : p \in old}
     /\ promptRuns' = {IF r.prompt = edit[h].id THEN [r EXCEPT !.prompt = NewId(h)] ELSE r :
                         r \in promptRuns}
     /\ Answer(h)
     /\ UNCHANGED <<projects, edits, strayed>>

\* The row may have gone: then nothing is updated, and the request succeeds.
RenamePrompt(h) ==
  LET old == PromptRows(edit[h].id)
  IN /\ Awaits(h, "rekey")
     /\ \A p \in old : ~\E q \in prompts \ old :
          q.id = NewId(h) \/ (q.project = p.project /\ q.name = edit[h].name)
     /\ RunsOf(old) = {}
     /\ prompts' = (prompts \ old) \cup {[p EXCEPT !.id = NewId(h), !.name = edit[h].name] : p \in old}
     /\ Answer(h)
     /\ UNCHANGED <<projects, promptRuns, edits, strayed>>

DeletePrompt(h) ==
  /\ Awaits(h, "delete") /\ RunsOf(PromptRows(edit[h].id)) = {}
  /\ prompts' = prompts \ PromptRows(edit[h].id)
  /\ Answer(h)
  /\ UNCHANGED <<projects, promptRuns, edits, strayed>>

-----------------------------------------------------------------------------
\* Runs of the API and the schedule, and of the command line.

FindPrompt(h) ==
  /\ Awaits(h, "find")
  /\ LET found == {p \in PromptsOf(edit[h].project) : p.name = edit[h].name}
     IN IF found = {} THEN Answer(h)
        ELSE \E p \in found :
               edit' = [edit EXCEPT ![h] = [op |-> "run", step |-> "store", id |-> p.id, name |-> p.name]]
  /\ UNCHANGED <<projects, prompts, promptRuns, edits, strayed>>

StoreRun(h) ==
  /\ Awaits(h, "store") /\ PromptRows(edit[h].id) # {}
  /\ promptRuns' = promptRuns \cup {[prompt |-> edit[h].id, asked |-> edit[h].name]}
  /\ Answer(h)
  /\ UNCHANGED <<projects, prompts, edits, strayed>>

\* persist_records takes every id from the names in anseo.yaml, whatever the database
\* calls the brand by now.
UpsertProject(h) ==
  /\ Awaits(h, "project")
  /\ projects' = (projects \ ProjectRows(edit[h].project))
                   \cup {[id |-> edit[h].project, name |-> edit[h].project]}
  /\ Goes(h, "prompt")
  /\ UNCHANGED <<prompts, promptRuns, edits, strayed>>

UpsertPrompt(h) ==
  LET id == <<edit[h].project, edit[h].name>>
  IN /\ Awaits(h, "prompt")
     /\ \/ PromptRows(id) # {} /\ UNCHANGED prompts
        \/ /\ ~Taken(id, edit[h].project, edit[h].name) /\ ProjectRows(edit[h].project) # {}
           /\ prompts' = prompts \cup {[id |-> id, project |-> edit[h].project, name |-> edit[h].name]}
     /\ edit' = [edit EXCEPT ![h] = [op |-> "cli", step |-> "store", id |-> id, name |-> edit[h].name]]
     /\ UNCHANGED <<projects, promptRuns, edits, strayed>>

BrandNext ==
  \E h \in Editors :
    \/ BeginEdit(h) \/ FailEdit(h)
    \/ FindRow(h) \/ RestoreRow(h) \/ UpdateBrand(h)
    \/ CountBrandRuns(h) \/ ListPrompts(h) \/ RenameBrand(h)
    \/ LookForProject(h) \/ FoundProject(h)
    \/ ReadBrand(h) \/ LookForClash(h) \/ InsertPrompt(h)
    \/ GetPrompt(h) \/ CountPromptRuns(h) \/ LookForNewId(h) \/ RenamePrompt(h) \/ DeletePrompt(h)
    \/ FindPrompt(h) \/ StoreRun(h) \/ UpsertProject(h) \/ UpsertPrompt(h)

BrandSpec == BrandInit /\ [][BrandNext]_brandVars

-----------------------------------------------------------------------------
\* A stored run keeps its prompt, and the prompt the name it was asked under: neither a
\* rename nor a deletion whose count of runs is out of date, of the prompt or of the
\* brand, takes the prompt from a run stored since.
RunsKeepTheirPrompt ==
  \A r \in promptRuns : \E p \in PromptRows(r.prompt) : p.name = r.asked

\* Ids can be computed from names, on which the command line and the resolution of a
\* project rely.  A project's id is that of its name, unless a request whose project was
\* renamed away has put it back under a new name.  A prompt's id is that of its project's
\* name and its own, unless besides a brand was renamed after its prompts were listed and
\* changed since, or brand_name_for gave a request a brand its project does not have.  A
\* failed read alone is no exception: it does no harm in the project named at boot.
IdsAreDerived ==
  /\ "restored" \notin strayed => \A r \in projects : r.id = r.name
  /\ strayed = {} => \A p \in prompts : p.id = <<p.project, p.name>>
===============================================================================
