---------------------------- MODULE SessionContext ----------------------------
(***************************************************************************)
(* What rekall_context answers: the anchors of a request are loaded one    *)
(* after the other, each in a snapshot of its own, every record brings the *)
(* records it refers to along, and the renderer writes each anchor once.   *)
(* People edit between two loads.  A record's text is reduced to what      *)
(* decides how it reads: the labels it names, whether it has a checklist   *)
(* and how its note travels.                                               *)
(***************************************************************************)
EXTENDS Naturals, FiniteSets, Sequences
LOCAL INSTANCE SequencesExt

CONSTANTS
    Worlds,      \* the catalogs a request may meet
    Requests,    \* the requests, sequences of anchors
    Values,      \* labels, names and note prefixes
    MaxEdits     \* bound: edits while a request is answered

ASSUME ContextConstants == MaxEdits \in Nat

VARIABLES
    world,       \* the rows: companies, projects, tasks and the notes on tasks
    request,     \* the anchors asked for; empty before the call
    loaded,      \* the records loaded so far
    answer,      \* the records as rendered, or why there is none
    edits        \* edits so far

contexts == <<world, request, loaded, answer, edits>>

(* Rows: a task names labels in its text, may have a checklist and one note *)
ReadCompanyRow == [name : Values]
ReadProjectRow == [label : Values, company : Nat]
ReadTaskRow    == [label : Values, project : Nat, epic : Nat, isEpic : BOOLEAN,
               names : Seq(Values), steps : BOOLEAN, note : {"none", "FULL", "REFERENCE"}]

ReadCompanies == DOMAIN world.company
ReadProjects  == DOMAIN world.project
ReadTasks     == DOMAIN world.task

(* Anchor: an entity, or "any" for a bare value, and the value *)
AnchorOf(entity, value) == [entity |-> entity, value |-> value]

(* ContextRecord, without the text *)
Blank == [kind |-> "none", anchor |-> AnchorOf("any", 0), of |-> 0, role |-> "asked",
          references |-> <<>>, related |-> {}, steps |-> FALSE, inFull |-> FALSE, note |-> "none"]

-----------------------------------------------------------------------------
(* Siblings in the order of the list; identifiers stand for it *)
Siblings(p) == {t \in ReadTasks : world.task[t].project = p}

(* render_company *)
RenderCompany(c) ==
    [Blank EXCEPT !.kind = "Company", !.of = c, !.anchor = AnchorOf("company", world.company[c].name),
                  !.related = {AnchorOf("project", world.project[p].label) :
                                   p \in {q \in ReadProjects : world.project[q].company = c}}]

(* referenced_company: with no list of its other projects *)
ReferencedCompany(c) == [RenderCompany(c) EXCEPT !.role = "brought", !.related = {}]

(* render_project *)
RenderProject(p) ==
    [Blank EXCEPT !.kind = "Project", !.of = p, !.anchor = AnchorOf("project", world.project[p].label),
                  !.references = <<ReferencedCompany(world.project[p].company)>>,
                  !.related = {AnchorOf("task", world.task[t].label) : t \in Siblings(p)}]

(* referenced_project: in full, but with no list of the tasks around it *)
ReferencedProject(p) == [RenderProject(p) EXCEPT !.role = "brought", !.related = {}]

(* task_record, which brings nothing along *)
TaskRecord(t) ==
    LET row == world.task[t]
    IN  [Blank EXCEPT !.kind = IF row.isEpic THEN "Epic" ELSE "Task", !.of = t,
                      !.anchor = AnchorOf("task", row.label),
                      !.related = {AnchorOf("task", world.task[c].label) : c \in {s \in Siblings(row.project) : world.task[s].epic = t}},
                      !.steps = row.steps, !.note = row.note, !.inFull = row.note = "FULL"]

(* referenced_task: as background, without its checklist *)
ReferencedTask(t) == [TaskRecord(t) EXCEPT !.role = "named", !.steps = FALSE]

(* inherited_epic: its notes and description in full, part of the brief *)
InheritedEpic(t) == [TaskRecord(t) EXCEPT !.role = "inherited"]

(* referenced_tasks: the others of the project its text names, once each, in the order first named *)
ReferencedTasks(t) ==
    LET row == world.task[t]
        Named(label) == {s \in Siblings(row.project) \ {t} : world.task[s].label = label}
        first == {k \in DOMAIN row.names : \A j \in 1 .. k - 1 : row.names[j] # row.names[k]}
        kept  == {k \in first : Named(row.names[k]) # {}}
        at    == SetToSortSeq(kept, <)
    IN  [k \in DOMAIN at |-> CHOOSE s \in Named(row.names[at[k]]) : TRUE]

(* epic_of *)
EpicOf(t) == {e \in Siblings(world.task[t].project) : world.task[t].epic = e}

(* render_task: the project, the epic, then each task its text names *)
RenderTask(t) ==
    LET named == ReferencedTasks(t)
    IN  [TaskRecord(t) EXCEPT !.references =
            <<ReferencedProject(world.task[t].project)>> \o
            [k \in 1 .. Cardinality(EpicOf(t)) |-> InheritedEpic(world.task[t].epic)] \o
            [k \in DOMAIN named |-> ReferencedTask(named[k])]]

(* render_single_note: in full, whatever its mode *)
RenderSingleNote(t) ==
    [Blank EXCEPT !.kind = "Note", !.of = t, !.anchor = AnchorOf("note", t), !.note = world.task[t].note,
                  !.inFull = TRUE, !.related = {AnchorOf("task", world.task[t].label)}]

(* find_by_name, find_by_label, find_by_anchor_prefix *)
CompaniesNamed(v) == {c \in ReadCompanies : world.company[c].name = v}
ProjectsNamed(v)  == {p \in ReadProjects : world.project[p].label = v}
TasksNamed(v)     == {t \in ReadTasks : world.task[t].label = v}
NotesNamed(v)     == {t \in ReadTasks : t = v /\ world.task[t].note # "none"}

(* load_in: the records that match; the call fails unless one does *)
LoadIn(anchor) ==
    LET companies == {RenderCompany(c) : c \in CompaniesNamed(anchor.value)}
        projects  == {RenderProject(p) : p \in ProjectsNamed(anchor.value)}
        tasks     == {RenderTask(t) : t \in TasksNamed(anchor.value)}
    IN  CASE anchor.entity = "company" -> companies
          [] anchor.entity = "project" -> projects
          [] anchor.entity = "task"    -> tasks
          [] anchor.entity = "note"    -> {RenderSingleNote(t) : t \in NotesNamed(anchor.value)}
          [] anchor.entity = "any"     -> companies \cup projects \cup tasks

(* load_task: the task of the project that both labels name; of two, the first *)
LoadTask(projectLabel, taskLabel) ==
    LET found == {t \in TasksNamed(taskLabel) : world.project[world.task[t].project].label = projectLabel}
    IN  {RenderTask(t) : t \in {s \in found : \A r \in found : s <= r}}

(* ContextTool::load takes a project and a task together *)
IsPair == Len(request) = 2 /\ request[1].entity = "project" /\ request[2].entity = "task"

-----------------------------------------------------------------------------
RECURSIVE RenderRecords(_, _)

(* render and render_record: depth first, an anchor already written skipped with all it brings *)
RenderRecords(rs, out) ==
    IF rs = <<>> THEN out
    ELSE LET r == Head(rs)
         IN  IF \E k \in DOMAIN out : out[k].anchor = r.anchor
             THEN RenderRecords(Tail(rs), out)
             ELSE RenderRecords(r.references \o Tail(rs), Append(out, r))

Silent  == [is |-> "none", text |-> <<>>]
Refused == [is |-> "refused", text |-> <<>>]

Ask(r) ==
    /\ request = <<>>
    /\ request' = r
    /\ UNCHANGED <<world, loaded, answer, edits>>

(* One load of ContextTool::load, in its own snapshot *)
Load ==
    /\ Len(loaded) < Len(request) /\ answer = Silent
    /\ LET at    == Len(loaded) + 1
           found == IF IsPair /\ at = 2 THEN LoadTask(request[1].value, request[2].value) ELSE LoadIn(request[at])
       IN  IF Cardinality(found) = 1
           THEN loaded' = loaded \o SetToSeq(found) /\ UNCHANGED answer
           ELSE answer' = Refused /\ UNCHANGED loaded
    /\ UNCHANGED <<world, request, edits>>

(* ContextTool::execute, once everything is loaded *)
Render ==
    /\ request # <<>> /\ Len(loaded) = Len(request) /\ answer = Silent
    /\ answer' = [is |-> "text", text |-> RenderRecords(loaded, <<>>)]
    /\ UNCHANGED <<world, request, loaded, edits>>

(* A task gets its checklist, or another label, while the call is answered *)
EditTask(t, row) ==
    /\ request # <<>> /\ answer = Silent /\ edits < MaxEdits
    /\ row # world.task[t] /\ (row.isEpic => ~row.steps)
    /\ \A s \in Siblings(row.project) \ {t} : world.task[s].label # row.label
    /\ world' = [world EXCEPT !.task[t] = row]
    /\ edits' = edits + 1
    /\ UNCHANGED <<request, loaded, answer>>

ContextInit == world \in Worlds /\ request = <<>> /\ loaded = <<>> /\ answer = Silent /\ edits = 0

ContextNext ==
    \/ \E r \in Requests : Ask(r)
    \/ Load \/ Render
    \/ \E t \in ReadTasks : \E row \in {[world.task[t] EXCEPT !.steps = TRUE], [world.task[t] EXCEPT !.label = 3]} : EditTask(t, row)

-----------------------------------------------------------------------------
Answered == answer.is = "text"
AnswerRows  == {answer.text[k] : k \in DOMAIN answer.text}

(* referenced_task: "its open steps are never read as the work": a checklist *)
(* in the answer belongs to a record the request itself loaded, however the  *)
(* requested tasks name each other.                                          *)
StepsAreTheWork ==
    Answered => \A r \in AnswerRows : r.steps => \E k \in DOMAIN loaded : loaded[k] = r

(* context_service.rs, for_task: the brief of a task asked for alone or with *)
(* its project is whole: its project, their company and its epic are there,  *)
(* none pushed out by a record of the same anchor.                           *)
BriefIsWhole ==
    Answered /\ (IsPair \/ Len(request) = 1) =>
        \A r \in AnswerRows : r.kind = "Task" /\ r.role = "asked" =>
            /\ \E q \in AnswerRows : q.kind = "Project" /\ q.of = world.task[r.of].project
            /\ \E q \in AnswerRows : q.kind = "Company" /\ q.of = world.project[world.task[r.of].project].company
            /\ \A e \in EpicOf(r.of) : \E q \in AnswerRows : q.role = "inherited" /\ q.of = e

-----------------------------------------------------------------------------
(* ContextSizeService *)

(* The size of a record's own text, one for the heading and each part *)
OwnSize(r) == 1 + (IF r.steps THEN 1 ELSE 0) + (IF r.inFull THEN 1 ELSE 0) + Cardinality(r.related)

Total(rs) == FoldLeft(LAMBDA n, r : n + OwnSize(r), 0, rs)

ForTask(t) == <<RenderProject(world.task[t].project), RenderTask(t)>>

(* measure: the parts of the task's own record, then each record of kind Task *)
(* or Epic it brings, counted by itself                                       *)
Measured(t) ==
    LET task    == RenderTask(t)
        brought == SelectSeq(task.references, LAMBDA r : r.kind \in {"Task", "Epic"})
    IN  OwnSize(task) - 1 - Cardinality(task.related) + Total(brought)

NamesItsEpic(t) == \E e \in EpicOf(t) : \E k \in DOMAIN world.task[t].names : world.task[t].names[k] = world.task[e].label

(* ContextSizeService: the parts shown are parts of the context measured, so *)
(* that what is left for the project and the headings is never negative,     *)
(* unless a task names its own epic, whose record is counted twice.          *)
PartsFitTotal ==
    \A t \in ReadTasks : ~NamesItsEpic(t) => Measured(t) <= Total(RenderRecords(ForTask(t), <<>>))

(* The rows have the columns the reading repositories fetch *)
ReadTypes ==
    /\ \A c \in ReadCompanies : world.company[c] \in ReadCompanyRow
    /\ \A p \in ReadProjects : world.project[p] \in ReadProjectRow
    /\ \A t \in ReadTasks : world.task[t] \in ReadTaskRow

(* What a session is given of the records it asked for.                       *)
ContextInv == ReadTypes /\ StepsAreTheWork /\ BriefIsWhole /\ PartsFitTotal
=============================================================================
