------------------------------ MODULE Catalog ------------------------------
(***************************************************************************)
(* Companies, projects and tasks as the console writes them: the labels    *)
(* anchors are made of, epics and the tasks they gather, tags, and what a  *)
(* task waits for.  Every operation is one transaction.  Names and labels  *)
(* are what a person types: Fold is a name without its case, Slug the      *)
(* label that is stored.                                                   *)
(***************************************************************************)
EXTENDS Naturals, FiniteSets

CONSTANTS
    Company, Proj, Task, Tag,   \* identifiers of rows; 0 is none
    Name, Fold,                 \* what companies and tags are called (not 0), without case
    Label, Slug,                \* what projects and tasks are labelled, as stored
    Placed,                     \* bound: the tasks written while companies and projects change
    MaxMoves                    \* bound on updates

ASSUME CatalogConstants ==
    /\ 0 \notin Company \cup Proj \cup Task \cup Tag \cup Name
    /\ Fold \in [Name -> Name] /\ DOMAIN Slug = Label /\ Placed \subseteq Task /\ MaxMoves \in Nat

VARIABLES
    company,   \* the name of each company
    proj,      \* the project rows
    task,      \* the task rows
    tag,       \* the name of each tag
    depends,   \* the dependency rows
    moves,     \* updates so far
    crossed    \* a task that others wait for, or that waits, changed project

catalog == <<company, proj, task, tag, depends, moves, crossed>>

CompanyRow == Name \cup {0}
ProjectRow == [company : Company \cup {0}, label : {Slug[l] : l \in Label} \cup {0}]
TaskRow == [project : Proj \cup {0}, label : {Slug[l] : l \in Label} \cup {0}, kind : {"TASK", "EPIC"},
            epic : Task \cup {0}, tag : Tag \cup {0}, steps : BOOLEAN, quick : BOOLEAN,
            status : {"TODO", "DONE"}, timing : BOOLEAN]
TagRow == Name \cup {0}
DependencyRow == [task : Task, on : Task]

NoProject == [company |-> 0, label |-> 0]
NoTask == [project |-> 0, label |-> 0, kind |-> "TASK", epic |-> 0, tag |-> 0, steps |-> FALSE,
           quick |-> FALSE, status |-> "TODO", timing |-> FALSE]

Companies == {c \in Company : company[c] # 0}
Projects  == {p \in Proj : proj[p].company # 0}
Tasks     == {t \in Task : task[t].project # 0}
TasksOf(p) == {t \in Tasks : task[t].project = p}
Children(e) == {t \in Tasks : task[t].epic = e}

Moved == moves < MaxMoves /\ moves' = moves + 1

-----------------------------------------------------------------------------
(* CompanyService *)

NameTaken(name, except) == \E c \in Companies \ except : Fold[company[c]] = Fold[name]

PutCompany(c, name) ==
    /\ Moved
    /\ ~NameTaken(name, {c})
    /\ company' = [company EXCEPT ![c] = name]
    /\ UNCHANGED <<proj, task, tag, depends, crossed>>

(* What the foreign keys take with the tasks ts: dependencies of either end; *)
(* an epic leaves its tasks without one                                      *)
WithoutTasks(ts) ==
    /\ task' = [t \in Task |-> IF t \in ts THEN NoTask
                               ELSE IF task[t].epic \in ts THEN [task[t] EXCEPT !.epic = 0] ELSE task[t]]
    /\ depends' = {d \in depends : {d.task, d.on} \cap ts = {}}

DeleteCompany(c) ==
    LET ps == {p \in Projects : proj[p].company = c}
    IN  /\ c \in Companies /\ Moved
        /\ company' = [company EXCEPT ![c] = 0]
        /\ proj' = [p \in Proj |-> IF p \in ps THEN NoProject ELSE proj[p]]
        /\ WithoutTasks(UNION {TasksOf(p) : p \in ps})
        /\ UNCHANGED <<tag, crossed>>

(* ProjectService::create, update and delete *)
ProjectLabelTaken(c, label, except) == \E p \in Projects \ except : proj[p] = [company |-> c, label |-> label]

PutProject(p, c, l) ==
    /\ c \in Companies /\ Moved
    /\ ~ProjectLabelTaken(c, Slug[l], {p})
    /\ proj' = [proj EXCEPT ![p] = [company |-> c, label |-> Slug[l]]]
    /\ UNCHANGED <<company, task, tag, depends, crossed>>

DeleteProject(p) ==
    /\ p \in Projects /\ Moved
    /\ proj' = [proj EXCEPT ![p] = NoProject]
    /\ WithoutTasks(TasksOf(p))
    /\ UNCHANGED <<company, tag, crossed>>

(* TagService *)
PutTag(g, name) ==
    /\ Moved
    /\ \A h \in Tag \ {g} : tag[h] # 0 => Fold[tag[h]] # Fold[name]
    /\ tag' = [tag EXCEPT ![g] = name]
    /\ UNCHANGED <<company, proj, task, depends, crossed>>

DeleteTag(g) ==
    /\ tag[g] # 0 /\ Moved
    /\ tag' = [tag EXCEPT ![g] = 0]
    /\ task' = [t \in Task |-> IF task[t].tag = g THEN [task[t] EXCEPT !.tag = 0] ELSE task[t]]
    /\ UNCHANGED <<company, proj, depends, crossed>>

-----------------------------------------------------------------------------
(* TaskService *)

(* require_joinable: an epic of the task's own project, one level deep *)
Joinable(t, kind, p, e) ==
    e # 0 => e \in Tasks /\ task[e].kind = "EPIC" /\ kind # "EPIC" /\ e # t /\ task[e].project = p

(* apply_request *)
RequestFits(t, p, kind, e, g) == Joinable(t, kind, p, e) /\ (g # 0 => tag[g] # 0)

TaskLabelTaken(p, label, except) == \E t \in TasksOf(p) \ except : task[t].label = label

ActiveQuick(p) == \E t \in TasksOf(p) : task[t].quick /\ task[t].status = "TODO"

CreateTask(t, p, l, kind, e, g, quick) ==
    /\ task[t] = NoTask /\ p \in Projects
    /\ RequestFits(t, p, kind, e, g)
    /\ ~TaskLabelTaken(p, Slug[l], {})
    /\ quick => ~ActiveQuick(p)
    /\ task' = [task EXCEPT ![t] = [NoTask EXCEPT !.project = p, !.label = Slug[l], !.kind = kind,
                                                  !.epic = e, !.tag = g, !.quick = quick]]
    /\ UNCHANGED <<company, proj, tag, depends, moves, crossed>>

(* require_epic_kept_whole *)
EpicKeptWhole(t, kind, p) ==
    task[t].kind = "EPIC" /\ (kind # "EPIC" \/ p # task[t].project) => Children(t) = {}

(* require_epic_stepless *)
EpicStepless(t, kind) == kind = "EPIC" => ~task[t].steps

(* update; the entry a changed description leaves in the thread is TaskThread's *)
UpdateTask(t, p, l, kind, e, g, status) ==
    /\ t \in Tasks /\ p \in Projects /\ Moved
    /\ RequestFits(t, p, kind, e, g)
    /\ ~TaskLabelTaken(p, Slug[l], {t})
    /\ EpicKeptWhole(t, kind, p)
    /\ EpicStepless(t, kind)
    /\ task' = [task EXCEPT ![t] =
                   [task[t] EXCEPT !.project = p, !.label = Slug[l], !.kind = kind, !.epic = e, !.tag = g,
                                   !.status = status,
                                   !.timing = @ /\ ~(status = "DONE" /\ task[t].status # "DONE")]]
    /\ crossed' = (crossed \/ (p # task[t].project /\ \E d \in depends : t \in {d.task, d.on}))
    /\ UNCHANGED <<company, proj, tag, depends>>

DeleteTask(t) ==
    /\ t \in Tasks /\ Moved
    /\ WithoutTasks({t})
    /\ UNCHANGED <<company, proj, tag, crossed>>

(* A step and a timer of the task (TaskStepService::insert_in, TimeEntryService::start) *)
StartWork(t) ==
    /\ t \in Tasks /\ task[t].kind # "EPIC" /\ ~task[t].steps
    /\ task' = [task EXCEPT ![t] = [@ EXCEPT !.steps = TRUE, !.timing = TRUE]]
    /\ UNCHANGED <<company, proj, tag, depends, moves, crossed>>

-----------------------------------------------------------------------------
(* TaskDependencyService *)

(* The tasks the walk of closes_a_cycle pops, from t along the pairs ds: those *)
(* in every set that holds t and, with a task, what the task waits for         *)
Closed(ds, ts) == \A d \in ds : d.task \in ts => d.on \in ts
WaitsFor(ds, t) == {u \in Task : \A ts \in SUBSET Task : t \in ts /\ Closed(ds, ts) => u \in ts}

(* Mutant: only a task that waits for itself directly is refused *)
ClosesDirectly(t, on) == t = on \/ [task |-> on, on |-> t] \in depends

(* require_no_cycle, among the dependencies of the project's tasks *)
ClosesACycle(t, on) ==
    t = on \/ t \in WaitsFor({d \in depends : task[d.task].project = task[t].project}, on)

(* require_allowed *)
Allowed(t, on) ==
    /\ task[t].kind # "EPIC" /\ task[on].kind # "EPIC"
    /\ task[t].project = task[on].project
    /\ [task |-> t, on |-> on] \notin depends
    /\ ~ClosesACycle(t, on)

AddDependency(t, on) ==
    /\ {t, on} \subseteq Tasks
    /\ Allowed(t, on)
    /\ depends' = depends \cup {[task |-> t, on |-> on]}
    /\ UNCHANGED <<company, proj, task, tag, moves, crossed>>

RemoveDependency(d) ==
    /\ d \in depends
    /\ depends' = depends \ {d}
    /\ UNCHANGED <<company, proj, task, tag, moves, crossed>>

-----------------------------------------------------------------------------
PlacesInit ==
    /\ company = [c \in Company |-> 0] /\ proj = [p \in Proj |-> NoProject]
    /\ task = [t \in Task |-> NoTask] /\ tag = [g \in Tag |-> 0]
    /\ depends = {} /\ moves = 0 /\ crossed = FALSE

PlacesNext ==
    \/ \E c \in Company : DeleteCompany(c) \/ \E n \in Name : PutCompany(c, n)
    \/ \E p \in Proj : DeleteProject(p) \/ \E c \in Company, l \in Label : PutProject(p, c, l)
    \/ \E g \in Tag : DeleteTag(g) \/ \E n \in Name : PutTag(g, n)
    \/ \E t \in Placed, p \in Proj, l \in Label, g \in Tag \cup {0} :
          CreateTask(t, p, l, "TASK", 0, g, TRUE) \/ UpdateTask(t, p, l, "TASK", 0, g, "TODO")

(* One company with every project, before its tasks are written *)
TasksInit ==
    /\ LET c == CHOOSE c \in Company : TRUE
       IN  /\ company = [d \in Company |-> IF d = c THEN CHOOSE n \in Name : TRUE ELSE 0]
           /\ proj = [p \in Proj |-> [company |-> c, label |-> p]]
    /\ task = [t \in Task |-> NoTask] /\ tag = [g \in Tag |-> 0]
    /\ depends = {} /\ moves = 0 /\ crossed = FALSE

(* Each task under a label of its own *)
TasksNext ==
    \/ \E t \in Task, p \in Proj, kind \in {"TASK", "EPIC"}, e \in Task \cup {0} :
          \E l \in {x \in Label : Slug[x] = t} :
             CreateTask(t, p, l, kind, e, 0, FALSE) \/ UpdateTask(t, p, l, kind, e, 0, "DONE")
    \/ \E t \in Task : DeleteTask(t) \/ StartWork(t) \/ \E on \in Task : AddDependency(t, on)
    \/ \E d \in depends : RemoveDependency(d)

-----------------------------------------------------------------------------
(* "An anchor has to name one record": however companies and projects are    *)
(* renamed and moved, a company's name, a project's label and a task's label *)
(* together name at most one task, and the first two at most one project.    *)
AnchorsNameOne ==
    /\ \A c, d \in Companies : Fold[company[c]] = Fold[company[d]] => c = d
    /\ \A p, q \in Projects : proj[p] = proj[q] => p = q
    /\ \A t, u \in Tasks : task[t].project = task[u].project /\ task[t].label = task[u].label => t = u

(* Foreign keys: no row points at a parent that is not there.                 *)
ParentsAreThere ==
    /\ \A p \in Projects : proj[p].company \in Companies
    /\ \A t \in Tasks : /\ task[t].project \in Projects
                        /\ task[t].epic \in Tasks \cup {0}
                        /\ task[t].tag # 0 => tag[task[t].tag] # 0
    /\ \A d \in depends : {d.task, d.on} \subseteq Tasks

(* require_joinable and require_epic_kept_whole: an epic gathers plain tasks  *)
(* of its own project, one level deep, whatever is retyped, moved or deleted  *)
(* on either side, and never has steps.                                       *)
EpicsHoldTheirTasks ==
    \A t \in Tasks :
        /\ task[t].epic # 0 => /\ task[task[t].epic].kind = "EPIC"
                               /\ task[task[t].epic].project = task[t].project
                               /\ task[t].kind = "TASK"
        /\ task[t].kind = "EPIC" => ~task[t].steps

Acyclic == \A t \in Tasks : \A d \in depends : d.task = t => t \notin WaitsFor(depends, d.on)

(* closes_a_cycle: no task waits, through any number of others, for itself,   *)
(* as long as no task that waits or is waited for changes project.            *)
NoTaskWaitsForItself == ~crossed => Acyclic

(* require_no_cycle, "that would make a task wait, directly or through        *)
(* others, for itself": whatever moves.                                       *)
NeverWaitsForItself == Acyclic

(* The rows have the columns the entities declare *)
CatalogTypes ==
    /\ company \in [Company -> CompanyRow] /\ proj \in [Proj -> ProjectRow]
    /\ task \in [Task -> TaskRow] /\ tag \in [Tag -> TagRow] /\ depends \subseteq DependencyRow

(* The catalog through every sequence of creations, renames, moves, changes   *)
(* of kind and deletions.                                                     *)
CatalogInv == CatalogTypes /\ AnchorsNameOne /\ ParentsAreThere /\ EpicsHoldTheirTasks /\ NoTaskWaitsForItself
=============================================================================
