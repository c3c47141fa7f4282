----------------------------- MODULE RecordsProofs -----------------------------
(***************************************************************************)
(* Proofs about the records a person and the sessions write: the catalog   *)
(* of companies, projects and tasks with their dependencies, notes and the *)
(* tasks they are on, and the sections of a project.                       *)
(***************************************************************************)
EXTENDS Catalog, Notes, FiniteSetTheorems, TLAPS

USE Zenon

-----------------------------------------------------------------------------
(* The catalog *)

(* The whole catalog, written by a person in any order from an empty         *)
(* database: every operation of the console with every argument it takes.    *)
CatalogNext ==
    \/ \E c \in Company : DeleteCompany(c) \/ \E n \in Name : PutCompany(c, n)
    \/ \E p \in Proj : DeleteProject(p) \/ \E c \in Company, l \in Label : PutProject(p, c, l)
    \/ \E g \in Tag : DeleteTag(g) \/ \E n \in Name : PutTag(g, n)
    \/ \E t \in Task, p \in Proj, l \in Label, kind \in {"TASK", "EPIC"}, e \in Task \cup {0}, g \in Tag \cup {0} :
          \/ \E quick \in BOOLEAN : CreateTask(t, p, l, kind, e, g, quick)
          \/ \E status \in {"TODO", "DONE"} : UpdateTask(t, p, l, kind, e, g, status)
    \/ \E t \in Task : DeleteTask(t) \/ StartWork(t) \/ \E on \in Task : AddDependency(t, on)
    \/ \E d \in depends : RemoveDependency(d)

CatalogSpec == PlacesInit /\ [][CatalogNext]_catalog

(* What require_allowed asks of a new pair, of every pair: both ends in one   *)
(* project, as long as no end of a pair changed project                       *)
PairsInside == ~crossed => \A d \in depends : task[d.task].project = task[d.on].project

CatalogHold == CatalogInv /\ PairsInside

NoCycle(ds) == \A d \in ds : d.task \notin WaitsFor(ds, d.on)

(* The walk starts where it is told, and goes on from every task it pops      *)
LEMMA WalkGoesOn ==
    ASSUME NEW ds, ds \subseteq DependencyRow, NEW t \in Task
    PROVE  t \in WaitsFor(ds, t) /\ WaitsFor(ds, t) \subseteq Task /\ Closed(ds, WaitsFor(ds, t))
<1>1. t \in WaitsFor(ds, t) /\ WaitsFor(ds, t) \subseteq Task
  BY DEF WaitsFor
<1>2. ASSUME NEW d \in ds, d.task \in WaitsFor(ds, t) PROVE d.on \in WaitsFor(ds, t)
  <2>1. d.on \in Task
    BY DEF DependencyRow
  <2>2. ASSUME NEW ts \in SUBSET Task, t \in ts, Closed(ds, ts) PROVE d.on \in ts
    <3>1. d.task \in ts
      BY <1>2, <2>2 DEF WaitsFor
    <3> QED BY <2>2, <3>1 DEF Closed
  <2> QED BY <2>1, <2>2 DEF WaitsFor
<1> QED BY <1>1, <1>2 DEF Closed

(* and it pops nothing that a set closed under the pairs leaves out           *)
LEMMA WalkStaysIn ==
    ASSUME NEW ds, NEW ts \in SUBSET Task, NEW t \in ts, Closed(ds, ts)
    PROVE  WaitsFor(ds, t) \subseteq ts
BY DEF WaitsFor

(* Pairs taken away lengthen no walk                                          *)
LEMMA FewerPairs ==
    ASSUME NEW ds, NEW es \in SUBSET ds, NoCycle(ds)
    PROVE  NoCycle(es)
<1>1. ASSUME NEW t PROVE WaitsFor(es, t) \subseteq WaitsFor(ds, t)
  <2>1. ASSUME NEW ts, Closed(ds, ts) PROVE Closed(es, ts)
    BY <2>1 DEF Closed
  <2> QED BY <2>1 DEF WaitsFor
<1> QED BY <1>1 DEF NoCycle

(* closes_a_cycle: a pair the walk does not close over leaves the pairs       *)
(* without a cycle                                                            *)
LEMMA NoCycleAdded ==
    ASSUME NEW ds, ds \subseteq DependencyRow, NoCycle(ds),
           NEW t \in Task, NEW on \in Task, t \notin WaitsFor(ds, on)
    PROVE  NoCycle(ds \cup {[task |-> t, on |-> on]})
<1> DEFINE es == ds \cup {[task |-> t, on |-> on]}
           beyond == WaitsFor(ds, on)
<1>1. on \in beyond /\ beyond \in SUBSET Task /\ Closed(ds, beyond)
  BY WalkGoesOn
<1>2. Closed(es, beyond)
  BY <1>1, SMTT(60) DEF Closed
<1>3. t \notin WaitsFor(es, on)
  BY <1>1, <1>2, WalkStaysIn
<1>4. ASSUME NEW d \in ds, d.task \in WaitsFor(es, d.on) PROVE FALSE
  <2> DEFINE near == WaitsFor(ds, d.on)
  <2>1. d.task \in Task /\ d.on \in Task
    BY DEF DependencyRow
  <2>2. d.on \in near /\ near \in SUBSET Task /\ Closed(ds, near)
    BY <2>1, WalkGoesOn
  <2>3. d.task \notin near
    BY DEF NoCycle
  <2>4. CASE t \notin near
    <3>1. Closed(es, near)
      BY <2>2, <2>4, SMTT(60) DEF Closed
    <3>2. WaitsFor(es, d.on) \subseteq near
      BY <2>2, <3>1, WalkStaysIn
    <3> QED BY <1>4, <2>3, <3>2
  <2>5. CASE t \in near
    <3>1. near \cup beyond \in SUBSET Task /\ d.on \in near \cup beyond
      BY <1>1, <2>2
    <3>2. Closed(es, near \cup beyond)
      BY <1>1, <2>2, SMTT(60) DEF Closed
    <3> HIDE DEF near, beyond
    <3>3. WaitsFor(es, d.on) \subseteq near \cup beyond
      BY <3>1, <3>2, WalkStaysIn
    <3>4. d.task \in beyond
      BY <1>4, <2>3, <3>3
    <3>5. d.on \in beyond
      BY <1>1, <3>4 DEF Closed
    <3>6. near \subseteq beyond
      BY <1>1, <3>5, WalkStaysIn DEF near
    <3> QED BY <2>5, <3>6 DEF beyond
  <2> QED BY <2>4, <2>5
<1> HIDE DEF es
<1>5. ASSUME NEW d \in es PROVE d.task \notin WaitsFor(es, d.on)
  <2>1. CASE d \in ds
    BY <1>4, <2>1
  <2>2. CASE d = [task |-> t, on |-> on]
    <3>1. d.task = t /\ d.on = on
      BY <2>2
    <3> QED BY <1>3, <3>1
  <2> QED BY <2>1, <2>2 DEF es
<1>6. NoCycle(es)
  BY <1>5 DEF NoCycle
<1> QED BY <1>6 DEF es

(* Pairs that end, and ends that stay in their project, close no cycle        *)
LEMMA CyclesHold ==
    ASSUME CatalogHold, depends' \subseteq depends, crossed' = FALSE => crossed = FALSE,
           crossed \in BOOLEAN, crossed' \in BOOLEAN,
           crossed' = FALSE => \A d \in depends' : /\ task'[d.task].project = task[d.task].project
                                                   /\ task'[d.on].project = task[d.on].project
    PROVE  NoTaskWaitsForItself' /\ PairsInside'
<1>1. ASSUME crossed' = FALSE PROVE Acyclic'
  <2>1. crossed = FALSE
    BY <1>1
  <2>2. NoCycle(depends)
    BY <2>1 DEF CatalogHold, CatalogInv, NoTaskWaitsForItself, Acyclic, NoCycle, ParentsAreThere
  <2>3. NoCycle(depends')
    BY <2>2, FewerPairs
  <2> QED BY <2>3 DEF Acyclic, NoCycle
<1>2. ASSUME crossed' = FALSE, NEW d \in depends' PROVE task'[d.task].project = task'[d.on].project
  BY <1>2 DEF CatalogHold, PairsInside
<1> QED BY <1>1, <1>2 DEF NoTaskWaitsForItself, PairsInside

CatalogShape == CatalogHold /\ crossed \in BOOLEAN

(* Anchors of what a step leaves alone                                        *)
LEMMA CompaniesStand ==
    ASSUME CatalogShape, company' = company, Companies' = Companies
    PROVE  \A c, d \in Companies' : Fold[company'[c]] = Fold[company'[d]] => c = d
<1>1. \A c, d \in Companies : Fold[company[c]] = Fold[company[d]] => c = d
  BY DEF CatalogShape, CatalogHold, CatalogInv, AnchorsNameOne
<1> QED BY <1>1

(* of the projects                                                            *)
LEMMA ProjectsStand ==
    ASSUME CatalogShape, proj' = proj, Projects' = Projects
    PROVE  \A p, q \in Projects' : proj'[p] = proj'[q] => p = q
<1>1. \A p, q \in Projects : proj[p] = proj[q] => p = q
  BY DEF CatalogShape, CatalogHold, CatalogInv, AnchorsNameOne
<1> QED BY <1>1

(* of the tasks                                                               *)
LEMMA TasksStand ==
    ASSUME CatalogShape, task' = task, Tasks' = Tasks
    PROVE  \A t, u \in Tasks' : task'[t].project = task'[u].project /\ task'[t].label = task'[u].label => t = u
<1>1. \A t, u \in Tasks : task[t].project = task[u].project /\ task[t].label = task[u].label => t = u
  BY DEF CatalogShape, CatalogHold, CatalogInv, AnchorsNameOne
<1> QED BY <1>1

(* Companies and tags are renamed; nothing else changes                       *)
LEMMA NamesHold ==
    ASSUME CatalogConstants, CatalogShape,
           \/ \E c \in Company, n \in Name : PutCompany(c, n)
           \/ \E g \in Tag, n \in Name : PutTag(g, n)
    PROVE  CatalogShape'
<1>1. CASE \E c \in Company, n \in Name : PutCompany(c, n)
  <2> PICK c \in Company, n \in Name : PutCompany(c, n)
    BY <1>1
  <2>1. UNCHANGED <<proj, task, tag, depends, crossed>> /\ company' = [company EXCEPT ![c] = n] /\ ~NameTaken(n, {c})
    BY DEF PutCompany
  <2>2. company \in [Company -> CompanyRow] /\ n # 0 /\ n \in CompanyRow
    BY DEF CatalogShape, CatalogHold, CatalogInv, CatalogTypes, CompanyRow, CatalogConstants
  <2>3. CatalogTypes'
    BY <2>1, <2>2 DEF CatalogShape, CatalogHold, CatalogInv, CatalogTypes
  <2>4. company'[c] = n /\ \A d \in Company \ {c} : company'[d] = company[d]
    BY <2>1, <2>2
  <2>5. Companies' = Companies \cup {c} /\ Tasks' = Tasks /\ Projects' = Projects
    BY <2>1, <2>2, <2>4 DEF Companies, Tasks, Projects
  <2>6. ASSUME NEW a \in Companies', NEW b \in Companies', Fold[company'[a]] = Fold[company'[b]] PROVE a = b
    <3>1. \A x, y \in Companies : Fold[company[x]] = Fold[company[y]] => x = y
      BY DEF CatalogShape, CatalogHold, CatalogInv, AnchorsNameOne
    <3>2. \A x \in Companies \ {c} : Fold[company[x]] # Fold[n]
      BY <2>1 DEF NameTaken
    <3> QED BY <2>4, <2>5, <2>6, <3>1, <3>2 DEF Companies
  <2>7. AnchorsNameOne'
    BY <2>1, <2>5, <2>6, ProjectsStand, TasksStand DEF AnchorsNameOne
  <2>8. ParentsAreThere'
    BY <2>1, <2>5 DEF CatalogShape, CatalogHold, CatalogInv, ParentsAreThere
  <2>9. EpicsHoldTheirTasks' /\ NoTaskWaitsForItself' /\ PairsInside' /\ (crossed \in BOOLEAN)'
    BY <2>1, <2>5 DEF CatalogShape, CatalogHold, CatalogInv, EpicsHoldTheirTasks, NoTaskWaitsForItself,
                      PairsInside, Acyclic
  <2> QED BY <2>3, <2>7, <2>8, <2>9 DEF CatalogShape, CatalogHold, CatalogInv
<1>2. CASE \E g \in Tag, n \in Name : PutTag(g, n)
  <2> PICK g \in Tag, n \in Name : PutTag(g, n)
    BY <1>2
  <2>1. UNCHANGED <<company, proj, task, depends, crossed>> /\ tag' = [tag EXCEPT ![g] = n]
    BY DEF PutTag
  <2>2. tag \in [Tag -> TagRow] /\ n # 0 /\ n \in TagRow /\ task \in [Task -> TaskRow]
    BY DEF CatalogShape, CatalogHold, CatalogInv, CatalogTypes, TagRow, CatalogConstants
  <2>3. CatalogTypes'
    BY <2>1, <2>2 DEF CatalogShape, CatalogHold, CatalogInv, CatalogTypes
  <2>4. \A h \in Tag : tag[h] # 0 => tag'[h] # 0
    BY <2>1, <2>2
  <2>5. Companies' = Companies /\ Tasks' = Tasks /\ Projects' = Projects
    BY <2>1 DEF Companies, Tasks, Projects
  <2>6. \A t \in Tasks : task[t].tag # 0 => task[t].tag \in Tag
    BY <2>2 DEF Tasks, TaskRow
  <2>7. ParentsAreThere'
    BY <2>1, <2>4, <2>5, <2>6 DEF CatalogShape, CatalogHold, CatalogInv, ParentsAreThere
  <2>8. AnchorsNameOne'
    BY <2>1, <2>5, CompaniesStand, ProjectsStand, TasksStand DEF AnchorsNameOne
  <2>9. EpicsHoldTheirTasks' /\ NoTaskWaitsForItself' /\ PairsInside' /\ (crossed \in BOOLEAN)'
    BY <2>1, <2>5 DEF CatalogShape, CatalogHold, CatalogInv, EpicsHoldTheirTasks, NoTaskWaitsForItself,
                      PairsInside, Acyclic
  <2> QED BY <2>3, <2>7, <2>8, <2>9 DEF CatalogShape, CatalogHold, CatalogInv
<1> QED BY <1>1, <1>2

(* Tasks end: what is left of the others, of their epics and of the pairs     *)
LEMMA TasksGone ==
    ASSUME CatalogConstants, CatalogShape, NEW ts \in SUBSET Tasks, WithoutTasks(ts), crossed' = crossed
    PROVE  /\ task' \in [Task -> TaskRow] /\ depends' \subseteq DependencyRow
           /\ Tasks' = Tasks \ ts
           /\ \A t \in Tasks' : /\ task'[t].project = task[t].project /\ task'[t].label = task[t].label
                                /\ task'[t].tag = task[t].tag /\ task'[t].epic \in Tasks' \cup {0}
           /\ \A d \in depends' : {d.task, d.on} \subseteq Tasks'
           /\ EpicsHoldTheirTasks' /\ NoTaskWaitsForItself' /\ PairsInside'
<1>1. task \in [Task -> TaskRow] /\ depends \subseteq DependencyRow /\ NoTask \in TaskRow /\ 0 \notin Task
  BY DEF CatalogShape, CatalogHold, CatalogInv, CatalogTypes, CatalogConstants, NoTask, TaskRow
<1>2. /\ \A t \in ts : task'[t] = NoTask
      /\ \A t \in Task \ ts : task'[t] = IF task[t].epic \in ts THEN [task[t] EXCEPT !.epic = 0] ELSE task[t]
      /\ DOMAIN task' = Task /\ task' = [t \in Task |-> task'[t]]
  BY DEF WithoutTasks, Tasks
<1>3. ASSUME NEW t \in Task \ ts
      PROVE  /\ task'[t] \in TaskRow
             /\ task'[t].project = task[t].project /\ task'[t].label = task[t].label
             /\ task'[t].tag = task[t].tag /\ task'[t].kind = task[t].kind /\ task'[t].steps = task[t].steps
             /\ task'[t].epic = IF task[t].epic \in ts THEN 0 ELSE task[t].epic
  <2>1. task[t] \in TaskRow
    BY <1>1
  <2>2. CASE task[t].epic \in ts
    <3>1. task'[t] = [task[t] EXCEPT !.epic = 0]
      BY <1>2, <2>2
    <3> QED BY <2>1, <2>2, <3>1 DEF TaskRow
  <2>3. CASE task[t].epic \notin ts
    <3>1. task'[t] = task[t]
      BY <1>2, <2>3
    <3> QED BY <2>1, <2>3, <3>1
  <2> QED BY <2>2, <2>3
<1>4. task' \in [Task -> TaskRow]
  <2>1. \A t \in Task : task'[t] \in TaskRow
    BY <1>1, <1>2, <1>3, ZenonT(60)
  <2> QED BY <1>2, <2>1
<1>5. Tasks' = Tasks \ ts
  <2>1. NoTask.project = 0
    BY DEF NoTask
  <2> QED BY <1>2, <1>3, <2>1, SMTT(60) DEF Tasks
<1>6. depends' \subseteq depends /\ \A d \in depends' : {d.task, d.on} \subseteq Tasks'
  <2>1. \A d \in depends : {d.task, d.on} \subseteq Tasks
    BY DEF CatalogShape, CatalogHold, CatalogInv, ParentsAreThere
  <2>2. depends' = {d \in depends : {d.task, d.on} \cap ts = {}}
    BY DEF WithoutTasks
  <2> QED BY <1>5, <2>1, <2>2
<1>7. \A t \in Tasks : task[t].epic \in Tasks \cup {0}
  BY DEF CatalogShape, CatalogHold, CatalogInv, ParentsAreThere
<1>8. \A t \in Tasks' : task'[t].epic \in Tasks' \cup {0}
  BY <1>3, <1>5, <1>7 DEF Tasks
<1>9. EpicsHoldTheirTasks'
  <2> SUFFICES ASSUME NEW t \in Tasks'
               PROVE  /\ task'[t].epic # 0 => /\ task'[task'[t].epic].kind = "EPIC"
                                              /\ task'[task'[t].epic].project = task'[t].project
                                              /\ task'[t].kind = "TASK"
                      /\ task'[t].kind = "EPIC" => ~task'[t].steps
    BY DEF EpicsHoldTheirTasks
  <2>1. t \in Tasks /\ t \in Task \ ts
    BY <1>5 DEF Tasks
  <2>2. /\ task[t].epic # 0 => /\ task[task[t].epic].kind = "EPIC"
                               /\ task[task[t].epic].project = task[t].project
                               /\ task[t].kind = "TASK"
        /\ task[t].kind = "EPIC" => ~task[t].steps
    BY <2>1 DEF CatalogShape, CatalogHold, CatalogInv, EpicsHoldTheirTasks
  <2>3. CASE task'[t].epic = 0
    BY <1>3, <2>1, <2>2, <2>3
  <2>4. CASE task'[t].epic # 0
    <3>1. task[t].epic # 0 /\ task'[t].epic = task[t].epic /\ task[t].epic \in Task \ ts
      BY <1>3, <1>7, <2>1, <2>4 DEF Tasks
    <3> QED BY <1>3, <2>1, <2>2, <3>1, SMTT(60)
  <2> QED BY <2>3, <2>4
<1>10. NoTaskWaitsForItself' /\ PairsInside'
  <2>1. \A d \in depends' : /\ task'[d.task].project = task[d.task].project
                            /\ task'[d.on].project = task[d.on].project
    BY <1>3, <1>5, <1>6 DEF Tasks
  <2>2. crossed \in BOOLEAN /\ crossed' \in BOOLEAN /\ CatalogHold
    BY DEF CatalogShape
  <2> QED BY <1>6, <2>1, <2>2, CyclesHold
<1>11. \A t \in Tasks' : task'[t].project = task[t].project /\ task'[t].label = task[t].label /\ task'[t].tag = task[t].tag
  BY <1>3, <1>5 DEF Tasks
<1> QED BY <1>1, <1>4, <1>5, <1>6, <1>8, <1>9, <1>10, <1>11

(* The keys of what is left, when companies, projects and tasks end together  *)
LEMMA DeletesHold ==
    ASSUME CatalogConstants, CatalogShape,
           \/ \E c \in Company : DeleteCompany(c)
           \/ \E p \in Proj : DeleteProject(p)
           \/ \E t \in Task : DeleteTask(t)
    PROVE  CatalogShape'
<1> DEFINE gone(cs, ps, ts) ==
             /\ \A c \in cs : company'[c] = 0
             /\ \A c \in Company \ cs : company'[c] = company[c]
             /\ \A p \in ps : proj'[p] = NoProject
             /\ \A p \in Proj \ ps : proj'[p] = proj[p]
             /\ company' \in [Company -> CompanyRow] /\ proj' \in [Proj -> ProjectRow]
             /\ {p \in Projects : proj[p].company \in cs} \subseteq ps
             /\ {t \in Tasks : task[t].project \in ps} \subseteq ts
             /\ ts \subseteq Tasks /\ WithoutTasks(ts) /\ UNCHANGED <<tag, crossed>>
<1>1. /\ company \in [Company -> CompanyRow] /\ proj \in [Proj -> ProjectRow] /\ 0 \in CompanyRow
      /\ NoProject \in ProjectRow /\ NoProject.company = 0 /\ tag \in [Tag -> TagRow] /\ task \in [Task -> TaskRow]
  BY DEF CatalogShape, CatalogHold, CatalogInv, CatalogTypes, CompanyRow, ProjectRow, NoProject
<1>2. \E cs \in SUBSET Company, ps \in SUBSET Proj, ts \in SUBSET Tasks : gone(cs, ps, ts)
  <2>1. ASSUME NEW c \in Company, DeleteCompany(c) PROVE \E ps \in SUBSET Proj, ts \in SUBSET Tasks : gone({c}, ps, ts)
    <3> DEFINE mine == {p \in Projects : proj[p].company = c}
               theirs == UNION {TasksOf(p) : p \in mine}
    <3>1. /\ company' = [company EXCEPT ![c] = 0]
          /\ proj' = [p \in Proj |-> IF p \in mine THEN NoProject ELSE proj[p]]
          /\ WithoutTasks(theirs) /\ UNCHANGED <<tag, crossed>>
      BY <2>1 DEF DeleteCompany
    <3>2. mine \in SUBSET Proj /\ theirs \in SUBSET Tasks
      BY DEF Projects, TasksOf
    <3>3. /\ company'[c] = 0 /\ \A d \in Company \ {c} : company'[d] = company[d]
          /\ company' \in [Company -> CompanyRow]
      BY <1>1, <3>1
    <3>4. /\ \A p \in mine : proj'[p] = NoProject
          /\ \A p \in Proj \ mine : proj'[p] = proj[p]
          /\ proj' \in [Proj -> ProjectRow]
      BY <1>1, <3>1, <3>2
    <3>5. {t \in Tasks : task[t].project \in mine} \subseteq theirs
      BY SMTT(60) DEF TasksOf
    <3>6. {p \in Projects : proj[p].company \in {c}} \subseteq mine
      OBVIOUS
    <3>7. gone({c}, mine, theirs)
      BY <3>1, <3>2, <3>3, <3>4, <3>5, <3>6
    <3> QED BY <3>2, <3>7
  <2>2. ASSUME NEW p \in Proj, DeleteProject(p) PROVE \E ts \in SUBSET Tasks : gone({}, {p}, ts)
    <3>1. /\ company' = company /\ proj' = [proj EXCEPT ![p] = NoProject]
          /\ WithoutTasks(TasksOf(p)) /\ UNCHANGED <<tag, crossed>>
      BY <2>2 DEF DeleteProject
    <3>2. TasksOf(p) \in SUBSET Tasks /\ {t \in Tasks : task[t].project \in {p}} \subseteq TasksOf(p)
      BY DEF TasksOf
    <3>3. proj'[p] = NoProject /\ (\A q \in Proj \ {p} : proj'[q] = proj[q]) /\ proj' \in [Proj -> ProjectRow]
      BY <1>1, <3>1
    <3>4. gone({}, {p}, TasksOf(p))
      BY <1>1, <3>1, <3>2, <3>3
    <3> QED BY <3>2, <3>4
  <2>3. ASSUME NEW t \in Task, DeleteTask(t) PROVE gone({}, {}, {t}) /\ t \in Tasks
    BY <1>1, <2>3 DEF DeleteTask
  <2> HIDE DEF gone
  <2>4. CASE \E c \in Company : DeleteCompany(c)
    <3> PICK c \in Company : DeleteCompany(c)
      BY <2>4
    <3>1. {c} \in SUBSET Company
      OBVIOUS
    <3> QED BY <2>1, <3>1
  <2>5. CASE \E p \in Proj : DeleteProject(p)
    <3> PICK p \in Proj : DeleteProject(p)
      BY <2>5
    <3>1. {p} \in SUBSET Proj /\ {} \in SUBSET Company
      OBVIOUS
    <3> QED BY <2>2, <3>1
  <2>6. CASE \E t \in Task : DeleteTask(t)
    <3> PICK t \in Task : DeleteTask(t)
      BY <2>6
    <3>1. {} \in SUBSET Proj /\ {} \in SUBSET Company /\ {t} \in SUBSET Tasks
      BY <2>3
    <3> QED BY <2>3, <3>1
  <2> QED BY <2>4, <2>5, <2>6
<1> PICK cs \in SUBSET Company, ps \in SUBSET Proj, ts \in SUBSET Tasks : gone(cs, ps, ts)
  BY <1>2
<1>3. /\ task' \in [Task -> TaskRow] /\ depends' \subseteq DependencyRow
      /\ Tasks' = Tasks \ ts
      /\ \A t \in Tasks' : /\ task'[t].project = task[t].project /\ task'[t].label = task[t].label
                           /\ task'[t].tag = task[t].tag /\ task'[t].epic \in Tasks' \cup {0}
      /\ \A d \in depends' : {d.task, d.on} \subseteq Tasks'
      /\ EpicsHoldTheirTasks' /\ NoTaskWaitsForItself' /\ PairsInside'
  <2>1. WithoutTasks(ts) /\ crossed' = crossed
    OBVIOUS
  <2> QED BY <2>1, TasksGone
<1>4. CatalogTypes'
  <2>1. tag' = tag /\ company' \in [Company -> CompanyRow] /\ proj' \in [Proj -> ProjectRow]
    OBVIOUS
  <2> QED BY <1>1, <1>3, <2>1 DEF CatalogTypes
<1>5. Companies' = Companies \ cs /\ \A c \in Companies' : company'[c] = company[c]
  BY SMTT(60) DEF Companies
<1>6. Projects' = Projects \ ps /\ \A p \in Projects' : proj'[p] = proj[p]
  BY <1>1, SMTT(60) DEF Projects
<1>7. AnchorsNameOne'
  <2>1. \A a, b \in Companies' : Fold[company'[a]] = Fold[company'[b]] => a = b
    BY <1>5, SMTT(60) DEF CatalogShape, CatalogHold, CatalogInv, AnchorsNameOne
  <2>2. \A p, q \in Projects' : proj'[p] = proj'[q] => p = q
    BY <1>6, SMTT(60) DEF CatalogShape, CatalogHold, CatalogInv, AnchorsNameOne
  <2>3. \A t, u \in Tasks' : task'[t].project = task'[u].project /\ task'[t].label = task'[u].label => t = u
    BY <1>3, SMTT(60) DEF CatalogShape, CatalogHold, CatalogInv, AnchorsNameOne
  <2> QED BY <2>1, <2>2, <2>3 DEF AnchorsNameOne
<1>8. ParentsAreThere'
  <2>1. \A p \in Projects' : proj'[p].company \in Companies'
    <3>1. \A p \in Projects : proj[p].company \in Companies
      BY DEF CatalogShape, CatalogHold, CatalogInv, ParentsAreThere
    <3> QED BY <1>5, <1>6, <3>1
  <2>2. \A t \in Tasks' : task'[t].project \in Projects' /\ (task'[t].tag # 0 => tag'[task'[t].tag] # 0)
    <3>1. \A t \in Tasks : task[t].project \in Projects /\ (task[t].tag # 0 => tag[task[t].tag] # 0)
      BY DEF CatalogShape, CatalogHold, CatalogInv, ParentsAreThere
    <3>2. tag' = tag
      OBVIOUS
    <3> QED BY <1>3, <1>6, <3>1, <3>2, SMTT(60)
  <2> QED BY <1>3, <2>1, <2>2 DEF ParentsAreThere
<1>9. (crossed \in BOOLEAN)'
  BY DEF CatalogShape
<1> QED BY <1>3, <1>4, <1>7, <1>8, <1>9 DEF CatalogShape, CatalogHold, CatalogInv

(* One task is written: what the checks of TaskService on its row establish   *)
LEMMA OneTask ==
    ASSUME CatalogConstants, CatalogShape, NEW t \in Task, NEW row \in TaskRow,
           task' = [task EXCEPT ![t] = row], UNCHANGED <<company, proj, tag>>,
           row.project \in Projects,
           \A u \in Tasks \ {t} : task[u].project = row.project => task[u].label # row.label,
           row.epic # 0 => /\ row.epic \in Tasks \ {t} /\ task[row.epic].kind = "EPIC"
                           /\ row.kind = "TASK" /\ task[row.epic].project = row.project,
           row.tag # 0 => tag[row.tag] # 0,
           row.kind = "EPIC" => row.steps = FALSE,
           \A u \in Tasks \ {t} : task[u].epic = t => row.kind = "EPIC" /\ row.project = task[t].project,
           depends' \subseteq DependencyRow, \A d \in depends' : {d.task, d.on} \subseteq Tasks \cup {t}
    PROVE  CatalogTypes' /\ AnchorsNameOne' /\ ParentsAreThere' /\ EpicsHoldTheirTasks'
<1>1. /\ company \in [Company -> CompanyRow] /\ proj \in [Proj -> ProjectRow] /\ tag \in [Tag -> TagRow]
      /\ task \in [Task -> TaskRow] /\ 0 \notin Task /\ 0 \notin Proj
  BY DEF CatalogShape, CatalogHold, CatalogInv, CatalogTypes, CatalogConstants
<1>2. task'[t] = row /\ (\A u \in Task \ {t} : task'[u] = task[u]) /\ task' \in [Task -> TaskRow]
  BY <1>1
<1>3. CatalogTypes'
  BY <1>1, <1>2 DEF CatalogTypes
<1>4. Companies' = Companies /\ Projects' = Projects
  BY DEF Companies, Projects
<1>5. row.project # 0
  BY <1>1 DEF Projects
<1>6. Tasks' = Tasks \cup {t}
  BY <1>2, <1>5, SMTT(60) DEF Tasks
<1>7. AnchorsNameOne'
  <2>1. ASSUME NEW u \in Tasks', NEW v \in Tasks', task'[u].project = task'[v].project, task'[u].label = task'[v].label
        PROVE  u = v
    <3>1. \A x, y \in Tasks : task[x].project = task[y].project /\ task[x].label = task[y].label => x = y
      BY DEF CatalogShape, CatalogHold, CatalogInv, AnchorsNameOne
    <3>2. CASE u = t \/ v = t
      BY <1>2, <1>6, <2>1, <3>2, SMTT(60) DEF Tasks
    <3>3. CASE u # t /\ v # t
      <4>1. u \in Tasks /\ v \in Tasks /\ task'[u] = task[u] /\ task'[v] = task[v]
        BY <1>2, <1>6, <3>3 DEF Tasks
      <4> QED BY <2>1, <3>1, <4>1, SMTT(60)
    <3> QED BY <3>2, <3>3
  <2>2. /\ \A c, d \in Companies' : Fold[company'[c]] = Fold[company'[d]] => c = d
        /\ \A p, q \in Projects' : proj'[p] = proj'[q] => p = q
    BY <1>4, CompaniesStand, ProjectsStand
  <2> QED BY <2>1, <2>2 DEF AnchorsNameOne
<1>8. ParentsAreThere'
  <2>1. ASSUME NEW u \in Tasks'
        PROVE  /\ task'[u].project \in Projects' /\ task'[u].epic \in Tasks' \cup {0}
               /\ task'[u].tag # 0 => tag'[task'[u].tag] # 0
    <3>1. CASE u = t
      BY <1>2, <1>4, <1>6, <3>1
    <3>2. CASE u # t
      <4>1. u \in Tasks /\ task'[u] = task[u]
        BY <1>2, <1>6, <3>2 DEF Tasks
      <4>2. /\ task[u].project \in Projects /\ task[u].epic \in Tasks \cup {0}
            /\ task[u].tag # 0 => tag[task[u].tag] # 0
        BY <4>1 DEF CatalogShape, CatalogHold, CatalogInv, ParentsAreThere
      <4> QED BY <1>4, <1>6, <4>1, <4>2, SMTT(60)
    <3> QED BY <3>1, <3>2
  <2>2. \A p \in Projects' : proj'[p].company \in Companies'
    BY <1>4 DEF CatalogShape, CatalogHold, CatalogInv, ParentsAreThere
  <2>3. \A d \in depends' : {d.task, d.on} \subseteq Tasks'
    BY <1>6
  <2> QED BY <2>1, <2>2, <2>3 DEF ParentsAreThere
<1>9. EpicsHoldTheirTasks'
  <2> SUFFICES ASSUME NEW u \in Tasks'
               PROVE  /\ task'[u].epic # 0 => /\ task'[task'[u].epic].kind = "EPIC"
                                              /\ task'[task'[u].epic].project = task'[u].project
                                              /\ task'[u].kind = "TASK"
                      /\ task'[u].kind = "EPIC" => ~task'[u].steps
    BY DEF EpicsHoldTheirTasks
  <2>1. CASE u = t
    <3>1. row.epic # 0 => task'[row.epic] = task[row.epic]
      BY <1>2 DEF Tasks
    <3> QED BY <1>2, <2>1, <3>1
  <2>2. CASE u # t
    <3>1. u \in Tasks /\ task'[u] = task[u] /\ task[u].epic \in Tasks \cup {0}
      BY <1>2, <1>6, <2>2 DEF Tasks, CatalogShape, CatalogHold, CatalogInv, ParentsAreThere
    <3>2. /\ task[u].epic # 0 => /\ task[task[u].epic].kind = "EPIC"
                                 /\ task[task[u].epic].project = task[u].project
                                 /\ task[u].kind = "TASK"
          /\ task[u].kind = "EPIC" => ~task[u].steps
      BY <3>1 DEF CatalogShape, CatalogHold, CatalogInv, EpicsHoldTheirTasks
    <3>3. CASE task[u].epic = t
      BY <1>1, <1>2, <2>2, <3>1, <3>2, <3>3
    <3>4. CASE task[u].epic # t
      <4>1. task[u].epic # 0 => task'[task[u].epic] = task[task[u].epic]
        BY <1>2, <3>1, <3>4 DEF Tasks
      <4> QED BY <3>1, <3>2, <4>1
    <3> QED BY <3>3, <3>4
  <2> QED BY <2>1, <2>2
<1> QED BY <1>3, <1>7, <1>8, <1>9

(* The rows TaskService writes                                                *)
LEMMA WritesHold ==
    ASSUME CatalogConstants, CatalogShape, NEW t \in Task,
           \/ \E p \in Proj, l \in Label, kind \in {"TASK", "EPIC"}, e \in Task \cup {0}, g \in Tag \cup {0} :
                 \/ \E quick \in BOOLEAN : CreateTask(t, p, l, kind, e, g, quick)
                 \/ \E status \in {"TODO", "DONE"} : UpdateTask(t, p, l, kind, e, g, status)
           \/ StartWork(t)
    PROVE  CatalogShape'
<1>1. /\ task \in [Task -> TaskRow] /\ NoTask \in TaskRow /\ 0 \notin Task /\ task[t] \in TaskRow
      /\ depends \subseteq DependencyRow /\ crossed \in BOOLEAN
  BY DEF CatalogShape, CatalogHold, CatalogInv, CatalogTypes, CatalogConstants, NoTask, TaskRow
<1>2. \A d \in depends : {d.task, d.on} \subseteq Tasks
  BY DEF CatalogShape, CatalogHold, CatalogInv, ParentsAreThere
<1>3. \A u \in Tasks : /\ task[u].project \in Projects /\ task[u].epic \in Tasks \cup {0}
                       /\ task[u].tag # 0 => tag[task[u].tag] # 0
  BY DEF CatalogShape, CatalogHold, CatalogInv, ParentsAreThere
<1>4. \A u \in Tasks : task[u].epic # 0 => /\ task[task[u].epic].kind = "EPIC"
                                           /\ task[task[u].epic].project = task[u].project
                                           /\ task[u].kind = "TASK"
  BY DEF CatalogShape, CatalogHold, CatalogInv, EpicsHoldTheirTasks
<1>5. \A u, v \in Tasks : task[u].project = task[v].project /\ task[u].label = task[v].label => u = v
  BY DEF CatalogShape, CatalogHold, CatalogInv, AnchorsNameOne
<1>6. CASE StartWork(t)
  <2> DEFINE row == [task[t] EXCEPT !.steps = TRUE, !.timing = TRUE]
  <2>1. /\ t \in Tasks /\ task[t].kind # "EPIC" /\ task' = [task EXCEPT ![t] = row]
        /\ UNCHANGED <<company, proj, tag, depends, crossed>>
    BY <1>6 DEF StartWork
  <2>2. /\ row \in TaskRow /\ row.project = task[t].project /\ row.label = task[t].label /\ row.epic = task[t].epic
        /\ row.tag = task[t].tag /\ row.kind = task[t].kind
    BY <1>1 DEF TaskRow
  <2> HIDE DEF row
  <2>3. row.project \in Projects
    BY <1>3, <2>1, <2>2
  <2>4. \A u \in Tasks \ {t} : task[u].project = row.project => task[u].label # row.label
    BY <1>5, <2>1, <2>2
  <2>5. row.epic # 0 => /\ row.epic \in Tasks \ {t} /\ task[row.epic].kind = "EPIC"
                        /\ row.kind = "TASK" /\ task[row.epic].project = row.project
    BY <1>3, <1>4, <2>1, <2>2, SMTT(60)
  <2>6. row.tag # 0 => tag[row.tag] # 0
    BY <1>3, <2>1, <2>2
  <2>7. row.kind = "EPIC" => row.steps = FALSE
    BY <2>1, <2>2
  <2>8. \A u \in Tasks \ {t} : task[u].epic = t => row.kind = "EPIC" /\ row.project = task[t].project
    BY <1>1, <1>4, <2>1, SMTT(60)
  <2>9. depends' \subseteq DependencyRow /\ \A d \in depends' : {d.task, d.on} \subseteq Tasks \cup {t}
    BY <1>1, <1>2, <2>1, ZenonT(60)
  <2>10. CatalogTypes' /\ AnchorsNameOne' /\ ParentsAreThere' /\ EpicsHoldTheirTasks'
    BY <2>1, <2>2, <2>3, <2>4, <2>5, <2>6, <2>7, <2>8, <2>9, OneTask
  <2>11. \A d \in depends' : task'[d.task].project = task[d.task].project /\ task'[d.on].project = task[d.on].project
    BY <1>1, <1>2, <2>1, <2>2 DEF Tasks
  <2>12. NoTaskWaitsForItself' /\ PairsInside'
    <3>1. depends' \subseteq depends /\ crossed' \in BOOLEAN /\ (crossed' = FALSE => crossed = FALSE)
      BY <1>1, <2>1
    <3> QED BY <1>1, <2>11, <3>1, CyclesHold DEF CatalogShape
  <2> QED BY <1>1, <2>1, <2>10, <2>12 DEF CatalogShape, CatalogHold, CatalogInv
<1>7. CASE \E p \in Proj, l \in Label, kind \in {"TASK", "EPIC"}, e \in Task \cup {0}, g \in Tag \cup {0}, quick \in BOOLEAN :
              CreateTask(t, p, l, kind, e, g, quick)
  <2> PICK p \in Proj, l \in Label, kind \in {"TASK", "EPIC"}, e \in Task \cup {0}, g \in Tag \cup {0}, quick \in BOOLEAN :
              CreateTask(t, p, l, kind, e, g, quick)
    BY <1>7
  <2> DEFINE row == [NoTask EXCEPT !.project = p, !.label = Slug[l], !.kind = kind, !.epic = e, !.tag = g, !.quick = quick]
  <2>1. /\ task[t] = NoTask /\ p \in Projects /\ task' = [task EXCEPT ![t] = row]
        /\ RequestFits(t, p, kind, e, g) /\ ~TaskLabelTaken(p, Slug[l], {})
        /\ UNCHANGED <<company, proj, tag, depends, crossed>>
    BY DEF CreateTask
  <2>2. /\ row \in TaskRow /\ row.project = p /\ row.label = Slug[l] /\ row.epic = e
        /\ row.tag = g /\ row.kind = kind /\ row.steps = FALSE /\ t \notin Tasks
    <3>1. Slug[l] \in {Slug[x] : x \in Label}
      OBVIOUS
    <3>2. task[t].steps = FALSE /\ task[t].project = 0
      BY <2>1, SMTT(60) DEF NoTask
    <3>3. row = [task[t] EXCEPT !.project = p, !.label = Slug[l], !.kind = kind, !.epic = e, !.tag = g, !.quick = quick]
      BY <2>1
    <3> HIDE DEF row
    <3>4. /\ row \in TaskRow /\ row.project = p /\ row.label = Slug[l] /\ row.epic = e
          /\ row.tag = g /\ row.kind = kind /\ row.steps = task[t].steps
      BY <1>1, <3>1, <3>3, ZenonT(60) DEF TaskRow
    <3> QED BY <3>2, <3>4 DEF Tasks
  <2> HIDE DEF row
  <2>3. row.project \in Projects
    BY <2>1, <2>2
  <2>4. \A u \in Tasks \ {t} : task[u].project = row.project => task[u].label # row.label
    BY <2>1, <2>2 DEF TaskLabelTaken, TasksOf
  <2>5. row.epic # 0 => /\ row.epic \in Tasks \ {t} /\ task[row.epic].kind = "EPIC"
                        /\ row.kind = "TASK" /\ task[row.epic].project = row.project
    BY <2>1, <2>2 DEF RequestFits, Joinable
  <2>6. row.tag # 0 => tag[row.tag] # 0
    BY <2>1, <2>2 DEF RequestFits
  <2>7. row.kind = "EPIC" => row.steps = FALSE
    BY <2>2
  <2>8. \A u \in Tasks \ {t} : task[u].epic = t => row.kind = "EPIC" /\ row.project = task[t].project
    BY <1>1, <1>3, <2>2, ZenonT(60)
  <2>9. depends' \subseteq DependencyRow /\ \A d \in depends' : {d.task, d.on} \subseteq Tasks \cup {t}
    BY <1>1, <1>2, <2>1, ZenonT(60)
  <2>10. CatalogTypes' /\ AnchorsNameOne' /\ ParentsAreThere' /\ EpicsHoldTheirTasks'
    BY <2>1, <2>2, <2>3, <2>4, <2>5, <2>6, <2>7, <2>8, <2>9, OneTask, ZenonT(60)
  <2>11. \A d \in depends' : task'[d.task].project = task[d.task].project /\ task'[d.on].project = task[d.on].project
    BY <1>1, <1>2, <2>1, <2>2, ZenonT(60) DEF Tasks
  <2>12. NoTaskWaitsForItself' /\ PairsInside'
    <3>1. depends' \subseteq depends /\ crossed' \in BOOLEAN /\ (crossed' = FALSE => crossed = FALSE)
      BY <1>1, <2>1
    <3> QED BY <1>1, <2>11, <3>1, CyclesHold DEF CatalogShape
  <2> QED BY <1>1, <2>1, <2>10, <2>12 DEF CatalogShape, CatalogHold, CatalogInv
<1>8. CASE \E p \in Proj, l \in Label, kind \in {"TASK", "EPIC"}, e \in Task \cup {0}, g \in Tag \cup {0},
              status \in {"TODO", "DONE"} : UpdateTask(t, p, l, kind, e, g, status)
  <2> PICK p \in Proj, l \in Label, kind \in {"TASK", "EPIC"}, e \in Task \cup {0}, g \in Tag \cup {0},
           status \in {"TODO", "DONE"} : UpdateTask(t, p, l, kind, e, g, status)
    BY <1>8
  <2> DEFINE row == [task[t] EXCEPT !.project = p, !.label = Slug[l], !.kind = kind, !.epic = e, !.tag = g,
                                    !.status = status,
                                    !.timing = @ /\ ~(status = "DONE" /\ task[t].status # "DONE")]
  <2>1. /\ t \in Tasks /\ p \in Projects /\ task' = [task EXCEPT ![t] = row]
        /\ RequestFits(t, p, kind, e, g) /\ ~TaskLabelTaken(p, Slug[l], {t})
        /\ EpicKeptWhole(t, kind, p) /\ EpicStepless(t, kind)
        /\ crossed' = (crossed \/ (p # task[t].project /\ \E d \in depends : t \in {d.task, d.on}))
        /\ UNCHANGED <<company, proj, tag, depends>>
    BY DEF UpdateTask
  <2>2. /\ row \in TaskRow /\ row.project = p /\ row.label = Slug[l] /\ row.epic = e
        /\ row.tag = g /\ row.kind = kind /\ row.steps = task[t].steps /\ task[t].steps \in BOOLEAN
    <3> DEFINE times == task[t].timing /\ ~(status = "DONE" /\ task[t].status # "DONE")
    <3>1. Slug[l] \in {Slug[x] : x \in Label} /\ times \in BOOLEAN
      OBVIOUS
    <3> HIDE DEF times
    <3>2. row = [task[t] EXCEPT !.project = p, !.label = Slug[l], !.kind = kind, !.epic = e, !.tag = g,
                                !.status = status, !.timing = times]
      BY DEF times
    <3> HIDE DEF row
    <3> QED BY <1>1, <3>1, <3>2, ZenonT(60) DEF TaskRow
  <2> HIDE DEF row
  <2>3. row.project \in Projects
    BY <2>1, <2>2
  <2>4. \A u \in Tasks \ {t} : task[u].project = row.project => task[u].label # row.label
    BY <2>1, <2>2 DEF TaskLabelTaken, TasksOf
  <2>5. row.epic # 0 => /\ row.epic \in Tasks \ {t} /\ task[row.epic].kind = "EPIC"
                        /\ row.kind = "TASK" /\ task[row.epic].project = row.project
    BY <2>1, <2>2 DEF RequestFits, Joinable
  <2>6. row.tag # 0 => tag[row.tag] # 0
    BY <2>1, <2>2 DEF RequestFits
  <2>7. row.kind = "EPIC" => row.steps = FALSE
    BY <2>1, <2>2 DEF EpicStepless
  <2>8. ASSUME NEW u \in Tasks \ {t}, task[u].epic = t PROVE row.kind = "EPIC" /\ row.project = task[t].project
    <3>1. task[t].kind = "EPIC" /\ u \in Children(t)
      BY <1>1, <1>4, <2>8 DEF Children
    <3> QED BY <2>1, <2>2, <3>1 DEF EpicKeptWhole
  <2>9. depends' \subseteq DependencyRow /\ \A d \in depends' : {d.task, d.on} \subseteq Tasks \cup {t}
    BY <1>1, <1>2, <2>1, ZenonT(60)
  <2>10. CatalogTypes' /\ AnchorsNameOne' /\ ParentsAreThere' /\ EpicsHoldTheirTasks'
    BY <2>1, <2>2, <2>3, <2>4, <2>5, <2>6, <2>7, <2>8, <2>9, OneTask, ZenonT(60)
  <2>11. crossed' \in BOOLEAN /\ (crossed' = FALSE => crossed = FALSE)
    BY <1>1, <2>1
  <2>12. ASSUME crossed' = FALSE, NEW d \in depends'
         PROVE  task'[d.task].project = task[d.task].project /\ task'[d.on].project = task[d.on].project
    <3>1. {d.task, d.on} \subseteq Task /\ d \in depends
      BY <1>2, <2>1 DEF Tasks
    <3>2. CASE t \in {d.task, d.on}
      <4>1. p = task[t].project
        BY <2>1, <2>12, <3>1, <3>2
      <4> QED BY <1>1, <2>1, <2>2, <3>1, <4>1
    <3>3. CASE t \notin {d.task, d.on}
      BY <1>1, <2>1, <3>1, <3>3
    <3> QED BY <3>2, <3>3
  <2>13. NoTaskWaitsForItself' /\ PairsInside'
    <3>1. depends' \subseteq depends
      BY <2>1
    <3> QED BY <1>1, <2>11, <2>12, <3>1, CyclesHold DEF CatalogShape
  <2> QED BY <2>10, <2>11, <2>13 DEF CatalogShape, CatalogHold, CatalogInv
<1> QED BY <1>6, <1>7, <1>8, SMTT(60)

(* A project is written under a company; a tag leaves its tasks               *)
LEMMA PlacesHold ==
    ASSUME CatalogConstants, CatalogShape,
           \/ \E p \in Proj, c \in Company, l \in Label : PutProject(p, c, l)
           \/ \E g \in Tag : DeleteTag(g)
    PROVE  CatalogShape'
<1>1. /\ company \in [Company -> CompanyRow] /\ proj \in [Proj -> ProjectRow] /\ tag \in [Tag -> TagRow]
      /\ task \in [Task -> TaskRow] /\ depends \subseteq DependencyRow /\ crossed \in BOOLEAN
      /\ 0 \notin Company /\ 0 \in TagRow
  BY DEF CatalogShape, CatalogHold, CatalogInv, CatalogTypes, CatalogConstants, TagRow
<1>2. CASE \E p \in Proj, c \in Company, l \in Label : PutProject(p, c, l)
  <2> PICK p \in Proj, c \in Company, l \in Label : PutProject(p, c, l)
    BY <1>2
  <2>1. /\ c \in Companies /\ proj' = [proj EXCEPT ![p] = [company |-> c, label |-> Slug[l]]]
        /\ ~ProjectLabelTaken(c, Slug[l], {p})
        /\ UNCHANGED <<company, task, tag, depends, crossed>>
    BY DEF PutProject
  <2>2. [company |-> c, label |-> Slug[l]] \in ProjectRow
    BY DEF ProjectRow
  <2>3. /\ proj' \in [Proj -> ProjectRow] /\ \A q \in Proj \ {p} : proj'[q] = proj[q]
        /\ proj'[p] = [company |-> c, label |-> Slug[l]]
    BY <1>1, <2>1, <2>2
  <2>4. CatalogTypes'
    BY <1>1, <2>1, <2>3 DEF CatalogTypes
  <2>5. Companies' = Companies /\ Tasks' = Tasks /\ Projects' = Projects \cup {p}
    <3>1. proj'[p].company = c /\ c # 0
      BY <1>1, <2>3, SMTT(60)
    <3>2. Projects' = Projects \cup {p}
      BY <2>3, <3>1 DEF Projects
    <3> QED BY <2>1, <3>2 DEF Companies, Tasks
  <2>6. ASSUME NEW a \in Projects', NEW b \in Projects', proj'[a] = proj'[b] PROVE a = b
    <3>1. \A x, y \in Projects : proj[x] = proj[y] => x = y
      BY DEF CatalogShape, CatalogHold, CatalogInv, AnchorsNameOne
    <3>2. \A x \in Projects \ {p} : proj[x] # proj'[p]
      BY <2>1, <2>3 DEF ProjectLabelTaken
    <3> QED BY <2>3, <2>5, <2>6, <3>1, <3>2 DEF Projects
  <2>7. AnchorsNameOne'
    BY <2>1, <2>5, <2>6, CompaniesStand, TasksStand DEF AnchorsNameOne
  <2>8. ParentsAreThere'
    <3>1. ASSUME NEW q \in Projects' PROVE proj'[q].company \in Companies'
      <4>1. \A x \in Projects : proj[x].company \in Companies
        BY DEF CatalogShape, CatalogHold, CatalogInv, ParentsAreThere
      <4> QED BY <2>1, <2>3, <2>5, <4>1 DEF Projects
    <3>2. \A t \in Tasks' : /\ task'[t].project \in Projects'
                            /\ task'[t].epic \in Tasks' \cup {0}
                            /\ task'[t].tag # 0 => tag'[task'[t].tag] # 0
      BY <2>1, <2>5 DEF CatalogShape, CatalogHold, CatalogInv, ParentsAreThere
    <3>3. \A d \in depends' : {d.task, d.on} \subseteq Tasks'
      BY <2>1, <2>5 DEF CatalogShape, CatalogHold, CatalogInv, ParentsAreThere
    <3> QED BY <3>1, <3>2, <3>3 DEF ParentsAreThere
  <2>9. EpicsHoldTheirTasks' /\ NoTaskWaitsForItself' /\ PairsInside' /\ (crossed \in BOOLEAN)'
    BY <2>1, <2>5 DEF CatalogShape, CatalogHold, CatalogInv, EpicsHoldTheirTasks, NoTaskWaitsForItself,
                      PairsInside, Acyclic
  <2> QED BY <2>4, <2>7, <2>8, <2>9 DEF CatalogShape, CatalogHold, CatalogInv
<1>3. CASE \E g \in Tag : DeleteTag(g)
  <2> PICK g \in Tag : DeleteTag(g)
    BY <1>3
  <2>1. /\ tag' = [tag EXCEPT ![g] = 0]
        /\ task' = [t \in Task |-> IF task[t].tag = g THEN [task[t] EXCEPT !.tag = 0] ELSE task[t]]
        /\ UNCHANGED <<company, proj, depends, crossed>>
    BY DEF DeleteTag
  <2>2. ASSUME NEW t \in Task
        PROVE  /\ task'[t] \in TaskRow /\ task'[t].tag = IF task[t].tag = g THEN 0 ELSE task[t].tag
               /\ task'[t].project = task[t].project /\ task'[t].label = task[t].label
               /\ task'[t].kind = task[t].kind /\ task'[t].epic = task[t].epic /\ task'[t].steps = task[t].steps
    <3>1. task[t] \in TaskRow
      BY <1>1
    <3>2. CASE task[t].tag = g
      <4>1. task'[t] = [task[t] EXCEPT !.tag = 0]
        BY <2>1, <3>2
      <4> QED BY <3>1, <3>2, <4>1 DEF TaskRow
    <3>3. CASE task[t].tag # g
      BY <2>1, <3>1, <3>3
    <3> QED BY <3>2, <3>3
  <2>3. task' \in [Task -> TaskRow]
    <3>1. task' = [t \in Task |-> task'[t]]
      BY <2>1
    <3> QED BY <2>2, <3>1
  <2>4. CatalogTypes'
    BY <1>1, <2>1, <2>3 DEF CatalogTypes
  <2>5. Companies' = Companies /\ Projects' = Projects /\ Tasks' = Tasks
    BY <2>1, <2>2 DEF Companies, Projects, Tasks
  <2>6. AnchorsNameOne'
    <3>1. \A t, u \in Tasks' : task'[t].project = task'[u].project /\ task'[t].label = task'[u].label => t = u
      BY <2>2, <2>5, ZenonT(60) DEF CatalogShape, CatalogHold, CatalogInv, AnchorsNameOne, Tasks
    <3> QED BY <2>1, <2>5, <3>1, CompaniesStand, ProjectsStand DEF AnchorsNameOne
  <2>7. ParentsAreThere'
    <3>1. ASSUME NEW t \in Tasks'
          PROVE  /\ task'[t].project \in Projects' /\ task'[t].epic \in Tasks' \cup {0}
                 /\ task'[t].tag # 0 => tag'[task'[t].tag] # 0
      <4>1. t \in Task /\ t \in Tasks /\ task[t].tag \in Tag \cup {0}
        BY <1>1, <2>5 DEF Tasks, TaskRow
      <4>2. /\ task[t].project \in Projects /\ task[t].epic \in Tasks \cup {0}
            /\ task[t].tag # 0 => tag[task[t].tag] # 0
        BY <4>1 DEF CatalogShape, CatalogHold, CatalogInv, ParentsAreThere
      <4> QED BY <1>1, <2>1, <2>2, <2>5, <4>1, <4>2, SMTT(60)
    <3>2. /\ \A q \in Projects' : proj'[q].company \in Companies'
          /\ \A d \in depends' : {d.task, d.on} \subseteq Tasks'
      BY <2>1, <2>5 DEF CatalogShape, CatalogHold, CatalogInv, ParentsAreThere
    <3> QED BY <3>1, <3>2 DEF ParentsAreThere
  <2>8. EpicsHoldTheirTasks'
    <3> SUFFICES ASSUME NEW t \in Tasks'
                 PROVE  /\ task'[t].epic # 0 => /\ task'[task'[t].epic].kind = "EPIC"
                                                /\ task'[task'[t].epic].project = task'[t].project
                                                /\ task'[t].kind = "TASK"
                        /\ task'[t].kind = "EPIC" => ~task'[t].steps
      BY DEF EpicsHoldTheirTasks
    <3>1. t \in Tasks /\ t \in Task /\ (task[t].epic # 0 => task[t].epic \in Task)
      BY <2>5 DEF Tasks, CatalogShape, CatalogHold, CatalogInv, ParentsAreThere
    <3>2. /\ task[t].epic # 0 => /\ task[task[t].epic].kind = "EPIC"
                                 /\ task[task[t].epic].project = task[t].project
                                 /\ task[t].kind = "TASK"
          /\ task[t].kind = "EPIC" => ~task[t].steps
      BY <3>1 DEF CatalogShape, CatalogHold, CatalogInv, EpicsHoldTheirTasks
    <3> QED BY <2>2, <3>1, <3>2, SMTT(60)
  <2>9. NoTaskWaitsForItself' /\ PairsInside'
    <3>1. \A d \in depends' : /\ task'[d.task].project = task[d.task].project
                              /\ task'[d.on].project = task[d.on].project
      BY <1>1, <2>1, <2>2 DEF DependencyRow
    <3>2. depends' \subseteq depends /\ crossed' \in BOOLEAN /\ (crossed' = FALSE => crossed = FALSE)
      BY <1>1, <2>1
    <3> QED BY <1>1, <3>1, <3>2, CyclesHold DEF CatalogShape
  <2> QED BY <1>1, <2>1, <2>4, <2>6, <2>7, <2>8, <2>9 DEF CatalogShape, CatalogHold, CatalogInv
<1> QED BY <1>2, <1>3

(* The pairs of TaskDependencyService: require_allowed keeps them inside a    *)
(* project and without a cycle                                                *)
LEMMA PairsHold ==
    ASSUME CatalogConstants, CatalogShape,
           \/ \E t \in Task, on \in Task : AddDependency(t, on)
           \/ \E d \in depends : RemoveDependency(d)
    PROVE  CatalogShape'
<1>1. /\ CatalogTypes /\ depends \subseteq DependencyRow /\ crossed \in BOOLEAN /\ CatalogHold /\ ParentsAreThere
      /\ AnchorsNameOne /\ EpicsHoldTheirTasks
  BY DEF CatalogShape, CatalogHold, CatalogInv, CatalogTypes
<1>2. UNCHANGED <<company, proj, task, tag, crossed>>
  BY DEF AddDependency, RemoveDependency
<1>3. Companies' = Companies /\ Projects' = Projects /\ Tasks' = Tasks
  BY <1>2 DEF Companies, Projects, Tasks
<1>4. AnchorsNameOne' /\ EpicsHoldTheirTasks'
  <2>1. AnchorsNameOne'
    BY <1>2, <1>3, CompaniesStand, ProjectsStand, TasksStand DEF AnchorsNameOne
  <2>2. EpicsHoldTheirTasks'
    BY <1>1, <1>2, <1>3 DEF EpicsHoldTheirTasks
  <2> QED BY <2>1, <2>2
<1>5. ASSUME depends' \subseteq DependencyRow, \A d \in depends' : {d.task, d.on} \subseteq Tasks
      PROVE  CatalogTypes' /\ ParentsAreThere'
  BY <1>1, <1>2, <1>3, <1>5 DEF CatalogTypes, ParentsAreThere
<1>6. CASE \E d \in depends : RemoveDependency(d)
  <2>1. depends' \subseteq depends
    BY <1>6 DEF RemoveDependency
  <2>2. CatalogTypes' /\ ParentsAreThere'
    <3>1. depends' \subseteq DependencyRow /\ \A d \in depends' : {d.task, d.on} \subseteq Tasks
      BY <1>1, <2>1 DEF ParentsAreThere
    <3> QED BY <1>5, <3>1
  <2>3. NoTaskWaitsForItself' /\ PairsInside'
    <3>1. crossed' \in BOOLEAN /\ (crossed' = FALSE => crossed = FALSE)
      BY <1>1, <1>2
    <3>2. \A d \in depends' : /\ task'[d.task].project = task[d.task].project
                              /\ task'[d.on].project = task[d.on].project
      BY <1>2
    <3> QED BY <1>1, <2>1, <3>1, <3>2, CyclesHold
  <2> QED BY <1>1, <1>2, <1>4, <2>2, <2>3 DEF CatalogShape, CatalogHold, CatalogInv
<1>7. CASE \E t \in Task, on \in Task : AddDependency(t, on)
  <2> PICK t \in Task, on \in Task : AddDependency(t, on)
    BY <1>7
  <2> DEFINE pair == [task |-> t, on |-> on]
             ours == {d \in depends : task[d.task].project = task[t].project}
  <2>1. /\ t \in Tasks /\ on \in Tasks /\ task[t].project = task[on].project
        /\ t # on /\ t \notin WaitsFor(ours, on) /\ depends' = depends \cup {pair}
    BY DEF AddDependency, Allowed, ClosesACycle
  <2>2. pair.task = t /\ pair.on = on /\ pair \in DependencyRow
    BY DEF DependencyRow
  <2>3. CatalogTypes' /\ ParentsAreThere'
    <3>1. depends' \subseteq DependencyRow
      BY <1>1, <2>1, <2>2
    <3>2. \A d \in depends' : {d.task, d.on} \subseteq Tasks
      BY <1>1, <2>1, <2>2 DEF ParentsAreThere
    <3> QED BY <1>5, <3>1, <3>2
  <2>4. PairsInside'
    BY <1>1, <1>2, <2>1, <2>2 DEF PairsInside, CatalogHold
  <2>5. ASSUME crossed = FALSE PROVE Acyclic'
    <3>1. NoCycle(depends)
      BY <1>1, <2>5 DEF CatalogHold, CatalogInv, NoTaskWaitsForItself, Acyclic, NoCycle, ParentsAreThere
    <3>2. \A d \in depends : task[d.task].project = task[d.on].project
      BY <1>1, <2>5 DEF CatalogHold, PairsInside
    <3> DEFINE walk == WaitsFor(ours, on)
               inside == {u \in walk : task[u].project = task[t].project}
    <3>3. ours \subseteq DependencyRow
      BY <1>1
    <3>4. on \in walk /\ walk \subseteq Task /\ Closed(ours, walk)
      BY <3>3, WalkGoesOn
    <3>5. Closed(depends, inside)
      BY <3>2, <3>4 DEF Closed
    <3>6. WaitsFor(depends, on) \subseteq inside
      <4>1. inside \in SUBSET Task /\ on \in inside
        BY <2>1, <3>4
      <4> HIDE DEF inside
      <4> QED BY <3>5, <4>1, WalkStaysIn
    <3>7. t \notin WaitsFor(depends, on)
      BY <2>1, <3>6
    <3>8. NoCycle(depends')
      BY <1>1, <2>1, <3>1, <3>7, NoCycleAdded
    <3> QED BY <3>8 DEF Acyclic, NoCycle
  <2>6. NoTaskWaitsForItself'
    BY <1>1, <1>2, <2>5 DEF NoTaskWaitsForItself
  <2> QED BY <1>1, <1>2, <1>4, <2>3, <2>4, <2>6 DEF CatalogShape, CatalogHold, CatalogInv
<1> QED BY <1>6, <1>7

(* Whatever a person creates, renames, retypes, moves, links and deletes, an  *)
(* anchor names one record, no row points at a parent that is gone, an epic   *)
(* holds plain tasks of its own project and no steps, and, as long as no end  *)
(* of a dependency changes project, no task waits for itself through any      *)
(* number of others: closes_a_cycle, which walks only the pairs of the        *)
(* project, sees every cycle there could be.                                  *)
THEOREM CatalogIsSound == CatalogSpec => []CatalogInv
<1>1. CatalogConstants
  BY CatalogConstants
<1>2. PlacesInit => CatalogShape
  <2> SUFFICES ASSUME PlacesInit PROVE CatalogShape
    OBVIOUS
  <2>1. /\ company = [c \in Company |-> 0] /\ proj = [p \in Proj |-> NoProject]
        /\ task = [t \in Task |-> NoTask] /\ tag = [g \in Tag |-> 0] /\ depends = {} /\ crossed = FALSE
    BY DEF PlacesInit
  <2>2. NoProject \in ProjectRow /\ NoTask \in TaskRow /\ NoProject.company = 0 /\ NoTask.project = 0
    BY DEF NoProject, NoTask, ProjectRow, TaskRow
  <2>3. CatalogTypes
    BY <2>1, <2>2 DEF CatalogTypes, CompanyRow, TagRow
  <2>4. Companies = {} /\ Projects = {} /\ Tasks = {}
    BY <2>1, <2>2 DEF Companies, Projects, Tasks
  <2> QED BY <2>1, <2>3, <2>4 DEF CatalogShape, CatalogHold, CatalogInv, AnchorsNameOne, ParentsAreThere,
             EpicsHoldTheirTasks, NoTaskWaitsForItself, Acyclic, PairsInside
<1>3. CatalogShape /\ [CatalogNext]_catalog => CatalogShape'
  <2> SUFFICES ASSUME CatalogShape, [CatalogNext]_catalog PROVE CatalogShape'
    OBVIOUS
  <2>1. CASE UNCHANGED catalog
    <3>1. UNCHANGED <<company, proj, task, tag, depends, crossed>>
      BY <2>1 DEF catalog
    <3>2. Companies' = Companies /\ Projects' = Projects /\ Tasks' = Tasks
      BY <3>1 DEF Companies, Projects, Tasks
    <3>3. CatalogTypes' /\ AnchorsNameOne'
      <4>1. CatalogTypes'
        BY <3>1 DEF CatalogShape, CatalogHold, CatalogInv, CatalogTypes
      <4> QED BY <3>1, <3>2, <4>1, CompaniesStand, ProjectsStand, TasksStand DEF AnchorsNameOne
    <3>4. ParentsAreThere'
      BY <3>1, <3>2 DEF CatalogShape, CatalogHold, CatalogInv, ParentsAreThere
    <3>5. EpicsHoldTheirTasks' /\ NoTaskWaitsForItself' /\ PairsInside' /\ (crossed \in BOOLEAN)'
      BY <3>1, <3>2 DEF CatalogShape, CatalogHold, CatalogInv, EpicsHoldTheirTasks, NoTaskWaitsForItself,
                        PairsInside, Acyclic
    <3> QED BY <3>3, <3>4, <3>5 DEF CatalogShape, CatalogHold, CatalogInv
  <2>2. CASE CatalogNext
    <3>1. CASE \/ \E c \in Company, n \in Name : PutCompany(c, n)
               \/ \E g \in Tag, n \in Name : PutTag(g, n)
      BY <1>1, <3>1, NamesHold
    <3>2. CASE \/ \E c \in Company : DeleteCompany(c)
               \/ \E p \in Proj : DeleteProject(p)
               \/ \E t \in Task : DeleteTask(t)
      BY <1>1, <3>2, DeletesHold
    <3>3. CASE \/ \E p \in Proj, c \in Company, l \in Label : PutProject(p, c, l)
               \/ \E g \in Tag : DeleteTag(g)
      BY <1>1, <3>3, PlacesHold
    <3>4. CASE \E t \in Task :
                  \/ \E p \in Proj, l \in Label, kind \in {"TASK", "EPIC"}, e \in Task \cup {0}, g \in Tag \cup {0} :
                        \/ \E quick \in BOOLEAN : CreateTask(t, p, l, kind, e, g, quick)
                        \/ \E status \in {"TODO", "DONE"} : UpdateTask(t, p, l, kind, e, g, status)
                  \/ StartWork(t)
      BY <1>1, <3>4, WritesHold
    <3>5. CASE \/ \E t \in Task, on \in Task : AddDependency(t, on)
               \/ \E d \in depends : RemoveDependency(d)
      BY <1>1, <3>5, PairsHold
    <3> QED BY <2>2, <3>1, <3>2, <3>3, <3>4, <3>5 DEF CatalogNext
  <2> QED BY <2>1, <2>2
<1>4. CatalogShape => CatalogInv
  BY DEF CatalogShape, CatalogHold
<1> QED BY <1>2, <1>3, <1>4, PTL DEF CatalogSpec

-----------------------------------------------------------------------------
(* Counting *)

(* A set that a function of a finite set covers is finite and no larger.      *)
LEMMA Covered ==
    ASSUME NEW S, IsFiniteSet(S), NEW T, NEW f, DOMAIN f = S, f \in [S -> T], \A y \in T : \E x \in S : f[x] = y
    PROVE  IsFiniteSet(T) /\ Cardinality(T) <= Cardinality(S)
<1>1. f \in Surjection(S, T)
  BY DEF Surjection
<1>. QED  BY <1>1, FS_Surjection

(* A function to the naturals takes its greatest value somewhere on a finite  *)
(* set.                                                                       *)
LEMMA GreatestValue ==
    ASSUME NEW S, IsFiniteSet(S), S # {}, NEW f, \A x \in S : f[x] \in Nat
    PROVE  \E x \in S : \A y \in S : f[y] <= f[x]
<1>. DEFINE R == StrictSubsetOrdering(S)
            above(x) == {y \in S : f[y] > f[x]}
            U == {above(x) : x \in S}
<1>1. IsWellFoundedOn(R, FiniteSubsetsOf(S))
  BY FS_StrictSubsetOrderingWellFounded
<1>2. U \subseteq FiniteSubsetsOf(S) /\ U # {}
  <2>1. FiniteSubsetsOf(S) = SUBSET S
    BY FS_FiniteSubsetsOfFinite
  <2>2. U \subseteq SUBSET S /\ U # {}
    OBVIOUS
  <2>. HIDE DEF U
  <2>. QED  BY <2>1, <2>2
<1>3. PICK I \in U : \A J \in U : ~(<<J, I>> \in R)
  <2>. HIDE DEF R, U
  <2>. QED  BY <1>1, <1>2, WFMin
<1>4. PICK x \in S : I = above(x)
  BY <1>3
<1>5. ASSUME NEW y \in S, ~(f[y] <= f[x]) PROVE FALSE
  <2>1. y \in above(x) /\ y \notin above(y) /\ above(y) \subseteq above(x) /\ above(x) \subseteq S
    BY <1>5, SMTT(60)
  <2>2. <<above(y), above(x)>> \in R
    BY <2>1 DEF StrictSubsetOrdering
  <2>. QED  BY <1>3, <1>4, <2>2
<1>. QED  BY <1>5

-----------------------------------------------------------------------------
(* Notes and the tasks they are on *)

(* document_task.rs: "dense from zero"; what DenseOn says of the links of a   *)
(* task                                                                       *)
InPlaces(ls) == {l.position : l \in ls} = 0 .. Cardinality(ls) - 1
Apart(ls) == \A k, l \in ls : k.position = l.position => k = l
Links(ls) == IsFiniteSet(ls) /\ ls \subseteq NoteLinkRow

(* Dense places are no two alike, and below the number of links               *)
LEMMA PlacesApart ==
    ASSUME NEW ls, Links(ls), InPlaces(ls)
    PROVE  Apart(ls) /\ \A l \in ls : l.position < Cardinality(ls)
<1>1. PICK n \in Nat : n = Cardinality(ls)
  BY FS_CardinalityType DEF Links
<1>2. \A l \in ls : l.position \in Nat /\ l.position \in 0 .. n - 1
  BY <1>1 DEF InPlaces, Links, NoteLinkRow
<1>3. PICK f : f = [l \in ls |-> l.position]
  OBVIOUS
<1>4. f \in Surjection(ls, 0 .. n - 1)
  <2>1. f \in [ls -> 0 .. n - 1]
    BY <1>2, <1>3
  <2>2. \A m \in 0 .. n - 1 : \E l \in ls : f[l] = m
    BY <1>1, <1>3 DEF InPlaces
  <2> QED BY <2>1, <2>2 DEF Surjection
<1>5. Cardinality(0 .. n - 1) = n
  BY FS_Interval, SMTT(60)
<1>6. f \in Injection(ls, 0 .. n - 1)
  BY <1>1, <1>4, <1>5, FS_Surjection DEF Links
<1>7. \A k, l \in ls : f[k] = f[l] => k = l
  BY <1>6 DEF Injection, IsInjective
<1> QED BY <1>1, <1>2, <1>3, <1>7, SMTT(60) DEF Apart

(* and the other way round                                                    *)
LEMMA PlacesFill ==
    ASSUME NEW ls, Links(ls), Apart(ls), \A l \in ls : l.position < Cardinality(ls)
    PROVE  InPlaces(ls)
<1>1. PICK n \in Nat : n = Cardinality(ls)
  BY FS_CardinalityType DEF Links
<1>2. \A l \in ls : l.position \in 0 .. n - 1
  BY <1>1, SMTT(60) DEF Links, NoteLinkRow
<1>3. PICK f : f = [l \in ls |-> l.position]
  OBVIOUS
<1>4. f \in Injection(ls, 0 .. n - 1)
  <2>1. f \in [ls -> 0 .. n - 1]
    BY <1>2, <1>3
  <2>2. \A k, l \in ls : f[k] = f[l] => k = l
    BY <1>3 DEF Apart
  <2> QED BY <2>1, <2>2 DEF Injection, IsInjective
<1>5. Cardinality(0 .. n - 1) = n /\ IsFiniteSet(0 .. n - 1)
  BY FS_Interval, SMTT(60)
<1>6. f \in Surjection(ls, 0 .. n - 1)
  BY <1>1, <1>4, <1>5, FS_Injection
<1>7. \A m \in 0 .. n - 1 : \E l \in ls : f[l] = m
  BY <1>6 DEF Surjection
<1> QED BY <1>1, <1>2, <1>3, <1>7 DEF InPlaces

(* A link behind the others keeps the places dense                            *)
LEMMA LastPlace ==
    ASSUME NEW ls, Links(ls), InPlaces(ls), NEW x \in NoteLinkRow, x.position = Cardinality(ls)
    PROVE  Links(ls \cup {x}) /\ InPlaces(ls \cup {x})
<1>1. PICK n \in Nat : n = Cardinality(ls)
  BY FS_CardinalityType DEF Links
<1>2. Apart(ls) /\ \A l \in ls : l.position < n /\ l.position \in Nat
  BY <1>1, PlacesApart DEF Links, NoteLinkRow
<1>3. x \notin ls
  BY <1>1, <1>2, SMTT(60)
<1>4. IsFiniteSet(ls \cup {x}) /\ Cardinality(ls \cup {x}) = n + 1
  BY <1>1, <1>3, FS_AddElement DEF Links
<1>5. Links(ls \cup {x})
  BY <1>4 DEF Links
<1>6. Apart(ls \cup {x})
  BY <1>1, <1>2, SMTT(60) DEF Apart
<1>7. \A l \in ls \cup {x} : l.position < Cardinality(ls \cup {x})
  BY <1>1, <1>2, <1>4, SMTT(60)
<1> QED BY <1>5, <1>6, <1>7, PlacesFill

Before(ls, l) == {k \in ls : k.position < l.position}

(* How many of the links come before one: fewer than there are, and another   *)
(* number for each                                                            *)
LEMMA LinksBefore ==
    ASSUME NEW ls, Links(ls), Apart(ls)
    PROVE  /\ \A l \in ls : /\ Cardinality(Before(ls, l)) \in Nat
                            /\ Cardinality(Before(ls, l)) < Cardinality(ls)
           /\ \A l, m \in ls : Cardinality(Before(ls, l))
                                  = Cardinality(Before(ls, m)) => l = m
<1>1. ASSUME NEW A \in SUBSET ls, NEW B \in SUBSET ls, A \subseteq B, NEW x \in B, x \notin A
      PROVE  Cardinality(A) \in Nat /\ Cardinality(B) \in Nat /\ Cardinality(A) < Cardinality(B)
  <2>1. IsFiniteSet(A) /\ IsFiniteSet(B)
    BY FS_Subset DEF Links
  <2>2. Cardinality(A) \in Nat /\ Cardinality(B) \in Nat
    BY <2>1, FS_CardinalityType
  <2>3. Cardinality(A) <= Cardinality(B) /\ Cardinality(A) # Cardinality(B)
    BY <1>1, <2>1, FS_Subset
  <2> QED BY <2>2, <2>3, SMTT(60)
<1>2. \A l \in ls : l.position \in Nat
  BY DEF Links, NoteLinkRow
<1>3. ASSUME NEW l \in ls
      PROVE  /\ Cardinality(Before(ls, l)) \in Nat
             /\ Cardinality(Before(ls, l)) < Cardinality(ls)
  <2>1. PICK A : A = Before(ls, l)
    OBVIOUS
  <2>2. A \in SUBSET ls /\ l \notin A
    BY <1>2, <2>1, SMTT(60) DEF Before
  <2> QED BY <1>1, <1>3, <2>1, <2>2
<1>4. ASSUME NEW l \in ls, NEW m \in ls, l.position < m.position
      PROVE  Cardinality(Before(ls, l)) # Cardinality(Before(ls, m))
  <2>1. PICK A, B : A = Before(ls, l) /\ B = Before(ls, m)
    OBVIOUS
  <2>2. A \in SUBSET ls /\ B \in SUBSET ls /\ A \subseteq B /\ l \in B /\ l \notin A
    BY <1>2, <1>4, <2>1, SMTT(60) DEF Before
  <2> QED BY <1>1, <2>1, <2>2, SMTT(60)
<1>5. ASSUME NEW l \in ls, NEW m \in ls, l # m PROVE l.position < m.position \/ m.position < l.position
  BY <1>2, <1>5, SMTT(60) DEF Apart
<1> QED BY <1>3, <1>4, <1>5

ClosedUp(ls) == {[l EXCEPT !.position = Cardinality(Before(ls, l))] : l \in ls}

(* The links that are left, numbered by how many come before: dense           *)
LEMMA ClosesUp ==
    ASSUME NEW ls, Links(ls), Apart(ls)
    PROVE  Links(ClosedUp(ls)) /\ InPlaces(ClosedUp(ls))
<1>1. PICK f : f = [l \in ls |-> [l EXCEPT !.position = Cardinality(Before(ls, l))]]
  OBVIOUS
<1>2. ASSUME NEW l \in ls
      PROVE  /\ f[l] \in NoteLinkRow /\ f[l].position \in Nat /\ f[l].position < Cardinality(ls)
             /\ f[l].position = Cardinality(Before(ls, l))
  <2>1. PICK n \in Nat : n = Cardinality(Before(ls, l))
    BY LinksBefore
  <2>2. n < Cardinality(ls)
    BY <2>1, LinksBefore
  <2>3. f[l] = [l EXCEPT !.position = n]
    BY <1>1, <2>1
  <2>4. l \in NoteLinkRow
    BY DEF Links
  <2>5. f[l].position = n /\ f[l] \in NoteLinkRow
    BY <2>3, <2>4 DEF NoteLinkRow
  <2> QED BY <2>1, <2>2, <2>5
<1>3. ClosedUp(ls) = {f[l] : l \in ls}
  BY <1>1 DEF ClosedUp
<1>4. \A k, l \in ls : f[k].position = f[l].position => k = l
  <2>1. \A k, l \in ls : Cardinality(Before(ls, k)) = Cardinality(Before(ls, l)) => k = l
    BY LinksBefore
  <2> QED BY <1>2, <2>1
<1>5. f \in Bijection(ls, ClosedUp(ls))
  <2>1. f \in [ls -> ClosedUp(ls)]
    BY <1>1, <1>3
  <2>2. \A k, l \in ls : f[k] = f[l] => k = l
    BY <1>4
  <2>3. \A y \in ClosedUp(ls) : \E l \in ls : f[l] = y
    BY <1>3
  <2> QED BY <2>1, <2>2, <2>3 DEF Bijection, Injection, Surjection, IsInjective
<1>6. IsFiniteSet(ClosedUp(ls)) /\ Cardinality(ClosedUp(ls)) = Cardinality(ls)
  <2>1. ExistsBijection(ls, ClosedUp(ls))
    BY <1>5 DEF ExistsBijection
  <2> QED BY <2>1, FS_Bijection DEF Links
<1>7. Links(ClosedUp(ls))
  <2>1. ASSUME NEW a \in ClosedUp(ls) PROVE a \in NoteLinkRow
    BY <1>2, <1>3
  <2> QED BY <1>6, <2>1 DEF Links
<1>8. Apart(ClosedUp(ls))
  <2> SUFFICES ASSUME NEW a \in ClosedUp(ls), NEW b \in ClosedUp(ls), a.position = b.position PROVE a = b
    BY DEF Apart
  <2>1. PICK k \in ls, l \in ls : a = f[k] /\ b = f[l]
    BY <1>3
  <2> QED BY <1>4, <2>1
<1>9. \A a \in ClosedUp(ls) : a.position < Cardinality(ClosedUp(ls))
  <2>1. ASSUME NEW a \in ClosedUp(ls) PROVE a.position < Cardinality(ls)
    BY <1>2, <1>3
  <2> QED BY <1>6, <2>1
<1> QED BY <1>7, <1>8, <1>9, PlacesFill

OncePerTask(ls) == \A k, l \in ls : k.note = l.note /\ k.task = l.task => k = l

(* detach: the links left are of the same notes and tasks, once each, and in  *)
(* dense places where they were                                               *)
LEMMA DetachHolds ==
    ASSUME NEW ls, Links(ls), OncePerTask(ls), NEW n, NEW ts, NEW left, left = Detached(ls, n, ts)
    PROVE  /\ Links(left) /\ OncePerTask(left)
           /\ \A m \in left : \E l \in ls : m.note = l.note /\ m.task = l.task /\ ~(l.note = n /\ l.task \in ts)
           /\ \A t : InPlaces(LinksOfTask(ls, t)) => InPlaces(LinksOfTask(left, t))
<1> DEFINE mine(l) == l.note = n /\ l.task \in ts
<1>1. PICK kept : kept = {l \in ls : ~mine(l)}
  OBVIOUS
<1>2. kept \subseteq ls /\ (\A l \in kept : ~mine(l)) /\ Links(kept)
  <2>1. kept \in SUBSET ls /\ \A l \in kept : ~mine(l)
    BY <1>1
  <2>2. IsFiniteSet(kept)
    BY <2>1, FS_Subset DEF Links
  <2> QED BY <2>1, <2>2 DEF Links
<1> DEFINE near(l) == Before(LinksOfTask(kept, l.task), l)
           moved(l) == IF l.task \in ts THEN [l EXCEPT !.position = Cardinality(near(l))] ELSE l
<1>3. left = {moved(l) : l \in kept}
  BY <1>1 DEF Detached, Before
<1>4. \A t : LinksOfTask(kept, t) \in SUBSET kept /\ Links(LinksOfTask(kept, t))
  <2> TAKE t
  <2>1. LinksOfTask(kept, t) \in SUBSET kept
    BY DEF LinksOfTask
  <2>2. IsFiniteSet(LinksOfTask(kept, t))
    BY <1>2, <2>1, FS_Subset DEF Links
  <2> QED BY <1>2, <2>1, <2>2 DEF Links
<1>5. ASSUME NEW l \in kept
      PROVE  /\ moved(l) \in NoteLinkRow /\ moved(l).note = l.note /\ moved(l).task = l.task
             /\ l.task \notin ts => moved(l) = l
  <2>1. l \in NoteLinkRow
    BY <1>2 DEF Links
  <2>2. Cardinality(near(l)) \in Nat
    <3>1. near(l) \in SUBSET kept
      BY DEF Before, LinksOfTask
    <3>2. IsFiniteSet(near(l))
      BY <1>2, <3>1, FS_Subset DEF Links
    <3> QED BY <3>2, FS_CardinalityType
  <2> HIDE DEF near
  <2> QED BY <2>1, <2>2 DEF NoteLinkRow
<1>6. PICK f : f = [l \in kept |-> moved(l)]
  OBVIOUS
<1>7. left = {f[l] : l \in kept}
  BY <1>3, <1>6
<1>8. \A l \in kept : f[l] \in NoteLinkRow /\ f[l].note = l.note /\ f[l].task = l.task
  BY <1>5, <1>6
<1>13. \A l \in kept : l.task \notin ts => f[l] = l
  BY <1>5, <1>6
<1>14. \A l \in kept : l.task \in ts => f[l] = [l EXCEPT !.position = Cardinality(Before(LinksOfTask(kept, l.task), l))]
  BY <1>6
<1> HIDE DEF moved, near
<1>9. Links(left)
  <2>1. ASSUME NEW m \in left PROVE m \in NoteLinkRow
    BY <1>7, <1>8
  <2>2. DOMAIN f = kept /\ f \in [kept -> left]
    BY <1>6, <1>7
  <2>3. IsFiniteSet(left)
    <3>1. \A m \in left : \E l \in kept : f[l] = m
      BY <1>7
    <3>2. IsFiniteSet(kept)
      BY <1>2 DEF Links
    <3> QED BY <2>2, <3>1, <3>2, Covered, ZenonT(60)
  <2> QED BY <2>1, <2>3 DEF Links
<1>10. OncePerTask(left)
  <2> SUFFICES ASSUME NEW a \in left, NEW b \in left, a.note = b.note, a.task = b.task PROVE a = b
    BY DEF OncePerTask
  <2>1. PICK k \in kept, l \in kept : a = f[k] /\ b = f[l]
    BY <1>7
  <2>2. k.note = l.note /\ k.task = l.task
    BY <1>8, <2>1
  <2>3. k = l
    BY <1>2, <2>2 DEF OncePerTask
  <2> QED BY <2>1, <2>3
<1>11. \A m \in left : \E l \in ls : m.note = l.note /\ m.task = l.task /\ ~mine(l)
  <2> TAKE m \in left
  <2>1. PICK l \in kept : m = f[l]
    BY <1>7
  <2> QED BY <1>2, <1>8, <2>1
<1>12. ASSUME NEW t, InPlaces(LinksOfTask(ls, t)) PROVE InPlaces(LinksOfTask(left, t))
  <2>1. LinksOfTask(left, t) = {f[l] : l \in LinksOfTask(kept, t)}
    BY <1>7, <1>8, SMTT(60) DEF LinksOfTask
  <2>2. CASE t \notin ts
    <3>1. \A l \in LinksOfTask(kept, t) : f[l] = l
      BY <1>13, <2>2 DEF LinksOfTask
    <3>2. LinksOfTask(left, t) = LinksOfTask(kept, t)
      BY <2>1, <3>1, SMTT(60)
    <3>3. LinksOfTask(kept, t) = LinksOfTask(ls, t)
      BY <1>1, <2>2 DEF LinksOfTask
    <3> QED BY <1>12, <3>2, <3>3
  <2>3. CASE t \in ts
    <3>1. PICK K : K = LinksOfTask(kept, t)
      OBVIOUS
    <3>2. ASSUME NEW l \in K PROVE f[l] = [l EXCEPT !.position = Cardinality(Before(K, l))]
      <4>1. l \in kept /\ l.task = t
        BY <3>1 DEF LinksOfTask
      <4> QED BY <1>14, <2>3, <3>1, <4>1
    <3>3. LinksOfTask(left, t) = ClosedUp(K)
      <4>1. LinksOfTask(left, t) = {f[l] : l \in K}
        BY <2>1, <3>1
      <4>2. ASSUME NEW m \in LinksOfTask(left, t) PROVE m \in ClosedUp(K)
        BY <3>2, <4>1 DEF ClosedUp
      <4>3. ASSUME NEW m \in ClosedUp(K) PROVE m \in LinksOfTask(left, t)
        BY <3>2, <4>1 DEF ClosedUp
      <4> QED BY <4>2, <4>3
    <3>4. K \subseteq LinksOfTask(ls, t) /\ Links(K) /\ Links(LinksOfTask(ls, t))
      <4>1. LinksOfTask(ls, t) \in SUBSET ls
        BY DEF LinksOfTask
      <4>2. IsFiniteSet(LinksOfTask(ls, t))
        BY <4>1, FS_Subset DEF Links
      <4>3. Links(LinksOfTask(ls, t))
        BY <4>1, <4>2 DEF Links
      <4>4. K \subseteq LinksOfTask(ls, t)
        BY <1>2, <3>1 DEF LinksOfTask
      <4> QED BY <1>4, <3>1, <4>3, <4>4
    <3>5. Apart(K)
      BY <1>12, <3>4, PlacesApart DEF Apart
    <3> QED BY <3>3, <3>4, <3>5, ClosesUp
  <2> QED BY <2>2, <2>3
<1> QED BY <1>9, <1>10, <1>11, <1>12

(* link: the note on each task wanted, once, and last on the new ones         *)
LEMMA LinkHolds ==
    ASSUME Links(noteLink), OncePerTask(noteLink), IsFiniteSet(OnTask), NEW n \in Note, NEW tasks \in SUBSET OnTask,
           NEW after, after = Linked(n, tasks)
    PROVE  /\ Links(after) /\ OncePerTask(after)
           /\ \A m \in after : IF m.note = n THEN m.task \in tasks
                               ELSE \E l \in noteLink : m.note = l.note /\ m.task = l.task
           /\ \A t \in OnTask : InPlaces(LinksOfTask(noteLink, t)) => InPlaces(LinksOfTask(after, t))
<1>1. PICK on, kept : on = NoteTasks(n) /\ kept = Detached(noteLink, n, on \ tasks)
  OBVIOUS
<1>2. /\ Links(kept) /\ OncePerTask(kept)
      /\ \A m \in kept : \E l \in noteLink : m.note = l.note /\ m.task = l.task /\ ~(l.note = n /\ l.task \in on \ tasks)
      /\ \A t : InPlaces(LinksOfTask(noteLink, t)) => InPlaces(LinksOfTask(kept, t))
  BY <1>1, DetachHolds, SMTT(60)
<1>3. \A l \in noteLink : l.note = n => l.task \in on
  BY <1>1 DEF NoteTasks
<1>4. \A t : LinksOfTask(kept, t) \in SUBSET kept /\ Links(LinksOfTask(kept, t))
  <2> TAKE t
  <2>1. LinksOfTask(kept, t) \in SUBSET kept
    BY DEF LinksOfTask
  <2>2. IsFiniteSet(LinksOfTask(kept, t))
    BY <1>2, <2>1, FS_Subset DEF Links
  <2> QED BY <1>2, <2>1, <2>2 DEF Links
<1>5. PICK f : f = [t \in tasks \ on |-> [note |-> n, task |-> t, position |-> Cardinality(LinksOfTask(kept, t))]]
  OBVIOUS
<1>6. PICK new : new = {f[t] : t \in tasks \ on}
  OBVIOUS
<1>7. after = kept \cup new
  BY <1>1, <1>5, <1>6 DEF Linked
<1>8. ASSUME NEW t \in tasks \ on
      PROVE  /\ f[t] \in NoteLinkRow /\ f[t].note = n /\ f[t].task = t
             /\ f[t].position = Cardinality(LinksOfTask(kept, t))
  <2>1. PICK c \in Nat : c = Cardinality(LinksOfTask(kept, t))
    <3>1. IsFiniteSet(LinksOfTask(kept, t))
      BY <1>4 DEF Links
    <3> QED BY <3>1, FS_CardinalityType
  <2>2. f[t] = [note |-> n, task |-> t, position |-> c]
    BY <1>5, <2>1
  <2>3. f[t] \in NoteLinkRow /\ f[t].note = n /\ f[t].task = t /\ f[t].position = c
    BY <2>2, SMTT(60) DEF NoteLinkRow
  <2> QED BY <2>1, <2>3
<1>9. ASSUME NEW m \in new PROVE m \in NoteLinkRow /\ m.note = n /\ m.task \in tasks \ on /\ m = f[m.task]
  <2>1. PICK t \in tasks \ on : m = f[t]
    BY <1>6
  <2> QED BY <1>8, <2>1
<1>10. Links(after)
  <2>1. IsFiniteSet(tasks \ on)
    BY FS_Subset
  <2>2. DOMAIN f = tasks \ on /\ f \in [tasks \ on -> new] /\ \A m \in new : \E t \in tasks \ on : f[t] = m
    BY <1>5, <1>6
  <2>3. IsFiniteSet(new)
    BY <2>1, <2>2, Covered, ZenonT(60)
  <2>4. IsFiniteSet(kept \cup new)
    <3>1. IsFiniteSet(kept)
      BY <1>2 DEF Links
    <3> QED BY <2>3, <3>1, FS_Union
  <2>5. kept \cup new \subseteq NoteLinkRow
    BY <1>2, <1>9 DEF Links
  <2> QED BY <1>7, <2>4, <2>5 DEF Links
<1>11. ASSUME NEW m \in kept, m.note = n PROVE m.task \in tasks \cap on
  BY <1>2, <1>3, <1>11
<1>12. OncePerTask(after)
  <2> SUFFICES ASSUME NEW a \in after, NEW b \in after, a.note = b.note, a.task = b.task PROVE a = b
    BY DEF OncePerTask
  <2>1. CASE a \in kept /\ b \in kept
    BY <1>2, <2>1 DEF OncePerTask
  <2>2. CASE a \in new /\ b \in new
    BY <1>9, <2>2
  <2>3. CASE a \in kept /\ b \in new
    BY <1>9, <1>11, <2>3
  <2>4. CASE a \in new /\ b \in kept
    BY <1>9, <1>11, <2>4
  <2> QED BY <1>7, <2>1, <2>2, <2>3, <2>4
<1>13. ASSUME NEW m \in after
       PROVE  IF m.note = n THEN m.task \in tasks ELSE \E l \in noteLink : m.note = l.note /\ m.task = l.task
  BY <1>2, <1>7, <1>9, <1>11
<1>14. ASSUME NEW t \in OnTask, InPlaces(LinksOfTask(noteLink, t)) PROVE InPlaces(LinksOfTask(after, t))
  <2>1. InPlaces(LinksOfTask(kept, t))
    BY <1>2, <1>14
  <2>2. CASE t \in tasks \ on
    <3>1. LinksOfTask(after, t) = LinksOfTask(kept, t) \cup {f[t]}
      <4>1. f[t] \in new /\ f[t].task = t
        BY <1>6, <1>8, <2>2
      <4>2. \A m \in new : m.task = t => m = f[t]
        BY <1>9
      <4> QED BY <1>7, <4>1, <4>2 DEF LinksOfTask
    <3> QED BY <1>4, <1>8, <2>1, <2>2, <3>1, LastPlace, SMTT(60)
  <2>3. CASE t \notin tasks \ on
    <3>1. LinksOfTask(after, t) = LinksOfTask(kept, t)
      <4>1. \A m \in new : m.task # t
        BY <1>9, <2>3
      <4> QED BY <1>7, <4>1 DEF LinksOfTask
    <3> QED BY <2>1, <3>1
  <2> QED BY <2>2, <2>3
<1> QED BY <1>10, <1>12, <1>13, <1>14

(* The rows of notes and their links: a link is of a note and of a task that  *)
(* are there, and once; the places are dense and the tasks inside the scope   *)
LinksStand == \A l \in noteLink : note[l.note].title # 0 /\ home[l.task] # 0

NotesShape ==
    /\ note \in [Note -> NoteRow \cup {NoNote}] /\ Links(noteLink) /\ OncePerTask(noteLink)
    /\ home \in [OnTask -> InProject \cup {0}] /\ standing \subseteq InProject /\ strayed \in BOOLEAN
    /\ LinksStand /\ NotePlacesDense /\ NotesInsideScope

(* create, update: the note as given, on the tasks wanted                     *)
LEMMA PutNote ==
    ASSUME NoteConstants, NotesShape, NEW n \in Note, NEW row \in NoteRow, NEW tasks \in SUBSET OnTasks,
           Settles(row.scope, tasks), note' = [note EXCEPT ![n] = row], noteLink' = Linked(n, tasks),
           UNCHANGED <<home, standing, strayed>>
    PROVE  NotesShape'
<1>1. /\ Links(noteLink) /\ OncePerTask(noteLink) /\ note \in [Note -> NoteRow \cup {NoNote}]
      /\ LinksStand /\ IsFiniteSet(OnTask) /\ tasks \in SUBSET OnTask /\ \A t \in tasks : home[t] # 0
  BY DEF NotesShape, NoteConstants, OnTasks
<1>2. /\ Links(noteLink') /\ OncePerTask(noteLink')
      /\ \A m \in noteLink' : IF m.note = n THEN m.task \in tasks
                              ELSE \E l \in noteLink : m.note = l.note /\ m.task = l.task
      /\ \A t \in OnTask : InPlaces(LinksOfTask(noteLink, t)) => InPlaces(LinksOfTask(noteLink', t))
  BY <1>1, LinkHolds, SMTT(60)
<1>3. /\ note' \in [Note -> NoteRow \cup {NoNote}] /\ note'[n] = row /\ row.title # 0
      /\ \A m \in Note \ {n} : note'[m] = note[m]
  BY <1>1 DEF NoteRow, NoteConstants
<1>4. \A l \in noteLink' : l.note \in Note /\ l.task \in OnTask
  BY <1>2 DEF Links, NoteLinkRow
<1>5. \A l \in noteLink : l.note \in Note /\ l.task \in OnTask
  BY <1>1 DEF Links, NoteLinkRow
<1>6. LinksStand'
  <2> SUFFICES ASSUME NEW m \in noteLink' PROVE note'[m.note].title # 0 /\ home[m.task] # 0
    BY DEF LinksStand
  <2>1. CASE m.note = n
    BY <1>1, <1>2, <1>3, <2>1
  <2>2. CASE m.note # n
    <3>1. PICK l \in noteLink : m.note = l.note /\ m.task = l.task
      BY <1>2, <2>2
    <3> QED BY <1>1, <1>3, <1>5, <2>2, <3>1, SMTT(60) DEF LinksStand
  <2> QED BY <2>1, <2>2
<1>7. NotePlacesDense'
  <2> SUFFICES ASSUME ~strayed, NEW t \in OnTask PROVE InPlaces(LinksOfTask(noteLink', t))
    BY DEF NotePlacesDense, DenseOn, InPlaces
  <2>1. InPlaces(LinksOfTask(noteLink, t))
    BY DEF NotesShape, NotePlacesDense, DenseOn, InPlaces
  <2> QED BY <1>2, <2>1
<1>8. NotesInsideScope'
  <2> SUFFICES ASSUME ~strayed, NEW m \in noteLink' PROVE ScopeAdmits(note'[m.note].scope, home[m.task])
    BY DEF NotesInsideScope
  <2>1. CASE m.note = n
    BY <1>2, <1>3, <2>1 DEF Settles
  <2>2. CASE m.note # n
    <3>1. PICK l \in noteLink : m.note = l.note /\ m.task = l.task
      BY <1>2, <2>2
    <3>2. ScopeAdmits(note[l.note].scope, home[l.task])
      BY DEF NotesShape, NotesInsideScope
    <3>3. note'[m.note] = note[l.note]
      BY <1>3, <1>5, <2>2, <3>1
    <3> QED BY <3>1, <3>2, <3>3
  <2> QED BY <2>1, <2>2
<1> QED BY <1>2, <1>3, <1>6, <1>7, <1>8 DEF NotesShape

(* delete: off every task first                                               *)
LEMMA DeleteNoteHolds ==
    ASSUME NoteConstants, NotesShape, NEW n \in Note, DeleteNote(n)
    PROVE  NotesShape'
<1>1. /\ Links(noteLink) /\ OncePerTask(noteLink) /\ note \in [Note -> NoteRow \cup {NoNote}] /\ LinksStand
      /\ note' = [note EXCEPT ![n] = NoNote] /\ noteLink' = Detached(noteLink, n, NoteTasks(n))
      /\ UNCHANGED <<home, standing, strayed>>
  BY DEF NotesShape, DeleteNote
<1>2. /\ Links(noteLink') /\ OncePerTask(noteLink')
      /\ \A m \in noteLink' : \E l \in noteLink : m.note = l.note /\ m.task = l.task /\ ~(l.note = n /\ l.task \in NoteTasks(n))
      /\ \A t : InPlaces(LinksOfTask(noteLink, t)) => InPlaces(LinksOfTask(noteLink', t))
  BY <1>1, DetachHolds, SMTT(60)
<1>3. note' \in [Note -> NoteRow \cup {NoNote}] /\ \A m \in Note \ {n} : note'[m] = note[m]
  BY <1>1
<1>4. \A l \in noteLink : l.note \in Note /\ (l.note = n => l.task \in NoteTasks(n))
  BY <1>1 DEF Links, NoteLinkRow, NoteTasks
<1>5. ASSUME NEW m \in noteLink'
      PROVE  \E l \in noteLink : m.note = l.note /\ m.task = l.task /\ note'[m.note] = note[l.note]
  <2>1. PICK l \in noteLink : m.note = l.note /\ m.task = l.task /\ ~(l.note = n /\ l.task \in NoteTasks(n))
    BY <1>2
  <2>2. l.note # n /\ l.note \in Note
    BY <1>4, <2>1
  <2> QED BY <1>3, <2>1, <2>2
<1>6. LinksStand'
  BY <1>1, <1>5, SMTT(60) DEF LinksStand
<1>7. NotePlacesDense'
  <2> SUFFICES ASSUME ~strayed, NEW t \in OnTask PROVE InPlaces(LinksOfTask(noteLink', t))
    BY <1>1 DEF NotePlacesDense, DenseOn, InPlaces
  <2>1. InPlaces(LinksOfTask(noteLink, t))
    BY DEF NotesShape, NotePlacesDense, DenseOn, InPlaces
  <2> QED BY <1>2, <2>1
<1>8. NotesInsideScope'
  <2> SUFFICES ASSUME ~strayed, NEW m \in noteLink' PROVE ScopeAdmits(note'[m.note].scope, home[m.task])
    BY <1>1 DEF NotesInsideScope
  <2>1. PICK l \in noteLink : m.note = l.note /\ m.task = l.task /\ note'[m.note] = note[l.note]
    BY <1>5
  <2>2. ScopeAdmits(note[l.note].scope, home[l.task])
    BY DEF NotesShape, NotesInsideScope
  <2> QED BY <2>1, <2>2
<1> QED BY <1>1, <1>2, <1>3, <1>6, <1>7, <1>8 DEF NotesShape

(* rekall_note: adding is putting the note on the one task; rewriting changes *)
(* the body                                                                   *)
LEMMA WriteNoteHolds ==
    ASSUME NoteConstants, NotesShape, NEW n \in Note, NEW t \in OnTask, NEW title \in NoteTitle, NEW replace \in BOOLEAN,
           WriteNote(n, t, title, replace)
    PROVE  NotesShape'
<1>1. CASE /\ n \notin Notes
           /\ note' = [note EXCEPT ![n] = [title |-> title, scope |-> OfProjectScope(home[t]), mode |-> "FULL", body |-> "session"]]
           /\ noteLink' = noteLink \cup {[note |-> n, task |-> t, position |-> Cardinality(LinksOfTask(noteLink, t))]}
  <2>1. \A l \in noteLink : l.note # n
    BY <1>1 DEF NotesShape, LinksStand, Notes
  <2>2. NoteTasks(n) = {}
    BY <2>1 DEF NoteTasks
  <2>3. Detached(noteLink, n, {}) = noteLink
    BY DEF Detached
  <2>4. noteLink' = Linked(n, {t})
    <3>1. NoteTasks(n) \ {t} = {} /\ {t} \ NoteTasks(n) = {t}
      BY <2>2
    <3>2. Linked(n, {t}) = noteLink \cup {[note |-> n, task |-> u, position |-> Cardinality(LinksOfTask(noteLink, u))] : u \in {t}}
      BY <2>3, <3>1 DEF Linked
    <3> QED BY <1>1, <3>2
  <2>5. home[t] \in InProject /\ {t} \in SUBSET OnTasks /\ UNCHANGED <<home, standing, strayed>>
    BY DEF WriteNote, OnTasks, NotesShape
  <2> DEFINE row == [title |-> title, scope |-> OfProjectScope(home[t]), mode |-> "FULL", body |-> "session"]
  <2>6. row \in NoteRow
    BY <2>5 DEF NoteRow, NoteScope
  <2>7. Settles(row.scope, {t})
    BY DEF Settles, ScopeAdmits, OfProjectScope
  <2>8. note' = [note EXCEPT ![n] = row]
    BY <1>1
  <2> HIDE DEF row
  <2> QED BY <2>4, <2>5, <2>6, <2>7, <2>8, PutNote
<1>2. CASE n \in Clash(t, title) /\ note' = [note EXCEPT ![n].body = "session"] /\ UNCHANGED noteLink
  <2>1. note \in [Note -> NoteRow \cup {NoNote}] /\ UNCHANGED <<home, standing, strayed, noteLink>>
    BY <1>2 DEF NotesShape, WriteNote
  <2>2. PICK l \in noteLink : l.note = n
    BY <1>2 DEF Clash, LinksOfTask
  <2>3. note[n] \in NoteRow
    BY <2>1, <2>2, SMTT(60) DEF NotesShape, LinksStand, NoNote
  <2>4. [note[n] EXCEPT !.body = "session"] \in NoteRow
    BY <2>3 DEF NoteRow
  <2>5. note' \in [Note -> NoteRow \cup {NoNote}]
    BY <1>2, <2>1, <2>4
  <2>6. \A m \in Note : note'[m].title = note[m].title /\ note'[m].scope = note[m].scope
    BY <1>2, <2>1, <2>3 DEF NoteRow
  <2>7. \A k \in noteLink : k.note \in Note
    BY DEF NotesShape, Links, NoteLinkRow
  <2>8. LinksStand'
    BY <2>1, <2>6, <2>7 DEF NotesShape, LinksStand
  <2>9. NotePlacesDense'
    BY <2>1 DEF NotesShape, NotePlacesDense, DenseOn, LinksOfTask
  <2>10. NotesInsideScope'
    <3> SUFFICES ASSUME ~strayed, NEW m \in noteLink PROVE ScopeAdmits(note'[m.note].scope, home[m.task])
      BY <2>1 DEF NotesInsideScope
    <3>1. ScopeAdmits(note[m.note].scope, home[m.task])
      BY DEF NotesShape, NotesInsideScope
    <3> QED BY <2>6, <2>7, <3>1
  <2> QED BY <2>1, <2>5, <2>8, <2>9, <2>10 DEF NotesShape
<1> QED BY <1>1, <1>2 DEF WriteNote

(* A task with no notes may change project; one with notes has strayed        *)
LEMMA MoveHolds ==
    ASSUME NoteConstants, NotesShape, NEW t \in OnTask, NEW p \in InProject, MoveOnTask(t, p)
    PROVE  NotesShape'
<1>1. /\ home \in [OnTask -> InProject \cup {0}] /\ home' = [home EXCEPT ![t] = p]
      /\ strayed' = (strayed \/ NotesOn(t) # {}) /\ UNCHANGED <<note, noteLink, standing>> /\ p # 0
  BY DEF NotesShape, MoveOnTask, NoteConstants
<1>2. ~strayed' => ~strayed /\ \A l \in noteLink : l.task # t
  <2>1. \A l \in noteLink : l.task = t => l.note \in NotesOn(t)
    BY DEF NotesOn, LinksOfTask
  <2> QED BY <1>1, <2>1
<1>3. \A l \in noteLink : l.task \in OnTask
  BY DEF NotesShape, Links, NoteLinkRow
<1>4. LinksStand'
  BY <1>1, <1>3 DEF NotesShape, LinksStand
<1>5. NotePlacesDense'
  BY <1>1, <1>2 DEF NotesShape, NotePlacesDense, DenseOn, LinksOfTask
<1>6. NotesInsideScope'
  <2> SUFFICES ASSUME ~strayed', NEW m \in noteLink PROVE ScopeAdmits(note[m.note].scope, home'[m.task])
    BY <1>1 DEF NotesInsideScope
  <2>1. ScopeAdmits(note[m.note].scope, home[m.task])
    BY <1>2 DEF NotesShape, NotesInsideScope
  <2>2. home'[m.task] = home[m.task]
    BY <1>1, <1>2, <1>3
  <2> QED BY <2>1, <2>2
<1> QED BY <1>1, <1>4, <1>5, <1>6 DEF NotesShape

(* The cascades: while nothing strayed, a note owned by the project that goes *)
(* is only on tasks that go with it, so the other tasks keep every note       *)
LEMMA CascadeHolds ==
    ASSUME NoteConstants, NotesShape, NEW ts \in SUBSET OnTask, NEW p, CascadeFrom(ts, p), UNCHANGED strayed,
           \A t \in OnTask : home[t] = p /\ home[t] # 0 => t \in ts
    PROVE  NotesShape'
<1> DEFINE gone == {n \in Notes : note[n].scope = OfProjectScope(p)}
<1>1. /\ note' = [n \in Note |-> IF n \in gone THEN NoNote ELSE note[n]]
      /\ noteLink' = {l \in noteLink : l.note \notin gone /\ l.task \notin ts}
      /\ home' = [t \in OnTask |-> IF t \in ts THEN 0 ELSE home[t]]
      /\ standing' = standing \ {p}
  BY DEF CascadeFrom
<1>2. /\ note \in [Note -> NoteRow \cup {NoNote}] /\ home \in [OnTask -> InProject \cup {0}]
      /\ Links(noteLink) /\ OncePerTask(noteLink) /\ LinksStand
      /\ \A l \in noteLink : l.note \in Note /\ l.task \in OnTask
  BY DEF NotesShape, Links, NoteLinkRow
<1>3. ASSUME ~strayed, NEW l \in noteLink, l.note \in gone PROVE l.task \in ts
  <2>1. ScopeAdmits(note[l.note].scope, home[l.task])
    BY <1>3 DEF NotesShape, NotesInsideScope
  <2>2. note[l.note].scope = OfProjectScope(p)
    BY <1>3
  <2>3. ScopeAdmits(OfProjectScope(p), home[l.task])
    BY <2>1, <2>2
  <2>4. home[l.task] = p
    BY <2>3 DEF ScopeAdmits, OfProjectScope
  <2> QED BY <1>2, <2>4 DEF LinksStand
<1>4. note' \in [Note -> NoteRow \cup {NoNote}] /\ home' \in [OnTask -> InProject \cup {0}] /\ standing' \subseteq InProject
  BY <1>1, <1>2 DEF NotesShape
<1>5. noteLink' \subseteq noteLink /\ \A l \in noteLink' : note'[l.note] = note[l.note] /\ home'[l.task] = home[l.task]
  BY <1>1, <1>2
<1>6. Links(noteLink') /\ OncePerTask(noteLink')
  BY <1>2, <1>5, FS_Subset DEF Links, OncePerTask
<1>7. LinksStand'
  BY <1>2, <1>5 DEF LinksStand
<1>8. NotePlacesDense'
  <2> SUFFICES ASSUME ~strayed, NEW t \in OnTask PROVE InPlaces(LinksOfTask(noteLink', t))
    BY DEF NotePlacesDense, DenseOn, InPlaces
  <2>1. InPlaces(LinksOfTask(noteLink, t))
    BY DEF NotesShape, NotePlacesDense, DenseOn, InPlaces
  <2>2. CASE t \notin ts
    <3>1. LinksOfTask(noteLink', t) = LinksOfTask(noteLink, t)
      BY <1>1, <1>3, <2>2 DEF LinksOfTask
    <3> QED BY <2>1, <3>1
  <2>3. CASE t \in ts
    <3>1. LinksOfTask(noteLink', t) = {}
      BY <1>1, <2>3 DEF LinksOfTask
    <3> QED BY <3>1, FS_EmptySet, SMTT(60) DEF InPlaces
  <2> QED BY <2>2, <2>3
<1>9. NotesInsideScope'
  <2> SUFFICES ASSUME ~strayed, NEW m \in noteLink' PROVE ScopeAdmits(note'[m.note].scope, home'[m.task])
    BY DEF NotesInsideScope
  <2>1. ScopeAdmits(note[m.note].scope, home[m.task])
    BY <1>5 DEF NotesShape, NotesInsideScope
  <2> QED BY <1>5, <2>1
<1> QED BY <1>4, <1>6, <1>7, <1>8, <1>9 DEF NotesShape

(* narrowest: a scope there is                                                *)
LEMMA NarrowestIsAScope ==
    ASSUME NotesShape, NEW tasks \in SUBSET OnTasks
    PROVE  Narrowest(tasks) \in NoteScope
<1>1. PICK places : places = {home[t] : t \in tasks}
  OBVIOUS
<1>2. places \subseteq InProject
  BY <1>1 DEF NotesShape, OnTasks
<1>3. CASE places = {}
  BY <1>1, <1>3 DEF Narrowest, NoteScope
<1>4. CASE places # {}
  <2>1. PICK q : q = CHOOSE p \in places : TRUE
    OBVIOUS
  <2>2. q \in places
    BY <1>4, <2>1
  <2>3. q \in InProject
    BY <1>2, <2>2
  <2>4. Narrowest(tasks) \in {OfProjectScope(q), OfCompany(Owner[q]), Global}
    BY <1>1, <1>4, <2>1 DEF Narrowest
  <2> QED BY <2>3, <2>4 DEF NoteScope
<1> QED BY <1>3, <1>4

(* Every step of the notes                                                    *)
LEMMA NotesStep ==
    ASSUME NoteConstants, NotesShape, NotesNext
    PROVE  NotesShape'
<1>1. ASSUME NEW n \in Note, NEW tasks \in SUBSET OnTasks, NEW title \in NoteTitle, NEW mode \in {"FULL", "REFERENCE"},
             NEW scope \in {Narrowest(tasks)} \cup Scopes, CreateNote(n, title, tasks, scope, mode)
      PROVE  NotesShape'
  <2>1. scope \in NoteScope
    BY NarrowestIsAScope DEF Scopes
  <2>2. PICK row : row = [title |-> title, scope |-> scope, mode |-> mode, body |-> "person"]
    OBVIOUS
  <2>3. row \in NoteRow /\ row.scope = scope
    BY <2>1, <2>2 DEF NoteRow
  <2>4. note' = [note EXCEPT ![n] = row] /\ noteLink' = Linked(n, tasks) /\ UNCHANGED <<home, standing, strayed>>
    BY <1>1, <2>2 DEF CreateNote
  <2>5. Settles(row.scope, tasks)
    BY <1>1, <2>3 DEF CreateNote
  <2> QED BY <2>3, <2>4, <2>5, PutNote
<1>2. ASSUME NEW n \in Notes, NEW tasks \in SUBSET OnTasks, NEW title \in NoteTitle, NEW scope \in Scopes,
             NEW mode \in {"FULL", "REFERENCE"}, UpdateNote(n, title, tasks, scope, mode)
      PROVE  NotesShape'
  <2>1. scope \in NoteScope /\ n \in Note
    BY DEF Scopes, Notes
  <2>2. PICK row : row = [title |-> title, scope |-> scope, mode |-> mode, body |-> "person"]
    OBVIOUS
  <2>3. row \in NoteRow /\ row.scope = scope
    BY <2>1, <2>2 DEF NoteRow
  <2>4. note' = [note EXCEPT ![n] = row] /\ noteLink' = Linked(n, tasks) /\ UNCHANGED <<home, standing, strayed>>
    BY <1>2, <2>2 DEF UpdateNote
  <2>5. Settles(row.scope, tasks)
    BY <1>2, <2>3 DEF UpdateNote
  <2> QED BY <2>1, <2>3, <2>4, <2>5, PutNote
<1>3. ASSUME NEW t \in OnTask, DeleteOnTask(t) PROVE NotesShape'
  <2>1. /\ {t} \in SUBSET OnTask /\ CascadeFrom({t}, 0) /\ UNCHANGED strayed
        /\ \A u \in OnTask : home[u] = 0 /\ home[u] # 0 => u \in {t}
    BY <1>3 DEF DeleteOnTask
  <2> QED BY <2>1, CascadeHolds
<1>4. ASSUME NEW p \in InProject, DeleteInProject(p) PROVE NotesShape'
  <2>1. PICK ts : ts = {t \in OnTasks : home[t] = p}
    OBVIOUS
  <2>2. ts \in SUBSET OnTask /\ \A u \in OnTask : home[u] = p /\ home[u] # 0 => u \in ts
    BY <2>1 DEF OnTasks
  <2>3. CascadeFrom(ts, p) /\ UNCHANGED strayed
    BY <1>4, <2>1 DEF DeleteInProject
  <2> QED BY <2>2, <2>3, CascadeHolds
<1> QED BY <1>1, <1>2, <1>3, <1>4, DeleteNoteHolds, WriteNoteHolds, MoveHolds DEF NotesNext

(* and what it never does                                                     *)
LEMMA NotesStepKeeps ==
    ASSUME NoteConstants, NotesShape, NotesNext
    PROVE  ScopeKeepsNote /\ SessionKeepsTitle
<1>0. /\ note \in [Note -> NoteRow \cup {NoNote}] /\ 0 \notin NoteTitle
      /\ \A n \in Notes : n \in Note /\ note[n] \in NoteRow /\ note[n].title # 0
  BY SMTT(60) DEF NotesShape, NoteConstants, Notes, NoNote
<1>1. ASSUME NEW n \in Note, NEW row \in NoteRow, n \in Notes => row.body = "person", note' = [note EXCEPT ![n] = row]
      PROVE  ScopeKeepsNote /\ SessionKeepsTitle
  <2>1. row.title # 0
    BY <1>0 DEF NoteRow
  <2> QED BY <1>0, <1>1, <2>1 DEF ScopeKeepsNote, SessionKeepsTitle
<1>2. ASSUME NEW n \in Note, NEW tasks \in SUBSET OnTasks, NEW title \in NoteTitle, NEW mode \in {"FULL", "REFERENCE"},
             NEW scope \in {Narrowest(tasks)} \cup Scopes, CreateNote(n, title, tasks, scope, mode)
      PROVE  ScopeKeepsNote /\ SessionKeepsTitle
  <2>1. scope \in NoteScope
    BY NarrowestIsAScope DEF Scopes
  <2>2. PICK row : row = [title |-> title, scope |-> scope, mode |-> mode, body |-> "person"]
    OBVIOUS
  <2>3. note' = [note EXCEPT ![n] = row] /\ row.body = "person" /\ row \in NoteRow
    BY <1>2, <2>1, <2>2 DEF CreateNote, NoteRow
  <2> QED BY <1>1, <2>3
<1>3. ASSUME NEW n \in Notes, NEW tasks \in SUBSET OnTasks, NEW title \in NoteTitle, NEW scope \in Scopes,
             NEW mode \in {"FULL", "REFERENCE"}, UpdateNote(n, title, tasks, scope, mode)
      PROVE  ScopeKeepsNote /\ SessionKeepsTitle
  <2>1. PICK row : row = [title |-> title, scope |-> scope, mode |-> mode, body |-> "person"]
    OBVIOUS
  <2>2. note' = [note EXCEPT ![n] = row] /\ row.body = "person" /\ n \in Note /\ row \in NoteRow
    BY <1>0, <1>3, <2>1 DEF UpdateNote, NoteRow, Scopes
  <2> QED BY <1>1, <2>2
<1>4. ASSUME NEW n \in Note, DeleteNote(n) PROVE ScopeKeepsNote /\ SessionKeepsTitle
  <2>1. note' = [note EXCEPT ![n] = NoNote] /\ home' = home
    BY <1>4 DEF DeleteNote
  <2>2. \A m \in Note : m # n => note'[m] = note[m]
    BY <1>0, <2>1
  <2>3. ScopeKeepsNote
    <3>1. \A m \in Notes : m # n => note'[m].title # 0
      BY <1>0, <2>2
    <3> QED BY <2>1, <3>1 DEF ScopeKeepsNote
  <2>4. SessionKeepsTitle
    BY <1>0, <2>1, <2>2 DEF SessionKeepsTitle, NoNote
  <2> QED BY <2>3, <2>4
<1>5. ASSUME NEW n \in Note, NEW t \in OnTask, NEW title \in NoteTitle, NEW replace \in BOOLEAN,
             WriteNote(n, t, title, replace)
      PROVE  ScopeKeepsNote /\ SessionKeepsTitle
  <2>1. CASE /\ n \notin Notes
             /\ note' = [note EXCEPT ![n] = [title |-> title, scope |-> OfProjectScope(home[t]), mode |-> "FULL", body |-> "session"]]
    <3>1. home[t] \in InProject
      BY <1>5 DEF WriteNote, OnTasks, NotesShape
    <3>2. PICK row : row = [title |-> title, scope |-> OfProjectScope(home[t]), mode |-> "FULL", body |-> "session"]
      OBVIOUS
    <3>3. OfProjectScope(home[t]) \in NoteScope
      BY <3>1 DEF NoteScope
    <3>4. row \in NoteRow
      BY <3>2, <3>3 DEF NoteRow
    <3> QED BY <1>1, <2>1, <3>2, <3>4
  <2>2. CASE note' = [note EXCEPT ![n].body = "session"]
    <3>1. \A m \in Notes : note'[m] = note[m] \/ note'[m] = [note[m] EXCEPT !.body = "session"]
      BY <1>0, <2>2
    <3>2. ASSUME NEW m \in Notes PROVE note'[m].title # 0
      <4>1. note[m] \in NoteRow /\ note[m].title # 0
        BY <1>0
      <4>2. [note[m] EXCEPT !.body = "session"].title = note[m].title
        BY <4>1 DEF NoteRow
      <4> QED BY <3>1, <4>1, <4>2
    <3>3. SessionKeepsTitle
      BY <1>0, <3>1 DEF SessionKeepsTitle, NoteRow
    <3> QED BY <3>2, <3>3 DEF ScopeKeepsNote
  <2> QED BY <1>5, <2>1, <2>2 DEF WriteNote
<1>6. ASSUME note' = note PROVE ScopeKeepsNote /\ SessionKeepsTitle
  BY <1>0, <1>6 DEF ScopeKeepsNote, SessionKeepsTitle
<1>7. ASSUME NEW ts, NEW p, CascadeFrom(ts, p) PROVE ScopeKeepsNote /\ SessionKeepsTitle
  <2>1. \A m \in Notes : note'[m] = note[m] \/ (note'[m] = NoNote /\ note[m].scope.kind = "PROJECT")
    BY <1>0, <1>7, SMTT(60) DEF CascadeFrom, OfProjectScope
  <2>2. ScopeKeepsNote
    BY <1>0, <2>1 DEF ScopeKeepsNote
  <2>3. SessionKeepsTitle
    BY <1>0, <2>1, SMTT(60) DEF SessionKeepsTitle, NoNote
  <2> QED BY <2>2, <2>3
<1>8. ASSUME NEW t \in OnTask, NEW p \in InProject, MoveOnTask(t, p) PROVE ScopeKeepsNote /\ SessionKeepsTitle
  BY <1>6, <1>8 DEF MoveOnTask
<1>9. ASSUME NEW t \in OnTask, DeleteOnTask(t) PROVE ScopeKeepsNote /\ SessionKeepsTitle
  BY <1>7, <1>9 DEF DeleteOnTask
<1>10. ASSUME NEW p \in InProject, DeleteInProject(p) PROVE ScopeKeepsNote /\ SessionKeepsTitle
  BY <1>7, <1>10 DEF DeleteInProject
<1> QED BY <1>2, <1>3, <1>4, <1>5, <1>8, <1>9, <1>10, ZenonT(60) DEF NotesNext

-----------------------------------------------------------------------------
(* The titled pages *)

(* No two sections of a project have one title, however spelled, or one place *)
TitlesApart ==
    \A x, y \in Page : page[x] # NoPage /\ page[x].project = page[y].project /\ Caseless[page[x].title] = Caseless[page[y].title]
                       => x = y

PagesShape == page \in [Page -> PageRow \cup {NoPage}] /\ TitlesApart /\ PagePlacesApart

(* A row of a project is a section                                            *)
LEMMA PageIsThere ==
    ASSUME SectionConstants, PagesShape, NEW x \in Page
    PROVE  /\ page[x] # NoPage <=> page[x] \in PageRow
           /\ page[x] # NoPage <=> page[x].project \in OfPage
           /\ page[x].position \in Nat
<1>1. page[x] \in PageRow \/ page[x] = NoPage
  BY DEF PagesShape
<1>2. NoPage.project \notin OfPage /\ NoPage.position \in Nat
  BY DEF SectionConstants, NoPage
<1>3. NoPage \notin PageRow /\ \A r \in PageRow : r.project \in OfPage /\ r.position \in Nat
  BY <1>2 DEF PageRow
<1> QED BY <1>1, <1>2, <1>3

(* The next place is behind every section of the project                      *)
LEMMA NextPlaceIsLast ==
    ASSUME SectionConstants, PagesShape, NEW p \in OfPage
    PROVE  NextPlace(p) \in Nat /\ \A x \in Pages(p) : page[x].position < NextPlace(p)
<1> DEFINE places == {0} \cup {page[x].position + 1 : x \in Pages(p)}
<1>1. Pages(p) \subseteq Page /\ IsFiniteSet(Pages(p)) /\ \A x \in Pages(p) : page[x].position \in Nat
  BY PageIsThere, FS_Subset DEF Pages, SectionConstants
<1>2. places \subseteq Nat
  BY <1>1, SMTT(60)
<1>3. \E n \in places : \A x \in Pages(p) : page[x].position < n
  <2>1. CASE Pages(p) = {}
    BY <2>1
  <2>2. CASE Pages(p) # {}
    <3>1. PICK f : f = [x \in Pages(p) |-> page[x].position]
      OBVIOUS
    <3>2. \A x \in Pages(p) : f[x] = page[x].position
      BY <3>1
    <3>3. \A x \in Pages(p) : f[x] \in Nat
      BY <1>1, <3>2
    <3>4. PICK y \in Pages(p) : \A x \in Pages(p) : f[x] <= f[y]
      BY <1>1, <2>2, <3>3, GreatestValue
    <3>5. page[y].position + 1 \in places
      BY <3>4
    <3>6. \A x \in Pages(p) : page[x].position < page[y].position + 1
      BY <1>1, <3>2, <3>4, SMTT(60)
    <3> QED BY <3>5, <3>6
  <2> QED BY <2>1, <2>2
<1>4. NextPlace(p) = CHOOSE n \in places : \A x \in Pages(p) : page[x].position < n
  BY DEF NextPlace
<1> HIDE DEF places
<1>5. NextPlace(p) \in places /\ \A x \in Pages(p) : page[x].position < NextPlace(p)
  BY <1>3, <1>4
<1> QED BY <1>2, <1>5

(* A section added under a title the project does not have                    *)
LEMMA AddHolds ==
    ASSUME SectionConstants, PagesShape, NEW x \in Page, NEW p \in OfPage, NEW title \in Heading, NEW who \in {"person", "session"},
           page[x] = NoPage, Clashing(p, title, {}) = {}, AddPage(x, p, title, who)
    PROVE  PagesShape'
<1>1. page \in [Page -> PageRow \cup {NoPage}] /\ NextPlace(p) \in Nat /\ \A y \in Pages(p) : page[y].position < NextPlace(p)
  BY NextPlaceIsLast DEF PagesShape
<1>2. PICK row : row = [project |-> p, title |-> title, body |-> who, position |-> NextPlace(p)]
  OBVIOUS
<1>3. row \in PageRow /\ row.project = p /\ row.title = title /\ row.position = NextPlace(p)
  BY <1>1, <1>2 DEF PageRow
<1>4. page' = [page EXCEPT ![x] = row]
  BY <1>2 DEF AddPage
<1>5. page' \in [Page -> PageRow \cup {NoPage}] /\ page'[x] = row /\ \A y \in Page : y # x => page'[y] = page[y]
  BY <1>1, <1>3, <1>4
<1>6. \A y \in Page : page[y].project = p => /\ Caseless[page[y].title] # Caseless[title]
                                             /\ page[y].position < NextPlace(p)
  BY <1>1 DEF Clashing, Pages
<1>7. page[x].project # p
  BY PageIsThere
<1>8. \A y \in Page : page[y].position \in Nat
  BY PageIsThere
<1>9. TitlesApart'
  <2> SUFFICES ASSUME NEW y \in Page, NEW z \in Page, page'[y] # NoPage, page'[y].project = page'[z].project,
                      Caseless[page'[y].title] = Caseless[page'[z].title]
               PROVE  y = z
    BY DEF TitlesApart
  <2>1. CASE y # x /\ z # x
    BY <1>5, <2>1, SMTT(60) DEF PagesShape, TitlesApart
  <2>2. CASE y = x /\ z # x
    BY <1>3, <1>5, <1>6, <2>2
  <2>3. CASE y # x /\ z = x
    BY <1>3, <1>5, <1>6, <2>3
  <2> QED BY <2>1, <2>2, <2>3
<1>10. PagePlacesApart'
  <2> SUFFICES ASSUME NEW y \in Page, NEW z \in Page, page'[y] # NoPage, page'[y].project = page'[z].project,
                      page'[y].position = page'[z].position
               PROVE  y = z
    BY DEF PagePlacesApart
  <2>1. CASE y # x /\ z # x
    BY <1>5, <2>1 DEF PagesShape, PagePlacesApart
  <2>2. CASE y = x /\ z # x
    BY <1>1, <1>3, <1>5, <1>6, <1>8, <2>2, SMTT(60)
  <2>3. CASE y # x /\ z = x
    BY <1>1, <1>3, <1>5, <1>6, <1>8, <2>3, SMTT(60)
  <2> QED BY <2>1, <2>2, <2>3
<1> QED BY <1>5, <1>9, <1>10 DEF PagesShape

(* A section given another body, and a title no other section has             *)
LEMMA EditHolds ==
    ASSUME SectionConstants, PagesShape, NEW x \in Page, NEW title \in Heading, NEW who \in {"person", "session"},
           page[x] # NoPage, Clashing(page[x].project, title, {x}) = {},
           page' = [page EXCEPT ![x] = [project |-> page[x].project, title |-> title, body |-> who, position |-> page[x].position]]
    PROVE  PagesShape'
<1>1. page \in [Page -> PageRow \cup {NoPage}] /\ page[x] \in PageRow
  BY PageIsThere DEF PagesShape
<1>2. PICK row : row = [project |-> page[x].project, title |-> title, body |-> who, position |-> page[x].position]
  OBVIOUS
<1>3. row \in PageRow /\ row.project = page[x].project /\ row.title = title /\ row.position = page[x].position
  BY <1>1, <1>2 DEF PageRow
<1>4. page' = [page EXCEPT ![x] = row]
  BY <1>2
<1>5. page' \in [Page -> PageRow \cup {NoPage}] /\ page'[x] = row /\ \A y \in Page : y # x => page'[y] = page[y]
  BY <1>1, <1>3, <1>4
<1>6. \A y \in Page : y # x /\ page[y].project = page[x].project => Caseless[page[y].title] # Caseless[title]
  BY DEF Clashing, Pages
<1>7. \A y \in Page : /\ page'[y] # NoPage => page[y] # NoPage
                      /\ page'[y].project = page[y].project /\ page'[y].position = page[y].position
  BY <1>3, <1>5
<1>8. TitlesApart'
  <2> SUFFICES ASSUME NEW y \in Page, NEW z \in Page, page'[y] # NoPage, page'[y].project = page'[z].project,
                      Caseless[page'[y].title] = Caseless[page'[z].title]
               PROVE  y = z
    BY DEF TitlesApart
  <2>1. CASE y # x /\ z # x
    BY <1>5, <2>1 DEF PagesShape, TitlesApart
  <2>2. CASE y = x /\ z # x
    BY <1>3, <1>5, <1>6, <2>2
  <2>3. CASE y # x /\ z = x
    BY <1>3, <1>5, <1>6, <2>3
  <2> QED BY <2>1, <2>2, <2>3
<1>9. PagePlacesApart'
  BY <1>7, ZenonT(60) DEF PagesShape, PagePlacesApart
<1> QED BY <1>5, <1>8, <1>9 DEF PagesShape

(* rekall_project_section: only the body changes                              *)
LEMMA BodyHolds ==
    ASSUME SectionConstants, PagesShape, NEW x \in Page, page[x] # NoPage, page' = [page EXCEPT ![x].body = "session"]
    PROVE  PagesShape'
<1>1. page \in [Page -> PageRow \cup {NoPage}] /\ page[x] \in PageRow
  BY PageIsThere DEF PagesShape
<1>2. PICK row : row = [page[x] EXCEPT !.body = "session"]
  OBVIOUS
<1>3. row \in PageRow /\ row.project = page[x].project /\ row.title = page[x].title /\ row.position = page[x].position
  BY <1>1, <1>2 DEF PageRow
<1>4. page' = [page EXCEPT ![x] = row]
  BY <1>1, <1>2
<1>5. page' \in [Page -> PageRow \cup {NoPage}] /\ page'[x] = row /\ \A y \in Page : y # x => page'[y] = page[y]
  BY <1>1, <1>3, <1>4
<1>6. \A y \in Page : /\ page'[y] # NoPage => page[y] # NoPage
                      /\ page'[y].project = page[y].project /\ page'[y].position = page[y].position
                      /\ page'[y].title = page[y].title
  BY <1>3, <1>5
<1>7. TitlesApart'
  BY <1>6, SMTT(60) DEF PagesShape, TitlesApart
<1>8. PagePlacesApart'
  BY <1>6, SMTT(60) DEF PagesShape, PagePlacesApart
<1> QED BY <1>5, <1>7, <1>8 DEF PagesShape

(* delete: a section less                                                     *)
LEMMA PageGoneHolds ==
    ASSUME SectionConstants, PagesShape, NEW x \in Page, page' = [page EXCEPT ![x] = NoPage]
    PROVE  PagesShape'
<1>1. page' \in [Page -> PageRow \cup {NoPage}] /\ page'[x] = NoPage /\ \A y \in Page : y # x => page'[y] = page[y]
  BY DEF PagesShape
<1>2. ASSUME NEW y \in Page, NEW z \in Page, page'[y] # NoPage, page'[y].project = page'[z].project
      PROVE  page'[y] = page[y] /\ page'[z] = page[z]
  <2>1. y # x /\ page'[y] = page[y]
    BY <1>1, <1>2
  <2>2. page[y].project \in OfPage
    BY <1>2, <2>1, PageIsThere
  <2>3. z # x
    BY <1>1, <1>2, <2>1, <2>2 DEF NoPage, SectionConstants
  <2> QED BY <1>1, <2>1, <2>3
<1>3. TitlesApart'
  BY <1>2, SMTT(60) DEF PagesShape, TitlesApart
<1>4. PagePlacesApart'
  BY <1>2, SMTT(60) DEF PagesShape, PagePlacesApart
<1> QED BY <1>1, <1>3, <1>4 DEF PagesShape

(* reorder: an order of as many sections as there are, none twice, names each *)
LEMMA ReorderHolds ==
    ASSUME SectionConstants, PagesShape, NEW p \in OfPage, NEW o \in Orders(p), ReorderPages(p, o)
    PROVE  PagesShape'
<1> DEFINE at(x) == CHOOSE k \in DOMAIN o : o[k] = x
<1>1. PICK n \in Nat : n = Cardinality(Pages(p)) /\ IsFiniteSet(Pages(p))
  BY FS_Subset, FS_CardinalityType DEF Pages, SectionConstants
<1>2. o \in [1 .. n -> Pages(p)] /\ DOMAIN o = 1 .. n /\ \A a, b \in DOMAIN o : o[a] = o[b] => a = b
  BY <1>1 DEF Orders
<1>3. \A x \in Pages(p) : \E k \in DOMAIN o : o[k] = x
  <2>1. o \in Injection(1 .. n, Pages(p))
    BY <1>2 DEF Injection, IsInjective
  <2>2. Cardinality(1 .. n) = n /\ IsFiniteSet(1 .. n)
    BY FS_Interval, SMTT(60)
  <2>3. o \in Surjection(1 .. n, Pages(p))
    BY <1>1, <2>1, <2>2, FS_Injection
  <2> QED BY <1>2, <2>3 DEF Surjection
<1>4. \A x \in Pages(p) : at(x) \in DOMAIN o /\ o[at(x)] = x
  BY <1>3
<1>5. page' = [x \in Page |-> IF x \in Pages(p) THEN [page[x] EXCEPT !.position = at(x) - 1] ELSE page[x]]
  BY DEF ReorderPages
<1> HIDE DEF at
<1>6. \A x \in Pages(p) : at(x) \in 1 .. n /\ o[at(x)] = x
  BY <1>2, <1>4
<1>7. ASSUME NEW x \in Pages(p)
      PROVE  /\ page'[x] \in PageRow /\ page'[x].project = p /\ page'[x].title = page[x].title /\ page'[x].position = at(x) - 1
             /\ page[x] # NoPage
  <2>1. x \in Page /\ page[x].project = p
    BY DEF Pages
  <2>2. page[x] \in PageRow
    BY <2>1, PageIsThere
  <2>3. page'[x] = [page[x] EXCEPT !.position = at(x) - 1]
    BY <1>5, <2>1
  <2>4. at(x) - 1 \in Nat
    BY <1>6, SMTT(60)
  <2> QED BY <2>1, <2>2, <2>3, <2>4, PageIsThere DEF PageRow
<1>8. \A x \in Page \ Pages(p) : page'[x] = page[x]
  BY <1>5
<1>9. page' \in [Page -> PageRow \cup {NoPage}]
  <2>1. \A x \in Page : page'[x] \in PageRow \cup {NoPage}
    BY <1>7, <1>8 DEF PagesShape
  <2>2. page' = [x \in Page |-> page'[x]]
    BY <1>5
  <2> QED BY <2>1, <2>2
<1>10. \A x \in Page : /\ page'[x].project = page[x].project /\ page'[x].title = page[x].title
                       /\ page'[x] # NoPage => page[x] # NoPage
  BY <1>7, <1>8 DEF Pages
<1>11. TitlesApart'
  BY <1>10, SMTT(60) DEF PagesShape, TitlesApart
<1>12. PagePlacesApart'
  <2> SUFFICES ASSUME NEW y \in Page, NEW z \in Page, page'[y] # NoPage, page'[y].project = page'[z].project,
                      page'[y].position = page'[z].position
               PROVE  y = z
    BY DEF PagePlacesApart
  <2>1. CASE y \in Pages(p)
    <3>1. z \in Pages(p)
      BY <1>7, <1>10, <2>1 DEF Pages
    <3>2. at(y) = at(z)
      BY <1>6, <1>7, <2>1, <3>1, SMTT(60)
    <3> QED BY <1>6, <2>1, <3>1, <3>2
  <2>2. CASE y \notin Pages(p)
    <3>1. z \notin Pages(p)
      BY <1>10, <2>2 DEF Pages
    <3> QED BY <1>8, <2>2, <3>1 DEF PagesShape, PagePlacesApart
  <2> QED BY <2>1, <2>2
<1> QED BY <1>9, <1>11, <1>12 DEF PagesShape

(* Every step of the sections                                                 *)
LEMMA SectionsStep ==
    ASSUME SectionConstants, PagesShape, SectionsNext
    PROVE  PagesShape' /\ SessionOnlyAdds
<1>0. page \in [Page -> PageRow \cup {NoPage}]
  BY DEF PagesShape
<1>1. ASSUME NEW x \in Page, NEW p \in OfPage, NEW title \in Heading, CreatePage(x, p, title)
      PROVE  PagesShape' /\ SessionOnlyAdds
  <2>1. page[x] = NoPage /\ Clashing(p, title, {}) = {} /\ AddPage(x, p, title, "person") /\ pageBy' = "person"
    BY <1>1 DEF CreatePage, PageWrite
  <2> QED BY <2>1, AddHolds DEF SessionOnlyAdds
<1>2. ASSUME NEW x \in Page, NEW title \in Heading, UpdatePage(x, title)
      PROVE  PagesShape' /\ SessionOnlyAdds
  <2>1. /\ page[x] # NoPage /\ Clashing(page[x].project, title, {x}) = {} /\ pageBy' = "person"
        /\ page' = [page EXCEPT ![x] = [project |-> page[x].project, title |-> title, body |-> "person", position |-> page[x].position]]
    BY <1>2 DEF UpdatePage, PageWrite
  <2>2. PagesShape'
    BY <2>1, EditHolds
  <2>3. SessionOnlyAdds
    BY <2>1, "person" # "session" DEF SessionOnlyAdds
  <2> QED BY <2>2, <2>3
<1>3. ASSUME NEW x \in Page, NEW title \in Heading, NEW p \in OfPage, NEW replace \in BOOLEAN, WritePage(x, p, title, replace)
      PROVE  PagesShape' /\ SessionOnlyAdds
  <2>1. CASE Clashing(p, title, {}) = {} /\ page[x] = NoPage /\ AddPage(x, p, title, "session")
    <3>1. \A y \in Page : page[y] # NoPage => page'[y] = page[y]
      BY <1>0, <2>1 DEF AddPage
    <3>2. SessionOnlyAdds
      BY <3>1 DEF SessionOnlyAdds
    <3> QED BY <2>1, <3>2, AddHolds
  <2>2. CASE x \in Clashing(p, title, {}) /\ page' = [page EXCEPT ![x].body = "session"]
    <3>1. page[x] # NoPage
      BY <2>2, PageIsThere DEF Clashing, Pages
    <3>2. \A y \in Page : page'[y] = page[y] \/ page'[y] = [page[y] EXCEPT !.body = "session"]
      BY <1>0, <2>2
    <3>3. SessionOnlyAdds
      BY <3>2 DEF SessionOnlyAdds
    <3> QED BY <2>2, <3>1, <3>3, BodyHolds
  <2> QED BY <1>3, <2>1, <2>2 DEF WritePage
<1>4. ASSUME NEW p \in OfPage, NEW o \in Orders(p), ReorderPages(p, o) PROVE PagesShape' /\ SessionOnlyAdds
  <2>1. pageBy' = "person"
    BY <1>4 DEF ReorderPages, PageWrite
  <2> QED BY <1>4, <2>1, ReorderHolds DEF SessionOnlyAdds
<1>5. ASSUME NEW x \in Page, DeletePage(x) PROVE PagesShape' /\ SessionOnlyAdds
  <2>1. pageBy' = "person" /\ page' = [page EXCEPT ![x] = NoPage]
    BY <1>5 DEF DeletePage, PageWrite
  <2>2. PagesShape'
    BY <2>1, PageGoneHolds
  <2> QED BY <2>1, <2>2 DEF SessionOnlyAdds
<1> QED BY <1>1, <1>2, <1>3, <1>4, <1>5 DEF SectionsNext

(* Titles apart: a title names at most one section                            *)
LEMMA OnePageEach ==
    ASSUME PagesShape, SectionConstants
    PROVE  TitleNamesOnePage
<1> SUFFICES ASSUME NEW p \in OfPage, NEW t \in Heading PROVE Cardinality(Clashing(p, t, {})) <= 1
  BY DEF TitleNamesOnePage, ReadPage
<1>1. \A x, y \in Clashing(p, t, {}) : x = y
  <2> SUFFICES ASSUME NEW x \in Clashing(p, t, {}), NEW y \in Clashing(p, t, {}) PROVE x = y
    OBVIOUS
  <2>1. /\ x \in Page /\ y \in Page /\ page[x].project = p /\ page[y].project = p
        /\ Caseless[page[x].title] = Caseless[page[y].title]
    BY DEF Clashing, Pages
  <2>2. page[x] # NoPage
    BY <2>1, PageIsThere
  <2> QED BY <2>1, <2>2 DEF PagesShape, TitlesApart
<1>2. CASE Clashing(p, t, {}) = {}
  BY <1>2, FS_EmptySet, SMTT(60)
<1>3. CASE Clashing(p, t, {}) # {}
  <2>1. PICK x : x \in Clashing(p, t, {})
    BY <1>3
  <2>2. Clashing(p, t, {}) = {x}
    BY <1>1, <2>1
  <2>3. Cardinality({x}) = 1
    BY FS_Singleton
  <2> QED BY <2>2, <2>3, SMTT(60)
<1> QED BY <1>2, <1>3

-----------------------------------------------------------------------------
(* Notes and sections change apart *)

(* Every operation on notes and on sections, by a person or by a session *)
NotesSpec ==
    /\ NotesInit /\ SectionsInit
    /\ [][\/ NotesNext /\ UNCHANGED paging
          \/ SectionsNext /\ UNCHANGED noting]_<<noting, paging>>

(* An empty database, with the tasks in their projects, is within both invariants *)
LEMMA NotesBegin ==
    ASSUME NoteConstants, NotesInit, SectionsInit
    PROVE  NotesShape /\ PagesShape
<1>1. /\ note = [n \in Note |-> NoNote] /\ noteLink = {} /\ home \in [OnTask -> InProject]
      /\ standing = InProject /\ strayed = FALSE /\ page = [x \in Page |-> NoPage]
  BY DEF NotesInit, SectionsInit
<1>2. Links(noteLink) /\ OncePerTask(noteLink) /\ LinksStand
  BY <1>1, FS_EmptySet DEF Links, OncePerTask, LinksStand
<1>3. NotePlacesDense
  <2> SUFFICES ASSUME NEW t \in OnTask PROVE InPlaces(LinksOfTask(noteLink, t))
    BY DEF NotePlacesDense, DenseOn, InPlaces
  <2>1. LinksOfTask(noteLink, t) = {}
    BY <1>1 DEF LinksOfTask
  <2> QED BY <2>1, FS_EmptySet, SMTT(60) DEF InPlaces
<1>4. NotesInsideScope
  BY <1>1 DEF NotesInsideScope
<1>5. NotesShape
  <2>1. note \in [Note -> NoteRow \cup {NoNote}] /\ home \in [OnTask -> InProject \cup {0}]
    BY <1>1
  <2>2. standing \subseteq InProject /\ strayed \in BOOLEAN
    BY <1>1
  <2> QED BY <1>2, <1>3, <1>4, <2>1, <2>2 DEF NotesShape
<1>6. PagesShape
  BY <1>1 DEF PagesShape, TitlesApart, PagePlacesApart
<1> QED BY <1>5, <1>6

(* A step with neither notes nor tasks leaves their invariant                 *)
LEMMA NotesStand ==
    ASSUME NotesShape, UNCHANGED noting
    PROVE  NotesShape' /\ ScopeKeepsNote /\ SessionKeepsTitle
<1>1. UNCHANGED <<note, noteLink, home, standing, strayed>>
  BY DEF noting
<1>2. Links(noteLink)' /\ OncePerTask(noteLink)' /\ LinksStand'
  BY <1>1 DEF NotesShape, Links, OncePerTask, LinksStand
<1>3. NotePlacesDense'
  BY <1>1 DEF NotesShape, NotePlacesDense, DenseOn, LinksOfTask
<1>4. NotesInsideScope'
  BY <1>1 DEF NotesShape, NotesInsideScope
<1>5. ScopeKeepsNote /\ SessionKeepsTitle
  <2>1. \A n \in Notes : n \in Note /\ note[n].title # 0 /\ note' = note
    BY <1>1 DEF Notes
  <2>2. ~("session" = "person")
    OBVIOUS
  <2> QED BY <2>1, <2>2 DEF ScopeKeepsNote, SessionKeepsTitle
<1> QED BY <1>1, <1>2, <1>3, <1>4, <1>5 DEF NotesShape

(* A step with no section leaves the invariant of the sections               *)
LEMMA PagesStand ==
    ASSUME PagesShape, UNCHANGED paging
    PROVE  PagesShape' /\ SessionOnlyAdds
<1>1. page' = page
  BY DEF paging
<1>2. TitlesApart' /\ PagePlacesApart'
  BY <1>1 DEF PagesShape, TitlesApart, PagePlacesApart
<1>3. SessionOnlyAdds
  BY <1>1 DEF SessionOnlyAdds
<1> QED BY <1>1, <1>2, <1>3 DEF PagesShape

(* Both invariants are inductive over the steps of either part                *)
LEMMA NotesAndPages ==
    NotesSpec => [](NotesShape /\ PagesShape)
<1>1. NotesInit /\ SectionsInit => NotesShape /\ PagesShape
  BY NoteConstants, NotesBegin
<1>2. /\ NotesShape /\ PagesShape
      /\ [\/ NotesNext /\ UNCHANGED paging
          \/ SectionsNext /\ UNCHANGED noting]_<<noting, paging>>
      => (NotesShape /\ PagesShape)'
  BY NoteConstants, SectionConstants, NotesStep, SectionsStep, NotesStand, PagesStand
<1> QED BY <1>1, <1>2, PTL DEF NotesSpec

(* Notes and sections, whoever adds, moves, rescopes and deletes: dense places *)
(* and tasks inside the scope until one strays, and sections that neither      *)
(* share a title nor a place.                                                  *)
THEOREM NotesAreSound == NotesSpec => []NotesInv
<1>1. NotesShape /\ PagesShape => NotesInv
  <2> SUFFICES ASSUME NotesShape, PagesShape PROVE NotesInv
    OBVIOUS
  <2>1. NoteTypes
    BY DEF NotesShape, PagesShape, NoteTypes, Links
  <2>2. TitleNamesOnePage
    BY SectionConstants, OnePageEach
  <2> QED BY <2>1, <2>2 DEF NotesShape, PagesShape, NotesInv
<1> QED BY <1>1, NotesAndPages, PTL

(* A note ends only by name or with the project that owns it, a session that   *)
(* rewrites a note keeps its title, scope and mode, and one that writes a      *)
(* section never renames, orders or removes.                                   *)
THEOREM NotesAreKept == NotesSpec => NotesKeep
<1>1. /\ NotesShape /\ PagesShape
      /\ [\/ NotesNext /\ UNCHANGED paging
          \/ SectionsNext /\ UNCHANGED noting]_<<noting, paging>>
      => [ScopeKeepsNote /\ SessionKeepsTitle /\ SessionOnlyAdds]_<<noting, paging>>
  BY NoteConstants, SectionConstants, NotesStepKeeps, SectionsStep, NotesStand, PagesStand
<1> QED BY <1>1, NotesAndPages, PTL DEF NotesSpec, NotesKeep
=============================================================================
