--------------------------- MODULE Vulnerabilities ----------------------------
(***************************************************************************)
(* The exposures of projects to advisories.  A scan reads what to look for *)
(* and every inventory, asks GitHub project by project and records all it  *)
(* found in one transaction at its end; meanwhile sessions record          *)
(* inventories and give verdicts, and the console opens fix tasks.         *)
(***************************************************************************)
EXTENDS Sequences, Integers

CONSTANTS
    Projects,       \* the projects, in the order of their labels
    Dependency,     \* a package at a version
    Advisory,       \* [id, kind, reaches]: kind is critical, high or malware
    FixTask,        \* bound: the tasks that may be created
    MaxScans,       \* bound: scans
    MaxWrites       \* bound: inventories recorded, verdicts given and advisories changed

ASSUME ScanConstants == MaxScans \in Nat /\ MaxWrites \in Nat /\ Projects \in Seq(STRING)

Project == {Projects[i] : i \in 1 .. Len(Projects)}

VARIABLES
    there,          \* the projects that exist
    inventory,      \* the dependencies each declares
    exposures,      \* the exposure rows
    task,           \* the fix tasks and whether they are done
    published,      \* the advisories GitHub has now
    scope,          \* what a scan asks about beside the critical ones
    scan,           \* the scan under way
    scans, writes,  \* so far
    overtaken       \* the projects last recorded by a scan that had read an inventory replaced since

vulns == <<there, inventory, exposures, task, published, scope, scan, scans, writes, overtaken>>

-----------------------------------------------------------------------------
NoVerdict == "none"
NoTask    == "none"

Exposure == [project : Project, advisory : Advisory, dependency : Dependency,
             verdict : {NoVerdict, "affected", "not affected"}, fix : FixTask \cup {NoTask}]

(* unjudged *)
Unjudged(p, hit) ==
    [project |-> p, advisory |-> hit.advisory, dependency |-> hit.dependency, verdict |-> NoVerdict, fix |-> NoTask]

Hit(e) == [advisory |-> e.advisory, dependency |-> e.dependency]
Of(p)  == {e \in exposures : e.project = p}

(* fix_task_done, awaits_fix, is_open and within *)
FixTaskDone(e) == e.fix # NoTask /\ task[e.fix] = "done"
AwaitsFix(e)   == e.fix = NoTask \/ FixTaskDone(e)
IsOpen(e)      == e.verdict # "not affected" /\ AwaitsFix(e)
Within(e, fixScope) == IF fixScope = "affected" THEN IsOpen(e) ELSE AwaitsFix(e)

IdleScan == [pc |-> "idle", scope |-> {}, left |-> <<>>, deps |-> [p \in Project |-> {}],
             found |-> [p \in {} |-> {}], limited |-> FALSE]

Written == writes < MaxWrites /\ writes' = writes + 1

-----------------------------------------------------------------------------
(* GitHub publishes, revises or withdraws advisories *)
FeedChanges(a) ==
    /\ Written
    /\ published' = IF a \in published THEN published \ {a} ELSE published \cup {a}
    /\ UNCHANGED <<there, inventory, exposures, task, scope, scan, scans, overtaken>>

(* ScanSettingsService::change_scope *)
ChangeScope(include) ==
    /\ Written
    /\ scope' = include
    /\ UNCHANGED <<there, inventory, exposures, task, published, scan, scans, overtaken>>

(* Mutant: only the inventory is replaced *)
RecordInventoryOnly(p, declared) ==
    /\ p \in there /\ declared # {} /\ Written
    /\ inventory' = [inventory EXCEPT ![p] = declared]
    /\ overtaken' = overtaken \ {p}
    /\ UNCHANGED <<there, exposures, task, published, scope, scan, scans>>

(* InventoryRecordingService::record: the inventory replaced and, in the     *)
(* same transaction, forget_missing_in                                       *)
RecordInventory(p, declared) ==
    /\ p \in there /\ declared # {} /\ Written
    /\ inventory' = [inventory EXCEPT ![p] = declared]
    /\ exposures' = {e \in exposures : e.project = p => e.dependency \in declared}
    /\ overtaken' = overtaken \ {p}
    /\ UNCHANGED <<there, task, published, scope, scan, scans>>

(* assess: the verdict covers every version the advisory reaches there *)
Assess(p, a, verdict) ==
    /\ p \in there /\ Written
    /\ \E e \in Of(p) : e.advisory = a
    /\ exposures' = {IF e.project = p /\ e.advisory = a THEN [e EXCEPT !.verdict = verdict] ELSE e : e \in exposures}
    /\ UNCHANGED <<there, inventory, task, published, scope, scan, scans, overtaken>>

-----------------------------------------------------------------------------
(* A new task, and link_fix_in for each of the exposures taken *)
OpenFix(taken, t) ==
    /\ taken # {} /\ task[t] = "none"
    /\ task' = [task EXCEPT ![t] = "open"]
    /\ exposures' = (exposures \ taken) \cup {[e EXCEPT !.fix = t] : e \in taken}
    /\ UNCHANGED <<there, inventory, published, scope, scan, scans, writes, overtaken>>

(* VulnerabilityFixService::fix: refused while the fix task is at work *)
Fix(e, t) == AwaitsFix(e) /\ OpenFix({e}, t)

(* fix_project *)
FixProject(p, fixScope, t) == p \in there /\ OpenFix({e \in Of(p) : Within(e, fixScope)}, t)

(* A person accepts the task, reopens it, or deletes it: the rows that name  *)
(* a deleted one are set to none                                             *)
SetDone(t, status) ==
    /\ task[t] \in {"open", "done"} \ {status}
    /\ task' = [task EXCEPT ![t] = status]
    /\ UNCHANGED <<there, inventory, exposures, published, scope, scan, scans, writes, overtaken>>

DeleteTask(t) ==
    /\ task[t] \in {"open", "done"}
    /\ task' = [task EXCEPT ![t] = "gone"]
    /\ exposures' = {IF e.fix = t THEN [e EXCEPT !.fix = NoTask] ELSE e : e \in exposures}
    /\ UNCHANGED <<there, inventory, published, scope, scan, scans, writes, overtaken>>

(* ProjectService::delete: its inventory, its exposures and its tasks go with it *)
DeleteProject(p) ==
    /\ p \in there
    /\ there' = there \ {p}
    /\ inventory' = [inventory EXCEPT ![p] = {}]
    /\ exposures' = exposures \ Of(p)
    /\ task' = [t \in FixTask |-> IF \E e \in Of(p) : e.fix = t THEN "gone" ELSE task[t]]
    /\ UNCHANGED <<published, scope, scan, scans, writes, overtaken>>

-----------------------------------------------------------------------------
(* scan: one at a time; the scope it asks with *)
StartScan ==
    /\ scan.pc = "idle" /\ scans < MaxScans
    /\ scans' = scans + 1
    /\ scan' = [IdleScan EXCEPT !.pc = "latest", !.scope = scope]
    /\ UNCHANGED <<there, inventory, exposures, task, published, scope, writes, overtaken>>

(* latest, read or failed, then inventoried_projects: those that hold an     *)
(* inventory, by label                                                       *)
ReadInventories ==
    /\ scan.pc = "latest"
    /\ scan' = [scan EXCEPT !.pc = "ask", !.deps = inventory,
                            !.left = SelectSeq(Projects, LAMBDA p : p \in there /\ inventory[p] # {})]
    /\ UNCHANGED <<there, inventory, exposures, task, published, scope, scans, writes, overtaken>>

(* affecting: the critical advisories, with the high ones and the malware   *)
(* when the scope asks, that reach a dependency as it was read               *)
Affecting(p) ==
    {[advisory |-> a, dependency |-> d] : a \in {b \in published : b.kind \in scan.scope \cup {"critical"}}, d \in scan.deps[p]}

Hits(p) == {h \in Affecting(p) : h.dependency \in h.advisory.reaches}

(* ask_about: the hits of a project, unless its questions fail; once GitHub  *)
(* refuses for the hour the rest are skipped                                 *)
AskAbout(answer) ==
    /\ scan.pc = "ask" /\ scan.left # <<>>
    /\ scan.limited => answer = "limited"
    /\ LET p == Head(scan.left)
       IN  scan' = [scan EXCEPT !.left = Tail(@),
                                !.limited = answer = "limited",
                                !.found = IF answer = "ok" THEN [q \in DOMAIN @ \cup {p} |-> IF q = p THEN Hits(p) ELSE @[q]] ELSE @]
    /\ UNCHANGED <<there, inventory, exposures, task, published, scope, scans, writes, overtaken>>

(* Mutant: what is found is added anew *)
ReplaceAnew(p, found) == {Unjudged(p, h) : h \in found}

(* replace_found_in: what was known stays as it is, the rest is added        *)
(* unjudged or goes                                                          *)
ReplaceFound(p, found) ==
    {e \in Of(p) : Hit(e) \in found} \cup {Unjudged(p, h) : h \in found \ {Hit(e) : e \in Of(p)}}

(* The exposures with those of every project asked about replaced *)
Replaced(asked) ==
    {e \in exposures : e.project \notin asked} \cup UNION {ReplaceFound(p, scan.found[p]) : p \in asked \cap there}

(* record: every project that was asked about, in one transaction.  A new   *)
(* exposure of a project deleted meanwhile breaks its foreign key, and then  *)
(* nothing is recorded                                                       *)
RecordScan ==
    /\ scan.pc = "ask" /\ scan.left = <<>>
    /\ LET asked == DOMAIN scan.found
           ok    == \A p \in asked \ there : scan.found[p] = {}
       IN  /\ exposures' = IF ok THEN Replaced(asked) ELSE exposures
           /\ overtaken' = IF ok THEN (overtaken \ asked) \cup {p \in asked : scan.deps[p] # inventory[p]} ELSE overtaken
           /\ scan' = IdleScan
    /\ UNCHANGED <<there, inventory, task, published, scope, scans, writes>>

-----------------------------------------------------------------------------
VulnInit ==
    /\ there = Project /\ inventory = [p \in Project |-> {}]
    /\ exposures = {} /\ task = [t \in FixTask |-> "none"]
    /\ published = Advisory /\ scope = {}
    /\ scan = IdleScan /\ scans = 0 /\ writes = 0
    /\ overtaken = {}

VulnNext ==
    \/ \E a \in Advisory : FeedChanges(a)
    \/ \E include \in SUBSET {"high", "malware"} : ChangeScope(include)
    \/ \E p \in Project :
          \/ \E declared \in SUBSET Dependency : RecordInventory(p, declared)
          \/ \E a \in Advisory, verdict \in {"affected", "not affected"} : Assess(p, a, verdict)
          \/ DeleteProject(p)
    \/ \E t \in FixTask :
          \/ \E e \in exposures : Fix(e, t)
          \/ \E p \in Project, fixScope \in {"affected", "all"} : FixProject(p, fixScope, t)
          \/ \E status \in {"open", "done"} : SetDone(t, status)
          \/ DeleteTask(t)
    \/ StartScan \/ ReadInventories \/ RecordScan
    \/ \E answer \in {"ok", "failed", "limited"} : AskAbout(answer)

-----------------------------------------------------------------------------
Key(e) == [project |-> e.project, advisory |-> e.advisory, dependency |-> e.dependency]

(* ExposureKey, replace_found_in: whatever scans, inventories and fixes are  *)
(* interleaved, there is one exposure for a project, an advisory and a       *)
(* package version, it is of a project that exists, and the task it names    *)
(* exists.                                                                   *)
OneExposurePerKey ==
    \A e \in exposures :
        /\ e \in Exposure /\ e.project \in there
        /\ e.fix # NoTask => task[e.fix] \in {"open", "done"}
        /\ \A f \in exposures : Key(e) = Key(f) => e = f

(* fix_brief_in, within: "Nothing a fix task is still working on is taken    *)
(* twice": an exposure only changes the task that fixes it once that one is  *)
(* done or deleted.                                                          *)
FixedByOneTask ==
    \A e \in exposures, f \in exposures' :
       Key(e) = Key(f) /\ e.fix # f.fix /\ e.fix # NoTask => task[e.fix] = "done" \/ task'[e.fix] = "gone"

(* replace_found_in: a scan that finds an exposure again keeps the verdict   *)
(* on it and the task that fixes it, also one given while GitHub was being   *)
(* asked.                                                                    *)
ScanKeepsVerdicts ==
    scan.pc = "ask" /\ scan'.pc = "idle" =>
       \A e \in exposures, f \in exposures' : Key(e) = Key(f) => e = f

(* VulnerabilityScanService: "A project whose questions failed keeps the     *)
(* exposures it had", and so does one the scan knew nothing of.              *)
UncheckedKeeps ==
    scan.pc = "ask" /\ scan'.pc = "idle" =>
       \A e \in exposures : e.project \notin DOMAIN scan.found => e \in exposures'

(* forget_missing_in: an exposure is of a package its project still declares *)
(* at that version, unless the scan that found it had read an inventory      *)
(* replaced before it recorded; the next inventory or scan puts it right.    *)
DeclaredUnlessOvertaken ==
    \A e \in exposures : e.dependency \in inventory[e.project] \/ e.project \in overtaken

(* The exposures, however scans, inventories, fixes and deletions overlap.    *)
VulnInv == OneExposurePerKey /\ DeclaredUnlessOvertaken
=============================================================================
