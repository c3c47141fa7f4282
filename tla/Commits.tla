------------------------------- MODULE Commits --------------------------------
(***************************************************************************)
(* The automatic commit of claimed work and the log of commits kept with   *)
(* tasks and steps.  The commit is one write transaction, so no other call *)
(* of Rekall runs inside it, but each git command it runs is a step of its *)
(* own: the session and the person go on editing, staging and committing   *)
(* in the same folder between two of them.                                 *)
(***************************************************************************)
EXTENDS Integers, Sequences

CONSTANTS
    Path,       \* the files of the folder
    Content,    \* what a file can hold, as numbers above 0; 0 is no file
    Target,     \* what a commit can be logged against: [task, step], step 0 for the task itself
    MaxEdits,   \* bound: edits and git commands from outside Rekall
    MaxRows     \* bound: rows ever logged

ASSUME CommitConstants ==
    /\ Content \subseteq Nat \ {0} /\ Target # {} /\ MaxEdits \in Nat /\ MaxRows \in Nat

VARIABLES
    head,       \* what the tip holds
    index,      \* what is staged
    disk,       \* what the folder holds
    log,        \* the commits, oldest first; a commit's place is its hash
    edits,      \* edits so far
    snapshot,   \* the working tree each unit's work started from, if one was kept
    auto,       \* the automatic commit under way
    rows,       \* the commit_reference rows
    logged      \* rows ever logged

commits == <<head, index, disk, log, edits, snapshot, auto, rows, logged>>
folder  == <<head, index, disk, log, edits>>

FileContent      == Content \cup {0}
Reference == [id : Nat, unit : Target, hash : Nat, inContext : BOOLEAN]
Snapshot  == [kept : BOOLEAN, files : [Path -> FileContent \cup {-1}]]
NotKept   == [kept |-> FALSE, files |-> [f \in Path |-> -1]]

Idle == [pc |-> "idle", unit |-> CHOOSE u \in Target : TRUE, pending |-> {}, own |-> {}, hash |-> 0, outcome |-> "none"]

-----------------------------------------------------------------------------
(* git status, as PendingChange::parse reads an entry: what is staged before *)
(* what is not.  A staged rename is its new path and its old one deleted     *)
IsPending(f) == index[f] # head[f] \/ disk[f] # index[f]

Kind(f) ==
    IF head[f] = 0 THEN "added"
    ELSE IF index[f] = 0 \/ disk[f] = 0 THEN "deleted"
    ELSE "modified"

PendingChanges == {f \in Path : IsPending(f)}

(* content_hashes_of: a change with no file on disk has no hash *)
WorkTree == [kept |-> TRUE, files |-> [f \in Path |-> IF IsPending(f) THEN disk[f] ELSE -1]]

(* Everything but what the snapshot holds with the same content *)
Split(pending, snap) ==
    IF snap.kept THEN {f \in pending : snap.files[f] # disk[f]} ELSE pending

-----------------------------------------------------------------------------
(* The session and the person, at work in the folder *)
Outside == edits < MaxEdits /\ edits' = edits + 1 /\ UNCHANGED <<snapshot, auto, rows, logged>>

EditFile(f) ==
    /\ \E c \in FileContent \ {disk[f]} : disk' = [disk EXCEPT ![f] = c]
    /\ Outside
    /\ UNCHANGED <<head, index, log>>

StageFile(f) ==
    /\ index[f] # disk[f]
    /\ index' = [index EXCEPT ![f] = disk[f]]
    /\ Outside
    /\ UNCHANGED <<head, disk, log>>

CommitByHand ==
    /\ index # head
    /\ head' = index
    /\ log' = Append(log, [by |-> "hand", own |-> {}, files |-> {f \in Path : head[f] # index[f]}])
    /\ Outside
    /\ UNCHANGED <<index, disk>>

-----------------------------------------------------------------------------
Unlocked == auto.pc = "idle"
AutoEnds(outcome) == auto' = [Idle EXCEPT !.unit = auto.unit, !.outcome = outcome]
FolderStays == UNCHANGED <<folder, snapshot>>

(* StepSnapshotService::take: the work on a unit starts.  A failed reading   *)
(* keeps whatever snapshot there was                                         *)
TakeSnapshot(u) ==
    /\ Unlocked
    /\ snapshot' = [snapshot EXCEPT ![u] = WorkTree]
    /\ UNCHANGED <<folder, auto, rows, logged>>

(* after_step_claim, after_wrapup: the transaction begins *)
AutoCommit(u) ==
    /\ Unlocked
    /\ auto' = [Idle EXCEPT !.pc = "pending", !.unit = u]
    /\ FolderStays
    /\ UNCHANGED <<rows, logged>>

ReadPending ==
    /\ auto.pc = "pending"
    /\ IF PendingChanges = {} THEN AutoEnds("skipped")
       ELSE auto' = [auto EXCEPT !.pc = "sort", !.pending = PendingChanges]
    /\ FolderStays
    /\ UNCHANGED <<rows, logged>>

SortChanges ==
    /\ auto.pc = "sort"
    /\ LET own == Split(auto.pending, snapshot[auto.unit])
       IN  IF own = {} THEN AutoEnds("skipped")
           ELSE auto' = [auto EXCEPT !.pc = "stage", !.own = own]
    /\ FolderStays
    /\ UNCHANGED <<rows, logged>>

(* commit_paths: git rm --cached of what is deleted and git add of the rest, *)
(* of the session's own changes alone                                        *)
Stage ==
    /\ auto.pc = "stage"
    /\ index' = [f \in Path |-> IF f \notin auto.own THEN index[f]
                                ELSE IF Kind(f) = "deleted" THEN 0 ELSE disk[f]]
    /\ auto' = [auto EXCEPT !.pc = "commit"]
    /\ UNCHANGED <<head, disk, log, edits, snapshot, rows, logged>>

(* Mutant: git commit of whatever is staged *)
CommitStaged ==
    /\ auto.pc = "commit"
    /\ index # head
    /\ head' = index
    /\ log' = Append(log, [by |-> "auto", own |-> auto.own, files |-> {f \in Path : head[f] # index[f]}])
    /\ auto' = [auto EXCEPT !.pc = "tip"]
    /\ UNCHANGED <<index, disk, edits, snapshot, rows, logged>>

(* git commit --only: the paths as they are on disk now, and nothing else    *)
(* that is staged.  With no difference left git refuses (GitFails)           *)
CommitOnly ==
    /\ auto.pc = "commit"
    /\ LET changed == {f \in auto.own : disk[f] # head[f]}
       IN  /\ changed # {}
           /\ head' = [f \in Path |-> IF f \in auto.own THEN disk[f] ELSE head[f]]
           /\ index' = [f \in Path |-> IF f \in auto.own THEN disk[f] ELSE index[f]]
           /\ log' = Append(log, [by |-> "auto", own |-> auto.own, files |-> changed])
    /\ auto' = [auto EXCEPT !.pc = "tip"]
    /\ UNCHANGED <<disk, edits, snapshot, rows, logged>>

ReadTip ==
    /\ auto.pc = "tip"
    /\ auto' = [auto EXCEPT !.pc = "log", !.hash = Len(log)]
    /\ FolderStays
    /\ UNCHANGED <<rows, logged>>

(* CommitReferenceService::record: a commit logged against the same task and *)
(* step before is that row                                                   *)
Record(u, hash) ==
    IF \E r \in rows : r.unit = u /\ r.hash = hash
    THEN UNCHANGED <<rows, logged>>
    ELSE /\ logged < MaxRows
         /\ rows' = rows \cup {[id |-> logged + 1, unit |-> u, hash |-> hash, inContext |-> FALSE]}
         /\ logged' = logged + 1

LogCommit ==
    /\ auto.pc = "log"
    /\ Record(auto.unit, auto.hash)
    /\ AutoEnds("committed")
    /\ FolderStays

(* commit: a refusal is an outcome, and the claim stands.  What was staged   *)
(* or committed by then stays so                                             *)
Failed ==
    /\ AutoEnds("failed")
    /\ FolderStays
    /\ UNCHANGED <<rows, logged>>

(* committable_folder: no repository there, or nobody to commit as *)
NotCommittable == auto.pc = "pending" /\ Failed

(* git refuses, fails or takes longer than its time *)
GitFails == auto.pc # "idle" /\ Failed

(* The process ends inside the transaction *)
CrashInCommit ==
    /\ auto.pc # "idle"
    /\ auto' = Idle
    /\ FolderStays
    /\ UNCHANGED <<rows, logged>>

-----------------------------------------------------------------------------
(* record_commit, record_commit_by_anchor: the tip, or a commit of the log   *)
RecordCommit(u, hash) ==
    /\ Unlocked
    /\ Record(u, hash)
    /\ UNCHANGED <<folder, snapshot, auto>>

SetInContext(r, on) ==
    /\ Unlocked
    /\ rows' = (rows \ {r}) \cup {[r EXCEPT !.inContext = on]}
    /\ UNCHANGED <<folder, snapshot, auto, logged>>

DeleteReference(r) ==
    /\ Unlocked
    /\ rows' = rows \ {r}
    /\ UNCHANGED <<folder, snapshot, auto, logged>>

(* A step, or the whole task with its steps, goes: its rows and snapshots go *)
DeleteUnit(u) ==
    /\ Unlocked
    /\ LET gone == {v \in Target : v.task = u.task /\ u.step \in {0, v.step}}
       IN  /\ rows' = {r \in rows : r.unit \notin gone}
           /\ snapshot' = [v \in Target |-> IF v \in gone THEN NotKept ELSE snapshot[v]]
    /\ UNCHANGED <<folder, auto, logged>>

-----------------------------------------------------------------------------
CommitsInit ==
    /\ head = [f \in Path |-> 0] /\ index = head /\ disk = head
    /\ log = <<[by |-> "hand", own |-> {}, files |-> {}]>>
    /\ edits = 0
    /\ snapshot = [u \in Target |-> NotKept]
    /\ auto = Idle /\ rows = {} /\ logged = 0

CommitsNext ==
    \/ \E f \in Path : EditFile(f) \/ StageFile(f)
    \/ CommitByHand
    \/ \E u \in Target : TakeSnapshot(u) \/ AutoCommit(u) \/ DeleteUnit(u)
    \/ ReadPending \/ SortChanges \/ Stage \/ CommitOnly \/ ReadTip \/ LogCommit
    \/ NotCommittable \/ GitFails \/ CrashInCommit
    \/ \E u \in Target, hash \in 1 .. Len(log) : RecordCommit(u, hash)
    \/ \E r \in rows : DeleteReference(r) \/ \E on \in BOOLEAN : SetInContext(r, on)

-----------------------------------------------------------------------------
(* commit_paths: "Stages exactly `changes` and commits exactly them": an     *)
(* automatic commit holds no file but the ones sorted as the session's own,  *)
(* whatever the person staged or committed while it ran.                     *)
AutoCommitsOnlyOwn ==
    \A i \in 1 .. Len(log) : log[i].by = "auto" => log[i].files \subseteq log[i].own

(* commit_paths: "leaving anything else that is modified or already staged   *)
(* where it is": no step of an automatic commit changes what is staged of a  *)
(* file it does not take.                                                    *)
LeavesOthersStaged ==
    auto.pc # "idle" /\ edits' = edits => \A f \in Path \ auto.own : index'[f] = index[f]

(* record: one commit is logged once against a task and once against each    *)
(* step of it, by whichever of the automatic commit, the console and the     *)
(* session's own call comes first.                                           *)
LoggedOnce ==
    \A r, s \in rows : r.unit = s.unit /\ r.hash = s.hash => r = s

(* Commits made for a step, while the person edits, stages and commits too:   *)
(* only the session's own files, each commit logged once.                     *)
CommitsInv == AutoCommitsOnlyOwn /\ LoggedOnce
=============================================================================
