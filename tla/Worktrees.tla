------------------------------ MODULE Worktrees ------------------------------
(***************************************************************************)
(* The git worktrees of the tasks the queue works in parallel.  The queue  *)
(* gives a task a worktree before its session opens and brings rows and    *)
(* folders back in step after a restart; the cleaner, a task of its own,   *)
(* merges the branch of an accepted task and takes its worktree away.      *)
(* Both run git outside any transaction, so their calls interleave with    *)
(* each other, with the sessions at work and with the person.  A branch is *)
(* the number of its commits, of which the project's HEAD has some.        *)
(***************************************************************************)
EXTENDS Integers

CONSTANTS
    Tree,        \* the tasks that may have a worktree
    MaxCommits,  \* bound: commits on a branch
    MaxMoves,    \* bound: times a task is accepted or sent back
    MaxDowns     \* bound: crashes

ASSUME TreeConstants == Tree # {} /\ MaxCommits \in Nat /\ MaxMoves \in Nat /\ MaxDowns \in Nat

VARIABLES
    row,         \* whether the task names its worktree
    disk,        \* the worktree's folder: absent, clean or with unsaved changes
    branch,      \* the commits on rekall/<label>; -1 while it does not exist
    merged,      \* how many of them the project's HEAD has
    clash,       \* whether the branch conflicts with HEAD
    accepted,    \* whether all of the task's work is accepted
    posted,      \* the tasks whose moves the cleaner has still to hear of
    cleaner,     \* where the cleaner is
    resolution,  \* Cleaner::resolutions
    session,     \* where the task's live session works
    helpers,     \* merge sessions given since the conflict was last out of the way
    worker,      \* where the queue's worker is
    moves,
    downs

trees == <<row, disk, branch, merged, clash, accepted, posted, cleaner, resolution, session, helpers,
           worker, moves, downs>>

Resolution == {"none", "running", "abandoned"}
Cleaner    == [pc : {"idle", "look", "review", "merge", "resolve", "finish", "release", "remove", "forget"},
               task : Tree, saw : Nat, follows : BOOLEAN]
Worker     == [pc : {"missing", "orphans", "reclaim", "idle", "create", "name", "open"}, task : Tree]

Somebody   == CHOOSE t \in Tree : TRUE
AtRest     == [pc |-> "idle", task |-> Somebody, saw |-> 0, follows |-> FALSE]
Ahead(t)   == branch[t] - merged[t]
Post(t)    == posted' = posted \cup {t}
Place(t)   == IF row[t] /\ disk[t] # "absent" THEN "tree" ELSE "project"

TreesInit ==
    /\ row = [t \in Tree |-> FALSE] /\ disk = [t \in Tree |-> "absent"]
    /\ branch = [t \in Tree |-> -1] /\ merged = [t \in Tree |-> 0]
    /\ clash = [t \in Tree |-> FALSE] /\ accepted = [t \in Tree |-> FALSE]
    /\ posted = {} /\ cleaner = AtRest
    /\ resolution = [t \in Tree |-> "none"] /\ session = [t \in Tree |-> "none"]
    /\ helpers = [t \in Tree |-> 0]
    /\ worker = [pc |-> "missing", task |-> Somebody]
    /\ moves = 0 /\ downs = 0

-----------------------------------------------------------------------------
(* What the person and the sessions do meanwhile *)
AcceptTask(t) ==
    /\ moves < MaxMoves /\ moves' = moves + 1
    /\ accepted' = [accepted EXCEPT ![t] = ~@]
    /\ Post(t)
    /\ UNCHANGED <<row, disk, branch, merged, clash, cleaner, resolution, session, helpers, worker, downs>>

EditTree(t) ==
    /\ session[t] = "tree" /\ disk[t] = "clean"
    /\ disk' = [disk EXCEPT ![t] = "unsaved"]
    /\ UNCHANGED <<row, branch, merged, clash, accepted, posted, cleaner, resolution, session, helpers,
                   worker, moves, downs>>

(* A commit; one that merges HEAD in resolves the conflict *)
CommitTree(t) ==
    /\ session[t] = "tree" /\ disk[t] = "unsaved" /\ branch[t] < MaxCommits
    /\ disk' = [disk EXCEPT ![t] = "clean"]
    /\ branch' = [branch EXCEPT ![t] = @ + 1]
    /\ \E still \in {clash[t], FALSE} : clash' = [clash EXCEPT ![t] = still]
    /\ UNCHANGED <<row, merged, accepted, posted, cleaner, resolution, session, helpers, worker, moves, downs>>

HeadMoves(t) ==
    /\ Ahead(t) > 0 /\ branch[t] # -1 /\ ~clash[t]
    /\ clash' = [clash EXCEPT ![t] = TRUE]
    /\ UNCHANGED <<row, disk, branch, merged, accepted, posted, cleaner, resolution, session, helpers,
                   worker, moves, downs>>

SessionEnds(t) ==
    /\ session[t] # "none"
    /\ session' = [session EXCEPT ![t] = "none"]
    /\ UNCHANGED <<row, disk, branch, merged, clash, accepted, posted, cleaner, resolution, helpers,
                   worker, moves, downs>>

-----------------------------------------------------------------------------
(* The worker: forget_missing_folders, the orphans, then the queue *)
ForgetMissing ==
    /\ worker.pc = "missing"
    /\ row' = [t \in Tree |-> row[t] /\ disk[t] # "absent"]
    /\ worker' = [worker EXCEPT !.pc = "orphans"]
    /\ UNCHANGED <<disk, branch, merged, clash, accepted, posted, cleaner, resolution, session, helpers,
                   moves, downs>>

(* reclaim_orphans: an orphan with nothing unsaved is removed, the others stay *)
Orphans == {t \in Tree : disk[t] # "absent" /\ ~row[t]}

FindOrphan(t) ==
    /\ worker.pc = "orphans" /\ t \in Orphans /\ disk[t] = "clean"
    /\ worker' = [pc |-> "reclaim", task |-> t]
    /\ UNCHANGED <<row, disk, branch, merged, clash, accepted, posted, cleaner, resolution, session, helpers,
                   moves, downs>>

Reclaim ==
    /\ worker.pc = "reclaim"
    /\ disk' = [disk EXCEPT ![worker.task] = "absent"]
    /\ worker' = [pc |-> "orphans", task |-> Somebody]
    /\ UNCHANGED <<row, branch, merged, clash, accepted, posted, cleaner, resolution, session, helpers,
                   moves, downs>>

Reconciled ==
    /\ worker.pc = "orphans" /\ \A t \in Orphans : disk[t] = "unsaved"
    /\ worker' = [worker EXCEPT !.pc = "idle"]
    /\ UNCHANGED <<row, disk, branch, merged, clash, accepted, posted, cleaner, resolution, session, helpers,
                   moves, downs>>

(* ensure: the worktree the task has, when its folder is there *)
Ensure(t) ==
    /\ worker.pc = "idle" /\ session[t] = "none"
    /\ worker' = [pc |-> IF Place(t) = "tree" THEN "open" ELSE "create", task |-> t]
    /\ UNCHANGED <<row, disk, branch, merged, clash, accepted, posted, cleaner, resolution, session, helpers,
                   moves, downs>>

(* create: git worktree add, on the branch when it exists and with -b from   *)
(* HEAD when not                                                            *)
Create ==
    LET t == worker.task IN
    /\ worker.pc = "create" /\ disk[t] = "absent"
    /\ branch' = [branch EXCEPT ![t] = IF @ = -1 THEN 0 ELSE @]
    /\ disk' = [disk EXCEPT ![t] = "clean"]
    /\ worker' = [worker EXCEPT !.pc = "name"]
    /\ UNCHANGED <<row, merged, clash, accepted, posted, cleaner, resolution, session, helpers, moves, downs>>

(* git refuses, as it does when the folder is there already: the item parks *)
CreateFails ==
    /\ worker.pc = "create"
    /\ worker' = [pc |-> "idle", task |-> Somebody]
    /\ UNCHANGED <<row, disk, branch, merged, clash, accepted, posted, cleaner, resolution, session, helpers,
                   moves, downs>>

NameOnTask ==
    /\ worker.pc = "name"
    /\ row' = [row EXCEPT ![worker.task] = TRUE]
    /\ worker' = [worker EXCEPT !.pc = "open"]
    /\ UNCHANGED <<disk, branch, merged, clash, accepted, posted, cleaner, resolution, session, helpers,
                   moves, downs>>

(* The session opens where the task's row now says *)
OpenWork ==
    LET t == worker.task IN
    /\ worker.pc = "open"
    /\ session' = [session EXCEPT ![t] = IF @ = "none" THEN Place(t) ELSE @]
    /\ worker' = [pc |-> "idle", task |-> Somebody]
    /\ UNCHANGED <<row, disk, branch, merged, clash, accepted, posted, cleaner, resolution, helpers,
                   moves, downs>>

-----------------------------------------------------------------------------
(* The cleaner hears of a move; an event it lags behind is never heard *)
Hear(t) ==
    /\ cleaner.pc = "idle" /\ t \in posted
    /\ posted' = posted \ {t}
    /\ cleaner' = [AtRest EXCEPT !.pc = "look", !.task = t]
    /\ UNCHANGED <<row, disk, branch, merged, clash, accepted, resolution, session, helpers, worker,
                   moves, downs>>

Lagged(t) ==
    /\ t \in posted
    /\ posted' = posted \ {t}
    /\ UNCHANGED <<row, disk, branch, merged, clash, accepted, cleaner, resolution, session, helpers, worker,
                   moves, downs>>

(* follow_resolutions, every five seconds *)
Follow(t) ==
    /\ cleaner.pc = "idle" /\ resolution[t] = "running"
    /\ cleaner' = [AtRest EXCEPT !.pc = "look", !.task = t, !.follows = TRUE]
    /\ UNCHANGED <<row, disk, branch, merged, clash, accepted, posted, resolution, session, helpers, worker,
                   moves, downs>>

(* The end of a handling, with the resolutions and sessions as it leaves    *)
(* them; one that followed a resolution gives up when its session is gone    *)
Done(resolutions, sessions) ==
    LET t == cleaner.task IN
    /\ cleaner' = AtRest
    /\ session' = sessions
    /\ resolution' = IF cleaner.follows /\ resolutions[t] = "running" /\ sessions[t] = "none"
                     THEN [resolutions EXCEPT ![t] = "abandoned"] ELSE resolutions

(* clean_if_accepted *)
Look ==
    LET t == cleaner.task IN
    /\ cleaner.pc = "look"
    /\ \/ /\ accepted[t]
          /\ cleaner' = [cleaner EXCEPT !.pc = "review"]
          /\ UNCHANGED <<resolution, session, helpers>>
       \/ /\ ~accepted[t]
          /\ Done([resolution EXCEPT ![t] = "none"], session)
          /\ helpers' = [helpers EXCEPT ![t] = 0]
    /\ UNCHANGED <<row, disk, branch, merged, clash, accepted, posted, worker, moves, downs>>

(* merge_accepted up to the merge: the review of the branch decides *)
Review ==
    LET t == cleaner.task
        Unsaved == Place(t) = "tree" /\ disk[t] = "unsaved"
    IN
    /\ cleaner.pc = "review"
    /\ \/ /\ branch[t] # -1 /\ Unsaved
          /\ Done(resolution, session)
       \/ /\ branch[t] = -1 \/ ~Unsaved
          /\ cleaner' = [cleaner EXCEPT !.saw = IF branch[t] = -1 THEN 0 ELSE branch[t],
                !.pc = IF branch[t] = -1 \/ Ahead(t) = 0 THEN "finish" ELSE IF clash[t] THEN "resolve" ELSE "merge"]
          /\ UNCHANGED <<resolution, session>>
    /\ UNCHANGED <<row, disk, branch, merged, clash, accepted, posted, helpers, worker, moves, downs>>

(* Mutant: a merge git refuses finishes too *)
MergeAnyway ==
    LET t == cleaner.task IN
    /\ cleaner.pc = "merge"
    /\ merged' = [merged EXCEPT ![t] = IF clash[t] THEN @ ELSE branch[t]]
    /\ cleaner' = [cleaner EXCEPT !.pc = "finish"]
    /\ UNCHANGED <<row, disk, branch, clash, accepted, posted, resolution, session, helpers, worker,
                   moves, downs>>

(* merge_branch: git merges all the branch has now, or refuses and the merge *)
(* is abandoned                                                             *)
MergeBranch ==
    LET t == cleaner.task IN
    /\ cleaner.pc = "merge"
    /\ \/ /\ ~clash[t]
          /\ merged' = [merged EXCEPT ![t] = branch[t]]
          /\ cleaner' = [cleaner EXCEPT !.pc = "finish"]
          /\ UNCHANGED <<resolution, session>>
       \/ Done(resolution, session) /\ UNCHANGED merged
    /\ UNCHANGED <<row, disk, branch, clash, accepted, posted, helpers, worker, moves, downs>>

(* resolve_conflict: one session per conflict, none again once it was tried *)
ResolveConflict ==
    LET t == cleaner.task IN
    /\ cleaner.pc = "resolve"
    /\ \/ /\ resolution[t] # "none"
          /\ Done(resolution, session)
          /\ UNCHANGED helpers
       \/ /\ resolution[t] = "none"
          /\ \E opens \in BOOLEAN :
                /\ helpers' = [helpers EXCEPT ![t] = @ + 1]
                /\ Done([resolution EXCEPT ![t] = IF opens THEN "running" ELSE "abandoned"],
                        [session EXCEPT ![t] = IF opens /\ @ = "none" THEN Place(t) ELSE @])
    /\ UNCHANGED <<row, disk, branch, merged, clash, accepted, posted, worker, moves, downs>>

(* finish: the merge session is closed first, then the worktree released *)
FinishMerge ==
    LET t == cleaner.task IN
    /\ cleaner.pc = "finish"
    /\ resolution' = [resolution EXCEPT ![t] = "none"]
    /\ session' = [session EXCEPT ![t] = IF resolution[t] = "running" THEN "none" ELSE @]
    /\ helpers' = [helpers EXCEPT ![t] = 0]
    /\ cleaner' = [cleaner EXCEPT !.pc = "release"]
    /\ UNCHANGED <<row, disk, branch, merged, clash, accepted, posted, worker, moves, downs>>

(* release: no worktree, one with unsaved changes, one whose folder is gone  *)
(* already, or one to remove                                                *)
Release ==
    LET t == cleaner.task IN
    /\ cleaner.pc = "release"
    /\ \/ /\ ~row[t] \/ disk[t] = "unsaved"
          /\ Done(resolution, session)
       \/ /\ row[t] /\ disk[t] # "unsaved"
          /\ cleaner' = [cleaner EXCEPT !.pc = IF disk[t] = "clean" THEN "remove" ELSE "forget"]
          /\ UNCHANGED <<resolution, session>>
    /\ UNCHANGED <<row, disk, branch, merged, clash, accepted, posted, helpers, worker, moves, downs>>

(* git worktree remove --force: what is in the folder now goes with it *)
Remove ==
    LET t == cleaner.task IN
    /\ cleaner.pc = "remove"
    /\ disk' = [disk EXCEPT ![t] = "absent"]
    /\ cleaner' = [cleaner EXCEPT !.pc = "forget"]
    /\ UNCHANGED <<row, branch, merged, clash, accepted, posted, resolution, session, helpers, worker,
                   moves, downs>>

ForgetTree ==
    /\ cleaner.pc = "forget"
    /\ row' = [row EXCEPT ![cleaner.task] = FALSE]
    /\ Done(resolution, session)
    /\ UNCHANGED <<disk, branch, merged, clash, accepted, posted, helpers, worker, moves, downs>>

(* A crash loses the cleaner, its resolutions, the events and the sessions *)
Down ==
    /\ downs < MaxDowns /\ downs' = downs + 1
    /\ posted' = {} /\ cleaner' = AtRest
    /\ resolution' = [t \in Tree |-> "none"] /\ session' = [t \in Tree |-> "none"]
    /\ helpers' = [t \in Tree |-> 0]
    /\ worker' = [pc |-> "missing", task |-> Somebody]
    /\ UNCHANGED <<row, disk, branch, merged, clash, accepted, moves>>

TreesNext ==
    \/ \E t \in Tree :
        \/ AcceptTask(t) \/ EditTree(t) \/ CommitTree(t) \/ HeadMoves(t) \/ SessionEnds(t)
        \/ FindOrphan(t) \/ Ensure(t) \/ Hear(t) \/ Lagged(t) \/ Follow(t)
    \/ ForgetMissing \/ Reclaim \/ Reconciled \/ Create \/ CreateFails \/ NameOnTask \/ OpenWork
    \/ Look \/ Review \/ MergeBranch \/ ResolveConflict \/ FinishMerge \/ Release \/ Remove \/ ForgetTree
    \/ Down

TreesSpec == TreesInit /\ [][TreesNext]_trees

-----------------------------------------------------------------------------
(* However runs, restarts, merges and removals interleave, no commit on a   *)
(* task's branch is lost and the project's HEAD never loses one it has      *)
(* (worktree_cleaner.rs: the branch with its commits always stays).         *)
CommitsStay ==
    \A t \in Tree : branch'[t] >= branch[t] /\ merged'[t] >= merged[t]

(* The cleaner takes a worktree away only when HEAD has every commit its    *)
(* review of the branch saw, though the review, the merge, the close of the *)
(* merge session and the removal are separate git runs.                     *)
MergedBeforeRemoved ==
    \A t \in Tree : (cleaner.pc = "remove" /\ cleaner.task = t /\ disk[t] # "absent" /\ disk'[t] = "absent")
         => (branch[t] = -1 \/ merged[t] >= cleaner.saw)

(* A conflict is given at most one merge session: when it ends without a    *)
(* merge none follows until the cleaner has seen the task unaccepted, the   *)
(* branch merged, or the program started anew.                              *)
OneMergeSession == \A t \in Tree : helpers[t] <= 1

(* What the cleaner's git runs, cut apart, may not do to a task's work.       *)
TreesKeep == [][CommitsStay /\ MergedBeforeRemoved /\ OneMergeSession']_trees
=============================================================================
