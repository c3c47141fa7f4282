------------------------------ MODULE StepClaim -----------------------------
(***************************************************************************)
(* A session's call of rekall_step from its first read to its last write:  *)
(* the checks a claim must pass, the move, the snapshot of the working     *)
(* tree a start takes and the commit a claim makes.  The call names the    *)
(* step by its number.  Each await is a step of its own, between which     *)
(* other sessions call, the person edits the list and the tree changes.    *)
(* The work marker starts steps the same way when a session opens.         *)
(***************************************************************************)
EXTENDS StepFlow

CONSTANTS
    Session,       \* the sessions on the task
    Checked,       \* the steps that carry a check of their own
    File,          \* the files of the working tree
    MaxContents,   \* bound on the contents written
    Idle

ASSUME ClaimConstants ==
    /\ Checked \subseteq Step
    /\ MaxContents \in Nat
    /\ Idle \notin Step \cup {"plan", "run", "claim", "commit", "snapshot"}

VARIABLES
    call,      \* what each session's call has got to
    tree,      \* the content of each file, 0 when it is as committed
    written,   \* how many contents were written so far
    snap,      \* the snapshot kept for each step: the modified files' contents, 0 for the others
    began,     \* the tree when the step last went to running
    missed     \* the steps whose last start left no snapshot of its own

claims == <<flows, call, tree, written, snap, began, missed>>
git    == <<tree, written, snap, began, missed>>

NoSnapshot == [kept |-> FALSE, files |-> [f \in File |-> 0]]
Pending    == {f \in File : tree[f] # 0}
NoCall     == [pc |-> Idle, ref |-> 0, step |-> Idle, left |-> <<>>, passed |-> {}, from |-> Idle]

At(x, pc) == call[x].pc = pc
Returns(x) == call' = [call EXCEPT ![x] = NoCall]

(* A transaction of another service leaves the steps alone *)
StepsStay == UNCHANGED flows

-----------------------------------------------------------------------------
(* The checks *)

(* plan_in: the project's checks, then the step's *)
PlanIn(s) == IF s \in Checked THEN <<"project", s>> ELSE <<"project">>

(* claimable_step: a draft or an accepted step runs no check *)
Resolve(x, n) ==
    /\ At(x, Idle)
    /\ n \in DOMAIN line
    /\ \E s \in Step :
          /\ s = line[n]
          /\ call' = [call EXCEPT ![x] =
                         [@ EXCEPT !.ref = n, !.step = s, !.pc = IF Movable(s) THEN "plan" ELSE "claim"]]
    /\ StepsStay /\ UNCHANGED git

(* plan_for_step; a step deleted meanwhile is an error to the session *)
PlanForStep(x) ==
    /\ At(x, "plan")
    /\ IF step[call[x].step] = NoStep THEN Returns(x)
       ELSE call' = [call EXCEPT ![x] = [@ EXCEPT !.pc = "run", !.left = PlanIn(call[x].step)]]
    /\ StepsStay /\ UNCHANGED git

(* Mutant: a failing check does not stop the run *)
RunGoesOn(x, ok) ==
    /\ At(x, "run")
    /\ call' = [call EXCEPT ![x].left = Tail(@),
                            ![x].passed = IF ok THEN @ \cup {Head(call[x].left)} ELSE @,
                            ![x].pc = IF Len(call[x].left) = 1 THEN "claim" ELSE "run"]
    /\ StepsStay /\ UNCHANGED git

(* run and admit: in order, stopping at the first that fails *)
Run(x, ok) ==
    /\ At(x, "run")
    /\ IF ok
       THEN call' = [call EXCEPT ![x] =
                        [@ EXCEPT !.left = Tail(call[x].left),
                                  !.passed = call[x].passed \cup {Head(call[x].left)},
                                  !.pc = IF Len(call[x].left) = 1 THEN "claim" ELSE "run"]]
       ELSE Returns(x)
    /\ StepsStay /\ UNCHANGED git

-----------------------------------------------------------------------------
(* The move *)

(* FlowService::transition resolves the number once more *)
Claim(x) ==
    /\ At(x, "claim")
    /\ call[x].ref \in DOMAIN line
    /\ \E s \in Step :
          /\ s = line[call[x].ref]
          /\ Move(s, "claimed")
          /\ call' = [call EXCEPT ![x] = [NoCall EXCEPT !.pc = "commit", !.step = s, !.from = step[s].state]]
    /\ UNCHANGED git

(* The transition refuses: no such number any more, a draft, accepted work *)
ClaimRefused(x) ==
    /\ At(x, "claim")
    /\ call[x].ref \in DOMAIN line => ~Movable(line[call[x].ref])
    /\ Returns(x)
    /\ StepsStay /\ UNCHANGED git

(* A start: rekall_step with running, or mark_running for an opened session. *)
(* Only work that goes to running is snapshot.                               *)
Start(x, s) ==
    /\ At(x, Idle)
    /\ Move(s, "running")
    /\ IF step[s].state = "running" THEN UNCHANGED <<call, began, missed>>
       ELSE /\ call' = [call EXCEPT ![x] = [@ EXCEPT !.pc = "snapshot", !.step = s]]
            /\ began' = [began EXCEPT ![s] = tree]
            /\ missed' = missed \cup {s}
    /\ UNCHANGED <<tree, written, snap>>

(* rekall_step with open, or release_running *)
PutBack(x, s) ==
    /\ At(x, Idle)
    /\ Move(s, "open")
    /\ UNCHANGED <<call, git>>

-----------------------------------------------------------------------------
(* The working tree *)

(* A session, or anyone else in the folder, writes a file *)
Write(f) ==
    /\ written < MaxContents
    /\ written' = written + 1
    /\ tree' = [tree EXCEPT ![f] = written']
    /\ StepsStay /\ UNCHANGED <<call, snap, began, missed>>

(* work_tree_snapshot: the modified files and a hash of what each holds *)
WorkTreeSnapshot == [kept |-> TRUE, files |-> tree]

(* commit_paths: exactly these, whatever else is modified or staged *)
CommitPaths(own) == tree' = [f \in File |-> IF f \in own THEN 0 ELSE tree[f]]

(* StepSnapshotService::take: the snapshot replaces the one kept before *)
Take(x) ==
    /\ At(x, "snapshot")
    /\ IF step[call[x].step] = NoStep THEN UNCHANGED <<snap, missed>>
       ELSE /\ snap' = [snap EXCEPT ![call[x].step] = WorkTreeSnapshot]
            /\ missed' = missed \ {call[x].step}
    /\ Returns(x)
    /\ StepsStay /\ UNCHANGED <<tree, written, began>>

(* git could not be read: logged, and the snapshot kept before stays *)
TakeFails(x) ==
    /\ At(x, "snapshot")
    /\ Returns(x)
    /\ StepsStay /\ UNCHANGED git

(* SessionChanges: without a snapshot everything, else what differs from it *)
Own(s) ==
    IF snap[s].kept THEN {f \in Pending : snap[s].files[f] # tree[f]} ELSE Pending

(* after_step_claim: commit what is the session's; the reference it logs on   *)
(* the step is in the same transaction                                        *)
Commit(x) ==
    LET s == call[x].step
    IN  /\ At(x, "commit")
        /\ step[s] # NoStep
        /\ Own(s) # {}
        /\ CommitPaths(Own(s))
        /\ Returns(x)
        /\ StepsStay /\ UNCHANGED <<written, snap, began, missed>>

(* Nothing of this work, the step gone, git refusing, or the project does not *)
(* commit: the claim stands                                                   *)
CommitSkipped(x) ==
    /\ At(x, "commit")
    /\ Returns(x)
    /\ StepsStay /\ UNCHANGED git

(* The server stops: every call is gone, what was written stays *)
Crash ==
    /\ call' = [x \in Session |-> NoCall]
    /\ \E x \in Session : ~At(x, Idle)
    /\ StepsStay /\ UNCHANGED git

-----------------------------------------------------------------------------

(* The snapshot of a step goes with the step *)
ForgetSteps ==
    /\ snap'   = [s \in Step |-> IF step'[s] = NoStep THEN NoSnapshot ELSE snap[s]]
    /\ began'  = [s \in Step |-> IF step'[s] = NoStep THEN [f \in File |-> 0] ELSE began[s]]
    /\ missed' = {s \in missed : step'[s] # NoStep}

(* What the person does to the list while calls are under way *)
Console ==
    /\ \E s \in Step :
          \/ SendBack(s) \/ Delete(s)
          \/ Edit(s, "no", "keep") \/ Edit(s, "keep", "yes")
          \/ \E at \in 0 .. Cardinality(Step) : MoveTo(s, at)
    /\ ForgetSteps
    /\ UNCHANGED <<call, tree, written>>

ClaimInit ==
    /\ step \in [Step -> {[NoStep EXCEPT !.state = state] : state \in {"open", "draft"}}]
    /\ line \in {ln \in [1 .. Cardinality(Step) -> Step] : \A s \in Step : \E k \in DOMAIN ln : ln[k] = s}
    /\ TailOrdered
    /\ link = {} /\ visit = {}
    /\ call = [x \in Session |-> NoCall]
    /\ tree = [f \in File |-> 0] /\ written = 0
    /\ snap = [s \in Step |-> NoSnapshot]
    /\ began = [s \in Step |-> [f \in File |-> 0]]
    /\ missed = {}

ClaimNext ==
    \/ \E x \in Session :
          \/ \E n \in 1 .. Cardinality(Step) : Resolve(x, n)
          \/ PlanForStep(x) \/ Claim(x) \/ ClaimRefused(x)
          \/ \E ok \in BOOLEAN : Run(x, ok)
          \/ \E s \in Step : Start(x, s) \/ PutBack(x, s)
          \/ Take(x) \/ TakeFails(x) \/ Commit(x) \/ CommitSkipped(x)
    \/ \E f \in File : Write(f)
    \/ Console
    \/ Crash

ClaimSpec == ClaimInit /\ [][ClaimNext]_claims

-----------------------------------------------------------------------------

(* The step the call x claims in this move, if it does *)
Claims(x, s) == At(x, "claim") /\ call'[x].pc = "commit" /\ call'[x].step = s

(* A call that claims the step it resolved has seen all of that step's checks *)
(* pass, the project's and its own, however long they took and whatever else  *)
(* was called meanwhile.                                                      *)
ResolvedClaimIsChecked ==
    \A x \in Session, s \in Step :
       Claims(x, s) /\ call[x].step = s /\ call[x].passed # {} =>
           \A k \in DOMAIN PlanIn(s) : PlanIn(s)[k] \in call[x].passed

(* "A file that was already modified and has not changed since stays where it *)
(* is": what was in the folder when the step went to running, and is still as *)
(* it was, is not committed with the step, provided that start left its       *)
(* snapshot.                                                                  *)
OthersWorkStays ==
    \A x \in Session :
       At(x, "commit") /\ call'[x] = NoCall /\ call[x].from = "running" /\ call[x].step \notin missed =>
           \A f \in File :
               tree[f] # 0 /\ tree'[f] = 0 => tree[f] # began[call[x].step][f]

(* What a claim may not do, cut at its awaits and among other calls: count    *)
(* without its checks, or commit what was in the folder before the step.      *)
ClaimsHold == [][ResolvedClaimIsChecked /\ OthersWorkStays]_claims
=============================================================================
