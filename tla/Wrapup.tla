------------------------------- MODULE Wrapup -------------------------------
(***************************************************************************)
(* The wrapup of a task: written whole by a session over MCP or by the     *)
(* person in the console, kept as numbered versions, and compared with     *)
(* the project's history.  A session's call runs the checks, reads HEAD,   *)
(* writes, commits and accepts a quick task, each in a step of its own.    *)
(***************************************************************************)
EXTENDS TaskLine, Sequences

CONSTANTS
    Body,          \* the texts a wrapup may have
    Naming,        \* the texts that name few enough files of the project
    Writer,        \* the calls that may be under way at once
    Kept,          \* KEPT_PER_TASK
    MaxCommits,    \* bound on the commits
    MaxVersions    \* bound on the versions written

ASSUME WrapupConstants ==
    /\ Kept \in Nat \ {0} /\ MaxCommits \in Nat /\ MaxVersions \in Nat
    /\ Body # {} /\ Naming \subseteq Body

VARIABLES
    quick,       \* the task is a quick one, fixed when it is created
    wrapup,      \* the wrapup, a sequence of at most one
    versions,    \* the kept versions, oldest first
    wroteAt,     \* the commits there were when the newest version was written
    log,         \* the project's commits: whether each is the task's own and touches a named file
    call         \* where each call is

wrapups == <<task, quick, wrapup, versions, wroteAt, log, call>>

Idle == [pc |-> "idle", by |-> "claude", body |-> CHOOSE b \in Body : TRUE, head |-> 0,
         stepless |-> FALSE, passed |-> FALSE, failed |-> FALSE]
At(w, pc) == call[w].pc = pc
LineStays == UNCHANGED task

-----------------------------------------------------------------------------
(* The call *)

(* run_for_wrapup_claim: only a task whose own line is under review has the   *)
(* project's checks run                                                       *)
PlanForTask(w, body) ==
    /\ At(w, "idle")
    /\ call' = [call EXCEPT ![w] = [Idle EXCEPT !.pc = IF ReviewActive THEN "run" ELSE "head",
                                                !.stepless = ReviewActive, !.body = body]]
    /\ LineStays /\ UNCHANGED <<quick, wrapup, versions, wroteAt, log>>

Checks(w, ok) ==
    /\ At(w, "run")
    /\ call' = [call EXCEPT ![w] = IF ok THEN [@ EXCEPT !.pc = "head", !.passed = TRUE] ELSE Idle]
    /\ LineStays /\ UNCHANGED <<quick, wrapup, versions, wroteAt, log>>

(* WrapupService::write: the console's path starts at the same read of HEAD *)
HandWrites(w, body) ==
    /\ At(w, "idle")
    /\ call' = [call EXCEPT ![w] = [Idle EXCEPT !.pc = "head", !.by = "hand", !.body = body]]
    /\ LineStays /\ UNCHANGED <<quick, wrapup, versions, wroteAt, log>>

ReadHead(w) ==
    /\ At(w, "head")
    /\ call' = [call EXCEPT ![w].pc = "write", ![w].head = Len(log)]
    /\ LineStays /\ UNCHANGED <<quick, wrapup, versions, wroteAt, log>>

(* The newest, in the order of their numbers *)
Latest(vs) == vs[Len(vs)]

NextNumber == IF versions = <<>> THEN 1 ELSE Latest(versions).number + 1

(* append: the next number, and only the newest are kept *)
Appended(version) ==
    LET all == Append(versions, [version EXCEPT !.number = NextNumber])
    IN  SubSeq(all, IF Len(all) > Kept THEN Len(all) - Kept + 1 ELSE 1, Len(all))

(* A version is kept when the text changed *)
KeepsVersion(w) ==
    wrapup = <<>> \/ wrapup[1].body # call[w].body

(* write_in *)
WriteIn(w) ==
    /\ At(w, "write")
    /\ wrapup' = <<[body |-> call[w].body, by |-> call[w].by]>>
    /\ IF KeepsVersion(w)
       THEN /\ NextNumber <= MaxVersions
            /\ versions' = Appended([number |-> 0, body |-> call[w].body, head |-> call[w].head])
            /\ wroteAt' = Len(log)
       ELSE UNCHANGED <<versions, wroteAt>>
    /\ IF call[w].by = "claude"
       THEN Saves(ClaimedByWrapup) /\ call' = [call EXCEPT ![w] = [Idle EXCEPT !.pc = "commit"]]
       ELSE UNCHANGED <<review, touched>> /\ call' = [call EXCEPT ![w] = Idle]
    /\ UNCHANGED <<checklist, status, clock, entries, quick, log>>

(* after_wrapup: a task under its own review commits what is its own, and the *)
(* commit is logged on the task; it may be off, have nothing, or fail         *)
AfterWrapup(w, outcome) ==
    /\ At(w, "commit")
    /\ outcome = "made" => ReviewActive /\ Len(log) < MaxCommits
    /\ log' = IF outcome = "made" THEN Append(log, [own |-> TRUE, touches |-> TRUE]) ELSE log
    /\ call' = [call EXCEPT ![w].pc = "accept", ![w].failed = outcome = "failed"]
    /\ LineStays /\ UNCHANGED <<quick, wrapup, versions, wroteAt>>

(* Mutant: the acceptance does not look at the line again *)
AcceptQuickUnread(w) ==
    /\ At(w, "accept")
    /\ IF quick /\ ~call[w].failed /\ ReviewActive
       THEN Saves([Marked(review, "done") EXCEPT !.auto = TRUE]) /\ StopIfRunning
       ELSE UNCHANGED <<review, touched, entries>>
    /\ call' = [call EXCEPT ![w] = Idle]
    /\ UNCHANGED <<checklist, status, clock, quick, wrapup, versions, wroteAt, log>>

(* accept_quick_task_after_commit and accept_quick_claim *)
AcceptQuick(w) ==
    /\ At(w, "accept")
    /\ IF quick /\ ~call[w].failed /\ review.state = "claimed" /\ ReviewActive
       THEN Saves([Marked(review, "done") EXCEPT !.auto = TRUE]) /\ StopIfRunning
       ELSE UNCHANGED <<review, touched, entries>>
    /\ call' = [call EXCEPT ![w] = Idle]
    /\ UNCHANGED <<checklist, status, clock, quick, wrapup, versions, wroteAt, log>>

DeleteWrapup ==
    /\ wrapup # <<>> /\ wrapup' = <<>>
    /\ LineStays /\ UNCHANGED <<quick, versions, wroteAt, log, call>>

(* Anyone commits to the project *)
ForeignCommit(touches) ==
    /\ Len(log) < MaxCommits
    /\ log' = Append(log, [own |-> FALSE, touches |-> touches])
    /\ LineStays /\ UNCHANGED <<quick, wrapup, versions, wroteAt, call>>

-----------------------------------------------------------------------------
(* Mutant: the commits of the work described are told from the others by when *)
(* they were made                                                             *)
FreshnessSkipsFirst ==
    IF wrapup = <<>> \/ versions = <<>> \/ wrapup[1].body \notin Naming THEN "unknown"
    ELSE IF \E k \in Latest(versions).head + 2 .. Len(log) : log[k].touches /\ ~log[k].own
    THEN "possibly stale" ELSE "fresh"

(* check_in and verdict: foreign commits that touch a named file since HEAD *)
Freshness ==
    IF wrapup = <<>> \/ versions = <<>> \/ wrapup[1].body \notin Naming THEN "unknown"
    ELSE IF \E k \in Latest(versions).head + 1 .. Len(log) : log[k].touches /\ ~log[k].own
    THEN "possibly stale" ELSE "fresh"

WrapupInit ==
    /\ LineInit
    /\ quick \in BOOLEAN
    /\ wrapup = <<>> /\ versions = <<>> /\ wroteAt = 0 /\ log = <<>>
    /\ call = [w \in Writer |-> Idle]

WrapupCalls ==
    \/ \E w \in Writer :
          \/ \E body \in Body : PlanForTask(w, body) \/ HandWrites(w, body)
          \/ \E ok \in BOOLEAN : Checks(w, ok)
          \/ ReadHead(w) \/ WriteIn(w) \/ AcceptQuick(w)
          \/ \E outcome \in {"made", "none", "failed"} : AfterWrapup(w, outcome)
    \/ DeleteWrapup
    \/ \E touches \in BOOLEAN : ForeignCommit(touches)

WrapupNext ==
    \/ WrapupCalls
    \/ ConsoleNext /\ UNCHANGED <<quick, wrapup, versions, wroteAt, log, call>>

WrapupSpec == WrapupInit /\ [][WrapupNext]_wrapups

-----------------------------------------------------------------------------

(* The wrapup, its versions and the calls have their types.                   *)
WrapupTypeOK ==
    /\ LineTypeOK
    /\ Len(wrapup) <= 1 /\ Len(versions) <= Kept
    /\ \A w \in Writer : call[w].head \in 0 .. Len(log) /\ call[w].body \in Body

(* "Deleting the wrapup keeps its versions", and no text is lost to a write:  *)
(* the wrapup that stands is the text of the newest version, however the      *)
(* session's writes and the person's overlap.                                 *)
VersionsHoldTheWrapup ==
    wrapup # <<>> => versions # <<>> /\ Latest(versions).body = wrapup[1].body

(* A number never names two versions: the newest number never goes back.      *)
NumbersNeverReused ==
    versions' # versions => versions' # <<>> /\ \A k \in DOMAIN versions : versions[k].number < Latest(versions').number

(* A wrapup reported as fresh really is: since its text was written no commit *)
(* that is not the task's own touched a file it names, although HEAD was read *)
(* before the write and other writers may have come between.                  *)
FreshIsFresh ==
    Freshness = "fresh" => \A k \in wroteAt + 1 .. Len(log) : log[k].touches => log[k].own

(* Checks before claims: a wrapup that claims the line passed the project's   *)
(* checks in the same call, unless the task had a checklist when they were    *)
(* planned.                                                                   *)
CheckedWrapupClaims ==
    \A w \in Writer :
       At(w, "write") /\ call'[w].pc = "commit" /\ review.state # "claimed" /\ review'.state = "claimed" =>
           call[w].passed \/ ~call[w].stepless

(* A quick task is accepted without a person only from a claim, and never by  *)
(* a call whose commit failed: one sent back or claimed by nobody meanwhile   *)
(* stays where the person put it.                                             *)
QuickAcceptsAClaim ==
    review'.auto /\ ~review.auto =>
       /\ quick /\ review.state = "claimed" /\ wrapup' = wrapup
       /\ \E w \in Writer : At(w, "accept") /\ ~call[w].failed /\ call'[w] = Idle

(* The wrapup with its versions and its freshness, while a session's calls    *)
(* and a person's edits overlap.                                              *)
WrapupInv == WrapupTypeOK /\ VersionsHoldTheWrapup /\ FreshIsFresh

(* What no step of a wrapup does: reuse a version's number, claim unchecked   *)
(* work, accept a quick task that nobody claimed.                             *)
WrapupKeeps == [][NumbersNeverReused /\ CheckedWrapupClaims /\ QuickAcceptsAClaim]_wrapups
=============================================================================
