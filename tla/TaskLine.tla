------------------------------ MODULE TaskLine ------------------------------
(***************************************************************************)
(* One task as everything but its checklist sees it: the review line a     *)
(* task without released steps walks by itself, its status, and the time   *)
(* entries tracked on it.  Of the checklist only its stage is kept.        *)
(***************************************************************************)
EXTENDS Naturals, FiniteSets, FiniteSetsExt

CONSTANTS
    Entry,       \* the time entries
    Stages,      \* the stages of a checklist: "drafts" when no step is past draft, "open" when
                 \* none is started, "started", "running" when a step runs
    MaxTime,     \* bound on the clock
    IdleAfter    \* IDLE_AFTER, in units of the clock

ASSUME LineConstants ==
    /\ MaxTime \in Nat /\ IdleAfter \in Nat /\ IsFiniteSet(Entry)
    /\ "drafts" \in Stages /\ Stages \subseteq {"drafts", "open", "started", "running"}

VARIABLES
    checklist,   \* the stage of the checklist
    review,      \* the review line: its state, its two moments, accepted by nobody
    status,      \* the task's status
    clock,
    touched,     \* the last write on the task, its steps or its wrapup
    entries      \* the time entries

task == <<checklist, review, status, clock, touched, entries>>

Running == MaxTime + 1
ReviewLine ==
    [state : {"open", "running", "claimed", "done"}, claimed : BOOLEAN, accepted : BOOLEAN, auto : BOOLEAN]
TimeEntry == [start : 0 .. MaxTime, stop : 0 .. Running, updated : 0 .. MaxTime, exists : BOOLEAN]
NoEntry == [start |-> 0, stop |-> 0, updated |-> 0, exists |-> FALSE]
Touch   == touched' = clock

-----------------------------------------------------------------------------
(* The review line *)

ReviewActive == checklist = "drafts"

(* mark_review_state: every move sets the moments anew *)
Marked(r, next) ==
    IF r.state = next THEN r
    ELSE [state |-> next, claimed |-> next \in {"claimed", "done"}, accepted |-> next = "done", auto |-> FALSE]

(* save_and_publish: an unchanged row is not written *)
Saves(r) ==
    /\ review' = r
    /\ touched' = IF r = review THEN touched ELSE clock

(* session_running: ambient, as a session on the task alone comes and goes *)
SessionRunning(on) ==
    Saves(IF ReviewActive /\ on /\ review.state = "open" THEN Marked(review, "running")
          ELSE IF ReviewActive /\ ~on /\ review.state = "running" THEN Marked(review, "open")
          ELSE review)

(* claimed_by_wrapup_in *)
ClaimedByWrapup ==
    IF ReviewActive /\ review.state \in {"open", "running"} THEN Marked(review, "claimed") ELSE review

(* send_back_in *)
SendBackLine == ReviewActive /\ Saves(Marked(review, "open"))

-----------------------------------------------------------------------------
(* The time entries *)

IsRunning(e) == entries[e].exists /\ entries[e].stop = Running

(* stop_if_running_in *)
StopIfRunning ==
    entries' = [e \in Entry |->
                   IF IsRunning(e) THEN [entries[e] EXCEPT !.stop = clock, !.updated = clock] ELSE entries[e]]

(* Starting a running timer returns it *)
StartTimer(e) ==
    /\ \A other \in Entry : ~IsRunning(other)
    /\ ~entries[e].exists
    /\ entries' = [entries EXCEPT ![e] = [start |-> clock, stop |-> Running, updated |-> clock, exists |-> TRUE]]
    /\ UNCHANGED <<checklist, review, status, clock, touched>>

StopTimer ==
    /\ \E e \in Entry : IsRunning(e)
    /\ StopIfRunning
    /\ UNCHANGED <<checklist, review, status, clock, touched>>

(* A finished entry is not reopened, and ends after it starts *)
EditEntry(e, start, stop) ==
    /\ entries[e].exists
    /\ entries[e].stop # Running => stop # Running
    /\ stop # Running => stop > start
    /\ entries[e] # [entries[e] EXCEPT !.start = start, !.stop = stop]
    /\ entries' = [entries EXCEPT ![e] = [@ EXCEPT !.start = start, !.stop = stop, !.updated = clock]]
    /\ UNCHANGED <<checklist, review, status, clock, touched>>

DeleteEntry(e) ==
    /\ entries[e].exists
    /\ entries' = [entries EXCEPT ![e] = NoEntry]
    /\ UNCHANGED <<checklist, review, status, clock, touched>>

StopAllOnShutdown ==
    /\ StopIfRunning
    /\ UNCHANGED <<checklist, review, status, clock, touched>>

(* last_activity_in *)
LastActivity(e) == Max({entries[e].start, entries[e].updated, touched})

(* stop_idle: a running step is activity; otherwise stop at the last write *)
StopIdle ==
    /\ checklist # "running"
    /\ entries' = [e \in Entry |->
                      IF IsRunning(e) /\ LastActivity(e) + IdleAfter < clock
                      THEN [entries[e] EXCEPT !.stop = LastActivity(e), !.updated = clock] ELSE entries[e]]
    /\ UNCHANGED <<checklist, review, status, clock, touched>>

-----------------------------------------------------------------------------
(* The console's review *)

(* accept_in: from any state but done; accepting a claim stops the timer *)
Accept ==
    /\ ReviewActive /\ review.state # "done"
    /\ Saves(Marked(review, "done"))
    /\ IF review.state = "claimed" THEN StopIfRunning ELSE UNCHANGED entries
    /\ UNCHANGED <<checklist, status, clock>>

SendBackTask ==
    /\ SendBackLine
    /\ UNCHANGED <<checklist, status, clock, entries>>

(* TaskService::update as far as the status goes: done stops the timer *)
SetStatus(next) ==
    /\ status # next
    /\ status' = next
    /\ Touch
    /\ IF next = "done" THEN StopIfRunning ELSE UNCHANGED entries
    /\ UNCHANGED <<checklist, review, clock>>

(* The checklist moves by itself; see StepFlow *)
Checklist(stage) ==
    /\ checklist # stage
    /\ checklist' = stage
    /\ Touch
    /\ UNCHANGED <<review, status, clock, entries>>

(* TaskStepService::edit: accepting a claimed step stops the timer *)
AcceptStep ==
    /\ checklist \in {"started", "running"}
    /\ StopIfRunning
    /\ Touch
    /\ UNCHANGED <<checklist, review, status, clock>>

Tick ==
    /\ clock < MaxTime
    /\ clock' = clock + 1
    /\ UNCHANGED <<checklist, review, status, touched, entries>>

LineInit ==
    /\ checklist = "drafts" /\ status = "todo" /\ clock = 0 /\ touched = 0
    /\ review = [state |-> "open", claimed |-> FALSE, accepted |-> FALSE, auto |-> FALSE]
    /\ entries = [e \in Entry |-> NoEntry]

ConsoleNext == Accept \/ SendBackTask \/ AcceptStep \/ \E stage \in Stages : Checklist(stage)

TimerNext ==
    \/ \E e \in Entry :
          \/ StartTimer(e) \/ DeleteEntry(e)
          \/ \E start, stop \in 0 .. Running : EditEntry(e, start, stop) /\ start < Running
    \/ StopTimer \/ StopAllOnShutdown \/ StopIdle \/ Tick
    \/ \E next \in {"todo", "done"} : SetStatus(next)

-----------------------------------------------------------------------------

(* The row, the clock and the time entries have their types.                  *)
LineTypeOK ==
    /\ checklist \in Stages
    /\ review \in ReviewLine
    /\ status \in {"todo", "done"}
    /\ clock \in 0 .. MaxTime /\ touched \in 0 .. clock
    /\ entries \in [Entry -> TimeEntry]

(* The two moments of the review line and the mark that nobody accepted it    *)
(* agree with its state, after every sequence of runs, claims, acceptances    *)
(* and send backs by sessions, the wrapup, the thread and the console.        *)
LineMoments ==
    /\ review.claimed = (review.state \in {"claimed", "done"})
    /\ review.accepted = (review.state = "done")
    /\ review.auto => review.state = "done"

(* find_running_of_task takes at most one row and fails on two: whatever is   *)
(* edited, deleted and stopped, a task has at most one running entry.         *)
OneRunningTimer == Cardinality({e \in Entry : IsRunning(e)}) <= 1

(* "Accepting a claim also stops the task's timer: the work it measured is    *)
(* over", by whichever way a claimed line is accepted.                        *)
AcceptedClaimStopsTimer ==
    review.state = "claimed" /\ review'.state = "done" =>
       \A e \in Entry : entries'[e].exists => entries'[e].stop # Running
=============================================================================
