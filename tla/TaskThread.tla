----------------------------- MODULE TaskThread -----------------------------
(***************************************************************************)
(* The thread under a task's description: feedback the person writes,      *)
(* revisions that saving the description opens, passes that hand what      *)
(* waits to a session, and the replies that seal entries.  A session comes *)
(* and goes in the steps the work marker takes, each its own transaction.  *)
(***************************************************************************)
EXTENDS TaskLine

CONSTANTS
    Text,       \* the texts a description may hold
    Blank,      \* the blank description
    MaxSeq,     \* bound on the entries of the thread
    Session

ASSUME ThreadConstants == MaxSeq \in Nat /\ Blank \notin Text /\ Text # {}

VARIABLES
    description,
    thread,      \* the entry of each seq
    wrapped,     \* the task has a wrapup
    session      \* where each session is in its life, and whether it is on a step

threads == <<task, description, thread, wrapped, session>>

Seq1    == 1 .. MaxSeq
Kinds   == {"work", "plan", "revision"}
Feedback == [kind : Kinds \cup {"none"}, state : {"none", "pending", "running", "applied"},
             quoted : Text \cup {Blank}, body : Text \cup {Blank}, pass : Nat, follows : 0 .. MaxSeq]
NoTalk  == [kind |-> "none", state |-> "none", quoted |-> Blank, body |-> Blank, pass |-> 0, follows |-> 0]
Away    == [at |-> "away", step |-> FALSE]

In(states) == {n \in Seq1 : thread[n].state \in states}
Open(n)    == thread[n].state \in {"pending", "running"}

-----------------------------------------------------------------------------
(* What the person writes *)

(* next_seq: one past the highest *)
NextSeq == Max({0} \cup In({"pending", "running", "applied"})) + 1

NewEntry(kind, quoted, body, follows) ==
    [kind |-> kind, state |-> "pending", quoted |-> quoted, body |-> body, pass |-> 0, follows |-> follows]

(* reopen_review_line_in: feedback on the work reopens a closed line *)
ReopenReviewLine ==
    IF review.state \in {"claimed", "done"} /\ ReviewActive
    THEN SendBackLine
    ELSE UNCHANGED <<review, touched>>

(* FeedbackService::add: never a revision, detail only to an applied entry *)
AddFeedback(kind, follows) ==
    /\ follows # 0 => thread[follows].state = "applied"
    /\ NextSeq \in Seq1
    /\ thread' = [thread EXCEPT ![NextSeq] = NewEntry(kind, Blank, Blank, follows)]
    /\ IF kind = "work" THEN ReopenReviewLine ELSE UNCHANGED <<review, touched>>
    /\ UNCHANGED <<checklist, status, clock, entries, description, wrapped, session>>

(* FeedbackService::delete *)
DeleteFeedback(n) ==
    /\ thread[n].state = "pending" /\ thread[n].kind # "revision"
    /\ thread' = [thread EXCEPT ![n] = NoTalk]
    /\ UNCHANGED <<task, description, wrapped, session>>

(* FeedbackService::edit changes the words of an entry, which are left out *)

(* FeedbackService::discard_revision *)
DiscardRevision(n) ==
    /\ thread[n].state = "pending" /\ thread[n].kind = "revision"
    /\ description' = thread[n].quoted
    /\ thread' = [thread EXCEPT ![n] = NoTalk]
    /\ touched' = IF description' = description THEN touched ELSE clock
    /\ UNCHANGED <<checklist, review, status, clock, entries, wrapped, session>>

(* is_evaluated *)
IsEvaluated == wrapped \/ checklist \in {"started", "running"} \/ review.state # "open"

(* latest_open_revision, 0 for none *)
LatestOpenRevision == Max({0} \cup {n \in In({"pending"}) : thread[n].kind = "revision"})

(* decide and track_description_in, for a description that changed *)
TrackDescription(after) ==
    LET open == LatestOpenRevision
    IN  IF ~IsEvaluated \/ after = Blank THEN UNCHANGED thread
        ELSE IF open = 0
             THEN NextSeq \in Seq1 /\ thread' = [thread EXCEPT ![NextSeq] = NewEntry("revision", description, after, 0)]
        ELSE IF thread[open].quoted = after
             THEN thread' = [thread EXCEPT ![open] = NoTalk]
        ELSE thread' = [thread EXCEPT ![open].body = after]

(* TaskService::update with another description *)
UpdateDescription(after) ==
    /\ description # after
    /\ description' = after
    /\ Touch
    /\ TrackDescription(after)
    /\ UNCHANGED <<checklist, review, status, clock, entries, wrapped, session>>

(* Mutant: a second pass starts beside the first *)
StartPassBeside ==
    /\ In({"pending"}) # {}
    /\ thread' = [n \in Seq1 |->
                     IF n \notin In({"pending"}) THEN thread[n]
                     ELSE [thread[n] EXCEPT !.state = "running", !.pass = Max({thread[m].pass : m \in Seq1}) + 1]]
    /\ UNCHANGED <<task, description, wrapped, session>>

(* FeedbackService::start_pass takes all that waits, one pass at a time *)
StartPass ==
    /\ In({"running"}) = {}
    /\ In({"pending"}) # {}
    /\ thread' = [n \in Seq1 |->
                     IF n \notin In({"pending"}) THEN thread[n]
                     ELSE [thread[n] EXCEPT !.state = "running", !.pass = Max({thread[m].pass : m \in Seq1}) + 1]]
    /\ UNCHANGED <<task, description, wrapped, session>>

-----------------------------------------------------------------------------
(* What a session does *)

(* FeedbackService::reply, whole or not at all *)
Reply(seqs) ==
    /\ seqs # {}
    /\ \A n \in seqs : Open(n)
    /\ thread' = [n \in Seq1 |-> IF n \in seqs THEN [thread[n] EXCEPT !.state = "applied"] ELSE thread[n]]
    /\ UNCHANGED <<task, description, wrapped, session>>

SessionAt(x, at) == session' = [session EXCEPT ![x].at = at]

(* On the task alone, or on one of its released steps *)
OpenSession(x, onStep) ==
    /\ session[x].at = "away"
    /\ onStep => ~ReviewActive
    /\ session' = [session EXCEPT ![x] = [at |-> "opened", step |-> onStep]]
    /\ UNCHANGED <<task, description, thread, wrapped>>

(* mark_running: the line for a session on the task alone, else the step *)
MarkSession(x) ==
    /\ session[x].at = "opened"
    /\ SessionAt(x, "live")
    /\ IF session[x].step THEN UNCHANGED <<review, touched>> ELSE SessionRunning(TRUE)
    /\ UNCHANGED <<checklist, status, clock, entries, description, thread, wrapped>>

(* close or exit takes it off the register before the release *)
EndSession(x) ==
    /\ session[x].at = "live"
    /\ SessionAt(x, "ended")
    /\ UNCHANGED <<task, description, thread, wrapped>>

(* release_running, first transaction *)
ReleaseLine(x) ==
    /\ session[x].at = "ended"
    /\ IF session[x].step
       THEN session' = [session EXCEPT ![x] = Away] /\ UNCHANGED <<review, touched>>
       ELSE SessionAt(x, "giving") /\ SessionRunning(FALSE)
    /\ UNCHANGED <<checklist, status, clock, entries, description, thread, wrapped>>

(* Mutant: everything that was in the pass is given back, answered or not *)
GiveBackAnswered(x) ==
    /\ session[x].at = "giving"
    /\ thread' = [n \in Seq1 |-> IF thread[n].pass > 0 THEN [thread[n] EXCEPT !.state = "pending", !.pass = 0] ELSE thread[n]]
    /\ session' = [session EXCEPT ![x] = Away]
    /\ UNCHANGED <<task, description, wrapped>>

(* release_running, second transaction: FeedbackService::release_running *)
GiveBack(x) ==
    /\ session[x].at = "giving"
    /\ thread' = [n \in Seq1 |->
                     IF thread[n].state = "running"
                     THEN [thread[n] EXCEPT !.state = "pending", !.pass = 0] ELSE thread[n]]
    /\ session' = [session EXCEPT ![x] = Away]
    /\ UNCHANGED <<task, description, wrapped>>

(* A wrapup of the session, or its deletion by the person; see Wrapup *)
WrapupLands ==
    /\ wrapped' = TRUE
    /\ Saves(ClaimedByWrapup)
    /\ UNCHANGED <<checklist, status, clock, entries, description, thread, session>>

WrapupDeleted ==
    /\ wrapped /\ wrapped' = FALSE
    /\ UNCHANGED <<task, description, thread, session>>

-----------------------------------------------------------------------------

ThreadInit ==
    /\ LineInit
    /\ description \in Text \cup {Blank}
    /\ thread = [n \in Seq1 |-> NoTalk]
    /\ wrapped = FALSE
    /\ session = [x \in Session |-> Away]

PersonWrites ==
    \/ \E kind \in {"work", "plan"}, follows \in 0 .. MaxSeq : AddFeedback(kind, follows)
    \/ \E n \in Seq1 : DeleteFeedback(n) \/ DiscardRevision(n)
    \/ \E after \in Text \cup {Blank} : UpdateDescription(after)
    \/ StartPass \/ WrapupDeleted

MarkerNext == \E x \in Session : MarkSession(x) \/ ReleaseLine(x) \/ GiveBack(x)

SessionActs ==
    \/ \E x \in Session : EndSession(x) \/ \E onStep \in BOOLEAN : OpenSession(x, onStep)
    \/ \E seqs \in SUBSET Seq1 : Reply(seqs)
    \/ WrapupLands

ThreadNext ==
    \/ PersonWrites \/ SessionActs \/ MarkerNext
    \/ ConsoleNext /\ UNCHANGED <<description, thread, wrapped, session>>

ThreadSpec == ThreadInit /\ [][ThreadNext]_threads

-----------------------------------------------------------------------------

(* The entries and the sessions have their types.                             *)
ThreadTypeOK ==
    /\ LineTypeOK
    /\ description \in Text \cup {Blank}
    /\ thread \in [Seq1 -> Feedback]
    /\ wrapped \in BOOLEAN
    /\ session \in [Session -> [at : {"away", "opened", "live", "ended", "giving"}, step : BOOLEAN]]

(* The entry a detail continues, named by its number, is still that entry: it *)
(* comes before, it is applied, and numbers freed by deletion never reuse it. *)
FollowsApplied ==
    \A n \in Seq1 : thread[n].follows # 0 => thread[n].follows < n /\ thread[thread[n].follows].state = "applied"

(* A pass is a pass: what runs shares one number, the highest ever kept, so a *)
(* session never finds entries of two passes in hand, whatever was given back *)
(* by sessions that ended and taken again.                                    *)
OnePass ==
    \A n \in In({"running"}) :
        /\ thread[n].pass > 0
        /\ \A m \in Seq1 : thread[m].pass <= thread[n].pass
        /\ \A m \in In({"pending"}) : thread[m].pass = 0

(* An applied entry is sealed: no reply, pass, edit of the description, end   *)
(* of a session or deletion changes it.                                       *)
AppliedIsSealed ==
    \A n \in Seq1 : thread[n].state = "applied" => thread'[n] = thread[n]

(* A waiting revision leaves the thread only with its earlier text back in    *)
(* the description, and further edits never change the text it would restore. *)
RevisionKeepsEarlierText ==
    \A n \in Seq1 :
       thread[n].kind = "revision" /\ thread[n].state = "pending" =>
           IF thread'[n] = NoTalk THEN description' = thread[n].quoted
           ELSE thread'[n].quoted = thread[n].quoted

(* The task with its line, its timers and its thread, through every sequence  *)
(* of calls and ends of sessions.                                             *)
ThreadInv == ThreadTypeOK /\ LineMoments /\ OneRunningTimer /\ FollowsApplied /\ OnePass

(* What no step does to the line, the timers and the thread: accept a claim   *)
(* with the timer on, change an applied entry, lose a revision's text.        *)
ThreadKeeps == [][AcceptedClaimStopsTimer /\ AppliedIsSealed /\ RevisionKeepsEarlierText]_threads
=============================================================================
