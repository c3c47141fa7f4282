------------------------------ MODULE TaskProofs ------------------------------
(***************************************************************************)
(* Proofs about one task: its review line and timers, the thread under its *)
(* description, and its wrapup.  The timers are proved beside the thread   *)
(* and the wrapup, all their steps interleaved.                            *)
(***************************************************************************)
EXTENDS TaskThread, Wrapup, FiniteSetTheorems, SequenceTheorems, TLAPS

USE Zenon

-----------------------------------------------------------------------------
(* Counting *)

(* A function to the naturals takes its greatest value somewhere on a finite  *)
(* set.                                                                       *)
LEMMA GreatestValue ==
    ASSUME NEW S, IsFiniteSet(S), S # {}, NEW f, \A x \in S : f[x] \in Nat
    PROVE  \E x \in S : \A y \in S : f[y] <= f[x]
<1>. DEFINE R == StrictSubsetOrdering(S)
            above(x) == {y \in S : f[y] > f[x]}
            U == {above(x) : x \in S}
<1>1. IsWellFoundedOn(R, FiniteSubsetsOf(S))
  BY FS_StrictSubsetOrderingWellFounded
<1>2. U \subseteq FiniteSubsetsOf(S) /\ U # {}
  <2>1. FiniteSubsetsOf(S) = SUBSET S
    BY FS_FiniteSubsetsOfFinite
  <2>2. U \subseteq SUBSET S /\ U # {}
    OBVIOUS
  <2>. HIDE DEF U
  <2>. QED  BY <2>1, <2>2
<1>3. PICK I \in U : \A J \in U : ~(<<J, I>> \in R)
  <2>. HIDE DEF R, U
  <2>. QED  BY <1>1, <1>2, WFMin
<1>4. PICK x \in S : I = above(x)
  BY <1>3
<1>5. ASSUME NEW y \in S, ~(f[y] <= f[x]) PROVE FALSE
  <2>1. y \in above(x) /\ y \notin above(y) /\ above(y) \subseteq above(x) /\ above(x) \subseteq S
    BY <1>5, SMTT(60)
  <2>2. <<above(y), above(x)>> \in R
    BY <2>1 DEF StrictSubsetOrdering
  <2>. QED  BY <1>3, <1>4, <2>2
<1>. QED  BY <1>5

(* A set of naturals that has a bound and is not empty has a greatest member. *)
LEMMA GreatestOf ==
    ASSUME NEW n \in Nat, NEW T \in SUBSET Nat, T # {}, \A i \in T : i <= n
    PROVE  \E i \in T : \A j \in T : j <= i
<1>1. IsFiniteSet(0 .. n) /\ T \subseteq 0 .. n
  BY FS_Interval, SMTT(60)
<1>2. IsFiniteSet(T)
  BY <1>1, FS_Subset
<1>3. PICK f : f = [i \in T |-> i]
  OBVIOUS
<1>4. \A i \in T : f[i] = i /\ f[i] \in Nat
  BY <1>3
<1>5. PICK i \in T : \A j \in T : f[j] <= f[i]
  BY <1>2, <1>4, GreatestValue
<1>. QED  BY <1>4, <1>5

-----------------------------------------------------------------------------
(* The line and the timers *)

(* The rows a review line may be: each state has its moments                     *)
LineRows ==
    {[state |-> "open", claimed |-> FALSE, accepted |-> FALSE, auto |-> FALSE],
     [state |-> "running", claimed |-> FALSE, accepted |-> FALSE, auto |-> FALSE],
     [state |-> "claimed", claimed |-> TRUE, accepted |-> FALSE, auto |-> FALSE],
     [state |-> "done", claimed |-> TRUE, accepted |-> TRUE, auto |-> FALSE],
     [state |-> "done", claimed |-> TRUE, accepted |-> TRUE, auto |-> TRUE]}

ReviewHolds ==
    /\ checklist \in Stages /\ status \in {"todo", "done"}
    /\ review \in LineRows
    /\ clock \in 0 .. MaxTime /\ touched \in 0 .. clock

TimersHold ==
    /\ entries \in [Entry -> TimeEntry]
    /\ \A e, g \in Entry : IsRunning(e) /\ IsRunning(g) => e = g

(* mark_review_state: the row of the state asked for.                            *)
LEMMA MarkedLine ==
  ASSUME NEW r \in LineRows, NEW next \in {"open", "running", "claimed", "done"}
  PROVE  Marked(r, next) \in LineRows /\ Marked(r, next).state = next
<1>1. CASE r.state = next
  BY <1>1 DEF Marked
<1>2. CASE r.state # next
  <2>1. CASE next \in {"open", "running"}
    <3>1. (next \in {"claimed", "done"}) = FALSE /\ (next = "done") = FALSE
      BY <2>1, SMTT(60)
    <3>2. Marked(r, next) = [state |-> next, claimed |-> FALSE, accepted |-> FALSE, auto |-> FALSE]
      BY <1>2, <3>1 DEF Marked
    <3>3. CASE next = "open"
      BY <3>2, <3>3, SMTT(60) DEF LineRows
    <3>4. CASE next = "running"
      BY <3>2, <3>4, SMTT(60) DEF LineRows
    <3>. QED  BY <2>1, <3>3, <3>4
  <2>2. CASE next = "claimed"
    <3>1. (next \in {"claimed", "done"}) = TRUE /\ (next = "done") = FALSE
      BY <2>2
    <3>2. Marked(r, next) = [state |-> next, claimed |-> TRUE, accepted |-> FALSE, auto |-> FALSE]
      BY <1>2, <3>1 DEF Marked
    <3>. QED  BY <2>2, <3>2, SMTT(60) DEF LineRows
  <2>3. CASE next = "done"
    <3>1. (next \in {"claimed", "done"}) = TRUE /\ (next = "done") = TRUE
      BY <2>3
    <3>2. Marked(r, next) = [state |-> next, claimed |-> TRUE, accepted |-> TRUE, auto |-> FALSE]
      BY <1>2, <3>1 DEF Marked
    <3>. QED  BY <2>3, <3>2, SMTT(60) DEF LineRows
  <2>. QED  BY <2>1, <2>2, <2>3
<1>. QED  BY <1>1, <1>2

(* What the rows say of a line and its moments.                                  *)
LEMMA LineRowsHold ==
  ASSUME NEW r \in LineRows
  PROVE  /\ r \in ReviewLine
         /\ r.claimed = (r.state \in {"claimed", "done"})
         /\ r.accepted = (r.state = "done")
         /\ r.auto => r.state = "done"
<1>1. r \in ReviewLine
  <2>1. \A state \in {"open", "running", "claimed", "done"}, claimed, accepted, auto \in BOOLEAN :
           [state |-> state, claimed |-> claimed, accepted |-> accepted, auto |-> auto] \in ReviewLine
    BY DEF ReviewLine
  <2>. QED  BY <2>1 DEF LineRows
<1>2. CASE r.state \in {"open", "running"}
  <2>1. r.claimed = FALSE /\ r.accepted = FALSE /\ r.auto = FALSE
    BY <1>2, SMTT(60) DEF LineRows
  <2>2. (r.state \in {"claimed", "done"}) = FALSE /\ (r.state = "done") = FALSE
    BY <1>2, SMTT(60)
  <2>. QED  BY <1>1, <2>1, <2>2
<1>3. CASE r.state = "claimed"
  <2>1. r.claimed = TRUE /\ r.accepted = FALSE /\ r.auto = FALSE
    BY <1>3, SMTT(60) DEF LineRows
  <2>2. (r.state \in {"claimed", "done"}) = TRUE /\ (r.state = "done") = FALSE
    BY <1>3
  <2>. QED  BY <1>1, <2>1, <2>2
<1>4. CASE r.state = "done"
  <2>1. r.claimed = TRUE /\ r.accepted = TRUE
    BY <1>4, SMTT(60) DEF LineRows
  <2>2. (r.state \in {"claimed", "done"}) = TRUE /\ (r.state = "done") = TRUE
    BY <1>4
  <2>. QED  BY <1>1, <1>4, <2>1, <2>2
<1>. QED  BY <1>2, <1>3, <1>4, SMTT(60) DEF LineRows

(* The line and the timers are what a task promises.                             *)
LEMMA LineIsSound ==
  ASSUME ReviewHolds, TimersHold
  PROVE  LineTypeOK /\ LineMoments /\ OneRunningTimer
<1>1. LineTypeOK
  BY LineRowsHold DEF ReviewHolds, TimersHold, LineTypeOK
<1>2. LineMoments
  BY LineRowsHold DEF ReviewHolds, LineMoments
<1>3. PICK R : R = {e \in Entry : IsRunning(e)}
  OBVIOUS
<1>4. Cardinality(R) <= 1
  <2>1. CASE R = {}
    BY <2>1, FS_EmptySet, SMTT(60)
  <2>2. CASE R # {}
    <3>1. PICK e \in R : TRUE
      BY <2>2
    <3>2. R = {e}
      BY <1>3, <3>1 DEF TimersHold
    <3>3. Cardinality({e}) = 1
      BY FS_Singleton
    <3>. QED  BY <3>2, <3>3, SMTT(60)
  <2>. QED  BY <2>1, <2>2
<1>5. OneRunningTimer
  BY <1>3, <1>4 DEF OneRunningTimer
<1>. QED  BY <1>1, <1>2, <1>5

(* save_and_publish with a row of the line.                                      *)
LEMMA SavesHolds ==
  ASSUME ReviewHolds, NEW r \in LineRows, Saves(r), UNCHANGED <<checklist, status, clock>>
  PROVE  ReviewHolds'
<1>1. touched' \in 0 .. clock
  BY SMTT(60) DEF Saves, ReviewHolds
<1>. QED  BY <1>1 DEF Saves, ReviewHolds

(* stop_if_running_in: nothing runs any more.                                    *)
LEMMA StopHolds ==
  ASSUME TimersHold, clock \in 0 .. MaxTime, StopIfRunning
  PROVE  TimersHold' /\ \A e \in Entry : ~IsRunning(e)'
<1>1. \A e \in Entry : entries[e] \in TimeEntry
  BY DEF TimersHold
<1>2. ASSUME NEW row \in TimeEntry
      PROVE  /\ [row EXCEPT !.stop = clock, !.updated = clock] \in TimeEntry
             /\ [row EXCEPT !.stop = clock, !.updated = clock].stop = clock
  <2>1. clock \in 0 .. Running
    BY LineConstants, SMTT(60) DEF Running
  <2>. QED  BY <2>1 DEF TimeEntry
<1>3. clock # Running
  BY LineConstants, SMTT(60) DEF Running
<1>4. ASSUME NEW e \in Entry PROVE entries'[e] \in TimeEntry /\ ~(entries'[e].exists /\ entries'[e].stop = Running)
  <2>1. CASE IsRunning(e)
    <3>1. entries'[e] = [entries[e] EXCEPT !.stop = clock, !.updated = clock]
      BY <2>1 DEF StopIfRunning
    <3>. QED  BY <1>1, <1>2, <1>3, <3>1
  <2>2. CASE ~IsRunning(e)
    <3>1. entries'[e] = entries[e]
      BY <2>2 DEF StopIfRunning
    <3>. QED  BY <1>1, <2>2, <3>1 DEF IsRunning
  <2>. QED  BY <2>1, <2>2
<1>5. entries' \in [Entry -> TimeEntry]
  <2>1. entries' = [e \in Entry |-> entries'[e]]
    BY DEF StopIfRunning
  <2>. QED  BY <1>4, <2>1
<1>. QED  BY <1>4, <1>5 DEF TimersHold, IsRunning, Running

(* An entry is written that does not begin to run beside another.                *)
LEMMA EntryWritten ==
  ASSUME TimersHold, NEW e \in Entry, NEW row \in TimeEntry, entries' = [entries EXCEPT ![e] = row],
         row.exists /\ row.stop = Running => IsRunning(e) \/ \A g \in Entry : ~IsRunning(g)
  PROVE  TimersHold'
<1>1. entries' \in [Entry -> TimeEntry]
  BY DEF TimersHold
<1>2. \A g \in Entry : entries'[g] = IF g = e THEN row ELSE entries[g]
  BY DEF TimersHold
<1>3. \A g \in Entry : IsRunning(g)' => IsRunning(g) \/ (g = e /\ \A h \in Entry : ~IsRunning(h))
  BY <1>2 DEF IsRunning, Running
<1>. QED  BY <1>1, <1>3 DEF TimersHold

(* last_activity_in is a time that was.                                          *)
LEMMA ActivityWas ==
  ASSUME ReviewHolds, NEW row \in TimeEntry
  PROVE  Max({row.start, row.updated, touched}) \in 0 .. MaxTime
<1>. PICK T : T = {row.start, row.updated, touched}
  OBVIOUS
<1>1. T \in SUBSET Nat /\ T # {} /\ \A i \in T : i \in 0 .. MaxTime
  BY LineConstants, SMTT(60) DEF TimeEntry, ReviewHolds
<1>2. \E i \in T : \A j \in T : j <= i
  BY <1>1, LineConstants, GreatestOf, SMTT(60)
<1>3. Max(T) \in T
  BY <1>1, <1>2 DEF Max
<1>. QED  BY <1>1, <1>3

(* The service of time entries: one entry runs at most, whatever is edited.      *)
LEMMA TimersKeep ==
  ASSUME ReviewHolds, TimersHold, TimerNext
  PROVE  ReviewHolds' /\ TimersHold' /\ review' = review
<1>1. ASSUME NEW e \in Entry, StartTimer(e) PROVE ReviewHolds' /\ TimersHold' /\ review' = review
  <2>1. [start |-> clock, stop |-> Running, updated |-> clock, exists |-> TRUE] \in TimeEntry
    BY LineConstants, SMTT(60) DEF TimeEntry, Running, ReviewHolds
  <2>2. TimersHold'
    BY <1>1, <2>1, EntryWritten DEF StartTimer
  <2>. QED  BY <1>1, <2>2 DEF StartTimer, ReviewHolds
<1>2. ASSUME NEW e \in Entry, DeleteEntry(e) PROVE ReviewHolds' /\ TimersHold' /\ review' = review
  <2>1. NoEntry \in TimeEntry /\ NoEntry.exists = FALSE
    BY LineConstants, SMTT(60) DEF NoEntry, TimeEntry, Running
  <2>2. TimersHold'
    BY <1>2, <2>1, EntryWritten DEF DeleteEntry
  <2>. QED  BY <1>2, <2>2 DEF DeleteEntry, ReviewHolds
<1>3. ASSUME NEW e \in Entry, NEW start \in 0 .. Running, NEW stop \in 0 .. Running,
             EditEntry(e, start, stop), start < Running
      PROVE  ReviewHolds' /\ TimersHold' /\ review' = review
  <2>. PICK row : row = [entries[e] EXCEPT !.start = start, !.stop = stop, !.updated = clock]
    OBVIOUS
  <2>1. start \in 0 .. MaxTime /\ clock \in 0 .. MaxTime /\ entries[e] \in TimeEntry
    BY <1>3, LineConstants, SMTT(60) DEF Running, ReviewHolds, TimersHold
  <2>2. row \in TimeEntry /\ row.stop = stop
    BY <2>1 DEF TimeEntry
  <2>3. row.stop = Running => entries[e].exists /\ entries[e].stop = Running
    BY <1>3, <2>2 DEF EditEntry
  <2>4. entries' = [entries EXCEPT ![e] = row]
    BY <1>3 DEF EditEntry
  <2>5. TimersHold'
    BY <2>2, <2>3, <2>4, EntryWritten DEF IsRunning
  <2>. QED  BY <1>3, <2>5 DEF EditEntry, ReviewHolds
<1>4. CASE StopTimer \/ StopAllOnShutdown
  <2>1. TimersHold'
    BY <1>4, StopHolds DEF StopTimer, StopAllOnShutdown, ReviewHolds
  <2>. QED  BY <1>4, <2>1 DEF StopTimer, StopAllOnShutdown, ReviewHolds
<1>5. CASE StopIdle
  <2>1. ASSUME NEW e \in Entry PROVE entries'[e] \in TimeEntry /\ (IsRunning(e)' => IsRunning(e))
    <3>1. entries[e] \in TimeEntry
      BY DEF TimersHold
    <3>2. PICK t \in 0 .. MaxTime : t = LastActivity(e)
      BY <3>1, ActivityWas DEF LastActivity
    <3>3. clock \in 0 .. MaxTime
      BY DEF ReviewHolds
    <3>4. [entries[e] EXCEPT !.stop = t, !.updated = clock] \in TimeEntry
      <4>1. t \in 0 .. Running
        BY LineConstants, SMTT(60) DEF Running
      <4>. QED  BY <3>1, <3>3, <4>1 DEF TimeEntry
    <3>5. entries'[e] = entries[e] \/ (IsRunning(e) /\ entries'[e] = [entries[e] EXCEPT !.stop = t, !.updated = clock])
      BY <1>5, <3>2 DEF StopIdle
    <3>. QED  BY <3>1, <3>4, <3>5 DEF IsRunning, Running
  <2>2. entries' = [e \in Entry |-> entries'[e]]
    BY <1>5 DEF StopIdle
  <2>3. TimersHold'
    BY <2>1, <2>2 DEF TimersHold
  <2>. QED  BY <1>5, <2>3 DEF StopIdle, ReviewHolds
<1>6. CASE Tick
  BY <1>6, LineConstants, SMTT(60) DEF Tick, ReviewHolds, TimersHold, IsRunning
<1>7. ASSUME NEW next \in {"todo", "done"}, SetStatus(next) PROVE ReviewHolds' /\ TimersHold' /\ review' = review
  <2>1. ReviewHolds' /\ review' = review
    BY <1>7, SMTT(60) DEF SetStatus, Touch, ReviewHolds
  <2>2. CASE StopIfRunning
    BY <2>1, <2>2, StopHolds DEF ReviewHolds
  <2>3. CASE UNCHANGED entries
    BY <2>1, <2>3 DEF TimersHold, IsRunning, Running
  <2>. QED  BY <1>7, <2>1, <2>2, <2>3 DEF SetStatus
<1>. QED  BY <1>1, <1>2, <1>3, <1>4, <1>5, <1>6, <1>7 DEF TimerNext

(* The console's review keeps line and timers, and accepts a claim only with     *)
(* the timer off.                                                                *)
LEMMA ConsoleHolds ==
  ASSUME ReviewHolds, TimersHold, ConsoleNext
  PROVE  ReviewHolds' /\ TimersHold' /\ AcceptedClaimStopsTimer
<1>0. UNCHANGED entries => TimersHold'
  BY DEF TimersHold, IsRunning, Running
<1>1. CASE Accept
  <2>1. Marked(review, "done") \in LineRows
    BY MarkedLine DEF ReviewHolds
  <2>2. ReviewHolds'
    BY <1>1, <2>1, SavesHolds DEF Accept
  <2>3. CASE review.state = "claimed"
    <3>1. StopIfRunning
      BY <1>1, <2>3 DEF Accept
    <3>2. TimersHold' /\ \A e \in Entry : ~IsRunning(e)'
      BY <3>1, StopHolds DEF ReviewHolds
    <3>. QED  BY <2>2, <3>2 DEF AcceptedClaimStopsTimer, IsRunning, Running
  <2>4. CASE review.state # "claimed"
    <3>1. UNCHANGED entries
      BY <1>1, <2>4 DEF Accept
    <3>. QED  BY <1>0, <2>2, <2>4, <3>1 DEF AcceptedClaimStopsTimer
  <2>. QED  BY <2>3, <2>4
<1>2. CASE SendBackTask
  <2>1. Marked(review, "open") \in LineRows /\ Marked(review, "open").state = "open"
    BY MarkedLine DEF ReviewHolds
  <2>2. ReviewHolds'
    BY <1>2, <2>1, SavesHolds DEF SendBackTask, SendBackLine
  <2>3. review'.state = "open"
    BY <1>2, <2>1 DEF SendBackTask, SendBackLine, Saves
  <2>. QED  BY <1>0, <1>2, <2>2, <2>3 DEF SendBackTask, AcceptedClaimStopsTimer
<1>3. CASE AcceptStep
  <2>1. TimersHold'
    BY <1>3, StopHolds DEF AcceptStep, ReviewHolds
  <2>. QED  BY <1>3, <2>1, SMTT(60) DEF AcceptStep, Touch, ReviewHolds, AcceptedClaimStopsTimer
<1>4. ASSUME NEW stage \in Stages, Checklist(stage) PROVE ReviewHolds' /\ TimersHold' /\ AcceptedClaimStopsTimer
  BY <1>0, <1>4, SMTT(60) DEF Checklist, Touch, ReviewHolds, AcceptedClaimStopsTimer
<1>. QED  BY <1>1, <1>2, <1>3, <1>4 DEF ConsoleNext

(* claimed_by_wrapup_in: a row of the line, and never an accepted one.           *)
LEMMA WrapupClaims ==
  ASSUME ReviewHolds
  PROVE  /\ ClaimedByWrapup \in LineRows
         /\ ClaimedByWrapup.state # review.state => ClaimedByWrapup.state = "claimed" /\ review.state # "claimed"
<1>1. review \in LineRows
  BY DEF ReviewHolds
<1>2. CASE ReviewActive /\ review.state \in {"open", "running"}
  <2>1. ClaimedByWrapup = Marked(review, "claimed")
    BY <1>2 DEF ClaimedByWrapup
  <2>. QED  BY <1>1, <1>2, <2>1, MarkedLine
<1>3. CASE ~(ReviewActive /\ review.state \in {"open", "running"})
  <2>1. ClaimedByWrapup = review
    BY <1>3 DEF ClaimedByWrapup
  <2>. QED  BY <1>1, <2>1
<1>. QED  BY <1>2, <1>3

-----------------------------------------------------------------------------
(* The thread *)

(* The thread and the timers together: people track time while the thread grows  *)
TaskNext == ThreadNext \/ (TimerNext /\ UNCHANGED <<description, thread, wrapped, session>>)
TaskSpec == ThreadInit /\ [][TaskNext]_threads

SessionRow == [at : {"away", "opened", "live", "ended", "giving"}, step : BOOLEAN]

(* OnePass is kept because what waits is in no pass                              *)
WaitsInNoPass == \A n \in In({"pending"}) : thread[n].pass = 0

EntriesHold == thread \in [Seq1 -> Feedback] /\ FollowsApplied /\ OnePass /\ WaitsInNoPass

TaskHolds ==
    /\ ReviewHolds /\ TimersHold /\ EntriesHold
    /\ description \in Text \cup {Blank}
    /\ wrapped \in BOOLEAN
    /\ session \in [Session -> SessionRow]

(* What a step leaves of the thread: applied entries, the earlier text           *)
EntriesKeep == AppliedIsSealed /\ RevisionKeepsEarlierText

(* The fields of an entry.                                                       *)
LEMMA EntryFields ==
  ASSUME EntriesHold, NEW n \in Seq1
  PROVE  /\ thread[n] \in Feedback
         /\ thread[n].kind \in Kinds \cup {"none"}
         /\ thread[n].state \in {"none", "pending", "running", "applied"}
         /\ thread[n].quoted \in Text \cup {Blank} /\ thread[n].body \in Text \cup {Blank}
         /\ thread[n].pass \in Nat /\ thread[n].follows \in 0 .. MaxSeq
  BY DEF EntriesHold, Feedback

(* The row of a number nobody uses.                                              *)
LEMMA NoTalkRow ==
  NoTalk \in Feedback /\ NoTalk.state = "none" /\ NoTalk.kind = "none" /\ NoTalk.pass = 0 /\ NoTalk.follows = 0
  BY ThreadConstants, SMTT(60) DEF NoTalk, Feedback, Kinds

(* next_seq is past every entry.                                                 *)
LEMMA NextSeqIsFree ==
  ASSUME EntriesHold
  PROVE  /\ NextSeq \in Nat
         /\ \A n \in Seq1 : thread[n].state # "none" => n < NextSeq
         /\ NextSeq \in Seq1 => thread[NextSeq].state = "none"
<1>a. PICK T : T = {0} \cup In({"pending", "running", "applied"})
  OBVIOUS
<1>1. T \in SUBSET Nat /\ T # {} /\ \A i \in T : i <= MaxSeq
  <2>1. \A i \in In({"pending", "running", "applied"}) : i \in 1 .. MaxSeq
    BY DEF In, Seq1
  <2>. QED  BY <1>a, <2>1, ThreadConstants, SMTT(60)
<1>0. MaxSeq \in Nat
  BY ThreadConstants
<1>2. \E i \in T : \A j \in T : j <= i
  BY <1>0, <1>1, GreatestOf
<1>3. PICK top \in Nat : top = Max(T) /\ \A j \in T : j <= top
  <2>1. Max(T) \in T /\ \A j \in T : j <= Max(T)
    BY <1>1, <1>2 DEF Max
  <2>. QED  BY <1>1, <2>1
<1>4. NextSeq = top + 1
  BY <1>a, <1>3 DEF NextSeq
<1>5. \A n \in Seq1 : thread[n].state # "none" => n \in T
  BY <1>a, EntryFields DEF In
<1>6. \A n \in Seq1 : thread[n].state # "none" => n < NextSeq
  BY <1>3, <1>4, <1>5, SMTT(60) DEF Seq1
<1>7. NextSeq \in Nat
  BY <1>3, <1>4, SMTT(60)
<1>. QED  BY <1>6, <1>7, SMTT(60)

(* Steps that start no pass: the entries hold when the applied ones stay, what   *)
(* is in a pass was in it, and a new detail continues an applied entry.          *)
LEMMA EntriesStay ==
  ASSUME EntriesHold, thread' \in [Seq1 -> Feedback],
         \A n \in Seq1 :
            /\ thread[n].state = "applied" => thread'[n] = thread[n]
            /\ \/ thread'[n].follows \in {0, thread[n].follows}
               \/ thread'[n].follows < n /\ thread'[n].follows \in Seq1 /\ thread[thread'[n].follows].state = "applied"
            /\ thread'[n].pass <= thread[n].pass
            /\ thread'[n].state = "running" => thread[n].state = "running" /\ thread'[n].pass = thread[n].pass
            /\ thread'[n].state = "pending" => thread'[n].pass = 0
  PROVE  EntriesHold'
<1>1. WaitsInNoPass'
  BY DEF WaitsInNoPass, In, Seq1
<1>2. FollowsApplied'
  <2>. SUFFICES ASSUME NEW n \in Seq1, thread'[n].follows # 0
                PROVE  thread'[n].follows < n /\ thread'[thread'[n].follows].state = "applied"
    BY DEF FollowsApplied, Seq1
  <2>1. PICK k : k = thread'[n].follows
    OBVIOUS
  <2>2. k < n /\ k \in Seq1 /\ thread[k].state = "applied"
    <3>1. CASE k = thread[n].follows
      BY <2>1, <3>1, EntryFields, SMTT(60) DEF EntriesHold, FollowsApplied, Seq1
    <3>2. CASE k # thread[n].follows
      BY <2>1, <3>2
    <3>. QED  BY <3>1, <3>2
  <2>. QED  BY <2>1, <2>2
<1>3. OnePass'
  <2>. SUFFICES ASSUME NEW n \in Seq1, thread'[n].state = "running"
                PROVE  /\ thread'[n].pass > 0
                       /\ \A m \in Seq1 : thread'[m].pass <= thread'[n].pass
                       /\ \A m \in Seq1 : thread'[m].state = "pending" => thread'[m].pass = 0
    BY DEF OnePass, In, Seq1
  <2>1. thread[n].state = "running" /\ thread'[n].pass = thread[n].pass
    OBVIOUS
  <2>2. thread[n].pass > 0 /\ \A m \in Seq1 : thread[m].pass <= thread[n].pass
    BY <2>1 DEF EntriesHold, OnePass, In
  <2>3. \A m \in Seq1 : thread'[m].pass \in Nat /\ thread[m].pass \in Nat
    BY EntryFields DEF Feedback
  <2>. QED  BY <2>1, <2>2, <2>3, SMTT(60)
<1>. QED  BY <1>1, <1>2, <1>3 DEF EntriesHold, Seq1

(* One entry is written over one that was not applied.                           *)
LEMMA EntryPut ==
  ASSUME EntriesHold, NEW n \in Seq1, thread[n].state # "applied", NEW row \in Feedback,
         thread' = [thread EXCEPT ![n] = row],
         \/ row.follows \in {0, thread[n].follows}
         \/ row.follows < n /\ row.follows \in Seq1 /\ thread[row.follows].state = "applied",
         row.pass = 0, row.state # "running"
  PROVE  /\ EntriesHold' /\ AppliedIsSealed
         /\ thread'[n] = row /\ \A m \in Seq1 : m # n => thread'[m] = thread[m]
<1>1. thread' \in [Seq1 -> Feedback] /\ \A m \in Seq1 : thread'[m] = IF m = n THEN row ELSE thread[m]
  BY DEF EntriesHold
<1>2. \A m \in Seq1 : thread[m].pass \in Nat
  BY EntryFields
<1>3. \A m \in Seq1 : thread[m].state = "pending" => thread[m].pass = 0
  BY DEF EntriesHold, WaitsInNoPass, In
<1>4. \A m \in Seq1 :
         /\ thread[m].state = "applied" => thread'[m] = thread[m]
         /\ \/ thread'[m].follows \in {0, thread[m].follows}
            \/ thread'[m].follows < m /\ thread'[m].follows \in Seq1 /\ thread[thread'[m].follows].state = "applied"
         /\ thread'[m].pass <= thread[m].pass
         /\ thread'[m].state = "running" => thread[m].state = "running" /\ thread'[m].pass = thread[m].pass
         /\ thread'[m].state = "pending" => thread'[m].pass = 0
  BY <1>1, <1>2, <1>3, SMTT(60)
<1>5. EntriesHold'
  BY <1>1, <1>4, EntriesStay
<1>. QED  BY <1>1, <1>5 DEF AppliedIsSealed

(* A step that leaves the thread.                                                *)
LEMMA ThreadStays ==
  ASSUME EntriesHold, UNCHANGED thread
  PROVE  EntriesHold' /\ EntriesKeep
<1>1. EntriesHold'
  BY DEF EntriesHold, FollowsApplied, OnePass, WaitsInNoPass, In, Seq1, Feedback
<1>2. \A n \in Seq1 : thread[n].kind = "revision" => thread[n] # NoTalk
  BY NoTalkRow
<1>. QED  BY <1>1, <1>2 DEF EntriesKeep, AppliedIsSealed, RevisionKeepsEarlierText

(* FeedbackService::add and a revision: a new entry at a free number.            *)
LEMMA EntryAdded ==
  ASSUME EntriesHold, NextSeq \in Seq1, NEW kind \in Kinds, NEW quoted \in Text \cup {Blank},
         NEW body \in Text \cup {Blank}, NEW follows \in 0 .. MaxSeq, follows # 0 => thread[follows].state = "applied",
         thread' = [thread EXCEPT ![NextSeq] = NewEntry(kind, quoted, body, follows)]
  PROVE  EntriesHold' /\ EntriesKeep
<1>1. PICK n \in Seq1 : n = NextSeq
  OBVIOUS
<1>2. thread[n].state = "none" /\ \A m \in Seq1 : thread[m].state # "none" => m < n
  BY <1>1, NextSeqIsFree
<1>3. PICK row : row = NewEntry(kind, quoted, body, follows)
  OBVIOUS
<1>4. row \in Feedback /\ row.follows = follows /\ row.pass = 0 /\ row.state = "pending"
  BY <1>3 DEF NewEntry, Feedback
<1>5. follows = 0 \/ (follows < n /\ follows \in Seq1 /\ thread[follows].state = "applied")
  BY <1>2, ThreadConstants, SMTT(60) DEF Seq1
<1>6. /\ EntriesHold' /\ AppliedIsSealed
      /\ thread'[n] = row /\ \A m \in Seq1 : m # n => thread'[m] = thread[m]
  <2>1. thread' = [thread EXCEPT ![n] = row]
    BY <1>1, <1>3
  <2>2. \/ row.follows \in {0, thread[n].follows}
        \/ row.follows < n /\ row.follows \in Seq1 /\ thread[row.follows].state = "applied"
    BY <1>4, <1>5
  <2>. QED  BY <1>2, <1>4, <2>1, <2>2, EntryPut
<1>7. RevisionKeepsEarlierText
  <2>1. \A m \in Seq1 : thread[m].kind = "revision" => thread[m] # NoTalk
    BY NoTalkRow
  <2>. QED  BY <1>2, <1>6, <2>1 DEF RevisionKeepsEarlierText
<1>. QED  BY <1>6, <1>7 DEF EntriesKeep

(* Deleting an entry and discarding a revision: the number is free again.        *)
LEMMA EntryDropped ==
  ASSUME EntriesHold, NEW n \in Seq1, thread[n].state = "pending", thread' = [thread EXCEPT ![n] = NoTalk],
         thread[n].kind = "revision" => description' = thread[n].quoted
  PROVE  EntriesHold' /\ EntriesKeep
<1>1. /\ EntriesHold' /\ AppliedIsSealed
      /\ thread'[n] = NoTalk /\ \A m \in Seq1 : m # n => thread'[m] = thread[m]
  BY NoTalkRow, EntryPut
<1>2. \A m \in Seq1 : thread[m].kind = "revision" => thread[m] # NoTalk
  BY NoTalkRow
<1>. QED  BY <1>1, <1>2 DEF EntriesKeep, RevisionKeepsEarlierText

(* latest_open_revision is a revision that waits.                                *)
LEMMA LatestIsOpen ==
  ASSUME EntriesHold, LatestOpenRevision # 0
  PROVE  /\ LatestOpenRevision \in Seq1
         /\ thread[LatestOpenRevision].state = "pending" /\ thread[LatestOpenRevision].kind = "revision"
<1>a. PICK T : T = {0} \cup {n \in In({"pending"}) : thread[n].kind = "revision"}
  OBVIOUS
<1>1. T \in SUBSET Nat /\ T # {} /\ \A i \in T : i <= MaxSeq
  <2>1. \A i \in In({"pending"}) : i \in 1 .. MaxSeq
    BY DEF In, Seq1
  <2>. QED  BY <1>a, <2>1, ThreadConstants, SMTT(60)
<1>0. MaxSeq \in Nat
  BY ThreadConstants
<1>2. \E i \in T : \A j \in T : j <= i
  BY <1>0, <1>1, GreatestOf
<1>3. Max(T) \in T
  BY <1>2 DEF Max
<1>4. LatestOpenRevision \in T
  BY <1>a, <1>3 DEF LatestOpenRevision
<1>. QED  BY <1>a, <1>4 DEF In

(* decide and track_description_in: every way a save of the description goes.    *)
LEMMA TrackHolds ==
  ASSUME EntriesHold, description \in Text \cup {Blank}, NEW after \in Text \cup {Blank},
         description' = after, TrackDescription(after)
  PROVE  EntriesHold' /\ EntriesKeep
<1>1. CASE UNCHANGED thread
  BY <1>1, ThreadStays
<1>2. CASE NextSeq \in Seq1 /\ thread' = [thread EXCEPT ![NextSeq] = NewEntry("revision", description, after, 0)]
  <2>1. "revision" \in Kinds /\ 0 \in 0 .. MaxSeq
    BY ThreadConstants, SMTT(60) DEF Kinds
  <2>. QED  BY <1>2, <2>1, EntryAdded
<1>3. ASSUME NEW open \in Seq1, thread[open].state = "pending", thread[open].kind = "revision",
             thread[open].quoted = after, thread' = [thread EXCEPT ![open] = NoTalk]
      PROVE  EntriesHold' /\ EntriesKeep
  BY <1>3, EntryDropped
<1>4. ASSUME NEW open \in Seq1, thread[open].state = "pending", thread[open].kind = "revision",
             thread' = [thread EXCEPT ![open].body = after]
      PROVE  EntriesHold' /\ EntriesKeep
  <2>1. PICK row : row = [thread[open] EXCEPT !.body = after]
    OBVIOUS
  <2>2. thread[open].pass = 0
    BY <1>4 DEF EntriesHold, WaitsInNoPass, In
  <2>3. /\ row \in Feedback /\ row.follows = thread[open].follows /\ row.pass = 0 /\ row.state = "pending"
        /\ row.quoted = thread[open].quoted /\ row.kind = "revision"
    BY <1>4, <2>1, <2>2, EntryFields DEF Feedback
  <2>4. thread' = [thread EXCEPT ![open] = row]
    BY <1>4, <2>1
  <2>5. /\ EntriesHold' /\ AppliedIsSealed
        /\ thread'[open] = row /\ \A m \in Seq1 : m # open => thread'[m] = thread[m]
    BY <1>4, <2>3, <2>4, EntryPut
  <2>6. \A m \in Seq1 : thread[m].kind = "revision" => thread[m] # NoTalk
    BY NoTalkRow
  <2>7. row # NoTalk
    BY <2>3, NoTalkRow
  <2>. QED  BY <2>3, <2>5, <2>6, <2>7 DEF EntriesKeep, RevisionKeepsEarlierText
<1>5. LatestOpenRevision # 0 =>
         /\ LatestOpenRevision \in Seq1
         /\ thread[LatestOpenRevision].state = "pending" /\ thread[LatestOpenRevision].kind = "revision"
  BY LatestIsOpen
<1>6. PICK open : open = LatestOpenRevision
  OBVIOUS
<1>7. \/ UNCHANGED thread
      \/ NextSeq \in Seq1 /\ thread' = [thread EXCEPT ![NextSeq] = NewEntry("revision", description, after, 0)]
      \/ open # 0 /\ thread[open].quoted = after /\ thread' = [thread EXCEPT ![open] = NoTalk]
      \/ open # 0 /\ thread' = [thread EXCEPT ![open].body = after]
  BY <1>6 DEF TrackDescription
<1>. QED  BY <1>1, <1>2, <1>3, <1>4, <1>5, <1>6, <1>7

(* start_pass: all that waits goes into one pass, numbered past all others.      *)
LEMMA PassHolds ==
  ASSUME EntriesHold, StartPass
  PROVE  EntriesHold' /\ EntriesKeep
<1>1. \A m \in Seq1 : thread[m].pass \in Nat
  BY EntryFields
<1>0. PICK first \in Seq1 : TRUE
  BY DEF StartPass, In
<1>2. PICK p \in Nat : p = Max({thread[m].pass : m \in Seq1}) + 1 /\ \A m \in Seq1 : thread[m].pass < p
  <2>1. IsFiniteSet(Seq1)
    BY FS_Interval, ThreadConstants, SMTT(60) DEF Seq1
  <2>2. PICK f : f = [m \in Seq1 |-> thread[m].pass]
    OBVIOUS
  <2>3. \A m \in Seq1 : f[m] \in Nat
    BY <1>1, <2>2
  <2>4. PICK m \in Seq1 : \A k \in Seq1 : f[k] <= f[m]
    BY <1>0, <2>1, <2>3, GreatestValue
  <2>5. PICK T : T = {thread[k].pass : k \in Seq1}
    OBVIOUS
  <2>6. thread[m].pass \in T /\ \A j \in T : j <= thread[m].pass
    BY <2>2, <2>4, <2>5
  <2>7. Max(T) \in T /\ \A j \in T : j <= Max(T)
    BY <2>6 DEF Max
  <2>8. Max(T) \in Nat /\ \A k \in Seq1 : thread[k].pass <= Max(T)
    BY <1>1, <2>5, <2>7
  <2>9. Max(T) + 1 \in Nat /\ \A k \in Seq1 : thread[k].pass < Max(T) + 1
    BY <1>1, <2>8, SMTT(60)
  <2>. QED  BY <2>5, <2>9
<1>4. ASSUME NEW n \in Seq1, thread[n].state = "pending"
      PROVE  /\ thread'[n] \in Feedback /\ thread'[n].state = "running" /\ thread'[n].pass = p
             /\ thread'[n].follows = thread[n].follows /\ thread'[n].kind = thread[n].kind
             /\ thread'[n].quoted = thread[n].quoted
  <2>1. thread'[n] = [thread[n] EXCEPT !.state = "running", !.pass = p]
    BY <1>2, <1>4 DEF StartPass, In
  <2>2. thread[n] \in Feedback
    BY EntryFields
  <2>. QED  BY <2>1, <2>2 DEF Feedback
<1>5. ASSUME NEW n \in Seq1, thread[n].state # "pending" PROVE thread'[n] = thread[n]
  BY <1>5 DEF StartPass, In
<1>6. thread' \in [Seq1 -> Feedback]
  <2>1. thread' = [n \in Seq1 |-> thread'[n]]
    BY DEF StartPass
  <2>. QED  BY <1>4, <1>5, <2>1, EntryFields
<1>7. \A n \in Seq1 : thread'[n].state # "pending" /\ (thread'[n].state = "running" => thread'[n].pass = p)
  BY <1>4, <1>5 DEF StartPass, In
<1>8. OnePass' /\ WaitsInNoPass'
  <2>1. \A n \in Seq1 : thread'[n].pass \in Nat /\ thread'[n].pass <= p
    <3>. TAKE n \in Seq1
    <3>1. CASE thread[n].state = "pending"
      BY <1>2, <1>4, <3>1, SMTT(60)
    <3>2. CASE thread[n].state # "pending"
      <4>1. thread[n].pass \in Nat /\ thread[n].pass < p /\ p \in Nat
        BY <1>1, <1>2
      <4>2. thread'[n].pass = thread[n].pass
        BY <1>5, <3>2
      <4>. QED  BY <4>1, <4>2, SMTT(60)
    <3>. QED  BY <3>1, <3>2
  <2>2. p > 0
    <3>1. thread[first].pass \in Nat /\ thread[first].pass < p
      BY <1>1, <1>2
    <3>. QED  BY <3>1, SMTT(60)
  <2>. QED  BY <1>7, <2>1, <2>2 DEF OnePass, WaitsInNoPass, In, Seq1
<1>9. FollowsApplied'
  <2>. SUFFICES ASSUME NEW n \in Seq1, thread'[n].follows # 0
                PROVE  thread'[n].follows < n /\ thread'[thread'[n].follows].state = "applied"
    BY DEF FollowsApplied, Seq1
  <2>1. PICK k : k = thread'[n].follows /\ k = thread[n].follows
    BY <1>4, <1>5
  <2>2. k < n /\ k \in Seq1 /\ thread[k].state = "applied"
    BY <2>1, EntryFields, SMTT(60) DEF EntriesHold, FollowsApplied, Seq1
  <2>. QED  BY <1>5, <2>1, <2>2
<1>10. EntriesKeep
  <2>1. \A n \in Seq1 : thread[n].state = "pending" => thread'[n] # NoTalk
    BY <1>4, NoTalkRow
  <2>2. AppliedIsSealed
    BY <1>5 DEF AppliedIsSealed
  <2>3. RevisionKeepsEarlierText
    BY <1>4, <2>1 DEF RevisionKeepsEarlierText
  <2>. QED  BY <2>2, <2>3 DEF EntriesKeep
<1>. QED  BY <1>6, <1>8, <1>9, <1>10 DEF EntriesHold, Seq1, Feedback

(* FeedbackService::reply: what is answered is applied, in its pass.             *)
LEMMA ReplyHolds ==
  ASSUME EntriesHold, NEW seqs \in SUBSET Seq1, Reply(seqs)
  PROVE  EntriesHold' /\ EntriesKeep
<1>2. ASSUME NEW n \in seqs
      PROVE  /\ thread'[n] \in Feedback /\ thread'[n].state = "applied" /\ thread'[n].pass = thread[n].pass
             /\ thread'[n].follows = thread[n].follows /\ thread'[n].kind = thread[n].kind
             /\ thread'[n].quoted = thread[n].quoted /\ thread[n].state # "applied"
  <2>1. thread'[n] = [thread[n] EXCEPT !.state = "applied"] /\ thread[n].state # "applied"
    BY <1>2 DEF Reply, Open
  <2>2. thread[n] \in Feedback
    BY EntryFields
  <2>. QED  BY <2>1, <2>2 DEF Feedback
<1>3. ASSUME NEW n \in Seq1, n \notin seqs PROVE thread'[n] = thread[n]
  BY <1>3 DEF Reply
<1>4. thread' \in [Seq1 -> Feedback]
  <2>1. thread' = [n \in Seq1 |-> thread'[n]]
    BY DEF Reply
  <2>. QED  BY <1>2, <1>3, <2>1, EntryFields
<1>5. \A n \in Seq1 : thread[n].pass \in Nat /\ (thread[n].state = "pending" => thread[n].pass = 0)
  BY EntryFields DEF EntriesHold, WaitsInNoPass, In
<1>6. EntriesHold'
  <2>1. \A n \in Seq1 :
           /\ thread[n].state = "applied" => thread'[n] = thread[n]
           /\ thread'[n].follows \in {0, thread[n].follows}
           /\ thread'[n].pass <= thread[n].pass
           /\ thread'[n].state = "running" => thread[n].state = "running" /\ thread'[n].pass = thread[n].pass
           /\ thread'[n].state = "pending" => thread'[n].pass = 0
    BY <1>2, <1>3, <1>5, SMTT(60)
  <2>. QED  BY <1>4, <2>1, EntriesStay
<1>7. \A n \in Seq1 : thread[n].kind = "revision" => thread'[n] # NoTalk
  BY <1>2, <1>3, NoTalkRow
<1>8. AppliedIsSealed
  BY <1>2, <1>3 DEF AppliedIsSealed
<1>9. RevisionKeepsEarlierText
  BY <1>2, <1>3, <1>7 DEF RevisionKeepsEarlierText
<1>. QED  BY <1>6, <1>8, <1>9 DEF EntriesKeep

(* release_running: what the session had in hand waits again, in no pass.        *)
LEMMA GiveBackHolds ==
  ASSUME EntriesHold, NEW x \in Session, GiveBack(x)
  PROVE  EntriesHold' /\ EntriesKeep
<1>2. ASSUME NEW n \in Seq1, thread[n].state = "running"
      PROVE  /\ thread'[n] \in Feedback /\ thread'[n].state = "pending" /\ thread'[n].pass = 0
             /\ thread'[n].follows = thread[n].follows
  <2>1. thread'[n] = [thread[n] EXCEPT !.state = "pending", !.pass = 0]
    BY <1>2 DEF GiveBack
  <2>2. PICK row \in Feedback : row = thread[n]
    BY EntryFields
  <2>3. LET new == [row EXCEPT !.state = "pending", !.pass = 0]
        IN  new \in Feedback /\ new.state = "pending" /\ new.pass = 0 /\ new.follows = row.follows
    BY DEF Feedback
  <2>. QED  BY <2>1, <2>2, <2>3
<1>3. ASSUME NEW n \in Seq1, thread[n].state # "running" PROVE thread'[n] = thread[n]
  BY <1>3 DEF GiveBack
<1>4. thread' \in [Seq1 -> Feedback]
  <2>1. thread' = [n \in Seq1 |-> thread'[n]]
    BY DEF GiveBack
  <2>. QED  BY <1>2, <1>3, <2>1, EntryFields
<1>5. \A n \in Seq1 : thread[n].pass \in Nat /\ (thread[n].state = "pending" => thread[n].pass = 0)
  BY EntryFields DEF EntriesHold, WaitsInNoPass, In
<1>6. EntriesHold'
  <2>1. \A n \in Seq1 :
           /\ thread[n].state = "applied" => thread'[n] = thread[n]
           /\ thread'[n].follows \in {0, thread[n].follows}
           /\ thread'[n].pass <= thread[n].pass
           /\ thread'[n].state = "running" => thread[n].state = "running" /\ thread'[n].pass = thread[n].pass
           /\ thread'[n].state = "pending" => thread'[n].pass = 0
    BY <1>2, <1>3, <1>5, SMTT(60)
  <2>. QED  BY <1>4, <2>1, EntriesStay
<1>7. \A n \in Seq1 : thread[n].kind = "revision" => thread[n] # NoTalk
  BY NoTalkRow
<1>8. AppliedIsSealed /\ RevisionKeepsEarlierText
  BY <1>3, <1>7 DEF AppliedIsSealed, RevisionKeepsEarlierText
<1>. QED  BY <1>6, <1>8 DEF EntriesKeep

(* A session's life keeps its row.                                               *)
LEMMA SessionMoves ==
  ASSUME session \in [Session -> SessionRow], NEW x \in Session,
         NEW at \in {"away", "opened", "live", "ended", "giving"},
         SessionAt(x, at) \/ session' = [session EXCEPT ![x] = Away]
         \/ \E onStep \in BOOLEAN : session' = [session EXCEPT ![x] = [at |-> "opened", step |-> onStep]]
  PROVE  session' \in [Session -> SessionRow]
<1>1. CASE SessionAt(x, at)
  <2>1. PICK row : row = [session[x] EXCEPT !.at = at]
    OBVIOUS
  <2>2. session[x] \in SessionRow
    OBVIOUS
  <2>3. row \in SessionRow
    BY <2>1, <2>2 DEF SessionRow
  <2>4. session' = [session EXCEPT ![x] = row]
    BY <1>1, <2>1 DEF SessionAt
  <2>. QED  BY <2>3, <2>4
<1>2. CASE session' = [session EXCEPT ![x] = Away]
  <2>1. Away \in SessionRow
    BY DEF Away, SessionRow
  <2>. QED  BY <1>2, <2>1
<1>3. ASSUME NEW onStep \in BOOLEAN, session' = [session EXCEPT ![x] = [at |-> "opened", step |-> onStep]]
      PROVE  session' \in [Session -> SessionRow]
  <2>1. [at |-> "opened", step |-> onStep] \in SessionRow
    BY DEF SessionRow
  <2>. QED  BY <1>3, <2>1
<1>. QED  BY <1>1, <1>2, <1>3

(* session_running: the line follows the session, and no claim is accepted.      *)
LEMMA SessionRunningHolds ==
  ASSUME ReviewHolds, NEW on \in BOOLEAN, SessionRunning(on), UNCHANGED <<checklist, status, clock>>
  PROVE  ReviewHolds' /\ AcceptedClaimStopsTimer
<1>1. PICK r : Saves(r) /\ r = IF ReviewActive /\ on /\ review.state = "open" THEN Marked(review, "running")
                               ELSE IF ReviewActive /\ ~on /\ review.state = "running" THEN Marked(review, "open")
                               ELSE review
  BY DEF SessionRunning
<1>2. r \in LineRows /\ (r.state # review.state => r.state \in {"open", "running"})
  BY <1>1, MarkedLine DEF ReviewHolds
<1>3. ReviewHolds'
  BY <1>1, <1>2, SavesHolds
<1>. QED  BY <1>1, <1>2, <1>3 DEF Saves, AcceptedClaimStopsTimer

(* A step on the thread alone.                                                   *)
LEMMA LineUntouched ==
  ASSUME ReviewHolds, TimersHold, UNCHANGED task
  PROVE  ReviewHolds' /\ TimersHold' /\ AcceptedClaimStopsTimer
  BY DEF task, ReviewHolds, TimersHold, IsRunning, Running, AcceptedClaimStopsTimer

(* reopen_review_line_in never accepts.                                          *)
LEMMA ReopenHolds ==
  ASSUME ReviewHolds, ReopenReviewLine, UNCHANGED <<checklist, status, clock>>
  PROVE  ReviewHolds' /\ AcceptedClaimStopsTimer
<1>1. Marked(review, "open") \in LineRows /\ Marked(review, "open").state = "open"
  BY MarkedLine DEF ReviewHolds
<1>2. CASE SendBackLine
  <2>1. ReviewHolds'
    BY <1>1, <1>2, SavesHolds DEF SendBackLine
  <2>. QED  BY <1>1, <1>2, <2>1 DEF SendBackLine, Saves, AcceptedClaimStopsTimer
<1>3. CASE UNCHANGED <<review, touched>>
  BY <1>3 DEF ReviewHolds, AcceptedClaimStopsTimer
<1>. QED  BY <1>2, <1>3 DEF ReopenReviewLine

(* What the person writes.                                                       *)
LEMMA PersonKeeps ==
  ASSUME TaskHolds, PersonWrites
  PROVE  TaskHolds' /\ EntriesKeep /\ AcceptedClaimStopsTimer
<1>0. UNCHANGED entries => TimersHold'
  BY DEF TaskHolds, TimersHold, IsRunning, Running
<1>1. ASSUME NEW kind \in {"work", "plan"}, NEW follows \in 0 .. MaxSeq, AddFeedback(kind, follows)
      PROVE  TaskHolds' /\ EntriesKeep /\ AcceptedClaimStopsTimer
  <2>1. EntriesHold' /\ EntriesKeep
    <3>1. kind \in Kinds /\ Blank \in Text \cup {Blank}
      BY DEF Kinds
    <3>. QED  BY <1>1, <3>1, EntryAdded DEF AddFeedback, TaskHolds
  <2>2. CASE ReopenReviewLine
    <3>1. ReviewHolds' /\ AcceptedClaimStopsTimer
      BY <1>1, <2>2, ReopenHolds DEF AddFeedback, TaskHolds
    <3>. QED  BY <1>0, <1>1, <2>1, <3>1 DEF AddFeedback, TaskHolds
  <2>3. CASE UNCHANGED <<review, touched>>
    <3>1. UNCHANGED task
      BY <1>1, <2>3 DEF AddFeedback, task
    <3>2. ReviewHolds' /\ TimersHold' /\ AcceptedClaimStopsTimer
      BY <3>1, LineUntouched DEF TaskHolds
    <3>. QED  BY <1>1, <2>1, <3>2 DEF AddFeedback, TaskHolds
  <2>. QED  BY <1>1, <2>2, <2>3 DEF AddFeedback
<1>2. ASSUME NEW n \in Seq1, DeleteFeedback(n) PROVE TaskHolds' /\ EntriesKeep /\ AcceptedClaimStopsTimer
  <2>1. EntriesHold' /\ EntriesKeep
    BY <1>2, EntryDropped DEF DeleteFeedback, TaskHolds
  <2>2. ReviewHolds' /\ TimersHold' /\ AcceptedClaimStopsTimer
    BY <1>2, LineUntouched DEF DeleteFeedback, TaskHolds
  <2>. QED  BY <1>2, <2>1, <2>2 DEF DeleteFeedback, TaskHolds
<1>3. ASSUME NEW n \in Seq1, DiscardRevision(n) PROVE TaskHolds' /\ EntriesKeep /\ AcceptedClaimStopsTimer
  <2>1. EntriesHold' /\ EntriesKeep
    BY <1>3, EntryDropped DEF DiscardRevision, TaskHolds
  <2>2. ReviewHolds' /\ AcceptedClaimStopsTimer
    BY <1>3, SMTT(60) DEF DiscardRevision, TaskHolds, ReviewHolds, AcceptedClaimStopsTimer
  <2>3. description' \in Text \cup {Blank}
    BY <1>3, EntryFields DEF DiscardRevision, TaskHolds
  <2>. QED  BY <1>0, <1>3, <2>1, <2>2, <2>3 DEF DiscardRevision, TaskHolds
<1>4. ASSUME NEW after \in Text \cup {Blank}, UpdateDescription(after)
      PROVE  TaskHolds' /\ EntriesKeep /\ AcceptedClaimStopsTimer
  <2>1. EntriesHold' /\ EntriesKeep
    BY <1>4, TrackHolds DEF UpdateDescription, TaskHolds
  <2>2. ReviewHolds' /\ AcceptedClaimStopsTimer
    BY <1>4, SMTT(60) DEF UpdateDescription, Touch, TaskHolds, ReviewHolds, AcceptedClaimStopsTimer
  <2>. QED  BY <1>0, <1>4, <2>1, <2>2 DEF UpdateDescription, TaskHolds
<1>5. CASE StartPass
  <2>1. EntriesHold' /\ EntriesKeep
    BY <1>5, PassHolds DEF TaskHolds
  <2>2. ReviewHolds' /\ TimersHold' /\ AcceptedClaimStopsTimer
    BY <1>5, LineUntouched DEF StartPass, TaskHolds
  <2>. QED  BY <1>5, <2>1, <2>2 DEF StartPass, TaskHolds
<1>6. CASE WrapupDeleted
  <2>1. EntriesHold' /\ EntriesKeep
    BY <1>6, ThreadStays DEF WrapupDeleted, TaskHolds
  <2>2. ReviewHolds' /\ TimersHold' /\ AcceptedClaimStopsTimer
    BY <1>6, LineUntouched DEF WrapupDeleted, TaskHolds
  <2>3. wrapped' \in BOOLEAN
    BY <1>6 DEF WrapupDeleted
  <2>. QED  BY <1>6, <2>1, <2>2, <2>3 DEF WrapupDeleted, TaskHolds
<1>. QED  BY <1>1, <1>2, <1>3, <1>4, <1>5, <1>6 DEF PersonWrites

(* What sessions and their ends do.                                              *)
LEMMA SessionsKeep ==
  ASSUME TaskHolds, SessionActs \/ MarkerNext
  PROVE  TaskHolds' /\ EntriesKeep /\ AcceptedClaimStopsTimer
<1>0. UNCHANGED entries => TimersHold'
  BY DEF TaskHolds, TimersHold, IsRunning, Running
<1>1. ASSUME NEW x \in Session, NEW onStep \in BOOLEAN, OpenSession(x, onStep) \/ EndSession(x)
      PROVE  TaskHolds' /\ EntriesKeep /\ AcceptedClaimStopsTimer
  <2>1. EntriesHold' /\ EntriesKeep
    BY <1>1, ThreadStays DEF OpenSession, EndSession, TaskHolds
  <2>2. ReviewHolds' /\ TimersHold' /\ AcceptedClaimStopsTimer
    BY <1>1, LineUntouched DEF OpenSession, EndSession, TaskHolds
  <2>3. session' \in [Session -> SessionRow]
    BY <1>1, SessionMoves DEF OpenSession, EndSession, TaskHolds
  <2>. QED  BY <1>1, <2>1, <2>2, <2>3 DEF OpenSession, EndSession, TaskHolds
<1>2. ASSUME NEW seqs \in SUBSET Seq1, Reply(seqs) PROVE TaskHolds' /\ EntriesKeep /\ AcceptedClaimStopsTimer
  <2>1. EntriesHold' /\ EntriesKeep
    BY <1>2, ReplyHolds DEF TaskHolds
  <2>2. ReviewHolds' /\ TimersHold' /\ AcceptedClaimStopsTimer
    BY <1>2, LineUntouched DEF Reply, TaskHolds
  <2>. QED  BY <1>2, <2>1, <2>2 DEF Reply, TaskHolds
<1>3. CASE WrapupLands
  <2>1. EntriesHold' /\ EntriesKeep
    BY <1>3, ThreadStays DEF WrapupLands, TaskHolds
  <2>2. ReviewHolds'
    BY <1>3, WrapupClaims, SavesHolds DEF WrapupLands, TaskHolds
  <2>3. AcceptedClaimStopsTimer
    BY <1>3, WrapupClaims DEF WrapupLands, Saves, TaskHolds, AcceptedClaimStopsTimer
  <2>4. wrapped' \in BOOLEAN
    BY <1>3 DEF WrapupLands
  <2>. QED  BY <1>0, <1>3, <2>1, <2>2, <2>3, <2>4 DEF WrapupLands, TaskHolds
<1>4. ASSUME NEW x \in Session, MarkSession(x) \/ ReleaseLine(x)
      PROVE  TaskHolds' /\ EntriesKeep /\ AcceptedClaimStopsTimer
  <2>1. EntriesHold' /\ EntriesKeep
    BY <1>4, ThreadStays DEF MarkSession, ReleaseLine, TaskHolds
  <2>2. ReviewHolds' /\ AcceptedClaimStopsTimer
    <3>1. \/ UNCHANGED <<review, touched>>
          \/ \E on \in BOOLEAN : SessionRunning(on)
      BY <1>4 DEF MarkSession, ReleaseLine
    <3>2. CASE UNCHANGED <<review, touched>>
      BY <1>4, <3>2 DEF MarkSession, ReleaseLine, TaskHolds, ReviewHolds, AcceptedClaimStopsTimer
    <3>3. ASSUME NEW on \in BOOLEAN, SessionRunning(on) PROVE ReviewHolds' /\ AcceptedClaimStopsTimer
      BY <1>4, <3>3, SessionRunningHolds DEF MarkSession, ReleaseLine, TaskHolds
    <3>. QED  BY <3>1, <3>2, <3>3
  <2>3. session' \in [Session -> SessionRow]
    BY <1>4, SessionMoves DEF MarkSession, ReleaseLine, TaskHolds
  <2>. QED  BY <1>0, <1>4, <2>1, <2>2, <2>3 DEF MarkSession, ReleaseLine, TaskHolds
<1>5. ASSUME NEW x \in Session, GiveBack(x) PROVE TaskHolds' /\ EntriesKeep /\ AcceptedClaimStopsTimer
  <2>1. EntriesHold' /\ EntriesKeep
    BY <1>5, GiveBackHolds DEF TaskHolds
  <2>2. ReviewHolds' /\ TimersHold' /\ AcceptedClaimStopsTimer
    BY <1>5, LineUntouched DEF GiveBack, TaskHolds
  <2>3. session' \in [Session -> SessionRow]
    BY <1>5, SessionMoves DEF GiveBack, TaskHolds
  <2>. QED  BY <1>5, <2>1, <2>2, <2>3 DEF GiveBack, TaskHolds
<1>6. TRUE \in BOOLEAN
  OBVIOUS
<1>. QED  BY <1>1, <1>2, <1>3, <1>4, <1>5, <1>6 DEF SessionActs, MarkerNext

(* The thread and the timers together keep what they promise.                    *)
LEMMA TaskKeeps ==
  ASSUME TaskHolds, [TaskNext]_threads
  PROVE  TaskHolds' /\ [EntriesKeep /\ AcceptedClaimStopsTimer]_threads
<1>1. CASE UNCHANGED threads
  <2>1. EntriesHold' /\ EntriesKeep
    BY <1>1, ThreadStays DEF threads, TaskHolds
  <2>2. ReviewHolds' /\ TimersHold' /\ AcceptedClaimStopsTimer
    BY <1>1, LineUntouched DEF threads, TaskHolds
  <2>. QED  BY <1>1, <2>1, <2>2 DEF threads, TaskHolds
<1>2. CASE PersonWrites \/ SessionActs \/ MarkerNext
  BY <1>2, PersonKeeps, SessionsKeep
<1>3. CASE (ConsoleNext \/ TimerNext) /\ UNCHANGED <<description, thread, wrapped, session>>
  <2>1. EntriesHold' /\ EntriesKeep
    BY <1>3, ThreadStays DEF TaskHolds
  <2>2. ReviewHolds' /\ TimersHold' /\ AcceptedClaimStopsTimer
    BY <1>3, ConsoleHolds, TimersKeep DEF TaskHolds, AcceptedClaimStopsTimer
  <2>. QED  BY <1>3, <2>1, <2>2 DEF TaskHolds
<1>. QED  BY <1>1, <1>2, <1>3 DEF TaskNext, ThreadNext

(* A task before anything happened to it.                                        *)
LEMMA TaskStarts == ThreadInit => TaskHolds
<1>. SUFFICES ASSUME ThreadInit PROVE TaskHolds
  OBVIOUS
<1>1. ReviewHolds
  BY LineConstants, SMTT(60) DEF ThreadInit, LineInit, ReviewHolds, LineRows
<1>2. TimersHold
  BY LineConstants, SMTT(60) DEF ThreadInit, LineInit, TimersHold, IsRunning, NoEntry, TimeEntry, Running
<1>3. EntriesHold
  BY NoTalkRow DEF ThreadInit, EntriesHold, FollowsApplied, OnePass, WaitsInNoPass, In
<1>4. session \in [Session -> SessionRow]
  BY DEF ThreadInit, Away, SessionRow
<1>. QED  BY <1>1, <1>2, <1>3, <1>4 DEF ThreadInit, TaskHolds

(* FeedbackService, TaskReviewService, TimeEntryService and the work marker: a   *)
(* task's line has the moments of its state, at most one of its timers runs, a   *)
(* detail continues an applied entry that is still there, and what runs in the   *)
(* thread is one pass, through every interleaving of people and sessions.        *)
THEOREM ThreadIsSound == TaskSpec => []ThreadInv
<1>1. TaskHolds /\ [TaskNext]_threads => TaskHolds'
  BY TaskKeeps
<1>2. TaskHolds => ThreadInv
  BY LineIsSound DEF TaskHolds, EntriesHold, SessionRow, ThreadInv, ThreadTypeOK
<1>. QED  BY TaskStarts, <1>1, <1>2, PTL DEF TaskSpec

(* The same services: no claim is accepted with the timer on, an applied entry   *)
(* never changes, and a revision that waits gives its earlier text back or keeps *)
(* it.                                                                           *)
THEOREM ThreadIsKept == TaskSpec => ThreadKeeps
<1>1. TaskHolds /\ [TaskNext]_threads => TaskHolds'
  BY TaskKeeps
<1>2. TaskHolds /\ [TaskNext]_threads =>
         [AcceptedClaimStopsTimer /\ AppliedIsSealed /\ RevisionKeepsEarlierText]_threads
  BY TaskKeeps DEF EntriesKeep
<1>. QED  BY TaskStarts, <1>1, <1>2, PTL DEF TaskSpec, ThreadKeeps

-----------------------------------------------------------------------------
(* The wrapup *)

(* The wrapup and the timers together                                            *)
WorkNext == WrapupNext \/ (TimerNext /\ UNCHANGED <<quick, wrapup, versions, wroteAt, log, call>>)
WorkSpec == WrapupInit /\ [][WorkNext]_wrapups

Version == [number : Nat, body : Body, head : Nat]
Commit  == [own : BOOLEAN, touches : BOOLEAN]
CallRow ==
    [pc : {"idle", "run", "head", "write", "commit", "accept"}, by : {"claude", "hand"}, body : Body,
     head : Nat, stepless : BOOLEAN, passed : BOOLEAN, failed : BOOLEAN]

(* A call past its checks has passed them, or had none to pass                   *)
Passed(c) == c.pc \in {"head", "write"} => c.passed = TRUE \/ c.stepless = FALSE

CallsHold ==
    /\ log \in Seq(Commit)
    /\ call \in [Writer -> CallRow]
    /\ \A w \in Writer : call[w].head <= Len(log) /\ Passed(call[w])

(* The newest version has the highest number, and HEAD was read no later than    *)
(* it was written                                                                *)
VersionsHold ==
    /\ versions \in Seq(Version) /\ Len(versions) <= Kept
    /\ wroteAt \in Nat
    /\ versions # <<>> =>
          /\ \A k \in DOMAIN versions : versions[k].number <= Latest(versions).number
          /\ Latest(versions).head <= wroteAt
    /\ wrapup \in Seq([body : Body, by : {"claude", "hand"}]) /\ Len(wrapup) <= 1
    /\ VersionsHoldTheWrapup

WorkHolds == ReviewHolds /\ TimersHold /\ CallsHold /\ VersionsHold /\ quick \in BOOLEAN

(* Appending a version: it is the newest, the others are kept ones of before.    *)
LEMMA AppendedHolds ==
  ASSUME versions \in Seq(Version), NEW body \in Body, NEW head \in Nat, NextNumber \in Nat,
         NEW new, new = Appended([number |-> 0, body |-> body, head |-> head])
  PROVE  /\ new \in Seq(Version) /\ Len(new) \in Nat /\ Len(new) <= Kept /\ new # <<>>
         /\ Latest(new).number = NextNumber /\ Latest(new).body = body /\ Latest(new).head = head
         /\ \A k \in DOMAIN new : new[k].number = NextNumber \/ \E j \in DOMAIN versions : new[k] = versions[j]
<1>1. PICK v \in Version : /\ v = [[number |-> 0, body |-> body, head |-> head] EXCEPT !.number = NextNumber]
                           /\ v.number = NextNumber /\ v.body = body /\ v.head = head
  <2>1. PICK n \in Nat : n = NextNumber
    OBVIOUS
  <2>2. PICK v : v = [[number |-> 0, body |-> body, head |-> head] EXCEPT !.number = n]
    OBVIOUS
  <2>3. v = [number |-> n, body |-> body, head |-> head]
    BY <2>2
  <2>4. v \in Version /\ v.number = n /\ v.body = body /\ v.head = head
    BY <2>3 DEF Version
  <2>. QED  BY <2>1, <2>2, <2>4
<1>2. PICK all \in Seq(Version) :
         /\ all = Append(versions, v) /\ Len(all) = Len(versions) + 1
         /\ \A i \in 1 .. Len(versions) : all[i] = versions[i]
         /\ all[Len(versions) + 1] = v
  BY AppendProperties, ZenonT(60)
<1>3. PICK m : m = IF Len(all) > Kept THEN Len(all) - Kept + 1 ELSE 1
  OBVIOUS
<1>4. new = SubSeq(all, m, Len(all))
  BY <1>1, <1>2, <1>3 DEF Appended
<1>5. Len(versions) \in Nat /\ Len(all) \in Nat /\ m \in 1 .. Len(all) /\ Len(all) - m + 1 <= Kept
  BY <1>2, <1>3, WrapupConstants, SMTT(60)
<1>6. \A i \in m .. Len(all) : all[i] \in Version
  BY <1>5, SMTT(60)
<1>7. PICK n \in Nat : n = Len(all) - m + 1 /\ n >= 1 /\ n <= Kept
  BY <1>5, SMTT(60)
<1>8. new \in Seq(Version) /\ Len(new) = n /\ \A i \in 1 .. n : new[i] = all[m + i - 1]
  <2>1. m \in Int /\ Len(all) \in Int /\ m <= Len(all)
    BY <1>5, SMTT(60)
  <2>2. PICK l \in Int : l = Len(all)
    BY <2>1
  <2>3. PICK u : u = SubSeq(all, m, l)
    OBVIOUS
  <2>4. /\ u \in Seq(Version)
        /\ Len(u) = IF m <= l THEN l - m + 1 ELSE 0
        /\ \A i \in 1 .. l - m + 1 : u[i] = all[m + i - 1]
    BY <1>6, <2>1, <2>2, <2>3, SubSeqProperties, SMTT(60)
  <2>5. new = u /\ m <= l /\ n = l - m + 1
    BY <1>4, <1>7, <2>1, <2>2, <2>3
  <2>. QED  BY <2>4, <2>5
<1>9. Latest(new) = v
  <2>1. new[n] = all[Len(all)]
    BY <1>5, <1>7, <1>8, SMTT(60)
  <2>. QED  BY <1>2, <1>8, <2>1 DEF Latest
<1>10. ASSUME NEW k \in DOMAIN new PROVE new[k].number = NextNumber \/ \E j \in DOMAIN versions : new[k] = versions[j]
  <2>1. k \in 1 .. n
    BY <1>8, SMTT(60)
  <2>2. PICK i \in 1 .. Len(versions) + 1 : new[k] = all[i]
    <3>1. m + k - 1 \in 1 .. Len(versions) + 1
      BY <1>2, <1>5, <1>7, <2>1, SMTT(60)
    <3>. QED  BY <1>8, <2>1, <3>1
  <2>3. CASE i = Len(versions) + 1
    BY <1>1, <1>2, <2>2, <2>3
  <2>4. CASE i # Len(versions) + 1
    <3>1. i \in 1 .. Len(versions)
      BY <1>5, <2>4, SMTT(60)
    <3>. QED  BY <1>2, <2>2, <3>1, SMTT(60)
  <2>. QED  BY <2>3, <2>4
<1>11. new # <<>>
  BY <1>7, <1>8, SMTT(60)
<1>. QED  BY <1>1, <1>7, <1>8, <1>9, <1>10, <1>11

(* NextNumber is past every number kept.                                         *)
LEMMA NextNumberIsNew ==
  ASSUME VersionsHold
  PROVE  NextNumber \in Nat /\ \A k \in DOMAIN versions : versions[k].number \in Nat /\ versions[k].number < NextNumber
<1>1. CASE versions = <<>>
  BY <1>1, SMTT(60) DEF NextNumber
<1>2. CASE versions # <<>>
  <2>1. Len(versions) \in DOMAIN versions /\ \A k \in DOMAIN versions : versions[k] \in Version
    BY <1>2, SMTT(60) DEF VersionsHold
  <2>2. Latest(versions).number \in Nat /\ \A k \in DOMAIN versions : versions[k].number \in Nat
    BY <2>1 DEF Latest, Version
  <2>3. NextNumber = Latest(versions).number + 1
    BY <1>2 DEF NextNumber
  <2>. QED  BY <1>2, <2>2, <2>3, SMTT(60) DEF VersionsHold
<1>. QED  BY <1>1, <1>2

(* write_in on the wrapup and its versions.                                      *)
LEMMA WriteHolds ==
  ASSUME CallsHold, VersionsHold, NEW w \in Writer, WriteIn(w)
  PROVE  VersionsHold' /\ NumbersNeverReused
<1>1. call[w] \in CallRow /\ call[w].body \in Body /\ call[w].head \in Nat /\ call[w].by \in {"claude", "hand"}
      /\ call[w].head <= Len(log) /\ Len(log) \in Nat
  BY SMTT(60) DEF CallsHold, CallRow
<1>2. wrapup' \in Seq([body : Body, by : {"claude", "hand"}]) /\ Len(wrapup') = 1 /\ wrapup'[1].body = call[w].body
  <2>1. PICK r \in [body : Body, by : {"claude", "hand"}] :
           r = [body |-> call[w].body, by |-> call[w].by] /\ r.body = call[w].body
    <3>1. ASSUME NEW body \in Body, NEW by \in {"claude", "hand"}
          PROVE  [body |-> body, by |-> by] \in [body : Body, by : {"claude", "hand"}]
      OBVIOUS
    <3>. QED  BY <1>1, <3>1
  <2>2. wrapup' = <<r>>
    BY <2>1 DEF WriteIn
  <2>. QED  BY <2>1, <2>2, SMTT(60)
<1>3. CASE KeepsVersion(w)
  <2>1. versions' = Appended([number |-> 0, body |-> call[w].body, head |-> call[w].head]) /\ wroteAt' = Len(log)
    BY <1>3 DEF WriteIn
  <2>2. NextNumber \in Nat /\ \A k \in DOMAIN versions : versions[k].number \in Nat /\ versions[k].number < NextNumber
    BY NextNumberIsNew
  <2>3. /\ versions' \in Seq(Version) /\ Len(versions') <= Kept /\ versions' # <<>>
        /\ Latest(versions').number = NextNumber /\ Latest(versions').body = call[w].body
        /\ Latest(versions').head = call[w].head
        /\ \A k \in DOMAIN versions' :
              versions'[k].number = NextNumber \/ \E j \in DOMAIN versions : versions'[k] = versions[j]
    BY <1>1, <2>1, <2>2, AppendedHolds, SMTT(60) DEF VersionsHold
  <2>4. \A k \in DOMAIN versions' : versions'[k].number <= Latest(versions').number
    BY <2>2, <2>3, SMTT(60)
  <2>5. VersionsHold'
    <3>1. VersionsHoldTheWrapup'
      BY <1>2, <2>3 DEF VersionsHoldTheWrapup
    <3>2. wroteAt' \in Nat /\ Latest(versions').head <= wroteAt'
      BY <1>1, <2>1, <2>3
    <3>. QED  BY <1>2, <2>3, <2>4, <3>1, <3>2, SMTT(60) DEF VersionsHold
  <2>. QED  BY <2>2, <2>3, <2>5 DEF NumbersNeverReused
<1>4. CASE ~KeepsVersion(w)
  <2>1. UNCHANGED <<versions, wroteAt>> /\ wrapup # <<>> /\ wrapup[1].body = call[w].body
    BY <1>4 DEF WriteIn, KeepsVersion
  <2>2. VersionsHold'
    BY <1>2, <2>1, SMTT(60) DEF VersionsHold, VersionsHoldTheWrapup, Version, Latest
  <2>. QED  BY <2>1, <2>2 DEF NumbersNeverReused
<1>. QED  BY <1>3, <1>4

(* A step that writes neither the wrapup nor a version.                          *)
LEMMA VersionsStay ==
  ASSUME VersionsHold, UNCHANGED <<versions, wroteAt>>, wrapup' = wrapup \/ wrapup' = <<>>
  PROVE  VersionsHold' /\ NumbersNeverReused
<1>1. wrapup' \in Seq([body : Body, by : {"claude", "hand"}]) /\ Len(wrapup') <= 1
  <2>1. CASE wrapup' = wrapup
    BY <2>1 DEF VersionsHold
  <2>2. CASE wrapup' = <<>>
    <3>1. ASSUME NEW S PROVE <<>> \in Seq(S) /\ Len(<<>>) <= 1
      BY SMTT(60)
    <3>. QED  BY <2>2, <3>1
  <2>. QED  BY <2>1, <2>2
<1>2. VersionsHoldTheWrapup'
  BY DEF VersionsHold, VersionsHoldTheWrapup
<1>3. VersionsHold'
  BY <1>1, <1>2 DEF VersionsHold
<1>. QED  BY <1>3 DEF NumbersNeverReused

(* The call nobody made.                                                         *)
LEMMA IdleRow ==
  /\ Idle \in CallRow /\ Idle.pc = "idle" /\ Idle.head = 0 /\ Idle.failed = FALSE
  /\ Idle.passed = FALSE /\ Idle.stepless = FALSE /\ Idle.by = "claude"
<1>1. PICK b \in Body : b = CHOOSE x \in Body : TRUE
  BY WrapupConstants
<1>2. Idle = [pc |-> "idle", by |-> "claude", body |-> b, head |-> 0,
              stepless |-> FALSE, passed |-> FALSE, failed |-> FALSE]
  BY <1>1 DEF Idle
<1>. QED  BY <1>2 DEF CallRow

(* A call of one writer goes on.                                                 *)
LEMMA OneCall ==
  ASSUME CallsHold, NEW w \in Writer, NEW c \in CallRow, call' = [call EXCEPT ![w] = c],
         c.head <= Len(log), Passed(c), UNCHANGED log
  PROVE  CallsHold'
<1>1. call' \in [Writer -> CallRow] /\ \A v \in Writer : call'[v] = IF v = w THEN c ELSE call[v]
  BY DEF CallsHold
<1>. QED  BY <1>1 DEF CallsHold, Passed, CallRow, Commit

(* Commits are only added.                                                       *)
LEMMA LogGrows ==
  ASSUME CallsHold, NEW r \in Commit, log' = Append(log, r)
  PROVE  log' \in Seq(Commit) /\ Len(log') = Len(log) + 1 /\ Len(log) \in Nat
  BY SMTT(60) DEF CallsHold

(* Every step of a call keeps the calls.                                         *)
LEMMA CallsGoOn ==
  ASSUME CallsHold, NEW w \in Writer, NEW body \in Body, NEW ok \in BOOLEAN,
         NEW outcome \in {"made", "none", "failed"},
         \/ PlanForTask(w, body) \/ HandWrites(w, body) \/ Checks(w, ok) \/ ReadHead(w) \/ WriteIn(w)
         \/ AcceptQuick(w) \/ AfterWrapup(w, outcome)
  PROVE  CallsHold'
<1>0. Len(log) \in Nat /\ call[w] \in CallRow /\ call[w].head <= Len(log) /\ Passed(call[w])
  BY SMTT(60) DEF CallsHold
<1>1. CASE call' = [call EXCEPT ![w] = Idle] /\ UNCHANGED log
  <2>1. Idle.head <= Len(log) /\ Passed(Idle) /\ Idle \in CallRow
    BY <1>0, IdleRow, SMTT(60) DEF Passed
  <2>. QED  BY <1>1, <2>1, OneCall
<1>2. CASE PlanForTask(w, body)
  <2>1. PICK active \in BOOLEAN : active = ReviewActive
    BY DEF ReviewActive
  <2>2. PICK pc \in {"run", "head"} : pc = IF ReviewActive THEN "run" ELSE "head"
    OBVIOUS
  <2>3. PICK c : c = [Idle EXCEPT !.pc = pc, !.stepless = active, !.body = body]
    OBVIOUS
  <2>4. c \in CallRow /\ c.pc = pc /\ c.stepless = active /\ c.head = 0
    BY <2>3, IdleRow DEF CallRow
  <2>5. pc = "head" => active = FALSE
    BY <2>1, <2>2
  <2>6. call' = [call EXCEPT ![w] = c] /\ UNCHANGED log
    BY <1>2, <2>1, <2>2, <2>3 DEF PlanForTask
  <2>7. c.head <= Len(log) /\ Passed(c)
    BY <1>0, <2>4, <2>5, SMTT(60) DEF Passed
  <2>. QED  BY <2>4, <2>6, <2>7, OneCall
<1>3. CASE HandWrites(w, body)
  <2>1. PICK c : c = [Idle EXCEPT !.pc = "head", !.by = "hand", !.body = body]
    OBVIOUS
  <2>2. c \in CallRow /\ c.stepless = FALSE /\ c.head = 0
    BY <2>1, IdleRow DEF CallRow
  <2>3. call' = [call EXCEPT ![w] = c] /\ UNCHANGED log
    BY <1>3, <2>1 DEF HandWrites
  <2>4. c.head <= Len(log) /\ Passed(c)
    BY <1>0, <2>2, SMTT(60) DEF Passed
  <2>. QED  BY <2>2, <2>3, <2>4, OneCall
<1>4. CASE Checks(w, ok)
  <2>1. CASE ok
    <3>1. PICK c : c = [call[w] EXCEPT !.pc = "head", !.passed = TRUE]
      OBVIOUS
    <3>2. c \in CallRow /\ c.passed = TRUE /\ c.head = call[w].head
      BY <1>0, <3>1 DEF CallRow
    <3>3. call' = [call EXCEPT ![w] = c] /\ UNCHANGED log
      BY <1>4, <2>1, <3>1 DEF Checks
    <3>4. c.head <= Len(log) /\ Passed(c)
      BY <1>0, <3>2 DEF Passed
    <3>. QED  BY <3>2, <3>3, <3>4, OneCall
  <2>2. CASE ~ok
    BY <1>1, <1>4, <2>2 DEF Checks
  <2>. QED  BY <2>1, <2>2
<1>5. CASE ReadHead(w)
  <2>0. PICK h \in Nat : h = Len(log)
    BY <1>0
  <2>1. PICK c : c = [call[w] EXCEPT !.pc = "write", !.head = h]
    OBVIOUS
  <2>2. c \in CallRow /\ c.passed = call[w].passed /\ c.stepless = call[w].stepless /\ c.head = h
    BY <1>0, <2>1 DEF CallRow
  <2>3. call' = [call EXCEPT ![w] = c] /\ UNCHANGED log
    BY <1>5, <2>0, <2>1 DEF ReadHead
  <2>4. call[w].pc = "head"
    BY <1>5 DEF ReadHead, At
  <2>5. c.head <= Len(log) /\ Passed(c)
    BY <1>0, <2>0, <2>2, <2>4, SMTT(60) DEF Passed
  <2>. QED  BY <2>2, <2>3, <2>5, OneCall
<1>6. CASE WriteIn(w)
  <2>1. CASE call' = [call EXCEPT ![w] = [Idle EXCEPT !.pc = "commit"]]
    <3>1. PICK c : c = [Idle EXCEPT !.pc = "commit"]
      OBVIOUS
    <3>2. c \in CallRow /\ c.pc = "commit" /\ c.head = 0
      BY <3>1, IdleRow DEF CallRow
    <3>3. c.head <= Len(log) /\ Passed(c)
      BY <1>0, <3>2, SMTT(60) DEF Passed
    <3>. QED  BY <1>6, <2>1, <3>1, <3>2, <3>3, OneCall, ZenonT(60) DEF WriteIn
  <2>. QED  BY <1>1, <1>6, <2>1 DEF WriteIn
<1>7. CASE AcceptQuick(w)
  BY <1>1, <1>7 DEF AcceptQuick
<1>8. CASE AfterWrapup(w, outcome)
  <2>0. PICK failed \in BOOLEAN : failed = (outcome = "failed")
    OBVIOUS
  <2>1. PICK c : c = [call[w] EXCEPT !.pc = "accept", !.failed = failed]
    OBVIOUS
  <2>2. c \in CallRow /\ c.pc = "accept" /\ c.head = call[w].head
    BY <1>0, <2>1 DEF CallRow
  <2>3. call' = [call EXCEPT ![w] = c]
    BY <1>8, <2>0, <2>1 DEF AfterWrapup
  <2>4. CASE log' = log
    <3>1. c.head <= Len(log) /\ Passed(c)
      BY <1>0, <2>2 DEF Passed
    <3>. QED  BY <2>2, <2>3, <2>4, <3>1, OneCall, ZenonT(60)
  <2>5. CASE log' = Append(log, [own |-> TRUE, touches |-> TRUE])
    <3>1. log' \in Seq(Commit) /\ Len(log') = Len(log) + 1 /\ Len(log) \in Nat
      <4>1. [own |-> TRUE, touches |-> TRUE] \in Commit
        BY DEF Commit
      <4>. QED  BY <2>5, <4>1, LogGrows
    <3>2. call' \in [Writer -> CallRow] /\ \A v \in Writer : call'[v] = IF v = w THEN c ELSE call[v]
      BY <2>2, <2>3 DEF CallsHold
    <3>3. \A v \in Writer : call'[v].head \in Nat /\ call'[v].head <= Len(log) /\ Passed(call'[v])
      BY <1>0, <2>2, <3>2, ZenonT(60) DEF CallsHold, Passed, CallRow
    <3>. QED  BY <3>1, <3>2, <3>3, SMTT(60) DEF CallsHold, Passed, CallRow, Commit
  <2>. QED  BY <1>8, <2>4, <2>5 DEF AfterWrapup
<1>. QED  BY <1>2, <1>3, <1>4, <1>5, <1>6, <1>7, <1>8, ZenonT(60)

(* The other steps leave the calls, or commit beside them.                       *)
LEMMA CallsBeside ==
  ASSUME CallsHold, UNCHANGED call, log' = log \/ \E touches \in BOOLEAN : ForeignCommit(touches)
  PROVE  CallsHold'
<1>1. CASE log' = log
  BY <1>1 DEF CallsHold, Passed, CallRow, Commit
<1>2. ASSUME NEW touches \in BOOLEAN, ForeignCommit(touches) PROVE CallsHold'
  <2>1. [own |-> FALSE, touches |-> touches] \in Commit
    BY DEF Commit
  <2>2. log' \in Seq(Commit) /\ Len(log') = Len(log) + 1 /\ Len(log) \in Nat
    BY <1>2, <2>1, LogGrows DEF ForeignCommit
  <2>3. \A v \in Writer : call[v].head \in Nat /\ call[v].head <= Len(log)
    BY DEF CallsHold, CallRow
  <2>. QED  BY <2>2, <2>3, SMTT(60) DEF CallsHold, Passed, CallRow, Commit
<1>. QED  BY <1>1, <1>2

(* mark_review_state never marks a line as accepted by nobody.                   *)
LEMMA MarkedAuto ==
  ASSUME NEW r \in LineRows, NEW next \in {"open", "running", "claimed", "done"}, Marked(r, next).auto
  PROVE  r.auto
<1>1. CASE r.state = next
  BY <1>1 DEF Marked
<1>2. CASE r.state # next
  <2>1. Marked(r, next) = [state |-> next, claimed |-> next \in {"claimed", "done"}, accepted |-> next = "done", auto |-> FALSE]
    BY <1>2 DEF Marked
  <2>2. Marked(r, next).auto = FALSE
    BY <2>1, SMTT(60)
  <2>. QED  BY <2>2
<1>. QED  BY <1>1, <1>2

(* The console never does either.                                                *)
LEMMA ConsoleAuto ==
  ASSUME ReviewHolds, ConsoleNext, review'.auto
  PROVE  review.auto
<1>1. CASE Accept
  BY <1>1, MarkedAuto DEF Accept, Saves, ReviewHolds
<1>2. CASE SendBackTask
  BY <1>2, MarkedAuto DEF SendBackTask, SendBackLine, Saves, ReviewHolds
<1>3. CASE UNCHANGED review
  BY <1>3
<1>. QED  BY <1>1, <1>2, <1>3 DEF ConsoleNext, AcceptStep, Checklist

(* Nor does a wrapup.                                                            *)
LEMMA WrapupAuto ==
  ASSUME ReviewHolds, ClaimedByWrapup.auto
  PROVE  review.auto
  BY MarkedAuto DEF ReviewHolds, ClaimedByWrapup

(* accept_quick_claim: the row of a line accepted by nobody.                     *)
LEMMA QuickRow ==
  ASSUME ReviewHolds
  PROVE  [Marked(review, "done") EXCEPT !.auto = TRUE] \in LineRows
<1>1. PICK r \in LineRows : r = Marked(review, "done") /\ r.state = "done"
  BY MarkedLine DEF ReviewHolds
<1>2. r = [state |-> "done", claimed |-> TRUE, accepted |-> TRUE, auto |-> FALSE] \/
      r = [state |-> "done", claimed |-> TRUE, accepted |-> TRUE, auto |-> TRUE]
  BY <1>1, SMTT(60) DEF LineRows
<1>3. [r EXCEPT !.auto = TRUE] = [state |-> "done", claimed |-> TRUE, accepted |-> TRUE, auto |-> TRUE]
  <2>1. PICK yes : yes = TRUE
    OBVIOUS
  <2>2. PICK b : r = [state |-> "done", claimed |-> yes, accepted |-> yes, auto |-> b]
    BY <1>2, <2>1
  <2>3. [r EXCEPT !.auto = yes] = [state |-> "done", claimed |-> yes, accepted |-> yes, auto |-> yes]
    BY <2>2, SMTT(60)
  <2>. QED  BY <2>1, <2>3
<1>. QED  BY <1>1, <1>3 DEF LineRows

(* What each call does to the line and the timers.                               *)
LEMMA CallsOnLine ==
  ASSUME WorkHolds, NEW w \in Writer, WriteIn(w) \/ AcceptQuick(w)
  PROVE  ReviewHolds' /\ TimersHold' /\ QuickAcceptsAClaim
<1>0. UNCHANGED entries => TimersHold'
  BY DEF WorkHolds, TimersHold, IsRunning, Running
<1>1. CASE WriteIn(w)
  <2>1. TimersHold'
    BY <1>0, <1>1 DEF WriteIn
  <2>2. CASE Saves(ClaimedByWrapup)
    <3>1. ReviewHolds'
      BY <1>1, <2>2, WrapupClaims, SavesHolds DEF WriteIn, WorkHolds
    <3>2. review'.auto => review.auto
      BY <2>2, WrapupAuto DEF Saves, WorkHolds
    <3>. QED  BY <2>1, <3>1, <3>2 DEF QuickAcceptsAClaim
  <2>3. CASE UNCHANGED <<review, touched>>
    BY <1>1, <2>1, <2>3 DEF WriteIn, WorkHolds, ReviewHolds, QuickAcceptsAClaim
  <2>. QED  BY <1>1, <2>2, <2>3 DEF WriteIn
<1>2. CASE AcceptQuick(w)
  <2>1. CASE /\ quick /\ ~call[w].failed /\ review.state = "claimed" /\ ReviewActive
             /\ Saves([Marked(review, "done") EXCEPT !.auto = TRUE]) /\ StopIfRunning
    <3>1. ReviewHolds'
      BY <1>2, <2>1, QuickRow, SavesHolds DEF AcceptQuick, WorkHolds
    <3>2. TimersHold'
      BY <2>1, StopHolds DEF WorkHolds, ReviewHolds
    <3>3. call'[w] = Idle /\ At(w, "accept") /\ wrapup' = wrapup
      BY <1>2 DEF AcceptQuick, WorkHolds, CallsHold
    <3>. QED  BY <2>1, <3>1, <3>2, <3>3 DEF QuickAcceptsAClaim
  <2>2. CASE UNCHANGED <<review, touched, entries>>
    BY <1>0, <1>2, <2>2 DEF AcceptQuick, WorkHolds, ReviewHolds, QuickAcceptsAClaim
  <2>. QED  BY <1>2, <2>1, <2>2 DEF AcceptQuick
<1>. QED  BY <1>1, <1>2

(* A claim by a wrapup is one whose checks passed.                               *)
LEMMA ClaimsChecked == WorkHolds => CheckedWrapupClaims
<1>. SUFFICES ASSUME WorkHolds, NEW w \in Writer, At(w, "write") PROVE call[w].passed \/ ~call[w].stepless
  BY DEF CheckedWrapupClaims
<1>1. call[w].passed = TRUE \/ call[w].stepless = FALSE
  BY DEF WorkHolds, CallsHold, Passed, At
<1>. QED  BY <1>1

(* Every step of the wrapup and of the timers.                                   *)
LEMMA WorkKeeps ==
  ASSUME WorkHolds, [WorkNext]_wrapups
  PROVE  WorkHolds' /\ [NumbersNeverReused /\ QuickAcceptsAClaim]_wrapups
<1>1. ASSUME UNCHANGED task PROVE ReviewHolds' /\ TimersHold' /\ QuickAcceptsAClaim
  <2>1. review' = review
    BY <1>1 DEF task
  <2>. QED  BY <1>1, <2>1, LineUntouched DEF WorkHolds, QuickAcceptsAClaim
<1>2. ASSUME NEW w \in Writer, NEW body \in Body, NEW ok \in BOOLEAN, NEW outcome \in {"made", "none", "failed"},
             PlanForTask(w, body) \/ HandWrites(w, body) \/ Checks(w, ok) \/ ReadHead(w) \/ AfterWrapup(w, outcome)
      PROVE  WorkHolds' /\ NumbersNeverReused /\ QuickAcceptsAClaim
  <2>1. CallsHold'
    BY <1>2, CallsGoOn DEF WorkHolds
  <2>2. UNCHANGED <<task, quick, wrapup, versions, wroteAt>>
    BY <1>2 DEF PlanForTask, HandWrites, Checks, ReadHead, AfterWrapup, LineStays
  <2>3. VersionsHold' /\ NumbersNeverReused
    BY <2>2, VersionsStay DEF WorkHolds
  <2>. QED  BY <1>1, <2>1, <2>2, <2>3 DEF WorkHolds
<1>3. ASSUME NEW w \in Writer, NEW body \in Body, WriteIn(w)
      PROVE  WorkHolds' /\ NumbersNeverReused /\ QuickAcceptsAClaim
  <2>1. CallsHold'
    <3>1. TRUE \in BOOLEAN /\ "none" \in {"made", "none", "failed"}
      OBVIOUS
    <3>. QED  BY <1>3, <3>1, CallsGoOn DEF WorkHolds
  <2>2. VersionsHold' /\ NumbersNeverReused
    BY <1>3, WriteHolds DEF WorkHolds
  <2>. QED  BY <1>3, <2>1, <2>2, CallsOnLine DEF WorkHolds, WriteIn
<1>4. ASSUME NEW w \in Writer, NEW body \in Body, AcceptQuick(w)
      PROVE  WorkHolds' /\ NumbersNeverReused /\ QuickAcceptsAClaim
  <2>1. CallsHold'
    <3>1. TRUE \in BOOLEAN /\ "none" \in {"made", "none", "failed"}
      OBVIOUS
    <3>. QED  BY <1>4, <3>1, CallsGoOn DEF WorkHolds
  <2>2. VersionsHold' /\ NumbersNeverReused
    BY <1>4, VersionsStay DEF WorkHolds, AcceptQuick
  <2>. QED  BY <1>4, <2>1, <2>2, CallsOnLine DEF WorkHolds, AcceptQuick
<1>5. CASE DeleteWrapup \/ (\E touches \in BOOLEAN : ForeignCommit(touches)) \/ UNCHANGED wrapups
  <2>1. CallsHold'
    BY <1>5, CallsBeside DEF WorkHolds, DeleteWrapup, ForeignCommit, wrapups
  <2>2. VersionsHold' /\ NumbersNeverReused
    BY <1>5, VersionsStay DEF WorkHolds, DeleteWrapup, ForeignCommit, wrapups
  <2>3. UNCHANGED <<task, quick>>
    BY <1>5 DEF DeleteWrapup, ForeignCommit, LineStays, wrapups
  <2>. QED  BY <1>1, <2>1, <2>2, <2>3 DEF WorkHolds
<1>6. CASE (ConsoleNext \/ TimerNext) /\ UNCHANGED <<quick, wrapup, versions, wroteAt, log, call>>
  <2>1. CallsHold'
    BY <1>6, CallsBeside DEF WorkHolds
  <2>2. VersionsHold' /\ NumbersNeverReused
    BY <1>6, VersionsStay DEF WorkHolds
  <2>3. ReviewHolds' /\ TimersHold'
    BY <1>6, ConsoleHolds, TimersKeep DEF WorkHolds
  <2>4. review'.auto => review.auto
    BY <1>6, ConsoleAuto, TimersKeep DEF WorkHolds
  <2>. QED  BY <1>6, <2>1, <2>2, <2>3, <2>4, ZenonT(60) DEF WorkHolds, QuickAcceptsAClaim
<1>7. PICK body \in Body : TRUE
  BY WrapupConstants
<1>8. TRUE \in BOOLEAN /\ "none" \in {"made", "none", "failed"}
  OBVIOUS
<1>. QED  BY <1>2, <1>3, <1>4, <1>5, <1>6, <1>7, <1>8, ZenonT(60) DEF WorkNext, WrapupNext, WrapupCalls

(* No wrapup, no commit, no call.                                                *)
LEMMA WorkStarts == WrapupInit => WorkHolds
<1>. SUFFICES ASSUME WrapupInit PROVE WorkHolds
  OBVIOUS
<1>1. ReviewHolds
  BY LineConstants, SMTT(60) DEF WrapupInit, LineInit, ReviewHolds, LineRows
<1>2. TimersHold
  BY LineConstants, SMTT(60) DEF WrapupInit, LineInit, TimersHold, IsRunning, NoEntry, TimeEntry, Running
<1>3. CallsHold
  <2>1. log \in Seq(Commit) /\ Len(log) = 0 /\ call = [w \in Writer |-> Idle]
    BY SMTT(60) DEF WrapupInit
  <2>. QED  BY <2>1, IdleRow, SMTT(60) DEF CallsHold, Passed
<1>4. VersionsHold
  <2>1. versions = <<>> /\ wrapup = <<>> /\ wroteAt = 0
    BY DEF WrapupInit
  <2>2. ASSUME NEW S PROVE <<>> \in Seq(S) /\ Len(<<>>) = 0
    BY SMTT(60)
  <2>3. versions \in Seq(Version) /\ Len(versions) <= Kept
    BY <2>1, <2>2, WrapupConstants, SMTT(60)
  <2>4. wrapup \in Seq([body : Body, by : {"claude", "hand"}]) /\ Len(wrapup) <= 1
    BY <2>1, <2>2, SMTT(60)
  <2>. QED  BY <2>1, <2>3, <2>4 DEF VersionsHold, VersionsHoldTheWrapup
<1>. QED  BY <1>1, <1>2, <1>3, <1>4 DEF WrapupInit, WorkHolds

(* A version's HEAD is no later than its writing, so what is fresh since HEAD is *)
(* fresh since the text was written.                                             *)
LEMMA FreshSinceHead == WorkHolds => FreshIsFresh
<1>. SUFFICES ASSUME WorkHolds, Freshness = "fresh", NEW k \in wroteAt + 1 .. Len(log), log[k].touches
              PROVE  log[k].own
  BY DEF FreshIsFresh
<1>1. versions # <<>> /\ ~\E i \in Latest(versions).head + 1 .. Len(log) : log[i].touches /\ ~log[i].own
  BY DEF Freshness
<1>2. Latest(versions).head \in Nat /\ wroteAt \in Nat /\ Len(log) \in Nat /\ Latest(versions).head <= wroteAt
  <2>1. Len(versions) \in 1 .. Len(versions) /\ Latest(versions) \in Version
    BY <1>1, SMTT(60) DEF WorkHolds, VersionsHold, Latest
  <2>2. Latest(versions).head \in Nat
    BY <2>1 DEF Version
  <2>. QED  BY <1>1, <2>2, SMTT(60) DEF WorkHolds, VersionsHold, CallsHold
<1>3. k \in Latest(versions).head + 1 .. Len(log)
  BY <1>2, SMTT(60)
<1>. QED  BY <1>1, <1>3

(* WrapupService, WrapupVersionService and the freshness check: the newest       *)
(* version is the wrapup that stands, and a wrapup reported as fresh is, however *)
(* the reads of HEAD, the writes and other people's commits interleave.          *)
THEOREM WrapupIsSound == WorkSpec => []WrapupInv
<1>1. WorkHolds /\ [WorkNext]_wrapups => WorkHolds'
  BY WorkKeeps
<1>2. WorkHolds => WrapupInv
  <2>. SUFFICES ASSUME WorkHolds PROVE WrapupInv
    OBVIOUS
  <2>1. LineTypeOK
    BY LineIsSound DEF WorkHolds
  <2>2. \A w \in Writer : call[w].head \in 0 .. Len(log) /\ call[w].body \in Body
    BY SMTT(60) DEF WorkHolds, CallsHold, CallRow
  <2>3. Len(wrapup) <= 1 /\ Len(versions) <= Kept /\ VersionsHoldTheWrapup
    BY DEF WorkHolds, VersionsHold
  <2>. QED  BY <2>1, <2>2, <2>3, FreshSinceHead DEF WrapupInv, WrapupTypeOK
<1>. QED  BY WorkStarts, <1>1, <1>2, PTL DEF WorkSpec

(* The same calls: a version's number is never used again, a wrapup claims the   *)
(* line only after its checks, and a quick task is accepted only from a claim.   *)
THEOREM WrapupIsKept == WorkSpec => WrapupKeeps
<1>1. WorkHolds /\ [WorkNext]_wrapups => WorkHolds'
  BY WorkKeeps
<1>2. WorkHolds /\ [WorkNext]_wrapups => [NumbersNeverReused /\ CheckedWrapupClaims /\ QuickAcceptsAClaim]_wrapups
  BY WorkKeeps, ClaimsChecked
<1>. QED  BY WorkStarts, <1>1, <1>2, PTL DEF WorkSpec, WrapupKeeps

=============================================================================
