--------------------------- MODULE RunQueueProofs ---------------------------
(***************************************************************************)
(* What holds of the run queue and its worker for every set of tasks,      *)
(* items and sessions, every number of places, and any number of failed    *)
(* transactions and crashes.                                               *)
(***************************************************************************)
EXTENDS RunQueueWorker, FiniteSetTheorems, TLAPS

USE Zenon

USE DEF QueueConstants, WorkerConstants

(* The rows and records that stand for "nothing" are of their types.        *)
LEMMA Blanks ==
    /\ NoTask \in Task
    /\ NoRow \in ItemRow /\ GoneRow \in ItemRow
    /\ NoSession \in Session
    /\ NoHand \in Hand
    /\ NoWork \in Work
<1>1. NoTask \in Task
  BY QueueConstants DEF NoTask
<1>2. NoRow \in ItemRow /\ GoneRow \in ItemRow
  BY <1>1 DEF NoRow, GoneRow, ItemRow, ItemState, Listed, Settled
<1>3. NoSession \in Session
  BY <1>1 DEF NoSession, Session
<1>4. NoHand \in Hand
  BY <1>1 DEF NoHand, Hand, ItemState, Listed, Settled
<1>5. NoWork \in Work
  BY QueueConstants, SMTT(60) DEF NoWork, Work
<1>. QED
  BY <1>1, <1>2, <1>3, <1>4, <1>5

(* Any set of items has a size.                                             *)
LEMMA ItemsCount ==
    ASSUME NEW S, S \subseteq Item
    PROVE  IsFiniteSet(S) /\ Cardinality(S) \in Nat
BY QueueConstants, FS_Subset, FS_CardinalityType

(* Moving one item, or a deleted one, keeps the rows well typed.            *)
LEMMA MovedType ==
    ASSUME items \in [Item -> ItemRow], NEW i \in Item, NEW s \in ItemState
    PROVE  Moved(i, s) \in [Item -> ItemRow]
BY DEF Moved, ItemRow

(* mark_item leaves rows of the declared type. *)
LEMMA MarkItemType ==
    ASSUME items \in [Item -> ItemRow], NEW i \in Item, NEW s \in ItemState, MarkItem(i, s)
    PROVE  items' \in [Item -> ItemRow]
BY MovedType DEF MarkItem

(* renumber leaves rows of the declared type. *)
LEMMA RenumberedType ==
    ASSUME items \in [Item -> ItemRow], NEW S, S \subseteq Item, NEW p \in [S -> Nat]
    PROVE  Renumbered(items, p) \in [Item -> ItemRow]
BY DEF Renumbered, ItemRow

(* An order of the listed items numbers them with naturals. *)
LEMMA OrdersType ==
    ASSUME NEW S, S \subseteq Item, NEW p \in Orders(S)
    PROVE  p \in [S -> Nat]
BY ItemsCount, SMTT(60) DEF Orders

(* enqueue writes a row of the declared type. *)
LEMMA EnqueueType ==
    ASSUME items \in [Item -> ItemRow], tasks \subseteq Task, NEW t, Enqueue(t)
    PROVE  items' \in [Item -> ItemRow]
<1>1. Cardinality(ListedItems) \in Nat
  BY ItemsCount DEF ListedItems
<1>2. t \in Task
  BY DEF Enqueue
<1>. QED
  BY <1>1, <1>2 DEF Enqueue, ItemRow, ItemState, Listed

(* move_to gives every listed item a natural position. *)
LEMMA PlaceAfterMoveType ==
    ASSUME items \in [Item -> ItemRow], NEW p, NEW i \in Item, NEW at \in Nat,
           NEW j \in ListedItems, i \in Queued
    PROVE  PlaceAfterMove(p, i, at, j) \in Nat
<1>. DEFINE ahead == ListedItems \ Queued
            others == Queued \ {i}
            rank(S) == Cardinality({k \in S : p[k] < p[j]})
<1>1. ahead \subseteq Item /\ others \subseteq Item
  BY DEF ListedItems, Queued, InState
<1>2. Cardinality(ahead) \in Nat /\ Cardinality(others) \in Nat
  BY <1>1, ItemsCount
<1>3. rank(ahead) \in Nat
  <2>1. {k \in ahead : p[k] < p[j]} \subseteq Item
    BY <1>1
  <2>. QED  BY <2>1, ItemsCount
<1>4. rank(others) \in Nat
  <2>1. {k \in others : p[k] < p[j]} \subseteq Item
    BY <1>1
  <2>. QED  BY <2>1, ItemsCount
<1>5. j \in ahead \/ j = i \/ j \in others
  BY DEF ahead, others
<1>. HIDE DEF ahead, others, rank
<1>. QED
  BY <1>2, <1>3, <1>4, <1>5, SMTT(60) DEF PlaceAfterMove, ahead, others, rank

-----------------------------------------------------------------------------
(* Type correctness *)

(* RunQueue.move_to leaves a row of the declared type. *)
LEMMA MoveQueueType ==
    ASSUME queue \in QueueRow, NEW s \in QueueState, MoveQueue(s)
    PROVE  queue' \in QueueRow /\ due' \in BOOLEAN
BY DEF MoveQueue, QueueRow

(* The operations of the console on the queue and its items keep the types.   *)
LEMMA ConsoleType == TypeOK /\ Console => TypeOK'
<1>. SUFFICES ASSUME TypeOK, Console PROVE TypeOK'
  OBVIOUS
<1>. USE DEF TypeOK, OutsideWorker, memory, control, loop, budget, MoveQueue
<1>1. ASSUME NEW t \in Task, Add(t) /\ OutsideWorker PROVE TypeOK'
  BY <1>1, EnqueueType DEF Add
<1>2. ASSUME NEW t \in Task, AddAndArm(t) /\ OutsideWorker PROVE TypeOK'
  BY <1>2, EnqueueType, ZenonT(60) DEF AddAndArm, QueueRow, QueueState
<1>3. ASSUME NEW i \in Item, Remove(i) /\ OutsideWorker PROVE TypeOK'
  <2>1. ListedItems \ {i} \subseteq Item
    BY DEF ListedItems
  <2>2. PICK p \in Orders(ListedItems \ {i}) : items' = [Renumbered(items, p) EXCEPT ![i] = GoneRow]
    BY <1>3 DEF Remove
  <2>3. Renumbered(items, p) \in [Item -> ItemRow]
    BY <2>1, OrdersType, RenumberedType
  <2>4. items' \in [Item -> ItemRow]
    BY <2>2, <2>3, Blanks
  <2>. QED  BY <1>3, <2>4 DEF Remove
<1>4. ASSUME NEW i \in Item, NEW at \in 0 .. Cardinality(Item), MoveTo(i, at) /\ OutsideWorker
      PROVE  TypeOK'
  <2>1. ListedItems \subseteq Item /\ at \in Nat
    BY ItemsCount, SMTT(60) DEF ListedItems
  <2>2. PICK p \in Orders(ListedItems) :
           items' = Renumbered(items, [j \in ListedItems |-> PlaceAfterMove(p, i, at, j)])
    BY <1>4 DEF MoveTo
  <2>3. [j \in ListedItems |-> PlaceAfterMove(p, i, at, j)] \in [ListedItems -> Nat]
    BY <1>4, <2>1, PlaceAfterMoveType DEF MoveTo
  <2>4. items' \in [Item -> ItemRow]
    BY <2>1, <2>2, <2>3, RenumberedType
  <2>. QED  BY <1>4, <2>4 DEF MoveTo
<1>5. CASE ClearSettled /\ OutsideWorker
  <2>. DEFINE gone == {i \in Item : items[i].state \in Settled}
  <2>1. ListedItems \ gone \subseteq Item
    BY DEF ListedItems
  <2>2. PICK p \in Orders(ListedItems \ gone) :
           items' = [i \in Item |-> IF i \in gone THEN GoneRow ELSE Renumbered(items, p)[i]]
    BY <1>5 DEF ClearSettled
  <2>3. Renumbered(items, p) \in [Item -> ItemRow]
    BY <2>1, OrdersType, RenumberedType
  <2>4. items' \in [Item -> ItemRow]
    <3>. HIDE DEF gone
    <3>. QED  BY <2>2, <2>3, Blanks
  <2>. QED  BY <1>5, <2>4 DEF ClearSettled
<1>6. ASSUME NEW later \in BOOLEAN, Start(later) /\ OutsideWorker PROVE TypeOK'
  BY <1>6 DEF Start, QueueRow, QueueState
<1>7. ASSUME NEW n \in 1 .. MaxPlaces, NEW c \in BOOLEAN, UpdateSettings(n, c) /\ OutsideWorker
      PROVE  TypeOK'
  BY <1>7 DEF UpdateSettings, QueueRow
<1>8. ASSUME NEW t \in Task, DeleteTask(t) /\ OutsideWorker PROVE TypeOK'
  <2>1. items' \in [Item -> ItemRow]
    BY <1>8, Blanks DEF DeleteTask
  <2>2. work' \in [Task -> Work]
    BY <1>8, Blanks DEF DeleteTask
  <2>. QED  BY <1>8, <2>1, <2>2 DEF DeleteTask
<1>. QED
  BY <1>1, <1>2, <1>3, <1>4, <1>5, <1>6, <1>7, <1>8, ZenonT(60) DEF Console

(* open leaves sessions of the declared type. *)
LEMMA OpenFreshType ==
    ASSUME term \in [Terminal -> Session], NEW t \in Task, NEW own \in BOOLEAN,
           NEW step \in BOOLEAN, OpenFresh(t, own, step)
    PROVE  NewTerminal \in Terminal /\ term' \in [Terminal -> Session]
<1>1. NewTerminal \in Terminal
  BY DEF OpenFresh, NewTerminal
<1>. QED
  BY <1>1 DEF OpenFresh, Session

(* close leaves sessions of the declared type. *)
LEMMA ClosedType ==
    ASSUME term \in [Terminal -> Session], NEW x \in Terminal
    PROVE  Closed(x) \in [Terminal -> Session]
<1>1. [NoSession EXCEPT !.state = "Gone"] \in Session
  BY Blanks DEF Session, NoSession
<1>. QED
  BY <1>1 DEF Closed

(* The work marker leaves tasks' work of the declared type. *)
LEMMA StepMarkedType ==
    ASSUME work \in [Task -> Work], NEW t \in Task, NEW released \in BOOLEAN, NEW marked \in BOOLEAN,
           StepMarked(t, released, marked)
    PROVE  work' \in [Task -> Work]
<1>1. PICK running \in BOOLEAN : work' = [work EXCEPT ![t].running = running]
  BY DEF StepMarked
<1>. QED  BY <1>1 DEF Work

(* Settling a step leaves tasks' work and sessions of the declared types. *)
LEMMA StepSettledType ==
    ASSUME TypeOK, NEW t \in Task, NEW done \in 0 .. Steps, NEW accepted \in BOOLEAN,
           NEW opens \in BOOLEAN, StepSettled(t, done, accepted, opens)
    PROVE  TypeOK'
<1>. USE DEF TypeOK, store, memory, control, loop, budget
<1>1. work' \in [Task -> Work]
  BY SMTT(60) DEF StepSettled, Work
<1>2. term' \in [Terminal -> Session]
  <2>1. ASSUME NEW y \in Terminal PROVE [term[y] EXCEPT !.worked = TRUE] \in Session
    <3>1. ASSUME NEW s \in Session PROVE [s EXCEPT !.worked = TRUE] \in Session
      BY DEF Session
    <3>2. term[y] \in Session
      OBVIOUS
    <3>. QED  BY <3>1, <3>2
  <2>. QED  BY <2>1 DEF StepSettled
<1>. QED  BY <1>1, <1>2 DEF StepSettled

(* No step of people, sessions or the clock breaks the types. *)
LEMMA SurroundingsType == TypeOK /\ (People \/ Sessions \/ TimePasses) => TypeOK'
<1>. SUFFICES ASSUME TypeOK, People \/ Sessions \/ TimePasses PROVE TypeOK'
  OBVIOUS
<1>. USE DEF TypeOK, OutsideWorker, store, memory, control, loop, budget
<1>1. ASSUME NEW t \in Task, NEW step \in BOOLEAN, UserOpens(t, step) PROVE TypeOK'
  <2>1. CASE OpenFresh(t, FALSE, step) /\ StepMarked(t, FALSE, step)
    <3>1. term' \in [Terminal -> Session] /\ work' \in [Task -> Work]
      BY <2>1, OpenFreshType, StepMarkedType
    <3>. QED  BY <1>1, <3>1 DEF UserOpens
  <2>2. ASSUME NEW x \in Terminal, term' = [term EXCEPT ![x].step = TRUE],
               StepMarked(t, term[x].step, TRUE)
        PROVE  TypeOK'
    <3>1. term[x].step \in BOOLEAN
      BY DEF Session
    <3>2. work' \in [Task -> Work]
      BY <2>2, <3>1, StepMarkedType
    <3>3. term' \in [Terminal -> Session]
      BY <2>2, ZenonT(60) DEF Session
    <3>. QED  BY <1>1, <3>2, <3>3 DEF UserOpens
  <2>. QED  BY <1>1, <2>1, <2>2 DEF UserOpens, LiveOn
<1>2. ASSUME NEW t \in Task, Accept(t) PROVE TypeOK'
  <2>1. work' \in [Task -> Work]
    BY <1>2, ZenonT(60) DEF Accept, Work
  <2>. QED  BY <1>2, <2>1 DEF Accept
<1>3. ASSUME NEW t \in Task, NEW latest \in BOOLEAN, NEW opens \in BOOLEAN, SendBack(t, latest, opens)
      PROVE  TypeOK'
  <2>1. work' \in [Task -> Work]
    <3>. DEFINE n == work[t].settled - 1
    <3>1. n \in 0 .. Steps
      <4>1. work[t] \in Work
        OBVIOUS
      <4>2. work[t].settled \in 0 .. Steps
        BY <4>1 DEF Work
      <4>3. work[t].settled > 0
        BY <1>3 DEF SendBack
      <4>. QED  BY <4>2, <4>3, QueueConstants, SMTT(60)
    <3>2. work' = [work EXCEPT ![t].settled = n, ![t].accepted = FALSE, ![t].opens = opens]
      BY <1>3 DEF SendBack
    <3>. HIDE DEF n
    <3>. QED  BY <3>1, <3>2, ZenonT(60) DEF Work
  <2>2. term' \in [Terminal -> Session]
    BY <1>3, ZenonT(60) DEF SendBack, Session
  <2>. QED  BY <1>3, <2>1, <2>2 DEF SendBack
<1>4. ASSUME NEW x \in Terminal, TerminalEnds(x) PROVE TypeOK'
  <2>1. term[x].task \in Task /\ term[x].step \in BOOLEAN
    BY DEF Session
  <2>2. work' \in [Task -> Work]
    BY <1>4, <2>1, StepMarkedType DEF TerminalEnds
  <2>. QED  BY <1>4, <2>2, ClosedType DEF TerminalEnds
<1>5. ASSUME NEW x \in Terminal, PermissionPrompt(x) PROVE TypeOK'
  <2>1. term' \in [Terminal -> Session]
    BY <1>5, ZenonT(60) DEF PermissionPrompt, Session
  <2>. QED  BY <1>5, <2>1 DEF PermissionPrompt
<1>6. ASSUME NEW x \in Terminal, StartStep(x) PROVE TypeOK'
  <2>1. work' \in [Task -> Work]
    BY <1>6, ZenonT(60) DEF StartStep, Work
  <2>. QED  BY <1>6, <2>1 DEF StartStep
<1>7. ASSUME NEW x \in Terminal, NEW back \in BOOLEAN, NEW opens \in BOOLEAN, Claim(x, back, opens)
      PROVE  TypeOK'
  <2>. DEFINE t == term[x].task
              done == IF back THEN work[t].settled ELSE work[t].settled + 1
  <2>1. t \in Task
    BY DEF Session
  <2>2. work[t].settled \in 0 .. Steps
    BY <2>1 DEF Work
  <2>3. done \in 0 .. Steps
    <3>1. work[t].settled < Steps
      BY <1>7 DEF Claim, HasWork
    <3>. HIDE DEF TypeOK, t
    <3>. QED  BY <2>2, <3>1, QueueConstants, SMTT(60)
  <2>4. StepSettled(t, done, FALSE, opens)
    BY <1>7 DEF Claim
  <2>. HIDE DEF t, done, TypeOK
  <2>. QED  BY <2>1, <2>3, <2>4, StepSettledType
<1>9. ASSUME NEW t \in Task, NEW accepted \in BOOLEAN, NEW opens \in BOOLEAN, TickDone(t, accepted, opens)
      PROVE  TypeOK'
  <2>1. work[t].settled \in 0 .. Steps
    BY DEF Work
  <2>2. work[t].settled + 1 \in 0 .. Steps
    BY <1>9, <2>1, QueueConstants, SMTT(60) DEF TickDone, HasWork
  <2>3. StepSettled(t, work[t].settled + 1, accepted, opens)
    BY <1>9 DEF TickDone
  <2>. HIDE DEF TypeOK
  <2>. QED  BY <2>2, <2>3, StepSettledType
<1>8. CASE TimePasses
  BY <1>8 DEF TimePasses, TimeComes
<1>. QED
  BY <1>1, <1>2, <1>3, <1>4, <1>5, <1>6, <1>7, <1>8, <1>9 DEF People, Sessions

(* The two ways a handler moves on keep the worker's position well typed.   *)
LEMMA GotoType ==
    ASSUME NEW point \in Point, Goto(point)
    PROVE  pc' \in Point /\ hand' \in Hand
BY Blanks DEF Goto

(* The end of a handler leaves the worker at a point it knows. *)
LEMMA ReturnType ==
    ASSUME Return
    PROVE  pc' \in Point /\ hand' \in Hand
BY GotoType DEF Return, Point

(* The point "mark" is entered with an item and a state to write. *)
LEMMA MarkType ==
    ASSUME NEW i \in Item, NEW s \in Listed, NEW after \in {"advance", "hold"}, Mark(i, s, after)
    PROVE  pc' \in Point /\ hand' \in Hand
BY Blanks DEF Mark, GotoWith, Point, Hand

(* release_running_steps leaves the work of each task typed. *)
LEMMA ReleasedType ==
    ASSUME work \in [Task -> Work], tasks \subseteq Task, NEW t \in Task
    PROVE  Released(t) \in [Task -> Work]
BY ZenonT(60) DEF Released, Work

(* Every state an outcome can be *)
LEMMA States == Listed \subseteq ItemState /\ {"Queued", "Running", "Finished", "Skipped", "Failed"} \subseteq Listed
BY DEF Listed, ItemState, Settled

(* review leaves the worker's memory typed. *)
LEMMA ReviewSessionType ==
    ASSUME TypeOK, NEW a \in active, NEW next, ReviewSession(a, next),
           next => pc' \in Point /\ hand' \in Hand
    PROVE  /\ active' \subseteq Active /\ pending' \subseteq Command
           /\ term' \in [Terminal -> Session] /\ work' \in [Task -> Work]
           /\ pc' \in Point /\ hand' \in Hand
<1>. USE DEF TypeOK
<1>1. a \in Active
  OBVIOUS
<1>2. CASE a.task \in tasks
  <2>1. ReviewOpenTask(a) /\ next /\ UNCHANGED <<term, work>>
    BY <1>2 DEF ReviewSession
  <2>2. work[a.task].settled \in Nat
    BY <1>1, QueueConstants, SMTT(60) DEF Active, Work
  <2>3. active' \subseteq Active
    <3>. DEFINE seen == [a EXCEPT !.settled =
                            IF work[a.task].settled > a.settled THEN work[a.task].settled ELSE @]
    <3>1. seen \in Active
      BY <1>1, <2>2 DEF Active
    <3>2. active' \in {(active \ {a}) \cup {[a EXCEPT !.closing = TRUE]},
                       (active \ {a}) \cup {[seen EXCEPT !.closing = TRUE]},
                       (active \ {a}) \cup {seen}}
      BY <2>1 DEF ReviewOpenTask, CloseLater
    <3>. HIDE DEF seen
    <3>3. [a EXCEPT !.closing = TRUE] \in Active /\ [seen EXCEPT !.closing = TRUE] \in Active
      BY <1>1, <3>1 DEF Active
    <3>. QED  BY <3>1, <3>2, <3>3
  <2>4. pending' \subseteq Command
    BY <1>1, <2>1, SMTT(60) DEF ReviewOpenTask, CloseLater, Active, Command
  <2>. QED  BY <2>1, <2>3, <2>4
<1>3. CASE a.task \notin tasks
  BY <1>1, <1>3, ClosedType, ReleasedType, GotoType, SMTT(60) DEF ReviewSession, Forgotten, CloseSession, Active, Point
<1>. QED
  BY <1>2, <1>3

(* session_ended leaves the worker's memory typed. *)
LEMMA SessionGoneType ==
    ASSUME TypeOK, NEW a \in active, SessionGone(a)
    PROVE  /\ active' \subseteq Active /\ pending' \subseteq Command
           /\ term' \in [Terminal -> Session] /\ work' \in [Task -> Work]
           /\ pc' \in Point /\ hand' \in Hand
<1>1. a \in Active
  BY DEF TypeOK
<1>2. pc' \in Point /\ hand' \in Hand
  BY <1>1, MarkType, States DEF SessionGone, Active
<1>. QED
  BY <1>1, <1>2, ReleasedType DEF TypeOK, SessionGone, Forgotten, Active

(* No signal, tick or promised command breaks the types. *)
LEMMA SignalsType == TypeOK /\ (Signals \/ HandleTick \/ HandlePending) => TypeOK'
<1>. SUFFICES ASSUME TypeOK, Signals \/ HandleTick \/ HandlePending PROVE TypeOK'
  OBVIOUS
<1>. USE DEF store, memory, control, loop, budget
<1>1. ASSUME NEW t \in Task, HandleReview(t) PROVE TypeOK'
  <2>1. PICK a \in active : ReviewSession(a, Return)
    BY <1>1 DEF HandleReview, OnTask
  <2>2. Return => pc' \in Point /\ hand' \in Hand
    BY ReturnType
  <2>3. /\ active' \subseteq Active /\ pending' \subseteq Command
        /\ term' \in [Terminal -> Session] /\ work' \in [Task -> Work]
        /\ pc' \in Point /\ hand' \in Hand
    BY <2>1, <2>2, ReviewSessionType
  <2>. QED  BY <1>1, <2>3 DEF HandleReview, TypeOK
<1>2. ASSUME NEW x \in Terminal, HandleSessionEnded(x) PROVE TypeOK'
  <2>1. PICK a \in active : SessionGone(a)
    BY <1>2 DEF HandleSessionEnded, InHandOn
  <2>. QED  BY <1>2, <2>1, SessionGoneType DEF HandleSessionEnded, TypeOK
<1>3. CASE HandleStop
  <2>1. pc' \in Point /\ hand' \in Hand
    BY <1>3, GotoType DEF HandleStop, Point
  <2>2. \A x \in Terminal : Closed(x)[x] \in Session
    BY ClosedType DEF TypeOK
  <2>3. term' \in [Terminal -> Session]
    BY <1>3, <2>2 DEF HandleStop, TypeOK
  <2>4. work' \in [Task -> Work]
    BY <1>3, ZenonT(60) DEF HandleStop, TypeOK, Work
  <2>. QED  BY <1>3, <2>1, <2>3, <2>4 DEF HandleStop, TypeOK
<1>4. CASE HandleTick
  BY <1>4, GotoType DEF HandleTick, TypeOK, Point
<1>5. ASSUME NEW c \in pending, HandleSettleOrPause(c) PROVE TypeOK'
  <2>1. PICK a \in active : /\ active' = Forgotten(a)
                            /\ CloseSession(a)
                            /\ IF c.kind = "Settle" THEN Mark(a.item, "Finished", "advance")
                                                    ELSE Mark(a.item, "Queued", "hold")
    BY <1>5 DEF HandleSettleOrPause
  <2>2. a.item \in Item /\ a.task \in Task /\ a.terminal \in Terminal
    BY DEF TypeOK, Active
  <2>3. pc' \in Point /\ hand' \in Hand
    BY <2>1, <2>2, MarkType, States
  <2>4. term' \in [Terminal -> Session] /\ work' \in [Task -> Work]
    BY <2>1, <2>2, ClosedType, ReleasedType DEF CloseSession, TypeOK
  <2>. QED  BY <1>5, <2>1, <2>3, <2>4 DEF HandleSettleOrPause, TypeOK, Taken, Forgotten
<1>6. ASSUME NEW c \in pending, HandleRenew(c) PROVE TypeOK'
  <2>1. PICK a \in active : /\ active' = (active \ {a}) \cup {[a EXCEPT !.closing = TRUE]}
                            /\ term' = Closed(a.terminal)
    BY <1>6 DEF HandleRenew
  <2>2. [a EXCEPT !.closing = TRUE] \in Active /\ a.terminal \in Terminal
    BY DEF TypeOK, Active
  <2>3. c.generation \in Nat
    BY DEF TypeOK, Command
  <2>4. pc' \in Point /\ hand' \in Hand
    BY <1>6, <2>3, Blanks DEF HandleRenew, GotoWith, Point, Hand
  <2>5. active' \subseteq Active
    BY <2>1, <2>2 DEF TypeOK
  <2>6. term' \in [Terminal -> Session]
    BY <2>1, <2>2, ClosedType DEF TypeOK
  <2>. QED  BY <1>6, <2>4, <2>5, <2>6 DEF HandleRenew, TypeOK, Taken
<1>7. ASSUME NEW c \in pending, HandleStale(c) PROVE TypeOK'
  BY <1>7 DEF HandleStale, Taken, TypeOK
<1>. QED
  BY <1>1, <1>2, <1>3, <1>4, <1>5, <1>6, <1>7, ZenonT(60) DEF Signals, HandlePending

(* A handler that is about to start, open or mark has an item in hand.      *)
HandHasItem == pc \in {"launch", "open", "started", "mark"} => hand.item \in Item

(* No point of a handler breaks the types. *)
LEMMA HandlerType == TypeOK /\ HandHasItem /\ InHandler => TypeOK'
<1>. SUFFICES ASSUME TypeOK, HandHasItem, InHandler PROVE TypeOK'
  OBVIOUS
<1>. USE DEF store, memory, control, loop, budget
<1>1. CASE Recover
  <2>1. items' \in [Item -> ItemRow]
    BY <1>1, MovedType, States, SMTT(60) DEF Recover, RecoverAfterRestart, RunningToQueued, TypeOK
  <2>. QED  BY <1>1, <2>1, GotoType DEF Recover, RecoverAfterRestart, TypeOK, Point
<1>2. CASE Resume
  BY <1>2, GotoType DEF Resume, ResumeQueue, MoveQueue, TypeOK, Point, QueueRow, QueueState
<1>3. CASE NotePermissionWait
  <2>1. PICK a \in active :
           /\ active' = (active \ {a}) \cup {[a EXCEPT !.asks = term[a.terminal].asks]}
           /\ items' = IF items[a.item].state \in Listed
                       THEN [items EXCEPT ![a.item].state = "Running",
                                          ![a.item].asks = term[a.terminal].asks]
                       ELSE items
    BY <1>3 DEF NotePermissionWait
  <2>2. a \in Active /\ term[a.terminal].asks \in BOOLEAN
    BY DEF TypeOK, Active, Session
  <2>3. active' \subseteq Active
    BY <2>1, <2>2 DEF TypeOK, Active
  <2>4. items' \in [Item -> ItemRow]
    BY <2>1, <2>2, SMTT(60) DEF TypeOK, Active, ItemRow, ItemState, Listed
  <2>. QED  BY <1>3, <2>3, <2>4, ReturnType DEF NotePermissionWait, TypeOK
<1>4. CASE TickAdvances
  BY <1>4, GotoType DEF TickAdvances, TypeOK, Point
<1>5. ASSUME NEW c \in todo, TickSession(c) PROVE TypeOK'
  <2>. DEFINE differ == \E a \in active : a.generation = c.generation /\ a.asks # term[a.terminal].asks
              next == IF differ THEN GotoWith("note", [NoHand EXCEPT !.generation = c.generation])
                                ELSE Goto("tick")
              Typed == /\ active' \subseteq Active /\ pending' \subseteq Command
                       /\ term' \in [Terminal -> Session] /\ work' \in [Task -> Work]
                       /\ pc' \in Point /\ hand' \in Hand
  <2>1. c.generation \in Nat
    BY DEF TypeOK, Active
  <2>2. next => pc' \in Point /\ hand' \in Hand
    BY <2>1, GotoType, Blanks, SMTT(60) DEF GotoWith, Point, Hand
  <2>3. ASSUME NEW a \in active, SessionGone(a) PROVE Typed
    BY <2>3, SessionGoneType
  <2>4. ASSUME UNCHANGED <<active, pending, term, work>>, next \/ Goto("tick") PROVE Typed
    BY <2>2, <2>4, GotoType DEF TypeOK, Point
  <2>5. ASSUME NEW a \in active, ReviewSession(a, next) PROVE Typed
    <3>. HIDE DEF next
    <3>. QED  BY <2>2, <2>5, ReviewSessionType
  <2>6. Typed
    <3>. HIDE DEF Typed
    <3>. QED  BY <1>5, <2>3, <2>4, <2>5 DEF TickSession, InHandOn, OnTask
  <2>. QED  BY <1>5, <2>6 DEF TickSession, TypeOK
<1>6. CASE Advance
  <2>1. pc' \in Point /\ hand' \in Hand
    <3>1. Return => pc' \in Point /\ hand' \in Hand
      BY ReturnType
    <3>2. Goto("finish") \/ Goto("hold") => pc' \in Point /\ hand' \in Hand
      BY GotoType DEF Point
    <3>3. GotoWith("blocked", [NoHand EXCEPT !.items = Queued]) => pc' \in Point /\ hand' \in Hand
      BY Blanks, SMTT(60) DEF GotoWith, Point, Hand, Queued, InState
    <3>4. ASSUME NEW i \in Item,
                 GotoWith("launch", [NoHand EXCEPT !.item = i, !.task = items[i].task,
                                                   !.parallel = queue.places > 1])
          PROVE  pc' \in Point /\ hand' \in Hand
      <4>. DEFINE t == items[i].task
                  several == queue.places > 1
      <4>1. t \in Task
        BY DEF TypeOK, ItemRow
      <4>2. several \in BOOLEAN
        BY SMTT(60)
      <4>3. GotoWith("launch", [NoHand EXCEPT !.item = i, !.task = t, !.parallel = several])
        BY <3>4
      <4>. HIDE DEF t, several
      <4>4. [NoHand EXCEPT !.item = i, !.task = t, !.parallel = several] \in Hand
        BY <4>1, <4>2, Blanks DEF Hand
      <4>. QED  BY <4>3, <4>4 DEF GotoWith, Point
    <3>. QED  BY <1>6, <3>1, <3>2, <3>3, <3>4, ZenonT(60) DEF Advance, Verdicts
  <2>. QED  BY <1>6, <2>1 DEF Advance, TypeOK
<1>7. CASE Finish
  BY <1>7, ReturnType DEF Finish, FinishQueue, MoveQueue, TypeOK, QueueRow, QueueState
<1>8. CASE StopBlocked
  <2>1. items' \in [Item -> ItemRow]
    BY <1>8, MovedType, States, SMTT(60) DEF StopBlocked, StopBlockedQueue, TypeOK
  <2>2. queue' \in QueueRow /\ due' \in BOOLEAN
    BY <1>8, MoveQueueType DEF StopBlocked, StopBlockedQueue, TypeOK, QueueState
  <2>3. pc' \in Point /\ hand' \in Hand
    BY <1>8, ReturnType DEF StopBlocked
  <2>. QED  BY <1>8, <2>1, <2>2, <2>3 DEF StopBlocked, TypeOK
<1>9. CASE Hold
  BY <1>9, ReturnType DEF Hold, HoldQueue, TypeOK, QueueRow, QueueState
<1>10. CASE Launch
  <2>1. hand.item \in Item /\ hand.task \in Task
    BY <1>10 DEF Launch, HandHasItem, TypeOK, Hand
  <2>2. items' \in [Item -> ItemRow]
    BY <1>10, <2>1, MarkItemType, States DEF Launch, TypeOK
  <2>3. work[hand.task].settled \in Nat
    BY <2>1, QueueConstants, SMTT(60) DEF TypeOK, Work
  <2>4. pc' \in Point /\ hand' \in Hand
    <3>1. GotoWith("open", [hand EXCEPT !.settled = work[hand.task].settled])
             => pc' \in Point /\ hand' \in Hand
      BY <2>3 DEF GotoWith, Point, Hand, TypeOK
    <3>2. Goto("advance") => pc' \in Point /\ hand' \in Hand
      BY GotoType DEF Point
    <3>. QED  BY <1>10, <3>1, <3>2 DEF Launch
  <2>. QED  BY <1>10, <2>2, <2>4 DEF Launch, TypeOK
<1>11. CASE Open
  <2>1. hand.item \in Item /\ hand.task \in Task
    BY <1>11 DEF Open, HandHasItem, TypeOK, Hand
  <2>2. items' \in [Item -> ItemRow]
    BY <1>11, <2>1, MarkItemType, States DEF Open, TypeOK
  <2>3. ASSUME NEW x \in Terminal, Opened(x)
        PROVE  active' \subseteq Active /\ generation' \in Nat /\ pc' \in Point /\ hand' \in Hand
    <3>1. pc' \in Point /\ hand' \in Hand
      BY <2>1, <2>3, Blanks DEF Opened, GotoWith, Point, Hand
    <3>2. generation' \in Nat
      BY <2>3, SMTT(60) DEF Opened, TypeOK
    <3>3. active' \subseteq Active
      <4>1. hand.settled \in Nat /\ generation + 1 \in Nat
        BY SMTT(60) DEF TypeOK, Hand
      <4>2. [generation |-> generation + 1, item |-> hand.item, task |-> hand.task, terminal |-> x,
             settled |-> hand.settled, asks |-> FALSE, closing |-> FALSE] \in Active
        BY <2>1, <4>1 DEF Active
      <4>. QED  BY <2>3, <4>2 DEF Opened, TypeOK
    <3>. QED  BY <3>1, <3>2, <3>3
  <2>4. ASSUME Goto("advance") PROVE pc' \in Point /\ hand' \in Hand
    BY <2>4, GotoType DEF Point
  <2>5. OpenFresh(hand.task, TRUE, FALSE) => NewTerminal \in Terminal /\ term' \in [Terminal -> Session]
    BY <2>1, OpenFreshType DEF TypeOK
  <2>6. /\ active' \subseteq Active /\ generation' \in Nat /\ pc' \in Point /\ hand' \in Hand
        /\ term' \in [Terminal -> Session] /\ parked' \subseteq Item
    BY <1>11, <2>1, <2>3, <2>4, <2>5 DEF Open, TypeOK, LiveOn
  <2>. QED  BY <1>11, <2>2, <2>6 DEF Open, TypeOK
<1>12. CASE Started
  <2>1. items' \in [Item -> ItemRow]
    BY <1>12, MarkItemType, States DEF Started, HandHasItem, TypeOK
  <2>. QED  BY <1>12, <2>1, GotoType DEF Started, TypeOK, Point
<1>13. CASE MarkAndGoOn
  <2>1. hand.item \in Item /\ hand.state \in ItemState /\ hand.after \in {"advance", "hold"}
    BY <1>13, States DEF MarkAndGoOn, HandHasItem, TypeOK, Hand
  <2>2. items' \in [Item -> ItemRow]
    BY <1>13, <2>1, MarkItemType DEF MarkAndGoOn, TypeOK
  <2>3. pc' \in Point /\ hand' \in Hand
    BY <1>13, <2>1, GotoType, ReturnType DEF MarkAndGoOn, Point
  <2>. QED  BY <1>13, <2>2, <2>3 DEF MarkAndGoOn, TypeOK
<1>14. CASE Renew
  <2>1. PICK a \in active :
          \/ /\ \E x \in LiveOn(a.task) : Renewed(a, x)
             /\ UNCHANGED term
          \/ /\ OpenFresh(a.task, TRUE, FALSE)
             /\ Renewed(a, NewTerminal)
          \/ /\ active' = Forgotten(a)
             /\ work' = Released(a.task)
             /\ Mark(a.item, "Failed", "advance")
             /\ UNCHANGED term
    BY <1>14 DEF Renew
  <2>2. a \in Active /\ a.item \in Item /\ a.task \in Task
    BY DEF TypeOK, Active
  <2>3. ASSUME NEW x \in Terminal, Renewed(a, x)
        PROVE  active' \subseteq Active /\ work' \in [Task -> Work] /\ pc' \in Point /\ hand' \in Hand
    <3>1. [a EXCEPT !.terminal = x, !.closing = FALSE] \in Active
      BY <2>2 DEF Active
    <3>2. active' \subseteq Active
      BY <2>3, <3>1 DEF Renewed, TypeOK
    <3>. QED  BY <2>3, <3>2, ReturnType DEF Renewed, TypeOK
  <2>4. OpenFresh(a.task, TRUE, FALSE) => NewTerminal \in Terminal /\ term' \in [Terminal -> Session]
    BY <2>2, OpenFreshType DEF TypeOK
  <2>5. Mark(a.item, "Failed", "advance") => pc' \in Point /\ hand' \in Hand
    BY <2>2, MarkType, States
  <2>6. Released(a.task) \in [Task -> Work]
    BY <2>2, ReleasedType DEF TypeOK
  <2>7. /\ active' \subseteq Active /\ work' \in [Task -> Work] /\ pc' \in Point /\ hand' \in Hand
        /\ term' \in [Terminal -> Session]
    BY <2>1, <2>3, <2>4, <2>5, <2>6, ZenonT(60) DEF TypeOK, LiveOn, Forgotten
  <2>. QED  BY <1>14, <2>7 DEF Renew, TypeOK
<1>15. CASE Stop
  <2>1. items' \in [Item -> ItemRow]
    BY <1>15, MovedType, States, SMTT(60) DEF Stop, StopQueue, RunningToQueued, TypeOK
  <2>2. queue' \in QueueRow /\ due' \in BOOLEAN
    BY <1>15, MoveQueueType DEF Stop, StopQueue, TypeOK, QueueState
  <2>3. pc' \in Point /\ hand' \in Hand
    BY <1>15, ReturnType DEF Stop
  <2>. QED  BY <1>15, <2>1, <2>2, <2>3 DEF Stop, TypeOK
<1>. QED
  BY <1>1, <1>2, <1>3, <1>4, <1>5, <1>6, <1>7, <1>8, <1>9, <1>10, <1>11, <1>12, <1>13, <1>14, <1>15
 , ZenonT(60) DEF InHandler

(* No failure or crash breaks the types. *)
LEMMA FailureType == TypeOK /\ (HandlerFails \/ Crash) => TypeOK'
<1>. SUFFICES ASSUME TypeOK, HandlerFails \/ Crash PROVE TypeOK'
  OBVIOUS
<1>. USE DEF store, memory
<1>1. CASE HandlerFails
  <2>1. pc' \in Point /\ hand' \in Hand
    BY <1>1, GotoType DEF HandlerFails, Point
  <2>2. faults' \in Nat /\ todo' = {} /\ ticking' = FALSE
    BY <1>1, SMTT(60) DEF HandlerFails, TypeOK
  <2>. QED  BY <1>1, <2>1, <2>2 DEF HandlerFails, TypeOK
<1>2. CASE Crash
  <2>1. \A x \in Terminal : Closed(x)[x] \in Session
    BY ClosedType DEF TypeOK
  <2>2. term' \in [Terminal -> Session]
    BY <1>2, <2>1 DEF Crash, TypeOK
  <2>3. pc' \in Point /\ hand' \in Hand
    BY <1>2, GotoType DEF Crash, Point
  <2>4. crashes' \in Nat /\ generation' \in Nat
    BY <1>2, SMTT(60) DEF Crash, TypeOK
  <2>. QED  BY <1>2, <2>2, <2>3, <2>4 DEF Crash, TypeOK
<1>. QED
  BY <1>1, <1>2

(* Points that write about an item are entered with one. *)
LEMMA HandHasItemKept == TypeOK /\ HandHasItem /\ [Next]_vars => HandHasItem'
<1>. SUFFICES ASSUME TypeOK, HandHasItem, [Next]_vars PROVE HandHasItem'
  OBVIOUS
<1>. USE DEF HandHasItem, memory, control, loop, budget
<1>0. \A a \in active : a.item \in Item
  BY DEF TypeOK, Active
<1>1. ASSUME UNCHANGED <<pc, hand>> PROVE HandHasItem'
  BY <1>1
<1>2. CASE Console \/ People \/ Sessions \/ TimePasses
  <2>1. UNCHANGED <<pc, hand>>
    BY <1>2, ZenonT(60) DEF Console, People, Sessions, TimePasses, OutsideWorker, UserOpens, Accept, SendBack,
                TerminalEnds, PermissionPrompt, StartStep, Claim, TickDone, StepSettled
  <2>. QED  BY <1>1, <2>1
<1>3. ASSUME NEW point, point \notin {"launch", "open", "started", "mark"}, Goto(point)
      PROVE  HandHasItem'
  BY <1>3 DEF Goto
<1>4. ASSUME Return PROVE HandHasItem'
  BY <1>3, <1>4 DEF Return
<1>5. ASSUME NEW i \in Item, NEW s, NEW after, Mark(i, s, after) PROVE HandHasItem'
  BY <1>5 DEF Mark, GotoWith, NoHand
<1>6. ASSUME NEW a \in active, NEW next, next => HandHasItem', ReviewSession(a, next)
      PROVE  HandHasItem'
  BY <1>3, <1>6 DEF ReviewSession
<1>7. ASSUME NEW a \in active, SessionGone(a) PROVE HandHasItem'
  BY <1>0, <1>5, <1>7 DEF SessionGone
<1>8. CASE Signals \/ HandleTick \/ HandlePending
  BY <1>8, <1>0, <1>1, <1>3, <1>4, <1>5, <1>6, <1>7
 , ZenonT(60) DEF Signals, HandlePending, HandleReview, OnTask, HandleSessionEnded, InHandOn, HandleStop,
      HandleTick, HandleSettleOrPause, HandleRenew, HandleStale, GotoWith
<1>9. ASSUME NEW c \in todo, TickSession(c) PROVE HandHasItem'
  <2>. DEFINE differ == \E a \in active : a.generation = c.generation /\ a.asks # term[a.terminal].asks
              next == IF differ THEN GotoWith("note", [NoHand EXCEPT !.generation = c.generation])
                                ELSE Goto("tick")
  <2>1. next => HandHasItem'
    BY <1>3 DEF GotoWith
  <2>2. ASSUME NEW a \in active, ReviewSession(a, next) PROVE HandHasItem'
    <3>. HIDE DEF next
    <3>. QED  BY <1>6, <2>1, <2>2
  <2>3. Goto("tick") => HandHasItem'
    BY <1>3
  <2>. HIDE DEF HandHasItem
  <2>. QED  BY <1>7, <1>9, <2>1, <2>2, <2>3 DEF TickSession, InHandOn, OnTask
<1>10. CASE Advance
  <2>1. ASSUME NEW i \in Item,
               GotoWith("launch", [NoHand EXCEPT !.item = i, !.task = items[i].task,
                                                 !.parallel = queue.places > 1])
        PROVE  HandHasItem'
    BY <2>1 DEF GotoWith, NoHand
  <2>2. GotoWith("blocked", [NoHand EXCEPT !.items = Queued]) => HandHasItem'
    BY DEF GotoWith
  <2>3. Goto("finish") \/ Goto("hold") => HandHasItem'
    BY <1>3
  <2>. HIDE DEF HandHasItem
  <2>. QED  BY <1>4, <1>10, <2>1, <2>2, <2>3 DEF Advance, Verdicts
<1>11. CASE Launch
  <2>1. GotoWith("open", [hand EXCEPT !.settled = work[hand.task].settled]) => HandHasItem'
    BY <1>11 DEF Launch, GotoWith, TypeOK, Hand
  <2>. QED  BY <1>3, <1>11, <2>1 DEF Launch
<1>12. CASE Open
  <2>1. ASSUME NEW x, Opened(x) PROVE HandHasItem'
    BY <1>12, <2>1 DEF Open, Opened, GotoWith, NoHand
  <2>. QED  BY <1>3, <1>12, <2>1 DEF Open
<1>13. CASE Renew
  BY <1>0, <1>4, <1>5, <1>13 DEF Renew, Renewed
<1>14. CASE MarkAndGoOn
  <2>1. hand.after \in {"advance", "hold"}
    BY DEF TypeOK, Hand
  <2>. QED  BY <1>3, <1>4, <1>14, <2>1 DEF MarkAndGoOn
<1>15. CASE \/ Recover \/ Resume \/ NotePermissionWait \/ TickAdvances \/ Finish \/ StopBlocked
            \/ Hold \/ Started \/ Stop \/ HandlerFails \/ Crash
  BY <1>3, <1>4, <1>15 DEF Recover, Resume, NotePermissionWait, TickAdvances, Finish, StopBlocked,
                           Hold, Started, Stop, HandlerFails, Crash
<1>16. CASE UNCHANGED vars
  BY <1>16 DEF vars
<1>. QED
  BY <1>2, <1>8, <1>9, <1>10, <1>11, <1>12, <1>13, <1>14, <1>15, <1>16 DEF Next, InHandler

(* The types hold when the application starts. *)
LEMMA TypeInit == Init => TypeOK /\ HandHasItem
<1>. SUFFICES ASSUME Init PROVE TypeOK /\ HandHasItem
  OBVIOUS
<1>1. work \in [Task -> Work]
  BY Blanks DEF Init
<1>2. queue \in QueueRow
  BY QueueConstants, SMTT(60) DEF Init, QueueRow, QueueState
<1>. QED
  BY <1>1, <1>2, Blanks DEF Init, TypeOK, HandHasItem, Point

(* The types are kept by every step. *)
LEMMA TypeStep == TypeOK /\ HandHasItem /\ [Next]_vars => TypeOK' /\ HandHasItem'
<1>1. TypeOK /\ UNCHANGED vars => TypeOK'
  BY DEF TypeOK, vars, store, memory, control, loop, budget
<1>. QED
  BY <1>1, ConsoleType, SurroundingsType, SignalsType, HandlerType, FailureType, HandHasItemKept
  DEF Next

(* The state always has the types the code declares, whatever the sessions,  *)
(* the people, the failures and the crashes do.                              *)
THEOREM TypeCorrect == Spec => []TypeOK
BY TypeInit, TypeStep, PTL DEF Spec

-----------------------------------------------------------------------------
(* The inductive invariant of the worker *)

(* The console never takes the queue out of Running, and an item that waits  *)
(* after a step outside the worker waited before it or is new.               *)
LEMMA OutsideFrame ==
    ASSUME TypeOK, Console \/ People \/ Sessions \/ TimePasses
    PROVE  /\ UNCHANGED <<active, parked, generation, pending, pc, hand>>
           /\ queue.state = "Running" => queue'.state = "Running"
           /\ queue'.state = "Idle" => queue.state = "Idle"
           /\ \A i \in Item : items[i].state # "New" => items'[i].state # "New"
           /\ \A i \in Item : items'[i].state = "Queued" => items[i].state \in {"New", "Queued"}
<1>1. UNCHANGED <<active, parked, generation, pending, pc, hand>>
  BY ZenonT(60) DEF Console, People, Sessions, TimePasses, OutsideWorker, UserOpens, Accept, SendBack,
               TerminalEnds, PermissionPrompt, StartStep, Claim, TickDone, StepSettled, memory, control
<1>2. CASE People \/ Sessions \/ TimePasses
  <2>1. UNCHANGED <<queue, items>>
    BY <1>2, ZenonT(60) DEF People, Sessions, TimePasses, TimeComes, UserOpens, Accept, SendBack,
                       TerminalEnds, PermissionPrompt, StartStep, Claim, TickDone, StepSettled, store
  <2>. QED  BY <1>1, <2>1
<1>3. CASE Console
  <2>1. \/ queue' = queue
        \/ queue.state = "Idle" /\ queue' = [queue EXCEPT !.state = "Running"]
        \/ \E s \in {"Running", "Scheduled"} :
              queue.state \in {"Idle", "Scheduled"} /\ queue' = [queue EXCEPT !.state = s]
        \/ \E n, c : queue' = [queue EXCEPT !.places = n, !.ceiling = c]
    BY <1>3 DEF Console, Add, AddAndArm, Remove, MoveTo, ClearSettled, Start, UpdateSettings,
                DeleteTask, MoveQueue
  <2>2. /\ queue.state = "Running" => queue'.state = "Running"
        /\ queue'.state = "Idle" => queue.state = "Idle"
    BY <2>1 DEF TypeOK, QueueRow, QueueState
  <2>3. ASSUME NEW i \in Item
        PROVE  /\ items[i].state # "New" => items'[i].state # "New"
               /\ items'[i].state = "Queued" => items[i].state \in {"New", "Queued"}
    <3>1. ASSUME NEW t \in Task, Enqueue(t)
          PROVE  \/ items'[i] = items[i]
                 \/ items[i].state = "New" /\ items'[i].state = "Queued"
      <4>. DEFINE n == CHOOSE k \in Item : items[k].state = "New"
                  row == [state |-> "Queued", task |-> t, asks |-> FALSE,
                          position |-> Cardinality(ListedItems)]
      <4>1. n \in Item /\ items[n].state = "New"
        BY <3>1 DEF Enqueue, InState
      <4>2. items' = [items EXCEPT ![n] = row]
        BY <3>1 DEF Enqueue
      <4>. HIDE DEF n
      <4>. QED  BY <4>1, <4>2 DEF TypeOK
    <3>2. ASSUME NEW p
          PROVE  Renumbered(items, p)[i].state = items[i].state
      BY DEF Renumbered, TypeOK, ItemRow
    <3>3. GoneRow.state = "Gone"
      BY DEF GoneRow, NoRow
    <3>4. ASSUME NEW k \in Item, Remove(k)
          PROVE  items'[i].state \in {items[i].state, "Gone"}
      <4>1. PICK p : items' = [Renumbered(items, p) EXCEPT ![k] = GoneRow]
        BY <3>4 DEF Remove
      <4>. QED  BY <3>2, <3>3, <4>1 DEF Renumbered
    <3>5. ASSUME NEW k \in Item, NEW at, MoveTo(k, at)
          PROVE  items'[i].state = items[i].state
      BY <3>2, <3>5 DEF MoveTo
    <3>6. ASSUME ClearSettled
          PROVE  items'[i].state \in {items[i].state, "Gone"}
      BY <3>2, <3>3, <3>6, ZenonT(60) DEF ClearSettled
    <3>7. ASSUME NEW t \in Task, DeleteTask(t)
          PROVE  items'[i].state \in {items[i].state, "Gone"}
      BY <3>3, <3>7 DEF DeleteTask
    <3>8. CASE items' = items
      BY <3>8
    <3>9. \/ \E t \in Task : Enqueue(t)
          \/ \E k \in Item : Remove(k)
          \/ \E k \in Item : \E at : MoveTo(k, at)
          \/ ClearSettled
          \/ \E t \in Task : DeleteTask(t)
          \/ items' = items
      BY <1>3 DEF Console, Add, AddAndArm, Start, UpdateSettings
    <3>10. \/ items'[i] = items[i]
           \/ items[i].state = "New" /\ items'[i].state = "Queued"
           \/ items'[i].state \in {items[i].state, "Gone"}
      BY <3>1, <3>4, <3>5, <3>6, <3>7, <3>8, <3>9
    <3>. QED  BY <3>10
  <2>. QED  BY <1>1, <2>2, <2>3
<1>. QED
  BY <1>2, <1>3

(* No step outside the worker breaks what its handlers rely on. *)
LEMMA OutsideInv ==
    ASSUME TypeOK, HandHasItem, WorkerInv, Console \/ People \/ Sessions \/ TimePasses
    PROVE  WorkerInv'
<1>. USE OutsideFrame
<1>1. Numbered' /\ ClosingIsPromised'
  BY DEF WorkerInv, Numbered, ClosingIsPromised
<1>2. SessionsOnlyWhileRunning'
  BY DEF WorkerInv, SessionsOnlyWhileRunning
<1>3. ParkedInRun'
  BY DEF WorkerInv, ParkedInRun, TypeOK, Queued, InState
<1>. QED
  BY <1>1, <1>2, <1>3 DEF WorkerInv, HandHasItem

(* Replacing a session in hand by an updated one of the same generation      *)
(* keeps the generations apart, and touches no other session.                *)
LEMMA Replaced ==
    ASSUME Numbered, NEW a \in active, NEW b, b.generation = a.generation,
           active' = (active \ {a}) \cup {b}, generation' = generation
    PROVE  /\ Numbered'
           /\ \A c \in active' : c # b => c \in active /\ c.generation # a.generation
BY DEF Numbered

(* Forgetting a session keeps the others' promises and numbers. *)
LEMMA Removed ==
    ASSUME Numbered, NEW a \in active, active' = Forgotten(a), generation' = generation
    PROVE  /\ Numbered'
           /\ \A c \in active' : c \in active /\ c.generation # a.generation
BY DEF Numbered, Forgotten

(* review keeps every promise it makes: the session it marks closing has its *)
(* command promised, and no other session changes.                           *)
LEMMA ReviewKeepsPromises ==
    ASSUME TypeOK, Numbered, ClosingIsPromised, NEW a \in active, ~a.closing, NEW next,
           ReviewSession(a, next), generation' = generation, pc # "renew"
    PROVE  Numbered' /\ ClosingIsPromised'
<1>1. CASE a.task \notin tasks
  <2>1. active' = Forgotten(a) /\ pending' = pending
    BY <1>1 DEF ReviewSession
  <2>. QED  BY <2>1, Removed DEF ClosingIsPromised
<1>2. CASE a.task \in tasks
  <2>. DEFINE seen == [a EXCEPT !.settled =
                          IF work[a.task].settled > a.settled THEN work[a.task].settled ELSE @]
              Signal(kind) == [kind |-> kind, generation |-> a.generation]
  <2>1. ReviewOpenTask(a)
    BY <1>2 DEF ReviewSession
  <2>2. a \in Active /\ seen.generation = a.generation /\ seen.closing = a.closing
    BY DEF TypeOK, Active
  <2>3. \/ /\ active' = (active \ {a}) \cup {[a EXCEPT !.closing = TRUE]}
           /\ pending' = pending \cup {Signal("Settle")}
        \/ /\ active' = (active \ {a}) \cup {[seen EXCEPT !.closing = TRUE]}
           /\ pending' = pending \cup {Signal("Pause")}
        \/ /\ active' = (active \ {a}) \cup {seen}
           /\ pending \subseteq pending'
    BY <2>1 DEF ReviewOpenTask, CloseLater
  <2>4. ASSUME NEW b, b.generation = a.generation, active' = (active \ {a}) \cup {b},
               pending \subseteq pending',
               b.closing => \E c \in pending' : c.generation = b.generation
                                                /\ c.kind \in {"Settle", "Pause"}
        PROVE  Numbered' /\ ClosingIsPromised'
    BY <2>4, Replaced DEF ClosingIsPromised
  <2>. HIDE DEF seen
  <2>5. CASE /\ active' = (active \ {a}) \cup {[a EXCEPT !.closing = TRUE]}
             /\ pending' = pending \cup {Signal("Settle")}
    <3>. DEFINE b == [a EXCEPT !.closing = TRUE]
    <3>1. b.generation = a.generation
      BY <2>2 DEF Active
    <3>2. active' = (active \ {a}) \cup {b} /\ pending \subseteq pending'
      BY <2>5
    <3>. HIDE DEF b
    <3>3. \E c \in pending' : c.generation = b.generation /\ c.kind \in {"Settle", "Pause"}
      <4>. DEFINE c == Signal("Settle")
      <4>1. c \in pending'
        BY <2>5
      <4>2. c.generation = b.generation /\ c.kind = "Settle"
        BY <3>1
      <4>. HIDE DEF c
      <4>. QED  BY <4>1, <4>2
    <3>. QED  BY <2>4, <3>1, <3>2, <3>3
  <2>6. CASE /\ active' = (active \ {a}) \cup {[seen EXCEPT !.closing = TRUE]}
             /\ pending' = pending \cup {Signal("Pause")}
    <3>. DEFINE b == [seen EXCEPT !.closing = TRUE]
    <3>1. b.generation = a.generation
      BY <2>2 DEF Active, seen
    <3>2. active' = (active \ {a}) \cup {b} /\ pending \subseteq pending'
      BY <2>6
    <3>. HIDE DEF b
    <3>3. \E c \in pending' : c.generation = b.generation /\ c.kind \in {"Settle", "Pause"}
      <4>. DEFINE c == Signal("Pause")
      <4>1. c \in pending'
        BY <2>6
      <4>2. c.generation = b.generation /\ c.kind = "Pause"
        BY <3>1
      <4>. HIDE DEF c
      <4>. QED  BY <4>1, <4>2
    <3>. QED  BY <2>4, <3>1, <3>2, <3>3
  <2>7. CASE active' = (active \ {a}) \cup {seen} /\ pending \subseteq pending'
    BY <2>2, <2>4, <2>7
  <2>. QED  BY <2>3, <2>5, <2>6, <2>7
<1>. QED
  BY <1>1, <1>2

(* A step that changes no row, and no memory but the sessions in hand, keeps *)
(* what is said of rows as long as no session appears.                       *)
LEMMA RowsKept ==
    ASSUME WorkerInv, UNCHANGED <<store, parked>>, active = {} => active' = {}
    PROVE  SessionsOnlyWhileRunning' /\ ParkedInRun'
BY DEF WorkerInv, SessionsOnlyWhileRunning, ParkedInRun, store, Queued, InState

(* No signal, tick or promised command breaks what the handlers rely on. *)
LEMMA SignalsInv ==
    ASSUME TypeOK, HandHasItem, WorkerInv, Signals \/ HandleTick \/ HandlePending
    PROVE  WorkerInv'
<1>. USE DEF memory, control, loop, store
<1>0. /\ pc = "idle" /\ SessionsOnlyWhileRunning /\ ClosingIsPromised /\ Numbered /\ ParkedInRun
  BY DEF WorkerInv, Signals, HandlePending, HandleReview, HandleSessionEnded, HandleStop,
         HandleTick, HandleSettleOrPause, HandleRenew, HandleStale
<1>1. ASSUME NEW t \in Task, HandleReview(t) PROVE WorkerInv'
  <2>1. PICK a \in active : ~a.closing /\ ReviewSession(a, Return)
    BY <1>1 DEF HandleReview, OnTask
  <2>2. Numbered' /\ ClosingIsPromised'
    BY <1>0, <1>1, <2>1, ReviewKeepsPromises DEF HandleReview
  <2>3. SessionsOnlyWhileRunning' /\ ParkedInRun'
    BY <1>0, <1>1, RowsKept DEF HandleReview, OnTask
  <2>4. pc' \in {"tick", "idle", "advance"}
    BY <2>1 DEF ReviewSession, Return, Goto
  <2>. QED  BY <2>2, <2>3, <2>4 DEF WorkerInv
<1>2. ASSUME NEW x \in Terminal, HandleSessionEnded(x) PROVE WorkerInv'
  <2>1. PICK a \in active : SessionGone(a)
    BY <1>2 DEF HandleSessionEnded, InHandOn
  <2>2. active' = Forgotten(a) /\ generation' = generation /\ pending' = pending /\ pc' = "mark"
    BY <1>2, <2>1 DEF SessionGone, HandleSessionEnded, Mark, GotoWith
  <2>3. Numbered' /\ ClosingIsPromised'
    BY <1>0, <2>2, Removed DEF ClosingIsPromised
  <2>4. SessionsOnlyWhileRunning' /\ ParkedInRun'
    BY <1>2, <2>2, RowsKept DEF HandleSessionEnded
  <2>5. queue'.state = "Running"
    <3>1. queue' = queue /\ active # {}
      BY <1>2 DEF HandleSessionEnded, InHandOn, store
    <3>. QED  BY <1>0, <3>1 DEF SessionsOnlyWhileRunning
  <2>. QED  BY <2>2, <2>3, <2>4, <2>5 DEF WorkerInv
<1>3. CASE HandleStop
  <2>1. active' = {} /\ parked' = {} /\ pc' = "stop"
    BY <1>3 DEF HandleStop, Goto
  <2>. QED  BY <2>1 DEF WorkerInv, SessionsOnlyWhileRunning, ClosingIsPromised, Numbered, ParkedInRun
<1>4. CASE HandleTick
  <2>1. pc' \in {"tick", "resume"}
    BY <1>4 DEF HandleTick, Goto
  <2>2. Numbered' /\ ClosingIsPromised'
    BY <1>0, <1>4 DEF HandleTick, Numbered, ClosingIsPromised
  <2>3. SessionsOnlyWhileRunning' /\ ParkedInRun'
    BY <1>4, RowsKept DEF HandleTick
  <2>. QED  BY <2>1, <2>2, <2>3 DEF WorkerInv
<1>5. ASSUME NEW c \in pending, HandleSettleOrPause(c) PROVE WorkerInv'
  <2>1. PICK a \in active : /\ a.generation = c.generation
                            /\ active' = Forgotten(a)
                            /\ pc' = "mark"
    BY <1>5 DEF HandleSettleOrPause, Mark, GotoWith
  <2>2. generation' = generation /\ pending' = pending \ {c}
    BY <1>5 DEF HandleSettleOrPause, Taken
  <2>3. Numbered' /\ ClosingIsPromised'
    BY <1>0, <2>1, <2>2, Removed, SMTT(60) DEF ClosingIsPromised
  <2>4. SessionsOnlyWhileRunning' /\ ParkedInRun'
    BY <1>5, <2>1, RowsKept DEF HandleSettleOrPause
  <2>5. queue'.state = "Running"
    BY <1>0, <1>5, <2>1 DEF HandleSettleOrPause, SessionsOnlyWhileRunning
  <2>. QED  BY <2>1, <2>3, <2>4, <2>5 DEF WorkerInv
<1>6. ASSUME NEW c \in pending, HandleRenew(c) PROVE WorkerInv'
  <2>. DEFINE b(a) == [a EXCEPT !.closing = TRUE]
  <2>1. PICK a \in active : a.generation = c.generation /\ active' = (active \ {a}) \cup {b(a)}
    BY <1>6 DEF HandleRenew
  <2>2. b(a).generation = a.generation
    BY DEF TypeOK, Active
  <2>3. /\ generation' = generation /\ pending' = pending \ {c} /\ c.kind = "Renew"
        /\ pc' = "renew" /\ hand' = [NoHand EXCEPT !.generation = c.generation]
    BY <1>6 DEF HandleRenew, Taken, GotoWith
  <2>4. hand'.generation = c.generation
    BY <2>3 DEF NoHand
  <2>. HIDE DEF b
  <2>5. Numbered' /\ \A d \in active' : d # b(a) => d \in active /\ d.generation # a.generation
    BY <1>0, <2>1, <2>2, <2>3, Replaced
  <2>6. ClosingIsPromised'
    BY <1>0, <2>1, <2>2, <2>3, <2>4, <2>5 DEF ClosingIsPromised
  <2>7. SessionsOnlyWhileRunning' /\ ParkedInRun'
    BY <1>6, <2>1, RowsKept DEF HandleRenew
  <2>. QED  BY <2>3, <2>5, <2>6, <2>7 DEF WorkerInv
<1>7. ASSUME NEW c \in pending, HandleStale(c) PROVE WorkerInv'
  <2>1. Numbered' /\ ClosingIsPromised'
    BY <1>0, <1>7, SMTT(60) DEF HandleStale, Taken, Numbered, ClosingIsPromised
  <2>2. SessionsOnlyWhileRunning' /\ ParkedInRun'
    BY <1>7, RowsKept DEF HandleStale
  <2>. QED  BY <1>0, <1>7, <2>1, <2>2 DEF HandleStale, WorkerInv
<1>. QED
  BY <1>1, <1>2, <1>3, <1>4, <1>5, <1>6, <1>7, ZenonT(60) DEF Signals, HandlePending

(* The steps that leave Running take place with no session in hand.           *)
LEMMA RunEndsInv ==
    ASSUME TypeOK, HandHasItem, WorkerInv, Recover \/ Resume \/ Finish \/ StopBlocked \/ Hold \/ Stop
    PROVE  WorkerInv'
<1>. USE DEF memory, loop, store
<1>0. SessionsOnlyWhileRunning /\ ClosingIsPromised /\ Numbered /\ ParkedInRun
  BY DEF WorkerInv
<1>1. /\ pc' \in {"idle", "tick"}
      /\ pc # "renew" /\ UNCHANGED <<active, generation, pending>>
  BY DEF Recover, Resume, Finish, StopBlocked, Hold, Stop, Goto, Return
<1>2. Numbered' /\ ClosingIsPromised'
  BY <1>0, <1>1 DEF Numbered, ClosingIsPromised
<1>3. CASE Resume
  <2>1. /\ queue'.state = "Idle" => queue.state = "Idle"
        /\ queue.state = "Running" => queue'.state = "Running"
        /\ UNCHANGED <<items, parked>>
    BY <1>3 DEF Resume, ResumeQueue, MoveQueue, TypeOK, QueueRow
  <2>2. SessionsOnlyWhileRunning' /\ ParkedInRun'
    BY <1>0, <1>1, <2>1 DEF SessionsOnlyWhileRunning, ParkedInRun, Queued, InState
  <2>. QED  BY <1>1, <1>2, <2>2 DEF WorkerInv
<1>4. CASE Recover \/ Finish \/ StopBlocked \/ Hold \/ Stop
  <2>1. active' = {}
    BY <1>1, <1>4 DEF WorkerInv, Recover, Finish, StopBlocked, Hold, Stop
  <2>2. SessionsOnlyWhileRunning'
    BY <2>1 DEF SessionsOnlyWhileRunning
  <2>3. CASE Recover \/ StopBlocked \/ Stop
    <3>1. parked' = {}
      BY <2>3 DEF WorkerInv, Recover, StopBlocked, Stop
    <3>. QED  BY <1>1, <1>2, <2>2, <3>1 DEF WorkerInv, ParkedInRun
  <2>4. CASE Finish \/ Hold
    <3>1. /\ queue'.state = "Idle" => queue.state = "Idle" \/ Queued = {}
          /\ UNCHANGED <<items, parked>>
      BY <2>4 DEF Finish, FinishQueue, Hold, HoldQueue, MoveQueue, TypeOK, QueueRow
    <3>2. ParkedInRun'
      BY <1>0, <3>1 DEF ParkedInRun, Queued, InState
    <3>. QED  BY <1>1, <1>2, <2>2, <3>2 DEF WorkerInv
  <2>. QED  BY <1>4, <2>3, <2>4
<1>. QED
  BY <1>3, <1>4

(* Marking an item leaves the new items new and makes none wait but itself.   *)
LEMMA MarkFrame ==
    ASSUME TypeOK, NEW i \in Item, NEW s \in Listed, MarkItem(i, s)
    PROVE  /\ \A j \in Item : items[j].state # "New" => items'[j].state # "New"
           /\ \A j \in Item : items'[j].state = "Queued" => items[j].state = "Queued" \/ (j = i /\ s = "Queued")
<1>1. "New" \notin Listed
  BY DEF Listed, Settled
<1>2. CASE items' = items
  BY <1>2
<1>3. CASE items' = [items EXCEPT ![i].state = s, ![i].asks = FALSE]
  <2>1. \A j \in Item \ {i} : items'[j] = items[j]
    BY <1>3 DEF TypeOK
  <2>2. items'[i].state = s
    BY <1>3 DEF TypeOK, ItemRow
  <2>. QED  BY <1>1, <2>1, <2>2
<1>. QED
  BY <1>2, <1>3 DEF MarkItem, Moved

(* A step that marks an item in a running queue, or marks it as settled or    *)
(* running, keeps what is said of parked items.                               *)
LEMMA MarkKeepsParked ==
    ASSUME TypeOK, ParkedInRun, NEW i \in Item, NEW s \in Listed, MarkItem(i, s),
           UNCHANGED <<queue, parked>>, queue.state = "Running" \/ s # "Queued"
    PROVE  ParkedInRun'
BY MarkFrame, ZenonT(60) DEF ParkedInRun, TypeOK, Queued, InState

(* Reviewing, noting and moving on within a handler.                          *)
LEMMA TickInv ==
    ASSUME TypeOK, HandHasItem, WorkerInv,
           NotePermissionWait \/ TickAdvances \/ (\E c \in todo : TickSession(c)) \/ Advance
    PROVE  WorkerInv'
<1>. USE DEF memory, loop, store
<1>0. SessionsOnlyWhileRunning /\ ClosingIsPromised /\ Numbered /\ ParkedInRun
  BY DEF WorkerInv
<1>1. CASE NotePermissionWait
  <2>. DEFINE b(a) == [a EXCEPT !.asks = term[a.terminal].asks]
  <2>1. PICK a \in active : /\ active' = (active \ {a}) \cup {b(a)}
                            /\ items' = IF items[a.item].state \in Listed
                                        THEN [items EXCEPT ![a.item].state = "Running",
                                                           ![a.item].asks = term[a.terminal].asks]
                                        ELSE items
    BY <1>1 DEF NotePermissionWait
  <2>2. b(a).generation = a.generation /\ b(a).closing = a.closing /\ a.item \in Item
    BY DEF TypeOK, Active
  <2>3. UNCHANGED <<queue, parked, generation, pending>> /\ pc = "note" /\ pc' \in {"tick", "idle"}
    BY <1>1 DEF NotePermissionWait, Return, Goto
  <2>4. \A i \in Item : /\ items[i].state # "New" => items'[i].state # "New"
                        /\ items'[i].state = "Queued" => items[i].state = "Queued"
    <3>1. CASE items' = items
      BY <3>1
    <3>2. CASE items' = [items EXCEPT ![a.item].state = "Running", ![a.item].asks = term[a.terminal].asks]
      <4>1. \A j \in Item \ {a.item} : items'[j] = items[j]
        BY <3>2 DEF TypeOK
      <4>2. items'[a.item].state = "Running"
        BY <2>2, <3>2 DEF TypeOK, ItemRow
      <4>. QED  BY <4>1, <4>2
    <3>. QED  BY <2>1, <3>1, <3>2
  <2>5. ParkedInRun'
    BY <1>0, <2>3, <2>4 DEF ParkedInRun, TypeOK, Queued, InState
  <2>. HIDE DEF b
  <2>6. Numbered' /\ \A d \in active' : d # b(a) => d \in active /\ d.generation # a.generation
    BY <1>0, <2>1, <2>2, <2>3, Replaced
  <2>7. ClosingIsPromised'
    BY <1>0, <2>1, <2>2, <2>3, <2>6, ZenonT(60) DEF ClosingIsPromised
  <2>8. SessionsOnlyWhileRunning'
    BY <1>0, <2>1, <2>3 DEF SessionsOnlyWhileRunning
  <2>. QED  BY <2>3, <2>5, <2>6, <2>7, <2>8 DEF WorkerInv
<1>2. ASSUME UNCHANGED <<store, active, parked, generation, pending>>, pc # "renew",
             pc' \in {"tick", "note", "advance", "idle"}
      PROVE  WorkerInv'
  <2>1. Numbered' /\ ClosingIsPromised'
    BY <1>0, <1>2 DEF Numbered, ClosingIsPromised
  <2>2. SessionsOnlyWhileRunning' /\ ParkedInRun'
    BY <1>2, RowsKept
  <2>. QED  BY <1>2, <2>1, <2>2 DEF WorkerInv
<1>3. CASE TickAdvances
  BY <1>2, <1>3 DEF TickAdvances, Goto
<1>4. ASSUME NEW c \in todo, TickSession(c) PROVE WorkerInv'
  <2>. DEFINE differ == \E a \in active : a.generation = c.generation /\ a.asks # term[a.terminal].asks
              next == IF differ THEN GotoWith("note", [NoHand EXCEPT !.generation = c.generation])
                                ELSE Goto("tick")
  <2>1. UNCHANGED <<store, parked, generation>> /\ pc = "tick"
    BY <1>4 DEF TickSession
  <2>2. next => pc' \in {"note", "tick"}
    BY DEF GotoWith, Goto
  <2>. HIDE DEF next
  <2>3. ASSUME NEW a \in active, ~a.closing, ReviewSession(a, next) PROVE WorkerInv'
    <3>1. Numbered' /\ ClosingIsPromised'
      BY <1>0, <2>1, <2>3, ReviewKeepsPromises
    <3>2. SessionsOnlyWhileRunning' /\ ParkedInRun'
      BY <2>1, <2>3, RowsKept
    <3>3. pc' \in {"note", "tick", "advance"}
      BY <2>2, <2>3 DEF ReviewSession, Goto
    <3>. QED  BY <3>1, <3>2, <3>3 DEF WorkerInv
  <2>4. ASSUME NEW a \in active, SessionGone(a) PROVE WorkerInv'
    <3>1. active' = Forgotten(a) /\ pending' = pending /\ pc' = "mark"
      BY <2>4 DEF SessionGone, Mark, GotoWith
    <3>2. Numbered' /\ ClosingIsPromised'
      BY <1>0, <2>1, <3>1, Removed, ZenonT(60) DEF ClosingIsPromised
    <3>3. SessionsOnlyWhileRunning' /\ ParkedInRun'
      BY <2>1, <3>1, RowsKept, ZenonT(60)
    <3>4. queue'.state = "Running"
      BY <1>0, <2>1 DEF SessionsOnlyWhileRunning
    <3>. QED  BY <3>1, <3>2, <3>3, <3>4 DEF WorkerInv
  <2>5. ASSUME UNCHANGED <<active, pending>>, next \/ Goto("tick") PROVE WorkerInv'
    BY <1>2, <2>1, <2>2, <2>5 DEF Goto
  <2>6. \/ \E a \in active : ~a.closing /\ ReviewSession(a, next)
        \/ \E a \in active : SessionGone(a)
        \/ UNCHANGED <<active, pending>> /\ (next \/ Goto("tick"))
    BY <1>4 DEF TickSession, InHandOn, OnTask, next
  <2>. QED  BY <2>3, <2>4, <2>5, <2>6
<1>5. CASE Advance
  <2>1. /\ UNCHANGED <<store, active, parked, generation, pending>> /\ pc = "advance"
    BY <1>5 DEF Advance
  <2>2. \/ pc' \in {"tick", "idle"}
        \/ pc' \in {"finish", "blocked", "hold"} /\ active = {}
        \/ /\ pc' = "launch" /\ queue.state = "Running"
           /\ \E i \in Item : hand'.item = i /\ items[i].state = "Queued"
    <3>1. Return => pc' \in {"tick", "idle"}
      BY DEF Return, Goto
    <3>2. Goto("finish") \/ Goto("hold") => pc' \in {"finish", "hold"}
      BY DEF Goto
    <3>3. GotoWith("blocked", [NoHand EXCEPT !.items = Queued]) => pc' = "blocked"
      BY DEF GotoWith
    <3>4. ASSUME NEW i \in Item, Ready(i, parked),
                 GotoWith("launch", [NoHand EXCEPT !.item = i, !.task = items[i].task,
                                                   !.parallel = queue.places > 1])
          PROVE  pc' = "launch" /\ hand'.item = i /\ items[i].state = "Queued"
      BY <3>4 DEF GotoWith, NoHand, Ready, MayStart, Queued, InState
    <3>. QED  BY <1>5, <3>1, <3>2, <3>3, <3>4 DEF Advance, Verdicts
  <2>3. Numbered' /\ ClosingIsPromised'
    BY <1>0, <2>1 DEF Numbered, ClosingIsPromised
  <2>4. SessionsOnlyWhileRunning' /\ ParkedInRun'
    BY <2>1, RowsKept
  <2>. QED  BY <2>1, <2>2, <2>3, <2>4 DEF WorkerInv
<1>. QED
  BY <1>1, <1>3, <1>4, <1>5

(* Launching, opening, marking and renewing.                                  *)
LEMMA LaunchInv ==
    ASSUME TypeOK, HandHasItem, WorkerInv, Launch \/ Open \/ Started \/ MarkAndGoOn \/ Renew
    PROVE  WorkerInv'
<1>. USE DEF memory, loop, store
<1>0. SessionsOnlyWhileRunning /\ ClosingIsPromised /\ Numbered /\ ParkedInRun
  BY DEF WorkerInv
<1>1. ASSUME NEW i \in Item, NEW s \in Listed, MarkItem(i, s),
             UNCHANGED <<queue, active, parked, generation, pending>>,
             queue.state = "Running" \/ s # "Queued", pc # "renew",
             pc' \in {"advance", "idle", "tick"} \/ (pc' = "hold" /\ active = {})
      PROVE  WorkerInv'
  <2>1. ParkedInRun'
    BY <1>0, <1>1, MarkKeepsParked
  <2>2. Numbered' /\ ClosingIsPromised' /\ SessionsOnlyWhileRunning'
    BY <1>0, <1>1 DEF Numbered, ClosingIsPromised, SessionsOnlyWhileRunning
  <2>. QED  BY <1>1, <2>1, <2>2 DEF WorkerInv
<1>2. CASE Launch
  <2>1. hand.item \in Item /\ queue.state = "Running" /\ items[hand.item].state # "New"
    BY <1>2 DEF Launch, HandHasItem, WorkerInv
  <2>2. UNCHANGED <<queue, active, parked, generation, pending>> /\ pc = "launch"
    BY <1>2 DEF Launch
  <2>3. CASE \E s \in {"Failed", "Skipped"} : MarkItem(hand.item, s) /\ Goto("advance")
    BY <1>1, <2>1, <2>2, <2>3, States DEF Goto
  <2>4. CASE /\ GotoWith("open", [hand EXCEPT !.settled = work[hand.task].settled])
             /\ UNCHANGED items
    <3>1. pc' = "open" /\ hand'.item = hand.item
      BY <2>4 DEF GotoWith, TypeOK, Hand
    <3>2. Numbered' /\ ClosingIsPromised' /\ SessionsOnlyWhileRunning' /\ ParkedInRun'
      BY <1>0, <2>2, <2>4, <3>1
      DEF Numbered, ClosingIsPromised, SessionsOnlyWhileRunning, ParkedInRun, Queued, InState
    <3>. QED  BY <2>1, <2>2, <2>4, <3>1, <3>2, ZenonT(60) DEF WorkerInv
  <2>. QED  BY <1>2, <2>3, <2>4 DEF Launch
<1>3. CASE Open
  <2>1. /\ hand.item \in Item /\ queue.state = "Running" /\ items[hand.item].state # "New"
        /\ pc = "open"
    BY <1>3 DEF Open, HandHasItem, WorkerInv
  <2>2. UNCHANGED <<queue, pending>>
    BY <1>3, ZenonT(60) DEF Open
  <2>3. CASE /\ parked' = parked \cup {hand.item} /\ MarkItem(hand.item, "Queued")
             /\ Goto("advance") /\ UNCHANGED <<term, active, generation>>
    <3>1. \A j \in Item : items[j].state # "New" => items'[j].state # "New"
      BY <2>1, <2>3, MarkFrame, States
    <3>2. ParkedInRun'
      BY <1>0, <2>1, <2>2, <2>3, <3>1, ZenonT(60) DEF ParkedInRun, TypeOK
    <3>3. UNCHANGED <<active, generation, pending, queue>> /\ pc = "open" /\ pc' = "advance"
      BY <2>1, <2>2, <2>3, ZenonT(60) DEF Goto
    <3>4. Numbered' /\ SessionsOnlyWhileRunning'
      BY <1>0, <3>3 DEF Numbered, SessionsOnlyWhileRunning
    <3>5. ClosingIsPromised'
      <4>1. ASSUME NEW a \in active, a.closing
            PROVE  \E c \in pending : c.generation = a.generation /\ c.kind \in {"Settle", "Pause"}
        BY <1>0, <3>3, <4>1 DEF ClosingIsPromised
      <4>. QED  BY <3>3, <4>1 DEF ClosingIsPromised
    <3>. QED  BY <3>2, <3>3, <3>4, <3>5 DEF WorkerInv
  <2>4. CASE /\ MarkItem(hand.item, "Failed") /\ Goto("advance")
             /\ UNCHANGED <<term, active, parked, generation>>
    <3>1. UNCHANGED <<queue, active, parked, generation, pending>> /\ pc # "renew" /\ pc' = "advance"
      BY <2>1, <2>2, <2>4 DEF Goto
    <3>2. "Failed" \in Listed /\ "Failed" # "Queued"
      BY States
    <3>. QED  BY <1>1, <2>1, <2>4, <3>1, <3>2
  <2>5. ASSUME NEW x, Opened(x), UNCHANGED <<items, parked>> PROVE WorkerInv'
    <3>. DEFINE r == [generation |-> generation + 1, item |-> hand.item, task |-> hand.task,
                      terminal |-> x, settled |-> hand.settled, asks |-> FALSE, closing |-> FALSE]
    <3>1. active' = active \cup {r} /\ generation' = generation + 1 /\ pc' = "started"
      BY <2>5 DEF Opened, GotoWith
    <3>2. r.generation = generation + 1 /\ ~r.closing
      OBVIOUS
    <3>. HIDE DEF r
    <3>3. \A a \in active : a.generation \in Nat /\ a.generation # generation + 1
                            /\ a.generation <= generation + 1
      BY <1>0, SMTT(60) DEF TypeOK, Active, Numbered
    <3>4. Numbered'
      BY <1>0, <3>1, <3>2, <3>3, SMTT(60) DEF Numbered, TypeOK
    <3>5. ClosingIsPromised'
      BY <1>0, <2>1, <2>2, <3>1, <3>2 DEF ClosingIsPromised
    <3>6. SessionsOnlyWhileRunning' /\ ParkedInRun'
      BY <1>0, <2>1, <2>2, <2>5 DEF SessionsOnlyWhileRunning, ParkedInRun, Queued, InState
    <3>. QED  BY <3>1, <3>4, <3>5, <3>6 DEF WorkerInv
  <2>. QED  BY <1>3, <2>3, <2>4, <2>5 DEF Open
<1>4. CASE Started
  <2>1. /\ hand.item \in Item /\ MarkItem(hand.item, "Running") /\ pc = "started" /\ pc' = "advance"
        /\ UNCHANGED <<queue, active, parked, generation, pending>>
    BY <1>4 DEF Started, HandHasItem, Goto
  <2>. QED  BY <1>1, <2>1, States
<1>5. CASE MarkAndGoOn
  <2>1. /\ hand.item \in Item /\ hand.state \in Listed /\ hand.after \in {"advance", "hold"}
        /\ queue.state = "Running"
    BY <1>5 DEF MarkAndGoOn, HandHasItem, TypeOK, Hand, WorkerInv
  <2>2. /\ MarkItem(hand.item, hand.state) /\ pc = "mark"
        /\ UNCHANGED <<queue, active, parked, generation, pending>>
    BY <1>5 DEF MarkAndGoOn
  <2>3. pc' \in {"advance", "idle", "tick"} \/ (pc' = "hold" /\ active = {})
    BY <1>5, <2>1 DEF MarkAndGoOn, Goto, Return
  <2>. QED  BY <1>1, <2>1, <2>2, <2>3
<1>6. CASE Renew
  <2>1. /\ UNCHANGED <<store, parked, generation, pending>> /\ pc = "renew"
    BY <1>6 DEF Renew
  <2>2. PICK a \in active : /\ a.generation = hand.generation
                            /\ \/ \E x : Renewed(a, x)
                               \/ active' = Forgotten(a) /\ Mark(a.item, "Failed", "advance")
    BY <1>6 DEF Renew
  <2>3. queue'.state = "Running"
    BY <1>0, <2>1 DEF SessionsOnlyWhileRunning
  <2>4. SessionsOnlyWhileRunning' /\ ParkedInRun'
    BY <2>1, <2>2, RowsKept
  <2>5. CASE active' = Forgotten(a) /\ Mark(a.item, "Failed", "advance")
    <3>1. Numbered' /\ ClosingIsPromised'
      BY <1>0, <2>1, <2>2, <2>5, Removed, SMTT(60) DEF ClosingIsPromised
    <3>2. pc' = "mark"
      BY <2>5 DEF Mark, GotoWith
    <3>. QED  BY <2>3, <2>4, <3>1, <3>2 DEF WorkerInv
  <2>6. ASSUME NEW x, Renewed(a, x) PROVE WorkerInv'
    <3>. DEFINE b == [a EXCEPT !.terminal = x, !.closing = FALSE]
    <3>1. b.generation = a.generation /\ ~b.closing
      BY DEF TypeOK, Active
    <3>2. active' = (active \ {a}) \cup {b} /\ pc' \in {"idle", "tick"}
      BY <2>6 DEF Renewed, Return, Goto
    <3>. HIDE DEF b
    <3>3. Numbered' /\ \A d \in active' : d # b => d \in active /\ d.generation # a.generation
      BY <1>0, <2>1, <3>1, <3>2, Replaced, ZenonT(60)
    <3>4. ClosingIsPromised'
      BY <1>0, <2>1, <2>2, <3>1, <3>2, <3>3, SMTT(60) DEF ClosingIsPromised
    <3>. QED  BY <2>4, <3>2, <3>3, <3>4 DEF WorkerInv
  <2>. QED  BY <2>2, <2>5, <2>6
<1>. QED
  BY <1>2, <1>3, <1>4, <1>5, <1>6

(* No failure or crash breaks what the handlers rely on. *)
LEMMA FailureInv ==
    ASSUME WorkerInv, HandlerFails \/ Crash
    PROVE  WorkerInv'
<1>. USE DEF memory, store
<1>0. SessionsOnlyWhileRunning /\ ClosingIsPromised /\ Numbered /\ ParkedInRun
  BY DEF WorkerInv
<1>1. CASE HandlerFails
  <2>1. /\ UNCHANGED <<store, active, parked, generation, pending>> /\ pc # "renew" /\ pc' = "idle"
    BY <1>1 DEF HandlerFails, Goto
  <2>2. Numbered' /\ ClosingIsPromised'
    BY <1>0, <2>1 DEF Numbered, ClosingIsPromised
  <2>3. SessionsOnlyWhileRunning' /\ ParkedInRun'
    BY <2>1, RowsKept
  <2>. QED  BY <2>1, <2>2, <2>3 DEF WorkerInv
<1>2. CASE Crash
  <2>1. active' = {} /\ parked' = {} /\ pc' = "recover"
    BY <1>2 DEF Crash, Goto
  <2>. QED  BY <2>1 DEF WorkerInv, SessionsOnlyWhileRunning, ClosingIsPromised, Numbered, ParkedInRun
<1>. QED
  BY <1>1, <1>2

(* The three facts the theorems below rest on: the types, the item in hand    *)
(* and the worker's invariant hold at first, and every step keeps them.       *)
LEMMA WorkerInductive == Spec => [](TypeOK /\ HandHasItem /\ WorkerInv)
<1>. DEFINE Inv == TypeOK /\ HandHasItem /\ WorkerInv
<1>1. Init => Inv
  <2>. SUFFICES ASSUME Init PROVE Inv
    OBVIOUS
  <2>1. TypeOK /\ HandHasItem
    BY TypeInit
  <2>2. WorkerInv
    BY DEF Init, WorkerInv, SessionsOnlyWhileRunning, ClosingIsPromised, Numbered, ParkedInRun
  <2>. QED  BY <2>1, <2>2
<1>2. Inv /\ [Next]_vars => Inv'
  <2>. SUFFICES ASSUME Inv, [Next]_vars PROVE Inv'
    OBVIOUS
  <2>1. TypeOK' /\ HandHasItem'
    BY TypeStep
  <2>2. CASE UNCHANGED vars
    <3>1. UNCHANGED <<queue, items, active, parked, generation, pending, pc, hand>>
      BY <2>2 DEF vars, store, memory, control
    <3>2. Numbered' /\ ClosingIsPromised' /\ SessionsOnlyWhileRunning' /\ ParkedInRun'
      BY <3>1 DEF WorkerInv, Numbered, ClosingIsPromised, SessionsOnlyWhileRunning, ParkedInRun,
                  Queued, InState
    <3>. QED  BY <2>1, <3>1, <3>2 DEF WorkerInv
  <2>3. CASE Next
    BY <2>1, <2>3, OutsideInv, SignalsInv, RunEndsInv, TickInv, LaunchInv, FailureInv
    DEF Next, InHandler
  <2>. QED  BY <2>2, <2>3
<1>. QED
  BY <1>1, <1>2, PTL DEF Spec

(* However the console, sessions, failures and crashes interleave with the    *)
(* worker's handlers, a session is in hand only while the stored queue runs.  *)
THEOREM OnlyWhileRunning == Spec => []SessionsOnlyWhileRunning
<1>1. WorkerInv => SessionsOnlyWhileRunning
  BY DEF WorkerInv
<1>. QED
  BY <1>1, WorkerInductive, PTL

(* A session marked closing always has the command promised that will close   *)
(* it, failed transactions included.                                          *)
THEOREM ClosingHasPromise == Spec => []ClosingIsPromised
<1>1. WorkerInv => ClosingIsPromised
  BY DEF WorkerInv
<1>. QED
  BY <1>1, WorkerInductive, PTL

(* No item is parked longer than the run in which no worktree could be made.  *)
THEOREM ParkedEndsWithRun == Spec => []ParkedForOneRun
<1>1. WorkerInv => ParkedForOneRun
  BY DEF WorkerInv, ParkedInRun, ParkedForOneRun
<1>. QED
  BY <1>1, WorkerInductive, PTL

(* The handler that finishes the queue never disarms it under a waiting item. *)
THEOREM FinishIsSafe == Spec => FinishStrandsNothing
<1>. DEFINE A == (pc = "finish" /\ queue.state = "Running" /\ queue'.state = "Idle") => Queued = {}
<1>1. TypeOK /\ [Next]_vars => [A]_vars
  <2>. SUFFICES ASSUME TypeOK, [Next]_vars, pc = "finish", queue.state = "Running",
                       queue'.state = "Idle"
                PROVE  Queued = {}
    OBVIOUS
  <2>1. CASE Console \/ People \/ Sessions \/ TimePasses
    BY <2>1, OutsideFrame
  <2>2. CASE Finish
    BY <2>2 DEF Finish, FinishQueue
  <2>3. CASE HandlerFails \/ Crash \/ UNCHANGED vars
    BY <2>3 DEF HandlerFails, Crash, vars, store
  <2>4. Console \/ People \/ Sessions \/ TimePasses \/ Finish \/ HandlerFails \/ Crash \/ UNCHANGED vars
    BY DEF Next, Signals, HandleTick, HandlePending, HandleReview, HandleSessionEnded, HandleStop,
           HandleSettleOrPause, HandleRenew, HandleStale, InHandler, Recover, Resume,
           NotePermissionWait, TickAdvances, TickSession, Advance, StopBlocked, Hold, Launch, Open,
           Started, MarkAndGoOn, Renew, Stop
  <2>. QED  BY <2>1, <2>2, <2>3, <2>4
<1>. QED
  BY <1>1, TypeCorrect, PTL DEF Spec, FinishStrandsNothing

=============================================================================
