------------------------ MODULE RunQueueItemsProofs ------------------------
(***************************************************************************)
(* Items and sessions belong together, and the queue keeps its promise, as *)
(* long as no transaction of the worker fails; the list is numbered        *)
(* densely as long as no task is deleted; and a running step is held by a  *)
(* session as long as the queue alone opens them.  For every set of tasks, *)
(* items and sessions.                                                     *)
(***************************************************************************)
EXTENDS RunQueueProofs

USE Zenon

(* What a step does to the rows, leaving aside positions and notes: nothing,  *)
(* or one of the moves of QueuePromise.                                       *)
SameRow(i) == items'[i].state = items[i].state /\ items'[i].task = items[i].task
SameRows   == \A i \in Item : SameRow(i)
SomeGo     == \A i \in Item : SameRow(i) \/ items'[i].state = "Gone"

Entered(i, t) ==
    /\ items[i].state = "New" /\ items'[i].state = "Queued" /\ items'[i].task = t
    /\ t \in tasks
    /\ \A j \in ListedItems : items[j].task = t => items[j].state \in Settled
    /\ \A j \in Item \ {i} : SameRow(j)

MarkedAs(i, s) ==
    /\ items'[i].state = s /\ items'[i].task = items[i].task
    /\ \A j \in Item \ {i} : SameRow(j)

PutBack ==
    \A i \in Item :
        /\ items'[i].task = items[i].task
        /\ items'[i].state = IF items[i].state = "Running" THEN "Queued" ELSE items[i].state

(* Moving an item changes its state and no other row's.                       *)
LEMMA MovedRows ==
    ASSUME TypeOK, NEW i \in Item, NEW s \in ItemState
    PROVE  /\ Moved(i, s)[i].state = s
           /\ Moved(i, s)[i].task = items[i].task
           /\ \A j \in Item \ {i} : Moved(i, s)[j] = items[j]
BY DEF Moved, TypeOK, ItemRow

(* mark_item moves the item, unless it is gone by then.                       *)
LEMMA MarkItemRows ==
    ASSUME TypeOK, NEW i \in Item, NEW s \in Listed, MarkItem(i, s)
    PROVE  IF items[i].state \in Listed THEN MarkedAs(i, s) ELSE SameRows
<1>1. s \in ItemState
  BY States
<1>2. CASE items[i].state \in Listed
  <2>1. items' = Moved(i, s)
    BY <1>2 DEF MarkItem
  <2>. QED  BY <1>1, <1>2, <2>1, MovedRows, ZenonT(60) DEF MarkedAs, SameRow
<1>3. CASE items[i].state \notin Listed
  <2>1. items' = items
    BY <1>3 DEF MarkItem
  <2>. QED  BY <1>3, <2>1 DEF SameRows, SameRow
<1>. QED  BY <1>2, <1>3

(* Putting the running items back touches no other row.                       *)
LEMMA RunningToQueuedRows ==
    ASSUME TypeOK, RunningToQueued
    PROVE  PutBack
<1>. SUFFICES ASSUME NEW i \in Item
              PROVE  /\ items'[i].task = items[i].task
                     /\ items'[i].state = IF items[i].state = "Running" THEN "Queued" ELSE items[i].state
  BY DEF PutBack
<1>1. items'[i] = IF items[i].state = "Running" THEN Moved(i, "Queued")[i] ELSE items[i]
  BY DEF RunningToQueued
<1>2. "Queued" \in ItemState
  BY States
<1>. QED  BY <1>1, <1>2, MovedRows, SMTT(60)

(* Renumbering leaves state and task of every row alone.                      *)
LEMMA RenumberedRows ==
    ASSUME TypeOK, NEW S, S \subseteq Item, NEW p \in [S -> Nat], NEW i \in Item
    PROVE  Renumbered(items, p)[i].state = items[i].state /\ Renumbered(items, p)[i].task = items[i].task
BY DEF Renumbered, TypeOK, ItemRow

(* enqueue: one new row, for a task none of whose items waits or is worked.   *)
LEMMA EnqueueRows ==
    ASSUME TypeOK, NEW t \in Task, Enqueue(t)
    PROVE  \E i \in Item : Entered(i, t)
<1>. DEFINE i == CHOOSE n \in Item : items[n].state = "New"
<1>1. i \in Item /\ items[i].state = "New"
  BY DEF Enqueue, InState
<1>2. items' = [items EXCEPT ![i] = [state |-> "Queued", task |-> t, asks |-> FALSE,
                                     position |-> Cardinality(ListedItems)]]
  BY DEF Enqueue
<1>. HIDE DEF i
<1>3. /\ items'[i].state = "Queued" /\ items'[i].task = t
      /\ \A j \in Item \ {i} : items'[j] = items[j]
  BY <1>1, <1>2 DEF TypeOK
<1>. QED  BY <1>1, <1>3 DEF Enqueue, Entered, SameRow

(* Every operation of the console on the list adds a row, takes some off, or  *)
(* only renumbers; those taken off are not running unless their task goes.    *)
LEMMA ConsoleRows ==
    ASSUME TypeOK, Console
    PROVE  \/ tasks' = tasks /\ \E i \in Item, t \in Task : Entered(i, t)
           \/ tasks' = tasks /\ SomeGo /\ \A i \in Item : items[i].state \in {"New", "Running", "Gone"} => SameRow(i)
           \/ \E t \in Task :
                 /\ tasks' = tasks \ {t}
                 /\ \A i \in Item : IF items[i].task = t /\ items[i].state \in Listed
                                    THEN items'[i].state = "Gone" ELSE SameRow(i)
<1>. DEFINE Some == SomeGo /\ \A i \in Item : items[i].state \in {"New", "Running", "Gone"} => SameRow(i)
<1>1. ASSUME NEW t \in Task, Add(t) \/ AddAndArm(t)
      PROVE  tasks' = tasks /\ \E i \in Item : Entered(i, t)
  <2>1. Enqueue(t) /\ tasks' = tasks
    BY <1>1 DEF Add, AddAndArm
  <2>. QED  BY <2>1, EnqueueRows
<1>2. ASSUME NEW i \in Item, Remove(i) PROVE tasks' = tasks /\ Some
  <2>1. ListedItems \ {i} \subseteq Item
    BY DEF ListedItems
  <2>2. PICK p \in Orders(ListedItems \ {i}) : items' = [Renumbered(items, p) EXCEPT ![i] = GoneRow]
    BY <1>2 DEF Remove
  <2>3. p \in [ListedItems \ {i} -> Nat]
    BY <2>1, OrdersType
  <2>4. Renumbered(items, p) \in [Item -> ItemRow]
    BY <2>1, <2>3, RenumberedType DEF TypeOK
  <2>5. \A j \in Item \ {i} : items'[j] = Renumbered(items, p)[j]
    BY <2>2, <2>4
  <2>6. \A j \in Item \ {i} : SameRow(j)
    BY <2>1, <2>3, <2>5, RenumberedRows, SMTT(60) DEF SameRow
  <2>7. items'[i].state = "Gone"
    BY <2>2, <2>4 DEF GoneRow, NoRow
  <2>8. items[i].state \notin {"New", "Running", "Gone"} /\ tasks' = tasks
    BY <1>2 DEF Remove, Listed, Settled
  <2>. QED  BY <2>6, <2>7, <2>8 DEF SomeGo
<1>3. ASSUME NEW i \in Item, NEW at \in 0 .. Cardinality(Item), MoveTo(i, at)
      PROVE  tasks' = tasks /\ Some
  <2>1. ListedItems \subseteq Item /\ at \in Nat
    BY ItemsCount, SMTT(60) DEF ListedItems
  <2>2. PICK p \in Orders(ListedItems) :
           items' = Renumbered(items, [j \in ListedItems |-> PlaceAfterMove(p, i, at, j)])
    BY <1>3 DEF MoveTo
  <2>3. [j \in ListedItems |-> PlaceAfterMove(p, i, at, j)] \in [ListedItems -> Nat]
    BY <1>3, <2>1, PlaceAfterMoveType DEF MoveTo, TypeOK
  <2>4. \A j \in Item : SameRow(j)
    BY <2>1, <2>2, <2>3, RenumberedRows DEF SameRow
  <2>. QED  BY <1>3, <2>4 DEF MoveTo, SomeGo
<1>4. CASE ClearSettled
  <2>. DEFINE gone == {i \in Item : items[i].state \in Settled}
  <2>1. ListedItems \ gone \subseteq Item
    BY DEF ListedItems
  <2>2. PICK p \in Orders(ListedItems \ gone) :
           items' = [i \in Item |-> IF i \in gone THEN GoneRow ELSE Renumbered(items, p)[i]]
    BY <1>4 DEF ClearSettled
  <2>3. p \in [ListedItems \ gone -> Nat]
    BY <2>1, OrdersType
  <2>4. ASSUME NEW i \in Item
        PROVE  IF i \in gone THEN items'[i].state = "Gone" ELSE SameRow(i)
    BY <2>1, <2>2, <2>3, RenumberedRows DEF SameRow, GoneRow, NoRow
  <2>5. \A i \in gone : items[i].state \notin {"New", "Running", "Gone"}
    BY DEF Settled
  <2>. QED  BY <1>4, <2>4, <2>5 DEF SomeGo, ClearSettled
<1>5. ASSUME NEW t \in Task, DeleteTask(t)
      PROVE  /\ tasks' = tasks \ {t}
             /\ \A i \in Item : IF items[i].task = t /\ items[i].state \in Listed
                                THEN items'[i].state = "Gone" ELSE SameRow(i)
  BY <1>5 DEF DeleteTask, SameRow, GoneRow, NoRow
<1>6. CASE UNCHANGED <<items, tasks>>
  BY <1>6 DEF SomeGo, SameRow
<1>7. \/ \E t \in Task : Add(t) \/ AddAndArm(t) \/ DeleteTask(t)
      \/ \E i \in Item : Remove(i) \/ \E at \in 0 .. Cardinality(Item) : MoveTo(i, at)
      \/ ClearSettled \/ UNCHANGED <<items, tasks>>
  BY DEF Console, Start, UpdateSettings
<1>. QED  BY <1>1, <1>2, <1>3, <1>4, <1>5, <1>6, <1>7

-----------------------------------------------------------------------------
(* The invariant, step by step *)

(* A row that moves as the promise says leaves each task with at most one     *)
(* item that waits or is worked, and lists no item of a missing task.         *)
LEMMA ItemsOfTasksKept ==
    ASSUME TypeOK, ItemsOfTasks,
           \/ tasks' = tasks /\ \E i \in Item, t \in Task : Entered(i, t)
           \/ tasks' = tasks /\ SomeGo
           \/ tasks' = tasks /\ PutBack
           \/ tasks' = tasks /\ \E i \in Item, s \in Listed :
                 items[i].state \in {"Queued", "Running"} /\ MarkedAs(i, s)
           \/ \E t \in Task :
                 /\ tasks' = tasks \ {t}
                 /\ \A i \in Item : IF items[i].task = t /\ items[i].state \in Listed
                                    THEN items'[i].state = "Gone" ELSE SameRow(i)
    PROVE  ItemsOfTasks'
<1>. DEFINE ActiveNow(i)  == items[i].state \in {"Queued", "Running"}
            ActiveAfter(i) == items'[i].state \in {"Queued", "Running"}
<1>1. /\ \A i \in Item : items[i].state \in Listed => items[i].task \in tasks
      /\ \A i, j \in Item : ActiveNow(i) /\ ActiveNow(j) /\ items[i].task = items[j].task => i = j
  BY DEF ItemsOfTasks, ListedItems, Queued, InState
<1>2. "Gone" \notin Listed /\ {"Queued", "Running"} \subseteq Listed
      /\ \A s \in Settled : s \notin {"Queued", "Running"}
  BY DEF Listed, Settled
<1>3. \A i \in Item : items'[i].state \in Listed => items'[i].task \in tasks'
  <2>. SUFFICES ASSUME NEW i \in Item, items'[i].state \in Listed PROVE items'[i].task \in tasks'
    OBVIOUS
  <2>1. CASE SameRow(i) /\ tasks' = tasks
    BY <1>1, <2>1 DEF SameRow
  <2>2. CASE PutBack /\ tasks' = tasks
    BY <1>1, <1>2, <2>2 DEF PutBack
  <2>3. ASSUME NEW t \in Task, tasks' = tasks \ {t},
               IF items[i].task = t /\ items[i].state \in Listed
               THEN items'[i].state = "Gone" ELSE SameRow(i)
        PROVE  items'[i].task \in tasks'
    BY <1>1, <1>2, <2>3 DEF SameRow
  <2>4. ASSUME NEW k \in Item, NEW t \in Task, tasks' = tasks, Entered(k, t)
        PROVE  items'[i].task \in tasks'
    BY <2>1, <2>4 DEF Entered
  <2>5. ASSUME NEW k \in Item, NEW s \in Listed, tasks' = tasks, ActiveNow(k), MarkedAs(k, s)
        PROVE  items'[i].task \in tasks'
    <3>1. items[k].task \in tasks
      BY <1>1, <1>2, <2>5
    <3>. QED  BY <2>1, <2>5, <3>1 DEF MarkedAs
  <2>. QED  BY <1>2, <2>1, <2>2, <2>3, <2>4, <2>5 DEF SomeGo
<1>4. \A i, j \in Item : ActiveAfter(i) /\ ActiveAfter(j) /\ items'[i].task = items'[j].task => i = j
  <2>1. ASSUME \A i \in Item : ActiveAfter(i) => ActiveNow(i) /\ items'[i].task = items[i].task
        PROVE  \A i, j \in Item : ActiveAfter(i) /\ ActiveAfter(j) /\ items'[i].task = items'[j].task => i = j
    <3>. HIDE DEF ActiveNow, ActiveAfter
    <3>. QED  BY <1>1, <2>1
  <2>2. CASE SomeGo
    BY <2>1, <2>2 DEF SomeGo, SameRow
  <2>3. CASE PutBack
    BY <2>1, <2>3 DEF PutBack
  <2>4. ASSUME NEW k \in Item, ActiveNow(k), NEW s, MarkedAs(k, s)
        PROVE  \A i \in Item : ActiveAfter(i) => ActiveNow(i) /\ items'[i].task = items[i].task
    BY <2>4 DEF MarkedAs, SameRow
  <2>5. ASSUME NEW t, \A i \in Item : IF items[i].task = t /\ items[i].state \in Listed
                                     THEN items'[i].state = "Gone" ELSE SameRow(i)
        PROVE  \A i \in Item : ActiveAfter(i) => ActiveNow(i) /\ items'[i].task = items[i].task
    BY <2>5 DEF SameRow
  <2>6. ASSUME NEW k \in Item, NEW t \in Task, Entered(k, t), NEW i \in Item, NEW j \in Item,
               ActiveAfter(i), ActiveAfter(j), items'[i].task = items'[j].task
        PROVE  i = j
    <3>1. \A n \in Item : ActiveNow(n) => items[n].task # t
      BY <1>2, <2>6 DEF Entered, ListedItems
    <3>2. \A n \in Item \ {k} : ActiveAfter(n) => ActiveNow(n) /\ items'[n].task = items[n].task
      BY <2>6 DEF Entered, SameRow
    <3>3. items'[k].task = t
      BY <2>6 DEF Entered
    <3>. HIDE DEF ActiveNow, ActiveAfter
    <3>. QED  BY <1>1, <2>6, <3>1, <3>2, <3>3, ZenonT(60)
  <2>. QED  BY <2>1, <2>2, <2>3, <2>4, <2>5, <2>6
<1>. QED  BY <1>3, <1>4 DEF ItemsOfTasks, ListedItems, Queued, InState

Belongs == ItemsOfTasks /\ SessionsHaveItems /\ RunningHasSession /\ HandIsFresh

(* Nothing that happens around the worker takes an item or a session out of   *)
(* its hand in a way it would not notice.                                     *)
LEMMA OutsideItems ==
    ASSUME TypeOK, HandHasItem, WorkerInv, Belongs, Console \/ People \/ Sessions \/ TimePasses
    PROVE  Belongs'
<1>1. UNCHANGED <<active, pc, hand>>
  BY OutsideFrame
<1>2. \/ \E i \in Item, t \in Task : Entered(i, t)
      \/ SomeGo
  <2>1. CASE Console
    BY <2>1, ConsoleRows DEF SomeGo
  <2>2. CASE People \/ Sessions \/ TimePasses
    <3>1. items' = items
      BY <2>2, ZenonT(60) DEF People, Sessions, TimePasses, TimeComes, UserOpens, Accept, SendBack,
         TerminalEnds, PermissionPrompt, StartStep, Claim, TickDone, StepSettled, store
    <3>. QED  BY <3>1 DEF SomeGo, SameRow
  <2>. QED  BY <2>1, <2>2
<1>3. ItemsOfTasks'
  <2>1. CASE Console
    BY <2>1, ConsoleRows, ItemsOfTasksKept DEF Belongs
  <2>2. CASE People \/ Sessions \/ TimePasses
    <3>1. items' = items /\ tasks' = tasks
      BY <2>2, ZenonT(60) DEF People, Sessions, TimePasses, TimeComes, UserOpens, Accept, SendBack,
         TerminalEnds, PermissionPrompt, StartStep, Claim, TickDone, StepSettled, store
    <3>. QED  BY <3>1, ItemsOfTasksKept DEF SomeGo, SameRow, Belongs
  <2>. QED  BY <2>1, <2>2
<1>4. \A i \in Item : \/ SameRow(i)
                      \/ items'[i].state = "Gone"
                      \/ items[i].state = "New" /\ items'[i].state = "Queued"
  <2>1. CASE SomeGo
    BY <2>1 DEF SomeGo
  <2>2. ASSUME NEW k \in Item, NEW t \in Task, Entered(k, t), NEW i \in Item
        PROVE  SameRow(i) \/ (items[i].state = "New" /\ items'[i].state = "Queued")
    BY <2>2 DEF Entered
  <2>. QED  BY <1>2, <2>1, <2>2
<1>5. active \subseteq Active /\ \A a \in active : a.item \in Item
  BY DEF TypeOK, Active
<1>6. SessionsHaveItems'
  BY <1>1, <1>4, <1>5, SMTT(60) DEF Belongs, SessionsHaveItems, SameRow
<1>7. RunningHasSession'
  BY <1>1, <1>4 DEF Belongs, RunningHasSession, SameRow, InState
<1>8. HandIsFresh'
  <2>1. pc \in {"launch", "open", "started", "mark"} => hand.item \in Item
    BY DEF HandHasItem
  <2>2. hand.items \subseteq Item
    BY DEF TypeOK, Hand
  <2>. QED  BY <1>1, <1>4, <2>1, <2>2 DEF Belongs, HandIsFresh, SameRow
<1>. QED  BY <1>3, <1>6, <1>7, <1>8 DEF Belongs

(* Points of a handler that hold nothing about items in hand.                 *)
Plain == {"idle", "resume", "tick", "note", "advance", "finish", "hold", "renew"}

(* The sessions in hand change, and stay on the same items.                   *)
SameHands ==
    /\ \A b \in active' : \E a \in active : a.item = b.item /\ a.task = b.task
    /\ \A a \in active : \E b \in active' : a.item = b.item
    /\ \A a, b \in active' : a.item = b.item => a = b

(* Rewriting a session in hand keeps it on its item.                          *)
LEMMA ReplacedHands ==
    ASSUME SessionsHaveItems, NEW a \in active, NEW b, b.item = a.item, b.task = a.task,
           active' = (active \ {a}) \cup {b}
    PROVE  SameHands
<1>1. \A c, d \in active : c.item = d.item => c = d
  BY DEF SessionsHaveItems
<1>. QED  BY <1>1, SMTT(60) DEF SameHands

(* A step that changes neither the rows nor the items the sessions are on.    *)
LEMMA HandsKept ==
    ASSUME TypeOK, Belongs, SameRows, SameHands, tasks' = tasks, pc' \in Plain,
           pc \notin {"stop", "recover"},
           pc \in {"started", "mark"} => hand.item \in Item /\ items[hand.item].state = "Gone"
    PROVE  Belongs'
<1>1. active \subseteq Active /\ \A a \in active : a.item \in Item
  BY DEF TypeOK, Active
<1>2. ItemsOfTasks'
  BY ItemsOfTasksKept DEF SomeGo, SameRows, Belongs
<1>3. SessionsHaveItems'
  <2>1. \A a \in active : /\ items[a.item].state \in {"Running", "Gone"}
                          /\ items[a.item].state # "Gone" => items[a.item].task = a.task
    BY <1>1 DEF Belongs, SessionsHaveItems
  <2>. QED  BY <1>1, <2>1, SMTT(60) DEF SessionsHaveItems, SameRows, SameRow, SameHands
<1>4. RunningHasSession'
  <2>1. \A i \in Item : items[i].state = "Running" => \E a \in active : a.item = i
    BY DEF Belongs, RunningHasSession, InState
  <2>. QED  BY <2>1, SMTT(60) DEF RunningHasSession, InState, SameRows, SameRow, SameHands
<1>5. HandIsFresh'
  BY DEF HandIsFresh, Plain
<1>. QED  BY <1>2, <1>3, <1>4, <1>5 DEF Belongs

(* A session leaves the worker's hand: its item is not running, or the        *)
(* handler has still to write it.                                             *)
LEMMA HandForgotten ==
    ASSUME TypeOK, Belongs, SameRows, tasks' = tasks, NEW a \in active, active' = active \ {a},
           pc \notin {"started", "mark", "stop", "recover"},
           \/ pc' \in Plain /\ items[a.item].state # "Running"
           \/ pc' = "mark" /\ hand'.item = a.item /\ hand'.state # "Running"
    PROVE  Belongs'
<1>1. active \subseteq Active /\ \A b \in active : b.item \in Item
  BY DEF TypeOK, Active
<1>2. ItemsOfTasks'
  BY ItemsOfTasksKept DEF SomeGo, SameRows, Belongs
<1>3. \A b \in active : /\ items[b.item].state \in {"Running", "Gone"}
                        /\ items[b.item].state # "Gone" => items[b.item].task = b.task
  BY DEF Belongs, SessionsHaveItems
<1>4. \A b \in active' : b \in active /\ b.item # a.item
  BY DEF Belongs, SessionsHaveItems
<1>5. SessionsHaveItems'
  <2>1. \A b, c \in active' : b.item = c.item => b = c
    BY DEF Belongs, SessionsHaveItems
  <2>. QED  BY <1>1, <1>3, <2>1, ZenonT(60) DEF SessionsHaveItems, SameRows, SameRow
<1>6. RunningHasSession'
  <2>1. \A i \in Item : items[i].state = "Running" => \E b \in active : b.item = i
    BY DEF Belongs, RunningHasSession, InState
  <2>. QED  BY <1>1, <2>1, SMTT(60) DEF RunningHasSession, InState, SameRows, SameRow
<1>7. HandIsFresh'
  BY <1>1, <1>3, <1>4 DEF HandIsFresh, Plain, SameRows, SameRow
<1>. QED  BY <1>2, <1>5, <1>6, <1>7, ZenonT(60) DEF Belongs

(* The item in hand is written, and with that is worked exactly when its      *)
(* session is in hand.                                                        *)
LEMMA HandWritten ==
    ASSUME TypeOK, Belongs, tasks' = tasks, active' = active, pc' \in Plain,
           NEW i \in Item, NEW s \in Listed, hand.item = i, MarkedAs(i, s),
           \/ pc \in {"launch", "open", "mark"} /\ s # "Running"
           \/ pc = "started" /\ s = "Running",
           items[i].state \in Listed
    PROVE  Belongs'
<1>1. active \subseteq Active /\ \A a \in active : a.item \in Item
  BY DEF TypeOK, Active
<1>2. items[i].state \in {"Queued", "Running"}
  BY DEF Belongs, HandIsFresh, Listed, Settled
<1>3. ItemsOfTasks'
  BY <1>2, ItemsOfTasksKept DEF Belongs
<1>4. \A a \in active : items[a.item].state # "Gone" => items[a.item].task = a.task
  BY DEF Belongs, SessionsHaveItems
<1>5. \A a, b \in active : a.item = b.item => a = b
  BY DEF Belongs, SessionsHaveItems
<1>6. \A a \in active : a.item # i => items[a.item].state \in {"Running", "Gone"}
  BY DEF Belongs, SessionsHaveItems
<1>7. \A j \in Item \ {i} : items[j].state = "Running" => \E a \in active : a.item = j
  BY DEF Belongs, RunningHasSession, InState
<1>8. IF s = "Running" THEN \E a \in active : a.item = i ELSE \A a \in active : a.item # i
  BY DEF Belongs, HandIsFresh
<1>9. SessionsHaveItems'
  <2>1. \A a \in active : items'[a.item].state # "Gone" => items'[a.item].task = a.task
    BY <1>1, <1>2, <1>4, ZenonT(60) DEF MarkedAs, SameRow
  <2>2. \A a \in active : items'[a.item].state \in {"Running", "Gone"}
    BY <1>1, <1>6, <1>8 DEF MarkedAs, SameRow
  <2>. QED  BY <1>5, <2>1, <2>2 DEF SessionsHaveItems
<1>10. RunningHasSession'
  <2>1. \A j \in Item : items'[j].state = "Running" => \E a \in active : a.item = j
    BY <1>7, <1>8 DEF MarkedAs, SameRow
  <2>. QED  BY <2>1 DEF RunningHasSession, InState
<1>11. HandIsFresh'
  BY DEF HandIsFresh, Plain
<1>. QED  BY <1>3, <1>9, <1>10, <1>11, ZenonT(60) DEF Belongs

(* Nothing changes in the rows, the tasks or the hand.                        *)
LEMMA NothingMoves ==
    ASSUME TypeOK, Belongs, UNCHANGED <<items, tasks, active>>, pc' \in Plain,
           pc \notin {"started", "mark", "stop", "recover"}
    PROVE  Belongs'
<1>1. SameRows
  BY DEF SameRows, SameRow
<1>2. SameHands
  BY DEF SameHands, Belongs, SessionsHaveItems
<1>. QED  BY <1>1, <1>2, HandsKept

(* review: the session stays on its item, or its task and with it the item    *)
(* are gone.                                                                  *)
LEMMA ReviewItems ==
    ASSUME TypeOK, Belongs, UNCHANGED <<items, tasks>>, NEW a \in active, NEW next \in BOOLEAN,
           next => pc' \in Plain,
           ReviewSession(a, next), pc \notin {"started", "mark", "stop", "recover"}
    PROVE  Belongs'
<1>1. SameRows
  BY DEF SameRows, SameRow
<1>2. a \in Active
  BY DEF TypeOK
<1>3. CASE a.task \in tasks /\ ReviewOpenTask(a) /\ next
  <2>1. \E b : b.item = a.item /\ b.task = a.task /\ active' = (active \ {a}) \cup {b}
    <3>. DEFINE c == [a EXCEPT !.closing = TRUE]
                seen == [a EXCEPT !.settled = IF work[a.task].settled > a.settled
                                              THEN work[a.task].settled ELSE @]
                d == [seen EXCEPT !.closing = TRUE]
    <3>1. c.item = a.item /\ c.task = a.task /\ seen.item = a.item /\ seen.task = a.task
          /\ d.item = a.item /\ d.task = a.task
      BY <1>2 DEF Active
    <3>2. active' = (active \ {a}) \cup {c} \/ active' = (active \ {a}) \cup {seen}
          \/ active' = (active \ {a}) \cup {d}
      BY <1>3 DEF ReviewOpenTask, CloseLater
    <3>. HIDE DEF c, seen, d
    <3>. QED  BY <3>1, <3>2
  <2>2. SameHands
    BY <2>1, ReplacedHands DEF Belongs
  <2>. QED  BY <1>1, <1>3, <2>2, HandsKept
<1>4. CASE a.task \notin tasks /\ active' = Forgotten(a) /\ Goto("advance")
  <2>1. items[a.item].state # "Running"
    BY <1>2, <1>4, States, ZenonT(60) DEF Belongs, SessionsHaveItems, ItemsOfTasks, ListedItems, Active
  <2>2. pc' \in Plain
    BY <1>4 DEF Goto, Plain
  <2>. QED  BY <1>1, <1>4, <2>1, <2>2, HandForgotten DEF Forgotten
<1>. QED  BY <1>3, <1>4 DEF ReviewSession

(* What the worker is told, and the clock.                                    *)
LEMMA SignalsItems ==
    ASSUME TypeOK, Belongs, Signals \/ HandleTick \/ HandlePending
    PROVE  Belongs'
<1>. USE DEF store, memory
<1>0. UNCHANGED <<items, tasks>> /\ pc = "idle"
  BY DEF Signals, HandleTick, HandlePending, HandleReview, HandleSessionEnded, HandleStop,
     HandleSettleOrPause, HandleRenew, HandleStale
<1>1. SameRows
  BY <1>0 DEF SameRows, SameRow
<1>2. Return => pc' \in Plain
  BY DEF Return, Goto, Plain
<1>3. CASE HandleTick
  <2>1. active' = active /\ pc' \in Plain
    BY <1>3 DEF HandleTick, Goto, Plain
  <2>. QED  BY <1>0, <2>1, NothingMoves
<1>4. ASSUME NEW t \in Task, HandleReview(t) PROVE Belongs'
  <2>1. PICK a \in active : ReviewSession(a, Return)
    BY <1>4 DEF HandleReview, OnTask
  <2>2. Return \in BOOLEAN
    BY DEF Return, Goto
  <2>. QED  BY <1>0, <1>2, <2>1, <2>2, ReviewItems
<1>5. ASSUME NEW a \in active, NEW s, NEW after, Mark(a.item, s, after), s # "Running", active' = Forgotten(a)
      PROVE  Belongs'
  <2>1. pc' = "mark" /\ hand'.item = a.item /\ hand'.state = s
    BY <1>5 DEF Mark, GotoWith, NoHand
  <2>. QED  BY <1>0, <1>1, <1>5, <2>1, HandForgotten DEF Forgotten
<1>6. ASSUME NEW x \in Terminal, HandleSessionEnded(x) PROVE Belongs'
  <2>1. PICK a \in active : SessionGone(a)
    BY <1>6 DEF HandleSessionEnded, InHandOn
  <2>. QED  BY <1>5, <2>1 DEF SessionGone
<1>7. ASSUME NEW c \in pending, HandleSettleOrPause(c) PROVE Belongs'
  <2>1. PICK a \in active : /\ active' = Forgotten(a)
                            /\ IF c.kind = "Settle" THEN Mark(a.item, "Finished", "advance")
                                                    ELSE Mark(a.item, "Queued", "hold")
    BY <1>7 DEF HandleSettleOrPause
  <2>. QED  BY <1>5, <2>1
<1>8. ASSUME NEW c \in pending, HandleRenew(c) PROVE Belongs'
  <2>1. PICK a \in active : active' = (active \ {a}) \cup {[a EXCEPT !.closing = TRUE]}
    BY <1>8 DEF HandleRenew
  <2>. DEFINE b == [a EXCEPT !.closing = TRUE]
  <2>2. b.item = a.item /\ b.task = a.task
    BY DEF TypeOK, Active
  <2>3. active' = (active \ {a}) \cup {b}
    BY <2>1
  <2>. HIDE DEF b
  <2>4. SameHands
    BY <2>2, <2>3, ReplacedHands DEF Belongs
  <2>5. pc' \in Plain
    BY <1>8 DEF HandleRenew, GotoWith, Plain
  <2>. QED  BY <1>0, <1>1, <2>4, <2>5, HandsKept
<1>9. ASSUME NEW c \in pending, HandleStale(c) PROVE Belongs'
  <2>1. active' = active /\ pc' = pc
    BY <1>9 DEF HandleStale, control
  <2>. QED  BY <1>0, <2>1, NothingMoves DEF Plain
<1>10. CASE HandleStop
  <2>1. active' = {} /\ pc' = "stop"
    BY <1>10 DEF HandleStop, Goto
  <2>2. ItemsOfTasks'
    BY <1>0, <1>1, ItemsOfTasksKept DEF SomeGo, SameRows, Belongs
  <2>. QED  BY <2>1, <2>2 DEF Belongs, SessionsHaveItems, RunningHasSession, HandIsFresh
<1>. QED  BY <1>3, <1>4, <1>6, <1>7, <1>8, <1>9, <1>10 DEF Signals, HandlePending

(* Looking at the sessions, and picking what comes next.                      *)
LEMMA TickItems ==
    ASSUME TypeOK, WorkerInv, Belongs,
           \/ Resume \/ NotePermissionWait \/ TickAdvances \/ Advance \/ Finish \/ Hold
           \/ \E c \in todo : TickSession(c)
    PROVE  Belongs'
<1>. USE DEF store, memory
<1>0. Return => pc' \in Plain
  BY DEF Return, Goto, Plain
<1>1. CASE Resume \/ TickAdvances \/ Finish \/ Hold
  <2>1. /\ UNCHANGED <<items, tasks, active>> /\ pc \in {"resume", "tick", "finish", "hold"}
        /\ pc' \in Plain
    BY <1>0, <1>1 DEF Resume, ResumeQueue, TickAdvances, Finish, FinishQueue, Hold, HoldQueue,
       Goto, Plain
  <2>. QED  BY <2>1, NothingMoves
<1>2. CASE NotePermissionWait
  <2>1. /\ pc = "note" /\ tasks' = tasks /\ Return
    BY <1>2 DEF NotePermissionWait
  <2>2. PICK a \in active :
          /\ active' = (active \ {a}) \cup {[a EXCEPT !.asks = term[a.terminal].asks]}
          /\ items' = IF items[a.item].state \in Listed
                      THEN [items EXCEPT ![a.item].state = "Running",
                                         ![a.item].asks = term[a.terminal].asks]
                      ELSE items
    BY <1>2 DEF NotePermissionWait
  <2>. DEFINE b == [a EXCEPT !.asks = term[a.terminal].asks]
  <2>3. a.item \in Item /\ b.item = a.item /\ b.task = a.task
    BY DEF TypeOK, Active
  <2>4. active' = (active \ {a}) \cup {b}
    BY <2>2
  <2>. HIDE DEF b
  <2>5. SameHands
    BY <2>3, <2>4, ReplacedHands DEF Belongs
  <2>6. items[a.item].state \in {"Running", "Gone"}
    BY <2>1 DEF Belongs, SessionsHaveItems
  <2>7. SameRows
    BY <2>2, <2>3, <2>6, ZenonT(60) DEF SameRows, SameRow, TypeOK, ItemRow, Listed, Settled
  <2>. QED  BY <1>0, <2>1, <2>5, <2>7, HandsKept
<1>3. ASSUME NEW c \in todo, TickSession(c) PROVE Belongs'
  <2>. DEFINE differ == \E a \in active : a.generation = c.generation /\ a.asks # term[a.terminal].asks
              next == IF differ THEN GotoWith("note", [NoHand EXCEPT !.generation = c.generation])
                                ELSE Goto("tick")
  <2>1. UNCHANGED <<items, tasks>> /\ pc = "tick"
    BY <1>3 DEF TickSession
  <2>2. next \in BOOLEAN /\ (next => pc' \in Plain) /\ (Goto("tick") => pc' \in Plain)
    BY DEF GotoWith, Goto, Plain
  <2>3. \/ \E a \in active : ReviewSession(a, next)
        \/ \E a \in active : SessionGone(a)
        \/ active' = active /\ (next \/ Goto("tick"))
    BY <1>3 DEF TickSession, InHandOn, OnTask
  <2>. HIDE DEF next
  <2>4. ASSUME NEW a \in active, ReviewSession(a, next) PROVE Belongs'
    BY <2>1, <2>2, <2>4, ReviewItems
  <2>5. ASSUME NEW a \in active, SessionGone(a) PROVE Belongs'
    <3>1. pc' = "mark" /\ hand'.item = a.item /\ hand'.state # "Running" /\ active' = active \ {a}
      BY <2>5 DEF SessionGone, Mark, GotoWith, NoHand, Forgotten
    <3>2. SameRows
      BY <2>1 DEF SameRows, SameRow
    <3>. QED  BY <2>1, <3>1, <3>2, HandForgotten
  <2>6. CASE active' = active /\ (next \/ Goto("tick"))
    BY <2>1, <2>2, <2>6, NothingMoves
  <2>. QED  BY <2>3, <2>4, <2>5, <2>6
<1>4. CASE Advance
  <2>1. UNCHANGED <<items, tasks, active>> /\ pc = "advance"
    BY <1>4 DEF Advance
  <2>2. \/ Return \/ Goto("finish") \/ Goto("hold")
        \/ GotoWith("blocked", [NoHand EXCEPT !.items = Queued])
        \/ \E i \in Item : /\ Ready(i, parked)
                           /\ GotoWith("launch", [NoHand EXCEPT !.item = i, !.task = items[i].task,
                                                                !.parallel = queue.places > 1])
    BY <1>4 DEF Advance, Verdicts
  <2>3. CASE Return \/ Goto("finish") \/ Goto("hold")
    BY <1>0, <2>1, <2>3, NothingMoves DEF Goto, Plain
  <2>4. ItemsOfTasks'
    BY <2>1, ItemsOfTasksKept DEF SomeGo, SameRow, Belongs
  <2>5. ASSUME pc' \in {"blocked", "launch"} PROVE SessionsHaveItems' /\ RunningHasSession'
    BY <2>1, <2>5 DEF Belongs, SessionsHaveItems, RunningHasSession, InState
  <2>6. CASE GotoWith("blocked", [NoHand EXCEPT !.items = Queued])
    <3>1. pc' = "blocked" /\ hand'.items = Queued
      BY <2>6 DEF GotoWith, NoHand
    <3>. QED  BY <2>1, <2>4, <2>5, <3>1 DEF Belongs, HandIsFresh, Queued, InState
  <2>7. ASSUME NEW i \in Item, Ready(i, parked),
               GotoWith("launch", [NoHand EXCEPT !.item = i, !.task = items[i].task,
                                                 !.parallel = queue.places > 1])
        PROVE  Belongs'
    <3>1. pc' = "launch" /\ hand'.item = i /\ hand'.task = items[i].task
      BY <2>7 DEF GotoWith, NoHand
    <3>2. items[i].state = "Queued"
      BY <2>7 DEF Ready, MayStart, Queued, InState
    <3>3. \A a \in active : a.item # i
      BY <2>1, <3>2 DEF Belongs, SessionsHaveItems
    <3>. QED  BY <2>1, <2>4, <2>5, <3>1, <3>2, <3>3 DEF Belongs, HandIsFresh
  <2>. QED  BY <2>2, <2>3, <2>6, <2>7
<1>. QED  BY <1>1, <1>2, <1>3, <1>4

(* Launching, opening, marking and renewing.                                  *)
LEMMA LaunchItems ==
    ASSUME TypeOK, HandHasItem, Belongs, Launch \/ Open \/ Started \/ MarkAndGoOn \/ Renew
    PROVE  Belongs'
<1>. USE DEF store, memory
<1>0. (Return => pc' \in Plain) /\ (Goto("advance") \/ Goto("hold") => pc' \in Plain)
  BY DEF Return, Goto, Plain
<1>1. ASSUME NEW s \in Listed, MarkItem(hand.item, s), UNCHANGED <<tasks, active>>, pc' \in Plain,
             \/ pc \in {"launch", "open", "mark"} /\ s # "Running"
             \/ pc = "started" /\ s = "Running"
      PROVE  Belongs'
  <2>1. hand.item \in Item
    BY <1>1 DEF HandHasItem
  <2>2. CASE items[hand.item].state \in Listed
    BY <1>1, <2>1, <2>2, MarkItemRows, HandWritten
  <2>3. CASE items[hand.item].state \notin Listed
    <3>1. items[hand.item].state = "Gone"
      BY <1>1, <2>3, States DEF Belongs, HandIsFresh
    <3>2. SameRows
      BY <1>1, <2>1, <2>3, MarkItemRows
    <3>3. SameHands
      BY <1>1 DEF SameHands, Belongs, SessionsHaveItems
    <3>. QED  BY <1>1, <2>1, <3>1, <3>2, <3>3, HandsKept
  <2>. QED  BY <2>2, <2>3
<1>2. CASE Launch
  <2>1. pc = "launch" /\ UNCHANGED <<tasks, active>>
    BY <1>2 DEF Launch
  <2>2. \/ \E s \in {"Failed", "Skipped"} : MarkItem(hand.item, s) /\ Goto("advance")
        \/ /\ GotoWith("open", [hand EXCEPT !.settled = work[hand.task].settled])
           /\ UNCHANGED items
    BY <1>2 DEF Launch
  <2>3. CASE \E s \in {"Failed", "Skipped"} : MarkItem(hand.item, s) /\ Goto("advance")
    BY <1>0, <1>1, <2>1, <2>3, States
  <2>4. CASE /\ GotoWith("open", [hand EXCEPT !.settled = work[hand.task].settled])
             /\ UNCHANGED items
    <3>1. pc' = "open" /\ hand'.item = hand.item /\ hand'.task = hand.task
      BY <2>4 DEF GotoWith, TypeOK, Hand
    <3>2. ItemsOfTasks'
      BY <2>1, <2>4, ItemsOfTasksKept DEF SomeGo, SameRow, Belongs
    <3>. QED  BY <2>1, <2>4, <3>1, <3>2
              DEF Belongs, SessionsHaveItems, RunningHasSession, HandIsFresh, InState
  <2>. QED  BY <2>2, <2>3, <2>4
<1>3. CASE Open
  <2>1. pc = "open" /\ tasks' = tasks
    BY <1>3 DEF Open
  <2>2. \/ \E s \in {"Failed", "Queued"} : /\ MarkItem(hand.item, s) /\ Goto("advance")
                                          /\ active' = active
        \/ items' = items /\ \E x : Opened(x)
    BY <1>3 DEF Open
  <2>3. CASE \E s \in {"Failed", "Queued"} : /\ MarkItem(hand.item, s) /\ Goto("advance")
                                           /\ active' = active
    BY <1>0, <1>1, <2>1, <2>3, States
  <2>4. ASSUME items' = items, NEW x, Opened(x) PROVE Belongs'
    <3>. DEFINE r == [generation |-> generation + 1, item |-> hand.item, task |-> hand.task,
                      terminal |-> x, settled |-> hand.settled, asks |-> FALSE, closing |-> FALSE]
    <3>1. /\ active' = active \cup {r} /\ pc' = "started" /\ hand'.item = hand.item
          /\ r.item = hand.item /\ r.task = hand.task
      BY <2>4 DEF Opened, GotoWith, NoHand
    <3>. HIDE DEF r
    <3>2. ItemsOfTasks'
      BY <2>1, <2>4, ItemsOfTasksKept DEF SomeGo, SameRow, Belongs
    <3>3. /\ items[hand.item].state \in {"Queued", "Gone"}
          /\ items[hand.item].state = "Queued" => items[hand.item].task = hand.task
          /\ \A a \in active : a.item # hand.item
      BY <2>1 DEF Belongs, HandIsFresh
    <3>4. SessionsHaveItems'
      <4>1. /\ \A a, b \in active : a.item = b.item => a = b
            /\ \A a \in active : /\ items[a.item].state \in {"Running", "Gone"}
                                 /\ items[a.item].state # "Gone" => items[a.item].task = a.task
        BY <2>1 DEF Belongs, SessionsHaveItems
      <4>2. \A a, b \in active' : a.item = b.item => a = b
        BY <3>1, <3>3, <4>1, SMTT(60)
      <4>3. \A a \in active' : \/ items[a.item].state \in {"Running", "Gone"}
                               \/ hand.item = a.item /\ items[a.item].state = "Queued"
        BY <3>1, <3>3, <4>1
      <4>4. \A a \in active' : items[a.item].state # "Gone" => items[a.item].task = a.task
        BY <3>1, <3>3, <4>1
      <4>. QED  BY <2>4, <3>1, <4>2, <4>3, <4>4 DEF SessionsHaveItems
    <3>5. RunningHasSession'
      BY <2>1, <2>4, <3>1 DEF Belongs, RunningHasSession, InState
    <3>6. HandIsFresh'
      BY <2>4, <3>1, <3>3 DEF HandIsFresh
    <3>. QED  BY <3>2, <3>4, <3>5, <3>6 DEF Belongs
  <2>. QED  BY <2>2, <2>3, <2>4
<1>4. CASE Started
  <2>1. /\ MarkItem(hand.item, "Running") /\ pc = "started" /\ Goto("advance")
        /\ UNCHANGED <<tasks, active>>
    BY <1>4 DEF Started
  <2>. QED  BY <1>0, <1>1, <2>1, States
<1>5. CASE MarkAndGoOn
  <2>1. /\ MarkItem(hand.item, hand.state) /\ pc = "mark" /\ UNCHANGED <<tasks, active>>
        /\ hand.after \in {"advance", "hold"}
    BY <1>5 DEF MarkAndGoOn, TypeOK, Hand
  <2>2. pc' \in Plain
    BY <1>0, <1>5, <2>1 DEF MarkAndGoOn
  <2>3. hand.state \in Listed /\ hand.state # "Running"
    BY <2>1 DEF TypeOK, Hand, Belongs, HandIsFresh
  <2>. QED  BY <1>1, <2>1, <2>2, <2>3
<1>6. CASE Renew
  <2>1. UNCHANGED <<items, tasks>> /\ pc = "renew"
    BY <1>6 DEF Renew
  <2>2. PICK a \in active : \/ \E x : Renewed(a, x)
                            \/ active' = Forgotten(a) /\ Mark(a.item, "Failed", "advance")
    BY <1>6 DEF Renew
  <2>3. SameRows
    BY <2>1 DEF SameRows, SameRow
  <2>4. CASE active' = Forgotten(a) /\ Mark(a.item, "Failed", "advance")
    <3>1. pc' = "mark" /\ hand'.item = a.item /\ hand'.state # "Running"
      BY <2>4 DEF Mark, GotoWith, NoHand
    <3>. QED  BY <2>1, <2>3, <2>4, <3>1, HandForgotten DEF Forgotten
  <2>5. ASSUME NEW x, Renewed(a, x) PROVE Belongs'
    <3>. DEFINE b == [a EXCEPT !.terminal = x, !.closing = FALSE]
    <3>1. b.item = a.item /\ b.task = a.task
      BY DEF TypeOK, Active
    <3>2. active' = (active \ {a}) \cup {b} /\ Return
      BY <2>5 DEF Renewed
    <3>. HIDE DEF b
    <3>3. SameHands
      BY <3>1, <3>2, ReplacedHands DEF Belongs
    <3>. QED  BY <1>0, <2>1, <2>3, <3>2, <3>3, HandsKept, ZenonT(60)
  <2>. QED  BY <2>2, <2>4, <2>5
<1>. QED  BY <1>2, <1>3, <1>4, <1>5, <1>6

(* stop_blocked marks what it read as waiting, and that still waits or is gone: *)
(* no row changes its state.                                                    *)
LEMMA StopBlockedRows ==
    ASSUME TypeOK, Belongs, StopBlocked
    PROVE  SameRows
<1>1. /\ pc = "blocked" /\ StopBlockedQueue(hand.items) /\ hand.items \subseteq Item
  BY DEF StopBlocked, TypeOK, Hand
<1>. SUFFICES ASSUME NEW i \in Item PROVE SameRow(i)
  BY DEF SameRows
<1>2. items'[i] = IF i \in hand.items /\ items[i].state \in Listed
                  THEN Moved(i, "Queued")[i] ELSE items[i]
  BY <1>1 DEF StopBlockedQueue
<1>3. i \in hand.items => items[i].state \in {"Queued", "Gone"}
  BY <1>1 DEF Belongs, HandIsFresh
<1>4. "Gone" \notin Listed /\ "Queued" \in ItemState
  BY DEF ItemState, Listed, Settled
<1>5. Moved(i, "Queued")[i].state = "Queued" /\ Moved(i, "Queued")[i].task = items[i].task
  BY <1>4, MovedRows
<1>6. CASE i \in hand.items /\ items[i].state \in Listed
  <2>1. items[i].state = "Queued" /\ items'[i] = Moved(i, "Queued")[i]
    BY <1>2, <1>3, <1>4, <1>6
  <2>. QED  BY <1>5, <2>1 DEF SameRow
<1>7. CASE ~(i \in hand.items /\ items[i].state \in Listed)
  BY <1>2, <1>7 DEF SameRow
<1>. QED  BY <1>6, <1>7

(* Stopping, recovering, and stopping with everything blocked: no session is  *)
(* left in hand.                                                              *)
LEMMA StopItems ==
    ASSUME TypeOK, WorkerInv, Belongs, Recover \/ Stop \/ StopBlocked
    PROVE  Belongs'
<1>. USE DEF store, memory
<1>1. UNCHANGED <<tasks, active>> /\ active = {}
  BY DEF Recover, Stop, StopBlocked, WorkerInv
<1>2. pc' \in Plain
  BY DEF Recover, Stop, StopBlocked, Return, Goto, Plain
<1>3. CASE Recover \/ Stop
  <2>1. PutBack
    BY <1>3, RunningToQueuedRows DEF Recover, RecoverAfterRestart, Stop, StopQueue
  <2>2. ItemsOfTasks'
    BY <1>1, <2>1, ItemsOfTasksKept DEF Belongs
  <2>3. \A i \in Item : items'[i].state # "Running"
    BY <2>1 DEF PutBack
  <2>. QED  BY <1>1, <1>2, <2>2, <2>3
            DEF Belongs, SessionsHaveItems, RunningHasSession, InState, HandIsFresh, Plain
<1>4. CASE StopBlocked
  <2>1. pc = "blocked"
    BY <1>4 DEF StopBlocked
  <2>2. SameRows
    BY <1>4, StopBlockedRows
  <2>3. SameHands
    BY <1>1 DEF SameHands
  <2>. QED  BY <1>1, <1>2, <2>1, <2>2, <2>3, HandsKept
<1>. QED  BY <1>3, <1>4

(* A crash empties the worker's hand, and what it was about to write is       *)
(* written anew.                                                              *)
LEMMA CrashItems ==
    ASSUME TypeOK, Belongs, Crash
    PROVE  Belongs'
<1>1. UNCHANGED <<items, tasks>> /\ active' = {} /\ pc' = "recover"
  BY DEF Crash, Goto, store
<1>2. ItemsOfTasks'
  BY <1>1, ItemsOfTasksKept DEF SomeGo, SameRow, Belongs
<1>. QED  BY <1>1, <1>2 DEF Belongs, SessionsHaveItems, RunningHasSession, HandIsFresh

(* A transaction that failed is counted for good.                             *)
LEMMA FaultsCounted ==
    ASSUME TypeOK, [Next]_vars
    PROVE  /\ faults' = 0 => faults = 0
           /\ HandlerFails => faults' # 0
<1>1. HandlerFails => faults' = faults + 1
  BY DEF HandlerFails
<1>2. HandlerFails \/ faults' = faults
  BY ZenonT(60) DEF Next, vars, budget, Console, OutsideWorker, People, Sessions, TimePasses, UserOpens, Accept, SendBack,
      TerminalEnds, PermissionPrompt, StartStep, Claim, TickDone, StepSettled,
      Signals, HandleTick, HandlePending, HandleReview, HandleSessionEnded, HandleStop,
      HandleSettleOrPause, HandleRenew, HandleStale, InHandler, Recover, Resume, NotePermissionWait,
      TickAdvances, TickSession, Advance, Finish, StopBlocked, Hold, Launch, Open, Started,
      MarkAndGoOn, Renew, Stop, Crash
<1>3. faults \in Nat
  BY DEF TypeOK
<1>. QED  BY <1>1, <1>2, <1>3, SMTT(60)

(* Every step that is not a failed transaction keeps items and sessions       *)
(* together.                                                                  *)
LEMMA BelongsStep ==
    ASSUME TypeOK, HandHasItem, WorkerInv, Belongs, [Next]_vars, ~HandlerFails
    PROVE  Belongs'
<1>1. CASE UNCHANGED vars
  <2>1. UNCHANGED <<items, tasks, active, pc, hand>>
    BY <1>1 DEF vars, store, memory, control
  <2>2. ItemsOfTasks' /\ SessionsHaveItems'
    BY <2>1, SMTT(60) DEF Belongs, ItemsOfTasks, SessionsHaveItems, ListedItems, Queued, InState
  <2>3. RunningHasSession' /\ HandIsFresh'
    BY <2>1 DEF Belongs, RunningHasSession, HandIsFresh, InState
  <2>. QED  BY <2>2, <2>3 DEF Belongs
<1>2. CASE Next
  BY <1>2, OutsideItems, SignalsItems, TickItems, LaunchItems, StopItems, CrashItems
  DEF Next, InHandler
<1>. QED  BY <1>1, <1>2

(* Items and sessions belong together in every behaviour, up to the first     *)
(* transaction that fails.                                                    *)
THEOREM ItemsBelong == Spec => []ItemsInHand
<1>. DEFINE Inv == TypeOK /\ HandHasItem /\ WorkerInv
<1>1. Init => ItemsInHand
  <2>. SUFFICES ASSUME Init PROVE Belongs
    BY DEF ItemsInHand, Belongs
  <2>1. /\ \A i \in Item : items[i].state = "New"
        /\ active = {} /\ pc = "recover"
    BY DEF Init, NoRow
  <2>2. "New" \notin Listed
    BY DEF Listed, Settled
  <2>. QED  BY <2>1, <2>2 DEF Belongs, ItemsOfTasks, SessionsHaveItems, RunningHasSession, HandIsFresh,
                              ListedItems, Queued, InState
<1>2. Inv /\ ItemsInHand /\ [Next]_vars => ItemsInHand'
  <2>. SUFFICES ASSUME Inv, ItemsInHand, [Next]_vars, faults' = 0 PROVE Belongs'
    BY DEF ItemsInHand, Belongs
  <2>1. faults = 0 /\ ~HandlerFails
    BY FaultsCounted
  <2>2. Belongs
    BY <2>1 DEF ItemsInHand, Belongs
  <2>. QED  BY <2>1, <2>2, BelongsStep
<1>. QED  BY <1>1, <1>2, WorkerInductive, PTL DEF Spec

(* Between two commands every running item has its session in hand, after     *)
(* any number of restarts.                                                    *)
THEOREM RunningIsWorked == Spec => []RunningItemIsWorked
<1>1. ItemsInHand => RunningItemIsWorked
  BY DEF ItemsInHand, RunningHasSession, RunningItemIsWorked
<1>. QED  BY <1>1, ItemsBelong, PTL

(* Two sessions in hand work two tasks, unless the item of one is gone.       *)
THEOREM OneSessionEach == Spec => []OneSessionPerTask
<1>1. TypeOK /\ ItemsInHand => OneSessionPerTask
  <2>. SUFFICES ASSUME TypeOK, ItemsInHand, faults = 0, NEW a \in active, NEW b \in active,
                       a.task = b.task, items[a.item].state # "Gone", items[b.item].state # "Gone"
                PROVE  a = b
    BY DEF OneSessionPerTask
  <2>1. ItemsOfTasks /\ SessionsHaveItems
    BY DEF ItemsInHand
  <2>2. a.item \in Item /\ b.item \in Item
    BY DEF TypeOK, Active
  <2>3. /\ items[a.item].state \in {"Queued", "Running"} /\ items[a.item].task = a.task
        /\ items[b.item].state \in {"Queued", "Running"} /\ items[b.item].task = b.task
    BY <2>1 DEF SessionsHaveItems
  <2>4. a.item = b.item
    BY <2>1, <2>2, <2>3 DEF ItemsOfTasks, Queued, InState
  <2>. QED  BY <2>1, <2>4 DEF SessionsHaveItems
<1>. QED  BY <1>1, ItemsBelong, TypeCorrect, PTL

(* What the handlers rely on holds throughout, failures and crashes included. *)
THEOREM WorkerIsSound == Spec => []WorkerInv
BY WorkerInductive, PTL

-----------------------------------------------------------------------------
(* The refinement of QueuePromise *)

Life  == [i \in Item |-> LifeOf(items[i].state)]
About == [i \in Item |-> items[i].task]

(* What the states mean to the promise.                                       *)
LEMMA Lives ==
    /\ LifeOf("New") = "new" /\ LifeOf("Queued") = "waiting" /\ LifeOf("Running") = "worked"
    /\ LifeOf("Gone") = "gone" /\ \A s \in Settled : LifeOf(s) = "settled"
BY DEF LifeOf, Settled

(* Rows that keep state and task look the same to the promise.                *)
LEMMA SameRowsPromise ==
    ASSUME SameRows
    PROVE  Life' = Life /\ About' = About
BY DEF SameRows, SameRow, Life, About

(* A new row is a task entering.                                              *)
LEMMA EnteredPromise ==
    ASSUME TypeOK, NEW i \in Item, NEW t \in Task, Entered(i, t)
    PROVE  Promise!Enter(i, t)
<1>1. Life[i] = "new"
  BY Lives DEF Life, Entered
<1>2. Life' = [Life EXCEPT ![i] = "waiting"]
  BY Lives DEF Life, Entered, SameRow
<1>3. About' = [About EXCEPT ![i] = t]
  BY DEF About, Entered, SameRow
<1>4. ASSUME NEW j \in Item, About[j] = t, Life[j] \in {"waiting", "worked"} PROVE FALSE
  <2>1. items[j].task = t /\ items[j].state \in ItemState
    BY <1>4 DEF About, TypeOK, ItemRow
  <2>2. LifeOf(items[j].state) \in {"waiting", "worked"}
    BY <1>4 DEF Life
  <2>3. items[j].state \in Listed /\ items[j].state \notin Settled
    BY <2>1, <2>2, Lives DEF ItemState
  <2>. QED  BY <2>1, <2>3 DEF Entered, ListedItems
<1>. QED  BY <1>1, <1>2, <1>3, <1>4 DEF Promise!Enter, Promise!Of, Promise!In, Life, About

(* Marking an item that waits or is worked takes it, settles it, gives it     *)
(* back or leaves it as it is.                                                *)
LEMMA MarkedPromise ==
    ASSUME TypeOK, NEW i \in Item, NEW s \in Listed, MarkedAs(i, s),
           items[i].state \in {"Queued", "Running"}
    PROVE  Promise!Next \/ (Life' = Life /\ About' = About)
<1>1. About' = About
  BY DEF About, MarkedAs, SameRow
<1>2. Life' = [Life EXCEPT ![i] = LifeOf(s)]
  BY DEF Life, MarkedAs, SameRow
<1>3. Life[i] = LifeOf(items[i].state)
  BY DEF Life
<1>4. CASE s \in Settled
  <2>1. Promise!Settle(i)
    BY <1>1, <1>2, <1>3, <1>4, Lives DEF Promise!Settle, Life, About
  <2>. QED  BY <2>1 DEF Promise!Next
<1>5. CASE s = items[i].state
  <2>1. Life' = Life
    BY <1>2, <1>3, <1>5 DEF Life
  <2>. QED  BY <1>1, <2>1
<1>6. CASE s = "Running" /\ items[i].state = "Queued"
  <2>1. Promise!Take(i)
    BY <1>1, <1>2, <1>3, <1>6, Lives DEF Promise!Take, Life, About
  <2>. QED  BY <2>1 DEF Promise!Next
<1>7. CASE s = "Queued" /\ items[i].state = "Running"
  <2>1. Promise!GiveBack({i})
    <3>1. i \in Promise!In({"worked"})
      BY <1>3, <1>7, Lives DEF Promise!In, Life
    <3>2. Life' = [j \in Item |-> IF j \in {i} THEN "waiting" ELSE Life[j]]
      BY <1>2, <1>7, Lives DEF Life
    <3>. QED  BY <1>1, <3>1, <3>2 DEF Promise!GiveBack, Promise!Becomes, Life, About
  <2>. QED  BY <2>1 DEF Promise!Next
<1>. QED  BY <1>4, <1>5, <1>6, <1>7 DEF Listed

(* Stopping and recovering give every worked item back.                       *)
LEMMA PutBackPromise ==
    ASSUME TypeOK, PutBack
    PROVE  Promise!GiveBack(InState("Running"))
<1>1. About' = About
  BY DEF About, PutBack
<1>2. InState("Running") \subseteq Promise!In({"worked"})
  BY Lives DEF Promise!In, InState
<1>3. Life' = [j \in Item |-> IF j \in InState("Running") THEN "waiting" ELSE Life[j]]
  BY Lives DEF Life, PutBack, InState
<1>. QED  BY <1>1, <1>2, <1>3 DEF Promise!GiveBack, Promise!Becomes, Life, About

(* Items taken off the list, or gone with their task, leave.                  *)
LEMMA GonePromise ==
    ASSUME TypeOK, TypeOK', NEW S \in SUBSET Item,
           \A i \in Item : IF i \in S THEN items'[i].state = "Gone" ELSE SameRow(i),
           \/ \A i \in S : items[i].state = "Queued" \/ items[i].state \in Settled
           \/ \E t \in Task : S = {i \in Item : items[i].task = t /\ items[i].state \in Listed}
    PROVE  Promise!Leave(S)
<1>1. \/ S \subseteq Promise!In({"waiting", "settled"})
      \/ \E t \in Task : S = Promise!Of(t) \cap Promise!In({"waiting", "worked", "settled"})
  <2>1. CASE \A i \in S : items[i].state = "Queued" \/ items[i].state \in Settled
    BY <2>1, Lives DEF Promise!In
  <2>2. ASSUME NEW t \in Task, S = {i \in Item : items[i].task = t /\ items[i].state \in Listed}
        PROVE  S = Promise!Of(t) \cap Promise!In({"waiting", "worked", "settled"})
    <3>1. \A i \in Item : items[i].state \in Listed <=>
                            LifeOf(items[i].state) \in {"waiting", "worked", "settled"}
      <4>. SUFFICES ASSUME NEW i \in Item
                    PROVE  items[i].state \in Listed <=>
                               LifeOf(items[i].state) \in {"waiting", "worked", "settled"}
        OBVIOUS
      <4>1. items[i].state \in ItemState
        BY DEF TypeOK, ItemRow
      <4>. QED  BY <4>1, Lives DEF ItemState, Listed, Settled
    <3>. QED  BY <2>2, <3>1 DEF Promise!Of, Promise!In
  <2>. QED  BY <2>1, <2>2
<1>2. Life' = [j \in Item |-> IF j \in S THEN "gone" ELSE Life[j]]
  BY Lives DEF Life, SameRow
<1>3. About' \in [Item -> Task] /\ \A i \in Item \ S : About'[i] = About[i]
  BY DEF About, SameRow, TypeOK, ItemRow
<1>. QED  BY <1>1, <1>2, <1>3 DEF Promise!Leave, Promise!Becomes, Life, About

(* Every step that is no failed transaction is a step of the promise, or one  *)
(* it does not see.                                                           *)
LEMMA PromiseStep ==
    ASSUME TypeOK, HandHasItem, WorkerInv, Belongs, [Next]_vars, ~HandlerFails
    PROVE  Promise!Next \/ (Life' = Life /\ About' = About)
<1>. USE DEF store
<1>0. TypeOK'
  BY TypeStep
<1>1. CASE Console
  <2>1. ASSUME NEW i \in Item, NEW t \in Task, Entered(i, t) PROVE Promise!Next
    BY <2>1, EnteredPromise DEF Promise!Next
  <2>2. ASSUME SomeGo, \A i \in Item : items[i].state \in {"New", "Running", "Gone"} => SameRow(i)
        PROVE  Promise!Next
    <3>0. PICK S \in SUBSET Item : S = {i \in Item : ~SameRow(i)}
      OBVIOUS
    <3>1. \A i \in S : items[i].state = "Queued" \/ items[i].state \in Settled
      BY <2>2, <3>0 DEF TypeOK, ItemRow, ItemState, Listed
    <3>2. Promise!Leave(S)
      BY <1>0, <2>2, <3>0, <3>1, GonePromise, ZenonT(60) DEF SomeGo
    <3>. QED  BY <3>2 DEF Promise!Next
  <2>3. ASSUME NEW t \in Task, \A i \in Item : IF items[i].task = t /\ items[i].state \in Listed
                                               THEN items'[i].state = "Gone" ELSE SameRow(i)
        PROVE  Promise!Next
    <3>0. PICK S \in SUBSET Item : S = {i \in Item : items[i].task = t /\ items[i].state \in Listed}
      OBVIOUS
    <3>1. Promise!Leave(S)
      BY <1>0, <2>3, <3>0, GonePromise
    <3>. QED  BY <3>1 DEF Promise!Next
  <2>. QED  BY <1>1, <2>1, <2>2, <2>3, ConsoleRows
<1>2. ASSUME SameRows PROVE Life' = Life /\ About' = About
  BY <1>2, SameRowsPromise
<1>3. CASE items' = items
  BY <1>2, <1>3 DEF SameRows, SameRow
<1>4. CASE NotePermissionWait
  <2>1. PICK a \in active :
          items' = IF items[a.item].state \in Listed
                   THEN [items EXCEPT ![a.item].state = "Running",
                                      ![a.item].asks = term[a.terminal].asks]
                   ELSE items
    BY <1>4 DEF NotePermissionWait
  <2>2. a.item \in Item
    BY DEF TypeOK, Active
  <2>3. items[a.item].state \in {"Running", "Gone"}
    BY <1>4 DEF Belongs, SessionsHaveItems, NotePermissionWait
  <2>4. SameRows
    BY <2>1, <2>2, <2>3, ZenonT(60) DEF SameRows, SameRow, TypeOK, ItemRow, Listed, Settled
  <2>. QED  BY <1>2, <2>4
<1>5. CASE StopBlocked
  <2>1. SameRows
    BY <1>5, StopBlockedRows
  <2>. QED  BY <1>2, <2>1
<1>6. CASE Recover \/ Stop
  <2>1. PutBack
    BY <1>6, RunningToQueuedRows DEF Recover, RecoverAfterRestart, Stop, StopQueue
  <2>2. Promise!GiveBack(InState("Running")) /\ InState("Running") \in SUBSET Item
    BY <2>1, PutBackPromise DEF InState
  <2>. QED  BY <2>2 DEF Promise!Next
<1>7. CASE Launch \/ Open \/ Started \/ MarkAndGoOn
  <2>1. pc \in {"launch", "open", "started", "mark"} /\ hand.item \in Item
    BY <1>7 DEF Launch, Open, Started, MarkAndGoOn, HandHasItem
  <2>2. items[hand.item].state \in {"Queued", "Running", "Gone"}
    BY <2>1 DEF Belongs, HandIsFresh
  <2>3. items' = items \/ \E s \in Listed : MarkItem(hand.item, s)
    <3>1. hand.state \in Listed
      BY DEF TypeOK, Hand
    <3>. QED  BY <1>7, <3>1, States, ZenonT(60) DEF Launch, Open, Started, MarkAndGoOn
  <2>4. ASSUME NEW s \in Listed, MarkItem(hand.item, s)
        PROVE  Promise!Next \/ (Life' = Life /\ About' = About)
    <3>1. "Gone" \notin Listed
      BY DEF Listed, Settled
    <3>. QED  BY <1>2, <2>1, <2>2, <2>4, <3>1, MarkItemRows, MarkedPromise, ZenonT(60)
  <2>. QED  BY <1>3, <2>3, <2>4
<1>8. \/ Console \/ items' = items \/ NotePermissionWait \/ StopBlocked \/ Recover \/ Stop
      \/ Launch \/ Open \/ Started \/ MarkAndGoOn
  BY ZenonT(60) DEF Next, vars, People, Sessions, TimePasses, TimeComes, UserOpens, Accept, SendBack,
      TerminalEnds, PermissionPrompt, StartStep, Claim, TickDone, StepSettled,
      Signals, HandleTick, HandlePending, HandleReview, HandleSessionEnded, HandleStop,
      HandleSettleOrPause, HandleRenew, HandleStale, InHandler, Resume, ResumeQueue,
      TickAdvances, TickSession, Advance, Finish, FinishQueue, Hold, HoldQueue, Renew, Crash
<1>. QED  BY <1>1, <1>3, <1>4, <1>5, <1>6, <1>7, <1>8, ZenonT(60)

(* As long as no transaction fails, the queue and its worker implement        *)
(* QueuePromise, crashes and restarts included.                               *)
THEOREM QueueKeepsPromise == Spec /\ [](faults = 0) => KeepsPromise
<1>. DEFINE Inv == TypeOK /\ HandHasItem /\ WorkerInv
<1>1. Init => Promise!Init
  <2>. SUFFICES ASSUME Init PROVE Promise!Init
    OBVIOUS
  <2>1. Life = [i \in Item |-> "new"]
    BY Lives DEF Life, Init, NoRow
  <2>2. About \in [Item -> Task]
    BY Blanks DEF About, Init, NoRow
  <2>. QED  BY <2>1, <2>2 DEF Promise!Init, Life, About
<1>2. Inv /\ ItemsInHand /\ faults = 0 /\ (faults = 0)' /\ [Next]_vars => [Promise!Next]_(Promise!promise)
  <2>. SUFFICES ASSUME Inv, ItemsInHand, faults = 0, faults' = 0, [Next]_vars
                PROVE  Promise!Next \/ (Life' = Life /\ About' = About)
    BY DEF Promise!promise, Life, About
  <2>1. ~HandlerFails
    BY FaultsCounted
  <2>2. Belongs
    BY DEF ItemsInHand, Belongs
  <2>. QED  BY <2>1, <2>2, PromiseStep
<1>. QED  BY <1>1, <1>2, WorkerInductive, ItemsBelong, PTL DEF Spec, KeepsPromise, Promise!Spec

-----------------------------------------------------------------------------
(* The positions of the list, as long as no task is deleted *)

(* Deleting a task leaves the other items' positions as they were *)
NoTaskDeleted == Init /\ [][Next /\ UNCHANGED tasks]_vars

PlacesKept ==
    \A i \in Item : /\ items'[i].position = items[i].position
                    /\ items'[i].state \in Listed <=> items[i].state \in Listed

(* The rows that wait, run or are settled keep their places.                  *)
LEMMA PlacesStay ==
    ASSUME DensePositions, PlacesKept
    PROVE  DensePositions'
<1>1. ListedItems' = ListedItems
  BY DEF PlacesKept, ListedItems
<1>2. \A i \in ListedItems : items'[i].position = items[i].position
  BY DEF PlacesKept, ListedItems
<1>3. \A i \in ListedItems' : items'[i].position < Cardinality(ListedItems')
  BY <1>1, <1>2 DEF DensePositions
<1>4. \A i, j \in ListedItems' : items'[i].position = items'[j].position => i = j
  BY <1>1, <1>2, SMTT(60) DEF DensePositions
<1>. QED  BY <1>3, <1>4 DEF DensePositions

(* Rows numbered anew: as many places as rows, no two alike.                  *)
LEMMA NumberedAnew ==
    ASSUME NEW S, ListedItems' = S, NEW p,
           \A i \in S : items'[i].position = p[i] /\ p[i] < Cardinality(S),
           \A i, j \in S : p[i] = p[j] => i = j
    PROVE  DensePositions'
BY SMTT(60) DEF DensePositions

(* A new row is behind the others.                                            *)
LEMMA EnqueueDense ==
    ASSUME TypeOK, DensePositions, NEW t, Enqueue(t)
    PROVE  DensePositions'
<1>1. PICK i \in Item : /\ items[i].state = "New"
                        /\ items' = [items EXCEPT ![i] = [state |-> "Queued", task |-> t, asks |-> FALSE,
                                                          position |-> Cardinality(ListedItems)]]
  <2>1. PICK n : n = CHOOSE m \in Item : items[m].state = "New"
    OBVIOUS
  <2>2. n \in Item /\ items[n].state = "New"
    BY <2>1 DEF Enqueue, InState
  <2>. QED  BY <2>1, <2>2 DEF Enqueue
<1>2. IsFiniteSet(ListedItems) /\ Cardinality(ListedItems) \in Nat
  BY ItemsCount DEF ListedItems
<1>3. /\ items'[i].state = "Queued" /\ items'[i].position = Cardinality(ListedItems)
      /\ \A j \in Item : j # i => items'[j] = items[j]
  BY <1>1 DEF TypeOK
<1>4. i \notin ListedItems /\ ListedItems' = ListedItems \cup {i}
  BY <1>1, <1>3 DEF ListedItems, Listed, Settled
<1>5. Cardinality(ListedItems') = Cardinality(ListedItems) + 1
  BY <1>2, <1>4, FS_AddElement
<1>6. \A j \in ListedItems : j \in Item /\ j # i /\ items'[j] = items[j] /\ items[j].position \in Nat
  BY <1>3, <1>4 DEF ListedItems, TypeOK, ItemRow
<1>7. \A j \in ListedItems' : items'[j].position < Cardinality(ListedItems')
  BY <1>2, <1>3, <1>4, <1>5, <1>6, SMTT(60) DEF DensePositions
<1>8. \A j, k \in ListedItems' : items'[j].position = items'[k].position => j = k
  BY <1>2, <1>3, <1>4, <1>6, SMTT(60) DEF DensePositions
<1>. QED  BY <1>7, <1>8 DEF DensePositions

(* remove, clear_settled: the rows left are numbered from the first place.    *)
LEMMA RenumberDense ==
    ASSUME TypeOK, NEW gone \in SUBSET Item, NEW p \in Orders(ListedItems \ gone),
           \A i \in Item : items'[i] = IF i \in gone THEN GoneRow ELSE Renumbered(items, p)[i]
    PROVE  DensePositions'
<1>. DEFINE S == ListedItems \ gone
<1>1. S \subseteq Item /\ p \in [S -> 0 .. Cardinality(S) - 1] /\ \A i, j \in S : p[i] = p[j] => i = j
  BY DEF Orders, ListedItems
<1>2. Cardinality(S) \in Nat
  BY <1>1, ItemsCount
<1>3. \A i \in S : p[i] < Cardinality(S) /\ DOMAIN p = S
  BY <1>1, <1>2, SMTT(60)
<1>4. ASSUME NEW i \in Item \ gone
      PROVE  /\ items'[i].state = items[i].state
             /\ i \in S => items'[i].position = p[i]
  <2>1. items'[i] = IF i \in S THEN [items[i] EXCEPT !.position = p[i]] ELSE items[i]
    BY <1>1, <1>3, <1>4 DEF Renumbered
  <2>2. items[i] \in ItemRow
    BY DEF TypeOK
  <2>. QED  BY <2>1, <2>2 DEF ItemRow
<1>5. \A i \in gone : items'[i].state = "Gone"
  BY DEF GoneRow, NoRow
<1>6. ListedItems' = S
  BY <1>4, <1>5 DEF ListedItems, Listed, Settled
<1>. HIDE DEF S
<1>7. \A i \in S : items'[i].position = p[i] /\ p[i] < Cardinality(S)
  BY <1>3, <1>4 DEF S, ListedItems
<1>8. \A i, j \in S : p[i] = p[j] => i = j
  BY <1>1
<1>. QED  BY <1>6, <1>7, <1>8, NumberedAnew, SMTT(60)

(* How many of S come before j: fewer than S holds, and a different number    *)
(* for each.                                                                  *)
LEMMA RankOf ==
    ASSUME NEW S, S \subseteq Item, NEW p, \A k \in S : p[k] \in Nat,
           \A j, k \in S : p[j] = p[k] => j = k
    PROVE  /\ \A j \in S : /\ Cardinality({k \in S : p[k] < p[j]}) \in Nat
                           /\ Cardinality({k \in S : p[k] < p[j]}) < Cardinality(S)
           /\ \A i, j \in S : Cardinality({k \in S : p[k] < p[i]}) = Cardinality({k \in S : p[k] < p[j]}) => i = j
<1>1. IsFiniteSet(S) /\ Cardinality(S) \in Nat
  BY ItemsCount
<1>2. ASSUME NEW A \in SUBSET S, NEW B \in SUBSET S, A \subseteq B, NEW x \in B, x \notin A
      PROVE  Cardinality(A) \in Nat /\ Cardinality(B) \in Nat /\ Cardinality(A) < Cardinality(B)
  <2>1. IsFiniteSet(A) /\ IsFiniteSet(B) /\ Cardinality(A) \in Nat /\ Cardinality(B) \in Nat
    BY <1>1, FS_Subset, FS_CardinalityType
  <2>2. Cardinality(A) <= Cardinality(B) /\ Cardinality(A) # Cardinality(B)
    BY <1>2, <2>1, FS_Subset, ZenonT(60)
  <2>. QED  BY <2>1, <2>2, SMTT(60)
<1>3. ASSUME NEW j \in S
      PROVE  /\ Cardinality({k \in S : p[k] < p[j]}) \in Nat
             /\ Cardinality({k \in S : p[k] < p[j]}) < Cardinality(S)
  <2>1. PICK A : A = {k \in S : p[k] < p[j]}
    OBVIOUS
  <2>2. A \in SUBSET S /\ j \notin A
    BY <2>1, SMTT(60)
  <2>. QED  BY <1>2, <1>3, <2>1, <2>2
<1>4. ASSUME NEW i \in S, NEW j \in S, p[i] < p[j]
      PROVE  Cardinality({k \in S : p[k] < p[i]}) # Cardinality({k \in S : p[k] < p[j]})
  <2>1. PICK A, B : A = {k \in S : p[k] < p[i]} /\ B = {k \in S : p[k] < p[j]}
    OBVIOUS
  <2>2. A \in SUBSET S /\ B \in SUBSET S /\ A \subseteq B /\ i \in B /\ i \notin A
    BY <1>4, <2>1, SMTT(60)
  <2>. QED  BY <1>2, <2>1, <2>2, SMTT(60)
<1>5. ASSUME NEW i \in S, NEW j \in S, i # j PROVE p[i] < p[j] \/ p[j] < p[i]
  BY <1>5, SMTT(60)
<1>. QED  BY <1>3, <1>4, <1>5, ZenonT(60)

(* The places after a move: the rows ahead first, then the waiting ones with  *)
(* the moved one among them.                                                  *)
LEMMA PlacesAfterMove ==
    ASSUME TypeOK, NEW i \in Queued, NEW at \in Nat, NEW p \in Orders(ListedItems)
    PROVE  /\ \A j \in ListedItems : PlaceAfterMove(p, i, at, j) < Cardinality(ListedItems)
           /\ \A j, k \in ListedItems : PlaceAfterMove(p, i, at, j) = PlaceAfterMove(p, i, at, k) => j = k
<1>1. PICK ahead, others : ahead = ListedItems \ Queued /\ others = Queued \ {i}
  OBVIOUS
<1>2. ListedItems \subseteq Item /\ Queued \subseteq ListedItems
  BY DEF ListedItems, Queued, InState, Listed
<1>3. /\ ahead \subseteq ListedItems /\ others \subseteq ListedItems /\ i \notin ahead /\ i \notin others
      /\ ListedItems = (ahead \cup others) \cup {i} /\ ahead \cap others = {}
  BY <1>1, <1>2
<1>4. PICK n, m : n = Cardinality(ahead) /\ m = Cardinality(others)
  OBVIOUS
<1>5. n \in Nat /\ m \in Nat /\ IsFiniteSet(ahead) /\ IsFiniteSet(others)
  BY <1>2, <1>3, <1>4, ItemsCount, ZenonT(60)
<1>6. Cardinality(ListedItems) = n + m + 1
  <2>1. IsFiniteSet(ahead \cup others) /\ Cardinality(ahead \cup others) = n + m
    <3>1. IsFiniteSet(ahead \cup others) /\ Cardinality(ahead \cup others) = Cardinality(ahead) + Cardinality(others) - Cardinality(ahead \cap others)
      BY <1>5, FS_Union
    <3>2. Cardinality(ahead \cap others) = 0
      BY <1>3, FS_EmptySet
    <3>. QED  BY <1>4, <1>5, <3>1, <3>2, SMTT(60)
  <2>2. i \notin ahead \cup others
    BY <1>3
  <2>3. Cardinality((ahead \cup others) \cup {i}) = Cardinality(ahead \cup others) + 1
    BY <2>1, <2>2, FS_AddElement, ZenonT(60)
  <2>. QED  BY <1>3, <2>1, <2>3, ZenonT(60)
<1>7. (\A k \in ListedItems : p[k] \in Nat) /\ \A j, k \in ListedItems : p[j] = p[k] => j = k
  BY <1>2, OrdersType, SMTT(60) DEF Orders
<1>. DEFINE rank(S, j) == Cardinality({k \in S : p[k] < p[j]})
<1>8. /\ \A j \in ahead : rank(ahead, j) \in Nat /\ rank(ahead, j) < n
      /\ \A j, k \in ahead : rank(ahead, j) = rank(ahead, k) => j = k
  <2>1. ahead \subseteq Item /\ (\A k \in ahead : p[k] \in Nat) /\ \A j, k \in ahead : p[j] = p[k] => j = k
    BY <1>2, <1>3, <1>7
  <2>. QED  BY <1>4, <2>1, RankOf, SMTT(60)
<1>9. /\ \A j \in others : rank(others, j) \in Nat /\ rank(others, j) < m
      /\ \A j, k \in others : rank(others, j) = rank(others, k) => j = k
  <2>1. others \subseteq Item /\ (\A k \in others : p[k] \in Nat) /\ \A j, k \in others : p[j] = p[k] => j = k
    BY <1>2, <1>3, <1>7
  <2>. QED  BY <1>4, <2>1, RankOf, SMTT(60)
<1>10. PICK index : index = IF at > m THEN m ELSE at
  OBVIOUS
<1>11. index \in 0 .. m
  BY <1>5, <1>10, SMTT(60)
<1>12. ASSUME NEW j \in ahead PROVE PlaceAfterMove(p, i, at, j) = rank(ahead, j)
  BY <1>1, <1>12 DEF PlaceAfterMove
<1>13. PlaceAfterMove(p, i, at, i) = n + index
  BY <1>1, <1>3, <1>4, <1>10, ZenonT(60) DEF PlaceAfterMove
<1>14. ASSUME NEW j \in others
       PROVE  PlaceAfterMove(p, i, at, j) = n + rank(others, j) + (IF rank(others, j) >= index THEN 1 ELSE 0)
  <2>1. j \notin ahead /\ j # i
    BY <1>3
  <2>. QED  BY <1>1, <1>4, <1>10, <1>14, <2>1, ZenonT(60) DEF PlaceAfterMove
<1>. HIDE DEF rank
<1>15. ASSUME NEW j \in ListedItems PROVE PlaceAfterMove(p, i, at, j) < n + m + 1
  BY <1>3, <1>5, <1>8, <1>9, <1>11, <1>12, <1>13, <1>14, SMTT(60)
<1>16. ASSUME NEW j \in ListedItems, NEW k \in ListedItems, PlaceAfterMove(p, i, at, j) = PlaceAfterMove(p, i, at, k)
       PROVE  j = k
  BY <1>3, <1>5, <1>8, <1>9, <1>11, <1>12, <1>13, <1>14, <1>16, SMTT(60)
<1>. QED  BY <1>6, <1>15, <1>16

(* move_to: the list numbered in its new order.                               *)
LEMMA MoveToDense ==
    ASSUME TypeOK, NEW i, NEW at \in Nat, MoveTo(i, at)
    PROVE  DensePositions'
<1>1. i \in Queued
  BY DEF MoveTo
<1>2. PICK p \in Orders(ListedItems) : items' = Renumbered(items, [j \in ListedItems |-> PlaceAfterMove(p, i, at, j)])
  BY DEF MoveTo
<1>3. PICK f : f = [j \in ListedItems |-> PlaceAfterMove(p, i, at, j)]
  OBVIOUS
<1>4. items' = Renumbered(items, f)
  BY <1>2, <1>3
<1>5. ASSUME NEW j \in Item
      PROVE  items'[j].state = items[j].state /\ (j \in ListedItems => items'[j].position = f[j])
  <2>1. items'[j] = IF j \in ListedItems THEN [items[j] EXCEPT !.position = f[j]] ELSE items[j]
    BY <1>3, <1>4, ZenonT(60) DEF Renumbered
  <2>2. items[j] \in ItemRow
    BY DEF TypeOK
  <2>. QED  BY <2>1, <2>2 DEF ItemRow
<1>6. ListedItems' = ListedItems
  BY <1>5 DEF ListedItems
<1>7. ListedItems \subseteq Item
  BY DEF ListedItems
<1>8. /\ \A j \in ListedItems : f[j] < Cardinality(ListedItems)
      /\ \A j, k \in ListedItems : f[j] = f[k] => j = k
  BY <1>1, <1>3, PlacesAfterMove, SMTT(60)
<1>9. \A j \in ListedItems : items'[j].position = f[j] /\ f[j] < Cardinality(ListedItems)
  BY <1>5, <1>7, <1>8
<1>. QED  BY <1>6, <1>8, <1>9, NumberedAnew, SMTT(60)

(* remove and clear_settled.                                                  *)
LEMMA TakenOffDense ==
    ASSUME TypeOK, ClearSettled \/ \E i \in Item : Remove(i)
    PROVE  DensePositions'
<1>1. CASE ClearSettled
  <2>1. PICK gone \in SUBSET Item : gone = {i \in Item : items[i].state \in Settled}
    OBVIOUS
  <2>2. PICK p \in Orders(ListedItems \ gone) : items' = [i \in Item |-> IF i \in gone THEN GoneRow ELSE Renumbered(items, p)[i]]
    BY <1>1, <2>1, ZenonT(60) DEF ClearSettled
  <2>3. \A i \in Item : items'[i] = IF i \in gone THEN GoneRow ELSE Renumbered(items, p)[i]
    BY <2>2
  <2>. QED  BY <2>3, RenumberDense
<1>2. ASSUME NEW i \in Item, Remove(i) PROVE DensePositions'
  <2>1. PICK p \in Orders(ListedItems \ {i}) : items' = [Renumbered(items, p) EXCEPT ![i] = GoneRow]
    BY <1>2 DEF Remove
  <2>2. DOMAIN Renumbered(items, p) = Item
    BY DEF Renumbered
  <2>3. \A j \in Item : items'[j] = IF j \in {i} THEN GoneRow ELSE Renumbered(items, p)[j]
    BY <2>1, <2>2
  <2>4. {i} \in SUBSET Item
    OBVIOUS
  <2>. QED  BY <2>3, <2>4, RenumberDense
<1>. QED  BY <1>1, <1>2

(* mark_item writes a state and no place.                                     *)
LEMMA MarkKeepsPlaces ==
    ASSUME TypeOK, NEW i \in Item, NEW s \in Listed, MarkItem(i, s)
    PROVE  PlacesKept
<1>1. CASE items' = items
  BY <1>1 DEF PlacesKept
<1>2. CASE items[i].state \in Listed /\ items' = Moved(i, s)
  <2>1. items[i] \in ItemRow /\ DOMAIN items = Item
    BY DEF TypeOK
  <2>2. items'[i].state = s /\ items'[i].position = items[i].position /\ \A j \in Item \ {i} : items'[j] = items[j]
    BY <1>2, <2>1 DEF Moved, ItemRow
  <2>. QED  BY <1>2, <2>2 DEF PlacesKept
<1>. QED  BY <1>1, <1>2 DEF MarkItem

(* What puts rows back to waiting writes no place either.                     *)
LEMMA PutBackKeepsPlaces ==
    ASSUME TypeOK, NEW S \in SUBSET {i \in Item : items[i].state \in Listed},
           items' = [i \in Item |-> IF i \in S THEN Moved(i, "Queued")[i] ELSE items[i]]
    PROVE  PlacesKept
<1>. SUFFICES ASSUME NEW i \in Item
              PROVE  /\ items'[i].position = items[i].position
                     /\ items'[i].state \in Listed <=> items[i].state \in Listed
  BY DEF PlacesKept
<1>1. items[i] \in ItemRow /\ DOMAIN items = Item
  BY DEF TypeOK
<1>2. Moved(i, "Queued")[i].state = "Queued" /\ Moved(i, "Queued")[i].position = items[i].position
  BY <1>1 DEF Moved, ItemRow
<1>3. "Queued" \in Listed
  BY States
<1>4. items'[i] = IF i \in S THEN Moved(i, "Queued")[i] ELSE items[i]
  OBVIOUS
<1>5. i \in S => items[i].state \in Listed
  OBVIOUS
<1>. QED  BY <1>2, <1>3, <1>4, <1>5

(* A handler of the worker never changes the list's places.                   *)
LEMMA HandlersKeepPlaces ==
    ASSUME TypeOK, HandHasItem, InHandler
    PROVE  PlacesKept
<1>0. UNCHANGED items => PlacesKept
  BY DEF PlacesKept
<1>1. CASE Recover \/ Stop \/ StopBlocked
  <2>1. PICK S \in SUBSET {i \in Item : items[i].state \in Listed} :
           items' = [i \in Item |-> IF i \in S THEN Moved(i, "Queued")[i] ELSE items[i]]
    <3>1. CASE RunningToQueued
      <4>1. PICK S : S = {i \in Item : items[i].state = "Running"}
        OBVIOUS
      <4>2. S \in SUBSET {i \in Item : items[i].state \in Listed}
        BY <4>1, States
      <4>3. items' = [i \in Item |-> IF i \in S THEN Moved(i, "Queued")[i] ELSE items[i]]
        BY <3>1, <4>1 DEF RunningToQueued
      <4>. QED  BY <4>2, <4>3
    <3>2. CASE StopBlockedQueue(hand.items)
      <4>1. PICK S : S = {i \in Item : i \in hand.items /\ items[i].state \in Listed}
        OBVIOUS
      <4>2. S \in SUBSET {i \in Item : items[i].state \in Listed}
        BY <4>1
      <4>3. items' = [i \in Item |-> IF i \in S THEN Moved(i, "Queued")[i] ELSE items[i]]
        BY <3>2, <4>1 DEF StopBlockedQueue
      <4>. QED  BY <4>2, <4>3
    <3>. QED  BY <1>1, <3>1, <3>2 DEF Recover, RecoverAfterRestart, Stop, StopQueue, StopBlocked
  <2>. QED  BY <2>1, PutBackKeepsPlaces
<1>2. CASE Launch \/ Open \/ Started \/ MarkAndGoOn
  <2>1. {"Queued", "Running", "Finished", "Skipped", "Failed"} \subseteq Listed
    BY States
  <2>2. pc \in {"launch", "open", "started", "mark"} => hand.item \in Item
    BY DEF HandHasItem
  <2>3. pc = "mark" => hand.state \in Listed
    BY DEF HandHasItem, TypeOK, Hand
  <2>. QED  BY <1>0, <1>2, <2>1, <2>2, <2>3, MarkKeepsPlaces, ZenonT(60) DEF Launch, Open, Started, MarkAndGoOn
<1>3. CASE NotePermissionWait
  <2>1. PICK a \in active : items' = IF items[a.item].state \in Listed
                                     THEN [items EXCEPT ![a.item].state = "Running",
                                                        ![a.item].asks = term[a.terminal].asks]
                                     ELSE items
    BY <1>3 DEF NotePermissionWait
  <2>2. a.item \in Item /\ items[a.item] \in ItemRow /\ DOMAIN items = Item /\ "Running" \in Listed
    BY States DEF TypeOK, Active
  <2>3. CASE items[a.item].state \in Listed
    <3>1. PICK asks : asks = term[a.terminal].asks
      OBVIOUS
    <3>2. items' = [items EXCEPT ![a.item].state = "Running", ![a.item].asks = asks]
      BY <2>1, <2>3, <3>1
    <3>3. /\ items'[a.item].state = "Running" /\ items'[a.item].position = items[a.item].position
          /\ \A j \in Item \ {a.item} : items'[j] = items[j]
      BY <2>2, <3>2 DEF ItemRow
    <3>. QED  BY <2>2, <2>3, <3>3 DEF PlacesKept
  <2>. QED  BY <1>0, <2>1, <2>3
<1>. QED
  BY <1>0, <1>1, <1>2, <1>3
    , ZenonT(60) DEF InHandler, Resume, ResumeQueue, TickAdvances, TickSession, Advance, Finish, FinishQueue, Hold, HoldQueue, Renew, store

(* enqueue, remove, move_to and clear_settled keep the list dense, and nobody *)
(* else touches a place: as long as no task is deleted, whose items go        *)
(* without the others being numbered again.                                   *)
THEOREM ListIsDense == NoTaskDeleted => []DensePositions
<1>1. Init => DensePositions
  <2>. SUFFICES ASSUME Init PROVE DensePositions
    OBVIOUS
  <2>1. \A i \in Item : items[i].state = "New"
    BY DEF Init, NoRow
  <2>2. "New" \notin Listed
    BY DEF Listed, Settled
  <2>. QED  BY <2>1, <2>2 DEF DensePositions, ListedItems
<1>2. TypeOK /\ HandHasItem /\ DensePositions /\ [Next /\ UNCHANGED tasks]_vars => DensePositions'
  <2>. SUFFICES ASSUME TypeOK, HandHasItem, DensePositions, [Next /\ UNCHANGED tasks]_vars PROVE DensePositions'
    OBVIOUS
  <2>1. CASE UNCHANGED items
    <3>1. PlacesKept
      BY <2>1 DEF PlacesKept
    <3>. QED  BY <3>1, PlacesStay
  <2>2. CASE Console /\ UNCHANGED tasks
    <3>1. ~ \E t \in Task : DeleteTask(t)
      BY <2>2 DEF DeleteTask
    <3>2. \A at \in 0 .. Cardinality(Item) : at \in Nat
      BY SMTT(60)
    <3>. QED
      BY <2>1, <2>2, <3>1, <3>2, EnqueueDense, MoveToDense, TakenOffDense
        , ZenonT(60) DEF Console, Add, AddAndArm, Start, UpdateSettings
  <2>3. CASE InHandler
    BY <2>3, HandlersKeepPlaces, PlacesStay
  <2>4. CASE People \/ Sessions \/ TimePasses
    BY <2>1, <2>4
      , ZenonT(60) DEF People, Sessions, TimePasses, TimeComes, Accept, UserOpens, SendBack, TickDone, TerminalEnds,
           PermissionPrompt, StartStep, Claim, StepSettled, store
  <2>5. CASE HandleTick \/ HandlePending \/ Signals \/ HandlerFails \/ Crash
    BY <2>1, <2>5
       DEF HandleTick, HandlePending, HandleSettleOrPause, HandleRenew, HandleStale, Signals, HandleReview,
           HandleSessionEnded, HandleStop, HandlerFails, Crash, store
  <2>. QED  BY <2>1, <2>2, <2>3, <2>4, <2>5, ZenonT(60) DEF Next, vars, store
<1>3. [Next /\ UNCHANGED tasks]_vars => [Next]_vars
  OBVIOUS
<1>. QED  BY <1>1, <1>2, <1>3, TypeInit, TypeStep, PTL, ZenonT(60) DEF NoTaskDeleted

-----------------------------------------------------------------------------
(* The sessions of running steps, as long as the queue alone opens sessions *)

(* No session but those the queue opened is live; a person may take one over *)
OwnSessions == \A x \in Terminal : term[x].state = "Live" => term[x].own

(* The queue alone opens sessions, and the application does not crash *)
QueueAlone == Init /\ [][Next /\ UNCHANGED crashes /\ OwnSessions']_vars

(* Every live session is in hand, so is that of every running step, and renew *)
(* opens the next session after the last one closed.                          *)
SessionsHeld ==
    /\ \A x \in Terminal :
          term[x].state = "Live" => \E a \in active : a.terminal = x /\ a.task = term[x].task
    /\ \A t \in tasks : work[t].running => \E a \in active : a.task = t
    /\ pc = "renew" =>
          \A a \in active : a.generation = hand.generation => term[a.terminal].state # "Live"

(* No session began or changed its task *)
NoneOpened ==
    \A x \in Terminal : term'[x].state = "Live" => term[x].state = "Live" /\ term'[x].task = term[x].task

(* No step runs that did not, but on a task with a live session *)
StartsInSession ==
    \A t \in tasks' : t \in tasks /\ (work'[t].running => work[t].running \/ LiveOn(t) # {})

(* What a step leaves in hand: as many as had a live terminal or a running    *)
(* step, when it opens no session and starts no step elsewhere.               *)
LEMMA HeldOn ==
    ASSUME SessionsHeld, NoneOpened, StartsInSession,
           \A a \in active : term'[a.terminal].state = "Live" =>
                                \E b \in active' : b.terminal = a.terminal /\ b.task = a.task,
           \A a \in active : a.task \in tasks' /\ work'[a.task].running =>
                                \E b \in active' : b.task = a.task,
           pc' = "renew" =>
               \A a \in active' : a.generation = hand'.generation => term'[a.terminal].state # "Live"
    PROVE  SessionsHeld'
<1>1. \A x \in Terminal :
         term'[x].state = "Live" => \E b \in active' : b.terminal = x /\ b.task = term'[x].task
  <2>. SUFFICES ASSUME NEW x \in Terminal, term'[x].state = "Live"
                PROVE  \E b \in active' : b.terminal = x /\ b.task = term'[x].task
    OBVIOUS
  <2>1. PICK a \in active : a.terminal = x /\ a.task = term[x].task /\ term'[x].task = term[x].task
    BY DEF SessionsHeld, NoneOpened
  <2>2. term'[a.terminal].state = "Live"
    BY <2>1
  <2>3. PICK b \in active' : b.terminal = a.terminal /\ b.task = a.task
    BY <2>2
  <2>. QED  BY <2>1, <2>3
<1>2. \A t \in tasks' : work'[t].running => \E b \in active' : b.task = t
  <2>. SUFFICES ASSUME NEW t \in tasks', work'[t].running
                PROVE  \E b \in active' : b.task = t
    OBVIOUS
  <2>1. t \in tasks /\ (work[t].running \/ \E x \in Terminal : term[x].state = "Live" /\ term[x].task = t)
    BY DEF StartsInSession, LiveOn
  <2>2. CASE work[t].running
    <3>1. PICK a \in active : a.task = t
      BY <2>1, <2>2 DEF SessionsHeld
    <3>2. a.task \in tasks' /\ work'[a.task].running
      BY <3>1
    <3>. QED  BY <3>1, <3>2
  <2>3. CASE \E x \in Terminal : term[x].state = "Live" /\ term[x].task = t
    <3>1. PICK x \in Terminal : term[x].state = "Live" /\ term[x].task = t
      BY <2>3
    <3>2. PICK a \in active : a.terminal = x /\ a.task = term[x].task
      BY <3>1 DEF SessionsHeld
    <3>3. a.task = t /\ a.task \in tasks' /\ work'[a.task].running
      BY <3>1, <3>2
    <3>. QED  BY <3>3
  <2>. QED  BY <2>1, <2>2, <2>3
<1>. QED  BY <1>1, <1>2 DEF SessionsHeld

(* ... and in particular when the worker's memory stays as it is. *)
LEMMA HeldBeside ==
    ASSUME TypeOK, SessionsHeld, NoneOpened, StartsInSession, active' = active,
           pc' = "renew" => pc = "renew" /\ hand' = hand
    PROVE  SessionsHeld'
<1>1. \A a \in active : a.terminal \in Terminal
  BY DEF TypeOK, Active
<1>2. pc' = "renew" =>
         \A a \in active' : a.generation = hand'.generation => term'[a.terminal].state # "Live"
  BY <1>1 DEF SessionsHeld, NoneOpened
<1>. QED  BY <1>2, HeldOn

(* close leaves every other session as it is, and the closed one not live. *)
LEMMA ClosedEnds ==
    ASSUME TypeOK, NEW y \in Terminal, term' = Closed(y)
    PROVE  NoneOpened /\ term'[y].state = "Gone" /\ \A x \in Terminal \ {y} : term'[x] = term[x]
<1>1. [NoSession EXCEPT !.state = "Gone"].state = "Gone"
  BY DEF NoSession
<1>2. term'[y].state = "Gone" /\ \A x \in Terminal \ {y} : term'[x] = term[x]
  BY <1>1 DEF Closed, TypeOK
<1>3. "Gone" # "Live"
  OBVIOUS
<1>. QED  BY <1>2, <1>3 DEF NoneOpened

(* Releasing the steps of a task starts none, and leaves none of its running. *)
LEMMA ReleasedStops ==
    ASSUME TypeOK, NEW u \in Task, work' = Released(u), tasks' = tasks
    PROVE  StartsInSession /\ (u \in tasks => ~work'[u].running)
<1>1. CASE u \in tasks
  <2>1. work' = [work EXCEPT ![u].running = FALSE]
    BY <1>1 DEF Released
  <2>2. ~work'[u].running /\ \A t \in Task \ {u} : work'[t] = work[t]
    BY <2>1 DEF TypeOK, Work
  <2>. QED  BY <2>2 DEF StartsInSession, TypeOK
<1>2. CASE u \notin tasks
  BY <1>2 DEF Released, StartsInSession
<1>. QED  BY <1>1, <1>2

(* A session whose terminal is not live after the step is forgotten, and the  *)
(* steps of its task are put back: what is left in hand holds the rest.       *)
LEMMA HeldWithout ==
    ASSUME TypeOK, SessionsHeld, NEW a \in active, active' = Forgotten(a), NoneOpened,
           work' = Released(a.task), tasks' = tasks, term'[a.terminal].state # "Live", pc' # "renew"
    PROVE  SessionsHeld'
<1>1. a.task \in Task
  BY DEF TypeOK, Active
<1>2. StartsInSession /\ (a.task \in tasks => ~work'[a.task].running)
  BY <1>1, ReleasedStops
<1>3. \A c \in active : c # a => c \in active'
  BY DEF Forgotten
<1>. QED  BY <1>2, <1>3, HeldOn

(* A session in hand is replaced by what it becomes, on the same terminal and *)
(* task, while sessions only end.                                             *)
LEMMA HeldInPlace ==
    ASSUME TypeOK, SessionsHeld, NEW a \in active, NEW b, b.terminal = a.terminal, b.task = a.task,
           active' = (active \ {a}) \cup {b}, NoneOpened, work' = work, tasks' = tasks,
           pc' = "renew" =>
               \A c \in active' : c.generation = hand'.generation => term'[c.terminal].state # "Live"
    PROVE  SessionsHeld'
<1>1. b \in active' /\ \A c \in active : c # a => c \in active'
  OBVIOUS
<1>2. StartsInSession
  BY DEF StartsInSession
<1>. QED  BY <1>1, <1>2, HeldOn

(* open on a task with no live session leaves the others as they are. *)
LEMMA FreshSession ==
    ASSUME TypeOK, NEW t \in Task, NEW own \in BOOLEAN, NEW step \in BOOLEAN, OpenFresh(t, own, step)
    PROVE  /\ NewTerminal \in Terminal
           /\ term'[NewTerminal].state = "Live" /\ term'[NewTerminal].task = t
           /\ term'[NewTerminal].own = own
           /\ \A x \in Terminal \ {NewTerminal} : term'[x] = term[x]
<1>1. NewTerminal \in Terminal /\ DOMAIN term = Terminal
  BY OpenFreshType DEF TypeOK
<1>2. PICK x : x = NewTerminal
  OBVIOUS
<1>3. term' = [term EXCEPT ![x] = [state |-> "Live", task |-> t, worked |-> FALSE, asks |-> FALSE,
                                   own |-> own, step |-> step]]
  BY <1>2 DEF OpenFresh
<1>. QED  BY <1>1, <1>2, <1>3

(* A fresh session comes into hand with its opening. *)
LEMMA HeldWithFresh ==
    ASSUME TypeOK, SessionsHeld, NEW t \in Task, OpenFresh(t, TRUE, FALSE),
           NEW b \in active', b.terminal = NewTerminal, b.task = t,
           \A a \in active : /\ term[a.terminal].state = "Live" => a \in active'
                             /\ \E c \in active' : c.task = a.task,
           work' = work, tasks' = tasks, pc' # "renew"
    PROVE  SessionsHeld'
<1>0. "Live" # "New" /\ TRUE \in BOOLEAN /\ FALSE \in BOOLEAN
  OBVIOUS
<1>1. /\ term'[NewTerminal].task = t
      /\ \A x \in Terminal \ {NewTerminal} : term'[x] = term[x]
  BY <1>0, FreshSession
<1>2. \A x \in Terminal :
         term'[x].state = "Live" => \E c \in active' : c.terminal = x /\ c.task = term'[x].task
  <2>. SUFFICES ASSUME NEW x \in Terminal, term'[x].state = "Live"
                PROVE  \E c \in active' : c.terminal = x /\ c.task = term'[x].task
    OBVIOUS
  <2>1. CASE x = NewTerminal
    BY <1>1, <2>1
  <2>2. CASE x # NewTerminal
    <3>1. term'[x] = term[x]
      BY <1>1, <2>2
    <3>2. PICK a \in active : a.terminal = x /\ a.task = term[x].task
      BY <3>1 DEF SessionsHeld
    <3>3. term[a.terminal].state = "Live"
      BY <3>1, <3>2
    <3>. QED  BY <3>1, <3>2, <3>3
  <2>. QED  BY <2>1, <2>2
<1>3. \A u \in tasks' : work'[u].running => \E c \in active' : c.task = u
  <2>. SUFFICES ASSUME NEW u \in tasks, work[u].running PROVE \E c \in active' : c.task = u
    OBVIOUS
  <2>1. PICK a \in active : a.task = u
    BY DEF SessionsHeld
  <2>. QED  BY <2>1
<1>. QED  BY <1>2, <1>3 DEF SessionsHeld

(* WorkMarker runs a step only if it is to be marked. *)
LEMMA MarkedStarts ==
    ASSUME TypeOK, NEW u \in Task, NEW released, NEW marked, StepMarked(u, released, marked), tasks' = tasks,
           marked => LiveOn(u) # {}
    PROVE  StartsInSession
<1>1. PICK running \in BOOLEAN : /\ running => work[u].running \/ marked
                                 /\ work' = [work EXCEPT ![u].running = running]
  BY DEF StepMarked
<1>2. work'[u].running = running /\ \A t \in Task \ {u} : work'[t] = work[t]
  BY <1>1 DEF TypeOK, Work
<1>. QED  BY <1>1, <1>2, ZenonT(60) DEF StartsInSession, TypeOK

(* Settling a step starts none, and leaves sessions on their tasks. *)
LEMMA SettledStarts ==
    ASSUME TypeOK, NEW u \in Task, NEW done, NEW accepted, NEW opens, StepSettled(u, done, accepted, opens)
    PROVE  NoneOpened /\ StartsInSession
<1>1. PICK running \in BOOLEAN : /\ running => work[u].running
                                 /\ work' = [work EXCEPT ![u] = [settled |-> done, running |-> running,
                                                    accepted |-> accepted, opens |-> opens]]
  BY DEF StepSettled
<1>2. work'[u].running = running /\ \A t \in Task \ {u} : work'[t] = work[t]
  BY <1>1 DEF TypeOK
<1>3. StartsInSession
  BY <1>1, <1>2, ZenonT(60) DEF StartsInSession, StepSettled, TypeOK
<1>4. NoneOpened
  BY SMTT(60) DEF StepSettled, NoneOpened, TypeOK, Session
<1>. QED  BY <1>3, <1>4

(* People and sessions start steps only where a session is live, and a session *)
(* that is opened meanwhile would not be the queue's own.                      *)
LEMMA SurroundingsHeld ==
    ASSUME TypeOK, SessionsHeld, OwnSessions', Console \/ People \/ Sessions \/ TimePasses
    PROVE  SessionsHeld'
<1>0. active' = active /\ pc' = pc /\ hand' = hand
  BY OutsideFrame
<1>. SUFFICES NoneOpened /\ StartsInSession
  BY <1>0, HeldBeside
<1>1. CASE UNCHANGED <<term, work, tasks>>
  BY <1>1 DEF NoneOpened, StartsInSession
<1>2. CASE Console \/ TimePasses
  <2>1. UNCHANGED term
    BY <1>2 DEF Console, TimePasses, OutsideWorker
  <2>2. CASE \E t \in Task : DeleteTask(t)
    <3>1. PICK t \in Task : DeleteTask(t)
      BY <2>2
    <3>2. tasks' \subseteq tasks /\ \A u \in tasks' : work'[u] = work[u]
      BY <3>1 DEF DeleteTask, TypeOK
    <3>. QED  BY <2>1, <3>2 DEF NoneOpened, StartsInSession
  <2>3. (\E t \in Task : DeleteTask(t)) \/ UNCHANGED <<work, tasks>>
    BY <1>2 DEF Console, TimePasses, TimeComes, Add, AddAndArm, Remove, MoveTo, ClearSettled, Start,
                       UpdateSettings
  <2>. QED  BY <1>1, <2>1, <2>2, <2>3, ZenonT(60)
<1>3. ASSUME NEW t \in Task, NEW step \in BOOLEAN, UserOpens(t, step)
      PROVE  NoneOpened /\ StartsInSession
  <2>0. tasks' = tasks /\ FALSE # TRUE /\ FALSE \in BOOLEAN
    BY <1>3 DEF UserOpens
  <2>1. ~ OpenFresh(t, FALSE, step)
    <3>. SUFFICES ASSUME OpenFresh(t, FALSE, step) PROVE FALSE
      OBVIOUS
    <3>1. /\ NewTerminal \in Terminal /\ term'[NewTerminal].state = "Live"
          /\ term'[NewTerminal].own = FALSE
      BY <2>0, FreshSession
    <3>2. term'[NewTerminal].own
      BY <3>1 DEF OwnSessions
    <3>. QED  BY <3>1, <3>2
  <2>2. PICK x \in LiveOn(t) : term' = [term EXCEPT ![x].step = TRUE] /\ StepMarked(t, term[x].step, TRUE)
    BY <1>3, <2>1 DEF UserOpens
  <2>3. x \in Terminal /\ LiveOn(t) # {}
    BY <2>2 DEF LiveOn
  <2>4. NoneOpened
    BY <2>2, <2>3, ZenonT(60) DEF NoneOpened, TypeOK, Session
  <2>5. StartsInSession
    BY <2>0, <2>2, <2>3, MarkedStarts
  <2>. QED  BY <2>4, <2>5
<1>4. ASSUME NEW t \in Task, NEW latest \in BOOLEAN, NEW opens \in BOOLEAN, SendBack(t, latest, opens)
      PROVE  NoneOpened /\ StartsInSession
  <2>1. NoneOpened
    BY <1>4 DEF SendBack, NoneOpened, TypeOK, Session
  <2>2. tasks' = tasks /\ \A u \in Task : work'[u].running = work[u].running
    BY <1>4 DEF SendBack, TypeOK, Work
  <2>. QED  BY <2>1, <2>2, ZenonT(60) DEF StartsInSession, TypeOK
<1>5. ASSUME NEW t \in Task, Accept(t)
      PROVE  NoneOpened /\ StartsInSession
  <2>1. UNCHANGED <<term, tasks>> /\ \A u \in Task : work'[u].running = work[u].running
    BY <1>5 DEF Accept, TypeOK, Work
  <2>. QED  BY <2>1 DEF NoneOpened, StartsInSession, TypeOK
<1>6. CASE People
  BY <1>3, <1>4, <1>5, <1>6, SettledStarts, ZenonT(60) DEF People, TickDone
<1>7. ASSUME NEW x \in Terminal, TerminalEnds(x) \/ PermissionPrompt(x) \/ StartStep(x)
      PROVE  NoneOpened /\ StartsInSession
  <2>0. tasks' = tasks /\ term[x].task \in Task
    BY <1>7 DEF TerminalEnds, PermissionPrompt, StartStep, TypeOK, Session
  <2>1. CASE TerminalEnds(x)
    BY <2>0, <2>1, ClosedEnds, MarkedStarts, ZenonT(60) DEF TerminalEnds
  <2>2. CASE PermissionPrompt(x)
    <3>1. NoneOpened
      BY <2>2 DEF PermissionPrompt, NoneOpened, TypeOK, Session
    <3>. QED  BY <2>2, <3>1 DEF PermissionPrompt, StartsInSession
  <2>3. CASE StartStep(x)
    <3>1. NoneOpened
      BY <2>3 DEF StartStep, NoneOpened
    <3>2. LiveOn(term[x].task) # {}
      BY <2>3 DEF StartStep, LiveOn
    <3>3. \A u \in Task \ {term[x].task} : work'[u] = work[u]
      BY <2>0, <2>3, ZenonT(60) DEF StartStep, TypeOK
    <3>. QED  BY <2>0, <3>1, <3>2, <3>3, ZenonT(60) DEF StartsInSession, TypeOK
  <2>. QED  BY <1>7, <2>1, <2>2, <2>3, ZenonT(60)
<1>8. CASE Sessions
  <2>1. \A x \in Terminal : term[x].task \in Task
    BY DEF TypeOK, Session
  <2>. QED  BY <1>7, <1>8, <2>1, SettledStarts, ZenonT(60) DEF Sessions, Claim
<1>. QED  BY <1>2, <1>6, <1>8

(* review goes on with the session on its terminal, or closes it with the    *)
(* task gone.                                                                 *)
LEMMA ReviewHeld ==
    ASSUME TypeOK, SessionsHeld, NEW a \in active, NEW next, next => pc' # "renew",
           ReviewSession(a, next), tasks' = tasks
    PROVE  SessionsHeld'
<1>0. a \in Active /\ a.terminal \in Terminal /\ "Gone" # "Live" /\ "advance" # "renew"
  BY DEF TypeOK, Active
<1>1. CASE a.task \in tasks
  <2>1. ReviewOpenTask(a) /\ next /\ UNCHANGED <<term, work>>
    BY <1>1 DEF ReviewSession
  <2>2. NoneOpened
    BY <2>1 DEF NoneOpened
  <2>3. PICK seen : /\ seen = [a EXCEPT !.settled = IF work[a.task].settled > a.settled
                                                     THEN work[a.task].settled ELSE @]
                    /\ \/ active' = (active \ {a}) \cup {[a EXCEPT !.closing = TRUE]}
                       \/ active' = (active \ {a}) \cup {[seen EXCEPT !.closing = TRUE]}
                       \/ active' = (active \ {a}) \cup {seen}
    BY <2>1 DEF ReviewOpenTask, CloseLater
  <2>4. /\ [a EXCEPT !.closing = TRUE].terminal = a.terminal /\ [a EXCEPT !.closing = TRUE].task = a.task
        /\ seen.terminal = a.terminal /\ seen.task = a.task
        /\ [seen EXCEPT !.closing = TRUE].terminal = a.terminal
        /\ [seen EXCEPT !.closing = TRUE].task = a.task
    BY <1>0, <2>3 DEF Active
  <2>. QED  BY <2>1, <2>2, <2>3, <2>4, HeldInPlace, ZenonT(60)
<1>2. CASE a.task \notin tasks
  <2>1. active' = Forgotten(a) /\ CloseSession(a) /\ pc' = "advance"
    BY <1>2 DEF ReviewSession, Goto
  <2>2. NoneOpened /\ term'[a.terminal].state = "Gone"
    BY <1>0, <2>1, ClosedEnds DEF CloseSession
  <2>. QED  BY <1>0, <2>1, <2>2, HeldWithout, ZenonT(60) DEF CloseSession
<1>. QED  BY <1>1, <1>2

(* A session whose terminal went is forgotten, and its steps put back. *)
LEMMA GoneHeld ==
    ASSUME TypeOK, SessionsHeld, NEW a \in active, term[a.terminal].state # "Live", SessionGone(a),
           tasks' = tasks
    PROVE  SessionsHeld'
<1>1. /\ active' = Forgotten(a) /\ work' = Released(a.task) /\ pc' = "mark" /\ term' = term
      /\ "mark" # "renew"
  BY DEF SessionGone, Mark, GotoWith
<1>2. NoneOpened
  BY <1>1 DEF NoneOpened
<1>. QED  BY <1>1, <1>2, HeldWithout

(* The signals, the tick and the promised commands keep the sessions held:    *)
(* what they forget is closed first or already gone.                          *)
LEMMA CommandsHeld ==
    ASSUME TypeOK, WorkerInv, SessionsHeld, Signals \/ HandleTick \/ HandlePending
    PROVE  SessionsHeld'
<1>0. tasks' = tasks /\ "Gone" # "Live" /\ {"tick", "idle", "mark", "stop", "resume"} \cap {"renew"} = {}
  BY DEF Signals, HandleTick, HandlePending, HandleReview, HandleSessionEnded, HandleStop,
         HandleSettleOrPause, HandleRenew, HandleStale
<1>1. ASSUME NEW t \in Task, HandleReview(t) PROVE SessionsHeld'
  <2>1. PICK a \in OnTask(t) : ReviewSession(a, Return)
    BY <1>1 DEF HandleReview
  <2>2. a \in active
    BY <2>1 DEF OnTask
  <2>3. Return => pc' # "renew"
    BY DEF Return, Goto
  <2>. QED  BY <1>0, <2>1, <2>2, <2>3, ReviewHeld, ZenonT(60)
<1>2. ASSUME NEW x \in Terminal, HandleSessionEnded(x) PROVE SessionsHeld'
  <2>1. PICK a \in InHandOn(x) : SessionGone(a) /\ term[x].state = "Gone"
    BY <1>2 DEF HandleSessionEnded
  <2>2. a \in active /\ a.terminal = x
    BY <2>1 DEF InHandOn
  <2>. QED  BY <1>0, <2>1, <2>2, GoneHeld, ZenonT(60)
<1>3. CASE HandleStop
  <2>1. \A a \in active : /\ a.terminal \in Terminal => term'[a.terminal].state = "Gone"
                          /\ a.task \in Task => (a.task \in tasks => ~work'[a.task].running)
    BY <1>3, ZenonT(60) DEF HandleStop, Closed, NoSession, TypeOK, Work
  <2>2. \A a \in active : a.terminal \in Terminal /\ a.task \in Task
    BY DEF TypeOK, Active
  <2>3. NoneOpened
    BY <1>3, ZenonT(60) DEF HandleStop, Closed, NoSession, TypeOK, NoneOpened
  <2>4. \A u \in Task : work'[u].running => work[u].running
    BY <1>3, ZenonT(60) DEF HandleStop, TypeOK, Work
  <2>5. StartsInSession
    BY <1>0, <2>4, ZenonT(60) DEF StartsInSession, TypeOK
  <2>6. pc' # "renew"
    BY <1>3 DEF HandleStop, Goto
  <2>. QED  BY <1>0, <2>1, <2>2, <2>3, <2>5, <2>6, HeldOn, ZenonT(60)
<1>4. CASE HandleTick
  <2>1. UNCHANGED <<active, term, work, tasks>> /\ pc' # "renew"
    BY <1>4 DEF HandleTick, Goto, memory
  <2>2. NoneOpened /\ StartsInSession
    BY <2>1 DEF NoneOpened, StartsInSession
  <2>. QED  BY <2>1, <2>2, HeldBeside
<1>5. ASSUME NEW c \in pending, HandleSettleOrPause(c) PROVE SessionsHeld'
  <2>1. PICK a \in active : active' = Forgotten(a) /\ CloseSession(a)
    BY <1>5 DEF HandleSettleOrPause
  <2>2. pc' = "mark"
    BY <1>5 DEF HandleSettleOrPause, Mark, GotoWith
  <2>3. a.terminal \in Terminal
    BY DEF TypeOK, Active
  <2>4. NoneOpened /\ term'[a.terminal].state = "Gone"
    BY <2>1, <2>3, ClosedEnds, ZenonT(60) DEF CloseSession
  <2>5. pc' # "renew"
    BY <2>2
  <2>. QED  BY <1>0, <2>1, <2>4, <2>5, HeldWithout, ZenonT(60) DEF CloseSession
<1>6. ASSUME NEW c \in pending, HandleRenew(c) PROVE SessionsHeld'
  <2>1. PICK a \in active : /\ a.generation = c.generation
                            /\ active' = (active \ {a}) \cup {[a EXCEPT !.closing = TRUE]}
                            /\ term' = Closed(a.terminal)
    BY <1>6 DEF HandleRenew
  <2>2. hand'.generation = c.generation
    BY <1>6 DEF HandleRenew, GotoWith, NoHand
  <2>3. PICK b : b = [a EXCEPT !.closing = TRUE]
    OBVIOUS
  <2>4. a.terminal \in Terminal /\ b.terminal = a.terminal /\ b.task = a.task /\ b.generation = a.generation
    BY <2>3 DEF TypeOK, Active
  <2>5. NoneOpened /\ term'[a.terminal].state = "Gone"
    BY <2>1, <2>4, ClosedEnds, ZenonT(60)
  <2>6. \A d \in active' : d.generation = hand'.generation => d = b
    BY <2>1, <2>2, <2>3, ZenonT(60) DEF WorkerInv, Numbered
  <2>7. \A d \in active' : d.generation = hand'.generation => term'[d.terminal].state # "Live"
    BY <1>0, <2>4, <2>5, <2>6, ZenonT(60)
  <2>8. active' = (active \ {a}) \cup {b} /\ work' = work
    BY <1>6, <2>1, <2>3 DEF HandleRenew
  <2>. QED  BY <1>0, <2>4, <2>5, <2>7, <2>8, HeldInPlace, ZenonT(60)
<1>7. ASSUME NEW c \in pending, HandleStale(c) PROVE SessionsHeld'
  <2>1. UNCHANGED <<active, term, work, tasks, pc, hand>>
    BY <1>7 DEF HandleStale, control
  <2>2. NoneOpened /\ StartsInSession
    BY <2>1 DEF NoneOpened, StartsInSession
  <2>. QED  BY <2>1, <2>2, HeldBeside
<1>. QED  BY <1>1, <1>2, <1>3, <1>4, <1>5, <1>6, <1>7, ZenonT(60) DEF Signals, HandlePending

(* open and renew take into hand the session they find or open; renew gives   *)
(* up only a session that is closed.                                          *)
LEMMA OpeningHeld ==
    ASSUME TypeOK, HandHasItem, SessionsHeld, Open \/ Renew
    PROVE  SessionsHeld'
<1>0. tasks' = tasks /\ {"started", "advance", "tick", "idle", "mark"} \cap {"renew"} = {}
  BY DEF Open, Renew
<1>1. ASSUME NEW x, Opened(x), work' = work
      PROVE  /\ pc' # "renew" /\ active \subseteq active'
             /\ \E b \in active' : b.terminal = x /\ b.task = hand.task
  <2>1. PICK b : b = [generation |-> generation + 1, item |-> hand.item, task |-> hand.task, terminal |-> x,
                      settled |-> hand.settled, asks |-> FALSE, closing |-> FALSE]
    OBVIOUS
  <2>2. b.terminal = x /\ b.task = hand.task
    BY <2>1
  <2>3. active' = active \cup {b} /\ pc' = "started"
    BY <1>1, <2>1 DEF Opened, GotoWith
  <2>. QED  BY <2>2, <2>3
<1>2. CASE Open
  <2>0. work' = work /\ hand.task \in Task
    BY <1>2 DEF Open, TypeOK, Hand
  <2>1. CASE UNCHANGED <<term, active>> /\ Goto("advance")
    <3>1. NoneOpened /\ StartsInSession /\ pc' # "renew" /\ active' = active
      BY <1>0, <2>0, <2>1 DEF NoneOpened, StartsInSession, Goto
    <3>. QED  BY <3>1, HeldBeside
  <2>2. CASE \E x : Opened(x) /\ UNCHANGED term
    <3>1. PICK x : Opened(x) /\ UNCHANGED term
      BY <2>2
    <3>2. pc' # "renew" /\ active \subseteq active'
      BY <1>1, <2>0, <3>1
    <3>3. NoneOpened /\ StartsInSession
      BY <1>0, <2>0, <3>1 DEF NoneOpened, StartsInSession
    <3>. QED  BY <3>2, <3>3, HeldOn
  <2>3. CASE OpenFresh(hand.task, TRUE, FALSE) /\ Opened(NewTerminal)
    <3>1. pc' # "renew" /\ active \subseteq active'
      BY <1>1, <2>0, <2>3
    <3>2. PICK b \in active' : b.terminal = NewTerminal /\ b.task = hand.task
      BY <1>1, <2>0, <2>3
    <3>3. \A a \in active : a \in active'
      BY <3>1
    <3>. QED  BY <1>0, <2>0, <2>3, <3>1, <3>2, <3>3, HeldWithFresh, ZenonT(60)
  <2>. QED  BY <1>2, <2>1, <2>2, <2>3, ZenonT(60) DEF Open
<1>3. CASE Renew
  <2>1. PICK a \in active :
           /\ a.generation = hand.generation
           /\ \/ UNCHANGED term /\ \E x \in LiveOn(a.task) : Renewed(a, x)
              \/ OpenFresh(a.task, TRUE, FALSE) /\ Renewed(a, NewTerminal)
              \/ /\ active' = Forgotten(a)
                 /\ work' = Released(a.task)
                 /\ Mark(a.item, "Failed", "advance")
                 /\ UNCHANGED term
    BY <1>3 DEF Renew
  <2>2. a \in Active /\ a.terminal \in Terminal /\ a.task \in Task
    BY DEF TypeOK, Active
  <2>3. term[a.terminal].state # "Live"
    BY <1>3, <2>1 DEF Renew, SessionsHeld
  <2>4. ASSUME NEW x, Renewed(a, x)
        PROVE  /\ pc' # "renew" /\ work' = work
               /\ \A c \in active : c # a => c \in active'
               /\ \E b \in active' : b.terminal = x /\ b.task = a.task
    <3>1. pc' # "renew" /\ work' = work
      BY <2>4 DEF Renewed, Return, Goto
    <3>2. PICK b : b = [a EXCEPT !.terminal = x, !.closing = FALSE]
      OBVIOUS
    <3>3. b.terminal = x /\ b.task = a.task
      BY <2>2, <3>2 DEF Active
    <3>4. active' = (active \ {a}) \cup {b}
      BY <2>4, <3>2 DEF Renewed
    <3>. QED  BY <3>1, <3>3, <3>4
  <2>5. CASE UNCHANGED term /\ \E x \in LiveOn(a.task) : Renewed(a, x)
    <3>1. PICK x \in LiveOn(a.task) : Renewed(a, x)
      BY <2>5
    <3>2. pc' # "renew" /\ work' = work /\ (\A c \in active : c # a => c \in active')
      BY <2>4, <3>1
    <3>3. PICK b \in active' : b.task = a.task
      BY <2>4, <3>1
    <3>4. NoneOpened /\ StartsInSession
      BY <1>0, <2>5, <3>2 DEF NoneOpened, StartsInSession
    <3>5. \A c \in active : term'[c.terminal].state = "Live" => c \in active'
      BY <2>3, <2>5, <3>2
    <3>6. \A c \in active : \E d \in active' : d.task = c.task
      BY <3>2, <3>3
    <3>. QED  BY <3>2, <3>4, <3>5, <3>6, HeldOn, ZenonT(60)
  <2>6. CASE OpenFresh(a.task, TRUE, FALSE) /\ Renewed(a, NewTerminal)
    <3>1. pc' # "renew" /\ work' = work /\ (\A c \in active : c # a => c \in active')
      BY <2>4, <2>6
    <3>2. PICK b \in active' : b.terminal = NewTerminal /\ b.task = a.task
      BY <2>4, <2>6
    <3>3. \A c \in active : /\ term[c.terminal].state = "Live" => c \in active'
                            /\ \E d \in active' : d.task = c.task
      BY <2>3, <3>1, <3>2
    <3>. QED  BY <1>0, <2>2, <2>6, <3>1, <3>2, <3>3, HeldWithFresh, ZenonT(60)
  <2>7. CASE active' = Forgotten(a) /\ work' = Released(a.task) /\ Mark(a.item, "Failed", "advance") /\ UNCHANGED term
    <3>1. pc' # "renew"
      BY <2>7 DEF Mark, GotoWith
    <3>2. NoneOpened
      BY <2>7 DEF NoneOpened
    <3>. QED  BY <1>0, <2>3, <2>7, <3>1, <3>2, HeldWithout, ZenonT(60)
  <2>. QED  BY <2>1, <2>5, <2>6, <2>7, ZenonT(60)
<1>. QED  BY <1>2, <1>3

(* Every point of a handler keeps the sessions held. *)
LEMMA HandlersHeld ==
    ASSUME TypeOK, HandHasItem, SessionsHeld, InHandler
    PROVE  SessionsHeld'
<1>1. CASE Open \/ Renew
  BY <1>1, OpeningHeld
<1>2. CASE NotePermissionWait
  <2>1. PICK a \in active : active' = (active \ {a}) \cup {[a EXCEPT !.asks = term[a.terminal].asks]}
    BY <1>2 DEF NotePermissionWait
  <2>2. UNCHANGED <<term, work, tasks>> /\ pc' # "renew"
    BY <1>2 DEF NotePermissionWait, Return, Goto
  <2>3. PICK b : b = [a EXCEPT !.asks = term[a.terminal].asks]
    OBVIOUS
  <2>4. b.terminal = a.terminal /\ b.task = a.task
    BY <2>3 DEF TypeOK, Active
  <2>5. active' = (active \ {a}) \cup {b} /\ NoneOpened
    BY <2>1, <2>2, <2>3 DEF NoneOpened
  <2>. QED  BY <2>2, <2>4, <2>5, HeldInPlace, ZenonT(60)
<1>3. ASSUME NEW c \in todo, TickSession(c) PROVE SessionsHeld'
  <2>. DEFINE differ == \E a \in active : a.generation = c.generation /\ a.asks # term[a.terminal].asks
              next   == IF differ THEN GotoWith("note", [NoHand EXCEPT !.generation = c.generation])
                                  ELSE Goto("tick")
              open   == {a \in OnTask(c.task) : ~a.closing}
  <2>0. tasks' = tasks
    BY <1>3 DEF TickSession
  <2>1. next => pc' # "renew"
    BY DEF GotoWith, Goto
  <2>2. \/ EndMissed(c) /\ \E a \in InHandOn(c.terminal) : SessionGone(a)
        \/ Goto("tick") /\ UNCHANGED <<active, pending, term, work>>
        \/ \E a \in open : ReviewSession(a, next)
        \/ next /\ UNCHANGED <<active, pending, term, work>>
    BY <1>3 DEF TickSession
  <2>3. CASE EndMissed(c) /\ \E a \in InHandOn(c.terminal) : SessionGone(a)
    <3>1. PICK a \in InHandOn(c.terminal) : SessionGone(a)
      BY <2>3
    <3>2. a \in active /\ a.terminal = c.terminal
      BY <3>1 DEF InHandOn
    <3>. QED  BY <2>0, <2>3, <3>1, <3>2, GoneHeld, ZenonT(60) DEF EndMissed
  <2>4. CASE \E a \in open : ReviewSession(a, next)
    <3>1. PICK a \in open : ReviewSession(a, next)
      BY <2>4
    <3>2. a \in active
      BY <3>1 DEF OnTask
    <3>. HIDE DEF next
    <3>. QED  BY <2>0, <2>1, <3>1, <3>2, ReviewHeld
  <2>5. CASE (Goto("tick") \/ next) /\ UNCHANGED <<active, term, work>>
    <3>1. pc' # "renew"
      BY <2>1, <2>5 DEF Goto
    <3>2. NoneOpened /\ StartsInSession
      BY <2>0, <2>5 DEF NoneOpened, StartsInSession
    <3>. QED  BY <2>5, <3>1, <3>2, HeldBeside, ZenonT(60)
  <2>. HIDE DEF next, open
  <2>. QED  BY <2>2, <2>3, <2>4, <2>5
<1>4. CASE Recover \/ Resume \/ TickAdvances \/ Advance \/ Finish \/ StopBlocked \/ Hold \/ Launch \/ Started
           \/ MarkAndGoOn \/ Stop
  <2>1. UNCHANGED <<active, term, work, tasks>>
    BY <1>4 DEF Recover, Resume, TickAdvances, Advance, Finish, StopBlocked, Hold, Launch, Started,
                       MarkAndGoOn, Stop, memory
  <2>2. pc' # "renew"
    <3>1. CASE Recover \/ Resume \/ TickAdvances \/ Finish \/ StopBlocked \/ Hold \/ Launch \/ Started \/ Stop
      BY <3>1 DEF Recover, Resume, TickAdvances, Finish, StopBlocked, Hold, Launch, Started, Stop, Goto,
                  GotoWith, Return
    <3>2. CASE MarkAndGoOn
      <4>1. hand.after \in {"advance", "hold"}
        BY DEF TypeOK, Hand
      <4>. QED  BY <3>2, <4>1, ZenonT(60) DEF MarkAndGoOn, Goto, Return
    <3>3. CASE Advance
      <4>1. Verdicts \subseteq {"clear", "over"}
        BY DEF Verdicts
      <4>. QED  BY <3>3, <4>1 DEF Advance, Goto, GotoWith, Return
    <3>. QED  BY <1>4, <3>1, <3>2, <3>3, ZenonT(60)
  <2>3. NoneOpened /\ StartsInSession
    BY <2>1 DEF NoneOpened, StartsInSession
  <2>. QED  BY <2>1, <2>2, <2>3, HeldBeside, ZenonT(60)
<1>. QED  BY <1>1, <1>2, <1>3, <1>4, ZenonT(60) DEF InHandler

(* While only the queue opens sessions and the application runs on, a running *)
(* step belongs to a session that is live or that the worker still has in     *)
(* hand: settle, pause, renew, stop, the ends the worker is told of and those *)
(* it finds by itself all put the step back, failed transactions included.    *)
THEOREM StepsAreHeld == QueueAlone => []RunningStepHasSession
<1>1. Init => SessionsHeld
  BY SMTT(60) DEF Init, SessionsHeld, NoSession, NoWork
<1>2. TypeOK /\ HandHasItem /\ WorkerInv /\ SessionsHeld /\ [Next /\ UNCHANGED crashes /\ OwnSessions']_vars
      => SessionsHeld'
  <2>. SUFFICES ASSUME TypeOK, HandHasItem, WorkerInv, SessionsHeld,
                       [Next /\ UNCHANGED crashes /\ OwnSessions']_vars
                PROVE  SessionsHeld'
    OBVIOUS
  <2>1. CASE UNCHANGED vars
    <3>1. UNCHANGED <<active, term, work, tasks, pc, hand>>
      BY <2>1 DEF vars, memory, control
    <3>. QED  BY <3>1 DEF SessionsHeld
  <2>2. CASE OwnSessions' /\ (Console \/ People \/ Sessions \/ TimePasses)
    BY <2>2, SurroundingsHeld
  <2>3. CASE Signals \/ HandleTick \/ HandlePending
    BY <2>3, CommandsHeld, ZenonT(60)
  <2>4. CASE InHandler
    BY <2>4, HandlersHeld
  <2>5. CASE HandlerFails
    <3>1. UNCHANGED <<active, term, work, tasks>> /\ pc' # "renew"
      BY <2>5 DEF HandlerFails, Goto, memory
    <3>2. NoneOpened /\ StartsInSession
      BY <3>1 DEF NoneOpened, StartsInSession
    <3>. QED  BY <3>1, <3>2, HeldBeside, ZenonT(60)
  <2>6. ~(Crash /\ UNCHANGED crashes)
    BY SMTT(60) DEF Crash, TypeOK
  <2>. QED  BY <2>1, <2>2, <2>3, <2>4, <2>5, <2>6 DEF Next
<1>3. [Next /\ UNCHANGED crashes /\ OwnSessions']_vars => [Next]_vars
  OBVIOUS
<1>4. SessionsHeld => RunningStepHasSession
  BY DEF SessionsHeld, RunningStepHasSession
<1>5. QueueAlone => Spec
  BY <1>3, PTL DEF QueueAlone, Spec
<1>. QED  BY <1>1, <1>2, <1>4, <1>5, WorkerInductive, PTL, ZenonT(60) DEF QueueAlone
=============================================================================
