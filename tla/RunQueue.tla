------------------------------ MODULE RunQueue ------------------------------
(***************************************************************************)
(* The stored run queue: the queue row, its items, and the operations of   *)
(* RunQueueService on them.  Every operation is one transaction, hence one *)
(* action (or, for those the worker calls, one operator that a step of the *)
(* worker uses whole).  What the queue reads of tasks and their work is    *)
(* here too; the actors that change it are in RunQueueWorker.              *)
(***************************************************************************)
EXTENDS Integers, FiniteSets

CONSTANTS
    Task,        \* the tasks
    Item,        \* identifiers of queue items; each is used once
    DependsOn,   \* pairs <<t, d>>: task t depends on task d
    Steps,       \* how many steps each task's checklist has
    MaxPlaces    \* PARALLEL_SESSIONS_MAX

ASSUME QueueConstants ==
    /\ Task # {}
    /\ IsFiniteSet(Item)
    /\ DependsOn \subseteq Task \X Task
    /\ Steps \in Nat \ {0}
    /\ MaxPlaces \in Nat \ {0}

VARIABLES
    queue,       \* the queue row: state, places, ceiling set or not
    due,         \* the row's start_at or hold_until has come
    items,       \* the item rows, by identifier
    tasks,       \* the tasks that exist
    work         \* what TaskWorkService reads of each task

store == <<queue, due, items>>

-----------------------------------------------------------------------------
(* Rows *)

QueueState == {"Idle", "Scheduled", "Running", "Holding"}
QueueRow   == [state : QueueState, places : 1 .. MaxPlaces, ceiling : BOOLEAN]
Settled    == {"Finished", "Skipped", "Failed"}
Listed     == {"Queued", "Running"} \cup Settled
ItemState  == Listed \cup {"New", "Gone"}
ItemRow    == [state : ItemState, task : Task, position : Nat, asks : BOOLEAN]
Work       == [settled : 0 .. Steps, running : BOOLEAN, accepted : BOOLEAN, opens : BOOLEAN]

NoTask  == CHOOSE t \in Task : TRUE
NoRow   == [state |-> "New", task |-> NoTask, position |-> 0, asks |-> FALSE]
GoneRow == [NoRow EXCEPT !.state = "Gone"]
NoWork  == [settled |-> 0, running |-> FALSE, accepted |-> FALSE, opens |-> FALSE]

InState(s)  == {i \in Item : items[i].state = s}
ListedItems == {i \in Item : items[i].state \in Listed}
Queued      == InState("Queued")

(* TaskWork.has_work *)
HasWork(t) == work[t].settled < Steps

(* TaskWait.is_met for every dependency of t that still exists *)
Unmet(t) == {d \in tasks : <<t, d>> \in DependsOn /\ ~work[d].accepted}

(* The orders list_items_in_order can return for the items S: by position,  *)
(* ties in any order.                                                       *)
Orders(S) ==
    {p \in [S -> 0 .. Cardinality(S) - 1] :
        /\ \A i, j \in S : p[i] = p[j] => i = j
        /\ \A i, j \in S : items[i].position < items[j].position => p[i] < p[j]}

(* renumber: dense positions in the order p *)
Renumbered(rows, p) ==
    [i \in Item |-> IF i \in DOMAIN p THEN [rows[i] EXCEPT !.position = p[i]] ELSE rows[i]]

(* RunQueueItem.move_to; the detail it writes is asks or something else *)
Moved(i, s) == [items EXCEPT ![i].state = s, ![i].asks = FALSE]

(* mark_item: an item deleted in the meantime is ignored *)
MarkItem(i, s) ==
    items' = IF items[i].state \in Listed THEN Moved(i, s) ELSE items

(* RunQueue.move_to clears start_at and hold_until *)
MoveQueue(s) == queue' = [queue EXCEPT !.state = s] /\ due' = FALSE

-----------------------------------------------------------------------------
(* The console: operations of RunQueueService, each one transaction *)

(* enqueue: refused while the task has an unsettled item; the new item's    *)
(* position is the number of items listed.                                  *)
Enqueue(t) ==
    /\ t \in tasks
    /\ \A i \in ListedItems : items[i].task = t => items[i].state \in Settled
    /\ InState("New") # {}
    /\ LET i == CHOOSE n \in Item : items[n].state = "New"
       IN  items' = [items EXCEPT ![i] = [state |-> "Queued", task |-> t, asks |-> FALSE,
                                          position |-> Cardinality(ListedItems)]]

Add(t) == Enqueue(t) /\ UNCHANGED <<queue, due, tasks, work>>

AddAndArm(t) ==
    /\ Enqueue(t)
    /\ IF queue.state = "Idle" THEN MoveQueue("Running") ELSE UNCHANGED <<queue, due>>
    /\ UNCHANGED <<tasks, work>>

(* Mutant: the items behind the removed one keep their positions *)
RemoveLeavesGap(i) ==
    /\ items[i].state \in Listed \ {"Running"}
    /\ items' = [items EXCEPT ![i] = GoneRow]
    /\ UNCHANGED <<queue, due, tasks, work>>

Remove(i) ==
    /\ items[i].state \in Listed \ {"Running"}
    /\ \E p \in Orders(ListedItems \ {i}) :
           items' = [Renumbered(items, p) EXCEPT ![i] = GoneRow]
    /\ UNCHANGED <<queue, due, tasks, work>>

(* The place of item j once i has moved to index at among the waiting items, *)
(* the list having been read in the order p.                                 *)
PlaceAfterMove(p, i, at, j) ==
    LET ahead   == ListedItems \ Queued
        others  == Queued \ {i}
        index   == IF at > Cardinality(others) THEN Cardinality(others) ELSE at
        rank(S) == Cardinality({k \in S : p[k] < p[j]})
    IN  CASE j \in ahead  -> rank(ahead)
          [] j = i        -> Cardinality(ahead) + index
          [] j \in others -> Cardinality(ahead) + rank(others)
                                 + (IF rank(others) >= index THEN 1 ELSE 0)

MoveTo(i, at) ==
    /\ i \in Queued
    /\ \E p \in Orders(ListedItems) :
           items' = Renumbered(items, [j \in ListedItems |-> PlaceAfterMove(p, i, at, j)])
    /\ UNCHANGED <<queue, due, tasks, work>>

ClearSettled ==
    LET gone == {i \in Item : items[i].state \in Settled}
    IN  /\ gone # {}
        /\ \E p \in Orders(ListedItems \ gone) :
               items' = [i \in Item |-> IF i \in gone THEN GoneRow ELSE Renumbered(items, p)[i]]
        /\ UNCHANGED <<queue, due, tasks, work>>

(* start: refused while running or holding, and with nothing waiting *)
Start(later) ==
    /\ queue.state \in {"Idle", "Scheduled"}
    /\ Queued # {}
    /\ MoveQueue(IF later THEN "Scheduled" ELSE "Running")
    /\ UNCHANGED <<items, tasks, work>>

UpdateSettings(places, ceiling) ==
    /\ queue' = [queue EXCEPT !.places = places, !.ceiling = ceiling]
    /\ queue' # queue
    /\ UNCHANGED <<due, items, tasks, work>>

(* TaskService.delete: the steps and item rows go with the task, and nothing *)
(* renumbers the other items.                                                *)
DeleteTask(t) ==
    /\ t \in tasks
    /\ tasks' = tasks \ {t}
    /\ items' = [i \in Item |-> IF items[i].task = t /\ items[i].state \in Listed
                                THEN GoneRow ELSE items[i]]
    /\ work' = [work EXCEPT ![t] = NoWork]
    /\ UNCHANGED <<queue, due>>

-----------------------------------------------------------------------------
(* The operations the worker calls *)

(* next_turn: the first waiting item that is not parked and waits for no task *)
MayStart(i, parked) == i \in Queued \ parked /\ Unmet(items[i].task) = {}

Ready(i, parked) ==
    /\ MayStart(i, parked)
    /\ \A j \in Item : MayStart(j, parked) => items[i].position <= items[j].position

Blocked(parked) == Queued # {} /\ \A i \in Item : ~MayStart(i, parked)

(* resume decides on the state alone *)
ResumeQueue ==
    /\ IF queue.state \in {"Scheduled", "Holding"} THEN MoveQueue("Running")
                                                   ELSE UNCHANGED <<queue, due>>
    /\ UNCHANGED items

(* hold: until a time, or with none until the next tick *)
HoldQueue ==
    /\ IF queue.state # "Idle"
       THEN queue' = [queue EXCEPT !.state = "Holding"] /\ due' \in BOOLEAN
       ELSE UNCHANGED <<queue, due>>
    /\ UNCHANGED items

(* Mutant: finish trusts what the worker saw *)
FinishBlindly ==
    /\ IF queue.state # "Idle" THEN MoveQueue("Idle") ELSE UNCHANGED <<queue, due>>
    /\ UNCHANGED items

(* finish: an item added since the worker looked keeps the queue armed *)
FinishQueue ==
    /\ IF queue.state # "Idle" /\ Queued = {} THEN MoveQueue("Idle") ELSE UNCHANGED <<queue, due>>
    /\ UNCHANGED items

(* stop_blocked: each item that was reported blocked is written back as       *)
(* waiting, whatever it is by now, and the queue is disarmed.                 *)
StopBlockedQueue(blocked) ==
    /\ items' = [i \in Item |-> IF i \in blocked /\ items[i].state \in Listed
                                THEN Moved(i, "Queued")[i] ELSE items[i]]
    /\ MoveQueue("Idle")

(* Mutant: running items stay running *)
RunningStays == items' = items

(* Mutant: every item is put back, settled ones too *)
AllToQueued ==
    items' = [i \in Item |-> IF items[i].state \in Listed THEN Moved(i, "Queued")[i] ELSE items[i]]

(* The items stored as running wait again *)
RunningToQueued ==
    items' = [i \in Item |-> IF items[i].state = "Running" THEN Moved(i, "Queued")[i] ELSE items[i]]

StopQueue == MoveQueue("Idle") /\ RunningToQueued

RecoverAfterRestart == RunningToQueued /\ UNCHANGED <<queue, due>>

(* The moment start_at or hold_until names comes *)
TimeComes ==
    /\ queue.state \in {"Scheduled", "Holding"}
    /\ ~due
    /\ due' = TRUE
    /\ UNCHANGED <<queue, items, tasks, work>>

=============================================================================
