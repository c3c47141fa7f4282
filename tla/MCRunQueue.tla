----------------------------- MODULE MCRunQueue -----------------------------
(***************************************************************************)
(* Instances of RunQueueWorker for TLC.  Each specification below keeps    *)
(* the worker whole and lets a part of its surroundings act, so that the   *)
(* interleavings a run is about can be explored exhaustively.              *)
(***************************************************************************)
EXTENDS RunQueueWorker

CONSTANTS t1, t2

Independent       == {}
OneDependsOnOther == {<<t2, t1>>}

Worker == HandleTick \/ HandlePending \/ Signals \/ InHandler \/ HandlerFails \/ Crash

Enqueuing ==
    \/ \E t \in Task : Add(t) /\ OutsideWorker
    \/ \E t \in Task : AddAndArm(t) /\ OutsideWorker
Starting  == Start(FALSE) /\ OutsideWorker
Placing   == \E n \in 1 .. MaxPlaces : UpdateSettings(n, queue.ceiling) /\ OutsideWorker

(* Tasks are queued, moved, removed and cleared while the worker works, and   *)
(* accepted, which lets the ones that wait for them start                     *)
ListNext ==
    \/ Enqueuing \/ Starting \/ Placing
    \/ \E i \in Item : Remove(i) /\ OutsideWorker
    \/ \E i \in Item, at \in 0 .. Cardinality(Item) : MoveTo(i, at) /\ OutsideWorker
    \/ ClearSettled /\ OutsideWorker
    \/ \E x \in Terminal : TerminalEnds(x) \/ \E o \in BOOLEAN : Claim(x, FALSE, o)
    \/ \E t \in Task : Accept(t)
    \/ Worker
ListSpec == Init /\ [][ListNext]_vars

(* Sessions run in parallel under a usage ceiling and a schedule, are renewed *)
(* and paused                                                                 *)
CeilingNext ==
    \/ Enqueuing
    \/ \E later \in BOOLEAN : Start(later) /\ OutsideWorker
    \/ \E n \in 1 .. MaxPlaces, c \in BOOLEAN : UpdateSettings(n, c) /\ OutsideWorker
    \/ TimePasses
    \/ Sessions
    \/ Worker
CeilingSpec == Init /\ [][CeilingNext]_vars
LiveSpec    == CeilingSpec /\ Fairness

(* People open sessions of their own, review, send back and delete tasks *)
ReviewNext ==
    \/ Enqueuing \/ Starting \/ Placing
    \/ \E t \in Task : DeleteTask(t) /\ OutsideWorker
    \/ \E i \in Item : Remove(i) /\ OutsideWorker
    \/ People
    \/ Sessions
    \/ Worker
ReviewSpec == Init /\ [][ReviewNext]_vars
=============================================================================
