---------------------------- MODULE QueuePromise ----------------------------
(***************************************************************************)
(* What the run queue promises of its items, with no worker, session or    *)
(* schedule in sight: a task waits or is worked at most once at a time, an *)
(* item is worked only after it waited, it may wait again, and its outcome *)
(* is final.  RunQueueWorker implements it as long as none of the worker's *)
(* transactions fails.                                                     *)
(***************************************************************************)
CONSTANTS Task, Item

VARIABLES
    life,    \* of each item: new, waiting, worked, settled or gone
    about    \* the task of each item

promise == <<life, about>>

Of(t)    == {i \in Item : about[i] = t}
In(S)    == {i \in Item : life[i] \in S}
Becomes(S, l) == life' = [i \in Item |-> IF i \in S THEN l ELSE life[i]]

Init == life = [i \in Item |-> "new"] /\ about \in [Item -> Task]

(* A task joins the queue when none of its items waits or is worked *)
Enter(i, t) ==
    /\ life[i] = "new"
    /\ Of(t) \cap In({"waiting", "worked"}) = {}
    /\ life' = [life EXCEPT ![i] = "waiting"]
    /\ about' = [about EXCEPT ![i] = t]

Take(i) ==
    /\ life[i] = "waiting"
    /\ life' = [life EXCEPT ![i] = "worked"]
    /\ UNCHANGED about

Settle(i) ==
    /\ life[i] \in {"waiting", "worked"}
    /\ life' = [life EXCEPT ![i] = "settled"]
    /\ UNCHANGED about

GiveBack(S) ==
    /\ S \subseteq In({"worked"})
    /\ Becomes(S, "waiting")
    /\ UNCHANGED about

(* Items go when they are taken off, which one that is worked cannot be, or *)
(* with their task                                                          *)
Leave(S) ==
    /\ S \subseteq In({"waiting", "settled"}) \/ \E t \in Task : S = Of(t) \cap In({"waiting", "worked", "settled"})
    /\ Becomes(S, "gone")
    /\ about' \in [Item -> Task]
    /\ \A i \in Item \ S : about'[i] = about[i]

Next ==
    \/ \E i \in Item : Take(i) \/ Settle(i) \/ \E t \in Task : Enter(i, t)
    \/ \E S \in SUBSET Item : GiveBack(S) \/ Leave(S)

Spec == Init /\ [][Next]_promise
=============================================================================
