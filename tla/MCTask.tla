------------------------------- MODULE MCTask -------------------------------
(***************************************************************************)
(* The task's thread, its wrapup and its time entries for TLC.  They share *)
(* the review line and nothing else, so each acts in behaviours of its     *)
(* own, chosen in the initial state.                                       *)
(***************************************************************************)
EXTENDS TaskThread, Wrapup, TLC

VARIABLE part

Symmetry == Permutations(Session) \cup Permutations(Writer) \cup Permutations(Entry) \cup Permutations(Text)

Claiming == Saves(ClaimedByWrapup) /\ UNCHANGED <<checklist, status, clock, entries>>

Init ==
    /\ part \in {"thread", "wrapup", "time"}
    /\ ThreadInit /\ WrapupInit
    /\ part # "thread" => description = Blank
    /\ part # "wrapup" => ~quick

Next ==
    /\ part' = part
    /\ \/ part = "thread" /\ ThreadNext /\ UNCHANGED <<quick, wrapup, versions, wroteAt, log, call>>
       \/ part = "wrapup" /\ WrapupNext /\ UNCHANGED <<description, thread, wrapped, session>>
       \/ /\ part = "time"
          /\ TimerNext \/ ConsoleNext \/ Claiming
          /\ UNCHANGED <<description, thread, wrapped, session, quick, wrapup, versions, wroteAt, log, call>>

Spec == Init /\ [][Next]_<<threads, wrapups, part>>
=============================================================================
