----------------------------- MODULE MCSessions -----------------------------
(***************************************************************************)
(* The session hosts, the output of one terminal and the stream of one chat *)
(* for TLC, each in behaviours of its own, chosen in the initial state.     *)
(***************************************************************************)
EXTENDS SessionHosts, PaneStream, ChatStream, TLC

VARIABLE part

MCReleased == [t \in Task |-> 2]
MCOpening ==
    {<<"terminal", t, s, "work">> : t \in Task, s \in 1 .. 2} \cup {<<"chat", t, 0, "plan">> : t \in Task}
Symmetry == Permutations(Id) \cup Permutations(Caller) \cup Permutations(Pane) \cup Permutations(Request)

(* Ends, sweeps and renewals of sessions opened on one step, and openings   *)
(* that move a terminal from one step to the other                          *)
Calls(field) == {call'[c][field] : c \in {d \in Caller : call'[d].pc # "none"}}

InPart ==
    \/ part = "ends" /\ 2 \notin Calls("step")
    \/ part = "moves" /\ "chat" \notin Calls("kind") /\ since' = {} /\ stopped' = {} /\ sweep' = sweep

Init == part \in {"ends", "moves", "panes", "chat"} /\ HostsInit /\ PanesInit /\ ChatInit

Next ==
    /\ part' = part
    /\ \/ part \in {"ends", "moves"} /\ HostsNext /\ InPart /\ UNCHANGED <<panes, chat>>
       \/ part = "panes" /\ PanesNext /\ UNCHANGED <<hosts, chat>>
       \/ part = "chat" /\ ChatNext /\ UNCHANGED <<hosts, panes>>

Spec == Init /\ [][Next]_<<hosts, panes, chat, part>>
=============================================================================
