------------------------------ MODULE MCGraphs ------------------------------
(***************************************************************************)
(* Deployment graphs and the papers of a step for TLC: graphs drawn,       *)
(* stored, released and deleted; a graph laid in a task's plan; the        *)
(* deviations and the skills that follow the plan's steps. Each is         *)
(* explored in behaviours of its own, chosen in the initial state.         *)
(***************************************************************************)
EXTENDS DeploymentGraphs, StepPapers, TLC

VARIABLE part

(* DeploymentGraphs *)
S(k, t, c, b) == [key |-> k, title |-> t, conn |-> c, budget |-> b, place |-> "none"]
R(f, o, t) == [from |-> f, outcome |-> o, to |-> t]
MCSent ==
    {[title |-> 11, steps |-> <<S(1, 11, 0, 0)>>, routes |-> {}],
     [title |-> 11, steps |-> <<S(1, 11, 1, 0), S(2, 12, 0, 1)>>, routes |-> {}],
     [title |-> 12, steps |-> <<S(1, 11, 0, 1), S(2, 12, 0, 0)>>, routes |-> {R(1, "done", 2), R(2, "fail", 1), R(2, "done", 0)}],
     [title |-> 12, steps |-> <<S(1, 11, 0, 0), S(2, 12, 0, 0)>>, routes |-> {R(1, "done", 2), R(2, "done", 1)}],
     [title |-> 12, steps |-> <<S(1, 11, 0, 0), S(2, 12, 0, 0)>>, routes |-> {R(1, "done", 0)}],
     [title |-> 12, steps |-> <<S(1, 11, 0, 0)>>, routes |-> {R(1, "done", 1)}],
     [title |-> 12, steps |-> <<S(1, 11, 0, 0)>>, routes |-> {R(1, "done", 3)}],
     [title |-> 12, steps |-> <<S(1, 11, 0, 0), S(1, 12, 0, 0)>>, routes |-> {R(1, "done", 1)}]}

-----------------------------------------------------------------------------
GraphsRest ==
    /\ line = <<>> /\ step = [s \in Step |-> NoStep] /\ link = {} /\ visit = {}
    /\ graph = [g \in Graph |-> NoGraph] /\ bound = <<>> /\ named = <<>> /\ released = [laid |-> FALSE, skipped |-> FALSE]
    /\ writes = 0 /\ laying = [at |-> 0]
PapersRest ==
    deviation = {} /\ taskSkill = {} /\ tagSkill = <<>> /\ group = [n \in Skill |-> 0] /\ replanned = {} /\ papers = 0

Init ==
    /\ part \in {"graphs", "lay", "papers"}
    /\ part = "graphs" => GraphInit
    /\ part = "lay" => LayInit
    /\ part = "papers" => GraphsRest
    /\ PapersRest

Next ==
    /\ part' = part
    /\ \/ part = "graphs" /\ GraphNext /\ UNCHANGED papering
       \/ part = "lay" /\ LayNext /\ UNCHANGED papering
       \/ part = "papers" /\ PapersNext /\ UNCHANGED graphing

Spec == Init /\ [][Next]_<<flows, graphing, papering, part>>

Symmetry == Permutations(Step)
=============================================================================
