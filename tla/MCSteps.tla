------------------------------- MODULE MCSteps -------------------------------
(***************************************************************************)
(* A task's steps for TLC, in behaviours of three kinds: the steps as the  *)
(* console and sessions move them, the calls that claim steps, and every   *)
(* plan of up to PlanMax steps, each a state of its own.                   *)
(***************************************************************************)
EXTENDS StepClaim, TLC

VARIABLES
    part,    \* which kind of behaviour this is
    sent     \* the plan under the rules

NoPlan == [steps |-> <<>>, budgets |-> <<>>, routes |-> {}]

(* At most one route by each outcome; n + 1 stands for none *)
Sketches(n) ==
    {[steps   |-> [k \in 1 .. n |-> k],
      budgets |-> [k \in 1 .. n |-> 0],
      routes  |-> {[from |-> x[1], outcome |-> x[2], to |-> f[x]] : x \in {y \in DOMAIN f : f[y] <= n}}] :
        f \in {g \in [(1 .. n) \X {1, 2} -> 0 .. n + 1] : \A x \in DOMAIN g : g[x] # x[1]}}

Symmetry == Permutations(Step) \cup Permutations(Session)

Pass == CHOOSE o \in Outcome : TRUE

(* A checklist, a line that ends, a loop that may leave, a loop that may not *)
SentPlans ==
    {[steps |-> <<1>>, budgets |-> <<1>>, routes |-> {}],
     [steps |-> <<1, 2>>, budgets |-> <<0, 1>>, routes |-> {[from |-> 1, outcome |-> Pass, to |-> 2]}],
     [steps |-> <<1, 2>>, budgets |-> <<0, 0>>,
      routes |-> {[from |-> 1, outcome |-> Pass, to |-> 2], [from |-> 2, outcome |-> Pass, to |-> 1]}],
     [steps |-> <<1>>, budgets |-> <<0>>, routes |-> {[from |-> 1, outcome |-> Pass, to |-> 0]}]}

CallsInit == call = [x \in Session |-> NoCall] /\ tree = [f \in File |-> 0] /\ written = 0
             /\ snap = [s \in Step |-> NoSnapshot] /\ began = [s \in Step |-> [f \in File |-> 0]] /\ missed = {}

Init ==
    \/ part = "steps" /\ sent = NoPlan /\ FlowInit /\ CallsInit
    \/ part = "claims" /\ sent = NoPlan /\ ClaimInit
    \/ part = "plans" /\ sent \in UNION {Sketches(n) : n \in 1 .. PlanMax} /\ FlowInit /\ CallsInit

Next ==
    /\ \/ part = "steps" /\ FlowNext /\ UNCHANGED <<call, git>>
       \/ part = "claims" /\ ClaimNext
    /\ UNCHANGED <<part, sent>>

Spec == Init /\ [][Next]_<<claims, part, sent>>

(* Positions a chain of routes joins, written as a chain *)
Joined(a, b) ==
    \E p \in UNION {[1 .. k -> DOMAIN sent.steps] : k \in 1 .. Len(sent.steps)} :
        /\ p[1] = a /\ p[Len(p)] = b
        /\ \A k \in 2 .. Len(p) : p[k] \in Leads(sent, p[k - 1])

(* require_every_step_reached and require_every_step_can_end sweep the plan; *)
(* what they have to find out is that a chain of routes leads from the first *)
(* step to every step, and from every step to one that may end the flow.  A  *)
(* plan is let through exactly when that is so.                              *)
CheckFindsChains ==
    (CheckShape(sent) /\ sent.routes # {}) =>
        (Check(sent) <=>
            \A s \in DOMAIN sent.steps :
                /\ Joined(1, s)
                /\ \E e \in DOMAIN sent.steps :
                       /\ Joined(s, e)
                       /\ Routes(sent, e) = {} \/ \E r \in Routes(sent, e) : r.to = 0)
=============================================================================
