------------------------------- MODULE StepFlow -------------------------------
(***************************************************************************)
(* A flow a planning session sends whole, and the graph rules it has to    *)
(* pass before anything is written.  A plan is a sequence of steps, named  *)
(* by their titles, and the set of routes between their positions; a route *)
(* to position 0 leads to the end of the flow.                             *)
(***************************************************************************)
EXTENDS Sequences, FiniteSets, Integers

CONSTANTS
    Outcome,     \* the outcomes a route may be named by
    PlanMax,     \* PROPOSED_DRAFTS_MAX, the most steps a plan may have
    RoutesMax    \* ROUTES_PER_STEP_MAX

ASSUME PlanConstants ==
    /\ Outcome # {}
    /\ PlanMax \in Nat \ {0}
    /\ RoutesMax \in Nat \ {0}

PlannedRoute(n) == [from : 1 .. n, outcome : Outcome, to : Nat]

(* A plan as it arrives: a budget for each step, and routes whose targets    *)
(* nobody has looked at                                                      *)
FlowPlan(plan) ==
    LET n == Len(plan.steps)
    IN  /\ n \in Nat /\ DOMAIN plan.steps = 1 .. n
        /\ plan.budgets \in [1 .. n -> Nat]
        /\ plan.routes \subseteq PlannedRoute(n) /\ IsFiniteSet(plan.routes)

Routes(plan, at) == {r \in plan.routes : r.from = at}
Leads(plan, at)  == {r.to : r \in Routes(plan, at)} \ {0}

RequireSize(plan) == Len(plan.steps) \in 1 .. PlanMax

RequireDistinctTitles(plan) ==
    \A a, b \in DOMAIN plan.steps : plan.steps[a] = plan.steps[b] => a = b

(* require_routes_fit: few routes, one per outcome, each to another step *)
RequireRoutesFit(plan, at) ==
    /\ Cardinality(Routes(plan, at)) <= RoutesMax
    /\ \A r, q \in Routes(plan, at) : r.outcome = q.outcome => r = q
    /\ \A r \in Routes(plan, at) : r.to # at /\ r.to <= Len(plan.steps)

CheckShape(plan) ==
    /\ RequireSize(plan)
    /\ RequireDistinctTitles(plan)
    /\ \A at \in DOMAIN plan.steps : RequireRoutesFit(plan, at)

(* The positions the work list has popped once nothing is pending: those    *)
(* within k routes of the first step, for every k.                          *)
Reached(plan) ==
    LET n == Len(plan.steps)
        within[k \in 0 .. n] ==
            IF k = 0 THEN {1}
            ELSE within[k - 1] \cup UNION {Leads(plan, at) : at \in within[k - 1]}
    IN  within[n]

(* Mutant: a step counts as ending when any step it leads to has a route *)
EndsTooSoon(plan) ==
    {at \in DOMAIN plan.steps :
        \/ Routes(plan, at) = {}
        \/ \E r \in Routes(plan, at) : r.to = 0 \/ Routes(plan, r.to) # {}}

(* The positions marked as ending the flow or leading to one that does, once *)
(* a sweep changes nothing                                                   *)
Ends(plan) ==
    LET n == Len(plan.steps)
        marked[k \in 0 .. n] ==
            IF k = 0
            THEN {at \in 1 .. n : Routes(plan, at) = {} \/ \E r \in Routes(plan, at) : r.to = 0}
            ELSE marked[k - 1] \cup {at \in 1 .. n : Leads(plan, at) \cap marked[k - 1] # {}}
    IN  marked[n]

(* FlowPlan::check *)
Check(plan) ==
    /\ CheckShape(plan)
    /\ plan.routes # {}
    /\ Reached(plan) = DOMAIN plan.steps
    /\ Ends(plan) = DOMAIN plan.steps

(* FlowPlan::check_as_written: without a route it is a checklist *)
CheckAsWritten(plan) == IF plan.routes = {} THEN CheckShape(plan) ELSE Check(plan)

-----------------------------------------------------------------------------
(***************************************************************************)
(* The steps of one task, the routes between them and the visits a flow    *)
(* makes: TaskStepService, StepLinkService, StepVisitService, FlowService  *)
(* and FlowProposalService.  Every operation is one transaction, hence one *)
(* action.  A step's title stands for the step itself; its text, its place *)
(* on the canvas, its connection and whether it opens a session decide     *)
(* nothing here and are left out, and so is the task's timer, which        *)
(* accepting a claimed step stops (TaskLine has the timers).               *)
(***************************************************************************)

CONSTANTS
    Step,        \* identifiers of step rows
    End,         \* where a route that leaves the flow leads
    DraftsMax,   \* PROPOSED_DRAFTS_MAX, for the drafts a session adds one by one
    Budgets,     \* the visit budgets a person sets; 0 lifts the cap
    MaxVisits,   \* bound on the ordinals
    MaxRoutes,   \* bound on the routes of the task
    Plans        \* the plans sessions send

ASSUME StepConstants ==
    /\ IsFiniteSet(Step)
    /\ End \notin Step
    /\ DraftsMax \in Nat
    /\ Budgets \subseteq Nat
    /\ MaxVisits \in Nat
    /\ MaxRoutes \in Nat
    /\ \A plan \in Plans : FlowPlan(plan)

VARIABLES
    line,    \* the steps in the order of their positions, which are dense
    step,    \* the step rows
    link,    \* the routes
    visit    \* the visits

flows == <<line, step, link, visit>>

-----------------------------------------------------------------------------
(* Rows *)

StepState == {"draft", "open", "running", "claimed", "done"}
Moment    == {"running", "claimed", "done"}
StepRow   == [state : StepState \cup {"none"}, at : SUBSET Moment, budget : Nat]
LinkRow   == [from : Step, outcome : Outcome, to : Step \cup {End}]
VisitRow  == [ordinal : Nat \ {0}, step : Step, open : BOOLEAN]

NoStep == [state |-> "none", at |-> {}, budget |-> 0]

Live(st)      == {s \in Step : st[s].state # "none"}
InState(st, S) == {s \in Step : st[s].state \in S}
Drafts        == InState(step, {"draft"})
Unstarted     == InState(step, {"draft", "open"})
Complete      == {"claimed", "done"}

(* mark_state: the moments that stay are those of the states behind it *)
MarkState(row, next) ==
    IF row.state = next THEN row
    ELSE [row EXCEPT !.state = next,
                     !.at = CASE next \in {"draft", "open"} -> {}
                              [] next = "running" -> {"running"}
                              [] next = "claimed" -> {"running", "claimed"}
                              [] next = "done"    -> @ \cup {"done"}]

Marked(s, next) == [step EXCEPT ![s] = MarkState(@, next)]

(* Mutant: a draft stays where it is *)
SettledNowhere(ln, st) == ln

(* settle_drafts_at_tail, on the order ln of rows st *)
Settled(ln, st) ==
    SelectSeq(ln, LAMBDA s : st[s].state # "draft") \o SelectSeq(ln, LAMBDA s : st[s].state = "draft")

Without(ln, S) == SelectSeq(ln, LAMBDA s : s \notin S)

(* What the foreign keys of step_link and step_visit delete with the steps S *)
Cascade(S) ==
    /\ link'  = {l \in link : l.from \notin S /\ l.to \notin S}
    /\ visit' = {v \in visit : v.step \notin S}

Routed(s) == {l \in link : l.from = s}

(* is_flow_in: a step a person released carries a route *)
IsFlow == \E l \in link : step[l.from].state # "draft"

-----------------------------------------------------------------------------
(* Visits *)

FindOpen(vs)    == {v \in vs : v.open /\ \A w \in vs : w.open => w.ordinal <= v.ordinal}
LastOrdinal(vs) == IF vs = {} THEN 0 ELSE CHOOSE n \in {v.ordinal : v \in vs} : \A v \in vs : v.ordinal <= n
Entered(vs, s)  == Cardinality({v \in vs : v.step = s})
Close(vs, left) == (vs \ left) \cup {[v EXCEPT !.open = FALSE] : v \in left}
StandsOn(vs, s) == \E v \in FindOpen(vs) : v.step = s

(* refuse_spent_budget, asked only when the flow does not stand there yet *)
Admits(vs, s) ==
    StandsOn(vs, s) \/ step[s].budget = 0 \/ Entered(vs, s) < step[s].budget

(* Mutant: the visit the flow stood on is left open *)
EnterKeepsStanding(vs, s) ==
    IF StandsOn(vs, s) THEN vs
    ELSE vs \cup {[ordinal |-> LastOrdinal(vs) + 1, step |-> s, open |-> TRUE]}

(* enter_in: standing there keeps the visit, standing elsewhere leaves it *)
EnterIn(vs, s) ==
    IF StandsOn(vs, s) THEN vs
    ELSE Close(vs, FindOpen(vs)) \cup {[ordinal |-> LastOrdinal(vs) + 1, step |-> s, open |-> TRUE]}

(* leave_in: a step claimed without being started is entered first *)
LeaveIn(vs, s) == LET entered == EnterIn(vs, s) IN Close(entered, FindOpen(entered))

WithinBounds == LastOrdinal(visit') <= MaxVisits /\ Cardinality(link') <= MaxRoutes

-----------------------------------------------------------------------------
(* What a person does in the console *)

(* add *)
Add(s) ==
    /\ step[s] = NoStep
    /\ line' = Append(line, s)
    /\ step' = [step EXCEPT ![s].state = "draft"]
    /\ UNCHANGED <<link, visit>>

(* apply_draft: whether the row may take the flag, and what it becomes *)
MayDraft(row, draft) == draft \in {"keep", "no"} \/ row.state \in {"draft", "open"}
ApplyDraft(row, draft) ==
    IF draft = "yes" THEN MarkState(row, "draft")
    ELSE IF draft = "no" /\ row.state = "draft" THEN MarkState(row, "open") ELSE row

ApplyDone(row, done) ==
    IF done = "keep" THEN row ELSE MarkState(row, IF done = "yes" THEN "done" ELSE "open")

(* edit: the flags a console edit carries, "keep" where it carries none.    *)
(* Drafts settle only when the edit says something about drafts.            *)
Edit(s, draft, done) ==
    LET row == ApplyDone(ApplyDraft(step[s], draft), done)
    IN  /\ step[s] # NoStep
        /\ MayDraft(step[s], draft)
        /\ step' = [step EXCEPT ![s] = row]
        /\ line' = IF draft = "keep" THEN line ELSE Settled(line, step')
        /\ UNCHANGED <<link, visit>>

(* send_back *)
SendBack(s) ==
    /\ step[s].state = "claimed"
    /\ step' = Marked(s, "open")
    /\ UNCHANGED <<line, link, visit>>

(* move_to; a position past the end is the end *)
MoveTo(s, at) ==
    /\ step[s] # NoStep
    /\ at \in 0 .. Len(line) - 1
    /\ LET rest == Without(line, {s})
       IN  line' = Settled(SubSeq(rest, 1, at) \o <<s>> \o SubSeq(rest, at + 1, Len(rest)), step)
    /\ UNCHANGED <<step, link, visit>>

(* limit_visits *)
LimitVisits(s, b) ==
    /\ step[s] # NoStep
    /\ step' = [step EXCEPT ![s].budget = b]
    /\ UNCHANGED <<line, link, visit>>

(* delete *)
Delete(s) ==
    /\ step[s] # NoStep
    /\ line' = Without(line, {s})
    /\ step' = [step EXCEPT ![s] = NoStep]
    /\ Cascade({s})

(* insert_in of StepLinkService: within the cap, under a free outcome, valid *)
Fits(l) ==
    /\ Cardinality(Routed(l.from)) < RoutesMax
    /\ \A k \in Routed(l.from) : k.outcome # l.outcome
    /\ l.to # l.from

(* add of StepLinkService *)
AddRoute(l) ==
    /\ l.from \in Live(step) /\ l.to \in Live(step) \cup {End}
    /\ Fits(l)
    /\ link' = link \cup {l}
    /\ Cardinality(link') <= MaxRoutes
    /\ UNCHANGED <<line, step, visit>>

(* edit and retarget_in: the outcome must be free, the target exists *)
EditRoute(l, outcome, to) ==
    /\ l \in link
    /\ to \in Live(step) \cup {End}
    /\ \A k \in Routed(l.from) \ {l} : k.outcome # outcome
    /\ link' = (link \ {l}) \cup {[l EXCEPT !.outcome = outcome, !.to = to]}
    /\ UNCHANGED <<line, step, visit>>

(* delete of StepLinkService *)
DeleteRoute(l) ==
    /\ l \in link
    /\ link' = link \ {l}
    /\ UNCHANGED <<line, step, visit>>

(* reset: every visit is dropped, the steps keep their states *)
Reset ==
    /\ visit' = {}
    /\ UNCHANGED <<line, step, link>>

PersonNext ==
    \/ \E s \in Step :
          \/ Add(s) \/ SendBack(s) \/ Delete(s)
          \/ \E draft, done \in {"keep", "yes", "no"} : Edit(s, draft, done)
          \/ \E at \in 0 .. Cardinality(Step) : MoveTo(s, at)
          \/ \E b \in Budgets : LimitVisits(s, b)
    \/ \E l \in LinkRow : AddRoute(l) \/ DeleteRoute(l)
    \/ \E l \in link, o \in Outcome, to \in Step \cup {End} : EditRoute(l, o, to)
    \/ Reset

-----------------------------------------------------------------------------
(* What sessions do through the tools, and the work marker for them *)

(* propose: as a draft under the cap, or ready, which settles the drafts *)
Propose(s, ready) ==
    /\ step[s] = NoStep
    /\ ready \/ Cardinality(Drafts) < DraftsMax
    /\ step' = [step EXCEPT ![s] = [NoStep EXCEPT !.state = IF ready THEN "open" ELSE "draft"]]
    /\ line' = IF ready THEN Settled(Append(line, s), step') ELSE Append(line, s)
    /\ UNCHANGED <<link, visit>>

(* remove *)
Remove(s) ==
    /\ s \in Unstarted
    /\ line' = Without(line, {s})
    /\ step' = [step EXCEPT ![s] = NoStep]
    /\ Cascade({s})

(* transition_in refuses a draft and a step already accepted *)
Movable(s) == step[s].state \notin {"none", "draft", "done"}

(* transition on a checklist, and reopening on a flow *)
Move(s, target) ==
    /\ Movable(s)
    /\ ~IsFlow \/ target = "open"
    /\ step' = Marked(s, target)
    /\ UNCHANGED <<line, link, visit>>

(* transition to running on a flow *)
StartFlow(s) ==
    /\ Movable(s)
    /\ IsFlow
    /\ Admits(visit, s)
    /\ step' = Marked(s, "running")
    /\ visit' = EnterIn(visit, s)
    /\ UNCHANGED <<line, link>>
    /\ WithinBounds

(* transition to claimed from a step with no route out, or by one to the end *)
ClaimEnds(s) ==
    /\ Movable(s)
    /\ IsFlow
    /\ Routed(s) = {} \/ \E l \in Routed(s) : l.to = End
    /\ Admits(visit, s)
    /\ step' = Marked(s, "claimed")
    /\ visit' = LeaveIn(visit, s)
    /\ UNCHANGED <<line, link>>
    /\ WithinBounds

(* Mutant: the step a route leads to is left as it is *)
ArrivedAsIs(st, s) == st

(* reopen_for_route_in: finished work opens for another pass *)
Arrived(st, s) == IF st[s].state \in Complete THEN [st EXCEPT ![s] = MarkState(@, "open")] ELSE st

(* transition to claimed by the route l: leave, then enter its step *)
ClaimFollows(s, l) ==
    /\ Movable(s)
    /\ l \in Routed(s) /\ l.to # End
    /\ step[l.to].state # "draft"
    /\ Admits(visit, s)
    /\ Admits(LeaveIn(visit, s), l.to)
    /\ step'  = Arrived(Marked(s, "claimed"), l.to)
    /\ visit' = EnterIn(LeaveIn(visit, s), l.to)
    /\ UNCHANGED <<line, link>>
    /\ WithinBounds

(* lay_in and release_drafts_in: the plan's steps and routes behind ln *)
Lay(ln, kept, plan, ids, ready) ==
    LET n == Len(plan.steps)
    IN  /\ line' = ln \o ids
        /\ step' = [s \in Step |->
                       IF \E k \in 1 .. n : ids[k] = s
                       THEN [NoStep EXCEPT !.state  = IF ready THEN "open" ELSE "draft",
                                           !.budget = plan.budgets[CHOOSE k \in 1 .. n : ids[k] = s]]
                       ELSE IF s \in kept THEN step[s] ELSE NoStep]
        /\ link' = {l \in link : {l.from, l.to} \subseteq kept \cup {End}} \cup
                       {[from |-> ids[r.from], outcome |-> r.outcome,
                         to |-> IF r.to = 0 THEN End ELSE ids[r.to]] : r \in plan.routes}
        /\ visit' = {v \in visit : v.step \in kept}
        /\ WithinBounds

Fresh(plan) == {ids \in [DOMAIN plan.steps -> Step \ Live(step)] :
                    \A a, b \in DOMAIN ids : ids[a] = ids[b] => a = b}

(* The plans sent that the rules let through *)
SoundFlows == {plan \in Plans : Check(plan)}
SoundPlans == {plan \in Plans : CheckAsWritten(plan)}

(* propose of FlowProposalService: whole, onto a task with no steps *)
ProposeFlow(plan, ready) ==
    /\ plan \in SoundFlows
    /\ Live(step) = {}
    /\ \E ids \in Fresh(plan) : Lay(<<>>, {}, plan, ids, ready)

(* replan: started, claimed and done steps stay, and a flow cannot follow them *)
Replan(plan, ready) ==
    LET kept == Live(step) \ Unstarted
    IN  /\ plan \in SoundPlans
        /\ plan.routes = {} \/ kept = {}
        /\ \E ids \in Fresh(plan) : Lay(SelectSeq(line, LAMBDA s : s \in kept), kept, plan, ids, ready)

(* mark_running when a session opens on a step, release_running when it ends *)
MarkRunning(s) ==
    /\ step[s].state = "open"
    /\ step' = Marked(s, "running")
    /\ UNCHANGED <<line, link, visit>>

ReleaseRunning(s) ==
    /\ step[s].state = "running"
    /\ step' = Marked(s, "open")
    /\ UNCHANGED <<line, link, visit>>

SessionNext ==
    \/ \E s \in Step :
          \/ Remove(s) \/ MarkRunning(s) \/ ReleaseRunning(s)
          \/ StartFlow(s) \/ ClaimEnds(s)
          \/ \E ready \in BOOLEAN : Propose(s, ready)
          \/ \E target \in {"open", "running", "claimed"} : Move(s, target)
          \/ \E l \in link : ClaimFollows(s, l)
    \/ \E plan \in Plans, ready \in BOOLEAN : ProposeFlow(plan, ready) \/ Replan(plan, ready)

-----------------------------------------------------------------------------

FlowInit ==
    /\ line = <<>> /\ step = [s \in Step |-> NoStep]
    /\ link = {} /\ visit = {}

FlowNext == PersonNext \/ SessionNext

FlowSpec == FlowInit /\ [][FlowNext]_flows

-----------------------------------------------------------------------------

(* The rows have their shapes.                                               *)
FlowTypeOK ==
    /\ step \in [Step -> StepRow]
    /\ link \subseteq LinkRow
    /\ visit \subseteq VisitRow

(* StepVisitService: "At most one visit per task is open", however starts,   *)
(* claims, deletions and resets follow each other, and the open one is the   *)
(* last; no two visits share an ordinal.                                     *)
OneStanding ==
    \A v, w \in visit :
        /\ v.ordinal = w.ordinal => v = w
        /\ v.open => w.ordinal <= v.ordinal

(* No route or visit outlives the steps it joins, one outcome names one route *)
(* out of a step, and the cap on routes holds: what StepLinkService checks on *)
(* its way in survives every other operation.                                 *)
RoutesHold ==
    /\ \A l \in link : l.from \in Live(step) /\ l.to \in Live(step) \cup {End}
    /\ \A l, k \in link : l.from = k.from /\ l.outcome = k.outcome => l = k
    /\ \A s \in Step : Cardinality(Routed(s)) <= RoutesMax
    /\ \A v \in visit : v.step \in Live(step)

(* TaskStep::mark_state, "the state and its moment are one fact": along every *)
(* path a step can take, forwards and back, it has the moments of its state   *)
(* and of no later one.                                                       *)
MomentsFollowState ==
    \A s \in Step :
        LET row == step[s]
        IN  /\ row.state \in {"none", "draft", "open"} => row.at = {}
            /\ row.state = "running" => row.at = {"running"}
            /\ row.state = "claimed" => row.at = {"running", "claimed"}
            /\ row.state = "done" => "done" \in row.at /\ ("claimed" \in row.at => "running" \in row.at)

(* What this step does to the row s is the person's to do: a draft promoted, *)
(* a step ticked done, started work discarded, an accepted step taken back   *)
(* otherwise than by a route that leads there.                               *)
NotForSessions(s) ==
    \/ step[s].state = "draft" /\ step'[s].state \notin {"draft", "none"}
    \/ step[s].state # "done" /\ step'[s].state = "done"
    \/ step[s].state \in {"running", "claimed", "done"} /\ step'[s].state = "none"
    \/ /\ step[s].state = "done" /\ step'[s].state # "done"
       /\ ~\E v \in visit' : v.open /\ v.step = s

(* No tool a session calls does any of it, whatever was called before.       *)
SessionBounds == (\E s \in Step : NotForSessions(s)) => ~SessionNext

(* refuse_spent_budget: no move enters a step more often than its budget, and *)
(* a move it refuses leaves nothing behind.                                   *)
BudgetHolds ==
    \A s \in Step :
       Entered(visit', s) > Entered(visit, s) =>
           step[s].budget = 0 \/ Entered(visit', s) <= step[s].budget

(* FlowService: a step the flow comes to stand on can be worked: it is open   *)
(* or running, never a draft nobody released nor work already finished.       *)
ArrivesAtWork ==
    \A v \in visit' : v.open /\ v \notin visit => step'[v.step].state \in {"open", "running"}

TailOrdered ==
    \A a, b \in DOMAIN line :
        a < b /\ step[line[a]].state = "draft" => step[line[b]].state = "draft"

(* settle_drafts_at_tail: "Keep every draft after every non-draft".  Ticking  *)
(* a draft, or unticking one, without saying anything about drafts is the one *)
(* operation that leaves a draft before work.                                 *)
TailKept ==
    TailOrdered /\ ~TailOrdered' =>
       /\ line' = line
       /\ \E s \in Drafts : step'[s].state \in {"open", "done"}

(* TaskStepService: positions number exactly the rows, after every insertion, *)
(* move and deletion.                                                         *)
LineNumbers ==
    /\ {line[k] : k \in DOMAIN line} = Live(step)
    /\ Len(line) = Cardinality(Live(step))

(* The steps, routes and visits together, through every sequence of calls of  *)
(* people and sessions: the shapes of the rows, one standing place, routes    *)
(* that join live steps, moments that fit the state.                          *)
FlowInv == FlowTypeOK /\ OneStanding /\ RoutesHold /\ MomentsFollowState

(* What no move does: go beyond what a session may, overspend a budget,       *)
(* arrive at a step that cannot be worked.                                    *)
MovesHold == [][SessionBounds /\ BudgetHolds /\ ArrivesAtWork]_flows

(* What every edit of the line keeps: a position for each row, and the drafts *)
(* behind the work.                                                           *)
LineHolds == [][LineNumbers' /\ TailKept]_flows
=============================================================================
