------------------------------ MODULE StepProofs ------------------------------
(***************************************************************************)
(* The steps of a task proved for every number of steps, routes, visits,   *)
(* plans and calls: one standing place, routes that join live steps,       *)
(* moments that fit the state, moves within what a session may do, and     *)
(* claims that are checked and commit nothing but their own work.          *)
(***************************************************************************)
EXTENDS StepClaim, FiniteSetTheorems, TLAPS

USE Zenon

-----------------------------------------------------------------------------
(* Counting *)

(* A set of naturals that is not empty has a least member.                   *)
LEMMA LeastOf ==
    ASSUME NEW T \in SUBSET Nat, T # {}
    PROVE  \E i \in T : \A j \in T : i <= j
<1>1. PICK R : R = OpToRel(<, Nat)
  OBVIOUS
<1>2. IsWellFoundedOn(R, Nat)
  BY <1>1, NatLessThanWellFounded
<1>3. PICK i \in T : \A j \in T : ~(<<j, i>> \in R)
  BY <1>2, WFMin
<1>4. \A j \in T : j < i => <<j, i>> \in R
  BY <1>1 DEF OpToRel
<1>5. \A j \in T : ~(j < i)
  BY <1>3, <1>4
<1>6. \A j \in T : i <= j
  BY <1>5, SMTT(60)
<1>. QED  BY <1>6

(* A set of naturals that has a bound and is not empty has a greatest member. *)
LEMMA GreatestOf ==
    ASSUME NEW n \in Nat, NEW T \in SUBSET Nat, T # {}, \A i \in T : i <= n
    PROVE  \E i \in T : \A j \in T : j <= i
<1>1. PICK B \in SUBSET Nat : \A d \in Nat : d \in B <=> n - d \in T
  <2>1. {d \in Nat : n - d \in T} \in SUBSET Nat
    OBVIOUS
  <2>. QED  BY <2>1
<1>2. \A i \in T : n - i \in B
  BY <1>1, SMTT(60)
<1>3. PICK d \in B : \A k \in B : d <= k
  BY <1>2, LeastOf
<1>4. n - d \in T /\ \A j \in T : j <= n - d
  BY <1>1, <1>2, <1>3, SMTT(60)
<1>. QED  BY <1>4

(* Putting a new member in place of an old one does not change how many there *)
(* are.                                                                       *)
LEMMA Replaced ==
    ASSUME NEW S, IsFiniteSet(S), NEW x \in S, NEW y, y \notin S \ {x}
    PROVE  IsFiniteSet((S \ {x}) \cup {y}) /\ Cardinality((S \ {x}) \cup {y}) = Cardinality(S)
<1>1. IsFiniteSet(S \ {x}) /\ Cardinality(S \ {x}) = Cardinality(S) - 1
  BY FS_RemoveElement
<1>2. IsFiniteSet((S \ {x}) \cup {y}) /\ Cardinality((S \ {x}) \cup {y}) = Cardinality(S \ {x}) + 1
  BY <1>1, FS_AddElement
<1>3. Cardinality(S) \in Nat
  BY FS_CardinalityType
<1>. QED  BY <1>1, <1>2, <1>3, SMTT(60)

(* A set that a function of a finite set covers is finite and no larger.      *)
LEMMA Covered ==
    ASSUME NEW S, IsFiniteSet(S), NEW T, NEW f, DOMAIN f = S, f \in [S -> T], \A y \in T : \E x \in S : f[x] = y
    PROVE  IsFiniteSet(T) /\ Cardinality(T) <= Cardinality(S)
<1>1. f \in Surjection(S, T)
  BY DEF Surjection
<1>. QED  BY <1>1, FS_Surjection

-----------------------------------------------------------------------------
(* The visits of a flow: finitely many, numbered apart, the open one last.  *)
VisitsHold(vs) ==
    /\ vs \in SUBSET VisitRow /\ IsFiniteSet(vs)
    /\ \E n \in Nat : \A v \in vs : v.ordinal <= n
    /\ \A v, w \in vs : (v.ordinal = w.ordinal => v = w) /\ (v.open => w.ordinal <= v.ordinal)

(* A visit row, and the row it is when it is closed.                        *)
LEMMA VisitFields ==
    ASSUME NEW v \in VisitRow
    PROVE  /\ v.ordinal \in Nat \ {0} /\ v.step \in Step /\ v.open \in BOOLEAN
           /\ [v EXCEPT !.open = FALSE] \in VisitRow
           /\ [v EXCEPT !.open = FALSE].ordinal = v.ordinal
           /\ [v EXCEPT !.open = FALSE].step = v.step
           /\ ~[v EXCEPT !.open = FALSE].open
BY DEF VisitRow

(* Deleting visits leaves visits in order, and none is counted more often.  *)
LEMMA FewerVisits ==
    ASSUME NEW vs, VisitsHold(vs), NEW fewer \in SUBSET vs
    PROVE  VisitsHold(fewer) /\ \A s \in Step : Entered(fewer, s) <= Entered(vs, s)
<1>1. IsFiniteSet(fewer)
  BY FS_Subset DEF VisitsHold
<1>2. ASSUME NEW s \in Step PROVE Entered(fewer, s) <= Entered(vs, s)
  <2>1. {v \in vs : v.step = s} \in SUBSET vs
    OBVIOUS
  <2>2. IsFiniteSet({v \in vs : v.step = s})
    BY <2>1, FS_Subset DEF VisitsHold
  <2>3. {v \in fewer : v.step = s} \in SUBSET {v \in vs : v.step = s}
    OBVIOUS
  <2>. QED  BY <2>2, <2>3, FS_Subset DEF Entered
<1>. QED  BY <1>1, <1>2 DEF VisitsHold

(* How often a step was entered is a number.                                *)
LEMMA EnteredIsCount ==
    ASSUME NEW vs, VisitsHold(vs), NEW s
    PROVE  Entered(vs, s) \in Nat /\ IsFiniteSet({v \in vs : v.step = s})
<1>1. {v \in vs : v.step = s} \in SUBSET vs
  OBVIOUS
<1>2. IsFiniteSet({v \in vs : v.step = s})
  BY <1>1, FS_Subset DEF VisitsHold
<1>. QED  BY <1>2, FS_CardinalityType DEF Entered

(* The last ordinal is above every visit's.                                 *)
LEMMA LastIsLast ==
    ASSUME NEW vs, VisitsHold(vs)
    PROVE  LastOrdinal(vs) \in Nat /\ \A v \in vs : v.ordinal <= LastOrdinal(vs)
<1>1. CASE vs = {}
  BY <1>1 DEF LastOrdinal
<1>2. CASE vs # {}
  <2>1. PICK T \in SUBSET Nat : T = {v.ordinal : v \in vs}
    <3>1. \A v \in vs : v.ordinal \in Nat
      BY VisitFields DEF VisitsHold
    <3>. QED  BY <3>1
  <2>2. PICK n \in Nat : \A v \in vs : v.ordinal <= n
    BY DEF VisitsHold
  <2>3. T # {} /\ \A i \in T : i <= n
    BY <1>2, <2>1, <2>2
  <2>4. \E i \in T : \A j \in T : j <= i
    BY <2>2, <2>3, GreatestOf
  <2>5. \E i \in T : \A v \in vs : v.ordinal <= i
    BY <2>1, <2>4
  <2>6. LastOrdinal(vs) = CHOOSE i \in T : \A v \in vs : v.ordinal <= i
    BY <1>2, <2>1 DEF LastOrdinal
  <2>. QED  BY <2>5, <2>6
<1>. QED  BY <1>1, <1>2

(* find_open finds the one open visit, if there is one.                     *)
LEMMA OneOpen ==
    ASSUME NEW vs, VisitsHold(vs)
    PROVE  /\ FindOpen(vs) = {v \in vs : v.open}
           /\ FindOpen(vs) = {} \/ \E v \in vs : v.open /\ FindOpen(vs) = {v}
<1>1. \A v, w \in vs : v.open /\ w.open => v = w
  <2>1. \A v \in vs : v.ordinal \in Nat
    BY VisitFields DEF VisitsHold
  <2>. QED  BY <2>1, SMTT(60) DEF VisitsHold
<1>2. FindOpen(vs) = {v \in vs : v.open}
  BY DEF FindOpen, VisitsHold
<1>. QED  BY <1>1, <1>2, ZenonT(60)

(* Leaving a visit closes it and nothing else: the same places were entered, *)
(* as often, under the same ordinals.                                        *)
LEMMA ClosesIt ==
    ASSUME NEW vs, VisitsHold(vs), NEW left, left = Close(vs, FindOpen(vs))
    PROVE  /\ VisitsHold(left) /\ \A v \in left : ~v.open
           /\ \A v \in left : \E w \in vs : v.step = w.step /\ v.ordinal = w.ordinal
           /\ \A s \in Step : Entered(left, s) = Entered(vs, s)
<1>1. CASE FindOpen(vs) = {}
  <2>1. left = vs
    BY <1>1 DEF Close
  <2>. QED  BY <1>1, <2>1, OneOpen, SMTT(60)
<1>2. ASSUME NEW o \in vs, o.open, FindOpen(vs) = {o}
      PROVE  /\ VisitsHold(left) /\ \A v \in left : ~v.open
             /\ \A v \in left : \E w \in vs : v.step = w.step /\ v.ordinal = w.ordinal
             /\ \A s \in Step : Entered(left, s) = Entered(vs, s)
  <2>1. o \in VisitRow /\ vs \in SUBSET VisitRow /\ IsFiniteSet(vs)
    BY DEF VisitsHold
  <2>2. PICK c \in VisitRow : c = [o EXCEPT !.open = FALSE] /\ c.ordinal = o.ordinal /\ c.step = o.step /\ ~c.open
    BY <2>1, VisitFields
  <2>3. left = (vs \ {o}) \cup {c}
    BY <1>2, <2>2 DEF Close
  <2>4. c \notin vs
    BY <1>2, <2>2 DEF VisitsHold
  <2>5. \A v \in vs \ {o} : ~v.open
    BY <1>2, OneOpen
  <2>6. \A v \in left : \E w \in vs : v.step = w.step /\ v.ordinal = w.ordinal
    BY <2>2, <2>3
  <2>7. IsFiniteSet(left)
    BY <2>1, <2>3, <2>4, Replaced, SMTT(60)
  <2>8. \A v, w \in left : v.ordinal = w.ordinal => v = w
    BY <2>2, <2>3 DEF VisitsHold
  <2>9. VisitsHold(left) /\ \A v \in left : ~v.open
    BY <2>1, <2>2, <2>3, <2>5, <2>6, <2>7, <2>8 DEF VisitsHold
  <2>10. ASSUME NEW s \in Step PROVE Entered(left, s) = Entered(vs, s)
    <3>1. CASE o.step # s
      <4>1. {v \in left : v.step = s} = {v \in vs : v.step = s}
        BY <2>2, <2>3, <3>1
      <4>. QED  BY <4>1 DEF Entered
    <3>2. CASE o.step = s
      <4>0. IsFiniteSet({v \in vs : v.step = s})
        BY EnteredIsCount
      <4>1. PICK here : here = {v \in vs : v.step = s} /\ IsFiniteSet(here)
        BY <4>0
      <4>2. {v \in left : v.step = s} = (here \ {o}) \cup {c}
        BY <2>2, <2>3, <3>2, <4>1
      <4>3. o \in here /\ c \notin here \ {o}
        BY <2>4, <3>2, <4>1
      <4>4. Cardinality((here \ {o}) \cup {c}) = Cardinality(here)
        BY <4>1, <4>3, Replaced, ZenonT(60)
      <4>. QED  BY <4>1, <4>2, <4>4 DEF Entered
    <3>. QED  BY <3>1, <3>2
  <2>. QED  BY <2>6, <2>9, <2>10
<1>. QED  BY <1>1, <1>2, OneOpen

(* Entering a step: the flow stands there and nowhere else, and the step was  *)
(* entered once more unless the flow stood there already.                     *)
LEMMA EntersIt ==
    ASSUME NEW vs, VisitsHold(vs), NEW s \in Step, NEW then, then = EnterIn(vs, s)
    PROVE  /\ VisitsHold(then)
           /\ \A v \in then : v.open => v.step = s
           /\ \E v \in then : v.open /\ v.step = s
           /\ \A v \in then : v.step = s \/ \E w \in vs : v.step = w.step
           /\ \A q \in Step : q # s => Entered(then, q) = Entered(vs, q)
           /\ Entered(then, s) = IF StandsOn(vs, s) THEN Entered(vs, s) ELSE Entered(vs, s) + 1
           /\ StandsOn(vs, s) => then = vs
<1>1. CASE StandsOn(vs, s)
  <2>1. then = vs
    BY <1>1 DEF EnterIn
  <2>2. PICK v \in vs : v.open /\ v.step = s /\ FindOpen(vs) = {v}
    BY <1>1, OneOpen, SMTT(60) DEF StandsOn
  <2>3. \A w \in vs : w.open => w = v
    BY <2>2, OneOpen
  <2>. QED  BY <1>1, <2>1, <2>2, <2>3
<1>2. CASE ~StandsOn(vs, s)
  <2>1. PICK left : left = Close(vs, FindOpen(vs))
    OBVIOUS
  <2>2. /\ VisitsHold(left) /\ \A v \in left : ~v.open
        /\ \A v \in left : \E w \in vs : v.step = w.step /\ v.ordinal = w.ordinal
        /\ \A q \in Step : Entered(left, q) = Entered(vs, q)
    BY <2>1, ClosesIt, SMTT(60)
  <2>3. PICK last \in Nat : last = LastOrdinal(vs) /\ \A v \in left : v.ordinal <= last
    BY <2>2, LastIsLast
  <2>4. PICK n \in VisitRow : n = [ordinal |-> last + 1, step |-> s, open |-> TRUE]
                             /\ n.ordinal = last + 1 /\ n.step = s /\ n.open
    <3>1. [ordinal |-> last + 1, step |-> s, open |-> TRUE] \in VisitRow
      BY SMTT(60) DEF VisitRow
    <3>. QED  BY <3>1
  <2>5. then = left \cup {n}
    BY <1>2, <2>1, <2>3, <2>4 DEF EnterIn
  <2>6. \A v \in left : v.ordinal \in Nat
    BY <2>2, VisitFields DEF VisitsHold
  <2>7. n \notin left
    BY <2>2, <2>4
  <2>8. VisitsHold(then)
    <3>1. then \in SUBSET VisitRow /\ IsFiniteSet(then)
      BY <2>2, <2>5, FS_AddElement, SMTT(60) DEF VisitsHold
    <3>2. \A v \in then : v.ordinal <= last + 1
      BY <2>3, <2>4, <2>5, <2>6, SMTT(60)
    <3>3. \A v, w \in left : v.ordinal = w.ordinal => v = w
      BY <2>2 DEF VisitsHold
    <3>4. \A v, w \in then : v.ordinal = w.ordinal => v = w
      <4>1. \A v \in left : v.ordinal # n.ordinal
        BY <2>3, <2>4, <2>6, SMTT(60)
      <4>. QED  BY <2>5, <3>3, <4>1
    <3>5. \A v, w \in then : v.open => w.ordinal <= v.ordinal
      BY <2>2, <2>4, <2>5, <3>2
    <3>. QED  BY <3>1, <3>2, <3>4, <3>5, SMTT(60) DEF VisitsHold
  <2>9. ASSUME NEW q \in Step, q # s PROVE Entered(then, q) = Entered(vs, q)
    <3>1. {v \in then : v.step = q} = {v \in left : v.step = q}
      BY <2>4, <2>5, <2>9
    <3>. QED  BY <2>2, <3>1 DEF Entered
  <2>10. Entered(then, s) = Entered(vs, s) + 1
    <3>0. IsFiniteSet({v \in left : v.step = s})
      BY <2>2, EnteredIsCount, SMTT(60)
    <3>1. PICK here : here = {v \in left : v.step = s} /\ IsFiniteSet(here)
      BY <3>0
    <3>2. {v \in then : v.step = s} = here \cup {n} /\ n \notin here
      BY <2>4, <2>5, <2>7, <3>1
    <3>3. Cardinality(here \cup {n}) = Cardinality(here) + 1
      BY <3>1, <3>2, FS_AddElement
    <3>. QED  BY <2>2, <3>1, <3>2, <3>3 DEF Entered
  <2>11. /\ \A v \in then : v.open => v.step = s
         /\ \E v \in then : v.open /\ v.step = s
         /\ \A v \in then : v.step = s \/ \E w \in vs : v.step = w.step
    BY <2>2, <2>4, <2>5
  <2>. QED  BY <1>2, <2>8, <2>9, <2>10, <2>11
<1>. QED  BY <1>1, <1>2

(* Leaving a step: the flow stands nowhere, and the step was entered before.   *)
LEMMA LeavesIt ==
    ASSUME NEW vs, VisitsHold(vs), NEW s \in Step, NEW then, then = LeaveIn(vs, s)
    PROVE  /\ VisitsHold(then)
           /\ \A v \in then : ~v.open
           /\ \A v \in then : v.step = s \/ \E w \in vs : v.step = w.step
           /\ \A q \in Step : q # s => Entered(then, q) = Entered(vs, q)
           /\ Entered(then, s) = IF StandsOn(vs, s) THEN Entered(vs, s) ELSE Entered(vs, s) + 1
           /\ ~StandsOn(then, s)
<1>1. PICK mid : mid = EnterIn(vs, s)
  OBVIOUS
<1>2. /\ VisitsHold(mid)
      /\ \A v \in mid : v.step = s \/ \E w \in vs : v.step = w.step
      /\ \A q \in Step : q # s => Entered(mid, q) = Entered(vs, q)
      /\ Entered(mid, s) = IF StandsOn(vs, s) THEN Entered(vs, s) ELSE Entered(vs, s) + 1
  BY <1>1, EntersIt, SMTT(60)
<1>3. then = Close(mid, FindOpen(mid))
  BY <1>1 DEF LeaveIn
<1>4. /\ VisitsHold(then) /\ \A v \in then : ~v.open
      /\ \A v \in then : \E w \in mid : v.step = w.step
      /\ \A q \in Step : Entered(then, q) = Entered(mid, q)
  BY <1>2, <1>3, ClosesIt, SMTT(60)
<1>5. ~StandsOn(then, s)
  BY <1>4 DEF StandsOn, FindOpen
<1>6. \A v \in then : v.step = s \/ \E w \in vs : v.step = w.step
  BY <1>2, <1>4, SMTT(60)
<1>. QED  BY <1>2, <1>4, <1>5, <1>6

-----------------------------------------------------------------------------
(* The rows of the steps and the routes: a step has the moments of its state, *)
(* and a route joins steps that are there.                                    *)
RowHolds(row) ==
    /\ row \in StepRow /\ (row.state = "none" => row = NoStep)
    /\ row.state \in {"none", "draft", "open"} => row.at = {}
    /\ row.state = "running" => row.at = {"running"}
    /\ row.state = "claimed" => row.at = {"running", "claimed"}
    /\ row.state = "done" => "done" \in row.at /\ ("claimed" \in row.at => "running" \in row.at)
RowsHold(st) == st \in [Step -> StepRow] /\ \A s \in Step : RowHolds(st[s])
LinksHold(ls, live) ==
    /\ ls \in SUBSET LinkRow /\ IsFiniteSet(ls)
    /\ \A l \in ls : l.from \in live /\ l.to \in live \cup {End}
    /\ \A l, k \in ls : l.from = k.from /\ l.outcome = k.outcome => l = k
    /\ \A s \in Step : Cardinality({l \in ls : l.from = s}) <= RoutesMax
FlowShape ==
    /\ RowsHold(step) /\ LinksHold(link, Live(step))
    /\ VisitsHold(visit) /\ \A v \in visit : v.step \in Live(step)

(* The shape is the invariant, with the finiteness it takes for granted.      *)
LEMMA ShapeIsFlowInv == FlowShape => FlowInv
<1>. SUFFICES ASSUME FlowShape PROVE FlowInv
  OBVIOUS
<1>1. FlowTypeOK
  BY DEF FlowShape, RowsHold, LinksHold, VisitsHold, FlowTypeOK
<1>2. OneStanding
  BY DEF FlowShape, VisitsHold, OneStanding
<1>3. RoutesHold
  BY DEF FlowShape, LinksHold, RoutesHold, Routed
<1>4. MomentsFollowState
  BY DEF FlowShape, RowsHold, RowHolds, MomentsFollowState
<1>. QED  BY <1>1, <1>2, <1>3, <1>4 DEF FlowInv

(* mark_state: whatever the row was, it is in the state asked for with the     *)
(* moments of that state, and nothing else changed.                            *)
LEMMA MarkedRow ==
    ASSUME NEW row, RowHolds(row), NEW next \in StepState
    PROVE  RowHolds(MarkState(row, next)) /\ MarkState(row, next).state = next
           /\ MarkState(row, next).budget = row.budget
<1>. DEFINE at(n) == CASE n \in {"draft", "open"} -> {}
                       [] n = "running" -> {"running"}
                       [] n = "claimed" -> {"running", "claimed"}
                       [] n = "done"    -> row.at \cup {"done"}
<1>1. row \in StepRow /\ row.at \in SUBSET Moment
  BY DEF RowHolds, StepRow
<1>2. /\ next \in {"draft", "open"} => at(next) = {}
      /\ next = "running" => at(next) = {"running"}
      /\ next = "claimed" => at(next) = {"running", "claimed"}
      /\ next = "done"    => at(next) = row.at \cup {"done"}
  OBVIOUS
<1>3. at(next) \in SUBSET Moment
  BY <1>1, <1>2 DEF StepState, Moment
<1>4. CASE row.state = next
  BY <1>4 DEF MarkState
<1>5. CASE row.state # next
  <2>1. MarkState(row, next) = [row EXCEPT !.state = next, !.at = at(next)]
    BY <1>5 DEF MarkState
  <2>. HIDE DEF at
  <2>2. PICK a \in SUBSET Moment : a = at(next)
    BY <1>3
  <2>3. /\ [row EXCEPT !.state = next, !.at = a] \in StepRow
        /\ [row EXCEPT !.state = next, !.at = a].state = next
        /\ [row EXCEPT !.state = next, !.at = a].at = a
        /\ [row EXCEPT !.state = next, !.at = a].budget = row.budget
    BY <1>1 DEF StepRow
  <2>4. PICK m \in StepRow : m = MarkState(row, next) /\ m.state = next /\ m.at = a /\ m.budget = row.budget
    BY <2>1, <2>2, <2>3
  <2>5. next = "done" => "done" \in m.at /\ ("claimed" \in m.at => "running" \in m.at)
    <3>1. "claimed" \in row.at => "running" \in row.at
      BY DEF RowHolds, StepRow, StepState
    <3>. QED  BY <1>2, <2>2, <2>4, <3>1
  <2>6. RowHolds(m)
    BY <1>2, <2>2, <2>4, <2>5 DEF RowHolds, StepState
  <2>. QED  BY <2>4, <2>6
<1>. QED  BY <1>4, <1>5

(* A row that holds, and a step that is not there.                             *)
LEMMA RowFields ==
    ASSUME NEW st, RowsHold(st), NEW s \in Step
    PROVE  /\ RowHolds(st[s]) /\ st[s] \in StepRow /\ st[s].budget \in Nat
           /\ st[s].state \in StepState \cup {"none"} /\ st[s].at \in SUBSET Moment
BY DEF RowsHold, RowHolds, StepRow

(* The row of a step that is not there.                                        *)
LEMMA BlankRow == RowHolds(NoStep) /\ NoStep \in StepRow /\ NoStep.state = "none" /\ NoStep.at = {} /\ NoStep.budget = 0
BY DEF NoStep, RowHolds, StepRow, StepState

(* One row written: the others are as they were.                               *)
LEMMA OneRow ==
    ASSUME NEW st, RowsHold(st), NEW s \in Step, NEW row, RowHolds(row), row.state # "none"
    PROVE  /\ RowsHold([st EXCEPT ![s] = row])
           /\ \A q \in Step : [st EXCEPT ![s] = row][q] = IF q = s THEN row ELSE st[q]
           /\ Live([st EXCEPT ![s] = row]) = Live(st) \cup {s}
<1>1. \A q \in Step : [st EXCEPT ![s] = row][q] = IF q = s THEN row ELSE st[q]
  BY DEF RowsHold
<1>2. RowsHold([st EXCEPT ![s] = row])
  <2>1. row \in StepRow
    BY DEF RowHolds
  <2>2. [st EXCEPT ![s] = row] \in [Step -> StepRow]
    BY <2>1 DEF RowsHold
  <2>. QED  BY <1>1, <2>2 DEF RowsHold
<1>. QED  BY <1>1, <1>2 DEF Live

(* The same of the step rows themselves.                                       *)
LEMMA StepWritten ==
    ASSUME RowsHold(step), NEW s \in Step, NEW row, RowHolds(row), step' = [step EXCEPT ![s] = row]
    PROVE  /\ RowsHold(step') /\ \A q \in Step : step'[q] = IF q = s THEN row ELSE step[q]
           /\ row.state # "none" => Live(step') = Live(step) \cup {s}
           /\ row.state = "none" => Live(step') = Live(step) \ {s}
<1>1. \A q \in Step : step'[q] = IF q = s THEN row ELSE step[q]
  BY DEF RowsHold
<1>2. RowsHold(step')
  <2>1. row \in StepRow
    BY DEF RowHolds
  <2>2. step' \in [Step -> StepRow]
    BY <2>1 DEF RowsHold
  <2>. QED  BY <1>1, <2>2 DEF RowsHold
<1>. QED  BY <1>1, <1>2 DEF Live

(* Routes that stay, of steps that stay.                                       *)
LEMMA FewerLinks ==
    ASSUME NEW ls, NEW live, LinksHold(ls, live), NEW fewer \in SUBSET ls, NEW alive,
           \A l \in fewer : l.from \in alive /\ l.to \in alive \cup {End}
    PROVE  LinksHold(fewer, alive)
<1>1. IsFiniteSet(fewer) /\ fewer \in SUBSET LinkRow
  BY FS_Subset DEF LinksHold
<1>2. ASSUME NEW s \in Step PROVE Cardinality({l \in fewer : l.from = s}) <= RoutesMax
  <2>1. {l \in ls : l.from = s} \in SUBSET ls
    OBVIOUS
  <2>2. IsFiniteSet({l \in ls : l.from = s})
    BY <2>1, FS_Subset DEF LinksHold
  <2>3. {l \in fewer : l.from = s} \in SUBSET {l \in ls : l.from = s}
    OBVIOUS
  <2>4. /\ IsFiniteSet({l \in fewer : l.from = s})
        /\ Cardinality({l \in fewer : l.from = s}) <= Cardinality({l \in ls : l.from = s})
    BY <2>2, <2>3, FS_Subset
  <2>5. Cardinality({l \in ls : l.from = s}) \in Nat /\ Cardinality({l \in fewer : l.from = s}) \in Nat
    BY <2>2, <2>4, FS_CardinalityType
  <2>6. Cardinality({l \in ls : l.from = s}) <= RoutesMax /\ RoutesMax \in Nat
    BY PlanConstants DEF LinksHold
  <2>. QED  BY <2>4, <2>5, <2>6, SMTT(60)
<1>. QED  BY <1>1, <1>2 DEF LinksHold

(* A row with another budget.                                                  *)
LEMMA Budgeted ==
    ASSUME NEW row, RowHolds(row), row.state # "none", NEW b \in Nat
    PROVE  RowHolds([row EXCEPT !.budget = b]) /\ [row EXCEPT !.budget = b].state = row.state
<1>1. row \in StepRow
  BY DEF RowHolds
<1>2. /\ [row EXCEPT !.budget = b] \in StepRow /\ [row EXCEPT !.budget = b].state = row.state
      /\ [row EXCEPT !.budget = b].at = row.at
  BY <1>1 DEF StepRow
<1>. QED  BY <1>2 DEF RowHolds

(* A step as it is laid down: a draft or open, with a budget.                   *)
LEMMA NewRow ==
    ASSUME NEW state \in {"draft", "open"}, NEW b \in Nat
    PROVE  /\ RowHolds([NoStep EXCEPT !.state = state, !.budget = b])
           /\ [NoStep EXCEPT !.state = state, !.budget = b].state = state
           /\ RowHolds([NoStep EXCEPT !.state = state])
           /\ [NoStep EXCEPT !.state = state].state = state
<1>1. /\ [NoStep EXCEPT !.state = state, !.budget = b] \in StepRow
      /\ [NoStep EXCEPT !.state = state, !.budget = b].state = state
      /\ [NoStep EXCEPT !.state = state, !.budget = b].at = {}
  BY BlankRow DEF StepRow, StepState
<1>2. /\ [NoStep EXCEPT !.state = state] \in StepRow
      /\ [NoStep EXCEPT !.state = state].state = state /\ [NoStep EXCEPT !.state = state].at = {}
  BY BlankRow DEF StepRow, StepState
<1>3. \A row \in StepRow : row.state = state /\ row.at = {} => RowHolds(row)
  BY DEF RowHolds
<1>. QED  BY <1>1, <1>2, <1>3

(* A step's row is written and nothing else.                                    *)
LEMMA RowWritten ==
    ASSUME FlowShape, NEW s \in Step, NEW row, RowHolds(row), row.state # "none",
           step' = [step EXCEPT ![s] = row], UNCHANGED <<link, visit>>
    PROVE  FlowShape'
<1>1. RowsHold(step) /\ LinksHold(link, Live(step)) /\ VisitsHold(visit) /\ \A v \in visit : v.step \in Live(step)
  BY DEF FlowShape
<1>2. RowsHold(step') /\ Live(step') = Live(step) \cup {s}
  BY <1>1, StepWritten
<1>3. \A l \in link : l.from \in Live(step') /\ l.to \in Live(step') \cup {End}
  BY <1>1, <1>2 DEF LinksHold
<1>4. LinksHold(link, Live(step'))
  BY <1>1, <1>3, FewerLinks
<1>. QED  BY <1>1, <1>2, <1>4 DEF FlowShape

(* A step goes, and with it what points at it.                                  *)
LEMMA RowGone ==
    ASSUME FlowShape, NEW s \in Step, step' = [step EXCEPT ![s] = NoStep], Cascade({s})
    PROVE  FlowShape' /\ visit' \in SUBSET visit
<1>1. RowsHold(step) /\ LinksHold(link, Live(step)) /\ VisitsHold(visit) /\ \A v \in visit : v.step \in Live(step)
  BY DEF FlowShape
<1>2. RowsHold(step') /\ Live(step') = Live(step) \ {s}
  BY <1>1, StepWritten, BlankRow
<1>3. link' \in SUBSET link /\ visit' \in SUBSET visit
  BY DEF Cascade
<1>4. End \notin Step
  BY StepConstants
<1>5. \A l \in link' : l.from \in Live(step') /\ l.to \in Live(step') \cup {End}
  BY <1>1, <1>2, <1>3, <1>4 DEF Cascade, LinksHold
<1>6. LinksHold(link', Live(step'))
  BY <1>1, <1>3, <1>5, FewerLinks
<1>7. VisitsHold(visit') /\ \A v \in visit' : v.step \in Live(step')
  BY <1>1, <1>2, <1>3, FewerVisits DEF Cascade
<1>. QED  BY <1>2, <1>3, <1>6, <1>7 DEF FlowShape

(* A route is added under the cap and a free outcome.                           *)
LEMMA LinkAdded ==
    ASSUME NEW ls, NEW live, LinksHold(ls, live), NEW l \in LinkRow, l.from \in live, l.to \in live \cup {End},
           Cardinality({k \in ls : k.from = l.from}) < RoutesMax,
           \A k \in ls : k.from = l.from => k.outcome # l.outcome
    PROVE  LinksHold(ls \cup {l}, live)
<1>1. ls \in SUBSET LinkRow /\ IsFiniteSet(ls)
  BY DEF LinksHold
<1>2. IsFiniteSet(ls \cup {l}) /\ ls \cup {l} \in SUBSET LinkRow
  BY <1>1, FS_AddElement
<1>3. ASSUME NEW s \in Step PROVE Cardinality({k \in ls \cup {l} : k.from = s}) <= RoutesMax
  <2>1. CASE s # l.from
    <3>1. {k \in ls \cup {l} : k.from = s} = {k \in ls : k.from = s}
      BY <2>1
    <3>. QED  BY <3>1 DEF LinksHold
  <2>2. CASE s = l.from
    <3>1. PICK here \in SUBSET ls : here = {k \in ls : k.from = s}
      OBVIOUS
    <3>2. IsFiniteSet(here)
      BY <1>1, FS_Subset
    <3>3. {k \in ls \cup {l} : k.from = s} = here \cup {l}
      BY <2>2, <3>1
    <3>4. /\ Cardinality(here \cup {l}) = Cardinality(here) \/ Cardinality(here \cup {l}) = Cardinality(here) + 1
          /\ Cardinality(here) \in Nat
      BY <3>2, FS_AddElement, FS_CardinalityType
    <3>5. Cardinality(here) < RoutesMax /\ RoutesMax \in Nat
      BY <2>2, <3>1, PlanConstants
    <3>6. Cardinality(here \cup {l}) <= RoutesMax
      BY <3>4, <3>5, SMTT(60)
    <3>. QED  BY <3>3, <3>6
  <2>. QED  BY <2>1, <2>2
<1>4. \A j, k \in ls \cup {l} : j.from = k.from /\ j.outcome = k.outcome => j = k
  BY DEF LinksHold
<1>5. \A k \in ls \cup {l} : k.from \in live /\ k.to \in live \cup {End}
  BY DEF LinksHold
<1>. QED  BY <1>2, <1>3, <1>4, <1>5 DEF LinksHold

(* The routes of a step are finitely many.                                      *)
LEMMA RoutedCount ==
    ASSUME FlowShape, NEW s \in Step
    PROVE  IsFiniteSet(Routed(s)) /\ Cardinality(Routed(s)) \in Nat /\ Cardinality(Routed(s)) <= RoutesMax
<1>1. Routed(s) \in SUBSET link /\ IsFiniteSet(link) /\ Cardinality(Routed(s)) <= RoutesMax
  BY DEF FlowShape, LinksHold, Routed
<1>. QED  BY <1>1, FS_Subset, FS_CardinalityType

(* A step that is there is live, and one that is not is blank.                  *)
LEMMA LiveRow ==
    ASSUME FlowShape, NEW s \in Step
    PROVE  /\ RowHolds(step[s]) /\ step[s].state \in StepState \cup {"none"}
           /\ step[s] # NoStep <=> step[s].state # "none"
           /\ s \in Live(step) <=> step[s].state # "none"
           /\ step[s].budget \in Nat
<1>1. RowHolds(step[s]) /\ step[s].budget \in Nat /\ step[s].state \in StepState \cup {"none"}
  BY RowFields DEF FlowShape
<1>2. step[s].state = "none" => step[s] = NoStep
  BY <1>1 DEF RowHolds
<1>. QED  BY <1>1, <1>2, BlankRow DEF Live

(* The routes as people draw, change and delete them.                           *)
LEMMA RoutesKept ==
    ASSUME FlowShape, NEW l \in LinkRow, NEW o \in Outcome, NEW to \in Step \cup {End},
           AddRoute(l) \/ DeleteRoute(l) \/ EditRoute(l, o, to)
    PROVE  FlowShape' /\ visit' = visit
<1>1. RowsHold(step) /\ LinksHold(link, Live(step)) /\ VisitsHold(visit) /\ \A v \in visit : v.step \in Live(step)
  BY DEF FlowShape
<1>2. step' = step /\ visit' = visit
  BY DEF AddRoute, DeleteRoute, EditRoute
<1>3. LinksHold(link', Live(step)) => FlowShape'
  BY <1>1, <1>2 DEF FlowShape
<1>4. CASE AddRoute(l)
  <2>1. /\ l.from \in Live(step) /\ l.to \in Live(step) \cup {End} /\ link' = link \cup {l}
        /\ Cardinality({k \in link : k.from = l.from}) < RoutesMax
        /\ \A k \in link : k.from = l.from => k.outcome # l.outcome
    BY <1>4 DEF AddRoute, Fits, Routed
  <2>2. LinksHold(link \cup {l}, Live(step))
    BY <1>1, <2>1, LinkAdded
  <2>. QED  BY <1>2, <1>3, <2>1, <2>2
<1>5. ASSUME NEW fewer \in SUBSET link PROVE LinksHold(fewer, Live(step))
  <2>1. \A k \in fewer : k.from \in Live(step) /\ k.to \in Live(step) \cup {End}
    BY <1>1 DEF LinksHold
  <2>. QED  BY <1>1, <2>1, FewerLinks
<1>6. CASE DeleteRoute(l)
  <2>1. link' \in SUBSET link
    BY <1>6 DEF DeleteRoute
  <2>. QED  BY <1>2, <1>3, <1>5, <2>1
<1>7. CASE EditRoute(l, o, to)
  <2>1. PICK k \in LinkRow : k = [l EXCEPT !.outcome = o, !.to = to] /\ k.from = l.from /\ k.outcome = o /\ k.to = to
    <3>1. /\ [l EXCEPT !.outcome = o, !.to = to] \in LinkRow /\ [l EXCEPT !.outcome = o, !.to = to].from = l.from
          /\ [l EXCEPT !.outcome = o, !.to = to].outcome = o /\ [l EXCEPT !.outcome = o, !.to = to].to = to
      BY DEF LinkRow
    <3>. QED  BY <3>1
  <2>2. PICK rest \in SUBSET link : rest = link \ {l}
    OBVIOUS
  <2>3. LinksHold(rest, Live(step))
    BY <1>5
  <2>4. link' = rest \cup {k} /\ l \in link /\ to \in Live(step) \cup {End}
    BY <1>7, <2>1, <2>2 DEF EditRoute
  <2>5. k.from \in Live(step) /\ k.to \in Live(step) \cup {End} /\ l.from \in Step
    BY <1>1, <2>1, <2>4 DEF LinksHold, LinkRow
  <2>6. \A j \in rest : j.from = k.from => j.outcome # k.outcome
    BY <1>7, <2>1, <2>2 DEF EditRoute, Routed
  <2>7. Cardinality({j \in rest : j.from = k.from}) < RoutesMax
    <3>1. {j \in rest : j.from = k.from} = Routed(l.from) \ {l} /\ l \in Routed(l.from)
      BY <2>1, <2>2, <2>4 DEF Routed
    <3>2. /\ IsFiniteSet(Routed(l.from)) /\ Cardinality(Routed(l.from)) \in Nat
          /\ Cardinality(Routed(l.from)) <= RoutesMax
      BY <2>5, RoutedCount
    <3>3. Cardinality(Routed(l.from) \ {l}) = Cardinality(Routed(l.from)) - 1
      BY <3>1, <3>2, FS_RemoveElement
    <3>4. RoutesMax \in Nat
      BY PlanConstants
    <3>5. Cardinality(Routed(l.from) \ {l}) < RoutesMax
      BY <3>2, <3>3, <3>4, SMTT(60)
    <3>. QED  BY <3>1, <3>5
  <2>8. LinksHold(rest \cup {k}, Live(step))
    BY <2>3, <2>5, <2>6, <2>7, LinkAdded
  <2>. QED  BY <1>2, <1>3, <2>4, <2>8
<1>. QED  BY <1>4, <1>6, <1>7

(* What people do to the list keeps the shape and enters no step.               *)
LEMMA PersonHolds ==
    ASSUME FlowShape, PersonNext
    PROVE  FlowShape' /\ visit' \in SUBSET visit
<1>1. ASSUME NEW s \in Step, Add(s) PROVE FlowShape' /\ visit' \in SUBSET visit
  <2>1. step' = [step EXCEPT ![s] = [NoStep EXCEPT !.state = "draft"]]
    BY <1>1 DEF Add, FlowShape, RowsHold
  <2>2. RowHolds([NoStep EXCEPT !.state = "draft"]) /\ [NoStep EXCEPT !.state = "draft"].state = "draft"
    BY NewRow
  <2>3. FlowShape'
    BY <1>1, <2>1, <2>2, RowWritten DEF Add
  <2>. QED  BY <1>1, <2>3 DEF Add
<1>2. ASSUME NEW s \in Step, SendBack(s) PROVE FlowShape' /\ visit' \in SUBSET visit
  <2>1. RowHolds(MarkState(step[s], "open")) /\ MarkState(step[s], "open").state = "open"
    BY LiveRow, MarkedRow, SMTT(60) DEF StepState
  <2>2. step' = [step EXCEPT ![s] = MarkState(step[s], "open")]
    BY <1>2 DEF SendBack, Marked, FlowShape, RowsHold
  <2>3. FlowShape'
    BY <1>2, <2>1, <2>2, RowWritten DEF SendBack
  <2>. QED  BY <1>2, <2>3 DEF SendBack
<1>3. ASSUME NEW s \in Step, Delete(s) PROVE FlowShape' /\ visit' \in SUBSET visit
  BY <1>3, RowGone DEF Delete
<1>4. ASSUME NEW s \in Step, NEW draft \in {"keep", "yes", "no"}, NEW done \in {"keep", "yes", "no"}, Edit(s, draft, done)
      PROVE  FlowShape' /\ visit' \in SUBSET visit
  <2>1. RowHolds(step[s]) /\ step[s].state # "none"
    BY <1>4, LiveRow DEF Edit
  <2>2. PICK mid : mid = ApplyDraft(step[s], draft) /\ RowHolds(mid) /\ mid.state # "none"
    <3>1. RowHolds(ApplyDraft(step[s], draft)) /\ ApplyDraft(step[s], draft).state # "none"
      <4>1. /\ RowHolds(MarkState(step[s], "draft")) /\ MarkState(step[s], "draft").state = "draft"
            /\ RowHolds(MarkState(step[s], "open")) /\ MarkState(step[s], "open").state = "open"
        BY <2>1, MarkedRow DEF StepState
      <4>. QED  BY <2>1, <4>1 DEF ApplyDraft
    <3>. QED  BY <3>1
  <2>3. PICK row : row = ApplyDone(mid, done) /\ RowHolds(row) /\ row.state # "none"
    <3>1. RowHolds(ApplyDone(mid, done)) /\ ApplyDone(mid, done).state # "none"
      <4>1. /\ RowHolds(MarkState(mid, "done")) /\ MarkState(mid, "done").state = "done"
            /\ RowHolds(MarkState(mid, "open")) /\ MarkState(mid, "open").state = "open"
        BY <2>2, MarkedRow DEF StepState
      <4>. QED  BY <2>2, <4>1 DEF ApplyDone
    <3>. QED  BY <3>1
  <2>4. step' = [step EXCEPT ![s] = row] /\ UNCHANGED <<link, visit>>
    BY <1>4, <2>2, <2>3 DEF Edit
  <2>5. FlowShape'
    BY <2>3, <2>4, RowWritten
  <2>. QED  BY <2>4, <2>5
<1>5. ASSUME NEW s \in Step, NEW at \in 0 .. Cardinality(Step), MoveTo(s, at) PROVE FlowShape' /\ visit' \in SUBSET visit
  BY <1>5 DEF MoveTo, FlowShape
<1>6. ASSUME NEW s \in Step, NEW b \in Budgets, LimitVisits(s, b) PROVE FlowShape' /\ visit' \in SUBSET visit
  <2>1. b \in Nat
    BY StepConstants
  <2>2. step[s].state # "none" /\ RowHolds(step[s])
    BY <1>6, LiveRow DEF LimitVisits
  <2>3. RowHolds([step[s] EXCEPT !.budget = b]) /\ [step[s] EXCEPT !.budget = b].state # "none"
    BY <2>1, <2>2, Budgeted
  <2>4. step' = [step EXCEPT ![s] = [step[s] EXCEPT !.budget = b]]
    BY <1>6 DEF LimitVisits, FlowShape, RowsHold
  <2>5. FlowShape'
    BY <1>6, <2>3, <2>4, RowWritten DEF LimitVisits
  <2>. QED  BY <1>6, <2>5 DEF LimitVisits
<1>7. ASSUME Reset PROVE FlowShape' /\ visit' \in SUBSET visit
  <2>1. VisitsHold({})
    BY FewerVisits DEF FlowShape
  <2>. QED  BY <1>7, <2>1 DEF Reset, FlowShape
<1>8. \A l \in link : l \in LinkRow
  BY DEF FlowShape, LinksHold
<1>9. ASSUME NEW l \in LinkRow, AddRoute(l) \/ DeleteRoute(l) PROVE FlowShape' /\ visit' \in SUBSET visit
  <2>1. PICK o \in Outcome : TRUE
    BY PlanConstants
  <2>. QED  BY <1>9, <2>1, RoutesKept
<1>10. ASSUME NEW l \in link, NEW o \in Outcome, NEW to \in Step \cup {End}, EditRoute(l, o, to)
       PROVE  FlowShape' /\ visit' \in SUBSET visit
  BY <1>8, <1>10, RoutesKept
<1>. QED  BY <1>1, <1>2, <1>3, <1>4, <1>5, <1>6, <1>7, <1>9, <1>10, ZenonT(60) DEF PersonNext

-----------------------------------------------------------------------------
(* What sessions do.                                                            *)
WithinReach == \A s \in Step : ~NotForSessions(s)

(* A move that enters no step overspends no budget and arrives nowhere.         *)
LEMMA NoArrival ==
    ASSUME FlowShape, visit' \in SUBSET visit
    PROVE  BudgetHolds /\ ArrivesAtWork
<1>1. VisitsHold(visit)
  BY DEF FlowShape
<1>2. ASSUME NEW s \in Step PROVE ~(Entered(visit', s) > Entered(visit, s))
  <2>1. Entered(visit', s) <= Entered(visit, s) /\ VisitsHold(visit')
    BY <1>1, FewerVisits
  <2>2. Entered(visit', s) \in Nat /\ Entered(visit, s) \in Nat
    BY <1>1, <2>1, EnteredIsCount
  <2>. QED  BY <2>1, <2>2, SMTT(60)
<1>. QED  BY <1>2 DEF BudgetHolds, ArrivesAtWork

(* A step that a session writes, drops or lays: what it may not do, it does not. *)
LEMMA SessionRows ==
    ASSUME FlowShape, NEW s \in Step, NEW ready \in BOOLEAN, NEW target \in {"open", "running", "claimed"},
           Remove(s) \/ MarkRunning(s) \/ ReleaseRunning(s) \/ Propose(s, ready) \/ Move(s, target)
    PROVE  FlowShape' /\ WithinReach /\ visit' \in SUBSET visit
<1>0. step \in [Step -> StepRow]
  BY DEF FlowShape, RowsHold
<1>1. RowHolds(step[s]) /\ step[s].state \in StepState \cup {"none"}
  BY LiveRow
<1>2. ASSUME NEW row, RowHolds(row), step' = [step EXCEPT ![s] = row],
             step[s].state = "draft" => row.state \in {"draft", "none"},
             step[s].state # "done", row.state # "done",
             step[s].state \in {"running", "claimed"} => row.state # "none"
      PROVE  WithinReach
  <2>1. \A q \in Step : step'[q] = IF q = s THEN row ELSE step[q]
    BY <1>0, <1>2
  <2>2. ASSUME NEW q \in Step, q # s PROVE ~NotForSessions(q)
    <3>1. step'[q].state = step[q].state
      BY <2>1, <2>2
    <3>. QED  BY <3>1 DEF NotForSessions
  <2>3. ~NotForSessions(s)
    <3>1. step'[s].state = row.state
      BY <2>1
    <3>. QED  BY <1>2, <3>1 DEF NotForSessions
  <2>. QED  BY <2>2, <2>3 DEF WithinReach
<1>3. CASE Remove(s)
  <2>1. step[s].state \in {"draft", "open"} /\ step' = [step EXCEPT ![s] = NoStep] /\ Cascade({s})
    BY <1>3 DEF Remove, Unstarted, InState
  <2>2. WithinReach
    BY <1>2, <2>1, BlankRow
  <2>. QED  BY <2>1, <2>2, RowGone
<1>4. CASE Propose(s, ready)
  <2>1. PICK state \in {"draft", "open"} : step' = [step EXCEPT ![s] = [NoStep EXCEPT !.state = state]]
    BY <1>4 DEF Propose
  <2>2. RowHolds([NoStep EXCEPT !.state = state]) /\ [NoStep EXCEPT !.state = state].state = state
    BY NewRow
  <2>3. step[s].state = "none" /\ UNCHANGED <<link, visit>>
    BY <1>4, BlankRow DEF Propose
  <2>4. PICK row : row = [NoStep EXCEPT !.state = state] /\ RowHolds(row) /\ row.state = state
    BY <2>2
  <2>5. step' = [step EXCEPT ![s] = row] /\ row.state # "none" /\ row.state # "done"
    BY <2>1, <2>4
  <2>6. WithinReach
    BY <1>2, <2>3, <2>4, <2>5
  <2>7. FlowShape'
    BY <2>3, <2>4, <2>5, RowWritten
  <2>. QED  BY <2>3, <2>6, <2>7
<1>5. ASSUME NEW next \in {"open", "running", "claimed"}, step' = Marked(s, next), UNCHANGED <<link, visit>>,
             step[s].state \in {"open", "running", "claimed"}
      PROVE  FlowShape' /\ WithinReach /\ visit' \in SUBSET visit
  <2>1. PICK row : row = MarkState(step[s], next) /\ RowHolds(row) /\ row.state = next
    <3>1. RowHolds(MarkState(step[s], next)) /\ MarkState(step[s], next).state = next
      BY <1>1, MarkedRow, SMTT(60) DEF StepState
    <3>. QED  BY <3>1
  <2>2. step' = [step EXCEPT ![s] = row]
    BY <1>0, <1>5, <2>1 DEF Marked
  <2>3. WithinReach
    BY <1>2, <1>5, <2>1, <2>2
  <2>4. FlowShape'
    BY <1>5, <2>1, <2>2, RowWritten
  <2>. QED  BY <1>5, <2>3, <2>4
<1>6. CASE MarkRunning(s)
  BY <1>5, <1>6 DEF MarkRunning
<1>7. CASE ReleaseRunning(s)
  BY <1>5, <1>7 DEF ReleaseRunning
<1>8. CASE Move(s, target)
  <2>1. step[s].state \in {"open", "running", "claimed"}
    BY <1>1, <1>8 DEF Move, Movable, StepState
  <2>. QED  BY <1>5, <1>8, <2>1 DEF Move
<1>. QED  BY <1>3, <1>4, <1>6, <1>7, <1>8

(* Rows, links and visits after a move of the flow that adds and drops no step. *)
LEMMA MoveShape ==
    ASSUME FlowShape, RowsHold(step'), Live(step') = Live(step), link' = link,
           VisitsHold(visit'), \A v \in visit' : v.step \in Live(step)
    PROVE  FlowShape'
BY DEF FlowShape

(* The visits of a step within its budget: entered at most once more, and only  *)
(* where the budget allows it.                                                   *)
LEMMA BudgetKept ==
    ASSUME FlowShape, NEW s \in Step, NEW n \in Nat, Admits(visit, s),
           n = IF StandsOn(visit, s) THEN Entered(visit, s) ELSE Entered(visit, s) + 1
    PROVE  n > Entered(visit, s) => step[s].budget = 0 \/ n <= step[s].budget
<1>1. Entered(visit, s) \in Nat /\ step[s].budget \in Nat
  BY EnteredIsCount, LiveRow DEF FlowShape
<1>. QED  BY <1>1, SMTT(60) DEF Admits

(* A step started or finished on a flow.                                         *)
LEMMA FlowMoves ==
    ASSUME FlowShape, NEW s \in Step, StartFlow(s) \/ ClaimEnds(s)
    PROVE  FlowShape' /\ WithinReach /\ BudgetHolds /\ ArrivesAtWork
<1>1. RowsHold(step) /\ VisitsHold(visit) /\ \A v \in visit : v.step \in Live(step)
  BY DEF FlowShape
<1>2. step[s].state \in {"open", "running", "claimed"} /\ s \in Live(step) /\ RowHolds(step[s])
  BY LiveRow DEF StartFlow, ClaimEnds, Movable, StepState
<1>3. Admits(visit, s) /\ link' = link
  BY DEF StartFlow, ClaimEnds
<1>4. PICK next \in {"running", "claimed"} :
          /\ step' = Marked(s, next)
          /\ \/ next = "running" /\ visit' = EnterIn(visit, s)
             \/ next = "claimed" /\ visit' = LeaveIn(visit, s)
  <2>1. CASE StartFlow(s)
    BY <2>1 DEF StartFlow
  <2>2. CASE ClaimEnds(s)
    BY <2>2 DEF ClaimEnds
  <2>. QED  BY <2>1, <2>2
<1>5. PICK row : row = MarkState(step[s], next) /\ RowHolds(row) /\ row.state = next
  <2>1. RowHolds(MarkState(step[s], next)) /\ MarkState(step[s], next).state = next
    BY <1>2, MarkedRow, SMTT(60) DEF StepState
  <2>. QED  BY <2>1
<1>6. step' = [step EXCEPT ![s] = row]
  BY <1>1, <1>4, <1>5 DEF Marked, RowsHold
<1>7. RowsHold(step') /\ Live(step') = Live(step) /\ \A q \in Step : step'[q] = IF q = s THEN row ELSE step[q]
  <2>1. RowsHold(step') /\ Live(step') = Live(step) \cup {s} /\ \A q \in Step : step'[q] = IF q = s THEN row ELSE step[q]
    <3>1. row.state # "none"
      BY <1>5
    <3>2. RowsHold(step) /\ RowHolds(row)
      BY <1>1, <1>5
    <3>. QED  BY <1>6, <3>1, <3>2, StepWritten, ZenonT(60)
  <2>. QED  BY <1>2, <2>1
<1>8. /\ VisitsHold(visit')
      /\ \A v \in visit' : v.step = s \/ \E w \in visit : v.step = w.step
      /\ \A q \in Step : q # s => Entered(visit', q) = Entered(visit, q)
      /\ Entered(visit', s) = IF StandsOn(visit, s) THEN Entered(visit, s) ELSE Entered(visit, s) + 1
      /\ \A v \in visit' : v.open => next = "running" /\ v.step = s
  <2>1. CASE next = "running" /\ visit' = EnterIn(visit, s)
    BY <1>1, <2>1, EntersIt, SMTT(60)
  <2>2. CASE next = "claimed" /\ visit' = LeaveIn(visit, s)
    BY <1>1, <2>2, LeavesIt, SMTT(60)
  <2>. QED  BY <1>4, <2>1, <2>2
<1>9. FlowShape'
  <2>1. \A v \in visit' : v.step \in Live(step)
    BY <1>1, <1>2, <1>8
  <2>. QED  BY <1>3, <1>7, <1>8, <2>1, MoveShape
<1>10. WithinReach
  <2>1. ASSUME NEW q \in Step, q # s PROVE ~NotForSessions(q)
    <3>1. step'[q].state = step[q].state
      BY <1>7, <2>1
    <3>. QED  BY <3>1 DEF NotForSessions
  <2>2. ~NotForSessions(s)
    <3>1. step'[s].state = next
      BY <1>5, <1>7
    <3>. QED  BY <1>2, <3>1 DEF NotForSessions
  <2>. QED  BY <2>1, <2>2 DEF WithinReach
<1>11. BudgetHolds
  <2>1. Entered(visit', s) \in Nat
    BY <1>8, EnteredIsCount
  <2>2. Entered(visit', s) > Entered(visit, s) => step[s].budget = 0 \/ Entered(visit', s) <= step[s].budget
    BY <1>3, <1>8, <2>1, BudgetKept
  <2>3. ASSUME NEW q \in Step, q # s PROVE ~(Entered(visit', q) > Entered(visit, q))
    <3>1. Entered(visit', q) = Entered(visit, q) /\ Entered(visit, q) \in Nat
      BY <1>1, <1>8, <2>3, EnteredIsCount
    <3>. QED  BY <3>1, SMTT(60)
  <2>. QED  BY <2>2, <2>3 DEF BudgetHolds
<1>12. ArrivesAtWork
  BY <1>5, <1>7, <1>8 DEF ArrivesAtWork
<1>. QED  BY <1>9, <1>10, <1>11, <1>12

(* The rows after a claim that a route leads on from: the step claimed, the one  *)
(* it leads to open or running, the others as they were.                         *)
LEMMA FollowedRows ==
    ASSUME FlowShape, NEW s \in Step, NEW to \in Step, step[s].state \in {"open", "running", "claimed"},
           to \in Live(step), step[to].state # "draft", step' = Arrived(Marked(s, "claimed"), to)
    PROVE  /\ RowsHold(step') /\ Live(step') = Live(step)
           /\ step'[to].state \in {"open", "running"}
           /\ s # to => step'[s].state = "claimed"
           /\ \A q \in Step : q # s /\ q # to => step'[q] = step[q]
<1>1. RowsHold(step) /\ RowHolds(step[s]) /\ s \in Live(step)
  BY LiveRow DEF FlowShape
<1>2. PICK st : st = Marked(s, "claimed")
  OBVIOUS
<1>3. /\ RowsHold(st) /\ Live(st) = Live(step) /\ st[s].state = "claimed"
      /\ \A q \in Step : q # s => st[q] = step[q]
  <2>1. PICK row : row = MarkState(step[s], "claimed") /\ RowHolds(row) /\ row.state = "claimed"
    <3>1. RowHolds(MarkState(step[s], "claimed")) /\ MarkState(step[s], "claimed").state = "claimed"
      BY <1>1, MarkedRow DEF StepState
    <3>. QED  BY <3>1
  <2>2. st = [step EXCEPT ![s] = row]
    BY <1>1, <1>2, <2>1 DEF Marked, RowsHold
  <2>3. /\ RowsHold(st) /\ \A q \in Step : st[q] = IF q = s THEN row ELSE step[q]
        /\ Live(st) = Live(step) \cup {s}
    <3>1. RowsHold(step) /\ RowHolds(row) /\ row.state # "none"
      BY <1>1, <2>1
    <3>2. /\ RowsHold([step EXCEPT ![s] = row])
          /\ \A q \in Step : [step EXCEPT ![s] = row][q] = IF q = s THEN row ELSE step[q]
          /\ Live([step EXCEPT ![s] = row]) = Live(step) \cup {s}
      BY <3>1, OneRow
    <3>. QED  BY <2>2, <3>2
  <2>. QED  BY <1>1, <2>1, <2>3
<1>4. CASE st[to].state \in Complete
  <2>1. PICK row : row = MarkState(st[to], "open") /\ RowHolds(row) /\ row.state = "open"
    <3>1. RowHolds(MarkState(st[to], "open")) /\ MarkState(st[to], "open").state = "open"
      BY <1>3, RowFields, MarkedRow DEF StepState
    <3>. QED  BY <3>1
  <2>2. PICK then : then = [st EXCEPT ![to] = row]
    OBVIOUS
  <2>3. step' = then
    BY <1>2, <1>3, <1>4, <2>1, <2>2 DEF Arrived, RowsHold
  <2>4. /\ RowsHold(then) /\ \A q \in Step : then[q] = IF q = to THEN row ELSE st[q]
        /\ Live(then) = Live(st) \cup {to}
    <3>1. RowsHold(st) /\ RowHolds(row) /\ row.state # "none"
      BY <1>3, <2>1
    <3>2. /\ RowsHold([st EXCEPT ![to] = row])
          /\ \A q \in Step : [st EXCEPT ![to] = row][q] = IF q = to THEN row ELSE st[q]
          /\ Live([st EXCEPT ![to] = row]) = Live(st) \cup {to}
      BY <3>1, OneRow
    <3>. QED  BY <2>2, <3>2
  <2>. QED  BY <1>3, <2>1, <2>3, <2>4
<1>5. CASE st[to].state \notin Complete
  <2>1. step' = st
    BY <1>2, <1>5 DEF Arrived
  <2>2. s # to /\ step[to].state \in StepState
    BY <1>3, <1>5, LiveRow DEF Complete
  <2>3. st[to].state \in {"open", "running"}
    BY <1>3, <1>5, <2>2 DEF Complete, StepState
  <2>. QED  BY <1>3, <2>1, <2>3
<1>. QED  BY <1>4, <1>5

(* A claim that a route leads on from.                                           *)
LEMMA FlowFollows ==
    ASSUME FlowShape, NEW s \in Step, NEW l \in link, ClaimFollows(s, l)
    PROVE  FlowShape' /\ WithinReach /\ BudgetHolds /\ ArrivesAtWork
<1>1. RowsHold(step) /\ VisitsHold(visit) /\ \A v \in visit : v.step \in Live(step)
  BY DEF FlowShape
<1>2. step[s].state \in {"open", "running", "claimed"} /\ s \in Live(step) /\ RowHolds(step[s])
  BY LiveRow DEF ClaimFollows, Movable, StepState
<1>3. PICK to \in Step : to = l.to /\ to \in Live(step) /\ step[to].state # "draft"
  <2>1. l.to \in Live(step) /\ step[l.to].state # "draft"
    BY DEF FlowShape, LinksHold, ClaimFollows
  <2>. QED  BY <2>1 DEF Live
<1>4. PICK mid : mid = LeaveIn(visit, s)
  OBVIOUS
<1>5. /\ Admits(visit, s) /\ Admits(mid, to) /\ link' = link
      /\ step' = Arrived(Marked(s, "claimed"), to) /\ visit' = EnterIn(mid, to)
  BY <1>3, <1>4 DEF ClaimFollows
<1>6. /\ RowsHold(step') /\ Live(step') = Live(step)
      /\ step'[to].state \in {"open", "running"} /\ (s # to => step'[s].state = "claimed")
      /\ \A q \in Step : q # s /\ q # to => step'[q] = step[q]
  BY <1>2, <1>3, <1>5, FollowedRows, SMTT(60)
<1>7. /\ VisitsHold(mid) /\ \A v \in mid : ~v.open
      /\ \A v \in mid : v.step = s \/ \E w \in visit : v.step = w.step
      /\ \A q \in Step : q # s => Entered(mid, q) = Entered(visit, q)
      /\ Entered(mid, s) = IF StandsOn(visit, s) THEN Entered(visit, s) ELSE Entered(visit, s) + 1
  BY <1>1, <1>4, LeavesIt, SMTT(60)
<1>8. ~StandsOn(mid, to)
  BY <1>7 DEF StandsOn, FindOpen
<1>9. /\ VisitsHold(visit') /\ \A v \in visit' : v.open => v.step = to
      /\ \E v \in visit' : v.open /\ v.step = to
      /\ \A v \in visit' : v.step = to \/ \E w \in mid : v.step = w.step
      /\ \A q \in Step : q # to => Entered(visit', q) = Entered(mid, q)
      /\ Entered(visit', to) = Entered(mid, to) + 1
  BY <1>5, <1>7, <1>8, EntersIt, SMTT(60)
<1>10. FlowShape'
  <2>1. \A v \in visit' : v.step \in Live(step)
    BY <1>1, <1>2, <1>3, <1>7, <1>9, SMTT(60)
  <2>. QED  BY <1>5, <1>6, <1>9, <2>1, MoveShape
<1>11. WithinReach
  <2>1. ASSUME NEW q \in Step, q # s, q # to PROVE ~NotForSessions(q)
    <3>1. step'[q].state = step[q].state
      BY <1>6, <2>1
    <3>. QED  BY <3>1 DEF NotForSessions
  <2>2. s # to => ~NotForSessions(s)
    BY <1>2, <1>6 DEF NotForSessions
  <2>3. ~NotForSessions(to)
    BY <1>3, <1>6, <1>9 DEF NotForSessions
  <2>. QED  BY <2>1, <2>2, <2>3 DEF WithinReach
<1>12. BudgetHolds
  <2>1. ASSUME NEW q \in Step
        PROVE  /\ Entered(visit, q) \in Nat /\ Entered(mid, q) \in Nat /\ Entered(visit', q) \in Nat
               /\ step[q].budget \in Nat
    BY <1>1, <1>7, <1>9, EnteredIsCount, LiveRow
  <2>2. step[to].budget = 0 \/ Entered(visit', to) <= step[to].budget
    BY <1>5, <1>8, <1>9, <2>1, SMTT(60) DEF Admits
  <2>3. s # to /\ Entered(visit', s) > Entered(visit, s) => step[s].budget = 0 \/ Entered(visit', s) <= step[s].budget
    <3>1. Entered(mid, s) > Entered(visit, s) => step[s].budget = 0 \/ Entered(mid, s) <= step[s].budget
      BY <1>5, <1>7, <2>1, BudgetKept
    <3>. QED  BY <1>9, <3>1
  <2>4. ASSUME NEW q \in Step, q # s, q # to PROVE ~(Entered(visit', q) > Entered(visit, q))
    BY <1>7, <1>9, <2>1, <2>4, SMTT(60)
  <2>. QED  BY <2>2, <2>3, <2>4 DEF BudgetHolds
<1>13. ArrivesAtWork
  BY <1>6, <1>9 DEF ArrivesAtWork
<1>. QED  BY <1>10, <1>11, <1>12, <1>13

-----------------------------------------------------------------------------
(* A plan laid down whole.                                                       *)

(* The rows behind a plan: those kept as they were, the plan's new, no others.   *)
LEMMA LaidRows ==
    ASSUME FlowShape, NEW plan \in Plans, CheckShape(plan), NEW ids \in Fresh(plan), NEW ready \in BOOLEAN,
           NEW ln, NEW kept \in SUBSET Live(step),
           \A s \in Step \ kept : step[s].state \notin {"running", "claimed", "done"},
           Lay(ln, kept, plan, ids, ready)
    PROVE  RowsHold(step') /\ WithinReach /\ Live(step') = kept \cup {ids[k] : k \in 1 .. Len(plan.steps)}
<1>0. PICK n \in Nat : /\ n = Len(plan.steps) /\ plan.budgets \in [1 .. n -> Nat]
                      /\ ids \in [1 .. n -> Step \ Live(step)]
  BY StepConstants DEF FlowPlan, Fresh
<1>10. PICK state \in {"draft", "open"} : state = IF ready THEN "open" ELSE "draft"
  OBVIOUS
<1>11. PICK budgets \in [1 .. n -> Nat] : budgets = plan.budgets
  BY <1>0
<1>12. step' = [s \in Step |->
                  IF \E k \in 1 .. n : ids[k] = s
                  THEN [NoStep EXCEPT !.state = state, !.budget = budgets[CHOOSE k \in 1 .. n : ids[k] = s]]
                  ELSE IF s \in kept THEN step[s] ELSE NoStep]
  BY <1>0, <1>10, <1>11 DEF Lay
<1>. DEFINE made == {ids[k] : k \in 1 .. n}
<1>1. \A s \in Step : s \in made <=> \E k \in 1 .. n : ids[k] = s
  OBVIOUS
<1>2. made \in SUBSET Step /\ made \cap Live(step) = {}
  BY <1>0
<1>3. ASSUME NEW s \in made PROVE RowHolds(step'[s]) /\ step'[s].state = state /\ step[s].state = "none" /\ s \in Step
  <2>1. s \in Step /\ \E k \in 1 .. n : ids[k] = s
    BY <1>1, <1>2
  <2>2. PICK b \in Nat : b = budgets[CHOOSE k \in 1 .. n : ids[k] = s]
    BY <2>1
  <2>3. step'[s] = [NoStep EXCEPT !.state = state, !.budget = b]
    BY <1>12, <2>1, <2>2
  <2>4. step[s].state = "none"
    BY <1>2, <2>1 DEF Live
  <2>5. /\ RowHolds([NoStep EXCEPT !.state = state, !.budget = b])
        /\ [NoStep EXCEPT !.state = state, !.budget = b].state = state
    BY NewRow
  <2>. QED  BY <2>1, <2>3, <2>4, <2>5
<1>4. ASSUME NEW s \in Step, s \notin made
      PROVE  step'[s] = (IF s \in kept THEN step[s] ELSE NoStep) /\ RowHolds(step'[s])
  <2>1. step'[s] = IF s \in kept THEN step[s] ELSE NoStep
    BY <1>1, <1>4, <1>12
  <2>. QED  BY <2>1, LiveRow, BlankRow
<1>. HIDE DEF made
<1>5. RowsHold(step')
  <2>1. \A s \in Step : RowHolds(step'[s])
    BY <1>3, <1>4
  <2>2. \A s \in Step : step'[s] \in StepRow
    BY <2>1 DEF RowHolds
  <2>3. step' = [s \in Step |-> step'[s]]
    BY <1>12
  <2>4. step' \in [Step -> StepRow]
    BY <2>2, <2>3
  <2>. QED  BY <2>1, <2>4 DEF RowsHold
<1>6. Live(step') = kept \cup made
  <2>1. \A s \in Step : s \in made => step'[s].state # "none"
    BY <1>3
  <2>2. \A s \in Step : s \notin made /\ s \in kept => step'[s].state # "none"
    BY <1>4 DEF Live
  <2>3. \A s \in Step : s \notin made /\ s \notin kept => step'[s].state = "none"
    BY <1>4, BlankRow
  <2>4. kept \in SUBSET Step
    BY DEF Live
  <2>. QED  BY <1>2, <2>1, <2>2, <2>3, <2>4 DEF Live
<1>7. WithinReach
  <2>1. ASSUME NEW s \in Step PROVE ~NotForSessions(s)
    <3>1. CASE s \in made
      BY <1>3, <3>1 DEF NotForSessions
    <3>2. CASE s \notin made /\ s \in kept
      <4>1. step'[s].state = step[s].state
        BY <1>4, <3>2
      <4>. QED  BY <4>1 DEF NotForSessions
    <3>3. CASE s \notin made /\ s \notin kept
      <4>1. step'[s].state = "none" /\ step[s].state \notin {"running", "claimed", "done"}
        BY <1>4, <3>3, BlankRow
      <4>. QED  BY <4>1 DEF NotForSessions
    <3>. QED  BY <3>1, <3>2, <3>3
  <2>. QED  BY <2>1 DEF WithinReach
<1>. QED  BY <1>0, <1>5, <1>6, <1>7 DEF made

(* The routes behind a plan: the kept steps' own, and the plan's between its     *)
(* steps, one per outcome and within the cap.                                    *)
LEMMA LaidLinks ==
    ASSUME FlowShape, NEW plan \in Plans, CheckShape(plan), NEW ids \in Fresh(plan), NEW ready \in BOOLEAN,
           NEW ln, NEW kept \in SUBSET Live(step),
           \A s \in Step \ kept : step[s].state \notin {"running", "claimed", "done"},
           Lay(ln, kept, plan, ids, ready)
    PROVE  LinksHold(link', kept \cup {ids[k] : k \in 1 .. Len(plan.steps)})
<1>0. PICK n \in Nat : /\ n = Len(plan.steps) /\ FlowPlan(plan) /\ ids \in [1 .. n -> Step \ Live(step)]
                      /\ \A c, d \in 1 .. n : ids[c] = ids[d] => c = d
  BY StepConstants DEF FlowPlan, Fresh
<1>16. link' = {l \in link : {l.from, l.to} \subseteq kept \cup {End}} \cup
                  {[from |-> ids[r.from], outcome |-> r.outcome,
                    to |-> IF r.to = 0 THEN End ELSE ids[r.to]] : r \in plan.routes}
  BY DEF Lay
<1>. DEFINE made == {ids[k] : k \in 1 .. n}
            lay(r) == [from |-> ids[r.from], outcome |-> r.outcome, to |-> IF r.to = 0 THEN End ELSE ids[r.to]]
<1>1. /\ DOMAIN plan.steps = 1 .. n /\ plan.routes \in SUBSET PlannedRoute(n) /\ IsFiniteSet(plan.routes)
      /\ \A k \in 1 .. n : RequireRoutesFit(plan, k)
  BY <1>0 DEF FlowPlan, CheckShape
<1>2. /\ made \in SUBSET Step /\ made \cap Live(step) = {} /\ \A k \in 1 .. n : ids[k] \in made
      /\ kept \in SUBSET Step /\ End \notin Step
  BY <1>0, StepConstants, SMTT(60) DEF Live
<1>3. PICK old \in SUBSET link : old = {l \in link : {l.from, l.to} \subseteq kept \cup {End}}
  OBVIOUS
<1>4. LinksHold(old, kept)
  <2>1. LinksHold(link, Live(step))
    BY DEF FlowShape
  <2>2. \A l \in old : l.from \in Step
    BY <2>1 DEF LinksHold, LinkRow
  <2>3. \A l \in old : l.from \in kept /\ l.to \in kept \cup {End}
    BY <1>2, <1>3, <2>2
  <2>. QED  BY <2>1, <2>3, FewerLinks
<1>5. ASSUME NEW r \in plan.routes
      PROVE  /\ r.from \in 1 .. n /\ lay(r) \in LinkRow /\ lay(r).from = ids[r.from] /\ lay(r).outcome = r.outcome
             /\ lay(r).from \in made /\ lay(r).to \in made \cup {End}
  <2>1. r.from \in 1 .. n /\ r.outcome \in Outcome /\ r.to \in Nat
    BY <1>1 DEF PlannedRoute
  <2>2. r.to <= n
    BY <1>0, <1>1, <2>1 DEF RequireRoutesFit, Routes
  <2>3. ids[r.from] \in made /\ (r.to # 0 => ids[r.to] \in made)
    BY <1>2, <2>1, <2>2, SMTT(60)
  <2>. QED  BY <1>2, <2>1, <2>3 DEF LinkRow
<1>6. PICK new : new = {lay(r) : r \in plan.routes}
  OBVIOUS
<1>7. link' = old \cup new
  BY <1>3, <1>6, <1>16
<1>8. /\ \A l \in new : \E r \in plan.routes : l = lay(r)
      /\ \A r \in plan.routes : lay(r) \in new
  BY <1>6
<1>. HIDE DEF made, lay
<1>9. new \in SUBSET LinkRow /\ \A l \in new : l.from \in made /\ l.to \in made \cup {End}
  BY <1>5, <1>8
<1>10. ASSUME NEW some \in SUBSET plan.routes, NEW laid \in SUBSET new,
              \A r \in some : lay(r) \in laid, \A l \in laid : \E r \in some : l = lay(r)
       PROVE  IsFiniteSet(laid) /\ Cardinality(laid) <= Cardinality(some) /\ IsFiniteSet(some)
  <2>1. IsFiniteSet(some)
    BY <1>1, FS_Subset
  <2>2. PICK f : f = [r \in some |-> lay(r)]
    OBVIOUS
  <2>3. DOMAIN f = some /\ f \in [some -> laid] /\ \A l \in laid : \E r \in some : f[r] = l
    BY <1>10, <2>2
  <2>. QED  BY <2>1, <2>3, Covered, SMTT(60)
<1>11. IsFiniteSet(old \cup new)
  <2>1. IsFiniteSet(new)
    BY <1>8, <1>10
  <2>2. IsFiniteSet(old)
    BY <1>4 DEF LinksHold
  <2>. QED  BY <2>1, <2>2, FS_Union
<1>12. \A l, k \in old \cup new : l.from = k.from /\ l.outcome = k.outcome => l = k
  <2>1. \A l \in old, k \in new : l.from # k.from
    BY <1>2, <1>4, <1>9 DEF LinksHold
  <2>2. ASSUME NEW l \in new, NEW k \in new, l.from = k.from, l.outcome = k.outcome PROVE l = k
    <3>1. PICK r \in plan.routes : l = lay(r)
      BY <1>8
    <3>2. PICK q \in plan.routes : k = lay(q)
      BY <1>8
    <3>3. r.from \in 1 .. n /\ q.from \in 1 .. n /\ ids[r.from] = ids[q.from] /\ r.outcome = q.outcome
      BY <1>5, <2>2, <3>1, <3>2
    <3>4. r.from = q.from
      BY <1>0, <3>3
    <3>5. r = q
      BY <1>1, <3>3, <3>4 DEF RequireRoutesFit, Routes
    <3>. QED  BY <3>1, <3>2, <3>5
  <2>3. \A l, k \in old : l.from = k.from /\ l.outcome = k.outcome => l = k
    BY <1>4 DEF LinksHold
  <2>. QED  BY <2>1, <2>2, <2>3
<1>13. ASSUME NEW s \in Step PROVE Cardinality({l \in old \cup new : l.from = s}) <= RoutesMax
  <2>1. CASE s \notin made
    <3>1. {l \in old \cup new : l.from = s} = {l \in old : l.from = s}
      BY <1>9, <2>1
    <3>. QED  BY <1>4, <3>1 DEF LinksHold
  <2>2. CASE s \in made
    <3>1. PICK k \in 1 .. n : ids[k] = s
      BY <2>2 DEF made
    <3>2. \A l \in old : l.from # s
      BY <1>2, <1>4, <2>2 DEF LinksHold
    <3>3. PICK laid \in SUBSET new : laid = {l \in new : l.from = s}
      OBVIOUS
    <3>4. {l \in old \cup new : l.from = s} = laid
      BY <3>2, <3>3
    <3>5. PICK some \in SUBSET plan.routes : some = Routes(plan, k)
      BY DEF Routes
    <3>6. \A r \in some : lay(r) \in laid
      BY <1>5, <1>8, <3>1, <3>3, <3>5 DEF Routes
    <3>7. ASSUME NEW l \in laid PROVE \E r \in some : l = lay(r)
      <4>1. PICK r \in plan.routes : l = lay(r)
        BY <1>8
      <4>2. ids[r.from] = ids[k] /\ r.from \in 1 .. n
        BY <1>5, <3>1, <3>3, <4>1
      <4>3. r.from = k
        BY <1>0, <4>2
      <4>. QED  BY <3>5, <4>1, <4>3 DEF Routes
    <3>8. IsFiniteSet(laid) /\ Cardinality(laid) <= Cardinality(some) /\ IsFiniteSet(some)
      BY <1>10, <3>6, <3>7
    <3>9. Cardinality(laid) \in Nat /\ Cardinality(some) \in Nat
      BY <3>8, FS_CardinalityType
    <3>10. Cardinality(some) <= RoutesMax /\ RoutesMax \in Nat
      BY <1>1, <3>5, PlanConstants DEF RequireRoutesFit
    <3>11. Cardinality(laid) <= RoutesMax
      BY <3>8, <3>9, <3>10, SMTT(60)
    <3>. QED  BY <3>4, <3>11
  <2>. QED  BY <2>1, <2>2
<1>14. old \cup new \in SUBSET LinkRow /\ \A l \in old \cup new : l.from \in kept \cup made /\ l.to \in kept \cup made \cup {End}
  BY <1>4, <1>9 DEF LinksHold
<1>15. LinksHold(old \cup new, kept \cup made)
  BY <1>11, <1>12, <1>13, <1>14 DEF LinksHold
<1>. QED  BY <1>0, <1>7, <1>15 DEF made

(* Laying a plan behind steps that stay, when no started work is dropped.        *)
LEMMA LayHolds ==
    ASSUME FlowShape, NEW plan \in Plans, CheckShape(plan), NEW ids \in Fresh(plan), NEW ready \in BOOLEAN,
           NEW ln, NEW kept \in SUBSET Live(step),
           \A s \in Step \ kept : step[s].state \notin {"running", "claimed", "done"},
           Lay(ln, kept, plan, ids, ready)
    PROVE  FlowShape' /\ WithinReach /\ visit' \in SUBSET visit
<1>1. RowsHold(step') /\ WithinReach /\ Live(step') = kept \cup {ids[k] : k \in 1 .. Len(plan.steps)}
  BY LaidRows, ZenonT(60)
<1>2. LinksHold(link', kept \cup {ids[k] : k \in 1 .. Len(plan.steps)})
  BY LaidLinks
<1>3. VisitsHold(visit') /\ visit' \in SUBSET visit /\ \A v \in visit' : v.step \in Live(step')
  <2>1. visit' \in SUBSET visit /\ \A v \in visit' : v.step \in kept
    BY DEF Lay
  <2>2. VisitsHold(visit')
    BY <2>1, FewerVisits DEF FlowShape
  <2>. QED  BY <1>1, <2>1, <2>2
<1>. QED  BY <1>1, <1>2, <1>3 DEF FlowShape

(* The plans of sessions: proposed onto an empty task, or put in place of what   *)
(* nobody started.                                                               *)
LEMMA PlansHold ==
    ASSUME FlowShape, NEW plan \in Plans, NEW ready \in BOOLEAN, ProposeFlow(plan, ready) \/ Replan(plan, ready)
    PROVE  FlowShape' /\ WithinReach /\ visit' \in SUBSET visit
<1>1. ASSUME NEW s \in Step \ Live(step) PROVE step[s].state = "none"
  BY DEF Live
<1>2. CASE ProposeFlow(plan, ready)
  <2>1. CheckShape(plan) /\ Live(step) = {}
    BY <1>2 DEF ProposeFlow, SoundFlows, Check
  <2>2. PICK ids \in Fresh(plan) : Lay(<<>>, {}, plan, ids, ready)
    BY <1>2 DEF ProposeFlow
  <2>3. \A s \in Step \ {} : step[s].state \notin {"running", "claimed", "done"}
    BY <1>1, <2>1
  <2>4. {} \in SUBSET Live(step)
    OBVIOUS
  <2>. QED  BY <2>1, <2>2, <2>3, <2>4, LayHolds
<1>3. CASE Replan(plan, ready)
  <2>1. PICK kept \in SUBSET Live(step) : kept = Live(step) \ Unstarted
    OBVIOUS
  <2>2. CheckShape(plan)
    BY <1>3 DEF Replan, SoundPlans, CheckAsWritten, Check
  <2>3. PICK ids \in Fresh(plan) : \E ln : Lay(ln, kept, plan, ids, ready)
    BY <1>3, <2>1 DEF Replan
  <2>4. ASSUME NEW s \in Step \ kept PROVE step[s].state \notin {"running", "claimed", "done"}
    <3>1. s \in Step \ Live(step) \/ s \in Unstarted
      BY <2>1
    <3>. QED  BY <1>1, <3>1 DEF Unstarted, InState
  <2>. QED  BY <2>2, <2>3, <2>4, LayHolds
<1>. QED  BY <1>2, <1>3

(* What sessions do keeps the shape and all three bounds on a move.              *)
LEMMA SessionHolds ==
    ASSUME FlowShape, SessionNext
    PROVE  FlowShape' /\ WithinReach /\ BudgetHolds /\ ArrivesAtWork
<1>1. ASSUME NEW s \in Step, NEW ready \in BOOLEAN, NEW target \in {"open", "running", "claimed"},
             Remove(s) \/ MarkRunning(s) \/ ReleaseRunning(s) \/ Propose(s, ready) \/ Move(s, target)
      PROVE  FlowShape' /\ WithinReach /\ BudgetHolds /\ ArrivesAtWork
  BY <1>1, SessionRows, NoArrival
<1>2. ASSUME NEW s \in Step, StartFlow(s) \/ ClaimEnds(s)
      PROVE  FlowShape' /\ WithinReach /\ BudgetHolds /\ ArrivesAtWork
  BY <1>2, FlowMoves
<1>3. ASSUME NEW s \in Step, NEW l \in link, ClaimFollows(s, l)
      PROVE  FlowShape' /\ WithinReach /\ BudgetHolds /\ ArrivesAtWork
  BY <1>3, FlowFollows
<1>4. ASSUME NEW plan \in Plans, NEW ready \in BOOLEAN, ProposeFlow(plan, ready) \/ Replan(plan, ready)
      PROVE  FlowShape' /\ WithinReach /\ BudgetHolds /\ ArrivesAtWork
  BY <1>4, PlansHold, NoArrival
<1>5. TRUE \in BOOLEAN /\ "open" \in {"open", "running", "claimed"}
  OBVIOUS
<1>. QED  BY <1>1, <1>2, <1>3, <1>4, <1>5 DEF SessionNext

(* The steps before there are any.                                               *)
LEMMA FlowStarts == FlowInit => FlowShape
<1>. SUFFICES ASSUME FlowInit PROVE FlowShape
  OBVIOUS
<1>1. RowsHold(step)
  BY BlankRow DEF FlowInit, RowsHold
<1>2. LinksHold({}, Live(step))
  <2>1. \A s \in Step : {l \in {} : l.from = s} = {}
    OBVIOUS
  <2>2. Cardinality({}) <= RoutesMax
    BY FS_EmptySet, PlanConstants, SMTT(60)
  <2>. QED  BY <2>1, <2>2, FS_EmptySet DEF LinksHold
<1>3. VisitsHold({})
  BY FS_EmptySet DEF VisitsHold
<1>. QED  BY <1>1, <1>2, <1>3 DEF FlowInit, FlowShape

(* Every step of people and sessions keeps the shape.                            *)
LEMMA FlowKeeps == FlowShape /\ [FlowNext]_flows => FlowShape'
<1>1. FlowShape /\ UNCHANGED flows => FlowShape'
  BY DEF flows, FlowShape
<1>. QED  BY <1>1, PersonHolds, SessionHolds DEF FlowNext

(* TaskStepService, StepLinkService, StepVisitService and FlowService: through   *)
(* every sequence of calls of people and sessions, a flow stands in one place,   *)
(* no route or visit outlives its steps, one outcome names one route within the  *)
(* cap, and a step's moments are those of its state.                             *)
THEOREM FlowIsSound == FlowSpec => []FlowInv
<1>. QED  BY FlowStarts, FlowKeeps, ShapeIsFlowInv, PTL DEF FlowSpec

(* FlowService and the tools sessions call: no move promotes a draft, ticks a     *)
(* step done or drops started work for a session, none enters a step beyond its   *)
(* budget, and the flow never comes to stand on a draft or on finished work.      *)
THEOREM MovesAreBounded == FlowSpec => MovesHold
<1>1. FlowShape /\ [FlowNext]_flows => [SessionBounds /\ BudgetHolds /\ ArrivesAtWork]_flows
  <2>1. FlowShape /\ PersonNext => BudgetHolds /\ ArrivesAtWork
    BY PersonHolds, NoArrival
  <2>2. FlowShape /\ SessionNext => BudgetHolds /\ ArrivesAtWork /\ SessionBounds
    BY SessionHolds DEF WithinReach, SessionBounds
  <2>3. ~SessionNext => SessionBounds
    BY DEF SessionBounds
  <2>. QED  BY <2>1, <2>2, <2>3 DEF FlowNext
<1>. QED  BY FlowStarts, FlowKeeps, <1>1, PTL DEF FlowSpec, MovesHold

-----------------------------------------------------------------------------
(* Claims *)

(* What a call carries; the state a claim came from is whatever it was           *)
CallRow(from) ==
    [pc : {Idle, "plan", "run", "claim", "commit", "snapshot"}, ref : Nat, step : Step \cup {Idle},
     left : Seq(Step \cup {"project"}), passed : SUBSET (Step \cup {"project"}), from : {from}]

(* Every check of the step has passed                                            *)
AllPassed(c) == \A k \in DOMAIN PlanIn(c.step) : PlanIn(c.step)[k] \in c.passed

(* Where the checks stand: none run yet, or the project's passed and the step's  *)
(* own is left                                                                   *)
RunAt(c) ==
    \/ c.passed = {} /\ c.left = PlanIn(c.step)
    \/ c.step \in Checked /\ c.passed = {"project"} /\ c.left = <<c.step>>

(* A call between two of its awaits: what has passed is what the plan began with *)
CallHolds(c) ==
    /\ \E from : c \in CallRow(from)
    /\ c.pc # Idle => c.step \in Step
    /\ c.pc = "run" => RunAt(c)
    /\ c.pc = "claim" => c.passed = {} \/ AllPassed(c)
    /\ c.pc \notin {"run", "claim"} => c.passed = {}

CallsHold ==
    /\ call = [x \in Session |-> call[x]]
    /\ \A x \in Session : CallHolds(call[x])

(* Contents are never written twice, and a file still as it was when the step    *)
(* began is in the step's snapshot, unless its last start left none              *)
GitHolds ==
    /\ written \in Nat
    /\ tree = [f \in File |-> tree[f]]
    /\ \A f \in File : tree[f] \in Nat /\ tree[f] <= written
    /\ began = [s \in Step |-> began[s]]
    /\ \A s \in Step, f \in File : began[s][f] \in Nat /\ began[s][f] <= written
    /\ snap = [s \in Step |-> snap[s]]
    /\ \A s \in Step, f \in File :
          s \notin missed /\ began[s][f] # 0 /\ began[s][f] = tree[f] =>
              snap[s].kept = TRUE /\ snap[s].files[f] = tree[f]

ClaimShape == CallsHold /\ GitHolds

(* What a plan leaves and what has passed of it.                                 *)
LEMMA PlanParts ==
  ASSUME NEW s \in Step
  PROVE  /\ <<>> \in Seq(Step \cup {"project"})
         /\ <<s>> \in Seq(Step \cup {"project"})
         /\ {"project"} \in SUBSET (Step \cup {"project"})
         /\ {"project", s} \in SUBSET (Step \cup {"project"})
  BY SMTT(60)

(* A call that has made its claim.                                               *)
LEMMA ClaimedCall ==
  ASSUME NEW s \in Step, NEW from, NEW c,
         c = [pc |-> "commit", ref |-> 0, step |-> s, left |-> <<>>, passed |-> {}, from |-> from]
  PROVE  CallHolds(c)
<1>1. c \in CallRow(from)
  BY SMTT(60) DEF CallRow
<1>2. c.passed = {} /\ c.step = s /\ c.pc = "commit"
  OBVIOUS
<1>. QED  BY <1>1, <1>2 DEF CallHolds

(* The call a session has not made.                                              *)
LEMMA NoCallHolds == CallHolds(NoCall)
<1>1. NoCall \in CallRow(Idle)
  BY SMTT(60) DEF NoCall, CallRow
<1>2. NoCall.pc = Idle /\ NoCall.passed = {}
  BY DEF NoCall
<1>. QED  BY <1>1, <1>2, ClaimConstants DEF CallHolds

(* One session's call goes on, the others' stay.                                 *)
LEMMA CallGoesOn ==
  ASSUME CallsHold, NEW x \in Session, NEW c, CallHolds(c), call' = [call EXCEPT ![x] = c]
  PROVE  CallsHold'
<1>1. call' = [y \in Session |-> IF y = x THEN c ELSE call[y]]
  BY DEF CallsHold
<1>2. \A y \in Session : CallHolds(call'[y])
  BY <1>1 DEF CallsHold
<1>. QED  BY <1>1, <1>2 DEF CallsHold

(* A call returns.                                                               *)
LEMMA CallReturns ==
  ASSUME CallsHold, NEW x \in Session, Returns(x)
  PROVE  CallsHold'
  BY NoCallHolds, CallGoesOn DEF Returns

(* claimable_step: the call has its step, and no check has run.                  *)
LEMMA ResolveHolds ==
  ASSUME CallsHold, NEW x \in Session, NEW n \in Nat, Resolve(x, n)
  PROVE  CallsHold'
<1>. PICK s \in Step :
        call' = [call EXCEPT ![x] =
                    [call[x] EXCEPT !.ref = n, !.step = s, !.pc = IF Movable(s) THEN "plan" ELSE "claim"]]
  BY DEF Resolve
<1>1. CallHolds(call[x]) /\ call[x].pc = Idle
  BY DEF CallsHold, Resolve, At
<1>2. call[x].passed = {}
  BY <1>1, ClaimConstants DEF CallHolds
<1>. PICK from : call[x] \in CallRow(from)
  BY <1>1 DEF CallHolds
<1>. PICK p \in {"plan", "claim"} : p = IF Movable(s) THEN "plan" ELSE "claim"
  OBVIOUS
<1>. PICK c : c = [call[x] EXCEPT !.ref = n, !.step = s, !.pc = p]
  OBVIOUS
<1>3. c \in CallRow(from) /\ c.passed = {} /\ c.step = s /\ c.pc = p
  BY <1>2 DEF CallRow
<1>4. CallHolds(c)
  BY <1>3 DEF CallHolds
<1>. QED  BY <1>4, CallGoesOn

(* plan_for_step: the whole plan is left.                                        *)
LEMMA PlanHolds ==
  ASSUME CallsHold, NEW x \in Session, PlanForStep(x)
  PROVE  CallsHold'
<1>1. CASE Returns(x)
  BY <1>1, CallReturns
<1>2. CASE call' = [call EXCEPT ![x] = [call[x] EXCEPT !.pc = "run", !.left = PlanIn(call[x].step)]]
  <2>1. CallHolds(call[x]) /\ call[x].pc = "plan"
    BY DEF CallsHold, PlanForStep, At
  <2>2. call[x].passed = {} /\ call[x].step \in Step
    BY <2>1, ClaimConstants DEF CallHolds
  <2>. PICK from : call[x] \in CallRow(from)
    BY <2>1 DEF CallHolds
  <2>. PICK l \in Seq(Step \cup {"project"}) : l = PlanIn(call[x].step)
    <3>. PICK s \in Step : s = call[x].step
      BY <2>2
    <3>1. <<"project", s>> \in Seq(Step \cup {"project"}) /\ <<"project">> \in Seq(Step \cup {"project"})
      BY SMTT(60)
    <3>. QED  BY <3>1 DEF PlanIn
  <2>. PICK c : c = [call[x] EXCEPT !.pc = "run", !.left = l]
    OBVIOUS
  <2>3. c \in CallRow(from) /\ c.passed = {} /\ c.step = call[x].step /\ c.pc = "run" /\ c.left = l
    BY <2>2 DEF CallRow
  <2>4. CallHolds(c)
    BY <2>2, <2>3, ClaimConstants DEF CallHolds, RunAt
  <2>. QED  BY <1>2, <2>4, CallGoesOn
<1>. QED  BY <1>1, <1>2 DEF PlanForStep

(* run: a check that passes is crossed off; after the last one all have passed.  *)
LEMMA RunHolds ==
  ASSUME CallsHold, NEW x \in Session, NEW ok \in BOOLEAN, Run(x, ok)
  PROVE  CallsHold'
<1>1. CASE Returns(x)
  BY <1>1, CallReturns
<1>2. CASE call' = [call EXCEPT ![x] =
                      [call[x] EXCEPT !.left = Tail(call[x].left),
                                      !.passed = call[x].passed \cup {Head(call[x].left)},
                                      !.pc = IF Len(call[x].left) = 1 THEN "claim" ELSE "run"]]
  <2>1. CallHolds(call[x]) /\ call[x].pc = "run"
    BY DEF CallsHold, Run, At
  <2>2. call[x].step \in Step /\ RunAt(call[x])
    BY <2>1, ClaimConstants DEF CallHolds
  <2>. PICK s \in Step : s = call[x].step
    BY <2>2
  <2>. PICK from : call[x] \in CallRow(from)
    BY <2>1 DEF CallHolds
  <2>. PICK d : d = call[x].passed \cup {Head(call[x].left)}
    OBVIOUS
  <2>. PICK p : p = IF Len(call[x].left) = 1 THEN "claim" ELSE "run"
    OBVIOUS
  <2>. PICK l : l = Tail(call[x].left)
    OBVIOUS
  <2>. PICK c : c = [call[x] EXCEPT !.left = l, !.passed = d, !.pc = p]
    OBVIOUS
  <2>3. call' = [call EXCEPT ![x] = c]
    BY <1>2
  <2>4. CASE call[x].passed = {} /\ call[x].left = PlanIn(s) /\ s \in Checked
    <3>1. l = <<s>> /\ d = {"project"} /\ p = "run"
      BY <2>4, SMTT(60) DEF PlanIn
    <3>2. l \in Seq(Step \cup {"project"}) /\ d \in SUBSET (Step \cup {"project"})
      BY <3>1, PlanParts
    <3>3. c \in CallRow(from) /\ c.left = l /\ c.passed = d /\ c.pc = "run" /\ c.step = s
      BY <3>1, <3>2 DEF CallRow
    <3>4. CallHolds(c)
      BY <2>4, <3>1, <3>3, ZenonT(60) DEF CallHolds, RunAt
    <3>. QED  BY <2>3, <3>4, CallGoesOn
  <2>5. CASE call[x].passed = {} /\ call[x].left = PlanIn(s) /\ s \notin Checked
    <3>1. l = <<>> /\ d = {"project"} /\ p = "claim"
      BY <2>5, SMTT(60) DEF PlanIn
    <3>2. l \in Seq(Step \cup {"project"}) /\ d \in SUBSET (Step \cup {"project"})
      BY <3>1, PlanParts
    <3>3. c \in CallRow(from) /\ c.passed = d /\ c.pc = "claim" /\ c.step = s
      BY <3>1, <3>2 DEF CallRow
    <3>4. AllPassed(c)
      BY <2>5, <3>1, <3>3, SMTT(60) DEF AllPassed, PlanIn
    <3>5. CallHolds(c)
      BY <3>3, <3>4 DEF CallHolds
    <3>. QED  BY <2>3, <3>5, CallGoesOn
  <2>6. CASE s \in Checked /\ call[x].passed = {"project"} /\ call[x].left = <<s>>
    <3>1. l = <<>> /\ d = {"project", s} /\ p = "claim"
      BY <2>6, SMTT(60)
    <3>2. l \in Seq(Step \cup {"project"}) /\ d \in SUBSET (Step \cup {"project"})
      BY <3>1, PlanParts
    <3>3. c \in CallRow(from) /\ c.passed = d /\ c.pc = "claim" /\ c.step = s
      BY <3>1, <3>2 DEF CallRow
    <3>4. AllPassed(c)
      BY <2>6, <3>1, <3>3, SMTT(60) DEF AllPassed, PlanIn
    <3>5. CallHolds(c)
      BY <3>3, <3>4 DEF CallHolds
    <3>. QED  BY <2>3, <3>5, CallGoesOn
  <2>. QED  BY <2>2, <2>4, <2>5, <2>6 DEF RunAt
<1>. QED  BY <1>1, <1>2 DEF Run

(* FlowService::transition made the claim: the commit is next.                   *)
LEMMA ClaimHolds ==
  ASSUME CallsHold, NEW x \in Session, Claim(x)
  PROVE  CallsHold'
<1>. PICK s \in Step :
        call' = [call EXCEPT ![x] = [NoCall EXCEPT !.pc = "commit", !.step = s, !.from = step[s].state]]
  BY DEF Claim
<1>. PICK from : from = step[s].state
  OBVIOUS
<1>. PICK c : c = [NoCall EXCEPT !.pc = "commit", !.step = s, !.from = from]
  OBVIOUS
<1>1. c = [pc |-> "commit", ref |-> 0, step |-> s, left |-> <<>>, passed |-> {}, from |-> from]
  BY DEF NoCall
<1>2. CallHolds(c)
  BY <1>1, ClaimedCall
<1>. QED  BY <1>2, CallGoesOn

(* A start goes on to its snapshot, or has nothing to take.                      *)
LEMMA StartHolds ==
  ASSUME CallsHold, NEW x \in Session, NEW s \in Step, Start(x, s)
  PROVE  CallsHold'
<1>1. CASE UNCHANGED call
  BY <1>1 DEF CallsHold
<1>2. CASE call' = [call EXCEPT ![x] = [call[x] EXCEPT !.pc = "snapshot", !.step = s]]
  <2>1. CallHolds(call[x]) /\ call[x].pc = Idle
    BY DEF CallsHold, Start, At
  <2>2. call[x].passed = {}
    BY <2>1, ClaimConstants DEF CallHolds
  <2>. PICK from : call[x] \in CallRow(from)
    BY <2>1 DEF CallHolds
  <2>. PICK c : c = [call[x] EXCEPT !.pc = "snapshot", !.step = s]
    OBVIOUS
  <2>3. c \in CallRow(from) /\ c.passed = {} /\ c.step = s /\ c.pc = "snapshot"
    BY <2>2 DEF CallRow
  <2>4. CallHolds(c)
    BY <2>3 DEF CallHolds
  <2>. QED  BY <1>2, <2>4, CallGoesOn
<1>. QED  BY <1>1, <1>2 DEF Start

(* Every step keeps the calls in order.                                          *)
LEMMA CallsKeep == CallsHold /\ [ClaimNext]_claims => CallsHold'
<1>. SUFFICES ASSUME CallsHold, [ClaimNext]_claims PROVE CallsHold'
  OBVIOUS
<1>1. ASSUME NEW x \in Session, NEW n \in 1 .. Cardinality(Step), Resolve(x, n) PROVE CallsHold'
  BY <1>1, ResolveHolds, SMTT(60)
<1>2. ASSUME NEW x \in Session, PlanForStep(x) \/ Claim(x) PROVE CallsHold'
  BY <1>2, PlanHolds, ClaimHolds
<1>3. ASSUME NEW x \in Session, ClaimRefused(x) \/ Take(x) \/ TakeFails(x) \/ Commit(x) \/ CommitSkipped(x)
      PROVE  CallsHold'
  BY <1>3, CallReturns DEF ClaimRefused, Take, TakeFails, Commit, CommitSkipped
<1>4. ASSUME NEW x \in Session, NEW ok \in BOOLEAN, Run(x, ok) PROVE CallsHold'
  BY <1>4, RunHolds
<1>5. ASSUME NEW x \in Session, NEW s \in Step, Start(x, s) PROVE CallsHold'
  BY <1>5, StartHolds
<1>6. ASSUME NEW x \in Session, NEW s \in Step, PutBack(x, s) PROVE CallsHold'
  BY <1>6 DEF PutBack, CallsHold
<1>7. ASSUME NEW f \in File, Write(f) PROVE CallsHold'
  BY <1>7 DEF Write, CallsHold
<1>8. CASE Console
  BY <1>8 DEF Console, CallsHold
<1>9. CASE Crash
  BY <1>9, NoCallHolds DEF Crash, CallsHold
<1>10. CASE UNCHANGED claims
  BY <1>10 DEF claims, CallsHold
<1>. QED  BY <1>1, <1>2, <1>3, <1>4, <1>5, <1>6, <1>7, <1>8, <1>9, <1>10, ZenonT(60) DEF ClaimNext

(* A file is written: its content is new to every snapshot.                      *)
LEMMA WriteKeeps ==
  ASSUME GitHolds, NEW g \in File, Write(g)
  PROVE  GitHolds'
<1>1. /\ written' = written + 1 /\ snap' = snap /\ began' = began /\ missed' = missed
      /\ tree' = [f \in File |-> IF f = g THEN written + 1 ELSE tree[f]]
  BY DEF GitHolds, Write
<1>2. written' \in Nat /\ \A f \in File : tree'[f] \in Nat /\ tree'[f] <= written'
  BY <1>1, SMTT(60) DEF GitHolds
<1>3. \A s \in Step, f \in File : began'[s][f] \in Nat /\ began'[s][f] <= written'
  BY <1>1, SMTT(60) DEF GitHolds
<1>4. \A s \in Step, f \in File : began[s][f] = tree'[f] => f # g /\ tree'[f] = tree[f]
  BY <1>1, SMTT(60) DEF GitHolds
<1>5. \A s \in Step, f \in File :
         s \notin missed /\ began[s][f] # 0 /\ began[s][f] = tree'[f] =>
             snap[s].kept = TRUE /\ snap[s].files[f] = tree'[f]
  BY <1>4, SMTT(60) DEF GitHolds
<1>. QED  BY <1>1, <1>2, <1>3, <1>5, ZenonT(60) DEF GitHolds

(* A commit: what it takes is as committed, the rest stays.                      *)
LEMMA CommitKeeps ==
  ASSUME GitHolds, NEW x \in Session, Commit(x)
  PROVE  GitHolds'
<1>1. /\ written' = written /\ snap' = snap /\ began' = began /\ missed' = missed
      /\ tree' = [f \in File |-> IF f \in Own(call[x].step) THEN 0 ELSE tree[f]]
  BY DEF Commit, CommitPaths
<1>2. \A f \in File : tree'[f] \in Nat /\ tree'[f] <= written /\ (tree'[f] # 0 => tree'[f] = tree[f])
  BY <1>1, SMTT(60) DEF GitHolds
<1>3. \A s \in Step, f \in File :
         s \notin missed /\ began[s][f] # 0 /\ began[s][f] = tree'[f] =>
             snap[s].kept = TRUE /\ snap[s].files[f] = tree'[f]
  BY <1>2, SMTT(60) DEF GitHolds
<1>4. tree' = [f \in File |-> tree'[f]]
  BY <1>1
<1>. QED  BY <1>1, <1>2, <1>3, <1>4, ZenonT(60) DEF GitHolds

(* StepSnapshotService::take: the snapshot is the tree as it is.                 *)
LEMMA TakeKeeps ==
  ASSUME CallsHold, GitHolds, NEW x \in Session, Take(x)
  PROVE  GitHolds'
<1>1. written' = written /\ tree' = tree /\ began' = began
  BY DEF Take
<1>2. CASE UNCHANGED <<snap, missed>>
  BY <1>1, <1>2 DEF GitHolds
<1>3. CASE /\ snap' = [snap EXCEPT ![call[x].step] = WorkTreeSnapshot]
           /\ missed' = missed \ {call[x].step}
  <2>. PICK r \in Step : r = call[x].step
    BY ClaimConstants DEF Take, At, CallsHold, CallHolds
  <2>. PICK w : w = WorkTreeSnapshot
    OBVIOUS
  <2>1. w.kept = TRUE /\ w.files = tree
    BY DEF WorkTreeSnapshot
  <2>2. snap' = [s \in Step |-> IF s = r THEN w ELSE snap[s]] /\ missed' = missed \ {r}
    BY <1>3 DEF GitHolds
  <2>3. \A s \in Step, f \in File :
           s \notin missed' /\ began[s][f] # 0 /\ began[s][f] = tree[f] =>
               snap'[s].kept = TRUE /\ snap'[s].files[f] = tree[f]
    BY <2>1, <2>2, ZenonT(60) DEF GitHolds
  <2>4. snap' = [s \in Step |-> snap'[s]]
    BY <2>2
  <2>. QED  BY <1>1, <2>3, <2>4 DEF GitHolds
<1>. QED  BY <1>2, <1>3 DEF Take

(* A step goes to running: until it is taken its snapshot counts as missed.      *)
LEMMA StartKeeps ==
  ASSUME GitHolds, NEW x \in Session, NEW r \in Step, Start(x, r)
  PROVE  GitHolds'
<1>1. written' = written /\ tree' = tree /\ snap' = snap
  BY DEF Start
<1>2. CASE UNCHANGED <<call, began, missed>>
  BY <1>1, <1>2 DEF GitHolds
<1>3. CASE began' = [began EXCEPT ![r] = tree] /\ missed' = missed \cup {r}
  <2>1. began' = [s \in Step |-> IF s = r THEN tree ELSE began[s]]
    BY <1>3 DEF GitHolds
  <2>2. \A s \in Step, f \in File : began'[s][f] \in Nat /\ began'[s][f] <= written
    BY <2>1 DEF GitHolds
  <2>3. \A s \in Step : s \notin missed' => s \notin missed /\ began'[s] = began[s]
    BY <1>3, <2>1
  <2>4. \A s \in Step, f \in File :
           s \notin missed' /\ began'[s][f] # 0 /\ began'[s][f] = tree[f] =>
               snap[s].kept = TRUE /\ snap[s].files[f] = tree[f]
    BY <2>3, SMTT(60) DEF GitHolds
  <2>5. began' = [s \in Step |-> began'[s]]
    BY <2>1
  <2>. QED  BY <1>1, <2>2, <2>4, <2>5 DEF GitHolds
<1>. QED  BY <1>2, <1>3 DEF Start

(* A step that is deleted takes its snapshot along.                              *)
LEMMA ConsoleKeeps ==
  ASSUME GitHolds, Console
  PROVE  GitHolds'
<1>1. /\ written' = written /\ tree' = tree
      /\ snap' = [s \in Step |-> IF step'[s] = NoStep THEN NoSnapshot ELSE snap[s]]
      /\ began' = [s \in Step |-> IF step'[s] = NoStep THEN [f \in File |-> 0] ELSE began[s]]
      /\ missed' = {s \in missed : step'[s] # NoStep}
  BY DEF Console, ForgetSteps
<1>2. \A s \in Step : step'[s] = NoStep => \A f \in File : began'[s][f] = 0
  BY <1>1
<1>3. \A s \in Step : step'[s] # NoStep => began'[s] = began[s] /\ snap'[s] = snap[s] /\ (s \in missed' <=> s \in missed)
  BY <1>1
<1>4. \A s \in Step, f \in File : began'[s][f] \in Nat /\ began'[s][f] <= written
  BY <1>2, <1>3, SMTT(60) DEF GitHolds
<1>5. \A s \in Step, f \in File :
         s \notin missed' /\ began'[s][f] # 0 /\ began'[s][f] = tree[f] =>
             snap'[s].kept = TRUE /\ snap'[s].files[f] = tree[f]
  BY <1>2, <1>3, SMTT(60) DEF GitHolds
<1>6. began' = [s \in Step |-> began'[s]] /\ snap' = [s \in Step |-> snap'[s]]
  BY <1>1
<1>. QED  BY <1>1, <1>4, <1>5, <1>6, ZenonT(60) DEF GitHolds

(* Every step keeps the snapshots in order.                                      *)
LEMMA GitKeeps == ClaimShape /\ [ClaimNext]_claims => GitHolds'
<1>. SUFFICES ASSUME CallsHold, GitHolds, [ClaimNext]_claims PROVE GitHolds'
  BY DEF ClaimShape
<1>1. UNCHANGED git => GitHolds'
  BY SMTT(60) DEF git, GitHolds
<1>3. ASSUME NEW x \in Session,
             \/ \E n \in 1 .. Cardinality(Step) : Resolve(x, n)
             \/ \E ok \in BOOLEAN : Run(x, ok)
             \/ PlanForStep(x) \/ Claim(x) \/ ClaimRefused(x) \/ TakeFails(x) \/ CommitSkipped(x)
      PROVE  UNCHANGED git
  BY <1>3 DEF Resolve, PlanForStep, Run, Claim, ClaimRefused, TakeFails, CommitSkipped
<1>4. Crash \/ UNCHANGED claims => UNCHANGED git
  BY DEF Crash, claims, git
<1>5. ASSUME NEW x \in Session, NEW s \in Step, Start(x, s) PROVE GitHolds'
  BY <1>5, StartKeeps
<1>6. ASSUME NEW x \in Session, NEW s \in Step, PutBack(x, s) PROVE UNCHANGED git
  BY <1>6 DEF PutBack
<1>7. ASSUME NEW x \in Session, Take(x) \/ Commit(x) PROVE GitHolds'
  BY <1>7, TakeKeeps, CommitKeeps
<1>8. ASSUME NEW f \in File, Write(f) PROVE GitHolds'
  BY <1>8, WriteKeeps
<1>9. Console => GitHolds'
  BY ConsoleKeeps
<1>. QED  BY <1>1, <1>3, <1>4, <1>5, <1>6, <1>7, <1>8, <1>9, ZenonT(60) DEF ClaimNext

(* Before any call, over a clean tree.                                           *)
LEMMA ClaimStarts == ClaimInit => ClaimShape
<1>. SUFFICES ASSUME ClaimInit PROVE ClaimShape
  OBVIOUS
<1>1. CallsHold
  BY NoCallHolds DEF ClaimInit, CallsHold
<1>2. GitHolds
  <2>1. tree = [f \in File |-> 0] /\ written = 0 /\ began = [s \in Step |-> [f \in File |-> 0]]
    BY DEF ClaimInit
  <2>2. snap = [s \in Step |-> snap[s]]
    BY DEF ClaimInit
  <2>3. \A s \in Step, f \in File : began[s][f] = 0
    BY <2>1
  <2>. QED  BY <2>1, <2>2, <2>3, SMTT(60) DEF GitHolds
<1>. QED  BY <1>1, <1>2 DEF ClaimShape

(* after_step_claim: no commit takes what the step found.                        *)
LEMMA CommitsOwn ==
  ASSUME CallsHold, GitHolds, NEW y \in Session, Commit(y)
  PROVE  OthersWorkStays
<1>. SUFFICES ASSUME NEW x \in Session, At(x, "commit"), call'[x] = NoCall, call[x].step \notin missed,
                     NEW f \in File, tree[f] # 0, tree'[f] = 0, tree[f] = began[call[x].step][f]
              PROVE  FALSE
  BY DEF OthersWorkStays
<1>1. NoCall.pc = Idle
  BY DEF NoCall
<1>2. x = y
  <2>1. x # y => call'[x] = call[x]
    BY DEF Commit, Returns, CallsHold
  <2>. QED  BY <1>1, <2>1, ClaimConstants DEF At
<1>. PICK s \in Step : s = call[x].step
  BY ClaimConstants DEF At, CallsHold, CallHolds
<1>3. tree' = [g \in File |-> IF g \in Own(s) THEN 0 ELSE tree[g]]
  BY <1>2 DEF Commit, CommitPaths
<1>4. f \in Own(s)
  BY <1>3
<1>5. snap[s].kept = TRUE /\ snap[s].files[f] = tree[f]
  BY DEF GitHolds
<1>6. f \in {g \in Pending : snap[s].files[g] # tree[g]}
  BY <1>4, <1>5 DEF Own
<1>. QED  BY <1>5, <1>6

(* The tools a session calls: a claim of the step that was resolved counts only  *)
(* after all of its checks passed, and its commit leaves in the tree what the    *)
(* step found there, however the awaits of several calls interleave.             *)
THEOREM ClaimsAreChecked == ClaimSpec => ClaimsHold
<1>1. ClaimShape /\ [ClaimNext]_claims => ClaimShape'
  BY CallsKeep, GitKeeps DEF ClaimShape
<1>2. ClaimShape => ResolvedClaimIsChecked
  BY ClaimConstants DEF ClaimShape, CallsHold, CallHolds, ResolvedClaimIsChecked, Claims, At, AllPassed
<1>3. ClaimShape /\ [ClaimNext]_claims => [OthersWorkStays]_claims
  <2>. SUFFICES ASSUME CallsHold, GitHolds, ClaimNext PROVE OthersWorkStays
    BY DEF ClaimShape
  <2>1. tree' = tree => OthersWorkStays
    BY DEF OthersWorkStays
  <2>2. ASSUME NEW x \in Session,
               \/ \E n \in 1 .. Cardinality(Step) : Resolve(x, n)
               \/ \E ok \in BOOLEAN : Run(x, ok)
               \/ \E s \in Step : Start(x, s) \/ PutBack(x, s)
               \/ PlanForStep(x) \/ Claim(x) \/ ClaimRefused(x) \/ Take(x) \/ TakeFails(x) \/ CommitSkipped(x)
        PROVE  tree' = tree
    BY <2>2 DEF git, Resolve, PlanForStep, Run, Claim, ClaimRefused, Start, PutBack, Take, TakeFails, CommitSkipped
  <2>3. ASSUME NEW g \in File, Write(g) PROVE OthersWorkStays
    <3>1. \A f \in File : tree'[f] # 0 \/ tree'[f] = tree[f]
      BY <2>3, SMTT(60) DEF Write, GitHolds
    <3>. QED  BY <3>1 DEF OthersWorkStays
  <2>4. Console \/ Crash => tree' = tree
    BY DEF Console, Crash, git
  <2>5. ASSUME NEW x \in Session, Commit(x) PROVE OthersWorkStays
    BY <2>5, CommitsOwn
  <2>. QED  BY <2>1, <2>2, <2>3, <2>4, <2>5 DEF ClaimNext
<1>. QED  BY ClaimStarts, <1>1, <1>2, <1>3, PTL DEF ClaimSpec, ClaimsHold

=============================================================================
