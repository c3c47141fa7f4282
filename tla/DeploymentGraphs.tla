-------------------------- MODULE DeploymentGraphs --------------------------
(***************************************************************************)
(* A project's deployment graphs and what laying one on a task does to the *)
(* task's steps: DeploymentGraphService, GraphDraft, StoredGraph and       *)
(* GraphAttachService over the steps, routes and visits of StepFlow.  A    *)
(* request names its steps by keys; 0 is a blank key, title or connection. *)
(***************************************************************************)
EXTENDS StepFlow

CONSTANTS
    Graph,         \* identifiers of graph rows
    Project,       \* the task belongs to the first
    Conn,          \* the company's connections
    StepTitle,     \* what steps are called; ImplTitle is one of them
    WorkTitle,     \* what the steps of the work are called
    ImplTitle,     \* IMPLEMENTATION_TITLE
    DoneOutcome,   \* WORK_DONE
    Sent,          \* the requests that write a graph
    MaxWrites,     \* bound on the writes of graphs and bindings
    MaxWork,       \* bound on the steps of the work
    MaxLays        \* bound on the graphs laid

ASSUME GraphConstants ==
    /\ 1 \in Project /\ ImplTitle \in StepTitle /\ WorkTitle \subseteq StepTitle /\ DoneOutcome \in Outcome
    /\ 0 \notin Conn /\ 0 \notin StepTitle /\ MaxWrites \in Nat

VARIABLES
    graph,     \* the graph rows, each with its steps and routes
    bound,     \* the connections each project binds
    named,     \* the title and the connection of each step of the task
    released,  \* graph_laid_at and release_skipped of the task
    writes,    \* writes of graphs and bindings so far
    laying     \* the last lay: the graph's steps, the work they follow, how it stood before

graphing == <<graph, bound, named, released, writes, laying>>

GraphStepRow  == [title : StepTitle, conn : Conn \cup {0}, budget : Nat]
GraphRouteRow == [from : Nat \ {0}, outcome : Outcome, to : Nat]
GraphRow == [project : Project, title : StepTitle, release : BOOLEAN,
             steps : Seq(GraphStepRow), routes : SUBSET GraphRouteRow]
NoGraph  == [project |-> 0]
Stored   == {g \in Graph : graph[g] # NoGraph}
OfProject(p) == {g \in Stored : graph[g].project = p}

Rows(seq) == {seq[k] : k \in DOMAIN seq}

Untouched == UNCHANGED <<line, step, link, visit>>
Written   == writes < MaxWrites /\ writes' = writes + 1 /\ Untouched

-----------------------------------------------------------------------------
(* GraphDraft::of, a request made into a plan *)

PositionsByKey(req) ==
    /\ \A k \in DOMAIN req.steps : req.steps[k].key # 0
    /\ \A j, k \in DOMAIN req.steps : req.steps[j].key = req.steps[k].key => j = k

(* route_of: the target's position; no key leads to the end *)
RouteOf(req, r) ==
    [from |-> r.from, outcome |-> r.outcome,
     to |-> IF r.to = 0 THEN 0 ELSE CHOOSE k \in DOMAIN req.steps : req.steps[k].key = r.to]

PlaceOf(s) == s.place \in {"none", "both"}

Plan(steps, routes) == [steps |-> [k \in DOMAIN steps |-> steps[k].title], routes |-> routes]

Draft(req) ==
    [steps  |-> [k \in DOMAIN req.steps |->
                    [title |-> req.steps[k].title, conn |-> req.steps[k].conn, budget |-> req.steps[k].budget]],
     routes |-> {RouteOf(req, r) : r \in req.routes}]

Drafted(req) ==
    /\ PositionsByKey(req)
    /\ \A r \in req.routes : r.to # 0 => \E k \in DOMAIN req.steps : req.steps[k].key = r.to
    /\ \A k \in DOMAIN req.steps : PlaceOf(req.steps[k])
    /\ CheckShape(Plan(Draft(req).steps, Draft(req).routes))

(* StoredGraph::problem: only a routed graph has to pass the flow's rules *)
Runnable(row) == row.routes = {} \/ Check(Plan(row.steps, row.routes))

-----------------------------------------------------------------------------
(* DeploymentGraphService *)

RequireTitleFree(p, title, except) == \A g \in OfProject(p) \ except : graph[g].title # title
RequireConnectionsBound(p, steps)  == \A k \in DOMAIN steps : steps[k].conn \in bound[p] \cup {0}

Create(g, p, req) ==
    /\ graph[g] = NoGraph
    /\ req.title # 0 /\ Drafted(req)
    /\ RequireTitleFree(p, req.title, {})
    /\ RequireConnectionsBound(p, Draft(req).steps)
    /\ graph' = [graph EXCEPT ![g] = [project |-> p, title |-> req.title, release |-> FALSE,
                                      steps |-> Draft(req).steps, routes |-> Draft(req).routes]]
    /\ Written /\ UNCHANGED <<bound, named, released, laying>>

Replace(g, req) ==
    /\ g \in Stored
    /\ req.title # 0 /\ Drafted(req)
    /\ RequireTitleFree(graph[g].project, req.title, {g})
    /\ RequireConnectionsBound(graph[g].project, Draft(req).steps)
    /\ graph' = [graph EXCEPT ![g] = [@ EXCEPT !.title = req.title, !.steps = Draft(req).steps,
                                                !.routes = Draft(req).routes]]
    /\ Written /\ UNCHANGED <<bound, named, released, laying>>

DeleteGraph(g) ==
    /\ g \in Stored
    /\ graph' = [graph EXCEPT ![g] = NoGraph]
    /\ Written /\ UNCHANGED <<bound, named, released, laying>>

(* Mutant: the graph chosen before stays chosen *)
ChooseAnother(p, chosen) ==
    /\ chosen \subseteq OfProject(p)
    /\ graph' = [g \in Graph |->
                    IF g \in chosen THEN [graph[g] EXCEPT !.release = TRUE] ELSE graph[g]]
    /\ Written /\ UNCHANGED <<bound, named, released, laying>>

(* choose_release: one graph of the project or none *)
ChooseRelease(p, chosen) ==
    /\ chosen \subseteq OfProject(p)
    /\ graph' = [g \in Graph |->
                    IF g \in OfProject(p) THEN [graph[g] EXCEPT !.release = g \in chosen] ELSE graph[g]]
    /\ Written /\ UNCHANGED <<bound, named, released, laying>>

(* The project binds the connection, or takes it back (ProjectConnectionService) *)
Bind(p, c) ==
    /\ bound' = [bound EXCEPT ![p] = IF c \in @ THEN @ \ {c} ELSE @ \cup {c}]
    /\ Written /\ UNCHANGED <<graph, named, released, laying>>

(* 049: a deleted connection leaves the steps that reached it reaching nothing *)
DeleteConnection(c) ==
    LET without(s) == IF s.conn = c THEN [s EXCEPT !.conn = 0] ELSE s
    IN  /\ bound' = [p \in Project |-> bound[p] \ {c}]
        /\ graph' = [g \in Graph |->
                        IF g \notin Stored THEN NoGraph
                        ELSE [graph[g] EXCEPT !.steps = [k \in DOMAIN @ |-> without(@[k])]]]
        /\ named' = [s \in Step |-> IF named[s].conn = c THEN [named[s] EXCEPT !.conn = 0] ELSE named[s]]
        /\ Written /\ UNCHANGED <<released, laying>>

(* TaskService::skip_release *)
SkipRelease ==
    /\ released' = [released EXCEPT !.skipped = ~@]
    /\ Written /\ UNCHANGED <<graph, bound, named, laying>>

-----------------------------------------------------------------------------
(* GraphAttachService *)

RequireFreeTitles(row) ==
    LET taken == IF line = <<>> THEN {ImplTitle} ELSE {named[line[k]].title : k \in DOMAIN line}
    IN  \A k \in DOMAIN row.steps : row.steps[k].title \notin taken

Injective(n) == {ids \in [1 .. n -> Step \ Live(step)] : \A a, b \in 1 .. n : ids[a] = ids[b] => a = b}

(* Mutant: only the steps with no route are led into the graph *)
LeadOpenEnds(work, links, entry) ==
    links \cup {[from |-> s, outcome |-> DoneOutcome, to |-> entry] :
                    s \in {w \in Rows(work) : ~\E l \in links : l.from = w}}

(* lead_work_into_in: a checklist is chained, a flow's ends lead on *)
LeadWorkInto(work, links, entry) ==
    IF \A l \in links : l.from \notin Rows(work)
    THEN {[from |-> work[k], outcome |-> DoneOutcome,
           to |-> IF k = Len(work) THEN entry ELSE work[k + 1]] : k \in DOMAIN work}
    ELSE {IF l.to = End THEN [l EXCEPT !.to = entry] ELSE l : l \in links} \cup
         {[from |-> s, outcome |-> DoneOutcome, to |-> entry] :
              s \in {w \in Rows(work) : ~\E l \in links : l.from = w}}

(* stand_on_first_unfinished_in *)
StandOnFirstUnfinished(ln, st, vs) ==
    LET unfinished == {k \in DOMAIN ln : st[ln[k]].state \notin Complete}
        at == CHOOSE k \in unfinished : \A j \in unfinished : k <= j
    IN  IF FindOpen(vs) # {} \/ st[ln[1]].state \notin Complete \/ unfinished = {} THEN vs
        ELSE EnterIn(vs, ln[at])

(* lay_in: ids are the new rows, the implementation step's first if the task had none *)
LayIn(g) ==
    LET row == graph[g]
        n   == Len(row.steps)
        i   == IF line = <<>> THEN 1 ELSE 0
    IN  /\ row.project = 1 /\ Runnable(row) /\ Drafts = {} /\ RequireFreeTitles(row)
        /\ \E ids \in Injective(n + i) :
              LET laid == [k \in 1 .. n |-> ids[k + i]]
                  work == IF i = 1 THEN <<ids[1]>> ELSE line
                  at(s) == CHOOSE k \in DOMAIN ids : ids[k] = s
                  as(s) == IF at(s) <= i THEN [title |-> ImplTitle, conn |-> 0, budget |-> 0]
                           ELSE row.steps[at(s) - i]
              IN  /\ line' = work \o laid
                  /\ step' = [s \in Step |-> IF s \in Rows(ids)
                                             THEN [NoStep EXCEPT !.state = "open", !.budget = as(s).budget]
                                             ELSE step[s]]
                  /\ named' = [s \in Step |-> IF s \in Rows(ids)
                                              THEN [title |-> as(s).title, conn |-> as(s).conn] ELSE named[s]]
                  /\ link' = LeadWorkInto(work, link, laid[1]) \cup
                                 {[from |-> laid[r.from], outcome |-> r.outcome,
                                   to |-> IF r.to = 0 THEN End ELSE laid[r.to]] : r \in row.routes}
                  /\ visit' = StandOnFirstUnfinished(line', step', visit)
                  /\ \A s \in Step : Entered(visit', s) > Entered(visit, s) => Admits(visit, s)
                  /\ laying' = [at |-> laying.at + 1, laid |-> laid, work |-> work, links |-> link,
                                stood |-> FindOpen(visit) # {}, routed |-> row.routes # {}]
        /\ released' = [released EXCEPT !.laid = TRUE]
        /\ UNCHANGED <<graph, bound, writes>>

Attach(g) == g \in Stored /\ LayIn(g)

(* release_on_run, when it lays something *)
ReleaseOnRun ==
    /\ ~released.laid /\ ~released.skipped
    /\ \E g \in OfProject(1) : graph[g].release /\ LayIn(g)

-----------------------------------------------------------------------------
(* The work of the task around it *)

Work ==
    \/ \E s \in Step, t \in WorkTitle, ready \in BOOLEAN :
          /\ Len(line) < MaxWork
          /\ \A w \in Live(step) : named[w].title # t
          /\ Propose(s, ready)
          /\ named' = [named EXCEPT ![s] = [title |-> t, conn |-> 0]]
    \/ /\ \E s \in Step :
             \/ \E done \in {"yes", "no"} : Edit(s, "keep", done)
             \/ Edit(s, "no", "keep")
             \/ Move(s, "claimed") \/ StartFlow(s) \/ ClaimEnds(s)
             \/ \E l \in link : ClaimFollows(s, l)
             \/ \E o \in Outcome, to \in Step \cup {End} :
                   AddRoute([from |-> s, outcome |-> o, to |-> to])
       /\ UNCHANGED named

GraphInit ==
    /\ FlowInit
    /\ graph = [g \in Graph |-> NoGraph]
    /\ bound = [p \in Project |-> {}]
    /\ named = [s \in Step |-> [title |-> 0, conn |-> 0]]
    /\ released = [laid |-> FALSE, skipped |-> FALSE]
    /\ writes = 0
    /\ laying = [at |-> 0, laid |-> <<>>, work |-> <<>>, links |-> {}, stood |-> FALSE, routed |-> FALSE]

(* A graph kept already, and a task still to be worked *)
LayInit ==
    /\ FlowInit
    /\ bound = [p \in Project |-> Conn]
    /\ \E req \in {q \in Sent : Drafted(q)}, release \in BOOLEAN :
          graph = [h \in Graph |->
                      IF h # CHOOSE g \in Graph : TRUE THEN NoGraph
                      ELSE [project |-> 1, title |-> req.title, release |-> release,
                            steps |-> Draft(req).steps, routes |-> Draft(req).routes]]
    /\ named = [s \in Step |-> [title |-> 0, conn |-> 0]]
    /\ released = [laid |-> FALSE, skipped |-> FALSE]
    /\ writes = MaxWrites
    /\ laying = [at |-> 0, laid |-> <<>>, work |-> <<>>, links |-> {}, stood |-> FALSE, routed |-> FALSE]

GraphNext ==
    /\ \/ \E g \in Graph, req \in Sent :
             Replace(g, req) \/ \E p \in Project : Create(g, p, req)
       \/ \E g \in Graph : DeleteGraph(g)
       \/ \E p \in Project :
             \/ \E chosen \in {{}} \cup {{g} : g \in Graph} : ChooseRelease(p, chosen)
             \/ \E c \in Conn : Bind(p, c)
       \/ \E c \in Conn : DeleteConnection(c)
       \/ SkipRelease
       \/ writes > 0 /\ laying.at < MaxLays /\ \E g \in Graph : Attach(g)

LayNext ==
    /\ laying.at < MaxLays
    /\ \/ \E g \in Graph : Attach(g)
       \/ ReleaseOnRun
       \/ Work /\ UNCHANGED <<graph, bound, released, writes, laying>>

-----------------------------------------------------------------------------
(* deployment_graph.rs: "at most one graph of a project is" the one laid on   *)
(* every task the console runs, however graphs are chosen, rewritten and      *)
(* deleted.                                                                   *)
OneRelease == \A g, h \in Stored :
    graph[g].project = graph[h].project /\ graph[g].release /\ graph[h].release => g = h

(* GraphDraft: what is stored is a flow: every route joins steps of its graph *)
(* by an outcome no other route out of the step has.                          *)
StoredIsAFlow == \A g \in Stored : CheckShape(Plan(graph[g].steps, graph[g].routes))

Lays == laying'.at # laying.at

(* Steps a chain of the routes ls leads to from s *)
From(ls, s) ==
    LET within[k \in 0 .. Cardinality(Step)] ==
            IF k = 0 THEN {s} ELSE within[k - 1] \cup {l.to : l \in {m \in ls : m.from \in within[k - 1]}}
    IN  within[Cardinality(Step)]

(* lead_work_into_in, "Wherever the work would end, it goes on into the graph *)
(* instead": from every step of the work that could end the flow, or that a   *)
(* checklist holds, the routes lead on to the graph's first step, and no step *)
(* of the work ends the flow any more.                                        *)
WorkLeadsOn ==
    Lays => \A s \in Rows(laying'.work) :
       LET could == \E w \in From(laying'.links, s) : w = End \/ ~\E l \in laying'.links : l.from = w
       IN  /\ could => laying'.laid[1] \in From(link', s)
           /\ \E l \in link' : l.from = s
           /\ \A l \in link' : l.from = s => l.to # End

(* stand_on_first_unfinished_in, "the flow is set on the first unfinished     *)
(* step": laid where nothing was current, the flow begins, or stands, at a    *)
(* step still to be worked.                                                   *)
BeginsAtWork ==
    Lays /\ ~laying'.stood =>
       LET at == IF FindOpen(visit') = {} THEN line'[1] ELSE (CHOOSE v \in FindOpen(visit') : TRUE).step
       IN  step'[at].state \in {"open", "running"}

(* StoredGraph::problem, "a graph with no routes runs as a plain checklist,   *)
(* so only a routed one has to pass the flow's rules": once laid, every step  *)
(* of a routed graph can be reached from where the work leads into it.        *)
RoutedGraphIsReached ==
    Lays /\ laying'.routed => Rows(laying'.laid) \subseteq From(link', laying'.laid[1])

(* The rows have the columns the entities declare *)
GraphTypes == \A g \in Stored : graph[g] \in GraphRow

(* The stored graphs, however they are drawn, chosen and deleted.             *)
GraphsInv == GraphTypes /\ OneRelease /\ StoredIsAFlow

(* What laying a graph on a task's plan does to the plan, wherever it stands. *)
LaysOn == [][WorkLeadsOn /\ BeginsAtWork /\ RoutedGraphIsReached]_<<flows, graphing>>
=============================================================================
