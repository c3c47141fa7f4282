--------------------------- MODULE RunQueueWorker ---------------------------
(***************************************************************************)
(* The single worker that works through the run queue (Worker, in          *)
(* run_queue_worker.rs), and what surrounds it: the console, the sessions, *)
(* the people who review, the clock, failing transactions and crashes.     *)
(*                                                                         *)
(* A handler of the worker is cut at its awaits: the worker's program      *)
(* counter pc says where in the handler it is, hand holds the handler's    *)
(* locals, and every other actor may act in between.  The worker handles   *)
(* one command at a time and its memory (active, parked, generation) is    *)
(* its own.                                                                *)
(*                                                                         *)
(* Commands that carry no decision are not stored.  A Tick may come at any *)
(* moment (clock, nudge), a Review of a task too (any committed step or    *)
(* review move sends one), and the end of a session may be announced late, *)
(* or never when the broadcast lags.  Only what later() promised, Settle,  *)
(* Pause and Renew after the grace, is kept, in the set pending.           *)
(*                                                                         *)
(* All sessions are of one kind, so an open on a task that has a live      *)
(* session always reuses it.                                               *)
(***************************************************************************)
EXTENDS RunQueue

CONSTANTS
    Terminal,    \* identifiers of sessions; each is used once
    Chat,        \* sessions are chat sessions, which can ask for permission
    MaxFaults,   \* bound: transactions of the worker that fail
    MaxCrashes,  \* bound: crashes of the application
    None         \* no item

ASSUME WorkerConstants ==
    /\ IsFiniteSet(Terminal)
    /\ Chat \in BOOLEAN
    /\ MaxFaults \in Nat
    /\ MaxCrashes \in Nat
    /\ None \notin Item

VARIABLES
    term,        \* the sessions, by identifier
    active,      \* Worker.active
    parked,      \* Worker.parked
    generation,  \* Worker.generation
    pending,     \* commands later() has promised
    pc,          \* where the worker is in the handler it runs
    hand,        \* the handler's locals
    todo,        \* sessions tick has still to look at
    ticking,     \* the handler is tick
    faults,      \* transactions that failed so far
    crashes      \* crashes so far

memory  == <<active, parked, generation, pending>>
loop    == <<todo, ticking>>
control == <<pc, hand, loop>>
budget  == <<faults, crashes>>
vars    == <<store, tasks, work, term, memory, control, budget>>

-----------------------------------------------------------------------------
(* Types *)

Session  == [state : {"New", "Live", "Gone"}, task : Task, worked : BOOLEAN,
             asks : BOOLEAN, own : BOOLEAN, step : BOOLEAN]
Active   == [generation : Nat, item : Item, task : Task, terminal : Terminal,
             settled : Nat, asks : BOOLEAN, closing : BOOLEAN]
Command  == [kind : {"Settle", "Pause", "Renew"}, generation : Nat]
Point    == {"recover", "idle", "resume", "tick", "note", "advance", "finish",
             "blocked", "hold", "launch", "open", "started", "mark", "renew", "stop"}
Hand     == [item : Item \cup {None}, task : Task, items : SUBSET Item, state : Listed,
             after : {"advance", "hold"}, settled : Nat, generation : Nat,
             parallel : BOOLEAN]

NoHand == [item |-> None, task |-> NoTask, items |-> {}, state |-> "Queued", after |-> "advance",
           settled |-> 0, generation |-> 0, parallel |-> FALSE]

LiveOn(t) == {x \in Terminal : term[x].state = "Live" /\ term[x].task = t}

(* TaskWork.session_is_spent *)
SessionIsSpent(a) ==
    /\ term[a.terminal].state = "Live"
    /\ HasWork(a.task)
    /\ work[a.task].opens
    /\ ~work[a.task].running
    /\ term[a.terminal].worked

-----------------------------------------------------------------------------
(* Sessions, people and the clock *)

NewTerminal == CHOOSE x \in Terminal : term[x].state = "New"

(* open on a task with no live session: a fresh session, queue's own or not,  *)
(* on one step of the task or on the task itself                              *)
OpenFresh(t, own, step) ==
    /\ \E x \in Terminal : term[x].state = "New"
    /\ term' = [term EXCEPT ![NewTerminal] =
                   [state |-> "Live", task |-> t, worked |-> FALSE, asks |-> FALSE,
                    own |-> own, step |-> step]]

NoSession == [state |-> "New", task |-> NoTask, worked |-> FALSE, asks |-> FALSE,
              own |-> FALSE, step |-> FALSE]
Closed(x) == [term EXCEPT ![x] = [NoSession EXCEPT !.state = "Gone"]]

(* WorkMarker: the step a session was on is put back if it was running, and   *)
(* the step one is on now runs if it was open.  Either may be another step    *)
(* than the one running, when there are several.                              *)
StepMarked(t, released, marked) ==
    \E running \in BOOLEAN :
        /\ running => \/ work[t].running /\ (released => Steps > 1)
                      \/ marked /\ HasWork(t)
        /\ ~running => /\ released \/ ~work[t].running
                       /\ (marked /\ HasWork(t)) => Steps > 1
        /\ work' = [work EXCEPT ![t].running = running]

(* A person opens a session on a task or on one of its steps; a session that *)
(* is live on the task is used again, and moves to the step if on another.   *)
UserOpens(t, step) ==
    /\ t \in tasks
    /\ \/ /\ LiveOn(t) = {}
          /\ OpenFresh(t, FALSE, step)
          /\ StepMarked(t, FALSE, step)
       \/ /\ step
          /\ \E x \in LiveOn(t) :
                /\ term[x].step => Steps > 1
                /\ term' = [term EXCEPT ![x].step = TRUE]
                /\ StepMarked(t, term[x].step, TRUE)
    /\ UNCHANGED <<store, tasks, memory, control, budget>>

(* A session ends on its own or is closed by a person: the step it was opened *)
(* on is put back, one it started by itself is left to the queue.             *)
TerminalEnds(x) ==
    /\ term[x].state = "Live"
    /\ term' = Closed(x)
    /\ StepMarked(term[x].task, term[x].step, FALSE)
    /\ UNCHANGED <<store, tasks, memory, control, budget>>

(* A chat session puts up a permission prompt, or has it answered *)
PermissionPrompt(x) ==
    /\ Chat
    /\ term[x].state = "Live"
    /\ term' = [term EXCEPT ![x].asks = ~@]
    /\ UNCHANGED <<store, tasks, work, memory, control, budget>>

StartStep(x) ==
    LET t == term[x].task
    IN  /\ term[x].state = "Live" /\ t \in tasks
        /\ HasWork(t) /\ ~work[t].running
        /\ work' = [work EXCEPT ![t].running = TRUE]
        /\ UNCHANGED <<store, tasks, term, memory, control, budget>>

(* A step of t is settled, so that done of them are now: every live session on *)
(* t has seen one settle since it started, and a second step may run on.       *)
StepSettled(t, done, accepted, opens) ==
    /\ opens => done < Steps
    /\ \E running \in BOOLEAN :
          /\ running => work[t].running /\ done < Steps
          /\ work' = [work EXCEPT ![t] = [settled |-> done, running |-> running,
                                          accepted |-> accepted, opens |-> opens]]
    /\ term' = [y \in Terminal |-> IF y \in LiveOn(t) THEN [term[y] EXCEPT !.worked = TRUE]
                                                      ELSE term[y]]
    /\ UNCHANGED <<store, tasks, memory, control, budget>>

(* A claim settles a step; in a flow the claim may route back to a settled   *)
(* step and reopen it, so the count of settled steps does not rise.          *)
Claim(x, routesBack, opens) ==
    LET t == term[x].task
    IN  /\ term[x].state = "Live" /\ t \in tasks
        /\ HasWork(t)
        /\ routesBack => work[t].settled > 0
        /\ StepSettled(t, IF routesBack THEN work[t].settled ELSE work[t].settled + 1, FALSE, opens)

(* A person ticks an open or running step done by hand *)
TickDone(t, accepted, opens) ==
    /\ t \in tasks
    /\ HasWork(t)
    /\ accepted => work[t].settled + 1 = Steps
    /\ StepSettled(t, work[t].settled + 1, accepted, opens)

(* Sent back or reopened by a person: the step is open, and no longer counts *)
(* in last_settled_at.  The first step of a checklist never opens a session. *)
SendBack(t, latest, opens) ==
    /\ t \in tasks
    /\ work[t].settled > 0
    /\ work[t].settled = 1 => latest
    /\ opens => Steps > 1
    /\ work' = [work EXCEPT ![t].settled = @ - 1, ![t].accepted = FALSE, ![t].opens = opens]
    /\ term' = [y \in Terminal |-> IF latest /\ y \in LiveOn(t)
                                   THEN [term[y] EXCEPT !.worked = FALSE] ELSE term[y]]
    /\ UNCHANGED <<store, tasks, memory, control, budget>>

Accept(t) ==
    /\ t \in tasks
    /\ ~HasWork(t) /\ ~work[t].accepted
    /\ work' = [work EXCEPT ![t].accepted = TRUE]
    /\ UNCHANGED <<store, tasks, term, memory, control, budget>>

-----------------------------------------------------------------------------
(* The worker: moving through a handler *)

Goto(point)       == pc' = point /\ hand' = NoHand
GotoWith(point,h) == pc' = point /\ hand' = h

(* The handler is over; inside tick, the loop over the sessions goes on.     *)
Return == Goto(IF ticking THEN "tick" ELSE "idle")

(* What the next point of the handler needs to mark an item and go on *)
Mark(i, s, after) == GotoWith("mark", [NoHand EXCEPT !.item = i, !.state = s, !.after = after])

Forgotten(a) == active \ {a}

(* release_running_steps *)
Released(t) == IF t \in tasks THEN [work EXCEPT ![t].running = FALSE] ELSE work

(* Mutant: the terminal closes and the running steps stay running *)
CloseSessionOnly(a) == term' = Closed(a.terminal) /\ work' = work

(* close_session: close the terminal, then put back the running steps *)
CloseSession(a) == term' = Closed(a.terminal) /\ work' = Released(a.task)

(* Mutant: the session is marked closing and nothing is promised *)
CloseNever(a, kind) ==
    /\ active' = (active \ {a}) \cup {[a EXCEPT !.closing = TRUE]}
    /\ UNCHANGED pending

(* mark_closing followed by later(command) *)
CloseLater(a, kind) ==
    /\ active' = (active \ {a}) \cup {[a EXCEPT !.closing = TRUE]}
    /\ pending' = pending \cup {[kind |-> kind, generation |-> a.generation]}

(* ceiling: with no ceiling set the verdict is clear, otherwise it is        *)
(* whatever the usage reading says                                           *)
Verdicts == IF queue.ceiling THEN {"clear", "over"} ELSE {"clear"}

-----------------------------------------------------------------------------
(* review, the decision about the session in hand on a task *)

(* The session review finds: the first, that is the oldest, on the task *)
OnTask(t) ==
    {a \in active : a.task = t /\ \A b \in active : b.task = t => a.generation <= b.generation}

(* The work is done, a boundary was crossed, or the session is spent.        *)
ReviewOpenTask(a) ==
    LET rose == work[a.task].settled > a.settled
        seen == [a EXCEPT !.settled = IF rose THEN work[a.task].settled ELSE @]
    IN  \/ /\ ~HasWork(a.task)
           /\ CloseLater(a, "Settle")
        \/ /\ HasWork(a.task) /\ rose
           /\ "over" \in Verdicts
           /\ active' = (active \ {a}) \cup {[seen EXCEPT !.closing = TRUE]}
           /\ pending' = pending \cup {[kind |-> "Pause", generation |-> a.generation]}
        \/ /\ HasWork(a.task)
           /\ rose => "clear" \in Verdicts
           /\ active' = (active \ {a}) \cup {seen}
           /\ pending' = IF SessionIsSpent(a)
                         THEN pending \cup {[kind |-> "Renew", generation |-> a.generation]}
                         ELSE pending

(* review of a task that has a session in hand which is not closing.  The    *)
(* permission note that follows it in tick is the point "note".              *)
ReviewSession(a, next) ==
    \/ /\ a.task \in tasks
       /\ ReviewOpenTask(a)
       /\ next
       /\ UNCHANGED <<term, work>>
    \/ /\ a.task \notin tasks
       /\ active' = Forgotten(a)
       /\ CloseSession(a)
       /\ Goto("advance")
       /\ UNCHANGED pending

HandleReview(t) ==
    /\ pc = "idle"
    /\ \E a \in OnTask(t) : ~a.closing /\ ReviewSession(a, Return)
    /\ UNCHANGED <<store, tasks, parked, generation, loop, budget>>

-----------------------------------------------------------------------------
(* session_ended, for the session a in hand whose terminal went away *)

SessionGone(a) ==
    /\ active' = Forgotten(a)
    /\ work' = Released(a.task)
    /\ Mark(a.item, IF a.task \in tasks /\ ~HasWork(a.task) THEN "Finished" ELSE "Failed", "advance")
    /\ UNCHANGED <<term, pending>>

(* The first session in hand on the terminal, unless it is closing *)
InHandOn(x) ==
    {a \in active : /\ a.terminal = x /\ ~a.closing
                    /\ \A b \in active : b.terminal = x => a.generation <= b.generation}

HandleSessionEnded(x) ==
    /\ pc = "idle"
    /\ term[x].state = "Gone"
    /\ \E a \in InHandOn(x) : SessionGone(a)
    /\ UNCHANGED <<store, tasks, parked, generation, loop, budget>>

-----------------------------------------------------------------------------
(* tick *)

(* The snapshot: nothing to do while idle or before the time; otherwise      *)
(* resume first, or look at the sessions.                                    *)
HandleTick ==
    /\ pc = "idle"
    /\ \/ queue.state = "Running" /\ Goto("tick")
       \/ queue.state \in {"Scheduled", "Holding"} /\ due /\ Goto("resume")
    /\ ticking' = TRUE
    /\ todo' = active
    /\ UNCHANGED <<store, tasks, work, term, memory, budget>>

Resume ==
    /\ pc = "resume"
    /\ ResumeQueue
    /\ Goto("tick")
    /\ UNCHANGED <<tasks, work, term, memory, loop, budget>>

(* tick's own look: the session of the clone c is gone and its end was missed *)
EndMissedNever(c) == FALSE
EndMissed(c) == ~c.closing /\ term[c.terminal].state # "Live"

(* One turn of tick's loop, on the clone c of a session taken when the loop  *)
(* began: its end was missed, or it is reviewed and its prompt noted.        *)
TickSession(c) ==
    LET dead   == EndMissed(c)
        differ == \E a \in active : a.generation = c.generation /\ a.asks # term[a.terminal].asks
        next   == IF differ THEN GotoWith("note", [NoHand EXCEPT !.generation = c.generation])
                            ELSE Goto("tick")
        open   == {a \in OnTask(c.task) : ~a.closing}
    IN  /\ pc = "tick"
        /\ c \in todo /\ \A d \in todo : c.generation <= d.generation
        /\ todo' = todo \ {c}
        /\ \/ dead /\ \E a \in InHandOn(c.terminal) : SessionGone(a)
           \/ dead /\ InHandOn(c.terminal) = {} /\ Goto("tick")
                   /\ UNCHANGED <<active, pending, term, work>>
           \/ ~dead /\ \E a \in open : ReviewSession(a, next)
           \/ ~dead /\ open = {} /\ next /\ UNCHANGED <<active, pending, term, work>>
        /\ UNCHANGED <<store, tasks, parked, generation, ticking, budget>>

(* note_permission_wait: the item says that its session waits on a prompt,   *)
(* or no longer says so.                                                     *)
NotePermissionWait ==
    /\ pc = "note"
    /\ \E a \in active :
          /\ a.generation = hand.generation
          /\ active' = (active \ {a}) \cup {[a EXCEPT !.asks = term[a.terminal].asks]}
          /\ items' = IF items[a.item].state \in Listed
                      THEN [items EXCEPT ![a.item].state = "Running",
                                         ![a.item].asks = term[a.terminal].asks]
                      ELSE items
    /\ Return
    /\ UNCHANGED <<queue, due, tasks, work, term, parked, generation, pending, loop, budget>>

(* Mutant: tick looks at the sessions and starts nothing *)
TickReturns ==
    /\ pc = "tick"
    /\ todo = {}
    /\ ticking' = FALSE
    /\ Goto("idle")
    /\ UNCHANGED <<store, tasks, work, term, memory, todo, budget>>

TickAdvances ==
    /\ pc = "tick"
    /\ todo = {}
    /\ ticking' = FALSE
    /\ Goto("advance")
    /\ UNCHANGED <<store, tasks, work, term, memory, todo, budget>>

-----------------------------------------------------------------------------
(* advance: the snapshot, next_turn and the usage reading, then what the     *)
(* outcome calls for                                                         *)

Advance ==
    /\ pc = "advance"
    /\ \/ /\ queue.state # "Running" \/ Cardinality(active) >= queue.places
          /\ Return
       \/ /\ queue.state = "Running" /\ Cardinality(active) < queue.places
          /\ \/ /\ Queued = {}
                /\ IF active = {} THEN Goto("finish") ELSE Return
             \/ /\ Blocked(parked)
                /\ IF active = {} THEN GotoWith("blocked", [NoHand EXCEPT !.items = Queued])
                                  ELSE Return
             \/ \E i \in Item, verdict \in Verdicts :
                   /\ Ready(i, parked)
                   /\ CASE verdict = "clear" ->
                             GotoWith("launch", [NoHand EXCEPT !.item = i, !.task = items[i].task,
                                                               !.parallel = queue.places > 1])
                        [] verdict = "over" ->
                             IF active = {} THEN Goto("hold") ELSE Return
    /\ UNCHANGED <<store, tasks, work, term, memory, loop, budget>>

Finish ==
    /\ pc = "finish"
    /\ FinishQueue
    /\ Return
    /\ UNCHANGED <<tasks, work, term, memory, loop, budget>>

(* The queue stops, and the worker forgets what it parked *)
StopBlocked ==
    /\ pc = "blocked"
    /\ StopBlockedQueue(hand.items)
    /\ parked' = {}
    /\ Return
    /\ UNCHANGED <<tasks, work, term, active, generation, pending, loop, budget>>

Hold ==
    /\ pc = "hold"
    /\ HoldQueue
    /\ Return
    /\ UNCHANGED <<tasks, work, term, memory, loop, budget>>

-----------------------------------------------------------------------------
(* launch *)

(* The reads: no task, nothing open, or a session already on the task *)
Launch ==
    /\ pc = "launch"
    /\ LET i == hand.item
           t == hand.task
       IN  \/ /\ t \notin tasks
              /\ MarkItem(i, "Failed") /\ Goto("advance")
           \/ /\ t \in tasks /\ ~HasWork(t)
              /\ MarkItem(i, "Skipped") /\ Goto("advance")
           \/ /\ t \in tasks /\ HasWork(t) /\ LiveOn(t) # {}
              /\ MarkItem(i, "Failed") /\ Goto("advance")
           \/ /\ t \in tasks /\ HasWork(t) /\ LiveOn(t) = {}
              /\ GotoWith("open", [hand EXCEPT !.settled = work[t].settled])
              /\ UNCHANGED items
    /\ UNCHANGED <<queue, due, tasks, work, term, memory, loop, budget>>

(* The session opened is in hand before the item is marked running *)
Opened(x) ==
    /\ generation' = generation + 1
    /\ active' = active \cup {[generation |-> generation + 1, item |-> hand.item,
                               task |-> hand.task, terminal |-> x,
                               settled |-> hand.settled, asks |-> FALSE, closing |-> FALSE]}
    /\ GotoWith("started", [NoHand EXCEPT !.item = hand.item])

(* The worktree when several run at once, then the session: parked for want  *)
(* of a worktree, refused, reusing the session now live on the task, or new. *)
Open ==
    /\ pc = "open"
    /\ LET i == hand.item
           t == hand.task
       IN  \/ /\ hand.parallel
              /\ parked' = parked \cup {i}
              /\ MarkItem(i, "Queued")
              /\ Goto("advance")
              /\ UNCHANGED <<term, active, generation>>
           \/ /\ MarkItem(i, "Failed")
              /\ Goto("advance")
              /\ UNCHANGED <<term, active, parked, generation>>
           \/ /\ t \in tasks
              /\ \E x \in LiveOn(t) : Opened(x)
              /\ UNCHANGED <<items, term, parked>>
           \/ /\ t \in tasks
              /\ LiveOn(t) = {}
              /\ OpenFresh(t, TRUE, FALSE)
              /\ Opened(NewTerminal)
              /\ UNCHANGED <<items, parked>>
    /\ UNCHANGED <<queue, due, tasks, work, pending, loop, budget>>

(* Mutant: the item is left waiting *)
StartedUnmarked ==
    /\ pc = "started"
    /\ Goto("advance")
    /\ UNCHANGED <<store, tasks, work, term, memory, loop, budget>>

(* mark_item(Running), then around advance's loop *)
Started ==
    /\ pc = "started"
    /\ MarkItem(hand.item, "Running")
    /\ Goto("advance")
    /\ UNCHANGED <<queue, due, tasks, work, term, memory, loop, budget>>

-----------------------------------------------------------------------------
(* What was promised for after the grace *)

Taken(c) == pending' = pending \ {c}

(* settle and pause: forget and close, whatever has happened since; the item *)
(* is marked at the next point.                                              *)
HandleSettleOrPause(c) ==
    /\ pc = "idle"
    /\ c \in pending /\ c.kind \in {"Settle", "Pause"}
    /\ Taken(c)
    /\ \E a \in active :
          /\ a.generation = c.generation
          /\ active' = Forgotten(a)
          /\ CloseSession(a)
          /\ IF c.kind = "Settle" THEN Mark(a.item, "Finished", "advance")
                                  ELSE Mark(a.item, "Queued", "hold")
    /\ UNCHANGED <<store, tasks, parked, generation, loop, budget>>

(* mark_item, then advance, or after a pause hold if no session is left *)
MarkAndGoOn ==
    /\ pc = "mark"
    /\ MarkItem(hand.item, hand.state)
    /\ CASE hand.after = "advance" -> Goto("advance")
         [] hand.after = "hold"    -> IF active = {} THEN Goto("hold") ELSE Return
    /\ UNCHANGED <<queue, due, tasks, work, term, memory, loop, budget>>

(* renew: decided again after the grace; then the old session closes *)
HandleRenew(c) ==
    /\ pc = "idle"
    /\ c \in pending /\ c.kind = "Renew"
    /\ Taken(c)
    /\ \E a \in active :
          /\ a.generation = c.generation
          /\ ~a.closing /\ a.task \in tasks /\ SessionIsSpent(a)
          /\ active' = (active \ {a}) \cup {[a EXCEPT !.closing = TRUE]}
          /\ term' = Closed(a.terminal)
    /\ GotoWith("renew", [NoHand EXCEPT !.generation = c.generation])
    /\ UNCHANGED <<store, tasks, work, parked, generation, loop, budget>>

Renewed(a, x) ==
    /\ active' = (active \ {a}) \cup {[a EXCEPT !.terminal = x, !.closing = FALSE]}
    /\ Return
    /\ UNCHANGED work

(* ... and the next one opens on the same item, or the item fails *)
Renew ==
    /\ pc = "renew"
    /\ \E a \in active :
          /\ a.generation = hand.generation
          /\ \/ /\ a.task \in tasks
                /\ \E x \in LiveOn(a.task) : Renewed(a, x)
                /\ UNCHANGED term
             \/ /\ a.task \in tasks
                /\ LiveOn(a.task) = {}
                /\ OpenFresh(a.task, TRUE, FALSE)
                /\ Renewed(a, NewTerminal)
             \/ /\ active' = Forgotten(a)
                /\ work' = Released(a.task)
                /\ Mark(a.item, "Failed", "advance")
                /\ UNCHANGED term
    /\ UNCHANGED <<store, tasks, parked, generation, pending, loop, budget>>

(* A promised command that no longer applies changes nothing: its session    *)
(* was forgotten, or for renew is closing or not spent any more.             *)
HandleStale(c) ==
    /\ pc = "idle"
    /\ c \in pending
    /\ \A a \in active :
          a.generation = c.generation =>
              /\ c.kind = "Renew"
              /\ a.closing \/ a.task \notin tasks \/ ~SessionIsSpent(a)
    /\ Taken(c)
    /\ UNCHANGED <<store, tasks, work, term, active, parked, generation, control, budget>>

-----------------------------------------------------------------------------
(* Stop from the console, handled by the worker *)

(* Every session in hand is closed and the parked items are forgotten; the    *)
(* rows are written at the next point.                                        *)
HandleStop ==
    /\ pc = "idle"
    /\ active' = {}
    /\ parked' = {}
    /\ term' = [x \in Terminal |-> IF \E a \in active : a.terminal = x THEN Closed(x)[x] ELSE term[x]]
    /\ work' = [t \in Task |-> IF t \in tasks /\ \E a \in active : a.task = t
                               THEN [work[t] EXCEPT !.running = FALSE] ELSE work[t]]
    /\ Goto("stop")
    /\ UNCHANGED <<store, tasks, generation, pending, loop, budget>>

Stop ==
    /\ pc = "stop"
    /\ StopQueue
    /\ Return
    /\ UNCHANGED <<tasks, work, term, memory, loop, budget>>

-----------------------------------------------------------------------------
(* Failure *)

(* guarded: a transaction fails, the error leaves the handler, and what the  *)
(* handler had already changed stays.  renew turns every failure into a      *)
(* failed item, so it is not abandoned half way.                             *)
HandlerFails ==
    /\ faults < MaxFaults
    /\ pc \notin {"idle", "renew"}
    /\ faults' = faults + 1
    /\ Goto("idle")
    /\ todo' = {}
    /\ ticking' = FALSE
    /\ UNCHANGED <<store, tasks, work, term, memory, crashes>>

(* The application dies: the worker's memory and every session go, the store *)
(* stays as it is, steps marked running included.                            *)
Crash ==
    /\ crashes < MaxCrashes
    /\ crashes' = crashes + 1
    /\ active' = {}
    /\ parked' = {}
    /\ generation' = 0
    /\ pending' = {}
    /\ todo' = {}
    /\ ticking' = FALSE
    /\ Goto("recover")
    /\ term' = [x \in Terminal |-> IF term[x].state = "Live" THEN Closed(x)[x] ELSE term[x]]
    /\ UNCHANGED <<store, tasks, work, faults>>

(* recover_after_restart, before the first command *)
Recover ==
    /\ pc = "recover"
    /\ RecoverAfterRestart
    /\ Goto("idle")
    /\ UNCHANGED <<tasks, work, term, memory, loop, budget>>

-----------------------------------------------------------------------------
(* Specification *)

Init ==
    /\ queue = [state |-> "Idle", places |-> 1, ceiling |-> FALSE]
    /\ due = FALSE
    /\ items = [i \in Item |-> NoRow]
    /\ tasks = Task
    /\ work = [t \in Task |-> NoWork]
    /\ term = [x \in Terminal |-> NoSession]
    /\ active = {} /\ parked = {} /\ generation = 0 /\ pending = {}
    /\ pc = "recover" /\ hand = NoHand /\ todo = {} /\ ticking = FALSE
    /\ faults = 0 /\ crashes = 0

(* The store's own operations leave sessions and the worker's memory alone *)
OutsideWorker == UNCHANGED <<term, memory, control, budget>>

TimePasses == TimeComes /\ OutsideWorker

Console ==
    \/ \E t \in Task : Add(t) /\ OutsideWorker
    \/ \E t \in Task : AddAndArm(t) /\ OutsideWorker
    \/ \E i \in Item : Remove(i) /\ OutsideWorker
    \/ \E i \in Item, at \in 0 .. Cardinality(Item) : MoveTo(i, at) /\ OutsideWorker
    \/ ClearSettled /\ OutsideWorker
    \/ \E later \in BOOLEAN : Start(later) /\ OutsideWorker
    \/ \E places \in 1 .. MaxPlaces, ceiling \in BOOLEAN :
          UpdateSettings(places, ceiling) /\ OutsideWorker
    \/ \E t \in Task : DeleteTask(t) /\ OutsideWorker

People ==
    \/ \E t \in Task : Accept(t) \/ \E step \in BOOLEAN : UserOpens(t, step)
    \/ \E t \in Task, latest, opens \in BOOLEAN :
          SendBack(t, latest, opens) \/ TickDone(t, latest, opens)

Sessions ==
    \E x \in Terminal :
        \/ TerminalEnds(x) \/ PermissionPrompt(x) \/ StartStep(x)
        \/ \E routesBack, opens \in BOOLEAN : Claim(x, routesBack, opens)

HandlePending == \E c \in pending : HandleSettleOrPause(c) \/ HandleRenew(c) \/ HandleStale(c)

(* The rest of the handler the worker is in *)
InHandler ==
    \/ Recover \/ Resume \/ NotePermissionWait \/ TickAdvances
    \/ \E c \in todo : TickSession(c)
    \/ Advance \/ Finish \/ StopBlocked \/ Hold \/ Launch \/ Open \/ Started
    \/ MarkAndGoOn \/ Renew \/ Stop

Signals ==
    \/ \E t \in Task : HandleReview(t)
    \/ \E x \in Terminal : HandleSessionEnded(x)
    \/ HandleStop

Next ==
    \/ Console \/ People \/ Sessions \/ TimePasses
    \/ HandleTick \/ HandlePending \/ Signals \/ InHandler
    \/ HandlerFails \/ Crash

Spec == Init /\ [][Next]_vars

(* The worker gets processor time: a handler it is in goes on, and the inbox  *)
(* is a queue, so a command that can be handled again and again is: the tick  *)
(* the clock sends, and each promised command once its grace is over.         *)
(* Nothing is assumed of sessions, people or the events that may be lost.     *)
Fairness ==
    /\ WF_vars(InHandler)
    /\ SF_vars(HandleTick)
    /\ \A g \in 1 .. Cardinality(Terminal) :
          SF_vars(\E c \in pending : c.generation = g
                     /\ (HandleSettleOrPause(c) \/ HandleRenew(c) \/ HandleStale(c)))
    /\ WF_vars(TimePasses)

-----------------------------------------------------------------------------
(* Safety *)

(* The state has the types the code declares.                                *)
TypeOK ==
    /\ queue \in QueueRow
    /\ due \in BOOLEAN
    /\ items \in [Item -> ItemRow]
    /\ tasks \subseteq Task
    /\ work \in [Task -> Work]
    /\ term \in [Terminal -> Session]
    /\ active \subseteq Active
    /\ parked \subseteq Item
    /\ generation \in Nat
    /\ pending \subseteq Command
    /\ pc \in Point
    /\ hand \in Hand
    /\ todo \subseteq Active
    /\ ticking \in BOOLEAN
    /\ faults \in Nat
    /\ crashes \in Nat

(* The queue leaves Running, to finish, to stop blocked or to hold, only when *)
(* no session is left: while the worker has one in hand the stored queue is   *)
(* Running, whatever the console does meanwhile.                              *)
SessionsOnlyWhileRunning == active # {} => queue.state = "Running"

(* A session marked closing takes a place that only a promised Settle or      *)
(* Pause gives back: the promise is there as long as the session is, except   *)
(* inside renew, which sets and clears the mark in one handler.               *)
ClosingIsPromised ==
    \A a \in active :
        a.closing =>
            \/ \E c \in pending : c.generation = a.generation /\ c.kind \in {"Settle", "Pause"}
            \/ pc = "renew" /\ hand.generation = a.generation

(* Each session in hand works a task of its own (run_queue_worker.rs, first   *)
(* lines), as long as no transaction of the worker failed: two on one task    *)
(* mean that the item of one was taken off the list before it was marked      *)
(* running, and the task queued anew.                                         *)
OneSessionPerTask ==
    faults = 0 =>
        \A a, b \in active :
            a.task = b.task => a = b \/ "Gone" \in {items[a.item].state, items[b.item].state}

(* Between two commands every item stored as Running has its session in hand, *)
(* also after a restart; otherwise it could neither settle nor be removed.    *)
(* A transaction that fails half way through a handler may leave one behind.  *)
RunningItemIsWorked ==
    (pc = "idle" /\ faults = 0) => \A i \in InState("Running") : \E a \in active : a.item = i

(* An item parked for want of a worktree is passed over until the queue is    *)
(* armed again: an idle queue has no waiting item that is still parked.       *)
ParkedForOneRun == (pc = "idle" /\ queue.state = "Idle") => parked \cap Queued = {}

(* Among the sessions the queue opens, a running step belongs to one that is  *)
(* live, or whose end the worker still has to notice: whatever way a session  *)
(* of the queue goes, its step is put back.                                   *)
RunningStepHasSession ==
    \A t \in tasks : work[t].running => LiveOn(t) # {} \/ \E a \in active : a.task = t

(* The positions of the listed items are 0, 1, 2, ... without gap or double.  *)
DensePositions ==
    /\ \A i \in ListedItems : items[i].position < Cardinality(ListedItems)
    /\ \A i, j \in ListedItems : items[i].position = items[j].position => i = j

(* A generation names one session in hand *)
Numbered ==
    /\ \A a, b \in active : a.generation = b.generation => a = b
    /\ \A a \in active : a.generation <= generation

(* Items are parked while the queue runs, and forgotten with the run *)
ParkedInRun ==
    /\ \A i \in parked : items[i].state # "New"
    /\ queue.state = "Idle" => parked \cap Queued = {}

(* What the handlers rely on, and what SessionsOnlyWhileRunning,              *)
(* ClosingIsPromised and ParkedForOneRun follow from: a decision that ends a  *)
(* run is taken with no session in hand, and what a handler still has to      *)
(* write about an item is written to a queue that still runs.                 *)
WorkerInv ==
    /\ pc \in {"finish", "blocked", "hold", "stop", "recover"} => active = {}
    /\ pc \in {"stop", "recover"} => parked = {}
    /\ pc \in {"launch", "open", "mark"} => queue.state = "Running"
    /\ pc \in {"launch", "open"} => items[hand.item].state # "New"
    /\ SessionsOnlyWhileRunning
    /\ ClosingIsPromised
    /\ Numbered
    /\ ParkedInRun

(* A listed item is one of a task that exists, and a task has at most one     *)
(* item that waits or is worked.                                              *)
ItemsOfTasks ==
    /\ \A i \in ListedItems : items[i].task \in tasks
    /\ \A i, j \in Queued \cup InState("Running") : items[i].task = items[j].task => i = j

(* A session in hand has an item of its own, which is on the session's task   *)
(* and running, still to be marked so, or gone.                               *)
SessionsHaveItems ==
    /\ \A a, b \in active : a.item = b.item => a = b
    /\ \A a \in active :
          /\ \/ items[a.item].state \in {"Running", "Gone"}
             \/ pc = "started" /\ hand.item = a.item /\ items[a.item].state = "Queued"
          /\ items[a.item].state # "Gone" => items[a.item].task = a.task

(* A running item has its session in hand, unless a handler that closed the   *)
(* session has still to write the item.                                       *)
RunningHasSession ==
    \A i \in InState("Running") :
        \/ \E a \in active : a.item = i
        \/ pc = "mark" /\ hand.item = i
        \/ pc \in {"stop", "recover"}

(* What a handler read of an item before an await is true after it, or the    *)
(* item is gone.                                                              *)
HandIsFresh ==
    /\ pc \in {"launch", "open"} =>
          /\ items[hand.item].state \in {"Queued", "Gone"}
          /\ items[hand.item].state = "Queued" => items[hand.item].task = hand.task
          /\ \A a \in active : a.item # hand.item
    /\ pc = "started" => /\ items[hand.item].state \in {"Queued", "Gone"}
                         /\ \E a \in active : a.item = hand.item
    /\ pc = "mark" => /\ items[hand.item].state \in {"Running", "Gone"} /\ hand.state # "Running"
                      /\ \A a \in active : a.item # hand.item
    /\ pc = "blocked" => \A i \in hand.items : items[i].state \in {"Queued", "Gone"}

(* How items and sessions belong together while no transaction fails: what    *)
(* OneSessionPerTask, RunningItemIsWorked and KeepsPromise follow from.       *)
ItemsInHand ==
    faults = 0 => ItemsOfTasks /\ SessionsHaveItems /\ RunningHasSession /\ HandIsFresh

-----------------------------------------------------------------------------
(* Action properties *)

(* finish never disarms the queue under an item added since advance looked.   *)
FinishStrandsNothing ==
    [][(pc = "finish" /\ queue.state = "Running" /\ queue'.state = "Idle") => Queued = {}]_vars

-----------------------------------------------------------------------------
(* The queue's promise to whoever fills it *)

LifeOf(state) ==
    CASE state = "New"       -> "new"
      [] state = "Queued"    -> "waiting"
      [] state = "Running"   -> "worked"
      [] state \in Settled   -> "settled"
      [] state = "Gone"      -> "gone"

Promise == INSTANCE QueuePromise WITH
    life  <- [i \in Item |-> LifeOf(items[i].state)],
    about <- [i \in Item |-> items[i].task]

(* Although mark_item, stop_blocked and the prompt's note write by identifier *)
(* whatever the state, the rows only move as QueuePromise says: a task waits  *)
(* or is worked once, and an outcome is final.                                *)
KeepsPromise == Promise!Spec

-----------------------------------------------------------------------------
(* Liveness *)

(* A session marked closing gives its place back.                             *)
ClosingEnds ==
    \A g \in 1 .. Cardinality(Terminal) :
        (\E a \in active : a.generation = g /\ a.closing) ~>
            ~ \E a \in active : a.generation = g /\ a.closing

(* The end of a session in hand is noticed even when its announcement is lost. *)
EndIsNoticed ==
    \A x \in Terminal :
        (\E a \in active : a.terminal = x /\ term[x].state = "Gone") ~>
            ~ \E a \in active : a.terminal = x

(* A running queue with no session in hand opens one, or finishes, stops or   *)
(* holds: it is never left armed in silence.                                  *)
NeverArmedInSilence ==
    (queue.state = "Running" /\ active = {}) ~> (queue.state # "Running" \/ active # {})

(* A hold ends.                                                               *)
HoldEnds == (queue.state = "Holding") ~> (queue.state # "Holding")

(* The detail that says a session waits on a prompt goes once the prompt is   *)
(* answered or the session is over.                                           *)
PromptNoteIsTakenBack ==
    \A i \in Item :
        items[i].asks ~> (~items[i].asks \/ \E x \in Terminal : term[x].asks)

(* Nothing the queue waits for is waited for in vain: a hold, a session marked *)
(* closing, the end of a session, the note of a prompt.                        *)
NothingWaitsForever == HoldEnds /\ ClosingEnds /\ EndIsNoticed /\ PromptNoteIsTakenBack

=============================================================================
