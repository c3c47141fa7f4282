---------------------------- MODULE SessionHosts ----------------------------
(***************************************************************************)
(* The two hosts of live `claude` sessions, terminals in a PTY and headless *)
(* chats, behind the one front the queue, the relay and the console call.   *)
(* An opening is cut at its awaits; a session ends because its process      *)
(* exits, because somebody closes it, because the sweep finds it idle, or   *)
(* because its host shuts down, and every way runs the same last steps.     *)
(***************************************************************************)
EXTENDS Naturals, FiniteSets

CONSTANTS
    Id,         \* the ids sessions draw, each once
    Caller,     \* the calls in flight that open a session
    Task,       \* the tasks sessions are opened on
    Released,   \* how many released steps each task has
    MaxLive,    \* max_sessions
    Opening     \* the openings asked for: kind, task, step and mode

Kind == {"terminal", "chat"}
Mode == {"work", "plan"}

ASSUME HostConstants ==
    /\ IsFiniteSet(Id)
    /\ Released \in [Task -> Nat]
    /\ MaxLive \in Nat \ {0}
    /\ \A o \in Opening : o[1] \in Kind /\ o[2] \in Task /\ o[3] \in 0 .. Released[o[2]] /\ o[4] \in Mode

FollowsSteps(mode) == mode = "work"

(* Step 0 of a task is the task alone, whose mark is the review line *)
Line == UNION {{<<t, s>> : s \in 0 .. Released[t]} : t \in Task}
ReviewActive(t) == Released[t] = 0

VARIABLES
    sess,      \* the sessions ever started, by id
    proc,      \* the process of each id
    leaving,   \* the ids whose exit is observed and not yet handled
    live,      \* the ids in either live map
    held,      \* the ids with an open credential session
    line,      \* the state of every step and review line
    call,      \* the openings in flight
    ending,    \* how far the end of each id has come
    told,      \* how often the end of each id was announced
    sweep,     \* the ids a sweep of a host has still to close
    stopped,   \* the hosts told to shut down
    relay,     \* the renewals the relay has in hand, by id
    since      \* the ids whose task had a step settled since they started

hosts == <<sess, proc, leaving, live, held, line, call, ending, told, sweep, stopped, relay, since>>

NoSession == [kind |-> "none"]
Session   == [kind : Kind, task : Task, step : Nat, mode : Mode]
NoCall    == [pc |-> "none"]
Call      == [pc : {"resolve", "start", "register", "insert", "mark", "drop", "move", "type"},
              kind : Kind, task : Task, step : Nat, mode : Mode, id : Id]

Marked(t, s)      == {<<t, s>>} \ {<<u, 0>> : u \in {v \in Task : ~ReviewActive(v)}}
Of(kind)          == {i \in live : sess[i].kind = kind}
LiveOn(kind, t)   == {i \in Of(kind) : sess[i].task = t}
Alive(i)          == proc[i] = "running"
Goto(c, pc)       == call' = [call EXCEPT ![c].pc = pc]
Finish(c)         == call' = [call EXCEPT ![c] = NoCall]

(* WorkMarker::mark_running and release_running, each one transaction *)
MarkRunning(t, s) ==
    line' = [l \in Line |-> IF l \in Marked(t, s) /\ line[l] = "open" THEN "running" ELSE line[l]]

ReleaseRunning(t, s) ==
    line' = [l \in Line |-> IF l \in Marked(t, s) /\ line[l] = "running" THEN "open" ELSE line[l]]

HostsInit ==
    /\ sess = [i \in Id |-> NoSession] /\ proc = [i \in Id |-> "none"]
    /\ leaving = {} /\ live = {} /\ held = {} /\ stopped = {} /\ since = {}
    /\ line = [l \in Line |-> "open"]
    /\ call = [c \in Caller |-> NoCall]
    /\ ending = [i \in Id |-> "no"] /\ told = [i \in Id |-> 0]
    /\ sweep = [k \in Kind |-> {}]
    /\ relay = [i \in Id |-> "no"]

-----------------------------------------------------------------------------
(* SessionHosts::require_room_for, read from both maps with no lock held *)
RoomFor(kind, t) == LiveOn(kind, t) # {} \/ Cardinality(live) < MaxLive

(* SessionHosts::open up to the first await; only work is on a step *)
Open(c, kind, t, s, mode) ==
    /\ call[c] = NoCall
    /\ RoomFor(kind, t)
    /\ \E i \in Id :
        /\ sess[i] = NoSession /\ \A d \in Caller : call[d] # NoCall => call[d].id # i
        /\ call' = [call EXCEPT ![c] = [pc |-> "resolve", kind |-> kind, task |-> t,
                        step |-> IF FollowsSteps(mode) THEN s ELSE 0, mode |-> mode, id |-> i]]
    /\ UNCHANGED <<sess, proc, leaving, live, held, line, ending, told, sweep, stopped, relay, since>>

(* The launch is resolved: the session already on the target is reused, and *)
(* a work opening moves it to its step; with none a new one is started      *)
Resolve(c) ==
    /\ call[c].pc = "resolve"
    /\ \/ \E i \in LiveOn(call[c].kind, call[c].task) :
            call' = [call EXCEPT ![c] = [@ EXCEPT !.id = i, !.pc =
                IF FollowsSteps(call[c].mode) /\ call[c].step \notin {0, sess[i].step} THEN "drop" ELSE "type"]]
       \/ LiveOn(call[c].kind, call[c].task) = {} /\ Goto(c, "start")
    /\ UNCHANGED <<sess, proc, leaving, live, held, line, ending, told, sweep, stopped, relay, since>>

(* require_folder and require_cli refuse; environment opens credentials *)
Start(c) ==
    /\ call[c].pc = "start"
    /\ \/ Finish(c) /\ UNCHANGED held
       \/ Goto(c, "register") /\ held' = held \cup {call[c].id}
    /\ UNCHANGED <<sess, proc, leaving, live, line, ending, told, sweep, stopped, relay, since>>

(* register: the cap is read and the process spawned behind the host's gate. *)
(* A terminal's process runs before its host records it; a chat's is recorded *)
(* before anything follows it                                                *)
GateFree(kind) == \A d \in Caller : ~(call[d].pc = "insert" /\ call[d].kind = kind)

Refused(c) ==
    /\ call[c].pc = "register" /\ GateFree(call[c].kind)
    /\ held' = held \ {call[c].id}
    /\ Finish(c)
    /\ UNCHANGED <<sess, proc, leaving, live, line, ending, told, sweep, stopped, relay, since>>

Spawned(c) ==
    /\ sess' = [sess EXCEPT ![call[c].id] = [kind |-> call[c].kind, task |-> call[c].task,
                                             step |-> call[c].step, mode |-> call[c].mode]]
    /\ proc' = [proc EXCEPT ![call[c].id] = "running"]

SpawnTerminal(c) ==
    /\ call[c].pc = "register" /\ call[c].kind = "terminal" /\ GateFree("terminal")
    /\ Cardinality(Of("terminal")) < MaxLive
    /\ Spawned(c)
    /\ Goto(c, "insert")
    /\ UNCHANGED <<leaving, live, held, line, ending, told, sweep, stopped, relay, since>>

SpawnChat(c) ==
    /\ call[c].pc = "register" /\ call[c].kind = "chat"
    /\ Cardinality(Of("chat")) < MaxLive
    /\ Spawned(c)
    /\ live' = live \cup {call[c].id}
    /\ Goto(c, "mark")
    /\ UNCHANGED <<leaving, held, line, ending, told, sweep, stopped, relay, since>>

Insert(c) ==
    /\ call[c].pc = "insert"
    /\ live' = live \cup {call[c].id}
    /\ Goto(c, "mark")
    /\ UNCHANGED <<sess, proc, leaving, held, line, ending, told, sweep, stopped, relay, since>>

(* mark_running at the end of open: a terminal marks in every mode, a chat  *)
(* only when it follows the steps                                           *)
Mark(c) ==
    /\ call[c].pc = "mark"
    /\ IF call[c].kind = "terminal" \/ FollowsSteps(call[c].mode)
       THEN MarkRunning(call[c].task, call[c].step) ELSE UNCHANGED line
    /\ Finish(c)
    /\ UNCHANGED <<sess, proc, leaving, live, held, ending, told, sweep, stopped, relay, since>>

(* retarget: the step the session was on is given back, then it is put on   *)
(* the new one, then that one is marked                                     *)
RetargetDrop(c) ==
    /\ call[c].pc = "drop"
    /\ ReleaseRunning(sess[call[c].id].task, sess[call[c].id].step)
    /\ sess' = [sess EXCEPT ![call[c].id].step = call[c].step]
    /\ Goto(c, "move")
    /\ UNCHANGED <<proc, leaving, live, held, ending, told, sweep, stopped, relay, since>>

RetargetMark(c) ==
    /\ call[c].pc = "move"
    /\ MarkRunning(call[c].task, call[c].step)
    /\ Goto(c, "type")
    /\ UNCHANGED <<sess, proc, leaving, live, held, ending, told, sweep, stopped, relay, since>>

(* The line typed into the reused session, refused when it has closed *)
Type(c) ==
    /\ call[c].pc = "type"
    /\ Finish(c)
    /\ UNCHANGED <<sess, proc, leaving, live, held, line, ending, told, sweep, stopped, relay, since>>

-----------------------------------------------------------------------------
(* close: out of the map first, so whoever comes second finds nothing *)
Take(ids, at) ==
    /\ live' = live \ ids
    /\ ending' = [i \in Id |-> IF i \in ids THEN at ELSE ending[i]]

Close(i) ==
    /\ i \in live
    /\ Take({i}, "stop")
    /\ UNCHANGED <<sess, proc, leaving, held, line, call, told, sweep, stopped, relay, since>>

(* The process has exited or the grace is over: the panes are told and the  *)
(* credential session released.  A terminal's process is then killed and    *)
(* not waited for, a chat's is                                              *)
Settle(i) ==
    /\ ending[i] = "stop"
    /\ held' = held \ {i}
    /\ ending' = [ending EXCEPT ![i] = "release"]
    /\ UNCHANGED <<sess, proc, leaving, live, line, call, told, sweep, stopped, relay, since>>

StoppedTerminal(i) == sess[i].kind = "terminal" /\ Settle(i)
StoppedChat(i)     == sess[i].kind = "chat" /\ ~Alive(i) /\ Settle(i)

(* release_running at the end of a session, then the announcement.  A       *)
(* terminal releases in every mode, a chat (finish) when it follows steps   *)
ReleaseTerminal(i) ==
    /\ ending[i] = "release" /\ sess[i].kind = "terminal"
    /\ ReleaseRunning(sess[i].task, sess[i].step)
    /\ ending' = [ending EXCEPT ![i] = "announce"]
    /\ UNCHANGED <<sess, proc, leaving, live, held, call, told, sweep, stopped, relay, since>>

FinishChat(i) ==
    /\ ending[i] = "release" /\ sess[i].kind = "chat"
    /\ IF FollowsSteps(sess[i].mode) THEN ReleaseRunning(sess[i].task, sess[i].step) ELSE UNCHANGED line
    /\ ending' = [ending EXCEPT ![i] = "announce"]
    /\ UNCHANGED <<sess, proc, leaving, live, held, call, told, sweep, stopped, relay, since>>

Announce(i) ==
    /\ ending[i] = "announce"
    /\ ending' = [ending EXCEPT ![i] = "over"]
    /\ told' = [told EXCEPT ![i] = @ + 1]
    /\ UNCHANGED <<sess, proc, leaving, live, held, line, call, sweep, stopped, relay, since>>

(* The process ends, of itself or by a signal, and its exit is observed *)
Exit(i) ==
    /\ Alive(i)
    /\ proc' = [proc EXCEPT ![i] = "exited"]
    /\ leaving' = leaving \cup {i}
    /\ UNCHANGED <<sess, live, held, line, call, ending, told, sweep, stopped, relay, since>>

(* Mutant: the exit ends the session whether or not it is in the map *)
OnExitAlways(i) ==
    /\ i \in leaving
    /\ leaving' = leaving \ {i}
    /\ Take({i}, "release") /\ held' = held \ {i}
    /\ UNCHANGED <<sess, proc, line, call, told, sweep, stopped, relay, since>>

(* on_exit: nothing to do for an id that is not in the map *)
OnExit(i) ==
    /\ i \in leaving
    /\ leaving' = leaving \ {i}
    /\ IF i \in live
       THEN Take({i}, "release") /\ held' = held \ {i}
       ELSE UNCHANGED <<live, ending, held>>
    /\ UNCHANGED <<sess, proc, line, call, told, sweep, stopped, relay, since>>

(* sweep_idle: the sessions with no activity for idle-minutes are read at   *)
(* once, whichever they are, and closed one after the other                 *)
SweepReads(kind, ids) ==
    /\ kind \notin stopped /\ sweep[kind] = {}
    /\ ids # {}
    /\ sweep' = [sweep EXCEPT ![kind] = ids]
    /\ UNCHANGED <<sess, proc, leaving, live, held, line, call, ending, told, stopped, relay, since>>

SweepCloses(kind, i) ==
    /\ i \in sweep[kind]
    /\ sweep' = [sweep EXCEPT ![kind] = @ \ {i}]
    /\ IF i \in live THEN Take({i}, "stop") ELSE UNCHANGED <<live, ending>>
    /\ UNCHANGED <<sess, proc, leaving, held, line, call, told, stopped, relay, since>>

(* shutdown drains the map before it waits for anything *)
Shutdown(kind) ==
    /\ kind \notin stopped
    /\ stopped' = stopped \cup {kind}
    /\ Take(Of(kind), "stop")
    /\ UNCHANGED <<sess, proc, leaving, held, line, call, told, sweep, relay, since>>

-----------------------------------------------------------------------------
(* External: a session claims the step it is on, or the next open one *)
StepsOf(t, state) == {s \in 1 .. Released[t] : line[<<t, s>>] = state}

ClaimStep(i, s) ==
    /\ Alive(i) /\ sess[i].mode = "work"
    /\ s \in StepsOf(sess[i].task, "open") \cup StepsOf(sess[i].task, "running")
    /\ \A u \in StepsOf(sess[i].task, "open") : u >= s
    /\ line' = [line EXCEPT ![<<sess[i].task, s>>] = "claimed"]
    /\ since' = since \cup {j \in Id : sess[j] # NoSession /\ sess[j].task = sess[i].task}
    /\ UNCHANGED <<sess, proc, leaving, live, held, call, ending, told, sweep, stopped, relay>>

(* TaskWork::session_is_spent: the next step opens a session of its own,    *)
(* which here every step but the first does                                 *)
Spent(i) ==
    LET t == sess[i].task
    IN  /\ i \in since
        /\ StepsOf(t, "running") = {}
        /\ \E s \in StepsOf(t, "open") : s > 1 /\ \A u \in StepsOf(t, "open") : u >= s

WorkSession(i) == i \in live /\ Alive(i) /\ FollowsSteps(sess[i].mode)

(* SessionRelay::check, up to its sleep; a task the queue runs is left to it *)
RelayCheck(i) ==
    /\ WorkSession(i) /\ Spent(i)
    /\ relay[i] = "no"
    /\ relay' = [relay EXCEPT ![i] = "asleep"]
    /\ UNCHANGED <<sess, proc, leaving, live, held, line, call, ending, told, sweep, stopped, since>>

(* renew: read again after the sleep, then the host closes the session *)
RelayRenews(i) ==
    /\ relay[i] = "asleep"
    /\ IF WorkSession(i) /\ Spent(i)
       THEN Take({i}, "stop") /\ relay' = [relay EXCEPT ![i] = "closing"]
       ELSE UNCHANGED <<live, ending>> /\ relay' = [relay EXCEPT ![i] = "no"]
    /\ UNCHANGED <<sess, proc, leaving, held, line, call, told, sweep, stopped, since>>

(* ... and opens another on the task, on no step, with the host's own open *)
RelayOpens(i, c) ==
    /\ relay[i] = "closing" /\ ending[i] = "over"
    /\ call[c] = NoCall
    /\ \E j \in Id :
        /\ sess[j] = NoSession /\ \A d \in Caller : call[d] # NoCall => call[d].id # j
        /\ call' = [call EXCEPT ![c] = [pc |-> "resolve", kind |-> sess[i].kind, task |-> sess[i].task,
                                        step |-> 0, mode |-> "work", id |-> j]]
    /\ relay' = [relay EXCEPT ![i] = "no"]
    /\ UNCHANGED <<sess, proc, leaving, live, held, line, ending, told, sweep, stopped, since>>

HostsNext ==
    \/ \E c \in Caller :
        \/ \E o \in Opening : Open(c, o[1], o[2], o[3], o[4])
        \/ Resolve(c) \/ Start(c) \/ Refused(c) \/ SpawnTerminal(c) \/ SpawnChat(c) \/ Insert(c) \/ Mark(c)
        \/ RetargetDrop(c) \/ RetargetMark(c) \/ Type(c)
        \/ \E i \in Id : RelayOpens(i, c)
    \/ \E i \in Id :
        \/ Close(i) \/ StoppedTerminal(i) \/ StoppedChat(i) \/ ReleaseTerminal(i)
        \/ FinishChat(i) \/ Announce(i) \/ Exit(i) \/ OnExit(i)
        \/ RelayCheck(i) \/ RelayRenews(i)
        \/ \E s \in UNION {1 .. Released[t] : t \in Task} : ClaimStep(i, s)
    \/ \E k \in Kind :
        \/ Shutdown(k)
        \/ \E ids \in SUBSET Of(k) : SweepReads(k, ids)
        \/ \E i \in Id : SweepCloses(k, i)

-----------------------------------------------------------------------------
(* Every session, process, mark and call in flight is of its type *)
HostsTypeOK ==
    /\ sess \in [Id -> Session \cup {NoSession}]
    /\ proc \in [Id -> {"none", "running", "exited"}]
    /\ call \in [Caller -> Call \cup {NoCall}]
    /\ line \in [Line -> {"open", "running", "claimed"}]
    /\ leaving \cup live \cup held \cup since \subseteq Id
    /\ stopped \subseteq Kind
    /\ \A k \in Kind : \A i \in sweep[k] : sess[i].kind = k

(* However the openings of one host interleave, the sessions it holds never *)
(* exceed max_sessions: the count is read and the session recorded behind   *)
(* one gate (register of both managers)                                     *)
CapHolds == \A k \in Kind : Cardinality(Of(k)) <= MaxLive

(* The close of a person, the sweep, the relay, the shutdown and the exit   *)
(* of the process may all meet on one session: its end is announced at most *)
(* once, and by then it is out of the map and its credentials are released  *)
EndsOnce ==
    \A i \in Id : /\ told[i] <= 1
                  /\ told[i] = 1 => i \notin held
                  /\ i \in live => ending[i] = "no"

(* A credential session belongs to an opening that has not failed, to a     *)
(* live session, or to one whose process is being stopped                   *)
CredentialsOwned ==
    \A i \in held :
        \/ i \in live \/ ending[i] = "stop"
        \/ \E c \in Caller : call[c].pc \in {"register", "insert"} /\ call[c].id = i

(* A host's bookkeeping, however openings, closes, sweeps and exits meet: its *)
(* cap, one end for each session, and no credentials without an owner.        *)
HostsInv == HostsTypeOK /\ CapHolds /\ EndsOnce /\ CredentialsOwned
=============================================================================
