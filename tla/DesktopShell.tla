----------------------------- MODULE DesktopShell -----------------------------
(***************************************************************************)
(* Copies of the desktop app on one port: each attaches to the server that *)
(* answers or starts its own, asks before it quits or restarts into an     *)
(* update while sessions are live, and stops only the server it started.   *)
(* The supervisor of the server is the one thing that opens and closes an  *)
(* instance.  One flag stands for the live sessions.                       *)
(***************************************************************************)
EXTENDS Naturals

CONSTANTS
    App,           \* the copies of the app
    MaxRestarts,   \* bound: restarts of the server
    MaxRequests,   \* bound: requests to quit or to update
    MaxWork        \* bound: times sessions are started

VARIABLES
    port,      \* whose server listens; None for nobody's
    server,    \* the supervisor: "none", "opening", "up", "gap"
    stopping,  \* its stop signal
    live,      \* whether sessions are live on the server
    alive,     \* the processes
    boot,      \* where each app's start is
    owns,      \* Shell::running: a server it started
    quitting,  \* Shell::quitting
    leave,     \* where its questions to quit and to update are, and why one went ahead
    pending,   \* LeaveQuestion::pending: the question the console is answering
    restarts, requests, worked

shells == <<port, server, stopping, live, alive, boot, owns, quitting, leave, pending, restarts, requests, worked>>

None    == "none"

ASSUME ShellConstants == None \notin App

Leaving == {"quit", "update"}
NoLeave == [at |-> "idle", why |-> "none", counted |-> FALSE]

ServerSame == UNCHANGED <<port, server, stopping, live, restarts, worked>>
AsksSame   == UNCHANGED <<quitting, leave, pending, requests>>
At(a, w)   == leave[a][w].at

-----------------------------------------------------------------------------
(* boot, answering: a server that is up answers; the wait for it ends in two *)
(* seconds, so one between two instances may not                             *)
BootLooks(a) ==
    /\ alive[a] /\ boot[a] = "look"
    /\ \E answers \in {server = "up", server \in {"up", "gap"}} :
          boot' = [boot EXCEPT ![a] = IF answers THEN "attached" ELSE "start"]
    /\ UNCHANGED <<alive, owns>> /\ ServerSame /\ AsksSame

(* start, bind: one listener on the port *)
BootBinds(a) ==
    /\ alive[a] /\ boot[a] = "start"
    /\ IF port = None
       THEN port' = a /\ server' = "opening" /\ stopping' = FALSE /\ boot' = [boot EXCEPT ![a] = "wait"]
       ELSE boot' = [boot EXCEPT ![a] = "failed"] /\ UNCHANGED <<port, server, stopping>>
    /\ UNCHANGED <<live, alive, owns, restarts, worked>> /\ AsksSame

(* first_up: the running server is kept, or the window says it did not start *)
BootEnds(a) ==
    /\ alive[a] /\ boot[a] = "wait" /\ (port # a \/ server = "up")
    /\ IF port = a THEN boot' = [boot EXCEPT ![a] = "own"] /\ owns' = [owns EXCEPT ![a] = TRUE]
                   ELSE boot' = [boot EXCEPT ![a] = "failed"] /\ UNCHANGED owns
    /\ UNCHANGED alive /\ ServerSame /\ AsksSame

(* reload, of a window that shows the splash *)
Reload(a) ==
    /\ alive[a] /\ boot[a] = "failed" /\ ~owns[a]
    /\ boot' = [boot EXCEPT ![a] = "look"]
    /\ UNCHANGED <<alive, owns>> /\ ServerSame /\ AsksSame

-----------------------------------------------------------------------------
(* supervise: open_instance succeeds, or the supervisor ends and with it the *)
(* listener                                                                  *)
ServerOpens ==
    /\ server = "opening"
    /\ \/ server' = "up" /\ UNCHANGED port
       \/ server' = "none" /\ port' = None
    /\ UNCHANGED <<stopping, live, alive, boot, owns, restarts, worked>> /\ AsksSame

(* A restart was asked for: close_hooks end the sessions, the listener stays *)
Restarts ==
    /\ server = "up" /\ restarts < MaxRestarts
    /\ server' = "gap" /\ live' = FALSE /\ restarts' = restarts + 1
    /\ UNCHANGED <<port, stopping, alive, boot, owns, worked>> /\ AsksSame

Reopens ==
    /\ server = "gap" /\ server' = "opening"
    /\ UNCHANGED <<port, stopping, live, alive, boot, owns, restarts, worked>> /\ AsksSame

(* The stop signal is heard once an instance is up *)
Stops ==
    /\ server = "up" /\ stopping
    /\ server' = "none" /\ port' = None /\ live' = FALSE /\ stopping' = FALSE
    /\ UNCHANGED <<alive, boot, owns, restarts, worked>> /\ AsksSame

WorkStarts ==
    /\ server = "up" /\ ~live /\ worked < MaxWork
    /\ live' = TRUE /\ worked' = worked + 1
    /\ UNCHANGED <<port, server, stopping, alive, boot, owns, restarts>> /\ AsksSame

WorkEnds ==
    /\ live /\ live' = FALSE
    /\ UNCHANGED <<port, server, stopping, alive, boot, owns, restarts, worked>> /\ AsksSame

-----------------------------------------------------------------------------
Moves(a, w, to) == leave' = [leave EXCEPT ![a][w] = to]

(* request_quit: one at a time *)
RequestQuit(a) ==
    /\ alive[a] /\ requests < MaxRequests /\ requests' = requests + 1
    /\ ~quitting[a] /\ quitting' = [quitting EXCEPT ![a] = TRUE]
    /\ Moves(a, "quit", [NoLeave EXCEPT !.at = "check"])
    /\ UNCHANGED <<alive, boot, owns, pending>> /\ ServerSame

(* install_update, from the console, which asks for one update at a time *)
RequestUpdate(a) ==
    /\ alive[a] /\ boot[a] \in {"own", "attached"} /\ At(a, "update") = "idle"
    /\ requests < MaxRequests /\ requests' = requests + 1
    /\ Moves(a, "update", [NoLeave EXCEPT !.at = "check"])
    /\ UNCHANGED <<alive, boot, owns, quitting, pending>> /\ ServerSame

(* owns_server *)
OwnsServer(a) == owns[a]

(* An app that did not start the server leaves at once *)
Checks(a, w) ==
    /\ alive[a] /\ At(a, w) = "check"
    /\ Moves(a, w, IF OwnsServer(a) THEN [leave[a][w] EXCEPT !.at = "count"] ELSE [leave[a][w] EXCEPT !.at = "go", !.why = "other"])
    /\ UNCHANGED <<alive, boot, owns, quitting, pending, requests>> /\ ServerSame

(* may_leave, live_sessions: with none live it leaves, with some it asks; a  *)
(* server that does not answer in time does not hold the person              *)
Counts(a, w) ==
    /\ alive[a] /\ At(a, w) = "count"
    /\ \/ server = "up" /\ Moves(a, w, IF live THEN [at |-> "ask", why |-> "none", counted |-> TRUE]
                                            ELSE [at |-> "go", why |-> "empty", counted |-> FALSE])
       \/ server # "up" /\ Moves(a, w, [at |-> "go", why |-> "unknown", counted |-> FALSE])
    /\ UNCHANGED <<alive, boot, owns, quitting, pending, requests>> /\ ServerSame

Refused(a, w, l) == [l EXCEPT ![a][w] = NoLeave]
Released(a, w)   == IF w = "quit" THEN [quitting EXCEPT ![a] = FALSE] ELSE quitting

(* ask_in_console, LeaveQuestion::open: one still waiting is abandoned and   *)
(* counts as a refusal                                                       *)
Ask(a, w) ==
    /\ alive[a] /\ At(a, w) = "ask"
    /\ leave' = [leave EXCEPT ![a] = [v \in Leaving |->
                    IF v = w THEN [leave[a][w] EXCEPT !.at = "asked"]
                    ELSE IF v = pending[a] THEN NoLeave ELSE leave[a][v]]]
    /\ quitting' = IF pending[a] = None THEN quitting ELSE Released(a, pending[a])
    /\ pending' = [pending EXCEPT ![a] = w]
    /\ UNCHANGED <<alive, boot, owns, requests>> /\ ServerSame

(* Mutant: any answer is a yes *)
AnswerAlways(a, reply) ==
    /\ alive[a] /\ pending[a] # None
    /\ pending' = [pending EXCEPT ![a] = None]
    /\ Moves(a, pending[a], [leave[a][pending[a]] EXCEPT !.at = "go", !.why = reply]) /\ UNCHANGED quitting
    /\ UNCHANGED <<alive, boot, owns, requests>> /\ ServerSame

(* LeaveQuestion::answer: yes, no, or that the console cannot show it *)
AnswerLeave(a, reply) ==
    /\ alive[a] /\ pending[a] # None
    /\ pending' = [pending EXCEPT ![a] = None]
    /\ LET w == pending[a]
       IN  IF reply = "no" THEN leave' = Refused(a, w, leave) /\ quitting' = Released(a, w)
           ELSE /\ Moves(a, w, [leave[a][w] EXCEPT !.at = IF reply = "yes" THEN "go" ELSE "system", !.why = reply])
                /\ UNCHANGED quitting
    /\ UNCHANGED <<alive, boot, owns, requests>> /\ ServerSame

(* ask_with_system_dialog *)
SystemAnswers(a, w, yes) ==
    /\ alive[a] /\ At(a, w) = "system"
    /\ IF yes THEN Moves(a, w, [leave[a][w] EXCEPT !.at = "go", !.why = "yes"]) /\ UNCHANGED quitting
       ELSE leave' = Refused(a, w, leave) /\ quitting' = Released(a, w)
    /\ UNCHANGED <<alive, boot, owns, pending, requests>> /\ ServerSame

(* install_update: the install may fail, and the person may ask again *)
InstallFails(a) ==
    /\ alive[a] /\ At(a, "update") = "go"
    /\ leave' = Refused(a, "update", leave)
    /\ UNCHANGED <<alive, boot, owns, quitting, pending, requests>> /\ ServerSame

(* Mutant: an app that attached stops the server it uses *)
StopsWhatItUses(a) == owns[a] \/ boot[a] = "attached"

(* RunEvent::Exit: only a server this process started is stopped *)
StopsAtExit(a) == owns[a] /\ port = a

(* handle.exit, or a signal *)
Exits(a, w) ==
    /\ alive[a] /\ boot[a] # "exit"
    /\ w = "signal" \/ (w \in Leaving /\ At(a, w) = "go")
    /\ boot' = [boot EXCEPT ![a] = "exit"]
    /\ stopping' = (stopping \/ StopsAtExit(a))
    /\ leave' = [leave EXCEPT ![a] = [v \in Leaving |->
                    IF v = w THEN leave[a][v] ELSE [at |-> "over", why |-> IF w = "signal" THEN "signal" ELSE leave[a][w].why, counted |-> FALSE]]]
    /\ UNCHANGED <<port, server, live, alive, owns, quitting, pending, restarts, requests, worked>>

(* The process is gone once the server stopped, or at the end of STOP_WINDOW *)
ProcessEnds(a) ==
    /\ alive[a] /\ boot[a] = "exit"
    /\ alive' = [alive EXCEPT ![a] = FALSE] /\ owns' = [owns EXCEPT ![a] = FALSE]
    /\ port' = (IF port = a THEN None ELSE port)
    /\ server' = (IF port = a THEN "none" ELSE server)
    /\ live' = (port # a /\ live) /\ stopping' = (port # a /\ stopping)
    /\ UNCHANGED <<boot, restarts, worked>> /\ AsksSame

-----------------------------------------------------------------------------
ShellInit ==
    /\ port = None /\ server = "none" /\ stopping = FALSE /\ live = FALSE
    /\ alive = [a \in App |-> TRUE] /\ boot = [a \in App |-> "look"]
    /\ owns = [a \in App |-> FALSE] /\ quitting = [a \in App |-> FALSE]
    /\ leave = [a \in App |-> [w \in Leaving |-> NoLeave]]
    /\ pending = [a \in App |-> None]
    /\ restarts = 0 /\ requests = 0 /\ worked = 0

ShellNext ==
    \/ ServerOpens \/ Restarts \/ Reopens \/ Stops \/ WorkStarts \/ WorkEnds
    \/ \E a \in App :
          \/ BootLooks(a) \/ BootBinds(a) \/ BootEnds(a) \/ Reload(a)
          \/ RequestQuit(a) \/ RequestUpdate(a) \/ InstallFails(a) \/ ProcessEnds(a)
          \/ \E reply \in {"yes", "no", "null"} : AnswerLeave(a, reply)
          \/ \E w \in Leaving : Checks(a, w) \/ Counts(a, w) \/ Ask(a, w)
          \/ \E w \in Leaving, yes \in BOOLEAN : SystemAnswers(a, w, yes)
          \/ \E w \in Leaving \cup {"signal"} : Exits(a, w)

ShellSpec == ShellInit /\ [][ShellNext]_shells

-----------------------------------------------------------------------------
(* desktop main.rs: an app that attached to a server "leaves it running on   *)
(* quit": no process's end or exit takes down a server another one started.  *)
AttachedServerStays ==
    [][\A a \in App : port = a /\ port' # a /\ server = "up" => boot[a] = "exit"]_shells

(* exit_guard: sessions counted as live before a quit or an update are not   *)
(* cut short by it unless the person said yes to that question; a question   *)
(* abandoned for another counts as a no.                                     *)
CountedSessionsAreAsked ==
    \A a \in App, w \in Leaving : At(a, w) = "go" /\ leave[a][w].counted => leave[a][w].why = "yes"

(* request_quit: the flag that ignores further quits is down again whenever  *)
(* no quit is under way, so that the app can always be left.                 *)
QuitCanBeAskedAgain ==
    \A a \in App : quitting[a] /\ boot[a] # "exit" => At(a, "quit") # "idle"

(* Leaving the app: no counted session goes unasked, and the app can always   *)
(* be asked to quit again.                                                    *)
ShellsInv == CountedSessionsAreAsked /\ QuitCanBeAskedAgain
=============================================================================
