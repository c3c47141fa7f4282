---------------------------- MODULE LifecycleProofs ----------------------------
(***************************************************************************)
(* What surrounds the running server, proved for every number of releases, *)
(* copies of the app, worktrees, commits and crashes: an update never      *)
(* leaves the disk without a whole app, a quit never ends counted sessions *)
(* unasked nor another process's server, the worktree cleaner never loses  *)
(* a commit, and the database folders and their registry stay sound.       *)
(***************************************************************************)
EXTENDS DatabaseFiles, AppUpdate, DesktopShell, Worktrees, FiniteSetTheorems, TLAPS

USE Zenon

-----------------------------------------------------------------------------
(* Counting *)

(* A set of naturals that is not empty has a least member.                   *)
LEMMA LeastOf ==
    ASSUME NEW T \in SUBSET Nat, T # {}
    PROVE  \E i \in T : \A j \in T : i <= j
<1>1. PICK R : R = OpToRel(<, Nat)
  OBVIOUS
<1>2. IsWellFoundedOn(R, Nat)
  BY <1>1, NatLessThanWellFounded
<1>3. PICK i \in T : \A j \in T : ~(<<j, i>> \in R)
  BY <1>2, WFMin
<1>4. \A j \in T : j < i => <<j, i>> \in R
  BY <1>1 DEF OpToRel
<1>5. \A j \in T : ~(j < i)
  BY <1>3, <1>4
<1>6. \A j \in T : i <= j
  BY <1>5, SMTT(60)
<1>. QED  BY <1>6

-----------------------------------------------------------------------------
(* The app's update.  Between two steps of an install the bundles hold what *)
(* the next step relies on: a whole newer copy before the old one is moved  *)
(* aside, and the old one aside while the app's own name is free.           *)
UpdateTypes ==
    /\ latest \in 1 .. MaxVersion /\ running \in 0 .. latest /\ bundle \in 0 .. latest
    /\ staging \in 0 .. latest \cup {Partial} /\ previous \in 0 .. latest \cup {Partial}
    /\ install \in {"idle", "stage", "copy", "clear", "aside", "in", "back", "done"}
    /\ whole \in BOOLEAN

InstallShape ==
    /\ install # "idle" => running # 0 /\ running < latest
    /\ install \in {"stage", "copy", "clear", "aside"} => (whole <=> bundle # 0)
    /\ install \in {"clear", "aside", "in", "back"} => staging \in running + 1 .. latest
    /\ install \in {"in", "back"} => bundle = 0 /\ previous \in running .. latest
    /\ install = "done" => bundle \in running + 1 .. latest
    /\ running = 0 => remembered.check = "none"

UpdateShape == UpdateTypes /\ InstallShape /\ UpdateInv

(* The first state, with the first release installed and running.           *)
LEMMA UpdateStarts == UpdateInit => UpdateShape
  BY UpdateConstants, SMTT(60) DEF UpdateInit, UpdateShape, UpdateTypes, InstallShape, UpdateInv, OldKeptUntilNewIsIn,
     NeverOlder, OffersOnlyNewer, Newer, Whole, Partial, Nothing

(* Releases, the clock, the update check and the app's opening and closing.  *)
LEMMA UpdateAround ==
    ASSUME UpdateShape, Publish \/ Hour \/ Status(TRUE) \/ Status(FALSE) \/ Quit \/ Reopen
    PROVE  UpdateShape'
<1>. USE UpdateConstants DEF UpdateShape, UpdateTypes, InstallShape, UpdateInv, OldKeptUntilNewIsIn,
         NeverOlder, OffersOnlyNewer, Newer, Whole, Partial
<1>1. CASE Publish
  BY <1>1, SMTT(60) DEF Publish
<1>2. CASE Hour
  BY <1>2 DEF Hour
<1>3. ASSUME NEW b \in BOOLEAN, Status(b) PROVE UpdateShape'
  BY <1>3, SMTT(60) DEF Status, Answer
<1>4. CASE Quit
  BY <1>4, SMTT(60) DEF Quit, Nothing
<1>5. CASE Reopen
  BY <1>5, SMTT(60) DEF Reopen
<1>. QED  BY <1>1, <1>2, <1>3, <1>4, <1>5

(* An install remembers whether it began with a whole app.                   *)
LEMMA InstallBegins == Install => whole' \in BOOLEAN /\ (whole' <=> bundle \in 1 .. MaxVersion)
<1>1. ASSUME NEW P, NEW Q, Q = (P \in 1 .. MaxVersion) PROVE Q \in BOOLEAN
  BY <1>1, SMTT(60)
<1>2. Install => whole' = (bundle \in 1 .. MaxVersion) /\ (whole' <=> bundle \in 1 .. MaxVersion)
  BY DEF Install, Whole
<1>. QED  BY <1>1, <1>2

(* The install, up to the swap of the names and through it.                  *)
LEMMA UpdateInstalls ==
    ASSUME UpdateShape,
           Install \/ DownloadFails \/ ClearStaging \/ CopyBundle \/ ClearPrevious \/ MoveAside \/ MoveIn \/ PutBack \/ Relaunch
    PROVE  UpdateShape'
<1>. USE UpdateConstants DEF UpdateShape, UpdateTypes, InstallShape, UpdateInv, OldKeptUntilNewIsIn,
         NeverOlder, OffersOnlyNewer, Newer, Whole, Partial, Other, Ends
<1>1. CASE Install
  BY <1>1, InstallBegins, SMTT(60) DEF Install
<1>2. CASE DownloadFails
  BY <1>2 DEF DownloadFails
<1>3. CASE ClearStaging
  BY <1>3, SMTT(60) DEF ClearStaging
<1>4. CASE CopyBundle
  BY <1>4, SMTT(60) DEF CopyBundle
<1>5. CASE ClearPrevious
  BY <1>5, SMTT(60) DEF ClearPrevious
<1>6. CASE MoveAside
  BY <1>6, SMTT(60) DEF MoveAside
<1>7. CASE MoveIn
  BY <1>7, SMTT(60) DEF MoveIn
<1>8. CASE PutBack
  BY <1>8, SMTT(60) DEF PutBack
<1>9. CASE Relaunch
  BY <1>9, SMTT(60) DEF Relaunch, Nothing
<1>. QED  BY <1>1, <1>2, <1>3, <1>4, <1>5, <1>6, <1>7, <1>8, <1>9

(* replace_bundle, UpdateCheckService: whatever fails and whenever the       *)
(* process ends, a whole app is on the disk, never an older one than the one *)
(* that runs, and only a newer one is offered.                               *)
THEOREM UpdateIsSafe == UpdateSpec => []UpdateInv
<1>1. UpdateShape /\ [UpdateNext]_update => UpdateShape'
  <2>. SUFFICES ASSUME UpdateShape, [UpdateNext]_update PROVE UpdateShape'
    OBVIOUS
  <2>1. CASE UNCHANGED update
    BY <2>1, ZenonT(60) DEF update, UpdateShape, UpdateTypes, InstallShape, UpdateInv, OldKeptUntilNewIsIn, NeverOlder,
       OffersOnlyNewer, Newer, Whole, Partial
  <2>. QED  BY <2>1, UpdateAround, UpdateInstalls DEF UpdateNext
<1>2. UpdateShape => UpdateInv
  BY DEF UpdateShape
<1>. QED  BY UpdateStarts, <1>1, <1>2, PTL DEF UpdateSpec

-----------------------------------------------------------------------------
(* Leaving the desktop app.  A question that has not been counted yet holds *)
(* no count, and a stop signal is that of a process that is on its way out. *)
LeaveState == [at : {"idle", "check", "count", "ask", "asked", "system", "go", "over"},
               why : {"none", "other", "empty", "unknown", "yes", "null", "signal"}, counted : BOOLEAN]

ShellTypes ==
    /\ port \in App \cup {None} /\ stopping \in BOOLEAN
    /\ boot \in [App -> {"look", "attached", "start", "wait", "own", "failed", "exit"}]
    /\ quitting \in [App -> BOOLEAN]
    /\ leave \in [App -> [Leaving -> LeaveState]]
    /\ pending \in [App -> Leaving \cup {None}]

NothingCounted == \A a \in App, w \in Leaving : At(a, w) = "check" => ~leave[a][w].counted
StopIsAnExit   == stopping /\ port # None => boot[port] = "exit"
ShellShape     == ShellTypes /\ NothingCounted /\ StopIsAnExit /\ ShellsInv

(* Every copy of the app starting, with no server yet.                       *)
LEMMA ShellStarts == ShellInit => ShellShape
<1>. SUFFICES ASSUME ShellInit PROVE ShellShape
  OBVIOUS
<1>1. NoLeave \in LeaveState /\ NoLeave.at = "idle" /\ NoLeave.counted = FALSE
  BY DEF NoLeave, LeaveState
<1>2. \A a \in App, w \in Leaving : leave[a][w] = NoLeave
  BY DEF ShellInit
<1>3. ShellTypes
  BY <1>1 DEF ShellInit, ShellTypes, None
<1>4. NothingCounted /\ CountedSessionsAreAsked
  BY <1>1, <1>2 DEF NothingCounted, CountedSessionsAreAsked, At
<1>. QED  BY <1>3, <1>4 DEF ShellInit, ShellShape, StopIsAnExit, ShellsInv, QuitCanBeAskedAgain

(* The boots of the apps and the supervisor of the server: no question moves. *)
LEMMA ShellServes ==
    ASSUME ShellShape,
           \/ ServerOpens \/ Restarts \/ Reopens \/ Stops \/ WorkStarts \/ WorkEnds
           \/ \E a \in App : BootLooks(a) \/ BootBinds(a) \/ BootEnds(a) \/ Reload(a) \/ ProcessEnds(a)
    PROVE  ShellShape'
<1>. USE ShellConstants DEF ShellShape, ShellTypes, StopIsAnExit, None
<1>1. UNCHANGED <<quitting, leave, pending>>
  BY DEF ServerOpens, Restarts, Reopens, Stops, WorkStarts, WorkEnds, BootLooks, BootBinds, BootEnds, Reload,
     ProcessEnds, AsksSame
<1>2. ShellTypes' /\ StopIsAnExit' /\ \A b \in App : boot'[b] = "exit" <=> boot[b] = "exit"
  <2>1. CASE ServerOpens \/ Restarts \/ Reopens \/ Stops \/ WorkStarts \/ WorkEnds
    <3>1. boot' = boot /\ (port' = None \/ port' = port) /\ (stopping' = FALSE \/ stopping' = stopping)
      BY <2>1 DEF ServerOpens, Restarts, Reopens, Stops, WorkStarts, WorkEnds
    <3>2. CASE stopping' = FALSE
      BY <1>1, <3>1, <3>2
    <3>3. CASE stopping' = stopping
      BY <1>1, <3>1, <3>3
    <3>. QED  BY <3>1, <3>2, <3>3
  <2>2. ASSUME NEW a \in App, BootLooks(a) \/ BootEnds(a) \/ Reload(a)
        PROVE  ShellTypes' /\ StopIsAnExit' /\ \A b \in App : boot'[b] = "exit" <=> boot[b] = "exit"
    BY <1>1, <2>2, SMTT(60) DEF BootLooks, BootEnds, Reload, ServerSame
  <2>3. ASSUME NEW a \in App, BootBinds(a)
        PROVE  ShellTypes' /\ StopIsAnExit' /\ \A b \in App : boot'[b] = "exit" <=> boot[b] = "exit"
    BY <1>1, <2>3 DEF BootBinds
  <2>4. ASSUME NEW a \in App, ProcessEnds(a)
        PROVE  ShellTypes' /\ StopIsAnExit' /\ \A b \in App : boot'[b] = "exit" <=> boot[b] = "exit"
    BY <1>1, <2>4 DEF ProcessEnds
  <2>. QED  BY <2>1, <2>2, <2>3, <2>4
<1>3. NothingCounted' /\ ShellsInv'
  BY <1>1, <1>2, ZenonT(60) DEF NothingCounted, ShellsInv, CountedSessionsAreAsked, QuitCanBeAskedAgain, At
<1>. QED  BY <1>2, <1>3

(* One question of one app moves, and with it what its guard flag may say.   *)
LEMMA QuestionMoves ==
    ASSUME ShellShape, NEW a \in App, NEW w \in Leaving, NEW to \in LeaveState,
           leave' = [leave EXCEPT ![a][w] = to],
           port' = port, stopping' = stopping, boot' = boot,
           pending' \in [App -> Leaving \cup {None}], quitting' \in [App -> BOOLEAN],
           to.at = "check" => ~to.counted,
           to.at = "go" /\ to.counted => to.why = "yes",
           \A b \in App : quitting'[b] => quitting[b] \/ (b = a /\ w = "quit"),
           w = "quit" /\ quitting'[a] => to.at # "idle"
    PROVE  ShellShape'
<1>1. /\ leave' \in [App -> [Leaving -> LeaveState]]
      /\ \A b \in App, v \in Leaving : leave'[b][v] = IF b = a /\ v = w THEN to ELSE leave[b][v]
  BY DEF ShellShape, ShellTypes
<1>2. ShellTypes' /\ StopIsAnExit'
  BY <1>1 DEF ShellShape, ShellTypes, StopIsAnExit
<1>3. NothingCounted' /\ CountedSessionsAreAsked'
  BY <1>1, SMTT(60) DEF ShellShape, NothingCounted, ShellsInv, CountedSessionsAreAsked, At
<1>4. QuitCanBeAskedAgain'
  <2>. SUFFICES ASSUME NEW b \in App, quitting'[b], boot'[b] # "exit" PROVE leave'[b]["quit"].at # "idle"
    BY DEF QuitCanBeAskedAgain, At
  <2>1. CASE b = a /\ w = "quit"
    BY <1>1, <2>1 DEF Leaving
  <2>2. CASE ~(b = a /\ w = "quit")
    BY <1>1, <2>2, ZenonT(60) DEF Leaving, ShellShape, ShellsInv, QuitCanBeAskedAgain, At
  <2>. QED  BY <2>1, <2>2
<1>. QED  BY <1>2, <1>3, <1>4 DEF ShellShape, ShellsInv

(* A refusal: the question is over, and a quit may be asked for again.       *)
LEMMA QuestionRefused ==
    ASSUME ShellShape, NEW a \in App, NEW w \in Leaving, leave' = Refused(a, w, leave), quitting' = Released(a, w),
           port' = port, stopping' = stopping, boot' = boot, pending' \in [App -> Leaving \cup {None}]
    PROVE  ShellShape'
<1>1. NoLeave \in LeaveState /\ NoLeave.at = "idle" /\ ~NoLeave.counted
  BY DEF NoLeave, LeaveState
<1>2. /\ quitting' \in [App -> BOOLEAN]
      /\ \A b \in App : quitting'[b] => quitting[b] /\ ~(b = a /\ w = "quit")
  BY DEF ShellShape, ShellTypes, Released
<1>3. leave' = [leave EXCEPT ![a][w] = NoLeave]
  BY DEF Refused
<1>. QED  BY <1>1, <1>2, <1>3, QuestionMoves

(* The requests, the count, the answers and an install that fails.           *)
LEMMA ShellAsks ==
    ASSUME ShellShape, NEW a \in App, NEW w \in Leaving, NEW yes \in BOOLEAN, NEW reply \in {"yes", "no", "null"},
           \/ RequestQuit(a) \/ RequestUpdate(a) \/ InstallFails(a) \/ AnswerLeave(a, reply)
           \/ Checks(a, w) \/ Counts(a, w) \/ SystemAnswers(a, w, yes)
    PROVE  ShellShape'
<1>. USE DEF ServerSame, Moves
<1>1. /\ leave[a][w] \in LeaveState /\ quitting \in [App -> BOOLEAN] /\ pending \in [App -> Leaving \cup {None}]
      /\ NoLeave \in LeaveState /\ NoLeave.at = "idle" /\ ~NoLeave.counted
      /\ {"quit", "update"} = Leaving
  BY SMTT(60) DEF ShellShape, ShellTypes, NoLeave, LeaveState, Leaving
<1>2. CASE RequestQuit(a)
  <2>. DEFINE to == [NoLeave EXCEPT !.at = "check"]
  <2>1. to \in LeaveState /\ to.at = "check" /\ ~to.counted
    BY DEF NoLeave, LeaveState
  <2>. HIDE DEF to
  <2>. QED  BY <1>1, <1>2, <2>1, QuestionMoves DEF RequestQuit, to
<1>3. CASE RequestUpdate(a)
  <2>. DEFINE to == [NoLeave EXCEPT !.at = "check"]
  <2>1. to \in LeaveState /\ to.at = "check" /\ ~to.counted
    BY DEF NoLeave, LeaveState
  <2>. HIDE DEF to
  <2>. QED  BY <1>1, <1>3, <2>1, QuestionMoves DEF RequestUpdate, to
<1>4. CASE InstallFails(a)
  BY <1>1, <1>4, QuestionMoves DEF InstallFails, Refused
<1>5. CASE Checks(a, w)
  <2>. DEFINE to == IF OwnsServer(a) THEN [leave[a][w] EXCEPT !.at = "count"]
                    ELSE [leave[a][w] EXCEPT !.at = "go", !.why = "other"]
  <2>1. to \in LeaveState /\ to.at \in {"count", "go"} /\ ~to.counted
    BY <1>1, <1>5 DEF Checks, ShellShape, NothingCounted, LeaveState, At
  <2>2. leave' = [leave EXCEPT ![a][w] = to]
    BY <1>5 DEF Checks
  <2>3. UNCHANGED <<port, stopping, boot, quitting, pending>>
    BY <1>5 DEF Checks
  <2>4. to.at # "check" /\ to.at # "idle"
    BY <2>1
  <2>. HIDE DEF to
  <2>. QED  BY <1>1, <2>1, <2>2, <2>3, <2>4, QuestionMoves
<1>6. CASE Counts(a, w)
  <2>. DEFINE to == IF server # "up" THEN [at |-> "go", why |-> "unknown", counted |-> FALSE]
                    ELSE IF live THEN [at |-> "ask", why |-> "none", counted |-> TRUE]
                    ELSE [at |-> "go", why |-> "empty", counted |-> FALSE]
  <2>1. to \in LeaveState /\ to.at # "check" /\ to.at # "idle" /\ (to.at = "go" => ~to.counted)
    BY DEF LeaveState
  <2>2. leave' = [leave EXCEPT ![a][w] = to]
    BY <1>6 DEF Counts
  <2>3. UNCHANGED <<port, stopping, boot, quitting, pending>>
    BY <1>6 DEF Counts
  <2>. HIDE DEF to
  <2>. QED  BY <1>1, <2>1, <2>2, <2>3, QuestionMoves
<1>7. CASE SystemAnswers(a, w, yes)
  <2>1. CASE yes
    <3>. DEFINE to == [leave[a][w] EXCEPT !.at = "go", !.why = "yes"]
    <3>1. to \in LeaveState /\ to.at = "go" /\ to.why = "yes"
      BY <1>1 DEF LeaveState
    <3>2. leave' = [leave EXCEPT ![a][w] = to] /\ quitting' = quitting
      BY <1>7, <2>1 DEF SystemAnswers
    <3>. HIDE DEF to
    <3>. QED  BY <1>1, <1>7, <3>1, <3>2, QuestionMoves DEF SystemAnswers
  <2>2. CASE ~yes
    BY <1>1, <1>7, <2>2, QuestionRefused DEF SystemAnswers
  <2>. QED  BY <2>1, <2>2
<1>8. CASE AnswerLeave(a, reply)
  <2>1. PICK v \in Leaving : v = pending[a]
    BY <1>1, <1>8 DEF AnswerLeave, None
  <2>2. leave[a][v] \in LeaveState
    BY DEF ShellShape, ShellTypes
  <2>3. CASE reply = "no"
    <3>1. /\ leave' = Refused(a, v, leave) /\ quitting' = Released(a, v)
          /\ UNCHANGED <<port, stopping, boot>> /\ pending' = [pending EXCEPT ![a] = None]
      BY <1>8, <2>1, <2>3 DEF AnswerLeave
    <3>. QED  BY <1>1, <3>1, QuestionRefused
  <2>4. CASE reply # "no"
    <3>. DEFINE to == [leave[a][v] EXCEPT !.at = IF reply = "yes" THEN "go" ELSE "system", !.why = reply]
    <3>1. to \in LeaveState /\ to.at \in {"go", "system"} /\ (to.at = "go" => to.why = "yes")
      BY <2>2, <2>4 DEF LeaveState
    <3>2. leave' = [leave EXCEPT ![a][v] = to] /\ quitting' = quitting
      BY <1>8, <2>1, <2>4 DEF AnswerLeave
    <3>. HIDE DEF to
    <3>. QED  BY <1>1, <1>8, <3>1, <3>2, QuestionMoves DEF AnswerLeave
  <2>. QED  BY <2>3, <2>4
<1>. QED  BY <1>2, <1>3, <1>4, <1>5, <1>6, <1>7, <1>8

(* A question opened in the console abandons the one still waiting there.    *)
LEMMA ShellOpensQuestion ==
    ASSUME ShellShape, NEW a \in App, NEW w \in Leaving, Ask(a, w)
    PROVE  ShellShape'
<1>1. /\ leave \in [App -> [Leaving -> LeaveState]] /\ quitting \in [App -> BOOLEAN]
      /\ pending \in [App -> Leaving \cup {None}]
      /\ NoLeave \in LeaveState /\ NoLeave.at = "idle" /\ ~NoLeave.counted
  BY DEF ShellShape, ShellTypes, NoLeave, LeaveState
<1>. DEFINE question == [leave[a][w] EXCEPT !.at = "asked"]
<1>2. question \in LeaveState /\ question.at = "asked"
  <2>1. leave[a][w] \in LeaveState
    BY <1>1
  <2>. QED  BY <2>1 DEF LeaveState
<1>3. leave' = [leave EXCEPT ![a] = [v \in Leaving |-> IF v = w THEN question
                                                       ELSE IF v = pending[a] THEN NoLeave ELSE leave[a][v]]]
  BY DEF Ask
<1>. HIDE DEF question
<1>4. /\ leave' \in [App -> [Leaving -> LeaveState]]
      /\ \A b \in App, v \in Leaving : leave'[b][v] = IF b # a THEN leave[b][v]
                                                      ELSE IF v = w THEN question
                                                      ELSE IF v = pending[a] THEN NoLeave ELSE leave[b][v]
  BY <1>1, <1>2, <1>3
<1>5. /\ UNCHANGED <<port, stopping, boot>> /\ pending' = [pending EXCEPT ![a] = w]
      /\ quitting' = IF pending[a] = None THEN quitting ELSE Released(a, pending[a])
  BY DEF Ask, ServerSame
<1>6. /\ quitting' \in [App -> BOOLEAN]
      /\ \A b \in App : quitting'[b] => quitting[b] /\ ~(b = a /\ pending[a] = "quit")
  BY <1>1, <1>5 DEF Released, None
<1>7. ShellTypes' /\ StopIsAnExit'
  BY <1>1, <1>4, <1>5, <1>6 DEF ShellShape, ShellTypes, StopIsAnExit
<1>8. NothingCounted' /\ CountedSessionsAreAsked'
  <2>. SUFFICES ASSUME NEW b \in App, NEW v \in Leaving
                PROVE  /\ leave'[b][v].at = "check" => ~leave'[b][v].counted
                       /\ leave'[b][v].at = "go" /\ leave'[b][v].counted => leave'[b][v].why = "yes"
    BY DEF NothingCounted, CountedSessionsAreAsked, At
  <2>1. leave'[b][v] \in {question, NoLeave, leave[b][v]}
    BY <1>4
  <2>. QED  BY <1>1, <1>2, <2>1, ZenonT(60) DEF ShellShape, NothingCounted, ShellsInv, CountedSessionsAreAsked, At
<1>9. QuitCanBeAskedAgain'
  <2>. SUFFICES ASSUME NEW b \in App, quitting'[b], boot'[b] # "exit" PROVE leave'[b]["quit"].at # "idle"
    BY DEF QuitCanBeAskedAgain, At
  <2>1. leave[b]["quit"].at # "idle" /\ ~(b = a /\ pending[a] = "quit")
    BY <1>5, <1>6 DEF ShellShape, ShellsInv, QuitCanBeAskedAgain, At
  <2>. QED  BY <1>2, <1>4, <2>1 DEF Leaving
<1>. QED  BY <1>7, <1>8, <1>9 DEF ShellShape, ShellsInv

(* A process on its way out: its other questions are over.                   *)
LEMMA ShellExits ==
    ASSUME ShellShape, NEW a \in App, NEW w \in Leaving \cup {"signal"}, Exits(a, w)
    PROVE  ShellShape'
<1>. DEFINE over == [at |-> "over", why |-> IF w = "signal" THEN "signal" ELSE leave[a][w].why, counted |-> FALSE]
<1>1. over \in LeaveState /\ over.at = "over"
  BY SMTT(60) DEF LeaveState, ShellShape, ShellTypes, Leaving
<1>2. leave' = [leave EXCEPT ![a] = [v \in Leaving |-> IF v = w THEN leave[a][v] ELSE over]]
  BY DEF Exits
<1>. HIDE DEF over
<1>3. /\ leave' \in [App -> [Leaving -> LeaveState]]
      /\ \A b \in App, v \in Leaving : leave'[b][v] = IF b = a /\ v # w THEN over ELSE leave[b][v]
  BY <1>1, <1>2 DEF ShellShape, ShellTypes
<1>4. /\ UNCHANGED <<port, quitting, pending>> /\ boot' = [boot EXCEPT ![a] = "exit"]
      /\ stopping' = (stopping \/ StopsAtExit(a))
  BY DEF Exits
<1>5. stopping' \in BOOLEAN /\ (stopping' => stopping \/ port = a)
  <2>1. ASSUME NEW P, NEW Q, NEW R, R = (P \/ Q) PROVE R \in BOOLEAN
    BY <2>1
  <2>2. stopping' => stopping \/ port = a
    BY <1>4 DEF StopsAtExit
  <2>. QED  BY <1>4, <2>1, <2>2
<1>6. ShellTypes' /\ StopIsAnExit'
  BY <1>3, <1>4, <1>5 DEF ShellShape, ShellTypes, StopIsAnExit, None
<1>7. NothingCounted' /\ CountedSessionsAreAsked'
  BY <1>1, <1>3, SMTT(60) DEF ShellShape, NothingCounted, ShellsInv, CountedSessionsAreAsked, At
<1>8. QuitCanBeAskedAgain'
  BY <1>3, <1>4 DEF ShellShape, ShellTypes, ShellsInv, QuitCanBeAskedAgain, At, Leaving
<1>. QED  BY <1>6, <1>7, <1>8 DEF ShellShape, ShellsInv

(* The shape holds from the first state on.                                  *)
LEMMA ShellAlways == ShellSpec => []ShellShape
<1>1. ShellShape /\ [ShellNext]_shells => ShellShape'
  <2>. SUFFICES ASSUME ShellShape, [ShellNext]_shells PROVE ShellShape'
    OBVIOUS
  <2>1. CASE UNCHANGED shells
    BY <2>1 DEF shells, ShellShape, ShellTypes, NothingCounted, StopIsAnExit, ShellsInv, CountedSessionsAreAsked,
       QuitCanBeAskedAgain, At
  <2>2. CASE ShellNext
    <3>1. ASSUME NEW a \in App, RequestQuit(a) \/ RequestUpdate(a) \/ InstallFails(a) PROVE ShellShape'
      <4>1. "quit" \in Leaving /\ TRUE \in BOOLEAN /\ "yes" \in {"yes", "no", "null"}
        BY DEF Leaving
      <4>. QED  BY <3>1, <4>1, ShellAsks
    <3>2. ASSUME NEW a \in App, NEW reply \in {"yes", "no", "null"}, AnswerLeave(a, reply) PROVE ShellShape'
      <4>1. "quit" \in Leaving /\ TRUE \in BOOLEAN
        BY DEF Leaving
      <4>. QED  BY <3>2, <4>1, ShellAsks
    <3>3. ASSUME NEW a \in App, NEW w \in Leaving, Checks(a, w) \/ Counts(a, w) PROVE ShellShape'
      <4>1. TRUE \in BOOLEAN /\ "yes" \in {"yes", "no", "null"}
        OBVIOUS
      <4>. QED  BY <3>3, <4>1, ShellAsks
    <3>4. ASSUME NEW a \in App, NEW w \in Leaving, NEW yes \in BOOLEAN, SystemAnswers(a, w, yes) PROVE ShellShape'
      <4>1. "yes" \in {"yes", "no", "null"}
        OBVIOUS
      <4>. QED  BY <3>4, <4>1, ShellAsks
    <3>. QED  BY <2>2, <3>1, <3>2, <3>3, <3>4, ShellServes, ShellOpensQuestion, ShellExits, ZenonT(60) DEF ShellNext
  <2>. QED  BY <2>1, <2>2
<1>. QED  BY ShellStarts, <1>1, PTL DEF ShellSpec

(* exit_guard, request_quit: sessions counted as live are never ended by a   *)
(* quit or an update nobody said yes to, and the app can always be asked to  *)
(* quit again, however the two questions overlap.                            *)
THEOREM QuitAsksFirst == ShellSpec => []ShellsInv
<1>1. ShellShape => ShellsInv
  BY DEF ShellShape
<1>. QED  BY ShellAlways, <1>1, PTL

(* desktop main.rs: a server goes down only with the process that started    *)
(* it, whatever the other copies of the app attached to it do.               *)
THEOREM OthersServerStays == ShellSpec => AttachedServerStays
<1>1. ShellShape /\ [ShellNext]_shells
      => [\A a \in App : port = a /\ port' # a /\ server = "up" => boot[a] = "exit"]_shells
  <2>. SUFFICES ASSUME ShellShape, ShellNext, NEW a \in App, port = a, port' # a, server = "up"
                PROVE  boot[a] = "exit"
    BY ZenonT(60)
  <2>1. CASE Stops
    BY <2>1, ShellConstants DEF Stops, ShellShape, StopIsAnExit
  <2>2. ASSUME NEW b \in App, ProcessEnds(b) PROVE boot[a] = "exit"
    BY <2>2 DEF ProcessEnds
  <2>3. ~ServerOpens /\ ~\E b \in App : BootBinds(b)
    BY ShellConstants DEF ServerOpens, BootBinds
  <2>4. ~(Restarts \/ Reopens \/ WorkStarts \/ WorkEnds)
    BY DEF Restarts, Reopens, WorkStarts, WorkEnds
  <2>5. ASSUME NEW b \in App PROVE ~(BootLooks(b) \/ BootEnds(b) \/ Reload(b) \/ RequestQuit(b) \/ RequestUpdate(b)
                                      \/ InstallFails(b))
    BY DEF BootLooks, BootEnds, Reload, RequestQuit, RequestUpdate, InstallFails, ServerSame
  <2>6. ASSUME NEW b \in App, NEW w, NEW reply, NEW yes
        PROVE  ~(AnswerLeave(b, reply) \/ Checks(b, w) \/ Counts(b, w) \/ Ask(b, w) \/ SystemAnswers(b, w, yes) \/ Exits(b, w))
    BY DEF AnswerLeave, Checks, Counts, Ask, SystemAnswers, Exits, ServerSame
  <2>. QED  BY <2>1, <2>2, <2>3, <2>4, <2>5, <2>6, ZenonT(60) DEF ShellNext
<1>. QED  BY ShellAlways, <1>1, PTL DEF ShellSpec, AttachedServerStays

-----------------------------------------------------------------------------
(* The worktrees.  What the cleaner's review saw stays true while it merges *)
(* and removes, because branches only grow; and a task that has a merge     *)
(* session has a resolution on record.                                      *)
TreeTypes ==
    /\ branch \in [Tree -> Int] /\ merged \in [Tree -> Nat]
    /\ resolution \in [Tree -> Resolution] /\ helpers \in [Tree -> Nat]
    /\ cleaner \in Cleaner

BranchesHold == \A t \in Tree : branch[t] >= -1 /\ (merged[t] <= branch[t] \/ merged[t] = 0)
ReviewHolds ==
    LET t == cleaner.task IN
    /\ cleaner.pc = "merge" => branch[t] # -1 /\ cleaner.saw <= branch[t]
    /\ cleaner.pc \in {"finish", "release", "remove"} => cleaner.saw <= merged[t]
SessionsCounted == \A t \in Tree : helpers[t] <= 1 /\ (resolution[t] = "none" => helpers[t] = 0)

TreeShape == TreeTypes /\ BranchesHold /\ ReviewHolds /\ SessionsCounted

(* The cleaner at rest, of a task that may have a worktree.                  *)
LEMMA CleanerRests == AtRest \in Cleaner /\ AtRest.pc = "idle"
<1>1. Somebody \in Tree
  BY TreeConstants DEF Somebody
<1>. QED  BY <1>1 DEF AtRest, Cleaner

(* No worktree, branch or resolution at the start.                           *)
LEMMA TreesStart == TreesInit => TreeShape
  BY CleanerRests, SMTT(60) DEF TreesInit, TreeShape, TreeTypes, BranchesHold, ReviewHolds, SessionsCounted, Resolution

(* The cleaner comes to rest: the resolutions are those it leaves, one it    *)
(* followed given up when its session is gone.                               *)
LEMMA CleanerIsDone ==
    ASSUME TreeShape, NEW resolutions \in [Tree -> Resolution], NEW sessions, Done(resolutions, sessions),
           branch' = branch, merged' = merged, helpers' \in [Tree -> Nat],
           \A t \in Tree : helpers'[t] <= 1 /\ (resolutions[t] = "none" => helpers'[t] = 0)
    PROVE  TreeShape'
<1>1. /\ resolution' \in [Tree -> Resolution]
      /\ \A t \in Tree : resolution'[t] = "none" => resolutions[t] = "none"
  BY DEF Done, Resolution
<1>2. cleaner' = AtRest
  BY DEF Done
<1>. QED  BY <1>1, <1>2, CleanerRests DEF TreeShape, TreeTypes, BranchesHold, ReviewHolds, SessionsCounted

(* A branch that grows takes nothing from what was merged or reviewed.       *)
LEMMA BranchGrows ==
    ASSUME TreeShape, branch' \in [Tree -> Int], \A t \in Tree : branch'[t] >= branch[t],
           UNCHANGED <<merged, cleaner, resolution, helpers>>
    PROVE  TreeShape' /\ CommitsStay
<1>1. cleaner.task \in Tree /\ cleaner.saw \in Nat
  BY DEF TreeShape, TreeTypes, Cleaner
<1>. QED  BY <1>1, SMTT(60) DEF TreeShape, TreeTypes, BranchesHold, ReviewHolds, SessionsCounted, CommitsStay

(* git worktree add -b: a branch that was not there has no commits yet.      *)
LEMMA BranchCreated ==
    ASSUME TreeShape, Create
    PROVE  TreeShape' /\ CommitsStay
<1>1. branch \in [Tree -> Int] /\ \A t \in Tree : branch[t] >= -1
  BY DEF TreeShape, TreeTypes, BranchesHold
<1>2. branch' = [branch EXCEPT ![worker.task] = IF @ = -1 THEN 0 ELSE @] /\ UNCHANGED <<merged, cleaner, resolution, helpers>>
  BY DEF Create
<1>3. branch' \in [Tree -> Int]
  <2>1. PICK v : branch' = [branch EXCEPT ![worker.task] = v] /\ v = IF branch[worker.task] = -1 THEN 0 ELSE branch[worker.task]
    BY <1>2
  <2>2. CASE worker.task \in Tree
    BY <1>1, <2>1, <2>2, SMTT(60)
  <2>3. CASE worker.task \notin Tree
    BY <1>1, <2>1, <2>3
  <2>. QED  BY <2>2, <2>3
<1>4. \A t \in Tree : branch'[t] >= branch[t]
  BY <1>1, <1>2, SMTT(60)
<1>. QED  BY <1>2, <1>3, <1>4, BranchGrows

(* What the person, the sessions, the worker and a crash do: branches grow,  *)
(* and a crash loses resolutions and merge sessions together.                *)
LEMMA TreesAround ==
    ASSUME TreeShape,
           \/ \E t \in Tree : \/ AcceptTask(t) \/ EditTree(t) \/ CommitTree(t) \/ HeadMoves(t) \/ SessionEnds(t)
                              \/ FindOrphan(t) \/ Ensure(t) \/ Hear(t) \/ Lagged(t) \/ Follow(t)
           \/ ForgetMissing \/ Reclaim \/ Reconciled \/ Create \/ CreateFails \/ NameOnTask \/ OpenWork \/ Down
    PROVE  TreeShape' /\ CommitsStay
<1>. USE DEF TreeShape, TreeTypes, BranchesHold, ReviewHolds, SessionsCounted, CommitsStay
<1>1. CASE UNCHANGED <<branch, merged, cleaner, resolution, helpers>>
  BY <1>1, SMTT(60)
<1>2. ASSUME NEW t \in Tree, AcceptTask(t) \/ EditTree(t) \/ HeadMoves(t) \/ SessionEnds(t) \/ FindOrphan(t) \/ Ensure(t) \/ Lagged(t)
      PROVE  UNCHANGED <<branch, merged, cleaner, resolution, helpers>>
  BY <1>2 DEF AcceptTask, EditTree, HeadMoves, SessionEnds, FindOrphan, Ensure, Lagged
<1>3. CASE ForgetMissing \/ Reclaim \/ Reconciled \/ CreateFails \/ NameOnTask \/ OpenWork
  BY <1>1, <1>3 DEF ForgetMissing, Reclaim, Reconciled, CreateFails, NameOnTask, OpenWork
<1>4. ASSUME NEW t \in Tree, CommitTree(t) PROVE TreeShape' /\ CommitsStay
  BY <1>4, BranchGrows, SMTT(60) DEF CommitTree
<1>5. ASSUME NEW t \in Tree, Hear(t) \/ Follow(t) PROVE TreeShape' /\ CommitsStay
  <2>1. /\ cleaner' \in Cleaner /\ cleaner'.pc = "look"
        /\ UNCHANGED <<branch, merged, resolution, helpers>>
    BY <1>5, CleanerRests DEF Hear, Follow, AtRest, Cleaner
  <2>. QED  BY <2>1, SMTT(60)
<1>6. CASE Create
  BY <1>6, BranchCreated
<1>7. CASE Down
  BY <1>7, CleanerRests, SMTT(60) DEF Down, Resolution
<1>. QED  BY <1>1, <1>2, <1>3, <1>4, <1>5, <1>6, <1>7, ZenonT(60)

(* The cleaner's handling of one task, step by step.                         *)
LEMMA CleanerWorks ==
    ASSUME TreeShape,
           Look \/ Review \/ MergeBranch \/ ResolveConflict \/ FinishMerge \/ Release \/ Remove \/ ForgetTree
    PROVE  TreeShape' /\ CommitsStay
<1>1. /\ cleaner \in Cleaner /\ cleaner.task \in Tree /\ cleaner.saw \in Nat
      /\ resolution \in [Tree -> Resolution] /\ helpers \in [Tree -> Nat]
      /\ branch \in [Tree -> Int] /\ merged \in [Tree -> Nat]
      /\ BranchesHold /\ SessionsCounted
  BY DEF TreeShape, TreeTypes, Cleaner
<1>2. ASSUME branch' = branch, merged' = merged PROVE CommitsStay
  BY <1>1, <1>2, SMTT(60) DEF CommitsStay
<1>3. ASSUME NEW to \in Cleaner, cleaner' = to, UNCHANGED <<branch, merged, resolution, helpers>>,
             to.task = cleaner.task, to.pc # "merge",
             to.pc \in {"finish", "release", "remove"} => to.saw <= merged[to.task]
      PROVE  TreeShape' /\ CommitsStay
  BY <1>1, <1>2, <1>3 DEF TreeShape, TreeTypes, BranchesHold, ReviewHolds, SessionsCounted
<1>4. ASSUME Done(resolution, session), UNCHANGED <<branch, merged, helpers>> PROVE TreeShape' /\ CommitsStay
  BY <1>1, <1>2, <1>4, CleanerIsDone DEF SessionsCounted
<1>5. CASE Look
  <2>1. CASE accepted[cleaner.task]
    <3>. DEFINE to == [cleaner EXCEPT !.pc = "review"]
    <3>1. to \in Cleaner /\ to.task = cleaner.task /\ to.pc = "review"
      BY <1>1 DEF Cleaner
    <3>2. cleaner' = to /\ UNCHANGED <<branch, merged, resolution, helpers>>
      BY <1>5, <2>1 DEF Look
    <3>. HIDE DEF to
    <3>. QED  BY <1>3, <3>1, <3>2
  <2>2. CASE ~accepted[cleaner.task]
    <3>. DEFINE rs == [resolution EXCEPT ![cleaner.task] = "none"]
    <3>1. Done(rs, session) /\ helpers' = [helpers EXCEPT ![cleaner.task] = 0] /\ UNCHANGED <<branch, merged>>
      BY <1>5, <2>2 DEF Look
    <3>2. rs \in [Tree -> Resolution] /\ \A t \in Tree : rs[t] = IF t = cleaner.task THEN "none" ELSE resolution[t]
      BY <1>1 DEF Resolution
    <3>. HIDE DEF rs
    <3>3. helpers' \in [Tree -> Nat] /\ \A t \in Tree : helpers'[t] <= 1 /\ (rs[t] = "none" => helpers'[t] = 0)
      BY <1>1, <3>1, <3>2, SMTT(60) DEF SessionsCounted
    <3>. QED  BY <1>2, <3>1, <3>2, <3>3, CleanerIsDone
  <2>. QED  BY <2>1, <2>2
<1>6. CASE Review
  <2>. DEFINE t == cleaner.task
              saw == IF branch[t] = -1 THEN 0 ELSE branch[t]
              pc == IF branch[t] = -1 \/ Ahead(t) = 0 THEN "finish" ELSE IF clash[t] THEN "resolve" ELSE "merge"
              to == [cleaner EXCEPT !.saw = saw, !.pc = pc]
  <2>1. UNCHANGED <<branch, merged, helpers>> /\ (Done(resolution, session) \/ (cleaner' = to /\ UNCHANGED resolution))
    BY <1>6 DEF Review
  <2>2. CASE Done(resolution, session)
    BY <1>4, <2>1, <2>2
  <2>3. CASE cleaner' = to /\ UNCHANGED resolution
    <3>1. branch[t] \in Int /\ merged[t] \in Nat /\ branch[t] >= -1 /\ saw \in Nat
      BY <1>1, SMTT(60) DEF BranchesHold
    <3>2. CASE branch[t] = -1 \/ Ahead(t) = 0
      <4>1. pc = "finish" /\ saw <= merged[t]
        BY <3>1, <3>2, SMTT(60) DEF Ahead
      <4>. HIDE DEF pc, saw
      <4>2. to \in Cleaner /\ to.task = t /\ to.pc = "finish" /\ to.saw = saw
        BY <1>1, <3>1, <4>1 DEF Cleaner
      <4>. HIDE DEF to
      <4>. QED  BY <1>3, <2>1, <2>3, <4>1, <4>2
    <3>3. CASE ~(branch[t] = -1 \/ Ahead(t) = 0)
      <4>1. pc \in {"resolve", "merge"} /\ saw = branch[t]
        BY <3>1, <3>3
      <4>. HIDE DEF pc, saw
      <4>2. to \in Cleaner /\ to.task = t /\ to.pc \in {"resolve", "merge"} /\ to.saw = branch[t]
        BY <1>1, <3>1, <4>1 DEF Cleaner
      <4>. HIDE DEF to
      <4>. QED  BY <1>1, <1>2, <2>1, <2>3, <3>1, <3>3, <4>2, SMTT(60) DEF TreeShape, TreeTypes, BranchesHold, ReviewHolds, SessionsCounted
    <3>. QED  BY <3>2, <3>3
  <2>. QED  BY <2>1, <2>2, <2>3
<1>7. CASE MergeBranch
  <2>1. CASE Done(resolution, session) /\ UNCHANGED merged
    BY <1>4, <1>7, <2>1 DEF MergeBranch
  <2>2. CASE merged' = [merged EXCEPT ![cleaner.task] = branch[cleaner.task]]
             /\ cleaner' = [cleaner EXCEPT !.pc = "finish"] /\ UNCHANGED resolution
    <3>1. branch[cleaner.task] # -1 /\ cleaner.saw <= branch[cleaner.task] /\ UNCHANGED <<branch, helpers>>
      BY <1>7 DEF MergeBranch, TreeShape, ReviewHolds
    <3>2. /\ merged' \in [Tree -> Nat] /\ merged'[cleaner.task] = branch[cleaner.task]
          /\ \A t \in Tree : merged'[t] >= merged[t] /\ (merged'[t] <= branch[t] \/ merged'[t] = 0)
      BY <1>1, <2>2, <3>1, SMTT(60) DEF BranchesHold
    <3>3. cleaner' \in Cleaner /\ cleaner'.pc = "finish" /\ cleaner'.task = cleaner.task /\ cleaner'.saw = cleaner.saw
      BY <1>1, <2>2 DEF Cleaner
    <3>. QED  BY <1>1, <2>2, <3>1, <3>2, <3>3, SMTT(60) DEF TreeShape, TreeTypes, BranchesHold, ReviewHolds, SessionsCounted, CommitsStay
  <2>. QED  BY <1>7, <2>1, <2>2 DEF MergeBranch
<1>8. CASE ResolveConflict
  <2>1. CASE Done(resolution, session) /\ UNCHANGED helpers
    BY <1>4, <1>8, <2>1 DEF ResolveConflict
  <2>2. ASSUME NEW opens \in BOOLEAN, resolution[cleaner.task] = "none",
               helpers' = [helpers EXCEPT ![cleaner.task] = @ + 1], NEW sessions,
               Done([resolution EXCEPT ![cleaner.task] = IF opens THEN "running" ELSE "abandoned"], sessions)
        PROVE  TreeShape' /\ CommitsStay
    <3>1. UNCHANGED <<branch, merged>>
      BY <1>8 DEF ResolveConflict
    <3>2. PICK rs \in [Tree -> Resolution] :
             rs = [resolution EXCEPT ![cleaner.task] = IF opens THEN "running" ELSE "abandoned"]
      BY <1>1 DEF Resolution
    <3>3. helpers' \in [Tree -> Nat] /\ \A t \in Tree : helpers'[t] <= 1 /\ (rs[t] = "none" => helpers'[t] = 0)
      BY <1>1, <2>2, <3>2, SMTT(60) DEF SessionsCounted
    <3>. QED  BY <1>2, <2>2, <3>1, <3>2, <3>3, CleanerIsDone
  <2>. QED  BY <1>8, <2>1, <2>2 DEF ResolveConflict
<1>9. CASE FinishMerge
  <2>1. /\ resolution' = [resolution EXCEPT ![cleaner.task] = "none"] /\ helpers' = [helpers EXCEPT ![cleaner.task] = 0]
        /\ cleaner.pc = "finish" /\ cleaner' = [cleaner EXCEPT !.pc = "release"] /\ UNCHANGED <<branch, merged>>
    BY <1>9 DEF FinishMerge
  <2>2. cleaner' \in Cleaner /\ cleaner'.pc = "release" /\ cleaner'.task = cleaner.task /\ cleaner'.saw = cleaner.saw
    BY <1>1, <2>1 DEF Cleaner
  <2>3. SessionsCounted' /\ resolution' \in [Tree -> Resolution] /\ helpers' \in [Tree -> Nat]
    BY <1>1, <2>1, SMTT(60) DEF SessionsCounted, Resolution
  <2>. QED  BY <1>1, <1>2, <2>1, <2>2, <2>3 DEF TreeShape, TreeTypes, BranchesHold, ReviewHolds
<1>10. CASE Release
  <2>1. CASE Done(resolution, session)
    BY <1>4, <1>10, <2>1 DEF Release
  <2>. DEFINE to == [cleaner EXCEPT !.pc = IF disk[cleaner.task] = "clean" THEN "remove" ELSE "forget"]
  <2>2. CASE cleaner' = to /\ UNCHANGED resolution
    <3>1. to \in Cleaner /\ to.task = cleaner.task /\ to.pc \in {"remove", "forget"} /\ to.saw = cleaner.saw
      BY <1>1 DEF Cleaner
    <3>2. UNCHANGED <<branch, merged, helpers>> /\ cleaner.saw <= merged[cleaner.task]
      BY <1>10 DEF Release, TreeShape, ReviewHolds
    <3>. HIDE DEF to
    <3>. QED  BY <1>3, <2>2, <3>1, <3>2
  <2>. QED  BY <1>10, <2>1, <2>2 DEF Release
<1>11. CASE Remove
  <2>. DEFINE to == [cleaner EXCEPT !.pc = "forget"]
  <2>1. to \in Cleaner /\ to.task = cleaner.task /\ to.pc = "forget"
    BY <1>1 DEF Cleaner
  <2>2. cleaner' = to /\ UNCHANGED <<branch, merged, resolution, helpers>>
    BY <1>11 DEF Remove
  <2>. HIDE DEF to
  <2>. QED  BY <1>3, <2>1, <2>2
<1>12. CASE ForgetTree
  BY <1>4, <1>12 DEF ForgetTree
<1>. QED  BY <1>5, <1>6, <1>7, <1>8, <1>9, <1>10, <1>11, <1>12

(* worktree_cleaner.rs: a task's branch and HEAD never lose a commit, a      *)
(* worktree is taken away only once HEAD has every commit the review saw,    *)
(* and a conflict is given one merge session at most, however the git runs   *)
(* of the worker, the cleaner, the sessions and the person interleave.       *)
THEOREM TreesAreKept == TreesSpec => TreesKeep
<1>1. TreeShape /\ [TreesNext]_trees => TreeShape'
  <2>1. TreeShape /\ TreesNext => TreeShape'
    BY TreesAround, CleanerWorks DEF TreesNext
  <2>2. TreeShape /\ UNCHANGED trees => TreeShape'
    BY SMTT(60) DEF trees, TreeShape, TreeTypes, BranchesHold, ReviewHolds, SessionsCounted
  <2>. QED  BY <2>1, <2>2
<1>2. TreeShape /\ [TreesNext]_trees => [CommitsStay /\ MergedBeforeRemoved /\ OneMergeSession']_trees
  <2>1. TreeShape /\ TreesNext => CommitsStay
    BY TreesAround, CleanerWorks DEF TreesNext
  <2>2. TreeShape => MergedBeforeRemoved
    BY DEF TreeShape, TreeTypes, ReviewHolds, MergedBeforeRemoved
  <2>3. TreeShape' => OneMergeSession'
    BY DEF TreeShape, SessionsCounted, OneMergeSession
  <2>. QED  BY <1>1, <2>1, <2>2, <2>3
<1>. QED  BY TreesStart, <1>1, <1>2, PTL DEF TreesSpec, TreesKeep

-----------------------------------------------------------------------------
(* The database files.  Every folder's zips are finitely many with a name   *)
(* each, one call at most is inside the backup mutex, and every registry,   *)
(* written or about to be, names one of its own entries as active.          *)
ZipsHold(kept) == kept \in SUBSET Zip /\ IsFiniteSet(kept) /\ \A y, z \in kept : y.name = z.name => y = z
FolderHolds ==
    /\ file \in [Folder -> Content] /\ staged \in [Folder -> Content]
    /\ zips \in [Folder -> SUBSET Zip] /\ \A f \in Folder : ZipsHold(zips[f])
    /\ now \in Nat /\ writes \in Nat
CallsHold ==
    /\ call \in [Restorer \cup Backer -> Call]
    /\ writing \in SUBSET (Restorer \cup Backer) /\ \A c, d \in writing : c = d
ServerHolds ==
    /\ sup \in {"opening", "up", "delay", "closed", "failed"}
    /\ asked \in Seq(Request) /\ taken \in Request
NamesItsActive(reg) == reg \in Registry /\ (reg.is = "whole" /\ reg.active # 0 => reg.active \in {d.id : d \in reg.entries})
EditsHold == NamesItsActive(registry) /\ edit \in [Editor -> Edit] /\ \A e \in Editor : NamesItsActive(edit[e].next)

FilesShape == FolderHolds /\ CallsHold /\ ServerHolds /\ EditsHold

(* The shape is what the type invariant and the registry's promise ask.      *)
LEMMA ShapeIsFilesInv == FilesShape => FilesInv
<1>. SUFFICES ASSUME FilesShape PROVE FilesInv
  OBVIOUS
<1>1. Cardinality(writing) <= 1
  <2>1. writing = {} \/ \E c \in writing : writing = {c}
    BY DEF FilesShape, CallsHold
  <2>. QED  BY <2>1, FS_EmptySet, FS_Singleton, SMTT(60)
<1>. QED  BY <1>1 DEF FilesShape, FolderHolds, ZipsHold, CallsHold, ServerHolds, EditsHold, NamesItsActive, FilesInv, FilesTypeOK,
            ActiveIsRegistered, Ids

(* The constants a call, a request and a registry start from.                *)
LEMMA Beginnings ==
    /\ Somewhere \in Folder /\ NoFile \in Content /\ Torn \in Content /\ NoName \in Name
    /\ IdleCall \in Call /\ NoRequest \in Request
    /\ NamesItsActive(NoRegistry) /\ NamesItsActive([NoRegistry EXCEPT !.is = "torn"])
    /\ IdleEdit \in Edit /\ IdleEdit.next = NoRegistry
<1>1. Somewhere \in Folder
  BY FilesConstants DEF Somewhere
<1>2. NoFile \in Content /\ Torn \in Content /\ NoName \in Name
  BY DEF NoFile, Torn, Content, NoName, Name, Reason
<1>3. IdleCall \in Call /\ NoRequest \in Request
  BY <1>1, <1>2 DEF IdleCall, Call, NoRequest, Request
<1>4. NamesItsActive(NoRegistry) /\ NamesItsActive([NoRegistry EXCEPT !.is = "torn"])
  BY DEF NamesItsActive, NoRegistry, Registry
<1>. QED  BY <1>1, <1>2, <1>3, <1>4 DEF IdleEdit, Edit, NamesItsActive

(* Zips are added, replaced, dropped and pruned without a name meaning two.  *)
LEMMA ZipsKept ==
    ASSUME NEW kept, ZipsHold(kept), NEW name \in Name, NEW holds \in Content
    PROVE  ZipsHold(With(kept, name, holds)) /\ ZipsHold(Without(kept, name)) /\ ZipsHold(Prune(kept))
<1>1. \A S \in SUBSET kept : ZipsHold(S)
  BY FS_Subset DEF ZipsHold
<1>2. ZipsHold(Without(kept, name)) /\ ZipsHold(Prune(kept))
  <2>1. Without(kept, name) \in SUBSET kept /\ Prune(kept) \in SUBSET kept
    BY DEF Without, Prune
  <2>. QED  BY <1>1, <2>1
<1>. DEFINE new == [name |-> name, holds |-> holds]
<1>3. PICK z \in Zip : z = new /\ z.name = name
  <2>1. new \in Zip /\ new.name = name
    BY DEF Zip
  <2>. QED  BY <2>1
<1>4. With(kept, name, holds) = Without(kept, name) \cup {z}
  BY <1>3 DEF With, Without
<1>5. \A y \in Without(kept, name) : y.name # name
  BY DEF Without
<1>6. ZipsHold(Without(kept, name) \cup {z})
  <2>1. IsFiniteSet(Without(kept, name) \cup {z})
    BY <1>2, FS_AddElement DEF ZipsHold
  <2>2. Without(kept, name) \cup {z} \in SUBSET Zip
    BY <1>2 DEF ZipsHold
  <2>3. \A x, y \in Without(kept, name) \cup {z} : x.name = y.name => x = y
    BY <1>2, <1>3, <1>5 DEF ZipsHold
  <2>. QED  BY <2>1, <2>2, <2>3 DEF ZipsHold
<1>. QED  BY <1>2, <1>4, <1>6

(* Among one more attempts than there are names, one is free.                *)
LEMMA AttemptFree ==
    ASSUME NEW n \in Nat, NEW taken0, IsFiniteSet(taken0), Cardinality(taken0) <= n, NEW at, NEW why
    PROVE  \E i \in 0 .. n : [at |-> at, attempt |-> i, why |-> why] \notin taken0
<1>. SUFFICES ASSUME \A i \in 0 .. n : [at |-> at, attempt |-> i, why |-> why] \in taken0 PROVE FALSE
  OBVIOUS
<1>1. PICK g : g = [i \in 0 .. n |-> [at |-> at, attempt |-> i, why |-> why]]
  OBVIOUS
<1>2. g \in [0 .. n -> taken0] /\ \A i \in 0 .. n : g[i].attempt = i
  BY <1>1
<1>3. IsFiniteSet(0 .. n) /\ Cardinality(0 .. n) = n + 1 /\ Cardinality(taken0) \in Nat
  BY FS_Interval, FS_CardinalityType, SMTT(60)
<1>4. Cardinality(taken0) < Cardinality(0 .. n)
  BY <1>3, SMTT(60)
<1>5. \E x, y \in 0 .. n : x # y /\ g[x] = g[y]
  BY <1>2, <1>3, <1>4, FS_PigeonHole
<1>. QED  BY <1>2, <1>5

(* fresh_name always finds a free name.                                      *)
LEMMA FreshNameFound ==
    ASSUME FilesShape, NEW f \in Folder, NEW why \in Reason
    PROVE  FreshName(f, why) \in Name /\ FreshName(f, why) \notin Named(f)
<1>1. PICK n : n = Cardinality(zips[f])
  OBVIOUS
<1>2. PICK free : free = {i \in 0 .. n : [at |-> now, attempt |-> i, why |-> why] \notin Named(f)}
  OBVIOUS
<1>3. now \in Nat /\ IsFiniteSet(zips[f]) /\ n \in Nat
  BY <1>1, FS_CardinalityType DEF FilesShape, FolderHolds, ZipsHold
<1>4. IsFiniteSet(Named(f)) /\ Cardinality(Named(f)) <= n
  <2>1. PICK g : g = [z \in zips[f] |-> z.name]
    OBVIOUS
  <2>2. g \in Surjection(zips[f], Named(f))
    BY <2>1 DEF Surjection, Named
  <2>. QED  BY <1>1, <1>3, <2>2, FS_Surjection
<1>5. free \in SUBSET (0 .. n) /\ free # {}
  BY <1>2, <1>3, <1>4, AttemptFree
<1>6. \E i \in free : \A j \in free : i <= j
  BY <1>3, <1>5, LeastOf, SMTT(60)
<1>7. PICK i \in free : FreshName(f, why) = [at |-> now, attempt |-> i, why |-> why]
  BY <1>1, <1>2, <1>6 DEF FreshName
<1>. QED  BY <1>2, <1>3, <1>7, SMTT(60) DEF Name

Calls == Restorer \cup Backer
ZipsStay(kept) == kept \in [Folder -> SUBSET Zip] /\ \A f \in Folder : ZipsHold(kept[f])

(* One folder's zips change.                                                 *)
LEMMA FolderZips ==
    ASSUME ZipsStay(zips), NEW f \in Folder, NEW kept, ZipsHold(kept)
    PROVE  ZipsStay([zips EXCEPT ![f] = kept])
<1>1. kept \in SUBSET Zip
  BY DEF ZipsHold
<1>2. \A g \in Folder : [zips EXCEPT ![f] = kept][g] = IF g = f THEN kept ELSE zips[g]
  BY DEF ZipsStay
<1>. QED  BY <1>1, <1>2 DEF ZipsStay

(* What a call is moved to stays a call.                                     *)
LEMMA CallMoves ==
    ASSUME call \in [Calls -> Call], NEW c \in Calls
    PROVE  /\ call[c].at \in Folder /\ call[c].name \in Name /\ call[c].from \in Name /\ call[c].name.why \in Reason
           /\ call[c].copy \in Content /\ call[c].holds \in Content /\ call[c].copy.n \in Nat
           /\ \A pc \in {"idle", "keep", "extract", "copying", "check", "lock", "vacuum", "zip", "zipping", "send"} :
                 /\ [call EXCEPT ![c].pc = pc] \in [Calls -> Call]
                 /\ \A name \in Name : [call EXCEPT ![c].pc = pc, ![c].name = name] \in [Calls -> Call]
                 /\ \A copy \in Content : [call EXCEPT ![c].pc = pc, ![c].copy = copy] \in [Calls -> Call]
                 /\ \A holds \in Content : [call EXCEPT ![c].pc = pc, ![c].holds = holds] \in [Calls -> Call]
           /\ \A v \in Call : [call EXCEPT ![c] = v] \in [Calls -> Call]
<1>1. call[c] \in Call
  OBVIOUS
<1>2. \A v \in Call : [call EXCEPT ![c] = v] \in [Calls -> Call]
  OBVIOUS
<1>3. /\ call[c].at \in Folder /\ call[c].name \in Name /\ call[c].from \in Name
      /\ call[c].copy \in Content /\ call[c].holds \in Content
  BY <1>1 DEF Call
<1>4. call[c].name.why \in Reason /\ call[c].copy.n \in Nat
  BY <1>3 DEF Name, Content
<1>5. ASSUME NEW pc \in {"idle", "keep", "extract", "copying", "check", "lock", "vacuum", "zip", "zipping", "send"}
      PROVE  /\ [call EXCEPT ![c].pc = pc] \in [Calls -> Call]
             /\ \A name \in Name : [call EXCEPT ![c].pc = pc, ![c].name = name] \in [Calls -> Call]
             /\ \A copy \in Content : [call EXCEPT ![c].pc = pc, ![c].copy = copy] \in [Calls -> Call]
             /\ \A holds \in Content : [call EXCEPT ![c].pc = pc, ![c].holds = holds] \in [Calls -> Call]
  <2>1. [call[c] EXCEPT !.pc = pc] \in Call
    BY <1>1 DEF Call
  <2>2. \A name \in Name : [call[c] EXCEPT !.pc = pc, !.name = name] \in Call
    BY <1>1 DEF Call
  <2>3. \A copy \in Content : [call[c] EXCEPT !.pc = pc, !.copy = copy] \in Call
    BY <1>1 DEF Call
  <2>4. \A holds \in Content : [call[c] EXCEPT !.pc = pc, !.holds = holds] \in Call
    BY <1>1 DEF Call
  <2>. QED  BY <2>1, <2>2, <2>3, <2>4
<1>. QED  BY <1>2, <1>3, <1>4, <1>5

(* A refused call leaves the zips, the staged files and the calls well formed. *)
LEMMA RefuseHolds ==
    ASSUME FilesShape, NEW c \in Calls, NEW kept, ZipsHold(kept), Refuse(c, kept)
    PROVE  ZipsStay(zips)' /\ staged' \in [Folder -> Content] /\ call' \in [Calls -> Call]
<1>1. call \in [Calls -> Call] /\ ZipsStay(zips) /\ staged \in [Folder -> Content]
  BY DEF FilesShape, CallsHold, FolderHolds, ZipsStay, Calls
<1>2. call[c].at \in Folder /\ call[c].from \in Name
  BY <1>1, CallMoves
<1>3. ZipsHold(Dropped(c, kept))
  <2>1. ZipsHold(Without(kept, call[c].from))
    BY <1>2, Beginnings, ZipsKept
  <2>. QED  BY <2>1 DEF Dropped
<1>4. ZipsStay([zips EXCEPT ![call[c].at] = Dropped(c, kept)])
  BY <1>1, <1>2, <1>3, FolderZips
<1>5. ZipsStay(zips)'
  <2>1. zips' = [zips EXCEPT ![call[c].at] = Dropped(c, kept)]
    BY DEF Refuse
  <2>. QED  BY <1>4, <2>1 DEF ZipsStay
<1>6. staged' \in [Folder -> Content]
  BY <1>1, <1>2, Beginnings DEF Refuse
<1>7. call' \in [Calls -> Call]
  BY <1>1, Beginnings, CallMoves DEF Refuse
<1>. QED  BY <1>5, <1>6, <1>7

(* The state of the folders and the calls after a step that leaves the        *)
(* server and the registry as they are.                                       *)
Unserved == UNCHANGED <<sup, asked, taken, registry>>
FilesAfter ==
    /\ file' \in [Folder -> Content] /\ staged' \in [Folder -> Content] /\ ZipsStay(zips)'
    /\ now' \in Nat /\ writes' \in Nat
    /\ call' \in [Calls -> Call] /\ writing' \in SUBSET Calls /\ \A c, d \in writing' : c = d

(* What the shape says of the folders and the calls, in the same form.        *)
LEMMA FilesBefore ==
    ASSUME FilesShape
    PROVE  /\ file \in [Folder -> Content] /\ staged \in [Folder -> Content] /\ ZipsStay(zips)
           /\ now \in Nat /\ writes \in Nat
           /\ call \in [Calls -> Call] /\ writing \in SUBSET Calls /\ \A c, d \in writing : c = d
           /\ \A f \in Folder : ZipsHold(zips[f])
BY DEF FilesShape, FolderHolds, CallsHold, ZipsStay, Calls

(* The backup mutex, the copy and the zip.                                    *)
LEMMA BackupHolds ==
    ASSUME FilesShape, NEW c \in Calls, Lock(c) \/ Vacuum(c) \/ ZipStarts(c) \/ ZipEnds(c)
    PROVE  FilesAfter /\ Unserved
<1>. USE FilesBefore
<1>. DEFINE f == call[c].at
<1>1. f \in Folder /\ call[c].name \in Name /\ call[c].copy \in Content /\ call[c].name.why \in Reason
  BY CallMoves
<1>2. ASSUME NEW kept, ZipsHold(kept), zips' = [zips EXCEPT ![f] = kept] PROVE ZipsStay(zips)'
  BY <1>1, <1>2, FolderZips DEF ZipsStay
<1>3. CASE Lock(c)
  <2>. DEFINE why == IF c \in Restorer THEN "before-restore" ELSE call[c].name.why
  <2>1. FreshName(f, why) \in Name
    BY <1>1, FreshNameFound DEF Reason
  <2>2. call' \in [Calls -> Call]
    BY <1>3, <2>1, CallMoves, ZenonT(60) DEF Lock
  <2>3. writing' = {c}
    BY <1>3 DEF Lock
  <2>. QED  BY <1>3, <2>2, <2>3 DEF Lock, FilesAfter, Unserved, ZipsStay
<1>4. CASE Vacuum(c)
  <2>1. CASE Refuse(c, zips[f])
    BY <1>1, <1>4, <2>1, RefuseHolds DEF Vacuum, FilesAfter, Unserved
  <2>2. CASE call' = [call EXCEPT ![c].pc = "zip", ![c].copy = file[f]] /\ UNCHANGED <<staged, zips, writing>>
    <3>1. call' \in [Calls -> Call]
      BY <1>1, <2>2, CallMoves, ZenonT(60)
    <3>. QED  BY <1>4, <2>2, <3>1 DEF Vacuum, FilesAfter, Unserved, ZipsStay
  <2>. QED  BY <1>4, <2>1, <2>2 DEF Vacuum
<1>5. CASE ZipStarts(c)
  <2>1. ZipsHold(With(zips[f], call[c].name, Torn))
    BY <1>1, Beginnings, ZipsKept
  <2>2. ZipsStay(zips)'
    BY <1>2, <1>5, <2>1 DEF ZipStarts
  <2>3. call' \in [Calls -> Call]
    BY <1>5, CallMoves DEF ZipStarts, Go
  <2>. QED  BY <1>5, <2>2, <2>3 DEF ZipStarts, FilesAfter, Unserved
<1>6. CASE ZipEnds(c)
  <2>. DEFINE kept == Prune(With(zips[f], call[c].name, call[c].copy))
  <2>1. ZipsHold(With(zips[f], call[c].name, call[c].copy)) /\ ZipsHold(Without(zips[f], call[c].name))
    BY <1>1, ZipsKept
  <2>2. ZipsHold(kept)
    BY <1>1, <2>1, ZipsKept
  <2>3. /\ writing' \in SUBSET Calls /\ \A d, e \in writing' : d = e
        /\ UNCHANGED <<file, now, writes, sup, asked, taken, registry>>
    BY <1>6 DEF ZipEnds
  <2>4. CASE Refuse(c, kept) \/ Refuse(c, Without(zips[f], call[c].name))
    <3>. HIDE DEF kept
    <3>. QED  BY <2>1, <2>2, <2>3, <2>4, RefuseHolds, ZenonT(60) DEF FilesAfter, Unserved
  <2>5. CASE /\ zips' = [zips EXCEPT ![f] = kept] /\ UNCHANGED staged
             /\ IF c \in Restorer THEN Go(c, "send") ELSE call' = [call EXCEPT ![c] = IdleCall]
    <3>1. ZipsStay(zips)'
      <4>. HIDE DEF kept
      <4>. QED  BY <1>2, <2>2, <2>5
    <3>2. [call EXCEPT ![c].pc = "send"] \in [Calls -> Call] /\ [call EXCEPT ![c] = IdleCall] \in [Calls -> Call]
      BY Beginnings, CallMoves
    <3>3. call' \in [Calls -> Call]
      BY <2>5, <3>2 DEF Go
    <3>. QED  BY <2>3, <2>5, <3>1, <3>3 DEF FilesAfter, Unserved
  <2>. QED  BY <1>6, <2>4, <2>5 DEF ZipEnds
<1>. QED  BY <1>3, <1>4, <1>5, <1>6

(* The call that restores an upload.                                          *)
LEMMA UploadBegins ==
    ASSUME NEW f \in Folder, NEW name \in Name, NEW is \in Upload
    PROVE  [IdleCall EXCEPT !.pc = "keep", !.at = f, !.uploaded = TRUE, !.from = name,
                            !.holds = [is |-> is, n |-> 0]] \in Call
<1>1. IdleCall \in Call /\ [is |-> is, n |-> 0] \in Content
  BY Beginnings, FilesConstants DEF Content
<1>. QED  BY <1>1 DEF Call

(* The instance's writes, the clock and the drives.                            *)
LEMMA AroundHolds ==
    ASSUME FilesShape, NEW f \in Folder, Write \/ Tick \/ Replug(f)
    PROVE  FilesAfter /\ Unserved
<1>. USE FilesBefore
<1>1. CASE Write
  <2>1. \A g \in Folder : [file[g] EXCEPT !.n = writes + 1] \in Content
    BY SMTT(60) DEF Content
  <2>2. file' \in [Folder -> Content] /\ writes' \in Nat
    BY <1>1, <2>1, SMTT(60) DEF Write
  <2>. QED  BY <1>1, <2>2 DEF Write, FilesAfter, Unserved, ZipsStay
<1>2. CASE Tick \/ Replug(f)
  BY <1>2, SMTT(60) DEF Tick, Replug, FilesAfter, Unserved, ZipsStay
<1>. QED  BY <1>1, <1>2

(* Backups and restores that begin.                                            *)
LEMMA BeginningHolds ==
    ASSUME FilesShape, NEW f \in Folder, NEW c \in Calls, NEW why \in {"auto", "manual"},
           BackUp(c, f, why) \/ Restore(c, f) \/ RestoreFile(c, f)
    PROVE  FilesAfter /\ Unserved
<1>. USE FilesBefore
<1>3. ASSUME NEW v \in Call, call' = [call EXCEPT ![c] = v],
             UNCHANGED <<file, staged, zips, now, writes, writing, sup, open, asked, taken, registry, there>>
      PROVE  FilesAfter /\ Unserved
  BY <1>3, CallMoves DEF FilesAfter, Unserved, ZipsStay
<1>4. CASE BackUp(c, f, why)
  <2>1. [NoName EXCEPT !.why = why] \in Name
    BY DEF NoName, Name, Reason
  <2>2. [IdleCall EXCEPT !.pc = "lock", !.at = f, !.name.why = why] \in Call
    BY <2>1, Beginnings, ZenonT(60) DEF Call, IdleCall
  <2>. QED  BY <1>3, <1>4, <2>2 DEF BackUp
<1>5. CASE Restore(c, f)
  <2>1. PICK name \in Named(f) : call' = [call EXCEPT ![c] = [IdleCall EXCEPT !.pc = "extract", !.at = f, !.from = name]]
    BY <1>5 DEF Restore
  <2>2. name \in Name
    <3>1. PICK z \in zips[f] : name = z.name
      BY DEF Named
    <3>2. z \in Zip
      BY <3>1 DEF ZipsHold
    <3>. QED  BY <3>1, <3>2 DEF Zip
  <2>3. [IdleCall EXCEPT !.pc = "extract", !.at = f, !.from = name] \in Call
    BY <2>2, Beginnings DEF Call
  <2>. QED  BY <1>3, <1>5, <2>1, <2>3 DEF Restore
<1>6. CASE RestoreFile(c, f)
  <2>1. PICK is \in Upload :
            call' = [call EXCEPT ![c] = [IdleCall EXCEPT !.pc = "keep", !.at = f, !.uploaded = TRUE,
                                                         !.from = FreshName(f, "uploaded"), !.holds = [is |-> is, n |-> 0]]]
    BY <1>6 DEF RestoreFile
  <2>2. FreshName(f, "uploaded") \in Name
    BY FreshNameFound, ZenonT(60) DEF Reason
  <2>. QED  BY <1>3, <1>6, <2>1, <2>2, UploadBegins DEF RestoreFile, Reason
<1>. QED  BY <1>4, <1>5, <1>6

(* A restore after it began, up to the restart it asks for.                    *)
LEMMA RestoreHolds ==
    ASSUME FilesShape, NEW r \in Calls, KeepUpload(r) \/ Extract(r) \/ Copied(r) \/ CheckOpenable(r)
    PROVE  FilesAfter /\ Unserved
<1>. USE FilesBefore
<1>. DEFINE f == call[r].at
<1>1. f \in Folder /\ call[r].from \in Name /\ call[r].holds \in Content
  BY CallMoves
<1>2. ASSUME NEW kept, ZipsHold(kept), zips' = [zips EXCEPT ![f] = kept] PROVE ZipsStay(zips)'
  BY <1>1, <1>2, FolderZips DEF ZipsStay
<1>3. ASSUME Refuse(r, zips[f]), UNCHANGED <<file, now, writes, writing, sup, open, asked, taken, registry, there>>
      PROVE  FilesAfter /\ Unserved
  BY <1>1, <1>3, RefuseHolds DEF FilesAfter, Unserved
<1>4. CASE KeepUpload(r)
  <2>1. ZipsHold(With(zips[f], call[r].from, call[r].holds))
    BY <1>1, ZipsKept
  <2>2. ZipsStay(zips)'
    BY <1>2, <1>4, <2>1 DEF KeepUpload
  <2>3. call' \in [Calls -> Call]
    BY <1>4, CallMoves DEF KeepUpload, Go
  <2>. QED  BY <1>4, <2>2, <2>3 DEF KeepUpload, FilesAfter, Unserved
<1>5. CASE Extract(r)
  <2>1. CASE /\ zips' = [zips EXCEPT ![f] = Dropped(r, @)] /\ UNCHANGED staged
             /\ call' = [call EXCEPT ![r] = IdleCall]
    <3>1. ZipsHold(Dropped(r, zips[f]))
      <4>1. ZipsHold(Without(zips[f], call[r].from))
        BY <1>1, Beginnings, ZipsKept
      <4>. QED  BY <1>1, <4>1 DEF Dropped
    <3>2. ZipsStay(zips)'
      BY <1>2, <2>1, <3>1
    <3>3. call' \in [Calls -> Call]
      BY <2>1, Beginnings, CallMoves
    <3>. QED  BY <1>5, <2>1, <3>2, <3>3 DEF Extract, FilesAfter, Unserved
  <2>2. ASSUME NEW z \in zips[f], staged' = [staged EXCEPT ![f] = Torn], UNCHANGED zips,
               call' = [call EXCEPT ![r].pc = "copying", ![r].holds = z.holds]
        PROVE  FilesAfter /\ Unserved
    <3>1. z.holds \in Content
      BY <1>1, <2>2 DEF ZipsHold, Zip
    <3>2. call' \in [Calls -> Call]
      BY <2>2, <3>1, CallMoves, ZenonT(60)
    <3>3. staged' \in [Folder -> Content]
      BY <1>1, <2>2, Beginnings
    <3>. QED  BY <1>5, <2>2, <3>2, <3>3 DEF Extract, FilesAfter, Unserved, ZipsStay
  <2>. QED  BY <1>5, <2>1, <2>2 DEF Extract
<1>6. CASE Copied(r)
  <2>1. ASSUME NEW out \in {NoFile, Torn, call[r].holds}, staged' = [staged EXCEPT ![f] = out],
               Go(r, "check"), UNCHANGED zips
        PROVE  FilesAfter /\ Unserved
    <3>1. call' \in [Calls -> Call]
      BY <2>1, CallMoves DEF Go
    <3>2. staged' \in [Folder -> Content]
      BY <1>1, <2>1, Beginnings
    <3>. QED  BY <1>6, <2>1, <3>1, <3>2 DEF Copied, FilesAfter, Unserved, ZipsStay
  <2>. QED  BY <1>3, <1>6, <2>1 DEF Copied
<1>7. CASE CheckOpenable(r)
  <2>1. CASE call' = [call EXCEPT ![r].pc = "lock", ![r].holds = staged[f]] /\ UNCHANGED <<zips, staged>>
    <3>1. call' \in [Calls -> Call]
      BY <1>1, <2>1, CallMoves, ZenonT(60)
    <3>. QED  BY <1>7, <2>1, <3>1 DEF CheckOpenable, FilesAfter, Unserved, ZipsStay
  <2>. QED  BY <1>3, <1>7, <2>1 DEF CheckOpenable
<1>. QED  BY <1>4, <1>5, <1>6, <1>7

(* The restart a restore asks for.                                             *)
LEMMA SendHolds ==
    ASSUME FilesShape, NEW r \in Calls, Send(r)
    PROVE  FilesAfter /\ ServerHolds' /\ registry' = registry
<1>. USE FilesBefore
<1>1. ServerHolds /\ call[r].at \in Folder /\ call[r].holds \in Content /\ call[r].copy.n \in Nat
  BY CallMoves DEF FilesShape
<1>2. CASE ~CanRestart(r) /\ Refuse(r, zips[call[r].at]) /\ UNCHANGED asked
  <2>1. ZipsStay(zips)' /\ staged' \in [Folder -> Content] /\ call' \in [Calls -> Call]
    BY <1>1, <1>2, RefuseHolds
  <2>. QED  BY <1>1, <1>2, <2>1 DEF Send, FilesAfter, ServerHolds
<1>3. CASE /\ asked' = Append(asked, [swaps |-> TRUE, at |-> call[r].at, checked |-> call[r].holds, safe |-> call[r].copy.n])
           /\ call' = [call EXCEPT ![r] = IdleCall] /\ UNCHANGED <<zips, staged>>
  <2>1. call' \in [Calls -> Call]
    BY <1>3, Beginnings, CallMoves
  <2>2. [swaps |-> TRUE, at |-> call[r].at, checked |-> call[r].holds, safe |-> call[r].copy.n] \in Request
    BY <1>1 DEF Request
  <2>3. asked' \in Seq(Request)
    <3>1. PICK q \in Request : asked' = Append(asked, q)
      BY <1>3, <2>2
    <3>. QED  BY <1>1, <3>1, SMTT(60) DEF ServerHolds
  <2>. QED  BY <1>1, <1>3, <2>1, <2>3 DEF Send, FilesAfter, ServerHolds, ZipsStay
<1>. QED  BY <1>2, <1>3 DEF Send

(* The supervisor's steps: opening, taking a request, closing, swapping and a *)
(* crash.                                                                     *)
LEMMA SupervisorHolds ==
    ASSUME FilesShape, OpenInstance \/ TakeRequest \/ Close \/ AfterClose \/ Crash
    PROVE  FilesAfter /\ ServerHolds' /\ NamesItsActive(registry')
<1>. USE FilesBefore, Beginnings
<1>1. ServerHolds /\ NamesItsActive(registry)
  BY DEF FilesShape, EditsHold
<1>2. CASE OpenInstance
  <2>1. NamesItsActive(Resolved)
    <3>1. [is |-> "whole", active |-> 1, entries |-> {[id |-> 1, at |-> Somewhere]}] \in Registry
      BY SMTT(60) DEF Registry
    <3>. QED  BY <1>1, <3>1 DEF Resolved, NamesItsActive
  <2>2. call' \in [Calls -> Call]
    <3>1. \A c \in Calls : [call[c] EXCEPT !.late = TRUE] \in Call
      BY ZenonT(60) DEF Call
    <3>. QED  BY <1>2, <3>1 DEF OpenInstance
  <2>3. file' \in [Folder -> Content]
    <3>1. [is |-> "rekall", n |-> 0] \in Content
      BY DEF Content
    <3>. QED  BY <1>2, <3>1 DEF OpenInstance
  <2>4. sup' \in {"opening", "up", "delay", "closed", "failed"} /\ registry' = Resolved
    BY <1>2 DEF OpenInstance
  <2>. QED  BY <1>1, <1>2, <2>1, <2>2, <2>3, <2>4, SMTT(60) DEF OpenInstance, FilesAfter, ServerHolds, ZipsStay
<1>3. CASE TakeRequest
  <2>1. Head(asked) \in Request /\ Tail(asked) \in Seq(Request)
    BY <1>1, <1>3, SMTT(60) DEF TakeRequest, ServerHolds
  <2>. QED  BY <1>1, <1>3, <2>1 DEF TakeRequest, FilesAfter, ServerHolds, ZipsStay
<1>4. CASE Close
  BY <1>1, <1>4 DEF Close, FilesAfter, ServerHolds, ZipsStay
<1>5. CASE AfterClose
  <2>1. taken.at \in Folder
    BY <1>1 DEF ServerHolds, Request
  <2>2. file' \in [Folder -> Content] /\ staged' \in [Folder -> Content]
    BY <1>5, <2>1 DEF AfterClose, Swap
  <2>. QED  BY <1>1, <1>5, <2>2 DEF AfterClose, FilesAfter, ServerHolds, ZipsStay
<1>6. CASE Crash
  <2>1. call' \in [Calls -> Call]
    BY <1>6 DEF Crash
  <2>. QED  BY <1>1, <1>6, <2>1, SMTT(60) DEF Crash, FilesAfter, ServerHolds, ZipsStay
<1>. QED  BY <1>2, <1>3, <1>4, <1>5, <1>6, ZenonT(60)

(* A call that decided on a registry is about to write one that names its      *)
(* active entry.                                                               *)
LEMMA WillHolds ==
    ASSUME FilesShape, NEW e \in Editor, NEW next, NEW again \in BOOLEAN,
           NamesItsActive(next), Will(e, next, again)
    PROVE  EditsHold'
<1>1. [IdleEdit EXCEPT !.pc = "empty", !.next = next, !.restarts = again] \in Edit
  BY Beginnings DEF Edit, NamesItsActive
<1>2. edit \in [Editor -> Edit] /\ \A d \in Editor : NamesItsActive(edit[d].next)
  BY DEF FilesShape, EditsHold
<1>3. registry' = registry /\ NamesItsActive(registry)
  BY DEF FilesShape, EditsHold, Will, files
<1>4. PICK v \in Edit : edit' = [edit EXCEPT ![e] = v] /\ v.next = next
  <2>1. [IdleEdit EXCEPT !.pc = "empty", !.next = next, !.restarts = again].next = next
    BY Beginnings DEF Edit
  <2>. QED  BY <1>1, <2>1 DEF Will
<1>5. \A d \in Editor : edit'[d].next = IF d = e THEN next ELSE edit[d].next
  BY <1>2, <1>4
<1>6. edit' \in [Editor -> Edit]
  BY <1>2, <1>4
<1>. QED  BY <1>2, <1>3, <1>5, <1>6 DEF EditsHold

(* The registry's edits begin and end with registries that name their active   *)
(* entry: an added folder is its own active one, an activated one is           *)
(* registered, and the active one is never forgotten.                          *)
LEMMA EditBegins ==
    ASSUME FilesShape, NEW e \in Editor, NEW f \in Folder, NEW id \in Editor \cup {1},
           Add(e, f) \/ Activate(e, id) \/ Rename(e, id) \/ Forget(e, id)
    PROVE  EditsHold' /\ UNCHANGED files
<1>1. UNCHANGED files
  BY DEF Add, Activate, Rename, Forget, Will
<1>2. registry \in Registry /\ NamesItsActive(registry) /\ id \in Nat /\ e \in Nat
  <2>1. EditsHold /\ 1 \in Nat
    BY DEF FilesShape
  <2>2. NamesItsActive(registry)
    BY <2>1 DEF EditsHold
  <2>3. registry \in Registry
    BY <2>2 DEF NamesItsActive
  <2>4. e \in Nat /\ (id \in Editor => id \in Nat)
    BY EditorConstants
  <2>. QED  BY <2>1, <2>2, <2>3, <2>4
<1>3. registry.entries \in SUBSET [id : Nat, at : Folder] /\ registry.is \in {"none", "torn", "whole"} /\ registry.active \in Nat
  BY <1>2 DEF Registry
<1>4. CASE Add(e, f)
  <2>. DEFINE more == registry.entries \cup {[id |-> e, at |-> f]}
  <2>1. more \in SUBSET [id : Nat, at : Folder] /\ e \in {d.id : d \in more}
    <3>0. [id |-> e, at |-> f] \in [id : Nat, at : Folder] /\ [id |-> e, at |-> f].id = e
      BY <1>2
    <3>1. PICK new \in [id : Nat, at : Folder] : new = [id |-> e, at |-> f] /\ new.id = e
      BY <3>0
    <3>2. more = registry.entries \cup {new}
      BY <3>1
    <3>3. more \in SUBSET [id : Nat, at : Folder] /\ new \in more
      BY <1>3, <3>2
    <3>. HIDE DEF more
    <3>. QED  BY <3>1, <3>3
  <2>2. NamesItsActive([is |-> "whole", active |-> e, entries |-> more])
    BY <1>2, <2>1 DEF NamesItsActive, Registry
  <2>. QED  BY <1>1, <1>4, <2>2, WillHolds DEF Add
<1>5. CASE Activate(e, id)
  <2>1. id \in {d.id : d \in registry.entries}
    BY <1>5 DEF Activate
  <2>2. NamesItsActive([registry EXCEPT !.active = id])
    BY <1>2, <1>3, <2>1 DEF NamesItsActive, Registry
  <2>. QED  BY <1>1, <1>5, <2>2, WillHolds, ZenonT(60) DEF Activate
<1>6. CASE Rename(e, id)
  BY <1>1, <1>2, <1>6, WillHolds, ZenonT(60) DEF Rename
<1>7. CASE Forget(e, id)
  <2>. DEFINE left == {d \in registry.entries : d.id # id}
  <2>1. left \in SUBSET [id : Nat, at : Folder]
    BY <1>3
  <2>2. registry.active \in {d.id : d \in registry.entries} => registry.active \in {d.id : d \in left}
    BY <1>7 DEF Forget
  <2>3. NamesItsActive([registry EXCEPT !.entries = left])
    BY <1>2, <1>3, <2>1, <2>2 DEF NamesItsActive, Registry
  <2>. QED  BY <1>1, <1>7, <2>3, WillHolds DEF Forget
<1>. QED  BY <1>4, <1>5, <1>6, <1>7

(* Emptying config.json and writing it whole again.                            *)
LEMMA EditEnds ==
    ASSUME FilesShape, NEW e \in Editor, WriteEmpties(e) \/ WriteEnds(e)
    PROVE  FilesAfter /\ ServerHolds' /\ EditsHold'
<1>. USE FilesBefore
<1>1. edit \in [Editor -> Edit] /\ \A d \in Editor : NamesItsActive(edit[d].next)
  BY DEF FilesShape, EditsHold
<1>2. ServerHolds
  BY DEF FilesShape
<1>3. FilesAfter
  BY DEF WriteEmpties, WriteEnds, FilesAfter, ZipsStay
<1>4. ASSUME NEW v \in Edit, NamesItsActive(v.next), edit' = [edit EXCEPT ![e] = v]
      PROVE  edit' \in [Editor -> Edit] /\ \A d \in Editor : NamesItsActive(edit'[d].next)
  BY <1>1, <1>4
<1>5. CASE WriteEmpties(e)
  <2>1. [edit[e] EXCEPT !.pc = "write"] \in Edit /\ [edit[e] EXCEPT !.pc = "write"].next = edit[e].next
    BY <1>1 DEF Edit
  <2>2. edit' = [edit EXCEPT ![e] = [edit[e] EXCEPT !.pc = "write"]]
    BY <1>1, <1>5 DEF WriteEmpties
  <2>3. edit' \in [Editor -> Edit] /\ \A d \in Editor : NamesItsActive(edit'[d].next)
    BY <1>1, <1>4, <2>1, <2>2
  <2>4. NamesItsActive(registry')
    BY <1>5, Beginnings DEF WriteEmpties
  <2>5. ServerHolds'
    BY <1>2, <1>5, ZenonT(60) DEF WriteEmpties, ServerHolds
  <2>. QED  BY <1>3, <2>3, <2>4, <2>5 DEF EditsHold
<1>6. CASE WriteEnds(e)
  <2>1. [IdleEdit EXCEPT !.pc = "done"] \in Edit /\ [IdleEdit EXCEPT !.pc = "done"].next = NoRegistry
    BY Beginnings DEF Edit
  <2>2. edit' \in [Editor -> Edit] /\ \A d \in Editor : NamesItsActive(edit'[d].next)
    BY <1>4, <1>6, <2>1, Beginnings DEF WriteEnds
  <2>3. NamesItsActive(registry')
    BY <1>1, <1>6 DEF WriteEnds
  <2>4. ServerHolds'
    <3>1. asked' \in Seq(Request)
      BY <1>2, <1>6, Beginnings, SMTT(60) DEF WriteEnds, ServerHolds
    <3>. QED  BY <1>2, <1>6, <3>1 DEF WriteEnds, ServerHolds
  <2>. QED  BY <1>3, <2>2, <2>3, <2>4 DEF EditsHold
<1>. QED  BY <1>5, <1>6

(* An edit of an instance that closed is late, or over after a crash; what it   *)
(* would write stays as it was.                                                 *)
LEMMA EditsAge ==
    ASSUME FilesShape, NamesItsActive(registry'), edit' \in {edit, Aged, [e \in Editor |-> [IdleEdit EXCEPT !.pc = "done"]]}
    PROVE  EditsHold'
<1>1. edit \in [Editor -> Edit] /\ \A d \in Editor : NamesItsActive(edit[d].next)
  BY DEF FilesShape, EditsHold
<1>2. CASE edit' = edit
  BY <1>1, <1>2 DEF EditsHold
<1>3. CASE edit' = Aged
  <2>1. \A d \in Editor : [edit[d] EXCEPT !.late = TRUE] \in Edit /\ [edit[d] EXCEPT !.late = TRUE].next = edit[d].next
    BY <1>1, ZenonT(60) DEF Edit
  <2>2. \A d \in Editor : edit'[d] \in Edit /\ edit'[d].next = edit[d].next
    BY <1>1, <1>3, <2>1 DEF Aged
  <2>3. edit' \in [Editor -> Edit]
    BY <1>3, <2>2 DEF Aged
  <2>. QED  BY <1>1, <2>2, <2>3 DEF EditsHold
<1>4. CASE edit' = [e \in Editor |-> [IdleEdit EXCEPT !.pc = "done"]]
  <2>1. [IdleEdit EXCEPT !.pc = "done"] \in Edit /\ [IdleEdit EXCEPT !.pc = "done"].next = NoRegistry
    BY Beginnings DEF Edit
  <2>2. \A d \in Editor : edit'[d] \in Edit /\ edit'[d].next = NoRegistry
    BY <1>4, <2>1
  <2>3. edit' \in [Editor -> Edit]
    BY <1>4, <2>1
  <2>. QED  BY <2>2, <2>3, Beginnings DEF EditsHold
<1>. QED  BY <1>2, <1>3, <1>4

(* The folders before anything is opened.                                        *)
LEMMA FilesStart == RegistryInit => FilesShape
<1>. SUFFICES ASSUME RegistryInit PROVE FilesShape
  OBVIOUS
<1>. USE Beginnings DEF RegistryInit, FilesInit
<1>1. FolderHolds
  <2>1. ZipsHold({}) /\ [is |-> "rekall", n |-> 0] \in Content
    BY FS_EmptySet DEF ZipsHold, Content
  <2>2. file \in [Folder -> Content] /\ staged \in [Folder -> Content]
    BY <2>1
  <2>. QED  BY <2>1, <2>2 DEF FolderHolds
<1>2. CallsHold
  BY DEF CallsHold
<1>3. ServerHolds
  BY SMTT(60) DEF ServerHolds
<1>4. EditsHold
  <2>1. NamesItsActive([is |-> "whole", active |-> 1, entries |-> {[id |-> 1, at |-> Somewhere]}])
    BY SMTT(60) DEF NamesItsActive, Registry
  <2>2. NamesItsActive(registry)
    BY <2>1
  <2>. QED  BY <2>2 DEF EditsHold
<1>. QED  BY <1>1, <1>2, <1>3, <1>4, ZenonT(60) DEF FilesShape

(* After every step the shape holds.                                             *)
LEMMA FilesStepHolds == FilesShape /\ RegistryNext => FilesShape'
<1>. SUFFICES ASSUME FilesShape, RegistryNext PROVE FilesShape'
  OBVIOUS
<1>1. FilesAfter => FolderHolds' /\ CallsHold'
  BY DEF FilesAfter, ZipsStay, Calls, FolderHolds, CallsHold
<1>2. FilesAfter /\ ServerHolds' /\ EditsHold' => FilesShape'
  BY <1>1 DEF FilesShape
<1>3. FilesAfter /\ Unserved => FilesAfter /\ ServerHolds' /\ NamesItsActive(registry')
  BY DEF Unserved, FilesShape, ServerHolds, EditsHold
<1>4. FilesStep => FilesAfter /\ ServerHolds' /\ NamesItsActive(registry')
  <2>1. ASSUME NEW f \in Folder, Write \/ Tick \/ Replug(f) PROVE FilesAfter /\ Unserved
    BY <2>1, AroundHolds
  <2>2. ASSUME NEW b \in Backer, NEW f \in Folder, NEW why \in {"auto", "manual"}, BackUp(b, f, why)
        PROVE  FilesAfter /\ Unserved
    BY <2>2, BeginningHolds DEF Calls
  <2>3. ASSUME NEW c \in Restorer \cup Backer, Lock(c) \/ Vacuum(c) \/ ZipStarts(c) \/ ZipEnds(c)
        PROVE  FilesAfter /\ Unserved
    BY <2>3, BackupHolds DEF Calls
  <2>4. ASSUME NEW r \in Restorer, NEW f \in Folder, Restore(r, f) \/ RestoreFile(r, f)
        PROVE  FilesAfter /\ Unserved
    BY <2>4, BeginningHolds DEF Calls
  <2>5. ASSUME NEW r \in Restorer, KeepUpload(r) \/ Extract(r) \/ Copied(r) \/ CheckOpenable(r)
        PROVE  FilesAfter /\ Unserved
    BY <2>5, RestoreHolds DEF Calls
  <2>6. ASSUME NEW r \in Restorer, Send(r) PROVE FilesAfter /\ ServerHolds' /\ NamesItsActive(registry')
    BY <2>6, SendHolds DEF Calls, FilesShape, EditsHold
  <2>7. Somewhere \in Folder
    BY Beginnings
  <2>. QED  BY <1>3, <2>1, <2>2, <2>3, <2>4, <2>5, <2>6, <2>7, SupervisorHolds, ZenonT(60) DEF FilesStep
<1>5. CASE FilesStep /\ edit' = IF sup = "opening" /\ sup' # sup THEN Aged ELSE edit
  <2>1. EditsHold'
    BY <1>4, <1>5, EditsAge
  <2>. QED  BY <1>2, <1>4, <1>5, <2>1
<1>6. CASE Crash /\ edit' = [e \in Editor |-> [IdleEdit EXCEPT !.pc = "done"]]
  <2>1. FilesAfter /\ ServerHolds' /\ NamesItsActive(registry')
    BY <1>6, SupervisorHolds
  <2>2. EditsHold'
    BY <1>6, <2>1, EditsAge
  <2>. QED  BY <1>2, <2>1, <2>2
<1>7. ASSUME NEW e \in Editor, NEW f \in Folder, NEW id \in Editor \cup {1},
             Add(e, f) \/ Activate(e, id) \/ Rename(e, id) \/ Forget(e, id)
      PROVE  FilesShape'
  <2>1. EditsHold' /\ UNCHANGED files
    BY <1>7, EditBegins
  <2>2. FolderHolds' /\ CallsHold' /\ ServerHolds'
    BY <2>1 DEF FilesShape, FolderHolds, CallsHold, ServerHolds, files
  <2>. QED  BY <2>1, <2>2 DEF FilesShape
<1>8. ASSUME NEW e \in Editor, WriteEmpties(e) \/ WriteEnds(e) PROVE FilesShape'
  BY <1>2, <1>8, EditEnds
<1>9. Somewhere \in Folder
  BY Beginnings
<1>. QED  BY <1>5, <1>6, <1>7, <1>8, <1>9 DEF RegistryNext

(* DatabaseBackupService, Restarter and DatabaseFolderService: however backups, *)
(* restores, restarts, crashes and edits of config.json overlap, no name is two *)
(* zips of a folder, one call at most writes a backup, and a registry that can  *)
(* be read names one of its own entries as active.                              *)
THEOREM FilesAreSound == RegistrySpec => []FilesInv
<1>1. FilesShape /\ [RegistryNext]_registering => FilesShape'
  <2>1. FilesShape /\ UNCHANGED registering => FilesShape'
    BY DEF registering, files, FilesShape, FolderHolds, CallsHold, ServerHolds, EditsHold
  <2>. QED  BY <2>1, FilesStepHolds
<1>. QED  BY FilesStart, <1>1, ShapeIsFilesInv, PTL DEF RegistrySpec

=============================================================================
