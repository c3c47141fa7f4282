----------------------------- MODULE TokenLedger -----------------------------
(***************************************************************************)
(* The tokens a Claude Code session spent on each task and step, read from *)
(* its transcript.  A session writes lines while the scanner lists its     *)
(* files, reads them and records the spend, so each of the three may see a *)
(* longer transcript than the one before.  A line has the time it was      *)
(* written; a message is written on several lines, each with its usage so  *)
(* far.                                                                    *)
(***************************************************************************)
EXTENDS Naturals, Sequences, FiniteSets

LOCAL INSTANCE SequencesExt
LOCAL INSTANCE FiniteSetsExt

CONSTANTS
    Work,       \* the tasks a session may name
    Message,    \* the ids of messages
    Many,       \* the most tokens a line reports
    Said,       \* the lines a session may write, their time aside
    SubSaid,    \* and its subagents
    MaxLines,   \* bound: lines of a session's own transcript
    MaxSub,     \* bound: lines of its subagents'
    MaxTallies    \* bound: tallies

ASSUME LedgerConstants == IsFiniteSet(Work) /\ Many \in Nat \ {0} /\ {MaxLines, MaxSub, MaxTallies} \subseteq Nat

VARIABLES
    main,       \* the session's transcript
    sub,        \* its subagents'
    cutShort,   \* whether the last line of main is still being written
    time,       \* the clock
    resolving,      \* the tasks whose anchors resolve
    tally,       \* where the scanner is with the session
    tallies,      \* tallies begun
    recorded,   \* the session's rows: tokens per unit of work
    scanned     \* its transcript_scan row: the bytes read last

ledger == <<main, sub, cutShort, time, resolving, tally, tallies, recorded, scanned>>

(* WorkUnit: a task, and a step of it or 0 *)
Unit    == [task : Work, step : {0, 1}]
NoUnit  == [task |-> "none", step |-> 0]
NoId    == "none"
SubId   == "sub"

(* The lines the parser has a use for: a /rk prompt naming a unit; a model    *)
(* call with its message, its usage and the Rekall tool call on the line     *)
Call      == [does : {"context", "running", "claimed"}, task : Work]
NoCall    == [does |-> "none"]
Prompt    == [kind : {"user"}, at : Nat, unit : Unit]
Assistant == [kind : {"assistant"}, at : Nat, sidechain : BOOLEAN, id : Message \cup {NoId}, tokens : 1 .. Many,
              call : Call \cup {NoCall}]

ASSUME SaidLines == 
    /\ \A line \in Said : line.at = 0 /\ line \in Prompt \cup Assistant
    /\ \A line \in SubSaid : line.at = 0 /\ line.sidechain /\ line.id \in {SubId, NoId}

Bytes == 2 * (Len(main) + Len(sub)) - IF cutShort THEN 1 ELSE 0

-----------------------------------------------------------------------------
(* SessionLedger: current, moves, messages, and what was charged to no id *)
NewLedger == [current |-> NoUnit, moves |-> <<>>, charged |-> {}]

MoveTo(book, at, unit) == [book EXCEPT !.current = unit, !.moves = Append(@, [at |-> at, unit |-> unit])]

(* A task named again without a step stays on the step being worked *)
Continued(book, unit) ==
    IF unit.step = 0 /\ book.current.task = unit.task THEN book.current ELSE unit

(* Mutant: every line of a message is charged *)
ChargeEachLine(book, line, unit) ==
    [book EXCEPT !.charged = @ \cup {[id |-> line.id, key |-> Cardinality(@), unit |-> unit, tokens |-> line.tokens]}]

(* charge: the first line of a message says to what, the largest how much *)
Charge(book, line, unit) ==
    LET known == {c \in book.charged : c.id = line.id /\ line.id # NoId}
        entry == IF known = {}
                 THEN [id |-> line.id, key |-> Cardinality(book.charged), unit |-> unit, tokens |-> line.tokens]
                 ELSE LET c == CHOOSE c \in known : TRUE
                      IN  [c EXCEPT !.tokens = IF line.tokens > @ THEN line.tokens ELSE @]
    IN  [book EXCEPT !.charged = (@ \ known) \cup {entry}]

(* after_call *)
AfterCall(book, line) ==
    LET unit == [task |-> line.call.task, step |-> IF line.call.does = "running" THEN 1 ELSE 0]
    IN  CASE line.sidechain \/ line.call = NoCall -> book
          [] ~line.sidechain /\ line.call.does = "context" -> MoveTo(book, line.at, Continued(book, unit))
          [] ~line.sidechain /\ line.call.does \in {"running", "claimed"} -> MoveTo(book, line.at, unit)

ReadLine(book, line) ==
    IF line.kind = "user" THEN MoveTo(book, line.at, Continued(book, line.unit))
    ELSE AfterCall(Charge(book, line, book.current), line)

(* unit_at: the last move not after it *)
UnitAt(book, at) ==
    LET found == {i \in DOMAIN book.moves : book.moves[i].at <= at}
    IN  IF found = {} THEN NoUnit ELSE book.moves[CHOOSE i \in found : \A j \in found : j <= i].unit

ReadSubagentLine(book, line) == Charge(book, line, UnitAt(book, line.at))

(* read_session: the session's own lines, then its subagents'; a line cut     *)
(* short does not parse                                                      *)
WholeLines  == IF cutShort THEN Front(main) ELSE main
OwnLedger   == FoldLeft(ReadLine, NewLedger, WholeLines)
ReadSession == FoldLeft(ReadSubagentLine, OwnLedger, sub)

(* spent *)
Spent(book) == [u \in Unit |-> MapThenSumSet(LAMBDA c : c.tokens, {c \in book.charged : c.unit = u})]
-----------------------------------------------------------------------------
(* The session writes; the last line may be half there *)
WriteLine ==
    /\ Len(main) < MaxLines /\ ~cutShort
    /\ \E line \in Said : main' = Append(main, [line EXCEPT !.at = time])
    /\ cutShort' \in BOOLEAN
    /\ time' = time + 1
    /\ UNCHANGED <<sub, resolving, tally, recorded, scanned, tallies>>

RestOfLine ==
    /\ cutShort /\ cutShort' = FALSE
    /\ UNCHANGED <<main, sub, time, resolving, tally, recorded, scanned, tallies>>

WriteSubagentLine ==
    /\ Len(sub) < MaxSub
    /\ \E line \in SubSaid : sub' = Append(sub, [line EXCEPT !.at = time])
    /\ time' = time + 1
    /\ UNCHANGED <<main, cutShort, resolving, tally, recorded, scanned, tallies>>

(* The task is deleted, and the rows on it with it *)
DeleteWork(t) ==
    /\ t \in resolving
    /\ resolving' = resolving \ {t}
    /\ recorded' = [u \in Unit |-> IF u.task = t THEN 0 ELSE recorded[u]]
    /\ UNCHANGED <<main, sub, cutShort, time, tally, scanned, tallies>>

(* sessions_of: the session's files and their size together *)
ListSession ==
    /\ tally.pc = "idle" /\ tallies < MaxTallies
    /\ tally' = [tally EXCEPT !.pc = "listed", !.bytes = Bytes]
    /\ tallies' = tallies + 1
    /\ UNCHANGED <<main, sub, cutShort, time, resolving, recorded, scanned>>

(* read_if_grown: nothing grew, or the files are read as they are by now *)
ReadIfGrown ==
    /\ tally.pc = "listed"
    /\ tally' = IF scanned = tally.bytes THEN [tally EXCEPT !.pc = "idle", !.bytes = 0]
               ELSE [tally EXCEPT !.pc = "read", !.spent = Spent(ReadSession)]
    /\ UNCHANGED <<main, sub, cutShort, time, resolving, recorded, scanned, tallies>>

(* A transcript that cannot be read keeps its last reading *)
ReadFails ==
    /\ tally.pc = "listed" /\ scanned # tally.bytes
    /\ tally' = [tally EXCEPT !.pc = "idle", !.bytes = 0]
    /\ UNCHANGED <<main, sub, cutShort, time, resolving, recorded, scanned, tallies>>

Nought == [u \in Unit |-> 0]

(* record_session: the rows replaced whole, those that resolve to no task left *)
(* out, and the size kept, in one transaction                                *)
RecordSession ==
    /\ tally.pc = "read"
    /\ recorded' = [u \in Unit |-> IF u.task \in resolving THEN tally.spent[u] ELSE 0]
    /\ scanned' = tally.bytes
    /\ tally' = [pc |-> "idle", bytes |-> 0, spent |-> Nought]
    /\ UNCHANGED <<main, sub, cutShort, time, resolving, tallies>>

LedgerInit ==
    /\ main = <<>> /\ sub = <<>> /\ cutShort = FALSE /\ time = 1 /\ resolving = Work
    /\ tally = [pc |-> "idle", bytes |-> 0, spent |-> Nought]
    /\ tallies = 0 /\ recorded = Nought /\ scanned = 0

LedgerNext ==
    \/ WriteLine \/ RestOfLine \/ WriteSubagentLine
    \/ \E t \in Work : DeleteWork(t)
    \/ ListSession \/ ReadIfGrown \/ ReadFails \/ RecordSession

-----------------------------------------------------------------------------
(* The reference: a message costs the most any of its lines says, and is    *)
(* counted when the session had named a task before its first line.         *)
Names(line)  == line.kind = "user" \/ (~line.sidechain /\ line.call # NoCall)
OnWork(at)   == \E i \in DOMAIN WholeLines : Names(WholeLines[i]) /\ WholeLines[i].at < at
CallLines    == {l \in Range(WholeLines) \cup Range(sub) : l.kind = "assistant"}
First(lines) == Min({l.at : l \in lines})
Cost(lines)  == IF lines # {} /\ OnWork(First(lines)) THEN Max({l.tokens : l \in lines}) ELSE 0

(* TokenUsageService: "reading a transcript twice never counts it twice".    *)
(* However the lines of a message, the tallies and the session's writing        *)
(* interleave, once the size on record is the size of the files the rows hold *)
(* what every message after the first named task cost, once.                 *)
CountedOnce ==
    scanned = Bytes /\ resolving = Work =>
        MapThenSumSet(LAMBDA u : recorded[u], Unit)
          = MapThenSumSet(LAMBDA id : Cost({l \in CallLines : l.id = id}), Message \cup {SubId})
            + MapThenSumSet(LAMBDA l : Cost({l}), {l \in CallLines : l.id = NoId})

(* SessionLedger::unit_at: a subagent's call is charged to what the session   *)
(* was on when it was made, as a call of its own at that time would have been. *)
SubagentFollowsSession ==
    \A at \in 1 .. time :
        UnitAt(OwnLedger, at) =
            FoldLeft(ReadLine, NewLedger, SelectSeq(WholeLines, LAMBDA l : l.at <= at)).current
=============================================================================
