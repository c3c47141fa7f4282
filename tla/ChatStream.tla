----------------------------- MODULE ChatStream -----------------------------
(***************************************************************************)
(* One chat session: the headless process, the reader that parses what it   *)
(* prints into events, the task that follows the events into the journal,   *)
(* the clients that read the journal over a bounded feed and reconnect, the *)
(* permission prompts a person answers, and the end of the session.         *)
(***************************************************************************)
EXTENDS Naturals, FiniteSets, Sequences

CONSTANTS
    Client,     \* the windows following the session
    Request,    \* the permission requests the process makes
    Buffer,     \* EVENT_BUFFER
    Budget,     \* backlog_bytes, in the weights below
    FeedLimit,  \* SEND_BUFFER_LIMIT_BYTES, in frames
    MaxEvents   \* bound on the events of a session

None == "none"

ASSUME ChatConstants ==
    /\ None \notin Request
    /\ Buffer \in Nat \ {0} /\ Budget \in Nat \ {0}
    /\ FeedLimit \in Nat \ {0} /\ MaxEvents \in Nat

Printed == [type : {"start", "partial", "text", "turn"}, of : {None}] \cup [type : {"requested"}, of : Request]
Weight(type) == IF type = "text" THEN 2 ELSE 1

VARIABLES
    process,    \* whether the process runs
    asked,      \* the requests it has printed
    streaming,  \* StreamParser's streaming_message
    channel,    \* the parsed events not yet followed
    pending,    \* pending_permissions
    answering,  \* the prompts taken for an answer that is not yet passed on
    settled,    \* how often each prompt was resolved in the journal
    sent,       \* how often each prompt was answered to the process
    journal,    \* next_seq and the remembered events
    feed,       \* the reader of each client
    phase       \* live, closing (out of the map), ended, over

chat == <<process, asked, streaming, channel, pending, answering, settled, sent, journal, feed, phase>>

(* EventJournal::remember: the newest events within the budget, one at least *)
Remember(ring, event) ==
    LET all == Append(ring, event)
        weight[n \in 0 .. Len(all)] == IF n = 0 THEN 0 ELSE weight[n - 1] + all[n].weight
        fits(n) == weight[Len(all)] - weight[n - 1] <= Budget \/ n = Len(all)
        from == CHOOSE n \in 1 .. Len(all) : fits(n) /\ \A m \in 1 .. n - 1 : ~fits(m)
    IN  SubSeq(all, from, Len(all))

(* SseListener::event: a reader more than the limit behind is given up on. *)
(* A frame is the number of its event, 0 the close                         *)
Hand(f, seq) ==
    IF ~f.on \/ f.closed THEN f
    ELSE IF f.pending + 1 > FeedLimit
         THEN [f EXCEPT !.closed = TRUE, !.pending = @ + 1, !.queue = Append(@, 0)]
         ELSE [f EXCEPT !.pending = @ + 1, !.queue = Append(@, seq)]

(* EventJournal::publish: numbered, remembered, handed to every listener *)
After(types) ==
    LET step[n \in 0 .. Len(types)] ==
            IF n = 0 THEN [journal |-> journal, feed |-> feed]
            ELSE LET seq == step[n - 1].journal.next
                 IN  [journal |-> [next |-> seq + 1, ring |-> Remember(step[n - 1].journal.ring,
                                       [seq |-> seq, weight |-> Weight(types[n])])],
                      feed |-> [c \in Client |-> Hand(step[n - 1].feed[c], seq)]]
    IN  step[Len(types)]

Publish(types) == journal' = After(types).journal /\ feed' = After(types).feed

(* deny_pending_permissions: one denial in the journal for every prompt *)
Denials(rs)  == [n \in 1 .. Cardinality(rs) |-> "resolved"]
Resolved(rs) == settled' = [r \in Request |-> IF r \in rs THEN settled[r] + 1 ELSE settled[r]]

ChatInit ==
    /\ process = "running" /\ asked = {} /\ streaming = FALSE /\ channel = <<>>
    /\ pending = {} /\ answering = {}
    /\ settled = [r \in Request |-> 0] /\ sent = [r \in Request |-> 0]
    /\ journal = [next |-> 2, ring |-> <<[seq |-> 1, weight |-> Weight("user")]>>]
    /\ feed = [c \in Client |-> [on |-> FALSE, closed |-> FALSE, pending |-> 0, queue |-> <<>>, got |-> <<>>]]
    /\ phase = "live"

-----------------------------------------------------------------------------
(* StreamParser::parse_line: the start of a message and a delta of no       *)
(* message mean no event                                                    *)
Parsed(line) ==
    IF line.type = "start" \/ (line.type = "partial" /\ ~streaming) THEN <<>> ELSE <<line>>

(* read_stdout: a line into the channel, which holds EVENT_BUFFER events *)
ReadLine(line) ==
    /\ process = "running"
    /\ Len(channel) < Buffer
    /\ journal.next + Len(channel) + Cardinality(pending \cup answering) < MaxEvents
    /\ line.type = "requested" => line.of \notin asked
    /\ asked' = asked \cup ({line.of} \cap Request)
    /\ streaming' = (line.type = "start" \/ (streaming /\ line.type # "turn"))
    /\ channel' = channel \o Parsed(line)
    /\ UNCHANGED <<process, pending, answering, settled, sent, journal, feed, phase>>

(* follow_process: ChatSession::publish of the next event.  A prompt waits  *)
(* from here; the end of a turn denies the prompts still waiting            *)
Follow ==
    /\ channel # <<>>
    /\ channel' = Tail(channel)
    /\ LET body == Head(channel)
           over == IF body.type = "turn" THEN pending ELSE {}
       IN  /\ pending' = (pending \ over) \cup ({body.of} \cap Request)
           /\ Resolved(over)
           /\ Publish(Denials(over) \o <<body.type>>)
    /\ UNCHANGED <<process, asked, streaming, answering, sent, phase>>

(* The process ends and what it printed is read, or the drain's time is up *)
ProcessExits ==
    /\ process = "running"
    /\ process' = "exited"
    /\ UNCHANGED <<asked, streaming, channel, pending, answering, settled, sent, journal, feed, phase>>

(* answer_permission: the prompt is taken first, so a second answer and the *)
(* end of the turn no longer find it ...                                    *)
TakePrompt(r) ==
    /\ phase = "live" /\ r \in pending
    /\ pending' = pending \ {r}
    /\ answering' = answering \cup {r}
    /\ UNCHANGED <<process, asked, streaming, channel, settled, sent, journal, feed, phase>>

(* ... then passed to the process, unless it is gone, and published *)
AnswerPrompt(r) ==
    /\ r \in answering
    /\ answering' = answering \ {r}
    /\ IF process = "running"
       THEN /\ sent' = [sent EXCEPT ![r] = @ + 1]
            /\ Resolved({r}) /\ Publish(<<"resolved">>)
       ELSE UNCHANGED <<sent, settled, journal, feed>>
    /\ UNCHANGED <<process, asked, streaming, channel, pending, phase>>

(* say: a person's message, shown once the process has it *)
Say ==
    /\ phase = "live" /\ process = "running"
    /\ journal.next + Len(channel) + Cardinality(pending \cup answering) < MaxEvents
    /\ Publish(<<"user">>)
    /\ UNCHANGED <<process, asked, streaming, channel, pending, answering, settled, sent, phase>>

-----------------------------------------------------------------------------
LastOf(f) == IF f.got = <<>> THEN 0 ELSE f.got[Len(f.got)]

(* Mutant: the last event read is sent again *)
BacklogFrom(after) == SelectSeq([n \in DOMAIN journal.ring |-> journal.ring[n].seq], LAMBDA seq : seq >= after)

(* EventJournal::attach: what is remembered after the last event the client *)
(* read, and everything published from now on                               *)
Backlog(after) == SelectSeq([n \in DOMAIN journal.ring |-> journal.ring[n].seq], LAMBDA seq : seq > after)

AttachClient(c) ==
    /\ phase = "live" /\ ~feed[c].on
    /\ feed' = [feed EXCEPT ![c] = [on |-> TRUE, closed |-> FALSE, pending |-> 0,
                                    queue |-> Backlog(LastOf(@)), got |-> @.got]]
    /\ UNCHANGED <<process, asked, streaming, channel, pending, answering, settled, sent, journal, phase>>

(* The response stream of a feed: the backlog, then the frames queued, until *)
(* the close, which drops the attachment                                    *)
ReadFrame(c) ==
    /\ feed[c].on /\ feed[c].queue # <<>>
    /\ LET frame == Head(feed[c].queue)
           rest  == Len(feed[c].queue) - 1
       IN  feed' = [feed EXCEPT ![c] =
               IF frame = 0 THEN [@ EXCEPT !.on = FALSE, !.queue = <<>>, !.pending = 0, !.closed = FALSE]
               ELSE [@ EXCEPT !.queue = Tail(@), !.got = Append(@, frame),
                              !.pending = IF @ > rest THEN rest ELSE @]]
    /\ UNCHANGED <<process, asked, streaming, channel, pending, answering, settled, sent, journal, phase>>

(* The connection breaks: the frames on their way are lost *)
Disconnect(c) ==
    /\ feed[c].on
    /\ feed' = [feed EXCEPT ![c] = [on |-> FALSE, closed |-> FALSE, pending |-> 0, queue |-> <<>>, got |-> @.got]]
    /\ UNCHANGED <<process, asked, streaming, channel, pending, answering, settled, sent, journal, phase>>

-----------------------------------------------------------------------------
(* close_session, or on_exit once everything printed was followed: the      *)
(* session leaves the map                                                   *)
CloseSession ==
    /\ phase = "live"
    /\ phase' = "closing"
    /\ UNCHANGED <<process, asked, streaming, channel, pending, answering, settled, sent, journal, feed>>

OnProcessExit ==
    /\ phase = "live" /\ process = "exited" /\ channel = <<>>
    /\ phase' = "closing"
    /\ UNCHANGED <<process, asked, streaming, channel, pending, answering, settled, sent, journal, feed>>

(* ChatSession::end: the prompts are denied and the end published ... *)
EndPublishes ==
    /\ phase = "closing" /\ process = "exited"
    /\ phase' = "ended"
    /\ pending' = {}
    /\ Resolved(pending)
    /\ Publish(Denials(pending) \o <<"ended">>)
    /\ UNCHANGED <<process, asked, streaming, channel, answering, sent>>

(* ... then every listener is told and let go of *)
EndLetsGo ==
    /\ phase = "ended"
    /\ phase' = "over"
    /\ feed' = [c \in Client |-> IF feed[c].on /\ ~feed[c].closed
                   THEN [feed[c] EXCEPT !.closed = TRUE, !.queue = Append(@, 0)] ELSE feed[c]]
    /\ UNCHANGED <<process, asked, streaming, channel, pending, answering, settled, sent, journal>>

ChatNext ==
    \/ \E line \in Printed : ReadLine(line)
    \/ Follow \/ ProcessExits \/ Say \/ CloseSession \/ OnProcessExit \/ EndPublishes \/ EndLetsGo
    \/ \E r \in Request : TakePrompt(r) \/ AnswerPrompt(r)
    \/ \E c \in Client : AttachClient(c) \/ ReadFrame(c) \/ Disconnect(c)

-----------------------------------------------------------------------------
(* A prompt is answered to the process at most once and resolved at most    *)
(* once in the stream, whoever gets to it first: two answers of a person,   *)
(* the end of its turn, the end of the session                              *)
PromptSettledOnce == \A r \in Request : settled[r] <= 1 /\ sent[r] <= settled[r]

(* A client that was dropped for being slow, or lost its connection with    *)
(* frames on the way, and came back has read every event once and in order, *)
(* but for what the journal no longer remembered when it came back          *)
ReadsOnceInOrder ==
    \A c \in Client : \A n \in 1 .. Len(feed[c].got) - 1 : feed[c].got[n] < feed[c].got[n + 1]

(* Whatever the journal remembers, an attached client that is not given up  *)
(* on has read or has on its way                                            *)
NothingRememberedIsMissed ==
    \A c \in Client : feed[c].on /\ ~feed[c].closed =>
        \A n \in DOMAIN journal.ring :
            \/ journal.ring[n].seq <= LastOf(feed[c])
            \/ \E k \in DOMAIN feed[c].queue : feed[c].queue[k] = journal.ring[n].seq

(* What a chat's clients see of it: prompts settled once, events once and in *)
(* order, and none of those remembered missed.                               *)
ChatInv == PromptSettledOnce /\ ReadsOnceInOrder /\ NothingRememberedIsMissed
=============================================================================
