---------------------------- MODULE SessionProofs ----------------------------
(***************************************************************************)
(* Proofs about live sessions: the two hosts with their openings, sweeps,  *)
(* renewals and ends, the output and window of one terminal, and the       *)
(* permission prompts of one chat.                                         *)
(***************************************************************************)
EXTENDS SessionHosts, PaneStream, ChatStream, FiniteSetTheorems, TLAPS

USE Zenon

-----------------------------------------------------------------------------
(* The hosts *)

HostsSpec == HostsInit /\ [][HostsNext]_hosts

(* An opening that has started nothing yet, and one whose id is in no map    *)
Early    == {"resolve", "start", "register"}
Starting == Early \cup {"insert"}

HostsShape ==
    /\ sess \in [Id -> Session \cup {NoSession}]
    /\ proc \in [Id -> {"none", "running", "exited"}]
    /\ call \in [Caller -> Call \cup {NoCall}]
    /\ line \in [Line -> {"open", "running", "claimed"}]
    /\ leaving \subseteq Id /\ live \subseteq Id /\ held \subseteq Id /\ since \subseteq Id
    /\ stopped \subseteq Kind
    /\ ending \in [Id -> {"no", "stop", "release", "announce", "over"}]
    /\ told \in [Id -> Nat]
    /\ sweep \in [Kind -> SUBSET Id]

(* What an opening in flight holds in its hands: an id nobody else has       *)
CallsHold ==
    \A c \in Caller :
       /\ call[c].pc \in Early => sess[call[c].id] = NoSession
       /\ call[c].pc \notin Early \cup {"none"} => sess[call[c].id] # NoSession
       /\ call[c].pc \in Starting => call[c].id \notin live /\ ending[call[c].id] = "no"
       /\ call[c].pc = "insert" => call[c].kind = "terminal" /\ sess[call[c].id].kind = "terminal"
       /\ \A d \in Caller : c # d /\ call[c].pc \in Starting /\ call[d].pc \in Starting =>
             call[c].id # call[d].id /\ ~(call[c].pc = "insert" /\ call[d].pc = "insert")

EndsHold ==
    \A i \in Id :
       /\ told[i] = IF ending[i] = "over" THEN 1 ELSE 0
       /\ ending[i] \in {"release", "announce", "over"} => i \notin held
       /\ i \in live => ending[i] = "no"
       /\ i \in live \/ ending[i] # "no" => sess[i] # NoSession

SweepsHold == \A k \in Kind : \A i \in sweep[k] : sess[i].kind = k

(* The terminal behind the gate has its room kept for it                     *)
RoomKept == \A c \in Caller : call[c].pc = "insert" => Cardinality(Of("terminal")) < MaxLive

HostsHold ==
    HostsShape /\ CallsHold /\ EndsHold /\ SweepsHold /\ CapHolds /\ RoomKept /\ CredentialsOwned

(* What is kept holds what the runs check.                                       *)
LEMMA HostsSound == HostsHold => HostsInv
<1>. SUFFICES ASSUME HostsHold PROVE HostsInv
  OBVIOUS
<1>1. HostsTypeOK
  BY DEF HostsHold, HostsShape, SweepsHold, HostsTypeOK
<1>2. EndsOnce
  BY SMTT(60) DEF HostsHold, HostsShape, EndsHold, EndsOnce
<1>. QED  BY <1>1, <1>2 DEF HostsHold, HostsInv

(* The sessions of a host are finitely many.                                     *)
LEMMA OfIsFinite ==
  ASSUME HostsShape, NEW k \in Kind
  PROVE  IsFiniteSet(Of(k)) /\ Cardinality(Of(k)) \in Nat
<1>1. Of(k) \in SUBSET Id
  BY DEF HostsShape, Of
<1>2. IsFiniteSet(Of(k))
  BY <1>1, FS_Subset, HostConstants
<1>. QED  BY <1>2, FS_CardinalityType

(* Fewer sessions never pass the cap.                                            *)
LEMMA FewerFit ==
  ASSUME HostsShape, CapHolds, RoomKept,
         \A k \in Kind : Of(k)' \subseteq Of(k),
         \A c \in Caller : call'[c].pc = "insert" => call[c].pc = "insert"
  PROVE  CapHolds' /\ RoomKept'
<1>1. ASSUME NEW k \in Kind
      PROVE  Cardinality(Of(k)') \in Nat /\ Cardinality(Of(k)) \in Nat /\ Cardinality(Of(k)') <= Cardinality(Of(k))
  <2>1. IsFiniteSet(Of(k)) /\ Cardinality(Of(k)) \in Nat
    BY OfIsFinite
  <2>2. Of(k)' \in SUBSET Of(k)
    OBVIOUS
  <2>3. IsFiniteSet(Of(k)') /\ Cardinality(Of(k)') <= Cardinality(Of(k))
    BY <2>1, <2>2, FS_Subset
  <2>. QED  BY <2>1, <2>3, FS_CardinalityType
<1>2. MaxLive \in Nat /\ "terminal" \in Kind
  BY HostConstants DEF Kind
<1>3. CapHolds'
  <2>1. ASSUME NEW k \in Kind PROVE Cardinality(Of(k)') <= MaxLive
    <3>1. Cardinality(Of(k)) <= MaxLive
      BY DEF CapHolds
    <3>. QED  BY <1>1, <1>2, <3>1, SMTT(60)
  <2>. QED  BY <2>1 DEF CapHolds
<1>4. RoomKept'
  <2>1. ASSUME NEW c \in Caller, call'[c].pc = "insert" PROVE Cardinality(Of("terminal")') < MaxLive
    <3>1. Cardinality(Of("terminal")) < MaxLive
      BY <2>1 DEF RoomKept
    <3>. QED  BY <1>1, <1>2, <3>1, SMTT(60)
  <2>. QED  BY <2>1 DEF RoomKept
<1>. QED  BY <1>3, <1>4
(* WorkMarker: a mark given or taken back leaves the lines of their type.        *)
LEMMA LinesMarked ==
  ASSUME HostsShape, NEW t, NEW s, MarkRunning(t, s) \/ ReleaseRunning(t, s)
  PROVE  line' \in [Line -> {"open", "running", "claimed"}]
  BY DEF HostsShape, MarkRunning, ReleaseRunning

(* A call in flight is a call.                                                   *)
LEMMA InFlight ==
  ASSUME HostsShape, NEW c \in Caller, call[c].pc # "none"
  PROVE  call[c] \in Call
  BY SMTT(60) DEF HostsShape, NoCall

(* A call goes on to its next await and keeps the rest of what it holds.         *)
LEMMA GoesOn ==
  ASSUME HostsShape, NEW c \in Caller, call[c].pc # "none",
         NEW pc \in {"resolve", "start", "register", "insert", "mark", "drop", "move", "type"}, Goto(c, pc)
  PROVE  \E row \in Call : /\ call' = [call EXCEPT ![c] = row]
                           /\ row.pc = pc /\ row.id = call[c].id /\ row.kind = call[c].kind
                           /\ row.task = call[c].task /\ row.step = call[c].step /\ row.mode = call[c].mode
<1>1. PICK old \in Call : old = call[c]
  BY InFlight
<1>2. PICK row : row = [old EXCEPT !.pc = pc]
  OBVIOUS
<1>3. row \in Call /\ row.pc = pc /\ row.id = old.id /\ row.kind = old.kind
      /\ row.task = old.task /\ row.step = old.step /\ row.mode = old.mode
  BY <1>2 DEF Call
<1>4. call' = [call EXCEPT ![c] = row]
  BY <1>1, <1>2 DEF Goto
<1>. QED  BY <1>1, <1>3, <1>4

(* A call's step that leaves the maps and the ends alone keeps the openings, and *)
(* brings nobody through the gate.                                               *)
LEMMA CallStep ==
  ASSUME HostsShape, CallsHold, NEW c \in Caller, NEW row \in Call \cup {NoCall}, call' = [call EXCEPT ![c] = row],
         UNCHANGED <<sess, live, ending>>, row.pc # "insert",
         row.pc \in Early => /\ sess[row.id] = NoSession /\ row.id \notin live /\ ending[row.id] = "no"
                             /\ \A d \in Caller : d # c /\ call[d].pc \in Starting => call[d].id # row.id,
         row.pc \notin Early \cup {"none"} => sess[row.id] # NoSession
  PROVE  /\ CallsHold'
         /\ call' \in [Caller -> Call \cup {NoCall}]
         /\ \A d \in Caller : d # c => call'[d] = call[d]
         /\ call'[c] = row
<1>1. call' \in [Caller -> Call \cup {NoCall}] /\ call'[c] = row /\ \A d \in Caller : d # c => call'[d] = call[d]
  BY DEF HostsShape
<1>2. sess' = sess /\ live' = live /\ ending' = ending
  OBVIOUS
<1>3. ASSUME NEW a \in Caller
      PROVE  /\ call'[a].pc \in Early => sess[call'[a].id] = NoSession
             /\ call'[a].pc \notin Early \cup {"none"} => sess[call'[a].id] # NoSession
             /\ call'[a].pc \in Starting => call'[a].id \notin live /\ ending[call'[a].id] = "no"
             /\ call'[a].pc = "insert" => call'[a].kind = "terminal" /\ sess[call'[a].id].kind = "terminal"
  BY <1>1 DEF CallsHold, Starting
<1>4. ASSUME NEW a \in Caller, NEW d \in Caller, a # d, call'[a].pc \in Starting, call'[d].pc \in Starting
      PROVE  call'[a].id # call'[d].id /\ ~(call'[a].pc = "insert" /\ call'[d].pc = "insert")
  <2>1. CASE a = c
    BY <1>1, <1>4, <2>1 DEF Starting
  <2>2. CASE d = c
    BY <1>1, <1>4, <2>2 DEF Starting
  <2>3. CASE a # c /\ d # c
    BY <1>1, <1>4, <2>3, SMTT(60) DEF CallsHold
  <2>. QED  BY <2>1, <2>2, <2>3
<1>5. CallsHold'
  BY <1>2, <1>3, <1>4, SMTT(60) DEF CallsHold
<1>. QED  BY <1>1, <1>5

(* ... and everything but the credentials.                                       *)
LEMMA CallAlone ==
  ASSUME HostsHold, NEW c \in Caller, NEW row \in Call \cup {NoCall}, call' = [call EXCEPT ![c] = row],
         UNCHANGED <<sess, proc, leaving, live, ending, told, sweep, stopped, since>>, row.pc # "insert",
         row.pc \in Early => /\ sess[row.id] = NoSession /\ row.id \notin live /\ ending[row.id] = "no"
                             /\ \A d \in Caller : d # c /\ call[d].pc \in Starting => call[d].id # row.id,
         row.pc \notin Early \cup {"none"} => sess[row.id] # NoSession,
         line' \in [Line -> {"open", "running", "claimed"}], held' \subseteq Id,
         \A i \in held' : i \in held \/ ending[i] = "no",
         CredentialsOwned'
  PROVE  HostsHold'
<1>1. /\ CallsHold' /\ call' \in [Caller -> Call \cup {NoCall}]
      /\ \A d \in Caller : d # c => call'[d] = call[d]
      /\ call'[c] = row
  BY CallStep DEF HostsHold
<1>2. HostsShape'
  BY <1>1 DEF HostsHold, HostsShape
<1>3. EndsHold'
  BY DEF HostsHold, HostsShape, EndsHold
<1>4. SweepsHold'
  BY DEF HostsHold, SweepsHold
<1>5. \A k \in Kind : Of(k)' \subseteq Of(k)
  BY DEF Of
<1>6. \A d \in Caller : call'[d].pc = "insert" => call[d].pc = "insert"
  BY <1>1
<1>7. CapHolds' /\ RoomKept'
  BY <1>5, <1>6, FewerFit DEF HostsHold
<1>. QED  BY <1>1, <1>2, <1>3, <1>4, <1>7 DEF HostsHold
(* Credentials held keep their owner while no owner goes.                        *)
LEMMA OwnersStay ==
  ASSUME CredentialsOwned, held' \subseteq held, UNCHANGED <<live, ending>>,
         \A d \in Caller : call[d].pc \in {"register", "insert"} /\ call[d].id \in held' =>
             call'[d].pc \in {"register", "insert"} /\ call'[d].id = call[d].id
  PROVE  CredentialsOwned'
<1>. SUFFICES ASSUME NEW i \in held', i \notin live', ending'[i] # "stop"
              PROVE  \E c \in Caller : call'[c].pc \in {"register", "insert"} /\ call'[c].id = i
  BY DEF CredentialsOwned
<1>1. PICK c \in Caller : call[c].pc \in {"register", "insert"} /\ call[c].id = i
  BY DEF CredentialsOwned
<1>. QED  BY <1>1

(* SessionHosts::open up to its first await.                                     *)
LEMMA NewCall ==
  ASSUME HostsHold, NEW c \in Caller, call[c] = NoCall, NEW i \in Id, sess[i] = NoSession,
         \A d \in Caller : call[d] # NoCall => call[d].id # i,
         NEW kind \in Kind, NEW t \in Task, NEW s \in Nat, NEW mode \in Mode,
         call' = [call EXCEPT ![c] = [pc |-> "resolve", kind |-> kind, task |-> t, step |-> s, mode |-> mode, id |-> i]],
         UNCHANGED <<sess, proc, leaving, live, held, line, ending, told, sweep, stopped, since>>
  PROVE  HostsHold'
<1>1. PICK row : row = [pc |-> "resolve", kind |-> kind, task |-> t, step |-> s, mode |-> mode, id |-> i]
  OBVIOUS
<1>2. row \in Call /\ row.pc = "resolve" /\ row.id = i
  BY <1>1 DEF Call
<1>3. call' = [call EXCEPT ![c] = row]
  BY <1>1
<1>4. i \notin live /\ ending[i] = "no"
  BY DEF HostsHold, EndsHold
<1>5. \A d \in Caller : call[d].pc \in Starting => call[d].id # i
  BY SMTT(60) DEF Starting, Early, NoCall
<1>6. CredentialsOwned'
  <2>1. \A d \in Caller : d # c => call'[d] = call[d]
    BY <1>3 DEF HostsHold, HostsShape
  <2>2. \A d \in Caller : call[d].pc \in {"register", "insert"} => d # c
    BY SMTT(60) DEF NoCall
  <2>3. CredentialsOwned
    BY DEF HostsHold
  <2>. QED  BY <2>1, <2>2, <2>3, OwnersStay
<1>7. line' \in [Line -> {"open", "running", "claimed"}] /\ held' \subseteq Id
  BY DEF HostsHold, HostsShape
<1>8. row.pc \in Early /\ row.pc # "insert"
  BY <1>2 DEF Early
<1>. QED  BY <1>2, <1>3, <1>4, <1>5, <1>6, <1>7, <1>8, CallAlone, ZenonT(60)

(* Open and the relay's.                                                         *)
LEMMA OpenHolds ==
  ASSUME HostsHold, NEW c \in Caller,
         (\E o \in Opening : Open(c, o[1], o[2], o[3], o[4])) \/ (\E i \in Id : RelayOpens(i, c))
  PROVE  HostsHold'
<1>1. ASSUME NEW kind \in Kind, NEW t \in Task, NEW s \in Nat, NEW mode \in Mode, Open(c, kind, t, s, mode)
      PROVE  HostsHold'
  <2>1. PICK step : step = IF FollowsSteps(mode) THEN s ELSE 0
    OBVIOUS
  <2>2. PICK i \in Id :
           /\ sess[i] = NoSession /\ \A d \in Caller : call[d] # NoCall => call[d].id # i
           /\ call' = [call EXCEPT ![c] = [pc |-> "resolve", kind |-> kind, task |-> t,
                          step |-> step, mode |-> mode, id |-> i]]
    BY <1>1, <2>1 DEF Open
  <2>3. step \in Nat
    BY <2>1
  <2>4. call[c] = NoCall /\ UNCHANGED <<sess, proc, leaving, live, held, line, ending, told, sweep, stopped, since>>
    BY <1>1 DEF Open
  <2>. QED  BY <2>2, <2>3, <2>4, NewCall
<1>2. ASSUME NEW i \in Id, RelayOpens(i, c) PROVE HostsHold'
  <2>1. PICK j \in Id :
           /\ sess[j] = NoSession /\ \A d \in Caller : call[d] # NoCall => call[d].id # j
           /\ call' = [call EXCEPT ![c] = [pc |-> "resolve", kind |-> sess[i].kind, task |-> sess[i].task,
                                           step |-> 0, mode |-> "work", id |-> j]]
    BY <1>2 DEF RelayOpens
  <2>2. sess[i] \in Session
    BY <1>2, SMTT(60) DEF RelayOpens, HostsHold, EndsHold, HostsShape
  <2>3. sess[i].kind \in Kind /\ sess[i].task \in Task /\ "work" \in Mode /\ 0 \in Nat
    BY <2>2 DEF Session, Mode
  <2>4. call[c] = NoCall /\ UNCHANGED <<sess, proc, leaving, live, held, line, ending, told, sweep, stopped, since>>
    BY <1>2 DEF RelayOpens
  <2>. QED  BY <2>1, <2>3, <2>4, NewCall
<1>3. \A o \in Opening : o[1] \in Kind /\ o[2] \in Task /\ o[3] \in Nat /\ o[4] \in Mode
  BY HostConstants, SMTT(60)
<1>. QED  BY <1>1, <1>2, <1>3
(* A step of a call that owns no credentials and takes none.                     *)
LEMMA QuietCall ==
  ASSUME HostsHold, NEW c \in Caller, call[c].pc \notin {"register", "insert"},
         NEW row \in Call \cup {NoCall}, call' = [call EXCEPT ![c] = row],
         UNCHANGED <<sess, proc, leaving, live, held, ending, told, sweep, stopped, since>>, row.pc # "insert",
         row.pc \in Early => /\ sess[row.id] = NoSession /\ row.id \notin live /\ ending[row.id] = "no"
                             /\ \A d \in Caller : d # c /\ call[d].pc \in Starting => call[d].id # row.id,
         row.pc \notin Early \cup {"none"} => sess[row.id] # NoSession,
         line' \in [Line -> {"open", "running", "claimed"}]
  PROVE  HostsHold'
<1>1. CredentialsOwned'
  <2>1. \A d \in Caller : d # c => call'[d] = call[d]
    BY DEF HostsHold, HostsShape
  <2>2. \A d \in Caller : call[d].pc \in {"register", "insert"} => d # c
    OBVIOUS
  <2>3. CredentialsOwned
    BY DEF HostsHold
  <2>. QED  BY <2>1, <2>2, <2>3, OwnersStay
<1>2. held' \subseteq Id /\ \A i \in held' : i \in held
  BY DEF HostsHold, HostsShape
<1>. QED  BY <1>1, <1>2, CallAlone

(* A call that is over.                                                          *)
LEMMA QuietEnd ==
  ASSUME HostsHold, NEW c \in Caller, call[c].pc \notin {"register", "insert"}, Finish(c),
         UNCHANGED <<sess, proc, leaving, live, held, ending, told, sweep, stopped, since>>,
         line' \in [Line -> {"open", "running", "claimed"}]
  PROVE  HostsHold'
<1>1. PICK row : row = NoCall
  OBVIOUS
<1>2. row \in Call \cup {NoCall} /\ row.pc = "none"
  BY <1>1 DEF NoCall
<1>3. call' = [call EXCEPT ![c] = row]
  BY <1>1 DEF Finish
<1>4. row.pc \notin Early /\ row.pc \in Early \cup {"none"} /\ row.pc # "insert"
  BY <1>2 DEF Early
<1>. QED  BY <1>2, <1>3, <1>4, QuietCall

(* What an early call has in its hands.                                          *)
LEMMA EarlyCall ==
  ASSUME HostsHold, NEW c \in Caller, call[c].pc \in Early
  PROVE  /\ call[c] \in Call /\ call[c].id \in Id
         /\ sess[call[c].id] = NoSession /\ call[c].id \notin live /\ ending[call[c].id] = "no"
         /\ \A d \in Caller : d # c /\ call[d].pc \in Starting => call[d].id # call[c].id
<1>1. call[c] \in Call
  BY InFlight DEF HostsHold, Early
<1>2. call[c].id \in Id
  BY <1>1 DEF Call
<1>3. call[c].pc \in Starting
  BY DEF Starting
<1>. QED  BY <1>1, <1>2, <1>3 DEF HostsHold, CallsHold

(* Resolve: the session on the target is taken up, or a new one is started.      *)
LEMMA ResolveHolds ==
  ASSUME HostsHold, NEW c \in Caller, Resolve(c)
  PROVE  HostsHold'
<1>0. UNCHANGED <<sess, proc, leaving, live, held, line, ending, told, sweep, stopped, relay, since>>
      /\ call[c].pc = "resolve"
  BY DEF Resolve
<1>1. /\ line' \in [Line -> {"open", "running", "claimed"}] /\ call[c].pc \notin {"register", "insert"}
      /\ call[c].pc \in Early
  BY <1>0 DEF HostsHold, HostsShape, Early
<1>2. CASE Goto(c, "start")
  <2>1. PICK row \in Call : call' = [call EXCEPT ![c] = row] /\ row.pc = "start" /\ row.id = call[c].id
    BY <1>0, <1>2, GoesOn, SMTT(60) DEF HostsHold
  <2>2. row.pc \in Early /\ row.pc # "insert"
    BY <2>1 DEF Early
  <2>3. /\ sess[row.id] = NoSession /\ row.id \notin live /\ ending[row.id] = "no"
        /\ \A d \in Caller : d # c /\ call[d].pc \in Starting => call[d].id # row.id
    BY <1>1, <2>1, EarlyCall, ZenonT(60)
  <2>. QED  BY <1>0, <1>1, <2>1, <2>2, <2>3, QuietCall, ZenonT(60)
<1>3. ASSUME NEW i \in LiveOn(call[c].kind, call[c].task), NEW pc \in {"drop", "type"},
             call' = [call EXCEPT ![c] = [@ EXCEPT !.id = i, !.pc = pc]]
      PROVE  HostsHold'
  <2>1. i \in Id /\ i \in live
    BY DEF LiveOn, Of, HostsHold, HostsShape
  <2>2. PICK old \in Call : old = call[c]
    BY <1>1, EarlyCall
  <2>3. PICK row : row = [old EXCEPT !.id = i, !.pc = pc]
    OBVIOUS
  <2>4. row \in Call /\ row.id = i /\ row.pc = pc
    BY <2>1, <2>3 DEF Call
  <2>5. call' = [call EXCEPT ![c] = row]
    BY <1>3, <2>2, <2>3
  <2>6. sess[i] # NoSession
    BY <2>1 DEF HostsHold, EndsHold
  <2>7. row.pc \notin Early /\ row.pc # "insert"
    BY <2>4 DEF Early
  <2>. QED  BY <1>0, <1>1, <2>4, <2>5, <2>6, <2>7, QuietCall
<1>4. (\E i \in LiveOn(call[c].kind, call[c].task), pc \in {"drop", "type"} :
          call' = [call EXCEPT ![c] = [@ EXCEPT !.id = i, !.pc = pc]]) \/ Goto(c, "start")
  <2>1. ASSUME NEW i \in LiveOn(call[c].kind, call[c].task),
           call' = [call EXCEPT ![c] = [@ EXCEPT !.id = i, !.pc =
                IF FollowsSteps(call[c].mode) /\ call[c].step \notin {0, sess[i].step} THEN "drop" ELSE "type"]]
        PROVE  \E pc \in {"drop", "type"} : call' = [call EXCEPT ![c] = [@ EXCEPT !.id = i, !.pc = pc]]
    BY <2>1
  <2>. QED  BY <2>1 DEF Resolve
<1>. QED  BY <1>2, <1>3, <1>4
(* require_folder and require_cli refuse; environment opens credentials.         *)
LEMMA StartHolds ==
  ASSUME HostsHold, NEW c \in Caller, Start(c)
  PROVE  HostsHold'
<1>0. /\ UNCHANGED <<sess, proc, leaving, live, line, ending, told, sweep, stopped, relay, since>>
      /\ call[c].pc = "start" /\ ((Finish(c) /\ UNCHANGED held) \/ (Goto(c, "register") /\ held' = held \cup {call[c].id}))
  BY DEF Start
<1>1. /\ line' \in [Line -> {"open", "running", "claimed"}] /\ call[c].pc \notin {"register", "insert"}
      /\ call[c].pc \in Early
  BY <1>0 DEF HostsHold, HostsShape, Early
<1>2. CASE Finish(c) /\ UNCHANGED held
  BY <1>0, <1>1, <1>2, QuietEnd
<1>3. CASE Goto(c, "register") /\ held' = held \cup {call[c].id}
  <2>1. PICK row \in Call : call' = [call EXCEPT ![c] = row] /\ row.pc = "register" /\ row.id = call[c].id
    BY <1>0, <1>3, GoesOn, SMTT(60) DEF HostsHold
  <2>2. row.pc \in Early /\ row.pc # "insert"
    BY <2>1 DEF Early
  <2>3. /\ call[c].id \in Id /\ sess[call[c].id] = NoSession /\ call[c].id \notin live /\ ending[call[c].id] = "no"
        /\ \A d \in Caller : d # c /\ call[d].pc \in Starting => call[d].id # call[c].id
    BY <1>1, EarlyCall
  <2>4. call'[c] = row /\ \A d \in Caller : d # c => call'[d] = call[d]
    BY <2>1 DEF HostsHold, HostsShape
  <2>5. CredentialsOwned'
    <3>. SUFFICES ASSUME NEW i \in held', i \notin live, ending[i] # "stop"
                  PROVE  \E d \in Caller : call'[d].pc \in {"register", "insert"} /\ call'[d].id = i
      BY <1>0 DEF CredentialsOwned
    <3>1. CASE i = call[c].id
      BY <2>1, <2>4, <3>1
    <3>2. CASE i \in held
      <4>1. PICK d \in Caller : call[d].pc \in {"register", "insert"} /\ call[d].id = i
        BY <3>2 DEF HostsHold, CredentialsOwned
      <4>. QED  BY <1>1, <2>4, <4>1
    <3>. QED  BY <1>3, <3>1, <3>2
  <2>6. held' \subseteq Id /\ \A i \in held' : i \in held \/ ending[i] = "no"
    BY <1>3, <2>3 DEF HostsHold, HostsShape
  <2>. QED  BY <1>0, <1>1, <2>1, <2>2, <2>3, <2>5, <2>6, CallAlone, ZenonT(60)
<1>. QED  BY <1>0, <1>2, <1>3

(* register refuses: the credentials opened for the call are released.           *)
LEMMA RefusedHolds ==
  ASSUME HostsHold, NEW c \in Caller, Refused(c)
  PROVE  HostsHold'
<1>0. /\ UNCHANGED <<sess, proc, leaving, live, line, ending, told, sweep, stopped, relay, since>>
      /\ call[c].pc = "register" /\ Finish(c) /\ held' = held \ {call[c].id}
  BY DEF Refused
<1>1. PICK row : row = NoCall
  OBVIOUS
<1>2. row \in Call \cup {NoCall} /\ row.pc = "none"
  BY <1>1 DEF NoCall
<1>3. call' = [call EXCEPT ![c] = row]
  BY <1>0, <1>1 DEF Finish
<1>4. row.pc \notin Early /\ row.pc \in Early \cup {"none"} /\ row.pc # "insert"
  BY <1>2 DEF Early
<1>5. \A d \in Caller : d # c => call'[d] = call[d]
  BY <1>3 DEF HostsHold, HostsShape
<1>6. CredentialsOwned'
  <2>1. \A d \in Caller : call[d].pc \in {"register", "insert"} /\ call[d].id \in held' => d # c
    BY <1>0
  <2>2. CredentialsOwned /\ held' \subseteq held
    BY <1>0 DEF HostsHold
  <2>. QED  BY <1>0, <1>5, <2>1, <2>2, OwnersStay, ZenonT(60)
<1>7. line' \in [Line -> {"open", "running", "claimed"}] /\ held' \subseteq Id /\ \A i \in held' : i \in held
  BY <1>0 DEF HostsHold, HostsShape
<1>. QED  BY <1>0, <1>2, <1>3, <1>4, <1>6, <1>7, CallAlone, ZenonT(60)

(* The last steps of an opening: the mark, and the line typed.                   *)
LEMMA MarkHolds ==
  ASSUME HostsHold, NEW c \in Caller, Mark(c) \/ RetargetMark(c) \/ Type(c)
  PROVE  HostsHold'
<1>0. UNCHANGED <<sess, proc, leaving, live, held, ending, told, sweep, stopped, relay, since>>
  BY DEF Mark, RetargetMark, Type
<1>1. line' \in [Line -> {"open", "running", "claimed"}]
  <2>1. line \in [Line -> {"open", "running", "claimed"}] /\ HostsShape
    BY DEF HostsHold, HostsShape
  <2>2. (\E t, s : MarkRunning(t, s)) \/ line' = line
    BY DEF Mark, RetargetMark, Type
  <2>. QED  BY <2>1, <2>2, LinesMarked
<1>2. CASE Mark(c) \/ Type(c)
  <2>1. call[c].pc \notin {"register", "insert"} /\ Finish(c)
    BY <1>2 DEF Mark, Type
  <2>. QED  BY <1>0, <1>1, <2>1, QuietEnd
<1>3. CASE RetargetMark(c)
  <2>1. call[c].pc = "move" /\ Goto(c, "type")
    BY <1>3 DEF RetargetMark
  <2>2. PICK row \in Call : call' = [call EXCEPT ![c] = row] /\ row.pc = "type" /\ row.id = call[c].id
    BY <2>1, GoesOn, SMTT(60) DEF HostsHold
  <2>3. row.pc \notin Early /\ row.pc # "insert" /\ call[c].pc \notin {"register", "insert"}
    BY <2>1, <2>2 DEF Early
  <2>4. sess[row.id] # NoSession
    BY <2>1, <2>2 DEF HostsHold, CallsHold, Early
  <2>. QED  BY <1>0, <1>1, <2>2, <2>3, <2>4, QuietCall, ZenonT(60)
<1>. QED  BY <1>2, <1>3
(* register spawns the process: the id has a session from here.                  *)
LEMMA SpawnedRow ==
  ASSUME HostsHold, NEW c \in Caller, call[c].pc \in Early, Spawned(c)
  PROVE  /\ sess' \in [Id -> Session \cup {NoSession}] /\ proc' \in [Id -> {"none", "running", "exited"}]
         /\ sess'[call[c].id] # NoSession /\ sess'[call[c].id].kind = call[c].kind
         /\ \A j \in Id : j # call[c].id => sess'[j] = sess[j]
<1>1. PICK old \in Call : old = call[c]
  BY EarlyCall
<1>2. PICK row : row = [kind |-> old.kind, task |-> old.task, step |-> old.step, mode |-> old.mode]
  OBVIOUS
<1>3. row \in Session /\ row.kind = old.kind /\ row.kind # "none"
  BY <1>2 DEF Session, Call, Kind
<1>4. row # NoSession
  BY <1>3, SMTT(60) DEF NoSession
<1>5. sess' = [sess EXCEPT ![old.id] = row] /\ proc' = [proc EXCEPT ![old.id] = "running"]
  BY <1>1, <1>2 DEF Spawned
<1>6. old.id \in Id
  BY DEF Call
<1>. QED  BY <1>1, <1>3, <1>4, <1>5, <1>6 DEF HostsHold, HostsShape

(* With a session on its id, the other openings are as they were.                *)
LEMMA OthersOpen ==
  ASSUME HostsHold, NEW c \in Caller, call[c].pc \in Early, Spawned(c),
         \A d \in Caller : d # c => call'[d] = call[d],
         NEW d \in Caller, d # c
  PROVE  /\ call'[d].pc \in Early => sess'[call'[d].id] = NoSession
         /\ call'[d].pc \notin Early \cup {"none"} => sess'[call'[d].id] # NoSession
         /\ call'[d].pc = "insert" => call'[d].kind = "terminal" /\ sess'[call'[d].id].kind = "terminal"
<1>1. call'[d] = call[d] /\ (call[d].pc # "none" => call[d].id \in Id)
  BY InFlight DEF HostsHold, Call
<1>2. \A j \in Id : j # call[c].id => sess'[j] = sess[j]
  BY SpawnedRow
<1>3. sess[call[c].id] = NoSession /\ (call[d].pc \in Starting => call[d].id # call[c].id)
  BY EarlyCall
<1>4. CASE call[d].pc \in Starting
  <2>1. sess'[call[d].id] = sess[call[d].id]
    BY <1>1, <1>2, <1>3, <1>4 DEF Starting, Early
  <2>. QED  BY <1>1, <2>1, SMTT(60) DEF HostsHold, CallsHold
<1>5. CASE call[d].pc \notin Starting \cup {"none"}
  <2>1. sess[call[d].id] # NoSession
    BY <1>5 DEF HostsHold, CallsHold, Starting
  <2>2. sess'[call[d].id] = sess[call[d].id]
    BY <1>1, <1>2, <1>3, <1>5, <2>1
  <2>. QED  BY <1>1, <1>5, <2>1, <2>2 DEF Starting
<1>6. CASE call[d].pc = "none"
  BY <1>1, <1>6 DEF Early
<1>. QED  BY <1>4, <1>5, <1>6

(* A session on an id that is in no map and in no sweep.                         *)
LEMMA SpawnedBeside ==
  ASSUME HostsHold, NEW c \in Caller, call[c].pc \in Early, Spawned(c)
  PROVE  /\ \A j \in live : sess'[j] = sess[j]
         /\ \A k \in Kind : \A j \in sweep[k] : sess'[j] = sess[j]
         /\ \A j \in Id : sess[j] # NoSession => sess'[j] = sess[j]
<1>1. \A j \in Id : j # call[c].id => sess'[j] = sess[j]
  BY SpawnedRow
<1>2. call[c].id \notin live /\ sess[call[c].id] = NoSession
  BY EarlyCall
<1>3. \A k \in Kind : \A j \in sweep[k] : j \in Id /\ sess[j].kind = k
  BY DEF HostsHold, HostsShape, SweepsHold
<1>4. \A k \in Kind : k # NoSession.kind
  BY DEF NoSession, Kind
<1>. QED  BY <1>1, <1>2, <1>3, <1>4, SMTT(60) DEF HostsHold, HostsShape

(* A terminal's process runs behind the gate, before its host records it.        *)
LEMMA SpawnTerminalHolds ==
  ASSUME HostsHold, NEW c \in Caller, SpawnTerminal(c)
  PROVE  HostsHold'
<1>0. /\ call[c].pc = "register" /\ call[c].kind = "terminal" /\ GateFree("terminal") /\ Spawned(c)
      /\ Cardinality(Of("terminal")) < MaxLive /\ Goto(c, "insert")
      /\ UNCHANGED <<leaving, live, held, line, ending, told, sweep, stopped, relay, since>>
  BY DEF SpawnTerminal
<1>1. call[c].pc \in Early
  BY <1>0 DEF Early
<1>2. PICK row \in Call : /\ call' = [call EXCEPT ![c] = row] /\ row.pc = "insert" /\ row.id = call[c].id
                          /\ row.kind = "terminal"
  BY <1>0, GoesOn, SMTT(60) DEF HostsHold
<1>3. /\ call' \in [Caller -> Call \cup {NoCall}] /\ call'[c] = row
      /\ \A d \in Caller : d # c => call'[d] = call[d]
  BY <1>2 DEF HostsHold, HostsShape
<1>4. \A d \in Caller : call[d].pc # "insert"
  BY <1>0 DEF GateFree, HostsHold, CallsHold
<1>5. HostsShape'
  BY <1>0, <1>1, <1>3, SpawnedRow DEF HostsHold, HostsShape
<1>6. CallsHold'
  <2>1. ASSUME NEW a \in Caller
        PROVE  /\ call'[a].pc \in Early => sess'[call'[a].id] = NoSession
               /\ call'[a].pc \notin Early \cup {"none"} => sess'[call'[a].id] # NoSession
               /\ call'[a].pc = "insert" => call'[a].kind = "terminal" /\ sess'[call'[a].id].kind = "terminal"
    <3>1. CASE a = c
      BY <1>0, <1>1, <1>2, <1>3, <3>1, SpawnedRow, ZenonT(60) DEF Early
    <3>2. CASE a # c
      BY <1>0, <1>1, <1>3, <3>2, OthersOpen, ZenonT(60)
    <3>. QED  BY <3>1, <3>2
  <2>2. ASSUME NEW a \in Caller, call'[a].pc \in Starting PROVE call'[a].id \notin live' /\ ending'[call'[a].id] = "no"
    <3>1. call[a].pc \in Starting /\ call'[a].id = call[a].id
      BY <1>1, <1>2, <1>3, <2>2 DEF Starting
    <3>. QED  BY <1>0, <3>1 DEF HostsHold, CallsHold
  <2>3. ASSUME NEW a \in Caller, NEW d \in Caller, a # d, call'[a].pc \in Starting, call'[d].pc \in Starting
        PROVE  call'[a].id # call'[d].id /\ ~(call'[a].pc = "insert" /\ call'[d].pc = "insert")
    <3>1. /\ call[a].pc \in Starting /\ call'[a].id = call[a].id
          /\ call[d].pc \in Starting /\ call'[d].id = call[d].id
      BY <1>1, <1>2, <1>3, <2>3 DEF Starting
    <3>2. call[a].id # call[d].id
      BY <2>3, <3>1 DEF HostsHold, CallsHold
    <3>. QED  BY <1>3, <1>4, <2>3, <3>1, <3>2
  <2>. QED  BY <2>1, <2>2, <2>3 DEF CallsHold
<1>7. EndsHold'
  BY <1>0, <1>1, SpawnedBeside DEF HostsHold, HostsShape, EndsHold
<1>8. SweepsHold'
  BY <1>0, <1>1, SpawnedBeside DEF HostsHold, SweepsHold
<1>9. \A k \in Kind : Of(k)' = Of(k)
  BY <1>0, <1>1, SpawnedBeside DEF Of
<1>10. CapHolds' /\ RoomKept'
  <2>1. "terminal" \in Kind
    BY DEF Kind
  <2>. QED  BY <1>0, <1>9, <2>1 DEF HostsHold, CapHolds, RoomKept
<1>11. CredentialsOwned'
  <2>1. CredentialsOwned /\ held' \subseteq held
    BY <1>0 DEF HostsHold
  <2>2. \A d \in Caller : call[d].pc \in {"register", "insert"} =>
           call'[d].pc \in {"register", "insert"} /\ call'[d].id = call[d].id
    BY <1>2, <1>3
  <2>. QED  BY <1>0, <2>1, <2>2, OwnersStay
<1>. QED  BY <1>5, <1>6, <1>7, <1>8, <1>10, <1>11 DEF HostsHold
(* One more session of a host with room for it.                                  *)
LEMMA RecordedFits ==
  ASSUME HostsHold, NEW host \in Kind, NEW i \in Id, i \notin live, live' = live \cup {i},
         sess'[i].kind = host, \A j \in live : sess'[j] = sess[j], Cardinality(Of(host)) < MaxLive,
         \A c \in Caller : call'[c].pc = "insert" => call[c].pc = "insert" /\ host # "terminal"
  PROVE  CapHolds' /\ RoomKept'
<1>1. Of(host)' = Of(host) \cup {i} /\ i \notin Of(host)
  BY DEF Of
<1>2. \A k \in Kind : k # host => Of(k)' = Of(k)
  BY DEF Of
<1>3. PICK all : all = Of(host)
  OBVIOUS
<1>4. IsFiniteSet(all) /\ Cardinality(all) \in Nat
  BY <1>3, OfIsFinite DEF HostsHold
<1>5. Cardinality(all \cup {i}) = Cardinality(all) + 1
  BY <1>1, <1>3, <1>4, FS_AddElement
<1>6. Cardinality(Of(host)') = Cardinality(all) + 1
  BY <1>1, <1>3, <1>5
<1>7. Cardinality(Of(host)') <= MaxLive
  <2>1. Cardinality(all) < MaxLive
    BY <1>3
  <2>. QED  BY <1>4, <1>6, <2>1, HostConstants, SMTT(60)
<1>8. CapHolds'
  BY <1>2, <1>7 DEF HostsHold, CapHolds
<1>9. RoomKept'
  <2>1. ASSUME NEW c \in Caller, call'[c].pc = "insert" PROVE Cardinality(Of("terminal")') < MaxLive
    <3>1. "terminal" \in Kind /\ "terminal" # host /\ call[c].pc = "insert"
      BY <2>1 DEF Kind
    <3>2. Of("terminal")' = Of("terminal")
      BY <1>2, <3>1
    <3>3. Cardinality(Of("terminal")) < MaxLive
      BY <3>1 DEF HostsHold, RoomKept
    <3>. QED  BY <3>2, <3>3
  <2>. QED  BY <2>1 DEF RoomKept
<1>. QED  BY <1>8, <1>9

(* Its credentials are the session's from here.                                  *)
LEMMA RecordedOwned ==
  ASSUME HostsHold, NEW c \in Caller, live' = live \cup {call[c].id}, UNCHANGED <<held, ending>>,
         \A d \in Caller : d # c => call'[d] = call[d]
  PROVE  CredentialsOwned'
<1>. SUFFICES ASSUME NEW i \in held, i \notin live', ending[i] # "stop"
              PROVE  \E d \in Caller : call'[d].pc \in {"register", "insert"} /\ call'[d].id = i
  BY DEF CredentialsOwned
<1>1. PICK d \in Caller : call[d].pc \in {"register", "insert"} /\ call[d].id = i
  BY DEF HostsHold, CredentialsOwned
<1>2. d # c
  BY <1>1, ZenonT(60)
<1>. QED  BY <1>1, <1>2

(* A chat's process is recorded as it is spawned.                                *)
LEMMA SpawnChatHolds ==
  ASSUME HostsHold, NEW c \in Caller, SpawnChat(c)
  PROVE  HostsHold'
<1>0. /\ call[c].pc = "register" /\ call[c].kind = "chat" /\ Spawned(c)
      /\ Cardinality(Of("chat")) < MaxLive /\ Goto(c, "mark") /\ live' = live \cup {call[c].id}
      /\ UNCHANGED <<leaving, held, line, ending, told, sweep, stopped, relay, since>>
  BY DEF SpawnChat
<1>1. call[c].pc \in Early
  BY <1>0 DEF Early
<1>2. PICK row \in Call : call' = [call EXCEPT ![c] = row] /\ row.pc = "mark" /\ row.id = call[c].id
  BY <1>0, GoesOn, SMTT(60) DEF HostsHold
<1>3. /\ call' \in [Caller -> Call \cup {NoCall}] /\ call'[c] = row
      /\ \A d \in Caller : d # c => call'[d] = call[d]
  BY <1>2 DEF HostsHold, HostsShape
<1>4. /\ call[c].id \in Id /\ call[c].id \notin live /\ ending[call[c].id] = "no"
      /\ \A d \in Caller : d # c /\ call[d].pc \in Starting => call[d].id # call[c].id
  BY <1>1, EarlyCall
<1>5. HostsShape'
  BY <1>0, <1>1, <1>3, <1>4, SpawnedRow DEF HostsHold, HostsShape
<1>6. CallsHold'
  <2>1. ASSUME NEW a \in Caller
        PROVE  /\ call'[a].pc \in Early => sess'[call'[a].id] = NoSession
               /\ call'[a].pc \notin Early \cup {"none"} => sess'[call'[a].id] # NoSession
               /\ call'[a].pc = "insert" => call'[a].kind = "terminal" /\ sess'[call'[a].id].kind = "terminal"
    <3>1. CASE a = c
      BY <1>0, <1>1, <1>2, <1>3, <3>1, SpawnedRow, ZenonT(60) DEF Early
    <3>2. CASE a # c
      BY <1>0, <1>1, <1>3, <3>2, OthersOpen, ZenonT(60)
    <3>. QED  BY <3>1, <3>2
  <2>2. ASSUME NEW a \in Caller, call'[a].pc \in Starting
        PROVE  /\ a # c /\ call'[a] = call[a] /\ call[a].pc \in Starting
               /\ call'[a].id \notin live' /\ ending'[call'[a].id] = "no"
    <3>1. a # c
      BY <1>2, <1>3, <2>2 DEF Starting, Early
    <3>2. call'[a] = call[a] /\ call[a].pc \in Starting /\ call[a].id # call[c].id
      BY <1>3, <1>4, <2>2, <3>1
    <3>. QED  BY <1>0, <3>1, <3>2 DEF HostsHold, CallsHold
  <2>3. ASSUME NEW a \in Caller, NEW d \in Caller, a # d, call'[a].pc \in Starting, call'[d].pc \in Starting
        PROVE  call'[a].id # call'[d].id /\ ~(call'[a].pc = "insert" /\ call'[d].pc = "insert")
    BY <2>2, <2>3, SMTT(60) DEF HostsHold, CallsHold
  <2>. QED  BY <2>1, <2>2, <2>3, ZenonT(60) DEF CallsHold
<1>7. EndsHold'
  BY <1>0, <1>1, <1>4, SpawnedBeside, SpawnedRow, ZenonT(60) DEF HostsHold, HostsShape, EndsHold
<1>8. SweepsHold'
  BY <1>0, <1>1, SpawnedBeside DEF HostsHold, SweepsHold
<1>9. CapHolds' /\ RoomKept'
  <2>1. "chat" \in Kind /\ sess'[call[c].id].kind = "chat" /\ \A j \in live : sess'[j] = sess[j]
    BY <1>0, <1>1, SpawnedRow, SpawnedBeside DEF Kind
  <2>2. \A d \in Caller : call'[d].pc = "insert" => call[d].pc = "insert" /\ "chat" # "terminal"
    BY <1>2, <1>3
  <2>. QED  BY <1>0, <1>4, <2>1, <2>2, RecordedFits, ZenonT(60)
<1>10. CredentialsOwned'
  BY <1>0, <1>3, RecordedOwned, ZenonT(60)
<1>. QED  BY <1>5, <1>6, <1>7, <1>8, <1>9, <1>10 DEF HostsHold

(* The host records the terminal that came through the gate.                     *)
LEMMA InsertHolds ==
  ASSUME HostsHold, NEW c \in Caller, Insert(c)
  PROVE  HostsHold'
<1>0. /\ call[c].pc = "insert" /\ Goto(c, "mark") /\ live' = live \cup {call[c].id}
      /\ UNCHANGED <<sess, proc, leaving, held, line, ending, told, sweep, stopped, relay, since>>
  BY DEF Insert
<1>1. call[c].pc \in Starting
  BY <1>0 DEF Starting
<1>2. PICK row \in Call : call' = [call EXCEPT ![c] = row] /\ row.pc = "mark" /\ row.id = call[c].id
  BY <1>0, GoesOn, SMTT(60) DEF HostsHold
<1>3. /\ call' \in [Caller -> Call \cup {NoCall}] /\ call'[c] = row
      /\ \A d \in Caller : d # c => call'[d] = call[d]
  BY <1>2 DEF HostsHold, HostsShape
<1>4. /\ call[c].id \in Id /\ call[c].id \notin live /\ ending[call[c].id] = "no"
      /\ sess[call[c].id].kind = "terminal" /\ sess[call[c].id] # NoSession
      /\ \A d \in Caller : d # c /\ call[d].pc \in Starting => call[d].id # call[c].id /\ call[d].pc # "insert"
  <2>1. call[c].id \in Id
    BY <1>0, InFlight DEF HostsHold, Call
  <2>. QED  BY <1>0, <1>1, <2>1 DEF HostsHold, CallsHold, Early
<1>5. HostsShape'
  BY <1>0, <1>3, <1>4, ZenonT(60) DEF HostsHold, HostsShape
<1>6. CallsHold'
  <2>1. ASSUME NEW a \in Caller
        PROVE  /\ call'[a].pc \in Early => sess'[call'[a].id] = NoSession
               /\ call'[a].pc \notin Early \cup {"none"} => sess'[call'[a].id] # NoSession
               /\ call'[a].pc = "insert" => call'[a].kind = "terminal" /\ sess'[call'[a].id].kind = "terminal"
    <3>1. CASE a = c
      BY <1>0, <1>2, <1>3, <1>4, <3>1, ZenonT(60) DEF Early
    <3>2. CASE a # c
      BY <1>0, <1>3, <3>2, ZenonT(60) DEF HostsHold, CallsHold
    <3>. QED  BY <3>1, <3>2
  <2>2. ASSUME NEW a \in Caller, call'[a].pc \in Starting
        PROVE  /\ a # c /\ call'[a] = call[a] /\ call[a].pc \in Starting
               /\ call'[a].id \notin live' /\ ending'[call'[a].id] = "no"
    <3>1. a # c
      BY <1>2, <1>3, <2>2 DEF Starting, Early
    <3>2. call'[a] = call[a] /\ call[a].pc \in Starting /\ call[a].id # call[c].id
      BY <1>3, <1>4, <2>2, <3>1, ZenonT(60)
    <3>. QED  BY <1>0, <3>1, <3>2 DEF HostsHold, CallsHold
  <2>3. ASSUME NEW a \in Caller, NEW d \in Caller, a # d, call'[a].pc \in Starting, call'[d].pc \in Starting
        PROVE  call'[a].id # call'[d].id /\ ~(call'[a].pc = "insert" /\ call'[d].pc = "insert")
    BY <2>2, <2>3, SMTT(60) DEF HostsHold, CallsHold
  <2>. QED  BY <2>1, <2>2, <2>3 DEF CallsHold
<1>7. EndsHold'
  BY <1>0, <1>4 DEF HostsHold, HostsShape, EndsHold
<1>8. SweepsHold'
  BY <1>0 DEF HostsHold, SweepsHold
<1>9. CapHolds' /\ RoomKept'
  <2>1. "terminal" \in Kind /\ sess'[call[c].id].kind = "terminal" /\ \A j \in live : sess'[j] = sess[j]
    BY <1>0, <1>4 DEF Kind
  <2>2. ASSUME NEW d \in Caller, call'[d].pc = "insert" PROVE FALSE
    <3>1. d # c
      BY <1>2, <1>3, <2>2
    <3>. QED  BY <1>3, <1>4, <2>2, <3>1 DEF Starting
  <2>3. Cardinality(Of("terminal")) < MaxLive
    BY <1>0 DEF HostsHold, RoomKept
  <2>. QED  BY <1>0, <1>4, <2>1, <2>2, <2>3, RecordedFits, ZenonT(60)
<1>10. CredentialsOwned'
  BY <1>0, <1>3, RecordedOwned
<1>. QED  BY <1>5, <1>6, <1>7, <1>8, <1>9, <1>10 DEF HostsHold
(* retarget: the session is put on another step and stays who it is.             *)
LEMMA RetargetHolds ==
  ASSUME HostsHold, NEW c \in Caller, RetargetDrop(c)
  PROVE  HostsHold'
<1>0. /\ call[c].pc = "drop" /\ Goto(c, "move")
      /\ ReleaseRunning(sess[call[c].id].task, sess[call[c].id].step)
      /\ sess' = [sess EXCEPT ![call[c].id].step = call[c].step]
      /\ UNCHANGED <<proc, leaving, live, held, ending, told, sweep, stopped, relay, since>>
  BY DEF RetargetDrop
<1>1. PICK row \in Call : call' = [call EXCEPT ![c] = row] /\ row.pc = "move" /\ row.id = call[c].id
  BY <1>0, GoesOn, SMTT(60) DEF HostsHold
<1>2. PICK old \in Call : old = call[c]
  BY <1>0, InFlight DEF HostsHold
<1>3. old.id \in Id /\ old.step \in Nat
  BY DEF Call
<1>4. sess[old.id] # NoSession
  BY <1>0, <1>2 DEF HostsHold, CallsHold, Early
<1>5. PICK was \in Session : was = sess[old.id]
  BY <1>3, <1>4 DEF HostsHold, HostsShape
<1>6. PICK now : now = [was EXCEPT !.step = old.step]
  OBVIOUS
<1>7. now \in Session /\ now.kind = was.kind /\ now # NoSession
  <2>1. now \in Session /\ now.kind = was.kind
    BY <1>3, <1>6 DEF Session
  <2>. QED  BY <2>1, SMTT(60) DEF Session, Kind, NoSession
<1>8. sess' = [sess EXCEPT ![old.id] = now]
  BY <1>0, <1>2, <1>5, <1>6
<1>9. /\ sess' \in [Id -> Session \cup {NoSession}]
      /\ \A i \in Id : sess'[i].kind = sess[i].kind /\ (sess'[i] = NoSession <=> sess[i] = NoSession)
  BY <1>3, <1>4, <1>5, <1>7, <1>8 DEF HostsHold, HostsShape
<1>10. /\ call' \in [Caller -> Call \cup {NoCall}] /\ call'[c] = row
       /\ \A d \in Caller : d # c => call'[d] = call[d]
  BY <1>1 DEF HostsHold, HostsShape
<1>11. HostsShape'
  BY <1>0, <1>9, <1>10, LinesMarked DEF HostsHold, HostsShape
<1>12. \A d \in Caller : call[d].pc # "none" => call[d].id \in Id
  BY InFlight DEF HostsHold, Call
<1>13. CallsHold'
  <2>1. ASSUME NEW a \in Caller
        PROVE  /\ call'[a].pc \in Early => sess'[call'[a].id] = NoSession
               /\ call'[a].pc \notin Early \cup {"none"} => sess'[call'[a].id] # NoSession
               /\ call'[a].pc = "insert" => call'[a].kind = "terminal" /\ sess'[call'[a].id].kind = "terminal"
    <3>1. CASE a = c
      BY <1>1, <1>2, <1>3, <1>4, <1>9, <1>10, <3>1, ZenonT(60) DEF Early
    <3>2. CASE a # c
      <4>1. call'[a] = call[a]
        BY <1>10, <3>2
      <4>2. CASE call[a].pc = "none"
        BY <4>1, <4>2 DEF Early
      <4>3. CASE call[a].pc # "none"
        <5>1. /\ sess'[call[a].id].kind = sess[call[a].id].kind
              /\ sess'[call[a].id] = NoSession <=> sess[call[a].id] = NoSession
          BY <1>9, <1>12, <4>3
        <5>2. /\ call[a].pc \in Early => sess[call[a].id] = NoSession
              /\ call[a].pc \notin Early \cup {"none"} => sess[call[a].id] # NoSession
              /\ call[a].pc = "insert" => call[a].kind = "terminal" /\ sess[call[a].id].kind = "terminal"
          BY DEF HostsHold, CallsHold
        <5>. QED  BY <4>1, <5>1, <5>2
      <4>. QED  BY <4>2, <4>3
    <3>. QED  BY <3>1, <3>2
  <2>2. ASSUME NEW a \in Caller, call'[a].pc \in Starting
        PROVE  /\ call'[a] = call[a] /\ call[a].pc \in Starting
               /\ call'[a].id \notin live' /\ ending'[call'[a].id] = "no"
    <3>1. a # c
      BY <1>1, <1>10, <2>2 DEF Starting, Early
    <3>2. call'[a] = call[a]
      BY <1>10, <3>1
    <3>. QED  BY <1>0, <2>2, <3>2 DEF HostsHold, CallsHold
  <2>3. ASSUME NEW a \in Caller, NEW d \in Caller, a # d, call'[a].pc \in Starting, call'[d].pc \in Starting
        PROVE  call'[a].id # call'[d].id /\ ~(call'[a].pc = "insert" /\ call'[d].pc = "insert")
    BY <2>2, <2>3, SMTT(60) DEF HostsHold, CallsHold
  <2>. QED  BY <2>1, <2>2, <2>3 DEF CallsHold
<1>14. EndsHold'
  BY <1>0, <1>9 DEF HostsHold, HostsShape, EndsHold
<1>15. SweepsHold'
  BY <1>0, <1>9 DEF HostsHold, HostsShape, SweepsHold
<1>16. CapHolds' /\ RoomKept'
  <2>1. \A k \in Kind : Of(k)' \subseteq Of(k)
    BY <1>0, <1>9 DEF Of, HostsHold, HostsShape
  <2>2. \A d \in Caller : call'[d].pc = "insert" => call[d].pc = "insert"
    BY <1>1, <1>10
  <2>. QED  BY <2>1, <2>2, FewerFit DEF HostsHold
<1>17. CredentialsOwned'
  <2>1. CredentialsOwned /\ held' \subseteq held
    BY <1>0 DEF HostsHold
  <2>2. \A d \in Caller : call[d].pc \in {"register", "insert"} => call'[d] = call[d]
    BY <1>0, <1>10
  <2>. QED  BY <1>0, <2>1, <2>2, OwnersStay
<1>. QED  BY <1>11, <1>13, <1>14, <1>15, <1>16, <1>17, ZenonT(60) DEF HostsHold

(* Sessions leave the map, by whichever way comes first.                         *)
LEMMA TakenHolds ==
  ASSUME HostsHold, NEW ids \in SUBSET live, NEW at \in {"stop", "release"}, Take(ids, at),
         UNCHANGED <<sess, proc, line, call, told, since>>,
         leaving' \subseteq Id, stopped' \subseteq Kind,
         sweep' \in [Kind -> SUBSET Id], \A k \in Kind : sweep'[k] \subseteq sweep[k],
         held' \subseteq held, at = "release" => ids \cap held' = {}
  PROVE  HostsHold'
<1>0. live' = live \ ids /\ ending' = [i \in Id |-> IF i \in ids THEN at ELSE ending[i]]
  BY DEF Take
<1>1. HostsShape'
  BY <1>0 DEF HostsHold, HostsShape
<1>2. \A i \in Id : i \notin ids => ending'[i] = ending[i]
  BY <1>0
<1>3. \A i \in Id : i \in ids => ending'[i] = at /\ ending[i] = "no" /\ sess[i] # NoSession
  BY <1>0 DEF HostsHold, EndsHold
<1>4. CallsHold'
  <2>1. ASSUME NEW a \in Caller, call[a].pc \in Starting PROVE call[a].id \notin live' /\ ending'[call[a].id] = "no"
    <3>1. call[a].id \in Id
      BY <2>1, InFlight DEF HostsHold, Call, Starting, Early
    <3>2. call[a].id \notin live /\ ending[call[a].id] = "no"
      BY <2>1 DEF HostsHold, CallsHold
    <3>. QED  BY <1>0, <1>2, <3>1, <3>2
  <2>. QED  BY <2>1, ZenonT(60) DEF HostsHold, CallsHold
<1>5. EndsHold'
  <2>1. ASSUME NEW i \in Id
        PROVE  /\ told[i] = IF ending'[i] = "over" THEN 1 ELSE 0
               /\ ending'[i] \in {"release", "announce", "over"} => i \notin held'
               /\ i \in live' => ending'[i] = "no"
               /\ i \in live' \/ ending'[i] # "no" => sess[i] # NoSession
    <3>1. CASE i \in ids
      BY <1>0, <1>3, <3>1 DEF HostsHold, EndsHold
    <3>2. CASE i \notin ids
      BY <1>0, <1>2, <3>2 DEF HostsHold, EndsHold
    <3>. QED  BY <3>1, <3>2
  <2>. QED  BY <2>1 DEF EndsHold
<1>6. SweepsHold'
  BY DEF HostsHold, SweepsHold
<1>7. CapHolds' /\ RoomKept'
  <2>1. \A k \in Kind : Of(k)' \subseteq Of(k)
    BY <1>0 DEF Of
  <2>2. \A d \in Caller : call'[d].pc = "insert" => call[d].pc = "insert"
    OBVIOUS
  <2>. QED  BY <2>1, <2>2, FewerFit DEF HostsHold
<1>8. CredentialsOwned'
  <2>1. ASSUME NEW i \in held'
        PROVE  \/ i \in live' \/ ending'[i] = "stop"
               \/ \E c \in Caller : call[c].pc \in {"register", "insert"} /\ call[c].id = i
    <3>1. i \in Id /\ i \in held
      BY DEF HostsHold, HostsShape
    <3>2. CASE i \in ids
      BY <1>3, <3>1, <3>2
    <3>3. CASE i \notin ids
      BY <1>0, <1>2, <3>1, <3>3 DEF HostsHold, CredentialsOwned
    <3>. QED  BY <3>2, <3>3
  <2>. QED  BY <2>1 DEF CredentialsOwned
<1>. QED  BY <1>1, <1>4, <1>5, <1>6, <1>7, <1>8, ZenonT(60) DEF HostsHold
(* Nothing leaves the map when nothing is taken.                                 *)
LEMMA TakeNothing ==
  ASSUME HostsHold, UNCHANGED <<live, ending>>
  PROVE  Take({}, "stop") /\ {} \in SUBSET live
  BY DEF Take, HostsHold, HostsShape

(* close, on_exit, the sweep, the relay and the shutdown.                        *)
LEMMA LeavesHold ==
  ASSUME HostsHold, NEW i \in Id, NEW k \in Kind,
         Close(i) \/ OnExit(i) \/ RelayRenews(i) \/ SweepCloses(k, i) \/ Shutdown(k)
  PROVE  HostsHold'
<1>0. UNCHANGED <<sess, proc, line, call, told, since>>
  BY DEF Close, OnExit, RelayRenews, SweepCloses, Shutdown
<1>1. leaving \subseteq Id /\ stopped \subseteq Kind /\ sweep \in [Kind -> SUBSET Id]
  BY DEF HostsHold, HostsShape
<1>2. CASE Close(i)
  BY <1>0, <1>1, <1>2, TakenHolds DEF Close
<1>3. CASE OnExit(i)
  <2>1. leaving' \subseteq Id /\ UNCHANGED <<stopped, sweep>>
    BY <1>1, <1>3 DEF OnExit
  <2>2. CASE i \in live /\ Take({i}, "release") /\ held' = held \ {i}
    <3>1. {i} \in SUBSET live /\ {i} \cap held' = {} /\ held' \subseteq held
      BY <2>2
    <3>. QED  BY <1>0, <1>1, <2>1, <2>2, <3>1, TakenHolds, ZenonT(60)
  <2>3. CASE UNCHANGED <<live, ending, held>>
    BY <1>0, <1>1, <2>1, <2>3, TakeNothing, TakenHolds, ZenonT(60)
  <2>. QED  BY <1>3, <2>2, <2>3 DEF OnExit
<1>4. CASE RelayRenews(i)
  <2>1. UNCHANGED <<leaving, held, stopped, sweep>>
    BY <1>4 DEF RelayRenews
  <2>2. CASE i \in live /\ Take({i}, "stop")
    BY <1>0, <1>1, <2>1, <2>2, TakenHolds, ZenonT(60)
  <2>3. CASE UNCHANGED <<live, ending>>
    BY <1>0, <1>1, <2>1, <2>3, TakeNothing, TakenHolds, ZenonT(60)
  <2>. QED  BY <1>4, <2>2, <2>3 DEF RelayRenews, WorkSession
<1>5. CASE SweepCloses(k, i)
  <2>1. UNCHANGED <<leaving, held, stopped>> /\ sweep' = [sweep EXCEPT ![k] = @ \ {i}]
    BY <1>5 DEF SweepCloses
  <2>2. sweep' \in [Kind -> SUBSET Id] /\ \A h \in Kind : sweep'[h] \subseteq sweep[h]
    BY <1>1, <2>1
  <2>3. CASE i \in live /\ Take({i}, "stop")
    BY <1>0, <1>1, <2>1, <2>2, <2>3, TakenHolds, ZenonT(60)
  <2>4. CASE UNCHANGED <<live, ending>>
    BY <1>0, <1>1, <2>1, <2>2, <2>4, TakeNothing, TakenHolds, ZenonT(60)
  <2>. QED  BY <1>5, <2>3, <2>4 DEF SweepCloses
<1>6. CASE Shutdown(k)
  <2>1. UNCHANGED <<leaving, held, sweep>> /\ stopped' = stopped \cup {k} /\ Take(Of(k), "stop")
    BY <1>6 DEF Shutdown
  <2>2. Of(k) \in SUBSET live /\ stopped' \subseteq Kind
    BY <1>1, <2>1 DEF Of
  <2>. QED  BY <1>0, <1>1, <2>1, <2>2, TakenHolds, ZenonT(60)
<1>. QED  BY <1>2, <1>3, <1>4, <1>5, <1>6

(* The last steps of a session that has left the map.                            *)
LEMMA EndGoesOn ==
  ASSUME HostsHold, NEW i \in Id, NEW next \in {"release", "announce", "over"},
         ending[i] = IF next = "release" THEN "stop" ELSE IF next = "announce" THEN "release" ELSE "announce",
         ending' = [ending EXCEPT ![i] = next],
         held' = IF next = "release" THEN held \ {i} ELSE held,
         told' = IF next = "over" THEN [told EXCEPT ![i] = @ + 1] ELSE told,
         line' \in [Line -> {"open", "running", "claimed"}],
         UNCHANGED <<sess, proc, leaving, live, call, sweep, stopped, since>>
  PROVE  HostsHold'
<1>1. /\ ending[i] # "no" /\ ending[i] # "over" /\ ending'[i] = next
      /\ \A j \in Id : j # i => ending'[j] = ending[j] /\ (j \in held' <=> j \in held)
      /\ held' \subseteq held
  BY DEF HostsHold, HostsShape
<1>2. told' \in [Id -> Nat] /\ told'[i] = (IF next = "over" THEN 1 ELSE 0) /\ \A j \in Id : j # i => told'[j] = told[j]
  <2>1. told \in [Id -> Nat] /\ told[i] = 0
    BY <1>1 DEF HostsHold, HostsShape, EndsHold
  <2>. QED  BY <2>1, SMTT(60)
<1>3. HostsShape'
  BY <1>1, <1>2 DEF HostsHold, HostsShape
<1>4. CallsHold'
  <2>1. ASSUME NEW a \in Caller, call[a].pc \in Starting PROVE ending'[call[a].id] = "no"
    <3>1. call[a].id \in Id
      BY <2>1, InFlight DEF HostsHold, Call, Starting, Early
    <3>2. ending[call[a].id] = "no"
      BY <2>1 DEF HostsHold, CallsHold
    <3>. QED  BY <1>1, <3>1, <3>2
  <2>. QED  BY <2>1, ZenonT(60) DEF HostsHold, CallsHold
<1>5. EndsHold'
  <2>1. ASSUME NEW j \in Id
        PROVE  /\ told'[j] = IF ending'[j] = "over" THEN 1 ELSE 0
               /\ ending'[j] \in {"release", "announce", "over"} => j \notin held'
               /\ j \in live => ending'[j] = "no"
               /\ j \in live \/ ending'[j] # "no" => sess[j] # NoSession
    <3>1. CASE j = i
      <4>1. i \notin live /\ sess[i] # NoSession
        BY <1>1 DEF HostsHold, EndsHold
      <4>2. i \notin held'
        BY DEF HostsHold, EndsHold
      <4>. QED  BY <1>1, <1>2, <3>1, <4>1, <4>2, ZenonT(60)
    <3>2. CASE j # i
      BY <1>1, <1>2, <3>2, ZenonT(60) DEF HostsHold, EndsHold
    <3>. QED  BY <3>1, <3>2
  <2>. QED  BY <2>1 DEF EndsHold
<1>6. SweepsHold'
  BY DEF HostsHold, SweepsHold
<1>7. CapHolds' /\ RoomKept'
  <2>1. \A k \in Kind : Of(k)' \subseteq Of(k)
    BY DEF Of
  <2>. QED  BY <2>1, FewerFit DEF HostsHold
<1>8. CredentialsOwned'
  <2>1. ASSUME NEW j \in held'
        PROVE  \/ j \in live \/ ending'[j] = "stop"
               \/ \E c \in Caller : call[c].pc \in {"register", "insert"} /\ call[c].id = j
    <3>1. j \in Id /\ j \in held /\ j # i
      BY DEF HostsHold, HostsShape, EndsHold
    <3>. QED  BY <1>1, <3>1 DEF HostsHold, CredentialsOwned
  <2>. QED  BY <2>1 DEF CredentialsOwned
<1>. QED  BY <1>3, <1>4, <1>5, <1>6, <1>7, <1>8, ZenonT(60) DEF HostsHold
(* ChatSession::end, end_session and their announcements.                        *)
LEMMA EndsAreOrderly ==
  ASSUME HostsHold, NEW i \in Id,
         StoppedTerminal(i) \/ StoppedChat(i) \/ ReleaseTerminal(i) \/ FinishChat(i) \/ Announce(i)
  PROVE  HostsHold'
<1>0. UNCHANGED <<sess, proc, leaving, live, call, sweep, stopped, since>>
  BY DEF StoppedTerminal, StoppedChat, Settle, ReleaseTerminal, FinishChat, Announce
<1>1. line \in [Line -> {"open", "running", "claimed"}]
  BY DEF HostsHold, HostsShape
<1>2. CASE Settle(i)
  <2>1. PICK next \in {"release", "announce", "over"} : next = "release"
    OBVIOUS
  <2>2. /\ ending[i] = IF next = "release" THEN "stop" ELSE IF next = "announce" THEN "release" ELSE "announce"
        /\ ending' = [ending EXCEPT ![i] = next]
        /\ held' = IF next = "release" THEN held \ {i} ELSE held
        /\ told' = IF next = "over" THEN [told EXCEPT ![i] = @ + 1] ELSE told
        /\ line' = line
    BY <1>2, <2>1 DEF Settle
  <2>. QED  BY <1>0, <1>1, <2>2, EndGoesOn
<1>3. CASE ReleaseTerminal(i) \/ FinishChat(i)
  <2>1. PICK next \in {"release", "announce", "over"} : next = "announce"
    OBVIOUS
  <2>2. /\ ending[i] = IF next = "release" THEN "stop" ELSE IF next = "announce" THEN "release" ELSE "announce"
        /\ ending' = [ending EXCEPT ![i] = next]
        /\ held' = IF next = "release" THEN held \ {i} ELSE held
        /\ told' = IF next = "over" THEN [told EXCEPT ![i] = @ + 1] ELSE told
    BY <1>3, <2>1 DEF ReleaseTerminal, FinishChat
  <2>3. (\E t, s : ReleaseRunning(t, s)) \/ line' = line
    BY <1>3 DEF ReleaseTerminal, FinishChat
  <2>4. line' \in [Line -> {"open", "running", "claimed"}]
    BY <1>1, <2>3, LinesMarked, ZenonT(60) DEF HostsHold
  <2>. QED  BY <1>0, <2>2, <2>4, EndGoesOn
<1>4. CASE Announce(i)
  <2>1. PICK next \in {"release", "announce", "over"} : next = "over"
    OBVIOUS
  <2>2. /\ ending[i] = IF next = "release" THEN "stop" ELSE IF next = "announce" THEN "release" ELSE "announce"
        /\ ending' = [ending EXCEPT ![i] = next]
        /\ held' = IF next = "release" THEN held \ {i} ELSE held
        /\ told' = IF next = "over" THEN [told EXCEPT ![i] = @ + 1] ELSE told
        /\ line' = line
    BY <1>4, <2>1 DEF Announce
  <2>. QED  BY <1>0, <1>1, <2>2, EndGoesOn
<1>. QED  BY <1>2, <1>3, <1>4 DEF StoppedTerminal, StoppedChat

(* The steps beside the maps and the ends.                                       *)
LEMMA BesideHolds ==
  ASSUME HostsHold, UNCHANGED <<sess, live, held, call, ending, told, stopped>>,
         proc' \in [Id -> {"none", "running", "exited"}], leaving' \subseteq Id, since' \subseteq Id,
         line' \in [Line -> {"open", "running", "claimed"}],
         sweep' \in [Kind -> SUBSET Id], \A k \in Kind : \A i \in sweep'[k] : sess[i].kind = k
  PROVE  HostsHold'
<1>1. HostsShape'
  BY DEF HostsHold, HostsShape
<1>2. CallsHold' /\ EndsHold' /\ SweepsHold' /\ CredentialsOwned'
  BY SMTT(60) DEF HostsHold, CallsHold, EndsHold, SweepsHold, CredentialsOwned
<1>3. \A k \in Kind : Of(k)' \subseteq Of(k)
  BY DEF Of
<1>4. CapHolds' /\ RoomKept'
  BY <1>3, FewerFit DEF HostsHold
<1>. QED  BY <1>1, <1>2, <1>4 DEF HostsHold

(* A process exits, a relay falls asleep, a sweep reads, a step is claimed.      *)
LEMMA BesideSteps ==
  ASSUME HostsHold,
         \/ \E i \in Id : Exit(i) \/ RelayCheck(i)
         \/ \E i \in Id : \E s \in UNION {1 .. Released[t] : t \in Task} : ClaimStep(i, s)
         \/ \E k \in Kind : \E ids \in SUBSET Of(k) : SweepReads(k, ids)
         \/ UNCHANGED hosts
  PROVE  HostsHold'
<1>1. /\ proc \in [Id -> {"none", "running", "exited"}] /\ leaving \subseteq Id /\ since \subseteq Id
      /\ line \in [Line -> {"open", "running", "claimed"}] /\ live \subseteq Id
      /\ sweep \in [Kind -> SUBSET Id] /\ \A k \in Kind : \A i \in sweep[k] : sess[i].kind = k
  BY DEF HostsHold, HostsShape, SweepsHold
<1>2. CASE \E i \in Id : Exit(i) \/ RelayCheck(i)
  <2>1. PICK i \in Id : Exit(i) \/ RelayCheck(i)
    BY <1>2
  <2>2. UNCHANGED <<sess, live, held, call, ending, told, stopped, sweep, line, since>>
    BY <2>1 DEF Exit, RelayCheck
  <2>3. proc' \in [Id -> {"none", "running", "exited"}] /\ leaving' \subseteq Id
    BY <1>1, <2>1 DEF Exit, RelayCheck
  <2>. QED  BY <1>1, <2>2, <2>3, BesideHolds
<1>3. ASSUME NEW i \in Id, NEW s \in UNION {1 .. Released[t] : t \in Task}, ClaimStep(i, s) PROVE HostsHold'
  <2>1. UNCHANGED <<sess, live, held, call, ending, told, stopped, sweep, proc, leaving>>
    BY <1>3 DEF ClaimStep
  <2>2. since' \subseteq Id /\ line' \in [Line -> {"open", "running", "claimed"}]
    BY <1>1, <1>3 DEF ClaimStep
  <2>. QED  BY <1>1, <2>1, <2>2, BesideHolds
<1>4. ASSUME NEW k \in Kind, NEW ids \in SUBSET Of(k), SweepReads(k, ids) PROVE HostsHold'
  <2>1. UNCHANGED <<sess, live, held, call, ending, told, stopped, proc, leaving, line, since>>
        /\ sweep' = [sweep EXCEPT ![k] = ids]
    BY <1>4 DEF SweepReads
  <2>2. ids \subseteq Id /\ \A i \in ids : sess[i].kind = k
    BY <1>1 DEF Of
  <2>3. sweep' \in [Kind -> SUBSET Id] /\ \A h \in Kind : \A i \in sweep'[h] : sess[i].kind = h
    BY <1>1, <2>1, <2>2
  <2>. QED  BY <1>1, <2>1, <2>3, BesideHolds
<1>5. CASE UNCHANGED hosts
  BY <1>1, <1>5, BesideHolds DEF hosts
<1>. QED  BY <1>2, <1>3, <1>4, <1>5

(* No session, no call, no process.                                              *)
LEMMA HostsStart == HostsInit => HostsHold
<1>. SUFFICES ASSUME HostsInit PROVE HostsHold
  OBVIOUS
<1>1. HostsShape
  BY DEF HostsInit, HostsShape
<1>2. \A c \in Caller : call[c].pc = "none"
  BY DEF HostsInit, NoCall
<1>3. CallsHold /\ RoomKept
  BY <1>2 DEF CallsHold, RoomKept, Early, Starting
<1>4. EndsHold /\ SweepsHold /\ CredentialsOwned
  BY DEF HostsInit, EndsHold, SweepsHold, CredentialsOwned
<1>5. CapHolds
  <2>1. \A k \in Kind : Of(k) = {}
    BY DEF HostsInit, Of
  <2>2. 0 <= MaxLive
    BY HostConstants, SMTT(60)
  <2>. QED  BY <2>1, <2>2, FS_EmptySet DEF CapHolds
<1>. QED  BY <1>1, <1>3, <1>4, <1>5 DEF HostsHold

(* SessionHosts, TerminalManager and ChatSessionManager: with any number of      *)
(* openings, ends, sweeps, renewals and shutdowns in flight, neither host passes *)
(* its cap, every session ends once, and every credential session is owned.      *)
THEOREM HostsAreSound == HostsSpec => []HostsInv
<1>1. HostsHold /\ [HostsNext]_hosts => HostsHold'
  <2>. SUFFICES ASSUME HostsHold, [HostsNext]_hosts PROVE HostsHold'
    OBVIOUS
  <2>1. ASSUME NEW c \in Caller,
               \/ \E o \in Opening : Open(c, o[1], o[2], o[3], o[4])
               \/ Resolve(c) \/ Start(c) \/ Refused(c) \/ SpawnTerminal(c) \/ SpawnChat(c) \/ Insert(c) \/ Mark(c)
               \/ RetargetDrop(c) \/ RetargetMark(c) \/ Type(c)
               \/ \E i \in Id : RelayOpens(i, c)
        PROVE  HostsHold'
    BY <2>1, OpenHolds, ResolveHolds, StartHolds, RefusedHolds, SpawnTerminalHolds, SpawnChatHolds, InsertHolds,
       MarkHolds, RetargetHolds, ZenonT(60)
  <2>2. ASSUME NEW i \in Id,
               Close(i) \/ OnExit(i) \/ RelayRenews(i)
        PROVE  HostsHold'
    <3>1. "chat" \in Kind
      BY DEF Kind
    <3>. QED  BY <2>2, <3>1, LeavesHold
  <2>3. ASSUME NEW i \in Id,
               StoppedTerminal(i) \/ StoppedChat(i) \/ ReleaseTerminal(i) \/ FinishChat(i) \/ Announce(i)
        PROVE  HostsHold'
    BY <2>3, EndsAreOrderly
  <2>4. ASSUME NEW k \in Kind, NEW i \in Id, SweepCloses(k, i) PROVE HostsHold'
    BY <2>4, LeavesHold
  <2>5. ASSUME NEW k \in Kind, Shutdown(k) PROVE HostsHold'
    <3>1. CASE \E i \in Id : TRUE
      BY <2>5, <3>1, LeavesHold
    <3>2. CASE Id = {}
      <4>1. Of(k) = {} /\ {} \in SUBSET live /\ Take({}, "stop")
        BY <2>5, <3>2 DEF Shutdown, Of, HostsHold, HostsShape
      <4>2. UNCHANGED <<sess, proc, line, call, told, since, leaving, sweep, held>> /\ stopped' \subseteq Kind
        BY <2>5 DEF Shutdown, HostsHold, HostsShape
      <4>. QED  BY <4>1, <4>2, TakenHolds DEF HostsHold, HostsShape
    <3>. QED  BY <3>1, <3>2
  <2>. QED  BY <2>1, <2>2, <2>3, <2>4, <2>5, BesideSteps, ZenonT(60) DEF HostsNext
<1>. QED  BY HostsStart, HostsSound, <1>1, PTL DEF HostsSpec

-----------------------------------------------------------------------------
(* The output and the window of a terminal *)

PanesSpec == PanesInit /\ [][PanesNext]_panes

Kept == IF printed < Capacity THEN printed ELSE Capacity

(* The place in the ring of the byte after the first n                       *)
Slot(start, n) == IF start + n < Capacity THEN start + n ELSE start + n - Capacity

RingHolds ==
    /\ printed \in 0 .. MaxBytes
    /\ scrollback \in Scrollback
    /\ scrollback.size = Kept
    /\ \A n \in 1 .. Kept : scrollback.ring[Slot(scrollback.start, n - 1)] = printed - Kept + n

PumpHolds ==
    /\ pump \in [pc : {"read", "listeners", "output"}, chunk : SUBSET Nat, to : SUBSET Pane]
    /\ pump.pc = "read" => pump = Resting
    /\ pump.pc # "read" => pump.chunk = {printed} /\ printed # 0
    /\ pump.pc # "output" => pump.to = {}

(* The chunk a pane is still to be given                                     *)
Due(p) == IF (pump.pc = "listeners" /\ pane[p] # "off") \/ p \in pump.to THEN {printed} ELSE {}

SeenHolds ==
    /\ pane \in [Pane -> {"off", "listening", "on"}]
    /\ seen \in [Pane -> SUBSET Nat]
    /\ \A p \in Pane : /\ pane[p] = "off" => seen[p] = {} /\ p \notin pump.to
                       /\ \A b \in seen[p] : b <= printed /\ \A later \in b .. printed : later \in seen[p] \cup Due(p)
                       /\ pane[p] = "on" => printed \in seen[p] \cup Due(p) \cup {0}

PanesHold == RingHolds /\ PumpHolds /\ SeenHolds /\ kicks \in Nat /\ SizeComesBack

(* An index past the end of the ring wraps once.                                 *)
LEMMA Wraps ==
  ASSUME NEW start \in 0 .. Capacity - 1, NEW n \in 0 .. Capacity
  PROVE  (start + n) % Capacity = Slot(start, n) /\ Slot(start, n) \in 0 .. Capacity - 1
<1>. DEFINE x == start + n
<1>1. Capacity \in Nat \ {0} /\ x \in Nat /\ x < 2 * Capacity
  BY PaneConstants, SMTT(60)
<1>2. CASE x < Capacity
  <2>1. x % Capacity = x
    BY <1>1, <1>2, SMTT(60)
  <2>. QED  BY <1>1, <1>2, <2>1, SMTT(60) DEF Slot
<1>3. CASE x >= Capacity
  <2>1. x % Capacity = x - Capacity
    BY <1>1, <1>3, SMTT(60)
  <2>. QED  BY <1>1, <1>3, <2>1, SMTT(60) DEF Slot
<1>. QED  BY <1>1, <1>2, <1>3, SMTT(60)

(* Scrollback::snapshot: the bytes kept, oldest first.                           *)
LEMMA SnapshotKeeps ==
  ASSUME RingHolds
  PROVE  Snapshot(scrollback) = [n \in 1 .. Kept |-> printed - Kept + n]
<1>1. Kept \in 0 .. Capacity /\ Capacity \in Nat \ {0} /\ scrollback.size = Kept
  BY PaneConstants, SMTT(60) DEF Kept, RingHolds
<1>2. scrollback.start \in 0 .. Capacity - 1
  BY DEF RingHolds, Scrollback
<1>3. ASSUME NEW n \in 1 .. Kept
      PROVE  scrollback.ring[(scrollback.start + n - 1) % Capacity] = printed - Kept + n
  <2>1. n - 1 \in 0 .. Capacity /\ scrollback.start + n - 1 = scrollback.start + (n - 1)
    BY <1>1, <1>2, SMTT(60)
  <2>2. (scrollback.start + (n - 1)) % Capacity = Slot(scrollback.start, n - 1)
    BY <1>2, <2>1, Wraps
  <2>3. scrollback.ring[Slot(scrollback.start, n - 1)] = printed - Kept + n
    BY DEF RingHolds
  <2>. QED  BY <2>1, <2>2, <2>3
<1>. QED  BY <1>1, <1>3 DEF Snapshot

(* Scrollback::append: the newest byte in, the oldest out when it is full.       *)
LEMMA RingRolls ==
  ASSUME RingHolds, printed < MaxBytes, printed' = printed + 1, scrollback' = Append1(scrollback, printed + 1)
  PROVE  RingHolds'
<1>1. PICK bytes, first : bytes = scrollback.ring /\ first = scrollback.start
  OBVIOUS
<1>2. /\ bytes \in [0 .. Capacity - 1 -> 0 .. MaxBytes] /\ scrollback.size = Kept /\ first \in 0 .. Capacity - 1
      /\ \A n \in 1 .. Kept : bytes[Slot(first, n - 1)] = printed - Kept + n
  BY <1>1 DEF RingHolds, Scrollback
<1>3. /\ Capacity \in Nat \ {0} /\ printed \in Nat /\ MaxBytes \in Nat /\ Kept \in 0 .. Capacity
      /\ Kept' = (IF Kept < Capacity THEN Kept + 1 ELSE Capacity)
      /\ Kept <= printed
  BY PaneConstants, SMTT(60) DEF RingHolds, Kept
<1>4. PICK at : at = Slot(first, Kept)
  OBVIOUS
<1>5. (first + Kept) % Capacity = at /\ at \in 0 .. Capacity - 1
  BY <1>2, <1>3, <1>4, Wraps, ZenonT(60)
<1>6. PICK ring : ring = [bytes EXCEPT ![at] = printed + 1]
  OBVIOUS
<1>7. /\ ring \in [0 .. Capacity - 1 -> 0 .. MaxBytes] /\ ring[at] = printed + 1
      /\ \A j \in 0 .. Capacity - 1 : j # at => ring[j] = bytes[j]
  <2>1. printed + 1 \in 0 .. MaxBytes
    BY <1>3, SMTT(60)
  <2>. QED  BY <1>2, <1>5, <1>6, <2>1, ZenonT(60)
<1>8. PICK holds : holds = IF Kept < Capacity THEN Kept + 1 ELSE Kept
  OBVIOUS
<1>9. PICK start : start = IF Kept < Capacity THEN first ELSE (first + 1) % Capacity
  OBVIOUS
<1>10. scrollback' = [ring |-> ring, size |-> holds, start |-> start]
  BY <1>1, <1>2, <1>5, <1>6, <1>8, <1>9, ZenonT(60) DEF Append1
<1>11. scrollback'.ring = ring /\ scrollback'.size = holds /\ scrollback'.start = start
  BY <1>10, SMTT(60)
<1>12. holds = Kept' /\ holds \in 0 .. Capacity
  BY <1>3, <1>8, SMTT(60)
<1>13. start \in 0 .. Capacity - 1 /\ (Kept < Capacity => start = first) /\ (Kept = Capacity => start = Slot(first, 1))
  <2>1. 1 \in 0 .. Capacity
    BY <1>3, SMTT(60)
  <2>2. (first + 1) % Capacity = Slot(first, 1) /\ Slot(first, 1) \in 0 .. Capacity - 1
    BY <1>2, <2>1, Wraps
  <2>3. CASE Kept < Capacity
    BY <1>2, <1>3, <1>9, <2>3, SMTT(60)
  <2>4. CASE Kept = Capacity
    <3>1. start = (first + 1) % Capacity
      BY <1>3, <1>9, <2>4, SMTT(60)
    <3>. QED  BY <1>3, <2>2, <2>4, <3>1, SMTT(60)
  <2>. QED  BY <1>3, <2>3, <2>4, SMTT(60)
<1>14. scrollback' \in Scrollback
  BY <1>7, <1>10, <1>12, <1>13, SMTT(60) DEF Scrollback
<1>15. ASSUME NEW n \in 1 .. Kept' PROVE ring[Slot(start, n - 1)] = printed' - Kept' + n
  <2>1. CASE Kept < Capacity /\ n = Kept + 1
    <3>1. Slot(start, n - 1) = at /\ Kept' = Kept + 1
      BY <1>3, <1>4, <1>13, <2>1, SMTT(60)
    <3>. QED  BY <1>3, <1>7, <2>1, <3>1, SMTT(60)
  <2>2. CASE Kept < Capacity /\ n # Kept + 1
    <3>1. n \in 1 .. Kept /\ start = first /\ Kept' = Kept + 1
      BY <1>3, <1>13, <2>2, SMTT(60)
    <3>2. Slot(first, n - 1) \in 0 .. Capacity - 1 /\ Slot(first, n - 1) # Slot(first, Kept)
      BY <1>2, <1>3, <2>2, <3>1, SMTT(60) DEF Slot
    <3>3. bytes[Slot(first, n - 1)] = printed - Kept + n
      BY <1>2, <3>1
    <3>4. ring[Slot(start, n - 1)] = printed - Kept + n
      BY <1>4, <1>7, <3>1, <3>2, <3>3
    <3>. QED  BY <1>3, <3>1, <3>4, SMTT(60)
  <2>3. CASE Kept = Capacity /\ n = Capacity
    <3>1. Slot(Slot(first, 1), Capacity - 1) = Slot(first, Capacity)
      BY <1>2, <1>3, SMTT(60) DEF Slot
    <3>2. Slot(start, n - 1) = at /\ Kept' = Capacity
      BY <1>3, <1>4, <1>13, <2>3, <3>1, SMTT(60)
    <3>. QED  BY <1>3, <1>7, <2>3, <3>2, SMTT(60)
  <2>4. CASE Kept = Capacity /\ n # Capacity
    <3>1. n + 1 \in 1 .. Kept /\ Kept' = Capacity /\ n \in 1 .. Capacity - 1
      BY <1>3, <2>4, SMTT(60)
    <3>2. /\ Slot(Slot(first, 1), n - 1) = Slot(first, n) /\ Slot(first, n) \in 0 .. Capacity - 1
          /\ Slot(first, n) # Slot(first, Capacity)
      BY <1>2, <1>3, <3>1, SMTT(60) DEF Slot
    <3>3. bytes[Slot(first, n)] = printed - Kept + (n + 1)
      <4>1. bytes[Slot(first, (n + 1) - 1)] = printed - Kept + (n + 1)
        BY <1>2, <3>1
      <4>2. (n + 1) - 1 = n
        BY <3>1, SMTT(60)
      <4>. QED  BY <4>1, <4>2
    <3>4. ring[Slot(start, n - 1)] = printed - Kept + (n + 1)
      BY <1>4, <1>7, <1>13, <2>4, <3>2, <3>3, ZenonT(60)
    <3>. QED  BY <1>3, <2>4, <3>1, <3>4, SMTT(60)
  <2>. QED  BY <1>3, <2>1, <2>2, <2>3, <2>4, SMTT(60)
<1>. QED  BY <1>3, <1>11, <1>12, <1>14, <1>15, SMTT(60) DEF RingHolds

(* The pump's rows.                                                              *)
LEMMA PumpRow ==
  ASSUME NEW pc \in {"read", "listeners", "output"}, NEW chunk \in SUBSET Nat, NEW to \in SUBSET Pane,
         NEW cell, cell = [pc |-> pc, chunk |-> chunk, to |-> to]
  PROVE  /\ cell \in [pc : {"read", "listeners", "output"}, chunk : SUBSET Nat, to : SUBSET Pane]
         /\ cell.pc = pc /\ cell.chunk = chunk /\ cell.to = to
  OBVIOUS

(* The pump reads a chunk into the ring.                                         *)
LEMMA ReadHolds ==
  ASSUME PanesHold, Read
  PROVE  PanesHold'
<1>1. /\ pump.pc = "read" /\ printed < MaxBytes /\ printed' = printed + 1 /\ printed \in Nat
      /\ scrollback' = Append1(scrollback, printed + 1)
      /\ pump' = [pc |-> "listeners", chunk |-> {printed + 1}, to |-> {}]
      /\ UNCHANGED <<pane, seen, size, rows, kicks>>
  BY SMTT(60) DEF Read, PanesHold, RingHolds
<1>2. RingHolds'
  BY <1>1, RingRolls DEF PanesHold
<1>3. /\ pump' \in [pc : {"read", "listeners", "output"}, chunk : SUBSET Nat, to : SUBSET Pane]
      /\ pump'.pc = "listeners" /\ pump'.chunk = {printed'} /\ pump'.to = {}
  <2>1. {printed + 1} \in SUBSET Nat /\ {} \in SUBSET Pane
    BY <1>1, SMTT(60)
  <2>. QED  BY <1>1, <2>1, PumpRow
<1>4. PumpHolds'
  BY <1>1, <1>3, SMTT(60) DEF PumpHolds
<1>5. pump.to = {}
  BY <1>1 DEF PanesHold, PumpHolds
<1>6. \A p \in Pane : Due(p) = {} /\ (pane[p] # "off" => Due(p)' = {printed + 1})
  BY <1>1, <1>3, <1>5 DEF Due
<1>7. SeenHolds'
  <2>1. pane' = pane /\ seen' = seen /\ pane \in [Pane -> {"off", "listening", "on"}] /\ seen \in [Pane -> SUBSET Nat]
    BY <1>1 DEF PanesHold, SeenHolds
  <2>2. ASSUME NEW p \in Pane
        PROVE  /\ pane[p] = "off" => seen[p] = {} /\ p \notin pump'.to
               /\ \A b \in seen[p] : b <= printed' /\ \A later \in b .. printed' : later \in seen[p] \cup Due(p)'
               /\ pane[p] = "on" => printed' \in seen[p] \cup Due(p)' \cup {0}
    <3>1. CASE pane[p] = "off"
      BY <1>3, <3>1 DEF PanesHold, SeenHolds
    <3>2. CASE pane[p] # "off"
      <4>1. Due(p)' = {printed + 1} /\ \A b \in seen[p] : b \in Nat /\ b <= printed /\ \A later \in b .. printed : later \in seen[p]
        BY <1>6, <3>2, <2>1 DEF PanesHold, SeenHolds
      <4>. QED  BY <1>1, <3>2, <4>1, SMTT(60)
    <3>. QED  BY <3>1, <3>2
  <2>. QED  BY <2>1, <2>2 DEF SeenHolds
<1>. QED  BY <1>1, <1>2, <1>4, <1>7, ZenonT(60) DEF PanesHold, SizeComesBack

(* The pump hands the chunk on.                                                  *)
LEMMA HandsOn ==
  ASSUME PanesHold, Listeners \/ PumpRests \/ \E p \in Pane : Output(p)
  PROVE  PanesHold'
<1>0. UNCHANGED <<printed, scrollback, pane, size, rows, kicks>>
  BY DEF Listeners, PumpRests, Output
<1>1. RingHolds' /\ (kicks \in Nat /\ SizeComesBack)'
  BY <1>0 DEF PanesHold, RingHolds, Kept, SizeComesBack
<1>2. pump \in [pc : {"read", "listeners", "output"}, chunk : SUBSET Nat, to : SUBSET Pane]
  BY DEF PanesHold, PumpHolds
<1>3. CASE Listeners
  <2>1. /\ pump.pc = "listeners" /\ pump.chunk = {printed} /\ printed # 0 /\ pump.to = {} /\ seen' = seen
        /\ pump' = [pump EXCEPT !.pc = "output", !.to = {p \in Pane : pane[p] # "off"}]
    BY <1>3 DEF Listeners, PanesHold, PumpHolds
  <2>2. PICK to \in SUBSET Pane : to = {p \in Pane : pane[p] # "off"}
    OBVIOUS
  <2>3. /\ pump' \in [pc : {"read", "listeners", "output"}, chunk : SUBSET Nat, to : SUBSET Pane]
        /\ pump'.pc = "output" /\ pump'.chunk = pump.chunk /\ pump'.to = to
    BY <1>2, <2>1, <2>2
  <2>4. PumpHolds'
    BY <1>0, <2>1, <2>3 DEF PumpHolds
  <2>5. \A p \in Pane : Due(p)' = Due(p)
    BY <1>0, <2>1, <2>2, <2>3, ZenonT(60) DEF Due
  <2>6. SeenHolds'
    BY <1>0, <2>1, <2>2, <2>3, <2>5, ZenonT(60) DEF PanesHold, SeenHolds
  <2>. QED  BY <1>1, <2>4, <2>6 DEF PanesHold
<1>4. CASE PumpRests
  <2>1. pump.pc = "output" /\ pump.to = {} /\ pump' = Resting /\ seen' = seen
    BY <1>4 DEF PumpRests
  <2>2. /\ pump' \in [pc : {"read", "listeners", "output"}, chunk : SUBSET Nat, to : SUBSET Pane]
        /\ pump'.pc = "read" /\ pump'.to = {}
    BY <2>1, PumpRow DEF Resting
  <2>3. PumpHolds'
    BY <2>1, <2>2 DEF PumpHolds
  <2>4. \A p \in Pane : Due(p)' = Due(p)
    BY <2>1, <2>2 DEF Due
  <2>5. SeenHolds'
    BY <1>0, <2>1, <2>2, <2>4, ZenonT(60) DEF PanesHold, SeenHolds
  <2>. QED  BY <1>1, <2>3, <2>5 DEF PanesHold
<1>5. ASSUME NEW p \in Pane, Output(p) PROVE PanesHold'
  <2>1. /\ p \in pump.to /\ pump' = [pump EXCEPT !.to = @ \ {p}]
        /\ seen' = [seen EXCEPT ![p] = @ \cup pump.chunk]
    BY <1>5 DEF Output
  <2>2. /\ pump' \in [pc : {"read", "listeners", "output"}, chunk : SUBSET Nat, to : SUBSET Pane]
        /\ pump'.pc = pump.pc /\ pump'.chunk = pump.chunk /\ pump'.to = pump.to \ {p}
    BY <1>2, <2>1
  <2>3. pump.pc = "output" /\ pump.chunk = {printed} /\ printed # 0 /\ printed \in Nat
    BY <2>1 DEF PanesHold, PumpHolds, RingHolds
  <2>4. PumpHolds'
    BY <1>0, <2>2, <2>3 DEF PumpHolds
  <2>5. /\ seen \in [Pane -> SUBSET Nat] /\ pane \in [Pane -> {"off", "listening", "on"}]
        /\ seen' \in [Pane -> SUBSET Nat] /\ seen'[p] = seen[p] \cup {printed}
        /\ \A q \in Pane : q # p => seen'[q] = seen[q]
    BY <2>1, <2>3 DEF PanesHold, SeenHolds
  <2>6. Due(p) = {printed} /\ Due(p)' = {} /\ \A q \in Pane : q # p => Due(q)' = Due(q)
    BY <1>0, <2>1, <2>2, <2>3 DEF Due
  <2>7. ASSUME NEW q \in Pane
        PROVE  /\ pane[q] = "off" => seen'[q] = {} /\ q \notin pump'.to
               /\ \A b \in seen'[q] : b <= printed /\ \A later \in b .. printed : later \in seen'[q] \cup Due(q)'
               /\ pane[q] = "on" => printed \in seen'[q] \cup Due(q)' \cup {0}
    <3>1. CASE q = p
      <4>1. pane[p] # "off" /\ \A b \in seen[p] : b <= printed /\ \A later \in b .. printed : later \in seen[p] \cup {printed}
        BY <2>1, <2>6 DEF PanesHold, SeenHolds
      <4>2. \A later \in printed .. printed : later = printed
        BY <2>3, SMTT(60)
      <4>. QED  BY <2>3, <2>5, <2>6, <3>1, <4>1, <4>2, SMTT(60)
    <3>2. CASE q # p
      BY <2>2, <2>5, <2>6, <3>2, ZenonT(60) DEF PanesHold, SeenHolds
    <3>. QED  BY <3>1, <3>2
  <2>8. SeenHolds'
    BY <1>0, <2>5, <2>7 DEF SeenHolds
  <2>. QED  BY <1>1, <2>4, <2>8 DEF PanesHold
<1>. QED  BY <1>3, <1>4, <1>5

(* attach and detach.                                                            *)
LEMMA PanesAttach ==
  ASSUME PanesHold, NEW p \in Pane, AttachPane(p) \/ DetachPane(p)
  PROVE  PanesHold'
<1>0. UNCHANGED <<printed, scrollback, size, rows, kicks>>
  BY DEF AttachPane, DetachPane
<1>1. RingHolds' /\ (kicks \in Nat /\ SizeComesBack)'
  BY <1>0 DEF PanesHold, RingHolds, Kept, SizeComesBack
<1>2. /\ pump \in [pc : {"read", "listeners", "output"}, chunk : SUBSET Nat, to : SUBSET Pane]
      /\ pane \in [Pane -> {"off", "listening", "on"}] /\ seen \in [Pane -> SUBSET Nat]
  BY DEF PanesHold, PumpHolds, SeenHolds
<1>3. /\ pump' \in [pc : {"read", "listeners", "output"}, chunk : SUBSET Nat, to : SUBSET Pane]
      /\ pump'.pc = pump.pc /\ pump'.chunk = pump.chunk /\ pump'.to = pump.to \ {p}
  <2>1. CASE AttachPane(p)
    BY <1>2, <2>1 DEF AttachPane, PanesHold, SeenHolds
  <2>2. CASE DetachPane(p)
    BY <1>2, <2>2 DEF DetachPane
  <2>. QED  BY <2>1, <2>2
<1>4. PumpHolds'
  <2>1. CASE pump.pc = "read"
    <3>1. pump = Resting /\ pump.to = {}
      BY <2>1 DEF PanesHold, PumpHolds
    <3>2. pump' = pump
      <4>1. pump'.to = pump.to
        BY <1>3, <3>1
      <4>. QED  BY <1>2, <1>3, <4>1, SMTT(60)
    <3>. QED  BY <1>0, <3>2 DEF PanesHold, PumpHolds
  <2>2. CASE pump.pc # "read"
    BY <1>0, <1>3, <2>2 DEF PanesHold, PumpHolds
  <2>. QED  BY <2>1, <2>2
<1>5. /\ pane' \in [Pane -> {"off", "listening", "on"}] /\ seen' \in [Pane -> SUBSET Nat] /\ seen'[p] = {}
      /\ pane'[p] # "on" /\ \A q \in Pane : q # p => seen'[q] = seen[q] /\ pane'[q] = pane[q]
  <2>1. CASE AttachPane(p)
    BY <1>2, <2>1 DEF AttachPane, PanesHold, SeenHolds
  <2>2. CASE DetachPane(p)
    BY <1>2, <2>2 DEF DetachPane
  <2>. QED  BY <2>1, <2>2
<1>6. \A q \in Pane : q # p => Due(q)' = Due(q)
  BY <1>0, <1>3, <1>5 DEF Due
<1>7. ASSUME NEW q \in Pane
      PROVE  /\ pane'[q] = "off" => seen'[q] = {} /\ q \notin pump'.to
             /\ \A b \in seen'[q] : b <= printed /\ \A later \in b .. printed : later \in seen'[q] \cup Due(q)'
             /\ pane'[q] = "on" => printed \in seen'[q] \cup Due(q)' \cup {0}
  <2>1. CASE q = p
    BY <1>3, <1>5, <2>1
  <2>2. CASE q # p
    BY <1>3, <1>5, <1>6, <2>2, ZenonT(60) DEF PanesHold, SeenHolds
  <2>. QED  BY <2>1, <2>2
<1>8. SeenHolds'
  BY <1>0, <1>5, <1>7 DEF SeenHolds
<1>. QED  BY <1>1, <1>4, <1>8 DEF PanesHold

(* The bytes a replay gives: the newest, up to the last one printed.             *)
LEMMA ReplayedBytes ==
  ASSUME RingHolds
  PROVE  Bytes(Snapshot(scrollback)) = printed - Kept + 1 .. printed
<1>1. PICK s : s = Snapshot(scrollback)
  OBVIOUS
<1>2. s = [n \in 1 .. Kept |-> printed - Kept + n]
  BY <1>1, SnapshotKeeps
<1>3. printed \in Nat /\ Kept \in Nat /\ Kept <= printed
  BY PaneConstants, SMTT(60) DEF RingHolds, Kept
<1>4. DOMAIN s = 1 .. Kept /\ \A n \in 1 .. Kept : s[n] = printed - Kept + n
  BY <1>2
<1>5. ASSUME NEW b \in printed - Kept + 1 .. printed PROVE b \in {s[n] : n \in 1 .. Kept}
  <2>1. PICK n : n = b - printed + Kept
    OBVIOUS
  <2>2. n \in 1 .. Kept /\ b = printed - Kept + n
    BY <1>3, <2>1, SMTT(60)
  <2>. QED  BY <1>4, <2>2
<1>6. ASSUME NEW n \in 1 .. Kept PROVE s[n] \in printed - Kept + 1 .. printed
  BY <1>3, <1>4, SMTT(60)
<1>7. {s[n] : n \in 1 .. Kept} = printed - Kept + 1 .. printed
  BY <1>5, <1>6
<1>8. Bytes(s) = {s[n] : n \in 1 .. Kept}
  BY <1>4 DEF Bytes
<1>. QED  BY <1>1, <1>7, <1>8

(* The scrollback replayed to a pane that listens already.                       *)
LEMMA ReplayHolds ==
  ASSUME PanesHold, NEW p \in Pane, Replay(p)
  PROVE  PanesHold'
<1>0. /\ pane[p] = "listening" /\ pane' = [pane EXCEPT ![p] = "on"] /\ UNCHANGED <<printed, scrollback, pump, size>>
      /\ seen' = [seen EXCEPT ![p] = @ \cup Bytes(Snapshot(scrollback))]
      /\ (rows' = size - 1 /\ kicks' = kicks + 1) \/ UNCHANGED <<rows, kicks>>
  BY DEF Replay
<1>1. RingHolds' /\ PumpHolds'
  BY <1>0 DEF PanesHold, RingHolds, Kept, PumpHolds
<1>2. (kicks \in Nat /\ SizeComesBack)'
  BY <1>0, SMTT(60) DEF PanesHold, SizeComesBack
<1>3. PICK new : new = Bytes(Snapshot(scrollback))
  OBVIOUS
<1>4. new = printed - Kept + 1 .. printed
  BY <1>3, ReplayedBytes DEF PanesHold
<1>5. printed \in Nat /\ Kept \in Nat /\ Kept <= printed /\ (printed # 0 => Kept > 0)
  BY PaneConstants, SMTT(60) DEF PanesHold, RingHolds, Kept
<1>6. new \in SUBSET Nat /\ \A b \in new : b <= printed /\ \A later \in b .. printed : later \in new
  BY <1>4, <1>5, SMTT(60)
<1>7. printed \in new \cup {0}
  BY <1>4, <1>5, SMTT(60)
<1>8. seen' = [seen EXCEPT ![p] = @ \cup new]
  BY <1>0, <1>3
<1>9. /\ pane' \in [Pane -> {"off", "listening", "on"}] /\ seen' \in [Pane -> SUBSET Nat]
      /\ seen'[p] = seen[p] \cup new /\ pane'[p] = "on"
      /\ \A q \in Pane : q # p => seen'[q] = seen[q] /\ pane'[q] = pane[q]
  BY <1>0, <1>6, <1>8, ZenonT(60) DEF PanesHold, SeenHolds
<1>10. \A q \in Pane : Due(q)' = Due(q)
  BY <1>0, <1>9 DEF Due
<1>11. ASSUME NEW q \in Pane
       PROVE  /\ pane'[q] = "off" => seen'[q] = {} /\ q \notin pump.to
              /\ \A b \in seen'[q] : b <= printed /\ \A later \in b .. printed : later \in seen'[q] \cup Due(q)'
              /\ pane'[q] = "on" => printed \in seen'[q] \cup Due(q)' \cup {0}
  <2>1. CASE q = p
    <3>1. \A b \in seen[p] : b <= printed /\ \A later \in b .. printed : later \in seen[p] \cup Due(p)
      BY DEF PanesHold, SeenHolds
    <3>. QED  BY <1>6, <1>7, <1>9, <1>10, <2>1, <3>1, SMTT(60)
  <2>2. CASE q # p
    BY <1>9, <1>10, <2>2 DEF PanesHold, SeenHolds
  <2>. QED  BY <2>1, <2>2
<1>12. SeenHolds'
  BY <1>0, <1>9, <1>11 DEF SeenHolds
<1>. QED  BY <1>1, <1>2, <1>12 DEF PanesHold

(* The window: the steps that leave the output alone.                            *)
LEMMA WindowHolds ==
  ASSUME PanesHold, Restore \/ (\E n \in 1 .. MaxRows : Resize(n)) \/ UNCHANGED panes
  PROVE  PanesHold'
<1>1. UNCHANGED <<printed, scrollback, pump, pane, seen>>
  BY DEF Restore, Resize, panes
<1>2. (kicks \in Nat /\ SizeComesBack)'
  BY SMTT(60) DEF Restore, Resize, panes, PanesHold, SizeComesBack
<1>3. RingHolds' /\ PumpHolds' /\ SeenHolds'
  BY <1>1, ZenonT(60) DEF PanesHold, RingHolds, Kept, PumpHolds, SeenHolds, Due
<1>. QED  BY <1>2, <1>3 DEF PanesHold

(* Nothing printed, nobody attached.                                             *)
LEMMA PanesStart == PanesInit => PanesHold
<1>. SUFFICES ASSUME PanesInit PROVE PanesHold
  OBVIOUS
<1>1. RingHolds
  <2>1. printed = 0 /\ Kept = 0 /\ scrollback = [ring |-> [at \in 0 .. Capacity - 1 |-> 0], size |-> 0, start |-> 0]
    BY PaneConstants, SMTT(60) DEF PanesInit, Kept
  <2>2. scrollback \in Scrollback /\ scrollback.size = 0
    BY <2>1, PaneConstants, SMTT(60) DEF Scrollback
  <2>. QED  BY <2>1, <2>2, PaneConstants, SMTT(60) DEF RingHolds
<1>2. /\ pump \in [pc : {"read", "listeners", "output"}, chunk : SUBSET Nat, to : SUBSET Pane]
      /\ pump = Resting /\ pump.pc = "read" /\ pump.to = {}
  BY PumpRow DEF PanesInit, Resting
<1>3. PumpHolds
  BY <1>2 DEF PumpHolds
<1>4. SeenHolds
  BY <1>2 DEF PanesInit, SeenHolds
<1>. QED  BY <1>1, <1>3, <1>4 DEF PanesInit, PanesHold, SizeComesBack

(* TerminalSession: the scrollback holds the newest bytes in order for every     *)
(* capacity, a pane that attaches while the pump is anywhere in its rounds       *)
(* misses none from the first it is given, and the window comes back to its size.*)
THEOREM PanesAreSound == PanesSpec => []PanesInv
<1>1. PanesHold /\ [PanesNext]_panes => PanesHold'
  BY ReadHolds, HandsOn, PanesAttach, ReplayHolds, WindowHolds, ZenonT(60) DEF PanesNext
<1>2. PanesHold => PanesInv
  <2>. SUFFICES ASSUME PanesHold PROVE PanesInv
    OBVIOUS
  <2>1. RingKeepsNewest
    BY SnapshotKeeps DEF PanesHold, RingHolds, RingKeepsNewest, Kept
  <2>2. NoByteDropped
    <3>. SUFFICES ASSUME pump = Resting, NEW p \in Pane, pane[p] = "on", NEW b \in seen[p] \cup {printed},
                         NEW later \in b .. printed
                  PROVE  later \in seen[p] \cup {0}
      BY DEF NoByteDropped
    <3>1. Due(p) = {}
      BY DEF Due, Resting
    <3>2. printed \in Nat
      BY SMTT(60) DEF PanesHold, RingHolds
    <3>3. CASE b \in seen[p]
      BY <3>1, <3>3 DEF PanesHold, SeenHolds
    <3>4. CASE b = printed
      <4>1. later = printed
        BY <3>2, <3>4, SMTT(60)
      <4>. QED  BY <3>1, <4>1 DEF PanesHold, SeenHolds
    <3>. QED  BY <3>3, <3>4
  <2>. QED  BY <2>1, <2>2 DEF PanesHold, PanesInv
<1>. QED  BY PanesStart, <1>1, <1>2, PTL, ZenonT(60) DEF PanesSpec

-----------------------------------------------------------------------------
(* The permission prompts of a chat *)

ChatSpec == ChatInit /\ [][ChatNext]_chat

(* A prompt is in one place: on its way in the channel, waiting, being       *)
(* answered, or resolved                                                     *)
PromptsHold ==
    /\ asked \subseteq Request /\ pending \subseteq asked /\ answering \subseteq asked /\ pending \cap answering = {}
    /\ channel \in Seq(Printed)
    /\ settled \in [Request -> Nat] /\ sent \in [Request -> Nat]
    /\ \A r \in Request : /\ settled[r] <= 1 /\ sent[r] <= settled[r]
                          /\ r \in pending \cup answering \/ r \notin asked => settled[r] = 0
    /\ \A n \in 1 .. Len(channel) : channel[n].of \in Request =>
          channel[n].of \in asked \ (pending \cup answering) /\ settled[channel[n].of] = 0
    /\ \A m, n \in 1 .. Len(channel) : m # n /\ channel[m].of \in Request => channel[m].of # channel[n].of

(* read_stdout: a request printed for the first time.                            *)
LEMMA PrintedHolds ==
  ASSUME PromptsHold, NEW printedLine \in Printed, ReadLine(printedLine)
  PROVE  PromptsHold'
<1>1. /\ (printedLine.type = "requested" => printedLine.of \notin asked)
      /\ asked' = asked \cup ({printedLine.of} \cap Request) /\ channel' = channel \o Parsed(printedLine)
      /\ UNCHANGED <<pending, answering, settled, sent>>
  BY DEF ReadLine
<1>2. printedLine.of \in Request => printedLine.of \notin asked
  BY <1>1, ChatConstants DEF Printed, None
<1>3. asked' \subseteq Request /\ pending' \subseteq asked' /\ answering' \subseteq asked' /\ pending' \cap answering' = {}
  BY <1>1 DEF PromptsHold
<1>4. /\ settled' \in [Request -> Nat] /\ sent' \in [Request -> Nat]
      /\ \A r \in Request : /\ settled'[r] <= 1 /\ sent'[r] <= settled'[r]
                            /\ r \in pending' \cup answering' \/ r \notin asked' => settled'[r] = 0
  BY <1>1 DEF PromptsHold
<1>5. CASE Parsed(printedLine) = <<>>
  <2>1. channel' = channel
    BY <1>1, <1>5, SMTT(60) DEF PromptsHold
  <2>. QED  BY <1>1, <1>3, <1>4, <2>1, ZenonT(60) DEF PromptsHold
<1>6. CASE Parsed(printedLine) = <<printedLine>>
  <2>0. channel \in Seq(Printed) /\ channel' = Append(channel, printedLine)
    <3>1. channel \in Seq(Printed) /\ channel' = channel \o <<printedLine>>
      BY <1>1, <1>6 DEF PromptsHold
    <3>. QED  BY <3>1, SMTT(60)
  <2>1. /\ channel' \in Seq(Printed) /\ Len(channel') = Len(channel) + 1 /\ Len(channel) \in Nat
        /\ \A n \in 1 .. Len(channel) : channel'[n] = channel[n]
        /\ channel'[Len(channel) + 1] = printedLine
    BY <2>0, SMTT(60)
  <2>2. ASSUME NEW n \in 1 .. Len(channel'), channel'[n].of \in Request
        PROVE  channel'[n].of \in asked' \ (pending' \cup answering') /\ settled'[channel'[n].of] = 0
    <3>1. CASE n = Len(channel) + 1
      BY <1>1, <1>2, <2>1, <2>2, <3>1 DEF PromptsHold
    <3>2. CASE n \in 1 .. Len(channel)
      BY <1>1, <2>1, <2>2, <3>2, ZenonT(60) DEF PromptsHold
    <3>. QED  BY <2>1, <3>1, <3>2, SMTT(60)
  <2>3. ASSUME NEW m \in 1 .. Len(channel'), NEW n \in 1 .. Len(channel'), m # n, channel'[m].of \in Request
        PROVE  channel'[m].of # channel'[n].of
    <3>0. \A k \in 1 .. Len(channel) : channel[k].of \in Request => channel[k].of \in asked
      BY DEF PromptsHold
    <3>1. CASE m = Len(channel) + 1
      BY <1>2, <2>1, <2>3, <3>0, <3>1, SMTT(60)
    <3>2. CASE n = Len(channel) + 1
      BY <1>2, <2>1, <2>3, <3>0, <3>2, SMTT(60)
    <3>3. CASE m \in 1 .. Len(channel) /\ n \in 1 .. Len(channel)
      BY <2>1, <2>3, <3>3 DEF PromptsHold
    <3>. QED  BY <2>1, <3>1, <3>2, <3>3, SMTT(60)
  <2>. QED  BY <1>3, <1>4, <2>1, <2>2, <2>3 DEF PromptsHold
<1>. QED  BY <1>5, <1>6 DEF Parsed

(* Prompts resolved are resolved once.                                           *)
LEMMA OnceResolved ==
  ASSUME settled \in [Request -> Nat], NEW rs \in SUBSET Request, Resolved(rs)
  PROVE  /\ settled' \in [Request -> Nat]
         /\ \A r \in Request : settled'[r] = IF r \in rs THEN settled[r] + 1 ELSE settled[r]
  BY SMTT(60) DEF Resolved

(* follow_process: a prompt waits from here, and the end of a turn denies those  *)
(* that wait.                                                                    *)
LEMMA FollowHolds ==
  ASSUME PromptsHold, Follow
  PROVE  PromptsHold'
<1>1. PICK body, over : /\ body = Head(channel) /\ over \in {{}, pending} /\ channel # <<>> /\ channel' = Tail(channel)
                        /\ pending' = (pending \ over) \cup ({body.of} \cap Request)
                        /\ Resolved(over)
                        /\ UNCHANGED <<asked, answering, sent>>
  BY DEF Follow
<1>2. /\ channel \in Seq(Printed) /\ Len(channel) \in Nat /\ Len(channel) > 0 /\ body = channel[1]
      /\ Tail(channel) \in Seq(Printed) /\ Len(Tail(channel)) = Len(channel) - 1
      /\ \A n \in 1 .. Len(Tail(channel)) : Tail(channel)[n] = channel[n + 1]
  <2>1. channel \in Seq(Printed) /\ channel # <<>>
    BY <1>1 DEF PromptsHold
  <2>. QED  BY <1>1, <2>1, SMTT(60)
<1>3. /\ channel' \in Seq(Printed)
      /\ \A n \in 1 .. Len(channel') : channel'[n] = channel[n + 1] /\ n + 1 \in 1 .. Len(channel) /\ n + 1 # 1
  BY <1>1, <1>2, SMTT(60)
<1>4. /\ settled' \in [Request -> Nat]
      /\ \A r \in Request : settled'[r] = IF r \in over THEN settled[r] + 1 ELSE settled[r]
  BY <1>1, OnceResolved DEF PromptsHold
<1>5. body.of \in Request => body.of \in asked \ (pending \cup answering) /\ settled[body.of] = 0
  BY <1>2, SMTT(60) DEF PromptsHold
<1>6. asked' \subseteq Request /\ pending' \subseteq asked' /\ answering' \subseteq asked' /\ pending' \cap answering' = {}
  BY <1>1, <1>5 DEF PromptsHold
<1>7. ASSUME NEW r \in Request
      PROVE  /\ settled'[r] <= 1 /\ sent'[r] <= settled'[r]
             /\ r \in pending' \cup answering' \/ r \notin asked' => settled'[r] = 0
  <2>1. /\ settled[r] \in Nat /\ sent[r] \in Nat /\ settled[r] <= 1 /\ sent[r] <= settled[r]
        /\ r \in pending \cup answering \/ r \notin asked => settled[r] = 0
    BY DEF PromptsHold
  <2>2. CASE r \in over
    <3>1. r \in pending /\ settled'[r] = 1 /\ settled[r] = 0
      BY <1>1, <1>4, <2>1, <2>2, SMTT(60)
    <3>2. r \notin pending' /\ r \notin answering' /\ r \in asked'
      BY <1>1, <1>5, <2>2, <3>1, ZenonT(60) DEF PromptsHold
    <3>. QED  BY <1>1, <2>1, <3>1, <3>2, SMTT(60)
  <2>3. CASE r \notin over
    <3>1. settled'[r] = settled[r]
      BY <1>4, <2>3
    <3>. QED  BY <1>1, <1>5, <2>1, <3>1, ZenonT(60)
  <2>. QED  BY <2>2, <2>3
<1>8. ASSUME NEW n \in 1 .. Len(channel'), channel'[n].of \in Request
      PROVE  channel'[n].of \in asked' \ (pending' \cup answering') /\ settled'[channel'[n].of] = 0
  <2>1. channel'[n] = channel[n + 1] /\ n + 1 \in 1 .. Len(channel) /\ n + 1 # 1 /\ 1 \in 1 .. Len(channel)
    BY <1>2, <1>3, SMTT(60)
  <2>2. PICK r \in Request : r = channel[n + 1].of
    BY <1>8, <2>1
  <2>3. r \in asked \ (pending \cup answering) /\ settled[r] = 0 /\ r # body.of
    BY <1>2, <2>1, <2>2 DEF PromptsHold
  <2>4. r \in asked' \ (pending' \cup answering') /\ settled'[r] = 0
    BY <1>1, <1>4, <2>3
  <2>. QED  BY <2>1, <2>2, <2>4
<1>9. ASSUME NEW m \in 1 .. Len(channel'), NEW n \in 1 .. Len(channel'), m # n, channel'[m].of \in Request
      PROVE  channel'[m].of # channel'[n].of
  <2>1. /\ m + 1 \in 1 .. Len(channel) /\ n + 1 \in 1 .. Len(channel) /\ m + 1 # n + 1
        /\ channel'[m] = channel[m + 1] /\ channel'[n] = channel[n + 1]
    BY <1>3, <1>9, SMTT(60)
  <2>2. \A i, j \in 1 .. Len(channel) : i # j /\ channel[i].of \in Request => channel[i].of # channel[j].of
    BY DEF PromptsHold
  <2>. QED  BY <1>9, <2>1, <2>2
<1>10. sent' \in [Request -> Nat]
  BY <1>1 DEF PromptsHold
<1>. QED  BY <1>3, <1>4, <1>6, <1>7, <1>8, <1>9, <1>10 DEF PromptsHold

(* answer_permission: the prompt is taken, then passed on or dropped.            *)
LEMMA AnswerHolds ==
  ASSUME PromptsHold, NEW r \in Request, TakePrompt(r) \/ AnswerPrompt(r)
  PROVE  PromptsHold'
<1>0. UNCHANGED <<asked, channel>>
  BY DEF TakePrompt, AnswerPrompt
<1>1. CASE TakePrompt(r)
  <2>1. r \in pending /\ pending' = pending \ {r} /\ answering' = answering \cup {r} /\ UNCHANGED <<settled, sent>>
    BY <1>1 DEF TakePrompt
  <2>2. pending' \cup answering' = pending \cup answering /\ pending' \cap answering' = {} /\ answering' \subseteq asked
    BY <2>1 DEF PromptsHold
  <2>. QED  BY <1>0, <2>1, <2>2, ZenonT(60) DEF PromptsHold
<1>2. CASE AnswerPrompt(r)
  <2>1. r \in answering /\ answering' = answering \ {r} /\ UNCHANGED pending
    BY <1>2 DEF AnswerPrompt
  <2>2. r \notin pending /\ r \in asked /\ settled[r] = 0 /\ sent[r] = 0
    BY <2>1, SMTT(60) DEF PromptsHold
  <2>3. CASE UNCHANGED <<sent, settled>>
    BY <1>0, <2>1, <2>3 DEF PromptsHold
  <2>4. CASE sent' = [sent EXCEPT ![r] = @ + 1] /\ Resolved({r})
    <3>1. /\ settled' \in [Request -> Nat] /\ settled'[r] = 1
          /\ \A q \in Request : q # r => settled'[q] = settled[q]
      BY <2>2, <2>4, OnceResolved, SMTT(60) DEF PromptsHold
    <3>2. /\ sent' \in [Request -> Nat] /\ sent'[r] = 1
          /\ \A q \in Request : q # r => sent'[q] = sent[q]
      BY <2>2, <2>4, SMTT(60) DEF PromptsHold
    <3>3. \A n \in 1 .. Len(channel) : channel[n].of \in Request => channel[n].of # r
      BY <2>1 DEF PromptsHold
    <3>4. ASSUME NEW q \in Request
          PROVE  /\ settled'[q] <= 1 /\ sent'[q] <= settled'[q]
                 /\ q \in pending' \cup answering' \/ q \notin asked' => settled'[q] = 0
      <4>1. CASE q = r
        BY <1>0, <2>1, <2>2, <3>1, <3>2, <4>1, SMTT(60)
      <4>2. CASE q # r
        BY <1>0, <2>1, <3>1, <3>2, <4>2 DEF PromptsHold
      <4>. QED  BY <4>1, <4>2
    <3>5. \A n \in 1 .. Len(channel) : channel[n].of \in Request =>
             channel[n].of \in asked \ (pending \cup answering') /\ settled'[channel[n].of] = 0
      BY <2>1, <3>1, <3>3 DEF PromptsHold
    <3>. QED  BY <1>0, <2>1, <3>1, <3>2, <3>4, <3>5, ZenonT(60) DEF PromptsHold
  <2>. QED  BY <1>2, <2>3, <2>4 DEF AnswerPrompt
<1>. QED  BY <1>1, <1>2

(* ChatSession::end denies the prompts that wait.                                *)
LEMMA EndDenies ==
  ASSUME PromptsHold, EndPublishes
  PROVE  PromptsHold'
<1>1. pending' = {} /\ Resolved(pending) /\ UNCHANGED <<asked, channel, answering, sent>>
  BY DEF EndPublishes
<1>2. /\ settled' \in [Request -> Nat]
      /\ \A r \in Request : settled'[r] = IF r \in pending THEN settled[r] + 1 ELSE settled[r]
  BY <1>1, OnceResolved DEF PromptsHold
<1>3. ASSUME NEW r \in Request
      PROVE  /\ settled'[r] <= 1 /\ sent'[r] <= settled'[r]
             /\ r \in pending' \cup answering' \/ r \notin asked' => settled'[r] = 0
  <2>1. /\ settled[r] \in Nat /\ sent[r] \in Nat /\ settled[r] <= 1 /\ sent[r] <= settled[r]
        /\ r \in pending \cup answering \/ r \notin asked => settled[r] = 0
        /\ r \in pending => r \in asked /\ r \notin answering
    BY DEF PromptsHold
  <2>. QED  BY <1>1, <1>2, <2>1, SMTT(60)
<1>4. \A n \in 1 .. Len(channel) : channel[n].of \in Request =>
         channel[n].of \in asked \ (pending' \cup answering) /\ settled'[channel[n].of] = 0
  BY <1>1, <1>2 DEF PromptsHold
<1>. QED  BY <1>1, <1>2, <1>3, <1>4, ZenonT(60) DEF PromptsHold

(* The steps that leave the prompts alone.                                       *)
LEMMA PromptsStay ==
  ASSUME PromptsHold, UNCHANGED <<asked, channel, pending, answering, settled, sent>>
  PROVE  PromptsHold'
  BY ZenonT(60) DEF PromptsHold

(* ChatSession: a permission prompt is answered to the process at most once and  *)
(* resolved at most once, whichever of two answers, the end of its turn and the  *)
(* end of the session comes first.                                               *)
THEOREM PromptsAreSettledOnce == ChatSpec => []PromptSettledOnce
<1>1. PromptsHold /\ [ChatNext]_chat => PromptsHold'
  <2>. SUFFICES ASSUME PromptsHold, [ChatNext]_chat PROVE PromptsHold'
    OBVIOUS
  <2>1. ASSUME \/ ProcessExits \/ Say \/ CloseSession \/ OnProcessExit \/ EndLetsGo \/ UNCHANGED chat
               \/ \E c \in Client : AttachClient(c) \/ ReadFrame(c) \/ Disconnect(c)
        PROVE  PromptsHold'
    <3>1. UNCHANGED <<asked, channel, pending, answering, settled, sent>>
      BY <2>1
         DEF ProcessExits, Say, CloseSession, OnProcessExit, EndLetsGo, AttachClient, ReadFrame, Disconnect, chat
    <3>. QED  BY <3>1, PromptsStay
  <2>. QED  BY <2>1, PrintedHolds, FollowHolds, AnswerHolds, EndDenies, ZenonT(60) DEF ChatNext
<1>2. ChatInit => PromptsHold
  <2>. SUFFICES ASSUME ChatInit PROVE PromptsHold
    OBVIOUS
  <2>1. /\ asked = {} /\ channel = <<>> /\ pending = {} /\ answering = {}
        /\ settled = [r \in Request |-> 0] /\ sent = [r \in Request |-> 0]
    BY DEF ChatInit
  <2>2. channel \in Seq(Printed) /\ Len(channel) = 0
    BY <2>1, SMTT(60)
  <2>. QED  BY <2>1, <2>2, SMTT(60) DEF PromptsHold
<1>3. PromptsHold => PromptSettledOnce
  BY DEF PromptsHold, PromptSettledOnce
<1>. QED  BY <1>1, <1>2, <1>3, PTL DEF ChatSpec

================================================================================
