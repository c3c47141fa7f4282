----------------------------- MODULE PaneStream -----------------------------
(***************************************************************************)
(* One terminal's output and window: the pump thread that keeps what the    *)
(* process prints in the scrollback ring and hands it to the panes, panes   *)
(* that attach and detach meanwhile, and the kick that wobbles the window a *)
(* row and back so a full-screen program repaints.  Bytes are numbered in   *)
(* the order the process prints them.                                       *)
(***************************************************************************)
EXTENDS Naturals, FiniteSets, Sequences

CONSTANTS
    Pane,       \* the panes a person opens on the terminal
    Capacity,   \* scrollback_bytes
    MaxBytes,   \* bound on the bytes printed
    MaxRows,    \* MAX_DIMENSION
    MaxKicks    \* bound on the restores pending at once

ASSUME PaneConstants == Capacity \in Nat \ {0} /\ MaxBytes \in Nat /\ MaxRows \in Nat \ {0} /\ MaxKicks \in Nat

VARIABLES
    printed,    \* how many bytes the process has printed
    scrollback, \* the ring: its bytes, how many it holds, where it starts
    pump,       \* the chunk in the pump's hands and the panes still to get it
    pane,       \* how far each pane has attached
    seen,       \* the bytes each pane has been given since it attached
    size,       \* the rows last asked for
    rows,       \* the rows the PTY has
    kicks       \* the restores still to come

panes == <<printed, scrollback, pump, pane, seen, size, rows, kicks>>

Scrollback == [ring : [0 .. Capacity - 1 -> 0 .. MaxBytes], size : 0 .. Capacity, start : 0 .. Capacity - 1]
Resting    == [pc |-> "read", chunk |-> {}, to |-> {}]

(* Scrollback::append, one byte *)
Append1(ring, byte) ==
    [ring  |-> [ring.ring EXCEPT ![(ring.start + ring.size) % Capacity] = byte],
     size  |-> IF ring.size < Capacity THEN ring.size + 1 ELSE ring.size,
     start |-> IF ring.size < Capacity THEN ring.start ELSE (ring.start + 1) % Capacity]

(* Scrollback::snapshot *)
Snapshot(ring) == [at \in 1 .. ring.size |-> ring.ring[(ring.start + at - 1) % Capacity]]
Bytes(s)       == {s[n] : n \in DOMAIN s}

PanesInit ==
    /\ printed = 0 /\ kicks = 0
    /\ scrollback = [ring |-> [at \in 0 .. Capacity - 1 |-> 0], size |-> 0, start |-> 0]
    /\ pump = Resting
    /\ pane = [p \in Pane |-> "off"] /\ seen = [p \in Pane |-> {}]
    /\ size = MaxRows /\ rows = MaxRows

(* pump: a chunk is appended, then the panes listening are read, then each  *)
(* of them is given it                                                      *)
Read ==
    /\ pump.pc = "read" /\ printed < MaxBytes
    /\ printed' = printed + 1
    /\ scrollback' = Append1(scrollback, printed + 1)
    /\ pump' = [pc |-> "listeners", chunk |-> {printed + 1}, to |-> {}]
    /\ UNCHANGED <<pane, seen, size, rows, kicks>>

Listeners ==
    /\ pump.pc = "listeners"
    /\ pump' = [pump EXCEPT !.pc = "output", !.to = {p \in Pane : pane[p] # "off"}]
    /\ UNCHANGED <<printed, scrollback, pane, seen, size, rows, kicks>>

Output(p) ==
    /\ p \in pump.to
    /\ pump' = [pump EXCEPT !.to = @ \ {p}]
    /\ seen' = [seen EXCEPT ![p] = @ \cup pump.chunk]
    /\ UNCHANGED <<printed, scrollback, pane, size, rows, kicks>>

PumpRests ==
    /\ pump.pc = "output" /\ pump.to = {}
    /\ pump' = Resting
    /\ UNCHANGED <<printed, scrollback, pane, seen, size, rows, kicks>>

(* attach: the pane listens, and only then is the scrollback replayed *)
AttachPane(p) ==
    /\ pane[p] = "off"
    /\ pane' = [pane EXCEPT ![p] = "listening"]
    /\ UNCHANGED <<printed, scrollback, pump, seen, size, rows, kicks>>

(* kick_resize, on a scrollback that is not empty *)
Replay(p) ==
    /\ pane[p] = "listening" /\ kicks < MaxKicks
    /\ pane' = [pane EXCEPT ![p] = "on"]
    /\ seen' = [seen EXCEPT ![p] = @ \cup Bytes(Snapshot(scrollback))]
    /\ IF scrollback.size > 0 /\ size > 1
       THEN rows' = size - 1 /\ kicks' = kicks + 1
       ELSE UNCHANGED <<rows, kicks>>
    /\ UNCHANGED <<printed, scrollback, pump, size>>

DetachPane(p) ==
    /\ pane[p] = "on"
    /\ pane' = [pane EXCEPT ![p] = "off"]
    /\ seen' = [seen EXCEPT ![p] = {}]
    /\ pump' = [pump EXCEPT !.to = @ \ {p}]
    /\ UNCHANGED <<printed, scrollback, size, rows, kicks>>

(* Mutant: the new size is applied and not remembered *)
ResizeForgets(n) ==
    /\ n # size
    /\ rows' = n
    /\ UNCHANGED <<printed, scrollback, pump, pane, seen, size, kicks>>

(* resize: the size it already has is skipped *)
Resize(n) ==
    /\ n # size
    /\ size' = n /\ rows' = n
    /\ UNCHANGED <<printed, scrollback, pump, pane, seen, kicks>>

(* restore_size, KICK_SETTLE after the kick *)
Restore ==
    /\ kicks > 0
    /\ kicks' = kicks - 1
    /\ rows' = size
    /\ UNCHANGED <<printed, scrollback, pump, pane, seen, size>>

PanesNext ==
    \/ Read \/ Listeners \/ PumpRests \/ Restore
    \/ \E p \in Pane : Output(p) \/ AttachPane(p) \/ Replay(p) \/ DetachPane(p)
    \/ \E n \in 1 .. MaxRows : Resize(n)

-----------------------------------------------------------------------------
(* The ring holds the newest bytes in the order they were printed, as many  *)
(* as fit (Scrollback::append and snapshot)                                 *)
RingKeepsNewest ==
    /\ scrollback \in Scrollback
    /\ LET kept == IF printed < Capacity THEN printed ELSE Capacity
       IN  Snapshot(scrollback) = [n \in 1 .. kept |-> printed - kept + n]

(* "a chunk arriving in the gap is drawn twice, not dropped" (attach): with *)
(* the pump at rest an attached pane has every byte from the first it was   *)
(* given to the last one printed                                            *)
NoByteDropped ==
    pump = Resting => \A p \in Pane : pane[p] = "on" =>
        \A b \in seen[p] \cup {printed} : \A later \in b .. printed : later \in seen[p] \cup {0}

(* Once no restore is to come the PTY has the size last asked for, whatever *)
(* resizes landed between a kick and its restore (kick_resize)              *)
SizeComesBack == kicks = 0 => rows = size

(* What a terminal's panes see of it: the newest bytes, none dropped, and the *)
(* size last asked for.                                                       *)
PanesInv == RingKeepsNewest /\ NoByteDropped /\ SizeComesBack
=============================================================================
