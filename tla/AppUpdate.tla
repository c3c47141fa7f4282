------------------------------ MODULE AppUpdate ------------------------------
(***************************************************************************)
(* The update of the macOS app: what the check for a newer release         *)
(* remembers, and the install that copies the new bundle beside the old    *)
(* one and swaps their names.  Versions are numbers; 0 is no bundle and    *)
(* Partial a bundle only part of which is there.  The console runs one     *)
(* install at a time.                                                      *)
(***************************************************************************)
EXTENDS Naturals

CONSTANTS
    MaxVersion,  \* bound: releases published
    MaxFaults,   \* bound: system calls that fail
    AnswerKept,  \* ANSWER_KEPT and FAILURE_KEPT, in ticks of the clock
    FailureKept,
    MaxClock     \* bound: ticks of the clock

ASSUME UpdateConstants ==
    /\ MaxVersion \in Nat \ {0} /\ MaxFaults \in Nat
    /\ FailureKept \in Nat /\ AnswerKept \in Nat /\ MaxClock \in Nat

VARIABLES
    latest,      \* the newest published release; 0 before the first
    running,     \* the version of the running process; 0 while none runs
    bundle,      \* Rekall.app
    staging,     \* .Rekall.app.new
    previous,    \* .Rekall.app.old
    install,     \* where the install is
    whole,       \* whether it began with a whole bundle
    faults,      \* failures so far
    clock,       \* the hour
    remembered   \* the last answer of the update check, when it was given and for how long

update == <<latest, running, bundle, staging, previous, install, whole, faults, clock, remembered>>

Partial == MaxVersion + 1
Whole(b) == b \in 1 .. MaxVersion

Nothing == [check |-> "none", at |-> 0, kept |-> 0]

(* newer_version, compare: versions order by major, minor and patch *)
Newer == latest > running

Fault == faults < MaxFaults /\ faults' = faults + 1
Fine  == faults' = faults
Ends  == install' = "idle"
Other(v) == UNCHANGED <<latest, running, whole, clock, remembered>> /\ UNCHANGED v

-----------------------------------------------------------------------------
Publish ==
    /\ latest < MaxVersion
    /\ latest' = latest + 1
    /\ UNCHANGED <<running, bundle, staging, previous, install, whole, faults, clock, remembered>>

Hour ==
    /\ clock < MaxClock
    /\ clock' = clock + 1
    /\ UNCHANGED <<latest, running, bundle, staging, previous, install, whole, faults, remembered>>

(* UpdateCheckService::ask: what GitHub answers now, or that it could not be asked *)
Answer == {[check |-> IF Newer THEN "available" ELSE "current", at |-> clock, kept |-> AnswerKept],
           [check |-> "unavailable", at |-> clock, kept |-> FailureKept]}

(* UpdateCheckService::status: asked for anew when a person refreshes or    *)
(* nothing remembered is fresh enough                                       *)
Status(refresh) ==
    /\ running # 0
    /\ refresh \/ remembered.check = "none" \/ clock - remembered.at >= remembered.kept
    /\ remembered' \in Answer
    /\ UNCHANGED <<latest, running, bundle, staging, previous, install, whole, faults, clock>>

-----------------------------------------------------------------------------
(* install: refused unless the newest release is newer and has a disk image; *)
(* the image is downloaded and mounted, or the install ends there            *)
Install ==
    /\ running # 0 /\ install = "idle" /\ Newer
    /\ install' = "stage" /\ whole' = Whole(bundle)
    /\ UNCHANGED <<latest, running, bundle, staging, previous, faults, clock, remembered>>

DownloadFails ==
    /\ install = "stage" /\ Fault /\ Ends
    /\ Other(<<bundle, staging, previous>>)

(* remove_tree of a leftover copy: gone, or only partly *)
ClearStaging ==
    /\ install = "stage"
    /\ \/ Fine /\ staging' = 0 /\ install' = "copy"
       \/ Fault /\ staging # 0 /\ staging' \in {staging, Partial} /\ Ends
    /\ Other(<<bundle, previous>>)

(* copy_bundle, and the copy removed again if it fails *)
CopyBundle ==
    /\ install = "copy"
    /\ \/ Fine /\ staging = 0 /\ staging' = Partial /\ install' = "copy"
       \/ Fine /\ staging = Partial /\ staging' = latest /\ install' = "clear"
       \/ Fault /\ staging' \in {0, Partial} /\ Ends
    /\ Other(<<bundle, previous>>)

ClearPrevious ==
    /\ install = "clear"
    /\ \/ Fine /\ previous' = 0 /\ install' = "aside"
       \/ Fault /\ previous # 0 /\ previous' \in {previous, Partial} /\ Ends
    /\ Other(<<bundle, staging>>)

(* Mutant: the old bundle is deleted before the new one is in place *)
DeleteOld ==
    /\ install = "aside" /\ bundle # 0
    /\ Fine /\ previous' = 0 /\ bundle' = 0 /\ install' = "in"
    /\ Other(staging)

(* rename(bundle, previous), which fails where there is no bundle *)
MoveAside ==
    /\ install = "aside"
    /\ \/ Fine /\ bundle # 0 /\ previous' = bundle /\ bundle' = 0 /\ install' = "in"
       \/ Fine /\ bundle = 0 /\ Ends /\ UNCHANGED <<bundle, previous>>
       \/ Fault /\ Ends /\ UNCHANGED <<bundle, previous>>
    /\ Other(staging)

(* rename(staging, bundle) *)
MoveIn ==
    /\ install = "in"
    /\ \/ Fine /\ bundle' = staging /\ staging' = 0 /\ install' = "done"
       \/ Fault /\ install' = "back" /\ UNCHANGED <<bundle, staging>>
    /\ Other(previous)

(* rename(previous, bundle) after a failed swap *)
PutBack ==
    /\ install = "back"
    /\ \/ Fine /\ bundle' = previous /\ previous' = 0
       \/ Fault /\ UNCHANGED <<bundle, previous>>
    /\ Ends
    /\ Other(staging)

(* The previous version is deleted if it can be, and the app is relaunched *)
Relaunch ==
    /\ install = "done" /\ Ends
    /\ \/ Fine /\ previous' = 0
       \/ Fault /\ previous' \in {previous, Partial}
    /\ running' = bundle /\ remembered' = Nothing
    /\ UNCHANGED <<latest, bundle, staging, whole, clock>>

(* The process ends; the person opens the app again if it is there *)
Quit ==
    /\ running # 0
    /\ running' = 0 /\ install' = "idle" /\ remembered' = Nothing
    /\ UNCHANGED <<latest, bundle, staging, previous, whole, faults, clock>>

Reopen ==
    /\ running = 0 /\ Whole(bundle)
    /\ running' = bundle
    /\ UNCHANGED <<latest, bundle, staging, previous, install, whole, faults, clock, remembered>>

-----------------------------------------------------------------------------
UpdateInit ==
    /\ latest = 1 /\ running = 1 /\ bundle = 1
    /\ staging = 0 /\ previous = 0
    /\ install = "idle" /\ whole = TRUE /\ faults = 0
    /\ clock = 0 /\ remembered = Nothing

UpdateNext ==
    \/ Publish \/ Hour \/ Status(TRUE) \/ Status(FALSE)
    \/ Install \/ DownloadFails \/ ClearStaging \/ CopyBundle \/ ClearPrevious
    \/ MoveAside \/ MoveIn \/ PutBack \/ Relaunch \/ Quit \/ Reopen

UpdateSpec == UpdateInit /\ [][UpdateNext]_update

-----------------------------------------------------------------------------
(* replace_bundle: "The old bundle is kept aside until the new one is in     *)
(* place": whatever fails and whenever the process ends, an install that     *)
(* began with a whole app leaves one under its own name or the old one's.    *)
OldKeptUntilNewIsIn == whole => Whole(bundle) \/ Whole(previous)

(* install: a process never finds an older version, or a partial one, under  *)
(* the app's own name than the one it runs.                                  *)
NeverOlder == bundle # 0 => bundle # Partial /\ bundle >= running

(* UpdateCheckService: an answer that an update is available still holds     *)
(* when it is shown again, the relaunch into the update included.            *)
OffersOnlyNewer == remembered.check = "available" => Newer

(* The update, whatever fails and whenever the process ends: a whole app is   *)
(* on the disk, never an older one, and only a newer one is offered.          *)
UpdateInv == OldKeptUntilNewIsIn /\ NeverOlder /\ OffersOnlyNewer
=============================================================================
