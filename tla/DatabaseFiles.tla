---------------------------- MODULE DatabaseFiles -----------------------------
(***************************************************************************)
(* The database file of each registered folder, its rotating backups, the  *)
(* restore of one of them and the supervisor that closes an instance and   *)
(* opens the next.  What a file or a zip holds is a record: "rekall" for a *)
(* database this build opens, "dangling" for one whose rows point at       *)
(* nothing, "old" for one from before v0.2, "other" for anything else and  *)
(* "torn" for a file whose writing was cut short; n counts the writes that *)
(* made it.  Every call is cut where another thread, the supervisor or a   *)
(* crash can come between.                                                 *)
(***************************************************************************)
EXTENDS Naturals, Sequences, FiniteSets

CONSTANTS
    Folder,      \* the folders on disk a database may live in
    Restorer,    \* the restore calls
    Backer,      \* the backup calls: the schedule's and "Back up now"
    Keep,        \* rekall.backup.keep
    MaxStamp,    \* bound: seconds the clock advances through
    MaxWrites,   \* bound: writes to the open database
    Upload       \* what the uploaded zips may hold

ASSUME FilesConstants ==
    /\ Folder # {}
    /\ Keep \in Nat \ {0}
    /\ MaxStamp \in Nat \ {0} /\ MaxWrites \in Nat \ {0}
    /\ Restorer \cap Backer = {}
    /\ Upload \subseteq {"rekall", "dangling", "old", "other", "torn"}

VARIABLES
    file,        \* the database file of each folder
    staged,      \* its .restoring file
    zips,        \* the zips in its backups folder
    now,         \* the clock, in the seconds a name's stamp has
    writes,      \* writes made so far
    writing,     \* the calls holding the backup mutex
    call,        \* where each backup and restore call is
    sup,         \* where the supervisor is
    open,        \* the folder the instance has open; {} for the in-memory database
    asked,       \* the restart requests not yet taken
    taken,       \* the restart request being served
    registry,    \* config.json: the registered folders and which one is active
    there        \* the folders that can be reached

files == <<file, staged, zips, now, writes, writing, call, sup, open, asked, taken, registry, there>>

Reason  == {"auto", "before-restore", "manual", "uploaded"}
Content == [is : {"none", "rekall", "dangling", "old", "other", "torn"}, n : Nat]
NoFile  == [is |-> "none", n |-> 0]
Torn    == [is |-> "torn", n |-> 0]

(* A zip's name: the second it was written, the attempt that found the name *)
(* free and the reason.                                                     *)
Name   == [at : Nat, attempt : Nat, why : Reason]
NoName == [at |-> 0, attempt |-> 0, why |-> "auto"]
Zip    == [name : Name, holds : Content]

Order(why) == CASE why = "auto" -> 1 [] why = "before-restore" -> 2 [] why = "manual" -> 3 [] why = "uploaded" -> 4

(* b.name.cmp(&a.name): names compare as text, so within a second the first *)
(* name, which has no attempt in it, comes above every later one.           *)
Above(a, b) ==
    \/ a.at > b.at
    \/ /\ a.at = b.at
       /\ \/ a.attempt = 0 /\ b.attempt # 0
          \/ a.attempt > b.attempt /\ b.attempt # 0
          \/ a.attempt = b.attempt /\ Order(a.why) > Order(b.why)

Named(f) == {z.name : z \in zips[f]}

(* fresh_name: the first attempt no file has *)
FreshName(f, why) ==
    LET free == {i \in 0 .. Cardinality(zips[f]) : [at |-> now, attempt |-> i, why |-> why] \notin Named(f)}
    IN  [at |-> now, attempt |-> CHOOSE i \in free : \A j \in free : i <= j, why |-> why]

With(kept, name, holds) == {z \in kept : z.name # name} \cup {[name |-> name, holds |-> holds]}
Without(kept, name)     == {z \in kept : z.name # name}

(* DatabaseBackupService::prune *)
Prune(kept) == {z \in kept : Cardinality({y \in kept : Above(y.name, z.name)}) < Keep}

(* A call: the folder its instance had open, whether that instance has      *)
(* closed, the zip it restores and whether it keeps an upload there, the    *)
(* name and content of the backup it writes.                                *)
Call == [pc : {"idle", "keep", "extract", "copying", "check", "lock", "vacuum", "zip", "zipping", "send"},
         at : Folder, late : BOOLEAN, from : Name, uploaded : BOOLEAN, holds : Content, name : Name, copy : Content]
Request == [swaps : BOOLEAN, at : Folder, checked : Content, safe : Nat]

(* config.json: absent, cut short, or the entries and the active one's id *)
Registry   == [is : {"none", "torn", "whole"}, active : Nat, entries : SUBSET [id : Nat, at : Folder]]
NoRegistry == [is |-> "none", active |-> 0, entries |-> {}]
ActiveIn(reg) == {e.at : e \in {d \in reg.entries : d.id = reg.active}}

Somewhere == CHOOSE f \in Folder : TRUE
IdleCall  == [pc |-> "idle", at |-> Somewhere, late |-> FALSE, from |-> NoName, uploaded |-> FALSE,
              holds |-> NoFile, name |-> NoName, copy |-> NoFile]
NoRequest == [swaps |-> FALSE, at |-> Somewhere, checked |-> NoFile, safe |-> 0]

Serving == sup \in {"up", "delay"}
PoolOpen(c) == Serving /\ ~call[c].late
CanRestart(c) == ~call[c].late /\ sup \in {"up", "delay", "closed"}

Go(c, pc) == call' = [call EXCEPT ![c].pc = pc]

-----------------------------------------------------------------------------
(* The instance's own writes, and the clock *)

Write ==
    /\ Serving /\ open # {} /\ writes < MaxWrites
    /\ writes' = writes + 1
    /\ file' = [f \in Folder |-> IF f \in open THEN [file[f] EXCEPT !.n = writes + 1] ELSE file[f]]
    /\ UNCHANGED <<staged, zips, now, writing, call, sup, open, asked, taken, registry, there>>

Tick ==
    /\ now < MaxStamp
    /\ now' = now + 1
    /\ UNCHANGED <<file, staged, zips, writes, writing, call, sup, open, asked, taken, registry, there>>

-----------------------------------------------------------------------------
(* Backups *)

(* back_up_now, and back_up_if_due when the newest backup is older than the *)
(* interval, here one second                                                *)
Due(f) == \A name \in Named(f) : name.at + 1 < now

BackUp(b, f, why) ==
    /\ Serving /\ open = {f} /\ call[b].pc = "idle"
    /\ why = "auto" => Due(f)
    /\ call' = [call EXCEPT ![b] = [IdleCall EXCEPT !.pc = "lock", !.at = f, !.name.why = why]]
    /\ UNCHANGED <<file, staged, zips, now, writes, writing, sup, open, asked, taken, registry, there>>

(* The mutex, then the name *)
Lock(c) ==
    LET f == call[c].at
        why == IF c \in Restorer THEN "before-restore" ELSE call[c].name.why
    IN  /\ call[c].pc = "lock" /\ writing = {}
        /\ writing' = writing \cup {c}
        /\ call' = [call EXCEPT ![c].pc = "vacuum", ![c].name = FreshName(f, why)]
        /\ UNCHANGED <<file, staged, zips, now, writes, sup, open, asked, taken, registry, there>>

(* What a call that is refused leaves: an upload it kept is deleted *)
Dropped(c, kept) == IF call[c].uploaded THEN Without(kept, call[c].from) ELSE kept

(* back_up returned Err: a restore deletes its staged file and is refused *)
Refuse(c, kept) ==
    LET f == call[c].at
    IN  /\ zips' = [zips EXCEPT ![f] = Dropped(c, kept)]
        /\ staged' = IF c \in Restorer THEN [staged EXCEPT ![f] = NoFile] ELSE staged
        /\ call' = [call EXCEPT ![c] = IdleCall]

Vacuum(c) ==
    /\ call[c].pc = "vacuum"
    /\ \/ /\ PoolOpen(c)
          /\ call' = [call EXCEPT ![c].pc = "zip", ![c].copy = file[call[c].at]]
          /\ UNCHANGED <<staged, zips, writing>>
       \/ Refuse(c, zips[call[c].at]) /\ writing' = writing \ {c}
    /\ UNCHANGED <<file, now, writes, sup, open, asked, taken, registry, there>>

(* zip_single creates the zip under its own name *)
ZipStarts(c) ==
    LET f == call[c].at
    IN  /\ call[c].pc = "zip"
        /\ zips' = [zips EXCEPT ![f] = With(@, call[c].name, Torn)]
        /\ Go(c, "zipping")
        /\ UNCHANGED <<file, staged, now, writes, writing, sup, open, asked, taken, registry, there>>

(* Mutant: a safety backup that failed does not stop the restore *)
ZipEndsAnyway(c) ==
    LET f == call[c].at
    IN  /\ call[c].pc = "zipping"
        /\ writing' = writing \ {c}
        /\ zips' = [zips EXCEPT ![f] = Without(@, call[c].name)]
        /\ IF c \in Restorer THEN Go(c, "send") ELSE call' = [call EXCEPT ![c] = IdleCall]
        /\ UNCHANGED <<file, staged, now, writes, sup, open, asked, taken, registry, there>>

(* The zip is whole and the oldest past keep are pruned, or it is removed;  *)
(* back_up fails too when pruning took the zip it wrote.                    *)
ZipEnds(c) ==
    LET f == call[c].at
        kept == Prune(With(zips[f], call[c].name, call[c].copy))
        done == call[c].name \in {z.name : z \in kept}
    IN  /\ call[c].pc = "zipping"
        /\ writing' = writing \ {c}
        /\ \/ /\ done
              /\ zips' = [zips EXCEPT ![f] = kept]
              /\ IF c \in Restorer THEN Go(c, "send") ELSE call' = [call EXCEPT ![c] = IdleCall]
              /\ UNCHANGED staged
           \/ ~done /\ Refuse(c, kept)
           \/ Refuse(c, Without(zips[f], call[c].name))
        /\ UNCHANGED <<file, now, writes, sup, open, asked, taken, registry, there>>

-----------------------------------------------------------------------------
(* Restores *)

(* restore: a backup of the folder, by its name *)
Restore(r, f) ==
    /\ Serving /\ open = {f} /\ call[r].pc = "idle"
    /\ \E name \in Named(f) :
          call' = [call EXCEPT ![r] = [IdleCall EXCEPT !.pc = "extract", !.at = f, !.from = name]]
    /\ UNCHANGED <<file, staged, zips, now, writes, writing, sup, open, asked, taken, registry, there>>

(* restore_upload, restore_file: a name for the upload, then the copy *)
RestoreFile(r, f) ==
    /\ Serving /\ open = {f} /\ call[r].pc = "idle"
    /\ \E is \in Upload :
          call' = [call EXCEPT ![r] = [IdleCall EXCEPT !.pc = "keep", !.at = f, !.uploaded = TRUE,
                                                      !.from = FreshName(f, "uploaded"), !.holds = [is |-> is, n |-> 0]]]
    /\ UNCHANGED <<file, staged, zips, now, writes, writing, sup, open, asked, taken, registry, there>>

KeepUpload(r) ==
    /\ call[r].pc = "keep"
    /\ zips' = [zips EXCEPT ![call[r].at] = With(@, call[r].from, call[r].holds)]
    /\ Go(r, "extract")
    /\ UNCHANGED <<file, staged, now, writes, writing, sup, open, asked, taken, registry, there>>

(* extract_database: the zip is gone or holds no one database, or the       *)
(* staged file is created and so emptied.                                   *)
Extract(r) ==
    LET f == call[r].at
        held == {z \in zips[f] : z.name = call[r].from}
    IN  /\ call[r].pc = "extract"
        /\ \/ /\ \A z \in held : z.holds.is = "torn"
              /\ zips' = [zips EXCEPT ![f] = Dropped(r, @)]
              /\ call' = [call EXCEPT ![r] = IdleCall]
              /\ UNCHANGED staged
           \/ \E z \in held :
              /\ z.holds.is # "torn"
              /\ staged' = [staged EXCEPT ![f] = Torn]
              /\ call' = [call EXCEPT ![r].pc = "copying", ![r].holds = z.holds]
              /\ UNCHANGED zips
        /\ UNCHANGED <<file, now, writes, writing, sup, open, asked, taken, registry, there>>

(* The entry is copied out; a file that does not start as SQLite's do, the  *)
(* one another restore has emptied or deleted included, is refused.         *)
Copied(r) ==
    LET f == call[r].at
        mixed == \E q \in Restorer \ {r} : call[q].pc = "copying" /\ call[q].at = f
        gone == staged[f] = NoFile
        results == IF gone THEN {NoFile} ELSE IF mixed THEN {call[r].holds, Torn} ELSE {call[r].holds}
    IN  /\ call[r].pc = "copying"
        /\ \E out \in results :
              IF out.is \in {"none", "other"}
              THEN Refuse(r, zips[f])
              ELSE staged' = [staged EXCEPT ![f] = out] /\ Go(r, "check") /\ UNCHANGED zips
        /\ UNCHANGED <<file, now, writes, writing, sup, open, asked, taken, registry, there>>

(* check_openable reads the history of migrations only *)
Openable(content) == content.is \in {"rekall", "dangling"}

CheckOpenable(r) ==
    LET f == call[r].at
    IN  /\ call[r].pc = "check"
        /\ \/ (staged[f].is = "torn" \/ Openable(staged[f])) /\ CanRestart(r)
              /\ call' = [call EXCEPT ![r].pc = "lock", ![r].holds = staged[f]]
              /\ UNCHANGED <<zips, staged>>
           \/ (~Openable(staged[f]) \/ ~CanRestart(r)) /\ Refuse(r, zips[f])
        /\ UNCHANGED <<file, now, writes, writing, sup, open, asked, taken, registry, there>>

(* restart_with: the swap is scheduled, or nothing listens any more *)
Send(r) ==
    LET f == call[r].at
    IN  /\ call[r].pc = "send"
        /\ \/ /\ CanRestart(r)
              /\ asked' = Append(asked, [swaps |-> TRUE, at |-> f, checked |-> call[r].holds, safe |-> call[r].copy.n])
              /\ call' = [call EXCEPT ![r] = IdleCall]
              /\ UNCHANGED <<zips, staged>>
           \/ ~CanRestart(r) /\ Refuse(r, zips[f]) /\ UNCHANGED asked
        /\ UNCHANGED <<file, now, writes, writing, sup, open, taken, registry, there>>

-----------------------------------------------------------------------------
(* The supervisor *)

(* open_database: the file is created if absent, and one whose rows point   *)
(* at nothing, or that is no database, is refused by the migration run.     *)
Opens(f) == file[f].is \in {"none", "rekall"}

(* resolve: with no registry, a database in the folder beside the app is    *)
(* adopted; otherwise the active folder is used if it is there.             *)
Resolved ==
    IF registry.is = "none" /\ file[Somewhere] # NoFile /\ Somewhere \in there
    THEN [is |-> "whole", active |-> 1, entries |-> {[id |-> 1, at |-> Somewhere]}]
    ELSE registry

(* open_instance: the active folder's database, or the in-memory one.  A    *)
(* call of the instance before is late from here on.                        *)
OpenInstance ==
    /\ sup = "opening"
    /\ registry' = Resolved
    /\ LET at == ActiveIn(Resolved) \cap there
       IN  IF registry.is = "torn" \/ \E f \in at : ~Opens(f)
           THEN sup' = "failed" /\ UNCHANGED <<file, open>>
           ELSE /\ sup' = "up" /\ open' = at
                /\ file' = [f \in Folder |-> IF f \in at /\ file[f] = NoFile
                                              THEN [is |-> "rekall", n |-> 0] ELSE file[f]]
    /\ asked' = <<>> /\ taken' = NoRequest
    /\ call' = [c \in DOMAIN call |-> IF call[c].pc = "idle" THEN call[c] ELSE [call[c] EXCEPT !.late = TRUE]]
    /\ UNCHANGED <<staged, zips, now, writes, writing, there>>

(* The first restart request is taken; the delay lets its answer out *)
TakeRequest ==
    /\ sup = "up" /\ asked # <<>>
    /\ taken' = Head(asked) /\ asked' = Tail(asked)
    /\ sup' = "delay"
    /\ UNCHANGED <<file, staged, zips, now, writes, writing, call, open, registry, there>>

(* The hooks run, every request in flight is answered or shutdown_timeout   *)
(* passes, and the pool closes.                                             *)
Close ==
    /\ sup = "delay"
    /\ sup' = "closed"
    /\ UNCHANGED <<file, staged, zips, now, writes, writing, call, open, asked, taken, registry, there>>

(* swap: the staged file is moved over the database; a move that fails      *)
(* leaves the database and deletes the staged file.                         *)
Swap(f) ==
    \/ staged[f] # NoFile /\ file' = [file EXCEPT ![f] = staged[f]] /\ staged' = [staged EXCEPT ![f] = NoFile]
    \/ file' = file /\ staged' = [staged EXCEPT ![f] = NoFile]

AfterClose ==
    /\ sup = "closed"
    /\ IF taken.swaps THEN Swap(taken.at) ELSE UNCHANGED <<file, staged>>
    /\ sup' = "opening"
    /\ UNCHANGED <<zips, now, writes, writing, call, open, asked, taken, registry, there>>

(* The process ends without a word and is started again *)
Crash ==
    /\ sup # "failed"
    /\ sup' = "opening"
    /\ writing' = {} /\ asked' = <<>> /\ taken' = NoRequest
    /\ call' = [c \in DOMAIN call |-> IdleCall]
    /\ UNCHANGED <<file, staged, zips, now, writes, open, registry, there>>

(* A drive is unplugged or plugged in *)
Replug(f) ==
    /\ there' = IF f \in there THEN there \ {f} ELSE there \cup {f}
    /\ f \notin open
    /\ UNCHANGED <<file, staged, zips, now, writes, writing, call, sup, open, asked, taken, registry>>

-----------------------------------------------------------------------------
(* A database in a registered folder, or in the folder beside the app from  *)
(* before folders were registered                                           *)
FilesInit ==
    /\ file = [f \in Folder |-> IF f = Somewhere THEN [is |-> "rekall", n |-> 0] ELSE NoFile]
    /\ staged = [f \in Folder |-> NoFile]
    /\ zips = [f \in Folder |-> {}]
    /\ now = 1 /\ writes = 0
    /\ writing = {}
    /\ call = [c \in Restorer \cup Backer |-> IdleCall]
    /\ sup = "opening" /\ open = {}
    /\ asked = <<>> /\ taken = NoRequest
    /\ registry \in {NoRegistry, [is |-> "whole", active |-> 1, entries |-> {[id |-> 1, at |-> Somewhere]}]}
    /\ there = Folder

FilesStep ==
    \/ Write \/ Tick
    \/ \E b \in Backer, f \in Folder, why \in {"auto", "manual"} : BackUp(b, f, why)
    \/ \E c \in Restorer \cup Backer : Lock(c) \/ Vacuum(c) \/ ZipStarts(c) \/ ZipEnds(c)
    \/ \E r \in Restorer :
          \/ \E f \in Folder : Restore(r, f) \/ RestoreFile(r, f)
          \/ KeepUpload(r) \/ Extract(r) \/ Copied(r) \/ CheckOpenable(r) \/ Send(r)
    \/ OpenInstance \/ TakeRequest \/ Close \/ AfterClose
    \/ \E f \in Folder : Replug(f)

-----------------------------------------------------------------------------
(* The state of the files, the calls and the supervisor is well formed, and *)
(* no name is two zips of a folder.                                         *)
FilesTypeOK ==
    /\ \A f \in Folder : file[f] \in Content /\ staged[f] \in Content /\ zips[f] \subseteq Zip
    /\ \A f \in Folder : \A y, z \in zips[f] : y.name = z.name => y = z
    /\ call \in [Restorer \cup Backer -> Call]
    /\ Cardinality(writing) <= 1
    /\ sup \in {"opening", "up", "delay", "closed", "failed"}
    /\ registry \in Registry

Swapped == sup = "closed" /\ sup' = "opening" /\ taken.swaps /\ staged[taken.at] # NoFile /\ file' # file

(* The safety backup: when a restore replaces the database, the folder still *)
(* has a whole backup of it, no older than the one the restore answered with. *)
PreviousStateKept ==
    [][Swapped => \E z \in zips[taken.at] : z.holds.is = file[taken.at].is /\ z.holds.n >= taken.safe]_files

-----------------------------------------------------------------------------
(***************************************************************************)
(* The settings screen's calls on the registry of database folders: each   *)
(* reads config.json, decides on what it read and writes the file whole,   *)
(* with no lock between two of them.  Writing first empties the file.      *)
(***************************************************************************)

CONSTANT Editor    \* the calls; a call's number is the id its entry would get

ASSUME EditorConstants == Editor \subseteq Nat \ {0, 1}

VARIABLE edit      \* where each call is, and the registry it is about to write

registering == <<files, edit>>

Edit     == [pc : {"idle", "empty", "write", "done"}, next : Registry, restarts : BOOLEAN, late : BOOLEAN]
IdleEdit == [pc |-> "idle", next |-> NoRegistry, restarts |-> FALSE, late |-> FALSE]

Will(e, next, restarts) ==
    /\ Serving /\ edit[e].pc = "idle" /\ registry.is # "torn"
    /\ edit' = [edit EXCEPT ![e] = [IdleEdit EXCEPT !.pc = "empty", !.next = next, !.restarts = restarts]]
    /\ UNCHANGED files

Ids == {d.id : d \in registry.entries}

(* DatabaseFolderService::add, of a folder that is there *)
Add(e, f) ==
    /\ f \in there
    /\ Will(e, [is |-> "whole", active |-> e, entries |-> registry.entries \cup {[id |-> e, at |-> f]}], TRUE)

(* activate: a registered folder that is reachable *)
Activate(e, id) ==
    /\ \E d \in registry.entries : d.id = id /\ d.at \in there
    /\ Will(e, [registry EXCEPT !.active = id], TRUE)

(* rename: the entries as they were read, one with another label *)
Rename(e, id) == id \in Ids /\ Will(e, registry, FALSE)

(* Mutant: the database in use may be forgotten too *)
ForgetAny(e, id) ==
    /\ id \in Ids
    /\ Will(e, [registry EXCEPT !.entries = {d \in @ : d.id # id}], FALSE)

(* forget: any but the active one *)
Forget(e, id) ==
    /\ id \in Ids /\ id # registry.active
    /\ Will(e, [registry EXCEPT !.entries = {d \in @ : d.id # id}], FALSE)

(* DatabaseRegistryStore::write: the file is emptied, then written *)
WriteEmpties(e) ==
    /\ edit[e].pc = "empty"
    /\ registry' = [NoRegistry EXCEPT !.is = "torn"]
    /\ edit' = [edit EXCEPT ![e].pc = "write"]
    /\ UNCHANGED <<file, staged, zips, now, writes, writing, call, sup, open, asked, taken, there>>

(* The registry is whole again; add and activate ask for the restart *)
WriteEnds(e) ==
    /\ edit[e].pc = "write"
    /\ registry' = edit[e].next
    /\ asked' = IF edit[e].restarts /\ ~edit[e].late /\ sup \in {"up", "delay", "closed"} THEN Append(asked, NoRequest) ELSE asked
    /\ edit' = [edit EXCEPT ![e] = [IdleEdit EXCEPT !.pc = "done"]]
    /\ UNCHANGED <<file, staged, zips, now, writes, writing, call, sup, open, taken, there>>

-----------------------------------------------------------------------------
RegistryInit ==
    /\ FilesInit
    /\ edit = [e \in Editor |-> IdleEdit]

Aged == [e \in Editor |-> IF edit[e].pc \in {"empty", "write"} THEN [edit[e] EXCEPT !.late = TRUE] ELSE edit[e]]

RegistryNext ==
    \/ FilesStep /\ edit' = IF sup = "opening" /\ sup' # sup THEN Aged ELSE edit
    \/ Crash /\ edit' = [e \in Editor |-> [IdleEdit EXCEPT !.pc = "done"]]
    \/ \E e \in Editor :
          \/ \E f \in Folder : Add(e, f)
          \/ \E id \in Editor \cup {1} : Activate(e, id) \/ Rename(e, id) \/ Forget(e, id)
          \/ WriteEmpties(e) \/ WriteEnds(e)

RegistrySpec == RegistryInit /\ [][RegistryNext]_registering

-----------------------------------------------------------------------------
(* DatabaseFolderService::forget: however the calls overlap, a registry that *)
(* can be read names one of its own entries as active, so a start always     *)
(* finds the database it was told to use.                                    *)
ActiveIsRegistered ==
    registry.is = "whole" /\ registry.active # 0 => registry.active \in Ids

(* The database folders and their registry, however restores, backups, edits *)
(* and restarts overlap.                                                      *)
FilesInv == FilesTypeOK /\ ActiveIsRegistered
=============================================================================
