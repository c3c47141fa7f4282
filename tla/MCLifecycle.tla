----------------------------- MODULE MCLifecycle -----------------------------
(***************************************************************************)
(* What surrounds the running server, for TLC: restores and backups of the *)
(* database, the registry of database folders, the update of the app, the  *)
(* worktrees on disk, and the copies of the desktop app.  Each is explored *)
(* in behaviours of its own, chosen in the initial state.                  *)
(***************************************************************************)
EXTENDS DatabaseFiles, AppUpdate, Worktrees, DesktopShell

CONSTANTS
    MaxAsked,   \* bound: restart requests waiting at once
    MaxCalls    \* bound: backups and restores begun

VARIABLES started, part

Begun == {c \in DOMAIN call : call[c].pc = "idle" /\ call'[c].pc # "idle"}

InRestore ==
    /\ edit' = edit /\ there' = there
    /\ started' = started + Cardinality(Begun) /\ started' <= MaxCalls

InRegistry ==
    /\ started' = 0 /\ Begun = {}
    /\ now' = now /\ writes' = writes

Init ==
    /\ part \in {"restore", "registry", "update", "trees", "shells"}
    /\ started = 0
    /\ RegistryInit /\ UpdateInit /\ TreesInit /\ ShellInit

Next ==
    /\ part' = part
    /\ \/ /\ part \in {"restore", "registry"} /\ RegistryNext /\ Len(asked') <= MaxAsked
          /\ part = "restore" => InRestore
          /\ part = "registry" => InRegistry
          /\ UNCHANGED <<update, trees, shells>>
       \/ part = "update" /\ UpdateNext /\ UNCHANGED <<registering, trees, shells, started>>
       \/ part = "trees" /\ TreesNext /\ UNCHANGED <<registering, update, shells, started>>
       \/ part = "shells" /\ ShellNext /\ UNCHANGED <<registering, update, trees, started>>

Spec == Init /\ [][Next]_<<registering, update, trees, shells, started, part>>
=============================================================================
