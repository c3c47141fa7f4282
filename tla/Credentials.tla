----------------------------- MODULE Credentials ------------------------------
(***************************************************************************)
(* One connection's credential: Rekall's file, the OS keychain it was kept *)
(* in before with what was read of it remembered in memory, the row that   *)
(* says whether one is set, and the calls that store, clear and hand it    *)
(* out.  A store's own call is atomic, under its lock; a service's call is *)
(* cut between the stores and the transaction.                             *)
(***************************************************************************)
EXTENDS Naturals

CONSTANTS
    Credential,     \* what may be stored
    CredCaller,     \* the calls under way at once
    MaxCredCalls,   \* bound: calls begun
    MaxStoreFaults  \* bound: calls of a store that fail

ASSUME CredentialConstants == Credential # {} /\ MaxCredCalls \in Nat /\ MaxStoreFaults \in Nat

VARIABLES
    row,            \* the connection's row: absent, unset or set
    secretFile,     \* the credential in secrets.json
    keychain,       \* the one in the OS keychain
    memory,         \* what RememberingSecretStore keeps of the keychain
    terminal,       \* whether the terminal's credential session is open
    cred,           \* where each call is
    access,         \* granted lines in the access log, and credentials handed out
    prompts,        \* reads of the keychain that found a credential, since a removal
    credCalls, storeFaults, overlapped

credentials == <<row, secretFile, keychain, memory, terminal, cred, access, prompts, credCalls, storeFaults, overlapped>>
stores      == <<secretFile, keychain, memory, prompts>>

NoCredential == "no credential"

CredentialCall   == [pc : {"idle", "put", "removeFile", "removeKeychain", "row", "read", "migrate", "copy", "log"},
           does : {"none", "set", "clear", "delete", "hand out"}, value : Credential \cup {NoCredential}]
AtRest == [pc |-> "idle", does |-> "none", value |-> NoCredential]

Works(c, pc, does) == cred[c].pc = pc /\ cred[c].does \in does
GoesTo(c, pc) == cred' = [cred EXCEPT ![c].pc = pc]
Rests(c)      == cred' = [cred EXCEPT ![c] = AtRest]

Sound  == storeFaults' = storeFaults
Faulty == storeFaults < MaxStoreFaults /\ storeFaults' = storeFaults + 1

Begin(c, pc, does, value) ==
    /\ cred[c].pc = "idle" /\ credCalls < MaxCredCalls
    /\ credCalls' = credCalls + 1
    /\ overlapped' = (overlapped \/ \E d \in CredCaller : cred[d].pc # "idle")
    /\ cred' = [cred EXCEPT ![c] = [pc |-> pc, does |-> does, value |-> value]]

-----------------------------------------------------------------------------
(* set and clear: the row is read first *)
SetCredential(c, v) ==
    /\ row # "absent" /\ Begin(c, "put", "set", v)
    /\ UNCHANGED <<row, stores, terminal, access, storeFaults>>

ClearCredential(c) ==
    /\ row # "absent" /\ Begin(c, "removeFile", "clear", NoCredential)
    /\ UNCHANGED <<row, stores, terminal, access, storeFaults>>

(* ConnectionService::delete: the row goes first, with its access log *)
DeleteConnection(c) ==
    /\ row # "absent" /\ Begin(c, "removeFile", "delete", NoCredential)
    /\ row' = "absent" /\ access' = [access EXCEPT !.log = 0, !.handed = 0]
    /\ UNCHANGED <<stores, terminal, storeFaults>>

(* keep: MigratingSecretStore::put, which is FileSecretStore::put; a failed   *)
(* one ends the call                                                          *)
Keep(c) ==
    /\ Works(c, "put", {"set"})
    /\ \/ Sound /\ secretFile' = cred[c].value /\ GoesTo(c, "row")
       \/ Faulty /\ secretFile' = secretFile /\ Rests(c)
    /\ UNCHANGED <<row, keychain, memory, terminal, access, prompts, credCalls, overlapped>>

(* FileSecretStore::remove *)
RemoveFile(c) ==
    /\ Works(c, "removeFile", {"clear", "delete"})
    /\ \/ Sound /\ secretFile' = NoCredential /\ GoesTo(c, "removeKeychain")
       \/ Faulty /\ secretFile' = secretFile /\ Rests(c)
    /\ UNCHANGED <<row, keychain, memory, terminal, access, prompts, credCalls, overlapped>>

(* Mutant: what is remembered goes only once the keychain has let go *)
RemoveThenForget(c) ==
    /\ Works(c, "removeKeychain", {"clear", "delete"})
    /\ \/ Sound /\ keychain' = NoCredential /\ memory' = memory
          /\ IF cred[c].does = "clear" THEN GoesTo(c, "row") ELSE Rests(c)
       \/ Faulty /\ UNCHANGED <<keychain, memory>> /\ Rests(c)
    /\ UNCHANGED <<row, secretFile, terminal, access, prompts, credCalls, overlapped>>

(* RememberingSecretStore::remove, of the previous store: what is remembered *)
(* goes first                                                                 *)
RemoveKeychain(c) ==
    /\ Works(c, "removeKeychain", {"clear", "delete"})
    /\ memory' = NoCredential /\ prompts' = 0
    /\ \/ Sound /\ keychain' = NoCredential
          /\ IF cred[c].does = "clear" THEN GoesTo(c, "row") ELSE Rests(c)
       \/ Faulty /\ keychain' = keychain /\ Rests(c)
    /\ UNCHANGED <<row, secretFile, terminal, access, credCalls, overlapped>>

(* The transaction of set and clear, refused once the connection is gone *)
WriteRow(c) ==
    /\ Works(c, "row", {"set", "clear"})
    /\ row' = IF row = "absent" THEN row ELSE IF cred[c].does = "set" THEN "set" ELSE "unset"
    /\ Rests(c)
    /\ UNCHANGED <<stores, terminal, access, credCalls, storeFaults, overlapped>>

-----------------------------------------------------------------------------
(* CredentialBroker::open and close: a session for a terminal whose project  *)
(* binds a connection with a credential                                      *)
OpenSession ==
    /\ ~terminal /\ row = "set" /\ terminal' = TRUE
    /\ UNCHANGED <<row, stores, cred, access, credCalls, storeFaults, overlapped>>

CloseSession ==
    /\ terminal /\ terminal' = FALSE
    /\ UNCHANGED <<row, stores, cred, access, credCalls, storeFaults, overlapped>>

(* hand_out: the session is looked up *)
HandOut(c) ==
    /\ terminal /\ Begin(c, "read", "hand out", NoCredential)
    /\ UNCHANGED <<row, stores, terminal, access, storeFaults>>

(* MigratingSecretStore::read: the file, then the previous store if the file *)
(* has none; any other failure is refused                                    *)
ReadFile(c) ==
    /\ Works(c, "read", {"hand out"})
    /\ \/ Sound /\ cred' = [cred EXCEPT ![c].value = secretFile, ![c].pc = IF secretFile = NoCredential THEN "migrate" ELSE "log"]
       \/ Faulty /\ Rests(c)
    /\ UNCHANGED <<row, stores, terminal, access, credCalls, overlapped>>

(* migrate: RememberingSecretStore::read of the previous store *)
ReadKeychain(c) ==
    /\ Works(c, "migrate", {"hand out"})
    /\ LET found == IF memory # NoCredential THEN memory ELSE keychain
       IN  \/ /\ Sound
              /\ cred' = [cred EXCEPT ![c] = IF found = NoCredential THEN AtRest ELSE [@ EXCEPT !.value = found, !.pc = "copy"]]
              /\ memory' = found
              /\ prompts' = IF memory = NoCredential /\ found # NoCredential THEN prompts + 1 ELSE prompts
           \/ Faulty /\ memory = NoCredential /\ Rests(c) /\ UNCHANGED <<memory, prompts>>
    /\ UNCHANGED <<row, secretFile, keychain, terminal, access, credCalls, overlapped>>

(* migrate: what was found is copied across; a failed copy is only logged *)
CopyAcross(c) ==
    /\ Works(c, "copy", {"hand out"}) /\ GoesTo(c, "log")
    /\ \/ Sound /\ secretFile' = cred[c].value
       \/ Faulty /\ secretFile' = secretFile
    /\ UNCHANGED <<row, keychain, memory, terminal, access, prompts, credCalls, overlapped>>

(* record_granted, then the answer; the line of a connection that is gone    *)
(* cannot be written                                                         *)
Grant(c) ==
    /\ Works(c, "log", {"hand out"}) /\ Rests(c)
    /\ \/ Sound /\ access' = IF row = "absent" THEN access ELSE [log |-> access.log + 1, handed |-> access.handed + 1]
       \/ Faulty /\ access' = access
    /\ UNCHANGED <<row, stores, terminal, credCalls, overlapped>>

-----------------------------------------------------------------------------
(* A connection whose credential was kept in the keychain, or a new one *)
CredInit ==
    /\ row \in {"unset", "set"}
    /\ keychain = IF row = "set" THEN CHOOSE v \in Credential : TRUE ELSE NoCredential
    /\ secretFile = NoCredential /\ memory = NoCredential /\ terminal = FALSE
    /\ cred = [c \in CredCaller |-> AtRest]
    /\ access = [log |-> 0, handed |-> 0] /\ prompts = 0
    /\ credCalls = 0 /\ storeFaults = 0 /\ overlapped = FALSE

CredNext ==
    \/ OpenSession \/ CloseSession
    \/ \E c \in CredCaller :
          \/ \E v \in Credential : SetCredential(c, v)
          \/ ClearCredential(c) \/ DeleteConnection(c) \/ HandOut(c)
          \/ Keep(c) \/ RemoveFile(c) \/ RemoveKeychain(c) \/ WriteRow(c)
          \/ ReadFile(c) \/ ReadKeychain(c) \/ CopyAcross(c) \/ Grant(c)

-----------------------------------------------------------------------------
StoredNow == IF secretFile # NoCredential THEN secretFile ELSE keychain
Quiet  == \A c \in CredCaller : cred[c].pc = "idle"

(* clear: "a row that says no credential while the store still has one would *)
(* lie", and MigratingSecretStore: a removal reaches both stores.  Holds     *)
(* when calls do not overlap, whichever of their steps fail.                 *)
RowTellsNoLie == Quiet /\ ~overlapped /\ row = "unset" => StoredNow = NoCredential

(* RememberingSecretStore: what is remembered is what the keychain holds,    *)
(* and a credential is asked of the keychain once until it is removed,       *)
(* however many helpers ask at the same moment.                              *)
RememberedIsStored == memory # NoCredential => memory = keychain
PromptedOnce       == prompts <= 1

(* hand_out: "a credential is handed out only once its line is written",     *)
(* also when the connection is deleted while it is being read.               *)
LoggedBeforeHandedOut == access.handed <= access.log

(* The stored credential, its row, what is remembered of it and the record of *)
(* its use, whichever step of a call fails.                                   *)
CredInv == RowTellsNoLie /\ RememberedIsStored /\ PromptedOnce /\ LoggedBeforeHandedOut
=============================================================================
