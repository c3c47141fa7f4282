----------------------------- MODULE OutsideProofs -----------------------------
(***************************************************************************)
(* Proofs about what Rekall does with the world outside its database: the  *)
(* credential of a connection and the stores it is kept in, the automatic  *)
(* commits made while others work in the same folder, and the exposures of *)
(* projects to advisories.                                                 *)
(***************************************************************************)
EXTENDS Commits, Vulnerabilities, Credentials, TLAPS

USE Zenon

-----------------------------------------------------------------------------
(* One connection's credential *)

CredSpec == CredInit /\ [][CredNext]_credentials

Secret == Credential \cup {NoCredential}

CredShape ==
    /\ row \in {"absent", "unset", "set"}
    /\ secretFile \in Secret /\ keychain \in Secret /\ memory \in Secret
    /\ cred \in [CredCaller -> CredentialCall]
    /\ access \in [log : Nat, handed : Nat]
    /\ prompts \in Nat

Nothing == secretFile = NoCredential /\ keychain = NoCredential

(* While calls do not overlap: what a row without a credential is about to    *)
(* become, and how far a removal has come                                     *)
OneAtATime ==
    ~overlapped =>
       /\ \A c, d \in CredCaller : c = d \/ cred[c].pc = "idle" \/ cred[d].pc = "idle"
       /\ row = "unset" => Nothing \/ \E c \in CredCaller : Works(c, "row", {"set"})
       /\ \A c \in CredCaller :
             /\ cred[c].pc = "copy" => row # "unset"
             /\ cred[c].pc = "removeKeychain" => secretFile = NoCredential
             /\ Works(c, "row", {"clear"}) => Nothing

AskedAtMostOnce == prompts <= 1 /\ (memory = NoCredential => prompts = 0)

CredHold == CredShape /\ OneAtATime /\ RememberedIsStored /\ AskedAtMostOnce /\ LoggedBeforeHandedOut

(* What is kept holds what the run checks.                                   *)
LEMMA CredSound == CredHold => CredInv
<1>. SUFFICES ASSUME CredHold PROVE CredInv
  OBVIOUS
<1>1. RowTellsNoLie
  BY DEF CredHold, OneAtATime, RowTellsNoLie, Quiet, Works, Nothing, StoredNow
<1>. QED  BY <1>1 DEF CredHold, AskedAtMostOnce, PromptedOnce, CredInv

(* A call put in its caller's place, wherever it was.                        *)
LEMMA CallPut ==
    ASSUME CredShape, NEW c \in CredCaller, NEW r \in CredentialCall, cred' = [cred EXCEPT ![c] = r]
    PROVE  /\ cred' \in [CredCaller -> CredentialCall] /\ cred'[c] = r
           /\ \A d \in CredCaller \ {c} : cred'[d] = cred[d]
BY DEF CredShape

(* A call that goes on to its next place keeps what it does and carries.     *)
LEMMA CallGoes ==
    ASSUME CredShape, NEW c \in CredCaller, NEW pc,
           pc \in {"row", "removeKeychain", "log"}, GoesTo(c, pc)
    PROVE  /\ cred' \in [CredCaller -> CredentialCall]
           /\ cred'[c].pc = pc /\ cred'[c].does = cred[c].does
           /\ \A d \in CredCaller \ {c} : cred'[d] = cred[d]
<1>1. PICK r : r = [cred[c] EXCEPT !.pc = pc]
  OBVIOUS
<1>2. cred[c] \in CredentialCall
  BY DEF CredShape
<1>3. r \in CredentialCall /\ r.pc = pc /\ r.does = cred[c].does
  BY <1>1, <1>2 DEF CredentialCall
<1>4. cred' = [cred EXCEPT ![c] = r]
  BY <1>1 DEF GoesTo
<1>. QED  BY <1>3, <1>4, CallPut

(* A call that is over.                                                      *)
LEMMA CallRests ==
    ASSUME CredShape, NEW c \in CredCaller, Rests(c)
    PROVE  /\ cred' \in [CredCaller -> CredentialCall] /\ cred'[c].pc = "idle"
           /\ \A d \in CredCaller \ {c} : cred'[d] = cred[d]
<1>1. AtRest \in CredentialCall /\ AtRest.pc = "idle"
  BY DEF AtRest, CredentialCall
<1>. QED  BY <1>1, CallPut DEF Rests

(* How far the call c has come with the row and the stores, as a removal or  *)
(* a migration leaves them.                                                  *)
FarAs(c) ==
    /\ row = "unset" => Nothing \/ Works(c, "row", {"set"})
    /\ cred[c].pc = "copy" => row # "unset"
    /\ cred[c].pc = "removeKeychain" => secretFile = NoCredential
    /\ Works(c, "row", {"clear"}) => Nothing

(* A call under way that overlaps no other is the only one.                  *)
LEMMA AloneBefore ==
    ASSUME OneAtATime, ~overlapped, NEW c \in CredCaller, cred[c].pc # "idle"
    PROVE  FarAs(c) /\ \A d \in CredCaller \ {c} : cred[d].pc = "idle"
BY DEF OneAtATime, FarAs, Works

(* So a step of it has to answer for itself alone.                           *)
LEMMA AloneAfter ==
    ASSUME OneAtATime, NEW c \in CredCaller, cred[c].pc # "idle", overlapped' = overlapped,
           \A d \in CredCaller \ {c} : cred'[d] = cred[d],
           ~overlapped => FarAs(c)'
    PROVE  OneAtATime'
<1>1. SUFFICES ASSUME ~overlapped
      PROVE  OneAtATime'
  BY DEF OneAtATime
<1>2. \A d \in CredCaller \ {c} : cred'[d].pc = "idle"
  BY <1>1, AloneBefore
<1>. QED  BY <1>1, <1>2 DEF OneAtATime, FarAs, Works, Nothing

(* What a call leaves as it was when its step is neither a removal nor a read *)
(* of the keychain.                                                           *)
KeychainStays == UNCHANGED <<keychain, memory, prompts>>

(* The access log of a connection that is gone.                              *)
LEMMA NoAccess ==
    ASSUME NEW a \in [log : Nat, handed : Nat], NEW b, b = [a EXCEPT !.log = 0, !.handed = 0]
    PROVE  b \in [log : Nat, handed : Nat] /\ b.handed <= b.log
<1>1. b = [log |-> 0, handed |-> 0]
  OBVIOUS
<1>. QED  BY <1>1, SMTT(60)

(* A call begins: alone, or from then on calls have overlapped.              *)
LEMMA BeginHolds ==
    ASSUME CredHold, NEW c \in CredCaller, NEW pc \in {"put", "removeFile", "read"},
           NEW does \in {"set", "clear", "delete", "hand out"}, NEW v \in Secret,
           Begin(c, pc, does, v), row' \in {row, "absent"},
           access' \in {access, [access EXCEPT !.log = 0, !.handed = 0]}, UNCHANGED stores
    PROVE  CredHold'
<1>1. PICK r \in CredentialCall : r = [pc |-> pc, does |-> does, value |-> v] /\ r.pc = pc
  <2>1. [pc |-> pc, does |-> does, value |-> v] \in CredentialCall
    BY DEF CredentialCall, Secret
  <2>. QED  BY <2>1
<1>2. /\ cred' \in [CredCaller -> CredentialCall] /\ cred'[c] = r
      /\ \A d \in CredCaller \ {c} : cred'[d] = cred[d]
  BY <1>1, CallPut DEF Begin, CredHold
<1>3. row' \in {"absent", "unset", "set"} /\ UNCHANGED <<secretFile, keychain, memory, prompts>>
  BY DEF CredHold, CredShape, stores
<1>4. access' \in [log : Nat, handed : Nat] /\ access'.handed <= access'.log
  <2>1. access \in [log : Nat, handed : Nat] /\ access.handed <= access.log
    BY DEF CredHold, CredShape, LoggedBeforeHandedOut
  <2>. QED  BY <2>1, NoAccess
<1>5. CredShape' /\ RememberedIsStored' /\ AskedAtMostOnce' /\ LoggedBeforeHandedOut'
  BY <1>2, <1>3, <1>4 DEF CredHold, CredShape, RememberedIsStored, AskedAtMostOnce, LoggedBeforeHandedOut
<1>6. OneAtATime'
  <2>1. SUFFICES ASSUME ~overlapped' PROVE OneAtATime'
    BY DEF OneAtATime
  <2>2. ~overlapped /\ \A d \in CredCaller : cred[d].pc = "idle"
    BY <2>1 DEF Begin
  <2>3. row = "unset" => Nothing
    BY <2>2 DEF CredHold, OneAtATime, Works
  <2>4. row' = "unset" => Nothing'
    BY <1>3, <2>3 DEF Nothing
  <2>. QED  BY <1>1, <1>2, <2>2, <2>4, ZenonT(60) DEF OneAtATime, Works
<1>. QED  BY <1>5, <1>6 DEF CredHold

(* A call that writes to the file or to the row.                             *)
LEMMA WriterHolds ==
    ASSUME CredHold, NEW c \in CredCaller, Keep(c) \/ RemoveFile(c) \/ WriteRow(c)
    PROVE  CredHold'
<1>1. /\ cred' \in [CredCaller -> CredentialCall] /\ cred[c].pc # "idle" /\ overlapped' = overlapped
      /\ \A d \in CredCaller \ {c} : cred'[d] = cred[d]
  BY CallGoes, CallRests DEF Keep, RemoveFile, WriteRow, Works, CredHold
<1>2. KeychainStays /\ access' = access
  BY DEF Keep, RemoveFile, WriteRow, KeychainStays, stores
<1>3. secretFile' \in Secret /\ row' \in {"absent", "unset", "set"}
  BY DEF Keep, RemoveFile, WriteRow, stores, CredHold, CredShape, CredentialCall, Secret
<1>4. CredShape' /\ RememberedIsStored' /\ AskedAtMostOnce' /\ LoggedBeforeHandedOut'
  BY <1>1, <1>2, <1>3 DEF CredHold, CredShape, RememberedIsStored, AskedAtMostOnce, LoggedBeforeHandedOut, KeychainStays
<1>5. ASSUME ~overlapped PROVE FarAs(c)'
  <2>1. FarAs(c) /\ cred[c] \in CredentialCall
    BY <1>1, <1>5, AloneBefore DEF CredHold, CredShape
  <2>2. CASE Keep(c)
    BY <1>2, <2>1, <2>2, CallGoes, CallRests DEF Keep, Works, FarAs, Nothing, KeychainStays, CredHold
  <2>3. CASE RemoveFile(c)
    BY <1>2, <2>1, <2>3, CallGoes, CallRests DEF RemoveFile, Works, FarAs, Nothing, KeychainStays, CredHold
  <2>4. CASE WriteRow(c)
    BY <1>2, <2>1, <2>4, CallRests DEF WriteRow, Works, FarAs, Nothing, KeychainStays, CredHold, stores
  <2>. QED  BY <2>2, <2>3, <2>4
<1>6. OneAtATime'
  BY <1>1, <1>5, AloneAfter DEF CredHold
<1>. QED  BY <1>4, <1>6 DEF CredHold

(* The keychain's removal forgets first, and a clear has then reached both    *)
(* stores.                                                                    *)
LEMMA RemovalHolds ==
    ASSUME CredHold, NEW c \in CredCaller, RemoveKeychain(c)
    PROVE  CredHold'
<1>1. /\ cred' \in [CredCaller -> CredentialCall] /\ cred[c].pc # "idle" /\ overlapped' = overlapped
      /\ \A d \in CredCaller \ {c} : cred'[d] = cred[d]
  BY CallGoes, CallRests DEF RemoveKeychain, Works, CredHold
<1>2. memory' = NoCredential /\ prompts' = 0 /\ UNCHANGED <<row, secretFile, access>> /\ keychain' \in {keychain, NoCredential}
  BY DEF RemoveKeychain
<1>3. CredShape' /\ RememberedIsStored' /\ AskedAtMostOnce' /\ LoggedBeforeHandedOut'
  BY <1>1, <1>2, SMTT(60) DEF CredHold, CredShape, Secret, RememberedIsStored, AskedAtMostOnce, LoggedBeforeHandedOut
<1>4. ASSUME ~overlapped PROVE FarAs(c)'
  <2>1. FarAs(c) /\ secretFile = NoCredential /\ Works(c, "removeKeychain", {"clear", "delete"})
    BY <1>1, <1>4, AloneBefore DEF CredHold, FarAs, RemoveKeychain, Works
  <2>2. CASE keychain' = NoCredential /\ GoesTo(c, "row")
    BY <1>2, <2>1, <2>2, CallGoes DEF Works, FarAs, Nothing, CredHold
  <2>3. CASE Rests(c)
    BY <1>2, <2>1, <2>3, CallRests DEF Works, FarAs, Nothing, CredHold
  <2>. QED  BY <2>2, <2>3 DEF RemoveKeychain
<1>5. OneAtATime'
  BY <1>1, <1>4, AloneAfter DEF CredHold
<1>. QED  BY <1>3, <1>5 DEF CredHold

(* The places a hand-out takes with what it read.                            *)
LEMMA ReaderMoves ==
    ASSUME CredShape, NEW c \in CredCaller, NEW v \in Secret, NEW pc \in {"migrate", "log", "copy"}
    PROVE  LET r == [cred[c] EXCEPT !.value = v, !.pc = pc]
           IN  r \in CredentialCall /\ r.pc = pc /\ r.does = cred[c].does
BY DEF CredShape, CredentialCall, Secret

(* A read of the file: what it holds, or on to the keychain.                 *)
LEMMA ReadFileHolds ==
    ASSUME CredHold, NEW c \in CredCaller, ReadFile(c)
    PROVE  CredHold'
<1>1. UNCHANGED <<row, secretFile, keychain, memory, prompts, access, overlapped>> /\ Works(c, "read", {"hand out"})
  BY DEF ReadFile, stores
<1>2. /\ cred' \in [CredCaller -> CredentialCall]
      /\ cred'[c].pc \in {"migrate", "log", "idle"}
      /\ \A d \in CredCaller \ {c} : cred'[d] = cred[d]
  <2>1. CASE Rests(c)
    BY <2>1, CallRests DEF CredHold
  <2>2. CASE cred' = [cred EXCEPT ![c].value = secretFile, ![c].pc = IF secretFile = NoCredential THEN "migrate" ELSE "log"]
    <3>1. PICK pc \in {"migrate", "log"} : pc = IF secretFile = NoCredential THEN "migrate" ELSE "log"
      OBVIOUS
    <3>2. PICK r \in CredentialCall : r = [cred[c] EXCEPT !.value = secretFile, !.pc = pc] /\ r.pc = pc
      <4>1. secretFile \in Secret /\ CredShape
        BY DEF CredHold, CredShape
      <4>. QED  BY <4>1, ReaderMoves, ZenonT(60)
    <3>3. cred' = [cred EXCEPT ![c] = r]
      BY <2>2, <3>1, <3>2 DEF CredHold, CredShape
    <3>. QED  BY <3>2, <3>3, CallPut DEF CredHold
  <2>. QED  BY <2>1, <2>2 DEF ReadFile
<1>3. CredShape' /\ RememberedIsStored' /\ AskedAtMostOnce' /\ LoggedBeforeHandedOut'
  BY <1>1, <1>2 DEF CredHold, CredShape, RememberedIsStored, AskedAtMostOnce, LoggedBeforeHandedOut
<1>4. ASSUME ~overlapped PROVE FarAs(c)'
  <2>1. FarAs(c)
    BY <1>1, <1>4, AloneBefore DEF CredHold, Works
  <2>. QED  BY <1>1, <1>2, <2>1 DEF Works, FarAs, Nothing
<1>5. OneAtATime'
  BY <1>1, <1>2, <1>4, AloneAfter DEF CredHold, Works
<1>. QED  BY <1>3, <1>5 DEF CredHold

(* A read of the keychain: what is remembered of it is what it holds, so a    *)
(* credential found is one no row denies, and it is asked for once.           *)
LEMMA ReadKeychainHolds ==
    ASSUME CredHold, NEW c \in CredCaller, ReadKeychain(c)
    PROVE  CredHold'
<1>1. UNCHANGED <<row, secretFile, keychain, access, overlapped>> /\ Works(c, "migrate", {"hand out"}) /\ cred[c].pc # "idle"
  BY DEF ReadKeychain, Works
<1>2. PICK found \in Secret : found = IF memory # NoCredential THEN memory ELSE keychain
  BY DEF CredHold, CredShape
<1>3. found # NoCredential => found = keychain
  BY <1>2 DEF CredHold, RememberedIsStored
<1>4. CredShape /\ prompts \in Nat
  BY DEF CredHold, CredShape
<1>5. CASE Rests(c) /\ UNCHANGED <<memory, prompts>>
  <2>1. /\ cred' \in [CredCaller -> CredentialCall] /\ cred'[c].pc = "idle"
        /\ \A d \in CredCaller \ {c} : cred'[d] = cred[d]
    BY <1>4, <1>5, CallRests
  <2>2. CredShape' /\ RememberedIsStored' /\ AskedAtMostOnce' /\ LoggedBeforeHandedOut'
    BY <1>1, <1>5, <2>1 DEF CredHold, CredShape, RememberedIsStored, AskedAtMostOnce, LoggedBeforeHandedOut
  <2>3. ASSUME ~overlapped PROVE FarAs(c)'
    <3>1. FarAs(c)
      BY <1>1, <2>3, AloneBefore DEF CredHold
    <3>. QED  BY <1>1, <2>1, <3>1 DEF Works, FarAs, Nothing
  <2>4. OneAtATime'
    BY <1>1, <2>1, <2>3, AloneAfter DEF CredHold
  <2>. QED  BY <2>2, <2>4 DEF CredHold
<1>6. CASE /\ cred' = [cred EXCEPT ![c] = IF found = NoCredential THEN AtRest ELSE [@ EXCEPT !.value = found, !.pc = "copy"]]
           /\ memory' = found
           /\ prompts' = IF memory = NoCredential /\ found # NoCredential THEN prompts + 1 ELSE prompts
  <2>1. PICK r \in CredentialCall : /\ r = IF found = NoCredential THEN AtRest ELSE [cred[c] EXCEPT !.value = found, !.pc = "copy"]
                                    /\ r.pc = IF found = NoCredential THEN "idle" ELSE "copy"
    <3>1. AtRest \in CredentialCall /\ AtRest.pc = "idle"
      BY DEF AtRest, CredentialCall
    <3>. QED  BY <1>4, <3>1, ReaderMoves, ZenonT(60)
  <2>2. cred' = [cred EXCEPT ![c] = r]
    BY <1>6, <2>1
  <2>3. /\ cred' \in [CredCaller -> CredentialCall] /\ cred'[c] = r
        /\ \A d \in CredCaller \ {c} : cred'[d] = cred[d]
    BY <1>4, <2>2, CallPut
  <2>4. AskedAtMostOnce' /\ prompts' \in Nat
    BY <1>2, <1>4, <1>6, SMTT(60) DEF CredHold, AskedAtMostOnce
  <2>5. CredShape' /\ RememberedIsStored' /\ LoggedBeforeHandedOut'
    BY <1>1, <1>3, <1>6, <2>3, <2>4 DEF CredHold, CredShape, RememberedIsStored, LoggedBeforeHandedOut
  <2>6. ASSUME ~overlapped PROVE FarAs(c)'
    <3>1. FarAs(c)
      BY <1>1, <2>6, AloneBefore DEF CredHold
    <3>. QED  BY <1>1, <1>3, <2>1, <2>3, <3>1 DEF Works, FarAs, Nothing
  <2>7. OneAtATime'
    BY <1>1, <2>3, <2>6, AloneAfter DEF CredHold
  <2>. QED  BY <2>4, <2>5, <2>7 DEF CredHold
<1>. QED  BY <1>2, <1>5, <1>6 DEF ReadKeychain

(* What was found is copied across, and a credential is handed out only with  *)
(* its line.                                                                  *)
LEMMA HandedOutHolds ==
    ASSUME CredHold, NEW c \in CredCaller, CopyAcross(c) \/ Grant(c)
    PROVE  CredHold'
<1>1. /\ cred' \in [CredCaller -> CredentialCall] /\ cred'[c].pc \in {"log", "idle"} /\ cred[c].pc \in {"copy", "log"}
      /\ \A d \in CredCaller \ {c} : cred'[d] = cred[d]
      /\ cred[c].pc = "log" => UNCHANGED secretFile
  BY CallGoes, CallRests DEF CopyAcross, Grant, Works, CredHold, stores
<1>2. UNCHANGED <<row, keychain, memory, prompts, overlapped>> /\ secretFile' \in {secretFile, cred[c].value}
  BY DEF CopyAcross, Grant, stores
<1>3. cred[c] \in CredentialCall /\ secretFile' \in Secret
  BY <1>2 DEF CredHold, CredShape, CredentialCall, Secret
<1>4. access' \in [log : Nat, handed : Nat] /\ access'.handed <= access'.log
  <2>1. access \in [log : Nat, handed : Nat] /\ access.handed <= access.log
    BY DEF CredHold, CredShape, LoggedBeforeHandedOut
  <2>2. access' \in {access, [log |-> access.log + 1, handed |-> access.handed + 1]}
    BY DEF CopyAcross, Grant
  <2>. QED  BY <2>1, <2>2, SMTT(60)
<1>5. CredShape' /\ RememberedIsStored' /\ AskedAtMostOnce' /\ LoggedBeforeHandedOut'
  BY <1>1, <1>2, <1>3, <1>4 DEF CredHold, CredShape, RememberedIsStored, AskedAtMostOnce, LoggedBeforeHandedOut
<1>6. ASSUME ~overlapped PROVE FarAs(c)'
  <2>1. FarAs(c)
    BY <1>1, <1>6, AloneBefore DEF CredHold
  <2>. QED  BY <1>1, <1>2, <2>1 DEF Works, FarAs, Nothing
<1>7. OneAtATime'
  BY <1>1, <1>2, <1>6, AloneAfter DEF CredHold
<1>. QED  BY <1>5, <1>7 DEF CredHold

(* Nothing the row, the stores and the calls say changes.                     *)
LEMMA CredRests ==
    ASSUME CredHold, UNCHANGED <<row, stores, cred, access, overlapped>>
    PROVE  CredHold'
<1>1. UNCHANGED <<row, secretFile, keychain, memory, prompts, cred, access, overlapped>>
  BY DEF stores
<1>2. CredShape'
  BY <1>1 DEF CredHold, CredShape
<1>3. OneAtATime'
  <2>1. \A c \in CredCaller : \A pc, kinds : Works(c, pc, kinds)' <=> Works(c, pc, kinds)
    BY <1>1 DEF Works
  <2>. QED  BY <1>1, <2>1, SMTT(60) DEF CredHold, OneAtATime, Nothing
<1>4. RememberedIsStored' /\ AskedAtMostOnce' /\ LoggedBeforeHandedOut'
  BY <1>1 DEF CredHold, RememberedIsStored, AskedAtMostOnce, LoggedBeforeHandedOut
<1>. QED  BY <1>2, <1>3, <1>4 DEF CredHold

(* Whatever is stored, cleared, deleted and handed out at the same time, and  *)
(* whichever call of a store fails: what is remembered of the keychain is     *)
(* what it holds, a credential is asked of it once, none is handed out        *)
(* without its line in the access log, and, as long as calls do not overlap,  *)
(* a row that says no credential tells no lie.                                *)
THEOREM CredentialIsSound == CredSpec => []CredInv
<1>1. CredInit => CredHold
  <2>1. SUFFICES ASSUME CredInit PROVE CredHold
    OBVIOUS
  <2>2. AtRest \in CredentialCall /\ AtRest.pc = "idle"
    BY DEF AtRest, CredentialCall
  <2>3. keychain \in Secret
    BY <2>1, CredentialConstants DEF CredInit, Secret
  <2>4. CredShape
    BY <2>1, <2>2, <2>3 DEF CredInit, CredShape, Secret
  <2>. QED  BY <2>1, <2>2, <2>4, SMTT(60) DEF CredInit, CredHold, OneAtATime, Nothing, RememberedIsStored, AskedAtMostOnce, LoggedBeforeHandedOut, Works
<1>2. CredHold /\ [CredNext]_credentials => CredHold'
  <2>. SUFFICES ASSUME CredHold, [CredNext]_credentials PROVE CredHold'
    OBVIOUS
  <2>1. CASE UNCHANGED credentials \/ OpenSession \/ CloseSession
    BY <2>1, CredRests DEF credentials, OpenSession, CloseSession, stores
  <2>2. ASSUME NEW c \in CredCaller, \/ ClearCredential(c) \/ DeleteConnection(c) \/ HandOut(c)
                                     \/ \E v \in Credential : SetCredential(c, v)
        PROVE  CredHold'
    <3>1. NoCredential \in Secret /\ \A v \in Credential : v \in Secret
      BY DEF Secret
    <3>2. CASE \E v \in Credential : SetCredential(c, v)
      BY <3>1, <3>2, BeginHolds DEF SetCredential
    <3>3. CASE ClearCredential(c)
      BY <3>1, <3>3, BeginHolds DEF ClearCredential
    <3>4. CASE DeleteConnection(c)
      BY <3>1, <3>4, BeginHolds DEF DeleteConnection
    <3>5. CASE HandOut(c)
      BY <3>1, <3>5, BeginHolds DEF HandOut
    <3>. QED  BY <2>2, <3>2, <3>3, <3>4, <3>5
  <2>. QED  BY <2>1, <2>2, WriterHolds, RemovalHolds, ReadFileHolds, ReadKeychainHolds, HandedOutHolds DEF CredNext
<1>. QED  BY <1>1, <1>2, CredSound, PTL DEF CredSpec

-----------------------------------------------------------------------------
(* Automatic commits, and the log of commits *)

CommitsSpec == CommitsInit /\ [][CommitsNext]_commits

Commit == [by : {"hand", "auto"}, own : SUBSET Path, files : SUBSET Path]

AutoCall == [pc : {"idle", "pending", "sort", "stage", "commit", "tip", "log"}, unit : Target,
             pending : SUBSET Path, own : SUBSET Path, hash : Nat,
             outcome : {"none", "skipped", "committed", "failed"}]

CommitsHold ==
    /\ log \in Seq(Commit) /\ edits \in Nat /\ logged \in Nat
    /\ auto \in AutoCall
    /\ rows \subseteq Reference
    /\ CommitsInv

(* A commit that keeps to its own files at the end of the history.            *)
LEMMA CommitAppended ==
    ASSUME CommitsHold, NEW c \in Commit, c.by = "auto" => c.files \subseteq c.own, log' = Append(log, c)
    PROVE  log' \in Seq(Commit) /\ AutoCommitsOnlyOwn'
<1>1. log \in Seq(Commit) /\ AutoCommitsOnlyOwn
  BY DEF CommitsHold, CommitsInv
<1>2. /\ log' \in Seq(Commit) /\ Len(log') = Len(log) + 1 /\ log'[Len(log) + 1] = c
      /\ \A i \in 1 .. Len(log) : log'[i] = log[i]
  BY <1>1, SMTT(60)
<1>3. Len(log) \in Nat
  BY <1>1, SMTT(60)
<1>4. ASSUME NEW i \in 1 .. Len(log'), log'[i].by = "auto" PROVE log'[i].files \subseteq log'[i].own
  <2>1. i = Len(log) + 1 \/ i \in 1 .. Len(log)
    BY <1>2, <1>3, SMTT(60)
  <2>. QED  BY <1>1, <1>2, <1>4, <2>1 DEF AutoCommitsOnlyOwn
<1>. QED  BY <1>2, <1>4 DEF AutoCommitsOnlyOwn

(* What a call under way writes about itself.                                 *)
LEMMA CallMoves ==
    ASSUME CommitsHold
    PROVE  /\ Idle \in AutoCall
           /\ \A o \in {"skipped", "committed", "failed"} : [Idle EXCEPT !.unit = auto.unit, !.outcome = o] \in AutoCall
           /\ \A u \in Target : [Idle EXCEPT !.pc = "pending", !.unit = u] \in AutoCall
           /\ \A fs \in SUBSET Path : [auto EXCEPT !.pc = "sort", !.pending = fs] \in AutoCall
           /\ \A fs \in SUBSET Path : [auto EXCEPT !.pc = "stage", !.own = fs] \in AutoCall
           /\ [auto EXCEPT !.pc = "commit"] \in AutoCall
           /\ [auto EXCEPT !.pc = "tip"] \in AutoCall
           /\ [auto EXCEPT !.pc = "log", !.hash = Len(log)] \in AutoCall
<1>1. auto \in AutoCall /\ Len(log) \in Nat
  BY SMTT(60) DEF CommitsHold
<1>2. Idle \in AutoCall
  BY CommitConstants DEF Idle, AutoCall
<1>3. auto.unit \in Target
  BY <1>1 DEF AutoCall
<1>. QED  BY <1>1, <1>2, <1>3 DEF AutoCall

(* A commit logged: the row there is, or one more of another commit or unit.  *)
LEMMA RecordHolds ==
    ASSUME CommitsHold, NEW u \in Target, NEW hash \in Nat, Record(u, hash)
    PROVE  rows' \subseteq Reference /\ logged' \in Nat /\ LoggedOnce'
<1>1. rows \subseteq Reference /\ logged \in Nat /\ LoggedOnce
  BY DEF CommitsHold, CommitsInv
<1>2. CASE UNCHANGED <<rows, logged>>
  BY <1>1, <1>2 DEF LoggedOnce
<1>3. CASE /\ ~ \E r \in rows : r.unit = u /\ r.hash = hash
           /\ rows' = rows \cup {[id |-> logged + 1, unit |-> u, hash |-> hash, inContext |-> FALSE]}
           /\ logged' = logged + 1
  <2>1. PICK n : n = [id |-> logged + 1, unit |-> u, hash |-> hash, inContext |-> FALSE]
    OBVIOUS
  <2>2. n \in Reference /\ n.unit = u /\ n.hash = hash
    BY <1>1, <2>1, SMTT(60) DEF Reference
  <2>3. rows' = rows \cup {n}
    BY <1>3, <2>1
  <2>4. LoggedOnce'
    BY <1>1, <1>3, <2>2, <2>3 DEF LoggedOnce
  <2>. QED  BY <1>1, <1>3, <2>2, <2>3, <2>4, SMTT(60)
<1>. QED  BY <1>2, <1>3 DEF Record

(* A row put in or out of the context is still the row of its commit.         *)
LEMMA SetInContextHolds ==
    ASSUME CommitsHold, NEW r \in rows, NEW on \in BOOLEAN, SetInContext(r, on)
    PROVE  rows' \subseteq Reference /\ LoggedOnce'
<1>1. rows \subseteq Reference /\ LoggedOnce /\ r \in Reference
  BY DEF CommitsHold, CommitsInv
<1>2. PICK n : n = [r EXCEPT !.inContext = on]
  OBVIOUS
<1>3. n \in Reference /\ n.unit = r.unit /\ n.hash = r.hash
  BY <1>1, <1>2 DEF Reference
<1>4. rows' = (rows \ {r}) \cup {n}
  BY <1>2 DEF SetInContext
<1>. QED  BY <1>1, <1>3, <1>4, SMTT(60) DEF LoggedOnce

(* A step that leaves the history, the rows and the count of edits.           *)
LEMMA CallHolds ==
    ASSUME CommitsHold, UNCHANGED <<log, edits, rows, logged>>, auto' \in AutoCall
    PROVE  CommitsHold'
BY DEF CommitsHold, CommitsInv, AutoCommitsOnlyOwn, LoggedOnce

(* The person's and the session's own work in the folder.                     *)
LEMMA OutsideHolds ==
    ASSUME CommitsHold, CommitByHand \/ \E f \in Path : EditFile(f) \/ StageFile(f)
    PROVE  CommitsHold' /\ edits' # edits
<1>1. /\ edits' \in Nat /\ edits' # edits /\ logged' \in Nat /\ auto' \in AutoCall
      /\ rows' \subseteq Reference /\ LoggedOnce'
  <2>1. UNCHANGED <<auto, rows, logged>> /\ edits' = edits + 1
    BY DEF CommitByHand, EditFile, StageFile, Outside
  <2>. QED  BY <2>1, SMTT(60) DEF CommitsHold, CommitsInv, LoggedOnce
<1>2. log' \in Seq(Commit) /\ AutoCommitsOnlyOwn'
  <2>1. CASE UNCHANGED log
    BY <2>1 DEF CommitsHold, CommitsInv, AutoCommitsOnlyOwn
  <2>2. CASE CommitByHand
    <3>1. PICK c : c = [by |-> "hand", own |-> {}, files |-> {f \in Path : head[f] # index[f]}]
      OBVIOUS
    <3>2. c \in Commit /\ c.by # "auto"
      BY <3>1 DEF Commit
    <3>3. log' = Append(log, c)
      BY <2>2, <3>1 DEF CommitByHand
    <3>. QED  BY <3>2, <3>3, CommitAppended
  <2>. QED  BY <2>1, <2>2 DEF EditFile, StageFile
<1>. QED  BY <1>1, <1>2 DEF CommitsHold, CommitsInv

(* git commit --only takes the call's own files.                              *)
LEMMA CommitOnlyHolds ==
    ASSUME CommitsHold, CommitOnly
    PROVE  CommitsHold'
<1>1. auto \in AutoCall /\ auto.own \subseteq Path
  BY DEF CommitsHold, AutoCall
<1>2. PICK c : c = [by |-> "auto", own |-> auto.own, files |-> {f \in auto.own : disk[f] # head[f]}]
  OBVIOUS
<1>3. c \in Commit /\ c.files \subseteq c.own
  BY <1>1, <1>2 DEF Commit
<1>4. log' = Append(log, c) /\ UNCHANGED <<edits, rows, logged>> /\ auto' = [auto EXCEPT !.pc = "tip"]
  BY <1>2 DEF CommitOnly
<1>5. log' \in Seq(Commit) /\ AutoCommitsOnlyOwn'
  BY <1>3, <1>4, CommitAppended
<1>6. auto' \in AutoCall
  BY <1>4, CallMoves
<1>7. LoggedOnce'
  BY <1>4 DEF CommitsHold, CommitsInv, LoggedOnce
<1>. QED  BY <1>4, <1>5, <1>6, <1>7 DEF CommitsHold, CommitsInv

(* The steps of an automatic commit beside the commit itself and its row.     *)
LEMMA CallStepHolds ==
    ASSUME CommitsHold,
           \/ ReadPending \/ SortChanges \/ Stage \/ ReadTip
           \/ NotCommittable \/ GitFails \/ CrashInCommit
           \/ \E u \in Target : TakeSnapshot(u) \/ AutoCommit(u)
    PROVE  CommitsHold'
<1>1. UNCHANGED <<log, edits, rows, logged>>
  BY DEF ReadPending, SortChanges, Stage, ReadTip, NotCommittable, GitFails, Failed, CrashInCommit,
               TakeSnapshot, AutoCommit, FolderStays, folder
<1>2. auto \in AutoCall /\ auto.pending \subseteq Path
  BY DEF CommitsHold, AutoCall
<1>3. auto' \in AutoCall
  <2>1. CASE ReadPending
    <3>1. PendingChanges \in SUBSET Path
      BY DEF PendingChanges
    <3>. QED  BY <2>1, <3>1, CallMoves DEF ReadPending, AutoEnds
  <2>2. CASE SortChanges
    <3>1. Split(auto.pending, snapshot[auto.unit]) \in SUBSET Path
      BY <1>2 DEF Split
    <3>. QED  BY <2>2, <3>1, CallMoves DEF SortChanges, AutoEnds
  <2>3. CASE Stage \/ ReadTip \/ CrashInCommit
    BY <2>3, CallMoves DEF Stage, ReadTip, CrashInCommit
  <2>4. CASE NotCommittable \/ GitFails
    BY <2>4, CallMoves DEF NotCommittable, GitFails, Failed, AutoEnds
  <2>5. CASE \E u \in Target : TakeSnapshot(u) \/ AutoCommit(u)
    BY <1>2, <2>5, CallMoves, ZenonT(60) DEF TakeSnapshot, AutoCommit
  <2>. QED  BY <2>1, <2>2, <2>3, <2>4, <2>5
<1>. QED  BY <1>1, <1>3, CallHolds

(* What writes and removes rows of the log.                                   *)
LEMMA RowsHold ==
    ASSUME CommitsHold,
           \/ LogCommit
           \/ \E u \in Target, hash \in 1 .. Len(log) : RecordCommit(u, hash)
           \/ \E r \in rows : DeleteReference(r) \/ \E on \in BOOLEAN : SetInContext(r, on)
           \/ \E u \in Target : DeleteUnit(u)
    PROVE  CommitsHold'
<1>1. UNCHANGED <<log, edits>> /\ auto' \in AutoCall
  <2>1. CASE LogCommit
    BY <2>1, CallMoves DEF LogCommit, AutoEnds, FolderStays, folder
  <2>2. CASE UNCHANGED <<folder, auto>>
    BY <2>2 DEF CommitsHold, folder
  <2>. QED  BY <2>1, <2>2 DEF RecordCommit, DeleteReference, SetInContext, DeleteUnit
<1>2. rows' \subseteq Reference /\ logged' \in Nat /\ LoggedOnce'
  <2>1. CASE LogCommit
    <3>1. auto.unit \in Target /\ auto.hash \in Nat
      BY DEF CommitsHold, AutoCall
    <3>. QED  BY <2>1, <3>1, RecordHolds DEF LogCommit
  <2>2. CASE \E u \in Target, hash \in 1 .. Len(log) : RecordCommit(u, hash)
    <3>1. \A hash \in 1 .. Len(log) : hash \in Nat
      BY SMTT(60)
    <3>. QED  BY <2>2, <3>1, RecordHolds DEF RecordCommit
  <2>3. CASE \E r \in rows, on \in BOOLEAN : SetInContext(r, on)
    <3>1. logged' \in Nat
      BY <2>3 DEF SetInContext, CommitsHold
    <3>. QED  BY <2>3, <3>1, SetInContextHolds
  <2>4. CASE (\E r \in rows : DeleteReference(r)) \/ \E u \in Target : DeleteUnit(u)
    <3>1. rows' \subseteq rows /\ UNCHANGED logged
      BY <2>4 DEF DeleteReference, DeleteUnit
    <3>. QED  BY <3>1 DEF CommitsHold, CommitsInv, LoggedOnce
  <2>. QED  BY <2>1, <2>2, <2>3, <2>4
<1>3. log' \in Seq(Commit) /\ edits' \in Nat /\ AutoCommitsOnlyOwn'
  BY <1>1 DEF CommitsHold, CommitsInv, AutoCommitsOnlyOwn
<1>. QED  BY <1>1, <1>2, <1>3 DEF CommitsHold, CommitsInv

(* Every step keeps the commits and their log.                                *)
LEMMA CommitsStep == CommitsHold /\ [CommitsNext]_commits => CommitsHold'
<1>. SUFFICES ASSUME CommitsHold, [CommitsNext]_commits PROVE CommitsHold'
  OBVIOUS
<1>1. CASE UNCHANGED commits
  <2>1. UNCHANGED <<log, edits, rows, logged>> /\ auto' \in AutoCall
    BY <1>1 DEF commits, CommitsHold
  <2>. QED  BY <2>1, CallHolds
<1>. QED  BY <1>1, OutsideHolds, CommitOnlyHolds, CallStepHolds, RowsHold DEF CommitsNext

(* A project starts with one commit, made by hand.                            *)
LEMMA CommitsStart == CommitsInit => CommitsHold
<1>. SUFFICES ASSUME CommitsInit PROVE CommitsHold
  OBVIOUS
<1>1. PICK c : c = [by |-> "hand", own |-> {}, files |-> {}]
  OBVIOUS
<1>2. c \in Commit /\ c.by # "auto"
  BY <1>1 DEF Commit
<1>3. log = <<c>>
  BY <1>1 DEF CommitsInit
<1>4. log \in Seq(Commit) /\ AutoCommitsOnlyOwn
  BY <1>2, <1>3, SMTT(60) DEF AutoCommitsOnlyOwn
<1>5. Idle \in AutoCall
  BY CommitConstants DEF Idle, AutoCall
<1>. QED  BY <1>4, <1>5 DEF CommitsInit, CommitsHold, CommitsInv, LoggedOnce

(* Whatever the person and the session edit, stage and commit between two of  *)
(* its git commands, an automatic commit holds the session's own files and no *)
(* other, and a commit is logged once against a task and each of its steps.   *)
THEOREM CommitsAreOwn == CommitsSpec => []CommitsInv
<1>1. CommitsHold => CommitsInv
  BY DEF CommitsHold
<1>. QED  BY <1>1, CommitsStart, CommitsStep, PTL DEF CommitsSpec

(* No step of an automatic commit touches what is staged of a file it does    *)
(* not take: only the person and the session do, by hand.                     *)
THEOREM OthersStayStaged == CommitsSpec => [][LeavesOthersStaged]_commits
<1>1. CommitsHold /\ [CommitsNext]_commits => [LeavesOthersStaged]_commits
  <2>. SUFFICES ASSUME CommitsHold, CommitsNext, edits' = edits,
                       NEW f \in Path, f \notin auto.own
                PROVE  index'[f] = index[f]
    BY DEF LeavesOthersStaged
  <2>1. CASE UNCHANGED index
    BY <2>1
  <2>2. CASE Stage
    BY <2>2 DEF Stage
  <2>3. CASE CommitOnly
    BY <2>3 DEF CommitOnly
  <2>. QED
    BY <2>1, <2>2, <2>3, OutsideHolds
       DEF CommitsNext, ReadPending, SortChanges, ReadTip, LogCommit, NotCommittable, GitFails, Failed, CrashInCommit,
           TakeSnapshot, AutoCommit, RecordCommit, DeleteReference, SetInContext, DeleteUnit, FolderStays, folder
<1>. QED  BY <1>1, CommitsStart, CommitsStep, PTL DEF CommitsSpec

-----------------------------------------------------------------------------
(* The exposures of projects to advisories *)

VulnSpec == VulnInit /\ [][VulnNext]_vulns

(* What a scan has read and found so far: hits of the versions it read *)
ScanHold ==
    /\ DOMAIN scan = {"pc", "scope", "left", "deps", "found", "limited"}
    /\ scan.deps \in [Project -> SUBSET Dependency]
    /\ scan.pc = "latest" => DOMAIN scan.found = {}
    /\ \A p \in DOMAIN scan.found \cap Project :
          scan.found[p] \subseteq [advisory : Advisory, dependency : scan.deps[p]]

TaskState == {"none", "open", "done", "gone"}

RowsTyped ==
    /\ there \subseteq Project /\ published \subseteq Advisory
    /\ inventory \in [Project -> SUBSET Dependency]
    /\ task \in [FixTask -> TaskState]

(* A fix task is opened for exposures of one project, and goes with it *)
FixOfOneProject ==
    \A e, f \in exposures : e.fix = f.fix /\ e.fix # NoTask => e.project = f.project

VulnHold == RowsTyped /\ ScanHold /\ FixOfOneProject /\ VulnInv

(* Two exposures of the same project, advisory and version have one key.      *)
LEMMA KeyFields ==
    ASSUME NEW e, NEW f
    PROVE  Key(e) = Key(f) <=> e.project = f.project /\ e.advisory = f.advisory /\ e.dependency = f.dependency
BY DEF Key

(* Rows rewritten in place, each keeping its key.                             *)
LEMMA RowsRewritten ==
    ASSUME VulnInv, NEW G, exposures' = {G[e] : e \in exposures},
           \A e \in exposures : /\ G[e] \in Exposure /\ Key(G[e]) = Key(e)
                                /\ G[e].fix # NoTask => task'[G[e].fix] \in {"open", "done"},
           \A e, f \in exposures : G[e].fix = G[f].fix /\ G[e].fix # NoTask => e.project = f.project,
           UNCHANGED <<there, inventory, overtaken>>
    PROVE  VulnInv' /\ FixOfOneProject'
<1>1. ASSUME NEW e \in exposures'
      PROVE  /\ e \in Exposure /\ e.project \in there'
             /\ e.fix # NoTask => task'[e.fix] \in {"open", "done"}
             /\ e.dependency \in inventory'[e.project] \/ e.project \in overtaken'
             /\ \A f \in exposures' : Key(e) = Key(f) => e = f
  <2>1. PICK d \in exposures : e = G[d]
    BY <1>1
  <2>2. d.project \in there /\ (d.dependency \in inventory[d.project] \/ d.project \in overtaken)
    BY DEF VulnInv, OneExposurePerKey, DeclaredUnlessOvertaken
  <2>3. Key(e) = Key(d)
    BY <2>1
  <2>4. e.project = d.project /\ e.dependency = d.dependency
    BY <2>3, KeyFields
  <2>5. e \in Exposure /\ (e.fix # NoTask => task'[e.fix] \in {"open", "done"})
    BY <2>1
  <2>6. ASSUME NEW f \in exposures', Key(e) = Key(f) PROVE e = f
    <3>1. PICK c \in exposures : f = G[c]
      BY <2>6
    <3>2. Key(c) = Key(d)
      BY <2>3, <2>6, <3>1
    <3>. QED  BY <2>1, <3>1, <3>2 DEF VulnInv, OneExposurePerKey
  <2>. QED  BY <2>2, <2>4, <2>5, <2>6
<1>2. VulnInv'
  BY <1>1 DEF VulnInv, OneExposurePerKey, DeclaredUnlessOvertaken
<1>3. ASSUME NEW e \in exposures', NEW f \in exposures', e.fix = f.fix, e.fix # NoTask
      PROVE  e.project = f.project
  <2>1. PICK c \in exposures, d \in exposures : e = G[c] /\ f = G[d]
    BY <1>3
  <2>2. c.project = d.project
    BY <1>3, <2>1
  <2>3. e.project = c.project /\ f.project = d.project
    BY <2>1, KeyFields
  <2>. QED  BY <2>2, <2>3
<1>. QED  BY <1>2, <1>3 DEF FixOfOneProject

(* Rows that go, with what is said of the tasks and versions of the rest.     *)
LEMMA RowsGone ==
    ASSUME VulnInv, FixOfOneProject, exposures' \subseteq exposures,
           \A e \in exposures' : /\ e.project \in there'
                                 /\ e.fix # NoTask => task'[e.fix] \in {"open", "done"}
                                 /\ e.dependency \in inventory'[e.project] \/ e.project \in overtaken'
    PROVE  VulnInv' /\ FixOfOneProject'
BY DEF VulnInv, OneExposurePerKey, DeclaredUnlessOvertaken, FixOfOneProject

(* A verdict given is on the same rows.                                       *)
LEMMA AssessHolds ==
    ASSUME VulnHold, NEW p, NEW a, NEW verdict \in {"affected", "not affected"}, Assess(p, a, verdict)
    PROVE  /\ VulnInv' /\ FixOfOneProject'
           /\ \A e \in exposures, f \in exposures' : Key(e) = Key(f) => e.fix = f.fix
<1>. DEFINE G == [e \in exposures |-> IF e.project = p /\ e.advisory = a THEN [e EXCEPT !.verdict = verdict] ELSE e]
<1>1. exposures' = {G[e] : e \in exposures} /\ UNCHANGED <<there, inventory, task, overtaken>>
  BY DEF Assess
<1>2. ASSUME NEW e \in exposures
      PROVE  G[e] \in Exposure /\ Key(G[e]) = Key(e) /\ G[e].fix = e.fix
  <2>1. e \in Exposure
    BY DEF VulnHold, VulnInv, OneExposurePerKey
  <2>2. PICK g : g = [e EXCEPT !.verdict = verdict]
    OBVIOUS
  <2>3. g \in Exposure /\ Key(g) = Key(e) /\ g.fix = e.fix
    BY <2>1, <2>2 DEF Exposure, Key
  <2>4. G[e] = g \/ G[e] = e
    BY <2>2
  <2>. QED  BY <2>1, <2>3, <2>4
<1>. HIDE DEF G
<1>3. VulnInv
  BY DEF VulnHold
<1>4. \A e \in exposures : e.fix # NoTask => task[e.fix] \in {"open", "done"}
  BY <1>3 DEF VulnInv, OneExposurePerKey
<1>5. VulnInv' /\ FixOfOneProject'
  <2>0. \A e, f \in exposures : G[e].fix = G[f].fix /\ G[e].fix # NoTask => e.project = f.project
    BY <1>2, ZenonT(60) DEF VulnHold, FixOfOneProject
  <2>1. \A e \in exposures : G[e].fix # NoTask => task'[G[e].fix] \in {"open", "done"}
    BY <1>1, <1>2, <1>4
  <2>. QED  BY <1>1, <1>2, <1>3, <2>0, <2>1, RowsRewritten
<1>6. ASSUME NEW e \in exposures, NEW f \in exposures', Key(e) = Key(f) PROVE e.fix = f.fix
  <2>1. PICK d \in exposures : f = G[d]
    BY <1>1, <1>6
  <2>2. Key(e) = Key(d)
    BY <1>2, <1>6, <2>1
  <2>3. e = d
    BY <1>3, <2>2 DEF VulnInv, OneExposurePerKey
  <2>. QED  BY <1>2, <2>1, <2>3
<1>. QED  BY <1>5, <1>6

(* An exposure with another fix task is the same exposure.                    *)
LEMMA FixLinked ==
    ASSUME NEW e \in Exposure, NEW t \in FixTask \cup {NoTask}
    PROVE  /\ [e EXCEPT !.fix = t] \in Exposure /\ Key([e EXCEPT !.fix = t]) = Key(e)
           /\ [e EXCEPT !.fix = t].fix = t
BY DEF Exposure, Key

(* A fix task opened takes the exposures it was opened for and no other.      *)
LEMMA OpenFixHolds ==
    ASSUME VulnHold, NEW taken \in SUBSET exposures, NEW t \in FixTask, OpenFix(taken, t),
           \A e, f \in taken : e.project = f.project
    PROVE  /\ VulnInv' /\ RowsTyped' /\ FixOfOneProject'
           /\ \A e \in exposures, f \in exposures' : Key(e) = Key(f) => e.fix = f.fix \/ e \in taken
<1>. DEFINE G == [e \in exposures |-> IF e \in taken THEN [e EXCEPT !.fix = t] ELSE e]
<1>1. exposures' = {G[e] : e \in exposures}
  BY DEF OpenFix
<1>2. VulnInv /\ RowsTyped /\ UNCHANGED <<there, inventory, published, overtaken>> /\ task' = [task EXCEPT ![t] = "open"]
  BY DEF VulnHold, OpenFix
<1>3. \A e \in exposures : e \in Exposure
  BY <1>2 DEF VulnInv, OneExposurePerKey
<1>4. ASSUME NEW e \in exposures
      PROVE  /\ G[e] \in Exposure /\ Key(G[e]) = Key(e)
             /\ e \notin taken => G[e].fix = e.fix
             /\ e \in taken => G[e].fix = t
  BY <1>3, FixLinked
<1>5. task' \in [FixTask -> TaskState] /\ task'[t] = "open" /\ \A s \in FixTask : s # t => task'[s] = task[s]
  BY <1>2 DEF RowsTyped, TaskState
<1>6. ASSUME NEW e \in exposures, G[e].fix # NoTask PROVE task'[G[e].fix] \in {"open", "done"}
  <2>1. CASE e \in taken
    BY <1>4, <1>5, <2>1
  <2>2. CASE e \notin taken
    <3>1. e.fix # NoTask /\ e.fix \in FixTask \cup {NoTask}
      BY <1>3, <1>4, <1>6, <2>2 DEF Exposure
    <3>2. task[e.fix] \in {"open", "done"} /\ task[t] = "none"
      BY <1>2, <3>1 DEF VulnInv, OneExposurePerKey, OpenFix
    <3>. QED  BY <1>4, <1>5, <2>2, <3>1, <3>2
  <2>. QED  BY <2>1, <2>2
<1>. HIDE DEF G
<1>7. VulnInv' /\ FixOfOneProject'
  <2>1. ASSUME NEW e \in exposures, NEW f \in exposures, G[e].fix = G[f].fix, G[e].fix # NoTask
        PROVE  e.project = f.project
    <3>1. task[t] = "none" /\ t # NoTask => \A d \in exposures : d.fix # t
      <4>1. task[t] = "none"
        BY DEF OpenFix
      <4>2. \A d \in exposures : d.fix # NoTask => task[d.fix] \in {"open", "done"}
        BY <1>2 DEF VulnInv, OneExposurePerKey
      <4>. QED  BY <4>1, <4>2
    <3>2. CASE e \in taken /\ f \in taken
      BY <3>2
    <3>3. CASE e \notin taken /\ f \notin taken
      BY <1>4, <2>1, <3>3, SMTT(60) DEF VulnHold, FixOfOneProject
    <3>4. CASE (e \in taken) # (f \in taken)
      BY <1>4, <2>1, <3>1, <3>4, SMTT(60) DEF OpenFix
    <3>. QED  BY <3>2, <3>3, <3>4
  <2>. QED  BY <1>1, <1>2, <1>4, <1>6, <2>1, RowsRewritten, SMTT(60)
<1>8. ASSUME NEW e \in exposures, NEW f \in exposures', Key(e) = Key(f) PROVE e.fix = f.fix \/ e \in taken
  <2>1. PICK d \in exposures : f = G[d]
    BY <1>1, <1>8
  <2>2. Key(e) = Key(d)
    BY <1>4, <1>8, <2>1
  <2>3. e = d
    BY <1>2, <2>2 DEF VulnInv, OneExposurePerKey
  <2>. QED  BY <1>4, <2>1, <2>3
<1>9. RowsTyped'
  BY <1>2, <1>5 DEF RowsTyped
<1>. QED  BY <1>7, <1>8, <1>9

(* A task deleted is no exposure's fix any more.                              *)
LEMMA DeleteTaskHolds ==
    ASSUME VulnHold, NEW t \in FixTask, DeleteTask(t)
    PROVE  /\ VulnInv' /\ RowsTyped' /\ FixOfOneProject' /\ task'[t] = "gone"
           /\ \A e \in exposures, f \in exposures' : Key(e) = Key(f) => e.fix = f.fix \/ e.fix = t
<1>. DEFINE G == [e \in exposures |-> IF e.fix = t THEN [e EXCEPT !.fix = NoTask] ELSE e]
<1>1. exposures' = {G[e] : e \in exposures}
  BY DEF DeleteTask
<1>2. VulnInv /\ RowsTyped /\ UNCHANGED <<there, inventory, published, overtaken>> /\ task' = [task EXCEPT ![t] = "gone"]
  BY DEF VulnHold, DeleteTask
<1>3. \A e \in exposures : e \in Exposure
  BY <1>2 DEF VulnInv, OneExposurePerKey
<1>4. ASSUME NEW e \in exposures
      PROVE  /\ G[e] \in Exposure /\ Key(G[e]) = Key(e)
             /\ e.fix # t => G[e].fix = e.fix
             /\ e.fix = t => G[e].fix = NoTask
  BY <1>3, FixLinked
<1>5. task' \in [FixTask -> TaskState] /\ task'[t] = "gone" /\ \A s \in FixTask : s # t => task'[s] = task[s]
  BY <1>2 DEF RowsTyped, TaskState
<1>6. ASSUME NEW e \in exposures, G[e].fix # NoTask PROVE task'[G[e].fix] \in {"open", "done"}
  <2>1. e.fix # t /\ G[e].fix = e.fix /\ e.fix # NoTask
    BY <1>4, <1>6
  <2>2. task[e.fix] \in {"open", "done"}
    BY <1>2, <2>1 DEF VulnInv, OneExposurePerKey
  <2>3. e.fix \in FixTask
    BY <1>3, <2>1 DEF Exposure
  <2>. QED  BY <1>5, <2>1, <2>2, <2>3
<1>. HIDE DEF G
<1>7. VulnInv' /\ FixOfOneProject'
  <2>1. ASSUME NEW e \in exposures, NEW f \in exposures, G[e].fix = G[f].fix, G[e].fix # NoTask
        PROVE  e.project = f.project
    BY <1>4, <2>1, ZenonT(60) DEF VulnHold, FixOfOneProject
  <2>. QED  BY <1>1, <1>2, <1>4, <1>6, <2>1, RowsRewritten
<1>8. ASSUME NEW e \in exposures, NEW f \in exposures', Key(e) = Key(f) PROVE e.fix = f.fix \/ e.fix = t
  <2>1. PICK d \in exposures : f = G[d]
    BY <1>1, <1>8
  <2>2. Key(e) = Key(d)
    BY <1>4, <1>8, <2>1
  <2>3. e = d
    BY <1>2, <2>2 DEF VulnInv, OneExposurePerKey
  <2>. QED  BY <1>4, <2>1, <2>3
<1>9. RowsTyped'
  BY <1>2, <1>5 DEF RowsTyped
<1>. QED  BY <1>5, <1>7, <1>8, <1>9

(* An inventory recorded takes with it the exposures of versions not in it.   *)
LEMMA InventoryHolds ==
    ASSUME VulnHold, NEW p \in Project, NEW declared \in SUBSET Dependency, RecordInventory(p, declared)
    PROVE  VulnInv' /\ FixOfOneProject' /\ RowsTyped' /\ exposures' \subseteq exposures
<1>1. /\ inventory' = [inventory EXCEPT ![p] = declared] /\ overtaken' = overtaken \ {p}
      /\ exposures' = {e \in exposures : e.project = p => e.dependency \in declared}
      /\ UNCHANGED <<there, task, published>>
  BY DEF RecordInventory
<1>2. VulnInv /\ FixOfOneProject /\ RowsTyped
  BY DEF VulnHold
<1>3. RowsTyped' /\ inventory'[p] = declared /\ \A q \in Project : q # p => inventory'[q] = inventory[q]
  BY <1>1, <1>2 DEF RowsTyped
<1>4. \A e \in exposures : /\ e.project \in there /\ e.project \in Project
                           /\ e.fix # NoTask => task[e.fix] \in {"open", "done"}
                           /\ e.dependency \in inventory[e.project] \/ e.project \in overtaken
  BY <1>2 DEF VulnInv, OneExposurePerKey, DeclaredUnlessOvertaken, RowsTyped
<1>5. \A e \in exposures' : /\ e.project \in there'
                            /\ e.fix # NoTask => task'[e.fix] \in {"open", "done"}
                            /\ e.dependency \in inventory'[e.project] \/ e.project \in overtaken'
  BY <1>1, <1>3, <1>4
<1>6. exposures' \subseteq exposures
  BY <1>1
<1>. QED  BY <1>2, <1>3, <1>5, <1>6, RowsGone

(* A project deleted takes its exposures and their fix tasks, and no other's. *)
LEMMA DeleteProjectHolds ==
    ASSUME VulnHold, NEW p \in Project, DeleteProject(p)
    PROVE  VulnInv' /\ FixOfOneProject' /\ RowsTyped' /\ exposures' \subseteq exposures
<1>1. /\ inventory' = [inventory EXCEPT ![p] = {}] /\ there' = there \ {p}
      /\ exposures' = exposures \ Of(p)
      /\ task' = [t \in FixTask |-> IF \E e \in Of(p) : e.fix = t THEN "gone" ELSE task[t]]
      /\ UNCHANGED <<overtaken, published>>
  BY DEF DeleteProject
<1>2. VulnInv /\ FixOfOneProject /\ RowsTyped
  BY DEF VulnHold
<1>3. inventory' \in [Project -> SUBSET Dependency] /\ \A q \in Project : q # p => inventory'[q] = inventory[q]
  BY <1>1, <1>2 DEF RowsTyped
<1>4. RowsTyped'
  <2>1. task' \in [FixTask -> TaskState]
    BY <1>1, <1>2 DEF RowsTyped, TaskState
  <2>. QED  BY <1>1, <1>2, <1>3, <2>1 DEF RowsTyped
<1>5. ASSUME NEW e \in exposures'
      PROVE  /\ e.project \in there'
             /\ e.fix # NoTask => task'[e.fix] \in {"open", "done"}
             /\ e.dependency \in inventory'[e.project] \/ e.project \in overtaken'
  <2>1. e \in exposures /\ e.project # p
    BY <1>1 DEF Of
  <2>2. /\ e \in Exposure /\ e.project \in there /\ e.project \in Project
        /\ e.fix # NoTask => task[e.fix] \in {"open", "done"}
        /\ e.dependency \in inventory[e.project] \/ e.project \in overtaken
    BY <1>2, <2>1 DEF VulnInv, OneExposurePerKey, DeclaredUnlessOvertaken, RowsTyped
  <2>3. ASSUME e.fix # NoTask PROVE task'[e.fix] = task[e.fix]
    <3>1. e.fix \in FixTask
      BY <2>2, <2>3 DEF Exposure
    <3>2. ~ \E d \in Of(p) : d.fix = e.fix
      BY <1>2, <2>1, <2>3 DEF FixOfOneProject, Of
    <3>. QED  BY <1>1, <3>1, <3>2
  <2>. QED  BY <1>1, <1>3, <2>1, <2>2, <2>3
<1>6. exposures' \subseteq exposures
  BY <1>1
<1>. QED  BY <1>2, <1>4, <1>5, <1>6, RowsGone

(* The hits a scan is told of are of advisories and of the versions it read.  *)
LEMMA HitsHold ==
    ASSUME published \subseteq Advisory, NEW p
    PROVE  Hits(p) \subseteq [advisory : Advisory, dependency : scan.deps[p]]
BY SMTT(60) DEF Hits, Affecting

(* A scan starts, reads the inventories and asks project by project.          *)
LEMMA ScanGoesOn ==
    ASSUME VulnHold, StartScan \/ ReadInventories \/ \E answer \in {"ok", "failed", "limited"} : AskAbout(answer)
    PROVE  ScanHold' /\ UNCHANGED <<there, inventory, exposures, task, published, overtaken>> /\ scan'.pc # "idle"
<1>1. UNCHANGED <<there, inventory, exposures, task, published, overtaken>>
  BY DEF StartScan, ReadInventories, AskAbout
<1>2. ScanHold /\ published \subseteq Advisory /\ inventory \in [Project -> SUBSET Dependency]
  BY DEF VulnHold, RowsTyped
<1>3. CASE StartScan
  <2>1. scan' = [pc |-> "latest", scope |-> scope, left |-> <<>>, deps |-> [p \in Project |-> {}],
                 found |-> [p \in {} |-> {}], limited |-> FALSE]
    BY <1>3 DEF StartScan, IdleScan
  <2>. QED  BY <1>1, <2>1 DEF ScanHold
<1>4. CASE ReadInventories
  <2>1. PICK left : scan' = [scan EXCEPT !.pc = "ask", !.deps = inventory, !.left = left]
    BY <1>4 DEF ReadInventories
  <2>2. scan.pc = "latest" /\ DOMAIN scan.found = {}
    BY <1>2, <1>4 DEF ReadInventories, ScanHold
  <2>3. DOMAIN scan' = DOMAIN scan /\ scan'.pc = "ask" /\ scan'.deps = inventory /\ scan'.found = scan.found
    BY <1>2, <2>1 DEF ScanHold
  <2>. QED  BY <1>1, <1>2, <2>2, <2>3 DEF ScanHold
<1>5. CASE \E answer \in {"ok", "failed", "limited"} : AskAbout(answer)
  <2>1. PICK answer \in {"ok", "failed", "limited"} : AskAbout(answer)
    BY <1>5
  <2>2. PICK left, limited, found :
           /\ scan' = [scan EXCEPT !.left = left, !.limited = limited, !.found = found]
           /\ found = IF answer = "ok"
                      THEN [q \in DOMAIN scan.found \cup {Head(scan.left)} |->
                              IF q = Head(scan.left) THEN Hits(Head(scan.left)) ELSE scan.found[q]]
                      ELSE scan.found
    BY <2>1 DEF AskAbout
  <2>6. scan.pc = "ask"
    BY <2>1 DEF AskAbout
  <2>7. DOMAIN scan' = DOMAIN scan /\ scan'.pc = "ask" /\ scan'.deps = scan.deps /\ scan'.found = found
    BY <1>2, <2>2, <2>6 DEF ScanHold
  <2>8. ASSUME NEW q \in DOMAIN found \cap Project
        PROVE  found[q] \subseteq [advisory : Advisory, dependency : scan.deps[q]]
    <3>1. found[q] = Hits(q) \/ (q \in DOMAIN scan.found /\ found[q] = scan.found[q])
      BY <2>2
    <3>. QED  BY <1>2, <3>1, HitsHold DEF ScanHold
  <2>. QED  BY <1>1, <1>2, <2>7, <2>8 DEF ScanHold
<1>. QED  BY <1>1, <1>3, <1>4, <1>5

(* What a scan leaves: the exposures known before, and new ones that nobody   *)
(* has judged, each a hit of what was read.                                   *)
LEMMA ScanRecorded ==
    ASSUME VulnHold, RecordScan
    PROVE  /\ \A f \in exposures' :
                 \/ /\ f \in exposures
                    /\ \/ overtaken' = overtaken
                       \/ f.project \notin DOMAIN scan.found /\ (f.project \in overtaken => f.project \in overtaken')
                       \/ f.dependency \in scan.deps[f.project] /\ f.project \in DOMAIN scan.found
                 \/ /\ f \in Exposure /\ f.project \in there /\ f.fix = NoTask
                    /\ f.dependency \in scan.deps[f.project] /\ f.project \in DOMAIN scan.found
                    /\ \A e \in exposures : Key(e) # Key(f)
           /\ \A f, g \in exposures' : Key(f) = Key(g) => f = g
           /\ \A e \in exposures : e.project \notin DOMAIN scan.found => e \in exposures'
           /\ \/ UNCHANGED <<exposures, overtaken>>
              \/ \A p \in DOMAIN scan.found : scan.deps[p] # inventory[p] => p \in overtaken'
<1>1. CASE UNCHANGED <<exposures, overtaken>>
  BY <1>1 DEF VulnHold, VulnInv, OneExposurePerKey
<1>2. CASE /\ exposures' = Replaced(DOMAIN scan.found)
           /\ overtaken' = (overtaken \ DOMAIN scan.found) \cup {p \in DOMAIN scan.found : scan.deps[p] # inventory[p]}
  <2>1. VulnInv /\ there \subseteq Project /\ ScanHold
    BY DEF VulnHold, RowsTyped
  <2>2. ASSUME NEW p \in DOMAIN scan.found \cap there, NEW f \in ReplaceFound(p, scan.found[p])
        PROVE  /\ f.project = p /\ f.dependency \in scan.deps[p]
               /\ \/ f \in exposures
                  \/ f \in Exposure /\ f.fix = NoTask /\ f = Unjudged(f.project, f) /\ \A e \in exposures : Key(e) # Key(f)
    <3>1. scan.found[p] \subseteq [advisory : Advisory, dependency : scan.deps[p]] /\ p \in Project
          /\ scan.deps[p] \subseteq Dependency
      BY <2>1, <2>2 DEF ScanHold
    <3>2. CASE f \in Of(p) /\ Hit(f) \in scan.found[p]
      BY <3>1, <3>2 DEF Of, Hit
    <3>3. CASE \E h \in scan.found[p] \ {Hit(e) : e \in Of(p)} : f = Unjudged(p, h)
      <4>1. PICK h \in scan.found[p] : h \notin {Hit(e) : e \in Of(p)} /\ f = Unjudged(p, h)
        BY <3>3
      <4>2. h.advisory \in Advisory /\ h.dependency \in scan.deps[p] /\ h = [advisory |-> h.advisory, dependency |-> h.dependency]
        BY <3>1, <4>1
      <4>3. /\ f \in Exposure /\ f.project = p /\ f.fix = NoTask /\ f = Unjudged(f.project, f)
            /\ f.advisory = h.advisory /\ f.dependency = h.dependency
        BY <3>1, <4>1, <4>2 DEF Unjudged, Exposure
      <4>4. ASSUME NEW e \in exposures, Key(e) = Key(f) PROVE FALSE
        <5>1. e.project = p /\ e.advisory = h.advisory /\ e.dependency = h.dependency
          BY <4>3, <4>4, KeyFields
        <5>2. Hit(e) = h /\ e \in Of(p)
          BY <4>2, <5>1 DEF Hit, Of
        <5>. QED  BY <4>1, <5>2
      <4>. QED  BY <4>2, <4>3, <4>4
    <3>. QED  BY <2>2, <3>2, <3>3 DEF ReplaceFound
  <2>3. \A f \in exposures' : \/ f \in exposures /\ f.project \notin DOMAIN scan.found
                              \/ \E p \in DOMAIN scan.found \cap there : f \in ReplaceFound(p, scan.found[p])
    <3>1. \A f \in Replaced(DOMAIN scan.found) :
             \/ f \in exposures /\ f.project \notin DOMAIN scan.found
             \/ \E p \in DOMAIN scan.found \cap there : f \in ReplaceFound(p, scan.found[p])
      BY DEF Replaced
    <3>. QED  BY <1>2, <3>1
  <2>4. ASSUME NEW f \in exposures', NEW g \in exposures', Key(f) = Key(g) PROVE f = g
    <3>1. CASE f \in exposures /\ g \in exposures
      BY <2>1, <2>4, <3>1 DEF VulnInv, OneExposurePerKey
    <3>2. CASE (f \in exposures /\ g \notin exposures) \/ (f \notin exposures /\ g \in exposures)
      <4>1. \A d \in exposures' : d \in exposures \/ \A e \in exposures : Key(e) # Key(d)
        BY <2>2, <2>3, ZenonT(60)
      <4>. QED  BY <2>4, <3>2, <4>1
    <3>3. CASE f \notin exposures /\ g \notin exposures
      <4>1. f = Unjudged(f.project, f) /\ g = Unjudged(g.project, g)
        BY <2>2, <2>3, <3>3
      <4>2. f.project = g.project /\ f.advisory = g.advisory /\ f.dependency = g.dependency
        BY <2>4, KeyFields
      <4>. QED  BY <4>1, <4>2 DEF Unjudged
    <3>. QED  BY <3>1, <3>2, <3>3
  <2>5. ASSUME NEW f \in exposures'
        PROVE  \/ /\ f \in exposures
                  /\ \/ f.project \notin DOMAIN scan.found /\ (f.project \in overtaken => f.project \in overtaken')
                     \/ f.dependency \in scan.deps[f.project] /\ f.project \in DOMAIN scan.found
               \/ /\ f \in Exposure /\ f.project \in there /\ f.fix = NoTask
                  /\ f.dependency \in scan.deps[f.project] /\ f.project \in DOMAIN scan.found
                  /\ \A e \in exposures : Key(e) # Key(f)
    <3>1. CASE f \in exposures /\ f.project \notin DOMAIN scan.found
      BY <1>2, <3>1
    <3>2. CASE \E p \in DOMAIN scan.found \cap there : f \in ReplaceFound(p, scan.found[p])
      BY <2>2, <3>2
    <3>. QED  BY <2>3, <3>1, <3>2
  <2>6. \A e \in exposures : e.project \notin DOMAIN scan.found => e \in exposures'
    <3>1. \A e \in exposures : e.project \notin DOMAIN scan.found => e \in Replaced(DOMAIN scan.found)
      BY DEF Replaced
    <3>. QED  BY <1>2, <3>1
  <2>7. \A p \in DOMAIN scan.found : scan.deps[p] # inventory[p] => p \in overtaken'
    BY <1>2
  <2>. QED  BY <2>4, <2>5, <2>6, <2>7
<1>. QED  BY <1>1, <1>2 DEF RecordScan

(* A scan recorded: one row for each key, of what was read or marked as       *)
(* overtaken, with the verdicts and fixes there were.                         *)
LEMMA RecordScanHolds ==
    ASSUME VulnHold, RecordScan
    PROVE  /\ VulnInv' /\ FixOfOneProject' /\ RowsTyped' /\ ScanHold'
           /\ \A e \in exposures, f \in exposures' : Key(e) = Key(f) => e = f
<1>1. UNCHANGED <<there, inventory, task, published>> /\ scan' = IdleScan
  BY DEF RecordScan
<1>2. RowsTyped' /\ VulnInv /\ FixOfOneProject
  BY <1>1 DEF VulnHold, RowsTyped
<1>3. ScanHold'
  BY <1>1 DEF ScanHold, IdleScan
<1>4. \A e \in exposures, f \in exposures' : Key(e) = Key(f) => e = f
  BY <1>2, ScanRecorded DEF VulnInv, OneExposurePerKey
<1>5. ASSUME NEW f \in exposures'
      PROVE  /\ f \in Exposure /\ f.project \in there'
             /\ f.fix # NoTask => f \in exposures /\ task'[f.fix] \in {"open", "done"}
  <2>1. CASE f \in exposures
    BY <1>1, <1>2, <2>1 DEF VulnInv, OneExposurePerKey
  <2>2. CASE f \in Exposure /\ f.project \in there /\ f.fix = NoTask
    BY <1>1, <2>2
  <2>. QED  BY <2>1, <2>2, ScanRecorded
<1>6. OneExposurePerKey'
  BY <1>5, ScanRecorded DEF OneExposurePerKey
<1>7. FixOfOneProject'
  BY <1>2, <1>5 DEF FixOfOneProject
<1>8. ASSUME NEW f \in exposures' PROVE f.dependency \in inventory'[f.project] \/ f.project \in overtaken'
  <2>1. f \in exposures => f.dependency \in inventory[f.project] \/ f.project \in overtaken
    BY <1>2 DEF VulnInv, DeclaredUnlessOvertaken
  <2>2. CASE f \in exposures /\ overtaken' = overtaken
    BY <1>1, <2>1, <2>2
  <2>3. CASE f \in exposures /\ (f.project \in overtaken => f.project \in overtaken')
    BY <1>1, <2>1, <2>3
  <2>4. CASE f.dependency \in scan.deps[f.project] /\ f.project \in DOMAIN scan.found
    <3>1. CASE UNCHANGED <<exposures, overtaken>>
      BY <1>1, <2>1, <3>1, <1>8
    <3>2. CASE scan.deps[f.project] # inventory[f.project] => f.project \in overtaken'
      BY <1>1, <2>4, <3>2
    <3>. QED  BY <2>4, <3>1, <3>2, ScanRecorded
  <2>. QED  BY <2>2, <2>3, <2>4, ScanRecorded
<1>9. VulnInv'
  BY <1>6, <1>8 DEF VulnInv, DeclaredUnlessOvertaken
<1>. QED  BY <1>2, <1>3, <1>4, <1>7, <1>9

(* A step that leaves the rows as they are.                                   *)
LEMMA RowsRest ==
    ASSUME VulnHold, UNCHANGED <<there, inventory, exposures, overtaken>>,
           \A t \in FixTask : task[t] \in {"open", "done"} => task'[t] \in {"open", "done"}
    PROVE  VulnInv' /\ FixOfOneProject'
<1>1. VulnInv /\ FixOfOneProject
  BY DEF VulnHold
<1>2. \A e \in exposures : e.fix # NoTask => task'[e.fix] \in {"open", "done"}
  BY <1>1 DEF VulnInv, OneExposurePerKey, Exposure
<1>. QED  BY <1>1, <1>2 DEF VulnInv, OneExposurePerKey, DeclaredUnlessOvertaken, FixOfOneProject

(* What a step does to an exposure and to what the scan is at: what the       *)
(* action properties below and the invariant need of each action.             *)
LEMMA VulnStep ==
    ASSUME VulnHold, [VulnNext]_vulns
    PROVE  VulnHold' /\ FixedByOneTask /\ ScanKeepsVerdicts /\ UncheckedKeeps
<1>1. ASSUME \A e \in exposures, f \in exposures' : Key(e) = Key(f) => e.fix = f.fix
      PROVE  FixedByOneTask
  BY <1>1 DEF FixedByOneTask
<1>2. VulnInv /\ FixOfOneProject /\ RowsTyped /\ ScanHold
  BY DEF VulnHold
<1>3. \A e, f \in exposures : Key(e) = Key(f) => e.fix = f.fix
  BY <1>2 DEF VulnInv, OneExposurePerKey
<1>4. UNCHANGED scan => ScanHold' /\ ScanKeepsVerdicts /\ UncheckedKeeps
  <2>. SUFFICES ASSUME UNCHANGED scan PROVE ScanHold' /\ ScanKeepsVerdicts /\ UncheckedKeeps
    OBVIOUS
  <2>1. ScanHold'
    BY <1>2 DEF ScanHold
  <2>2. scan'.pc = scan.pc
    OBVIOUS
  <2>. QED  BY <2>1, <2>2 DEF ScanKeepsVerdicts, UncheckedKeeps
<1>5. CASE UNCHANGED vulns \/ (\E a \in Advisory : FeedChanges(a)) \/ \E include \in SUBSET {"high", "malware"} : ChangeScope(include)
  <2>1. UNCHANGED <<there, inventory, exposures, task, scan, overtaken>> /\ published' \subseteq Advisory
    BY <1>2, <1>5 DEF vulns, FeedChanges, ChangeScope, RowsTyped
  <2>2. VulnInv' /\ FixOfOneProject'
    BY <2>1, RowsRest
  <2>3. RowsTyped'
    BY <1>2, <2>1 DEF RowsTyped
  <2>4. FixedByOneTask
    BY <1>1, <1>3, <2>1
  <2>. QED  BY <1>4, <2>1, <2>2, <2>3, <2>4 DEF VulnHold
<1>6. ASSUME NEW p \in Project, NEW declared \in SUBSET Dependency, RecordInventory(p, declared)
      PROVE  VulnHold' /\ FixedByOneTask /\ ScanKeepsVerdicts /\ UncheckedKeeps
  <2>1. UNCHANGED scan
    BY <1>6 DEF RecordInventory
  <2>2. VulnInv' /\ FixOfOneProject' /\ RowsTyped' /\ exposures' \subseteq exposures
    BY <1>6, InventoryHolds
  <2>. QED  BY <1>1, <1>3, <1>4, <2>1, <2>2 DEF VulnHold
<1>7. ASSUME NEW p \in Project, DeleteProject(p)
      PROVE  VulnHold' /\ FixedByOneTask /\ ScanKeepsVerdicts /\ UncheckedKeeps
  <2>1. UNCHANGED scan
    BY <1>7 DEF DeleteProject
  <2>2. VulnInv' /\ FixOfOneProject' /\ RowsTyped' /\ exposures' \subseteq exposures
    BY <1>7, DeleteProjectHolds
  <2>. QED  BY <1>1, <1>3, <1>4, <2>1, <2>2 DEF VulnHold
<1>8. ASSUME NEW p \in Project, NEW a \in Advisory, NEW verdict \in {"affected", "not affected"}, Assess(p, a, verdict)
      PROVE  VulnHold' /\ FixedByOneTask /\ ScanKeepsVerdicts /\ UncheckedKeeps
  <2>1. UNCHANGED <<scan, there, inventory, task, published>>
    BY <1>8 DEF Assess
  <2>2. VulnInv' /\ FixOfOneProject' /\ FixedByOneTask
    BY <1>1, <1>8, AssessHolds
  <2>3. RowsTyped'
    BY <1>2, <2>1 DEF RowsTyped
  <2>. QED  BY <1>4, <2>1, <2>2, <2>3 DEF VulnHold
<1>9. ASSUME NEW t \in FixTask, NEW taken \in SUBSET exposures, OpenFix(taken, t),
             \A e, f \in taken : e.project = f.project, \A e \in taken : AwaitsFix(e)
      PROVE  VulnHold' /\ FixedByOneTask /\ ScanKeepsVerdicts /\ UncheckedKeeps
  <2>1. UNCHANGED scan
    BY <1>9 DEF OpenFix
  <2>2. VulnInv' /\ RowsTyped' /\ FixOfOneProject'
    BY <1>9, OpenFixHolds
  <2>3. FixedByOneTask
    BY <1>9, OpenFixHolds DEF FixedByOneTask, AwaitsFix, FixTaskDone
  <2>. QED  BY <1>4, <2>1, <2>2, <2>3 DEF VulnHold
<1>10. ASSUME NEW t \in FixTask, \/ \E e \in exposures : Fix(e, t)
                                 \/ \E p \in Project, fixScope \in {"affected", "all"} : FixProject(p, fixScope, t)
       PROVE  VulnHold' /\ FixedByOneTask /\ ScanKeepsVerdicts /\ UncheckedKeeps
  <2>1. ASSUME NEW e \in exposures, Fix(e, t)
        PROVE  VulnHold' /\ FixedByOneTask /\ ScanKeepsVerdicts /\ UncheckedKeeps
    <3>1. PICK taken : taken = {e}
      OBVIOUS
    <3>2. /\ taken \in SUBSET exposures /\ OpenFix(taken, t)
          /\ \A d, f \in taken : d.project = f.project
          /\ \A d \in taken : AwaitsFix(d)
      BY <2>1, <3>1 DEF Fix
    <3>. QED  BY <1>9, <3>2
  <2>2. ASSUME NEW p, NEW fixScope, FixProject(p, fixScope, t)
        PROVE  VulnHold' /\ FixedByOneTask /\ ScanKeepsVerdicts /\ UncheckedKeeps
    <3>1. PICK taken : taken = {e \in Of(p) : Within(e, fixScope)}
      OBVIOUS
    <3>2. OpenFix(taken, t)
      BY <2>2, <3>1 DEF FixProject
    <3>3. /\ taken \in SUBSET exposures
          /\ \A d, f \in taken : d.project = f.project
          /\ \A d \in taken : AwaitsFix(d)
      BY <3>1 DEF Of, Within, IsOpen
    <3>. QED  BY <1>9, <3>2, <3>3
  <2>. QED  BY <1>10, <2>1, <2>2
<1>11. ASSUME NEW t \in FixTask, NEW status \in {"open", "done"}, SetDone(t, status)
       PROVE  VulnHold' /\ FixedByOneTask /\ ScanKeepsVerdicts /\ UncheckedKeeps
  <2>1. UNCHANGED <<there, inventory, exposures, scan, published, overtaken>> /\ task' = [task EXCEPT ![t] = status]
    BY <1>11 DEF SetDone
  <2>2. /\ task' \in [FixTask -> TaskState]
        /\ \A s \in FixTask : task[s] \in {"open", "done"} => task'[s] \in {"open", "done"}
    BY <1>2, <2>1 DEF RowsTyped, TaskState
  <2>3. RowsTyped'
    BY <1>2, <2>1, <2>2 DEF RowsTyped
  <2>4. VulnInv' /\ FixOfOneProject'
    BY <2>1, <2>2, RowsRest
  <2>5. FixedByOneTask
    BY <1>1, <1>3, <2>1
  <2>. QED  BY <1>4, <2>1, <2>3, <2>4, <2>5 DEF VulnHold
<1>12. ASSUME NEW t \in FixTask, DeleteTask(t)
       PROVE  VulnHold' /\ FixedByOneTask /\ ScanKeepsVerdicts /\ UncheckedKeeps
  <2>1. UNCHANGED scan
    BY <1>12 DEF DeleteTask
  <2>2. VulnInv' /\ RowsTyped' /\ FixOfOneProject'
    BY <1>12, DeleteTaskHolds
  <2>3. FixedByOneTask
    BY <1>12, DeleteTaskHolds DEF FixedByOneTask
  <2>. QED  BY <1>4, <2>1, <2>2, <2>3 DEF VulnHold
<1>13. CASE StartScan \/ ReadInventories \/ \E answer \in {"ok", "failed", "limited"} : AskAbout(answer)
  <2>1. ScanHold' /\ UNCHANGED <<there, inventory, exposures, task, published, overtaken>> /\ scan'.pc # "idle"
    BY <1>13, ScanGoesOn
  <2>2. VulnInv' /\ FixOfOneProject'
    BY <2>1, RowsRest
  <2>3. RowsTyped'
    BY <1>2, <2>1 DEF RowsTyped
  <2>4. FixedByOneTask
    BY <1>1, <1>3, <2>1
  <2>5. ScanKeepsVerdicts /\ UncheckedKeeps
    BY <2>1 DEF ScanKeepsVerdicts, UncheckedKeeps
  <2>. QED  BY <2>1, <2>2, <2>3, <2>4, <2>5 DEF VulnHold
<1>14. CASE RecordScan
  <2>1. VulnHold' /\ ScanKeepsVerdicts
    BY <1>14, RecordScanHolds DEF VulnHold, ScanKeepsVerdicts
  <2>2. FixedByOneTask
    BY <1>1, <1>14, RecordScanHolds
  <2>3. UncheckedKeeps
    BY <1>14, ScanRecorded DEF UncheckedKeeps
  <2>. QED  BY <2>1, <2>2, <2>3
<1>. QED  BY <1>5, <1>6, <1>7, <1>8, <1>10, <1>11, <1>12, <1>13, <1>14 DEF VulnNext

(* Nothing is known of any project at first.                                  *)
LEMMA VulnStart == VulnInit => VulnHold
<1>. SUFFICES ASSUME VulnInit PROVE VulnHold
  OBVIOUS
<1>1. exposures = {} /\ scan = IdleScan
  BY DEF VulnInit
<1>2. ScanHold
  BY <1>1 DEF ScanHold, IdleScan
<1>3. RowsTyped
  BY DEF VulnInit, RowsTyped, TaskState
<1>4. VulnInv /\ FixOfOneProject
  BY <1>1 DEF VulnInv, OneExposurePerKey, DeclaredUnlessOvertaken, FixOfOneProject
<1>. QED  BY <1>2, <1>3, <1>4 DEF VulnHold

(* However scans, inventories, verdicts, fixes and deletions overlap, there   *)
(* is one exposure for a project, an advisory and a version, its project and  *)
(* its fix task exist, and its version is declared unless the scan that found *)
(* it had read an inventory replaced since.                                   *)
THEOREM ExposuresAreSound == VulnSpec => []VulnInv
<1>1. VulnHold => VulnInv
  BY DEF VulnHold
<1>2. VulnHold /\ [VulnNext]_vulns => VulnHold'
  BY VulnStep
<1>. QED  BY <1>1, <1>2, VulnStart, PTL DEF VulnSpec

(* An exposure being fixed is not taken by a second task, a scan keeps the    *)
(* verdicts and fixes of what it finds again, given before or during it, and  *)
(* leaves alone the projects it has no answer for.                            *)
THEOREM VerdictsAreKept == VulnSpec => [][FixedByOneTask /\ ScanKeepsVerdicts /\ UncheckedKeeps]_vulns
<1>1. VulnHold /\ [VulnNext]_vulns => VulnHold'
  BY VulnStep
<1>2. VulnHold /\ [VulnNext]_vulns => [FixedByOneTask /\ ScanKeepsVerdicts /\ UncheckedKeeps]_vulns
  BY VulnStep
<1>. QED  BY <1>1, <1>2, VulnStart, PTL DEF VulnSpec

================================================================================
