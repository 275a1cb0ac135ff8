--------------------------- MODULE EdbCoreProofs ----------------------------
(***************************************************************************)
(* Proofs about EdbCore, for any number of handlers, keys, hosts,          *)
(* manifests and configurations and for any bounds.                        *)
(*                                                                         *)
(* None of the safety properties is inductive.  Seven layers strengthen    *)
(* them, each proved with the help of the ones before it: Typed, Control   *)
(* (who holds the mutex, and where the threads can be together), CallInv   *)
(* (what a call in progress holds on to), AckInv (what was promised to a   *)
(* client), RunInv (what a server that runs implies), FileInv (which files *)
(* hold the key at each point of a call) and BackupInv (what a Recover     *)
(* keeps while the server runs).                                           *)
(***************************************************************************)
EXTENDS EdbCoreCalls

\* mariadbd.Main runs on a store that exists and once the main goroutine serves, and the signature is its.
RunInv ==
  /\ mysqld => rocks # NoDb /\ pc[Main] \in {"serve", "exiting"}
  /\ manifestSig # NoManifest => mysqld

\* The case the key files are safe in: standalone, launched without a key, no failed system call.
Intact == SlowRelaunch /\ ~cfg.isMarble /\ cfg.launchKey = NoKey /\ faults = 0

Storing == \E t \in Threads : pc[t] \in StoreLabels

\* Keys in the files other than sealed_key.
BackupKeys == {b.key : b \in ({bakNow} \cup backups) \cap Blob}
OlderKeys == {b.key : b \in backups \cap Blob}

\* What sealed_key of this host holds for the store, and that a backup of it exists.
LocalBlob == [key |-> rocks.key, host |-> host]
LocalBackup == LocalBlob \in {bakNow} \cup backups

\* The files of edb-persistence that hold the key of the store, step by step of storeMasterKey.
FileInv ==
  Intact =>
    /\ rocks # NoDb => rocks.key \in KeysOnDisk
    /\ pc[Main] \in LaunchLabels => bakNow = NoFile
    /\ pc[Main] = "load" /\ (rocks = NoDb \/ cfg.enclave) => env = NoKey
    /\ pc[Main] = "start" /\ cfg.enclave => Sealed(env)
    /\ \A t \in Handlers :
         /\ pc[t] = "backupWrite" => bakNow \notin Blob
         /\ pc[t] \in {"truncate", "write"} /\ rocks # NoDb => rocks.key \in BackupKeys
         /\ pc[t] = "start" => Sealed(env) /\ env \in Keys
    /\ pc[Main] \notin {"down", "exiting", "load"} /\ rocks = NoDb /\ env \in Keys /\ ~Storing => Sealed(env)
    /\ Serving /\ rocks # NoDb /\ bakNow # NoFile
         /\ (\A t \in Handlers : pc[t] \notin {"backupWrite", "truncate", "write", "start"})
       => sealed \in Blob /\ sealed.key = rocks.key
    /\ mysqld /\ cfg.enclave /\ (\A t \in Handlers : pc[t] \notin {"write", "start"})
       => Sealed(rocks.key)

\* A Recover that overwrites sealed_key while the server runs has backed it up.
BackupInv ==
  Intact /\ mysqld /\ cfg.enclave => \A t \in Handlers : pc[t] \in {"truncate", "write", "start"} => LocalBackup

(***************************************************************************)
(*                        What the server implies                          *)
(***************************************************************************)

\* A new deployment runs no server.
LEMMA RunInit == Init => RunInv
  BY Zenon DEF Init, RunInv

\* A call that ends may have started the server: StartDatabase of the main goroutine, which serves or exits then, or of a handler.
LEMMA RunEnds ==
  ASSUME Typed, Control, RunInv, NEW t \in Threads, Ends(t)
  PROVE  RunInv'
<1>1. rocks' = rocks
  BY Zenon DEF Ends
<1>2. (mysqld' = mysqld /\ manifestSig' = manifestSig) \/ (rocks # NoDb /\ mysqld')
  BY Zenon DEF Ends
<1>3. Main \in Threads /\ (pc'[Main] = pc[Main] \/ pc'[Main] \in {"serve", "exiting"})
  BY EndsLocally, Zenon DEF Typed, Standing, Threads
<1>4. t # Main => pc[Main] = "serve"
  BY Zenon DEF Ends, Alive, Serving
<1>5. t = Main => pc'[Main] \in {"serve", "exiting"}
  BY ThreadsAssumption, Zenon DEF Ends, Return, Terminate, Typed, TypeOK, Threads
<1>6. mysqld' => pc'[Main] \in {"serve", "exiting"}
  BY <1>2, <1>3, <1>4, <1>5, Zenon DEF RunInv
<1> QED
  BY <1>1, <1>2, <1>6 DEF RunInv

\* A bootstrap that fails in the main goroutine ends a process without a server.
LEMMA RunPanics ==
  ASSUME Typed, RunInv, NEW t \in Threads, BootPanics(t)
  PROVE  RunInv'
<1>1. UNCHANGED <<mysqld, manifestSig>> /\ rocks' # NoDb
  BY BootDoneStore, Zenon DEF BootPanics, procVars
<1>2. Main \in Threads /\ (pc'[Main] = pc[Main] \/ pc'[Main] \in {"serve", "exiting"})
  BY EndsLocally, Zenon DEF Typed, Standing, Threads
<1> QED
  BY <1>1, <1>2, Zenon DEF RunInv

\* Only StartDatabase starts the server, and only a new process is without it again.
LEMMA RunStep == Typed /\ Control /\ RunInv /\ Effect => RunInv'
<1> SUFFICES ASSUME Typed, Control, RunInv, Effect PROVE RunInv'
  BY Zenon
<1>1. CASE Resets
  BY <1>1, Zenon DEF Resets, Reset, RunInv
<1>2. CASE UNCHANGED <<mysqld, manifestSig, rocks, pc>>
  BY <1>2, Zenon DEF RunInv
<1>3. CASE mysqld = FALSE /\ UNCHANGED <<mysqld, manifestSig>>
  BY <1>3, Zenon DEF RunInv
<1>4. CASE UNCHANGED <<mysqld, manifestSig>> /\ (rocks # NoDb => rocks' # NoDb) /\ pc'[Main] = pc[Main]
  BY <1>4, Zenon DEF RunInv
<1>5. CASE KeyLoaded \/ NewMasterKey \/ EnterRecovery
  <2>1. mysqld = FALSE
    BY <1>5, Zenon DEF KeyLoaded, NewMasterKey, EnterRecovery, RunInv, Typed, TypeOK
  <2> QED
    BY <1>5, <1>3, <2>1, Zenon DEF KeyLoaded, NewMasterKey, EnterRecovery, dbVars
<1>6. CASE Outside
  BY <1>6, <1>2, Zenon DEF Outside, procVars
<1>7. ASSUME NEW t \in Threads,
             \/ PostRecover(t) \/ RecoverLocks(t) \/ KeySet(t) \/ OpenBackup(t) \/ WriteBackup(t) \/ TruncateSealed(t)
             \/ WriteSealed(t) \/ Encrypts(t) \/ InitializeLock(t) \/ Accepts(t) \/ BootOpen(t) \/ BootDone(t)
             \/ ReplyManifest(t)
      PROVE  RunInv'
  <2>1. UNCHANGED <<mysqld, manifestSig>>
    BY <1>7, Zenon DEF PostRecover, RecoverLocks, KeySet, OpenBackup, WriteBackup, TruncateSealed, WriteSealed, Encrypts,
       InitializeLock, Accepts, BootOpen, BootDone, ReplyManifest, dbVars, procVars
  <2>2. rocks # NoDb => rocks' # NoDb
    <3>1. CASE BootOpen(t) \/ BootDone(t)
      BY <3>1, BootOpensStore, BootDoneStore, Zenon DEF Typed
    <3> QED
      BY <1>7, <3>1, Zenon DEF PostRecover, RecoverLocks, KeySet, OpenBackup, WriteBackup, TruncateSealed, WriteSealed,
         Encrypts, InitializeLock, Accepts, ReplyManifest
  <2>3. PICK label \in {"recLock", "setKey", "backup", "backupWrite", "truncate", "write", "start", "initLock", "init",
                        "boot", "bootSql", "bootAgain", "reply", "serve", "idle"} : Goto(t, label)
    BY <1>7, Zenon DEF PostRecover, RecoverLocks, KeySet, OpenBackup, WriteBackup, TruncateSealed, WriteSealed, Encrypts,
       InitializeLock, Accepts, BootOpen, BootDone, ReplyManifest, Return, Goto
  <2>4. CASE t # Main
    <3>1. pc'[Main] = pc[Main]
      BY <2>3, <2>4, GotoMoves, Zenon DEF Typed, Threads
    <3> QED
      BY <1>4, <2>1, <2>2, <3>1, Zenon
  <2>5. CASE t = Main
    <3>1. pc[Main] \notin {"serve", "exiting"}
      BY <1>7, <2>5, Zenon DEF PostRecover, RecoverLocks, KeySet, OpenBackup, WriteBackup, TruncateSealed, WriteSealed,
         Encrypts, InitializeLock, Accepts, BootOpen, BootDone, ReplyManifest
    <3>2. mysqld = FALSE
      BY <3>1, Zenon DEF RunInv, Typed, TypeOK
    <3> QED
      BY <1>3, <2>1, <3>2, Zenon
  <2> QED
    BY <2>4, <2>5, Zenon
<1>8. CASE ServerEnds
  BY <1>8, Zenon DEF ServerEnds, Terminate, procVars, RunInv, Typed, TypeOK, Threads
<1> QED
  BY <1>1, <1>5, <1>6, <1>7, <1>8, RunEnds, RunPanics, ZenonT(60) DEF Effect, ThreadEffect

(***************************************************************************)
(*                     Which files hold which key                          *)
(***************************************************************************)

\* A new deployment has no database and needs no key.
LEMMA FileInit == Init => FileInv
  BY ThreadsAssumption DEF Init, FileInv, LaunchLabels, InitLabels, Storing, StoreLabels, Serving, Threads

\* After a failed system call FileInv says nothing.
LEMMA FaultCounted ==
  ASSUME TypeOK, Fault
  PROVE  faults' # 0
  BY BoundsAssumption DEF TypeOK, Fault

\* The keys on disk, file by file.
LEMMA KeyFiles ==
  ASSUME NEW k
  PROVE  /\ k \in KeysOnDisk <=> (sealed \in Blob /\ sealed.key = k) \/ k \in BackupKeys
         /\ k \in BackupKeys <=> (bakNow \in Blob /\ bakNow.key = k) \/ k \in OlderKeys
  BY Zenon DEF KeysOnDisk, BackupKeys, OlderKeys

\* The keys on disk after a step, file by file.
LEMMA KeyFilesNext ==
  ASSUME NEW k
  PROVE  /\ (k \in KeysOnDisk)' <=> (sealed' \in Blob /\ sealed'.key = k) \/ (k \in BackupKeys)'
         /\ (k \in BackupKeys)' <=> (bakNow' \in Blob /\ bakNow'.key = k) \/ (k \in OlderKeys)'
  BY Zenon DEF KeysOnDisk, BackupKeys, OlderKeys

\* A step that leaves the files alone leaves the keys in them alone.
LEMMA SameFiles ==
  ASSUME UNCHANGED diskVars
  PROVE  /\ KeysOnDisk' = KeysOnDisk /\ BackupKeys' = BackupKeys
         /\ UNCHANGED <<cfg, host>> => \A k : Sealed(k)' <=> Sealed(k)
  BY Zenon DEF diskVars, KeysOnDisk, BackupKeys, Sealed

\* A call that ends well has finished what it did to the files: the key Start used is in sealed_key.
LEMMA FileEnds ==
  ASSUME Typed, Control, RunInv, FileInv, NEW t \in Threads, Ends(t), EndsSafely(t)
  PROVE  FileInv'
<1>1. UNCHANGED <<cfg, env, rocks, sealed, bakNow>> /\ (faults' = faults \/ Fault)
  BY Zenon DEF Ends, hostVars, diskVars
<1>2. /\ KeysOnDisk' = KeysOnDisk /\ BackupKeys' = BackupKeys
      /\ \A k : Sealed(k)' <=> Sealed(k)
  BY SameFiles, Zenon DEF Ends, hostVars
<1>3. \A u \in Threads :
        \/ pc'[u] = pc[u]
        \/ u = t /\ pc'[u] = (IF u = Main THEN "serve" ELSE "idle")
        \/ u = Main /\ pc'[u] = "exiting"
  BY EndsLocally, Zenon DEF Typed, Standing
<1>4. pc[t] \notin {"down", "serve", "exiting"} /\ (t = Main \/ pc[Main] = "serve")
  BY Zenon DEF Ends, Alive, Serving
<1>5. CASE Fault
  BY <1>5, FaultCounted, Zenon DEF Typed, FileInv, Intact
<1>6. CASE ~Fault /\ Terminate
  <2>1. pc'[Main] = "exiting" /\ \A u \in Handlers : pc'[u] = pc[u]
    BY <1>6, ThreadsAssumption, Zenon DEF Terminate, Typed, TypeOK, Threads
  <2>2. mysqld' = mysqld \/ (pc[t] = "start" /\ rocks.key = env)
    BY <1>6, Zenon DEF EndsSafely
  <2> QED
    BY <1>1, <1>2, <1>6, <2>1, <2>2, Zenon DEF FileInv, Intact, Serving, LaunchLabels, InitLabels, Threads
<1>7. CASE ~Fault /\ ~Terminate
  <2>1. pc'[t] = (IF t = Main THEN "serve" ELSE "idle") /\ \A u \in Threads : u # t => pc'[u] = pc[u]
    BY <1>7, Zenon DEF Ends, Return, Typed, TypeOK
  <2>2. \/ mysqld' = mysqld /\ pc[t] \notin StoreLabels \cup {"load", "start"}
        \/ pc[t] = "start" /\ IF rocks = NoDb THEN mysqld' = mysqld ELSE rocks.key = env
    BY <1>7, Zenon DEF EndsSafely
  <2>3. t = Main => pc[t] \in LaunchLabels
    BY <1>4, Zenon DEF Control
  <2>4. Storing <=> Storing'
    BY <2>1, <2>2, Zenon DEF Storing, StoreLabels
  <2>5. Sealed(env) => sealed \in Blob /\ sealed.key = env
    BY Zenon DEF Sealed
  <2> QED
    BY <1>1, <1>2, <1>4, <1>7, <2>1, <2>2, <2>3, <2>4, <2>5, ThreadsAssumption, Zenon
    DEF FileInv, RunInv, Intact, Serving, StoreLabels, LaunchLabels, InitLabels, Threads
<1> QED
  BY <1>5, <1>6, <1>7, Zenon

\* While the main goroutine launches the process there are no calls and no server.
LEMMA LaunchAlone ==
  ASSUME Typed, Control, RunInv, pc[Main] \in LaunchLabels
  PROVE  /\ \A u \in Threads : u # Main => pc[u] = "idle"
         /\ ~mysqld
  BY Zenon DEF Control, RunInv, LaunchLabels, InitLabels, Threads

\* A handler under the mutex is the only thread that does anything under it.
LEMMA MutexAlone ==
  ASSUME Control, NEW t \in Threads, pc[t] \in RecoverLabels \cup InitLabels, Alive(t), t # Main
  PROVE  /\ pc[Main] = "serve"
         /\ \A u \in Threads : u # t => pc[u] \notin RecoverLabels \cup InitLabels
  BY ThreadsAssumption, Zenon DEF Control, Alive, Serving, RecoverLabels, StoreLabels, InitLabels, Threads

\* A thread that only goes on outside storeMasterKey and Start does not matter to the files.
LEMMA FileMoves ==
  ASSUME Typed, RunInv, FileInv, NEW t \in Threads,
         NEW label, label \notin StoreLabels \cup {"down", "load", "start", "exiting"},
         \A u \in Threads : pc'[u] = IF u = t THEN label ELSE pc[u],
         pc[t] \notin StoreLabels \cup {"down", "load", "exiting"}, pc[t] = "start" => rocks = NoDb,
         t = Main => pc[t] \in LaunchLabels,
         UNCHANGED <<cfg, host, env, rocks, mysqld, faults, diskVars>>
  PROVE  FileInv'
<1>1. bakNow' = bakNow /\ sealed' = sealed
  BY Zenon DEF diskVars
<1> QED
  BY <1>1, SameFiles, ThreadsAssumption, Zenon
  DEF RunInv, FileInv, Intact, Storing, StoreLabels, Serving, Threads

\* mustInitMasterKey touches no file: a key it loads comes from one, and a key it generates is still to be stored.
LEMMA FileLoads ==
  ASSUME Typed, Control, RunInv, FileInv, KeyLoaded \/ NewMasterKey \/ EnterRecovery
  PROVE  FileInv'
<1> USE DEF Typed
<1>1. pc[Main] = "load" /\ UNCHANGED <<cfg, host, rocks, mysqld, diskVars>>
  BY Zenon DEF KeyLoaded, NewMasterKey, EnterRecovery, hostVars, dbVars
<1>2. Main \in Threads /\ ~mysqld /\ \A u \in Handlers : pc[u] = "idle" /\ u \in Threads /\ u # Main
  BY <1>1, LaunchAlone, ThreadsAssumption, Zenon DEF LaunchLabels, Threads
<1>3. bakNow' = bakNow
  BY <1>1, Zenon DEF diskVars
<1>4. Intact => bakNow = NoFile /\ ((rocks = NoDb \/ cfg.enclave) => env = NoKey)
  BY <1>1, Zenon DEF FileInv, LaunchLabels
<1>5. CASE KeyLoaded
  <2>1. Goto(Main, "start") /\ LoadMasterKey \in Keys /\ env' = LoadMasterKey /\ faults' = faults
    BY <1>5, Zenon DEF KeyLoaded
  <2>2. pc'[Main] = "start" /\ \A u \in Handlers : pc'[u] = "idle"
    BY <1>2, <2>1, GotoMoves, Zenon
  <2>3. (env \in Keys /\ env' = env) \/ Sealed(env')
    BY <1>1, <2>1, LoadedKey, SameFiles, Zenon
  <2> QED
    BY <1>1, <1>2, <1>3, <1>4, <2>1, <2>2, <2>3, SameFiles, KeysAssumption, Zenon DEF FileInv, Intact, Serving
<1>6. CASE NewMasterKey
  <2>1. Goto(Main, "backup") /\ rocks = NoDb /\ faults' = faults
    BY <1>6, Zenon DEF NewMasterKey
  <2>2. pc'[Main] = "backup" /\ \A u \in Handlers : pc'[u] = "idle"
    BY <1>2, <2>1, GotoMoves, Zenon
  <2> QED
    BY <1>1, <1>2, <1>3, <1>4, <2>1, <2>2, Zenon DEF FileInv, Intact, Serving, Storing, StoreLabels
<1>7. CASE EnterRecovery
  <2>1. Goto(Main, "serve") /\ env' = env /\ (faults' = faults \/ Fault)
    BY <1>7, Zenon DEF EnterRecovery
  <2>2. pc'[Main] = "serve" /\ \A u \in Handlers : pc'[u] = "idle"
    BY <1>2, <2>1, GotoMoves, Zenon
  <2>3. faults' # faults => faults' # 0
    BY <2>1, FaultCounted, Zenon
  <2> QED
    BY <1>1, <1>2, <1>3, <1>4, <2>1, <2>2, <2>3, SameFiles, KeysAssumption, Zenon
    DEF FileInv, Intact, LaunchLabels, InitLabels
<1> QED
  BY <1>5, <1>6, <1>7, Zenon

\* The steps of a call outside storeMasterKey and Start do not matter to the files.
LEMMA FileWaits ==
  ASSUME Typed, Control, RunInv, FileInv, NEW t \in Threads,
         PostRecover(t) \/ RecoverLocks(t) \/ Encrypts(t) \/ InitializeLock(t) \/ Accepts(t) \/ ReplyManifest(t)
  PROVE  FileInv'
<1> USE DEF Typed
<1>1. /\ UNCHANGED <<cfg, host, env, rocks, mysqld, faults, diskVars>>
      /\ pc[t] \in {"idle", "recLock", "initLock", "init", "reply"} \/ (pc[t] = "start" /\ rocks = NoDb)
  BY Zenon DEF PostRecover, RecoverLocks, Encrypts, InitializeLock, Accepts, ReplyManifest, hostVars, procVars
<1>2. t = Main => pc[t] \in LaunchLabels
  BY <1>1, Zenon DEF Control
<1>3. PICK label \in {"recLock", "setKey", "initLock", "init", "boot", "serve", "idle"} : Goto(t, label)
  BY Zenon DEF PostRecover, RecoverLocks, Encrypts, InitializeLock, Accepts, ReplyManifest, Return, Goto
<1>4. \A u \in Threads : pc'[u] = IF u = t THEN label ELSE pc[u]
  BY <1>3, GotoMoves, Zenon
<1> QED
  BY <1>1, <1>2, <1>4, FileMoves DEF StoreLabels

\* The bootstrap creates the store with a key that is in sealed_key.
LEMMA FileBoots ==
  ASSUME Typed, Control, CallInv, RunInv, FileInv, NEW t \in Threads, BootOpen(t) \/ BootDone(t)
  PROVE  FileInv'
<1> USE DEF Typed
<1>1. UNCHANGED <<cfg, host, env, mysqld, faults, diskVars>> /\ ~(rocks = NoDb /\ mysqld)
  BY Zenon DEF BootOpen, BootDone, RunInv, hostVars, procVars, dbVars
<1>2. bakNow' = bakNow /\ sealed' = sealed
  BY <1>1, Zenon DEF diskVars
<1>3. pc[t] \in {"boot", "bootSql", "bootAgain"} /\ Alive(t)
  BY Zenon DEF BootOpen, BootDone
<1>4. PICK label \in {"bootSql", "bootAgain", "reply"} : Goto(t, label)
  BY Zenon DEF BootOpen, BootDone
<1>5. \A u \in Threads : pc'[u] = IF u = t THEN label ELSE pc[u]
  BY <1>4, GotoMoves, Zenon
<1>6. rocks' # NoDb /\ rocks'.key = IF rocks = NoDb THEN env ELSE rocks.key
  BY BootOpensStore, BootDoneStore, Zenon DEF BootOpen, BootDone
<1>7. \A u \in Threads : u # t => pc[u] \notin StoreLabels \cup {"start"}
  BY <1>3, MutexAlone, LaunchAlone, Zenon DEF LaunchLabels, RecoverLabels, StoreLabels, InitLabels
<1>8. rocks = NoDb => env \in Keys
  BY Zenon DEF BootOpen, BootDone, Opens
<1> QED
  BY <1>1, <1>2, <1>3, <1>5, <1>6, <1>7, <1>8, SameFiles, KeyFiles, ThreadsAssumption
  DEF FileInv, Intact, Sealed, Storing, StoreLabels, LaunchLabels, InitLabels, Alive, Serving, Threads

\* storeMasterKey backs sealed_key up before it truncates it, and writes it before Start.
LEMMA FileStores ==
  ASSUME Typed, Control, CallInv, RunInv, FileInv, NEW t \in Threads,
         KeySet(t) \/ OpenBackup(t) \/ WriteBackup(t) \/ TruncateSealed(t) \/ WriteSealed(t)
  PROVE  FileInv'
<1> USE DEF Typed
<1>1. UNCHANGED <<cfg, host, rocks, mysqld>> /\ Alive(t) /\ pc[t] \in StoreLabels \cup {"setKey"}
  BY Zenon DEF KeySet, OpenBackup, WriteBackup, TruncateSealed, WriteSealed, StoreLabels, hostVars, procVars, dbVars
<1>2. /\ t = Main => rocks = NoDb /\ ~mysqld /\ pc[t] \in {"backup", "truncate", "write"}
      /\ t # Main => pc[Main] = "serve"
      /\ \A u \in Threads : u # t => pc[u] \notin StoreLabels \cup {"start"}
  <2>1. CASE t = Main
    BY <1>1, <2>1, LaunchAlone, Zenon DEF Control, LaunchLabels, StoreLabels, InitLabels
  <2>2. CASE t # Main
    BY <1>1, <2>2, MutexAlone, Zenon DEF RecoverLabels
  <2> QED
    BY <2>1, <2>2, Zenon
<1>3. CASE KeySet(t)
  <2>1. pc[t] = "setKey" /\ Goto(t, "backup") /\ UNCHANGED <<faults, diskVars>>
    BY <1>3, Zenon DEF KeySet
  <2>2. bakNow' = bakNow /\ sealed' = sealed
    BY <2>1, Zenon DEF diskVars
  <2> QED
    BY <1>1, <1>2, <2>1, <2>2, GotoMoves, SameFiles
    DEF FileInv, Intact, Serving, Storing, StoreLabels, LaunchLabels, InitLabels, Threads
<1>4. CASE OpenBackup(t)
  <2>1. pc[t] = "backup" /\ env' = env
    BY <1>4, Zenon DEF OpenBackup, procVars
  <2>2. CASE Fault
    BY <2>2, FaultCounted, Zenon DEF FileInv, Intact
  <2>3. CASE sealed = NoFile /\ Goto(t, "truncate") /\ UNCHANGED <<diskVars, faults>>
    <3>1. bakNow' = bakNow /\ sealed' = sealed
      BY <2>3, Zenon DEF diskVars
    <3> QED
      BY <1>1, <1>2, <2>1, <2>3, <3>1, GotoMoves, SameFiles, KeyFiles, FilesAssumption
      DEF FileInv, Intact, Sealed, Serving, Storing, StoreLabels, LaunchLabels, InitLabels, Threads
  <2>4. CASE sealed # NoFile /\ Goto(t, "backupWrite") /\ BackupOpened /\ UNCHANGED faults
    <3>1. t # Main
      BY <2>1, <2>4, Zenon DEF Control
    <3> QED
      BY <1>1, <1>2, <2>1, <2>4, <3>1, GotoMoves, KeyFiles, KeyFilesNext, FilesAssumption
      DEF BackupOpened, OlderKeys, FileInv, Intact, Sealed, Serving, Storing, StoreLabels, LaunchLabels, InitLabels, Threads
  <2> QED
    BY <1>4, <2>2, <2>3, <2>4, Zenon DEF OpenBackup
<1>5. CASE WriteBackup(t)
  <2>1. /\ pc[t] = "backupWrite" /\ env' = env /\ Goto(t, "truncate")
        /\ (BackupWritten /\ UNCHANGED faults) \/ Fault
    BY <1>5, Zenon DEF WriteBackup, procVars
  <2>2. CASE Fault
    BY <2>2, FaultCounted, Zenon DEF FileInv, Intact
  <2>3. CASE ~Fault
    BY <1>1, <1>2, <2>1, <2>3, GotoMoves, KeyFiles, KeyFilesNext, FilesAssumption
    DEF BackupWritten, OlderKeys, FileInv, Intact, Sealed, Serving, Storing, StoreLabels, LaunchLabels, InitLabels, Threads
  <2> QED
    BY <2>2, <2>3, Zenon
<1>6. CASE TruncateSealed(t)
  <2>1. pc[t] = "truncate" /\ env' = env /\ Goto(t, "write") /\ SealedTruncated /\ UNCHANGED faults
    BY <1>6, Zenon DEF TruncateSealed, procVars
  <2> QED
    BY <1>1, <1>2, <2>1, GotoMoves, KeyFiles, KeyFilesNext, FilesAssumption
    DEF SealedTruncated, OlderKeys, FileInv, Intact, Sealed, Serving, Storing, StoreLabels, LaunchLabels, InitLabels, Threads
<1>7. CASE WriteSealed(t)
  <2>1. pc[t] = "write" /\ env' = env /\ Goto(t, "start") /\ SealedWritten(key[t]) /\ UNCHANGED faults
    BY <1>7, Zenon DEF WriteSealed
  <2>2. key[t] \in Keys /\ env = key[t]
    BY <2>1, Zenon DEF CallInv, StoreLabels
  <2>3. Sealed(env)' /\ bakNow' = bakNow /\ BackupKeys' = BackupKeys
    BY <1>1, <2>1, <2>2, Zenon DEF SealedWritten, Sealed, Blob, BackupKeys, TypeOK
  <2> QED
    BY <1>1, <1>2, <2>1, <2>2, <2>3, GotoMoves, KeyFilesNext, Zenon
    DEF FileInv, Intact, Serving, Storing, StoreLabels, LaunchLabels, InitLabels, Threads
<1> QED
  BY <1>3, <1>4, <1>5, <1>6, <1>7, Zenon

\* A process that ends leaves the files behind, and time only gives the backup its name for good.
LEMMA FileOutside ==
  ASSUME Typed, Control, RunInv, FileInv, Resets \/ Outside
  PROVE  FileInv'
<1> USE DEF Typed
<1>1. CASE Resets
  <2>1. PICK label \in {"down", "load"}, k \in KeyValues :
          /\ Reset(label, k)
          /\ label = "load" => /\ SlowRelaunch => bakNow = NoFile
                               /\ k = cfg.launchKey \/ (timer /\ ~cfg.enclave)
          /\ UNCHANGED <<cfg, host, diskVars, rocks, faults>>
    BY <1>1, Zenon DEF Resets
  <2>2. ~mysqld' /\ env' = k /\ \A u \in Threads : pc'[u] = IF u = Main THEN label ELSE "idle"
    BY <2>1, Zenon DEF Reset
  <2>3. timer => rocks # NoDb
    BY Zenon DEF Control
  <2>4. bakNow' = bakNow
    BY <2>1, Zenon DEF diskVars
  <2> QED
    BY <2>1, <2>2, <2>3, <2>4, SameFiles, ThreadsAssumption, Zenon DEF FileInv, Intact, Serving, LaunchLabels, InitLabels, Threads
<1>2. CASE Outside
  <2>1. /\ cfg'.enclave = cfg.enclave /\ cfg'.isMarble = cfg.isMarble /\ cfg'.launchKey = cfg.launchKey
        /\ pc[Main] = "down" \/ UNCHANGED <<cfg, host>>
        /\ UNCHANGED <<env, rocks, mysqld, pc, faults>>
        /\ NextSecond \/ UNCHANGED diskVars
    BY <1>2, Zenon DEF Outside, procVars
  <2>2. sealed' = sealed /\ (bakNow' = bakNow \/ bakNow' = NoFile)
    BY <2>1, Zenon DEF NextSecond, diskVars
  <2>3. pc[Main] = "down" => ~mysqld /\ \A u \in Handlers : pc[u] = "idle"
    BY Zenon DEF RunInv, Control
  <2>4. pc[Main] # "down" => \A k : Sealed(k)' <=> Sealed(k)
    BY <2>1, <2>2, Zenon DEF Sealed
  <2>5. KeysOnDisk' = KeysOnDisk /\ BackupKeys' = BackupKeys
    BY <2>1, FilesAssumption, Zenon DEF NextSecond, diskVars, KeysOnDisk, BackupKeys
  <2> QED
    BY <2>1, <2>2, <2>3, <2>4, <2>5, FilesAssumption, Zenon
    DEF FileInv, Intact, Storing, Serving, LaunchLabels, InitLabels
<1> QED
  BY <1>1, <1>2, Zenon

\* The end of the server leaves the calls where they are and the files alone.
LEMMA FileServerEnds ==
  ASSUME Typed, FileInv, ServerEnds
  PROVE  FileInv'
<1>1. UNCHANGED <<cfg, host, env, rocks, mysqld, faults, diskVars, sealed, bakNow>>
  BY Zenon DEF ServerEnds, hostVars, procVars, diskVars
<1>2. pc'[Main] = "exiting" /\ \A u \in Handlers : pc'[u] = pc[u]
  BY ThreadsAssumption, Zenon DEF ServerEnds, Terminate, Typed, TypeOK, Threads
<1> QED
  BY <1>1, <1>2, SameFiles, Zenon DEF FileInv, Intact, Serving, LaunchLabels, InitLabels

\* Every step, those of storeMasterKey and a crash included, keeps the key of the store in a file.
LEMMA FileStep == Typed /\ Control /\ CallInv /\ RunInv /\ FileInv /\ Effect => FileInv'
<1> SUFFICES ASSUME Typed, Control, CallInv, RunInv, FileInv, Effect PROVE FileInv'
  BY Zenon
<1>1. CASE KeyLoaded
  BY <1>1, FileLoads, Zenon
<1>2. CASE NewMasterKey
  BY <1>2, FileLoads, Zenon
<1>3. CASE EnterRecovery
  BY <1>3, FileLoads, Zenon
<1>4. ASSUME NEW t \in Threads,
             PostRecover(t) \/ RecoverLocks(t) \/ Encrypts(t) \/ InitializeLock(t) \/ Accepts(t) \/ ReplyManifest(t)
      PROVE  FileInv'
  BY <1>4, FileWaits, Zenon
<1>5. ASSUME NEW t \in Threads,
             KeySet(t) \/ OpenBackup(t) \/ WriteBackup(t) \/ TruncateSealed(t) \/ WriteSealed(t)
      PROVE  FileInv'
  BY <1>5, FileStores, Zenon
<1>6. ASSUME NEW t \in Threads, BootOpen(t) \/ BootDone(t) PROVE FileInv'
  BY <1>6, FileBoots, Zenon
<1>7. CASE Resets \/ Outside
  BY <1>7, FileOutside, Zenon
<1>8. ASSUME NEW t \in Threads, BootPanics(t) PROVE FileInv'
  BY <1>8, FaultCounted, Zenon DEF BootPanics, Typed, FileInv, Intact
<1>9. CASE ServerEnds
  BY <1>9, FileServerEnds, Zenon
<1> QED
  BY <1>1, <1>2, <1>3, <1>4, <1>5, <1>6, <1>7, <1>8, <1>9, FileEnds, ZenonT(60) DEF Effect, ThreadEffect

(***************************************************************************)
(*                   A Recover while the server runs                       *)
(***************************************************************************)

\* A new deployment runs no server.
LEMMA BackupInit == Init => BackupInv
  BY Zenon DEF Init, BackupInv

\* A step that brings no Recover past its backup, and leaves the backups alone, keeps BackupInv.
LEMMA BackupStays ==
  ASSUME BackupInv, UNCHANGED <<cfg, host, rocks, bakNow, backups>>, mysqld' => mysqld, Intact' => Intact,
         \A u \in Handlers : pc'[u] \in {"truncate", "write", "start"} => pc[u] \in {"truncate", "write", "start"}
  PROVE  BackupInv'
<1>1. LocalBackup' <=> LocalBackup
  BY Zenon DEF LocalBackup, LocalBlob
<1> QED
  BY <1>1, Zenon DEF BackupInv

\* A step after which no Recover is past its backup keeps BackupInv.
LEMMA BackupFree ==
  ASSUME \A u \in Handlers : pc'[u] \notin {"truncate", "write", "start"}
  PROVE  BackupInv'
  BY Zenon DEF BackupInv

\* Intact holds after a step only if it did before, unless the deployment changes.
LEMMA IntactBefore ==
  ASSUME TypeOK, cfg' = cfg, faults' = faults \/ Fault
  PROVE  Intact' => Intact
  BY FaultCounted, Zenon DEF Intact

\* A call that ends has no backup to make: if it starts the server, no other call is past its backup.
LEMMA BackupEnds ==
  ASSUME Typed, Control, RunInv, BackupInv, NEW t \in Threads, Ends(t)
  PROVE  BackupInv'
<1>1. UNCHANGED <<cfg, host, rocks, bakNow, backups>> /\ (faults' = faults \/ Fault)
  BY Zenon DEF Ends, hostVars, diskVars
<1>2. Intact' => Intact
  BY <1>1, IntactBefore, Zenon DEF Typed
<1>3. \A u \in Threads : pc'[u] \in {"serve", "idle", "exiting"} \/ pc'[u] = pc[u]
  BY EndsLocally, Zenon DEF Typed, Standing
<1>4. CASE mysqld' = mysqld
  BY <1>1, <1>2, <1>3, <1>4, BackupStays, Zenon DEF Threads
<1>5. CASE mysqld' # mysqld
  <2>1. pc[t] = "start" /\ (t = Main \/ Return(t)) /\ Alive(t)
    BY <1>5, Zenon DEF Ends
  <2>2. CASE t = Main
    <3>1. \A u \in Handlers : pc[u] = "idle"
      BY <2>1, <2>2, Zenon DEF Control
    <3> QED
      BY <1>3, <3>1, BackupFree, Zenon DEF Threads
  <2>3. CASE t # Main
    <3>1. \A u \in Threads : u # t => pc[u] \notin RecoverLabels
      BY <2>1, <2>3, MutexAlone, Zenon DEF RecoverLabels
    <3>2. pc'[t] \in {"serve", "idle"}
      BY <2>1, <2>3, Zenon DEF Return, Typed, TypeOK
    <3> QED
      BY <1>3, <3>1, <3>2, BackupFree, Zenon DEF RecoverLabels, StoreLabels, Threads
  <2> QED
    BY <2>2, <2>3, Zenon
<1> QED
  BY <1>4, <1>5, Zenon

\* storeMasterKey copies sealed_key, which holds the key of the store that runs, before it truncates it.
LEMMA BackupStores ==
  ASSUME Typed, Control, RunInv, FileInv, BackupInv, NEW t \in Threads,
         OpenBackup(t) \/ WriteBackup(t) \/ TruncateSealed(t) \/ WriteSealed(t)
  PROVE  BackupInv'
<1> USE DEF Typed
<1>1. /\ UNCHANGED <<cfg, host, rocks, mysqld>> /\ (faults' = faults \/ Fault) /\ Alive(t)
      /\ pc[t] \in StoreLabels
  BY Zenon DEF OpenBackup, WriteBackup, TruncateSealed, WriteSealed, StoreLabels, hostVars, procVars, dbVars
<1>2. Intact' => Intact
  BY <1>1, IntactBefore, Zenon
<1>3. CASE t = Main
  <2>1. ~mysqld
    BY <1>1, <1>3, LaunchAlone, Zenon DEF Control, LaunchLabels, StoreLabels
  <2> QED
    BY <1>1, <2>1, Zenon DEF BackupInv
<1>4. CASE t # Main
  <2>1. \A u \in Threads : u # t => pc[u] \notin RecoverLabels
    BY <1>1, <1>4, MutexAlone, Zenon DEF RecoverLabels
  <2>2. CASE TruncateSealed(t) \/ WriteSealed(t)
    <3>1. pc[t] \in {"truncate", "write"} /\ UNCHANGED <<bakNow, backups>> /\ \E label : Goto(t, label)
      BY <2>2, Zenon DEF TruncateSealed, WriteSealed, SealedTruncated, SealedWritten
    <3>2. \A u \in Threads : u # t => pc'[u] = pc[u]
      BY <3>1, GotoMoves, Zenon
    <3> QED
      BY <1>1, <1>2, <3>1, <3>2, BackupStays, Zenon DEF Threads
  <2>3. ASSUME OpenBackup(t) \/ WriteBackup(t), Intact', mysqld, cfg.enclave
        PROVE  /\ LocalBackup' \/ pc'[t] = "backupWrite"
               /\ \A u \in Threads : u # t => pc'[u] = pc[u]
    <3>1. pc[t] \in {"backup", "backupWrite"} /\ \E label : Goto(t, label)
      BY <2>3, Zenon DEF OpenBackup, WriteBackup
    <3>2. \A u \in Handlers : pc[u] \notin {"write", "start"}
      BY <2>1, <3>1, Zenon DEF RecoverLabels, StoreLabels, Threads
    <3>3. Sealed(rocks.key)
      BY <1>2, <2>3, <3>2, Zenon DEF FileInv
    <3>4. sealed = LocalBlob /\ sealed # NoFile
      BY <2>3, <3>3, FilesAssumption DEF Sealed, Blob, LocalBlob
    <3>5. ~Fault
      BY <2>3, FaultCounted, Zenon DEF Intact
    <3>6. \A u \in Threads : u # t => pc'[u] = pc[u]
      BY <3>1, GotoMoves, Zenon
    <3>7. CASE OpenBackup(t)
      BY <3>4, <3>5, <3>6, <3>7, GotoMoves, Zenon DEF OpenBackup
    <3>8. CASE WriteBackup(t)
      BY <1>1, <3>4, <3>5, <3>6, <3>8, Zenon DEF WriteBackup, BackupWritten, LocalBackup, LocalBlob
    <3> QED
      BY <2>3, <3>7, <3>8, Zenon
  <2> QED
    BY <1>1, <1>4, <2>1, <2>2, <2>3, Zenon DEF BackupInv, RecoverLabels, StoreLabels, Threads
<1> QED
  BY <1>3, <1>4, Zenon

\* Every step keeps a copy of the key of a store that runs.
LEMMA BackupStep == Typed /\ Control /\ RunInv /\ FileInv /\ BackupInv /\ Effect => BackupInv'
<1> SUFFICES ASSUME Typed, Control, RunInv, FileInv, BackupInv, Effect PROVE BackupInv'
  BY Zenon
<1>1. CASE KeyLoaded \/ NewMasterKey \/ EnterRecovery
  <2>1. pc[Main] = "load" /\ mysqld' = mysqld
    BY <1>1, Zenon DEF KeyLoaded, NewMasterKey, EnterRecovery, dbVars
  <2> QED
    BY <2>1, LaunchAlone, Zenon DEF BackupInv, LaunchLabels
<1>2. ASSUME NEW t \in Threads,
             \/ PostRecover(t) \/ RecoverLocks(t) \/ KeySet(t) \/ Encrypts(t) \/ InitializeLock(t) \/ Accepts(t)
             \/ ReplyManifest(t)
      PROVE  BackupInv'
  <2>1. UNCHANGED <<cfg, host, rocks, bakNow, backups, mysqld, faults>>
    BY <1>2, Zenon DEF PostRecover, RecoverLocks, KeySet, Encrypts, InitializeLock, Accepts, ReplyManifest,
       hostVars, procVars, dbVars, diskVars
  <2>2. PICK label \in {"recLock", "setKey", "backup", "initLock", "init", "boot", "serve", "idle"} : Goto(t, label)
    BY <1>2, Zenon DEF PostRecover, RecoverLocks, KeySet, Encrypts, InitializeLock, Accepts, ReplyManifest, Return, Goto
  <2>3. \A u \in Threads : pc'[u] = IF u = t THEN label ELSE pc[u]
    BY <2>2, GotoMoves, Zenon DEF Typed
  <2> QED
    BY <2>1, <2>2, <2>3, BackupStays, Zenon DEF Intact, Threads
<1>3. ASSUME NEW t \in Threads, BootOpen(t) \/ BootDone(t) PROVE BackupInv'
  <2>1. pc[t] \in InitLabels /\ Alive(t) /\ \E label \in {"bootSql", "bootAgain", "reply"} : Goto(t, label)
    BY <1>3, Zenon DEF BootOpen, BootDone, InitLabels
  <2>2. \A u \in Handlers : u # t => pc[u] \notin RecoverLabels
    BY <2>1, MutexAlone, Zenon DEF Control, RecoverLabels, StoreLabels, InitLabels, Threads
  <2>3. \A u \in Handlers : pc'[u] \notin {"truncate", "write", "start"}
    BY <2>1, <2>2, GotoMoves, Zenon DEF Typed, RecoverLabels, StoreLabels, Threads
  <2> QED
    BY <2>3, BackupFree, Zenon
<1>4. ASSUME NEW t \in Threads, BootPanics(t) PROVE BackupInv'
  BY <1>4, FaultCounted, Zenon DEF BootPanics, Typed, BackupInv, Intact
<1>5. CASE ServerEnds
  <2>1. UNCHANGED <<cfg, host, rocks, bakNow, backups, mysqld, faults>>
    BY <1>5, Zenon DEF ServerEnds, hostVars, procVars, diskVars
  <2>2. \A u \in Handlers : pc'[u] = pc[u]
    BY <1>5, ThreadsAssumption, Zenon DEF ServerEnds, Terminate, Typed, TypeOK, Threads
  <2> QED
    BY <2>1, <2>2, BackupStays, Zenon DEF Intact
<1>6. CASE Resets
  BY <1>6, Zenon DEF Resets, Reset, BackupInv
<1>7. CASE Outside
  <2>1. /\ pc[Main] = "down" \/ UNCHANGED <<cfg, host>>
        /\ UNCHANGED <<rocks, mysqld, pc, faults>>
        /\ NextSecond \/ UNCHANGED diskVars
    BY <1>7, Zenon DEF Outside, procVars
  <2>2. mysqld => pc[Main] # "down"
    BY Zenon DEF RunInv
  <2>3. mysqld /\ LocalBackup => LocalBackup'
    BY <2>1, <2>2, Zenon DEF LocalBackup, LocalBlob, NextSecond, diskVars
  <2> QED
    BY <2>1, <2>2, <2>3, Zenon DEF BackupInv, Intact
<1> QED
  BY <1>1, <1>2, <1>3, <1>4, <1>5, <1>6, <1>7, BackupEnds, BackupStores, ZenonT(60) DEF Effect, ThreadEffect

(***************************************************************************)
(*                             The theorems                                *)
(***************************************************************************)
IInv == Typed /\ Control /\ CallInv /\ AckInv /\ RunInv /\ FileInv /\ BackupInv

\* The inductive invariant holds of every reachable state.
THEOREM Invariance == Spec => []IInv
<1>1. Init => IInv
  BY TypeInit, ControlInit, CallInit, AckInit, RunInit, FileInit, BackupInit, Zenon DEF IInv
<1>2. IInv /\ [Next]_vars => IInv'
  BY TypeStep, Effects, ControlStep, CallStep, AckStep, RunStep, FileStep, BackupStep, Zenon DEF IInv, Typed
<1> QED
  BY <1>1, <1>2, PTL DEF Spec

(***************************************************************************)
(* storeMasterKey never loses the key of the database, however crashes,    *)
(* moves and calls of /recover interleave, if a start takes over a second. *)
(***************************************************************************)
THEOREM DataKeyKept ==
  ASSUME SlowRelaunch
  PROVE  Spec => []DataKeyOnDisk
<1>1. IInv => DataKeyOnDisk
  BY Zenon DEF IInv, FileInv, Intact, DataKeyOnDisk
<1> QED
  BY <1>1, Invariance, PTL

\* A manifest Initialize acknowledged is the one in the database, in every later state.
THEOREM AckedManifestKept == Spec => []AckedManifestIsStored
<1>1. IInv => AckedManifestIsStored
  BY Zenon DEF IInv, AckInv, AckedManifestIsStored
<1> QED
  BY <1>1, Invariance, PTL

\* Recovery data encryptRecoveryKey made outside recovery mode opens the database.
THEOREM RecoveryDataValid == Spec => []RecoveryDataOpensDatabase
<1>1. IInv => RecoveryDataOpensDatabase
  BY Zenon DEF IInv, AckInv
<1> QED
  BY <1>1, Invariance, PTL

(***************************************************************************)
(* The host of a running database keeps its key: in sealed_key, or, while  *)
(* a further /recover is at work, in a backup.                             *)
(***************************************************************************)
THEOREM RunningKeyKept ==
  ASSUME SlowRelaunch
  PROVE  Spec => []LocalKeyKept
<1>1. ASSUME IInv, DbRunning, cfg.enclave, ~cfg.isMarble, faults = 0
      PROVE  sealed = LocalBlob \/ (RecoverActive /\ LocalBackup)
  <2>1. Intact /\ mysqld
    BY <1>1, ConfigFacts, Zenon DEF Intact, DbRunning, IInv, Typed, TypeOK
  <2>2. CASE \E t \in Handlers : pc[t] \in {"write", "start"}
    BY <1>1, <2>1, <2>2, Zenon DEF IInv, BackupInv, RecoverActive
  <2>3. CASE \A t \in Handlers : pc[t] \notin {"write", "start"}
    <3>1. Sealed(rocks.key)
      BY <1>1, <2>1, <2>3, Zenon DEF IInv, FileInv
    <3> QED
      BY <1>1, <3>1 DEF Sealed, Blob, LocalBlob
  <2> QED
    BY <2>2, <2>3, Zenon
<1>2. IInv => LocalKeyKept
  BY <1>1, Zenon DEF LocalKeyKept, LocalBackup, LocalBlob
<1> QED
  BY <1>2, Invariance, PTL

(***************************************************************************)
(*                        The deployment is a Vault                        *)
(*                                                                         *)
(* The proof needs the inductive invariant, above all that a call holds on *)
(* to its manifest (CallInv) and that a signature is only set by a Start   *)
(* that has brought up the server (RunInv).                                *)
(***************************************************************************)

\* What a Vault sees of the deployment.
Served == IF DbRunning THEN manifestSig ELSE NoManifest
Promised == {a.man : a \in acked}

\* Everything a Vault sees is left alone.
Unseen == UNCHANGED <<rocks, mysqld, manifestSig, acked, cfg>>

\* The steps that a Vault can see; the process ends or starts in the last four.
Seen ==
  \/ \E t \in Threads : StartDatabase(t) \/ BootOpen(t) \/ BootDone(t) \/ BootPanics(t) \/ ReplyManifest(t)
  \/ Reconfigure
  \/ Exit \/ Crash \/ Launch \/ Restart

\* Every other step of the deployment is internal: it leaves the store, the server and the answers alone.
LEMMA OtherSteps == [Next]_vars => Seen \/ Unseen
<1> SUFFICES ASSUME [Next]_vars PROVE Seen \/ Unseen
  BY Zenon
<1> USE DEF Unseen, hostVars, diskVars, dbVars, callVars, procVars
<1>1. ASSUME LoadStep PROVE Unseen
  BY <1>1, Zenon DEF LoadStep, KeyLoaded, NewMasterKey, LoadPanics, EnterRecovery
<1>2. ASSUME NEW t \in Threads, Step(t) PROVE Seen \/ Unseen
  <2>1. CASE StartDatabase(t) \/ BootOpen(t) \/ BootDone(t) \/ BootPanics(t) \/ ReplyManifest(t)
    BY <2>1, Zenon DEF Seen
  <2>2. CASE RecoverLock(t) \/ SetMasterKey(t) \/ OpenBackup(t) \/ WriteBackup(t) \/ TruncateSealed(t)
             \/ WriteSealed(t) \/ StoreFails(t)
    BY <2>2, Zenon DEF RecoverLock, SetMasterKey, OpenBackup, WriteBackup, TruncateSealed, WriteSealed, StoreFails
  <2>3. CASE StartUninitialized(t) \/ StartFatal(t) \/ StartFails(t) \/ InitializeLock(t) \/ Initialize(t)
             \/ InitializeFails(t) \/ BootFatal(t) \/ BootError(t)
    BY <2>3, Zenon DEF StartUninitialized, StartFatal, StartFails, InitializeLock, Initialize, InitializeFails,
       BootFatal, BootError
  <2> QED
    BY <1>2, <2>1, <2>2, <2>3, Zenon DEF Step
<1>3. ASSUME NEW t \in Handlers, PostRecover(t) \/ PostManifest(t) PROVE Unseen
  BY <1>3, Zenon DEF PostRecover, PostManifest
<1>4. ASSUME ServerEnds \/ MoveHost \/ Second PROVE Unseen
  BY <1>4, Zenon DEF ServerEnds, MoveHost, Second
<1>5. CASE UNCHANGED vars
  BY <1>5, Zenon DEF vars
<1>6. CASE Reconfigure \/ Exit \/ Crash \/ Launch \/ Restart
  BY <1>6, Zenon DEF Seen
<1> QED
  BY <1>1, <1>2, <1>3, <1>4, <1>5, <1>6, Zenon DEF Next

\* A process that ends or starts has no server and no signature, and leaves the store and the answers alone.
LEMMA ProcessSteps ==
  ASSUME Exit \/ Crash \/ Launch \/ Restart
  PROVE  mysqld' = FALSE /\ manifestSig' = NoManifest /\ UNCHANGED <<rocks, acked, cfg>>
  BY Zenon DEF Exit, Crash, Launch, Restart, Reset, hostVars

\* Every step of the deployment is a step of the Vault or changes nothing it can see.
LEMMA VaultStep == IInv /\ [Next]_vars => [V!Next]_(V!vars)
<1> SUFFICES ASSUME IInv, [Next]_vars PROVE V!Next \/ UNCHANGED <<rocks, Served, Promised, cfg.debug>>
  BY Zenon DEF V!vars, Served, Promised
<1>1. CASE Unseen
  BY <1>1, Zenon DEF Unseen, Served, Promised, DbRunning
<1>2. ASSUME NEW t \in Threads, StartDatabase(t) PROVE V!Next \/ UNCHANGED <<rocks, Served, Promised, cfg.debug>>
  <2>1. rocks # NoDb /\ rocks.config # NoManifest /\ UNCHANGED <<rocks, acked, cfg>>
    BY <1>2, Zenon DEF StartDatabase, Startable, hostVars
  <2>2. mysqld' = TRUE /\ mysqld = FALSE /\ manifestSig = NoManifest
    BY <1>2, Zenon DEF StartDatabase, Startable, Opens, IInv, RunInv, Typed, TypeOK
  <2>3. CASE DebugAllowed
    <3>1. Served' = rocks.config
      BY <1>2, <2>1, <2>2, <2>3, Zenon DEF StartDatabase, Served, DbRunning
    <3> QED
      BY <2>1, <2>3, <3>1, Zenon DEF DebugAllowed, Served, Promised, V!Next, V!Serve
  <2>4. CASE ~DebugAllowed
    BY <1>2, <2>1, <2>2, <2>4, Zenon DEF StartDatabase, Served, Promised, DbRunning
  <2> QED
    BY <2>3, <2>4, Zenon
<1>3. ASSUME NEW t \in Threads, BootOpen(t) PROVE V!Next \/ UNCHANGED <<rocks, Served, Promised, cfg.debug>>
  <2>1. UNCHANGED <<Served, Promised, cfg>> /\ env \in Keys
    BY <1>3, Zenon DEF BootOpen, Opens, procVars, hostVars, Served, Promised, DbRunning
  <2>2. rocks' = IF rocks = NoDb THEN [key |-> env, config |-> NoManifest] ELSE rocks
    BY <1>3, Zenon DEF BootOpen, StoreOpened
  <2> QED
    BY <2>1, <2>2, Zenon DEF Served, Promised, V!Next, V!Create
<1>4. ASSUME NEW t \in Threads, BootDone(t) \/ BootPanics(t) PROVE V!Next \/ UNCHANGED <<rocks, Served, Promised, cfg.debug>>
  <2>1. UNCHANGED <<Served, Promised, cfg>>
    <3>1. UNCHANGED <<mysqld, manifestSig, acked, cfg>>
      BY <1>4, Zenon DEF BootDone, BootPanics, hostVars, procVars, dbVars
    <3> QED
      BY <3>1, Zenon DEF Served, Promised, DbRunning
  <2>2. /\ rocks # NoDb /\ rocks.config = NoManifest
        /\ man[t] \in Manifests /\ rocks' = [key |-> rocks.key, config |-> man[t]]
    BY <1>4, Zenon DEF BootDone, BootPanics, ConfigInserted, IInv, CallInv, InitLabels
  <2> QED
    BY <2>1, <2>2, Zenon DEF Served, Promised, V!Next, V!Commit
<1>5. ASSUME NEW t \in Threads, ReplyManifest(t) PROVE V!Next \/ UNCHANGED <<rocks, Served, Promised, cfg.debug>>
  <2>1. UNCHANGED <<rocks, Served, cfg>>
    BY <1>5, Zenon DEF ReplyManifest, hostVars, procVars, Served, DbRunning
  <2>2. rocks # NoDb /\ rocks.config = man[t] /\ rocks.config # NoManifest
    BY <1>5, ManifestsAssumption, Zenon DEF ReplyManifest, IInv, CallInv
  <2>3. Promised' = Promised \cup {rocks.config}
    <3> DEFINE r == [man |-> man[t], key |-> rkey[t], mode |-> state]
    <3>1. acked' = acked \cup {r}
      BY <1>5, Zenon DEF ReplyManifest
    <3>2. r.man = rocks.config
      BY <2>2, Zenon
    <3> HIDE DEF r
    <3> QED
      BY <3>1, <3>2, Zenon DEF Promised
  <2> QED
    BY <2>1, <2>2, <2>3, Zenon DEF Served, Promised, V!Next, V!Acknowledge
<1>6. CASE Exit \/ Crash \/ Launch \/ Restart
  <2>1. Served' = NoManifest /\ UNCHANGED <<rocks, Promised, cfg>>
    BY <1>6, ProcessSteps, Zenon DEF Served, Promised, DbRunning
  <2> QED
    BY <2>1, Zenon DEF Served, Promised, V!Next, V!Stop
<1>7. CASE Reconfigure
  <2>1. UNCHANGED <<rocks, mysqld, manifestSig, acked>> /\ pc[Main] = "down"
    BY <1>7, Zenon DEF Reconfigure, procVars
  <2>2. Served = NoManifest /\ UNCHANGED <<rocks, Served, Promised>>
    BY <2>1, Zenon DEF Served, Promised, DbRunning, IInv, RunInv
  <2>3. cfg.debug \in BOOLEAN /\ cfg'.debug \in BOOLEAN /\ cfg'.debug # cfg.debug
    BY <1>7, ConfigFacts, Zenon DEF Reconfigure, IInv, Typed, TypeOK
  <2>4. cfg'.debug = ~cfg.debug
    BY <2>3
  <2> QED
    BY <2>2, <2>4, Zenon DEF Served, Promised, V!Next, V!SwitchMode
<1> QED
  BY <1>1, <1>2, <1>3, <1>4, <1>5, <1>6, <1>7, OtherSteps, Zenon DEF Seen

(***************************************************************************)
(* A deployment of any size, with any crashes, moves, failing calls and    *)
(* manifests, is a Vault: one store, one key, one manifest, no promise and *)
(* no service before the manifest is in the store.                         *)
(***************************************************************************)
THEOREM ImplementsVault == Spec => VaultRefinement
<1>1. Init => V!Init
  BY ConfigFacts, Zenon DEF Init, V!Init, DbRunning
<1> QED
  BY <1>1, Invariance, VaultStep, PTL DEF Spec, VaultRefinement, V!Spec
=============================================================================
