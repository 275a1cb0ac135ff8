------------------------------ MODULE EdbCore ------------------------------
(***************************************************************************)
(* The life of an EdgelessDB deployment: edb/core/core.go composed with    *)
(* the master key (MasterKey) and the database (Mariadb), driven by the    *)
(* main thread of cmd/edb/run.go and by the HTTP handlers of               *)
(* edb/server/server.go, across crashes, restarts and moves of the data    *)
(* directory to another host.                                              *)
(*                                                                         *)
(* A thread is the main goroutine or one HTTP handler.  pc[t] names the    *)
(* step it is about to take; steps are cut where another thread, a crash   *)
(* or the restart timer can be observed: at lock operations, at file       *)
(* writes and around the calls into the server.                            *)
(***************************************************************************)
EXTENDS Mariadb, Naturals

CONSTANTS
  Handlers,     \* the goroutines net/http runs handlers in
  Main,         \* the main goroutine
  NoThread,     \* nobody holds the mutex
  RecoverKeys,  \* what clients post to /recover
  MaxCrashes,   \* bound on the number of crashes
  MaxMoves,     \* bound on the number of moves to another host
  MaxFaults,    \* bound on the number of failing system calls
  SlowRelaunch  \* a process start takes longer than a second

ASSUME ThreadsAssumption == Main \notin Handlers /\ NoThread \notin Handlers \cup {Main}

ASSUME RecoverAssumption == RecoverKeys \subseteq Keys \cup {BadKey}

ASSUME BoundsAssumption == MaxCrashes \in Nat /\ MaxMoves \in Nat /\ MaxFaults \in Nat /\ SlowRelaunch \in BOOLEAN

Threads == Handlers \cup {Main}

VARIABLES
  state,    \* c.state
  mutex,    \* the thread that holds c.mutex
  pc,       \* the next step of each thread
  key,      \* the key a thread was asked to store
  man,      \* the manifest a thread was asked to initialize with
  rkey,     \* the key a thread encrypted as recovery data
  timer,    \* a goroutine of Initialize sleeps and will restart the process
  acked,    \* every manifest acknowledged, with the key its recovery data holds
  crashes,  \* crashes so far
  moves,    \* moves so far
  faults    \* failed system calls so far

callVars == <<key, man, rkey>>
procVars == <<env, masterKey, state, timer, mysqld, manifestSig, attemptedInit>>
hostVars == <<cfg, host, crashes, moves>>
vars == <<cfg, host, env, masterKey, sealed, bakNow, backups, rocks, mysqld, manifestSig,
          attemptedInit, state, mutex, pc, key, man, rkey, timer, acked, crashes,
          moves, faults>>

\* The main goroutine has entered the server loop and handlers run.
Serving == pc[Main] = "serve"

Alive(t) == t = Main \/ Serving

Goto(t, label) == pc' = [pc EXCEPT ![t] = label]

(***************************************************************************)
(* The call t made returns: its deferred Unlock runs, its locals are gone  *)
(* and, for a handler, the client is answered.  The main goroutine goes on *)
(* to serve.                                                               *)
(***************************************************************************)
Return(t) ==
  /\ pc' = [pc EXCEPT ![t] = IF t = Main THEN "serve" ELSE "idle"]
  /\ mutex' = IF mutex = t THEN NoThread ELSE mutex
  /\ key' = [key EXCEPT ![t] = NoKey]
  /\ man' = [man EXCEPT ![t] = NoManifest]
  /\ rkey' = [rkey EXCEPT ![t] = NoKey]

\* The process is going to end: os.Exit, log.Fatal, or a panic nobody recovers.
Terminate == pc' = [pc EXCEPT ![Main] = "exiting"] /\ UNCHANGED <<mutex, callVars>>

\* run() panics on an error; net/http recovers the panic of a handler.
Fail(t) == IF t = Main THEN Terminate ELSE Return(t)

\* A system call fails.
Fault == faults < MaxFaults /\ faults' = faults + 1

Init ==
  /\ cfg \in Configs
  /\ host \in Hosts
  /\ env = NoKey /\ masterKey = NoKey
  /\ sealed = NoFile /\ bakNow = NoFile /\ backups = {}
  /\ rocks = NoDb /\ mysqld = FALSE /\ manifestSig = NoManifest /\ attemptedInit = FALSE
  /\ state = "Uninitialized" /\ mutex = NoThread /\ timer = FALSE
  /\ pc = [t \in Threads |-> IF t = Main THEN "down" ELSE "idle"]
  /\ key = [t \in Threads |-> NoKey]
  /\ man = [t \in Threads |-> NoManifest]
  /\ rkey = [t \in Threads |-> NoKey]
  /\ acked = {} /\ crashes = 0 /\ moves = 0 /\ faults = 0

(***************************************************************************)
(* mustInitMasterKey, called by NewCore.                                   *)
(***************************************************************************)
KeyLoaded ==
  /\ pc[Main] = "load" /\ LoadMasterKey \in Keys
  /\ env' = LoadMasterKey /\ masterKey' = LoadMasterKey
  /\ state' = "Initialized"
  /\ Goto(Main, "start")
  /\ UNCHANGED <<hostVars, diskVars, rocks, dbVars, mutex, callVars, timer, acked, faults>>

\* newMasterKey: a random key, put into the environment and then stored.
NewMasterKey ==
  /\ pc[Main] = "load" /\ LoadMasterKey = "notExist" /\ rocks = NoDb
  /\ \E k \in Keys : env' = k /\ key' = [key EXCEPT ![Main] = k]
  /\ Goto(Main, "backup")
  /\ UNCHANGED <<hostVars, masterKey, diskVars, rocks, dbVars, state, mutex, man, rkey, timer, acked, faults>>

\* The panics: MarbleRun gave no key, or the data directory cannot be examined.
LoadPanics ==
  /\ pc[Main] = "load"
  /\ (LoadMasterKey = "notProvided" /\ UNCHANGED faults) \/ Fault
  /\ Terminate
  /\ UNCHANGED <<hostVars, procVars, diskVars, rocks, acked>>

\* There is no usable key, or sealed_key exists and reading it fails.
EnterRecovery ==
  /\ pc[Main] = "load"
  /\ \/ LoadMasterKey \in {"invalid", "unreadable"} /\ UNCHANGED faults
     \/ LoadMasterKey = "notExist" /\ rocks # NoDb /\ UNCHANGED faults
     \/ env = NoKey /\ ~cfg.isMarble /\ sealed # NoFile /\ Fault
  /\ state' = "Recovery"
  /\ Goto(Main, "serve")
  /\ UNCHANGED <<hostVars, env, masterKey, diskVars, rocks, dbVars, mutex, callVars, timer, acked>>

(***************************************************************************)
(* POST /recover: Recover locks, checks the state and sets the key.        *)
(***************************************************************************)
PostRecover(t) ==
  /\ Serving /\ t # Main /\ pc[t] = "idle"
  /\ \E k \in RecoverKeys : key' = [key EXCEPT ![t] = k]
  /\ Goto(t, "recLock")
  /\ UNCHANGED <<hostVars, procVars, diskVars, rocks, mutex, man, rkey, acked, faults>>

\* Mutant: Recover does not check the state.
RecoverAlways(t) ==
  /\ Alive(t) /\ pc[t] = "recLock" /\ mutex = NoThread
  /\ mutex' = t /\ Goto(t, "setKey")
  /\ UNCHANGED <<hostVars, procVars, diskVars, rocks, callVars, acked, faults>>

\* Mutant: Recover waits until the state is right instead of returning an error.
RecoverWaits(t) ==
  /\ Alive(t) /\ pc[t] = "recLock" /\ mutex = NoThread
  /\ IF state = "Recovery"
     THEN mutex' = t /\ Goto(t, "setKey") /\ UNCHANGED callVars
     ELSE UNCHANGED <<mutex, pc, callVars>>
  /\ UNCHANGED <<hostVars, procVars, diskVars, rocks, acked, faults>>

RecoverLock(t) ==
  /\ Alive(t) /\ pc[t] = "recLock" /\ mutex = NoThread
  /\ IF state = "Recovery"
     THEN mutex' = t /\ Goto(t, "setKey") /\ UNCHANGED callVars
     ELSE Return(t)
  /\ UNCHANGED <<hostVars, procVars, diskVars, rocks, acked, faults>>

\* Mutant: storeMasterKeyToEnv does not check the size.
SetAnyKey(t) ==
  /\ Alive(t) /\ pc[t] = "setKey"
  /\ masterKey' = IF cfg.isMarble THEN masterKey ELSE key[t]
  /\ IF cfg.isMarble
     THEN Return(t) /\ UNCHANGED env
     ELSE env' = key[t] /\ Goto(t, "backup") /\ UNCHANGED <<mutex, callVars>>
  /\ UNCHANGED <<hostVars, state, timer, dbVars, diskVars, rocks, acked, faults>>

\* setMasterKey and storeMasterKeyToEnv: the field is set before the size is checked.
SetMasterKey(t) ==
  /\ Alive(t) /\ pc[t] = "setKey"
  /\ masterKey' = IF cfg.isMarble THEN masterKey ELSE key[t]
  /\ IF cfg.isMarble \/ key[t] \notin Keys
     THEN Return(t) /\ UNCHANGED env
     ELSE env' = key[t] /\ Goto(t, "backup") /\ UNCHANGED <<mutex, callVars>>
  /\ UNCHANGED <<hostVars, state, timer, dbVars, diskVars, rocks, acked, faults>>

(***************************************************************************)
(* storeMasterKey, called by newMasterKey and setMasterKey.                *)
(***************************************************************************)
\* Mutant: the old file is overwritten without a backup.
SkipBackup(t) ==
  /\ Alive(t) /\ pc[t] = "backup"
  /\ Goto(t, "truncate")
  /\ UNCHANGED <<hostVars, procVars, diskVars, rocks, mutex, callVars, acked, faults>>

\* There is no backup if sealed_key does not exist or one of the two files cannot be opened.
OpenBackup(t) ==
  /\ Alive(t) /\ pc[t] = "backup"
  /\ \/ sealed = NoFile /\ Goto(t, "truncate") /\ UNCHANGED <<diskVars, faults>>
     \/ sealed # NoFile /\ Goto(t, "backupWrite") /\ BackupOpened /\ UNCHANGED faults
     \/ sealed # NoFile /\ Goto(t, "truncate") /\ Fault /\ UNCHANGED diskVars
  /\ UNCHANGED <<hostVars, procVars, rocks, mutex, callVars, acked>>

\* The result of writing the backup is ignored.
WriteBackup(t) ==
  /\ Alive(t) /\ pc[t] = "backupWrite"
  /\ \/ BackupWritten /\ UNCHANGED faults
     \/ Fault /\ UNCHANGED diskVars
  /\ Goto(t, "truncate")
  /\ UNCHANGED <<hostVars, procVars, rocks, mutex, callVars, acked>>

TruncateSealed(t) ==
  /\ Alive(t) /\ pc[t] = "truncate"
  /\ SealedTruncated
  /\ Goto(t, "write")
  /\ UNCHANGED <<hostVars, procVars, rocks, mutex, callVars, acked, faults>>

\* The end of storeMasterKey; for the main goroutine also the end of mustInitMasterKey.
WriteSealed(t) ==
  /\ Alive(t) /\ pc[t] = "write"
  /\ SealedWritten(key[t])
  /\ masterKey' = IF t = Main THEN key[t] ELSE masterKey
  /\ state' = IF t = Main THEN "Initialized" ELSE state
  /\ Goto(t, "start")
  /\ UNCHANGED <<hostVars, env, timer, dbVars, rocks, mutex, callVars, acked, faults>>

\* Sealing, MkdirAll or the write of sealed_key fails.
StoreFails(t) ==
  /\ Alive(t) /\ pc[t] \in {"backup", "truncate", "write"}
  /\ Fault
  /\ Fail(t)
  /\ UNCHANGED <<hostVars, procVars, diskVars, rocks, acked>>

(***************************************************************************)
(* core.Initialize up to its Lock: the recovery data is made from          *)
(* c.masterKey without the mutex.  If Recover is assigning the slice at    *)
(* that moment, the read may tear and yield neither key.                   *)
(***************************************************************************)
MasterKeyReads == {masterKey} \cup {BadKey : u \in {v \in Threads : pc[v] = "setKey"}}

EncryptRecoveryKey(t, m) ==
  IF m.json = "bad" \/ m.recovery = "bad"
  THEN Fail(t)
  ELSE /\ man' = [man EXCEPT ![t] = m]
       /\ \E k \in MasterKeyReads :
            rkey' = [rkey EXCEPT ![t] = IF m.recovery = "rsa" THEN k ELSE NoKey]
       /\ Goto(t, "initLock")
       /\ UNCHANGED <<mutex, key>>

\* POST /manifest.
PostManifest(t) ==
  /\ Serving /\ t # Main /\ pc[t] = "idle"
  /\ \E m \in Manifests : EncryptRecoveryKey(t, m)
  /\ UNCHANGED <<hostVars, procVars, diskVars, rocks, acked, faults>>

(***************************************************************************)
(* StartDatabase, called by run() and, with the mutex held, by Recover.    *)
(***************************************************************************)
StartUninitialized(t) ==
  /\ Alive(t) /\ pc[t] = "start" /\ rocks = NoDb
  /\ IF cfg.manifest # NoManifest
     THEN EncryptRecoveryKey(t, cfg.manifest)
     ELSE IF cfg.isMarble THEN Fail(t) ELSE Return(t)
  /\ UNCHANGED <<hostVars, procVars, diskVars, rocks, acked, faults>>

\* Mutant: Start does not compare the mode with the manifest in the store.
StartAnyMode(t) ==
  /\ Alive(t) /\ pc[t] = "start" /\ rocks # NoDb /\ Startable
  /\ mysqld' = TRUE
  /\ manifestSig' = rocks.config
  /\ Return(t)
  /\ UNCHANGED <<hostVars, env, masterKey, state, timer, attemptedInit, diskVars, rocks, acked, faults>>

(***************************************************************************)
(* With the signature set the certificates may still fail, and so may the  *)
(* last connection: it races with the server (EdbSystem), without a fault. *)
(***************************************************************************)
StartDatabase(t) ==
  /\ Alive(t) /\ pc[t] = "start" /\ rocks # NoDb /\ Startable
  /\ mysqld' = TRUE
  /\ manifestSig' = IF DebugAllowed THEN rocks.config ELSE manifestSig
  /\ \/ DebugAllowed /\ Return(t) /\ UNCHANGED faults
     \/ DebugAllowed /\ Fail(t) /\ (Fault \/ UNCHANGED faults)
     \/ ~DebugAllowed /\ Fail(t) /\ UNCHANGED faults
  /\ UNCHANGED <<hostVars, env, masterKey, state, timer, attemptedInit, diskVars, rocks, acked>>

\* A wrong key, a database without configuration, a second server: the process ends.
StartFatal(t) ==
  /\ Alive(t) /\ pc[t] = "start" /\ rocks # NoDb /\ ~Startable
  /\ Terminate
  /\ UNCHANGED <<hostVars, procVars, diskVars, rocks, acked, faults>>

\* #rocksdb or the files of a start are not accessible, or the server cannot bind its port.
StartFails(t) ==
  /\ Alive(t) /\ pc[t] = "start"
  /\ Fault
  /\ Fail(t) \/ (rocks # NoDb /\ Terminate)
  /\ UNCHANGED <<hostVars, procVars, diskVars, rocks, acked>>

\* mariadbd.Main returns or aborts: its goroutine panics.
ServerEnds ==
  /\ Serving /\ mysqld
  /\ Terminate
  /\ UNCHANGED <<hostVars, procVars, diskVars, rocks, acked, faults>>

(***************************************************************************)
(* core.Initialize from its Lock on, db.Initialize included.               *)
(***************************************************************************)
InitializeLock(t) ==
  /\ Alive(t) /\ pc[t] = "initLock" /\ mutex = NoThread
  /\ mutex' = t
  /\ Goto(t, "init")
  /\ UNCHANGED <<hostVars, procVars, diskVars, rocks, callVars, acked, faults>>

Initialize(t) ==
  /\ Alive(t) /\ pc[t] = "init"
  /\ IF InitRefused(man[t])
     THEN Fail(t) /\ UNCHANGED attemptedInit
     ELSE attemptedInit' = TRUE /\ Goto(t, "boot") /\ UNCHANGED <<mutex, callVars>>
  /\ UNCHANGED <<hostVars, env, masterKey, state, timer, mysqld, manifestSig, diskVars, rocks, acked, faults>>

\* bootSql: a new store; bootAgain: mariadbd bootstraps into one that exists.
BootOpen(t) ==
  /\ Alive(t) /\ pc[t] = "boot" /\ Opens
  /\ StoreOpened
  /\ Goto(t, IF rocks = NoDb THEN "bootSql" ELSE "bootAgain")
  /\ UNCHANGED <<hostVars, procVars, diskVars, mutex, callVars, acked, faults>>

\* The server exits, or Main returns an error and Initialize panics.
BootFatal(t) ==
  /\ Alive(t) /\ pc[t] = "boot" /\ ~Opens
  /\ Terminate \/ Fail(t)
  /\ UNCHANGED <<hostVars, procVars, diskVars, rocks, acked, faults>>

\* Mutant: the goroutine that restarts the process is not started.
BootWithoutRestart(t) ==
  /\ Alive(t) /\ pc[t] \in {"bootSql", "bootAgain"}
  /\ man[t].sql /\ rocks.config = NoManifest
  /\ ConfigInserted(man[t])
  /\ mutex' = NoThread
  /\ Goto(t, "reply")
  /\ UNCHANGED <<hostVars, procVars, diskVars, callVars, acked, faults>>

\* All statements succeed.  The restart timer starts, the deferred Unlock runs.
BootDone(t) ==
  /\ Alive(t) /\ pc[t] \in {"bootSql", "bootAgain"}
  /\ man[t].sql /\ rocks.config = NoManifest
  /\ ConfigInserted(man[t])
  /\ timer' = TRUE
  /\ mutex' = NoThread
  /\ Goto(t, "reply")
  /\ UNCHANGED <<hostVars, env, masterKey, state, dbVars, diskVars, callVars, acked, faults>>

\* The manifest is inserted, but Main returns an error or its log cannot be read: no restart.
BootPanics(t) ==
  /\ Alive(t) /\ pc[t] \in {"bootSql", "bootAgain"}
  /\ man[t].sql /\ rocks.config = NoManifest
  /\ ConfigInserted(man[t])
  /\ Fault
  /\ Fail(t)
  /\ UNCHANGED <<hostVars, procVars, diskVars, acked>>

\* Mutant: Initialize ignores the result of printErrorLog.
BootErrorIgnored(t) ==
  /\ Alive(t)
  /\ pc[t] = "bootAgain" \/ (pc[t] = "bootSql" /\ ~man[t].sql)
  /\ timer' = TRUE
  /\ mutex' = NoThread
  /\ Goto(t, "reply")
  /\ UNCHANGED <<hostVars, env, masterKey, state, dbVars, diskVars, rocks, callVars, acked, faults>>

(***************************************************************************)
(* printErrorLog finds an error: in the SQL of the manifest or, in a store *)
(* that exists, in CREATE DATABASE mysql, the first statement.             *)
(***************************************************************************)
BootError(t) ==
  /\ Alive(t)
  /\ pc[t] = "bootAgain" \/ (pc[t] = "bootSql" /\ ~man[t].sql)
  /\ Fail(t)
  /\ UNCHANGED <<hostVars, procVars, diskVars, rocks, acked, faults>>

\* The files of the bootstrap cannot be written, or Main ends before the manifest is inserted.
InitializeFails(t) ==
  /\ Alive(t)
  /\ pc[t] \in {"bootSql", "bootAgain"} \/ (pc[t] = "init" /\ ~InitRefused(man[t]))
  /\ Fault
  /\ Fail(t)
  /\ UNCHANGED <<hostVars, procVars, diskVars, rocks, acked>>

\* The handler writes the answer; for a manifest file the data is printed.
ReplyManifest(t) ==
  /\ Alive(t) /\ pc[t] = "reply"
  /\ acked' = acked \cup {[man |-> man[t], key |-> rkey[t], mode |-> state]}
  /\ Return(t)
  /\ UNCHANGED <<hostVars, procVars, diskVars, rocks, faults>>

(***************************************************************************)
(* The process and its host.  A process that ends leaves the disk behind.  *)
(***************************************************************************)
Reset(label, newEnv) ==
  /\ env' = newEnv
  /\ masterKey' = NoKey
  /\ mysqld' = FALSE /\ manifestSig' = NoManifest /\ attemptedInit' = FALSE
  /\ state' = "Uninitialized" /\ mutex' = NoThread /\ timer' = FALSE
  /\ pc' = [t \in Threads |-> IF t = Main THEN label ELSE "idle"]
  /\ key' = [t \in Threads |-> NoKey]
  /\ man' = [t \in Threads |-> NoManifest]
  /\ rkey' = [t \in Threads |-> NoKey]

Exit ==
  /\ pc[Main] = "exiting"
  /\ Reset("down", NoKey)
  /\ UNCHANGED <<hostVars, diskVars, rocks, acked, faults>>

Crash ==
  /\ pc[Main] # "down" /\ crashes < MaxCrashes
  /\ crashes' = crashes + 1
  /\ Reset("down", NoKey)
  /\ UNCHANGED <<cfg, host, moves, diskVars, rocks, acked, faults>>

\* NewMariadb and NewCore begin with the environment the process was given.
Launch ==
  /\ pc[Main] = "down" /\ (SlowRelaunch => bakNow = NoFile)
  /\ Reset("load", cfg.launchKey)
  /\ UNCHANGED <<hostVars, diskVars, rocks, acked, faults>>

\* The sleep of one second is over: RestartHostProcess.  execv keeps the environment.
Restart ==
  /\ timer /\ pc[Main] # "exiting" /\ (SlowRelaunch => bakNow = NoFile)
  /\ Reset("load", IF cfg.enclave THEN cfg.launchKey ELSE env)
  /\ UNCHANGED <<hostVars, diskVars, rocks, acked, faults>>

MoveHost ==
  /\ pc[Main] = "down" /\ moves < MaxMoves
  /\ moves' = moves + 1
  /\ \E h \in Hosts \ {host} : host' = h
  /\ UNCHANGED <<cfg, crashes, procVars, diskVars, rocks, mutex, pc, callVars, acked, faults>>

\* The operator launches the process with or without debug mode the next time.
Reconfigure ==
  /\ pc[Main] = "down"
  /\ \E c \in Configs :
       /\ c.debug # cfg.debug
       /\ c.enclave = cfg.enclave /\ c.isMarble = cfg.isMarble
       /\ c.manifest = cfg.manifest /\ c.launchKey = cfg.launchKey
       /\ cfg' = c
  /\ UNCHANGED <<host, crashes, moves, procVars, diskVars, rocks, mutex, pc, callVars, acked, faults>>

Second ==
  /\ NextSecond
  /\ UNCHANGED <<hostVars, procVars, rocks, mutex, pc, callVars, acked, faults>>

Step(t) ==
  \/ RecoverLock(t) \/ SetMasterKey(t)
  \/ OpenBackup(t) \/ WriteBackup(t) \/ TruncateSealed(t) \/ WriteSealed(t) \/ StoreFails(t)
  \/ StartUninitialized(t) \/ StartDatabase(t) \/ StartFatal(t) \/ StartFails(t)
  \/ InitializeLock(t) \/ Initialize(t) \/ InitializeFails(t)
  \/ BootOpen(t) \/ BootFatal(t) \/ BootDone(t) \/ BootPanics(t) \/ BootError(t)
  \/ ReplyManifest(t)

LoadStep == KeyLoaded \/ NewMasterKey \/ LoadPanics \/ EnterRecovery

Next ==
  \/ LoadStep
  \/ \E t \in Threads : Step(t)
  \/ \E t \in Handlers : PostRecover(t) \/ PostManifest(t)
  \/ ServerEnds \/ Exit \/ Crash \/ Launch \/ Restart \/ MoveHost \/ Reconfigure \/ Second

Spec == Init /\ [][Next]_vars

(***************************************************************************)
(* A goroutine that can run does run; sync.Mutex hands itself over to a    *)
(* waiter that has waited too long, so a lock that is free again and again *)
(* is obtained; the timer goroutine wakes up; whoever operates the         *)
(* deployment launches it again; the last connection of Start does not     *)
(* lose its race in every launch.  No client has to send anything.         *)
(***************************************************************************)
Fairness ==
  /\ WF_vars(LoadStep) /\ WF_vars(Exit) /\ WF_vars(Launch) /\ WF_vars(Restart) /\ WF_vars(Second)
  /\ SF_vars(StartDatabase(Main) /\ pc'[Main] = "serve")
  /\ \A t \in Threads :
       /\ WF_vars(Step(t))
       /\ SF_vars(RecoverLock(t) \/ InitializeLock(t))

FairSpec == Spec /\ Fairness

(***************************************************************************)
(*                              Properties                                 *)
(***************************************************************************)
Labels == {"down", "load", "serve", "exiting", "idle", "recLock", "setKey", "backup", "backupWrite",
           "truncate", "write", "start", "initLock", "init", "boot", "bootSql", "bootAgain", "reply"}

KeyValues == Keys \cup {NoKey, BadKey}

\* Every variable has its type; in particular sealed_key never holds a key of a wrong size.
TypeOK ==
  /\ cfg \in Configs /\ host \in Hosts
  /\ env \in KeyValues /\ masterKey \in KeyValues
  /\ sealed \in File /\ bakNow \in File /\ backups \subseteq File
  /\ rocks \in DbType \cup {NoDb}
  /\ mysqld \in BOOLEAN /\ manifestSig \in Manifests \cup {NoManifest} /\ attemptedInit \in BOOLEAN
  /\ state \in {"Uninitialized", "Recovery", "Initialized"}
  /\ mutex \in Threads \cup {NoThread} /\ timer \in BOOLEAN
  /\ pc \in [Threads -> Labels]
  /\ key \in [Threads -> KeyValues] /\ rkey \in [Threads -> KeyValues]
  /\ man \in [Threads -> Manifests \cup {NoManifest}]
  /\ acked \subseteq [man : Manifests \cup {NoManifest}, key : KeyValues,
                     mode : {"Uninitialized", "Recovery", "Initialized"}]
  /\ crashes \in 0..MaxCrashes /\ moves \in 0..MaxMoves /\ faults \in 0..MaxFaults

(***************************************************************************)
(* The key of the data is never lost: while #rocksdb exists, a file of     *)
(* edb-persistence holds the key it is encrypted with (storeMasterKey      *)
(* writes before the database is created and backs up before it            *)
(* overwrites).  Crashes, moves and wrong keys posted to /recover          *)
(* included; failing writes, which the code only reports, excluded, and so *)
(* are processes that are given a key and store none.                      *)
(***************************************************************************)
DataKeyOnDisk ==
  rocks # NoDb /\ ~cfg.isMarble /\ cfg.launchKey = NoKey /\ faults = 0 => rocks.key \in KeysOnDisk

(***************************************************************************)
(* A client that got its manifest acknowledged by /manifest has it in the  *)
(* database for good, whatever other clients upload.                       *)
(***************************************************************************)
AckedManifestIsStored ==
  \A a \in acked : rocks # NoDb /\ rocks.config = a.man

(***************************************************************************)
(* Recovery data handed out by Initialize of a process that is not in      *)
(* recovery mode decrypts to the key of the database.                      *)
(***************************************************************************)
RecoveryDataOpensDatabase ==
  \A a \in acked : a.mode = "Initialized" /\ a.man.recovery = "rsa" => a.key = rocks.key

\* A Recover holds the mutex and is at work on the key or the database.
RecoverActive ==
  \E t \in Handlers : pc[t] \in {"setKey", "backup", "backupWrite", "truncate", "write", "start"}

(***************************************************************************)
(* The host of a database that runs can open it without the recovery data: *)
(* sealed_key holds its key, sealed for this CPU, so that the next launch  *)
(* loads it.  A further /recover, which Recover does not refuse while the  *)
(* database runs, may overwrite sealed_key with another key; until it ends *)
(* the process, and for good after that, a backup is what is left.         *)
(***************************************************************************)
LocalKeyKept ==
  DbRunning /\ cfg.enclave /\ ~cfg.isMarble /\ faults = 0 =>
    LET local == [key |-> rocks.key, host |-> host]
    IN  sealed = local \/ (RecoverActive /\ local \in {bakNow} \cup backups)

(***************************************************************************)
(* The deployment is a Vault: every step of it creates, commits,           *)
(* acknowledges, serves, stops, switches the mode, or changes nothing an   *)
(* owner of the data can see.                                              *)
(***************************************************************************)
V == INSTANCE Vault WITH
       store <- rocks,
       served <- IF DbRunning THEN manifestSig ELSE NoManifest,
       promised <- {a.man : a \in acked},
       debug <- cfg.debug

VaultRefinement == V!Spec

(***************************************************************************)
(* Once the manifest is in the database, the database comes up again and   *)
(* again, unless the process waits for a key or sealed_key holds the key   *)
(* of another database (then every launch ends, see NoKeyMeansRecovery):   *)
(* also if the restart or a crash beats the answer of Initialize, and the  *)
(* client knows nothing of its success.                                    *)
(***************************************************************************)
InitializedDatabaseRuns ==
  (rocks # NoDb /\ rocks.config # NoManifest) ~>
    \/ Serving /\ DbRunning
    \/ state = "Recovery"
    \/ rocks # NoDb /\ sealed \in Blob /\ sealed.key # rocks.key

\* Every call of /manifest and /recover returns, or its process ends.
RequestsReturn == \A t \in Handlers : (pc[t] # "idle") ~> (pc[t] = "idle")

(***************************************************************************)
(* What comments and documents say, and the code does not do.              *)
(***************************************************************************)
\* StartDatabase initializes from the manifest file: no thread waits for the mutex it holds.
NoSelfDeadlock == \A t \in Threads : pc[t] = "initLock" => mutex # t

\* /manifest returns the master key, encrypted for the holder of the recovery key.
RecoveryDataIsMasterKey ==
  \A a \in acked : a.man.recovery = "rsa" => a.key = rocks.key

\* A launch that cannot unseal the key of its database enters recovery mode.
NoKeyMeansRecovery ==
  state = "Initialized" /\ rocks # NoDb => masterKey = rocks.key
=============================================================================
