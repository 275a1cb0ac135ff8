---------------------------- MODULE EdbCoreTypes ----------------------------
(***************************************************************************)
(* Type correctness of EdbCore, for any number of handlers, keys, hosts,   *)
(* manifests and configurations and for any bounds: the first layer of the *)
(* inductive invariant of EdbCoreProofs.                                   *)
(***************************************************************************)
EXTENDS EdbCore, TLAPS

\* The steps of core.Initialize under the mutex.
InitLabels == {"init", "boot", "bootSql", "bootAgain"}

\* The steps of Recover under the mutex, the ones of storeMasterKey and StartDatabase included.
StoreLabels == {"backup", "backupWrite", "truncate", "write"}
RecoverLabels == StoreLabels \cup {"setKey", "start"}

\* The labels of the main goroutine before it serves, and of a handler.
LaunchLabels == {"load", "backup", "truncate", "write", "start", "initLock", "reply"} \cup InitLabels
HandlerLabels == RecoverLabels \cup InitLabels \cup {"idle", "recLock", "initLock", "reply"}

\* sealed_key holds k, and this process can read it.
Sealed(k) == sealed \in Blob /\ sealed.key = k /\ (cfg.enclave => sealed.host = host)

\* What the assumptions on the constants say about the configuration of a deployment.
LEMMA ConfigFacts ==
  ASSUME NEW c \in Configs
  PROVE  /\ c.enclave \in BOOLEAN /\ c.isMarble \in BOOLEAN /\ c.debug \in BOOLEAN
         /\ c.manifest \in Manifests \cup {NoManifest}
         /\ c.launchKey \in KeyValues
         /\ c.enclave /\ ~c.isMarble => c.launchKey = NoKey
  BY ConfigsAssumption, Zenon DEF ConfigType, KeyValues

\* loadMasterKey returns a key or an error.
LEMMA LoadResult ==
  ASSUME TypeOK
  PROVE  LoadMasterKey \in Keys \cup LoadErrors
  BY Zenon DEF TypeOK, LoadMasterKey, LoadErrors, File, Blob, KeyValues

\* loadMasterKey reports a missing file only if there is none, and only outside MarbleRun.
LEMMA LoadNotExist ==
  ASSUME TypeOK, LoadMasterKey = "notExist"
  PROVE  sealed = NoFile /\ env = NoKey /\ ~cfg.isMarble
  BY KeysAssumption, Zenon DEF TypeOK, LoadMasterKey, LoadErrors, File, Blob, KeyValues

\* A key loadMasterKey returns is the one of the environment or, without one, of sealed_key.
LEMMA LoadedKey ==
  ASSUME TypeOK, LoadMasterKey \in Keys
  PROVE  \/ env \in Keys /\ LoadMasterKey = env
         \/ env = NoKey /\ ~cfg.isMarble /\ Sealed(LoadMasterKey)
  BY KeysAssumption, Zenon DEF TypeOK, LoadMasterKey, LoadErrors, File, Blob, KeyValues, Sealed

\* TypeOK depends on two facts about the calls in progress: what will be stored is a key,
\* and the configuration is inserted into a store that exists.
Typed ==
  /\ TypeOK
  /\ \A t \in Threads :
       /\ pc[t] \in StoreLabels => key[t] \in Keys
       /\ pc[t] \in {"bootSql", "bootAgain"} => rocks # NoDb

\* A new deployment is well typed.
LEMMA TypeInit == Init => Typed
<1> SUFFICES ASSUME Init PROVE Typed
  BY Zenon
<1> USE DEF Init, Threads
<1>1. /\ cfg \in Configs /\ host \in Hosts /\ env \in KeyValues /\ masterKey \in KeyValues
      /\ sealed \in File /\ bakNow \in File /\ backups \subseteq File
      /\ crashes \in 0..MaxCrashes /\ moves \in 0..MaxMoves /\ faults \in 0..MaxFaults
  BY BoundsAssumption DEF File, KeyValues
<1>2. /\ pc \in [Threads -> Labels] /\ key \in [Threads -> KeyValues] /\ rkey \in [Threads -> KeyValues]
      /\ man \in [Threads -> Manifests \cup {NoManifest}]
  BY Zenon DEF Labels, KeyValues
<1>3. \A t \in Threads : pc[t] \notin StoreLabels \cup {"bootSql", "bootAgain"}
  BY Zenon DEF StoreLabels
<1> QED
  BY <1>1, <1>2, <1>3, Zenon DEF TypeOK, Typed

(***************************************************************************)
(*                       What the steps have in common                     *)
(***************************************************************************)

\* A call returns or panics, or its process is about to end: what it has written stays as it is.
Ends(t) ==
  /\ Alive(t) /\ pc[t] \notin {"down", "serve", "exiting"}
  /\ Return(t) \/ Terminate
  /\ \/ UNCHANGED <<mysqld, manifestSig>>
     \/ /\ pc[t] = "start" /\ rocks # NoDb /\ (t = Main \/ Return(t))
        /\ mysqld' = TRUE /\ manifestSig' \in {manifestSig, rocks.config}
  /\ masterKey' = masterKey \/ (pc[t] = "setKey" /\ masterKey' = key[t])
  /\ faults' = faults \/ Fault
  /\ UNCHANGED <<hostVars, env, state, timer, attemptedInit, diskVars, rocks, acked>>

\* storeMasterKey ends half way only after a fault; without one a Start had the key of the store, if there is one.
EndsSafely(t) ==
  \/ Fault
  \/ mysqld' = mysqld /\ (Terminate \/ pc[t] \notin StoreLabels \cup {"load", "start"})
  \/ pc[t] = "start" /\ IF rocks = NoDb THEN mysqld' = mysqld ELSE rocks.key = env

\* Recover obtains the mutex in recovery mode.
RecoverLocks(t) ==
  /\ Alive(t) /\ pc[t] = "recLock" /\ mutex = NoThread /\ state = "Recovery"
  /\ mutex' = t /\ Goto(t, "setKey")
  /\ UNCHANGED <<hostVars, procVars, diskVars, rocks, callVars, acked, faults>>

\* Recover puts a key into the environment.
KeySet(t) ==
  /\ Alive(t) /\ pc[t] = "setKey" /\ key[t] \in Keys
  /\ masterKey' = key[t] /\ env' = key[t] /\ Goto(t, "backup")
  /\ UNCHANGED <<hostVars, state, timer, dbVars, diskVars, rocks, mutex, callVars, acked, faults>>

\* Initialize, of a handler or of StartDatabase, has encrypted the recovery key.
Encrypts(t) ==
  /\ Alive(t) /\ (pc[t] = "idle" \/ (pc[t] = "start" /\ rocks = NoDb))
  /\ \E m \in Manifests :
       /\ man' = [man EXCEPT ![t] = m]
       /\ \E k \in MasterKeyReads : rkey' = [rkey EXCEPT ![t] = IF m.recovery = "rsa" THEN k ELSE NoKey]
  /\ Goto(t, "initLock")
  /\ UNCHANGED <<hostVars, procVars, diskVars, rocks, mutex, key, acked, faults>>

\* Initialize accepts the manifest.
Accepts(t) ==
  /\ Alive(t) /\ pc[t] = "init"
  /\ attemptedInit' = TRUE /\ Goto(t, "boot")
  /\ UNCHANGED <<hostVars, env, masterKey, state, timer, mysqld, manifestSig, diskVars, rocks, mutex, callVars,
                 acked, faults>>

\* A process ends or begins.  A new one has the key MarbleRun gave it or, after execv, the one it had.
Resets ==
  \E label \in {"down", "load"}, k \in KeyValues :
    /\ Reset(label, k)
    /\ label = "load" => /\ SlowRelaunch => bakNow = NoFile
                         /\ k = cfg.launchKey \/ (timer /\ ~cfg.enclave)
    /\ crashes' \in 0..MaxCrashes
    /\ UNCHANGED <<cfg, host, moves, diskVars, rocks, acked, faults>>

\* Time passes, the operator acts on a deployment that is down, or nothing happens.
Outside ==
  /\ cfg' \in Configs /\ host' \in Hosts /\ moves' \in 0..MaxMoves
  /\ cfg'.enclave = cfg.enclave /\ cfg'.isMarble = cfg.isMarble /\ cfg'.launchKey = cfg.launchKey
  /\ pc[Main] = "down" \/ UNCHANGED <<cfg, host>>
  /\ NextSecond \/ UNCHANGED diskVars
  /\ UNCHANGED <<crashes, procVars, rocks, mutex, pc, callVars, acked, faults>>

\* What a step of a thread can amount to.
ThreadEffect(t) ==
  \/ Ends(t) /\ EndsSafely(t)
  \/ RecoverLocks(t) \/ KeySet(t) \/ OpenBackup(t) \/ WriteBackup(t) \/ TruncateSealed(t) \/ WriteSealed(t)
  \/ Encrypts(t) \/ InitializeLock(t) \/ Accepts(t) \/ BootOpen(t) \/ BootDone(t) \/ BootPanics(t) \/ ReplyManifest(t)

\* The steps of a thread under the mutex of Recover, by what they amount to.
LEMMA RecoverEffects ==
  ASSUME NEW t \in Threads,
         RecoverLock(t) \/ SetMasterKey(t) \/ OpenBackup(t) \/ WriteBackup(t) \/ TruncateSealed(t) \/ WriteSealed(t)
           \/ StoreFails(t)
  PROVE  ThreadEffect(t)
<1> USE DEF ThreadEffect, hostVars, diskVars, dbVars, callVars, procVars
<1>1. CASE RecoverLock(t)
  BY <1>1, Zenon DEF RecoverLock, RecoverLocks, Ends, EndsSafely, StoreLabels
<1>2. CASE SetMasterKey(t)
  BY <1>2, Zenon DEF SetMasterKey, KeySet, Ends, EndsSafely, StoreLabels
<1>3. CASE StoreFails(t)
  BY <1>3, Zenon DEF StoreFails, Fail, Ends, EndsSafely
<1> QED
  BY <1>1, <1>2, <1>3, Zenon

\* The steps of StartDatabase, by what they amount to.
LEMMA StartEffects ==
  ASSUME TypeOK, NEW t \in Threads,
         StartUninitialized(t) \/ StartDatabase(t) \/ StartFatal(t) \/ StartFails(t)
  PROVE  ThreadEffect(t)
<1> USE DEF ThreadEffect, hostVars, diskVars, dbVars, callVars, procVars
<1>1. CASE StartUninitialized(t)
  <2>1. cfg.manifest # NoManifest => cfg.manifest \in Manifests
    BY ConfigFacts, Zenon DEF TypeOK
  <2> QED
    BY <1>1, <2>1, Zenon DEF StartUninitialized, EncryptRecoveryKey, Fail, Encrypts, Ends, EndsSafely
<1>2. CASE StartDatabase(t)
  BY <1>2, Zenon DEF StartDatabase, Startable, Opens, Fail, Ends, EndsSafely
<1>3. CASE StartFatal(t)
  BY <1>3, Zenon DEF StartFatal, Ends, EndsSafely
<1>4. CASE StartFails(t)
  BY <1>4, Zenon DEF StartFails, Fail, Ends, EndsSafely
<1> QED
  BY <1>1, <1>2, <1>3, <1>4, Zenon

\* The steps of core.Initialize from its Lock on, by what they amount to.
LEMMA InitializeEffects ==
  ASSUME NEW t \in Threads,
         InitializeLock(t) \/ Initialize(t) \/ InitializeFails(t) \/ BootOpen(t) \/ BootFatal(t) \/ BootDone(t)
           \/ BootPanics(t) \/ BootError(t) \/ ReplyManifest(t)
  PROVE  ThreadEffect(t)
<1> USE DEF ThreadEffect, hostVars, diskVars, dbVars, callVars, procVars
<1>1. CASE Initialize(t)
  BY <1>1, Zenon DEF Initialize, Accepts, Fail, Ends, EndsSafely, StoreLabels
<1>2. CASE InitializeFails(t)
  BY <1>2, Zenon DEF InitializeFails, Fail, Ends, EndsSafely
<1>3. CASE BootFatal(t)
  BY <1>3, Zenon DEF BootFatal, Fail, Ends, EndsSafely, StoreLabels
<1>4. CASE BootError(t)
  BY <1>4, Zenon DEF BootError, Fail, Ends, EndsSafely, StoreLabels
<1> QED
  BY <1>1, <1>2, <1>3, <1>4, Zenon

\* The steps of the process and of its host, by what they amount to.
LEMMA HostEffects ==
  ASSUME TypeOK, Exit \/ Crash \/ Launch \/ Restart \/ MoveHost \/ Reconfigure \/ Second \/ UNCHANGED vars
  PROVE  Resets \/ Outside
<1>1. CASE Exit \/ Launch \/ Restart
  BY <1>1, ConfigFacts, Zenon DEF Exit, Launch, Restart, Resets, TypeOK, KeyValues, hostVars
<1>2. CASE Crash
  <2>1. crashes' \in 0..MaxCrashes
    BY <1>2, BoundsAssumption DEF Crash, TypeOK
  <2> QED
    BY <1>2, <2>1, Zenon DEF Crash, Resets, KeyValues
<1>3. CASE MoveHost
  <2>1. moves' \in 0..MaxMoves
    BY <1>3, BoundsAssumption DEF MoveHost, TypeOK
  <2> QED
    BY <1>3, <2>1, Zenon DEF MoveHost, Outside, TypeOK
<1>4. CASE Reconfigure \/ Second \/ UNCHANGED vars
  BY <1>4, Zenon DEF Reconfigure, Second, vars, Outside, TypeOK, hostVars, diskVars, procVars, callVars
<1> QED
  BY <1>1, <1>2, <1>3, <1>4, Zenon

\* The steps of the deployment, by what they amount to.
Effect ==
  \/ KeyLoaded \/ NewMasterKey \/ EnterRecovery
  \/ \E t \in Threads : PostRecover(t) \/ ThreadEffect(t)
  \/ ServerEnds \/ Resets \/ Outside

\* The steps of a thread, by what they amount to.
LEMMA StepEffects ==
  ASSUME TypeOK, NEW t \in Threads, Step(t) \/ (t \in Handlers /\ PostManifest(t))
  PROVE  ThreadEffect(t)
<1>1. CASE t \in Handlers /\ PostManifest(t)
  BY <1>1, Zenon DEF PostManifest, EncryptRecoveryKey, Fail, Alive, Encrypts, Ends, EndsSafely, ThreadEffect,
     StoreLabels, hostVars, diskVars, dbVars, callVars, procVars
<1>2. CASE Step(t)
  BY <1>2, RecoverEffects, StartEffects, InitializeEffects, Zenon DEF Step
<1> QED
  BY <1>1, <1>2, Zenon

\* Every step has one of these effects.
LEMMA Effects == TypeOK /\ [Next]_vars => Effect
<1> SUFFICES ASSUME TypeOK, [Next]_vars PROVE Effect
  BY Zenon
<1>1. CASE LoadPanics
  <2>1. Main \in Threads /\ Ends(Main) /\ EndsSafely(Main)
    BY <1>1, Zenon DEF LoadPanics, Alive, Ends, EndsSafely, Threads, hostVars, diskVars, dbVars, callVars, procVars
  <2> QED
    BY <2>1, Zenon DEF Effect, ThreadEffect
<1>2. ASSUME NEW t \in Handlers, PostRecover(t) \/ PostManifest(t) PROVE Effect
  BY <1>2, StepEffects, Zenon DEF Effect, Threads
<1>3. ASSUME NEW t \in Threads, Step(t) PROVE Effect
  BY <1>3, StepEffects, Zenon DEF Effect
<1> QED
  BY <1>1, <1>2, <1>3, HostEffects, ZenonT(60) DEF Next, LoadStep, Effect

\* The bootstrap opens the store with the key of the environment, and creates it only if there is none.
LEMMA BootOpensStore ==
  ASSUME TypeOK, NEW t \in Threads, BootOpen(t)
  PROVE  rocks' \in DbType /\ rocks' # NoDb /\ rocks'.key = env /\ (rocks # NoDb => rocks' = rocks)
  BY DbAssumption DEF TypeOK, BootOpen, Opens, StoreOpened, DbType

\* The end of the bootstrap inserts the manifest and keeps the key.
LEMMA BootDoneStore ==
  ASSUME Typed, NEW t \in Threads, BootDone(t) \/ BootPanics(t)
  PROVE  rocks' \in DbType /\ rocks' # NoDb /\ rocks'.key = rocks.key /\ rocks'.config = man[t]
<1>1. rocks \in DbType /\ man[t] \in Manifests \cup {NoManifest} /\ ConfigInserted(man[t])
  BY Zenon DEF Typed, TypeOK, BootDone, BootPanics
<1> QED
  BY <1>1, DbAssumption DEF ConfigInserted, DbType

\* After a goto only the thread itself is somewhere else.
LEMMA GotoMoves ==
  ASSUME TypeOK, NEW t \in Threads, NEW label, Goto(t, label)
  PROVE  \A u \in Threads : pc'[u] = IF u = t THEN label ELSE pc[u]
  BY Zenon DEF TypeOK, Goto

\* What thread u is at and holds is the same after the step.
Standing(u) == pc'[u] = pc[u] /\ key'[u] = key[u] /\ man'[u] = man[u] /\ rkey'[u] = rkey[u]

\* Return and Terminate concern the thread that returns, or the main goroutine and with it the whole process.
LEMMA ReturnsLocally ==
  ASSUME TypeOK, NEW t \in Threads, Return(t) \/ Terminate
  PROVE  /\ \A u \in Threads : \/ Standing(u)
                               \/ u = t /\ pc'[u] = (IF u = Main THEN "serve" ELSE "idle")
                               \/ u = Main /\ pc'[u] = "exiting"
         /\ mutex' = mutex \/ (mutex = t /\ mutex' = NoThread /\ pc'[t] \in {"serve", "idle"})
<1>1. CASE Return(t)
  BY <1>1, Zenon DEF Return, Standing, TypeOK
<1>2. CASE Terminate
  BY <1>2, Zenon DEF Terminate, Standing, TypeOK, Threads, callVars
<1> QED
  BY <1>1, <1>2, Zenon

\* A call that ends, well or not, ends in one of these two ways.
LEMMA EndsLocally ==
  ASSUME TypeOK, NEW t \in Threads, Ends(t) \/ BootPanics(t)
  PROVE  /\ \A u \in Threads : \/ Standing(u)
                               \/ u = t /\ pc'[u] = (IF u = Main THEN "serve" ELSE "idle")
                               \/ u = Main /\ pc'[u] = "exiting"
         /\ mutex' = mutex \/ (mutex = t /\ mutex' = NoThread /\ pc'[t] \in {"serve", "idle"})
<1>1. Return(t) \/ Terminate
  BY Zenon DEF Ends, BootPanics, Fail
<1> QED
  BY <1>1, ReturnsLocally, Zenon

\* Return and Terminate leave no thread in the middle of a store operation it was not in before.
LEMMA TypeReturns ==
  ASSUME Typed, NEW t \in Threads, Return(t) \/ Terminate
  PROVE  /\ pc' \in [Threads -> Labels] /\ mutex' \in Threads \cup {NoThread}
         /\ key' \in [Threads -> KeyValues] /\ rkey' \in [Threads -> KeyValues]
         /\ man' \in [Threads -> Manifests \cup {NoManifest}]
         /\ \A u \in Threads : /\ pc'[u] \in StoreLabels => pc[u] = pc'[u] /\ key'[u] = key[u]
                               /\ pc'[u] \in {"bootSql", "bootAgain"} => pc[u] = pc'[u]
  BY DEF Typed, TypeOK, Return, Terminate, StoreLabels, Labels, KeyValues, Threads, callVars

\* A call that ends keeps the types: it writes nothing but the fields Start and setMasterKey set.
LEMMA TypeEnds ==
  ASSUME Typed, NEW t \in Threads, Ends(t)
  PROVE  Typed'
<1> USE DEF Typed, TypeOK
<1>1. /\ env' \in KeyValues /\ masterKey' \in KeyValues
      /\ mysqld' \in BOOLEAN /\ manifestSig' \in Manifests \cup {NoManifest}
      /\ faults' \in 0..MaxFaults
  <2>1. rocks # NoDb => rocks.config \in Manifests \cup {NoManifest}
    BY Zenon DEF DbType
  <2>2. faults' \in 0..MaxFaults
    BY BoundsAssumption DEF Ends, Fault
  <2> QED
    BY <2>1, <2>2, Zenon DEF Ends
<1>2. Return(t) \/ Terminate
  BY Zenon DEF Ends
<1>3. UNCHANGED <<cfg, host, crashes, moves, state, timer, attemptedInit, sealed, bakNow, backups, rocks, acked>>
  BY Zenon DEF Ends, hostVars, diskVars
<1> QED
  BY <1>1, <1>2, <1>3, TypeReturns, Zenon

\* A bootstrap that fails after the manifest was inserted keeps the types.
LEMMA TypePanics ==
  ASSUME Typed, NEW t \in Threads, BootPanics(t)
  PROVE  Typed'
<1> USE DEF Typed, TypeOK
<1>1. rocks' \in DbType /\ rocks' # NoDb
  BY BootDoneStore, Zenon
<1>2. faults' \in 0..MaxFaults
  BY BoundsAssumption DEF BootPanics, Fault
<1>3. Return(t) \/ Terminate
  BY Zenon DEF BootPanics, Fail
<1>4. UNCHANGED <<cfg, host, crashes, moves, env, masterKey, mysqld, manifestSig, attemptedInit, state, timer,
                  sealed, bakNow, backups, acked>>
  BY Zenon DEF BootPanics, hostVars, procVars, diskVars
<1> QED
  BY <1>1, <1>2, <1>3, <1>4, TypeReturns, Zenon

\* Every step of the deployment keeps the types.
LEMMA TypeStep == Typed /\ Effect => Typed'
<1> SUFFICES ASSUME Typed, Effect PROVE Typed'
  BY Zenon
<1> USE BoundsAssumption, ThreadsAssumption
    DEF TypeOK, Typed, StoreLabels, hostVars, diskVars, dbVars, callVars, procVars, Threads
<1>1. CASE KeyLoaded
  BY <1>1, Zenon DEF KeyLoaded, Goto, Labels, KeyValues
<1>2. CASE NewMasterKey
  BY <1>2 DEF NewMasterKey, Goto, Labels, KeyValues
<1>3. CASE EnterRecovery
  BY <1>3 DEF EnterRecovery, Fault, Goto, Labels
<1>4. ASSUME NEW t \in Threads, PostRecover(t) PROVE Typed'
  BY <1>4, RecoverAssumption DEF PostRecover, Goto, Labels, KeyValues
<1>5. ASSUME NEW t \in Threads, RecoverLocks(t) PROVE Typed'
  BY <1>5, Zenon DEF RecoverLocks, Goto, Labels
<1>6. ASSUME NEW t \in Threads, KeySet(t) PROVE Typed'
  BY <1>6 DEF KeySet, Goto, Labels, KeyValues
<1>7. ASSUME NEW t \in Threads, OpenBackup(t) PROVE Typed'
  BY <1>7 DEF OpenBackup, Fault, BackupOpened, Goto, Labels, File
<1>8. ASSUME NEW t \in Threads, WriteBackup(t) PROVE Typed'
  BY <1>8 DEF WriteBackup, BackupWritten, Fault, Goto, Labels
<1>9. ASSUME NEW t \in Threads, TruncateSealed(t) PROVE Typed'
  BY <1>9 DEF TruncateSealed, SealedTruncated, Goto, Labels, File
<1>10. ASSUME NEW t \in Threads, WriteSealed(t) PROVE Typed'
  BY <1>10 DEF WriteSealed, SealedWritten, Goto, Labels, File, Blob
<1>11. ASSUME NEW t \in Threads, Encrypts(t) PROVE Typed'
  <2>1. PICK m \in Manifests, k \in MasterKeyReads :
          man' = [man EXCEPT ![t] = m] /\ rkey' = [rkey EXCEPT ![t] = IF m.recovery = "rsa" THEN k ELSE NoKey]
    BY <1>11, Zenon DEF Encrypts
  <2>2. k \in KeyValues
    BY Zenon DEF MasterKeyReads, KeyValues
  <2> QED
    BY <1>11, <2>1, <2>2 DEF Encrypts, Goto, Labels, KeyValues
<1>12. ASSUME NEW t \in Threads, InitializeLock(t) PROVE Typed'
  BY <1>12 DEF InitializeLock, Goto, Labels
<1>13. ASSUME NEW t \in Threads, Accepts(t) PROVE Typed'
  BY <1>13, Zenon DEF Accepts, Goto, Labels
<1>14. ASSUME NEW t \in Threads, BootOpen(t) PROVE Typed'
  <2>1. rocks' \in DbType /\ rocks' # NoDb /\ rocks'.key = env /\ (rocks # NoDb => rocks' = rocks)
    BY <1>14, BootOpensStore, Zenon
  <2> QED
    BY <1>14, <2>1 DEF BootOpen, Goto, Labels
<1>15. ASSUME NEW t \in Threads, BootDone(t) PROVE Typed'
  <2>1. rocks' \in DbType /\ rocks' # NoDb /\ rocks'.key = rocks.key /\ rocks'.config = man[t]
    BY <1>15, BootDoneStore, Zenon
  <2> QED
    BY <1>15, <2>1, Zenon DEF BootDone, Goto, Labels
<1>16. ASSUME NEW t \in Threads, ReplyManifest(t) PROVE Typed'
  BY <1>16 DEF ReplyManifest, Return, Labels, KeyValues
<1>17. CASE Resets
  <2>1. PICK label \in {"down", "load"}, k \in KeyValues : Reset(label, k)
    BY <1>17, Zenon DEF Resets
  <2>2. /\ pc' \in [Threads -> Labels]
        /\ \A t \in Threads : pc'[t] \notin StoreLabels /\ pc'[t] \notin {"bootSql", "bootAgain"}
    BY <2>1, Zenon DEF Reset, Labels
  <2>3. /\ key' \in [Threads -> KeyValues] /\ rkey' \in [Threads -> KeyValues]
        /\ man' \in [Threads -> Manifests \cup {NoManifest}]
    BY <2>1, Zenon DEF Reset, KeyValues
  <2>4. TypeOK'
    BY <1>17, <2>1, <2>2, <2>3, ZenonT(30) DEF Resets, Reset, KeyValues
  <2> QED
    BY <2>2, <2>4, Zenon
<1>18. CASE Outside
  BY <1>18 DEF Outside, NextSecond, File
<1>19. CASE ServerEnds
  <2>1. Main \in Threads /\ Terminate /\ UNCHANGED <<hostVars, procVars, diskVars, rocks, acked, faults>>
    BY <1>19, Zenon DEF ServerEnds
  <2> QED
    BY <2>1, TypeReturns, Zenon
<1> QED
  BY <1>1, <1>2, <1>3, <1>4, <1>5, <1>6, <1>7, <1>8, <1>9, <1>10, <1>11, <1>12, <1>13, <1>14, <1>15,
     <1>16, <1>17, <1>18, <1>19, TypeEnds, TypePanics, ZenonT(60)
  DEF Effect, ThreadEffect

\* Every reachable state of the deployment is well typed.
THEOREM TypeCorrect == Spec => []TypeOK
<1>1. Typed /\ [Next]_vars => Typed'
  BY TypeStep, Effects, Zenon DEF Typed
<1>2. Typed => TypeOK
  BY Zenon DEF Typed
<1> QED
  BY <1>1, <1>2, TypeInit, PTL DEF Spec
=============================================================================
