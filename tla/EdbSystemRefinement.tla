------------------------ MODULE EdbSystemRefinement -------------------------
(***************************************************************************)
(* EdbSystem implements EdbCore, for all values of the constants: the      *)
(* server counts as started when Start has returned or has failed, the     *)
(* last step of a Start is the StartDatabase of EdbCore, and everything    *)
(* Start, the server and the readers do before that changes nothing there. *)
(***************************************************************************)
EXTENDS EdbSystemCore, EdbSystemProofs

\* The two variables of EdbCore that this system implements by more than one.
CoreMysqld == mysqld /\ ~Mid
CoreSig == IF Mid THEN NoManifest ELSE manifestSig

\* Steps that leave Start alone leave them alone.
LEMMA SameForCore ==
  ASSUME UNCHANGED <<mysqld, manifestSig, sub>>
  PROVE  UNCHANGED <<CoreMysqld, CoreSig>>
  BY Zenon DEF CoreMysqld, CoreSig, Mid

(***************************************************************************)
(*              The steps of a thread that EdbCore has, too                *)
(***************************************************************************)

\* Recover and storeMasterKey.
LEMMA RecoverRefines ==
  ASSUME NEW t \in Threads, UNCHANGED <<CoreMysqld, CoreSig>>,
         RecoverLock(t) \/ SetMasterKey(t) \/ OpenBackup(t) \/ WriteBackup(t) \/ TruncateSealed(t) \/ WriteSealed(t)
           \/ StoreFails(t)
  PROVE  Core!Step(t)
<1> USE DEF CoreMysqld, CoreSig, Core!Step,
        Alive, Serving, Goto, Return, Terminate, Fail, Fault, hostVars, diskVars, dbVars, callVars, procVars,
        Core!Alive, Core!Serving, Core!Goto, Core!Return, Core!Terminate, Core!Fail, Core!Fault, Core!hostVars,
        Core!diskVars, Core!dbVars, Core!callVars, Core!procVars
<1>1. CASE RecoverLock(t)
  BY <1>1, Zenon DEF RecoverLock, Core!RecoverLock
<1>2. CASE SetMasterKey(t)
  BY <1>2, Zenon DEF SetMasterKey, Core!SetMasterKey
<1>3. CASE OpenBackup(t)
  BY <1>3, Zenon DEF OpenBackup, BackupOpened, Core!OpenBackup, Core!BackupOpened
<1>4. CASE WriteBackup(t)
  BY <1>4, Zenon DEF WriteBackup, BackupWritten, Core!WriteBackup, Core!BackupWritten
<1>5. CASE TruncateSealed(t)
  BY <1>5, Zenon DEF TruncateSealed, SealedTruncated, Core!TruncateSealed, Core!SealedTruncated
<1>6. CASE WriteSealed(t)
  BY <1>6, Zenon DEF WriteSealed, SealedWritten, Core!WriteSealed, Core!SealedWritten
<1>7. CASE StoreFails(t)
  BY <1>7, Zenon DEF StoreFails, Core!StoreFails
<1> QED
  BY <1>1, <1>2, <1>3, <1>4, <1>5, <1>6, <1>7, Zenon

\* Initialize, from its Lock on, while no Start is under way.
LEMMA InitializeRefines ==
  ASSUME NEW t \in Threads, ~Mid, UNCHANGED <<CoreMysqld, CoreSig>>,
         Initialize(t) \/ InitializeFails(t) \/ BootOpen(t) \/ BootFatal(t)
  PROVE  Core!Step(t)
<1> USE DEF CoreMysqld, CoreSig, Core!Step,
        Alive, Serving, Goto, Return, Terminate, Fail, Fault, hostVars, diskVars, dbVars, callVars, procVars,
        Core!Alive, Core!Serving, Core!Goto, Core!Return, Core!Terminate, Core!Fail, Core!Fault, Core!hostVars,
        Core!diskVars, Core!dbVars, Core!callVars, Core!procVars
<1>1. CASE Initialize(t)
  BY <1>1, Zenon DEF Initialize, InitRefused, Core!Initialize, Core!InitRefused
<1>2. CASE InitializeFails(t)
  BY <1>2, Zenon DEF InitializeFails, InitRefused, Core!InitializeFails, Core!InitRefused
<1>3. CASE BootOpen(t)
  BY <1>3, Zenon DEF BootOpen, Opens, StoreOpened, Core!BootOpen, Core!Opens, Core!StoreOpened
<1>4. CASE BootFatal(t)
  BY <1>4, Zenon DEF BootFatal, Opens, Core!BootFatal, Core!Opens
<1> QED
  BY <1>1, <1>2, <1>3, <1>4, Zenon

\* Start, when it does not get as far as the server, and the steps of a call that do not depend on it.
LEMMA OtherRefines ==
  ASSUME NEW t \in Threads, UNCHANGED <<CoreMysqld, CoreSig>>,
         \/ InitializeLock(t) \/ BootDone(t) \/ BootPanics(t) \/ BootError(t) \/ ReplyManifest(t)
         \/ StartUninitialized(t) \/ StartFails(t)
         \/ StartFatal(t) /\ mysqld /\ ~Mid
  PROVE  Core!Step(t)
<1> USE DEF CoreMysqld, CoreSig, Core!Step,
        Alive, Serving, Goto, Return, Terminate, Fail, Fault, hostVars, diskVars, dbVars, callVars, procVars,
        Core!Alive, Core!Serving, Core!Goto, Core!Return, Core!Terminate, Core!Fail, Core!Fault, Core!hostVars,
        Core!diskVars, Core!dbVars, Core!callVars, Core!procVars
<1>1. CASE InitializeLock(t)
  BY <1>1, Zenon DEF InitializeLock, Core!InitializeLock
<1>2. CASE BootDone(t)
  BY <1>2, Zenon DEF BootDone, ConfigInserted, Core!BootDone, Core!ConfigInserted
<1>3. CASE BootError(t)
  BY <1>3, Zenon DEF BootError, Core!BootError
<1>4. CASE ReplyManifest(t)
  BY <1>4, Zenon DEF ReplyManifest, Core!ReplyManifest
<1>5. CASE StartUninitialized(t)
  BY <1>5, Zenon DEF StartUninitialized, EncryptRecoveryKey, MasterKeyReads, Threads,
     Core!StartUninitialized, Core!EncryptRecoveryKey, Core!MasterKeyReads, Core!Threads
<1>6. CASE StartFails(t)
  BY <1>6, Zenon DEF StartFails, Core!StartFails
<1>7. CASE StartFatal(t) /\ mysqld /\ ~Mid
  BY <1>7, Zenon DEF StartFatal, Core!StartFatal, Core!Startable, Core!Opens
<1>8. CASE BootPanics(t)
  BY <1>8, Zenon DEF BootPanics, ConfigInserted, Core!BootPanics, Core!ConfigInserted
<1> QED
  BY <1>1, <1>2, <1>3, <1>4, <1>5, <1>6, <1>7, <1>8, Zenon

\* The requests of clients.
LEMMA RequestRefines ==
  ASSUME NEW t \in Handlers, UNCHANGED <<CoreMysqld, CoreSig>>, PostRecover(t) \/ PostManifest(t)
  PROVE  Core!PostRecover(t) \/ Core!PostManifest(t)
  BY Zenon DEF CoreMysqld, CoreSig, PostRecover, PostManifest, EncryptRecoveryKey, MasterKeyReads, Threads,
     Core!PostRecover, Core!PostManifest, Core!EncryptRecoveryKey, Core!MasterKeyReads, Core!Threads,
     Serving, Goto, Return, Terminate, Fail, hostVars, diskVars, callVars, procVars,
     Core!Serving, Core!Goto, Core!Return, Core!Terminate, Core!Fail, Core!hostVars,
     Core!diskVars, Core!callVars, Core!procVars

\* All of these steps are steps of EdbCore: Initialize has the mutex, so no Start is under way.
LEMMA MoveRefines ==
  ASSUME CoreInv, StartInv, NEW t \in Threads, CoreMove(t)
  PROVE  Core!Next
<1>1. UNCHANGED <<CoreMysqld, CoreSig>> /\ Up
  BY MovesWork, SameForCore, Zenon DEF Works
<1>2. pc[t] \in InitLabels => ~Mid
  <2> SUFFICES ASSUME pc[t] \in InitLabels, Mid PROVE FALSE
    BY Zenon
  <2>1. PICK v \in Threads : pc[v] = "start" /\ \A u \in Threads \ {v} : pc[u] \notin InitLabels \cup RecoverLabels
    BY <1>1, MidAlone, Zenon
  <2> QED
    BY <2>1, Zenon DEF InitLabels
<1>3. CASE t \in Handlers /\ Request(t)
  BY <1>1, <1>3, RequestRefines, Zenon DEF Request, Core!Next
<1>4. CASE Initialize(t) \/ InitializeFails(t) \/ BootOpen(t) \/ BootFatal(t)
  <2>1. ~Mid
    BY <1>2, <1>4, Zenon DEF Initialize, InitializeFails, BootOpen, BootFatal, InitLabels
  <2> QED
    BY <1>1, <1>4, <2>1, InitializeRefines, Zenon DEF Core!Next, Core!Threads, Threads
<1>5. CASE ~(t \in Handlers /\ Request(t)) /\ ~(Initialize(t) \/ InitializeFails(t) \/ BootOpen(t) \/ BootFatal(t))
  <2>1. Core!Step(t)
    BY <1>1, <1>5, RecoverRefines, OtherRefines, Zenon DEF CoreMove, CoreStep, NotInitializedYet, StoreCertificate, Acknowledge
  <2> QED
    BY <2>1, Zenon DEF Core!Next, Core!Threads, Threads
<1> QED
  BY <1>3, <1>4, <1>5, Zenon

(***************************************************************************)
(*                       The process and its operator                      *)
(***************************************************************************)

\* A process that ends or begins has no server.
LEMMA ProcessRefines ==
  ASSUME NewMariadb \/ ProcessEnds
  PROVE  Core!Next
<1>1. ~(mysqld /\ ~Mid)' /\ (IF Mid THEN NoManifest ELSE manifestSig)' = NoManifest
  BY Zenon DEF NewMariadb, ProcessEnds, Launch, Restart, Exit, Crash, Reset
<1> USE DEF Reset, Threads, hostVars, diskVars, Core!Reset, Core!Threads, Core!hostVars, Core!diskVars
<1>2. CASE Launch
  BY <1>1, <1>2, Zenon DEF Launch, Core!Launch, Core!Next
<1>3. CASE Restart
  BY <1>1, <1>3, Zenon DEF Restart, Core!Restart, Core!Next
<1>4. CASE Exit
  BY <1>1, <1>4, Zenon DEF Exit, Core!Exit, Core!Next
<1>5. CASE Crash
  BY <1>1, <1>5, Zenon DEF Crash, Core!Crash, Core!Next
<1> QED
  BY <1>2, <1>3, <1>4, <1>5, Zenon DEF NewMariadb, ProcessEnds

\* Reading the key, and what the operator does, has nothing to do with the server.
LEMMA LoadRefines ==
  ASSUME LoadKey \/ ((MoveHost \/ Reconfigure \/ Second) /\ UNCHANGED sysVars)
  PROVE  Core!Next
<1> USE DEF Goto, Terminate, Fault, hostVars, diskVars, dbVars, callVars, procVars, LoadMasterKey, Core!Goto,
        Core!Terminate, Core!Fault, Core!hostVars, Core!diskVars, Core!dbVars, Core!callVars, Core!procVars,
        Core!LoadMasterKey, Core!Next, Core!LoadStep, CoreMysqld, CoreSig
<1>1. UNCHANGED <<CoreMysqld, CoreSig>>
  <2>1. UNCHANGED <<mysqld, manifestSig, sub>>
    BY Zenon DEF LoadKey, KeyLoaded, NewMasterKey, LoadPanics, EnterRecovery, MoveHost, Reconfigure, Second, sysVars
  <2> QED
    BY <2>1, SameForCore, Zenon
<1>2. CASE KeyLoaded
  BY <1>1, <1>2, Zenon DEF KeyLoaded, Core!KeyLoaded
<1>3. CASE NewMasterKey
  BY <1>1, <1>3, Zenon DEF NewMasterKey, Core!NewMasterKey
<1>4. CASE LoadPanics
  BY <1>1, <1>4, Zenon DEF LoadPanics, Core!LoadPanics
<1>5. CASE EnterRecovery
  BY <1>1, <1>5, Zenon DEF EnterRecovery, Core!EnterRecovery
<1>6. CASE MoveHost
  BY <1>1, <1>6, Zenon DEF MoveHost, Core!MoveHost
<1>7. CASE Reconfigure
  BY <1>1, <1>7, Zenon DEF Reconfigure, Core!Reconfigure
<1>8. CASE Second
  BY <1>1, <1>8, Zenon DEF Second, NextSecond, Core!Second, Core!NextSecond
<1> QED
  BY <1>2, <1>3, <1>4, <1>5, <1>6, <1>7, <1>8, Zenon DEF LoadKey

(***************************************************************************)
(*                           Start and the server                          *)
(***************************************************************************)

\* What EdbCore requires of a start that gets through holds once the server has opened the store.
LEMMA StartableWhenOpen ==
  ASSUME CoreInv, StartInv, Mid, server # "open", rocks.config # NoManifest
  PROVE  Core!Startable
<1>1. rocks # NoDb /\ env = rocks.key
  BY Zenon DEF StartInv, Mid
<1>2. rocks.key \in Keys
  BY <1>1, Zenon DEF CoreInv, Typed, TypeOK, DbType
<1> QED
  BY <1>1, <1>2, Zenon DEF Core!Startable, Core!Opens

\* Until it ends, a Start changes nothing that EdbCore sees.
LEMMA MidUnseen ==
  ASSUME Mid \/ (~mysqld /\ manifestSig = NoManifest), Mid',
         UNCHANGED <<cfg, host, env, masterKey, sealed, bakNow, backups, rocks, attemptedInit, state, mutex, pc, key, man,
                     rkey, timer, acked, crashes, moves, faults>>
  PROVE  UNCHANGED Core!vars
<1>1. (mysqld /\ ~Mid)' = (mysqld /\ ~Mid) /\ (IF Mid THEN NoManifest ELSE manifestSig)' = IF Mid THEN NoManifest ELSE manifestSig
  BY Zenon
<1> QED
  BY <1>1, Zenon DEF Core!vars

\* The last step of Start is the StartDatabase of EdbCore, with or without success, or its fatal end.
LEMMA StartRefines ==
  ASSUME CoreInv, StartInv, HandshakeInv, NEW t \in Threads, StartStep(t)
  PROVE  Core!Next \/ UNCHANGED Core!vars
<1> DEFINE Ended == /\ (mysqld /\ ~Mid)' = TRUE
                    /\ (IF Mid THEN NoManifest ELSE manifestSig)' = manifestSig'
<1>1. ASSUME Core!Step(t) PROVE Core!Next
  BY <1>1, Zenon DEF Core!Next, Core!Threads, Threads
<1>2. mysqld \in BOOLEAN
  BY Zenon DEF CoreInv, Typed, TypeOK
<1> USE DEF InStart, Alive, Serving, Return, Terminate, Fail, Fault, hostVars, diskVars, dbVars, callVars, procVars,
        Core!Alive, Core!Serving, Core!Return, Core!Terminate, Core!Fail, Core!Fault, Core!hostVars, Core!diskVars,
        Core!dbVars, Core!callVars, Core!procVars
<1>3. CASE StartMain(t)
  <2>1. ~mysqld /\ manifestSig = NoManifest /\ Mid'
    BY <1>3, Zenon DEF StartMain, StartInv, Mid
  <2> QED
    BY <1>3, <2>1, MidUnseen, Zenon DEF StartMain
<1>4. CASE ConnectSql(t) \/ ReadConfig(t) \/ SetCert(t) \/ SetKey(t) \/ WriteCertificates(t) \/ ClearAddr(t) \/ Dial(t)
  <2>1. Mid /\ Mid'
    BY <1>4, Zenon DEF ConnectSql, ReadConfig, SetCert, SetKey, WriteCertificates, ClearAddr, Dial, Mid
  <2>2. UNCHANGED <<cfg, host, env, masterKey, sealed, bakNow, backups, rocks, attemptedInit, state, mutex, pc, key, man,
                    rkey, timer, acked, crashes, moves, faults>>
    BY <1>4, Zenon DEF ConnectSql, ReadConfig, SetCert, SetKey, WriteCertificates, ClearAddr, Dial, vars
  <2> QED
    BY <2>1, <2>2, MidUnseen, Zenon
<1>5. CASE NoConfig(t)
  <2>1. UNCHANGED <<CoreMysqld, CoreSig>> /\ rocks # NoDb
    BY <1>5, SameForCore, Zenon DEF NoConfig, sysVars, StartInv
  <2>2. Core!StartFatal(t)
    BY <1>5, <2>1, Zenon DEF NoConfig, Core!StartFatal, Core!Startable, CoreMysqld, CoreSig
  <2> QED
    BY <2>2, <1>1, Zenon DEF Core!Step
<1>6. CASE DebugRefused(t)
  <2>1. /\ Mid /\ server # "open" /\ rocks # NoDb /\ rocks.config # NoManifest /\ ~DebugAllowed
        /\ mysqld /\ manifestSig = NoManifest
    BY <1>6, Zenon DEF DebugRefused, StartInv, Mid
  <2>2. Ended
    BY <1>6, <2>1, <1>2, Zenon DEF DebugRefused, Mid
  <2>3. Core!StartDatabase(t)
    BY <1>6, <2>1, <2>2, StartableWhenOpen, Zenon DEF DebugRefused, DebugAllowed, Core!StartDatabase, Core!DebugAllowed
  <2> QED
    BY <2>3, <1>1, Zenon DEF Core!Step
<1>7. CASE WriteCertificatesFails(t) \/ DialRefused(t) \/ Started(t)
  <2>1. /\ Mid /\ server # "open" /\ rocks # NoDb /\ DebugAllowed
        /\ mysqld /\ manifestSig = rocks.config
    BY <1>7, Zenon DEF WriteCertificatesFails, DialRefused, Started, StartInv, Mid, AfterConfig
  <2>2. rocks.config # NoManifest
    BY <1>7, Zenon DEF WriteCertificatesFails, DialRefused, Started, HandshakeInv, AfterConfig, Configured
  <2>3. Ended
    BY <1>7, <2>1, <1>2, Zenon DEF WriteCertificatesFails, DialRefused, Started, Mid
  <2>4. Core!StartDatabase(t)
    BY <1>7, <2>1, <2>2, <2>3, StartableWhenOpen, Zenon DEF WriteCertificatesFails, DialRefused, Started, DebugAllowed,
       Core!StartDatabase, Core!DebugAllowed
  <2> QED
    BY <2>4, <1>1, Zenon DEF Core!Step
<1> QED
  BY <1>3, <1>4, <1>5, <1>6, <1>7, Zenon DEF StartStep

\* A server that exits or aborts ends the Start that waits for it; afterwards it ends the process.
LEMMA ServerRefines ==
  ASSUME CoreInv, StartInv, ServerStep
  PROVE  Core!Next \/ UNCHANGED Core!vars
<1> USE DEF Alive, Serving, Terminate, Fault, hostVars, diskVars, dbVars, callVars, procVars,
        Core!Alive, Core!Serving, Core!Terminate, Core!Fault, Core!hostVars, Core!diskVars,
        Core!dbVars, Core!callVars, Core!procVars
<1>1. CASE ServerExits \/ ServerAborts
  <2>1. Mid /\ Up /\ rocks # NoDb
    BY <1>1, Zenon DEF ServerExits, ServerAborts, StartInv, Mid
  <2>2. PICK t \in Threads : Alive(t) /\ pc[t] = "start"
    BY <2>1, MidAlone, Zenon
  <2>3. UNCHANGED <<CoreMysqld, CoreSig>>
    BY <1>1, SameForCore, Zenon DEF ServerExits, ServerAborts, sysVars
  <2>4. CASE ServerExits
    <3>1. Core!StartFatal(t)
      BY <2>1, <2>2, <2>3, <2>4, Zenon DEF ServerExits, Core!StartFatal, Core!Startable, Core!Opens, CoreMysqld, CoreSig
    <3> QED
      BY <3>1, Zenon DEF Core!Next, Core!Step, Core!Threads, Threads
  <2>5. CASE ServerAborts
    <3>1. Core!StartFails(t)
      BY <2>1, <2>2, <2>3, <2>5, Zenon DEF ServerAborts, Core!StartFails, CoreMysqld, CoreSig
    <3> QED
      BY <3>1, Zenon DEF Core!Next, Core!Step, Core!Threads, Threads
  <2> QED
    BY <1>1, <2>4, <2>5, Zenon
<1>2. CASE UNCHANGED <<vars, sub>>
  <2>1. UNCHANGED <<CoreMysqld, CoreSig>>
    BY <1>2, SameForCore, Zenon DEF vars
  <2> QED
    BY <1>2, <2>1, Zenon DEF vars, Core!vars, CoreMysqld, CoreSig
<1>3. CASE MainReturns
  <2>1. UNCHANGED <<CoreMysqld, CoreSig>>
    BY <1>3, SameForCore, Zenon DEF MainReturns, ServerEnds, sysVars
  <2>2. Core!ServerEnds
    BY <1>3, <2>1, Zenon DEF MainReturns, ServerEnds, Core!ServerEnds, CoreMysqld, CoreSig
  <2> QED
    BY <2>2, Zenon DEF Core!Next
<1> QED
  BY <1>1, <1>2, <1>3, Zenon DEF ServerStep, ServerRuns, ServerOpens

\* Every step of the system is a step of EdbCore, or EdbCore does not see it.
LEMMA SystemRefines ==
  CoreInv /\ StartInv /\ HandshakeInv /\ [SysNext]_allVars => [Core!Next]_(Core!vars)
<1> SUFFICES ASSUME CoreInv, StartInv, HandshakeInv, [SysNext]_allVars PROVE Core!Next \/ UNCHANGED Core!vars
  BY Zenon
<1>1. ASSUME UNCHANGED <<vars, sub>> PROVE UNCHANGED Core!vars
  <2>1. UNCHANGED <<CoreMysqld, CoreSig>>
    BY <1>1, SameForCore, Zenon DEF vars
  <2> QED
    BY <1>1, <2>1, Zenon DEF vars, Core!vars, CoreMysqld, CoreSig
<1>2. ASSUME NEW r \in Readers, ReaderStep(r) PROVE UNCHANGED Core!vars
  <2>1. UNCHANGED <<vars, sub>>
    BY <1>2, Zenon DEF ReaderStep, QuoteCert, QuoteReport, Signature, Answered, Answer
  <2> QED
    BY <1>1, <2>1, Zenon
<1>3. CASE UNCHANGED allVars
  BY <1>1, <1>3, Zenon DEF allVars, sysVars
<1> QED
  BY <1>2, <1>3, MoveRefines, ProcessRefines, LoadRefines, StartRefines, ServerRefines, ZenonT(60)
  DEF SysNext, CoreMove, Threads

(***************************************************************************)
(* The system with the start in detail is a deployment of EdbCore, so all  *)
(* that is proved about EdbCore holds for it: every interleaving of Start, *)
(* the server and the readers looks like one atomic StartDatabase.         *)
(***************************************************************************)
THEOREM ImplementsCore == SysSpec => CoreRefinement
<1>1. SysInit => Core!Init
  BY Zenon DEF SysInit, Init, Core!Init, Threads, Core!Threads, Mid
<1> QED
  BY <1>1, StartInvariant, SystemRefines, PTL DEF SysSpec, CoreRefinement, Core!Spec
=============================================================================
