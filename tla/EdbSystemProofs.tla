-------------------------- MODULE EdbSystemProofs ---------------------------
(***************************************************************************)
(* The start of the database in detail, for all values of the constants:   *)
(* who can be in Mariadb.Start and what else can happen meanwhile, what    *)
(* Start has done at each of its steps, and its handshake with the server. *)
(* Nothing but an environment variable orders the two, so the invariant    *)
(* says what has been done whenever the variable is found cleared.         *)
(***************************************************************************)
EXTENDS EdbSystem, EdbCoreCalls

\* The layers of the invariant of EdbCore that hold in this system, too.
CoreInv == Typed /\ Control /\ CallInv

\* The steps of Start once the signature of the manifest is set.
AfterConfig == {"cert", "key", "files", "clear", "dial", "started"}

\* Who is in Start, what it has done, and what no one else does meanwhile.
StartInv ==
  /\ Mid /\ Up => \E t \in Threads : pc[t] = "start"
  /\ pc[Main] \in (LaunchLabels \ {"start"}) \cup {"down"} => sub = "none"
  /\ pc[Main] = "start" => sub = "none" \/ Mid
  /\ Serving /\ state # "Recovery" => sub \in {"none", "done"}
  /\ \A t \in Threads : pc[t] \in {"bootSql", "bootAgain"} => sub = "none"
  /\ sub = "none" <=> server = "off"
  /\ sub = "none" <=> ~mysqld
  /\ sub # "none" => rocks # NoDb
  /\ ready => server \notin {"off", "open", "bind", "listen"}
  /\ server = "open" => sub = "wait"
  /\ sub \in {"none", "wait", "query"} => manifestSig = NoManifest
  /\ sub \in AfterConfig \cup {"done"} => manifestSig = rocks.config
  /\ sub = "failed" => manifestSig \in {NoManifest, rocks.config}
  /\ Mid /\ server # "open" => env = rocks.key
  /\ sub \in AfterConfig => DebugAllowed
  /\ sub = "done" => server = "running"

\* The database holds the manifest: its certificate is not replaced any more.
Configured == rocks # NoDb /\ rocks.config # NoManifest

\* The certificate of the database is in place, in the process and in the files.
Installed == Configured /\ files = 3 /\ cert = storedCert /\ dkey = storedCert

\* What Start has done when it is at sub, and what the server may conclude from the variable.
HandshakeInv ==
  /\ server \in {"close", "ssl", "running"} => ~addr
  /\ server # "off" /\ ~addr => Installed
  /\ sub \in {"wait", "query", "cert", "key", "files"} => addr
  /\ sub \in AfterConfig \cup {"done"} => Configured
  /\ sub \in {"key", "files", "clear", "dial", "started", "done"} => cert = storedCert
  /\ sub \in {"files", "clear", "dial", "started", "done"} => dkey = storedCert
  /\ sub \in {"clear", "dial", "started", "done"} => files = 3
  /\ sub \in {"none", "wait", "query", "cert", "key"} => files = 0
  /\ sub = "files" => files \in 0..2

(***************************************************************************)
(*                       What the steps have in common                     *)
(***************************************************************************)

\* A thread in Start is alone there: it is the main goroutine before it serves, or a Recover with the mutex.
LEMMA StartAlone ==
  ASSUME CoreInv, Up, NEW t \in Threads, pc[t] = "start"
  PROVE  /\ Alive(t)
         /\ \A u \in Threads \ {t} : pc[u] \notin InitLabels \cup RecoverLabels
         /\ t = Main => \A u \in Handlers : pc[u] = "idle"
         /\ t # Main => Serving /\ mutex = t /\ state = "Recovery"
<1>1. t # Main => Serving /\ mutex = t /\ state = "Recovery"
  BY Zenon DEF CoreInv, Control, RecoverLabels, Threads, Up, Serving
<1>2. t = Main => \A u \in Handlers : pc[u] = "idle"
  BY Zenon DEF CoreInv, Control
<1>3. ASSUME NEW u \in Threads \ {t} PROVE pc[u] \notin InitLabels \cup RecoverLabels
  <2>1. CASE t = Main
    BY <2>1, <1>2, <1>3, Zenon DEF Threads, InitLabels, RecoverLabels, StoreLabels
  <2>2. CASE t # Main /\ u = Main
    BY <2>2, <1>1, Zenon DEF Serving, InitLabels, RecoverLabels, StoreLabels
  <2>3. CASE t # Main /\ u # Main
    BY <2>3, <1>1, <1>3, Zenon DEF CoreInv, Control, Threads
  <2> QED
    BY <2>1, <2>2, <2>3, Zenon
<1> QED
  BY <1>1, <1>2, <1>3, Zenon DEF Alive

\* While a Start is under way, one thread is in it.
LEMMA MidAlone ==
  ASSUME CoreInv, StartInv, Up, Mid
  PROVE  \E t \in Threads :
           /\ Alive(t) /\ pc[t] = "start"
           /\ \A u \in Threads \ {t} : pc[u] \notin InitLabels \cup RecoverLabels
           /\ t # Main => Serving /\ mutex = t
<1>1. PICK t \in Threads : pc[t] = "start"
  BY Zenon DEF StartInv
<1> QED
  BY <1>1, StartAlone, Zenon

(***************************************************************************)
(* A step of thread t outside Start, as Start and its clients see it: the  *)
(* key, the store and the state are not touched while a Start is under     *)
(* way, and the store not even after it.                                   *)
(***************************************************************************)
Works(t) ==
  /\ Up /\ (Mid => pc[t] # "start") /\ (t = Main => sub = "none")
  /\ \A u \in Threads : pc'[u] = pc[u] \/ u = t \/ (u = Main /\ pc'[u] = "exiting")
  /\ pc'[t] \in {"bootSql", "bootAgain"} => sub = "none"
  /\ UNCHANGED <<cfg, mysqld, manifestSig>>
  /\ rocks' = rocks \/ sub = "none"
  /\ Configured => rocks' = rocks
  /\ env' = env \/ ~Mid
  /\ state' = state \/ t = Main

\* A step of a thread moves only this thread, or ends the process.
LEMMA OneMoves ==
  ASSUME TypeOK, NEW t \in Threads, PostRecover(t) \/ ThreadEffect(t)
  PROVE  \A u \in Threads : pc'[u] = pc[u] \/ u = t \/ (u = Main /\ pc'[u] = "exiting")
<1>1. CASE Ends(t) \/ BootPanics(t)
  BY <1>1, EndsLocally, Zenon DEF Standing
<1>2. CASE ReplyManifest(t)
  BY <1>2, Zenon DEF ReplyManifest, Return, TypeOK
<1>3. CASE ~(Ends(t) \/ BootPanics(t)) /\ ~ReplyManifest(t)
  <2>1. \E label : Goto(t, label)
    BY <1>3, Zenon DEF ThreadEffect, PostRecover, RecoverLocks, KeySet, OpenBackup, WriteBackup, TruncateSealed,
       WriteSealed, Encrypts, InitializeLock, Accepts, BootOpen, BootDone
  <2> QED
    BY <2>1, GotoMoves, Zenon
<1> QED
  BY <1>1, <1>2, <1>3, Zenon

\* The steps of the core outside Start, as Start sees them.
LEMMA CoreWorks ==
  ASSUME CoreInv, StartInv, NEW t \in Threads, PostRecover(t) \/ ThreadEffect(t),
         UNCHANGED <<mysqld, manifestSig>>, Mid => pc[t] # "start"
  PROVE  Works(t)
<1> USE DEF CoreInv
<1>1. Alive(t) /\ pc[t] \notin {"down", "serve", "exiting"}
  BY Zenon DEF ThreadEffect, Ends, PostRecover, RecoverLocks, KeySet, OpenBackup, WriteBackup, TruncateSealed,
     WriteSealed, Encrypts, InitializeLock, Accepts, BootOpen, BootDone, BootPanics, ReplyManifest, Alive
<1>2. Up
  BY <1>1, Zenon DEF Alive, Up, Serving
<1>3. t = Main => sub = "none"
  BY <1>1, Zenon DEF Control, StartInv
<1>4. /\ cfg' = cfg
      /\ rocks' = rocks \/ BootOpen(t) \/ BootDone(t) \/ BootPanics(t)
      /\ env' = env \/ KeySet(t)
      /\ state' = state \/ t = Main
  BY Zenon DEF ThreadEffect, Ends, PostRecover, RecoverLocks, KeySet, OpenBackup, WriteBackup, TruncateSealed,
     WriteSealed, Encrypts, InitializeLock, Accepts, BootOpen, BootDone, BootPanics, ReplyManifest, hostVars, procVars
<1>5. BootOpen(t) => sub = "none" /\ (rocks # NoDb => rocks' = rocks)
  BY BootOpensStore, Zenon DEF BootOpen, Opens, StartInv, Typed
<1>6. BootDone(t) \/ BootPanics(t) => sub = "none" /\ ~Configured
  BY Zenon DEF BootDone, BootPanics, Configured, StartInv
<1>7. KeySet(t) => ~Mid
  <2> SUFFICES ASSUME KeySet(t), Mid PROVE FALSE
    BY Zenon
  <2>1. PICK v \in Threads : pc[v] = "start" /\ \A u \in Threads \ {v} : pc[u] \notin InitLabels \cup RecoverLabels
    BY <1>2, MidAlone, Zenon
  <2> QED
    BY <2>1, Zenon DEF KeySet, RecoverLabels
<1>8. pc'[t] \in {"bootSql", "bootAgain"} => sub = "none"
  <2>1. CASE Ends(t) \/ BootPanics(t)
    BY <2>1, EndsLocally, Zenon DEF Standing, StartInv, Typed
  <2>2. CASE ReplyManifest(t)
    BY <2>2, Zenon DEF ReplyManifest, Return, Typed, TypeOK
  <2>3. CASE BootOpen(t)
    BY <2>3, <1>5, Zenon
  <2>4. CASE ~(Ends(t) \/ BootPanics(t)) /\ ~ReplyManifest(t) /\ ~BootOpen(t)
    <3>1. PICK label \in Labels \ {"bootSql", "bootAgain"} : Goto(t, label)
      BY <2>4, Zenon DEF ThreadEffect, PostRecover, RecoverLocks, KeySet, OpenBackup, WriteBackup, TruncateSealed,
         WriteSealed, Encrypts, InitializeLock, Accepts, BootDone, Labels
    <3> QED
      BY <3>1, GotoMoves, Zenon DEF Typed
  <2> QED
    BY <2>1, <2>2, <2>3, <2>4, Zenon
<1> QED
  BY <1>2, <1>3, <1>4, <1>5, <1>6, <1>7, <1>8, OneMoves, Zenon DEF Works, Typed, Configured

\* The steps of a thread that EdbCore has, too.
CoreMove(t) ==
  CoreStep(t) \/ NotInitializedYet(t) \/ StoreCertificate(t) \/ Acknowledge(t) \/ (t \in Handlers /\ Request(t))

\* They leave Start, its certificate and the server alone.
LEMMA MovesWork ==
  ASSUME CoreInv, StartInv, NEW t \in Threads, CoreMove(t)
  PROVE  /\ Works(t) /\ (PostRecover(t) \/ ThreadEffect(t))
         /\ UNCHANGED <<addr, ready, server, pending, session, sub, cert, dkey, files>>
         /\ storedCert' = storedCert \/ (~Configured /\ sub = "none")
<1>1. Step(t) \/ (t \in Handlers /\ (PostRecover(t) \/ PostManifest(t)))
  BY Zenon DEF CoreMove, CoreStep, NotInitializedYet, StoreCertificate, Acknowledge, Request, Step
<1>2. PostRecover(t) \/ ThreadEffect(t)
  BY <1>1, StepEffects, Zenon DEF CoreInv, Typed
<1>3. UNCHANGED <<addr, ready, server, pending, session, sub, cert, dkey, files>>
  BY Zenon DEF CoreMove, CoreStep, NotInitializedYet, StoreCertificate, Acknowledge, Request, sysVars, listenVars, certVars
<1>4. Mid => pc[t] # "start"
  BY Zenon DEF CoreMove, CoreStep, NotInitializedYet, StoreCertificate, Acknowledge, Request, RecoverLock, SetMasterKey,
     OpenBackup, WriteBackup, TruncateSealed, WriteSealed, StoreFails, InitializeLock, Initialize, InitializeFails,
     BootOpen, BootFatal, BootError, StartUninitialized, BootDone, BootPanics, ReplyManifest, PostRecover, PostManifest, Mid,
     StartInv
<1>5. UNCHANGED <<mysqld, manifestSig>>
  BY Zenon DEF CoreMove, CoreStep, NotInitializedYet, StoreCertificate, Acknowledge, Request, RecoverLock, SetMasterKey,
     OpenBackup, WriteBackup, TruncateSealed, WriteSealed, StoreFails, InitializeLock, Initialize, InitializeFails,
     StartFatal, StartFails, BootOpen, BootFatal, BootError, StartUninitialized, BootDone, BootPanics, ReplyManifest,
     PostRecover, PostManifest, procVars, dbVars
<1>6. storedCert' = storedCert \/ (~Configured /\ sub = "none")
  BY Zenon DEF CoreMove, CoreStep, NotInitializedYet, StoreCertificate, Acknowledge, Request, sysVars, BootDone, BootPanics,
     StartInv, Configured
<1> QED
  BY <1>2, <1>3, <1>4, <1>5, <1>6, CoreWorks, Zenon

\* The steps with which Start, or its process, ends are ends of a call of EdbCore.
LEMMA StartCallEnds ==
  ASSUME CoreInv, StartInv,
         \/ ServerExits \/ ServerAborts
         \/ \E t \in Threads :
              DebugRefused(t) \/ NoConfig(t) \/ WriteCertificatesFails(t) \/ DialRefused(t) \/ Started(t)
  PROVE  \E t \in Threads : pc[t] = "start" /\ Ends(t)
<1> USE DEF Ends, hostVars, diskVars, dbVars, callVars, procVars
<1>1. CASE ServerExits \/ ServerAborts
  <2>1. Mid /\ Up
    BY <1>1, Zenon DEF ServerExits, ServerAborts, StartInv, Mid
  <2>2. PICK t \in Threads : Alive(t) /\ pc[t] = "start"
    BY <2>1, MidAlone, Zenon
  <2> QED
    BY <1>1, <2>2, Zenon DEF ServerExits, ServerAborts
<1>2. ASSUME NEW t \in Threads,
             DebugRefused(t) \/ NoConfig(t) \/ WriteCertificatesFails(t) \/ DialRefused(t) \/ Started(t)
      PROVE  pc[t] = "start" /\ Ends(t)
  BY <1>2, Zenon DEF DebugRefused, NoConfig, WriteCertificatesFails, DialRefused, Started, InStart, Fail
<1> QED
  BY <1>1, <1>2, Zenon

\* The steps of Start and of the server that only change what belongs to Start.
Quiet ==
  /\ UNCHANGED <<cfg, host, env, masterKey, sealed, bakNow, backups, rocks, attemptedInit, state, mutex, pc, key, man, rkey,
                 timer, acked, crashes, moves, faults>>
  /\ mysqld' \in BOOLEAN /\ manifestSig' \in Manifests \cup {NoManifest}

\* The other steps of Start and of the server are such steps.
LEMMA StartQuiet ==
  ASSUME CoreInv, StartInv,
         \/ UNCHANGED vars
         \/ \E t \in Threads : StartMain(t) \/ ReadConfig(t)
  PROVE  Quiet
<1> USE DEF Quiet, CoreInv, Typed, TypeOK
<1>1. CASE UNCHANGED vars
  BY <1>1, Zenon DEF vars
<1>2. ASSUME NEW t \in Threads, StartMain(t) PROVE Quiet
  BY <1>2, Zenon DEF StartMain, hostVars, diskVars, callVars
<1>3. ASSUME NEW t \in Threads, ReadConfig(t) PROVE Quiet
  <2>1. rocks \in DbType
    BY <1>3, Zenon DEF ReadConfig, InStart, StartInv
  <2>2. rocks.config \in Manifests \cup {NoManifest}
    BY <2>1, Zenon DEF DbType
  <2> QED
    BY <1>3, <2>2, Zenon DEF ReadConfig, hostVars, diskVars, callVars
<1> QED
  BY <1>1, <1>2, <1>3, Zenon

\* The layers of EdbCore say nothing about what such a step changes.
LEMMA QuietKeeps ==
  ASSUME CoreInv, Quiet
  PROVE  CoreInv'
<1> USE DEF Quiet
<1>1. Typed'
  BY Zenon DEF CoreInv, Typed, TypeOK
<1>2. Control'
  BY Zenon DEF CoreInv, Control
<1>3. CallInv'
  BY Zenon DEF CoreInv, CallInv
<1> QED
  BY <1>1, <1>2, <1>3, Zenon DEF CoreInv

\* What a step of this system is for EdbCore.
LEMMA SystemEffects ==
  ASSUME CoreInv, StartInv, [SysNext]_allVars
  PROVE  Effect \/ Quiet \/ \E t \in Threads : pc[t] = "start" /\ Ends(t)
<1>1. ASSUME NEW t \in Threads, CoreMove(t) PROVE Effect
  BY <1>1, MovesWork, Zenon DEF Effect
<1>2. CASE NewMariadb \/ ProcessEnds \/ LoadKey \/ MoveHost \/ Reconfigure \/ Second
  <2>1. Next
    BY <1>2, Zenon DEF NewMariadb, ProcessEnds, LoadKey, LoadStep, Next
  <2> QED
    BY <2>1, Effects, Zenon DEF CoreInv, Typed
<1>3. ASSUME NEW r \in Readers, ReaderStep(r) PROVE UNCHANGED vars
  BY <1>3, Zenon DEF ReaderStep, QuoteCert, QuoteReport, Signature, Answered, Answer
<1>4. CASE ServerStep
  <2>1. CASE ServerRuns \/ ServerAborts
    BY <2>1, StartCallEnds, StartQuiet, Zenon DEF ServerRuns, ServerOpens
  <2>2. CASE MainReturns
    BY <2>2, Effects, Zenon DEF MainReturns, Next, CoreInv, Typed
  <2> QED
    BY <1>4, <2>1, <2>2, Zenon DEF ServerStep
<1>5. ASSUME NEW t \in Threads, StartStep(t) PROVE Quiet \/ \E u \in Threads : pc[u] = "start" /\ Ends(u)
  <2>1. CASE ConnectSql(t) \/ SetCert(t) \/ SetKey(t) \/ WriteCertificates(t) \/ ClearAddr(t) \/ Dial(t)
    BY <2>1, StartQuiet, Zenon DEF ConnectSql, SetCert, SetKey, WriteCertificates, ClearAddr, Dial
  <2> QED
    BY <1>5, <2>1, StartCallEnds, StartQuiet, Zenon DEF StartStep
<1>6. ASSUME NEW t \in Handlers, Request(t) PROVE Effect
  BY <1>6, <1>1, Zenon DEF CoreMove, Threads
<1>7. CASE UNCHANGED allVars
  BY <1>7, StartQuiet, Zenon DEF allVars
<1> QED
  BY <1>1, <1>2, <1>3, <1>4, <1>5, <1>6, <1>7, StartQuiet, ZenonT(60) DEF SysNext, CoreMove

\* The layers of EdbCore are invariants of this system.
LEMMA CoreInvStep ==
  ASSUME CoreInv, StartInv, [SysNext]_allVars
  PROVE  CoreInv'
<1>1. CASE Effect
  BY <1>1, TypeStep, ControlStep, CallStep, Zenon DEF CoreInv
<1>2. ASSUME NEW t \in Threads, Ends(t) PROVE CoreInv'
  BY <1>2, TypeEnds, ControlEnds, CallEnds, Zenon DEF CoreInv
<1> QED
  BY <1>1, <1>2, SystemEffects, QuietKeeps, Zenon

(***************************************************************************)
(*                      Start, step by step                                *)
(***************************************************************************)

\* While there is no server, there is nothing to say about it.
LEMMA NoServer ==
  ASSUME sub' = "none", server' = "off", ~ready', ~mysqld', manifestSig' = NoManifest, files' = 0
  PROVE  StartInv' /\ HandshakeInv'
<1>1. StartInv'
  BY Zenon DEF StartInv, Mid, AfterConfig
<1>2. HandshakeInv'
  BY Zenon DEF HandshakeInv, AfterConfig
<1> QED
  BY <1>1, <1>2, Zenon

\* A new deployment has no server.
LEMMA StartInit == SysInit => CoreInv /\ StartInv /\ HandshakeInv
<1>1. SysInit => CoreInv
  BY TypeInit, ControlInit, CallInit, Zenon DEF SysInit, CoreInv
<1>2. SysInit => StartInv
  BY Zenon DEF SysInit, Init, ListenInit, StartInv, Mid, AfterConfig, LaunchLabels
<1>3. SysInit => HandshakeInv
  BY Zenon DEF SysInit, ListenInit, HandshakeInv, AfterConfig
<1> QED
  BY <1>1, <1>2, <1>3, Zenon

\* The core, clients and the operator take no part in Start, and a new process begins a new one.
LEMMA OthersKeepStart ==
  ASSUME CoreInv, StartInv, HandshakeInv, [SysNext]_allVars,
         ~(\E t \in Threads : StartStep(t)), ~ServerStep
  PROVE  StartInv' /\ HandshakeInv'
<1>1. CASE NewMariadb \/ ProcessEnds
  BY <1>1, NoServer, Zenon DEF NewMariadb, ProcessEnds, ProcessReset, ListenReset, Launch, Restart, Exit, Crash, Reset
<1>2. sub = "none" => server = "off" /\ ~ready /\ ~mysqld /\ manifestSig = NoManifest /\ files = 0
  BY Zenon DEF StartInv, HandshakeInv
<1>3. CASE LoadKey
  <2>1. sub = "none"
    BY <1>3, Zenon DEF LoadKey, KeyLoaded, NewMasterKey, LoadPanics, EnterRecovery, StartInv, LaunchLabels
  <2>2. UNCHANGED <<sub, server, ready, mysqld, manifestSig, files>>
    BY <1>3, Zenon DEF LoadKey, KeyLoaded, NewMasterKey, LoadPanics, EnterRecovery, sysVars, listenVars, certVars,
       procVars, dbVars
  <2> QED
    BY <2>1, <2>2, <1>2, NoServer, Zenon
<1>4. ASSUME NEW t \in Threads, CoreMove(t) PROVE StartInv' /\ HandshakeInv'
  <2>1. /\ Works(t)
        /\ UNCHANGED <<addr, ready, server, sub, cert, dkey, files>>
        /\ storedCert' = storedCert \/ sub = "none"
    BY <1>4, MovesWork, Zenon
  <2>2. CASE sub = "none"
    BY <2>1, <2>2, <1>2, NoServer, Zenon DEF Works
  <2>3. CASE sub # "none"
    <3>1. UNCHANGED <<rocks, cfg, state, storedCert, mysqld, manifestSig>> /\ t # Main
      BY <2>1, <2>3, Zenon DEF Works
    <3>2. HandshakeInv'
      BY <3>1, <2>1, Zenon DEF HandshakeInv, Installed, Configured
    <3>3. Mid' /\ Up' => \E u \in Threads : pc'[u] = "start"
      BY <2>1, Zenon DEF StartInv, Works, Mid, Up
    <3>4. \A u \in Threads : pc'[u] \notin {"bootSql", "bootAgain"}
      BY <2>1, <2>3, Zenon DEF StartInv, Works
    <3>5. pc'[Main] = pc[Main] \/ pc'[Main] = "exiting"
      BY <2>1, <3>1, Zenon DEF Works, Threads
    <3>6. Mid => env' = env
      BY <2>1, Zenon DEF Works
    <3>7. StartInv'
      BY <2>1, <2>3, <3>1, <3>3, <3>4, <3>5, <3>6, ZenonT(30) DEF StartInv, Mid, LaunchLabels, InitLabels, Serving, DebugAllowed
    <3> QED
      BY <3>2, <3>7, Zenon
  <2> QED
    BY <2>2, <2>3, Zenon
<1>5. CASE (MoveHost \/ Reconfigure) /\ UNCHANGED sysVars
  <2>1. sub = "none"
    BY <1>5, Zenon DEF MoveHost, Reconfigure, StartInv
  <2>2. UNCHANGED <<sub, server, ready, mysqld, manifestSig, files>>
    BY <1>5, Zenon DEF MoveHost, Reconfigure, sysVars, listenVars, certVars, procVars
  <2> QED
    BY <2>1, <2>2, <1>2, NoServer, Zenon
<1>6. CASE UNCHANGED <<cfg, env, rocks, state, pc, mysqld, manifestSig, addr, ready, server, sub, cert, dkey, files, storedCert>>
  <2>1. StartInv'
    BY <1>6 DEF StartInv, Mid, Up, Serving, DebugAllowed
  <2>2. HandshakeInv'
    BY <1>6, Zenon DEF HandshakeInv, Installed, Configured
  <2> QED
    BY <2>1, <2>2, Zenon
<1>7. CASE Second /\ UNCHANGED sysVars
  BY <1>7, <1>6, Zenon DEF Second, hostVars, procVars, sysVars, listenVars, certVars
<1>8. ASSUME NEW r \in Readers, ReaderStep(r) PROVE StartInv' /\ HandshakeInv'
  BY <1>8, <1>6, Zenon DEF ReaderStep, QuoteCert, QuoteReport, Signature, Answered, Answer, vars, listenVars, certVars
<1>9. CASE UNCHANGED allVars
  BY <1>9, <1>6, Zenon DEF allVars, vars, sysVars, listenVars, certVars
<1> QED
  BY <1>1, <1>3, <1>4, <1>5, <1>7, <1>8, <1>9, ZenonT(60) DEF SysNext, CoreMove, Threads

\* What the steps of Start leave alone.
LEMMA StartFrame ==
  ASSUME NEW t \in Threads, StartStep(t)
  PROVE  UNCHANGED <<cfg, env, rocks, state, storedCert>>
  BY Zenon DEF StartStep, StartMain, ConnectSql, ReadConfig, DebugRefused, NoConfig, SetCert, SetKey, WriteCertificates,
     WriteCertificatesFails, ClearAddr, Dial, DialRefused, Started, vars, hostVars, procVars, sysVars

\* The goroutine in Start does its part in order, and clears the variable last.
LEMMA HandshakeStart ==
  ASSUME CoreInv, StartInv, HandshakeInv, NEW t \in Threads, StartStep(t)
  PROVE  HandshakeInv'
<1>1. UNCHANGED <<rocks, storedCert>> /\ (Configured' <=> Configured)
  BY StartFrame, Zenon DEF Configured
<1> USE DEF HandshakeInv, Installed, AfterConfig, InStart, listenVars, certVars
<1>2. CASE StartMain(t)
  BY <1>1, <1>2, Zenon DEF StartMain, MainStarts
<1>3. CASE ConnectSql(t)
  BY <1>1, <1>3, Zenon DEF ConnectSql, Connect
<1>4. CASE ReadConfig(t)
  BY <1>1, <1>4, Zenon DEF ReadConfig, Configured, StartInv
<1>5. CASE DebugRefused(t)
  BY <1>1, <1>5, Zenon DEF DebugRefused
<1>6. CASE NoConfig(t)
  BY <1>1, <1>6, Zenon DEF NoConfig, sysVars
<1>7. CASE SetCert(t)
  BY <1>1, <1>7, Zenon DEF SetCert
<1>8. CASE SetKey(t)
  BY <1>1, <1>8 DEF SetKey
<1>9. CASE WriteCertificates(t)
  BY <1>1, <1>9 DEF WriteCertificates
<1>10. CASE WriteCertificatesFails(t)
  BY <1>1, <1>10, Zenon DEF WriteCertificatesFails
<1>11. CASE ClearAddr(t)
  BY <1>1, <1>11, Zenon DEF ClearAddr
<1>12. CASE Dial(t)
  BY <1>1, <1>12, Zenon DEF Dial, Connect
<1>13. CASE DialRefused(t)
  BY <1>1, <1>13, Zenon DEF DialRefused
<1>14. CASE Started(t)
  BY <1>1, <1>14, Zenon DEF Started
<1> QED
  BY <1>2, <1>3, <1>4, <1>5, <1>6, <1>7, <1>8, <1>9, <1>10, <1>11, <1>12, <1>13, <1>14, Zenon DEF StartStep

\* The server leaves its loop only when it finds the variable cleared.
LEMMA HandshakeServer ==
  ASSUME HandshakeInv, ServerStep
  PROVE  HandshakeInv'
<1>1. /\ UNCHANGED <<rocks, storedCert, cert, dkey, files, sub, addr>>
      /\ Configured' <=> Configured
  BY Zenon DEF ServerStep, ServerRuns, ServerOpens, ServerExits, ServerAborts, MainReturns, ServerEnds, ListenStep, Listen,
     SetReady, Accept, CheckAddr, CloseSocket, FinishStartup, Configured, vars, sysVars, listenVars, certVars
<1>2. server = "off" => server' = "off"
  BY Zenon DEF ServerStep, ServerRuns, ServerOpens, ServerExits, ServerAborts, MainReturns, ServerEnds, ListenStep, Listen,
     SetReady, Accept, CheckAddr, CloseSocket, FinishStartup, sysVars, listenVars
<1>3. server' \in {"close", "ssl", "running"} => server \in {"close", "ssl", "running"} \/ ~addr
  BY Zenon DEF ServerStep, ServerRuns, ServerOpens, ServerExits, ServerAborts, MainReturns, ServerEnds, ListenStep, Listen,
     SetReady, Accept, CheckAddr, CloseSocket, FinishStartup, sysVars, listenVars
<1> QED
  BY <1>1, <1>2, <1>3, Zenon DEF HandshakeInv, Installed

\* The thread in Start goes on, returns or ends its process.
LEMMA StartMoves ==
  ASSUME CoreInv, StartInv, NEW t \in Threads, StartStep(t)
  PROVE  /\ Up /\ pc[t] = "start"
         /\ \A u \in Threads \ {t} : pc[u] \notin InitLabels \cup RecoverLabels
         /\ t = Main \/ (Serving /\ state = "Recovery")
         /\ \/ pc' = pc /\ sub' \notin {"done", "failed"}
            \/ Return(t) /\ sub' \in {"done", "failed"}
            \/ Terminate
<1>1. InStart(t, sub)
  BY Zenon DEF StartStep, StartMain, ConnectSql, ReadConfig, DebugRefused, NoConfig, SetCert, SetKey, WriteCertificates,
     WriteCertificatesFails, ClearAddr, Dial, DialRefused, Started, InStart
<1>2. Up /\ pc[t] = "start"
  BY <1>1, Zenon DEF InStart, Alive, Up, Serving
<1>3. /\ \A u \in Threads \ {t} : pc[u] \notin InitLabels \cup RecoverLabels
      /\ t = Main \/ (Serving /\ state = "Recovery")
  BY <1>2, StartAlone, Zenon
<1>4. \/ pc' = pc /\ sub' \notin {"done", "failed"}
      \/ Return(t) /\ sub' \in {"done", "failed"}
      \/ Terminate
  BY Zenon DEF StartStep, StartMain, ConnectSql, ReadConfig, DebugRefused, NoConfig, SetCert, SetKey, WriteCertificates,
     WriteCertificatesFails, ClearAddr, Dial, DialRefused, Started, Fail, vars
<1> QED
  BY <1>2, <1>3, <1>4, Zenon

\* Where the threads are after a step of Start.
LEMMA StartKeepsControl ==
  ASSUME CoreInv, StartInv, NEW t \in Threads, StartStep(t)
  PROVE  /\ Mid' /\ Up' => \E u \in Threads : pc'[u] = "start"
         /\ pc'[Main] \in (LaunchLabels \ {"start"}) \cup {"down"} => sub' = "none"
         /\ pc'[Main] = "start" => sub' = "none" \/ Mid'
         /\ Serving' /\ state' # "Recovery" => sub' \in {"none", "done"}
         /\ \A u \in Threads : pc'[u] \in {"bootSql", "bootAgain"} => sub' = "none"
<1>1. /\ pc[t] = "start" /\ state' = state
      /\ \A u \in Threads \ {t} : pc[u] \notin InitLabels \cup RecoverLabels
      /\ t = Main \/ (Serving /\ state = "Recovery")
  BY StartMoves, StartFrame, Zenon
<1>2. \A u \in Threads : pc[u] \notin {"bootSql", "bootAgain"}
  BY <1>1, Zenon DEF InitLabels
<1>3. CASE pc' = pc /\ sub' \notin {"done", "failed"}
  <2>1. sub' \in AfterConfig \cup {"wait", "query"} \/ sub' = sub
    BY <1>3, Zenon DEF StartStep, StartMain, ConnectSql, ReadConfig, DebugRefused, NoConfig, SetCert, SetKey,
       WriteCertificates, WriteCertificatesFails, ClearAddr, Dial, DialRefused, Started, AfterConfig, sysVars
  <2>2. pc[Main] = "start" \/ Serving
    BY <1>1, Zenon
  <2> QED
    BY <1>1, <1>2, <1>3, <2>1, <2>2, Zenon DEF StartInv, Mid, Up, Serving, AfterConfig, LaunchLabels, InitLabels
<1>4. CASE Return(t) /\ sub' \in {"done", "failed"}
  <2>1. \A u \in Threads : pc'[u] = IF u = t THEN (IF t = Main THEN "serve" ELSE "idle") ELSE pc[u]
    BY <1>4, Zenon DEF Return, CoreInv, Typed, TypeOK
  <2>2. Main \in Threads
    BY Zenon DEF Threads
  <2>3. t = Main => sub' = "done"
    <3>1. t = Main => ~Terminate
      BY <2>1, <2>2, Zenon DEF Terminate, CoreInv, Typed, TypeOK
    <3>2. t = Main => ~Fail(t)
      BY <3>1, Zenon DEF Fail
    <3> QED
      BY <1>4, <3>1, <3>2, Zenon DEF StartStep, StartMain, ConnectSql, ReadConfig, DebugRefused, NoConfig, SetCert, SetKey,
         WriteCertificates, WriteCertificatesFails, ClearAddr, Dial, DialRefused, Started
  <2>4. \A u \in Threads : pc'[u] \notin {"bootSql", "bootAgain"}
    BY <2>1, <1>2, Zenon
  <2>5. pc'[Main] = "serve" /\ ~Mid'
    BY <2>1, <2>2, <1>1, <1>4, Zenon DEF Serving, Mid
  <2> QED
    BY <1>1, <1>4, <2>3, <2>4, <2>5, Zenon DEF Serving, LaunchLabels, InitLabels
<1>5. CASE Terminate
  <2>1. /\ pc'[Main] = "exiting"
        /\ \A u \in Threads : pc'[u] \notin {"bootSql", "bootAgain"}
    BY <1>2, <1>5, Zenon DEF Terminate, CoreInv, Typed, TypeOK, Threads
  <2> QED
    BY <2>1, Zenon DEF Up, Serving, LaunchLabels, InitLabels
<1> QED
  BY <1>3, <1>4, <1>5, StartMoves, Zenon

\* The goroutine in Start keeps what is known about its step.
LEMMA StartKeepsStart ==
  ASSUME CoreInv, StartInv, HandshakeInv, NEW t \in Threads, StartStep(t)
  PROVE  StartInv'
<1>1. UNCHANGED <<cfg, env, rocks>> /\ (DebugAllowed' <=> DebugAllowed)
  BY StartFrame, Zenon DEF DebugAllowed
<1> DEFINE Data ==
  /\ sub = "none" <=> server = "off"
  /\ sub = "none" <=> ~mysqld
  /\ sub # "none" => rocks # NoDb
  /\ ready => server \notin {"off", "open", "bind", "listen"}
  /\ server = "open" => sub = "wait"
  /\ sub \in {"none", "wait", "query"} => manifestSig = NoManifest
  /\ sub \in AfterConfig \cup {"done"} => manifestSig = rocks.config
  /\ sub = "failed" => manifestSig \in {NoManifest, rocks.config}
  /\ Mid /\ server # "open" => env = rocks.key
  /\ sub \in AfterConfig => DebugAllowed
  /\ sub = "done" => server = "running"
<1>2. Data
  BY Zenon DEF StartInv
<1>3. Data => Data'
  <2> USE <1>1, <1>2 DEF AfterConfig, Mid, InStart, listenVars, procVars
  <2>1. CASE StartMain(t)
    BY <2>1, Zenon DEF StartMain, MainStarts
  <2>2. CASE ConnectSql(t)
    BY <2>2, Zenon DEF ConnectSql, Connect, vars
  <2>3. CASE ReadConfig(t)
    BY <2>3, Zenon DEF ReadConfig
  <2>4. CASE DebugRefused(t)
    BY <2>4, Zenon DEF DebugRefused
  <2>5. CASE NoConfig(t)
    BY <2>5, Zenon DEF NoConfig, sysVars
  <2>6. CASE SetCert(t) \/ SetKey(t) \/ WriteCertificates(t)
    <3>1. /\ UNCHANGED <<server, ready, mysqld, manifestSig>>
          /\ sub \in {"cert", "key", "files"} /\ sub' \in {"key", "files", "clear"}
      BY <2>6, Zenon DEF SetCert, SetKey, WriteCertificates, vars
    <3> QED
      BY <3>1, Zenon
  <2>7. CASE WriteCertificatesFails(t)
    BY <2>7, Zenon DEF WriteCertificatesFails
  <2>8. CASE ClearAddr(t) \/ Dial(t)
    <3>1. /\ UNCHANGED <<server, ready, mysqld, manifestSig>>
          /\ sub \in {"clear", "dial"} /\ sub' \in {"dial", "started"}
      BY <2>8, Zenon DEF ClearAddr, Dial, Connect, vars
    <3> QED
      BY <3>1, Zenon
  <2>9. CASE DialRefused(t)
    BY <2>9, Zenon DEF DialRefused
  <2>10. CASE Started(t)
    BY <2>10, Zenon DEF Started
  <2> QED
    BY <2>1, <2>2, <2>3, <2>4, <2>5, <2>6, <2>7, <2>8, <2>9, <2>10, Zenon DEF StartStep
<1> QED
  BY <1>2, <1>3, StartKeepsControl, Zenon DEF StartInv

\* The server goes its way, and a server that ends takes the process with it.
LEMMA ServerKeepsStart ==
  ASSUME CoreInv, StartInv, ServerStep
  PROVE  StartInv'
<1>1. /\ UNCHANGED <<cfg, env, rocks, state, sub, mysqld, manifestSig>>
      /\ DebugAllowed' <=> DebugAllowed
  BY Zenon DEF ServerStep, ServerRuns, ServerOpens, ServerExits, ServerAborts, MainReturns, ServerEnds, DebugAllowed, vars,
     sysVars, hostVars, procVars
<1>2. /\ server = "off" <=> server' = "off"
      /\ server' = "open" => server = "open"
      /\ server = "running" => server' = "running"
      /\ ready' => server' \notin {"off", "open", "bind", "listen"}
  <2> USE DEF sysVars, listenVars
  <2>0. ready => server \notin {"off", "open", "bind", "listen"}
    BY Zenon DEF StartInv
  <2>1. CASE ServerOpens \/ ServerExits \/ ServerAborts \/ MainReturns
    BY <2>0, <2>1 DEF ServerOpens, ServerExits, ServerAborts, MainReturns
  <2>2. CASE ListenStep
    BY <2>0, <2>2 DEF ListenStep, Listen, SetReady, Accept, CheckAddr, CloseSocket, FinishStartup
  <2> QED
    BY <2>1, <2>2, Zenon DEF ServerStep, ServerRuns
<1>3. server = "open" /\ server' # "open" => env = rocks.key
  BY Zenon DEF ServerStep, ServerRuns, ServerOpens, ServerExits, ServerAborts, MainReturns, ServerEnds, ListenStep, Listen,
     SetReady, Accept, CheckAddr, CloseSocket, FinishStartup, sysVars, listenVars
<1>4. Mid /\ server' # "open" => env = rocks.key
  BY <1>3, Zenon DEF StartInv
<1>5. pc' = pc \/ Terminate
  BY Zenon DEF ServerStep, ServerRuns, ServerOpens, ServerExits, ServerAborts, MainReturns, ServerEnds, vars
<1>6. \/ pc' = pc
      \/ /\ pc'[Main] = "exiting"
         /\ \A u \in Threads : pc'[u] \in {"bootSql", "bootAgain"} => pc[u] = pc'[u]
  BY <1>5, Zenon DEF Terminate, CoreInv, Typed, TypeOK, Threads
<1> QED
  BY <1>1, <1>2, <1>4, <1>6 DEF StartInv, Mid, Up, Serving, LaunchLabels, InitLabels

\* The invariant of the start is inductive.
LEMMA StartStepKeeps ==
  CoreInv /\ StartInv /\ HandshakeInv /\ [SysNext]_allVars => (CoreInv /\ StartInv /\ HandshakeInv)'
  BY CoreInvStep, OthersKeepStart, StartKeepsStart, HandshakeStart, ServerKeepsStart, HandshakeServer, Zenon

\* The invariant of the start holds.
THEOREM StartInvariant == SysSpec => [](CoreInv /\ StartInv /\ HandshakeInv)
  BY StartInit, StartStepKeeps, PTL DEF SysSpec

(***************************************************************************)
(* The server sets up TLS only with the files Start has written, and they  *)
(* hold the certificate of the database, in every interleaving of the two. *)
(***************************************************************************)
THEOREM ServerCertified == SysSpec => []ServerHasCertificates
<1>1. HandshakeInv => ServerHasCertificates
  BY Zenon DEF HandshakeInv, Installed, ServerHasCertificates
<1> QED
  BY <1>1, StartInvariant, PTL
=============================================================================
