-------------------------- MODULE EdbSystemClients --------------------------
(***************************************************************************)
(* What clients of the system can rely on while a start is under way and   *)
(* after it, for all values of the constants: the root certificate of the  *)
(* connection on which the manifest was uploaded, /quote and /signature.   *)
(***************************************************************************)
EXTENDS EdbSystemProofs

\* The invariant of the start, with the layers of EdbCore.
BaseInv == CoreInv /\ StartInv /\ HandshakeInv

(***************************************************************************)
(*                                  Types                                  *)
(***************************************************************************)

\* The types of the variables of EdbSystem.  That a thread is in Start is StartInv.
SysTyped ==
  /\ addr \in BOOLEAN /\ ready \in BOOLEAN /\ session \in BOOLEAN
  /\ server \in ServerLabels /\ pending \in {"none", "sql", "signal"}
  /\ Mid \/ sub \in {"none", "done", "failed"}
  /\ {cert, dkey, report, storedCert} \subseteq AllCerts /\ files \in 0..3
  /\ conn \in [Handlers -> AllCerts] /\ ackedCerts \subseteq AllCerts
  /\ ans \in [Readers -> Answers]

\* A new deployment is well typed.
LEMMA SysTypedInit == SysInit => SysTyped
<1> SUFFICES ASSUME SysInit PROVE SysTyped
  BY Zenon
<1>1. NoCert \in AllCerts /\ NoAnswer \in Answers
  BY Zenon DEF AllCerts, Answers
<1>2. files \in 0..3
  BY DEF SysInit
<1> QED
  BY <1>1, <1>2, Zenon DEF SysInit, ListenInit, SysTyped, ServerLabels

\* A process that ends or begins is well typed.
LEMMA ResetTyped ==
  ASSUME SysTyped, NewMariadb \/ ProcessEnds
  PROVE  SysTyped'
<1>1. NoCert \in AllCerts /\ NoAnswer \in Answers
  BY Zenon DEF AllCerts, Answers
<1>2. ProcessReset /\ {cert', dkey'} \subseteq AllCerts
  <2>1. CASE NewMariadb
    BY <2>1, Zenon DEF NewMariadb, NewCerts, AllCerts
  <2>2. CASE ProcessEnds
    BY <2>2, <1>1, Zenon DEF ProcessEnds
  <2> QED
    BY <2>1, <2>2, Zenon
<1>3. files' \in 0..3
  BY <1>2 DEF ProcessReset
<1> QED
  BY <1>1, <1>2, <1>3, Zenon DEF ProcessReset, ListenReset, SysTyped, ServerLabels

\* The report is for one of the certificates.
LEMMA ReportTyped ==
  ASSUME SysTyped
  PROVE  Certified \in AllCerts /\ (GenerateReport => report' \in AllCerts)
  BY Zenon DEF SysTyped, Certified, GenerateReport, AllCerts

\* The steps of the core keep the types.
LEMMA CoreTyped ==
  ASSUME BaseInv, SysTyped, LoadKey \/ \E t \in Threads : CoreMove(t)
  PROVE  SysTyped'
<1>1. CASE UNCHANGED sysVars
  BY <1>1, Zenon DEF sysVars, listenVars, certVars, clientVars, SysTyped, Mid
<1>2. CASE UNCHANGED <<listenVars, sub, cert, dkey, files, storedCert, clientVars>> /\ GenerateReport
  BY <1>2, ReportTyped, Zenon DEF listenVars, certVars, clientVars, SysTyped, Mid
<1>3. ASSUME NEW t \in Threads, StoreCertificate(t) PROVE SysTyped'
  BY <1>3, Zenon DEF StoreCertificate, listenVars, certVars, clientVars, SysTyped, Mid
<1>4. ASSUME NEW t \in Threads, Acknowledge(t) PROVE SysTyped'
  <2>1. t # Main => conn[t] \in AllCerts
    BY Zenon DEF SysTyped, Threads
  <2> QED
    BY <1>4, <2>1, Zenon DEF Acknowledge, listenVars, certVars, clientVars, SysTyped, Mid
<1>5. ASSUME NEW t \in Handlers, Request(t) PROVE SysTyped'
  BY <1>5, Zenon DEF Request, Handshake, listenVars, certVars, clientVars, SysTyped, Mid
<1> QED
  BY <1>1, <1>2, <1>3, <1>4, <1>5, Zenon DEF LoadKey, CoreMove, CoreStep, NotInitializedYet

\* The steps of Start keep the types.
LEMMA StartTyped ==
  ASSUME BaseInv, SysTyped, NEW t \in Threads, StartStep(t)
  PROVE  SysTyped'
<1>1. /\ addr' \in BOOLEAN /\ ready' \in BOOLEAN /\ session' \in BOOLEAN
      /\ server' \in ServerLabels /\ pending' \in {"none", "sql", "signal"}
  <2>1. /\ addr' \in {addr, TRUE, FALSE} /\ ready' = ready /\ session' \in {session, FALSE}
        /\ server' \in {server, "open"} /\ pending' \in {pending, "sql", "signal"}
    BY Zenon DEF StartStep, StartMain, ConnectSql, ReadConfig, DebugRefused, NoConfig, SetCert, SetKey, WriteCertificates,
     WriteCertificatesFails, ClearAddr, Dial, DialRefused, Started, MainStarts, Connect, sysVars, listenVars
  <2> QED
    BY <2>1, Zenon DEF SysTyped, ServerLabels
<1>2. Mid' \/ sub' \in {"none", "done", "failed"}
  BY Zenon DEF StartStep, StartMain, ConnectSql, ReadConfig, DebugRefused, NoConfig, SetCert, SetKey, WriteCertificates,
     WriteCertificatesFails, ClearAddr, Dial, DialRefused, Started, SysTyped, Mid, sysVars
<1>3. /\ cert' \in {cert, storedCert} /\ dkey' \in {dkey, storedCert} /\ storedCert' = storedCert
      /\ report' = report \/ GenerateReport
      /\ files' = files \/ (sub = "files" /\ files' = files + 1)
      /\ UNCHANGED <<conn, ackedCerts, ans>>
  BY Zenon DEF StartStep, StartMain, ConnectSql, ReadConfig, DebugRefused, NoConfig, SetCert, SetKey, WriteCertificates,
     WriteCertificatesFails, ClearAddr, Dial, DialRefused, Started, InStart, sysVars, certVars, clientVars
<1>4. files' \in 0..3
  <2>1. sub = "files" => files \in 0..2
    BY Zenon DEF BaseInv, HandshakeInv
  <2> QED
    BY <1>3, <2>1 DEF SysTyped
<1>5. report' \in AllCerts
  BY <1>3, ReportTyped, Zenon DEF SysTyped
<1> QED
  BY <1>1, <1>2, <1>3, <1>4, <1>5, Zenon DEF SysTyped

\* The steps of the server keep the types.
LEMMA ServerTyped ==
  ASSUME SysTyped, ServerStep
  PROVE  SysTyped'
<1>1. CASE UNCHANGED sysVars
  BY <1>1, Zenon DEF sysVars, listenVars, certVars, clientVars, SysTyped, Mid
<1>2. CASE UNCHANGED <<sub, certVars, storedCert, clientVars>> /\ (ServerOpens \/ ListenStep)
  <2>1. /\ addr' \in BOOLEAN /\ ready' \in BOOLEAN /\ session' \in BOOLEAN
        /\ server' \in ServerLabels /\ pending' \in {"none", "sql", "signal"}
    BY <1>2, Zenon DEF ServerOpens, ListenStep, Listen, SetReady, Accept, CheckAddr, CloseSocket, FinishStartup,
       SysTyped, ServerLabels
  <2> QED
    BY <1>2, <2>1, Zenon DEF SysTyped, certVars, clientVars, Mid
<1> QED
  BY <1>1, <1>2, Zenon DEF ServerStep, ServerRuns, ServerOpens, ServerExits, ServerAborts, MainReturns, listenVars

\* What a reader gets is an answer.
LEMMA ReaderTyped ==
  ASSUME BaseInv, SysTyped, NEW r \in Readers, ReaderStep(r)
  PROVE  SysTyped'
<1>1. \A c \in AllCerts : [kind |-> "cert", cert |-> c] \in Answers
  BY DEF Answers
<1>2. \A c, q \in AllCerts : [kind |-> "quote", cert |-> c, report |-> q] \in Answers
  BY DEF Answers
<1>3. \A m \in Manifests \cup {NoManifest} : [kind |-> "signature", sig |-> m] \in Answers
  BY DEF Answers
<1>4. ans[r] # NoAnswer /\ ans[r].kind = "cert" => ans[r].cert \in AllCerts
  <2>1. ans[r] \in Answers
    BY Zenon DEF SysTyped
  <2> QED
    BY <2>1 DEF Answers
<1>5. CertReads \subseteq AllCerts /\ ReportReads \subseteq AllCerts
  BY ReportTyped, Zenon DEF CertReads, ReportReads, SysTyped, AllCerts
<1>6. manifestSig \in Manifests \cup {NoManifest} /\ NoAnswer \in Answers
  BY Zenon DEF BaseInv, CoreInv, Typed, TypeOK, Answers
<1>7. \E a \in Answers : Answer(r, a)
  BY <1>1, <1>2, <1>3, <1>4, <1>5, <1>6, Zenon DEF ReaderStep, QuoteCert, QuoteReport, Signature, Answered
<1> QED
  BY <1>7, Zenon DEF Answer, SysTyped, listenVars, certVars, Mid

\* The types are kept by every step.
LEMMA SysTypedStep == BaseInv /\ SysTyped /\ [SysNext]_allVars => SysTyped'
<1> SUFFICES ASSUME BaseInv, SysTyped, [SysNext]_allVars PROVE SysTyped'
  BY Zenon
<1>1. CASE UNCHANGED sysVars
  BY <1>1, Zenon DEF sysVars, listenVars, certVars, clientVars, SysTyped, Mid
<1> QED
  BY <1>1, ResetTyped, CoreTyped, StartTyped, ServerTyped, ReaderTyped, ZenonT(60) DEF SysNext, CoreMove, allVars, Threads

\* Every variable of the system has its type, and a Start that is under way has a thread in StartDatabase.
THEOREM SysTypeCorrect == SysSpec => []SysTypeOK
<1>1. SysSpec => [](BaseInv /\ SysTyped)
  <2>1. SysInit => BaseInv /\ SysTyped
    BY StartInit, SysTypedInit, Zenon DEF BaseInv
  <2>2. BaseInv /\ SysTyped /\ [SysNext]_allVars => (BaseInv /\ SysTyped)'
    BY StartStepKeeps, SysTypedStep, Zenon DEF BaseInv
  <2> QED
    BY <2>1, <2>2, PTL DEF SysSpec
<1>2. BaseInv /\ SysTyped => SysTypeOK
  BY Zenon DEF BaseInv, StartInv, SysTyped, SysTypeOK
<1> QED
  BY <1>1, <1>2, PTL

(***************************************************************************)
(*                   The certificate of an accepted manifest               *)
(***************************************************************************)

\* Until the manifest is stored, connections have the certificate of the process; then it is the stored one.
CertInv ==
  /\ ~Configured => \A t \in Handlers : pc[t] # "idle" => conn[t] = cert
  /\ \A t \in Handlers : pc[t] = "reply" => conn[t] = storedCert
  /\ \A c \in ackedCerts : c = storedCert /\ Configured

\* Steps that store, acknowledge and accept nothing.
LEMMA CertFrame ==
  ASSUME CertInv, UNCHANGED <<conn, storedCert, ackedCerts>>, Configured => Configured', cert' = cert \/ Configured,
         \A u \in Handlers : pc'[u] = pc[u] \/ pc'[u] = "idle" \/ (pc[u] # "idle" /\ pc'[u] # "reply")
  PROVE  CertInv'
  BY Zenon DEF CertInv

\* A step of the core moves no other handler, and its own only to an answer that is stored.
LEMMA CertMoves ==
  ASSUME BaseInv, SysTyped, CertInv, NEW t \in Threads, CoreMove(t)
  PROVE  CertInv'
<1>1. /\ Works(t) /\ (PostRecover(t) \/ ThreadEffect(t))
      /\ UNCHANGED <<cert, dkey>>
  BY MovesWork, Zenon DEF BaseInv
<1>2. \A u \in Handlers : u # t => pc'[u] = pc[u]
  BY <1>1, ThreadsAssumption, Zenon DEF Works, Threads
<1>3. Configured => Configured'
  BY <1>1, Zenon DEF Works, Configured
<1>4. CASE CoreStep(t) \/ NotInitializedYet(t)
  <2>1. UNCHANGED <<conn, storedCert, ackedCerts>>
    BY <1>4, Zenon DEF CoreStep, NotInitializedYet, sysVars, clientVars
  <2>2. pc[t] # "idle"
    BY <1>4, Zenon DEF CoreStep, NotInitializedYet, RecoverLock, SetMasterKey, OpenBackup, WriteBackup, TruncateSealed,
       WriteSealed, StoreFails, InitializeLock, Initialize, InitializeFails, BootOpen, BootFatal, BootError, StartFatal,
       StartFails, StartUninitialized
  <2>3. pc'[t] # "reply" \/ pc'[t] = pc[t]
    <3>1. CASE Return(t)
      BY <3>1, Zenon DEF Return, BaseInv, CoreInv, Typed, TypeOK
    <3>2. CASE Terminate
      BY <3>2, Zenon DEF Terminate, BaseInv, CoreInv, Typed, TypeOK
    <3>3. CASE \E label \in Labels \ {"reply"} : Goto(t, label)
      BY <3>3, GotoMoves, Zenon DEF BaseInv, CoreInv, Typed
    <3> QED
      BY <1>4, <3>1, <3>2, <3>3, Zenon DEF CoreStep, NotInitializedYet, RecoverLock, SetMasterKey, OpenBackup, WriteBackup,
         TruncateSealed, WriteSealed, StoreFails, InitializeLock, Initialize, InitializeFails, BootOpen, BootFatal,
         BootError, StartFatal, StartFails, StartUninitialized, EncryptRecoveryKey, Fail, Labels
  <2> QED
    BY <2>1, <2>2, <2>3, <1>1, <1>2, <1>3, CertFrame, Zenon
<1>5. CASE StoreCertificate(t)
  <2>1. /\ pc[t] \in {"bootSql", "bootAgain"} /\ ~Configured
        /\ storedCert' = cert /\ UNCHANGED <<conn, ackedCerts>>
    BY <1>5, Zenon DEF StoreCertificate, BootDone, BootPanics, Configured, clientVars
  <2>2. \A u \in Handlers : pc[u] # "reply"
    BY <2>1, ManifestsAssumption, Zenon DEF BaseInv, CoreInv, CallInv, Configured, Threads
  <2>3. ackedCerts = {} /\ \A u \in Handlers : pc[u] # "idle" => conn[u] = cert
    BY <2>1, Zenon DEF CertInv
  <2> QED
    BY <1>1, <1>2, <2>1, <2>2, <2>3, Zenon DEF CertInv
<1>6. CASE Acknowledge(t)
  <2>1. /\ pc[t] = "reply" /\ UNCHANGED <<conn, storedCert>>
        /\ ackedCerts' = IF t = Main THEN ackedCerts ELSE ackedCerts \cup {conn[t]}
        /\ pc'[t] \in {"serve", "idle"} /\ (t \in Handlers => pc'[t] = "idle")
    BY <1>6, ThreadsAssumption, Zenon DEF Acknowledge, ReplyManifest, Return, BaseInv, CoreInv, Typed, TypeOK
  <2>2. Configured
    BY <2>1, ManifestsAssumption, Zenon DEF BaseInv, CoreInv, CallInv, Configured
  <2>3. t # Main => conn[t] = storedCert
    BY <2>1, Zenon DEF CertInv, Threads
  <2> QED
    BY <1>1, <1>2, <1>3, <2>1, <2>2, <2>3, Zenon DEF CertInv
<1>7. CASE t \in Handlers /\ Request(t)
  <2>1. UNCHANGED <<storedCert, ackedCerts>> /\ conn' = [conn EXCEPT ![t] = cert]
    BY <1>7, Zenon DEF Request, Handshake
  <2>2. \A u \in Handlers : conn'[u] = IF u = t THEN cert ELSE conn[u]
    BY <2>1, Zenon DEF SysTyped
  <2>3. pc'[t] # "reply"
    <3>1. CASE Return(t)
      BY <3>1, Zenon DEF Return, BaseInv, CoreInv, Typed, TypeOK
    <3>2. CASE \E label \in {"recLock", "initLock"} : Goto(t, label)
      BY <3>2, GotoMoves, Zenon DEF BaseInv, CoreInv, Typed
    <3> QED
      BY <1>7, <3>1, <3>2, Zenon DEF Request, PostRecover, PostManifest, EncryptRecoveryKey, Fail
  <2> QED
    BY <1>1, <1>2, <1>3, <2>1, <2>2, <2>3, Zenon DEF CertInv
<1> QED
  BY <1>4, <1>5, <1>6, <1>7, Zenon DEF CoreMove

\* No step breaks the link between a client's certificate and the stored one.
LEMMA CertStep == BaseInv /\ SysTyped /\ CertInv /\ [SysNext]_allVars => CertInv'
<1> SUFFICES ASSUME BaseInv, SysTyped, CertInv, [SysNext]_allVars PROVE CertInv'
  BY Zenon
<1>1. CASE NewMariadb \/ ProcessEnds
  <2>1. UNCHANGED <<rocks, storedCert, ackedCerts>> /\ \E label, k : Reset(label, k)
    BY <1>1, Zenon DEF NewMariadb, ProcessEnds, ProcessReset, Launch, Restart, Exit, Crash
  <2>2. \A u \in Handlers : pc'[u] = "idle"
    BY <2>1, ThreadsAssumption, Zenon DEF Reset, Threads
  <2> QED
    BY <2>1, <2>2, Zenon DEF CertInv, Configured
<1>2. CASE LoadKey
  <2>1. /\ UNCHANGED <<rocks, conn, storedCert, ackedCerts, cert>>
        /\ \E label : pc' = [pc EXCEPT ![Main] = label]
    BY <1>2, Zenon DEF LoadKey, KeyLoaded, NewMasterKey, LoadPanics, EnterRecovery, Goto, Terminate, sysVars, clientVars,
       certVars
  <2>2. \A u \in Handlers : pc'[u] = pc[u]
    BY <2>1, ThreadsAssumption, Zenon DEF BaseInv, CoreInv, Typed, TypeOK, Threads
  <2> QED
    BY <2>1, <2>2, CertFrame, Zenon DEF Configured
<1>3. ASSUME NEW t \in Threads, StartStep(t) PROVE CertInv'
  <2>1. UNCHANGED <<rocks, conn, storedCert, ackedCerts>> /\ (cert' = cert \/ SetCert(t))
    BY <1>3, Zenon DEF StartStep, StartMain, ConnectSql, ReadConfig, DebugRefused, NoConfig, SetCert, SetKey,
       WriteCertificates, WriteCertificatesFails, ClearAddr, Dial, DialRefused, Started, vars, sysVars, certVars, clientVars
  <2>2. SetCert(t) => Configured
    BY Zenon DEF SetCert, InStart, BaseInv, HandshakeInv, AfterConfig
  <2>3. pc' = pc \/ Return(t) \/ Terminate
    BY <1>3, StartMoves, Zenon DEF BaseInv
  <2>4. \A u \in Handlers : pc'[u] = pc[u] \/ pc'[u] = "idle"
    BY <2>3, ThreadsAssumption, Zenon DEF Return, Terminate, BaseInv, CoreInv, Typed, TypeOK, Threads
  <2> QED
    BY <2>1, <2>2, <2>4, CertFrame, Zenon DEF Configured
<1>4. CASE ServerStep
  <2>1. UNCHANGED <<rocks, conn, storedCert, ackedCerts, cert>> /\ (pc' = pc \/ Terminate)
    BY <1>4, Zenon DEF ServerStep, ServerRuns, ServerOpens, ServerExits, ServerAborts, MainReturns, ServerEnds, vars,
       sysVars, certVars, clientVars
  <2>2. \A u \in Handlers : pc'[u] = pc[u]
    BY <2>1, ThreadsAssumption, Zenon DEF Terminate, BaseInv, CoreInv, Typed, TypeOK, Threads
  <2> QED
    BY <2>1, <2>2, CertFrame, Zenon DEF Configured
<1>5. CASE UNCHANGED <<rocks, conn, storedCert, ackedCerts, cert, pc>>
  BY <1>5, CertFrame, Zenon DEF Configured
<1>6. ASSUME NEW r \in Readers, ReaderStep(r) PROVE CertInv'
  BY <1>6, <1>5, Zenon DEF ReaderStep, QuoteCert, QuoteReport, Signature, Answered, Answer, vars, certVars
<1>7. CASE (MoveHost \/ Reconfigure \/ Second) /\ UNCHANGED sysVars
  BY <1>7, <1>5, Zenon DEF MoveHost, Reconfigure, Second, sysVars, certVars, clientVars
<1>8. CASE UNCHANGED allVars
  BY <1>8, <1>5, Zenon DEF allVars, vars, sysVars, certVars, clientVars
<1> QED
  BY <1>1, <1>2, <1>3, <1>4, <1>6, <1>7, <1>8, CertMoves, ZenonT(60) DEF SysNext, CoreMove, Threads

(***************************************************************************)
(* The root certificate under which a client got its manifest acknowledged *)
(* stays the one of the database, and every server that runs serves it:    *)
(* Start puts it back before it lets the server set up TLS.                *)
(***************************************************************************)
THEOREM AckedCertificateKept == SysSpec => []AckedCertificateIsServed
<1>1. SysInit => BaseInv /\ SysTyped /\ CertInv
  <2>1. SysInit => CertInv
    BY ThreadsAssumption, Zenon DEF SysInit, Init, CertInv, Threads
  <2> QED
    BY <2>1, StartInit, SysTypedInit, Zenon DEF BaseInv
<1>2. BaseInv /\ SysTyped /\ CertInv /\ [SysNext]_allVars => (BaseInv /\ SysTyped /\ CertInv)'
  BY StartStepKeeps, SysTypedStep, CertStep, Zenon DEF BaseInv
<1>3. BaseInv /\ CertInv => AckedCertificateIsServed
  BY Zenon DEF BaseInv, HandshakeInv, Installed, CertInv, AckedCertificateIsServed
<1> QED
  BY <1>1, <1>2, <1>3, PTL DEF SysSpec

(***************************************************************************)
(*                         The report and its readers                      *)
(***************************************************************************)

\* Until Start replaces the certificate and after it has returned, the report is for the current one.
ReportInv ==
  sub \in {"none", "wait", "query", "cert", "done"} => report \in {Certified, NoCert}

\* No step but Start replaces what the report is for.
LEMMA ReportStep == BaseInv /\ ReportInv /\ [SysNext]_allVars => ReportInv'
<1> SUFFICES ASSUME BaseInv, ReportInv, [SysNext]_allVars PROVE ReportInv'
  BY Zenon
<1>1. CASE NewMariadb \/ ProcessEnds
  BY <1>1, Zenon DEF NewMariadb, ProcessEnds, ProcessReset, ReportInv
<1>2. CASE Certified' = Certified /\ ((sub' = sub /\ report' = report) \/ GenerateReport)
  BY <1>2, Zenon DEF ReportInv, GenerateReport
<1>3. cert' = cert /\ cfg'.isMarble = cfg.isMarble => Certified' = Certified
  BY Zenon DEF Certified
<1>4. CASE LoadKey
  <2>1. UNCHANGED <<cfg, cert, sub>> /\ (report' = report \/ GenerateReport)
    BY <1>4, Zenon DEF LoadKey, KeyLoaded, NewMasterKey, LoadPanics, EnterRecovery, hostVars, sysVars, certVars
  <2> QED
    BY <2>1, <1>2, <1>3, Zenon
<1>5. ASSUME NEW t \in Threads, CoreMove(t) PROVE ReportInv'
  <2>1. UNCHANGED <<cfg, cert, sub>>
    BY <1>5, MovesWork, Zenon DEF Works, BaseInv
  <2>2. report' = report \/ GenerateReport
    BY <1>5, Zenon DEF CoreMove, CoreStep, NotInitializedYet, StoreCertificate, Acknowledge, Request, sysVars, certVars
  <2> QED
    BY <2>1, <2>2, <1>2, <1>3, Zenon
<1>6. ASSUME NEW t \in Threads, StartStep(t) PROVE ReportInv'
  <2>1. cfg' = cfg
    BY <1>6, StartFrame, Zenon
  <2>2. CASE Started(t)
    BY <2>1, <2>2, <1>2, <1>3, Zenon DEF Started
  <2>3. CASE ~Started(t)
    <3>1. \/ sub' \notin {"none", "wait", "query", "cert", "done"}
          \/ sub \in {"none", "wait", "query"} /\ UNCHANGED <<cert, report>>
      BY <1>6, <2>3, Zenon DEF StartStep, StartMain, ConnectSql, ReadConfig, DebugRefused, NoConfig, SetCert, SetKey,
         WriteCertificates, WriteCertificatesFails, ClearAddr, Dial, DialRefused, InStart, sysVars, certVars
    <3> QED
      BY <2>1, <3>1, <1>3, Zenon DEF ReportInv
  <2> QED
    BY <2>2, <2>3, Zenon
<1>7. CASE ServerStep
  <2>1. UNCHANGED <<cfg, cert, sub, report>>
    BY <1>7, Zenon DEF ServerStep, ServerRuns, ServerOpens, ServerExits, ServerAborts, MainReturns, ServerEnds, vars,
       hostVars, sysVars, certVars
  <2> QED
    BY <2>1, <1>2, <1>3, Zenon
<1>8. ASSUME NEW r \in Readers, ReaderStep(r) PROVE ReportInv'
  <2>1. UNCHANGED <<cfg, cert, sub, report>>
    BY <1>8, Zenon DEF ReaderStep, QuoteCert, QuoteReport, Signature, Answered, Answer, vars, certVars
  <2> QED
    BY <2>1, <1>2, <1>3, Zenon
<1>9. CASE (MoveHost \/ Reconfigure \/ Second) /\ UNCHANGED sysVars
  <2>1. UNCHANGED <<cert, sub, report>> /\ cfg'.isMarble = cfg.isMarble
    BY <1>9, Zenon DEF MoveHost, Reconfigure, Second, hostVars, sysVars, certVars
  <2> QED
    BY <2>1, <1>2, <1>3, Zenon
<1>10. CASE UNCHANGED allVars
  <2>1. UNCHANGED <<cfg, cert, sub, report>>
    BY <1>10, Zenon DEF allVars, vars, sysVars, certVars
  <2> QED
    BY <2>1, <1>2, <1>3, Zenon
<1> QED
  BY <1>1, <1>4, <1>5, <1>6, <1>7, <1>8, <1>9, <1>10, ZenonT(60) DEF SysNext, CoreMove, Threads

\* Nobody reads before the process serves.  Outside recovery mode a reader has the current certificate, and its report.
QuoteInv ==
  /\ pc[Main] \in LaunchLabels \cup {"down"} => \A r \in Readers : ans[r] = NoAnswer
  /\ \A r \in Readers :
       state # "Recovery" /\ ans[r] # NoAnswer /\ ans[r].kind = "cert" => ans[r].cert = Certified
  /\ QuoteMatchesOutsideRecovery

\* A reader without an answer has nothing that could be wrong.
LEMMA NoAnswers ==
  ASSUME \A r \in Readers : ans'[r] = NoAnswer
  PROVE  QuoteInv' /\ SignatureMeansStarted'
  BY Zenon DEF QuoteInv, QuoteMatchesOutsideRecovery, SignatureMeansStarted

\* A process has no readers while it begins, is down or reads its key.
LEMMA NoReaders ==
  ASSUME BaseInv, QuoteInv, [SysNext]_allVars,
         NewMariadb \/ ProcessEnds \/ LoadKey \/ ((MoveHost \/ Reconfigure) /\ UNCHANGED sysVars)
  PROVE  QuoteInv' /\ SignatureMeansStarted'
<1>1. CASE NewMariadb \/ ProcessEnds
  <2>1. ans' = [r \in Readers |-> NoAnswer]
    BY <1>1, Zenon DEF NewMariadb, ProcessEnds, ProcessReset
  <2> QED
    BY <2>1, NoAnswers, Zenon
<1>2. CASE LoadKey
  <2>1. pc[Main] = "load" /\ ans' = ans
    BY <1>2, Zenon DEF LoadKey, KeyLoaded, NewMasterKey, LoadPanics, EnterRecovery, sysVars, clientVars
  <2> QED
    BY <2>1, NoAnswers, Zenon DEF QuoteInv, LaunchLabels
<1>3. CASE (MoveHost \/ Reconfigure) /\ UNCHANGED sysVars
  <2>1. pc[Main] = "down" /\ ans' = ans
    BY <1>3, Zenon DEF MoveHost, Reconfigure, sysVars, clientVars
  <2> QED
    BY <2>1, NoAnswers, Zenon DEF QuoteInv
<1> QED
  BY <1>1, <1>2, <1>3, Zenon

\* What the server's thread does to its own variables, and to the process.
LEMMA ServerMoves ==
  ASSUME BaseInv, ServerStep
  PROVE  /\ UNCHANGED <<cfg, rocks, state, sub, cert, ans>>
         /\ server = "running" => server' = "running"
         /\ pc'[Main] = pc[Main] \/ pc'[Main] = "exiting"
<1>1. UNCHANGED <<cfg, rocks, state, sub, cert, ans>> /\ (pc' = pc \/ Terminate)
  BY Zenon DEF ServerStep, ServerRuns, ServerOpens, ServerExits, ServerAborts, MainReturns, ServerEnds, vars, hostVars,
     procVars, sysVars, certVars, clientVars
<1>2. server = "running" => server' = "running"
  BY Zenon DEF ServerStep, ServerRuns, ServerOpens, ServerExits, ServerAborts, MainReturns, ListenStep, Listen, SetReady,
     Accept, CheckAddr, CloseSocket, FinishStartup, sysVars, listenVars
<1>3. pc'[Main] = pc[Main] \/ pc'[Main] = "exiting"
  BY <1>1, Zenon DEF Terminate, BaseInv, CoreInv, Typed, TypeOK, Threads
<1> QED
  BY <1>1, <1>2, <1>3, Zenon

\* While nothing is read, an answer stays right as long as the state and the certificate do.
LEMMA QuoteFrame ==
  ASSUME QuoteInv, UNCHANGED <<ans, state>>, state = "Recovery" \/ Certified' = Certified,
         pc'[Main] = pc[Main] \/ pc'[Main] \in {"serve", "exiting"}
  PROVE  QuoteInv'
  BY Zenon DEF QuoteInv, QuoteMatchesOutsideRecovery, LaunchLabels, InitLabels

\* A step of a handler, or of the main goroutine, which has no readers yet.
LEMMA QuoteMoves ==
  ASSUME BaseInv, QuoteInv, NEW t \in Threads, CoreMove(t) \/ StartStep(t)
  PROVE  QuoteInv'
<1>1. ans' = ans
  BY Zenon DEF CoreMove, CoreStep, NotInitializedYet, StoreCertificate, Acknowledge, Request, StartStep, StartMain,
     ConnectSql, ReadConfig, DebugRefused, NoConfig, SetCert, SetKey, WriteCertificates, WriteCertificatesFails, ClearAddr,
     Dial, DialRefused, Started, sysVars, clientVars
<1>2. CASE CoreMove(t)
  <2>1. /\ Works(t) /\ cert' = cert
        /\ Alive(t) /\ pc[t] \notin {"down", "serve", "exiting"}
    <3>1. Works(t) /\ cert' = cert /\ (PostRecover(t) \/ ThreadEffect(t))
      BY <1>2, MovesWork, Zenon DEF BaseInv
    <3> QED
      BY <3>1, Zenon DEF ThreadEffect, Ends, PostRecover, RecoverLocks, KeySet, OpenBackup, WriteBackup, TruncateSealed,
         WriteSealed, Encrypts, InitializeLock, Accepts, BootOpen, BootDone, BootPanics, ReplyManifest, Alive
  <2>2. CASE t = Main
    <3>1. pc[Main] \in LaunchLabels
      BY <2>1, <2>2, Zenon DEF BaseInv, CoreInv, Control
    <3> QED
      BY <1>1, <3>1, NoAnswers, Zenon DEF QuoteInv
  <2>3. CASE t # Main
    <3>1. state' = state /\ Certified' = Certified /\ (pc'[Main] = pc[Main] \/ pc'[Main] = "exiting")
      BY <2>1, <2>3, Zenon DEF Works, Certified, Threads
    <3> QED
      BY <1>1, <3>1, QuoteFrame, Zenon
  <2> QED
    BY <2>2, <2>3, Zenon
<1>3. CASE StartStep(t)
  <2>1. /\ state' = state /\ pc[t] = "start"
        /\ t = Main \/ (Serving /\ state = "Recovery")
        /\ pc' = pc \/ Return(t) \/ Terminate
    BY <1>3, StartMoves, StartFrame, Zenon DEF BaseInv
  <2>2. CASE t = Main
    BY <2>1, <2>2, <1>1, NoAnswers, Zenon DEF QuoteInv, LaunchLabels
  <2>3. CASE t # Main
    <3>1. pc'[Main] = pc[Main] \/ pc'[Main] \in {"serve", "exiting"}
      BY <2>1, <2>3, Zenon DEF Return, Terminate, BaseInv, CoreInv, Typed, TypeOK, Threads
    <3> QED
      BY <1>1, <2>1, <2>3, <3>1, QuoteFrame, Zenon
  <2> QED
    BY <2>2, <2>3, Zenon
<1> QED
  BY <1>2, <1>3, Zenon

\* With the mutex free, a process that serves has no Start under way: a signature it returns is the one of the database.
LEMMA SignatureRead ==
  ASSUME BaseInv, SysTyped, Serving, mutex = NoThread, manifestSig # NoManifest
  PROVE  manifestSig = rocks.config /\ (server = "running" \/ sub = "failed")
<1>1. ~Mid
  <2> SUFFICES ASSUME Mid PROVE FALSE
    BY Zenon
  <2>1. PICK t \in Threads : pc[t] = "start" /\ (t # Main => mutex = t)
    BY MidAlone, Zenon DEF BaseInv, Up, Serving
  <2> QED
    BY <2>1, ThreadsAssumption, Zenon DEF Serving, Threads
<1>2. sub \in {"done", "failed"}
  BY <1>1, Zenon DEF SysTyped, BaseInv, StartInv
<1> QED
  BY <1>2, Zenon DEF BaseInv, StartInv, AfterConfig

\* What readers get is right when they get it.
LEMMA ReaderGets ==
  ASSUME BaseInv, SysTyped, ReportInv, QuoteInv, SignatureMeansStarted, NEW r \in Readers, ReaderStep(r)
  PROVE  QuoteInv' /\ SignatureMeansStarted'
<1>1. PICK a :
        /\ Answer(r, a)
        /\ \/ a.kind = "cert" /\ a.cert \in CertReads
           \/ /\ a.kind = "quote" /\ a.report \in ReportReads
              /\ ans[r] # NoAnswer /\ ans[r].kind = "cert" /\ a.cert = ans[r].cert
           \/ a.kind = "signature" /\ a.sig = manifestSig /\ mutex = NoThread
           \/ a = NoAnswer
  <2>1. CASE QuoteCert(r)
    <3>1. PICK c \in CertReads : Answer(r, [kind |-> "cert", cert |-> c])
      BY <2>1, Zenon DEF QuoteCert
    <3> QED
      BY <3>1
  <2>2. CASE QuoteReport(r)
    <3>1. PICK q \in ReportReads : Answer(r, [kind |-> "quote", cert |-> ans[r].cert, report |-> q])
      BY <2>2, Zenon DEF QuoteReport
    <3> QED
      BY <2>2, <3>1 DEF QuoteReport
  <2>3. CASE Signature(r)
    BY <2>3 DEF Signature
  <2>4. CASE Answered(r)
    BY <2>4, Zenon DEF Answered
  <2> QED
    BY <2>1, <2>2, <2>3, <2>4, Zenon DEF ReaderStep
<1>2. Serving /\ UNCHANGED <<cfg, rocks, state, pc, server, sub, cert>>
  BY <1>1, Zenon DEF Answer, vars, listenVars, certVars
<1>3. \A u \in Readers : ans'[u] = IF u = r THEN a ELSE ans[u]
  BY <1>1, Zenon DEF Answer, SysTyped
<1>4. state # "Recovery" => CertReads = {Certified} /\ ReportReads \subseteq {Certified, NoCert}
  <2> SUFFICES ASSUME state # "Recovery" PROVE CertReads = {Certified} /\ ReportReads \subseteq {Certified, NoCert}
    BY Zenon
  <2>1. sub \in {"none", "done"}
    BY <1>2, Zenon DEF BaseInv, StartInv
  <2> QED
    BY <2>1, Zenon DEF CertReads, ReportReads, ReportInv
<1>5. Certified' = Certified
  BY <1>2, Zenon DEF Certified
<1>6. QuoteInv'
  <2>1. pc'[Main] \notin LaunchLabels \cup {"down"}
    BY <1>2, Zenon DEF Serving, LaunchLabels, InitLabels
  <2>2. \A u \in Readers :
          state # "Recovery" /\ ans'[u] # NoAnswer /\ ans'[u].kind = "cert" => ans'[u].cert = Certified
    <3>1. state # "Recovery" /\ a # NoAnswer /\ a.kind = "cert" => a.cert = Certified
      BY <1>1, <1>4
    <3> TAKE u \in Readers
    <3>2. ans'[u] = a \/ ans'[u] = ans[u]
      BY <1>3, Zenon
    <3> QED
      BY <3>1, <3>2, Zenon DEF QuoteInv
  <2>3. \A u \in Readers :
          state # "Recovery" /\ ans'[u] # NoAnswer /\ ans'[u].kind = "quote"
            => ans'[u].report \in {ans'[u].cert, NoCert}
    <3>1. state # "Recovery" /\ ans[r] # NoAnswer /\ ans[r].kind = "cert" => ans[r].cert = Certified
      BY Zenon DEF QuoteInv
    <3>2. state # "Recovery" /\ a # NoAnswer /\ a.kind = "quote" => a.report \in {a.cert, NoCert}
      BY <1>1, <1>4, <3>1
    <3> TAKE u \in Readers
    <3>3. ans'[u] = a \/ ans'[u] = ans[u]
      BY <1>3, Zenon
    <3> QED
      BY <3>2, <3>3, Zenon DEF QuoteInv, QuoteMatchesOutsideRecovery
  <2> QED
    BY <1>2, <1>5, <2>1, <2>2, <2>3, Zenon DEF QuoteInv, QuoteMatchesOutsideRecovery
<1>7. SignatureMeansStarted'
  BY <1>1, <1>2, <1>3, SignatureRead, Zenon DEF SignatureMeansStarted
<1> QED
  BY <1>6, <1>7, Zenon

\* Answers of /quote outside recovery mode stay right.
LEMMA QuoteStep ==
  BaseInv /\ SysTyped /\ ReportInv /\ QuoteInv /\ SignatureMeansStarted /\ [SysNext]_allVars => QuoteInv'
<1> SUFFICES ASSUME BaseInv, SysTyped, ReportInv, QuoteInv, SignatureMeansStarted, [SysNext]_allVars PROVE QuoteInv'
  BY Zenon
<1>1. CASE ServerStep
  <2>1. UNCHANGED <<cfg, state, cert, ans>> /\ (pc'[Main] = pc[Main] \/ pc'[Main] = "exiting")
    BY <1>1, ServerMoves, Zenon
  <2> QED
    BY <2>1, QuoteFrame, Zenon DEF Certified
<1>2. CASE UNCHANGED <<cfg, state, cert, ans, pc>>
  BY <1>2, QuoteFrame, Zenon DEF Certified
<1>3. CASE Second /\ UNCHANGED sysVars
  BY <1>3, <1>2, Zenon DEF Second, hostVars, procVars, sysVars, certVars, clientVars
<1>4. CASE UNCHANGED allVars
  BY <1>4, <1>2, Zenon DEF allVars, vars, sysVars, certVars, clientVars
<1> QED
  BY <1>1, <1>3, <1>4, NoReaders, QuoteMoves, ReaderGets, ZenonT(60) DEF SysNext, CoreMove, Threads

\* A signature a client has got stays the one of a database that has started.
LEMMA SignatureStep ==
  BaseInv /\ SysTyped /\ ReportInv /\ QuoteInv /\ SignatureMeansStarted /\ [SysNext]_allVars => SignatureMeansStarted'
<1> SUFFICES ASSUME BaseInv, SysTyped, ReportInv, QuoteInv, SignatureMeansStarted, [SysNext]_allVars
             PROVE  SignatureMeansStarted'
  BY Zenon
<1>1. CASE /\ ans' = ans /\ (rocks' = rocks \/ sub = "none")
           /\ server = "running" => server' = "running"
           /\ sub = "failed" => sub' = "failed"
  <2>1. sub = "none" => ~(server = "running" \/ sub = "failed")
    BY Zenon DEF BaseInv, StartInv
  <2> QED
    BY <1>1, <2>1, Zenon DEF SignatureMeansStarted
<1>2. ASSUME NEW t \in Threads, CoreMove(t) PROVE SignatureMeansStarted'
  <2>1. /\ rocks' = rocks \/ sub = "none"
        /\ UNCHANGED <<server, sub>>
    BY <1>2, MovesWork, Zenon DEF Works, BaseInv
  <2>2. ans' = ans
    BY <1>2, Zenon DEF CoreMove, CoreStep, NotInitializedYet, StoreCertificate, Acknowledge, Request, sysVars, clientVars
  <2> QED
    BY <2>1, <2>2, <1>1, Zenon
<1>3. ASSUME NEW t \in Threads, StartStep(t) PROVE SignatureMeansStarted'
  <2>1. rocks' = rocks
    BY <1>3, StartFrame, Zenon
  <2>2. ans' = ans /\ sub # "failed" /\ (server' = server \/ sub = "none")
    BY <1>3, Zenon DEF StartStep, StartMain, ConnectSql, ReadConfig, DebugRefused, NoConfig, SetCert, SetKey,
       WriteCertificates, WriteCertificatesFails, ClearAddr, Dial, DialRefused, Started, Connect, InStart, sysVars,
       listenVars, clientVars
  <2>3. sub = "none" => server # "running"
    BY Zenon DEF BaseInv, StartInv
  <2> QED
    BY <2>1, <2>2, <2>3, <1>1, Zenon
<1>4. CASE ServerStep
  BY <1>1, <1>4, ServerMoves, Zenon
<1>5. CASE Second /\ UNCHANGED sysVars
  BY <1>1, <1>5, Zenon DEF Second, sysVars, listenVars, clientVars
<1>6. CASE UNCHANGED allVars
  BY <1>1, <1>6, Zenon DEF allVars, vars, sysVars, listenVars, clientVars
<1> QED
  BY <1>2, <1>3, <1>4, <1>5, <1>6, NoReaders, ReaderGets, ZenonT(60) DEF SysNext, CoreMove, Threads

\* What holds about the report and its readers, together.
LEMMA ReadersInvariant == SysSpec => [](BaseInv /\ SysTyped /\ ReportInv /\ QuoteInv /\ SignatureMeansStarted)
<1>1. SysInit => BaseInv /\ SysTyped /\ ReportInv /\ QuoteInv /\ SignatureMeansStarted
  <2>1. SysInit => ReportInv /\ QuoteInv /\ SignatureMeansStarted
    BY Zenon DEF SysInit, ReportInv, QuoteInv, QuoteMatchesOutsideRecovery, SignatureMeansStarted
  <2> QED
    BY <2>1, StartInit, SysTypedInit, Zenon DEF BaseInv
<1>2. BaseInv /\ SysTyped /\ ReportInv /\ QuoteInv /\ SignatureMeansStarted /\ [SysNext]_allVars
        => (BaseInv /\ SysTyped /\ ReportInv /\ QuoteInv /\ SignatureMeansStarted)'
  BY StartStepKeeps, SysTypedStep, ReportStep, QuoteStep, SignatureStep, Zenon DEF BaseInv
<1> QED
  BY <1>1, <1>2, PTL DEF SysSpec

\* When no Start is under way or has panicked, GetCertificateReport has the report for the current certificate.
THEOREM ReportCurrent == SysSpec => []ReportIsCurrent
<1>1. SysTyped /\ ReportInv => ReportIsCurrent
  BY Zenon DEF SysTyped, ReportInv, ReportIsCurrent
<1> QED
  BY <1>1, ReadersInvariant, PTL

\* Outside recovery mode /quote never pairs a certificate with the report of another, although it reads them one after the other and without the mutex.
THEOREM QuoteMatches == SysSpec => []QuoteMatchesOutsideRecovery
<1>1. QuoteInv => QuoteMatchesOutsideRecovery
  BY Zenon DEF QuoteInv
<1> QED
  BY <1>1, ReadersInvariant, PTL

\* A signature that GetManifestSignature has returned is the one of a database that runs, unless Start has panicked.
THEOREM SignatureStarted == SysSpec => []SignatureMeansStarted
  BY ReadersInvariant, PTL
=============================================================================
