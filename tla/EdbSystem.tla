----------------------------- MODULE EdbSystem -----------------------------
(***************************************************************************)
(* EdbCore with the start of the database in detail: Mariadb.Start against *)
(* the server's thread (InternalListen), the certificates it replaces, the *)
(* report GenerateReport makes of them, and the clients that read both     *)
(* without the mutex: TLS handshakes, /quote and /signature.               *)
(*                                                                         *)
(* At most one thread is in Start: the main goroutine before it serves, or *)
(* a Recover that holds the mutex.  sub is where it is.  The certificate   *)
(* and its private key have the same name; a pair of two names does not    *)
(* fit together.                                                           *)
(***************************************************************************)
EXTENDS EdbCore, InternalListen

CONSTANTS
  Readers,     \* goroutines net/http runs for /quote and /signature
  Certs,       \* certificates a process can generate
  RootCert,    \* the certificate MarbleRun passes to the process
  RootCA,      \* the CA of MarbleRun
  NoCert,      \* no certificate, no report
  TornCert,    \* bytes of a slice that was read while it was assigned
  NoAnswer     \* a reader that is not in a call

ASSUME CertAssumption ==
  /\ {RootCert, RootCA, NoCert, TornCert} \cap Certs = {}
  /\ RootCert # NoCert /\ RootCA # NoCert /\ TornCert # NoCert

VARIABLES
  sub,         \* the step of Mariadb.Start
  cert,        \* d.cert
  dkey,        \* d.key
  files,       \* how many of the files for ca, cert and key are written
  report,      \* c.report, represented by the certificate it vouches for
  storedCert,  \* the certificate and key in $edgeless.config
  conn,        \* the root certificate of the connection a handler serves
  ackedCerts,  \* the root certificates of the clients with an acknowledged manifest
  ans          \* what a reader has read so far

certVars == <<cert, dkey, files, report>>
clientVars == <<conn, ackedCerts, ans>>
sysVars == <<listenVars, sub, certVars, storedCert, clientVars>>
allVars == <<vars, sysVars>>

\* Start is under way.
Mid == sub \in {"wait", "query", "cert", "key", "files", "clear", "dial", "started"}

Up == pc[Main] \notin {"down", "exiting"}

\* The certificate /quote vouches for: the root certificate, under MarbleRun the CA.
Certified == IF cfg.isMarble THEN RootCA ELSE cert

\* Mutant: the report is for the root certificate under MarbleRun, too.
ReportOnRootCert == report' \in {cert, NoCert}

\* GetRemoteReport of its hash.  A failure is logged only.
GenerateReport == report' \in {Certified, NoCert}

SysInit ==
  /\ Init /\ ListenInit
  /\ sub = "none" /\ cert = NoCert /\ dkey = NoCert /\ files = 0 /\ report = NoCert
  /\ storedCert = NoCert
  /\ conn = [t \in Handlers |-> NoCert]
  /\ ackedCerts = {}
  /\ ans = [r \in Readers |-> NoAnswer]

(***************************************************************************)
(* The process.  NewMariadb generates a certificate, or takes MarbleRun's. *)
(***************************************************************************)
ProcessReset ==
  /\ ListenReset
  /\ sub' = "none" /\ files' = 0 /\ report' = NoCert
  /\ conn' = [t \in Handlers |-> NoCert]
  /\ ans' = [r \in Readers |-> NoAnswer]
  /\ UNCHANGED <<storedCert, ackedCerts>>

\* db/util.go createCertificate: a key pair nobody has seen before.
NewCerts == Certs \ (ackedCerts \cup {storedCert})

NewMariadb ==
  /\ Launch \/ Restart
  /\ \E c \in IF cfg.isMarble THEN {RootCert} ELSE NewCerts :
       cert' = c /\ dkey' = c
  /\ ProcessReset

ProcessEnds ==
  /\ Exit \/ Crash
  /\ cert' = NoCert /\ dkey' = NoCert
  /\ ProcessReset

\* run(): in recovery mode the report is for the temporary certificate.
LoadKey ==
  \/ /\ KeyLoaded \/ NewMasterKey \/ LoadPanics
     /\ UNCHANGED sysVars
  \/ /\ EnterRecovery
     /\ GenerateReport
     /\ UNCHANGED <<listenVars, sub, cert, dkey, files, storedCert, clientVars>>

(***************************************************************************)
(* The steps of the core that the certificates take no part in, and those  *)
(* that they do: StartDatabase without a database makes a report, and the  *)
(* bootstrap stores the certificate beside the manifest.                   *)
(***************************************************************************)
CoreStep(t) ==
  /\ \/ RecoverLock(t) \/ SetMasterKey(t)
     \/ OpenBackup(t) \/ WriteBackup(t) \/ TruncateSealed(t) \/ WriteSealed(t) \/ StoreFails(t)
     \/ InitializeLock(t) \/ Initialize(t) \/ InitializeFails(t)
     \/ BootOpen(t) \/ BootFatal(t) \/ BootError(t)
     \/ (StartFatal(t) /\ mysqld /\ ~Mid)
     \/ (StartFails(t) /\ ~Mid)
  /\ UNCHANGED sysVars

NotInitializedYet(t) ==
  /\ StartUninitialized(t)
  /\ GenerateReport
  /\ UNCHANGED <<listenVars, sub, cert, dkey, files, storedCert, clientVars>>

StoreCertificate(t) ==
  /\ BootDone(t) \/ BootPanics(t)
  /\ storedCert' = cert
  /\ UNCHANGED <<listenVars, sub, certVars, clientVars>>

\* A client with an acknowledged manifest keeps the root certificate of its connection.
Acknowledge(t) ==
  /\ ReplyManifest(t)
  /\ ackedCerts' = IF t = Main THEN ackedCerts ELSE ackedCerts \cup {conn[t]}
  /\ UNCHANGED <<listenVars, sub, certVars, storedCert, conn, ans>>

(***************************************************************************)
(* Mariadb.Start, from the Stat on.                                        *)
(***************************************************************************)
InStart(t, label) == Alive(t) /\ pc[t] = "start" /\ sub = label

StartMain(t) ==
  /\ InStart(t, "none") /\ rocks # NoDb /\ ~mysqld
  /\ mysqld' = TRUE
  /\ MainStarts
  /\ sub' = "wait"
  /\ UNCHANGED <<hostVars, env, masterKey, state, timer, manifestSig, attemptedInit, diskVars, rocks,
                 mutex, pc, callVars, acked, faults, certVars, storedCert, clientVars>>

\* WaitUntilListenInternalReady, then getConfigFromSQL connects.
ConnectSql(t) ==
  /\ InStart(t, "wait") /\ ready
  /\ Connect("sql")
  /\ sub' = "query"
  /\ UNCHANGED <<vars, certVars, storedCert, clientVars>>

\* Mutant: the mode is not compared with the manifest.
ReadConfigAnyMode(t) ==
  /\ InStart(t, "query") /\ session
  /\ rocks.config # NoManifest
  /\ manifestSig' = rocks.config
  /\ session' = FALSE
  /\ sub' = "cert"
  /\ UNCHANGED <<hostVars, env, masterKey, state, timer, mysqld, attemptedInit, diskVars, rocks,
                 mutex, pc, callVars, acked, faults, addr, ready, server, pending, certVars,
                 storedCert, clientVars>>

\* The query is answered, the manifest allows the mode, its signature is set.
ReadConfig(t) ==
  /\ InStart(t, "query") /\ session
  /\ rocks.config # NoManifest /\ DebugAllowed
  /\ manifestSig' = rocks.config
  /\ session' = FALSE
  /\ sub' = "cert"
  /\ UNCHANGED <<hostVars, env, masterKey, state, timer, mysqld, attemptedInit, diskVars, rocks,
                 mutex, pc, callVars, acked, faults, addr, ready, server, pending, certVars,
                 storedCert, clientVars>>

\* The panic of a process in debug mode; the server stays in its loop.
DebugRefused(t) ==
  /\ InStart(t, "query") /\ session
  /\ rocks.config # NoManifest /\ ~DebugAllowed
  /\ session' = FALSE
  /\ sub' = "failed"
  /\ Fail(t)
  /\ UNCHANGED <<hostVars, procVars, diskVars, rocks, acked, faults, addr, ready, server, pending,
                 certVars, storedCert, clientVars>>

\* Fatalln: there is no row in $edgeless.config.
NoConfig(t) ==
  /\ InStart(t, "query") /\ session
  /\ rocks.config = NoManifest
  /\ Terminate
  /\ UNCHANGED <<hostVars, procVars, diskVars, rocks, acked, faults, sysVars>>

\* Mutant: the process keeps its own certificate.
KeepCert(t) ==
  /\ InStart(t, "cert")
  /\ sub' = "key"
  /\ UNCHANGED <<vars, listenVars, certVars, storedCert, clientVars>>

SetCert(t) ==
  /\ InStart(t, "cert")
  /\ cert' = storedCert
  /\ sub' = "key"
  /\ UNCHANGED <<vars, listenVars, dkey, files, report, storedCert, clientVars>>

SetKey(t) ==
  /\ InStart(t, "key")
  /\ dkey' = storedCert
  /\ sub' = "files"
  /\ UNCHANGED <<vars, listenVars, cert, files, report, storedCert, clientVars>>

\* writeCertificates: ca, cert and key, one after the other.
WriteCertificates(t) ==
  /\ InStart(t, "files")
  /\ files' = files + 1
  /\ sub' = IF files' = 3 THEN "clear" ELSE "files"
  /\ UNCHANGED <<vars, listenVars, cert, dkey, report, storedCert, clientVars>>

WriteCertificatesFails(t) ==
  /\ InStart(t, "files")
  /\ Fault
  /\ sub' = "failed"
  /\ Fail(t)
  /\ UNCHANGED <<hostVars, procVars, diskVars, rocks, acked, listenVars, certVars, storedCert, clientVars>>

ClearAddr(t) ==
  /\ InStart(t, "clear")
  /\ addr' = FALSE
  /\ sub' = "dial"
  /\ UNCHANGED <<vars, ready, server, pending, session, certVars, storedCert, clientVars>>

\* Mutant: Start returns without waiting for the server.
DialReturns(t) ==
  /\ InStart(t, "dial")
  /\ Connect("signal")
  /\ sub' = "started"
  /\ Return(t)
  /\ UNCHANGED <<hostVars, procVars, diskVars, rocks, acked, faults, certVars, storedCert, clientVars>>

Dial(t) ==
  /\ InStart(t, "dial")
  /\ Connect("signal")
  /\ sub' = "started"
  /\ UNCHANGED <<vars, certVars, storedCert, clientVars>>

\* Mutant: a refused connection is tried again.
DialRetries(t) == InStart(t, "dial") /\ ~Listening /\ UNCHANGED <<vars, sysVars>>

\* The loop of the server has seen the cleared variable and has closed the socket: a panic.
DialRefused(t) ==
  /\ InStart(t, "dial") /\ ~Listening
  /\ sub' = "failed"
  /\ Fail(t)
  /\ UNCHANGED <<hostVars, procVars, diskVars, rocks, acked, faults, listenVars, certVars, storedCert, clientVars>>

\* Mutant: Start returns, but no report is made.
StartedWithoutReport(t) ==
  /\ InStart(t, "started") /\ server = "running"
  /\ sub' = "done"
  /\ Return(t)
  /\ UNCHANGED <<hostVars, procVars, diskVars, rocks, acked, faults, listenVars, certVars, storedCert, clientVars>>

\* WaitUntilStarted; Start returns and StartDatabase makes the report.
Started(t) ==
  /\ InStart(t, "started") /\ server = "running"
  /\ GenerateReport
  /\ sub' = "done"
  /\ Return(t)
  /\ UNCHANGED <<hostVars, procVars, diskVars, rocks, acked, faults, listenVars, cert, dkey, files,
                 storedCert, clientVars>>

StartStep(t) ==
  \/ StartMain(t) \/ ConnectSql(t) \/ ReadConfig(t) \/ DebugRefused(t) \/ NoConfig(t)
  \/ SetCert(t) \/ SetKey(t) \/ WriteCertificates(t) \/ WriteCertificatesFails(t)
  \/ ClearAddr(t) \/ Dial(t) \/ DialRefused(t) \/ Started(t)

(***************************************************************************)
(* The thread of the server.                                               *)
(***************************************************************************)
\* The store opens with its key.
ServerOpens ==
  /\ Up /\ server = "open" /\ env = rocks.key
  /\ server' = "bind"
  /\ UNCHANGED <<vars, addr, ready, pending, session, sub, certVars, storedCert, clientVars>>

\* With another key the server exits.
ServerExits ==
  /\ Up /\ server = "open" /\ env # rocks.key
  /\ Terminate
  /\ UNCHANGED <<hostVars, procVars, diskVars, rocks, acked, faults, sysVars>>

\* AbortPerror, a failing bind of the external port, or the query fails and Start ends the process.
ServerAborts ==
  /\ Up /\ Mid /\ (server \in {"bind", "accept", "close", "ssl", "running"} \/ sub = "query")
  /\ Fault
  /\ Terminate
  /\ UNCHANGED <<hostVars, procVars, diskVars, rocks, acked, sysVars>>

\* The server ends when Start has returned or has panicked.
MainReturns == ~Mid /\ ServerEnds /\ UNCHANGED sysVars

ServerRuns ==
  \/ ServerOpens \/ ServerExits
  \/ Up /\ ListenStep /\ UNCHANGED <<vars, sub, certVars, storedCert, clientVars>>

ServerStep == ServerRuns \/ ServerAborts \/ MainReturns

(***************************************************************************)
(* Clients.  getConfigForClient signs a certificate for the connection     *)
(* with d.key; x509 refuses a key that does not fit d.cert, and the        *)
(* handshake fails.                                                        *)
(***************************************************************************)
\* core.go createCertificate: the key signs for the certificate.
KeyFits == cert = dkey

Handshake(t) == KeyFits /\ conn' = [conn EXCEPT ![t] = cert]

Request(t) ==
  /\ PostRecover(t) \/ PostManifest(t)
  /\ Handshake(t)
  /\ UNCHANGED <<listenVars, sub, certVars, storedCert, ackedCerts, ans>>

\* d.cert and c.report are slices: a read while they are assigned may tear.
CertReads == {Certified} \cup {TornCert : s \in {sub} \cap {"cert"}}
ReportReads == {report} \cup {TornCert : s \in {sub} \cap {"started"}}

Answer(r, a) ==
  /\ Serving
  /\ ans' = [ans EXCEPT ![r] = a]
  /\ UNCHANGED <<vars, listenVars, sub, certVars, storedCert, conn, ackedCerts>>

\* GET /quote: GetCertificateReport reads the certificate and then the report.
QuoteCert(r) ==
  /\ ans[r] = NoAnswer
  /\ \E c \in CertReads : Answer(r, [kind |-> "cert", cert |-> c])

QuoteReport(r) ==
  /\ ans[r] # NoAnswer /\ ans[r].kind = "cert"
  /\ \E q \in ReportReads : Answer(r, [kind |-> "quote", cert |-> ans[r].cert, report |-> q])

\* Mutant: GetManifestSignature does not lock.
UnlockedSignature(r) ==
  /\ ans[r] = NoAnswer
  /\ Answer(r, [kind |-> "signature", sig |-> manifestSig])

\* GET /signature: GetManifestSignature locks.
Signature(r) ==
  /\ ans[r] = NoAnswer /\ mutex = NoThread
  /\ Answer(r, [kind |-> "signature", sig |-> manifestSig])

Answered(r) ==
  /\ ans[r] # NoAnswer /\ ans[r].kind # "cert"
  /\ Answer(r, NoAnswer)

ReaderStep(r) == QuoteCert(r) \/ QuoteReport(r) \/ Signature(r) \/ Answered(r)

SysNext ==
  \/ NewMariadb \/ ProcessEnds \/ LoadKey
  \/ \E t \in Threads : CoreStep(t) \/ NotInitializedYet(t) \/ StoreCertificate(t) \/ Acknowledge(t) \/ StartStep(t)
  \/ ServerStep
  \/ \E t \in Handlers : Request(t)
  \/ \E r \in Readers : ReaderStep(r)
  \/ (MoveHost \/ Reconfigure \/ Second) /\ UNCHANGED sysVars

SysSpec == SysInit /\ [][SysNext]_allVars

\* The goroutine in Start and the thread of the server run (and need not fail), and a process that exits ends.
SysFairness ==
  /\ \A t \in Threads : WF_allVars(StartStep(t))
  /\ WF_allVars(ServerRuns) /\ WF_allVars(ProcessEnds /\ Exit)

SysFairSpec == SysSpec /\ SysFairness

(***************************************************************************)
(*                              Properties                                 *)
(***************************************************************************)
AllCerts == Certs \cup {RootCert, RootCA, NoCert, TornCert}

Answers ==
  [kind : {"cert"}, cert : AllCerts] \cup [kind : {"quote"}, cert : AllCerts, report : AllCerts]
  \cup [kind : {"signature"}, sig : Manifests \cup {NoManifest}] \cup {NoAnswer}

\* Every variable has its type; Start is only under way while a thread is in StartDatabase.
SysTypeOK ==
  /\ addr \in BOOLEAN /\ ready \in BOOLEAN /\ session \in BOOLEAN
  /\ server \in ServerLabels /\ pending \in {"none", "sql", "signal"}
  /\ Mid \/ sub \in {"none", "done", "failed"}
  /\ {cert, dkey, report, storedCert} \subseteq AllCerts /\ files \in 0..3
  /\ conn \in [Handlers -> AllCerts] /\ ackedCerts \subseteq AllCerts
  /\ ans \in [Readers -> Answers]
  /\ Mid /\ Up => \E t \in Threads : pc[t] = "start"

(***************************************************************************)
(* The server leaves its internal loop only when all certificate files are *)
(* there and hold the stored certificate, although all that releases it is *)
(* a variable it polls.                                                    *)
(***************************************************************************)
ServerHasCertificates ==
  server \in {"close", "ssl", "running"} => files = 3 /\ cert = storedCert /\ dkey = storedCert

(***************************************************************************)
(* The root certificate with which a client uploaded the manifest is the   *)
(* one of the database: across the restart, failed starts and recovery.    *)
(***************************************************************************)
AckedCertificateIsServed ==
  \A c \in ackedCerts : storedCert = c /\ (server = "running" => cert = c)

\* Outside recovery mode /quote answers with a report for the certificate it returns.
QuoteMatchesOutsideRecovery ==
  \A r \in Readers :
    state # "Recovery" /\ ans[r] # NoAnswer /\ ans[r].kind = "quote"
      => ans[r].report \in {ans[r].cert, NoCert}

\* When no Start is under way or has panicked, the report vouches for the current certificate.
ReportIsCurrent ==
  Serving /\ ~Mid /\ sub # "failed" => report \in {Certified, NoCert}

\* A client that gets a signature can rely on a database that has completed its start, unless Start has panicked.
SignatureMeansStarted ==
  \A r \in Readers :
    ans[r] # NoAnswer /\ ans[r].kind = "signature" /\ ans[r].sig # NoManifest
      => ans[r].sig = rocks.config /\ (server = "running" \/ sub = "failed")

\* Start does not wait for ever, for the ready flag, the query or the server: it ends, or its process does.
StartEnds == Mid ~> ~Mid

(***************************************************************************)
(* What comments say, and the code does not do.                            *)
(***************************************************************************)
\* The last connection signals the server: the socket is still there.
LastDialConnects == sub = "dial" => Listening

\* GetCertificateReport returns the certificate and a report that includes its hash (if no read tears).
QuoteMatchesCertificate ==
  \A r \in Readers :
    ans[r] # NoAnswer /\ ans[r].kind = "quote" /\ TornCert \notin {ans[r].cert, ans[r].report}
      => ans[r].report \in {ans[r].cert, NoCert}
=============================================================================
