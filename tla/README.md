# A TLA+ model of EdgelessDB

EdgelessDB is MariaDB with an encrypted RocksDB store, run as one process (in an
SGX enclave or not) under the control of a Go program. This directory models the
parts of that program that keep the data usable: the master key and the files it
is in, the state machine around initialization and recovery, the life of the
process, the start of the server with its certificates and attestation reports, and the
redirection of MariaDB's `.frm` and `db.opt` files into the store. TLC checks small
instances; TLAPS proves the main safety properties for every value of the constants.

## The system

| part | source | modelled in |
| --- | --- | --- |
| master key: load, create, seal, back up, set | `edb/core/key.go` | `MasterKey`, `EdbCore` |
| core: state, mutex, Initialize, Recover, StartDatabase, restart timer | `edb/core/core.go` | `EdbCore` |
| database control: bootstrap and start of the server, debug mode, error log | `edb/db/mariadb.go` | `Mariadb`, `EdbCore` |
| HTTP API: `/manifest`, `/recover`, `/signature`, `/quote` | `edb/server/server.go` | `EdbCore` (the first two), `EdbSystem` (all) |
| process: run, exit, error classification, restart | `cmd/edb/*.go` | `EdbCore` |
| configuration | `edb/core/config.go` | a constant of the deployment |
| syscall redirection and its store | `src/syscall_*.cc`, `src/rocksdb.cc` | `SyscallHandler`, `PersistentFs` |
| internal listener handshake | `src/mysqld_edb.cc`, `cmd/edb/mariadbd.go`, `mariadb.go:168-246` | `InternalListen`, `EdbSystem`; one step of `EdbCore` |
| certificates and attestation reports | `core.go:95-136, 233-290, 320-400`, `mariadb.go:84-123` | `EdbSystem` |
| enclave start-up, PEM parsing, console, test doubles | `src/emain.cc`, `edb/db/marblerun.go`, ... | not modelled |

How they interact: `run` creates the core, which loads or creates the master key
and puts it into the environment, where the store reads it. `StartDatabase` starts
the server if `#rocksdb` exists. If not, the process waits for `/manifest`, or takes
a manifest file. `Initialize` bootstraps the store and restarts the process a second
later, because the server cannot be started twice in one process. Without a usable
key the process is in recovery mode and waits for `/recover`. HTTP handlers run
concurrently; `c.mutex` is the only lock. Everything but `#rocksdb` and
`edb-persistence/` is lost when the process ends.

## Modules

`MasterKey` has the places a key can be in: `c.masterKey`, the environment, the file
`sealed_key` (readable only on the host that sealed it, in an enclave build) and its
backups. A file is written in two steps, truncate and write, with `Torn` in between.
Backups have names with a granularity of a second: `bakNow` is the one of the current
second, which a second backup overwrites; `NextSecond` archives it.

`Mariadb` has the store (`rocks`: the key it is encrypted with and the manifest in
`$edgeless.config`) and the fields of `Mariadb`. What the server and eRocksDB do is
external: a store opens only with its key, and a bootstrap executes its statements in
order, the last of which inserts the manifest.

`EdbCore` composes both. A thread is the main goroutine or an HTTP handler, and
`pc[t]` names its next step. Steps are cut at lock operations, file writes and calls
into the server, where another thread, the restart timer or a crash can be observed.
`Recover` is `RecoverLock, SetMasterKey, OpenBackup, WriteBackup, TruncateSealed,
WriteSealed`, then a start. `Initialize` is `PostManifest` (recovery data, made without
the mutex), `InitializeLock, Initialize, BootOpen, BootDone | BootError | BootPanics,
ReplyManifest`. In `BootPanics` the manifest is in the store, but `mariadbd.Main` returns an
error or its log cannot be read: the client is told of a failure and there is no restart.
`ServerEnds` is the panic of the goroutine in which the server ran, which ends the
process. The unlocked read of `c.masterKey` may tear while Recover assigns it.
`Fault` lets a system call fail at each place the code handles an error. `acked` is a
history variable: what was answered to clients.

An operator can relaunch with or without debug mode (`Reconfigure`). `Vault` is what all
this promises the owner of the data, without processes, files and crashes: a store is
created once with one key and gets one manifest for good; a manifest is acknowledged only
when it is in the store; clients are served under that manifest only, in debug mode only
if it allows debug mode.

`InternalListen` is the thread of the server from `mariadbd.Main` to the end of its
start-up. Before it turns on TLS the server listens on an internal address until it finds
`EDB_INTERNAL_ADDR` cleared after a connection. Variable, ready flag and socket are shared
with the goroutine in `Mariadb.Start` without a lock.

`EdbSystem` extends both. It has all actions of `EdbCore`, but the one step
`StartDatabase` becomes thirteen (`sub` is where Start is), interleaved with the server,
which may abort during the start (`ServerAborts`) or end later (`MainReturns`).
It adds the certificate and key of the process and of `$edgeless.config`, the
certificate files, the report (represented by the certificate it vouches for), the TLS
handshake of each request, and readers: clients of `/quote` and `/signature`, whose reads
take no lock or only the one the code takes. A read of a slice that is being assigned may
tear. `ackedCerts` is a history variable: the root certificates seen by clients whose
manifest was acknowledged. `EdbSystemCore` has the refinement mapping from `EdbSystem` to
`EdbCore`.

`SyscallHandler` models each redirected call as its steps under `mutex_`. `mem` is
what the store returns, `disk` what a crash leaves; `FlushWAL` copies one to the other
and may fail, which the code ignores. `PersistentFs` is what MariaDB relies on: files
changed atomically, one call at a time, that survive a crash. A temporary file that is
renamed to `db.opt` is put into the column family of the `.frm` files
(`syscall_handler.cc:284`), under the key `OptInFrm`: Open, Unlink and Exists look for a
`db.opt` in the other one. `ImportFlush` flushes and removes the temporary file in one step:
the file is lost in a crash anyway, and `mutex_` keeps other calls out.

`MCEdbCore`, `MCEdbSystem` and `MCSyscallHandler` give the constants of the runs. Operators marked
"Mutant" are plausible bugs; each property of a passing run is violated under one of
them. They are not used otherwise.

## Runs

| run | checks | states |
| --- | --- | --- |
| `core_safety` | `TypeOK`, `DataKeyOnDisk`, `AckedManifestIsStored`, `RecoveryDataOpensDatabase`, `LocalKeyKept`, `VaultRefinement` | 910k |
| `core_configs` | the same but `TypeOK`: every configuration, every kind of manifest, one failing system call | 492k |
| `core_liveness` | `InitializedDatabaseRuns`, `RequestsReturn` | 103k |
| `system` | `SysTypeOK`, `ServerHasCertificates`, `AckedCertificateIsServed`, `QuoteMatchesOutsideRecovery`, `ReportIsCurrent`, `SignatureMeansStarted`, `CoreRefinement`, `StartEnds` | 203k |
| `fs_refinement` | `TypeOK`, `FinishedCallsAreDurable`, `RenameKeepsTable`, `FsRefinement` | 687k |
| `fs_faults` | `RenameKeepsTable`, one failing store operation | 1467k |

- `DataKeyOnDisk`: while `#rocksdb` exists, some file holds its key. Rests on the order
  of the writes in `storeMasterKey` and on the backup.
- `AckedManifestIsStored`: a manifest acknowledged to one client stays the one in the
  database, whatever others upload, including in the second before the restart.
- `RecoveryDataOpensDatabase`: outside recovery mode the recovery data a client gets
  holds the key of the database, although it is made without the mutex.
- `LocalKeyKept`: a running database can be opened on its host without the recovery data,
  also after a recovery on a new host: `sealed_key` holds its key, sealed for this CPU. A
  recovered process stays in `stateRecovery` (`core.go:183`) and accepts another `/recover`,
  which may overwrite `sealed_key` with a wrong key; from then on a backup holds it.
- `VaultRefinement`: `EdbCore` implements `Vault`; the store is `rocks`, what is served is
  the signature while the server runs, what is promised is what was acknowledged. This is
  also where it is shown that no step loses the store, its key or its manifest.
- `InitializedDatabaseRuns`, `RequestsReturn`: a database that has its manifest comes up
  or waits for a key, also when the answer to the client was lost in the restart. The third
  outcome is that `sealed_key` holds a key that does not open it, which a wrong `/recover`
  leaves behind: then every launch ends (`wrong_key_stored`). Every request is answered or
  its process ends.
- `CoreRefinement`: `EdbSystem` implements `EdbCore`. The server counts as running, and the
  signature as set, once Start has returned or has failed. So what is shown of `EdbCore`,
  where Start is one step, holds with the start in detail.
- `ServerHasCertificates`: the server leaves its internal loop only when the three
  certificate files are written and the stored pair is in place.
- `AckedCertificateIsServed`: the root certificate of the connection on which a manifest was
  acknowledged is the one of the database after the restart, failed starts and recovery.
- `QuoteMatchesOutsideRecovery`, `ReportIsCurrent`: outside recovery mode `/quote` answers
  with a report for the certificate it returns (or none, if attestation is not available);
  when no Start is under way or has panicked, report and certificate belong together.
- `SignatureMeansStarted`: `/signature` does not return the signature of a database that is
  still starting. It may after a Start that panicked in a `/recover` handler.
- `StartEnds`: Start, which polls without a timeout, ends, or its process does.
- `FsRefinement`: the store on disk implements `PersistentFs` with `files <- disk`;
  intermediate steps and reads are stutters.
- `RenameKeepsTable`: Rename is a put and a delete; a table never has neither name (on disk:
  as long as no store operation has failed).
- `FinishedCallsAreDurable`: between calls nothing waits for a flush.

Three runs of the core, two of the system and one of the redirection state what a comment, a
document or a test says and the code does not do; TLC finds the violation:

- `manifest_file_deadlock`: Recover holds the mutex when StartDatabase calls Initialize,
  which locks it again (`core.go:209`, comment at `core.go:200`).
- `recovery_data`: in recovery mode without a database, `/manifest` returns recovery data
  for a key the database does not have (`core.go:145`, `docs/docs/advanced/recovery.md:15`).
- `wrong_key_stored`: a wrong key is sealed before it is tried, and the next launch does
  not enter recovery mode (`key.go:175`, `recovery.md:44`).
- `last_dial`: the thread of the server reads the variable after it handed over the SQL
  connection. If it gets there after Start cleared the variable, it closes the socket
  without the last connection, whose Dial then fails; Start panics (`mariadb.go:227`,
  comment at `mariadb.go:223`).
- `quote_race`: during a recovery `/quote` can return the certificate of the database with
  the report for the temporary one (`core.go:115`, comment at `core.go:102`). Torn reads are
  left aside: the property does not need them to fail.
- `dir_prefix`: `Dir("./a")` also lists the tables of `./ab` (`syscall_handler.cc:115`,
  `syscall_handler.h:43`, `syscall_test.cc:226-227`).

### Bounds

Two handlers are enough for a race of two requests, the most that any one critical
section distinguishes. All runs of the core have two keys, a right and a wrong one; clients
post both to `/recover` in `core_safety` and `core_liveness`, and one of them, or bytes of a
wrong size, in `core_configs`. Two hosts make a move, and one crash falls between any two
steps of one launch (`core_safety`). `core_liveness` has a move, but neither a crash nor a
failing call, so `BootPanics` is not part of it; a process still ends and starts again,
any number of times, by the restart timer, the lost `last_dial` race and wrong keys.
`core_configs` gives up the second handler and the crash for all configurations and a
failing call.

`system` has one handler, one reader and one failing call, in four deployments (standalone,
debug, MarbleRun with a good and with a bad manifest), and no crash and no move: recovery
mode is entered after a failed write of the key file, and the key that is posted, `k2`, is
the right one or the wrong one depending on the key the process drew. One crash and one move
are in `core_safety`; with them `system` is too large to keep as a run. The theorems about
`EdbSystem` hold for any number of both, so only `StartEnds` depends on this bound.

Files of the redirection have one byte at most (two in `dir_prefix`), and writes may be empty:
enough for an overwrite, an extension, and a gap filled with zeros (an empty write behind the
end). Two tables are enough for a rename; two threads for a lost update.
`fs_faults` has one thread because the fault, not the race, is the question. `MaxCrashes`,
`MaxMoves`, `MaxFaults` and `MaxSize` only bound these runs; the theorems hold for any
value. Handlers, hosts, keys, threads and tables are symmetric in the safety runs.
`core_configs` does not check for deadlock: with a manifest file the process really
stops (`manifest_file_deadlock`).

### Fairness

`FairSpec` assumes that a goroutine that can run does run, that the sleeping goroutine
wakes up, that `sync.Mutex` serves a waiter eventually (its starvation mode; strong
fairness of the lock steps), and that whoever operates the deployment launches it again
after it ended. No client has to send anything, and nobody has to recover: recovery mode
is an accepted outcome of `InitializedDatabaseRuns`.

One assumption is more than scheduling gives: strong fairness of the `StartDatabase` step of
the main goroutine that succeeds. Start can lose the race of `last_dial` in any launch; the
assumption is that it does not lose it in all of them. Without it `InitializedDatabaseRuns`
fails, because the process may panic in every launch.

`SysFairSpec` assumes that the goroutine in Start and the thread of the server run, and that
a process that exits ends. `StartEnds` needs no more.

### Assumptions

`SlowRelaunch`: a process takes longer than a second to start, so that the backups of
two launches have different names. Without it TLC finds a violation of `DataKeyOnDisk`:
two keys stored in one second share a backup name. `DataKeyOnDisk` and
`LocalKeyKept` say nothing after a failed system call: the code ignores a failed
backup (`key.go:159`), and what to do after an error is left to the operator. They say
nothing under MarbleRun, where the key comes from the Coordinator, and `LocalKeyKept` is
about enclaves. In an enclave without MarbleRun nobody presets `EROCKSDB_MASTERKEY`
(`emain.cc` passes only `EDG_*`; `ConfigsAssumption`). A build without SGX passes the
whole environment; a process that is given a key there stores none, and `DataKeyOnDisk` is
about the others. The server writes or unlinks a temporary `.frm~` file before or after it
renames it, not at the same time. The code lets a `.frm` file be renamed to itself, which deletes it; `RenameKeepsTable` is about two
different names, MariaDB does not ask for the other.

## Proofs

For any number of handlers, readers, keys, hosts, manifests, configurations, certificates,
crashes, moves and faults, threads, schemas, tables and bytes:

| theorem | module | statement |
| --- | --- | --- |
| `TypeCorrect` | `EdbCoreTypes` | `Spec => []TypeOK` |
| `Invariance` | `EdbCoreProofs` | `Spec => []IInv` |
| `DataKeyKept` | `EdbCoreProofs` | `Spec => []DataKeyOnDisk`, assuming `SlowRelaunch` |
| `AckedManifestKept` | `EdbCoreProofs` | `Spec => []AckedManifestIsStored` |
| `RecoveryDataValid` | `EdbCoreProofs` | `Spec => []RecoveryDataOpensDatabase` |
| `RunningKeyKept` | `EdbCoreProofs` | `Spec => []LocalKeyKept`, assuming `SlowRelaunch` |
| `ImplementsVault` | `EdbCoreProofs` | `Spec => VaultRefinement` |
| `StartInvariant` | `EdbSystemProofs` | `SysSpec => [](CoreInv /\ StartInv /\ HandshakeInv)` |
| `ServerCertified` | `EdbSystemProofs` | `SysSpec => []ServerHasCertificates` |
| `SysTypeCorrect` | `EdbSystemClients` | `SysSpec => []SysTypeOK` |
| `AckedCertificateKept` | `EdbSystemClients` | `SysSpec => []AckedCertificateIsServed` |
| `ReportCurrent` | `EdbSystemClients` | `SysSpec => []ReportIsCurrent` |
| `QuoteMatches` | `EdbSystemClients` | `SysSpec => []QuoteMatchesOutsideRecovery` |
| `SignatureStarted` | `EdbSystemClients` | `SysSpec => []SignatureMeansStarted` |
| `ImplementsCore` | `EdbSystemRefinement` | `SysSpec => CoreRefinement` |
| `HandlerTypeCorrect` | `SyscallHandlerTypes` | `Spec => []TypeOK` |
| `HandlerInvariance` | `SyscallHandlerProofs` | `Spec => []HandlerInv` |
| `CallsDurable` | `SyscallHandlerProofs` | `Spec => []FinishedCallsAreDurable` |
| `RenameSafe` | `SyscallHandlerProofs` | `Spec => []RenameKeepsTable` |
| `ImplementsFs` | `SyscallHandlerProofs` | `Spec => FsRefinement`, assuming `MaxFaults = 0` |

### The core

`EdbCoreTypes`, `EdbCoreCalls` and `EdbCoreProofs` each extend the one before. None of the
properties is inductive: that the key is on disk depends on where each thread is in
`storeMasterKey`, and what a thread may be doing depends on the mutex. `IInv` has seven
layers, each proved with the ones before it:

1. `Typed` (in `EdbCoreTypes`): `TypeOK`, and what is about to be stored is a key;
2. `Control` (`EdbCoreCalls`, like the next two): who holds the mutex, and which steps can be under way together;
3. `CallInv`: what a call in progress holds on to (the key it put into the environment
   is still there, the store it opened is the one it will write to);
4. `AckInv`: recovery data under way holds the key in the environment, which is the one
   the store gets; acknowledged manifests are in the store;
5. `RunInv` (`EdbCoreProofs`, like the next two): the server runs on a store that exists, and a
   signature is only set while it runs;
6. `FileInv`: which file holds the key of the store at each step of `storeMasterKey`:
   `sealed_key`, or from the truncation on a backup;
7. `BackupInv`: while the server runs in an enclave, a further `/recover` that is past its
   backup has left the key, sealed for this host, in one of the backups.

Each layer has an Init lemma and a Step lemma. Many actions differ only in what no layer
speaks of, so `Effects` (in `EdbCoreTypes`) first sorts every step of `Next` into the few
kinds of effect a layer has to tell apart (`Effect`, `ThreadEffect`, `Ends`); a Step lemma
has one case per kind. `ImplementsVault` maps the visible steps:
`BootOpen` is Create, `BootDone` and `BootPanics` are Commit, `ReplyManifest` is Acknowledge, `StartDatabase`
is Serve, the end of a process is Stop, `Reconfigure` is SwitchMode. All others leave what a Vault sees alone.

### The start

`EdbSystemProofs` has what Start, the server and the handlers may assume of each other.
`CoreInv`, the first three layers of the core, holds in `EdbSystem` too: `SystemEffects`
shows that each of its steps has an effect of `EdbCore`, or (`Quiet`) changes nothing those
layers read. `StartInv` says that a thread is in Start while Start is under way, which key
the server has opened the store with, and what the signature is. Nothing but an environment
variable orders Start and the server, so `HandshakeInv` says what has been done
whenever the variable is found cleared: the server is past its loop only with the variable
cleared; a running server with the variable cleared means that the files are written and the
stored pair is in place; and for each step of Start, what it has established so far. The proof
does not depend on whether the last Dial arrives: the outcome of `last_dial` is a panic, not a
server without certificates.

### The clients

`EdbSystemClients` adds a layer for each thing a client is told:

- `SysTyped`: the types, including those of answers half given;
- `CertInv`: until a manifest is stored, every connection has the certificate of the process,
  which is the one that gets stored with it; an answer on its way was accepted on a connection
  with the stored certificate. This is why an upload that raced with others and won is still
  acknowledged under the right certificate;
- `ReportInv`: the report is for the current certificate until Start replaces the certificate,
  and again once Start has returned;
- `QuoteInv`: outside recovery mode the server is started before the process serves, so a
  reader between its two reads holds the certificate that will still be current at the second.

### The system as a core

`ImplementsCore` (`EdbSystemRefinement`) shows that every step of `EdbSystem` is one step of
`EdbCore`, or one `EdbCore` does not see. Until Start ends, the mapping hides that the server
runs and the signature is set. The step that ends it (`Started`, `DebugRefused`,
`WriteCertificatesFails`, `DialRefused`) is `StartDatabase`; `NoConfig` and `ServerExits` are
`StartFatal`, `ServerAborts` is `StartFails`, `MainReturns` is `ServerEnds`. That `StartDatabase` may be taken there needs
`StartInv` (the key opened the store) and `HandshakeInv` (the manifest was read). The other
steps of Start, the server's and the readers' are stutters, and a step of the core is itself:
it does not meet a Start under way, except for a crash, a timer or a handler that waits.
With `ImplementsCore`, what is proved of `EdbCore` holds of the system.

### The redirection

`Shaped` has the types and that at most one thread is between lock and unlock. `CallInv`
says what that thread has changed so far: in memory (`InMemory`) and, as long as nothing
failed, on disk (`OnDisk`: exactly one write is not flushed, its own). When it flushes,
memory and disk agree again, which is the step of `PersistentFs` it implements. All others
are stutters.

The proofs use only the named assumptions of the modules, which TLC evaluates in each run.

### Only model-checked

Liveness (`InitializedDatabaseRuns`, `RequestsReturn`, `StartEnds`), which the prover does
not cover. Every safety property that a passing run checks has a theorem. After a failed store
operation `PersistentFs` is not implemented, since FlushWAL's result is ignored, so
`ImplementsFs` has its assumption. That a theorem about `EdbCore` holds of the system follows
from `ImplementsCore` by substitution; it is not restated for `EdbSystem`.

## Not modelled

- Enclave start-up (`emain.cc`, `enclavemain.go`, `main.go`) is a straight line of mounts
  and environment filtering before `run`; its effect is an assumption (above). How
  `config.go` fills a configuration is a list of assignments.
- A launch that fails in `NewMariadb` (no data directory, unusable secrets from MarbleRun)
  ends before it has changed anything. A MarbleRun CA that cannot be decoded fails the same way.
- Wording of errors, SQL text, the text of `my.cnf`, TLS and PEM parsing, and console
  redirection are data without control. So is the error log: with `EDG_EDB_LOG_DIR` set and
  `EDG_EDB_DEBUG` unset, the configuration turns debug mode on and the server logs to that
  directory (`config.go:84-87`, `mariadb.go:324-329`), while `determineError` reads the log
  in the memory file system (`error.go:46`) and prints no explanation.
- Stat, Access, fstat and Size of the redirection only read, and so does Dir of `.`, the list
  of the databases (`syscall_handler.cc:111-121`); Dir of a folder is an operator. The check of a write offset for
  overflow needs offsets near 2^64.
- Modelled, but nothing is claimed: after a failed backup (`key.go:159`) or a failed store in
  recovery mode (`key.go:176`) the key of a database can be in no file. Open checks `db.opt`
  and creates the file in two critical sections; MariaDB's own locks are what keeps a
  DROP DATABASE out.
- After a successful recovery another `/recover` is accepted and starts a second
  `mariadbd.Main` in the process. What it does to `sealed_key` is modelled (`LocalKeyKept`).
  The second start itself is one step, `StartFatal` or `StartFails`: the second Main finds the
  store locked by the first and ends the process, or getConfigFromSQL is refused before that,
  because the first server has left its internal loop, and `log.Fatalln` ends it. Only the
  interval between the call and the end of the process is abstracted. The same holds after a
  Start that panicked in a handler: the loop of its server may still answer the query, but
  the second Main ends the process all the same.
