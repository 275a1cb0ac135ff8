------------------------------ MODULE Mariadb ------------------------------
(***************************************************************************)
(* edb/db/mariadb.go: the embedded MariaDB server, bootstrapped once with  *)
(* a manifest and started from the data it left in #rocksdb.  What the     *)
(* server itself does (create, open and bootstrap the store) is external:  *)
(* it is modelled by what the Go code and error.go rely on.                *)
(***************************************************************************)
EXTENDS MasterKey

CONSTANT NoDb  \* there is no #rocksdb directory

VARIABLES
  rocks,         \* #rocksdb: the key it is encrypted with, the manifest in $edgeless.config
  mysqld,        \* mariadbd.Main is running in its goroutine
  manifestSig,   \* d.manifestSig, represented by the manifest it is the hash of
  attemptedInit  \* d.attemptedInit

dbVars == <<mysqld, manifestSig, attemptedInit>>

DbType == [key : Keys, config : Manifests \cup {NoManifest}]

ASSUME DbAssumption == NoDb \notin DbType

\* Initialize returns an error before it touches the database.
InitRefused(m) ==
  \/ manifestSig # NoManifest
  \/ attemptedInit
  \/ m.json # "ok"
  \/ cfg.debug /\ ~m.debug

\* eRocksDB opens a store with the key it was created with, and creates one with any key.
Opens == env \in Keys /\ ~mysqld /\ (rocks # NoDb => rocks.key = env)

\* The server creates #rocksdb, or opens the existing one.
StoreOpened == rocks' = IF rocks = NoDb THEN [key |-> env, config |-> NoManifest] ELSE rocks

\* The last statement of the bootstrap inserts the manifest into $edgeless.config.
ConfigInserted(m) == rocks' = [key |-> rocks.key, config |-> m]

\* The manifest in the store allows the mode this process runs in.
DebugAllowed == cfg.debug => rocks.config.debug

\* Start gets through: the store opens and holds a configuration.
Startable == Opens /\ rocks.config # NoManifest

\* The server accepts clients.
DbRunning == mysqld /\ manifestSig # NoManifest
=============================================================================
