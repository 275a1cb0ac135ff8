----------------------------- MODULE MasterKey -----------------------------
(***************************************************************************)
(* The master key of EdgelessDB: where it lives and how edb/core/key.go    *)
(* moves it.  A key has three places: the field c.masterKey, the process   *)
(* environment (where eRocksDB reads it) and the file                      *)
(* edb-persistence/sealed_key on the host, which in an enclave build only  *)
(* the CPU that sealed it can read.  Every overwrite of sealed_key first   *)
(* copies the old file to sealed_key_<YYYYMMDDhhmmss>.bak, a name with a   *)
(* granularity of one second.                                              *)
(***************************************************************************)

CONSTANTS
  Keys,       \* the 16-byte master keys
  Hosts,      \* the physical hosts (CPUs) the data directory may be on
  Manifests,  \* the manifests a client may upload or a file may hold
  Configs,    \* the configurations the process may be started with
  NoKey,      \* no key: a nil slice, an unset environment variable
  BadKey,     \* bytes that are no 16-byte key: a key of another size
  NoFile,     \* the file does not exist
  Torn,       \* the file exists and was not written to its end
  NoManifest  \* no manifest

\* What loadMasterKey reports when it returns no key.
LoadErrors == {"invalid", "notProvided", "notExist", "unreadable"}

\* The contents of a completely written sealed_key file.
Blob == [key : Keys, host : Hosts]

File == Blob \cup {NoFile, Torn}

(***************************************************************************)
(* A manifest, by what the code tells apart: whether it is JSON at all     *)
(* (core.Initialize), has fields of the right types (db.Initialize), the   *)
(* recovery public key it holds, its debug flag, and whether its SQL       *)
(* statements execute without an error.                                    *)
(***************************************************************************)
ManifestType == [json : {"bad", "partial", "ok"}, recovery : {"none", "bad", "rsa"},
                 debug : BOOLEAN, sql : BOOLEAN]

(***************************************************************************)
(* The configuration: an SGX build or not, run by MarbleRun or standalone, *)
(* debug mode, the manifest file (a file that cannot be read is one that   *)
(* holds no JSON: both make StartDatabase return the error) and the value  *)
(* of EROCKSDB_MASTERKEY a fresh process starts with.                      *)
(***************************************************************************)
ConfigType == [enclave : BOOLEAN, isMarble : BOOLEAN, debug : BOOLEAN,
               manifest : Manifests \cup {NoManifest}, launchKey : Keys \cup {NoKey, BadKey}]

ASSUME KeysAssumption ==
  /\ NoKey \notin Keys /\ BadKey \notin Keys /\ NoKey # BadKey
  /\ LoadErrors \cap Keys = {}

ASSUME HostsAssumption == Hosts # {}

ASSUME FilesAssumption == NoFile \notin Blob /\ Torn \notin Blob /\ NoFile # Torn

ASSUME ManifestsAssumption == Manifests \subseteq ManifestType /\ NoManifest \notin ManifestType

(***************************************************************************)
(* In an enclave only MarbleRun presets the key: emain.cc keeps none but   *)
(* the EDG_* variables of the host.  A build without SGX keeps them all.   *)
(***************************************************************************)
ASSUME ConfigsAssumption ==
  /\ Configs \subseteq ConfigType
  /\ \A c \in Configs : c.enclave /\ ~c.isMarble => c.launchKey = NoKey

VARIABLES
  cfg,        \* the configuration of this deployment
  host,       \* the host the data directory is on
  env,        \* EROCKSDB_MASTERKEY in the environment of the process
  masterKey,  \* c.masterKey
  sealed,     \* the file sealed_key
  bakNow,     \* the backup written in the current second
  backups     \* the backups written in earlier seconds

diskVars == <<sealed, bakNow, backups>>

\* The keys some file of edb-persistence holds.
KeysOnDisk == {b.key : b \in ({sealed, bakNow} \cup backups) \cap Blob}

\* The result of loadMasterKey: a key, or one of LoadErrors.
LoadMasterKey ==
  IF env # NoKey THEN IF env \in Keys THEN env ELSE "invalid"
  ELSE IF cfg.isMarble THEN "notProvided"
  ELSE IF sealed = NoFile THEN "notExist"
  ELSE IF sealed = Torn \/ (cfg.enclave /\ sealed.host # host) THEN "unreadable"
  ELSE sealed.key

(***************************************************************************)
(* The steps of storeMasterKey after the environment was set.  WriteFile   *)
(* truncates and then writes, so each file is Torn for a while.            *)
(***************************************************************************)
BackupOpened == bakNow' = Torn /\ UNCHANGED <<sealed, backups>>

BackupWritten == bakNow' = sealed /\ UNCHANGED <<sealed, backups>>

SealedTruncated == sealed' = Torn /\ UNCHANGED <<bakNow, backups>>

\* Mutant: the new key is written to the name of the backup.
BackupWrittenTwice(k) ==
  /\ bakNow' = [key |-> k, host |-> host]
  /\ UNCHANGED <<sealed, backups>>

SealedWritten(k) ==
  /\ sealed' = [key |-> k, host |-> host]
  /\ UNCHANGED <<bakNow, backups>>

\* A second passes: the next backup gets a new name.
NextSecond ==
  /\ bakNow # NoFile
  /\ backups' = backups \cup {bakNow}
  /\ bakNow' = NoFile
  /\ UNCHANGED sealed
=============================================================================
