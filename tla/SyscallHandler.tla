--------------------------- MODULE SyscallHandler ---------------------------
(***************************************************************************)
(* src/syscall_handler.cc, syscall_file.cc and rocksdb.cc: the calls of    *)
(* MariaDB on .frm and db.opt files are redirected to two column families  *)
(* of the encrypted store.  A name is a database and a table, or a         *)
(* database and DbOpt; a temporary file renamed to db.opt ends up in the   *)
(* column family of the .frm files, as OptInFrm.  A write to the store is  *)
(* in memory first and on disk after FlushWAL.  Temporary .frm~ files are  *)
(* in memfs and only enter the store when they are renamed.                *)
(*                                                                         *)
(* A thread makes one call at a time and has one open file at most.  The   *)
(* handler's mutex_ is held over several steps (lock) where another thread *)
(* or a crash could tell; a call that locks it for one step needs it free. *)
(***************************************************************************)
EXTENDS Naturals, Sequences

CONSTANTS
  Dbs,         \* names of databases
  Tables,      \* names of tables
  DbOpt,       \* the file db.opt of a database
  OptInFrm,    \* the key of a db.opt among the .frm files, where only Dir finds it
  LongerName,  \* the pairs of databases the second of which has the first as a proper prefix
  Bytes, Zero, MaxSize, Absent,
  TempContents, \* what is written to temporary files
  Threads,     \* the threads of MariaDB
  NoThread,    \* nobody holds mutex_
  Closed,      \* the thread has no open file
  NoPath,      \* the thread is in no call
  MaxFaults    \* bound on the number of failing store operations

ASSUME NamesAssumption ==
  /\ DbOpt \notin Tables /\ OptInFrm \notin Tables \cup {DbOpt}
  /\ LongerName \subseteq {p \in Dbs \X Dbs : p[1] # p[2]}

ASSUME ContentsAssumption == MaxSize \in Nat /\ TempContents \subseteq UNION {[1..n -> Bytes] : n \in 0..MaxSize}

ASSUME HandlerAssumption ==
  /\ NoThread \notin Threads /\ MaxFaults \in Nat
  /\ Closed \notin [path : [db : Dbs, file : Tables \cup {DbOpt}], offset : 0..MaxSize]

Paths == [db : Dbs, file : Tables \cup {DbOpt}]
Frm == [db : Dbs, file : Tables]

\* The keys of the column family of the .frm files, and of the store.
FrmFamily == [db : Dbs, file : Tables \cup {OptInFrm}]
Entries == Paths \cup FrmFamily

OptOf(p) == [db |-> p.db, file |-> DbOpt]

VARIABLES
  mem,     \* what Get returns for a path
  disk,    \* what the store holds after a crash
  temp,    \* the contents of the temporary file of a path
  fd,      \* the open file of each thread: struct File
  pc,      \* the next step of each thread
  path,    \* the path a call works on (oldpath of a rename)
  target,  \* newpath of a rename
  val,     \* the value a call is about to store
  cnt,     \* the number of bytes of a write
  lock,    \* the thread that holds mutex_
  faults   \* failed operations so far

FS == INSTANCE PersistentFs WITH Files <- Entries, Temps <- Frm, files <- disk

storeVars == <<mem, disk, temp>>
argVars == <<path, target, val, cnt>>
vars == <<mem, disk, temp, fd, pc, path, target, val, cnt, lock, faults>>

Exists(p) == mem[p] # Absent

\* The numbers of bytes Read may return at an offset: none at the end of the file or if it is gone.
ReadCounts(p, off) == IF Exists(p) THEN 1..(Len(mem[p]) - off) ELSE {}

\* ReadFile of a temporary file: one that is missing or empty is an error.
TempReadable(p) == temp[p] # Absent /\ temp[p] # <<>>

Goto(t, label) == pc' = [pc EXCEPT ![t] = label]

Fault == faults < MaxFaults /\ faults' = faults + 1

\* t takes mutex_ for the rest of its call.
Locked(t) == lock = NoThread /\ lock' = t

\* The call returns: its locals are gone and a lock_guard it holds is released.
Return(t) ==
  /\ Goto(t, "idle")
  /\ path' = [path EXCEPT ![t] = NoPath] /\ target' = [target EXCEPT ![t] = NoPath]
  /\ val' = [val EXCEPT ![t] = <<>>] /\ cnt' = [cnt EXCEPT ![t] = 0]
  /\ lock' = IF lock = t THEN NoThread ELSE lock

Init ==
  /\ mem = [p \in Entries |-> Absent] /\ disk = mem
  /\ temp = [p \in Frm |-> Absent]
  /\ fd = [t \in Threads |-> Closed]
  /\ pc = [t \in Threads |-> "idle"]
  /\ path = [t \in Threads |-> NoPath] /\ target = path
  /\ val = [t \in Threads |-> <<>>] /\ cnt = [t \in Threads |-> 0]
  /\ lock = NoThread /\ faults = 0

(***************************************************************************)
(* Open: without O_CREAT the file must exist, a .frm file needs a db.opt   *)
(* in any case.  Nothing is created before the first write.                *)
(***************************************************************************)
Open(t, creat) ==
  /\ pc[t] = "idle" /\ fd[t] = Closed
  /\ \E p \in Paths :
       /\ path' = [path EXCEPT ![t] = p]
       /\ Goto(t, IF ~creat THEN "openExists" ELSE IF p \in Frm THEN "openDb" ELSE "openFd")
  /\ UNCHANGED <<storeVars, fd, target, val, cnt, lock, faults>>

OpenExists(t) ==
  /\ pc[t] = "openExists" /\ lock = NoThread
  /\ IF Exists(path[t])
     THEN Goto(t, IF path[t] \in Frm THEN "openDb" ELSE "openFd") /\ UNCHANGED <<argVars, lock>>
     ELSE Return(t)
  /\ UNCHANGED <<storeVars, fd, faults>>

OpenDb(t) ==
  /\ pc[t] = "openDb" /\ lock = NoThread
  /\ IF Exists(OptOf(path[t]))
     THEN Goto(t, "openFd") /\ UNCHANGED <<argVars, lock>>
     ELSE Return(t)
  /\ UNCHANGED <<storeVars, fd, faults>>

\* RedirectOpenFile; the table of descriptors may be full.
RedirectOpenFile(t) ==
  /\ pc[t] = "openFd"
  /\ \/ fd' = [fd EXCEPT ![t] = [path |-> path[t], offset |-> 0]] /\ UNCHANGED faults
     \/ Fault /\ UNCHANGED fd
  /\ Return(t)
  /\ UNCHANGED <<storeVars>>

(***************************************************************************)
(* file_read, file_lseek and file_close.  A read of a file that is gone is *)
(* an error and leaves the offset alone.                                   *)
(***************************************************************************)
FileRead(t) ==
  /\ pc[t] = "idle" /\ fd[t] # Closed /\ lock = NoThread
  /\ \E n \in ReadCounts(fd[t].path, fd[t].offset) : fd' = [fd EXCEPT ![t].offset = @ + n]
  /\ UNCHANGED <<storeVars, pc, argVars, lock, faults>>

FileLseek(t) ==
  /\ pc[t] = "idle" /\ fd[t] # Closed
  /\ \E off \in 0..MaxSize : fd' = [fd EXCEPT ![t].offset = off]
  /\ UNCHANGED <<storeVars, pc, argVars, lock, faults>>

FileClose(t) ==
  /\ pc[t] = "idle" /\ fd[t] # Closed
  /\ fd' = [fd EXCEPT ![t] = Closed]
  /\ UNCHANGED <<storeVars, pc, argVars, lock, faults>>

\* Mutant: Write starts from an empty value instead of the one in the store.
WriteTruncates(t) ==
  /\ pc[t] = "idle" /\ fd[t] # Closed
  /\ Locked(t)
  /\ \E buf \in FS!Buffers(fd[t].offset) :
       /\ val' = [val EXCEPT ![t] = FS!Overwrite(Absent, fd[t].offset, buf)]
       /\ cnt' = [cnt EXCEPT ![t] = Len(buf)]
  /\ path' = [path EXCEPT ![t] = fd[t].path] /\ target' = [target EXCEPT ![t] = fd[t].path]
  /\ Goto(t, "writePut")
  /\ UNCHANGED <<storeVars, fd, faults>>

\* file_write up to the Put: the value is read, extended and changed under mutex_.
FileWrite(t) ==
  /\ pc[t] = "idle" /\ fd[t] # Closed
  /\ Locked(t)
  /\ \E buf \in FS!Buffers(fd[t].offset) :
       /\ val' = [val EXCEPT ![t] = FS!Overwrite(mem[fd[t].path], fd[t].offset, buf)]
       /\ cnt' = [cnt EXCEPT ![t] = Len(buf)]
  /\ path' = [path EXCEPT ![t] = fd[t].path] /\ target' = [target EXCEPT ![t] = fd[t].path]
  /\ Goto(t, "writePut")
  /\ UNCHANGED <<storeVars, fd, faults>>

\* Mutant: Rename does not check that the old file exists.
RenameAbsent(t) ==
  /\ pc[t] = "idle" /\ lock = NoThread
  /\ \E p, q \in Frm :
       /\ path' = [path EXCEPT ![t] = p] /\ target' = [target EXCEPT ![t] = q]
       /\ val' = [val EXCEPT ![t] = mem[p]]
  /\ Locked(t)
  /\ Goto(t, "renamePut")
  /\ UNCHANGED <<storeVars, fd, cnt, faults>>

\* Mutant: Rename deletes the old file before it puts the new one.
RenameDeletesFirst(t) ==
  /\ pc[t] = "idle" /\ lock = NoThread
  /\ \E p, q \in Frm :
       /\ Exists(p)
       /\ path' = [path EXCEPT ![t] = p] /\ target' = [target EXCEPT ![t] = q]
       /\ val' = [val EXCEPT ![t] = mem[p]]
       /\ mem' = [mem EXCEPT ![p] = Absent]
  /\ Locked(t)
  /\ Goto(t, "renamePut")
  /\ UNCHANGED <<disk, temp, fd, cnt, faults>>

(***************************************************************************)
(* Rename of two .frm files, which the code does not require to differ.  A *)
(* missing old file is an error, like a temporary one missing or empty.    *)
(***************************************************************************)
Rename(t) ==
  /\ pc[t] = "idle" /\ lock = NoThread
  /\ \E p, q \in Frm :
       /\ Exists(p)
       /\ path' = [path EXCEPT ![t] = p] /\ target' = [target EXCEPT ![t] = q]
       /\ val' = [val EXCEPT ![t] = mem[p]]
  /\ Locked(t)
  /\ Goto(t, "renamePut")
  /\ UNCHANGED <<storeVars, fd, cnt, faults>>

\* The new name may be a .frm or db.opt: either goes to the column family of the .frm files.
RenameTemp(t) ==
  /\ pc[t] = "idle" /\ lock = NoThread
  /\ \E p \in Frm, q \in FrmFamily :
       /\ TempReadable(p)
       /\ path' = [path EXCEPT ![t] = p] /\ target' = [target EXCEPT ![t] = q]
       /\ val' = [val EXCEPT ![t] = temp[p]]
  /\ Locked(t)
  /\ Goto(t, "importPut")
  /\ UNCHANGED <<storeVars, fd, cnt, faults>>

(***************************************************************************)
(* The redirection lets a write to a temporary file, and its unlink,       *)
(* through to memfs.  The server does either before or after it renames    *)
(* the file, not at the same time.                                         *)
(***************************************************************************)
TempWrite(t) ==
  /\ pc[t] = "idle"
  /\ \E p \in Frm, c \in TempContents \cup {Absent} :
       /\ \A u \in Threads : pc[u] \in {"importPut", "importFlush"} => path[u] # p
       /\ temp' = [temp EXCEPT ![p] = c]
  /\ UNCHANGED <<mem, disk, fd, pc, argVars, lock, faults>>

Unlink(t) ==
  /\ pc[t] = "idle"
  /\ Locked(t)
  /\ \E p \in Paths : path' = [path EXCEPT ![t] = p]
  /\ Goto(t, "unlinkDelete")
  /\ UNCHANGED <<storeVars, fd, target, val, cnt, faults>>

(***************************************************************************)
(* RocksDB::Put and RocksDB::Delete: the operation, or an exception that   *)
(* ends the call, then FlushWAL, the result of which is ignored.           *)
(***************************************************************************)
PutLabels == {"writePut", "renamePut", "importPut"}
DeleteLabels == {"renameDelete", "unlinkDelete"}

AfterPut == [writePut |-> "writeFlush", renamePut |-> "renameFlush", importPut |-> "importFlush"]

Put(t) ==
  /\ pc[t] \in PutLabels
  /\ mem' = [mem EXCEPT ![target[t]] = val[t]]
  /\ Goto(t, AfterPut[pc[t]])
  /\ UNCHANGED <<disk, temp, fd, argVars, lock, faults>>

Delete(t) ==
  /\ pc[t] \in DeleteLabels
  /\ mem' = [mem EXCEPT ![path[t]] = Absent]
  /\ Goto(t, "deleteFlush")
  /\ UNCHANGED <<disk, temp, fd, argVars, lock, faults>>

\* Mutant: an exception of the store does not end the call.
ErrorIgnored(t) ==
  /\ pc[t] \in PutLabels \cup DeleteLabels
  /\ Fault
  /\ Goto(t, IF pc[t] \in PutLabels THEN AfterPut[pc[t]] ELSE "deleteFlush")
  /\ UNCHANGED <<storeVars, fd, argVars, lock>>

StoreFails(t) ==
  /\ pc[t] \in PutLabels \cup DeleteLabels
  /\ Fault
  /\ Return(t)
  /\ UNCHANGED <<storeVars, fd>>

\* Mutant: the write-ahead log is not flushed.
NoFlush == UNCHANGED <<disk, faults>>

FlushWAL == \/ disk' = mem /\ UNCHANGED faults
            \/ Fault /\ UNCHANGED disk

\* The end of file_write: the offset advances by what was written.
WriteFlush(t) ==
  /\ pc[t] = "writeFlush" /\ FlushWAL
  /\ fd' = [fd EXCEPT ![t].offset = @ + cnt[t]]
  /\ Return(t)
  /\ UNCHANGED <<mem, temp>>

RenameFlush(t) ==
  /\ pc[t] = "renameFlush" /\ FlushWAL
  /\ Goto(t, "renameDelete")
  /\ UNCHANGED <<mem, temp, fd, argVars, lock>>

\* The end of the rename of a temporary file: it is removed from memfs.
ImportFlush(t) ==
  /\ pc[t] = "importFlush" /\ FlushWAL
  /\ temp' = [temp EXCEPT ![path[t]] = Absent]
  /\ Return(t)
  /\ UNCHANGED <<mem, fd>>

DeleteFlush(t) ==
  /\ pc[t] = "deleteFlush" /\ FlushWAL
  /\ Return(t)
  /\ UNCHANGED <<mem, temp, fd>>

\* The process dies: what was not flushed and everything in memfs is gone.
Crash ==
  /\ mem' = disk
  /\ temp' = [p \in Frm |-> Absent]
  /\ fd' = [t \in Threads |-> Closed]
  /\ pc' = [t \in Threads |-> "idle"]
  /\ path' = [t \in Threads |-> NoPath] /\ target' = path'
  /\ val' = [t \in Threads |-> <<>>] /\ cnt' = [t \in Threads |-> 0]
  /\ lock' = NoThread
  /\ UNCHANGED <<disk, faults>>

Step(t) ==
  \/ \E creat \in BOOLEAN : Open(t, creat)
  \/ OpenExists(t) \/ OpenDb(t) \/ RedirectOpenFile(t)
  \/ FileRead(t) \/ FileLseek(t) \/ FileClose(t) \/ FileWrite(t)
  \/ Rename(t) \/ RenameTemp(t) \/ TempWrite(t) \/ Unlink(t)
  \/ Put(t) \/ Delete(t) \/ StoreFails(t)
  \/ WriteFlush(t) \/ RenameFlush(t) \/ ImportFlush(t) \/ DeleteFlush(t)

Next == Crash \/ \E t \in Threads : Step(t)

Spec == Init /\ [][Next]_vars

\* The .frm keys in the store that begin with the name of a folder.
GetKeys(d, slash) ==
  {p \in FrmFamily : Exists(p) /\ (p.db = d \/ (~slash /\ <<d, p.db>> \in LongerName))}

\* Dir: the files of a folder, which may be named with or without a slash.
Dir(d, slash) == {p.file : p \in GetKeys(d, slash)}

(***************************************************************************)
(*                              Properties                                 *)
(***************************************************************************)
Labels == {"idle", "openExists", "openDb", "openFd", "writeFlush", "renameFlush", "importFlush", "deleteFlush"}
            \cup PutLabels \cup DeleteLabels

\* Every variable has its type; in particular no file grows beyond what was written to it.
TypeOK ==
  /\ mem \in [Entries -> FS!Contents \cup {Absent}] /\ disk \in [Entries -> FS!Contents \cup {Absent}]
  /\ temp \in [Frm -> FS!Contents \cup {Absent}]
  /\ fd \in [Threads -> [path : Paths, offset : 0..MaxSize] \cup {Closed}]
  /\ pc \in [Threads -> Labels]
  /\ path \in [Threads -> Paths \cup {NoPath}] /\ target \in [Threads -> Entries \cup {NoPath}]
  /\ val \in [Threads -> FS!Contents] /\ cnt \in [Threads -> 0..MaxSize]
  /\ lock \in Threads \cup {NoThread}
  /\ faults \in 0..MaxFaults

(***************************************************************************)
(* What a finished call stored is on disk: between calls the store in      *)
(* memory and the one a crash leaves are the same (Put and Delete flush    *)
(* the log before mutex_ is released).                                     *)
(***************************************************************************)
FinishedCallsAreDurable == lock = NoThread /\ faults = 0 => disk = mem

(***************************************************************************)
(* A table that gets another name has one of the two at every moment, in   *)
(* the store and, unless a flush failed, on disk (Rename puts the new one  *)
(* and flushes before it deletes the old one).                             *)
(***************************************************************************)
RenameKeepsTable ==
  \A t \in Threads :
    path[t] # target[t] /\ target[t] # NoPath
      /\ pc[t] \in {"renamePut", "renameFlush", "renameDelete", "deleteFlush"}
      => /\ val[t] \in {mem[path[t]], mem[target[t]]}
         /\ faults = 0 => val[t] \in {disk[path[t]], disk[target[t]]}

(***************************************************************************)
(* The store implements PersistentFs: every call takes effect at once, on  *)
(* the latest contents of one file, and a crash changes nothing.           *)
(***************************************************************************)
FsRefinement == FS!Spec

\* Dir returns the tables of the directory, whichever way it is named.
DirListsFolder ==
  \A d \in Dbs, slash \in BOOLEAN :
    Dir(d, slash) \cap Tables = {f \in Tables : Exists([db |-> d, file |-> f])}
=============================================================================
