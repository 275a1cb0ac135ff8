------------------------ MODULE SyscallHandlerProofs ------------------------
(***************************************************************************)
(* The redirected files, for any number of threads, databases, tables and  *)
(* bytes: a rename never loses a table, and while no operation of the      *)
(* store fails, finished calls are durable and the store implements        *)
(* PersistentFs.  The properties are not inductive: CallInv adds what the  *)
(* one thread with mutex_ has changed so far, in memory and on disk.       *)
(***************************************************************************)
EXTENDS SyscallHandlerTypes

\* What a call has done to the store in memory.
InMemory(t) ==
  /\ pc[t] = "renamePut" => val[t] = mem[path[t]]
  /\ pc[t] \in {"renameFlush", "renameDelete"} => mem[target[t]] = val[t]
  /\ pc[t] = "deleteFlush" /\ target[t] # NoPath /\ path[t] # target[t] => mem[target[t]] = val[t] /\ target[t] \in Entries
  /\ pc[t] \in {"importPut", "importFlush"} => temp[path[t]] = val[t] /\ temp[path[t]] # Absent

\* What a call has done to the store on disk: exactly one write is not flushed, its own.
OnDisk(t) ==
  /\ pc[t] \in {"writePut", "writeFlush"} =>
       /\ target[t] = path[t]
       /\ \E buf \in FS!Buffers(fd[t].offset) : val[t] = FS!Overwrite(disk[path[t]], fd[t].offset, buf)
  /\ pc[t] \in {"renamePut", "renameFlush"} => val[t] = disk[path[t]] /\ disk[path[t]] # Absent
  /\ pc[t] \in {"renameDelete", "deleteFlush"} /\ target[t] # NoPath /\ path[t] # target[t] => disk[target[t]] = val[t]
  /\ pc[t] \in {"writeFlush", "renameFlush", "importFlush"} => mem = [disk EXCEPT ![target[t]] = val[t]]
  /\ pc[t] = "deleteFlush" => mem = [disk EXCEPT ![path[t]] = Absent]

Flushed == (\A t \in Threads : pc[t] \notin FlushLabels) => mem = disk

CallInv ==
  /\ \A t \in Threads : InMemory(t)
  /\ faults = 0 => Flushed /\ \A t \in Threads : OnDisk(t)

\* No call is in progress at first.
LEMMA CallInit == Init => CallInv
  BY Zenon DEF Init, CallInv, InMemory, OnDisk, Flushed, FlushLabels

\* After a failed operation nothing is said about the disk.
LEMMA FaultCounted ==
  ASSUME TypeOK, Fault
  PROVE  faults' # 0
  BY HandlerAssumption DEF TypeOK, Fault

\* While one thread is about to flush, nothing is claimed of the others.
LEMMA OneFlushing ==
  ASSUME NEW t \in Threads, pc'[t] \in FlushLabels, \A u \in Threads \ {t} : pc'[u] \notin Critical,
         InMemory(t)', faults' = 0 => OnDisk(t)'
  PROVE  CallInv'
<1>1. ASSUME NEW u \in Threads, u # t PROVE InMemory(u)' /\ OnDisk(u)'
  BY <1>1, Zenon DEF InMemory, OnDisk, Critical, PutLabels, DeleteLabels, FlushLabels
<1>2. Flushed'
  BY Zenon DEF Flushed
<1> QED
  BY <1>1, <1>2, Zenon DEF CallInv

\* file_write computes its value from what is in memory, which is what is on disk.
LEMMA WriteBegins ==
  ASSUME Shaped, CallInv, NEW t \in Threads, FileWrite(t)
  PROVE  CallInv'
<1> USE DEF Critical, PutLabels, DeleteLabels, FlushLabels
<1>0. /\ pc \in [Threads -> Labels] /\ path \in [Threads -> Paths \cup {NoPath}]
      /\ target \in [Threads -> Entries \cup {NoPath}] /\ val \in [Threads -> FS!Contents]
  BY Zenon DEF Shaped, TypeOK
<1>1. \A u \in Threads \ {t} : pc'[u] = pc[u] /\ path'[u] = path[u] /\ target'[u] = target[u] /\ val'[u] = val[u]
  BY <1>0, Zenon DEF FileWrite, Goto
<1>2. pc[t] = "idle" /\ pc'[t] = "writePut" /\ UNCHANGED <<mem, disk, temp, fd, faults>>
  BY <1>0, Zenon DEF FileWrite, Goto, storeVars
<1>3. path'[t] = fd[t].path /\ target'[t] = fd[t].path
  BY <1>0, Zenon DEF FileWrite
<1>4. \E buf \in FS!Buffers(fd[t].offset) : val'[t] = FS!Overwrite(mem[path'[t]], fd[t].offset, buf)
  BY <1>0, <1>3, Zenon DEF FileWrite
<1>5. \A u \in Threads : pc[u] \notin FlushLabels
  BY HandlerAssumption, Zenon DEF FileWrite, Locked, Shaped, Shape
<1>6. faults = 0 => mem = disk
  BY <1>5, Zenon DEF CallInv, Flushed
<1>7. InMemory(t)' /\ (faults' = 0 => OnDisk(t)' /\ Flushed')
  BY <1>2, <1>3, <1>4, <1>6, Zenon DEF InMemory, OnDisk, Flushed
<1>8. ASSUME NEW u \in Threads \ {t} PROVE InMemory(u)' /\ (faults' = 0 => OnDisk(u)')
  <2>1. pc'[u] \notin Critical
    BY <1>1, HandlerAssumption, Zenon DEF FileWrite, Locked, Shaped, Shape
  <2> QED
    BY <2>1, Zenon DEF InMemory, OnDisk
<1> QED
  BY <1>7, <1>8, Zenon DEF CallInv

\* Every step keeps what the thread with mutex_ relies on.
LEMMA CallStep == Shaped /\ CallInv /\ [Next]_vars => CallInv'
<1> SUFFICES ASSUME Shaped, CallInv, [Next]_vars PROVE CallInv'
  BY Zenon
<1> USE HandlerAssumption, PathFacts
    DEF Shaped, Shape, TypeOK, CallInv, InMemory, OnDisk, Flushed, PutLabels, DeleteLabels, FlushLabels, OpenLabels,
        Critical, storeVars, argVars, Goto, Locked
<1>1. ASSUME NEW t \in Threads, NEW creat \in BOOLEAN, Open(t, creat) PROVE CallInv'
  BY <1>1 DEF Open
<1>2. ASSUME NEW t \in Threads, OpenExists(t) PROVE CallInv'
  BY <1>2 DEF OpenExists, Return
<1>3. ASSUME NEW t \in Threads, OpenDb(t) PROVE CallInv'
  BY <1>3 DEF OpenDb, Return
<1>4. ASSUME NEW t \in Threads, RedirectOpenFile(t) PROVE CallInv'
  <2>1. \A u \in Threads \ {t} : fd'[u] = fd[u] /\ pc'[u] = pc[u] /\ path'[u] = path[u] /\ target'[u] = target[u] /\ val'[u] = val[u]
    BY <1>4 DEF RedirectOpenFile, Return
  <2>2. pc[t] = "openFd" /\ pc'[t] = "idle" /\ UNCHANGED storeVars /\ (faults' = 0 => faults = 0)
    BY <1>4, FaultCounted DEF RedirectOpenFile, Return
  <2> QED
    BY <2>1, <2>2
<1>5. ASSUME NEW t \in Threads, FileRead(t) PROVE CallInv'
  BY <1>5 DEF FileRead
<1>6. ASSUME NEW t \in Threads, FileLseek(t) PROVE CallInv'
  BY <1>6 DEF FileLseek
<1>7. ASSUME NEW t \in Threads, FileClose(t) PROVE CallInv'
  <2>1. \A u \in Threads \ {t} : fd'[u] = fd[u] /\ pc'[u] = pc[u] /\ path'[u] = path[u] /\ target'[u] = target[u] /\ val'[u] = val[u]
    BY <1>7 DEF FileClose
  <2>2. pc[t] = "idle" /\ pc'[t] = "idle" /\ UNCHANGED storeVars /\ (faults' = 0 => faults = 0)
    BY <1>7, Zenon DEF FileClose
  <2> QED
    BY <2>1, <2>2
<1>8. ASSUME NEW t \in Threads, FileWrite(t) PROVE CallInv'
  BY <1>8, WriteBegins, Zenon
<1>9. ASSUME NEW t \in Threads, Rename(t) PROVE CallInv'
  BY <1>9 DEF Rename, Exists
<1>10. ASSUME NEW t \in Threads, RenameTemp(t) PROVE CallInv'
  BY <1>10 DEF RenameTemp, TempReadable
<1>11. ASSUME NEW t \in Threads, TempWrite(t) PROVE CallInv'
  BY <1>11 DEF TempWrite
<1>12. ASSUME NEW t \in Threads, Unlink(t) PROVE CallInv'
  BY <1>12 DEF Unlink
<1>13. ASSUME NEW t \in Threads, Put(t) PROVE CallInv'
  <2>1. lock = t /\ \A u \in Threads \ {t} : pc[u] \notin Critical /\ pc'[u] = pc[u]
    BY <1>13 DEF Put
  <2>2. faults = 0 => mem = disk
    BY <1>13, <2>1, Zenon DEF Put
  <2>3. UNCHANGED <<disk, temp, fd, argVars, lock, faults>>
    BY <1>13, Zenon DEF Put
  <2>4. CASE pc[t] = "writePut"
    <3>1. pc'[t] = "writeFlush" /\ mem' = [mem EXCEPT ![target[t]] = val[t]]
      BY <1>13, <2>4 DEF Put, AfterPut
    <3>2. InMemory(t)'
      BY <2>3, <2>4, <3>1, Zenon
    <3>3. faults' = 0 => OnDisk(t)'
      BY <2>2, <2>3, <2>4, <3>1, Zenon
    <3> HIDE DEF CallInv, InMemory, OnDisk
    <3> QED
      BY <2>1, <3>1, <3>2, <3>3, OneFlushing, Zenon
  <2>5. CASE pc[t] = "renamePut"
    <3>1. pc'[t] = "renameFlush" /\ mem' = [mem EXCEPT ![target[t]] = val[t]]
      BY <1>13, <2>5 DEF Put, AfterPut
    <3>2. InMemory(t)'
      BY <2>3, <2>5, <3>1, Zenon
    <3>3. faults' = 0 => OnDisk(t)'
      BY <2>2, <2>3, <2>5, <3>1, Zenon
    <3> HIDE DEF CallInv, InMemory, OnDisk
    <3> QED
      BY <2>1, <3>1, <3>2, <3>3, OneFlushing, Zenon
  <2>6. CASE pc[t] = "importPut"
    <3>1. pc'[t] = "importFlush" /\ mem' = [mem EXCEPT ![target[t]] = val[t]]
      BY <1>13, <2>6 DEF Put, AfterPut
    <3>2. InMemory(t)'
      BY <2>3, <2>6, <3>1, Zenon
    <3>3. faults' = 0 => OnDisk(t)'
      BY <2>2, <2>3, <2>6, <3>1, Zenon
    <3> HIDE DEF CallInv, InMemory, OnDisk
    <3> QED
      BY <2>1, <3>1, <3>2, <3>3, OneFlushing, Zenon
  <2> HIDE DEF CallInv
  <2> QED
    BY <1>13, <2>4, <2>5, <2>6, Zenon DEF Put
<1>14. ASSUME NEW t \in Threads, Delete(t) PROVE CallInv'
  <2>1. lock = t /\ \A u \in Threads \ {t} : pc[u] \notin Critical /\ pc'[u] = pc[u]
    BY <1>14 DEF Delete
  <2>2. faults = 0 => mem = disk
    BY <1>14, <2>1, Zenon DEF Delete
  <2>3. UNCHANGED <<disk, temp, fd, argVars, lock, faults>>
    BY <1>14, Zenon DEF Delete
  <2>4. pc'[t] = "deleteFlush" /\ mem' = [mem EXCEPT ![path[t]] = Absent]
    BY <1>14 DEF Delete
  <2>5. pc[t] \in DeleteLabels
    BY <1>14, Zenon DEF Delete
  <2>6. InMemory(t)'
    BY <2>3, <2>4, <2>5, Zenon
  <2>7. faults' = 0 => OnDisk(t)'
    BY <2>2, <2>3, <2>4, <2>5, Zenon
  <2> HIDE DEF CallInv, InMemory, OnDisk
  <2> QED
    BY <2>1, <2>4, <2>6, <2>7, OneFlushing, Zenon
<1>15. ASSUME NEW t \in Threads, StoreFails(t) PROVE CallInv'
  BY <1>15, FaultCounted DEF StoreFails, Return
<1>16. ASSUME NEW t \in Threads, WriteFlush(t) PROVE CallInv'
  BY <1>16, FaultCounted DEF WriteFlush, FlushWAL, Return
<1>17. ASSUME NEW t \in Threads, RenameFlush(t) PROVE CallInv'
  BY <1>17, FaultCounted DEF RenameFlush, FlushWAL
<1>18. ASSUME NEW t \in Threads, ImportFlush(t) PROVE CallInv'
  BY <1>18, FaultCounted DEF ImportFlush, FlushWAL, Return
<1>19. ASSUME NEW t \in Threads, DeleteFlush(t) PROVE CallInv'
  BY <1>19, FaultCounted DEF DeleteFlush, FlushWAL, Return
<1>20. CASE Crash
  BY <1>20, Zenon DEF Crash
<1>21. CASE UNCHANGED vars
  BY <1>21, Zenon DEF vars
<1> HIDE DEF CallInv, Shaped
<1> QED
  BY <1>1, <1>2, <1>3, <1>4, <1>5, <1>6, <1>7, <1>8, <1>9, <1>10, <1>11, <1>12, <1>13, <1>14, <1>15, <1>16, <1>17, <1>18, <1>19, <1>20, <1>21, ZenonT(60)
  DEF Next, Step

(***************************************************************************)
(*                             The theorems                                *)
(***************************************************************************)
HandlerInv == Shaped /\ CallInv

\* The inductive invariant holds of every reachable state.
THEOREM HandlerInvariance == Spec => []HandlerInv
<1>1. Init => HandlerInv
  BY ShapedInit, CallInit, Zenon DEF HandlerInv
<1>2. HandlerInv /\ [Next]_vars => HandlerInv'
  BY ShapedStep, CallStep, Zenon DEF HandlerInv
<1> QED
  BY <1>1, <1>2, PTL DEF Spec

\* What a finished call of the handler stored is on disk, if no operation of the store has failed.
THEOREM CallsDurable == Spec => []FinishedCallsAreDurable
<1>1. HandlerInv => FinishedCallsAreDurable
  BY HandlerAssumption, Zenon DEF HandlerInv, Shaped, Shape, CallInv, Flushed, Critical, FinishedCallsAreDurable
<1> QED
  BY <1>1, HandlerInvariance, PTL

\* Rename keeps the table under one of its two names, also when operations of the store fail.
THEOREM RenameSafe == Spec => []RenameKeepsTable
<1>1. HandlerInv => RenameKeepsTable
  <2> SUFFICES ASSUME HandlerInv, NEW t \in Threads, path[t] # target[t], target[t] # NoPath,
                      pc[t] \in {"renamePut", "renameFlush", "renameDelete", "deleteFlush"}
               PROVE  /\ val[t] \in {mem[path[t]], mem[target[t]]}
                      /\ faults = 0 => val[t] \in {disk[path[t]], disk[target[t]]}
    BY Zenon DEF RenameKeepsTable
  <2>1. InMemory(t) /\ (faults = 0 => OnDisk(t))
    BY Zenon DEF HandlerInv, CallInv
  <2> QED
    BY <2>1, Zenon DEF InMemory, OnDisk
<1> QED
  BY <1>1, HandlerInvariance, PTL

\* Every step is an operation of the file system, or it changes no file.
LEMMA FsStep ==
  ASSUME MaxFaults = 0, HandlerInv, [Next]_vars
  PROVE  [FS!Next]_<<disk, temp>>
<1> SUFFICES FS!Next \/ UNCHANGED <<disk, temp>>
  BY Zenon
<1>0. faults = 0 /\ ~Fault
  BY DEF HandlerInv, Shaped, TypeOK, Fault
<1>1. \A t \in Threads : InMemory(t) /\ OnDisk(t) /\ Shape(t)
  BY <1>0, Zenon DEF HandlerInv, Shaped, CallInv
<1>2. ASSUME NEW t \in Threads, TempWrite(t) PROVE FS!Next
  <2>1. PICK p \in Frm, c \in TempContents \cup {Absent} : temp' = [temp EXCEPT ![p] = c] /\ UNCHANGED disk
    BY <1>2, Zenon DEF TempWrite
  <2> QED
    BY <2>1, TempContentsType, Zenon DEF FS!Next, FS!WriteTemp, FS!RemoveTemp
<1>3. ASSUME NEW t \in Threads, WriteFlush(t) PROVE FS!Next
  <2>1. /\ path[t] \in Paths /\ target[t] = path[t]
        /\ mem = [disk EXCEPT ![path[t]] = val[t]] /\ disk' = mem /\ temp' = temp
    BY <1>0, <1>1, <1>3, Zenon DEF WriteFlush, FlushWAL, OnDisk, Shape, OpenLabels, Critical, FlushLabels
  <2>2. fd[t].offset \in 0..MaxSize
    <3>1. pc[t] = "writeFlush"
      BY <1>3, Zenon DEF WriteFlush
    <3> QED
      BY <1>1, <3>1, Zenon DEF Shape, HandlerInv, Shaped, TypeOK
  <2>3. PICK buf \in FS!Buffers(fd[t].offset) : val[t] = FS!Overwrite(disk[path[t]], fd[t].offset, buf)
    BY <1>1, <1>3, Zenon DEF WriteFlush, OnDisk
  <2>4. FS!Write(path[t])
    BY <2>1, <2>2, <2>3, Zenon DEF FS!Write
  <2> QED
    BY <2>1, <2>4, PathFacts, Zenon DEF FS!Next
<1>4. ASSUME NEW t \in Threads, RenameFlush(t) PROVE FS!Next
  <2>1. /\ path[t] \in Paths /\ target[t] \in Entries /\ temp' = temp
        /\ disk' = [disk EXCEPT ![target[t]] = disk[path[t]]] /\ disk[path[t]] # Absent
    BY <1>0, <1>1, <1>4 DEF RenameFlush, FlushWAL, OnDisk, Shape, OpenLabels, Critical, FlushLabels
  <2> QED
    BY <2>1, PathFacts, Zenon DEF FS!Next, FS!Link
<1>5. ASSUME NEW t \in Threads, ImportFlush(t) PROVE FS!Next
  <2>1. /\ path[t] \in Frm /\ target[t] \in Entries /\ temp[path[t]] # Absent
        /\ disk' = [disk EXCEPT ![target[t]] = temp[path[t]]]
        /\ temp' = [temp EXCEPT ![path[t]] = Absent]
    BY <1>0, <1>1, <1>5, Zenon DEF ImportFlush, FlushWAL, InMemory, OnDisk, Shape
  <2> QED
    BY <2>1, Zenon DEF FS!Next, FS!Import
<1>6. ASSUME NEW t \in Threads, DeleteFlush(t) PROVE FS!Next
  <2>1. path[t] \in Paths /\ disk' = [disk EXCEPT ![path[t]] = Absent] /\ temp' = temp
    BY <1>0, <1>1, <1>6, Zenon DEF DeleteFlush, FlushWAL, OnDisk, Shape, OpenLabels, Critical, FlushLabels
  <2> QED
    BY <2>1, PathFacts, Zenon DEF FS!Next, FS!Remove
<1>7. CASE Crash
  BY <1>7, Zenon DEF Crash, FS!Next, FS!Crash
<1>8. ASSUME NEW t \in Threads, Step(t),
             ~(TempWrite(t) \/ WriteFlush(t) \/ RenameFlush(t) \/ ImportFlush(t) \/ DeleteFlush(t))
      PROVE  UNCHANGED <<disk, temp>>
  BY <1>8, Zenon DEF Step, storeVars, Open, OpenExists, OpenDb, RedirectOpenFile, FileRead, FileLseek, FileClose,
     FileWrite, Rename, RenameTemp, Unlink, Put, Delete, StoreFails
<1>9. CASE UNCHANGED vars
  BY <1>9, Zenon DEF vars
<1> QED
  BY <1>2, <1>3, <1>4, <1>5, <1>6, <1>7, <1>8, <1>9, Zenon DEF Next

(***************************************************************************)
(* While no operation of the store fails, the redirected files behave like *)
(* files whose operations are atomic and survive a crash, for any threads. *)
(***************************************************************************)
THEOREM ImplementsFs ==
  ASSUME MaxFaults = 0
  PROVE  Spec => FsRefinement
<1>1. Init => FS!Init
  BY Zenon DEF Init, FS!Init
<1>2. HandlerInv /\ [Next]_vars => [FS!Next]_<<disk, temp>>
  BY FsStep, Zenon
<1> QED
  BY <1>1, <1>2, HandlerInvariance, PTL DEF Spec, FsRefinement, FS!Spec
=============================================================================
