------------------------ MODULE SyscallHandlerTypes -------------------------
(***************************************************************************)
(* Type correctness of SyscallHandler and who holds mutex_, for any number *)
(* of threads, databases, tables and bytes: the first layer of the         *)
(* invariant of SyscallHandlerProofs.                                      *)
(***************************************************************************)
EXTENDS SyscallHandler, TLAPS

OpenLabels == {"openExists", "openDb", "openFd"}
FlushLabels == {"writeFlush", "renameFlush", "importFlush", "deleteFlush"}

\* The steps a thread takes with mutex_ held.
Critical == PutLabels \cup DeleteLabels \cup FlushLabels

\* What a thread has set up for the step it is about to take.
Shape(t) ==
  /\ pc[t] \in Critical <=> lock = t
  /\ pc[t] \in OpenLabels \cup Critical => path[t] \in Paths
  /\ pc[t] \in PutLabels \cup {"writeFlush", "renameFlush", "importFlush", "renameDelete"} => target[t] \in Entries
  /\ pc[t] \in {"importPut", "importFlush"} => path[t] \in Frm
  /\ pc[t] \in {"writePut", "writeFlush"} => fd[t] # Closed /\ fd[t].offset + cnt[t] <= MaxSize
  /\ pc[t] \in OpenLabels \cup {"idle", "unlinkDelete"} => target[t] = NoPath

Shaped == TypeOK /\ \A t \in Threads : Shape(t)

\* A table's file is a file, and so is the db.opt of its database; each has an entry in the store.
LEMMA PathFacts ==
  /\ Frm \subseteq Paths /\ Frm \subseteq FrmFamily /\ Paths \subseteq Entries /\ FrmFamily \subseteq Entries
  /\ \A p \in Paths : OptOf(p) \in Paths
  BY Zenon DEF Frm, FrmFamily, Paths, Entries, OptOf

\* The contents of a file are a sequence of at most MaxSize bytes.
LEMMA ContentsFacts ==
  ASSUME NEW c \in FS!Contents
  PROVE  c \in Seq(Bytes \cup {Zero}) /\ Len(c) \in 0..MaxSize /\ c \in [1..Len(c) -> Bytes \cup {Zero}]
<1>1. PICK n \in 0..MaxSize : c \in [1..n -> Bytes \cup {Zero}]
  BY Zenon DEF FS!Contents
<1>2. n \in Nat
  BY ContentsAssumption
<1>3. c \in Seq(Bytes \cup {Zero}) /\ Len(c) = n
  BY <1>1, <1>2
<1> QED
  BY <1>1, <1>3, Zenon

\* A buffer is a sequence that ends within the bound.
LEMMA BufferFacts ==
  ASSUME NEW off \in 0..MaxSize, NEW buf \in FS!Buffers(off)
  PROVE  Len(buf) \in 0..(MaxSize - off) /\ buf \in [1..Len(buf) -> Bytes]
<1>1. PICK n \in 0..(MaxSize - off) : buf \in [1..n -> Bytes]
  BY Zenon DEF FS!Buffers
<1>2. n \in Nat
  BY ContentsAssumption
<1>3. Len(buf) = n
  BY <1>1, <1>2
<1> QED
  BY <1>1, <1>3, Zenon

\* Bytes written within the bound leave contents within the bound, gaps filled.
LEMMA OverwriteType ==
  ASSUME NEW old \in FS!Contents \cup {Absent}, NEW off \in 0..MaxSize, NEW buf \in FS!Buffers(off)
  PROVE  FS!Overwrite(old, off, buf) \in FS!Contents
<1> DEFINE was == IF old = Absent THEN <<>> ELSE old
           n == Len(buf)
           size == IF Len(was) < off + n THEN off + n ELSE Len(was)
<1>1. was \in Seq(Bytes \cup {Zero}) /\ Len(was) \in 0..MaxSize
  BY ContentsFacts, ContentsAssumption
<1>2. n \in 0..(MaxSize - off) /\ buf \in [1..n -> Bytes]
  BY BufferFacts, Zenon
<1> HIDE DEF n
<1>3. size \in 0..MaxSize
  BY <1>1, <1>2, ContentsAssumption
<1>4. \A i \in (off + 1)..(off + n) : buf[i - off] \in Bytes
  BY <1>2, ContentsAssumption
<1>5. \A i \in 1..size : i <= Len(was) => was[i] \in Bytes \cup {Zero}
  BY <1>1, <1>3
<1>7. FS!Overwrite(old, off, buf)
        = [i \in 1..size |-> IF i \in (off + 1)..(off + n) THEN buf[i - off]
                             ELSE IF i <= Len(was) THEN was[i] ELSE Zero]
  BY Zenon DEF FS!Overwrite, was, size, n
<1> HIDE DEF was, size
<1>6. [i \in 1..size |-> IF i \in (off + 1)..(off + n) THEN buf[i - off]
                         ELSE IF i <= Len(was) THEN was[i] ELSE Zero] \in [1..size -> Bytes \cup {Zero}]
  BY <1>4, <1>5, Zenon
<1> QED
  BY <1>3, <1>6, <1>7, Zenon DEF FS!Contents

\* What is written to a temporary file is contents of a file.
LEMMA TempContentsType == TempContents \subseteq FS!Contents
  BY ContentsAssumption DEF FS!Contents

\* An empty file is contents of a file.
LEMMA EmptyContents == <<>> \in FS!Contents
<1>1. <<>> \in [1..0 -> Bytes \cup {Zero}] /\ 0 \in 0..MaxSize
  BY ContentsAssumption
<1> QED
  BY <1>1, Zenon DEF FS!Contents

\* An open file is one at any offset within the bound.
LEMMA OffsetMoved ==
  ASSUME NEW f \in [path : Paths, offset : 0..MaxSize], NEW o \in 0..MaxSize
  PROVE  [f EXCEPT !.offset = o] \in [path : Paths, offset : 0..MaxSize]
  BY Zenon

\* A thread has opened a file, or has another one open.
LEMMA FdUpdated ==
  ASSUME NEW fds \in [Threads -> [path : Paths, offset : 0..MaxSize] \cup {Closed}], NEW t \in Threads,
         NEW f \in [path : Paths, offset : 0..MaxSize]
  PROVE  [fds EXCEPT ![t] = f] \in [Threads -> [path : Paths, offset : 0..MaxSize] \cup {Closed}]
  BY Zenon

\* A call that returns leaves its own state well typed.
LEMMA ReturnTypes ==
  ASSUME TypeOK, NEW t \in Threads, Return(t)
  PROVE  /\ pc' \in [Threads -> Labels]
         /\ path' \in [Threads -> Paths \cup {NoPath}] /\ target' \in [Threads -> Entries \cup {NoPath}]
         /\ val' \in [Threads -> FS!Contents] /\ cnt' \in [Threads -> 0..MaxSize]
         /\ lock' \in Threads \cup {NoThread}
<1>1. 0 \in 0..MaxSize
  BY ContentsAssumption
<1> QED
  BY <1>1, EmptyContents, Zenon DEF TypeOK, Return, Goto, Labels

\* Nothing is open and nothing is stored at first.
LEMMA ShapedInit == Init => Shaped
<1>1. 0 \in 0..MaxSize /\ 0 \in 0..MaxFaults
  BY HandlerAssumption, ContentsAssumption
<1>2. Init => TypeOK
  BY <1>1, EmptyContents, Zenon DEF Init, TypeOK, Labels
<1>3. ASSUME Init, NEW t \in Threads PROVE Shape(t)
  BY <1>3, HandlerAssumption, Zenon
  DEF Init, Shape, PutLabels, DeleteLabels, FlushLabels, OpenLabels, Critical
<1> QED
  BY <1>2, <1>3, Zenon DEF Shaped

\* An Open that fails leaves everything well typed.
LEMMA OpenReturns ==
  ASSUME Shaped, NEW t \in Threads, pc[t] \in OpenLabels, Return(t), UNCHANGED <<storeVars, fd, faults>>
  PROVE  Shaped'
<1>1. lock # t
  BY Zenon DEF Shaped, Shape, Critical, OpenLabels, PutLabels, DeleteLabels, FlushLabels
<1>2. TypeOK'
  BY ReturnTypes, Zenon DEF Shaped, TypeOK, storeVars
<1>3. Shape(t)'
  BY <1>1, Zenon DEF Shaped, TypeOK, Shape, Return, Goto, Critical, OpenLabels, PutLabels, DeleteLabels, FlushLabels
<1>4. ASSUME NEW u \in Threads \ {t} PROVE Shape(u)'
  BY <1>1, <1>4, Zenon DEF Shaped, TypeOK, Shape, Return, Goto
<1> QED
  BY <1>2, <1>3, <1>4, Zenon DEF Shaped

\* An Open that goes on leaves everything well typed.
LEMMA OpenGoesOn ==
  ASSUME Shaped, NEW t \in Threads, pc[t] \in OpenLabels, NEW label \in OpenLabels, Goto(t, label),
         UNCHANGED <<storeVars, fd, argVars, lock, faults>>
  PROVE  Shaped'
<1>1. pc' \in [Threads -> Labels]
  BY Zenon DEF Shaped, TypeOK, Goto, Labels, OpenLabels
<1>2. TypeOK'
  BY <1>1, Zenon DEF Shaped, TypeOK, storeVars, argVars
<1>3. Shape(t)'
  BY Zenon DEF Shaped, TypeOK, Shape, Goto, argVars, Critical, OpenLabels, PutLabels, DeleteLabels, FlushLabels
<1>4. ASSUME NEW u \in Threads \ {t} PROVE Shape(u)'
  BY <1>4, Zenon DEF Shaped, TypeOK, Shape, Goto, argVars
<1> QED
  BY <1>2, <1>3, <1>4, Zenon DEF Shaped

\* Every step keeps the types, and mutex_ is held exactly in the critical steps.
LEMMA ShapedStep == Shaped /\ [Next]_vars => Shaped'
<1> SUFFICES ASSUME Shaped, [Next]_vars PROVE Shaped'
  BY Zenon
<1> USE HandlerAssumption, ContentsAssumption, PathFacts
    DEF Shaped, Shape, TypeOK, Labels, PutLabels, DeleteLabels, FlushLabels, OpenLabels, Critical,
        storeVars, argVars, Goto, Locked
<1>0. <<>> \in FS!Contents /\ 0 \in 0..MaxSize
  BY EmptyContents
<1>1. ASSUME NEW t \in Threads, NEW creat \in BOOLEAN, Open(t, creat) PROVE Shaped'
  BY <1>1 DEF Open
<1>2. ASSUME NEW t \in Threads, OpenExists(t) PROVE Shaped'
  <2>1. CASE Exists(path[t])
    BY <1>2, <2>1, OpenGoesOn, Zenon DEF OpenExists
  <2>2. CASE ~Exists(path[t])
    BY <1>2, <2>2, OpenReturns, Zenon DEF OpenExists
  <2> QED
    BY <2>1, <2>2, Zenon
<1>3. ASSUME NEW t \in Threads, OpenDb(t) PROVE Shaped'
  <2>1. CASE Exists(OptOf(path[t]))
    BY <1>3, <2>1, OpenGoesOn, Zenon DEF OpenDb
  <2>2. CASE ~Exists(OptOf(path[t]))
    BY <1>3, <2>2, OpenReturns, Zenon DEF OpenDb
  <2> QED
    BY <2>1, <2>2, Zenon
<1>4. ASSUME NEW t \in Threads, RedirectOpenFile(t) PROVE Shaped'
  <2>1. path[t] \in Paths /\ lock # t
    BY <1>4, Zenon DEF RedirectOpenFile
  <2>2. fd' \in [Threads -> [path : Paths, offset : 0..MaxSize] \cup {Closed}] /\ faults' \in 0..MaxFaults
    <3>1. faults' \in 0..MaxFaults
      BY <1>4 DEF RedirectOpenFile, Fault
    <3>2. 0 \in 0..MaxSize
      BY <1>0, Zenon
    <3>3. [path |-> path[t], offset |-> 0] \in [path : Paths, offset : 0..MaxSize]
      BY <2>1, <3>2, Zenon
    <3>4. fd' = [fd EXCEPT ![t] = [path |-> path[t], offset |-> 0]] \/ fd' = fd
      BY <1>4, Zenon DEF RedirectOpenFile
    <3>5. fd \in [Threads -> [path : Paths, offset : 0..MaxSize] \cup {Closed}]
      BY Zenon
    <3>6. [fd EXCEPT ![t] = [path |-> path[t], offset |-> 0]]
            \in [Threads -> [path : Paths, offset : 0..MaxSize] \cup {Closed}]
      BY <3>3, <3>5, FdUpdated, Zenon
    <3> QED
      BY <3>1, <3>4, <3>5, <3>6, Zenon
  <2>3. \A u \in Threads \ {t} : fd'[u] = fd[u]
    BY <1>4, Zenon DEF RedirectOpenFile
  <2>4. TypeOK'
    <3>1. UNCHANGED storeVars /\ Return(t)
      BY <1>4, Zenon DEF RedirectOpenFile
    <3> QED
      BY <2>2, <3>1, ReturnTypes, Zenon
  <2>5. Shape(t)'
    BY <1>4, <2>1, Zenon DEF RedirectOpenFile, Return
  <2>6. ASSUME NEW u \in Threads \ {t} PROVE Shape(u)'
    BY <1>4, <2>1, <2>3, Zenon DEF RedirectOpenFile, Return
  <2> QED
    BY <2>4, <2>5, <2>6
<1>5. ASSUME NEW t \in Threads, FileRead(t) PROVE Shaped'
  <2>1. PICK n \in ReadCounts(fd[t].path, fd[t].offset) : fd' = [fd EXCEPT ![t].offset = @ + n]
    BY <1>5, Zenon DEF FileRead
  <2>2. fd[t] \in [path : Paths, offset : 0..MaxSize]
    BY <1>5, Zenon DEF FileRead
  <2>3. mem[fd[t].path] \in FS!Contents /\ n \in 1..(Len(mem[fd[t].path]) - fd[t].offset)
    BY <2>1, <2>2, Zenon DEF ReadCounts, Exists
  <2>4. fd[t].offset + n \in 0..MaxSize
    BY <2>2, <2>3, ContentsFacts
  <2>5. fd' \in [Threads -> [path : Paths, offset : 0..MaxSize] \cup {Closed}]
    <3>1. [fd[t] EXCEPT !.offset = fd[t].offset + n] \in [path : Paths, offset : 0..MaxSize]
      BY <2>2, <2>4, OffsetMoved, Zenon
    <3>2. fd' = [fd EXCEPT ![t] = [fd[t] EXCEPT !.offset = fd[t].offset + n]]
      BY <2>1, Zenon
    <3> QED
      BY <3>1, <3>2, Zenon
  <2> QED
    BY <1>5, <2>1, <2>5, Zenon DEF FileRead
<1>6. ASSUME NEW t \in Threads, FileLseek(t) PROVE Shaped'
  <2>1. fd[t] \in [path : Paths, offset : 0..MaxSize]
    BY <1>6, Zenon DEF FileLseek
  <2>2. fd' \in [Threads -> [path : Paths, offset : 0..MaxSize] \cup {Closed}]
    <3>1. PICK o \in 0..MaxSize : fd' = [fd EXCEPT ![t].offset = o]
      BY <1>6, Zenon DEF FileLseek
    <3>2. [fd[t] EXCEPT !.offset = o] \in [path : Paths, offset : 0..MaxSize]
      BY <2>1, OffsetMoved, Zenon
    <3>3. fd' = [fd EXCEPT ![t] = [fd[t] EXCEPT !.offset = o]]
      BY <3>1, Zenon
    <3> QED
      BY <3>2, <3>3, Zenon
  <2> QED
    BY <1>6, <2>2 DEF FileLseek
<1>7. ASSUME NEW t \in Threads, FileClose(t) PROVE Shaped'
  BY <1>7, Zenon DEF FileClose
<1>8. ASSUME NEW t \in Threads, FileWrite(t) PROVE Shaped'
  <2>1. fd[t] \in [path : Paths, offset : 0..MaxSize]
    BY <1>8, Zenon DEF FileWrite
  <2>2. PICK buf \in FS!Buffers(fd[t].offset) :
          /\ val' = [val EXCEPT ![t] = FS!Overwrite(mem[fd[t].path], fd[t].offset, buf)]
          /\ cnt' = [cnt EXCEPT ![t] = Len(buf)]
    BY <1>8, Zenon DEF FileWrite
  <2>3. FS!Overwrite(mem[fd[t].path], fd[t].offset, buf) \in FS!Contents
    <3>1. mem[fd[t].path] \in FS!Contents \cup {Absent} /\ fd[t].offset \in 0..MaxSize
      BY <2>1, Zenon
    <3> QED
      BY <2>2, <3>1, OverwriteType, Zenon
  <2>4. Len(buf) \in 0..MaxSize /\ fd[t].offset + Len(buf) <= MaxSize
    <3>1. Len(buf) \in 0..(MaxSize - fd[t].offset) /\ fd[t].offset \in 0..MaxSize
      BY <2>1, <2>2, BufferFacts, Zenon
    <3> QED
      BY <3>1
  <2>5. /\ val' \in [Threads -> FS!Contents] /\ cnt' \in [Threads -> 0..MaxSize]
        /\ cnt'[t] = Len(buf) /\ \A u \in Threads \ {t} : cnt'[u] = cnt[u]
    BY <2>2, <2>3, <2>4, Zenon
  <2>6. TypeOK'
    <3>1. /\ path' = [path EXCEPT ![t] = fd[t].path] /\ target' = [target EXCEPT ![t] = fd[t].path]
          /\ pc' = [pc EXCEPT ![t] = "writePut"] /\ lock' = t /\ UNCHANGED <<mem, disk, temp, fd, faults>>
      BY <1>8, Zenon DEF FileWrite
    <3>2. fd[t].path \in Paths /\ fd[t].path \in Entries
      BY <2>1, Zenon
    <3>3. path' \in [Threads -> Paths \cup {NoPath}] /\ target' \in [Threads -> Entries \cup {NoPath}]
      BY <3>1, <3>2, Zenon
    <3>4. pc' \in [Threads -> Labels] /\ lock' \in Threads \cup {NoThread}
      BY <3>1, Zenon
    <3> QED
      BY <2>5, <3>1, <3>3, <3>4, Zenon
  <2>7. Shape(t)'
    <3>1. pc'[t] = "writePut" /\ lock' = t /\ path'[t] \in Paths /\ target'[t] \in Entries /\ fd' = fd
      BY <1>8, <2>1, Zenon DEF FileWrite
    <3>2. fd'[t] # Closed /\ fd'[t].offset + cnt'[t] <= MaxSize
      BY <1>8, <2>4, <2>5, <3>1, Zenon DEF FileWrite
    <3> QED
      BY <3>1, <3>2, Zenon
  <2>8. ASSUME NEW u \in Threads \ {t} PROVE Shape(u)'
    BY <1>8, <2>5, <2>8, Zenon DEF FileWrite
  <2> HIDE DEF Shape, TypeOK
  <2> QED
    BY <2>6, <2>7, <2>8, Zenon
<1>9. ASSUME NEW t \in Threads, Rename(t) PROVE Shaped'
  BY <1>9 DEF Rename, Exists
<1>10. ASSUME NEW t \in Threads, RenameTemp(t) PROVE Shaped'
  BY <1>10 DEF RenameTemp, TempReadable
<1>11. ASSUME NEW t \in Threads, TempWrite(t) PROVE Shaped'
  BY <1>11, TempContentsType DEF TempWrite
<1>12. ASSUME NEW t \in Threads, Unlink(t) PROVE Shaped'
  BY <1>12 DEF Unlink
<1>13. ASSUME NEW t \in Threads, Put(t) PROVE Shaped'
  BY <1>13 DEF Put, AfterPut
<1>14. ASSUME NEW t \in Threads, Delete(t) PROVE Shaped'
  <2>1. mem' \in [Entries -> FS!Contents \cup {Absent}] /\ pc' \in [Threads -> Labels]
    BY <1>14, Zenon DEF Delete
  <2>2. TypeOK'
    BY <1>14, <2>1, Zenon DEF Delete
  <2>3. ASSUME NEW u \in Threads PROVE Shape(u)'
    BY <1>14, <2>3, Zenon DEF Delete
  <2> QED
    BY <2>2, <2>3, Zenon
<1>15. ASSUME NEW t \in Threads, StoreFails(t) PROVE Shaped'
  BY <1>15, <1>0 DEF StoreFails, Fault, Return
<1>16. ASSUME NEW t \in Threads, WriteFlush(t) PROVE Shaped'
  <2>1. fd[t] \in [path : Paths, offset : 0..MaxSize] /\ fd[t].offset + cnt[t] \in 0..MaxSize
    BY <1>16 DEF WriteFlush
  <2>2. fd' \in [Threads -> [path : Paths, offset : 0..MaxSize] \cup {Closed}]
    BY <1>16, <2>1, Zenon DEF WriteFlush
  <2> QED
    BY <1>0, <1>16, <2>2 DEF WriteFlush, FlushWAL, Fault, Return
<1>17. ASSUME NEW t \in Threads, RenameFlush(t) PROVE Shaped'
  BY <1>17 DEF RenameFlush, FlushWAL, Fault
<1>18. ASSUME NEW t \in Threads, ImportFlush(t) PROVE Shaped'
  BY <1>18, <1>0 DEF ImportFlush, FlushWAL, Fault, Return
<1>19. ASSUME NEW t \in Threads, DeleteFlush(t) PROVE Shaped'
  BY <1>19, <1>0 DEF DeleteFlush, FlushWAL, Fault, Return
<1>20. CASE Crash
  BY <1>0, <1>20, Zenon DEF Crash
<1>21. CASE UNCHANGED vars
  BY <1>21, Zenon DEF vars
<1> HIDE DEF Shaped
<1> QED
  BY <1>1, <1>2, <1>3, <1>4, <1>5, <1>6, <1>7, <1>8, <1>9, <1>10, <1>11, <1>12, <1>13, <1>14, <1>15, <1>16, <1>17, <1>18, <1>19, <1>20, <1>21, ZenonT(60)
  DEF Next, Step

\* Every reachable state is well typed: no file grows beyond what was written to it.
THEOREM HandlerTypeCorrect == Spec => []TypeOK
<1>1. Spec => []Shaped
  BY ShapedInit, ShapedStep, PTL DEF Spec
<1>2. Shaped => TypeOK
  BY Zenon DEF Shaped
<1> QED
  BY <1>1, <1>2, PTL
=============================================================================
