---------------------------- MODULE PersistentFs ----------------------------
(***************************************************************************)
(* What MariaDB relies on for its .frm and db.opt files: named files whose *)
(* contents survive a crash, each changed by one call at a time.  A file   *)
(* that is renamed has both names for a moment, and never none.            *)
(* Temporary files do not survive a crash and become files by a rename.    *)
(***************************************************************************)
EXTENDS Naturals, Sequences

CONSTANTS
  Files,    \* the names of the files
  Temps,    \* the names of the temporary files
  Bytes,    \* the bytes that are written
  Zero,     \* the byte a gap is filled with
  MaxSize,  \* bound on the size of a file
  Absent    \* the file does not exist

VARIABLES
  files,  \* the contents of each file
  temp    \* the contents of each temporary file

Contents == UNION {[1..n -> Bytes \cup {Zero}] : n \in 0..MaxSize}

\* What a call may write at offset off, nothing included.
Buffers(off) == UNION {[1..n -> Bytes] : n \in 0..(MaxSize - off)}

\* The bytes buf written at offset off of a file that holds old; a file that is absent is empty.
Overwrite(old, off, buf) ==
  LET was == IF old = Absent THEN <<>> ELSE old
      size == IF Len(was) < off + Len(buf) THEN off + Len(buf) ELSE Len(was)
  IN [i \in 1..size |-> IF i \in (off + 1)..(off + Len(buf)) THEN buf[i - off]
                        ELSE IF i <= Len(was) THEN was[i] ELSE Zero]

Init == files = [f \in Files |-> Absent] /\ temp = [f \in Temps |-> Absent]

\* A write beyond the end fills the gap, also if it writes nothing.
Write(f) ==
  \E off \in 0..MaxSize : \E buf \in Buffers(off) :
    files' = [files EXCEPT ![f] = Overwrite(files[f], off, buf)] /\ UNCHANGED temp

\* A new name for the contents of f.
Link(f, g) == files[f] # Absent /\ files' = [files EXCEPT ![g] = files[f]] /\ UNCHANGED temp

Remove(f) == files' = [files EXCEPT ![f] = Absent] /\ UNCHANGED temp

WriteTemp(f) == (\E c \in Contents : temp' = [temp EXCEPT ![f] = c]) /\ UNCHANGED files

RemoveTemp(f) == temp' = [temp EXCEPT ![f] = Absent] /\ UNCHANGED files

\* The temporary file f gets the name g.
Import(f, g) ==
  /\ temp[f] # Absent
  /\ files' = [files EXCEPT ![g] = temp[f]]
  /\ temp' = [temp EXCEPT ![f] = Absent]

Crash == temp' = [f \in Temps |-> Absent] /\ UNCHANGED files

Next ==
  \/ Crash
  \/ \E f \in Files : Write(f) \/ Remove(f) \/ \E g \in Files : Link(f, g)
  \/ \E f \in Temps : WriteTemp(f) \/ RemoveTemp(f) \/ \E g \in Files : Import(f, g)

Spec == Init /\ [][Next]_<<files, temp>>
=============================================================================
