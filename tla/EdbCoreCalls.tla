---------------------------- MODULE EdbCoreCalls ----------------------------
(***************************************************************************)
(* The next three layers of the inductive invariant: where the threads can *)
(* be together, what a call relies on between its steps, and what          *)
(* Initialize promised to the client that uploaded the manifest.           *)
(***************************************************************************)
EXTENDS EdbCoreTypes

\* Recover and Initialize work under the mutex, and only in the states they require.
Control ==
  /\ pc[Main] \in LaunchLabels \cup {"down", "serve", "exiting"}
  /\ \A t \in Handlers :
       /\ pc[t] \in HandlerLabels
       /\ pc[Main] \notin {"serve", "exiting"} => pc[t] = "idle"
       /\ pc[t] \in RecoverLabels => state = "Recovery"
       /\ pc[t] \in RecoverLabels \cup InitLabels => mutex = t
  /\ pc[Main] \in InitLabels => mutex = Main
  /\ pc[Main] = "load" => state = "Uninitialized"
  /\ pc[Main] \in LaunchLabels \ {"load", "backup", "truncate", "write"} => state = "Initialized"
  /\ pc[Main] \in {"backup", "truncate", "write"} => state = "Uninitialized" /\ rocks = NoDb
  /\ pc[Main] = "backup" => sealed = NoFile
  /\ timer => rocks # NoDb

\* A thread works on a manifest, and still has the store it opened.
CallInv ==
  /\ \A t \in Threads :
       /\ pc[t] \in InitLabels \cup {"initLock", "reply"} => man[t] \in Manifests
       /\ pc[t] \in StoreLabels => key[t] \in Keys /\ env = key[t]
       /\ pc[t] \in {"bootSql", "bootAgain"} => rocks # NoDb /\ rocks.key = env
       /\ pc[t] = "reply" => rocks # NoDb /\ rocks.config = man[t]
  /\ state = "Initialized" => masterKey = env /\ env \in Keys

(***************************************************************************)
(*                     Where the threads can be together                   *)
(***************************************************************************)

\* A new deployment runs nothing.
LEMMA ControlInit == Init => Control
  BY ThreadsAssumption, Zenon
  DEF Init, Control, InitLabels, StoreLabels, RecoverLabels, LaunchLabels, HandlerLabels, Threads

\* A call that ends gives the mutex back, unless its process ends.
LEMMA ControlEnds ==
  ASSUME Typed, Control, NEW t \in Threads, Ends(t)
  PROVE  Control'
<1>1. UNCHANGED <<state, timer, rocks, sealed>>
  BY Zenon DEF Ends, diskVars
<1>2. \A u \in Threads :
        \/ pc'[u] = pc[u]
        \/ u = t /\ pc'[u] = (IF u = Main THEN "serve" ELSE "idle")
        \/ u = Main /\ pc'[u] = "exiting"
  BY EndsLocally, Zenon DEF Typed, Standing
<1>3. mutex' = mutex \/ (mutex = t /\ pc'[t] \in {"serve", "idle"})
  BY EndsLocally, Zenon DEF Typed
<1> QED
  BY <1>1, <1>2, <1>3, ThreadsAssumption
  DEF Control, InitLabels, StoreLabels, RecoverLabels, LaunchLabels, HandlerLabels, Threads

\* A bootstrap that fails after the manifest was inserted gives the mutex back, unless its process ends.
LEMMA ControlPanics ==
  ASSUME Typed, Control, NEW t \in Threads, BootPanics(t)
  PROVE  Control'
<1>1. UNCHANGED <<state, timer, sealed>> /\ rocks' # NoDb /\ pc[t] \in InitLabels /\ Alive(t)
  BY BootDoneStore, Zenon DEF BootPanics, procVars, diskVars, InitLabels
<1>2. \A u \in Threads :
        \/ pc'[u] = pc[u]
        \/ u = t /\ pc'[u] = (IF u = Main THEN "serve" ELSE "idle")
        \/ u = Main /\ pc'[u] = "exiting"
  BY EndsLocally, Zenon DEF Typed, Standing
<1>3. mutex' = mutex \/ (mutex = t /\ pc'[t] \in {"serve", "idle"})
  BY EndsLocally, Zenon DEF Typed
<1> QED
  BY <1>1, <1>2, <1>3, ThreadsAssumption
  DEF Control, Alive, Serving, InitLabels, StoreLabels, RecoverLabels, LaunchLabels, HandlerLabels, Threads

\* Every step keeps the locking discipline of Recover and Initialize.
LEMMA ControlStep == Typed /\ Control /\ Effect => Control'
<1> SUFFICES ASSUME Typed, Control, Effect PROVE Control'
  BY Zenon
<1> USE ThreadsAssumption
    DEF Typed, TypeOK, Control, InitLabels, StoreLabels, RecoverLabels, LaunchLabels, HandlerLabels, Threads,
        hostVars, diskVars, dbVars, callVars, procVars
<1>1. CASE KeyLoaded
  BY <1>1, ZenonT(30) DEF KeyLoaded, Goto
<1>2. CASE NewMasterKey
  BY <1>2, LoadNotExist, Zenon DEF NewMasterKey, Goto
<1>3. CASE EnterRecovery
  BY <1>3, Zenon DEF EnterRecovery, Goto
<1>4. ASSUME NEW t \in Threads, PostRecover(t) PROVE Control'
  BY <1>4, Zenon DEF PostRecover, Serving, Goto
<1>5. ASSUME NEW t \in Threads, RecoverLocks(t) PROVE Control'
  BY <1>5, Zenon DEF RecoverLocks, Alive, Serving, Goto
<1>6. ASSUME NEW t \in Threads, KeySet(t) PROVE Control'
  BY <1>6, Zenon DEF KeySet, Alive, Serving, Goto
<1>7. ASSUME NEW t \in Threads, OpenBackup(t) PROVE Control'
  BY <1>7 DEF OpenBackup, BackupOpened, Alive, Serving, Goto
<1>8. ASSUME NEW t \in Threads, WriteBackup(t) PROVE Control'
  BY <1>8, Zenon DEF WriteBackup, BackupWritten, Alive, Serving, Goto
<1>9. ASSUME NEW t \in Threads, TruncateSealed(t) PROVE Control'
  BY <1>9, ZenonT(30) DEF TruncateSealed, SealedTruncated, Alive, Serving, Goto
<1>10. ASSUME NEW t \in Threads, WriteSealed(t) PROVE Control'
  BY <1>10, Zenon DEF WriteSealed, SealedWritten, Alive, Serving, Goto
<1>11. ASSUME NEW t \in Threads, Encrypts(t) PROVE Control'
  BY <1>11, Zenon DEF Encrypts, Alive, Serving, Goto
<1>12. ASSUME NEW t \in Threads, InitializeLock(t) PROVE Control'
  BY <1>12, Zenon DEF InitializeLock, Alive, Serving, Goto
<1>13. ASSUME NEW t \in Threads, Accepts(t) PROVE Control'
  BY <1>13, Zenon DEF Accepts, Alive, Serving, Goto
<1>14. ASSUME NEW t \in Threads, BootOpen(t) PROVE Control'
  <2>1. rocks' # NoDb /\ rocks'.key = env /\ (rocks # NoDb => rocks' = rocks)
    BY <1>14, BootOpensStore, Zenon
  <2> QED
    BY <1>14, <2>1, Zenon DEF BootOpen, Alive, Serving, Goto
<1>15. ASSUME NEW t \in Threads, BootDone(t) PROVE Control'
  <2>1. rocks' # NoDb /\ rocks'.key = rocks.key /\ rocks'.config = man[t]
    BY <1>15, BootDoneStore, Zenon
  <2> QED
    BY <1>15, <2>1 DEF BootDone, Alive, Serving, Goto
<1>16. ASSUME NEW t \in Threads, ReplyManifest(t) PROVE Control'
  BY <1>16, Zenon DEF ReplyManifest, Alive, Serving, Return
<1>17. CASE Resets
  BY <1>17 DEF Resets, Reset
<1>18. CASE Outside
  BY <1>18, Zenon DEF Outside, NextSecond
<1>19. CASE ServerEnds
  BY <1>19, Zenon DEF ServerEnds, Serving, Terminate
<1> QED
  BY <1>1, <1>2, <1>3, <1>4, <1>5, <1>6, <1>7, <1>8, <1>9, <1>10, <1>11,
     <1>12, <1>13, <1>14, <1>15, <1>16, <1>17, <1>18, <1>19, ControlEnds, ControlPanics, ZenonT(60)
  DEF Effect, ThreadEffect

(***************************************************************************)
(*                 What a call relies on between its steps                 *)
(***************************************************************************)

\* A new deployment has no calls in progress.
LEMMA CallInit == Init => CallInv
  BY ThreadsAssumption, Zenon DEF Init, CallInv, InitLabels, StoreLabels, Threads

\* A call that ends takes nothing from the others: only a Recover without a valid key changes masterKey.
LEMMA CallEnds ==
  ASSUME Typed, Control, CallInv, NEW t \in Threads, Ends(t)
  PROVE  CallInv'
<1>1. UNCHANGED <<env, state, rocks>> /\ (masterKey' = masterKey \/ pc[t] = "setKey")
  BY Zenon DEF Ends
<1>2. \A u \in Threads : pc'[u] \in {"serve", "idle", "exiting"} \/ Standing(u)
  BY EndsLocally, Zenon DEF Typed
<1>3. pc[t] = "setKey" => state = "Recovery"
  BY Zenon DEF Control, RecoverLabels, LaunchLabels, StoreLabels, InitLabels, Threads
<1> QED
  BY <1>1, <1>2, <1>3 DEF CallInv, Standing, InitLabels, StoreLabels

\* A manifest is only inserted into a store that has none, so no other call has one to answer for.
LEMMA CallPanics ==
  ASSUME Typed, CallInv, NEW t \in Threads, BootPanics(t)
  PROVE  CallInv'
<1>1. UNCHANGED <<env, state, masterKey>> /\ rocks' # NoDb /\ rocks'.key = rocks.key /\ rocks.config = NoManifest
  BY BootDoneStore, Zenon DEF BootPanics, procVars
<1>2. \A u \in Threads : pc'[u] \in {"serve", "idle", "exiting"} \/ Standing(u)
  BY EndsLocally, Zenon DEF Typed
<1> QED
  BY <1>1, <1>2, ManifestsAssumption DEF CallInv, Standing, InitLabels, StoreLabels

\* No step of another thread disturbs what a call in progress holds on to.
LEMMA CallStep == Typed /\ Control /\ CallInv /\ Effect => CallInv'
<1> SUFFICES ASSUME Typed, Control, CallInv, Effect PROVE CallInv'
  BY Zenon
<1> USE ThreadsAssumption, ManifestsAssumption
    DEF Typed, TypeOK, Control, CallInv, InitLabels, StoreLabels, RecoverLabels, LaunchLabels, HandlerLabels, Threads,
        hostVars, diskVars, dbVars, callVars, procVars
<1>1. CASE KeyLoaded
  BY <1>1, Zenon DEF KeyLoaded, Goto
<1>2. CASE NewMasterKey
  BY <1>2, Zenon DEF NewMasterKey, Goto
<1>3. CASE EnterRecovery
  BY <1>3, Zenon DEF EnterRecovery, Goto
<1>4. ASSUME NEW t \in Threads, PostRecover(t) PROVE CallInv'
  BY <1>4 DEF PostRecover, Serving, Goto
<1>5. ASSUME NEW t \in Threads, RecoverLocks(t) PROVE CallInv'
  BY <1>5, Zenon DEF RecoverLocks, Alive, Serving, Goto
<1>6. ASSUME NEW t \in Threads, KeySet(t) PROVE CallInv'
  BY <1>6 DEF KeySet, Alive, Serving, Goto
<1>7. ASSUME NEW t \in Threads, OpenBackup(t) PROVE CallInv'
  BY <1>7 DEF OpenBackup, BackupOpened, Alive, Serving, Goto
<1>8. ASSUME NEW t \in Threads, WriteBackup(t) PROVE CallInv'
  BY <1>8, ZenonT(30) DEF WriteBackup, BackupWritten, Alive, Serving, Goto
<1>9. ASSUME NEW t \in Threads, TruncateSealed(t) PROVE CallInv'
  BY <1>9, Zenon DEF TruncateSealed, SealedTruncated, Alive, Serving, Goto
<1>10. ASSUME NEW t \in Threads, WriteSealed(t) PROVE CallInv'
  BY <1>10, ZenonT(30) DEF WriteSealed, SealedWritten, Alive, Serving, Goto
<1>11. ASSUME NEW t \in Threads, Encrypts(t) PROVE CallInv'
  BY <1>11 DEF Encrypts, Alive, Serving, Goto
<1>12. ASSUME NEW t \in Threads, InitializeLock(t) PROVE CallInv'
  BY <1>12 DEF InitializeLock, Alive, Serving, Goto
<1>13. ASSUME NEW t \in Threads, Accepts(t) PROVE CallInv'
  BY <1>13, ZenonT(30) DEF Accepts, Alive, Serving, Goto
<1>14. ASSUME NEW t \in Threads, BootOpen(t) PROVE CallInv'
  <2>1. rocks' # NoDb /\ rocks'.key = env /\ (rocks # NoDb => rocks' = rocks)
    BY <1>14, BootOpensStore, Zenon
  <2> QED
    BY <1>14, <2>1 DEF BootOpen, Alive, Serving, Goto
<1>15. ASSUME NEW t \in Threads, BootDone(t) PROVE CallInv'
  <2>1. rocks' # NoDb /\ rocks'.key = rocks.key /\ rocks'.config = man[t]
    BY <1>15, BootDoneStore, Zenon
  <2> QED
    BY <1>15, <2>1 DEF BootDone, Alive, Serving, Goto
<1>16. ASSUME NEW t \in Threads, ReplyManifest(t) PROVE CallInv'
  BY <1>16, ZenonT(30) DEF ReplyManifest, Alive, Serving, Return
<1>17. CASE Resets
  BY <1>17 DEF Resets, Reset
<1>18. CASE Outside
  BY <1>18, Zenon DEF Outside, NextSecond
<1>19. CASE ServerEnds
  BY <1>19, Zenon DEF ServerEnds, Serving, Terminate
<1> QED
  BY <1>1, <1>2, <1>3, <1>4, <1>5, <1>6, <1>7, <1>8, <1>9, <1>10, <1>11,
     <1>12, <1>13, <1>14, <1>15, <1>16, <1>17, <1>18, <1>19, CallEnds, CallPanics, ZenonT(60)
  DEF Effect, ThreadEffect

(***************************************************************************)
(*                        What was acknowledged                            *)
(***************************************************************************)
\* What Initialize handed out or is about to hand out agrees with the store.
AckInv ==
  /\ \A a \in acked : a.man \in Manifests /\ rocks # NoDb /\ rocks.config = a.man
  /\ \A t \in Threads :
       state = "Initialized" /\ man[t] \in Manifests /\ man[t].recovery = "rsa" =>
         /\ pc[t] \in InitLabels \cup {"initLock"} => rkey[t] = env
         /\ pc[t] = "reply" => rkey[t] = rocks.key
  /\ RecoveryDataOpensDatabase

\* Nothing was promised in a new deployment.
LEMMA AckInit == Init => AckInv
  BY ManifestsAssumption, Zenon DEF Init, AckInv, RecoveryDataOpensDatabase, Threads

\* A call that ends without an answer promises nothing.
LEMMA AckEnds ==
  ASSUME Typed, AckInv, NEW t \in Threads, Ends(t)
  PROVE  AckInv'
<1>1. UNCHANGED <<env, state, rocks, acked>>
  BY Zenon DEF Ends
<1>2. \A u \in Threads : pc'[u] \in {"serve", "idle", "exiting"} \/ Standing(u)
  BY EndsLocally, Zenon DEF Typed
<1> QED
  BY <1>1, <1>2 DEF AckInv, RecoveryDataOpensDatabase, Standing, InitLabels

\* A manifest is only inserted into a store that has none, so nothing was promised yet.
LEMMA AckPanics ==
  ASSUME Typed, CallInv, AckInv, NEW t \in Threads, BootPanics(t)
  PROVE  AckInv'
<1>1. UNCHANGED <<env, state, acked>> /\ rocks' # NoDb /\ rocks'.key = rocks.key /\ rocks.config = NoManifest
  BY BootDoneStore, Zenon DEF BootPanics, procVars
<1>2. \A u \in Threads : pc'[u] \in {"serve", "idle", "exiting"} \/ Standing(u)
  BY EndsLocally, Zenon DEF Typed
<1> QED
  BY <1>1, <1>2, ManifestsAssumption DEF AckInv, RecoveryDataOpensDatabase, Standing, InitLabels

\* The answer hands out what Initialize has prepared.
LEMMA AckReplied ==
  ASSUME Typed, CallInv, AckInv, NEW t \in Threads, ReplyManifest(t)
  PROVE  AckInv'
<1>1. UNCHANGED <<env, state, rocks>> /\ acked' = acked \cup {[man |-> man[t], key |-> rkey[t], mode |-> state]}
  BY Zenon DEF ReplyManifest, procVars
<1>2. \A u \in Threads : pc'[u] \in {"serve", "idle"} \/ Standing(u)
  BY Zenon DEF ReplyManifest, Return, Standing, Typed, TypeOK
<1>3. man[t] \in Manifests /\ rocks # NoDb /\ rocks.config = man[t]
  BY Zenon DEF ReplyManifest, CallInv
<1>4. state = "Initialized" /\ man[t].recovery = "rsa" => rkey[t] = rocks.key
  BY <1>3, Zenon DEF ReplyManifest, AckInv
<1> QED
  BY <1>1, <1>2, <1>3, <1>4 DEF AckInv, RecoveryDataOpensDatabase, Standing, InitLabels

\* Every step keeps what Initialize promised.
LEMMA AckStep == Typed /\ Control /\ CallInv /\ AckInv /\ Effect => AckInv'
<1> SUFFICES ASSUME Typed, Control, CallInv, AckInv, Effect PROVE AckInv'
  BY Zenon
<1> USE ThreadsAssumption, ManifestsAssumption
    DEF Typed, TypeOK, Control, CallInv, AckInv, RecoveryDataOpensDatabase, InitLabels, StoreLabels, RecoverLabels, LaunchLabels, HandlerLabels,
        Threads, hostVars, diskVars, dbVars, callVars, procVars
<1>1. CASE KeyLoaded
  BY <1>1, Zenon DEF KeyLoaded, Goto
<1>2. CASE NewMasterKey
  BY <1>2, Zenon DEF NewMasterKey, Goto
<1>3. CASE EnterRecovery
  BY <1>3, Zenon DEF EnterRecovery, Goto
<1>4. ASSUME NEW t \in Threads, PostRecover(t) PROVE AckInv'
  BY <1>4, Zenon DEF PostRecover, Serving, Goto
<1>5. ASSUME NEW t \in Threads, RecoverLocks(t) PROVE AckInv'
  BY <1>5, Zenon DEF RecoverLocks, Alive, Serving, Goto
<1>6. ASSUME NEW t \in Threads, KeySet(t) PROVE AckInv'
  BY <1>6, Zenon DEF KeySet, Alive, Serving, Goto
<1>7. ASSUME NEW t \in Threads, OpenBackup(t) PROVE AckInv'
  BY <1>7, Zenon DEF OpenBackup, BackupOpened, Alive, Serving, Goto
<1>8. ASSUME NEW t \in Threads, WriteBackup(t) PROVE AckInv'
  BY <1>8, Zenon DEF WriteBackup, BackupWritten, Alive, Serving, Goto
<1>9. ASSUME NEW t \in Threads, TruncateSealed(t) PROVE AckInv'
  BY <1>9, Zenon DEF TruncateSealed, SealedTruncated, Alive, Serving, Goto
<1>10. ASSUME NEW t \in Threads, WriteSealed(t) PROVE AckInv'
  BY <1>10, ZenonT(30) DEF WriteSealed, SealedWritten, Alive, Serving, Goto
<1>11. ASSUME NEW t \in Threads, Encrypts(t) PROVE AckInv'
  BY <1>11 DEF Encrypts, Alive, Serving, Goto, MasterKeyReads
<1>12. ASSUME NEW t \in Threads, InitializeLock(t) PROVE AckInv'
  BY <1>12 DEF InitializeLock, Alive, Serving, Goto
<1>13. ASSUME NEW t \in Threads, Accepts(t) PROVE AckInv'
  BY <1>13, Zenon DEF Accepts, Alive, Serving, Goto
<1>14. ASSUME NEW t \in Threads, BootOpen(t) PROVE AckInv'
  <2>1. rocks' # NoDb /\ rocks'.key = env /\ (rocks # NoDb => rocks' = rocks)
    BY <1>14, BootOpensStore, Zenon
  <2> QED
    BY <1>14, <2>1 DEF BootOpen, Alive, Serving, Goto
<1>15. ASSUME NEW t \in Threads, BootDone(t) PROVE AckInv'
  <2>1. rocks' # NoDb /\ rocks'.key = rocks.key /\ rocks'.config = man[t]
    BY <1>15, BootDoneStore, Zenon
  <2> QED
    BY <1>15, <2>1 DEF BootDone, Alive, Serving, Goto
<1>16. ASSUME NEW t \in Threads, ReplyManifest(t) PROVE AckInv'
  BY <1>16, AckReplied, Zenon
<1>17. CASE Resets
  BY <1>17 DEF Resets, Reset
<1>18. CASE Outside
  BY <1>18, Zenon DEF Outside, NextSecond
<1>19. CASE ServerEnds
  BY <1>19, Zenon DEF ServerEnds, Serving, Terminate
<1> QED
  BY <1>1, <1>2, <1>3, <1>4, <1>5, <1>6, <1>7, <1>8, <1>9, <1>10, <1>11,
     <1>12, <1>13, <1>14, <1>15, <1>16, <1>17, <1>18, <1>19, AckEnds, AckPanics, ZenonT(60)
  DEF Effect, ThreadEffect
=============================================================================
