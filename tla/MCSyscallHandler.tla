-------------------------- MODULE MCSyscallHandler --------------------------
(***************************************************************************)
(* Small instances of SyscallHandler for TLC.                              *)
(***************************************************************************)
EXTENDS SyscallHandler, TLC

CONSTANTS a, ab, t1, t2, w1, w2, x

MCThreads == {w1, w2}
Symmetry == Permutations(MCThreads) \cup Permutations({t1, t2})
Written == {<<x>>}
EmptyOrWritten == {<<>>, <<x>>}
NoLongerName == {}
Prefixed == {<<a, ab>>}
=============================================================================
