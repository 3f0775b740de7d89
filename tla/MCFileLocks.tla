---------------------------- MODULE MCFileLocks ----------------------------
(***************************************************************************)
(* FileLocks for TLC: a lock on one byte lies inside a lock on three, so    *)
(* that locks are split, merged, cut back and replaced; reads and writes    *)
(* touch the same byte.                                                     *)
(***************************************************************************)
EXTENDS FileLocks, TLC

Inner == {<<0, 3>>, <<1, 1>>}
OneByte == {<<1, 1>>}
ToEnd == {<<0, 0>>, <<1, 1>>}
Symmetry == Permutations(Procs)
=============================================================================
