----------------------------- MODULE MCMrpData -----------------------------
(* A small instance of MrpData for TLC.                                     *)
EXTENDS MrpData, TLC

Symmetry == Permutations(Procs)
=============================================================================
