------------------------------ MODULE MCSched ------------------------------
(***************************************************************************)
(* Sched for TLC.  With slices of 4 and 1 a woken task has more, or less,   *)
(* than the 3 ticks over the current one that make it preempt.              *)
(***************************************************************************)
EXTENDS Sched

CONSTANT a

AllSleeps == {"I", "U"} \X BOOLEAN \X BOOLEAN
OtherPolicy == <<"OTHER", 0>>
ThreePolicies == {<<"OTHER", 0>>, <<"FIFO", 1>>, <<"RR", 2>>}
Slices == [q \in Tasks |-> IF q = a THEN 4 ELSE 1]
=============================================================================
