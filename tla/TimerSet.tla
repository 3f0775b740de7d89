------------------------------ MODULE TimerSet ------------------------------
(***************************************************************************)
(* What the timers of kernel/sched.c promise: a pending timer runs in the  *)
(* jiffy it was set for, not before and not after; one set in the past runs *)
(* in the jiffy being processed.                                            *)
(***************************************************************************)
EXTENDS Naturals

CONSTANTS Timers, NotPending

VARIABLE due   \* jiffies until the timer is due, or NotPending

Pending(t) == due[t] # NotPending

Init == due = [t \in Timers |-> NotPending]

Set(t) == /\ ~Pending(t)
          /\ due'[t] \in Nat /\ due' = [due EXCEPT ![t] = due'[t]]

Delete(t) == Pending(t) /\ due' = [due EXCEPT ![t] = NotPending]

Run(t) == due[t] = 0 /\ due' = [due EXCEPT ![t] = NotPending]

\* The next jiffy: nothing due is left behind.
Advance ==
    /\ \A t \in Timers : due[t] # 0
    /\ due' = [t \in Timers |-> IF Pending(t) THEN due[t] - 1 ELSE NotPending]

Next == Advance \/ \E t \in Timers : Set(t) \/ Delete(t) \/ Run(t)

Spec == Init /\ [][Next]_due
=============================================================================
