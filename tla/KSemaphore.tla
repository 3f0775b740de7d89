----------------------------- MODULE KSemaphore -----------------------------
(***************************************************************************)
(* The kernel semaphore of asm/semaphore.h and kernel/sched.c: a count that *)
(* down decrements and up increments in one instruction, and a slow path   *)
(* through waking and a wait queue.  sys_write holds one (the inode's) over *)
(* every driver's write.                                                    *)
(*                                                                         *)
(* One processor.  cpu names the process that is inside the kernel; it is  *)
(* not preempted, but interrupts come between its steps, and an interrupt   *)
(* handler may call up on behalf of a process that handed its permit over  *)
(* (an operation that an interrupt completes).                              *)
(***************************************************************************)
EXTENDS Integers, FiniteSets

CONSTANTS
    Procs,     \* the processes that use the semaphore
    NoProc,    \* nobody is inside the kernel
    Permits,   \* the initial count: 1 for MUTEX, 0 for MUTEX_LOCKED
    MaxExtra   \* bound: down_interruptible is not called after so many races

ASSUME ConstAssumption ==
    /\ NoProc \notin Procs /\ IsFiniteSet(Procs)
    /\ Permits \in Nat /\ MaxExtra \in Nat

VARIABLES
    count, waking,   \* struct semaphore
    queue,           \* the processes whose entry is in sem->wait
    state,           \* task state: R running, I interruptible, U uninterruptible
    mode,            \* task_state of the call: I for down_interruptible, U for down
    sig,             \* a signal the process does not block is pending
    pc, cpu,
    owed,            \* permits an interrupt handler is going to give back
    extra            \* history: permits GiveUp has created

vars == <<count, waking, queue, state, mode, sig, pc, cpu, owed, extra>>

WaitPcs == {"slow", "test", "signal", "sched", "asleep"}
Waiters == {p \in Procs : pc[p] \in WaitPcs}   \* in the slow path of down
Holders == {p \in Procs : pc[p] = "in"}
Posting == {p \in Procs : pc[p] = "post"}      \* up has still to call __up

Init ==
    /\ count = Permits /\ waking = 0 /\ queue = {}
    /\ state = [p \in Procs |-> "R"] /\ mode = [p \in Procs |-> "U"]
    /\ sig = [p \in Procs |-> FALSE]
    /\ pc = [p \in Procs |-> "out"] /\ cpu = NoProc
    /\ owed = 0 /\ extra = 0

Goto(p, l) == pc' = [pc EXCEPT ![p] = l]

----------------------------------------------------------------------------
(* down and down_interruptible.                                             *)

\* The inline part: decl, and js to the slow path.
Down(p, m) ==
    /\ cpu = NoProc /\ pc[p] = "out"
    /\ m = "I" => extra < MaxExtra
    /\ count' = count - 1
    /\ mode' = [mode EXCEPT ![p] = m]
    /\ IF count' < 0 THEN Goto(p, "slow") /\ cpu' = p
                     ELSE Goto(p, "in") /\ cpu' = cpu
    /\ UNCHANGED <<waking, queue, state, sig, owed, extra>>

\* __do_down: the process is marked asleep before it is queued.
Enqueue(p) ==
    /\ cpu = p /\ pc[p] = "slow"
    /\ state' = [state EXCEPT ![p] = mode[p]]
    /\ queue' = queue \cup {p}
    /\ Goto(p, "test")
    /\ UNCHANGED <<count, waking, mode, sig, cpu, owed, extra>>

\* waking_non_zero, with interrupts off: the first to find a wakeup takes it
\* and leaves the loop and the queue.
Test(p) ==
    /\ cpu = p /\ pc[p] = "test"
    /\ IF waking > 0
         THEN /\ waking' = waking - 1
              /\ state' = [state EXCEPT ![p] = "R"]
              /\ queue' = queue \ {p}
              /\ Goto(p, "in") /\ cpu' = NoProc
         ELSE Goto(p, "signal") /\ UNCHANGED <<waking, state, queue, cpu>>
    /\ UNCHANGED <<count, mode, sig, owed, extra>>

\* The call gives up: -EINTR.  An up of an interrupt handler after Test has
\* already counted this waiter, and the increment then creates a permit.
GiveUp(p) ==
    /\ cpu = p /\ pc[p] = "signal" /\ mode[p] = "I" /\ sig[p]
    /\ count' = count + 1
    /\ extra' = IF count < 0 THEN extra ELSE extra + 1
    /\ state' = [state EXCEPT ![p] = "R"]
    /\ queue' = queue \ {p}
    /\ sig' = [sig EXCEPT ![p] = FALSE]
    /\ Goto(p, "out") /\ cpu' = NoProc
    /\ UNCHANGED <<waking, mode, owed>>

Wait(p) ==
    /\ cpu = p /\ pc[p] = "signal" /\ ~(mode[p] = "I" /\ sig[p])
    /\ Goto(p, "sched")
    /\ UNCHANGED <<count, waking, queue, state, mode, sig, cpu, owed, extra>>

\* schedule: an interruptible task with a signal stays runnable.
Schedule(p) ==
    /\ cpu = p /\ pc[p] = "sched"
    /\ state' = [state EXCEPT ![p] = IF @ = "I" /\ sig[p] THEN "R" ELSE @]
    /\ Goto(p, "asleep") /\ cpu' = NoProc
    /\ UNCHANGED <<count, waking, queue, mode, sig, owed, extra>>

\* schedule returns; the process is marked asleep again before it tests again.
Resume(p) ==
    /\ cpu = NoProc /\ pc[p] = "asleep" /\ state[p] = "R"
    /\ state' = [state EXCEPT ![p] = mode[p]]
    /\ Goto(p, "test") /\ cpu' = p
    /\ UNCHANGED <<count, waking, queue, mode, sig, owed, extra>>

----------------------------------------------------------------------------
(* up, in a process and in an interrupt handler.                            *)

\* wake_up: everybody in the queue becomes runnable.
wake_up == state' = [p \in Procs |-> IF p \in queue THEN "R" ELSE state[p]]

\* The inline part: incl, and jle to the slow path.
Up(p) ==
    /\ cpu = NoProc /\ pc[p] = "in"
    /\ count' = count + 1
    /\ IF count' <= 0 THEN Goto(p, "post") /\ cpu' = p
                      ELSE Goto(p, "out") /\ cpu' = cpu
    /\ sig' = [sig EXCEPT ![p] = FALSE]
    /\ UNCHANGED <<waking, queue, state, mode, owed, extra>>

\* Faulty variant of Post: the queue is not woken.
PostNoWake(p) ==
    /\ cpu = p /\ pc[p] = "post"
    /\ waking' = waking + 1
    /\ Goto(p, "out") /\ cpu' = NoProc
    /\ UNCHANGED <<count, queue, state, mode, sig, owed, extra>>

\* Faulty variant of Post: waking is not raised.
PostNoCount(p) ==
    /\ cpu = p /\ pc[p] = "post"
    /\ wake_up
    /\ Goto(p, "out") /\ cpu' = NoProc
    /\ UNCHANGED <<count, waking, queue, mode, sig, owed, extra>>

\* __up.
Post(p) ==
    /\ cpu = p /\ pc[p] = "post"
    /\ waking' = waking + 1
    /\ wake_up
    /\ Goto(p, "out") /\ cpu' = NoProc
    /\ UNCHANGED <<count, queue, mode, sig, owed, extra>>

\* A holder leaves the up to an interrupt handler.
HandOver(p) ==
    /\ cpu = NoProc /\ pc[p] = "in"
    /\ owed' = owed + 1
    /\ sig' = [sig EXCEPT ![p] = FALSE]
    /\ Goto(p, "out")
    /\ UNCHANGED <<count, waking, queue, state, mode, cpu, extra>>

InterruptUp ==
    /\ owed > 0
    /\ owed' = owed - 1
    /\ count' = count + 1
    /\ IF count' <= 0 THEN waking' = waking + 1 /\ wake_up
                      ELSE UNCHANGED <<waking, state>>
    /\ UNCHANGED <<queue, mode, sig, pc, cpu, extra>>

\* generate: a signal wakes a process that sleeps interruptibly.
Signal(p) ==
    /\ pc[p] \in WaitPcs /\ ~sig[p]
    /\ sig' = [sig EXCEPT ![p] = TRUE]
    /\ state' = [state EXCEPT ![p] = IF @ = "I" THEN "R" ELSE @]
    /\ UNCHANGED <<count, waking, queue, mode, pc, cpu, owed, extra>>

----------------------------------------------------------------------------
Step(p) == \/ Enqueue(p) \/ Test(p) \/ GiveUp(p) \/ Wait(p)
           \/ Schedule(p) \/ Post(p)

Next ==
    \/ InterruptUp
    \/ \E p \in Procs :
         \/ \E m \in {"I", "U"} : Down(p, m)
         \/ Step(p) \/ Resume(p) \/ Up(p) \/ HandOver(p) \/ Signal(p)

Spec == Init /\ [][Next]_vars

\* Kernel code runs on, interrupts come, a holder gives its permit back, and
\* the scheduler gives every runnable process the processor in the end.
Fairness ==
    /\ WF_vars(InterruptUp)
    /\ \A p \in Procs : /\ WF_vars(Step(p))
                        /\ SF_vars(Resume(p))
                        /\ SF_vars(Up(p) \/ HandOver(p))

FairSpec == Spec /\ Fairness

----------------------------------------------------------------------------
\* The fields, task states and program counters keep their types; a process
\* inside the kernel has the processor, and is queued from Enqueue until it
\* leaves the loop.
TypeOK ==
    /\ count \in Int /\ waking \in Nat /\ owed \in Nat /\ extra \in Nat
    /\ queue = {p \in Procs : pc[p] \in WaitPcs \ {"slow"}}
    /\ state \in [Procs -> {"R", "I", "U"}] /\ mode \in [Procs -> {"I", "U"}]
    /\ sig \in [Procs -> BOOLEAN]
    /\ pc \in [Procs -> WaitPcs \cup {"out", "in", "post"}]
    /\ cpu \in Procs \cup {NoProc}
    /\ \A p \in Procs : cpu = p <=> pc[p] \in (WaitPcs \ {"asleep"}) \cup {"post"}

Max0(n) == IF n > 0 THEN n ELSE 0

\* The two counters account for every process in the slow path of down: one
\* that waits is either still owed a wakeup by the negative count or has one
\* coming -- except for the permits that a give-up racing with an interrupt's up
\* has created.
WaitersCounted ==
    Cardinality(Waiters) + extra = waking + Cardinality(Posting) + Max0(-count)

\* Permits are conserved: those held, those an interrupt will give back, those
\* free in count and those on their way through waking add up to the initial
\* count.  Hence a MUTEX has one holder at a time -- except, again, for permits
\* created by that race.
Exclusion ==
    Cardinality(Holders) + owed + Max0(count) + waking + Cardinality(Posting)
        = Permits + extra

\* What down, down_interruptible and up do to count and waking adds up: no
\* waiter is forgotten and no permit lost or forged, interrupts, signals and
\* hand-overs included.
Accounting == TypeOK /\ WaitersCounted /\ Exclusion

\* No wakeup is lost between the test of waking and the sleep: with a wakeup to
\* be taken, no process of the slow path sleeps or is about to.
Awake ==
    waking > 0 =>
        \A p \in Procs : pc[p] \in {"signal", "sched", "asleep"} => state[p] = "R"

\* A semaphore does not stay idle while somebody waits for it.
NoIdleWait == (Waiters # {}) ~> (Holders # {} \/ Waiters = {})

=============================================================================
