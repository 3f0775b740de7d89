------------------------------- MODULE Sched -------------------------------
(***************************************************************************)
(* The scheduler of kernel/sched.c on one processor: the run queue,         *)
(* schedule, sleeping with and without a timeout, wake_up_process from      *)
(* interrupts, the clock tick, sched_yield and sched_setscheduler, and the  *)
(* idle loop of arch/i386/kernel/process.c.                                 *)
(*                                                                         *)
(* schedule looks at the run queue with interrupts enabled: a tick or a     *)
(* wakeup comes between any two tasks of the scan.                          *)
(***************************************************************************)
EXTENDS Integers, Sequences, SequencesExt

CONSTANTS
    Tasks,
    Idle,        \* init_task: the idle task and the end of the run queue
    Priority,    \* the time slice of each task, p->priority
    Policies,    \* policies and priorities sched_setscheduler sets
    Other,       \* of these, SCHED_OTHER with priority 0
    Sleeps       \* how tasks sleep: the state, a timeout or not, a signal or not

ASSUME ConstAssumption ==
    /\ Idle \notin Tasks
    /\ Priority \in [Tasks -> 1..40]      \* nice keeps it within 2*DEF_PRIORITY
    /\ Policies \subseteq {"OTHER", "FIFO", "RR"} \X (0..99)
    /\ \A x \in Policies : x[1] = "OTHER" <=> x[2] = 0
    /\ Other = <<"OTHER", 0>> /\ Other \in Policies
    /\ Sleeps \subseteq {"I", "U"} \X BOOLEAN \X BOOLEAN

VARIABLES
    queue,         \* the run queue from init_task.next_run on
    state,         \* R, I (interruptible) or U
    counter, policy,
    timeout,       \* p->timeout: none, set, or due (not after jiffies)
    armed,         \* the timer on the task's stack is pending
    current, need_resched,
    pc,            \* where the current task is
    pend,          \* current has a signal it does not block
    p, c, next, t  \* locals of schedule; t is timeout, zero or not

locals == <<p, c, next, t>>
tasks == <<state, counter, policy, timeout, armed>>
vars == <<queue, tasks, current, need_resched, pc, pend, locals>>

Never == -1000
On(q) == q \in Range(queue)

Init ==
    /\ queue = <<>> /\ state = [q \in Tasks |-> "U"]
    /\ counter = Priority /\ policy = [q \in Tasks |-> Other]
    /\ timeout = [q \in Tasks |-> "none"] /\ armed = [q \in Tasks |-> FALSE]
    /\ current = Idle /\ need_resched = FALSE /\ pc = "idle" /\ pend = FALSE
    /\ p = Idle /\ c = Never /\ next = Idle /\ t = FALSE

Counter(q) == IF q = Idle THEN -100 ELSE counter[q]
RtPriority(q) == IF q = Idle THEN 0 ELSE policy[q][2]
Realtime(q) == policy[q][1] # "OTHER"

\* p->next_run
NextRun(q) ==
    LET i == CHOOSE i \in DOMAIN queue : queue[i] = q IN
    IF i = Len(queue) THEN Idle ELSE queue[i + 1]

move_last(q) == Append(RemoveFirst(queue, q), q)

----------------------------------------------------------------------------
(* Interrupts.                                                              *)

Unhalt == pc' = IF pc = "halt" THEN "sched" ELSE pc

\* Faulty variant of add_to_runqueue: a real time task is treated as any other.
add_to_runqueue_slow(q) ==
    /\ queue' = Append(queue, q)
    /\ need_resched' = (need_resched \/ counter[q] > Counter(current) + 3)

\* The task goes behind the others.
add_to_runqueue(q) ==
    /\ queue' = Append(queue, q)
    /\ need_resched' = (\/ need_resched
                        \/ Realtime(q) \/ counter[q] > Counter(current) + 3)

\* Also when the task is on the queue still, on its way to sleep.
wake_up_process(q) ==
    /\ state' = [state EXCEPT ![q] = "R"]
    /\ IF On(q) THEN UNCHANGED <<queue, need_resched>> ELSE add_to_runqueue(q)

\* wake_up, or a signal, from an interrupt or the current task.
Wake(q) ==
    /\ state[q] # "R"
    /\ wake_up_process(q) /\ Unhalt
    /\ UNCHANGED <<counter, policy, timeout, armed, current, pend, locals>>

\* update_process_times
Tick ==
    /\ IF current = Idle THEN UNCHANGED <<counter, need_resched>>
       ELSE /\ counter' = [counter EXCEPT ![current] = IF @ = 0 THEN 0 ELSE @ - 1]
            /\ need_resched' = (need_resched \/ counter[current] = 0)
    /\ Unhalt
    /\ UNCHANGED <<queue, state, policy, timeout, armed, current, pend, locals>>

\* Time passes: jiffies reaches the timeout.
Due(q) ==
    /\ timeout[q] = "set"
    /\ timeout' = [timeout EXCEPT ![q] = "due"]
    /\ UNCHANGED <<queue, state, counter, policy, armed, current, need_resched, pc, pend, locals>>

process_timeout(q) ==
    /\ armed[q] /\ timeout[q] = "due"
    /\ armed' = [armed EXCEPT ![q] = FALSE]
    /\ timeout' = [timeout EXCEPT ![q] = "none"]
    /\ wake_up_process(q) /\ Unhalt
    /\ UNCHANGED <<counter, policy, current, pend, locals>>

----------------------------------------------------------------------------
(* The current task.                                                        *)

Runs == pc = "user" /\ current # Idle

\* current->state is set, perhaps after current->timeout; schedule follows.
Sleep(s, to, sig) ==
    /\ Runs
    /\ to => s = "I"
    /\ state' = [state EXCEPT ![current] = s]
    /\ timeout' = [timeout EXCEPT ![current] = IF to THEN "set" ELSE "none"]
    /\ pend' = sig /\ pc' = "sched"
    /\ UNCHANGED <<queue, counter, policy, armed, current, need_resched, locals>>

Yield ==
    /\ Runs
    /\ queue' = move_last(current)
    /\ counter' = [counter EXCEPT ![current] = 0]
    /\ need_resched' = TRUE
    /\ UNCHANGED <<state, policy, timeout, armed, current, pc, pend, locals>>

setscheduler(q, pol) ==
    /\ Runs /\ pol # policy[q]
    /\ policy' = [policy EXCEPT ![q] = pol]
    /\ queue' = IF On(q) THEN move_last(q) ELSE queue
    /\ need_resched' = TRUE
    /\ UNCHANGED <<state, counter, timeout, armed, current, pc, pend, locals>>

\* ret_from_sys_call, on the way back to user mode.
Preempt ==
    /\ Runs /\ need_resched
    /\ pc' = "sched" /\ pend' = FALSE
    /\ UNCHANGED <<queue, tasks, current, need_resched, locals>>

\* sys_idle: the test of need_resched, and hlt, which an interrupt between
\* the two does not prevent.
IdleTest ==
    /\ pc = "idle"
    /\ pc' = IF need_resched THEN "sched" ELSE "hlt"
    /\ UNCHANGED <<queue, tasks, current, need_resched, pend, locals>>

Halt ==
    /\ pc = "hlt" /\ pc' = "halt"
    /\ UNCHANGED <<queue, tasks, current, need_resched, pend, locals>>

----------------------------------------------------------------------------
(* schedule.                                                                *)

Enter ==
    /\ pc = "sched"
    /\ need_resched' = FALSE /\ pc' = "cli"
    /\ UNCHANGED <<queue, tasks, current, pend, locals>>

\* Faulty variant of Cli: a task that sleeps stays queued.
CliKeeps ==
    /\ pc = "cli"
    /\ p' = IF queue = <<>> THEN Idle ELSE Head(queue)
    /\ c' = Never /\ next' = Idle /\ pc' = "scan" /\ t' = FALSE /\ pend' = FALSE
    /\ UNCHANGED <<queue, tasks, current, need_resched>>

\* With interrupts off: an exhausted SCHED_RR task goes last; a task that goes
\* to sleep leaves the queue unless a signal or its timeout is there already.
Cli ==
    /\ pc = "cli"
    /\ LET rr     == current # Idle /\ counter[current] = 0 /\ policy[current][1] = "RR"
           moved  == IF rr THEN move_last(current) ELSE queue
           asleep == current # Idle /\ state[current] # "R"
           due    == asleep /\ state[current] = "I" /\ (pend \/ timeout[current] = "due")
           gone   == asleep /\ ~due
           q      == IF gone THEN RemoveFirst(moved, current) ELSE moved
       IN  /\ counter' = IF rr THEN [counter EXCEPT ![current] = Priority[current]] ELSE counter
           /\ queue' = q
           /\ state' = IF due THEN [state EXCEPT ![current] = "R"] ELSE state
           /\ timeout' = IF due /\ ~pend THEN [timeout EXCEPT ![current] = "none"] ELSE timeout
           /\ t' = (gone /\ state[current] = "I" /\ timeout[current] # "none")
           /\ p' = IF q = <<>> THEN Idle ELSE Head(q)
    /\ c' = Never /\ next' = Idle /\ pc' = "scan" /\ pend' = FALSE
    /\ UNCHANGED <<policy, armed, current, need_resched>>

goodness(q) ==
    IF Realtime(q) THEN 1000 + RtPriority(q)
    ELSE IF counter[q] = 0 THEN 0
    ELSE counter[q] + (IF q = current THEN 1 ELSE 0)

Scan ==
    /\ pc = "scan" /\ p # Idle
    /\ IF goodness(p) > c THEN c' = goodness(p) /\ next' = p ELSE UNCHANGED <<c, next>>
    /\ p' = NextRun(p)
    /\ UNCHANGED <<queue, tasks, current, need_resched, pc, pend, t>>

\* Faulty variant of Chosen: the counters are never filled again.
ChosenKeeps ==
    /\ pc = "scan" /\ p = Idle
    /\ pc' = "switch"
    /\ UNCHANGED <<queue, tasks, current, need_resched, pend, locals>>

\* The end of the scan.  If nobody has time left everybody gets some more.
Chosen ==
    /\ pc = "scan" /\ p = Idle
    /\ counter' = IF c = 0 THEN [q \in Tasks |-> counter[q] \div 2 + Priority[q]] ELSE counter
    /\ pc' = "switch"
    /\ UNCHANGED <<queue, state, policy, timeout, armed, current, need_resched, pend, locals>>

\* Faulty variant of Switch: the timer is forgotten.
SwitchNoTimer ==
    /\ pc = "switch"
    /\ current' = next
    /\ armed' = IF next \in Tasks THEN [armed EXCEPT ![next] = FALSE] ELSE armed
    /\ pc' = IF next = Idle THEN "idle" ELSE "user"
    /\ p' = Idle /\ c' = Never /\ next' = Idle /\ t' = FALSE
    /\ UNCHANGED <<queue, state, counter, policy, timeout, need_resched, pend>>

\* The timer for a sleep that ends in time, switch_to, and, in the task that
\* runs now, del_timer of its own timer.
Switch ==
    /\ pc = "switch"
    /\ current' = next
    /\ armed' = [q \in Tasks |-> IF current = next THEN armed[q]
                                 ELSE IF q = next THEN FALSE
                                 ELSE armed[q] \/ (q = current /\ t)]
    /\ pc' = IF next = Idle THEN "idle" ELSE "user"
    /\ p' = Idle /\ c' = Never /\ next' = Idle /\ t' = FALSE
    /\ UNCHANGED <<queue, state, counter, policy, timeout, need_resched, pend>>

----------------------------------------------------------------------------
Schedule == Enter \/ Cli \/ Scan \/ Chosen \/ Switch

Next ==
    \/ \E q \in Tasks : Wake(q) \/ Due(q) \/ process_timeout(q)
    \/ Tick
    \/ \E x \in Sleeps : Sleep(x[1], x[2], x[3])
    \/ Yield \/ Preempt \/ IdleTest \/ Halt
    \/ \E q \in Tasks, pol \in Policies : setscheduler(q, pol)
    \/ Schedule

Spec == Init /\ [][Next]_vars

\* The kernel's code goes on; the clock ticks, and no task that runs again and
\* again is always asleep when it does; timers run.
FairSpec ==
    /\ Spec
    /\ WF_vars(Schedule) /\ WF_vars(IdleTest \/ Halt) /\ WF_vars(Preempt)
    /\ WF_vars(Tick /\ current = Idle)
    /\ \A q \in Tasks : /\ SF_vars(Tick /\ current = q /\ pc = "user")
                        /\ WF_vars(process_timeout(q)) /\ WF_vars(Due(q))

----------------------------------------------------------------------------
\* The locals of schedule name tasks, and a counter never passes twice the slice:
\* the recalculation adds the slice to half of what is left.
TypeOK ==
    /\ queue \in Seq(Tasks) /\ state \in [Tasks -> {"R", "I", "U"}]
    /\ \A q \in Tasks : counter[q] \in 0 .. 2 * Priority[q]
    /\ policy \in [Tasks -> Policies]
    /\ timeout \in [Tasks -> {"none", "set", "due"}] /\ armed \in [Tasks -> BOOLEAN]
    /\ {current, p, next} \subseteq Tasks \cup {Idle}
    /\ {need_resched, pend, t} \subseteq BOOLEAN /\ c \in Int
    /\ pc \in {"user", "idle", "hlt", "halt", "sched", "cli", "scan", "switch"}

\* The run queue holds every runnable task once, and otherwise only the
\* current task between the setting of its state and del_from_runqueue, though
\* interrupts wake tasks at any moment; what schedule has chosen is on it.
RunqueueExact ==
    /\ TypeOK
    /\ IsInjective(queue)
    /\ \A q \in Tasks : On(q) <=> state[q] = "R" \/ (q = current /\ pc \in {"sched", "cli"})
    /\ pc = "user" => On(current)
    /\ pc \in {"scan", "switch"} => {p, next} \subseteq Range(queue) \cup {Idle}

\* "Realtime process, select the first one": where a task runs, a runnable
\* real time task of a higher priority is about to be scheduled, also when it
\* was woken behind the back of the scan or was given its priority just now.
RealtimeFirst ==
    pc \in {"user", "idle", "hlt", "halt"} /\ ~need_resched =>
        \A q \in Range(queue) : RtPriority(q) <= RtPriority(current)

\* A sleep with a timeout ends: schedule has set the timer, or will when it
\* switches, for every task that sleeps and whose timeout is not zero.
TimeoutArmed ==
    \A q \in Tasks : state[q] = "I" /\ ~On(q) /\ timeout[q] # "none" =>
        armed[q] \/ (q = current /\ t /\ next # current)

\* Nobody starves among tasks of SCHED_OTHER: once no real time task is left, a
\* task that is runnable runs in the end, whoever sleeps and is woken
\* meanwhile, since the counters of all runnable tasks are used up before
\* anybody gets a second slice.
RunnableRuns ==
    <>[](policy = [q \in Tasks |-> Other]) => \A q \in Tasks : []<>(On(q) => current = q)
=============================================================================
