---------------------------- MODULE SchedProofs ----------------------------
(***************************************************************************)
(* What holds of the scheduler for any set of tasks, any time slices and    *)
(* any policies setscheduler accepts: the run queue is exact, a real time   *)
(* task is never passed over, and a sleep with a timeout has its timer.     *)
(*                                                                         *)
(* The run queue needs no more than the place of the idle task.  That the   *)
(* best task runs needs what schedule knows in the middle of its scan, with *)
(* interrupts enabled.                                                      *)
(***************************************************************************)
EXTENDS Sched, TLAPS

Phases == {"user", "idle", "hlt", "halt", "sched", "cli", "scan", "switch"}

\* The idle loop is init_task's.
Idling ==
    /\ counter \in [Tasks -> Nat]
    /\ pc \in {"idle", "hlt", "halt"} => current = Idle

\* The scan has passed the task at i.
Passed(i) == p = Idle \/ \E j \in DOMAIN queue : i < j /\ queue[j] = p

\* c is the goodness of next when it was looked at, which says its real time
\* priority; no task passed so far has a higher one, unless an interrupt asked
\* for another round.
ScanBest ==
    pc = "scan" =>
        /\ IF RtPriority(next) > 0 THEN c = 1000 + RtPriority(next) ELSE c < 1000
        /\ ~need_resched =>
               \A i \in DOMAIN queue : Passed(i) => RtPriority(queue[i]) <= RtPriority(next)

ChosenBest ==
    pc = "switch" /\ ~need_resched =>
        \A q \in Range(queue) : RtPriority(q) <= RtPriority(next)

Inv == RunqueueExact /\ Idling /\ RealtimeFirst /\ ScanBest /\ ChosenBest /\ TimeoutArmed

----------------------------------------------------------------------------
(* The run queue as a sequence.                                             *)

\* add_to_runqueue
LEMMA AppendFacts ==
    ASSUME NEW s \in Seq(Tasks), NEW e \in Tasks
    PROVE  /\ Append(s, e) \in Seq(Tasks)
           /\ DOMAIN s = 1..Len(s) /\ Len(s) \in Nat
           /\ DOMAIN Append(s, e) = 1..(Len(s) + 1)
           /\ \A i \in 1..Len(s) : Append(s, e)[i] = s[i]
           /\ Append(s, e)[Len(s) + 1] = e
           /\ Range(Append(s, e)) = Range(s) \cup {e}
           /\ IsInjective(s) /\ e \notin Range(s) => IsInjective(Append(s, e))
<1> DEFINE u == Append(s, e)
<1>1. /\ u \in Seq(Tasks) /\ DOMAIN u = 1..(Len(s) + 1)
      /\ DOMAIN s = 1..Len(s) /\ Len(s) \in Nat
      /\ \A i \in 1..Len(s) : u[i] = s[i]
      /\ u[Len(s) + 1] = e
  OBVIOUS
<1> HIDE DEF u
<1>2. Range(u) = Range(s) \cup {e}
  BY <1>1 DEF Range
<1>3. ASSUME IsInjective(s), e \notin Range(s)
      PROVE  IsInjective(u)
  BY <1>1, <1>3 DEF IsInjective, Range
<1> QED BY <1>1, <1>2, <1>3 DEF u

\* A sequence without its element at k.
LEMMA WithoutFacts ==
    ASSUME NEW s \in Seq(Tasks), NEW k \in 1..Len(s)
    PROVE  /\ RemoveAt(s, k) \in Seq(Tasks)
           /\ IsInjective(s) => /\ IsInjective(RemoveAt(s, k))
                                /\ Range(RemoveAt(s, k)) = Range(s) \ {s[k]}
<1> DEFINE a == SubSeq(s, 1, k - 1)
           b == SubSeq(s, k + 1, Len(s))
<1>1. /\ a \in Seq(Tasks) /\ Len(a) = k - 1
      /\ \A i \in 1..(k - 1) : a[i] = s[i]
  OBVIOUS
<1>2. /\ b \in Seq(Tasks) /\ Len(b) = Len(s) - k
      /\ \A i \in 1..(Len(s) - k) : b[i] = s[i + k]
  OBVIOUS
<1>3. DOMAIN s = 1..Len(s) /\ Len(s) \in Nat
  OBVIOUS
<1> HIDE DEF a, b
<1>4. /\ a \o b \in Seq(Tasks) /\ Len(a \o b) = Len(s) - 1 /\ DOMAIN (a \o b) = 1..(Len(s) - 1)
      /\ \A i \in 1..(Len(s) - 1) : (a \o b)[i] = IF i < k THEN s[i] ELSE s[i + 1]
  <2>1. a \in Seq(Tasks) /\ b \in Seq(Tasks)
    BY <1>1, <1>2
  <2>2. a \o b \in Seq(Tasks)
    BY <2>1
  <2>3. Len(a \o b) = Len(a) + Len(b)
    BY <2>1
  <2>4. \A i \in 1..(Len(s) - 1) : (a \o b)[i] = IF i <= Len(a) THEN a[i] ELSE b[i - Len(a)]
    BY <1>1, <1>2
  <2>5. ASSUME NEW i \in 1..(Len(s) - 1)
        PROVE  (a \o b)[i] = IF i < k THEN s[i] ELSE s[i + 1]
    <3>1. CASE i < k
      BY <1>1, <1>2, <2>4, <3>1
    <3>2. CASE ~(i < k)
      <4>1. i - Len(a) \in 1..(Len(s) - k) /\ i - Len(a) + k = i + 1 /\ ~(i <= Len(a))
        BY <1>1, <1>3, <3>2
      <4> QED BY <1>2, <2>4, <3>2, <4>1
    <3> QED BY <3>1, <3>2
  <2>6. DOMAIN (a \o b) = 1..Len(a \o b)
    BY <2>2
  <2> QED BY <1>1, <1>2, <2>2, <2>3, <2>5, <2>6
<1> DEFINE r == RemoveAt(s, k)
           at(i) == IF i < k THEN i ELSE i + 1
<1>5. /\ r \in Seq(Tasks) /\ DOMAIN r = 1..(Len(s) - 1)
      /\ \A i \in 1..(Len(s) - 1) : r[i] = s[at(i)]
  BY <1>4 DEF RemoveAt, a, b
<1> HIDE DEF r
<1>6. /\ \A i \in 1..(Len(s) - 1) : at(i) \in 1..Len(s) \ {k}
      /\ \A i, j \in 1..(Len(s) - 1) : at(i) = at(j) => i = j
      /\ \A n \in 1..Len(s) \ {k} : \E i \in 1..(Len(s) - 1) : at(i) = n
  <2>1. ASSUME NEW n \in 1..Len(s) \ {k}
        PROVE  \E i \in 1..(Len(s) - 1) : at(i) = n
    <3>1. CASE n < k
      BY <1>3, <3>1
    <3>2. CASE n > k
      <4> WITNESS n - 1 \in 1..(Len(s) - 1)
      <4> QED BY <1>3, <3>2
    <3> QED BY <1>3, <3>1, <3>2
  <2> QED BY <1>3, <2>1
<1> HIDE DEF at
<1>7. ASSUME IsInjective(s)
      PROVE  IsInjective(r)
  BY <1>3, <1>5, <1>6, <1>7 DEF IsInjective
<1>8. ASSUME IsInjective(s)
      PROVE  Range(r) = Range(s) \ {s[k]}
  <2>1. ASSUME NEW x \in Range(r)
        PROVE  x \in Range(s) \ {s[k]}
    <3>1. PICK i \in 1..(Len(s) - 1) : x = s[at(i)]
      BY <1>5, <2>1 DEF Range
    <3>2. at(i) \in 1..Len(s) /\ at(i) # k
      BY <1>6, <3>1
    <3> QED BY <1>3, <1>8, <3>1, <3>2 DEF IsInjective, Range
  <2>2. ASSUME NEW x \in Range(s) \ {s[k]}
        PROVE  x \in Range(r)
    <3>1. PICK n \in 1..Len(s) \ {k} : x = s[n]
      BY <1>3, <2>2 DEF Range
    <3>2. PICK i \in 1..(Len(s) - 1) : at(i) = n
      BY <1>6, <3>1
    <3>3. x = r[i]
      BY <1>5, <3>1, <3>2
    <3> QED BY <1>5, <3>2, <3>3 DEF Range
  <2> QED BY <2>1, <2>2
<1> QED BY <1>5, <1>7, <1>8 DEF r

\* del_from_runqueue
LEMMA RemoveFacts ==
    ASSUME NEW s \in Seq(Tasks), IsInjective(s), NEW e
    PROVE  /\ RemoveFirst(s, e) \in Seq(Tasks)
           /\ IsInjective(RemoveFirst(s, e))
           /\ Range(RemoveFirst(s, e)) = Range(s) \ {e}
<1>1. DOMAIN s = 1..Len(s) /\ Len(s) \in Nat
  OBVIOUS
<1>2. CASE \E i \in 1..Len(s) : s[i] = e
  <2> DEFINE I == {i \in 1..Len(s) : s[i] = e}
             k == Min(I)
  <2>1. PICK i \in 1..Len(s) : s[i] = e
    BY <1>2
  <2>2. I = {i}
    BY <1>1, <2>1 DEF IsInjective
  <2>3. k = i
    BY <2>2 DEF Min
  <2>4. RemoveFirst(s, e) = RemoveAt(s, i)
    BY <1>2, <2>2, <2>3 DEF RemoveFirst, SelectInSeq
  <2> QED BY <2>1, <2>4, WithoutFacts
<1>3. CASE ~(\E i \in 1..Len(s) : s[i] = e)
  <2>1. RemoveFirst(s, e) = s
    BY <1>3 DEF RemoveFirst
  <2>2. e \notin Range(s)
    BY <1>1, <1>3 DEF Range
  <2> QED BY <2>1, <2>2
<1> QED BY <1>2, <1>3

\* move_last_runqueue
LEMMA MoveFacts ==
    ASSUME queue \in Seq(Tasks), IsInjective(queue), NEW q \in Tasks, On(q)
    PROVE  /\ move_last(q) \in Seq(Tasks)
           /\ IsInjective(move_last(q))
           /\ Range(move_last(q)) = Range(queue)
<1> DEFINE r == RemoveFirst(queue, q)
<1>1. r \in Seq(Tasks) /\ IsInjective(r) /\ Range(r) = Range(queue) \ {q}
  BY RemoveFacts
<1> HIDE DEF r
<1>2. /\ Append(r, q) \in Seq(Tasks) /\ IsInjective(Append(r, q))
      /\ Range(Append(r, q)) = Range(r) \cup {q}
  BY <1>1, AppendFacts
<1>3. move_last(q) = Append(r, q)
  BY DEF move_last, r
<1> QED BY <1>1, <1>2, <1>3 DEF On

\* p->next_run is the task behind p, or init_task behind the last.
LEMMA NextRunFacts ==
    ASSUME queue \in Seq(Tasks), IsInjective(queue), NEW k \in 1..Len(queue)
    PROVE  NextRun(queue[k]) = IF k = Len(queue) THEN Idle ELSE queue[k + 1]
<1>1. DOMAIN queue = 1..Len(queue)
  OBVIOUS
<1> DEFINE i == CHOOSE i \in DOMAIN queue : queue[i] = queue[k]
<1>2. i \in DOMAIN queue /\ queue[i] = queue[k]
  BY <1>1
<1>3. i = k
  BY <1>1, <1>2 DEF IsInjective
<1>4. NextRun(queue[k]) = IF i = Len(queue) THEN Idle ELSE queue[i + 1]
  BY DEF NextRun
<1> HIDE DEF i
<1> QED BY <1>3, <1>4

----------------------------------------------------------------------------
(* The run queue through a step.                                            *)

\* wake_up_process puts the task behind the others or leaves the queue alone.
LEMMA WakeFacts ==
    ASSUME TypeOK, IsInjective(queue), NEW q \in Tasks, wake_up_process(q)
    PROVE  /\ queue' \in Seq(Tasks) /\ IsInjective(queue')
           /\ Range(queue') = Range(queue) \cup {q}
           /\ state' = [state EXCEPT ![q] = "R"]
           /\ need_resched' \in BOOLEAN /\ (need_resched => need_resched')
           /\ \/ queue' = queue
              \/ /\ DOMAIN queue = 1..Len(queue) /\ Len(queue) \in Nat
                 /\ DOMAIN queue' = 1..(Len(queue) + 1)
                 /\ \A i \in 1..Len(queue) : queue'[i] = queue[i]
                 /\ queue'[Len(queue) + 1] = q
                 /\ Realtime(q) => need_resched'
<1>1. queue \in Seq(Tasks) /\ need_resched \in BOOLEAN
  BY DEF TypeOK
<1>2. state' = [state EXCEPT ![q] = "R"]
  BY DEF wake_up_process, add_to_runqueue
<1>3. need_resched' \in BOOLEAN /\ (need_resched => need_resched')
  <2>1. CASE On(q)
    BY <1>1, <2>1, Zenon DEF wake_up_process, add_to_runqueue
  <2>2. CASE ~On(q)
    <3> DEFINE N == \/ need_resched
                    \/ Realtime(q) \/ counter[q] > Counter(current) + 3
    <3>1. need_resched' = N
      BY <2>2, Zenon DEF wake_up_process, add_to_runqueue
    <3>2. N \in BOOLEAN /\ (need_resched => N)
      BY Zenon
    <3> QED BY <3>1, <3>2, Zenon
  <2> QED BY <2>1, <2>2
<1>4. CASE On(q)
  <2>1. queue' = queue
    BY <1>4 DEF wake_up_process, add_to_runqueue
  <2>2. Range(queue') = Range(queue) \cup {q}
    BY <1>4, <2>1 DEF On
  <2> QED BY <1>1, <1>2, <1>3, <2>1, <2>2, Zenon
<1>5. CASE ~On(q)
  <2>1. queue' = Append(queue, q)
    BY <1>5 DEF wake_up_process, add_to_runqueue
  <2>2. Realtime(q) => need_resched'
    BY <1>5, Zenon DEF wake_up_process, add_to_runqueue
  <2>3. q \notin Range(queue)
    BY <1>5 DEF On
  <2> QED BY <1>1, <1>2, <1>3, <2>1, <2>2, <2>3, AppendFacts
<1> QED BY <1>4, <1>5

\* Interrupts leave the phase alone, or end the halt.
LEMMA UnhaltFacts ==
    ASSUME TypeOK, Unhalt
    PROVE  /\ pc' \in Phases
           /\ pc' = pc \/ (pc = "halt" /\ pc' = "sched")
BY DEF TypeOK, Unhalt, Phases

\* A step is one of these.
LEMMA NextCases ==
    ASSUME [Next]_vars
    PROVE  \/ \E q \in Tasks : Wake(q)
           \/ \E q \in Tasks : Due(q)
           \/ \E q \in Tasks : process_timeout(q)
           \/ Tick
           \/ \E x \in Sleeps : Sleep(x[1], x[2], x[3])
           \/ Yield \/ Preempt \/ IdleTest \/ Halt
           \/ \E q \in Tasks, pol \in Policies : setscheduler(q, pol)
           \/ Enter \/ Cli \/ Scan \/ Chosen \/ Switch
           \/ UNCHANGED vars
BY Zenon DEF Next, Schedule

\* What Cli leaves of the run queue: it loses the current task if that one goes
\* to sleep, and nobody else.
LEMMA CliFacts ==
    ASSUME RunqueueExact, Cli
    PROVE  LET asleep == current # Idle /\ state[current] # "R"
               due    == asleep /\ state[current] = "I" /\ (pend \/ timeout[current] = "due")
           IN  /\ queue' \in Seq(Tasks) /\ IsInjective(queue')
               /\ Range(queue') = IF asleep /\ ~due THEN Range(queue) \ {current}
                                  ELSE Range(queue)
               /\ p' = IF queue' = <<>> THEN Idle ELSE Head(queue')
<1> DEFINE rr     == current # Idle /\ counter[current] = 0 /\ policy[current][1] = "RR"
           moved  == IF rr THEN move_last(current) ELSE queue
           asleep == current # Idle /\ state[current] # "R"
           due    == asleep /\ state[current] = "I" /\ (pend \/ timeout[current] = "due")
           q      == IF asleep /\ ~due THEN RemoveFirst(moved, current) ELSE moved
<1>1. /\ queue' = q
      /\ p' = IF q = <<>> THEN Idle ELSE Head(q)
  BY Zenon DEF Cli
<1>2. queue \in Seq(Tasks) /\ IsInjective(queue) /\ current \in Tasks \cup {Idle}
  BY DEF RunqueueExact, TypeOK
<1>3. current # Idle => current \in Tasks /\ On(current)
  BY <1>2 DEF RunqueueExact, Cli
<1>4. moved \in Seq(Tasks) /\ IsInjective(moved) /\ Range(moved) = Range(queue)
  <2>1. CASE rr
    <3>1. moved = move_last(current)
      BY <2>1
    <3> QED BY <1>2, <1>3, <2>1, <3>1, MoveFacts
  <2>2. CASE ~rr
    BY <1>2, <2>2
  <2> QED BY <2>1, <2>2
<1> HIDE DEF rr, moved
<1>5. /\ q \in Seq(Tasks) /\ IsInjective(q)
      /\ Range(q) = IF asleep /\ ~due THEN Range(queue) \ {current} ELSE Range(queue)
  <2>1. CASE asleep /\ ~due
    <3>1. q = RemoveFirst(moved, current)
      BY <2>1
    <3> QED BY <1>4, <2>1, <3>1, RemoveFacts
  <2>2. CASE ~(asleep /\ ~due)
    <3>1. q = moved
      BY <2>2
    <3> QED BY <1>4, <2>2, <3>1
  <2> QED BY <2>1, <2>2
<1> HIDE DEF q
<1> QED BY <1>1, <1>5

\* Types and the place of the idle task: slices and counters.
LEMMA CounterFacts ==
    ASSUME TypeOK, Idling, NEW q \in Tasks
    PROVE  /\ Priority[q] \in 1..40 /\ counter[q] \in Nat /\ counter[q] <= 2 * Priority[q]
           /\ counter[q] <= 80
<1>1. Priority[q] \in 1..40
  BY ConstAssumption
<1>2. counter[q] \in 0..(2 * Priority[q])
  BY DEF TypeOK
<1> QED BY <1>1, <1>2

\* A policy setscheduler accepts is a real time one when it has a priority.
LEMMA PolicyFacts ==
    ASSUME TypeOK, NEW q \in Tasks
    PROVE  /\ policy[q] \in Policies /\ policy[q][2] \in 0..99
           /\ RtPriority(q) = policy[q][2]
           /\ ~Realtime(q) => RtPriority(q) = 0
           /\ Realtime(q) => RtPriority(q) > 0
<1>1. policy[q] \in Policies
  BY DEF TypeOK
<1>2. policy[q][2] \in 0..99 /\ (policy[q][1] = "OTHER" <=> policy[q][2] = 0)
  BY <1>1, ConstAssumption
<1>3. RtPriority(q) = policy[q][2]
  BY ConstAssumption DEF RtPriority
<1> QED BY <1>1, <1>2, <1>3 DEF Realtime

\* Types and the idle task through a step.
LEMMA TypeStep ==
    ASSUME RunqueueExact, Idling, [Next]_vars
    PROVE  TypeOK' /\ Idling'
<1> USE ConstAssumption
<1>0. TypeOK /\ IsInjective(queue)
  BY DEF RunqueueExact
<1>1. ASSUME NEW q \in Tasks, Wake(q)
      PROVE  TypeOK' /\ Idling'
  <2>1. queue' \in Seq(Tasks) /\ state' = [state EXCEPT ![q] = "R"] /\ need_resched' \in BOOLEAN
    BY <1>0, <1>1, WakeFacts DEF Wake
  <2>2. pc' \in Phases /\ (pc' = pc \/ pc' = "sched")
    BY <1>0, <1>1, UnhaltFacts DEF Wake
  <2>3. UNCHANGED <<counter, policy, timeout, armed, current, pend, p, c, next, t>>
    BY <1>1 DEF Wake, locals
  <2>4. {need_resched, pend, t}' \subseteq BOOLEAN
    BY <1>0, <2>1, <2>3, Zenon DEF TypeOK
  <2> QED BY <1>0, <2>1, <2>2, <2>3, <2>4 DEF TypeOK, Idling, Phases
<1>2. ASSUME NEW q \in Tasks, Due(q)
      PROVE  TypeOK' /\ Idling'
  BY <1>0, <1>2 DEF Due, locals, TypeOK, Idling
<1>3. ASSUME NEW q \in Tasks, process_timeout(q)
      PROVE  TypeOK' /\ Idling'
  <2>1. queue' \in Seq(Tasks) /\ state' = [state EXCEPT ![q] = "R"] /\ need_resched' \in BOOLEAN
    BY <1>0, <1>3, WakeFacts DEF process_timeout
  <2>2. pc' \in Phases /\ (pc' = pc \/ pc' = "sched")
    BY <1>0, <1>3, UnhaltFacts DEF process_timeout
  <2>3. /\ UNCHANGED <<counter, policy, current, pend, p, c, next, t>>
        /\ armed' = [armed EXCEPT ![q] = FALSE]
        /\ timeout' = [timeout EXCEPT ![q] = "none"]
    BY <1>3 DEF process_timeout, locals
  <2>4. {need_resched, pend, t}' \subseteq BOOLEAN
    BY <1>0, <2>1, <2>3, Zenon DEF TypeOK
  <2> QED BY <1>0, <2>1, <2>2, <2>3, <2>4 DEF TypeOK, Idling, Phases
<1>4. ASSUME Tick
      PROVE  TypeOK' /\ Idling'
  <2>1. pc' \in Phases /\ (pc' = pc \/ pc' = "sched")
    BY <1>0, <1>4, UnhaltFacts DEF Tick
  <2>2. UNCHANGED <<queue, state, policy, timeout, armed, current, pend, p, c, next, t>>
    BY <1>4 DEF Tick, locals
  <2>3. need_resched' \in BOOLEAN
    <3>1. CASE current = Idle
      BY <1>0, <1>4, <3>1, Zenon DEF Tick, TypeOK
    <3>2. CASE current # Idle
      <4>1. need_resched' = (need_resched \/ counter[current] = 0)
        BY <1>4, <3>2, Zenon DEF Tick
      <4> QED BY <4>1, Zenon
    <3> QED BY <3>1, <3>2
  <2>4. {need_resched, pend, t}' \subseteq BOOLEAN
    BY <1>0, <2>2, <2>3, Zenon DEF TypeOK
  <2>5. counter' \in [Tasks -> Nat] /\ \A q \in Tasks : counter'[q] \in 0 .. 2 * Priority[q]
    <3>1. CASE current = Idle
      BY <1>0, <1>4, <3>1 DEF Tick, TypeOK, Idling
    <3>2. CASE current # Idle
      <4>1. current \in Tasks
        BY <1>0, <3>2 DEF TypeOK
      <4>2. counter' = [counter EXCEPT ![current] = IF counter[current] = 0 THEN 0 ELSE counter[current] - 1]
        BY <1>4, <3>2, Zenon DEF Tick
      <4>3. ASSUME NEW q \in Tasks
            PROVE  counter'[q] \in Nat /\ counter'[q] \in 0 .. 2 * Priority[q]
        BY <1>0, <4>1, <4>2, CounterFacts DEF Idling
      <4>4. counter' \in [Tasks -> Nat]
        BY <4>1, <4>2, <4>3 DEF Idling
      <4> QED BY <4>3, <4>4
    <3> QED BY <3>1, <3>2
  <2> QED BY <1>0, <2>1, <2>2, <2>4, <2>5 DEF TypeOK, Idling, Phases
<1>5. ASSUME NEW x \in Sleeps, Sleep(x[1], x[2], x[3])
      PROVE  TypeOK' /\ Idling'
  <2>1. x[1] \in {"I", "U"} /\ x[3] \in BOOLEAN
    OBVIOUS
  <2>2. current \in Tasks
    BY <1>0, <1>5 DEF TypeOK, Sleep, Runs
  <2>3. state' \in [Tasks -> {"R", "I", "U"}]
    BY <1>0, <1>5, <2>1, <2>2 DEF TypeOK, Sleep
  <2>4. timeout' \in [Tasks -> {"none", "set", "due"}]
    BY <1>0, <1>5, <2>2 DEF TypeOK, Sleep
  <2>5. /\ pend' = x[3] /\ pc' = "sched"
        /\ UNCHANGED <<queue, counter, policy, armed, current, need_resched, p, c, next, t>>
    BY <1>5, Zenon DEF Sleep, locals
  <2>6. {need_resched, pend, t}' \subseteq BOOLEAN
    BY <1>0, <2>1, <2>5, Zenon DEF TypeOK
  <2> QED BY <1>0, <2>3, <2>4, <2>5, <2>6 DEF TypeOK, Idling
<1>6. ASSUME Yield
      PROVE  TypeOK' /\ Idling'
  <2>1. current \in Tasks /\ On(current)
    BY <1>0, <1>6 DEF TypeOK, Yield, Runs, RunqueueExact
  <2>2. queue' \in Seq(Tasks)
    BY <1>0, <1>6, <2>1, MoveFacts DEF Yield, TypeOK
  <2>3. counter' \in [Tasks -> Nat] /\ \A q \in Tasks : counter'[q] \in 0 .. 2 * Priority[q]
    <3>1. counter' = [counter EXCEPT ![current] = 0]
      BY <1>6 DEF Yield
    <3> QED BY <1>0, <2>1, <3>1, CounterFacts DEF Idling
  <2> QED BY <1>0, <1>6, <2>2, <2>3 DEF Yield, TypeOK, Idling, locals
<1>7. ASSUME Preempt
      PROVE  TypeOK' /\ Idling'
  BY <1>0, <1>7 DEF Preempt, TypeOK, Idling, locals, tasks
<1>8. ASSUME IdleTest
      PROVE  TypeOK' /\ Idling'
  BY <1>0, <1>8 DEF IdleTest, TypeOK, Idling, locals, tasks
<1>9. ASSUME Halt
      PROVE  TypeOK' /\ Idling'
  BY <1>0, <1>9 DEF Halt, TypeOK, Idling, locals, tasks
<1>10. ASSUME NEW q \in Tasks, NEW pol \in Policies, setscheduler(q, pol)
       PROVE  TypeOK' /\ Idling'
  <2>1. queue' \in Seq(Tasks)
    <3>1. CASE On(q)
      BY <1>0, <1>10, <3>1, MoveFacts DEF setscheduler, TypeOK
    <3>2. CASE ~On(q)
      BY <1>0, <1>10, <3>2 DEF setscheduler, TypeOK
    <3> QED BY <3>1, <3>2
  <2> QED BY <1>0, <1>10, <2>1 DEF setscheduler, TypeOK, Idling, locals
<1>11. ASSUME Enter
       PROVE  TypeOK' /\ Idling'
  BY <1>0, <1>11 DEF Enter, TypeOK, Idling, locals, tasks
<1>12. ASSUME Cli
       PROVE  TypeOK' /\ Idling'
  <2> DEFINE rr     == current # Idle /\ counter[current] = 0 /\ policy[current][1] = "RR"
             asleep == current # Idle /\ state[current] # "R"
             due    == asleep /\ state[current] = "I" /\ (pend \/ timeout[current] = "due")
  <2>1. queue' \in Seq(Tasks) /\ p' = IF queue' = <<>> THEN Idle ELSE Head(queue')
    BY <1>12, CliFacts
  <2>2. current \in Tasks \cup {Idle}
    BY <1>0 DEF TypeOK
  <2>3. /\ counter' = IF rr THEN [counter EXCEPT ![current] = Priority[current]] ELSE counter
        /\ state' = IF due THEN [state EXCEPT ![current] = "R"] ELSE state
        /\ timeout' = IF due /\ ~pend THEN [timeout EXCEPT ![current] = "none"] ELSE timeout
        /\ t' = ((asleep /\ ~due) /\ state[current] = "I" /\ timeout[current] # "none")
        /\ c' = Never /\ next' = Idle /\ pc' = "scan" /\ pend' = FALSE
        /\ UNCHANGED <<policy, armed, current, need_resched>>
    BY <1>12, Zenon DEF Cli
  <2>4. {need_resched, pend, t}' \subseteq BOOLEAN
    BY <1>0, <2>3, Zenon DEF TypeOK
  <2> HIDE DEF rr, due
  <2>5. counter' \in [Tasks -> Nat] /\ \A q \in Tasks : counter'[q] \in 0 .. 2 * Priority[q]
    <3>1. CASE rr
      <4>1. current \in Tasks
        BY <2>2, <3>1 DEF rr
      <4>2. counter' = [counter EXCEPT ![current] = Priority[current]]
        BY <2>3, <3>1
      <4> QED BY <1>0, <4>1, <4>2, CounterFacts DEF Idling
    <3>2. CASE ~rr
      BY <1>0, <2>3, <3>2 DEF TypeOK, Idling
    <3> QED BY <3>1, <3>2
  <2>6. state' \in [Tasks -> {"R", "I", "U"}] /\ timeout' \in [Tasks -> {"none", "set", "due"}]
    BY <1>0, <2>3 DEF TypeOK
  <2>7. p' \in Tasks \cup {Idle}
    BY <2>1
  <2> QED BY <1>0, <2>1, <2>3, <2>4, <2>5, <2>6, <2>7 DEF TypeOK, Idling, Never
<1>13. ASSUME Scan
       PROVE  TypeOK' /\ Idling'
  <2>1. p \in Tasks /\ On(p)
    BY <1>0, <1>13 DEF Scan, TypeOK, RunqueueExact, On
  <2>2. p' \in Tasks \cup {Idle}
    <3>1. PICK k \in 1..Len(queue) : queue[k] = p
      BY <1>0, <2>1 DEF On, Range, TypeOK
    <3>2. p' = IF k = Len(queue) THEN Idle ELSE queue[k + 1]
      BY <1>0, <1>13, <3>1, NextRunFacts DEF TypeOK, Scan
    <3> QED BY <1>0, <3>1, <3>2 DEF TypeOK
  <2>3. goodness(p) \in Int
    BY <1>0, <2>1, CounterFacts, PolicyFacts DEF goodness
  <2>4. c' \in Int /\ next' \in Tasks \cup {Idle}
    BY <1>0, <1>13, <2>1, <2>3 DEF Scan, TypeOK
  <2> QED BY <1>0, <1>13, <2>2, <2>4 DEF Scan, TypeOK, Idling, tasks
<1>14. ASSUME Chosen
       PROVE  TypeOK' /\ Idling'
  <2>1. counter' \in [Tasks -> Nat] /\ \A q \in Tasks : counter'[q] \in 0 .. 2 * Priority[q]
    <3>1. CASE c = 0
      <4>1. ASSUME NEW q \in Tasks
            PROVE  /\ counter[q] \div 2 + Priority[q] \in Nat
                   /\ counter[q] \div 2 + Priority[q] \in 0 .. 2 * Priority[q]
        <5>1. counter[q] \in Nat /\ counter[q] <= 2 * Priority[q] /\ Priority[q] \in Nat
          BY <1>0, CounterFacts
        <5> QED BY <5>1
      <4>2. counter' = [q \in Tasks |-> counter[q] \div 2 + Priority[q]]
        BY <1>14, <3>1 DEF Chosen
      <4> QED BY <4>1, <4>2
    <3>2. CASE c # 0
      BY <1>0, <1>14, <3>2 DEF Chosen, TypeOK, Idling
    <3> QED BY <3>1, <3>2
  <2> QED BY <1>0, <1>14, <2>1 DEF Chosen, TypeOK, Idling, locals
<1>15. ASSUME Switch
       PROVE  TypeOK' /\ Idling'
  <2>1. armed' \in [Tasks -> BOOLEAN]
    <3>1. \A q \in Tasks : armed[q] \in BOOLEAN
      BY <1>0, Zenon DEF TypeOK
    <3>2. ASSUME NEW q \in Tasks
          PROVE  (IF current = next THEN armed[q]
                  ELSE IF q = next THEN FALSE
                  ELSE armed[q] \/ (q = current /\ t)) \in BOOLEAN
      BY <3>1, Zenon
    <3> QED BY <1>15, <3>2 DEF Switch
  <2>2. {need_resched, pend, t}' \subseteq BOOLEAN
    BY <1>0, <1>15, Zenon DEF Switch, TypeOK
  <2>3. /\ current' = next /\ pc' = IF next = Idle THEN "idle" ELSE "user"
        /\ p' = Idle /\ c' = Never /\ next' = Idle
        /\ UNCHANGED <<queue, state, counter, policy, timeout>>
    BY <1>15, Zenon DEF Switch
  <2> QED BY <1>0, <2>1, <2>2, <2>3 DEF TypeOK, Idling, Never
<1>16. ASSUME UNCHANGED vars
       PROVE  TypeOK' /\ Idling'
  BY <1>0, <1>16 DEF vars, locals, tasks, TypeOK, Idling
<1> QED
  BY <1>1, <1>2, <1>3, <1>4, <1>5, <1>6, <1>7, <1>8, <1>9, <1>10, <1>11, <1>12, <1>13,
     <1>14, <1>15, <1>16, NextCases, Zenon

\* The run queue through a step.
LEMMA RunqueueStep ==
    ASSUME RunqueueExact, Idling, [Next]_vars
    PROVE  RunqueueExact'
<1> USE ConstAssumption
<1>0. /\ TypeOK /\ IsInjective(queue) /\ queue \in Seq(Tasks)
      /\ current \in Tasks \cup {Idle} /\ p \in Tasks \cup {Idle}
  BY DEF RunqueueExact, TypeOK
<1>t. TypeOK'
  BY TypeStep
<1>1. ASSUME NEW q \in Tasks, wake_up_process(q), Unhalt, UNCHANGED <<current, p, next>>
      PROVE  RunqueueExact'
  <2>1. /\ IsInjective(queue') /\ Range(queue') = Range(queue) \cup {q}
        /\ state' = [state EXCEPT ![q] = "R"]
    BY <1>0, <1>1, WakeFacts
  <2>2. pc' = pc \/ (pc = "halt" /\ pc' = "sched")
    BY <1>0, <1>1, UnhaltFacts
  <2>3. ASSUME NEW r \in Tasks
        PROVE  r \in Range(queue') <=> state'[r] = "R" \/ (r = current' /\ pc' \in {"sched", "cli"})
    <3>1. CASE r = q
      BY <1>0, <2>1, <3>1 DEF TypeOK
    <3>2. CASE r # q
      <4>1. state'[r] = state[r] /\ (r \in Range(queue') <=> On(r))
        BY <1>0, <2>1, <3>2 DEF TypeOK, On
      <4>2. r = current' /\ pc' \in {"sched", "cli"} <=> r = current /\ pc \in {"sched", "cli"}
        BY <1>1, <2>2 DEF Idling
      <4> QED BY <4>1, <4>2 DEF RunqueueExact
    <3> QED BY <3>1, <3>2
  <2>4. pc' = "user" => current' \in Range(queue')
    BY <1>1, <2>1, <2>2 DEF RunqueueExact, On
  <2>5. pc' \in {"scan", "switch"} => {p, next}' \subseteq Range(queue') \cup {Idle}
    BY <1>1, <2>1, <2>2 DEF RunqueueExact
  <2> QED BY <1>t, <2>1, <2>3, <2>4, <2>5 DEF RunqueueExact, On
<1>2. ASSUME NEW q \in Tasks, Due(q)
      PROVE  RunqueueExact'
  BY <1>t, <1>2 DEF Due, locals, RunqueueExact, On
<1>4. ASSUME Tick
      PROVE  RunqueueExact'
  <2>1. UNCHANGED <<queue, state, current, p, next>>
    BY <1>4 DEF Tick, locals
  <2>2. pc' = pc \/ (pc = "halt" /\ pc' = "sched")
    BY <1>0, <1>4, UnhaltFacts DEF Tick
  <2> QED BY <1>t, <2>1, <2>2 DEF RunqueueExact, On, Idling
<1>5. ASSUME NEW x \in Sleeps, Sleep(x[1], x[2], x[3])
      PROVE  RunqueueExact'
  <2>1. x[1] \in {"I", "U"}
    OBVIOUS
  <2>2. /\ current \in Tasks /\ On(current) /\ pc = "user" /\ pc' = "sched"
        /\ state' = [state EXCEPT ![current] = x[1]]
        /\ UNCHANGED <<queue, current, p, next>>
    BY <1>0, <1>5 DEF Sleep, Runs, RunqueueExact, locals
  <2>3. ASSUME NEW r \in Tasks
        PROVE  r \in Range(queue) <=> state'[r] = "R" \/ r = current
    BY <1>0, <2>1, <2>2 DEF RunqueueExact, On, TypeOK
  <2> QED BY <1>0, <1>t, <2>2, <2>3 DEF RunqueueExact, On
<1>6. ASSUME NEW q \in Tasks, queue' = move_last(q), On(q), pc = "user",
             UNCHANGED <<state, current, pc>>
      PROVE  RunqueueExact'
  <2>1. IsInjective(queue') /\ Range(queue') = Range(queue)
    BY <1>0, <1>6, MoveFacts
  <2> QED BY <1>t, <1>6, <2>1 DEF RunqueueExact, On
<1>7. ASSUME Preempt
      PROVE  RunqueueExact'
  BY <1>t, <1>7 DEF Preempt, Runs, locals, tasks, RunqueueExact, On
<1>8. ASSUME IdleTest \/ Halt
      PROVE  RunqueueExact'
  BY <1>t, <1>8 DEF IdleTest, Halt, Idling, locals, tasks, RunqueueExact, On
<1>10. ASSUME NEW q \in Tasks, NEW pol \in Policies, setscheduler(q, pol)
       PROVE  RunqueueExact'
  <2>1. CASE On(q)
    BY <1>6, <1>10, <2>1 DEF setscheduler, Runs
  <2>2. CASE ~On(q)
    BY <1>t, <1>10, <2>2 DEF setscheduler, Runs, locals, RunqueueExact, On
  <2> QED BY <2>1, <2>2
<1>11. ASSUME Enter
       PROVE  RunqueueExact'
  BY <1>t, <1>11 DEF Enter, locals, tasks, RunqueueExact, On
<1>12. ASSUME Cli
       PROVE  RunqueueExact'
  <2> DEFINE asleep == current # Idle /\ state[current] # "R"
             due    == asleep /\ state[current] = "I" /\ (pend \/ timeout[current] = "due")
  <2>1. /\ queue' \in Seq(Tasks) /\ IsInjective(queue')
        /\ Range(queue') = IF asleep /\ ~due THEN Range(queue) \ {current} ELSE Range(queue)
        /\ p' = IF queue' = <<>> THEN Idle ELSE Head(queue')
    BY <1>12, CliFacts
  <2>2. /\ state' = IF due THEN [state EXCEPT ![current] = "R"] ELSE state
        /\ next' = Idle /\ pc = "cli" /\ pc' = "scan" /\ current' = current
    BY <1>12, Zenon DEF Cli
  <2>3. due => asleep
    OBVIOUS
  <2> HIDE DEF due
  <2>4. ASSUME NEW r \in Tasks
        PROVE  r \in Range(queue') <=> state'[r] = "R"
    <3>1. CASE r = current
      <4>1. r \in Range(queue) /\ current # Idle
        BY <2>2, <3>1 DEF RunqueueExact, On
      <4>2. CASE due
        BY <1>0, <2>1, <2>2, <3>1, <4>1, <4>2 DEF TypeOK
      <4>3. CASE ~due
        BY <2>1, <2>2, <3>1, <4>1, <4>3
      <4> QED BY <4>2, <4>3
    <3>2. CASE r # current
      <4>1. state'[r] = state[r] /\ (r \in Range(queue') <=> r \in Range(queue))
        BY <1>0, <2>1, <2>2, <3>2 DEF TypeOK
      <4> QED BY <3>2, <4>1 DEF RunqueueExact, On
    <3> QED BY <3>1, <3>2
  <2>5. p' \in Range(queue') \cup {Idle}
    <3>1. CASE queue' = <<>>
      BY <2>1, <3>1
    <3>2. CASE queue' # <<>>
      <4>1. p' = queue'[1] /\ 1 \in DOMAIN queue'
        BY <2>1, <3>2
      <4> QED BY <4>1 DEF Range
    <3> QED BY <3>1, <3>2
  <2> QED BY <1>t, <2>1, <2>2, <2>4, <2>5 DEF RunqueueExact, On
<1>13. ASSUME Scan
       PROVE  RunqueueExact'
  <2>1. p \in Range(queue) /\ UNCHANGED <<queue, state, current, pc>> /\ pc = "scan"
    BY <1>0, <1>13 DEF Scan, RunqueueExact, tasks
  <2>2. PICK k \in 1..Len(queue) : queue[k] = p
    BY <1>0, <2>1 DEF Range
  <2>3. p' = IF k = Len(queue) THEN Idle ELSE queue[k + 1]
    BY <1>0, <1>13, <2>2, NextRunFacts DEF Scan
  <2>4. p' \in Range(queue) \cup {Idle}
    <3>1. CASE k = Len(queue)
      BY <2>3, <3>1
    <3>2. CASE k # Len(queue)
      <4>1. k + 1 \in DOMAIN queue
        BY <1>0, <3>2
      <4> QED BY <2>3, <3>2, <4>1 DEF Range
    <3> QED BY <3>1, <3>2
  <2>5. next' = p \/ next' = next
    BY <1>13 DEF Scan
  <2>6. {p, next}' \subseteq Range(queue') \cup {Idle}
    BY <2>1, <2>4, <2>5 DEF RunqueueExact
  <2> QED BY <1>t, <2>1, <2>6 DEF RunqueueExact, On
<1>14. ASSUME Chosen
       PROVE  RunqueueExact'
  BY <1>t, <1>14 DEF Chosen, locals, RunqueueExact, On
<1>15. ASSUME Switch
       PROVE  RunqueueExact'
  <2>1. /\ current' = next /\ pc = "switch" /\ pc' = IF next = Idle THEN "idle" ELSE "user"
        /\ UNCHANGED <<queue, state>>
    BY <1>15, Zenon DEF Switch
  <2> QED BY <1>t, <2>1 DEF RunqueueExact, On
<1>16. ASSUME UNCHANGED vars
       PROVE  RunqueueExact'
  BY <1>t, <1>16 DEF vars, locals, tasks, RunqueueExact, On
<1>17. ASSUME NEW q \in Tasks, Wake(q) \/ process_timeout(q)
       PROVE  RunqueueExact'
  BY <1>1, <1>17 DEF Wake, process_timeout, locals
<1>18. ASSUME Yield
       PROVE  RunqueueExact'
  BY <1>0, <1>6, <1>18 DEF Yield, Runs, RunqueueExact
<1> QED
  BY <1>2, <1>4, <1>5, <1>7, <1>8, <1>10, <1>11, <1>12, <1>13, <1>14, <1>15, <1>16, <1>17,
     <1>18, NextCases, Zenon

----------------------------------------------------------------------------
(* Timers.                                                                  *)

\* A task that leaves the queue with its timeout set has t for it until the
\* switch, and the timer from there on; only the task itself, once it runs,
\* and the timer's own function take it away.
LEMMA TimerStep ==
    ASSUME RunqueueExact, TimeoutArmed, [Next]_vars
    PROVE  TimeoutArmed'
<1> USE ConstAssumption
<1>0. /\ TypeOK /\ IsInjective(queue) /\ queue \in Seq(Tasks)
      /\ current \in Tasks \cup {Idle} /\ p \in Tasks \cup {Idle}
  BY DEF RunqueueExact, TypeOK
<1>1. ASSUME NEW q \in Tasks, Wake(q) \/ process_timeout(q)
      PROVE  TimeoutArmed'
  <2>1. wake_up_process(q) /\ UNCHANGED <<current, t, next>>
    BY <1>1 DEF Wake, process_timeout, locals
  <2>2. Range(queue') = Range(queue) \cup {q} /\ state' = [state EXCEPT ![q] = "R"]
    BY <1>0, <2>1, WakeFacts
  <2>3. \A r \in Tasks \ {q} : armed'[r] = armed[r] /\ timeout'[r] = timeout[r]
    BY <1>0, <1>1 DEF Wake, process_timeout, TypeOK
  <2>4. ASSUME NEW r \in Tasks, state'[r] = "I", r \notin Range(queue'), timeout'[r] # "none"
        PROVE  armed'[r] \/ (r = current' /\ t' /\ next' # current')
    <3>1. r # q /\ r \notin Range(queue) /\ state[r] = "I" /\ timeout[r] # "none"
      BY <1>0, <2>2, <2>3, <2>4 DEF TypeOK
    <3>2. armed[r] \/ (r = current /\ t /\ next # current)
      BY <3>1, Zenon DEF TimeoutArmed, On
    <3> QED BY <2>1, <2>3, <3>1, <3>2, Zenon
  <2> QED BY <2>4, Zenon DEF TimeoutArmed, On
<1>2. ASSUME NEW q \in Tasks, Due(q)
      PROVE  TimeoutArmed'
  <2>1. /\ timeout[q] = "set" /\ timeout' = [timeout EXCEPT ![q] = "due"]
        /\ UNCHANGED <<queue, state, armed, current, t, next>>
    BY <1>2 DEF Due, locals
  <2>2. \A r \in Tasks : timeout'[r] # "none" => timeout[r] # "none"
    BY <1>0, <2>1 DEF TypeOK
  <2> QED BY <2>1, <2>2, Zenon DEF TimeoutArmed, On
<1>3. ASSUME Range(queue') = Range(queue), UNCHANGED <<state, timeout, armed, current, t, next>>
      PROVE  TimeoutArmed'
  BY <1>3, Zenon DEF TimeoutArmed, On
<1>5. ASSUME NEW x \in Sleeps, Sleep(x[1], x[2], x[3])
      PROVE  TimeoutArmed'
  <2>1. /\ current \in Tasks /\ current \in Range(queue)
        /\ UNCHANGED <<queue, armed, current, t, next>>
    BY <1>0, <1>5 DEF Sleep, Runs, RunqueueExact, On, locals
  <2>2. \A r \in Tasks \ {current} : state'[r] = state[r] /\ timeout'[r] = timeout[r]
    BY <1>0, <1>5 DEF Sleep, TypeOK
  <2> QED BY <2>1, <2>2, Zenon DEF TimeoutArmed, On
<1>6. ASSUME Yield
      PROVE  TimeoutArmed'
  <2>1. current \in Tasks /\ On(current) /\ queue' = move_last(current)
    BY <1>0, <1>6 DEF Yield, Runs, RunqueueExact
  <2>2. Range(queue') = Range(queue)
    BY <1>0, <2>1, MoveFacts
  <2> QED BY <1>3, <1>6, <2>2 DEF Yield, locals
<1>10. ASSUME NEW q \in Tasks, NEW pol \in Policies, setscheduler(q, pol)
       PROVE  TimeoutArmed'
  <2>1. Range(queue') = Range(queue)
    BY <1>0, <1>10, MoveFacts DEF setscheduler
  <2> QED BY <1>3, <1>10, <2>1 DEF setscheduler, locals
<1>12. ASSUME Cli
       PROVE  TimeoutArmed'
  <2> DEFINE asleep == current # Idle /\ state[current] # "R"
             due    == asleep /\ state[current] = "I" /\ (pend \/ timeout[current] = "due")
  <2>1. Range(queue') = IF asleep /\ ~due THEN Range(queue) \ {current} ELSE Range(queue)
    BY <1>12, CliFacts
  <2>2. /\ state' = IF due THEN [state EXCEPT ![current] = "R"] ELSE state
        /\ timeout' = IF due /\ ~pend THEN [timeout EXCEPT ![current] = "none"] ELSE timeout
        /\ t' = ((asleep /\ ~due) /\ state[current] = "I" /\ timeout[current] # "none")
        /\ next' = Idle /\ current' = current /\ armed' = armed /\ pc = "cli"
    BY <1>12, Zenon DEF Cli
  <2>3. ASSUME NEW r \in Tasks, state'[r] = "I", r \notin Range(queue'), timeout'[r] # "none"
        PROVE  armed'[r] \/ (r = current' /\ t' /\ next' # current')
    <3>1. CASE r = current
      <4>1. r \in Range(queue)
        BY <2>2, <3>1 DEF RunqueueExact, On
      <4>2. asleep /\ ~due
        BY <2>1, <2>3, <4>1
      <4>3. state[r] = "I" /\ timeout[r] # "none"
        BY <2>2, <2>3, <4>2
      <4>4. t'
        BY <2>2, <3>1, <4>2, <4>3, Zenon
      <4> QED BY <2>2, <3>1, <4>4, Zenon
    <3>2. CASE r # current
      <4>1. state[r] = "I" /\ timeout[r] # "none" /\ r \notin Range(queue)
        BY <1>0, <2>1, <2>2, <2>3, <3>2 DEF TypeOK
      <4>2. armed[r]
        BY <3>2, <4>1, Zenon DEF TimeoutArmed, On
      <4> QED BY <2>2, <4>2
    <3> QED BY <3>1, <3>2
  <2> QED BY <2>3, Zenon DEF TimeoutArmed, On
<1>13. ASSUME Scan
       PROVE  TimeoutArmed'
  <2>1. /\ p \in Range(queue) /\ (next' = p \/ next' = next)
        /\ UNCHANGED <<queue, state, timeout, armed, current, t>>
    BY <1>0, <1>13 DEF Scan, RunqueueExact, tasks
  <2> QED BY <2>1, Zenon DEF TimeoutArmed, On
<1>15. ASSUME Switch
       PROVE  TimeoutArmed'
  <2>1. /\ current' = next /\ UNCHANGED <<queue, state, timeout>>
        /\ armed' = [q \in Tasks |-> IF current = next THEN armed[q]
                                     ELSE IF q = next THEN FALSE
                                     ELSE armed[q] \/ (q = current /\ t)]
    BY <1>15, Zenon DEF Switch
  <2>2. next = Idle \/ next \in Range(queue)
    BY <1>15 DEF Switch, RunqueueExact
  <2>3. ASSUME NEW r \in Tasks, state'[r] = "I", r \notin Range(queue'), timeout'[r] # "none"
        PROVE  armed'[r]
    <3>1. armed[r] \/ (r = current /\ t /\ next # current)
      BY <2>1, <2>3, Zenon DEF TimeoutArmed, On
    <3>2. r # next
      BY <2>1, <2>2, <2>3
    <3>3. armed'[r] = (IF current = next THEN armed[r]
                       ELSE IF r = next THEN FALSE
                       ELSE armed[r] \/ (r = current /\ t))
      BY <2>1, Zenon
    <3> QED BY <3>1, <3>2, <3>3, Zenon
  <2> QED BY <2>3, Zenon DEF TimeoutArmed, On
<1>16. ASSUME \/ Tick \/ Preempt \/ IdleTest \/ Halt \/ Enter \/ Chosen
              \/ UNCHANGED vars
       PROVE  TimeoutArmed'
  BY <1>3, <1>16 DEF Tick, Preempt, IdleTest, Halt, Enter, Chosen, vars, locals, tasks
<1> QED
  BY <1>1, <1>2, <1>5, <1>6, <1>10, <1>12, <1>13, <1>15, <1>16, NextCases, Zenon

----------------------------------------------------------------------------
(* The best task.                                                           *)

Best == RealtimeFirst /\ ScanBest /\ ChosenBest

\* The real time priority of whoever a variable may name.
LEMMA RtFacts ==
    ASSUME TypeOK, NEW q \in Tasks \cup {Idle}
    PROVE  RtPriority(q) \in 0..99
<1>1. CASE q = Idle
  BY <1>1 DEF RtPriority
<1>2. CASE q # Idle
  BY <1>2, PolicyFacts
<1> QED BY <1>1, <1>2

\* The goodness of a task tells real time tasks from others, by their priority.
LEMMA GoodnessFacts ==
    ASSUME TypeOK, Idling, NEW q \in Tasks
    PROVE  /\ goodness(q) \in Nat
           /\ RtPriority(q) > 0 => goodness(q) = 1000 + RtPriority(q)
           /\ RtPriority(q) = 0 => goodness(q) < 1000
<1>1. counter[q] \in Nat /\ counter[q] <= 80 /\ RtPriority(q) \in 0..99
  BY CounterFacts, RtFacts
<1>2. CASE Realtime(q)
  <2>1. RtPriority(q) > 0 /\ goodness(q) = 1000 + RtPriority(q)
    BY <1>2, PolicyFacts DEF goodness
  <2> QED BY <1>1, <2>1
<1>3. CASE ~Realtime(q)
  <2>1. RtPriority(q) = 0
    BY <1>3, PolicyFacts
  <2>2. goodness(q) \in Nat /\ goodness(q) < 1000
    BY <1>1, <1>3 DEF goodness
  <2> QED BY <2>1, <2>2
<1> QED BY <1>2, <1>3

\* An interrupt, and every step that changes neither the policies nor the scan:
\* the queue keeps its tasks in their places, and a real time task that comes
\* asks for another round.
LEMMA BestKept ==
    ASSUME RunqueueExact, RunqueueExact', Best,
           UNCHANGED <<policy, current, p, c, next>>,
           need_resched => need_resched',
           pc' = pc \/ pc' \notin {"user", "idle", "hlt", "halt", "scan", "switch"}
                    \/ {pc, pc'} \subseteq {"user", "idle", "hlt", "halt"},
           \/ queue' = queue
           \/ \E q \in Tasks :
                 /\ DOMAIN queue = 1..Len(queue) /\ Len(queue) \in Nat
                 /\ DOMAIN queue' = 1..(Len(queue) + 1)
                 /\ \A i \in 1..Len(queue) : queue'[i] = queue[i]
                 /\ queue'[Len(queue) + 1] = q
                 /\ Realtime(q) => need_resched'
    PROVE  Best'
<1>0. /\ TypeOK /\ queue \in Seq(Tasks)
      /\ current \in Tasks \cup {Idle} /\ p \in Tasks \cup {Idle} /\ next \in Tasks \cup {Idle}
  BY DEF RunqueueExact, TypeOK
<1>1. \A q : RtPriority(q)' = RtPriority(q)
  BY DEF RtPriority
<1>2. ASSUME NEW r \in Tasks \cup {Idle}, ~need_resched', NEW i \in DOMAIN queue', i \notin DOMAIN queue
      PROVE  RtPriority(queue'[i]) <= RtPriority(r)
  <2>1. PICK q \in Tasks :
                 /\ DOMAIN queue = 1..Len(queue) /\ Len(queue) \in Nat
                 /\ DOMAIN queue' = 1..(Len(queue) + 1)
                 /\ queue'[Len(queue) + 1] = q
                 /\ Realtime(q) => need_resched'
    BY <1>2
  <2>2. i = Len(queue) + 1
    BY <1>2, <2>1
  <2>3. ~Realtime(q) /\ queue'[i] = q
    BY <1>2, <2>1, <2>2, Zenon
  <2>4. RtPriority(q) = 0
    BY <1>0, <2>3, PolicyFacts
  <2>5. RtPriority(r) \in 0..99
    BY <1>0, RtFacts
  <2>6. RtPriority(queue'[i]) = 0
    BY <2>3, <2>4, Zenon
  <2> DEFINE a == RtPriority(queue'[i])
             b == RtPriority(r)
  <2>7. a = 0 /\ b \in 0..99
    BY <2>5, <2>6
  <2> HIDE DEF a, b
  <2>8. a <= b
    BY <2>7
  <2> QED BY <2>8 DEF a, b
<1>3. \A i \in DOMAIN queue : i \in DOMAIN queue' /\ queue'[i] = queue[i]
  BY <1>0
<1>4. RealtimeFirst'
  <2>1. ASSUME pc' \in {"user", "idle", "hlt", "halt"}, ~need_resched', NEW i \in DOMAIN queue'
        PROVE  RtPriority(queue'[i]) <= RtPriority(current)
    <3>1. pc \in {"user", "idle", "hlt", "halt"} /\ ~need_resched
      BY <2>1
    <3>2. CASE i \in DOMAIN queue
      BY <1>3, <3>1, <3>2 DEF Best, RealtimeFirst, Range
    <3>3. CASE i \notin DOMAIN queue
      BY <1>0, <1>2, <2>1, <3>3
    <3> QED BY <3>2, <3>3
  <2> QED BY <1>1, <2>1 DEF RealtimeFirst, Range
<1>5. ChosenBest'
  <2>1. ASSUME pc' = "switch", ~need_resched', NEW i \in DOMAIN queue'
        PROVE  RtPriority(queue'[i]) <= RtPriority(next)
    <3>1. pc = "switch" /\ ~need_resched
      BY <2>1
    <3>2. CASE i \in DOMAIN queue
      BY <1>3, <3>1, <3>2 DEF Best, ChosenBest, Range
    <3>3. CASE i \notin DOMAIN queue
      BY <1>0, <1>2, <2>1, <3>3
    <3> QED BY <3>2, <3>3
  <2> QED BY <1>1, <2>1 DEF ChosenBest, Range
<1>6. ScanBest'
  <2>1. ASSUME pc' = "scan"
        PROVE  IF RtPriority(next) > 0 THEN c = 1000 + RtPriority(next) ELSE c < 1000
    BY <2>1 DEF Best, ScanBest
  <2>2. ASSUME pc' = "scan", ~need_resched', NEW i \in DOMAIN queue',
               p = Idle \/ \E j \in DOMAIN queue' : i < j /\ queue'[j] = p
        PROVE  RtPriority(queue'[i]) <= RtPriority(next)
    <3>1. pc = "scan" /\ ~need_resched
      BY <2>2
    <3>2. CASE i \in DOMAIN queue
      <4>1. Passed(i)
        <5>1. CASE p = Idle
          BY <5>1 DEF Passed
        <5>2. CASE p # Idle
          <6>1. PICK k \in DOMAIN queue : queue[k] = p
            BY <3>1, <5>2 DEF RunqueueExact, Range
          <6>2. PICK j \in DOMAIN queue' : i < j /\ queue'[j] = p
            BY <2>2, <5>2
          <6>3. j = k
            <7>1. IsInjective(queue')
              BY DEF RunqueueExact
            <7> QED BY <1>3, <6>1, <6>2, <7>1 DEF IsInjective
          <6> QED BY <6>1, <6>2, <6>3 DEF Passed
        <5> QED BY <5>1, <5>2
      <4>2. RtPriority(queue[i]) <= RtPriority(next)
        BY <3>1, <3>2, <4>1 DEF Best, ScanBest
      <4> QED BY <1>3, <3>2, <4>2
    <3>3. CASE i \notin DOMAIN queue
      BY <1>0, <1>2, <2>2, <3>3
    <3> QED BY <3>2, <3>3
  <2> QED BY <1>1, <2>1, <2>2 DEF ScanBest, Passed
<1> QED BY <1>4, <1>5, <1>6 DEF Best

\* The scan looks at one task, or at none any more, or ends.
LEMMA BestStep ==
    ASSUME RunqueueExact, Idling, Best, RunqueueExact', [Next]_vars
    PROVE  Best'
<1>0. /\ TypeOK /\ IsInjective(queue) /\ queue \in Seq(Tasks)
      /\ current \in Tasks \cup {Idle} /\ p \in Tasks \cup {Idle} /\ next \in Tasks \cup {Idle}
      /\ DOMAIN queue = 1..Len(queue) /\ Len(queue) \in Nat /\ c \in Int
      /\ Idle \notin Tasks
  BY ConstAssumption DEF RunqueueExact, TypeOK
<1>1. ASSUME NEW q \in Tasks, Wake(q) \/ process_timeout(q)
      PROVE  Best'
  <2>1. wake_up_process(q) /\ Unhalt /\ UNCHANGED <<policy, current, p, c, next>>
    BY <1>1 DEF Wake, process_timeout, locals
  <2>2. pc' = pc \/ pc' \notin {"user", "idle", "hlt", "halt", "scan", "switch"}
    BY <1>0, <2>1, UnhaltFacts
  <2> QED BY <1>0, <2>1, <2>2, WakeFacts, BestKept
<1>2. ASSUME NEW q \in Tasks, Due(q)
      PROVE  Best'
  BY <1>2, BestKept DEF Due, locals
<1>3. ASSUME Tick
      PROVE  Best'
  <2>1. UNCHANGED <<queue, policy, current, p, c, next>>
    BY <1>3 DEF Tick, locals
  <2>2. pc' = pc \/ pc' \notin {"user", "idle", "hlt", "halt", "scan", "switch"}
    BY <1>0, <1>3, UnhaltFacts DEF Tick
  <2>3. need_resched => need_resched'
    BY <1>3, Zenon DEF Tick
  <2> QED BY <2>1, <2>2, <2>3, BestKept
<1>4. ASSUME pc' \in {"sched", "cli"}
      PROVE  Best'
  BY <1>4 DEF Best, RealtimeFirst, ScanBest, ChosenBest
<1>5. ASSUME pc' = "user", need_resched' = TRUE
      PROVE  Best'
  BY <1>5 DEF Best, RealtimeFirst, ScanBest, ChosenBest
<1>6. ASSUME IdleTest \/ Halt
      PROVE  Best'
  <2>1. /\ UNCHANGED <<queue, need_resched, policy, current, p, c, next>>
        /\ \/ pc' = "sched"
           \/ {pc, pc'} \subseteq {"user", "idle", "hlt", "halt"}
    BY <1>6 DEF IdleTest, Halt, locals, tasks
  <2> QED BY <1>4, <2>1, BestKept
<1>7. ASSUME Cli
      PROVE  Best'
  <2>1. /\ queue' \in Seq(Tasks) /\ IsInjective(queue')
        /\ p' = IF queue' = <<>> THEN Idle ELSE Head(queue')
    BY <1>7, CliFacts
  <2>2. c' = Never /\ next' = Idle /\ pc' = "scan"
    BY <1>7, Zenon DEF Cli
  <2>3. ASSUME NEW i \in DOMAIN queue', p' = Idle \/ \E j \in DOMAIN queue' : i < j /\ queue'[j] = p'
        PROVE  FALSE
    <3>1. DOMAIN queue' = 1..Len(queue') /\ Len(queue') \in Nat
      BY <2>1
    <3>2. queue' # <<>> /\ 1 \in DOMAIN queue'
      BY <2>1, <2>3, <3>1
    <3>3. p' = queue'[1]
      BY <2>1, <3>2
    <3>4. p' # Idle
      BY <1>0, <2>1, <3>2, <3>3
    <3>5. PICK j \in DOMAIN queue' : i < j /\ queue'[j] = p'
      BY <2>3, <3>4
    <3>6. j = 1
      BY <2>1, <3>2, <3>3, <3>5 DEF IsInjective
    <3> QED BY <3>1, <3>5, <3>6
  <2>4. RtPriority(next)' = 0
    BY <2>2 DEF RtPriority
  <2> QED BY <2>2, <2>3, <2>4 DEF Best, RealtimeFirst, ScanBest, ChosenBest, Passed, Never
<1>8. ASSUME Scan
      PROVE  Best'
  <2>1. /\ p \in Tasks /\ p \in Range(queue) /\ pc = "scan" /\ pc' = "scan"
        /\ UNCHANGED <<queue, policy, need_resched>>
    BY <1>0, <1>8 DEF Scan, RunqueueExact, tasks
  <2>2. PICK k \in 1..Len(queue) : queue[k] = p
    BY <1>0, <2>1 DEF Range
  <2>3. p' = IF k = Len(queue) THEN Idle ELSE queue[k + 1]
    BY <1>0, <1>8, <2>2, NextRunFacts DEF Scan
  <2>4. \/ goodness(p) > c /\ c' = goodness(p) /\ next' = p
        \/ ~(goodness(p) > c) /\ c' = c /\ next' = next
    BY <1>8 DEF Scan
  <2>5. \A q : RtPriority(q)' = RtPriority(q)
    BY <2>1 DEF RtPriority
  <2>6. /\ goodness(p) \in Nat
        /\ RtPriority(p) > 0 => goodness(p) = 1000 + RtPriority(p)
        /\ RtPriority(p) = 0 => goodness(p) < 1000
        /\ RtPriority(p) \in 0..99
    BY <1>0, <2>1, GoodnessFacts, RtFacts
  <2>7. /\ IF RtPriority(next) > 0 THEN c = 1000 + RtPriority(next) ELSE c < 1000
        /\ RtPriority(next) \in 0..99
    BY <1>0, <2>1, RtFacts DEF Best, ScanBest
  <2>8. /\ IF RtPriority(next') > 0 THEN c' = 1000 + RtPriority(next') ELSE c' < 1000
        /\ RtPriority(next') \in 0..99
        /\ RtPriority(p) <= RtPriority(next') /\ RtPriority(next) <= RtPriority(next')
    <3> DEFINE rp == RtPriority(p)
               rn == RtPriority(next)
               rx == RtPriority(next')
               g == goodness(p)
    <3>1. /\ g \in Nat /\ rp \in 0..99 /\ rn \in 0..99
          /\ rp > 0 => g = 1000 + rp
          /\ rp = 0 => g < 1000
          /\ IF rn > 0 THEN c = 1000 + rn ELSE c < 1000
      BY <2>6, <2>7
    <3>2. CASE goodness(p) > c /\ c' = goodness(p) /\ next' = p
      <4>1. rx = rp
        BY <3>2, Zenon
      <4>2. g > c /\ c' = g
        BY <3>2, Zenon
      <4> HIDE DEF rp, rn, rx, g
      <4>3. /\ IF rx > 0 THEN c' = 1000 + rx ELSE c' < 1000
            /\ rx \in 0..99 /\ rp <= rx /\ rn <= rx
        BY <1>0, <3>1, <4>1, <4>2
      <4> QED BY <4>3, Zenon DEF rp, rn, rx
    <3>3. CASE ~(goodness(p) > c) /\ c' = c /\ next' = next
      <4>1. rx = rn
        BY <3>3, Zenon
      <4>2. ~(g > c) /\ c' = c /\ c \in Int
        BY <1>0, <3>3, Zenon
      <4> HIDE DEF rp, rn, rx, g
      <4>3. rp <= rn
        <5>1. g <= c
          BY <3>1, <4>2
        <5>2. CASE rp = 0
          BY <3>1, <5>2
        <5>3. CASE rp > 0
          <6>1. c > 1000
            BY <3>1, <4>2, <5>1, <5>3
          <6>2. c = 1000 + rn
            BY <3>1, <4>2, <6>1
          <6> QED BY <3>1, <5>1, <5>3, <6>2
        <5> QED BY <3>1, <5>2, <5>3
      <4>4. /\ IF rx > 0 THEN c' = 1000 + rx ELSE c' < 1000
            /\ rx \in 0..99 /\ rp <= rx /\ rn <= rx
        BY <3>1, <4>1, <4>2, <4>3
      <4> QED BY <4>4, Zenon DEF rp, rn, rx
    <3> QED BY <2>4, <3>2, <3>3, Zenon
  <2>10. ASSUME ~need_resched, NEW i \in DOMAIN queue,
                p' = Idle \/ \E j \in DOMAIN queue : i < j /\ queue[j] = p'
         PROVE  RtPriority(queue[i]) <= RtPriority(next')
    <3>1. i <= k
      <4>1. CASE k = Len(queue)
        BY <1>0, <4>1
      <4>2. CASE k # Len(queue)
        <5>1. k + 1 \in DOMAIN queue /\ p' = queue[k + 1]
          <6>1. k \in 1..Len(queue) /\ Len(queue) \in Nat /\ DOMAIN queue = 1..Len(queue)
            BY <1>0, <2>2
          <6>2. k + 1 \in DOMAIN queue
            <7> DEFINE n == Len(queue)
            <7>1. n \in Nat /\ k \in 1..n /\ k # n
              BY <4>2, <6>1
            <7> HIDE DEF n
            <7>2. k + 1 \in 1..n
              BY <7>1
            <7> QED BY <6>1, <7>2 DEF n
          <6> QED BY <2>3, <4>2, <6>2
        <5>2. p' # Idle
          BY <1>0, <5>1
        <5>3. PICK j \in DOMAIN queue : i < j /\ queue[j] = p'
          BY <2>10, <5>2
        <5>4. j = k + 1
          BY <1>0, <5>1, <5>3 DEF IsInjective
        <5> QED BY <1>0, <5>3, <5>4
      <4> QED BY <4>1, <4>2
    <3>2. CASE i = k
      BY <2>2, <2>8, <3>2
    <3>3. CASE i < k
      <4>1. Passed(i)
        BY <1>0, <2>2, <3>3 DEF Passed
      <4>2. RtPriority(queue[i]) <= RtPriority(next)
        BY <2>1, <2>10, <4>1 DEF Best, ScanBest
      <4>3. RtPriority(queue[i]) \in 0..99
        <5>1. queue[i] \in Tasks \cup {Idle}
          BY <1>0
        <5> QED BY <1>0, <5>1, RtFacts, Zenon
      <4> DEFINE a == RtPriority(queue[i])
                 rn == RtPriority(next)
                 rx == RtPriority(next')
      <4>4. a \in 0..99 /\ rn \in 0..99 /\ rx \in 0..99 /\ a <= rn /\ rn <= rx
        BY <2>7, <2>8, <4>2, <4>3, Zenon
      <4> HIDE DEF a, rn, rx
      <4>5. a <= rx
        BY <4>4
      <4> QED BY <4>5 DEF a, rx
    <3> QED BY <1>0, <3>1, <3>2, <3>3
  <2> QED BY <2>1, <2>5, <2>8, <2>10 DEF Best, RealtimeFirst, ScanBest, ChosenBest, Passed
<1>9. ASSUME Chosen
      PROVE  Best'
  <2>1. /\ pc = "scan" /\ pc' = "switch" /\ p = Idle
        /\ UNCHANGED <<queue, policy, need_resched, next>>
    BY <1>9 DEF Chosen, locals
  <2>2. \A q : RtPriority(q)' = RtPriority(q)
    BY <2>1 DEF RtPriority
  <2>3. ~need_resched => \A i \in DOMAIN queue : RtPriority(queue[i]) <= RtPriority(next)
    BY <2>1 DEF Best, ScanBest, Passed
  <2> QED BY <2>1, <2>2, <2>3 DEF Best, RealtimeFirst, ScanBest, ChosenBest, Range
<1>10. ASSUME Switch
       PROVE  Best'
  <2>1. /\ current' = next /\ pc = "switch" /\ pc' \in {"idle", "user"}
        /\ UNCHANGED <<queue, policy, need_resched>>
    BY <1>10 DEF Switch
  <2>2. \A q : RtPriority(q)' = RtPriority(q)
    BY <2>1 DEF RtPriority
  <2> QED BY <2>1, <2>2 DEF Best, RealtimeFirst, ScanBest, ChosenBest
<1>11. ASSUME \/ \E x \in Sleeps : Sleep(x[1], x[2], x[3])
              \/ Preempt \/ Enter
       PROVE  Best'
  BY <1>4, <1>11 DEF Sleep, Preempt, Enter
<1>12. ASSUME Yield \/ \E q \in Tasks, pol \in Policies : setscheduler(q, pol)
       PROVE  Best'
  BY <1>5, <1>12 DEF Yield, setscheduler, Runs
<1>13. ASSUME UNCHANGED vars
       PROVE  Best'
  BY <1>13, BestKept DEF vars, locals, tasks
<1> QED
  BY <1>1, <1>2, <1>3, <1>6, <1>7, <1>8, <1>9, <1>10, <1>11, <1>12, <1>13, NextCases, Zenon

----------------------------------------------------------------------------
(* The theorems.                                                            *)

LEMMA InitFacts == Init => Inv
<1> SUFFICES ASSUME Init PROVE Inv
  OBVIOUS
<1> USE ConstAssumption
<1>1. TypeOK
  <2>1. \A q \in Tasks : Priority[q] \in 0 .. 2 * Priority[q]
    <3>1. \A q \in Tasks : Priority[q] \in 1..40
      OBVIOUS
    <3> QED BY <3>1
  <2>2. Range(queue) = {} /\ queue \in Seq(Tasks)
    BY DEF Init, Range
  <2>3. policy \in [Tasks -> Policies] /\ armed \in [Tasks -> BOOLEAN]
    BY DEF Init
  <2>4. \A q \in Tasks : counter[q] \in 0 .. 2 * Priority[q]
    BY <2>1 DEF Init
  <2>5. {need_resched, pend, t} \subseteq BOOLEAN /\ {current, p, next} \subseteq Tasks \cup {Idle}
    BY DEF Init
  <2>6. /\ state \in [Tasks -> {"R", "I", "U"}] /\ timeout \in [Tasks -> {"none", "set", "due"}]
        /\ c \in Int /\ pc = "idle"
    BY DEF Init, Never
  <2> QED BY <2>2, <2>3, <2>4, <2>5, <2>6 DEF TypeOK
<1>2. counter \in [Tasks -> Nat]
  <2>1. counter \in [Tasks -> 1..40]
    BY DEF Init
  <2> QED BY <2>1
<1>3. Range(queue) = {} /\ IsInjective(queue) /\ pc = "idle" /\ current = Idle
  BY DEF Init, Range, IsInjective
<1>4. RunqueueExact
  BY <1>1, <1>3 DEF Init, RunqueueExact, On
<1>5. Idling
  BY <1>2, <1>3 DEF Idling
<1>6. RealtimeFirst /\ ScanBest /\ ChosenBest
  BY <1>3 DEF RealtimeFirst, ScanBest, ChosenBest
<1>7. TimeoutArmed
  BY DEF Init, TimeoutArmed
<1> QED BY <1>4, <1>5, <1>6, <1>7 DEF Inv

LEMMA InvStep == Inv /\ [Next]_vars => Inv'
<1> SUFFICES ASSUME Inv, [Next]_vars PROVE Inv'
  OBVIOUS
<1>1. RunqueueExact' /\ Idling'
  BY RunqueueStep, TypeStep DEF Inv
<1>2. TimeoutArmed'
  BY TimerStep DEF Inv
<1>3. Best'
  BY <1>1, BestStep DEF Inv, Best
<1> QED BY <1>1, <1>2, <1>3 DEF Inv, Best

\* The run queue is exact in every state, wherever the interrupts of
\* wake_up_process fall between the steps of schedule: the tasks that are
\* runnable, each once, and the one on its way to sleep.
THEOREM RunqueueSound == Spec => []RunqueueExact
<1>1. Inv => RunqueueExact
  BY DEF Inv
<1> QED BY <1>1, InitFacts, InvStep, PTL DEF Spec

\* "Realtime process, select the first one": nobody runs, unless schedule is
\* about to be called, while a real time task of a higher priority is on the
\* queue.  It rests on the 1000 that goodness adds being more than any counter
\* can reach.
THEOREM RealtimeRuns == Spec => []RealtimeFirst
<1>1. Inv => RealtimeFirst
  BY DEF Inv
<1> QED BY <1>1, InitFacts, InvStep, PTL DEF Spec

\* A task asleep with a timeout has its timer pending, or schedule is still to
\* set it.
THEOREM TimerPending == Spec => []TimeoutArmed
<1>1. Inv => TimeoutArmed
  BY DEF Inv
<1> QED BY <1>1, InitFacts, InvStep, PTL DEF Spec
=============================================================================
