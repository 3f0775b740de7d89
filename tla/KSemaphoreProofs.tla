-------------------------- MODULE KSemaphoreProofs --------------------------
(***************************************************************************)
(* Theorems about the kernel semaphore, for any number of processes and    *)
(* any initial count: the two counters account for every waiter and every  *)
(* permit, and no wakeup falls between the test of waking and the sleep.   *)
(***************************************************************************)
EXTENDS KSemaphore, FiniteSetTheorems, TLAPS

NWait == Cardinality(Waiters)
NHold == Cardinality(Holders)
NPost == Cardinality(Posting)

In(b) == IF b THEN 1 ELSE 0

\* What a move of p to label l does to the three counts.
Moved(p, l) ==
    /\ NWait' = NWait + In(l \in WaitPcs) - In(pc[p] \in WaitPcs)
    /\ NHold' = NHold + In(l = "in") - In(pc[p] = "in")
    /\ NPost' = NPost + In(l = "post") - In(pc[p] = "post")

----------------------------------------------------------------------------
\* A process that moves from one label to another joins or leaves the waiters,
\* the holders and the posting processes as its labels say, and nobody else does.
LEMMA SetsMove ==
    ASSUME TypeOK, NEW p \in Procs, NEW l, Goto(p, l)
    PROVE  /\ Waiters' = IF l \in WaitPcs THEN Waiters \cup {p} ELSE Waiters \ {p}
           /\ Holders' = IF l = "in" THEN Holders \cup {p} ELSE Holders \ {p}
           /\ Posting' = IF l = "post" THEN Posting \cup {p} ELSE Posting \ {p}
<1>1. pc'[p] = l /\ \A q \in Procs \ {p} : pc'[q] = pc[q]
  BY DEF TypeOK, Goto
<1>2. Waiters' = {q \in Procs : pc'[q] \in WaitPcs}
  BY DEF Waiters, WaitPcs
<1>3. Holders' = {q \in Procs : pc'[q] = "in"}
  BY DEF Holders
<1>4. Posting' = {q \in Procs : pc'[q] = "post"}
  BY DEF Posting
<1>5. Waiters' = IF l \in WaitPcs THEN Waiters \cup {p} ELSE Waiters \ {p}
  BY <1>1, <1>2 DEF Waiters
<1>6. Holders' = IF l = "in" THEN Holders \cup {p} ELSE Holders \ {p}
  BY <1>1, <1>3 DEF Holders
<1>7. Posting' = IF l = "post" THEN Posting \cup {p} ELSE Posting \ {p}
  BY <1>1, <1>4 DEF Posting
<1> QED BY <1>5, <1>6, <1>7

\* The waiters, holders and posting processes are finitely many.
LEMMA Finite ==
    /\ IsFiniteSet(Waiters) /\ IsFiniteSet(Holders) /\ IsFiniteSet(Posting)
    /\ NWait \in Nat /\ NHold \in Nat /\ NPost \in Nat
<1>1. IsFiniteSet(Procs)
  BY ConstAssumption
<1>2. Waiters \in SUBSET Procs /\ Holders \in SUBSET Procs /\ Posting \in SUBSET Procs
  BY DEF Waiters, Holders, Posting
<1>3. IsFiniteSet(Waiters)
  BY <1>1, <1>2, FS_Subset
<1>4. IsFiniteSet(Holders)
  BY <1>1, <1>2, FS_Subset
<1>5. IsFiniteSet(Posting)
  BY <1>1, <1>2, FS_Subset
<1> QED BY <1>3, <1>4, <1>5, FS_CardinalityType DEF NWait, NHold, NPost

\* The same as numbers: each count changes by what the two labels say.
LEMMA CountsMove ==
    ASSUME TypeOK, NEW p \in Procs, NEW l, Goto(p, l)
    PROVE  Moved(p, l)
<1>1. /\ Waiters' = IF l \in WaitPcs THEN Waiters \cup {p} ELSE Waiters \ {p}
      /\ Holders' = IF l = "in" THEN Holders \cup {p} ELSE Holders \ {p}
      /\ Posting' = IF l = "post" THEN Posting \cup {p} ELSE Posting \ {p}
  BY SetsMove
<1>2. /\ p \in Waiters <=> pc[p] \in WaitPcs
      /\ p \in Holders <=> pc[p] = "in"
      /\ p \in Posting <=> pc[p] = "post"
  BY DEF Waiters, Holders, Posting
<1>3. /\ IsFiniteSet(Waiters) /\ IsFiniteSet(Holders) /\ IsFiniteSet(Posting)
      /\ NWait \in Nat /\ NHold \in Nat /\ NPost \in Nat
  BY Finite
<1>4. ASSUME NEW S, IsFiniteSet(S), NEW T, NEW in \in BOOLEAN, NEW was \in BOOLEAN,
             was <=> p \in S, T = IF in THEN S \cup {p} ELSE S \ {p},
             Cardinality(S) \in Nat
      PROVE  Cardinality(T) = Cardinality(S) + In(in) - In(was)
  <2>1. Cardinality(S \cup {p}) = IF p \in S THEN Cardinality(S) ELSE Cardinality(S) + 1
    BY <1>4, FS_AddElement
  <2>2. Cardinality(S \ {p}) = IF p \in S THEN Cardinality(S) - 1 ELSE Cardinality(S)
    BY <1>4, FS_RemoveElement
  <2> QED BY <1>4, <2>1, <2>2 DEF In
<1>5. NWait' = NWait + In(l \in WaitPcs) - In(pc[p] \in WaitPcs)
  BY <1>1, <1>2, <1>3, <1>4 DEF NWait, In
<1>6. NHold' = NHold + In(l = "in") - In(pc[p] = "in")
  BY <1>1, <1>2, <1>3, <1>4 DEF NHold
<1>7. NPost' = NPost + In(l = "post") - In(pc[p] = "post")
  BY <1>1, <1>2, <1>3, <1>4 DEF NPost
<1> QED BY <1>5, <1>6, <1>7 DEF Moved

\* A step that moves nobody leaves the three counts alone.
LEMMA CountsStay ==
    ASSUME UNCHANGED pc
    PROVE  NWait' = NWait /\ NHold' = NHold /\ NPost' = NPost
BY DEF NWait, NHold, NPost, Waiters, Holders, Posting

\* The disjuncts of Next, one by one: what the steps below split on.
LEMMA NextCases ==
    ASSUME [Next]_vars
    PROVE  \/ UNCHANGED vars
           \/ InterruptUp
           \/ \E p \in Procs : \/ \E m \in {"I", "U"} : Down(p, m)
                              \/ Enqueue(p) \/ Test(p) \/ GiveUp(p) \/ Wait(p)
                              \/ Schedule(p) \/ Post(p) \/ Resume(p) \/ Up(p)
                              \/ HandOver(p) \/ Signal(p)
BY DEF Next, Step

----------------------------------------------------------------------------
\* Type correctness, the wait queue and the owner of the processor included, is
\* preserved by every step.
LEMMA TypeStep == TypeOK /\ [Next]_vars => TypeOK'
<1> SUFFICES ASSUME TypeOK, [Next]_vars PROVE TypeOK'
  OBVIOUS
<1> USE ConstAssumption
<1>1. CASE UNCHANGED vars
  BY <1>1 DEF vars, TypeOK, WaitPcs
<1>2. CASE InterruptUp
  BY <1>2 DEF InterruptUp, wake_up, TypeOK, WaitPcs
<1>3. ASSUME NEW p \in Procs, NEW m \in {"I", "U"}, Down(p, m) PROVE TypeOK'
  BY <1>3 DEF Down, Goto, TypeOK, WaitPcs
<1>4. ASSUME NEW p \in Procs, Enqueue(p) PROVE TypeOK'
  BY <1>4 DEF Enqueue, Goto, TypeOK, WaitPcs
<1>5. ASSUME NEW p \in Procs, Test(p) PROVE TypeOK'
  BY <1>5 DEF Test, Goto, TypeOK, WaitPcs
<1>6. ASSUME NEW p \in Procs, GiveUp(p) PROVE TypeOK'
  BY <1>6 DEF GiveUp, Goto, TypeOK, WaitPcs
<1>7. ASSUME NEW p \in Procs, Wait(p) PROVE TypeOK'
  BY <1>7 DEF Wait, Goto, TypeOK, WaitPcs
<1>8. ASSUME NEW p \in Procs, Schedule(p) PROVE TypeOK'
  BY <1>8 DEF Schedule, Goto, TypeOK, WaitPcs
<1>9. ASSUME NEW p \in Procs, Post(p) PROVE TypeOK'
  BY <1>9 DEF Post, Goto, wake_up, TypeOK, WaitPcs
<1>10. ASSUME NEW p \in Procs, Resume(p) PROVE TypeOK'
  BY <1>10 DEF Resume, Goto, TypeOK, WaitPcs
<1>11. ASSUME NEW p \in Procs, Up(p) PROVE TypeOK'
  BY <1>11 DEF Up, Goto, TypeOK, WaitPcs
<1>12. ASSUME NEW p \in Procs, HandOver(p) PROVE TypeOK'
  BY <1>12 DEF HandOver, Goto, TypeOK, WaitPcs
<1>13. ASSUME NEW p \in Procs, Signal(p) PROVE TypeOK'
  BY <1>13 DEF Signal, Goto, TypeOK, WaitPcs
<1> QED BY <1>1, <1>2, <1>3, <1>4, <1>5, <1>6, <1>7, <1>8, <1>9, <1>10, <1>11, <1>12, <1>13, NextCases

----------------------------------------------------------------------------
\* Every step keeps the counters' account of the waiters and of the permits.
LEMMA AccountStep ==
    TypeOK /\ WaitersCounted /\ Exclusion /\ [Next]_vars
        => WaitersCounted' /\ Exclusion'
<1> SUFFICES ASSUME TypeOK, WaitersCounted, Exclusion, [Next]_vars
             PROVE  WaitersCounted' /\ Exclusion'
  OBVIOUS
<1> DEFINE W == NWait + extra = waking + NPost + Max0(-count)
           E == NHold + owed + Max0(count) + waking + NPost = Permits + extra
<1>a. W /\ E
  BY DEF WaitersCounted, Exclusion, NWait, NHold, NPost
<1>b. W' /\ E' => WaitersCounted' /\ Exclusion'
  BY DEF WaitersCounted, Exclusion, NWait, NHold, NPost
<1>c. NWait \in Nat /\ NHold \in Nat /\ NPost \in Nat
  BY Finite
<1>d. count \in Int /\ waking \in Nat /\ owed \in Nat /\ extra \in Nat /\ Permits \in Nat
  BY ConstAssumption DEF TypeOK
<1>e. ASSUME NEW p \in Procs, NEW l, Goto(p, l) PROVE Moved(p, l)
  BY <1>e, CountsMove
<1>f. UNCHANGED pc => NWait' = NWait /\ NHold' = NHold /\ NPost' = NPost
  BY CountsStay
<1> HIDE DEF W, E
<1>1. CASE UNCHANGED vars
  BY <1>1, <1>a, <1>b, <1>f DEF vars, W, E, Max0
<1>2. CASE InterruptUp
  BY <1>2, <1>a, <1>b, <1>c, <1>d, <1>f DEF InterruptUp, W, E, Max0
<1>3. ASSUME NEW p \in Procs, NEW m \in {"I", "U"}, Down(p, m) PROVE W' /\ E'
  <2>1. Goto(p, "slow") => Moved(p, "slow")
    BY <1>e
  <2>2. Goto(p, "in") => Moved(p, "in")
    BY <1>e
  <2> QED BY <1>3, <1>a, <1>c, <1>d, <2>1, <2>2 DEF Down, Moved, In, W, E, Max0, WaitPcs
<1>4. ASSUME NEW p \in Procs, Enqueue(p) PROVE W' /\ E'
  <2>1. Goto(p, "test") => Moved(p, "test")
    BY <1>e
  <2> QED BY <1>4, <1>a, <1>c, <1>d, <2>1 DEF Enqueue, Moved, In, W, E, Max0, WaitPcs
<1>5. ASSUME NEW p \in Procs, Test(p) PROVE W' /\ E'
  <2>1. Goto(p, "in") => Moved(p, "in")
    BY <1>e
  <2>2. Goto(p, "signal") => Moved(p, "signal")
    BY <1>e
  <2> QED BY <1>5, <1>a, <1>c, <1>d, <2>1, <2>2 DEF Test, Moved, In, W, E, Max0, WaitPcs
<1>6. ASSUME NEW p \in Procs, GiveUp(p) PROVE W' /\ E'
  <2>1. Goto(p, "out") => Moved(p, "out")
    BY <1>e
  <2> QED BY <1>6, <1>a, <1>c, <1>d, <2>1 DEF GiveUp, Moved, In, W, E, Max0, WaitPcs
<1>7. ASSUME NEW p \in Procs, Wait(p) PROVE W' /\ E'
  <2>1. Goto(p, "sched") => Moved(p, "sched")
    BY <1>e
  <2> QED BY <1>7, <1>a, <1>c, <1>d, <2>1 DEF Wait, Moved, In, W, E, Max0, WaitPcs
<1>8. ASSUME NEW p \in Procs, Schedule(p) PROVE W' /\ E'
  <2>1. Goto(p, "asleep") => Moved(p, "asleep")
    BY <1>e
  <2> QED BY <1>8, <1>a, <1>c, <1>d, <2>1 DEF Schedule, Moved, In, W, E, Max0, WaitPcs
<1>9. ASSUME NEW p \in Procs, Post(p) PROVE W' /\ E'
  <2>1. Goto(p, "out") => Moved(p, "out")
    BY <1>e
  <2> QED BY <1>9, <1>a, <1>c, <1>d, <2>1 DEF Post, Moved, In, W, E, Max0, WaitPcs
<1>10. ASSUME NEW p \in Procs, Resume(p) PROVE W' /\ E'
  <2>1. Goto(p, "test") => Moved(p, "test")
    BY <1>e
  <2> QED BY <1>10, <1>a, <1>c, <1>d, <2>1 DEF Resume, Moved, In, W, E, Max0, WaitPcs
<1>11. ASSUME NEW p \in Procs, Up(p) PROVE W' /\ E'
  <2>1. Goto(p, "post") => Moved(p, "post")
    BY <1>e
  <2>2. Goto(p, "out") => Moved(p, "out")
    BY <1>e
  <2> QED BY <1>11, <1>a, <1>c, <1>d, <2>1, <2>2 DEF Up, Moved, In, W, E, Max0, WaitPcs
<1>12. ASSUME NEW p \in Procs, HandOver(p) PROVE W' /\ E'
  <2>1. Goto(p, "out") => Moved(p, "out")
    BY <1>e
  <2> QED BY <1>12, <1>a, <1>c, <1>d, <2>1 DEF HandOver, Moved, In, W, E, Max0, WaitPcs
<1>13. ASSUME NEW p \in Procs, Signal(p) PROVE W' /\ E'
  BY <1>13, <1>a, <1>f DEF Signal, W, E, Max0
<1> QED BY <1>1, <1>2, <1>3, <1>4, <1>5, <1>6, <1>7, <1>8, <1>9, <1>10, <1>11, <1>12, <1>13, <1>b, NextCases

----------------------------------------------------------------------------
\* No step puts a process to sleep past a wakeup: __up wakes the whole queue
\* when it raises waking, and a process goes on to sleep only from a test that
\* found waking zero.
LEMMA AwakeStep == TypeOK /\ Awake /\ [Next]_vars => Awake'
<1> SUFFICES ASSUME TypeOK, Awake, [Next]_vars PROVE Awake'
  OBVIOUS
<1>1. CASE UNCHANGED vars
  BY <1>1 DEF vars, Awake
<1>2. CASE InterruptUp
  BY <1>2 DEF InterruptUp, wake_up, TypeOK, WaitPcs, Awake
<1>3. ASSUME NEW p \in Procs, NEW m \in {"I", "U"}, Down(p, m) PROVE Awake'
  BY <1>3 DEF Down, Goto, TypeOK, WaitPcs, Awake
<1>4. ASSUME NEW p \in Procs, Enqueue(p) PROVE Awake'
  BY <1>4 DEF Enqueue, Goto, TypeOK, WaitPcs, Awake
<1>5. ASSUME NEW p \in Procs, Test(p) PROVE Awake'
  BY <1>5 DEF Test, Goto, TypeOK, WaitPcs, Awake
<1>6. ASSUME NEW p \in Procs, GiveUp(p) PROVE Awake'
  BY <1>6 DEF GiveUp, Goto, TypeOK, WaitPcs, Awake
<1>7. ASSUME NEW p \in Procs, Wait(p) PROVE Awake'
  BY <1>7 DEF Wait, Goto, TypeOK, WaitPcs, Awake
<1>8. ASSUME NEW p \in Procs, Schedule(p) PROVE Awake'
  BY <1>8 DEF Schedule, Goto, TypeOK, WaitPcs, Awake
<1>9. ASSUME NEW p \in Procs, Post(p) PROVE Awake'
  BY <1>9 DEF Post, Goto, wake_up, TypeOK, WaitPcs, Awake
<1>10. ASSUME NEW p \in Procs, Resume(p) PROVE Awake'
  BY <1>10 DEF Resume, Goto, TypeOK, WaitPcs, Awake
<1>11. ASSUME NEW p \in Procs, Up(p) PROVE Awake'
  BY <1>11 DEF Up, Goto, TypeOK, WaitPcs, Awake
<1>12. ASSUME NEW p \in Procs, HandOver(p) PROVE Awake'
  BY <1>12 DEF HandOver, Goto, TypeOK, WaitPcs, Awake
<1>13. ASSUME NEW p \in Procs, Signal(p) PROVE Awake'
  BY <1>13 DEF Signal, Goto, TypeOK, WaitPcs, Awake
<1> QED BY <1>1, <1>2, <1>3, <1>4, <1>5, <1>6, <1>7, <1>8, <1>9, <1>10, <1>11, <1>12, <1>13, NextCases

----------------------------------------------------------------------------
\* A new semaphore is accounted for: nobody waits, holds or posts.
LEMMA InitFacts == Init => Accounting /\ Awake
<1> SUFFICES ASSUME Init PROVE Accounting /\ Awake
  OBVIOUS
<1>1. TypeOK
  BY ConstAssumption DEF Init, TypeOK, WaitPcs
<1>2. Waiters = {} /\ Holders = {} /\ Posting = {}
  BY DEF Init, Waiters, Holders, Posting, WaitPcs
<1>3. Cardinality({}) = 0
  BY FS_EmptySet
<1>4. WaitersCounted /\ Exclusion
  BY <1>2, <1>3, ConstAssumption DEF Init, WaitersCounted, Exclusion, Max0
<1>5. Awake
  BY DEF Init, Awake
<1> QED BY <1>1, <1>4, <1>5 DEF Accounting

\* down, down_interruptible and up keep account of every waiter and of every
\* permit, whatever interrupts, signals and hand-overs come in between, for any
\* number of processes and any initial count.
THEOREM SemaphoreAccounts == Spec => []Accounting
<1>1. Init => Accounting
  BY InitFacts
<1>2. Accounting /\ [Next]_vars => Accounting'
  BY TypeStep, AccountStep DEF Accounting
<1> QED BY <1>1, <1>2, PTL DEF Spec

\* No wakeup is lost between the test of waking in __do_down and the sleep.
THEOREM NoLostWakeup == Spec => []Awake
<1>1. Init => Awake
  BY InitFacts
<1>2. Accounting => TypeOK
  BY DEF Accounting
<1> QED BY <1>1, <1>2, AwakeStep, SemaphoreAccounts, PTL DEF Spec

\* A permit is held by at most as many processes as the initial count has
\* permits while no give-up has raced with an interrupt's up: a MUTEX is held
\* by one process at a time.
THEOREM MutualExclusion ==
    Spec => [](extra = 0 /\ Permits = 1 =>
                 \A p, q \in Procs : pc[p] = "in" /\ pc[q] = "in" => p = q)
<1>1. Accounting /\ extra = 0 /\ Permits = 1 =>
        \A p, q \in Procs : pc[p] = "in" /\ pc[q] = "in" => p = q
  <2> SUFFICES ASSUME Accounting, extra = 0, Permits = 1,
                      NEW p \in Procs, NEW q \in Procs, pc[p] = "in", pc[q] = "in"
               PROVE  p = q
    OBVIOUS
  <2>1. /\ IsFiniteSet(Holders)
        /\ NHold \in Nat /\ NPost \in Nat /\ NWait \in Nat
    BY Finite
  <2>2. NHold <= 1
    BY <2>1 DEF Accounting, TypeOK, Exclusion, Max0, NHold, NPost
  <2>3. p \in Holders /\ q \in Holders
    BY DEF Holders
  <2>4. NHold # 0
    BY <2>1, <2>3, FS_EmptySet DEF NHold
  <2>5. NHold = 1
    BY <2>1, <2>2, <2>4
  <2>6. PICK x : Holders = {x}
    BY <2>1, <2>5, FS_Singleton DEF NHold
  <2> QED BY <2>3, <2>6
<1> QED BY <1>1, SemaphoreAccounts, PTL

=============================================================================
