----------------------------- MODULE TimerWheel -----------------------------
(***************************************************************************)
(* The timers of kernel/sched.c: five vectors of lists, the first indexed  *)
(* by the low bits of the expiry, the others cascaded into it as jiffies   *)
(* go by.  run_timer_list runs as a bottom half and turns interrupts on    *)
(* only around a timer function; timers are set and deleted then, or while *)
(* it does not run.                                                         *)
(*                                                                         *)
(* Jiffies are words: they wrap, as the five vectors together do.  A list  *)
(* is a set of timers: which one of a list runs first is left open.         *)
(***************************************************************************)
EXTENDS Integers

CONSTANTS
    Timers,      \* the struct timer_lists
    TVR_SIZE,    \* entries of tv1
    TVN_SIZE,    \* entries of tv2 to tv5
    MaxDelay,    \* bound: jiffies from now a timer is set for
    MaxLag       \* bound: ticks between two steps of run_timer_list

ASSUME ConstAssumption ==
    /\ TVR_SIZE \in Nat /\ TVR_SIZE > 1 /\ TVN_SIZE \in Nat /\ TVN_SIZE > 1
    /\ MaxDelay \in Nat /\ MaxLag \in Nat
    /\ MaxDelay + MaxLag + 1 < TVR_SIZE * TVN_SIZE * TVN_SIZE * TVN_SIZE * TVN_SIZE
    /\ MaxLag < TVR_SIZE * TVN_SIZE

Far == TVR_SIZE * TVN_SIZE * TVN_SIZE * TVN_SIZE   \* the reach of tv1 to tv4
Word == Far * TVN_SIZE                             \* 2^32
Levels == 1..5                                     \* tvecs, NOOF_TVECS
Size(n) == IF n = 1 THEN TVR_SIZE ELSE TVN_SIZE

VARIABLES
    jiffies, timer_jiffies,
    at,         \* at[t]: the vector and the list timer t is in, or one of the below
    index,      \* index[n]: the list of vector n that is next
    expires,    \* timer->expires of a pending timer
    pc,         \* run_timer_list: not running, at either loop, in a timer's function
    past        \* history: pending timers that add_timer took for past

vars == <<jiffies, timer_jiffies, at, index, expires, pc, past>>

NoList == <<0, 0>>    \* not pending: next and prev are NULL
Self == <<0, 1>>      \* linked to itself
Dropped == <<0, 2>>   \* in a list that was cleared

Pending(t) == at[t] # NoList

Minus(a, b) == (a - b) % Word   \* unsigned subtraction

Init ==
    /\ jiffies = 0 /\ timer_jiffies = 0
    /\ at = [t \in Timers |-> NoList] /\ index = [n \in Levels |-> 0]
    /\ expires = [t \in Timers |-> 0]
    /\ pc = "idle" /\ past = {}

----------------------------------------------------------------------------
\* idx is tested against the reach of tv1, tv2, tv3 and tv4 in turn.
Reach(n) == CASE n = 1 -> TVR_SIZE [] n = 2 -> TVR_SIZE * TVN_SIZE
              [] n = 3 -> TVR_SIZE * TVN_SIZE * TVN_SIZE [] n = 4 -> Far

\* expires >> the bits below vector n, & its mask.
ListOf(n, e) == IF n = 1 THEN e % TVR_SIZE ELSE (e \div Reach(n - 1)) % TVN_SIZE

\* Faulty variant of internal_add_timer: what just fits a vector goes there too.
internal_add_timer_le(e) ==
    LET idx == Minus(e, timer_jiffies)
    IN IF idx < Far
         THEN LET n == CHOOSE k \in 1..4 : /\ idx <= Reach(k)
                                           /\ \A j \in 1..k-1 : idx > Reach(j)
              IN <<n, ListOf(n, e)>>
       ELSE IF e < timer_jiffies THEN <<1, index[1]>>
       ELSE IF idx < Word - 1 THEN <<5, ListOf(5, e)>>
       ELSE Self

\* Where a timer with expiry e is inserted.
internal_add_timer(e) ==
    LET idx == Minus(e, timer_jiffies)
    IN IF idx < Far
         THEN LET n == CHOOSE k \in 1..4 : /\ idx < Reach(k)
                                           /\ \A j \in 1..k-1 : idx >= Reach(j)
              IN <<n, ListOf(n, e)>>
       ELSE IF e < timer_jiffies THEN <<1, index[1]>>
       ELSE IF idx < Word - 1 THEN <<5, ListOf(5, e)>>
       ELSE Self

detach_timer(t) ==
    /\ at' = [at EXCEPT ![t] = NoList]
    /\ expires' = [expires EXCEPT ![t] = 0]
    /\ past' = past \ {t}

\* w is [at, index].  The timers of the list the index is at are added again,
\* then the list is cleared, and the index moves on.
cascade_timers(w, n) ==
    LET list == <<n, w.index[n]>>
        to(e) == internal_add_timer(e)
    IN [at    |-> [t \in Timers |->
                     IF w.at[t] # list THEN w.at[t]
                     ELSE IF to(expires[t]) = list THEN Dropped ELSE to(expires[t])],
        index |-> [w.index EXCEPT ![n] = (@ + 1) % TVN_SIZE]]

----------------------------------------------------------------------------
(* The clock and the users of timers.                                       *)

InterruptsOn == pc \in {"idle", "fn"}

Tick ==
    /\ InterruptsOn
    /\ Minus(jiffies, timer_jiffies) \in 0..MaxLag-1 \cup {Word - 1}
    /\ jiffies' = (jiffies + 1) % Word
    /\ UNCHANGED <<timer_jiffies, at, index, expires, pc, past>>

\* add_timer with expires = jiffies + d.  Callers do not set a pending timer.
add_timer(t, d) ==
    LET e == (jiffies + d) % Word
    IN /\ InterruptsOn /\ ~Pending(t)
       /\ at' = [at EXCEPT ![t] = internal_add_timer(e)]
       /\ expires' = [expires EXCEPT ![t] = e]
       /\ past' = IF Minus(e, timer_jiffies) >= Far /\ e < timer_jiffies
                    THEN past \cup {t} ELSE past
       /\ UNCHANGED <<jiffies, timer_jiffies, index, pc>>

del_timer(t) ==
    /\ InterruptsOn /\ Pending(t)
    /\ detach_timer(t)
    /\ UNCHANGED <<jiffies, timer_jiffies, index, pc>>

----------------------------------------------------------------------------
(* run_timer_list.                                                          *)

\* The loop's test: (long)(jiffies - timer_jiffies) >= 0.
Behind(j, tj) == Minus(j, tj) < Word \div 2

\* Faulty variant of cascade: the next vector follows when the index wraps to 0.
cascade_late(w) ==
    LET done[n \in Levels] ==
          IF n = 1 THEN w
          ELSE IF \A k \in 2..n-1 : done[k].index[k] = 0
                 THEN cascade_timers(done[n - 1], n)
                 ELSE done[n - 1]
    IN IF w.index[1] = 0 THEN done[5] ELSE w

\* if (!tv1.index): tv2 is cascaded, and each further vector when the one
\* before it has just cascaded its list 0.
cascade(w) ==
    LET done[n \in Levels] ==
          IF n = 1 THEN w
          ELSE IF \A k \in 2..n-1 : done[k].index[k] = 1
                 THEN cascade_timers(done[n - 1], n)
                 ELSE done[n - 1]
    IN IF w.index[1] = 0 THEN done[5] ELSE w

\* Faulty variant of Enter: nothing runs once a tick has been missed.
EnterExact ==
    /\ pc \in {"idle", "test"} /\ jiffies = timer_jiffies
    /\ LET w == cascade([at |-> at, index |-> index])
       IN at' = w.at /\ index' = w.index
    /\ pc' = "loop"
    /\ UNCHANGED <<jiffies, timer_jiffies, expires, past>>

\* The bottom half, and a round of the outer loop up to its inner loop.
Enter ==
    /\ pc \in {"idle", "test"} /\ Behind(jiffies, timer_jiffies)
    /\ LET w == cascade([at |-> at, index |-> index])
       IN at' = w.at /\ index' = w.index
    /\ pc' = "loop"
    /\ UNCHANGED <<jiffies, timer_jiffies, expires, past>>

\* A timer of the list is detached and its function called, interrupts on.
RunTimer(t) ==
    /\ pc = "loop" /\ at[t] = <<1, index[1]>>
    /\ detach_timer(t)
    /\ pc' = "fn"
    /\ UNCHANGED <<jiffies, timer_jiffies, index>>

FunctionReturns ==
    /\ pc = "fn" /\ pc' = "loop"
    /\ UNCHANGED <<jiffies, timer_jiffies, at, index, expires, past>>

\* The list is empty: on to the next jiffy.
NextJiffy ==
    /\ pc = "loop" /\ \A t \in Timers : at[t] # <<1, index[1]>>
    /\ timer_jiffies' = (timer_jiffies + 1) % Word
    /\ index' = [index EXCEPT ![1] = (@ + 1) % TVR_SIZE]
    /\ pc' = "test"
    /\ UNCHANGED <<jiffies, at, expires, past>>

Leave ==
    /\ pc = "test" /\ ~Behind(jiffies, timer_jiffies)
    /\ pc' = "idle"
    /\ UNCHANGED <<jiffies, timer_jiffies, at, index, expires, past>>

----------------------------------------------------------------------------
Next ==
    \/ Tick \/ Enter \/ FunctionReturns \/ NextJiffy \/ Leave
    \/ \E t \in Timers : \/ \E d \in 0..MaxDelay : add_timer(t, d)
                         \/ del_timer(t) \/ RunTimer(t)

Spec == Init /\ [][Next]_vars

\* The clock ticks, the bottom half runs, timer functions return.
Fairness ==
    WF_vars(Tick) /\ WF_vars(Enter \/ FunctionReturns \/ NextJiffy \/ Leave
                             \/ \E t \in Timers : RunTimer(t))

FairSpec == Spec /\ Fairness

----------------------------------------------------------------------------
\* The words are words; the clock is at most MaxLag ahead of the timers and at
\* most one jiffy behind; the indexes are the digits of timer_jiffies, one ahead
\* in the vectors above the first once their list has been cascaded.
TypeOK ==
    /\ jiffies \in 0..Word-1 /\ timer_jiffies \in 0..Word-1
    /\ Minus(jiffies, timer_jiffies) \in 0..MaxLag \cup {Word - 1}
    /\ at \in [Timers -> {NoList, Self, Dropped} \cup
                 UNION {{n} \X (0..Size(n)-1) : n \in Levels}]
    /\ expires \in [Timers -> 0..Word-1]
    /\ pc \in {"idle", "test", "loop", "fn"}
    /\ past \subseteq {t \in Timers : Pending(t)}
    /\ index \in [Levels -> Nat] /\ index[1] = timer_jiffies % TVR_SIZE
    /\ \A n \in 2..5 :
          LET full == (timer_jiffies + Reach(n - 1) - 1) \div Reach(n - 1)
              begun == timer_jiffies % Reach(n - 1) = 0 /\ pc \in {"loop", "fn"}
          IN index[n] = (IF begun THEN full + 1 ELSE full) % TVN_SIZE

\* A timer set with expires == jiffies in the last jiffy before the wrap, when
\* run_timer_list has done that jiffy and timer_jiffies is 0 again: its expiry is
\* a whole round less one ahead, and it is linked to itself and in no list.
Lost(t) == at[t] = Self /\ expires[t] = Word - 1

\* Jiffies until a timer is due, in the jiffy run_timer_list is at.
NotPending == -1
Due(t) == IF ~Pending(t) \/ Lost(t) THEN NotPending
          ELSE IF t \in past THEN 0 ELSE Minus(expires[t], timer_jiffies)

\* The wheel is the set of timers it promises to be: through all cascades a timer
\* runs in the jiffy it was set for, however far ahead that was and however late
\* run_timer_list is, and none is dropped; one that is taken off early is
\* deleted, never run.  The wrap of jiffies makes two exceptions.  A timer that
\* is Lost never runs.  And a timer set Far or more jiffies ahead whose expiry
\* wraps to below timer_jiffies is taken for past, and runs at once.
Abstract == INSTANCE TimerSet WITH due <- [t \in Timers |-> Due(t)]
WheelIsTimerSet ==
    /\ Abstract!Spec
    /\ [][\A t \in Timers : RunTimer(t) => Abstract!Run(t)]_vars

\* A timer that is set is run or deleted, unless it is Lost at the wrap --
\* provided timer functions do not keep run_timer_list in one jiffy for ever by
\* setting timers for that jiffy.
TimerRuns ==
    []<>(pc = "idle") =>
        \A t \in Timers : Pending(t) ~> ~Pending(t) \/ Lost(t)

\* No timer is linked to itself: jiffies are 32 bits wide here, and the branch of
\* internal_add_timer that does it says "Can only get here on architectures with
\* 64-bit jiffies" (kernel/sched.c:809).
NoSelfLink == \A t \in Timers : at[t] # Self

=============================================================================
