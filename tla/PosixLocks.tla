----------------------------- MODULE PosixLocks -----------------------------
(***************************************************************************)
(* The POSIX record locks of one inode (fs/locks.c): posix_lock_file with   *)
(* its list of locks, its block lists and its search for deadlock, the      *)
(* removal of locks at a close, and locks_mandatory_area, which read and    *)
(* write call on a file with mandatory locks.                               *)
(*                                                                         *)
(* One processor, and the kernel is not preempted: a call gives the         *)
(* processor up only in kmalloc and in interruptible_sleep_on, so an action *)
(* is the code between two of these.  A lock's block list is a field of it. *)
(* No lock has been looked at before kmalloc, so a call that sleeps there is *)
(* one that begins later, and one that fails there changes nothing.          *)
(***************************************************************************)
EXTENDS LockList, FiniteSets, FiniteSetsExt

CONSTANTS
    Owners,
    None,
    OFFSET_MAX,     \* the largest off_t, one less than a power of two
    Ranges,         \* the l_start and l_len that are passed to fcntl
    Areas           \* the start and length of reads and writes

VARIABLES
    i_flock,        \* the inode's list of locks, while they are FL_POSIX
    flocked,        \* the list holds FL_FLOCK locks instead
    pc,             \* where a process is: not in a call, asleep in one or woken
    req,            \* its struct file_lock while it sleeps: caller or tfl
    sig,            \* a signal it does not block is pending
    mand            \* the mode of the inode asks for mandatory locks

Bytes == 0 .. OFFSET_MAX

\* What a sum is once it is stored in an off_t.
Wrap(n) == IF n > OFFSET_MAX THEN n - 2 * (OFFSET_MAX + 1) ELSE n

\* The file_lock that the arguments of fcntl describe.
posix_make_lock(type, start, len, wait) ==
    LET end == Wrap(start + len - 1)
    IN  [op |-> "lock", type |-> type, start |-> start, wait |-> wait,
         end |-> IF len = 0 \/ end < 0 THEN OFFSET_MAX ELSE end]

SetRequests ==
    {posix_make_lock(t, a[1], a[2], w) : t \in {"F_RDLCK", "F_WRLCK"}, a \in Ranges, w \in BOOLEAN}
UnlockRequests == {posix_make_lock("F_UNLCK", a[1], a[2], FALSE) : a \in Ranges}
LockRequests == SetRequests \cup UnlockRequests

\* The tfl of a read or write of at least one byte.
AccessRequests ==
    {[op |-> "access", type |-> t, start |-> a[1], end |-> Wrap(a[1] + a[2] - 1), wait |-> w] :
        t \in {"F_RDLCK", "F_WRLCK"}, a \in Areas, w \in BOOLEAN}

Requests == LockRequests \cup AccessRequests

----------------------------------------------------------------------------
(* Conflicts, and who waits for whom.                                       *)

locks_overlap(f, g) == f.end >= g.start /\ g.end >= f.start

posix_locks_conflict(p, r, fl) ==
    /\ fl.owner # p
    /\ locks_overlap(r, fl)
    /\ r.type = "F_WRLCK" \/ fl.type = "F_WRLCK"

\* p is on the block list of fl.
Blocks(fl, p) == \E k \in DOMAIN fl.block : fl.block[k] = p

\* Faulty variant of posix_locks_deadlock: it looks one task far.
posix_locks_deadlock_direct(list, me, blocked) ==
    \/ blocked = me
    \/ \E i \in DOMAIN list : list[i].owner = me /\ Blocks(list[i], blocked)

\* The search goes from a task to the one whose lock it waits for, and stops at
\* a task that waits for nobody: it finds me if everything that holds blocked and
\* is closed under its steps holds me.
posix_locks_deadlock(list, me, blocked) ==
    LET next(t) == {list[i].owner : i \in {j \in DOMAIN list : Blocks(list[j], t)}}
    IN  \A T \in SUBSET Owners : blocked \in T /\ (\A t \in T : next(t) \subseteq T) => me \in T

locks_insert_block(list, i, p) == [list EXCEPT ![i].block = Append(@, p)]

locks_delete_block(list, p) ==
    [i \in DOMAIN list |-> [list[i] EXCEPT !.block = RemoveFirst(@, p)]]

----------------------------------------------------------------------------
(* The second half of posix_lock_file: the request of p becomes part of the *)
(* list.  A function of the locks passed stands for the loop; s holds its locals. *)
(* out is the list so far, at the place of before in it once the loop has    *)
(* broken off, start and end the range of caller, new the place in out of    *)
(* the lock that has taken the request in, and woken whom wake_up reached.    *)

locks_wake_up_blocks(s, fl) == s.woken \cup ToSet(fl.block)

NextLock(s, fl) == [s EXCEPT !.out = Append(@, fl), !.seen = TRUE]
Break(s, fl) == [s EXCEPT !.out = Append(@, fl), !.at = Len(s.out) + 1]

\* locks_delete_lock(before, 0)
locks_delete_lock(s, fl) == [s EXCEPT !.woken = locks_wake_up_blocks(s, fl), !.seen = TRUE]

\* Faulty variant of SameType: adjacent locks are not merged.
SameTypeApart(s, fl, r) ==
    LET lo == Min({fl.start, s.start})
        hi == Max({fl.end, s.end})
        t == [s EXCEPT !.start = lo, !.end = hi]
    IN  IF fl.end < s.start THEN NextLock(s, fl)
        ELSE IF fl.start > s.end THEN Break(s, fl)
        ELSE IF s.new # 0
             THEN locks_delete_lock([t EXCEPT !.out[s.new].start = lo,
                                              !.out[s.new].end = hi], fl)
             ELSE NextLock([t EXCEPT !.added = TRUE, !.new = Len(s.out) + 1],
                           [fl EXCEPT !.start = lo, !.end = hi])

SameType(s, fl, r) ==
    LET lo == Min({fl.start, s.start})
        hi == Max({fl.end, s.end})
        t == [s EXCEPT !.start = lo, !.end = hi]
    IN  IF fl.end < s.start - 1 THEN NextLock(s, fl)
        ELSE IF fl.start > Wrap(s.end + 1) THEN Break(s, fl)
        ELSE IF s.new # 0
             THEN locks_delete_lock([t EXCEPT !.out[s.new].start = lo,
                                              !.out[s.new].end = hi], fl)
             ELSE NextLock([t EXCEPT !.added = TRUE, !.new = Len(s.out) + 1],
                           [fl EXCEPT !.start = lo, !.end = hi])

\* Faulty variant of OtherType: a lock that is taken over wakes nobody.
OtherTypeNoWake(s, fl, r) ==
    LET t == [s EXCEPT !.added = @ \/ r.type = "F_UNLCK",
                       !.left = IF fl.start < s.start THEN Len(s.out) + 1 ELSE @]
    IN  IF fl.end < s.start THEN NextLock(s, fl)
        ELSE IF fl.start > s.end THEN Break(s, fl)
        ELSE IF fl.end > s.end THEN Break([t EXCEPT !.right = TRUE], fl)
        ELSE IF fl.start < s.start THEN NextLock(t, fl)
        ELSE IF t.added THEN locks_delete_lock(t, fl)
        ELSE NextLock([t EXCEPT !.added = TRUE, !.new = Len(s.out) + 1],
                      [fl EXCEPT !.start = s.start, !.end = s.end,
                                 !.type = r.type])

OtherType(s, fl, r) ==
    LET t == [s EXCEPT !.added = @ \/ r.type = "F_UNLCK",
                       !.left = IF fl.start < s.start THEN Len(s.out) + 1 ELSE @]
    IN  IF fl.end < s.start THEN NextLock(s, fl)
        ELSE IF fl.start > s.end THEN Break(s, fl)
        ELSE IF fl.end > s.end THEN Break([t EXCEPT !.right = TRUE], fl)
        ELSE IF fl.start < s.start THEN NextLock(t, fl)
        ELSE IF t.added THEN locks_delete_lock(t, fl)
        ELSE NextLock([t EXCEPT !.added = TRUE, !.new = Len(s.out) + 1,
                                !.woken = locks_wake_up_blocks(s, fl)],
                      [fl EXCEPT !.start = s.start, !.end = s.end,
                                 !.type = r.type, !.block = << >>])

Loop(p, r, s, fl) ==
    IF s.at # 0 THEN [s EXCEPT !.out = Append(@, fl)]
    ELSE IF fl.owner # p
         THEN IF s.seen THEN Break(s, fl) ELSE [s EXCEPT !.out = Append(@, fl)]
    ELSE IF fl.type = r.type THEN SameType(s, fl, r) ELSE OtherType(s, fl, r)

Loops(list, p, r) ==
    LET s0 == [out |-> << >>, at |-> 0, seen |-> FALSE, start |-> r.start,
               end |-> r.end, added |-> FALSE, new |-> 0, left |-> 0,
               right |-> FALSE, woken |-> {}]
        run[k \in 0 .. Len(list)] ==
            IF k = 0 THEN s0 ELSE Loop(p, r, run[k - 1], list[k])
        s == run[Len(list)]
    IN  [s EXCEPT !.at = IF @ = 0 THEN Len(s.out) + 1 ELSE @]

\* Faulty variant of NewList: what reaches beyond the request is not cut back.
NewListUncut(s, p, r) ==
    LET fresh == IF s.added THEN << >>
                 ELSE << [owner |-> p, type |-> r.type, start |-> r.start,
                          end |-> r.end, block |-> << >>] >>
    IN  SubSeq(s.out, 1, s.at - 1) \o fresh \o SubSeq(s.out, s.at, Len(s.out))

\* The loop is left: what is new is inserted, what reaches beyond the request
\* on either side is cut back, and a lock around it becomes two.
NewList(s, p, r) ==
    LET before == SubSeq(s.out, 1, s.at - 1)
        after == SubSeq(s.out, s.at, Len(s.out))
        toLeft(fl) == [fl EXCEPT !.end = s.start - 1, !.block = << >>]
        toRight(fl) == [fl EXCEPT !.start = s.end + 1, !.block = << >>]
        lefts == IF s.left \in DOMAIN before
                 THEN [before EXCEPT ![s.left] = toLeft(@)] ELSE before
        split == IF s.left = s.at THEN << toLeft(after[1]) >> ELSE << >>
        fresh == IF s.added THEN << >>
                 ELSE << [owner |-> p, type |-> r.type, start |-> r.start,
                          end |-> r.end, block |-> << >>] >>
        rights == IF s.right THEN [after EXCEPT ![1] = toRight(@)] ELSE after
    IN  IF ~s.added /\ r.type = "F_UNLCK" THEN s.out
        ELSE lefts \o split \o fresh \o rights

NewWoken(s) ==
    s.woken \cup UNION {ToSet(s.out[i].block) : i \in ({s.left} \ {0})
                                                  \cup (IF s.right THEN {s.at} ELSE {})}

----------------------------------------------------------------------------
(* The calls.                                                               *)

\* wake_up on the fl_wait of each process of W.
Wake(W) == [q \in Owners |-> IF q \in W /\ pc[q] = "asleep" THEN "woken" ELSE pc[q]]

\* Back in user mode, where pending signals are handled.
Return(p, W) ==
    /\ pc' = [Wake(W) EXCEPT ![p] = "user"]
    /\ req' = [req EXCEPT ![p] = None]
    /\ sig' = [sig EXCEPT ![p] = FALSE]

\* p is at the beginning of its call, or back from interruptible_sleep_on.
At(p, r) == pc[p] = "user" \/ (pc[p] = "woken" /\ req[p] = r)

\* interruptible_sleep_on.
Sleeps(p, r, list, i) ==
    /\ i_flock' = locks_insert_block(list, i, p)
    /\ pc' = [pc EXCEPT ![p] = "asleep"]
    /\ req' = [req EXCEPT ![p] = r]
    /\ UNCHANGED sig

\* The locks that stand in the way, in a list p is not waiting in.
Unblocked(p) == locks_delete_block(i_flock, p)
Conflicts(p, r) == {i \in DOMAIN i_flock : posix_locks_conflict(p, r, i_flock[i])}
Deadlock(p, r) == posix_locks_deadlock(Unblocked(p), p, i_flock[Min(Conflicts(p, r))].owner)

\* posix_lock_file from repeat on; a woken process takes its caller off the
\* block list first.
posix_lock_file(p, r) ==
    /\ At(p, r)
    /\ IF flocked THEN i_flock' = Unblocked(p) /\ Return(p, {})
       ELSE IF r.type = "F_UNLCK" \/ Conflicts(p, r) = {}
       THEN \E s \in {Loops(Unblocked(p), p, r)} :
                /\ i_flock' = NewList(s, p, r)
                /\ Return(p, NewWoken(s))
       ELSE IF ~r.wait \/ Deadlock(p, r) \/ sig[p]
       THEN i_flock' = Unblocked(p) /\ Return(p, {})
       ELSE Sleeps(p, r, Unblocked(p), Min(Conflicts(p, r)))
    /\ UNCHANGED <<flocked, mand>>

\* locks_verify_area and locks_mandatory_area.
locks_mandatory_area(p, r) ==
    /\ At(p, r)
    /\ IF Conflicts(p, r) = {} \/ ~mand \/ ~r.wait \/ sig[p] \/ Deadlock(p, r)
       THEN i_flock' = Unblocked(p) /\ Return(p, {})
       ELSE Sleeps(p, r, Unblocked(p), Min(Conflicts(p, r)))
    /\ UNCHANGED <<flocked, mand>>

\* close: posix_remove_locks takes every lock of the process off the list.
posix_remove_locks(p) ==
    LET gone == {i \in DOMAIN i_flock : i_flock[i].owner = p}
    IN  /\ pc[p] = "user" /\ gone # {}
        /\ i_flock' = Keep(i_flock, gone)
        /\ pc' = Wake(UNION {ToSet(i_flock[i].block) : i \in gone})
        /\ UNCHANGED <<flocked, req, sig, mand>>

\* chmod, while somebody waits.
ChangeMode ==
    /\ mand' = ~mand
    /\ UNCHANGED <<i_flock, flocked, pc, req, sig>>
=============================================================================
