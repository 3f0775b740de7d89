-------------------------------- MODULE Flock --------------------------------
(***************************************************************************)
(* The BSD locks of one inode: flock_lock_file of fs/locks.c and the        *)
(* removal of locks at the last close.  A lock belongs to an open file,     *)
(* which processes share after a fork; it covers the whole file.            *)
(*                                                                         *)
(* One processor, and the kernel is not preempted: a call gives it up in    *)
(* interruptible_sleep_on and in the schedule of locks_wake_up_blocks, so   *)
(* an action is the code between two of these.                              *)
(***************************************************************************)
EXTENDS LockList, FiniteSets, FiniteSetsExt

CONSTANTS
    Procs,
    None,
    Sharers     \* processes with one struct file; each other has its own

VARIABLES
    i_flock,    \* the inode's list of FL_FLOCK locks
    posix,      \* the list holds FL_POSIX locks instead
    pc,         \* where a process is
    req,        \* what it asked for
    dying,      \* the block list of the lock it deletes with wait = 1
    sig,        \* a signal it does not block is pending
    open        \* it has its file open

\* The struct file of p, named by the processes that have it.
filp(p) == IF p \in Sharers THEN Sharers ELSE {p}
f_count(f) == Cardinality({p \in f : open[p]})

Requests == [op : {"flock"}, type : {"F_RDLCK", "F_WRLCK"}, wait : BOOLEAN]
            \cup [op : {"flock"}, type : {"F_UNLCK"}, wait : {FALSE}]

----------------------------------------------------------------------------
(* Lists.                                                                   *)

flock_locks_conflict(p, r, fl) ==
    /\ fl.file # filp(p)
    /\ r.type = "F_WRLCK" \/ fl.type = "F_WRLCK"

\* locks_delete_block: p leaves the block list it is on, of whichever lock.
DeleteBlock(list, p) == [i \in DOMAIN list |-> [list[i] EXCEPT !.block = RemoveFirst(@, p)]]

\* Who is blocked by the locks at the places in I.
BlockedBy(I) == UNION {ToSet(i_flock[i].block) : i \in I}

Own(p) == {i \in DOMAIN i_flock : i_flock[i].file = filp(p)}

\* wake_up on the fl_wait of each process of W.
Wake(W) == [q \in Procs |-> IF q \in W /\ pc[q] = "asleep" THEN "woken" ELSE pc[q]]

Return(p, W) ==
    /\ pc' = [Wake(W) EXCEPT ![p] = "user"]
    /\ req' = [req EXCEPT ![p] = None]
    /\ sig' = [sig EXCEPT ![p] = FALSE]

\* interruptible_sleep_on.
Sleeps(p, r) ==
    /\ pc' = [pc EXCEPT ![p] = "asleep"]
    /\ req' = [req EXCEPT ![p] = r]
    /\ UNCHANGED sig

----------------------------------------------------------------------------
(* flock_lock_file.                                                         *)

\* From repeat on, s a signal is pending: the lock goes to the head of list, or
\* p waits, or fails.
Repeat(p, r, s, list) ==
    LET conflicts == {i \in DOMAIN list : flock_locks_conflict(p, r, list[i])}
        new == [file |-> filp(p), type |-> r.type, block |-> << >>]
    IN  IF s \/ posix \/ (conflicts # {} /\ ~r.wait)
        THEN i_flock' = list /\ Return(p, {})
        ELSE IF conflicts = {}
        THEN i_flock' = <<new>> \o list /\ Return(p, {})
        ELSE i_flock' = [list EXCEPT ![Min(conflicts)].block = Append(@, p)] /\ Sleeps(p, r)

\* From search on.  Locks of the same file that nobody waits for are deleted
\* one after the other; the search ends at one of the type asked for, and
\* gives the processor up at one that has waiters.
search(p, r, s) ==
    LET halt == {i \in Own(p) : i_flock[i].type = r.type \/ i_flock[i].block # << >>}
        first == Min(halt)
        passed == {i \in Own(p) : halt # {} => i < first}
    IN  IF posix THEN Return(p, {}) /\ UNCHANGED <<i_flock, dying>>
        ELSE IF halt = {} THEN Repeat(p, r, s, Keep(i_flock, passed)) /\ UNCHANGED dying
        ELSE IF i_flock[first].type = r.type
        THEN /\ i_flock' = Keep(i_flock, passed)
             /\ Return(p, {})
             /\ UNCHANGED dying
        ELSE /\ i_flock' = Keep(i_flock, passed \cup {first})
             /\ dying' = [dying EXCEPT ![p] = i_flock[first].block]
             /\ pc' = [Wake({i_flock[first].block[1]}) EXCEPT ![p] = "yield"]
             /\ req' = [req EXCEPT ![p] = r] /\ sig' = [sig EXCEPT ![p] = s]

\* LOCK_UN deletes the first lock of the file and empties its block list.
unlock(p) ==
    LET gone == IF posix \/ Own(p) = {} THEN {} ELSE {Min(Own(p))}
    IN  /\ i_flock' = Keep(i_flock, gone)
        /\ Return(p, BlockedBy(gone))
        /\ UNCHANGED dying

\* sys_flock.  The lock is allocated before anything is looked at, so a call
\* that sleeps in kmalloc is one that begins later.
flock_lock_file(p, r, s) ==
    /\ pc[p] = "user" /\ open[p]
    /\ IF r.type = "F_UNLCK" THEN unlock(p) ELSE search(p, r, s)
    /\ UNCHANGED <<posix, open>>

\* locks_wake_up_blocks, wait = 1, back from schedule: the next waiter is
\* woken, or none is left and the search begins anew.
Yield(p) ==
    /\ pc[p] = "yield"
    /\ IF dying[p] # << >>
       THEN pc' = Wake({dying[p][1]}) /\ UNCHANGED <<i_flock, req, dying, sig>>
       ELSE search(p, req[p], sig[p])
    /\ UNCHANGED <<posix, open>>

\* Faulty variant of Resume: the conflicts are not looked at again.
ResumeGrants(p) ==
    /\ pc[p] = "woken"
    /\ i_flock' = <<[file |-> filp(p), type |-> req[p].type, block |-> << >>]>>
                    \o DeleteBlock(i_flock, p)
    /\ Return(p, {})
    /\ dying' = [q \in Procs |-> RemoveFirst(dying[q], p)]
    /\ UNCHANGED <<posix, open>>

\* A sleeper runs: off the block list, and back to repeat.
Resume(p) ==
    /\ pc[p] = "woken"
    /\ Repeat(p, req[p], sig[p], DeleteBlock(i_flock, p))
    /\ dying' = [q \in Procs |-> RemoveFirst(dying[q], p)]
    /\ UNCHANGED <<posix, open>>

\* close: with the last descriptor of the file its locks go.
flock_remove_locks(p) ==
    LET gone == IF f_count(filp(p)) = 1 THEN Own(p) ELSE {}
    IN  /\ pc[p] = "user" /\ open[p]
        /\ i_flock' = Keep(i_flock, gone)
        /\ pc' = Wake(BlockedBy(gone))
        /\ open' = [open EXCEPT ![p] = FALSE]
        /\ UNCHANGED <<posix, req, dying, sig>>

\* open, or a fork of a process that shares the file.
Open(p) ==
    /\ pc[p] = "user" /\ ~open[p]
    /\ open' = [open EXCEPT ![p] = TRUE]
    /\ UNCHANGED <<i_flock, posix, pc, req, dying, sig>>
=============================================================================
