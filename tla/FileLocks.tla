----------------------------- MODULE FileLocks -----------------------------
(***************************************************************************)
(* The locks of one inode (fs/locks.c): fcntl locks (module PosixLocks) and *)
(* flock locks (module Flock) on the one list i_flock, which holds locks of *)
(* one kind at a time.  A process is in one call at a time.                 *)
(***************************************************************************)
EXTENDS Integers, Sequences, SequencesExt, FiniteSets, Functions

CONSTANTS
    Procs, None,
    Sharers,        \* processes with one struct file; each other has its own
    OFFSET_MAX,     \* the largest off_t, one less than a power of two
    Ranges,         \* the l_start and l_len that are passed to fcntl
    Areas           \* the start and length of reads and writes

ASSUME ConstAssumption ==
    /\ None \notin Procs /\ IsFiniteSet(Procs) /\ Sharers \subseteq Procs
    /\ OFFSET_MAX \in Nat
    /\ Ranges \subseteq (0 .. OFFSET_MAX) \X (0 .. OFFSET_MAX)
    /\ Areas \subseteq (0 .. OFFSET_MAX) \X (1 .. OFFSET_MAX)

VARIABLES
    posix_list,     \* i_flock while it holds FL_POSIX locks
    flock_list,     \* i_flock while it holds FL_FLOCK locks
    pc, req, sig,   \* where a process is, what it asked for, a signal is pending
    mand,           \* the mode of the inode asks for mandatory locks
    dying,          \* the block list of the lock a process deletes with wait = 1
    open            \* a process has its file open

vars == <<posix_list, flock_list, pc, req, sig, mand, dying, open>>

P == INSTANCE PosixLocks WITH Owners <- Procs, i_flock <- posix_list,
                              flocked <- flock_list # << >>
F == INSTANCE Flock WITH i_flock <- flock_list, posix <- posix_list # << >>

\* None stands for no request.
ASSUME NoneAssumption == None \notin P!Requests \cup F!Requests

Init ==
    /\ posix_list = << >> /\ flock_list = << >>
    /\ pc = [p \in Procs |-> "user"] /\ req = [p \in Procs |-> None]
    /\ sig = [p \in Procs |-> FALSE] /\ mand = TRUE
    /\ dying = [p \in Procs |-> << >>] /\ open = [p \in Procs |-> TRUE]

----------------------------------------------------------------------------
Posix(A) == UNCHANGED <<flock_list, dying, open>> /\ A
Flocks(A) == UNCHANGED <<posix_list, mand>> /\ A
Waiting(p, ops) == pc[p] # "user" /\ req[p].op \in ops
HasPosix(p) == \E i \in DOMAIN posix_list : posix_list[i].owner = p

\* fcntl, and read and write: the call, and its way on after a sleep.
PosixCall(p) ==
    Posix(\/ /\ pc[p] = "user" /\ open[p]
             /\ \/ \E r \in P!LockRequests : P!posix_lock_file(p, r)
                \/ \E r \in P!AccessRequests : P!locks_mandatory_area(p, r)
          \/ Waiting(p, {"lock"}) /\ P!posix_lock_file(p, req[p])
          \/ Waiting(p, {"access"}) /\ P!locks_mandatory_area(p, req[p]))

FlockCall(p) ==
    Flocks(\/ \E r \in F!Requests, s \in BOOLEAN : F!flock_lock_file(p, r, s)
           \/ Waiting(p, {"flock"}) /\ (F!Resume(p) \/ F!Yield(p)))

\* locks_remove_locks: a close of any descriptor takes the process's fcntl
\* locks away, the last close of an open file its flock locks.
Close(p) ==
    \/ Posix(P!posix_remove_locks(p))
    \/ ~HasPosix(p) /\ Flocks(F!flock_remove_locks(p))

\* A signal ends a sleep; p stays on the block list until it runs.
Signal(p) ==
    /\ pc[p] # "user" /\ ~sig[p]
    /\ sig' = [sig EXCEPT ![p] = TRUE]
    /\ pc' = [pc EXCEPT ![p] = IF @ = "asleep" THEN "woken" ELSE @]
    /\ UNCHANGED <<posix_list, flock_list, req, mand, dying, open>>

Next ==
    \/ \E p \in Procs :
        \/ PosixCall(p) \/ FlockCall(p) \/ Close(p) \/ Signal(p)
        \/ Flocks(F!Open(p))
    \/ Posix(P!ChangeMode)

Spec == Init /\ [][Next]_vars

----------------------------------------------------------------------------
(* Properties.                                                              *)

\* A lock that ends before the first byte is left of one to the end of the file
\* that was put in front of a lock it overlaps.
PosixLock == [owner : Procs, type : {"F_RDLCK", "F_WRLCK"}, start : P!Bytes,
              end : -1 .. OFFSET_MAX, block : Seq(Procs)]
FlockLock == [file : {F!filp(p) : p \in Procs}, type : {"F_RDLCK", "F_WRLCK"},
              block : Seq(Procs)]

\* Locks, requests and places in the code keep their types; a process has a
\* request exactly while it sleeps, and lets others run only in a flock.
TypeOK ==
    /\ posix_list \in Seq(PosixLock) /\ flock_list \in Seq(FlockLock)
    /\ pc \in [Procs -> {"user", "asleep", "woken", "yield"}]
    /\ req \in [Procs -> P!Requests \cup F!Requests \cup {None}]
    /\ sig \in [Procs -> BOOLEAN] /\ open \in [Procs -> BOOLEAN] /\ mand \in BOOLEAN
    /\ dying \in [Procs -> Seq(Procs)]
    /\ \A p \in Procs :
         /\ pc[p] = "user" <=> req[p] = None
         /\ pc[p] = "yield" => req[p].op = "flock"
         /\ dying[p] # << >> => pc[p] = "yield"

\* "We merge adjacent locks whenever possible.  POSIX locks are sorted by
\* owner task, then by starting address": no lock is empty, the locks of a
\* process are neighbours in the list, in ascending order, do not overlap, and
\* two that touch differ in type.
Canonical ==
    /\ \A i \in DOMAIN posix_list : posix_list[i].start <= posix_list[i].end
    /\ \A i, j \in DOMAIN posix_list :
        i < j /\ posix_list[i].owner = posix_list[j].owner =>
            /\ posix_list[i].end < posix_list[j].start
            /\ \A k \in i .. j : posix_list[k].owner = posix_list[i].owner
            /\ posix_list[i].end + 1 = posix_list[j].start
                 => posix_list[i].type # posix_list[j].type

\* A process that sleeps is on the block list of a lock that, as it is now, is
\* still in its way, or of a deleted one whose owner is still to wake it: no
\* merging, splitting, shrinking, unlocking or change of type leaves it asleep
\* for nothing.
SleepsForReason ==
    \A p \in Procs : pc[p] = "asleep" =>
        \/ \E i \in DOMAIN posix_list :
              /\ req[p].op # "flock" /\ P!posix_locks_conflict(p, req[p], posix_list[i])
              /\ p \in ToSet(posix_list[i].block)
        \/ \E i \in DOMAIN flock_list :
              /\ req[p].op = "flock" /\ F!flock_locks_conflict(p, req[p], flock_list[i])
              /\ p \in ToSet(flock_list[i].block)
        \/ \E q \in Procs : p \in ToSet(dying[q])

\* Nobody is on a block list out of its call, where its file_lock is gone, or
\* on two.
BlockListLive ==
    LET on(p) == {i \in DOMAIN posix_list : p \in ToSet(posix_list[i].block)}
                 \cup {-i : i \in {j \in DOMAIN flock_list : p \in ToSet(flock_list[j].block)}}
    IN  \A p \in Procs : on(p) # {} => pc[p] \in {"asleep", "woken"} /\ Cardinality(on(p)) = 1

\* Sleepers and the block lists of locks match, through every wakeup that
\* locks_wake_up_blocks and locks_delete_block are to do.
SleepersListed == TypeOK /\ SleepsForReason /\ BlockListLive

\* posix_locks_deadlock does its work: no circle of processes in which each
\* waits for a lock of the next, so its own search always ends too.
NoCircle ==
    \A S \in (SUBSET Procs) \ {{}} :
        ~ \A p \in S : \E i \in DOMAIN posix_list :
            posix_list[i].owner \in S /\ p \in ToSet(posix_list[i].block)

\* "Allow only one type of locking scheme (FL_POSIX or FL_FLOCK) to be in use
\* for a given file at a time": both kinds test for the other again after
\* every wait.  And two open files never both hold the inode's flock unless
\* both share it, also after a change of type and after waits that overlapped
\* with others.  The quotation is of fs/locks.c:79-80, which posix_lock_file and
\* flock_lock_file follow.  Documentation/locks.txt, 1.2.2, says the contrary of
\* the first conjunct: the two are "oblivious to each other.  Both can exists, and
\* neither will have any effect on the other".
Compatible ==
    /\ posix_list = << >> \/ flock_list = << >>
    /\ \A i, j \in DOMAIN flock_list :
          flock_list[i].file # flock_list[j].file => flock_list[i].type = "F_RDLCK"

\* The bytes the list locks.
Held ==
    UNION {[owner : {l.owner}, byte : l.start .. l.end, type : {l.type}] : l \in Range(posix_list)}

Abstract == INSTANCE ByteLocks WITH
    Owners <- Procs, Requests <- P!Requests, held <- Held,
    want <- [p \in Procs |-> IF Waiting(p, {"flock"}) THEN None ELSE req[p]]

\* The list of fcntl locks implements the bytes: what a request that is granted
\* changes, who may be granted it and who may wait, and what a refused one
\* leaves alone.
ImplementsBytes == Abstract!Spec
=============================================================================
