----------------------------- MODULE MrpControl -----------------------------
(***************************************************************************)
(* The control plane of one MRP unit: the minors with bit 0x40 set.  The   *)
(* board hands over one byte at a time in its cpr register and raises CPR; *)
(* the driver keeps the bytes in a ring from which readers take them.      *)
(* Writers of the same minor put their bytes into that ring too: mrp_write *)
(* uses recvring, the send ring is never filled, CPBUSY is never set and   *)
(* the CPS interrupt is never enabled.                                     *)
(*                                                                         *)
(* A call's loop runs with interrupts off.  lock names the process inside  *)
(* one; it gives interrupts and other processes a turn only by sleeping or *)
(* by faulting on user memory, which schedules.                            *)
(***************************************************************************)
EXTENDS Integers, Sequences, FiniteSets

CONSTANTS
    Procs,      \* the processes that share the open file
    NoProc,     \* nobody runs with interrupts off
    Byte,       \* the bytes that are told apart
    NoByte,     \* the cpr register holds nothing new
    RingSize,   \* RINGBUF_SIZE
    IndexMod,   \* 2^32: the ring's indexes are unsigned and wrap
    MaxLen,     \* bound: bytes asked for in one call
    Faults      \* whether an access to user memory may fault and sleep

ASSUME ConstAssumption ==
    /\ NoProc \notin Procs /\ NoByte \notin Byte /\ Byte # {}
    /\ RingSize \in Nat /\ RingSize > 1 /\ IndexMod \in Nat
    /\ IndexMod >= RingSize /\ IndexMod % RingSize = 0
    /\ MaxLen \in Nat \ {0}
    /\ Faults \in BOOLEAN

VARIABLES
    ring,      \* mrp->recvring
    cprOn,     \* MRP_STATF_CPR is set in ier
    cpr,       \* the byte the board holds for the driver, or NoByte
    cpopen,    \* MRPF_CPOPEN
    q1, q2,    \* wake_queue1 and wake_queue2: waiters not yet woken
    pc,        \* where each process is
    left,      \* bytes its call has still to move
    nonblock,  \* O_NONBLOCK of the file it uses
    lock,      \* the process that runs with interrupts off
    \* history, read by no guard of the code:
    looped,    \* mrp_write has put bytes since wake_queue1 was woken
    over       \* mrp_write has put a byte into a full ring since mrp_reset

vars == <<ring, cprOn, cpr, cpopen, q1, q2, pc, left, nonblock, lock, looped, over>>

----------------------------------------------------------------------------
(* struct ringbuf_s.                                                        *)

EmptyRing == [buf |-> [i \in 0..RingSize-1 |-> CHOOSE b \in Byte : TRUE],
              write_index |-> 0, read_index |-> 0, count |-> 0]

Mask(index) == index % RingSize   \* index & RINGBUF_INDEX_MASK

ringbuf_put(r, x) ==
    [r EXCEPT !.buf[Mask(r.write_index)] = x,
              !.write_index = (@ + 1) % IndexMod,
              !.count = @ + 1]

ringbuf_get(r) ==
    [r EXCEPT !.read_index = (@ + 1) % IndexMod, !.count = @ - 1]

\* Faulty variant of ring_reset: the write index is forgotten.
ring_reset_read(r) == [r EXCEPT !.read_index = 0, !.count = 0]

\* mrp_reset zeroes the indexes and leaves the bytes.
ring_reset(r) ==
    [r EXCEPT !.read_index = 0, !.write_index = 0, !.count = 0]

\* The bytes a reader would get, oldest first.
Contents(r) == [i \in 1..r.count |-> r.buf[Mask(r.read_index + i - 1)]]

----------------------------------------------------------------------------
Init ==
    /\ ring = EmptyRing
    /\ cprOn = FALSE /\ cpr = NoByte /\ cpopen = FALSE
    /\ q1 = {} /\ q2 = {}
    /\ pc = [p \in Procs |-> "idle"]
    /\ left = [p \in Procs |-> 0]
    /\ nonblock = [p \in Procs |-> FALSE]
    /\ lock = NoProc
    /\ looped = FALSE /\ over = FALSE

Goto(p, l) == pc' = [pc EXCEPT ![p] = l]

\* A call ends: its locals are gone and interrupts are on.
Return(p) ==
    /\ Goto(p, "idle")
    /\ left' = [left EXCEPT ![p] = 0]
    /\ nonblock' = [nonblock EXCEPT ![p] = FALSE]
    /\ lock' = NoProc

\* A process may enter the kernel or go on after a sleep, and interrupts come.
Free == lock = NoProc

----------------------------------------------------------------------------
(* The board and the interrupt handler.                                     *)

BoardByte(x) ==
    /\ cpr = NoByte
    /\ cpr' = x
    /\ UNCHANGED <<ring, cprOn, cpopen, q1, q2, pc, left, nonblock, lock, looped, over>>

\* Faulty variants of Cpr: the test for room is off by one; nobody is woken;
\* the byte is acknowledged though there is no room for it.
CprOffByOne ==
    /\ Free /\ cprOn /\ cpr # NoByte
    /\ ring.count <= RingSize
    /\ ring' = ringbuf_put(ring, cpr)
    /\ cpr' = NoByte
    /\ q1' = {} /\ looped' = FALSE
    /\ UNCHANGED <<cprOn, cpopen, q2, pc, left, nonblock, lock, over>>

CprNoWake ==
    /\ Free /\ cprOn /\ cpr # NoByte
    /\ ring.count <= RingSize - 1
    /\ ring' = ringbuf_put(ring, cpr)
    /\ cpr' = NoByte
    /\ looped' = FALSE
    /\ UNCHANGED <<cprOn, cpopen, q1, q2, pc, left, nonblock, lock, over>>

CprAckAlways ==
    /\ Free /\ cprOn /\ cpr # NoByte
    /\ cpr' = NoByte
    /\ cprOn' = (ring.count <= RingSize - 1)
    /\ ring' = IF cprOn' THEN ringbuf_put(ring, cpr) ELSE ring
    /\ q1' = IF cprOn' THEN {} ELSE q1
    /\ looped' = (looped /\ ~cprOn')
    /\ UNCHANGED <<cpopen, q2, pc, left, nonblock, lock, over>>

\* mrp_cpr: with room the byte is stored and acknowledged and CPR stays on;
\* with none CPR stays off and the board keeps its byte.
Cpr ==
    /\ Free /\ cprOn /\ cpr # NoByte
    /\ IF ring.count <= RingSize - 1
         THEN /\ ring' = ringbuf_put(ring, cpr)
              /\ cpr' = NoByte
              /\ q1' = {} /\ looped' = FALSE
              /\ cprOn' = TRUE
         ELSE /\ cprOn' = FALSE
              /\ UNCHANGED <<ring, cpr, q1, looped, over>>
    /\ UNCHANGED <<cpopen, q2, pc, left, nonblock, lock, over>>

\* mrp_reset, from a TRESET written to the data minor: nobody is woken.
Reset ==
    /\ Free
    /\ ring' = ring_reset(ring)
    /\ cprOn' = TRUE /\ cpr' = NoByte /\ over' = FALSE
    /\ UNCHANGED <<cpopen, q1, q2, pc, left, nonblock, lock, looped>>

----------------------------------------------------------------------------
(* open, release, and the start of a call.                                  *)

Open ==
    /\ Free /\ ~cpopen
    /\ cpopen' = TRUE
    /\ UNCHANGED <<ring, cprOn, cpr, q1, q2, pc, left, nonblock, lock, looped, over>>

Release ==
    /\ Free /\ cpopen /\ \A p \in Procs : pc[p] = "idle"
    /\ cpopen' = FALSE
    /\ UNCHANGED <<ring, cprOn, cpr, q1, q2, pc, left, nonblock, lock, looped, over>>

\* sys_write holds the inode's semaphore: one writer at a time.
Start(p, op, n, nb) ==
    /\ Free /\ cpopen /\ pc[p] = "idle"
    /\ op = "wr" => \A q \in Procs : pc[q] \notin {"wr", "wrfault", "wrsleep"}
    /\ Goto(p, op)
    /\ left' = [left EXCEPT ![p] = n]
    /\ nonblock' = [nonblock EXCEPT ![p] = nb]
    /\ lock' = p
    /\ UNCHANGED <<ring, cprOn, cpr, cpopen, q1, q2, looped, over>>

Begin(p) == \E op \in {"rd", "wr"}, n \in 1..MaxLen, nb \in BOOLEAN :
                Start(p, op, n, nb)

----------------------------------------------------------------------------
(* mrp_read.                                                                *)

\* p is in its loop: it has interrupts off, or comes back from a fault.
Reading(p) == pc[p] = "rd" /\ lock \in {p, NoProc}

\* A byte leaves the ring; put_user may fault on the user's page and sleep.
ReadByte(p) ==
    /\ Reading(p) /\ left[p] > 0 /\ ring.count > 0
    /\ ring' = ringbuf_get(ring)
    /\ left' = [left EXCEPT ![p] = @ - 1]
    /\ lock' \in {p} \cup (IF Faults THEN {NoProc} ELSE {})
    /\ UNCHANGED <<cprOn, cpr, cpopen, q1, q2, pc, nonblock, looped, over>>

\* The ring is empty: -EWOULDBLOCK, or sleep.
ReadEmpty(p) ==
    /\ Reading(p) /\ left[p] > 0 /\ ring.count = 0
    /\ \/ nonblock[p] /\ Return(p) /\ q1' = q1
       \/ /\ ~nonblock[p]
          /\ q1' = q1 \cup {p}
          /\ Goto(p, "rdsleep")
          /\ lock' = NoProc
          /\ UNCHANGED <<left, nonblock>>
    /\ UNCHANGED <<ring, cprOn, cpr, cpopen, q2, looped, over>>

ReadWoken(p) ==
    /\ Free /\ pc[p] = "rdsleep" /\ p \notin q1
    /\ Goto(p, "rd")
    /\ lock' = p
    /\ UNCHANGED <<ring, cprOn, cpr, cpopen, q1, q2, left, nonblock, looped, over>>

\* Every byte asked for has been copied: only now is CPR enabled again.
ReadReturn(p) ==
    /\ Reading(p) /\ left[p] = 0
    /\ cprOn' = TRUE
    /\ Return(p)
    /\ UNCHANGED <<ring, cpr, cpopen, q1, q2, looped, over>>

----------------------------------------------------------------------------
(* mrp_write: the bytes go to the receive ring; wake_queue1 is not woken,   *)
(* and mrp_cps finds CPBUSY clear and does nothing.                         *)

\* get_user has the byte: it is put, whatever the ring holds by now.
PutByte(p) ==
    /\ \E x \in Byte : ring' = ringbuf_put(ring, x)
    /\ looped' = TRUE
    /\ over' = (over \/ ring.count >= RingSize)
    /\ left' = [left EXCEPT ![p] = @ - 1]
    /\ lock' = p
    /\ UNCHANGED <<cprOn, cpr, cpopen, q1, q2, nonblock>>

\* Faulty variant of WriteByte: writers may fill the last slot too.
WriteByteToTheBrim(p) ==
    /\ lock = p /\ pc[p] = "wr" /\ left[p] > 0 /\ ring.count < RingSize
    /\ PutByte(p)
    /\ pc' = pc

WriteByte(p) ==
    /\ lock = p /\ pc[p] = "wr" /\ left[p] > 0 /\ ring.count < RingSize - 1
    /\ PutByte(p)
    /\ pc' = pc

\* There is room, but get_user faults and sleeps; the room is not tested again.
WriteFault(p) ==
    /\ lock = p /\ pc[p] = "wr" /\ left[p] > 0 /\ ring.count < RingSize - 1
    /\ Faults
    /\ Goto(p, "wrfault")
    /\ lock' = NoProc
    /\ UNCHANGED <<ring, cprOn, cpr, cpopen, q1, q2, left, nonblock, looped, over>>

WriteFaulted(p) ==
    /\ Free /\ pc[p] = "wrfault"
    /\ PutByte(p)
    /\ Goto(p, "wr")

WriteFull(p) ==
    /\ lock = p /\ pc[p] = "wr" /\ left[p] > 0 /\ ring.count >= RingSize - 1
    /\ \/ nonblock[p] /\ Return(p) /\ q2' = q2
       \/ /\ ~nonblock[p]
          /\ q2' = q2 \cup {p}
          /\ Goto(p, "wrsleep")
          /\ lock' = NoProc
          /\ UNCHANGED <<left, nonblock>>
    /\ UNCHANGED <<ring, cprOn, cpr, cpopen, q1, looped, over>>

WriteReturn(p) ==
    /\ lock = p /\ pc[p] = "wr" /\ left[p] = 0
    /\ Return(p)
    /\ UNCHANGED <<ring, cprOn, cpr, cpopen, q1, q2, looped, over>>

----------------------------------------------------------------------------
\* mrp_select for reading.  select_check's second poll makes the test and the
\* queueing one step.  For writing it tests the send ring and never waits.
SelectSleep(p) ==
    /\ Free /\ cpopen /\ pc[p] = "idle" /\ ring.count = 0
    /\ q1' = q1 \cup {p}
    /\ Goto(p, "sel")
    /\ UNCHANGED <<ring, cprOn, cpr, cpopen, q2, left, nonblock, lock, looped, over>>

SelectWoken(p) ==
    /\ Free /\ pc[p] = "sel" /\ p \notin q1
    /\ IF ring.count > 0 THEN Goto(p, "idle") /\ q1' = q1
                         ELSE pc' = pc /\ q1' = q1 \cup {p}
    /\ UNCHANGED <<ring, cprOn, cpr, cpopen, q2, left, nonblock, lock, looped, over>>

\* A signal ends the sleep, asleep or already woken: -EINTR, and the bytes
\* already moved are not reported.  No code wakes wake_queue2: this is the only
\* way out for a writer.
Interrupted(p) ==
    /\ Free /\ pc[p] \in {"rdsleep", "wrsleep", "sel"}
    /\ q1' = q1 \ {p} /\ q2' = q2 \ {p}
    /\ Return(p)
    /\ UNCHANGED <<ring, cprOn, cpr, cpopen, looped, over>>

----------------------------------------------------------------------------
Next ==
    \/ \E x \in Byte : BoardByte(x)
    \/ Cpr \/ Reset \/ Open \/ Release
    \/ \E p \in Procs :
         \/ Begin(p)
         \/ ReadByte(p) \/ ReadEmpty(p) \/ ReadWoken(p) \/ ReadReturn(p)
         \/ WriteByte(p) \/ WriteFault(p) \/ WriteFaulted(p)
         \/ WriteFull(p) \/ WriteReturn(p)
         \/ SelectSleep(p) \/ SelectWoken(p) \/ Interrupted(p)

Spec == Init /\ [][Next]_vars

\* The interrupt is taken once it stays asserted and interrupts are on again,
\* and a loop that can go on does.
Fairness ==
    /\ SF_vars(Cpr)
    /\ \A p \in Procs : /\ WF_vars(ReadByte(p) \/ ReadEmpty(p) \/ ReadReturn(p))
                        /\ WF_vars(\/ WriteByte(p) \/ WriteFault(p)
                                  \/ WriteFull(p) \/ WriteReturn(p))

FairSpec == Spec /\ Fairness

----------------------------------------------------------------------------
Pcs == {"idle", "rd", "rdsleep", "wr", "wrfault", "wrsleep", "sel"}

\* The ring, the registers and the callers' locals keep their types.  Of the
\* ring's count: the interrupt stops at a full ring, and a writer whose test for
\* room is stale can put one byte too many, not two.
TypeOK ==
    /\ ring \in [buf : [0..RingSize-1 -> Byte], write_index : 0..IndexMod-1,
                 read_index : 0..IndexMod-1, count : 0..(RingSize + 1)]
    /\ cprOn \in BOOLEAN /\ cpr \in Byte \cup {NoByte} /\ cpopen \in BOOLEAN
    /\ q1 \subseteq Procs /\ q2 \subseteq Procs
    /\ pc \in [Procs -> Pcs]
    /\ left \in [Procs -> 0..MaxLen]
    /\ nonblock \in [Procs -> BOOLEAN]
    /\ lock \in Procs \cup {NoProc}
    /\ looped \in BOOLEAN /\ over \in BOOLEAN

\* The ring filled by the interrupt and by writers, and drained by readers
\* that sleep, fault and give up half way, is a bounded FIFO: no unread byte
\* is overwritten, none is read twice, none is read out of order, across the
\* wrap of the masked indexes -- until a writer that faulted after its test
\* for room finds the ring filled to the last slot by the interrupt, and only
\* then; a reset of the unit mends it.
Fifo == INSTANCE ByteFifo WITH Capacity <- RingSize, fifo <- Contents(ring)
RingIsFifo == Fifo!Spec

\* Flow control loses nothing: once CPR has been enabled it is disabled only
\* while the board still holds the byte that found the ring full.
HeldByte == [](cprOn => [](cprOn \/ cpr # NoByte))

\* Nobody sleeps for input with bytes in the ring -- unless they came from
\* mrp_write, which does not wake wake_queue1.
ReaderNotLost ==
    ring.count > 0 /\ ~looped =>
        \A p \in q1 : pc[p] \notin {"rdsleep", "sel"}

\* As long as reads keep returning what they were asked for, the board gets rid
\* of its byte: writers of the minor stop one short of a full ring, so the slot
\* a read frees cannot be taken away from it.
ByteTaken ==
    []<><<\E p \in Procs : ReadReturn(p)>>_vars => (cpr # NoByte ~> cpr = NoByte)
=============================================================================
