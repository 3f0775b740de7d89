------------------------------ MODULE MrpData ------------------------------
(***************************************************************************)
(* The data plane of one MRP unit: the DECI1 packet path of                *)
(* drivers/char/ps2mrp-psnet.c.  Processes share one open file of the      *)
(* unit's data minor and call its file operations; the board fills the     *)
(* receive FIFO, drains the send FIFO and raises interrupts.               *)
(*                                                                         *)
(* The kernel is uniprocessor and does not preempt a process inside it, so *)
(* an action is a stretch of kernel code that nothing can cut: a section   *)
(* with interrupts off, or the code up to the next point at which an       *)
(* interrupt can matter.  cpu names the process that is inside the kernel  *)
(* with interrupts on; until it finishes or sleeps only interrupts and the *)
(* board take steps.  An interruptible_sleep_on called with interrupts off *)
(* queues the caller before it turns them on, so testing the condition and *)
(* going to sleep are one step.                                            *)
(***************************************************************************)
EXTENDS Integers, Sequences, FiniteSets

CONSTANTS
    Procs,        \* the processes that share the open file
    NoProc,       \* no process is inside the kernel with interrupts on
    MaxPkt,       \* MRP_MAX_PKT_SIZE
    Sizes,        \* sizes of well-formed packets the board sends
    BadSizes,     \* size fields of words that are not a packet header
    Modes,        \* reset_mode values writers ask for; any above 1 acts like 2
    MayBlock,     \* what memory pressure can hold up: "copy" (user pages are
                  \* absent), "kmalloc" (it sleeps, or fails)
    RxDepth,      \* bound: frames the receive FIFO holds
    MaxRx,        \* bound: frames the board sends
    MaxWrites,    \* bound: packets accepted by mrp_write
    MaxTreset,    \* bound: TRESET packets accepted by mrp_write
    MaxBoot       \* bound: boot requests the board raises

ASSUME ConstAssumption ==
    /\ NoProc \notin Procs
    /\ MaxPkt \in Nat \ {0}
    /\ Sizes \subseteq 1..MaxPkt
    /\ BadSizes \subseteq Nat
    /\ Modes \subseteq {0, 1, 2}
    /\ MayBlock \subseteq {"copy", "kmalloc"}
    /\ RxDepth \in Nat /\ MaxRx \in Nat /\ MaxWrites \in Nat
    /\ MaxTreset \in Nat /\ MaxBoot \in Nat

VARIABLES
    flags,    \* mrp->flags, as the set of its MRPF_ bits
    ier,      \* the interrupt enable register, as the set of its bits
    rlen,     \* mrp->rlen
    slen,     \* mrp->slen: 0, or 1 for the length of the packet in sendbuf
    out,      \* the packet in sendbuf (deci_out), by its number; 0 for none
    rbuf,     \* the frame last read into recvbuf
    buf,      \* buf38 and buf40, the boot images kept for the board
    rx,       \* receive FIFO: frames sent by the board and not yet read
    tx,       \* send FIFO: frames put by mrp_put_fifo, not yet drained
    boot,     \* the board's pending boot request (cpr), or "none"
    q3, q4,   \* wake_queue3 and wake_queue4: waiters not yet woken
    pc,       \* where each process is
    tmp,      \* the flags word a process is about to store
    len,      \* bytes_copied, the length a reader sampled
    frm,      \* the frame a reader began to copy
    cpu,      \* the process inside the kernel with interrupts on
    \* history, read by no guard of the code:
    taint,    \* what has upset the unit since the last mrp_reset
    lastRead, \* number of the newest packet a read has returned
    lastGot,  \* number of the newest packet the board has drained
    nRx, nWr, nRst, nBoot   \* what the bounds count

hw    == <<rx, tx, boot>>
queues == <<q3, q4>>
local == <<pc, tmp, len, frm, cpu>>
count == <<nRx, nWr, nRst, nBoot>>
hist  == <<lastRead, lastGot>>
vars  == <<flags, ier, rlen, slen, out, rbuf, buf, rx, tx, boot, q3, q4,
           pc, tmp, len, frm, cpu, taint, lastRead, lastGot,
           nRx, nWr, nRst, nBoot>>

----------------------------------------------------------------------------
(* The unit's words.                                                        *)

\* The MRPF_ bits that change after mrp_init; DETECT and VALID stay set, and
\* CPBUSY is never set.
OpenBits == {"OPENED", "CPOPEN"}
Flags == OpenBits \cup {"RESET", "SBUSY", "RDONE", "REQTAG"}

\* The interrupt sources of the data plane that are ever enabled.
Ier == {"BOOTP", "RECV", "WAKE"}

\* A frame in the receive FIFO: "ok" and "badsum" are a header and its body,
\* "badhdr" is a word that is not a header (wrong magic, or a size field over
\* MRP_MAX_PKT_SIZE), "short" reads with an error bit of fst set.  skip, of a
\* frame in recvbuf, is by how many words its body lies too far from its header;
\* size is that of the header, so the body's end may then be past recvbuf's.
Frames == [id : 0..MaxRx, kind : {"ok", "badsum", "badhdr", "short"}, size : Nat,
           skip : Nat]
NoFrame == [id |-> 0, kind |-> "short", size |-> 0, skip |-> 0]

\* What mrp_put_fifo hands the board: a packet by its number, a boot image,
\* memory that has been freed, an image not yet copied in, or no words at all
\* (slen = 0).
Sent == [k : {"data", "image", "freed", "raw", "empty"}, id : 0..MaxWrites]
DataFrame(n)  == [k |-> "data", id |-> n]
Other(kind)   == [k |-> kind, id |-> 0]
ImageFrame(b) == Other(IF buf[b] \in {"freed", "raw"} THEN buf[b] ELSE "image")

\* The packet mrp_send puts: slen bytes of deci_out.
OutFrame == IF slen = 0 THEN Other("empty") ELSE DataFrame(out)

Pcs == {"idle", "store", "rd", "spin", "rdcopy", "wr", "wrcopy",
        "km38", "km40", "im38", "im40", "sy", "inadd", "inchk", "insleep",
        "outadd", "outchk", "outsleep"}

\* sys_write holds the inode's semaphore, so one process at a time is here.
Writing == {p \in Procs : pc[p] \in {"wr", "wrcopy", "km38", "km40",
                                     "im38", "im40"}}

\* Calls on the data minor that are under way; the file stays open meanwhile.
UsingFile == {p \in Procs : pc[p] \notin {"idle", "store"}}

\* Interrupts reach the CPU unless a reader spins with them off.
InterruptsOn == \A p \in Procs : pc[p] # "spin"

\* A process may enter the kernel, or go on after a sleep.
CpuFree == cpu = NoProc

Goto(p, l) == pc' = [pc EXCEPT ![p] = l]

(* taint remembers what has upset the unit since the last mrp_reset         *)
(* ("overlap" for good):                                                    *)
(*   "stale"   a flags word loaded before an interrupt was stored after it  *)
(*   "masked"  mrp_bootp threw a packet away and left RECV disabled         *)
(*   "flush"   MRP_IOCTL_SF forgot a transfer in progress                   *)
(*   "tag"     mrp_read sent its answer to a tagged TRESET over a transfer  *)
(*   "fault"   mrp_write sent over a transfer begun while it faulted        *)
(*   "overlap" a read began while another slept copying the same packet     *)
Taints == {"stale", "masked", "flush", "tag", "fault", "overlap"}

\* The ones that are over once the board has drained the send FIFO.
SendTaint == {"flush", "tag", "fault"}

If(cond, t) == IF cond THEN {t} ELSE {}

----------------------------------------------------------------------------
Init ==
    /\ flags = {} /\ ier = {} /\ rlen = 0 /\ slen = 0 /\ out = 0
    /\ rbuf = NoFrame
    /\ buf = [b \in {"b38", "b40"} |-> "null"]
    /\ rx = <<>> /\ tx = <<>> /\ boot = "none"
    /\ q3 = {} /\ q4 = {}
    /\ pc = [p \in Procs |-> "idle"]
    /\ tmp = [p \in Procs |-> {}]
    /\ len = [p \in Procs |-> 0]
    /\ frm = [p \in Procs |-> NoFrame]
    /\ cpu = NoProc
    /\ taint = {}
    /\ lastRead = 0 /\ lastGot = 0
    /\ nRx = 0 /\ nWr = 0 /\ nRst = 0 /\ nBoot = 0

----------------------------------------------------------------------------
(* The board.                                                               *)

BoardSend(kind, size) ==
    /\ nRx < MaxRx /\ Len(rx) < RxDepth
    /\ nRx' = nRx + 1
    /\ rx' = Append(rx, [id |-> nRx + 1, kind |-> kind, size |-> size,
                         skip |-> 0])
    /\ UNCHANGED <<flags, ier, rlen, slen, out, rbuf, buf, tx, boot, queues,
                   local, taint, hist, nWr, nRst, nBoot>>

BoardSends ==
    \/ \E kind \in {"ok", "badsum"}, size \in Sizes : BoardSend(kind, size)
    \/ \E size \in BadSizes : BoardSend("badhdr", size)
    \/ BoardSend("short", 0)

BoardDrain ==
    /\ tx # <<>>
    /\ tx' = Tail(tx)
    /\ lastGot' = IF Head(tx).k = "data" THEN Head(tx).id ELSE lastGot
    /\ UNCHANGED <<flags, ier, rlen, slen, out, rbuf, buf, rx, boot, queues,
                   local, taint, lastRead, count>>

BoardBoot(b) ==
    /\ nBoot < MaxBoot /\ boot = "none"
    /\ nBoot' = nBoot + 1
    /\ boot' = b
    /\ UNCHANGED <<flags, ier, rlen, slen, out, rbuf, buf, rx, tx, queues,
                   local, taint, hist, nRx, nWr, nRst>>

BoardBoots == \E b \in {"b38", "b40", "done"} : BoardBoot(b)

\* ist: which sources the board asserts.
Ist == (IF rx # <<>> THEN {"RECV"} ELSE {})
       \cup (IF tx = <<>> THEN {"WAKE"} ELSE {})
       \cup (IF boot # "none" THEN {"BOOTP"} ELSE {})

Stat == Ist \cap ier

----------------------------------------------------------------------------
(* The interrupt handler.                                                   *)

\* Faulty variant of Wake: waiting senders are not woken.
WakeNobody ==
    /\ InterruptsOn
    /\ "WAKE" \in Stat /\ "RECV" \notin Stat
    /\ ier' = ier \ {"WAKE"}
    /\ flags' = flags \ {"SBUSY"}
    /\ taint' = taint \ SendTaint
    /\ UNCHANGED <<rlen, slen, out, rbuf, buf, hw, queues, local, hist, count>>

\* The board has drained the send FIFO.
Wake ==
    /\ InterruptsOn
    /\ "WAKE" \in Stat /\ "RECV" \notin Stat
    /\ ier' = ier \ {"WAKE"}
    /\ flags' = flags \ {"SBUSY"}
    /\ q3' = {}
    /\ taint' = taint \ SendTaint
    /\ UNCHANGED <<rlen, slen, out, rbuf, buf, hw, q4, local, hist, count>>

\* The words mrp_recv rescans: the first k are no headers and more follow.
Rescanned(k) ==
    /\ \A j \in 1..k : rx[j].kind = "badhdr"
    /\ k < Len(rx) => rx[k+1].kind # "badhdr"

\* rlen after k rescanned words: it takes the size field of each of them.
ScanLen(k) == IF k = 0 THEN rlen ELSE rx[k].size

\* The frame that ends the scan; the last word read if the FIFO ran dry.
Scanned(k) == IF k < Len(rx) THEN rx[k+1] ELSE rx[k]

\* What recvbuf holds then: deci_in, where the body goes, moves on with every
\* word read as a header and is set back only before the first.
Stored(k) == [Scanned(k) EXCEPT !.skip = k]

\* What deci_cksum can say of the frame in recvbuf.  It adds up the words where
\* the header should be; a displaced frame has words of earlier frames there, so
\* that a good one may fail the test and a bad one pass it.
MayPass(f) == f.kind = "ok" \/ (f.kind = "badsum" /\ f.skip # 0)
MayFail(f) == f.kind # "ok" \/ f.skip # 0

\* Faulty variant of mrp_recv: a bad checksum leaves RECV disabled.
RecvBadSumMasked(k, enabled, fl) ==
    LET f == Stored(k)
        frame == f.kind \in {"ok", "badsum"}
    IN  /\ Rescanned(k)
        /\ rx' = SubSeq(rx, k + 2, Len(rx))
        /\ rbuf' = f
        /\ rlen' = IF frame THEN f.size ELSE ScanLen(k)
        /\ ier' = IF frame THEN enabled \ {"RECV"} ELSE enabled
        /\ \/ MayPass(f) /\ flags' = fl \cup {"RDONE"} /\ q4' = {}
           \/ MayFail(f) /\ flags' = fl /\ q4' = q4

\* mrp_recv with RDONE clear, after k rescans; enabled and fl are ier and flags
\* as the WAKE branch of the same interrupt leaves them.
mrp_recv(k, enabled, fl) ==
    LET f == Stored(k)
    IN  /\ Rescanned(k)
        /\ rx' = SubSeq(rx, k + 2, Len(rx))
        /\ rbuf' = f
        /\ rlen' = IF f.kind \in {"ok", "badsum"} THEN f.size ELSE ScanLen(k)
        /\ \/ /\ MayPass(f)
              /\ ier' = enabled \ {"RECV"}
              /\ flags' = fl \cup {"RDONE"}
              /\ q4' = {}
           \/ /\ MayFail(f)
              /\ ier' = enabled /\ flags' = fl /\ q4' = q4

\* The receive branch, with or without the WAKE branch before it.
Recv ==
    /\ InterruptsOn
    /\ "RECV" \in Stat
    /\ LET w == "WAKE" \in Stat
           enabled == IF w THEN ier \ {"WAKE"} ELSE ier
           fl == IF w THEN flags \ {"SBUSY"} ELSE flags
       IN  /\ q3' = IF w THEN {} ELSE q3
           /\ taint' = IF w THEN taint \ SendTaint ELSE taint
           /\ \/ /\ "RDONE" \in flags
                 /\ ier' = enabled \ {"RECV"} /\ flags' = fl
                 /\ UNCHANGED <<rx, rbuf, rlen, q4>>
              \/ /\ "RDONE" \notin flags
                 /\ \E k \in 0..Len(rx) : mrp_recv(k, enabled, fl)
    /\ UNCHANGED <<slen, out, buf, tx, boot, local, hist, count>>

\* mrp_bootp: both FIFOs are cleared, a transfer in progress is forgotten,
\* and the board is given the image it asks for.
Bootp ==
    LET cleared == flags \ {"SBUSY", "RDONE"}
        put == boot # "done" /\ buf[boot] # "null"
    IN  /\ InterruptsOn
        /\ "BOOTP" \in Stat /\ "RECV" \notin Stat /\ "WAKE" \notin Stat
        /\ rlen' = 0 /\ slen' = 0
        /\ rx' = <<>>
        /\ tx' = IF put THEN <<ImageFrame(boot)>> ELSE <<>>
        /\ flags' = IF put THEN cleared \cup {"SBUSY"} ELSE cleared
        /\ ier' = IF put THEN ier \cup {"WAKE"} ELSE ier
        /\ q3' = IF boot = "done" THEN {} ELSE q3
        /\ boot' = "none"
        /\ taint' = taint \cup If("RECV" \notin ier, "masked")
        /\ UNCHANGED <<out, rbuf, buf, q4, local, hist, count>>

----------------------------------------------------------------------------
(* open and release: the flags word is loaded, changed and stored back with *)
(* interrupts on.                                                           *)

LoadFlags(p, new) ==
    /\ CpuFree /\ pc[p] = "idle"
    /\ tmp' = [tmp EXCEPT ![p] = new]
    /\ cpu' = p
    /\ Goto(p, "store")
    /\ UNCHANGED <<flags, ier, rlen, slen, out, rbuf, buf, hw, queues, len, frm,
                   taint, hist, count>>

Open(p, bit) == bit \notin flags /\ LoadFlags(p, flags \cup {bit})

\* The last close of the plane's file: no call on it is under way.
Release(p, bit) ==
    /\ bit \in flags
    /\ bit = "OPENED" => UsingFile = {}
    /\ LoadFlags(p, flags \ {bit})

StoreFlags(p) ==
    /\ cpu = p /\ pc[p] = "store"
    /\ flags' = tmp[p]
    /\ taint' = taint \cup If(flags \ OpenBits # tmp[p] \ OpenBits, "stale")
    /\ cpu' = NoProc
    /\ Goto(p, "idle")
    /\ tmp' = [tmp EXCEPT ![p] = {}]
    /\ UNCHANGED <<ier, rlen, slen, out, rbuf, buf, hw, queues, len, frm,
                   hist, count>>

----------------------------------------------------------------------------
(* mrp_read on the data minor.                                              *)

\* bytes_copied = rlen is sampled before interrupts are turned off.
ReadSample(p) ==
    /\ CpuFree /\ pc[p] = "idle"
    /\ {"OPENED", "RESET"} \subseteq flags
    /\ len' = [len EXCEPT ![p] = rlen]
    /\ cpu' = p
    /\ Goto(p, "rd")
    /\ UNCHANGED <<flags, ier, rlen, slen, out, rbuf, buf, hw, queues, tmp, frm,
                   taint, hist, count>>

\* With REQTAG set the reader answers the tagged TRESET: mrp_send puts whatever
\* deci_out holds, busy or not.  What that leaves in tx, flags, ier and taint:
Tagged == "REQTAG" \in flags
TagTx == IF Tagged THEN Append(tx, OutFrame) ELSE tx
TagFlags == IF Tagged THEN flags \cup {"SBUSY"} ELSE flags
TagIer == IF Tagged THEN ier \cup {"WAKE"} ELSE ier
TagTaint == taint \cup If(Tagged /\ "SBUSY" \in flags, "tag")

\* The loop that waits for RDONE with interrupts off: nothing can set it.
ReadSpins(p) ==
    /\ cpu = p /\ pc[p] = "rd"
    /\ Tagged /\ "RDONE" \notin flags
    /\ tx' = TagTx /\ flags' = TagFlags /\ ier' = TagIer /\ taint' = TagTaint
    /\ Goto(p, "spin")
    /\ UNCHANGED <<rlen, slen, out, rbuf, buf, rx, boot, queues, tmp, len, frm,
                   cpu, hist, count>>

Spin(p) == pc[p] = "spin" /\ UNCHANGED vars

\* Whether a read that ends now has returned all of the good frame f, displaced
\* or not.
Returned(p, f) == f = rbuf /\ f.kind = "ok" /\ len[p] = f.size

\* Faulty variants of ReadDone: the count of bytes copied is subtracted from
\* rlen; the packet is not consumed.
ReadDoneSubtracts(p, f, fl, enabled) ==
    /\ rlen' = rlen - len[p]
    /\ flags' = fl \ {"RDONE"}
    /\ ier' = enabled \cup {"RECV"}
    /\ lastRead' = IF Returned(p, f) THEN f.id ELSE lastRead
    /\ cpu' = NoProc
    /\ Goto(p, "idle")
    /\ len' = [len EXCEPT ![p] = 0]
    /\ frm' = [frm EXCEPT ![p] = NoFrame]

ReadDoneKeeps(p, f, fl, enabled) ==
    /\ rlen' = rlen
    /\ flags' = fl
    /\ ier' = enabled \cup {"RECV"}
    /\ lastRead' = IF Returned(p, f) THEN f.id ELSE lastRead
    /\ cpu' = NoProc
    /\ Goto(p, "idle")
    /\ len' = [len EXCEPT ![p] = 0]
    /\ frm' = [frm EXCEPT ![p] = NoFrame]

\* The end of mrp_read: the packet is consumed and reception armed again.
ReadDone(p, f, fl, enabled) ==
    /\ rlen' = 0
    /\ flags' = fl \ {"RDONE"}
    /\ ier' = enabled \cup {"RECV"}
    /\ lastRead' = IF Returned(p, f) THEN f.id ELSE lastRead
    /\ cpu' = NoProc
    /\ Goto(p, "idle")
    /\ len' = [len EXCEPT ![p] = 0]
    /\ frm' = [frm EXCEPT ![p] = NoFrame]

Read(p) ==
    LET tainted == TagTaint \cup If(\E q \in Procs : pc[q] = "rdcopy", "overlap")
    IN  /\ cpu = p /\ pc[p] = "rd"
        /\ Tagged => "RDONE" \in flags
        /\ tx' = TagTx
        /\ \/ /\ ReadDone(p, rbuf, TagFlags, TagIer)
              /\ taint' = tainted \ {"masked"}
           \/ /\ len[p] > MaxPkt         \* copy_to_user finds no room
              /\ flags' = TagFlags /\ ier' = TagIer /\ taint' = TagTaint
              /\ len' = [len EXCEPT ![p] = 0]
              /\ cpu' = NoProc
              /\ Goto(p, "idle")
              /\ UNCHANGED <<rlen, frm, lastRead>>
           \/ /\ "copy" \in MayBlock      \* copy_to_user faults and sleeps
              /\ flags' = TagFlags /\ ier' = TagIer /\ taint' = tainted
              /\ frm' = [frm EXCEPT ![p] = rbuf]
              /\ cpu' = NoProc
              /\ Goto(p, "rdcopy")
              /\ UNCHANGED <<rlen, len, lastRead>>
        /\ UNCHANGED <<slen, out, rbuf, buf, rx, boot, queues, tmp, lastGot,
                       count>>

ReadResume(p) ==
    /\ CpuFree /\ pc[p] = "rdcopy"
    /\ ReadDone(p, frm[p], flags, ier)
    /\ taint' = taint \ {"masked"}
    /\ UNCHANGED <<slen, out, rbuf, buf, hw, queues, tmp, lastGot, count>>

----------------------------------------------------------------------------
(* mrp_write on the data minor, packets other than TRESET.  sys_write holds *)
(* the inode's semaphore across the call.                                   *)

\* Faulty variant of PutPacket: the packet is put twice.
PutPacketTwice ==
    /\ nWr' = nWr + 1
    /\ out' = nWr + 1 /\ slen' = 1
    /\ tx' = tx \o <<DataFrame(nWr + 1), DataFrame(nWr + 1)>>
    /\ flags' = flags \cup {"SBUSY"}
    /\ ier' = ier \cup {"WAKE"}

\* memcpy_fromfs, then mrp_send.
PutPacket ==
    /\ nWr' = nWr + 1
    /\ out' = nWr + 1 /\ slen' = 1
    /\ tx' = Append(tx, DataFrame(nWr + 1))
    /\ flags' = flags \cup {"SBUSY"}
    /\ ier' = ier \cup {"WAKE"}

\* Faulty variant of WriteLoop: SBUSY is not tested.
WriteLoopBlind(p) ==
    /\ PutPacket
    /\ Goto(p, "idle")
    /\ q3' = q3

\* One turn of the loop on SBUSY: sleep, or leave it and send; under memory
\* pressure the copy from user space may sleep first.
WriteLoop(p) ==
    \/ /\ "SBUSY" \in flags
       /\ q3' = q3 \cup {p}
       /\ Goto(p, "wr")
       /\ UNCHANGED <<flags, ier, slen, out, tx, nWr>>
    \/ /\ "SBUSY" \notin flags
       /\ PutPacket
       /\ Goto(p, "idle")
       /\ q3' = q3
    \/ /\ "SBUSY" \notin flags /\ "copy" \in MayBlock
       /\ Goto(p, "wrcopy")
       /\ UNCHANGED <<flags, ier, slen, out, tx, q3, nWr>>

WriteStart(p) ==
    /\ CpuFree /\ pc[p] = "idle" /\ Writing = {}
    /\ {"OPENED", "RESET"} \subseteq flags
    /\ nWr < MaxWrites
    /\ WriteLoop(p)
    /\ UNCHANGED <<rlen, rbuf, buf, rx, boot, q4, tmp, len, frm, cpu, taint,
                   hist, nRx, nRst, nBoot>>

\* Woken: SBUSY is tested again.
WriteResume(p) ==
    /\ CpuFree /\ pc[p] = "wr" /\ p \notin q3
    /\ WriteLoop(p)
    /\ UNCHANGED <<rlen, rbuf, buf, rx, boot, q4, tmp, len, frm, cpu, taint,
                   hist, nRx, nRst, nBoot>>

\* The faulted copy ends; SBUSY is not tested again.
WriteCopied(p) ==
    /\ CpuFree /\ pc[p] = "wrcopy"
    /\ PutPacket
    /\ taint' = taint \cup If("SBUSY" \in flags, "fault")
    /\ Goto(p, "idle")
    /\ UNCHANGED <<rlen, rbuf, buf, rx, boot, queues, tmp, len, frm, cpu,
                   hist, nRx, nRst, nBoot>>

----------------------------------------------------------------------------
(* mrp_write of a TRESET packet.                                            *)

\* mrp_reset: FIFOs and pending requests cleared, CPR, BOOTP and RECV enabled,
\* waiting writers woken.  REQTAG stays.
mrp_reset ==
    /\ ier' = {"BOOTP", "RECV"}
    /\ rx' = <<>> /\ tx' = <<>> /\ boot' = "none"
    /\ q3' = {}
    /\ rlen' = 0 /\ slen' = 0
    /\ taint' = taint \cap {"overlap"}

ResetFlags == (flags \cup {"RESET"}) \ {"SBUSY", "RDONE"}

ImageOf(mode) == IF mode = 1 THEN "b38" ELSE "b40"

\* What follows the copy of the image: the reset (mode 0), then the tag.
TresetEnd(p, mode, tag) ==
    /\ IF mode = 0 THEN mrp_reset
                   ELSE UNCHANGED <<ier, rx, tx, boot, q3, rlen, slen, taint>>
    /\ flags' = (IF mode = 0 THEN ResetFlags ELSE flags) \cup If(tag, "REQTAG")
    /\ q4' = IF tag THEN {} ELSE q4
    /\ Goto(p, "idle")

\* kfree and kmalloc of the image buffer in one go, or no buffer at all.
Treset(p, mode, tag) ==
    /\ CpuFree /\ pc[p] = "idle" /\ Writing = {}
    /\ "OPENED" \in flags /\ nRst < MaxTreset
    /\ nRst' = nRst + 1
    /\ buf' = IF mode = 2 THEN buf ELSE [buf EXCEPT ![ImageOf(mode)] = "image"]
    /\ TresetEnd(p, mode, tag)
    /\ UNCHANGED <<out, rbuf, tmp, len, frm, cpu, hist, nRx, nWr, nBoot>>

\* kmalloc fails: the pointer is null and the call returns -ENOMEM.
TresetNoMemory(p, mode) ==
    /\ CpuFree /\ "kmalloc" \in MayBlock
    /\ \/ /\ pc[p] = "idle" /\ Writing = {} /\ "OPENED" \in flags
          /\ nRst < MaxTreset /\ nRst' = nRst + 1
       \/ pc[p] = (IF mode = 1 THEN "km38" ELSE "km40") /\ nRst' = nRst
    /\ mode # 2
    /\ buf' = [buf EXCEPT ![ImageOf(mode)] = "null"]
    /\ Goto(p, "idle")
    /\ UNCHANGED <<flags, ier, rlen, slen, out, rbuf, hw, queues, tmp, len, frm,
                   cpu, taint, hist, nRx, nWr, nBoot>>

\* kmalloc sleeps: the unit still points at the buffer just freed.
TresetSleep(p, mode) ==
    /\ CpuFree /\ "kmalloc" \in MayBlock /\ mode # 2
    /\ pc[p] = "idle" /\ Writing = {} /\ "OPENED" \in flags /\ nRst < MaxTreset
    /\ nRst' = nRst + 1
    /\ buf' = [buf EXCEPT ![ImageOf(mode)] = IF @ = "null" THEN "null" ELSE "freed"]
    /\ Goto(p, IF mode = 1 THEN "km38" ELSE "km40")
    /\ UNCHANGED <<flags, ier, rlen, slen, out, rbuf, hw, queues, tmp, len, frm,
                   cpu, taint, hist, nRx, nWr, nBoot>>

\* The copy into the new buffer faults and sleeps: the unit points at a buffer
\* whose contents are not there yet.
TresetFault(p, mode) ==
    /\ CpuFree /\ "copy" \in MayBlock /\ mode # 2
    /\ \/ /\ pc[p] = "idle" /\ Writing = {} /\ "OPENED" \in flags
          /\ nRst < MaxTreset /\ nRst' = nRst + 1
       \/ pc[p] = (IF mode = 1 THEN "km38" ELSE "km40") /\ nRst' = nRst
    /\ buf' = [buf EXCEPT ![ImageOf(mode)] = "raw"]
    /\ Goto(p, IF mode = 1 THEN "im38" ELSE "im40")
    /\ UNCHANGED <<flags, ier, rlen, slen, out, rbuf, hw, queues, tmp, len, frm,
                   cpu, taint, hist, nRx, nWr, nBoot>>

\* Faulty variant of TresetResume: a copy that fails returns -EFAULT and leaves
\* the buffer with the unit.
TresetResumeFails(p, mode, tag) ==
    /\ CpuFree /\ mode # 2
    /\ pc[p] \in (IF mode = 1 THEN {"km38", "im38"} ELSE {"km40", "im40"})
    /\ \/ buf' = [buf EXCEPT ![ImageOf(mode)] = "image"] /\ TresetEnd(p, mode, tag)
       \/ /\ Goto(p, "idle")
          /\ UNCHANGED <<flags, ier, rlen, slen, buf, hw, queues, taint>>
    /\ UNCHANGED <<out, rbuf, tmp, len, frm, cpu, hist, count>>

\* The sleep in kmalloc or in the copy is over.
TresetResume(p, mode, tag) ==
    /\ CpuFree /\ mode # 2
    /\ pc[p] \in (IF mode = 1 THEN {"km38", "im38"} ELSE {"km40", "im40"})
    /\ buf' = [buf EXCEPT ![ImageOf(mode)] = "image"]
    /\ TresetEnd(p, mode, tag)
    /\ UNCHANGED <<out, rbuf, tmp, len, frm, cpu, hist, count>>

----------------------------------------------------------------------------
(* mrp_ioctl.                                                               *)

\* Faulty variant of FlushRecv: RDONE is left set.
FlushRecvLenOnly(p) ==
    /\ CpuFree /\ pc[p] = "idle" /\ "OPENED" \in flags
    /\ rlen' = 0
    /\ ier' = ier \cup {"RECV"}
    /\ taint' = taint \ {"masked"}
    /\ UNCHANGED <<flags, slen, out, rbuf, buf, hw, queues, local, hist, count>>

\* MRP_IOCTL_RF: discard what has been received.
FlushRecv(p) ==
    /\ CpuFree /\ pc[p] = "idle" /\ "OPENED" \in flags
    /\ rlen' = 0
    /\ ier' = ier \cup {"RECV"}
    /\ flags' = flags \ {"RDONE"}
    /\ taint' = taint \ {"masked"}
    /\ UNCHANGED <<slen, out, rbuf, buf, hw, queues, local, hist, count>>

\* MRP_IOCTL_SF: forget the transfer in progress; no waiter is woken.
FlushSend(p) ==
    /\ CpuFree /\ pc[p] = "idle" /\ "OPENED" \in flags
    /\ slen' = 0
    /\ ier' = ier \ {"WAKE"}
    /\ flags' = flags \ {"SBUSY"}
    /\ taint' = taint \cup If(tx # <<>> \/ q3 # {}, "flush")
    /\ UNCHANGED <<rlen, out, rbuf, buf, hw, queues, local, hist, count>>

\* MRP_IOCTL_SY: wait until no transfer is in progress.
SyncLoop(p) ==
    \/ "SBUSY" \in flags /\ q3' = q3 \cup {p} /\ Goto(p, "sy")
    \/ "SBUSY" \notin flags /\ q3' = q3 /\ Goto(p, "idle")

Sync(p) ==
    /\ CpuFree /\ "OPENED" \in flags
    /\ \/ pc[p] = "idle" /\ "SBUSY" \in flags
       \/ pc[p] = "sy" /\ p \notin q3
    /\ SyncLoop(p)
    /\ UNCHANGED <<flags, ier, rlen, slen, out, rbuf, buf, hw, q4, tmp, len, frm,
                   cpu, taint, hist, count>>

----------------------------------------------------------------------------
(* select on the data minor.  do_select marks the caller as sleeping, then  *)
(* select_check polls mrp_select twice: the first call queues the caller if *)
(* the file is not ready, the second finds out whether it became ready      *)
(* before it was queued.                                                    *)

\* mrp_select: readiness for reading ("in") and for writing ("out").
Ready(d) == IF d = "in" THEN flags \cap {"RDONE", "REQTAG"} # {}
                        ELSE "SBUSY" \notin flags

Enqueue(p, d) == /\ q4' = IF d = "in" THEN q4 \cup {p} ELSE q4
                 /\ q3' = IF d = "out" THEN q3 \cup {p} ELSE q3
Dequeue(p)    == q3' = q3 \ {p} /\ q4' = q4 \ {p}
Queue(d)      == IF d = "in" THEN q4 ELSE q3

SelAdd(d)   == IF d = "in" THEN "inadd" ELSE "outadd"
SelChk(d)   == IF d = "in" THEN "inchk" ELSE "outchk"
SelSleep(d) == IF d = "in" THEN "insleep" ELSE "outsleep"

SelectPoll(p, d) ==
    /\ CpuFree /\ pc[p] = "idle" /\ "OPENED" \in flags
    /\ ~Ready(d)
    /\ cpu' = p
    /\ Goto(p, SelAdd(d))
    /\ UNCHANGED <<flags, ier, rlen, slen, out, rbuf, buf, hw, queues, tmp, len,
                   frm, taint, hist, count>>

SelectWait(p, d) ==
    /\ cpu = p /\ pc[p] = SelAdd(d)
    /\ Enqueue(p, d)
    /\ Goto(p, SelChk(d))
    /\ UNCHANGED <<flags, ier, rlen, slen, out, rbuf, buf, hw, tmp, len, frm,
                   cpu, taint, hist, count>>

\* Faulty variant of SelectCheck: the file is not polled a second time.
SelectNoCheck(p, d) ==
    /\ cpu = p /\ pc[p] = SelChk(d)
    /\ cpu' = NoProc
    /\ Goto(p, SelSleep(d))
    /\ UNCHANGED <<flags, ier, rlen, slen, out, rbuf, buf, hw, queues, tmp, len,
                   frm, taint, hist, count>>

\* The second poll: leave, or schedule (and sleep, unless woken meanwhile).
SelectCheck(p, d) ==
    /\ cpu = p /\ pc[p] = SelChk(d)
    /\ cpu' = NoProc
    /\ \/ Ready(d) /\ Goto(p, "idle") /\ Dequeue(p)
       \/ ~Ready(d) /\ Goto(p, SelSleep(d)) /\ UNCHANGED queues
    /\ UNCHANGED <<flags, ier, rlen, slen, out, rbuf, buf, hw, tmp, len, frm,
                   taint, hist, count>>

\* Woken: still on the queue, it marks itself as sleeping and polls again.
SelectResume(p, d) ==
    /\ CpuFree /\ pc[p] = SelSleep(d) /\ p \notin Queue(d)
    /\ \/ Ready(d) /\ Goto(p, "idle") /\ UNCHANGED queues
       \/ ~Ready(d) /\ Enqueue(p, d) /\ pc' = pc
    /\ UNCHANGED <<flags, ier, rlen, slen, out, rbuf, buf, hw, tmp, len, frm,
                   cpu, taint, hist, count>>

\* A signal ends any interruptible sleep: -EINTR.
Interrupted(p) ==
    /\ CpuFree /\ pc[p] \in {"wr", "sy", "insleep", "outsleep"}
    /\ Dequeue(p)
    /\ Goto(p, "idle")
    /\ UNCHANGED <<flags, ier, rlen, slen, out, rbuf, buf, hw, tmp, len, frm,
                   cpu, taint, hist, count>>

----------------------------------------------------------------------------
FileOp(p) ==
    \/ \E bit \in OpenBits : Open(p, bit)
    \/ \E bit \in OpenBits : Release(p, bit)
    \/ StoreFlags(p)
    \/ ReadSample(p) \/ ReadSpins(p) \/ Spin(p) \/ Read(p) \/ ReadResume(p)
    \/ WriteStart(p) \/ WriteResume(p) \/ WriteCopied(p)
    \/ \E mode \in Modes, tag \in BOOLEAN : Treset(p, mode, tag)
    \/ \E mode \in Modes : TresetNoMemory(p, mode)
    \/ \E mode \in Modes : TresetSleep(p, mode)
    \/ \E mode \in Modes : TresetFault(p, mode)
    \/ \E mode \in Modes, tag \in BOOLEAN : TresetResume(p, mode, tag)
    \/ FlushRecv(p) \/ FlushSend(p) \/ Sync(p)
    \/ \E d \in {"in", "out"} : SelectPoll(p, d)
    \/ \E d \in {"in", "out"} : SelectWait(p, d)
    \/ \E d \in {"in", "out"} : SelectCheck(p, d)
    \/ \E d \in {"in", "out"} : SelectResume(p, d)
    \/ Interrupted(p)

Next ==
    \/ BoardSends \/ BoardDrain \/ BoardBoots
    \/ Wake \/ Recv \/ Bootp
    \/ \E p \in Procs : FileOp(p)

Spec == Init /\ [][Next]_vars

\* Interrupts that stay asserted and enabled are taken, the board drains its
\* FIFO, code that holds the CPU runs on to its end, and the scheduler gives
\* the CPU, which others may take in between, to every runnable process.
Fairness ==
    /\ WF_vars(Wake) /\ WF_vars(Recv) /\ WF_vars(Bootp) /\ WF_vars(BoardDrain)
    /\ \A p \in Procs :
         /\ WF_vars(StoreFlags(p)) /\ WF_vars(ReadSpins(p)) /\ WF_vars(Read(p))
         /\ WF_vars(\E d \in {"in", "out"} : SelectWait(p, d) \/ SelectCheck(p, d))
         /\ SF_vars(WriteResume(p)) /\ SF_vars(WriteCopied(p))

FairSpec == Spec /\ Fairness

----------------------------------------------------------------------------
\* Every word of the unit, both FIFOs, the wait queues and the callers' locals
\* keep their types: rlen never goes negative, only known flag and interrupt
\* bits are stored, and no packet or frame number passes its bound.
TypeOK ==
    /\ flags \subseteq Flags /\ ier \subseteq Ier
    /\ rlen \in Nat /\ slen \in {0, 1} /\ out \in 0..MaxWrites
    /\ rbuf \in Frames
    /\ buf \in [{"b38", "b40"} -> {"null", "image", "freed", "raw"}]
    /\ rx \in Seq(Frames) /\ tx \in Seq(Sent)
    /\ boot \in {"none", "b38", "b40", "done"}
    /\ q3 \subseteq Procs /\ q4 \subseteq Procs
    /\ pc \in [Procs -> Pcs]
    /\ tmp \in [Procs -> SUBSET Flags]
    /\ len \in [Procs -> Nat]
    /\ frm \in [Procs -> Frames]
    /\ cpu \in Procs \cup {NoProc}
    /\ taint \subseteq Taints
    /\ lastRead \in 0..MaxRx /\ lastGot \in 0..MaxWrites
    /\ nRx \in 0..MaxRx /\ nWr \in 0..MaxWrites
    /\ nRst \in 0..MaxTreset /\ nBoot \in 0..MaxBoot

\* A transfer in progress always has its end announced: while SBUSY is set the
\* WAKE interrupt, the only thing that clears it, is enabled -- unless the
\* flags store of mrp_open or mrp_release has brought SBUSY back.
SendArmed == "SBUSY" \in flags /\ "stale" \notin taint => "WAKE" \in ier

\* After a reset the unit never goes deaf: it holds a packet for a reader, or
\* its RECV interrupt is enabled -- unless mrp_bootp threw a packet away (and
\* nobody has read or flushed since) or a stale flags store hid one.
RecvArmed == "RESET" \in flags /\ taint \cap {"stale", "masked"} = {}
                => "RDONE" \in flags \/ "RECV" \in ier

\* Nobody waits for the send FIFO (write, MRP_IOCTL_SY, select) without a
\* wakeup to come: WAKE is enabled -- unless MRP_IOCTL_SF, which wakes nobody,
\* or a stale store came in between.
SenderNotLost ==
    taint \cap {"stale", "flush"} = {} =>
        \A p \in q3 : pc[p] \in {"wr", "sy", "outsleep"} => "WAKE" \in ier

\* The send side (mrp_send, the WAKE interrupt, the flush and the reset) is
\* served: transfers in progress and those who wait for them get their
\* interrupt.
SendServed == SendArmed /\ SenderNotLost

\* Nobody sleeps in select for reading while there is something to read: an
\* arrival between mrp_select's test and its select_wait is not missed.
SelectNotLost ==
    "stale" \notin taint =>
        \A p \in q4 : pc[p] = "insleep" => ~Ready("in")

\* The send FIFO never holds two frames, and is empty when the driver believes
\* it idle -- unless a flush, a tagged read, a faulting write or a stale store
\* has broken the SBUSY protocol since the FIFO was last drained.
TxExclusive ==
    taint \cap (SendTaint \cup {"stale"}) = {} =>
        Len(tx) <= 1 /\ (tx # <<>> => "SBUSY" \in flags)

\* What RDONE announces is a frame in recvbuf with its length in rlen, and it
\* passed its checksum, whatever flushes, resets, boot requests and bad frames
\* came before -- unless a stale store brought RDONE back.  The exception is a
\* frame that mrp_recv found behind k rescanned words in one interrupt: it is
\* stored k words too far and summed over the wrong words, so what is announced
\* is then neither whole nor known to be good.
PacketIntact ==
    "RDONE" \in flags /\ "stale" \notin taint =>
        /\ rbuf.kind \in {"ok", "badsum"} /\ rlen = rbuf.size
        /\ rbuf.skip = 0 => rbuf.kind = "ok"

\* The board can be sent freed memory only while the writer that freed the
\* image sleeps in kmalloc, and an image that is not complete only while its
\* writer sleeps in the copy: no failure, signal or reset leaves either behind.
ImageWhole ==
    /\ buf["b38"] = "freed" => \E p \in Procs : pc[p] = "km38"
    /\ buf["b40"] = "freed" => \E p \in Procs : pc[p] = "km40"
    /\ buf["b38"] = "raw" => \E p \in Procs : pc[p] = "im38"
    /\ buf["b40"] = "raw" => \E p \in Procs : pc[p] = "im40"

\* No packet is handed to two reads, and none is handed out after a newer one --
\* unless two reads slept in copy_to_user together.
ReadOnce ==
    [][\A p \in Procs :
         pc[p] \in {"rd", "rdcopy"} /\ pc'[p] = "idle"
           /\ "overlap" \notin taint /\ "overlap" \notin taint'
           /\ Returned(p, IF pc[p] = "rd" THEN rbuf ELSE frm[p])
         => lastRead' > lastRead]_vars

\* Each written packet is on its way to the board at most once and in the order
\* written, and none that the board already has is on its way again, until a
\* tagged TRESET makes readers send the last one once more.
SentOnce ==
    "REQTAG" \notin flags =>
        \A j \in 1..Len(tx) : tx[j].k = "data" =>
            /\ tx[j].id > lastGot
            /\ \A i \in 1..(j - 1) : tx[i].k = "data" => tx[i].id < tx[j].id

\* A writer that has to wait for the send FIFO returns: the inode's semaphore
\* keeps other writers away from the FIFO it waits for.  It may be left asleep
\* only by MRP_IOCTL_SF, a stale store, or a reader that has stopped the
\* machine spinning for RDONE.
WriteReturns ==
    \A p \in Procs :
        pc[p] \in {"wr", "wrcopy"} ~>
            \/ pc[p] = "idle"
            \/ taint \cap {"flush", "stale"} # {}
            \/ ~InterruptsOn

\* mrp_read copies no more than MRP_MAX_PKT_SIZE bytes: "read buffer must be
\* big enough for any packet" (ps2mrp-psnet.c:484), and that is all it checks
\* the caller's buffer for.
ReadFits == \A p \in Procs : pc[p] = "rd" => len[p] <= MaxPkt
=============================================================================
