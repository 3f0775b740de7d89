--------------------------- MODULE MrpDataProofs ---------------------------
(***************************************************************************)
(* Theorems about the data plane of one MRP unit, for every number of      *)
(* processes, every packet size and every bound of module MrpData.  Each   *)
(* property is an invariant by itself or together with the facts below;    *)
(* a lemma says that every step preserves it, and the theorems at the end  *)
(* put the lemmas together.                                                *)
(***************************************************************************)
EXTENDS MrpData, TLAPS

\* The store of mrp_open or mrp_release runs before any other process does, and
\* agrees with the flags it overwrites on the bit only processes change.
StoreExact ==
    \A p \in Procs : pc[p] = "store" =>
        cpu = p /\ ("REQTAG" \in tmp[p] <=> "REQTAG" \in flags)

\* Nobody sleeps in select for reading after a tagged TRESET, stale or not.
TagSeen == \A p \in q4 : pc[p] = "insleep" => "REQTAG" \notin flags

\* Written packets are numbered in the order they are accepted.
Numbered ==
    /\ out <= nWr /\ lastGot <= nWr
    /\ \A j \in 1..Len(tx) : tx[j].id <= nWr

\* Frames reach recvbuf, and leave it, in the order the board numbered them, and
\* no good packet is empty or too long.
RxOrder ==
    /\ lastRead <= rbuf.id /\ rbuf.id <= nRx
    /\ \A j \in 1..Len(rx) : rbuf.id < rx[j].id /\ rx[j].id <= nRx
    /\ \A i, j \in 1..Len(rx) : i < j => rx[i].id < rx[j].id
    /\ \A j \in 1..Len(rx) : rx[j].kind = "ok" => rx[j].size \in 1..MaxPkt
    /\ rbuf.kind = "ok" => rbuf.size \in 1..MaxPkt

\* A packet that can still be read whole has not been read: one in recvbuf with
\* rlen set, one whose length a reader has sampled, one a reader is copying --
\* and only one reader is.
Unread ==
    "overlap" \notin taint =>
        /\ rbuf.kind = "ok" /\ rlen # 0 => lastRead < rbuf.id
        /\ \A p \in Procs : pc[p] = "rd" /\ len[p] # 0 /\ rbuf.kind = "ok"
                              => lastRead < rbuf.id
        /\ \A p \in Procs : pc[p] = "rdcopy" /\ len[p] # 0 /\ frm[p].kind = "ok"
                              => lastRead < frm[p].id
        /\ \A p, q \in Procs : pc[p] = "rdcopy" /\ pc[q] = "rdcopy" => p = q

\* A reader that has sampled rlen keeps the CPU until it copies.
Sampling == \A p \in Procs : pc[p] = "rd" => cpu = p

----------------------------------------------------------------------------
(* Facts about sequences.                                                   *)

\* What Append does.
LEMMA AppendFacts ==
    ASSUME NEW S, NEW s \in Seq(S), NEW e
    PROVE  /\ Len(Append(s, e)) = Len(s) + 1
           /\ \A i \in 1..Len(s) : Append(s, e)[i] = s[i]
           /\ Append(s, e)[Len(s) + 1] = e
           /\ e \in S => Append(s, e) \in Seq(S)
  OBVIOUS

\* What is left of a sequence after its first k + 1 elements.
LEMMA RestFacts ==
    ASSUME NEW S, NEW s \in Seq(S), NEW k \in 0..Len(s)
    PROVE  /\ k = Len(s) => Len(SubSeq(s, k + 2, Len(s))) = 0
           /\ k < Len(s) => Len(SubSeq(s, k + 2, Len(s))) = Len(s) - (k + 1)
           /\ \A i \in 1..(Len(s) - (k + 1)) :
                 SubSeq(s, k + 2, Len(s))[i] = s[i + (k + 1)]
  OBVIOUS

----------------------------------------------------------------------------
(* Type correctness, in four parts.                                         *)

TypeUnit ==
    /\ flags \subseteq Flags /\ ier \subseteq Ier
    /\ rlen \in Nat /\ slen \in {0, 1} /\ out \in 0..MaxWrites
    /\ rbuf \in Frames
    /\ buf \in [{"b38", "b40"} -> {"null", "image", "freed", "raw"}]

TypeBoard ==
    /\ rx \in Seq(Frames) /\ tx \in Seq(Sent)
    /\ boot \in {"none", "b38", "b40", "done"}

TypeProcs ==
    /\ q3 \subseteq Procs /\ q4 \subseteq Procs
    /\ pc \in [Procs -> Pcs]
    /\ tmp \in [Procs -> SUBSET Flags]
    /\ len \in [Procs -> Nat]
    /\ frm \in [Procs -> Frames]
    /\ cpu \in Procs \cup {NoProc}

TypeHist ==
    /\ taint \subseteq Taints
    /\ lastRead \in 0..MaxRx /\ lastGot \in 0..MaxWrites
    /\ nRx \in 0..MaxRx /\ nWr \in 0..MaxWrites
    /\ nRst \in 0..MaxTreset /\ nBoot \in 0..MaxBoot

\* The four parts make up TypeOK.
LEMMA TypeParts == TypeOK <=> TypeUnit /\ TypeBoard /\ TypeProcs /\ TypeHist
  BY DEF TypeOK, TypeUnit, TypeBoard, TypeProcs, TypeHist

\* sys_write lets one process at a time into mrp_write, so that a packet the
\* bound has let in is the next to be numbered.
OneWriter ==
    /\ \A p, q \in Writing : p = q
    /\ \A p \in Procs : pc[p] \in {"wr", "wrcopy"} => nWr < MaxWrites

\* The records the driver puts are frames.
LEMMA FramesSent ==
    ASSUME TypeUnit
    PROVE  /\ OutFrame \in Sent
           /\ \A n \in 0..MaxWrites : DataFrame(n) \in Sent
           /\ \A b : ImageFrame(b) \in Sent
  BY ConstAssumption DEF OutFrame, DataFrame, ImageFrame, Other, Sent, TypeUnit

\* The frame at which a scan of the receive FIFO ends.
LEMMA ScanFacts ==
    ASSUME TypeUnit, TypeBoard, rx # <<>>, NEW k \in 0..Len(rx)
    PROVE  /\ Stored(k) \in Frames /\ ScanLen(k) \in Nat
           /\ Stored(k).id = Scanned(k).id /\ Stored(k).kind = Scanned(k).kind
           /\ Stored(k).size = Scanned(k).size
           /\ SubSeq(rx, k + 2, Len(rx)) \in Seq(Frames)
<1>1. Len(rx) \in Nat /\ Len(rx) # 0 /\ \A j \in 1..Len(rx) : rx[j] \in Frames
  BY DEF TypeBoard
<1>2. Scanned(k) \in Frames /\ ScanLen(k) \in Nat
  <2>1. Scanned(k) \in Frames
    BY <1>1 DEF Scanned
  <2>2. k = 0 \/ rx[k] \in Frames
    BY <1>1
  <2>3. \A f \in Frames : f.size \in Nat
    BY DEF Frames
  <2> QED BY <2>1, <2>2, <2>3 DEF ScanLen, TypeUnit
<1>3. k \in Nat
  BY <1>1
<1>4. ASSUME NEW f \in Frames, NEW g, g = [f EXCEPT !.skip = k]
      PROVE  g \in Frames /\ g.id = f.id /\ g.kind = f.kind /\ g.size = f.size
  BY <1>3, <1>4 DEF Frames
<1>5. /\ Stored(k) \in Frames /\ Stored(k).id = Scanned(k).id
      /\ Stored(k).kind = Scanned(k).kind /\ Stored(k).size = Scanned(k).size
  BY <1>2, <1>4 DEF Stored
<1> QED BY <1>2, <1>5 DEF TypeBoard

\* The unit's words keep their types.
LEMMA TypeUnitStep ==
    TypeUnit /\ TypeBoard /\ TypeProcs /\ TypeHist /\ OneWriter /\ [Next]_vars
        => TypeUnit'
<1> SUFFICES ASSUME TypeUnit, TypeBoard, TypeProcs, TypeHist, OneWriter, [Next]_vars
             PROVE  TypeUnit'
  OBVIOUS
<1>1. CASE UNCHANGED vars
  BY <1>1 DEF vars, TypeUnit
<1>2. CASE BoardSends \/ BoardDrain \/ BoardBoots
  BY <1>2 DEF BoardSends, BoardSend, BoardDrain, BoardBoots, BoardBoot, TypeUnit
<1>3. CASE Wake
  BY <1>3 DEF Wake, TypeUnit
<1>4. CASE Recv
  <2>1. flags' \subseteq Flags /\ ier' \subseteq Ier
    BY <1>4 DEF Recv, mrp_recv, TypeUnit, Flags
  <2>2. rx # <<>>
    BY <1>4 DEF Recv, Stat, Ist
  <2>3. rbuf' \in Frames /\ rlen' \in Nat
    BY <1>4, <2>2, ScanFacts DEF Recv, mrp_recv, TypeUnit, Frames
  <2> QED BY <1>4, <2>1, <2>3 DEF Recv, TypeUnit
<1>5. CASE Bootp
  BY <1>5 DEF Bootp, TypeUnit, Flags, Ier
<1>6. ASSUME NEW p \in Procs, FileOp(p) PROVE TypeUnit'
  <2>1. CASE \E bit \in OpenBits : Open(p, bit) \/ Release(p, bit)
    BY <2>1 DEF Open, Release, LoadFlags, TypeUnit
  <2>2. CASE StoreFlags(p)
    BY <2>2 DEF StoreFlags, TypeUnit, TypeProcs
  <2>3. CASE ReadSample(p) \/ Spin(p)
    BY <2>3 DEF ReadSample, Spin, vars, TypeUnit
  <2>4. CASE ReadSpins(p)
    BY <2>4 DEF ReadSpins, TagFlags, TagIer, TypeUnit, Flags, Ier
  <2>5. CASE Read(p)
    <3>1. flags' \subseteq Flags /\ ier' \subseteq Ier
      BY <2>5 DEF Read, ReadDone, TagFlags, TagIer, TypeUnit, Flags, Ier
    <3>2. rlen' = 0 \/ rlen' = rlen
      BY <2>5 DEF Read, ReadDone
    <3>3. UNCHANGED <<slen, out, rbuf, buf>>
      BY <2>5 DEF Read
    <3> QED BY <3>1, <3>2, <3>3 DEF TypeUnit
  <2>6. CASE ReadResume(p)
    BY <2>6 DEF ReadResume, ReadDone, TypeUnit, Ier
  <2>7. CASE WriteStart(p) \/ WriteResume(p) \/ WriteCopied(p)
    <3>1. CASE UNCHANGED <<flags, ier, slen, out>>
      BY <2>7, <3>1 DEF WriteStart, WriteResume, WriteCopied, TypeUnit
    <3>2. CASE PutPacket
      <4>1. out' \in 0..MaxWrites /\ slen' \in {0, 1}
        BY ConstAssumption, <2>7, <3>2 DEF WriteStart, WriteResume, WriteCopied,
                                           PutPacket, OneWriter, TypeHist
      <4>2. flags' \subseteq Flags /\ ier' \subseteq Ier
        BY <3>2 DEF PutPacket, TypeUnit, Flags, Ier
      <4> QED BY <2>7, <4>1, <4>2 DEF WriteStart, WriteResume, WriteCopied,
                                      TypeUnit
    <3> QED BY <2>7, <3>1, <3>2 DEF WriteStart, WriteResume, WriteCopied,
                                    WriteLoop
  <2>8. ASSUME NEW mode \in Modes, NEW tag \in BOOLEAN,
               Treset(p, mode, tag) \/ TresetResume(p, mode, tag)
        PROVE TypeUnit'
    <3>1. flags' \subseteq Flags
      BY <2>8 DEF Treset, TresetResume, TresetEnd, ResetFlags, If, TypeUnit, Flags
    <3>2. \/ UNCHANGED <<ier, rlen, slen>>
          \/ ier' = {"BOOTP", "RECV"} /\ rlen' = 0 /\ slen' = 0
      BY <2>8 DEF Treset, TresetResume, TresetEnd, mrp_reset
    <3>3. buf' \in [{"b38", "b40"} -> {"null", "image", "freed", "raw"}]
      BY <2>8 DEF Treset, TresetResume, ImageOf, TypeUnit
    <3>4. UNCHANGED <<out, rbuf>>
      BY <2>8 DEF Treset, TresetResume
    <3>5. ier' \subseteq Ier
      BY <3>2 DEF Ier, TypeUnit
    <3>6. rlen' \in Nat /\ slen' \in {0, 1}
      BY <3>2 DEF TypeUnit
    <3> QED BY <3>1, <3>3, <3>4, <3>5, <3>6 DEF TypeUnit
  <2>9. ASSUME NEW mode \in Modes, TresetNoMemory(p, mode) \/ TresetSleep(p, mode)
                 \/ TresetFault(p, mode)
        PROVE TypeUnit'
    BY <2>9 DEF TresetNoMemory, TresetSleep, TresetFault, ImageOf, TypeUnit
  <2>10. CASE FlushRecv(p)
    BY <2>10 DEF FlushRecv, TypeUnit, Ier
  <2>11. CASE FlushSend(p)
    BY <2>11 DEF FlushSend, TypeUnit, Ier
  <2>12. CASE Sync(p) \/ Interrupted(p)
    BY <2>12 DEF Sync, Interrupted, TypeUnit
  <2>13. ASSUME NEW d \in {"in", "out"},
                SelectPoll(p, d) \/ SelectWait(p, d) \/ SelectCheck(p, d)
                  \/ SelectResume(p, d)
         PROVE TypeUnit'
    BY <2>13 DEF SelectPoll, SelectWait, SelectCheck, SelectResume, TypeUnit
  <2> QED BY <1>6, <2>1, <2>2, <2>3, <2>4, <2>5, <2>6, <2>7, <2>8, <2>9, <2>10,
             <2>11, <2>12, <2>13 DEF FileOp
<1> QED BY <1>1, <1>2, <1>3, <1>4, <1>5, <1>6 DEF Next

\* The FIFOs hold frames.
LEMMA TypeBoardStep ==
    TypeUnit /\ TypeBoard /\ TypeHist /\ OneWriter /\ [Next]_vars => TypeBoard'
<1> SUFFICES ASSUME TypeUnit, TypeBoard, TypeHist, OneWriter, [Next]_vars
             PROVE  TypeBoard'
  OBVIOUS
<1>1. CASE UNCHANGED vars
  BY <1>1 DEF vars, TypeBoard
<1>2. ASSUME NEW kind \in {"ok", "badsum", "badhdr", "short"}, NEW size \in Nat,
             BoardSend(kind, size)
      PROVE  TypeBoard'
  <2>1. [id |-> nRx + 1, kind |-> kind, size |-> size, skip |-> 0] \in Frames
    BY ConstAssumption, <1>2 DEF BoardSend, Frames, TypeHist
  <2> QED BY <1>2, <2>1 DEF BoardSend, TypeBoard
<1>3. CASE BoardDrain
  BY <1>3 DEF BoardDrain, TypeBoard
<1>4. CASE BoardBoots
  BY <1>4 DEF BoardBoots, BoardBoot, TypeBoard
<1>5. CASE Wake
  BY <1>5 DEF Wake, hw, TypeBoard
<1>6. CASE Recv
  <2>1. rx # <<>>
    BY <1>6 DEF Recv, Stat, Ist
  <2>2. rx' \in Seq(Frames)
    <3>1. CASE rx' = rx
      BY <3>1 DEF TypeBoard
    <3>2. ASSUME NEW k \in 0..Len(rx), rx' = SubSeq(rx, k + 2, Len(rx))
          PROVE  rx' \in Seq(Frames)
      BY <2>1, <3>2, ScanFacts
    <3> QED BY <1>6, <3>1, <3>2 DEF Recv, mrp_recv
  <2> QED BY <1>6, <2>2 DEF Recv, TypeBoard
<1>7. CASE Bootp
  <2>1. ImageFrame(boot) \in Sent
    BY FramesSent
  <2>2. tx' \in Seq(Sent)
    BY <1>7, <2>1 DEF Bootp, TypeBoard
  <2> QED BY <1>7, <2>2 DEF Bootp, TypeBoard
<1>8. ASSUME NEW p \in Procs, FileOp(p) PROVE TypeBoard'
  <2>1. CASE \E bit \in OpenBits : Open(p, bit) \/ Release(p, bit)
    BY <2>1 DEF Open, Release, LoadFlags, hw, TypeBoard
  <2>2. CASE StoreFlags(p)
    BY <2>2 DEF StoreFlags, hw, TypeBoard
  <2>3. CASE ReadSample(p) \/ Spin(p)
    BY <2>3 DEF ReadSample, Spin, vars, hw, TypeBoard
  <2>4. CASE ReadSpins(p) \/ Read(p)
    <3>1. TagTx \in Seq(Sent)
      BY FramesSent DEF TagTx, TypeBoard
    <3> QED BY <2>4, <3>1 DEF ReadSpins, Read, TypeBoard
  <2>5. CASE ReadResume(p)
    BY <2>5 DEF ReadResume, hw, TypeBoard
  <2>6. CASE WriteStart(p) \/ WriteResume(p) \/ WriteCopied(p)
    <3>1. CASE tx' = tx
      BY <2>6, <3>1 DEF WriteStart, WriteResume, WriteCopied, TypeBoard
    <3>2. CASE PutPacket
      <4>1. nWr + 1 \in 0..MaxWrites
        BY ConstAssumption, <2>6 DEF WriteStart, WriteResume, WriteCopied,
                                     OneWriter, TypeHist
      <4>2. tx' \in Seq(Sent)
        BY <3>2, <4>1, FramesSent DEF PutPacket, TypeBoard
      <4> QED BY <2>6, <4>2 DEF WriteStart, WriteResume, WriteCopied, TypeBoard
    <3> QED BY <2>6, <3>1, <3>2 DEF WriteStart, WriteResume, WriteCopied,
                                    WriteLoop
  <2>7. ASSUME NEW mode \in Modes, NEW tag \in BOOLEAN,
               Treset(p, mode, tag) \/ TresetResume(p, mode, tag)
        PROVE TypeBoard'
    <3>1. CASE mode = 0
      <4>1. rx' = <<>> /\ tx' = <<>> /\ boot' = "none"
        BY <2>7, <3>1 DEF Treset, TresetResume, TresetEnd, mrp_reset
      <4> QED BY <4>1 DEF TypeBoard
    <3>2. CASE mode # 0
      BY <2>7, <3>2 DEF Treset, TresetResume, TresetEnd, TypeBoard
    <3> QED BY <3>1, <3>2
  <2>8. ASSUME NEW mode \in Modes, TresetNoMemory(p, mode) \/ TresetSleep(p, mode)
                 \/ TresetFault(p, mode)
        PROVE TypeBoard'
    BY <2>8 DEF TresetNoMemory, TresetSleep, TresetFault, hw, TypeBoard
  <2>9. CASE FlushRecv(p) \/ FlushSend(p) \/ Sync(p) \/ Interrupted(p)
    BY <2>9 DEF FlushRecv, FlushSend, Sync, Interrupted, hw, TypeBoard
  <2>10. ASSUME NEW d \in {"in", "out"},
                SelectPoll(p, d) \/ SelectWait(p, d) \/ SelectCheck(p, d)
                  \/ SelectResume(p, d)
         PROVE TypeBoard'
    BY <2>10 DEF SelectPoll, SelectWait, SelectCheck, SelectResume, hw, TypeBoard
  <2> QED BY <1>8, <2>1, <2>2, <2>3, <2>4, <2>5, <2>6, <2>7, <2>8, <2>9, <2>10
     DEF FileOp
<1>9. CASE BoardSends
  BY ConstAssumption, <1>2, <1>9 DEF BoardSends
<1> QED BY <1>1, <1>3, <1>4, <1>5, <1>6, <1>7, <1>8, <1>9 DEF Next

\* The processes' state keeps its types.
LEMMA TypeProcsStep ==
    TypeUnit /\ TypeProcs /\ [Next]_vars => TypeProcs'
<1> SUFFICES ASSUME TypeUnit, TypeProcs, [Next]_vars PROVE TypeProcs'
  OBVIOUS
<1>1. CASE UNCHANGED vars
  BY <1>1 DEF vars, TypeProcs
<1>2. CASE BoardSends \/ BoardDrain \/ BoardBoots
  BY <1>2 DEF BoardSends, BoardSend, BoardDrain, BoardBoots, BoardBoot, queues,
              local, TypeProcs
<1>3. CASE Wake \/ Recv \/ Bootp
  BY <1>3 DEF Wake, Recv, mrp_recv, Bootp, local, TypeProcs
<1>4. ASSUME NEW p \in Procs, FileOp(p) PROVE TypeProcs'
  <2>1. ASSUME NEW bit \in OpenBits, Open(p, bit) \/ Release(p, bit)
        PROVE  TypeProcs'
    <3>1. tmp' \in [Procs -> SUBSET Flags]
      BY <2>1 DEF Open, Release, LoadFlags, TypeUnit, TypeProcs, Flags
    <3> QED BY <2>1, <3>1 DEF Open, Release, LoadFlags, queues, Goto, Pcs,
                              TypeProcs
  <2>2. CASE StoreFlags(p)
    BY <2>2 DEF StoreFlags, queues, Goto, Pcs, TypeProcs
  <2>3. CASE ReadSample(p)
    BY <2>3 DEF ReadSample, queues, Goto, Pcs, TypeUnit, TypeProcs
  <2>4. CASE Spin(p) \/ ReadSpins(p)
    BY <2>4 DEF Spin, ReadSpins, vars, queues, Goto, Pcs, TypeProcs
  <2>5. CASE Read(p) \/ ReadResume(p)
    <3>1. NoFrame \in Frames
      BY ConstAssumption DEF NoFrame, Frames
    <3>2. /\ frm' = frm \/ \E f \in Frames : frm' = [frm EXCEPT ![p] = f]
          /\ len' = len \/ len' = [len EXCEPT ![p] = 0]
      BY <2>5, <3>1 DEF Read, ReadResume, ReadDone, TypeUnit
    <3>3. pc' \in [Procs -> Pcs]
      BY <2>5 DEF Read, ReadResume, ReadDone, Goto, Pcs, TypeProcs
    <3>4. cpu' = NoProc /\ UNCHANGED <<q3, q4, tmp>>
      BY <2>5 DEF Read, ReadResume, ReadDone, queues
    <3>5. frm' \in [Procs -> Frames] /\ len' \in [Procs -> Nat]
      BY <3>2 DEF TypeProcs
    <3> QED BY <3>3, <3>4, <3>5 DEF TypeProcs
  <2>6. CASE WriteStart(p) \/ WriteResume(p) \/ WriteCopied(p)
    BY <2>6 DEF WriteStart, WriteResume, WriteCopied, WriteLoop, queues, Goto,
                Pcs, TypeProcs
  <2>7. ASSUME NEW mode \in Modes, NEW tag \in BOOLEAN,
               Treset(p, mode, tag) \/ TresetResume(p, mode, tag)
        PROVE TypeProcs'
    BY <2>7 DEF Treset, TresetResume, TresetEnd, mrp_reset, Goto, Pcs, TypeProcs
  <2>8. ASSUME NEW mode \in Modes, TresetNoMemory(p, mode) \/ TresetSleep(p, mode)
                 \/ TresetFault(p, mode)
        PROVE TypeProcs'
    BY <2>8 DEF TresetNoMemory, TresetSleep, TresetFault, queues, Goto, Pcs, TypeProcs
  <2>9. CASE FlushRecv(p) \/ FlushSend(p)
    BY <2>9 DEF FlushRecv, FlushSend, queues, local, TypeProcs
  <2>10. CASE Sync(p) \/ Interrupted(p)
    BY <2>10 DEF Sync, SyncLoop, Interrupted, Dequeue, Goto, Pcs, TypeProcs
  <2>11. ASSUME NEW d \in {"in", "out"},
                SelectPoll(p, d) \/ SelectWait(p, d) \/ SelectCheck(p, d)
                  \/ SelectResume(p, d)
         PROVE TypeProcs'
    BY <2>11 DEF SelectPoll, SelectWait, SelectCheck, SelectResume, Enqueue,
                 Dequeue, SelAdd, SelChk, SelSleep, queues, Goto, Pcs, TypeProcs
  <2> QED BY <1>4, <2>1, <2>2, <2>3, <2>4, <2>5, <2>6, <2>7, <2>8, <2>9, <2>10,
             <2>11 DEF FileOp
<1> QED BY <1>1, <1>2, <1>3, <1>4 DEF Next

\* The history and the counters keep their types.
LEMMA TypeHistStep ==
    TypeUnit /\ TypeBoard /\ TypeProcs /\ TypeHist /\ OneWriter /\ [Next]_vars
        => TypeHist'
<1> SUFFICES ASSUME TypeUnit, TypeBoard, TypeProcs, TypeHist, OneWriter, [Next]_vars
             PROVE  TypeHist'
  OBVIOUS
<1>1. CASE UNCHANGED vars
  BY <1>1 DEF vars, TypeHist
<1>2. CASE BoardSends \/ BoardBoots
  <2>1. ASSUME NEW kind, NEW size, BoardSend(kind, size) PROVE TypeHist'
    BY ConstAssumption, <2>1 DEF BoardSend, hist, TypeHist
  <2>2. CASE BoardBoots
    BY ConstAssumption, <2>2 DEF BoardBoots, BoardBoot, hist, TypeHist
  <2> QED BY <1>2, <2>1, <2>2 DEF BoardSends
<1>3. CASE BoardDrain
  <2>1. Head(tx) \in Sent
    BY <1>3 DEF BoardDrain, TypeBoard
  <2> QED BY <1>3, <2>1 DEF BoardDrain, Sent, count, TypeHist
<1>4. CASE Wake \/ Recv
  BY <1>4 DEF Wake, Recv, hist, count, TypeHist
<1>5. CASE Bootp
  BY <1>5 DEF Bootp, hist, count, If, Taints, TypeHist
<1>6. ASSUME NEW p \in Procs, FileOp(p) PROVE TypeHist'
  <2>1. CASE \E bit \in OpenBits : Open(p, bit) \/ Release(p, bit)
    BY <2>1 DEF Open, Release, LoadFlags, hist, count, TypeHist
  <2>2. CASE StoreFlags(p)
    BY <2>2 DEF StoreFlags, hist, count, If, Taints, TypeHist
  <2>3. CASE ReadSample(p) \/ Spin(p)
    BY <2>3 DEF ReadSample, Spin, vars, hist, count, TypeHist
  <2>4. CASE ReadSpins(p)
    BY <2>4 DEF ReadSpins, TagTaint, hist, count, If, Taints, TypeHist
  <2>5. CASE Read(p) \/ ReadResume(p)
    <3>1. taint' \subseteq Taints
      BY <2>5 DEF Read, ReadResume, TagTaint, If, Taints, TypeHist
    <3>2. rbuf.id \in 0..MaxRx /\ frm[p].id \in 0..MaxRx
      BY DEF TypeUnit, TypeProcs, Frames
    <3>3. lastRead' \in 0..MaxRx
      BY <2>5, <3>2 DEF Read, ReadResume, ReadDone, TypeHist
    <3> QED BY <2>5, <3>1, <3>3 DEF Read, ReadResume, count, TypeHist
  <2>6. CASE WriteStart(p) \/ WriteResume(p) \/ WriteCopied(p)
    <3>1. nWr + 1 \in 0..MaxWrites
      BY ConstAssumption, <2>6 DEF WriteStart, WriteResume, WriteCopied,
                                   OneWriter, TypeHist
    <3>2. nWr' \in 0..MaxWrites
      BY <2>6, <3>1 DEF WriteStart, WriteResume, WriteCopied, WriteLoop,
                        PutPacket, TypeHist
    <3>3. taint' \subseteq Taints
      BY <2>6 DEF WriteStart, WriteResume, WriteCopied, If, Taints, TypeHist
    <3> QED BY <2>6, <3>2, <3>3 DEF WriteStart, WriteResume, WriteCopied, hist,
                                    TypeHist
  <2>7. ASSUME NEW mode \in Modes, NEW tag \in BOOLEAN,
               Treset(p, mode, tag) \/ TresetResume(p, mode, tag)
        PROVE TypeHist'
    <3>1. taint' \subseteq Taints
      BY <2>7 DEF Treset, TresetResume, TresetEnd, mrp_reset, TypeHist
    <3> QED BY ConstAssumption, <2>7, <3>1 DEF Treset, TresetResume, hist, count,
                                               TypeHist
  <2>8. ASSUME NEW mode \in Modes, TresetNoMemory(p, mode) \/ TresetSleep(p, mode)
                 \/ TresetFault(p, mode)
        PROVE TypeHist'
    BY ConstAssumption, <2>8 DEF TresetNoMemory, TresetSleep, TresetFault, hist,
                                     TypeHist
  <2>9. CASE FlushRecv(p) \/ FlushSend(p)
    BY <2>9 DEF FlushRecv, FlushSend, hist, count, If, Taints, TypeHist
  <2>10. CASE Sync(p) \/ Interrupted(p)
    BY <2>10 DEF Sync, Interrupted, hist, count, TypeHist
  <2>11. ASSUME NEW d \in {"in", "out"},
                SelectPoll(p, d) \/ SelectWait(p, d) \/ SelectCheck(p, d)
                  \/ SelectResume(p, d)
         PROVE TypeHist'
    BY <2>11 DEF SelectPoll, SelectWait, SelectCheck, SelectResume, hist, count,
                 TypeHist
  <2> QED BY <1>6, <2>1, <2>2, <2>3, <2>4, <2>5, <2>6, <2>7, <2>8, <2>9, <2>10,
             <2>11 DEF FileOp
<1> QED BY <1>1, <1>2, <1>3, <1>4, <1>5, <1>6 DEF Next

\* One process at a time writes.
LEMMA OneWriterStep ==
    TypeProcs /\ TypeHist /\ OneWriter /\ [Next]_vars => OneWriter'
<1> SUFFICES ASSUME TypeProcs, TypeHist, OneWriter, [Next]_vars PROVE OneWriter'
  OBVIOUS
<1>1. ASSUME UNCHANGED <<pc, nWr>> PROVE OneWriter'
  BY <1>1 DEF OneWriter, Writing
<1>2. ASSUME NEW p \in Procs, NEW l, pc' = [pc EXCEPT ![p] = l], nWr' = nWr,
             l \in {"wr", "wrcopy"} => nWr < MaxWrites,
             l \in {"wr", "wrcopy", "km38", "km40", "im38", "im40"}
               => Writing \subseteq {p}
      PROVE  OneWriter'
  BY <1>2 DEF OneWriter, Writing, TypeProcs
<1>3. ASSUME NEW p \in Procs, Writing \subseteq {p}, pc' = [pc EXCEPT ![p] = "idle"]
      PROVE  OneWriter'
  BY <1>3 DEF OneWriter, Writing, TypeProcs
<1>4. CASE UNCHANGED vars
  BY <1>1, <1>4 DEF vars
<1>5. CASE BoardSends \/ BoardDrain \/ BoardBoots
  BY <1>1, <1>5 DEF BoardSends, BoardSend, BoardDrain, BoardBoots, BoardBoot,
                    local, count
<1>6. CASE Wake \/ Recv \/ Bootp
  BY <1>1, <1>6 DEF Wake, Recv, Bootp, local, count
<1>7. ASSUME NEW p \in Procs, FileOp(p) PROVE OneWriter'
  <2>1. CASE \E bit \in OpenBits : Open(p, bit) \/ Release(p, bit)
    BY <1>2, <2>1 DEF Open, Release, LoadFlags, Goto, count
  <2>2. CASE StoreFlags(p)
    BY <1>2, <2>2 DEF StoreFlags, Goto, count
  <2>3. CASE ReadSample(p) \/ ReadSpins(p)
    BY <1>2, <2>3 DEF ReadSample, ReadSpins, Goto, count
  <2>4. CASE Read(p) \/ ReadResume(p)
    BY <1>2, <2>4 DEF Read, ReadResume, ReadDone, Goto, count
  <2>5. CASE Spin(p) \/ FlushRecv(p) \/ FlushSend(p)
    BY <1>1, <2>5 DEF Spin, vars, FlushRecv, FlushSend, local, count
  <2>6. CASE WriteStart(p) \/ WriteResume(p) \/ WriteCopied(p)
    <3>1. Writing \subseteq {p} /\ nWr < MaxWrites
      BY <2>6 DEF WriteStart, WriteResume, WriteCopied, Writing, OneWriter
    <3>2. CASE pc' = [pc EXCEPT ![p] = "idle"]
      BY <1>3, <3>1, <3>2
    <3>3. CASE nWr' = nWr
      BY <1>2, <2>6, <3>1, <3>3 DEF WriteStart, WriteResume, WriteCopied,
                                    WriteLoop, Goto
    <3> QED BY <2>6, <3>2, <3>3 DEF WriteStart, WriteResume, WriteCopied,
                                    WriteLoop, Goto
  <2>7. ASSUME NEW mode \in Modes, NEW tag \in BOOLEAN,
               Treset(p, mode, tag) \/ TresetResume(p, mode, tag)
        PROVE OneWriter'
    BY <1>2, <2>7 DEF Treset, TresetResume, TresetEnd, Goto, count
  <2>8. ASSUME NEW mode \in Modes, TresetNoMemory(p, mode) \/ TresetSleep(p, mode)
                 \/ TresetFault(p, mode)
        PROVE OneWriter'
    <3>1. Writing \subseteq {p}
      BY <2>8 DEF TresetNoMemory, TresetSleep, TresetFault, Writing, OneWriter
    <3> QED BY <1>2, <2>8, <3>1 DEF TresetNoMemory, TresetSleep, TresetFault, Goto
  <2>9. CASE Sync(p) \/ Interrupted(p)
    BY <1>2, <2>9 DEF Sync, SyncLoop, Interrupted, Goto, count
  <2>10. ASSUME NEW d \in {"in", "out"},
                SelectPoll(p, d) \/ SelectWait(p, d) \/ SelectCheck(p, d)
                  \/ SelectResume(p, d)
         PROVE OneWriter'
    BY <1>1, <1>2, <2>10 DEF SelectPoll, SelectWait, SelectCheck, SelectResume,
                             SelAdd, SelChk, SelSleep, Goto, count
  <2> QED BY <1>7, <2>1, <2>2, <2>3, <2>4, <2>5, <2>6, <2>7, <2>8, <2>9, <2>10
     DEF FileOp
<1> QED BY <1>4, <1>5, <1>6, <1>7 DEF Next

----------------------------------------------------------------------------
(* The invariants, each preserved by every step.                            *)

\* The steps that change the unit's flags, ier, rlen, recvbuf or taint.
LEMMA UnitSteps ==
    ASSUME [Next]_vars
    PROVE  \/ UNCHANGED <<flags, ier, rlen, rbuf, taint>>
           \/ Wake \/ Recv \/ Bootp
           \/ \E p \in Procs :
                 \/ StoreFlags(p)
                 \/ ReadSpins(p) \/ Read(p) \/ ReadResume(p)
                 \/ WriteStart(p) \/ WriteResume(p) \/ WriteCopied(p)
                 \/ FlushRecv(p) \/ FlushSend(p)
                 \/ \E mode \in Modes, tag \in BOOLEAN :
                       Treset(p, mode, tag) \/ TresetResume(p, mode, tag)
<1>1. CASE UNCHANGED vars
  BY <1>1 DEF vars
<1>2. CASE BoardSends \/ BoardDrain \/ BoardBoots
  BY <1>2 DEF BoardSends, BoardSend, BoardDrain, BoardBoots, BoardBoot
<1>3. ASSUME NEW p \in Procs,
             \/ \E bit \in OpenBits : Open(p, bit) \/ Release(p, bit)
             \/ ReadSample(p) \/ Spin(p) \/ Sync(p) \/ Interrupted(p)
             \/ \E mode \in Modes : TresetNoMemory(p, mode) \/ TresetSleep(p, mode)
                 \/ TresetFault(p, mode)
             \/ \E d \in {"in", "out"} : \/ SelectPoll(p, d) \/ SelectWait(p, d)
                                       \/ SelectCheck(p, d) \/ SelectResume(p, d)
      PROVE  UNCHANGED <<flags, ier, rlen, rbuf, taint>>
  BY <1>3 DEF Open, Release, LoadFlags, ReadSample, Spin, vars, Sync, Interrupted,
              TresetNoMemory, TresetSleep, TresetFault, SelectPoll, SelectWait,
              SelectCheck,
              SelectResume
<1> QED BY <1>1, <1>2, <1>3 DEF Next, FileOp

\* A transfer in progress has its interrupt enabled, the unit does not go deaf,
\* and a packet announced is the one in recvbuf: each by itself preserved by
\* every step.
LEMMA UnitStep ==
    [Next]_vars => /\ SendArmed => SendArmed'
                   /\ RecvArmed => RecvArmed'
                   /\ PacketIntact => PacketIntact'
<1> SUFFICES ASSUME [Next]_vars
             PROVE  /\ SendArmed => SendArmed'
                    /\ RecvArmed => RecvArmed'
                    /\ PacketIntact => PacketIntact'
  OBVIOUS
<1> USE DEF SendArmed, RecvArmed, PacketIntact
<1>1. CASE UNCHANGED <<flags, ier, rlen, rbuf, taint>>
  BY <1>1
<1>2. CASE Wake
  BY <1>2 DEF Wake, SendTaint
<1>3. CASE Recv
  <2>1. SendArmed => SendArmed'
    BY <1>3 DEF Recv, mrp_recv, SendTaint
  <2>2. RecvArmed => RecvArmed'
    BY <1>3 DEF Recv, mrp_recv, SendTaint
  <2>3. PacketIntact => PacketIntact'
    BY <1>3 DEF Recv, mrp_recv, MayPass, SendTaint
  <2> QED BY <2>1, <2>2, <2>3
<1>4. CASE Bootp
  BY <1>4 DEF Bootp, If
<1>5. ASSUME NEW p \in Procs, StoreFlags(p)
      PROVE  /\ SendArmed => SendArmed'
             /\ RecvArmed => RecvArmed'
             /\ PacketIntact => PacketIntact'
  BY <1>5 DEF StoreFlags, If, OpenBits
<1>6. ASSUME NEW p \in Procs, ReadSpins(p) \/ Read(p) \/ ReadResume(p)
      PROVE  /\ SendArmed => SendArmed'
             /\ RecvArmed => RecvArmed'
             /\ PacketIntact => PacketIntact'
  BY <1>6 DEF ReadSpins, Read, ReadResume, ReadDone, TagFlags, TagIer, TagTaint
<1>7. ASSUME NEW p \in Procs, WriteStart(p) \/ WriteResume(p) \/ WriteCopied(p)
      PROVE  /\ SendArmed => SendArmed'
             /\ RecvArmed => RecvArmed'
             /\ PacketIntact => PacketIntact'
  BY <1>7 DEF WriteStart, WriteResume, WriteCopied, WriteLoop, PutPacket
<1>8. ASSUME NEW p \in Procs, FlushRecv(p) \/ FlushSend(p)
      PROVE  /\ SendArmed => SendArmed'
             /\ RecvArmed => RecvArmed'
             /\ PacketIntact => PacketIntact'
  BY <1>8 DEF FlushRecv, FlushSend
<1>9. ASSUME NEW p \in Procs, NEW mode \in Modes, NEW tag \in BOOLEAN,
             Treset(p, mode, tag) \/ TresetResume(p, mode, tag)
      PROVE  /\ SendArmed => SendArmed'
             /\ RecvArmed => RecvArmed'
             /\ PacketIntact => PacketIntact'
  BY <1>9 DEF Treset, TresetResume, TresetEnd, mrp_reset, ResetFlags, If
<1> QED BY <1>1, <1>2, <1>3, <1>4, <1>5, <1>6, <1>7, <1>8, <1>9, UnitSteps

\* No waiting sender is lost: preserved by every step.
LEMMA SenderNotLostStep ==
    TypeProcs /\ SendArmed /\ SenderNotLost /\ [Next]_vars => SenderNotLost'
<1> SUFFICES ASSUME TypeProcs, SendArmed, SenderNotLost, [Next]_vars
             PROVE  SenderNotLost'
  OBVIOUS
<1>1. CASE UNCHANGED vars
  BY <1>1 DEF vars, SenderNotLost
<1>2. CASE BoardSends \/ BoardDrain \/ BoardBoots
  BY <1>2 DEF BoardSends, BoardSend, BoardDrain, BoardBoots, BoardBoot,
              SenderNotLost, queues, local
<1>3. CASE Wake
  BY <1>3 DEF Wake, SenderNotLost, SendTaint
<1>4. CASE Recv
  BY <1>4 DEF Recv, mrp_recv, SenderNotLost, SendTaint, local
<1>5. CASE Bootp
  BY <1>5 DEF Bootp, SenderNotLost, If, local
<1>6. ASSUME NEW p \in Procs, FileOp(p) PROVE SenderNotLost'
  <2>1. CASE \E bit \in OpenBits : Open(p, bit) \/ Release(p, bit)
    BY <2>1 DEF Open, Release, LoadFlags, SenderNotLost, queues, Goto, TypeProcs
  <2>2. CASE StoreFlags(p)
    BY <2>2 DEF StoreFlags, SenderNotLost, If, OpenBits, queues, Goto, TypeProcs
  <2>3. CASE ReadSample(p) \/ Spin(p)
    BY <2>3 DEF ReadSample, Spin, vars, SenderNotLost, queues, Goto, TypeProcs
  <2>4. CASE ReadSpins(p)
    BY <2>4 DEF ReadSpins, SenderNotLost, TagFlags, TagIer, TagTaint, queues,
                Goto, TypeProcs
  <2>5. CASE Read(p) \/ ReadResume(p)
    BY <2>5 DEF Read, ReadResume, ReadDone, SenderNotLost, TagFlags, TagIer,
                TagTaint, queues, Goto, TypeProcs
  <2>6. CASE WriteStart(p) \/ WriteResume(p) \/ WriteCopied(p)
    BY <2>6 DEF WriteStart, WriteResume, WriteCopied, WriteLoop, PutPacket,
                SenderNotLost, queues, Goto, TypeProcs, SendArmed
  <2>7. ASSUME NEW mode \in Modes, NEW tag \in BOOLEAN,
               Treset(p, mode, tag) \/ TresetResume(p, mode, tag)
        PROVE SenderNotLost'
    BY <2>7 DEF Treset, TresetResume, TresetEnd, SenderNotLost, mrp_reset,
                ResetFlags, If, Goto, TypeProcs
  <2>8. ASSUME NEW mode \in Modes, TresetNoMemory(p, mode) \/ TresetSleep(p, mode)
                 \/ TresetFault(p, mode)
        PROVE SenderNotLost'
    BY <2>8 DEF TresetNoMemory, TresetSleep, TresetFault, SenderNotLost, queues, Goto,
                TypeProcs
  <2>9. CASE FlushRecv(p) \/ FlushSend(p) \/ Sync(p)
    BY <2>9 DEF FlushRecv, FlushSend, Sync, SenderNotLost, If, SyncLoop, queues,
                local, Goto, TypeProcs, SendArmed
  <2>10. ASSUME NEW d \in {"in", "out"},
                SelectPoll(p, d) \/ SelectWait(p, d) \/ SelectCheck(p, d)
                  \/ SelectResume(p, d)
         PROVE SenderNotLost'
    BY <2>10 DEF SelectPoll, SelectWait, SelectCheck, SelectResume, SenderNotLost,
                 Ready, SelAdd, SelChk, SelSleep, Enqueue, Dequeue, Queue, queues,
                 Goto, TypeProcs, SendArmed
  <2>11. CASE Interrupted(p)
    BY <2>11 DEF Interrupted, SenderNotLost, Dequeue, Goto, TypeProcs
  <2> QED BY <1>6, <2>1, <2>2, <2>3, <2>4, <2>5, <2>6, <2>7, <2>8, <2>9, <2>10,
             <2>11 DEF FileOp
<1> QED BY <1>1, <1>2, <1>3, <1>4, <1>5, <1>6 DEF Next

\* A freed or incomplete image has its writer: preserved by every step.
LEMMA ImageWholeStep ==
    TypeUnit /\ TypeProcs /\ ImageWhole /\ [Next]_vars => ImageWhole'
<1> SUFFICES ASSUME TypeUnit, TypeProcs, ImageWhole, [Next]_vars
             PROVE  ImageWhole'
  OBVIOUS
<1>1. CASE UNCHANGED vars
  BY <1>1 DEF vars, ImageWhole, TypeUnit, TypeProcs
<1>2. CASE BoardSends \/ BoardDrain \/ BoardBoots
  BY <1>2 DEF BoardSends, BoardSend, BoardDrain, BoardBoots, BoardBoot,
              ImageWhole, TypeUnit, TypeProcs, local
<1>3. CASE Wake
  BY <1>3 DEF Wake, ImageWhole, TypeUnit, TypeProcs, local
<1>4. CASE Recv
  BY <1>4 DEF Recv, mrp_recv, ImageWhole, TypeUnit, TypeProcs, local
<1>5. CASE Bootp
  BY <1>5 DEF Bootp, ImageWhole, TypeUnit, TypeProcs, local
<1>6. ASSUME NEW p \in Procs, FileOp(p) PROVE ImageWhole'
  <2>1. CASE \E bit \in OpenBits : Open(p, bit) \/ Release(p, bit)
    BY <2>1 DEF Open, Release, LoadFlags, ImageWhole, TypeUnit, TypeProcs,
                Goto
  <2>2. CASE StoreFlags(p)
    BY <2>2 DEF StoreFlags, ImageWhole, TypeUnit, TypeProcs, Goto
  <2>3. CASE ReadSample(p) \/ Spin(p)
    BY <2>3 DEF ReadSample, Spin, vars, ImageWhole, TypeUnit, TypeProcs,
                Goto
  <2>4. CASE ReadSpins(p)
    BY <2>4 DEF ReadSpins, ImageWhole, TypeUnit, TypeProcs, Goto
  <2>5. CASE Read(p) \/ ReadResume(p)
    <3>1. buf' = buf /\ \E l : Goto(p, l)
      BY <2>5 DEF Read, ReadResume, ReadDone
    <3>2. pc[p] \in {"rd", "rdcopy"}
      BY <2>5 DEF Read, ReadResume
    <3> QED BY <3>1, <3>2 DEF ImageWhole, TypeUnit, TypeProcs, Goto
  <2>6. CASE WriteStart(p) \/ WriteResume(p) \/ WriteCopied(p)
    BY <2>6 DEF WriteStart, WriteResume, WriteCopied, WriteLoop, PutPacket,
                ImageWhole, TypeUnit, TypeProcs, Goto
  <2>7. ASSUME NEW mode \in Modes, NEW tag \in BOOLEAN,
               Treset(p, mode, tag) \/ TresetResume(p, mode, tag)
        PROVE ImageWhole'
    BY <2>7 DEF Treset, TresetResume, TresetEnd, ImageWhole, TypeUnit,
                TypeProcs, Goto, Writing, ImageOf
  <2>8. ASSUME NEW mode \in Modes, TresetNoMemory(p, mode) \/ TresetSleep(p, mode)
                 \/ TresetFault(p, mode)
        PROVE ImageWhole'
    BY <2>8 DEF TresetNoMemory, TresetSleep, TresetFault, ImageWhole, TypeUnit,
                TypeProcs, Goto, Writing, ImageOf
  <2>9. CASE FlushRecv(p) \/ FlushSend(p) \/ Sync(p)
    BY <2>9 DEF FlushRecv, FlushSend, Sync, ImageWhole, TypeUnit,
                TypeProcs, Goto, local, SyncLoop
  <2>10. ASSUME NEW d \in {"in", "out"},
                SelectPoll(p, d) \/ SelectWait(p, d) \/ SelectCheck(p, d)
                  \/ SelectResume(p, d)
         PROVE ImageWhole'
    BY <2>10 DEF SelectPoll, SelectWait, SelectCheck, SelectResume,
                 ImageWhole, TypeUnit, TypeProcs, Goto, SelAdd, SelChk,
                 SelSleep
  <2>11. CASE Interrupted(p)
    BY <2>11 DEF Interrupted, ImageWhole, TypeUnit, TypeProcs, Goto,
                 Dequeue
  <2> QED BY <1>6, <2>1, <2>2, <2>3, <2>4, <2>5, <2>6, <2>7, <2>8, <2>9, <2>10,
             <2>11 DEF FileOp
<1> QED BY <1>1, <1>2, <1>3, <1>4, <1>5, <1>6 DEF Next

\* Putting a frame when the driver is idle, or owning up to it when it is not.
LEMMA PutExclusive ==
    ASSUME TypeBoard, TxExclusive, NEW e, tx' = Append(tx, e), "SBUSY" \in flags',
           taint \ {"masked"} \subseteq taint',
           "SBUSY" \in flags => taint' \cap SendTaint # {}
    PROVE  TxExclusive'
<1> SUFFICES ASSUME taint' \cap (SendTaint \cup {"stale"}) = {}
             PROVE  Len(tx') <= 1
  BY DEF TxExclusive
<1>1. "SBUSY" \notin flags /\ taint \cap (SendTaint \cup {"stale"}) = {}
  BY DEF SendTaint
<1>2. tx = <<>>
  BY <1>1 DEF TxExclusive
<1> QED BY <1>2, AppendFacts DEF TypeBoard

\* One frame in the send FIFO: preserved by every step.
LEMMA TxExclusiveStep ==
    TypeBoard /\ TxExclusive /\ [Next]_vars => TxExclusive'
<1> SUFFICES ASSUME TypeBoard, TxExclusive, [Next]_vars PROVE TxExclusive'
  OBVIOUS
<1>1. CASE UNCHANGED vars
  BY <1>1 DEF vars, TxExclusive, TypeBoard
<1>2. CASE BoardSends \/ BoardBoots
  BY <1>2 DEF BoardSends, BoardSend, BoardBoots, BoardBoot, TxExclusive
<1>2a. CASE BoardDrain
  BY <1>2a DEF BoardDrain, TxExclusive, TypeBoard
<1>3. CASE Wake
  BY <1>3 DEF Wake, TxExclusive, TypeBoard, hw, SendTaint, Stat, Ist
<1>4. CASE Recv
  BY <1>4 DEF Recv, mrp_recv, TxExclusive, TypeBoard, SendTaint, Stat, Ist
<1>5. CASE Bootp
  BY <1>5 DEF Bootp, TxExclusive, TypeBoard, If, SendTaint
<1>6. ASSUME NEW p \in Procs, FileOp(p) PROVE TxExclusive'
  <2>1. CASE \E bit \in OpenBits : Open(p, bit) \/ Release(p, bit)
    BY <2>1 DEF Open, Release, LoadFlags, TxExclusive, TypeBoard, hw
  <2>2. CASE StoreFlags(p)
    BY <2>2 DEF StoreFlags, TxExclusive, TypeBoard, hw, If, OpenBits, SendTaint
  <2>3. CASE ReadSample(p) \/ Spin(p)
    BY <2>3 DEF ReadSample, Spin, vars, TxExclusive, TypeBoard, hw
  <2>4. CASE ReadSpins(p)
    BY <2>4, PutExclusive DEF ReadSpins, Tagged, TagTx, TagFlags, TagTaint, If,
                              SendTaint
  <2>5. CASE Read(p)
    <3>1. CASE Tagged
      BY <2>5, <3>1, PutExclusive DEF Read, ReadDone, Tagged, TagTx, TagFlags,
                                      TagTaint, If, SendTaint
    <3>2. CASE ~Tagged
      BY <2>5, <3>2 DEF Read, ReadDone, TagTx, TagFlags, TagTaint, If, SendTaint,
                        TxExclusive
    <3> QED BY <3>1, <3>2
  <2>5a. CASE ReadResume(p)
    BY <2>5a DEF ReadResume, ReadDone, hw, TxExclusive, SendTaint
  <2>6. CASE WriteStart(p) \/ WriteResume(p)
    <3>1. CASE PutPacket /\ "SBUSY" \notin flags
      BY <2>6, <3>1, PutExclusive DEF WriteStart, WriteResume, PutPacket
    <3>2. CASE UNCHANGED <<flags, tx>>
      BY <2>6, <3>2 DEF WriteStart, WriteResume, TxExclusive
    <3> QED BY <2>6, <3>1, <3>2 DEF WriteStart, WriteResume, WriteLoop
  <2>6a. CASE WriteCopied(p)
    BY <2>6a, PutExclusive DEF WriteCopied, PutPacket, If, SendTaint
  <2>7. ASSUME NEW mode \in Modes, NEW tag \in BOOLEAN,
               Treset(p, mode, tag) \/ TresetResume(p, mode, tag)
        PROVE TxExclusive'
    BY <2>7 DEF Treset, TresetResume, TresetEnd, TxExclusive, TypeBoard,
                mrp_reset, ResetFlags, If
  <2>8. ASSUME NEW mode \in Modes, TresetNoMemory(p, mode) \/ TresetSleep(p, mode)
                 \/ TresetFault(p, mode)
        PROVE TxExclusive'
    BY <2>8 DEF TresetNoMemory, TresetSleep, TresetFault, TxExclusive, TypeBoard, hw
  <2>9. CASE FlushRecv(p) \/ FlushSend(p) \/ Sync(p)
    BY <2>9 DEF FlushRecv, FlushSend, Sync, TxExclusive, TypeBoard, hw, If,
                SendTaint
  <2>10. ASSUME NEW d \in {"in", "out"},
                SelectPoll(p, d) \/ SelectWait(p, d) \/ SelectCheck(p, d)
                  \/ SelectResume(p, d)
         PROVE TxExclusive'
    BY <2>10 DEF SelectPoll, SelectWait, SelectCheck, SelectResume, TxExclusive,
                 TypeBoard, hw
  <2>11. CASE Interrupted(p)
    BY <2>11 DEF Interrupted, TxExclusive, TypeBoard, hw
  <2> QED BY <1>6, <2>1, <2>2, <2>3, <2>4, <2>5, <2>5a, <2>6, <2>6a, <2>7, <2>8, <2>9,
             <2>10, <2>11 DEF FileOp
<1> QED BY <1>1, <1>2, <1>2a, <1>3, <1>4, <1>5, <1>6 DEF Next

\* StoreExact is preserved by every step.
LEMMA StoreExactStep ==
    TypeProcs /\ StoreExact /\ [Next]_vars => StoreExact'
<1> SUFFICES ASSUME TypeProcs, StoreExact, [Next]_vars PROVE StoreExact'
  OBVIOUS
<1>1. CASE UNCHANGED vars
  BY <1>1 DEF vars, StoreExact, TypeProcs
<1>2. CASE BoardSends \/ BoardDrain \/ BoardBoots
  BY <1>2 DEF BoardSends, BoardSend, BoardDrain, BoardBoots, BoardBoot,
              StoreExact, TypeProcs, local
<1>3. CASE Wake
  BY <1>3 DEF Wake, StoreExact, TypeProcs, local
<1>4. CASE Recv
  BY <1>4 DEF Recv, mrp_recv, StoreExact, TypeProcs, local
<1>5. CASE Bootp
  BY <1>5 DEF Bootp, StoreExact, TypeProcs, local
<1>6. ASSUME NEW p \in Procs, FileOp(p) PROVE StoreExact'
  <2>1. ASSUME NEW bit \in OpenBits, Open(p, bit) \/ Release(p, bit)
        PROVE  StoreExact'
    <3>1. \A q \in Procs : pc[q] # "store"
      BY ConstAssumption, <2>1 DEF Open, Release, LoadFlags, CpuFree, StoreExact
    <3>2. "REQTAG" \in tmp'[p] <=> "REQTAG" \in flags'
      BY <2>1 DEF Open, Release, LoadFlags, OpenBits, TypeProcs
    <3> QED BY <2>1, <3>1, <3>2 DEF StoreExact, Open, Release, LoadFlags, Goto,
                                    TypeProcs
  <2>2. CASE StoreFlags(p)
    BY ConstAssumption, <2>2 DEF StoreFlags, StoreExact, TypeProcs, Goto
  <2>3. CASE ReadSample(p) \/ Spin(p)
    BY ConstAssumption, <2>3 DEF ReadSample, Spin, vars, StoreExact, TypeProcs,
                                 Goto, CpuFree
  <2>4. CASE ReadSpins(p)
    BY ConstAssumption, <2>4 DEF ReadSpins, StoreExact, TypeProcs, Goto, TagFlags,
                                 TagIer, TagTaint
  <2>5. CASE Read(p) \/ ReadResume(p)
    <3>1. \A q \in Procs : pc[q] # "store"
      BY ConstAssumption, <2>5 DEF Read, ReadResume, CpuFree, StoreExact
    <3>2. \A q \in Procs : pc'[q] # "store"
      BY <2>5, <3>1 DEF Read, ReadResume, ReadDone, Goto, TypeProcs
    <3> QED BY <3>2 DEF StoreExact
  <2>6. CASE WriteStart(p) \/ WriteResume(p) \/ WriteCopied(p)
    BY ConstAssumption, <2>6 DEF WriteStart, WriteResume, WriteCopied, WriteLoop,
                                 PutPacket, StoreExact, TypeProcs, Goto, CpuFree
  <2>7. ASSUME NEW mode \in Modes, NEW tag \in BOOLEAN,
               Treset(p, mode, tag) \/ TresetResume(p, mode, tag)
        PROVE StoreExact'
    BY ConstAssumption, <2>7 DEF Treset, TresetResume, TresetEnd, StoreExact,
                                 TypeProcs, Goto, CpuFree, mrp_reset, ResetFlags,
                                 If
  <2>8. ASSUME NEW mode \in Modes, TresetNoMemory(p, mode) \/ TresetSleep(p, mode)
                 \/ TresetFault(p, mode)
        PROVE StoreExact'
    BY ConstAssumption, <2>8 DEF TresetNoMemory, TresetSleep, TresetFault, StoreExact,
                                 TypeProcs, Goto, CpuFree
  <2>9. CASE FlushRecv(p) \/ FlushSend(p) \/ Sync(p)
    BY ConstAssumption, <2>9 DEF FlushRecv, FlushSend, Sync, StoreExact,
                                 TypeProcs, Goto, local, CpuFree, SyncLoop
  <2>10. ASSUME NEW d \in {"in", "out"},
                SelectPoll(p, d) \/ SelectWait(p, d) \/ SelectCheck(p, d)
                  \/ SelectResume(p, d)
         PROVE StoreExact'
    BY ConstAssumption, <2>10 DEF SelectPoll, SelectWait, SelectCheck,
                                  SelectResume, StoreExact, TypeProcs, Goto,
                                  CpuFree, SelAdd, SelChk, SelSleep
  <2>11. CASE Interrupted(p)
    BY ConstAssumption, <2>11 DEF Interrupted, StoreExact, TypeProcs, Goto,
                                  CpuFree
  <2> QED BY <1>6, <2>1, <2>2, <2>3, <2>4, <2>5, <2>6, <2>7, <2>8, <2>9, <2>10,
             <2>11 DEF FileOp
<1> QED BY <1>1, <1>2, <1>3, <1>4, <1>5, <1>6 DEF Next

\* No sleeper in select is lost: preserved by every step.
LEMMA SelectNotLostStep ==
    TypeProcs /\ StoreExact /\ TagSeen /\ SelectNotLost /\ [Next]_vars
        => (TagSeen /\ SelectNotLost)'
<1> SUFFICES ASSUME TypeProcs, StoreExact, TagSeen, SelectNotLost, [Next]_vars
             PROVE  (TagSeen /\ SelectNotLost)'
  OBVIOUS
<1>1. CASE UNCHANGED vars
  BY <1>1 DEF vars, SelectNotLost, TagSeen, TypeProcs, Ready
<1>2. CASE BoardSends \/ BoardDrain \/ BoardBoots
  BY <1>2 DEF BoardSends, BoardSend, BoardDrain, BoardBoots, BoardBoot,
              SelectNotLost, TagSeen, TypeProcs, Ready, queues, local
<1>3. CASE Wake
  BY <1>3 DEF Wake, SelectNotLost, TagSeen, TypeProcs, Ready, local, SendTaint
<1>4. CASE Recv
  BY <1>4 DEF Recv, mrp_recv, SelectNotLost, TagSeen, TypeProcs, Ready, local,
              SendTaint
<1>5. CASE Bootp
  BY <1>5 DEF Bootp, SelectNotLost, TagSeen, TypeProcs, Ready, local, If
<1>6. ASSUME NEW p \in Procs, FileOp(p) PROVE (TagSeen /\ SelectNotLost)'
  <2>1. CASE \E bit \in OpenBits : Open(p, bit) \/ Release(p, bit)
    BY <2>1 DEF Open, Release, LoadFlags, SelectNotLost, TagSeen, TypeProcs, Goto,
                Ready, queues
  <2>2. CASE StoreFlags(p)
    BY <2>2 DEF StoreFlags, SelectNotLost, TagSeen, TypeProcs, Goto, Ready,
                queues, StoreExact, If, OpenBits
  <2>3. CASE ReadSample(p) \/ Spin(p)
    BY <2>3 DEF ReadSample, Spin, vars, SelectNotLost, TagSeen, TypeProcs, Goto,
                Ready, queues
  <2>4. CASE ReadSpins(p)
    BY <2>4 DEF ReadSpins, SelectNotLost, TagSeen, TypeProcs, Goto, Ready, queues,
                TagFlags, TagIer, TagTaint, If
  <2>5. CASE Read(p) \/ ReadResume(p)
    BY <2>5 DEF Read, ReadResume, ReadDone, SelectNotLost, TagSeen, TypeProcs,
                Goto, Ready, queues, TagFlags, TagIer, TagTaint, If
  <2>6. CASE WriteStart(p) \/ WriteResume(p) \/ WriteCopied(p)
    BY <2>6 DEF WriteStart, WriteResume, WriteCopied, WriteLoop, PutPacket,
                SelectNotLost, TagSeen, TypeProcs, Goto, Ready, queues, If
  <2>7. ASSUME NEW mode \in Modes, NEW tag \in BOOLEAN,
               Treset(p, mode, tag) \/ TresetResume(p, mode, tag)
        PROVE (TagSeen /\ SelectNotLost)'
    BY <2>7 DEF Treset, TresetResume, TresetEnd, SelectNotLost, TagSeen,
                TypeProcs, Goto, Ready, mrp_reset, ResetFlags, If
  <2>8. ASSUME NEW mode \in Modes, TresetNoMemory(p, mode) \/ TresetSleep(p, mode)
                 \/ TresetFault(p, mode)
        PROVE (TagSeen /\ SelectNotLost)'
    BY <2>8 DEF TresetNoMemory, TresetSleep, TresetFault, SelectNotLost, TagSeen,
                TypeProcs,
                Goto, Ready, queues
  <2>9. CASE FlushRecv(p) \/ FlushSend(p) \/ Sync(p)
    BY <2>9 DEF FlushRecv, FlushSend, Sync, SelectNotLost, TagSeen, TypeProcs,
                Goto, Ready, queues, local, If, SyncLoop
  <2>10. ASSUME NEW d \in {"in", "out"},
                SelectPoll(p, d) \/ SelectWait(p, d) \/ SelectCheck(p, d)
                  \/ SelectResume(p, d)
         PROVE (TagSeen /\ SelectNotLost)'
    BY <2>10 DEF SelectPoll, SelectWait, SelectCheck, SelectResume, SelectNotLost,
                 TagSeen, TypeProcs, Goto, Ready, queues, SelAdd, SelChk,
                 SelSleep, Enqueue, Dequeue, Queue
  <2>11. CASE Interrupted(p)
    BY <2>11 DEF Interrupted, SelectNotLost, TagSeen, TypeProcs, Goto, Ready,
                 Dequeue
  <2> QED BY <1>6, <2>1, <2>2, <2>3, <2>4, <2>5, <2>6, <2>7, <2>8, <2>9, <2>10,
             <2>11 DEF FileOp
<1> QED BY <1>1, <1>2, <1>3, <1>4, <1>5, <1>6 DEF Next

----------------------------------------------------------------------------
(* Numbering: Numbered and SentOnce, RxOrder, Sampling and Unread.          *)

\* REQTAG, once set, stays.
LEMMA TagStays ==
    ASSUME StoreExact, [Next]_vars, "REQTAG" \in flags
    PROVE  "REQTAG" \in flags'
<1>1. CASE UNCHANGED flags \/ Wake \/ Recv \/ Bootp
  BY <1>1 DEF Wake, Recv, mrp_recv, Bootp
<1>2. ASSUME NEW p \in Procs, StoreFlags(p) PROVE "REQTAG" \in flags'
  BY <1>2 DEF StoreFlags, StoreExact
<1>3. ASSUME NEW p \in Procs, ReadSpins(p) \/ Read(p) \/ ReadResume(p)
      PROVE  "REQTAG" \in flags'
  BY <1>3 DEF ReadSpins, Read, ReadResume, ReadDone, TagFlags
<1>4. ASSUME NEW p \in Procs, \/ WriteStart(p) \/ WriteResume(p) \/ WriteCopied(p)
                              \/ FlushRecv(p) \/ FlushSend(p)
      PROVE  "REQTAG" \in flags'
  BY <1>4 DEF WriteStart, WriteResume, WriteCopied, WriteLoop, PutPacket, FlushRecv,
              FlushSend
<1>5. ASSUME NEW p \in Procs, NEW mode \in Modes, NEW tag \in BOOLEAN,
             Treset(p, mode, tag) \/ TresetResume(p, mode, tag)
      PROVE  "REQTAG" \in flags'
  BY <1>5 DEF Treset, TresetResume, TresetEnd, ResetFlags
<1> QED BY <1>1, <1>2, <1>3, <1>4, <1>5, UnitSteps

\* What becomes of the send FIFO in one step: nothing, a frame drained, a packet
\* put under the next number, the last packet put once more for a tagged
\* reader, or everything cleared and an image put.
LEMMA TxSteps ==
    ASSUME TypeOK, [Next]_vars
    PROVE  \/ UNCHANGED <<tx, lastGot, out, nWr>>
           \/ BoardDrain
           \/ PutPacket /\ lastGot' = lastGot
           \/ /\ Tagged /\ tx' = Append(tx, OutFrame) /\ "REQTAG" \in flags'
              /\ UNCHANGED <<lastGot, out, nWr>>
           \/ /\ tx' = <<>> \/ \E b : tx' = <<ImageFrame(b)>>
              /\ UNCHANGED <<lastGot, out, nWr>>
<1>1. CASE UNCHANGED vars
  BY <1>1 DEF vars
<1>2. CASE BoardSends \/ BoardBoots
  BY <1>2 DEF BoardSends, BoardSend, BoardBoots, BoardBoot, hist
<1>3. CASE Wake \/ Recv
  BY <1>3 DEF Wake, Recv, hw, hist, count
<1>4. CASE Bootp
  BY <1>4 DEF Bootp, hist, count
<1>5. ASSUME NEW p \in Procs, FileOp(p)
      PROVE  \/ UNCHANGED <<tx, lastGot, out, nWr>>
             \/ PutPacket /\ lastGot' = lastGot
             \/ /\ Tagged /\ tx' = Append(tx, OutFrame) /\ "REQTAG" \in flags'
                /\ UNCHANGED <<lastGot, out, nWr>>
             \/ tx' = <<>> /\ UNCHANGED <<lastGot, out, nWr>>
  <2>1. CASE \E bit \in OpenBits : Open(p, bit) \/ Release(p, bit)
    BY <2>1 DEF Open, Release, LoadFlags, hw, hist, count
  <2>2. CASE StoreFlags(p) \/ ReadSample(p) \/ Spin(p)
    BY <2>2 DEF StoreFlags, ReadSample, Spin, vars, hw, hist, count
  <2>3. CASE ReadSpins(p) \/ Read(p)
    BY <2>3 DEF ReadSpins, Read, ReadDone, TagTx, TagFlags, Tagged, hist, count
  <2>4. CASE ReadResume(p)
    BY <2>4 DEF ReadResume, hw, count
  <2>5. CASE WriteStart(p) \/ WriteResume(p) \/ WriteCopied(p)
    BY <2>5 DEF WriteStart, WriteResume, WriteCopied, WriteLoop, hist
  <2>6. ASSUME NEW mode \in Modes, NEW tag \in BOOLEAN,
               Treset(p, mode, tag) \/ TresetResume(p, mode, tag)
        PROVE  (tx' = tx \/ tx' = <<>>) /\ UNCHANGED <<lastGot, out, nWr>>
    BY <2>6 DEF Treset, TresetResume, TresetEnd, mrp_reset, hist, count
  <2>7. ASSUME NEW mode \in Modes, TresetNoMemory(p, mode) \/ TresetSleep(p, mode)
                 \/ TresetFault(p, mode)
        PROVE  UNCHANGED <<tx, lastGot, out, nWr>>
    BY <2>7 DEF TresetNoMemory, TresetSleep, TresetFault, hw, hist
  <2>8. CASE FlushRecv(p) \/ FlushSend(p) \/ Sync(p) \/ Interrupted(p)
    BY <2>8 DEF FlushRecv, FlushSend, Sync, Interrupted, hw, hist, count
  <2>9. ASSUME NEW d \in {"in", "out"},
               SelectPoll(p, d) \/ SelectWait(p, d) \/ SelectCheck(p, d)
                 \/ SelectResume(p, d)
        PROVE  UNCHANGED <<tx, lastGot, out, nWr>>
    BY <2>9 DEF SelectPoll, SelectWait, SelectCheck, SelectResume, hw, hist, count
  <2> QED BY <1>5, <2>1, <2>2, <2>3, <2>4, <2>5, <2>6, <2>7, <2>8, <2>9 DEF FileOp
<1> QED BY <1>1, <1>2, <1>3, <1>4, <1>5 DEF Next

\* No written packet is on its way twice: preserved by every step.
LEMMA SentOnceStep ==
    TypeOK /\ StoreExact /\ Numbered /\ SentOnce /\ [Next]_vars
        => Numbered' /\ SentOnce'
<1> SUFFICES ASSUME TypeOK, StoreExact, Numbered, SentOnce, [Next]_vars
             PROVE  Numbered' /\ SentOnce'
  OBVIOUS
<1>0. "REQTAG" \in flags => "REQTAG" \in flags'
  BY TagStays
<1>1. CASE UNCHANGED <<tx, lastGot, out, nWr>>
  BY <1>0, <1>1 DEF Numbered, SentOnce
<1>2. CASE BoardDrain
  <2>1. /\ Len(tx) \in Nat \ {0} /\ Len(tx') = Len(tx) - 1
        /\ \A j \in 1..Len(tx') : tx'[j] = tx[j + 1]
        /\ Head(tx) = tx[1]
    BY <1>2 DEF BoardDrain, TypeOK
  <2>2. lastGot' = IF tx[1].k = "data" THEN tx[1].id ELSE lastGot
    BY <1>2, <2>1 DEF BoardDrain
  <2>3. UNCHANGED <<flags, out, nWr>>
    BY <1>2 DEF BoardDrain, count
  <2>4. Numbered'
    BY <2>1, <2>2, <2>3 DEF Numbered
  <2>5. ASSUME "REQTAG" \notin flags', NEW j \in 1..Len(tx'), tx'[j].k = "data"
        PROVE  /\ tx'[j].id > lastGot'
               /\ \A i \in 1..(j - 1) : tx'[i].k = "data" => tx'[i].id < tx'[j].id
    <3>1. j + 1 \in 1..Len(tx) /\ tx[j + 1].k = "data" /\ 1 \in 1..j
      BY <2>1, <2>5
    <3>2. /\ tx[j + 1].id > lastGot
          /\ \A i \in 1..j : tx[i].k = "data" => tx[i].id < tx[j + 1].id
      BY <1>0, <2>5, <3>1 DEF SentOnce
    <3>3. tx[1].k = "data" => tx[1].id < tx[j + 1].id
      BY <3>1, <3>2
    <3>4. tx'[j].id > lastGot'
      BY <2>1, <2>2, <2>5, <3>2, <3>3
    <3>5. ASSUME NEW i \in 1..(j - 1), tx'[i].k = "data" PROVE tx'[i].id < tx'[j].id
      <4>1. i \in 1..Len(tx') /\ i + 1 \in 1..j
        BY <2>1, <2>5, <3>5
      <4> QED BY <2>1, <2>5, <3>2, <3>5, <4>1
    <3> QED BY <3>4, <3>5
  <2> QED BY <2>4, <2>5 DEF SentOnce
<1>3. CASE PutPacket /\ lastGot' = lastGot
  <2>1. /\ Len(tx) \in Nat /\ nWr \in Nat /\ Len(tx') = Len(tx) + 1
        /\ \A j \in 1..Len(tx) : tx'[j] = tx[j]
        /\ tx'[Len(tx) + 1] = DataFrame(nWr + 1)
    BY <1>3, AppendFacts, ConstAssumption DEF PutPacket, TypeOK
  <2>2. \A j \in 1..Len(tx) : tx[j] \in Sent
    BY DEF TypeOK
  <2>3. DataFrame(nWr + 1).id = nWr + 1
    BY DEF DataFrame
  <2>4. lastGot \in Nat /\ \A j \in 1..Len(tx) : tx[j].id \in Nat
    <3>1. \A e \in Sent : e.id \in Nat
      BY ConstAssumption DEF Sent
    <3>2. lastGot \in Nat
      BY ConstAssumption DEF TypeOK
    <3> QED BY <2>2, <3>1, <3>2
  <2>5. out' = nWr + 1 /\ nWr' = nWr + 1
    BY <1>3 DEF PutPacket
  <2>6. Numbered'
    <3>1. \A j \in 1..Len(tx') : j \in 1..Len(tx) \/ j = Len(tx) + 1
      BY <2>1
    <3>2. \A j \in 1..Len(tx) : tx[j].id <= nWr + 1
      BY <2>1, <2>4 DEF Numbered
    <3>3. \A j \in 1..Len(tx') : tx'[j].id <= nWr + 1
      BY <2>1, <2>3, <3>1, <3>2
    <3> QED BY <1>3, <2>1, <2>4, <2>5, <3>3 DEF Numbered
  <2>7. ASSUME "REQTAG" \notin flags', NEW j \in 1..Len(tx'), tx'[j].k = "data"
        PROVE  /\ tx'[j].id > lastGot'
               /\ \A i \in 1..(j - 1) : tx'[i].k = "data" => tx'[i].id < tx'[j].id
    <3>1. CASE j \in 1..Len(tx)
      <4>1. tx'[j] = tx[j] /\ \A i \in 1..(j - 1) : i \in 1..Len(tx) /\ tx'[i] = tx[i]
        BY <2>1, <3>1
      <4>2. /\ tx[j].id > lastGot
            /\ \A i \in 1..(j - 1) : tx[i].k = "data" => tx[i].id < tx[j].id
        BY <1>0, <2>7, <3>1, <4>1 DEF SentOnce
      <4> QED BY <1>3, <4>1, <4>2
    <3>2. CASE j = Len(tx) + 1
      BY <1>3, <2>1, <2>3, <2>4, <3>2 DEF Numbered
    <3> QED BY <2>1, <3>1, <3>2
  <2> QED BY <2>6, <2>7 DEF SentOnce
<1>4. CASE /\ Tagged /\ tx' = Append(tx, OutFrame) /\ "REQTAG" \in flags'
           /\ UNCHANGED <<lastGot, out, nWr>>
  <2>1. /\ Len(tx) \in Nat /\ nWr \in Nat /\ Len(tx') = Len(tx) + 1
        /\ \A j \in 1..Len(tx) : tx'[j] = tx[j]
        /\ tx'[Len(tx) + 1] = OutFrame
    BY <1>4, AppendFacts, ConstAssumption DEF TypeOK
  <2>2. OutFrame.id <= nWr
    BY <2>1 DEF OutFrame, Other, DataFrame, Numbered
  <2>3. Numbered'
    BY <1>4, <2>1, <2>2 DEF Numbered
  <2> QED BY <1>4, <2>3 DEF SentOnce
<1>5. CASE /\ tx' = <<>> \/ \E b : tx' = <<ImageFrame(b)>>
           /\ UNCHANGED <<lastGot, out, nWr>>
  <2>1. nWr \in Nat
    BY ConstAssumption DEF TypeOK
  <2>2. \A j \in 1..Len(tx') : j = 1 /\ tx'[j].k # "data" /\ tx'[j].id = 0
    <3>1. \A b : ImageFrame(b).k # "data" /\ ImageFrame(b).id = 0
      BY DEF ImageFrame, Other
    <3>2. CASE tx' = <<>>
      BY <3>2
    <3>3. ASSUME NEW f, f.k # "data", f.id = 0, tx' = <<f>>
          PROVE  \A j \in 1..Len(tx') : j = 1 /\ tx'[j].k # "data" /\ tx'[j].id = 0
      BY <3>3
    <3> QED BY <1>5, <3>1, <3>2, <3>3
  <2> QED BY <1>5, <2>1, <2>2 DEF Numbered, SentOnce
<1> QED BY <1>1, <1>2, <1>3, <1>4, <1>5, TxSteps

\* What one step does to the receive FIFO and recvbuf: nothing, a frame added
\* under the next number, a scan, or everything cleared.
LEMMA RxSteps ==
    ASSUME TypeOK, [Next]_vars
    PROVE  \/ UNCHANGED <<rx, rbuf, nRx>>
           \/ BoardSends
           \/ /\ rx # <<>> /\ UNCHANGED <<lastRead, nRx>>
              /\ \E k \in 0..Len(rx) : /\ rbuf' = Stored(k)
                                       /\ rx' = SubSeq(rx, k + 2, Len(rx))
           \/ rx' = <<>> /\ UNCHANGED <<rbuf, lastRead, nRx>>
<1>1. CASE UNCHANGED vars
  BY <1>1 DEF vars
<1>2. CASE BoardDrain \/ BoardBoots
  BY <1>2 DEF BoardDrain, BoardBoots, BoardBoot, count
<1>3. CASE Wake
  BY <1>3 DEF Wake, hw, count
<1>4. CASE Recv
  <2>1. rx # <<>> /\ UNCHANGED <<lastRead, nRx>>
    BY <1>4 DEF Recv, Stat, Ist, hist, count
  <2> QED BY <1>4, <2>1 DEF Recv, mrp_recv
<1>5. CASE Bootp
  BY <1>5 DEF Bootp, hist, count
<1>6. ASSUME NEW p \in Procs, FileOp(p)
      PROVE  \/ UNCHANGED <<rx, rbuf, nRx>>
             \/ rx' = <<>> /\ UNCHANGED <<rbuf, lastRead, nRx>>
  <2>1. CASE \E bit \in OpenBits : Open(p, bit) \/ Release(p, bit)
    BY <2>1 DEF Open, Release, LoadFlags, hw, count
  <2>2. CASE StoreFlags(p) \/ ReadSample(p) \/ Spin(p)
    BY <2>2 DEF StoreFlags, ReadSample, Spin, vars, hw, count
  <2>3. CASE ReadSpins(p) \/ Read(p) \/ ReadResume(p)
    BY <2>3 DEF ReadSpins, Read, ReadResume, hw, count
  <2>4. CASE WriteStart(p) \/ WriteResume(p) \/ WriteCopied(p)
    BY <2>4 DEF WriteStart, WriteResume, WriteCopied
  <2>5. ASSUME NEW mode \in Modes, NEW tag \in BOOLEAN,
               Treset(p, mode, tag) \/ TresetResume(p, mode, tag)
        PROVE  (rx' = rx \/ rx' = <<>>) /\ UNCHANGED <<rbuf, lastRead, nRx>>
    BY <2>5 DEF Treset, TresetResume, TresetEnd, mrp_reset, hist, count
  <2>6. ASSUME NEW mode \in Modes, TresetNoMemory(p, mode) \/ TresetSleep(p, mode)
                 \/ TresetFault(p, mode)
        PROVE  UNCHANGED <<rx, rbuf, nRx>>
    BY <2>6 DEF TresetNoMemory, TresetSleep, TresetFault, hw
  <2>7. CASE FlushRecv(p) \/ FlushSend(p) \/ Sync(p) \/ Interrupted(p)
    BY <2>7 DEF FlushRecv, FlushSend, Sync, Interrupted, hw, count
  <2>8. ASSUME NEW d \in {"in", "out"},
               SelectPoll(p, d) \/ SelectWait(p, d) \/ SelectCheck(p, d)
                 \/ SelectResume(p, d)
        PROVE  UNCHANGED <<rx, rbuf, nRx>>
    BY <2>8 DEF SelectPoll, SelectWait, SelectCheck, SelectResume, hw, count
  <2> QED BY <1>6, <2>1, <2>2, <2>3, <2>4, <2>5, <2>6, <2>7, <2>8 DEF FileOp
<1> QED BY <1>1, <1>2, <1>3, <1>4, <1>5, <1>6 DEF Next

\* lastRead moves only when a reader returns the frame in recvbuf.
LEMMA LastReadSteps ==
    ASSUME [Next]_vars
    PROVE  \/ lastRead' = lastRead
           \/ \E p \in Procs : (Read(p) \/ ReadResume(p)) /\ lastRead' = rbuf.id
<1>1. CASE UNCHANGED vars
  BY <1>1 DEF vars
<1>2. CASE BoardSends \/ BoardDrain \/ BoardBoots
  BY <1>2 DEF BoardSends, BoardSend, BoardDrain, BoardBoots, BoardBoot, hist
<1>3. CASE Wake \/ Recv \/ Bootp
  BY <1>3 DEF Wake, Recv, Bootp, hist
<1>4. ASSUME NEW p \in Procs, FileOp(p), ~(Read(p) \/ ReadResume(p))
      PROVE  lastRead' = lastRead
  BY <1>4 DEF FileOp, Open, Release, LoadFlags, StoreFlags, ReadSample, ReadSpins,
              Spin, vars, WriteStart, WriteResume, WriteCopied, Treset,
              TresetNoMemory, TresetSleep, TresetFault, TresetResume, FlushRecv,
              FlushSend,
              Sync, SelectPoll, SelectWait, SelectCheck, SelectResume,
              Interrupted, hist
<1>5. ASSUME NEW p \in Procs, Read(p) \/ ReadResume(p)
      PROVE  lastRead' = lastRead \/ lastRead' = rbuf.id
  BY <1>5 DEF Read, ReadResume, ReadDone, Returned
<1> QED BY <1>1, <1>2, <1>3, <1>4, <1>5 DEF Next

\* The board's numbers grow along the receive path: preserved by every step.
LEMMA RxOrderStep == TypeOK /\ RxOrder /\ [Next]_vars => RxOrder'
<1> SUFFICES ASSUME TypeOK, RxOrder, [Next]_vars PROVE RxOrder'
  OBVIOUS
<1>1. /\ Len(rx) \in Nat /\ nRx \in Nat /\ lastRead \in Nat /\ rbuf.id \in Nat
      /\ \A j \in 1..Len(rx) : rx[j] \in Frames /\ rx[j].id \in Nat
  <2>1. \A f \in Frames : f.id \in Nat
    BY ConstAssumption DEF Frames
  <2> QED BY ConstAssumption, <2>1 DEF TypeOK
<1>2. CASE UNCHANGED <<rx, rbuf, nRx>>
  BY <1>1, <1>2, LastReadSteps DEF RxOrder
<1>3. ASSUME NEW kind, NEW size, BoardSend(kind, size),
             kind = "ok" => size \in 1..MaxPkt
      PROVE  RxOrder'
  <2> DEFINE e == [id |-> nRx + 1, kind |-> kind, size |-> size, skip |-> 0]
  <2>1. /\ Len(rx') = Len(rx) + 1 /\ rx'[Len(rx) + 1] = e
        /\ \A j \in 1..Len(rx) : rx'[j] = rx[j]
    BY <1>3, AppendFacts DEF BoardSend, TypeOK
  <2>2. nRx' = nRx + 1 /\ UNCHANGED <<rbuf, lastRead>>
    BY <1>3 DEF BoardSend, hist
  <2>3. e.id = nRx + 1 /\ (e.kind = "ok" => e.size \in 1..MaxPkt)
    BY <1>3
  <2> HIDE DEF e
  <2>4. \A j \in 1..Len(rx') : j \in 1..Len(rx) \/ (j = Len(rx) + 1 /\ rx'[j] = e)
    BY <1>1, <2>1
  <2>5. \A j \in 1..Len(rx') : rbuf'.id < rx'[j].id /\ rx'[j].id <= nRx'
    BY <1>1, <2>1, <2>2, <2>3, <2>4 DEF RxOrder
  <2>6. ASSUME NEW i \in 1..Len(rx'), NEW j \in 1..Len(rx'), i < j
        PROVE  rx'[i].id < rx'[j].id
    <3>1. i \in 1..Len(rx) /\ rx'[i] = rx[i]
      BY <1>1, <2>1, <2>6
    <3>2. CASE j \in 1..Len(rx)
      BY <2>1, <2>6, <3>1, <3>2 DEF RxOrder
    <3>3. CASE rx'[j] = e
      BY <1>1, <2>3, <3>1, <3>3 DEF RxOrder
    <3> QED BY <2>4, <3>2, <3>3
  <2>7. \A j \in 1..Len(rx') : rx'[j].kind = "ok" => rx'[j].size \in 1..MaxPkt
    BY <1>1, <2>1, <2>3, <2>4 DEF RxOrder
  <2> QED BY <1>1, <2>2, <2>5, <2>6, <2>7 DEF RxOrder
<1>4. CASE BoardSends
  BY ConstAssumption, <1>3, <1>4 DEF BoardSends
<1>5. ASSUME NEW k \in 0..Len(rx), rx # <<>>, rbuf' = Stored(k),
             rx' = SubSeq(rx, k + 2, Len(rx)), UNCHANGED <<lastRead, nRx>>
      PROVE  RxOrder'
  <2>1. Len(rx) # 0
    BY <1>5 DEF TypeOK
  <2> DEFINE Same(f, g) == f.id = g.id /\ f.kind = g.kind /\ f.size = g.size
  <2>0. Same(rbuf', Scanned(k))
    BY <1>5, ScanFacts, TypeParts
  <2>2. \E c \in 1..Len(rx) : /\ Same(rbuf', rx[c]) /\ Len(rx') = Len(rx) - c
                               /\ \A j \in 1..Len(rx') : rx'[j] = rx[j + c]
    <3>1. /\ k = Len(rx) => Len(rx') = 0
          /\ k < Len(rx) => Len(rx') = Len(rx) - (k + 1)
          /\ \A i \in 1..(Len(rx) - (k + 1)) : rx'[i] = rx[i + (k + 1)]
      BY <1>5, RestFacts DEF TypeOK
    <3>2. CASE k < Len(rx)
      <4>1. k + 1 \in 1..Len(rx) /\ Same(rbuf', rx[k + 1])
        BY <1>1, <2>0, <3>2 DEF Scanned
      <4> QED BY <3>1, <3>2, <4>1
    <3>3. CASE k = Len(rx)
      <4>1. k \in 1..Len(rx) /\ Same(rbuf', rx[k]) /\ Len(rx') = Len(rx) - k
        BY <1>1, <2>0, <2>1, <3>1, <3>3 DEF Scanned
      <4>2. \A j \in 1..Len(rx') : FALSE
        BY <3>1, <3>3
      <4> QED BY <4>1, <4>2
    <3>4. k < Len(rx) \/ k = Len(rx)
      BY <1>1
    <3> QED BY <3>2, <3>3, <3>4
  <2>3. PICK c \in 1..Len(rx) : /\ Same(rbuf', rx[c]) /\ Len(rx') = Len(rx) - c
                                /\ \A j \in 1..Len(rx') : rx'[j] = rx[j + c]
    BY <2>2
  <2>4. \A j \in 1..Len(rx') : j + c \in 1..Len(rx) /\ c < j + c
    BY <1>1, <2>3
  <2>5. lastRead' <= rbuf'.id /\ rbuf'.id <= nRx'
    BY <1>1, <1>5, <2>3 DEF RxOrder
  <2>6. \A j \in 1..Len(rx') : rbuf'.id < rx'[j].id /\ rx'[j].id <= nRx'
    BY <1>5, <2>3, <2>4 DEF RxOrder
  <2>7. ASSUME NEW i \in 1..Len(rx'), NEW j \in 1..Len(rx'), i < j
        PROVE  rx'[i].id < rx'[j].id
    <3>1. i + c < j + c /\ i + c \in 1..Len(rx) /\ j + c \in 1..Len(rx)
      BY <1>1, <2>3, <2>4, <2>7
    <3> QED BY <2>3, <2>7, <3>1 DEF RxOrder
  <2>8. \A j \in 1..Len(rx') : rx'[j].kind = "ok" => rx'[j].size \in 1..MaxPkt
    BY <2>3, <2>4 DEF RxOrder
  <2>9. rbuf'.kind = "ok" => rbuf'.size \in 1..MaxPkt
    BY <2>3 DEF RxOrder
  <2> QED BY <2>5, <2>6, <2>7, <2>8, <2>9 DEF RxOrder
<1>6. CASE rx' = <<>> /\ UNCHANGED <<rbuf, lastRead, nRx>>
  BY <1>6 DEF RxOrder
<1> QED BY <1>2, <1>4, <1>5, <1>6, RxSteps

\* Sampling is preserved by every step.
LEMMA SamplingStep == TypeOK /\ Sampling /\ [Next]_vars => Sampling'
<1> SUFFICES ASSUME TypeOK, Sampling, [Next]_vars PROVE Sampling'
  OBVIOUS
<1>1. ASSUME UNCHANGED <<pc, cpu>> PROVE Sampling'
  BY <1>1 DEF Sampling
<1>2. ASSUME NEW p \in Procs, NEW l, pc' = [pc EXCEPT ![p] = l],
             l = "rd" => cpu' = p, cpu \in {NoProc, p}
      PROVE  Sampling'
  BY ConstAssumption, <1>2 DEF Sampling, TypeOK
<1>3. CASE UNCHANGED vars
  BY <1>1, <1>3 DEF vars
<1>4. CASE BoardSends \/ BoardDrain \/ BoardBoots
  BY <1>1, <1>4 DEF BoardSends, BoardSend, BoardDrain, BoardBoots, BoardBoot,
                    local
<1>5. CASE Wake \/ Recv \/ Bootp
  BY <1>1, <1>5 DEF Wake, Recv, Bootp, local
<1>6. ASSUME NEW p \in Procs, FileOp(p) PROVE Sampling'
  <2>1. CASE \E bit \in OpenBits : Open(p, bit) \/ Release(p, bit)
    BY <1>2, <2>1 DEF Open, Release, LoadFlags, Goto, CpuFree
  <2>2. CASE StoreFlags(p) \/ ReadSample(p)
    BY <1>2, <2>2 DEF StoreFlags, ReadSample, Goto, CpuFree
  <2>3. CASE ReadSpins(p) \/ Read(p) \/ ReadResume(p)
    BY <1>2, <2>3 DEF ReadSpins, Read, ReadResume, ReadDone, Goto, CpuFree
  <2>4. CASE Spin(p) \/ FlushRecv(p) \/ FlushSend(p)
    BY <1>1, <2>4 DEF Spin, vars, FlushRecv, FlushSend, local
  <2>5. CASE WriteStart(p) \/ WriteResume(p) \/ WriteCopied(p)
    BY <1>2, <2>5 DEF WriteStart, WriteResume, WriteCopied, WriteLoop, Goto,
                      CpuFree
  <2>6. ASSUME NEW mode \in Modes, NEW tag \in BOOLEAN,
               Treset(p, mode, tag) \/ TresetResume(p, mode, tag)
        PROVE Sampling'
    BY <1>2, <2>6 DEF Treset, TresetResume, TresetEnd, Goto, CpuFree
  <2>7. ASSUME NEW mode \in Modes, TresetNoMemory(p, mode) \/ TresetSleep(p, mode)
                 \/ TresetFault(p, mode)
        PROVE Sampling'
    BY <1>2, <2>7 DEF TresetNoMemory, TresetSleep, TresetFault, Goto, CpuFree
  <2>8. CASE Sync(p) \/ Interrupted(p)
    BY <1>2, <2>8 DEF Sync, SyncLoop, Interrupted, Goto, CpuFree
  <2>9. ASSUME NEW d \in {"in", "out"},
               SelectPoll(p, d) \/ SelectWait(p, d) \/ SelectCheck(p, d)
                 \/ SelectResume(p, d)
        PROVE Sampling'
    BY <1>1, <1>2, <2>9 DEF SelectPoll, SelectWait, SelectCheck, SelectResume,
                            SelAdd, SelChk, SelSleep, Goto, CpuFree
  <2> QED BY <1>6, <2>1, <2>2, <2>3, <2>4, <2>5, <2>6, <2>7, <2>8, <2>9 DEF FileOp
<1> QED BY <1>3, <1>4, <1>5, <1>6 DEF Next

\* A packet that can still be read whole is unread: preserved by every step.
LEMMA UnreadStep ==
    TypeOK /\ RxOrder /\ Sampling /\ Unread /\ [Next]_vars => Unread'
<1> SUFFICES ASSUME TypeOK, RxOrder, Sampling, Unread, [Next]_vars PROVE Unread'
  OBVIOUS
<1> DEFINE Quiet == /\ UNCHANGED <<lastRead, rbuf>> /\ rlen' \in {0, rlen}
                    /\ "overlap" \in taint => "overlap" \in taint'
           Settled(q) == pc'[q] \in {"rd", "rdcopy"} =>
                           pc'[q] = pc[q] /\ len'[q] = len[q] /\ frm'[q] = frm[q]
<1>1. ASSUME Quiet, \A q \in Procs : Settled(q) PROVE Unread'
  BY <1>1 DEF Unread
<1>2. ASSUME NEW p \in Procs, NEW l, pc' = [pc EXCEPT ![p] = l],
             l \notin {"rd", "rdcopy"}, UNCHANGED <<len, frm>>, Quiet
      PROVE  Unread'
  BY <1>1, <1>2 DEF TypeOK
<1>3. CASE UNCHANGED vars
  BY <1>1, <1>3 DEF vars
<1>4. CASE BoardSends \/ BoardDrain \/ BoardBoots
  BY <1>1, <1>4 DEF BoardSends, BoardSend, BoardDrain, BoardBoots, BoardBoot,
                    local, hist
<1>5. CASE Wake \/ Bootp
  BY <1>1, <1>5 DEF Wake, Bootp, local, hist, SendTaint
<1>6. CASE Recv
  <2>1. UNCHANGED <<pc, len, frm, lastRead>>
    BY <1>6 DEF Recv, local, hist
  <2>2. "overlap" \in taint => "overlap" \in taint'
    BY <1>6 DEF Recv, SendTaint
  <2>3. CASE UNCHANGED <<rbuf, rlen>>
    BY <1>1, <2>1, <2>2, <2>3
  <2>4. CASE \E k \in 0..Len(rx) : rbuf' = Stored(k)
    <3>1. PICK k \in 0..Len(rx) : rbuf' = Stored(k)
      BY <2>4
    <3>2. Len(rx) \in Nat \ {0}
      BY <1>6 DEF Recv, Stat, Ist, TypeOK
    <3>3. PICK j \in 1..Len(rx) : rbuf'.id = rx[j].id
      <4>1. rbuf'.id = Scanned(k).id
        BY <3>1, <3>2, ScanFacts, TypeParts
      <4> QED BY <3>2, <4>1 DEF Scanned
    <3>4. lastRead \in Nat /\ rbuf.id \in Nat /\ rx[j].id \in Nat
      <4>1. \A f \in Frames : f.id \in Nat
        BY ConstAssumption DEF Frames
      <4> QED BY ConstAssumption, <4>1 DEF TypeOK
    <3>5. lastRead < rbuf'.id
      BY <3>3, <3>4 DEF RxOrder
    <3> QED BY <2>1, <2>2, <3>5 DEF Unread
  <2> QED BY <1>6, <2>3, <2>4 DEF Recv, mrp_recv
<1>7. ASSUME NEW p \in Procs, FileOp(p) PROVE Unread'
  <2>1. CASE \E bit \in OpenBits : Open(p, bit) \/ Release(p, bit)
    BY <1>2, <2>1 DEF Open, Release, LoadFlags, Goto, hist
  <2>2. CASE StoreFlags(p) \/ ReadSpins(p)
    BY <1>2, <2>2 DEF StoreFlags, ReadSpins, TagTaint, Goto, hist
  <2>3. CASE ReadSample(p)
    BY <2>3 DEF ReadSample, Goto, hist, TypeOK, Unread
  <2>4. CASE Read(p)
    <3> DEFINE Copies == \/ ReadDone(p, rbuf, TagFlags, TagIer)
                         \/ /\ frm' = [frm EXCEPT ![p] = rbuf]
                            /\ Goto(p, "rdcopy")
                            /\ UNCHANGED <<rlen, len, lastRead>>
    <3>1. CASE /\ len' = [len EXCEPT ![p] = 0] /\ Goto(p, "idle")
               /\ taint' = TagTaint /\ UNCHANGED <<rlen, frm, lastRead>>
      <4>1. rbuf' = rbuf
        BY <2>4 DEF Read
      <4> QED BY <1>1, <3>1, <4>1 DEF TagTaint, Goto, TypeOK
    <3>2. CASE /\ Copies
               /\ \/ taint' = (TagTaint \cup If(\E q \in Procs : pc[q] = "rdcopy",
                                                 "overlap")) \ {"masked"}
                  \/ taint' = TagTaint \cup If(\E q \in Procs : pc[q] = "rdcopy",
                                                "overlap")
      <4> SUFFICES ASSUME "overlap" \notin taint' PROVE Unread'
        BY DEF Unread
      <4>1. \A q \in Procs : pc[q] # "rdcopy"
        BY <3>2 DEF If
      <4>2. "overlap" \notin taint
        BY <3>2 DEF TagTaint
      <4>3. \A q \in Procs : pc[q] = "rd" => q = p
        BY <2>4 DEF Read, Sampling
      <4>4. rbuf' = rbuf /\ pc[p] = "rd"
        BY <2>4 DEF Read
      <4>5. CASE ReadDone(p, rbuf, TagFlags, TagIer)
        BY <4>1, <4>3, <4>5 DEF ReadDone, Goto, TypeOK, Unread
      <4>6. CASE /\ frm' = [frm EXCEPT ![p] = rbuf] /\ Goto(p, "rdcopy")
                 /\ UNCHANGED <<rlen, len, lastRead>>
        BY <4>1, <4>2, <4>3, <4>4, <4>6 DEF Goto, TypeOK, Unread
      <4> QED BY <3>2, <4>5, <4>6
    <3> QED BY <2>4, <3>1, <3>2 DEF Read
  <2>5. CASE ReadResume(p)
    <3> SUFFICES ASSUME "overlap" \notin taint' PROVE Unread'
      BY DEF Unread
    <3>1. "overlap" \notin taint /\ pc[p] = "rdcopy"
      BY <2>5 DEF ReadResume
    <3>2. \A q \in Procs : pc[q] # "rd"
      BY ConstAssumption, <2>5 DEF ReadResume, CpuFree, Sampling
    <3>3. \A q \in Procs : pc[q] = "rdcopy" => q = p
      BY <3>1 DEF Unread
    <3> QED BY <2>5, <3>2, <3>3 DEF ReadResume, ReadDone, Goto, TypeOK, Unread
  <2>6. CASE Spin(p) \/ FlushRecv(p) \/ FlushSend(p)
    BY <1>1, <2>6 DEF Spin, vars, FlushRecv, FlushSend, local, hist
  <2>7. CASE WriteStart(p) \/ WriteResume(p) \/ WriteCopied(p)
    BY <1>2, <2>7 DEF WriteStart, WriteResume, WriteCopied, WriteLoop, Goto, hist
  <2>8. ASSUME NEW mode \in Modes, NEW tag \in BOOLEAN,
               Treset(p, mode, tag) \/ TresetResume(p, mode, tag)
        PROVE Unread'
    <3>1. rlen' \in {0, rlen} /\ ("overlap" \in taint => "overlap" \in taint')
      BY <2>8 DEF Treset, TresetResume, TresetEnd, mrp_reset
    <3> QED BY <1>2, <2>8, <3>1 DEF Treset, TresetResume, TresetEnd, Goto, hist
  <2>9. ASSUME NEW mode \in Modes, TresetNoMemory(p, mode) \/ TresetSleep(p, mode)
                 \/ TresetFault(p, mode)
        PROVE Unread'
    BY <1>2, <2>9 DEF TresetNoMemory, TresetSleep, TresetFault, Goto, hist
  <2>10. CASE Sync(p) \/ Interrupted(p)
    BY <1>2, <2>10 DEF Sync, SyncLoop, Interrupted, Goto, hist
  <2>11. ASSUME NEW d \in {"in", "out"},
                SelectPoll(p, d) \/ SelectWait(p, d) \/ SelectCheck(p, d)
                  \/ SelectResume(p, d)
         PROVE Unread'
    BY <1>1, <1>2, <2>11 DEF SelectPoll, SelectWait, SelectCheck, SelectResume,
                             SelAdd, SelChk, SelSleep, Goto, hist
  <2> QED BY <1>7, <2>1, <2>2, <2>3, <2>4, <2>5, <2>6, <2>7, <2>8, <2>9, <2>10,
             <2>11 DEF FileOp
<1> QED BY <1>3, <1>4, <1>5, <1>6, <1>7 DEF Next

\* A read ends in one of three ways only: before its copy, after it, or refused
\* for a length that no packet has.
LEMMA ReadEnds ==
    ASSUME TypeOK, [Next]_vars, NEW p \in Procs, pc[p] \in {"rd", "rdcopy"},
           pc'[p] = "idle"
    PROVE  \/ pc[p] = "rd" /\ ReadDone(p, rbuf, TagFlags, TagIer)
           \/ pc[p] = "rdcopy" /\ ReadDone(p, frm[p], flags, ier)
           \/ pc[p] = "rd" /\ len[p] > MaxPkt
<1>1. ASSUME pc' = pc PROVE FALSE
  BY <1>1
<1>2. ASSUME NEW q \in Procs, NEW l, pc' = [pc EXCEPT ![q] = l] PROVE q = p
  BY <1>2 DEF TypeOK
<1>3. ~(UNCHANGED vars \/ BoardSends \/ BoardDrain \/ BoardBoots)
  BY <1>1 DEF vars, BoardSends, BoardSend, BoardDrain, BoardBoots, BoardBoot,
              local
<1>4. ~(Wake \/ Recv \/ Bootp)
  BY <1>1 DEF Wake, Recv, Bootp, local
<1>5. PICK q \in Procs : FileOp(q)
  BY <1>3, <1>4 DEF Next
<1>6. ~(\E bit \in OpenBits : Open(q, bit) \/ Release(q, bit))
  BY <1>2 DEF Open, Release, LoadFlags, Goto
<1>7. ~(StoreFlags(q) \/ ReadSample(q) \/ Spin(q) \/ FlushRecv(q) \/ FlushSend(q))
  BY <1>1, <1>2 DEF StoreFlags, ReadSample, Spin, vars, FlushRecv, FlushSend,
                    local, Goto
<1>8. ~(WriteStart(q) \/ WriteResume(q) \/ WriteCopied(q))
  BY <1>2 DEF WriteStart, WriteResume, WriteCopied, WriteLoop, Goto
<1>9. ~(\E mode \in Modes, tag \in BOOLEAN :
            Treset(q, mode, tag) \/ TresetResume(q, mode, tag))
  BY <1>2 DEF Treset, TresetResume, TresetEnd, Goto
<1>10. ~(\E mode \in Modes : TresetNoMemory(q, mode) \/ TresetSleep(q, mode)
                          \/ TresetFault(q, mode))
  BY <1>2 DEF TresetNoMemory, TresetSleep, TresetFault, Goto
<1>11. ~(Sync(q) \/ Interrupted(q))
  BY <1>2 DEF Sync, SyncLoop, Interrupted, Goto
<1>12. ~(\E d \in {"in", "out"} : SelectPoll(q, d) \/ SelectWait(q, d)
                                    \/ SelectCheck(q, d) \/ SelectResume(q, d))
  BY <1>1, <1>2 DEF SelectPoll, SelectWait, SelectCheck, SelectResume, SelAdd,
                    SelChk, SelSleep, Goto
<1>13. CASE ReadSpins(q)
  BY <1>2, <1>13 DEF ReadSpins, Goto, TypeOK
<1>14. CASE Read(q)
  BY <1>2, <1>14 DEF Read, Goto, ReadDone, TypeOK
<1>15. CASE ReadResume(q)
  BY <1>2, <1>15 DEF ReadResume, Goto, ReadDone, TypeOK
<1> QED BY <1>5, <1>6, <1>7, <1>8, <1>9, <1>10, <1>11, <1>12, <1>13, <1>14, <1>15
   DEF FileOp

----------------------------------------------------------------------------
(* The theorems.                                                            *)

\* The initial state satisfies everything.
LEMMA InitFacts ==
    ASSUME Init
    PROVE  /\ TypeOK /\ OneWriter /\ StoreExact /\ TagSeen /\ Numbered
           /\ RxOrder /\ Sampling /\ Unread
           /\ SendArmed /\ RecvArmed /\ PacketIntact /\ SenderNotLost
           /\ SelectNotLost /\ TxExclusive /\ ImageWhole /\ SentOnce
<1>1. TypeUnit /\ TypeBoard
  BY ConstAssumption DEF Init, TypeUnit, TypeBoard, NoFrame, Frames
<1>2. TypeProcs /\ TypeHist
  BY ConstAssumption DEF Init, TypeProcs, TypeHist, NoFrame, Frames, Pcs
<1>3. OneWriter /\ StoreExact /\ TagSeen /\ Sampling
  BY DEF Init, OneWriter, Writing, StoreExact, TagSeen, Sampling
<1>4. Numbered /\ RxOrder /\ Unread
  BY DEF Init, Numbered, RxOrder, Unread, NoFrame
<1>5. SendArmed /\ RecvArmed /\ PacketIntact /\ SenderNotLost /\ SelectNotLost
  BY DEF Init, SendArmed, RecvArmed, PacketIntact, SenderNotLost, SelectNotLost
<1>6. TxExclusive /\ ImageWhole /\ SentOnce
  BY DEF Init, TxExclusive, ImageWhole, SentOnce
<1> QED BY <1>1, <1>2, <1>3, <1>4, <1>5, <1>6, TypeParts

\* Type correctness of the data plane: every word, FIFO, queue and counter of
\* the unit keeps its type.  The bound on accepted packets needs OneWriter, the
\* semaphore of sys_write.
THEOREM Typing == Spec => []TypeOK
<1>1. Init => TypeOK /\ OneWriter
  BY InitFacts
<1>2. TypeOK /\ OneWriter /\ [Next]_vars => (TypeOK /\ OneWriter)'
  <2> SUFFICES ASSUME TypeOK, OneWriter, [Next]_vars PROVE (TypeOK /\ OneWriter)'
    OBVIOUS
  <2>1. TypeUnit /\ TypeBoard /\ TypeProcs /\ TypeHist
    BY TypeParts
  <2>2. TypeUnit' /\ TypeBoard' /\ TypeProcs' /\ TypeHist' /\ OneWriter'
    BY <2>1, TypeUnitStep, TypeBoardStep, TypeProcsStep, TypeHistStep, OneWriterStep
  <2>3. TypeOK'
    BY <2>2 DEF TypeOK, TypeUnit, TypeBoard, TypeProcs, TypeHist
  <2> QED BY <2>2, <2>3
<1> QED BY <1>1, <1>2, PTL DEF Spec

\* The send side (mrp_send, the WAKE interrupt, mrp_bootp, mrp_reset and the
\* ioctls): a transfer in progress has its interrupt enabled, and no writer,
\* MRP_IOCTL_SY or select waits for the FIFO without a wakeup to come.
THEOREM SendSide == Spec => []SendServed
<1>1. Init => SendArmed /\ SenderNotLost
  BY InitFacts
<1>2. TypeOK /\ SendArmed /\ SenderNotLost /\ [Next]_vars
        => (SendArmed /\ SenderNotLost)'
  BY TypeParts, UnitStep, SenderNotLostStep
<1> QED BY <1>1, <1>2, Typing, PTL DEF Spec, SendServed

\* The receive side (mrp_recv, mrp_read, the flush and the reset): after a reset
\* the unit holds a packet or listens for one.
THEOREM ReceiveSide == Spec => []RecvArmed
<1>1. Init => RecvArmed
  BY InitFacts
<1>2. RecvArmed /\ [Next]_vars => RecvArmed'
  BY UnitStep
<1> QED BY <1>1, <1>2, PTL DEF Spec

\* RDONE announces a frame in recvbuf with its length in rlen, which has passed
\* its checksum whatever flushes, resets, boot requests and bad frames came
\* before -- except one found behind rescanned words, which mrp_recv stores as
\* many words too far and sums over the wrong words.
THEOREM Announced == Spec => []PacketIntact
<1>1. Init => PacketIntact
  BY InitFacts
<1>2. PacketIntact /\ [Next]_vars => PacketIntact'
  BY UnitStep
<1> QED BY <1>1, <1>2, PTL DEF Spec

\* mrp_select loses no wakeup: nobody sleeps while there is something to read.
\* A reset forgets the taint of a stale store but not REQTAG, so the proof needs
\* that a store never changes REQTAG (StoreExact).
THEOREM SelectSide == Spec => []SelectNotLost
<1>1. Init => StoreExact /\ TagSeen /\ SelectNotLost
  BY InitFacts
<1>2. TypeOK /\ StoreExact /\ TagSeen /\ SelectNotLost /\ [Next]_vars
        => (StoreExact /\ TagSeen /\ SelectNotLost)'
  BY TypeParts, StoreExactStep, SelectNotLostStep
<1> QED BY <1>1, <1>2, Typing, PTL DEF Spec

\* The SBUSY protocol gives each sender the FIFO for itself.
THEOREM Exclusion == Spec => []TxExclusive
<1>1. Init => TxExclusive
  BY InitFacts
<1>2. TypeOK /\ TxExclusive /\ [Next]_vars => TxExclusive'
  BY TypeParts, TxExclusiveStep
<1> QED BY <1>1, <1>2, Typing, PTL DEF Spec

\* A freed or incomplete boot image is reachable only while its writer sleeps
\* in kmalloc or in the copy.
THEOREM ImageLifetime == Spec => []ImageWhole
<1>1. Init => ImageWhole
  BY InitFacts
<1>2. TypeOK /\ ImageWhole /\ [Next]_vars => ImageWhole'
  BY TypeParts, ImageWholeStep
<1> QED BY <1>1, <1>2, Typing, PTL DEF Spec

\* Written packets go out at most once and in order, until a tagged TRESET.
THEOREM SendOrder == Spec => []SentOnce
<1>1. Init => StoreExact /\ Numbered /\ SentOnce
  BY InitFacts
<1>2. TypeOK /\ StoreExact /\ Numbered /\ SentOnce /\ [Next]_vars
        => (StoreExact /\ Numbered /\ SentOnce)'
  BY TypeParts, StoreExactStep, SentOnceStep
<1> QED BY <1>1, <1>2, Typing, PTL DEF Spec

\* No packet is handed to two reads or after a newer one, unless two reads slept
\* in copy_to_user together.
THEOREM ReadOrder == Spec => ReadOnce
<1>1. Init => RxOrder /\ Sampling /\ Unread
  BY InitFacts
<1>2. TypeOK /\ RxOrder /\ Sampling /\ Unread /\ [Next]_vars
        => (RxOrder /\ Sampling /\ Unread)'
  BY RxOrderStep, SamplingStep, UnreadStep
<1> DEFINE Fresh ==
      \A p \in Procs :
         pc[p] \in {"rd", "rdcopy"} /\ pc'[p] = "idle"
           /\ "overlap" \notin taint /\ "overlap" \notin taint'
           /\ Returned(p, IF pc[p] = "rd" THEN rbuf ELSE frm[p])
         => lastRead' > lastRead
<1>3. TypeOK /\ RxOrder /\ Unread /\ [Next]_vars => [Fresh]_vars
  <2> SUFFICES ASSUME TypeOK, RxOrder, Unread, [Next]_vars, NEW p \in Procs,
                      pc[p] \in {"rd", "rdcopy"}, pc'[p] = "idle",
                      "overlap" \notin taint,
                      Returned(p, IF pc[p] = "rd" THEN rbuf ELSE frm[p])
               PROVE  lastRead' > lastRead
    OBVIOUS
  <2>1. rbuf.kind = "ok" /\ len[p] = rbuf.size /\ rbuf.size \in 1..MaxPkt
    BY DEF Returned, RxOrder
  <2>2. lastRead < rbuf.id
    BY ConstAssumption, <2>1 DEF Unread, Returned
  <2>3. lastRead' = rbuf.id
    BY ConstAssumption, <2>1, ReadEnds DEF ReadDone, Returned
  <2>4. rbuf.id \in Nat /\ lastRead \in Nat
    BY ConstAssumption DEF TypeOK, Frames
  <2> QED BY <2>2, <2>3, <2>4
<1> QED BY <1>1, <1>2, <1>3, Typing, PTL DEF Spec, ReadOnce
=============================================================================
