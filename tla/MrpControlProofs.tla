-------------------------- MODULE MrpControlProofs --------------------------
(***************************************************************************)
(* Theorems about the control plane of an MRP unit, for any number of       *)
(* processes, any ring size and any width of the indexes that the size      *)
(* divides: the ring is a bounded FIFO, its count stays within one of its   *)
(* size, no byte of the board is lost to flow control, and no reader sleeps *)
(* on bytes that the interrupt has stored.                                  *)
(***************************************************************************)
EXTENDS MrpControl, TLAPS

Writing == {"wr", "wrfault", "wrsleep"}

\* sys_write lets one process at a time into mrp_write; a writer that faulted
\* has found room before it, and only the interrupt has put bytes since.
StaleRoom ==
    /\ \A p, q \in Procs : pc[p] \in Writing /\ pc[q] \in Writing => p = q
    /\ \A p \in Procs : pc[p] = "wrfault" => left[p] > 0 /\ ring.count <= RingSize

\* The indexes are as far apart as count says, modulo their width, and as long as
\* no byte has been put into a full ring the count is at most its size.
Geometry ==
    /\ ring.write_index = ((ring.read_index + ring.count) % IndexMod)
    /\ ~over => ring.count <= RingSize

Inv == TypeOK /\ StaleRoom /\ Geometry

\* What the ring operations need of a ring: TypeOK without the bound on count.
Ring == [buf : [0..RingSize-1 -> Byte], write_index : 0..IndexMod-1,
         read_index : 0..IndexMod-1, count : Nat]

\* What one step may do to the ring.
RingSame     == ring' = ring /\ over' = over
RingPut(x)   == ring.count < RingSize /\ ring' = ringbuf_put(ring, x) /\ over' = over
RingOver(x)  == ring.count = RingSize /\ ring' = ringbuf_put(ring, x) /\ over' = TRUE
RingGet      == ring.count > 0 /\ ring' = ringbuf_get(ring) /\ over' = over
RingReset    == ring' = ring_reset(ring) /\ over' = FALSE

----------------------------------------------------------------------------
(* Facts about remainders.                                                  *)

\* A number is its quotient times the divisor plus its remainder.
LEMMA DivMod ==
    ASSUME NEW a \in Int, NEW d \in Nat \ {0}
    PROVE  \E q \in Int, r \in 0..(d-1) : a = d * q + r /\ r = (a % d)
<1>1. (a % d) \in 0..(d-1) /\ a \div d \in Int /\ a = d * (a \div d) + (a % d)
  OBVIOUS
<1> QED BY <1>1

\* A remainder is below the divisor.
LEMMA ModRange ==
    ASSUME NEW a \in Int, NEW d \in Nat \ {0}
    PROVE  (a % d) \in 0..(d-1)
OBVIOUS

\* The remainder is the only one.
LEMMA ModUnique ==
    ASSUME NEW a \in Int, NEW d \in Nat \ {0}, NEW q \in Int, NEW r \in 0..(d-1),
           a = d * q + r
    PROVE  (a % d) = r
OBVIOUS

\* A multiple of the divisor does not change the remainder.
LEMMA ModShift ==
    ASSUME NEW a \in Int, NEW d \in Nat \ {0}, NEW k \in Int
    PROVE  ((a + d * k) % d) = (a % d)
<1>1. PICK q \in Int, r \in 0..(d-1) : a = d * q + r /\ r = (a % d)
  BY DivMod
<1>2. d * k \in Int /\ q + k \in Int /\ d * (q + k) = d * q + d * k /\ d * q \in Int
  OBVIOUS
<1>3. a + d * k = d * (q + k) + r /\ a + d * k \in Int
  BY <1>1, <1>2
<1>4. ((a + d * k) % d) = r
  BY <1>2, <1>3, ModUnique
<1> QED BY <1>1, <1>4

\* Numbers less than d apart have different remainders: so do the slots of the
\* ring that hold bytes and the one that is written next.
LEMMA ModDiffer ==
    ASSUME NEW a \in Nat, NEW b \in Nat, NEW d \in Nat \ {0}, a < b, b < a + d
    PROVE  (a % d) # (b % d)
<1> SUFFICES ASSUME (a % d) = (b % d) PROVE FALSE
  OBVIOUS
<1>1. a \in Int /\ b \in Int
  OBVIOUS
<1>2. PICK q \in Int, r \in 0..(d-1) : a = d * q + r /\ r = (a % d)
  BY <1>1, DivMod
<1>3. PICK s \in Int, t \in 0..(d-1) : b = d * s + t /\ t = (b % d)
  BY <1>1, DivMod
<1>4. b - a = d * (s - q)
  BY <1>2, <1>3
<1>5. s - q \in Int /\ (s - q >= 1 => d * (s - q) >= d) /\ (s - q <= 0 => d * (s - q) <= 0)
  OBVIOUS
<1> QED BY <1>4, <1>5

\* The wrap of an index does not move its slot, because the ring size divides
\* the indexes' width.
LEMMA ModWrap ==
    ASSUME NEW n \in Nat, NEW m \in Nat \ {0}, NEW d \in Nat \ {0}, (m % d) = 0
    PROVE  ((n % m) % d) = (n % d)
<1>0. n \in Int /\ m \in Int
  OBVIOUS
<1>1. PICK q \in Int, r \in 0..(m-1) : n = m * q + r /\ r = (n % m)
  BY <1>0, DivMod
<1>2. PICK k \in Int : m = d * k
  <2>1. PICK k \in Int, e \in 0..(d-1) : m = d * k + e /\ e = (m % d)
    BY <1>0, DivMod
  <2>2. e = 0
    BY <2>1
  <2>3. m = d * k
    BY <2>1, <2>2
  <2> QED BY <2>3
<1>3. n = r + d * (k * q)
  BY <1>1, <1>2
<1>4. k * q \in Int /\ r \in Int
  BY <1>1, <1>2
<1>5. ((r + d * (k * q)) % d) = (r % d)
  BY <1>4, ModShift
<1> QED BY <1>1, <1>3, <1>5

\* A sum may be reduced before it is complete.
LEMMA ModAdd ==
    ASSUME NEW n \in Nat, NEW k \in Nat, NEW m \in Nat \ {0}
    PROVE  (((n % m) + k) % m) = ((n + k) % m)
<1>1. n \in Int
  OBVIOUS
<1>2. PICK q \in Int, r \in 0..(m-1) : n = m * q + r /\ r = (n % m)
  BY <1>1, DivMod
<1>3. n + k = (r + k) + m * q /\ r + k \in Int
  BY <1>2
<1>4. (((r + k) + m * q) % m) = ((r + k) % m)
  BY <1>3, ModShift
<1> QED BY <1>2, <1>3, <1>4

----------------------------------------------------------------------------
(* The ring operations.                                                     *)

\* The constants as the lemmas on remainders want them.
LEMMA Sizes ==
    /\ RingSize \in Nat \ {0} /\ IndexMod \in Nat \ {0} /\ (IndexMod % RingSize) = 0
    /\ IndexMod >= RingSize /\ RingSize > 1
BY ConstAssumption

\* The slot of an index is a slot of the buffer.
LEMMA MaskType ==
    ASSUME NEW i \in Nat
    PROVE  Mask(i) \in 0..(RingSize - 1)
BY Sizes DEF Mask

\* ringbuf_put stores one byte, in the slot of the write index.
LEMMA PutFacts ==
    ASSUME NEW r \in Ring, NEW x \in Byte
    PROVE  /\ ringbuf_put(r, x) \in Ring
           /\ ringbuf_put(r, x).count = r.count + 1
           /\ ringbuf_put(r, x).read_index = r.read_index
           /\ ringbuf_put(r, x).write_index = ((r.write_index + 1) % IndexMod)
           /\ ringbuf_put(r, x).buf = [r.buf EXCEPT ![Mask(r.write_index)] = x]
<1>1. ((r.write_index + 1) % IndexMod) \in 0..(IndexMod - 1)
  <2>1. r.write_index + 1 \in Int
    BY Sizes DEF Ring
  <2> QED BY <2>1, Sizes, ModRange
<1>2. Mask(r.write_index) \in 0..(RingSize - 1)
  BY MaskType, Sizes DEF Ring
<1>3. [r.buf EXCEPT ![Mask(r.write_index)] = x] \in [0..RingSize-1 -> Byte]
  BY <1>2 DEF Ring
<1>4. /\ ringbuf_put(r, x).count = r.count + 1
      /\ ringbuf_put(r, x).read_index = r.read_index
      /\ ringbuf_put(r, x).write_index = ((r.write_index + 1) % IndexMod)
      /\ ringbuf_put(r, x).buf = [r.buf EXCEPT ![Mask(r.write_index)] = x]
  BY DEF ringbuf_put, Ring
<1> DEFINE r1 == [r EXCEPT !.buf[Mask(r.write_index)] = x]
           r2 == [r1 EXCEPT !.write_index = (@ + 1) % IndexMod]
<1>5. r1 \in Ring /\ r1.write_index = r.write_index /\ r1.count = r.count
  BY <1>3 DEF Ring
<1>6. r2 \in Ring /\ r2.count = r.count
  BY <1>1, <1>5 DEF Ring
<1>7. [r2 EXCEPT !.count = @ + 1] \in Ring
  <2>1. ASSUME NEW t \in Ring PROVE [t EXCEPT !.count = @ + 1] \in Ring
    BY DEF Ring
  <2> HIDE DEF r2
  <2> QED BY <1>6, <2>1
<1>8. ringbuf_put(r, x) \in Ring
  BY <1>7, Zenon DEF ringbuf_put
<1> QED BY <1>4, <1>8

\* ringbuf_get takes one byte away and leaves the buffer.
LEMMA GetFacts ==
    ASSUME NEW r \in Ring, r.count > 0
    PROVE  /\ ringbuf_get(r) \in Ring
           /\ ringbuf_get(r).count = r.count - 1
           /\ ringbuf_get(r).read_index = ((r.read_index + 1) % IndexMod)
           /\ ringbuf_get(r).write_index = r.write_index
           /\ ringbuf_get(r).buf = r.buf
<1>1. ((r.read_index + 1) % IndexMod) \in 0..(IndexMod - 1)
  <2>1. r.read_index + 1 \in Int
    BY Sizes DEF Ring
  <2> QED BY <2>1, Sizes, ModRange
<1> DEFINE r1 == [r EXCEPT !.read_index = (@ + 1) % IndexMod]
<1>2. r1 \in Ring /\ r1.count = r.count
  BY <1>1 DEF Ring
<1>3. [r1 EXCEPT !.count = @ - 1] \in Ring
  <2>1. ASSUME NEW t \in Ring, t.count > 0 PROVE [t EXCEPT !.count = @ - 1] \in Ring
    <3>1. t.count - 1 \in Nat
      BY <2>1 DEF Ring
    <3> QED BY <2>1, <3>1 DEF Ring
  <2> HIDE DEF r1
  <2> QED BY <1>2, <2>1
<1>4. ringbuf_get(r) \in Ring
  BY <1>3, Zenon DEF ringbuf_get
<1>5. /\ ringbuf_get(r).count = r.count - 1
      /\ ringbuf_get(r).read_index = ((r.read_index + 1) % IndexMod)
      /\ ringbuf_get(r).write_index = r.write_index
      /\ ringbuf_get(r).buf = r.buf
  BY DEF ringbuf_get, Ring
<1> QED BY <1>4, <1>5

\* The zeroing of the indexes by mrp_reset.
LEMMA ResetFacts ==
    ASSUME NEW r \in Ring
    PROVE  /\ ring_reset(r) \in Ring
           /\ ring_reset(r).count = 0
           /\ ring_reset(r).read_index = 0 /\ ring_reset(r).write_index = 0
<1>1. 0 \in 0..(IndexMod - 1) /\ 0 \in Nat
  BY Sizes
<1>2. ring_reset(r) \in Ring
  BY <1>1 DEF ring_reset, Ring
<1>3. /\ ring_reset(r).count = 0
      /\ ring_reset(r).read_index = 0 /\ ring_reset(r).write_index = 0
  BY DEF ring_reset, Ring
<1> QED BY <1>2, <1>3

\* The contents of a ring are a sequence of count bytes.
LEMMA ContentsFacts ==
    ASSUME NEW r \in Ring
    PROVE  /\ Contents(r) \in Seq(Byte)
           /\ Len(Contents(r)) = r.count
           /\ \A i \in 1..r.count : Contents(r)[i] = r.buf[Mask(r.read_index + i - 1)]
<1>1. r.count \in Nat /\ r.read_index \in Nat /\ r.buf \in [0..RingSize-1 -> Byte]
  BY Sizes DEF Ring
<1>2. ASSUME NEW i \in 1..r.count
      PROVE  r.buf[Mask(r.read_index + i - 1)] \in Byte
  <2>1. r.read_index + i - 1 \in Nat
    BY <1>1
  <2> QED BY <1>1, <2>1, MaskType
<1> QED BY <1>1, <1>2 DEF Contents

\* A put into a ring with room appends the byte: no unread byte is overwritten.
LEMMA PutAppends ==
    ASSUME NEW r \in Ring, NEW x \in Byte, r.count < RingSize,
           r.write_index = ((r.read_index + r.count) % IndexMod)
    PROVE  Contents(ringbuf_put(r, x)) = Append(Contents(r), x)
<1> DEFINE s == ringbuf_put(r, x)
<1>1. r.count \in Nat /\ r.read_index \in Nat /\ r.write_index \in Nat
      /\ r.buf \in [0..RingSize-1 -> Byte]
  BY Sizes DEF Ring
<1>2. Mask(r.write_index) = Mask(r.read_index + r.count)
  <2>1. r.read_index + r.count \in Nat
    BY <1>1
  <2>2. (((r.read_index + r.count) % IndexMod) % RingSize)
          = ((r.read_index + r.count) % RingSize)
    BY <2>1, Sizes, ModWrap
  <2> QED BY <2>2 DEF Mask
<1>3. /\ s \in Ring /\ s.count = r.count + 1 /\ s.read_index = r.read_index
      /\ s.buf = [r.buf EXCEPT ![Mask(r.write_index)] = x]
  BY PutFacts
<1>4. /\ Contents(s) \in Seq(Byte) /\ Len(Contents(s)) = s.count
      /\ \A i \in 1..s.count : Contents(s)[i] = s.buf[Mask(s.read_index + i - 1)]
  BY <1>3, ContentsFacts
<1>5. /\ Contents(r) \in Seq(Byte) /\ Len(Contents(r)) = r.count
      /\ \A i \in 1..r.count : Contents(r)[i] = r.buf[Mask(r.read_index + i - 1)]
  BY ContentsFacts
<1> HIDE DEF s
<1>6. Contents(s)[r.count + 1] = x
  <2>1. Mask(r.write_index) \in 0..(RingSize - 1)
    BY <1>1, MaskType
  <2>2. s.read_index + (r.count + 1) - 1 = r.read_index + r.count
    BY <1>1, <1>3
  <2>3. r.count + 1 \in 1..s.count
    BY <1>1, <1>3
  <2>4. Contents(s)[r.count + 1] = s.buf[Mask(s.read_index + (r.count + 1) - 1)]
    BY <1>4, <2>3
  <2>5. s.buf[Mask(r.write_index)] = x
    BY <1>1, <1>3, <2>1
  <2> QED BY <1>2, <2>2, <2>4, <2>5
<1>7. ASSUME NEW i \in 1..r.count PROVE Contents(s)[i] = Contents(r)[i]
  <2>1. /\ r.read_index + i - 1 \in Nat /\ r.read_index + r.count \in Nat
        /\ r.read_index + i - 1 < r.read_index + r.count
        /\ r.read_index + r.count < (r.read_index + i - 1) + RingSize
    <3>1. i \in Nat /\ i >= 1 /\ i <= r.count /\ RingSize \in Nat
      BY <1>1, Sizes
    <3> QED BY <1>1, <3>1
  <2>2. Mask(r.read_index + i - 1) # Mask(r.write_index)
    BY <1>2, <2>1, Sizes, ModDiffer DEF Mask
  <2>3. Mask(r.read_index + i - 1) \in 0..(RingSize - 1)
    BY <2>1, MaskType
  <2>4. i \in 1..s.count
    BY <1>1, <1>3
  <2>5. s.buf[Mask(r.read_index + i - 1)] = r.buf[Mask(r.read_index + i - 1)]
    BY <1>1, <1>3, <2>2, <2>3
  <2> QED BY <1>3, <1>4, <1>5, <2>4, <2>5
<1>8. /\ Append(Contents(r), x) \in Seq(Byte) /\ Len(Append(Contents(r), x)) = r.count + 1
      /\ Append(Contents(r), x)[r.count + 1] = x
      /\ \A i \in 1..r.count : Append(Contents(r), x)[i] = Contents(r)[i]
  BY <1>1, <1>5
<1>9. \A i \in 1..(r.count + 1) : Contents(s)[i] = Append(Contents(r), x)[i]
  BY <1>1, <1>6, <1>7, <1>8
<1>10. Contents(s) = Append(Contents(r), x)
  <2>1. Len(Contents(s)) = Len(Append(Contents(r), x)) /\ Len(Contents(s)) = r.count + 1
    BY <1>3, <1>4, <1>8
  <2> QED BY <1>4, <1>8, <1>9, <2>1
<1> QED BY <1>10 DEF s

\* A get drops the oldest byte and no other.
LEMMA GetTails ==
    ASSUME NEW r \in Ring, r.count > 0
    PROVE  Contents(ringbuf_get(r)) = Tail(Contents(r)) /\ Contents(r) # <<>>
<1> DEFINE s == ringbuf_get(r)
<1>1. r.count \in Nat /\ r.read_index \in Nat /\ r.buf \in [0..RingSize-1 -> Byte]
  BY Sizes DEF Ring
<1>2. /\ s \in Ring /\ s.count = r.count - 1 /\ s.buf = r.buf
      /\ s.read_index = ((r.read_index + 1) % IndexMod)
  BY GetFacts
<1>3. /\ Contents(s) \in Seq(Byte) /\ Len(Contents(s)) = s.count
      /\ \A i \in 1..s.count : Contents(s)[i] = s.buf[Mask(s.read_index + i - 1)]
  BY <1>2, ContentsFacts
<1>4. /\ Contents(r) \in Seq(Byte) /\ Len(Contents(r)) = r.count
      /\ \A i \in 1..r.count : Contents(r)[i] = r.buf[Mask(r.read_index + i - 1)]
  BY ContentsFacts
<1> HIDE DEF s
<1>5. ASSUME NEW i \in 1..(r.count - 1) PROVE Contents(s)[i] = Contents(r)[i + 1]
  <2>1. /\ i - 1 \in Nat /\ r.read_index + 1 \in Nat /\ i + 1 \in 1..r.count
        /\ s.read_index \in Nat
    BY <1>1, <1>2, Sizes
  <2>2. s.read_index + i - 1 = s.read_index + (i - 1) /\ s.read_index + (i - 1) \in Nat
    BY <2>1
  <2>3. ((s.read_index + (i - 1)) % IndexMod) = (((r.read_index + 1) + (i - 1)) % IndexMod)
    <3>1. ((((r.read_index + 1) % IndexMod) + (i - 1)) % IndexMod)
            = (((r.read_index + 1) + (i - 1)) % IndexMod)
      BY <2>1, Sizes, ModAdd
    <3> QED BY <1>2, <3>1
  <2>4. (r.read_index + 1) + (i - 1) = r.read_index + (i + 1) - 1
        /\ (r.read_index + 1) + (i - 1) \in Nat
    <3>1. \A x, y \in Int : (x + 1) + (y - 1) = x + (y + 1) - 1
      OBVIOUS
    <3>2. r.read_index \in Int /\ i \in Int
      BY <1>1, <2>1
    <3>3. (r.read_index + 1) + (i - 1) \in Nat
      BY <2>1
    <3> QED BY <3>1, <3>2, <3>3
  <2>5. Mask(s.read_index + (i - 1)) = Mask((r.read_index + 1) + (i - 1))
    <3>1. ((s.read_index + (i - 1)) % RingSize)
            = (((s.read_index + (i - 1)) % IndexMod) % RingSize)
      BY <2>2, Sizes, ModWrap
    <3>2. (((r.read_index + 1) + (i - 1)) % RingSize)
            = ((((r.read_index + 1) + (i - 1)) % IndexMod) % RingSize)
      BY <2>4, Sizes, ModWrap
    <3> QED BY <2>3, <3>1, <3>2 DEF Mask
  <2>6. Contents(s)[i] = r.buf[Mask(s.read_index + i - 1)]
    BY <1>2, <1>3
  <2>7. Contents(r)[i + 1] = r.buf[Mask(r.read_index + (i + 1) - 1)]
    BY <1>4, <2>1
  <2> QED BY <2>2, <2>4, <2>5, <2>6, <2>7
<1>6. /\ Tail(Contents(r)) \in Seq(Byte) /\ Len(Tail(Contents(r))) = r.count - 1
      /\ \A i \in 1..(r.count - 1) : Tail(Contents(r))[i] = Contents(r)[i + 1]
      /\ Contents(r) # <<>>
  BY <1>1, <1>4
<1> QED BY <1>1, <1>2, <1>3, <1>5, <1>6 DEF s

----------------------------------------------------------------------------
(* The steps.                                                               *)

\* The disjuncts of Next, one by one: what the steps below split on.
LEMMA NextCases ==
    ASSUME [Next]_vars
    PROVE  \/ UNCHANGED vars
           \/ \E x \in Byte : BoardByte(x)
           \/ Cpr \/ Reset \/ Open \/ Release
           \/ \E p \in Procs :
                \/ Begin(p)
                \/ ReadByte(p) \/ ReadEmpty(p) \/ ReadWoken(p) \/ ReadReturn(p)
                \/ WriteByte(p) \/ WriteFault(p) \/ WriteFaulted(p)
                \/ WriteFull(p) \/ WriteReturn(p)
                \/ SelectSleep(p) \/ SelectWoken(p) \/ Interrupted(p)
BY DEF Next

\* Every step leaves the ring alone, puts a byte into a ring with room, gets one
\* from a ring that has one, resets it, or -- the writer with the stale test --
\* puts a byte into a ring that is exactly full.
LEMMA RingSteps ==
    ASSUME TypeOK, StaleRoom, [Next]_vars
    PROVE  \/ RingSame \/ RingGet \/ RingReset
           \/ \E x \in Byte : RingPut(x) \/ RingOver(x)
<1> DEFINE Goal == \/ RingSame \/ RingGet \/ RingReset
                   \/ \E x \in Byte : RingPut(x) \/ RingOver(x)
<1>a. /\ ring.count \in Int /\ over \in BOOLEAN /\ cpr \in Byte \cup {NoByte}
      /\ RingSize \in Int
  BY Sizes DEF TypeOK
<1>b. RingSame \/ RingGet \/ RingReset => Goal
  OBVIOUS
<1>c. \A x \in Byte : RingPut(x) \/ RingOver(x) => Goal
  OBVIOUS
<1> HIDE DEF Goal
<1>1. ASSUME UNCHANGED vars PROVE Goal
  BY <1>1, <1>b DEF vars, RingSame
<1>2. ASSUME NEW x \in Byte, BoardByte(x) PROVE Goal
  BY <1>2, <1>b DEF BoardByte, RingSame
<1>3. ASSUME Cpr PROVE Goal
  <2>1. cpr \in Byte
    BY <1>3, <1>a DEF Cpr
  <2>2. RingSame \/ RingPut(cpr)
    BY <1>3, <1>a DEF Cpr, RingSame, RingPut
  <2> QED BY <1>b, <1>c, <2>1, <2>2
<1>4. ASSUME Reset PROVE Goal
  BY <1>4, <1>b DEF Reset, RingReset
<1>5. ASSUME Open PROVE Goal
  BY <1>5, <1>b DEF Open, RingSame
<1>6. ASSUME Release PROVE Goal
  BY <1>6, <1>b DEF Release, RingSame
<1>7. ASSUME NEW p \in Procs, Begin(p) PROVE Goal
  BY <1>7, <1>b DEF Begin, Start, RingSame
<1>8. ASSUME NEW p \in Procs, ReadByte(p) PROVE Goal
  BY <1>8, <1>b DEF ReadByte, RingGet
<1>9. ASSUME NEW p \in Procs, ReadEmpty(p) PROVE Goal
  BY <1>9, <1>b DEF ReadEmpty, RingSame
<1>10. ASSUME NEW p \in Procs, ReadWoken(p) PROVE Goal
  BY <1>10, <1>b DEF ReadWoken, RingSame
<1>11. ASSUME NEW p \in Procs, ReadReturn(p) PROVE Goal
  BY <1>11, <1>b DEF ReadReturn, RingSame
<1>12. ASSUME NEW p \in Procs, WriteByte(p) PROVE Goal
  <2>1. PICK x \in Byte : ring' = ringbuf_put(ring, x)
    BY <1>12 DEF WriteByte, PutByte
  <2>2. RingPut(x)
    BY <1>12, <1>a, <2>1 DEF WriteByte, PutByte, RingPut
  <2> QED BY <1>c, <2>2
<1>13. ASSUME NEW p \in Procs, WriteFault(p) PROVE Goal
  BY <1>13, <1>b DEF WriteFault, RingSame
<1>14. ASSUME NEW p \in Procs, WriteFaulted(p) PROVE Goal
  <2>1. PICK x \in Byte : ring' = ringbuf_put(ring, x)
    BY <1>14 DEF WriteFaulted, PutByte
  <2>2. ring.count <= RingSize
    BY <1>14 DEF WriteFaulted, StaleRoom
  <2>3. CASE ring.count < RingSize
    <3>1. RingPut(x)
      BY <1>14, <1>a, <2>1, <2>3 DEF WriteFaulted, PutByte, RingPut
    <3> QED BY <1>c, <3>1
  <2>4. CASE ring.count = RingSize
    <3>1. over' = TRUE
      <4>1. ring.count >= RingSize
        BY <1>a, <2>4
      <4>2. over' = (over \/ ring.count >= RingSize)
        BY <1>14 DEF WriteFaulted, PutByte
      <4> QED BY <4>1, <4>2, Zenon
    <3>2. RingOver(x)
      BY <2>1, <2>4, <3>1 DEF RingOver
    <3> QED BY <1>c, <3>2
  <2> QED BY <1>a, <2>2, <2>3, <2>4
<1>15. ASSUME NEW p \in Procs, WriteFull(p) PROVE Goal
  BY <1>15, <1>b DEF WriteFull, RingSame
<1>16. ASSUME NEW p \in Procs, WriteReturn(p) PROVE Goal
  BY <1>16, <1>b DEF WriteReturn, RingSame
<1>17. ASSUME NEW p \in Procs, SelectSleep(p) PROVE Goal
  BY <1>17, <1>b DEF SelectSleep, RingSame
<1>18. ASSUME NEW p \in Procs, SelectWoken(p) PROVE Goal
  BY <1>18, <1>b DEF SelectWoken, RingSame
<1>19. ASSUME NEW p \in Procs, Interrupted(p) PROVE Goal
  BY <1>19, <1>b DEF Interrupted, RingSame
<1>20. Goal
  BY <1>1, <1>2, <1>3, <1>4, <1>5, <1>6, <1>7, <1>8, <1>9, <1>10,
     <1>11, <1>12, <1>13, <1>14, <1>15, <1>16, <1>17, <1>18, <1>19, NextCases
<1> QED BY <1>20 DEF Goal

\* The ring keeps its type, count at most one above its size included.
LEMMA RingTypeStep ==
    ASSUME TypeOK, StaleRoom, [Next]_vars
    PROVE  ring' \in Ring /\ ring'.count <= RingSize + 1 /\ over' \in BOOLEAN
<1>1. ring \in Ring /\ ring.count <= RingSize + 1 /\ over \in BOOLEAN
  BY Sizes DEF TypeOK, Ring
<1>2. CASE RingSame
  BY <1>1, <1>2 DEF RingSame
<1>3. CASE RingGet
  <2>1. ring' = ringbuf_get(ring) /\ ring.count > 0 /\ over' = over
    BY <1>3 DEF RingGet
  <2>2. ringbuf_get(ring) \in Ring /\ ringbuf_get(ring).count = ring.count - 1
    BY <1>1, <2>1, GetFacts
  <2>3. ring.count - 1 <= RingSize + 1
    BY <1>1, Sizes DEF Ring
  <2> QED BY <1>1, <2>1, <2>2, <2>3
<1>4. CASE RingReset
  <2>1. ring_reset(ring) \in Ring /\ ring_reset(ring).count = 0
    BY <1>1, ResetFacts
  <2>2. ring' = ring_reset(ring) /\ over' \in BOOLEAN
    BY <1>4 DEF RingReset
  <2> QED BY <2>1, <2>2, Sizes
<1>5. ASSUME NEW x \in Byte, RingPut(x) \/ RingOver(x)
      PROVE  ring' \in Ring /\ ring'.count <= RingSize + 1 /\ over' \in BOOLEAN
  <2>1. ring' = ringbuf_put(ring, x) /\ ring.count <= RingSize
    BY <1>1, <1>5, Sizes DEF RingPut, RingOver, Ring
  <2>2. ringbuf_put(ring, x) \in Ring /\ ringbuf_put(ring, x).count = ring.count + 1
    BY <1>1, PutFacts
  <2>3. ring.count + 1 <= RingSize + 1
    BY <1>1, <2>1, Sizes DEF Ring
  <2>4. over' \in BOOLEAN
    BY <1>1, <1>5 DEF RingPut, RingOver
  <2> QED BY <2>1, <2>2, <2>3, <2>4
<1> QED BY <1>2, <1>3, <1>4, <1>5, RingSteps

\* The type of the rest of the state.
TypeRest ==
    /\ cprOn \in BOOLEAN /\ cpr \in Byte \cup {NoByte} /\ cpopen \in BOOLEAN
    /\ q1 \subseteq Procs /\ q2 \subseteq Procs
    /\ pc \in [Procs -> Pcs]
    /\ left \in [Procs -> 0..MaxLen]
    /\ nonblock \in [Procs -> BOOLEAN]
    /\ lock \in Procs \cup {NoProc}
    /\ looped \in BOOLEAN

\* The rest of the state keeps its type.
LEMMA TypeRestStep ==
    TypeRest /\ StaleRoom /\ [Next]_vars => TypeRest'
<1> SUFFICES ASSUME TypeRest, StaleRoom, [Next]_vars PROVE TypeRest'
  OBVIOUS
<1> USE ConstAssumption
<1>1. CASE UNCHANGED vars
  BY <1>1 DEF vars, TypeRest, Pcs
<1>2. ASSUME NEW x \in Byte, BoardByte(x) PROVE TypeRest'
  BY <1>2 DEF BoardByte, TypeRest, Pcs
<1>3. CASE Cpr
  BY <1>3 DEF Cpr, TypeRest, Pcs
<1>4. CASE Reset
  BY <1>4 DEF Reset, TypeRest, Pcs
<1>5. CASE Open
  BY <1>5 DEF Open, TypeRest, Pcs
<1>6. CASE Release
  BY <1>6 DEF Release, TypeRest, Pcs
<1>7. ASSUME NEW p \in Procs, Begin(p) PROVE TypeRest'
  BY <1>7 DEF Begin, Start, Goto, TypeRest, Pcs
<1>8. ASSUME NEW p \in Procs, ReadByte(p) PROVE TypeRest'
  <2>1. left' \in [Procs -> 0..MaxLen]
    BY <1>8 DEF ReadByte, TypeRest
  <2>2. lock' \in Procs \cup {NoProc}
    BY <1>8 DEF ReadByte
  <2> QED BY <1>8, <2>1, <2>2 DEF ReadByte, TypeRest
<1>9. ASSUME NEW p \in Procs, ReadEmpty(p) PROVE TypeRest'
  <2>1. CASE nonblock[p]
    <3>0. Return(p) /\ q1' = q1
      BY <1>9, <2>1 DEF ReadEmpty
    <3>1. /\ pc' \in [Procs -> Pcs] /\ left' \in [Procs -> 0..MaxLen]
          /\ nonblock' \in [Procs -> BOOLEAN] /\ lock' \in Procs \cup {NoProc}
      BY <3>0 DEF Return, Goto, TypeRest, Pcs
    <3> QED BY <1>9, <3>0, <3>1 DEF ReadEmpty, TypeRest
  <2>2. CASE ~nonblock[p]
    <3>1. /\ pc' \in [Procs -> Pcs] /\ q1' \subseteq Procs
          /\ lock' \in Procs \cup {NoProc} /\ UNCHANGED <<left, nonblock>>
      BY <1>9, <2>2 DEF ReadEmpty, Goto, TypeRest, Pcs
    <3> QED BY <1>9, <3>1 DEF ReadEmpty, TypeRest
  <2> QED BY <2>1, <2>2
<1>10. ASSUME NEW p \in Procs, ReadWoken(p) PROVE TypeRest'
  BY <1>10 DEF ReadWoken, Goto, TypeRest, Pcs
<1>11. ASSUME NEW p \in Procs, ReadReturn(p) PROVE TypeRest'
  BY <1>11 DEF ReadReturn, Return, Goto, TypeRest, Pcs
<1>12. ASSUME NEW p \in Procs, WriteByte(p) PROVE TypeRest'
  <2>1. left' \in [Procs -> 0..MaxLen]
    BY <1>12 DEF WriteByte, PutByte, TypeRest
  <2> QED BY <1>12, <2>1 DEF WriteByte, PutByte, TypeRest
<1>13. ASSUME NEW p \in Procs, WriteFault(p) PROVE TypeRest'
  BY <1>13 DEF WriteFault, Goto, TypeRest, Pcs
<1>14. ASSUME NEW p \in Procs, WriteFaulted(p) PROVE TypeRest'
  <2>1. left[p] > 0
    BY <1>14 DEF WriteFaulted, StaleRoom
  <2> QED BY <1>14, <2>1 DEF WriteFaulted, PutByte, Goto, TypeRest, Pcs
<1>15. ASSUME NEW p \in Procs, WriteFull(p) PROVE TypeRest'
  <2>1. CASE nonblock[p]
    <3>0. Return(p) /\ q2' = q2
      BY <1>15, <2>1 DEF WriteFull
    <3>1. /\ pc' \in [Procs -> Pcs] /\ left' \in [Procs -> 0..MaxLen]
          /\ nonblock' \in [Procs -> BOOLEAN] /\ lock' \in Procs \cup {NoProc}
      BY <3>0 DEF Return, Goto, TypeRest, Pcs
    <3> QED BY <1>15, <3>0, <3>1 DEF WriteFull, TypeRest
  <2>2. CASE ~nonblock[p]
    <3>1. /\ pc' \in [Procs -> Pcs] /\ q2' \subseteq Procs
          /\ lock' \in Procs \cup {NoProc} /\ UNCHANGED <<left, nonblock>>
      BY <1>15, <2>2 DEF WriteFull, Goto, TypeRest, Pcs
    <3> QED BY <1>15, <3>1 DEF WriteFull, TypeRest
  <2> QED BY <2>1, <2>2
<1>16. ASSUME NEW p \in Procs, WriteReturn(p) PROVE TypeRest'
  BY <1>16 DEF WriteReturn, Return, Goto, TypeRest, Pcs
<1>17. ASSUME NEW p \in Procs, SelectSleep(p) PROVE TypeRest'
  BY <1>17 DEF SelectSleep, Goto, TypeRest, Pcs
<1>18. ASSUME NEW p \in Procs, SelectWoken(p) PROVE TypeRest'
  BY <1>18 DEF SelectWoken, Goto, TypeRest, Pcs
<1>19. ASSUME NEW p \in Procs, Interrupted(p) PROVE TypeRest'
  BY <1>19 DEF Interrupted, Return, Goto, TypeRest, Pcs
<1> QED
  BY <1>1, <1>2, <1>3, <1>4, <1>5, <1>6, <1>7, <1>8, <1>9, <1>10,
     <1>11, <1>12, <1>13, <1>14, <1>15, <1>16, <1>17, <1>18, <1>19, NextCases

\* Nobody else puts bytes while a writer's test for room grows stale, and the
\* interrupt stops at the last slot.
LEMMA StaleRoomStep ==
    TypeOK /\ StaleRoom /\ [Next]_vars => StaleRoom'
<1> SUFFICES ASSUME TypeOK, StaleRoom, [Next]_vars PROVE StaleRoom'
  OBVIOUS
<1>a. /\ ring \in Ring /\ ring.count \in Int /\ RingSize \in Int
      /\ pc \in [Procs -> Pcs] /\ left \in [Procs -> 0..MaxLen]
      /\ cpr \in Byte \cup {NoByte}
  BY Sizes DEF TypeOK, Ring
<1>1. CASE UNCHANGED vars
  BY <1>1, <1>a DEF vars, StaleRoom, Writing, Pcs
<1>2. ASSUME NEW x \in Byte, BoardByte(x) PROVE StaleRoom'
  BY <1>2, <1>a DEF BoardByte, StaleRoom, Writing, Pcs
<1>3. CASE Cpr
  <2>1. ring'.count <= RingSize \/ ring' = ring
    <3>1. CASE ring.count <= RingSize - 1
      <4>1. cpr \in Byte /\ ring' = ringbuf_put(ring, cpr)
        BY <1>3, <1>a, <3>1 DEF Cpr
      <4>2. ringbuf_put(ring, cpr).count = ring.count + 1
        BY <1>a, <4>1, PutFacts
      <4> QED BY <1>a, <3>1, <4>1, <4>2
    <3> QED BY <1>3, <3>1 DEF Cpr
  <2> QED BY <1>3, <1>a, <2>1 DEF Cpr, StaleRoom, Writing
<1>4. CASE Reset
  <2>1. ring_reset(ring).count = 0 /\ 0 <= RingSize
    BY <1>a, ResetFacts, Sizes
  <2> QED BY <1>4, <1>a, <2>1 DEF Reset, StaleRoom, Writing
<1>5. CASE Open
  BY <1>5, <1>a DEF Open, StaleRoom, Writing, Pcs
<1>6. CASE Release
  BY <1>6, <1>a DEF Release, StaleRoom, Writing, Pcs
<1>7. ASSUME NEW p \in Procs, Begin(p) PROVE StaleRoom'
  BY <1>7, <1>a DEF Begin, Start, Goto, StaleRoom, Writing, Pcs
<1>8. ASSUME NEW p \in Procs, ReadByte(p) PROVE StaleRoom'
  <2>1. ringbuf_get(ring).count = ring.count - 1
    BY <1>8, <1>a, GetFacts DEF ReadByte
  <2>2. ring'.count = ring.count - 1
    BY <1>8, <2>1 DEF ReadByte
  <2>3. pc' = pc /\ pc[p] = "rd" /\ left' = [left EXCEPT ![p] = @ - 1]
    BY <1>8 DEF ReadByte, Reading
  <2> QED BY <1>a, <2>2, <2>3 DEF StaleRoom, Writing
<1>9. ASSUME NEW p \in Procs, ReadEmpty(p) PROVE StaleRoom'
  BY <1>9, <1>a DEF ReadEmpty, Return, Goto, StaleRoom, Writing, Pcs
<1>10. ASSUME NEW p \in Procs, ReadWoken(p) PROVE StaleRoom'
  BY <1>10, <1>a DEF ReadWoken, Goto, StaleRoom, Writing, Pcs
<1>11. ASSUME NEW p \in Procs, ReadReturn(p) PROVE StaleRoom'
  BY <1>11, <1>a DEF ReadReturn, Return, Goto, StaleRoom, Writing, Pcs
<1>12. ASSUME NEW p \in Procs, WriteByte(p) PROVE StaleRoom'
  <2>1. pc' = pc /\ pc[p] = "wr"
    BY <1>12 DEF WriteByte
  <2>2. \A q \in Procs : pc[q] # "wrfault"
    BY <2>1 DEF StaleRoom, Writing
  <2> QED BY <2>1, <2>2 DEF StaleRoom, Writing
<1>13. ASSUME NEW p \in Procs, WriteFault(p) PROVE StaleRoom'
  BY <1>13, <1>a DEF WriteFault, Goto, StaleRoom, Writing, Pcs
<1>14. ASSUME NEW p \in Procs, WriteFaulted(p) PROVE StaleRoom'
  <2>1. pc' = [pc EXCEPT ![p] = "wr"] /\ pc[p] = "wrfault"
    BY <1>14 DEF WriteFaulted, Goto
  <2>2. \A q \in Procs \ {p} : pc[q] \notin Writing
    BY <2>1 DEF StaleRoom, Writing
  <2> QED BY <1>a, <2>1, <2>2 DEF StaleRoom, Writing
<1>15. ASSUME NEW p \in Procs, WriteFull(p) PROVE StaleRoom'
  BY <1>15, <1>a DEF WriteFull, Return, Goto, StaleRoom, Writing, Pcs
<1>16. ASSUME NEW p \in Procs, WriteReturn(p) PROVE StaleRoom'
  BY <1>16, <1>a DEF WriteReturn, Return, Goto, StaleRoom, Writing, Pcs
<1>17. ASSUME NEW p \in Procs, SelectSleep(p) PROVE StaleRoom'
  BY <1>17, <1>a DEF SelectSleep, Goto, StaleRoom, Writing, Pcs
<1>18. ASSUME NEW p \in Procs, SelectWoken(p) PROVE StaleRoom'
  BY <1>18, <1>a DEF SelectWoken, Goto, StaleRoom, Writing, Pcs
<1>19. ASSUME NEW p \in Procs, Interrupted(p) PROVE StaleRoom'
  BY <1>19, <1>a DEF Interrupted, Return, Goto, StaleRoom, Writing, Pcs
<1> QED
  BY <1>1, <1>2, <1>3, <1>4, <1>5, <1>6, <1>7, <1>8, <1>9, <1>10,
     <1>11, <1>12, <1>13, <1>14, <1>15, <1>16, <1>17, <1>18, <1>19, NextCases

----------------------------------------------------------------------------
\* Every step keeps the two indexes count apart, and count within the size until
\* a byte is put into a full ring.
LEMMA GeometryStep ==
    TypeOK /\ StaleRoom /\ Geometry /\ [Next]_vars => Geometry'
<1> SUFFICES ASSUME TypeOK, StaleRoom, Geometry, [Next]_vars PROVE Geometry'
  OBVIOUS
<1> DEFINE r == ring.read_index  w == ring.write_index  n == ring.count
<1>1. /\ ring \in Ring /\ r \in Nat /\ w \in Nat /\ n \in Nat /\ over \in BOOLEAN
      /\ IndexMod \in Nat \ {0} /\ RingSize \in Nat
  BY Sizes DEF TypeOK, Ring
<1>2. w = ((r + n) % IndexMod) /\ (~over => n <= RingSize)
  BY DEF Geometry
<1>3. CASE RingSame
  BY <1>3 DEF RingSame, Geometry
<1>4. CASE RingGet
  <2>1. ring' = ringbuf_get(ring) /\ n > 0 /\ over' = over
    BY <1>4 DEF RingGet
  <2>2. /\ ring'.count = n - 1 /\ ring'.write_index = w
        /\ ring'.read_index = ((r + 1) % IndexMod)
    BY <1>1, <2>1, GetFacts
  <2> HIDE DEF r, w, n
  <2>3. n - 1 \in Nat /\ r + 1 \in Nat /\ (r + 1) + (n - 1) = r + n
    BY <1>1, <2>1
  <2>4. ((((r + 1) % IndexMod) + (n - 1)) % IndexMod) = (((r + 1) + (n - 1)) % IndexMod)
    BY <1>1, <2>3, ModAdd
  <2>5. ring'.write_index = ((ring'.read_index + ring'.count) % IndexMod)
    BY <1>2, <2>2, <2>3, <2>4
  <2>6. ~over' => ring'.count <= RingSize
    BY <1>1, <1>2, <2>1, <2>2
  <2> QED BY <2>5, <2>6 DEF Geometry
<1>5. CASE RingReset
  <2>1. /\ ring' = ring_reset(ring) /\ ring'.count = 0
        /\ ring'.read_index = 0 /\ ring'.write_index = 0
    BY <1>1, <1>5, ResetFacts DEF RingReset
  <2>2. ((0 + 0) % IndexMod) = 0 /\ 0 <= RingSize
    BY <1>1
  <2> QED BY <2>1, <2>2 DEF Geometry
<1>6. ASSUME NEW x \in Byte, RingPut(x) \/ RingOver(x) PROVE Geometry'
  <2>1. ring' = ringbuf_put(ring, x)
    BY <1>6 DEF RingPut, RingOver
  <2>2. /\ ring'.count = n + 1 /\ ring'.read_index = r
        /\ ring'.write_index = ((w + 1) % IndexMod)
    BY <1>1, <2>1, PutFacts
  <2>3. ~over' => n < RingSize
    BY <1>6 DEF RingPut, RingOver
  <2> HIDE DEF r, w, n
  <2>4. r + n \in Nat /\ (r + n) + 1 = r + (n + 1)
    BY <1>1
  <2>5. ((((r + n) % IndexMod) + 1) % IndexMod) = (((r + n) + 1) % IndexMod)
    BY <1>1, <2>4, ModAdd
  <2>6. ring'.write_index = ((ring'.read_index + ring'.count) % IndexMod)
    BY <1>2, <2>2, <2>4, <2>5
  <2>7. ~over' => ring'.count <= RingSize
    BY <1>1, <2>2, <2>3
  <2> QED BY <2>6, <2>7 DEF Geometry
<1> QED BY <1>3, <1>4, <1>5, <1>6, RingSteps

\* The interrupt wakes all of wake_queue1, and nobody joins it with bytes in the
\* ring.
LEMMA ReaderStep ==
    TypeOK /\ ReaderNotLost /\ [Next]_vars => ReaderNotLost'
<1> SUFFICES ASSUME TypeOK, ReaderNotLost, [Next]_vars PROVE ReaderNotLost'
  OBVIOUS
<1>a. /\ ring \in Ring /\ ring.count \in Nat /\ pc \in [Procs -> Pcs]
      /\ q1 \subseteq Procs
  BY DEF TypeOK, Ring
<1>1. CASE UNCHANGED vars
  BY <1>1, <1>a DEF vars, ReaderNotLost
<1>2. ASSUME NEW x \in Byte, BoardByte(x) PROVE ReaderNotLost'
  BY <1>2, <1>a DEF BoardByte, ReaderNotLost
<1>3. CASE Cpr
  BY <1>3, <1>a DEF Cpr, ReaderNotLost
<1>4. CASE Reset
  <2>1. ring'.count = 0
    BY <1>4, <1>a, ResetFacts DEF Reset
  <2> QED BY <2>1 DEF ReaderNotLost
<1>5. CASE Open
  BY <1>5, <1>a DEF Open, ReaderNotLost
<1>6. CASE Release
  BY <1>6, <1>a DEF Release, ReaderNotLost
<1>7. ASSUME NEW p \in Procs, Begin(p) PROVE ReaderNotLost'
  BY <1>7, <1>a DEF Begin, Start, Goto, ReaderNotLost
<1>8. ASSUME NEW p \in Procs, ReadByte(p) PROVE ReaderNotLost'
  <2>1. ring'.count = ring.count - 1
    BY <1>8, <1>a, GetFacts DEF ReadByte
  <2>2. UNCHANGED <<pc, q1, looped>>
    BY <1>8 DEF ReadByte
  <2> QED BY <1>a, <2>1, <2>2 DEF ReaderNotLost
<1>9. ASSUME NEW p \in Procs, ReadEmpty(p) PROVE ReaderNotLost'
  BY <1>9, <1>a DEF ReadEmpty, Return, Goto, ReaderNotLost
<1>10. ASSUME NEW p \in Procs, ReadWoken(p) PROVE ReaderNotLost'
  BY <1>10, <1>a DEF ReadWoken, Goto, ReaderNotLost
<1>11. ASSUME NEW p \in Procs, ReadReturn(p) PROVE ReaderNotLost'
  BY <1>11, <1>a DEF ReadReturn, Return, Goto, ReaderNotLost
<1>12. ASSUME NEW p \in Procs, WriteByte(p) PROVE ReaderNotLost'
  BY <1>12, <1>a DEF WriteByte, PutByte, ReaderNotLost
<1>13. ASSUME NEW p \in Procs, WriteFault(p) PROVE ReaderNotLost'
  BY <1>13, <1>a DEF WriteFault, Goto, ReaderNotLost
<1>14. ASSUME NEW p \in Procs, WriteFaulted(p) PROVE ReaderNotLost'
  BY <1>14, <1>a DEF WriteFaulted, PutByte, Goto, ReaderNotLost
<1>15. ASSUME NEW p \in Procs, WriteFull(p) PROVE ReaderNotLost'
  BY <1>15, <1>a DEF WriteFull, Return, Goto, ReaderNotLost
<1>16. ASSUME NEW p \in Procs, WriteReturn(p) PROVE ReaderNotLost'
  BY <1>16, <1>a DEF WriteReturn, Return, Goto, ReaderNotLost
<1>17. ASSUME NEW p \in Procs, SelectSleep(p) PROVE ReaderNotLost'
  BY <1>17, <1>a DEF SelectSleep, Goto, ReaderNotLost
<1>18. ASSUME NEW p \in Procs, SelectWoken(p) PROVE ReaderNotLost'
  BY <1>18, <1>a DEF SelectWoken, Goto, ReaderNotLost
<1>19. ASSUME NEW p \in Procs, Interrupted(p) PROVE ReaderNotLost'
  BY <1>19, <1>a DEF Interrupted, Return, Goto, ReaderNotLost
<1> QED
  BY <1>1, <1>2, <1>3, <1>4, <1>5, <1>6, <1>7, <1>8, <1>9, <1>10,
     <1>11, <1>12, <1>13, <1>14, <1>15, <1>16, <1>17, <1>18, <1>19, NextCases

----------------------------------------------------------------------------
(* The refinement.                                                          *)

\* A step of the ring is a step of the bounded FIFO.
LEMMA FifoStep ==
    Inv /\ [Next]_vars => [Fifo!Next]_<<Contents(ring), over>>
<1> SUFFICES ASSUME Inv, [Next]_vars
             PROVE  Fifo!Next \/ UNCHANGED <<Contents(ring), over>>
  OBVIOUS
<1>1. /\ ring \in Ring /\ ring.count \in Nat /\ over \in BOOLEAN /\ RingSize \in Nat
      /\ ring.write_index = ((ring.read_index + ring.count) % IndexMod)
      /\ (~over => ring.count <= RingSize)
  BY Sizes DEF Inv, TypeOK, Geometry, Ring
<1>2. Len(Contents(ring)) = ring.count
  BY <1>1, ContentsFacts
<1>3. over /\ over' = TRUE => Fifo!Next
  BY DEF Fifo!Next, Fifo!Broken
<1>4. CASE RingSame
  <2>1. Contents(ring)' = Contents(ring) /\ over' = over
    BY <1>4 DEF RingSame, Contents
  <2> QED BY <2>1
<1>5. CASE RingGet
  <2>1. /\ Contents(ringbuf_get(ring)) = Tail(Contents(ring))
        /\ Contents(ring) # <<>>
    BY <1>1, <1>5, GetTails DEF RingGet
  <2>2. Contents(ring)' = Tail(Contents(ring)) /\ over' = over
    BY <1>5, <2>1 DEF RingGet, Contents
  <2>3. Fifo!Get
    BY <2>1, <2>2 DEF Fifo!Get
  <2> QED BY <2>3 DEF Fifo!Next
<1>6. CASE RingReset
  <2>1. ring' = ring_reset(ring) /\ ring_reset(ring) \in Ring /\ ring_reset(ring).count = 0
    BY <1>1, <1>6, ResetFacts DEF RingReset
  <2>2. Contents(ring_reset(ring)) \in Seq(Byte) /\ Len(Contents(ring_reset(ring))) = 0
    BY <2>1, ContentsFacts
  <2>3. Contents(ring_reset(ring)) = <<>>
    BY <2>2
  <2>4. Contents(ring)' = <<>> /\ over' = FALSE
    BY <1>6, <2>1, <2>3 DEF RingReset, Contents
  <2>5. Fifo!Clear
    BY <2>4 DEF Fifo!Clear
  <2> QED BY <2>5 DEF Fifo!Next
<1>7. ASSUME NEW x \in Byte, RingPut(x)
      PROVE  Fifo!Next
  <2>1. Contents(ringbuf_put(ring, x)) = Append(Contents(ring), x)
    BY <1>1, <1>7, PutAppends DEF RingPut
  <2>2. Contents(ring)' = Append(Contents(ring), x) /\ over' = over
    BY <1>7, <2>1 DEF RingPut, Contents
  <2>3. Fifo!Put(x)
    BY <1>2, <1>7, <2>2 DEF RingPut, Fifo!Put
  <2> QED BY <2>3 DEF Fifo!Next
<1>8. ASSUME NEW x \in Byte, RingOver(x)
      PROVE  Fifo!Next
  <2>1. Fifo!Overrun
    BY <1>2, <1>8 DEF RingOver, Fifo!Overrun
  <2> QED BY <2>1 DEF Fifo!Next
<1> QED BY <1>4, <1>5, <1>6, <1>7, <1>8, RingSteps DEF Inv

\* The ring starts empty, in its type and in its geometry.
LEMMA InitFacts == Init => Inv /\ ReaderNotLost /\ Contents(ring) = <<>>
<1> SUFFICES ASSUME Init PROVE Inv /\ ReaderNotLost /\ Contents(ring) = <<>>
  OBVIOUS
<1>1. (CHOOSE b \in Byte : TRUE) \in Byte
  BY ConstAssumption
<1>2. /\ ring.buf \in [0..RingSize-1 -> Byte] /\ ring.count = 0
      /\ ring.read_index = 0 /\ ring.write_index = 0
  BY <1>1 DEF Init, EmptyRing
<1>3. ring \in Ring /\ ring.count <= RingSize + 1
  BY <1>1, <1>2, Sizes DEF Init, EmptyRing, Ring
<1>4. TypeRest /\ over \in BOOLEAN
  <2>1. pc \in [Procs -> Pcs] /\ left \in [Procs -> 0..MaxLen]
    BY ConstAssumption DEF Init, Pcs
  <2>2. nonblock \in [Procs -> BOOLEAN]
    BY DEF Init
  <2> QED BY <2>1, <2>2 DEF Init, TypeRest
<1>5. TypeOK
  BY <1>3, <1>4, Sizes DEF TypeOK, TypeRest, Ring
<1>6. StaleRoom
  BY DEF Init, StaleRoom, Writing
<1>7. Geometry
  <2>1. ((0 + 0) % IndexMod) = 0 /\ 0 <= RingSize
    BY Sizes
  <2> QED BY <1>2, <2>1 DEF Geometry
<1>8. ReaderNotLost
  BY DEF Init, ReaderNotLost
<1>9. Contents(ring) = <<>>
  <2>1. Contents(ring) \in Seq(Byte) /\ Len(Contents(ring)) = 0
    BY <1>2, <1>3, ContentsFacts
  <2> QED BY <2>1
<1> QED BY <1>5, <1>6, <1>7, <1>8, <1>9 DEF Inv

\* The inductive invariant: the types, the one writer and its stale test for
\* room, and the geometry of the ring.
LEMMA Invariance == Spec => []Inv
<1>1. Init => Inv
  BY InitFacts
<1>2. Inv /\ [Next]_vars => Inv'
  <2> SUFFICES ASSUME Inv, [Next]_vars PROVE Inv'
    OBVIOUS
  <2>1. TypeOK /\ StaleRoom /\ Geometry /\ TypeRest
    BY DEF Inv, TypeOK, TypeRest
  <2>2. TypeRest'
    BY <2>1, TypeRestStep
  <2>3. ring' \in Ring /\ ring'.count <= RingSize + 1 /\ over' \in BOOLEAN
    BY <2>1, RingTypeStep
  <2>4. TypeOK'
    BY <2>2, <2>3, Sizes DEF TypeOK, TypeRest, Ring
  <2>5. StaleRoom' /\ Geometry'
    BY <2>1, StaleRoomStep, GeometryStep
  <2> QED BY <2>4, <2>5 DEF Inv
<1> QED BY <1>1, <1>2, PTL DEF Spec

\* The control plane's state keeps its types; count never exceeds the ring's size
\* by more than the one byte a writer can put on a stale test.
THEOREM ControlTyping == Spec => []TypeOK
<1>1. Inv => TypeOK
  BY DEF Inv
<1> QED BY <1>1, Invariance, PTL

\* The ring of mrp_cpr, mrp_read and mrp_write implements a bounded FIFO across
\* the wrap of its indexes, for every size and width, until the overrun.
THEOREM RingImplementsFifo == Spec => RingIsFifo
<1>1. Init => Fifo!Init
  BY InitFacts DEF Init, Fifo!Init
<1>2. Inv /\ [Next]_vars => [Fifo!Next]_<<Contents(ring), over>>
  BY FifoStep
<1> QED BY <1>1, <1>2, Invariance, PTL DEF Spec, RingIsFifo, Fifo!Spec

\* No reader and no select sleeps on bytes that the interrupt has stored.
THEOREM ReaderWoken == Spec => []ReaderNotLost
<1>1. Init => ReaderNotLost
  BY InitFacts
<1>2. Inv => TypeOK
  BY DEF Inv
<1> QED BY <1>1, <1>2, ReaderStep, Invariance, PTL DEF Spec

\* Once enabled, CPR is disabled only over a byte the board still holds.
LEMMA HeldStep ==
    (cprOn \/ cpr # NoByte) /\ TypeOK /\ [Next]_vars => (cprOn \/ cpr # NoByte)'
<1> SUFFICES ASSUME cprOn \/ cpr # NoByte, TypeOK, [Next]_vars
             PROVE  cprOn' \/ cpr' # NoByte
  OBVIOUS
<1> USE ConstAssumption
<1>1. CASE UNCHANGED vars
  BY <1>1 DEF vars, TypeOK
<1>2. ASSUME NEW x \in Byte, BoardByte(x) PROVE cprOn' \/ cpr' # NoByte
  BY <1>2 DEF BoardByte, TypeOK
<1>3. CASE Cpr
  BY <1>3 DEF Cpr, TypeOK
<1>4. CASE Reset
  BY <1>4 DEF Reset, TypeOK
<1>5. CASE Open
  BY <1>5 DEF Open, TypeOK
<1>6. CASE Release
  BY <1>6 DEF Release, TypeOK
<1>7. ASSUME NEW p \in Procs, Begin(p) PROVE cprOn' \/ cpr' # NoByte
  BY <1>7 DEF Begin, Start, Goto, TypeOK
<1>8. ASSUME NEW p \in Procs, ReadByte(p) PROVE cprOn' \/ cpr' # NoByte
  BY <1>8 DEF ReadByte, TypeOK
<1>9. ASSUME NEW p \in Procs, ReadEmpty(p) PROVE cprOn' \/ cpr' # NoByte
  BY <1>9 DEF ReadEmpty, Return, Goto, TypeOK
<1>10. ASSUME NEW p \in Procs, ReadWoken(p) PROVE cprOn' \/ cpr' # NoByte
  BY <1>10 DEF ReadWoken, Goto, TypeOK
<1>11. ASSUME NEW p \in Procs, ReadReturn(p) PROVE cprOn' \/ cpr' # NoByte
  BY <1>11 DEF ReadReturn, Return, Goto, TypeOK
<1>12. ASSUME NEW p \in Procs, WriteByte(p) PROVE cprOn' \/ cpr' # NoByte
  BY <1>12 DEF WriteByte, PutByte
<1>13. ASSUME NEW p \in Procs, WriteFault(p) PROVE cprOn' \/ cpr' # NoByte
  BY <1>13 DEF WriteFault, Goto, TypeOK
<1>14. ASSUME NEW p \in Procs, WriteFaulted(p) PROVE cprOn' \/ cpr' # NoByte
  BY <1>14 DEF WriteFaulted, PutByte, Goto, TypeOK
<1>15. ASSUME NEW p \in Procs, WriteFull(p) PROVE cprOn' \/ cpr' # NoByte
  BY <1>15 DEF WriteFull, Return, Goto, TypeOK
<1>16. ASSUME NEW p \in Procs, WriteReturn(p) PROVE cprOn' \/ cpr' # NoByte
  BY <1>16 DEF WriteReturn, Return, Goto, TypeOK
<1>17. ASSUME NEW p \in Procs, SelectSleep(p) PROVE cprOn' \/ cpr' # NoByte
  BY <1>17 DEF SelectSleep, Goto, TypeOK
<1>18. ASSUME NEW p \in Procs, SelectWoken(p) PROVE cprOn' \/ cpr' # NoByte
  BY <1>18 DEF SelectWoken, Goto, TypeOK
<1>19. ASSUME NEW p \in Procs, Interrupted(p) PROVE cprOn' \/ cpr' # NoByte
  BY <1>19 DEF Interrupted, Return, Goto, TypeOK
<1> QED
  BY <1>1, <1>2, <1>3, <1>4, <1>5, <1>6, <1>7, <1>8, <1>9, <1>10,
     <1>11, <1>12, <1>13, <1>14, <1>15, <1>16, <1>17, <1>18, <1>19, NextCases

\* Flow control loses no byte of the board.
THEOREM FlowControl == Spec => HeldByte
<1> DEFINE Held == cprOn \/ cpr # NoByte
<1>1. Held /\ TypeOK /\ [Next]_vars => Held'
  BY HeldStep
<1>2. cprOn => Held
  OBVIOUS
<1> HIDE DEF Held
<1>3. Spec => [](cprOn => []Held)
  BY <1>1, <1>2, ControlTyping, PTL DEF Spec
<1> QED BY <1>3 DEF HeldByte, Held

=============================================================================
