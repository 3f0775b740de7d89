--------------------------- MODULE MrpStartProofs ---------------------------
(***************************************************************************)
(* Theorems about loading and unloading the MRP driver, for any number of   *)
(* units and lines: a handler that is on a line finds its unit complete,    *)
(* the unload gives back what the load has taken, and the interface of a    *)
(* unit settles whatever the power timer does to it meanwhile.              *)
(***************************************************************************)
EXTENDS MrpStart, TLAPS

\* Where the module is: bringing a unit up, before and from the first request_irq
\* that succeeded, and taking a unit down, before and after free_irq.
Resets == {"reset1", "reset2", "reset3", "reset4", "reset5", "reset6", "reset7", "reset8"}
Arming == {"irq2", "valid"} \cup Resets
Loading == {"alloc", "irq1"} \cup Arming
Downing == {"unit", "off1", "off2", "off3", "off4", "freeirq"}
Cleanup == Downing \cup {"free"}

PcOK == pc \in {"unloaded", "probe", "register", "loaded"} \cup Loading \cup Cleanup

\* Buffers and valid units exist only with a major number.
MajorOK ==
    /\ pc \in Loading \cup Cleanup => major
    /\ pc \in {"probe", "register"} => ~major
    /\ ~major => \A u \in Units : "VALID" \notin flags[u] /\ ptr[u] \cap Bufs = {}

\* The units a loop has still to reach are untouched by it.
Ahead ==
    /\ pc = "probe" => \A u \in Units : u >= unit => ptr[u] = {}
    /\ pc \in Loading => \A u \in Units : u >= unit => "VALID" \notin flags[u]

\* A detected unit has its three mappings until the cleanup frees them.
Mapped(u) == Bases \subseteq ptr[u] /\ {u} \X Bases \subseteq maps
Detected ==
    pc \notin Cleanup \cup {"unloaded"} =>
        \A u \in Units : "DETECT" \in flags[u] => Mapped(u)

\* What mrp_interrupt uses of a unit.
Ready(u) == /\ Bases \cup Bufs \subseteq ptr[u]
            /\ {u} \X Bases \subseteq maps /\ {u} \X Bufs \subseteq mem

\* A line has a handler of the unit; it has not two.
Has(s, u) == \E i \in DOMAIN s : s[i].dev = u
Once(s, u) == \A i, j \in DOMAIN s : s[i].dev = u /\ s[j].dev = u => i = j

\* A unit's handler stays on its line from the unit's request_irq to its free_irq:
\* until the unit is valid the load is at it, and the cleanup has not reached it
\* or is about to free it.
Phase(u) ==
    \/ pc \in Arming /\ u = unit
    \/ /\ "VALID" \in flags[u]
       /\ \/ pc \in Loading \cup {"loaded"}
          \/ pc \in Downing /\ u >= unit
          \/ pc = "free" /\ u > unit

\* It is on the unit's own line, once, and only while the unit is complete.
Handlers ==
    /\ pc \in {"irq1", "irq2"} => Ready(unit)
    /\ \A l \in Lines, u \in Units : Handles(l, u) =>
         l = irq[u] /\ Once(chain[l], u) /\ Ready(u) /\ Phase(u)

\* Between the two calls of request_irq the line belongs to fast handlers, so the
\* second, for a slow one, fails: no unit is left with two handlers.
FastFirst ==
    pc = "irq2" => chain[irq[unit]] # <<>> /\ Head(chain[irq[unit]]).fast = TRUE

\* What the kernel holds for the driver is what its pointers say, except for the
\* mappings that cannot be freed; the pointers of a unit taken down are null.
Owned ==
    /\ \A u \in Units, b \in Bufs : <<u, b>> \in mem => b \in ptr[u]
    /\ \A u \in Units, b \in Bases : <<u, b>> \in maps => b \in ptr[u] \cup Offset
    /\ pc \in Cleanup => \A u \in Units : u < unit => ptr[u] = {}
    /\ pc = "unloaded" /\ major => \A u \in Units : ptr[u] = {}

\* The interface while the load resets it and after: bit 5 stays clear from the
\* first store on, in the register and in the copies loaded from it.
Rising ==
    /\ pc \in Resets \ {"reset1", "reset2"} => pif[unit].off = FALSE
    /\ pc \in {"reset4", "reset6"} => temp.off = FALSE
    /\ pc \in {"reset7", "reset8"} => pif[unit].rst = FALSE
    /\ pc = "valid" => pif[unit] = Up
    /\ pc \in Loading \cup {"loaded"} =>
         \A u \in Units : "VALID" \in flags[u] => pif[u] = Up

\* The same on the way down, for the units that the power timer leaves alone.
Down(u) == pif[u].off = TRUE /\ pif[u].on = FALSE
Falling ==
    /\ pc \in {"off3", "off4"} /\ unit # PowUnit => pif[unit].off = TRUE
    /\ pc = "freeirq" /\ unit # PowUnit => Down(unit)
    /\ pc = "free" /\ unit # PowUnit /\ "VALID" \in flags[unit] => Down(unit)
    /\ pc \in Cleanup =>
         \A u \in Units : u < unit /\ u # PowUnit /\ "VALID" \in flags[u] => Down(u)
    /\ pc = "unloaded" =>
         \A u \in Units : u # PowUnit /\ "VALID" \in flags[u] => Down(u)

Inv == /\ TypeOK /\ PcOK /\ MajorOK /\ Ahead /\ Detected
       /\ Handlers /\ FastFirst /\ Owned /\ Rising /\ Falling

----------------------------------------------------------------------------
(* What the statements on the interface's registers do.                     *)

\* One statement of the reset of mrp_init, or of the power-off of cleanup_module:
\* the register and the program counter move, nothing else does.
Others == UNCHANGED <<flags, ptr, irq, kernel, major, enable, unit>>
RegUp == pc \in Resets /\ pc' \in Resets \cup {"valid"} /\ Others
RegDown == pc \in {"off1", "off2", "off3", "off4"}
           /\ pc' \in {"off2", "off3", "off4", "freeirq"} /\ Others
UnitTest ==
    /\ pc = "unit"
    /\ IF "VALID" \in flags[unit] THEN pc' = "off1" ELSE pc' = "free"
    /\ UNCHANGED <<flags, ptr, irq, kernel, major, pifs, enable, unit>>
OffStep == \/ LoadWord("off1", "off2") \/ StoreWord("off2", "off3", Idk50("off", TRUE))
           \/ LoadWord("off3", "off4") \/ StoreWord("off4", "freeirq", Idk4c(FALSE))

\* The disjuncts of Next, one by one: what the steps below split on.
LEMMA NextCases ==
    ASSUME [Next]_vars
    PROVE  \/ UNCHANGED vars
           \/ Load \/ NoBoard \/ Probe \/ Register
           \/ SkipUnit \/ Alloc \/ RequestFast \/ RequestSlow \/ Reset \/ SetValid
           \/ Unload \/ UnitTest \/ OffStep \/ free_irq \/ Free
           \/ PowTimer \/ IocTimer
BY DEF Next, UnitDown, UnitTest, OffStep, Goto

\* The statements on the registers as the other invariants see them.
LEMMA RegSteps == (Reset => RegUp) /\ (OffStep => RegDown)
<1>1. Reset => RegUp
  BY DEF Reset, LoadWord, StoreWord, Goto, Resets, RegUp, Others
<1>2. OffStep => RegDown
  BY DEF OffStep, LoadWord, StoreWord, Goto, RegDown, Others
<1> QED BY <1>1, <1>2

\* A loop goes on with the next unit or ends with the last.
LEMMA UnitSteps ==
    ASSUME unit \in Units, NEW l, NEW after, NextUnit(l, after)
    PROVE  /\ unit' \in Units
           /\ \/ pc' = l /\ unit' = unit + 1
              \/ pc' = after /\ unit' = 0 /\ \A u \in Units : u <= unit
BY ConstAssumption DEF NextUnit, Units

\* A store to idk50 replaces its two bits, one to idk4c the third.
LEMMA WordFacts ==
    ASSUME TypeOK, NEW v \in BOOLEAN
    PROVE  /\ Idk50("off", v) \in Words /\ Idk50("off", v).rst = temp.rst
           /\ Idk50("off", v).off = v /\ Idk50("off", v).on = pif[unit].on
           /\ Idk50("rst", v) \in Words /\ Idk50("rst", v).rst = v
           /\ Idk50("rst", v).off = temp.off /\ Idk50("rst", v).on = pif[unit].on
           /\ Idk4c(v) \in Words /\ Idk4c(v).rst = pif[unit].rst
           /\ Idk4c(v).off = pif[unit].off /\ Idk4c(v).on = v
<1>1. pif[unit] \in Words /\ temp \in Words
  BY DEF TypeOK
<1>2. /\ Idk50("off", v) \in Words /\ Idk50("off", v).rst = temp.rst
      /\ Idk50("off", v).off = v /\ Idk50("off", v).on = pif[unit].on
  BY <1>1 DEF Idk50, Words
<1>3. /\ Idk50("rst", v) \in Words /\ Idk50("rst", v).rst = v
      /\ Idk50("rst", v).off = temp.off /\ Idk50("rst", v).on = pif[unit].on
  BY <1>1 DEF Idk50, Words
<1>4. /\ Idk4c(v) \in Words /\ Idk4c(v).rst = pif[unit].rst
      /\ Idk4c(v).off = pif[unit].off /\ Idk4c(v).on = v
  BY <1>1 DEF Idk4c, Words
<1> QED BY <1>2, <1>3, <1>4

\* The word of an interface that is up, by its bits.
LEMMA UpWord ==
    /\ Up \in Words
    /\ \A w \in Words : w = Up <=> w.rst = FALSE /\ w.off = FALSE /\ w.on = TRUE
BY DEF Up, Words

----------------------------------------------------------------------------
(* What the interrupt lines look like.                                      *)

\* A sequence without its element at k.
LEMMA RemoveAtFacts ==
    ASSUME NEW S, NEW s \in Seq(S), NEW k \in 1..Len(s)
    PROVE  /\ RemoveAt(s, k) \in Seq(S) /\ Len(RemoveAt(s, k)) = Len(s) - 1
           /\ \A i \in 1..(Len(s) - 1) :
                 RemoveAt(s, k)[i] = IF i < k THEN s[i] ELSE s[i + 1]
<1> DEFINE a == SubSeq(s, 1, k - 1)
           b == SubSeq(s, k + 1, Len(s))
<1>1. /\ a \in Seq(S) /\ Len(a) = k - 1
      /\ \A i \in 1..(k - 1) : a[i] = s[i]
  OBVIOUS
<1>2. /\ b \in Seq(S) /\ Len(b) = Len(s) - k
      /\ \A i \in 1..(Len(s) - k) : b[i] = s[i + k]
  OBVIOUS
<1> HIDE DEF a, b
<1>3. /\ a \o b \in Seq(S) /\ Len(a \o b) = Len(s) - 1
      /\ \A i \in 1..(Len(s) - 1) : (a \o b)[i] = IF i < k THEN s[i] ELSE s[i + 1]
  <2>1. a \in Seq(S) /\ b \in Seq(S)
    BY <1>1, <1>2
  <2>2. a \o b \in Seq(S)
    BY <2>1
  <2>3. Len(a \o b) = Len(a) + Len(b)
    BY <2>1
  <2>4. \A i \in 1..(Len(s) - 1) : (a \o b)[i] = IF i <= Len(a) THEN a[i] ELSE b[i - Len(a)]
    BY <1>1, <1>2
  <2>5. ASSUME NEW i \in 1..(Len(s) - 1)
        PROVE  (a \o b)[i] = IF i < k THEN s[i] ELSE s[i + 1]
    BY <1>1, <1>2, <2>4
  <2> QED BY <1>1, <1>2, <2>2, <2>3, <2>5
<1> QED BY <1>3 DEF RemoveAt, a, b

\* request_irq puts a handler behind the others of its line.
LEMMA AppendHas ==
    ASSUME NEW s \in Seq(Action), NEW e \in Action, NEW u
    PROVE  /\ Append(s, e) \in Seq(Action)
           /\ Has(Append(s, e), u) <=> Has(s, u) \/ e.dev = u
           /\ Once(s, u) /\ (Has(s, u) => e.dev # u) => Once(Append(s, e), u)
           /\ Append(s, e) # <<>>
           /\ Head(Append(s, e)) = IF s = <<>> THEN e ELSE Head(s)
<1> DEFINE t == Append(s, e)
<1>1. /\ t \in Seq(Action) /\ Len(t) = Len(s) + 1 /\ DOMAIN t = 1..(Len(s) + 1)
      /\ DOMAIN s = 1..Len(s) /\ Len(s) \in Nat
      /\ \A i \in 1..Len(s) : t[i] = s[i]
      /\ t[Len(s) + 1] = e
  OBVIOUS
<1> HIDE DEF t
<1>2. t # <<>> /\ Head(t) = IF s = <<>> THEN e ELSE Head(s)
  <2>1. t # <<>> /\ Head(t) = t[1]
    BY <1>1
  <2>2. CASE s = <<>>
    BY <1>1, <2>1, <2>2
  <2>3. CASE s # <<>>
    <3>1. 1 \in 1..Len(s) /\ Head(s) = s[1]
      BY <2>3
    <3> QED BY <1>1, <2>1, <2>3, <3>1
  <2> QED BY <2>2, <2>3
<1>3. Has(t, u) <=> Has(s, u) \/ e.dev = u
  BY <1>1 DEF Has
<1>4. ASSUME Once(s, u), Has(s, u) => e.dev # u PROVE Once(t, u)
  <2> SUFFICES ASSUME NEW i \in 1..(Len(s) + 1), NEW j \in 1..(Len(s) + 1),
                      t[i].dev = u, t[j].dev = u
               PROVE  i = j
    BY <1>1 DEF Once
  <2>1. CASE e.dev = u
    <3>1. \A k \in 1..Len(s) : s[k].dev # u
      BY <1>1, <1>4, <2>1 DEF Has
    <3> QED BY <1>1, <3>1
  <2>2. CASE e.dev # u
    <3>1. i \in 1..Len(s) /\ j \in 1..Len(s)
      BY <1>1, <2>2
    <3> QED BY <1>1, <1>4, <3>1 DEF Once
  <2> QED BY <2>1, <2>2
<1> QED BY <1>1, <1>2, <1>3, <1>4 DEF t

\* free_irq leaves the other handlers of the line, and no second one of the unit.
LEMMA RemoveHas ==
    ASSUME NEW s \in Seq(Action), NEW k \in 1..Len(s), NEW u
    PROVE  /\ RemoveAt(s, k) \in Seq(Action)
           /\ Has(RemoveAt(s, k), u) => Has(s, u)
           /\ Once(s, u) => Once(RemoveAt(s, k), u)
           /\ Once(s, u) /\ s[k].dev = u => ~Has(RemoveAt(s, k), u)
<1> DEFINE t == RemoveAt(s, k)
           at(i) == IF i < k THEN i ELSE i + 1
<1>1. /\ t \in Seq(Action) /\ Len(t) = Len(s) - 1
      /\ \A i \in 1..(Len(s) - 1) : t[i] = IF i < k THEN s[i] ELSE s[i + 1]
  BY RemoveAtFacts
<1>2. /\ DOMAIN t = 1..(Len(s) - 1) /\ DOMAIN s = 1..Len(s) /\ Len(s) \in Nat
  BY <1>1
<1> HIDE DEF t
<1>3. \A i \in 1..(Len(s) - 1) : at(i) \in 1..Len(s) /\ at(i) # k /\ t[i] = s[at(i)]
  BY <1>1, <1>2
<1>4. \A i, j \in 1..(Len(s) - 1) : at(i) = at(j) => i = j
  BY <1>2
<1> HIDE DEF at
<1>5. Has(t, u) => Has(s, u)
  BY <1>2, <1>3 DEF Has
<1>6. Once(s, u) => Once(t, u)
  BY <1>2, <1>3, <1>4 DEF Once
<1>7. Once(s, u) /\ s[k].dev = u => ~Has(t, u)
  BY <1>2, <1>3 DEF Once, Has
<1> QED BY <1>1, <1>5, <1>6, <1>7 DEF t

\* A first request_irq that succeeds leaves the line to fast handlers, with the
\* unit's own at its end.
LEMMA RequestFacts ==
    ASSUME TypeOK, RequestFast
    PROVE  LET new == [dev |-> unit, fast |-> TRUE, share |-> TRUE] IN
           \/ pc' = "reset1" /\ chain' = chain
           \/ /\ pc' = "irq2"
              /\ chain' = [chain EXCEPT ![irq[unit]] = Append(chain[irq[unit]], new)]
              /\ Head(Append(chain[irq[unit]], new)).fast = TRUE
<1> DEFINE new == [dev |-> unit, fast |-> TRUE, share |-> TRUE]
           s == chain[irq[unit]]
<1>1. s \in Seq(Action) /\ new \in Action
  BY DEF TypeOK, Action
<1>2. CASE request_irq(TRUE, FALSE) /\ pc' = "reset1"
  BY <1>2 DEF request_irq
<1>3. CASE request_irq(TRUE, TRUE) /\ pc' = "irq2"
  <2>1. CanAdd(irq[unit], new) /\ chain' = [chain EXCEPT ![irq[unit]] = Append(s, new)]
    BY <1>3 DEF request_irq
  <2>2. s = <<>> \/ Head(s).fast = TRUE
    BY <2>1 DEF CanAdd, Agrees
  <2>3. Head(Append(s, new)) = IF s = <<>> THEN new ELSE Head(s)
    BY <1>1, AppendHas
  <2> QED BY <1>3, <2>1, <2>2, <2>3
<1> QED BY <1>2, <1>3 DEF RequestFast, Goto

\* The second request_irq, for a slow handler, always fails.
LEMMA SlowFails ==
    ASSUME TypeOK, FastFirst, RequestSlow
    PROVE  pc' = "reset1" /\ chain' = chain /\ unit' = unit
<1> DEFINE new == [dev |-> unit, fast |-> FALSE, share |-> TRUE]
<1>1. ~CanAdd(irq[unit], new)
  BY DEF RequestSlow, FastFirst, CanAdd, Agrees
<1>2. ~request_irq(FALSE, TRUE)
  BY <1>1 DEF request_irq
<1>3. request_irq(FALSE, FALSE) /\ pc' = "reset1" /\ unit' = unit
  BY <1>2 DEF RequestSlow, Goto
<1> QED BY <1>3 DEF request_irq

\* free_irq finds the unit's only handler, if there is one.
LEMMA FreeFacts ==
    ASSUME TypeOK, free_irq, Once(chain[irq[unit]], unit)
    PROVE  \/ chain' = chain /\ ~Has(chain[irq[unit]], unit)
           \/ \E k \in 1..Len(chain[irq[unit]]) :
                 /\ chain[irq[unit]][k].dev = unit
                 /\ chain' = [chain EXCEPT ![irq[unit]] = RemoveAt(chain[irq[unit]], k)]
<1> DEFINE s == chain[irq[unit]]
           ours == {i \in DOMAIN s : s[i].dev = unit}
           k == CHOOSE i \in ours : \A j \in ours : i <= j
<1>1. s \in Seq(Action) /\ DOMAIN s = 1..Len(s) /\ Len(s) \in Nat
  BY DEF TypeOK
<1>2. chain' = IF ours = {} THEN chain ELSE [chain EXCEPT ![irq[unit]] = RemoveAt(s, k)]
  BY DEF free_irq
<1>3. CASE ours = {}
  BY <1>2, <1>3 DEF Has
<1>4. CASE ours # {}
  <2>1. PICK i \in ours : TRUE
    BY <1>4
  <2>2. \A j \in ours : i <= j
    BY <1>1, <2>1 DEF Once
  <2>3. k \in ours
    BY <2>1, <2>2
  <2> HIDE DEF k
  <2> QED BY <1>1, <1>2, <1>4, <2>3
<1> QED BY <1>3, <1>4

\* In every state a unit has at most one handler on its line.
LEMMA OnceEach ==
    ASSUME TypeOK, Handlers
    PROVE  Once(chain[irq[unit]], unit)
<1>1. irq[unit] \in Lines /\ unit \in Units
  BY DEF TypeOK
<1>2. Has(chain[irq[unit]], unit) => Once(chain[irq[unit]], unit)
  BY <1>1 DEF Handlers, Handles, Has
<1> QED BY <1>2 DEF Has, Once

----------------------------------------------------------------------------
(* Type correctness.                                                        *)

\* The words of the interface keep their type.
LEMMA WordTypeStep ==
    ASSUME TypeOK, [Next]_vars
    PROVE  pif' \in [Units -> Words] /\ temp' \in Words
<1>1. /\ pif \in [Units -> Words] /\ temp \in Words /\ unit \in Units
      /\ PowUnit \in Units /\ Up \in Words
  BY UpWord, ConstAssumption DEF TypeOK, PowUnit, Units
<1>2. ASSUME NEW l, NEW m, LoadWord(l, m) PROVE pif' \in [Units -> Words] /\ temp' \in Words
  BY <1>1, <1>2 DEF LoadWord
<1>3. ASSUME NEW l, NEW m, NEW w \in Words, StoreWord(l, m, w)
      PROVE  pif' \in [Units -> Words] /\ temp' \in Words
  BY <1>1, <1>3 DEF StoreWord
<1>4. \A v \in BOOLEAN : Idk50("off", v) \in Words /\ Idk50("rst", v) \in Words
                         /\ Idk4c(v) \in Words
  BY WordFacts
<1>5. CASE Reset
  BY <1>2, <1>3, <1>4, <1>5 DEF Reset
<1>6. CASE OffStep
  BY <1>2, <1>3, <1>4, <1>6 DEF OffStep
<1>7. CASE PowTimer \/ IocTimer
  BY <1>1, <1>7 DEF PowTimer, IocTimer
<1>8. CASE UNCHANGED pifs
  BY <1>1, <1>8 DEF pifs
<1>9. CASE ~(Reset \/ OffStep \/ PowTimer \/ IocTimer)
  <2>1. UNCHANGED pifs
    BY <1>9, NextCases
       DEF vars, Load, NoBoard, Probe, Register, SkipUnit, Alloc, RequestFast, RequestSlow,
           SetValid, Unload, UnitTest, free_irq, Free
  <2> QED BY <1>8, <2>1
<1> QED BY <1>5, <1>6, <1>7, <1>9

\* The interrupt lines keep their type, and a board its line.
LEMMA ChainTypeStep ==
    ASSUME TypeOK, Handlers, FastFirst, [Next]_vars
    PROVE  irq' = irq /\ chain' \in [Lines -> Seq(Action)]
<1>1. /\ chain \in [Lines -> Seq(Action)] /\ irq[unit] \in Lines
      /\ chain[irq[unit]] \in Seq(Action)
      /\ [dev |-> unit, fast |-> TRUE, share |-> TRUE] \in Action
  BY DEF TypeOK, Action
<1>2. irq' = irq
  BY NextCases, RegSteps
     DEF vars, Load, NoBoard, Probe, Register, SkipUnit, Alloc, RequestFast, RequestSlow,
         SetValid, Unload, UnitTest, free_irq, Free, RegUp, RegDown, Others, PowTimer, IocTimer
<1>3. CASE RequestFast
  <2>1. Append(chain[irq[unit]], [dev |-> unit, fast |-> TRUE, share |-> TRUE]) \in Seq(Action)
    BY <1>1, AppendHas
  <2> QED BY <1>1, <1>2, <1>3, <2>1, RequestFacts
<1>4. CASE RequestSlow
  BY <1>1, <1>2, <1>4, SlowFails
<1>5. CASE free_irq
  <2>1. Once(chain[irq[unit]], unit)
    BY OnceEach
  <2>2. \A k \in 1..Len(chain[irq[unit]]) : RemoveAt(chain[irq[unit]], k) \in Seq(Action)
    BY <1>1, RemoveHas
  <2> QED BY <1>1, <1>2, <1>5, <2>1, <2>2, FreeFacts
<1>6. CASE ~(RequestFast \/ RequestSlow \/ free_irq)
  <2>1. chain' = chain
    BY <1>6, NextCases, RegSteps
       DEF vars, kernel, Load, NoBoard, Probe, Register, SkipUnit, Alloc,
           SetValid, Unload, UnitTest, Free, RegUp, RegDown, Others, PowTimer, IocTimer
  <2> QED BY <1>1, <1>2, <2>1
<1> QED BY <1>3, <1>4, <1>5, <1>6

\* The rest of the state.
TypeRest ==
    /\ flags \in [Units -> SUBSET {"DETECT", "VALID"}]
    /\ ptr \in [Units -> SUBSET (Bases \cup Optional \cup Bufs)]
    /\ maps \subseteq Units \X (Bases \cup Optional) /\ mem \subseteq Units \X Bufs
    /\ major \in BOOLEAN /\ enable \in BOOLEAN /\ unit \in Units
    /\ PcOK

\* The units' records, what the kernel holds for them and the program counter keep
\* their types.
LEMMA TypeRestStep ==
    ASSUME TypeOK, PcOK, FastFirst, [Next]_vars
    PROVE  TypeRest'
<1> USE DEF PcOK, Loading, Arming, Resets, Cleanup, Downing
<1>1. TypeRest /\ 0 \in Units
  BY ConstAssumption DEF TypeOK, TypeRest, Units
<1>2. \A l, after : NextUnit(l, after) => unit' \in Units /\ pc' \in {l, after}
  BY <1>1, UnitSteps DEF TypeRest
<1>3. CASE UNCHANGED vars
  BY <1>1, <1>3 DEF vars, kernel, TypeRest
<1>4. CASE Load
  BY <1>1, <1>4 DEF Load, Goto, kernel, TypeRest
<1>5. CASE NoBoard
  BY <1>1, <1>5 DEF NoBoard, Goto, kernel, TypeRest
<1>6. CASE Probe
  <2>1. unit' \in Units /\ pc' \in {"probe", "register"}
    BY <1>2, <1>6 DEF Probe
  <2>2. PICK got \in {{}, {"base0"}, {"base0", "base2"}, Bases, Bases \cup Optional}, ok \in BOOLEAN :
          /\ ptr' = [ptr EXCEPT ![unit] = got]
          /\ maps' = maps \cup ({unit} \X got)
          /\ flags' = [flags EXCEPT ![unit] = IF ok THEN {"DETECT"} ELSE {}]
    BY <1>6 DEF Probe
  <2>3. got \subseteq Bases \cup Optional
    BY DEF Bases, Optional
  <2>4. /\ ptr' \in [Units -> SUBSET (Bases \cup Optional \cup Bufs)]
        /\ maps' \subseteq Units \X (Bases \cup Optional)
    BY <1>1, <2>2, <2>3 DEF TypeRest
  <2>5. flags' \in [Units -> SUBSET {"DETECT", "VALID"}]
    BY <1>1, <2>2 DEF TypeRest
  <2> QED BY <1>1, <1>6, <2>1, <2>4, <2>5 DEF Probe, TypeRest
<1>7. CASE Register
  BY <1>1, <1>7 DEF Register, Goto, kernel, TypeRest
<1>8. CASE SkipUnit
  <2>1. unit' \in Units /\ pc' \in {"alloc", "loaded"}
    BY <1>2, <1>8 DEF SkipUnit
  <2> QED BY <1>1, <1>8, <2>1 DEF SkipUnit, kernel, TypeRest
<1>9. CASE Alloc
  <2>1. PICK got \in {{}, {"sendbuf"}, Bufs} :
          /\ ptr' = [ptr EXCEPT ![unit] = @ \cup got]
          /\ mem' = mem \cup ({unit} \X got)
          /\ IF got = Bufs THEN Goto("irq1") /\ UNCHANGED unit
                           ELSE NextUnit("alloc", "loaded")
    BY <1>9 DEF Alloc
  <2>2. unit' \in Units /\ pc' \in {"irq1", "alloc", "loaded"}
    BY <1>1, <1>2, <2>1 DEF Goto, TypeRest
  <2>3. got \subseteq Bufs
    BY DEF Bufs
  <2>4. /\ ptr' \in [Units -> SUBSET (Bases \cup Optional \cup Bufs)]
        /\ mem' \subseteq Units \X Bufs
    BY <1>1, <2>1, <2>3 DEF TypeRest
  <2> QED BY <1>1, <1>9, <2>2, <2>4 DEF Alloc, TypeRest
<1>10. CASE RequestFast
  <2>1. pc' \in {"irq2", "reset1"}
    BY <1>10 DEF RequestFast, Goto
  <2> QED BY <1>1, <1>10, <2>1 DEF RequestFast, TypeRest
<1>11. CASE RequestSlow
  <2>1. pc' = "reset1" /\ unit' = unit
    BY <1>11, SlowFails
  <2> QED BY <1>1, <1>11, <2>1 DEF RequestSlow, TypeRest
<1>12. CASE Reset
  BY <1>1, <1>12, RegSteps DEF RegUp, Others, kernel, TypeRest
<1>13. CASE SetValid
  <2>1. unit' \in Units /\ pc' \in {"alloc", "loaded"}
    BY <1>2, <1>13 DEF SetValid
  <2>2. flags' \in [Units -> SUBSET {"DETECT", "VALID"}]
    BY <1>1, <1>13 DEF SetValid, TypeRest
  <2> QED BY <1>1, <1>13, <2>1, <2>2 DEF SetValid, kernel, TypeRest
<1>14. CASE Unload
  BY <1>1, <1>14 DEF Unload, Goto, kernel, TypeRest
<1>15. CASE UnitTest
  BY <1>1, <1>15 DEF UnitTest, kernel, TypeRest
<1>16. CASE OffStep
  BY <1>1, <1>16, RegSteps DEF RegDown, Others, kernel, TypeRest
<1>17. CASE free_irq
  BY <1>1, <1>17 DEF free_irq, Goto, TypeRest
<1>18. CASE Free
  <2>1. unit' \in Units /\ pc' \in {"unit", "unloaded"}
    BY <1>2, <1>18 DEF Free
  <2>2. ptr' \in [Units -> SUBSET (Bases \cup Optional \cup Bufs)]
    BY <1>1, <1>18 DEF Free, TypeRest
  <2> QED BY <1>1, <1>18, <2>1, <2>2 DEF Free, TypeRest
<1>19. CASE PowTimer
  BY <1>1, <1>19 DEF PowTimer, kernel, TypeRest
<1>20. CASE IocTimer
  BY <1>1, <1>20 DEF IocTimer, kernel, TypeRest
<1> QED
  BY <1>3, <1>4, <1>5, <1>6, <1>7, <1>8, <1>9, <1>10, <1>11, <1>12, <1>13, <1>14,
     <1>15, <1>16, <1>17, <1>18, <1>19, <1>20, NextCases

----------------------------------------------------------------------------
(* The invariants.                                                          *)

\* Buffers and valid units exist only with a major number.
LEMMA MajorStep ==
    ASSUME TypeOK, PcOK, MajorOK, FastFirst, [Next]_vars
    PROVE  MajorOK'
<1> USE DEF PcOK, Loading, Arming, Resets, Cleanup, Downing
<1>a. /\ unit \in Units /\ ptr \in [Units -> SUBSET (Bases \cup Optional \cup Bufs)]
      /\ flags \in [Units -> SUBSET {"DETECT", "VALID"}] /\ major \in BOOLEAN
  BY DEF TypeOK
<1>b. \A l, after : NextUnit(l, after) =>
        \/ pc' = l /\ unit' = unit + 1
        \/ pc' = after /\ unit' = 0 /\ \A u \in Units : u <= unit
  BY UnitSteps DEF TypeOK
<1>1. CASE UNCHANGED vars
  BY <1>1, <1>a DEF vars, kernel, pifs, MajorOK
<1>2. CASE Load
  BY <1>2, <1>a DEF Load, Goto, kernel, pifs, MajorOK
<1>3. CASE NoBoard
  BY <1>3, <1>a DEF NoBoard, Goto, kernel, pifs, MajorOK
<1>4. CASE Probe
  <2>1. major' = major /\ pc = "probe" /\ pc' \in {"probe", "register"}
    BY <1>4, <1>b DEF Probe
  <2>2. PICK got \in {{}, {"base0"}, {"base0", "base2"}, Bases, Bases \cup Optional}, ok \in BOOLEAN :
          /\ ptr' = [ptr EXCEPT ![unit] = got]
          /\ flags' = [flags EXCEPT ![unit] = IF ok THEN {"DETECT"} ELSE {}]
    BY <1>4 DEF Probe
  <2>3. got \cap Bufs = {}
    BY DEF Bases, Optional, Bufs
  <2>4. \A u \in Units : "VALID" \in flags'[u] => "VALID" \in flags[u]
    BY <1>a, <2>2
  <2>5. \A u \in Units : ptr[u] \cap Bufs = {} => ptr'[u] \cap Bufs = {}
    BY <1>a, <2>2, <2>3
  <2> QED BY <2>1, <2>4, <2>5 DEF MajorOK
<1>5. CASE Register
  BY <1>5, <1>a DEF Register, Goto, kernel, pifs, MajorOK
<1>6. CASE SkipUnit
  BY <1>6, <1>a, <1>b DEF SkipUnit, kernel, pifs, MajorOK
<1>7. CASE Alloc
  BY <1>7, <1>a, <1>b DEF Alloc, Goto, pifs, MajorOK
<1>8. CASE RequestFast
  BY <1>8, <1>a DEF RequestFast, Goto, pifs, MajorOK
<1>9. CASE RequestSlow
  BY <1>9, <1>a, SlowFails DEF RequestSlow, pifs, MajorOK
<1>10. CASE Reset
  BY <1>10, <1>a, RegSteps DEF RegUp, Others, kernel, MajorOK
<1>11. CASE SetValid
  BY <1>11, <1>a, <1>b DEF SetValid, kernel, pifs, MajorOK
<1>12. CASE Unload
  BY <1>12, <1>a DEF Unload, Goto, kernel, pifs, MajorOK
<1>13. CASE UnitTest
  BY <1>13, <1>a DEF UnitTest, kernel, pifs, MajorOK
<1>14. CASE OffStep
  BY <1>14, <1>a, RegSteps DEF RegDown, Others, kernel, MajorOK
<1>15. CASE free_irq
  BY <1>15, <1>a DEF free_irq, Goto, pifs, MajorOK
<1>16. CASE Free
  BY <1>16, <1>a, <1>b DEF Free, pifs, MajorOK
<1>17. CASE PowTimer
  BY <1>17, <1>a DEF PowTimer, kernel, MajorOK
<1>18. CASE IocTimer
  BY <1>18, <1>a DEF IocTimer, kernel, MajorOK
<1> QED
  BY <1>1, <1>2, <1>3, <1>4, <1>5, <1>6, <1>7, <1>8, <1>9, <1>10, <1>11, <1>12,
     <1>13, <1>14, <1>15, <1>16, <1>17, <1>18, NextCases

\* The loops go over the units in order.
LEMMA AheadStep ==
    ASSUME TypeOK, PcOK, MajorOK, Ahead, FastFirst, [Next]_vars
    PROVE  Ahead'
<1> USE DEF PcOK, Loading, Arming, Resets, Cleanup, Downing
<1>a. /\ unit \in Units /\ ptr \in [Units -> SUBSET (Bases \cup Optional \cup Bufs)]
      /\ flags \in [Units -> SUBSET {"DETECT", "VALID"}] /\ major \in BOOLEAN
      /\ Units \subseteq Nat
  BY DEF TypeOK, Units
<1>b. \A l, after : NextUnit(l, after) =>
        \/ pc' = l /\ unit' = unit + 1
        \/ pc' = after /\ unit' = 0 /\ \A u \in Units : u <= unit
  BY UnitSteps DEF TypeOK
<1>1. CASE UNCHANGED vars
  BY <1>1, <1>a DEF vars, kernel, pifs, Ahead
<1>2. CASE Load
  BY <1>2, <1>a DEF Load, Goto, kernel, pifs, Ahead
<1>3. CASE NoBoard
  BY <1>3, <1>a DEF NoBoard, Goto, kernel, pifs, Ahead
<1>4. CASE Probe
  BY <1>4, <1>a, <1>b DEF Probe, pifs, Ahead
<1>5. CASE Register
  BY <1>5, <1>a DEF Register, Goto, MajorOK, Ahead
<1>6. CASE SkipUnit
  BY <1>6, <1>a, <1>b DEF SkipUnit, kernel, pifs, Ahead
<1>7. CASE Alloc
  BY <1>7, <1>a, <1>b DEF Alloc, Goto, pifs, Ahead
<1>8. CASE RequestFast
  BY <1>8, <1>a DEF RequestFast, Goto, pifs, Ahead
<1>9. CASE RequestSlow
  BY <1>9, <1>a, SlowFails DEF RequestSlow, pifs, Ahead
<1>10. CASE Reset
  BY <1>10, <1>a, RegSteps DEF RegUp, Others, kernel, Ahead
<1>11. CASE SetValid
  BY <1>11, <1>a, <1>b DEF SetValid, kernel, pifs, Ahead
<1>12. CASE Unload
  BY <1>12, <1>a DEF Unload, Goto, kernel, pifs, Ahead
<1>13. CASE UnitTest
  BY <1>13, <1>a DEF UnitTest, kernel, pifs, Ahead
<1>14. CASE OffStep
  BY <1>14, <1>a, RegSteps DEF RegDown, Others, kernel, Ahead
<1>15. CASE free_irq
  BY <1>15, <1>a DEF free_irq, Goto, pifs, Ahead
<1>16. CASE Free
  BY <1>16, <1>a, <1>b DEF Free, pifs, Ahead
<1>17. CASE PowTimer
  BY <1>17, <1>a DEF PowTimer, kernel, Ahead
<1>18. CASE IocTimer
  BY <1>18, <1>a DEF IocTimer, kernel, Ahead
<1> QED
  BY <1>1, <1>2, <1>3, <1>4, <1>5, <1>6, <1>7, <1>8, <1>9, <1>10, <1>11, <1>12,
     <1>13, <1>14, <1>15, <1>16, <1>17, <1>18, NextCases

\* A detected unit keeps its mappings.
LEMMA DetectedStep ==
    ASSUME TypeOK, PcOK, Detected, FastFirst, [Next]_vars
    PROVE  Detected'
<1> USE DEF PcOK, Loading, Arming, Resets, Cleanup, Downing
<1>a. /\ unit \in Units /\ ptr \in [Units -> SUBSET (Bases \cup Optional \cup Bufs)]
      /\ flags \in [Units -> SUBSET {"DETECT", "VALID"}]
  BY DEF TypeOK
<1>b. \A l, after : NextUnit(l, after) =>
        \/ pc' = l /\ unit' = unit + 1
        \/ pc' = after /\ unit' = 0 /\ \A u \in Units : u <= unit
  BY UnitSteps DEF TypeOK
<1>1. CASE UNCHANGED vars
  BY <1>1, <1>a DEF vars, kernel, pifs, Detected, Mapped
<1>2. CASE Load
  BY <1>2, <1>a DEF Load, Goto, kernel, pifs, Detected, Mapped
<1>3. CASE NoBoard
  BY <1>3, <1>a DEF NoBoard, Goto, kernel, pifs, Detected, Mapped
<1>4. CASE Probe
  <2>1. pc = "probe" /\ pc' \in {"probe", "register"}
    BY <1>4, <1>b DEF Probe
  <2>2. PICK got \in {{}, {"base0"}, {"base0", "base2"}, Bases, Bases \cup Optional}, ok \in BOOLEAN :
          /\ ok => Bases \subseteq got
          /\ ptr' = [ptr EXCEPT ![unit] = got]
          /\ maps' = maps \cup ({unit} \X got)
          /\ flags' = [flags EXCEPT ![unit] = IF ok THEN {"DETECT"} ELSE {}]
    BY <1>4 DEF Probe
  <2>3. ASSUME NEW u \in Units, "DETECT" \in flags'[u] PROVE Mapped(u)'
    <3>1. CASE u = unit
      <4>1. Bases \subseteq got /\ ptr'[u] = got
        BY <1>a, <2>2, <2>3, <3>1
      <4>2. {u} \X Bases \subseteq {unit} \X got
        BY <3>1, <4>1
      <4> QED BY <2>2, <4>1, <4>2 DEF Mapped, Bases
    <3>2. CASE u # unit
      <4>1. Mapped(u)
        BY <1>a, <2>1, <2>2, <2>3, <3>2 DEF Detected
      <4> QED BY <1>a, <2>2, <3>2, <4>1 DEF Mapped, Bases
    <3> QED BY <3>1, <3>2
  <2> QED BY <2>3 DEF Detected
<1>5. CASE Register
  BY <1>5, <1>a DEF Register, Goto, kernel, pifs, Detected, Mapped
<1>6. CASE SkipUnit
  BY <1>6, <1>a, <1>b DEF SkipUnit, kernel, pifs, Detected, Mapped
<1>7. CASE Alloc
  <2>1. PICK got : ptr' = [ptr EXCEPT ![unit] = @ \cup got]
    BY <1>7 DEF Alloc
  <2>2. flags' = flags /\ maps' = maps /\ pc = "alloc"
    BY <1>7 DEF Alloc
  <2>3. \A u \in Units : Mapped(u) => Mapped(u)'
    BY <1>a, <2>1, <2>2 DEF Mapped, Bases
  <2> QED BY <2>2, <2>3 DEF Detected
<1>8. CASE RequestFast
  BY <1>8, <1>a DEF RequestFast, Goto, pifs, Detected, Mapped
<1>9. CASE RequestSlow
  BY <1>9, <1>a, SlowFails DEF RequestSlow, pifs, Detected, Mapped
<1>10. CASE Reset
  BY <1>10, <1>a, RegSteps DEF RegUp, Others, kernel, Detected, Mapped
<1>11. CASE SetValid
  BY <1>11, <1>a, <1>b DEF SetValid, kernel, pifs, Detected, Mapped
<1>12. CASE Unload
  BY <1>12, <1>a DEF Unload, Goto, kernel, pifs, Detected, Mapped
<1>13. CASE UnitTest
  BY <1>13, <1>a DEF UnitTest, kernel, pifs, Detected, Mapped
<1>14. CASE OffStep
  BY <1>14, <1>a, RegSteps DEF RegDown, Others, kernel, Detected, Mapped
<1>15. CASE free_irq
  BY <1>15, <1>a DEF free_irq, Goto, pifs, Detected, Mapped
<1>16. CASE Free
  BY <1>16, <1>a, <1>b DEF Free, pifs, Detected, Mapped
<1>17. CASE PowTimer
  BY <1>17, <1>a DEF PowTimer, kernel, Detected, Mapped
<1>18. CASE IocTimer
  BY <1>18, <1>a DEF IocTimer, kernel, Detected, Mapped
<1> QED
  BY <1>1, <1>2, <1>3, <1>4, <1>5, <1>6, <1>7, <1>8, <1>9, <1>10, <1>11, <1>12,
     <1>13, <1>14, <1>15, <1>16, <1>17, <1>18, NextCases

\* Between the two calls of request_irq the line belongs to fast handlers.
LEMMA FastFirstStep ==
    ASSUME TypeOK, FastFirst, [Next]_vars
    PROVE  FastFirst'
<1>a. /\ chain \in [Lines -> Seq(Action)] /\ irq[unit] \in Lines
      /\ chain[irq[unit]] \in Seq(Action)
      /\ [dev |-> unit, fast |-> TRUE, share |-> TRUE] \in Action
  BY DEF TypeOK, Action
<1>b. \A l, after : NextUnit(l, after) =>
        \/ pc' = l /\ unit' = unit + 1
        \/ pc' = after /\ unit' = 0 /\ \A u \in Units : u <= unit
  BY UnitSteps DEF TypeOK
<1>1. CASE UNCHANGED vars
  BY <1>1 DEF vars, kernel, pifs, FastFirst
<1>2. CASE Load
  BY <1>2 DEF Load, Goto, kernel, pifs, FastFirst
<1>3. CASE NoBoard
  BY <1>3 DEF NoBoard, Goto, kernel, pifs, FastFirst
<1>4. CASE Probe
  BY <1>4, <1>b DEF Probe, pifs, FastFirst
<1>5. CASE Register
  BY <1>5 DEF Register, Goto, kernel, pifs, FastFirst
<1>6. CASE SkipUnit
  BY <1>6, <1>b DEF SkipUnit, kernel, pifs, FastFirst
<1>7. CASE Alloc
  BY <1>7, <1>b DEF Alloc, Goto, pifs, FastFirst
<1>8. CASE RequestFast
  <2> DEFINE t == Append(chain[irq[unit]], [dev |-> unit, fast |-> TRUE, share |-> TRUE])
  <2>1. unit' = unit /\ irq' = irq
    BY <1>8 DEF RequestFast
  <2>2. t # <<>>
    BY <1>a, AppendHas
  <2>3. CASE pc' = "irq2" /\ chain' = [chain EXCEPT ![irq[unit]] = t] /\ Head(t).fast = TRUE
    <3>1. chain'[irq'[unit']] = t
      BY <1>a, <2>1, <2>3
    <3> HIDE DEF t
    <3> QED BY <2>2, <2>3, <3>1 DEF FastFirst
  <2>4. CASE pc' = "reset1"
    BY <2>4 DEF FastFirst
  <2> QED BY <1>8, <2>3, <2>4, RequestFacts
<1>9. CASE RequestSlow
  BY <1>9, SlowFails DEF RequestSlow, pifs, FastFirst
<1>10. CASE Reset
  BY <1>10, RegSteps DEF RegUp, Resets, FastFirst
<1>11. CASE SetValid
  BY <1>11, <1>b DEF SetValid, kernel, pifs, FastFirst
<1>12. CASE Unload
  BY <1>12 DEF Unload, Goto, kernel, pifs, FastFirst
<1>13. CASE UnitTest
  BY <1>13 DEF UnitTest, kernel, pifs, FastFirst
<1>14. CASE OffStep
  BY <1>14, RegSteps DEF RegDown, Others, kernel, FastFirst
<1>15. CASE free_irq
  BY <1>15 DEF free_irq, Goto, pifs, FastFirst
<1>16. CASE Free
  BY <1>16, <1>b DEF Free, pifs, FastFirst
<1>17. CASE PowTimer
  BY <1>17 DEF PowTimer, kernel, FastFirst
<1>18. CASE IocTimer
  BY <1>18 DEF IocTimer, kernel, FastFirst
<1> QED
  BY <1>1, <1>2, <1>3, <1>4, <1>5, <1>6, <1>7, <1>8, <1>9, <1>10, <1>11, <1>12,
     <1>13, <1>14, <1>15, <1>16, <1>17, <1>18, NextCases

\* What the kernel holds for the driver stays within what its pointers say.
LEMMA OwnedStep ==
    ASSUME TypeOK, PcOK, MajorOK, Ahead, Owned, FastFirst, [Next]_vars
    PROVE  Owned'
<1> USE DEF PcOK, Loading, Arming, Resets, Cleanup, Downing
<1>a. /\ unit \in Units /\ ptr \in [Units -> SUBSET (Bases \cup Optional \cup Bufs)]
      /\ Units \subseteq Nat
  BY DEF TypeOK, Units
<1>b. \A l, after : NextUnit(l, after) =>
        \/ pc' = l /\ unit' = unit + 1
        \/ pc' = after /\ unit' = 0 /\ \A u \in Units : u <= unit
  BY UnitSteps DEF TypeOK
<1>1. CASE UNCHANGED vars
  BY <1>1, <1>a DEF vars, kernel, pifs, Owned
<1>2. CASE Load
  BY <1>2, <1>a DEF Load, Goto, kernel, Owned, MajorOK
<1>3. CASE NoBoard
  BY <1>3, <1>a DEF NoBoard, Goto, kernel, pifs, Owned
<1>4. CASE Probe
  <2>1. pc = "probe" /\ pc' \in {"probe", "register"} /\ mem' = mem
    BY <1>4, <1>b DEF Probe
  <2>2. PICK got : ptr' = [ptr EXCEPT ![unit] = got] /\ maps' = maps \cup ({unit} \X got)
    BY <1>4 DEF Probe
  <2>3. ptr[unit] = {}
    BY <1>a, <2>1 DEF Ahead
  <2>4. \A u \in Units, b \in Bufs : <<u, b>> \in mem' => b \in ptr'[u]
    BY <1>a, <2>1, <2>2, <2>3 DEF Owned
  <2>5. \A u \in Units, b \in Bases : <<u, b>> \in maps' => b \in ptr'[u] \cup Offset
    BY <1>a, <2>2, <2>3 DEF Owned
  <2> QED BY <2>1, <2>4, <2>5 DEF Owned
<1>5. CASE Register
  BY <1>5, <1>a DEF Register, Goto, kernel, pifs, Owned
<1>6. CASE SkipUnit
  BY <1>6, <1>a, <1>b DEF SkipUnit, kernel, pifs, Owned
<1>7. CASE Alloc
  <2>1. PICK got : ptr' = [ptr EXCEPT ![unit] = @ \cup got] /\ mem' = mem \cup ({unit} \X got)
    BY <1>7 DEF Alloc
  <2>2. maps' = maps /\ pc' \in {"alloc", "irq1", "loaded"}
    BY <1>7, <1>b DEF Alloc, Goto
  <2>3. \A u \in Units, b \in Bufs : <<u, b>> \in mem' => b \in ptr'[u]
    BY <1>a, <2>1 DEF Owned
  <2>4. \A u \in Units, b \in Bases : <<u, b>> \in maps' => b \in ptr'[u] \cup Offset
    BY <1>a, <2>1, <2>2 DEF Owned
  <2> QED BY <2>2, <2>3, <2>4 DEF Owned
<1>8. CASE RequestFast
  BY <1>8, <1>a DEF RequestFast, Goto, pifs, Owned
<1>9. CASE RequestSlow
  BY <1>9, <1>a, SlowFails DEF RequestSlow, pifs, Owned
<1>10. CASE Reset
  BY <1>10, <1>a, RegSteps DEF RegUp, Others, kernel, Owned
<1>11. CASE SetValid
  BY <1>11, <1>a, <1>b DEF SetValid, kernel, pifs, Owned
<1>12. CASE Unload
  BY <1>12, <1>a DEF Unload, Goto, kernel, pifs, Owned
<1>13. CASE UnitTest
  BY <1>13, <1>a DEF UnitTest, kernel, pifs, Owned
<1>14. CASE OffStep
  BY <1>14, <1>a, RegSteps DEF RegDown, Others, kernel, Owned
<1>15. CASE free_irq
  BY <1>15, <1>a DEF free_irq, Goto, pifs, Owned
<1>16. CASE Free
  <2>1. /\ mem' = mem \ ({unit} \X (ptr[unit] \cap Bufs))
        /\ maps' = maps \ ({unit} \X ((ptr[unit] \cap Bases) \ Offset))
        /\ ptr' = [ptr EXCEPT ![unit] = {}] /\ pc = "free"
    BY <1>16 DEF Free
  <2>2. \/ pc' = "unit" /\ unit' = unit + 1
        \/ pc' = "unloaded" /\ unit' = 0 /\ \A u \in Units : u <= unit
    BY <1>16, <1>b DEF Free
  <2>3. \A u \in Units, b \in Bufs : <<u, b>> \in mem' => b \in ptr'[u]
    BY <1>a, <2>1 DEF Owned
  <2>4. \A u \in Units, b \in Bases : <<u, b>> \in maps' => b \in ptr'[u] \cup Offset
    BY <1>a, <2>1 DEF Owned
  <2>5. \A u \in Units : u <= unit => ptr'[u] = {}
    BY <1>a, <2>1 DEF Owned
  <2> QED BY <1>a, <2>2, <2>3, <2>4, <2>5 DEF Owned
<1>17. CASE PowTimer
  BY <1>17, <1>a DEF PowTimer, kernel, Owned
<1>18. CASE IocTimer
  BY <1>18, <1>a DEF IocTimer, kernel, Owned
<1> QED
  BY <1>1, <1>2, <1>3, <1>4, <1>5, <1>6, <1>7, <1>8, <1>9, <1>10, <1>11, <1>12,
     <1>13, <1>14, <1>15, <1>16, <1>17, <1>18, NextCases

\* The reset of mrp_init, with the power timer between its loads and stores,
\* ends with the interface up.
LEMMA RisingStep ==
    ASSUME TypeOK, PcOK, MajorOK, Ahead, Rising, FastFirst, [Next]_vars
    PROVE  Rising'
<1> USE DEF PcOK, Loading, Arming, Resets, Cleanup, Downing
<1>a. /\ unit \in Units /\ pif \in [Units -> Words] /\ temp \in Words
      /\ flags \in [Units -> SUBSET {"DETECT", "VALID"}] /\ Units \subseteq Nat
      /\ PowUnit \in Units
  BY ConstAssumption DEF TypeOK, Units, PowUnit
<1>c. Up.off = FALSE /\ Up.rst = FALSE
  BY DEF Up
<1>d. \A w \in Words : w = Up <=> w.rst = FALSE /\ w.off = FALSE /\ w.on = TRUE
  BY UpWord
<1>b. \A l, after : NextUnit(l, after) =>
        \/ pc' = l /\ unit' = unit + 1
        \/ pc' = after /\ unit' = 0 /\ \A u \in Units : u <= unit
  BY UnitSteps DEF TypeOK
<1>1. CASE UNCHANGED vars
  BY <1>1, <1>a DEF vars, kernel, pifs, Rising
<1>2. CASE Load
  BY <1>2, <1>a DEF Load, Goto, kernel, pifs, Rising
<1>3. CASE NoBoard
  BY <1>3, <1>a DEF NoBoard, Goto, kernel, pifs, Rising
<1>4. CASE Probe
  BY <1>4, <1>a, <1>b DEF Probe, pifs, Rising
<1>5. CASE Register
  BY <1>5, <1>a DEF Register, Goto, kernel, pifs, MajorOK, Rising
<1>6. CASE SkipUnit
  BY <1>6, <1>a, <1>b DEF SkipUnit, kernel, pifs, Rising
<1>7. CASE Alloc
  BY <1>7, <1>a, <1>b DEF Alloc, Goto, pifs, Rising
<1>8. CASE RequestFast
  BY <1>8, <1>a DEF RequestFast, Goto, pifs, Rising
<1>9. CASE RequestSlow
  BY <1>9, <1>a, SlowFails DEF RequestSlow, pifs, Rising
<1>10. CASE Reset
  <2>1. ASSUME NEW l \in {"reset1", "reset3", "reset5", "reset7"},
               NEW m \in {"reset2", "reset4", "reset6", "reset8"},
               <<l, m>> \in {<<"reset1", "reset2">>, <<"reset3", "reset4">>,
                            <<"reset5", "reset6">>, <<"reset7", "reset8">>},
               LoadWord(l, m)
        PROVE  Rising'
    BY <1>a, <2>1 DEF LoadWord, Goto, Rising
  <2>2. ASSUME NEW w \in Words, NEW l, NEW m, StoreWord(l, m, w), pc \in Resets
        PROVE  /\ pif'[unit'] = w /\ pc = l /\ pc' = m /\ temp' = temp
               /\ \A u \in Units : "VALID" \in flags'[u] => pif'[u] = Up
    BY <1>a, <2>2 DEF StoreWord, Goto, Rising, Ahead
  <2>3. /\ Idk50("off", FALSE) \in Words /\ Idk50("off", FALSE).off = FALSE
        /\ Idk50("rst", TRUE) \in Words /\ Idk50("rst", TRUE).off = temp.off
        /\ Idk50("rst", FALSE) \in Words /\ Idk50("rst", FALSE).off = temp.off
        /\ Idk50("rst", FALSE).rst = FALSE
        /\ Idk4c(TRUE) \in Words /\ Idk4c(TRUE).rst = pif[unit].rst
        /\ Idk4c(TRUE).off = pif[unit].off /\ Idk4c(TRUE).on = TRUE
    BY WordFacts
  <2>4. CASE StoreWord("reset2", "reset3", Idk50("off", FALSE))
    <3>1. pc \in Resets
      BY <2>4 DEF StoreWord
    <3>2. /\ pif'[unit'] = Idk50("off", FALSE) /\ pc' = "reset3"
          /\ \A u \in Units : "VALID" \in flags'[u] => pif'[u] = Up
      BY <2>2, <2>3, <2>4, <3>1
    <3> QED BY <2>3, <3>1, <3>2 DEF Rising
  <2>5. CASE StoreWord("reset4", "reset5", Idk50("rst", TRUE))
    <3>1. pc \in Resets /\ temp.off = FALSE
      BY <2>5 DEF StoreWord, Rising
    <3>2. /\ pif'[unit'] = Idk50("rst", TRUE) /\ pc' = "reset5"
          /\ \A u \in Units : "VALID" \in flags'[u] => pif'[u] = Up
      BY <2>2, <2>3, <2>5, <3>1
    <3> QED BY <2>3, <3>1, <3>2 DEF Rising
  <2>6. CASE StoreWord("reset6", "reset7", Idk50("rst", FALSE))
    <3>1. pc \in Resets /\ temp.off = FALSE
      BY <2>6 DEF StoreWord, Rising
    <3>2. /\ pif'[unit'] = Idk50("rst", FALSE) /\ pc' = "reset7"
          /\ \A u \in Units : "VALID" \in flags'[u] => pif'[u] = Up
      BY <2>2, <2>3, <2>6, <3>1
    <3> QED BY <2>3, <3>1, <3>2 DEF Rising
  <2>7. CASE StoreWord("reset8", "valid", Idk4c(TRUE))
    <3>1. pc \in Resets /\ pif[unit].off = FALSE /\ pif[unit].rst = FALSE
      BY <2>7 DEF StoreWord, Rising
    <3>2. Idk4c(TRUE) = Up
      BY <1>d, <2>3, <3>1
    <3> QED BY <2>2, <2>3, <2>7, <3>1, <3>2 DEF Rising
  <2> QED BY <1>10, <2>1, <2>4, <2>5, <2>6, <2>7 DEF Reset
<1>11. CASE SetValid
  <2>1. pif' = pif /\ pif[unit] = Up /\ pc' \in {"alloc", "loaded"}
    BY <1>11, <1>b DEF SetValid, pifs, Rising
  <2>2. flags' = [flags EXCEPT ![unit] = @ \cup {"VALID"}] /\ pc = "valid"
    BY <1>11 DEF SetValid
  <2>3. \A u \in Units : "VALID" \in flags'[u] => pif'[u] = Up
    BY <1>a, <2>1, <2>2 DEF Rising
  <2> QED BY <2>1, <2>3 DEF Rising
<1>12. CASE Unload
  BY <1>12, <1>a DEF Unload, Goto, kernel, pifs, Rising
<1>13. CASE UnitTest
  BY <1>13, <1>a DEF UnitTest, kernel, pifs, Rising
<1>14. CASE OffStep
  BY <1>14, RegSteps DEF RegDown, Rising
<1>15. CASE free_irq
  BY <1>15, <1>a DEF free_irq, Goto, pifs, Rising
<1>16. CASE Free
  BY <1>16, <1>a, <1>b DEF Free, pifs, Rising
<1>17. CASE PowTimer
  BY <1>17, <1>a, <1>c DEF PowTimer, kernel, Rising
<1>18. CASE IocTimer
  BY <1>18, <1>a, <1>c DEF IocTimer, kernel, Rising
<1> QED
  BY <1>1, <1>2, <1>3, <1>4, <1>5, <1>6, <1>7, <1>8, <1>9, <1>10, <1>11, <1>12,
     <1>13, <1>14, <1>15, <1>16, <1>17, <1>18, NextCases

\* cleanup_module leaves the interfaces that the power timer leaves alone off.
LEMMA FallingStep ==
    ASSUME TypeOK, PcOK, MajorOK, Falling, FastFirst, [Next]_vars
    PROVE  Falling'
<1> USE DEF PcOK, Loading, Arming, Resets, Cleanup, Downing
<1>a. /\ unit \in Units /\ pif \in [Units -> Words] /\ temp \in Words
      /\ flags \in [Units -> SUBSET {"DETECT", "VALID"}] /\ Units \subseteq Nat
      /\ PowUnit \in Units
  BY ConstAssumption DEF TypeOK, Units, PowUnit
<1>b. \A l, after : NextUnit(l, after) =>
        \/ pc' = l /\ unit' = unit + 1
        \/ pc' = after /\ unit' = 0 /\ \A u \in Units : u <= unit
  BY UnitSteps DEF TypeOK
<1>1. CASE UNCHANGED vars
  BY <1>1, <1>a DEF vars, kernel, pifs, Falling, Down
<1>2. CASE Load
  BY <1>2, <1>a DEF Load, Goto, kernel, pifs, Falling, Down
<1>3. CASE NoBoard
  BY <1>3, <1>a DEF NoBoard, Goto, kernel, pifs, Falling, Down
<1>4. CASE Probe
  BY <1>4, <1>a, <1>b DEF Probe, pifs, Falling, Down
<1>5. CASE Register
  BY <1>5, <1>a DEF Register, Goto, kernel, pifs, Falling, Down
<1>6. CASE SkipUnit
  BY <1>6, <1>a, <1>b DEF SkipUnit, kernel, pifs, Falling, Down
<1>7. CASE Alloc
  BY <1>7, <1>a, <1>b DEF Alloc, Goto, pifs, Falling, Down
<1>8. CASE RequestFast
  BY <1>8, <1>a DEF RequestFast, Goto, pifs, Falling, Down
<1>9. CASE RequestSlow
  BY <1>9, <1>a, SlowFails DEF RequestSlow, pifs, Falling, Down
<1>10. CASE Reset
  BY <1>10, RegSteps DEF RegUp, Falling
<1>11. CASE SetValid
  BY <1>11, <1>a, <1>b DEF SetValid, kernel, pifs, Falling, Down
<1>12. CASE Unload
  BY <1>12, <1>a DEF Unload, Goto, kernel, pifs, MajorOK, Falling, Down
<1>13. CASE UnitTest
  BY <1>13, <1>a DEF UnitTest, kernel, pifs, Falling, Down
<1>14. CASE OffStep
  <2>1. ASSUME NEW w \in Words, NEW l, NEW m, StoreWord(l, m, w), pc \in Downing
        PROVE  /\ pif'[unit'] = w /\ pc = l /\ pc' = m /\ unit' = unit
               /\ \A u \in Units : u < unit' /\ u # PowUnit /\ "VALID" \in flags'[u] => Down(u)'
    BY <1>a, <2>1 DEF StoreWord, Goto, Falling, Down
  <2>2. /\ Idk50("off", TRUE) \in Words /\ Idk50("off", TRUE).off = TRUE
        /\ Idk4c(FALSE) \in Words /\ Idk4c(FALSE).off = pif[unit].off
        /\ Idk4c(FALSE).on = FALSE
    BY WordFacts
  <2>3. CASE LoadWord("off1", "off2")
    BY <2>3 DEF LoadWord, Goto, Falling, Down
  <2>4. CASE StoreWord("off2", "off3", Idk50("off", TRUE))
    <3>1. pc \in Downing
      BY <2>4 DEF StoreWord
    <3>2. /\ pif'[unit'] = Idk50("off", TRUE) /\ pc' = "off3" /\ unit' = unit
          /\ \A u \in Units : u < unit' /\ u # PowUnit /\ "VALID" \in flags'[u] => Down(u)'
      BY <2>1, <2>2, <2>4, <3>1
    <3> QED BY <2>2, <3>1, <3>2 DEF Falling, Down
  <2>5. CASE LoadWord("off3", "off4")
    BY <2>5 DEF LoadWord, Goto, Falling, Down
  <2>6. CASE StoreWord("off4", "freeirq", Idk4c(FALSE))
    <3>1. pc \in Downing /\ (unit # PowUnit => pif[unit].off = TRUE)
      BY <2>6 DEF StoreWord, Falling
    <3>2. /\ pif'[unit'] = Idk4c(FALSE) /\ pc' = "freeirq" /\ unit' = unit
          /\ \A u \in Units : u < unit' /\ u # PowUnit /\ "VALID" \in flags'[u] => Down(u)'
      BY <2>1, <2>2, <2>6, <3>1
    <3> QED BY <2>2, <3>1, <3>2 DEF Falling, Down
  <2> QED BY <1>14, <2>3, <2>4, <2>5, <2>6 DEF OffStep
<1>15. CASE free_irq
  BY <1>15, <1>a DEF free_irq, Goto, pifs, Falling, Down
<1>16. CASE Free
  BY <1>16, <1>a, <1>b DEF Free, pifs, Falling, Down
<1>17. CASE PowTimer
  BY <1>17, <1>a DEF PowTimer, kernel, Falling, Down
<1>18. CASE IocTimer
  BY <1>18, <1>a DEF IocTimer, kernel, Falling, Down
<1> QED
  BY <1>1, <1>2, <1>3, <1>4, <1>5, <1>6, <1>7, <1>8, <1>9, <1>10, <1>11, <1>12,
     <1>13, <1>14, <1>15, <1>16, <1>17, <1>18, NextCases

\* A step that leaves the lines alone keeps the handlers in order if it keeps
\* every unit that may have one complete and in its phase.
LEMMA SameLines ==
    ASSUME Handlers, chain' = chain, irq' = irq,
           \A u \in Units : Ready(u) /\ Phase(u) => Ready(u)' /\ Phase(u)',
           pc' \in {"irq1", "irq2"} => Ready(unit)'
    PROVE  Handlers'
<1>1. \A l \in Lines, u \in Units : Handles(l, u)' <=> Handles(l, u)
  BY DEF Handles
<1>2. \A l \in Lines, u \in Units : Once(chain[l], u)' <=> Once(chain[l], u)
  BY DEF Once
<1> QED BY <1>1, <1>2 DEF Handlers

\* The units keep what their handlers need.
LEMMA HandlersStep ==
    ASSUME TypeOK, PcOK, MajorOK, Ahead, Detected, Handlers, FastFirst, [Next]_vars
    PROVE  Handlers'
<1> USE DEF PcOK, Loading, Arming, Resets, Cleanup, Downing
<1>a. /\ unit \in Units /\ ptr \in [Units -> SUBSET (Bases \cup Optional \cup Bufs)]
      /\ flags \in [Units -> SUBSET {"DETECT", "VALID"}] /\ Units \subseteq Nat
      /\ irq \in [Units -> Lines] /\ chain \in [Lines -> Seq(Action)]
  BY DEF TypeOK, Units
<1>c. ASSUME UNCHANGED <<ptr, maps, mem>> PROVE \A u \in Units : Ready(u) => Ready(u)'
  BY <1>c DEF Ready, Bases, Bufs
<1>b. \A l, after : NextUnit(l, after) =>
        \/ pc' = l /\ unit' = unit + 1
        \/ pc' = after /\ unit' = 0 /\ \A u \in Units : u <= unit
  BY UnitSteps DEF TypeOK
<1>1. CASE UNCHANGED vars
  <2>1. UNCHANGED <<chain, irq, ptr, maps, mem>>
    BY <1>1 DEF vars, kernel, pifs
  <2>2. \A u \in Units : Phase(u) => Phase(u)'
    BY <1>1, <1>a, <1>b DEF vars, kernel, pifs, Phase
  <2>3. pc' \in {"irq1", "irq2"} => Ready(unit)'
    BY <1>1, <1>a, <1>b, <1>c, <2>1 DEF vars, kernel, pifs, Handlers
  <2> QED BY <1>c, <2>1, <2>2, <2>3, SameLines
<1>2. CASE Load
  <2>1. chain' = chain /\ irq' = irq /\ pc = "unloaded" /\ pc' = "probe"
    BY <1>2 DEF Load, Goto, kernel
  <2>2. \A u \in Units : ~Phase(u)
    BY <2>1 DEF Phase
  <2> QED BY <2>1, <2>2, SameLines
<1>3. CASE NoBoard
  <2>1. UNCHANGED <<chain, irq, ptr, maps, mem>>
    BY <1>3 DEF NoBoard, Goto, kernel, pifs
  <2>2. \A u \in Units : Phase(u) => Phase(u)'
    BY <1>3, <1>a, <1>b DEF NoBoard, Goto, kernel, pifs, Phase
  <2>3. pc' \in {"irq1", "irq2"} => Ready(unit)'
    BY <1>3, <1>a, <1>b, <1>c, <2>1 DEF NoBoard, Goto, kernel, pifs, Handlers
  <2> QED BY <1>c, <2>1, <2>2, <2>3, SameLines
<1>4. CASE Probe
  <2>1. chain' = chain /\ irq' = irq /\ pc = "probe" /\ pc' \in {"probe", "register"}
    BY <1>4, <1>b DEF Probe
  <2>2. \A u \in Units : ~Phase(u)
    BY <2>1 DEF Phase
  <2> QED BY <2>1, <2>2, SameLines
<1>5. CASE Register
  <2>1. UNCHANGED <<chain, irq, ptr, maps, mem>>
    BY <1>5 DEF Register, Goto, kernel, pifs
  <2>2. \A u \in Units : Phase(u) => Phase(u)'
    BY <1>5, <1>a, <1>b DEF Register, Goto, kernel, pifs, Phase
  <2>3. pc' \in {"irq1", "irq2"} => Ready(unit)'
    BY <1>5, <1>a, <1>b, <1>c, <2>1 DEF Register, Goto, kernel, pifs, Handlers
  <2> QED BY <1>c, <2>1, <2>2, <2>3, SameLines
<1>6. CASE SkipUnit
  <2>1. UNCHANGED <<chain, irq, ptr, maps, mem>>
    BY <1>6 DEF SkipUnit, kernel, pifs
  <2>2. \A u \in Units : Phase(u) => Phase(u)'
    BY <1>6, <1>a, <1>b DEF SkipUnit, kernel, pifs, Phase
  <2>3. pc' \in {"irq1", "irq2"} => Ready(unit)'
    BY <1>6, <1>a, <1>b, <1>c, <2>1 DEF SkipUnit, kernel, pifs, Handlers
  <2> QED BY <1>c, <2>1, <2>2, <2>3, SameLines
<1>7. CASE Alloc
  <2>1. PICK got \in {{}, {"sendbuf"}, Bufs} :
          /\ ptr' = [ptr EXCEPT ![unit] = @ \cup got]
          /\ mem' = mem \cup ({unit} \X got)
          /\ IF got = Bufs THEN pc' = "irq1" /\ unit' = unit
                           ELSE NextUnit("alloc", "loaded")
    BY <1>7 DEF Alloc, Goto
  <2>2. /\ UNCHANGED <<flags, irq, chain, maps>> /\ pc = "alloc"
        /\ "DETECT" \in flags[unit] /\ pc' \in {"alloc", "irq1", "loaded"}
    BY <1>7, <1>b, <2>1 DEF Alloc
  <2>3. \A u \in Units : Ready(u) => Ready(u)'
    BY <1>a, <2>1, <2>2 DEF Ready, Bases, Bufs
  <2>4. \A u \in Units : Phase(u) => Phase(u)'
    BY <2>2 DEF Phase
  <2>5. ASSUME pc' \in {"irq1", "irq2"} PROVE Ready(unit)'
    <3>1. got = Bufs /\ unit' = unit
      BY <1>b, <2>1, <2>5
    <3>2. Mapped(unit)
      BY <1>a, <2>2 DEF Detected
    <3>3. Bases \cup Bufs \subseteq ptr'[unit]
      BY <1>a, <2>1, <3>1, <3>2 DEF Mapped
    <3>4. {unit} \X Bufs \subseteq mem' /\ {unit} \X Bases \subseteq maps'
      BY <2>1, <2>2, <3>1, <3>2 DEF Mapped
    <3> QED BY <3>1, <3>3, <3>4 DEF Ready, Bases, Bufs
  <2> QED BY <2>2, <2>3, <2>4, <2>5, SameLines
<1>8. CASE RequestFast
  <2> DEFINE new == [dev |-> unit, fast |-> TRUE, share |-> TRUE]
             line == irq[unit]
             t == Append(chain[line], new)
  <2>1. UNCHANGED <<irq, ptr, maps, mem, flags, unit>> /\ pc = "irq1"
    BY <1>8 DEF RequestFast
  <2>2. CASE pc' = "reset1" /\ chain' = chain
    <3>1. \A u \in Units : Phase(u) => Phase(u)'
      BY <2>1, <2>2 DEF Phase
    <3> QED BY <1>c, <2>1, <2>2, <3>1, SameLines
  <2>3. CASE pc' = "irq2" /\ chain' = [chain EXCEPT ![line] = t]
    <3>1. line \in Lines /\ chain[line] \in Seq(Action) /\ new \in Action /\ new.dev = unit
      BY <1>a DEF Action
    <3>2. \A u : /\ Has(t, u) <=> Has(chain[line], u) \/ unit = u
                 /\ Once(chain[line], u) /\ (Has(chain[line], u) => unit # u) => Once(t, u)
      BY <3>1, AppendHas
    <3>3. /\ \A l \in Lines, u \in Units : Handles(l, u) <=> Has(chain[l], u)
          /\ \A l \in Lines, u \in Units : Handles(l, u)' <=> Has(chain'[l], u)
      BY DEF Handles, Has
    <3>4. ~Has(chain[line], unit)
      <4>1. ~Phase(unit)
        BY <1>a, <2>1 DEF Phase, Ahead
      <4> QED BY <1>a, <3>1, <3>3, <4>1 DEF Handlers
    <3>5. Ready(unit) /\ \A u \in Units : Ready(u) => Ready(u)'
      BY <1>c, <2>1 DEF Handlers
    <3>6. ASSUME NEW u \in Units, Phase(u) \/ u = unit PROVE Phase(u)'
      BY <2>1, <2>3, <3>6 DEF Phase
    <3> HIDE DEF t, line, new
    <3>7. chain'[line] = t /\ \A l \in Lines : l # line => chain'[l] = chain[l]
      BY <1>a, <2>3, <3>1
    <3>8. ASSUME NEW l \in Lines, NEW u \in Units, Has(chain'[l], u)
          PROVE  l = irq[u] /\ Once(chain'[l], u) /\ Ready(u)' /\ Phase(u)'
      <4>1. CASE l # line
        <5>1. Handles(l, u) /\ chain'[l] = chain[l]
          BY <3>3, <3>7, <3>8, <4>1
        <5> QED BY <3>5, <3>6, <5>1 DEF Handlers
      <4>2. CASE l = line /\ u = unit
        <5>1. Once(chain[line], unit)
          BY <3>4 DEF Has, Once
        <5>2. Once(t, unit)
          BY <3>2, <3>4, <5>1
        <5> QED BY <3>5, <3>6, <3>7, <4>2, <5>2, <1>a DEF line
      <4>3. CASE l = line /\ u # unit
        <5>1. Has(chain[line], u)
          BY <3>2, <3>7, <3>8, <4>3
        <5>2. Handles(line, u)
          BY <3>1, <3>3, <5>1
        <5>3. line = irq[u] /\ Once(chain[line], u) /\ Ready(u) /\ Phase(u)
          BY <3>1, <5>2 DEF Handlers
        <5>4. Once(t, u)
          BY <3>2, <4>3, <5>3
        <5> QED BY <3>5, <3>6, <3>7, <4>3, <5>3, <5>4
      <4> QED BY <4>1, <4>2, <4>3
    <3>9. Ready(unit)'
      <4>1. unit' = unit /\ Ready(unit)'
        BY <1>a, <2>1, <3>5
      <4> QED BY <4>1
    <3> QED BY <2>1, <3>3, <3>8, <3>9 DEF Handlers
  <2> QED BY <1>8, <2>2, <2>3, RequestFacts
<1>9. CASE RequestSlow
  <2>1. UNCHANGED <<chain, irq, ptr, maps, mem>>
    BY <1>9, SlowFails DEF RequestSlow, pifs
  <2>2. \A u \in Units : Phase(u) => Phase(u)'
    BY <1>9, <1>a, <1>b, SlowFails DEF RequestSlow, pifs, Phase
  <2>3. pc' \in {"irq1", "irq2"} => Ready(unit)'
    BY <1>9, <1>a, <1>b, <1>c, <2>1, SlowFails DEF RequestSlow, pifs, Handlers
  <2> QED BY <1>c, <2>1, <2>2, <2>3, SameLines
<1>10. CASE Reset
  <2>1. UNCHANGED <<chain, irq, ptr, maps, mem>>
    BY <1>10, RegSteps DEF RegUp, Others, kernel
  <2>2. \A u \in Units : Phase(u) => Phase(u)'
    BY <1>10, <1>a, <1>b, RegSteps DEF RegUp, Others, kernel, Phase
  <2>3. pc' \in {"irq1", "irq2"} => Ready(unit)'
    BY <1>10, <1>a, <1>b, <1>c, <2>1, RegSteps DEF RegUp, Others, kernel, Handlers
  <2> QED BY <1>c, <2>1, <2>2, <2>3, SameLines
<1>11. CASE SetValid
  <2>1. UNCHANGED <<chain, irq, ptr, maps, mem>>
    BY <1>11 DEF SetValid, kernel, pifs
  <2>2. \A u \in Units : Phase(u) => Phase(u)'
    BY <1>11, <1>a, <1>b DEF SetValid, kernel, pifs, Phase, Ahead
  <2>3. pc' \in {"irq1", "irq2"} => Ready(unit)'
    BY <1>11, <1>a, <1>b, <1>c, <2>1 DEF SetValid, kernel, pifs, Handlers
  <2> QED BY <1>c, <2>1, <2>2, <2>3, SameLines
<1>12. CASE Unload
  <2>1. UNCHANGED <<chain, irq, ptr, maps, mem>>
    BY <1>12 DEF Unload, Goto, kernel, pifs
  <2>2. \A u \in Units : Phase(u) => Phase(u)'
    BY <1>12, <1>a, <1>b DEF Unload, Goto, kernel, pifs, Phase, MajorOK
  <2>3. pc' \in {"irq1", "irq2"} => Ready(unit)'
    BY <1>12, <1>a, <1>b, <1>c, <2>1 DEF Unload, Goto, kernel, pifs, Handlers
  <2> QED BY <1>c, <2>1, <2>2, <2>3, SameLines
<1>13. CASE UnitTest
  <2>1. UNCHANGED <<chain, irq, ptr, maps, mem>>
    BY <1>13 DEF UnitTest, kernel, pifs
  <2>2. \A u \in Units : Phase(u) => Phase(u)'
    BY <1>13, <1>a, <1>b DEF UnitTest, kernel, pifs, Phase
  <2>3. pc' \in {"irq1", "irq2"} => Ready(unit)'
    BY <1>13, <1>a, <1>b, <1>c, <2>1 DEF UnitTest, kernel, pifs, Handlers
  <2> QED BY <1>c, <2>1, <2>2, <2>3, SameLines
<1>14. CASE OffStep
  <2>1. UNCHANGED <<chain, irq, ptr, maps, mem>>
    BY <1>14, RegSteps DEF RegDown, Others, kernel
  <2>2. \A u \in Units : Phase(u) => Phase(u)'
    BY <1>14, <1>a, <1>b, RegSteps DEF RegDown, Others, kernel, Phase
  <2>3. pc' \in {"irq1", "irq2"} => Ready(unit)'
    BY <1>14, <1>a, <1>b, <1>c, <2>1, RegSteps DEF RegDown, Others, kernel, Handlers
  <2> QED BY <1>c, <2>1, <2>2, <2>3, SameLines
<1>15. CASE free_irq
  <2> DEFINE line == irq[unit]
  <2>1. /\ UNCHANGED <<irq, ptr, maps, mem, flags, unit>>
        /\ pc = "freeirq" /\ pc' = "free"
    BY <1>15 DEF free_irq, Goto
  <2>2. line \in Lines /\ chain[line] \in Seq(Action) /\ Once(chain[line], unit)
    BY <1>a, OnceEach
  <2>3. /\ \A l \in Lines, u \in Units : Handles(l, u) <=> Has(chain[l], u)
        /\ \A l \in Lines, u \in Units : Handles(l, u)' <=> Has(chain'[l], u)
    BY DEF Handles, Has
  <2>4. /\ \A l \in Lines, u \in Units : Has(chain'[l], u) => Has(chain[l], u)
        /\ \A l \in Lines, u \in Units : Once(chain[l], u) => Once(chain'[l], u)
        /\ ~Has(chain'[line], unit)
    <3>1. CASE chain' = chain /\ ~Has(chain[line], unit)
      BY <3>1
    <3>2. ASSUME NEW k \in 1..Len(chain[line]), chain[line][k].dev = unit,
                 chain' = [chain EXCEPT ![line] = RemoveAt(chain[line], k)]
          PROVE  /\ \A l \in Lines, u \in Units : Has(chain'[l], u) => Has(chain[l], u)
                 /\ \A l \in Lines, u \in Units : Once(chain[l], u) => Once(chain'[l], u)
                 /\ ~Has(chain'[line], unit)
      <4>1. \A u : /\ Has(RemoveAt(chain[line], k), u) => Has(chain[line], u)
                   /\ Once(chain[line], u) => Once(RemoveAt(chain[line], k), u)
                   /\ Once(chain[line], u) /\ chain[line][k].dev = u
                        => ~Has(RemoveAt(chain[line], k), u)
        BY <2>2, RemoveHas
      <4>2. /\ chain'[line] = RemoveAt(chain[line], k)
            /\ \A l \in Lines : l # line => chain'[l] = chain[l]
        BY <1>a, <2>2, <3>2
      <4> QED BY <2>2, <3>2, <4>1, <4>2
    <3> QED BY <1>15, <2>2, <3>1, <3>2, FreeFacts
  <2>5. ASSUME NEW l \in Lines, NEW u \in Units, Has(chain'[l], u)
        PROVE  l = irq[u] /\ Once(chain'[l], u) /\ Ready(u)' /\ Phase(u)'
    <3>1. l = irq[u] /\ Once(chain[l], u) /\ Ready(u) /\ Phase(u)
      BY <2>3, <2>4, <2>5 DEF Handlers
    <3>2. u # unit
      BY <2>4, <2>5, <3>1
    <3>3. Phase(u)'
      BY <1>a, <2>1, <3>1, <3>2 DEF Phase
    <3> QED BY <1>c, <2>1, <2>4, <3>1, <3>3
  <2> QED BY <2>1, <2>3, <2>5 DEF Handlers
<1>16. CASE Free
  <2>1. /\ mem' = mem \ ({unit} \X (ptr[unit] \cap Bufs))
        /\ maps' = maps \ ({unit} \X ((ptr[unit] \cap Bases) \ Offset))
        /\ ptr' = [ptr EXCEPT ![unit] = {}] /\ pc = "free"
        /\ UNCHANGED <<flags, irq, chain>>
    BY <1>16 DEF Free
  <2>2. \/ pc' = "unit" /\ unit' = unit + 1
        \/ pc' = "unloaded" /\ unit' = 0 /\ \A u \in Units : u <= unit
    BY <1>16, <1>b DEF Free
  <2>3. ASSUME NEW u \in Units, Phase(u) PROVE u > unit /\ "VALID" \in flags[u]
    BY <2>1, <2>3 DEF Phase
  <2>4. \A u \in Units : Phase(u) => Phase(u)'
    BY <1>a, <2>1, <2>2, <2>3 DEF Phase
  <2>5. ASSUME NEW u \in Units, u # unit, Ready(u) PROVE Ready(u)'
    BY <1>a, <2>1, <2>5 DEF Ready, Bases, Bufs
  <2>6. \A u \in Units : Ready(u) /\ Phase(u) => Ready(u)' /\ Phase(u)'
    BY <1>a, <2>3, <2>4, <2>5
  <2>7. pc' \notin {"irq1", "irq2"}
    BY <2>2
  <2> QED BY <2>1, <2>6, <2>7, SameLines
<1>17. CASE PowTimer
  <2>1. UNCHANGED <<chain, irq, ptr, maps, mem>>
    BY <1>17 DEF PowTimer, kernel
  <2>2. \A u \in Units : Phase(u) => Phase(u)'
    BY <1>17, <1>a, <1>b DEF PowTimer, kernel, Phase
  <2>3. pc' \in {"irq1", "irq2"} => Ready(unit)'
    BY <1>17, <1>a, <1>b, <1>c, <2>1 DEF PowTimer, kernel, Handlers
  <2> QED BY <1>c, <2>1, <2>2, <2>3, SameLines
<1>18. CASE IocTimer
  <2>1. UNCHANGED <<chain, irq, ptr, maps, mem>>
    BY <1>18 DEF IocTimer, kernel
  <2>2. \A u \in Units : Phase(u) => Phase(u)'
    BY <1>18, <1>a, <1>b DEF IocTimer, kernel, Phase
  <2>3. pc' \in {"irq1", "irq2"} => Ready(unit)'
    BY <1>18, <1>a, <1>b, <1>c, <2>1 DEF IocTimer, kernel, Handlers
  <2> QED BY <1>c, <2>1, <2>2, <2>3, SameLines
<1> QED
  BY <1>1, <1>2, <1>3, <1>4, <1>5, <1>6, <1>7, <1>8, <1>9, <1>10, <1>11, <1>12,
     <1>13, <1>14, <1>15, <1>16, <1>17, <1>18, NextCases

----------------------------------------------------------------------------
(* The theorems.                                                            *)

\* A module that was never loaded has taken nothing, and the lines hold only
\* handlers of other drivers.
LEMMA InitInv == Init => Inv
<1> SUFFICES ASSUME Init PROVE Inv
  OBVIOUS
<1>1. ASSUME NEW l \in Lines
      PROVE  chain[l] \in Seq(Action) /\ \A i \in DOMAIN chain[l] : chain[l][i].dev = Other
  <2>1. CASE chain[l] = <<>>
    BY <2>1
  <2>2. ASSUME NEW f \in BOOLEAN, NEW s \in BOOLEAN,
               chain[l] = <<[dev |-> Other, fast |-> f, share |-> s]>>
        PROVE  chain[l] \in Seq(Action) /\ \A i \in DOMAIN chain[l] : chain[l][i].dev = Other
    <3>1. [dev |-> Other, fast |-> f, share |-> s] \in Action
      BY DEF Action
    <3>2. DOMAIN chain[l] = {1} /\ chain[l][1] = [dev |-> Other, fast |-> f, share |-> s]
      BY <2>2
    <3> QED BY <2>2, <3>1, <3>2
  <2>3. chain[l] \in Foreign
    BY DEF Init
  <2> QED BY <2>1, <2>2, <2>3 DEF Foreign
<1>2. TypeOK
  <2>1. chain \in [Lines -> Seq(Action)]
    BY <1>1 DEF Init
  <2>2. pif \in [Units -> Words] /\ temp \in Words
    BY DEF Init, Words, Up
  <2>3. unit \in Units
    BY ConstAssumption DEF Init, Units
  <2> QED BY <2>1, <2>2, <2>3 DEF Init, TypeOK
<1>3. \A l \in Lines, u \in Units : ~Handles(l, u)
  BY <1>1 DEF Handles, Units, Other
<1>4. Handlers
  BY <1>3 DEF Init, Handlers
<1>5. PcOK /\ MajorOK /\ Ahead /\ Detected
  BY DEF Init, PcOK, MajorOK, Ahead, Detected, Loading, Arming, Resets, Cleanup, Downing
<1>6. FastFirst /\ Owned /\ Rising /\ Falling
  BY DEF Init, FastFirst, Owned, Rising, Falling, Loading, Arming, Resets, Cleanup, Downing
<1> QED BY <1>2, <1>4, <1>5, <1>6 DEF Inv

\* The inductive invariant.
LEMMA Invariance == Spec => []Inv
<1>1. Inv /\ [Next]_vars => Inv'
  <2> SUFFICES ASSUME Inv, [Next]_vars PROVE Inv'
    OBVIOUS
  <2>1. /\ TypeOK /\ PcOK /\ MajorOK /\ Ahead /\ Detected
        /\ Handlers /\ FastFirst /\ Owned /\ Rising /\ Falling
    BY DEF Inv
  <2>2. TypeOK' /\ PcOK'
    BY <2>1, WordTypeStep, ChainTypeStep, TypeRestStep DEF TypeOK, TypeRest
  <2>3. MajorOK' /\ Ahead' /\ Detected'
    BY <2>1, MajorStep, AheadStep, DetectedStep
  <2>4. Handlers' /\ FastFirst' /\ Owned'
    BY <2>1, HandlersStep, FastFirstStep, OwnedStep
  <2>5. Rising' /\ Falling'
    BY <2>1, RisingStep, FallingStep
  <2> QED BY <2>2, <2>3, <2>4, <2>5 DEF Inv
<1> QED BY <1>1, InitInv, PTL DEF Spec

\* mrp_interrupt finds the registers and buffers of its unit whenever it is on a
\* line, for any number of units and lines.
THEOREM HandlerSafe == Spec => []HandlerReady
<1>1. Inv => HandlerReady
  <2> SUFFICES ASSUME Inv, NEW l \in Lines, NEW u \in Units, Handles(l, u)
               PROVE  Ready(u) /\ pc # "unloaded"
    BY DEF Inv, HandlerReady, Ready
  <2> QED BY DEF Inv, Handlers, Phase, Loading, Arming, Resets, Downing
<1> QED BY <1>1, Invariance, PTL

\* cleanup_module gives back every buffer, and every mapping that can be freed.
THEOREM UnloadComplete == Spec => []UnloadFrees
<1>1. Inv => UnloadFrees
  <2> SUFFICES ASSUME Inv, pc = "unloaded"
               PROVE  mem = {} /\ (major => \A x \in maps : x[2] \in Offset \cup Optional)
    BY DEF UnloadFrees
  <2>1. \A u \in Units : ptr[u] \cap Bufs = {} /\ (major => ptr[u] = {})
    BY DEF Inv, MajorOK, Owned
  <2>2. mem = {}
    <3> SUFFICES ASSUME NEW x \in mem PROVE FALSE
      OBVIOUS
    <3>1. PICK u \in Units, b \in Bufs : x = <<u, b>>
      BY DEF Inv, TypeOK
    <3> QED BY <2>1, <3>1 DEF Inv, Owned
  <2>3. ASSUME major, NEW x \in maps PROVE x[2] \in Offset \cup Optional
    <3>1. PICK u \in Units, b \in Bases \cup Optional : x = <<u, b>>
      BY DEF Inv, TypeOK
    <3>2. b \in Bases => b \in Offset
      BY <2>1, <2>3, <3>1 DEF Inv, Owned
    <3> QED BY <3>1, <3>2
  <2> QED BY <2>2, <2>3
<1> QED BY <1>1, Invariance, PTL

\* A valid unit's interface is up when the load is over, whatever the power timer
\* did between the loads and stores, and off after the unload.
THEOREM InterfaceSettles == Spec => []PifSettled
<1>1. Inv => PifSettled
  BY DEF Inv, PifSettled, Rising, Falling, Down, Loading
<1> QED BY <1>1, Invariance, PTL

\* The second request_irq of mrp_init never succeeds: no unit has two handlers on
\* its line, of which free_irq would remove one.
THEOREM OneHandler == Spec => [](\A u \in Units : Once(chain[irq[u]], u))
<1>1. Inv => \A u \in Units : Once(chain[irq[u]], u)
  <2> SUFFICES ASSUME Inv, NEW u \in Units PROVE Once(chain[irq[u]], u)
    OBVIOUS
  <2>1. irq[u] \in Lines
    BY DEF Inv, TypeOK
  <2>2. Handles(irq[u], u) => Once(chain[irq[u]], u)
    BY <2>1 DEF Inv, Handlers
  <2> QED BY <2>2 DEF Handles, Once
<1> QED BY <1>1, Invariance, PTL

=============================================================================
