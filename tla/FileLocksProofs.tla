-------------------------- MODULE FileLocksProofs --------------------------
(***************************************************************************)
(* Proofs about the file locks, for any number of processes and any ranges. *)
(***************************************************************************)
EXTENDS FileLocks, LockList, WellFoundedInduction, FiniteSetTheorems, TLAPS

----------------------------------------------------------------------------
(* Lists.                                                                   *)

\* Induction over the places of a list.

LEMMA Induction ==
    ASSUME NEW T \in SUBSET Nat, 0 \in T, \A n \in T : n + 1 \in T
    PROVE  T = Nat
<1> SUFFICES ASSUME T # Nat PROVE FALSE
  OBVIOUS
<1> DEFINE U == Nat \ T
<1>1. U # {} /\ U \subseteq Nat
  OBVIOUS
<1> HIDE DEF U
<1>2. PICK x \in U : \A y \in U : ~(<<y, x>> \in OpToRel(<, Nat))
  BY <1>1, NatLessThanWellFounded, WFMin
<1>3. \A y \in U : ~(y < x)
  BY <1>1, <1>2 DEF OpToRel
<1>4. x # 0 /\ x \in Nat
  BY <1>2 DEF U
<1>5. x - 1 \in Nat /\ x - 1 < x /\ (x - 1) + 1 = x
  BY <1>4
<1>6. x - 1 \in T
  BY <1>3, <1>5 DEF U
<1>7. x \in T
  BY <1>5, <1>6
<1> QED BY <1>2, <1>7 DEF U

\* A sequence without its element at k.
LEMMA WithoutFacts ==
    ASSUME NEW S, NEW s \in Seq(S), NEW k \in 1..Len(s)
    PROVE  /\ RemoveAt(s, k) \in Seq(S)
           /\ IsInjective(s) => /\ IsInjective(RemoveAt(s, k))
                                /\ ToSet(RemoveAt(s, k)) = ToSet(s) \ {s[k]}
<1> DEFINE a == SubSeq(s, 1, k - 1)
           b == SubSeq(s, k + 1, Len(s))
<1>1. /\ a \in Seq(S) /\ Len(a) = k - 1
      /\ \A i \in 1..(k - 1) : a[i] = s[i]
  OBVIOUS
<1>2. /\ b \in Seq(S) /\ Len(b) = Len(s) - k
      /\ \A i \in 1..(Len(s) - k) : b[i] = s[i + k]
  OBVIOUS
<1>3. DOMAIN s = 1..Len(s) /\ Len(s) \in Nat
  OBVIOUS
<1> HIDE DEF a, b
<1>4. /\ a \o b \in Seq(S) /\ Len(a \o b) = Len(s) - 1 /\ DOMAIN (a \o b) = 1..(Len(s) - 1)
      /\ \A i \in 1..(Len(s) - 1) : (a \o b)[i] = IF i < k THEN s[i] ELSE s[i + 1]
  <2>1. a \in Seq(S) /\ b \in Seq(S)
    BY <1>1, <1>2
  <2>2. a \o b \in Seq(S)
    BY <2>1
  <2>3. Len(a \o b) = Len(a) + Len(b)
    BY <2>1
  <2>4. \A i \in 1..(Len(s) - 1) : (a \o b)[i] = IF i <= Len(a) THEN a[i] ELSE b[i - Len(a)]
    BY <1>1, <1>2
  <2>5. ASSUME NEW i \in 1..(Len(s) - 1)
        PROVE  (a \o b)[i] = IF i < k THEN s[i] ELSE s[i + 1]
    <3>1. CASE i < k
      BY <1>1, <1>2, <2>4, <3>1
    <3>2. CASE ~(i < k)
      <4>1. i - Len(a) \in 1..(Len(s) - k) /\ i - Len(a) + k = i + 1 /\ ~(i <= Len(a))
        BY <1>1, <1>3, <3>2
      <4> QED BY <1>2, <2>4, <3>2, <4>1
    <3> QED BY <3>1, <3>2
  <2>6. DOMAIN (a \o b) = 1..Len(a \o b)
    BY <2>2
  <2> QED BY <1>1, <1>2, <2>2, <2>3, <2>5, <2>6
<1> DEFINE r == RemoveAt(s, k)
           at(i) == IF i < k THEN i ELSE i + 1
<1>5. /\ r \in Seq(S) /\ DOMAIN r = 1..(Len(s) - 1)
      /\ \A i \in 1..(Len(s) - 1) : r[i] = s[at(i)]
  BY <1>4 DEF RemoveAt, a, b
<1> HIDE DEF r
<1>6. /\ \A i \in 1..(Len(s) - 1) : at(i) \in 1..Len(s) \ {k}
      /\ \A i, j \in 1..(Len(s) - 1) : at(i) = at(j) => i = j
      /\ \A n \in 1..Len(s) \ {k} : \E i \in 1..(Len(s) - 1) : at(i) = n
  <2>1. ASSUME NEW n \in 1..Len(s) \ {k}
        PROVE  \E i \in 1..(Len(s) - 1) : at(i) = n
    <3>1. CASE n < k
      BY <1>3, <3>1
    <3>2. CASE n > k
      <4> WITNESS n - 1 \in 1..(Len(s) - 1)
      <4> QED BY <1>3, <3>2
    <3> QED BY <1>3, <3>1, <3>2
  <2> QED BY <1>3, <2>1
<1> HIDE DEF at
<1>7. ASSUME IsInjective(s)
      PROVE  IsInjective(r)
  BY <1>3, <1>5, <1>6, <1>7 DEF IsInjective
<1>8. ASSUME IsInjective(s)
      PROVE  ToSet(r) = ToSet(s) \ {s[k]}
  <2>1. ASSUME NEW x \in ToSet(r)
        PROVE  x \in ToSet(s) \ {s[k]}
    <3>1. PICK i \in 1..(Len(s) - 1) : x = s[at(i)]
      BY <1>5, <2>1 DEF ToSet
    <3>2. at(i) \in 1..Len(s) /\ at(i) # k
      BY <1>6, <3>1
    <3> QED BY <1>3, <1>8, <3>1, <3>2 DEF IsInjective, ToSet
  <2>2. ASSUME NEW x \in ToSet(s) \ {s[k]}
        PROVE  x \in ToSet(r)
    <3>1. PICK n \in 1..Len(s) \ {k} : x = s[n]
      BY <1>3, <2>2 DEF ToSet
    <3>2. PICK i \in 1..(Len(s) - 1) : at(i) = n
      BY <1>6, <3>1
    <3>3. x = r[i]
      BY <1>5, <3>1, <3>2
    <3> QED BY <1>5, <3>2, <3>3 DEF ToSet
  <2> QED BY <2>1, <2>2
<1> QED BY <1>5, <1>7, <1>8 DEF r

\* locks_delete_block: a process leaves a block list.
LEMMA RemoveFacts ==
    ASSUME NEW S, NEW s \in Seq(S), IsInjective(s), NEW e
    PROVE  /\ RemoveFirst(s, e) \in Seq(S)
           /\ IsInjective(RemoveFirst(s, e))
           /\ ToSet(RemoveFirst(s, e)) = ToSet(s) \ {e}
<1>1. DOMAIN s = 1..Len(s) /\ Len(s) \in Nat
  OBVIOUS
<1>2. CASE \E i \in 1..Len(s) : s[i] = e
  <2> DEFINE I == {i \in 1..Len(s) : s[i] = e}
             k == Min(I)
  <2>1. PICK i \in 1..Len(s) : s[i] = e
    BY <1>2
  <2>2. I = {i}
    BY <1>1, <2>1 DEF IsInjective
  <2>3. k = i
    BY <2>2 DEF Min
  <2>4. RemoveFirst(s, e) = RemoveAt(s, i)
    BY <1>2, <2>2, <2>3 DEF RemoveFirst, SelectInSeq
  <2> QED BY <2>1, <2>4, WithoutFacts
<1>3. CASE ~(\E i \in 1..Len(s) : s[i] = e)
  <2>1. RemoveFirst(s, e) = s
    BY <1>3 DEF RemoveFirst
  <2>2. e \notin ToSet(s)
    BY <1>1, <1>3 DEF ToSet
  <2> QED BY <2>1, <2>2
<1> QED BY <1>2, <1>3

\* What Keep builds up along the list.
LEMMA KeepRuns ==
    ASSUME NEW S, NEW list \in Seq(S), NEW I
    PROVE  \E kept :
              /\ kept[0] = << >>
              /\ \A k \in 1..Len(list) :
                    kept[k] = IF k \in I THEN kept[k - 1] ELSE Append(kept[k - 1], list[k])
              /\ Keep(list, I) = kept[Len(list)]
<1> DEFINE Step(g, k) == IF k = 0 THEN << >>
                         ELSE IF k \in I THEN g[k - 1] ELSE Append(g[k - 1], list[k])
           Eq(g, n) == g = [k \in 0..n |-> Step(g, k)]
           T == {n \in Nat : \E g : Eq(g, n)}
<1>1. 0 \in T
  <2> DEFINE g == [k \in 0..0 |-> << >>]
  <2>1. g = [k \in 0..0 |-> Step(g, k)]
    OBVIOUS
  <2> QED BY <2>1
<1>2. ASSUME NEW n \in T
      PROVE  n + 1 \in T
  <2>1. PICK g : Eq(g, n)
    OBVIOUS
  <2> DEFINE h == [k \in 0..(n + 1) |-> IF k <= n THEN g[k] ELSE Step(g, n + 1)]
  <2>2. \A k \in 0..(n + 1) : h[k] = Step(h, k)
    <3>1. ASSUME NEW k \in 0..(n + 1) PROVE h[k] = Step(h, k)
      <4>1. CASE k = 0
        <5>1. h[0] = g[0] /\ Step(h, 0) = << >>
          OBVIOUS
        <5>2. g[0] = Step(g, 0)
          BY <2>1
        <5> QED BY <4>1, <5>1, <5>2
      <4>2. CASE k # 0
        <5>1. k - 1 \in 0..n /\ h[k - 1] = g[k - 1]
          BY <4>2
        <5>2. Step(h, k) = Step(g, k)
          BY <4>2, <5>1
        <5>3. CASE k <= n
          <6>1. k \in 0..n /\ h[k] = g[k]
            BY <5>3
          <6>2. g[k] = Step(g, k)
            BY <2>1, <6>1
          <6> QED BY <5>2, <6>1, <6>2
        <5>4. CASE ~(k <= n)
          <6>1. k = n + 1
            BY <5>4
          <6> QED BY <5>2, <5>4, <6>1
        <5> QED BY <5>3, <5>4
      <4> QED BY <4>1, <4>2
    <3> QED BY <3>1
  <2>3. h = [k \in 0..(n + 1) |-> h[k]]
    OBVIOUS
  <2>4. Eq(h, n + 1)
    <3> HIDE DEF Step, h
    <3> QED BY <2>2, <2>3
  <2> HIDE DEF h, Eq
  <2> QED BY <2>4
<1> HIDE DEF T
<1>3. T = Nat
  BY <1>1, <1>2, Induction DEF T
<1> DEFINE kept == CHOOSE g : g = [k \in 0..Len(list) |-> Step(g, k)]
<1>4. Eq(kept, Len(list))
  <2>1. Len(list) \in T
    BY <1>3
  <2>2. \E g : Eq(g, Len(list))
    BY <2>1 DEF T
  <2> QED BY <2>2
<1>5. Keep(list, I) = kept[Len(list)]
  BY DEF Keep
<1> HIDE DEF kept
<1>6. \A k \in 0..Len(list) : kept[k] = Step(kept, k)
  <2> HIDE DEF Step
  <2> QED BY <1>4
<1>7. kept[0] = << >>
  BY <1>6
<1>8. \A k \in 1..Len(list) :
         kept[k] = IF k \in I THEN kept[k - 1] ELSE Append(kept[k - 1], list[k])
  BY <1>6
<1> QED BY <1>5, <1>7, <1>8

\* M are the locks of list outside I, in their order; g says where they were.
Picks(g, M, list, I) ==
    /\ g \in [1..Len(M) -> 1..Len(list)]
    /\ \A i \in 1..Len(M) : g[i] \notin I /\ M[i] = list[g[i]]
    /\ \A i, j \in 1..Len(M) : i < j => g[i] < g[j]
    /\ \A k \in 1..Len(list) : k \notin I => \E i \in 1..Len(M) : g[i] = k

\* Keep leaves the locks outside I, in their order.
LEMMA KeepFacts ==
    ASSUME NEW S, NEW list \in Seq(S), NEW I
    PROVE  /\ Keep(list, I) \in Seq(S)
           /\ \E g : Picks(g, Keep(list, I), list, I)
<1>1. PICK kept :
         /\ kept[0] = << >>
         /\ \A k \in 1..Len(list) :
               kept[k] = IF k \in I THEN kept[k - 1] ELSE Append(kept[k - 1], list[k])
         /\ Keep(list, I) = kept[Len(list)]
  BY KeepRuns
<1> DEFINE Good(k, g) == /\ kept[k] \in Seq(S) /\ g \in [1..Len(kept[k]) -> 1..k]
                         /\ \A i \in 1..Len(kept[k]) : g[i] \notin I /\ kept[k][i] = list[g[i]]
                         /\ \A i, j \in 1..Len(kept[k]) : i < j => g[i] < g[j]
                         /\ \A n \in 1..k : n \notin I => \E i \in 1..Len(kept[k]) : g[i] = n
           T == {k \in Nat : k <= Len(list) => \E g : Good(k, g)}
<1>2. Len(list) \in Nat
  OBVIOUS
<1>3. 0 \in T
  <2>1. kept[0] \in Seq(S) /\ Len(kept[0]) = 0
    BY <1>1
  <2> DEFINE g == [i \in 1..Len(kept[0]) |-> 0]
  <2>2. 1..Len(kept[0]) = {} /\ 1..0 = {}
    BY <2>1
  <2>3. g \in [1..Len(kept[0]) -> 1..0]
    BY <2>2
  <2>4. Good(0, g)
    BY <2>1, <2>2, <2>3
  <2> QED BY <2>4
<1>4. ASSUME NEW k \in T
      PROVE  k + 1 \in T
  <2>0. k \in Nat /\ k + 1 \in Nat
    OBVIOUS
  <2> SUFFICES ASSUME k + 1 <= Len(list)
               PROVE  \E g : Good(k + 1, g)
    <3> HIDE DEF Good
    <3> QED BY <2>0
  <2>1. k \in Nat /\ k + 1 \in 1..Len(list) /\ (k + 1) - 1 = k
    BY <1>2
  <2>2. PICK g : Good(k, g)
    BY <1>2
  <2>3. CASE k + 1 \in I
    <3>1. kept[k + 1] = kept[k]
      BY <1>1, <2>1, <2>3
    <3>2. g \in [1..Len(kept[k]) -> 1..(k + 1)]
      BY <2>1, <2>2
    <3>3. Good(k + 1, g)
      BY <2>1, <2>2, <2>3, <3>1, <3>2
    <3> QED BY <3>3
  <2>4. CASE k + 1 \notin I
    <3> DEFINE m == Len(kept[k])
               h == [i \in 1..(m + 1) |-> IF i <= m THEN g[i] ELSE k + 1]
    <3>1. kept[k + 1] = Append(kept[k], list[k + 1])
      BY <1>1, <2>1, <2>4
    <3>2. list[k + 1] \in S /\ kept[k] \in Seq(S) /\ m \in Nat
      BY <2>1, <2>2
    <3>3. /\ kept[k + 1] \in Seq(S) /\ Len(kept[k + 1]) = m + 1
          /\ \A i \in 1..m : kept[k + 1][i] = kept[k][i]
          /\ kept[k + 1][m + 1] = list[k + 1]
      BY <3>1, <3>2
    <3> HIDE DEF m
    <3>4. g \in [1..m -> 1..k] /\ \A i \in 1..m : g[i] \notin I /\ kept[k][i] = list[g[i]]
      BY <2>2 DEF m
    <3>5. /\ \A i, j \in 1..m : i < j => g[i] < g[j]
          /\ \A n \in 1..k : n \notin I => \E i \in 1..m : g[i] = n
      BY <2>2 DEF m
    <3>6. h \in [1..(m + 1) -> 1..(k + 1)] /\ (\A i \in 1..m : h[i] = g[i]) /\ h[m + 1] = k + 1
      BY <2>1, <3>2, <3>4
    <3> HIDE DEF h
    <3>7. \A i \in 1..(m + 1) : h[i] \notin I /\ kept[k + 1][i] = list[h[i]]
      BY <2>4, <3>2, <3>3, <3>4, <3>6
    <3>8. \A i, j \in 1..(m + 1) : i < j => h[i] < h[j]
      <4> SUFFICES ASSUME NEW i \in 1..(m + 1), NEW j \in 1..(m + 1), i < j
                   PROVE  h[i] < h[j]
        OBVIOUS
      <4>1. i \in 1..m /\ h[i] = g[i] /\ g[i] \in 1..k
        BY <3>2, <3>4, <3>6
      <4>2. CASE j \in 1..m
        BY <3>5, <3>6, <4>1, <4>2
      <4>3. CASE j = m + 1
        BY <2>1, <3>6, <4>1, <4>3
      <4> QED BY <3>2, <4>2, <4>3
    <3>9. \A n \in 1..(k + 1) : n \notin I => \E i \in 1..(m + 1) : h[i] = n
      BY <2>1, <3>2, <3>5, <3>6
    <3>10. Good(k + 1, h)
      BY <3>3, <3>6, <3>7, <3>8, <3>9
    <3> QED BY <3>10
  <2> QED BY <2>3, <2>4
<1> HIDE DEF T
<1>5. T = Nat
  BY <1>3, <1>4, Induction DEF T
<1>6. PICK g : Good(Len(list), g)
  BY <1>2, <1>5 DEF T
<1> QED BY <1>1, <1>6 DEF Picks

----------------------------------------------------------------------------
(* One lock in the loop of posix_lock_file.                                 *)

Locals == {"out", "at", "seen", "start", "end", "added", "new", "left", "right", "woken"}

\* s with some locals changed.
Local(s, o, a, sn, st, en, ad, nw, lf, rt, wk) ==
    /\ DOMAIN s = Locals
    /\ s.out = o /\ s.at = a /\ s.seen = sn /\ s.start = st /\ s.end = en
    /\ s.added = ad /\ s.new = nw /\ s.left = lf /\ s.right = rt /\ s.woken = wk

\* What the three ways of going on make of the locals.
LEMMA LocalFacts ==
    ASSUME NEW s, NEW o, NEW a, NEW sn, NEW st, NEW en, NEW ad, NEW nw, NEW lf, NEW rt, NEW wk,
           NEW fl, Local(s, o, a, sn, st, en, ad, nw, lf, rt, wk)
    PROVE  /\ Local(P!NextLock(s, fl), Append(o, fl), a, TRUE, st, en, ad, nw, lf, rt, wk)
           /\ Local(P!Break(s, fl), Append(o, fl), Len(o) + 1, sn, st, en, ad, nw, lf, rt, wk)
           /\ Local(P!locks_delete_lock(s, fl), o, a, TRUE, st, en, ad, nw, lf, rt,
                    wk \cup ToSet(fl.block))
<1>1. Local(P!NextLock(s, fl), Append(o, fl), a, TRUE, st, en, ad, nw, lf, rt, wk)
  BY DEF Local, Locals, P!NextLock
<1>2. Local(P!Break(s, fl), Append(o, fl), Len(o) + 1, sn, st, en, ad, nw, lf, rt, wk)
  BY DEF Local, Locals, P!Break
<1>3. Local(P!locks_delete_lock(s, fl), o, a, TRUE, st, en, ad, nw, lf, rt,
            wk \cup ToSet(fl.block))
  BY DEF Local, Locals, P!locks_delete_lock, P!locks_wake_up_blocks, ToSet, P!ToSet
<1> QED BY <1>1, <1>2, <1>3
\* A lock with another range, in a list or not, and with another type.
Ranged(f, a, b) == [f EXCEPT !.start = a, !.end = b]
Widened(o, n, a, b) == [o EXCEPT ![n].start = a, ![n].end = b]
Taken(f, a, b, ty) == [f EXCEPT !.start = a, !.end = b, !.type = ty, !.block = << >>]

\* fl stays in the list as it is.
Stays(s, t, fl, a, sn, ad, lf, rt) ==
    Local(t, Append(s.out, fl), a, sn, s.start, s.end, ad, s.new, lf, rt, s.woken)

Ad(s, r) == s.added \/ r.type = "F_UNLCK"

\* Another's lock, or one behind the end of the loop.
OtherCase(s, t, fl, p) ==
    \/ s.at # 0 /\ Stays(s, t, fl, s.at, s.seen, s.added, s.left, s.right)
    \/ /\ s.at = 0 /\ fl.owner # p
       /\ \/ ~s.seen /\ Stays(s, t, fl, s.at, s.seen, s.added, s.left, s.right)
          \/ s.seen /\ Stays(s, t, fl, Len(s.out) + 1, s.seen, s.added, s.left, s.right)

\* A lock of the type asked for.
SameCase(s, t, fl, p, r) ==
    /\ s.at = 0 /\ fl.owner = p /\ fl.type = r.type
    /\ \/ /\ fl.end < s.start - 1
          /\ Stays(s, t, fl, s.at, TRUE, s.added, s.left, s.right)
       \/ /\ ~(fl.end < s.start - 1) /\ fl.start > P!Wrap(s.end + 1)
          /\ Stays(s, t, fl, Len(s.out) + 1, s.seen, s.added, s.left, s.right)
       \/ /\ ~(fl.end < s.start - 1) /\ ~(fl.start > P!Wrap(s.end + 1))
          /\ \E lo, hi :
               /\ lo = Min({fl.start, s.start}) /\ hi = Max({fl.end, s.end})
               /\ \/ /\ s.new # 0
                     /\ Local(t, Widened(s.out, s.new, lo, hi), s.at,
                              TRUE, lo, hi, s.added, s.new, s.left, s.right,
                              s.woken \cup ToSet(fl.block))
                  \/ /\ s.new = 0
                     /\ Local(t, Append(s.out, Ranged(fl, lo, hi)), s.at,
                              TRUE, lo, hi, TRUE, Len(s.out) + 1, s.left, s.right, s.woken)

\* A lock of the other type.
DiffCase(s, t, fl, p, r) ==
    /\ s.at = 0 /\ fl.owner = p /\ fl.type # r.type
    /\ \/ /\ fl.end < s.start
          /\ Stays(s, t, fl, s.at, TRUE, s.added, s.left, s.right)
       \/ /\ ~(fl.end < s.start) /\ fl.start > s.end
          /\ Stays(s, t, fl, Len(s.out) + 1, s.seen, s.added, s.left, s.right)
       \/ /\ ~(fl.end < s.start) /\ ~(fl.start > s.end) /\ fl.end > s.end
          /\ Stays(s, t, fl, Len(s.out) + 1, s.seen, Ad(s, r),
                   IF fl.start < s.start THEN Len(s.out) + 1 ELSE s.left, TRUE)
       \/ /\ ~(fl.end < s.start) /\ ~(fl.start > s.end) /\ ~(fl.end > s.end)
          /\ fl.start < s.start
          /\ Stays(s, t, fl, s.at, TRUE, Ad(s, r), Len(s.out) + 1, s.right)
       \/ /\ ~(fl.end > s.end) /\ ~(fl.start < s.start) /\ Ad(s, r)
          /\ Local(t, s.out, s.at, TRUE, s.start, s.end, Ad(s, r), s.new, s.left, s.right,
                   s.woken \cup ToSet(fl.block))
       \/ /\ ~(fl.end > s.end) /\ ~(fl.start < s.start) /\ ~Ad(s, r)
          /\ Local(t, Append(s.out, Taken(fl, s.start, s.end, r.type)), s.at,
                   TRUE, s.start, s.end, TRUE, Len(s.out) + 1, s.left, s.right,
                   s.woken \cup ToSet(fl.block))

LEMMA SameFacts ==
    ASSUME NEW s, DOMAIN s = Locals, NEW fl, NEW p, NEW r,
           s.at = 0, fl.owner = p, fl.type = r.type
    PROVE  SameCase(s, P!SameType(s, fl, r), fl, p, r)
<1> DEFINE lo == Min({fl.start, s.start})
           hi == Max({fl.end, s.end})
           t == [s EXCEPT !.start = lo, !.end = hi]
           o == Widened(s.out, s.new, lo, hi)
           u == [t EXCEPT !.out[s.new].start = lo, !.out[s.new].end = hi]
           v == [t EXCEPT !.added = TRUE, !.new = Len(s.out) + 1]
           g == Ranged(fl, lo, hi)
<1> HIDE DEF lo, hi
<1>1. P!SameType(s, fl, r) =
         IF fl.end < s.start - 1 THEN P!NextLock(s, fl)
         ELSE IF fl.start > P!Wrap(s.end + 1) THEN P!Break(s, fl)
         ELSE IF s.new # 0 THEN P!locks_delete_lock(u, fl)
         ELSE P!NextLock(v, g)
  BY DEF P!SameType, P!Min, P!Max, Min, Max, lo, hi, Ranged
<1>2. Local(s, s.out, s.at, s.seen, s.start, s.end, s.added, s.new, s.left, s.right, s.woken)
  BY DEF Local
<1>3. Local(t, s.out, s.at, s.seen, lo, hi, s.added, s.new, s.left, s.right, s.woken)
  BY DEF Local, Locals
<1>4. Local(v, s.out, s.at, s.seen, lo, hi, TRUE, Len(s.out) + 1, s.left, s.right, s.woken)
  <2> HIDE DEF t
  <2> QED BY <1>3 DEF Local, Locals
<1>5. Local(u, o, s.at, s.seen, lo, hi, s.added, s.new, s.left, s.right, s.woken)
  <2> HIDE DEF t
  <2> QED BY <1>3 DEF Local, Locals, Widened
<1> HIDE DEF u, v
<1>6. CASE fl.end < s.start - 1
  <2>1. P!SameType(s, fl, r) = P!NextLock(s, fl)
    BY <1>1, <1>6
  <2>2. Local(P!NextLock(s, fl), Append(s.out, fl), s.at, TRUE, s.start, s.end, s.added, s.new,
              s.left, s.right, s.woken)
    BY <1>2, LocalFacts
  <2> QED BY <1>6, <2>1, <2>2 DEF SameCase, Stays
<1>7. CASE ~(fl.end < s.start - 1) /\ fl.start > P!Wrap(s.end + 1)
  <2>1. P!SameType(s, fl, r) = P!Break(s, fl)
    BY <1>1, <1>7
  <2>2. Local(P!Break(s, fl), Append(s.out, fl), Len(s.out) + 1, s.seen, s.start, s.end, s.added,
              s.new, s.left, s.right, s.woken)
    BY <1>2, LocalFacts
  <2> QED BY <1>7, <2>1, <2>2 DEF SameCase, Stays
<1>8. CASE ~(fl.end < s.start - 1) /\ ~(fl.start > P!Wrap(s.end + 1)) /\ s.new # 0
  <2>1. Local(P!SameType(s, fl, r), o, s.at, TRUE, lo, hi, s.added, s.new, s.left, s.right,
              s.woken \cup ToSet(fl.block))
    <3> HIDE DEF o
    <3>1. P!SameType(s, fl, r) = P!locks_delete_lock(u, fl)
      BY <1>1, <1>8
    <3>2. Local(P!locks_delete_lock(u, fl), o, s.at, TRUE, lo, hi, s.added, s.new, s.left, s.right,
                s.woken \cup ToSet(fl.block))
      BY <1>5, LocalFacts
    <3> QED BY <3>1, <3>2
  <2> QED BY <1>8, <2>1 DEF SameCase, lo, hi
<1>9. CASE ~(fl.end < s.start - 1) /\ ~(fl.start > P!Wrap(s.end + 1)) /\ s.new = 0
  <2>1. Local(P!SameType(s, fl, r), Append(s.out, g), s.at, TRUE, lo, hi, TRUE, Len(s.out) + 1,
              s.left, s.right, s.woken)
    <3> HIDE DEF g
    <3>1. P!SameType(s, fl, r) = P!NextLock(v, g)
      BY <1>1, <1>9
    <3>2. Local(P!NextLock(v, g), Append(s.out, g), s.at, TRUE, lo, hi, TRUE, Len(s.out) + 1,
                s.left, s.right, s.woken)
      BY <1>4, LocalFacts
    <3> QED BY <3>1, <3>2
  <2> QED BY <1>9, <2>1 DEF SameCase, lo, hi
<1> QED BY <1>6, <1>7, <1>8, <1>9

LEMMA DiffFacts ==
    ASSUME NEW s, DOMAIN s = Locals, NEW fl, NEW p, NEW r,
           s.at = 0, fl.owner = p, fl.type # r.type
    PROVE  DiffCase(s, P!OtherType(s, fl, r), fl, p, r)
<1> DEFINE lf == IF fl.start < s.start THEN Len(s.out) + 1 ELSE s.left
           ad == Ad(s, r)
           n == Len(s.out) + 1
           t == [s EXCEPT !.added = ad, !.left = lf]
           wk == s.woken \cup ToSet(fl.block)
           v == [t EXCEPT !.added = TRUE, !.new = n, !.woken = wk]
           g == Taken(fl, s.start, s.end, r.type)
           w == [t EXCEPT !.right = TRUE]
<1>1. P!OtherType(s, fl, r) =
         IF fl.end < s.start THEN P!NextLock(s, fl)
         ELSE IF fl.start > s.end THEN P!Break(s, fl)
         ELSE IF fl.end > s.end THEN P!Break(w, fl)
         ELSE IF fl.start < s.start THEN P!NextLock(t, fl)
         ELSE IF t.added THEN P!locks_delete_lock(t, fl)
         ELSE P!NextLock(v, g)
  BY Zenon DEF P!OtherType, P!locks_wake_up_blocks, ToSet, P!ToSet, Ad, Taken
<1> HIDE DEF lf, ad, n, wk
<1>2. Local(s, s.out, s.at, s.seen, s.start, s.end, s.added, s.new, s.left, s.right, s.woken)
  BY DEF Local
<1>3. Local(t, s.out, s.at, s.seen, s.start, s.end, ad, s.new, lf, s.right, s.woken)
  BY DEF Local, Locals
<1> HIDE DEF t
<1>4. Local(v, s.out, s.at, s.seen, s.start, s.end, TRUE, n, lf, s.right, wk)
  BY <1>3 DEF Local, Locals
<1>5. Local(w, s.out, s.at, s.seen, s.start, s.end, ad, s.new, lf, TRUE, s.woken)
  BY <1>3 DEF Local, Locals
<1>6. t.added = ad
  BY <1>3 DEF Local
<1> HIDE DEF v, w
<1>7. CASE fl.end < s.start
  <2>1. P!OtherType(s, fl, r) = P!NextLock(s, fl)
    BY <1>1, <1>7
  <2>2. Local(P!NextLock(s, fl), Append(s.out, fl), s.at, TRUE, s.start, s.end, s.added, s.new,
              s.left, s.right, s.woken)
    BY <1>2, LocalFacts
  <2> QED BY <1>7, <2>1, <2>2 DEF DiffCase, Stays
<1>8. CASE ~(fl.end < s.start) /\ fl.start > s.end
  <2>1. P!OtherType(s, fl, r) = P!Break(s, fl)
    BY <1>1, <1>8
  <2>2. Local(P!Break(s, fl), Append(s.out, fl), Len(s.out) + 1, s.seen, s.start, s.end, s.added,
              s.new, s.left, s.right, s.woken)
    BY <1>2, LocalFacts
  <2> QED BY <1>8, <2>1, <2>2 DEF DiffCase, Stays
<1>9. CASE ~(fl.end < s.start) /\ ~(fl.start > s.end) /\ fl.end > s.end
  <2>1. Local(P!OtherType(s, fl, r), Append(s.out, fl), n, s.seen, s.start, s.end, ad, s.new, lf,
              TRUE, s.woken)
    <3>1. P!OtherType(s, fl, r) = P!Break(w, fl)
      BY <1>1, <1>9
    <3>2. Local(P!Break(w, fl), Append(s.out, fl), Len(s.out) + 1, s.seen, s.start, s.end, ad,
                s.new, lf, TRUE, s.woken)
      BY <1>5, LocalFacts
    <3> QED BY <3>1, <3>2 DEF n
  <2> QED BY <1>9, <2>1 DEF DiffCase, Stays, n, lf, ad
<1>10. CASE ~(fl.end < s.start) /\ ~(fl.start > s.end) /\ ~(fl.end > s.end) /\ fl.start < s.start
  <2>1. Local(P!OtherType(s, fl, r), Append(s.out, fl), s.at, TRUE, s.start, s.end, ad, s.new, lf,
              s.right, s.woken)
    <3>1. P!OtherType(s, fl, r) = P!NextLock(t, fl)
      BY <1>1, <1>10
    <3>2. Local(P!NextLock(t, fl), Append(s.out, fl), s.at, TRUE, s.start, s.end, ad, s.new, lf,
                s.right, s.woken)
      BY <1>3, LocalFacts
    <3> QED BY <3>1, <3>2
  <2> QED BY <1>10, <2>1 DEF DiffCase, Stays, lf, ad
<1>11. CASE ~(fl.end < s.start) /\ ~(fl.start > s.end) /\ ~(fl.end > s.end) /\ ~(fl.start < s.start) /\ ad
  <2>1. Local(P!OtherType(s, fl, r), s.out, s.at, TRUE, s.start, s.end, ad, s.new, lf,
              s.right, wk)
    <3>1. P!OtherType(s, fl, r) = P!locks_delete_lock(t, fl)
      BY <1>1, <1>6, <1>11
    <3>2. Local(P!locks_delete_lock(t, fl), s.out, s.at, TRUE, s.start, s.end, ad, s.new, lf,
                s.right, s.woken \cup ToSet(fl.block))
      BY <1>3, LocalFacts
    <3> QED BY <3>1, <3>2 DEF wk
  <2> QED BY <1>11, <2>1 DEF DiffCase, lf, ad, wk
<1>12. CASE ~(fl.end < s.start) /\ ~(fl.start > s.end) /\ ~(fl.end > s.end) /\ ~(fl.start < s.start) /\ ~ad
  <2>1. Local(P!OtherType(s, fl, r), Append(s.out, g), s.at, TRUE, s.start, s.end, TRUE, n, lf,
              s.right, wk)
    <3> HIDE DEF g
    <3>1. P!OtherType(s, fl, r) = P!NextLock(v, g)
      BY <1>1, <1>6, <1>12
    <3>2. Local(P!NextLock(v, g), Append(s.out, g), s.at, TRUE, s.start, s.end, TRUE, n, lf,
                s.right, wk)
      BY <1>4, LocalFacts
    <3> QED BY <3>1, <3>2
  <2> QED BY <1>12, <2>1 DEF DiffCase, lf, ad, wk, n
<1> QED BY <1>7, <1>8, <1>9, <1>10, <1>11, <1>12

\* Every lock is one of these cases.
LEMMA LoopCases ==
    ASSUME NEW s, DOMAIN s = Locals, NEW fl, NEW p, NEW r, NEW t, t = P!Loop(p, r, s, fl)
    PROVE  OtherCase(s, t, fl, p) \/ SameCase(s, t, fl, p, r) \/ DiffCase(s, t, fl, p, r)
<1> DEFINE u == [s EXCEPT !.out = Append(@, fl)]
<1>1. t = IF s.at # 0 THEN u
          ELSE IF fl.owner # p THEN IF s.seen THEN P!Break(s, fl) ELSE u
          ELSE IF fl.type = r.type THEN P!SameType(s, fl, r) ELSE P!OtherType(s, fl, r)
  BY Zenon DEF P!Loop
<1>2. Local(s, s.out, s.at, s.seen, s.start, s.end, s.added, s.new, s.left, s.right, s.woken)
  BY DEF Local
<1>3. Local(u, Append(s.out, fl), s.at, s.seen, s.start, s.end, s.added, s.new, s.left, s.right,
            s.woken)
  BY DEF Local, Locals
<1> HIDE DEF u
<1>4. CASE s.at # 0
  BY <1>1, <1>3, <1>4 DEF OtherCase, Stays
<1>5. CASE s.at = 0 /\ fl.owner # p /\ s.seen
  <2>1. t = P!Break(s, fl)
    BY <1>1, <1>5
  <2>2. Local(P!Break(s, fl), Append(s.out, fl), Len(s.out) + 1, s.seen, s.start, s.end, s.added,
              s.new, s.left, s.right, s.woken)
    BY <1>2, LocalFacts
  <2> QED BY <1>5, <2>1, <2>2 DEF OtherCase, Stays
<1>6. CASE s.at = 0 /\ fl.owner # p /\ ~s.seen
  BY <1>1, <1>3, <1>6 DEF OtherCase, Stays
<1>7. CASE s.at = 0 /\ fl.owner = p /\ fl.type = r.type
  BY <1>1, <1>7, SameFacts
<1>8. CASE s.at = 0 /\ fl.owner = p /\ fl.type # r.type
  BY <1>1, <1>8, DiffFacts
<1> QED BY <1>4, <1>5, <1>6, <1>7, <1>8
----------------------------------------------------------------------------
(* What becomes of the block lists.                                         *)

On(fl) == ToSet(fl.block)

\* A process is on at most one block list, and there once.
Once(list) ==
    /\ \A i \in DOMAIN list : IsInjective(list[i].block)
    /\ \A i, j \in DOMAIN list : \A q \in On(list[i]) : q \in On(list[j]) => i = j

\* g, a lock that q waits for, covers what f did.
Covers(g, f, q) ==
    /\ q \in On(g) /\ g.owner = f.owner /\ g.type = f.type
    /\ g.start <= f.start /\ f.end <= g.end

\* M is what became of the first k locks of L when the processes of W were
\* woken: its block lists come from there, and who is not woken still waits for
\* a lock that covers the one it waited for.
Descends(L, k, M, W) ==
    /\ Once(M)
    /\ \A x \in 1..Len(M) : \A q \in On(M[x]) :
          \E i \in 1..k : q \in On(L[i]) /\ M[x].owner = L[i].owner
    /\ \A i \in 1..k : \A q \in On(L[i]) : q \in W \/ \E x \in 1..Len(M) : Covers(M[x], L[i], q)

LEMMA LockFields ==
    ASSUME NEW f \in PosixLock
    PROVE  /\ f.owner \in Procs /\ f.type \in {"F_RDLCK", "F_WRLCK"} /\ f.block \in Seq(Procs)
           /\ f.start \in 0..OFFSET_MAX /\ f.end \in -1..OFFSET_MAX /\ f.start \in Int /\ f.end \in Int
<1>1. OFFSET_MAX \in Nat
  BY ConstAssumption
<1>2. /\ f.owner \in Procs /\ f.type \in {"F_RDLCK", "F_WRLCK"} /\ f.block \in Seq(Procs)
      /\ f.start \in 0..OFFSET_MAX /\ f.end \in -1..OFFSET_MAX
  BY DEF PosixLock, P!Bytes
<1> QED BY <1>1, <1>2

\* A lock with another range.
LEMMA LockRange ==
    ASSUME NEW f \in PosixLock, NEW a \in 0..OFFSET_MAX, NEW b \in -1..OFFSET_MAX
    PROVE  /\ Ranged(f, a, b) \in PosixLock /\ Ranged(f, a, b).start = a /\ Ranged(f, a, b).end = b
           /\ Ranged(f, a, b).owner = f.owner /\ Ranged(f, a, b).type = f.type
           /\ Ranged(f, a, b).block = f.block
<1> DEFINE h == [f EXCEPT !.start = a]
           g == Ranged(f, a, b)
<1>1. /\ h \in PosixLock /\ h.start = a
      /\ h.owner = f.owner /\ h.type = f.type /\ h.block = f.block
  BY DEF PosixLock, P!Bytes
<1>2. g = [h EXCEPT !.end = b]
  BY DEF Ranged
<1> HIDE DEF h, g
<1>3. /\ g \in PosixLock /\ g.start = a /\ g.end = b
      /\ g.owner = f.owner /\ g.type = f.type /\ g.block = f.block
  BY <1>1, <1>2 DEF PosixLock
<1> QED BY <1>3 DEF g

\* The lock of the other type that takes the request in.
LEMMA LockTaken ==
    ASSUME NEW f \in PosixLock, NEW a \in 0..OFFSET_MAX, NEW b \in -1..OFFSET_MAX,
           NEW ty \in {"F_RDLCK", "F_WRLCK"}
    PROVE  /\ Taken(f, a, b, ty) \in PosixLock
           /\ Taken(f, a, b, ty).start = a /\ Taken(f, a, b, ty).end = b
           /\ Taken(f, a, b, ty).owner = f.owner /\ Taken(f, a, b, ty).type = ty
           /\ Taken(f, a, b, ty).block = << >>
<1> DEFINE g == Taken(f, a, b, ty)
           h == [f EXCEPT !.start = a]
           i == [h EXCEPT !.end = b]
           j == [i EXCEPT !.type = ty]
<1>1. g = [j EXCEPT !.block = << >>]
  BY DEF Taken
<1> HIDE DEF g
<1>2. h \in PosixLock /\ h.start = a /\ h.owner = f.owner
  BY DEF PosixLock, P!Bytes
<1> HIDE DEF h
<1>3. i \in PosixLock /\ i.start = a /\ i.end = b /\ i.owner = f.owner
  BY <1>2 DEF PosixLock
<1> HIDE DEF i
<1>4. j \in PosixLock /\ j.start = a /\ j.end = b /\ j.owner = f.owner /\ j.type = ty
  BY <1>3 DEF PosixLock
<1> HIDE DEF j
<1>5. << >> \in Seq(Procs)
  OBVIOUS
<1>6. /\ g \in PosixLock /\ g.start = a /\ g.end = b
      /\ g.owner = f.owner /\ g.type = ty /\ g.block = << >>
  BY <1>1, <1>4, <1>5 DEF PosixLock
<1> QED BY <1>6 DEF g

\* A lock that is cut back, and whose block list is woken.
CutEnd(f, a) == [f EXCEPT !.end = a, !.block = << >>]
CutStart(f, a) == [f EXCEPT !.start = a, !.block = << >>]

LEMMA LockCut ==
    ASSUME NEW f \in PosixLock, NEW a
    PROVE  /\ a \in -1..OFFSET_MAX =>
                /\ CutEnd(f, a) \in PosixLock /\ CutEnd(f, a).start = f.start /\ CutEnd(f, a).end = a
                /\ CutEnd(f, a).owner = f.owner /\ CutEnd(f, a).type = f.type
                /\ CutEnd(f, a).block = << >>
           /\ a \in 0..OFFSET_MAX =>
                /\ CutStart(f, a) \in PosixLock /\ CutStart(f, a).start = a
                /\ CutStart(f, a).end = f.end
                /\ CutStart(f, a).owner = f.owner /\ CutStart(f, a).type = f.type
                /\ CutStart(f, a).block = << >>
<1>0. << >> \in Seq(Procs)
  OBVIOUS
<1>1. ASSUME NEW g, a \in -1..OFFSET_MAX, g = CutEnd(f, a)
      PROVE  /\ g \in PosixLock /\ g.start = f.start /\ g.end = a
             /\ g.owner = f.owner /\ g.type = f.type /\ g.block = << >>
  <2> DEFINE h == [f EXCEPT !.end = a]
  <2>1. /\ h \in PosixLock /\ h.end = a /\ h.start = f.start
        /\ h.owner = f.owner /\ h.type = f.type
    BY <1>1 DEF PosixLock
  <2>2. g = [h EXCEPT !.block = << >>]
    BY <1>1 DEF CutEnd
  <2> HIDE DEF h
  <2> QED BY <1>0, <2>1, <2>2 DEF PosixLock
<1>2. ASSUME NEW g, a \in 0..OFFSET_MAX, g = CutStart(f, a)
      PROVE  /\ g \in PosixLock /\ g.start = a /\ g.end = f.end
             /\ g.owner = f.owner /\ g.type = f.type /\ g.block = << >>
  <2> DEFINE h == [f EXCEPT !.start = a]
  <2>1. /\ h \in PosixLock /\ h.start = a /\ h.end = f.end
        /\ h.owner = f.owner /\ h.type = f.type
    BY <1>2 DEF PosixLock, P!Bytes
  <2>2. g = [h EXCEPT !.block = << >>]
    BY <1>2 DEF CutStart
  <2> HIDE DEF h
  <2> QED BY <1>0, <2>1, <2>2 DEF PosixLock
<1> QED BY <1>1, <1>2

LEMMA DescendsAppend ==
    ASSUME NEW L \in Seq(PosixLock), Once(L), NEW k \in 1..Len(L), NEW M \in Seq(PosixLock), NEW W,
           Descends(L, k - 1, M, W), NEW g \in PosixLock, g.owner = L[k].owner, g.type = L[k].type,
           g.block = L[k].block, g.start <= L[k].start, L[k].end <= g.end
    PROVE  Descends(L, k, Append(M, g), W)
<1> DEFINE N == Append(M, g)
           m == Len(M)
<1>1. /\ N \in Seq(PosixLock) /\ Len(N) = m + 1 /\ m \in Nat /\ N[m + 1] = g
      /\ \A x \in 1..m : N[x] = M[x]
      /\ DOMAIN N = 1..(m + 1) /\ DOMAIN M = 1..m /\ DOMAIN L = 1..Len(L)
  OBVIOUS
<1> HIDE DEF N, m
<1>2. On(g) = On(L[k]) /\ IsInjective(g.block)
  BY <1>1 DEF On, Once
<1>3. \A i \in 1..(k - 1) : i \in 1..k /\ i \in DOMAIN L /\ i # k
  BY <1>1
<1>4. \A x \in 1..m : On(N[x]) \cap On(g) = {}
  BY <1>1, <1>2, <1>3 DEF Descends, Once, m
<1>5. Once(N)
  <2>1. \A i \in DOMAIN N : IsInjective(N[i].block)
    BY <1>1, <1>2 DEF Descends, Once
  <2>2. ASSUME NEW i \in DOMAIN N, NEW j \in DOMAIN N, NEW q \in On(N[i]), q \in On(N[j])
        PROVE  i = j
    <3>1. CASE i \in 1..m /\ j \in 1..m
      BY <1>1, <2>2, <3>1 DEF Descends, Once
    <3>2. CASE i = m + 1 \/ j = m + 1
      BY <1>1, <1>4, <2>2, <3>2
    <3> QED BY <1>1, <3>1, <3>2
  <2> QED BY <2>1, <2>2 DEF Once
<1>6. ASSUME NEW x \in 1..Len(N), NEW q \in On(N[x])
      PROVE  \E i \in 1..k : q \in On(L[i]) /\ N[x].owner = L[i].owner
  <2>1. CASE x \in 1..m
    <3>1. \E i \in 1..(k - 1) : q \in On(L[i]) /\ M[x].owner = L[i].owner
      BY <1>1, <1>6, <2>1 DEF Descends, m
    <3> QED BY <1>1, <1>3, <2>1, <3>1
  <2>2. CASE x = m + 1
    BY <1>1, <1>2, <1>6, <2>2
  <2> QED BY <1>1, <2>1, <2>2
<1>7. ASSUME NEW i \in 1..k, NEW q \in On(L[i])
      PROVE  q \in W \/ \E x \in 1..Len(N) : Covers(N[x], L[i], q)
  <2>1. CASE i \in 1..(k - 1)
    <3>1. q \in W \/ \E x \in 1..m : Covers(M[x], L[i], q)
      BY <1>7, <2>1 DEF Descends, m
    <3> QED BY <1>1, <3>1
  <2>2. CASE i = k
    <3>1. Covers(g, L[k], q)
      BY <1>2, <1>7, <2>2 DEF Covers
    <3> QED BY <1>1, <2>2, <3>1
  <2> QED BY <2>1, <2>2
<1> QED BY <1>5, <1>6, <1>7 DEF Descends, N

\* The block list of L[k] is woken, and the lock replaced by one nobody waits
\* for.
LEMMA DescendsEmpty ==
    ASSUME NEW L \in Seq(PosixLock), NEW k \in 1..Len(L), NEW M \in Seq(PosixLock), NEW W,
           Descends(L, k - 1, M, W), NEW g \in PosixLock, g.block = << >>
    PROVE  Descends(L, k, Append(M, g), W \cup On(L[k]))
<1> DEFINE N == Append(M, g)
           m == Len(M)
<1>1. /\ N \in Seq(PosixLock) /\ Len(N) = m + 1 /\ m \in Nat /\ N[m + 1] = g
      /\ \A x \in 1..m : N[x] = M[x]
      /\ DOMAIN N = 1..(m + 1) /\ DOMAIN M = 1..m
  OBVIOUS
<1> HIDE DEF N, m
<1>2. On(g) = {} /\ IsInjective(g.block)
  BY DEF On, ToSet, IsInjective
<1>3. \A i \in 1..(k - 1) : i \in 1..k
  OBVIOUS
<1>5. Once(N)
  BY <1>1, <1>2 DEF Descends, Once
<1>6. ASSUME NEW x \in 1..Len(N), NEW q \in On(N[x])
      PROVE  \E i \in 1..k : q \in On(L[i]) /\ N[x].owner = L[i].owner
  <2>1. x \in 1..m
    BY <1>1, <1>2, <1>6
  <2>2. \E i \in 1..(k - 1) : q \in On(L[i]) /\ M[x].owner = L[i].owner
    BY <1>1, <1>6, <2>1 DEF Descends, m
  <2> QED BY <1>1, <1>3, <2>1, <2>2
<1>7. ASSUME NEW i \in 1..k, NEW q \in On(L[i])
      PROVE  q \in W \cup On(L[k]) \/ \E x \in 1..Len(N) : Covers(N[x], L[i], q)
  <2>1. CASE i \in 1..(k - 1)
    <3>1. q \in W \/ \E x \in 1..m : Covers(M[x], L[i], q)
      BY <1>7, <2>1 DEF Descends, m
    <3> QED BY <1>1, <3>1
  <2>2. CASE i = k
    BY <1>7, <2>2
  <2> QED BY <2>1, <2>2
<1> QED BY <1>5, <1>6, <1>7 DEF Descends, N

\* The lock is deleted, and one that has been passed may grow.
LEMMA DescendsDelete ==
    ASSUME NEW L \in Seq(PosixLock), NEW k \in 1..Len(L), NEW M \in Seq(PosixLock), NEW W,
           Descends(L, k - 1, M, W), NEW N \in Seq(PosixLock), Len(N) = Len(M),
           \A x \in 1..Len(M) : /\ N[x].owner = M[x].owner /\ N[x].type = M[x].type
                                /\ N[x].block = M[x].block
                                /\ N[x].start <= M[x].start /\ M[x].end <= N[x].end
    PROVE  Descends(L, k, N, W \cup On(L[k]))
<1> DEFINE m == Len(M)
<1>1. DOMAIN N = 1..m /\ DOMAIN M = 1..m /\ m \in Nat /\ Len(N) = m
  OBVIOUS
<1> HIDE DEF m
<1>2. \A x \in 1..m : On(N[x]) = On(M[x])
  BY DEF On, m
<1>3. \A i \in 1..(k - 1) : i \in 1..k /\ i \in 1..Len(L)
  OBVIOUS
<1>5. Once(N)
  BY <1>1, <1>2 DEF Descends, Once, m
<1>6. ASSUME NEW x \in 1..Len(N), NEW q \in On(N[x])
      PROVE  \E i \in 1..k : q \in On(L[i]) /\ N[x].owner = L[i].owner
  <2>1. \E i \in 1..(k - 1) : q \in On(L[i]) /\ M[x].owner = L[i].owner
    BY <1>1, <1>2, <1>6 DEF Descends, m
  <2> QED BY <1>1, <1>3, <2>1
<1>7. ASSUME NEW i \in 1..k, NEW q \in On(L[i])
      PROVE  q \in W \cup On(L[k]) \/ \E x \in 1..Len(N) : Covers(N[x], L[i], q)
  <2>1. CASE i \in 1..(k - 1) /\ q \notin W
    <3>1. PICK x \in 1..m : Covers(M[x], L[i], q)
      BY <1>7, <2>1 DEF Descends, m
    <3>2. /\ M[x] \in PosixLock /\ N[x] \in PosixLock /\ L[i] \in PosixLock
      BY <1>1, <1>3, <2>1, <3>1
    <3>3. /\ M[x].start \in Int /\ N[x].start \in Int /\ L[i].start \in Int
          /\ M[x].end \in Int /\ N[x].end \in Int /\ L[i].end \in Int
      BY <3>2, LockFields
    <3>4. N[x].start <= M[x].start /\ M[x].end <= N[x].end
      BY <3>1 DEF m
    <3>5. Covers(N[x], L[i], q)
      <4>1. M[x].start <= L[i].start /\ L[i].end <= M[x].end
        BY <3>1 DEF Covers
      <4>2. N[x].start <= L[i].start /\ L[i].end <= N[x].end
        <5>1. \A a, b, c \in Int : a <= b /\ b <= c => a <= c
          OBVIOUS
        <5> QED BY <3>3, <3>4, <4>1, <5>1
      <4>3. q \in On(N[x])
        BY <1>2, <3>1 DEF Covers
      <4> QED BY <3>1, <4>2, <4>3 DEF Covers, m
    <3> QED BY <1>1, <3>1, <3>5
  <2>2. CASE i = k \/ q \in W
    BY <1>7, <2>2
  <2> QED BY <2>1, <2>2
<1> QED BY <1>5, <1>6, <1>7 DEF Descends
----------------------------------------------------------------------------
(* The loop as a whole.                                                     *)

Start(r) == [out |-> << >>, at |-> 0, seen |-> FALSE, start |-> r.start,
             end |-> r.end, added |-> FALSE, new |-> 0, left |-> 0,
             right |-> FALSE, woken |-> {}]

\* The locals from lock to lock.
LEMMA LoopsRuns ==
    ASSUME NEW S, NEW list \in Seq(S), NEW p, NEW r
    PROVE  \E run :
              /\ run[0] = Start(r)
              /\ \A k \in 1..Len(list) : run[k] = P!Loop(p, r, run[k - 1], list[k])
              /\ P!Loops(list, p, r) = [run[Len(list)] EXCEPT !.at =
                                           IF @ = 0 THEN Len(run[Len(list)].out) + 1 ELSE @]
<1> DEFINE Step(g, k) == IF k = 0 THEN Start(r) ELSE P!Loop(p, r, g[k - 1], list[k])
           Eq(g, n) == g = [k \in 0..n |-> Step(g, k)]
           T == {n \in Nat : \E g : Eq(g, n)}
<1>1. 0 \in T
  <2> DEFINE g == [k \in 0..0 |-> Start(r)]
  <2>1. g = [k \in 0..0 |-> Step(g, k)]
    OBVIOUS
  <2> QED BY <2>1
<1>2. ASSUME NEW n \in T
      PROVE  n + 1 \in T
  <2>1. PICK g : Eq(g, n)
    OBVIOUS
  <2> DEFINE h == [k \in 0..(n + 1) |-> IF k <= n THEN g[k] ELSE Step(g, n + 1)]
  <2>2. \A k \in 0..(n + 1) : h[k] = Step(h, k)
    <3>1. ASSUME NEW k \in 0..(n + 1) PROVE h[k] = Step(h, k)
      <4>1. CASE k = 0
        <5>1. h[0] = g[0] /\ Step(h, 0) = Start(r)
          OBVIOUS
        <5>2. g[0] = Step(g, 0)
          BY <2>1
        <5> QED BY <4>1, <5>1, <5>2
      <4>2. CASE k # 0
        <5>1. k - 1 \in 0..n /\ h[k - 1] = g[k - 1]
          BY <4>2
        <5>2. Step(h, k) = Step(g, k)
          BY <4>2, <5>1
        <5>3. CASE k <= n
          <6>1. k \in 0..n /\ h[k] = g[k]
            BY <5>3
          <6>2. g[k] = Step(g, k)
            BY <2>1, <6>1
          <6> QED BY <5>2, <6>1, <6>2
        <5>4. CASE ~(k <= n)
          <6>1. k = n + 1
            BY <5>4
          <6> QED BY <5>2, <5>4, <6>1
        <5> QED BY <5>3, <5>4
      <4> QED BY <4>1, <4>2
    <3> QED BY <3>1
  <2>3. h = [k \in 0..(n + 1) |-> h[k]]
    OBVIOUS
  <2>4. Eq(h, n + 1)
    <3> HIDE DEF Step, h
    <3> QED BY <2>2, <2>3
  <2> HIDE DEF h, Eq
  <2> QED BY <2>4
<1> HIDE DEF T
<1>3. T = Nat
  BY <1>1, <1>2, Induction DEF T
<1> DEFINE run == CHOOSE g : g = [k \in 0..Len(list) |-> Step(g, k)]
<1>4. Eq(run, Len(list))
  <2>1. Len(list) \in T
    BY <1>3
  <2>2. \E g : Eq(g, Len(list))
    BY <2>1 DEF T
  <2> QED BY <2>2
<1>5. P!Loops(list, p, r) = [run[Len(list)] EXCEPT !.at =
                                IF @ = 0 THEN Len(run[Len(list)].out) + 1 ELSE @]
  BY DEF P!Loops, Start
<1> HIDE DEF run
<1>6. \A k \in 0..Len(list) : run[k] = Step(run, k)
  <2> HIDE DEF Step
  <2> QED BY <1>4
<1>7. run[0] = Start(r)
  BY <1>6
<1>8. \A k \in 1..Len(list) : run[k] = P!Loop(p, r, run[k - 1], list[k])
  BY <1>6
<1> QED BY <1>5, <1>7, <1>8

\* A request comes from a range that is passed to fcntl.
LEMMA RequestMade ==
    ASSUME NEW r \in P!LockRequests
    PROVE  \E ty \in {"F_RDLCK", "F_WRLCK", "F_UNLCK"}, a \in Ranges, w \in BOOLEAN :
              r = P!posix_make_lock(ty, a[1], a[2], w)
<1>1. \/ \E t \in {"F_RDLCK", "F_WRLCK"}, a \in Ranges, w \in BOOLEAN :
            r = P!posix_make_lock(t, a[1], a[2], w)
      \/ \E a \in Ranges : r = P!posix_make_lock("F_UNLCK", a[1], a[2], FALSE)
  <2>1. CASE r \in P!SetRequests
    <3>1. \E t \in {"F_RDLCK", "F_WRLCK"}, a \in Ranges, w \in BOOLEAN :
             r = P!posix_make_lock(t, a[1], a[2], w)
      BY <2>1, SMT DEF P!SetRequests
    <3> QED BY <3>1
  <2>2. CASE r \in P!UnlockRequests
    BY <2>2 DEF P!UnlockRequests
  <2> QED BY <2>1, <2>2 DEF P!LockRequests
<1>2. ASSUME NEW a \in Ranges, r = P!posix_make_lock("F_UNLCK", a[1], a[2], FALSE)
      PROVE  \E ty \in {"F_RDLCK", "F_WRLCK", "F_UNLCK"}, b \in Ranges, w \in BOOLEAN :
                r = P!posix_make_lock(ty, b[1], b[2], w)
  <2> WITNESS "F_UNLCK" \in {"F_RDLCK", "F_WRLCK", "F_UNLCK"}, a \in Ranges, FALSE \in BOOLEAN
  <2> QED BY <1>2, Zenon
<1>3. ASSUME NEW t \in {"F_RDLCK", "F_WRLCK"}, NEW a \in Ranges, NEW w \in BOOLEAN,
             r = P!posix_make_lock(t, a[1], a[2], w)
      PROVE  \E ty \in {"F_RDLCK", "F_WRLCK", "F_UNLCK"}, b \in Ranges, v \in BOOLEAN :
                r = P!posix_make_lock(ty, b[1], b[2], v)
  <2> WITNESS t \in {"F_RDLCK", "F_WRLCK", "F_UNLCK"}, a \in Ranges, w \in BOOLEAN
  <2> QED BY <1>3, Zenon
<1> QED BY <1>1, <1>2, <1>3, Zenon

LEMMA RequestFields ==
    ASSUME NEW r \in P!LockRequests
    PROVE  /\ r.op = "lock" /\ r.type \in {"F_RDLCK", "F_WRLCK", "F_UNLCK"} /\ r.wait \in BOOLEAN
           /\ r.start \in 0..OFFSET_MAX /\ r.end \in 0..OFFSET_MAX /\ r.start \in Int /\ r.end \in Int
<1>1. PICK ty \in {"F_RDLCK", "F_WRLCK", "F_UNLCK"}, a \in Ranges, w \in BOOLEAN :
         r = P!posix_make_lock(ty, a[1], a[2], w)
  BY RequestMade
<1> DEFINE end == P!Wrap(a[1] + a[2] - 1)
<1>2. /\ r.op = "lock" /\ r.type = ty /\ r.wait = w /\ r.start = a[1]
      /\ r.end = IF a[2] = 0 \/ end < 0 THEN OFFSET_MAX ELSE end
  BY <1>1 DEF P!posix_make_lock
<1>3. a[1] \in 0..OFFSET_MAX /\ a[2] \in 0..OFFSET_MAX /\ OFFSET_MAX \in Nat
  BY ConstAssumption
<1>4. end \in Int /\ end <= OFFSET_MAX
  BY <1>3 DEF P!Wrap
<1> HIDE DEF end
<1> QED BY <1>2, <1>3, <1>4

Typed(s) ==
    /\ DOMAIN s = Locals
    /\ s.out \in Seq(PosixLock)
    /\ s.at \in 0..Len(s.out) /\ s.new \in 0..Len(s.out) /\ s.left \in 0..Len(s.out)
    /\ s.start \in 0..OFFSET_MAX /\ s.end \in 0..OFFSET_MAX
    /\ s.right => s.at # 0 /\ s.end < OFFSET_MAX
    /\ s.new # 0 => s.out[s.new].start = s.start /\ s.out[s.new].end = s.end

LEMMA StaysTyped ==
    ASSUME NEW s, NEW t, Typed(s), NEW fl \in PosixLock, NEW a \in {s.at, Len(s.out) + 1}, NEW sn,
           NEW ad, NEW lf \in {s.left, Len(s.out) + 1}, NEW rt, rt => a # 0 /\ s.end < OFFSET_MAX,
           Stays(s, t, fl, a, sn, ad, lf, rt)
    PROVE  Typed(t)
<1> DEFINE m == Len(s.out)
<1>1. /\ DOMAIN t = Locals /\ t.out = Append(s.out, fl) /\ t.at = a /\ t.start = s.start
      /\ t.end = s.end /\ t.new = s.new /\ t.left = lf /\ t.right = rt
  BY DEF Stays, Local
<1>2. /\ t.out \in Seq(PosixLock) /\ Len(t.out) = m + 1 /\ m \in Nat
      /\ \A x \in 1..m : t.out[x] = s.out[x]
  BY <1>1 DEF Typed
<1>3. t.at \in 0..Len(t.out) /\ t.new \in 0..Len(t.out) /\ t.left \in 0..Len(t.out)
  BY <1>1, <1>2 DEF Typed
<1>4. t.new # 0 => t.out[t.new].start = t.start /\ t.out[t.new].end = t.end
  BY <1>1, <1>2 DEF Typed
<1>5. t.start \in 0..OFFSET_MAX /\ t.end \in 0..OFFSET_MAX
  BY <1>1 DEF Typed
<1>6. t.right => t.at # 0 /\ t.end < OFFSET_MAX
  BY <1>1
<1> QED BY <1>1, <1>2, <1>3, <1>4, <1>5, <1>6 DEF Typed

LEMMA MinMax ==
    ASSUME NEW a \in Int, NEW b \in Int
    PROVE  /\ Min({a, b}) = IF a <= b THEN a ELSE b
           /\ Max({a, b}) = IF a >= b THEN a ELSE b
  BY DEF Min, Max

\* A lock of the list gets another range.
LEMMA WidenFacts ==
    ASSUME NEW o \in Seq(PosixLock), NEW n \in 1..Len(o), NEW lo \in 0..OFFSET_MAX,
           NEW hi \in -1..OFFSET_MAX
    PROVE  /\ Widened(o, n, lo, hi) \in Seq(PosixLock) /\ Len(Widened(o, n, lo, hi)) = Len(o)
           /\ \A x \in 1..Len(o) : x # n => Widened(o, n, lo, hi)[x] = o[x]
           /\ Widened(o, n, lo, hi)[n] = Ranged(o[n], lo, hi)
<1> DEFINE N == Widened(o, n, lo, hi)
           g == Ranged(o[n], lo, hi)
<1>1. N = [o EXCEPT ![n] = g]
  BY DEF Widened, Ranged
<1>2. g \in PosixLock
  <2>1. o[n] \in PosixLock
    OBVIOUS
  <2> QED BY <2>1, LockRange
<1> HIDE DEF g, N
<1>3. /\ N \in Seq(PosixLock) /\ Len(N) = Len(o) /\ N[n] = g
      /\ \A x \in 1..Len(o) : x # n => N[x] = o[x]
  BY <1>1, <1>2
<1> QED BY <1>3 DEF N, g

\* One turn of the loop keeps types and sleepers.
LEMMA LoopStep ==
    ASSUME NEW L \in Seq(PosixLock), Once(L), NEW p, NEW r \in P!LockRequests, NEW k \in 1..Len(L),
           NEW s, Typed(s), Descends(L, k - 1, s.out, s.woken),
           NEW t, t = P!Loop(p, r, s, L[k])
    PROVE  Typed(t) /\ Descends(L, k, t.out, t.woken)
<1> DEFINE fl == L[k]
           m == Len(s.out)
<1>1. fl \in PosixLock /\ DOMAIN s = Locals /\ s.out \in Seq(PosixLock) /\ m \in Nat
  BY DEF Typed
<1>2. /\ fl.start \in 0..OFFSET_MAX /\ fl.end \in -1..OFFSET_MAX /\ fl.start \in Int /\ fl.end \in Int
      /\ s.start \in Int /\ s.end \in Int /\ OFFSET_MAX \in Nat
      /\ s.start \in 0..OFFSET_MAX /\ s.end \in 0..OFFSET_MAX
  BY <1>1, LockFields, ConstAssumption DEF Typed
<1> HIDE DEF fl
<1>3. ASSUME NEW a \in {s.at, m + 1}, NEW sn, NEW ad, NEW lf \in {s.left, m + 1}, NEW rt,
             rt => a # 0 /\ s.end < OFFSET_MAX, Stays(s, t, fl, a, sn, ad, lf, rt)
      PROVE  Typed(t) /\ Descends(L, k, t.out, t.woken)
  <2>1. Typed(t)
    BY <1>1, <1>3, StaysTyped
  <2>2. t.out = Append(s.out, fl) /\ t.woken = s.woken
    BY <1>3 DEF Stays, Local
  <2>3. Descends(L, k, Append(s.out, fl), s.woken)
    <3>1. fl = L[k] /\ fl.start <= L[k].start /\ L[k].end <= fl.end
      BY <1>2 DEF fl
    <3> DEFINE M == s.out
               W == s.woken
    <3>2. M \in Seq(PosixLock) /\ Descends(L, k - 1, M, W)
      BY <1>1
    <3> HIDE DEF M, W
    <3>3. Descends(L, k, Append(M, fl), W)
      BY <1>1, <3>1, <3>2, DescendsAppend
    <3> QED BY <3>3 DEF M, W
  <2> QED BY <2>1, <2>2, <2>3
<1>4. s.right => s.at # 0 /\ s.end < OFFSET_MAX
  BY DEF Typed
<1>5. CASE OtherCase(s, t, fl, p)
  <2>1. CASE Stays(s, t, fl, s.at, s.seen, s.added, s.left, s.right)
    BY <1>3, <1>4, <2>1
  <2>2. CASE Stays(s, t, fl, m + 1, s.seen, s.added, s.left, s.right)
    BY <1>1, <1>3, <1>4, <2>2
  <2> QED BY <1>5, <2>1, <2>2 DEF OtherCase
<1>6. CASE SameCase(s, t, fl, p, r)
  <2>1. CASE Stays(s, t, fl, s.at, TRUE, s.added, s.left, s.right)
    BY <1>3, <1>4, <2>1
  <2>2. CASE Stays(s, t, fl, m + 1, s.seen, s.added, s.left, s.right)
    BY <1>1, <1>3, <1>4, <2>2
  <2>3. ASSUME NEW lo, NEW hi, lo = Min({fl.start, s.start}), hi = Max({fl.end, s.end}),
               s.new # 0,
               Local(t, Widened(s.out, s.new, lo, hi), s.at,
                     TRUE, lo, hi, s.added, s.new, s.left, s.right, s.woken \cup ToSet(fl.block))
        PROVE  Typed(t) /\ Descends(L, k, t.out, t.woken)
    <3>0. lo = (IF fl.start <= s.start THEN fl.start ELSE s.start)
          /\ hi = (IF fl.end >= s.end THEN fl.end ELSE s.end)
      BY <1>2, <2>3, MinMax
    <3>1. /\ lo \in 0..OFFSET_MAX /\ hi \in 0..OFFSET_MAX /\ hi \in -1..OFFSET_MAX
          /\ lo <= s.start /\ s.end <= hi
      BY <1>2, <3>0
    <3>2. /\ DOMAIN t = Locals /\ t.out = Widened(s.out, s.new, lo, hi)
          /\ t.at = s.at /\ t.start = lo /\ t.end = hi /\ t.new = s.new /\ t.left = s.left
          /\ t.right = s.right /\ t.woken = s.woken \cup On(fl)
      BY <2>3 DEF Local, On
    <3>3. s.new \in 1..m
      BY <1>1, <2>3 DEF Typed
    <3>4. /\ t.out \in Seq(PosixLock) /\ Len(t.out) = m
          /\ \A x \in 1..m : x # s.new => t.out[x] = s.out[x]
          /\ t.out[s.new].start = lo /\ t.out[s.new].end = hi
          /\ t.out[s.new].owner = s.out[s.new].owner /\ t.out[s.new].type = s.out[s.new].type
          /\ t.out[s.new].block = s.out[s.new].block
      <4> DEFINE o == s.out
                 n == s.new
                 N == t.out
      <4>1. o \in Seq(PosixLock) /\ n \in 1..Len(o) /\ N = Widened(o, n, lo, hi)
        BY <1>1, <3>2, <3>3
      <4> HIDE DEF o, n, N
      <4>2. /\ N \in Seq(PosixLock) /\ Len(N) = Len(o)
            /\ \A x \in 1..Len(o) : x # n => N[x] = o[x]
            /\ N[n] = Ranged(o[n], lo, hi)
        BY <3>1, <4>1, WidenFacts
      <4>3. /\ N[n].start = lo /\ N[n].end = hi
            /\ N[n].owner = o[n].owner /\ N[n].type = o[n].type /\ N[n].block = o[n].block
        <5>1. o[n] \in PosixLock
          BY <4>1
        <5> QED BY <3>1, <4>2, <5>1, LockRange
      <4> QED BY <4>2, <4>3 DEF o, n, N
    <3>5. s.at = 0 /\ ~s.right
      BY <1>4, <1>6 DEF SameCase
    <3>6. Typed(t)
      <4>1. t.at \in 0..Len(t.out) /\ t.new \in 0..Len(t.out) /\ t.left \in 0..Len(t.out)
        BY <3>2, <3>4 DEF Typed
      <4> QED BY <3>1, <3>2, <3>4, <3>5, <4>1 DEF Typed
    <3>7. \A x \in 1..m : /\ t.out[x].owner = s.out[x].owner /\ t.out[x].type = s.out[x].type
                           /\ t.out[x].block = s.out[x].block
                           /\ t.out[x].start <= s.out[x].start /\ s.out[x].end <= t.out[x].end
      <4>1. \A x \in 1..m : s.out[x].start \in Int /\ s.out[x].end \in Int
        BY <1>1, LockFields
      <4>2. s.out[s.new].start = s.start /\ s.out[s.new].end = s.end
        BY <2>3 DEF Typed
      <4> HIDE DEF m
      <4>3. ASSUME NEW x \in 1..m, x = s.new
            PROVE  t.out[x].start <= s.out[x].start /\ s.out[x].end <= t.out[x].end
        BY <3>1, <3>4, <4>2, <4>3
      <4>4. ASSUME NEW x \in 1..m, x # s.new
            PROVE  t.out[x].start <= s.out[x].start /\ s.out[x].end <= t.out[x].end
        BY <3>4, <4>1, <4>4
      <4>5. \A x \in 1..m : /\ t.out[x].owner = s.out[x].owner /\ t.out[x].type = s.out[x].type
                             /\ t.out[x].block = s.out[x].block
        BY <3>4
      <4> QED BY <4>3, <4>4, <4>5
    <3>8. Descends(L, k, t.out, s.woken \cup On(fl))
      <4> DEFINE M == s.out
                 N == t.out
                 W == s.woken
      <4>1. /\ M \in Seq(PosixLock) /\ N \in Seq(PosixLock) /\ Len(N) = Len(M)
            /\ Descends(L, k - 1, M, W)
            /\ \A x \in 1..Len(M) : /\ N[x].owner = M[x].owner /\ N[x].type = M[x].type
                                     /\ N[x].block = M[x].block
                                     /\ N[x].start <= M[x].start /\ M[x].end <= N[x].end
        BY <1>1, <3>4, <3>7
      <4> HIDE DEF M, N, W
      <4>2. Descends(L, k, N, W \cup On(L[k]))
        BY <4>1, DescendsDelete
      <4> QED BY <4>2 DEF M, N, W, fl
    <3> QED BY <3>2, <3>6, <3>8
  <2>4. ASSUME NEW lo, NEW hi, lo = Min({fl.start, s.start}), hi = Max({fl.end, s.end}),
               s.new = 0,
               Local(t, Append(s.out, Ranged(fl, lo, hi)), s.at,
                     TRUE, lo, hi, TRUE, m + 1, s.left, s.right, s.woken)
        PROVE  Typed(t) /\ Descends(L, k, t.out, t.woken)
    <3> DEFINE g == Ranged(fl, lo, hi)
    <3>0. lo = (IF fl.start <= s.start THEN fl.start ELSE s.start)
          /\ hi = (IF fl.end >= s.end THEN fl.end ELSE s.end)
      BY <1>2, <2>4, MinMax
    <3>1. /\ lo \in 0..OFFSET_MAX /\ hi \in 0..OFFSET_MAX /\ hi \in -1..OFFSET_MAX
          /\ lo <= fl.start /\ fl.end <= hi
      <4>1. \A n \in Nat : \A a, b \in 0..n : (IF a <= b THEN a ELSE b) \in 0..n
                /\ (IF a <= b THEN a ELSE b) <= a
        OBVIOUS
      <4>2. \A n \in Nat : \A a \in -1..n, b \in 0..n : (IF a >= b THEN a ELSE b) \in 0..n
                /\ a <= (IF a >= b THEN a ELSE b)
        OBVIOUS
      <4>3. lo \in 0..OFFSET_MAX /\ lo <= fl.start
        BY <1>2, <3>0, <4>1
      <4>4. hi \in 0..OFFSET_MAX /\ fl.end <= hi
        BY <1>2, <3>0, <4>2
      <4> QED BY <1>2, <4>3, <4>4
    <3>2. /\ DOMAIN t = Locals /\ t.out = Append(s.out, g)
          /\ t.at = s.at /\ t.start = lo /\ t.end = hi /\ t.new = m + 1 /\ t.left = s.left
          /\ t.right = s.right /\ t.woken = s.woken
      BY <2>4 DEF Local
    <3>4. /\ g \in PosixLock /\ g.start = lo /\ g.end = hi
          /\ g.owner = fl.owner /\ g.type = fl.type /\ g.block = fl.block
      BY <1>1, <3>1, LockRange
    <3> HIDE DEF g
    <3>5. /\ t.out \in Seq(PosixLock) /\ Len(t.out) = m + 1 /\ t.out[m + 1] = g
      BY <1>1, <3>2, <3>4
    <3>6. s.at = 0 /\ ~s.right
      BY <1>4, <1>6 DEF SameCase
    <3>7. Typed(t)
      <4>1. t.at \in 0..Len(t.out) /\ t.new \in 0..Len(t.out) /\ t.left \in 0..Len(t.out)
        BY <1>1, <3>2, <3>5 DEF Typed
      <4> QED BY <3>1, <3>2, <3>4, <3>5, <3>6, <4>1 DEF Typed
    <3>8. Descends(L, k, Append(s.out, g), s.woken)
      BY <1>1, <3>1, <3>4, DescendsAppend DEF fl
    <3> QED BY <3>2, <3>7, <3>8
  <2> QED BY <1>6, <2>1, <2>2, <2>3, <2>4 DEF SameCase
<1>7. CASE DiffCase(s, t, fl, p, r)
  <2>1. CASE Stays(s, t, fl, s.at, TRUE, s.added, s.left, s.right)
    BY <1>3, <1>4, <2>1
  <2>2. CASE Stays(s, t, fl, m + 1, s.seen, s.added, s.left, s.right)
    BY <1>1, <1>3, <1>4, <2>2
  <2>3. CASE /\ fl.end > s.end
             /\ Stays(s, t, fl, m + 1, s.seen, Ad(s, r),
                      IF fl.start < s.start THEN m + 1 ELSE s.left, TRUE)
    <3>1. s.end < OFFSET_MAX /\ m + 1 # 0
      BY <1>1, <1>2, <2>3
    <3> QED BY <1>3, <2>3, <3>1
  <2>4. CASE Stays(s, t, fl, s.at, TRUE, Ad(s, r), m + 1, s.right)
    BY <1>3, <1>4, <2>4
  <2>5. CASE Local(t, s.out, s.at, TRUE, s.start, s.end, Ad(s, r), s.new, s.left, s.right,
                   s.woken \cup ToSet(fl.block))
    <3>1. /\ DOMAIN t = Locals /\ t.out = s.out
          /\ t.at = s.at /\ t.start = s.start /\ t.end = s.end /\ t.new = s.new /\ t.left = s.left
          /\ t.right = s.right /\ t.woken = s.woken \cup On(fl)
      BY <2>5 DEF Local, On
    <3>2. Typed(t)
      BY <3>1 DEF Typed
    <3>3. \A x \in 1..m : s.out[x].start \in Int /\ s.out[x].end \in Int
      BY <1>1, LockFields
    <3>4. \A x \in 1..m : s.out[x].start <= s.out[x].start /\ s.out[x].end <= s.out[x].end
      BY <3>3
    <3>5. Descends(L, k, s.out, s.woken \cup On(fl))
      BY <1>1, <3>4, DescendsDelete DEF fl
    <3> QED BY <3>1, <3>2, <3>5
  <2>6. CASE /\ ~Ad(s, r)
             /\ Local(t, Append(s.out, Taken(fl, s.start, s.end, r.type)), s.at,
                      TRUE, s.start, s.end, TRUE, m + 1, s.left, s.right,
                      s.woken \cup ToSet(fl.block))
    <3> DEFINE g == Taken(fl, s.start, s.end, r.type)
    <3>1. /\ DOMAIN t = Locals /\ t.out = Append(s.out, g)
          /\ t.at = s.at /\ t.start = s.start /\ t.end = s.end /\ t.new = m + 1 /\ t.left = s.left
          /\ t.right = s.right /\ t.woken = s.woken \cup On(fl)
      BY <2>6 DEF Local, On
    <3>3. r.type \in {"F_RDLCK", "F_WRLCK"} /\ s.end \in -1..OFFSET_MAX
      BY <1>2, <2>6, RequestFields DEF Ad
    <3>4. /\ g \in PosixLock /\ g.start = s.start /\ g.end = s.end /\ g.block = << >>
      <4> DEFINE a == s.start
                 b == s.end
                 ty == r.type
      <4>1. a \in 0..OFFSET_MAX /\ b \in -1..OFFSET_MAX /\ ty \in {"F_RDLCK", "F_WRLCK"}
        BY <1>2, <3>3
      <4> HIDE DEF a, b, ty
      <4>2. /\ Taken(fl, a, b, ty) \in PosixLock
            /\ Taken(fl, a, b, ty).start = a /\ Taken(fl, a, b, ty).end = b
            /\ Taken(fl, a, b, ty).block = << >>
        BY <1>1, <4>1, LockTaken
      <4> QED BY <4>2 DEF a, b, ty
    <3> HIDE DEF g
    <3>5. /\ t.out \in Seq(PosixLock) /\ Len(t.out) = m + 1 /\ t.out[m + 1] = g
      BY <1>1, <3>1, <3>4
    <3>6. s.at = 0 /\ ~s.right
      BY <1>4, <1>7 DEF DiffCase
    <3>7. Typed(t)
      <4>1. t.at \in 0..Len(t.out) /\ t.new \in 0..Len(t.out) /\ t.left \in 0..Len(t.out)
        <5>1. s.at \in 0..m /\ s.left \in 0..m
          BY DEF Typed
        <5>2. m + 1 \in 0..(m + 1) /\ \A x \in 0..m : x \in 0..(m + 1)
          BY <1>1
        <5> QED BY <3>1, <3>5, <5>1, <5>2
      <4>2. t.start \in 0..OFFSET_MAX /\ t.end \in 0..OFFSET_MAX
        BY <1>2, <3>1
      <4>3. t.out[t.new].start = t.start /\ t.out[t.new].end = t.end
        BY <3>1, <3>4, <3>5
      <4>4. ~t.right
        BY <3>1, <3>6
      <4> QED BY <3>1, <3>5, <4>1, <4>2, <4>3, <4>4, Zenon DEF Typed
    <3>8. Descends(L, k, Append(s.out, g), s.woken \cup On(fl))
      BY <1>1, <3>4, DescendsEmpty DEF fl
    <3> QED BY <3>1, <3>7, <3>8
  <2> QED BY <1>7, <2>1, <2>2, <2>3, <2>4, <2>5, <2>6 DEF DiffCase
<1> QED BY <1>1, <1>5, <1>6, <1>7, LoopCases DEF fl

\* The locals when the loop is left: u before, s after at has been set.
Left(s, u) ==
    Local(s, u.out, IF u.at = 0 THEN Len(u.out) + 1 ELSE u.at, u.seen, u.start, u.end, u.added,
          u.new, u.left, u.right, u.woken)

LEMMA StartFacts ==
    ASSUME NEW r \in P!LockRequests, NEW L
    PROVE  Typed(Start(r)) /\ Descends(L, 0, Start(r).out, Start(r).woken)
<1>1. /\ DOMAIN Start(r) = Locals /\ Start(r).out = << >> /\ Start(r).at = 0 /\ Start(r).new = 0
      /\ Start(r).left = 0 /\ Start(r).start = r.start /\ Start(r).end = r.end
      /\ Start(r).right = FALSE
  BY DEF Start, Locals
<1>2. << >> \in Seq(PosixLock) /\ Len(<< >>) = 0 /\ 1..0 = {} /\ DOMAIN << >> = {}
  OBVIOUS
<1>3. Typed(Start(r))
  BY <1>1, <1>2, RequestFields DEF Typed
<1>4. Once(<< >>)
  BY <1>2 DEF Once
<1>5. Descends(L, 0, << >>, Start(r).woken)
  BY <1>2, <1>4 DEF Descends
<1> QED BY <1>1, <1>3, <1>5

LEMMA LoopsFacts ==
    ASSUME NEW L \in Seq(PosixLock), Once(L), NEW p, NEW r \in P!LockRequests
    PROVE  \E u : /\ Typed(u) /\ Descends(L, Len(L), u.out, u.woken)
                  /\ Left(P!Loops(L, p, r), u)
<1>1. PICK run :
         /\ run[0] = Start(r)
         /\ \A k \in 1..Len(L) : run[k] = P!Loop(p, r, run[k - 1], L[k])
         /\ P!Loops(L, p, r) = [run[Len(L)] EXCEPT !.at =
                                   IF @ = 0 THEN Len(run[Len(L)].out) + 1 ELSE @]
  BY LoopsRuns
<1> DEFINE Good(k) == Typed(run[k]) /\ Descends(L, k, run[k].out, run[k].woken)
           T == {k \in Nat : k <= Len(L) => Good(k)}
<1>2. Len(L) \in Nat
  OBVIOUS
<1>3. 0 \in T
  BY <1>1, StartFacts
<1>4. ASSUME NEW k \in T
      PROVE  k + 1 \in T
  <2>1. k \in Nat /\ k + 1 \in Nat
    OBVIOUS
  <2> SUFFICES ASSUME k + 1 <= Len(L)
               PROVE  Good(k + 1)
    BY <2>1
  <2>2. k + 1 \in 1..Len(L) /\ (k + 1) - 1 = k /\ Good(k)
    BY <1>2, <2>1
  <2>3. run[k + 1] = P!Loop(p, r, run[k], L[k + 1])
    BY <1>1, <2>2
  <2> DEFINE s == run[k]
             t == run[k + 1]
             n == k + 1
  <2>4. /\ n \in 1..Len(L) /\ Typed(s) /\ Descends(L, n - 1, s.out, s.woken)
        /\ t = P!Loop(p, r, s, L[n])
    BY <2>2, <2>3
  <2> HIDE DEF s, t, n
  <2>5. Typed(t) /\ Descends(L, n, t.out, t.woken)
    BY <2>4, LoopStep
  <2> QED BY <2>5 DEF t, n
<1> HIDE DEF T
<1>5. T = Nat
  BY <1>3, <1>4, Induction DEF T
<1>6. Good(Len(L))
  BY <1>2, <1>5 DEF T
<1> DEFINE u == run[Len(L)]
<1>7. Typed(u) /\ Descends(L, Len(L), u.out, u.woken)
  BY <1>6
<1>8. P!Loops(L, p, r) = [u EXCEPT !.at = IF @ = 0 THEN Len(u.out) + 1 ELSE @]
  BY <1>1
<1> HIDE DEF u
<1>9. Left(P!Loops(L, p, r), u)
  BY <1>7, <1>8 DEF Left, Local, Locals, Typed
<1> QED BY <1>7, <1>9

----------------------------------------------------------------------------
(* What follows the loop.                                                   *)

LEMMA ConcatFacts ==
    ASSUME NEW S, NEW a \in Seq(S), NEW b \in Seq(S)
    PROVE  /\ a \o b \in Seq(S) /\ Len(a \o b) = Len(a) + Len(b)
           /\ \A x \in 1..Len(a) : (a \o b)[x] = a[x]
           /\ \A x \in 1..Len(b) : (a \o b)[x + Len(a)] = b[x]
<1>1. Len(a) \in Nat /\ Len(b) \in Nat
  OBVIOUS
<1>2. a \o b \in Seq(S) /\ Len(a \o b) = Len(a) + Len(b)
  OBVIOUS
<1>3. \A x \in 1..Len(a) : (a \o b)[x] = a[x]
  OBVIOUS
<1>4. ASSUME NEW x \in 1..Len(b)
      PROVE  (a \o b)[x + Len(a)] = b[x]
  <2>1. x + Len(a) \in 1..(Len(a) + Len(b)) /\ ~(x + Len(a) <= Len(a)) /\ (x + Len(a)) - Len(a) = x
    BY <1>1
  <2> QED BY <2>1
<1> QED BY <1>2, <1>3, <1>4

Fresh(p, r) == [owner |-> p, type |-> r.type, start |-> r.start, end |-> r.end, block |-> << >>]

\* The new list M by places: the locks before the place s.at, with a left rest
\* cut back; the left rest of a lock that is split; the lock asked for; the
\* locks from s.at on, with a right rest cut back.
Shape(M, s, p, r, n1, n2) ==
    /\ M \in Seq(PosixLock) /\ Len(M) = Len(s.out) + n1 + n2
    /\ n1 = (IF s.left = s.at THEN 1 ELSE 0) /\ n2 = (IF s.added THEN 0 ELSE 1)
    /\ \A x \in 1..(s.at - 1) :
          M[x] = IF x = s.left THEN CutEnd(s.out[x], s.start - 1) ELSE s.out[x]
    /\ n1 = 1 => s.at <= Len(s.out) /\ M[s.at] = CutEnd(s.out[s.at], s.start - 1)
    /\ n2 = 1 => M[s.at + n1] = Fresh(p, r)
    /\ \A x \in s.at..Len(s.out) :
          M[x + n1 + n2] = IF x = s.at /\ s.right THEN CutStart(s.out[x], s.end + 1) ELSE s.out[x]

LEMMA NewListShape ==
    ASSUME NEW p \in Procs, NEW r \in P!LockRequests, NEW u, Typed(u), NEW s, Left(s, u),
           NEW M, M = P!NewList(s, p, r)
    PROVE  \/ ~s.added /\ r.type = "F_UNLCK" /\ M = s.out
           \/ /\ s.added \/ r.type # "F_UNLCK"
              /\ \E n1, n2 \in {0, 1} : Shape(M, s, p, r, n1, n2)
<1> DEFINE o == s.out
           a == s.at
           m == Len(o)
           before == SubSeq(o, 1, a - 1)
           after == SubSeq(o, a, m)
           lefts == IF s.left \in DOMAIN before
                    THEN [before EXCEPT ![s.left] = CutEnd(before[s.left], s.start - 1)] ELSE before
           split == IF s.left = a THEN << CutEnd(after[1], s.start - 1) >> ELSE << >>
           fresh == IF s.added THEN << >> ELSE << Fresh(p, r) >>
           rights == IF s.right THEN [after EXCEPT ![1] = CutStart(after[1], s.end + 1)] ELSE after
<1>1. M = IF ~s.added /\ r.type = "F_UNLCK" THEN o ELSE ((lefts \o split) \o fresh) \o rights
  BY Zenon DEF P!NewList, CutEnd, CutStart, Fresh
<1>2. /\ o \in Seq(PosixLock) /\ m \in Nat /\ a \in 1..(m + 1) /\ s.left \in 0..m
      /\ s.start \in 0..OFFSET_MAX /\ s.end \in 0..OFFSET_MAX /\ OFFSET_MAX \in Nat
      /\ s.right => a <= m /\ s.end < OFFSET_MAX
  <2>1. /\ s.out = u.out /\ s.at = (IF u.at = 0 THEN Len(u.out) + 1 ELSE u.at)
        /\ s.left = u.left /\ s.start = u.start /\ s.end = u.end /\ s.right = u.right
    BY DEF Left, Local
  <2> QED BY <2>1, ConstAssumption DEF Typed
<1>3. /\ before \in Seq(PosixLock) /\ Len(before) = a - 1 /\ DOMAIN before = 1..(a - 1)
      /\ \A x \in 1..(a - 1) : before[x] = o[x]
  <2> HIDE DEF o, a, m
  <2>1. a - 1 \in 0..m /\ \A x \in 1..(a - 1) : x \in 1..m
    BY <1>2
  <2> QED BY <1>2, <2>1 DEF m
<1>4. /\ after \in Seq(PosixLock) /\ Len(after) = m - a + 1 /\ DOMAIN after = 1..(m - a + 1)
      /\ \A x \in 1..(m - a + 1) : after[x] = o[a + x - 1]
  <2> HIDE DEF o, a, m
  <2>1. a \in 1..(m + 1) /\ m = Len(o)
    BY <1>2 DEF m
  <2> QED BY <1>2, <2>1
<1>5. s.start - 1 \in -1..OFFSET_MAX /\ (s.right => s.end + 1 \in 0..OFFSET_MAX)
  BY <1>2
<1> HIDE DEF before, after, o, a, m
<1>6. /\ lefts \in Seq(PosixLock) /\ Len(lefts) = a - 1
      /\ \A x \in 1..(a - 1) : lefts[x] = IF x = s.left THEN CutEnd(o[x], s.start - 1) ELSE o[x]
  <2>1. CASE s.left \in DOMAIN before
    <3> DEFINE g == CutEnd(before[s.left], s.start - 1)
    <3>1. before[s.left] \in PosixLock
      BY <1>3, <2>1
    <3>2. g \in PosixLock
      BY <1>5, <3>1, LockCut
    <3>3. lefts = [before EXCEPT ![s.left] = g]
      BY <2>1
    <3>4. g = CutEnd(o[s.left], s.start - 1)
      BY <1>3, <2>1
    <3> HIDE DEF lefts, g
    <3> QED BY <1>3, <2>1, <3>2, <3>3, <3>4
  <2>2. CASE s.left \notin DOMAIN before
    BY <1>3, <2>2
  <2> QED BY <2>1, <2>2
<1> DEFINE n1 == IF s.left = a THEN 1 ELSE 0
           n2 == IF s.added THEN 0 ELSE 1
<1>7. /\ split \in Seq(PosixLock) /\ Len(split) = n1 /\ n1 \in {0, 1}
      /\ n1 = 1 => a <= m /\ split[1] = CutEnd(o[a], s.start - 1)
  <2>1. CASE s.left = a
    <3>1. a <= m /\ after[1] = o[a] /\ o[a] \in PosixLock
      BY <1>2, <1>4, <2>1 DEF m
    <3>2. CutEnd(o[a], s.start - 1) \in PosixLock
      BY <1>5, <3>1, LockCut
    <3>3. split = << CutEnd(o[a], s.start - 1) >>
      BY <2>1, <3>1
    <3> HIDE DEF split
    <3> QED BY <2>1, <3>1, <3>2, <3>3
  <2>2. CASE s.left # a
    BY <2>2
  <2> QED BY <2>1, <2>2
<1>8. CASE ~s.added /\ r.type = "F_UNLCK"
  BY <1>1, <1>8 DEF o
<1>9. CASE ~(~s.added /\ r.type = "F_UNLCK")
  <2>1. /\ fresh \in Seq(PosixLock) /\ Len(fresh) = n2 /\ n2 \in {0, 1}
        /\ n2 = 1 => fresh[1] = Fresh(p, r)
    <3>1. CASE ~s.added
      <4>1. << >> \in Seq(Procs)
        OBVIOUS
      <4>2. /\ r.type \in {"F_RDLCK", "F_WRLCK"} /\ r.start \in 0..OFFSET_MAX
            /\ r.end \in -1..OFFSET_MAX
        BY <1>9, <3>1, RequestFields
      <4>3. Fresh(p, r) \in PosixLock
        BY <4>1, <4>2 DEF Fresh, PosixLock, P!Bytes
      <4>4. fresh = << Fresh(p, r) >>
        BY <3>1
      <4> HIDE DEF fresh
      <4> QED BY <3>1, <4>3, <4>4
    <3>2. CASE s.added
      BY <3>2
    <3> QED BY <3>1, <3>2
  <2>2. /\ rights \in Seq(PosixLock) /\ Len(rights) = m - a + 1
        /\ \A x \in 1..(m - a + 1) :
              rights[x] = IF x = 1 /\ s.right THEN CutStart(o[a], s.end + 1) ELSE o[a + x - 1]
    <3>1. CASE s.right
      <4> DEFINE g == CutStart(after[1], s.end + 1)
      <4>1. 1 \in DOMAIN after /\ after[1] = o[a] /\ after[1] \in PosixLock
        BY <1>2, <1>4, <3>1
      <4>2. g \in PosixLock
        BY <1>5, <3>1, <4>1, LockCut
      <4>3. g = CutStart(o[a], s.end + 1) /\ rights = [after EXCEPT ![1] = g]
        BY <3>1, <4>1
      <4> HIDE DEF g, rights
      <4>4. rights \in Seq(PosixLock) /\ Len(rights) = Len(after)
            /\ \A x \in 1..Len(after) : rights[x] = IF x = 1 THEN g ELSE after[x]
        <5>1. after \in Seq(PosixLock)
          BY <1>4
        <5> HIDE DEF after
        <5> QED BY <4>1, <4>2, <4>3, <5>1
      <4> QED BY <1>2, <1>4, <3>1, <4>3, <4>4
    <3>2. CASE ~s.right
      BY <1>4, <3>2
    <3> QED BY <3>1, <3>2
  <2>3. M = ((lefts \o split) \o fresh) \o rights
    BY <1>1, <1>9
  <2> HIDE DEF lefts, split, fresh, rights, n1, n2
  <2> DEFINE A == lefts \o split
             B == A \o fresh
  <2>4. /\ A \in Seq(PosixLock) /\ Len(A) = a - 1 + n1
        /\ \A x \in 1..(a - 1) : A[x] = lefts[x]
        /\ n1 = 1 => A[a] = split[1]
    <3>1. /\ A \in Seq(PosixLock) /\ Len(A) = Len(lefts) + Len(split)
          /\ \A x \in 1..Len(lefts) : A[x] = lefts[x]
          /\ \A x \in 1..Len(split) : A[x + Len(lefts)] = split[x]
      BY <1>6, <1>7, ConcatFacts
    <3> HIDE DEF A
    <3> QED BY <1>2, <1>6, <1>7, <3>1
  <2> HIDE DEF A
  <2>5. /\ B \in Seq(PosixLock) /\ Len(B) = a - 1 + n1 + n2
        /\ \A x \in 1..(a - 1 + n1) : B[x] = A[x]
        /\ n2 = 1 => B[a + n1] = fresh[1]
    <3>1. /\ B \in Seq(PosixLock) /\ Len(B) = Len(A) + Len(fresh)
          /\ \A x \in 1..Len(A) : B[x] = A[x]
          /\ \A x \in 1..Len(fresh) : B[x + Len(A)] = fresh[x]
      BY <2>1, <2>4, ConcatFacts
    <3> HIDE DEF B
    <3> QED BY <1>2, <1>7, <2>1, <2>4, <3>1
  <2>6. M = B \o rights
    BY <2>3 DEF A
  <2> HIDE DEF B
  <2>7. /\ M \in Seq(PosixLock) /\ Len(M) = m + n1 + n2
        /\ \A x \in 1..(a - 1 + n1 + n2) : M[x] = B[x]
        /\ \A x \in 1..(m - a + 1) : M[x + (a - 1 + n1 + n2)] = rights[x]
    <3> DEFINE C == B \o rights
    <3>0. /\ C \in Seq(PosixLock) /\ Len(C) = Len(B) + Len(rights)
          /\ \A x \in 1..Len(B) : C[x] = B[x]
          /\ \A x \in 1..Len(rights) : C[x + Len(B)] = rights[x]
      <4>1. B \in Seq(PosixLock) /\ rights \in Seq(PosixLock)
        BY <2>2, <2>5
      <4> QED BY <4>1, ConcatFacts
    <3>1. M = C
      BY <2>6
    <3> HIDE DEF C
    <3>2. Len(B) + Len(rights) = m + n1 + n2
      BY <1>2, <1>7, <2>1, <2>2, <2>5
    <3> QED BY <2>2, <2>5, <3>0, <3>1, <3>2
  <2>8. \A x \in 1..(a - 1) : M[x] = IF x = s.left THEN CutEnd(o[x], s.start - 1) ELSE o[x]
    <3> SUFFICES ASSUME NEW x \in 1..(a - 1)
                 PROVE  M[x] = IF x = s.left THEN CutEnd(o[x], s.start - 1) ELSE o[x]
      OBVIOUS
    <3>1. x \in 1..(a - 1 + n1) /\ x \in 1..(a - 1 + n1 + n2)
      BY <1>2, <1>7, <2>1
    <3>2. M[x] = B[x] /\ B[x] = A[x] /\ A[x] = lefts[x]
      BY <2>4, <2>5, <2>7, <3>1
    <3> QED BY <1>6, <3>2
  <2>9. n1 = 1 => a <= m /\ M[a] = CutEnd(o[a], s.start - 1)
    BY <1>2, <1>7, <2>1, <2>4, <2>5, <2>7
  <2>10. n2 = 1 => M[a + n1] = Fresh(p, r)
    BY <1>2, <1>7, <2>1, <2>5, <2>7
  <2>11. ASSUME NEW x \in a..m
         PROVE  M[x + n1 + n2] = IF x = a /\ s.right THEN CutStart(o[x], s.end + 1) ELSE o[x]
    <3> DEFINE y == x - a + 1
    <3>1. y \in 1..(m - a + 1) /\ y + (a - 1 + n1 + n2) = x + n1 + n2 /\ a + y - 1 = x
          /\ (y = 1 <=> x = a)
      BY <1>2, <1>7, <2>1
    <3> HIDE DEF y
    <3>2. M[y + (a - 1 + n1 + n2)] = rights[y]
      BY <2>7, <3>1
    <3> QED BY <2>2, <3>1, <3>2
  <2>12. Shape(M, s, p, r, n1, n2)
    BY <2>7, <2>8, <2>9, <2>10, <2>11 DEF Shape, o, a, m, n1, n2
  <2> QED BY <1>7, <1>9, <2>1, <2>12
<1> QED BY <1>8, <1>9

\* The locks of M with sleepers are locks of O, where org says; a lock of O that
\* is not kept has its sleepers in V.
Via(O, M, V, org) ==
    /\ org \in [1..Len(M) -> Int]
    /\ \A y \in 1..Len(M) : M[y].block = << >> \/ (org[y] \in 1..Len(O) /\ M[y] = O[org[y]])
    /\ \A y, z \in 1..Len(M) :
          M[y].block # << >> /\ M[z].block # << >> /\ org[y] = org[z] => y = z
    /\ \A x \in 1..Len(O) : On(O[x]) \subseteq V \/ \E y \in 1..Len(M) : M[y] = O[x]

\* A list whose locks with sleepers are locks of another one, where a lock that
\* is not kept has its sleepers woken.
LEMMA DescendsVia ==
    ASSUME NEW L \in Seq(PosixLock), NEW k \in Nat, k <= Len(L), NEW O \in Seq(PosixLock), NEW W,
           Descends(L, k, O, W), NEW M \in Seq(PosixLock), NEW V, W \subseteq V,
           NEW org, Via(O, M, V, org)
    PROVE  Descends(L, k, M, V)
<1>1. DOMAIN M = 1..Len(M) /\ DOMAIN O = 1..Len(O) /\ Len(M) \in Nat /\ Len(O) \in Nat
  OBVIOUS
<1>0. /\ \A y \in 1..Len(M) : M[y].block = << >> \/ (org[y] \in 1..Len(O) /\ M[y] = O[org[y]])
      /\ \A y, z \in 1..Len(M) :
            M[y].block # << >> /\ M[z].block # << >> /\ org[y] = org[z] => y = z
      /\ \A x \in 1..Len(O) : On(O[x]) \subseteq V \/ \E y \in 1..Len(M) : M[y] = O[x]
  BY DEF Via
<1>2. \A y \in 1..Len(M) : M[y].block = << >> => On(M[y]) = {} /\ IsInjective(M[y].block)
  BY DEF On, ToSet, IsInjective
<1>3. Once(M)
  <2>1. \A y \in 1..Len(M) : IsInjective(M[y].block)
    BY <1>0, <1>1, <1>2 DEF Descends, Once
  <2>2. ASSUME NEW y \in 1..Len(M), NEW z \in 1..Len(M), NEW q \in On(M[y]), q \in On(M[z])
        PROVE  y = z
    <3>1. M[y].block # << >> /\ M[z].block # << >>
      BY <1>2, <2>2
    <3>2. org[y] \in 1..Len(O) /\ M[y] = O[org[y]] /\ org[z] \in 1..Len(O) /\ M[z] = O[org[z]]
      BY <1>0, <3>1
    <3>3. org[y] = org[z]
      BY <1>1, <2>2, <3>2 DEF Descends, Once
    <3> QED BY <1>0, <3>1, <3>3
  <2> QED BY <1>1, <2>1, <2>2 DEF Once
<1>4. ASSUME NEW y \in 1..Len(M), NEW q \in On(M[y])
      PROVE  \E i \in 1..k : q \in On(L[i]) /\ M[y].owner = L[i].owner
  <2>1. org[y] \in 1..Len(O) /\ M[y] = O[org[y]]
    BY <1>0, <1>2, <1>4
  <2> DEFINE x == org[y]
  <2>2. x \in 1..Len(O) /\ q \in On(O[x])
    BY <1>4, <2>1
  <2> HIDE DEF x
  <2>3. \E i \in 1..k : q \in On(L[i]) /\ O[x].owner = L[i].owner
    BY <2>2 DEF Descends
  <2> QED BY <2>1, <2>3 DEF x
<1>5. ASSUME NEW i \in 1..k, NEW q \in On(L[i])
      PROVE  q \in V \/ \E y \in 1..Len(M) : Covers(M[y], L[i], q)
  <2> SUFFICES ASSUME q \notin V
               PROVE  \E y \in 1..Len(M) : Covers(M[y], L[i], q)
    OBVIOUS
  <2>0. q \in W \/ \E x \in 1..Len(O) : Covers(O[x], L[i], q)
    BY <1>5, Zenon DEF Descends
  <2>1. PICK x \in 1..Len(O) : Covers(O[x], L[i], q)
    BY <2>0
  <2>2. \E y \in 1..Len(M) : M[y] = O[x]
    BY <1>0, <2>1 DEF Covers
  <2> QED BY <2>1, <2>2
<1> QED BY <1>3, <1>4, <1>5 DEF Descends

LEMMA DescendsSelf ==
    ASSUME NEW L \in Seq(PosixLock), Once(L), NEW W
    PROVE  Descends(L, Len(L), L, W)
<1>1. \A i \in 1..Len(L) : L[i].start \in Int /\ L[i].end \in Int
  BY LockFields
<1>2. \A i \in 1..Len(L) : L[i].start <= L[i].start /\ L[i].end <= L[i].end
  BY <1>1
<1> QED BY <1>2 DEF Descends, Covers

\* What the request did to the list, and whom it has woken.
LEMMA NewListFacts ==
    ASSUME NEW L \in Seq(PosixLock), Once(L), NEW p \in Procs, NEW r \in P!LockRequests
    PROVE  /\ P!NewList(P!Loops(L, p, r), p, r) \in Seq(PosixLock)
           /\ Descends(L, Len(L), P!NewList(P!Loops(L, p, r), p, r), P!NewWoken(P!Loops(L, p, r)))
<1>1. PICK u : /\ Typed(u) /\ Descends(L, Len(L), u.out, u.woken)
               /\ Left(P!Loops(L, p, r), u)
  BY LoopsFacts
<1> DEFINE s == P!Loops(L, p, r)
           M == P!NewList(s, p, r)
           V == P!NewWoken(s)
<1>2. Left(s, u)
  BY <1>1
<1> HIDE DEF s
<1>3. \/ ~s.added /\ r.type = "F_UNLCK" /\ M = s.out
      \/ \E n1, n2 \in {0, 1} : Shape(M, s, p, r, n1, n2)
  <2>1. M = P!NewList(s, p, r)
    OBVIOUS
  <2> HIDE DEF M
  <2> QED BY <1>1, <1>2, <2>1, NewListShape
<1>4. /\ s.out = u.out /\ s.woken = u.woken
      /\ s.at = IF u.at = 0 THEN Len(u.out) + 1 ELSE u.at
      /\ s.left = u.left /\ s.right = u.right
  BY <1>2 DEF Left, Local
<1>5. /\ s.out \in Seq(PosixLock) /\ Len(s.out) \in Nat /\ s.at \in 1..(Len(s.out) + 1)
      /\ s.left \in 0..Len(s.out)
  BY <1>1, <1>4 DEF Typed
<1>6. /\ s.woken \subseteq V
      /\ s.left # 0 => On(s.out[s.left]) \subseteq V
      /\ s.right => On(s.out[s.at]) \subseteq V
  BY DEF P!NewWoken, On, ToSet, P!ToSet
<1>7. /\ Len(L) \in Nat /\ Descends(L, Len(L), s.out, s.woken)
  BY <1>1, <1>4
<1> HIDE DEF M, V
<1> DEFINE O == s.out
           m == Len(O)
           a == s.at
           W == s.woken
           l == s.left
           b == s.right
<1>8. /\ O \in Seq(PosixLock) /\ m \in Nat /\ a \in 1..(m + 1) /\ W \subseteq V
      /\ Descends(L, Len(L), O, W)
      /\ m = Len(O) /\ (l # 0 => On(O[l]) \subseteq V) /\ (b => On(O[a]) \subseteq V)
  BY <1>5, <1>6, <1>7
<1> HIDE DEF O, m, a, W, l, b
<1>9. CASE M = s.out
  <2> DEFINE org == [y \in 1..Len(O) |-> y]
  <2>1. /\ org \in [1..Len(O) -> Int] /\ \A y \in 1..Len(O) : org[y] = y
    BY <1>8
  <2>2. \A x \in 1..Len(O) : \E y \in 1..Len(O) : O[y] = O[x]
    OBVIOUS
  <2> HIDE DEF org
  <2>3. Descends(L, Len(L), O, V)
    <3>1. Via(O, O, V, org)
      BY <2>1, <2>2 DEF Via
    <3> QED BY <1>7, <1>8, <3>1, DescendsVia
  <2> QED BY <1>8, <1>9, <2>3 DEF M, V, s, O
<1>10. CASE \E n1, n2 \in {0, 1} : Shape(M, s, p, r, n1, n2)
  <2>1. PICK n1 \in {0, 1}, n2 \in {0, 1} : Shape(M, s, p, r, n1, n2)
    BY <1>10
  <2> DEFINE org == [y \in 1..Len(M) |-> IF y < a THEN y ELSE y - n1 - n2]
  <2>2. /\ M \in Seq(PosixLock) /\ Len(M) = m + n1 + n2
        /\ \A x \in 1..(a - 1) : M[x] = IF x = l THEN CutEnd(O[x], s.start - 1) ELSE O[x]
        /\ n1 = 1 => a <= m /\ M[a] = CutEnd(O[a], s.start - 1)
        /\ n2 = 1 => M[a + n1] = Fresh(p, r)
        /\ \A x \in a..m :
              M[x + n1 + n2] = IF x = a /\ b THEN CutStart(O[x], s.end + 1) ELSE O[x]
    BY <2>1, Zenon DEF Shape, O, a, m, l, b
  <2>3. /\ org \in [1..Len(M) -> Int]
        /\ \A y \in 1..Len(M) : org[y] = IF y < a THEN y ELSE y - n1 - n2
    <3>1. \A y \in 1..Len(M) : (IF y < a THEN y ELSE y - n1 - n2) \in Int
      BY <1>8, <2>2
    <3> QED BY <3>1
  <2> HIDE DEF org
  <2>4. \A x \in 1..m : O[x] \in PosixLock
    BY <1>8
  <2>5. /\ \A x \in 1..(a - 1) : M[x] = O[x] \/ (x = l /\ M[x].block = << >>)
        /\ \A y \in a..(a + n1 + n2 - 1) : M[y].block = << >>
        /\ \A x \in a..m : M[x + n1 + n2] = O[x] \/ (x = a /\ b /\ M[x + n1 + n2].block = << >>)
    <3>1. ASSUME NEW f \in PosixLock, NEW e
          PROVE  CutEnd(f, e).block = << >> /\ CutStart(f, e).block = << >>
      BY DEF CutEnd, CutStart, PosixLock
    <3>2. ASSUME NEW x \in 1..(a - 1)
          PROVE  M[x] = O[x] \/ (x = l /\ M[x].block = << >>)
      BY <1>8, <2>2, <2>4, <3>1, <3>2
    <3>3. ASSUME NEW y \in a..(a + n1 + n2 - 1)
          PROVE  M[y].block = << >>
      <4>1. n1 = 1 => a \in 1..m /\ M[a].block = << >>
        BY <1>8, <2>2, <2>4, <3>1
      <4>2. n2 = 1 => M[a + n1].block = << >>
        BY <2>2 DEF Fresh
      <4>3. (n1 = 1 /\ y = a) \/ (n2 = 1 /\ y = a + n1)
        BY <1>8, <3>3
      <4> QED BY <4>1, <4>2, <4>3
    <3>4. ASSUME NEW x \in a..m
          PROVE  M[x + n1 + n2] = O[x] \/ (x = a /\ b /\ M[x + n1 + n2].block = << >>)
      BY <1>8, <2>2, <2>4, <3>1, <3>4
    <3> QED BY <3>2, <3>3, <3>4
  <2>6. \A y \in 1..Len(M) : M[y].block = << >> \/ (org[y] \in 1..m /\ M[y] = O[org[y]])
    <3> SUFFICES ASSUME NEW y \in 1..Len(M), M[y].block # << >>
                 PROVE  org[y] \in 1..m /\ M[y] = O[org[y]]
      OBVIOUS
    <3>1. CASE y < a
      BY <1>8, <2>2, <2>3, <2>5, <3>1
    <3>2. CASE ~(y < a)
      <4>1. y - n1 - n2 \in a..m
        BY <1>8, <2>2, <2>5, <3>2
      <4>2. (y - n1 - n2) + n1 + n2 = y
        OBVIOUS
      <4> QED BY <1>8, <2>3, <2>5, <3>2, <4>1, <4>2
    <3> QED BY <3>1, <3>2
  <2>7. \A y, z \in 1..Len(M) :
           M[y].block # << >> /\ M[z].block # << >> /\ org[y] = org[z] => y = z
    <3>1. \A y \in 1..Len(M) : M[y].block # << >> => y < a \/ y >= a + n1 + n2
      BY <1>8, <2>2, <2>5
    <3> SUFFICES ASSUME NEW y \in 1..Len(M), NEW z \in 1..Len(M), M[y].block # << >>,
                        M[z].block # << >>, org[y] = org[z]
                 PROVE  y = z
      OBVIOUS
    <3>2. (y < a \/ y >= a + n1 + n2) /\ (z < a \/ z >= a + n1 + n2)
      BY <3>1
    <3>3. (IF y < a THEN y ELSE y - n1 - n2) = (IF z < a THEN z ELSE z - n1 - n2)
      BY <2>3
    <3>4. Len(M) \in Nat /\ a \in Nat /\ y \in Nat /\ z \in Nat
      BY <1>8, <2>2
    <3> QED BY <3>2, <3>3, <3>4
  <2>8. \A x \in 1..m : On(O[x]) \subseteq V \/ \E y \in 1..Len(M) : M[y] = O[x]
    <3> SUFFICES ASSUME NEW x \in 1..m
                 PROVE  On(O[x]) \subseteq V \/ \E y \in 1..Len(M) : M[y] = O[x]
      OBVIOUS
    <3>1. CASE x < a
      <4>1. x \in 1..(a - 1) /\ x \in 1..Len(M)
        BY <1>8, <2>2, <3>1
      <4>2. x = l => On(O[x]) \subseteq V
        BY <1>8
      <4> QED BY <2>5, <4>1, <4>2
    <3>2. CASE ~(x < a)
      <4>1. x \in a..m /\ x + n1 + n2 \in 1..Len(M)
        BY <1>8, <2>2, <3>2
      <4>2. x = a /\ b => On(O[x]) \subseteq V
        BY <1>8
      <4> QED BY <2>5, <4>1, <4>2
    <3> QED BY <3>1, <3>2
  <2>9. M \in Seq(PosixLock) /\ org \in [1..Len(M) -> Int] /\ m = Len(O) /\ Len(L) <= Len(L)
    BY <1>7, <1>8, <2>2, <2>3
  <2>10. Via(O, M, V, org)
    BY <2>6, <2>7, <2>8, <2>9 DEF Via
  <2>11. Descends(L, Len(L), M, V)
    BY <1>7, <1>8, <2>9, <2>10, DescendsVia
  <2> QED BY <2>2, <2>11 DEF M, V, s
<1> QED BY <1>3, <1>9, <1>10
----------------------------------------------------------------------------
(* The operators of the two modules, and those of this one.                 *)

LEMMA SameOperators ==
    /\ \A s, e : P!RemoveFirst(s, e) = RemoveFirst(s, e)
    /\ \A s, e : F!RemoveFirst(s, e) = RemoveFirst(s, e)
    /\ \A s : P!ToSet(s) = ToSet(s) /\ F!ToSet(s) = ToSet(s)
    /\ \A S : P!Min(S) = Min(S) /\ F!Min(S) = Min(S)
    /\ \A list, I : P!Keep(list, I) = Keep(list, I) /\ F!Keep(list, I) = Keep(list, I)
<1>1. \A s, i : P!RemoveAt(s, i) = RemoveAt(s, i) /\ F!RemoveAt(s, i) = RemoveAt(s, i)
  BY Zenon DEF P!RemoveAt, F!RemoveAt, RemoveAt
<1>2. \A S : P!Min(S) = Min(S) /\ F!Min(S) = Min(S)
  BY Zenon DEF P!Min, F!Min, Min
<1>3. ASSUME NEW s, NEW e
      PROVE  P!SelectInSeq(s, LAMBDA v : v = e) = SelectInSeq(s, LAMBDA v : v = e)
  BY <1>2, Zenon DEF P!SelectInSeq, SelectInSeq
<1>4. \A s, e : P!RemoveFirst(s, e) = RemoveFirst(s, e)
  BY Zenon DEF P!RemoveFirst, RemoveFirst, P!RemoveAt, RemoveAt, P!SelectInSeq, SelectInSeq, P!Min, Min
<1>5. \A s, e : F!RemoveFirst(s, e) = RemoveFirst(s, e)
  BY Zenon DEF F!RemoveFirst, RemoveFirst, F!RemoveAt, RemoveAt, F!SelectInSeq, SelectInSeq, F!Min, Min
<1>6. \A s : P!ToSet(s) = ToSet(s) /\ F!ToSet(s) = ToSet(s)
  BY Zenon DEF P!ToSet, F!ToSet, ToSet
<1>7. \A list, I : P!Keep(list, I) = Keep(list, I) /\ F!Keep(list, I) = Keep(list, I)
  BY Zenon DEF P!Keep, F!Keep, Keep
<1> QED BY <1>2, <1>4, <1>5, <1>6, <1>7

----------------------------------------------------------------------------
(* The inductive invariant.                                                 *)

\* Who is on a block list is in a call of that kind, asleep or on its way out
\* of the sleep.
Waiters ==
    /\ \A i \in DOMAIN posix_list : \A q \in On(posix_list[i]) :
          pc[q] \in {"asleep", "woken"} /\ req[q].op # "flock"
    /\ \A i \in DOMAIN flock_list : \A q \in On(flock_list[i]) :
          pc[q] \in {"asleep", "woken"} /\ req[q].op = "flock"

\* Only a request for a lock waits in flock.
Asks == \A p \in Procs : req[p] \in F!Requests => req[p].type # "F_UNLCK"

Inv ==
    /\ TypeOK
    /\ Once(posix_list) /\ Once(flock_list) /\ (\A p \in Procs : IsInjective(dying[p]))
    /\ Waiters /\ Asks /\ SleepsForReason /\ NoCircle /\ Compatible

LEMMA MinFacts ==
    ASSUME NEW S \in SUBSET Nat, S # {}
    PROVE  Min(S) \in S /\ \A y \in S : Min(S) <= y
<1>1. PICK x \in S : \A y \in S : ~(<<y, x>> \in OpToRel(<, Nat))
  BY NatLessThanWellFounded, WFMin
<1>2. \A y \in S : ~(y < x)
  BY <1>1 DEF OpToRel
<1>3. \A y \in S : x <= y
  BY <1>2
<1> QED BY <1>1, <1>3 DEF Min

LEMMA AccessFields ==
    ASSUME NEW r \in P!AccessRequests
    PROVE  /\ r.op = "access" /\ r.type \in {"F_RDLCK", "F_WRLCK"}
           /\ r.start \in Int /\ r.end \in Int
<1>1. PICK t \in {"F_RDLCK", "F_WRLCK"}, a \in Areas, w \in BOOLEAN :
         r = [op |-> "access", type |-> t, start |-> a[1], end |-> P!Wrap(a[1] + a[2] - 1), wait |-> w]
  BY SMT DEF P!AccessRequests
<1>2. a[1] \in Int /\ a[2] \in Int /\ OFFSET_MAX \in Nat
  BY ConstAssumption
<1>3. P!Wrap(a[1] + a[2] - 1) \in Int
  BY <1>2 DEF P!Wrap
<1> QED BY <1>1, <1>2, <1>3

\* Requests of the two kinds.
LEMMA RequestKinds ==
    /\ \A r \in P!Requests : r.op # "flock" /\ r.start \in Int /\ r.end \in Int /\ r # None
    /\ \A r \in P!Requests : r.op = "lock" => r \in P!LockRequests
    /\ \A r \in P!Requests : r.op = "access" => r \in P!AccessRequests
    /\ \A r \in F!Requests : /\ r.op = "flock" /\ r # None
                             /\ r.type \in {"F_RDLCK", "F_WRLCK", "F_UNLCK"}
<1>1. \A r \in P!LockRequests : r.op = "lock" /\ r.start \in Int /\ r.end \in Int
  BY RequestFields
<1>2. \A r \in P!AccessRequests : r.op = "access" /\ r.start \in Int /\ r.end \in Int
  BY AccessFields
<1>3. \A r \in F!Requests : r.op = "flock" /\ r.type \in {"F_RDLCK", "F_WRLCK", "F_UNLCK"}
  BY DEF F!Requests
<1>4. None \notin P!Requests /\ None \notin F!Requests
  BY NoneAssumption
<1> QED BY <1>1, <1>2, <1>3, <1>4 DEF P!Requests

\* f is g after p has left its block list.
OffBlock(f, g, p) ==
    /\ f.owner = g.owner /\ f.type = g.type /\ f.start = g.start /\ f.end = g.end
    /\ IsInjective(f.block) /\ On(f) = On(g) \ {p}

\* locks_delete_block takes p off the block list it is on.
LEMMA UnblockFacts ==
    ASSUME NEW L \in Seq(PosixLock), Once(L), NEW p
    PROVE  /\ P!locks_delete_block(L, p) \in Seq(PosixLock)
           /\ Len(P!locks_delete_block(L, p)) = Len(L)
           /\ \A i \in 1..Len(L) : OffBlock(P!locks_delete_block(L, p)[i], L[i], p)
<1> DEFINE Cut(i) == [L[i] EXCEPT !.block = RemoveFirst(L[i].block, p)]
           U == [i \in 1..Len(L) |-> Cut(i)]
<1>1. P!locks_delete_block(L, p) = U
  <2>1. DOMAIN L = 1..Len(L)
    OBVIOUS
  <2> QED BY <2>1, SameOperators, Zenon DEF P!locks_delete_block
<1>2. ASSUME NEW i \in 1..Len(L)
      PROVE  Cut(i) \in PosixLock /\ OffBlock(Cut(i), L[i], p)
  <2> DEFINE b == RemoveFirst(L[i].block, p)
  <2>1. L[i] \in PosixLock /\ L[i].block \in Seq(Procs) /\ IsInjective(L[i].block)
    BY LockFields DEF Once
  <2>2. b \in Seq(Procs) /\ IsInjective(b) /\ ToSet(b) = ToSet(L[i].block) \ {p}
    BY <2>1, RemoveFacts
  <2> HIDE DEF b
  <2>3. LET g == [L[i] EXCEPT !.block = b]
        IN  /\ g \in PosixLock /\ g.owner = L[i].owner /\ g.type = L[i].type
            /\ g.start = L[i].start /\ g.end = L[i].end /\ g.block = b
    BY <2>1, <2>2 DEF PosixLock
  <2> QED BY <2>2, <2>3 DEF b, On, OffBlock
<1> HIDE DEF Cut
<1>3. U \in Seq(PosixLock) /\ Len(U) = Len(L) /\ \A i \in 1..Len(L) : U[i] = Cut(i)
  BY <1>2
<1> HIDE DEF U
<1> QED BY <1>1, <1>2, <1>3

----------------------------------------------------------------------------
(* How a step of p treats the sleepers.                                     *)

\* Why q sleeps.
Reason(q, pl, fl, rq, dy) ==
    \/ \E i \in DOMAIN pl : rq[q].op # "flock" /\ P!posix_locks_conflict(q, rq[q], pl[i]) /\ q \in On(pl[i])
    \/ \E i \in DOMAIN fl : rq[q].op = "flock" /\ F!flock_locks_conflict(q, rq[q], fl[i]) /\ q \in On(fl[i])
    \/ \E t \in Procs : q \in ToSet(dy[t])

\* The block lists of deleted locks lose nobody but p.
DyingKept(dy, dm, p) == \A t \in Procs : ToSet(dy[t]) \ {p} \subseteq ToSet(dm[t])
OnDying(q, dm) == \E t \in Procs : q \in ToSet(dm[t])

\* The fcntl locks before and after the step: who is not woken still waits for
\* a lock that covers the one it waited for.
Links(L, M, W, p) ==
    /\ Once(M)
    /\ \A x \in DOMAIN M : \A q \in On(M[x]) :
          q = p \/ \E i \in DOMAIN L : q \in On(L[i]) /\ M[x].owner = L[i].owner
    /\ \A i \in DOMAIN L : \A q \in On(L[i]) :
          q = p \/ q \in W \/ \E x \in DOMAIN M : Covers(M[x], L[i], q)

\* The same of the flock locks.
FLinks(L, M, W, p) ==
    /\ Once(M)
    /\ \A x \in DOMAIN M : \A q \in On(M[x]) : q = p \/ \E i \in DOMAIN L : q \in On(L[i])
    /\ \A i \in DOMAIN L : \A q \in On(L[i]) :
          \/ q = p \/ q \in W
          \/ \E x \in DOMAIN M : q \in On(M[x]) /\ M[x].file = L[i].file /\ M[x].type = L[i].type

LEMMA LinksSame ==
    ASSUME NEW L \in Seq(PosixLock), Once(L), NEW W, NEW p
    PROVE  Links(L, L, W, p)
<1>1. \A i \in DOMAIN L : L[i].start \in Int /\ L[i].end \in Int
  BY LockFields
<1>2. \A i \in DOMAIN L : L[i].start <= L[i].start /\ L[i].end <= L[i].end
  BY <1>1
<1> QED BY <1>2 DEF Links, Covers

LEMMA FLinksSame ==
    ASSUME NEW L, Once(L), NEW W, NEW p
    PROVE  FLinks(L, L, W, p)
  BY DEF FLinks

LEMMA ConflictKept ==
    ASSUME NEW f \in PosixLock, NEW g \in PosixLock, NEW r, r.start \in Int, r.end \in Int, NEW q,
           P!posix_locks_conflict(q, r, f), Covers(g, f, q)
    PROVE  P!posix_locks_conflict(q, r, g)
<1>1. /\ f.start \in Int /\ f.end \in Int /\ g.start \in Int /\ g.end \in Int
  BY LockFields
<1>2. /\ f.owner # q /\ r.end >= f.start /\ f.end >= r.start
      /\ r.type = "F_WRLCK" \/ f.type = "F_WRLCK"
  BY DEF P!posix_locks_conflict, P!locks_overlap
<1>3. g.owner = f.owner /\ g.type = f.type /\ g.start <= f.start /\ f.end <= g.end
  BY DEF Covers
<1>4. r.end >= g.start /\ g.end >= r.start
  BY <1>1, <1>2, <1>3
<1> QED BY <1>2, <1>3, <1>4 DEF P!posix_locks_conflict, P!locks_overlap

LEMMA ReasonKept ==
    ASSUME NEW pl \in Seq(PosixLock), NEW fl, NEW rq, NEW dy, NEW pm \in Seq(PosixLock), NEW fm,
           NEW rm, NEW dm, NEW p, NEW W, NEW q, q # p, Reason(q, pl, fl, rq, dy),
           rm[q] = rq[q], rq[q].op # "flock" => rq[q].start \in Int /\ rq[q].end \in Int,
           Links(pl, pm, W, p), FLinks(fl, fm, W, p),
           DyingKept(dy, dm, p), q \in W => OnDying(q, dm)
    PROVE  Reason(q, pm, fm, rm, dm)
<1>1. CASE q \in W
  BY <1>1 DEF Reason, OnDying
<1>2. ASSUME q \notin W, NEW i \in DOMAIN pl, rq[q].op # "flock",
             P!posix_locks_conflict(q, rq[q], pl[i]), q \in On(pl[i])
      PROVE  Reason(q, pm, fm, rm, dm)
  <2>1. PICK x \in DOMAIN pm : Covers(pm[x], pl[i], q)
    BY <1>2 DEF Links
  <2>2. P!posix_locks_conflict(q, rq[q], pm[x])
    <3> DEFINE a == rq[q]
    <3>1. a.start \in Int /\ a.end \in Int /\ P!posix_locks_conflict(q, a, pl[i])
      BY <1>2
    <3>2. pl[i] \in PosixLock /\ pm[x] \in PosixLock
      BY <1>2, <2>1
    <3> HIDE DEF a
    <3>3. P!posix_locks_conflict(q, a, pm[x])
      BY <2>1, <3>1, <3>2, ConflictKept
    <3> QED BY <3>3 DEF a
  <2>3. q \in On(pm[x])
    BY <2>1 DEF Covers
  <2> QED BY <1>2, <2>1, <2>2, <2>3 DEF Reason
<1>3. ASSUME q \notin W, NEW i \in DOMAIN fl, rq[q].op = "flock",
             F!flock_locks_conflict(q, rq[q], fl[i]), q \in On(fl[i])
      PROVE  Reason(q, pm, fm, rm, dm)
  <2>1. PICK x \in DOMAIN fm : q \in On(fm[x]) /\ fm[x].file = fl[i].file /\ fm[x].type = fl[i].type
    BY <1>3 DEF FLinks
  <2>2. F!flock_locks_conflict(q, rq[q], fm[x])
    BY <1>3, <2>1 DEF F!flock_locks_conflict
  <2> QED BY <1>3, <2>1, <2>2 DEF Reason
<1>4. ASSUME NEW t \in Procs, q \in ToSet(dy[t])
      PROVE  Reason(q, pm, fm, rm, dm)
  BY <1>4 DEF Reason, DyingKept
<1> QED BY <1>1, <1>2, <1>3, <1>4 DEF Reason

LEMMA ReasonDef ==
    /\ SleepsForReason <=>
         \A q \in Procs : pc[q] = "asleep" => Reason(q, posix_list, flock_list, req, dying)
    /\ SleepsForReason' <=>
         \A q \in Procs : pc'[q] = "asleep" => Reason(q, posix_list', flock_list', req', dying')
  BY DEF SleepsForReason, Reason, On

PcType == pc \in [Procs -> {"user", "asleep", "woken", "yield"}]
ReqType == req \in [Procs -> P!Requests \cup F!Requests \cup {None}]

\* The other processes keep their requests, and those of V are woken.
Others(p, V) ==
    /\ PcType' /\ ReqType'
    /\ \A q \in Procs \ {p} :
          /\ req'[q] = req[q]
          /\ pc'[q] = IF q \in V /\ pc[q] = "asleep" THEN "woken" ELSE pc[q]

LEMMA TypeKept ==
    ASSUME TypeOK, NEW p \in Procs, NEW V, Others(p, V),
           posix_list' \in Seq(PosixLock), flock_list' \in Seq(FlockLock),
           sig' \in [Procs -> BOOLEAN], open' \in [Procs -> BOOLEAN], mand' \in BOOLEAN,
           dying' \in [Procs -> Seq(Procs)],
           \A q \in Procs \ {p} : dying'[q] # << >> => dying[q] # << >>,
           pc'[p] = "user" <=> req'[p] = None, pc'[p] = "yield" => req'[p].op = "flock",
           dying'[p] # << >> => pc'[p] = "yield"
    PROVE  TypeOK'
<1>1. PcType' /\ ReqType'
  BY DEF Others
<1>2. ASSUME NEW q \in Procs
      PROVE  /\ pc'[q] = "user" <=> req'[q] = None
             /\ pc'[q] = "yield" => req'[q].op = "flock"
             /\ dying'[q] # << >> => pc'[q] = "yield"
  <2>1. CASE q = p
    BY <2>1
  <2>2. CASE q # p
    <3>1. req'[q] = req[q] /\ (pc'[q] = pc[q] \/ (pc[q] = "asleep" /\ pc'[q] = "woken"))
      BY <2>2 DEF Others
    <3>2. /\ pc[q] = "user" <=> req[q] = None
          /\ pc[q] = "yield" => req[q].op = "flock"
          /\ dying[q] # << >> => pc[q] = "yield"
      BY DEF TypeOK
    <3> QED BY <2>2, <3>1, <3>2
  <2> QED BY <2>1, <2>2
<1> QED BY <1>1, <1>2 DEF TypeOK, PcType, ReqType

\* A step of p that wakes V: W are those who lose the lock they waited for.
LEMMA SleepersKept ==
    ASSUME Inv, TypeOK', NEW p \in Procs, NEW V, NEW W, Others(p, V),
           Links(posix_list, posix_list', W, p), FLinks(flock_list, flock_list', W, p),
           \A q \in W : q # p => q \in V \/ OnDying(q, dying'), DyingKept(dying, dying', p),
           \A x \in DOMAIN posix_list' : p \in On(posix_list'[x]) =>
              pc'[p] \in {"asleep", "woken"} /\ req'[p].op # "flock",
           \A x \in DOMAIN flock_list' : p \in On(flock_list'[x]) =>
              pc'[p] \in {"asleep", "woken"} /\ req'[p].op = "flock",
           pc'[p] = "asleep" => Reason(p, posix_list', flock_list', req', dying')
    PROVE  Once(posix_list)' /\ Once(flock_list)' /\ Waiters' /\ SleepsForReason'
<1>1. Once(posix_list)' /\ Once(flock_list)'
  BY DEF Links, FLinks
<1>2. \A q \in Procs \ {p} :
         /\ req'[q] = req[q]
         /\ pc'[q] = IF q \in V /\ pc[q] = "asleep" THEN "woken" ELSE pc[q]
  BY DEF Others
<1>3. /\ posix_list \in Seq(PosixLock) /\ posix_list' \in Seq(PosixLock)
      /\ flock_list \in Seq(FlockLock) /\ flock_list' \in Seq(FlockLock)
  BY DEF Inv, TypeOK
<1>4. /\ \A x \in DOMAIN posix_list' : \A q \in On(posix_list'[x]) : q \in Procs
      /\ \A x \in DOMAIN flock_list' : \A q \in On(flock_list'[x]) : q \in Procs
  <2>1. \A x \in DOMAIN posix_list' : posix_list'[x].block \in Seq(Procs)
    <3>1. \A x \in DOMAIN posix_list' : posix_list'[x] \in PosixLock
      BY <1>3
    <3> QED BY <3>1, LockFields
  <2>2. \A x \in DOMAIN flock_list' : flock_list'[x].block \in Seq(Procs)
    <3>1. \A x \in DOMAIN flock_list' : flock_list'[x] \in FlockLock
      BY <1>3
    <3> QED BY <3>1 DEF FlockLock
  <2>3. \A s \in Seq(Procs) : ToSet(s) \subseteq Procs
    BY DEF ToSet
  <2> QED BY <2>1, <2>2, <2>3 DEF On
<1>5. ASSUME NEW x \in DOMAIN posix_list', NEW q \in On(posix_list'[x])
      PROVE  pc'[q] \in {"asleep", "woken"} /\ req'[q].op # "flock"
  <2>1. CASE q = p
    BY <1>5, <2>1
  <2>2. CASE q # p
    <3>1. PICK i \in DOMAIN posix_list : q \in On(posix_list[i])
      BY <1>5, <2>2 DEF Links
    <3>2. pc[q] \in {"asleep", "woken"} /\ req[q].op # "flock"
      BY <3>1 DEF Inv, Waiters
    <3> QED BY <1>2, <1>4, <1>5, <2>2, <3>2
  <2> QED BY <2>1, <2>2
<1>6. ASSUME NEW x \in DOMAIN flock_list', NEW q \in On(flock_list'[x])
      PROVE  pc'[q] \in {"asleep", "woken"} /\ req'[q].op = "flock"
  <2>1. CASE q = p
    BY <1>6, <2>1
  <2>2. CASE q # p
    <3>1. PICK i \in DOMAIN flock_list : q \in On(flock_list[i])
      BY <1>6, <2>2 DEF FLinks
    <3>2. pc[q] \in {"asleep", "woken"} /\ req[q].op = "flock"
      BY <3>1 DEF Inv, Waiters
    <3> QED BY <1>2, <1>4, <1>6, <2>2, <3>2
  <2> QED BY <2>1, <2>2
<1>7. Waiters'
  BY <1>5, <1>6 DEF Waiters
<1>8. ASSUME NEW q \in Procs, pc'[q] = "asleep"
      PROVE  Reason(q, posix_list', flock_list', req', dying')
  <2>1. CASE q = p
    BY <1>8, <2>1
  <2>2. CASE q # p
    <3>1. req'[q] = req[q] /\ pc[q] = "asleep" /\ q \notin V
      BY <1>2, <1>8, <2>2
    <3>2. Reason(q, posix_list, flock_list, req, dying)
      BY <3>1, ReasonDef DEF Inv
    <3>3. req[q].op # "flock" => req[q].start \in Int /\ req[q].end \in Int
      <4>1. req[q] # None /\ req[q] \in P!Requests \cup F!Requests \cup {None}
        BY <3>1 DEF Inv, TypeOK
      <4> QED BY <4>1, RequestKinds
    <3>4. q \in W => OnDying(q, dying')
      BY <2>2, <3>1
    <3> DEFINE pl == posix_list
               pm == posix_list'
               fl == flock_list
               fm == flock_list'
               rq == req
               rm == req'
               dy == dying
               dm == dying'
    <3>5. /\ pl \in Seq(PosixLock) /\ pm \in Seq(PosixLock) /\ q # p /\ Reason(q, pl, fl, rq, dy)
          /\ rm[q] = rq[q] /\ (rq[q].op # "flock" => rq[q].start \in Int /\ rq[q].end \in Int)
          /\ Links(pl, pm, W, p) /\ FLinks(fl, fm, W, p)
          /\ DyingKept(dy, dm, p) /\ (q \in W => OnDying(q, dm))
      BY <1>3, <2>2, <3>1, <3>2, <3>3, <3>4
    <3> HIDE DEF pl, pm, fl, fm, rq, rm, dy, dm
    <3>6. Reason(q, pm, fm, rm, dm)
      BY <3>5, ReasonKept, Zenon
    <3> QED BY <3>6 DEF pm, fm, rm, dm
  <2> QED BY <2>1, <2>2
<1>9. SleepsForReason'
  BY <1>8, ReasonDef
<1> QED BY <1>1, <1>7, <1>9

\* A circle of waiting processes is not made by taking block lists over.
LEMMA NoCircleKept ==
    ASSUME NoCircle, NEW p, NEW W, Links(posix_list, posix_list', W, p),
           \A x \in DOMAIN posix_list' : p \notin On(posix_list'[x])
    PROVE  NoCircle'
<1> SUFFICES ASSUME NEW S \in (SUBSET Procs) \ {{}},
                    \A q \in S : \E x \in DOMAIN posix_list' :
                       posix_list'[x].owner \in S /\ q \in On(posix_list'[x])
             PROVE  FALSE
  BY DEF NoCircle, On
<1>1. ASSUME NEW q \in S
      PROVE  \E i \in DOMAIN posix_list : posix_list[i].owner \in S /\ q \in On(posix_list[i])
  <2>1. PICK x \in DOMAIN posix_list' : posix_list'[x].owner \in S /\ q \in On(posix_list'[x])
    BY <1>1
  <2>2. q # p
    BY <2>1
  <2>3. \E i \in DOMAIN posix_list : q \in On(posix_list[i]) /\ posix_list'[x].owner = posix_list[i].owner
    BY <2>1, <2>2 DEF Links
  <2> QED BY <2>1, <2>3
<1> QED BY <1>1 DEF NoCircle, On

----------------------------------------------------------------------------
(* The fcntl calls.                                                         *)

LEMMA UnblockOnce ==
    ASSUME NEW L \in Seq(PosixLock), Once(L), NEW p
    PROVE  Once(P!locks_delete_block(L, p))
<1> DEFINE U == P!locks_delete_block(L, p)
<1>1. /\ U \in Seq(PosixLock) /\ Len(U) = Len(L)
      /\ \A i \in 1..Len(L) : OffBlock(U[i], L[i], p)
  BY UnblockFacts
<1> HIDE DEF U
<1>2. DOMAIN U = 1..Len(L) /\ DOMAIN L = 1..Len(L)
  BY <1>1
<1>3. Once(U)
  BY <1>1, <1>2 DEF Once, OffBlock
<1> QED BY <1>3 DEF U

LEMMA UnblockLinks ==
    ASSUME NEW L \in Seq(PosixLock), Once(L), NEW p, NEW M \in Seq(PosixLock), NEW W,
           Descends(P!locks_delete_block(L, p), Len(P!locks_delete_block(L, p)), M, W)
    PROVE  Links(L, M, W, p) /\ \A x \in DOMAIN M : p \notin On(M[x])
<1> DEFINE U == P!locks_delete_block(L, p)
<1>1. /\ U \in Seq(PosixLock) /\ Len(U) = Len(L)
      /\ \A i \in 1..Len(L) : OffBlock(U[i], L[i], p)
  BY UnblockFacts
<1>2. Descends(U, Len(U), M, W)
  OBVIOUS
<1> HIDE DEF U
<1>3. DOMAIN M = 1..Len(M) /\ DOMAIN L = 1..Len(L)
  OBVIOUS
<1>4. Once(M)
  BY <1>2 DEF Descends
<1>5. ASSUME NEW x \in DOMAIN M, NEW q \in On(M[x])
      PROVE  q # p /\ \E i \in DOMAIN L : q \in On(L[i]) /\ M[x].owner = L[i].owner
  <2>1. PICK i \in 1..Len(U) : q \in On(U[i]) /\ M[x].owner = U[i].owner
    BY <1>2, <1>3, <1>5 DEF Descends
  <2> QED BY <1>1, <1>3, <2>1 DEF OffBlock
<1>6. ASSUME NEW i \in DOMAIN L, NEW q \in On(L[i]), q # p, q \notin W
      PROVE  \E x \in DOMAIN M : Covers(M[x], L[i], q)
  <2>1. i \in 1..Len(U) /\ q \in On(U[i])
    BY <1>1, <1>3, <1>6 DEF OffBlock
  <2>2. q \in W \/ \E x \in 1..Len(M) : Covers(M[x], U[i], q)
    BY <1>2, <2>1, Zenon DEF Descends
  <2>3. PICK x \in 1..Len(M) : Covers(M[x], U[i], q)
    BY <1>6, <2>2
  <2>4. Covers(M[x], L[i], q)
    BY <1>1, <2>1, <2>3 DEF Covers, OffBlock
  <2> QED BY <1>3, <2>3, <2>4
<1> QED BY <1>4, <1>5, <1>6 DEF Links

\* wake_up on the sleepers of V, and what the caller does.
LEMMA ReturnFacts ==
    ASSUME TypeOK, NEW p \in Procs, NEW V, P!Return(p, V) \/ F!Return(p, V)
    PROVE  /\ Others(p, V) /\ pc'[p] = "user" /\ req'[p] = None /\ sig' \in [Procs -> BOOLEAN]
<1>1. /\ PcType /\ ReqType /\ sig \in [Procs -> BOOLEAN]
  BY DEF TypeOK, PcType, ReqType
<1> DEFINE w == [q \in Procs |-> IF q \in V /\ pc[q] = "asleep" THEN "woken" ELSE pc[q]]
<1>2. /\ pc' = [w EXCEPT ![p] = "user"]
      /\ req' = [req EXCEPT ![p] = None]
      /\ sig' = [sig EXCEPT ![p] = FALSE]
  BY DEF P!Return, F!Return, P!Wake, F!Wake
<1>3. /\ w \in [Procs -> {"user", "asleep", "woken", "yield"}]
      /\ \A q \in Procs : w[q] = IF q \in V /\ pc[q] = "asleep" THEN "woken" ELSE pc[q]
  BY <1>1 DEF PcType
<1> HIDE DEF w
<1>4. PcType' /\ pc'[p] = "user" /\ \A q \in Procs \ {p} : pc'[q] = w[q]
  BY <1>2, <1>3 DEF PcType
<1>5. ReqType' /\ req'[p] = None /\ \A q \in Procs \ {p} : req'[q] = req[q]
  BY <1>1, <1>2 DEF ReqType
<1>6. sig' \in [Procs -> BOOLEAN]
  BY <1>1, <1>2
<1> QED BY <1>3, <1>4, <1>5, <1>6 DEF Others

\* A call that ends, or a close.
LEMMA PosixReturn ==
    ASSUME Inv, NEW p \in Procs, NEW W, pc[p] \in {"user", "woken"},
           pc[p] = "woken" => req[p].op # "flock", Others(p, W), pc'[p] = "user", req'[p] = None,
           sig' \in [Procs -> BOOLEAN], posix_list' \in Seq(PosixLock),
           Links(posix_list, posix_list', W, p),
           \A x \in DOMAIN posix_list' : p \notin On(posix_list'[x]),
           posix_list' = << >> \/ flock_list = << >>, UNCHANGED <<flock_list, dying, open, mand>>
    PROVE  Inv'
<1>1. /\ flock_list' = flock_list /\ dying' = dying /\ open' = open /\ mand' = mand
      /\ flock_list \in Seq(FlockLock) /\ dying \in [Procs -> Seq(Procs)]
      /\ open \in [Procs -> BOOLEAN] /\ mand \in BOOLEAN /\ dying[p] = << >>
  BY DEF Inv, TypeOK
<1>2. TypeOK'
  BY <1>1, TypeKept DEF Inv
<1>3. FLinks(flock_list, flock_list', W, p)
  BY <1>1, FLinksSame DEF Inv
<1>4. DyingKept(dying, dying', p)
  BY <1>1 DEF DyingKept
<1>5. \A x \in DOMAIN flock_list' : p \notin On(flock_list'[x])
  BY <1>1 DEF Inv, Waiters
<1>6. Once(posix_list)' /\ Once(flock_list)' /\ Waiters' /\ SleepsForReason'
  BY <1>2, <1>3, <1>4, <1>5, SleepersKept
<1>7. NoCircle'
  BY NoCircleKept DEF Inv
<1>8. Compatible'
  BY <1>1 DEF Inv, Compatible
<1>9. Asks'
  BY RequestKinds DEF Inv, Asks, Others
<1>10. \A q \in Procs : IsInjective(dying'[q])
  BY <1>1 DEF Inv
<1> QED BY <1>2, <1>6, <1>7, <1>8, <1>9, <1>10 DEF Inv

\* A process goes to the end of a block list.
LEMMA AppendFacts ==
    ASSUME NEW S, NEW s \in Seq(S), IsInjective(s), NEW e \in S, e \notin ToSet(s)
    PROVE  /\ Append(s, e) \in Seq(S) /\ IsInjective(Append(s, e))
           /\ ToSet(Append(s, e)) = ToSet(s) \cup {e}
<1> DEFINE t == Append(s, e)
           n == Len(s)
<1>1. /\ t \in Seq(S) /\ n \in Nat /\ DOMAIN t = 1..(n + 1) /\ t[n + 1] = e
      /\ DOMAIN s = 1..n /\ \A x \in 1..n : t[x] = s[x]
  OBVIOUS
<1> HIDE DEF t, n
<1>2. \A x \in 1..n : s[x] # e
  BY <1>1 DEF ToSet
<1>3. IsInjective(t)
  BY <1>1, <1>2 DEF IsInjective
<1>4. ToSet(t) = ToSet(s) \cup {e}
  <2>1. \A x \in 1..n : x \in 1..(n + 1)
    BY <1>1
  <2>2. n + 1 \in 1..(n + 1)
    BY <1>1
  <2>3. \A x \in 1..(n + 1) : x \in 1..n \/ x = n + 1
    BY <1>1
  <2> QED BY <1>1, <2>1, <2>2, <2>3 DEF ToSet
<1> QED BY <1>1, <1>3, <1>4 DEF t

\* f is g with a block list that differs in p alone.
OnBlock(f, g, p, b) ==
    /\ f.owner = g.owner /\ f.type = g.type /\ f.start = g.start /\ f.end = g.end
    /\ IsInjective(f.block) /\ On(f) = (On(g) \ {p}) \cup b

\* p goes to the block list of the lock at i.
LEMMA InsertFacts ==
    ASSUME NEW L \in Seq(PosixLock), Once(L), NEW p \in Procs, NEW i \in 1..Len(L), NEW M,
           M = P!locks_insert_block(P!locks_delete_block(L, p), i, p)
    PROVE  /\ M \in Seq(PosixLock) /\ Len(M) = Len(L)
           /\ \A x \in 1..Len(L) : OnBlock(M[x], L[x], p, IF x = i THEN {p} ELSE {})
<1> DEFINE U == P!locks_delete_block(L, p)
           g == [U[i] EXCEPT !.block = Append(U[i].block, p)]
<1>1. /\ U \in Seq(PosixLock) /\ Len(U) = Len(L)
      /\ \A x \in 1..Len(L) : OffBlock(U[x], L[x], p)
  BY UnblockFacts
<1>2. M = [U EXCEPT ![i] = g]
  BY DEF P!locks_insert_block
<1> HIDE DEF U
<1>3. U[i] \in PosixLock /\ U[i].block \in Seq(Procs) /\ OffBlock(U[i], L[i], p)
  BY <1>1, LockFields
<1>4. /\ g \in PosixLock /\ g.owner = U[i].owner /\ g.type = U[i].type /\ g.start = U[i].start
      /\ g.end = U[i].end /\ IsInjective(g.block) /\ On(g) = On(U[i]) \cup {p}
  <2> DEFINE b == Append(U[i].block, p)
  <2>1. IsInjective(U[i].block) /\ p \notin ToSet(U[i].block)
    BY <1>3 DEF OffBlock, On
  <2>2. b \in Seq(Procs) /\ IsInjective(b) /\ ToSet(b) = ToSet(U[i].block) \cup {p}
    BY <1>3, <2>1, AppendFacts
  <2>3. g = [U[i] EXCEPT !.block = b]
    OBVIOUS
  <2> HIDE DEF b, g
  <2>4. /\ g \in PosixLock /\ g.owner = U[i].owner /\ g.type = U[i].type
        /\ g.start = U[i].start /\ g.end = U[i].end /\ g.block = b
    BY <1>3, <2>2, <2>3 DEF PosixLock
  <2> QED BY <2>2, <2>4 DEF On
<1> HIDE DEF g
<1>5. /\ M \in Seq(PosixLock) /\ Len(M) = Len(L) /\ M[i] = g
      /\ \A x \in 1..Len(L) : x # i => M[x] = U[x]
  BY <1>1, <1>2, <1>4
<1>6. ASSUME NEW x \in 1..Len(L)
      PROVE  OnBlock(M[x], L[x], p, IF x = i THEN {p} ELSE {})
  <2>1. CASE x = i
    BY <1>3, <1>4, <1>5, <2>1 DEF OnBlock, OffBlock
  <2>2. CASE x # i
    BY <1>1, <1>5, <2>2 DEF OnBlock, OffBlock
  <2> QED BY <2>1, <2>2
<1> QED BY <1>5, <1>6

\* posix_locks_deadlock has not found p: no circle through p is closed.
LEMMA NoCircleClosed ==
    ASSUME NoCircle, posix_list \in Seq(PosixLock), Once(posix_list), NEW p \in Procs,
           NEW i \in 1..Len(posix_list),
           ~P!posix_locks_deadlock(P!locks_delete_block(posix_list, p), p, posix_list[i].owner),
           Len(posix_list') = Len(posix_list), DOMAIN posix_list' = 1..Len(posix_list),
           \A x \in 1..Len(posix_list) :
              OnBlock(posix_list'[x], posix_list[x], p, IF x = i THEN {p} ELSE {})
    PROVE  NoCircle'
<1> DEFINE L == posix_list
           U == P!locks_delete_block(L, p)
<1>1. /\ U \in Seq(PosixLock) /\ DOMAIN U = 1..Len(L) /\ DOMAIN L = 1..Len(L)
      /\ \A x \in 1..Len(L) : OffBlock(U[x], L[x], p)
  BY UnblockFacts
<1>2. PICK T \in SUBSET Procs :
         /\ L[i].owner \in T /\ p \notin T
         /\ \A t \in T : {U[x].owner : x \in {y \in DOMAIN U : P!Blocks(U[y], t)}} \subseteq T
  BY DEF P!posix_locks_deadlock
<1> HIDE DEF U
<1>3. \A t \in T : \A x \in 1..Len(L) : t \in On(L[x]) => L[x].owner \in T
  <2> SUFFICES ASSUME NEW t \in T, NEW x \in 1..Len(L), t \in On(L[x])
               PROVE  L[x].owner \in T
    OBVIOUS
  <2>1. t \in On(U[x]) /\ U[x].owner = L[x].owner
    BY <1>1, <1>2 DEF OffBlock
  <2>2. P!Blocks(U[x], t)
    BY <2>1 DEF P!Blocks, On, ToSet
  <2> QED BY <1>1, <1>2, <2>1, <2>2
<1> SUFFICES ASSUME NEW S \in (SUBSET Procs) \ {{}},
                    \A q \in S : \E x \in 1..Len(L) :
                       posix_list'[x].owner \in S /\ q \in On(posix_list'[x])
             PROVE  FALSE
  BY DEF NoCircle, On
<1>4. ASSUME NEW q \in S, q # p
      PROVE  \E x \in 1..Len(L) : L[x].owner \in S /\ q \in On(L[x])
  <2>1. PICK x \in 1..Len(L) : posix_list'[x].owner \in S /\ q \in On(posix_list'[x])
    BY <1>4
  <2>2. L[x].owner \in S /\ q \in On(L[x])
    BY <1>4, <2>1 DEF OnBlock
  <2> QED BY <2>2
<1>5. \A R \in (SUBSET Procs) \ {{}} :
         ~ \A q \in R : \E x \in 1..Len(L) : L[x].owner \in R /\ q \in On(L[x])
  BY <1>1 DEF NoCircle, On
<1>6. CASE p \notin S
  BY <1>4, <1>5, <1>6
<1>7. CASE p \in S
  <2>1. PICK x \in 1..Len(L) : posix_list'[x].owner \in S /\ p \in On(posix_list'[x])
    BY <1>7
  <2>2. x = i /\ L[i].owner \in S
    BY <2>1 DEF OnBlock
  <2> DEFINE R == S \cap T
  <2>3. R \in (SUBSET Procs) \ {{}}
    BY <1>2, <2>2
  <2>4. ASSUME NEW q \in R
        PROVE  \E y \in 1..Len(L) : L[y].owner \in R /\ q \in On(L[y])
    <3>1. q \in S /\ q \in T /\ q # p
      BY <1>2
    <3>2. PICK y \in 1..Len(L) : L[y].owner \in S /\ q \in On(L[y])
      BY <1>4, <3>1
    <3>3. L[y].owner \in T
      BY <1>3, <3>1, <3>2
    <3> QED BY <3>2, <3>3
  <2> HIDE DEF R
  <2> QED BY <1>5, <2>3, <2>4
<1> QED BY <1>6, <1>7

\* A call that goes to sleep.
LEMMA PosixSleeps ==
    ASSUME Inv, NEW p \in Procs, NEW r \in P!Requests, NEW i \in 1..Len(posix_list),
           pc[p] \in {"user", "woken"}, pc[p] = "woken" => req[p].op # "flock",
           P!posix_locks_conflict(p, r, posix_list[i]),
           ~P!posix_locks_deadlock(P!Unblocked(p), p, posix_list[i].owner),
           P!Sleeps(p, r, P!Unblocked(p), i), UNCHANGED <<flock_list, dying, open, mand>>
    PROVE  Inv'
<1>1. /\ flock_list' = flock_list /\ dying' = dying /\ open' = open /\ mand' = mand
      /\ flock_list \in Seq(FlockLock) /\ dying \in [Procs -> Seq(Procs)]
      /\ open \in [Procs -> BOOLEAN] /\ mand \in BOOLEAN /\ dying[p] = << >>
      /\ posix_list \in Seq(PosixLock) /\ Once(posix_list) /\ Once(flock_list)
  BY DEF Inv, TypeOK
<1>2. posix_list' = P!locks_insert_block(P!locks_delete_block(posix_list, p), i, p)
  BY DEF P!Sleeps, P!Unblocked
<1>3. /\ posix_list' \in Seq(PosixLock) /\ Len(posix_list') = Len(posix_list)
      /\ \A x \in 1..Len(posix_list) :
            OnBlock(posix_list'[x], posix_list[x], p, IF x = i THEN {p} ELSE {})
  BY <1>1, <1>2, InsertFacts
<1>4. DOMAIN posix_list' = 1..Len(posix_list) /\ DOMAIN posix_list = 1..Len(posix_list)
  BY <1>1, <1>3
<1>5. r.op # "flock" /\ r # None
  BY RequestKinds
<1>6. /\ Others(p, {}) /\ pc'[p] = "asleep" /\ req'[p] = r /\ sig' \in [Procs -> BOOLEAN]
  <2>1. /\ PcType /\ ReqType /\ sig \in [Procs -> BOOLEAN]
    BY DEF Inv, TypeOK, PcType, ReqType
  <2>2. pc' = [pc EXCEPT ![p] = "asleep"] /\ req' = [req EXCEPT ![p] = r] /\ sig' = sig
    BY DEF P!Sleeps
  <2>3. PcType' /\ pc'[p] = "asleep" /\ \A q \in Procs \ {p} : pc'[q] = pc[q]
    BY <2>1, <2>2 DEF PcType
  <2>4. ReqType' /\ req'[p] = r /\ \A q \in Procs \ {p} : req'[q] = req[q]
    BY <2>1, <2>2 DEF ReqType
  <2> QED BY <2>1, <2>2, <2>3, <2>4 DEF Others
<1>7. TypeOK'
  BY <1>1, <1>3, <1>5, <1>6, TypeKept DEF Inv
<1>8. Links(posix_list, posix_list', {}, p)
  <2> DEFINE L == posix_list
             M == posix_list'
  <2>1. Once(M)
    <3>1. \A x \in 1..Len(L) : IsInjective(M[x].block)
      BY <1>3 DEF OnBlock
    <3>2. ASSUME NEW x \in 1..Len(L), NEW y \in 1..Len(L), NEW q \in On(M[x]), q \in On(M[y])
          PROVE  x = y
      <4>1. CASE q = p
        BY <1>3, <3>2, <4>1 DEF OnBlock
      <4>2. CASE q # p
        <5>1. q \in On(L[x]) /\ q \in On(L[y])
          BY <1>3, <3>2, <4>2 DEF OnBlock
        <5> QED BY <1>1, <1>4, <5>1 DEF Once
      <4> QED BY <4>1, <4>2
    <3> QED BY <1>4, <3>1, <3>2 DEF Once
  <2>2. ASSUME NEW x \in 1..Len(L), NEW q \in On(M[x])
        PROVE  q = p \/ \E y \in 1..Len(L) : q \in On(L[y]) /\ M[x].owner = L[y].owner
    BY <1>3, <2>2 DEF OnBlock
  <2>3. ASSUME NEW x \in 1..Len(L), NEW q \in On(L[x]), q # p
        PROVE  \E y \in 1..Len(L) : Covers(M[y], L[x], q)
    <3>1. L[x].start \in Int /\ L[x].end \in Int
      BY <1>1, LockFields
    <3>2. Covers(M[x], L[x], q)
      BY <1>3, <2>3, <3>1 DEF OnBlock, Covers
    <3> QED BY <3>2
  <2> QED BY <1>4, <2>1, <2>2, <2>3 DEF Links
<1>9. FLinks(flock_list, flock_list', {}, p) /\ DyingKept(dying, dying', p)
  BY <1>1, FLinksSame DEF DyingKept
<1>10. \A x \in DOMAIN flock_list' : p \notin On(flock_list'[x])
  BY <1>1 DEF Inv, Waiters
<1>11. Reason(p, posix_list', flock_list', req', dying')
  <2>1. OnBlock(posix_list'[i], posix_list[i], p, {p})
    BY <1>3
  <2>2. P!posix_locks_conflict(p, r, posix_list'[i]) /\ p \in On(posix_list'[i])
    BY <2>1 DEF OnBlock, P!posix_locks_conflict, P!locks_overlap
  <2> QED BY <1>4, <1>5, <1>6, <2>2 DEF Reason
<1>12. Once(posix_list)' /\ Once(flock_list)' /\ Waiters' /\ SleepsForReason'
  BY <1>5, <1>6, <1>7, <1>8, <1>9, <1>10, <1>11, SleepersKept
<1>13. NoCircle'
  BY <1>1, <1>3, <1>4, NoCircleClosed DEF Inv, P!Unblocked
<1>14. Compatible'
  <2>1. posix_list # << >>
    BY <1>1
  <2> QED BY <1>1, <2>1 DEF Inv, Compatible
<1>15. Asks'
  <2>1. \A q \in Procs : req'[q] \in F!Requests => req'[q].type # "F_UNLCK"
    BY <1>5, <1>6, RequestKinds DEF Inv, Asks, Others
  <2> QED BY <2>1 DEF Asks
<1>16. \A q \in Procs : IsInjective(dying'[q])
  BY <1>1 DEF Inv
<1> QED BY <1>7, <1>12, <1>13, <1>14, <1>15, <1>16 DEF Inv

\* A call that fails: it only leaves the block list.
LEMMA PosixFails ==
    ASSUME Inv, NEW p \in Procs, pc[p] \in {"user", "woken"},
           pc[p] = "woken" => req[p].op # "flock", posix_list' = P!Unblocked(p), P!Return(p, {}),
           UNCHANGED <<flock_list, dying, open, mand>>
    PROVE  Inv'
<1> DEFINE U == P!locks_delete_block(posix_list, p)
<1>1. posix_list \in Seq(PosixLock) /\ Once(posix_list) /\ TypeOK
  BY DEF Inv, TypeOK
<1>2. U \in Seq(PosixLock) /\ Len(U) = Len(posix_list) /\ Once(U)
  BY <1>1, UnblockFacts, UnblockOnce
<1>3. Descends(U, Len(U), U, {})
  <2> HIDE DEF U
  <2> QED BY <1>2, DescendsSelf
<1>4. posix_list' = U
  BY DEF P!Unblocked
<1>5. Links(posix_list, U, {}, p) /\ \A x \in DOMAIN U : p \notin On(U[x])
  BY <1>1, <1>2, <1>3, UnblockLinks
<1>6. Others(p, {}) /\ pc'[p] = "user" /\ req'[p] = None /\ sig' \in [Procs -> BOOLEAN]
  BY <1>1, ReturnFacts
<1>7. U = << >> \/ flock_list = << >>
  <2> HIDE DEF U
  <2> QED BY <1>1, <1>2 DEF Inv, Compatible
<1> HIDE DEF U
<1> QED BY <1>2, <1>4, <1>5, <1>6, <1>7, PosixReturn

\* A request that is granted.
LEMMA PosixGrants ==
    ASSUME Inv, NEW p \in Procs, NEW r \in P!LockRequests, pc[p] \in {"user", "woken"},
           pc[p] = "woken" => req[p].op # "flock", flock_list = << >>, NEW s,
           s = P!Loops(P!Unblocked(p), p, r), posix_list' = P!NewList(s, p, r),
           P!Return(p, P!NewWoken(s)), UNCHANGED <<flock_list, dying, open, mand>>
    PROVE  Inv'
<1> DEFINE U == P!locks_delete_block(posix_list, p)
           W == P!NewWoken(s)
<1>1. posix_list \in Seq(PosixLock) /\ Once(posix_list) /\ TypeOK
  BY DEF Inv, TypeOK
<1>2. U \in Seq(PosixLock) /\ Once(U)
  BY <1>1, UnblockFacts, UnblockOnce
<1>3. s = P!Loops(U, p, r)
  BY DEF P!Unblocked
<1>4. posix_list' \in Seq(PosixLock) /\ Descends(U, Len(U), posix_list', W)
  <2> HIDE DEF U
  <2>1. /\ P!NewList(P!Loops(U, p, r), p, r) \in Seq(PosixLock)
        /\ Descends(U, Len(U), P!NewList(P!Loops(U, p, r), p, r), P!NewWoken(P!Loops(U, p, r)))
    BY <1>2, NewListFacts
  <2> QED BY <1>3, <2>1
<1> HIDE DEF W
<1>5. Links(posix_list, posix_list', W, p) /\ \A x \in DOMAIN posix_list' : p \notin On(posix_list'[x])
  BY <1>1, <1>4, UnblockLinks
<1>6. Others(p, W) /\ pc'[p] = "user" /\ req'[p] = None /\ sig' \in [Procs -> BOOLEAN]
  BY <1>1, ReturnFacts DEF W
<1> QED BY <1>4, <1>5, <1>6, PosixReturn

\* The lock that a request waits for.
LEMMA FirstConflict ==
    ASSUME posix_list \in Seq(PosixLock), NEW p, NEW r, P!Conflicts(p, r) # {}
    PROVE  /\ P!Min(P!Conflicts(p, r)) \in 1..Len(posix_list)
           /\ P!posix_locks_conflict(p, r, posix_list[P!Min(P!Conflicts(p, r))])
<1> DEFINE C == P!Conflicts(p, r)
<1>1. C \subseteq 1..Len(posix_list) /\ \A i \in C : P!posix_locks_conflict(p, r, posix_list[i])
  BY DEF P!Conflicts
<1>2. C \in SUBSET Nat
  BY <1>1
<1> HIDE DEF C
<1>3. Min(C) \in C
  BY <1>2, MinFacts DEF C
<1>4. P!Min(C) = Min(C)
  BY SameOperators
<1> QED BY <1>1, <1>3, <1>4 DEF C

LEMMA PosixLockStep ==
    ASSUME Inv, NEW p \in Procs, NEW r \in P!LockRequests,
           pc[p] = "woken" => req[p].op # "flock", P!posix_lock_file(p, r),
           UNCHANGED <<flock_list, dying, open>>
    PROVE  Inv'
<1>1. pc[p] \in {"user", "woken"}
  BY DEF P!posix_lock_file, P!At
<1>2. UNCHANGED <<flock_list, dying, open, mand>>
  BY DEF P!posix_lock_file
<1>3. posix_list \in Seq(PosixLock) /\ r \in P!Requests
  BY DEF Inv, TypeOK, P!Requests
<1> DEFINE i == P!Min(P!Conflicts(p, r))
<1>4. \/ posix_list' = P!Unblocked(p) /\ P!Return(p, {})
      \/ /\ flock_list = << >>
         /\ \E s \in {P!Loops(P!Unblocked(p), p, r)} :
                posix_list' = P!NewList(s, p, r) /\ P!Return(p, P!NewWoken(s))
      \/ /\ P!Conflicts(p, r) # {} /\ ~P!Deadlock(p, r)
         /\ P!Sleeps(p, r, P!Unblocked(p), i)
  BY DEF P!posix_lock_file
<1>5. CASE posix_list' = P!Unblocked(p) /\ P!Return(p, {})
  BY <1>1, <1>2, <1>5, PosixFails
<1>6. CASE /\ flock_list = << >>
           /\ \E s \in {P!Loops(P!Unblocked(p), p, r)} :
                  posix_list' = P!NewList(s, p, r) /\ P!Return(p, P!NewWoken(s))
  <2>1. PICK s : /\ s = P!Loops(P!Unblocked(p), p, r)
                 /\ posix_list' = P!NewList(s, p, r) /\ P!Return(p, P!NewWoken(s))
    BY <1>6
  <2> QED BY <1>1, <1>2, <1>6, <2>1, PosixGrants
<1>7. CASE /\ P!Conflicts(p, r) # {} /\ ~P!Deadlock(p, r)
           /\ P!Sleeps(p, r, P!Unblocked(p), i)
  <2>1. i \in 1..Len(posix_list) /\ P!posix_locks_conflict(p, r, posix_list[i])
    BY <1>3, <1>7, FirstConflict
  <2>2. ~P!posix_locks_deadlock(P!Unblocked(p), p, posix_list[i].owner)
    BY <1>7 DEF P!Deadlock
  <2> HIDE DEF i
  <2> QED BY <1>1, <1>2, <1>3, <1>7, <2>1, <2>2, PosixSleeps
<1> QED BY <1>4, <1>5, <1>6, <1>7

LEMMA PosixAccessStep ==
    ASSUME Inv, NEW p \in Procs, NEW r \in P!AccessRequests,
           pc[p] = "woken" => req[p].op # "flock", P!locks_mandatory_area(p, r),
           UNCHANGED <<flock_list, dying, open>>
    PROVE  Inv'
<1>1. pc[p] \in {"user", "woken"}
  BY DEF P!locks_mandatory_area, P!At
<1>2. UNCHANGED <<flock_list, dying, open, mand>>
  BY DEF P!locks_mandatory_area
<1>3. posix_list \in Seq(PosixLock) /\ r \in P!Requests
  BY DEF Inv, TypeOK, P!Requests
<1> DEFINE i == P!Min(P!Conflicts(p, r))
<1>4. \/ posix_list' = P!Unblocked(p) /\ P!Return(p, {})
      \/ /\ P!Conflicts(p, r) # {} /\ ~P!Deadlock(p, r)
         /\ P!Sleeps(p, r, P!Unblocked(p), i)
  BY DEF P!locks_mandatory_area
<1>5. CASE posix_list' = P!Unblocked(p) /\ P!Return(p, {})
  BY <1>1, <1>2, <1>5, PosixFails
<1>6. CASE /\ P!Conflicts(p, r) # {} /\ ~P!Deadlock(p, r)
           /\ P!Sleeps(p, r, P!Unblocked(p), i)
  <2>1. i \in 1..Len(posix_list) /\ P!posix_locks_conflict(p, r, posix_list[i])
    BY <1>3, <1>6, FirstConflict
  <2>2. ~P!posix_locks_deadlock(P!Unblocked(p), p, posix_list[i].owner)
    BY <1>6 DEF P!Deadlock
  <2> HIDE DEF i
  <2> QED BY <1>1, <1>2, <1>3, <1>6, <2>1, <2>2, PosixSleeps
<1> QED BY <1>4, <1>5, <1>6

\* A close takes the locks of p away, and wakes who waited for them.
LEMMA PosixRemoveStep ==
    ASSUME Inv, NEW p \in Procs, P!posix_remove_locks(p), UNCHANGED <<flock_list, dying, open>>
    PROVE  Inv'
<1> DEFINE L == posix_list
           gone == {i \in DOMAIN L : L[i].owner = p}
           W == UNION {On(L[i]) : i \in gone}
           M == Keep(L, gone)
<1>1. /\ L \in Seq(PosixLock) /\ Once(L) /\ TypeOK /\ pc[p] = "user" /\ req[p] = None
  BY DEF Inv, TypeOK, P!posix_remove_locks
<1>2. /\ posix_list' = M /\ pc' = P!Wake(W) /\ UNCHANGED <<flock_list, dying, open, mand, req, sig>>
  BY SameOperators DEF P!posix_remove_locks, On
<1>3. M \in Seq(PosixLock) /\ \E g : Picks(g, M, L, gone)
  <2> HIDE DEF gone, L
  <2> QED BY <1>1, KeepFacts
<1>4. \A i \in gone : On(L[i]) \subseteq W
  OBVIOUS
<1> HIDE DEF M, W, gone
<1>0. PICK g : Picks(g, M, L, gone)
  BY <1>3
<1>5. /\ g \in [1..Len(M) -> 1..Len(L)]
      /\ \A i \in 1..Len(M) : g[i] \notin gone /\ M[i] = L[g[i]]
      /\ \A i, j \in 1..Len(M) : i < j => g[i] < g[j]
      /\ \A k \in 1..Len(L) : k \notin gone => \E i \in 1..Len(M) : g[i] = k
  BY <1>0 DEF Picks
<1>6. Via(L, M, W, g)
  <2>1. Len(L) \in Nat /\ Len(M) \in Nat
    BY <1>1, <1>3
  <2>2. \A i \in 1..Len(M) : g[i] \in 1..Len(L) /\ g[i] \in Int
    BY <1>5, <2>1
  <2>3. g \in [1..Len(M) -> Int]
    BY <1>5, <2>2
  <2>4. \A y, z \in 1..Len(M) : g[y] = g[z] => y = z
    <3> SUFFICES ASSUME NEW y \in 1..Len(M), NEW z \in 1..Len(M), g[y] = g[z], y # z
                 PROVE  FALSE
      OBVIOUS
    <3>1. y < z \/ z < y
      BY <2>1
    <3>2. g[y] < g[z] \/ g[z] < g[y]
      BY <1>5, <3>1
    <3> QED BY <2>2, <3>2
  <2>5. \A x \in 1..Len(L) : On(L[x]) \subseteq W \/ \E y \in 1..Len(M) : M[y] = L[x]
    <3> SUFFICES ASSUME NEW x \in 1..Len(L), x \notin gone
                 PROVE  \E y \in 1..Len(M) : M[y] = L[x]
      BY <1>4
    <3>1. PICK y \in 1..Len(M) : g[y] = x
      BY <1>5
    <3> QED BY <1>5, <3>1
  <2> QED BY <1>5, <2>2, <2>3, <2>4, <2>5 DEF Via
<1>7. Descends(L, Len(L), M, W)
  <2>1. Len(L) \in Nat /\ Len(L) <= Len(L) /\ {} \subseteq W /\ Descends(L, Len(L), L, {})
    BY <1>1, DescendsSelf
  <2>2. L \in Seq(PosixLock) /\ M \in Seq(PosixLock)
    BY <1>1, <1>3
  <2> HIDE DEF L
  <2> DEFINE k == Len(L)
             O == L
             Z == {}
  <2>3. /\ k \in Nat /\ k <= Len(L) /\ O \in Seq(PosixLock) /\ Descends(L, k, O, Z)
        /\ Z \subseteq W /\ Via(O, M, W, g)
    BY <1>6, <2>1, <2>2
  <2> HIDE DEF k, O, Z
  <2>4. Descends(L, k, M, W)
    BY <2>2, <2>3, DescendsVia
  <2> QED BY <2>4 DEF k
<1>8. Links(L, M, W, p)
  <2>1. DOMAIN L = 1..Len(L) /\ DOMAIN M = 1..Len(M)
    BY <1>1, <1>3
  <2> QED BY <1>7, <2>1 DEF Descends, Links
<1>9. \A x \in DOMAIN M : p \notin On(M[x])
  <2> SUFFICES ASSUME NEW x \in DOMAIN M, p \in On(M[x])
               PROVE  FALSE
    OBVIOUS
  <2>1. x \in 1..Len(M)
    BY <1>3
  <2>2. g[x] \in DOMAIN L /\ p \in On(L[g[x]])
    BY <1>1, <1>5, <2>1
  <2> QED BY <1>1, <2>2 DEF Inv, Waiters
<1>10. Others(p, W) /\ pc'[p] = "user" /\ req'[p] = None
  BY <1>1, <1>2 DEF Others, TypeOK, PcType, ReqType, P!Wake
<1>11. M = << >> \/ flock_list = << >>
  <2>1. CASE L = << >>
    <3>1. \A i \in 1..Len(M) : FALSE
      BY <1>5, <2>1
    <3> QED BY <1>3, <3>1
  <2> QED BY <2>1 DEF Inv, Compatible
<1>12. sig' \in [Procs -> BOOLEAN]
  BY <1>1, <1>2 DEF TypeOK
<1> QED BY <1>1, <1>2, <1>3, <1>8, <1>9, <1>10, <1>11, <1>12, PosixReturn

LEMMA ModeStep ==
    ASSUME Inv, Posix(P!ChangeMode)
    PROVE  Inv'
<1>1. /\ posix_list' = posix_list /\ flock_list' = flock_list /\ pc' = pc /\ req' = req
      /\ sig' = sig /\ dying' = dying /\ open' = open /\ mand' \in BOOLEAN
  BY DEF Posix, P!ChangeMode
<1>2. TypeOK'
  BY <1>1 DEF Inv, TypeOK
<1> QED BY <1>1, <1>2 DEF Inv, Waiters, Asks, SleepsForReason, NoCircle, Compatible

LEMMA SignalStep ==
    ASSUME Inv, NEW p \in Procs, Signal(p)
    PROVE  Inv'
<1>1. /\ posix_list' = posix_list /\ flock_list' = flock_list /\ req' = req
      /\ dying' = dying /\ open' = open /\ mand' = mand
      /\ sig' = [sig EXCEPT ![p] = TRUE]
      /\ pc' = [pc EXCEPT ![p] = IF pc[p] = "asleep" THEN "woken" ELSE pc[p]]
  BY DEF Signal
<1>2. /\ PcType /\ ReqType /\ sig \in [Procs -> BOOLEAN]
      /\ posix_list \in Seq(PosixLock) /\ Once(posix_list) /\ Once(flock_list)
  BY DEF Inv, TypeOK, PcType, ReqType
<1>3. sig' \in [Procs -> BOOLEAN]
  BY <1>1, <1>2
<1>4. /\ PcType' /\ ReqType' /\ pc'[p] = (IF pc[p] = "asleep" THEN "woken" ELSE pc[p])
      /\ \A q \in Procs \ {p} : pc'[q] = pc[q]
  BY <1>1, <1>2 DEF PcType, ReqType
<1>5. Others(p, {})
  BY <1>1, <1>4 DEF Others
<1>6. TypeOK'
  BY <1>1, <1>3, <1>4, <1>5, TypeKept DEF Inv, TypeOK
<1>7. /\ Links(posix_list, posix_list', {}, p) /\ FLinks(flock_list, flock_list', {}, p)
      /\ DyingKept(dying, dying', p)
  BY <1>1, <1>2, LinksSame, FLinksSame DEF DyingKept
<1>8. pc'[p] # "asleep"
  BY <1>4
<1>9. \A x \in DOMAIN posix_list' : p \in On(posix_list'[x]) =>
         pc'[p] \in {"asleep", "woken"} /\ req'[p].op # "flock"
  BY <1>1, <1>4 DEF Inv, Waiters
<1>10. \A x \in DOMAIN flock_list' : p \in On(flock_list'[x]) =>
         pc'[p] \in {"asleep", "woken"} /\ req'[p].op = "flock"
  BY <1>1, <1>4 DEF Inv, Waiters
<1>11. Once(posix_list)' /\ Once(flock_list)' /\ Waiters' /\ SleepsForReason'
  BY <1>5, <1>6, <1>7, <1>8, <1>9, <1>10, SleepersKept
<1> QED BY <1>1, <1>6, <1>11 DEF Inv, Asks, NoCircle, Compatible

----------------------------------------------------------------------------
(* The flock calls.                                                         *)

\* Two files hold the lock only if they share it.
Exclusive(list) ==
    \A i, j \in DOMAIN list : list[i].file # list[j].file => list[i].type = "F_RDLCK"

\* p is on no block list.
OffList(list, p) == \A x \in DOMAIN list : p \notin On(list[x])

\* The list the step has come to: W have lost the lock they waited for.
Reached(list, p, W) ==
    /\ list \in Seq(FlockLock) /\ FLinks(flock_list, list, W, p) /\ Exclusive(list)
    /\ OffList(list, p)
    /\ flock_list = << >> => list = << >>

\* The block lists of deleted locks after a step of p, which has none.
DyingStep(p) ==
    /\ dying' \in [Procs -> Seq(Procs)] /\ (\A q \in Procs : IsInjective(dying'[q]))
    /\ DyingKept(dying, dying', p)
    /\ \A q \in Procs : dying'[q] # << >> => dying[q] # << >>
    /\ dying'[p] = << >>

LEMMA FlockFields ==
    ASSUME NEW f \in FlockLock
    PROVE  /\ f.file \in {F!filp(p) : p \in Procs} /\ f.type \in {"F_RDLCK", "F_WRLCK"}
           /\ f.block \in Seq(Procs)
  BY DEF FlockLock

LEMMA KeepReached ==
    ASSUME Inv, NEW p, OffList(flock_list, p), NEW I, NEW W,
           \A i \in DOMAIN flock_list : i \in I => On(flock_list[i]) \subseteq W
    PROVE  Reached(Keep(flock_list, I), p, W)
<1> DEFINE L == flock_list
           M == Keep(L, I)
<1>1. L \in Seq(FlockLock) /\ Once(L) /\ Exclusive(L)
  BY DEF Inv, TypeOK, Compatible, Exclusive
<1>2. M \in Seq(FlockLock) /\ \E g : Picks(g, M, L, I)
  <2> HIDE DEF L
  <2> QED BY <1>1, KeepFacts
<1> HIDE DEF M
<1>3. PICK g : Picks(g, M, L, I)
  BY <1>2
<1>4. /\ g \in [1..Len(M) -> 1..Len(L)]
      /\ \A i \in 1..Len(M) : g[i] \notin I /\ M[i] = L[g[i]]
      /\ \A i, j \in 1..Len(M) : i < j => g[i] < g[j]
      /\ \A k \in 1..Len(L) : k \notin I => \E i \in 1..Len(M) : g[i] = k
  BY <1>3 DEF Picks
<1>5. /\ DOMAIN L = 1..Len(L) /\ DOMAIN M = 1..Len(M) /\ Len(L) \in Nat /\ Len(M) \in Nat
  BY <1>1, <1>2
<1>6. \A i \in DOMAIN M : g[i] \in DOMAIN L /\ g[i] \in Int /\ M[i] = L[g[i]]
  BY <1>4, <1>5
<1>7. \A y, z \in DOMAIN M : g[y] = g[z] => y = z
  <2> SUFFICES ASSUME NEW y \in DOMAIN M, NEW z \in DOMAIN M, g[y] = g[z], y # z
               PROVE  FALSE
    OBVIOUS
  <2>1. y < z \/ z < y
    BY <1>5
  <2>2. g[y] < g[z] \/ g[z] < g[y]
    BY <1>4, <1>5, <2>1
  <2> QED BY <1>6, <2>2
<1>8. Once(M)
  <2>1. \A x \in DOMAIN M : IsInjective(M[x].block)
    BY <1>1, <1>6 DEF Once
  <2>2. ASSUME NEW x \in DOMAIN M, NEW y \in DOMAIN M, NEW q \in On(M[x]), q \in On(M[y])
        PROVE  x = y
    <3>1. g[x] = g[y]
      BY <1>1, <1>6, <2>2 DEF Once
    <3> QED BY <1>7, <3>1
  <2> QED BY <2>1, <2>2 DEF Once
<1>9. FLinks(L, M, W, p)
  <2>1. ASSUME NEW x \in DOMAIN M, NEW q \in On(M[x])
        PROVE  \E i \in DOMAIN L : q \in On(L[i])
    BY <1>6, <2>1
  <2>2. ASSUME NEW i \in DOMAIN L, NEW q \in On(L[i]), q \notin W
        PROVE  \E x \in DOMAIN M : q \in On(M[x]) /\ M[x].file = L[i].file /\ M[x].type = L[i].type
    <3>1. i \notin I
      BY <2>2
    <3>2. PICK x \in DOMAIN M : g[x] = i
      BY <1>4, <1>5, <3>1
    <3>3. M[x] = L[i]
      BY <1>6, <3>2
    <3> QED BY <2>2, <3>3
  <2> QED BY <1>8, <2>1, <2>2 DEF FLinks
<1>10. Exclusive(M)
  BY <1>1, <1>6 DEF Exclusive
<1>11. OffList(M, p)
  BY <1>6 DEF OffList
<1>12. L = << >> => M = << >>
  <2> SUFFICES ASSUME L = << >> PROVE M = << >>
    OBVIOUS
  <2>1. \A i \in 1..Len(M) : FALSE
    BY <1>4
  <2> QED BY <1>2, <2>1
<1> QED BY <1>2, <1>9, <1>10, <1>11, <1>12 DEF Reached, M

LEMMA DeleteReached ==
    ASSUME Inv, NEW p
    PROVE  Reached(F!DeleteBlock(flock_list, p), p, {})
<1> DEFINE L == flock_list
           Cut(i) == [L[i] EXCEPT !.block = RemoveFirst(L[i].block, p)]
           M == [i \in DOMAIN L |-> Cut(i)]
<1>1. L \in Seq(FlockLock) /\ Once(L) /\ Exclusive(L)
  BY DEF Inv, TypeOK, Compatible, Exclusive
<1>2. F!DeleteBlock(L, p) = M
  BY SameOperators, Zenon DEF F!DeleteBlock
<1>3. ASSUME NEW i \in DOMAIN L
      PROVE  /\ Cut(i) \in FlockLock /\ Cut(i).file = L[i].file /\ Cut(i).type = L[i].type
             /\ IsInjective(Cut(i).block) /\ On(Cut(i)) = On(L[i]) \ {p}
  <2> DEFINE b == RemoveFirst(L[i].block, p)
  <2>1. L[i] \in FlockLock /\ L[i].block \in Seq(Procs) /\ IsInjective(L[i].block)
    BY <1>1, <1>3, FlockFields DEF Once
  <2>2. b \in Seq(Procs) /\ IsInjective(b) /\ ToSet(b) = ToSet(L[i].block) \ {p}
    BY <2>1, RemoveFacts
  <2> HIDE DEF b
  <2>3. LET g == [L[i] EXCEPT !.block = b]
        IN  g \in FlockLock /\ g.file = L[i].file /\ g.type = L[i].type /\ g.block = b
    BY <2>1, <2>2 DEF FlockLock
  <2> QED BY <2>2, <2>3 DEF b, On
<1> HIDE DEF Cut
<1>4. M \in Seq(FlockLock) /\ DOMAIN M = DOMAIN L /\ \A i \in DOMAIN L : M[i] = Cut(i)
  BY <1>1, <1>3
<1> HIDE DEF M
<1>5. Once(M)
  BY <1>1, <1>3, <1>4 DEF Once
<1>6. FLinks(L, M, {}, p)
  BY <1>3, <1>4, <1>5 DEF FLinks
<1>7. Exclusive(M) /\ OffList(M, p)
  BY <1>1, <1>3, <1>4 DEF Exclusive, OffList
<1>8. L = << >> => M = << >>
  BY <1>4
<1> QED BY <1>2, <1>4, <1>6, <1>7, <1>8 DEF Reached

\* A step of p in a flock call, with the list as it is then.
LEMMA FlockStep ==
    ASSUME Inv, NEW p \in Procs, NEW V, NEW W, Others(p, V), OffList(posix_list, p),
           flock_list' \in Seq(FlockLock), FLinks(flock_list, flock_list', W, p), Exclusive(flock_list'),
           posix_list = << >> \/ flock_list' = << >>,
           \A q \in W : q # p => q \in V \/ OnDying(q, dying'), DyingKept(dying, dying', p),
           dying' \in [Procs -> Seq(Procs)], \A q \in Procs : IsInjective(dying'[q]),
           \A q \in Procs \ {p} : dying'[q] # << >> => dying[q] # << >>,
           sig' \in [Procs -> BOOLEAN], open' \in [Procs -> BOOLEAN],
           posix_list' = posix_list, mand' = mand,
           \A x \in DOMAIN flock_list' : p \in On(flock_list'[x]) => pc'[p] = "asleep",
           pc'[p] = "asleep" => Reason(p, posix_list', flock_list', req', dying'),
           pc'[p] = "user" <=> req'[p] = None, dying'[p] # << >> => pc'[p] = "yield",
           req'[p] # None => req'[p] \in F!Requests /\ req'[p].type # "F_UNLCK"
    PROVE  Inv'
<1>1. posix_list \in Seq(PosixLock) /\ mand \in BOOLEAN /\ TypeOK /\ Once(posix_list)
  BY DEF Inv, TypeOK
<1>2. req'[p] # None => req'[p].op = "flock"
  BY RequestKinds
<1>3. TypeOK'
  BY <1>1, <1>2, TypeKept
<1>4. Links(posix_list, posix_list', W, p)
  BY <1>1, LinksSame
<1>5. \A x \in DOMAIN posix_list' : p \notin On(posix_list'[x])
  BY DEF OffList
<1>6. \A x \in DOMAIN flock_list' : p \in On(flock_list'[x]) =>
         pc'[p] \in {"asleep", "woken"} /\ req'[p].op = "flock"
  BY <1>2
<1>7. Once(posix_list)' /\ Once(flock_list)' /\ Waiters' /\ SleepsForReason'
  BY <1>3, <1>4, <1>5, <1>6, SleepersKept
<1>8. NoCircle'
  BY DEF Inv, NoCircle
<1>9. Compatible'
  BY DEF Compatible, Exclusive
<1>10. Asks'
  <2>1. \A q \in Procs : req'[q] \in F!Requests => req'[q].type # "F_UNLCK"
    BY RequestKinds DEF Inv, Asks, Others
  <2> QED BY <2>1 DEF Asks
<1> QED BY <1>3, <1>7, <1>8, <1>9, <1>10 DEF Inv

\* The call ends with the list it has come to.
LEMMA FlockReturns ==
    ASSUME Inv, NEW p \in Procs, NEW W, Reached(flock_list', p, W), F!Return(p, W), DyingStep(p),
           OffList(posix_list, p), UNCHANGED <<posix_list, mand, open>>
    PROVE  Inv'
<1>1. /\ Others(p, W) /\ pc'[p] = "user" /\ req'[p] = None /\ sig' \in [Procs -> BOOLEAN]
  BY ReturnFacts DEF Inv
<1>2. /\ flock_list' \in Seq(FlockLock) /\ FLinks(flock_list, flock_list', W, p)
      /\ Exclusive(flock_list') /\ OffList(flock_list', p)
      /\ posix_list = << >> \/ flock_list' = << >>
  BY DEF Reached, Inv, Compatible
<1>3. open' \in [Procs -> BOOLEAN]
  BY DEF Inv, TypeOK
<1>4. \A x \in DOMAIN flock_list' : p \in On(flock_list'[x]) => pc'[p] = "asleep"
  BY <1>2 DEF OffList
<1> QED BY <1>1, <1>2, <1>3, <1>4, FlockStep DEF DyingStep

\* The new lock goes to the head of the list.
LEMMA PrependFacts ==
    ASSUME NEW p, NEW list, Reached(list, p, {}), NEW g \in FlockLock, g.block = << >>,
           \A x \in DOMAIN list :
              list[x].file # g.file => list[x].type = "F_RDLCK" /\ g.type = "F_RDLCK"
    PROVE  /\ <<g>> \o list \in Seq(FlockLock) /\ FLinks(flock_list, <<g>> \o list, {}, p)
           /\ Exclusive(<<g>> \o list) /\ OffList(<<g>> \o list, p)
<1> DEFINE N == <<g>> \o list
           n == Len(list)
<1>1. /\ list \in Seq(FlockLock) /\ FLinks(flock_list, list, {}, p) /\ Exclusive(list)
      /\ OffList(list, p)
  BY DEF Reached
<1>2. /\ N \in Seq(FlockLock) /\ DOMAIN N = 1..(n + 1) /\ DOMAIN list = 1..n /\ n \in Nat
      /\ N[1] = g /\ \A x \in 1..n : N[x + 1] = list[x]
  <2>1. <<g>> \in Seq(FlockLock) /\ Len(<<g>>) = 1 /\ <<g>>[1] = g
    OBVIOUS
  <2> DEFINE h == <<g>>
  <2>2. h \in Seq(FlockLock) /\ Len(h) = 1 /\ h[1] = g
    BY <2>1
  <2> HIDE DEF h
  <2>3. /\ h \o list \in Seq(FlockLock) /\ Len(h \o list) = Len(h) + Len(list)
        /\ \A x \in 1..Len(h) : (h \o list)[x] = h[x]
        /\ \A x \in 1..Len(list) : (h \o list)[x + Len(h)] = list[x]
    <3>1. h \in Seq(FlockLock) /\ list \in Seq(FlockLock)
      BY <1>1, <2>2
    <3> QED BY <3>1, ConcatFacts
  <2>4. N = h \o list
    BY DEF h
  <2> HIDE DEF N
  <2>5. N \in Seq(FlockLock) /\ Len(N) = n + 1 /\ n \in Nat
    BY <1>1, <2>2, <2>3, <2>4
  <2> QED BY <1>1, <2>2, <2>3, <2>4, <2>5
<1> HIDE DEF N, n
<1>3. \A x \in 1..(n + 1) : x = 1 \/ (x - 1 \in 1..n /\ N[x] = list[x - 1])
  <2> SUFFICES ASSUME NEW x \in 1..(n + 1), x # 1
               PROVE  x - 1 \in 1..n /\ N[x] = list[x - 1]
    OBVIOUS
  <2>1. x - 1 \in 1..n /\ (x - 1) + 1 = x
    BY <1>2
  <2> QED BY <1>2, <2>1
<1>4. On(g) = {} /\ IsInjective(g.block)
  BY DEF On, ToSet, IsInjective
<1>5. Once(N)
  <2>1. \A x \in DOMAIN N : IsInjective(N[x].block)
    <3>1. \A x \in DOMAIN list : IsInjective(list[x].block)
      BY <1>1 DEF FLinks, Once
    <3>2. ASSUME NEW x \in DOMAIN N PROVE IsInjective(N[x].block)
      <4>1. CASE x = 1
        BY <1>2, <1>4, <4>1
      <4>2. CASE x # 1
        <5>1. x - 1 \in DOMAIN list /\ N[x] = list[x - 1]
          BY <1>2, <1>3, <3>2, <4>2
        <5> QED BY <3>1, <5>1
      <4> QED BY <4>1, <4>2
    <3> QED BY <3>2
  <2>2. ASSUME NEW x \in DOMAIN N, NEW y \in DOMAIN N, NEW q \in On(N[x]), q \in On(N[y])
        PROVE  x = y
    <3>1. x # 1 /\ y # 1
      BY <1>2, <1>4, <2>2
    <3>2. /\ x - 1 \in DOMAIN list /\ q \in On(list[x - 1])
          /\ y - 1 \in DOMAIN list /\ q \in On(list[y - 1])
      BY <1>2, <1>3, <2>2, <3>1
    <3>3. x - 1 = y - 1
      BY <1>1, <3>2 DEF FLinks, Once
    <3> QED BY <1>2, <3>3
  <2> QED BY <2>1, <2>2 DEF Once
<1>6. FLinks(flock_list, N, {}, p)
  <2>1. ASSUME NEW x \in DOMAIN N, NEW q \in On(N[x]), q # p
        PROVE  \E i \in DOMAIN flock_list : q \in On(flock_list[i])
    <3>1. x - 1 \in DOMAIN list /\ q \in On(list[x - 1])
      BY <1>2, <1>3, <1>4, <2>1
    <3> QED BY <1>1, <2>1, <3>1 DEF FLinks
  <2>2. ASSUME NEW i \in DOMAIN flock_list, NEW q \in On(flock_list[i]), q # p
        PROVE  \E x \in DOMAIN N :
                  q \in On(N[x]) /\ N[x].file = flock_list[i].file /\ N[x].type = flock_list[i].type
    <3>1. PICK y \in DOMAIN list : /\ q \in On(list[y]) /\ list[y].file = flock_list[i].file
                                   /\ list[y].type = flock_list[i].type
      BY <1>1, <2>2 DEF FLinks
    <3>2. y + 1 \in DOMAIN N /\ N[y + 1] = list[y]
      BY <1>2
    <3> QED BY <3>1, <3>2
  <2> QED BY <1>5, <2>1, <2>2 DEF FLinks
<1>7. Exclusive(N)
  <2> SUFFICES ASSUME NEW x \in DOMAIN N, NEW y \in DOMAIN N, N[x].file # N[y].file
               PROVE  N[x].type = "F_RDLCK"
    BY DEF Exclusive
  <2>1. CASE x = 1
    BY <1>2, <1>3, <2>1
  <2>2. CASE x # 1 /\ y = 1
    <3>1. x - 1 \in DOMAIN list /\ N[x] = list[x - 1]
      BY <1>2, <1>3, <2>2
    <3>2. N[y] = g
      BY <1>2, <2>2
    <3> QED BY <3>1, <3>2
  <2>3. CASE x # 1 /\ y # 1
    <3>1. x - 1 \in DOMAIN list /\ N[x] = list[x - 1]
      BY <1>2, <1>3, <2>3
    <3>2. y - 1 \in DOMAIN list /\ N[y] = list[y - 1]
      BY <1>2, <1>3, <2>3
    <3> QED BY <1>1, <3>1, <3>2 DEF Exclusive
  <2> QED BY <2>1, <2>2, <2>3
<1>8. OffList(N, p)
  BY <1>1, <1>2, <1>3, <1>4 DEF OffList
<1> QED BY <1>2, <1>6, <1>7, <1>8 DEF N

\* p goes to the block list of the lock at i.
Inserted(list, i, p) == [list EXCEPT ![i].block = Append(@, p)]

LEMMA FlockInsertFacts ==
    ASSUME NEW p \in Procs, NEW list, Reached(list, p, {}), NEW i \in DOMAIN list, NEW N,
           N = Inserted(list, i, p)
    PROVE  /\ N \in Seq(FlockLock) /\ FLinks(flock_list, N, {}, p) /\ Exclusive(N)
           /\ i \in DOMAIN N /\ N[i].file = list[i].file /\ N[i].type = list[i].type
           /\ p \in On(N[i])
<1>1. /\ list \in Seq(FlockLock) /\ FLinks(flock_list, list, {}, p) /\ Exclusive(list)
      /\ OffList(list, p)
  BY DEF Reached
<1> DEFINE b == Append(list[i].block, p)
           g == [list[i] EXCEPT !.block = b]
<1>2. /\ list[i] \in FlockLock /\ list[i].block \in Seq(Procs) /\ IsInjective(list[i].block)
      /\ p \notin ToSet(list[i].block)
  BY <1>1, FlockFields DEF OffList, On, FLinks, Once
<1>3. b \in Seq(Procs) /\ IsInjective(b) /\ ToSet(b) = ToSet(list[i].block) \cup {p}
  BY <1>2, AppendFacts
<1>4. N = [list EXCEPT ![i] = g]
  BY DEF Inserted
<1> HIDE DEF b
<1>5. /\ g \in FlockLock /\ g.file = list[i].file /\ g.type = list[i].type
      /\ g.block = b
  BY <1>2, <1>3 DEF FlockLock
<1> HIDE DEF g
<1>6. On(g) = On(list[i]) \cup {p} /\ IsInjective(g.block)
  BY <1>3, <1>5 DEF On
<1>7. /\ N \in Seq(FlockLock) /\ DOMAIN N = DOMAIN list /\ N[i] = g
      /\ \A x \in DOMAIN list : x # i => N[x] = list[x]
  <2>1. DOMAIN list = 1..Len(list) /\ i \in 1..Len(list)
    BY <1>1
  <2>2. N \in Seq(FlockLock) /\ Len(N) = Len(list)
    BY <1>1, <1>4, <1>5, <2>1
  <2>3. N[i] = g /\ \A x \in 1..Len(list) : x # i => N[x] = list[x]
    BY <1>1, <1>4, <2>1
  <2> QED BY <2>1, <2>2, <2>3
<1>8. /\ \A x \in DOMAIN list : /\ N[x].file = list[x].file /\ N[x].type = list[x].type
                                /\ IsInjective(N[x].block)
      /\ \A x \in DOMAIN list : On(N[x]) = On(list[x]) \cup (IF x = i THEN {p} ELSE {})
  BY <1>1, <1>5, <1>6, <1>7 DEF FLinks, Once
<1>9. Once(N)
  <2>1. ASSUME NEW x \in DOMAIN list, NEW y \in DOMAIN list, NEW q \in On(N[x]), q \in On(N[y])
        PROVE  x = y
    <3>1. CASE q = p
      BY <1>1, <1>8, <2>1, <3>1 DEF OffList
    <3>2. CASE q # p
      <4>1. q \in On(list[x]) /\ q \in On(list[y])
        BY <1>8, <2>1, <3>2
      <4> QED BY <1>1, <4>1 DEF FLinks, Once
    <3> QED BY <3>1, <3>2
  <2> QED BY <1>7, <1>8, <2>1 DEF Once
<1>10. FLinks(flock_list, N, {}, p)
  <2>1. ASSUME NEW x \in DOMAIN N, NEW q \in On(N[x]), q # p
        PROVE  \E k \in DOMAIN flock_list : q \in On(flock_list[k])
    <3>1. x \in DOMAIN list /\ q \in On(list[x])
      BY <1>7, <1>8, <2>1
    <3> QED BY <1>1, <2>1, <3>1 DEF FLinks
  <2>2. ASSUME NEW k \in DOMAIN flock_list, NEW q \in On(flock_list[k]), q # p
        PROVE  \E x \in DOMAIN N :
                  q \in On(N[x]) /\ N[x].file = flock_list[k].file /\ N[x].type = flock_list[k].type
    <3>1. PICK y \in DOMAIN list : /\ q \in On(list[y]) /\ list[y].file = flock_list[k].file
                                   /\ list[y].type = flock_list[k].type
      BY <1>1, <2>2 DEF FLinks
    <3> QED BY <1>7, <1>8, <3>1
  <2> QED BY <1>9, <2>1, <2>2 DEF FLinks
<1>11. Exclusive(N)
  BY <1>1, <1>7, <1>8 DEF Exclusive
<1> QED BY <1>6, <1>7, <1>8, <1>10, <1>11

\* From repeat on.
LEMMA RepeatStep ==
    ASSUME Inv, NEW p \in Procs, NEW r \in F!Requests, r.type # "F_UNLCK", NEW s, NEW list,
           Reached(list, p, {}), F!Repeat(p, r, s, list), DyingStep(p), OffList(posix_list, p),
           UNCHANGED <<posix_list, mand, open>>
    PROVE  Inv'
<1> DEFINE C == {i \in DOMAIN list : F!flock_locks_conflict(p, r, list[i])}
           new == [file |-> F!filp(p), type |-> r.type, block |-> << >>]
           i == F!Min(C)
<1>0. list \in Seq(FlockLock)
  BY DEF Reached
<1>1. \/ flock_list' = list /\ F!Return(p, {})
      \/ posix_list = << >> /\ C = {} /\ flock_list' = <<new>> \o list /\ F!Return(p, {})
      \/ /\ posix_list = << >> /\ C # {}
         /\ flock_list' = [list EXCEPT ![i].block = Append(@, p)] /\ F!Sleeps(p, r)
  BY DEF F!Repeat
<1>2. r.op = "flock" /\ r # None /\ r.type \in {"F_RDLCK", "F_WRLCK"}
  BY RequestKinds
<1>3. open' \in [Procs -> BOOLEAN] /\ posix_list' = posix_list /\ mand' = mand
  BY DEF Inv, TypeOK
<1>4. CASE flock_list' = list /\ F!Return(p, {})
  BY <1>4, FlockReturns
<1>5. CASE posix_list = << >> /\ C = {} /\ flock_list' = <<new>> \o list /\ F!Return(p, {})
  <2>1. new \in FlockLock /\ new.block = << >> /\ new.file = F!filp(p) /\ new.type = r.type
    <3>1. << >> \in Seq(Procs)
      OBVIOUS
    <3> QED BY <1>2, <3>1 DEF FlockLock
  <2>2. \A x \in DOMAIN list :
           list[x].file # new.file => list[x].type = "F_RDLCK" /\ new.type = "F_RDLCK"
    <3> SUFFICES ASSUME NEW x \in DOMAIN list, list[x].file # F!filp(p)
                 PROVE  list[x].type = "F_RDLCK" /\ r.type = "F_RDLCK"
      BY <2>1
    <3>1. ~F!flock_locks_conflict(p, r, list[x])
      BY <1>5
    <3>2. list[x].type \in {"F_RDLCK", "F_WRLCK"}
      BY <1>0, FlockFields
    <3> QED BY <1>2, <3>1, <3>2 DEF F!flock_locks_conflict
  <2> HIDE DEF new
  <2>3. /\ flock_list' \in Seq(FlockLock) /\ FLinks(flock_list, flock_list', {}, p)
        /\ Exclusive(flock_list') /\ OffList(flock_list', p)
    BY <1>5, <2>1, <2>2, PrependFacts
  <2>4. /\ Others(p, {}) /\ pc'[p] = "user" /\ req'[p] = None /\ sig' \in [Procs -> BOOLEAN]
    BY <1>5, ReturnFacts DEF Inv
  <2>5. \A x \in DOMAIN flock_list' : p \in On(flock_list'[x]) => pc'[p] = "asleep"
    BY <2>3 DEF OffList
  <2> QED BY <1>3, <1>5, <2>3, <2>4, <2>5, FlockStep DEF DyingStep
<1>6. CASE /\ posix_list = << >> /\ C # {}
           /\ flock_list' = [list EXCEPT ![i].block = Append(@, p)] /\ F!Sleeps(p, r)
  <2>1. i \in DOMAIN list /\ F!flock_locks_conflict(p, r, list[i])
    <3>1. C \in SUBSET Nat
      BY <1>0
    <3>2. \A x \in C : x \in DOMAIN list /\ F!flock_locks_conflict(p, r, list[x])
      OBVIOUS
    <3> HIDE DEF C
    <3>3. Min(C) \in C
      BY <1>6, <3>1, MinFacts
    <3>4. F!Min(C) = Min(C)
      BY SameOperators
    <3> QED BY <3>2, <3>3, <3>4
  <2> HIDE DEF i
  <2>2. /\ flock_list' \in Seq(FlockLock) /\ FLinks(flock_list, flock_list', {}, p)
        /\ Exclusive(flock_list') /\ i \in DOMAIN flock_list'
        /\ flock_list'[i].file = list[i].file /\ flock_list'[i].type = list[i].type
        /\ p \in On(flock_list'[i])
    <3>1. flock_list' = Inserted(list, i, p)
      BY <1>6 DEF Inserted
    <3> QED BY <2>1, <3>1, FlockInsertFacts
  <2>3. /\ Others(p, {}) /\ pc'[p] = "asleep" /\ req'[p] = r /\ sig' \in [Procs -> BOOLEAN]
    <3>1. /\ PcType /\ ReqType /\ sig \in [Procs -> BOOLEAN]
      BY DEF Inv, TypeOK, PcType, ReqType
    <3>2. pc' = [pc EXCEPT ![p] = "asleep"] /\ req' = [req EXCEPT ![p] = r] /\ sig' = sig
      BY <1>6 DEF F!Sleeps
    <3>3. PcType' /\ pc'[p] = "asleep" /\ \A q \in Procs \ {p} : pc'[q] = pc[q]
      BY <3>1, <3>2 DEF PcType
    <3>4. ReqType' /\ req'[p] = r /\ \A q \in Procs \ {p} : req'[q] = req[q]
      BY <3>1, <3>2 DEF ReqType
    <3> QED BY <3>1, <3>2, <3>3, <3>4 DEF Others
  <2>4. Reason(p, posix_list', flock_list', req', dying')
    <3>1. F!flock_locks_conflict(p, r, flock_list'[i])
      BY <2>1, <2>2 DEF F!flock_locks_conflict
    <3> QED BY <1>2, <2>2, <2>3, <3>1 DEF Reason
  <2> QED BY <1>2, <1>3, <1>6, <2>2, <2>3, <2>4, FlockStep DEF DyingStep
<1> QED BY <1>1, <1>4, <1>5, <1>6

\* Who is in no sleep is on no block list.
LEMMA OffLists ==
    ASSUME Inv, NEW p \in Procs
    PROVE  /\ pc[p] \in {"user", "yield"} => OffList(posix_list, p) /\ OffList(flock_list, p)
           /\ req[p].op = "flock" => OffList(posix_list, p)
  BY DEF Inv, Waiters, OffList

LEMMA DyingSame ==
    ASSUME Inv, NEW p, dying[p] = << >>, dying' = dying
    PROVE  DyingStep(p)
  BY DEF Inv, TypeOK, DyingStep, DyingKept

LEMMA SearchStep ==
    ASSUME Inv, NEW p \in Procs, NEW r \in F!Requests, r.type # "F_UNLCK", NEW s \in BOOLEAN,
           pc[p] \in {"user", "yield"}, dying[p] = << >>, F!search(p, r, s),
           UNCHANGED <<posix_list, mand, open>>
    PROVE  Inv'
<1> DEFINE L == flock_list
           halt == {i \in F!Own(p) : L[i].type = r.type \/ L[i].block # << >>}
           first == F!Min(halt)
           passed == {i \in F!Own(p) : halt # {} => i < first}
<1>1. L \in Seq(FlockLock) /\ DOMAIN L = 1..Len(L) /\ Once(L)
  BY DEF Inv, TypeOK
<1>2. OffList(posix_list, p) /\ OffList(L, p)
  BY OffLists
<1>3. F!Own(p) \subseteq DOMAIN L
  BY DEF F!Own
<1>4. halt # {} => first \in halt /\ \A y \in halt : first <= y
  <2>1. halt \in SUBSET Nat
    BY <1>1, <1>3
  <2> HIDE DEF halt
  <2>2. halt # {} => Min(halt) \in halt /\ \A y \in halt : Min(halt) <= y
    BY <2>1, MinFacts
  <2> QED BY <2>2, SameOperators
<1>5. \A i \in passed : i \in DOMAIN L /\ On(L[i]) = {}
  <2> SUFFICES ASSUME NEW i \in passed
               PROVE  i \in DOMAIN L /\ L[i].block = << >>
    BY DEF On, ToSet
  <2>1. i \in F!Own(p) /\ i \in 1..Len(L) /\ (halt # {} => i < first)
    BY <1>1, <1>3
  <2>2. halt # {} => first \in 1..Len(L)
    BY <1>1, <1>3, <1>4
  <2>3. i \notin halt
    <3> SUFFICES ASSUME i \in halt PROVE FALSE
      OBVIOUS
    <3> HIDE DEF halt, first, passed
    <3>1. i < first /\ first <= i /\ first \in 1..Len(L)
      BY <1>4, <2>1, <2>2
    <3> QED BY <1>1, <2>1, <3>1
  <2> QED BY <1>1, <2>1, <2>3
<1>6. \/ posix_list # << >> /\ F!Return(p, {}) /\ UNCHANGED <<flock_list, dying>>
      \/ F!Repeat(p, r, s, F!Keep(L, passed)) /\ dying' = dying
      \/ flock_list' = F!Keep(L, passed) /\ F!Return(p, {}) /\ dying' = dying
      \/ /\ halt # {}
         /\ flock_list' = F!Keep(L, passed \cup {first})
         /\ dying' = [dying EXCEPT ![p] = L[first].block]
         /\ pc' = [F!Wake({L[first].block[1]}) EXCEPT ![p] = "yield"]
         /\ req' = [req EXCEPT ![p] = r] /\ sig' = [sig EXCEPT ![p] = s]
  BY DEF F!search
<1>7. first \in DOMAIN L \/ halt = {}
  BY <1>3, <1>4
<1> HIDE DEF halt, first, passed
<1>8. Reached(Keep(L, passed), p, {})
  BY <1>2, <1>5, KeepReached
<1>9. \A I : F!Keep(L, I) = Keep(L, I)
  BY SameOperators
<1>10. CASE posix_list # << >> /\ F!Return(p, {}) /\ UNCHANGED <<flock_list, dying>>
  <2>1. Reached(flock_list', p, {})
    <3>1. Exclusive(L) /\ FLinks(L, L, {}, p)
      BY <1>1, FLinksSame DEF Inv, Compatible, Exclusive
    <3> QED BY <1>1, <1>2, <1>10, <3>1 DEF Reached
  <2>2. DyingStep(p)
    BY <1>10, DyingSame
  <2> QED BY <1>2, <1>10, <2>1, <2>2, FlockReturns
<1>11. CASE F!Repeat(p, r, s, F!Keep(L, passed)) /\ dying' = dying
  <2>1. DyingStep(p)
    BY <1>11, DyingSame
  <2> DEFINE list == Keep(L, passed)
  <2>2. Reached(list, p, {}) /\ F!Repeat(p, r, s, list)
    BY <1>8, <1>9, <1>11
  <2> HIDE DEF list
  <2> QED BY <1>2, <2>1, <2>2, RepeatStep
<1>12. CASE flock_list' = F!Keep(L, passed) /\ F!Return(p, {}) /\ dying' = dying
  <2>1. DyingStep(p)
    BY <1>12, DyingSame
  <2>2. Reached(flock_list', p, {})
    BY <1>8, <1>9, <1>12
  <2> QED BY <1>2, <1>12, <2>1, <2>2, FlockReturns
<1>13. CASE /\ halt # {}
            /\ flock_list' = F!Keep(L, passed \cup {first})
            /\ dying' = [dying EXCEPT ![p] = L[first].block]
            /\ pc' = [F!Wake({L[first].block[1]}) EXCEPT ![p] = "yield"]
            /\ req' = [req EXCEPT ![p] = r] /\ sig' = [sig EXCEPT ![p] = s]
  <2> DEFINE b == L[first].block
             V == {b[1]}
             W == On(L[first])
             w == [q \in Procs |-> IF q \in V /\ pc[q] = "asleep" THEN "woken" ELSE pc[q]]
             I == passed \cup {first}
  <2>1. /\ b \in Seq(Procs) /\ IsInjective(b) /\ W = ToSet(b)
    BY <1>1, <1>7, <1>13, FlockFields DEF Once, On
  <2>2. Reached(flock_list', p, W)
    <3>1. \A i \in DOMAIN flock_list : i \in I => On(flock_list[i]) \subseteq W
      BY <1>5
    <3> HIDE DEF I, W
    <3>2. Reached(Keep(L, I), p, W)
      BY <1>2, <3>1, KeepReached
    <3> QED BY <1>9, <1>13, <3>2 DEF I
  <2>3. /\ flock_list' \in Seq(FlockLock) /\ FLinks(flock_list, flock_list', W, p)
        /\ Exclusive(flock_list') /\ OffList(flock_list', p)
        /\ posix_list = << >> \/ flock_list' = << >>
    BY <2>2 DEF Reached, Inv, Compatible
  <2>4. /\ PcType /\ ReqType /\ sig \in [Procs -> BOOLEAN] /\ open \in [Procs -> BOOLEAN]
        /\ dying \in [Procs -> Seq(Procs)] /\ \A q \in Procs : IsInjective(dying[q])
    BY DEF Inv, TypeOK, PcType, ReqType
  <2>5. pc' = [w EXCEPT ![p] = "yield"]
    BY <1>13 DEF F!Wake
  <2>6. /\ dying' = [dying EXCEPT ![p] = b]
        /\ req' = [req EXCEPT ![p] = r] /\ sig' = [sig EXCEPT ![p] = s]
    BY <1>13
  <2>7. /\ w \in [Procs -> {"user", "asleep", "woken", "yield"}]
        /\ \A q \in Procs : w[q] = IF q \in V /\ pc[q] = "asleep" THEN "woken" ELSE pc[q]
    BY <2>4 DEF PcType
  <2> HIDE DEF b, V, W, w
  <2>8. PcType' /\ pc'[p] = "yield" /\ \A q \in Procs \ {p} : pc'[q] = w[q]
    BY <2>5, <2>7 DEF PcType
  <2>9. ReqType' /\ req'[p] = r /\ \A q \in Procs \ {p} : req'[q] = req[q]
    BY <2>4, <2>6 DEF ReqType
  <2>10. sig' \in [Procs -> BOOLEAN] /\ open' \in [Procs -> BOOLEAN]
    BY <2>4, <2>6
  <2>11. Others(p, V)
    BY <2>7, <2>8, <2>9 DEF Others
  <2>12. /\ dying' \in [Procs -> Seq(Procs)] /\ dying'[p] = b
         /\ \A q \in Procs \ {p} : dying'[q] = dying[q]
    BY <2>1, <2>4, <2>6
  <2>13. \A q \in W : q # p => q \in V \/ OnDying(q, dying')
    BY <2>1, <2>12 DEF OnDying
  <2>14. DyingKept(dying, dying', p)
    <3>1. ToSet(dying[p]) = {}
      BY DEF ToSet
    <3>2. ASSUME NEW t \in Procs
          PROVE  ToSet(dying[t]) \ {p} \subseteq ToSet(dying'[t])
      <4>1. CASE t = p
        BY <3>1, <4>1
      <4>2. CASE t # p
        BY <2>12, <4>2
      <4> QED BY <4>1, <4>2
    <3> QED BY <3>2 DEF DyingKept
  <2>15. \A q \in Procs : IsInjective(dying'[q])
    BY <2>1, <2>4, <2>12
  <2>16. r # None
    BY RequestKinds
  <2>17. \A x \in DOMAIN flock_list' : p \in On(flock_list'[x]) => pc'[p] = "asleep"
    BY <2>3 DEF OffList
  <2>18. \A q \in Procs \ {p} : dying'[q] # << >> => dying[q] # << >>
    BY <2>12
  <2> QED BY <1>2, <2>3, <2>8, <2>9, <2>10, <2>11, <2>12, <2>13, <2>14, <2>15, <2>16, <2>17,
             <2>18, FlockStep
<1> QED BY <1>6, <1>10, <1>11, <1>12, <1>13

LEMMA EmptyList ==
    ASSUME NEW S, NEW s \in Seq(S), ToSet(s) = {}
    PROVE  s = << >>
<1>1. \A i \in 1..Len(s) : s[i] \in ToSet(s)
  BY DEF ToSet
<1>2. \A i \in 1..Len(s) : FALSE
  BY <1>1
<1> QED BY <1>2

LEMMA FlockLockStep ==
    ASSUME Inv, NEW p \in Procs, NEW r \in F!Requests, NEW s \in BOOLEAN, F!flock_lock_file(p, r, s),
           UNCHANGED <<posix_list, mand>>
    PROVE  Inv'
<1>1. pc[p] = "user" /\ dying[p] = << >> /\ open' = open
  BY DEF Inv, TypeOK, F!flock_lock_file
<1>2. CASE r.type # "F_UNLCK"
  <2>1. F!search(p, r, s)
    BY <1>2 DEF F!flock_lock_file
  <2> QED BY <1>1, <1>2, <2>1, SearchStep
<1>3. CASE r.type = "F_UNLCK"
  <2> DEFINE gone == IF posix_list # << >> \/ F!Own(p) = {} THEN {} ELSE {F!Min(F!Own(p))}
             W == F!BlockedBy(gone)
  <2>1. flock_list' = F!Keep(flock_list, gone) /\ F!Return(p, W) /\ dying' = dying
    BY <1>3 DEF F!flock_lock_file, F!unlock
  <2>2. OffList(posix_list, p) /\ OffList(flock_list, p)
    BY <1>1, OffLists
  <2> HIDE DEF gone
  <2>3. \A i \in DOMAIN flock_list : i \in gone => On(flock_list[i]) \subseteq W
    BY SameOperators DEF F!BlockedBy, On
  <2> HIDE DEF W
  <2>4. Reached(Keep(flock_list, gone), p, W)
    BY <2>2, <2>3, KeepReached
  <2>5. Reached(flock_list', p, W)
    BY <2>1, <2>4, SameOperators
  <2>6. DyingStep(p)
    BY <1>1, <2>1, DyingSame
  <2> QED BY <1>1, <2>1, <2>2, <2>5, <2>6, FlockReturns
<1> QED BY <1>2, <1>3

\* A process in flock asks for a lock.
LEMMA FlockAsks ==
    ASSUME Inv, NEW p \in Procs, pc[p] # "user", req[p].op = "flock"
    PROVE  req[p] \in F!Requests /\ req[p].type # "F_UNLCK"
<1>1. req[p] # None /\ req[p] \in P!Requests \cup F!Requests \cup {None}
  BY DEF Inv, TypeOK
<1>2. req[p] \in F!Requests
  BY <1>1, RequestKinds
<1> QED BY <1>2 DEF Inv, Asks

LEMMA ResumeStep ==
    ASSUME Inv, NEW p \in Procs, req[p].op = "flock", F!Resume(p), UNCHANGED <<posix_list, mand>>
    PROVE  Inv'
<1>1. /\ pc[p] = "woken" /\ open' = open
      /\ F!Repeat(p, req[p], sig[p], F!DeleteBlock(flock_list, p))
      /\ dying' = [q \in Procs |-> RemoveFirst(dying[q], p)]
  BY SameOperators DEF F!Resume
<1>2. /\ dying \in [Procs -> Seq(Procs)] /\ (\A q \in Procs : IsInjective(dying[q]))
      /\ dying[p] = << >>
  BY <1>1 DEF Inv, TypeOK
<1>3. DyingStep(p)
  <2>1. \A q \in Procs : /\ dying'[q] = RemoveFirst(dying[q], p) /\ dying'[q] \in Seq(Procs)
                         /\ IsInjective(dying'[q]) /\ ToSet(dying'[q]) = ToSet(dying[q]) \ {p}
    <3> SUFFICES ASSUME NEW q \in Procs
                 PROVE  /\ dying'[q] = RemoveFirst(dying[q], p) /\ dying'[q] \in Seq(Procs)
                        /\ IsInjective(dying'[q]) /\ ToSet(dying'[q]) = ToSet(dying[q]) \ {p}
      OBVIOUS
    <3>1. dying[q] \in Seq(Procs) /\ IsInjective(dying[q])
      BY <1>2
    <3>2. /\ RemoveFirst(dying[q], p) \in Seq(Procs) /\ IsInjective(RemoveFirst(dying[q], p))
          /\ ToSet(RemoveFirst(dying[q], p)) = ToSet(dying[q]) \ {p}
      BY <3>1, RemoveFacts
    <3>3. dying'[q] = RemoveFirst(dying[q], p)
      BY <1>1
    <3> QED BY <3>2, <3>3
  <2>2. \A q \in Procs : dying[q] = << >> => dying'[q] = << >>
    <3> SUFFICES ASSUME NEW q \in Procs, dying[q] = << >>
                 PROVE  dying'[q] = << >>
      OBVIOUS
    <3>1. ToSet(dying[q]) = {}
      BY DEF ToSet
    <3>2. dying'[q] \in Seq(Procs) /\ ToSet(dying'[q]) = {}
      BY <2>1, <3>1
    <3> QED BY <3>2, EmptyList
  <2>3. dying' \in [Procs -> Seq(Procs)]
    BY <1>1, <2>1
  <2>4. DyingKept(dying, dying', p)
    BY <2>1 DEF DyingKept
  <2> QED BY <1>2, <2>1, <2>2, <2>3, <2>4 DEF DyingStep
<1>4. req[p] \in F!Requests /\ req[p].type # "F_UNLCK" /\ OffList(posix_list, p)
  BY <1>1, FlockAsks, OffLists
<1> DEFINE r == req[p]
           s == sig[p]
           list == F!DeleteBlock(flock_list, p)
<1>5. /\ r \in F!Requests /\ r.type # "F_UNLCK" /\ F!Repeat(p, r, s, list)
      /\ Reached(list, p, {})
  BY <1>1, <1>4, DeleteReached
<1> HIDE DEF r, s, list
<1> QED BY <1>1, <1>3, <1>4, <1>5, RepeatStep

LEMMA YieldStep ==
    ASSUME Inv, NEW p \in Procs, F!Yield(p), UNCHANGED <<posix_list, mand>>
    PROVE  Inv'
<1>1. pc[p] = "yield" /\ open' = open /\ req[p].op = "flock"
  BY DEF Inv, TypeOK, F!Yield
<1>2. req[p] \in F!Requests /\ req[p].type # "F_UNLCK" /\ OffList(posix_list, p) /\ OffList(flock_list, p)
  BY <1>1, FlockAsks, OffLists
<1>3. CASE dying[p] = << >>
  <2>1. F!search(p, req[p], sig[p]) /\ sig[p] \in BOOLEAN
    BY <1>3 DEF F!Yield, Inv, TypeOK
  <2> DEFINE r == req[p]
             s == sig[p]
  <2>2. r \in F!Requests /\ r.type # "F_UNLCK" /\ s \in BOOLEAN /\ F!search(p, r, s)
    BY <1>2, <2>1
  <2> HIDE DEF r, s
  <2> QED BY <1>1, <1>3, <2>2, SearchStep
<1>4. CASE dying[p] # << >>
  <2> DEFINE V == {dying[p][1]}
  <2>1. /\ pc' = F!Wake(V) /\ flock_list' = flock_list /\ req' = req /\ dying' = dying
        /\ sig' = sig
    BY <1>4 DEF F!Yield
  <2>2. /\ TypeOK /\ Once(flock_list) /\ flock_list \in Seq(FlockLock) /\ Exclusive(flock_list)
        /\ posix_list = << >> \/ flock_list = << >>
        /\ \A q \in Procs : IsInjective(dying[q])
        /\ sig \in [Procs -> BOOLEAN] /\ open \in [Procs -> BOOLEAN]
        /\ dying \in [Procs -> Seq(Procs)] /\ req[p] # None
    BY <1>1 DEF Inv, TypeOK, Compatible, Exclusive
  <2> HIDE DEF V
  <2>3. Others(p, V) /\ pc'[p] = "yield"
    BY <1>1, <2>1, <2>2 DEF Others, TypeOK, PcType, ReqType, F!Wake
  <2>4. FLinks(flock_list, flock_list', {}, p) /\ DyingKept(dying, dying', p)
    BY <2>1, <2>2, FLinksSame DEF DyingKept
  <2>5. \A x \in DOMAIN flock_list' : p \in On(flock_list'[x]) => pc'[p] = "asleep"
    BY <1>2, <2>1 DEF OffList
  <2>6. /\ flock_list' \in Seq(FlockLock) /\ Exclusive(flock_list')
        /\ posix_list = << >> \/ flock_list' = << >>
        /\ dying' \in [Procs -> Seq(Procs)] /\ (\A q \in Procs : IsInjective(dying'[q]))
        /\ sig' \in [Procs -> BOOLEAN] /\ open' \in [Procs -> BOOLEAN]
        /\ posix_list' = posix_list /\ mand' = mand
    BY <1>1, <2>1, <2>2
  <2>7. /\ \A q \in Procs \ {p} : dying'[q] # << >> => dying[q] # << >>
        /\ pc'[p] # "asleep" /\ (pc'[p] = "user" <=> req'[p] = None)
        /\ req'[p] \in F!Requests /\ req'[p].type # "F_UNLCK"
    BY <1>2, <2>1, <2>2, <2>3
  <2> DEFINE W == {}
  <2>8. /\ FLinks(flock_list, flock_list', W, p)
        /\ \A q \in W : q # p => q \in V \/ OnDying(q, dying')
    BY <2>4
  <2> HIDE DEF W
  <2> QED BY <1>2, <2>3, <2>4, <2>5, <2>6, <2>7, <2>8, FlockStep
<1> QED BY <1>3, <1>4

\* A close, or an open.
LEMMA FlockCloseStep ==
    ASSUME Inv, NEW p \in Procs, F!flock_remove_locks(p), UNCHANGED <<posix_list, mand>>
    PROVE  Inv'
<1> DEFINE gone == IF F!f_count(F!filp(p)) = 1 THEN F!Own(p) ELSE {}
           W == F!BlockedBy(gone)
<1>1. /\ pc[p] = "user" /\ flock_list' = F!Keep(flock_list, gone) /\ pc' = F!Wake(W)
      /\ open' = [open EXCEPT ![p] = FALSE] /\ req' = req /\ dying' = dying /\ sig' = sig
  BY DEF F!flock_remove_locks
<1>2. OffList(posix_list, p) /\ OffList(flock_list, p)
  BY <1>1, OffLists
<1> HIDE DEF gone
<1>3. \A i \in DOMAIN flock_list : i \in gone => On(flock_list[i]) \subseteq W
  BY SameOperators DEF F!BlockedBy, On
<1> HIDE DEF W
<1>4. Reached(Keep(flock_list, gone), p, W)
  BY <1>2, <1>3, KeepReached
<1>5. Reached(flock_list', p, W)
  BY <1>1, <1>4, SameOperators
<1>6. /\ flock_list' \in Seq(FlockLock) /\ FLinks(flock_list, flock_list', W, p)
      /\ Exclusive(flock_list') /\ OffList(flock_list', p)
      /\ posix_list = << >> \/ flock_list' = << >>
  BY <1>5 DEF Reached, Inv, Compatible
<1>7. /\ TypeOK /\ (\A q \in Procs : IsInjective(dying[q])) /\ open \in [Procs -> BOOLEAN]
      /\ sig \in [Procs -> BOOLEAN] /\ dying \in [Procs -> Seq(Procs)]
      /\ req[p] = None /\ dying[p] = << >>
  BY <1>1 DEF Inv, TypeOK
<1>8. open' \in [Procs -> BOOLEAN]
  BY <1>1, <1>7
<1>9. Others(p, W) /\ pc'[p] = "user"
  BY <1>1, <1>7 DEF Others, TypeOK, PcType, ReqType, F!Wake
<1>10. DyingKept(dying, dying', p)
  BY <1>1 DEF DyingKept
<1>11. \A x \in DOMAIN flock_list' : p \in On(flock_list'[x]) => pc'[p] = "asleep"
  BY <1>6 DEF OffList
<1> QED BY <1>1, <1>2, <1>6, <1>7, <1>8, <1>9, <1>10, <1>11, FlockStep

LEMMA OpenStep ==
    ASSUME Inv, NEW p \in Procs, Flocks(F!Open(p))
    PROVE  Inv'
<1>1. /\ posix_list' = posix_list /\ flock_list' = flock_list /\ pc' = pc /\ req' = req
      /\ sig' = sig /\ dying' = dying /\ mand' = mand /\ open' = [open EXCEPT ![p] = TRUE]
  BY DEF Flocks, F!Open
<1>2. open' \in [Procs -> BOOLEAN]
  BY <1>1 DEF Inv, TypeOK
<1>3. TypeOK'
  BY <1>1, <1>2 DEF Inv, TypeOK
<1> QED BY <1>1, <1>3 DEF Inv, Waiters, Asks, SleepsForReason, NoCircle, Compatible

----------------------------------------------------------------------------
(* The theorems.                                                            *)

LEMMA PosixCallStep ==
    ASSUME Inv, NEW p \in Procs, PosixCall(p)
    PROVE  Inv'
<1>1. UNCHANGED <<flock_list, dying, open>>
  BY DEF PosixCall, Posix
<1>2. \/ pc[p] = "user" /\ \E r \in P!LockRequests : P!posix_lock_file(p, r)
      \/ pc[p] = "user" /\ \E r \in P!AccessRequests : P!locks_mandatory_area(p, r)
      \/ Waiting(p, {"lock"}) /\ P!posix_lock_file(p, req[p])
      \/ Waiting(p, {"access"}) /\ P!locks_mandatory_area(p, req[p])
  BY DEF PosixCall, Posix
<1>3. pc[p] # "user" => req[p] # None /\ req[p] \in P!Requests \cup F!Requests \cup {None}
  BY DEF Inv, TypeOK
<1>4. ASSUME pc[p] = "user", NEW r \in P!LockRequests, P!posix_lock_file(p, r)
      PROVE  Inv'
  BY <1>1, <1>4, PosixLockStep
<1>5. ASSUME pc[p] = "user", NEW r \in P!AccessRequests, P!locks_mandatory_area(p, r)
      PROVE  Inv'
  BY <1>1, <1>5, PosixAccessStep
<1>6. CASE Waiting(p, {"lock"}) /\ P!posix_lock_file(p, req[p])
  <2> DEFINE r == req[p]
  <2>1. r.op = "lock" /\ r \in P!LockRequests /\ P!posix_lock_file(p, r)
    BY <1>3, <1>6, RequestKinds DEF Waiting
  <2>2. req[p].op # "flock"
    BY <2>1
  <2> HIDE DEF r
  <2> QED BY <1>1, <2>1, <2>2, PosixLockStep
<1>7. CASE Waiting(p, {"access"}) /\ P!locks_mandatory_area(p, req[p])
  <2> DEFINE r == req[p]
  <2>1. r.op = "access" /\ r \in P!AccessRequests /\ P!locks_mandatory_area(p, r)
    BY <1>3, <1>7, RequestKinds DEF Waiting
  <2>2. req[p].op # "flock"
    BY <2>1
  <2> HIDE DEF r
  <2> QED BY <1>1, <2>1, <2>2, PosixAccessStep
<1> QED BY <1>2, <1>4, <1>5, <1>6, <1>7

LEMMA FlockCallStep ==
    ASSUME Inv, NEW p \in Procs, FlockCall(p)
    PROVE  Inv'
<1>1. UNCHANGED <<posix_list, mand>>
  BY DEF FlockCall, Flocks
<1>2. \/ \E r \in F!Requests, s \in BOOLEAN : F!flock_lock_file(p, r, s)
      \/ req[p].op = "flock" /\ F!Resume(p)
      \/ F!Yield(p)
  BY Zenon DEF FlockCall, Flocks, Waiting
<1> QED BY <1>1, <1>2, FlockLockStep, ResumeStep, YieldStep

LEMMA InvInit == Init => Inv
<1> SUFFICES ASSUME Init PROVE Inv
  OBVIOUS
<1>1. << >> \in Seq(PosixLock) /\ << >> \in Seq(FlockLock) /\ << >> \in Seq(Procs) /\ DOMAIN << >> = {}
  OBVIOUS
<1>2. TypeOK
  BY <1>1 DEF Init, TypeOK
<1>3. Once(posix_list) /\ Once(flock_list) /\ \A p \in Procs : IsInjective(dying[p])
  BY <1>1 DEF Init, Once, IsInjective
<1>4. Waiters /\ Asks /\ SleepsForReason /\ NoCircle /\ Compatible
  <2>1. Waiters /\ Compatible
    BY <1>1 DEF Init, Waiters, Compatible
  <2>2. Asks
    BY RequestKinds DEF Init, Asks
  <2>3. SleepsForReason
    BY DEF Init, SleepsForReason
  <2>4. NoCircle
    <3>1. DOMAIN posix_list = {}
      BY DEF Init
    <3> SUFFICES ASSUME NEW S \in (SUBSET Procs) \ {{}},
                        \A p \in S : \E i \in DOMAIN posix_list :
                           posix_list[i].owner \in S /\ p \in ToSet(posix_list[i].block)
                 PROVE  FALSE
      BY DEF NoCircle
    <3>2. PICK p : p \in S
      OBVIOUS
    <3> QED BY <3>1, <3>2
  <2> QED BY <2>1, <2>2, <2>3, <2>4
<1> QED BY <1>2, <1>3, <1>4 DEF Inv

LEMMA InvNext == Inv /\ [Next]_vars => Inv'
<1> SUFFICES ASSUME Inv, [Next]_vars PROVE Inv'
  OBVIOUS
<1>1. CASE UNCHANGED vars
  BY <1>1 DEF vars, Inv, TypeOK, Waiters, Asks, SleepsForReason, NoCircle, Compatible
<1>2. ASSUME NEW p \in Procs, PosixCall(p) PROVE Inv'
  BY <1>2, PosixCallStep
<1>3. ASSUME NEW p \in Procs, FlockCall(p) PROVE Inv'
  BY <1>3, FlockCallStep
<1>4. ASSUME NEW p \in Procs, Close(p) PROVE Inv'
  <2>1. CASE Posix(P!posix_remove_locks(p))
    BY <2>1, PosixRemoveStep DEF Posix
  <2>2. CASE Flocks(F!flock_remove_locks(p))
    BY <2>2, FlockCloseStep DEF Flocks
  <2> QED BY <1>4, <2>1, <2>2 DEF Close
<1>5. ASSUME NEW p \in Procs, Signal(p) PROVE Inv'
  BY <1>5, SignalStep
<1>6. ASSUME NEW p \in Procs, Flocks(F!Open(p)) PROVE Inv'
  BY <1>6, OpenStep
<1>7. CASE Posix(P!ChangeMode)
  BY <1>7, ModeStep
<1> QED BY <1>1, <1>2, <1>3, <1>4, <1>5, <1>6, <1>7 DEF Next

\* The invariant holds in every state.
THEOREM Invariant == Spec => []Inv
<1> QED BY InvInit, InvNext, PTL DEF Spec

\* The inode's list never holds locks of both kinds, and two open files hold
\* flock locks together only if both share.
THEOREM LocksCompatible == Spec => []Compatible
<1>1. Inv => Compatible
  BY DEF Inv
<1> QED BY <1>1, Invariant, PTL

\* However fcntl locks, mandatory reads and writes, wakeups and closes
\* interleave, no circle of processes waits for each other's locks.
THEOREM NoDeadlock == Spec => []NoCircle
<1>1. Inv => NoCircle
  BY DEF Inv
<1> QED BY <1>1, Invariant, PTL

\* Once and Compatible leave a process at most one place to wait at.
LEMMA OnePlace == Inv => BlockListLive
<1> SUFFICES ASSUME Inv PROVE BlockListLive
  OBVIOUS
<1> DEFINE A(p) == {i \in DOMAIN posix_list : p \in ToSet(posix_list[i].block)}
           B(p) == {j \in DOMAIN flock_list : p \in ToSet(flock_list[j].block)}
           on(p) == A(p) \cup {-i : i \in B(p)}
<1>1. ASSUME NEW p \in Procs, on(p) # {}
      PROVE  pc[p] \in {"asleep", "woken"} /\ Cardinality(on(p)) = 1
  <2>1. pc[p] \in {"asleep", "woken"}
    <3>1. A(p) # {} \/ B(p) # {}
      BY <1>1
    <3> QED BY <3>1 DEF Inv, Waiters, On
  <2>2. CASE flock_list = << >>
    <3>1. B(p) = {}
      BY <2>2
    <3> HIDE DEF B
    <3>2. on(p) = A(p)
      BY <3>1
    <3>3. PICK x : x \in A(p)
      BY <1>1, <3>2
    <3>4. A(p) = {x}
      BY <3>3 DEF Inv, Once, On
    <3> HIDE DEF A
    <3> QED BY <2>1, <3>2, <3>4, FS_Singleton
  <2>3. CASE posix_list = << >>
    <3>1. A(p) = {}
      BY <2>3
    <3> HIDE DEF A
    <3>2. on(p) = {-i : i \in B(p)}
      BY <3>1
    <3>3. PICK x : x \in B(p)
      BY <1>1, <3>2
    <3>4. B(p) = {x}
      BY <3>3 DEF Inv, Once, On
    <3> HIDE DEF B
    <3>5. on(p) = {-x}
      BY <3>2, <3>4
    <3> QED BY <2>1, <3>5, FS_Singleton
  <2> QED BY <2>2, <2>3 DEF Inv, Compatible
<1> QED BY <1>1 DEF BlockListLive

\* A process sleeps only for a lock that is in its way as the list is now, or
\* whose owner is still to wake it, and is on no other block list: no merge,
\* split, cut, unlock or close forgets a sleeper.
THEOREM NobodyForgotten == Spec => []SleepersListed
<1>1. Inv => SleepersListed
  BY OnePlace DEF Inv, SleepersListed
<1> QED BY <1>1, Invariant, PTL
----------------------------------------------------------------------------
(* The order of the list, while no range goes to the last byte of a file.   *)

\* No range goes on to the end of the file, whatever its size, or to the last
\* byte an off_t can name.
InsideFile == \A a \in Ranges : a[2] > 0 /\ a[1] + a[2] - 1 < OFFSET_MAX

\* f ends below a, and does not touch it if it has type ty; the same above b.
Low(f, a, ty) == f.end < a /\ (f.type = ty => f.end + 1 < a)
High(f, b, ty) == b < f.start /\ (f.type = ty => b + 1 < f.start)

\* Canonical, with no lock up to the last byte.
Sorted(M) ==
    /\ \A i \in 1..Len(M) : M[i].start <= M[i].end /\ M[i].end < OFFSET_MAX
    /\ \A i, j \in 1..Len(M) :
          i < j /\ M[i].owner = M[j].owner => Low(M[i], M[j].start, M[j].type)
    /\ \A i, n, j \in 1..Len(M) :
          i <= n /\ n <= j /\ M[i].owner = M[j].owner => M[n].owner = M[i].owner

LEMMA SortedCanonical ==
    ASSUME posix_list \in Seq(PosixLock)
    PROVE  Sorted(posix_list) =>  Canonical
<1>1. /\ DOMAIN posix_list = 1..Len(posix_list) /\ Len(posix_list) \in Nat
      /\ \A i \in 1..Len(posix_list) : posix_list[i].start \in Int /\ posix_list[i].end \in Int
  BY LockFields
<1> SUFFICES ASSUME Sorted(posix_list) PROVE Canonical
  OBVIOUS
<1>2. ASSUME NEW i \in DOMAIN posix_list, NEW j \in DOMAIN posix_list, i < j,
             posix_list[i].owner = posix_list[j].owner
      PROVE  /\ posix_list[i].end < posix_list[j].start
             /\ \A k \in i .. j : posix_list[k].owner = posix_list[i].owner
             /\ posix_list[i].end + 1 = posix_list[j].start
                  => posix_list[i].type # posix_list[j].type
  <2>1. Low(posix_list[i], posix_list[j].start, posix_list[j].type)
    BY <1>1, <1>2 DEF Sorted
  <2>2. ASSUME NEW k \in i..j
        PROVE  posix_list[k].owner = posix_list[i].owner
    <3>1. k \in 1..Len(posix_list) /\ i <= k /\ k <= j
      BY <1>1
    <3> QED BY <1>1, <1>2, <3>1 DEF Sorted
  <2> QED BY <1>1, <2>1, <2>2 DEF Low
<1> QED BY <1>1, <1>2 DEF Canonical, Sorted

\* The range of a request inside the file.
LEMMA RequestInside ==
    ASSUME InsideFile, NEW r \in P!LockRequests
    PROVE  r.start <= r.end /\ r.end < OFFSET_MAX
<1>1. PICK ty \in {"F_RDLCK", "F_WRLCK", "F_UNLCK"}, a \in Ranges, w \in BOOLEAN :
         r = P!posix_make_lock(ty, a[1], a[2], w)
  BY RequestMade
<1> DEFINE end == P!Wrap(a[1] + a[2] - 1)
<1>2. r.start = a[1] /\ r.end = IF a[2] = 0 \/ end < 0 THEN OFFSET_MAX ELSE end
  BY <1>1 DEF P!posix_make_lock
<1>3. /\ a[1] \in 0..OFFSET_MAX /\ a[2] \in 0..OFFSET_MAX /\ OFFSET_MAX \in Nat
      /\ a[2] > 0 /\ a[1] + a[2] - 1 < OFFSET_MAX
  BY ConstAssumption DEF InsideFile
<1>4. end = a[1] + a[2] - 1
  BY <1>3 DEF P!Wrap
<1> HIDE DEF end
<1> QED BY <1>2, <1>3, <1>4

\* o is what is left of the first k locks of L: org says where a lock was, and
\* all but the one at nw are as they were.
Tracks(L, k, o, nw, org) ==
    /\ org \in [1..Len(o) -> 1..k]
    /\ \A x, y \in 1..Len(o) : x < y => org[x] < org[y]
    /\ \A x \in 1..Len(o) : o[x].owner = L[org[x]].owner /\ (x # nw => o[x] = L[org[x]])

\* A lock that is not kept is p's, and in the range that the request has grown to.
Taking(L, k, p, s, org) ==
    \A i \in 1..k : \/ \E x \in 1..Len(s.out) : org[x] = i /\ x # s.new
                    \/ L[i].owner = p /\ s.start <= L[i].start /\ L[i].end <= s.end

\* The range is that of the request and of locks of p of its type.
Asked(L, k, p, r, s) ==
    /\ s.start <= s.end /\ s.end < OFFSET_MAX /\ s.start <= r.start /\ r.end <= s.end
    /\ s.new = 0 => s.start = r.start /\ s.end = r.end
    /\ r.type = "F_UNLCK" => s.new = 0
    /\ r.type # "F_UNLCK" => (s.added => s.new # 0) /\ (s.new # 0 => s.added)
    /\ \A b \in s.start..s.end :
          \/ r.start <= b /\ b <= r.end
          \/ \E i \in 1..k : /\ L[i].owner = p /\ L[i].type = r.type
                             /\ L[i].start <= b /\ b <= L[i].end

\* The lock that has taken the request in is the last one before the loop breaks off.
NewIn(L, k, p, r, s) ==
    s.new # 0 =>
        /\ s.out[s.new].owner = p /\ s.out[s.new].type = r.type
        /\ s.at = 0 => s.new = Len(s.out) /\ s.start <= L[k].start
        /\ s.at # 0 => s.at = s.new + 1

\* The lock of the other type that the request begins in.
LeftIn(L, k, p, r, s) ==
    s.left # 0 =>
        /\ s.out[s.left].owner = p /\ s.out[s.left].type # r.type
        /\ s.out[s.left].start < s.start /\ s.start <= s.out[s.left].end
        /\ s.left # s.new /\ (s.new # 0 => s.left < s.new)
        /\ s.at = 0 => s.start <= L[k].end
        /\ s.at # 0 => s.left <= s.at /\ (s.left = s.at => s.right)
        /\ s.left # s.at => s.out[s.left].end <= s.end

\* Where the loop has not broken off p's locks are below the range.
Lows(p, r, s) ==
    \A x \in 1..Len(s.out) :
        (s.at = 0 \/ x < s.at) /\ s.out[x].owner = p /\ x # s.new /\ x # s.left
            => Low(s.out[x], s.start, r.type)

\* Where it has, they are above, but for a lock that reaches out of the range;
\* and another's lock it broke off at follows one of p.
Highs(L, p, r, s, org) ==
    s.at # 0 =>
        /\ \A x \in s.at..Len(s.out) :
              s.out[x].owner = p => /\ s.out[s.at].owner = p
                                    /\ (x = s.at /\ s.right) \/ High(s.out[x], s.end, r.type)
        /\ s.right => /\ s.out[s.at].owner = p /\ s.out[s.at].type # r.type
                      /\ s.end < s.out[s.at].end /\ s.out[s.at].start <= s.end
                      /\ s.left # s.at => s.start <= s.out[s.at].start
        /\ s.out[s.at].owner # p => org[s.at] > 1 /\ L[org[s.at] - 1].owner = p

\* Until then the lock before is p's, or p has none so far.
Seen(L, k, p, s) ==
    s.at = 0 =>
        /\ s.seen => k >= 1 /\ L[k].owner = p
        /\ ~s.seen => s.new = 0 /\ s.left = 0 /\ \A i \in 1..k : L[i].owner # p

Ordered(L, k, p, r, s, org) ==
    /\ Tracks(L, k, s.out, s.new, org) /\ Taking(L, k, p, s, org) /\ Asked(L, k, p, r, s)
    /\ NewIn(L, k, p, r, s) /\ LeftIn(L, k, p, r, s)
    /\ Lows(p, r, s) /\ Highs(L, p, r, s, org) /\ Seen(L, k, p, s)

----------------------------------------------------------------------------
(* One lock in the loop keeps the order.                                    *)

\* The loop comes to the lock at k.
Turn(L, k, p, r, s, org) ==
    /\ L \in Seq(PosixLock) /\ Sorted(L) /\ k \in 1..Len(L) /\ r \in P!LockRequests
    /\ Typed(s) /\ Ordered(L, k - 1, p, r, s, org)

Grown(org, m, k) == [x \in 1..(m + 1) |-> IF x = m + 1 THEN k ELSE org[x]]

Numbered(f) == f.start \in Int /\ f.end \in Int

LEMMA TurnFacts ==
    ASSUME NEW L, NEW k, NEW p, NEW r, NEW s, NEW org, Turn(L, k, p, r, s, org)
    PROVE  /\ k \in Nat /\ Len(L) \in Nat /\ L \in Seq(PosixLock) /\ L[k] \in PosixLock
           /\ \A i \in 1..Len(L) : Numbered(L[i])
           /\ s.out \in Seq(PosixLock) /\ Len(s.out) \in Nat
           /\ s.at \in 0..Len(s.out) /\ s.new \in 0..Len(s.out) /\ s.left \in 0..Len(s.out)
           /\ s.start \in Int /\ s.end \in Int /\ OFFSET_MAX \in Nat
           /\ r.start \in Int /\ r.end \in Int
           /\ \A x \in 1..Len(s.out) : Numbered(s.out[x]) /\ org[x] \in 1..(k - 1)
           /\ DOMAIN s = Locals /\ (s.right => s.at # 0)
           /\ L[k].type # "F_UNLCK"
<1>1. /\ L \in Seq(PosixLock) /\ k \in 1..Len(L) /\ Len(L) \in Nat
  BY DEF Turn
<1>2. /\ s.out \in Seq(PosixLock) /\ Len(s.out) \in Nat /\ s.at \in 0..Len(s.out)
      /\ s.new \in 0..Len(s.out) /\ s.left \in 0..Len(s.out)
      /\ s.start \in 0..OFFSET_MAX /\ s.end \in 0..OFFSET_MAX
      /\ DOMAIN s = Locals /\ (s.right => s.at # 0)
  BY DEF Turn, Typed
<1>3. OFFSET_MAX \in Nat /\ r.start \in Int /\ r.end \in Int
  BY ConstAssumption, RequestFields DEF Turn
<1>4. \A x \in 1..Len(s.out) : org[x] \in 1..(k - 1)
  BY DEF Turn, Ordered, Tracks
<1>5. \A i \in 1..Len(L) : Numbered(L[i])
  BY <1>1, LockFields DEF Numbered
<1>6. \A x \in 1..Len(s.out) : Numbered(s.out[x])
  BY <1>2, LockFields DEF Numbered
<1>7. L[k] \in PosixLock /\ L[k].type # "F_UNLCK"
  BY <1>1, LockFields
<1> QED BY <1>1, <1>2, <1>3, <1>4, <1>5, <1>6, <1>7

\* A lock of p that the loop comes to lies behind all of p's before it.
LEMMA Later ==
    ASSUME NEW L, NEW k, NEW p, NEW r, NEW s, NEW org, Turn(L, k, p, r, s, org),
           L[k].owner = p
    PROVE  /\ L[k].start <= L[k].end /\ L[k].end < OFFSET_MAX
           /\ s.at = 0 /\ (s.new # 0 \/ s.left # 0) => s.start < L[k].start
           /\ \A x \in 1..Len(s.out) :
                 s.out[x].owner = p /\ x # s.new => Low(s.out[x], L[k].start, L[k].type)
<1>1. /\ k \in 1..Len(L) /\ Len(L) \in Nat /\ \A i \in 1..Len(L) : Numbered(L[i])
      /\ s.start \in Int /\ \A x \in 1..Len(s.out) : org[x] \in 1..(k - 1)
  BY TurnFacts DEF Turn
<1>2. L[k].start <= L[k].end /\ L[k].end < OFFSET_MAX
  BY DEF Turn, Sorted
<1>3. ASSUME s.at = 0, s.new # 0 \/ s.left # 0
      PROVE  s.start < L[k].start
  <2>1. k - 1 >= 1 /\ L[k - 1].owner = p
    BY <1>3 DEF Turn, Ordered, Seen
  <2>2. k - 1 \in 1..Len(L) /\ k - 1 < k
    BY <1>1, <2>1
  <2>3. Low(L[k - 1], L[k].start, L[k].type) /\ L[k - 1].start <= L[k - 1].end
    BY <1>1, <2>1, <2>2 DEF Turn, Sorted
  <2>4. s.start <= L[k - 1].start \/ s.start <= L[k - 1].end
    BY <1>3 DEF Turn, Ordered, NewIn, LeftIn
  <2> QED BY <1>1, <2>2, <2>3, <2>4 DEF Low, Numbered
<1>4. ASSUME NEW x \in 1..Len(s.out), s.out[x].owner = p, x # s.new
      PROVE  Low(s.out[x], L[k].start, L[k].type)
  <2>1. s.out[x] = L[org[x]]
    BY <1>4 DEF Turn, Ordered, Tracks
  <2>2. org[x] \in 1..Len(L) /\ org[x] < k
    BY <1>1
  <2> QED BY <1>1, <1>4, <2>1, <2>2 DEF Turn, Sorted
<1> QED BY <1>2, <1>3, <1>4

\* A lock goes to the end of the list: as it was, or as the one that takes the
\* request in.
LEMMA TracksGrow ==
    ASSUME NEW L, NEW k \in Nat \ {0}, NEW o \in Seq(PosixLock), NEW nw \in 0..Len(o), NEW org,
           Tracks(L, k - 1, o, nw, org), NEW g, g.owner = L[k].owner,
           NEW nn, (g = L[k] /\ nn = nw) \/ (nw = 0 /\ nn = Len(o) + 1)
    PROVE  Tracks(L, k, Append(o, g), nn, Grown(org, Len(o), k))
<1> DEFINE m == Len(o)
           G == Grown(org, m, k)
           O == Append(o, g)
<1>1. m \in Nat /\ Len(O) = m + 1 /\ O[m + 1] = g /\ \A x \in 1..m : O[x] = o[x]
  OBVIOUS
<1>2. /\ \A x \in 1..m : org[x] \in 1..(k - 1)
      /\ \A x, y \in 1..m : x < y => org[x] < org[y]
      /\ \A x \in 1..m : o[x].owner = L[org[x]].owner /\ (x # nw => o[x] = L[org[x]])
  BY DEF Tracks
<1>3. /\ G[m + 1] = k /\ (\A x \in 1..m : G[x] = org[x]) /\ DOMAIN G = 1..(m + 1)
      /\ G = [x \in 1..(m + 1) |-> G[x]]
  BY <1>1 DEF Grown
<1> HIDE DEF m, G, O
<1>4. \A x \in 1..(m + 1) : x \in 1..m \/ x = m + 1
  BY <1>1
<1>5. G \in [1..(m + 1) -> 1..k]
  <2>1. ASSUME NEW x \in 1..(m + 1)
        PROVE  G[x] \in 1..k
    <3>1. CASE x \in 1..m
      <4>1. G[x] = org[x] /\ org[x] \in 1..(k - 1)
        BY <1>2, <1>3, <3>1
      <4> QED BY <4>1
    <3>2. CASE x = m + 1
      BY <1>3, <3>2
    <3> QED BY <1>4, <3>1, <3>2
  <2> QED BY <1>3, <2>1
<1>6. ASSUME NEW x \in 1..(m + 1), NEW y \in 1..(m + 1), x < y
      PROVE  G[x] < G[y]
  <2>1. x \in 1..m /\ G[x] = org[x] /\ org[x] \in 1..(k - 1)
    <3>1. x \in 1..m
      BY <1>1, <1>6
    <3> QED BY <1>2, <1>3, <3>1
  <2>2. CASE y \in 1..m
    BY <1>2, <1>3, <1>6, <2>1, <2>2
  <2>3. CASE y = m + 1
    BY <1>3, <2>1, <2>3
  <2> QED BY <1>4, <2>2, <2>3
<1>7. ASSUME NEW x \in 1..(m + 1)
      PROVE  O[x].owner = L[G[x]].owner /\ (x # nn => O[x] = L[G[x]])
  <2>1. CASE x \in 1..m
    <3>1. G[x] = org[x] /\ O[x] = o[x]
      BY <1>1, <1>3, <2>1
    <3>2. x # nn => x # nw
      BY <1>1, <2>1 DEF m
    <3> QED BY <1>2, <2>1, <3>1, <3>2
  <2>2. CASE x = m + 1
    <3>1. x # nn => g = L[k]
      BY <1>1, <2>2 DEF m
    <3> QED BY <1>1, <1>3, <2>2, <3>1
  <2> QED BY <1>4, <2>1, <2>2
<1>8. Tracks(L, k, O, nn, G)
  BY <1>1, <1>5, <1>6, <1>7 DEF Tracks
<1> QED BY <1>8 DEF O, G, m

\* What was kept stays kept, and what was in the range stays in it.
LEMMA TakingGrow ==
    ASSUME NEW L, NEW k, NEW p, NEW r, NEW s, NEW org, Turn(L, k, p, r, s, org), NEW t, NEW G,
           t.start \in Int, t.end \in Int, t.start <= s.start, s.end <= t.end,
           Len(t.out) \in Nat, Len(s.out) <= Len(t.out),
           \A x \in 1..Len(s.out) : G[x] = org[x],
           t.new = s.new \/ t.new \notin 1..Len(s.out),
           \/ \E x \in 1..Len(t.out) : G[x] = k /\ x # t.new
           \/ L[k].owner = p /\ t.start <= L[k].start /\ L[k].end <= t.end
    PROVE  Taking(L, k, p, t, G)
<1>1. /\ k \in Nat /\ s.start \in Int /\ s.end \in Int /\ Len(s.out) \in Nat
      /\ k \in 1..Len(L) /\ Len(L) \in Nat /\ \A i \in 1..Len(L) : Numbered(L[i])
  BY TurnFacts DEF Turn
<1>2. ASSUME NEW i \in 1..k
      PROVE  \/ \E x \in 1..Len(t.out) : G[x] = i /\ x # t.new
             \/ L[i].owner = p /\ t.start <= L[i].start /\ L[i].end <= t.end
  <2>1. CASE i = k
    BY <2>1
  <2>2. CASE i # k
    <3>1. i \in 1..(k - 1) /\ i \in 1..Len(L)
      BY <1>1, <2>2
    <3>2. \/ \E x \in 1..Len(s.out) : org[x] = i /\ x # s.new
          \/ L[i].owner = p /\ s.start <= L[i].start /\ L[i].end <= s.end
      BY <3>1 DEF Turn, Ordered, Taking
    <3>3. CASE \E x \in 1..Len(s.out) : org[x] = i /\ x # s.new
      <4>1. PICK x \in 1..Len(s.out) : org[x] = i /\ x # s.new
        BY <3>3
      <4>2. x \in 1..Len(t.out) /\ G[x] = i /\ x # t.new
        BY <1>1, <4>1
      <4> QED BY <4>2
    <3>4. CASE L[i].owner = p /\ s.start <= L[i].start /\ L[i].end <= s.end
      <4>1. L[i].start \in Int /\ L[i].end \in Int
        BY <1>1, <3>1 DEF Numbered
      <4>2. t.start <= L[i].start
        BY <1>1, <3>4, <4>1
      <4>3. L[i].end <= t.end
        BY <1>1, <3>4, <4>1
      <4> QED BY <3>4, <4>2, <4>3
    <3> QED BY <3>2, <3>3, <3>4
  <2> QED BY <2>1, <2>2
<1> QED BY <1>2 DEF Taking

\* The range stays within the request and p's locks when more locks are seen.
LEMMA AskedMore ==
    ASSUME NEW L, NEW k, NEW p, NEW r, NEW s, NEW org, Turn(L, k, p, r, s, org), NEW t,
           t.start = s.start, t.end = s.end, t.new = s.new, r.type # "F_UNLCK" => (t.added <=> s.added)
    PROVE  Asked(L, k, p, r, t)
<1>1. Asked(L, k - 1, p, r, s) /\ k \in Nat
  BY TurnFacts DEF Turn, Ordered
<1>2. ASSUME NEW b \in t.start..t.end
      PROVE  \/ r.start <= b /\ b <= r.end
             \/ \E i \in 1..k : /\ L[i].owner = p /\ L[i].type = r.type
                                /\ L[i].start <= b /\ b <= L[i].end
  <2>1. \A i \in 1..(k - 1) : i \in 1..k
    BY <1>1
  <2>2. b \in s.start..s.end
    OBVIOUS
  <2> QED BY <1>1, <2>1, <2>2 DEF Asked
<1> QED BY <1>1, <1>2 DEF Asked

\* fl goes to the end of the list, the request stays.
Appended(s, t, fl, r) ==
    /\ t.out = Append(s.out, fl) /\ t.start = s.start /\ t.end = s.end /\ t.new = s.new
    /\ r.type # "F_UNLCK" => (t.added <=> s.added)

Extended(L, k, p, r, s, t, org, G) ==
    /\ Len(t.out) = Len(s.out) + 1 /\ t.out[Len(s.out) + 1] = L[k]
    /\ (\A x \in 1..Len(s.out) : t.out[x] = s.out[x] /\ G[x] = org[x])
    /\ G[Len(s.out) + 1] = k
    /\ Tracks(L, k, t.out, t.new, G) /\ Taking(L, k, p, t, G) /\ Asked(L, k, p, r, t)

\* A lock stays in the list as it is.
LEMMA StaysKeeps ==
    ASSUME NEW L, NEW k, NEW p, NEW r, NEW s, NEW org, Turn(L, k, p, r, s, org),
           NEW t, Appended(s, t, L[k], r)
    PROVE  Extended(L, k, p, r, s, t, org, Grown(org, Len(s.out), k))
<1> DEFINE G == Grown(org, Len(s.out), k)
<1> DEFINE m == Len(s.out)
<1>1. /\ t.start = s.start /\ t.end = s.end /\ t.new = s.new /\ t.out = Append(s.out, L[k])
      /\ r.type # "F_UNLCK" => (t.added <=> s.added)
  BY DEF Appended
<1>2. /\ s.out \in Seq(PosixLock) /\ m \in Nat /\ s.new \in 0..m /\ k \in Nat \ {0}
      /\ s.start \in Int /\ s.end \in Int
  <2>1. k \in 1..Len(L) /\ Len(L) \in Nat
    BY DEF Turn
  <2> QED BY <2>1, TurnFacts
<1>3. Len(t.out) = m + 1 /\ t.out[m + 1] = L[k] /\ \A x \in 1..m : t.out[x] = s.out[x]
  BY <1>1, <1>2
<1>4. G[m + 1] = k /\ \A x \in 1..m : G[x] = org[x]
  BY <1>2 DEF Grown
<1>5. Tracks(L, k, t.out, t.new, G)
  <2>1. Tracks(L, k - 1, s.out, s.new, org)
    BY DEF Turn, Ordered
  <2>2. Tracks(L, k, Append(s.out, L[k]), s.new, Grown(org, Len(s.out), k))
    BY <1>2, <2>1, TracksGrow
  <2> QED BY <1>1, <2>2
<1>6. Taking(L, k, p, t, G)
  <2>1. m + 1 \in 1..Len(t.out) /\ m + 1 # t.new /\ m <= Len(t.out) /\ Len(t.out) \in Nat
    BY <1>1, <1>2, <1>3
  <2>2. \E x \in 1..Len(t.out) : G[x] = k /\ x # t.new
    BY <1>4, <2>1
  <2>3. t.start \in Int /\ t.end \in Int /\ t.start <= s.start /\ s.end <= t.end
    BY <1>1, <1>2
  <2> HIDE DEF m
  <2> QED BY <1>1, <1>4, <2>1, <2>2, <2>3, TakingGrow DEF m
<1>7. Asked(L, k, p, r, t)
  BY <1>1, AskedMore
<1> HIDE DEF G
<1>8. Extended(L, k, p, r, s, t, org, G)
  BY <1>3, <1>4, <1>5, <1>6, <1>7 DEF Extended
<1> QED BY <1>8 DEF G

\* A lock behind the place where the loop broke off.
LEMMA BehindOrdered ==
    ASSUME NEW L, NEW k, NEW p, NEW r, NEW s, NEW org, Turn(L, k, p, r, s, org),
           NEW t, s.at # 0, Stays(s, t, L[k], s.at, s.seen, s.added, s.left, s.right),
           NEW G, G = Grown(org, Len(s.out), k)
    PROVE  Ordered(L, k, p, r, t, G)
<1> DEFINE m == Len(s.out)
           fl == L[k]
<1>0. /\ t.at = s.at /\ t.left = s.left /\ t.right = s.right
      /\ t.start = s.start /\ t.end = s.end /\ t.new = s.new
      /\ Len(t.out) = m + 1 /\ t.out[m + 1] = fl
      /\ (\A x \in 1..m : t.out[x] = s.out[x] /\ G[x] = org[x]) /\ G[m + 1] = k
      /\ Tracks(L, k, t.out, t.new, G) /\ Taking(L, k, p, t, G) /\ Asked(L, k, p, r, t)
  <2>1. /\ t.start = s.start /\ t.end = s.end /\ t.new = s.new
        /\ t.at = s.at /\ t.left = s.left /\ t.right = s.right
    BY DEF Stays, Local
  <2>2. Appended(s, t, L[k], r)
    BY DEF Appended, Stays, Local
  <2>3. Extended(L, k, p, r, s, t, org, G)
    BY <2>2, StaysKeeps
  <2> QED BY <2>1, <2>3 DEF Extended
<1>1. /\ m \in Nat /\ s.at \in 1..m /\ s.new \in 0..m /\ s.left \in 0..m /\ k \in 1..Len(L)
      /\ Len(L) \in Nat /\ (\A i \in 1..Len(L) : Numbered(L[i])) /\ s.end \in Int
      /\ \A x \in 1..m : org[x] \in 1..(k - 1)
  <2>1. k \in 1..Len(L)
    BY DEF Turn
  <2>2. /\ m \in Nat /\ s.at \in 0..m /\ s.new \in 0..m /\ s.left \in 0..m /\ s.end \in Int
        /\ Len(L) \in Nat /\ (\A i \in 1..Len(L) : Numbered(L[i]))
        /\ \A x \in 1..m : org[x] \in 1..(k - 1)
    BY TurnFacts, Zenon
  <2> QED BY <2>1, <2>2
<1>2. /\ NewIn(L, k - 1, p, r, s) /\ LeftIn(L, k - 1, p, r, s) /\ Lows(p, r, s)
      /\ Highs(L, p, r, s, org)
  BY DEF Turn, Ordered
<1> HIDE DEF m, fl
<1>3. NewIn(L, k, p, r, t)
  <2>1. ASSUME t.new # 0
        PROVE  t.out[t.new] = s.out[s.new] /\ s.at = s.new + 1
    <3>1. t.new = s.new /\ s.new \in 1..m
      BY <1>0, <1>1, <2>1
    <3>2. t.out[t.new] = s.out[s.new]
      BY <1>0, <3>1
    <3>3. s.at # 0
      BY <1>1
    <3> QED BY <1>2, <2>1, <3>1, <3>2, <3>3 DEF NewIn
  <2> QED BY <1>0, <1>2, <2>1 DEF NewIn
<1>4. LeftIn(L, k, p, r, t)
  <2>1. ASSUME t.left # 0
        PROVE  t.out[t.left] = s.out[s.left]
    <3>1. t.left = s.left
      BY <1>0
    <3>2. s.left \in 1..m
      BY <1>1, <2>1, <3>1
    <3> QED BY <1>0, <3>1, <3>2
  <2> QED BY <1>0, <1>2, <2>1 DEF LeftIn
<1>5. Lows(p, r, t)
  <2>1. ASSUME NEW x \in 1..(m + 1), x < s.at
        PROVE  x \in 1..m /\ t.out[x] = s.out[x]
    BY <1>0, <1>1, <2>1
  <2> QED BY <1>0, <1>2, <2>1 DEF Lows, m
<1>6. t.out[t.at] = s.out[s.at] /\ G[t.at] = org[s.at] /\ s.out[s.at] = L[org[s.at]]
  <2>1. s.at # s.new
    BY <1>1, <1>2 DEF NewIn
  <2> QED BY <1>0, <1>1, <2>1 DEF Turn, Ordered, Tracks, m
<1>7. ASSUME fl.owner = p
      PROVE  s.out[s.at].owner = p /\ High(fl, s.end, r.type)
  <2>1. org[s.at] \in 1..Len(L) /\ org[s.at] < k
    BY <1>1
  <2>2. s.out[s.at].owner = p
    <3> SUFFICES ASSUME s.out[s.at].owner # p PROVE FALSE
      OBVIOUS
    <3>1. org[s.at] > 1 /\ L[org[s.at] - 1].owner = p
      BY <1>2 DEF Highs
    <3> DEFINE i == org[s.at] - 1
    <3>2. i \in 1..Len(L) /\ i <= org[s.at] /\ org[s.at] <= k
      <4>1. org[s.at] \in Int /\ k \in Int /\ Len(L) \in Int
        BY <1>1, <2>1
      <4> QED BY <2>1, <3>1, <4>1
    <3>3. L[org[s.at]].owner = p
      <4> HIDE DEF i
      <4>1. L[i].owner = L[k].owner
        BY <1>7, <3>1 DEF fl, i
      <4>2. L[org[s.at]].owner = L[i].owner
        BY <1>1, <2>1, <3>2, <4>1 DEF Turn, Sorted
      <4> QED BY <1>7, <4>1, <4>2 DEF fl
    <3> QED BY <1>6, <3>3
  <2>3. Low(L[org[s.at]], fl.start, fl.type) /\ L[org[s.at]].start <= L[org[s.at]].end
    BY <1>1, <1>6, <1>7, <2>1, <2>2 DEF Turn, Sorted, fl
  <2>4. s.right => s.end < L[org[s.at]].end
    BY <1>2, <1>6 DEF Highs
  <2>5. ~s.right => High(L[org[s.at]], s.end, r.type)
    <3>1. s.at \in s.at..m
      BY <1>1
    <3> QED BY <1>2, <1>6, <2>2, <3>1 DEF Highs, m
  <2>6. Numbered(L[org[s.at]]) /\ Numbered(fl) /\ s.end \in Int
    BY <1>1, <2>1 DEF fl
  <2>7. CASE s.right
    BY <2>2, <2>3, <2>4, <2>6, <2>7 DEF High, Low, Numbered
  <2>8. CASE ~s.right
    BY <2>2, <2>3, <2>5, <2>6, <2>8 DEF High, Low, Numbered
  <2> QED BY <2>7, <2>8
<1>8. Highs(L, p, r, t, G)
  <2>1. ASSUME NEW x \in t.at..Len(t.out), t.out[x].owner = p
        PROVE  /\ t.out[t.at].owner = p
               /\ (x = t.at /\ t.right) \/ High(t.out[x], t.end, r.type)
    <3>1. CASE x = m + 1
      BY <1>0, <1>6, <1>7, <2>1, <3>1
    <3>2. CASE x # m + 1
      <4>1. x \in s.at..m /\ x \in 1..m
        BY <1>0, <1>1, <3>2
      <4> QED BY <1>0, <1>2, <1>6, <2>1, <4>1 DEF Highs, m
    <3> QED BY <3>1, <3>2
  <2>2. t.right => /\ t.out[t.at].owner = p /\ t.out[t.at].type # r.type
                   /\ t.end < t.out[t.at].end /\ t.out[t.at].start <= t.end
                   /\ t.left # t.at => t.start <= t.out[t.at].start
    BY <1>0, <1>2, <1>6 DEF Highs
  <2>3. t.out[t.at].owner # p => G[t.at] > 1 /\ L[G[t.at] - 1].owner = p
    BY <1>0, <1>2, <1>6 DEF Highs
  <2> QED BY <2>1, <2>2, <2>3 DEF Highs
<1>9. Seen(L, k, p, t)
  BY <1>0 DEF Seen
<1> QED BY <1>0, <1>3, <1>4, <1>5, <1>8, <1>9 DEF Ordered

\* Another's lock before p's, or a lock of p below the range.
LEMMA PassOrdered ==
    ASSUME NEW L, NEW k, NEW p, NEW r, NEW s, NEW org, Turn(L, k, p, r, s, org),
           NEW t, Appended(s, t, L[k], r), s.at = 0, t.at = 0, t.left = s.left,
           \/ L[k].owner # p /\ ~s.seen /\ ~t.seen
           \/ L[k].owner = p /\ t.seen /\ Low(L[k], s.start, r.type)
    PROVE  Ordered(L, k, p, r, t, Grown(org, Len(s.out), k))
<1> DEFINE m == Len(s.out)
           G == Grown(org, m, k)
           fl == L[k]
<1>0. /\ Extended(L, k, p, r, s, t, org, G)
      /\ t.start = s.start /\ t.end = s.end /\ t.new = s.new
  BY StaysKeeps DEF Appended
<1>1. /\ m \in Nat /\ k \in Nat /\ k >= 1 /\ Numbered(fl) /\ s.start \in Int
  <2>1. k \in 1..Len(L)
    BY DEF Turn
  <2>2. m \in Nat /\ Len(L) \in Nat /\ s.start \in Int /\ \A i \in 1..Len(L) : Numbered(L[i])
    BY TurnFacts, Zenon
  <2> QED BY <2>1, <2>2
<1>2. Lows(p, r, s) /\ Seen(L, k - 1, p, s)
  BY DEF Turn, Ordered
<1> HIDE DEF m, G, fl
<1>3. s.new = 0 /\ s.left = 0
  <2>1. CASE L[k].owner # p /\ ~s.seen
    BY <1>2, <2>1 DEF Seen
  <2>2. CASE L[k].owner = p /\ Low(L[k], s.start, r.type)
    <3>1. fl.start <= fl.end /\ (s.new # 0 \/ s.left # 0 => s.start < fl.start)
      BY <2>2, Later DEF fl
    <3> QED BY <1>1, <2>2, <3>1 DEF Low, Numbered, fl
  <2> QED BY <2>1, <2>2
<1>4. NewIn(L, k, p, r, t) /\ LeftIn(L, k, p, r, t) /\ Highs(L, p, r, t, G)
  BY <1>0, <1>3 DEF NewIn, LeftIn, Highs
<1>5. Lows(p, r, t)
  <2> SUFFICES ASSUME NEW x \in 1..Len(t.out), t.out[x].owner = p, x # t.new, x # t.left
               PROVE  Low(t.out[x], t.start, r.type)
    BY DEF Lows
  <2>1. CASE x = m + 1
    BY <1>0, <2>1 DEF Extended, m, fl
  <2>2. CASE x # m + 1
    <3>1. x \in 1..m
      BY <1>0, <1>1, <2>2 DEF Extended, m
    <3>2. t.out[x] = s.out[x]
      BY <1>0, <3>1 DEF Extended, m
    <3> QED BY <1>0, <1>2, <3>1, <3>2 DEF Lows, m
  <2> QED BY <2>1, <2>2
<1>6. Seen(L, k, p, t)
  <2>1. CASE L[k].owner # p /\ ~s.seen /\ ~t.seen
    <3>1. \A i \in 1..k : i \in 1..(k - 1) \/ i = k
      BY <1>1
    <3> QED BY <1>0, <1>2, <1>3, <2>1, <3>1 DEF Seen
  <2>2. CASE L[k].owner = p /\ t.seen
    BY <1>1, <2>2 DEF Seen
  <2> QED BY <2>1, <2>2
<1> QED BY <1>0, <1>4, <1>5, <1>6 DEF Ordered, Extended, G, m

\* The loop breaks off: at another's lock behind p's, at a lock of p above the
\* range, or at one that reaches out of it and may begin before it.
LEMMA BreakOrdered ==
    ASSUME NEW L, NEW k, NEW p, NEW r, NEW s, NEW org, Turn(L, k, p, r, s, org),
           NEW t, Appended(s, t, L[k], r), s.at = 0, t.at = Len(s.out) + 1,
           \/ /\ L[k].owner # p /\ s.seen /\ ~t.right /\ t.left = s.left
           \/ /\ L[k].owner = p /\ High(L[k], s.end, r.type) /\ ~t.right /\ t.left = s.left
           \/ /\ L[k].owner = p /\ L[k].type # r.type /\ t.right
              /\ L[k].start <= s.end /\ s.start <= L[k].end /\ s.end < L[k].end
              /\ t.left = IF L[k].start < s.start THEN Len(s.out) + 1 ELSE s.left
    PROVE  Ordered(L, k, p, r, t, Grown(org, Len(s.out), k))
<1> DEFINE m == Len(s.out)
           G == Grown(org, m, k)
           fl == L[k]
<1>0. /\ Extended(L, k, p, r, s, t, org, G)
      /\ t.start = s.start /\ t.end = s.end /\ t.new = s.new
  BY StaysKeeps DEF Appended
<1>1. /\ m \in Nat /\ k \in Nat /\ k >= 1 /\ Numbered(fl) /\ s.start \in Int
      /\ s.new \in 0..m /\ s.left \in 0..m
  <2>1. k \in 1..Len(L)
    BY DEF Turn
  <2>2. /\ m \in Nat /\ Len(L) \in Nat /\ s.start \in Int /\ \A i \in 1..Len(L) : Numbered(L[i])
        /\ s.new \in 0..m /\ s.left \in 0..m
    BY TurnFacts, Zenon
  <2> QED BY <2>1, <2>2
<1>2. /\ NewIn(L, k - 1, p, r, s) /\ LeftIn(L, k - 1, p, r, s)
      /\ Lows(p, r, s) /\ Seen(L, k - 1, p, s)
  BY DEF Turn, Ordered
<1> HIDE DEF m, G, fl
<1>3. t.left # s.left => /\ t.left = m + 1 /\ s.new = 0 /\ s.left = 0 /\ t.right
                         /\ fl.owner = p /\ fl.type # r.type
                         /\ fl.start < s.start /\ s.start <= fl.end
  <2> SUFFICES ASSUME t.left # s.left
               PROVE  /\ t.left = m + 1 /\ s.new = 0 /\ s.left = 0 /\ t.right
                      /\ fl.owner = p /\ fl.type # r.type
                      /\ fl.start < s.start /\ s.start <= fl.end
    OBVIOUS
  <2>1. /\ fl.owner = p /\ fl.type # r.type /\ s.start <= fl.end /\ fl.start < s.start
        /\ t.left = m + 1 /\ t.right
    BY DEF fl, m
  <2>2. s.new # 0 \/ s.left # 0 => s.start < fl.start
    BY <2>1, Later DEF fl
  <2> QED BY <1>1, <2>1, <2>2 DEF Numbered
<1>4. NewIn(L, k, p, r, t)
  <2>1. ASSUME t.new # 0
        PROVE  t.out[t.new] = s.out[s.new] /\ s.new = m
    BY <1>0, <1>1, <1>2, <2>1 DEF Extended, NewIn, m
  <2> QED BY <1>0, <1>1, <1>2, <2>1 DEF NewIn, m
<1>5. LeftIn(L, k, p, r, t)
  <2>1. CASE t.left # s.left
    BY <1>0, <1>1, <1>3, <2>1 DEF LeftIn, Extended, m, fl
  <2>2. CASE t.left = s.left /\ t.left # 0
    <3>1. t.out[t.left] = s.out[s.left] /\ s.left < m + 1
      BY <1>0, <1>1, <2>2 DEF Extended, m
    <3> QED BY <1>0, <1>1, <1>2, <2>2, <3>1 DEF LeftIn, m
  <2>3. CASE t.left = 0
    BY <2>3 DEF LeftIn
  <2> QED BY <2>1, <2>2, <2>3
<1>6. Lows(p, r, t)
  <2> SUFFICES ASSUME NEW x \in 1..Len(t.out), x < m + 1, t.out[x].owner = p, x # t.new, x # t.left
               PROVE  Low(t.out[x], t.start, r.type)
    BY <1>1 DEF Lows, m
  <2>1. x \in 1..m
    BY <1>0, <1>1 DEF Extended, m
  <2>2. t.out[x] = s.out[x]
    BY <1>0, <2>1 DEF Extended, m
  <2>3. x # s.left
    BY <1>1, <1>3, <2>1
  <2> QED BY <1>0, <1>2, <2>1, <2>2, <2>3 DEF Lows, m
<1>7. Highs(L, p, r, t, G)
  <2>1. t.at = m + 1 /\ t.out[t.at] = fl /\ G[t.at] = k /\ Len(t.out) = m + 1
    BY <1>0 DEF Extended, m, fl
  <2>2. ASSUME NEW x \in t.at..Len(t.out), t.out[x].owner = p
        PROVE  /\ t.out[t.at].owner = p
               /\ (x = t.at /\ t.right) \/ High(t.out[x], t.end, r.type)
    <3>1. x = t.at
      BY <1>1, <2>1
    <3> QED BY <1>0, <2>1, <2>2, <3>1 DEF fl
  <2>3. t.right => /\ fl.owner = p /\ fl.type # r.type
                   /\ t.end < fl.end /\ fl.start <= t.end
                   /\ t.left # t.at => t.start <= fl.start
    BY <1>0, <1>1 DEF fl, Numbered
  <2>4. fl.owner # p => k > 1 /\ L[k - 1].owner = p
    BY <1>1, <1>2 DEF Seen, fl
  <2> QED BY <2>1, <2>2, <2>3, <2>4 DEF Highs
<1>8. Seen(L, k, p, t)
  BY <1>1 DEF Seen, m
<1> QED BY <1>0, <1>4, <1>5, <1>6, <1>7, <1>8 DEF Ordered, Extended, G, m

\* A lock of the other type that the request begins in, and ends in or after.
LEMMA BeginOrdered ==
    ASSUME NEW L, NEW k, NEW p, NEW r, NEW s, NEW org, Turn(L, k, p, r, s, org),
           NEW t, Appended(s, t, L[k], r), s.at = 0, t.at = 0, t.seen,
           L[k].owner = p, L[k].type # r.type, t.left = Len(s.out) + 1,
           L[k].start < s.start, s.start <= L[k].end, L[k].end <= s.end
    PROVE  Ordered(L, k, p, r, t, Grown(org, Len(s.out), k))
<1> DEFINE m == Len(s.out)
           G == Grown(org, m, k)
           fl == L[k]
<1>0. /\ Extended(L, k, p, r, s, t, org, G)
      /\ t.start = s.start /\ t.end = s.end /\ t.new = s.new
  BY StaysKeeps DEF Appended
<1>1. /\ m \in Nat /\ k \in Nat /\ k >= 1 /\ Numbered(fl) /\ s.start \in Int
  <2>1. k \in 1..Len(L)
    BY DEF Turn
  <2>2. m \in Nat /\ Len(L) \in Nat /\ s.start \in Int /\ \A i \in 1..Len(L) : Numbered(L[i])
    BY TurnFacts, Zenon
  <2> QED BY <2>1, <2>2
<1>2. Lows(p, r, s)
  BY DEF Turn, Ordered
<1>3. s.new = 0 /\ s.left = 0
  <2>1. s.new # 0 \/ s.left # 0 => s.start < fl.start
    BY Later
  <2> QED BY <1>1, <2>1 DEF Numbered
<1> HIDE DEF m, G
<1>4. NewIn(L, k, p, r, t) /\ Highs(L, p, r, t, G)
  BY <1>0, <1>3 DEF NewIn, Highs
<1>5. LeftIn(L, k, p, r, t)
  BY <1>0, <1>1, <1>3 DEF LeftIn, Extended, m
<1>6. Lows(p, r, t)
  <2> SUFFICES ASSUME NEW x \in 1..Len(t.out), t.out[x].owner = p, x # t.new, x # t.left
               PROVE  Low(t.out[x], t.start, r.type)
    BY DEF Lows
  <2>1. x \in 1..m
    BY <1>0, <1>1 DEF Extended, m
  <2>2. t.out[x] = s.out[x] /\ x # s.left
    BY <1>0, <1>1, <1>3, <2>1 DEF Extended, m
  <2> QED BY <1>0, <1>2, <2>1, <2>2 DEF Lows, m
<1>7. Seen(L, k, p, t)
  BY <1>1 DEF Seen
<1> QED BY <1>0, <1>4, <1>5, <1>6, <1>7 DEF Ordered, Extended, G, m

\* The range grows by fl, a lock of p: every byte of it was in it, or fl has the
\* type asked for and holds the byte.
Joins(s, t, fl, r) ==
    /\ t.start \in Int /\ t.end \in Int /\ t.end < OFFSET_MAX
    /\ t.start <= s.start /\ s.end <= t.end /\ t.start <= fl.start /\ fl.end <= t.end
    /\ \/ t.start = s.start /\ t.end = s.end
       \/ /\ fl.type = r.type
          /\ t.start = s.start \/ t.start = fl.start
          /\ \A b \in t.start..t.end : \/ s.start <= b /\ b <= s.end
                                       \/ fl.start <= b /\ b <= fl.end

LEMMA AskedJoins ==
    ASSUME NEW L, NEW k, NEW p, NEW r, NEW s, NEW org, Turn(L, k, p, r, s, org), L[k].owner = p,
           NEW t, Joins(s, t, L[k], r), t.new = 0 => s.new = 0 /\ t.start = s.start /\ t.end = s.end,
           r.type = "F_UNLCK" => t.new = 0,
           r.type # "F_UNLCK" => (t.added => t.new # 0) /\ (t.new # 0 => t.added)
    PROVE  Asked(L, k, p, r, t)
<1>1. /\ s.start \in Int /\ s.end \in Int /\ k \in Nat \ {0} /\ r.start \in Int /\ r.end \in Int
  <2>1. k \in 1..Len(L) /\ Len(L) \in Nat
    BY DEF Turn
  <2> QED BY <2>1, TurnFacts
<1>2. Asked(L, k - 1, p, r, s)
  BY DEF Turn, Ordered
<1>3. ASSUME NEW b \in t.start..t.end
      PROVE  \/ r.start <= b /\ b <= r.end
             \/ \E i \in 1..k : /\ L[i].owner = p /\ L[i].type = r.type
                                /\ L[i].start <= b /\ b <= L[i].end
  <2>1. CASE b \in s.start..s.end
    <3>1. \A i \in 1..(k - 1) : i \in 1..k
      BY <1>1
    <3> QED BY <1>2, <2>1, <3>1 DEF Asked
  <2>2. CASE b \notin s.start..s.end
    <3>1. ~(s.start <= b /\ b <= s.end) /\ b \in Int
      BY <1>1, <2>2 DEF Joins
    <3>2. L[k].type = r.type /\ L[k].start <= b /\ b <= L[k].end
      BY <3>1 DEF Joins
    <3>3. k \in 1..k
      BY <1>1
    <3> QED BY <3>2, <3>3
  <2> QED BY <2>1, <2>2
<1>4. t.start <= t.end /\ t.start <= r.start /\ r.end <= t.end
  BY <1>1, <1>2 DEF Asked, Joins
<1> QED BY <1>2, <1>3, <1>4 DEF Asked, Joins

\* A lock of p is taken off the list, and the lock that has taken the request in
\* grows over it.
LEMMA AbsorbOrdered ==
    ASSUME NEW L, NEW k, NEW p, NEW r, NEW s, NEW org, Turn(L, k, p, r, s, org), L[k].owner = p,
           NEW t, Joins(s, t, L[k], r), s.at = 0, t.at = 0, t.seen, t.left = s.left,
           t.new = s.new, t.start = s.start, s.new = 0 => t.end = s.end,
           r.type # "F_UNLCK" => (t.added <=> s.added),
           Len(t.out) = Len(s.out),
           \A x \in 1..Len(s.out) : /\ t.out[x].owner = s.out[x].owner
                                    /\ t.out[x].type = s.out[x].type
                                    /\ x # s.new => t.out[x] = s.out[x]
    PROVE  Ordered(L, k, p, r, t, org)
<1> DEFINE m == Len(s.out)
<1>1. /\ m \in Nat /\ k \in Nat /\ k >= 1 /\ k \in 1..Len(L) /\ Len(L) \in Nat /\ s.start \in Int
      /\ Numbered(L[k]) /\ s.new \in 0..m /\ s.left \in 0..m /\ s.end \in Int
  <2>1. k \in 1..Len(L)
    BY DEF Turn
  <2>2. /\ m \in Nat /\ Len(L) \in Nat /\ s.start \in Int /\ \A i \in 1..Len(L) : Numbered(L[i])
        /\ s.new \in 0..m /\ s.left \in 0..m /\ s.end \in Int
    BY TurnFacts, Zenon
  <2> QED BY <2>1, <2>2
<1>2. /\ NewIn(L, k - 1, p, r, s) /\ LeftIn(L, k - 1, p, r, s) /\ Asked(L, k - 1, p, r, s)
      /\ Lows(p, r, s) /\ Tracks(L, k - 1, s.out, s.new, org)
  BY DEF Turn, Ordered
<1>3. Tracks(L, k, t.out, t.new, org)
  <2>1. org \in [1..m -> 1..k]
    <3>1. org \in [1..m -> 1..(k - 1)] /\ \A i \in 1..(k - 1) : i \in 1..k
      BY <1>1, <1>2 DEF Tracks
    <3> QED BY <3>1
  <2> QED BY <1>2, <2>1 DEF Tracks
<1>4. Taking(L, k, p, t, org)
  <2>1. /\ t.start \in Int /\ t.end \in Int /\ t.start <= s.start /\ s.end <= t.end
        /\ t.start <= L[k].start /\ L[k].end <= t.end
    BY DEF Joins
  <2>2. Len(t.out) \in Nat /\ Len(s.out) <= Len(t.out)
    BY <1>1
  <2> QED BY <2>1, <2>2, TakingGrow
<1>5. Asked(L, k, p, r, t)
  <2>1. t.new = 0 => s.new = 0 /\ t.start = s.start /\ t.end = s.end
    OBVIOUS
  <2>2. r.type = "F_UNLCK" => t.new = 0
    BY <1>2 DEF Asked
  <2>3. r.type # "F_UNLCK" => (t.added => t.new # 0) /\ (t.new # 0 => t.added)
    BY <1>2 DEF Asked
  <2> QED BY <2>1, <2>2, <2>3, AskedJoins
<1>6. s.start <= L[k].start /\ L[k].start <= L[k].end
  BY Later DEF Joins
<1>7. NewIn(L, k, p, r, t)
  <2>1. s.new # 0 => s.new \in 1..m
    BY <1>1
  <2> QED BY <1>2, <1>6, <2>1 DEF NewIn
<1>8. LeftIn(L, k, p, r, t)
  <2> SUFFICES ASSUME s.left # 0
               PROVE  LeftIn(L, k, p, r, t)
    BY DEF LeftIn
  <2>1. s.left \in 1..m /\ s.left # s.new
    BY <1>1, <1>2 DEF LeftIn
  <2>2. t.out[t.left] = s.out[s.left]
    BY <2>1
  <2>3. s.start <= L[k].end
    BY <1>1, <1>6 DEF Numbered
  <2>4. s.out[s.left].end <= t.end
    <3>1. s.out[s.left].end <= s.end /\ s.end <= t.end /\ t.end \in Int
      BY <1>2 DEF LeftIn, Joins
    <3>2. \A x \in 1..m : Numbered(s.out[x])
      BY TurnFacts, Zenon
    <3>3. s.out[s.left].end \in Int /\ s.end \in Int
      BY <1>1, <2>1, <3>2 DEF Numbered
    <3> QED BY <3>1, <3>3
  <2> QED BY <1>2, <2>2, <2>3, <2>4 DEF LeftIn
<1>9. Lows(p, r, t)
  BY <1>2 DEF Lows
<1>10. Highs(L, p, r, t, org) /\ Seen(L, k, p, t)
  BY <1>1 DEF Highs, Seen
<1> QED BY <1>3, <1>4, <1>5, <1>7, <1>8, <1>9, <1>10 DEF Ordered

\* A lock of p takes the request in.
LEMMA TakeOrdered ==
    ASSUME NEW L, NEW k, NEW p, NEW r, NEW s, NEW org, Turn(L, k, p, r, s, org), L[k].owner = p,
           NEW t, Joins(s, t, L[k], r), s.at = 0, t.at = 0, t.seen, t.left = s.left,
           s.new = 0, t.new = Len(s.out) + 1, r.type # "F_UNLCK", t.added,
           NEW g, t.out = Append(s.out, g), g.owner = p, g.type = r.type
    PROVE  Ordered(L, k, p, r, t, Grown(org, Len(s.out), k))
<1> DEFINE m == Len(s.out)
           G == Grown(org, m, k)
           fl == L[k]
<1>1. /\ m \in Nat /\ k \in Nat /\ k >= 1 /\ k \in 1..Len(L) /\ Len(L) \in Nat /\ s.start \in Int
      /\ Numbered(fl) /\ s.left \in 0..m /\ s.end \in Int /\ s.out \in Seq(PosixLock)
      /\ \A x \in 1..m : Numbered(s.out[x])
  <2>1. k \in 1..Len(L)
    BY DEF Turn
  <2>2. /\ m \in Nat /\ Len(L) \in Nat /\ s.start \in Int /\ \A i \in 1..Len(L) : Numbered(L[i])
        /\ s.left \in 0..m /\ s.end \in Int /\ s.out \in Seq(PosixLock)
        /\ \A x \in 1..m : Numbered(s.out[x])
    BY TurnFacts, Zenon
  <2> QED BY <2>1, <2>2
<1>2. /\ LeftIn(L, k - 1, p, r, s) /\ Lows(p, r, s) /\ Tracks(L, k - 1, s.out, s.new, org)
  BY DEF Turn, Ordered
<1>3. Len(t.out) = m + 1 /\ t.out[m + 1] = g /\ \A x \in 1..m : t.out[x] = s.out[x]
  BY <1>1
<1>4. \A x \in 1..m : G[x] = org[x]
  BY <1>1 DEF Grown
<1>5. Tracks(L, k, t.out, t.new, G)
  <2>1. s.new \in 0..m /\ k \in Nat \ {0} /\ g.owner = L[k].owner
    BY <1>1
  <2> QED BY <1>1, <1>2, <2>1, TracksGrow
<1> HIDE DEF G
<1>6. Taking(L, k, p, t, G)
  <2>1. /\ t.start \in Int /\ t.end \in Int /\ t.start <= s.start /\ s.end <= t.end
        /\ t.start <= L[k].start /\ L[k].end <= t.end
    BY DEF Joins
  <2>2. Len(t.out) \in Nat /\ Len(s.out) <= Len(t.out) /\ t.new \notin 1..Len(s.out)
    BY <1>1, <1>3
  <2> QED BY <1>4, <2>1, <2>2, TakingGrow
<1>7. Asked(L, k, p, r, t)
  <2>1. t.new # 0
    BY <1>1
  <2> QED BY <2>1, AskedJoins
<1>8. /\ t.start \in Int /\ t.start <= s.start /\ t.start <= fl.start /\ fl.start <= fl.end
      /\ t.start = s.start \/ (t.start = fl.start /\ fl.type = r.type)
      /\ s.left # 0 => s.start < fl.start
      /\ \A x \in 1..m : s.out[x].owner = p => Low(s.out[x], fl.start, fl.type)
  <2>1. \A x \in 1..m : x # s.new
    BY <1>1
  <2> QED BY <2>1, Later DEF Joins
<1>9. NewIn(L, k, p, r, t)
  BY <1>1, <1>3, <1>8 DEF NewIn
<1>10. LeftIn(L, k, p, r, t)
  <2> SUFFICES ASSUME s.left # 0
               PROVE  LeftIn(L, k, p, r, t)
    BY DEF LeftIn
  <2>1. s.left \in 1..m /\ t.out[t.left] = s.out[s.left]
    BY <1>1, <1>3
  <2>2. t.start = s.start /\ t.start <= fl.end
    BY <1>1, <1>8 DEF Numbered
  <2>3. t.left # t.new /\ t.left < t.new
    BY <1>1, <2>1
  <2>4. s.out[s.left].end <= t.end
    <3>1. s.out[s.left].end <= s.end /\ s.end <= t.end /\ t.end \in Int
      BY <1>2 DEF LeftIn, Joins
    <3>2. s.out[s.left].end \in Int /\ s.end \in Int
      BY <1>1, <2>1 DEF Numbered
    <3> QED BY <3>1, <3>2
  <2> QED BY <1>2, <2>1, <2>2, <2>3, <2>4 DEF LeftIn
<1>11. Lows(p, r, t)
  <2> SUFFICES ASSUME NEW x \in 1..Len(t.out), t.out[x].owner = p, x # t.new, x # t.left
               PROVE  Low(t.out[x], t.start, r.type)
    BY DEF Lows
  <2>1. x \in 1..m /\ t.out[x] = s.out[x] /\ x # s.new
    BY <1>1, <1>3
  <2>2. Low(s.out[x], s.start, r.type)
    BY <1>2, <2>1 DEF Lows
  <2>3. Low(s.out[x], fl.start, fl.type)
    BY <1>8, <2>1
  <2> QED BY <1>8, <2>1, <2>2, <2>3
<1>12. Highs(L, p, r, t, G) /\ Seen(L, k, p, t)
  BY <1>1 DEF Highs, Seen
<1> QED BY <1>5, <1>6, <1>7, <1>9, <1>10, <1>11, <1>12 DEF Ordered, G

\* One turn of the loop.
LEMMA LoopOrdered ==
    ASSUME NEW L, NEW k, NEW p, NEW r, NEW s, NEW org, Turn(L, k, p, r, s, org),
           NEW t, t = P!Loop(p, r, s, L[k])
    PROVE  \E G : Ordered(L, k, p, r, t, G)
<1> DEFINE fl == L[k]
           m == Len(s.out)
<1>1. /\ DOMAIN s = Locals /\ fl \in PosixLock /\ m \in Nat /\ Numbered(fl) /\ s.start \in Int
      /\ s.end \in Int /\ (s.right => s.at # 0) /\ s.out \in Seq(PosixLock) /\ s.new \in 0..m
      /\ s.start \in 0..OFFSET_MAX /\ s.end \in 0..OFFSET_MAX /\ OFFSET_MAX \in Nat
      /\ fl.start \in 0..OFFSET_MAX /\ fl.type # "F_UNLCK"
  <2>1. s.start \in 0..OFFSET_MAX /\ s.end \in 0..OFFSET_MAX /\ k \in 1..Len(L)
    BY DEF Turn, Typed
  <2>2. /\ DOMAIN s = Locals /\ fl \in PosixLock /\ m \in Nat /\ s.start \in Int /\ s.end \in Int
        /\ (\A i \in 1..Len(L) : Numbered(L[i])) /\ (s.right => s.at # 0)
        /\ s.out \in Seq(PosixLock) /\ s.new \in 0..m /\ OFFSET_MAX \in Nat /\ fl.type # "F_UNLCK"
    BY TurnFacts, Zenon
  <2>3. fl.start \in 0..OFFSET_MAX
    BY <2>2, LockFields
  <2> QED BY <2>1, <2>2, <2>3
<1>2. s.start <= s.end /\ s.end < OFFSET_MAX
      /\ (r.type # "F_UNLCK" => (s.added => s.new # 0) /\ (s.new # 0 => s.added))
      /\ (r.type = "F_UNLCK" => s.new = 0)
  BY DEF Turn, Ordered, Asked
<1>3. fl.owner = p => fl.start <= fl.end /\ fl.end < OFFSET_MAX
  BY Later
<1>4. P!Wrap(s.end + 1) = s.end + 1
  BY <1>1, <1>2 DEF P!Wrap
<1> HIDE DEF fl, m
<1>6. CASE OtherCase(s, t, fl, p)
  <2>1. CASE s.at # 0 /\ Stays(s, t, fl, s.at, s.seen, s.added, s.left, s.right)
    BY <2>1, BehindOrdered DEF fl
  <2>2. CASE /\ s.at = 0 /\ fl.owner # p /\ ~s.seen
             /\ Stays(s, t, fl, s.at, s.seen, s.added, s.left, s.right)
    <3>1. Appended(s, t, L[k], r) /\ t.at = 0 /\ ~t.seen /\ t.left = s.left
      BY <2>2 DEF Stays, Local, Appended, fl
    <3> QED BY <2>2, <3>1, PassOrdered DEF fl
  <2>3. CASE /\ s.at = 0 /\ fl.owner # p /\ s.seen
             /\ Stays(s, t, fl, m + 1, s.seen, s.added, s.left, s.right)
    <3>0. ~s.right
      BY <1>1, <2>3
    <3>1. Appended(s, t, L[k], r) /\ t.at = Len(s.out) + 1 /\ ~t.right /\ t.left = s.left
      BY <2>3, <3>0 DEF m, Stays, Local, Appended, fl
    <3> QED BY <2>3, <3>1, BreakOrdered DEF fl
  <2> QED BY <1>6, <2>1, <2>2, <2>3 DEF OtherCase, m
<1>7. CASE SameCase(s, t, fl, p, r)
  <2>0. s.at = 0 /\ fl.owner = p /\ fl.type = r.type /\ r.type # "F_UNLCK" /\ ~s.right
    BY <1>1, <1>7 DEF SameCase
  <2>1. CASE /\ fl.end < s.start - 1
             /\ Stays(s, t, fl, s.at, TRUE, s.added, s.left, s.right)
    <3>1. Appended(s, t, L[k], r) /\ t.at = 0 /\ t.seen /\ t.left = s.left
      BY <2>0, <2>1 DEF Stays, Local, Appended, fl
    <3>2. Low(L[k], s.start, r.type)
      BY <1>1, <2>1 DEF Low, Numbered, fl
    <3> QED BY <2>0, <3>1, <3>2, PassOrdered DEF fl
  <2>2. CASE /\ fl.start > P!Wrap(s.end + 1)
             /\ Stays(s, t, fl, m + 1, s.seen, s.added, s.left, s.right)
    <3>1. Appended(s, t, L[k], r) /\ t.at = Len(s.out) + 1 /\ ~t.right /\ t.left = s.left
      BY <2>0, <2>2 DEF m, Stays, Local, Appended, fl
    <3>2. High(L[k], s.end, r.type)
      BY <1>1, <1>4, <2>2 DEF High, Numbered, fl
    <3> QED BY <2>0, <3>1, <3>2, BreakOrdered DEF fl
  <2> DEFINE lo == Min({fl.start, s.start})
             hi == Max({fl.end, s.end})
  <2>3. lo = (IF fl.start <= s.start THEN fl.start ELSE s.start)
        /\ hi = (IF fl.end >= s.end THEN fl.end ELSE s.end)
    BY <1>1, MinMax DEF Numbered
  <2> HIDE DEF lo, hi
  <2>4. ASSUME ~(fl.end < s.start - 1), ~(fl.start > P!Wrap(s.end + 1)),
               t.start = lo, t.end = hi
        PROVE  Joins(s, t, L[k], r) /\ lo \in 0..OFFSET_MAX /\ hi \in -1..OFFSET_MAX
    <3>1. /\ lo \in 0..OFFSET_MAX /\ hi \in -1..OFFSET_MAX /\ hi < OFFSET_MAX /\ lo \in Int /\ hi \in Int
          /\ lo <= s.start /\ s.end <= hi /\ lo <= fl.start /\ fl.end <= hi
          /\ lo = s.start \/ lo = fl.start
      BY <1>1, <1>2, <1>3, <2>0, <2>3 DEF Numbered
    <3>2. ASSUME NEW b \in lo..hi
          PROVE  (s.start <= b /\ b <= s.end) \/ (fl.start <= b /\ b <= fl.end)
      BY <1>1, <1>2, <1>3, <1>4, <2>0, <2>3, <2>4 DEF Numbered
    <3> QED BY <2>0, <2>4, <3>1, <3>2 DEF Joins, fl
  <2>5. CASE /\ ~(fl.end < s.start - 1) /\ ~(fl.start > P!Wrap(s.end + 1)) /\ s.new # 0
             /\ Local(t, Widened(s.out, s.new, lo, hi), s.at, TRUE, lo, hi, s.added, s.new,
                      s.left, s.right, s.woken \cup ToSet(fl.block))
    <3>1. /\ t.out = Widened(s.out, s.new, lo, hi) /\ t.at = 0 /\ t.seen /\ t.start = lo
          /\ t.end = hi /\ t.added = s.added /\ t.new = s.new /\ t.left = s.left
      BY <2>0, <2>5 DEF Local
    <3>2. Joins(s, t, L[k], r) /\ lo \in 0..OFFSET_MAX /\ hi \in -1..OFFSET_MAX
      BY <2>4, <2>5, <3>1
    <3>3. t.start = s.start
      <4>1. s.start < fl.start
        BY <2>0, <2>5, Later DEF fl
      <4> QED BY <1>1, <2>3, <3>1, <4>1 DEF Numbered
    <3>4. s.new \in 1..m /\ s.out[s.new] \in PosixLock
      BY <1>1, <2>5 DEF m
    <3>5. /\ Len(t.out) = Len(s.out) /\ t.out[s.new] = Ranged(s.out[s.new], lo, hi)
          /\ \A x \in 1..Len(s.out) : x # s.new => t.out[x] = s.out[x]
      BY <1>1, <3>1, <3>2, <3>4, WidenFacts DEF m
    <3>6. t.out[s.new].owner = s.out[s.new].owner /\ t.out[s.new].type = s.out[s.new].type
      BY <3>2, <3>4, <3>5, LockRange
    <3>7. \A x \in 1..Len(s.out) : /\ t.out[x].owner = s.out[x].owner
                                   /\ t.out[x].type = s.out[x].type
                                   /\ x # s.new => t.out[x] = s.out[x]
      BY <3>5, <3>6
    <3>8. /\ L[k].owner = p /\ s.at = 0 /\ t.at = 0 /\ t.seen /\ t.left = s.left /\ t.new = s.new
          /\ (s.new = 0 => t.end = s.end) /\ Len(t.out) = Len(s.out)
          /\ r.type # "F_UNLCK" => (t.added <=> s.added)
      BY <2>0, <2>5, <3>1, <3>5 DEF fl
    <3>9. Ordered(L, k, p, r, t, org)
      BY <3>2, <3>3, <3>7, <3>8, AbsorbOrdered, ZenonT(40)
    <3> QED BY <3>9
  <2>6. CASE /\ ~(fl.end < s.start - 1) /\ ~(fl.start > P!Wrap(s.end + 1)) /\ s.new = 0
             /\ Local(t, Append(s.out, Ranged(fl, lo, hi)), s.at, TRUE, lo, hi, TRUE, m + 1,
                      s.left, s.right, s.woken)
    <3> DEFINE g == Ranged(fl, lo, hi)
    <3>1. /\ t.out = Append(s.out, g) /\ t.at = 0 /\ t.seen /\ t.start = lo
          /\ t.end = hi /\ t.added /\ t.new = Len(s.out) + 1 /\ t.left = s.left
      BY <2>0, <2>6 DEF Local, m
    <3>2. Joins(s, t, L[k], r) /\ lo \in 0..OFFSET_MAX /\ hi \in -1..OFFSET_MAX
      BY <2>4, <2>6, <3>1
    <3>3. g.owner = p /\ g.type = r.type
      <4>1. g.owner = fl.owner /\ g.type = fl.type
        <5>1. fl \in PosixLock
          BY <1>1
        <5> HIDE DEF fl, lo, hi
        <5> QED BY <3>2, <5>1, LockRange
      <4> QED BY <2>0, <4>1
    <3> HIDE DEF g
    <3>4. Ordered(L, k, p, r, t, Grown(org, Len(s.out), k))
      BY <2>0, <2>6, <3>1, <3>2, <3>3, TakeOrdered DEF fl
    <3> QED BY <3>4
  <2> QED BY <1>7, <2>1, <2>2, <2>5, <2>6 DEF SameCase, lo, hi, m
<1>8. CASE DiffCase(s, t, fl, p, r)
  <2>0. s.at = 0 /\ fl.owner = p /\ fl.type # r.type /\ ~s.right
    BY <1>1, <1>8 DEF DiffCase
  <2>00. r.type # "F_UNLCK" => (Ad(s, r) <=> s.added)
    BY DEF Ad
  <2>1. CASE /\ fl.end < s.start
             /\ Stays(s, t, fl, s.at, TRUE, s.added, s.left, s.right)
    <3>1. Appended(s, t, L[k], r) /\ t.at = 0 /\ t.seen /\ t.left = s.left
      BY <2>0, <2>1 DEF Stays, Local, Appended, fl
    <3>2. Low(L[k], s.start, r.type)
      BY <1>1, <2>0, <2>1 DEF Low, Numbered, fl
    <3> QED BY <2>0, <3>1, <3>2, PassOrdered DEF fl
  <2>2. CASE /\ fl.start > s.end
             /\ Stays(s, t, fl, m + 1, s.seen, s.added, s.left, s.right)
    <3>1. Appended(s, t, L[k], r) /\ t.at = Len(s.out) + 1 /\ ~t.right /\ t.left = s.left
      BY <2>0, <2>2 DEF m, Stays, Local, Appended, fl
    <3>2. High(L[k], s.end, r.type)
      BY <1>1, <2>0, <2>2 DEF High, Numbered, fl
    <3> QED BY <2>0, <3>1, <3>2, BreakOrdered DEF fl
  <2>3. CASE /\ ~(fl.end < s.start) /\ ~(fl.start > s.end) /\ fl.end > s.end
             /\ Stays(s, t, fl, m + 1, s.seen, Ad(s, r),
                      IF fl.start < s.start THEN m + 1 ELSE s.left, TRUE)
    <3>1. /\ Appended(s, t, L[k], r) /\ t.at = Len(s.out) + 1 /\ t.right
          /\ t.left = IF L[k].start < s.start THEN Len(s.out) + 1 ELSE s.left
      BY <2>00, <2>3 DEF m, fl, Stays, Local, Appended
    <3>2. L[k].start <= s.end /\ s.start <= L[k].end /\ s.end < L[k].end
      BY <1>1, <2>3 DEF Numbered, fl
    <3> QED BY <2>0, <3>1, <3>2, BreakOrdered DEF fl
  <2>4. CASE /\ ~(fl.end < s.start) /\ ~(fl.end > s.end) /\ fl.start < s.start
             /\ Stays(s, t, fl, s.at, TRUE, Ad(s, r), m + 1, s.right)
    <3>1. Appended(s, t, L[k], r) /\ t.at = 0 /\ t.seen /\ t.left = Len(s.out) + 1
      BY <2>0, <2>00, <2>4 DEF m, Stays, Local, Appended, fl
    <3>2. L[k].start < s.start /\ s.start <= L[k].end /\ L[k].end <= s.end
      BY <1>1, <2>4 DEF Numbered, fl
    <3> QED BY <2>0, <3>1, <3>2, BeginOrdered DEF fl
  <2>5. ASSUME ~(fl.end > s.end), ~(fl.start < s.start), t.start = s.start, t.end = s.end
        PROVE  Joins(s, t, L[k], r)
    BY <1>1, <1>2, <2>5 DEF Joins, Numbered, fl
  <2>6. CASE /\ ~(fl.end > s.end) /\ ~(fl.start < s.start)
             /\ Local(t, s.out, s.at, TRUE, s.start, s.end, Ad(s, r), s.new, s.left, s.right,
                      s.woken \cup ToSet(fl.block))
    <3>1. /\ t.out = s.out /\ t.at = 0 /\ t.seen /\ t.start = s.start /\ t.end = s.end
          /\ t.added = Ad(s, r) /\ t.new = s.new /\ t.left = s.left
      BY <2>0, <2>6 DEF Local
    <3>2. Joins(s, t, L[k], r) /\ (r.type # "F_UNLCK" => (t.added <=> s.added))
      BY <2>00, <2>5, <2>6, <3>1
    <3>3. Ordered(L, k, p, r, t, org)
      BY <2>0, <3>1, <3>2, AbsorbOrdered DEF fl
    <3> QED BY <3>3
  <2>7. CASE /\ ~(fl.end > s.end) /\ ~(fl.start < s.start) /\ ~Ad(s, r)
             /\ Local(t, Append(s.out, Taken(fl, s.start, s.end, r.type)), s.at,
                      TRUE, s.start, s.end, TRUE, m + 1, s.left, s.right,
                      s.woken \cup ToSet(fl.block))
    <3> DEFINE g == Taken(fl, s.start, s.end, r.type)
    <3>1. /\ t.out = Append(s.out, g) /\ t.at = 0 /\ t.seen /\ t.start = s.start
          /\ t.end = s.end /\ t.added /\ t.new = Len(s.out) + 1 /\ t.left = s.left
      BY <2>0, <2>7 DEF Local, m
    <3>2. Joins(s, t, L[k], r)
      BY <2>5, <2>7, <3>1
    <3>3. ~s.added /\ r.type # "F_UNLCK"
      BY <2>7 DEF Ad
    <3>4. s.new = 0
      BY <1>2, <3>3
    <3>5. g.owner = p /\ g.type = r.type
      <4>1. r.type \in {"F_RDLCK", "F_WRLCK"}
        BY <3>3, RequestFields DEF Turn
      <4>2. s.end \in -1..OFFSET_MAX
        BY <1>1
      <4>3. Taken(fl, s.start, s.end, r.type).owner = fl.owner
            /\ Taken(fl, s.start, s.end, r.type).type = r.type
        <5>1. fl \in PosixLock /\ s.start \in 0..OFFSET_MAX
          BY <1>1
        <5> QED BY <4>1, <4>2, <5>1, LockTaken
      <4> QED BY <2>0, <4>3
    <3> HIDE DEF g
    <3>6. Ordered(L, k, p, r, t, Grown(org, Len(s.out), k))
      BY <2>0, <3>1, <3>2, <3>3, <3>4, <3>5, TakeOrdered DEF fl
    <3> QED BY <3>6
  <2> QED BY <1>8, <2>1, <2>2, <2>3, <2>4, <2>6, <2>7 DEF DiffCase, m
<1> QED BY <1>1, <1>6, <1>7, <1>8, LoopCases DEF fl

\* An unlock that has met none of p's locks has changed nothing.
Untouched(L, k, r, s) ==
    r.type = "F_UNLCK" /\ ~s.added => /\ s.left = 0 /\ ~s.right /\ Len(s.out) = k
                                      /\ \A i \in 1..k : s.out[i] = L[i]

LEMMA LoopUntouched ==
    ASSUME NEW L \in Seq(PosixLock), NEW k \in 1..Len(L), NEW p, NEW r, NEW s, Typed(s),
           Untouched(L, k - 1, r, s), NEW t, t = P!Loop(p, r, s, L[k])
    PROVE  Untouched(L, k, r, t)
<1> DEFINE fl == L[k]
<1> SUFFICES ASSUME r.type = "F_UNLCK", ~t.added
             PROVE  t.left = 0 /\ ~t.right /\ Len(t.out) = k /\ \A i \in 1..k : t.out[i] = L[i]
  BY DEF Untouched
<1>1. fl \in PosixLock /\ fl.type # r.type /\ DOMAIN s = Locals /\ s.out \in Seq(PosixLock)
  <2>1. fl \in PosixLock
    OBVIOUS
  <2> QED BY <2>1, LockFields DEF Typed
<1> HIDE DEF fl
<1>2. t.out = Append(s.out, fl) /\ ~s.added /\ t.left = s.left /\ t.right = s.right
  <2>1. OtherCase(s, t, fl, p) \/ SameCase(s, t, fl, p, r) \/ DiffCase(s, t, fl, p, r)
    BY <1>1, LoopCases DEF fl
  <2>2. CASE OtherCase(s, t, fl, p)
    BY <2>2 DEF OtherCase, Stays, Local
  <2>3. CASE SameCase(s, t, fl, p, r)
    BY <1>1, <2>3 DEF SameCase
  <2>4. Ad(s, r)
    BY DEF Ad
  <2>5. CASE DiffCase(s, t, fl, p, r)
    BY <2>4, <2>5 DEF DiffCase, Stays, Local
  <2> QED BY <2>1, <2>2, <2>3, <2>5
<1>3. s.left = 0 /\ ~s.right /\ Len(s.out) = k - 1 /\ \A i \in 1..(k - 1) : s.out[i] = L[i]
  BY <1>2 DEF Untouched
<1>4. Len(t.out) = k /\ t.out[k] = fl /\ \A i \in 1..(k - 1) : t.out[i] = s.out[i]
  BY <1>1, <1>2, <1>3
<1>5. \A i \in 1..k : i = k \/ i \in 1..(k - 1)
  OBVIOUS
<1> QED BY <1>2, <1>3, <1>4, <1>5 DEF fl

LEMMA StartOrdered ==
    ASSUME InsideFile, NEW L, NEW p, NEW r \in P!LockRequests
    PROVE  Ordered(L, 0, p, r, Start(r), << >>) /\ Untouched(L, 0, r, Start(r))
<1> DEFINE s == Start(r)
<1>1. /\ s.out = << >> /\ s.at = 0 /\ ~s.seen /\ s.start = r.start /\ s.end = r.end
      /\ ~s.added /\ s.new = 0 /\ s.left = 0 /\ ~s.right
  BY DEF Start
<1>2. Len(<< >>) = 0 /\ 1..0 = {} /\ << >> \in [{} -> {}]
  OBVIOUS
<1>3. r.start <= r.end /\ r.end < OFFSET_MAX /\ r.start \in Int /\ r.end \in Int
  BY RequestInside, RequestFields
<1> HIDE DEF s
<1>4. Tracks(L, 0, s.out, s.new, << >>)
  BY <1>1, <1>2 DEF Tracks
<1>5. Taking(L, 0, p, s, << >>)
  BY <1>2 DEF Taking
<1>6. Asked(L, 0, p, r, s)
  BY <1>1, <1>3 DEF Asked
<1>7. /\ NewIn(L, 0, p, r, s) /\ LeftIn(L, 0, p, r, s) /\ Lows(p, r, s)
      /\ Highs(L, p, r, s, << >>) /\ Seen(L, 0, p, s)
  BY <1>1, <1>2 DEF NewIn, LeftIn, Lows, Highs, Seen
<1>8. Untouched(L, 0, r, s)
  BY <1>1, <1>2 DEF Untouched
<1> QED BY <1>4, <1>5, <1>6, <1>7, <1>8 DEF Ordered, s

\* The locals at the end of the loop.
LEMMA LoopsOrdered ==
    ASSUME InsideFile, NEW L \in Seq(PosixLock), Once(L), Sorted(L), NEW p,
           NEW r \in P!LockRequests
    PROVE  \E u, org : /\ Typed(u) /\ Ordered(L, Len(L), p, r, u, org) /\ Untouched(L, Len(L), r, u)
                       /\ Left(P!Loops(L, p, r), u)
<1>1. PICK run :
         /\ run[0] = Start(r)
         /\ \A k \in 1..Len(L) : run[k] = P!Loop(p, r, run[k - 1], L[k])
         /\ P!Loops(L, p, r) = [run[Len(L)] EXCEPT !.at =
                                   IF @ = 0 THEN Len(run[Len(L)].out) + 1 ELSE @]
  BY LoopsRuns
<1> DEFINE Good(k) == /\ Typed(run[k]) /\ Descends(L, k, run[k].out, run[k].woken)
                      /\ Untouched(L, k, r, run[k]) /\ \E org : Ordered(L, k, p, r, run[k], org)
           T == {k \in Nat : k <= Len(L) => Good(k)}
<1>2. Len(L) \in Nat
  OBVIOUS
<1>3. 0 \in T
  <2>1. /\ Typed(run[0]) /\ Descends(L, 0, run[0].out, run[0].woken)
        /\ Ordered(L, 0, p, r, run[0], << >>) /\ Untouched(L, 0, r, run[0])
    BY <1>1, StartFacts, StartOrdered
  <2>2. Good(0)
    BY <2>1
  <2> HIDE DEF Good
  <2> QED BY <2>2
<1>4. ASSUME NEW k \in T
      PROVE  k + 1 \in T
  <2>1. k \in Nat /\ k + 1 \in Nat
    OBVIOUS
  <2> SUFFICES ASSUME k + 1 <= Len(L)
               PROVE  Good(k + 1)
    BY <2>1
  <2>2. k + 1 \in 1..Len(L) /\ (k + 1) - 1 = k /\ Good(k)
    BY <1>2, <2>1
  <2>3. run[k + 1] = P!Loop(p, r, run[k], L[k + 1])
    BY <1>1, <2>2
  <2> DEFINE s == run[k]
             t == run[k + 1]
             n == k + 1
  <2>4. /\ n \in 1..Len(L) /\ Typed(s) /\ Descends(L, n - 1, s.out, s.woken)
        /\ Untouched(L, n - 1, r, s) /\ t = P!Loop(p, r, s, L[n])
        /\ \E org : Ordered(L, n - 1, p, r, s, org)
    BY <2>2, <2>3
  <2> HIDE DEF s, t, n
  <2>5. Typed(t) /\ Descends(L, n, t.out, t.woken)
    BY <2>4, LoopStep
  <2>6. Untouched(L, n, r, t)
    BY <2>4, LoopUntouched
  <2>7. PICK org : Ordered(L, n - 1, p, r, s, org)
    BY <2>4
  <2>8. Turn(L, n, p, r, s, org)
    BY <2>4, <2>7 DEF Turn
  <2>9. \E G : Ordered(L, n, p, r, t, G)
    BY <2>4, <2>8, LoopOrdered
  <2> QED BY <2>5, <2>6, <2>9 DEF t, n
<1> HIDE DEF T
<1>5. T = Nat
  BY <1>3, <1>4, Induction DEF T
<1>6. Good(Len(L))
  BY <1>2, <1>5 DEF T
<1> DEFINE u == run[Len(L)]
<1>7. Typed(u) /\ Untouched(L, Len(L), r, u) /\ \E org : Ordered(L, Len(L), p, r, u, org)
  BY <1>6
<1>8. P!Loops(L, p, r) = [u EXCEPT !.at = IF @ = 0 THEN Len(u.out) + 1 ELSE @]
  BY <1>1
<1> HIDE DEF u
<1>9. Left(P!Loops(L, p, r), u)
  BY <1>7, <1>8 DEF Left, Local, Locals, Typed
<1> QED BY <1>7, <1>9

----------------------------------------------------------------------------
(* The list after the loop.                                                 *)

\* The locals when the loop is left, with at set.
Ends(L, p, r, s, org) ==
    /\ Tracks(L, Len(L), s.out, s.new, org) /\ Taking(L, Len(L), p, s, org)
    /\ Asked(L, Len(L), p, r, s)
    /\ s.new # 0 => /\ s.out[s.new].owner = p /\ s.out[s.new].type = r.type
                    /\ s.out[s.new].start = s.start /\ s.out[s.new].end = s.end
                    /\ s.at = s.new + 1
    /\ s.left # 0 => /\ s.out[s.left].owner = p /\ s.out[s.left].type # r.type
                     /\ s.out[s.left].start < s.start /\ s.start <= s.out[s.left].end
                     /\ s.left # s.new /\ (s.new # 0 => s.left < s.new)
                     /\ s.left <= s.at /\ (s.left = s.at => s.right)
                     /\ s.left # s.at => s.out[s.left].end <= s.end
    /\ \A x \in 1..(s.at - 1) : s.out[x].owner = p /\ x # s.new /\ x # s.left
                                    => Low(s.out[x], s.start, r.type)
    /\ \A x \in s.at..Len(s.out) :
          s.out[x].owner = p => /\ s.out[s.at].owner = p
                                /\ (x = s.at /\ s.right) \/ High(s.out[x], s.end, r.type)
    /\ s.right => /\ s.at <= Len(s.out)
                  /\ s.out[s.at].owner = p /\ s.out[s.at].type # r.type
                  /\ s.end < s.out[s.at].end /\ s.out[s.at].start <= s.end
                  /\ s.left # s.at => s.start <= s.out[s.at].start
    /\ s.at <= Len(s.out) /\ s.out[s.at].owner # p => org[s.at] > 1 /\ L[org[s.at] - 1].owner = p
    /\ s.at = Len(s.out) + 1 => \/ Len(L) >= 1 /\ L[Len(L)].owner = p
                                \/ \A i \in 1..Len(L) : L[i].owner # p

LEMMA LoopEnds ==
    ASSUME NEW L, NEW p, NEW r, NEW u, NEW org, Typed(u), Ordered(L, Len(L), p, r, u, org),
           NEW s, Left(s, u)
    PROVE  Ends(L, p, r, s, org)
<1> DEFINE m == Len(u.out)
<1>1. /\ s.out = u.out /\ s.at = (IF u.at = 0 THEN m + 1 ELSE u.at) /\ s.start = u.start
      /\ s.end = u.end /\ s.added = u.added /\ s.new = u.new /\ s.left = u.left /\ s.right = u.right
  BY DEF Left, Local
<1>2. /\ m \in Nat /\ u.at \in 0..m /\ u.new \in 0..m /\ u.left \in 0..m /\ (u.right => u.at # 0)
      /\ u.new # 0 => u.out[u.new].start = u.start /\ u.out[u.new].end = u.end
  BY DEF Typed
<1>3. /\ Tracks(L, Len(L), s.out, s.new, org) /\ Taking(L, Len(L), p, s, org)
      /\ Asked(L, Len(L), p, r, s)
  BY <1>1 DEF Ordered, Taking, Asked
<1>4. /\ NewIn(L, Len(L), p, r, u) /\ LeftIn(L, Len(L), p, r, u) /\ Lows(p, r, u)
      /\ Highs(L, p, r, u, org) /\ Seen(L, Len(L), p, u)
  BY DEF Ordered
<1> HIDE DEF m
<1>5. s.new # 0 => /\ s.out[s.new].owner = p /\ s.out[s.new].type = r.type
                   /\ s.out[s.new].start = s.start /\ s.out[s.new].end = s.end
                   /\ s.at = s.new + 1
  BY <1>1, <1>2, <1>4 DEF NewIn, m
<1>6. s.left # 0 => /\ s.out[s.left].owner = p /\ s.out[s.left].type # r.type
                    /\ s.out[s.left].start < s.start /\ s.start <= s.out[s.left].end
                    /\ s.left # s.new /\ (s.new # 0 => s.left < s.new)
                    /\ s.left <= s.at /\ (s.left = s.at => s.right)
                    /\ s.left # s.at => s.out[s.left].end <= s.end
  BY <1>1, <1>2, <1>4 DEF LeftIn
<1>7. ASSUME NEW x \in 1..(s.at - 1), s.out[x].owner = p, x # s.new, x # s.left
      PROVE  Low(s.out[x], s.start, r.type)
  <2>1. x \in 1..Len(u.out) /\ (u.at = 0 \/ x < u.at)
    BY <1>1, <1>2 DEF m
  <2> QED BY <1>1, <1>4, <1>7, <2>1 DEF Lows
<1>8. ASSUME NEW x \in s.at..Len(s.out), s.out[x].owner = p
      PROVE  /\ s.out[s.at].owner = p
             /\ (x = s.at /\ s.right) \/ High(s.out[x], s.end, r.type)
  <2>1. u.at # 0 /\ s.at = u.at
    BY <1>1, <1>2 DEF m
  <2> QED BY <1>1, <1>4, <1>8, <2>1 DEF Highs
<1>9. s.right => /\ s.at <= Len(s.out)
                 /\ s.out[s.at].owner = p /\ s.out[s.at].type # r.type
                 /\ s.end < s.out[s.at].end /\ s.out[s.at].start <= s.end
                 /\ s.left # s.at => s.start <= s.out[s.at].start
  BY <1>1, <1>2, <1>4 DEF Highs, m
<1>10. s.at <= Len(s.out) /\ s.out[s.at].owner # p => org[s.at] > 1 /\ L[org[s.at] - 1].owner = p
  BY <1>1, <1>2, <1>4 DEF Highs, m
<1>11. s.at = Len(s.out) + 1 => \/ Len(L) >= 1 /\ L[Len(L)].owner = p
                                \/ \A i \in 1..Len(L) : L[i].owner # p
  BY <1>1, <1>2, <1>4 DEF Seen, m
<1> QED BY <1>3, <1>5, <1>6, <1>7, <1>8, <1>9, <1>10, <1>11 DEF Ends

\* f is a part of the lock g.
PartOf(f, g) ==
    /\ f.owner = g.owner /\ f.type = g.type
    /\ g.start <= f.start /\ f.start <= f.end /\ f.end <= g.end

\* M is L with the bytes a to b of p taken out: o says which lock a lock of M is
\* a part of.  Only the one at q is new: it holds all those bytes, with type ty,
\* and stands among p's.
Parts(L, M, o, p, q, a, b, ty) ==
    /\ q \in 0..Len(M)
    /\ \A y \in 1..Len(M) : y # q => o[y] \in 1..Len(L) /\ PartOf(M[y], L[o[y]])
    /\ \A y, z \in 1..Len(M) : y < z => o[y] <= o[z]
    /\ \A y, z \in 1..Len(M) :
          y < z /\ y # q /\ z # q /\ o[y] = o[z] => Low(M[y], M[z].start, M[z].type)
    /\ \A y \in 1..Len(M) : y # q /\ M[y].owner = p => M[y].end < a \/ b < M[y].start
    /\ q # 0 =>
          /\ M[q].owner = p /\ M[q].type = ty /\ M[q].start = a /\ M[q].end = b
          /\ \A y \in 1..Len(M) : M[y].owner = p => /\ y < q => Low(M[y], a, ty)
                                                    /\ y > q => High(M[y], b, ty)
          /\ \/ o[q] \in 1..Len(L) /\ L[o[q]].owner = p
             \/ /\ q = Len(M) /\ o[q] \notin 1..Len(L)
                /\ \A i \in 1..Len(L) : L[i].owner # p

LEMMA LowParts ==
    ASSUME NEW f, NEW g, NEW x, NEW y, Numbered(f), Numbered(g), Numbered(x), Numbered(y),
           PartOf(x, f), PartOf(y, g), Low(f, g.start, g.type)
    PROVE  Low(x, y.start, y.type)
<1>1. x.end <= f.end /\ f.end < g.start /\ g.start <= y.start
  BY DEF PartOf, Low
<1>2. x.type = y.type => f.end + 1 < g.start
  BY DEF PartOf, Low
<1> QED BY <1>1, <1>2 DEF Low, Numbered

LEMMA PartsSorted ==
    ASSUME NEW L \in Seq(PosixLock), Sorted(L), NEW M \in Seq(PosixLock), NEW o, NEW p, NEW q,
           NEW a \in Int, NEW b \in Int, a <= b, b < OFFSET_MAX, NEW ty,
           o \in [1..Len(M) -> Int], Parts(L, M, o, p, q, a, b, ty)
    PROVE  Sorted(M)
<1>1. /\ Len(L) \in Nat /\ Len(M) \in Nat /\ OFFSET_MAX \in Nat /\ q \in 0..Len(M)
      /\ (\A i \in 1..Len(L) : Numbered(L[i])) /\ (\A y \in 1..Len(M) : Numbered(M[y]))
      /\ \A y \in 1..Len(M) : o[y] \in Int
  BY ConstAssumption, LockFields DEF Numbered, Parts
<1>2. \A y \in 1..Len(M) : y # q => o[y] \in 1..Len(L) /\ PartOf(M[y], L[o[y]])
  BY DEF Parts
<1>3. ASSUME NEW y \in 1..Len(M)
      PROVE  M[y].start <= M[y].end /\ M[y].end < OFFSET_MAX
  <2>1. CASE y = q
    BY <1>1, <2>1 DEF Parts
  <2>2. CASE y # q
    <3>1. o[y] \in 1..Len(L) /\ PartOf(M[y], L[o[y]]) /\ L[o[y]].end < OFFSET_MAX
      BY <1>2, <2>2 DEF Sorted
    <3> QED BY <1>1, <3>1 DEF PartOf, Numbered
  <2> QED BY <2>1, <2>2
<1>4. ASSUME NEW y \in 1..Len(M), NEW z \in 1..Len(M), y < z, M[y].owner = M[z].owner
      PROVE  Low(M[y], M[z].start, M[z].type)
  <2>1. CASE z = q
    BY <1>1, <1>4, <2>1 DEF Parts
  <2>2. CASE y = q
    <3>1. High(M[z], M[y].end, M[y].type)
      BY <1>1, <1>4, <2>2 DEF Parts
    <3> QED BY <1>1, <3>1 DEF High, Low, Numbered
  <2>3. CASE y # q /\ z # q /\ o[y] = o[z]
    BY <1>4, <2>3 DEF Parts
  <2>4. CASE y # q /\ z # q /\ o[y] # o[z]
    <3>1. /\ o[y] \in 1..Len(L) /\ PartOf(M[y], L[o[y]])
          /\ o[z] \in 1..Len(L) /\ PartOf(M[z], L[o[z]])
      BY <1>2, <2>4
    <3>2. o[y] < o[z]
      <4>1. o[y] <= o[z]
        BY <1>4 DEF Parts
      <4>2. o[y] \in Int /\ o[z] \in Int
        BY <1>1
      <4> QED BY <2>4, <4>1, <4>2
    <3>3. Low(L[o[y]], L[o[z]].start, L[o[z]].type)
      <4>1. L[o[y]].owner = L[o[z]].owner
        BY <1>4, <3>1 DEF PartOf
      <4> QED BY <3>1, <3>2, <4>1 DEF Sorted
    <3>4. Numbered(L[o[y]]) /\ Numbered(L[o[z]]) /\ Numbered(M[y]) /\ Numbered(M[z])
      BY <1>1, <3>1
    <3> QED BY <3>1, <3>3, <3>4, LowParts
  <2> QED BY <2>1, <2>2, <2>3, <2>4
<1>5. ASSUME NEW x \in 1..Len(M), NEW y \in 1..Len(M), NEW z \in 1..Len(M),
             x <= y, y <= z, M[x].owner = M[z].owner
      PROVE  M[y].owner = M[x].owner
  <2> SUFFICES ASSUME x < y, y < z
               PROVE  M[y].owner = M[x].owner
    BY <1>1, <1>5
  <2>1. CASE q \in {x, y, z} /\ o[q] \notin 1..Len(L)
    <3>1. q = Len(M) /\ (\A i \in 1..Len(L) : L[i].owner # p) /\ M[q].owner = p
      <4>1. q # 0
        BY <1>1, <2>1
      <4> QED BY <2>1, <4>1 DEF Parts
    <3>2. z = q /\ x # q
      BY <1>1, <2>1, <3>1
    <3>3. L[o[x]].owner = p /\ o[x] \in 1..Len(L)
      BY <1>2, <1>5, <3>1, <3>2 DEF PartOf
    <3> QED BY <3>1, <3>3
  <2>2. CASE q \notin {x, y, z} \/ o[q] \in 1..Len(L)
    <3>1. ASSUME NEW w \in {x, y, z}
          PROVE  o[w] \in 1..Len(L) /\ M[w].owner = L[o[w]].owner
      <4>1. CASE w # q
        BY <1>2, <4>1 DEF PartOf
      <4>2. CASE w = q
        <5>1. o[q] \in 1..Len(L) /\ q # 0 /\ Len(L) \in Nat
          BY <1>1, <2>2, <4>2
        <5>2. M[q].owner = p /\ L[o[q]].owner = p
          BY <5>1 DEF Parts
        <5> QED BY <4>2, <5>1, <5>2
      <4> QED BY <4>1, <4>2
    <3>2. o[x] <= o[y] /\ o[y] <= o[z]
      BY DEF Parts
    <3>3. L[o[y]].owner = L[o[x]].owner
      BY <1>5, <3>1, <3>2 DEF Sorted
    <3> QED BY <3>1, <3>3
  <2> QED BY <2>1, <2>2
<1> QED BY <1>3, <1>4, <1>5 DEF Sorted

\* The rests of a lock of the other type, below a and above b.
LEMMA Rests ==
    ASSUME NEW f \in PosixLock, NEW a \in 0..OFFSET_MAX, NEW b \in 0..OFFSET_MAX, b < OFFSET_MAX,
           NEW ty, f.type # ty
    PROVE  /\ f.start < a /\ a <= f.end =>
                 /\ PartOf(CutEnd(f, a - 1), f) /\ Low(CutEnd(f, a - 1), a, ty)
                 /\ CutEnd(f, a - 1).start = f.start /\ CutEnd(f, a - 1).end = a - 1
                 /\ CutEnd(f, a - 1).type = f.type /\ CutEnd(f, a - 1).owner = f.owner
           /\ f.start <= b /\ b < f.end =>
                 /\ PartOf(CutStart(f, b + 1), f) /\ High(CutStart(f, b + 1), b, ty)
                 /\ CutStart(f, b + 1).start = b + 1 /\ CutStart(f, b + 1).end = f.end
                 /\ CutStart(f, b + 1).type = f.type /\ CutStart(f, b + 1).owner = f.owner
<1>1. /\ f.start \in Int /\ f.end \in Int /\ OFFSET_MAX \in Nat
      /\ a - 1 \in -1..OFFSET_MAX /\ b + 1 \in 0..OFFSET_MAX
  BY LockFields, ConstAssumption
<1>2. LET g == CutEnd(f, a - 1)
      IN  g.start = f.start /\ g.end = a - 1 /\ g.owner = f.owner /\ g.type = f.type
  BY <1>1, LockCut
<1>3. LET g == CutStart(f, b + 1)
      IN  g.start = b + 1 /\ g.end = f.end /\ g.owner = f.owner /\ g.type = f.type
  BY <1>1, LockCut
<1>4. ASSUME f.start < a, a <= f.end
      PROVE  PartOf(CutEnd(f, a - 1), f) /\ Low(CutEnd(f, a - 1), a, ty)
  BY <1>1, <1>2, <1>4 DEF PartOf, Low
<1>5. ASSUME f.start <= b, b < f.end
      PROVE  PartOf(CutStart(f, b + 1), f) /\ High(CutStart(f, b + 1), b, ty)
  BY <1>1, <1>3, <1>5 DEF PartOf, High
<1> QED BY <1>2, <1>3, <1>4, <1>5

\* What the lemmas below say of the loop's locals and the new list M.
Final(L, p, r, s, org, M, n1, n2) ==
    /\ L \in Seq(PosixLock) /\ Sorted(L) /\ p \in Procs /\ r \in P!LockRequests
    /\ s.out \in Seq(PosixLock) /\ s.at \in 1..(Len(s.out) + 1)
    /\ s.new \in 0..Len(s.out) /\ s.left \in 0..Len(s.out)
    /\ s.start \in 0..OFFSET_MAX /\ s.end \in 0..OFFSET_MAX
    /\ Ends(L, p, r, s, org) /\ (s.added \/ r.type # "F_UNLCK")
    /\ n1 \in {0, 1} /\ n2 \in {0, 1} /\ Shape(M, s, p, r, n1, n2)

\* The place in s.out of the lock that M's at y comes from, and the place of the
\* new lock in M.
From(s, n1, n2, y) == IF y < s.at THEN y ELSE IF y < s.at + n1 THEN s.at ELSE y - n1 - n2
NewAt(s, n1, n2) == IF n2 = 1 THEN s.at + n1 ELSE s.new
IsFresh(s, n1, n2, y) == n2 = 1 /\ y = s.at + n1

LEMMA FinalFacts ==
    ASSUME NEW L, NEW p, NEW r, NEW s, NEW org, NEW M, NEW n1, NEW n2,
           Final(L, p, r, s, org, M, n1, n2)
    PROVE  /\ Len(s.out) \in Nat /\ Len(L) \in Nat /\ OFFSET_MAX \in Nat
           /\ s.start \in Int /\ s.end \in Int /\ s.start <= s.end /\ s.end < OFFSET_MAX
           /\ M \in Seq(PosixLock) /\ Len(M) = Len(s.out) + n1 + n2
           /\ n1 = 1 => s.left = s.at /\ s.right /\ s.at <= Len(s.out) /\ s.new = 0
           /\ n1 = 0 => s.left # s.at
           /\ n2 = 1 => r.type # "F_UNLCK" /\ s.new = 0
           /\ n2 = 0 => (s.new # 0 <=> r.type # "F_UNLCK")
           /\ s.new # 0 => s.at = s.new + 1
           /\ \A x \in 1..Len(s.out) : s.out[x] \in PosixLock /\ org[x] \in 1..Len(L)
           /\ \A x \in 1..Len(s.out) : x # s.new => s.out[x] = L[org[x]]
           /\ \A x, z \in 1..Len(s.out) : x < z => org[x] < org[z]
           /\ \A x \in 1..Len(s.out) : s.out[x].owner = L[org[x]].owner
<1>1. Len(s.out) \in Nat /\ Len(L) \in Nat /\ OFFSET_MAX \in Nat /\ s.start \in Int /\ s.end \in Int
  BY ConstAssumption DEF Final
<1>2. s.start <= s.end /\ s.end < OFFSET_MAX
  BY DEF Final, Ends, Asked
<1>3. /\ M \in Seq(PosixLock) /\ Len(M) = Len(s.out) + n1 + n2
      /\ n1 = (IF s.left = s.at THEN 1 ELSE 0) /\ n2 = (IF s.added THEN 0 ELSE 1)
      /\ n1 = 1 => s.at <= Len(s.out)
  BY DEF Final, Shape
<1>4. /\ r.type = "F_UNLCK" => s.new = 0
      /\ r.type # "F_UNLCK" => (s.added => s.new # 0) /\ (s.new # 0 => s.added)
      /\ s.added \/ r.type # "F_UNLCK"
  BY DEF Final, Ends, Asked
<1>5. s.new # 0 => s.at = s.new + 1
  BY DEF Final, Ends
<1>6. n1 = 1 => s.left = s.at /\ s.right /\ s.at <= Len(s.out) /\ s.new = 0
  <2> SUFFICES ASSUME n1 = 1
               PROVE  s.left = s.at /\ s.right /\ s.at <= Len(s.out) /\ s.new = 0
    OBVIOUS
  <2>1. s.left = s.at /\ s.at <= Len(s.out) /\ s.at \in Int /\ s.at >= 1 /\ s.new \in Int
    BY <1>1, <1>3 DEF Final
  <2>2. s.right /\ (s.new # 0 => s.left < s.new)
    BY <2>1 DEF Final, Ends
  <2> QED BY <1>5, <2>1, <2>2
<1>7. /\ \A x \in 1..Len(s.out) : org[x] \in 1..Len(L)
      /\ \A x \in 1..Len(s.out) : x # s.new => s.out[x] = L[org[x]]
      /\ \A x, z \in 1..Len(s.out) : x < z => org[x] < org[z]
      /\ \A x \in 1..Len(s.out) : s.out[x].owner = L[org[x]].owner
  BY DEF Final, Ends, Tracks
<1>8. \A x \in 1..Len(s.out) : s.out[x] \in PosixLock
  BY DEF Final
<1>9. n2 = 1 => r.type # "F_UNLCK" /\ s.new = 0
  BY <1>3, <1>4
<1>10. n2 = 0 => (s.new # 0 <=> r.type # "F_UNLCK")
  BY <1>3, <1>4
<1>11. n1 = 0 => s.left # s.at
  BY <1>3
<1> QED BY <1>1, <1>2, <1>3, <1>5, <1>6, <1>7, <1>8, <1>9, <1>10, <1>11

\* M lock by lock.
LEMMA Piece ==
    ASSUME NEW L, NEW p, NEW r, NEW s, NEW org, NEW M, NEW n1, NEW n2,
           Final(L, p, r, s, org, M, n1, n2),
           NEW y \in 1..Len(M), ~IsFresh(s, n1, n2, y), NEW x, x = From(s, n1, n2, y)
    PROVE  /\ x \in 1..Len(s.out)
           /\ y < s.at + n1 =>
                 /\ x <= s.at /\ (x = s.left => M[y] = CutEnd(s.out[x], s.start - 1))
                 /\ x # s.left => y < s.at /\ x < s.at /\ M[y] = s.out[x]
           /\ y >= s.at + n1 =>
                 /\ x >= s.at /\ y = x + n1 + n2
                 /\ x = s.at /\ s.right => M[y] = CutStart(s.out[x], s.end + 1)
                 /\ ~(x = s.at /\ s.right) => M[y] = s.out[x]
<1> DEFINE m == Len(s.out)
           A == s.at
<1>1. /\ m \in Nat /\ A \in 1..(m + 1) /\ n1 \in {0, 1} /\ n2 \in {0, 1} /\ Len(M) = m + n1 + n2
      /\ n1 = 1 => s.left = A /\ A <= m
  BY FinalFacts DEF Final
<1>2. /\ \A z \in 1..(A - 1) :
            M[z] = IF z = s.left THEN CutEnd(s.out[z], s.start - 1) ELSE s.out[z]
      /\ n1 = 1 => M[A] = CutEnd(s.out[A], s.start - 1)
      /\ \A z \in A..m :
            M[z + n1 + n2] = IF z = A /\ s.right THEN CutStart(s.out[z], s.end + 1) ELSE s.out[z]
  BY DEF Final, Shape
<1> HIDE DEF m, A
<1>3. CASE y < A
  <2>1. x = y /\ x \in 1..m /\ y \in 1..(A - 1) /\ y < A + n1 /\ ~(y >= A + n1)
    BY <1>1, <1>3 DEF From, A
  <2>2. M[y] = IF y = s.left THEN CutEnd(s.out[y], s.start - 1) ELSE s.out[y]
    BY <1>2, <2>1
  <2>3. x <= A
    BY <1>1, <1>3, <2>1
  <2> QED BY <1>3, <2>1, <2>2, <2>3 DEF m, A
<1>4. CASE y = A /\ n1 = 1
  <2>1. x = A /\ x \in 1..m /\ y < A + n1 /\ ~(y >= A + n1) /\ x = s.left
    BY <1>1, <1>4 DEF From, A
  <2> QED BY <1>1, <1>2, <1>4, <2>1 DEF m, A
<1>5. CASE y >= A + n1
  <2>1. y # A + n1 \/ n2 = 0
    BY <1>1 DEF IsFresh, A
  <2>2. y >= A + n1 + n2 /\ y \in Int
    BY <1>1, <1>5, <2>1
  <2>3. x = y - n1 - n2
    BY <1>1, <1>5, <2>2 DEF From, A
  <2>4. x \in A..m /\ x \in 1..m /\ y = x + n1 + n2 /\ ~(y < A + n1)
    BY <1>1, <1>5, <2>2, <2>3
  <2> QED BY <1>2, <2>4 DEF m, A
<1>6. y < A \/ (y = A /\ n1 = 1) \/ y >= A + n1
  BY <1>1
<1> QED BY <1>3, <1>4, <1>5, <1>6

\* Every lock of M but the new one is a part of one of L, below the range or
\* above it if it is p's.
LEMMA PieceParts ==
    ASSUME NEW L, NEW p, NEW r, NEW s, NEW org, NEW M, NEW n1, NEW n2,
           Final(L, p, r, s, org, M, n1, n2),
           NEW y \in 1..Len(M), y # NewAt(s, n1, n2), NEW x, x = From(s, n1, n2, y)
    PROVE  /\ ~IsFresh(s, n1, n2, y) /\ x \in 1..Len(s.out) /\ x # s.new
           /\ PartOf(M[y], L[org[x]])
           /\ M[y].owner = p /\ y < s.at + n1 => Low(M[y], s.start, r.type)
           /\ M[y].owner = p /\ y >= s.at + n1 => High(M[y], s.end, r.type)
<1> DEFINE m == Len(s.out)
           A == s.at
           f == s.out[x]
<1>1. /\ m \in Nat /\ A \in 1..(m + 1) /\ n1 \in {0, 1} /\ n2 \in {0, 1} /\ Len(M) = m + n1 + n2
      /\ s.start \in 0..OFFSET_MAX /\ s.end \in 0..OFFSET_MAX /\ s.end < OFFSET_MAX /\ s.left \in 0..m
      /\ s.new \in 0..m /\ (s.new # 0 => A = s.new + 1) /\ (n2 = 1 => s.new = 0)
      /\ n1 = 1 => s.new = 0
  BY FinalFacts DEF Final
<1>2. ~IsFresh(s, n1, n2, y)
  BY DEF IsFresh, NewAt
<1>3. /\ x \in 1..m
      /\ y < A + n1 => /\ x <= A /\ (x = s.left => M[y] = CutEnd(f, s.start - 1))
                       /\ x # s.left => y < A /\ x < A /\ M[y] = f
      /\ y >= A + n1 => /\ x >= A /\ y = x + n1 + n2
                        /\ x = A /\ s.right => M[y] = CutStart(f, s.end + 1)
                        /\ ~(x = A /\ s.right) => M[y] = f
  BY <1>2, Piece
<1>4. x # s.new
  <2> SUFFICES ASSUME x = s.new PROVE FALSE
    OBVIOUS
  <2>1. s.new # 0 /\ n1 = 0 /\ n2 = 0 /\ x < A
    BY <1>1, <1>3
  <2>2. y < A
    BY <1>1, <1>3, <2>1
  <2>3. x = y
    BY <2>2 DEF From, A
  <2> QED BY <2>1, <2>3 DEF NewAt
<1>5. f = L[org[x]] /\ f \in PosixLock
  BY <1>3, <1>4, FinalFacts
<1>6. Numbered(f) /\ f.start <= f.end
  <2>1. org[x] \in 1..Len(L)
    BY <1>3, FinalFacts
  <2> QED BY <1>5, <2>1, LockFields DEF Numbered, Final, Sorted
<1>7. PartOf(f, f)
  BY <1>6 DEF PartOf, Numbered
<1> HIDE DEF f
<1>8. CASE y < A + n1 /\ x = s.left
  <2>1. f.owner = p /\ f.type # r.type /\ f.start < s.start /\ s.start <= f.end
    <3>1. s.left # 0 /\ f = s.out[s.left]
      BY <1>1, <1>3, <1>8 DEF f
    <3> QED BY <3>1 DEF Final, Ends
  <2>2. PartOf(CutEnd(f, s.start - 1), f) /\ Low(CutEnd(f, s.start - 1), s.start, r.type)
    <3>1. /\ f \in PosixLock /\ s.start \in 0..OFFSET_MAX /\ s.end \in 0..OFFSET_MAX
          /\ s.end < OFFSET_MAX /\ f.type # r.type /\ f.start < s.start /\ s.start <= f.end
      BY <1>1, <1>5, <2>1
    <3> QED BY <3>1, Rests
  <2> QED BY <1>1, <1>2, <1>3, <1>4, <1>5, <1>8, <2>2
<1>9. CASE y < A + n1 /\ x # s.left
  <2>1. M[y] = f /\ x \in 1..(A - 1)
    BY <1>1, <1>3, <1>9
  <2>2. f.owner = p => Low(f, s.start, r.type)
    BY <1>4, <1>9, <2>1 DEF Final, Ends, f, A
  <2> QED BY <1>1, <1>2, <1>3, <1>4, <1>5, <1>7, <1>9, <2>1, <2>2
<1>10. CASE y >= A + n1 /\ x = A /\ s.right
  <2>1. f.owner = p /\ f.type # r.type /\ s.end < f.end /\ f.start <= s.end
    BY <1>3, <1>10 DEF Final, Ends, f, A
  <2>2. PartOf(CutStart(f, s.end + 1), f) /\ High(CutStart(f, s.end + 1), s.end, r.type)
    <3>1. /\ f \in PosixLock /\ s.start \in 0..OFFSET_MAX /\ s.end \in 0..OFFSET_MAX
          /\ s.end < OFFSET_MAX /\ f.type # r.type /\ f.start <= s.end /\ s.end < f.end
      BY <1>1, <1>5, <2>1
    <3> QED BY <3>1, Rests
  <2> QED BY <1>1, <1>2, <1>3, <1>4, <1>5, <1>10, <2>2
<1>11. CASE y >= A + n1 /\ ~(x = A /\ s.right)
  <2>1. M[y] = f /\ x \in A..m
    BY <1>1, <1>3, <1>11
  <2>2. f.owner = p => High(f, s.end, r.type)
    BY <1>11, <2>1 DEF Final, Ends, f, A, m
  <2> QED BY <1>1, <1>2, <1>3, <1>4, <1>5, <1>7, <1>11, <2>1, <2>2
<1>12. y < A + n1 \/ y >= A + n1
  BY <1>1
<1> QED BY <1>8, <1>9, <1>10, <1>11, <1>12

\* From keeps the order, and only a split gives two parts of a lock.
LEMMA FromOrder ==
    ASSUME NEW L, NEW p, NEW r, NEW s, NEW org, NEW M, NEW n1, NEW n2,
           Final(L, p, r, s, org, M, n1, n2), NEW y \in 1..Len(M), NEW z \in 1..Len(M), y < z,
           ~IsFresh(s, n1, n2, y), ~IsFresh(s, n1, n2, z)
    PROVE  /\ From(s, n1, n2, y) <= From(s, n1, n2, z)
           /\ From(s, n1, n2, y) = From(s, n1, n2, z) =>
                 n1 = 1 /\ y = s.at /\ z = s.at + n1 + n2 /\ From(s, n1, n2, z) = s.at
<1>1. /\ s.at \in Nat /\ n1 \in {0, 1} /\ n2 \in {0, 1} /\ Len(M) \in Nat
  BY FinalFacts DEF Final
<1>2. ~(n2 = 1 /\ y = s.at + n1) /\ ~(n2 = 1 /\ z = s.at + n1)
  BY DEF IsFresh
<1> QED BY <1>1, <1>2 DEF From

\* The place among the locks of L where the new lock stands.
Slot(L, p, s, org) ==
    IF s.at <= Len(s.out) THEN IF s.out[s.at].owner = p THEN org[s.at] ELSE org[s.at] - 1
    ELSE IF \A i \in 1..Len(L) : L[i].owner # p THEN Len(L) + 1 ELSE Len(L)

LEMMA SlotFacts ==
    ASSUME NEW L, NEW p, NEW r, NEW s, NEW org, NEW M, NEW n1, NEW n2,
           Final(L, p, r, s, org, M, n1, n2), NEW e, e = Slot(L, p, s, org)
    PROVE  /\ e \in Int
           /\ \A x \in 1..Len(s.out) : /\ x < s.at => org[x] <= e
                                       /\ x >= s.at => e <= org[x]
           /\ n1 = 1 => e = org[s.at]
           /\ \/ e \in 1..Len(L) /\ L[e].owner = p
              \/ /\ s.at = Len(s.out) + 1 /\ e \notin 1..Len(L)
                 /\ \A i \in 1..Len(L) : L[i].owner # p
<1> DEFINE m == Len(s.out)
           A == s.at
<1>1. /\ m \in Nat /\ A \in 1..(m + 1) /\ Len(L) \in Nat /\ (n1 = 1 => A <= m)
      /\ \A x \in 1..m : org[x] \in 1..Len(L)
      /\ \A x, z \in 1..m : x < z => org[x] < org[z]
  <2>1. m \in Nat /\ Len(L) \in Nat /\ (n1 = 1 => A <= m)
    BY FinalFacts
  <2>2. /\ \A x \in 1..m : org[x] \in 1..Len(L)
        /\ \A x, z \in 1..m : x < z => org[x] < org[z]
    BY FinalFacts
  <2>3. A \in 1..(m + 1)
    BY DEF Final
  <2> QED BY <2>1, <2>2, <2>3
<1>2. \A x \in 1..m : x < A \/ x = A \/ x > A
  BY <1>1
<1>3. CASE A <= m /\ s.out[A].owner = p
  <2>1. e = org[A] /\ A \in 1..m
    BY <1>1, <1>3 DEF Slot
  <2>2. L[org[A]].owner = p
    BY <1>3, <2>1, FinalFacts
  <2> HIDE DEF m, A
  <2>3. \A x \in 1..m : (x < A => org[x] <= e) /\ (x >= A => e <= org[x])
    BY <1>1, <1>2, <2>1
  <2> QED BY <1>1, <2>1, <2>2, <2>3 DEF m, A
<1>4. CASE A <= m /\ s.out[A].owner # p
  <2>1. e = org[A] - 1 /\ A \in 1..m
    BY <1>1, <1>4 DEF Slot
  <2>2. org[A] > 1 /\ L[org[A] - 1].owner = p
    BY <1>4 DEF Final, Ends
  <2>3. n1 # 1
    <3> SUFFICES ASSUME n1 = 1 PROVE FALSE
      OBVIOUS
    <3>1. s.right
      BY FinalFacts
    <3> QED BY <1>4, <3>1 DEF Final, Ends
  <2> HIDE DEF m, A
  <2>4. \A x \in 1..m : (x < A => org[x] <= e) /\ (x >= A => e <= org[x])
    BY <1>1, <1>2, <2>1
  <2>5. e \in 1..Len(L)
    BY <1>1, <2>1, <2>2
  <2> QED BY <1>1, <2>1, <2>2, <2>3, <2>4, <2>5 DEF m, A
<1>5. CASE A = m + 1
  <2>0. \A x \in 1..m : x < A /\ ~(x >= A)
    BY <1>1, <1>5
  <2>1. CASE \A i \in 1..Len(L) : L[i].owner # p
    <3>1. e = Len(L) + 1
      BY <1>1, <1>5, <2>1 DEF Slot
    <3>2. \A x \in 1..m : org[x] <= e
      BY <1>1, <3>1
    <3> QED BY <1>1, <1>5, <2>0, <2>1, <3>1, <3>2
  <2>2. CASE ~ \A i \in 1..Len(L) : L[i].owner # p
    <3>1. e = Len(L)
      BY <1>1, <1>5, <2>2 DEF Slot
    <3>2. Len(L) >= 1 /\ L[Len(L)].owner = p
      BY <1>5, <2>2 DEF Final, Ends
    <3>3. \A x \in 1..m : org[x] <= e
      BY <1>1, <3>1
    <3> QED BY <1>1, <1>5, <2>0, <3>1, <3>2, <3>3
  <2> QED BY <2>1, <2>2
<1> QED BY <1>1, <1>3, <1>4, <1>5

\* The list after the loop is L with the range taken out, and the new lock in.
LEMMA ShapeParts ==
    ASSUME NEW L, NEW p, NEW r, NEW s, NEW org, NEW M, NEW n1, NEW n2,
           Final(L, p, r, s, org, M, n1, n2), NEW o,
           o = [y \in 1..Len(M) |-> IF IsFresh(s, n1, n2, y) THEN Slot(L, p, s, org)
                                    ELSE org[From(s, n1, n2, y)]]
    PROVE  /\ o \in [1..Len(M) -> Int]
           /\ Parts(L, M, o, p, NewAt(s, n1, n2), s.start, s.end, r.type)
<1> DEFINE m == Len(s.out)
           A == s.at
           q == NewAt(s, n1, n2)
           e == Slot(L, p, s, org)
           X(y) == From(s, n1, n2, y)
           Z(y) == IsFresh(s, n1, n2, y)
<1>1. /\ m \in Nat /\ A \in 1..(m + 1) /\ n1 \in {0, 1} /\ n2 \in {0, 1} /\ Len(M) = m + n1 + n2
      /\ s.new \in 0..m /\ s.start \in Int /\ s.end \in Int /\ Len(L) \in Nat
      /\ (n2 = 1 => s.new = 0) /\ (n1 = 1 => s.new = 0) /\ (s.new # 0 => A = s.new + 1)
      /\ \A x \in 1..m : org[x] \in 1..Len(L)
      /\ \A x, z \in 1..m : x < z => org[x] < org[z]
  <2>1. /\ m \in Nat /\ Len(L) \in Nat /\ Len(M) = m + n1 + n2 /\ s.start \in Int /\ s.end \in Int
        /\ (n2 = 1 => s.new = 0) /\ (n1 = 1 => s.new = 0) /\ (s.new # 0 => A = s.new + 1)
    BY FinalFacts
  <2>3. /\ \A x \in 1..m : org[x] \in 1..Len(L)
        /\ \A x, z \in 1..m : x < z => org[x] < org[z]
    BY FinalFacts
  <2>2. A \in 1..(m + 1) /\ n1 \in {0, 1} /\ n2 \in {0, 1} /\ s.new \in 0..m
    BY DEF Final
  <2> QED BY <2>1, <2>2, <2>3
<1>2. /\ e \in Int
      /\ \A x \in 1..m : (x < A => org[x] <= e) /\ (x >= A => e <= org[x])
      /\ n1 = 1 => e = org[A]
      /\ \/ e \in 1..Len(L) /\ L[e].owner = p
         \/ A = m + 1 /\ e \notin 1..Len(L) /\ \A i \in 1..Len(L) : L[i].owner # p
  BY SlotFacts
<1>3. \A y \in 1..Len(M) : o[y] = IF Z(y) THEN e ELSE org[X(y)]
  OBVIOUS
<1>4. \A y \in 1..Len(M) : ~Z(y) => /\ X(y) \in 1..m
                                    /\ y < A + n1 => X(y) <= A /\ (n1 = 0 => X(y) < A)
                                    /\ y >= A + n1 => X(y) >= A
  <2> SUFFICES ASSUME NEW y \in 1..Len(M), ~Z(y)
               PROVE  /\ X(y) \in 1..m
                      /\ y < A + n1 => X(y) <= A /\ (n1 = 0 => X(y) < A)
                      /\ y >= A + n1 => X(y) >= A
    OBVIOUS
  <2>1. /\ X(y) \in 1..m /\ (y < A + n1 => X(y) <= A) /\ (y >= A + n1 => X(y) >= A)
    BY Piece
  <2>2. y < A + n1 /\ n1 = 0 => X(y) < A
    BY <1>1 DEF From
  <2> QED BY <2>1, <2>2
<1>5. \A y \in 1..Len(M) : y # q => /\ ~Z(y) /\ PartOf(M[y], L[org[X(y)]])
                                    /\ M[y].owner = p /\ y < A + n1 => Low(M[y], s.start, r.type)
                                    /\ M[y].owner = p /\ y >= A + n1 => High(M[y], s.end, r.type)
  BY PieceParts
<1>6. o \in [1..Len(M) -> Int]
  <2>1. ASSUME NEW y \in 1..Len(M) PROVE (IF Z(y) THEN e ELSE org[X(y)]) \in Int
    <3> HIDE DEF X, Z, e, m
    <3> QED BY <1>1, <1>2, <1>4
  <2> QED BY <2>1
<1>7. q \in 0..Len(M)
  BY <1>1 DEF NewAt
<1> HIDE DEF q, e, m, A
<1>8. ASSUME NEW y \in 1..Len(M), y # q
      PROVE  o[y] \in 1..Len(L) /\ PartOf(M[y], L[o[y]])
  <2> HIDE DEF X, Z
  <2> QED BY <1>1, <1>3, <1>4, <1>5, <1>8
<1>9. ASSUME NEW y \in 1..Len(M), NEW z \in 1..Len(M), y < z
      PROVE  o[y] <= o[z]
  <2>1. CASE Z(y) /\ ~Z(z)
    <3>1. z >= A + n1 /\ y = A + n1
      BY <1>1, <1>9, <2>1 DEF IsFresh, A
    <3> HIDE DEF X, Z
    <3> QED BY <1>1, <1>2, <1>3, <1>4, <2>1, <3>1
  <2>2. CASE ~Z(y) /\ Z(z)
    <3>1. y < A + n1
      BY <1>1, <1>9, <2>2 DEF IsFresh, A
    <3> HIDE DEF X, Z
    <3>2. o[y] = org[X(y)] /\ o[z] = e /\ X(y) \in 1..m /\ X(y) <= A /\ (n1 = 0 => X(y) < A)
      BY <1>3, <1>4, <2>2, <3>1
    <3>3. CASE X(y) < A
      BY <1>2, <3>2, <3>3
    <3>4. CASE X(y) = A /\ n1 = 1
      BY <1>2, <3>2, <3>4
    <3> QED BY <1>1, <3>2, <3>3, <3>4
  <2>3. CASE ~Z(y) /\ ~Z(z)
    <3>1. X(y) <= X(z)
      BY <1>9, <2>3, FromOrder
    <3> HIDE DEF X, Z
    <3>2. X(y) \in 1..m /\ X(z) \in 1..m /\ o[y] = org[X(y)] /\ o[z] = org[X(z)]
      BY <1>3, <1>4, <2>3
    <3> QED BY <1>1, <3>1, <3>2
  <2>4. ~(Z(y) /\ Z(z))
    BY <1>9 DEF IsFresh
  <2> QED BY <2>1, <2>2, <2>3, <2>4
<1>10. ASSUME NEW y \in 1..Len(M), NEW z \in 1..Len(M), y < z, y # q, z # q, o[y] = o[z]
       PROVE  Low(M[y], M[z].start, M[z].type)
  <2>1. ~Z(y) /\ ~Z(z)
    BY <1>5, <1>10
  <2>2. X(y) \in 1..m /\ X(z) \in 1..m /\ org[X(y)] = org[X(z)]
    BY <1>3, <1>4, <1>10, <2>1
  <2>3. X(y) = X(z)
    <3> HIDE DEF X
    <3> QED BY <1>1, <2>2
  <2>4. n1 = 1 /\ y = A /\ z = A + n1 + n2 /\ X(z) = A /\ X(y) = A
    BY <1>10, <2>1, <2>3, FromOrder DEF A
  <2>5. s.left = A /\ s.right /\ A \in 1..m
    BY <2>2, <2>4, FinalFacts DEF A
  <2>6. M[y] = CutEnd(s.out[A], s.start - 1) /\ M[z] = CutStart(s.out[A], s.end + 1)
    <3>1. y < A + n1 /\ z >= A + n1
      BY <1>1, <2>4
    <3> QED BY <2>1, <2>4, <2>5, <3>1, Piece DEF A
  <2>7. /\ s.out[A].type # r.type /\ s.out[A].start < s.start /\ s.start <= s.out[A].end
        /\ s.out[A].start <= s.end /\ s.end < s.out[A].end /\ s.out[A] \in PosixLock
    <3>1. s.left # 0 /\ s.out[A] \in PosixLock
      BY <1>1, <2>5, FinalFacts DEF m
    <3> QED BY <2>5, <3>1 DEF Final, Ends, A
  <2>8. M[y].end = s.start - 1 /\ M[z].start = s.end + 1
    <3>1. s.start \in 0..OFFSET_MAX /\ s.end \in 0..OFFSET_MAX /\ s.end < OFFSET_MAX
      BY FinalFacts DEF Final
    <3> DEFINE g == s.out[A]
    <3>2. /\ g \in PosixLock /\ g.type # r.type /\ g.start < s.start /\ s.start <= g.end
          /\ g.start <= s.end /\ s.end < g.end
      BY <2>7
    <3>3. M[y] = CutEnd(g, s.start - 1) /\ M[z] = CutStart(g, s.end + 1)
      BY <2>6
    <3> HIDE DEF g
    <3>4. g \in PosixLock /\ s.start - 1 \in -1..OFFSET_MAX /\ s.end + 1 \in 0..OFFSET_MAX
      BY <3>1, <3>2, ConstAssumption
    <3>5. CutEnd(g, s.start - 1).end = s.start - 1 /\ CutStart(g, s.end + 1).start = s.end + 1
      BY <3>4, LockCut
    <3> QED BY <3>3, <3>5
  <2>9. s.start <= s.end
    BY FinalFacts
  <2> QED BY <1>1, <2>8, <2>9 DEF Low
<1>11. ASSUME NEW y \in 1..Len(M), y # q, M[y].owner = p
       PROVE  M[y].end < s.start \/ s.end < M[y].start
  <2>1. y < A + n1 \/ y >= A + n1
    BY <1>1
  <2> QED BY <1>5, <1>11, <2>1 DEF Low, High
<1>12. ASSUME q # 0
       PROVE  /\ M[q].owner = p /\ M[q].type = r.type /\ M[q].start = s.start /\ M[q].end = s.end
              /\ \A y \in 1..Len(M) : M[y].owner = p => /\ y < q => Low(M[y], s.start, r.type)
                                                        /\ y > q => High(M[y], s.end, r.type)
              /\ \/ o[q] \in 1..Len(L) /\ L[o[q]].owner = p
                 \/ /\ q = Len(M) /\ o[q] \notin 1..Len(L)
                    /\ \A i \in 1..Len(L) : L[i].owner # p
  <2>1. CASE n2 = 1
    <3>1. q = A + n1 /\ Z(q) /\ s.new = 0
      BY <1>1, <2>1 DEF NewAt, IsFresh, q, A
    <3>2. M[q] = Fresh(p, r) /\ s.start = r.start /\ s.end = r.end
      BY <2>1, <3>1 DEF Final, Shape, Ends, Asked, A
    <3>3. M[q].owner = p /\ M[q].type = r.type /\ M[q].start = s.start /\ M[q].end = s.end
      BY <3>2 DEF Fresh
    <3>4. \A y \in 1..Len(M) : (y < q => y < A + n1 /\ y # q) /\ (y > q => y >= A + n1 /\ y # q)
      BY <1>1, <3>1
    <3>5. \/ o[q] \in 1..Len(L) /\ L[o[q]].owner = p
          \/ /\ q = Len(M) /\ o[q] \notin 1..Len(L)
             /\ \A i \in 1..Len(L) : L[i].owner # p
      <4>1. q \in 1..Len(M) /\ o[q] = e
        BY <1>1, <1>3, <1>7, <1>12, <3>1
      <4>2. A = m + 1 => n1 = 0
        BY <1>1, FinalFacts DEF m, A
      <4>3. A = m + 1 => q = Len(M)
        BY <1>1, <2>1, <3>1, <4>2
      <4> QED BY <1>2, <4>1, <4>3
    <3> QED BY <1>5, <3>3, <3>4, <3>5
  <2>2. CASE n2 = 0
    <3>1. q = s.new /\ s.new # 0 /\ A = q + 1 /\ n1 = 0 /\ ~Z(q) /\ q \in 1..m /\ X(q) = q
      BY <1>1, <1>12, <2>2 DEF NewAt, IsFresh, From, q, A
    <3>2. s.new # s.left
      BY <3>1 DEF Final, Ends
    <3>3. M[q] = s.out[q]
      <4>1. q < A + n1 /\ X(q) # s.left
        BY <1>1, <3>1, <3>2
      <4> QED BY <1>1, <1>7, <3>1, <4>1, Piece DEF A
    <3>4. M[q].owner = p /\ M[q].type = r.type /\ M[q].start = s.start /\ M[q].end = s.end
      BY <3>1, <3>3 DEF Final, Ends
    <3>5. \A y \in 1..Len(M) : (y < q => y < A + n1 /\ y # q) /\ (y > q => y >= A + n1 /\ y # q)
      BY <1>1, <3>1
    <3>6. o[q] \in 1..Len(L) /\ L[o[q]].owner = p
      <4>1. o[q] = org[q] /\ q \in 1..m
        BY <1>1, <1>3, <1>7, <3>1
      <4>2. org[q] \in 1..Len(L) /\ s.out[q].owner = L[org[q]].owner
        BY <4>1, FinalFacts DEF m
      <4> QED BY <3>3, <3>4, <4>1, <4>2
    <3> QED BY <1>5, <3>4, <3>5, <3>6
  <2> QED BY <1>1, <2>1, <2>2
<1>13. Parts(L, M, o, p, q, s.start, s.end, r.type)
  BY <1>7, <1>8, <1>9, <1>10, <1>11, <1>12 DEF Parts
<1> QED BY <1>6, <1>13 DEF q

----------------------------------------------------------------------------
(* The order of the list is an invariant.                                   *)

\* What posix_lock_file makes of a list in order, in the terms of Final.
LEMMA NewListFinal ==
    ASSUME InsideFile, NEW L \in Seq(PosixLock), Once(L), Sorted(L), NEW p \in Procs,
           NEW r \in P!LockRequests, NEW M, M = P!NewList(P!Loops(L, p, r), p, r)
    PROVE  \/ /\ r.type = "F_UNLCK" /\ M = L
              /\ \A i \in 1..Len(L) : L[i].owner = p => L[i].end < r.start \/ r.end < L[i].start
           \/ \E s, org, n1, n2 : Final(L, p, r, s, org, M, n1, n2)
<1> DEFINE s == P!Loops(L, p, r)
<1>1. PICK u, org : /\ Typed(u) /\ Ordered(L, Len(L), p, r, u, org) /\ Untouched(L, Len(L), r, u)
                    /\ Left(s, u)
  BY LoopsOrdered
<1>2. M = P!NewList(s, p, r)
  OBVIOUS
<1> HIDE DEF s
<1>3. \/ ~s.added /\ r.type = "F_UNLCK" /\ M = s.out
      \/ /\ s.added \/ r.type # "F_UNLCK"
         /\ \E n1, n2 \in {0, 1} : Shape(M, s, p, r, n1, n2)
  BY <1>1, <1>2, NewListShape
<1>4. CASE ~s.added /\ r.type = "F_UNLCK" /\ M = s.out
  <2>1. M = u.out /\ s.out = u.out /\ ~u.added /\ s.left = u.left /\ s.right = u.right
    BY <1>1, <1>4 DEF Left, Local
  <2>2. /\ u.out \in Seq(PosixLock) /\ Len(u.out) = Len(L) /\ u.left = 0 /\ ~u.right
        /\ \A i \in 1..Len(L) : u.out[i] = L[i]
    BY <1>1, <1>4, <2>1 DEF Typed, Untouched
  <2>3. u.out = L
    BY <2>2
  <2>4. s.out = L /\ s.left = 0 /\ ~s.right
    BY <2>1, <2>2, <2>3
  <2>5. Ends(L, p, r, s, org)
    BY <1>1, LoopEnds
  <2>6. s.start = r.start /\ s.end = r.end /\ s.new = 0
    BY <1>4, <2>5 DEF Ends, Asked
  <2>7. s.at \in Int /\ Len(L) \in Nat
    BY <1>1, <2>3 DEF Left, Local, Typed
  <2>8. ASSUME NEW i \in 1..Len(L), L[i].owner = p
        PROVE  L[i].end < r.start \/ r.end < L[i].start
    <3>1. CASE i < s.at
      <4>1. i \in 1..(s.at - 1)
        BY <2>7, <3>1
      <4>2. Low(s.out[i], s.start, r.type)
        BY <2>4, <2>5, <2>6, <2>8, <4>1 DEF Ends
      <4> QED BY <2>4, <2>6, <4>2 DEF Low
    <3>2. CASE i >= s.at
      <4>1. i \in s.at..Len(s.out)
        BY <2>4, <2>7, <3>2
      <4>2. High(s.out[i], s.end, r.type)
        BY <2>4, <2>5, <2>8, <4>1 DEF Ends
      <4> QED BY <2>4, <2>6, <4>2 DEF High
    <3> QED BY <2>7, <3>1, <3>2
  <2> QED BY <1>4, <2>1, <2>3, <2>8
<1>5. CASE /\ s.added \/ r.type # "F_UNLCK"
           /\ \E n1, n2 \in {0, 1} : Shape(M, s, p, r, n1, n2)
  <2>1. PICK n1 \in {0, 1}, n2 \in {0, 1} : Shape(M, s, p, r, n1, n2)
    BY <1>5
  <2>2. Ends(L, p, r, s, org)
    BY <1>1, LoopEnds
  <2>3. /\ s.out = u.out /\ s.at = (IF u.at = 0 THEN Len(u.out) + 1 ELSE u.at)
        /\ s.start = u.start /\ s.end = u.end /\ s.new = u.new /\ s.left = u.left
    BY <1>1 DEF Left, Local
  <2>4. /\ u.out \in Seq(PosixLock) /\ u.at \in 0..Len(u.out) /\ u.new \in 0..Len(u.out)
        /\ u.left \in 0..Len(u.out) /\ u.start \in 0..OFFSET_MAX /\ u.end \in 0..OFFSET_MAX
    BY <1>1 DEF Typed
  <2>5. s.at \in 1..(Len(s.out) + 1)
    <3>1. Len(u.out) \in Nat
      BY <2>4
    <3> QED BY <2>3, <2>4, <3>1
  <2>6. Final(L, p, r, s, org, M, n1, n2)
    BY <1>5, <2>1, <2>2, <2>3, <2>4, <2>5 DEF Final
  <2> QED BY <2>6
<1> QED BY <1>3, <1>4, <1>5

LEMMA NewListSorted ==
    ASSUME InsideFile, NEW L \in Seq(PosixLock), Once(L), Sorted(L), NEW p \in Procs,
           NEW r \in P!LockRequests
    PROVE  Sorted(P!NewList(P!Loops(L, p, r), p, r))
<1> DEFINE M == P!NewList(P!Loops(L, p, r), p, r)
<1>1. M = L \/ \E s, org, n1, n2 : Final(L, p, r, s, org, M, n1, n2)
  BY NewListFinal
<1> HIDE DEF M
<1>2. ASSUME NEW s, NEW org, NEW n1, NEW n2, Final(L, p, r, s, org, M, n1, n2)
      PROVE  Sorted(M)
  <2> DEFINE o == [y \in 1..Len(M) |-> IF IsFresh(s, n1, n2, y) THEN Slot(L, p, s, org)
                                       ELSE org[From(s, n1, n2, y)]]
             q == NewAt(s, n1, n2)
  <2>1. o \in [1..Len(M) -> Int] /\ Parts(L, M, o, p, q, s.start, s.end, r.type)
    BY <1>2, ShapeParts
  <2>2. s.start \in Int /\ s.end \in Int /\ s.start <= s.end /\ s.end < OFFSET_MAX /\ M \in Seq(PosixLock)
    BY <1>2, FinalFacts
  <2> HIDE DEF o, q
  <2> QED BY <2>1, <2>2, PartsSorted
<1> QED BY <1>1, <1>2 DEF M

\* Block lists do not matter for the order.
LEMMA SameOrder ==
    ASSUME NEW L, Sorted(L), NEW M, Len(M) = Len(L),
           \A i \in 1..Len(L) : /\ M[i].owner = L[i].owner /\ M[i].type = L[i].type
                                /\ M[i].start = L[i].start /\ M[i].end = L[i].end
    PROVE  Sorted(M)
<1>1. \A i \in 1..Len(M) : M[i].start <= M[i].end /\ M[i].end < OFFSET_MAX
  BY DEF Sorted
<1>2. \A i, j \in 1..Len(M) :
         i < j /\ M[i].owner = M[j].owner => Low(M[i], M[j].start, M[j].type)
  BY DEF Sorted, Low
<1>3. \A i, n, j \in 1..Len(M) :
         i <= n /\ n <= j /\ M[i].owner = M[j].owner => M[n].owner = M[i].owner
  BY DEF Sorted
<1> QED BY <1>1, <1>2, <1>3 DEF Sorted

LEMMA UnblockSorted ==
    ASSUME NEW L \in Seq(PosixLock), Once(L), Sorted(L), NEW p
    PROVE  Sorted(P!locks_delete_block(L, p))
<1> DEFINE U == P!locks_delete_block(L, p)
<1>1. /\ Len(U) = Len(L)
      /\ \A i \in 1..Len(L) : OffBlock(U[i], L[i], p)
  BY UnblockFacts
<1> HIDE DEF U
<1>2. \A i \in 1..Len(L) : /\ U[i].owner = L[i].owner /\ U[i].type = L[i].type
                           /\ U[i].start = L[i].start /\ U[i].end = L[i].end
  BY <1>1 DEF OffBlock
<1> QED BY <1>1, <1>2, SameOrder DEF U

LEMMA InsertSorted ==
    ASSUME NEW L \in Seq(PosixLock), Once(L), Sorted(L), NEW p \in Procs, NEW i \in 1..Len(L)
    PROVE  Sorted(P!locks_insert_block(P!locks_delete_block(L, p), i, p))
<1> DEFINE U == P!locks_insert_block(P!locks_delete_block(L, p), i, p)
<1>1. /\ Len(U) = Len(L)
      /\ \A x \in 1..Len(L) : OnBlock(U[x], L[x], p, IF x = i THEN {p} ELSE {})
  BY InsertFacts
<1> HIDE DEF U
<1>2. \A x \in 1..Len(L) : /\ U[x].owner = L[x].owner /\ U[x].type = L[x].type
                           /\ U[x].start = L[x].start /\ U[x].end = L[x].end
  BY <1>1 DEF OnBlock
<1> QED BY <1>1, <1>2, SameOrder DEF U

LEMMA KeepSorted ==
    ASSUME NEW L \in Seq(PosixLock), Sorted(L), NEW I
    PROVE  Sorted(Keep(L, I))
<1> DEFINE M == Keep(L, I)
<1>1. PICK g : Picks(g, M, L, I)
  BY KeepFacts
<1>0. M \in Seq(PosixLock) /\ Len(M) \in Nat /\ Len(L) \in Nat
  BY KeepFacts
<1> HIDE DEF M
<1>2. /\ \A i \in 1..Len(M) : g[i] \in 1..Len(L) /\ M[i] = L[g[i]]
      /\ \A i, j \in 1..Len(M) : i < j => g[i] < g[j]
  BY <1>1 DEF Picks
<1>3. \A i, j \in 1..Len(M) : i <= j => g[i] <= g[j]
  BY <1>0, <1>2
<1>4. \A i \in 1..Len(M) : M[i].start <= M[i].end /\ M[i].end < OFFSET_MAX
  BY <1>2 DEF Sorted
<1>5. ASSUME NEW i \in 1..Len(M), NEW j \in 1..Len(M), i < j, M[i].owner = M[j].owner
      PROVE  Low(M[i], M[j].start, M[j].type)
  <2> DEFINE x == g[i]
             y == g[j]
  <2>1. x \in 1..Len(L) /\ y \in 1..Len(L) /\ x < y /\ M[i] = L[x] /\ M[j] = L[y]
    BY <1>2, <1>5
  <2> HIDE DEF x, y
  <2>2. Low(L[x], L[y].start, L[y].type)
    BY <1>5, <2>1 DEF Sorted
  <2> QED BY <2>1, <2>2
<1>6. ASSUME NEW i \in 1..Len(M), NEW n \in 1..Len(M), NEW j \in 1..Len(M),
             i <= n, n <= j, M[i].owner = M[j].owner
      PROVE  M[n].owner = M[i].owner
  <2> DEFINE x == g[i]
             w == g[n]
             y == g[j]
  <2>1. x \in 1..Len(L) /\ w \in 1..Len(L) /\ y \in 1..Len(L)
    BY <1>2
  <2>2. M[i] = L[x] /\ M[n] = L[w] /\ M[j] = L[y] /\ x <= w /\ w <= y
    BY <1>2, <1>3, <1>6
  <2> HIDE DEF x, w, y
  <2>3. L[w].owner = L[x].owner
    BY <1>6, <2>1, <2>2 DEF Sorted
  <2> QED BY <2>2, <2>3
<1> QED BY <1>4, <1>5, <1>6 DEF Sorted, M

LEMMA SleepSorted ==
    ASSUME Inv, Sorted(posix_list), NEW p \in Procs, NEW r, P!Conflicts(p, r) # {},
           P!Sleeps(p, r, P!Unblocked(p), P!Min(P!Conflicts(p, r)))
    PROVE  Sorted(posix_list')
<1> DEFINE i == P!Min(P!Conflicts(p, r))
<1>1. posix_list \in Seq(PosixLock) /\ Once(posix_list)
  BY DEF Inv, TypeOK
<1>2. i \in 1..Len(posix_list)
  BY <1>1, FirstConflict
<1>3. posix_list' = P!locks_insert_block(P!locks_delete_block(posix_list, p), i, p)
  BY DEF P!Sleeps, P!Unblocked
<1> HIDE DEF i
<1> QED BY <1>1, <1>2, <1>3, InsertSorted

LEMMA FailSorted ==
    ASSUME Inv, Sorted(posix_list), NEW p
    PROVE  Sorted(P!Unblocked(p))
BY UnblockSorted DEF Inv, TypeOK, P!Unblocked

LEMMA PosixLockSorted ==
    ASSUME InsideFile, Inv, Sorted(posix_list), NEW p \in Procs, NEW r \in P!LockRequests,
           P!posix_lock_file(p, r)
    PROVE  Sorted(posix_list')
<1>1. \/ posix_list' = P!Unblocked(p)
      \/ posix_list' = P!NewList(P!Loops(P!Unblocked(p), p, r), p, r)
      \/ /\ P!Conflicts(p, r) # {}
         /\ P!Sleeps(p, r, P!Unblocked(p), P!Min(P!Conflicts(p, r)))
  BY DEF P!posix_lock_file
<1>2. CASE posix_list' = P!NewList(P!Loops(P!Unblocked(p), p, r), p, r)
  <2> DEFINE U == P!Unblocked(p)
  <2>1. U \in Seq(PosixLock) /\ Once(U) /\ Sorted(U)
    BY UnblockFacts, UnblockOnce, FailSorted DEF Inv, TypeOK, P!Unblocked
  <2>2. posix_list' = P!NewList(P!Loops(U, p, r), p, r)
    BY <1>2
  <2> HIDE DEF U
  <2> QED BY <2>1, <2>2, NewListSorted
<1> QED BY <1>1, <1>2, SleepSorted, FailSorted

LEMMA PosixAccessSorted ==
    ASSUME Inv, Sorted(posix_list), NEW p \in Procs, NEW r, P!locks_mandatory_area(p, r)
    PROVE  Sorted(posix_list')
<1>1. \/ posix_list' = P!Unblocked(p)
      \/ /\ P!Conflicts(p, r) # {}
         /\ P!Sleeps(p, r, P!Unblocked(p), P!Min(P!Conflicts(p, r)))
  BY DEF P!locks_mandatory_area
<1> QED BY <1>1, SleepSorted, FailSorted

LEMMA SortedNext == InsideFile /\ Inv /\ Sorted(posix_list) /\ [Next]_vars => Sorted(posix_list')
<1> SUFFICES ASSUME InsideFile, Inv, Sorted(posix_list), [Next]_vars
             PROVE  Sorted(posix_list')
  OBVIOUS
<1>1. CASE posix_list' = posix_list
  BY <1>1
<1>2. ASSUME NEW p \in Procs, PosixCall(p) PROVE Sorted(posix_list')
  <2>1. \/ \E r \in P!LockRequests : P!posix_lock_file(p, r)
        \/ \E r \in P!AccessRequests : P!locks_mandatory_area(p, r)
        \/ Waiting(p, {"lock"}) /\ P!posix_lock_file(p, req[p])
        \/ P!locks_mandatory_area(p, req[p])
    BY <1>2 DEF PosixCall, Posix
  <2>2. Waiting(p, {"lock"}) => req[p] \in P!LockRequests
    <3>1. pc[p] # "user" => req[p] # None /\ req[p] \in P!Requests \cup F!Requests \cup {None}
      BY DEF Inv, TypeOK
    <3> QED BY <3>1, RequestKinds DEF Waiting
  <2> QED BY <2>1, <2>2, PosixLockSorted, PosixAccessSorted
<1>3. ASSUME NEW p \in Procs, Close(p) PROVE Sorted(posix_list')
  <2>1. CASE Posix(P!posix_remove_locks(p))
    <3>1. posix_list' = Keep(posix_list, {i \in DOMAIN posix_list : posix_list[i].owner = p})
      BY <2>1, SameOperators DEF Posix, P!posix_remove_locks
    <3>2. posix_list \in Seq(PosixLock)
      BY DEF Inv, TypeOK
    <3> QED BY <3>1, <3>2, KeepSorted
  <2>2. CASE Flocks(F!flock_remove_locks(p))
    BY <2>2 DEF Flocks
  <2> QED BY <1>3, <2>1, <2>2 DEF Close
<1>4. [(\E p \in Procs : PosixCall(p) \/ Close(p)) \/ posix_list' = posix_list]_vars
  BY DEF Next, FlockCall, Signal, Flocks, Posix, P!ChangeMode
<1> QED BY <1>1, <1>2, <1>3, <1>4 DEF vars

\* The list stays in order: while no range goes to the last byte of the file,
\* whatever requests, releases, waits, signals and closes come, no lock is
\* empty, a process's locks are neighbours in ascending order, do not overlap,
\* and are merged where they touch and have one type.  (Without the hypothesis
\* the code breaks the order: see the run file_locks_to_end.)
THEOREM ListInOrder == InsideFile => (Spec => []Canonical)
<1> SUFFICES ASSUME InsideFile PROVE Spec => []Canonical
  OBVIOUS
<1> DEFINE S == Sorted(posix_list)
<1>1. Init => S
  BY DEF Init, Sorted
<1>2. Inv /\ S /\ [Next]_vars => S'
  BY SortedNext
<1>3. Inv /\ S => Canonical
  BY SortedCanonical DEF Inv, TypeOK
<1> HIDE DEF S
<1> QED BY <1>1, <1>2, <1>3, Invariant, PTL DEF Spec

----------------------------------------------------------------------------
(* The list implements the bytes.                                           *)

\* A lock of s.out that is not the new one goes on in M: the rests of it, or
\* all of it.
LEMMA PlaceOf ==
    ASSUME NEW L, NEW p, NEW r, NEW s, NEW org, NEW M, NEW n1, NEW n2,
           Final(L, p, r, s, org, M, n1, n2), NEW x \in 1..Len(s.out), x # s.new, NEW y,
           \/ y = x /\ (x < s.at \/ (x = s.at /\ n1 = 1))
           \/ y = x + n1 + n2 /\ x >= s.at
    PROVE  /\ y \in 1..Len(M) /\ y # NewAt(s, n1, n2) /\ ~IsFresh(s, n1, n2, y)
           /\ From(s, n1, n2, y) = x
           /\ y < s.at + n1 <=> y = x /\ (x < s.at \/ (x = s.at /\ n1 = 1))
<1>1. /\ Len(s.out) \in Nat /\ Len(M) = Len(s.out) + n1 + n2
      /\ (n2 = 1 => s.new = 0) /\ (n1 = 1 => s.new = 0) /\ (s.new # 0 => s.at = s.new + 1)
  BY FinalFacts
<1>2. /\ s.at \in 1..(Len(s.out) + 1) /\ n1 \in {0, 1} /\ n2 \in {0, 1}
      /\ s.new \in 0..Len(s.out)
  BY DEF Final
<1>3. y \in 1..Len(M)
  BY <1>1, <1>2
<1>4. ~IsFresh(s, n1, n2, y)
  BY <1>1, <1>2 DEF IsFresh
<1>5. y # NewAt(s, n1, n2)
  <2>1. CASE n2 = 1
    BY <1>4, <2>1 DEF IsFresh, NewAt
  <2>2. CASE n2 = 0 /\ s.new # 0
    BY <1>1, <1>2, <2>2 DEF NewAt
  <2>3. CASE n2 = 0 /\ s.new = 0
    BY <1>1, <1>2, <2>3 DEF NewAt
  <2> QED BY <1>2, <2>1, <2>2, <2>3
<1>6. From(s, n1, n2, y) = x
  BY <1>1, <1>2 DEF From
<1>7. y < s.at + n1 <=> y = x /\ (x < s.at \/ (x = s.at /\ n1 = 1))
  BY <1>1, <1>2
<1> QED BY <1>3, <1>4, <1>5, <1>6, <1>7

\* f holds the byte c.
Holds(f, c) == f.start <= c /\ c <= f.end

\* No byte outside the range gets lost.
LEMMA ByteKept ==
    ASSUME NEW L, NEW p, NEW r, NEW s, NEW org, NEW M, NEW n1, NEW n2,
           Final(L, p, r, s, org, M, n1, n2), NEW i \in 1..Len(L), NEW c \in Int, Holds(L[i], c),
           L[i].owner # p \/ c < s.start \/ s.end < c
    PROVE  \E y \in 1..Len(M) : /\ y # NewAt(s, n1, n2) /\ ~IsFresh(s, n1, n2, y)
                                /\ org[From(s, n1, n2, y)] = i /\ Holds(M[y], c)
<1> DEFINE m == Len(s.out)
           A == s.at
<1>0. /\ m \in Nat /\ s.start \in Int /\ s.end \in Int
      /\ n1 = 1 => s.left = A /\ s.right /\ A <= m
      /\ n1 = 0 => s.left # A
  BY FinalFacts
<1>1. A \in 1..(m + 1) /\ n1 \in {0, 1} /\ n2 \in {0, 1}
  BY DEF Final
<1>2. Numbered(L[i]) /\ L[i] \in PosixLock
  <2>1. L[i] \in PosixLock
    BY DEF Final
  <2> QED BY <2>1, LockFields DEF Numbered
<1>3. PICK x \in 1..m : org[x] = i /\ x # s.new
  <2>1. \/ \E x \in 1..m : org[x] = i /\ x # s.new
        \/ L[i].owner = p /\ s.start <= L[i].start /\ L[i].end <= s.end
    BY DEF Final, Ends, Taking
  <2>2. ~(L[i].owner = p /\ s.start <= L[i].start /\ L[i].end <= s.end)
    <3>1. L[i].start \in Int /\ L[i].end \in Int /\ L[i].start <= c /\ c <= L[i].end
      BY <1>2 DEF Holds, Numbered
    <3> QED BY <1>0, <3>1
  <2> QED BY <2>1, <2>2, Zenon
<1> DEFINE f == s.out[x]
<1>4. f = L[i]
  <2>1. \A z \in 1..Len(s.out) : z # s.new => s.out[z] = L[org[z]]
    BY FinalFacts
  <2> QED BY <1>3, <2>1
<1>5. /\ f \in PosixLock /\ Numbered(f) /\ Holds(f, c)
      /\ f.owner # p \/ c < s.start \/ s.end < c
  BY <1>2, <1>4
<1> HIDE DEF f, m, A
<1> SUFFICES \E y : /\ \/ y = x /\ (x < A \/ (x = A /\ n1 = 1))
                       \/ y = x + n1 + n2 /\ x >= A
                    /\ Holds(M[y], c)
  BY <1>3, PlaceOf DEF m, A
<1>6. ASSUME x < A \/ (x = A /\ n1 = 1)
      PROVE  /\ x = s.left => M[x] = CutEnd(f, s.start - 1)
             /\ x # s.left => M[x] = f
  <2>1. /\ x \in 1..Len(M) /\ ~IsFresh(s, n1, n2, x) /\ From(s, n1, n2, x) = x /\ x < A + n1
    BY <1>3, <1>6, PlaceOf DEF m, A
  <2> QED BY <2>1, Piece DEF f, A
<1>7. ASSUME x >= A
      PROVE  /\ x = A /\ s.right => M[x + n1 + n2] = CutStart(f, s.end + 1)
             /\ ~(x = A /\ s.right) => M[x + n1 + n2] = f
  <2> DEFINE y == x + n1 + n2
  <2>1. /\ y \in 1..Len(M) /\ ~IsFresh(s, n1, n2, y) /\ From(s, n1, n2, y) = x
    BY <1>3, <1>7, PlaceOf DEF m, A
  <2>2. y >= A + n1
    BY <1>0, <1>1, <1>3, <1>7
  <2> HIDE DEF y
  <2>3. /\ x = A /\ s.right => M[y] = CutStart(f, s.end + 1)
        /\ ~(x = A /\ s.right) => M[y] = f
    BY <2>1, <2>2, Piece DEF f, A
  <2> QED BY <2>3 DEF y
<1>8. s.start - 1 \in -1..OFFSET_MAX /\ s.end + 1 \in 0..OFFSET_MAX
  <2>1. s.start \in 0..OFFSET_MAX /\ s.end \in 0..OFFSET_MAX
    BY DEF Final
  <2>2. s.end < OFFSET_MAX /\ OFFSET_MAX \in Nat
    BY FinalFacts
  <2> QED BY <2>1, <2>2
<1>9. /\ CutEnd(f, s.start - 1).start = f.start /\ CutEnd(f, s.start - 1).end = s.start - 1
      /\ CutStart(f, s.end + 1).start = s.end + 1 /\ CutStart(f, s.end + 1).end = f.end
  BY <1>5, <1>8, LockCut
<1>10. /\ c < s.start => Holds(CutEnd(f, s.start - 1), c)
       /\ s.end < c => Holds(CutStart(f, s.end + 1), c)
  BY <1>0, <1>5, <1>9 DEF Holds, Numbered
<1>11. x = s.left => f.owner = p /\ (x # A => f.end <= s.end)
  <2>1. s.left # 0 => s.out[s.left].owner = p /\ (s.left # A => s.out[s.left].end <= s.end)
    BY DEF Final, Ends, A
  <2>2. x # 0
    BY <1>0, <1>3
  <2> QED BY <2>1, <2>2 DEF f
<1>12. x = A /\ s.right => f.owner = p /\ (s.left # A => s.start <= f.start)
  BY DEF Final, Ends, f, A
<1>13. CASE x < A /\ x # s.left
  BY <1>5, <1>6, <1>13
<1>14. CASE x < A /\ x = s.left
  <2>1. c < s.start
    <3>1. f.owner = p /\ f.end <= s.end
      BY <1>0, <1>1, <1>3, <1>11, <1>14
    <3> QED BY <1>0, <1>5, <3>1 DEF Holds, Numbered
  <2> QED BY <1>6, <1>10, <1>14, <2>1
<1>15. CASE x = A /\ n1 = 1
  <2>1. x = s.left /\ s.right /\ f.owner = p
    BY <1>0, <1>11, <1>15
  <2>2. CASE c < s.start
    BY <1>6, <1>10, <1>15, <2>1, <2>2
  <2>3. CASE s.end < c
    <3>1. x >= A
      BY <1>1, <1>15
    <3> QED BY <1>7, <1>10, <1>15, <2>1, <2>3, <3>1
  <2> QED BY <1>5, <2>1, <2>2, <2>3
<1>16. CASE x = A /\ n1 = 0 /\ s.right
  <2>1. f.owner = p /\ s.start <= f.start /\ x >= A
    BY <1>0, <1>1, <1>12, <1>16
  <2>2. s.end < c
    BY <1>0, <1>5, <2>1 DEF Holds, Numbered
  <2> QED BY <1>7, <1>10, <1>16, <2>1, <2>2
<1>17. CASE x >= A /\ ~(x = A /\ s.right)
  BY <1>5, <1>7, <1>17
<1> QED BY <1>0, <1>1, <1>3, <1>13, <1>14, <1>15, <1>16, <1>17

\* The bytes that a list locks, and h one of the bytes of the lock f.
HeldOf(L) == UNION {[owner : {l.owner}, byte : l.start .. l.end, type : {l.type}] : l \in Range(L)}
Byte(h, f) == h \in [owner : {f.owner}, byte : f.start..f.end, type : {f.type}]

LEMMA HeldIn ==
    ASSUME NEW L \in Seq(PosixLock), NEW h
    PROVE  h \in HeldOf(L) <=> \E i \in 1..Len(L) : Byte(h, L[i])
<1>1. DOMAIN L = 1..Len(L)
  OBVIOUS
<1> QED BY <1>1, Zenon DEF HeldOf, Byte, Range

LEMMA ByteFields ==
    ASSUME NEW f, Numbered(f), NEW h, Byte(h, f)
    PROVE  /\ h.owner = f.owner /\ h.type = f.type /\ h.byte \in Int /\ Holds(f, h.byte)
           /\ \A g : /\ Numbered(g) /\ g.owner = f.owner /\ g.type = f.type /\ Holds(g, h.byte)
                     => Byte(h, g)
BY DEF Byte, Numbered, Holds

LEMMA ListNumbered ==
    ASSUME NEW L \in Seq(PosixLock), NEW i \in 1..Len(L)
    PROVE  Numbered(L[i]) /\ L[i].type # "F_UNLCK"
<1>1. L[i] \in PosixLock
  OBVIOUS
<1> QED BY <1>1, LockFields DEF Numbered

\* What Grant of ByteLocks does to the bytes.
Granted(H, p, r) ==
    {h \in H : h.owner # p \/ h.byte \notin r.start..r.end}
    \cup {h \in [owner : {p}, byte : r.start..r.end, type : {r.type}] : h.type # "F_UNLCK"}

\* The bytes of M are those that Grant leaves.
LEMMA PartsGranted ==
    ASSUME NEW L, NEW p, NEW r, NEW s, NEW org, NEW M, NEW n1, NEW n2,
           Final(L, p, r, s, org, M, n1, n2)
    PROVE  HeldOf(M) = Granted(HeldOf(L), p, r)
<1> DEFINE q == NewAt(s, n1, n2)
           X(y) == From(s, n1, n2, y)
           o == [y \in 1..Len(M) |-> IF IsFresh(s, n1, n2, y) THEN Slot(L, p, s, org)
                                     ELSE org[X(y)]]
<1>1. /\ s.start \in Int /\ s.end \in Int /\ Len(L) \in Nat /\ Len(M) \in Nat
      /\ M \in Seq(PosixLock)
  BY FinalFacts
<1>2. L \in Seq(PosixLock) /\ Sorted(L) /\ r \in P!LockRequests /\ Asked(L, Len(L), p, r, s)
  BY DEF Final, Ends
<1>3. r.start \in Int /\ r.end \in Int
  BY <1>2, RequestFields
<1>4. Parts(L, M, o, p, q, s.start, s.end, r.type)
  BY ShapeParts
<1>5. q # 0 <=> r.type # "F_UNLCK"
  <2>1. /\ n1 \in {0, 1} /\ n2 \in {0, 1} /\ s.at \in Int /\ s.at >= 1
    BY <1>1 DEF Final
  <2>2. /\ n2 = 1 => r.type # "F_UNLCK"
        /\ n2 = 0 => (s.new # 0 <=> r.type # "F_UNLCK")
    BY FinalFacts
  <2> QED BY <2>1, <2>2 DEF NewAt
<1>6. s.new # 0 => q # 0
  <2>1. n2 \in {0, 1} /\ (n2 = 1 => s.new = 0)
    BY FinalFacts DEF Final
  <2> QED BY <2>1 DEF NewAt
<1>7. ASSUME NEW i \in 1..Len(L), NEW c \in Int, Holds(L[i], c), L[i].owner # p \/ c < s.start \/ s.end < c
      PROVE  \E y \in 1..Len(M) : y # q /\ o[y] = i /\ Holds(M[y], c)
  <2>1. PICK y \in 1..Len(M) : /\ y # q /\ ~IsFresh(s, n1, n2, y)
                               /\ org[X(y)] = i /\ Holds(M[y], c)
    BY <1>7, ByteKept
  <2>2. o[y] = i
    BY <2>1
  <2> QED BY <2>1, <2>2
<1> HIDE DEF q, X, o
<1>8. /\ q \in 0..Len(M)
      /\ \A y \in 1..Len(M) : y # q => o[y] \in 1..Len(L) /\ PartOf(M[y], L[o[y]])
      /\ \A y \in 1..Len(M) : y # q /\ M[y].owner = p => M[y].end < s.start \/ s.end < M[y].start
      /\ q # 0 => M[q].owner = p /\ M[q].type = r.type /\ M[q].start = s.start /\ M[q].end = s.end
  BY <1>4 DEF Parts
<1>9. /\ s.start <= r.start /\ r.end <= s.end
      /\ s.new = 0 => s.start = r.start /\ s.end = r.end
      /\ \A b \in s.start..s.end :
            \/ r.start <= b /\ b <= r.end
            \/ \E i \in 1..Len(L) : L[i].owner = p /\ L[i].type = r.type /\ Holds(L[i], b)
  BY <1>2 DEF Asked, Holds
<1>10. ASSUME NEW h \in HeldOf(M)
       PROVE  h \in Granted(HeldOf(L), p, r)
  <2>1. PICK y \in 1..Len(M) : Byte(h, M[y])
    BY <1>1, HeldIn
  <2>2. Numbered(M[y]) /\ M[y].type # "F_UNLCK"
    BY <1>1, ListNumbered
  <2>3. h.owner = M[y].owner /\ h.type = M[y].type /\ h.byte \in Int /\ Holds(M[y], h.byte)
    BY <2>1, <2>2, ByteFields
  <2>4. CASE y # q
    <3> DEFINE i == o[y]
    <3>1. i \in 1..Len(L) /\ PartOf(M[y], L[i])
      BY <1>8, <2>4
    <3> HIDE DEF i
    <3>2. Numbered(L[i])
      BY <1>2, <3>1, ListNumbered
    <3>3. L[i].owner = M[y].owner /\ L[i].type = M[y].type /\ Holds(L[i], h.byte)
      BY <2>2, <2>3, <3>1, <3>2 DEF PartOf, Holds, Numbered
    <3>4. Byte(h, L[i])
      BY <2>1, <2>2, <3>2, <3>3, ByteFields
    <3>5. h \in HeldOf(L)
      BY <1>2, <3>1, <3>4, HeldIn
    <3>6. h.owner # p \/ h.byte \notin r.start..r.end
      <4> SUFFICES ASSUME h.owner = p PROVE h.byte \notin r.start..r.end
        OBVIOUS
      <4>1. M[y].end < s.start \/ s.end < M[y].start
        BY <1>8, <2>3, <2>4
      <4> QED BY <1>1, <1>3, <1>9, <2>2, <2>3, <4>1 DEF Holds, Numbered
    <3> QED BY <3>5, <3>6 DEF Granted
  <2>5. CASE y = q
    <3>1. /\ q # 0 /\ M[y].owner = p /\ M[y].type = r.type
          /\ M[y].start = s.start /\ M[y].end = s.end
      BY <1>1, <1>8, <2>5
    <3>2. h.byte \in s.start..s.end /\ h.owner = p /\ h.type = r.type /\ h.type # "F_UNLCK"
      BY <1>1, <2>2, <2>3, <3>1 DEF Holds
    <3>3. CASE r.start <= h.byte /\ h.byte <= r.end
      <4>1. h \in [owner : {p}, byte : r.start..r.end, type : {r.type}]
        <5>1. h \in [owner : {p}, byte : s.start..s.end, type : {r.type}]
          BY <2>1, <3>1 DEF Byte
        <5>2. h.byte \in r.start..r.end
          BY <1>3, <2>3, <3>3
        <5> QED BY <5>1, <5>2
      <4> QED BY <3>2, <4>1 DEF Granted
    <3>4. CASE ~(r.start <= h.byte /\ h.byte <= r.end)
      <4>1. PICK i \in 1..Len(L) : L[i].owner = p /\ L[i].type = r.type /\ Holds(L[i], h.byte)
        BY <1>9, <3>2, <3>4
      <4>2. Byte(h, L[i])
        <5>1. Numbered(L[i])
          BY <1>2, ListNumbered
        <5> QED BY <2>1, <2>2, <3>1, <4>1, <5>1, ByteFields
      <4>3. h \in HeldOf(L)
        BY <1>2, <4>2, HeldIn
      <4>4. h.byte \notin r.start..r.end
        BY <1>3, <2>3, <3>4
      <4> QED BY <4>3, <4>4 DEF Granted
    <3> QED BY <3>3, <3>4
  <2> QED BY <2>4, <2>5
<1>11. ASSUME q # 0, NEW h, NEW f, Numbered(f), Byte(h, f), f.owner = p, f.type = r.type,
              h.byte \in s.start..s.end
       PROVE  h \in HeldOf(M)
  <2>1. q \in 1..Len(M)
    BY <1>1, <1>8, <1>11
  <2>2. Numbered(M[q]) /\ M[q].owner = f.owner /\ M[q].type = f.type /\ Holds(M[q], h.byte)
    BY <1>1, <1>8, <1>11, <2>1, ListNumbered DEF Holds
  <2>3. Byte(h, M[q])
    BY <1>11, <2>2, ByteFields
  <2> QED BY <1>1, <2>1, <2>3, HeldIn
<1>12. ASSUME NEW h \in HeldOf(L), h.owner # p \/ h.byte \notin r.start..r.end
       PROVE  h \in HeldOf(M)
  <2>1. PICK i \in 1..Len(L) : Byte(h, L[i])
    BY <1>2, HeldIn
  <2>2. Numbered(L[i])
    BY <1>2, ListNumbered
  <2>3. h.owner = L[i].owner /\ h.type = L[i].type /\ h.byte \in Int /\ Holds(L[i], h.byte)
    BY <2>1, <2>2, ByteFields
  <2>4. CASE L[i].owner # p \/ h.byte < s.start \/ s.end < h.byte
    <3>1. PICK y \in 1..Len(M) : y # q /\ o[y] = i /\ Holds(M[y], h.byte)
      BY <1>7, <2>3, <2>4
    <3>2. PartOf(M[y], L[i]) /\ Numbered(M[y])
      BY <1>1, <1>8, <3>1, ListNumbered
    <3>3. Byte(h, M[y])
      <4>1. M[y].owner = L[i].owner /\ M[y].type = L[i].type
        BY <3>2 DEF PartOf
      <4> QED BY <2>1, <2>2, <3>1, <3>2, <4>1, ByteFields
    <3> QED BY <1>1, <3>3, HeldIn
  <2>5. CASE L[i].owner = p /\ ~(h.byte < s.start) /\ ~(s.end < h.byte)
    <3>1. h.byte \in s.start..s.end /\ h.byte \notin r.start..r.end
      BY <1>1, <1>12, <2>3, <2>5
    <3>2. ~(r.start <= h.byte /\ h.byte <= r.end)
      BY <1>3, <2>3, <3>1
    <3>3. PICK j \in 1..Len(L) : L[j].owner = p /\ L[j].type = r.type /\ Holds(L[j], h.byte)
      BY <1>9, <3>1, <3>2
    <3>4. i = j
      <4>1. ASSUME NEW a \in 1..Len(L), NEW b \in 1..Len(L), a < b, L[a].owner = L[b].owner,
                   Holds(L[a], h.byte), Holds(L[b], h.byte)
            PROVE  FALSE
        <5>1. Low(L[a], L[b].start, L[b].type)
          BY <1>2, <4>1 DEF Sorted
        <5>2. Numbered(L[a]) /\ Numbered(L[b])
          BY <1>2, ListNumbered
        <5> QED BY <2>3, <4>1, <5>1, <5>2 DEF Low, Holds, Numbered
      <4>2. i < j \/ j < i \/ i = j
        BY <1>1
      <4> QED BY <2>3, <2>5, <3>3, <4>1, <4>2
    <3>5. q # 0
      <4>1. s.new # 0
        BY <1>9, <3>1
      <4> QED BY <1>6, <4>1
    <3> QED BY <1>11, <2>1, <2>2, <2>5, <3>1, <3>3, <3>4, <3>5
  <2> QED BY <2>4, <2>5
<1>13. ASSUME NEW h \in [owner : {p}, byte : r.start..r.end, type : {r.type}], h.type # "F_UNLCK"
       PROVE  h \in HeldOf(M)
  <2> DEFINE f == [owner |-> p, type |-> r.type, start |-> r.start, end |-> r.end]
  <2>1. Numbered(f) /\ Byte(h, f) /\ f.owner = p /\ f.type = r.type
    BY <1>3 DEF Numbered, Byte
  <2>2. h.type = r.type /\ h.byte \in r.start..r.end
    OBVIOUS
  <2>3. q # 0
    BY <1>5, <1>13, <2>2
  <2>4. h.byte \in s.start..s.end
    BY <1>1, <1>3, <1>9, <2>2
  <2> HIDE DEF f
  <2> QED BY <1>11, <2>1, <2>3, <2>4
<1>14. ASSUME NEW h \in Granted(HeldOf(L), p, r)
       PROVE  h \in HeldOf(M)
  BY <1>12, <1>13 DEF Granted
<1> QED BY <1>10, <1>14

LEMMA NewListHeld ==
    ASSUME InsideFile, NEW L \in Seq(PosixLock), Once(L), Sorted(L), NEW p \in Procs,
           NEW r \in P!LockRequests
    PROVE  HeldOf(P!NewList(P!Loops(L, p, r), p, r)) = Granted(HeldOf(L), p, r)
<1> DEFINE M == P!NewList(P!Loops(L, p, r), p, r)
<1>1. \/ /\ r.type = "F_UNLCK" /\ M = L
         /\ \A i \in 1..Len(L) : L[i].owner = p => L[i].end < r.start \/ r.end < L[i].start
      \/ \E s, org, n1, n2 : Final(L, p, r, s, org, M, n1, n2)
  BY NewListFinal
<1> HIDE DEF M
<1>2. ASSUME r.type = "F_UNLCK",
             \A i \in 1..Len(L) : L[i].owner = p => L[i].end < r.start \/ r.end < L[i].start
      PROVE  HeldOf(L) = Granted(HeldOf(L), p, r)
  <2>1. ASSUME NEW h \in HeldOf(L), h.owner = p
        PROVE  h.byte \notin r.start..r.end
    <3>1. PICK i \in 1..Len(L) : Byte(h, L[i])
      BY HeldIn
    <3>2. Numbered(L[i])
      BY ListNumbered
    <3>3. h.owner = L[i].owner /\ h.byte \in Int /\ Holds(L[i], h.byte)
      BY <3>1, <3>2, ByteFields
    <3>4. L[i].end < r.start \/ r.end < L[i].start
      BY <1>2, <2>1, <3>3
    <3>5. r.start \in Int /\ r.end \in Int
      BY RequestFields
    <3> QED BY <3>2, <3>3, <3>4, <3>5 DEF Holds, Numbered
  <2>2. \A h \in [owner : {p}, byte : r.start..r.end, type : {r.type}] : h.type = "F_UNLCK"
    BY <1>2
  <2> QED BY <2>1, <2>2 DEF Granted
<1> QED BY <1>1, <1>2, PartsGranted DEF M

LEMMA SameHeld ==
    ASSUME NEW L \in Seq(PosixLock), NEW M \in Seq(PosixLock), Len(M) = Len(L),
           \A i \in 1..Len(L) : /\ M[i].owner = L[i].owner /\ M[i].type = L[i].type
                                /\ M[i].start = L[i].start /\ M[i].end = L[i].end
    PROVE  HeldOf(M) = HeldOf(L)
<1>1. ASSUME NEW h PROVE h \in HeldOf(M) <=> h \in HeldOf(L)
  <2>1. \A i \in 1..Len(L) : Byte(h, M[i]) <=> Byte(h, L[i])
    BY DEF Byte
  <2> QED BY <2>1, HeldIn
<1> QED BY <1>1

LEMMA UnblockHeld ==
    ASSUME NEW L \in Seq(PosixLock), Once(L), NEW p
    PROVE  HeldOf(P!locks_delete_block(L, p)) = HeldOf(L)
<1> DEFINE U == P!locks_delete_block(L, p)
<1>1. /\ U \in Seq(PosixLock) /\ Len(U) = Len(L)
      /\ \A i \in 1..Len(L) : OffBlock(U[i], L[i], p)
  BY UnblockFacts
<1> HIDE DEF U
<1>2. \A i \in 1..Len(L) : /\ U[i].owner = L[i].owner /\ U[i].type = L[i].type
                           /\ U[i].start = L[i].start /\ U[i].end = L[i].end
  BY <1>1 DEF OffBlock
<1> QED BY <1>1, <1>2, SameHeld DEF U

LEMMA InsertHeld ==
    ASSUME NEW L \in Seq(PosixLock), Once(L), NEW p \in Procs, NEW i \in 1..Len(L)
    PROVE  HeldOf(P!locks_insert_block(P!locks_delete_block(L, p), i, p)) = HeldOf(L)
<1> DEFINE U == P!locks_insert_block(P!locks_delete_block(L, p), i, p)
<1>1. /\ U \in Seq(PosixLock) /\ Len(U) = Len(L)
      /\ \A x \in 1..Len(L) : OnBlock(U[x], L[x], p, IF x = i THEN {p} ELSE {})
  BY InsertFacts
<1> HIDE DEF U
<1>2. \A x \in 1..Len(L) : /\ U[x].owner = L[x].owner /\ U[x].type = L[x].type
                           /\ U[x].start = L[x].start /\ U[x].end = L[x].end
  BY <1>1 DEF OnBlock
<1> QED BY <1>1, <1>2, SameHeld DEF U

LEMMA KeepHeld ==
    ASSUME NEW L \in Seq(PosixLock), NEW p
    PROVE  HeldOf(Keep(L, {i \in DOMAIN L : L[i].owner = p})) = {h \in HeldOf(L) : h.owner # p}
<1> DEFINE I == {i \in DOMAIN L : L[i].owner = p}
           M == Keep(L, I)
<1>1. DOMAIN L = 1..Len(L)
  OBVIOUS
<1>2. \A i \in 1..Len(L) : i \in I <=> L[i].owner = p
  BY <1>1
<1> HIDE DEF I
<1>3. M \in Seq(PosixLock) /\ \E g : Picks(g, M, L, I)
  BY KeepFacts
<1> HIDE DEF M
<1>4. PICK g : Picks(g, M, L, I)
  BY <1>3
<1>5. /\ \A i \in 1..Len(M) : g[i] \in 1..Len(L) /\ g[i] \notin I /\ M[i] = L[g[i]]
      /\ \A k \in 1..Len(L) : k \notin I => \E i \in 1..Len(M) : g[i] = k
  BY <1>4 DEF Picks
<1>6. ASSUME NEW h, NEW i \in 1..Len(L), Byte(h, L[i])
      PROVE  h.owner = L[i].owner
  BY <1>6, ListNumbered, ByteFields
<1>7. ASSUME NEW h \in HeldOf(M)
      PROVE  h \in HeldOf(L) /\ h.owner # p
  <2>1. PICK i \in 1..Len(M) : Byte(h, M[i])
    BY <1>3, HeldIn
  <2>2. g[i] \in 1..Len(L) /\ L[g[i]].owner # p /\ Byte(h, L[g[i]])
    BY <1>2, <1>5, <2>1
  <2> QED BY <1>6, <2>2, HeldIn
<1>8. ASSUME NEW h \in HeldOf(L), h.owner # p
      PROVE  h \in HeldOf(M)
  <2>1. PICK k \in 1..Len(L) : Byte(h, L[k])
    BY HeldIn
  <2>2. k \notin I
    BY <1>2, <1>6, <1>8, <2>1
  <2>3. PICK i \in 1..Len(M) : g[i] = k
    BY <1>5, <2>2
  <2>4. Byte(h, M[i])
    BY <1>5, <2>1, <2>3
  <2> QED BY <1>3, <2>4, HeldIn
<1> QED BY <1>7, <1>8 DEF M, I

----------------------------------------------------------------------------
(* Every step of the locks is one of ByteLocks, or leaves it as it is.      *)

Want == [q \in Procs |-> IF Waiting(q, {"flock"}) THEN None ELSE req[q]]

\* Want depends on the requests alone.
Asking(rq) == [q \in Procs |-> IF rq[q] \in P!Requests THEN rq[q] ELSE None]

LEMMA WantOf ==
    ASSUME NEW c, NEW rq, rq \in [Procs -> P!Requests \cup F!Requests \cup {None}],
           \A q \in Procs : c[q] = "user" <=> rq[q] = None
    PROVE  [q \in Procs |-> IF c[q] # "user" /\ rq[q].op \in {"flock"} THEN None ELSE rq[q]]
               = Asking(rq)
<1>1. ASSUME NEW q \in Procs
      PROVE  (IF c[q] # "user" /\ rq[q].op \in {"flock"} THEN None ELSE rq[q])
                 = (IF rq[q] \in P!Requests THEN rq[q] ELSE None)
  <2> DEFINE x == rq[q]
  <2>1. x \in P!Requests \/ x \in F!Requests \/ x = None
    OBVIOUS
  <2>2. c[q] = "user" <=> x = None
    OBVIOUS
  <2> HIDE DEF x
  <2>3. (IF c[q] # "user" /\ x.op \in {"flock"} THEN None ELSE x)
            = (IF x \in P!Requests THEN x ELSE None)
    <3>1. CASE x \in P!Requests
      BY <2>2, <3>1, RequestKinds
    <3>2. CASE x \in F!Requests
      BY <2>2, <3>2, RequestKinds
    <3>3. CASE x = None
      BY <2>2, <3>3
    <3> QED BY <2>1, <3>1, <3>2, <3>3
  <2> QED BY <2>3 DEF x
<1> QED BY <1>1 DEF Asking

LEMMA WantIs ==
    /\ TypeOK => Want = Asking(req)
    /\ TypeOK' => Want' = Asking(req')
<1>1. ASSUME TypeOK PROVE Want = Asking(req)
  <2>1. /\ req \in [Procs -> P!Requests \cup F!Requests \cup {None}]
        /\ \A q \in Procs : pc[q] = "user" <=> req[q] = None
    BY <1>1 DEF TypeOK
  <2> QED BY <2>1, WantOf DEF Want, Waiting
<1>2. ASSUME TypeOK' PROVE Want' = Asking(req')
  <2>1. /\ req' \in [Procs -> P!Requests \cup F!Requests \cup {None}]
        /\ \A q \in Procs : pc'[q] = "user" <=> req'[q] = None
    BY <1>2 DEF TypeOK
  <2> QED BY <2>1, WantOf DEF Want, Waiting
<1> QED BY <1>1, <1>2

\* How Want changes when p's request does.
LEMMA WantStep ==
    ASSUME TypeOK, TypeOK', NEW p \in Procs, NEW x, req' = [req EXCEPT ![p] = x]
    PROVE  /\ x \in P!Requests => Want' = [Want EXCEPT ![p] = x]
           /\ x \notin P!Requests => Want' = [Want EXCEPT ![p] = None]
           /\ req[p] \in P!Requests => Want[p] = req[p]
           /\ req[p] \notin P!Requests => Want[p] = None
<1>1. Want = Asking(req) /\ Want' = Asking(req')
  BY WantIs
<1>2. req \in [Procs -> P!Requests \cup F!Requests \cup {None}]
  BY DEF TypeOK
<1>3. \A q \in Procs : req'[q] = IF q = p THEN x ELSE req[q]
  BY <1>2
<1>4. ASSUME NEW y, y = IF x \in P!Requests THEN x ELSE None
      PROVE  Asking(req') = [Asking(req) EXCEPT ![p] = y]
  BY <1>3, <1>4 DEF Asking
<1>5. Asking(req)[p] = IF req[p] \in P!Requests THEN req[p] ELSE None
  BY DEF Asking
<1> QED BY <1>1, <1>4, <1>5

LEMMA HeldIs == Held = HeldOf(posix_list) /\ Held' = HeldOf(posix_list')
BY DEF Held, HeldOf

\* A request that meets no conflict may be granted.
LEMMA MayGrant ==
    ASSUME posix_list \in Seq(PosixLock), NEW p, NEW r \in P!LockRequests,
           r.type = "F_UNLCK" \/ P!Conflicts(p, r) = {}
    PROVE  Abstract!Allowed(p, r)
<1> SUFFICES ASSUME NEW h \in Held, h.owner # p, h.byte \in r.start..r.end,
                    "F_UNLCK" # r.type, "F_WRLCK" \in {h.type, r.type}
             PROVE  FALSE
  BY DEF Abstract!Allowed, Abstract!Area, Abstract!Excludes
<1>1. PICK i \in 1..Len(posix_list) : Byte(h, posix_list[i])
  BY HeldIs, HeldIn
<1> DEFINE f == posix_list[i]
<1>2. Numbered(f) /\ Byte(h, f)
  BY <1>1, ListNumbered
<1>3. i \in DOMAIN posix_list
  OBVIOUS
<1> HIDE DEF f
<1>4. h.owner = f.owner /\ h.type = f.type /\ h.byte \in Int /\ Holds(f, h.byte)
  BY <1>2, ByteFields
<1>5. r.start \in Int /\ r.end \in Int
  BY RequestFields
<1>6. r.end >= f.start /\ f.end >= r.start
  BY <1>2, <1>4, <1>5 DEF Holds, Numbered
<1>7. P!posix_locks_conflict(p, r, f)
  BY <1>4, <1>6 DEF P!posix_locks_conflict, P!locks_overlap
<1> QED BY <1>3, <1>7 DEF P!Conflicts, f

LEMMA RequestRange ==
    ASSUME InsideFile, NEW r \in P!Requests
    PROVE  r.start \in Int /\ r.end \in Int /\ (r.end < 0 \/ r.start <= r.end)
<1>1. r \in P!LockRequests \/ r \in P!AccessRequests
  BY DEF P!Requests
<1>2. CASE r \in P!LockRequests
  BY <1>2, RequestInside, RequestFields
<1>3. CASE r \in P!AccessRequests
  <2>1. PICK t \in {"F_RDLCK", "F_WRLCK"}, a \in Areas, w \in BOOLEAN :
           r = [op |-> "access", type |-> t, start |-> a[1], end |-> P!Wrap(a[1] + a[2] - 1), wait |-> w]
    BY <1>3, SMT DEF P!AccessRequests
  <2>2. r.start = a[1] /\ r.end = P!Wrap(a[1] + a[2] - 1)
    BY <2>1
  <2>3. a[1] \in 0..OFFSET_MAX /\ a[2] \in 1..OFFSET_MAX /\ OFFSET_MAX \in Nat
    BY ConstAssumption
  <2> DEFINE m == a[1]
             n == a[2]
  <2>4. m \in 0..OFFSET_MAX /\ n \in 1..OFFSET_MAX /\ r.start = m /\ r.end = P!Wrap(m + n - 1)
    BY <2>2, <2>3
  <2> HIDE DEF m, n
  <2> QED BY <2>3, <2>4 DEF P!Wrap
<1> QED BY <1>1, <1>2, <1>3

\* One that meets a conflict may not.
LEMMA MayNotGrant ==
    ASSUME InsideFile, posix_list \in Seq(PosixLock), Sorted(posix_list), NEW p,
           NEW r \in P!Requests, r.type # "F_UNLCK", P!Conflicts(p, r) # {}
    PROVE  ~Abstract!Allowed(p, r)
<1>1. PICK i \in 1..Len(posix_list) : P!posix_locks_conflict(p, r, posix_list[i])
  BY DEF P!Conflicts
<1> DEFINE f == posix_list[i]
<1>2. Numbered(f) /\ f.start <= f.end /\ f.start >= 0
  <2>1. f \in PosixLock
    OBVIOUS
  <2>2. Numbered(f) /\ f.start >= 0
    BY <2>1, LockFields, ConstAssumption DEF Numbered
  <2> QED BY <2>2 DEF Sorted
<1>3. /\ f.owner # p /\ r.end >= f.start /\ f.end >= r.start
      /\ r.type = "F_WRLCK" \/ f.type = "F_WRLCK"
  BY <1>1 DEF P!posix_locks_conflict, P!locks_overlap
<1> HIDE DEF f
<1>4. r.start \in Int /\ r.end \in Int /\ (r.end < 0 \/ r.start <= r.end)
  BY RequestRange
<1> DEFINE b == IF f.start <= r.start THEN r.start ELSE f.start
           h == [owner |-> f.owner, byte |-> b, type |-> f.type]
<1>5. b \in Int /\ b \in r.start..r.end /\ b \in f.start..f.end
  BY <1>2, <1>3, <1>4 DEF Numbered
<1> HIDE DEF b
<1>6. Byte(h, f) /\ h.owner # p /\ h.byte \in r.start..r.end /\ h.type = f.type
  BY <1>3, <1>5 DEF Byte
<1> HIDE DEF h
<1>7. h \in Held
  BY <1>6, HeldIs, HeldIn DEF f
<1> QED BY <1>3, <1>6, <1>7 DEF Abstract!Allowed, Abstract!Area, Abstract!Excludes

\* A step of ByteLocks or none.
ByteStep == [Abstract!Next]_<<Held, Want>>

LEMMA RefuseStep ==
    ASSUME TypeOK, TypeOK', NEW p \in Procs, req' = [req EXCEPT ![p] = None],
           HeldOf(posix_list') = HeldOf(posix_list)
    PROVE  ByteStep
<1>1. Want' = [Want EXCEPT ![p] = None]
  <2>1. None \notin P!Requests
    BY NoneAssumption
  <2> QED BY <2>1, WantStep
<1>2. Held' = Held
  BY HeldIs
<1>3. Abstract!Refuse(p)
  BY <1>1, <1>2 DEF Abstract!Refuse, Want
<1> QED BY <1>3 DEF ByteStep, Abstract!Next

LEMMA GrantStep ==
    ASSUME InsideFile, Inv, TypeOK', Sorted(posix_list), NEW p \in Procs,
           NEW r \in P!LockRequests, req[p] \in {None, r},
           r.type = "F_UNLCK" \/ P!Conflicts(p, r) = {},
           posix_list' = P!NewList(P!Loops(P!Unblocked(p), p, r), p, r),
           req' = [req EXCEPT ![p] = None]
    PROVE  ByteStep
<1>1. TypeOK /\ posix_list \in Seq(PosixLock) /\ Once(posix_list) /\ r \in P!Requests
  BY DEF Inv, TypeOK, P!Requests
<1>2. None \notin P!Requests
  BY NoneAssumption
<1>3. Want' = [Want EXCEPT ![p] = None] /\ Want[p] \in {None, r}
  BY <1>1, <1>2, WantStep
<1>4. Abstract!Allowed(p, r)
  BY <1>1, MayGrant
<1>5. Held' = Granted(Held, p, r)
  <2> DEFINE U == P!Unblocked(p)
  <2>1. U \in Seq(PosixLock) /\ Once(U) /\ Sorted(U) /\ HeldOf(U) = HeldOf(posix_list)
    BY <1>1, UnblockFacts, UnblockOnce, UnblockSorted, UnblockHeld DEF P!Unblocked
  <2>2. posix_list' = P!NewList(P!Loops(U, p, r), p, r)
    OBVIOUS
  <2> HIDE DEF U
  <2>3. HeldOf(posix_list') = Granted(HeldOf(U), p, r)
    BY <2>1, <2>2, NewListHeld
  <2> QED BY <2>1, <2>3, HeldIs
<1>6. r.op = "lock"
  BY RequestFields
<1>7. Abstract!Grant(p, r)
  BY <1>3, <1>4, <1>5, <1>6 DEF Abstract!Grant, Abstract!Area, Granted, Want
<1> QED BY <1>1, <1>7 DEF ByteStep, Abstract!Next

LEMMA WaitStep ==
    ASSUME InsideFile, Inv, TypeOK', Sorted(posix_list), NEW p \in Procs,
           NEW r \in P!Requests, req[p] \in {None, r}, r.type # "F_UNLCK", r.wait,
           P!Conflicts(p, r) # {},
           P!Sleeps(p, r, P!Unblocked(p), P!Min(P!Conflicts(p, r)))
    PROVE  ByteStep
<1>1. TypeOK /\ posix_list \in Seq(PosixLock) /\ Once(posix_list)
  BY DEF Inv, TypeOK
<1>2. None \notin P!Requests
  BY NoneAssumption
<1>3. req' = [req EXCEPT ![p] = r]
  BY DEF P!Sleeps
<1>4. Want' = [Want EXCEPT ![p] = r] /\ Want[p] = req[p]
  BY <1>1, <1>2, <1>3, WantStep
<1>5. ~Abstract!Allowed(p, r)
  BY <1>1, MayNotGrant
<1>6. Held' = Held
  <2> DEFINE i == P!Min(P!Conflicts(p, r))
  <2>1. i \in 1..Len(posix_list)
    BY <1>1, FirstConflict
  <2>2. posix_list' = P!locks_insert_block(P!locks_delete_block(posix_list, p), i, p)
    BY DEF P!Sleeps, P!Unblocked
  <2> HIDE DEF i
  <2> QED BY <1>1, <2>1, <2>2, InsertHeld, HeldIs
<1>7. CASE req[p] = None
  <2>1. Abstract!Wait(p, r)
    BY <1>4, <1>5, <1>6, <1>7 DEF Abstract!Wait, Want
  <2> QED BY <2>1 DEF ByteStep, Abstract!Next
<1>8. CASE req[p] = r
  <2>1. Want' = Want
    BY <1>4, <1>8 DEF Want
  <2> QED BY <1>6, <2>1 DEF ByteStep
<1> QED BY <1>7, <1>8

LEMMA PosixLockBytes ==
    ASSUME InsideFile, Inv, TypeOK', Sorted(posix_list), NEW p \in Procs,
           NEW r \in P!LockRequests, P!posix_lock_file(p, r)
    PROVE  ByteStep
<1>1. req[p] \in {None, r} /\ TypeOK /\ r \in P!Requests
  BY DEF P!posix_lock_file, P!At, Inv, TypeOK, P!Requests
<1>2. \/ posix_list' = P!Unblocked(p) /\ P!Return(p, {})
      \/ /\ r.type = "F_UNLCK" \/ P!Conflicts(p, r) = {}
         /\ posix_list' = P!NewList(P!Loops(P!Unblocked(p), p, r), p, r)
         /\ req' = [req EXCEPT ![p] = None]
      \/ /\ r.type # "F_UNLCK" /\ P!Conflicts(p, r) # {} /\ r.wait
         /\ P!Sleeps(p, r, P!Unblocked(p), P!Min(P!Conflicts(p, r)))
  BY DEF P!posix_lock_file, P!Return
<1>3. CASE posix_list' = P!Unblocked(p) /\ P!Return(p, {})
  <2>1. HeldOf(posix_list') = HeldOf(posix_list)
    BY <1>3, UnblockHeld DEF P!Unblocked, Inv, TypeOK
  <2>2. req' = [req EXCEPT ![p] = None]
    BY <1>3 DEF P!Return
  <2> QED BY <1>1, <2>1, <2>2, RefuseStep
<1>4. CASE /\ r.type = "F_UNLCK" \/ P!Conflicts(p, r) = {}
           /\ posix_list' = P!NewList(P!Loops(P!Unblocked(p), p, r), p, r)
           /\ req' = [req EXCEPT ![p] = None]
  BY <1>1, <1>4, GrantStep
<1>5. CASE /\ r.type # "F_UNLCK" /\ P!Conflicts(p, r) # {} /\ r.wait
           /\ P!Sleeps(p, r, P!Unblocked(p), P!Min(P!Conflicts(p, r)))
  BY <1>1, <1>5, WaitStep
<1> QED BY <1>2, <1>3, <1>4, <1>5

LEMMA PosixAccessBytes ==
    ASSUME InsideFile, Inv, TypeOK', Sorted(posix_list), NEW p \in Procs,
           NEW r \in P!AccessRequests, P!locks_mandatory_area(p, r)
    PROVE  ByteStep
<1>1. req[p] \in {None, r} /\ TypeOK /\ r \in P!Requests /\ r.type # "F_UNLCK"
  BY AccessFields DEF P!locks_mandatory_area, P!At, Inv, TypeOK, P!Requests
<1>2. \/ posix_list' = P!Unblocked(p) /\ P!Return(p, {})
      \/ /\ P!Conflicts(p, r) # {} /\ r.wait
         /\ P!Sleeps(p, r, P!Unblocked(p), P!Min(P!Conflicts(p, r)))
  BY DEF P!locks_mandatory_area
<1>3. CASE posix_list' = P!Unblocked(p) /\ P!Return(p, {})
  <2>1. HeldOf(posix_list') = HeldOf(posix_list)
    BY <1>3, UnblockHeld DEF P!Unblocked, Inv, TypeOK
  <2>2. req' = [req EXCEPT ![p] = None]
    BY <1>3 DEF P!Return
  <2> QED BY <1>1, <2>1, <2>2, RefuseStep
<1>4. CASE /\ P!Conflicts(p, r) # {} /\ r.wait
           /\ P!Sleeps(p, r, P!Unblocked(p), P!Min(P!Conflicts(p, r)))
  BY <1>1, <1>4, WaitStep
<1> QED BY <1>2, <1>3, <1>4

LEMMA PosixCloseBytes ==
    ASSUME Inv, TypeOK', NEW p \in Procs, P!posix_remove_locks(p)
    PROVE  ByteStep
<1>1. /\ TypeOK /\ posix_list \in Seq(PosixLock) /\ pc[p] = "user" /\ req[p] = None /\ req' = req
      /\ posix_list' = Keep(posix_list, {i \in DOMAIN posix_list : posix_list[i].owner = p})
  BY SameOperators DEF P!posix_remove_locks, Inv, TypeOK
<1>2. Want' = Want
  BY <1>1, WantIs
<1>3. Want[p] = None
  BY <1>1 DEF Want
<1>4. Held' = {h \in Held : h.owner # p}
  BY <1>1, KeepHeld, HeldIs
<1>5. Abstract!Close(p)
  BY <1>2, <1>3, <1>4 DEF Abstract!Close, Want
<1> QED BY <1>5 DEF ByteStep, Abstract!Next

\* What flock does is no matter of the bytes.
LEMMA FlockBytes ==
    ASSUME Inv, TypeOK', NEW p \in Procs, FlockCall(p)
    PROVE  ByteStep
<1>1. posix_list' = posix_list /\ TypeOK
  BY DEF FlockCall, Flocks, Inv
<1>2. req[p] \notin P!Requests
  <2>1. pc[p] = "user" \/ req[p].op = "flock"
    BY DEF FlockCall, Flocks, F!flock_lock_file, Waiting
  <2>2. pc[p] = "user" => req[p] = None
    BY DEF Inv, TypeOK
  <2> QED BY <2>1, <2>2, RequestKinds
<1>3. \/ req' = req
      \/ \E x \in F!Requests \cup {None, req[p]} : req' = [req EXCEPT ![p] = x]
  <2>1. \/ \E r \in F!Requests, s \in BOOLEAN : F!flock_lock_file(p, r, s)
        \/ F!Resume(p) \/ F!Yield(p)
    BY Zenon DEF FlockCall, Flocks
  <2>2. ASSUME NEW r, NEW s, NEW list, F!Repeat(p, r, s, list)
        PROVE  \E x \in {None, r} : req' = [req EXCEPT ![p] = x]
    BY <2>2 DEF F!Repeat, F!Return, F!Sleeps
  <2>3. ASSUME NEW r, NEW s, F!search(p, r, s)
        PROVE  \E x \in {None, r} : req' = [req EXCEPT ![p] = x]
    <3>1. \/ \E list : F!Repeat(p, r, s, list)
          \/ F!Return(p, {})
          \/ req' = [req EXCEPT ![p] = r]
      BY <2>3 DEF F!search
    <3> QED BY <2>2, <3>1 DEF F!Return
  <2>4. ASSUME F!unlock(p)
        PROVE  req' = [req EXCEPT ![p] = None]
    BY <2>4 DEF F!unlock, F!Return
  <2>5. CASE \E r \in F!Requests, s \in BOOLEAN : F!flock_lock_file(p, r, s)
    BY <2>3, <2>4, <2>5 DEF F!flock_lock_file
  <2>6. CASE F!Resume(p)
    BY <2>2, <2>6 DEF F!Resume
  <2>7. CASE F!Yield(p)
    BY <2>3, <2>7 DEF F!Yield
  <2> QED BY <2>1, <2>5, <2>6, <2>7
<1>4. Want' = Want
  <2>1. CASE req' = req
    BY <1>1, <2>1, WantIs
  <2>2. ASSUME NEW x \in F!Requests \cup {None, req[p]}, req' = [req EXCEPT ![p] = x]
        PROVE  Want' = Want
    <3>1. x \notin P!Requests
      BY <1>2, RequestKinds, NoneAssumption
    <3>2. Want' = [Want EXCEPT ![p] = None] /\ Want[p] = None
      BY <1>1, <1>2, <2>2, <3>1, WantStep
    <3> QED BY <3>2 DEF Want
  <2> QED BY <1>3, <2>1, <2>2
<1>5. Held' = Held
  BY <1>1, HeldIs
<1> QED BY <1>4, <1>5 DEF ByteStep

LEMMA BytesNext ==
    InsideFile /\ Inv /\ Inv' /\ Sorted(posix_list) /\ [Next]_vars => ByteStep
<1> SUFFICES ASSUME InsideFile, Inv, Inv', Sorted(posix_list), [Next]_vars
             PROVE  ByteStep
  OBVIOUS
<1>1. TypeOK /\ TypeOK'
  BY DEF Inv
<1>2. CASE posix_list' = posix_list /\ req' = req
  <2>1. Held' = Held /\ Want' = Want
    BY <1>1, <1>2, HeldIs, WantIs
  <2> QED BY <2>1 DEF ByteStep
<1>3. ASSUME NEW p \in Procs, PosixCall(p) PROVE ByteStep
  <2>1. \/ \E r \in P!LockRequests : P!posix_lock_file(p, r)
        \/ \E r \in P!AccessRequests : P!locks_mandatory_area(p, r)
        \/ Waiting(p, {"lock"}) /\ P!posix_lock_file(p, req[p])
        \/ Waiting(p, {"access"}) /\ P!locks_mandatory_area(p, req[p])
    BY <1>3 DEF PosixCall, Posix
  <2>2. /\ Waiting(p, {"lock"}) => req[p] \in P!LockRequests
        /\ Waiting(p, {"access"}) => req[p] \in P!AccessRequests
    <3>1. pc[p] # "user" => req[p] # None /\ req[p] \in P!Requests \cup F!Requests \cup {None}
      BY <1>1 DEF TypeOK
    <3> QED BY <3>1, RequestKinds DEF Waiting
  <2> QED BY <1>1, <2>1, <2>2, PosixLockBytes, PosixAccessBytes
<1>4. ASSUME NEW p \in Procs, Close(p) PROVE ByteStep
  <2>1. CASE Posix(P!posix_remove_locks(p))
    BY <1>1, <2>1, PosixCloseBytes DEF Posix
  <2>2. CASE Flocks(F!flock_remove_locks(p))
    BY <1>2, <2>2 DEF Flocks, F!flock_remove_locks
  <2> QED BY <1>4, <2>1, <2>2 DEF Close
<1>5. ASSUME NEW p \in Procs, FlockCall(p) PROVE ByteStep
  BY <1>1, <1>5, FlockBytes
<1>6. \/ \E p \in Procs : PosixCall(p) \/ Close(p) \/ FlockCall(p)
      \/ posix_list' = posix_list /\ req' = req
  BY DEF Next, Signal, Flocks, F!Open, Posix, P!ChangeMode, vars
<1> QED BY <1>2, <1>3, <1>4, <1>5, <1>6

\* The list of fcntl locks, with its merging, splitting and cutting, locks and
\* frees exactly the bytes that a granted request names; a request is granted,
\* and one waits, only as the bytes held allow; a refused one changes none.
THEOREM BytesImplemented == InsideFile => (Spec => ImplementsBytes)
<1> SUFFICES ASSUME InsideFile PROVE Spec => ImplementsBytes
  OBVIOUS
<1> DEFINE S == Sorted(posix_list)
<1>1. Init => S
  BY DEF Init, Sorted
<1>2. Inv /\ S /\ [Next]_vars => S'
  BY SortedNext
<1>3. Init => Abstract!Init
  <2> SUFFICES ASSUME Init PROVE Abstract!Init
    OBVIOUS
  <2>1. posix_list = << >> /\ \A q \in Procs : req[q] = None
    BY DEF Init
  <2>2. Held = {}
    BY <2>1 DEF Held, Range
  <2>3. Want = [q \in Procs |-> None]
    BY <2>1 DEF Want
  <2> QED BY <2>2, <2>3 DEF Abstract!Init, Want
<1>4. Inv /\ Inv' /\ S /\ [Next]_vars =>
          [Abstract!Next]_<<Held, [p \in Procs |-> IF Waiting(p, {"flock"}) THEN None ELSE req[p]]>>
  BY BytesNext DEF ByteStep, Want
<1> HIDE DEF S
<1>5. Spec => Abstract!Spec
  BY <1>1, <1>2, <1>3, <1>4, Invariant, PTL DEF Spec, Abstract!Spec
<1> QED BY <1>5 DEF ImplementsBytes
=============================================================================
