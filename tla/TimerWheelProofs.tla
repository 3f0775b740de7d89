-------------------------- MODULE TimerWheelProofs --------------------------
(***************************************************************************)
(* Theorems about the timers, for any set of timers and vectors of any     *)
(* size: the indexes of the vectors are the digits of timer_jiffies, and    *)
(* the wheel implements the set of timers across every cascade and, but for *)
(* the timers that add_timer misjudges there, the wrap of jiffies.          *)
(*                                                                         *)
(* The invariant says where a timer is: in the list its expiry names, of a *)
(* vector that reaches as far as the timer is away, and at a list that has *)
(* not been cascaded since; in the list that is run now, if it was taken    *)
(* for past; or in no list.                                                 *)
(***************************************************************************)
EXTENDS TimerWheel, TLAPS

----------------------------------------------------------------------------
(* Facts about quotients and remainders.                                    *)

\* A number is its quotient times the divisor plus its remainder.
LEMMA DivMod ==
    ASSUME NEW a \in Int, NEW d \in Nat \ {0}
    PROVE  /\ (a % d) \in 0..(d-1) /\ (a \div d) \in Int
           /\ a = d * (a \div d) + (a % d)
OBVIOUS

\* There is one quotient and one remainder.
LEMMA DivUnique ==
    ASSUME NEW a \in Int, NEW d \in Nat \ {0}, NEW q \in Int, NEW r \in 0..(d-1),
           a = d * q + r
    PROVE  (a % d) = r /\ (a \div d) = q
<1>1. (a % d) \in 0..(d-1) /\ (a \div d) \in Int /\ a = d * (a \div d) + (a % d)
  BY DivMod
<1> DEFINE x == a \div d
           y == a % d
<1>2. x \in Int /\ y \in 0..(d-1) /\ d * x + y = d * q + r
  BY <1>1
<1> HIDE DEF x, y
<1>3. d * (x - q) = r - y
  BY <1>2
<1>4. /\ x - q >= 1 => d * (x - q) >= d
      /\ x - q <= -1 => d * (x - q) <= -d
  BY <1>2
<1>5. x = q
  BY <1>2, <1>3, <1>4
<1>6. y = r
  BY <1>2, <1>5
<1> QED BY <1>5, <1>6 DEF x, y

\* A multiple of the divisor does not change the remainder.
LEMMA ModShift ==
    ASSUME NEW a \in Int, NEW d \in Nat \ {0}, NEW k \in Int
    PROVE  ((a + d * k) % d) = (a % d)
<1>1. (a % d) \in 0..(d-1) /\ (a \div d) \in Int /\ a = d * (a \div d) + (a % d)
  BY DivMod
<1>2. d * k \in Int /\ (a \div d) + k \in Int /\ d * ((a \div d) + k) = d * (a \div d) + d * k
  BY <1>1
<1>3. a + d * k = d * ((a \div d) + k) + (a % d) /\ a + d * k \in Int
  BY <1>1, <1>2
<1> QED BY <1>1, <1>2, <1>3, DivUnique

\* A number in front of b * N is less than N times b.
LEMMA Quotient ==
    ASSUME NEW b \in Nat \ {0}, NEW k \in Int, NEW n \in Int, NEW r \in 0..(b-1)
    PROVE  /\ 0 <= b * k + r => 0 <= k
           /\ b * k + r < b * n => k < n
           /\ 0 <= k => b * k >= 0
           /\ 1 <= k => b * k >= b
           /\ k < n => b * k + r < b * n
<1>1. /\ k <= -1 => b * k <= -b
      /\ 0 <= k => b * k >= 0
      /\ 1 <= k => b * k >= b
  OBVIOUS
<1>2. b * (n - k) = b * n - b * k /\ b * k \in Int /\ b * n \in Int
  OBVIOUS
<1>3. n - k >= 1 => b * (n - k) >= b
  OBVIOUS
<1>4. n - k <= 0 => b * (n - k) <= 0
  OBVIOUS
<1>5. 0 <= b * k + r => 0 <= k
  BY <1>1, <1>2
<1>6. b * k + r < b * n => k < n
  BY <1>2, <1>4
<1>7. k < n => b * k + r < b * n
  BY <1>2, <1>3
<1> QED BY <1>1, <1>5, <1>6, <1>7

\* Two numbers have the same remainder if their difference has none.
LEMMA ModEqual ==
    ASSUME NEW x \in Int, NEW y \in Int, NEW n \in Nat \ {0}
    PROVE  ((x - y) % n) = 0 <=> (x % n) = (y % n)
<1>1. (x % n) \in 0..(n-1) /\ (x \div n) \in Int /\ x = n * (x \div n) + (x % n)
  BY DivMod
<1>2. (y % n) \in 0..(n-1) /\ (y \div n) \in Int /\ y = n * (y \div n) + (y % n)
  BY DivMod
<1> DEFINE a == x \div n
           b == y \div n
           u == x % n
           v == y % n
<1>3. /\ a \in Int /\ b \in Int /\ u \in 0..(n-1) /\ v \in 0..(n-1)
      /\ x = n * a + u /\ y = n * b + v
  BY <1>1, <1>2
<1> HIDE DEF a, b, u, v
<1>4. n * (a - b) = n * a - n * b /\ n * (a - b - 1) = n * a - n * b - n
      /\ n * a \in Int /\ n * b \in Int
  BY <1>3
<1>5. u = v => ((x - y) % n) = 0
  <2>1. u = v => x - y = n * (a - b) + 0
    BY <1>3, <1>4
  <2>2. x - y \in Int /\ a - b \in Int /\ 0 \in 0..(n-1)
    BY <1>3
  <2> QED BY <2>1, <2>2, DivUnique
<1>6. CASE u > v
  <2>1. x - y = n * (a - b) + (u - v) /\ u - v \in 0..(n-1) /\ u - v # 0
    BY <1>3, <1>4, <1>6
  <2>2. x - y \in Int /\ a - b \in Int
    BY <1>3
  <2>3. ((x - y) % n) = u - v
    BY <2>1, <2>2, DivUnique
  <2> QED BY <1>6, <2>1, <2>3, <1>3 DEF u, v
<1>7. CASE u < v
  <2>1. /\ x - y = n * (a - b - 1) + (u - v + n) /\ u - v + n \in 0..(n-1) /\ u - v + n # 0
    BY <1>3, <1>4, <1>7
  <2>2. x - y \in Int /\ a - b - 1 \in Int
    BY <1>3
  <2>3. ((x - y) % n) = u - v + n
    BY <2>1, <2>2, DivUnique
  <2> QED BY <1>7, <2>1, <2>3, <1>3 DEF u, v
<1> QED BY <1>3, <1>5, <1>6, <1>7 DEF u, v

\* Unsigned subtraction.
LEMMA Distance ==
    ASSUME NEW W \in Nat \ {0}, NEW e \in 0..(W-1), NEW s \in 0..(W-1)
    PROVE  ((e - s) % W) = (IF e >= s THEN e - s ELSE e - s + W)
<1>1. CASE e >= s
  <2>1. e - s = W * 0 + (e - s) /\ e - s \in 0..(W-1) /\ e - s \in Int
    BY <1>1
  <2> QED BY <1>1, <2>1, DivUnique
<1>2. CASE e < s
  <2>1. e - s = W * (-1) + (e - s + W) /\ e - s + W \in 0..(W-1) /\ e - s \in Int /\ -1 \in Int
    BY <1>2
  <2> QED BY <1>2, <2>1, DivUnique
<1> QED BY <1>1, <1>2

\* W is m spans of n units of b.
Divides(b, n, m, W) ==
    b \in Nat \ {0} /\ n \in Nat \ {0} /\ m \in Nat \ {0} /\ W = b * (n * m)

\* How far e is from s, counted in b, and what this says about the digits of e
\* and s above b.
Counted(e, s, b, n, W) ==
    \E k \in Nat : /\ ((e - s) % W) = b * k + (e % b)
                   /\ (k % n) = 0 <=> ((e \div b) % n) = ((s \div b) % n)

\* From a multiple s of b.
LEMMA Digit ==
    ASSUME NEW b, NEW n, NEW m, NEW W, Divides(b, n, m, W),
           NEW e \in 0..(W-1), NEW s \in 0..(W-1), (s % b) = 0
    PROVE  Counted(e, s, b, n, W)
<1>0. b \in Nat \ {0} /\ n \in Nat \ {0} /\ m \in Nat \ {0} /\ W = b * (n * m)
  BY DEF Divides
<1>3. n * m \in Nat \ {0} /\ W \in Nat \ {0} /\ e \in Int /\ s \in Int
  <2>1. n * m \in Nat \ {0}
    BY <1>0
  <2> DEFINE x == n * m
  <2>2. x \in Nat \ {0} /\ W = b * x
    BY <1>0, <2>1
  <2> HIDE DEF x
  <2>3. b * x \in Nat \ {0}
    BY <1>0, <2>2
  <2> QED BY <1>0, <2>1, <2>2, <2>3
<1> USE <1>0
<1> DEFINE q == e \div b
           p == s \div b
           r == e % b
<1>1. r \in 0..(b-1) /\ q \in Int /\ e = b * q + r
  BY <1>3, DivMod
<1>2. p \in Int /\ s = b * p
  BY <1>3, DivMod
<1> HIDE DEF q, p, r
<1>4. ASSUME NEW c \in Int, ((e - s) % W) = e - s + c * W
      PROVE  \E k \in Nat : /\ ((e - s) % W) = b * k + r
                            /\ (k % n) = 0 <=> (q % n) = (p % n)
  <2> DEFINE k == (q - p) + n * (c * m)
  <2>1. c * m \in Int /\ n * (c * m) \in Int /\ q - p \in Int /\ n * (c * m) = c * (n * m)
    BY <1>1, <1>2
  <2>2. k \in Int
    BY <2>1
  <2>3. ((e - s) % W) = b * k + r
    <3>1. c * W = b * (c * (n * m))
      BY <1>3
    <3>2. b * (q - p) = b * q - b * p /\ b * q \in Int /\ b * p \in Int
      BY <1>1, <1>2
    <3>3. b * k = b * (q - p) + b * (c * (n * m))
      BY <2>1
    <3>4. b * (c * (n * m)) \in Int
      BY <1>3
    <3> QED BY <1>1, <1>2, <1>3, <1>4, <3>1, <3>2, <3>3, <3>4
  <2>4. (k % n) = ((q - p) % n)
    BY <2>1, ModShift
  <2>5. (k % n) = 0 <=> (q % n) = (p % n)
    <3>1. ((q - p) % n) = 0 <=> (q % n) = (p % n)
      <4>1. q \in Int /\ p \in Int
        BY <1>1, <1>2
      <4> HIDE <1>0
      <4> HIDE DEF k
      <4> QED BY <1>0, <4>1, ModEqual, ZenonT(30)
    <3> HIDE DEF k
    <3> QED BY <2>4, <3>1
  <2>6. ((e - s) % W) >= 0
    BY <1>3, DivMod
  <2> HIDE DEF k
  <2>7. k \in Nat
    BY <1>1, <2>2, <2>3, <2>6, Quotient
  <2> QED BY <2>3, <2>5, <2>7
<1>5. \E c \in Int : ((e - s) % W) = e - s + c * W
  <2>1. ((e - s) % W) = (IF e >= s THEN e - s ELSE e - s + W)
    BY <1>3, Distance
  <2>2. CASE e >= s
    <3>1. ((e - s) % W) = e - s + 0 * W
      BY <1>3, <2>1, <2>2
    <3> WITNESS 0 \in Int
    <3> QED BY <3>1
  <2>3. CASE ~(e >= s)
    <3>1. ((e - s) % W) = e - s + 1 * W
      BY <1>3, <2>1, <2>3
    <3> WITNESS 1 \in Int
    <3> QED BY <3>1
  <2> QED BY <2>2, <2>3
<1> QED BY <1>4, <1>5 DEF q, p, r, Counted

----------------------------------------------------------------------------
(* The vectors.                                                             *)

\* The jiffies a list of vector n stands for, and those the vector reaches.
Unit(n) == IF n = 1 THEN 1 ELSE Reach(n - 1)
Span(n) == Unit(n) * Size(n)

\* Each vector's unit is the reach of the one before; all divide the word.
LEMMA Units ==
    /\ \A n \in Levels : /\ Size(n) \in Nat /\ Size(n) > 1 /\ Unit(n) \in Nat \ {0}
                         /\ Span(n) \in Nat \ {0} /\ Unit(n) <= Span(n)
                         /\ \E m \in Nat \ {0} : Word = Unit(n) * (Size(n) * m)
    /\ \A n \in 1..4 : Unit(n + 1) = Span(n) /\ Reach(n) = Span(n)
    /\ Span(5) = Word /\ Word \in Nat /\ Word > 31
    /\ Unit(5) = Far /\ Unit(2) = TVR_SIZE /\ Unit(1) = 1
    /\ Unit(1) <= Unit(2) /\ Unit(2) <= Unit(3) /\ Unit(3) <= Unit(4) /\ Unit(4) <= Unit(5)
    /\ \A n \in 2..5 : Size(n) = TVN_SIZE
<1> DEFINE a == TVR_SIZE
           b == TVN_SIZE
<1>1. a \in Nat /\ a > 1 /\ b \in Nat /\ b > 1
  BY ConstAssumption
<1>2. /\ Unit(1) = 1 /\ Unit(2) = a /\ Unit(3) = a * b /\ Unit(4) = a * b * b /\ Unit(5) = a * b * b * b
      /\ Size(1) = a /\ Size(2) = b /\ Size(3) = b /\ Size(4) = b /\ Size(5) = b
      /\ Reach(1) = a /\ Reach(2) = a * b /\ Reach(3) = a * b * b /\ Reach(4) = a * b * b * b
      /\ Far = a * b * b * b /\ Word = a * b * b * b * b
  BY DEF Unit, Size, Reach, Far, Word
<1> HIDE DEF a, b
<1>3. \A x \in Nat \ {0} : x * b \in Nat /\ x * b >= 2 * x /\ x <= x * b
  <2> TAKE x \in Nat \ {0}
  <2>1. x * (b - 2) = x * b - 2 * x /\ x * (b - 2) >= 0
    BY <1>1
  <2> QED BY <1>1, <2>1
<1> DEFINE u3 == a * b
           u4 == u3 * b
           u5 == u4 * b
           w == u5 * b
<1>4. u3 \in Nat /\ u3 >= 2 * a /\ a <= u3
  BY <1>1, <1>3
<1>5. u4 \in Nat /\ u4 >= 2 * u3 /\ u3 <= u4
  <2> HIDE DEF u3
  <2> QED BY <1>1, <1>3, <1>4
<1>6. u5 \in Nat /\ u5 >= 2 * u4 /\ u4 <= u5
  <2> HIDE DEF u4
  <2> QED BY <1>1, <1>3, <1>4, <1>5
<1>7. w \in Nat /\ w >= 2 * u5 /\ u5 <= w
  <2> HIDE DEF u5
  <2> QED BY <1>1, <1>3, <1>4, <1>5, <1>6
<1>8. /\ Unit(3) = u3 /\ Unit(4) = u4 /\ Unit(5) = u5 /\ Far = u5 /\ Word = w
      /\ Reach(2) = u3 /\ Reach(3) = u4 /\ Reach(4) = u5
  BY <1>2
<1>9. /\ w = 1 * (a * (b * b * b * b)) /\ w = a * (b * (b * b * b))
      /\ w = u3 * (b * (b * b)) /\ w = u4 * (b * b) /\ w = u5 * (b * 1)
      /\ b * b \in Nat \ {0} /\ b * b * b \in Nat \ {0} /\ b * b * b * b \in Nat \ {0}
  <2>1. b * b \in Nat \ {0}
    BY <1>1
  <2>2. b * b * b \in Nat \ {0}
    BY <1>1, <2>1
  <2>3. b * b * b * b \in Nat \ {0}
    BY <1>1, <2>2
  <2>4. /\ w = 1 * (a * (b * b * b * b)) /\ w = a * (b * (b * b * b))
        /\ w = u3 * (b * (b * b)) /\ w = u4 * (b * b) /\ w = u5 * (b * 1)
    BY <1>1
  <2> QED BY <2>1, <2>2, <2>3, <2>4
<1> HIDE DEF u3, u4, u5, w
<1>10. /\ Span(1) = a /\ Span(2) = u3 /\ Span(3) = u4 /\ Span(4) = u5 /\ Span(5) = w
  BY <1>1, <1>2, <1>8 DEF Span, u3, u4, u5, w
<1>11. ASSUME NEW n \in Levels
       PROVE  /\ Size(n) \in Nat /\ Size(n) > 1 /\ Unit(n) \in Nat \ {0}
              /\ Span(n) \in Nat \ {0} /\ Unit(n) <= Span(n)
              /\ \E m \in Nat \ {0} : Word = Unit(n) * (Size(n) * m)
  <2>0. n = 1 \/ n = 2 \/ n = 3 \/ n = 4 \/ n = 5
    BY DEF Levels
  <2>1. CASE n = 1
    <3>1. Word = Unit(1) * (Size(1) * (b * b * b * b))
      BY <1>2, <1>8, <1>9
    <3> QED BY <1>1, <1>2, <1>9, <1>10, <2>1, <3>1
  <2>2. CASE n = 2
    <3>1. Word = Unit(2) * (Size(2) * (b * b * b))
      BY <1>2, <1>8, <1>9
    <3> QED BY <1>1, <1>2, <1>4, <1>9, <1>10, <2>2, <3>1
  <2>3. CASE n = 3
    <3>1. Word = Unit(3) * (Size(3) * (b * b))
      BY <1>2, <1>8, <1>9
    <3> QED BY <1>1, <1>2, <1>4, <1>5, <1>8, <1>9, <1>10, <2>3, <3>1
  <2>4. CASE n = 4
    <3>1. Word = Unit(4) * (Size(4) * b)
      BY <1>2, <1>8, <1>9
    <3> QED BY <1>1, <1>2, <1>4, <1>5, <1>6, <1>8, <1>10, <2>4, <3>1
  <2>5. CASE n = 5
    <3>1. Word = Unit(5) * (Size(5) * 1)
      BY <1>2, <1>8, <1>9
    <3> QED BY <1>1, <1>2, <1>4, <1>5, <1>6, <1>7, <1>8, <1>10, <2>5, <3>1
  <2> QED BY <2>0, <2>1, <2>2, <2>3, <2>4, <2>5
<1>12. ASSUME NEW n \in 1..4 PROVE Unit(n + 1) = Span(n) /\ Reach(n) = Span(n)
  <2>0. n = 1 \/ n = 2 \/ n = 3 \/ n = 4
    OBVIOUS
  <2> QED BY <2>0, <1>2, <1>8, <1>10
<1>13. Word \in Nat /\ Word > 31
  BY <1>1, <1>4, <1>5, <1>6, <1>7, <1>8
<1>14. \A n \in 2..5 : Size(n) = TVN_SIZE
  BY DEF Size
<1>15. Unit(2) = TVR_SIZE
  BY <1>2 DEF a
<1>16. Unit(1) <= Unit(2) /\ Unit(2) <= Unit(3) /\ Unit(3) <= Unit(4) /\ Unit(4) <= Unit(5)
  BY <1>1, <1>2, <1>4, <1>5, <1>6, <1>8
<1>17. Span(5) = Word /\ Unit(5) = Far /\ Unit(1) = 1
  BY <1>2, <1>8, <1>10
<1>18. \A n \in Levels : /\ Size(n) \in Nat /\ Size(n) > 1 /\ Unit(n) \in Nat \ {0}
                         /\ Span(n) \in Nat \ {0} /\ Unit(n) <= Span(n)
                         /\ \E m \in Nat \ {0} : Word = Unit(n) * (Size(n) * m)
  BY <1>11
<1>19. \A n \in 1..4 : Unit(n + 1) = Span(n) /\ Reach(n) = Span(n)
  BY <1>12
<1> QED BY <1>13, <1>14, <1>15, <1>16, <1>17, <1>18, <1>19

\* The list of vector n for an expiry is its digit there.
LEMMA ListDigit ==
    ASSUME NEW n \in Levels, NEW e \in Nat
    PROVE  ListOf(n, e) = ((e \div Unit(n)) % Size(n))
<1>1. CASE n = 1
  <2>1. e = 1 * e + 0 /\ 0 \in 0..(1-1) /\ e \in Int
    OBVIOUS
  <2>2. (e \div 1) = e
    BY <2>1, DivUnique
  <2> QED BY <1>1, <2>2 DEF ListOf, Unit, Size
<1>2. CASE n # 1
  BY <1>2 DEF ListOf, Unit, Size
<1> QED BY <1>1, <1>2

\* The list of vector n that stands for s is reached at s: what it holds within
\* the reach of n is due in less than the vector's unit, what other lists hold
\* is not.
LEMMA ListReached ==
    ASSUME NEW n \in Levels, NEW e \in 0..(Word-1), NEW s \in 0..(Word-1), (s % Unit(n)) = 0
    PROVE  /\ ListOf(n, e) = ListOf(n, s) /\ Minus(e, s) < Span(n)
                => Minus(e, s) = (e % Unit(n)) /\ Minus(e, s) < Unit(n)
           /\ ListOf(n, e) # ListOf(n, s) => Unit(n) <= Minus(e, s)
<1> DEFINE b == Unit(n)
           z == Size(n)
           D == Minus(e, s)
<1>1. PICK m \in Nat \ {0} : Word = b * (z * m)
  BY Units
<1>2. b \in Nat \ {0} /\ z \in Nat \ {0} /\ z > 1 /\ Span(n) = b * z
  BY Units DEF Span
<1>3. ListOf(n, e) = ((e \div b) % z) /\ ListOf(n, s) = ((s \div b) % z)
  BY ListDigit, Units
<1> HIDE DEF b, z
<1>4. PICK k \in Nat : /\ D = b * k + (e % b)
                       /\ (k % z) = 0 <=> ((e \div b) % z) = ((s \div b) % z)
  <2>1. (s % b) = 0
    BY DEF b
  <2>2. D = ((e - s) % Word)
    BY DEF Minus
  <2>3. Counted(e, s, b, z, Word)
    <3>1. Divides(b, z, m, Word)
      BY <1>1, <1>2 DEF Divides
    <3> QED BY <2>1, <3>1, Digit, Zenon
  <2> HIDE DEF D
  <2> QED BY <2>2, <2>3 DEF Counted
<1>5. (e % b) \in 0..(b-1)
  <2>1. e \in Int
    BY Units
  <2> QED BY <1>2, <2>1, DivMod, Zenon
<1> DEFINE r == e % b
<1>6. r \in 0..(b-1) /\ D = b * k + r
  BY <1>4, <1>5
<1>7. ListOf(n, e) = ListOf(n, s) <=> (k % z) = 0
  BY <1>3, <1>4
<1> HIDE DEF D, r
<1>8. ASSUME ListOf(n, e) = ListOf(n, s), D < b * z
      PROVE  D = r /\ D < b
  <2>1. k < z
    BY <1>2, <1>6, <1>8, Quotient
  <2>2. k = z * 0 + k /\ k \in 0..(z-1)
    BY <1>2, <2>1
  <2>3. (k % z) = k
    BY <1>2, <2>2, DivUnique
  <2>4. k = 0
    BY <1>7, <1>8, <2>3
  <2> QED BY <1>2, <1>6, <2>4
<1>9. ASSUME ListOf(n, e) # ListOf(n, s)
      PROVE  b <= D
  <2>1. k # 0
    <3>1. 0 = z * 0 + 0 /\ 0 \in 0..(z-1)
      BY <1>2
    <3>2. (0 % z) = 0
      BY <1>2, <3>1, DivUnique
    <3> QED BY <1>7, <1>9, <3>2
  <2>2. b * k >= b
    BY <1>2, <1>6, <2>1, Quotient
  <2> QED BY <1>2, <1>6, <2>2
<1> QED BY <1>2, <1>8, <1>9 DEF D, r, b

\* A jiffy from which e is as far as its remainder is a multiple of the unit.
LEMMA UnitBegins ==
    ASSUME NEW n \in Levels, NEW e \in 0..(Word-1), NEW s \in 0..(Word-1),
           Minus(e, s) = (e % Unit(n))
    PROVE  (s % Unit(n)) = 0
<1> DEFINE b == Unit(n)
           z == Size(n)
<1>1. PICK m \in Nat \ {0} : Word = b * (z * m)
  BY Units
<1>2. b \in Nat \ {0} /\ z \in Nat \ {0} /\ Word \in Nat \ {0}
  BY Units
<1>3. Minus(e, s) = (IF e >= s THEN e - s ELSE e - s + Word)
  BY <1>2, Distance DEF Minus
<1> DEFINE q == e \div b
           r == e % b
<1>4. r \in 0..(b-1) /\ q \in Int /\ e = b * q + r /\ Minus(e, s) = r
  <2>1. e \in Int
    BY <1>2
  <2>2. r \in 0..(b-1) /\ q \in Int /\ e = b * q + r
    BY <1>2, <2>1, DivMod, Zenon
  <2>3. Minus(e, s) = r
    OBVIOUS
  <2> QED BY <2>2, <2>3
<1>5. b * (z * m) \in Int /\ z * m \in Int /\ b * (q + z * m) = b * q + b * (z * m) /\ b * q \in Int
  BY <1>2, <1>4
<1> HIDE DEF b, z, q, r
<1>6. s = b * q + 0 \/ s = b * (q + z * m) + 0
  BY <1>1, <1>2, <1>3, <1>4, <1>5
<1>7. 0 \in 0..(b-1) /\ q + z * m \in Int /\ s \in Int
  BY <1>2, <1>4, <1>5
<1>8. (s % b) = 0
  BY <1>2, <1>4, <1>6, <1>7, DivUnique
<1> QED BY <1>8 DEF b

\* The next jiffy is one nearer to every expiry but its own.
LEMMA OneNearer ==
    ASSUME NEW e \in 0..(Word-1), NEW s \in 0..(Word-1), Minus(e, s) # 0
    PROVE  Minus(e, (s + 1) % Word) = Minus(e, s) - 1
<1>1. Word \in Nat /\ Word > 31 /\ Word \in Nat \ {0}
  BY Units
<1>2. Minus(e, s) = (IF e >= s THEN e - s ELSE e - s + Word)
  BY <1>1, Distance DEF Minus
<1>3. CASE s + 1 < Word
  <2>1. s + 1 = Word * 0 + (s + 1) /\ s + 1 \in 0..(Word-1)
    BY <1>1, <1>3
  <2>2. ((s + 1) % Word) = s + 1
    BY <1>1, <2>1, DivUnique
  <2>3. Minus(e, s + 1) = (IF e >= s + 1 THEN e - (s + 1) ELSE e - (s + 1) + Word)
    BY <1>1, <2>1, Distance DEF Minus
  <2>4. e \in Nat /\ s \in Nat
    BY <1>1
  <2> DEFINE x == Minus(e, s)
             y == Minus(e, s + 1)
  <2>5. x # 0 /\ x = (IF e >= s THEN e - s ELSE e - s + Word)
    BY <1>2
  <2>6. y = (IF e >= s + 1 THEN e - (s + 1) ELSE e - (s + 1) + Word)
    BY <2>3
  <2> HIDE DEF x, y
  <2>7. y = x - 1
    BY <1>1, <2>4, <2>5, <2>6
  <2> QED BY <2>2, <2>7, Zenon DEF x, y
<1>4. CASE s + 1 = Word
  <2>1. s + 1 = Word * 1 + 0 /\ 0 \in 0..(Word-1)
    BY <1>1, <1>4
  <2>2. ((s + 1) % Word) = 0
    BY <1>1, <2>1, DivUnique
  <2>3. Minus(e, 0) = e
    <3>1. ((e - 0) % Word) = (IF e >= 0 THEN e - 0 ELSE e - 0 + Word)
      BY <1>1, <2>1, Distance
    <3> QED BY <3>1 DEF Minus
  <2> QED BY <1>1, <1>2, <1>4, <2>2, <2>3
<1> QED BY <1>1, <1>3, <1>4

\* Quotients rounded up: nothing to round at a multiple, one more elsewhere.
LEMMA RoundUp ==
    ASSUME NEW s \in Nat, NEW u \in Nat \ {0}
    PROVE  ((s + u - 1) \div u) = (IF (s % u) = 0 THEN s \div u ELSE (s \div u) + 1)
<1> DEFINE q == s \div u
           r == s % u
<1>1. r \in 0..(u-1) /\ q \in Int /\ s = u * q + r
  BY DivMod
<1> HIDE DEF q, r
<1>2. u * (q + 1) = u * q + u /\ u * q \in Int /\ q + 1 \in Int /\ s + u - 1 \in Int
  BY <1>1
<1>3. CASE r = 0
  <2>1. s + u - 1 = u * q + (u - 1) /\ u - 1 \in 0..(u-1)
    BY <1>1, <1>2, <1>3
  <2>2. ((s + u - 1) \div u) = q
    BY <1>1, <1>2, <2>1, DivUnique
  <2> QED BY <1>3, <2>2 DEF q, r
<1>4. CASE r # 0
  <2>1. s + u - 1 = u * (q + 1) + (r - 1) /\ r - 1 \in 0..(u-1)
    BY <1>1, <1>2, <1>4
  <2>2. ((s + u - 1) \div u) = q + 1
    BY <1>1, <1>2, <2>1, DivUnique
  <2> QED BY <1>4, <2>2 DEF q, r
<1> QED BY <1>3, <1>4

\* Adding one commutes with taking the remainder.
LEMMA ModSucc ==
    ASSUME NEW x \in Int, NEW n \in Nat \ {0}
    PROVE  (((x % n) + 1) % n) = ((x + 1) % n)
<1> DEFINE q == x \div n
           r == x % n
<1>1. r \in 0..(n-1) /\ q \in Int /\ x = n * q + r
  BY DivMod
<1> HIDE DEF q, r
<1>2. x + 1 = (r + 1) + n * q /\ r + 1 \in Int
  BY <1>1
<1>3. (((r + 1) + n * q) % n) = ((r + 1) % n)
  BY <1>1, <1>2, ModShift
<1> QED BY <1>2, <1>3 DEF r

\* The remainder of a digit string: what is left below a digit, and the digit.
LEMMA NextDigit ==
    ASSUME NEW s \in Nat, NEW u \in Nat \ {0}, NEW n \in Nat \ {0}
    PROVE  (s % (u * n)) = 0 <=> (s % u) = 0 /\ ((s \div u) % n) = 0
<1> DEFINE q == s \div u
           r == s % u
           k == q \div n
           d == q % n
<1>1. r \in 0..(u-1) /\ q \in Int /\ s = u * q + r
  BY DivMod
<1>2. d \in 0..(n-1) /\ k \in Int /\ q = n * k + d
  <2>1. q \in Int
    BY <1>1
  <2> HIDE DEF q
  <2> QED BY <2>1, DivMod
<1> HIDE DEF q, r, k, d
<1>3. s = u * (n * k + d) + r
  BY <1>1, <1>2
<1>4. u * (n * k + d) = (u * n) * k + u * d /\ u * d \in Int /\ n * k \in Int
  BY <1>1, <1>2
<1>5. u * d + r \in 0..(u * n - 1) /\ u * n \in Nat \ {0}
  <2>1. u * d + r < u * n /\ u * d >= 0
    BY <1>1, <1>2, Quotient
  <2>2. u * n \in Nat \ {0}
    OBVIOUS
  <2> QED BY <1>1, <1>4, <2>1, <2>2
<1>6. s = (u * n) * k + (u * d + r)
  <2> DEFINE x == u * (n * k + d)
             y == (u * n) * k
             z == u * d
  <2>1. x \in Int /\ y \in Int /\ z \in Int /\ s = x + r /\ x = y + z
    BY <1>2, <1>3, <1>4
  <2> HIDE DEF x, y, z
  <2>2. s = y + (z + r)
    BY <1>1, <2>1
  <2> QED BY <2>2 DEF y, z
<1>7. (s % (u * n)) = u * d + r
  <2> DEFINE un == u * n
             v == u * d + r
  <2>1. un \in Nat \ {0} /\ v \in 0..(un-1) /\ s = un * k + v /\ k \in Int /\ s \in Int
    BY <1>2, <1>5, <1>6
  <2> HIDE DEF un, v
  <2>2. (s % un) = v
    BY <2>1, DivUnique
  <2> QED BY <2>2 DEF un, v
<1>8. u * d + r = 0 <=> r = 0 /\ d = 0
  <2>1. d >= 1 => u * d >= u
    BY <1>2, Quotient, <1>1
  <2>2. d = 0 => u * d = 0
    BY <1>2
  <2> QED BY <1>1, <1>2, <1>4, <2>1, <2>2
<1> QED BY <1>7, <1>8 DEF q, r, d

\* A jiffy begins a unit of the next vector if it begins one of this and this
\* vector is at its first list.
LEMMA NextUnit ==
    ASSUME NEW n \in 1..4, NEW s \in Nat
    PROVE  (s % Unit(n + 1)) = 0 <=> (s % Unit(n)) = 0 /\ ((s \div Unit(n)) % Size(n)) = 0
<1>1. n \in Levels
  BY DEF Levels
<1>2. Unit(n) \in Nat \ {0} /\ Size(n) \in Nat \ {0}
  BY <1>1, Units
<1>3. Unit(n + 1) = Unit(n) * Size(n)
  BY Units DEF Span
<1> DEFINE u == Unit(n)
           z == Size(n)
<1>4. u \in Nat \ {0} /\ z \in Nat \ {0} /\ Unit(n + 1) = u * z
  BY <1>2, <1>3
<1> HIDE DEF u, z
<1>5. (s % (u * z)) = 0 <=> (s % u) = 0 /\ ((s \div u) % z) = 0
  BY <1>4, NextDigit
<1> QED BY <1>4, <1>5 DEF u, z

----------------------------------------------------------------------------
(* Where a timer is put.                                                    *)

Ahead(e) == Minus(e, timer_jiffies)

\* Expiry e belongs in vector n now: within its reach, not nearer than one list.
Fits(e, n) ==
    /\ (e % Unit(n)) <= Ahead(e) /\ Ahead(e) < Span(n)
    /\ n # 1 => Unit(n) <= Ahead(e)

Now == timer_jiffies \in 0..(Word-1)

\* How far an expiry is ahead is a word.
LEMMA AheadWord ==
    ASSUME Now, NEW e \in 0..(Word-1)
    PROVE  Ahead(e) \in 0..(Word-1) /\ Ahead(e) \in Nat
<1>1. Word \in Nat \ {0} /\ timer_jiffies \in Int /\ e \in Int
  BY Units DEF Now
<1>2. e - timer_jiffies \in Int
  BY <1>1
<1>3. ((e - timer_jiffies) % Word) \in 0..(Word-1)
  BY <1>1, <1>2, DivMod
<1> QED BY <1>1, <1>3 DEF Ahead, Minus

\* What is less than its unit is no obstacle to fitting.
LEMMA FitsIf ==
    ASSUME Now, NEW e \in 0..(Word-1), NEW n \in Levels,
           n = 1 \/ Unit(n) <= Ahead(e), Ahead(e) < Span(n)
    PROVE  Fits(e, n)
<1>1. Unit(n) \in Nat \ {0} /\ Word \in Nat \ {0} /\ e \in Int /\ Unit(1) = 1
  BY Units
<1>2. (e % Unit(n)) \in 0..(Unit(n)-1)
  BY <1>1, DivMod
<1>3. Ahead(e) \in Nat
  BY AheadWord
<1>4. CASE n = 1
  <2>1. (e % Unit(n)) = 0
    BY <1>1, <1>2, <1>4
  <2> QED BY <1>3, <1>4, <2>1 DEF Fits
<1>5. CASE n # 1
  <2>1. Unit(n) <= Ahead(e)
    BY <1>5
  <2>2. (e % Unit(n)) <= Ahead(e)
    BY <1>1, <1>2, <1>3, <2>1
  <2> QED BY <2>1, <2>2 DEF Fits
<1> QED BY <1>4, <1>5

\* internal_add_timer, within the reach of tv1 to tv4.
LEMMA InsertNear ==
    ASSUME Now, NEW e \in 0..(Word-1), Ahead(e) < Far
    PROVE  \E n \in 1..4 : Fits(e, n) /\ internal_add_timer(e) = <<n, ListOf(n, e)>>
<1> DEFINE idx == Ahead(e)
           P(k) == idx < Reach(k) /\ \A j \in 1..k-1 : idx >= Reach(j)
           c == CHOOSE k \in 1..4 : P(k)
<1>1. idx \in Nat
  BY AheadWord
<1>2. Reach(1) \in Nat /\ Reach(2) \in Nat /\ Reach(3) \in Nat /\ Reach(4) \in Nat /\ idx < Reach(4)
  BY Units DEF Levels
<1> HIDE DEF idx
<1>3. \E k \in 1..4 : P(k)
  <2>1. CASE idx < Reach(1)
    BY <2>1
  <2>2. CASE idx >= Reach(1) /\ idx < Reach(2)
    BY <2>2
  <2>3. CASE idx >= Reach(1) /\ idx >= Reach(2) /\ idx < Reach(3)
    BY <2>3
  <2>4. CASE idx >= Reach(1) /\ idx >= Reach(2) /\ idx >= Reach(3)
    BY <1>2, <2>4
  <2> QED BY <1>1, <1>2, <2>1, <2>2, <2>3, <2>4
<1>4. c \in 1..4 /\ P(c)
  BY <1>3
<1>5. internal_add_timer(e) = <<c, ListOf(c, e)>>
  <2>1. idx < Far /\ idx = Minus(e, timer_jiffies)
    BY DEF idx, Ahead
  <2> QED BY <2>1 DEF internal_add_timer
<1> HIDE DEF c
<1>6. c \in Levels
  BY <1>4 DEF Levels
<1>7. idx < Span(c) /\ (c = 1 \/ Unit(c) <= idx)
  <2>1. idx < Span(c)
    BY <1>4, Units
  <2>2. CASE c # 1
    <3>1. c - 1 \in 1..4 /\ c - 1 \in 1..c-1
      BY <1>4, <2>2
    <3>2. idx >= Reach(c - 1)
      BY <1>4, <3>1
    <3>3. Unit(c) = Reach(c - 1)
      BY <2>2 DEF Unit
    <3>4. Reach(c - 1) \in Nat
      BY <1>2, <3>1
    <3> QED BY <2>1, <1>1, <3>2, <3>3, <3>4
  <2> QED BY <2>1, <2>2
<1>8. Fits(e, c)
  BY <1>6, <1>7, FitsIf DEF idx
<1> QED BY <1>4, <1>5, <1>8

\* internal_add_timer, beyond: taken for past, set for tv5, or linked to itself.
LEMMA InsertFar ==
    ASSUME Now, NEW e \in 0..(Word-1), Far <= Ahead(e)
    PROVE  /\ e < timer_jiffies => internal_add_timer(e) = <<1, index[1]>>
           /\ e >= timer_jiffies /\ Ahead(e) < Word - 1
                => Fits(e, 5) /\ internal_add_timer(e) = <<5, ListOf(5, e)>>
           /\ e >= timer_jiffies /\ ~(Ahead(e) < Word - 1)
                => e = Word - 1 /\ internal_add_timer(e) = Self
<1>1. Ahead(e) \in Nat /\ Far \in Nat /\ timer_jiffies \in Nat /\ e \in Nat
  BY AheadWord, Units DEF Levels, Now
<1>2. ~(Ahead(e) < Far)
  BY <1>1
<1>3. e < timer_jiffies => internal_add_timer(e) = <<1, index[1]>>
  BY <1>2 DEF internal_add_timer, Ahead
<1>4. ASSUME e >= timer_jiffies, Ahead(e) < Word - 1
      PROVE  Fits(e, 5) /\ internal_add_timer(e) = <<5, ListOf(5, e)>>
  <2>1. ~(e < timer_jiffies)
    BY <1>1, <1>4
  <2>2. internal_add_timer(e) = <<5, ListOf(5, e)>>
    BY <1>2, <1>4, <2>1 DEF internal_add_timer, Ahead
  <2>3. 5 \in Levels /\ Unit(5) <= Ahead(e) /\ Ahead(e) < Span(5)
    BY <1>1, <1>4, Units DEF Levels
  <2> QED BY <2>2, <2>3, FitsIf
<1>5. ASSUME e >= timer_jiffies, ~(Ahead(e) < Word - 1)
      PROVE  e = Word - 1 /\ internal_add_timer(e) = Self
  <2>1. ~(e < timer_jiffies)
    BY <1>1, <1>5
  <2>2. internal_add_timer(e) = Self
    BY <1>2, <1>5, <2>1 DEF internal_add_timer, Ahead
  <2>3. Word \in Nat \ {0} /\ timer_jiffies \in 0..(Word-1)
    BY Units DEF Now
  <2>4. Ahead(e) = e - timer_jiffies
    BY <1>5, <2>3, Distance DEF Ahead, Minus
  <2>5. e = Word - 1
    BY <1>1, <1>5, <2>3, <2>4
  <2> QED BY <2>2, <2>5
<1> QED BY <1>3, <1>4, <1>5

----------------------------------------------------------------------------
(* The invariant.                                                           *)

Places == {NoList, Self} \cup UNION {{n} \X (0..Size(n)-1) : n \in Levels}

\* A timer with expiry e is in its list of vector n, due not before the jiffies
\* of that list begin; if vector n, among the first m, has been cascaded in this
\* jiffy, the timer is not in the list that was.
PlacedAt(a, n, m, e) ==
    /\ a = <<n, ListOf(n, e)>>
    /\ (e % Unit(n)) <= Ahead(e) /\ Ahead(e) < Span(n)
    /\ n \in 2..m /\ (timer_jiffies % Unit(n)) = 0 => Unit(n) <= Ahead(e)

Placed(a, m, e) == \E n \in Levels : PlacedAt(a, n, m, e)

\* The next list of vector n is the digit of timer_jiffies, or the one after it
\* when that list has been cascaded: in an earlier jiffy, or among the first m
\* in this one.
IndexAt(ix, n, m) ==
    ix[n] = ((IF n > m /\ (timer_jiffies % Unit(n)) = 0 THEN timer_jiffies \div Unit(n)
              ELSE (timer_jiffies \div Unit(n)) + 1) % TVN_SIZE)

Indexes(ix, m) ==
    /\ ix \in [Levels -> Nat] /\ ix[1] = (timer_jiffies % TVR_SIZE)
    /\ \A n \in 2..5 : IndexAt(ix, n, m)

\* A timer with expiry e is in no list: not set, or lost.
Off(a, e) == a = NoList \/ (a = Self /\ e = Word - 1)

\* A timer taken for past is in the list that is run in this jiffy.
Where(a, ix, m, t) ==
    /\ t \in past => a = <<1, ix[1]>>
    /\ t \notin past => Off(a, expires[t]) \/ Placed(a, m, expires[t])

\* A wheel w, in the course of a cascade, has in its lists the timers that were
\* in a list before it.
Wheel(w, m) ==
    /\ Indexes(w.index, m)
    /\ w.at \in [Timers -> Places]
    /\ \A t \in Timers : /\ Where(w.at[t], w.index, m, t)
                         /\ Off(w.at[t], expires[t]) <=> Off(at[t], expires[t])

Expiries == Now /\ expires \in [Timers -> 0..(Word-1)]

\* The vectors that run_timer_list has cascaded in this jiffy.
Done == IF pc \in {"loop", "fn"} THEN 5 ELSE 1

\* In a round of run_timer_list the clock is not behind the timers.
Clock ==
    /\ jiffies \in 0..(Word-1) /\ pc \in {"idle", "test", "loop", "fn"}
    /\ Minus(jiffies, timer_jiffies) \in 0..MaxLag \cup {Word - 1}
    /\ pc \in {"loop", "fn"} => Minus(jiffies, timer_jiffies) \in 0..MaxLag

Inv == /\ Expiries /\ Clock /\ past \subseteq Timers
       /\ Wheel([at |-> at, index |-> index], Done)

\* Every list of a vector is a place.
LEMMA ListPlace ==
    ASSUME NEW n \in Levels, NEW e \in Nat
    PROVE  ListOf(n, e) \in 0..(Size(n)-1) /\ <<n, ListOf(n, e)>> \in Places
<1>1. Size(n) \in Nat \ {0} /\ Unit(n) \in Nat \ {0} /\ e \in Int
  BY Units
<1>2. (e \div Unit(n)) \in Int
  BY <1>1, DivMod
<1>3. ((e \div Unit(n)) % Size(n)) \in 0..(Size(n)-1)
  BY <1>1, <1>2, DivMod
<1>4. ListOf(n, e) \in 0..(Size(n)-1)
  BY <1>3, ListDigit
<1>5. <<n, ListOf(n, e)>> \in {n} \X (0..Size(n)-1)
  BY <1>4
<1> QED BY <1>4, <1>5, Zenon DEF Places

\* What is in a list of a vector is not off.
LEMMA ListNotOff ==
    ASSUME NEW n \in Levels, NEW x, NEW e
    PROVE  ~Off(<<n, x>>, e)
BY DEF Off, NoList, Self, Levels

\* What fits in a vector is placed there, whatever has been cascaded.
LEMMA FitsPlaced ==
    ASSUME NEW n \in Levels, NEW e \in 0..(Word-1), Fits(e, n), NEW m \in Levels
    PROVE  /\ <<n, ListOf(n, e)>> \in Places
           /\ PlacedAt(<<n, ListOf(n, e)>>, n, m, e)
<1>1. e \in Nat
  BY Units
<1> QED BY <1>1, ListPlace DEF Fits, PlacedAt

\* Further vectors have a longer unit.
LEMMA UnitOrder ==
    ASSUME NEW n \in Levels, NEW k \in Levels, Unit(k) < Unit(n)
    PROVE  k < n
<1>1. /\ Unit(1) \in Nat /\ Unit(2) \in Nat /\ Unit(3) \in Nat /\ Unit(4) \in Nat /\ Unit(5) \in Nat
  BY Units DEF Levels
<1>2. Unit(1) <= Unit(2) /\ Unit(2) <= Unit(3) /\ Unit(3) <= Unit(4) /\ Unit(4) <= Unit(5)
  BY Units
<1>3. n \in {1,2,3,4,5} /\ k \in {1,2,3,4,5}
  BY DEF Levels
<1>4. \A a, b \in {1,2,3,4,5} : a <= b => Unit(a) <= Unit(b)
  BY <1>1, <1>2
<1>5. \A a \in {1,2,3,4,5} : Unit(a) \in Nat
  BY <1>1
<1> QED BY <1>3, <1>4, <1>5

----------------------------------------------------------------------------
(* cascade_timers and cascade.                                              *)

\* A timer in a list that is reached goes to a vector before: it is never put
\* back into the list that is then cleared.
LEMMA MovedDown ==
    ASSUME Now, NEW n \in 2..5, (timer_jiffies % Unit(n)) = 0, NEW e \in 0..(Word-1),
           ListOf(n, e) = ListOf(n, timer_jiffies), Ahead(e) < Span(n)
    PROVE  \E k \in Levels : Fits(e, k) /\ k < n /\ internal_add_timer(e) = <<k, ListOf(k, e)>>
<1>1. n \in Levels /\ timer_jiffies \in 0..(Word-1)
  BY DEF Levels, Now
<1>2. Ahead(e) < Unit(n)
  BY <1>1, ListReached DEF Ahead
<1>3. Unit(n) <= Far /\ Far \in Nat /\ Unit(n) \in Nat /\ Ahead(e) \in Nat
  <2>1. 5 \in Levels /\ Unit(5) = Far /\ Unit(5) \in Nat /\ Unit(n) \in Nat
    BY <1>1, Units DEF Levels
  <2>2. ~(Unit(5) < Unit(n))
    BY <1>1, <2>1, UnitOrder
  <2> QED BY <2>1, <2>2, AheadWord
<1>4. PICK k \in 1..4 : Fits(e, k) /\ internal_add_timer(e) = <<k, ListOf(k, e)>>
  BY <1>2, <1>3, InsertNear
<1>5. k \in Levels
  BY DEF Levels
<1>6. k < n
  <2>1. CASE k = 1
    BY <2>1
  <2>2. CASE k # 1
    <3>1. Unit(k) <= Ahead(e) /\ Unit(k) \in Nat
      BY <1>4, <1>5, <2>2, Units DEF Fits
    <3>2. Unit(k) < Unit(n)
      BY <1>2, <1>3, <3>1
    <3> QED BY <1>1, <1>5, <3>2, UnitOrder
  <2> QED BY <2>1, <2>2
<1> QED BY <1>4, <1>5, <1>6

\* What has been cascaded in vector n matters only in a jiffy that begins one of
\* its units.
LEMMA PlacedOne ==
    ASSUME NEW n \in 2..5, NEW a, NEW e, Placed(a, n - 1, e),
           \/ (timer_jiffies % Unit(n)) # 0
           \/ a # <<n, ListOf(n, e)>>
           \/ Unit(n) <= Ahead(e)
    PROVE  Placed(a, n, e)
<1>1. PICK k \in Levels : PlacedAt(a, k, n - 1, e)
  BY DEF Placed
<1>2. CASE k = n
  <2>1. a = <<n, ListOf(n, e)>> /\ (e % Unit(n)) <= Ahead(e) /\ Ahead(e) < Span(n)
    BY <1>1, <1>2, Zenon DEF PlacedAt
  <2>2. (timer_jiffies % Unit(n)) = 0 => Unit(n) <= Ahead(e)
    BY <2>1, Zenon
  <2>3. PlacedAt(a, n, n, e)
    BY <2>1, <2>2, Zenon DEF PlacedAt
  <2> QED BY <1>2, <2>3, Zenon DEF Placed
<1>3. CASE k # n
  <2>1. k \in 2..n => k \in 2..(n-1)
    BY <1>3 DEF Levels
  <2>2. PlacedAt(a, k, n, e)
    BY <1>1, <2>1, Zenon DEF PlacedAt
  <2> QED BY <2>2, Zenon DEF Placed
<1> QED BY <1>2, <1>3

\* The index of a vector that is still to be cascaded is the list that is reached.
LEMMA IndexIsDigit ==
    ASSUME Now, NEW n \in 2..5, (timer_jiffies % Unit(n)) = 0, NEW ix, IndexAt(ix, n, n - 1)
    PROVE  ix[n] = ListOf(n, timer_jiffies)
<1>1. n \in Levels /\ timer_jiffies \in Nat /\ n > n - 1
  BY Units DEF Levels, Now
<1>2. ix[n] = ((timer_jiffies \div Unit(n)) % TVN_SIZE)
  BY <1>1 DEF IndexAt
<1>3. Size(n) = TVN_SIZE
  BY Units
<1> QED BY <1>1, <1>2, <1>3, ListDigit

\* cascade_timers moves on the index of its vector and of no other.
LEMMA CascadeIndex ==
    ASSUME Expiries, NEW w, NEW n \in 2..5, (timer_jiffies % Unit(n)) = 0, Indexes(w.index, n - 1)
    PROVE  Indexes(cascade_timers(w, n).index, n)
<1> DEFINE ix == w.index
           jx == cascade_timers(w, n).index
<1>1. jx = [ix EXCEPT ![n] = (@ + 1) % TVN_SIZE]
  BY DEF cascade_timers
<1>2. ix \in [Levels -> Nat] /\ ix[1] = (timer_jiffies % TVR_SIZE)
      /\ \A k \in 2..5 : IndexAt(ix, k, n - 1)
  BY DEF Indexes
<1> HIDE DEF ix, jx
<1>3. TVN_SIZE \in Nat \ {0} /\ n \in Levels /\ timer_jiffies \in Nat /\ Unit(n) \in Nat \ {0}
  BY ConstAssumption, Units DEF Levels, Expiries, Now
<1>4. /\ (timer_jiffies \div Unit(n)) \in Int
  BY <1>3, DivMod
<1>5. ix[n] \in Nat /\ ((ix[n] + 1) % TVN_SIZE) \in Nat
  <2>1. ix[n] \in Nat
    BY <1>2, <1>3
  <2>2. ix[n] + 1 \in Int
    BY <2>1
  <2>3. ((ix[n] + 1) % TVN_SIZE) \in 0..(TVN_SIZE-1)
    BY <1>3, <2>2, DivMod, Zenon
  <2> QED BY <1>3, <2>1, <2>3
<1>6. /\ jx \in [Levels -> Nat] /\ jx[n] = ((ix[n] + 1) % TVN_SIZE)
      /\ \A k \in Levels : k # n => jx[k] = ix[k]
  BY <1>1, <1>2, <1>3, <1>5
<1>7. jx[1] = (timer_jiffies % TVR_SIZE)
  BY <1>2, <1>6 DEF Levels
<1>8. ASSUME NEW k \in 2..5, k # n PROVE IndexAt(jx, k, n)
  <2>1. IndexAt(ix, k, n - 1)
    BY <1>2
  <2>2. jx[k] = ix[k]
    BY <1>6, <1>8 DEF Levels
  <2>3. k > n <=> k > n - 1
    BY <1>8
  <2> QED BY <2>1, <2>2, <2>3, Zenon DEF IndexAt
<1>9. IndexAt(jx, n, n)
  <2> DEFINE q == timer_jiffies \div Unit(n)
  <2>1. ix[n] = (q % TVN_SIZE)
    <3>1. IndexAt(ix, n, n - 1) /\ n > n - 1
      BY <1>2
    <3> QED BY <3>1 DEF IndexAt
  <2>2. q \in Int
    BY <1>4
  <2> HIDE DEF q
  <2>3. (((q % TVN_SIZE) + 1) % TVN_SIZE) = ((q + 1) % TVN_SIZE)
    BY <1>3, <2>2, ModSucc
  <2>4. jx[n] = ((q + 1) % TVN_SIZE)
    BY <1>6, <2>1, <2>3
  <2>5. ~(n > n)
    OBVIOUS
  <2> QED BY <2>4, <2>5 DEF IndexAt, q
<1>10. \A k \in 2..5 : IndexAt(jx, k, n)
  BY <1>8, <1>9
<1> QED BY <1>6, <1>7, <1>10 DEF Indexes, jx

\* Cascading vector n in a jiffy that begins one of its units.
LEMMA CascadeStep ==
    ASSUME Expiries, NEW w, NEW n \in 2..5, (timer_jiffies % Unit(n)) = 0, Wheel(w, n - 1)
    PROVE  Wheel(cascade_timers(w, n), n)
<1> DEFINE v == cascade_timers(w, n)
           list == <<n, w.index[n]>>
           to(t) == internal_add_timer(expires[t])
<1>1. Now /\ n \in Levels /\ Indexes(w.index, n - 1) /\ w.at \in [Timers -> Places]
  BY DEF Expiries, Wheel, Levels
<1>2. Indexes(v.index, n)
  BY <1>1, CascadeIndex
<1>3. v.index[1] = w.index[1] /\ 1 # n
  BY <1>1, <1>2 DEF Indexes
<1>4. list = <<n, ListOf(n, timer_jiffies)>>
  <2>1. IndexAt(w.index, n, n - 1)
    BY <1>1 DEF Indexes
  <2> QED BY <1>1, <2>1, IndexIsDigit
<1>5. v.at = [t \in Timers |-> IF w.at[t] # list THEN w.at[t]
                               ELSE IF to(t) = list THEN Dropped ELSE to(t)]
  BY DEF cascade_timers
<1> HIDE DEF v
<1>6. ASSUME NEW t \in Timers
      PROVE  /\ v.at[t] \in Places /\ Where(v.at[t], v.index, n, t)
             /\ Off(v.at[t], expires[t]) <=> Off(w.at[t], expires[t])
  <2> DEFINE a == w.at[t]
             b == v.at[t]
             e == expires[t]
  <2>1. /\ a \in Places /\ e \in 0..(Word-1) /\ Where(a, w.index, n - 1, t)
        /\ b = (IF a # list THEN a ELSE IF to(t) = list THEN Dropped ELSE to(t))
    BY <1>1, <1>5 DEF Wheel, Expiries
  <2> HIDE DEF a, b, list
  <2>2. CASE t \in past
    <3>1. a = <<1, w.index[1]>>
      BY <2>1, <2>2 DEF Where
    <3>2. a # list
      BY <1>3, <3>1 DEF list
    <3>3. b = <<1, v.index[1]>> /\ b \in Places /\ b = a
      BY <1>3, <2>1, <3>1, <3>2, Zenon
    <3> QED BY <2>2, <3>3, Zenon DEF Where, a, b
  <2>3. CASE t \notin past /\ Off(a, e)
    <3>1. a # list
      BY <1>1, <2>3, ListNotOff DEF list
    <3>2. b = a /\ b \in Places
      BY <2>1, <3>1, Zenon
    <3> QED BY <2>3, <3>2, Zenon DEF Where, a, b
  <2>4. CASE t \notin past /\ Placed(a, n - 1, e) /\ a # list
    <3>1. b = a /\ b \in Places
      BY <2>1, <2>4, Zenon
    <3>2. PICK k \in Levels : PlacedAt(a, k, n - 1, e)
      BY <2>4, Zenon DEF Placed
    <3>3. a # <<n, ListOf(n, e)>> \/ Unit(n) <= Ahead(e)
      <4>1. SUFFICES ASSUME a = <<n, ListOf(n, e)>> PROVE Unit(n) <= Ahead(e)
        BY Zenon
      <4>2. ListOf(n, e) # ListOf(n, timer_jiffies)
        BY <1>4, <2>4, <4>1, Zenon
      <4>3. timer_jiffies \in 0..(Word-1) /\ n \in Levels
        BY <1>1 DEF Now
      <4> QED BY <2>1, <4>2, <4>3, ListReached, Zenon DEF Ahead
    <3>4. Placed(a, n, e)
      BY <2>4, <3>3, PlacedOne, Zenon
    <3> QED BY <2>4, <3>1, <3>4, Zenon DEF Where, a, b
  <2>5. CASE t \notin past /\ Placed(a, n - 1, e) /\ a = list
    <3>1. PICK j \in Levels : PlacedAt(a, j, n - 1, e)
      BY <2>5, Zenon DEF Placed
    <3>2. <<n, ListOf(n, timer_jiffies)>> = <<j, ListOf(j, e)>>
      BY <1>4, <2>5, <3>1, Zenon DEF PlacedAt
    <3>3. j = n /\ ListOf(n, timer_jiffies) = ListOf(j, e)
      BY <3>2
    <3>4. ListOf(n, e) = ListOf(n, timer_jiffies) /\ Ahead(e) < Span(n)
      BY <3>1, <3>3, Zenon DEF PlacedAt
    <3>5. PICK k \in Levels : Fits(e, k) /\ k < n /\ internal_add_timer(e) = <<k, ListOf(k, e)>>
      BY <1>1, <2>1, <3>4, MovedDown, Zenon
    <3>6. k # n
      BY <3>5 DEF Levels
    <3>7. to(t) = <<k, ListOf(k, e)>> /\ to(t) # list
      BY <3>5, <3>6 DEF list
    <3>8. b = <<k, ListOf(k, e)>>
      BY <2>1, <2>5, <3>7, Zenon
    <3>9. b \in Places /\ PlacedAt(b, k, n, e)
      BY <1>1, <2>1, <3>5, <3>8, FitsPlaced, Zenon
    <3>10. ~Off(b, e) /\ ~Off(a, e)
      BY <1>1, <2>5, <3>8, ListNotOff, Zenon DEF list
    <3> QED BY <2>5, <3>9, <3>10, Zenon DEF Where, Placed, a, b
  <2>6. t \in past \/ (t \notin past /\ Off(a, e)) \/ (t \notin past /\ Placed(a, n - 1, e))
    BY <2>1, Zenon DEF Where
  <2> QED BY <2>2, <2>3, <2>4, <2>5, <2>6, Zenon
<1>7. v.at \in [Timers -> Places]
  BY <1>5, <1>6, Zenon
<1>8. \A t \in Timers : Off(w.at[t], expires[t]) <=> Off(at[t], expires[t])
  BY DEF Wheel
<1> QED BY <1>2, <1>6, <1>7, <1>8, Zenon DEF Wheel, v

\* The recursion of cascade, one vector after the other.
LEMMA CascadeRounds ==
    ASSUME NEW w
    PROVE  \E f : /\ f[1] = w
                  /\ \A n \in 2..5 :
                        f[n] = IF \A k \in 2..n-1 : f[k].index[k] = 1
                                 THEN cascade_timers(f[n - 1], n) ELSE f[n - 1]
                  /\ cascade(w) = IF w.index[1] = 0 THEN f[5] ELSE w
<1> DEFINE B(f, n) == IF n = 1 THEN w
                      ELSE IF \A k \in 2..n-1 : f[k].index[k] = 1
                             THEN cascade_timers(f[n - 1], n)
                             ELSE f[n - 1]
           round == CHOOSE f : f = [n \in Levels |-> B(f, n)]
<1>1. cascade(w) = IF w.index[1] = 0 THEN round[5] ELSE w
  BY DEF cascade
<1>2. \E f : f = [n \in Levels |-> B(f, n)]
  <2> DEFINE d2 == cascade_timers(w, 2)
             d3 == IF d2.index[2] = 1 THEN cascade_timers(d2, 3) ELSE d2
             d4 == IF d2.index[2] = 1 /\ d3.index[3] = 1 THEN cascade_timers(d3, 4) ELSE d3
             d5 == IF d2.index[2] = 1 /\ d3.index[3] = 1 /\ d4.index[4] = 1
                     THEN cascade_timers(d4, 5) ELSE d4
             f == [n \in Levels |-> IF n = 1 THEN w ELSE IF n = 2 THEN d2
                                    ELSE IF n = 3 THEN d3 ELSE IF n = 4 THEN d4 ELSE d5]
  <2> HIDE DEF d2, d3, d4, d5
  <2>1. f[1] = w /\ f[2] = d2 /\ f[3] = d3 /\ f[4] = d4 /\ f[5] = d5
    BY DEF Levels
  <2> HIDE DEF f
  <2>2. B(f, 1) = w
    OBVIOUS
  <2>3. B(f, 2) = d2
    BY <2>1 DEF d2
  <2>4. B(f, 3) = d3
    <3>1. (\A k \in 2..3-1 : f[k].index[k] = 1) <=> d2.index[2] = 1
      BY <2>1
    <3> QED BY <2>1, <3>1 DEF d3
  <2>5. B(f, 4) = d4
    <3>1. (\A k \in 2..4-1 : f[k].index[k] = 1) <=> d2.index[2] = 1 /\ d3.index[3] = 1
      BY <2>1
    <3> QED BY <2>1, <3>1 DEF d4
  <2>6. B(f, 5) = d5
    <3>1. (\A k \in 2..5-1 : f[k].index[k] = 1)
             <=> d2.index[2] = 1 /\ d3.index[3] = 1 /\ d4.index[4] = 1
      BY <2>1
    <3> QED BY <2>1, <3>1 DEF d5
  <2> HIDE DEF B
  <2>7. \A n \in Levels : n = 1 \/ n = 2 \/ n = 3 \/ n = 4 \/ n = 5
    BY DEF Levels
  <2>8. \A n \in Levels : f[n] = B(f, n)
    BY <2>1, <2>2, <2>3, <2>4, <2>5, <2>6, <2>7
  <2>9. f = [n \in Levels |-> f[n]]
    BY DEF f
  <2> QED BY <2>8, <2>9
<1>3. round = [n \in Levels |-> B(round, n)]
  BY <1>2
<1> HIDE DEF round
<1>4. \A n \in Levels : round[n] = B(round, n)
  <2> HIDE DEF B
  <2> QED BY <1>3
<1>5. round[1] = w
  BY <1>4 DEF Levels
<1>6. ASSUME NEW n \in 2..5
      PROVE  round[n] = IF \A k \in 2..n-1 : round[k].index[k] = 1
                          THEN cascade_timers(round[n - 1], n) ELSE round[n - 1]
  <2>1. n \in Levels /\ n # 1
    BY DEF Levels
  <2> QED BY <1>4, <2>1
<1> QED BY <1>1, <1>5, <1>6

\* The index after a cascade is 1 when this vector was at its first list.
LEMMA IndexOne ==
    ASSUME Now, NEW n \in 2..4, NEW ix, IndexAt(ix, n, n), (timer_jiffies % Unit(n)) = 0
    PROVE  ix[n] = 1 <=> (timer_jiffies % Unit(n + 1)) = 0
<1>1. n \in 1..4 /\ n \in Levels /\ n \in 2..5 /\ timer_jiffies \in Nat
  BY Units DEF Levels, Now
<1>2. Unit(n) \in Nat \ {0} /\ Size(n) = TVN_SIZE /\ TVN_SIZE \in Nat \ {0} /\ TVN_SIZE > 1
  BY <1>1, Units
<1> DEFINE q == timer_jiffies \div Unit(n)
           d == q % TVN_SIZE
<1>3. q \in Int
  <2>1. timer_jiffies \in Int
    BY <1>1
  <2> QED BY <1>2, <2>1, DivMod, Zenon
<1>4. ix[n] = ((q + 1) % TVN_SIZE)
  <2>1. ~(n > n)
    OBVIOUS
  <2> QED BY <2>1 DEF IndexAt
<1>5. (timer_jiffies % Unit(n + 1)) = 0 <=> d = 0
  BY <1>1, <1>2, NextUnit
<1> HIDE DEF q
<1>6. d \in 0..(TVN_SIZE-1)
  BY <1>2, <1>3, DivMod
<1>7. ((d + 1) % TVN_SIZE) = ((q + 1) % TVN_SIZE)
  BY <1>2, <1>3, ModSucc
<1> HIDE DEF d
<1>8. CASE d + 1 < TVN_SIZE
  <2>1. d + 1 = TVN_SIZE * 0 + (d + 1) /\ d + 1 \in 0..(TVN_SIZE-1) /\ d + 1 \in Int
    BY <1>2, <1>6, <1>8
  <2>2. ((d + 1) % TVN_SIZE) = d + 1
    BY <1>2, <2>1, DivUnique
  <2>3. ix[n] = d + 1
    BY <1>4, <1>7, <2>2
  <2>4. d + 1 = 1 <=> d = 0
    BY <1>6
  <2> QED BY <1>5, <2>3, <2>4
<1>9. CASE d + 1 = TVN_SIZE
  <2>1. d + 1 = TVN_SIZE * 1 + 0 /\ 0 \in 0..(TVN_SIZE-1) /\ d + 1 \in Int
    BY <1>2, <1>6, <1>9
  <2>2. ((d + 1) % TVN_SIZE) = 0
    BY <1>2, <2>1, DivUnique
  <2>3. ix[n] = 0 /\ d # 0
    BY <1>2, <1>4, <1>6, <1>7, <1>9, <2>2
  <2> QED BY <1>5, <2>3
<1> QED BY <1>2, <1>6, <1>8, <1>9

\* In a jiffy that begins no unit of vector n there is nothing to cascade.
LEMMA NoCascade ==
    ASSUME Now, NEW w, NEW n \in 2..5, (timer_jiffies % Unit(n)) # 0, Wheel(w, n - 1)
    PROVE  Wheel(w, n)
<1>1. Indexes(w.index, n)
  <2>1. ASSUME NEW k \in 2..5 PROVE IndexAt(w.index, k, n)
    <3>1. IndexAt(w.index, k, n - 1)
      BY DEF Wheel, Indexes
    <3>2. CASE k = n
      BY <3>1, <3>2, Zenon DEF IndexAt
    <3>3. CASE k # n
      <4>1. k > n <=> k > n - 1
        BY <3>3
      <4> QED BY <3>1, <4>1, Zenon DEF IndexAt
    <3> QED BY <3>2, <3>3
  <2> QED BY <2>1 DEF Wheel, Indexes
<1>2. ASSUME NEW t \in Timers PROVE Where(w.at[t], w.index, n, t)
  <2>1. Where(w.at[t], w.index, n - 1, t)
    BY DEF Wheel
  <2> QED BY <2>1, PlacedOne, Zenon DEF Where
<1> QED BY <1>1, <1>2, Zenon DEF Wheel

\* After cascade the lists reached in this jiffy have been cascaded, in the
\* vectors that begin a unit and in no other.
LEMMA CascadeAll ==
    ASSUME Expiries, NEW w, Wheel(w, 1)
    PROVE  Wheel(cascade(w), 5)
<1> DEFINE begins(n) == (timer_jiffies % Unit(n)) = 0
<1>1. Now /\ timer_jiffies \in Nat
  BY Units DEF Expiries, Now
<1>2. begins(5) => begins(4)
  BY <1>1, NextUnit
<1>3. begins(4) => begins(3)
  BY <1>1, NextUnit
<1>4. begins(3) => begins(2)
  BY <1>1, NextUnit
<1>5. w.index[1] = 0 <=> begins(2)
  BY Units DEF Wheel, Indexes
<1> HIDE DEF begins
<1>6. \A v : \A n \in 2..5 : ~begins(n) /\ Wheel(v, n - 1) => Wheel(v, n)
  BY <1>1, NoCascade DEF begins
<1>7. \A v : \A n \in 2..5 : begins(n) /\ Wheel(v, n - 1) => Wheel(cascade_timers(v, n), n)
  BY <1>1, CascadeStep DEF begins
<1>8. \A v : \A n \in 2..4 : begins(n) /\ Wheel(v, n) => (v.index[n] = 1 <=> begins(n + 1))
  <2> TAKE v
  <2> TAKE n \in 2..4
  <2>1. SUFFICES ASSUME begins(n), Wheel(v, n) PROVE v.index[n] = 1 <=> begins(n + 1)
    OBVIOUS
  <2>2. IndexAt(v.index, n, n)
    BY <2>1 DEF Wheel, Indexes
  <2> QED BY <1>1, <2>1, <2>2, IndexOne DEF begins
<1>9. PICK f : /\ f[1] = w
               /\ \A n \in 2..5 :
                     f[n] = IF \A k \in 2..n-1 : f[k].index[k] = 1
                              THEN cascade_timers(f[n - 1], n) ELSE f[n - 1]
               /\ cascade(w) = IF w.index[1] = 0 THEN f[5] ELSE w
  BY CascadeRounds
<1>10. CASE ~begins(2)
  <2>1. cascade(w) = w
    BY <1>5, <1>9, <1>10
  <2>2. Wheel(w, 2)
    <3>1. Wheel(w, 2 - 1)
      OBVIOUS
    <3> QED BY <1>6, <1>10, <3>1
  <2>3. Wheel(w, 3)
    <3>1. Wheel(w, 3 - 1)
      BY <2>2
    <3> QED BY <1>4, <1>6, <1>10, <3>1
  <2>4. Wheel(w, 4)
    <3>1. Wheel(w, 4 - 1)
      BY <2>3
    <3> QED BY <1>3, <1>4, <1>6, <1>10, <3>1
  <2>5. Wheel(w, 5)
    <3>1. Wheel(w, 5 - 1)
      BY <2>4
    <3> QED BY <1>2, <1>3, <1>4, <1>6, <1>10, <3>1
  <2> QED BY <2>1, <2>5
<1>11. CASE begins(2)
  <2>1. cascade(w) = f[5]
    BY <1>5, <1>9, <1>11
  <2>2. Wheel(f[2], 2)
    <3>1. f[2] = cascade_timers(f[1], 2)
      BY <1>9
    <3>2. Wheel(f[1], 2 - 1)
      BY <1>9
    <3> QED BY <1>7, <1>9, <1>11, <3>1, <3>2
  <2>3. f[2].index[2] = 1 <=> begins(3)
    BY <1>8, <1>11, <2>2
  <2>4. f[3] = IF begins(3) THEN cascade_timers(f[2], 3) ELSE f[2]
    BY <1>9, <2>3
  <2>5. Wheel(f[3], 3)
    <3>1. Wheel(f[2], 3 - 1)
      BY <2>2
    <3>2. CASE begins(3)
      BY <1>7, <2>4, <3>1, <3>2
    <3>3. CASE ~begins(3)
      BY <1>6, <2>4, <3>1, <3>3
    <3> QED BY <3>2, <3>3
  <2>6. begins(3) => (f[3].index[3] = 1 <=> begins(4))
    BY <1>8, <2>5
  <2>7. f[4] = IF begins(4) THEN cascade_timers(f[3], 4) ELSE f[3]
    <3>1. (\A k \in 2..4-1 : f[k].index[k] = 1) <=> f[2].index[2] = 1 /\ f[3].index[3] = 1
      OBVIOUS
    <3> QED BY <1>3, <1>9, <2>3, <2>6, <3>1
  <2>8. Wheel(f[4], 4)
    <3>1. Wheel(f[3], 4 - 1)
      BY <2>5
    <3>2. CASE begins(4)
      BY <1>7, <2>7, <3>1, <3>2
    <3>3. CASE ~begins(4)
      BY <1>6, <2>7, <3>1, <3>3
    <3> QED BY <3>2, <3>3
  <2>9. begins(4) => (f[4].index[4] = 1 <=> begins(5))
    BY <1>8, <2>8
  <2>10. f[5] = IF begins(5) THEN cascade_timers(f[4], 5) ELSE f[4]
    <3>1. (\A k \in 2..5-1 : f[k].index[k] = 1)
             <=> f[2].index[2] = 1 /\ f[3].index[3] = 1 /\ f[4].index[4] = 1
      OBVIOUS
    <3> QED BY <1>2, <1>3, <1>9, <2>3, <2>6, <2>9, <3>1
  <2>11. Wheel(f[5], 5)
    <3>1. Wheel(f[4], 5 - 1)
      BY <2>8
    <3>2. CASE begins(5)
      BY <1>7, <2>10, <3>1, <3>2
    <3>3. CASE ~begins(5)
      BY <1>6, <2>10, <3>1, <3>3
    <3> QED BY <3>2, <3>3
  <2> QED BY <2>1, <2>11
<1> QED BY <1>10, <1>11

----------------------------------------------------------------------------
(* Steps that stay in the jiffy.                                            *)

\* What the invariant says about a place and about the indexes depends on
\* timer_jiffies only.
LEMMA SameJiffy ==
    ASSUME timer_jiffies' = timer_jiffies
    PROVE  /\ \A a, m, e : Placed(a, m, e)' <=> Placed(a, m, e)
           /\ \A ix, m : Indexes(ix, m)' <=> Indexes(ix, m)
           /\ Now' <=> Now
<1>1. ASSUME NEW a, NEW m, NEW e PROVE Placed(a, m, e)' <=> Placed(a, m, e)
  <2>1. Ahead(e)' = Ahead(e)
    BY DEF Ahead, Minus
  <2>2. ASSUME NEW n PROVE PlacedAt(a, n, m, e)' <=> PlacedAt(a, n, m, e)
    BY <2>1, Zenon DEF PlacedAt
  <2> QED BY <2>2, Zenon DEF Placed
<1>2. ASSUME NEW ix, NEW m PROVE Indexes(ix, m)' <=> Indexes(ix, m)
  <2>1. ASSUME NEW n PROVE IndexAt(ix, n, m)' <=> IndexAt(ix, n, m)
    BY Zenon DEF IndexAt
  <2> QED BY <2>1, Zenon DEF Indexes
<1>3. Now' <=> Now
  BY DEF Now
<1> QED BY <1>1, <1>2, <1>3

\* A step that leaves every timer set as it was.
LEMMA SameTimers ==
    ASSUME timer_jiffies' = timer_jiffies, expires' = expires, past' = past,
           NEW w, NEW m, Wheel(w, m), Expiries,
           at' = w.at, index' = w.index, Done' = m
    PROVE  Wheel([at |-> at, index |-> index], Done)' /\ Expiries'
<1>1. Indexes(w.index, m)'
  BY SameJiffy, Zenon DEF Wheel
<1>2. ASSUME NEW t \in Timers PROVE Where(w.at[t], w.index, m, t)'
  <2>1. Where(w.at[t], w.index, m, t)
    BY DEF Wheel
  <2>2. expires'[t] = expires[t] /\ (t \in past' <=> t \in past)
    OBVIOUS
  <2>3. Placed(w.at[t], m, expires[t])' <=> Placed(w.at[t], m, expires[t])
    BY <2>2, SameJiffy
  <2> QED BY <2>1, <2>2, <2>3, Zenon DEF Where
<1>3. w.at \in [Timers -> Places]
  BY DEF Wheel
<1>4. Wheel([at |-> at, index |-> index], Done)'
  BY <1>1, <1>2, <1>3 DEF Wheel
<1> QED BY <1>4, SameJiffy DEF Expiries

\* A step that sets or takes off one timer.
LEMMA OneTimer ==
    ASSUME Inv, timer_jiffies' = timer_jiffies, index' = index, Done' = Done,
           NEW t \in Timers, NEW a \in Places, NEW e \in 0..(Word-1),
           at' = [at EXCEPT ![t] = a], expires' = [expires EXCEPT ![t] = e],
           \A u \in Timers : u # t => (u \in past' <=> u \in past),
           \/ t \in past' /\ a = <<1, index[1]>>
           \/ t \notin past' /\ (Off(a, e) \/ Placed(a, Done, e))
    PROVE  Wheel([at |-> at, index |-> index], Done)' /\ Expiries'
<1>1. /\ Indexes(index, Done) /\ at \in [Timers -> Places]
      /\ \A u \in Timers : Where(at[u], index, Done, u)
      /\ Now /\ expires \in [Timers -> 0..(Word-1)]
  BY DEF Inv, Wheel, Expiries
<1>2. Indexes(index, Done)'
  <2>1. Indexes(index', Done') <=> Indexes(index, Done)
    BY Zenon
  <2> QED BY <1>1, SameJiffy, Zenon
<1>3. at' \in [Timers -> Places] /\ at'[t] = a /\ \A u \in Timers : u # t => at'[u] = at[u]
  BY <1>1
<1>4. /\ expires' \in [Timers -> 0..(Word-1)] /\ expires'[t] = e
      /\ \A u \in Timers : u # t => expires'[u] = expires[u]
  BY <1>1
<1>5. ASSUME NEW u \in Timers PROVE Where(at[u], index, Done, u)'
  <2>1. CASE u = t
    <3>1. Placed(a, Done, e)' <=> Placed(a, Done, e)
      BY SameJiffy, Zenon
    <3> QED BY <1>3, <1>4, <2>1, <3>1, Zenon DEF Where
  <2>2. CASE u # t
    <3>1. Where(at[u], index, Done, u)
      BY <1>1
    <3>2. at'[u] = at[u] /\ expires'[u] = expires[u] /\ (u \in past' <=> u \in past)
      BY <1>3, <1>4, <2>2
    <3>3. Placed(at[u], Done, expires[u])' <=> Placed(at[u], Done, expires[u])
      BY <3>2, SameJiffy, Zenon
    <3> QED BY <3>1, <3>2, <3>3, Zenon DEF Where
  <2> QED BY <2>1, <2>2
<1>6. Wheel([at |-> at, index |-> index], Done)'
  BY <1>2, <1>3, <1>5 DEF Wheel
<1> QED BY <1>1, <1>4, <1>6, SameJiffy DEF Expiries

\* A step that changes neither the timers nor the wheel.
LEMMA StandStill ==
    ASSUME Inv, timer_jiffies' = timer_jiffies, at' = at, index' = index, expires' = expires,
           past' = past, Done' = Done
    PROVE  Wheel([at |-> at, index |-> index], Done)' /\ Expiries'
<1> DEFINE w == [at |-> at, index |-> index]
<1>1. Wheel(w, Done) /\ Expiries /\ w.at = at /\ w.index = index
  BY DEF Inv
<1> HIDE DEF w
<1> QED BY <1>1, SameTimers

\* detach_timer takes one timer off.
LEMMA Detached ==
    ASSUME Inv, timer_jiffies' = timer_jiffies, index' = index, Done' = Done,
           NEW t \in Timers, detach_timer(t)
    PROVE  /\ Wheel([at |-> at, index |-> index], Done)' /\ Expiries'
           /\ past' \subseteq Timers
<1>1. /\ at' = [at EXCEPT ![t] = NoList] /\ expires' = [expires EXCEPT ![t] = 0]
      /\ past' = past \ {t}
  BY DEF detach_timer
<1>2. NoList \in Places /\ 0 \in 0..(Word-1) /\ Off(NoList, 0)
  BY Units DEF Places, Off
<1>3. /\ \A u \in Timers : u # t => (u \in past' <=> u \in past)
      /\ t \notin past'
  BY <1>1
<1>4. Wheel([at |-> at, index |-> index], Done)' /\ Expiries'
  BY <1>1, <1>2, <1>3, OneTimer
<1> QED BY <1>1, <1>4 DEF Inv

----------------------------------------------------------------------------
(* The clock and the users of timers.                                       *)

\* A word is its own remainder.
LEMMA SmallWord ==
    ASSUME NEW x \in 0..(Word-1)
    PROVE  (x % Word) = x
<1>1. Word \in Nat \ {0} /\ x \in Int /\ 0 \in Int
  BY Units
<1>2. x = Word * 0 + x
  BY <1>1
<1> QED BY <1>1, <1>2, DivUnique, Zenon

\* Distances add, modulo the word.
LEMMA MinusAdd ==
    ASSUME NEW j \in Int, NEW d \in Int, NEW s \in Int
    PROVE  Minus((j + d) % Word, s) = ((Minus(j, s) + d) % Word)
<1> DEFINE W == Word
           e == (j + d) % W
           D == (j - s) % W
           p == (j + d) \div W
           q == (j - s) \div W
<1>1. W \in Nat \ {0}
  BY Units
<1>2. e \in Int /\ p \in Int /\ j + d = W * p + e
  <2>1. j + d \in Int
    OBVIOUS
  <2>2. e \in 0..(W-1) /\ p \in Int /\ j + d = W * p + e
    BY <1>1, <2>1, DivMod, Zenon
  <2> HIDE DEF e, p, W
  <2> QED BY <1>1, <2>2
<1>3. D \in Int /\ q \in Int /\ j - s = W * q + D
  <2>1. j - s \in Int
    OBVIOUS
  <2>2. D \in 0..(W-1) /\ q \in Int /\ j - s = W * q + D
    BY <1>1, <2>1, DivMod, Zenon
  <2> HIDE DEF D, q, W
  <2> QED BY <1>1, <2>2
<1> DEFINE x == j + d - s
<1>4. Minus(e, s) = ((e - s) % W) /\ Minus(j, s) = D
  BY Zenon DEF Minus
<1> HIDE DEF W, e, D, p, q
<1>5. x \in Int /\ x = (e - s) + W * p /\ x = (D + d) + W * q /\ e - s \in Int /\ D + d \in Int
  BY <1>1, <1>2, <1>3
<1> HIDE DEF x
<1>6. (x % W) = ((e - s) % W)
  <2>1. (((e - s) + W * p) % W) = ((e - s) % W)
    BY <1>1, <1>2, <1>5, ModShift, Zenon
  <2> QED BY <1>5, <2>1, Zenon
<1>7. (x % W) = ((D + d) % W)
  <2>1. (((D + d) + W * q) % W) = ((D + d) % W)
    BY <1>1, <1>3, <1>5, ModShift, Zenon
  <2> QED BY <1>5, <2>1, Zenon
<1>8. Minus(e, s) = ((Minus(j, s) + d) % W)
  BY <1>4, <1>6, <1>7
<1> QED BY <1>8 DEF e, W

\* The jiffy after e is a word behind.
LEMMA OneBehind ==
    ASSUME NEW e \in 0..(Word-1), NEW s \in 0..(Word-1), Minus(e, s) = 0
    PROVE  Minus(e, (s + 1) % Word) = Word - 1
<1>1. Word \in Nat /\ Word > 31 /\ Word \in Nat \ {0}
  BY Units
<1>2. ((e - s) % Word) = (IF e >= s THEN e - s ELSE e - s + Word)
  BY <1>1, Distance
<1>3. ((e - s) % Word) = 0
  BY DEF Minus
<1>4. e = s /\ s \in Nat
  BY <1>1, <1>2, <1>3
<1>5. CASE s + 1 < Word
  <2>1. s + 1 \in 0..(Word-1)
    BY <1>1, <1>5
  <2>2. ((s + 1) % Word) = s + 1
    BY <2>1, SmallWord
  <2>3. ((e - (s + 1)) % Word) = (IF e >= s + 1 THEN e - (s + 1) ELSE e - (s + 1) + Word)
    BY <1>1, <2>1, Distance
  <2>4. ((e - (s + 1)) % Word) = Word - 1
    BY <1>1, <1>4, <2>3
  <2> QED BY <2>2, <2>4, Zenon DEF Minus
<1>6. CASE s + 1 = Word
  <2>1. s + 1 = Word * 1 + 0 /\ 0 \in 0..(Word-1) /\ s + 1 \in Int /\ 1 \in Int
    BY <1>1, <1>6
  <2>2. ((s + 1) % Word) = 0
    BY <1>1, <2>1, DivUnique
  <2>3. ((e - 0) % Word) = (IF e >= 0 THEN e - 0 ELSE e - 0 + Word)
    BY <1>1, <2>1, Distance
  <2>4. ((e - 0) % Word) = Word - 1
    BY <1>1, <1>4, <1>6, <2>3
  <2> QED BY <2>2, <2>4, Zenon DEF Minus
<1> QED BY <1>1, <1>4, <1>5, <1>6

\* The bounds on delay and lag, in words.
LEMMA Bounds ==
    /\ MaxDelay \in Nat /\ MaxLag \in Nat /\ MaxDelay + MaxLag + 1 < Word
    /\ MaxLag < Far /\ Far \in Nat /\ Far < Word - 1 /\ Word \in Nat /\ Word > 31
    /\ \A x \in Nat : x < Word \div 2 => x # Word - 1
<1>1. Word = TVR_SIZE * TVN_SIZE * TVN_SIZE * TVN_SIZE * TVN_SIZE
  BY DEF Word, Far
<1>2. MaxDelay \in Nat /\ MaxLag \in Nat /\ MaxDelay + MaxLag + 1 < Word
  BY <1>1, ConstAssumption
<1>3. Unit(3) = TVR_SIZE * TVN_SIZE
  BY DEF Unit, Reach
<1>4. /\ Unit(3) <= Unit(4) /\ Unit(4) <= Unit(5) /\ Unit(5) = Far
      /\ Unit(3) \in Nat /\ Unit(4) \in Nat /\ Unit(5) \in Nat /\ Word \in Nat /\ Word > 31
  BY Units DEF Levels
<1>5. MaxLag < Unit(3)
  BY <1>3, ConstAssumption
<1>6. MaxLag < Far /\ Far \in Nat
  BY <1>2, <1>4, <1>5
<1>7. Far < Word - 1
  <2>1. Word = Far * TVN_SIZE /\ TVN_SIZE \in Nat /\ TVN_SIZE > 1
    BY ConstAssumption DEF Word
  <2>2. Far * (TVN_SIZE - 2) = Far * TVN_SIZE - 2 * Far /\ Far * (TVN_SIZE - 2) >= 0
    BY <1>6, <2>1
  <2>3. Word >= 2 * Far
    BY <1>4, <1>6, <2>1, <2>2
  <2> QED BY <1>4, <1>6, <2>3
<1>8. \A x \in Nat : x < Word \div 2 => x # Word - 1
  BY <1>4
<1> QED BY <1>2, <1>4, <1>6, <1>7, <1>8

----------------------------------------------------------------------------
(* The invariant holds initially and is preserved.                          *)

\* No timer is set, and the indexes are 0.
LEMMA InitInv == Init => Inv
<1> SUFFICES ASSUME Init PROVE Inv
  OBVIOUS
<1>1. /\ jiffies = 0 /\ timer_jiffies = 0 /\ at = [t \in Timers |-> NoList]
      /\ index = [n \in Levels |-> 0] /\ expires = [t \in Timers |-> 0]
      /\ pc = "idle" /\ past = {}
  BY DEF Init
<1>2. Word \in Nat \ {0} /\ 0 \in 0..(Word-1) /\ TVN_SIZE \in Nat \ {0} /\ TVR_SIZE \in Nat \ {0}
      /\ TVN_SIZE > 1 /\ TVR_SIZE > 1
  BY Units, ConstAssumption
<1>3. \A d \in Nat \ {0} : (0 % d) = 0 /\ (0 \div d) = 0
  <2> TAKE d \in Nat \ {0}
  <2>1. 0 = d * 0 + 0 /\ 0 \in 0..(d-1) /\ 0 \in Int
    OBVIOUS
  <2> QED BY <2>1, DivUnique
<1>4. Now /\ Expiries /\ Done = 1
  BY <1>1, <1>2 DEF Now, Expiries, Done
<1>5. Clock
  <2>1. Minus(jiffies, timer_jiffies) = 0
    <3>1. jiffies - timer_jiffies = 0
      BY <1>1
    <3> QED BY <1>2, <1>3, <3>1, Zenon DEF Minus
  <2> QED BY <1>1, <1>2, <2>1, Bounds DEF Clock
<1>6. Indexes(index, 1)
  <2>1. index \in [Levels -> Nat] /\ index[1] = (timer_jiffies % TVR_SIZE)
    BY <1>1, <1>2, <1>3 DEF Levels
  <2>2. ASSUME NEW n \in 2..5 PROVE IndexAt(index, n, 1)
    <3>1. Unit(n) \in Nat \ {0} /\ n > 1 /\ n \in Levels
      BY Units DEF Levels
    <3>2. (timer_jiffies % Unit(n)) = 0 /\ (timer_jiffies \div Unit(n)) = 0 /\ (0 % TVN_SIZE) = 0
      BY <1>1, <1>2, <1>3, <3>1, Zenon
    <3>3. index[n] = 0
      BY <1>1, <3>1
    <3> QED BY <3>1, <3>2, <3>3, Zenon DEF IndexAt
  <2> QED BY <2>1, <2>2 DEF Indexes
<1>7. at \in [Timers -> Places] /\ \A t \in Timers : Where(at[t], index, 1, t)
  <2>1. \A t \in Timers : at[t] = NoList
    BY <1>1
  <2>2. NoList \in Places
    BY DEF Places
  <2> QED BY <1>1, <2>1, <2>2, Zenon DEF Where, Off
<1>8. Wheel([at |-> at, index |-> index], Done)
  BY <1>4, <1>6, <1>7 DEF Wheel
<1> QED BY <1>1, <1>4, <1>5, <1>8 DEF Inv

\* A tick of the clock.
LEMMA TickInv == Inv /\ Tick => Inv'
<1> SUFFICES ASSUME Inv, Tick PROVE Inv'
  OBVIOUS
<1> DEFINE D == Minus(jiffies, timer_jiffies)
<1>1. /\ jiffies' = ((jiffies + 1) % Word) /\ timer_jiffies' = timer_jiffies /\ pc' = pc
      /\ at' = at /\ index' = index /\ expires' = expires /\ past' = past
      /\ D \in 0..MaxLag-1 \cup {Word - 1}
  BY DEF Tick
<1>2. jiffies \in Int /\ timer_jiffies \in Int /\ Clock /\ Expiries /\ past \subseteq Timers
  BY Bounds DEF Inv, Clock, Expiries, Now
<1>3. D' = ((D + 1) % Word)
  BY <1>1, <1>2, MinusAdd
<1>4. jiffies' \in 0..(Word-1)
  <2>1. Word \in Nat \ {0} /\ jiffies + 1 \in Int
    BY <1>2, Bounds
  <2> QED BY <1>1, <2>1, DivMod
<1>5. Wheel([at |-> at, index |-> index], Done)' /\ Expiries'
  <2>1. Done' = Done
    BY <1>1 DEF Done
  <2> QED BY <1>1, <2>1, StandStill
<1>6. D' \in 0..MaxLag
  <2>1. CASE D \in 0..MaxLag-1
    <3>1. D + 1 \in 0..(Word-1) /\ D + 1 \in 0..MaxLag
      BY <2>1, Bounds
    <3>2. ((D + 1) % Word) = D + 1
      BY <3>1, SmallWord, Zenon
    <3> QED BY <1>3, <3>1, <3>2, Zenon
  <2>2. CASE D = Word - 1
    <3>1. Word \in Nat \ {0} /\ D + 1 = Word * 1 + 0 /\ 0 \in 0..(Word-1) /\ D + 1 \in Int /\ 0 \in 0..MaxLag
      BY <2>2, Bounds
    <3> HIDE DEF D
    <3>2. ((D + 1) % Word) = 0
      BY <3>1, DivUnique
    <3>3. D' = 0
      BY <1>3, <3>2, Zenon
    <3> QED BY <3>1, <3>3, Zenon
  <2> QED BY <1>1, <2>1, <2>2
<1>7. Clock'
  BY <1>1, <1>2, <1>4, <1>6 DEF Clock
<1> QED BY <1>1, <1>2, <1>5, <1>7, Zenon DEF Inv

\* A round of run_timer_list begins: the lists reached are cascaded.
LEMMA EnterInv == Inv /\ Enter => Inv'
<1> SUFFICES ASSUME Inv, Enter PROVE Inv'
  OBVIOUS
<1> DEFINE w == [at |-> at, index |-> index]
           v == cascade(w)
           D == Minus(jiffies, timer_jiffies)
<1>1. /\ jiffies' = jiffies /\ timer_jiffies' = timer_jiffies /\ pc' = "loop"
      /\ at' = v.at /\ index' = v.index /\ expires' = expires /\ past' = past
      /\ pc \in {"idle", "test"} /\ D < Word \div 2
  BY DEF Enter, Behind
<1>2. Clock /\ Expiries /\ past \subseteq Timers /\ Wheel(w, Done)
  BY DEF Inv
<1>3. Done = 1 /\ Done' = 5
  BY <1>1 DEF Done
<1>4. Wheel(v, 5)
  BY <1>2, <1>3, CascadeAll
<1>5. Wheel([at |-> at, index |-> index], Done)' /\ Expiries'
  <2> HIDE DEF v, w
  <2> QED BY <1>1, <1>2, <1>3, <1>4, SameTimers
<1>6. Clock'
  <2>1. D \in 0..MaxLag \cup {Word - 1}
    BY <1>2 DEF Clock
  <2>2. D \in 0..MaxLag
    BY <1>1, <2>1, Bounds
  <2> QED BY <1>1, <1>2, <2>2 DEF Clock
<1> QED BY <1>1, <1>2, <1>5, <1>6, Zenon DEF Inv

\* A timer's function returns.
LEMMA ReturnInv == Inv /\ FunctionReturns => Inv'
<1> SUFFICES ASSUME Inv, FunctionReturns PROVE Inv'
  OBVIOUS
<1>1. /\ jiffies' = jiffies /\ timer_jiffies' = timer_jiffies /\ pc' = "loop" /\ pc = "fn"
      /\ at' = at /\ index' = index /\ expires' = expires /\ past' = past
  BY DEF FunctionReturns
<1>2. Done' = Done
  BY <1>1 DEF Done
<1>3. Wheel([at |-> at, index |-> index], Done)' /\ Expiries'
  BY <1>1, <1>2, StandStill
<1>4. Clock'
  BY <1>1 DEF Clock, Inv
<1> QED BY <1>1, <1>3, <1>4, Zenon DEF Inv

\* run_timer_list has caught up.
LEMMA LeaveInv == Inv /\ Leave => Inv'
<1> SUFFICES ASSUME Inv, Leave PROVE Inv'
  OBVIOUS
<1>1. /\ jiffies' = jiffies /\ timer_jiffies' = timer_jiffies /\ pc' = "idle" /\ pc = "test"
      /\ at' = at /\ index' = index /\ expires' = expires /\ past' = past
  BY DEF Leave
<1>2. Done' = Done
  BY <1>1 DEF Done
<1>3. Wheel([at |-> at, index |-> index], Done)' /\ Expiries'
  BY <1>1, <1>2, StandStill
<1>4. Clock'
  BY <1>1 DEF Clock, Inv
<1> QED BY <1>1, <1>3, <1>4, Zenon DEF Inv

\* A timer is deleted.
LEMMA DeleteInv == ASSUME NEW t \in Timers PROVE Inv /\ del_timer(t) => Inv'
<1> SUFFICES ASSUME Inv, del_timer(t) PROVE Inv'
  OBVIOUS
<1>1. /\ jiffies' = jiffies /\ timer_jiffies' = timer_jiffies /\ pc' = pc /\ index' = index
  BY DEF del_timer
<1>2. detach_timer(t) /\ Done' = Done
  BY <1>1 DEF del_timer, Done
<1>3. /\ Wheel([at |-> at, index |-> index], Done)' /\ Expiries' /\ past' \subseteq Timers
  BY <1>1, <1>2, Detached
<1>4. Clock'
  BY <1>1 DEF Clock, Inv
<1> QED BY <1>3, <1>4, Zenon DEF Inv

\* A timer is detached and its function called.
LEMMA RunInv == ASSUME NEW t \in Timers PROVE Inv /\ RunTimer(t) => Inv'
<1> SUFFICES ASSUME Inv, RunTimer(t) PROVE Inv'
  OBVIOUS
<1>1. /\ jiffies' = jiffies /\ timer_jiffies' = timer_jiffies /\ pc = "loop" /\ pc' = "fn"
      /\ index' = index
  BY DEF RunTimer
<1>2. detach_timer(t) /\ Done' = Done
  BY <1>1 DEF RunTimer, Done
<1>3. /\ Wheel([at |-> at, index |-> index], Done)' /\ Expiries' /\ past' \subseteq Timers
  BY <1>1, <1>2, Detached
<1>4. Clock'
  BY <1>1 DEF Clock, Inv
<1> QED BY <1>3, <1>4, Zenon DEF Inv

\* A timer is set: it is where its expiry belongs, taken for past, or lost.
LEMMA AddInv ==
    ASSUME NEW t \in Timers, NEW d \in 0..MaxDelay
    PROVE  Inv /\ add_timer(t, d) => Inv'
<1> SUFFICES ASSUME Inv, add_timer(t, d) PROVE Inv'
  OBVIOUS
<1> DEFINE e == (jiffies + d) % Word
           a == internal_add_timer(e)
<1>1. /\ jiffies' = jiffies /\ timer_jiffies' = timer_jiffies /\ pc' = pc /\ index' = index
      /\ at' = [at EXCEPT ![t] = a] /\ expires' = [expires EXCEPT ![t] = e]
      /\ past' = (IF Ahead(e) >= Far /\ e < timer_jiffies THEN past \cup {t} ELSE past)
      /\ at[t] = NoList
  BY DEF add_timer, Pending, Ahead
<1>2. /\ jiffies \in Int /\ timer_jiffies \in 0..(Word-1) /\ Clock /\ Now
      /\ past \subseteq Timers /\ Done \in Levels /\ d \in Nat
  BY Bounds DEF Inv, Clock, Expiries, Now, Done, Levels
<1>3. e \in 0..(Word-1)
  <2>1. Word \in Nat \ {0} /\ jiffies + d \in Int
    BY <1>2, Bounds
  <2> QED BY <2>1, DivMod, Zenon
<1>4. t \notin past
  <2>1. Where(at[t], index, Done, t)
    BY DEF Inv, Wheel
  <2> QED BY <1>1, <2>1 DEF Where, NoList
<1> HIDE DEF e, a
<1>5. /\ Done' = Done /\ Clock' /\ past' \subseteq Timers
      /\ \A u \in Timers : u # t => (u \in past' <=> u \in past)
  BY <1>1, <1>2 DEF Done, Clock
<1>6. Ahead(e) \in Nat /\ Far \in Nat /\ e \in Nat /\ timer_jiffies \in Nat /\ Word \in Nat
  BY <1>2, <1>3, AheadWord, Bounds
<1>7. ASSUME a \in Places,
             \/ t \in past' /\ a = <<1, index[1]>>
             \/ t \notin past' /\ (Off(a, e) \/ Placed(a, Done, e))
      PROVE  Inv'
  <2>1. Wheel([at |-> at, index |-> index], Done)' /\ Expiries'
    BY <1>1, <1>3, <1>5, <1>7, OneTimer
  <2> QED BY <1>5, <2>1, Zenon DEF Inv
<1>8. ASSUME NEW n \in Levels, Fits(e, n), a = <<n, ListOf(n, e)>>, t \notin past'
      PROVE  Inv'
  <2>1. a \in Places /\ PlacedAt(a, n, Done, e)
    BY <1>2, <1>3, <1>8, FitsPlaced, Zenon
  <2>2. Placed(a, Done, e)
    BY <2>1, Zenon DEF Placed
  <2> QED BY <1>7, <1>8, <2>1, <2>2, Zenon
<1>9. CASE Ahead(e) < Far
  <2>1. PICK n \in 1..4 : Fits(e, n) /\ internal_add_timer(e) = <<n, ListOf(n, e)>>
    BY <1>2, <1>3, <1>9, InsertNear
  <2>2. n \in Levels /\ t \notin past'
    BY <1>1, <1>4, <1>6, <1>9 DEF Levels
  <2> QED BY <1>8, <2>1, <2>2, Zenon DEF a
<1>10. CASE Far <= Ahead(e) /\ e < timer_jiffies
  <2>1. a = <<1, index[1]>> /\ t \in past'
    BY <1>1, <1>2, <1>3, <1>6, <1>10, InsertFar DEF a
  <2>2. index[1] = ListOf(1, timer_jiffies) /\ 1 \in Levels
    BY DEF Inv, Wheel, Indexes, ListOf, Levels
  <2>3. a \in Places
    BY <1>6, <2>1, <2>2, ListPlace, Zenon
  <2> QED BY <1>7, <2>1, <2>3, Zenon
<1>11. CASE Far <= Ahead(e) /\ e >= timer_jiffies /\ Ahead(e) < Word - 1
  <2>1. Fits(e, 5) /\ a = <<5, ListOf(5, e)>> /\ 5 \in Levels
    BY <1>2, <1>3, <1>11, InsertFar DEF Levels, a
  <2>2. t \notin past'
    BY <1>1, <1>4, <1>6, <1>11
  <2> QED BY <1>8, <2>1, <2>2, Zenon
<1>12. CASE Far <= Ahead(e) /\ e >= timer_jiffies /\ ~(Ahead(e) < Word - 1)
  <2>1. e = Word - 1 /\ a = Self
    BY <1>2, <1>3, <1>12, InsertFar DEF a
  <2>2. Off(a, e) /\ a \in Places
    BY <2>1, Zenon DEF Off, Places
  <2>3. t \notin past'
    BY <1>1, <1>4, <1>6, <1>12
  <2> QED BY <1>7, <2>2, <2>3, Zenon
<1> QED BY <1>6, <1>9, <1>10, <1>11, <1>12

\* When the list of this jiffy is empty and all cascades are done, no timer is in
\* a list whose jiffies begin now.
LEMMA NotDue ==
    ASSUME Now, NEW e \in 0..(Word-1), NEW n \in Levels, NEW a, PlacedAt(a, n, 5, e),
           a # <<1, ListOf(1, timer_jiffies)>>
    PROVE  (e % Unit(n)) < Ahead(e)
<1>1. /\ timer_jiffies \in 0..(Word-1) /\ Unit(n) \in Nat \ {0} /\ Ahead(e) \in Nat
      /\ Unit(1) = 1 /\ e \in Int
  BY Units, AheadWord DEF Now
<1>2. (e % Unit(n)) \in 0..(Unit(n)-1)
  BY <1>1, DivMod, Zenon
<1>3. a = <<n, ListOf(n, e)>> /\ (e % Unit(n)) <= Ahead(e)
      /\ (n \in 2..5 /\ (timer_jiffies % Unit(n)) = 0 => Unit(n) <= Ahead(e))
  BY DEF PlacedAt
<1>4. CASE n = 1
  <2>1. ListOf(n, e) # ListOf(n, timer_jiffies)
    BY <1>3, <1>4, Zenon
  <2>2. (timer_jiffies % Unit(n)) = 0
    <3>1. timer_jiffies = 1 * timer_jiffies + 0 /\ 0 \in 0..(1-1) /\ timer_jiffies \in Int
      BY <1>1, Bounds
    <3>2. (timer_jiffies % 1) = 0
      BY <3>1, DivUnique
    <3> QED BY <1>1, <1>4, <3>2
  <2>3. Unit(n) <= Ahead(e)
    BY <1>1, <2>1, <2>2, ListReached, Zenon DEF Ahead
  <2> QED BY <1>1, <1>2, <2>3
<1>5. CASE n # 1
  <2>1. n \in 2..5
    BY <1>5 DEF Levels
  <2>2. SUFFICES ASSUME Ahead(e) = (e % Unit(n)) PROVE FALSE
    BY <1>1, <1>2, <1>3
  <2>3. (timer_jiffies % Unit(n)) = 0
    BY <1>1, <2>2, UnitBegins, Zenon DEF Ahead
  <2>4. Unit(n) <= Ahead(e)
    BY <1>3, <2>1, <2>3
  <2> QED BY <1>1, <1>2, <2>2, <2>4
<1> QED BY <1>4, <1>5

\* So nothing taken for past is left, and every other timer is ahead.
LEMMA NoneLeft ==
    ASSUME Inv, NextJiffy
    PROVE  /\ past = {} /\ timer_jiffies' = ((timer_jiffies + 1) % Word) /\ expires' = expires /\ past' = past
           /\ \A t \in Timers : \A n \in Levels : PlacedAt(at[t], n, 5, expires[t])
                => /\ (expires[t] % Unit(n)) < Ahead(expires[t])
                   /\ Ahead(expires[t])' = Ahead(expires[t]) - 1
           /\ \A t \in Timers : Where(at[t], index, 5, t)
<1>1. /\ timer_jiffies' = ((timer_jiffies + 1) % Word) /\ expires' = expires /\ past' = past
      /\ pc = "loop" /\ \A t \in Timers : at[t] # <<1, index[1]>>
  BY DEF NextJiffy
<1>2. \A t \in Timers : Where(at[t], index, 5, t)
  BY <1>1 DEF Inv, Wheel, Done
<1>3. past = {}
  BY <1>1, <1>2 DEF Where, Inv
<1>4. ASSUME NEW t \in Timers, NEW n \in Levels, PlacedAt(at[t], n, 5, expires[t])
      PROVE  /\ (expires[t] % Unit(n)) < Ahead(expires[t])
             /\ Ahead(expires[t])' = Ahead(expires[t]) - 1
  <2> DEFINE e == expires[t]
  <2>1. Now /\ e \in 0..(Word-1) /\ index[1] = ListOf(1, timer_jiffies) /\ timer_jiffies \in 0..(Word-1)
    BY DEF Inv, Expiries, Now, Wheel, Indexes, ListOf
  <2>2. at[t] # <<1, ListOf(1, timer_jiffies)>>
    BY <1>1, <2>1, Zenon
  <2>3. e' = e
    BY <1>1
  <2> HIDE DEF e
  <2>4. PlacedAt(at[t], n, 5, e)
    BY <1>4 DEF e
  <2>5. (e % Unit(n)) < Ahead(e)
    BY <2>1, <2>2, <2>4, NotDue, Zenon
  <2>6. Ahead(e) # 0
    <3>1. (e % Unit(n)) \in 0..(Unit(n)-1) /\ Unit(n) \in Nat /\ Ahead(e) \in Nat
      <4>1. e \in Int /\ Unit(n) \in Nat \ {0}
        BY <2>1, Units
      <4> QED BY <2>1, <4>1, DivMod, AheadWord
    <3> QED BY <2>5, <3>1
  <2>7. Minus(e, (timer_jiffies + 1) % Word) = Minus(e, timer_jiffies) - 1
    BY <2>1, <2>6, OneNearer, Zenon DEF Ahead
  <2>8. Ahead(e)' = Ahead(e) - 1
    BY <1>1, <2>3, <2>7, Zenon DEF Ahead, Minus
  <2> QED BY <2>5, <2>8 DEF e
<1> QED BY <1>1, <1>2, <1>3, <1>4

\* One jiffy on, and round the word.
LEMMA NextWord ==
    ASSUME NEW s \in 0..(Word-1)
    PROVE  /\ s + 1 < Word => ((s + 1) % Word) = s + 1
           /\ s + 1 = Word => ((s + 1) % Word) = 0
           /\ s + 1 < Word \/ s + 1 = Word
           /\ s \in Nat /\ ((s + 1) % Word) \in 0..(Word-1)
<1>1. Word \in Nat \ {0} /\ s \in Nat
  BY Bounds
<1>2. ASSUME s + 1 < Word PROVE ((s + 1) % Word) = s + 1
  <2>1. s + 1 \in 0..(Word-1)
    BY <1>1, <1>2
  <2> QED BY <2>1, SmallWord
<1>3. ASSUME s + 1 = Word PROVE ((s + 1) % Word) = 0
  <2>1. s + 1 = Word * 1 + 0 /\ 0 \in 0..(Word-1) /\ s + 1 \in Int
    BY <1>1, <1>3
  <2> QED BY <1>1, <2>1, DivUnique
<1>4. ((s + 1) % Word) \in 0..(Word-1)
  <2>1. s + 1 \in Int
    BY <1>1
  <2> QED BY <1>1, <2>1, DivMod, Zenon
<1> QED BY <1>1, <1>2, <1>3, <1>4

\* The list after the one of jiffy s is the first that is not wholly before the
\* next jiffy.
LEMMA RoundNext ==
    ASSUME NEW s \in 0..(Word-1), NEW n \in 2..5, NEW r, r = ((s + 1) % Word)
    PROVE  (((s \div Unit(n)) + 1) % TVN_SIZE)
             = ((IF (r % Unit(n)) = 0 THEN r \div Unit(n) ELSE (r \div Unit(n)) + 1) % TVN_SIZE)
<1> DEFINE u == Unit(n)
           q == s \div u
           x == s % u
<1>1. s \in Int /\ u \in Nat \ {0} /\ TVN_SIZE \in Nat \ {0} /\ Size(n) = TVN_SIZE /\ n \in Levels
      /\ Word \in Nat
  BY Units DEF Levels
<1>2. PICK m \in Nat \ {0} : Word = u * (TVN_SIZE * m)
  BY <1>1, Units
<1> HIDE DEF u
<1>3. q \in Int /\ x \in 0..(u-1) /\ s = u * q + x
  BY <1>1, DivMod, Zenon
<1> HIDE DEF q, x
<1>4. u * (q + 1) = u * q + u /\ u * q \in Int /\ q + 1 \in Int
  BY <1>1, <1>3
<1>5. CASE s + 1 < Word /\ x + 1 < u
  <2>1. r = s + 1
    BY <1>5, NextWord
  <2>2. r = u * q + (x + 1) /\ x + 1 \in 0..(u-1) /\ r \in Int /\ x + 1 # 0
    BY <1>1, <1>3, <1>4, <1>5, <2>1
  <2>3. (r % u) = x + 1 /\ (r \div u) = q
    BY <1>1, <1>3, <2>2, DivUnique
  <2>4. (r % u) # 0
    BY <2>2, <2>3
  <2> QED BY <2>3, <2>4, Zenon DEF q, u
<1>6. CASE s + 1 < Word /\ x + 1 = u
  <2>1. r = s + 1
    BY <1>6, NextWord
  <2>2. r = u * (q + 1) + 0 /\ 0 \in 0..(u-1) /\ r \in Int
    BY <1>1, <1>3, <1>4, <1>6, <2>1
  <2>3. (r % u) = 0 /\ (r \div u) = q + 1
    BY <1>1, <1>4, <2>2, DivUnique
  <2> QED BY <2>3, Zenon DEF q, u
<1>7. CASE s + 1 = Word
  <2>1. r = 0
    BY <1>7, NextWord
  <2>2. (r % u) = 0 /\ (r \div u) = 0
    <3>1. 0 = u * 0 + 0 /\ 0 \in 0..(u-1) /\ 0 \in Int
      BY <1>1
    <3> QED BY <1>1, <2>1, <3>1, DivUnique
  <2>3. (0 % TVN_SIZE) = 0
    <3>1. 0 = TVN_SIZE * 0 + 0 /\ 0 \in 0..(TVN_SIZE-1) /\ 0 \in Int
      BY <1>1
    <3> QED BY <1>1, <3>1, DivUnique
  <2> DEFINE k == TVN_SIZE * m
  <2>4. k \in Int /\ k - 1 \in Int
    BY <1>1
  <2>5. Word = u * k
    BY <1>2
  <2> HIDE DEF k
  <2>6. u * (k - 1) = u * k - u /\ u * k \in Int
    BY <1>1, <2>4
  <2>7. s = u * (k - 1) + (u - 1) /\ u - 1 \in 0..(u-1)
    BY <1>1, <1>7, <2>5, <2>6
  <2>8. (s \div u) = k - 1
    BY <1>1, <2>4, <2>7, DivUnique
  <2>9. (s \div u) + 1 = k
    BY <2>4, <2>8
  <2>10. (k % TVN_SIZE) = 0
    <3>1. k = TVN_SIZE * m + 0 /\ 0 \in 0..(TVN_SIZE-1) /\ m \in Int
      BY <1>1, <2>4 DEF k
    <3> QED BY <1>1, <2>4, <3>1, DivUnique
  <2> QED BY <2>2, <2>3, <2>9, <2>10, Zenon DEF u
<1>8. (s + 1 < Word /\ x + 1 < u) \/ (s + 1 < Word /\ x + 1 = u) \/ s + 1 = Word
  BY <1>1, <1>3, NextWord
<1> QED BY <1>5, <1>6, <1>7, <1>8

\* The next jiffy: the indexes are right before its cascades.
LEMMA IndexNext ==
    ASSUME Now, NEW ix, Indexes(ix, 5), timer_jiffies' = ((timer_jiffies + 1) % Word)
    PROVE  Indexes([ix EXCEPT ![1] = (@ + 1) % TVR_SIZE], 1)' /\ Now'
<1> DEFINE s == timer_jiffies
           r == (s + 1) % Word
           jx == [ix EXCEPT ![1] = (@ + 1) % TVR_SIZE]
<1>1. /\ s \in Nat /\ s \in 0..(Word-1) /\ Word \in Nat \ {0} /\ TVR_SIZE \in Nat \ {0}
      /\ TVN_SIZE \in Nat \ {0} /\ s \in Int
  BY Bounds, ConstAssumption DEF Now
<1>2. r \in 0..(Word-1) /\ timer_jiffies' = r
  BY <1>1, NextWord
<1>3. ix \in [Levels -> Nat] /\ ix[1] = (s % TVR_SIZE) /\ \A n \in 2..5 : IndexAt(ix, n, 5)
  BY DEF Indexes
<1> HIDE DEF s, r
<1>4. ((ix[1] + 1) % TVR_SIZE) = (r % TVR_SIZE)
  <2>1. ((ix[1] + 1) % TVR_SIZE) = ((s + 1) % TVR_SIZE)
    BY <1>1, <1>3, ModSucc, Zenon
  <2>2. CASE s + 1 < Word
    <3>1. r = s + 1
      BY <1>1, <2>2, NextWord DEF r
    <3> QED BY <2>1, <3>1, Zenon
  <2>3. CASE s + 1 = Word
    <3>1. r = 0
      BY <1>1, <2>3, NextWord DEF r
    <3>2. PICK m \in Nat \ {0} : Word = Unit(1) * (Size(1) * m)
      BY Units DEF Levels
    <3>3. Word = TVR_SIZE * m + 0 /\ 0 \in 0..(TVR_SIZE-1) /\ m \in Int /\ Word \in Int
      BY <1>1, <3>2 DEF Unit, Size
    <3>4. (Word % TVR_SIZE) = 0
      BY <1>1, <3>3, DivUnique
    <3>5. 0 = TVR_SIZE * 0 + 0 /\ 0 \in Int
      BY <1>1
    <3>6. (0 % TVR_SIZE) = 0
      BY <1>1, <3>3, <3>5, DivUnique
    <3> QED BY <2>1, <2>3, <3>1, <3>4, <3>6, Zenon
  <2> QED BY <1>1, <2>2, <2>3, NextWord
<1>5. ((ix[1] + 1) % TVR_SIZE) \in Nat
  <2>1. 1 \in Levels
    BY DEF Levels
  <2>2. ix[1] \in Nat
    BY <1>3, <2>1
  <2>3. ix[1] + 1 \in Int
    BY <2>2
  <2>4. ((ix[1] + 1) % TVR_SIZE) \in 0..(TVR_SIZE-1)
    BY <1>1, <2>3, DivMod, Zenon
  <2> QED BY <1>1, <2>4
<1>6. /\ jx \in [Levels -> Nat] /\ jx[1] = ((ix[1] + 1) % TVR_SIZE)
      /\ \A n \in 2..5 : jx[n] = ix[n]
  BY <1>3, <1>5 DEF Levels
<1> HIDE DEF jx
<1>7. ASSUME NEW n \in 2..5 PROVE IndexAt(jx, n, 1)'
  <2>1. ix[n] = (((s \div Unit(n)) + 1) % TVN_SIZE)
    <3>1. IndexAt(ix, n, 5) /\ ~(n > 5)
      BY <1>3
    <3> QED BY <3>1, Zenon DEF IndexAt, s
  <2>2. (((s \div Unit(n)) + 1) % TVN_SIZE)
             = ((IF (r % Unit(n)) = 0 THEN r \div Unit(n) ELSE (r \div Unit(n)) + 1) % TVN_SIZE)
    BY <1>1, RoundNext, Zenon DEF r
  <2>3. n > 1
    OBVIOUS
  <2>4. jx[n] = ((IF n > 1 /\ (r % Unit(n)) = 0 THEN r \div Unit(n) ELSE (r \div Unit(n)) + 1) % TVN_SIZE)
    BY <1>6, <2>1, <2>2, <2>3, Zenon
  <2>5. jx' = jx
    BY DEF jx
  <2> QED BY <1>2, <2>4, <2>5, Zenon DEF IndexAt
<1>8. jx'[1] = (timer_jiffies' % TVR_SIZE) /\ jx' = jx
  <2>1. jx' = jx
    BY DEF jx
  <2> QED BY <1>2, <1>4, <1>6, <2>1, Zenon
<1>9. Indexes(jx, 1)'
  BY <1>6, <1>7, <1>8, Zenon DEF Indexes
<1> QED BY <1>2, <1>9, Zenon DEF jx, Now

\* The next jiffy: every timer is one nearer and still where it has to be.
LEMMA NextJiffyInv == Inv /\ NextJiffy => Inv'
<1> SUFFICES ASSUME Inv, NextJiffy PROVE Inv'
  OBVIOUS
<1> DEFINE D == Minus(jiffies, timer_jiffies)
<1>1. /\ jiffies' = jiffies /\ timer_jiffies' = ((timer_jiffies + 1) % Word)
      /\ pc = "loop" /\ pc' = "test" /\ at' = at
      /\ index' = [index EXCEPT ![1] = (@ + 1) % TVR_SIZE]
      /\ expires' = expires /\ past' = past
  BY DEF NextJiffy
<1>2. Done = 5 /\ Done' = 1
  BY <1>1 DEF Done
<1>3. /\ Now /\ expires \in [Timers -> 0..(Word-1)] /\ Clock /\ Indexes(index, 5)
      /\ at \in [Timers -> Places] /\ timer_jiffies \in 0..(Word-1) /\ jiffies \in 0..(Word-1)
      /\ past \subseteq Timers /\ D \in 0..MaxLag
  BY <1>1, <1>2 DEF Inv, Expiries, Wheel, Now, Clock
<1>4. Indexes(index, 1)' /\ Now'
  BY <1>1, <1>3, IndexNext, Zenon
<1>5. ASSUME NEW t \in Timers PROVE Where(at[t], index, 1, t)'
  <2> DEFINE e == expires[t]
             a == at[t]
  <2>1. Where(a, index, 5, t) /\ t \notin past'
    BY <1>1, NoneLeft
  <2>2. e' = e /\ a' = a /\ e \in 0..(Word-1)
    BY <1>1, <1>3
  <2>3. Off(a, e) \/ Placed(a, 5, e)
    BY <1>1, <2>1, Zenon DEF Where
  <2>4. ASSUME Placed(a, 5, e) PROVE Placed(a, 1, e)'
    <3>1. PICK n \in Levels : PlacedAt(a, n, 5, e)
      BY <2>4, Zenon DEF Placed
    <3>2. (e % Unit(n)) < Ahead(e) /\ Ahead(e)' = Ahead(e) - 1
      BY <3>1, NoneLeft
    <3>3. a = <<n, ListOf(n, e)>> /\ Ahead(e) < Span(n)
      BY <3>1, Zenon DEF PlacedAt
    <3>4. (e % Unit(n)) \in Int /\ Ahead(e) \in Nat /\ Span(n) \in Nat /\ e \in Int /\ Unit(n) \in Nat \ {0}
      <4>1. e \in Int /\ Unit(n) \in Nat \ {0} /\ Span(n) \in Nat
        BY <2>2, Units
      <4> HIDE DEF e
      <4>2. (e % Unit(n)) \in 0..(Unit(n)-1)
        BY <4>1, DivMod, Zenon
      <4>3. Ahead(e) \in Nat
        BY <1>3, <2>2, AheadWord, Zenon
      <4> QED BY <4>1, <4>2, <4>3
    <3> HIDE DEF e, a
    <3> DEFINE x == Ahead(e)
               y == Ahead(e)'
               z == e % Unit(n)
               s == Span(n)
    <3>5. x \in Nat /\ z \in Int /\ s \in Nat /\ z < x /\ y = x - 1 /\ x < s
      BY <3>2, <3>3, <3>4
    <3> HIDE DEF x, y, z, s
    <3>6. z <= y /\ y < s
      BY <3>5
    <3>7. (e % Unit(n)) <= Ahead(e)' /\ Ahead(e)' < Span(n)
      BY <3>6, Zenon DEF y, z, s
    <3>8. ~(n \in 2..1)
      OBVIOUS
    <3>9. PlacedAt(a, n, 1, e)'
      BY <2>2, <3>3, <3>7, <3>8, Zenon DEF PlacedAt
    <3> QED BY <3>9, Zenon DEF Placed
  <2>5. Off(a, e)' \/ Placed(a, 1, e)'
    BY <2>2, <2>3, <2>4, Zenon DEF Off
  <2> QED BY <2>1, <2>5, Zenon DEF Where
<1>6. Wheel([at |-> at, index |-> index], Done)'
  BY <1>1, <1>2, <1>3, <1>4, <1>5 DEF Wheel
<1>7. Clock'
  <2>1. D' = Minus(jiffies, (timer_jiffies + 1) % Word)
    BY <1>1, Zenon DEF Minus
  <2>2. D' \in 0..MaxLag \cup {Word - 1}
    <3>1. CASE D = 0
      BY <1>3, <2>1, <3>1, OneBehind
    <3>2. CASE D # 0
      <4>1. D' = D - 1
        BY <1>3, <2>1, <3>2, OneNearer, Zenon
      <4> HIDE DEF D
      <4> QED BY <1>3, <3>2, <4>1, Bounds
    <3> QED BY <3>1, <3>2
  <2> QED BY <1>1, <1>3, <2>2 DEF Clock
<1>8. Expiries'
  BY <1>1, <1>3, <1>4 DEF Expiries
<1> QED BY <1>1, <1>3, <1>6, <1>7, <1>8, Zenon DEF Inv

\* Steps outside the actions change nothing.
LEMMA StutterInv == Inv /\ UNCHANGED vars => Inv'
<1> SUFFICES ASSUME Inv, UNCHANGED vars PROVE Inv'
  OBVIOUS
<1>1. /\ jiffies' = jiffies /\ timer_jiffies' = timer_jiffies /\ pc' = pc
      /\ at' = at /\ index' = index /\ expires' = expires /\ past' = past
  BY DEF vars
<1>2. Done' = Done
  BY <1>1 DEF Done
<1>3. Wheel([at |-> at, index |-> index], Done)' /\ Expiries'
  BY <1>1, <1>2, StandStill
<1>4. Clock'
  BY <1>1 DEF Clock, Inv
<1> QED BY <1>1, <1>3, <1>4, Zenon DEF Inv

\* Every step preserves the invariant.
LEMMA NextInv == Inv /\ [Next]_vars => Inv'
<1> SUFFICES ASSUME Inv, [Next]_vars PROVE Inv'
  OBVIOUS
<1>1. CASE Tick
  BY <1>1, TickInv
<1>2. CASE Enter
  BY <1>2, EnterInv
<1>3. CASE FunctionReturns
  BY <1>3, ReturnInv
<1>4. CASE NextJiffy
  BY <1>4, NextJiffyInv
<1>5. CASE Leave
  BY <1>5, LeaveInv
<1>6. ASSUME NEW t \in Timers, NEW d \in 0..MaxDelay, add_timer(t, d) PROVE Inv'
  BY <1>6, AddInv
<1>7. ASSUME NEW t \in Timers, del_timer(t) PROVE Inv'
  BY <1>7, DeleteInv
<1>8. ASSUME NEW t \in Timers, RunTimer(t) PROVE Inv'
  BY <1>8, RunInv
<1>9. CASE UNCHANGED vars
  BY <1>9, StutterInv
<1> QED BY <1>1, <1>2, <1>3, <1>4, <1>5, <1>6, <1>7, <1>8, <1>9 DEF Next

\* The invariant of the wheel.
THEOREM Invariance == Spec => []Inv
<1> QED BY InitInv, NextInv, PTL DEF Spec

\* The types are part of the invariant; the index above the first vector is the
\* quotient of timer_jiffies rounded up, or one more in a jiffy that has been
\* cascaded.
LEMMA InvTypes == Inv => TypeOK
<1> SUFFICES ASSUME Inv PROVE TypeOK
  OBVIOUS
<1>1. /\ jiffies \in 0..Word-1 /\ timer_jiffies \in 0..Word-1
      /\ Minus(jiffies, timer_jiffies) \in 0..MaxLag \cup {Word - 1}
      /\ expires \in [Timers -> 0..Word-1] /\ pc \in {"idle", "test", "loop", "fn"}
      /\ index \in [Levels -> Nat] /\ index[1] = (timer_jiffies % TVR_SIZE)
      /\ at \in [Timers -> Places] /\ timer_jiffies \in Nat
  BY Bounds DEF Inv, Clock, Expiries, Now, Wheel, Indexes
<1>2. at \in [Timers -> {NoList, Self, Dropped} \cup UNION {{n} \X (0..Size(n)-1) : n \in Levels}]
  <2>1. Places \subseteq {NoList, Self, Dropped} \cup UNION {{n} \X (0..Size(n)-1) : n \in Levels}
    BY Zenon DEF Places
  <2> QED BY <1>1, <2>1
<1>3. past \subseteq {t \in Timers : Pending(t)}
  <2>1. ASSUME NEW t \in past PROVE t \in Timers /\ at[t] # NoList
    <3>1. t \in Timers /\ Where(at[t], index, Done, t)
      BY DEF Inv, Wheel
    <3> QED BY <3>1 DEF Where, NoList
  <2> QED BY <2>1 DEF Pending
<1>4. ASSUME NEW n \in 2..5
      PROVE  LET full == (timer_jiffies + Reach(n - 1) - 1) \div Reach(n - 1)
                 begun == timer_jiffies % Reach(n - 1) = 0 /\ pc \in {"loop", "fn"}
             IN index[n] = (IF begun THEN full + 1 ELSE full) % TVN_SIZE
  <2> DEFINE u == Reach(n - 1)
             full == (timer_jiffies + u - 1) \div u
  <2>1. u = Unit(n) /\ u \in Nat \ {0}
    <3>1. n \in Levels /\ n # 1
      BY DEF Levels
    <3> QED BY <3>1, Units DEF Unit
  <2>2. IndexAt(index, n, Done)
    BY DEF Inv, Wheel, Indexes
  <2>3. full = (IF (timer_jiffies % u) = 0 THEN timer_jiffies \div u ELSE (timer_jiffies \div u) + 1)
    BY <1>1, <2>1, RoundUp
  <2>4. n > Done <=> ~(pc \in {"loop", "fn"})
    BY DEF Done
  <2> QED BY <2>1, <2>2, <2>3, <2>4 DEF IndexAt
<1> QED BY <1>1, <1>2, <1>3, <1>4 DEF TypeOK

\* The words are words, the clock stays within its bounds of the timers, and the
\* indexes of the vectors are the digits of timer_jiffies: what run_timer_list's
\* "do ... while (tvecs[n]->index == 1 ...)" relies on.
THEOREM TypeCorrect == Spec => []TypeOK
<1> QED BY Invariance, InvTypes, PTL

----------------------------------------------------------------------------
(* The wheel is a set of timers.                                            *)

due == [t \in Timers |-> Due(t)]

\* A timer in a list is due in some jiffy from now on, and no other is.
LEMMA DueNat ==
    ASSUME Inv, NEW t \in Timers
    PROVE  /\ due[t] = Due(t)
           /\ Off(at[t], expires[t]) => Due(t) = NotPending
           /\ ~Off(at[t], expires[t])
                => Due(t) = IF t \in past THEN 0 ELSE Ahead(expires[t])
           /\ Due(t) # NotPending => Due(t) \in Nat
           /\ Due(t) # NotPending <=> ~Off(at[t], expires[t])
<1>1. Now /\ expires[t] \in 0..(Word-1)
  BY DEF Inv, Expiries
<1>2. Ahead(expires[t]) \in Nat
  BY <1>1, AheadWord
<1>3. ~Off(at[t], expires[t]) => Due(t) = IF t \in past THEN 0 ELSE Ahead(expires[t])
  BY Zenon DEF Due, Ahead, Off, Pending, Lost
<1>4. Off(at[t], expires[t]) => Due(t) = NotPending
  BY Zenon DEF Due, Off, Pending, Lost
<1>5. NotPending \notin Nat
  BY DEF NotPending
<1>6. ~Off(at[t], expires[t]) => Due(t) \in Nat
  BY <1>2, <1>3
<1> QED BY <1>3, <1>4, <1>5, <1>6 DEF due

\* A step that changes only what one timer is due for.
LEMMA OneDue ==
    ASSUME NEW t \in Timers, timer_jiffies' = timer_jiffies,
           \A u \in Timers : u # t => /\ at'[u] = at[u] /\ expires'[u] = expires[u]
                                      /\ (u \in past' <=> u \in past)
    PROVE  due' = [due EXCEPT ![t] = Due(t)']
<1>1. due' = [u \in Timers |-> Due(u)']
  BY DEF due
<1>2. ASSUME NEW u \in Timers, u # t PROVE Due(u)' = Due(u)
  <2>1. at'[u] = at[u] /\ expires'[u] = expires[u] /\ (u \in past' <=> u \in past)
    BY <1>2
  <2> QED BY <2>1, Zenon DEF Due, Pending, Lost, Minus
<1> QED BY <1>1, <1>2 DEF due

\* A step that changes nothing a timer is due by.
LEMMA SameDue ==
    ASSUME timer_jiffies' = timer_jiffies, expires' = expires, past' = past,
           \A u \in Timers : Off(at'[u], expires[u]) <=> Off(at[u], expires[u])
    PROVE  due' = due
<1>1. ASSUME NEW u \in Timers PROVE Due(u)' = Due(u)
  <2>1. Due(u) = IF Off(at[u], expires[u]) THEN NotPending
                 ELSE IF u \in past THEN 0 ELSE Minus(expires[u], timer_jiffies)
    BY Zenon DEF Due, Off, Pending, Lost
  <2>2. Due(u)' = IF Off(at'[u], expires[u]) THEN NotPending
                  ELSE IF u \in past THEN 0 ELSE Minus(expires[u], timer_jiffies)
    BY Zenon DEF Due, Off, Pending, Lost, Minus
  <2>3. Off(at'[u], expires[u]) <=> Off(at[u], expires[u])
    OBVIOUS
  <2>4. CASE Off(at[u], expires[u])
    BY <2>1, <2>2, <2>3, <2>4, Zenon
  <2>5. CASE ~Off(at[u], expires[u])
    BY <2>1, <2>2, <2>3, <2>5
  <2> QED BY <2>4, <2>5
<1> QED BY <1>1, Zenon DEF due

\* The abstract actions, of the timers' due jiffies.
LEMMA AbstractSteps ==
    /\ \A t \in Timers : due[t] = NotPending /\ due'[t] \in Nat
            /\ due' = [due EXCEPT ![t] = due'[t]] => Abstract!Next
    /\ \A t \in Timers : due[t] # NotPending /\ due' = [due EXCEPT ![t] = NotPending]
            => Abstract!Next
    /\ (\A t \in Timers : due[t] # 0)
            /\ due' = [t \in Timers |-> IF due[t] # NotPending THEN due[t] - 1 ELSE NotPending]
            => Abstract!Next
<1>1. ASSUME NEW t \in Timers, due[t] = NotPending, due'[t] \in Nat, due' = [due EXCEPT ![t] = due'[t]]
      PROVE  Abstract!Next
  <2>1. Abstract!Set(t)
    BY <1>1 DEF Abstract!Set, Abstract!Pending, due
  <2> QED BY <2>1 DEF Abstract!Next
<1>2. ASSUME NEW t \in Timers, due[t] # NotPending, due' = [due EXCEPT ![t] = NotPending]
      PROVE  Abstract!Next
  <2>1. Abstract!Delete(t)
    BY <1>2 DEF Abstract!Delete, Abstract!Pending, due
  <2> QED BY <2>1 DEF Abstract!Next
<1>3. ASSUME \A t \in Timers : due[t] # 0,
             due' = [t \in Timers |-> IF due[t] # NotPending THEN due[t] - 1 ELSE NotPending]
      PROVE  Abstract!Next
  <2>1. Abstract!Advance
    BY <1>3 DEF Abstract!Advance, Abstract!Pending, due
  <2> QED BY <2>1 DEF Abstract!Next
<1> QED BY <1>1, <1>2, <1>3

\* detach_timer takes a timer out of the set.
LEMMA TakenOff ==
    ASSUME Inv, NEW t \in Timers, detach_timer(t), timer_jiffies' = timer_jiffies
    PROVE  due' = [due EXCEPT ![t] = NotPending]
<1>1. /\ at' = [at EXCEPT ![t] = NoList] /\ expires' = [expires EXCEPT ![t] = 0]
      /\ past' = past \ {t}
      /\ at \in [Timers -> Places] /\ expires \in [Timers -> 0..(Word-1)]
  BY DEF detach_timer, Inv, Wheel, Expiries
<1>2. at'[t] = NoList
  BY <1>1
<1>3. Due(t)' = NotPending
  BY <1>2 DEF Due, Pending
<1>4. \A u \in Timers : u # t => /\ at'[u] = at[u] /\ expires'[u] = expires[u]
                                 /\ (u \in past' <=> u \in past)
  BY <1>1
<1>5. due' = [due EXCEPT ![t] = Due(t)']
  BY <1>4, OneDue
<1> QED BY <1>3, <1>5

\* A timer of the list that is run is due now.
LEMMA RunsDue ==
    ASSUME Inv, NEW t \in Timers, at[t] = <<1, index[1]>>
    PROVE  Due(t) = 0
<1> DEFINE e == expires[t]
<1>1. ~Off(at[t], e)
  BY ListNotOff DEF Levels
<1>2. CASE t \in past
  BY <1>1, <1>2, DueNat
<1>3. CASE t \notin past
  <2>1. /\ Where(at[t], index, Done, t) /\ index[1] = ListOf(1, timer_jiffies)
        /\ e \in 0..(Word-1) /\ timer_jiffies \in 0..(Word-1)
    BY DEF Inv, Wheel, Indexes, Expiries, Now, ListOf
  <2> HIDE DEF e
  <2>2. PICK n \in Levels : PlacedAt(at[t], n, Done, e)
    BY <1>1, <1>3, <2>1, Zenon DEF Where, Placed, e
  <2>3. <<n, ListOf(n, e)>> = <<1, ListOf(1, timer_jiffies)>> /\ Ahead(e) < Span(n)
    BY <2>1, <2>2 DEF PlacedAt
  <2>4. n = 1 /\ ListOf(n, e) = ListOf(1, timer_jiffies)
    BY <2>3
  <2>5. timer_jiffies = 1 * timer_jiffies + 0 /\ e = 1 * e + 0 /\ 0 \in 0..(1-1)
        /\ timer_jiffies \in Int /\ e \in Int
    BY <2>1, Bounds
  <2>6. (timer_jiffies % 1) = 0 /\ (e % 1) = 0
    BY <2>5, DivUnique
  <2>7. (timer_jiffies % Unit(n)) = 0 /\ (e % Unit(n)) = 0
    BY <2>4, <2>6 DEF Unit
  <2>8. ListOf(n, e) = ListOf(n, timer_jiffies) /\ Minus(e, timer_jiffies) < Span(n)
    BY <2>3, <2>4, Zenon DEF Ahead
  <2>9. Minus(e, timer_jiffies) = 0
    BY <2>1, <2>7, <2>8, ListReached, Zenon
  <2> QED BY <1>1, <1>3, <2>9, DueNat DEF Ahead, e
<1> QED BY <1>1, <1>2, <1>3

\* A timer that runs is due and is taken off.
LEMMA RunStep ==
    ASSUME Inv, NEW t \in Timers, RunTimer(t)
    PROVE  Abstract!Run(t) /\ due' = [due EXCEPT ![t] = NotPending] /\ due[t] # NotPending
<1>1. at[t] = <<1, index[1]>> /\ detach_timer(t) /\ timer_jiffies' = timer_jiffies
  BY DEF RunTimer
<1>2. Due(t) = 0
  BY <1>1, RunsDue
<1>3. due' = [due EXCEPT ![t] = NotPending]
  BY <1>1, TakenOff
<1>4. due[t] = 0
  BY <1>2 DEF due
<1>5. Abstract!Run(t)
  BY <1>3, <1>4 DEF Abstract!Run, due
<1> QED BY <1>3, <1>4, <1>5 DEF NotPending

\* The next jiffy leaves nothing due behind.
LEMMA AdvanceStep ==
    ASSUME Inv, NextJiffy
    PROVE  Abstract!Next
<1>1. at' = at /\ expires' = expires /\ past' = {} /\ past = {}
  BY NoneLeft DEF NextJiffy
<1>2. ASSUME NEW t \in Timers
      PROVE  /\ due[t] # 0
             /\ Due(t)' = IF due[t] # NotPending THEN due[t] - 1 ELSE NotPending
  <2> DEFINE e == expires[t]
             off == Off(at[t], e)
  <2>1. due[t] = Due(t) /\ (Due(t) # NotPending <=> ~off) /\ e' = e /\ (off' <=> off)
    BY <1>1, DueNat, Zenon DEF Off
  <2>2. CASE off
    <3>1. Due(t) = NotPending /\ Due(t)' = NotPending
      BY <2>1, <2>2, Zenon DEF Due, Off, Pending, Lost
    <3> QED BY <2>1, <3>1 DEF NotPending
  <2>3. CASE ~off
    <3>1. Where(at[t], index, 5, t)
      BY <1>1, NoneLeft
    <3>2. PICK n \in Levels : PlacedAt(at[t], n, 5, e)
      BY <1>1, <2>3, <3>1, Zenon DEF Where, Placed
    <3>3. (e % Unit(n)) < Ahead(e) /\ Ahead(e)' = Ahead(e) - 1
      BY <3>2, NoneLeft
    <3>4. Due(t) = Ahead(e) /\ Due(t)' = Ahead(e)'
      BY <1>1, <2>1, <2>3, Zenon DEF Due, Ahead, Off, Pending, Lost
    <3>5. Ahead(e) # 0
      <4>1. e \in 0..(Word-1) /\ Now /\ Unit(n) \in Nat \ {0} /\ e \in Int
        BY Units DEF Inv, Expiries
      <4> HIDE DEF e
      <4>2. (e % Unit(n)) \in 0..(Unit(n)-1) /\ Ahead(e) \in Nat
        BY <4>1, DivMod, AheadWord, Zenon
      <4> QED BY <3>3, <4>1, <4>2
    <3> QED BY <2>1, <2>3, <3>3, <3>4, <3>5, Zenon
  <2> QED BY <2>2, <2>3
<1>3. due' = [t \in Timers |-> Due(t)']
  BY DEF due
<1>4. due' = [t \in Timers |-> IF due[t] # NotPending THEN due[t] - 1 ELSE NotPending]
  BY <1>2, <1>3
<1> QED BY <1>2, <1>4, AbstractSteps

\* Every step of the wheel is a step of the set of timers, or leaves it alone.
LEMMA StepRefines ==
    ASSUME Inv, [Next]_vars
    PROVE  Abstract!Next \/ due' = due
<1>1. CASE Tick
  <2>1. timer_jiffies' = timer_jiffies /\ at' = at /\ expires' = expires /\ past' = past
    BY <1>1 DEF Tick
  <2> QED BY <2>1, SameDue
<1>2. CASE Enter
  <2> DEFINE w == [at |-> at, index |-> index]
  <2>1. /\ timer_jiffies' = timer_jiffies /\ at' = cascade(w).at /\ expires' = expires /\ past' = past
    BY <1>2 DEF Enter
  <2>2. Wheel(cascade(w), 5)
    <3>1. Wheel(w, 1) /\ Expiries
      BY <1>2 DEF Inv, Done, Enter
    <3> QED BY <3>1, CascadeAll
  <2>3. \A u \in Timers : Off(at'[u], expires[u]) <=> Off(at[u], expires[u])
    BY <2>1, <2>2, Zenon DEF Wheel
  <2> QED BY <2>1, <2>3, SameDue
<1>3. CASE FunctionReturns
  <2>1. timer_jiffies' = timer_jiffies /\ at' = at /\ expires' = expires /\ past' = past
    BY <1>3 DEF FunctionReturns
  <2> QED BY <2>1, SameDue
<1>4. CASE NextJiffy
  BY <1>4, AdvanceStep
<1>5. CASE Leave
  <2>1. timer_jiffies' = timer_jiffies /\ at' = at /\ expires' = expires /\ past' = past
    BY <1>5 DEF Leave
  <2> QED BY <2>1, SameDue
<1>6. ASSUME NEW t \in Timers, NEW d \in 0..MaxDelay, add_timer(t, d)
      PROVE  Abstract!Next \/ due' = due
  <2> DEFINE e == (jiffies + d) % Word
             a == internal_add_timer(e)
  <2>1. /\ timer_jiffies' = timer_jiffies /\ at' = [at EXCEPT ![t] = a] /\ ~Pending(t)
        /\ expires' = [expires EXCEPT ![t] = e] /\ (past' = past \/ past' = past \cup {t})
    BY <1>6 DEF add_timer
  <2>2. /\ at \in [Timers -> Places] /\ expires \in [Timers -> 0..(Word-1)] /\ Now
        /\ jiffies \in 0..(Word-1)
    BY DEF Inv, Wheel, Expiries, Clock
  <2>3. e \in 0..(Word-1)
    <3>1. jiffies + d \in Int /\ Word \in Nat \ {0}
      BY <2>2, Bounds
    <3> QED BY <3>1, DivMod, Zenon
  <2> HIDE DEF a, e
  <2>5. \A u \in Timers : u # t => /\ at'[u] = at[u] /\ expires'[u] = expires[u]
                                   /\ (u \in past' <=> u \in past)
    BY <2>1, <2>2
  <2>6. due' = [due EXCEPT ![t] = Due(t)']
    BY <2>1, <2>5, OneDue
  <2>7. Inv'
    BY <1>6, AddInv
  <2>8. due' = [u \in Timers |-> Due(u)'] /\ due = [u \in Timers |-> Due(u)]
    BY DEF due
  <2>9. due'[t] = Due(t)'
    BY <2>8
  <2>10. due[t] = NotPending
    BY <2>1, DueNat DEF Pending, Off
  <2>11. due'[t] = NotPending \/ due'[t] \in Nat
    <3>1. expires'[t] = e
      BY <2>1, <2>2
    <3>2. Ahead(e) \in Nat
      BY <2>2, <2>3, AheadWord
    <3>3. Due(t)' = NotPending \/ Due(t)' = 0 \/ Due(t)' = Ahead(e)
      BY <2>1, <3>1, Zenon DEF Due, Minus, Ahead
    <3> QED BY <2>9, <3>2, <3>3
  <2>12. CASE due'[t] = NotPending
    BY <2>6, <2>8, <2>9, <2>10, <2>12
  <2>13. CASE due'[t] \in Nat
    BY <2>6, <2>9, <2>10, <2>13, AbstractSteps
  <2> QED BY <2>11, <2>12, <2>13
<1>7. ASSUME NEW t \in Timers, del_timer(t) PROVE Abstract!Next \/ due' = due
  <2>1. detach_timer(t) /\ timer_jiffies' = timer_jiffies
    BY <1>7 DEF del_timer
  <2>2. due' = [due EXCEPT ![t] = NotPending]
    BY <2>1, TakenOff
  <2>3. CASE due[t] = NotPending
    <3>1. due = [u \in Timers |-> Due(u)]
      BY DEF due
    <3> QED BY <2>2, <2>3, <3>1
  <2>4. CASE due[t] # NotPending
    BY <2>2, <2>4, AbstractSteps
  <2> QED BY <2>3, <2>4
<1>8. ASSUME NEW t \in Timers, RunTimer(t) PROVE Abstract!Next
  BY <1>8, RunStep, AbstractSteps
<1>9. CASE UNCHANGED vars
  <2>1. timer_jiffies' = timer_jiffies /\ at' = at /\ expires' = expires /\ past' = past
    BY <1>9 DEF vars
  <2> QED BY <2>1, SameDue
<1> QED BY <1>1, <1>2, <1>3, <1>4, <1>5, <1>6, <1>7, <1>8, <1>9 DEF Next

\* No timer is set at first.
LEMMA InitRefines == Init => Abstract!Init
<1> SUFFICES ASSUME Init PROVE Abstract!Init
  OBVIOUS
<1>1. \A t \in Timers : Due(t) = NotPending
  BY DEF Init, Due, Pending
<1> QED BY <1>1 DEF Abstract!Init

\* The wheel implements the set of timers, for vectors of every size: through all
\* cascades each timer runs in the jiffy it was set for, and in no other, and none
\* is dropped.  At the wrap of jiffies two kinds of timers are excepted: one set
\* with expires == jiffies in the jiffy before it may be linked to itself and lost
\* (Lost), and one set Far or more ahead, past the wrap, is taken for past and
\* runs at once.
THEOREM WheelCorrect == Spec => WheelIsTimerSet
<1>1. Inv /\ [Next]_vars => [Abstract!Next]_([t \in Timers |-> Due(t)])
  BY StepRefines DEF due
<1>2. Inv /\ [Next]_vars => [\A t \in Timers : RunTimer(t) => Abstract!Run(t)]_vars
  BY RunStep
<1>3. Spec => Abstract!Spec
  BY <1>1, InitRefines, Invariance, PTL DEF Spec, Abstract!Spec
<1>4. Spec => [][\A t \in Timers : RunTimer(t) => Abstract!Run(t)]_vars
  BY <1>2, Invariance, PTL DEF Spec
<1> QED BY <1>3, <1>4 DEF WheelIsTimerSet

=============================================================================
