---------------------------- MODULE Powers_proofs ----------------------------
(***************************************************************************)
(* Induction and recursion over the natural numbers, in a form that names  *)
(* no operator: the property is a set, the recursion step is a function.   *)
(* With them, what is known of powers and of division by them.             *)
(***************************************************************************)
EXTENDS Powers, TLAPS, WellFoundedInduction

(***************************************************************************)
(* Induction and recursion.                                                *)
(***************************************************************************)

LEMMA NatSetInduction ==
    ASSUME NEW S, 0 \in S, \A n \in Nat : n \in S => n + 1 \in S
    PROVE  \A n \in Nat : n \in S
<1> SUFFICES ASSUME Nat \ S # {} PROVE FALSE
  OBVIOUS
<1>1. \E n \in Nat \ S : \A m \in Nat \ S : ~(m < n)
  <2>1. \E n \in Nat \ S : \A m \in Nat \ S : ~(<<m, n>> \in OpToRel(<, Nat))
    BY NatLessThanWellFounded, WFMin
  <2> QED
    BY <2>1 DEF OpToRel
<1>2. PICK n \in Nat \ S : \A m \in Nat \ S : ~(m < n)
  BY <1>1
<1>3. n # 0 /\ n - 1 \in Nat /\ n - 1 < n
  BY <1>2
<1>4. n - 1 \in S
  BY <1>2, <1>3
<1>5. (n - 1) + 1 \in S
  BY <1>3, <1>4
<1> QED
  BY <1>2, <1>5

(* The same up to a bound.                                                 *)
LEMMA IntervalInduction ==
    ASSUME NEW N \in Nat, NEW S, 0 \in S,
           \A n \in 0..(N - 1) : n \in S => n + 1 \in S
    PROVE  \A n \in 0..N : n \in S
<1> DEFINE T == {n \in Nat : n <= N => n \in S}
<1>1. 0 \in T
  OBVIOUS
<1>2. ASSUME NEW n \in Nat, n \in T PROVE n + 1 \in T
  BY <1>2
<1> HIDE DEF T
<1>3. \A n \in Nat : n \in T
  BY <1>1, <1>2, NatSetInduction
<1> QED
  BY <1>3 DEF T

(* The values that come of base by one step after the other.               *)
Iterates(f, V, base, step) ==
    /\ f \in [Nat -> V]
    /\ f[0] = base
    /\ \A n \in Nat : f[n + 1] = step[n][f[n]]

LEMMA Recursion ==
    ASSUME NEW V, NEW base \in V, NEW step \in [Nat -> [V -> V]]
    PROVE  \E f : Iterates(f, V, base, step)
<1> DEFINE Good(n, f) ==
              /\ f \in [0..n -> V]
              /\ f[0] = base
              /\ \A k \in 0..(n - 1) : f[k + 1] = step[k][f[k]]
           Some(n) == \E f : Good(n, f)
<1>1. \A n \in Nat : Some(n)
  <2> DEFINE S == {n \in Nat : Some(n)}
  <2>1. 0 \in S
    <3> DEFINE f == [k \in 0..0 |-> base]
    <3>1. Good(0, f)
      OBVIOUS
    <3> HIDE DEF Good, f
    <3> QED
      BY <3>1
  <2>2. ASSUME NEW n \in Nat, n \in S PROVE n + 1 \in S
    <3>1. PICK f : Good(n, f)
      BY <2>2
    <3> DEFINE g == [k \in 0..(n + 1) |-> IF k = n + 1 THEN step[n][f[n]] ELSE f[k]]
    <3>2. g \in [0..(n + 1) -> V]
      BY <3>1
    <3>3. g[0] = base
      BY <3>1
    <3>4. \A k \in 0..n : g[k + 1] = step[k][g[k]]
      <4> TAKE k \in 0..n
      <4>1. CASE k = n
        BY <4>1
      <4>2. CASE k # n
        <5>1. k \in 0..(n - 1)
          BY <4>2
        <5> QED
          BY <3>1, <5>1
      <4> QED
        BY <4>1, <4>2
    <3> HIDE DEF g
    <3>5. Good(n + 1, g)
      BY <3>2, <3>3, <3>4
    <3> HIDE DEF Good
    <3> QED
      BY <3>5
  <2> HIDE DEF S
  <2>3. \A n \in Nat : n \in S
    BY <2>1, <2>2, NatSetInduction
  <2> QED
    BY <2>3 DEF S
<1>2. ASSUME NEW n \in Nat, NEW m \in Nat, NEW f, NEW g, Good(n, f), Good(m, g)
      PROVE  \A k \in Nat : k <= n /\ k <= m => f[k] = g[k]
  <2> DEFINE S == {k \in Nat : k <= n /\ k <= m => f[k] = g[k]}
  <2>1. 0 \in S
    BY <1>2
  <2>2. ASSUME NEW k \in Nat, k \in S PROVE k + 1 \in S
    <3> SUFFICES ASSUME k + 1 <= n, k + 1 <= m PROVE f[k + 1] = g[k + 1]
      OBVIOUS
    <3>1. k \in 0..(n - 1) /\ k \in 0..(m - 1)
      OBVIOUS
    <3>2. f[k] = g[k]
      BY <2>2
    <3> QED
      BY <1>2, <3>1, <3>2
  <2> HIDE DEF S
  <2>3. \A k \in Nat : k \in S
    BY <2>1, <2>2, NatSetInduction
  <2> QED
    BY <2>3 DEF S
<1> DEFINE chosen == [n \in Nat |-> CHOOSE f : Good(n, f)]
           h == [n \in Nat |-> chosen[n][n]]
<1>3. \A n \in Nat : Good(n, chosen[n])
  <2> HIDE DEF Good
  <2> QED
    BY <1>1
<1> HIDE DEF chosen
<1>4. h \in [Nat -> V]
  BY <1>3
<1>5. h[0] = base
  BY <1>3
<1>6. ASSUME NEW n \in Nat PROVE h[n + 1] = step[n][h[n]]
  <2>1. Good(n, chosen[n]) /\ Good(n + 1, chosen[n + 1])
    BY <1>3
  <2>2. chosen[n][n] = chosen[n + 1][n]
    <3> HIDE DEF Good
    <3> QED
      BY <1>2, <2>1
  <2>3. chosen[n + 1][n + 1] = step[n][chosen[n + 1][n]]
    <3>1. n \in 0..((n + 1) - 1)
      OBVIOUS
    <3> QED
      BY <2>1, <3>1
  <2> QED
    BY <2>2, <2>3
<1> HIDE DEF h
<1> QED
  BY <1>4, <1>5, <1>6 DEF Iterates

(***************************************************************************)
(* Powers.                                                                 *)
(***************************************************************************)

LEMMA PowerFunction ==
    ASSUME NEW b \in Nat
    PROVE  \E p \in [Nat -> Nat] :
              /\ p[0] = 1
              /\ \A n \in Nat : p[n + 1] = b * p[n]
              /\ \A n : Power(b, n) = p[n]
<1> DEFINE step == [n \in Nat |-> [v \in Nat |-> b * v]]
           Fixed(p) == p = [k \in Nat |-> IF k = 0 THEN 1 ELSE b * p[k - 1]]
           chosen == CHOOSE p : Fixed(p)
<1>1. \E p : Iterates(p, Nat, 1, step)
  <2>1. step \in [Nat -> [Nat -> Nat]] /\ 1 \in Nat
    OBVIOUS
  <2> HIDE DEF step
  <2> QED
    BY <2>1, Recursion
<1>2. PICK q \in [Nat -> Nat] : q[0] = 1 /\ \A n \in Nat : q[n + 1] = b * q[n]
  BY <1>1 DEF Iterates
<1>3. Fixed(q)
  <2>1. ASSUME NEW k \in Nat PROVE q[k] = IF k = 0 THEN 1 ELSE b * q[k - 1]
    <3>1. CASE k = 0
      BY <1>2, <3>1
    <3>2. CASE k # 0
      <4>1. k - 1 \in Nat /\ k = (k - 1) + 1
        BY <3>2
      <4> QED
        BY <1>2, <3>2, <4>1
    <3> QED
      BY <3>1, <3>2
  <2> QED
    BY <1>2, <2>1
<1>4. Fixed(chosen)
  <2> HIDE DEF Fixed
  <2> QED
    BY <1>3
<1>5. \A n : Power(b, n) = chosen[n]
  BY DEF Power
<1> HIDE DEF chosen
<1>6. chosen[0] = 1 /\ \A n \in Nat : chosen[n + 1] = b * chosen[n]
  <2>1. \A k \in Nat : chosen[k] = IF k = 0 THEN 1 ELSE b * chosen[k - 1]
    BY <1>4
  <2>2. ASSUME NEW n \in Nat PROVE chosen[n + 1] = b * chosen[n]
    <3>1. n + 1 \in Nat /\ n + 1 # 0 /\ (n + 1) - 1 = n
      OBVIOUS
    <3> QED
      BY <2>1, <3>1
  <2> QED
    BY <2>1, <2>2
<1>7. \A n \in Nat : chosen[n] = q[n]
  <2> DEFINE S == {n \in Nat : chosen[n] = q[n]}
  <2>1. 0 \in S /\ \A n \in Nat : n \in S => n + 1 \in S
    BY <1>2, <1>6
  <2> HIDE DEF S
  <2>2. \A n \in Nat : n \in S
    BY <2>1, NatSetInduction
  <2> QED
    BY <2>2 DEF S
<1>8. chosen \in [Nat -> Nat]
  <2>1. chosen = [k \in Nat |-> IF k = 0 THEN 1 ELSE b * chosen[k - 1]]
    BY <1>4
  <2> QED
    BY <1>2, <1>7, <2>1
<1> QED
  BY <1>5, <1>6, <1>8

LEMMA PowerZero ==
    ASSUME NEW b \in Nat
    PROVE  Power(b, 0) = 1
  BY PowerFunction

LEMMA PowerNext ==
    ASSUME NEW b \in Nat, NEW n \in Nat
    PROVE  Power(b, n + 1) = b * Power(b, n)
  BY PowerFunction

LEMMA PowerOne ==
    ASSUME NEW b \in Nat
    PROVE  Power(b, 1) = b
<1>1. Power(b, 0 + 1) = b * Power(b, 0)
  BY PowerNext
<1> QED
  BY <1>1, PowerZero

LEMMA PowerType ==
    ASSUME NEW b \in Nat \ {0}, NEW n \in Nat
    PROVE  Power(b, n) \in Nat \ {0}
<1> DEFINE S == {k \in Nat : Power(b, k) \in Nat \ {0}}
<1>1. 0 \in S
  BY PowerZero
<1>2. ASSUME NEW k \in Nat, k \in S PROVE k + 1 \in S
  <2>1. Power(b, k) \in Nat \ {0} /\ Power(b, k + 1) = b * Power(b, k)
    BY <1>2, PowerNext
  <2>2. \A x, y \in Nat \ {0} : x * y \in Nat \ {0}
    OBVIOUS
  <2> QED
    BY <2>1, <2>2
<1> HIDE DEF S
<1>3. \A k \in Nat : k \in S
  BY <1>1, <1>2, NatSetInduction
<1> QED
  BY <1>3 DEF S

LEMMA PowerSum ==
    ASSUME NEW b \in Nat \ {0}, NEW m \in Nat, NEW n \in Nat
    PROVE  Power(b, m + n) = Power(b, m) * Power(b, n)
<1> DEFINE S == {k \in Nat : Power(b, m + k) = Power(b, m) * Power(b, k)}
<1>1. 0 \in S
  BY PowerZero, PowerType
<1>2. ASSUME NEW k \in Nat, k \in S PROVE k + 1 \in S
  <2> DEFINE p == Power(b, m)
             q == Power(b, k)
  <2>1. Power(b, m + k) = p * q
    BY <1>2
  <2>2. Power(b, (m + k) + 1) = b * (p * q) /\ Power(b, k + 1) = b * q
    BY <2>1, PowerNext
  <2>3. p \in Nat /\ q \in Nat /\ m + (k + 1) = (m + k) + 1
    BY PowerType
  <2> HIDE DEF p, q
  <2>4. b * (p * q) = p * (b * q)
    BY <2>3
  <2> QED
    BY <2>2, <2>3, <2>4 DEF p
<1> HIDE DEF S
<1>3. \A k \in Nat : k \in S
  BY <1>1, <1>2, NatSetInduction
<1> QED
  BY <1>3 DEF S

LEMMA PowerIncreases ==
    ASSUME NEW b \in Nat \ {0}, NEW m \in Nat, NEW n \in Nat, m <= n
    PROVE  Power(b, m) <= Power(b, n)
<1>1. Power(b, m + (n - m)) = Power(b, m) * Power(b, n - m)
  BY PowerSum
<1>2. Power(b, m) \in Nat \ {0} /\ Power(b, n - m) \in Nat \ {0}
  BY PowerType
<1>3. \A x, y \in Nat \ {0} : x <= x * y
  OBVIOUS
<1> QED
  BY <1>1, <1>2, <1>3

(***************************************************************************)
(* Division.                                                               *)
(***************************************************************************)

LEMMA Division ==
    ASSUME NEW m \in Nat \ {0}, NEW x \in Int
    PROVE  /\ x \div m \in Int /\ x % m \in 0..(m - 1)
           /\ x = m * (x \div m) + (x % m)
           /\ x \in Nat => x \div m \in Nat
  OBVIOUS

LEMMA DivisionUnique ==
    ASSUME NEW m \in Nat \ {0}, NEW q \in Int, NEW r \in 0..(m - 1),
           NEW x, x = m * q + r
    PROVE  x \div m = q /\ x % m = r
  OBVIOUS

LEMMA RemainderPlus ==
    ASSUME NEW m \in Nat \ {0}, NEW x \in Int, NEW k \in Int
    PROVE  /\ (x + m * k) % m = x % m
           /\ (x + m * k) \div m = (x \div m) + k
<1> DEFINE q == x \div m
           r == x % m
<1>1. q \in Int /\ r \in 0..(m - 1) /\ x = m * q + r
  BY Division
<1> HIDE DEF q, r
<1>2. x + m * k = m * (q + k) + r
  BY <1>1
<1>3. (m * (q + k) + r) % m = r /\ (m * (q + k) + r) \div m = q + k
  BY <1>1, DivisionUnique
<1> QED
  BY <1>2, <1>3 DEF q, r

LEMMA DivisionTwice ==
    ASSUME NEW x \in Nat, NEW m \in Nat \ {0}, NEW n \in Nat \ {0}
    PROVE  (x \div m) \div n = x \div (m * n)
<1> DEFINE q == x \div m
           r == x % m
           p == q \div n
           s == q % n
<1>1. q \in Nat /\ r \in 0..(m - 1) /\ x = m * q + r
  OBVIOUS
<1>2. p \in Nat /\ s \in 0..(n - 1) /\ q = n * p + s
  <2> HIDE DEF q
  <2> QED
    BY <1>1
<1> HIDE DEF q, r, p, s
<1>3. x = (m * n) * p + (m * s + r)
  BY <1>1, <1>2
<1>4. m * s + r \in 0..(m * n - 1)
  <2>1. m * s <= m * (n - 1)
    BY <1>2
  <2> QED
    BY <1>1, <1>2, <2>1
<1>5. m * n \in Nat \ {0}
  OBVIOUS
<1>6. x \div (m * n) = p
  BY <1>2, <1>3, <1>4, <1>5, DivisionUnique
<1> QED
  BY <1>6 DEF p, q

(***************************************************************************)
(* The bits of a number.                                                   *)
(***************************************************************************)

LEMMA ZeroHasNoBit ==
    ASSUME NEW b \in Nat
    PROVE  ~HasBit(0, b)
<1>1. Power(2, b) \in Nat \ {0}
  BY PowerType
<1> HIDE DEF Power
<1>2. 0 \div Power(2, b) = 0
  BY <1>1, DivisionUnique
<1> QED
  BY <1>2 DEF HasBit

(* What is left of x without its bits from n on. *)
LEMMA RemainderNext ==
    ASSUME NEW x \in Nat, NEW n \in Nat
    PROVE  x % Power(2, n + 1)
              = (IF HasBit(x, n) THEN Power(2, n) ELSE 0) + (x % Power(2, n))
<1> DEFINE m == Power(2, n)
           q == x \div m
           r == x % m
<1>1. m \in Nat \ {0}
  BY PowerType
<1>2. Power(2, n + 1) = 2 * m
  BY PowerNext
<1>3. q \in Nat /\ r \in 0..(m - 1) /\ x = m * q + r
  <2> HIDE DEF m
  <2> QED
    BY <1>1
<1>4. HasBit(x, n) <=> q % 2 = 1
  BY DEF HasBit
<1> HIDE DEF m, q, r
<1> DEFINE p == q \div 2
           s == q % 2
<1>5. p \in Int /\ s \in {0, 1} /\ q = 2 * p + s
  BY <1>3
<1> HIDE DEF p
<1>6. x = (2 * m) * p + (m * s + r)
  <2>1. CASE s = 0
    BY <1>1, <1>3, <1>5, <2>1
  <2>2. CASE s = 1
    BY <1>1, <1>3, <1>5, <2>2
  <2> QED
    BY <1>5, <2>1, <2>2
<1>7. m * s + r \in 0..(2 * m - 1)
  <2>1. CASE s = 0
    BY <1>1, <1>3, <2>1
  <2>2. CASE s = 1
    BY <1>1, <1>3, <2>2
  <2> QED
    BY <1>5, <2>1, <2>2
<1>8. x % (2 * m) = m * s + r
  <2>1. 2 * m \in Nat \ {0}
    BY <1>1
  <2> DEFINE t == m * s + r
  <2>2. t \in 0..(2 * m - 1) /\ x = (2 * m) * p + t
    BY <1>6, <1>7
  <2> HIDE DEF t
  <2> DEFINE w == 2 * m
  <2> HIDE DEF w
  <2>3. x % w = t
    <3>1. w \in Nat \ {0} /\ t \in 0..(w - 1) /\ x = w * p + t
      BY <2>1, <2>2 DEF w
    <3> QED
      BY <1>5, <3>1
  <2> QED
    BY <2>3 DEF t, w
<1>9. m * s + r = (IF s = 1 THEN m ELSE 0) + r
  BY <1>1, <1>3, <1>5
<1> QED
  BY <1>2, <1>4, <1>8, <1>9 DEF m, r

(* A number below a power of two is known by its bits. *)
LEMMA KnownByBits ==
    ASSUME NEW n \in Nat,
           NEW x \in 0..(Power(2, n) - 1), NEW y \in 0..(Power(2, n) - 1),
           \A b \in 0..(n - 1) : HasBit(x, b) <=> HasBit(y, b)
    PROVE  x = y
<1>0. Power(2, n) \in Nat \ {0}
  BY PowerType
<1> HIDE DEF Power
<1>1. x \in Nat /\ y \in Nat
  BY <1>0
<1> DEFINE S == {k \in Nat : x % Power(2, k) = y % Power(2, k)}
<1>2. 0 \in S
  <2>1. x % 1 = 0 /\ y % 1 = 0
    BY <1>1
  <2> QED
    BY <2>1, PowerZero
<1>3. ASSUME NEW k \in 0..(n - 1), k \in S PROVE k + 1 \in S
  BY <1>1, <1>3, RemainderNext
<1> HIDE DEF S
<1>4. n \in S
  <2>1. \A k \in 0..n : k \in S
    BY <1>2, <1>3, IntervalInduction
  <2> QED
    BY <2>1
<1>5. x % Power(2, n) = x /\ y % Power(2, n) = y
  <2> DEFINE m == Power(2, n)
  <2>1. m \in Nat \ {0} /\ x \in 0..(m - 1) /\ y \in 0..(m - 1)
    BY <1>0
  <2> HIDE DEF m
  <2>2. x = m * 0 + x /\ y = m * 0 + y
    BY <2>1
  <2>3. x % m = x /\ y % m = y
    BY <2>1
  <2> QED
    BY <2>3 DEF m
<1> QED
  BY <1>4, <1>5 DEF S

(* Bit b of a number that does not have it: adding Power(2, b) sets it and *)
(* leaves the others as they are.                                          *)
LEMMA BitAdded ==
    ASSUME NEW x \in Nat, NEW b \in Nat, ~HasBit(x, b), NEW c \in Nat
    PROVE  HasBit(x + Power(2, b), c) <=> c = b \/ HasBit(x, c)
<1> DEFINE m == Power(2, b)
           y == x + m
<1>1. m \in Nat \ {0}
  BY PowerType
<1>2. y % m = x % m /\ y \div m = (x \div m) + 1
  <2> HIDE DEF m
  <2>1. x + m = x + m * 1
    BY <1>1
  <2>2. (x + m * 1) % m = x % m /\ (x + m * 1) \div m = (x \div m) + 1
    BY <1>1, RemainderPlus
  <2> QED
    BY <2>1, <2>2
<1>3. x \div m \in Nat /\ (x \div m) % 2 = 0
  <2>1. (x \div m) % 2 # 1
    BY DEF HasBit
  <2> HIDE DEF m
  <2> QED
    BY <1>1, <2>1
<1>4. CASE c = b
  <2>1. ((x \div m) + 1) % 2 = 1
    BY <1>3
  <2> QED
    BY <1>2, <1>4, <2>1 DEF HasBit
<1>5. CASE c < b
  <2> DEFINE n == Power(2, c)
             d == Power(2, b - c - 1)
  <2>1. m = n * (2 * d) /\ n \in Nat \ {0} /\ d \in Nat \ {0}
    <3>1. Power(2, c + (b - c)) = Power(2, c) * Power(2, b - c)
      BY <1>5, PowerSum
    <3>2. Power(2, (b - c - 1) + 1) = 2 * Power(2, b - c - 1)
      BY <1>5, PowerNext
    <3>3. c + (b - c) = b /\ (b - c - 1) + 1 = b - c
      OBVIOUS
    <3>4. n \in Nat \ {0} /\ d \in Nat \ {0}
      BY <1>5, PowerType
    <3> HIDE DEF Power
    <3> QED
      BY <3>1, <3>2, <3>3, <3>4
  <2>2. HasBit(x, c) <=> (x \div n) % 2 = 1
    BY DEF HasBit
  <2>3. HasBit(y, c) <=> (y \div n) % 2 = 1
    BY DEF HasBit
  <2> HIDE DEF n, d, m, y
  <2>4. y = x + n * (2 * d)
    BY <2>1 DEF y
  <2>5. 2 * d \in Int
    BY <2>1
  <2>6. y \div n = (x \div n) + 2 * d
    BY <2>1, <2>4, <2>5, RemainderPlus
  <2>7. x \div n \in Int
    BY <2>1, Division
  <2> DEFINE q == x \div n
  <2>8. (q + 2 * d) % 2 = q % 2
    <3> HIDE DEF q
    <3>1. q \in Int
      BY <2>7 DEF q
    <3> QED
      BY <2>1, <3>1
  <2> QED
    BY <1>5, <2>2, <2>3, <2>6, <2>8 DEF y, m
<1>6. CASE c > b
  <2> DEFINE d == Power(2, c - b - 1)
  <2>1. Power(2, c) = m * (2 * d) /\ d \in Nat \ {0}
    <3>1. Power(2, b + (c - b)) = Power(2, b) * Power(2, c - b)
      BY <1>6, PowerSum
    <3>2. Power(2, (c - b - 1) + 1) = 2 * Power(2, c - b - 1)
      BY <1>6, PowerNext
    <3>3. b + (c - b) = c /\ (c - b - 1) + 1 = c - b
      OBVIOUS
    <3>4. d \in Nat \ {0}
      BY <1>6, PowerType
    <3> HIDE DEF Power
    <3> QED
      BY <3>1, <3>2, <3>3, <3>4
  <2> HIDE DEF m, d
  <2>2. y \in Nat
    BY <1>1
  <2>3. x \div (m * (2 * d)) = (x \div m) \div (2 * d)
        /\ y \div (m * (2 * d)) = (y \div m) \div (2 * d)
    <3>1. 2 * d \in Nat \ {0}
      BY <2>1
    <3> QED
      BY <1>1, <2>2, <3>1, DivisionTwice
  <2> DEFINE q == x \div m
  <2>4. q \in Nat /\ q % 2 = 0
    BY <1>3
  <2> HIDE DEF q
  <2>5. (q + 1) \div (2 * d) = q \div (2 * d)
    <3>1. (q + 1) \div 2 = q \div 2
      BY <2>4
    <3>2. \A z \in Nat : (z \div 2) \div d = z \div (2 * d)
      BY <2>1, DivisionTwice
    <3>3. (q + 1) \div (2 * d) = ((q + 1) \div 2) \div d
          /\ q \div (2 * d) = (q \div 2) \div d
      BY <2>4, <3>2
    <3> QED
      BY <3>1, <3>3
  <2>6. y \div (m * (2 * d)) = x \div (m * (2 * d))
    BY <1>2, <2>3, <2>5 DEF q
  <2> QED
    BY <1>6, <2>1, <2>6 DEF HasBit, y, m
<1> QED
  BY <1>4, <1>5, <1>6 DEF y, m

(* It stays below the power of two that x was below. *)
LEMMA BitFits ==
    ASSUME NEW n \in Nat, NEW b \in 0..(n - 1),
           NEW x \in 0..(Power(2, n) - 1), ~HasBit(x, b)
    PROVE  x + Power(2, b) \in 0..(Power(2, n) - 1)
<1> DEFINE m == Power(2, b)
           d == Power(2, n - b - 1)
           q == x \div m
           r == x % m
           p == q \div 2
<1>1. m \in Nat \ {0} /\ d \in Nat \ {0} /\ Power(2, n) \in Nat \ {0}
  BY PowerType
<1>2. Power(2, n) = m * (2 * d)
  <2>1. Power(2, b + (n - b)) = Power(2, b) * Power(2, n - b)
    BY PowerSum
  <2>2. Power(2, (n - b - 1) + 1) = 2 * Power(2, n - b - 1)
    BY PowerNext
  <2>3. b + (n - b) = n /\ (n - b - 1) + 1 = n - b
    OBVIOUS
  <2> HIDE DEF Power
  <2> QED
    BY <2>1, <2>2, <2>3
<1>3. q % 2 # 1
  BY DEF HasBit
<1> HIDE DEF Power
<1>4. x \in Nat
  BY <1>1
<1> HIDE DEF m, d
<1>5. q \in Nat /\ r \in 0..(m - 1) /\ x = m * q + r
  BY <1>1, <1>4
<1> HIDE DEF q, r
<1>6. p \in Nat /\ q = 2 * p
  BY <1>3, <1>5
<1> HIDE DEF p
<1>7. x < m * (2 * d)
  BY <1>1, <1>2
<1>8. q < 2 * d
  <2> SUFFICES ASSUME q >= 2 * d PROVE FALSE
    BY <1>1, <1>5
  <2>1. m * q >= m * (2 * d)
    BY <1>1, <1>5
  <2> QED
    BY <1>1, <1>5, <1>7, <2>1
<1>9. q + 2 <= 2 * d
  BY <1>1, <1>6, <1>8
<1>10. m * (q + 2) <= m * (2 * d)
  BY <1>1, <1>5, <1>9
<1>11. m * (q + 2) = m * q + m + m
  BY <1>1, <1>5
<1>12. x + m < m * (2 * d)
  <2>1. m * q \in Nat /\ m * (2 * d) \in Nat
    BY <1>1, <1>5
  <2> QED
    BY <1>1, <1>5, <1>10, <1>11, <2>1
<1>13. x + m \in 0..(Power(2, n) - 1)
  BY <1>1, <1>2, <1>4, <1>12
<1> QED
  BY <1>13 DEF m
=============================================================================
