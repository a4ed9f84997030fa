-------------------------------- MODULE Lemmas --------------------------------
(* Facts about numbers, powers of two and queues that the proofs of several *)
(* modules need.                                                            *)
EXTENDS Integers, Sequences, Numbers, SequenceTheorems, TLAPS, WellFoundedInduction

\* Division with remainder.
LEMMA DivMod ==
  ASSUME NEW n \in Nat \ {0}, NEW k \in Nat
  PROVE  k \div n \in Nat /\ k % n \in 0 .. n - 1 /\ k = (k \div n) * n + (k % n)
OBVIOUS

\* The quotient and the remainder of a number put together from both.
LEMMA Compose ==
  ASSUME NEW n \in Nat \ {0}, NEW i \in Nat, NEW j \in 0 .. n - 1
  PROVE  i * n + j \in Nat /\ (i * n + j) \div n = i /\ (i * n + j) % n = j
OBVIOUS

\* A remainder does not change when a multiple of the modulus is added.
LEMMA ModAdd ==
  ASSUME NEW n \in Nat \ {0}, NEW x \in Nat, NEW k \in Nat PROVE (x * n + k) % n = k % n
<1>1. k \div n \in Nat /\ k % n \in 0 .. n - 1 /\ k = (k \div n) * n + (k % n)
  BY DivMod
<1> DEFINE d == k \div n
           r == k % n
<1> HIDE DEF d, r
<1>2. x * n + k = (x + d) * n + r /\ x + d \in Nat
  BY <1>1 DEF d, r
<1>3. r \in 0 .. n - 1
  BY <1>1 DEF r
<1>4. ((x + d) * n + r) % n = r
  BY <1>2, <1>3, Compose
<1>5. (x * n + k) % n = r
  BY <1>2, <1>4
<1> QED
  BY <1>5 DEF r

\* The remainder by a divisor of the modulus.
LEMMA ModMod ==
  ASSUME NEW n \in Nat \ {0}, NEW m \in Nat \ {0}, NEW k \in Nat
  PROVE  n * m \in Nat \ {0} /\ k % (n * m) \in Nat /\ (k % (n * m)) % n = k % n
<1>1. n * m \in Nat \ {0}
  OBVIOUS
<1> DEFINE c == n * m
           d == k \div c
           r == k % c
<1>2. c \in Nat \ {0} /\ d \in Nat /\ r \in Nat /\ k = d * c + r
  <2> HIDE DEF c
  <2>1. c \in Nat \ {0}
    BY <1>1 DEF c
  <2> QED
    BY <2>1, DivMod
<1> HIDE DEF d, r
<1>3. d * (n * m) = (d * m) * n /\ d * m \in Nat
  BY <1>2
<1>4. ((d * m) * n + r) % n = r % n
  BY <1>2, <1>3, ModAdd
<1> QED
  BY <1>1, <1>2, <1>3, <1>4 DEF r

\* Digits of a remainder, in the base n.
LEMMA DivOfMod ==
  ASSUME NEW n \in Nat \ {0}, NEW b \in Nat \ {0}, NEW c \in Nat \ {0}, NEW k \in Nat
  PROVE  ((k % (n * (b * c))) \div n) % b = (k \div n) % b
<1>1. n * (b * c) \in Nat \ {0} /\ b * c \in Nat \ {0}
  <2>1. b * c \in Nat \ {0}
    OBVIOUS
  <2> QED
    BY <2>1
<1> DEFINE e == n * (b * c)
           d == k \div e
           r == k % e
           y == r \div n
           s == r % n
<1>2. d \in Nat /\ r \in Nat /\ k = d * e + r
  <2> HIDE DEF e
  <2>1. e \in Nat \ {0}
    BY <1>1 DEF e
  <2> QED
    BY <2>1, DivMod
<1> HIDE DEF d, r
<1>3. y \in Nat /\ s \in 0 .. n - 1 /\ r = y * n + s
  BY <1>2, DivMod
<1> HIDE DEF y, s
<1>4. d * (n * (b * c)) = (d * c * b) * n /\ d * c \in Nat /\ d * c * b \in Nat
  BY <1>2
<1>5. k = (d * c * b + y) * n + s /\ d * c * b + y \in Nat
  <2> DEFINE z == d * c * b
  <2>1. z \in Nat /\ k = z * n + (y * n + s)
    BY <1>2, <1>3, <1>4
  <2> HIDE DEF z
  <2>2. z * n + (y * n + s) = (z + y) * n + s /\ z + y \in Nat
    BY <2>1, <1>3
  <2> QED
    BY <2>1, <2>2 DEF z
<1>6. k \div n = d * c * b + y
  BY <1>3, <1>5, Compose
<1>7. (d * c * b + y) % b = y % b
  BY <1>3, <1>4, ModAdd
<1> QED
  BY <1>6, <1>7 DEF y, r

\* The remainder of a counter that goes up by one.
LEMMA NextMod ==
  ASSUME NEW b \in Nat \ {0}, NEW k \in Nat
  PROVE  (k + 1) % b = IF k % b = b - 1 THEN 0 ELSE (k % b) + 1
<1>1. k \div b \in Nat /\ k % b \in 0 .. b - 1 /\ k = (k \div b) * b + (k % b)
  BY DivMod
<1>2. CASE k % b = b - 1
  <2>1. k + 1 = (k \div b + 1) * b + 0
    BY <1>1, <1>2
  <2>2. k \div b + 1 \in Nat /\ 0 \in 0 .. b - 1
    BY <1>1
  <2>3. ((k \div b + 1) * b + 0) % b = 0
    BY <2>2, Compose
  <2> QED
    BY <1>2, <2>1, <2>3
<1>3. CASE k % b # b - 1
  <2>1. k + 1 = (k \div b) * b + ((k % b) + 1)
    BY <1>1
  <2>2. (k % b) + 1 \in 0 .. b - 1
    BY <1>1, <1>3
  <2>3. ((k \div b) * b + ((k % b) + 1)) % b = (k % b) + 1
    BY <1>1, <2>2, Compose
  <2> QED
    BY <1>3, <2>1, <2>3
<1> QED
  BY <1>2, <1>3

\* A set of numbers that is not empty has a least element.
LEMMA LeastElement ==
  ASSUME NEW S \in SUBSET Nat, S # {} PROVE \E n \in S : \A m \in S : n <= m
<1>1. IsWellFoundedOn(OpToRel(<, Nat), Nat)
  BY NatLessThanWellFounded, Zenon
<1>2. PICK n \in S : \A m \in S : ~(<<m, n>> \in OpToRel(<, Nat))
  BY <1>1, WFMin, Zenon
<1>3. \A m \in S : ~(m < n)
  BY <1>2 DEF OpToRel
<1>4. \A m \in S : n <= m
  <2> HIDE <1>2
  <2> TAKE m \in S
  <2>1. m \in Nat /\ n \in Nat
    OBVIOUS
  <2> QED
    BY <1>3, <2>1
<1> QED
  BY <1>4, Zenon

\* Induction up to n, over a set.
LEMMA InductionUpTo ==
  ASSUME NEW n \in Nat, NEW S, 0 \in S, \A i \in 0 .. n - 1 : i \in S => i + 1 \in S
  PROVE  \A i \in 0 .. n : i \in S
<1> DEFINE T == {i \in 0 .. n : i \notin S}
<1> SUFFICES ASSUME T # {} PROVE FALSE
  OBVIOUS
<1>1. PICK j \in T : \A i \in T : j <= i
  <2>1. T \in SUBSET Nat
    OBVIOUS
  <2> HIDE DEF T
  <2> QED
    BY <2>1, LeastElement
<1>2. j # 0 /\ j \in Nat
  BY <1>1
<1>3. j - 1 \in 0 .. n - 1 /\ (j - 1) + 1 = j /\ ~(j <= j - 1) /\ j - 1 \in 0 .. n
  BY <1>1, <1>2
<1>4. j - 1 \in S
  BY <1>1, <1>3
<1> QED
  BY <1>1, <1>3, <1>4

-------------------------------------------------------------------------------
(* Recursion *)

\* Functions on 0 .. n defined from one value to the next.
IsIteration(f, S, n, b, step) ==
  f \in [0 .. n -> S] /\ f[0] = b /\ \A i \in 1 .. n : f[i] = step[i][f[i - 1]]

LEMMA Iteration ==
  ASSUME NEW S, NEW n \in Nat, NEW b \in S, NEW step, \A i \in 1 .. n : \A x \in S : step[i][x] \in S
  PROVE  \E f : IsIteration(f, S, n, b, step)
<1> DEFINE T == {m \in 0 .. n : \E f : IsIteration(f, S, m, b, step)}
<1>1. 0 \in T
  <2> DEFINE f == [k \in 0 .. 0 |-> b]
  <2>1. IsIteration(f, S, 0, b, step)
    BY DEF IsIteration
  <2> QED
    BY <2>1
<1>2. ASSUME NEW m \in 0 .. n - 1, m \in T PROVE m + 1 \in T
  <2>1. m \in Nat /\ m + 1 \in 0 .. n /\ m + 1 \in 1 .. n /\ (m + 1) - 1 = m
    OBVIOUS
  <2>2. PICK f : IsIteration(f, S, m, b, step)
    BY <1>2
  <2> DEFINE h == [k \in 0 .. m + 1 |-> IF k = m + 1 THEN step[m + 1][f[m]] ELSE f[k]]
  <2>3. \A k \in 0 .. m : f[k] \in S
    BY <2>2 DEF IsIteration
  <2>4. step[m + 1][f[m]] \in S
    BY <2>1, <2>3
  <2>5. h \in [0 .. m + 1 -> S]
    <3>1. \A k \in 0 .. m + 1 : h[k] \in S
      <4>1. \A k \in 0 .. m + 1 : k = m + 1 \/ k \in 0 .. m
        BY <2>1
      <4> QED
        BY <2>3, <2>4, <4>1
    <3> QED
      BY <3>1
  <2>6. h[0] = b
    BY <2>1, <2>2 DEF IsIteration
  <2>7. ASSUME NEW k \in 1 .. m + 1 PROVE h[k] = step[k][h[k - 1]]
    <3>1. k - 1 \in 0 .. m + 1 /\ k - 1 # m + 1 /\ k \in 0 .. m + 1 /\ h[k - 1] = f[k - 1]
      BY <2>1
    <3>2. CASE k = m + 1
      BY <2>1, <3>1, <3>2
    <3>3. CASE k # m + 1
      <4>1. k \in 1 .. m
        BY <2>1, <3>3
      <4> QED
        BY <2>2, <3>1, <3>3, <4>1 DEF IsIteration
    <3> QED
      BY <3>2, <3>3
  <2> HIDE DEF h
  <2>8. IsIteration(h, S, m + 1, b, step)
    BY <2>5, <2>6, <2>7 DEF IsIteration
  <2> QED
    BY <2>1, <2>8
<1> HIDE DEF T
<1>3. \A m \in 0 .. n : m \in T
  BY <1>1, <1>2, InductionUpTo
<1>4. n \in T
  BY <1>3
<1> QED
  BY <1>4 DEF T

-------------------------------------------------------------------------------
(* Powers of two *)

\* The first powers of two, as a sequence from 0 to m.
ArePowers(g, m) == /\ g \in [0 .. m -> Nat \ {0}]
                   /\ g[0] = 1
                   /\ \A k \in 1 .. m : g[k] = 2 * g[k - 1]

\* There are arbitrarily many of them.
LEMMA SomePowers == \A m \in Nat : \E g : ArePowers(g, m)
<1> DEFINE S == {m \in Nat : ~ \E g : ArePowers(g, m)}
<1> SUFFICES ASSUME S # {} PROVE FALSE
  OBVIOUS
<1>1. PICK n \in S : \A m \in S : n <= m
  BY LeastElement
<1>2. CASE n = 0
  <2> DEFINE g == [k \in 0 .. 0 |-> 1]
  <2>1. ArePowers(g, 0)
    BY DEF ArePowers
  <2> QED
    BY <1>1, <1>2, <2>1
<1>3. CASE n # 0
  <2>1. n \in Nat /\ n - 1 \in Nat /\ ~(n <= n - 1)
    BY <1>1, <1>3
  <2>2. n - 1 \notin S
    BY <1>1, <2>1
  <2>3. PICK g : ArePowers(g, n - 1)
    BY <2>1, <2>2
  <2> DEFINE h == [k \in 0 .. n |-> IF k = n THEN 2 * g[n - 1] ELSE g[k]]
  <2>4. g[n - 1] \in Nat \ {0} /\ \A k \in 0 .. n - 1 : g[k] \in Nat \ {0}
    BY <2>1, <2>3 DEF ArePowers
  <2>5. \A k \in 0 .. n : h[k] \in Nat \ {0}
    BY <2>1, <2>4
  <2>6. h \in [0 .. n -> Nat \ {0}]
    BY <2>5
  <2>7. h[0] = 1
    BY <2>1, <2>3, <1>3 DEF ArePowers
  <2>8. ASSUME NEW k \in 1 .. n PROVE h[k] = 2 * h[k - 1]
    <3>1. k - 1 \in 0 .. n /\ k - 1 # n /\ k \in 0 .. n /\ h[k - 1] = g[k - 1]
      BY <2>1
    <3>2. CASE k = n
      BY <3>1, <3>2
    <3>3. CASE k # n
      <4>1. k \in 1 .. n - 1
        BY <2>1, <3>3
      <4>2. g[k] = 2 * g[k - 1]
        BY <2>3, <4>1 DEF ArePowers
      <4> QED
        BY <3>1, <3>3, <4>2
    <3> QED
      BY <3>2, <3>3
  <2>9. ArePowers(h, n)
    <3> HIDE DEF h
    <3> QED
      BY <2>6, <2>7, <2>8 DEF ArePowers
  <2> QED
    BY <1>1, <2>9
<1> QED
  BY <1>2, <1>3

\* Two such sequences agree.
LEMMA SamePowers ==
  ASSUME NEW m \in Nat, NEW n \in Nat, NEW g, NEW h, ArePowers(g, m), ArePowers(h, n),
         NEW k \in Nat, k <= m, k <= n
  PROVE  g[k] = h[k]
<1> DEFINE S == {j \in Nat : j <= m /\ j <= n /\ g[j] # h[j]}
<1> SUFFICES ASSUME S # {} PROVE FALSE
  OBVIOUS
<1>1. PICK j \in S : \A i \in S : j <= i
  BY LeastElement
<1>2. j # 0
  BY <1>1 DEF ArePowers
<1>3. j - 1 \in Nat /\ j - 1 <= m /\ j - 1 <= n /\ ~(j <= j - 1) /\ j \in 1 .. m /\ j \in 1 .. n
  BY <1>1, <1>2
<1>4. g[j - 1] = h[j - 1]
  BY <1>1, <1>3
<1>5. g[j] = 2 * g[j - 1] /\ h[j] = 2 * h[j - 1]
  BY <1>3 DEF ArePowers
<1> QED
  BY <1>1, <1>4, <1>5

\* The recursion that defines Pow2 has a solution.
LEMMA Pow2Recursion ==
  Pow2 = [n \in Nat |-> IF n = 0 THEN 1 ELSE 2 * Pow2[n - 1]] /\ Pow2 \in [Nat -> Nat \ {0}]
<1> DEFINE G(n) == CHOOSE g : ArePowers(g, n)
           f == [n \in Nat |-> G(n)[n]]
           Body(e) == [n \in Nat |-> IF n = 0 THEN 1 ELSE 2 * e[n - 1]]
<1>1. \A n \in Nat : ArePowers(G(n), n)
  BY SomePowers
<1> HIDE DEF G
<1>2. f[0] = 1
  BY <1>1 DEF ArePowers
<1>3. ASSUME NEW n \in Nat, n # 0 PROVE f[n] = 2 * f[n - 1]
  <2>1. n \in 1 .. n /\ n - 1 \in Nat /\ n - 1 <= n /\ n - 1 <= n - 1
    BY <1>3
  <2>2. G(n)[n] = 2 * G(n)[n - 1]
    BY <1>1, <2>1 DEF ArePowers
  <2>3. ArePowers(G(n), n) /\ ArePowers(G(n - 1), n - 1)
    BY <1>1, <2>1
  <2>4. G(n)[n - 1] = G(n - 1)[n - 1]
    BY <2>1, <2>3, SamePowers
  <2> QED
    BY <2>1, <2>2, <2>4
<1>4. f \in [Nat -> Nat \ {0}]
  <2>1. \A n \in Nat : G(n)[n] \in Nat \ {0}
    BY <1>1 DEF ArePowers
  <2> QED
    BY <2>1
<1>5. f = Body(f)
  <2> HIDE DEF f
  <2>1. \A n \in Nat : f[n] = IF n = 0 THEN 1 ELSE 2 * f[n - 1]
    BY <1>2, <1>3
  <2> QED
    BY <1>4, <2>1
<1> HIDE DEF f
<1>6. Pow2 = CHOOSE e : e = Body(e)
  BY Zenon DEF Pow2
<1>7. Pow2 = Body(Pow2)
  <2> HIDE DEF Body
  <2> QED
    BY <1>5, <1>6, Zenon
<1>8. Pow2 \in [Nat -> Nat \ {0}]
  <2>0. \A n \in Nat : n = 0 \/ (n # 0 /\ n - 1 \in Nat)
    OBVIOUS
  <2> DEFINE S == {n \in Nat : Pow2[n] \notin Nat \ {0}}
  <2>1. ASSUME S # {} PROVE FALSE
    <3>1. PICK n \in S : \A m \in S : n <= m
      BY <2>1, LeastElement
    <3>2. n \in Nat /\ Pow2[n] = IF n = 0 THEN 1 ELSE 2 * Pow2[n - 1]
      BY <1>7, <3>1
    <3>3. n # 0
      BY <3>1, <3>2
    <3>4. n - 1 \in Nat /\ ~(n <= n - 1)
      BY <3>2, <3>3
    <3>5. Pow2[n - 1] \in Nat \ {0}
      BY <3>1, <3>4
    <3> QED
      BY <3>1, <3>2, <3>3, <3>5
  <2>2. \A n \in Nat : Pow2[n] \in Nat \ {0}
    BY <2>1
  <2> QED
    BY <1>7, <2>2
<1> QED
  BY <1>7, <1>8, Zenon

\* The powers of two, step by step.
LEMMA Pow2Facts ==
  /\ Pow2[0] = 1
  /\ \A n \in Nat : Pow2[n] \in Nat \ {0} /\ Pow2[n + 1] = 2 * Pow2[n]
<1>1. ASSUME NEW n \in Nat PROVE Pow2[n + 1] = 2 * Pow2[n]
  <2>1. n + 1 \in Nat /\ n + 1 # 0 /\ (n + 1) - 1 = n
    OBVIOUS
  <2> QED
    BY <2>1, Pow2Recursion
<1>2. Pow2[0] = 1 /\ \A n \in Nat : Pow2[n] \in Nat \ {0}
  BY Pow2Recursion
<1> QED
  BY <1>1, <1>2

\* The product of two powers.
LEMMA Pow2Sum == \A m, n \in Nat : Pow2[m + n] = Pow2[m] * Pow2[n]
<1> SUFFICES ASSUME NEW m \in Nat PROVE \A n \in Nat : Pow2[m + n] = Pow2[m] * Pow2[n]
  OBVIOUS
<1> DEFINE S == {n \in Nat : Pow2[m + n] # Pow2[m] * Pow2[n]}
<1> SUFFICES ASSUME S # {} PROVE FALSE
  OBVIOUS
<1>1. PICK n \in S : \A i \in S : n <= i
  BY LeastElement
<1>2. n # 0
  BY <1>1, Pow2Facts
<1>3. n - 1 \in Nat /\ ~(n <= n - 1)
  BY <1>1, <1>2
<1>4. Pow2[m + (n - 1)] = Pow2[m] * Pow2[n - 1]
  BY <1>1, <1>3
<1>5. (m + (n - 1)) + 1 = m + n /\ (n - 1) + 1 = n /\ m + (n - 1) \in Nat
  BY <1>3
<1>6. Pow2[m + n] = 2 * Pow2[m + (n - 1)] /\ Pow2[n] = 2 * Pow2[n - 1]
  BY <1>3, <1>5, Pow2Facts
<1>7. Pow2[m] \in Nat /\ Pow2[n - 1] \in Nat
  BY <1>3, Pow2Facts
<1>8. \A x, y \in Nat : 2 * (x * y) = x * (2 * y)
  OBVIOUS
<1> QED
  BY <1>1, <1>4, <1>6, <1>7, <1>8

\* Greater exponents, multiples and quotients.
LEMMA Pow2Order ==
  ASSUME NEW m \in Nat, NEW n \in Nat, m <= n
  PROVE  /\ n - m \in Nat /\ Pow2[m] <= Pow2[n] /\ (m < n => Pow2[m] < Pow2[n])
         /\ Pow2[n] = Pow2[m] * Pow2[n - m] /\ Pow2[n] \div Pow2[m] = Pow2[n - m]
         /\ Pow2[n] % Pow2[m] = 0
<1>1. n - m \in Nat /\ m + (n - m) = n
  OBVIOUS
<1> DEFINE x == Pow2[m]
           y == Pow2[n - m]
<1>2. x \in Nat \ {0} /\ y \in Nat \ {0} /\ Pow2[n] = x * y
  BY <1>1, Pow2Facts, Pow2Sum
<1>3. m < n => y >= 2
  <2> SUFFICES ASSUME m < n PROVE y >= 2
    OBVIOUS
  <2>1. (n - m) - 1 \in Nat /\ ((n - m) - 1) + 1 = n - m
    BY <1>1
  <2>2. y = 2 * Pow2[(n - m) - 1] /\ Pow2[(n - m) - 1] \in Nat \ {0}
    BY <2>1, Pow2Facts
  <2> QED
    BY <2>2
<1> HIDE DEF x, y
<1>4. \A u, v \in Nat \ {0} : u <= u * v /\ (v >= 2 => u < u * v)
  <2>1. ASSUME NEW u \in Nat \ {0}, NEW v \in Nat \ {0} PROVE u <= u * v /\ (v >= 2 => u < u * v)
    <3>1. v - 1 \in Nat /\ (v >= 2 => v - 1 \in Nat \ {0})
      OBVIOUS
    <3>2. \A w \in Nat : u * w \in Nat /\ (w # 0 => u * w > 0)
      OBVIOUS
    <3>3. u * (v - 1) = u * v - u /\ u * v \in Nat
      OBVIOUS
    <3> QED
      BY <3>1, <3>2, <3>3
  <2> QED
    BY <2>1
<1>5. (y * x + 0) \div x = y /\ (y * x + 0) % x = 0
  <2>1. x \in Nat \ {0} /\ y \in Nat /\ 0 \in 0 .. x - 1
    BY <1>2
  <2> HIDE <1>2
  <2> QED
    BY <2>1, Compose
<1>6. x * y = y * x + 0
  BY <1>2
<1>7. x <= x * y /\ (y >= 2 => x < x * y)
  BY <1>2, <1>4
<1>8. Pow2[n] \div x = y /\ Pow2[n] % x = 0
  BY <1>2, <1>5, <1>6
<1> QED
  BY <1>1, <1>2, <1>3, <1>7, <1>8 DEF x, y

LEMMA Pow2Injective == ASSUME NEW m \in Nat, NEW n \in Nat, Pow2[m] = Pow2[n] PROVE m = n
<1>1. CASE m < n
  BY <1>1, Pow2Order, Pow2Facts
<1>2. CASE n < m
  BY <1>2, Pow2Order, Pow2Facts
<1> QED
  BY <1>1, <1>2

-------------------------------------------------------------------------------
(* Queues *)

\* The elements of a sequence, and that none of them occurs twice.
Elements(q) == {q[i] : i \in DOMAIN q}
Distinct(q) == \A i, j \in DOMAIN q : q[i] = q[j] => i = j

\* Appending a new element.
LEMMA AddToQueue ==
  ASSUME NEW T, NEW q \in Seq(T), NEW j \in T, Distinct(q), j \notin Elements(q)
  PROVE  /\ Append(q, j) \in Seq(T) /\ Distinct(Append(q, j))
         /\ Elements(Append(q, j)) = Elements(q) \cup {j}
<1>1. /\ Append(q, j) \in Seq(T) /\ DOMAIN q = 1 .. Len(q) /\ Len(q) \in Nat
      /\ DOMAIN Append(q, j) = 1 .. Len(q) + 1
      /\ Append(q, j)[Len(q) + 1] = j /\ \A i \in 1 .. Len(q) : Append(q, j)[i] = q[i]
  OBVIOUS
<1>2. 1 .. Len(q) + 1 = 1 .. Len(q) \cup {Len(q) + 1}
  BY <1>1
<1>3. Elements(Append(q, j)) = Elements(q) \cup {j}
  BY <1>1, <1>2 DEF Elements
<1>4. Distinct(Append(q, j))
  BY <1>1, <1>2 DEF Distinct, Elements
<1> QED
  BY <1>1, <1>3, <1>4

\* Removing the first element.
LEMMA TakeFromQueue ==
  ASSUME NEW T, NEW q \in Seq(T), q # << >>, Distinct(q)
  PROVE  /\ Head(q) \in T /\ Tail(q) \in Seq(T) /\ Distinct(Tail(q))
         /\ Elements(q) = Elements(Tail(q)) \cup {Head(q)} /\ Head(q) \notin Elements(Tail(q))
<1>1. /\ Tail(q) \in Seq(T) /\ Len(q) \in Nat \ {0} /\ Len(Tail(q)) = Len(q) - 1
      /\ DOMAIN q = 1 .. Len(q) /\ DOMAIN Tail(q) = 1 .. Len(q) - 1 /\ Head(q) = q[1]
      /\ \A i \in 1 .. Len(q) - 1 : Tail(q)[i] = q[i + 1]
  BY HeadTailProperties, EmptySeq
<1>2. Head(q) \in T
  BY <1>1
<1>3. Elements(q) = Elements(Tail(q)) \cup {Head(q)}
  <2>1. Elements(Tail(q)) \cup {Head(q)} \subseteq Elements(q)
    BY <1>1 DEF Elements
  <2>2. ASSUME NEW i \in 1 .. Len(q) PROVE q[i] \in Elements(Tail(q)) \cup {Head(q)}
    <3>1. i = 1 \/ (i - 1 \in 1 .. Len(q) - 1 /\ Tail(q)[i - 1] = q[i])
      BY <1>1
    <3> QED
      BY <1>1, <3>1 DEF Elements
  <2> QED
    BY <1>1, <2>1, <2>2 DEF Elements
<1>4. Head(q) \notin Elements(Tail(q)) /\ Distinct(Tail(q))
  BY <1>1 DEF Elements, Distinct
<1> QED
  BY <1>1, <1>2, <1>3, <1>4

-------------------------------------------------------------------------------
(* Divisors and congruence *)

Divides(d, n) == \E k \in Int : n = d * k
Congruent(x, y, m) == Divides(m, x - y)

LEMMA DividesIntro == ASSUME NEW d \in Int, NEW k \in Int PROVE Divides(d, d * k)
BY DEF Divides

\* Congruence is an equivalence.
LEMMA CongruenceIsEquivalence ==
  ASSUME NEW m \in Int
  PROVE  /\ \A x \in Int : Congruent(x, x, m)
         /\ \A x, y \in Int : Congruent(x, y, m) => Congruent(y, x, m)
         /\ \A x, y, z \in Int : Congruent(x, y, m) /\ Congruent(y, z, m) => Congruent(x, z, m)
<1>1. ASSUME NEW x \in Int PROVE Congruent(x, x, m)
  <2>1. x - x = m * 0
    OBVIOUS
  <2> QED
    BY <2>1 DEF Congruent, Divides
<1>2. ASSUME NEW x \in Int, NEW y \in Int, Congruent(x, y, m) PROVE Congruent(y, x, m)
  <2>1. PICK k \in Int : x - y = m * k
    BY <1>2 DEF Congruent, Divides
  <2>2. y - x = m * (0 - k) /\ 0 - k \in Int
    BY <2>1
  <2> QED
    BY <2>2 DEF Congruent, Divides
<1>3. ASSUME NEW x \in Int, NEW y \in Int, NEW z \in Int, Congruent(x, y, m), Congruent(y, z, m)
      PROVE  Congruent(x, z, m)
  <2>1. PICK j \in Int : x - y = m * j
    BY <1>3 DEF Congruent, Divides
  <2>2. PICK k \in Int : y - z = m * k
    BY <1>3 DEF Congruent, Divides
  <2>3. x - z = m * (j + k) /\ j + k \in Int
    BY <2>1, <2>2
  <2> QED
    BY <2>3 DEF Congruent, Divides
<1> QED
  BY <1>1, <1>2, <1>3

\* Sums, differences and products of congruent numbers are congruent.
LEMMA CongruentOperations ==
  ASSUME NEW m \in Int, NEW x \in Int, NEW y \in Int, NEW u \in Int, NEW v \in Int,
         Congruent(x, u, m), Congruent(y, v, m)
  PROVE  Congruent(x + y, u + v, m) /\ Congruent(x - y, u - v, m) /\ Congruent(x * y, u * v, m)
<1>1. PICK j \in Int : x - u = m * j
  BY DEF Congruent, Divides
<1>2. PICK k \in Int : y - v = m * k
  BY DEF Congruent, Divides
<1>3. Congruent(x + y, u + v, m)
  <2>1. (x + y) - (u + v) = m * (j + k) /\ j + k \in Int
    BY <1>1, <1>2
  <2> QED
    BY <2>1 DEF Congruent, Divides
<1>4. Congruent(x - y, u - v, m)
  <2>1. (x - y) - (u - v) = m * (j - k) /\ j - k \in Int
    BY <1>1, <1>2
  <2> QED
    BY <2>1 DEF Congruent, Divides
<1>5. Congruent(x * y, u * v, m)
  <2>1. x = u + m * j /\ y = v + m * k
    BY <1>1, <1>2
  <2>2. (u + m * j) * (v + m * k) - u * v = m * (j * v + k * u + m * (j * k))
    OBVIOUS
  <2>3. j * v + k * u + m * (j * k) \in Int
    OBVIOUS
  <2>4. x * y - u * v = m * (j * v + k * u + m * (j * k))
    BY <2>1, <2>2
  <2> QED
    BY <2>3, <2>4 DEF Congruent, Divides
<1> QED
  BY <1>3, <1>4, <1>5

\* A remainder is congruent to the number, and the only small one.
LEMMA DivisionFacts ==
  ASSUME NEW m \in Nat \ {0}, NEW x \in Int
  PROVE  x % m \in 0 .. m - 1 /\ x \div m \in Int /\ x = (x \div m) * m + (x % m) /\ Congruent(x % m, x, m)
<1>1. x % m \in 0 .. m - 1 /\ x \div m \in Int /\ x = (x \div m) * m + (x % m)
  OBVIOUS
<1> DEFINE d == x \div m
           r == x % m
<1> HIDE DEF d, r
<1>2. r \in Int /\ d \in Int /\ x = d * m + r
  BY <1>1 DEF d, r
<1>3. r - x = m * (0 - d) /\ 0 - d \in Int
  BY <1>2
<1>4. Congruent(r, x, m)
  BY <1>3 DEF Congruent, Divides
<1> QED
  BY <1>1, <1>4 DEF r

LEMMA SmallMultiple ==
  ASSUME NEW m \in Nat \ {0}, NEW k \in Int, m * k < m, m * k > 0 - m PROVE k = 0
<1>1. CASE k >= 1
  <2>1. m * k >= m * 1
    BY <1>1
  <2> QED
    BY <2>1
<1>2. CASE k <= 0 - 1
  <2>1. m * k <= m * (0 - 1)
    BY <1>2
  <2> QED
    BY <2>1
<1> QED
  BY <1>1, <1>2

LEMMA CongruentSmall ==
  ASSUME NEW m \in Nat \ {0}, NEW x \in 0 .. m - 1, NEW y \in 0 .. m - 1, Congruent(x, y, m)
  PROVE  x = y
<1>1. PICK k \in Int : x - y = m * k
  BY DEF Congruent, Divides
<1>2. m * k < m /\ m * k > 0 - m
  BY <1>1
<1>3. k = 0
  BY <1>2, SmallMultiple
<1> QED
  BY <1>1, <1>3

LEMMA CongruentMod ==
  ASSUME NEW m \in Nat \ {0}, NEW x \in Int, NEW y \in Int
  PROVE  Congruent(x, y, m) <=> x % m = y % m
<1>0. \A z \in Int : z % m \in 0 .. m - 1 /\ Congruent(z % m, z, m)
  BY DivisionFacts
<1>1. /\ x % m \in 0 .. m - 1 /\ Congruent(x % m, x, m) /\ x % m \in Int
      /\ y % m \in 0 .. m - 1 /\ Congruent(y % m, y, m) /\ y % m \in Int
  BY <1>0
<1> DEFINE r == x % m
           s == y % m
<1> HIDE DEF r, s
<1>2. /\ r \in 0 .. m - 1 /\ Congruent(r, x, m) /\ r \in Int
      /\ s \in 0 .. m - 1 /\ Congruent(s, y, m) /\ s \in Int /\ m \in Int
  BY <1>1 DEF r, s
<1>3. Congruent(x, r, m) /\ Congruent(y, s, m)
  BY <1>2, CongruenceIsEquivalence
<1>4. ASSUME Congruent(x, y, m) PROVE r = s
  <2>1. Congruent(r, y, m)
    BY <1>2, <1>4, CongruenceIsEquivalence
  <2>2. Congruent(r, s, m)
    BY <1>2, <1>3, <2>1, CongruenceIsEquivalence
  <2> QED
    BY <1>2, <2>2, CongruentSmall
<1>5. ASSUME r = s PROVE Congruent(x, y, m)
  BY <1>2, <1>3, <1>5, CongruenceIsEquivalence
<1> QED
  BY <1>4, <1>5 DEF r, s

\* Numbers that have an inverse modulo m.
Invertible(x, m) == \E u \in Int : Congruent(x * u, 1, m)

LEMMA InvertibleProduct ==
  ASSUME NEW m \in Int, NEW x \in Int, NEW y \in Int, Invertible(x, m), Invertible(y, m)
  PROVE  Invertible(x * y, m)
<1>1. PICK u \in Int : Congruent(x * u, 1, m)
  BY DEF Invertible
<1>2. PICK v \in Int : Congruent(y * v, 1, m)
  BY DEF Invertible
<1>3. Congruent((x * u) * (y * v), 1 * 1, m)
  <2>1. x * u \in Int /\ y * v \in Int /\ 1 \in Int
    OBVIOUS
  <2> QED
    BY <1>1, <1>2, <2>1, CongruentOperations
<1>4. (x * u) * (y * v) = (x * y) * (u * v) /\ 1 * 1 = 1 /\ u * v \in Int
  OBVIOUS
<1>5. Congruent((x * y) * (u * v), 1, m)
  BY <1>3, <1>4
<1> QED
  BY <1>4, <1>5 DEF Invertible

LEMMA InvertibleCongruent ==
  ASSUME NEW m \in Int, NEW x \in Int, NEW y \in Int, Invertible(x, m), Congruent(x, y, m)
  PROVE  Invertible(y, m)
<1>1. PICK u \in Int : Congruent(x * u, 1, m)
  BY DEF Invertible
<1>2. Congruent(y, x, m) /\ Congruent(u, u, m)
  BY CongruenceIsEquivalence
<1>3. Congruent(y * u, x * u, m)
  BY <1>2, CongruentOperations
<1>4. x * u \in Int /\ y * u \in Int /\ 1 \in Int
  OBVIOUS
<1>5. Congruent(y * u, 1, m)
  BY <1>1, <1>3, <1>4, CongruenceIsEquivalence
<1> QED
  BY <1>5 DEF Invertible

\* A factor that has an inverse can be dropped.
LEMMA Cancel ==
  ASSUME NEW m \in Int, NEW x \in Int, NEW y \in Int, NEW u \in Int,
         Congruent(x * u, 1, m)
  PROVE  Congruent((y * x) * u, y, m)
<1>1. Congruent(y, y, m)
  BY CongruenceIsEquivalence
<1>2. x * u \in Int /\ 1 \in Int
  OBVIOUS
<1>3. Congruent(y * (x * u), y * 1, m)
  BY <1>1, <1>2, CongruentOperations
<1>4. y * (x * u) = (y * x) * u /\ y * 1 = y
  OBVIOUS
<1> QED
  BY <1>3, <1>4

\* Numbers without a common divisor are inverse to some number modulo each other:
\* their least positive combination divides both.
LEMMA CoprimeInvertible ==
  ASSUME NEW m \in Nat \ {0}, NEW x \in Nat \ {0}, Coprime(m, x) PROVE Invertible(x, m)
<1> DEFINE S == {n \in Nat \ {0} : \E u, w \in Int : n = x * u + m * w}
<1>1. m \in S
  <2>1. m = x * 0 + m * 1
    OBVIOUS
  <2> QED
    BY <2>1
<1>2. x \in S
  <2>1. x = x * 1 + m * 0
    OBVIOUS
  <2> QED
    BY <2>1
<1>3. PICK d \in S : \A n \in S : d <= n
  <2>1. S \in SUBSET Nat /\ S # {}
    BY <1>1
  <2> HIDE DEF S
  <2> QED
    BY <2>1, LeastElement
<1>4. PICK u \in Int, w \in Int : d = x * u + m * w
  BY <1>3
<1>5. d \in Nat \ {0}
  BY <1>3
<1>6. ASSUME NEW y \in S PROVE y % d = 0
  <2>1. PICK s \in Int, t \in Int : y = x * s + m * t
    BY <1>6
  <2>2. y \in Nat /\ y % d \in 0 .. d - 1 /\ y \div d \in Int /\ y = (y \div d) * d + (y % d)
    BY <1>5, <1>6, DivisionFacts
  <2> DEFINE k == y \div d
             r == y % d
  <2> HIDE DEF k, r
  <2>3. k \in Int /\ r \in 0 .. d - 1 /\ y = k * d + r
    BY <2>2 DEF k, r
  <2>4. r = (x * s + m * t) - k * (x * u + m * w)
    BY <1>4, <1>5, <2>1, <2>3
  <2>5. (x * s + m * t) - k * (x * u + m * w) = x * (s - k * u) + m * (t - k * w)
    BY <2>1, <2>3, <1>4
  <2>6. s - k * u \in Int /\ t - k * w \in Int
    BY <2>1, <2>3, <1>4
  <2>7. r # 0 => r \in S
    <3> DEFINE a == s - k * u
               b == t - k * w
    <3>1. a \in Int /\ b \in Int /\ r = x * a + m * b
      BY <2>4, <2>5, <2>6
    <3> HIDE DEF a, b
    <3>2. r # 0 => r \in Nat \ {0}
      BY <1>5, <2>3
    <3>3. \E i, j \in Int : r = x * i + m * j
      BY <3>1
    <3> QED
      BY <3>2, <3>3
  <2>8. r = 0
    <3> HIDE DEF S
    <3>1. r # 0 => d <= r
      BY <1>3, <2>7
    <3> QED
      BY <1>5, <2>3, <3>1
  <2> QED
    BY <2>8 DEF r
<1>7. d \notin 2 .. m
  BY <1>1, <1>2, <1>6 DEF Coprime
<1>8. d = 1
  <2>1. d <= m
    BY <1>1, <1>3
  <2> QED
    BY <1>5, <1>7, <2>1
<1>9. x * u - 1 = m * (0 - w) /\ 0 - w \in Int
  BY <1>4, <1>8
<1> QED
  BY <1>9 DEF Invertible, Congruent, Divides

-------------------------------------------------------------------------------
(* Reductions without a division by the modulus *)

\* Barrett's: a product minus a multiple of the modulus p that was estimated
\* with the quotient of w * K by p.
LEMMA BarrettStep ==
  ASSUME NEW p \in Nat \ {0}, NEW K \in Nat \ {0}, NEW t \in 0 .. K - 1, NEW w \in Nat
  PROVE  /\ (t * ((w * K) \div p)) \div K \in Int
         /\ t * w - p * ((t * ((w * K) \div p)) \div K) \in 0 .. 2 * p - 1
<1>1. w * K \in Int
  OBVIOUS
<1> DEFINE c == (w * K) \div p
           e == (w * K) % p
           h == (t * c) \div K
           g == (t * c) % K
           z == t * w - p * h
<1>2. c \in Int /\ e \in 0 .. p - 1 /\ w * K = c * p + e
  BY <1>1, DivisionFacts
<1>3. t * c \in Int
  BY <1>2
<1>4. h \in Int /\ g \in 0 .. K - 1 /\ t * c = h * K + g
  BY <1>3, DivisionFacts
<1> HIDE DEF c, e, h, g
<1>5. z \in Int
  BY <1>4
<1>6. K * z = t * e + p * g
  <2>1. K * z = t * (w * K) - p * (h * K)
    BY <1>4
  <2>2. t * (w * K) = t * (c * p + e)
    BY <1>2
  <2>3. t * (c * p + e) = (t * c) * p + t * e
    BY <1>2
  <2>4. h * K = t * c - g
    BY <1>4
  <2>5. p * (t * c - g) = (t * c) * p - p * g
    BY <1>2, <1>4
  <2> QED
    BY <2>1, <2>2, <2>3, <2>4, <2>5, <1>2, <1>4
<1>7. 0 <= t * e /\ t * e <= K * p /\ 0 <= p * g /\ p * g < p * K
  <2>1. \A x, y, u, v \in Nat : x <= u /\ y <= v => 0 <= x * y /\ x * y <= u * v
    OBVIOUS
  <2>2. t \in Nat /\ e \in Nat /\ K \in Nat /\ p \in Nat /\ t <= K /\ e <= p
    BY <1>2
  <2>3. g \in Nat /\ g <= K - 1 /\ K - 1 \in Nat
    BY <1>4
  <2>4. 0 <= p * g /\ p * g <= p * (K - 1)
    BY <2>1, <2>2, <2>3
  <2>5. p * (K - 1) < p * K
    BY <2>2
  <2> QED
    BY <2>1, <2>2, <2>4, <2>5, <1>4
<1>8. 0 <= K * z /\ K * z < K * (2 * p)
  <2>1. t * e \in Int /\ p * g \in Int /\ K * p \in Int /\ K * (2 * p) = K * p + p * K
    BY <1>2, <1>4
  <2> QED
    BY <1>6, <1>7, <2>1
<1> HIDE DEF z
<1>9. 0 <= z /\ z < 2 * p
  <2>1. CASE z < 0
    <3>1. z <= 0 - 1 /\ K * z \in Int
      BY <2>1, <1>5
    <3>2. K * z <= K * (0 - 1)
      BY <3>1, <1>5
    <3>3. K * (0 - 1) < 0
      OBVIOUS
    <3> QED
      BY <1>8, <3>1, <3>2, <3>3
  <2>2. CASE z >= 2 * p
    <3>1. 2 * p \in Int /\ K * z >= K * (2 * p)
      BY <2>2, <1>5
    <3>2. K * z \in Int /\ K * (2 * p) \in Int
      BY <1>5, <3>1
    <3> QED
      BY <1>8, <3>1, <3>2
  <2>3. 2 * p \in Int /\ (z < 0 \/ z >= 2 * p \/ (0 <= z /\ z < 2 * p))
    BY <1>5
  <2> QED
    BY <2>1, <2>2, <2>3
<1> QED
  BY <1>4, <1>5, <1>9 DEF z, h, c

\* Montgomery's: the high word of a product minus the one of the multiple of p
\* whose low word is the same.  v is the inverse of p modulo K.
LEMMA MontgomeryStep ==
  ASSUME NEW p \in Nat \ {0}, NEW K \in Nat \ {0}, NEW v \in Int, Congruent(v * p, 1, K),
         NEW x \in 0 .. p * K - 1
  PROVE  /\ x \div K \in 0 .. p - 1 /\ ((((x % K) * v) % K) * p) \div K \in 0 .. p - 1
         /\ Congruent((x \div K - ((((x % K) * v) % K) * p) \div K) * K, x, p)
<1> DEFINE u == x \div K
           low == x % K
           s == (low * v) % K
           h == (s * p) \div K
<1>1. u \in Int /\ low \in 0 .. K - 1 /\ x = u * K + low
  BY DivisionFacts
<1>2. low * v \in Int
  BY <1>1
<1>3. s \in 0 .. K - 1 /\ Congruent(s, low * v, K)
  BY <1>2, DivisionFacts
<1>4. s * p \in Int
  BY <1>3
<1>5. h \in Int /\ (s * p) % K \in 0 .. K - 1 /\ s * p = h * K + ((s * p) % K)
  BY <1>4, DivisionFacts
<1> HIDE DEF u, low, s, h
<1>6. (s * p) % K = low
  <2>1. Congruent(s * p, (low * v) * p, K)
    <3>1. s \in Int /\ p \in Int /\ K \in Int /\ Congruent(p, p, K)
      BY <1>3, CongruenceIsEquivalence
    <3> QED
      BY <1>2, <1>3, <3>1, CongruentOperations
  <2>2. Congruent(low * (v * p), low * 1, K)
    <3>1. v * p \in Int /\ 1 \in Int /\ Congruent(low, low, K)
      BY <1>1, CongruenceIsEquivalence
    <3> QED
      BY <1>1, <3>1, CongruentOperations
  <2>3. (low * v) * p = low * (v * p) /\ low * 1 = low /\ (low * v) * p \in Int
    BY <1>1
  <2>4. Congruent(s * p, low, K)
    BY <1>1, <1>4, <2>1, <2>2, <2>3, CongruenceIsEquivalence
  <2>5. (s * p) % K = low % K
    <3>1. \A y, z \in Int : Congruent(y, z, K) => y % K = z % K
      BY CongruentMod
    <3>2. low \in Int
      BY <1>1
    <3> QED
      BY <1>4, <2>4, <3>1, <3>2
  <2> QED
    BY <1>1, <2>5
<1>7. u \in 0 .. p - 1
  <2>1. CASE u >= p
    <3>1. u * K >= p * K
      BY <2>1, <1>1
    <3>2. u * K \in Int /\ p * K \in Int
      BY <1>1
    <3> QED
      BY <1>1, <3>1, <3>2
  <2>2. CASE u <= 0 - 1
    <3>1. u * K <= (0 - 1) * K
      BY <2>2, <1>1
    <3>2. u * K \in Int
      BY <1>1
    <3> QED
      BY <1>1, <3>1, <3>2
  <2> QED
    BY <2>1, <2>2, <1>1
<1>8. h \in 0 .. p - 1
  <2>1. 0 <= s * p /\ s * p < p * K
    <3>1. s * p <= (K - 1) * p /\ 0 <= s * p
      BY <1>3
    <3>2. (K - 1) * p < p * K
      OBVIOUS
    <3>3. (K - 1) * p \in Int /\ p * K \in Int
      OBVIOUS
    <3> QED
      BY <3>1, <3>2, <3>3, <1>4
  <2>2. CASE h >= p
    <3>1. h * K >= p * K
      BY <2>2, <1>5
    <3>2. h * K \in Int /\ p * K \in Int
      BY <1>5
    <3> QED
      BY <1>1, <1>5, <1>6, <2>1, <3>1, <3>2
  <2>3. CASE h <= 0 - 1
    <3>1. h * K <= (0 - 1) * K
      BY <2>3, <1>5
    <3>2. h * K \in Int
      BY <1>5
    <3> QED
      BY <1>1, <1>5, <1>6, <2>1, <3>1, <3>2
  <2> QED
    BY <2>2, <2>3, <1>5
<1>9. Congruent((u - h) * K, x, p)
  <2>1. s * p = h * K + low /\ s \in Int /\ u * K \in Int /\ h * K \in Int
    BY <1>1, <1>3, <1>5, <1>6
  <2>2. (u - h) * K = u * K - h * K
    BY <1>1, <1>5
  <2>3. p * (0 - s) = 0 - s * p /\ s * p \in Int
    BY <2>1
  <2>4. (u - h) * K - x = p * (0 - s) /\ 0 - s \in Int
    BY <1>1, <2>1, <2>2, <2>3
  <2> QED
    BY <2>4 DEF Congruent, Divides
<1> QED
  BY <1>7, <1>8, <1>9 DEF u, h, s, low

\* An odd number has an inverse modulo every power of two.
LEMMA OddInvertible ==
  ASSUME NEW p \in Int, Congruent(p, 1, 2) PROVE \A n \in Nat : Invertible(p, Pow2[n])
<1> SUFFICES ASSUME NEW n \in Nat PROVE Invertible(p, Pow2[n])
  OBVIOUS
<1> DEFINE S == {i \in 0 .. n : Invertible(p, Pow2[i])}
<1>1. 0 \in S
  <2>1. p * 1 - 1 = 1 * (p - 1) /\ p - 1 \in Int /\ 1 \in Int
    OBVIOUS
  <2>2. Invertible(p, 1)
    BY <2>1 DEF Invertible, Congruent, Divides
  <2> QED
    BY <2>2, Pow2Facts
<1>2. \A i \in 0 .. n - 1 : i \in S => i + 1 \in S
  <2> SUFFICES ASSUME NEW i \in 0 .. n - 1, Invertible(p, Pow2[i]) PROVE Invertible(p, Pow2[i + 1])
    OBVIOUS
  <2>1. i \in Nat
    OBVIOUS
  <2> DEFINE w == Pow2[i]
  <2>2. w \in Nat \ {0} /\ Pow2[i + 1] = 2 * w
    BY <2>1, Pow2Facts
  <2>3. PICK u \in Int, k \in Int : p * u - 1 = w * k
    BY DEF Invertible, Congruent, Divides
  <2>4. PICK j \in Int : p - 1 = 2 * j
    BY DEF Congruent, Divides
  <2> HIDE DEF w
  <2>5. u + w * k \in Int /\ k * (j + 1) \in Int
    BY <2>2, <2>3, <2>4
  <2>6. p * (u + w * k) - 1 = (2 * w) * (k * (j + 1))
    <3>1. w * k \in Int /\ p * u \in Int
      BY <2>2, <2>3
    <3>2. p * (u + w * k) = p * u + p * (w * k)
      BY <3>1, <2>3
    <3>3. p * (u + w * k) - 1 = (p + 1) * (w * k)
      BY <3>1, <3>2, <2>3
    <3>4. (p + 1) * (w * k) = (2 * (j + 1)) * (w * k)
      BY <2>4
    <3>5. (2 * (j + 1)) * (w * k) = (2 * w) * (k * (j + 1))
      BY <2>2, <2>3, <2>4
    <3> QED
      BY <3>3, <3>4, <3>5
  <2> QED
    BY <2>2, <2>5, <2>6 DEF Invertible, Congruent, Divides
<1> HIDE DEF S
<1>3. n \in S
  BY <1>1, <1>2, InductionUpTo
<1> QED
  BY <1>3 DEF S

\* And every power of two is invertible modulo an odd number.
LEMMA Pow2Invertible ==
  ASSUME NEW p \in Int, Congruent(p, 1, 2) PROVE \A n \in Nat : Invertible(Pow2[n], p)
<1> SUFFICES ASSUME NEW n \in Nat PROVE Invertible(Pow2[n], p)
  OBVIOUS
<1> DEFINE S == {i \in 0 .. n : Invertible(Pow2[i], p)}
<1>1. 0 \in S
  <2>1. 1 * 1 - 1 = p * 0 /\ 0 \in Int /\ 1 \in Int
    OBVIOUS
  <2>2. Invertible(1, p)
    BY <2>1 DEF Invertible, Congruent, Divides
  <2> QED
    BY <2>2, Pow2Facts
<1>2. Invertible(2, p)
  <2>1. PICK j \in Int : p - 1 = 2 * j
    BY DEF Congruent, Divides
  <2>2. 2 * (j + 1) - 1 = p * 1 /\ j + 1 \in Int /\ 1 \in Int
    BY <2>1
  <2> QED
    BY <2>2 DEF Invertible, Congruent, Divides
<1>3. \A i \in 0 .. n - 1 : i \in S => i + 1 \in S
  <2> SUFFICES ASSUME NEW i \in 0 .. n - 1, Invertible(Pow2[i], p) PROVE Invertible(Pow2[i + 1], p)
    OBVIOUS
  <2>1. Pow2[i] \in Int /\ Pow2[i + 1] = 2 * Pow2[i] /\ 2 \in Int
    BY Pow2Facts
  <2> QED
    BY <1>2, <2>1, InvertibleProduct
<1> HIDE DEF S
<1>4. n \in S
  BY <1>1, <1>3, InductionUpTo
<1> QED
  BY <1>4 DEF S
-------------------------------------------------------------------------------
(* Sums and products *)

\* The recursions that define them have solutions.
AreSums(f, g, m) == /\ g = [k \in 0 .. m |-> g[k]]
                    /\ g[0] = 0
                    /\ \A k \in 1 .. m : g[k] = g[k - 1] + f[k]
AreProducts(f, g, m) == /\ g = [k \in 0 .. m |-> g[k]]
                        /\ g[0] = 1
                        /\ \A k \in 1 .. m : g[k] = g[k - 1] * f[k]

LEMMA SomeSums == \A f : \A m \in Nat : \E g : AreSums(f, g, m)
<1> SUFFICES ASSUME NEW f PROVE \A m \in Nat : \E g : AreSums(f, g, m)
  OBVIOUS
<1> DEFINE S == {m \in Nat : ~ \E g : AreSums(f, g, m)}
<1> SUFFICES ASSUME S # {} PROVE FALSE
  OBVIOUS
<1>1. PICK n \in S : \A m \in S : n <= m
  BY LeastElement
<1>2. CASE n = 0
  <2> DEFINE g == [k \in 0 .. 0 |-> 0]
  <2>1. AreSums(f, g, 0)
    BY DEF AreSums
  <2> QED
    BY <1>1, <1>2, <2>1
<1>3. CASE n # 0
  <2>1. n \in Nat /\ n - 1 \in Nat /\ ~(n <= n - 1)
    BY <1>1, <1>3
  <2>2. PICK g : AreSums(f, g, n - 1)
    BY <1>1, <2>1
  <2> DEFINE h == [k \in 0 .. n |-> IF k = n THEN g[n - 1] + f[n] ELSE g[k]]
  <2>3. h[0] = 0
    BY <2>1, <2>2, <1>3 DEF AreSums
  <2>4. ASSUME NEW k \in 1 .. n PROVE h[k] = h[k - 1] + f[k]
    <3>1. k - 1 \in 0 .. n /\ k - 1 # n /\ k \in 0 .. n /\ h[k - 1] = g[k - 1]
      BY <2>1
    <3>2. CASE k = n
      BY <3>1, <3>2
    <3>3. CASE k # n
      <4>1. k \in 1 .. n - 1
        BY <2>1, <3>3
      <4> QED
        BY <2>2, <3>1, <3>3, <4>1 DEF AreSums
    <3> QED
      BY <3>2, <3>3
  <2>5. h = [k \in 0 .. n |-> h[k]]
    OBVIOUS
  <2>6. AreSums(f, h, n)
    <3> HIDE DEF h
    <3> QED
      BY <2>3, <2>4, <2>5 DEF AreSums
  <2> QED
    BY <1>1, <2>6
<1> QED
  BY <1>2, <1>3

LEMMA SameSums ==
  ASSUME NEW f, NEW m \in Nat, NEW n \in Nat, NEW g, NEW h, AreSums(f, g, m), AreSums(f, h, n),
         NEW k \in Nat, k <= m, k <= n
  PROVE  g[k] = h[k]
<1> DEFINE S == {j \in Nat : j <= m /\ j <= n /\ g[j] # h[j]}
<1> SUFFICES ASSUME S # {} PROVE FALSE
  OBVIOUS
<1>1. PICK j \in S : \A i \in S : j <= i
  BY LeastElement
<1>2. j # 0
  BY <1>1 DEF AreSums
<1>3. j - 1 \in Nat /\ j - 1 <= m /\ j - 1 <= n /\ ~(j <= j - 1) /\ j \in 1 .. m /\ j \in 1 .. n
  BY <1>1, <1>2
<1>4. g[j - 1] = h[j - 1]
  BY <1>1, <1>3
<1>5. g[j] = g[j - 1] + f[j] /\ h[j] = h[j - 1] + f[j]
  BY <1>3 DEF AreSums
<1> QED
  BY <1>1, <1>4, <1>5

\* A sum, term by term.
LEMMA SumSteps == \A f : SumOf(f, 0) = 0 /\ \A n \in Nat : SumOf(f, n + 1) = SumOf(f, n) + f[n + 1]
<1> SUFFICES ASSUME NEW f
             PROVE  SumOf(f, 0) = 0 /\ \A n \in Nat : SumOf(f, n + 1) = SumOf(f, n) + f[n + 1]
  OBVIOUS
<1> DEFINE G(n) == CHOOSE g : AreSums(f, g, n)
           s == [n \in Nat |-> G(n)[n]]
           Body(e) == [n \in Nat |-> IF n = 0 THEN 0 ELSE e[n - 1] + f[n]]
           sum == CHOOSE e : e = Body(e)
<1>1. \A n \in Nat : AreSums(f, G(n), n)
  BY SomeSums
<1> HIDE DEF G
<1>2. s[0] = 0
  BY <1>1 DEF AreSums
<1>3. ASSUME NEW n \in Nat, n # 0 PROVE s[n] = s[n - 1] + f[n]
  <2>1. n \in 1 .. n /\ n - 1 \in Nat /\ n - 1 <= n /\ n - 1 <= n - 1
    BY <1>3
  <2>2. G(n)[n] = G(n)[n - 1] + f[n]
    BY <1>1, <2>1 DEF AreSums
  <2>3. AreSums(f, G(n), n) /\ AreSums(f, G(n - 1), n - 1)
    BY <1>1, <2>1
  <2>4. G(n)[n - 1] = G(n - 1)[n - 1]
    BY <2>1, <2>3, SameSums
  <2> QED
    BY <2>1, <2>2, <2>4
<1>4. s = Body(s)
  <2>1. s = [n \in Nat |-> s[n]]
    OBVIOUS
  <2> HIDE DEF s
  <2>2. \A n \in Nat : s[n] = IF n = 0 THEN 0 ELSE s[n - 1] + f[n]
    BY <1>2, <1>3
  <2> QED
    BY <2>1, <2>2
<1> HIDE DEF s
<1>5. sum = Body(sum)
  <2> HIDE DEF Body
  <2> QED
    BY <1>4, Zenon
<1>6. \A n : SumOf(f, n) = sum[n]
  BY Zenon DEF SumOf
<1> HIDE DEF sum
<1>7. sum[0] = 0
  BY <1>5
<1>8. ASSUME NEW n \in Nat PROVE sum[n + 1] = sum[n] + f[n + 1]
  <2>1. n + 1 \in Nat /\ n + 1 # 0 /\ (n + 1) - 1 = n
    OBVIOUS
  <2> QED
    BY <1>5, <2>1
<1> QED
  BY <1>6, <1>7, <1>8

LEMMA SomeProducts == \A f : \A m \in Nat : \E g : AreProducts(f, g, m)
<1> SUFFICES ASSUME NEW f PROVE \A m \in Nat : \E g : AreProducts(f, g, m)
  OBVIOUS
<1> DEFINE S == {m \in Nat : ~ \E g : AreProducts(f, g, m)}
<1> SUFFICES ASSUME S # {} PROVE FALSE
  OBVIOUS
<1>1. PICK n \in S : \A m \in S : n <= m
  BY LeastElement
<1>2. CASE n = 0
  <2> DEFINE g == [k \in 0 .. 0 |-> 1]
  <2>1. AreProducts(f, g, 0)
    BY DEF AreProducts
  <2> QED
    BY <1>1, <1>2, <2>1
<1>3. CASE n # 0
  <2>1. n \in Nat /\ n - 1 \in Nat /\ ~(n <= n - 1)
    BY <1>1, <1>3
  <2>2. PICK g : AreProducts(f, g, n - 1)
    BY <1>1, <2>1
  <2> DEFINE h == [k \in 0 .. n |-> IF k = n THEN g[n - 1] * f[n] ELSE g[k]]
  <2>3. h[0] = 1
    BY <2>1, <2>2, <1>3 DEF AreProducts
  <2>4. ASSUME NEW k \in 1 .. n PROVE h[k] = h[k - 1] * f[k]
    <3>1. k - 1 \in 0 .. n /\ k - 1 # n /\ k \in 0 .. n /\ h[k - 1] = g[k - 1]
      BY <2>1
    <3>2. CASE k = n
      BY <3>1, <3>2
    <3>3. CASE k # n
      <4>1. k \in 1 .. n - 1
        BY <2>1, <3>3
      <4> QED
        BY <2>2, <3>1, <3>3, <4>1 DEF AreProducts
    <3> QED
      BY <3>2, <3>3
  <2>5. h = [k \in 0 .. n |-> h[k]]
    OBVIOUS
  <2>6. AreProducts(f, h, n)
    <3> HIDE DEF h
    <3> QED
      BY <2>3, <2>4, <2>5 DEF AreProducts
  <2> QED
    BY <1>1, <2>6
<1> QED
  BY <1>2, <1>3

LEMMA SameProducts ==
  ASSUME NEW f, NEW m \in Nat, NEW n \in Nat, NEW g, NEW h, AreProducts(f, g, m), AreProducts(f, h, n),
         NEW k \in Nat, k <= m, k <= n
  PROVE  g[k] = h[k]
<1> DEFINE S == {j \in Nat : j <= m /\ j <= n /\ g[j] # h[j]}
<1> SUFFICES ASSUME S # {} PROVE FALSE
  OBVIOUS
<1>1. PICK j \in S : \A i \in S : j <= i
  BY LeastElement
<1>2. j # 0
  BY <1>1 DEF AreProducts
<1>3. j - 1 \in Nat /\ j - 1 <= m /\ j - 1 <= n /\ ~(j <= j - 1) /\ j \in 1 .. m /\ j \in 1 .. n
  BY <1>1, <1>2
<1>4. g[j - 1] = h[j - 1]
  BY <1>1, <1>3
<1>5. g[j] = g[j - 1] * f[j] /\ h[j] = h[j - 1] * f[j]
  BY <1>3 DEF AreProducts
<1> QED
  BY <1>1, <1>4, <1>5

\* A product, factor by factor.
LEMMA ProductSteps == \A f : ProductOf(f, 0) = 1 /\ \A n \in Nat : ProductOf(f, n + 1) = ProductOf(f, n) * f[n + 1]
<1> SUFFICES ASSUME NEW f
             PROVE  ProductOf(f, 0) = 1 /\ \A n \in Nat : ProductOf(f, n + 1) = ProductOf(f, n) * f[n + 1]
  OBVIOUS
<1> DEFINE G(n) == CHOOSE g : AreProducts(f, g, n)
           s == [n \in Nat |-> G(n)[n]]
           Body(e) == [n \in Nat |-> IF n = 0 THEN 1 ELSE e[n - 1] * f[n]]
           product == CHOOSE e : e = Body(e)
<1>1. \A n \in Nat : AreProducts(f, G(n), n)
  BY SomeProducts
<1> HIDE DEF G
<1>2. s[0] = 1
  BY <1>1 DEF AreProducts
<1>3. ASSUME NEW n \in Nat, n # 0 PROVE s[n] = s[n - 1] * f[n]
  <2>1. n \in 1 .. n /\ n - 1 \in Nat /\ n - 1 <= n /\ n - 1 <= n - 1
    BY <1>3
  <2>2. G(n)[n] = G(n)[n - 1] * f[n]
    BY <1>1, <2>1 DEF AreProducts
  <2>3. AreProducts(f, G(n), n) /\ AreProducts(f, G(n - 1), n - 1)
    BY <1>1, <2>1
  <2>4. G(n)[n - 1] = G(n - 1)[n - 1]
    BY <2>1, <2>3, SameProducts
  <2> QED
    BY <2>1, <2>2, <2>4
<1>4. s = Body(s)
  <2>1. s = [n \in Nat |-> s[n]]
    OBVIOUS
  <2> HIDE DEF s
  <2>2. \A n \in Nat : s[n] = IF n = 0 THEN 1 ELSE s[n - 1] * f[n]
    BY <1>2, <1>3
  <2> QED
    BY <2>1, <2>2
<1> HIDE DEF s
<1>5. product = Body(product)
  <2> HIDE DEF Body
  <2> QED
    BY <1>4, Zenon
<1>6. \A n : ProductOf(f, n) = product[n]
  BY Zenon DEF ProductOf
<1> HIDE DEF product
<1>7. product[0] = 1
  BY <1>5
<1>8. ASSUME NEW n \in Nat PROVE product[n + 1] = product[n] * f[n + 1]
  <2>1. n + 1 \in Nat /\ n + 1 # 0 /\ (n + 1) - 1 = n
    OBVIOUS
  <2> QED
    BY <1>5, <2>1
<1> QED
  BY <1>6, <1>7, <1>8

\* The sum and the product of f[1], ..., f[n] depend on nothing else.
LEMMA SumSame ==
  ASSUME NEW n \in Nat, NEW f, NEW g, \A i \in 1 .. n : f[i] = g[i]
  PROVE  SumOf(f, n) = SumOf(g, n) /\ ProductOf(f, n) = ProductOf(g, n)
<1> DEFINE S == {i \in 0 .. n : SumOf(f, i) = SumOf(g, i) /\ ProductOf(f, i) = ProductOf(g, i)}
<1>1. 0 \in S
  BY SumSteps, ProductSteps
<1>2. ASSUME NEW i \in 0 .. n - 1, i \in S PROVE i + 1 \in S
  <2>1. i \in Nat /\ i + 1 \in 1 .. n /\ i + 1 \in 0 .. n
    OBVIOUS
  <2>2. f[i + 1] = g[i + 1]
    BY <2>1
  <2> QED
    BY <1>2, <2>1, <2>2, SumSteps, ProductSteps
<1>3. n \in S
  <2> HIDE DEF S
  <2>1. \A i \in 0 .. n : i \in S
    BY <1>1, <1>2, InductionUpTo
  <2> QED
    BY <2>1
<1> QED
  BY <1>3

\* They are numbers; a product of positive numbers is positive.
LEMMA SumIsNumber ==
  ASSUME NEW n \in Nat, NEW f, \A i \in 1 .. n : f[i] \in Int
  PROVE  SumOf(f, n) \in Int /\ ProductOf(f, n) \in Int
<1> DEFINE S == {i \in 0 .. n : SumOf(f, i) \in Int /\ ProductOf(f, i) \in Int}
<1>1. 0 \in S
  BY SumSteps, ProductSteps
<1>2. ASSUME NEW i \in 0 .. n - 1, i \in S PROVE i + 1 \in S
  <2>1. i \in Nat /\ i + 1 \in 1 .. n /\ i + 1 \in 0 .. n
    OBVIOUS
  <2>2. f[i + 1] \in Int
    BY <2>1
  <2>3. SumOf(f, i + 1) = SumOf(f, i) + f[i + 1] /\ ProductOf(f, i + 1) = ProductOf(f, i) * f[i + 1]
    BY <2>1, SumSteps, ProductSteps
  <2> QED
    BY <1>2, <2>1, <2>2, <2>3
<1>3. n \in S
  <2> HIDE DEF S
  <2>1. \A i \in 0 .. n : i \in S
    BY <1>1, <1>2, InductionUpTo
  <2> QED
    BY <2>1
<1> QED
  BY <1>3

LEMMA ProductIsPositive ==
  ASSUME NEW n \in Nat, NEW f, \A i \in 1 .. n : f[i] \in Nat \ {0}
  PROVE  ProductOf(f, n) \in Nat \ {0}
<1> DEFINE S == {i \in 0 .. n : ProductOf(f, i) \in Nat \ {0}}
<1>1. 0 \in S
  BY ProductSteps
<1>2. ASSUME NEW i \in 0 .. n - 1, i \in S PROVE i + 1 \in S
  <2>1. i \in Nat /\ i + 1 \in 1 .. n /\ i + 1 \in 0 .. n
    OBVIOUS
  <2>2. f[i + 1] \in Nat \ {0}
    BY <2>1
  <2>3. ProductOf(f, i + 1) = ProductOf(f, i) * f[i + 1]
    BY <2>1, ProductSteps
  <2>4. \A x, y \in Nat \ {0} : x * y \in Nat \ {0}
    OBVIOUS
  <2> QED
    BY <1>2, <2>1, <2>2, <2>3, <2>4
<1>3. n \in S
  <2> HIDE DEF S
  <2>1. \A i \in 0 .. n : i \in S
    BY <1>1, <1>2, InductionUpTo
  <2> QED
    BY <2>1
<1> QED
  BY <1>3

\* Sums of bounded terms are bounded.
LEMMA SumBound ==
  ASSUME NEW n \in Nat, NEW f, NEW b \in Nat, \A i \in 1 .. n : f[i] \in 0 .. b
  PROVE  SumOf(f, n) \in 0 .. n * b
<1> DEFINE S == {i \in 0 .. n : SumOf(f, i) \in 0 .. i * b}
<1>1. 0 \in S
  BY SumSteps
<1>2. ASSUME NEW i \in 0 .. n - 1, i \in S PROVE i + 1 \in S
  <2>1. i \in Nat /\ i + 1 \in 1 .. n /\ i + 1 \in 0 .. n
    OBVIOUS
  <2>2. f[i + 1] \in 0 .. b
    BY <2>1
  <2>3. SumOf(f, i + 1) = SumOf(f, i) + f[i + 1]
    BY <2>1, SumSteps
  <2>4. i * b + b = (i + 1) * b /\ i * b \in Nat /\ (i + 1) * b \in Nat
    BY <2>1
  <2> QED
    BY <1>2, <2>1, <2>2, <2>3, <2>4
<1>3. n \in S
  <2> HIDE DEF S
  <2>1. \A i \in 0 .. n : i \in S
    BY <1>1, <1>2, InductionUpTo
  <2> QED
    BY <2>1
<1> QED
  BY <1>3

\* Sums of congruent terms are congruent.
LEMMA SumCongruent ==
  ASSUME NEW m \in Int, NEW n \in Nat, NEW f, NEW g,
         \A i \in 1 .. n : f[i] \in Int /\ g[i] \in Int /\ Congruent(f[i], g[i], m)
  PROVE  Congruent(SumOf(f, n), SumOf(g, n), m) /\ Congruent(ProductOf(f, n), ProductOf(g, n), m)
<1> DEFINE S == {i \in 0 .. n : /\ SumOf(f, i) \in Int /\ SumOf(g, i) \in Int
                                /\ ProductOf(f, i) \in Int /\ ProductOf(g, i) \in Int
                                /\ Congruent(SumOf(f, i), SumOf(g, i), m)
                                /\ Congruent(ProductOf(f, i), ProductOf(g, i), m)}
<1>1. 0 \in S
  <2>1. Congruent(0, 0, m) /\ Congruent(1, 1, m)
    BY CongruenceIsEquivalence
  <2> QED
    BY <2>1, SumSteps, ProductSteps
<1>2. ASSUME NEW i \in 0 .. n - 1, i \in S PROVE i + 1 \in S
  <2>1. i \in Nat /\ i + 1 \in 1 .. n /\ i + 1 \in 0 .. n
    OBVIOUS
  <2>2. f[i + 1] \in Int /\ g[i + 1] \in Int /\ Congruent(f[i + 1], g[i + 1], m)
    BY <2>1
  <2>3. /\ SumOf(f, i + 1) = SumOf(f, i) + f[i + 1] /\ ProductOf(f, i + 1) = ProductOf(f, i) * f[i + 1]
        /\ SumOf(g, i + 1) = SumOf(g, i) + g[i + 1] /\ ProductOf(g, i + 1) = ProductOf(g, i) * g[i + 1]
    BY <2>1, SumSteps, ProductSteps
  <2>4. /\ Congruent(SumOf(f, i) + f[i + 1], SumOf(g, i) + g[i + 1], m)
        /\ Congruent(ProductOf(f, i) * f[i + 1], ProductOf(g, i) * g[i + 1], m)
    BY <1>2, <2>2, CongruentOperations
  <2> QED
    BY <1>2, <2>1, <2>2, <2>3, <2>4
<1>3. n \in S
  <2> HIDE DEF S
  <2>1. \A i \in 0 .. n : i \in S
    BY <1>1, <1>2, InductionUpTo
  <2> QED
    BY <2>1
<1> QED
  BY <1>3

\* A sum with one term.
LEMMA SumSingle ==
  ASSUME NEW n \in Nat, NEW j \in 1 .. n, NEW x \in Int, NEW f,
         \A i \in 1 .. n : f[i] = IF i = j THEN x ELSE 0
  PROVE  SumOf(f, n) = x
<1> DEFINE S == {i \in 0 .. n : SumOf(f, i) = IF j <= i THEN x ELSE 0}
<1>1. 0 \in S
  BY SumSteps
<1>2. ASSUME NEW i \in 0 .. n - 1, i \in S PROVE i + 1 \in S
  <2>1. i \in Nat /\ i + 1 \in 1 .. n /\ i + 1 \in 0 .. n
    OBVIOUS
  <2>2. f[i + 1] = IF i + 1 = j THEN x ELSE 0
    BY <2>1
  <2>3. SumOf(f, i + 1) = SumOf(f, i) + f[i + 1]
    BY <2>1, SumSteps
  <2> QED
    BY <1>2, <2>1, <2>2, <2>3
<1>3. n \in S
  <2> HIDE DEF S
  <2>1. \A i \in 0 .. n : i \in S
    BY <1>1, <1>2, InductionUpTo
  <2> QED
    BY <2>1
<1> QED
  BY <1>3

\* A product is one of its factors times the others; it has each factor as a
\* divisor, and an inverse if they have.
LEMMA HatTimesFactor ==
  ASSUME NEW n \in Nat, NEW f, \A i \in 1 .. n : f[i] \in Int, NEW j \in 1 .. n
  PROVE  HatOf(f, n, j) \in Int /\ ProductOf(f, n) = f[j] * HatOf(f, n, j)
<1> DEFINE g == [i \in 1 .. n |-> IF i = j THEN 1 ELSE f[i]]
<1>0. \A i \in 1 .. n : g[i] = (IF i = j THEN 1 ELSE f[i]) /\ g[i] \in Int
  OBVIOUS
<1>1. HatOf(f, n, j) = ProductOf(g, n)
  BY Zenon DEF HatOf
<1> HIDE DEF g
<1> DEFINE S == {i \in 0 .. n : /\ ProductOf(g, i) \in Int
                                /\ ProductOf(f, i) = (IF j <= i THEN f[j] ELSE 1) * ProductOf(g, i)}
<1>2. 0 \in S
  BY ProductSteps
<1>3. ASSUME NEW i \in 0 .. n - 1, i \in S PROVE i + 1 \in S
  <2>1. i \in Nat /\ i + 1 \in 1 .. n /\ i + 1 \in 0 .. n
    OBVIOUS
  <2>2. ProductOf(f, i + 1) = ProductOf(f, i) * f[i + 1] /\ ProductOf(g, i + 1) = ProductOf(g, i) * g[i + 1]
    BY <2>1, ProductSteps
  <2>3. f[i + 1] \in Int /\ g[i + 1] \in Int /\ f[j] \in Int
    BY <1>0, <2>1
  <2>4. ProductOf(g, i) \in Int /\ ProductOf(g, i + 1) \in Int
    BY <1>3, <2>2, <2>3
  <2>5. CASE i + 1 = j
    <3>1. ProductOf(f, i) = 1 * ProductOf(g, i) /\ g[i + 1] = 1
      BY <1>0, <1>3, <2>1, <2>5
    <3>2. ProductOf(f, i + 1) = f[j] * ProductOf(g, i + 1)
      BY <2>2, <2>3, <2>4, <2>5, <3>1
    <3> QED
      BY <2>1, <2>4, <2>5, <3>2
  <2>6. CASE i + 1 # j
    <3> DEFINE x == IF j <= i THEN f[j] ELSE 1
    <3>1. x \in Int /\ ProductOf(f, i) = x * ProductOf(g, i) /\ g[i + 1] = f[i + 1]
      BY <1>0, <1>3, <2>1, <2>3, <2>6
    <3>2. x = IF j <= i + 1 THEN f[j] ELSE 1
      BY <2>1, <2>6
    <3> HIDE DEF x
    <3>3. ProductOf(f, i + 1) = (x * ProductOf(g, i)) * f[i + 1]
      BY <2>2, <3>1
    <3>4. (x * ProductOf(g, i)) * f[i + 1] = x * (ProductOf(g, i) * f[i + 1])
      BY <2>3, <2>4, <3>1
    <3>5. ProductOf(f, i + 1) = x * ProductOf(g, i + 1)
      BY <2>2, <3>1, <3>3, <3>4
    <3> QED
      BY <2>1, <2>4, <3>2, <3>5
  <2> QED
    BY <2>5, <2>6
<1>4. n \in S
  <2> HIDE DEF S
  <2>1. \A i \in 0 .. n : i \in S
    BY <1>2, <1>3, InductionUpTo
  <2> QED
    BY <2>1
<1> QED
  BY <1>1, <1>4

LEMMA FactorDivides ==
  ASSUME NEW n \in Nat, NEW f, \A i \in 1 .. n : f[i] \in Int, NEW j \in 1 .. n
  PROVE  Divides(f[j], ProductOf(f, n))
<1>1. HatOf(f, n, j) \in Int /\ ProductOf(f, n) = f[j] * HatOf(f, n, j)
  BY HatTimesFactor
<1> QED
  BY <1>1 DEF Divides

LEMMA InvertibleProductOf ==
  ASSUME NEW n \in Nat, NEW m \in Int, NEW f, \A i \in 1 .. n : f[i] \in Int /\ Invertible(f[i], m)
  PROVE  Invertible(ProductOf(f, n), m)
<1> DEFINE S == {i \in 0 .. n : ProductOf(f, i) \in Int /\ Invertible(ProductOf(f, i), m)}
<1>1. 0 \in S
  <2>1. 1 * 1 = 1 /\ Congruent(1, 1, m)
    BY CongruenceIsEquivalence
  <2>2. Congruent(1 * 1, 1, m)
    BY <2>1
  <2>3. Invertible(1, m)
    BY <2>2 DEF Invertible
  <2> QED
    BY <2>3, ProductSteps
<1>2. ASSUME NEW i \in 0 .. n - 1, i \in S PROVE i + 1 \in S
  <2>1. i \in Nat /\ i + 1 \in 1 .. n /\ i + 1 \in 0 .. n
    OBVIOUS
  <2>2. f[i + 1] \in Int /\ Invertible(f[i + 1], m)
    BY <2>1
  <2>3. ProductOf(f, i + 1) = ProductOf(f, i) * f[i + 1]
    BY <2>1, ProductSteps
  <2>4. Invertible(ProductOf(f, i) * f[i + 1], m)
    BY <1>2, <2>2, InvertibleProduct
  <2> QED
    BY <1>2, <2>1, <2>2, <2>3, <2>4
<1>3. n \in S
  <2> HIDE DEF S
  <2>1. \A i \in 0 .. n : i \in S
    BY <1>1, <1>2, InductionUpTo
  <2> QED
    BY <2>1
<1> QED
  BY <1>3

-------------------------------------------------------------------------------
(* Sums of f[0], ..., f[n - 1] *)

\* Term by term.
LEMMA BelowSteps ==
  \A f : SumBelow(f, 0) = 0 /\ \A n \in Nat : SumBelow(f, n + 1) = SumBelow(f, n) + f[n]
<1> SUFFICES ASSUME NEW f
             PROVE  SumBelow(f, 0) = 0 /\ \A n \in Nat : SumBelow(f, n + 1) = SumBelow(f, n) + f[n]
  OBVIOUS
<1> DEFINE g(n) == [i \in 1 .. n |-> f[i - 1]]
<1>1. \A n : SumBelow(f, n) = SumOf(g(n), n)
  BY DEF SumBelow
<1>2. SumOf(g(0), 0) = 0
  BY SumSteps
<1>3. ASSUME NEW n \in Nat PROVE SumOf(g(n + 1), n + 1) = SumOf(g(n), n) + f[n]
  <2>1. \A i \in 1 .. n : g(n + 1)[i] = g(n)[i]
    OBVIOUS
  <2>2. n + 1 \in 1 .. n + 1 /\ (n + 1) - 1 = n /\ g(n + 1)[n + 1] = f[n]
    OBVIOUS
  <2> HIDE DEF g
  <2>3. SumOf(g(n + 1), n) = SumOf(g(n), n)
    BY <2>1, SumSame
  <2>4. SumOf(g(n + 1), n + 1) = SumOf(g(n + 1), n) + g(n + 1)[n + 1]
    BY SumSteps
  <2> QED
    BY <2>2, <2>3, <2>4
<1> QED
  BY <1>1, <1>2, <1>3

\* Such a sum is a number, depends on these terms alone, and is congruent if they are.
LEMMA BelowIsNumber ==
  ASSUME NEW n \in Nat, NEW f, \A i \in 0 .. n - 1 : f[i] \in Int PROVE SumBelow(f, n) \in Int
<1> DEFINE S == {i \in 0 .. n : SumBelow(f, i) \in Int}
<1>1. 0 \in S
  BY BelowSteps
<1>2. ASSUME NEW i \in 0 .. n - 1, i \in S PROVE i + 1 \in S
  <2>1. i \in Nat /\ i + 1 \in 0 .. n /\ f[i] \in Int /\ SumBelow(f, i + 1) = SumBelow(f, i) + f[i]
    BY BelowSteps
  <2> QED
    BY <1>2, <2>1
<1> HIDE DEF S
<1>3. n \in S
  BY <1>1, <1>2, InductionUpTo
<1> QED
  BY <1>3 DEF S

LEMMA BelowCongruent ==
  ASSUME NEW m \in Int, NEW n \in Nat, NEW f, NEW g,
         \A i \in 0 .. n - 1 : f[i] \in Int /\ g[i] \in Int /\ Congruent(f[i], g[i], m)
  PROVE  Congruent(SumBelow(f, n), SumBelow(g, n), m)
<1> DEFINE S == {i \in 0 .. n : /\ SumBelow(f, i) \in Int /\ SumBelow(g, i) \in Int
                                /\ Congruent(SumBelow(f, i), SumBelow(g, i), m)}
<1>1. 0 \in S
  BY BelowSteps, CongruenceIsEquivalence
<1>2. ASSUME NEW i \in 0 .. n - 1, i \in S PROVE i + 1 \in S
  <2>1. i \in Nat /\ i + 1 \in 0 .. n
    OBVIOUS
  <2>2. SumBelow(f, i + 1) = SumBelow(f, i) + f[i] /\ SumBelow(g, i + 1) = SumBelow(g, i) + g[i]
    BY <2>1, BelowSteps
  <2>3. f[i] \in Int /\ g[i] \in Int /\ Congruent(f[i], g[i], m)
    OBVIOUS
  <2>4. Congruent(SumBelow(f, i) + f[i], SumBelow(g, i) + g[i], m)
    BY <1>2, <2>3, CongruentOperations
  <2> QED
    BY <1>2, <2>1, <2>2, <2>3, <2>4
<1> HIDE DEF S
<1>3. n \in S
  BY <1>1, <1>2, InductionUpTo
<1> QED
  BY <1>3 DEF S

LEMMA BelowSame ==
  ASSUME NEW n \in Nat, NEW f, NEW g, \A i \in 0 .. n - 1 : f[i] = g[i]
  PROVE  SumBelow(f, n) = SumBelow(g, n)
<1> DEFINE S == {i \in 0 .. n : SumBelow(f, i) = SumBelow(g, i)}
<1>1. 0 \in S
  BY BelowSteps
<1>2. ASSUME NEW i \in 0 .. n - 1, i \in S PROVE i + 1 \in S
  <2>1. i \in Nat /\ i + 1 \in 0 .. n /\ f[i] = g[i]
    OBVIOUS
  <2> QED
    BY <1>2, <2>1, BelowSteps
<1> HIDE DEF S
<1>3. n \in S
  BY <1>1, <1>2, InductionUpTo
<1> QED
  BY <1>3 DEF S

\* Sums of sums and of multiples.
AreCombined(h, c, f, d, g, n) ==
  \A i \in 0 .. n - 1 : f[i] \in Int /\ g[i] \in Int /\ h[i] = c * f[i] + d * g[i]

LEMMA BelowLinear ==
  ASSUME NEW n \in Nat, NEW f, NEW g, NEW h, NEW c \in Int, NEW d \in Int, AreCombined(h, c, f, d, g, n)
  PROVE  SumBelow(h, n) = c * SumBelow(f, n) + d * SumBelow(g, n)
<1> DEFINE S == {i \in 0 .. n : /\ SumBelow(f, i) \in Int /\ SumBelow(g, i) \in Int
                                /\ SumBelow(h, i) = c * SumBelow(f, i) + d * SumBelow(g, i)}
<1>1. 0 \in S
  <2>1. 0 = c * 0 + d * 0
    OBVIOUS
  <2> QED
    BY <2>1, BelowSteps
<1>2. ASSUME NEW i \in 0 .. n - 1, i \in S PROVE i + 1 \in S
  <2>1. i \in Nat /\ i + 1 \in 0 .. n
    OBVIOUS
  <2>2. /\ SumBelow(f, i + 1) = SumBelow(f, i) + f[i] /\ SumBelow(g, i + 1) = SumBelow(g, i) + g[i]
        /\ SumBelow(h, i + 1) = SumBelow(h, i) + h[i]
    BY <2>1, BelowSteps
  <2>3. f[i] \in Int /\ g[i] \in Int /\ h[i] = c * f[i] + d * g[i]
    BY DEF AreCombined
  <2>4. \A x, y, u, v \in Int : (c * x + d * y) + (c * u + d * v) = c * (x + u) + d * (y + v)
    OBVIOUS
  <2> QED
    BY <1>2, <2>1, <2>2, <2>3, <2>4
<1> HIDE DEF S
<1>3. n \in S
  BY <1>1, <1>2, InductionUpTo
<1> QED
  BY <1>3 DEF S

LEMMA BelowTimes ==
  ASSUME NEW n \in Nat, NEW f, NEW h, NEW c \in Int,
         \A i \in 0 .. n - 1 : f[i] \in Int /\ h[i] = c * f[i]
  PROVE  SumBelow(f, n) \in Int /\ SumBelow(h, n) = c * SumBelow(f, n)
<1>1. AreCombined(h, c, f, 0, f, n)
  <2>1. \A x \in Int : c * x = c * x + 0 * x
    OBVIOUS
  <2> QED
    BY <2>1 DEF AreCombined
<1>2. SumBelow(h, n) = c * SumBelow(f, n) + 0 * SumBelow(f, n)
  BY <1>1, BelowLinear
<1>3. SumBelow(f, n) \in Int
  BY BelowIsNumber
<1>4. \A x \in Int : c * x + 0 * x = c * x
  OBVIOUS
<1> QED
  BY <1>2, <1>3, <1>4

LEMMA BelowPlus ==
  ASSUME NEW n \in Nat, NEW f, NEW g, NEW h,
         \A i \in 0 .. n - 1 : f[i] \in Int /\ g[i] \in Int /\ h[i] = f[i] + g[i]
  PROVE  /\ SumBelow(f, n) \in Int /\ SumBelow(g, n) \in Int
         /\ SumBelow(h, n) = SumBelow(f, n) + SumBelow(g, n)
<1>1. \A x, y \in Int : x + y = 1 * x + 1 * y
  OBVIOUS
<1>2. AreCombined(h, 1, f, 1, g, n)
  BY <1>1 DEF AreCombined
<1>3. SumBelow(h, n) = 1 * SumBelow(f, n) + 1 * SumBelow(g, n)
  BY <1>2, BelowLinear
<1>4. SumBelow(f, n) \in Int /\ SumBelow(g, n) \in Int
  BY BelowIsNumber
<1> QED
  BY <1>1, <1>3, <1>4

\* A sum with at most one term that is not zero.
LEMMA BelowSingle ==
  ASSUME NEW n \in Nat, NEW j \in 0 .. n - 1, NEW f, \A i \in 0 .. n - 1 : i # j => f[i] = 0,
         f[j] \in Int
  PROVE  SumBelow(f, n) = f[j]
<1> DEFINE S == {i \in 0 .. n : SumBelow(f, i) = IF j < i THEN f[j] ELSE 0}
<1>1. 0 \in S
  BY BelowSteps
<1>2. ASSUME NEW i \in 0 .. n - 1, i \in S PROVE i + 1 \in S
  <2>1. i \in Nat /\ i + 1 \in 0 .. n /\ (i # j => f[i] = 0)
    OBVIOUS
  <2>2. SumBelow(f, i + 1) = SumBelow(f, i) + f[i]
    BY <2>1, BelowSteps
  <2> QED
    BY <1>2, <2>1, <2>2
<1> HIDE DEF S
<1>3. n \in S
  BY <1>1, <1>2, InductionUpTo
<1> QED
  BY <1>3 DEF S

\* The first term apart.
LEMMA BelowFirst ==
  ASSUME NEW n \in Nat, NEW f, NEW g, \A i \in 0 .. n : f[i] \in Int, \A i \in 0 .. n - 1 : g[i] = f[i + 1]
  PROVE  SumBelow(f, n + 1) = f[0] + SumBelow(g, n)
<1> DEFINE S == {i \in 0 .. n : SumBelow(f, i + 1) = f[0] + SumBelow(g, i)}
<1>1. 0 \in S
  <2>1. SumBelow(f, 0 + 1) = SumBelow(f, 0) + f[0] /\ SumBelow(f, 0) = 0 /\ SumBelow(g, 0) = 0
    BY BelowSteps
  <2>2. f[0] \in Int
    OBVIOUS
  <2> QED
    BY <2>1, <2>2
<1>2. \A i \in 0 .. n - 1 : i \in S => i + 1 \in S
  <2> SUFFICES ASSUME NEW i \in 0 .. n - 1, SumBelow(f, i + 1) = f[0] + SumBelow(g, i) PROVE i + 1 \in S
    OBVIOUS
  <2>1. i \in Nat /\ i + 1 \in Nat /\ i + 1 \in 0 .. n
    OBVIOUS
  <2>2. SumBelow(f, (i + 1) + 1) = SumBelow(f, i + 1) + f[i + 1] /\ SumBelow(g, i + 1) = SumBelow(g, i) + g[i]
    BY <2>1, BelowSteps
  <2>3. SumBelow(g, i) \in Int
    <3>1. \A j \in 0 .. i - 1 : g[j] \in Int
      OBVIOUS
    <3> QED
      BY <2>1, <3>1, BelowIsNumber
  <2>4. f[0] \in Int /\ f[i + 1] \in Int /\ g[i] = f[i + 1]
    BY <2>1
  <2> QED
    BY <2>1, <2>2, <2>3, <2>4
<1> HIDE DEF S
<1>3. n \in S
  BY <1>1, <1>2, InductionUpTo
<1> QED
  BY <1>3 DEF S

\* The terms of a table, by rows or by columns.
LEMMA BelowSwap ==
  ASSUME NEW m \in Nat, NEW n \in Nat, NEW t,
         \A i \in 0 .. m - 1 : \A j \in 0 .. n - 1 : t[i][j] \in Int
  PROVE  SumBelow([i \in 0 .. m - 1 |-> SumBelow(t[i], n)], m)
           = SumBelow([j \in 0 .. n - 1 |-> SumBelow([i \in 0 .. m - 1 |-> t[i][j]], m)], n)
<1> DEFINE row == [i \in 0 .. m - 1 |-> SumBelow(t[i], n)]
           col(k) == [j \in 0 .. n - 1 |-> SumBelow([i \in 0 .. m - 1 |-> t[i][j]], k)]
           S == {k \in 0 .. m : SumBelow(row, k) = SumBelow(col(k), n)}
<1>1. 0 \in S
  <2>1. \A j \in 0 .. n - 1 : col(0)[j] = 0
    BY BelowSteps
  <2> DEFINE z == [j \in 0 .. n - 1 |-> 0]
  <2>2. \A j \in 0 .. n - 1 : z[j] \in Int /\ z[j] = 0 * z[j] /\ col(0)[j] = z[j]
    BY <2>1
  <2> HIDE DEF z, col
  <2>3. SumBelow(z, n) \in Int /\ SumBelow(z, n) = 0 * SumBelow(z, n)
    BY <2>2, BelowTimes
  <2>4. SumBelow(col(0), n) = SumBelow(z, n)
    BY <2>2, BelowSame
  <2>5. SumBelow(row, 0) = 0
    BY BelowSteps
  <2> QED
    BY <2>3, <2>4, <2>5
<1>2. ASSUME NEW k \in 0 .. m - 1, k \in S PROVE k + 1 \in S
  <2>1. k \in Nat /\ k + 1 \in 0 .. m /\ k \in 0 .. m
    OBVIOUS
  <2>2. SumBelow(row, k + 1) = SumBelow(row, k) + SumBelow(t[k], n)
    BY <2>1, BelowSteps
  <2>3. ASSUME NEW j \in 0 .. n - 1
        PROVE  col(k)[j] \in Int /\ t[k][j] \in Int /\ col(k + 1)[j] = col(k)[j] + t[k][j]
    <3> DEFINE c == [i \in 0 .. m - 1 |-> t[i][j]]
    <3>1. \A i \in 0 .. k - 1 : c[i] \in Int
      BY <2>1
    <3>2. c[k] = t[k][j] /\ t[k][j] \in Int
      OBVIOUS
    <3>3. col(k)[j] = SumBelow(c, k) /\ col(k + 1)[j] = SumBelow(c, k + 1)
      OBVIOUS
    <3> HIDE DEF c, col
    <3>4. SumBelow(c, k) \in Int
      BY <2>1, <3>1, BelowIsNumber
    <3>5. SumBelow(c, k + 1) = SumBelow(c, k) + c[k]
      BY <2>1, BelowSteps
    <3> QED
      BY <3>2, <3>3, <3>4, <3>5
  <2> HIDE DEF col, row
  <2>4. SumBelow(col(k + 1), n) = SumBelow(col(k), n) + SumBelow(t[k], n)
    BY <2>3, BelowPlus
  <2> QED
    BY <1>2, <2>1, <2>2, <2>4
<1> HIDE DEF S
<1>3. m \in S
  BY <1>1, <1>2, InductionUpTo
<1> QED
  BY <1>3 DEF S

\* The sum of m * n terms, n by n.
LEMMA BelowSplit ==
  ASSUME NEW m \in Nat, NEW n \in Nat, NEW f, \A k \in 0 .. m * n - 1 : f[k] \in Int
  PROVE  SumBelow(f, m * n)
           = SumBelow([i \in 0 .. m - 1 |-> SumBelow([j \in 0 .. n - 1 |-> f[i * n + j]], n)], m)
<1> DEFINE part(i) == [j \in 0 .. n - 1 |-> f[i * n + j]]
           g == [i \in 0 .. m - 1 |-> SumBelow(part(i), n)]
           S == {i \in 0 .. m : SumBelow(f, i * n) = SumBelow(g, i)}
<1>1. 0 \in S
  <2>1. 0 * n = 0
    OBVIOUS
  <2> QED
    BY <2>1, BelowSteps
<1>2. ASSUME NEW i \in 0 .. m - 1, i \in S PROVE i + 1 \in S
  <2>1. i \in Nat /\ i + 1 \in 0 .. m /\ i * n \in Nat
    OBVIOUS
  <2>2. (i + 1) * n = i * n + n /\ i * n + n <= m * n
    <3>1. m - (i + 1) \in Nat
      OBVIOUS
    <3>2. \A x, y \in Nat : x * y \in Nat
      OBVIOUS
    <3>3. (m - (i + 1)) * n \in Nat
      BY <3>1, <3>2
    <3>4. (m - (i + 1)) * n = m * n - (i * n + n) /\ (i + 1) * n = i * n + n
      OBVIOUS
    <3>5. m * n \in Nat
      BY <3>2
    <3> QED
      BY <2>1, <3>3, <3>4, <3>5
  <2> DEFINE T == {j \in 0 .. n : SumBelow(f, i * n + j) = SumBelow(f, i * n) + SumBelow(part(i), j)}
  <2>3. 0 \in T
    <3>1. SumBelow(f, i * n) \in Int
      <4>1. m * n \in Nat
        OBVIOUS
      <4>2. \A k \in 0 .. i * n - 1 : f[k] \in Int
        BY <2>1, <2>2, <4>1
      <4> QED
        BY <2>1, <4>2, BelowIsNumber
    <3> QED
      BY <2>1, <3>1, BelowSteps
  <2>4. ASSUME NEW j \in 0 .. n - 1, j \in T PROVE j + 1 \in T
    <3> DEFINE b == i * n
    <3>0. m * n \in Nat
      OBVIOUS
    <3>1. b \in Nat /\ b + n <= m * n
      BY <2>1, <2>2
    <3> HIDE DEF b
    <3>2. j \in Nat /\ j + 1 \in 0 .. n /\ b + j \in Nat /\ b + (j + 1) = (b + j) + 1 /\ b + j \in 0 .. m * n - 1
      BY <3>0, <3>1
    <3>3. SumBelow(f, (b + j) + 1) = SumBelow(f, b + j) + f[b + j] /\ f[b + j] \in Int
      BY <3>2, BelowSteps
    <3>4. part(i)[j] = f[b + j]
      BY DEF b
    <3>5. SumBelow(part(i), j + 1) = SumBelow(part(i), j) + part(i)[j]
      BY <3>2, BelowSteps
    <3>6. SumBelow(part(i), j) \in Int
      <4>1. \A x \in 0 .. j - 1 : x \in 0 .. n - 1 /\ b + x \in 0 .. m * n - 1
        BY <3>0, <3>1
      <4>2. \A x \in 0 .. j - 1 : part(i)[x] \in Int
        BY <4>1 DEF b
      <4> HIDE DEF part
      <4> QED
        BY <3>2, <4>2, BelowIsNumber
    <3>7. SumBelow(f, b) \in Int
      <4>1. \A k \in 0 .. b - 1 : f[k] \in Int
        BY <3>0, <3>1
      <4> QED
        BY <3>1, <4>1, BelowIsNumber
    <3> HIDE DEF part
    <3>8. SumBelow(f, b + j) = SumBelow(f, b) + SumBelow(part(i), j)
      BY <2>4 DEF b
    <3>9. SumBelow(f, b + (j + 1)) = SumBelow(f, b) + SumBelow(part(i), j + 1)
      BY <3>2, <3>3, <3>4, <3>5, <3>6, <3>7, <3>8
    <3> QED
      BY <3>2, <3>9 DEF b
  <2> HIDE DEF T
  <2>5. n \in T
    BY <2>3, <2>4, InductionUpTo
  <2>6. SumBelow(f, i * n + n) = SumBelow(f, i * n) + SumBelow(part(i), n)
    BY <2>5 DEF T
  <2>7. g[i] = SumBelow(part(i), n)
    OBVIOUS
  <2> HIDE DEF g
  <2>8. SumBelow(g, i + 1) = SumBelow(g, i) + g[i]
    BY <2>1, BelowSteps
  <2> QED
    BY <1>2, <2>1, <2>2, <2>6, <2>7, <2>8
<1> HIDE DEF S
<1>3. m \in S
  BY <1>1, <1>2, InductionUpTo
<1> QED
  BY <1>3 DEF S

\* The same terms in another order: p[i] is the place of the i-th.
IsReordering(n, f, g, p, r) ==
  /\ p \in [0 .. n - 1 -> 0 .. n - 1] /\ r \in [0 .. n - 1 -> 0 .. n - 1]
  /\ \A i \in 0 .. n - 1 : f[i] \in Int /\ g[i] = f[p[i]] /\ r[p[i]] = i /\ p[r[i]] = i

LEMMA BelowReordered ==
  ASSUME NEW n \in Nat, NEW f, NEW g, NEW p, NEW r, IsReordering(n, f, g, p, r)
  PROVE  SumBelow(g, n) = SumBelow(f, n)
<1> USE DEF IsReordering
<1> DEFINE t == [i \in 0 .. n - 1 |-> [j \in 0 .. n - 1 |-> IF j = p[i] THEN f[j] ELSE 0]]
           rows == [i \in 0 .. n - 1 |-> SumBelow(t[i], n)]
           cols == [j \in 0 .. n - 1 |-> SumBelow([i \in 0 .. n - 1 |-> t[i][j]], n)]
<1>1. \A i \in 0 .. n - 1 : \A j \in 0 .. n - 1 : t[i][j] \in Int
  OBVIOUS
<1>2. ASSUME NEW i \in 0 .. n - 1 PROVE rows[i] = g[i]
  <2> DEFINE c == t[i]
  <2>1. p[i] \in 0 .. n - 1 /\ c[p[i]] = f[p[i]] /\ c[p[i]] \in Int /\ \A j \in 0 .. n - 1 : j # p[i] => c[j] = 0
    OBVIOUS
  <2>2. rows[i] = SumBelow(c, n)
    OBVIOUS
  <2> HIDE DEF c, rows
  <2>3. SumBelow(c, n) = c[p[i]]
    <3> DEFINE j == p[i]
    <3>1. j \in 0 .. n - 1 /\ c[j] \in Int /\ \A x \in 0 .. n - 1 : x # j => c[x] = 0
      BY <2>1
    <3> HIDE DEF j
    <3>2. SumBelow(c, n) = c[j]
      BY <3>1, BelowSingle
    <3> QED
      BY <3>2 DEF j
  <2> QED
    BY <2>1, <2>2, <2>3
<1>3. ASSUME NEW j \in 0 .. n - 1 PROVE cols[j] = f[j]
  <2> DEFINE c == [i \in 0 .. n - 1 |-> t[i][j]]
  <2>1. r[j] \in 0 .. n - 1 /\ p[r[j]] = j /\ \A i \in 0 .. n - 1 : j = p[i] => i = r[j]
    OBVIOUS
  <2>2. c[r[j]] = f[j] /\ c[r[j]] \in Int /\ \A i \in 0 .. n - 1 : i # r[j] => c[i] = 0
    BY <2>1
  <2>3. cols[j] = SumBelow(c, n)
    OBVIOUS
  <2> HIDE DEF c, cols
  <2>4. SumBelow(c, n) = c[r[j]]
    <3> DEFINE i == r[j]
    <3>1. i \in 0 .. n - 1 /\ c[i] \in Int /\ \A x \in 0 .. n - 1 : x # i => c[x] = 0
      BY <2>1, <2>2
    <3> HIDE DEF i
    <3>2. SumBelow(c, n) = c[i]
      BY <3>1, BelowSingle
    <3> QED
      BY <3>2 DEF i
  <2> QED
    BY <2>2, <2>3, <2>4
<1> HIDE DEF t
<1>4. SumBelow(rows, n) = SumBelow(cols, n)
  BY <1>1, BelowSwap
<1> HIDE DEF rows, cols
<1>5. SumBelow(rows, n) = SumBelow(g, n)
  BY <1>2, BelowSame
<1>6. SumBelow(cols, n) = SumBelow(f, n)
  BY <1>3, BelowSame
<1> QED
  BY <1>4, <1>5, <1>6

-------------------------------------------------------------------------------
(* Residues: n moduli, no two with a common factor *)

AreModuli(m, n) ==
  /\ n \in Nat /\ \A i \in 1 .. n : m[i] \in Nat \ {0, 1}
  /\ \A i, j \in 1 .. n : i # j => Coprime(m[i], m[j])

LEMMA ModuliFacts ==
  ASSUME NEW n, NEW m, AreModuli(m, n)
  PROVE  /\ n \in Nat /\ \A i \in 1 .. n : m[i] \in Nat \ {0, 1} /\ m[i] \in Int /\ m[i] \in Nat \ {0}
         /\ \A i, j \in 1 .. n : i # j => Invertible(m[j], m[i])
         /\ ProductOf(m, n) \in Nat \ {0}
<1>1. /\ n \in Nat /\ \A i \in 1 .. n : m[i] \in Nat \ {0, 1}
      /\ \A i, j \in 1 .. n : i # j => Coprime(m[i], m[j])
  BY DEF AreModuli
<1>2. \A i \in 1 .. n : m[i] \in Int /\ m[i] \in Nat \ {0}
  BY <1>1
<1>3. ASSUME NEW i \in 1 .. n, NEW j \in 1 .. n, i # j PROVE Invertible(m[j], m[i])
  BY <1>1, <1>2, <1>3, CoprimeInvertible
<1>4. ProductOf(m, n) \in Nat \ {0}
  BY <1>1, <1>2, ProductIsPositive
<1> QED
  BY <1>1, <1>2, <1>3, <1>4

\* What all moduli divide, their product divides.
LEMMA ProductDivides ==
  ASSUME NEW n, NEW m, AreModuli(m, n), NEW x \in Int, \A i \in 1 .. n : Divides(m[i], x)
  PROVE  Divides(ProductOf(m, n), x)
<1>0. /\ n \in Nat /\ \A i \in 1 .. n : m[i] \in Int
      /\ \A i, j \in 1 .. n : i # j => Invertible(m[j], m[i])
  BY ModuliFacts
<1> DEFINE S == {i \in 0 .. n : ProductOf(m, i) \in Int /\ Divides(ProductOf(m, i), x)}
<1>1. 0 \in S
  <2>1. x = 1 * x
    OBVIOUS
  <2>2. Divides(1, x)
    BY <2>1 DEF Divides
  <2> QED
    BY <1>0, <2>2, ProductSteps
<1>2. ASSUME NEW i \in 0 .. n - 1, i \in S PROVE i + 1 \in S
  <2>1. i \in Nat /\ i + 1 \in 1 .. n /\ i + 1 \in 0 .. n /\ \A j \in 1 .. i : j \in 1 .. n /\ j # i + 1
    BY <1>0
  <2> DEFINE b == m[i + 1]
             a == ProductOf(m, i)
  <2>2. b \in Int /\ Divides(b, x) /\ a \in Int /\ Divides(a, x)
    BY <1>0, <1>2, <2>1
  <2>3. ProductOf(m, i + 1) = a * b
    BY <2>1, ProductSteps
  <2>4. Invertible(a, b)
    <3>1. \A j \in 1 .. i : m[j] \in Int /\ Invertible(m[j], m[i + 1])
      BY <1>0, <2>1
    <3> QED
      BY <1>0, <2>1, <3>1, InvertibleProductOf
  <2> HIDE DEF a, b
  <2>5. PICK k \in Int : x = a * k
    BY <2>2 DEF Divides
  <2>6. PICK h \in Int : x = b * h
    BY <2>2 DEF Divides
  <2>7. PICK u \in Int : Congruent(a * u, 1, b)
    BY <2>4 DEF Invertible
  <2>8. PICK w \in Int : a * u - 1 = b * w
    BY <2>7 DEF Congruent, Divides
  <2>9. k = b * (h * u - w * k)
    <3>1. (a * u - 1) * k = (b * w) * k
      BY <2>8
    <3>2. (a * u - 1) * k = (a * k) * u - k
      BY <2>2, <2>5, <2>7
    <3>3. (a * k) * u = (b * h) * u
      BY <2>5, <2>6
    <3>4. k = (b * h) * u - (b * w) * k
      <4> DEFINE y == (a * k) * u
                 z == (b * w) * k
      <4>1. y - k = z /\ y = (b * h) * u
        BY <3>1, <3>2, <3>3
      <4>2. y \in Int /\ z \in Int
        BY <2>2, <2>5, <2>7, <2>8
      <4> HIDE DEF y, z
      <4>3. k = y - z
        BY <2>5, <4>1, <4>2
      <4> QED
        BY <4>1, <4>3 DEF z
    <3>5. (b * h) * u - (b * w) * k = b * (h * u - w * k)
      BY <2>2, <2>5, <2>6, <2>7, <2>8
    <3> QED
      BY <3>4, <3>5
  <2>10. x = (a * b) * (h * u - w * k) /\ h * u - w * k \in Int
    <3> DEFINE z == h * u - w * k
    <3>1. z \in Int
      BY <2>5, <2>6, <2>7, <2>8
    <3> HIDE DEF z
    <3>2. a * (b * z) = (a * b) * z
      BY <2>2, <3>1
    <3>3. k = b * z
      BY <2>9 DEF z
    <3>4. x = (a * b) * z
      BY <2>5, <3>2, <3>3
    <3> QED
      BY <3>1, <3>4 DEF z
  <2>11. a * b \in Int
    BY <2>2
  <2>12. Divides(ProductOf(m, i + 1), x)
    BY <2>3, <2>10 DEF Divides
  <2> QED
    BY <2>1, <2>3, <2>11, <2>12
<1>3. n \in S
  <2> HIDE DEF S
  <2>1. \A i \in 0 .. n : i \in S
    BY <1>0, <1>1, <1>2, InductionUpTo
  <2> QED
    BY <1>0, <2>1
<1> QED
  BY <1>3

\* Residues determine a number below the product of the moduli.
LEMMA ResiduesDetermine ==
  ASSUME NEW n, NEW m, AreModuli(m, n), NEW x \in Int, NEW y \in Int,
         \A i \in 1 .. n : Congruent(x, y, m[i])
  PROVE  Congruent(x, y, ProductOf(m, n))
<1>1. x - y \in Int /\ \A i \in 1 .. n : Divides(m[i], x - y)
  BY DEF Congruent
<1>2. Divides(ProductOf(m, n), x - y)
  BY <1>1, ProductDivides
<1> QED
  BY <1>2 DEF Congruent

\* Numbers congruent modulo the product are congruent modulo each modulus.
LEMMA CongruentFactor ==
  ASSUME NEW n, NEW m, AreModuli(m, n), NEW x \in Int, NEW y \in Int,
         Congruent(x, y, ProductOf(m, n)), NEW i \in 1 .. n
  PROVE  Congruent(x, y, m[i])
<1>1. n \in Nat /\ \A j \in 1 .. n : m[j] \in Int
  BY ModuliFacts
<1>2. HatOf(m, n, i) \in Int /\ ProductOf(m, n) = m[i] * HatOf(m, n, i)
  BY <1>1, HatTimesFactor
<1>3. PICK k \in Int : x - y = ProductOf(m, n) * k
  BY DEF Congruent, Divides
<1> DEFINE h == HatOf(m, n, i)
           b == m[i]
<1>4. h \in Int /\ b \in Int /\ x - y = (b * h) * k
  BY <1>1, <1>2, <1>3
<1> HIDE DEF h, b
<1>5. (b * h) * k = b * (h * k) /\ h * k \in Int
  BY <1>3, <1>4
<1>6. Congruent(x, y, b)
  BY <1>4, <1>5 DEF Congruent, Divides
<1> QED
  BY <1>6 DEF b

\* The product of the other moduli is positive and has an inverse.
LEMMA HatFacts ==
  ASSUME NEW n, NEW m, AreModuli(m, n), NEW i \in 1 .. n
  PROVE  /\ HatOf(m, n, i) \in Nat \ {0} /\ Invertible(HatOf(m, n, i), m[i])
         /\ ProductOf(m, n) = m[i] * HatOf(m, n, i)
         /\ \A j \in 1 .. n : i # j => Divides(m[j], HatOf(m, n, i))
<1>0. /\ n \in Nat /\ \A j \in 1 .. n : m[j] \in Int /\ m[j] \in Nat \ {0}
      /\ \A j \in 1 .. n : i # j => Invertible(m[j], m[i])
  BY ModuliFacts
<1> DEFINE g == [j \in 1 .. n |-> IF j = i THEN 1 ELSE m[j]]
<1>1. HatOf(m, n, i) = ProductOf(g, n)
  BY Zenon DEF HatOf
<1>2. \A j \in 1 .. n : g[j] = (IF j = i THEN 1 ELSE m[j]) /\ g[j] \in Nat \ {0} /\ g[j] \in Int
  BY <1>0
<1> HIDE DEF g
<1>3. ProductOf(g, n) \in Nat \ {0}
  BY <1>0, <1>2, ProductIsPositive
<1>4. Invertible(1, m[i])
  <2>1. 1 * 1 = 1 /\ Congruent(1, 1, m[i])
    BY <1>0, CongruenceIsEquivalence
  <2>2. Congruent(1 * 1, 1, m[i])
    BY <2>1
  <2> QED
    BY <2>2 DEF Invertible
<1>5. Invertible(ProductOf(g, n), m[i])
  BY <1>0, <1>2, <1>4, InvertibleProductOf
<1>6. \A j \in 1 .. n : i # j => Divides(m[j], ProductOf(g, n))
  BY <1>0, <1>2, FactorDivides
<1> QED
  BY <1>0, <1>1, <1>3, <1>5, <1>6, HatTimesFactor

\* The sum of the hats, each times a number below its modulus, has the residues
\* these numbers are chosen for; it is below n times the product.
LEMMA SumOfHats ==
  ASSUME NEW n, NEW m, AreModuli(m, n), n > 0, NEW a, NEW t, NEW f,
         \A i \in 1 .. n : /\ a[i] \in Int /\ t[i] \in 0 .. m[i] - 1
                           /\ Congruent(t[i] * HatOf(m, n, i), a[i], m[i])
                           /\ f[i] = t[i] * HatOf(m, n, i)
  PROVE  /\ SumOf(f, n) \in 0 .. n * ProductOf(m, n) - 1
         /\ \A i \in 1 .. n : f[i] \in Int /\ Congruent(SumOf(f, n), a[i], m[i])
<1>0. /\ n \in Nat \ {0} /\ ProductOf(m, n) \in Nat \ {0}
      /\ \A i \in 1 .. n : /\ m[i] \in Nat \ {0} /\ m[i] \in Int
                           /\ HatOf(m, n, i) \in Nat \ {0} /\ ProductOf(m, n) = m[i] * HatOf(m, n, i)
                           /\ \A j \in 1 .. n : i # j => Divides(m[j], HatOf(m, n, i))
  BY ModuliFacts, HatFacts
<1> DEFINE P == ProductOf(m, n)
<1>1. ASSUME NEW i \in 1 .. n PROVE f[i] \in 0 .. P - 1 /\ f[i] \in Int
  <2> DEFINE h == HatOf(m, n, i)
             b == m[i]
             x == t[i]
  <2>1. h \in Nat \ {0} /\ b \in Nat \ {0} /\ x \in 0 .. b - 1 /\ P = b * h /\ f[i] = x * h
    BY <1>0
  <2> HIDE DEF h, b, x, P
  <2>2. x * h \in Nat /\ x * h <= (b - 1) * h
    BY <2>1
  <2>3. (b - 1) * h = b * h - h
    BY <2>1
  <2>4. b * h \in Nat
    BY <2>1
  <2> QED
    BY <2>1, <2>2, <2>3, <2>4
<1>2. SumOf(f, n) \in 0 .. n * P - 1
  <2>1. P \in Nat \ {0} /\ P - 1 \in Nat
    BY <1>0
  <2> HIDE DEF P
  <2>2. SumOf(f, n) \in 0 .. n * (P - 1)
    BY <1>0, <1>1, <2>1, SumBound
  <2>3. n * (P - 1) = n * P - n /\ n * P \in Nat
    BY <1>0, <2>1
  <2> QED
    BY <1>0, <2>2, <2>3
<1>3. ASSUME NEW j \in 1 .. n PROVE Congruent(SumOf(f, n), a[j], m[j])
  <2> DEFINE g == [i \in 1 .. n |-> IF i = j THEN a[j] ELSE 0]
  <2>1. \A i \in 1 .. n : g[i] = (IF i = j THEN a[j] ELSE 0) /\ g[i] \in Int
    OBVIOUS
  <2> HIDE DEF g
  <2>2. SumOf(g, n) = a[j]
    <3>1. a[j] \in Int /\ n \in Nat /\ \A i \in 1 .. n : g[i] = IF i = j THEN a[j] ELSE 0
      BY <1>0, <2>1
    <3> QED
      BY <3>1, SumSingle
  <2>3. ASSUME NEW i \in 1 .. n PROVE Congruent(f[i], g[i], m[j])
    <3>1. CASE i = j
      BY <2>1, <3>1
    <3>2. CASE i # j
      <4>1. Divides(m[j], HatOf(m, n, i)) /\ g[i] = 0 /\ f[i] = t[i] * HatOf(m, n, i)
        BY <1>0, <2>1, <3>2
      <4>2. PICK k \in Int : HatOf(m, n, i) = m[j] * k
        BY <4>1 DEF Divides
      <4> DEFINE b == m[j]
                 x == t[i]
      <4>3. b \in Int /\ x \in Int /\ f[i] = x * (b * k)
        BY <1>0, <4>1, <4>2
      <4> HIDE DEF b, x
      <4>4. x * (b * k) - 0 = b * (x * k) /\ x * k \in Int
        BY <4>2, <4>3
      <4>5. Congruent(f[i], 0, b)
        BY <4>3, <4>4 DEF Congruent, Divides
      <4> QED
        BY <4>1, <4>5 DEF b
    <3> QED
      BY <3>1, <3>2
  <2>4. m[j] \in Int
    BY <1>0
  <2>5. Congruent(SumOf(f, n), SumOf(g, n), m[j])
    BY <1>0, <1>1, <2>1, <2>3, <2>4, SumCongruent
  <2> QED
    BY <2>2, <2>5
<1> QED
  BY <1>1, <1>2, <1>3

===============================================================================
