------------------------------- MODULE NttProofs -------------------------------
(***************************************************************************)
(* Proofs about one residue polynomial, for any degree, modulus, word and  *)
(* vector length that the assumptions of NttTables, NttLayers and Ntt      *)
(* allow: how large words become, and that they stand for the polynomial.  *)
(***************************************************************************)
EXTENDS Ntt, Lemmas, TLAPS

-------------------------------------------------------------------------------
(* The constants *)

LEMMA Sizes ==
  /\ LogN \in Nat \ {0} /\ LogN1 \in Nat /\ LogN1 <= LogN /\ LogN - LogN1 \in Nat \ {0}
  /\ N \in Nat \ {0} /\ N1 \in Nat \ {0} /\ N2 \in Nat \ {0} /\ N = N1 * N2 /\ N = 2 * Pow2[LogN - 1]
  /\ M \in Nat \ {0} /\ M = 2 * N
  /\ q \in Nat \ {0, 1} /\ q \in Nat \ {0} /\ q \in Int
  /\ R \in Nat \ {0} /\ Word \in Nat /\ 8 * q < R /\ psi \in Nat
<1>1. LogN \in Nat \ {0} /\ Word \in Nat /\ q \in Nat \ {0, 1} /\ 8 * q < R /\ psi \in Nat
  BY TablesAssumption
<1>2. LogN1 \in Nat /\ LogN1 <= LogN /\ LogN - LogN1 \in Nat \ {0}
  BY <1>1 DEF LogN1
<1>3. N \in Nat \ {0} /\ N1 \in Nat \ {0} /\ N2 \in Nat \ {0} /\ R \in Nat \ {0}
  BY <1>1, <1>2, Pow2Facts DEF N, N1, N2, R
<1>4. N = N1 * N2
  BY <1>1, <1>2, Pow2Order DEF N, N1, N2
<1>5. N = 2 * Pow2[LogN - 1]
  <2>1. LogN - 1 \in Nat /\ (LogN - 1) + 1 = LogN
    BY <1>1
  <2> QED
    BY <2>1, Pow2Facts DEF N
<1>6. M = 2 * N /\ M \in Nat \ {0}
  BY <1>3 DEF M
<1> QED
  BY <1>1, <1>2, <1>3, <1>4, <1>5, <1>6

\* The lengths of rows are powers of two that divide N.
LEMMA LogOfPower == ASSUME NEW d \in 0 .. LogN PROVE LogOf(Pow2[d]) = d
<1>1. \E e \in 0 .. LogN : Pow2[e] = Pow2[d]
  OBVIOUS
<1>2. LogOf(Pow2[d]) \in 0 .. LogN /\ Pow2[LogOf(Pow2[d])] = Pow2[d]
  BY <1>1 DEF LogOf
<1> QED
  BY <1>2, Sizes, Pow2Injective

LEMMA RowLength ==
  ASSUME NEW length \in RowLengths
  PROVE  \E d \in 0 .. LogN : /\ length = Pow2[d] /\ LogOf(length) = d /\ length \in Nat \ {0}
                              /\ N \div length = Pow2[LogN - d] /\ N = length * (N \div length)
                              /\ N \div length \in Nat \ {0}
<1>1. \E d \in 0 .. LogN : length = Pow2[d]
  BY Sizes DEF RowLengths, N, N1, N2
<1>2. PICK d \in 0 .. LogN : length = Pow2[d]
  BY <1>1
<1>3. d \in Nat /\ d <= LogN
  BY Sizes
<1>4. N = length * Pow2[LogN - d] /\ N \div length = Pow2[LogN - d] /\ LogN - d \in Nat
  BY <1>2, <1>3, Sizes, Pow2Order DEF N
<1>5. length \in Nat \ {0} /\ Pow2[LogN - d] \in Nat \ {0}
  BY <1>2, <1>3, <1>4, Pow2Facts
<1> QED
  BY <1>2, <1>4, <1>5, LogOfPower

-------------------------------------------------------------------------------
(* Numbers modulo q *)

Mod(x) == x % q

LEMMA ModIsCongruence == \A x, y \in Int : Mod(x) = Mod(y) <=> Congruent(x, y, q)
BY Sizes, CongruentMod DEF Mod

LEMMA ModOperations ==
  ASSUME NEW x \in Int, NEW y \in Int, NEW u \in Int, NEW v \in Int, Mod(x) = Mod(u), Mod(y) = Mod(v)
  PROVE  Mod(x + y) = Mod(u + v) /\ Mod(x - y) = Mod(u - v) /\ Mod(x * y) = Mod(u * v)
<1>1. Congruent(x, u, q) /\ Congruent(y, v, q)
  BY ModIsCongruence
<1>2. Congruent(x + y, u + v, q) /\ Congruent(x - y, u - v, q) /\ Congruent(x * y, u * v, q)
  BY <1>1, Sizes, CongruentOperations
<1>3. /\ x + y \in Int /\ u + v \in Int /\ x - y \in Int /\ u - v \in Int
      /\ x * y \in Int /\ u * v \in Int
  OBVIOUS
<1> QED
  BY <1>2, <1>3, ModIsCongruence

LEMMA ModFacts ==
  /\ \A x \in Int : Mod(x) \in 0 .. q - 1 /\ Mod(Mod(x)) = Mod(x) /\ x % q = Mod(x)
  /\ \A x \in 0 .. q - 1 : Mod(x) = x
  /\ \A x, k \in Int : Mod(x + k * q) = Mod(x) /\ Mod(x - k * q) = Mod(x)
  /\ Mod(q) = Mod(0) /\ Mod(0) = 0
  /\ \A x, y \in Int : (x - y) % q = 0 <=> Mod(x) = Mod(y)
<1>1. ASSUME NEW x \in Int PROVE Mod(x) \in 0 .. q - 1 /\ Mod(x) \in Int /\ Congruent(Mod(x), x, q)
  <2>1. q \in Nat \ {0}
    BY Sizes
  <2>2. x % q \in 0 .. q - 1 /\ Congruent(x % q, x, q)
    BY <2>1, DivisionFacts
  <2> QED
    BY <2>1, <2>2 DEF Mod
<1>2. \A x \in Int : Mod(Mod(x)) = Mod(x)
  BY <1>1, ModIsCongruence
<1>3. \A x \in 0 .. q - 1 : Mod(x) = x
  BY Sizes DEF Mod
<1>4. ASSUME NEW x \in Int, NEW k \in Int PROVE Mod(x + k * q) = Mod(x) /\ Mod(x - k * q) = Mod(x)
  <2>1. x + k * q \in Int /\ x - k * q \in Int /\ (x + k * q) - x = q * k /\ (x - k * q) - x = q * (0 - k)
    BY Sizes
  <2>2. Congruent(x + k * q, x, q) /\ Congruent(x - k * q, x, q)
    <3>1. q \in Int /\ 0 - k \in Int
      BY Sizes
    <3>2. Divides(q, q * k) /\ Divides(q, q * (0 - k))
      BY <3>1, DividesIntro
    <3> QED
      BY <2>1, <3>2 DEF Congruent
  <2> QED
    BY <2>1, <2>2, ModIsCongruence
<1>5. Mod(q) = Mod(0) /\ Mod(0) = 0
  <2>1. 0 + 1 * q = q /\ 0 \in 0 .. q - 1
    BY Sizes
  <2>2. Mod(0 + 1 * q) = Mod(0)
    BY <1>4
  <2> QED
    BY <1>3, <2>1, <2>2
<1>6. ASSUME NEW x \in Int, NEW y \in Int PROVE (x - y) % q = 0 <=> Mod(x) = Mod(y)
  <2>1. x - y \in Int /\ x - y = (x - y) - 0
    OBVIOUS
  <2>2. Mod(x - y) = Mod(0) <=> Congruent(x - y, 0, q)
    BY <2>1, ModIsCongruence
  <2>3. Congruent(x - y, 0, q) <=> Congruent(x, y, q)
    BY <2>1 DEF Congruent
  <2>4. Mod(x - y) = (x - y) % q
    BY DEF Mod
  <2> QED
    BY <1>5, <2>2, <2>3, <2>4, ModIsCongruence
<1> QED
  BY <1>1, <1>2, <1>3, <1>4, <1>5, <1>6 DEF Mod

LEMMA ModRange == \A x \in Int : Mod(x) \in 0 .. q - 1 /\ Mod(x) \in Int /\ Mod(Mod(x)) = Mod(x)
<1>1. \A x \in Int : Mod(x) \in 0 .. q - 1 /\ Mod(Mod(x)) = Mod(x)
  BY ModFacts, Zenon
<1> QED
  BY <1>1, Sizes

\* The same number on both sides.
LEMMA ModTimes ==
  ASSUME NEW x \in Int, NEW y \in Int, NEW u \in Int, Mod(x) = Mod(y), Mod(u) \in Int
  PROVE  /\ Mod(x * u) = Mod(y * u) /\ Mod(u * x) = Mod(u * y)
         /\ Mod(x + u) = Mod(y + u) /\ Mod(u + x) = Mod(u + y)
         /\ Mod(x - u) = Mod(y - u) /\ Mod(u - x) = Mod(u - y)
BY ModOperations

LEMMA ModSum ==
  ASSUME NEW n \in Nat, NEW f, NEW g, \A i \in 0 .. n - 1 : f[i] \in Int /\ g[i] \in Int /\ Mod(f[i]) = Mod(g[i])
  PROVE  Mod(SumBelow(f, n)) = Mod(SumBelow(g, n))
<1>1. \A i \in 0 .. n - 1 : f[i] \in Int /\ g[i] \in Int /\ Congruent(f[i], g[i], q)
  BY ModIsCongruence
<1>2. Congruent(SumBelow(f, n), SumBelow(g, n), q)
  BY <1>1, Sizes, BelowCongruent
<1>3. SumBelow(f, n) \in Int /\ SumBelow(g, n) \in Int
  BY BelowIsNumber
<1> QED
  BY <1>2, <1>3, ModIsCongruence

-------------------------------------------------------------------------------
(* Powers of psi *)

LEMMA PowerFacts ==
  /\ power[0] = 1 /\ \A e \in 0 .. M : power[e] \in 0 .. q - 1
  /\ \A e \in 1 .. M : power[e] = (power[e - 1] * psi) % q
<1> DEFINE S == 0 .. q - 1
           step == [e \in 1 .. M |-> [x \in S |-> (x * psi) % q]]
           Body(f) == [e \in 0 .. M |-> IF e = 0 THEN 1 ELSE (f[e - 1] * psi) % q]
           pow == CHOOSE f : f = Body(f)
<1>1. \A e \in 1 .. M : \A x \in S : step[e][x] \in S
  <2>1. \A x \in S : x * psi \in Int
    BY Sizes
  <2>2. \A x \in S : (x * psi) % q \in S
    BY <2>1, Sizes, DivisionFacts
  <2> QED
    BY <2>2
<1>2. 1 \in S /\ M \in Nat
  BY Sizes
<1>3. PICK f : IsIteration(f, S, M, 1, step)
  <2> HIDE DEF S, step
  <2> QED
    BY <1>1, <1>2, Iteration
<1>4. f = Body(f)
  <2>1. f = [e \in 0 .. M |-> f[e]]
    BY <1>3 DEF IsIteration
  <2>2. \A e \in 0 .. M : e = 0 \/ (e \in 1 .. M /\ e # 0 /\ e - 1 \in 0 .. M)
    BY Sizes
  <2>3. \A e \in 0 .. M : f[e] \in S
    BY <1>3 DEF IsIteration
  <2>4. \A e \in 1 .. M : f[e] = step[e][f[e - 1]] /\ step[e][f[e - 1]] = (f[e - 1] * psi) % q
    BY <1>3, <2>2, <2>3 DEF IsIteration
  <2>5. \A e \in 0 .. M : f[e] = IF e = 0 THEN 1 ELSE (f[e - 1] * psi) % q
    BY <1>3, <2>2, <2>4 DEF IsIteration
  <2> HIDE DEF S, step
  <2> QED
    BY <2>1, <2>5
<1>5. pow = Body(pow)
  <2> HIDE DEF Body
  <2> QED
    BY <1>4, Zenon
<1>6. power = [e \in 0 .. M |-> pow[e]]
  BY Zenon DEF power
<1> HIDE DEF pow
<1>7. power = pow
  BY <1>5, <1>6
<1>8. power[0] = 1 /\ \A e \in 1 .. M : power[e] = (power[e - 1] * psi) % q
  <2>1. \A e \in 1 .. M : e \in 0 .. M /\ e # 0
    OBVIOUS
  <2> QED
    BY <1>2, <1>5, <1>7, <2>1
<1> DEFINE T == {e \in 0 .. M : power[e] \in S}
<1>9. \A e \in 0 .. M - 1 : e \in T => e + 1 \in T
  <2> SUFFICES ASSUME NEW e \in 0 .. M - 1, e \in T PROVE e + 1 \in T
    OBVIOUS
  <2>1. e + 1 \in 1 .. M /\ e + 1 \in 0 .. M /\ (e + 1) - 1 = e /\ power[e] \in Int
    BY Sizes
  <2>2. power[e] * psi \in Int
    BY <2>1, Sizes
  <2>3. power[e + 1] = (power[e] * psi) % q
    BY <1>8, <2>1
  <2> QED
    BY <2>1, <2>2, <2>3, Sizes, DivisionFacts
<1>10. 0 \in T
  BY <1>2, <1>8
<1>11. \A e \in 0 .. M : e \in T
  <2> HIDE DEF T
  <2> QED
    BY <1>2, <1>9, <1>10, InductionUpTo
<1> QED
  BY <1>8, <1>11

-------------------------------------------------------------------------------
(* Inverses *)

LEMMA OddModulus == Congruent(q, 1, 2)
<1>1. q - 1 \in Int /\ M \in Nat \ {0} /\ (q - 1) % M = 0
  BY Sizes, TablesAssumption
<1>2. (q - 1) \div M \in Int /\ q - 1 = ((q - 1) \div M) * M + 0
  BY <1>1, DivisionFacts
<1> DEFINE d == (q - 1) \div M
<1> HIDE DEF d
<1>3. q - 1 = d * (2 * N) /\ d \in Int /\ N \in Int
  BY <1>2, Sizes DEF d
<1>4. q - 1 = 2 * (d * N) /\ d * N \in Int
  BY <1>3
<1> QED
  BY <1>4 DEF Congruent, Divides

LEMMA WordsInvertible == Invertible(R, q) /\ Invertible(N, q) /\ Invertible(N1, q)
BY Sizes, OddModulus, Pow2Invertible DEF R, N, N1

LEMMA qInvFacts == qInv \in 1 .. R - 1 /\ Congruent(qInv * q, 1, R)
<1>1. PICK u \in Int : Congruent(q * u, 1, R)
  BY Sizes, OddModulus, OddInvertible DEF Invertible, R
<1> DEFINE x == u % R
<1>2. x \in 0 .. R - 1 /\ Congruent(x, u, R)
  BY Sizes, DivisionFacts
<1>3. Congruent(x * q, 1, R)
  <2>1. Congruent(q, q, R) /\ R \in Int /\ q \in Int /\ x \in Int
    BY <1>2, Sizes, CongruenceIsEquivalence
  <2>2. Congruent(x * q, u * q, R)
    BY <1>2, <2>1, CongruentOperations
  <2>3. u * q = q * u /\ u * q \in Int /\ x * q \in Int /\ 1 \in Int
    BY <2>1
  <2> QED
    BY <1>1, <2>1, <2>2, <2>3, CongruenceIsEquivalence
<1> HIDE DEF x
<1>4. R > 1 /\ 1 % R = 1 /\ 0 % R = 0 /\ R \in Nat \ {0}
  BY Sizes
<1>5. \A y \in Int : (y * q) % R = 1 <=> Congruent(y * q, 1, R)
  <2> SUFFICES ASSUME NEW y \in Int PROVE (y * q) % R = 1 <=> Congruent(y * q, 1, R)
    OBVIOUS
  <2>1. y * q \in Int /\ 1 \in Int
    BY Sizes
  <2> QED
    BY <1>4, <2>1, CongruentMod
<1>6. x # 0
  <2> SUFFICES ASSUME x = 0 PROVE FALSE
    OBVIOUS
  <2>1. x \in Int /\ x * q = 0
    BY Sizes
  <2> QED
    BY <1>3, <1>4, <1>5, <2>1
<1>7. x \in 1 .. R - 1 /\ (x * q) % R = 1
  BY <1>2, <1>3, <1>5, <1>6
<1>8. qInv \in 1 .. R - 1 /\ (qInv * q) % R = 1
  BY <1>7 DEF qInv
<1> QED
  BY <1>5, <1>8

LEMMA InverseModFacts ==
  ASSUME NEW x \in Int, Invertible(x, q)
  PROVE  InverseMod(x) \in 1 .. q - 1 /\ Mod(x * InverseMod(x)) = Mod(1)
<1>1. PICK u \in Int : Congruent(x * u, 1, q)
  BY DEF Invertible
<1> DEFINE y == Mod(u)
<1>2. y \in 0 .. q - 1 /\ Mod(y) = Mod(u) /\ y \in Int
  BY ModRange
<1> HIDE DEF y
<1>3. Mod(x * y) = Mod(x * u)
  BY <1>2, ModOperations
<1>4. Mod(x * u) = Mod(1)
  <2>1. x * u \in Int /\ 1 \in Int
    OBVIOUS
  <2> QED
    BY <1>1, <2>1, ModIsCongruence
<1>5. Mod(1) = 1
  BY Sizes, ModFacts
<1>6. y # 0
  <2> SUFFICES ASSUME y = 0 PROVE FALSE
    OBVIOUS
  <2>1. x * 0 = 0
    OBVIOUS
  <2> QED
    BY <1>3, <1>4, <1>5, <2>1, ModFacts
<1>7. y \in 1 .. q - 1 /\ (x * y) % q = 1
  BY <1>2, <1>3, <1>4, <1>5, <1>6 DEF Mod
<1>8. InverseMod(x) \in 1 .. q - 1 /\ (x * InverseMod(x)) % q = 1
  BY <1>7 DEF InverseMod
<1> QED
  BY <1>5, <1>8 DEF Mod

\* An invertible factor can be left out.
LEMMA ModCancel ==
  ASSUME NEW x \in Int, NEW y \in Int, NEW u \in Int, Invertible(u, q), Mod(x * u) = Mod(y * u)
  PROVE  Mod(x) = Mod(y)
<1>1. PICK v \in Int : Congruent(u * v, 1, q)
  BY DEF Invertible
<1>2. x * u \in Int /\ y * u \in Int /\ q \in Int
  BY Sizes
<1>3. Mod((x * u) * v) = Mod((y * u) * v)
  <2> DEFINE b == x * u
             c == y * u
  <2>1. b \in Int /\ c \in Int /\ Mod(b) = Mod(c) /\ Mod(v) \in Int
    BY <1>2, ModRange
  <2> HIDE DEF b, c
  <2>2. Mod(b * v) = Mod(c * v)
    BY <2>1, ModTimes
  <2> QED
    BY <2>2 DEF b, c
<1>4. Congruent((x * u) * v, x, q) /\ Congruent((y * u) * v, y, q)
  BY <1>1, <1>2, Cancel
<1>5. (x * u) * v \in Int /\ (y * u) * v \in Int
  BY <1>2
<1> QED
  BY <1>3, <1>4, <1>5, ModIsCongruence

-------------------------------------------------------------------------------
(* Products of words *)

\* The minimum with the number reduced by q, or increased.
LEMMA LeastFacts ==
  /\ \A s \in 0 .. R - 1 : Least(s, s - q) = IF s < q THEN s ELSE s - q
  /\ \A c \in 0 - q .. R - q - 1 : Least(c, c + q) = IF c < 0 THEN c + q ELSE c
<1>1. ASSUME NEW s \in 0 .. R - 1 PROVE Least(s, s - q) = IF s < q THEN s ELSE s - q
  <2>1. s % R = s
    BY Sizes
  <2>2. CASE s < q
    <3>1. s - q + R \in 0 .. R - 1 /\ (s - q) % R = s - q + R /\ s < s - q + R
      BY <2>2, Sizes
    <3> QED
      BY <2>1, <2>2, <3>1 DEF Least
  <2>3. CASE s >= q
    <3>1. (s - q) % R = s - q /\ ~(s < s - q) /\ ~(s < q)
      BY <2>3, Sizes
    <3> QED
      BY <2>1, <3>1 DEF Least
  <2> QED
    BY <2>2, <2>3, Sizes
<1>2. ASSUME NEW c \in 0 - q .. R - q - 1 PROVE Least(c, c + q) = IF c < 0 THEN c + q ELSE c
  <2>1. (c + q) % R = c + q
    BY Sizes
  <2>2. CASE c < 0
    <3>1. c % R = c + R /\ ~(c + R < c + q)
      BY <2>2, Sizes
    <3> QED
      BY <2>1, <2>2, <3>1 DEF Least
  <2>3. CASE c >= 0
    <3>1. c % R = c /\ c < c + q /\ ~(c < 0)
      BY <2>3, Sizes
    <3> QED
      BY <2>1, <3>1 DEF Least
  <2> QED
    BY <2>2, <2>3, Sizes
<1> QED
  BY <1>1, <1>2

\* Barrett's products, which may leave q in place of 0.
LEMMA BarrettProduct ==
  ASSUME NEW T \in 0 .. R - 1, NEW W \in 0 .. q - 1
  PROVE  /\ barrett(T, W, BarPre(W)) \in 0 .. q /\ Mod(barrett(T, W, BarPre(W))) = Mod(T * W)
         /\ vminuBarrett(T, W) \in 0 .. q - 1 /\ Mod(vminuBarrett(T, W)) = Mod(T * W)
<1> DEFINE h == (T * ((W * R) \div q)) \div R
           z == T * W - q * h
<1>1. h \in Int /\ z \in 0 .. 2 * q - 1
  <2>1. q \in Nat \ {0} /\ R \in Nat \ {0} /\ W \in Nat
    BY Sizes
  <2> QED
    BY <2>1, BarrettStep
<1>2. barrett(T, W, BarPre(W)) = IF (z % R) > q THEN (z % R) - q ELSE (z % R)
  BY DEF barrett, BarPre
<1>3. vminuBarrett(T, W) = Least((z % R), (z % R) - q)
  BY DEF vminuBarrett, vminuSum, BarPre
<1>4. T * W \in Int /\ Mod(z) = Mod(T * W)
  <2>1. T * W \in Int /\ q * h = h * q
    BY <1>1, Sizes
  <2> QED
    BY <1>1, <2>1, ModFacts
<1> HIDE DEF h, z
<1>5. z % R = z
  BY <1>1, Sizes
<1>6. Mod(z - q) = Mod(z)
  <2>1. z \in Int /\ z - 1 * q = z - q
    BY <1>1, Sizes
  <2> QED
    BY <2>1, ModFacts
<1>7. Least(z, z - q) = IF z < q THEN z ELSE z - q
  <2>1. z \in 0 .. R - 1
    BY <1>1, Sizes
  <2> QED
    BY <2>1, LeastFacts
<1> QED
  BY <1>1, <1>2, <1>3, <1>4, <1>5, <1>6, <1>7, Sizes

\* Montgomery's, reduced and not.
LEMMA MontgomeryProduct ==
  ASSUME NEW T \in 0 .. R - 1, NEW W \in 0 .. q - 1
  PROVE  /\ redc(T, Scaled(W)) \in 0 .. q - 1 /\ Mod(redc(T, Scaled(W))) = Mod(T * W)
         /\ redcLazy(T, Scaled(W)) \in 1 .. 2 * q - 1 /\ Mod(redcLazy(T, Scaled(W))) = Mod(T * W)
<1> DEFINE S == Scaled(W)
           x == T * S
           U == High(T, S)
           H == Matching(T, S)
<1>1. S \in 0 .. q - 1 /\ Mod(S) = Mod(W * R) /\ W * R \in Int
  <2>1. W * R \in Int
    BY Sizes
  <2> QED
    BY <2>1, ModFacts DEF Scaled
<1> HIDE DEF S
<1>2. x \in 0 .. q * R - 1
  <2>1. 0 <= x /\ x <= (R - 1) * (q - 1) /\ x \in Int
    <3>1. \A y, z, u, v \in Nat : y <= u /\ z <= v => 0 <= y * z /\ y * z <= u * v /\ y * z \in Int
      OBVIOUS
    <3>2. T \in Nat /\ S \in Nat /\ R - 1 \in Nat /\ q - 1 \in Nat /\ T <= R - 1 /\ S <= q - 1
      BY <1>1, Sizes
    <3> QED
      BY <3>1, <3>2
  <2>2. (R - 1) * (q - 1) < q * R /\ (R - 1) * (q - 1) \in Int /\ q * R \in Int
    <3>1. (R - 1) * (q - 1) = q * R - R - q + 1 /\ R > 1 /\ q > 0 /\ q * R \in Int
      BY Sizes
    <3> QED
      BY <3>1, Sizes
  <2> HIDE DEF x
  <2> QED
    BY <2>1, <2>2
<1>3. U \in 0 .. q - 1 /\ H \in 0 .. q - 1 /\ Congruent((U - H) * R, x, q)
  <2>1. U = x \div R /\ H = ((((x % R) * qInv) % R) * q) \div R
    BY DEF High, Matching
  <2>2. q \in Nat \ {0} /\ R \in Nat \ {0} /\ qInv \in Int /\ Congruent(qInv * q, 1, R)
    BY Sizes, qInvFacts
  <2> HIDE DEF x, U, H
  <2> QED
    BY <1>2, <2>1, <2>2, MontgomeryStep
<1>4. redc(T, S) = (IF U < H THEN U + q - H ELSE U - H) /\ redcLazy(T, S) = U + q - H
  BY DEF redc, redcLazy
<1>5. x \in Int /\ Mod(x) = Mod((T * W) * R)
  <2>1. T \in Int /\ S \in Int /\ T * S \in Int
    BY <1>1
  <2>2. Mod(T * S) = Mod(T * (W * R))
    BY <1>1, <2>1, ModOperations
  <2>3. T * (W * R) = (T * W) * R
    BY Sizes
  <2> QED
    BY <2>1, <2>2, <2>3
<1> HIDE DEF x, U, H
<1>6. Mod(U - H) = Mod(T * W)
  <2>1. U - H \in Int /\ T * W \in Int /\ R \in Int /\ (U - H) * R \in Int
    BY <1>3, Sizes
  <2>2. Mod((U - H) * R) = Mod((T * W) * R)
    BY <1>3, <1>5, <2>1, ModIsCongruence
  <2> QED
    BY <2>1, <2>2, WordsInvertible, ModCancel
<1>7. Mod(U + q - H) = Mod(U - H)
  <2>1. U - H \in Int /\ (U - H) + 1 * q = U + q - H
    BY <1>3, Sizes
  <2> QED
    BY <2>1, ModFacts
<1>8. redc(T, S) \in 0 .. q - 1 /\ redcLazy(T, S) \in 1 .. 2 * q - 1
  BY <1>3, <1>4, Sizes
<1> QED
  BY <1>4, <1>6, <1>7, <1>8 DEF S

LEMMA ProductFacts ==
  ASSUME NEW al \in Variants, NEW T \in 0 .. R - 1, NEW W \in 0 .. q - 1
  PROVE  Product(al, T, W) \in 0 .. q /\ Mod(Product(al, T, W)) = Mod(T * W)
<1>1. al = "rvv_bar" \/ al \in BarrettVariants \ {"rvv_bar"} \/ al \in MontgomeryVariants
  BY DEF Variants, ScalarVariants, UnrolledVariants, VectorInsnVariants, VectorVariants,
         BarrettVariants, MontgomeryVariants
<1>2. CASE al = "rvv_bar"
  <2>1. Product(al, T, W) = vminuBarrett(T, W)
    BY <1>2 DEF Product, BarrettVariants, MontgomeryVariants
  <2> QED
    BY <2>1, BarrettProduct, Sizes
<1>3. CASE al \in BarrettVariants \ {"rvv_bar"}
  <2>1. Product(al, T, W) = barrett(T, W, BarPre(W))
    BY <1>3 DEF Product, BarrettVariants, MontgomeryVariants
  <2> QED
    BY <2>1, BarrettProduct
<1>4. CASE al \in MontgomeryVariants
  <2>1. Product(al, T, W) = redc(T, Scaled(W))
    BY <1>4 DEF Product, BarrettVariants, MontgomeryVariants
  <2> QED
    BY <2>1, MontgomeryProduct, Sizes
<1> QED
  BY <1>1, <1>2, <1>3, <1>4

-------------------------------------------------------------------------------
(* Powers of psi to any integer *)

Pow(e) == power[e % M]

LEMMA PowerSum ==
  \A c \in 0 .. M : \A b \in 0 .. M - c : Mod(power[c + b]) = Mod(power[c] * power[b])
<1> SUFFICES ASSUME NEW c \in 0 .. M
             PROVE  \A b \in 0 .. M - c : Mod(power[c + b]) = Mod(power[c] * power[b])
  OBVIOUS
<1>1. M - c \in Nat /\ \A b \in 0 .. M - c : b \in 0 .. M /\ c + b \in 0 .. M
  BY Sizes
<1> DEFINE S == {b \in 0 .. M - c : Mod(power[c + b]) = Mod(power[c] * power[b])}
<1>2. 0 \in S
  <2>1. c + 0 = c /\ power[c] \in Int /\ power[c] * 1 = power[c]
    BY Sizes, PowerFacts
  <2> QED
    BY <1>1, <2>1, PowerFacts
<1>3. \A b \in 0 .. (M - c) - 1 : b \in S => b + 1 \in S
  <2> SUFFICES ASSUME NEW b \in 0 .. (M - c) - 1, Mod(power[c + b]) = Mod(power[c] * power[b])
               PROVE  b + 1 \in S
    OBVIOUS
  <2>1. /\ b + 1 \in 1 .. M /\ c + (b + 1) \in 1 .. M /\ (b + 1) - 1 = b /\ (c + (b + 1)) - 1 = c + b
        /\ b \in 0 .. M /\ c + b \in 0 .. M /\ b + 1 \in 0 .. M - c
    BY Sizes
  <2> DEFINE x == power[c]
             y == power[b]
             z == power[c + b]
  <2>2. x \in Int /\ y \in Int /\ z \in Int /\ psi \in Int /\ Mod(z) = Mod(x * y)
    BY <2>1, Sizes, PowerFacts
  <2>3. power[b + 1] = Mod(y * psi) /\ power[c + (b + 1)] = Mod(z * psi)
    BY <2>1, PowerFacts DEF Mod
  <2> HIDE DEF x, y, z
  <2>4. z * psi \in Int /\ y * psi \in Int /\ x * y \in Int /\ (x * y) * psi = x * (y * psi) /\ x * (y * psi) \in Int
    BY <2>2
  <2>5. Mod(z * psi) = Mod((x * y) * psi)
    <3>1. Mod(psi) \in Int
      BY <2>2, ModRange
    <3> QED
      BY <2>2, <2>4, <3>1, ModTimes
  <2>6. Mod(x * Mod(y * psi)) = Mod(x * (y * psi))
    <3> DEFINE g == y * psi
           reduced == Mod(g)
    <3>1. g \in Int /\ reduced \in Int /\ Mod(reduced) = Mod(g) /\ Mod(x) \in Int
      BY <2>2, <2>4, ModRange
    <3> HIDE DEF g, reduced
    <3>2. Mod(x * reduced) = Mod(x * g)
      BY <2>2, <3>1, ModTimes
    <3> QED
      BY <3>2 DEF g, reduced
  <2>7. Mod(Mod(z * psi)) = Mod(z * psi)
    BY <2>4, ModRange
  <2> QED
    BY <2>1, <2>3, <2>4, <2>5, <2>6, <2>7 DEF x
<1> HIDE DEF S
<1>4. \A b \in 0 .. M - c : b \in S
  BY <1>1, <1>2, <1>3, InductionUpTo
<1> QED
  BY <1>4 DEF S

LEMMA WholePower == power[M] = 1
<1>1. N \in 0 .. M /\ N \in 0 .. M - N /\ N + N = M /\ M \in 0 .. M
  <2>1. N \in Nat /\ M = 2 * N
    BY Sizes
  <2> QED
    BY <2>1
<1>2. Mod(power[M]) = Mod((q - 1) * (q - 1))
  BY <1>1, PowerSum, TablesAssumption
<1>3. (q - 1) * (q - 1) = 1 + (q - 2) * q /\ q - 2 \in Int /\ 1 \in 0 .. q - 1
  BY Sizes
<1>4. Mod(1 + (q - 2) * q) = Mod(1) /\ Mod(1) = 1
  BY <1>3, ModFacts
<1>5. Mod(power[M]) = power[M]
  BY <1>1, PowerFacts, ModFacts
<1> QED
  BY <1>2, <1>3, <1>4, <1>5

LEMMA PowRange == \A e \in Int : e % M \in 0 .. M - 1 /\ Pow(e) \in 0 .. q - 1 /\ Pow(e) \in Int /\ Pow(e) = power[e % M]
<1> SUFFICES ASSUME NEW e \in Int
             PROVE  e % M \in 0 .. M - 1 /\ Pow(e) \in 0 .. q - 1 /\ Pow(e) \in Int /\ Pow(e) = power[e % M]
  OBVIOUS
<1>1. e % M \in 0 .. M - 1
  BY Sizes, DivisionFacts
<1> HIDE DEF M
<1> DEFINE r == e % M
<1>2. r \in 0 .. M
  BY <1>1, Sizes
<1> HIDE DEF r
<1>3. power[r] \in 0 .. q - 1 /\ power[r] \in Int
  BY <1>2, PowerFacts
<1> QED
  BY <1>1, <1>3 DEF r, Pow

LEMMA PowSame == \A e, f \in Int : Congruent(e, f, M) => Pow(e) = Pow(f)
BY Sizes, CongruentMod DEF Pow

LEMMA PowTable == \A e \in 0 .. M : power[e] = Pow(e)
<1>1. \A e \in 0 .. M - 1 : e % M = e
  BY Sizes
<1>2. M % M = 0
  BY Sizes
<1>3. power[M] = Pow(M)
  BY <1>2, WholePower, PowerFacts DEF Pow
<1>4. \A e \in 0 .. M : e \in 0 .. M - 1 \/ e = M
  BY Sizes
<1> QED
  BY <1>1, <1>3, <1>4 DEF Pow

LEMMA PowSum == \A e, f \in Int : Mod(Pow(e + f)) = Mod(Pow(e) * Pow(f))
<1> SUFFICES ASSUME NEW e \in Int, NEW f \in Int PROVE Mod(Pow(e + f)) = Mod(Pow(e) * Pow(f))
  OBVIOUS
<1> DEFINE r == e % M
           s == f % M
<1>1. r \in 0 .. M - 1 /\ s \in 0 .. M - 1 /\ Congruent(r, e, M) /\ Congruent(s, f, M)
  BY Sizes, DivisionFacts
<1>2. Pow(e) = power[r] /\ Pow(f) = power[s]
  BY DEF Pow
<1>3. Congruent(r + s, e + f, M)
  <2>1. r \in Int /\ s \in Int /\ M \in Int
    BY <1>1, Sizes
  <2> HIDE DEF r, s
  <2> QED
    BY <1>1, <2>1, CongruentOperations
<1> HIDE DEF r, s
<1>4. power[r] \in Int /\ power[s] \in Int /\ r \in 0 .. M /\ s \in 0 .. M /\ r + s \in Int /\ e + f \in Int
  BY <1>1, Sizes, PowerFacts
<1>5. Pow(r + s) = Pow(e + f)
  BY <1>3, <1>4, PowSame
<1>6. CASE r + s < M
  <2>1. r + s \in 0 .. M /\ s \in 0 .. M - r
    BY <1>1, <1>6, Sizes
  <2>2. power[r + s] = Pow(r + s)
    BY <2>1, PowTable
  <2> QED
    BY <1>2, <1>4, <1>5, <2>1, <2>2, PowerSum
<1>7. CASE r + s >= M
  <2> DEFINE g == r + s - M
             h == M - r
  <2>1. /\ g \in 0 .. M - 1 /\ h \in 0 .. M /\ h + g = s /\ r + h = M /\ g \in 0 .. M - h /\ h \in 0 .. M - r
        /\ g \in 0 .. M /\ (r + s) - g = M * 1 /\ g \in Int
    <3>1. M \in Nat /\ r + s >= M
      BY <1>7, Sizes
    <3> HIDE DEF M
    <3> QED
      BY <1>1, <3>1
  <2>2. Congruent(r + s, g, M)
    BY <2>1, Sizes DEF Congruent, Divides
  <2> HIDE DEF g, h
  <2>3. Pow(r + s) = power[g]
    BY <1>4, <2>1, <2>2, PowSame, PowTable
  <2>4. Mod(power[s]) = Mod(power[h] * power[g]) /\ Mod(power[r] * power[h]) = Mod(1)
    BY <1>4, <2>1, PowerSum, WholePower
  <2> DEFINE x == power[r]
             y == power[h]
             z == power[g]
             w == power[s]
  <2>5. x \in Int /\ y \in Int /\ z \in Int /\ w \in Int
    BY <1>4, <2>1, PowerFacts
  <2>6. Mod(w) = Mod(y * z) /\ Mod(x * y) = Mod(1)
    BY <2>4
  <2> HIDE DEF x, y, z, w
  <2>7. y * z \in Int /\ x * y \in Int /\ Mod(x) \in Int /\ Mod(z) \in Int /\ x * (y * z) = (x * y) * z /\ 1 * z = z
    BY <2>5, ModRange
  <2>8. Mod(x * w) = Mod(x * (y * z))
    BY <2>5, <2>6, <2>7, ModTimes
  <2>9. Mod((x * y) * z) = Mod(1 * z)
    <3> DEFINE b == x * y
    <3>1. b \in Int /\ Mod(b) = Mod(1)
      BY <2>6, <2>7
    <3> HIDE DEF b
    <3>2. Mod(b * z) = Mod(1 * z)
      BY <2>5, <2>7, <3>1, ModTimes
    <3> QED
      BY <3>2 DEF b
  <2>10. Mod(z) = Mod(x * w)
    BY <2>7, <2>8, <2>9
  <2> QED
    BY <1>2, <1>5, <2>3, <2>10 DEF x, z, w
<1> QED
  BY <1>4, <1>6, <1>7, Sizes

LEMMA PowInverse == \A e \in Int : Mod(Pow(e) * Pow(0 - e)) = Mod(1) /\ Invertible(Pow(e), q) /\ Pow(e) \in 1 .. q - 1
<1> SUFFICES ASSUME NEW e \in Int
             PROVE  Mod(Pow(e) * Pow(0 - e)) = Mod(1) /\ Invertible(Pow(e), q) /\ Pow(e) \in 1 .. q - 1
  OBVIOUS
<1>1. 0 - e \in Int /\ e + (0 - e) = 0 /\ 0 \in 0 .. M
  BY Sizes
<1>2. Pow(0) = 1
  BY <1>1, PowTable, PowerFacts
<1> DEFINE x == Pow(e)
           y == Pow(0 - e)
<1>3. x \in 0 .. q - 1 /\ x \in Int /\ y \in Int /\ x * y \in Int /\ 1 \in Int
  BY <1>1, PowRange
<1>4. Mod(x * y) = Mod(1)
  BY <1>1, <1>2, PowSum
<1> HIDE DEF x, y
<1>5. Congruent(x * y, 1, q)
  BY <1>3, <1>4, ModIsCongruence
<1>6. x # 0
  <2> SUFFICES ASSUME x = 0 PROVE FALSE
    OBVIOUS
  <2>1. x * y = 0
    BY <1>3
  <2>2. Mod(0) = 0 /\ Mod(1) = 1
    BY Sizes, ModFacts
  <2> QED
    BY <1>4, <2>1, <2>2
<1> QED
  BY <1>3, <1>4, <1>5, <1>6 DEF Invertible, x, y

LEMMA PowHalf == \A e \in Int : Mod(Pow(e + N)) = Mod(0 - Pow(e))
<1> SUFFICES ASSUME NEW e \in Int PROVE Mod(Pow(e + N)) = Mod(0 - Pow(e))
  OBVIOUS
<1>1. N \in 0 .. M /\ N \in Int
  BY Sizes
<1>2. Pow(N) = q - 1
  BY <1>1, PowTable, TablesAssumption
<1> DEFINE x == Pow(e)
<1>3. x \in Int
  BY PowRange
<1>4. Mod(Pow(e + N)) = Mod(x * (q - 1))
  BY <1>1, <1>2, PowSum
<1> HIDE DEF x
<1>5. x * (q - 1) = (0 - x) + x * q /\ 0 - x \in Int
  BY <1>3, Sizes
<1>6. Mod((0 - x) + x * q) = Mod(0 - x)
  BY <1>3, <1>5, ModFacts
<1> QED
  BY <1>4, <1>5, <1>6 DEF x

-------------------------------------------------------------------------------
(* Reversed bits *)

LEMMA ReverseStep ==
  ASSUME NEW e \in Nat, NEW i \in Nat, NEW s \in 0 .. 1
  PROVE  bitReverse(2 * i + s, e + 1) = s * Pow2[e] + bitReverse(i, e)
<1> DEFINE n == 2 * i + s
           f == [b \in 0 .. (e + 1) - 1 |-> ((n \div Pow2[b]) % 2) * Pow2[(e + 1) - 1 - b]]
           g == [b \in 0 .. e - 1 |-> ((i \div Pow2[b]) % 2) * Pow2[e - 1 - b]]
<1>1. bitReverse(n, e + 1) = SumBelow(f, e + 1) /\ bitReverse(i, e) = SumBelow(g, e)
  BY DEF bitReverse
<1>2. n \in Nat /\ n \div 2 = i /\ n % 2 = s
  OBVIOUS
<1> HIDE DEF n
<1>3. f = [b \in 0 .. e |-> ((n \div Pow2[b]) % 2) * Pow2[e - b]]
  <2>1. (e + 1) - 1 = e
    OBVIOUS
  <2> QED
    BY <2>1
<1>4. \A b \in 0 .. e : f[b] = ((n \div Pow2[b]) % 2) * Pow2[e - b]
  BY <1>3
<1>5. \A b \in 0 .. e : f[b] \in Int
  <2> SUFFICES ASSUME NEW b \in 0 .. e PROVE f[b] \in Int
    OBVIOUS
  <2>1. Pow2[b] \in Nat \ {0} /\ Pow2[e - b] \in Int
    BY Pow2Facts
  <2>2. n \div Pow2[b] \in Int
    BY <1>2, <2>1
  <2>3. (n \div Pow2[b]) % 2 \in Int
    BY <2>2
  <2> QED
    BY <1>4, <2>1, <2>3
<1>6. \A b \in 0 .. e - 1 : g[b] = f[b + 1]
  <2> SUFFICES ASSUME NEW b \in 0 .. e - 1 PROVE g[b] = f[b + 1]
    OBVIOUS
  <2>1. b + 1 \in 0 .. e /\ e - (b + 1) = e - 1 - b /\ b \in Nat
    OBVIOUS
  <2> DEFINE w == Pow2[b]
             d == i \div w
             r == i % w
  <2>2. w \in Nat \ {0} /\ Pow2[b + 1] = 2 * w
    BY <2>1, Pow2Facts
  <2>3. d \in Nat /\ r \in 0 .. w - 1 /\ i = d * w + r
    BY <2>2, DivMod
  <2> HIDE DEF w, d, r
  <2>4. 2 * w \in Nat \ {0} /\ 2 * r + s \in 0 .. 2 * w - 1 /\ n = d * (2 * w) + (2 * r + s)
    BY <2>2, <2>3 DEF n
  <2>5. n \div (2 * w) = d
    BY <2>3, <2>4, Compose
  <2>6. f[b + 1] = ((n \div Pow2[b + 1]) % 2) * Pow2[e - (b + 1)]
    BY <1>4, <2>1
  <2>7. g[b] = ((i \div Pow2[b]) % 2) * Pow2[e - 1 - b]
    OBVIOUS
  <2> QED
    BY <2>1, <2>2, <2>5, <2>6, <2>7 DEF d, w
<1>7. f[0] = s * Pow2[e]
  <2>1. 0 \in 0 .. e /\ e - 0 = e /\ Pow2[0] = 1 /\ n \div 1 = n
    BY <1>2, Pow2Facts
  <2>2. f[0] = ((n \div Pow2[0]) % 2) * Pow2[e - 0]
    BY <1>4, <2>1
  <2> QED
    BY <1>2, <2>1, <2>2
<1> HIDE DEF f, g
<1>8. SumBelow(f, e + 1) = f[0] + SumBelow(g, e)
  BY <1>5, <1>6, BelowFirst
<1> QED
  BY <1>1, <1>7, <1>8 DEF n

LEMMA ReverseNone == \A n : bitReverse(n, 0) = 0
BY BelowSteps DEF bitReverse

LEMMA Halves == \A n \in Nat : n \div 2 \in Nat /\ n % 2 \in 0 .. 1 /\ n = 2 * (n \div 2) + (n % 2)
OBVIOUS

LEMMA ReverseRange == \A e \in Nat : \A n \in Nat : bitReverse(n, e) \in 0 .. Pow2[e] - 1
<1> SUFFICES ASSUME NEW e \in Nat PROVE \A n \in Nat : bitReverse(n, e) \in 0 .. Pow2[e] - 1
  OBVIOUS
<1> DEFINE S == {i \in 0 .. e : \A n \in Nat : bitReverse(n, i) \in 0 .. Pow2[i] - 1}
<1>1. 0 \in S
  BY ReverseNone, Pow2Facts
<1>2. \A i \in 0 .. e - 1 : i \in S => i + 1 \in S
  <2> SUFFICES ASSUME NEW i \in 0 .. e - 1, \A n \in Nat : bitReverse(n, i) \in 0 .. Pow2[i] - 1, NEW n \in Nat
               PROVE  bitReverse(n, i + 1) \in 0 .. Pow2[i + 1] - 1
    OBVIOUS
  <2> DEFINE j == n \div 2
             s == n % 2
  <2>1. j \in Nat /\ s \in 0 .. 1 /\ n = 2 * j + s /\ i \in Nat
    BY Halves
  <2> HIDE DEF j, s
  <2>2. bitReverse(n, i + 1) = s * Pow2[i] + bitReverse(j, i)
    BY <2>1, ReverseStep
  <2>3. bitReverse(j, i) \in 0 .. Pow2[i] - 1 /\ Pow2[i] \in Nat /\ Pow2[i + 1] = 2 * Pow2[i]
    BY <2>1, Pow2Facts
  <2>4. s * Pow2[i] = IF s = 1 THEN Pow2[i] ELSE 0
    BY <2>1, <2>3
  <2> QED
    BY <2>2, <2>3, <2>4
<1> HIDE DEF S
<1>3. e \in S
  BY <1>1, <1>2, InductionUpTo
<1> QED
  BY <1>3 DEF S

\* The high bits of a number become the low bits.
LEMMA ReverseJoined ==
  ASSUME NEW c \in Nat, NEW n \in Nat
  PROVE  \A d \in Nat : \A i \in 0 .. Pow2[d] - 1 :
           bitReverse(n * Pow2[d] + i, c + d) = bitReverse(n, c) + Pow2[c] * bitReverse(i, d)
<1> SUFFICES ASSUME NEW d \in Nat
             PROVE  \A i \in 0 .. Pow2[d] - 1 :
                      bitReverse(n * Pow2[d] + i, c + d) = bitReverse(n, c) + Pow2[c] * bitReverse(i, d)
  OBVIOUS
<1> DEFINE Joined(e) == \A i \in 0 .. Pow2[e] - 1 :
             bitReverse(n * Pow2[e] + i, c + e) = bitReverse(n, c) + Pow2[c] * bitReverse(i, e)
           S == {e \in 0 .. d : Joined(e)}
<1>1. 0 \in S
  <2>1. Pow2[0] = 1 /\ n * 1 + 0 = n /\ c + 0 = c /\ bitReverse(0, 0) = 0 /\ Pow2[c] * 0 = 0
    BY Pow2Facts, ReverseNone
  <2>2. bitReverse(n, c) \in Int
    BY ReverseRange
  <2>3. \A i \in 0 .. Pow2[0] - 1 : i = 0
    BY <2>1
  <2> QED
    BY <2>1, <2>2, <2>3
<1>2. \A e \in 0 .. d - 1 : e \in S => e + 1 \in S
  <2> SUFFICES ASSUME NEW e \in 0 .. d - 1, Joined(e), NEW i \in 0 .. Pow2[e + 1] - 1
               PROVE  bitReverse(n * Pow2[e + 1] + i, c + (e + 1)) = bitReverse(n, c) + Pow2[c] * bitReverse(i, e + 1)
    OBVIOUS
  <2> DEFINE j == i \div 2
             s == i % 2
             w == Pow2[e]
  <2>1. w \in Nat \ {0} /\ Pow2[e + 1] = 2 * w /\ c + (e + 1) = (c + e) + 1 /\ c + e \in Nat /\ e \in Nat /\ i \in Nat
    BY Pow2Facts
  <2>2. j \in Nat /\ s \in 0 .. 1 /\ i = 2 * j + s
    BY <2>1, Halves
  <2> HIDE DEF j, s, w
  <2>3. j \in 0 .. w - 1 /\ n * w + j \in Nat /\ n * (2 * w) + i = 2 * (n * w + j) + s
    <3>1. j \in 0 .. w - 1
      BY <2>1, <2>2
    <3>2. n * w \in Nat /\ n * (2 * w) = 2 * (n * w)
      BY <2>1
    <3> QED
      BY <2>2, <3>1, <3>2
  <2> DEFINE h == n * w + j
             x == bitReverse(n, c)
             y == bitReverse(j, e)
             u == Pow2[c]
  <2>4. bitReverse(2 * h + s, (c + e) + 1) = s * Pow2[c + e] + bitReverse(h, c + e)
    BY <2>1, <2>2, <2>3, ReverseStep
  <2>5. bitReverse(h, c + e) = x + u * y
    BY <2>3 DEF w
  <2>6. bitReverse(i, e + 1) = s * w + y
    BY <2>1, <2>2, ReverseStep DEF w
  <2>7. Pow2[c + e] = u * w
    BY <2>1, Pow2Sum DEF w
  <2>8. x \in Int /\ y \in Int /\ u \in Int
    <3>1. x \in 0 .. Pow2[c] - 1 /\ y \in 0 .. Pow2[e] - 1
      BY <2>1, <2>2, ReverseRange
    <3> QED
      BY <3>1, Pow2Facts
  <2>9. bitReverse(n * Pow2[e + 1] + i, c + (e + 1)) = s * (u * w) + (x + u * y)
    BY <2>1, <2>3, <2>4, <2>5, <2>7
  <2> HIDE DEF x, y, u, h
  <2>10. s * (u * w) + (x + u * y) = x + u * (s * w + y)
    BY <2>1, <2>2, <2>8
  <2> QED
    BY <2>6, <2>9, <2>10 DEF x, u
<1> HIDE DEF S
<1>3. d \in S
  BY <1>1, <1>2, InductionUpTo
<1> QED
  BY <1>3 DEF S

\* The highest bit becomes the lowest.
LEMMA ReverseHigh ==
  ASSUME NEW e \in Nat, NEW i \in 0 .. Pow2[e] - 1, NEW s \in 0 .. 1
  PROVE  bitReverse(s * Pow2[e] + i, e + 1) = s + 2 * bitReverse(i, e)
<1>1. bitReverse(s, 1) = s
  <2>1. 2 * 0 + s = s /\ 0 + 1 = 1 /\ bitReverse(0, 0) = 0 /\ Pow2[0] = 1
    BY ReverseNone, Pow2Facts
  <2>2. bitReverse(2 * 0 + s, 0 + 1) = s * Pow2[0] + bitReverse(0, 0)
    BY ReverseStep
  <2> QED
    BY <2>1, <2>2
<1>2. Pow2[1] = 2 /\ 1 + e = e + 1 /\ 1 \in Nat /\ s \in Nat
  <2>1. 0 + 1 = 1 /\ Pow2[0 + 1] = 2 * Pow2[0] /\ Pow2[0] = 1
    BY Pow2Facts
  <2> QED
    BY <2>1
<1>3. bitReverse(s * Pow2[e] + i, 1 + e) = bitReverse(s, 1) + Pow2[1] * bitReverse(i, e)
  BY <1>2, ReverseJoined
<1> QED
  BY <1>1, <1>2, <1>3

LEMMA ReverseTwice == \A e \in Nat : \A n \in 0 .. Pow2[e] - 1 : bitReverse(bitReverse(n, e), e) = n
<1> SUFFICES ASSUME NEW e \in Nat PROVE \A n \in 0 .. Pow2[e] - 1 : bitReverse(bitReverse(n, e), e) = n
  OBVIOUS
<1> DEFINE Twice(i) == \A n \in 0 .. Pow2[i] - 1 : bitReverse(bitReverse(n, i), i) = n
           S == {i \in 0 .. e : Twice(i)}
<1>1. 0 \in S
  <2>1. Pow2[0] = 1 /\ \A n \in 0 .. 0 : n = 0 /\ bitReverse(n, 0) = 0
    BY Pow2Facts, ReverseNone
  <2> QED
    BY <2>1
<1>2. \A i \in 0 .. e - 1 : i \in S => i + 1 \in S
  <2> SUFFICES ASSUME NEW i \in 0 .. e - 1, Twice(i), NEW n \in 0 .. Pow2[i + 1] - 1
               PROVE  bitReverse(bitReverse(n, i + 1), i + 1) = n
    OBVIOUS
  <2> DEFINE j == n \div 2
             s == n % 2
             w == Pow2[i]
             x == bitReverse(j, i)
  <2>1. w \in Nat \ {0} /\ Pow2[i + 1] = 2 * w /\ i \in Nat /\ n \in Nat
    BY Pow2Facts
  <2>2. j \in Nat /\ s \in 0 .. 1 /\ n = 2 * j + s
    BY <2>1, Halves
  <2> HIDE DEF j, s
  <2>3. j \in 0 .. w - 1
    <3> HIDE DEF w
    <3> QED
      BY <2>1, <2>2
  <2>4. bitReverse(n, i + 1) = s * w + x
    BY <2>1, <2>2, ReverseStep
  <2>5. x \in 0 .. w - 1
    BY <2>1, <2>2, ReverseRange
  <2>6. bitReverse(s * w + x, i + 1) = s + 2 * bitReverse(x, i)
    BY <2>1, <2>2, <2>5, ReverseHigh
  <2>7. bitReverse(x, i) = j
    BY <2>3
  <2> QED
    BY <2>2, <2>4, <2>6, <2>7
<1> HIDE DEF S
<1>3. e \in S
  BY <1>1, <1>2, InductionUpTo
<1> QED
  BY <1>3 DEF S

\* Turning every bit over does so in the reverse.
LEMMA ReverseMirrored ==
  \A e \in Nat : \A n \in 0 .. Pow2[e] - 1 : bitReverse(Pow2[e] - 1 - n, e) = Pow2[e] - 1 - bitReverse(n, e)
<1> SUFFICES ASSUME NEW e \in Nat
             PROVE  \A n \in 0 .. Pow2[e] - 1 : bitReverse(Pow2[e] - 1 - n, e) = Pow2[e] - 1 - bitReverse(n, e)
  OBVIOUS
<1> DEFINE Mirrored(i) ==
             \A n \in 0 .. Pow2[i] - 1 : bitReverse(Pow2[i] - 1 - n, i) = Pow2[i] - 1 - bitReverse(n, i)
           S == {i \in 0 .. e : Mirrored(i)}
<1>1. 0 \in S
  <2>1. Pow2[0] = 1 /\ \A n : bitReverse(n, 0) = 0
    BY Pow2Facts, ReverseNone
  <2> QED
    BY <2>1
<1>2. \A i \in 0 .. e - 1 : i \in S => i + 1 \in S
  <2> SUFFICES ASSUME NEW i \in 0 .. e - 1, Mirrored(i), NEW n \in 0 .. Pow2[i + 1] - 1
               PROVE  bitReverse(Pow2[i + 1] - 1 - n, i + 1) = Pow2[i + 1] - 1 - bitReverse(n, i + 1)
    OBVIOUS
  <2> DEFINE j == n \div 2
             s == n % 2
             w == Pow2[i]
             x == bitReverse(j, i)
  <2>1. w \in Nat \ {0} /\ Pow2[i + 1] = 2 * w /\ i \in Nat /\ n \in Nat
    BY Pow2Facts
  <2>2. j \in Nat /\ s \in 0 .. 1 /\ n = 2 * j + s
    BY <2>1, Halves
  <2> HIDE DEF j, s
  <2>3. j \in 0 .. w - 1 /\ w - 1 - j \in Nat /\ 2 * w - 1 - n = 2 * (w - 1 - j) + (1 - s) /\ 1 - s \in 0 .. 1
    <3> HIDE DEF w
    <3> QED
      BY <2>1, <2>2
  <2>4. bitReverse(n, i + 1) = s * w + x
    BY <2>1, <2>2, ReverseStep
  <2>5. bitReverse(2 * (w - 1 - j) + (1 - s), i + 1) = (1 - s) * w + bitReverse(w - 1 - j, i)
    BY <2>1, <2>3, ReverseStep
  <2>6. bitReverse(w - 1 - j, i) = w - 1 - x
    BY <2>3
  <2>7. x \in Int
    BY <2>1, <2>2, ReverseRange
  <2> HIDE DEF w, x
  <2>8. (1 - s) * w + (w - 1 - x) = 2 * w - 1 - (s * w + x)
    BY <2>1, <2>2, <2>7
  <2> QED
    BY <2>1, <2>3, <2>4, <2>5, <2>6, <2>8
<1> HIDE DEF S
<1>3. e \in S
  BY <1>1, <1>2, InductionUpTo
<1> QED
  BY <1>3 DEF S

-------------------------------------------------------------------------------
(* Tables *)

LEMMA RootPowsFacts ==
  ASSUME NEW d \in 0 .. LogN, Pow2[d] \in RowLengths, NEW j \in 0 .. Pow2[d] - 1
  PROVE  /\ RootPows[Pow2[d]][j] = Pow(Pow2[LogN - d] * bitReverse(j, d))
         /\ RootPows[Pow2[d]][j] \in 1 .. q - 1
         /\ Pow2[LogN - d] * bitReverse(j, d) \in 0 .. N - 1
<1>1. LogOf(Pow2[d]) = d
  BY LogOfPower
<1>2. d \in Nat /\ d <= LogN /\ LogN - d \in Nat
  BY Sizes
<1>3. N \div Pow2[d] = Pow2[LogN - d] /\ N = Pow2[d] * Pow2[LogN - d]
  BY <1>2, Sizes, Pow2Order DEF N
<1> DEFINE u == Pow2[LogN - d]
           v == Pow2[d]
           x == bitReverse(j, d)
<1>4. u \in Nat \ {0} /\ v \in Nat \ {0} /\ x \in 0 .. v - 1
  <2>1. j \in Nat
    OBVIOUS
  <2> QED
    BY <1>2, <2>1, ReverseRange, Pow2Facts
<1>5. RootPows[v][j] = power[(N \div v) * bitReverse(j, LogOf(v))]
  BY DEF RootPows
<1>6. N = v * u
  BY <1>3
<1>7. RootPows[v][j] = power[u * x]
  BY <1>1, <1>3, <1>5
<1> HIDE DEF u, v, x
<1>8. u * x \in 0 .. N - 1
  <2>1. u * x \in Nat /\ u * x <= u * (v - 1) /\ u * (v - 1) = v * u - u
    BY <1>4
  <2>2. v * u \in Int
    BY <1>4
  <2> QED
    BY <1>4, <1>6, <2>1, <2>2
<1>9. u * x \in 0 .. M /\ u * x \in Int
  BY <1>8, Sizes
<1>10. power[u * x] = Pow(u * x) /\ Pow(u * x) \in 1 .. q - 1
  <2> DEFINE e == u * x
  <2>1. e \in 0 .. M /\ e \in Int
    BY <1>9
  <2> HIDE DEF e
  <2>2. power[e] = Pow(e) /\ Pow(e) \in 1 .. q - 1
    BY <2>1, PowTable, PowInverse
  <2> QED
    BY <2>2 DEF e
<1> QED
  BY <1>7, <1>8, <1>10 DEF u, v, x

LEMMA RootPowsInvFacts ==
  ASSUME NEW j \in Index
  PROVE  RootPowsInv[j] \in 1 .. q - 1 /\ Mod(RootPows[N][j] * RootPowsInv[j]) = Mod(1)
<1>1. LogN \in 0 .. LogN /\ Pow2[LogN] \in RowLengths /\ j \in 0 .. Pow2[LogN] - 1
  BY Sizes DEF RowLengths, N, Index
<1> DEFINE x == RootPows[N][j]
           e == Pow2[LogN - LogN] * bitReverse(j, LogN)
<1>2. x = Pow(e) /\ x \in 1 .. q - 1 /\ e \in 0 .. N - 1
  BY <1>1, RootPowsFacts DEF N
<1> HIDE DEF x, e
<1>3. x \in Int /\ Invertible(x, q)
  BY <1>2, PowInverse
<1>4. RootPowsInv[j] = InverseMod(x)
  BY DEF RootPowsInv, x
<1> QED
  BY <1>3, <1>4, InverseModFacts DEF x

LEMMA Matrix ==
  ASSUME NEW k \in Index
  PROVE  /\ k \in Nat /\ k \div N2 \in 0 .. N1 - 1 /\ k % N2 \in 0 .. N2 - 1 /\ k = (k \div N2) * N2 + (k % N2)
         /\ k \div N1 \in 0 .. N2 - 1 /\ k % N1 \in 0 .. N1 - 1 /\ k = (k \div N1) * N1 + (k % N1)
<1>1. k \in Nat /\ k < N1 * N2
  BY Sizes DEF Index
<1>2. ASSUME NEW b \in Nat \ {0}, NEW c \in Nat \ {0}, k < c * b
      PROVE  k \div b \in 0 .. c - 1 /\ k % b \in 0 .. b - 1 /\ k = (k \div b) * b + (k % b)
  <2> DEFINE d == k \div b
             r == k % b
  <2>1. d \in Nat /\ r \in 0 .. b - 1 /\ k = d * b + r
    BY <1>1, DivMod
  <2> HIDE DEF d, r
  <2>2. CASE d >= c
    <3>1. d * b >= c * b /\ d * b \in Int /\ c * b \in Int
      BY <2>1, <2>2
    <3> QED
      BY <1>2, <2>1, <3>1
  <2>3. d < c
    BY <2>1, <2>2
  <2> QED
    BY <2>1, <2>3 DEF d, r
<1>3. N1 * N2 = N2 * N1 /\ N1 \in Nat \ {0} /\ N2 \in Nat \ {0}
  BY Sizes
<1> QED
  BY <1>1, <1>2, <1>3

\* The exponent of the word in a row and a column of Wmatrix.
Between(row, column) == column * (2 * bitReverse(row, LogN1) - N1 + 1)

LEMMA WmatrixFacts ==
  ASSUME NEW k \in Index
  PROVE  /\ Between(k \div N2, k % N2) \in Int /\ Wmatrix[k] \in 1 .. q - 1
         /\ Mod(Wmatrix[k]) = Mod(Pow(Between(k \div N2, k % N2)))
<1> DEFINE c == k % N2
           x == bitReverse(k \div N2, LogN1)
           y == 2 * x - N1 + 1
           e == c * y
<1>1. c \in 0 .. N2 - 1 /\ k \div N2 \in Nat
  BY Matrix
<1>2. x \in 0 .. N1 - 1
  BY <1>1, ReverseRange, Sizes DEF N1
<1>3. Wmatrix[k] = IF e >= 0 THEN power[e] ELSE q - power[N + e]
  BY DEF Wmatrix
<1> HIDE DEF c, x
<1>4. y \in Int /\ 0 - (N1 - 1) <= y /\ y <= N1 - 1
  BY <1>2, Sizes
<1> HIDE DEF y
<1>5. e \in Int /\ 0 - N < e /\ e < N
  <2>1. \A u, v, w \in Nat : u <= v => u * w <= v * w /\ u * w \in Nat
    OBVIOUS
  <2> DEFINE h == N1 - 1
             g == N2 - 1
  <2>2. h \in Nat /\ g \in Nat /\ c \in Nat /\ c <= g /\ N = (h + 1) * (g + 1) /\ N \in Int /\ 0 - h <= y /\ y <= h
    BY <1>1, <1>4, Sizes
  <2> HIDE DEF h, g
  <2>3. c * h <= g * h /\ c * h \in Nat /\ g * h \in Nat
    BY <2>1, <2>2
  <2>4. N = g * h + g + h + 1
    BY <2>2
  <2>5. CASE y >= 0
    <3>1. c * y <= c * h /\ 0 <= c * y /\ c * y \in Int
      BY <1>4, <2>2, <2>5
    <3> QED
      BY <2>2, <2>3, <2>4, <3>1
  <2>6. CASE y < 0
    <3>1. c * (0 - y) <= c * h /\ 0 <= c * (0 - y) /\ c * (0 - y) = 0 - c * y /\ c * y \in Int
      BY <1>4, <2>2, <2>6
    <3> QED
      BY <2>2, <2>3, <2>4, <3>1
  <2> QED
    BY <1>4, <2>5, <2>6
<1> HIDE DEF e
<1>6. Between(k \div N2, k % N2) = e
  BY DEF Between, e, y, c, x
<1>7. CASE e >= 0
  <2>1. e \in 0 .. M
    BY <1>5, <1>7, Sizes
  <2> QED
    BY <1>3, <1>5, <1>6, <1>7, <2>1, PowTable, PowInverse
<1>8. CASE e < 0
  <2> DEFINE f == N + e
  <2>1. f \in 0 .. M /\ f \in Int /\ e + N = f
    BY <1>5, <1>8, Sizes
  <2>2. Wmatrix[k] = q - power[f]
    <3>1. ~(e >= 0)
      BY <1>5, <1>8
    <3> QED
      BY <1>3, <3>1
  <2> HIDE DEF f
  <2>3. power[f] = Pow(f) /\ Pow(f) \in 1 .. q - 1
    BY <2>1, PowTable, PowInverse
  <2>4. Mod(Pow(f)) = Mod(0 - Pow(e))
    BY <1>5, <2>1, PowHalf
  <2> DEFINE b == Pow(f)
             c1 == 0 - Pow(e)
  <2>5. b \in Int /\ c1 \in Int /\ 0 \in Int /\ Mod(b) = Mod(c1) /\ 0 - c1 = Pow(e)
    BY <1>5, <2>3, <2>4, PowRange
  <2> HIDE DEF b, c1
  <2>6. Mod(0 - b) = Mod(0 - c1)
    <3>1. Mod(0) \in Int
      BY ModRange
    <3> QED
      BY <2>5, <3>1, ModTimes
  <2>7. Mod((0 - b) + 1 * q) = Mod(0 - b)
    <3>1. 0 - b \in Int /\ 1 \in Int
      BY <2>5
    <3> QED
      BY <3>1, ModFacts
  <2>8. (0 - b) + 1 * q = q - b /\ q - b \in 1 .. q - 1
    BY <2>3, Sizes DEF b
  <2> QED
    BY <1>5, <1>6, <2>2, <2>3, <2>5, <2>6, <2>7, <2>8 DEF b
<1> QED
  BY <1>5, <1>7, <1>8

\* Every automorphism is by an odd exponent.
LEMMA RotGroupFacts ==
  \A r \in 0 .. N \div 2 - 1 : rotGroup[r] \in 0 .. M - 1 /\ Congruent(rotGroup[r], 1, 2)
<1> DEFINE n == N \div 2 - 1
           S == {x \in 0 .. M - 1 : Congruent(x, 1, 2)}
           step == [r \in 1 .. n |-> [x \in S |-> (5 * x) % M]]
           Body(f) == [r \in 0 .. N \div 2 - 1 |-> IF r = 0 THEN 1 ELSE (5 * f[r - 1]) % M]
<1>1. ASSUME NEW x \in S PROVE (5 * x) % M \in S
  <2> DEFINE y == (5 * x) % M
  <2>1. 5 * x \in Int /\ M \in Nat \ {0} /\ M = 2 * N /\ N \in Int
    BY Sizes
  <2>2. y \in 0 .. M - 1 /\ Congruent(y, 5 * x, M)
    BY <2>1, DivisionFacts
  <2>3. PICK d \in Int : y - 5 * x = M * d
    BY <2>2 DEF Congruent, Divides
  <2>4. PICK c \in Int : x - 1 = 2 * c
    BY DEF Congruent, Divides
  <2> HIDE DEF y
  <2>5. N * d \in Int /\ M * d = 2 * (N * d)
    BY <2>1, <2>3
  <2>6. y - 1 = 2 * (5 * c + 2 + N * d) /\ 5 * c + 2 + N * d \in Int
    BY <2>1, <2>2, <2>3, <2>4, <2>5
  <2>7. Congruent(y, 1, 2)
    BY <2>6 DEF Congruent, Divides
  <2> QED
    BY <2>2, <2>7 DEF y
<1>2. 1 \in S /\ n \in Nat
  <2>1. 1 - 1 = 2 * 0 /\ 0 \in Int
    OBVIOUS
  <2>2. Congruent(1, 1, 2)
    BY <2>1 DEF Congruent, Divides
  <2>3. N = 2 * Pow2[LogN - 1] /\ Pow2[LogN - 1] \in Nat \ {0} /\ LogN - 1 \in Nat
    BY Sizes, Pow2Facts
  <2>4. N \div 2 = Pow2[LogN - 1]
    BY <2>3
  <2>5. 1 \in 0 .. M - 1
    BY Sizes
  <2> QED
    BY <2>2, <2>3, <2>4, <2>5
<1>3. PICK f : IsIteration(f, S, n, 1, step)
  <2>1. \A i \in 1 .. n : \A x \in S : step[i][x] \in S
    <3> HIDE DEF S
    <3> QED
      BY <1>1
  <2> HIDE DEF S, step, n
  <2> QED
    BY <1>2, <2>1, Iteration
<1>4. f = Body(f)
  <2>1. f = [r \in 0 .. n |-> f[r]]
    BY <1>3 DEF IsIteration
  <2>2. \A r \in 0 .. n : r = 0 \/ (r \in 1 .. n /\ r # 0 /\ r - 1 \in 0 .. n)
    BY <1>2
  <2>3. \A r \in 0 .. n : f[r] \in S
    BY <1>3 DEF IsIteration
  <2>4. \A r \in 1 .. n : f[r] = step[r][f[r - 1]] /\ step[r][f[r - 1]] = (5 * f[r - 1]) % M
    <3> HIDE DEF n, S
    <3> SUFFICES ASSUME NEW r \in 1 .. n
                 PROVE  f[r] = step[r][f[r - 1]] /\ step[r][f[r - 1]] = (5 * f[r - 1]) % M
      OBVIOUS
    <3>1. r - 1 \in 0 .. n /\ f[r - 1] \in S
      BY <2>2, <2>3
    <3>2. step[r] = [x \in S |-> (5 * x) % M]
      OBVIOUS
    <3>3. f[r] = step[r][f[r - 1]]
      <4> HIDE DEF step
      <4> QED
        BY <1>3 DEF IsIteration
    <3> QED
      BY <3>1, <3>2, <3>3
  <2> HIDE DEF S, step
  <2>5. \A r \in 0 .. n : f[r] = IF r = 0 THEN 1 ELSE (5 * f[r - 1]) % M
    BY <1>3, <2>2, <2>4 DEF IsIteration
  <2> QED
    BY <2>1, <2>5
<1>5. rotGroup = CHOOSE g : g = Body(g)
  BY Zenon DEF rotGroup
<1>6. rotGroup = Body(rotGroup)
  <2> HIDE DEF Body
  <2> QED
    BY <1>4, <1>5, Zenon
<1> DEFINE T == {r \in 0 .. n : rotGroup[r] \in S}
<1>7. 0 \in T
  <2>1. rotGroup[0] = 1
    BY <1>2, <1>6
  <2> QED
    BY <1>2, <2>1
<1>8. \A r \in 0 .. n - 1 : r \in T => r + 1 \in T
  <2> SUFFICES ASSUME NEW r \in 0 .. n - 1, rotGroup[r] \in S PROVE rotGroup[r + 1] \in S
    <3> HIDE DEF n, S
    <3> QED
      BY <1>2
  <2>1. r + 1 \in 0 .. n /\ r + 1 # 0 /\ (r + 1) - 1 = r
    BY <1>2
  <2>2. rotGroup[r + 1] = (5 * rotGroup[r]) % M
    BY <1>6, <2>1
  <2> QED
    BY <1>1, <2>2
<1> HIDE DEF T
<1>9. \A r \in 0 .. n : r \in T
  <2> HIDE DEF n
  <2> QED
    BY <1>2, <1>7, <1>8, InductionUpTo
<1> QED
  BY <1>9 DEF T

LEMMA Log2qFacts == Log2q \in Nat /\ q < Pow2[Log2q + 1]
<1> DEFINE S == {e \in Nat : q < Pow2[e + 1]}
<1>1. Word \in S
  BY Sizes, Pow2Facts DEF R
<1>2. PICK e \in S : \A d \in S : e <= d
  <2> HIDE DEF S
  <2>1. S \in SUBSET Nat
    BY DEF S
  <2> QED
    BY <1>1, <2>1, LeastElement
<1>3. e \in 0 .. Word
  BY <1>1, <1>2, Sizes
<1>4. Pow2[e] <= q
  <2>1. CASE e = 0
    BY <2>1, Pow2Facts, Sizes
  <2>2. CASE e # 0
    <3>1. e - 1 \in Nat /\ (e - 1) + 1 = e /\ e - 1 \notin S
      BY <1>2, <2>2
    <3>2. ~(q < Pow2[e]) /\ Pow2[e] \in Int
      BY <3>1, Pow2Facts
    <3> QED
      BY <3>2, Sizes
  <2> QED
    BY <2>1, <2>2
<1>5. \E d \in 0 .. Word : Pow2[d] <= q /\ q < Pow2[d + 1]
  BY <1>2, <1>3, <1>4
<1>6. Log2q \in 0 .. Word /\ q < Pow2[Log2q + 1]
  BY <1>5 DEF Log2q
<1> QED
  BY <1>6

LEMMA mulModBarrettFacts ==
  ASSUME NEW x \in Nat, NEW y \in Nat
  PROVE  mulModBarrett(x, y) \in 0 .. q - 1 /\ Mod(mulModBarrett(x, y)) = Mod(x * y)
<1> DEFINE t == (x % q) * (y % q)
           K == Pow2[qTwok]
           h == (t * qr) \div K
           w == Pow2[Log2q + 1]
<1>1. x % q \in 0 .. q - 1 /\ y % q \in 0 .. q - 1 /\ x % q = Mod(x) /\ y % q = Mod(y)
  BY Sizes DEF Mod
<1>2. K = w * w /\ w \in Nat \ {0} /\ q < w
  <2>1. Log2q + 1 \in Nat /\ 2 * (Log2q + 1) = (Log2q + 1) + (Log2q + 1)
    BY Log2qFacts
  <2>2. K = w * w
    BY <2>1, Pow2Sum DEF qTwok
  <2> QED
    BY <2>1, <2>2, Log2qFacts, Pow2Facts
<1>3. t \in Nat /\ t < q * q /\ q * q <= w * w /\ w * w \in Nat \ {0} /\ q * q \in Nat
  <2> DEFINE u == x % q
             v == y % q
  <2>1. u \in Nat /\ v \in Nat /\ u <= q - 1 /\ v <= q - 1 /\ q - 1 \in Nat /\ q \in Nat /\ w \in Nat /\ q <= w
    BY <1>1, <1>2, Sizes
  <2> HIDE DEF u, v, w
  <2>2. \A b, c, d, e \in Nat : b <= c /\ d <= e => b * d <= c * e /\ b * d \in Nat
    OBVIOUS
  <2>3. u * v <= (q - 1) * (q - 1) /\ u * v \in Nat /\ q * q <= w * w /\ q * q \in Nat /\ w * w \in Nat
    BY <2>1, <2>2
  <2>4. (q - 1) * (q - 1) = q * q - 2 * q + 1 /\ q * q \in Int /\ q > 1
    BY Sizes
  <2>5. w * w # 0
    BY <1>2
  <2> QED
    BY <2>3, <2>4, <2>5, Sizes DEF u, v
<1> HIDE DEF w
<1>4. K \in Nat \ {0} /\ t \in 0 .. K - 1
  <2> HIDE DEF t, K
  <2> QED
    BY <1>2, <1>3
<1>5. qr = (1 * K) \div q
  BY <1>4 DEF qr
<1> HIDE DEF t, K
<1>6. h \in Int /\ t * 1 - q * h \in 0 .. 2 * q - 1
  BY <1>4, <1>5, Sizes, BarrettStep
<1> DEFINE r == t - q * h
<1>7. mulModBarrett(x, y) = IF r < q THEN r ELSE r - q
  BY DEF mulModBarrett, t, K
<1> HIDE DEF h
<1>8. r \in 0 .. 2 * q - 1 /\ t \in Int /\ Mod(r) = Mod(t)
  <2>1. t \in Int /\ q * h = h * q /\ t * 1 = t
    BY <1>4, <1>6, Sizes
  <2> QED
    BY <1>6, <2>1, ModFacts
<1> HIDE DEF r
<1>9. Mod(r - q) = Mod(r)
  <2>1. r - 1 * q = r - q /\ r \in Int
    BY <1>8, Sizes
  <2> QED
    BY <2>1, ModFacts
<1>10. Mod(t) = Mod(x * y)
  <2>1. Mod(x) \in Int /\ Mod(y) \in Int /\ Mod(Mod(x)) = Mod(x) /\ Mod(Mod(y)) = Mod(y)
    BY ModRange
  <2>2. t = Mod(x) * Mod(y)
    BY <1>1 DEF t
  <2> DEFINE u == Mod(x)
             v == Mod(y)
  <2>3. u \in Int /\ v \in Int /\ Mod(u) = Mod(x) /\ Mod(v) = Mod(y) /\ x \in Int /\ y \in Int
    BY <2>1
  <2> HIDE DEF u, v
  <2>4. Mod(u * v) = Mod(x * y)
    BY <2>3, ModOperations
  <2> QED
    BY <2>2, <2>4 DEF u, v
<1> QED
  BY <1>7, <1>8, <1>9, <1>10, Sizes

-------------------------------------------------------------------------------
(* Butterflies *)

\* Their sums and differences stay within any bound on x that is at least q.
LEMMA SumFacts ==
  ASSUME NEW al, NEW length, NEW b, NEW B \in q .. R - q - 1, NEW x \in 0 .. B, NEW V \in 0 .. q
  PROVE  /\ SumIn(al, length, b, x, V) \in 0 .. B /\ Mod(SumIn(al, length, b, x, V)) = Mod(x + V)
         /\ DifferenceIn(al, length, b, x, V) \in 0 .. B /\ Mod(DifferenceIn(al, length, b, x, V)) = Mod(x - V)
<1>1. (x + V) % R = x + V /\ x + V \in 0 .. R - 1 /\ x - V \in 0 - q .. R - q - 1 /\ x \in Int /\ V \in Int
      /\ x + V \in Int /\ x - V \in Int
  BY Sizes
<1> DEFINE s == x + V
           c == x - V
<1>2. vminuSum(s) = (IF s < q THEN s ELSE s - q) /\ vminuDifference(x, V) = IF c < 0 THEN c + q ELSE c
  <2>1. x - V + q = c + q
    BY <1>1, Sizes
  <2> QED
    BY <1>1, <2>1, LeastFacts DEF vminuSum, vminuDifference
<1>3. SumIn(al, length, b, x, V) \in {s, s - q} /\ (s < q => SumIn(al, length, b, x, V) = s)
      /\ (s > q => SumIn(al, length, b, x, V) = s - q)
  BY <1>1, <1>2, Sizes DEF SumIn, addmod, ReduceSum
<1>4. DifferenceIn(al, length, b, x, V) = IF c < 0 THEN c + q ELSE c
  <2>1. Difference(x, V) = IF c < 0 THEN c + q ELSE c
    BY <1>1, Sizes DEF Difference
  <2> QED
    BY <1>2, <2>1 DEF DifferenceIn, submod
<1>5. Mod(s - q) = Mod(s) /\ Mod(c + q) = Mod(c)
  <2>1. s - 1 * q = s - q /\ c + 1 * q = c + q
    BY <1>1, Sizes
  <2> QED
    BY <1>1, <2>1, ModFacts
<1>6. /\ s < q => s \in 0 .. B
      /\ s >= q => s - q \in 0 .. B
      /\ s = q => s \in 0 .. B
      /\ c < 0 => c + q \in 0 .. B
      /\ c >= 0 => c \in 0 .. B
  BY <1>1, Sizes
<1> HIDE DEF s, c
<1>7. s \in Int /\ c \in Int
  BY <1>1 DEF s, c
<1>8. s < q \/ s > q \/ s = q
  BY <1>7, Sizes
<1> QED
  BY <1>3, <1>4, <1>5, <1>6, <1>7, <1>8, Sizes DEF s, c

-------------------------------------------------------------------------------
(* Schedules *)

LEMMA MaxFacts ==
  ASSUME NEW b \in Nat, NEW S \in SUBSET (0 .. b), S # {}
  PROVE  Max(S) \in S /\ \A x \in S : x <= Max(S)
<1> DEFINE T == {y \in 0 .. b : b - y \in S}
<1>1. T \in SUBSET Nat /\ T # {}
  <2>1. PICK x \in S : x \in 0 .. b
    OBVIOUS
  <2>2. b - x \in 0 .. b /\ b - (b - x) = x
    BY <2>1
  <2>3. b - x \in T
    BY <2>2
  <2> QED
    BY <2>3
<1>2. PICK y \in T : \A z \in T : y <= z
  <2> HIDE DEF T
  <2> QED
    BY <1>1, LeastElement
<1> DEFINE x == b - y
<1>3. x \in S /\ x \in Int /\ y \in Int
  BY <1>2
<1>4. \A z \in S : x >= z
  <2> SUFFICES ASSUME NEW z \in S PROVE x >= z
    OBVIOUS
  <2>0. z \in 0 .. b
    OBVIOUS
  <2>1. b - z \in T /\ z \in Int
    <3>1. b - z \in 0 .. b /\ b - (b - z) = z
      BY <2>0
    <3> QED
      BY <2>0, <3>1
  <2>2. y <= b - z
    BY <1>2, <2>1
  <2> QED
    BY <1>3, <2>1, <2>2
<1>5. Max(S) \in S /\ \A z \in S : Max(S) >= z
  BY <1>4 DEF Max
<1>6. \A z \in S : z \in Int
  OBVIOUS
<1> QED
  BY <1>5, <1>6

LEMMA MinFacts == \A x, y \in Int : Min({x, y}) = IF x <= y THEN x ELSE y
<1> SUFFICES ASSUME NEW x \in Int, NEW y \in Int PROVE Min({x, y}) = IF x <= y THEN x ELSE y
  OBVIOUS
<1>1. \E z \in {x, y} : \A w \in {x, y} : z <= w
  OBVIOUS
<1>2. Min({x, y}) \in {x, y} /\ \A w \in {x, y} : Min({x, y}) <= w
  BY <1>1 DEF Min
<1> QED
  BY <1>2

LEMMA PowersOrder == \A x, y \in Nat : (Pow2[x] <= Pow2[y] <=> x <= y) /\ (Pow2[x] < Pow2[y] <=> x < y)
<1> SUFFICES ASSUME NEW x \in Nat, NEW y \in Nat
             PROVE  (Pow2[x] <= Pow2[y] <=> x <= y) /\ (Pow2[x] < Pow2[y] <=> x < y)
  OBVIOUS
<1>1. Pow2[x] \in Int /\ Pow2[y] \in Int
  BY Pow2Facts
<1>2. x <= y => Pow2[x] <= Pow2[y]
  BY Pow2Order
<1>3. y <= x => Pow2[y] <= Pow2[x]
  BY Pow2Order
<1>4. x < y => Pow2[x] < Pow2[y]
  BY Pow2Order
<1>5. y < x => Pow2[y] < Pow2[x]
  BY Pow2Order
<1> QED
  BY <1>1, <1>2, <1>3, <1>4, <1>5

\* Word x of the i-th of the pieces of w words, which start at multiples of w.
At(i, w, x) == i * w + x
IsMultiple(t, c, v) == t = c * v

LEMMA PiecesCover ==
  ASSUME NEW c \in Nat \ {0}, NEW v \in Nat \ {0}, NEW t \in Int, IsMultiple(t, c, v)
  PROVE  /\ t \in Nat \ {0} /\ (t - 1) \div v = c - 1
         /\ \A i \in 0 .. c - 1 : \A x \in 0 .. v - 1 : At(i, v, x) \in 0 .. t - 1 /\ At(i, v, x) % v = x
         /\ \A j \in 0 .. t - 1 : \E i \in 0 .. c - 1 : \E x \in 0 .. v - 1 : j = At(i, v, x)
<1>1. t - 1 = (c - 1) * v + (v - 1) /\ c - 1 \in Nat /\ v - 1 \in 0 .. v - 1 /\ t \in Nat \ {0}
  <2>1. (c - 1) * v = c * v - v /\ c * v \in Nat /\ c * v # 0
    OBVIOUS
  <2> QED
    BY <2>1 DEF IsMultiple
<1>2. (t - 1) \div v = c - 1
  <2> DEFINE d == c - 1
             y == v - 1
  <2>1. t - 1 = d * v + y /\ d \in Nat /\ y \in 0 .. v - 1
    BY <1>1
  <2> HIDE DEF d, y
  <2>2. (d * v + y) \div v = d
    BY <2>1, Compose
  <2> QED
    BY <2>1, <2>2 DEF d
<1>3. ASSUME NEW i \in 0 .. c - 1, NEW x \in 0 .. v - 1 PROVE At(i, v, x) \in 0 .. t - 1 /\ At(i, v, x) % v = x
  <2>1. i * v <= (c - 1) * v /\ 0 <= i * v /\ i * v \in Int /\ i \in Nat
    OBVIOUS
  <2>2. (c - 1) * v \in Int
    OBVIOUS
  <2>3. (i * v + x) % v = x
    BY <2>1, Compose
  <2> QED
    BY <1>1, <2>1, <2>2, <2>3 DEF At
<1>4. ASSUME NEW j \in 0 .. t - 1 PROVE \E i \in 0 .. c - 1 : \E x \in 0 .. v - 1 : j = At(i, v, x)
  <2> DEFINE i == j \div v
             x == j % v
  <2>0. j \in Nat
    BY <1>1
  <2>1. i \in Nat /\ x \in 0 .. v - 1 /\ j = i * v + x
    BY <2>0, DivMod
  <2> HIDE DEF i, x
  <2>2. i < c
    <3> SUFFICES ASSUME i >= c PROVE FALSE
      BY <2>1
    <3>1. i * v >= c * v /\ i * v \in Int /\ c * v \in Int
      BY <2>1
    <3> QED
      BY <1>1, <2>1, <3>1 DEF IsMultiple
  <2>3. i \in 0 .. c - 1 /\ j = At(i, v, x)
    BY <2>1, <2>2 DEF At
  <2> QED
    BY <2>1, <2>3
<1> QED
  BY <1>1, <1>2, <1>3, <1>4

LEMMA PieceOf ==
  ASSUME NEW c \in Nat \ {0}, NEW v \in Nat \ {0}, NEW t \in Int, IsMultiple(t, c, v), NEW j \in 0 .. t - 1
  PROVE  \E i \in 0 .. c - 1 : \E x \in 0 .. v - 1 : j = At(i, v, x)
BY PiecesCover

\* Whole vectors cover what they divide.
Grid(n, v) == {i * v + x : i \in 0 .. n, x \in 0 .. v - 1}

LEMMA VectorsWhole ==
  ASSUME NEW c \in Nat \ {0}, NEW v \in Nat \ {0}, NEW t \in Int, IsMultiple(t, c, v)
  PROVE  Grid((t - 1) \div v, v) = 0 .. t - 1
<1>1. ASSUME NEW j \in Grid(c - 1, v) PROVE j \in 0 .. t - 1
  <2>1. \E i \in 0 .. c - 1 : \E x \in 0 .. v - 1 : j = i * v + x
    BY DEF Grid
  <2>2. PICK i \in 0 .. c - 1 : \E x \in 0 .. v - 1 : j = i * v + x
    BY <2>1
  <2>3. PICK x \in 0 .. v - 1 : j = i * v + x
    BY <2>2
  <2>4. j = At(i, v, x)
    BY <2>3 DEF At
  <2> QED
    BY <2>4, PiecesCover
<1>2. ASSUME NEW j \in 0 .. t - 1 PROVE j \in Grid(c - 1, v)
  <2>1. PICK i \in 0 .. c - 1, x \in 0 .. v - 1 : j = At(i, v, x)
    BY PiecesCover
  <2>2. j = i * v + x
    BY <2>1 DEF At
  <2> QED
    BY <2>2 DEF Grid
<1>3. Grid(c - 1, v) = 0 .. t - 1
  BY <1>1, <1>2
<1> QED
  BY <1>3, PiecesCover

\* The lower halves of the blocks of 2 * t words of a row.
Lower(length, t) == {j \in 0 .. length - 1 : j % (2 * t) < t}
AreBlocks(length, b, t) == length = b * (2 * t)

LEMMA LowerFacts ==
  ASSUME NEW b \in Nat \ {0}, NEW t \in Nat \ {0}, NEW length \in Int, AreBlocks(length, b, t)
  PROVE  /\ \A i \in 0 .. b - 1 : \A x \in 0 .. t - 1 : At(i, 2 * t, x) \in Lower(length, t)
         /\ \A j \in Lower(length, t) : \E i \in 0 .. b - 1 : \E x \in 0 .. t - 1 : j = At(i, 2 * t, x)
<1> DEFINE w == 2 * t
<1>1. IsMultiple(length, b, w) /\ w \in Nat \ {0} /\ t < w /\ 0 .. t - 1 \subseteq 0 .. w - 1
  BY DEF AreBlocks, IsMultiple
<1>2. Lower(length, t) = {j \in 0 .. length - 1 : j % w < t}
  BY DEF Lower
<1> HIDE DEF w
<1>3. \A i \in 0 .. b - 1 : \A x \in 0 .. w - 1 : At(i, w, x) \in 0 .. length - 1 /\ At(i, w, x) % w = x
  BY <1>1, PiecesCover
<1>4. ASSUME NEW j \in 0 .. length - 1 PROVE \E i \in 0 .. b - 1 : \E x \in 0 .. w - 1 : j = At(i, w, x)
  <2>1. w \in Nat \ {0} /\ IsMultiple(length, b, w)
    BY <1>1
  <2>2. PICK i \in 0 .. b - 1, x \in 0 .. w - 1 : j = At(i, w, x)
    BY <2>1, PieceOf
  <2> QED
    BY <2>2
<1>5. ASSUME NEW i \in 0 .. b - 1, NEW x \in 0 .. t - 1 PROVE At(i, w, x) \in Lower(length, t)
  <2>1. x \in 0 .. w - 1 /\ x < t
    BY <1>1
  <2>2. At(i, w, x) \in 0 .. length - 1 /\ At(i, w, x) % w = x
    BY <1>3, <2>1
  <2> QED
    BY <1>2, <2>1, <2>2
<1>6. ASSUME NEW j \in Lower(length, t) PROVE \E i \in 0 .. b - 1 : \E x \in 0 .. t - 1 : j = At(i, w, x)
  <2>1. j \in 0 .. length - 1 /\ j % w < t
    BY <1>2
  <2>2. PICK i \in 0 .. b - 1, x \in 0 .. w - 1 : j = At(i, w, x)
    BY <1>4, <2>1
  <2>3. j % w = x
    BY <1>3, <2>2
  <2>4. x \in 0 .. t - 1
    BY <2>1, <2>3
  <2> QED
    BY <2>2, <2>4
<1> QED
  BY <1>5, <1>6 DEF w

LEMMA BlocksFacts ==
  ASSUME NEW b \in Nat \ {0}, NEW t \in Nat \ {0}, NEW length \in Int, AreBlocks(length, b, t)
  PROVE  /\ InBlocks(b, t, 0 .. t - 1) = Lower(length, t)
         /\ \A o \in SUBSET (0 .. t - 1) : InBlocks(b, t, o) \subseteq Lower(length, t)
<1>1. \A i \in Int : i * 2 * t = i * (2 * t)
  OBVIOUS
<1>2. ASSUME NEW o \in SUBSET (0 .. t - 1), NEW j \in InBlocks(b, t, o) PROVE j \in Lower(length, t)
  <2>1. \E i \in 0 .. b - 1 : \E x \in o : j = i * 2 * t + x
    BY DEF InBlocks
  <2>2. PICK i \in 0 .. b - 1 : \E x \in o : j = i * 2 * t + x
    BY <2>1
  <2>3. PICK x \in o : j = i * 2 * t + x
    BY <2>2
  <2>4. x \in 0 .. t - 1 /\ j = At(i, 2 * t, x)
    BY <1>1, <2>3 DEF At
  <2> QED
    BY <2>4, LowerFacts
<1>3. 0 .. t - 1 \in SUBSET (0 .. t - 1)
  OBVIOUS
<1>4. ASSUME NEW j \in Lower(length, t) PROVE j \in InBlocks(b, t, 0 .. t - 1)
  <2>1. PICK i \in 0 .. b - 1, x \in 0 .. t - 1 : j = At(i, 2 * t, x)
    BY LowerFacts
  <2>2. j = i * 2 * t + x
    BY <1>1, <2>1 DEF At
  <2> DEFINE o == 0 .. t - 1
  <2>3. x \in o /\ j = i * 2 * t + x
    BY <2>2
  <2> HIDE DEF o
  <2>4. j \in InBlocks(b, t, o)
    BY <2>3 DEF InBlocks
  <2> QED
    BY <2>4 DEF o
<1> QED
  BY <1>2, <1>3, <1>4

LEMMA PairsWhole ==
  ASSUME NEW e \in Nat, NEW f \in Nat, VLMax = Pow2[e] PROVE Pairs(Pow2[f]) = 0 .. Pow2[f] - 1
<1> DEFINE t == Pow2[f]
           v == Min({t, VLMax})
           rest == t % (2 * v)
<1>1. t \in Nat \ {0} /\ VLMax \in Nat \ {0}
  BY Pow2Facts
<1>2. Pairs(t) = 0 .. t - rest - 1 \cup IF rest = v THEN t - rest .. t - 1 ELSE {}
  BY DEF Pairs
<1>3. CASE f <= e
  <2>1. v = t
    BY <1>1, <1>3, PowersOrder, MinFacts
  <2> HIDE DEF t, v
  <2>2. rest = t
    BY <1>1, <2>1
  <2> HIDE DEF rest
  <2> QED
    BY <1>1, <1>2, <2>1, <2>2 DEF t
<1>4. CASE f > e
  <2>1. v = VLMax
    BY <1>1, <1>4, PowersOrder, MinFacts
  <2>2. e + 1 \in Nat /\ e + 1 <= f /\ Pow2[e + 1] = 2 * VLMax
    BY <1>4, Pow2Facts
  <2>3. t % (2 * VLMax) = 0
    BY <2>2, Pow2Order
  <2>4. rest = 0
    BY <2>1, <2>3
  <2> HIDE DEF t, v, rest
  <2> QED
    BY <1>1, <1>2, <2>1, <2>4 DEF t
<1> QED
  BY <1>3, <1>4

\* The widest unrolled loop that divides t.
LEMMA WidestFacts ==
  ASSUME NEW t \in Nat \ {0}, NEW widths \in SUBSET {1, 2, 4, 8, 16}, 1 \in widths
  PROVE  /\ Widest(t, widths) \in widths /\ Widest(t, widths) \in Nat \ {0} /\ t % Widest(t, widths) = 0
         /\ \A w \in widths : t % w = 0 => w <= Widest(t, widths)
         /\ Unrolled(t, Widest(t, widths), Widest(t, widths)) = 0 .. t - 1
<1> DEFINE S == {w \in widths : t % w = 0}
           v == Widest(t, widths)
<1>1. S \in SUBSET (0 .. 16) /\ 1 \in S /\ 16 \in Nat
  <2>1. t % 1 = 0
    OBVIOUS
  <2>2. \A w \in {1, 2, 4, 8, 16} : w \in 0 .. 16
    OBVIOUS
  <2> QED
    BY <2>1, <2>2
<1>2. v = Max(S)
  BY DEF Widest
<1>3. v \in S /\ \A w \in S : w <= v
  <2> HIDE DEF S, v
  <2> QED
    BY <1>1, <1>2, MaxFacts
<1>4. v \in widths /\ v \in Nat \ {0} /\ t % v = 0
  <2> HIDE DEF v
  <2> QED
    BY <1>3
<1> HIDE DEF v
<1>5. t \div v \in Nat /\ t = (t \div v) * v + 0
  BY <1>4, DivMod
<1> DEFINE c == t \div v
<1>6. c \in Nat \ {0} /\ IsMultiple(t, c, v)
  <2>1. c \in Nat /\ t = c * v + 0
    BY <1>5
  <2> HIDE DEF c
  <2>2. c # 0
    BY <1>4, <2>1
  <2> QED
    BY <1>4, <2>1, <2>2 DEF IsMultiple
<1> HIDE DEF c
<1>7. Grid((t - 1) \div v, v) = 0 .. t - 1
  BY <1>4, <1>6, VectorsWhole
<1> QED
  BY <1>3, <1>4, <1>7 DEF v, Unrolled, Grid

LEMMA UnrolledWhole ==
  ASSUME NEW f \in Nat, NEW t, t = Pow2[f]
  PROVE  /\ BarUnrolled(t) = 0 .. t - 1 /\ MontUnrolled(t) = 0 .. t - 1
         /\ RowBarUnrolled(t) = 0 .. t - 1 /\ RowMontUnrolled(t) = 0 .. t - 1
<1>1. t \in Nat \ {0}
  BY Pow2Facts
<1>2. BarUnrolled(t) = 0 .. t - 1 /\ RowBarUnrolled(t) = 0 .. t - 1 /\ RowMontUnrolled(t) = 0 .. t - 1
  <2>1. /\ {16, 8, 4, 2, 1} \in SUBSET {1, 2, 4, 8, 16} /\ 1 \in {16, 8, 4, 2, 1}
        /\ {8, 4, 1} \in SUBSET {1, 2, 4, 8, 16} /\ 1 \in {8, 4, 1}
        /\ {2, 1} \in SUBSET {1, 2, 4, 8, 16} /\ 1 \in {2, 1}
    OBVIOUS
  <2> QED
    BY <1>1, <2>1, WidestFacts DEF BarUnrolled, RowBarUnrolled, RowMontUnrolled
<1> DEFINE v == Widest(t, {8, 4, 2, 1})
<1>3. /\ v \in Nat \ {0} /\ t % v = 0 /\ (t % 4 = 0 => 4 <= v) /\ Unrolled(t, v, v) = 0 .. t - 1
  <2>1. {8, 4, 2, 1} \in SUBSET {1, 2, 4, 8, 16} /\ 1 \in {8, 4, 2, 1} /\ 4 \in {8, 4, 2, 1}
    OBVIOUS
  <2> QED
    BY <1>1, <2>1, WidestFacts
<1>4. MontUnrolled(t) = Unrolled(t, v, IF v = 2 THEN 4 ELSE v)
  BY DEF MontUnrolled
<1> HIDE DEF v
<1>5. CASE v # 2
  BY <1>3, <1>4, <1>5, <1>2
<1>6. CASE v = 2
  <2>1. t = 2
    <3>0. 0 + 1 = 1 /\ 1 + 1 = 2 /\ Pow2[0] = 1 /\ Pow2[0 + 1] = 2 * Pow2[0] /\ Pow2[1 + 1] = 2 * Pow2[1]
      BY Pow2Facts
    <3>1. Pow2[0] = 1 /\ Pow2[1] = 2 /\ Pow2[2] = 4
      BY <3>0
    <3>2. CASE f = 0
      BY <1>3, <1>6, <3>1, <3>2
    <3>3. CASE f = 1
      BY <3>1, <3>3
    <3>4. CASE f >= 2
      <4>1. t % 4 = 0
        BY <3>1, <3>4, Pow2Order
      <4> QED
        BY <1>3, <1>6, <4>1
    <3> QED
      BY <3>2, <3>3, <3>4
  <2>2. Unrolled(2, 2, 4) = 0 .. 1
    <3>1. (2 - 1) \div 4 = 0
      OBVIOUS
    <3>2. Unrolled(2, 2, 4) = {x * 4 + b : x \in 0 .. 0, b \in 0 .. 1}
      BY <3>1 DEF Unrolled
    <3> QED
      BY <3>2
  <2> QED
    BY <1>2, <1>4, <1>6, <2>1, <2>2
<1> QED
  BY <1>2, <1>5, <1>6

LEMMA AcrossFacts ==
  ASSUME NEW b \in Nat \ {0}, NEW t \in Nat \ {0}, NEW c \in Nat \ {0}, NEW length \in Int,
         VLMax \in Nat \ {0}, IsMultiple(b, c, VLMax), AreBlocks(length, b, t)
  PROVE  AcrossBlocks(b, t) = Lower(length, t) /\ FirstBlocks(t) \subseteq Lower(length, t)
<1>1. (b - 1) \div VLMax = c - 1 /\ VLMax \in Int /\ t \in Int
  BY PiecesCover
<1>2. \A g, l, off \in Int : /\ g * VLMax * 2 * t + off + l * 2 * t = At(At(g, VLMax, l), 2 * t, off)
                             /\ off + l * 2 * t = At(At(0, VLMax, l), 2 * t, off)
  <2> SUFFICES ASSUME NEW g \in Int, NEW l \in Int, NEW off \in Int
               PROVE  /\ g * VLMax * 2 * t + off + l * 2 * t = (g * VLMax + l) * (2 * t) + off
                      /\ off + l * 2 * t = (0 * VLMax + l) * (2 * t) + off
    BY DEF At
  <2>1. g * VLMax * 2 * t = (g * VLMax) * (2 * t) /\ l * 2 * t = l * (2 * t) /\ g * VLMax \in Int
    BY <1>1
  <2>2. (g * VLMax + l) * (2 * t) = (g * VLMax) * (2 * t) + l * (2 * t) /\ 0 * VLMax + l = l
    BY <1>1, <2>1
  <2>3. (g * VLMax) * (2 * t) \in Int /\ l * (2 * t) \in Int
    BY <1>1, <2>1
  <2> QED
    BY <2>1, <2>2, <2>3
<1>3. \A g \in 0 .. c - 1 : \A l \in 0 .. VLMax - 1 : At(g, VLMax, l) \in 0 .. b - 1
  BY PiecesCover
<1> DEFINE G == 0 .. (b - 1) \div VLMax
           O == 0 .. t - 1
           L == 0 .. VLMax - 1
<1>4. /\ AcrossBlocks(b, t) = {g * VLMax * 2 * t + off + l * 2 * t : g \in G, off \in O, l \in L}
      /\ FirstBlocks(t) = {off + l * 2 * t : off \in O, l \in L}
  BY DEF AcrossBlocks, FirstBlocks
<1>5. G = 0 .. c - 1 /\ G \subseteq Int /\ O \subseteq Int /\ L \subseteq Int /\ 0 \in G
  BY <1>1
<1> HIDE DEF G, O, L
<1>6. \A g \in G : \A off \in O : \A l \in L : At(At(g, VLMax, l), 2 * t, off) \in Lower(length, t)
  BY <1>3, <1>5, LowerFacts DEF O, L
<1>7. ASSUME NEW j \in AcrossBlocks(b, t) PROVE j \in Lower(length, t)
  <2>1. PICK g \in G, off \in O, l \in L : j = g * VLMax * 2 * t + off + l * 2 * t
    BY <1>4
  <2>2. j = At(At(g, VLMax, l), 2 * t, off)
    BY <1>2, <1>5, <2>1
  <2> QED
    BY <1>6, <2>2
<1>8. ASSUME NEW j \in FirstBlocks(t) PROVE j \in Lower(length, t)
  <2>1. PICK off \in O, l \in L : j = off + l * 2 * t
    BY <1>4
  <2>2. off \in Int /\ l \in Int /\ 0 \in Int
    BY <1>5
  <2>3. j = At(At(0, VLMax, l), 2 * t, off)
    BY <1>2, <2>1, <2>2
  <2> QED
    BY <1>5, <1>6, <2>3
<1>9. ASSUME NEW j \in Lower(length, t) PROVE j \in AcrossBlocks(b, t)
  <2>1. PICK i \in 0 .. b - 1, x \in O : j = At(i, 2 * t, x)
    BY LowerFacts DEF O
  <2>2. PICK g \in G, l \in L : i = At(g, VLMax, l)
    BY <1>5, PiecesCover DEF L
  <2>3. g \in Int /\ x \in Int /\ l \in Int
    BY <1>5
  <2>4. j = g * VLMax * 2 * t + x + l * 2 * t
    BY <1>2, <2>1, <2>2, <2>3
  <2> QED
    BY <1>4, <2>4
<1> QED
  BY <1>7, <1>8, <1>9

\* The lower word of every butterfly, once; rvv_bar misses some.
LEMMA LanesFacts ==
  ASSUME NEW al \in Variants, NEW d \in Nat, NEW e \in 0 .. d - 1, NEW length \in Int, NEW b \in Int, NEW t \in Int,
         length = Pow2[d], b = Pow2[e], t = Pow2[d - e - 1], FitsVector(al, length)
  PROVE  /\ b \in Nat \ {0} /\ t \in Nat \ {0} /\ length \div (2 * b) = t /\ AreBlocks(length, b, t)
         /\ Lanes(al, length, b) \subseteq Lower(length, t)
         /\ al # "rvv_bar" => Lanes(al, length, b) = Lower(length, t)
<1>1. e \in Nat /\ d - e - 1 \in Nat /\ e + 1 \in Nat /\ e + 1 <= d /\ d - (e + 1) = d - e - 1
  OBVIOUS
<1>2. b \in Nat \ {0} /\ t \in Nat \ {0} /\ Pow2[e + 1] = 2 * b
  BY <1>1, Pow2Facts
<1>3. length \div (2 * b) = t /\ length = (2 * b) * t
  BY <1>1, <1>2, Pow2Order
<1>4. AreBlocks(length, b, t)
  BY <1>2, <1>3 DEF AreBlocks
<1>5. PICK v \in Nat, g \in Nat : VLMax = Pow2[v] /\ Cut = Pow2[g]
  BY LayersAssumption
<1>6. v <= g /\ VLMax \in Nat \ {0} /\ Cut \in Nat \ {0}
  BY <1>5, LayersAssumption, PowersOrder, Pow2Facts
<1>7. /\ InBlocks(b, t, 0 .. t - 1) = Lower(length, t)
      /\ \A o \in SUBSET (0 .. t - 1) : InBlocks(b, t, o) \subseteq Lower(length, t)
  BY <1>2, <1>4, BlocksFacts
<1>8. ASSUME al \in VectorVariants
      PROVE  /\ b < length \div Cut =>
                  0 .. VLMax - 1 \subseteq 0 .. t - 1 /\ VectorsOf(t, VLMax) = 0 .. t - 1
             /\ ~(b < length \div Cut) =>
                  AcrossBlocks(b, t) = Lower(length, t) /\ FirstBlocks(t) \subseteq Lower(length, t)
  <2>1. g + v <= d
    <3>1. length >= Cut * VLMax
      BY <1>8 DEF FitsVector
    <3>2. Cut * VLMax = Pow2[g + v] /\ g + v \in Nat
      BY <1>5, Pow2Sum
    <3> QED
      BY <3>1, <3>2, PowersOrder, Pow2Facts
  <2>2. length \div Cut = Pow2[d - g] /\ d - g \in Nat
    BY <1>5, <1>6, <2>1, Pow2Order
  <2>3. ASSUME b < length \div Cut PROVE 0 .. VLMax - 1 \subseteq 0 .. t - 1 /\ VectorsOf(t, VLMax) = 0 .. t - 1
    <3>1. e < d - g
      BY <1>1, <2>2, <2>3, PowersOrder
    <3>2. v <= d - e - 1 /\ d - e - 1 - v \in Nat
      BY <1>1, <1>6, <3>1
    <3> DEFINE f == d - e - 1
    <3>3. VLMax <= t /\ t = VLMax * Pow2[f - v]
      <4>1. f \in Nat /\ v <= f /\ t = Pow2[f]
        BY <1>1, <3>2
      <4> HIDE DEF f
      <4> QED
        BY <1>5, <4>1, Pow2Order
    <3>4. Pow2[f - v] \in Nat \ {0}
      BY <3>2, Pow2Facts
    <3> DEFINE c == Pow2[f - v]
    <3>5. c \in Nat \ {0} /\ IsMultiple(t, c, VLMax)
      <4> HIDE DEF f
      <4>1. c \in Nat \ {0} /\ t = VLMax * c
        BY <3>3, <3>4
      <4> HIDE DEF c
      <4> QED
        BY <1>6, <4>1 DEF IsMultiple
    <3> HIDE DEF c, f
    <3>6. Grid((t - 1) \div VLMax, VLMax) = 0 .. t - 1
      BY <1>6, <3>5, VectorsWhole
    <3>7. VectorsOf(t, VLMax) = 0 .. t - 1
      BY <3>6 DEF VectorsOf, Grid
    <3> QED
      BY <1>2, <1>6, <3>3, <3>7
  <2>4. ASSUME ~(b < length \div Cut)
        PROVE  AcrossBlocks(b, t) = Lower(length, t) /\ FirstBlocks(t) \subseteq Lower(length, t)
    <3>1. e >= d - g
      BY <1>1, <2>2, <2>4, PowersOrder
    <3>2. v <= e /\ e - v \in Nat
      BY <1>1, <2>1, <3>1
    <3> DEFINE c == Pow2[e - v]
    <3>3. b = VLMax * c /\ c \in Nat \ {0}
      BY <1>1, <1>5, <3>2, Pow2Order, Pow2Facts
    <3> HIDE DEF c
    <3>4. IsMultiple(b, c, VLMax)
      BY <1>6, <3>3 DEF IsMultiple
    <3> QED
      BY <1>2, <1>4, <1>6, <3>3, <3>4, AcrossFacts
  <2> QED
    BY <2>3, <2>4
<1>9. Pairs(t) = 0 .. t - 1
  BY <1>1, <1>5, PairsWhole
<1>10. BarUnrolled(t) = 0 .. t - 1 /\ MontUnrolled(t) = 0 .. t - 1 /\ RowBarUnrolled(t) = 0 .. t - 1 /\ RowMontUnrolled(t) = 0 .. t - 1
  BY <1>1, UnrolledWhole
<1>11. al \in ScalarVariants \/ al = "rvv_bar" \/ al = "rvv_mont" \/ al \in VectorInsnVariants \/ al = "ext_bar" \/ al = "ext_mont"
  BY DEF Variants, ScalarVariants, UnrolledVariants, VectorInsnVariants, VectorVariants
<1>12. CASE al \in ScalarVariants
  <2>1. Lanes(al, length, b) = InBlocks(b, t, 0 .. t - 1)
    BY <1>3, <1>12 DEF Lanes, ScalarVariants, VectorInsnVariants
  <2> QED
    BY <1>2, <1>3, <1>4, <1>7, <2>1
<1>13. CASE al = "rvv_bar"
  <2>1. Lanes(al, length, b) = IF b < length \div Cut THEN FirstVector(b, t) ELSE FirstBlocks(t)
    BY <1>3, <1>13 DEF Lanes, ScalarVariants, VectorInsnVariants
  <2>2. al \in VectorVariants
    BY <1>13 DEF VectorVariants
  <2>3. FirstVector(b, t) = InBlocks(b, t, 0 .. VLMax - 1)
    BY DEF FirstVector
  <2>4. CASE b < length \div Cut
    <3>1. 0 .. VLMax - 1 \in SUBSET (0 .. t - 1)
      BY <1>8, <2>2, <2>4
    <3>2. InBlocks(b, t, 0 .. VLMax - 1) \subseteq Lower(length, t)
      BY <1>7, <3>1
    <3> QED
      BY <1>2, <1>3, <1>4, <1>13, <2>1, <2>3, <2>4, <3>2
  <2>5. CASE ~(b < length \div Cut)
    BY <1>2, <1>3, <1>4, <1>8, <1>13, <2>1, <2>2, <2>5
  <2> QED
    BY <2>4, <2>5
<1>14. CASE al = "rvv_mont"
  <2>1. Lanes(al, length, b) = IF b < length \div Cut THEN WithinBlock(b, t) ELSE AcrossBlocks(b, t)
    BY <1>3, <1>14 DEF Lanes, ScalarVariants, VectorInsnVariants
  <2>2. al \in VectorVariants
    BY <1>14 DEF VectorVariants
  <2>3. WithinBlock(b, t) = InBlocks(b, t, VectorsOf(t, VLMax))
    BY DEF WithinBlock
  <2>4. Lanes(al, length, b) = Lower(length, t)
    BY <1>7, <1>8, <2>1, <2>2, <2>3
  <2> QED
    BY <1>2, <1>3, <1>4, <2>4
<1>15. CASE al \in VectorInsnVariants
  <2>1. Lanes(al, length, b) = InBlocks(b, t, Pairs(t))
    BY <1>3, <1>15 DEF Lanes, ScalarVariants, VectorInsnVariants
  <2> QED
    BY <1>2, <1>3, <1>4, <1>7, <1>9, <2>1
<1>16. CASE al = "ext_bar"
  <2>1. Lanes(al, length, b) = InBlocks(b, t, IF length = N THEN BarUnrolled(t) ELSE RowBarUnrolled(t))
    BY <1>3, <1>16 DEF Lanes, ScalarVariants, VectorInsnVariants
  <2> QED
    BY <1>2, <1>3, <1>4, <1>7, <1>10, <2>1
<1>17. CASE al = "ext_mont"
  <2>1. Lanes(al, length, b) = InBlocks(b, t, IF length = N THEN MontUnrolled(t) ELSE RowMontUnrolled(t))
    BY <1>3, <1>17 DEF Lanes, ScalarVariants, VectorInsnVariants
  <2> QED
    BY <1>2, <1>3, <1>4, <1>7, <1>10, <2>1
<1> QED
  BY <1>11, <1>12, <1>13, <1>14, <1>15, <1>16, <1>17

\* Between the passes every word of a row is multiplied.
LEMMA RowLanesFacts == ASSUME NEW al, NEW d \in Nat PROVE RowLanes(al, Pow2[d]) = 0 .. Pow2[d] - 1
<1> DEFINE t == Pow2[d]
           v == Min({t, VLMax})
<1>1. PICK e \in Nat : VLMax = Pow2[e]
  BY LayersAssumption
<1>2. t \in Nat \ {0} /\ VLMax \in Nat \ {0}
  BY <1>1, Pow2Facts
<1>3. \E c \in Nat \ {0} : v \in Nat \ {0} /\ IsMultiple(t, c, v)
  <2>1. CASE d <= e
    <3>1. v = t
      BY <1>1, <1>2, <2>1, PowersOrder, MinFacts
    <3> HIDE DEF v, t
    <3>2. t = 1 * v /\ 1 \in Nat \ {0}
      BY <1>2, <3>1
    <3> QED
      BY <1>2, <3>1, <3>2 DEF IsMultiple
  <2>2. CASE d > e
    <3>1. v = VLMax
      BY <1>1, <1>2, <2>2, PowersOrder, MinFacts
    <3>2. t = VLMax * Pow2[d - e] /\ Pow2[d - e] \in Nat \ {0}
      <4>1. e <= d /\ d - e \in Nat
        BY <2>2
      <4> QED
        BY <1>1, <4>1, Pow2Order, Pow2Facts
    <3> DEFINE c == Pow2[d - e]
    <3> HIDE DEF v, t
    <3>3. t = VLMax * c /\ c \in Nat \ {0}
      BY <3>2
    <3> HIDE DEF c
    <3>4. t = c * v
      BY <1>2, <3>1, <3>3
    <3> QED
      BY <1>2, <3>1, <3>3, <3>4 DEF IsMultiple
  <2> QED
    BY <2>1, <2>2
<1> HIDE DEF v, t
<1>4. Grid((t - 1) \div v, v) = 0 .. t - 1
  BY <1>2, <1>3, VectorsWhole DEF t
<1>5. RowInVectors(t) = Grid((t - 1) \div v, v)
  BY DEF RowInVectors, Grid, v
<1> QED
  BY <1>4, <1>5 DEF RowLanes, WholeRow, t

-------------------------------------------------------------------------------
(* Layers *)

\* Word x of the i-th block of w words, in row g.
Place(length, w, g, i, x) == g * length + At(i, w, x)

LEMMA PlaceFacts ==
  ASSUME NEW total \in Int, NEW n \in Nat \ {0}, NEW b \in Nat \ {0}, NEW w \in Nat \ {0}, NEW length \in Int, IsMultiple(length, b, w),
         IsMultiple(total, n, length),
         NEW g \in 0 .. n - 1, NEW i \in 0 .. b - 1, NEW x \in 0 .. w - 1
  PROVE  /\ Place(length, w, g, i, x) \in 0 .. total - 1
         /\ Place(length, w, g, i, x) % length = At(i, w, x) /\ Place(length, w, g, i, x) \div length = g
         /\ At(i, w, x) \in 0 .. length - 1 /\ At(i, w, x) % w = x /\ At(i, w, x) \div w = i
<1>1. At(i, w, x) \in 0 .. length - 1 /\ At(i, w, x) % w = x /\ length \in Nat \ {0}
  BY PiecesCover
<1>2. At(i, w, x) \div w = i
  <2>1. i \in Nat
    OBVIOUS
  <2> QED
    BY <2>1, Compose DEF At
<1> DEFINE y == At(i, w, x)
<1> HIDE DEF y
<1>3. y \in 0 .. length - 1 /\ length \in Nat \ {0} /\ g \in Nat
  BY <1>1 DEF y
<1>4. (g * length + y) \div length = g /\ (g * length + y) % length = y /\ g * length + y \in Nat
  BY <1>3, Compose
<1>5. g * length + y < total
  <2>1. g * length <= (n - 1) * length /\ (n - 1) * length = n * length - length /\ n * length \in Int
        /\ g * length \in Int
    BY <1>3
  <2> QED
    BY <1>3, <2>1 DEF IsMultiple
<1> QED
  BY <1>1, <1>2, <1>4, <1>5 DEF Place, y

LEMMA PlaceParts ==
  ASSUME NEW b \in Nat \ {0}, NEW w \in Nat \ {0}, NEW length \in Int, IsMultiple(length, b, w),
         NEW g \in Nat, NEW i \in 0 .. b - 1, NEW x \in 0 .. w - 1
  PROVE  /\ Place(length, w, g, i, x) \in Nat
         /\ Place(length, w, g, i, x) % length = At(i, w, x) /\ Place(length, w, g, i, x) \div length = g
         /\ At(i, w, x) \in 0 .. length - 1 /\ At(i, w, x) % w = x /\ At(i, w, x) \div w = i
<1> DEFINE n == g + 1
           total == n * length
<1>1. n \in Nat \ {0} /\ g \in 0 .. n - 1
  OBVIOUS
<1> HIDE DEF n
<1>2. total \in Int /\ IsMultiple(total, n, length)
  BY <1>1 DEF IsMultiple
<1> HIDE DEF total
<1>3. Place(length, w, g, i, x) \in 0 .. total - 1
  BY <1>1, <1>2, PlaceFacts
<1>4. Place(length, w, g, i, x) \in Nat
  BY <1>2, <1>3
<1> QED
  BY <1>1, <1>2, <1>3, <1>4, PlaceFacts

LEMMA EveryPlace ==
  ASSUME NEW total \in Int, NEW n \in Nat \ {0}, NEW b \in Nat \ {0}, NEW w \in Nat \ {0}, NEW length \in Int, IsMultiple(length, b, w),
         IsMultiple(total, n, length),
         NEW k \in 0 .. total - 1
  PROVE  \E g \in 0 .. n - 1 : \E i \in 0 .. b - 1 : \E x \in 0 .. w - 1 : k = Place(length, w, g, i, x)
<1>1. length \in Nat \ {0}
  BY PiecesCover
<1>3. PICK g \in 0 .. n - 1, y \in 0 .. length - 1 : k = At(g, length, y)
  BY <1>1, PieceOf
<1>4. PICK i \in 0 .. b - 1, x \in 0 .. w - 1 : y = At(i, w, x)
  BY PieceOf
<1>5. k = Place(length, w, g, i, x)
  <2>1. k = g * length + y
    BY <1>3 DEF At
  <2> QED
    BY <1>4, <2>1 DEF Place
<1> QED
  BY <1>5

\* The other word of a butterfly, in blocks of w words.
LEMMA PartnerWithin ==
  ASSUME NEW total \in Int, NEW n \in Nat \ {0}, NEW b \in Nat \ {0}, NEW t \in Nat \ {0}, NEW length \in Int,
         NEW w \in Nat \ {0}, w = 2 * t,
         IsMultiple(length, b, w), IsMultiple(total, n, length), Lower(length, t) = {j \in 0 .. length - 1 : j % w < t},
         NEW k \in 0 .. total - 1
  PROVE  /\ k % length \in 0 .. length - 1 /\ (k % length) \div w \in 0 .. b - 1
         /\ k % length \in Lower(length, t) =>
              /\ k + t \in 0 .. total - 1 /\ (k + t) % length = (k % length) + t
              /\ ((k + t) % length) \div w = (k % length) \div w
              /\ (k % length) - t \notin Lower(length, t)
         /\ k % length \notin Lower(length, t) =>
              /\ k - t \in 0 .. total - 1 /\ (k - t) % length = (k % length) - t
              /\ ((k - t) % length) \div w = (k % length) \div w
              /\ (k % length) - t \in Lower(length, t) /\ (k - t) % length \in Lower(length, t)
<1>3. PICK g \in 0 .. n - 1, i \in 0 .. b - 1, x \in 0 .. w - 1 : k = Place(length, w, g, i, x)
  BY EveryPlace
<1>2. \A y \in 0 .. w - 1 :
        /\ Place(length, w, g, i, y) \in 0 .. total - 1 /\ Place(length, w, g, i, y) % length = At(i, w, y)
        /\ At(i, w, y) \in 0 .. length - 1 /\ At(i, w, y) % w = y /\ At(i, w, y) \div w = i
  <2> TAKE y \in 0 .. w - 1
  <2>1. Place(length, w, g, i, y) \in 0 .. total - 1 /\ Place(length, w, g, i, y) % length = At(i, w, y)
    BY PlaceFacts
  <2>2. At(i, w, y) \in 0 .. length - 1 /\ At(i, w, y) % w = y /\ At(i, w, y) \div w = i
    BY <2>1, PlaceFacts
  <2> QED
    BY <2>1, <2>2
<1> DEFINE r == At(i, w, x)
<1>4. k % length = r /\ r \in 0 .. length - 1 /\ r % w = x /\ r \div w = i
  BY <1>3, PlaceFacts
<1>5. \A y \in 0 .. w - 1 :
        /\ Place(length, w, g, i, y) = Place(length, w, g, i, x) + (y - x) /\ At(i, w, y) = r + (y - x)
        /\ Place(length, w, g, i, y) \in 0 .. total - 1 /\ Place(length, w, g, i, y) % length = At(i, w, y)
        /\ At(i, w, y) \in 0 .. length - 1 /\ At(i, w, y) % w = y /\ At(i, w, y) \div w = i
  <2> SUFFICES ASSUME NEW y \in 0 .. w - 1
               PROVE /\ Place(length, w, g, i, y) = Place(length, w, g, i, x) + (y - x) /\ At(i, w, y) = r + (y - x)
                     /\ Place(length, w, g, i, y) \in 0 .. total - 1 /\ Place(length, w, g, i, y) % length = At(i, w, y)
                     /\ At(i, w, y) \in 0 .. length - 1 /\ At(i, w, y) % w = y /\ At(i, w, y) \div w = i
    OBVIOUS
  <2>1. /\ Place(length, w, g, i, y) \in 0 .. total - 1 /\ Place(length, w, g, i, y) % length = At(i, w, y)
        /\ At(i, w, y) \in 0 .. length - 1 /\ At(i, w, y) % w = y /\ At(i, w, y) \div w = i
    BY <1>2
  <2>2. At(i, w, y) = r + (y - x)
    <3>1. i * w \in Int
      OBVIOUS
    <3> QED
      BY <3>1 DEF At
  <2>3. Place(length, w, g, i, y) = Place(length, w, g, i, x) + (y - x)
    <3>1. g * length \in Int /\ r \in Int
      BY <1>4
    <3> HIDE DEF r
    <3> QED
      BY <2>2, <3>1 DEF Place, r
  <2> QED
    BY <2>1, <2>2, <2>3
<1> HIDE DEF r
<1>6. r \in Lower(length, t) <=> x < t
  BY <1>4
<1>7. CASE x < t
  <2> DEFINE y == x + t
  <2>1. y \in 0 .. w - 1 /\ y - x = t /\ r + (y - x) = r + t /\ k + (y - x) = k + t
    BY <1>4, <1>7
  <2> HIDE DEF y
  <2>2. k + t \in 0 .. total - 1 /\ (k + t) % length = r + t /\ (r + t) \div w = i
    BY <1>3, <1>5, <2>1
  <2>3. r - t \notin Lower(length, t)
    <3> SUFFICES ASSUME r - t \in 0 .. length - 1, (r - t) % w < t PROVE FALSE
      OBVIOUS
    <3>1. r - t \in Nat /\ r \in Int
      BY <1>4
    <3> DEFINE z == x - t + w
    <3>2. z \in 0 .. w - 1 /\ z >= t
      BY <1>7
    <3>3. r - t = (i - 1) * w + z
      <4>1. r = i * w + x /\ (i - 1) * w = i * w - w /\ i * w \in Int
        BY DEF r, At
      <4> QED
        BY <4>1
    <3> HIDE DEF z
    <3>4. i - 1 \in Nat
      <4>1. i # 0
        <5> SUFFICES ASSUME i = 0 PROVE FALSE
          OBVIOUS
        <5>1. r = x
          BY DEF r, At
        <5> QED
          BY <1>7, <3>1, <5>1
      <4> QED
        BY <4>1
    <3>5. ((i - 1) * w + z) % w = z
      <4> DEFINE h == i - 1
      <4>1. h \in Nat
        BY <3>4
      <4> HIDE DEF h
      <4>2. (h * w + z) % w = z
        BY <3>2, <4>1, Compose
      <4> QED
        BY <4>2 DEF h
    <3> QED
      BY <3>2, <3>3, <3>5
  <2> QED
    BY <1>4, <1>6, <1>7, <2>2, <2>3
<1>8. CASE ~(x < t)
  <2> DEFINE y == x - t
  <2>1. y \in 0 .. w - 1 /\ y < t /\ y - x = 0 - t /\ r + (y - x) = r - t /\ k + (y - x) = k - t
    BY <1>4, <1>8
  <2> HIDE DEF y
  <2>2. /\ k - t \in 0 .. total - 1 /\ (k - t) % length = r - t /\ (r - t) \div w = i
        /\ r - t \in 0 .. length - 1 /\ (r - t) % w = y
    <3>1. Place(length, w, g, i, y) = k - t /\ At(i, w, y) = r - t
      BY <1>3, <1>5, <2>1
    <3> QED
      BY <1>5, <2>1, <3>1
  <2>3. r - t \in Lower(length, t)
    BY <2>1, <2>2
  <2> QED
    BY <1>4, <1>6, <1>8, <2>2, <2>3
<1> QED
  BY <1>7, <1>8

\* The other word of a butterfly.
LEMMA Partner ==
  ASSUME NEW total \in Int, NEW n \in Nat \ {0}, NEW b \in Nat \ {0}, NEW t \in Nat \ {0}, NEW length \in Int, AreBlocks(length, b, t),
         IsMultiple(total, n, length),
         NEW k \in 0 .. total - 1
  PROVE  /\ k % length \in 0 .. length - 1 /\ (k % length) \div (2 * t) \in 0 .. b - 1
         /\ k % length \in Lower(length, t) =>
              /\ k + t \in 0 .. total - 1 /\ (k + t) % length = (k % length) + t
              /\ ((k + t) % length) \div (2 * t) = (k % length) \div (2 * t)
              /\ (k % length) - t \notin Lower(length, t)
         /\ k % length \notin Lower(length, t) =>
              /\ k - t \in 0 .. total - 1 /\ (k - t) % length = (k % length) - t
              /\ ((k - t) % length) \div (2 * t) = (k % length) \div (2 * t)
              /\ (k % length) - t \in Lower(length, t) /\ (k - t) % length \in Lower(length, t)
<1>1. /\ 2 * t \in Nat \ {0} /\ IsMultiple(length, b, 2 * t)
      /\ Lower(length, t) = {j \in 0 .. length - 1 : j % (2 * t) < t}
  BY DEF AreBlocks, IsMultiple, Lower
<1> QED
  BY <1>1, PartnerWithin

\* In one row of all words.
LEMMA PartnerInRow ==
  ASSUME NEW b \in Nat \ {0}, NEW t \in Nat \ {0}, NEW length \in Int, AreBlocks(length, b, t),
         NEW k \in 0 .. length - 1
  PROVE  /\ k % length \in Lower(length, t) => k + t \in 0 .. length - 1
         /\ k % length \notin Lower(length, t) => k - t \in 0 .. length - 1
<1> DEFINE n == 1
<1>1. n \in Nat \ {0} /\ IsMultiple(length, n, length)
  BY DEF IsMultiple
<1> HIDE DEF n
<1> QED
  BY <1>1, Partner

\* A layer of N words in rows of the given length: blocks of 2 * t words.
AreLayer(d, e, length, b, t) == length = Pow2[d] /\ b = Pow2[e] /\ t = Pow2[d - e - 1]

LEMMA LayerSizes ==
  ASSUME NEW d \in 0 .. LogN, Pow2[d] \in RowLengths, NEW e \in 0 .. d - 1,
         NEW length \in Int, NEW b \in Int, NEW t \in Int, AreLayer(d, e, length, b, t)
  PROVE  /\ length \in Nat \ {0} /\ b \in Nat \ {0} /\ t \in Nat \ {0} /\ length \in RowLengths
         /\ AreBlocks(length, b, t) /\ b + b <= length
         /\ Pow2[LogN - d] \in Nat \ {0} /\ IsMultiple(N, Pow2[LogN - d], length)
<1>1. d \in Nat /\ e \in Nat /\ d - e - 1 \in Nat /\ LogN - d \in Nat /\ e + 1 \in Nat /\ e + 1 <= d
  BY Sizes
<1>2. length \in Nat \ {0} /\ b \in Nat \ {0} /\ t \in Nat \ {0} /\ length \in RowLengths /\ Pow2[LogN - d] \in Nat \ {0}
  BY <1>1, Pow2Facts DEF AreLayer
<1>3. Pow2[e + 1] = 2 * b /\ Pow2[e + 1] <= Pow2[d] /\ Pow2[d] = Pow2[e + 1] * Pow2[d - (e + 1)]
  BY <1>1, Pow2Facts, Pow2Order DEF AreLayer
<1>4. Pow2[d - (e + 1)] = t
  <2>1. d - (e + 1) = d - e - 1
    BY <1>1
  <2> QED
    BY <2>1 DEF AreLayer
<1>5. length = (2 * b) * t
  BY <1>3, <1>4 DEF AreLayer
<1>6. AreBlocks(length, b, t)
  BY <1>2, <1>5 DEF AreBlocks
<1>7. N = Pow2[LogN - d] * length
  <2>1. Pow2[LogN] = Pow2[d] * Pow2[LogN - d]
    BY <1>1, Sizes, Pow2Order
  <2> QED
    BY <1>2, <2>1 DEF N, AreLayer
<1> QED
  BY <1>2, <1>3, <1>6, <1>7 DEF IsMultiple, AreLayer

\* The root of the butterfly word k is in.
Twiddle(length, b, t, k) == RootPows[length][b + (k % length) \div (2 * t)]

LEMMA TwiddleFacts ==
  ASSUME NEW d \in 0 .. LogN, Pow2[d] \in RowLengths, NEW e \in 0 .. d - 1,
         NEW length \in Int, NEW b \in Int, NEW t \in Int, AreLayer(d, e, length, b, t), NEW k \in Index
  PROVE  /\ Twiddle(length, b, t, k) \in 1 .. q - 1
         /\ (k % length) \div (2 * t) \in 0 .. b - 1
         /\ b + (k % length) \div (2 * t) \in 0 .. Pow2[d] - 1
<1>1. /\ length \in Nat \ {0} /\ b \in Nat \ {0} /\ t \in Nat \ {0} /\ AreBlocks(length, b, t) /\ b + b <= length
      /\ Pow2[LogN - d] \in Nat \ {0} /\ IsMultiple(N, Pow2[LogN - d], length) /\ N \in Int
  BY LayerSizes, Sizes
<1>2. k \in 0 .. N - 1
  BY DEF Index
<1>3. (k % length) \div (2 * t) \in 0 .. b - 1
  BY <1>1, <1>2, Partner
<1> DEFINE i == (k % length) \div (2 * t)
<1> HIDE DEF i
<1>4. b + i \in 0 .. Pow2[d] - 1
  BY <1>1, <1>3 DEF i, AreLayer
<1>5. RootPows[Pow2[d]][b + i] \in 1 .. q - 1
  BY <1>4, RootPowsFacts
<1> QED
  BY <1>3, <1>4, <1>5 DEF i, Twiddle, AreLayer

\* What a layer does to one word, as long as no sum leaves the machine word.
LayerAt(s, al, length, b, t, B, k) ==
  /\ LayerOf(s, al, length, b)[k] \in 0 .. B
  /\ al # "rvv_bar" /\ k % length \in Lower(length, t) =>
       /\ k + t \in Index
       /\ Mod(LayerOf(s, al, length, b)[k]) = Mod(s[k] + s[k + t] * Twiddle(length, b, t, k))
  /\ al # "rvv_bar" /\ k % length \notin Lower(length, t) =>
       /\ k - t \in Index
       /\ Mod(LayerOf(s, al, length, b)[k]) = Mod(s[k - t] - s[k] * Twiddle(length, b, t, k))

LEMMA LayerFacts ==
  ASSUME NEW d \in Int, NEW e \in Int, NEW length \in Int, NEW b \in Int, NEW t \in Int, NEW B \in Int,
         NEW al, NEW s, NEW k,
         AreLayer(d, e, length, b, t), d \in 0 .. LogN, Pow2[d] \in RowLengths, e \in 0 .. d - 1,
         al \in Variants, FitsVector(al, length), B \in q .. R - q - 1, s \in [Index -> 0 .. B], k \in Index
  PROVE  LayerAt(s, al, length, b, t, B, k)
<1>1. /\ length \in Nat \ {0} /\ b \in Nat \ {0} /\ t \in Nat \ {0} /\ AreBlocks(length, b, t)
      /\ Pow2[LogN - d] \in Nat \ {0} /\ IsMultiple(N, Pow2[LogN - d], length) /\ N \in Int
      /\ q \in Nat \ {0} /\ R \in Nat
  BY LayerSizes, Sizes
<1>2. /\ length \div (2 * b) = t /\ Lanes(al, length, b) \subseteq Lower(length, t)
      /\ al # "rvv_bar" => Lanes(al, length, b) = Lower(length, t)
  <2>1. d \in Nat /\ e \in 0 .. d - 1 /\ length \in Int /\ b \in Int /\ t \in Int
    OBVIOUS
  <2>2. length = Pow2[d] /\ b = Pow2[e] /\ t = Pow2[d - e - 1]
    BY DEF AreLayer
  <2>3. length \div (2 * b) = t
    BY <2>1, <2>2, LanesFacts
  <2>4. Lanes(al, length, b) \subseteq Lower(length, t)
    BY <2>1, <2>2, LanesFacts
  <2>5. ASSUME al # "rvv_bar" PROVE Lanes(al, length, b) = Lower(length, t)
    BY <2>1, <2>2, <2>3, <2>4, <2>5, LanesFacts
  <2> QED
    BY <2>3, <2>4, <2>5
<1> DEFINE V(j) == Product(al, s[j + t], Twiddle(length, b, t, j))
           lanes == Lanes(al, length, b)
<1>3. \A j \in Index : j % length \in Lower(length, t) =>
        j + t \in Index /\ s[j + t] \in Int /\ V(j) \in 0 .. q /\ Mod(V(j)) = Mod(s[j + t] * Twiddle(length, b, t, j))
  <2> SUFFICES ASSUME NEW j \in Index, j % length \in Lower(length, t)
               PROVE  j + t \in Index /\ s[j + t] \in Int /\ V(j) \in 0 .. q
                      /\ Mod(V(j)) = Mod(s[j + t] * Twiddle(length, b, t, j))
    OBVIOUS
  <2>1. j + t \in Index
    BY <1>1, Partner DEF Index
  <2>2. s[j + t] \in 0 .. R - 1
    BY <1>1, <2>1
  <2>3. Twiddle(length, b, t, j) \in 0 .. q - 1
    <3>1. Twiddle(length, b, t, j) \in 1 .. q - 1
      BY TwiddleFacts
    <3> QED
      BY <1>1, <3>1
  <2> QED
    BY <2>1, <2>2, <2>3, ProductFacts
<1>4. LayerOf(s, al, length, b)[k] =
        CASE k % length \in lanes -> SumIn(al, length, b, s[k], V(k))
          [] (k % length) - t \in lanes -> DifferenceIn(al, length, b, s[k - t], V(k - t))
          [] OTHER -> s[k]
  BY <1>2, Zenon DEF LayerOf, Twiddle
<1> HIDE DEF lanes
<1>5. CASE k % length \in lanes
  <2>1. k % length \in Lower(length, t) /\ LayerOf(s, al, length, b)[k] = SumIn(al, length, b, s[k], V(k))
    <3> HIDE DEF V
    <3>1. k % length \in Lower(length, t)
      BY <1>2, <1>5 DEF lanes
    <3>2. (k % length) - t \notin lanes
      <4>1. (k % length) - t \notin Lower(length, t)
        BY <1>1, <3>1, Partner DEF Index
      <4> QED
        BY <1>2, <4>1 DEF lanes
    <3> QED
      BY <1>4, <1>5, <3>1, <3>2
  <2>2. k + t \in Index /\ V(k) \in 0 .. q /\ Mod(V(k)) = Mod(s[k + t] * Twiddle(length, b, t, k)) /\ s[k + t] \in Int
    BY <1>3, <2>1
  <2> DEFINE v == V(k)
  <2> HIDE DEF V
  <2> HIDE DEF v
  <2>3. s[k] \in 0 .. B /\ s[k] \in Int /\ v \in Int /\ v \in 0 .. q
    BY <1>1, <2>2 DEF v
  <2>4. SumIn(al, length, b, s[k], v) \in 0 .. B /\ Mod(SumIn(al, length, b, s[k], v)) = Mod(s[k] + v)
    BY <2>3, SumFacts
  <2>5. Mod(s[k] + v) = Mod(s[k] + s[k + t] * Twiddle(length, b, t, k))
    <3>1. Twiddle(length, b, t, k) \in Int
      <4>1. Twiddle(length, b, t, k) \in 1 .. q - 1
        BY TwiddleFacts
      <4> QED
        BY <1>1, <4>1
    <3> DEFINE z == s[k + t] * Twiddle(length, b, t, k)
    <3>2. z \in Int /\ Mod(v) = Mod(z)
      BY <2>2, <3>1 DEF v
    <3> HIDE DEF z
    <3> DEFINE u == s[k]
    <3>3. u \in Int /\ v \in Int
      BY <2>3 DEF u
    <3> HIDE DEF u
    <3>4. Mod(u) \in Int
      BY <3>3, ModRange
    <3>5. Mod(u + v) = Mod(u + z)
      BY <3>2, <3>3, <3>4, ModTimes
    <3> QED
      BY <3>5 DEF u, z
  <2> QED
    BY <2>1, <2>2, <2>4, <2>5 DEF v, LayerAt
<1>6. CASE (k % length) - t \in lanes
  <2> DEFINE j == k - t
  <2>1. k % length \notin Lower(length, t)
    <3>1. (k % length) - t \in Lower(length, t)
      BY <1>2, <1>6 DEF lanes
    <3> QED
      BY <1>1, <3>1, Partner DEF Index
  <2>2. /\ j \in Index /\ j % length \in Lower(length, t) /\ (j % length) \div (2 * t) = (k % length) \div (2 * t)
        /\ j + t = k
    <3>1. /\ k - t \in 0 .. N - 1 /\ (k - t) % length \in Lower(length, t)
          /\ ((k - t) % length) \div (2 * t) = (k % length) \div (2 * t)
      <4> HIDE DEF V, j
      <4>1. k \in 0 .. N - 1
        BY DEF Index
      <4> QED
        BY <1>1, <2>1, <4>1, Partner
    <3>2. k - t + t = k
      BY <1>1 DEF Index
    <3> QED
      BY <3>1, <3>2 DEF Index
  <2>3. Twiddle(length, b, t, j) = Twiddle(length, b, t, k)
    BY <2>2 DEF Twiddle
  <2>4. V(j) \in 0 .. q /\ Mod(V(j)) = Mod(s[j + t] * Twiddle(length, b, t, j)) /\ s[j + t] \in Int
    BY <1>3, <2>2
  <2>5. k % length \notin lanes
    BY <1>2, <2>1 DEF lanes
  <2>6. LayerOf(s, al, length, b)[k] = DifferenceIn(al, length, b, s[j], V(j))
    <3> HIDE DEF V
    <3> QED
      BY <1>4, <1>6, <2>5
  <2>7. V(j) \in 0 .. q /\ Mod(V(j)) = Mod(s[k] * Twiddle(length, b, t, k)) /\ s[k] \in Int
    BY <2>2, <2>3, <2>4
  <2> DEFINE v == V(j)
  <2> HIDE DEF V, j
  <2> HIDE DEF v
  <2>8. s[j] \in 0 .. B /\ s[j] \in Int /\ v \in Int /\ v \in 0 .. q
    BY <1>1, <2>2, <2>7 DEF v
  <2>9. DifferenceIn(al, length, b, s[j], v) \in 0 .. B /\ Mod(DifferenceIn(al, length, b, s[j], v)) = Mod(s[j] - v)
    BY <2>8, SumFacts
  <2>10. Mod(s[j] - v) = Mod(s[j] - s[k] * Twiddle(length, b, t, k))
    <3>1. Twiddle(length, b, t, k) \in Int
      <4>1. Twiddle(length, b, t, k) \in 1 .. q - 1
        BY TwiddleFacts
      <4> QED
        BY <1>1, <4>1
    <3> DEFINE z == s[k] * Twiddle(length, b, t, k)
    <3>2. z \in Int /\ Mod(v) = Mod(z)
      BY <2>7, <3>1 DEF v
    <3> HIDE DEF z
    <3> DEFINE u == s[j]
    <3>3. u \in Int /\ v \in Int
      BY <2>8 DEF u
    <3> HIDE DEF u
    <3>4. Mod(u) \in Int
      BY <3>3, ModRange
    <3>5. Mod(u - v) = Mod(u - z)
      BY <3>2, <3>3, <3>4, ModTimes
    <3> QED
      BY <3>5 DEF u, z
  <2> QED
    BY <2>1, <2>2, <2>6, <2>9, <2>10 DEF v, j, LayerAt
<1>7. CASE k % length \notin lanes /\ (k % length) - t \notin lanes
  <2>1. LayerOf(s, al, length, b)[k] = s[k]
    <3> HIDE DEF V
    <3> QED
      BY <1>4, <1>7
  <2>2. al # "rvv_bar" => FALSE
    <3>1. k % length \in Lower(length, t) \/ (k % length) - t \in Lower(length, t)
      BY <1>1, Partner DEF Index
    <3> QED
      BY <1>2, <1>7, <3>1 DEF lanes
  <2> QED
    BY <2>1, <2>2 DEF LayerAt
<1> QED
  BY <1>5, <1>6, <1>7 DEF LayerAt

-------------------------------------------------------------------------------
(* The inductive invariant *)

Forms == {"coef", "ntt", "cols", "rows", "value", "intt"}

\* Where the loops are: rows of Pow2[d] words, Pow2[e] blocks of them in a row.
LoopAt(d, e) ==
  /\ len = Pow2[d] /\ m = Pow2[e] /\ len \in RowLengths
  /\ form \notin {"cols", "rows"} => d = LogN
  /\ form = "cols" => d = LogN1
  /\ form = "rows" => d = LogN - LogN1
  /\ form \in {"ntt", "rows"} => e < d
  /\ form = "value" => e = d
  /\ form \in {"ntt", "cols", "rows"} => FitsVector(alg, len)

\* The types of the variables.
NttTypeOK ==
  /\ a \in [Index -> 0 .. R - 1] /\ poly \in [Index -> 0 .. q - 1]
  /\ form \in Forms /\ alg \in Variants /\ (alg \in Variant \/ form \in {"coef", "value", "intt"})
  /\ ops \in 0 .. MaxOps /\ imulted \in BOOLEAN
  /\ \E d \in 0 .. LogN : \E e \in 0 .. d : LoopAt(d, e)

NttIInv == NttTypeOK /\ WordsAreSmall

-------------------------------------------------------------------------------
(* Permutations of the words *)

\* An odd factor permutes the exponents below N.
LEMMA OddReaches ==
  ASSUME NEW g \in Int, Congruent(g, 1, 2)
  PROVE  /\ \A k \in Index : \E j \in Index : (j * g) % N = k
         /\ \A i, j \in Index : (i * g) % N = (j * g) % N => i = j
<1>1. N \in Nat \ {0} /\ N \in Int
  BY Sizes
<1>2. PICK u \in Int : Congruent(g * u, 1, N)
  <2>1. LogN \in Nat
    BY Sizes
  <2> QED
    BY <2>1, OddInvertible DEF Invertible, N
<1>3. \A i \in Int : Congruent((i * g) * u, i, N)
  BY <1>1, <1>2, Cancel
<1>4. \A k \in Index : \E j \in Index : (j * g) % N = k
  <2> TAKE k \in Index
  <2> DEFINE j == (k * u) % N
  <2>1. k \in Int /\ k * u \in Int
    BY <1>1 DEF Index
  <2>2. j \in 0 .. N - 1 /\ Congruent(j, k * u, N)
    BY <1>1, <2>1, DivisionFacts
  <2> HIDE DEF j
  <2>3. j \in Int
    BY <1>1, <2>2
  <2>4. Congruent(j * g, (k * u) * g, N)
    <3>1. Congruent(g, g, N)
      BY <1>1, CongruenceIsEquivalence
    <3> DEFINE z == k * u
    <3>2. z \in Int /\ Congruent(j, z, N)
      BY <2>1, <2>2
    <3> HIDE DEF z
    <3>3. Congruent(j * g, z * g, N)
      BY <1>1, <2>3, <3>1, <3>2, CongruentOperations
    <3> QED
      BY <3>3 DEF z
  <2>5. (k * u) * g = (k * g) * u
    BY <2>1
  <2>6. Congruent((k * g) * u, k, N)
    BY <1>3, <2>1
  <2>7. Congruent(j * g, k, N)
    <3>1. j * g \in Int /\ (k * g) * u \in Int
      BY <2>1, <2>3
    <3> QED
      BY <1>1, <2>1, <2>4, <2>5, <2>6, <3>1, CongruenceIsEquivalence
  <2>8. (j * g) % N = k
    <3>1. j * g \in Int /\ k \in 0 .. N - 1
      BY <2>3 DEF Index
    <3>2. (j * g) % N = k % N
      BY <1>1, <2>1, <2>7, <3>1, CongruentMod
    <3> QED
      BY <1>1, <3>1, <3>2
  <2> QED
    BY <2>2, <2>8 DEF Index
<1>5. \A i, j \in Index : (i * g) % N = (j * g) % N => i = j
  <2> SUFFICES ASSUME NEW i \in Index, NEW j \in Index, (i * g) % N = (j * g) % N PROVE i = j
    OBVIOUS
  <2>1. i \in 0 .. N - 1 /\ j \in 0 .. N - 1 /\ i \in Int /\ j \in Int /\ i * g \in Int /\ j * g \in Int
    BY <1>1 DEF Index
  <2>2. Congruent(i * g, j * g, N)
    BY <1>1, <2>1, CongruentMod
  <2>3. Congruent((i * g) * u, (j * g) * u, N)
    <3>1. Congruent(u, u, N)
      BY <1>1, CongruenceIsEquivalence
    <3> QED
      BY <1>1, <2>1, <2>2, <3>1, CongruentOperations
  <2>4. Congruent((i * g) * u, i, N) /\ Congruent((j * g) * u, j, N)
    BY <1>3, <2>1
  <2>5. Congruent(i, j, N)
    <3>1. (i * g) * u \in Int /\ (j * g) * u \in Int
      BY <2>1
    <3> QED
      BY <1>1, <2>1, <2>3, <2>4, <3>1, CongruenceIsEquivalence
  <2> QED
    BY <1>1, <2>1, <2>5, CongruentSmall
<1> QED
  BY <1>4, <1>5

\* The rows and columns of the matrix, exchanged.
LEMMA TransposedFacts ==
  ASSUME NEW k \in Index
  PROVE  /\ (k % N1) * N2 + k \div N1 \in Index /\ (k % N2) * N1 + k \div N2 \in Index
         /\ ((k % N1) * N2 + k \div N1) \div N2 = k % N1 /\ ((k % N1) * N2 + k \div N1) % N2 = k \div N1
         /\ ((k % N2) * N1 + k \div N2) \div N1 = k % N2 /\ ((k % N2) * N1 + k \div N2) % N1 = k \div N2
<1>1. N1 \in Nat \ {0} /\ N2 \in Nat \ {0} /\ N \in Int /\ N = N1 * N2 /\ N = N2 * N1
  BY Sizes
<1>2. \A x, y \in Nat \ {0} : \A i \in 0 .. x - 1 : \A j \in 0 .. y - 1 : N = x * y =>
        i * y + j \in 0 .. N - 1 /\ (i * y + j) \div y = i /\ (i * y + j) % y = j
  <2> SUFFICES ASSUME NEW x \in Nat \ {0}, NEW y \in Nat \ {0}, NEW i \in 0 .. x - 1, NEW j \in 0 .. y - 1, N = x * y
               PROVE  i * y + j \in 0 .. N - 1 /\ (i * y + j) \div y = i /\ (i * y + j) % y = j
    OBVIOUS
  <2>1. IsMultiple(N, x, y)
    BY DEF IsMultiple
  <2>2. At(i, y, j) \in 0 .. N - 1
    BY <1>1, <2>1, PiecesCover
  <2>3. (i * y + j) \div y = i /\ (i * y + j) % y = j
    BY Compose
  <2> QED
    BY <2>2, <2>3 DEF At
<1> DEFINE c1 == k % N1
           d1 == k \div N1
           c2 == k % N2
           d2 == k \div N2
<1>3. c1 \in 0 .. N1 - 1 /\ d1 \in 0 .. N2 - 1 /\ c2 \in 0 .. N2 - 1 /\ d2 \in 0 .. N1 - 1
  BY Matrix
<1> HIDE DEF c1, d1, c2, d2
<1>4. /\ c1 * N2 + d1 \in 0 .. N - 1 /\ (c1 * N2 + d1) \div N2 = c1 /\ (c1 * N2 + d1) % N2 = d1
      /\ c2 * N1 + d2 \in 0 .. N - 1 /\ (c2 * N1 + d2) \div N1 = c2 /\ (c2 * N1 + d2) % N1 = d2
  BY <1>1, <1>2, <1>3
<1> QED
  BY <1>4 DEF c1, d1, c2, d2, Index

Turned(n, r) == (rotGroup[r % (N \div 2)] * (2 * bitReverse(n, LogN) + 1)) % M

\* The indices leftRotAndEqual reads are in the array.
LEMMA SourceIsIndex ==
  ASSUME NEW r \in Nat, NEW n \in Index
  PROVE  /\ r % (N \div 2) \in 0 .. N \div 2 - 1
         /\ (((rotGroup[r % (N \div 2)] * (2 * bitReverse(n, LogN) + 1)) % M) - 1) \div 2 \in Index
         /\ Source(n, r) \in Index /\ 2 * ((Turned(n, r) - 1) \div 2) + 1 = Turned(n, r)
<1>1. N \in Nat \ {0} /\ N = 2 * Pow2[LogN - 1] /\ M = 2 * N /\ M \in Nat \ {0} /\ LogN \in Nat /\ LogN - 1 \in Nat
  BY Sizes
<1>2. Pow2[LogN - 1] \in Nat \ {0}
  BY <1>1, Pow2Facts
<1>3. N \div 2 \in Nat \ {0}
  BY <1>1, <1>2
<1>4. r % (N \div 2) \in 0 .. N \div 2 - 1
  <2> DEFINE h == N \div 2
  <2> HIDE DEF h
  <2>1. r % h \in 0 .. h - 1
    BY <1>3 DEF h
  <2> QED
    BY <2>1 DEF h
<1> DEFINE g == rotGroup[r % (N \div 2)]
           v == bitReverse(n, LogN)
           z == (g * (2 * v + 1)) % M
<1>5. g \in 0 .. M - 1 /\ v \in 0 .. Pow2[LogN] - 1
  <2>1. n \in Nat
    BY <1>1 DEF Index
  <2> QED
    BY <1>1, <1>4, <2>1, RotGroupFacts, ReverseRange
<1> HIDE DEF g, v
<1>6. z \in 0 .. M - 1
  <2>1. g * (2 * v + 1) \in Int
    <3>1. g \in Int /\ 2 * v + 1 \in Int
      BY <1>1, <1>5
    <3> QED
      BY <3>1
  <2> QED
    BY <1>1, <2>1, DivisionFacts
<1>7. z % 2 = 1
  <2>1. Congruent(g, 1, 2) /\ Congruent(2 * v + 1, 1, 2)
    <3>1. Congruent(g, 1, 2)
      BY <1>4, RotGroupFacts DEF g
    <3>2. Congruent(2 * v + 1, 1, 2)
      <4>1. v \in Int /\ 2 * v + 1 - 1 = 2 * v
        BY <1>1, <1>5
      <4> QED
        BY <4>1 DEF Congruent, Divides
    <3> QED
      BY <3>1, <3>2
  <2>2. g \in Int /\ 2 * v + 1 \in Int /\ g * (2 * v + 1) \in Int
    <3>1. g \in Int /\ 2 * v + 1 \in Int
      BY <1>1, <1>5
    <3> QED
      BY <3>1
  <2>3. Congruent(g * (2 * v + 1), 1, 2)
    <3>1. Congruent(g * (2 * v + 1), 1 * 1, 2)
      BY <2>1, <2>2, CongruentOperations
    <3> QED
      BY <3>1
  <2>4. Congruent(z, g * (2 * v + 1), M)
    BY <1>1, <2>2, DivisionFacts
  <2>5. Congruent(z, g * (2 * v + 1), 2)
    <3> DEFINE c == g * (2 * v + 1)
    <3> HIDE DEF c, z
    <3>1. PICK k \in Int : z - c = M * k
      BY <2>4 DEF Congruent, Divides, c
    <3>2. z - c = 2 * (N * k) /\ N * k \in Int
      BY <1>1, <3>1
    <3> QED
      BY <3>2 DEF Congruent, Divides, c
  <2>6. Congruent(z, 1, 2)
    <3>1. z \in Int
      BY <1>1, <1>6
    <3> QED
      BY <2>2, <2>3, <2>5, <3>1, CongruenceIsEquivalence
  <2>7. PICK k \in Int : z - 1 = 2 * k
    BY <2>6 DEF Congruent, Divides
  <2> HIDE DEF z
  <2> QED
    BY <1>1, <1>6, <2>7
<1> HIDE DEF z
<1>8. (z - 1) \div 2 \in 0 .. N - 1 /\ 2 * ((z - 1) \div 2) + 1 = z
  BY <1>1, <1>6, <1>7
<1>9. bitReverse((z - 1) \div 2, LogN) \in 0 .. Pow2[LogN] - 1
  <2>1. (z - 1) \div 2 \in Nat
    BY <1>1, <1>8
  <2> QED
    BY <1>1, <2>1, ReverseRange
<1> QED
  BY <1>4, <1>8, <1>9 DEF Source, Index, N, g, v, z, Turned

-------------------------------------------------------------------------------
(* The words after a step *)

LEMMA LargestFacts ==
  /\ Largest \in q .. R - q - 1 /\ Largest \in Nat
  /\ \A s \in Inputs : s \in [Index -> 0 .. Largest]
<1> DEFINE S == {q} \cup {s[k] : s \in Inputs, k \in Index}
<1>1. q \in Nat \ {0} /\ R \in Nat /\ R - q - 1 \in Nat /\ q <= R - q - 1
  BY Sizes
<1>2. Inputs \subseteq [Index -> 0 .. R - q - 1]
  BY NttAssumption
<1>3. S \in SUBSET (0 .. R - q - 1) /\ S # {} /\ q \in S
  BY <1>1, <1>2
<1>4. Largest = Max(S)
  BY DEF Largest
<1>5. \A s \in Inputs : \A k \in Index : s[k] \in S
  OBVIOUS
<1> HIDE DEF S
<1>6. Largest \in S /\ \A x \in S : x <= Largest
  BY <1>1, <1>3, <1>4, MaxFacts
<1>7. Largest \in q .. R - q - 1 /\ Largest \in Nat
  BY <1>1, <1>3, <1>6
<1>8. \A s \in Inputs : s \in [Index -> 0 .. Largest]
  <2> SUFFICES ASSUME NEW s \in Inputs PROVE s \in [Index -> 0 .. Largest]
    OBVIOUS
  <2>1. s \in [Index -> 0 .. R - q - 1]
    BY <1>2
  <2>2. \A k \in Index : s[k] \in 0 .. Largest
    BY <1>1, <1>5, <1>6, <1>7, <2>1
  <2> QED
    BY <2>1, <2>2
<1> QED
  BY <1>7, <1>8

\* The images of polynomials are polynomials.
LEMMA AutomorphismType ==
  ASSUME NEW p \in [Index -> 0 .. q - 1], NEW g \in Int, Congruent(g, 1, 2)
  PROVE  Automorphism(p, g) \in [Index -> 0 .. q - 1]
<1>1. q \in Nat \ {0}
  BY Sizes
<1>2. \A k \in Index : (CHOOSE j \in Index : (j * g) % N = k) \in Index
  BY OddReaches
<1>3. \A j \in Index : p[j] \in 0 .. q - 1 /\ (q - p[j]) % q \in 0 .. q - 1
  BY <1>1
<1> QED
  BY <1>2, <1>3 DEF Automorphism

\* The j-th summand of the k-th coefficient of a product.
Term(p, r, k, j) == IF j <= k THEN p[j] * r[k - j] ELSE p[j] * (q - r[N + k - j])

LEMMA TermIsNumber ==
  ASSUME NEW p \in [Index -> 0 .. q - 1], NEW r \in [Index -> 0 .. q - 1], NEW k \in Index, NEW j \in Index
  PROVE  Term(p, r, k, j) \in Int
<1>1. q \in Nat \ {0} /\ N \in Nat \ {0}
  BY Sizes
<1>2. CASE j <= k
  <2>1. k - j \in Index
    BY <1>1, <1>2 DEF Index
  <2> QED
    BY <1>1, <1>2, <2>1 DEF Term
<1>3. CASE ~(j <= k)
  <2>1. N + k - j \in Index
    BY <1>1, <1>3 DEF Index
  <2>2. p[j] \in Int /\ q - r[N + k - j] \in Int
    BY <1>1, <2>1
  <2> QED
    BY <1>3, <2>2 DEF Term
<1> QED
  BY <1>2, <1>3

LEMMA TimesType ==
  ASSUME NEW p \in [Index -> 0 .. q - 1], NEW r \in [Index -> 0 .. q - 1]
  PROVE  /\ Times(p, r) \in [Index -> 0 .. q - 1]
         /\ \A k \in Index : /\ SumBelow([j \in Index |-> Term(p, r, k, j)], N) \in Int
                             /\ Times(p, r)[k] = Mod(SumBelow([j \in Index |-> Term(p, r, k, j)], N))
<1>1. N \in Nat
  BY Sizes
<1>2. Times(p, r) = [k \in Index |-> Mod(SumBelow([j \in Index |-> Term(p, r, k, j)], N))]
  BY DEF Times, Term, Mod
<1>3. \A k \in Index : SumBelow([j \in Index |-> Term(p, r, k, j)], N) \in Int
  <2> TAKE k \in Index
  <2> DEFINE f == [j \in Index |-> Term(p, r, k, j)]
  <2>1. \A j \in 0 .. N - 1 : f[j] \in Int
    BY TermIsNumber DEF Index
  <2> HIDE DEF f
  <2>2. SumBelow(f, N) \in Int
    BY <1>1, <2>1, BelowIsNumber
  <2> QED
    BY <2>2 DEF f
<1>4. \A k \in Index : Mod(SumBelow([j \in Index |-> Term(p, r, k, j)], N)) \in 0 .. q - 1
  BY <1>3, ModRange
<1> QED
  BY <1>2, <1>3, <1>4

\* A layer of the inverse.
LEMMA InverseLayerFacts ==
  ASSUME NEW e \in 1 .. LogN, m = Pow2[e], NEW t, t = N \div m,
         NEW s \in [Index -> 0 .. 2 * q - 1], NEW k \in Index
  PROVE  /\ m \div 2 = Pow2[e - 1] /\ t = Pow2[LogN - (e - 1) - 1] /\ t \in Nat \ {0}
         /\ m \div 2 + k \div (2 * t) \in Index
         /\ InverseLayerOf(s, t)[k] \in 0 .. 2 * q - 1
         /\ k % (2 * t) < t => /\ k + t \in Index
                               /\ Mod(InverseLayerOf(s, t)[k]) = Mod(s[k] + s[k + t])
         /\ ~(k % (2 * t) < t) =>
              /\ k - t \in Index
              /\ Mod(InverseLayerOf(s, t)[k])
                   = Mod((s[k - t] - s[k]) * RootPowsInv[m \div 2 + k \div (2 * t)])
<1> DEFINE b == m \div 2
<1>1. /\ LogN \in Nat \ {0} /\ e - 1 \in 0 .. LogN - 1 /\ e \in Nat /\ N \in Nat \ {0} /\ q \in Nat \ {0} /\ 8 * q < R /\ R \in Nat
      /\ e - 1 \in Nat /\ N \in RowLengths /\ N = Pow2[LogN] /\ LogN \in 0 .. LogN
  BY Sizes DEF RowLengths, N
<1>2. b = Pow2[e - 1] /\ t = Pow2[LogN - (e - 1) - 1]
  <2>1. Pow2[e] = 2 * Pow2[e - 1] /\ Pow2[e - 1] \in Nat
    <3>1. (e - 1) + 1 = e
      BY <1>1
    <3> QED
      BY <1>1, <3>1, Pow2Facts
  <2>2. Pow2[LogN] \div Pow2[e] = Pow2[LogN - e]
    BY <1>1, Pow2Order
  <2>3. LogN - (e - 1) - 1 = LogN - e
    BY <1>1
  <2> QED
    BY <2>1, <2>2, <2>3 DEF N
<1>3. AreLayer(LogN, e - 1, N, b, t) /\ t \in Int /\ b \in Int
  <2>1. Pow2[LogN - (e - 1) - 1] \in Nat /\ Pow2[e - 1] \in Nat
    BY <1>1, Pow2Facts
  <2> QED
    BY <1>1, <1>2, <2>1 DEF AreLayer
<1> HIDE DEF b
<1>4. b \in Nat \ {0} /\ t \in Nat \ {0} /\ AreBlocks(N, b, t) /\ N \in Int
  <2>1. Pow2[LogN] \in RowLengths /\ N \in Int
    BY <1>1
  <2>2. b \in Nat \ {0} /\ t \in Nat \ {0} /\ AreBlocks(N, b, t)
    BY <1>1, <1>3, <2>1, LayerSizes
  <2> QED
    BY <2>1, <2>2
<1>5. k \in 0 .. N - 1 /\ k % N = k
  BY <1>1 DEF Index
<1>6. b + k \div (2 * t) \in 0 .. N - 1
  <2>1. Pow2[LogN] \in RowLengths /\ N \in Int
    BY <1>1
  <2>2. b + (k % N) \div (2 * t) \in 0 .. Pow2[LogN] - 1
    BY <1>1, <1>3, <2>1, TwiddleFacts
  <2> QED
    BY <1>1, <1>5, <2>2
<1>7. k \in Lower(N, t) <=> k % (2 * t) < t
  BY <1>5 DEF Lower
<1>8. InverseLayerOf(s, t)[k] =
        IF k % (2 * t) < t THEN WrapSum((s[k] + s[k + t]) % R)
        ELSE redcLazy((s[k - t] + 2 * q - s[k]) % R, Scaled(RootPowsInv[b + k \div (2 * t)]))
  BY DEF InverseLayerOf, b
<1>9. ASSUME k % (2 * t) < t
      PROVE  /\ k + t \in Index /\ InverseLayerOf(s, t)[k] \in 0 .. 2 * q - 1
             /\ Mod(InverseLayerOf(s, t)[k]) = Mod(s[k] + s[k + t])
  <2>1. k + t \in Index
    <3>1. k % N \in Lower(N, t)
      BY <1>5, <1>7, <1>9
    <3>2. k + t \in 0 .. N - 1
      BY <1>4, <1>5, <3>1, PartnerInRow
    <3> QED
      BY <3>2 DEF Index
  <2> DEFINE x == s[k]
             y == s[k + t]
  <2>2. x \in 0 .. 2 * q - 1 /\ y \in 0 .. 2 * q - 1
    BY <2>1
  <2>3. InverseLayerOf(s, t)[k] = WrapSum((x + y) % R)
    BY <1>8, <1>9
  <2> HIDE DEF x, y
  <2>4. (x + y) % R = x + y /\ x + y \in Int
    BY <1>1, <2>2
  <2>5. WrapSum(x + y) \in 0 .. 2 * q - 1 /\ (WrapSum(x + y) = x + y \/ WrapSum(x + y) = x + y - 2 * q)
    BY <1>1, <2>2 DEF WrapSum
  <2>6. Mod(WrapSum(x + y)) = Mod(x + y)
    <3>1. Mod((x + y) - 2 * q) = Mod(x + y)
      BY <2>4, ModFacts
    <3>2. x + y - 2 * q = (x + y) - 2 * q
      BY <1>1, <2>2
    <3> QED
      BY <2>5, <3>1, <3>2
  <2> QED
    BY <2>1, <2>3, <2>4, <2>5, <2>6 DEF x, y
<1>10. ASSUME ~(k % (2 * t) < t)
       PROVE  /\ k - t \in Index /\ InverseLayerOf(s, t)[k] \in 0 .. 2 * q - 1
              /\ Mod(InverseLayerOf(s, t)[k]) = Mod((s[k - t] - s[k]) * RootPowsInv[b + k \div (2 * t)])
  <2>1. k - t \in Index
    <3>1. k % N \notin Lower(N, t)
      BY <1>5, <1>7, <1>10
    <3>2. k - t \in 0 .. N - 1
      BY <1>4, <1>5, <3>1, PartnerInRow
    <3> QED
      BY <3>2 DEF Index
  <2> DEFINE x == s[k - t]
             y == s[k]
             W == RootPowsInv[b + k \div (2 * t)]
             z == x + 2 * q - y
  <2>2. x \in 0 .. 2 * q - 1 /\ y \in 0 .. 2 * q - 1
    BY <2>1
  <2>3. W \in 0 .. q - 1
    <3> DEFINE j == b + k \div (2 * t)
    <3>1. j \in Index
      BY <1>6 DEF Index
    <3> HIDE DEF j
    <3>2. RootPowsInv[j] \in 1 .. q - 1
      BY <3>1, RootPowsInvFacts
    <3> QED
      BY <1>1, <3>2 DEF j
  <2>4. InverseLayerOf(s, t)[k] = redcLazy(z % R, Scaled(W))
    BY <1>8, <1>10
  <2> HIDE DEF x, y, W
  <2>5. z % R = z /\ z \in 0 .. R - 1 /\ z = (x - y) + 2 * q /\ x - y \in Int
    BY <1>1, <2>2
  <2> HIDE DEF z
  <2>6. redcLazy(z, Scaled(W)) \in 1 .. 2 * q - 1 /\ Mod(redcLazy(z, Scaled(W))) = Mod(z * W)
    BY <2>3, <2>5, MontgomeryProduct
  <2>7. Mod(z * W) = Mod((x - y) * W)
    <3>1. Mod(z) = Mod(x - y)
      BY <2>5, ModFacts
    <3>2. W \in Int /\ z \in Int
      BY <1>1, <2>3, <2>5
    <3>3. Mod(W) \in Int
      BY <3>2, ModRange
    <3> DEFINE c == x - y
    <3>4. c \in Int /\ Mod(z) = Mod(c)
      BY <2>5, <3>1
    <3> HIDE DEF c
    <3>5. Mod(z * W) = Mod(c * W)
      BY <3>2, <3>3, <3>4, ModTimes
    <3> QED
      BY <3>5 DEF c
  <2>8. redcLazy(z, Scaled(W)) \in 0 .. 2 * q - 1
    BY <1>1, <2>6
  <2> QED
    BY <2>1, <2>4, <2>5, <2>6, <2>7, <2>8 DEF x, y, W
<1> QED
  BY <1>2, <1>4, <1>6, <1>9, <1>10 DEF b, Index

\* Where the loop is in a layer of the NTT.
LEMMA LayerLoop ==
  ASSUME NttTypeOK, form \in {"ntt", "cols", "rows"}, m < len
  PROVE  \E d \in 0 .. LogN : \E e \in 0 .. d - 1 :
           LoopAt(d, e) /\ AreLayer(d, e, len, m, Pow2[d - e - 1]) /\ Pow2[d] \in RowLengths /\ FitsVector(alg, len)
<1>1. PICK d \in 0 .. LogN : \E e \in 0 .. d : LoopAt(d, e)
  BY DEF NttTypeOK
<1>2. PICK e \in 0 .. d : LoopAt(d, e)
  BY <1>1
<1>3. len = Pow2[d] /\ m = Pow2[e] /\ len \in RowLengths /\ FitsVector(alg, len)
  BY <1>2 DEF LoopAt
<1>4. e \in 0 .. d - 1
  <2>1. e \in Nat /\ d \in Nat
    BY Sizes
  <2>2. e < d
    BY <1>3, <2>1, PowersOrder
  <2> QED
    BY <2>1, <2>2
<1> QED
  BY <1>2, <1>3, <1>4 DEF AreLayer

LEMMA LayerWords ==
  ASSUME NttTypeOK, NTTLayer, NEW B \in q .. R - q - 1, a \in [Index -> 0 .. B]
  PROVE  a' \in [Index -> 0 .. B]
<1>1. a' = LayerOf(a, alg, len, m) /\ form \in {"ntt", "cols", "rows"} /\ m < len
  BY DEF NTTLayer
<1>2. PICK d \in 0 .. LogN : \E e \in 0 .. d - 1 :
        AreLayer(d, e, len, m, Pow2[d - e - 1]) /\ Pow2[d] \in RowLengths /\ FitsVector(alg, len)
  BY <1>1, LayerLoop
<1>3. PICK e \in 0 .. d - 1 :
        AreLayer(d, e, len, m, Pow2[d - e - 1]) /\ Pow2[d] \in RowLengths /\ FitsVector(alg, len)
  BY <1>2
<1> DEFINE t == Pow2[d - e - 1]
<1>4. alg \in Variants /\ len \in Int /\ m \in Int /\ t \in Int
  <2>1. d \in Nat /\ e \in Nat /\ d - e - 1 \in Nat
    BY Sizes
  <2> QED
    BY <1>3, <2>1, Pow2Facts DEF NttTypeOK, AreLayer
<1> HIDE DEF t
<1>5. AreLayer(d, e, len, m, t)
  BY <1>3 DEF t
<1>6. \A k \in Index : LayerOf(a, alg, len, m)[k] \in 0 .. B
  <2> TAKE k \in Index
  <2>1. d \in Int /\ e \in Int
    OBVIOUS
  <2>2. LayerAt(a, alg, len, m, t, B, k)
    BY <1>3, <1>4, <1>5, <2>1, LayerFacts
  <2> QED
    BY <2>2 DEF LayerAt
<1>7. LayerOf(a, alg, len, m) = [k \in Index |-> LayerOf(a, alg, len, m)[k]]
  BY DEF LayerOf
<1> QED
  BY <1>1, <1>6, <1>7

\* The rows times those of Wmatrix.
LEMMA RowsTimesFacts ==
  ASSUME NEW al \in Variants, NEW s \in [Index -> 0 .. R - 1]
  PROVE  /\ RowsTimes(s, al, N2) \in [Index -> 0 .. q]
         /\ \A k \in Index : Mod(RowsTimes(s, al, N2)[k]) = Mod(s[k] * Wmatrix[k])
<1>1. \A k \in Index : k % N2 \in RowLanes(al, N2)
  <2>1. LogN - LogN1 \in Nat
    BY Sizes
  <2>2. RowLanes(al, N2) = 0 .. N2 - 1
    BY <2>1, RowLanesFacts DEF N2
  <2> QED
    BY <2>2, Matrix
<1>2. RowsTimes(s, al, N2) = [k \in Index |-> Product(al, s[k], Wmatrix[k])]
  BY <1>1 DEF RowsTimes
<1>3. \A k \in Index : Product(al, s[k], Wmatrix[k]) \in 0 .. q /\ Mod(Product(al, s[k], Wmatrix[k])) = Mod(s[k] * Wmatrix[k])
  <2> TAKE k \in Index
  <2>1. Wmatrix[k] \in 0 .. q - 1
    <3>1. Wmatrix[k] \in 1 .. q - 1 /\ q \in Nat
      BY WmatrixFacts, Sizes
    <3> QED
      BY <3>1
  <2>2. s[k] \in 0 .. R - 1
    OBVIOUS
  <2> QED
    BY <2>1, <2>2, ProductFacts
<1> QED
  BY <1>2, <1>3

LEMMA TransposedType ==
  ASSUME NEW S, NEW s \in [Index -> S]
  PROVE  Transposed(s, N1, N2) \in [Index -> S] /\ Transposed(s, N2, N1) \in [Index -> S]
BY TransposedFacts DEF Transposed

\* What leftRot finds for a word.
LEMMA LeftRotWords ==
  ASSUME NEW r \in 0 .. N \div 2 - 1, LeftRotShift(r), NEW B \in Nat, q <= B, a \in [Index -> 0 .. B]
  PROVE  a' \in [Index -> 0 .. q]
<1>1. q \in Nat \ {0} /\ M \in Nat /\ \A k \in Index : a[k] < q
  BY Sizes DEF LeftRotShift
<1>2. rotGroup[r] \in Int /\ Congruent(rotGroup[r], 1, 2)
  <2>1. rotGroup[r] \in 0 .. M - 1
    BY RotGroupFacts
  <2> QED
    BY <1>1, <2>1, RotGroupFacts
<1>3. \A k \in Index : (CHOOSE n \in Index : (n * rotGroup[r]) % N = k) \in Index
  BY <1>2, OddReaches
<1>4. \A n \in Index : a[n] \in 0 .. q /\ q - a[n] \in 0 .. q
  BY <1>1
<1>5. a' = [k \in Index |-> LET n == CHOOSE n \in Index : (n * rotGroup[r]) % N = k
                            IN  IF (n * rotGroup[r]) % M < N THEN a[n] ELSE q - a[n]]
  BY DEF LeftRotShift
<1> QED
  BY <1>3, <1>4, <1>5

\* No step but the inverse makes the words of an array larger than they were, or than q.
LEMMA WordsOfStep ==
  ASSUME NttTypeOK, [Next]_vars, NEW B \in q .. R - q - 1, a \in [Index -> 0 .. B],
         form # "intt", form' # "intt"
  PROVE  a' \in [Index -> 0 .. B]
<1>1. q \in Nat \ {0} /\ R \in Nat /\ N \in Nat \ {0} /\ B \in Nat /\ q <= B /\ q - 1 <= B /\ 0 .. q - 1 \subseteq 0 .. B
      /\ 0 .. q \subseteq 0 .. B /\ 0 .. B \subseteq 0 .. R - 1
  BY Sizes
<1>2. alg \in Variants
  BY DEF NttTypeOK
<1>3. Operand \in [Index -> 0 .. q] /\ Consts \subseteq Nat /\ Variant \subseteq Variants
  BY NttAssumption
<1>4. CASE \E al \in Variant : BeginNTT(al)
  BY <1>4 DEF BeginNTT
<1>5. CASE \E al \in Variant : BeginStep4(al)
  BY <1>5, TransposedType DEF BeginStep4
<1>6. CASE Step4Rows
  <2>1. a' = RowsTimes(Transposed(a, N2, N1), alg, N2)
    BY <1>6 DEF Step4Rows
  <2>2. Transposed(a, N2, N1) \in [Index -> 0 .. R - 1]
    <3>1. a \in [Index -> 0 .. R - 1]
      BY <1>1
    <3> QED
      BY <3>1, TransposedType
  <2>3. a' \in [Index -> 0 .. q]
    BY <1>2, <2>1, <2>2, RowsTimesFacts
  <2> QED
    BY <1>1, <2>3
<1>7. CASE NTTLayer
  BY <1>7, LayerWords
<1>8. CASE BeginINTT \/ INTTLayer \/ INTTScale
  BY <1>8 DEF BeginINTT, INTTLayer, INTTScale
<1>9. CASE \E r \in 0 .. N \div 2 - 1 : leftRotAndEqual(r) \/ LeftRotShift(r)
  <2>1. PICK r \in 0 .. N \div 2 - 1 : leftRotAndEqual(r) \/ LeftRotShift(r)
    BY <1>9
  <2>2. CASE leftRotAndEqual(r)
    <3>1. a' = [n \in Index |-> a[Source(n, r)]]
      BY <2>2 DEF leftRotAndEqual
    <3>2. r \in Nat
      OBVIOUS
    <3> QED
      BY <3>1, <3>2, SourceIsIndex
  <2>3. CASE LeftRotShift(r)
    <3>1. a' \in [Index -> 0 .. q]
      BY <1>1, <2>3, LeftRotWords
    <3> QED
      BY <1>1, <3>1
  <2> QED
    BY <2>1, <2>2, <2>3
<1>10. CASE conjugate
  <2>1. a' = [n \in Index |-> a[N - 1 - n]]
    BY <1>10 DEF conjugate
  <2>2. \A n \in Index : N - 1 - n \in Index
    BY <1>1 DEF Index
  <2> QED
    BY <2>1, <2>2
<1>11. CASE conjugateAndEqual
  BY <1>11 DEF conjugateAndEqual
<1>12. CASE qiAdd
  <2>1. a' = [n \in Index |-> Mod(a[n] + Operand[n])]
    BY <1>12 DEF qiAdd, Mod
  <2>2. \A n \in Index : a[n] + Operand[n] \in Int
    BY <1>1, <1>3
  <2> QED
    BY <1>1, <2>1, <2>2, ModRange
<1>13. CASE qiNegate
  <2>1. a' = [n \in Index |-> IF a[n] = 0 THEN 0 ELSE q - a[n]] /\ \A k \in Index : a[k] <= q
    BY <1>13 DEF qiNegate
  <2>2. \A n \in Index : a[n] \in Nat
    BY <1>1
  <2> QED
    BY <1>1, <2>1, <2>2
<1>14. CASE qiMul \/ qiSquare
  <2>1. \A n \in Index : a[n] \in Nat /\ Operand[n] \in Nat
    BY <1>1, <1>3
  <2>2. \A n \in Index : mulModBarrett(a[n], Operand[n]) \in 0 .. q - 1 /\ mulModBarrett(a[n], a[n]) \in 0 .. q - 1
    BY <2>1, mulModBarrettFacts
  <2> QED
    BY <1>1, <1>14, <2>2 DEF qiMul, qiSquare
<1>15. CASE mulByMonomial
  <2>1. \A n \in Index : a[n] \in Nat /\ RootPows[N][n] \in Nat
    <3> TAKE n \in Index
    <3>1. LogN \in 0 .. LogN /\ Pow2[LogN] \in RowLengths /\ n \in 0 .. Pow2[LogN] - 1
      BY Sizes DEF RowLengths, N, Index
    <3>2. RootPows[Pow2[LogN]][n] \in 1 .. q - 1
      BY <3>1, RootPowsFacts
    <3> QED
      BY <1>1, <3>2 DEF N
  <2>2. \A n \in Index : mulModBarrett(a[n], RootPows[N][n]) \in 0 .. q - 1
    BY <2>1, mulModBarrettFacts
  <2> QED
    BY <1>1, <1>15, <2>2 DEF mulByMonomial
<1>16. CASE \E c \in Consts : qiAddConst(c) \/ qiSubConst(c) \/ qiMulConst(c)
  <2>1. PICK c \in Consts : qiAddConst(c) \/ qiSubConst(c) \/ qiMulConst(c)
    BY <1>16
  <2>2. c \in Nat
    BY <1>3
  <2>3. \A n \in Index : a[n] \in Nat
    BY <1>1
  <2>4. CASE qiAddConst(c)
    <3>1. a' = [n \in Index |-> Mod(a[n] + c)]
      BY <2>4 DEF qiAddConst, addMod, Mod
    <3>2. \A n \in Index : a[n] + c \in Int
      BY <2>2, <2>3
    <3> QED
      BY <1>1, <3>1, <3>2, ModRange
  <2>5. CASE qiSubConst(c)
    <3>1. a' = [n \in Index |-> Mod(a[n] + q - Mod(c))]
      BY <2>5 DEF qiSubConst, subMod, Mod
    <3>2. \A n \in Index : a[n] + q - Mod(c) \in Int
      <4>1. Mod(c) \in Int
        BY <2>2, ModRange
      <4> QED
        BY <1>1, <2>3, <4>1
    <3> QED
      BY <1>1, <3>1, <3>2, ModRange
  <2>6. CASE qiMulConst(c)
    <3>1. \A n \in Index : mulModBarrett(a[n], c) \in 0 .. q - 1
      BY <2>2, <2>3, mulModBarrettFacts
    <3> QED
      BY <1>1, <2>6, <3>1 DEF qiMulConst
  <2> QED
    BY <2>1, <2>4, <2>5, <2>6
<1>17. CASE UNCHANGED vars
  BY <1>17 DEF vars
<1> QED
  BY <1>4, <1>5, <1>6, <1>7, <1>8, <1>9, <1>10, <1>11, <1>12, <1>13, <1>14, <1>15, <1>16, <1>17 DEF Next

\* The words in the inverse, and after it.
LEMMA InverseWords ==
  ASSUME NttIInv
  PROVE  /\ BeginINTT => a' \in [Index -> 0 .. 2 * q - 1]
         /\ INTTLayer => a' \in [Index -> 0 .. 2 * q - 1]
         /\ INTTScale => a' \in [Index -> 0 .. q - 1]
<1>1. q \in Nat \ {0} /\ R \in Nat /\ N \in Nat \ {0} /\ LogN \in Nat /\ 8 * q < R
  BY Sizes
<1>2. a \in [Index -> 0 .. R - 1]
  BY DEF NttIInv, NttTypeOK
<1>3. ASSUME BeginINTT PROVE a' \in [Index -> 0 .. 2 * q - 1]
  <2>1. a' = a /\ \A k \in Index : a[k] <= q
    BY <1>3 DEF BeginINTT
  <2>2. \A k \in Index : a[k] \in 0 .. 2 * q - 1
    BY <1>1, <1>2, <2>1
  <2> QED
    BY <1>2, <2>1, <2>2
<1>4. form = "intt" => a \in [Index -> 0 .. 2 * q - 1]
  <2> SUFFICES ASSUME form = "intt" PROVE a \in [Index -> 0 .. 2 * q - 1]
    OBVIOUS
  <2>1. \A k \in Index : a[k] < 2 * q
    BY DEF NttIInv, WordsAreSmall
  <2>2. \A k \in Index : a[k] \in 0 .. 2 * q - 1
    BY <1>1, <1>2, <2>1
  <2> QED
    BY <1>2, <2>2
<1>5. ASSUME INTTLayer PROVE a' \in [Index -> 0 .. 2 * q - 1]
  <2>1. a' = InverseLayerOf(a, N \div m) /\ form = "intt" /\ m > 1
    BY <1>5 DEF INTTLayer
  <2>2. PICK e \in 0 .. LogN : m = Pow2[e]
    BY <2>1 DEF NttIInv, NttTypeOK, LoopAt
  <2>3. e \in 1 .. LogN
    BY <1>1, <2>1, <2>2, Pow2Facts
  <2> DEFINE t == N \div m
  <2>4. t = N \div m
    OBVIOUS
  <2> HIDE DEF t
  <2>5. \A k \in Index : InverseLayerOf(a, t)[k] \in 0 .. 2 * q - 1
    <3> TAKE k \in Index
    <3> QED
      BY <1>4, <2>1, <2>2, <2>3, <2>4, InverseLayerFacts
  <2>6. InverseLayerOf(a, t) = [k \in Index |-> InverseLayerOf(a, t)[k]]
    BY DEF InverseLayerOf
  <2> QED
    BY <2>1, <2>4, <2>5, <2>6
<1>6. ASSUME INTTScale PROVE a' \in [Index -> 0 .. q - 1]
  <2>1. a' = [k \in Index |-> redc(BelowQ(a[k]), Scaled(InverseMod(N)))] /\ form = "intt"
    BY <1>6 DEF INTTScale, NScaleInv
  <2>2. InverseMod(N) \in 0 .. q - 1
    <3>1. InverseMod(N) \in 1 .. q - 1
      BY <1>1, WordsInvertible, InverseModFacts
    <3> QED
      BY <1>1, <3>1
  <2>3. \A k \in Index : BelowQ(a[k]) \in 0 .. R - 1
    BY <1>1, <1>4, <2>1 DEF BelowQ
  <2>4. \A k \in Index : redc(BelowQ(a[k]), Scaled(InverseMod(N))) \in 0 .. q - 1
    BY <2>2, <2>3, MontgomeryProduct
  <2> QED
    BY <2>1, <2>4
<1> QED
  BY <1>3, <1>5, <1>6

\* The type of the polynomial the words stand for.
LEMMA PolynomialOfStep ==
  ASSUME NttTypeOK, [Next]_vars PROVE poly' \in [Index -> 0 .. q - 1]
<1>1. q \in Nat \ {0} /\ N \in Nat \ {0} /\ M \in Nat \ {0} /\ M = 2 * N /\ 1 \in 0 .. q - 1 /\ 0 \in 0 .. q - 1
  BY Sizes
<1>2. poly \in [Index -> 0 .. q - 1]
  BY DEF NttTypeOK
<1>3. OperandPoly \in [Index -> 0 .. q - 1] /\ Consts \subseteq Nat
  BY NttAssumption
<1>4. CASE UNCHANGED poly
  BY <1>2, <1>4
<1>5. CASE \E r \in 0 .. N \div 2 - 1 : leftRotAndEqual(r) \/ LeftRotShift(r)
  <2>1. PICK r \in 0 .. N \div 2 - 1 : leftRotAndEqual(r) \/ LeftRotShift(r)
    BY <1>5
  <2>2. r \in Nat /\ r % (N \div 2) \in 0 .. N \div 2 - 1
    <3>1. r \in Nat /\ N \div 2 \in Nat \ {0}
      BY <1>1
    <3> QED
      BY <3>1
  <2>3. \A i \in 0 .. N \div 2 - 1 : Automorphism(poly, rotGroup[i]) \in [Index -> 0 .. q - 1]
    <3> TAKE i \in 0 .. N \div 2 - 1
    <3>1. rotGroup[i] \in 0 .. M - 1 /\ Congruent(rotGroup[i], 1, 2)
      BY RotGroupFacts
    <3>2. rotGroup[i] \in Int
      BY <1>1, <3>1
    <3> QED
      BY <1>2, <3>1, <3>2, AutomorphismType
  <2> QED
    BY <2>1, <2>2, <2>3 DEF leftRotAndEqual, LeftRotShift
<1>6. CASE conjugate
  <2>1. M - 1 \in Int /\ Congruent(M - 1, 1, 2)
    <3>1. M - 1 - 1 = 2 * (N - 1) /\ N - 1 \in Int
      BY <1>1
    <3> QED
      BY <1>1, <3>1 DEF Congruent, Divides
  <2> QED
    BY <1>2, <1>6, <2>1, AutomorphismType DEF conjugate
<1>7. CASE qiAdd
  <2>1. poly' = [k \in Index |-> Mod(poly[k] + OperandPoly[k])]
    BY <1>7 DEF qiAdd, Mod
  <2>2. \A k \in Index : poly[k] + OperandPoly[k] \in Int
    BY <1>1, <1>2, <1>3
  <2> QED
    BY <2>1, <2>2, ModRange
<1>8. CASE qiNegate
  <2>1. poly' = [k \in Index |-> Mod(q - poly[k])]
    BY <1>8 DEF qiNegate, Mod
  <2>2. \A k \in Index : q - poly[k] \in Int
    BY <1>1, <1>2
  <2> QED
    BY <2>1, <2>2, ModRange
<1>9. CASE qiMul \/ qiSquare
  BY <1>2, <1>3, <1>9, TimesType DEF qiMul, qiSquare
<1>10. CASE mulByMonomial
  <2> DEFINE x == [k \in Index |-> IF k = N \div 2 THEN 1 ELSE 0]
  <2>1. x \in [Index -> 0 .. q - 1]
    <3>1. 1 \in 0 .. q - 1 /\ 0 \in 0 .. q - 1
      BY Sizes
    <3> QED
      BY <3>1
  <2>2. poly' = Times(poly, x)
    BY <1>10 DEF mulByMonomial
  <2> HIDE DEF x
  <2> QED
    BY <1>2, <2>1, <2>2, TimesType
<1>11. CASE \E c \in Consts : qiAddConst(c) \/ qiSubConst(c) \/ qiMulConst(c)
  <2>1. PICK c \in Consts : qiAddConst(c) \/ qiSubConst(c) \/ qiMulConst(c)
    BY <1>11
  <2>2. c \in Nat /\ 0 \in Index
    BY <1>1, <1>3 DEF Index
  <2>3. \A k \in Index : poly[k] \in Int /\ poly[k] + c \in Int /\ poly[k] - c \in Int /\ poly[k] * c \in Int
    BY <1>2, <2>2
  <2>4. \A k \in Index : Mod(poly[k] + c) \in 0 .. q - 1 /\ Mod(poly[k] - c) \in 0 .. q - 1 /\ Mod(poly[k] * c) \in 0 .. q - 1
    BY <2>3, ModRange
  <2>5. CASE qiAddConst(c)
    <3>1. poly' = [poly EXCEPT ![0] = Mod(poly[0] + c)]
      BY <2>5 DEF qiAddConst, Mod
    <3> QED
      BY <1>2, <2>2, <2>4, <3>1
  <2>6. CASE qiSubConst(c)
    <3>1. poly' = [poly EXCEPT ![0] = Mod(poly[0] - c)]
      BY <2>6 DEF qiSubConst, Mod
    <3> QED
      BY <1>2, <2>2, <2>4, <3>1
  <2>7. CASE qiMulConst(c)
    <3>1. poly' = [k \in Index |-> Mod(poly[k] * c)]
      BY <2>7 DEF qiMulConst, Mod
    <3> QED
      BY <2>4, <3>1
  <2> QED
    BY <2>1, <2>5, <2>6, <2>7
<1>12. CASE (\E al \in Variant : BeginNTT(al) \/ BeginStep4(al)) \/ Step4Rows \/ NTTLayer
  <2>1. UNCHANGED poly
    BY <1>12 DEF BeginNTT, BeginStep4, Step4Rows, NTTLayer
  <2> QED
    BY <1>4, <2>1
<1>13. CASE BeginINTT \/ INTTLayer \/ INTTScale \/ conjugateAndEqual
  <2>1. UNCHANGED poly
    BY <1>13 DEF BeginINTT, INTTLayer, INTTScale, conjugateAndEqual
  <2> QED
    BY <1>4, <2>1
<1> QED
  BY <1>4, <1>5, <1>6, <1>7, <1>8, <1>9, <1>10, <1>11, <1>12, <1>13 DEF Next, vars

\* Where the loops are after a step.
LEMMA LoopOfStep ==
  ASSUME NttTypeOK, [Next]_vars
  PROVE  /\ form' \in Forms /\ alg' \in Variants /\ (alg' \in Variant \/ form' \in {"coef", "value", "intt"})
         /\ ops' \in 0 .. MaxOps /\ imulted' \in BOOLEAN
         /\ \E d \in 0 .. LogN : \E e \in 0 .. d : LoopAt(d, e)'
<1>1. /\ LogN \in Nat \ {0} /\ LogN1 \in Nat /\ LogN1 <= LogN /\ LogN - LogN1 \in Nat \ {0} /\ N = Pow2[LogN]
      /\ MaxOps \in Nat /\ Pow2[0] = 1 /\ "bar" \in Variants /\ Variant \subseteq Variants
      /\ N \in RowLengths /\ N1 \in RowLengths /\ N2 \in RowLengths /\ 0 \in 0 .. LogN
  BY Sizes, Pow2Facts, NttAssumption DEF N, Variants, ScalarVariants, RowLengths
<1>2. /\ form \in Forms /\ alg \in Variants /\ (alg \in Variant \/ form \in {"coef", "value", "intt"})
      /\ ops \in 0 .. MaxOps /\ imulted \in BOOLEAN
  BY DEF NttTypeOK
<1>3. PICK d \in 0 .. LogN : \E e \in 0 .. d : LoopAt(d, e)
  BY DEF NttTypeOK
<1>4. PICK e \in 0 .. d : LoopAt(d, e)
  BY <1>3
<1>5. d \in Nat /\ e \in Nat /\ e <= d
  BY <1>1
<1>6. ASSUME UNCHANGED <<form, alg, len, m>>, ops' \in 0 .. MaxOps, imulted' \in BOOLEAN
      PROVE  /\ form' \in Forms /\ alg' \in Variants /\ (alg' \in Variant \/ form' \in {"coef", "value", "intt"})
             /\ ops' \in 0 .. MaxOps /\ imulted' \in BOOLEAN
             /\ \E x \in 0 .. LogN : \E y \in 0 .. x : LoopAt(x, y)'
  <2>1. LoopAt(d, e)'
    BY <1>4, <1>6 DEF LoopAt
  <2> QED
    BY <1>2, <1>6, <2>1
<1>7. CASE \E al \in Variant : BeginNTT(al)
  <2>1. PICK al \in Variant : BeginNTT(al)
    BY <1>7
  <2>2. LoopAt(LogN, 0)'
    BY <1>1, <2>1 DEF LoopAt, BeginNTT
  <2>3. LogN \in 0 .. LogN /\ 0 \in 0 .. LogN
    BY <1>1
  <2>4. /\ form' \in Forms /\ alg' \in Variants /\ alg' \in Variant /\ ops' \in 0 .. MaxOps /\ imulted' \in BOOLEAN
    BY <1>1, <1>2, <2>1 DEF BeginNTT, Forms
  <2> QED
    BY <2>2, <2>3, <2>4
<1>8. CASE \E al \in Variant : BeginStep4(al)
  <2>1. PICK al \in Variant : BeginStep4(al)
    BY <1>8
  <2>2. LoopAt(LogN1, 0)'
    BY <1>1, <2>1 DEF LoopAt, BeginStep4, N1
  <2>3. LogN1 \in 0 .. LogN /\ 0 \in 0 .. LogN1
    BY <1>1
  <2>4. /\ form' \in Forms /\ alg' \in Variants /\ alg' \in Variant /\ ops' \in 0 .. MaxOps /\ imulted' \in BOOLEAN
    BY <1>1, <1>2, <2>1 DEF BeginStep4, Forms
  <2> QED
    BY <2>2, <2>3, <2>4
<1>9. CASE Step4Rows
  <2>1. form = "cols" /\ form' = "rows" /\ len' = N2 /\ m' = 1 /\ alg' = alg /\ ops' = ops /\ imulted' = imulted
    BY <1>9 DEF Step4Rows
  <2>2. FitsVector(alg, N2)
    <3>1. FitsVector(alg, N1)
      BY <1>4, <2>1 DEF LoopAt, N1
    <3>2. N1 <= N2 /\ N1 \in Nat /\ N2 \in Nat
      <4>1. LogN1 <= LogN - LogN1
        BY <1>1 DEF LogN1
      <4> QED
        BY <1>1, <4>1, PowersOrder, Sizes DEF N1, N2
    <3>3. Cut * VLMax \in Int
      <4>1. \E i \in 0 .. Cut : VLMax = Pow2[i]
        BY LayersAssumption
      <4>2. Cut \in Nat
        BY LayersAssumption
      <4>3. VLMax \in Int
        BY <4>1, <4>2, Pow2Facts
      <4> QED
        BY <4>2, <4>3
    <3> QED
      BY <3>1, <3>2, <3>3 DEF FitsVector
  <2>3. LoopAt(LogN - LogN1, 0)'
    BY <1>1, <2>1, <2>2 DEF LoopAt, N2
  <2>4. LogN - LogN1 \in 0 .. LogN /\ 0 \in 0 .. LogN - LogN1
    BY <1>1
  <2> QED
    BY <1>2, <2>1, <2>3, <2>4 DEF Forms
<1>10. CASE NTTLayer
  <2>1. form \in {"ntt", "cols", "rows"} /\ m < len /\ ops' = ops /\ imulted' = imulted
    BY <1>10 DEF NTTLayer
  <2>2. e < d
    BY <1>4, <1>5, <2>1, PowersOrder DEF LoopAt
  <2>3. 2 * m = Pow2[e + 1] /\ m \in Nat /\ len \in Nat
    BY <1>4, <1>5, Pow2Facts DEF LoopAt
  <2>4. CASE 2 * m = len /\ form # "cols"
    <3>1. form' = "value" /\ alg' = "bar" /\ len' = N /\ m' = N
      BY <1>10, <2>4 DEF NTTLayer
    <3>2. LoopAt(LogN, LogN)'
      BY <1>1, <3>1 DEF LoopAt
    <3>3. LogN \in 0 .. LogN
      BY <1>1
    <3> QED
      BY <1>1, <1>2, <2>1, <3>1, <3>2, <3>3 DEF Forms
  <2>5. CASE ~(2 * m = len /\ form # "cols")
    <3>1. form' = form /\ alg' = alg /\ len' = len /\ m' = 2 * m
      BY <1>10, <2>5 DEF NTTLayer
    <3>2. form \in {"ntt", "rows"} => e + 1 < d
      <4> SUFFICES ASSUME form \in {"ntt", "rows"} PROVE e + 1 < d
        OBVIOUS
      <4>1. Pow2[e + 1] # Pow2[d]
        BY <1>4, <2>3, <2>5 DEF LoopAt
      <4>2. e + 1 # d
        BY <4>1
      <4> QED
        BY <1>5, <2>2, <4>2
    <3>3. LoopAt(d, e + 1)'
      BY <1>4, <2>1, <2>3, <3>1, <3>2 DEF LoopAt
    <3>4. e + 1 \in 0 .. d
      BY <1>5, <2>2
    <3> QED
      BY <1>2, <2>1, <3>1, <3>3, <3>4
  <2> QED
    BY <2>4, <2>5
<1>11. CASE BeginINTT
  <2>1. form = "value" /\ form' = "intt" /\ m' = N /\ len' = len /\ alg' = alg /\ imulted' = imulted
        /\ ops < MaxOps /\ ops' = ops + 1
    BY <1>11 DEF BeginINTT
  <2>2. LoopAt(LogN, LogN)'
    BY <1>1, <1>4, <2>1 DEF LoopAt
  <2>3. LogN \in 0 .. LogN /\ ops' \in 0 .. MaxOps
    BY <1>1, <1>2, <2>1
  <2> QED
    BY <1>2, <2>1, <2>2, <2>3 DEF Forms
<1>12. CASE INTTLayer
  <2>1. form = "intt" /\ m > 1 /\ m' = m \div 2 /\ form' = form /\ len' = len /\ alg' = alg /\ imulted' = imulted /\ ops' = ops
    BY <1>12 DEF INTTLayer
  <2>2. e \in 1 .. d
    BY <1>1, <1>4, <1>5, <2>1 DEF LoopAt
  <2>3. m' = Pow2[e - 1]
    <3>1. e - 1 \in Nat /\ (e - 1) + 1 = e
      BY <1>5, <2>2
    <3>2. Pow2[e] = 2 * Pow2[e - 1] /\ Pow2[e - 1] \in Nat
      BY <3>1, Pow2Facts
    <3> QED
      BY <1>4, <2>1, <3>2 DEF LoopAt
  <2>4. LoopAt(d, e - 1)'
    BY <1>4, <2>1, <2>3 DEF LoopAt
  <2>5. e - 1 \in 0 .. d
    BY <1>5, <2>2
  <2> QED
    BY <1>2, <2>1, <2>4, <2>5
<1>13. CASE INTTScale
  <2>1. form = "intt" /\ form' = "coef" /\ len' = len /\ m' = m /\ alg' = alg /\ imulted' = imulted /\ ops' = ops
    BY <1>13 DEF INTTScale
  <2>2. LoopAt(d, e)'
    BY <1>4, <2>1 DEF LoopAt
  <2> QED
    BY <1>2, <2>1, <2>2 DEF Forms
<1>14. ASSUME NEW f \in Forms, On(f) PROVE UNCHANGED <<form, alg, len, m>> /\ ops' \in 0 .. MaxOps
  BY <1>1, <1>2, <1>14 DEF On
<1>15. CASE \E r \in 0 .. N \div 2 - 1 : leftRotAndEqual(r) \/ LeftRotShift(r)
  <2>1. (On("value") \/ On("coef")) /\ imulted' = imulted
    BY <1>15 DEF leftRotAndEqual, LeftRotShift
  <2> QED
    BY <1>2, <1>6, <1>14, <2>1 DEF Forms
<1>16. CASE conjugate \/ conjugateAndEqual \/ qiAdd \/ qiNegate \/ qiMul \/ qiSquare
  <2>1. On("value") /\ imulted' = imulted
    BY <1>16 DEF conjugate, conjugateAndEqual, qiAdd, qiNegate, qiMul, qiSquare
  <2> QED
    BY <1>2, <1>6, <1>14, <2>1 DEF Forms
<1>17. CASE mulByMonomial
  <2>1. On("value") /\ imulted' = TRUE
    BY <1>17 DEF mulByMonomial
  <2> QED
    BY <1>2, <1>6, <1>14, <2>1 DEF Forms
<1>18. CASE \E c \in Consts : qiAddConst(c) \/ qiSubConst(c) \/ qiMulConst(c)
  <2>1. On("value") /\ imulted' = imulted
    BY <1>18 DEF qiAddConst, qiSubConst, qiMulConst
  <2> QED
    BY <1>2, <1>6, <1>14, <2>1 DEF Forms
<1>19. CASE UNCHANGED vars
  BY <1>2, <1>6, <1>19 DEF vars
<1> QED
  BY <1>7, <1>8, <1>9, <1>10, <1>11, <1>12, <1>13, <1>15, <1>16, <1>17, <1>18, <1>19 DEF Next

-------------------------------------------------------------------------------
(* Types and bounds *)

LEMMA InitSmall == Init => NttIInv
<1> SUFFICES ASSUME Init PROVE NttIInv
  OBVIOUS
<1>1. /\ LogN \in Nat \ {0} /\ N = Pow2[LogN] /\ MaxOps \in Nat /\ Pow2[0] = 1 /\ "bar" \in Variants
      /\ N \in RowLengths /\ R \in Nat /\ q \in Nat /\ 0 \in 0 .. LogN /\ LogN \in 0 .. LogN
  BY Sizes, Pow2Facts, NttAssumption DEF N, Variants, ScalarVariants, RowLengths
<1>2. a \in [Index -> 0 .. Largest] /\ Largest \in q .. R - q - 1 /\ Largest \in Nat
  BY LargestFacts DEF Init
<1>3. a \in [Index -> 0 .. R - 1]
  BY <1>1, <1>2
<1>4. poly \in [Index -> 0 .. q - 1]
  <2>1. poly = [k \in Index |-> Mod(a[k])] /\ \A k \in Index : a[k] \in Int
    BY <1>1, <1>3 DEF Init, Mod
  <2> QED
    BY <2>1, ModRange
<1>5. LoopAt(LogN, 0)
  BY <1>1 DEF LoopAt, Init
<1>6. NttTypeOK
  <2>1. form = "coef" /\ alg = "bar" /\ ops = 0 /\ imulted = FALSE
    BY DEF Init
  <2>2. form \in Forms /\ alg \in Variants /\ form \in {"coef", "value", "intt"} /\ imulted \in BOOLEAN
    BY <1>1, <2>1, Zenon DEF Forms
  <2>3. \E d \in 0 .. LogN : \E e \in 0 .. d : LoopAt(d, e)
    BY <1>1, <1>5
  <2>4. ops \in 0 .. MaxOps
    BY <1>1 DEF Init
  <2> QED
    BY <1>3, <1>4, <2>2, <2>3, <2>4 DEF NttTypeOK
<1>7. WordsAreSmall
  BY <1>2 DEF WordsAreSmall, Init
<1> QED
  BY <1>6, <1>7 DEF NttIInv

LEMMA StepSmall == NttIInv /\ [Next]_vars => NttIInv'
<1> SUFFICES ASSUME NttIInv, [Next]_vars PROVE NttIInv'
  OBVIOUS
<1>1. q \in Nat \ {0} /\ R \in Nat /\ 8 * q < R /\ Largest \in q .. R - q - 1 /\ Largest \in Nat
  BY Sizes, LargestFacts
<1>2. NttTypeOK /\ WordsAreSmall /\ a \in [Index -> 0 .. R - 1] /\ form \in Forms /\ form' \in Forms
  BY LoopOfStep DEF NttIInv, NttTypeOK
<1>3. form # "intt" => a \in [Index -> 0 .. Largest]
  <2> SUFFICES ASSUME form # "intt" PROVE a \in [Index -> 0 .. Largest]
    OBVIOUS
  <2>1. \A k \in Index : a[k] <= Largest
    BY <1>2 DEF WordsAreSmall
  <2>2. \A k \in Index : a[k] \in 0 .. Largest
    BY <1>1, <1>2, <2>1
  <2> QED
    BY <1>2, <2>2
<1>4. form = "intt" => \/ INTTLayer /\ form' = "intt"
                       \/ INTTScale /\ form' = "coef"
                       \/ UNCHANGED vars
  BY DEF Next, BeginNTT, BeginStep4, Step4Rows, NTTLayer, BeginINTT, INTTLayer, INTTScale, On, leftRotAndEqual,
         LeftRotShift, conjugate, conjugateAndEqual, qiAdd, qiNegate, qiMul, qiSquare, mulByMonomial, qiAddConst,
         qiSubConst, qiMulConst
<1>5. form' = "intt" => BeginINTT \/ INTTLayer \/ UNCHANGED vars
  BY DEF Next, BeginNTT, BeginStep4, Step4Rows, NTTLayer, BeginINTT, INTTLayer, INTTScale, On, leftRotAndEqual,
         LeftRotShift, conjugate, conjugateAndEqual, qiAdd, qiNegate, qiMul, qiSquare, mulByMonomial, qiAddConst,
         qiSubConst, qiMulConst
<1>6. form' = "intt" => a' \in [Index -> 0 .. 2 * q - 1]
  <2> SUFFICES ASSUME form' = "intt" PROVE a' \in [Index -> 0 .. 2 * q - 1]
    OBVIOUS
  <2>1. CASE BeginINTT \/ INTTLayer
    BY <2>1, InverseWords
  <2>2. CASE UNCHANGED vars
    <3>1. form = "intt" /\ a' = a
      BY <2>2 DEF vars
    <3>2. \A k \in Index : a[k] < 2 * q
      BY <1>2, <3>1 DEF WordsAreSmall
    <3>3. \A k \in Index : a[k] \in 0 .. 2 * q - 1
      BY <1>1, <1>2, <3>2
    <3> QED
      BY <1>2, <3>1, <3>3
  <2> QED
    BY <1>5, <2>1, <2>2
<1>7. form' # "intt" => a' \in [Index -> 0 .. Largest]
  <2> SUFFICES ASSUME form' # "intt" PROVE a' \in [Index -> 0 .. Largest]
    OBVIOUS
  <2>1. CASE form # "intt"
    BY <1>1, <1>2, <1>3, <2>1, WordsOfStep
  <2>2. CASE form = "intt"
    <3>1. INTTScale
      BY <1>4, <2>2 DEF vars
    <3>2. a' \in [Index -> 0 .. q - 1]
      BY <3>1, InverseWords
    <3>3. 0 .. q - 1 \subseteq 0 .. Largest
      BY <1>1
    <3> QED
      BY <3>2, <3>3
  <2> QED
    BY <2>1, <2>2
<1>8. form' = "coef" /\ ops' > 0 => \A k \in Index : a'[k] <= q
  <2> SUFFICES ASSUME form' = "coef", ops' > 0, NEW k \in Index PROVE a'[k] <= q
    OBVIOUS
  <2>1. \/ INTTScale \/ UNCHANGED vars
        \/ \E r \in 0 .. N \div 2 - 1 : LeftRotShift(r)
    BY DEF Next, BeginNTT, BeginStep4, Step4Rows, NTTLayer, BeginINTT, INTTLayer, INTTScale, On, leftRotAndEqual,
           LeftRotShift, conjugate, conjugateAndEqual, qiAdd, qiNegate, qiMul, qiSquare, mulByMonomial, qiAddConst,
           qiSubConst, qiMulConst
  <2>2. CASE INTTScale
    <3>1. a' \in [Index -> 0 .. q - 1]
      BY <2>2, InverseWords
    <3> QED
      BY <1>1, <3>1
  <2>3. CASE UNCHANGED vars
    BY <1>2, <2>3 DEF vars, WordsAreSmall
  <2>4. ASSUME NEW r \in 0 .. N \div 2 - 1, LeftRotShift(r) PROVE a'[k] <= q
    <3>1. form = "coef"
      BY <2>4 DEF LeftRotShift, On
    <3>2. a' \in [Index -> 0 .. q]
      BY <1>1, <1>3, <2>4, <3>1, LeftRotWords
    <3> QED
      BY <1>1, <3>2
  <2> QED
    BY <2>1, <2>2, <2>3, <2>4
<1>9. a' \in [Index -> 0 .. R - 1]
  <2>1. 0 .. 2 * q - 1 \subseteq 0 .. R - 1 /\ 0 .. Largest \subseteq 0 .. R - 1
    BY <1>1
  <2> QED
    BY <1>6, <1>7, <2>1
<1>10. NttTypeOK'
  BY <1>2, <1>9, PolynomialOfStep, LoopOfStep DEF NttTypeOK
<1>11. WordsAreSmall'
  <2>1. Largest' = Largest
    BY DEF Largest
  <2>2. form' # "intt" => \A k \in Index : a'[k] <= Largest
    BY <1>1, <1>7
  <2>3. form' = "intt" => \A k \in Index : a'[k] < 2 * q
    BY <1>1, <1>6
  <2> QED
    BY <1>8, <2>1, <2>2, <2>3 DEF WordsAreSmall
<1> QED
  BY <1>10, <1>11 DEF NttIInv

\* Every word stays a machine word, every loop within its rows and blocks, and
\* the vector variants only ever meet rows they can transform.
THEOREM TypeCorrect == Spec => []NttTypeOK
<1>1. NttIInv => NttTypeOK
  BY DEF NttIInv
<1> QED
  BY <1>1, InitSmall, StepSmall, PTL DEF Spec

\* For every degree, prime, variant and input: whatever NTT, inverse or operation runs,
\* words are at most q or the largest input, below 2 * q in the inverse and at most q after it.
THEOREM WordsStaySmall == Spec => []WordsAreSmall
<1>1. NttIInv => WordsAreSmall
  BY DEF NttIInv
<1> QED
  BY <1>1, InitSmall, StepSmall, PTL DEF Spec

\* For all of them too: no operation lets a word of a reduced array leave 0 .. q.
THEOREM ReducedWordsStay == Spec => ReducedStaysReduced
<1>1. NttIInv /\ [Next]_vars =>
        [(\A k \in Index : a[k] <= q) /\ "intt" \notin {form, form'} => \A k \in Index : a'[k] <= q]_vars
  <2> SUFFICES ASSUME NttIInv, [Next]_vars, \A k \in Index : a[k] <= q, "intt" \notin {form, form'}
               PROVE  \A k \in Index : a'[k] <= q
    OBVIOUS
  <2>1. NttTypeOK /\ a \in [Index -> 0 .. R - 1] /\ q \in Nat /\ R \in Nat /\ q \in q .. R - q - 1
    BY Sizes DEF NttIInv, NttTypeOK
  <2>2. \A k \in Index : a[k] \in 0 .. q
    BY <2>1
  <2>3. a \in [Index -> 0 .. q]
    BY <2>1, <2>2
  <2>4. a' \in [Index -> 0 .. q]
    BY <2>1, <2>3, WordsOfStep
  <2> QED
    BY <2>1, <2>4
<1> QED
  BY <1>1, InitSmall, StepSmall, PTL DEF Spec, ReducedStaysReduced

-------------------------------------------------------------------------------
(* Remainders *)

\* The terms of a remainder: word y of every block of a row, times the powers of
\* psi to z.
RemainderTerms(x, length, w, g, y, z, b) ==
  [j \in 0 .. b - 1 |-> x[Place(length, w, g, j, y)] * Pow(z * j)]
RemainderSum(x, length, w, g, y, z, b) == SumBelow(RemainderTerms(x, length, w, g, y, z, b), b)

\* The exponent that belongs to block i of Pow2[e] blocks.
Zeta(e, i) == Pow2[LogN - e] * (2 * bitReverse(i, e) + 1)

\* Pow2[e] blocks of w words in a row.
AreBlocksIn(d, e, length, b, w) == length = Pow2[d] /\ b = Pow2[e] /\ w = Pow2[d - e]

LEMMA BlockSizes ==
  ASSUME NEW d \in 0 .. LogN, NEW e \in 0 .. d,
         NEW length \in Int, NEW b \in Int, NEW w \in Int, AreBlocksIn(d, e, length, b, w)
  PROVE  /\ length \in Nat \ {0} /\ b \in Nat \ {0} /\ w \in Nat \ {0} /\ IsMultiple(length, b, w)
         /\ length \div b = w /\ N \div b = Pow2[LogN - e] /\ Pow2[LogN - e] \in Nat \ {0} /\ LogOf(b) = e
         /\ Pow2[LogN - d] \in Nat \ {0} /\ IsMultiple(N, Pow2[LogN - d], length)
<1>1. d \in Nat /\ e \in Nat /\ d - e \in Nat /\ LogN - d \in Nat /\ LogN - e \in Nat /\ e <= d /\ d <= LogN
      /\ e <= LogN /\ LogN \in Nat /\ e \in 0 .. LogN
  BY Sizes
<1>2. length \in Nat \ {0} /\ b \in Nat \ {0} /\ w \in Nat \ {0} /\ Pow2[LogN - d] \in Nat \ {0} /\ Pow2[LogN - e] \in Nat \ {0}
  BY <1>1, Pow2Facts DEF AreBlocksIn
<1>3. Pow2[d] = Pow2[e] * Pow2[d - e] /\ Pow2[d] \div Pow2[e] = Pow2[d - e]
  BY <1>1, Pow2Order
<1>4. Pow2[LogN] = Pow2[d] * Pow2[LogN - d] /\ Pow2[LogN] \div Pow2[e] = Pow2[LogN - e]
  BY <1>1, Pow2Order
<1>5. LogOf(b) = e
  BY <1>1, LogOfPower DEF AreBlocksIn
<1>6. N = Pow2[LogN - d] * length
  BY <1>2, <1>4 DEF N, AreBlocksIn
<1> QED
  BY <1>2, <1>3, <1>4, <1>5, <1>6 DEF IsMultiple, AreBlocksIn, N

\* The terms are numbers, and words of the array.
LEMMA RemainderTermsFacts ==
  ASSUME NEW d \in Int, NEW e \in Int, NEW length \in Int, NEW b \in Int, NEW w \in Int,
         NEW g \in Int, NEW y \in Int, NEW z \in Int, NEW x,
         AreBlocksIn(d, e, length, b, w), d \in 0 .. LogN, e \in 0 .. d, x \in [Index -> Int],
         g \in 0 .. Pow2[LogN - d] - 1, y \in 0 .. w - 1
  PROVE  /\ \A j \in 0 .. b - 1 : /\ Place(length, w, g, j, y) \in Index
                                  /\ x[Place(length, w, g, j, y)] \in Int /\ Pow(z * j) \in Int
                                  /\ RemainderTerms(x, length, w, g, y, z, b)[j] \in Int
         /\ RemainderSum(x, length, w, g, y, z, b) \in Int
<1>1. /\ length \in Nat \ {0} /\ b \in Nat \ {0} /\ w \in Nat \ {0} /\ IsMultiple(length, b, w)
      /\ Pow2[LogN - d] \in Nat \ {0} /\ IsMultiple(N, Pow2[LogN - d], length) /\ N \in Int /\ b \in Nat
  BY BlockSizes, Sizes
<1>2. \A j \in 0 .. b - 1 : /\ Place(length, w, g, j, y) \in Index
                            /\ x[Place(length, w, g, j, y)] \in Int /\ Pow(z * j) \in Int
                            /\ RemainderTerms(x, length, w, g, y, z, b)[j] \in Int
  <2> TAKE j \in 0 .. b - 1
  <2>1. Place(length, w, g, j, y) \in 0 .. N - 1
    BY <1>1, PlaceFacts
  <2>2. x[Place(length, w, g, j, y)] \in Int
    BY <2>1 DEF Index
  <2>3. z * j \in Int
    BY <1>1
  <2>4. Pow(z * j) \in Int
    BY <2>3, PowRange
  <2> DEFINE c == x[Place(length, w, g, j, y)]
             p == Pow(z * j)
  <2>5. RemainderTerms(x, length, w, g, y, z, b)[j] = c * p
    BY DEF RemainderTerms
  <2>6. c \in Int /\ p \in Int
    BY <2>2, <2>4
  <2> HIDE DEF c, p
  <2>7. c * p \in Int
    BY <2>6
  <2> QED
    BY <2>1, <2>2, <2>4, <2>5, <2>7 DEF Index
<1> QED
  BY <1>1, <1>2, BelowIsNumber DEF RemainderSum

LEMMA RemainderAt ==
  ASSUME NEW d \in Int, NEW e \in Int, NEW length \in Int, NEW b \in Int, NEW w \in Int,
         NEW g \in Int, NEW i \in Int, NEW y \in Int, NEW x,
         AreBlocksIn(d, e, length, b, w), d \in 0 .. LogN, e \in 0 .. d, x \in [Index -> Int],
         g \in 0 .. Pow2[LogN - d] - 1, i \in 0 .. b - 1, y \in 0 .. w - 1
  PROVE  /\ Place(length, w, g, i, y) \in Index
         /\ Zeta(e, i) \in Int /\ RemainderSum(x, length, w, g, y, Zeta(e, i), b) \in Int
         /\ Remainder(x, length, b)[Place(length, w, g, i, y)] = Mod(RemainderSum(x, length, w, g, y, Zeta(e, i), b))
<1> DEFINE k == Place(length, w, g, i, y)
           z == Zeta(e, i)
<1>1. /\ length \in Nat \ {0} /\ b \in Nat \ {0} /\ w \in Nat \ {0} /\ IsMultiple(length, b, w)
      /\ Pow2[LogN - d] \in Nat \ {0} /\ IsMultiple(N, Pow2[LogN - d], length) /\ N \in Int /\ b \in Nat
      /\ length \div b = w /\ N \div b = Pow2[LogN - e] /\ Pow2[LogN - e] \in Nat \ {0} /\ LogOf(b) = e /\ e \in Nat
  BY BlockSizes, Sizes
<1>2. k \in Index /\ k % length = At(i, w, y) /\ At(i, w, y) % w = y /\ At(i, w, y) \div w = i
  <2>1. Place(length, w, g, i, y) \in 0 .. N - 1
    BY <1>1, PlaceFacts
  <2>2. g \in Nat
    BY <1>1
  <2>3. Place(length, w, g, i, y) % length = At(i, w, y) /\ At(i, w, y) % w = y /\ At(i, w, y) \div w = i
    BY <1>1, <2>2, PlaceParts
  <2> QED
    BY <2>1, <2>3 DEF Index
<1>3. z \in Int
  <2>1. bitReverse(i, e) \in Nat
    <3>0. i \in Nat
      BY <1>1
    <3>1. bitReverse(i, e) \in 0 .. Pow2[e] - 1 /\ Pow2[e] \in Nat
      BY <1>1, <3>0, ReverseRange, Pow2Facts
    <3> QED
      BY <3>1
  <2>2. 2 * bitReverse(i, e) + 1 \in Int
    BY <2>1
  <2> QED
    BY <1>1, <2>2 DEF Zeta
<1>4. Remainder(x, length, b)[k] =
        SumBelow([j \in 0 .. b - 1 |-> x[(k - At(i, w, y)) + y + j * w] * power[(z * j) % M]], b) % q
  BY <1>1, <1>2 DEF Remainder, Zeta
<1>5. \A j \in 0 .. b - 1 : (k - At(i, w, y)) + y + j * w = Place(length, w, g, j, y)
  <2> TAKE j \in 0 .. b - 1
  <2>1. g * length \in Int /\ i * w \in Int /\ j * w \in Int
    BY <1>1
  <2> QED
    BY <1>1, <2>1 DEF Place, At
<1> HIDE DEF k, z
<1>6. [j \in 0 .. b - 1 |-> x[(k - At(i, w, y)) + y + j * w] * power[(z * j) % M]]
        = RemainderTerms(x, length, w, g, y, z, b)
  BY <1>5 DEF RemainderTerms, Pow
<1>7. RemainderSum(x, length, w, g, y, z, b) \in Int
  BY <1>3, RemainderTermsFacts
<1> QED
  BY <1>2, <1>3, <1>4, <1>6, <1>7 DEF k, z, Mod, RemainderSum

\* The exponents of the two halves of a block.
LEMMA ZetaSplits ==
  ASSUME NEW e \in 0 .. LogN - 1, NEW i \in 0 .. Pow2[e] - 1, NEW s \in 0 .. 1
  PROVE  /\ Zeta(e, i) \in Int /\ Zeta(e + 1, 2 * i + s) \in Int /\ Zeta(e + 1, 2 * i) \in Int
         /\ 2 * i + s \in 0 .. Pow2[e + 1] - 1
         /\ Congruent(2 * Zeta(e + 1, 2 * i + s), Zeta(e, i), M)
         /\ Zeta(e + 1, 2 * i + s) = Zeta(e + 1, 2 * i) + s * N
         /\ Zeta(e + 1, 2 * i) = Pow2[LogN - (e + 1)] * (2 * bitReverse(i, e) + 1)
<1> DEFINE p == Pow2[e]
           c == Pow2[LogN - (e + 1)]
           v == bitReverse(i, e)
<1>1. /\ LogN \in Nat /\ e \in Nat /\ e + 1 \in Nat /\ LogN - (e + 1) \in Nat /\ LogN - e = (LogN - (e + 1)) + 1
      /\ e <= LogN /\ M = 2 * N /\ N \in Int
  BY Sizes
<1>2. p \in Nat \ {0} /\ c \in Nat \ {0} /\ Pow2[LogN - e] = 2 * c /\ Pow2[e + 1] = 2 * p
  BY <1>1, Pow2Facts
<1>3. N = p * (2 * c)
  BY <1>1, <1>2, Pow2Order DEF N
<1>4. v \in Int /\ i \in Nat /\ i <= p - 1
  <2>1. i \in Nat
    BY <1>2
  <2>2. v \in 0 .. Pow2[e] - 1
    BY <1>1, <2>1, ReverseRange
  <2> QED
    BY <1>2, <2>1, <2>2
<1>5. bitReverse(2 * i + s, e + 1) = s * p + v /\ bitReverse(2 * i, e + 1) = v
  <2>1. \A h \in 0 .. 1 : bitReverse(2 * i + h, e + 1) = h * p + v
    BY <1>1, <1>4, ReverseStep
  <2>2. bitReverse(2 * i + 0, e + 1) = 0 * p + v
    BY <2>1
  <2>3. 2 * i + 0 = 2 * i /\ 0 * p + v = v
    BY <1>2, <1>4
  <2> QED
    BY <2>1, <2>2, <2>3
<1>6. /\ Zeta(e, i) = (2 * c) * (2 * v + 1) /\ Zeta(e + 1, 2 * i + s) = c * (2 * (s * p + v) + 1)
      /\ Zeta(e + 1, 2 * i) = c * (2 * v + 1)
  BY <1>2, <1>5 DEF Zeta
<1> HIDE DEF p, c, v
<1>7. /\ (2 * c) * (2 * v + 1) \in Int /\ c * (2 * (s * p + v) + 1) \in Int /\ c * (2 * v + 1) \in Int
      /\ c * (2 * (s * p + v) + 1) = c * (2 * v + 1) + s * (p * (2 * c))
  <2>1. CASE s = 0
    <3>1. s * p + v = v /\ s * (p * (2 * c)) = 0
      BY <1>2, <1>4, <2>1
    <3> QED
      BY <1>2, <1>4, <3>1
  <2>2. CASE s = 1
    <3>1. s * p + v = p + v /\ s * (p * (2 * c)) = p * (2 * c)
      BY <1>2, <1>4, <2>2
    <3>2. c * (2 * (p + v) + 1) = c * (2 * v + 1) + p * (2 * c)
      BY <1>2, <1>4
    <3>3. (2 * c) * (2 * v + 1) \in Int /\ c * (2 * (p + v) + 1) \in Int /\ c * (2 * v + 1) \in Int
      BY <1>2, <1>4
    <3> QED
      BY <3>1, <3>2, <3>3
  <2> QED
    BY <2>1, <2>2
<1>8. Zeta(e + 1, 2 * i + s) = Zeta(e + 1, 2 * i) + s * N
  BY <1>3, <1>6, <1>7
<1>9. Congruent(2 * Zeta(e + 1, 2 * i + s), Zeta(e, i), M)
  <2> DEFINE z == c * (2 * v + 1)
             y == s * N
  <2>1. z \in Int /\ y \in Int /\ (2 * c) * (2 * v + 1) = 2 * z /\ M * s = 2 * y /\ s \in Int
    <3>1. s \in Int
      OBVIOUS
    <3> QED
      BY <1>1, <1>2, <1>4, <3>1
  <2>2. 2 * Zeta(e + 1, 2 * i + s) - Zeta(e, i) = 2 * (z + y) - 2 * z
    BY <1>6, <1>8, <2>1
  <2> HIDE DEF z, y
  <2>3. 2 * (z + y) - 2 * z = M * s
    BY <2>1
  <2> QED
    BY <2>1, <2>2, <2>3 DEF Congruent, Divides
<1>10. 2 * i + s \in 0 .. Pow2[e + 1] - 1
  BY <1>2, <1>4
<1> QED
  BY <1>6, <1>7, <1>8, <1>9, <1>10 DEF c, v

\* A remainder modulo X^t - u, from the one modulo X^(2 * t) - z, where z is u * u.
AreHalves(e, i, s, z, u) == z = Zeta(e, i) /\ u = Zeta(e + 1, 2 * i + s)
AreDoubled(b, t, y, c, w, v) == c = 2 * b /\ w = 2 * t /\ v = y + t

LEMMA SumSplits ==
  ASSUME NEW d \in Int, NEW e \in Int, NEW length \in Int, NEW b \in Int, NEW t \in Int, NEW w \in Int, NEW c \in Int,
         NEW g \in Int, NEW i \in Int, NEW y \in Int, NEW s \in Int, NEW v \in Int,
         NEW z, NEW u, NEW x,
         AreLayer(d, e, length, b, t), AreDoubled(b, t, y, c, w, v), AreHalves(e, i, s, z, u),
         d \in 0 .. LogN, e \in 0 .. d - 1, x \in [Index -> Int],
         g \in 0 .. Pow2[LogN - d] - 1, i \in 0 .. b - 1, y \in 0 .. t - 1, s \in 0 .. 1
  PROVE  Mod(RemainderSum(x, length, t, g, y, u, c))
           = Mod(RemainderSum(x, length, w, g, y, z, b) + Pow(u) * RemainderSum(x, length, w, g, v, z, b))
<1>0. w = 2 * t /\ c = 2 * b /\ v = y + t
  BY DEF AreDoubled
<1> USE <1>0
<1> DEFINE f == RemainderTerms(x, length, t, g, y, u, c)
           f1 == RemainderTerms(x, length, w, g, y, z, b)
           f2 == RemainderTerms(x, length, w, g, y + t, z, b)
           P == Pow(u)
           F == [j \in 0 .. b - 1 |-> SumBelow([h \in 0 .. 2 - 1 |-> f[j * 2 + h]], 2)]
           H == [j \in 0 .. b - 1 |-> 1 * f1[j] + P * f2[j]]
<1>1. /\ e \in Nat /\ d \in Nat /\ e + 1 \in Nat /\ d - e - 1 \in Nat /\ e \in 0 .. LogN - 1 /\ e \in 0 .. d /\ e + 1 \in 0 .. d
      /\ d - (e + 1) = d - e - 1 /\ d - e = (d - e - 1) + 1 /\ LogN - d \in Nat
  BY Sizes
<1>2. t \in Nat \ {0} /\ b \in Nat \ {0} /\ length = Pow2[d] /\ b = Pow2[e] /\ t = Pow2[d - e - 1]
      /\ Pow2[e + 1] = c /\ Pow2[d - e] = w /\ length \in Int /\ Pow2[LogN - d] \in Nat /\ length \in Nat
  BY <1>1, Pow2Facts DEF AreLayer
<1>3. AreBlocksIn(d, e, length, b, w) /\ AreBlocksIn(d, e + 1, length, c, t) /\ w \in Int /\ c \in Int
      /\ y \in 0 .. w - 1 /\ y + t \in 0 .. w - 1
  BY <1>1, <1>2 DEF AreBlocksIn
<1>4. z \in Int /\ u \in Int /\ Congruent(2 * u, z, M)
  BY <1>1, <1>2, ZetaSplits DEF AreHalves
<1>5. /\ \A j \in 0 .. c - 1 : /\ f[j] \in Int /\ Place(length, t, g, j, y) \in Index
                               /\ x[Place(length, t, g, j, y)] \in Int
      /\ SumBelow(f, c) \in Int
  <2> HIDE DEF f
  <2>1. e + 1 \in 0 .. d /\ AreBlocksIn(d, e + 1, length, c, t)
    BY <1>1, <1>3
  <2> DEFINE ee == e + 1
  <2> HIDE DEF ee
  <2>2. ee \in 0 .. d /\ AreBlocksIn(d, ee, length, c, t)
    BY <2>1 DEF ee
  <2> QED
    BY <1>3, <1>4, <2>2, RemainderTermsFacts DEF RemainderSum, f
<1>6. \A j \in 0 .. b - 1 : f1[j] \in Int /\ f2[j] \in Int /\ Pow(z * j) \in Int
  BY <1>1, <1>3, <1>4, RemainderTermsFacts
<1>7. P \in Int
  BY <1>4, PowRange
<1> HIDE DEF P
<1>8. ASSUME NEW j \in 0 .. b - 1
      PROVE  /\ f[j * 2] = f1[j] /\ Mod(f[j * 2 + 1]) = Mod(P * f2[j])
             /\ j * 2 \in 0 .. c - 1 /\ j * 2 + 1 \in 0 .. c - 1
  <2>1. j * 2 \in 0 .. c - 1 /\ j * 2 + 1 \in 0 .. c - 1 /\ j \in Int
    BY <1>2
  <2>2. Place(length, t, g, j * 2, y) = Place(length, w, g, j, y) /\ Place(length, t, g, j * 2 + 1, y) = Place(length, w, g, j, y + t)
    <3> DEFINE r == g * length
               h == j * t
    <3>1. r \in Int /\ h \in Int /\ y \in Int /\ t \in Int
      BY <1>2, <2>1
    <3>2. (j * 2) * t = 2 * h /\ (j * 2 + 1) * t = 2 * h + t /\ j * w = 2 * h
      BY <1>2, <2>1
    <3> HIDE DEF h, r
    <3>3. r + (2 * h + t + y) = r + (2 * h + (y + t))
      BY <3>1
    <3> QED
      BY <3>2, <3>3 DEF Place, At, r
  <2>3. Pow(u * (j * 2)) = Pow(z * j)
    <3>1. Congruent((2 * u) * j, z * j, M)
      <4>1. Congruent(j, j, M) /\ M \in Int /\ 2 * u \in Int
        BY <1>4, <2>1, CongruenceIsEquivalence, Sizes
      <4> DEFINE k == 2 * u
      <4> HIDE DEF k
      <4>2. k \in Int /\ Congruent(k, z, M)
        BY <1>4, <4>1 DEF k
      <4>3. Congruent(k * j, z * j, M)
        BY <1>4, <2>1, <4>1, <4>2, CongruentOperations
      <4> QED
        BY <4>3 DEF k
    <3>2. (2 * u) * j = u * (j * 2) /\ u * (j * 2) \in Int /\ z * j \in Int
      BY <1>4, <2>1
    <3> QED
      BY <3>1, <3>2, PowSame
  <2>4. Mod(Pow(u * (j * 2 + 1))) = Mod(Pow(z * j) * P)
    <3>1. u * (j * 2 + 1) = u * (j * 2) + u /\ u * (j * 2) \in Int
      BY <1>4, <2>1
    <3>2. Mod(Pow(u * (j * 2) + u)) = Mod(Pow(u * (j * 2)) * Pow(u))
      BY <1>4, <3>1, PowSum
    <3> QED
      BY <2>3, <3>1, <3>2 DEF P
  <2>5. f[j * 2] = f1[j]
    BY <2>1, <2>2, <2>3 DEF RemainderTerms
  <2>6. Mod(f[j * 2 + 1]) = Mod(P * f2[j])
    <3> DEFINE X == x[Place(length, w, g, j, y + t)]
               A == Pow(u * (j * 2 + 1))
               B == Pow(z * j)
    <3>1. f[j * 2 + 1] = X * A /\ f2[j] = X * B
      BY <2>1, <2>2 DEF RemainderTerms
    <3>2. X \in Int
      BY <1>5, <2>1, <2>2
    <3>3. A \in Int /\ B \in Int
      <4>1. u * (j * 2 + 1) \in Int /\ z * j \in Int
        BY <1>4, <2>1
      <4> QED
        BY <4>1, PowRange
    <3>4. Mod(A) = Mod(B * P)
      BY <2>4
    <3> HIDE DEF X, A, B, f, f2
    <3> DEFINE D == B * P
    <3>5. D \in Int
      BY <1>7, <3>3
    <3>6. P * (X * B) = X * D
      BY <1>7, <3>2, <3>3
    <3> HIDE DEF D
    <3>7. Mod(A) = Mod(D) /\ Mod(X) \in Int
      BY <3>2, <3>4, ModRange DEF D
    <3>8. Mod(X * A) = Mod(X * D)
      BY <3>2, <3>3, <3>5, <3>7, ModTimes
    <3> QED
      BY <3>1, <3>6, <3>8
  <2> QED
    BY <2>1, <2>5, <2>6
<1>9. SumBelow(f, b * 2) = SumBelow(F, b)
  <2>1. \A k \in 0 .. b * 2 - 1 : f[k] \in Int
    BY <1>2, <1>5
  <2> HIDE DEF f
  <2>2. b \in Nat /\ 2 \in Nat
    BY <1>2
  <2> QED
    BY <2>1, <2>2, BelowSplit
<1> HIDE DEF f, f1, f2
<1>10. ASSUME NEW j \in 0 .. b - 1 PROVE F[j] \in Int /\ H[j] \in Int /\ Mod(F[j]) = Mod(H[j])
  <2> DEFINE h2 == [h \in 0 .. 2 - 1 |-> f[j * 2 + h]]
  <2>1. F[j] = SumBelow(h2, 2) /\ h2[0] = f[j * 2] /\ h2[1] = f[j * 2 + 1]
    <3>1. j * 2 + 0 = j * 2
      OBVIOUS
    <3> QED
      BY <3>1
  <2> HIDE DEF h2, F
  <2>2. SumBelow(h2, 0) = 0 /\ SumBelow(h2, 0 + 1) = SumBelow(h2, 0) + h2[0] /\ SumBelow(h2, 1 + 1) = SumBelow(h2, 1) + h2[1]
    BY BelowSteps
  <2>3. f[j * 2] \in Int /\ f[j * 2 + 1] \in Int
    BY <1>5, <1>8
  <2>4. F[j] = f[j * 2] + f[j * 2 + 1]
    BY <2>1, <2>2, <2>3
  <2> DEFINE A == f[j * 2]
             B == f[j * 2 + 1]
             D == P * f2[j]
  <2>5. A \in Int /\ B \in Int /\ Mod(B) = Mod(D) /\ A = f1[j]
    BY <1>8, <2>3
  <2>6. D \in Int
    BY <1>6, <1>7
  <2>7. H[j] = 1 * A + D
    BY <2>5
  <2> HIDE DEF A, B, D, H
  <2>8. Mod(A) \in Int
    BY <2>5, ModRange
  <2>9. Mod(A + B) = Mod(A + D)
    BY <2>5, <2>6, <2>8, ModTimes
  <2>10. F[j] = A + B /\ H[j] = A + D
    BY <2>4, <2>5, <2>6, <2>7 DEF A, B
  <2> QED
    BY <2>5, <2>6, <2>9, <2>10
<1>11. Mod(SumBelow(F, b)) = Mod(SumBelow(H, b))
  <2> HIDE DEF F, H
  <2>1. b \in Nat
    BY <1>2
  <2> QED
    BY <1>10, <2>1, ModSum
<1>12. SumBelow(H, b) = 1 * SumBelow(f1, b) + P * SumBelow(f2, b)
  <2>1. AreCombined(H, 1, f1, P, f2, b)
    BY <1>6 DEF AreCombined
  <2> HIDE DEF H
  <2> QED
    BY <1>2, <1>7, <2>1, BelowLinear
<1>13. SumBelow(f1, b) \in Int
  BY <1>2, <1>6, BelowIsNumber
<1>14. SumBelow(H, b) = SumBelow(f1, b) + P * SumBelow(f2, b)
  <2>1. SumBelow(f2, b) \in Int
    BY <1>2, <1>6, BelowIsNumber
  <2>2. P * SumBelow(f2, b) \in Int
    BY <1>7, <2>1
  <2> HIDE DEF H
  <2> QED
    BY <1>12, <1>13, <2>2
<1>15. b * 2 = c
  BY <1>2
<1> QED
  BY <1>9, <1>11, <1>14, <1>15 DEF RemainderSum, f, f1, f2, P

\* The root of a butterfly is the power the two halves of its block are apart by.
LEMMA TwiddleIsPower ==
  ASSUME NEW d \in Int, NEW e \in Int, NEW length \in Int, NEW b \in Int, NEW t \in Int, NEW k,
         AreLayer(d, e, length, b, t), d \in 0 .. LogN, Pow2[d] \in RowLengths, e \in 0 .. d - 1, k \in Index
  PROVE  Twiddle(length, b, t, k) = Pow(Zeta(e + 1, 2 * ((k % length) \div (2 * t))))
<1> DEFINE i == (k % length) \div (2 * t)
           c == d - e - 1
           f == e + 1
<1>1. /\ d \in Nat /\ e \in Nat /\ f \in Nat /\ c \in Nat /\ c + f = d /\ e \in 0 .. LogN - 1
      /\ LogN - f = (LogN - d) + c /\ LogN - d \in Nat /\ LogN - f \in Nat
  BY Sizes
<1>2. i \in 0 .. b - 1 /\ b + i \in 0 .. Pow2[d] - 1
  BY TwiddleFacts
<1>3. b = Pow2[e] /\ length = Pow2[d] /\ b \in Nat \ {0}
  BY <1>1, Pow2Facts DEF AreLayer
<1> HIDE DEF i
<1>4. i \in 0 .. Pow2[e] - 1 /\ i \in Nat
  BY <1>2, <1>3
<1>5. bitReverse(b + i, f) = 1 + 2 * bitReverse(i, e)
  <2>1. \A s \in 0 .. 1 : bitReverse(s * Pow2[e] + i, e + 1) = s + 2 * bitReverse(i, e)
    BY <1>1, <1>4, ReverseHigh
  <2>2. bitReverse(1 * Pow2[e] + i, e + 1) = 1 + 2 * bitReverse(i, e)
    BY <2>1
  <2>3. 1 * Pow2[e] + i = b + i
    BY <1>3, <1>4
  <2> QED
    BY <2>2, <2>3
<1>6. b + i \in 0 .. Pow2[f] - 1
  <2>1. Pow2[f] = 2 * Pow2[e]
    BY <1>1, Pow2Facts
  <2> QED
    BY <1>3, <1>4, <2>1
<1> HIDE DEF c, f
<1>7. bitReverse(b + i, d) = Pow2[c] * bitReverse(b + i, f)
  <2> DEFINE z == 0
             n == b + i
  <2>1. z \in Nat
    OBVIOUS
  <2>2. n \in 0 .. Pow2[f] - 1
    BY <1>6
  <2> HIDE DEF z, n
  <2>3. bitReverse(z * Pow2[f] + n, c + f) = bitReverse(z, c) + Pow2[c] * bitReverse(n, f)
    BY <1>1, <2>1, <2>2, ReverseJoined
  <2>4. bitReverse(z, c) = 0
    <3>1. z = 0
      BY DEF z
    <3>2. bitReverse(0, c) \in 0 .. Pow2[c] - 1
      BY <1>1, ReverseRange
    <3>3. \A h \in 0 .. c - 1 : ((0 \div Pow2[h]) % 2) * Pow2[c - 1 - h] = 0
      <4> TAKE h \in 0 .. c - 1
      <4>1. Pow2[h] \in Nat \ {0} /\ Pow2[c - 1 - h] \in Nat
        <5>1. h \in Nat /\ c - 1 - h \in Nat
          BY <1>1
        <5> QED
          BY <5>1, Pow2Facts
      <4> DEFINE P == Pow2[h]
      <4> HIDE DEF P
      <4>2. 0 \div P = 0
        BY <4>1 DEF P
      <4>3. (0 \div Pow2[h]) % 2 = 0
        BY <4>2 DEF P
      <4> QED
        BY <4>1, <4>3
    <3>4. SumBelow([h \in 0 .. c - 1 |-> ((0 \div Pow2[h]) % 2) * Pow2[c - 1 - h]], c) = 0
      <4> DEFINE g0 == [h \in 0 .. c - 1 |-> ((0 \div Pow2[h]) % 2) * Pow2[c - 1 - h]]
      <4>1. \A h \in 0 .. c - 1 : g0[h] = 0 * 0
        BY <3>3
      <4> HIDE DEF g0
      <4> DEFINE g1 == [h \in 0 .. c - 1 |-> 0]
      <4>2. \A h \in 0 .. c - 1 : g1[h] \in Int /\ g0[h] = 0 * g1[h]
        BY <4>1
      <4> HIDE DEF g1
      <4>3. SumBelow(g1, c) \in Int /\ SumBelow(g0, c) = 0 * SumBelow(g1, c)
        BY <1>1, <4>2, BelowTimes
      <4>4. SumBelow(g0, c) = 0
        BY <4>3
      <4> QED
        BY <4>4 DEF g0
    <3> QED
      BY <3>1, <3>4 DEF bitReverse
  <2>5. z * Pow2[f] + n = n
    <3>1. Pow2[f] \in Int /\ n \in Int /\ z = 0
      BY <1>1, <2>2, Pow2Facts DEF z
    <3> QED
      BY <3>1
  <2>6. bitReverse(n, f) \in Int /\ Pow2[c] \in Int
    <3>1. n \in Nat
      BY <2>2
    <3>2. bitReverse(n, f) \in 0 .. Pow2[f] - 1
      BY <1>1, <3>1, ReverseRange
    <3>3. Pow2[f] \in Int /\ Pow2[c] \in Int
      BY <1>1, Pow2Facts
    <3> QED
      BY <3>2, <3>3
  <2>7. Pow2[c] * bitReverse(n, f) \in Int
    BY <2>6
  <2> QED
    BY <1>1, <2>3, <2>4, <2>5, <2>7 DEF n
<1>8. RootPows[Pow2[d]][b + i] = Pow(Pow2[LogN - d] * bitReverse(b + i, d))
  BY <1>2, RootPowsFacts
<1>9. Pow2[LogN - d] * bitReverse(b + i, d) = Zeta(f, 2 * i)
  <2>1. Pow2[LogN - f] = Pow2[LogN - d] * Pow2[c]
    BY <1>1, Pow2Sum
  <2>2. Zeta(e + 1, 2 * i) = Pow2[LogN - (e + 1)] * (2 * bitReverse(i, e) + 1)
    <3>1. \A s \in 0 .. 1 : Zeta(e + 1, 2 * i) = Pow2[LogN - (e + 1)] * (2 * bitReverse(i, e) + 1)
      BY <1>1, <1>4, ZetaSplits
    <3> QED
      BY <3>1
  <2>3. bitReverse(b + i, d) = Pow2[c] * (1 + 2 * bitReverse(i, e))
    BY <1>5, <1>7
  <2> DEFINE v == bitReverse(i, e)
             x == Pow2[LogN - d]
             y == Pow2[c]
  <2>4. v \in Int /\ x \in Int /\ y \in Int
    <3>1. v \in 0 .. Pow2[e] - 1
      BY <1>1, <1>4, ReverseRange
    <3>2. Pow2[e] \in Int
      BY <1>1, Pow2Facts
    <3> QED
      BY <1>1, <3>1, <3>2, Pow2Facts
  <2> HIDE DEF v, x, y
  <2>5. x * (y * (1 + 2 * v)) = (x * y) * (2 * v + 1)
    BY <2>4
  <2> QED
    BY <2>1, <2>2, <2>3, <2>5 DEF v, x, y, f
<1> QED
  BY <1>3, <1>8, <1>9 DEF Twiddle, i, f, AreLayer

\* A layer takes the remainders for b blocks to those for 2 * b.
SplitsAt(x, length, b, t, k) ==
  /\ Remainder(x, length, b)[k] \in 0 .. q - 1 /\ Remainder(x, length, 2 * b)[k] \in 0 .. q - 1
  /\ k % length \in Lower(length, t) =>
       /\ k + t \in Index /\ Remainder(x, length, b)[k + t] \in Int
       /\ Remainder(x, length, 2 * b)[k]
            = Mod(Remainder(x, length, b)[k] + Remainder(x, length, b)[k + t] * Twiddle(length, b, t, k))
  /\ k % length \notin Lower(length, t) =>
       /\ k - t \in Index /\ Remainder(x, length, b)[k - t] \in Int
       /\ Remainder(x, length, 2 * b)[k]
            = Mod(Remainder(x, length, b)[k - t] - Remainder(x, length, b)[k] * Twiddle(length, b, t, k))

LEMMA LayerSplits ==
  ASSUME NEW d \in Int, NEW e \in Int, NEW length \in Int, NEW b \in Int, NEW t \in Int, NEW x, NEW k,
         AreLayer(d, e, length, b, t), d \in 0 .. LogN, Pow2[d] \in RowLengths, e \in 0 .. d - 1,
         x \in [Index -> Int], k \in Index
  PROVE  SplitsAt(x, length, b, t, k)
<1> DEFINE w == 2 * t
           c == 2 * b
           n == Pow2[LogN - d]
           f == e + 1
<1>1. /\ e \in Nat /\ d \in Nat /\ f \in Nat /\ d - e - 1 \in Nat /\ e \in 0 .. LogN - 1 /\ e \in 0 .. d /\ f \in 0 .. d
      /\ d - f = d - e - 1 /\ d - e = (d - e - 1) + 1 /\ LogN - d \in Nat /\ N \in Int
  BY Sizes
<1>2. t \in Nat \ {0} /\ b \in Nat \ {0} /\ length = Pow2[d] /\ b = Pow2[e] /\ t = Pow2[d - e - 1]
      /\ Pow2[f] = c /\ Pow2[d - e] = w /\ length \in Int /\ n \in Nat \ {0} /\ length \in Nat \ {0}
      /\ w \in Nat \ {0} /\ w = 2 * t /\ b \in Nat
  BY <1>1, Pow2Facts DEF AreLayer
<1>3. AreBlocksIn(d, e, length, b, w) /\ AreBlocksIn(d, f, length, c, t) /\ w \in Int /\ c \in Int /\ c = 2 * b
  BY <1>1, <1>2 DEF AreBlocksIn
<1> HIDE DEF w, c, f, n
<1>4. /\ IsMultiple(N, n, length) /\ IsMultiple(length, b, w)
      /\ n \in Nat \ {0} /\ b \in Nat \ {0} /\ w \in Nat \ {0} /\ N \in Int /\ length \in Int
  <2>1. IsMultiple(length, b, w) /\ IsMultiple(N, n, length)
    <3>1. IsMultiple(length, b, w)
      BY <1>1, <1>3, BlockSizes
    <3>2. IsMultiple(N, n, length)
      BY <1>1, <1>3, BlockSizes DEF n
    <3> QED
      BY <3>1, <3>2
  <2> QED
    BY <1>1, <1>2, <2>1
<1>5. PICK g \in 0 .. n - 1, i \in 0 .. b - 1, y \in 0 .. w - 1 : k = Place(length, w, g, i, y)
  <2>1. k \in 0 .. N - 1
    BY DEF Index
  <2> QED
    BY <1>4, <2>1, EveryPlace
<1>6. g \in Nat /\ i \in Nat /\ y \in Nat
  BY <1>2
<1>7. k % length = At(i, w, y) /\ At(i, w, y) % w = y /\ At(i, w, y) \div w = i /\ At(i, w, y) \in 0 .. length - 1
  <2>1. Place(length, w, g, i, y) % length = At(i, w, y) /\ At(i, w, y) % w = y /\ At(i, w, y) \div w = i
        /\ At(i, w, y) \in 0 .. length - 1
    BY <1>4, <1>6, PlaceParts
  <2> QED
    BY <1>5, <2>1
<1>8. k % length \in Lower(length, t) <=> y < t
  BY <1>2, <1>7 DEF Lower
<1> DEFINE W == Twiddle(length, b, t, k)
           z == Zeta(e, i)
           S(h) == RemainderSum(x, length, w, g, h, z, b)
           Z(s) == Zeta(f, 2 * i + s)
           T(h, s) == RemainderSum(x, length, t, g, h, Z(s), c)
<1>9. Z(0) \in Int /\ W = Pow(Z(0)) /\ Z(1) = Z(0) + N /\ Z(1) \in Int /\ W \in Int
  <2>1. \A s \in 0 .. 1 : /\ Zeta(f, 2 * i + s) \in Int /\ Zeta(f, 2 * i) \in Int
                          /\ Zeta(f, 2 * i + s) = Zeta(f, 2 * i) + s * N
    BY <1>1, <1>2, ZetaSplits DEF f
  <2>2. (k % length) \div (2 * t) = i
    BY <1>2, <1>7
  <2>3. W = Pow(Zeta(f, 2 * i))
    <3>1. W = Pow(Zeta(e + 1, 2 * ((k % length) \div (2 * t))))
      BY TwiddleIsPower
    <3> QED
      BY <2>2, <3>1 DEF f
  <2>4. Zeta(f, 2 * i + 1) = Zeta(f, 2 * i) + 1 * N /\ Zeta(f, 2 * i + 1) \in Int
    BY <2>1
  <2>5. 2 * i + 0 = 2 * i
    BY <1>6
  <2>6. Zeta(f, 2 * i) \in Int
    BY <2>1
  <2> HIDE DEF W
  <2>7. W \in Int
    BY <2>3, <2>6, PowRange
  <2> QED
    BY <1>1, <2>3, <2>4, <2>5, <2>6, <2>7
<1>10. Mod(Pow(Z(1))) = Mod(0 - W) /\ Pow(Z(1)) \in Int
  BY <1>9, PowHalf, PowRange
<1>11. \A h \in 0 .. w - 1 : \A j \in 0 .. b - 1 :
         /\ Place(length, w, g, j, h) \in Index
         /\ RemainderSum(x, length, w, g, h, Zeta(e, j), b) \in Int
         /\ Remainder(x, length, b)[Place(length, w, g, j, h)] = Mod(RemainderSum(x, length, w, g, h, Zeta(e, j), b))
  <2> TAKE h \in 0 .. w - 1
  <2> TAKE j \in 0 .. b - 1
  <2>1. g \in 0 .. Pow2[LogN - d] - 1 /\ e \in 0 .. d /\ w \in Int /\ AreBlocksIn(d, e, length, b, w)
    BY <1>1, <1>3 DEF n
  <2> QED
    BY <2>1, RemainderAt
<1>12. \A h \in 0 .. t - 1 : \A j \in 0 .. c - 1 :
         /\ Place(length, t, g, j, h) \in Index
         /\ RemainderSum(x, length, t, g, h, Zeta(f, j), c) \in Int
         /\ Remainder(x, length, c)[Place(length, t, g, j, h)] = Mod(RemainderSum(x, length, t, g, h, Zeta(f, j), c))
  <2> TAKE h \in 0 .. t - 1
  <2> TAKE j \in 0 .. c - 1
  <2>1. g \in 0 .. Pow2[LogN - d] - 1 /\ f \in 0 .. d /\ c \in Int /\ AreBlocksIn(d, f, length, c, t)
    BY <1>1, <1>3 DEF n
  <2> QED
    BY <2>1, RemainderAt
<1>13. \A h \in 0 .. t - 1 : \A s \in 0 .. 1 :
         /\ T(h, s) \in Int /\ Remainder(x, length, c)[Place(length, t, g, 2 * i + s, h)] = Mod(T(h, s))
         /\ Mod(T(h, s)) = Mod(S(h) + Pow(Z(s)) * S(h + t)) /\ S(h) \in Int /\ S(h + t) \in Int
         /\ Place(length, t, g, 2 * i + s, h) = Place(length, w, g, i, h + s * t)
  <2> TAKE h \in 0 .. t - 1
  <2> TAKE s \in 0 .. 1
  <2>1. 2 * i + s \in 0 .. c - 1 /\ h \in 0 .. w - 1 /\ h + t \in 0 .. w - 1
    BY <1>2, <1>3
  <2>2. T(h, s) \in Int /\ Remainder(x, length, c)[Place(length, t, g, 2 * i + s, h)] = Mod(T(h, s))
    BY <1>12, <2>1
  <2>3. S(h) \in Int /\ S(h + t) \in Int
    BY <1>11, <2>1
  <2>4. Mod(T(h, s)) = Mod(S(h) + Pow(Z(s)) * S(h + t))
    <3>1. g \in 0 .. Pow2[LogN - d] - 1 /\ i \in 0 .. b - 1 /\ h \in 0 .. t - 1 /\ s \in 0 .. 1
      BY DEF n
    <3> DEFINE u == Z(s)
    <3> DEFINE v == h + t
    <3>2. AreHalves(e, i, s, z, u) /\ AreDoubled(b, t, h, c, w, v) /\ v \in Int /\ h \in Int /\ w \in Int /\ c \in Int
      BY <1>2, <1>3 DEF AreHalves, AreDoubled, f
    <3> HIDE DEF u, z, v
    <3>3. Mod(RemainderSum(x, length, t, g, h, u, c))
            = Mod(RemainderSum(x, length, w, g, h, z, b) + Pow(u) * RemainderSum(x, length, w, g, v, z, b))
      BY <3>1, <3>2, SumSplits
    <3> QED
      BY <3>3 DEF u, v
  <2>5. Place(length, t, g, 2 * i + s, h) = Place(length, w, g, i, h + s * t)
    <3> DEFINE r == g * length
               p == i * t
    <3>1. r \in Int /\ p \in Int /\ h \in Int /\ t \in Int /\ s * t \in Int
      BY <1>2, <1>6
    <3>2. (2 * i + s) * t = 2 * p + s * t /\ i * w = 2 * p
      BY <1>2, <1>6
    <3> HIDE DEF p, r
    <3>3. r + (2 * p + s * t + h) = r + (2 * p + (h + s * t))
      BY <3>1
    <3> QED
      BY <3>2, <3>3 DEF Place, At, r
  <2> QED
    BY <2>2, <2>3, <2>4, <2>5
<1>14. Remainder(x, length, b)[k] \in 0 .. q - 1 /\ S(y) \in Int /\ Remainder(x, length, b)[k] = Mod(S(y))
  <2>1. S(y) \in Int /\ Remainder(x, length, b)[k] = Mod(S(y))
    BY <1>5, <1>11
  <2> HIDE DEF S
  <2> QED
    BY <2>1, ModRange
<1> HIDE DEF W, Z, z
<1>15. \A A, B \in Int : Mod(Mod(A) + Mod(B) * W) = Mod(A + W * B) /\ Mod(Mod(A) - Mod(B) * W) = Mod(A - W * B)
  <2> SUFFICES ASSUME NEW A \in Int, NEW B \in Int
               PROVE  Mod(Mod(A) + Mod(B) * W) = Mod(A + W * B) /\ Mod(Mod(A) - Mod(B) * W) = Mod(A - W * B)
    OBVIOUS
  <2>1. Mod(A) \in Int /\ Mod(B) \in Int /\ Mod(Mod(A)) = Mod(A) /\ Mod(Mod(B)) = Mod(B) /\ Mod(W) \in Int
    BY <1>9, ModRange
  <2>2. Mod(Mod(B) * W) = Mod(B * W)
    BY <1>9, <2>1, ModTimes
  <2>3. B * W \in Int /\ Mod(B) * W \in Int /\ B * W = W * B
    BY <1>9, <2>1
  <2>4. Mod(Mod(A) + Mod(B) * W) = Mod(A + B * W) /\ Mod(Mod(A) - Mod(B) * W) = Mod(A - B * W)
    <3> DEFINE E == Mod(A)
               C == Mod(B) * W
               D == B * W
    <3>1. E \in Int /\ C \in Int /\ D \in Int /\ Mod(E) = Mod(A) /\ Mod(C) = Mod(D)
      BY <2>1, <2>2, <2>3
    <3> HIDE DEF E, C, D
    <3>2. Mod(E + C) = Mod(A + D) /\ Mod(E - C) = Mod(A - D)
      BY <3>1, ModOperations
    <3> QED
      BY <3>2 DEF E, C, D
  <2> QED
    BY <2>3, <2>4
<1>16. CASE y < t
  <2>1. y \in 0 .. t - 1 /\ y + 0 * t = y /\ y + t \in 0 .. w - 1
    BY <1>2, <1>16
  <2>2. 0 \in 0 .. 1
    OBVIOUS
  <2>3. /\ Remainder(x, length, c)[k] = Mod(T(y, 0)) /\ Mod(T(y, 0)) = Mod(S(y) + Pow(Z(0)) * S(y + t))
        /\ S(y) \in Int /\ S(y + t) \in Int /\ T(y, 0) \in Int
    BY <1>5, <1>13, <2>1, <2>2
  <2>4. k + t = Place(length, w, g, i, y + t)
    <3>1. g * length \in Int /\ i * w \in Int
      BY <1>2, <1>6
    <3> QED
      BY <1>2, <1>5, <1>6, <3>1 DEF Place, At
  <2>5. k + t \in Index /\ Remainder(x, length, b)[k + t] = Mod(S(y + t))
    BY <1>11, <2>1, <2>4 DEF z
  <2> HIDE DEF S, T
  <2>6. Remainder(x, length, c)[k] \in 0 .. q - 1 /\ Remainder(x, length, b)[k + t] \in Int
    BY <2>3, <2>5, ModRange
  <2>7. Remainder(x, length, c)[k] = Mod(S(y) + W * S(y + t))
    BY <1>9, <2>3
  <2>8. Mod(S(y) + W * S(y + t)) = Mod(Mod(S(y)) + Mod(S(y + t)) * W)
    BY <1>15, <2>3
  <2> QED
    BY <1>3, <1>8, <1>14, <1>16, <2>5, <2>6, <2>7, <2>8 DEF W, SplitsAt
<1>17. CASE ~(y < t)
  <2> DEFINE h == y - t
  <2>1. h \in 0 .. t - 1 /\ h + 1 * t = y /\ h + t = y /\ h \in 0 .. w - 1
    BY <1>2, <1>17
  <2>2. 1 \in 0 .. 1
    OBVIOUS
  <2> HIDE DEF h
  <2>3. /\ Remainder(x, length, c)[k] = Mod(T(h, 1)) /\ Mod(T(h, 1)) = Mod(S(h) + Pow(Z(1)) * S(y))
        /\ S(h) \in Int /\ T(h, 1) \in Int
    BY <1>5, <1>13, <2>1, <2>2
  <2>4. k - t = Place(length, w, g, i, h)
    <3>1. g * length \in Int /\ i * w \in Int
      BY <1>2, <1>6
    <3> QED
      BY <1>2, <1>5, <1>6, <2>1, <3>1 DEF Place, At
  <2>5. k - t \in Index /\ Remainder(x, length, b)[k - t] = Mod(S(h))
    BY <1>11, <2>1, <2>4 DEF z
  <2> HIDE DEF S, T
  <2>6. Remainder(x, length, c)[k] \in 0 .. q - 1 /\ Remainder(x, length, b)[k - t] \in Int
    BY <2>3, <2>5, ModRange
  <2>7. Mod(S(h) + Pow(Z(1)) * S(y)) = Mod(S(h) - W * S(y))
    <3> DEFINE P == Pow(Z(1))
               V == 0 - W
               B == S(y)
               A == S(h)
    <3>1. P \in Int /\ V \in Int /\ Mod(P) = Mod(V) /\ B \in Int /\ A \in Int /\ V * B = 0 - W * B /\ W * B \in Int
      BY <1>9, <1>10, <1>14, <2>3
    <3> HIDE DEF P, V, B, A
    <3>2. Mod(B) \in Int /\ Mod(A) \in Int
      BY <3>1, ModRange
    <3>3. Mod(P * B) = Mod(V * B)
      BY <3>1, <3>2, ModTimes
    <3>4. P * B \in Int /\ V * B \in Int
      BY <3>1
    <3>5. Mod(A + P * B) = Mod(A + V * B)
      BY <3>1, <3>2, <3>3, <3>4, ModTimes
    <3>6. A + V * B = A - W * B
      BY <3>1
    <3> QED
      BY <3>5, <3>6 DEF P, B, A
  <2>8. Mod(S(h) - W * S(y)) = Mod(Mod(S(h)) - Mod(S(y)) * W)
    BY <1>14, <1>15, <2>3
  <2> QED
    BY <1>3, <1>8, <1>14, <1>17, <2>3, <2>5, <2>6, <2>7, <2>8 DEF W, SplitsAt
<1> HIDE DEF S, T, W, Z, z
<1> QED
  BY <1>16, <1>17 DEF SplitsAt

-------------------------------------------------------------------------------
(* The first and the last remainders *)

\* One block is the row itself.
LEMMA RemainderOne ==
  ASSUME NEW d \in Int, NEW length \in Int, NEW k, NEW x,
         length = Pow2[d], d \in 0 .. LogN, x \in [Index -> Int], k \in Index
  PROVE  Remainder(x, length, 1)[k] = Mod(x[k]) /\ x[k] \in Int
<1> DEFINE n == Pow2[LogN - d]
<1>1. 0 \in 0 .. d /\ AreBlocksIn(d, 0, length, 1, length) /\ N \in Int /\ 1 \in Nat \ {0} /\ 0 \in 0 .. 1 - 1
  BY Sizes, Pow2Facts DEF AreBlocksIn
<1>2. length \in Nat \ {0} /\ IsMultiple(length, 1, length) /\ n \in Nat \ {0} /\ IsMultiple(N, n, length)
  <2> DEFINE z == 0
             b == 1
  <2>1. z \in 0 .. d /\ AreBlocksIn(d, z, length, b, length) /\ b \in Int
    BY <1>1
  <2> HIDE DEF z, b
  <2>2. length \in Nat \ {0} /\ IsMultiple(length, b, length) /\ n \in Nat \ {0} /\ IsMultiple(N, n, length)
    BY <2>1, BlockSizes
  <2> QED
    BY <2>2 DEF b
<1>3. PICK g \in 0 .. n - 1, i \in 0 .. 1 - 1, y \in 0 .. length - 1 : k = Place(length, length, g, i, y)
  <2>1. k \in 0 .. N - 1
    BY DEF Index
  <2> HIDE DEF n
  <2> DEFINE b == 1
             w == length
  <2>2. b \in Nat \ {0} /\ w \in Nat \ {0} /\ n \in Nat \ {0} /\ length \in Int /\ N \in Int
        /\ IsMultiple(length, b, w) /\ IsMultiple(N, n, length)
    BY <1>1, <1>2
  <2> HIDE DEF b, w
  <2>3. \E g \in 0 .. n - 1 : \E i \in 0 .. b - 1 : \E y \in 0 .. w - 1 : k = Place(length, w, g, i, y)
    BY <2>1, <2>2, EveryPlace
  <2> QED
    BY <2>3 DEF b, w
<1>4. i = 0
  OBVIOUS
<1> DEFINE z == Zeta(0, 0)
<1>5. z \in Int /\ Remainder(x, length, 1)[k] = Mod(RemainderSum(x, length, length, g, y, z, 1))
      /\ RemainderSum(x, length, length, g, y, z, 1) \in Int
  <2> DEFINE b == 1
             e == 0
  <2>1. e \in 0 .. d /\ AreBlocksIn(d, e, length, b, length) /\ b \in Int /\ e \in Int /\ i \in Int /\ g \in Int /\ y \in Int
        /\ i \in 0 .. b - 1 /\ g \in 0 .. Pow2[LogN - d] - 1
    BY <1>1, <1>2, <1>4
  <2> HIDE DEF b, e
  <2>2. Zeta(e, i) \in Int /\ RemainderSum(x, length, length, g, y, Zeta(e, i), b) \in Int
        /\ Remainder(x, length, b)[Place(length, length, g, i, y)] = Mod(RemainderSum(x, length, length, g, y, Zeta(e, i), b))
    BY <2>1, RemainderAt
  <2> QED
    BY <1>3, <1>4, <2>2 DEF b, e
<1>6. x[k] \in Int
  OBVIOUS
<1> HIDE DEF z
<1> DEFINE f == RemainderTerms(x, length, length, g, y, z, 1)
<1>7. f[0] = x[k] * Pow(z * 0)
  BY <1>3, <1>4 DEF RemainderTerms
<1>8. Pow(z * 0) = 1
  <2>1. z * 0 = 0
    BY <1>5
  <2>2. power[0] = 1 /\ power[0] = Pow(0)
    <3>1. 0 \in 0 .. M
      BY Sizes
    <3> QED
      BY <3>1, PowerFacts, PowTable
  <2> QED
    BY <2>1, <2>2
<1> HIDE DEF f
<1>9. SumBelow(f, 0) = 0 /\ SumBelow(f, 0 + 1) = SumBelow(f, 0) + f[0]
  BY BelowSteps
<1>10. f[0] = x[k]
  BY <1>6, <1>7, <1>8
<1>11. SumBelow(f, 1) = x[k]
  BY <1>6, <1>9, <1>10
<1> QED
  BY <1>5, <1>6, <1>11 DEF RemainderSum, f

\* One block for every word of a row: values of the row.
RowTerms(x, length, g, z) == [j \in 0 .. length - 1 |-> x[At(g, length, j)] * Pow(z * j)]

LEMMA RemainderAll ==
  ASSUME NEW d \in Int, NEW length \in Int, NEW g \in Int, NEW i \in Int, NEW x,
         length = Pow2[d], d \in 0 .. LogN, x \in [Index -> Int],
         g \in 0 .. Pow2[LogN - d] - 1, i \in 0 .. length - 1
  PROVE  /\ Zeta(d, i) \in Int /\ SumBelow(RowTerms(x, length, g, Zeta(d, i)), length) \in Int
         /\ Remainder(x, length, length)[At(g, length, i)] = Mod(SumBelow(RowTerms(x, length, g, Zeta(d, i)), length))
         /\ \A j \in 0 .. length - 1 : At(g, length, j) \in Index
<1> DEFINE w == 1
           y == 0
           z == Zeta(d, i)
<1>1. d \in 0 .. d /\ AreBlocksIn(d, d, length, length, w) /\ w \in Int /\ y \in Int /\ y \in 0 .. w - 1 /\ d - d = 0
  BY Pow2Facts DEF AreBlocksIn
<1>2. \A j \in Int : Place(length, w, g, j, y) = At(g, length, j)
  BY DEF Place, At
<1> HIDE DEF w, y
<1>3. /\ Zeta(d, i) \in Int /\ RemainderSum(x, length, w, g, y, Zeta(d, i), length) \in Int
      /\ Remainder(x, length, length)[Place(length, w, g, i, y)] = Mod(RemainderSum(x, length, w, g, y, Zeta(d, i), length))
  BY <1>1, RemainderAt
<1>4. \A j \in 0 .. length - 1 : Place(length, w, g, j, y) \in Index
  <2> HIDE DEF z
  <2> DEFINE e == d
  <2>1. e \in 0 .. d /\ AreBlocksIn(d, e, length, length, w)
    BY <1>1
  <2> HIDE DEF e
  <2>2. z \in Int
    BY <1>3 DEF z
  <2> QED
    BY <1>1, <2>1, <2>2, RemainderTermsFacts
<1> HIDE DEF z
<1>5. RemainderTerms(x, length, w, g, y, z, length) = RowTerms(x, length, g, z)
  BY <1>2 DEF RemainderTerms, RowTerms
<1> QED
  BY <1>2, <1>3, <1>4, <1>5 DEF RemainderSum, z

\* The values of a polynomial at the powers of psi to odd numbers.
Odd(n) == 2 * bitReverse(n, LogN) + 1
Terms(p, z) == [j \in Index |-> p[j] * Pow(z * j)]
Sample(p, z) == SumBelow(Terms(p, z), N)

LEMMA OddFacts == \A n \in Index : Odd(n) \in 1 .. M - 1 /\ Odd(n) \in Int /\ Congruent(Odd(n), 1, 2)
                                     /\ bitReverse(n, LogN) \in Index
<1> TAKE n \in Index
<1>0. LogN \in Nat /\ n \in Nat
  BY Sizes DEF Index
<1>1. bitReverse(n, LogN) \in 0 .. Pow2[LogN] - 1
  BY <1>0, ReverseRange
<1>2. bitReverse(n, LogN) \in Index /\ bitReverse(n, LogN) \in Int
  BY <1>1, Sizes DEF Index, N
<1>3. Odd(n) - 1 = 2 * bitReverse(n, LogN)
  BY <1>2 DEF Odd
<1> QED
  BY <1>2, <1>3, Sizes DEF Odd, Congruent, Divides, Index

LEMMA SampleIsNumber ==
  ASSUME NEW p \in [Index -> Int], NEW z \in Int
  PROVE  Sample(p, z) \in Int /\ \A j \in Index : Terms(p, z)[j] \in Int /\ Pow(z * j) \in Int
<1>1. \A j \in Index : Terms(p, z)[j] \in Int /\ Pow(z * j) \in Int
  <2> TAKE j \in Index
  <2>1. z * j \in Int
    BY DEF Index
  <2>2. Pow(z * j) \in Int /\ p[j] \in Int
    BY <2>1, PowRange
  <2> DEFINE c == Pow(z * j)
  <2> HIDE DEF c
  <2>3. p[j] * c \in Int
    BY <2>2 DEF c
  <2> QED
    BY <2>2, <2>3 DEF Terms, c
<1> QED
  BY <1>1, BelowIsNumber, Sizes DEF Sample, Index

LEMMA ValueFacts ==
  ASSUME NEW x \in [Index -> Int], NEW n \in Index
  PROVE  Remainder(x, N, N)[n] = Mod(Sample(x, Odd(n))) /\ Value(x, n) = Mod(Sample(x, Odd(n)))
<1>1. Remainder(x, N, N)[n] = Mod(Sample(x, Odd(n)))
  <2> DEFINE g == 0
             d == LogN
  <2>1. N = Pow2[d] /\ d \in 0 .. LogN /\ d \in Int /\ g \in Int /\ n \in 0 .. N - 1 /\ n \in Int /\ N \in Int /\ LogN - d = 0
    BY Sizes DEF N, Index
  <2>2. g \in 0 .. Pow2[LogN - d] - 1 /\ Pow2[0] = 1
    BY <2>1, Pow2Facts
  <2>3. \A j \in Int : At(g, N, j) = j
    BY <2>1 DEF At
  <2> DEFINE length == N
  <2> HIDE DEF g, d, length
  <2>0. length = Pow2[d] /\ d \in 0 .. LogN /\ g \in 0 .. Pow2[LogN - d] - 1 /\ n \in 0 .. length - 1
        /\ length \in Int /\ d \in Int /\ g \in Int /\ n \in Int
    BY <2>1, <2>2 DEF length
  <2>4. Zeta(d, n) \in Int
        /\ Remainder(x, N, N)[At(g, N, n)] = Mod(SumBelow(RowTerms(x, N, g, Zeta(d, n)), N))
    <3>1. Zeta(d, n) \in Int
          /\ Remainder(x, length, length)[At(g, length, n)] = Mod(SumBelow(RowTerms(x, length, g, Zeta(d, n)), length))
      BY <2>0, RemainderAll
    <3> QED
      BY <3>1 DEF length
  <2>5. Zeta(d, n) = Odd(n)
    BY <2>1, <2>2, OddFacts DEF Zeta, Odd, d
  <2> DEFINE z == Odd(n)
  <2> HIDE DEF z
  <2>6. RowTerms(x, N, g, z) = Terms(x, z)
    BY <2>3 DEF RowTerms, Terms, Index
  <2> QED
    BY <2>1, <2>3, <2>4, <2>5, <2>6 DEF Sample, z
<1>2. Value(x, n) = Mod(Sample(x, Odd(n)))
  <2> DEFINE z == 2 * bitReverse(n, LogN) + 1
  <2>1. z = Odd(n) /\ z \in Int
    BY OddFacts DEF Odd
  <2> HIDE DEF z
  <2>2. \A j \in Index : j * z = z * j
    BY <2>1 DEF Index
  <2>3. [j \in Index |-> x[j] * power[(j * z) % M]] = Terms(x, z)
    BY <2>2 DEF Terms, Pow
  <2> QED
    BY <2>1, <2>3 DEF Value, Sample, Mod, z
<1> QED
  BY <1>1, <1>2

-------------------------------------------------------------------------------
(* The words stand for the remainders *)

Agree(x, s) == \A k \in Index : x[k] \in Int /\ s[k] \in Int /\ Mod(x[k]) = Mod(s[k])

\* One layer of a complete schedule keeps it so.
LEMMA LayerStands ==
  ASSUME NEW d \in Int, NEW e \in Int, NEW length \in Int, NEW b \in Int, NEW t \in Int, NEW B \in Int,
         NEW al, NEW s, NEW x,
         AreLayer(d, e, length, b, t), d \in 0 .. LogN, Pow2[d] \in RowLengths, e \in 0 .. d - 1,
         al \in Variants, al # "rvv_bar", FitsVector(al, length), B \in q .. R - q - 1,
         s \in [Index -> 0 .. B], x \in [Index -> Int], Agree(Remainder(x, length, b), s)
  PROVE  Agree(Remainder(x, length, 2 * b), LayerOf(s, al, length, b))
<1>1. B \in Nat /\ q \in Nat /\ R \in Nat
  BY Sizes
<1> SUFFICES ASSUME NEW k \in Index
             PROVE  /\ Remainder(x, length, 2 * b)[k] \in Int /\ LayerOf(s, al, length, b)[k] \in Int
                    /\ Mod(Remainder(x, length, 2 * b)[k]) = Mod(LayerOf(s, al, length, b)[k])
  BY DEF Agree
<1>2. \A j \in Index : s[j] \in Int
  BY <1>1
<1> DEFINE X == Remainder(x, length, b)
           Y == Remainder(x, length, 2 * b)
           S == LayerOf(s, al, length, b)
           T == Twiddle(length, b, t, k)
<1>3. \A j \in Index : X[j] \in Int /\ Mod(X[j]) = Mod(s[j])
  BY DEF Agree
<1>4. T \in 1 .. q - 1
  BY TwiddleFacts
<1>5. /\ Y[k] \in 0 .. q - 1
      /\ k % length \in Lower(length, t) => k + t \in Index /\ Y[k] = Mod(X[k] + X[k + t] * T)
      /\ k % length \notin Lower(length, t) => k - t \in Index /\ Y[k] = Mod(X[k - t] - X[k] * T)
  <2>1. SplitsAt(x, length, b, t, k)
    BY LayerSplits
  <2> QED
    BY <2>1 DEF SplitsAt
<1>6. /\ S[k] \in 0 .. B
      /\ k % length \in Lower(length, t) => Mod(S[k]) = Mod(s[k] + s[k + t] * T)
      /\ k % length \notin Lower(length, t) => Mod(S[k]) = Mod(s[k - t] - s[k] * T)
  <2>1. LayerAt(s, al, length, b, t, B, k)
    BY LayerFacts
  <2> QED
    BY <2>1 DEF LayerAt
<1> HIDE DEF X, Y, S, T
<1>7. T \in Int /\ Y[k] \in Int /\ S[k] \in Int
  BY <1>1, <1>4, <1>5, <1>6
<1>8. ASSUME NEW i \in Index, NEW j \in Index
      PROVE  /\ Mod(X[i] + X[j] * T) = Mod(s[i] + s[j] * T) /\ Mod(X[i] - X[j] * T) = Mod(s[i] - s[j] * T)
             /\ X[i] + X[j] * T \in Int /\ X[i] - X[j] * T \in Int
  <2> DEFINE A == X[i]
             C == X[j]
             A1 == s[i]
             C1 == s[j]
  <2>1. A \in Int /\ C \in Int /\ A1 \in Int /\ C1 \in Int /\ Mod(A) = Mod(A1) /\ Mod(C) = Mod(C1) /\ Mod(T) = Mod(T)
    BY <1>2, <1>3
  <2> HIDE DEF A, C, A1, C1
  <2> DEFINE P == C * T
             P1 == C1 * T
  <2>2. Mod(P) = Mod(P1) /\ P \in Int /\ P1 \in Int
    <3> DEFINE U == T
    <3>1. U \in Int /\ Mod(T) = Mod(U) /\ T \in Int
      BY <1>7
    <3> HIDE DEF U
    <3>2. Mod(C * T) = Mod(C1 * U) /\ C * T \in Int /\ C1 * U \in Int
      BY <2>1, <3>1, ModOperations
    <3> QED
      BY <3>2 DEF U
  <2> HIDE DEF P, P1
  <2>3. Mod(A + P) = Mod(A1 + P1) /\ Mod(A - P) = Mod(A1 - P1) /\ A + P \in Int /\ A - P \in Int
    BY <2>1, <2>2, ModOperations
  <2> QED
    BY <2>3 DEF A, C, A1, C1, P, P1
<1>9. Mod(Y[k]) = Mod(S[k])
  <2>1. CASE k % length \in Lower(length, t)
    <3>1. k + t \in Index /\ Y[k] = Mod(X[k] + X[k + t] * T) /\ Mod(S[k]) = Mod(s[k] + s[k + t] * T)
      BY <1>5, <1>6, <2>1
    <3>2. Mod(X[k] + X[k + t] * T) = Mod(s[k] + s[k + t] * T) /\ X[k] + X[k + t] * T \in Int
      BY <1>8, <3>1
    <3> DEFINE u == X[k] + X[k + t] * T
    <3> HIDE DEF u
    <3>3. Mod(Mod(u)) = Mod(u)
      BY <3>2, ModRange DEF u
    <3> QED
      BY <3>1, <3>2, <3>3 DEF u
  <2>2. CASE k % length \notin Lower(length, t)
    <3>1. k - t \in Index /\ Y[k] = Mod(X[k - t] - X[k] * T) /\ Mod(S[k]) = Mod(s[k - t] - s[k] * T)
      BY <1>5, <1>6, <2>2
    <3>2. Mod(X[k - t] - X[k] * T) = Mod(s[k - t] - s[k] * T) /\ X[k - t] - X[k] * T \in Int
      BY <1>8, <3>1
    <3> DEFINE u == X[k - t] - X[k] * T
    <3> HIDE DEF u
    <3>3. Mod(Mod(u)) = Mod(u)
      BY <3>2, ModRange DEF u
    <3> QED
      BY <3>1, <3>2, <3>3 DEF u
  <2> QED
    BY <2>1, <2>2
<1> QED
  BY <1>7, <1>9 DEF Y, S

-------------------------------------------------------------------------------
(* The four-step NTT computes the values *)

LEMMA RemainderType ==
  ASSUME NEW d \in Int, NEW e \in Int, NEW length \in Int, NEW b \in Int, NEW w \in Int, NEW x,
         AreBlocksIn(d, e, length, b, w), d \in 0 .. LogN, e \in 0 .. d, x \in [Index -> Int]
  PROVE  Remainder(x, length, b) \in [Index -> 0 .. q - 1]
<1> DEFINE n == Pow2[LogN - d]
<1>1. /\ length \in Nat \ {0} /\ b \in Nat \ {0} /\ w \in Nat \ {0} /\ IsMultiple(length, b, w)
      /\ n \in Nat \ {0} /\ IsMultiple(N, n, length) /\ N \in Int
  BY BlockSizes, Sizes
<1>2. ASSUME NEW k \in Index PROVE Remainder(x, length, b)[k] \in 0 .. q - 1
  <2>1. k \in 0 .. N - 1
    BY DEF Index
  <2> HIDE DEF n
  <2>2. PICK g \in 0 .. n - 1, i \in 0 .. b - 1, y \in 0 .. w - 1 : k = Place(length, w, g, i, y)
    BY <1>1, <2>1, EveryPlace
  <2>3. g \in Int /\ i \in Int /\ y \in Int /\ g \in 0 .. Pow2[LogN - d] - 1
    BY DEF n
  <2>4. RemainderSum(x, length, w, g, y, Zeta(e, i), b) \in Int
        /\ Remainder(x, length, b)[k] = Mod(RemainderSum(x, length, w, g, y, Zeta(e, i), b))
    BY <2>2, <2>3, RemainderAt
  <2> QED
    BY <2>4, ModRange
<1>3. Remainder(x, length, b) = [k \in Index |-> Remainder(x, length, b)[k]]
  BY DEF Remainder
<1> QED
  BY <1>2, <1>3

\* Row and column of a matrix of N1 rows.
LEMMA Cells ==
  ASSUME NEW r \in 0 .. N1 - 1, NEW c \in 0 .. N2 - 1
  PROVE  /\ At(r, N2, c) \in Index /\ At(r, N2, c) \div N2 = r /\ At(r, N2, c) % N2 = c
         /\ At(c, N1, r) \in Index /\ At(c, N1, r) \div N1 = c /\ At(c, N1, r) % N1 = r
<1>1. N1 \in Nat \ {0} /\ N2 \in Nat \ {0} /\ N = N1 * N2 /\ N \in Int /\ r \in Int /\ c \in Int
  BY Sizes
<1> DEFINE b == N1
           w == N2
           total == N
<1>2. r \in Nat /\ c \in Nat /\ b \in Nat \ {0} /\ w \in Nat \ {0} /\ total = b * w /\ total \in Int /\ r \in 0 .. b - 1 /\ c \in 0 .. w - 1
  BY <1>1
<1> HIDE DEF b, w, total
<1>3. r * w + c \in Int /\ c * b + r \in Int
  BY <1>2
<1>4. (r * w + c) \div w = r /\ (r * w + c) % w = c
  BY <1>2, Compose
<1>5. (c * b + r) \div b = c /\ (c * b + r) % b = r
  BY <1>2, Compose
<1>6. r * w + c \in 0 .. total - 1 /\ c * b + r \in 0 .. total - 1
  <2>1. r * w <= (b - 1) * w /\ c * b <= (w - 1) * b /\ 0 <= r * w /\ 0 <= c * b
    BY <1>2
  <2>2. (b - 1) * w = total - w /\ (w - 1) * b = total - b
    BY <1>2
  <2> QED
    BY <1>2, <1>3, <2>1, <2>2
<1> QED
  BY <1>4, <1>5, <1>6 DEF At, b, w, total, Index

\* The power of psi that a coefficient meets on its way through both passes.
LEMMA Exponents ==
  ASSUME NEW n1 \in Int, NEW n2 \in Int, NEW r \in Int, NEW c \in Int, NEW u \in Int, NEW v \in Int
  PROVE  (2 * (u + n1 * v) + 1) * (r * n2 + c)
           - ((n2 * (2 * u + 1)) * r + (c * (2 * u - n1 + 1) + (n1 * (2 * v + 1)) * c))
             = (2 * (n1 * n2)) * (r * v)
OBVIOUS

\* The matrix that the second pass starts from, before the rows of Wmatrix.
Crossed == Transposed(Remainder(Columns, N1, N1), N2, N1)

LEMMA FourStepTables ==
  ASSUME poly \in [Index -> 0 .. q - 1]
  PROVE  /\ Columns \in [Index -> Int] /\ Rows \in [Index -> Int] /\ poly \in [Index -> Int]
         /\ Remainder(Columns, N1, N1) \in [Index -> 0 .. q - 1] /\ Crossed \in [Index -> 0 .. q - 1]
         /\ \A k \in Index : Crossed[k] \in Int /\ Wmatrix[k] \in Int /\ Rows[k] = Mod(Crossed[k] * Wmatrix[k])
         /\ \A r \in 0 .. N1 - 1 : \A c \in 0 .. N2 - 1 :
              /\ Columns[At(c, N1, r)] = poly[At(r, N2, c)]
              /\ Crossed[At(r, N2, c)] = Remainder(Columns, N1, N1)[At(c, N1, r)]
<1>1. Columns \in [Index -> 0 .. q - 1] /\ q \in Nat
  BY TransposedType, Sizes DEF Columns
<1>2. Columns \in [Index -> Int] /\ poly \in [Index -> Int]
  BY <1>1
<1>3. Remainder(Columns, N1, N1) \in [Index -> 0 .. q - 1]
  <2> DEFINE d == LogN1
             length == N1
             w == 1
  <2>1. d \in 0 .. d /\ d \in 0 .. LogN /\ d \in Int /\ length \in Int /\ w \in Int /\ AreBlocksIn(d, d, length, length, w)
    BY Sizes, Pow2Facts DEF AreBlocksIn, N1
  <2> HIDE DEF d, length, w
  <2>2. Remainder(Columns, length, length) \in [Index -> 0 .. q - 1]
    BY <1>2, <2>1, RemainderType
  <2> QED
    BY <2>2 DEF length
<1>4. Crossed \in [Index -> 0 .. q - 1]
  BY <1>3, TransposedType DEF Crossed
<1>5. ASSUME NEW k \in Index
      PROVE  Crossed[k] \in Int /\ Wmatrix[k] \in Int /\ Rows[k] = Mod(Crossed[k] * Wmatrix[k])
  <2>1. Crossed[k] \in Int
    BY <1>1, <1>4
  <2>2. Wmatrix[k] \in Int
    BY <1>1, WmatrixFacts
  <2> QED
    BY <2>1, <2>2 DEF Rows, Crossed, Mod
<1>6. Rows \in [Index -> Int]
  <2>1. \A k \in Index : Rows[k] \in Int
    <3> TAKE k \in Index
    <3> DEFINE u == Crossed[k] * Wmatrix[k]
    <3>1. u \in Int /\ Rows[k] = Mod(u)
      BY <1>5
    <3> HIDE DEF u
    <3> QED
      BY <3>1, ModRange
  <2>2. Rows = [k \in Index |-> Rows[k]]
    BY DEF Rows
  <2> QED
    BY <2>1, <2>2
<1>7. ASSUME NEW r \in 0 .. N1 - 1, NEW c \in 0 .. N2 - 1
      PROVE  /\ Columns[At(c, N1, r)] = poly[At(r, N2, c)]
             /\ Crossed[At(r, N2, c)] = Remainder(Columns, N1, N1)[At(c, N1, r)]
  <2>1. /\ At(r, N2, c) \in Index /\ At(r, N2, c) \div N2 = r /\ At(r, N2, c) % N2 = c
        /\ At(c, N1, r) \in Index /\ At(c, N1, r) \div N1 = c /\ At(c, N1, r) % N1 = r
    BY Cells
  <2> DEFINE i == At(c, N1, r)
             j == At(r, N2, c)
  <2>2. Columns[i] = poly[(i % N1) * N2 + i \div N1]
    BY <2>1 DEF Columns, Transposed
  <2>3. Crossed[j] = Remainder(Columns, N1, N1)[(j % N2) * N1 + j \div N2]
    BY <2>1 DEF Crossed, Transposed
  <2> QED
    BY <2>1, <2>2, <2>3 DEF At
<1> QED
  BY <1>2, <1>3, <1>4, <1>5, <1>6, <1>7

\* The values a row of the second pass ends with are values of the polynomial.
LEMMA RowsAreValues ==
  ASSUME poly \in [Index -> 0 .. q - 1], NEW g \in 0 .. N1 - 1, NEW i \in 0 .. N2 - 1
  PROVE  Remainder(Rows, N2, N2)[At(g, N2, i)] = Remainder(poly, N, N)[At(g, N2, i)]
<1> DEFINE d2 == LogN - LogN1
           n == At(g, N2, i)
           u == bitReverse(g, LogN1)
           v == bitReverse(i, d2)
           z == Odd(n)
           z1 == Zeta(LogN1, g)
           z2 == Zeta(d2, i)
           E(c) == Between(g, c) + z2 * c
           row(c) == RowTerms(Columns, N1, c, z1)
           term == [k \in Index |-> poly[k] * Pow(z * k)]
           t == [c \in 0 .. N2 - 1 |-> [r \in 0 .. N1 - 1 |-> term[At(r, N2, c)]]]
<1>1. /\ N1 \in Nat \ {0} /\ N2 \in Nat \ {0} /\ N1 \in Nat /\ N2 \in Nat /\ N = N1 * N2 /\ N \in Nat /\ M = 2 * N /\ M \in Int
      /\ LogN \in Nat /\ LogN1 \in Nat /\ d2 \in Nat /\ d2 \in 0 .. LogN /\ LogN1 \in 0 .. LogN
      /\ N1 = Pow2[LogN1] /\ N2 = Pow2[d2] /\ LogN - LogN1 = d2 /\ LogN - d2 = LogN1 /\ LogN1 + d2 = LogN
      /\ g \in Nat /\ i \in Nat /\ i \in 0 .. Pow2[d2] - 1
  BY Sizes DEF N1, N2
<1> HIDE DEF d2
<1>2. u \in Int /\ v \in Int
  <2>1. u \in 0 .. Pow2[LogN1] - 1 /\ v \in 0 .. Pow2[d2] - 1
    BY <1>1, ReverseRange
  <2> QED
    BY <1>1, <2>1
<1>3. n \in Index /\ z = 2 * (u + N1 * v) + 1 /\ z \in Int
  <2>1. n \in Index
    BY Cells
  <2>2. bitReverse(g * Pow2[d2] + i, LogN1 + d2) = u + Pow2[LogN1] * v
    <3> DEFINE c == LogN1
    <3>1. c \in Nat /\ d2 \in Nat /\ g \in Nat /\ i \in 0 .. Pow2[d2] - 1
      BY <1>1
    <3> HIDE DEF c, u, v
    <3>2. bitReverse(g * Pow2[d2] + i, c + d2) = bitReverse(g, c) + Pow2[c] * bitReverse(i, d2)
      BY <3>1, ReverseJoined
    <3> QED
      BY <3>2 DEF c, u, v
  <2> QED
    BY <1>1, <2>1, <2>2, OddFacts DEF Odd, At
<1>4. z1 = N2 * (2 * u + 1) /\ z2 = N1 * (2 * v + 1) /\ z1 \in Int /\ z2 \in Int
  <2>1. z1 = N2 * (2 * u + 1) /\ z2 = N1 * (2 * v + 1)
    BY <1>1 DEF Zeta
  <2> HIDE DEF u, v, z1, z2
  <2> QED
    BY <1>1, <1>2, <2>1
<1>5. \A c \in 0 .. N2 - 1 : Between(g, c) = c * (2 * u - N1 + 1) /\ Between(g, c) \in Int /\ c \in Int
  BY <1>1, <1>2 DEF Between
<1> HIDE DEF u, v, z, z1, z2
<1>6. ASSUME NEW r \in 0 .. N1 - 1, NEW c \in 0 .. N2 - 1
      PROVE  /\ At(r, N2, c) \in Index /\ At(r, N2, c) \in Int
             /\ z1 * r \in Int /\ E(c) \in Int /\ z * At(r, N2, c) \in Int
             /\ Pow(z * At(r, N2, c)) = Pow(z1 * r + E(c))
  <2>1. r \in Int /\ c \in Int /\ At(r, N2, c) \in Index /\ At(r, N2, c) \in Int
    <3>1. At(r, N2, c) \in Index
      BY Cells
    <3>2. r \in Int /\ c \in Int
      BY <1>1
    <3> QED
      BY <3>1, <3>2 DEF Index
  <2>2. z1 * r \in Int /\ z2 * c \in Int /\ z * At(r, N2, c) \in Int
    BY <1>3, <1>4, <2>1
  <2>3. E(c) \in Int
    BY <1>5, <2>2
  <2>4. z * At(r, N2, c) - (z1 * r + E(c)) = M * (r * v)
    <3> DEFINE n1 == N1
               n2 == N2
    <3>1. n1 \in Int /\ n2 \in Int
      BY <1>1
    <3>2. z * At(r, N2, c) = (2 * (u + n1 * v) + 1) * (r * n2 + c)
      BY <1>3 DEF At
    <3>3. z1 * r + E(c) = (n2 * (2 * u + 1)) * r + (c * (2 * u - n1 + 1) + (n1 * (2 * v + 1)) * c)
      BY <1>4, <1>5
    <3>4. M * (r * v) = (2 * (n1 * n2)) * (r * v)
      BY <1>1
    <3> HIDE DEF n1, n2
    <3>5. (2 * (u + n1 * v) + 1) * (r * n2 + c)
            - ((n2 * (2 * u + 1)) * r + (c * (2 * u - n1 + 1) + (n1 * (2 * v + 1)) * c))
              = (2 * (n1 * n2)) * (r * v)
      BY <1>2, <2>1, <3>1, Exponents
    <3> HIDE DEF E
    <3> QED
      BY <3>2, <3>3, <3>4, <3>5
  <2> HIDE DEF E
  <2> DEFINE X == z * At(r, N2, c)
             Y == z1 * r + E(c)
             K == r * v
  <2>5. X \in Int /\ Y \in Int /\ K \in Int /\ X - Y = M * K
    BY <1>2, <2>1, <2>2, <2>3, <2>4
  <2> HIDE DEF X, Y, K
  <2>6. Congruent(X, Y, M)
    BY <1>1, <2>5, DividesIntro DEF Congruent
  <2>7. Pow(X) = Pow(Y)
    BY <2>5, <2>6, PowSame
  <2> QED
    BY <2>1, <2>2, <2>3, <2>7 DEF X, Y
<1>7. /\ Columns \in [Index -> Int] /\ Rows \in [Index -> Int] /\ poly \in [Index -> Int]
      /\ \A k \in Index : Crossed[k] \in Int /\ Wmatrix[k] \in Int /\ Rows[k] = Mod(Crossed[k] * Wmatrix[k])
      /\ \A r \in 0 .. N1 - 1 : \A c \in 0 .. N2 - 1 :
           /\ Columns[At(c, N1, r)] = poly[At(r, N2, c)]
           /\ Crossed[At(r, N2, c)] = Remainder(Columns, N1, N1)[At(c, N1, r)]
  BY FourStepTables
<1>8. \A k \in Index : term[k] \in Int
  <2> TAKE k \in Index
  <2>1. Terms(poly, z)[k] \in Int
    BY <1>3, <1>7, SampleIsNumber
  <2> QED
    BY <2>1 DEF Terms
<1> HIDE DEF term
<1>9. ASSUME NEW c \in 0 .. N2 - 1
      PROVE  /\ SumBelow(row(c), N1) \in Int /\ \A r \in 0 .. N1 - 1 : row(c)[r] \in Int
             /\ Crossed[At(g, N2, c)] = Mod(SumBelow(row(c), N1))
  <2> DEFINE d == LogN1
             length == N1
  <2>1. /\ d \in Int /\ length \in Int /\ c \in Int /\ g \in Int /\ length = Pow2[d] /\ d \in 0 .. LogN
        /\ c \in 0 .. Pow2[LogN - d] - 1 /\ g \in 0 .. length - 1
    BY <1>1
  <2> HIDE DEF d, length
  <2>2. /\ SumBelow(RowTerms(Columns, length, c, Zeta(d, g)), length) \in Int
        /\ Remainder(Columns, length, length)[At(c, length, g)]
             = Mod(SumBelow(RowTerms(Columns, length, c, Zeta(d, g)), length))
    BY <1>7, <2>1, RemainderAll
  <2>3. SumBelow(row(c), N1) \in Int /\ Crossed[At(g, N2, c)] = Mod(SumBelow(row(c), N1))
    BY <1>7, <2>2 DEF d, length, z1
  <2>4. ASSUME NEW r \in 0 .. N1 - 1 PROVE row(c)[r] \in Int
    <3> DEFINE x == Columns[At(c, N1, r)]
               p == Pow(z1 * r)
    <3>1. row(c)[r] = x * p
      BY DEF RowTerms
    <3>2. x \in Int
      BY <1>7, Cells
    <3>3. p \in Int
      BY <1>6, PowRange
    <3> HIDE DEF x, p, row
    <3> QED
      BY <3>1, <3>2, <3>3
  <2> QED
    BY <2>3, <2>4
<1>10. ASSUME NEW c \in 0 .. N2 - 1, NEW r \in 0 .. N1 - 1
       PROVE  Mod(Pow(E(c)) * row(c)[r]) = Mod(t[c][r]) /\ t[c][r] \in Int
  <2> DEFINE x == poly[At(r, N2, c)]
             e1 == z1 * r
             e2 == E(c)
  <2>1. t[c][r] = x * Pow(e1 + e2) /\ row(c)[r] = x * Pow(e1)
    <3>1. t[c][r] = x * Pow(z * At(r, N2, c))
      BY <1>6 DEF term
    <3>2. row(c)[r] = x * Pow(e1)
      BY <1>7 DEF RowTerms
    <3> QED
      BY <1>6, <3>1, <3>2
  <2>2. x \in Int /\ e1 \in Int /\ e2 \in Int /\ t[c][r] \in Int
    <3>1. At(r, N2, c) \in Index /\ t[c][r] = term[At(r, N2, c)]
      BY <1>6
    <3> QED
      BY <1>6, <1>7, <1>8, <3>1
  <2> HIDE DEF x, e1, e2, E, row, t
  <2>3. e1 + e2 \in Int
    BY <2>2
  <2>4. Pow(e1) \in Int /\ Pow(e2) \in Int /\ Pow(e1 + e2) \in Int /\ Mod(Pow(e1 + e2)) = Mod(Pow(e1) * Pow(e2))
    BY <2>2, <2>3, PowRange, PowSum
  <2> DEFINE P == Pow(e1)
             Q == Pow(e2)
             T == Pow(e1 + e2)
             S == P * Q
  <2>5. P \in Int /\ Q \in Int /\ T \in Int /\ S \in Int /\ Mod(T) = Mod(S) /\ Mod(x) \in Int
    BY <2>2, <2>4, ModRange
  <2>6. Q * (x * P) = x * S
    BY <2>2, <2>5
  <2>7. Pow(e2) * row(c)[r] = Q * (x * P) /\ t[c][r] = x * T
    BY <2>1
  <2> HIDE DEF P, Q, T, S
  <2>8. Mod(x * T) = Mod(x * S)
    BY <2>2, <2>5, ModTimes
  <2> QED
    BY <2>2, <2>6, <2>7, <2>8 DEF e2
<1> DEFINE f == RowTerms(Rows, N2, g, z2)
           h == [c \in 0 .. N2 - 1 |-> SumBelow(t[c], N1)]
<1>11. ASSUME NEW c \in 0 .. N2 - 1
       PROVE  /\ \A r \in 0 .. N1 - 1 : t[c][r] \in Int
              /\ f[c] \in Int /\ h[c] \in Int /\ Mod(f[c]) = Mod(h[c])
  <2> DEFINE k == At(g, N2, c)
             A == SumBelow(row(c), N1)
             K == Wmatrix[k]
             P1 == Pow(Between(g, c))
             P2 == Pow(z2 * c)
             P == Pow(E(c))
             e == [r \in 0 .. N1 - 1 |-> P * row(c)[r]]
  <2>1. k \in Index /\ k \div N2 = g /\ k % N2 = c
    BY Cells
  <2>2. f[c] = Mod(Mod(A) * K) * P2
    <3>1. f[c] = Rows[k] * P2
      BY DEF RowTerms
    <3>2. Rows[k] = Mod(Crossed[k] * K) /\ Crossed[k] = Mod(A)
      BY <1>7, <1>9, <2>1
    <3> QED
      BY <3>1, <3>2
  <2>3. K \in Int /\ Mod(K) = Mod(P1)
    BY <1>7, <2>1, WmatrixFacts
  <2>4. P1 \in Int /\ P2 \in Int /\ P \in Int /\ Mod(P) = Mod(P1 * P2)
    <3> DEFINE x == Between(g, c)
               y == z2 * c
    <3>1. x \in Int /\ y \in Int
      BY <1>4, <1>5
    <3> HIDE DEF x, y
    <3>2. x + y \in Int
      BY <3>1
    <3> QED
      BY <3>1, <3>2, PowRange, PowSum DEF x, y
  <2>5. A \in Int /\ \A r \in 0 .. N1 - 1 : row(c)[r] \in Int
    BY <1>9
  <2>6. \A r \in 0 .. N1 - 1 : Mod(P * row(c)[r]) = Mod(t[c][r]) /\ t[c][r] \in Int
    BY <1>10
  <2> DEFINE s == row(c)
             T == t[c]
  <2>7. \A r \in 0 .. N1 - 1 : s[r] \in Int /\ e[r] = P * s[r] /\ T[r] \in Int /\ Mod(e[r]) = Mod(T[r])
    BY <2>5, <2>6
  <2>8. A = SumBelow(s, N1) /\ h[c] = SumBelow(T, N1)
    OBVIOUS
  <2> HIDE DEF P, P1, P2, K, A, e, s, T, k, f, h, row, t, E
  <2>9. SumBelow(e, N1) = P * A /\ P * A \in Int
    <3>1. SumBelow(e, N1) = P * SumBelow(s, N1)
      BY <1>1, <2>4, <2>7, BelowTimes
    <3> QED
      BY <2>4, <2>5, <2>8, <3>1
  <2>10. \A r \in 0 .. N1 - 1 : e[r] \in Int /\ T[r] \in Int /\ Mod(e[r]) = Mod(T[r])
    <3> TAKE r \in 0 .. N1 - 1
    <3> DEFINE y == s[r]
    <3>1. y \in Int /\ e[r] = P * y
      BY <2>7
    <3> HIDE DEF y
    <3>2. P * y \in Int
      BY <2>4, <3>1
    <3> QED
      BY <2>7, <3>1, <3>2
  <2>11. Mod(SumBelow(e, N1)) = Mod(SumBelow(T, N1)) /\ SumBelow(T, N1) \in Int
    <3>1. Mod(SumBelow(e, N1)) = Mod(SumBelow(T, N1))
      BY <1>1, <2>10, ModSum
    <3>2. SumBelow(T, N1) \in Int
      BY <1>1, <2>10, BelowIsNumber
    <3> QED
      BY <3>1, <3>2
  <2>12. Mod(Mod(Mod(A) * K) * P2) = Mod(P * A) /\ Mod(Mod(A) * K) * P2 \in Int
    <3>1. Mod(A) \in Int /\ Mod(Mod(A)) = Mod(A)
      BY <2>5, ModRange
    <3> DEFINE B == Mod(A)
               C == B * K
    <3>2. B \in Int /\ Mod(B) = Mod(A) /\ C = B * K
      BY <3>1
    <3> HIDE DEF B, C
    <3>3. C \in Int
      BY <2>3, <3>2
    <3> DEFINE D == Mod(C)
               F == A * P1
               G == P1 * P2
    <3>4. Mod(C) = Mod(F) /\ F \in Int /\ G \in Int /\ D \in Int /\ Mod(D) = Mod(C)
      <4>1. Mod(B * K) = Mod(A * P1)
        BY <2>3, <2>4, <2>5, <3>2, ModOperations
      <4>2. F \in Int /\ G \in Int
        BY <2>4, <2>5
      <4>3. D \in Int /\ Mod(D) = Mod(C)
        BY <3>3, ModRange
      <4> QED
        BY <3>2, <4>1, <4>2, <4>3
    <3>5. F * P2 = A * G
      BY <2>4, <2>5
    <3>6. P * A = A * P
      BY <2>4, <2>5
    <3> HIDE DEF D, F, G
    <3>7. Mod(D) = Mod(F) /\ Mod(P2) \in Int /\ Mod(A) \in Int
      BY <2>4, <3>1, <3>4, ModRange
    <3>8. Mod(D * P2) = Mod(F * P2) /\ D * P2 \in Int
      BY <2>4, <3>4, <3>7, ModTimes
    <3>9. Mod(A * P) = Mod(A * G)
      <4>1. Mod(P) = Mod(G)
        BY <2>4 DEF G
      <4> QED
        BY <2>4, <2>5, <3>4, <3>7, <4>1, ModTimes
    <3> QED
      BY <3>2, <3>5, <3>6, <3>8, <3>9 DEF D, B
  <2>13. \A r \in 0 .. N1 - 1 : t[c][r] \in Int
    BY <2>7 DEF T
  <2> QED
    BY <2>2, <2>8, <2>9, <2>11, <2>12, <2>13
<1> DEFINE F == SumBelow(f, N2)
           S == SumBelow(term, N)
<1>12. Mod(F) = Mod(SumBelow(h, N2))
  <2> HIDE DEF f, h, t
  <2>1. \A c \in 0 .. N2 - 1 : f[c] \in Int /\ h[c] \in Int /\ Mod(f[c]) = Mod(h[c])
    BY <1>11
  <2> QED
    BY <1>1, <2>1, ModSum
<1>13. SumBelow(h, N2) = SumBelow([r \in 0 .. N1 - 1 |-> SumBelow([c \in 0 .. N2 - 1 |-> t[c][r]], N2)], N1)
  <2>1. \A c \in 0 .. N2 - 1 : \A r \in 0 .. N1 - 1 : t[c][r] \in Int
    BY <1>11
  <2> DEFINE n1 == N1
             n2 == N2
  <2>0. n1 \in Nat /\ n2 \in Nat /\ \A c \in 0 .. n2 - 1 : \A r \in 0 .. n1 - 1 : t[c][r] \in Int
    BY <1>1, <2>1
  <2> HIDE DEF t, n1, n2
  <2>2. SumBelow([c \in 0 .. n2 - 1 |-> SumBelow(t[c], n1)], n2)
          = SumBelow([r \in 0 .. n1 - 1 |-> SumBelow([c \in 0 .. n2 - 1 |-> t[c][r]], n2)], n1)
    BY <2>0, BelowSwap
  <2> QED
    BY <2>2 DEF n1, n2
<1>14. S = SumBelow([r \in 0 .. N1 - 1 |-> SumBelow([c \in 0 .. N2 - 1 |-> term[r * N2 + c]], N2)], N1)
  <2> DEFINE n1 == N1
             n2 == N2
  <2>1. n1 \in Nat /\ n2 \in Nat /\ N = n1 * n2 /\ \A k \in 0 .. n1 * n2 - 1 : term[k] \in Int
    BY <1>1, <1>8 DEF Index
  <2> HIDE DEF n1, n2
  <2>2. SumBelow(term, n1 * n2)
          = SumBelow([r \in 0 .. n1 - 1 |-> SumBelow([c \in 0 .. n2 - 1 |-> term[r * n2 + c]], n2)], n1)
    BY <2>1, BelowSplit
  <2> QED
    BY <2>1, <2>2 DEF n1, n2
<1>15. [r \in 0 .. N1 - 1 |-> SumBelow([c \in 0 .. N2 - 1 |-> t[c][r]], N2)]
         = [r \in 0 .. N1 - 1 |-> SumBelow([c \in 0 .. N2 - 1 |-> term[r * N2 + c]], N2)]
  <2>1. \A r \in 0 .. N1 - 1 : [c \in 0 .. N2 - 1 |-> t[c][r]] = [c \in 0 .. N2 - 1 |-> term[r * N2 + c]]
    BY DEF At
  <2> HIDE DEF t
  <2> QED
    BY <2>1
<1>16. Remainder(Rows, N2, N2)[n] = Mod(F)
  <2> DEFINE length == N2
  <2>1. /\ d2 \in Int /\ length \in Int /\ g \in Int /\ i \in Int /\ length = Pow2[d2] /\ d2 \in 0 .. LogN
        /\ g \in 0 .. Pow2[LogN - d2] - 1 /\ i \in 0 .. length - 1
    BY <1>1
  <2> HIDE DEF length
  <2>2. Remainder(Rows, length, length)[At(g, length, i)] = Mod(SumBelow(RowTerms(Rows, length, g, Zeta(d2, i)), length))
    BY <1>7, <2>1, RemainderAll
  <2> QED
    BY <2>2 DEF length, z2
<1>17. Remainder(poly, N, N)[n] = Mod(S)
  <2> HIDE DEF n
  <2>1. Remainder(poly, N, N)[n] = Mod(Sample(poly, Odd(n)))
    BY <1>3, <1>7, ValueFacts
  <2> QED
    BY <2>1 DEF Sample, Terms, z, term
<1> QED
  BY <1>12, <1>13, <1>14, <1>15, <1>16, <1>17

-------------------------------------------------------------------------------
(* What the words stand for, form by form *)

Stand ==
  /\ form = "coef" => Agree(poly, a)
  /\ form = "ntt" => Agree(Remainder(poly, N, m), a)
  /\ form = "cols" => Agree(Remainder(Columns, N1, m), a)
  /\ form = "rows" => Agree(Remainder(Rows, N2, m), a)
  /\ form = "value" => Agree(Remainder(poly, N, N), a)
  /\ form = "intt" => Agree([k \in Index |-> (N \div m) * Remainder(poly, N, m)[k]], a)

\* The numbers of those arrays.
LEMMA StandTypes ==
  ASSUME NttTypeOK
  PROVE  /\ a \in [Index -> Int] /\ poly \in [Index -> Int] /\ poly \in [Index -> 0 .. q - 1]
         /\ Remainder(poly, N, N) \in [Index -> Int]
         /\ form \in {"ntt", "intt"} => Remainder(poly, N, m) \in [Index -> Int]
         /\ form = "cols" => Remainder(Columns, N1, m) \in [Index -> Int]
         /\ form = "rows" => Remainder(Rows, N2, m) \in [Index -> Int]
         /\ N \div m \in Int
<1>1. R \in Nat /\ q \in Nat /\ poly \in [Index -> 0 .. q - 1] /\ a \in [Index -> 0 .. R - 1]
  BY Sizes DEF NttTypeOK
<1>2. a \in [Index -> Int] /\ poly \in [Index -> Int]
  BY <1>1
<1>3. Columns \in [Index -> Int] /\ Rows \in [Index -> Int]
  BY <1>1, FourStepTables
<1>4. ASSUME NEW d \in 0 .. LogN, NEW e \in 0 .. d, NEW x \in [Index -> Int]
      PROVE  Remainder(x, Pow2[d], Pow2[e]) \in [Index -> Int]
  <2> DEFINE length == Pow2[d]
             b == Pow2[e]
             w == Pow2[d - e]
  <2>1. d \in Nat /\ e \in Nat /\ d - e \in Nat /\ d \in Int /\ e \in Int
    BY Sizes
  <2>2. length \in Int /\ b \in Int /\ w \in Int /\ AreBlocksIn(d, e, length, b, w)
    BY <2>1, Pow2Facts DEF AreBlocksIn
  <2> HIDE DEF length, b, w
  <2>3. Remainder(x, length, b) \in [Index -> 0 .. q - 1]
    BY <2>1, <2>2, RemainderType
  <2> DEFINE y == Remainder(x, length, b)
  <2> HIDE DEF y
  <2>4. y \in [Index -> Int]
    BY <1>1, <2>3 DEF y
  <2> QED
    BY <2>4 DEF y, length, b
<1>5. PICK d \in 0 .. LogN : \E e \in 0 .. d : LoopAt(d, e)
  BY DEF NttTypeOK
<1>6. PICK e \in 0 .. d : LoopAt(d, e)
  BY <1>5
<1>7. /\ LogN \in 0 .. LogN /\ N = Pow2[LogN] /\ N1 = Pow2[LogN1] /\ N2 = Pow2[LogN - LogN1]
      /\ LogN \in Nat /\ d \in Nat /\ e \in Nat
  BY Sizes DEF N, N1, N2
<1>8. m = Pow2[e] /\ m \in Nat \ {0} /\ N \in Nat
  BY <1>6, <1>7, Pow2Facts, Sizes DEF LoopAt
<1>9. N \div m \in Int
  BY <1>8
<1>10. Remainder(poly, N, N) \in [Index -> Int]
  BY <1>2, <1>4, <1>7
<1>11. form \in {"ntt", "intt"} => Remainder(poly, N, m) \in [Index -> Int]
  BY <1>2, <1>4, <1>6, <1>7 DEF LoopAt
<1>12. form = "cols" => Remainder(Columns, N1, m) \in [Index -> Int]
  BY <1>3, <1>4, <1>6, <1>7 DEF LoopAt
<1>13. form = "rows" => Remainder(Rows, N2, m) \in [Index -> Int]
  BY <1>3, <1>4, <1>6, <1>7 DEF LoopAt
<1> QED
  BY <1>1, <1>2, <1>9, <1>10, <1>11, <1>12, <1>13

LEMMA StandsForIsStand == NttTypeOK => (StandsFor <=> (~imulted => Stand))
<1> SUFFICES ASSUME NttTypeOK PROVE StandsFor <=> (~imulted => Stand)
  OBVIOUS
<1> DEFINE x == CASE form = "coef"  -> poly
                  [] form = "ntt"   -> Remainder(poly, N, m)
                  [] form = "cols"  -> Remainder(Columns, N1, m)
                  [] form = "rows"  -> Remainder(Rows, N2, m)
                  [] form = "value" -> Remainder(poly, N, N)
                  [] form = "intt"  -> Remainder(poly, N, m)
           c == IF form = "intt" THEN N \div m ELSE 1
           scaled == [k \in Index |-> c * x[k]]
<1>1. /\ a \in [Index -> Int] /\ poly \in [Index -> Int] /\ Remainder(poly, N, N) \in [Index -> Int]
      /\ form \in {"ntt", "intt"} => Remainder(poly, N, m) \in [Index -> Int]
      /\ form = "cols" => Remainder(Columns, N1, m) \in [Index -> Int]
      /\ form = "rows" => Remainder(Rows, N2, m) \in [Index -> Int]
      /\ N \div m \in Int /\ form \in Forms
  BY StandTypes DEF NttTypeOK
<1>2. StandsFor <=> (~imulted => \A k \in Index : (c * x[k] - a[k]) % q = 0)
  BY DEF StandsFor
<1>3. x \in [Index -> Int] /\ c \in Int
  BY <1>1 DEF Forms
<1>4. (\A k \in Index : (c * x[k] - a[k]) % q = 0) <=> Agree(scaled, a)
  <2> HIDE DEF c, x
  <2>1. ASSUME NEW k \in Index
        PROVE  /\ scaled[k] \in Int /\ a[k] \in Int
               /\ (c * x[k] - a[k]) % q = 0 <=> Mod(scaled[k]) = Mod(a[k])
    <3> DEFINE u == c * x[k]
               v == a[k]
    <3>1. x[k] \in Int /\ a[k] \in Int
      BY <1>1, <1>3
    <3>2. u \in Int /\ v \in Int /\ scaled[k] = u
      BY <1>3, <3>1
    <3> HIDE DEF u, v, scaled
    <3>3. (u - v) % q = 0 <=> Mod(u) = Mod(v)
      BY <3>2, ModFacts
    <3> QED
      BY <3>2, <3>3 DEF u, v
  <2> QED
    BY <2>1 DEF Agree
<1>5. form # "intt" => (Agree(scaled, a) <=> Agree(x, a))
  <2> SUFFICES ASSUME form # "intt" PROVE Agree(scaled, a) <=> Agree(x, a)
    OBVIOUS
  <2>1. \A k \in Index : scaled[k] = 1 * x[k]
    OBVIOUS
  <2> HIDE DEF x, scaled
  <2>2. \A k \in Index : scaled[k] = x[k]
    BY <1>3, <2>1
  <2> QED
    BY <2>2 DEF Agree
<1>6. form = "intt" => scaled = [k \in Index |-> (N \div m) * Remainder(poly, N, m)[k]]
  OBVIOUS
<1>7. Stand <=> IF form = "intt" THEN Agree(scaled, a) ELSE Agree(x, a)
  <2>1. CASE form = "intt"
    <3> HIDE DEF scaled
    <3> QED
      BY <1>6, <2>1 DEF Stand
  <2>2. CASE form # "intt"
    <3>1. form \in {"coef", "ntt", "cols", "rows", "value"}
      BY <1>1, <2>2 DEF Forms
    <3> QED
      BY <2>2, <3>1 DEF Stand
  <2> QED
    BY <2>1, <2>2
<1> HIDE DEF x, c, scaled
<1> QED
  BY <1>2, <1>4, <1>5, <1>7

LEMMA InitStands == Init => Stand
<1> SUFFICES ASSUME Init PROVE Stand
  OBVIOUS
<1>1. form = "coef" /\ poly = [k \in Index |-> a[k] % q] /\ \A k \in Index : a[k] \in Int
  BY LargestFacts, Sizes DEF Init
<1>2. ASSUME NEW k \in Index PROVE poly[k] \in Int /\ a[k] \in Int /\ Mod(poly[k]) = Mod(a[k])
  <2> DEFINE u == a[k]
  <2>1. u \in Int /\ poly[k] = Mod(u)
    BY <1>1 DEF Mod
  <2> HIDE DEF u
  <2> QED
    BY <1>1, <2>1, ModRange DEF u
<1> QED
  BY <1>1, <1>2 DEF Stand, Agree

\* Before the first layer.
LEMMA AgreeOne ==
  ASSUME NEW d \in Int, NEW length \in Int, NEW x, NEW s,
         length = Pow2[d], d \in 0 .. LogN, x \in [Index -> Int], Agree(x, s)
  PROVE  Agree(Remainder(x, length, 1), s)
<1> SUFFICES ASSUME NEW k \in Index
             PROVE  Remainder(x, length, 1)[k] \in Int /\ s[k] \in Int /\ Mod(Remainder(x, length, 1)[k]) = Mod(s[k])
  BY DEF Agree
<1>1. Remainder(x, length, 1)[k] = Mod(x[k]) /\ x[k] \in Int
  BY RemainderOne
<1>2. s[k] \in Int /\ Mod(x[k]) = Mod(s[k])
  BY DEF Agree
<1> QED
  BY <1>1, <1>2, ModRange

LEMMA BeginNTTStands ==
  ASSUME NttTypeOK, Stand, NEW al, BeginNTT(al) PROVE Stand'
<1>1. form = "coef" /\ form' = "ntt" /\ m' = 1 /\ a' = a /\ poly' = poly
  BY DEF BeginNTT
<1>2. poly \in [Index -> Int] /\ Agree(poly, a)
  BY <1>1, StandTypes DEF Stand
<1> DEFINE d == LogN
           length == N
<1>3. length = Pow2[d] /\ d \in 0 .. LogN /\ d \in Int /\ length \in Int
  BY Sizes DEF N
<1> HIDE DEF d, length
<1>4. Agree(Remainder(poly, length, 1), a)
  BY <1>2, <1>3, AgreeOne
<1> QED
  BY <1>1, <1>4 DEF Stand, length

LEMMA AgreeTransposed ==
  ASSUME NEW x, NEW s, Agree(x, s)
  PROVE  Agree(Transposed(x, N1, N2), Transposed(s, N1, N2)) /\ Agree(Transposed(x, N2, N1), Transposed(s, N2, N1))
<1> SUFFICES ASSUME NEW k \in Index
             PROVE  LET y1 == Transposed(x, N1, N2)  s1 == Transposed(s, N1, N2)
                        y2 == Transposed(x, N2, N1)  s2 == Transposed(s, N2, N1)
                    IN  /\ y1[k] \in Int /\ s1[k] \in Int /\ Mod(y1[k]) = Mod(s1[k])
                        /\ y2[k] \in Int /\ s2[k] \in Int /\ Mod(y2[k]) = Mod(s2[k])
  BY DEF Agree
<1> DEFINE i == (k % N1) * N2 + k \div N1
           j == (k % N2) * N1 + k \div N2
<1>1. i \in Index /\ j \in Index
  BY TransposedFacts
<1>2. /\ Transposed(x, N1, N2)[k] = x[i] /\ Transposed(s, N1, N2)[k] = s[i]
      /\ Transposed(x, N2, N1)[k] = x[j] /\ Transposed(s, N2, N1)[k] = s[j]
  BY DEF Transposed
<1> HIDE DEF i, j
<1> QED
  BY <1>1, <1>2 DEF Agree

LEMMA BeginStep4Stands ==
  ASSUME NttTypeOK, Stand, NEW al, BeginStep4(al) PROVE Stand'
<1>1. form = "coef" /\ form' = "cols" /\ m' = 1 /\ a' = Transposed(a, N1, N2) /\ poly' = poly
  BY DEF BeginStep4
<1>2. poly \in [Index -> 0 .. q - 1] /\ Agree(poly, a)
  BY <1>1, StandTypes DEF Stand
<1>3. Columns \in [Index -> Int] /\ Agree(Columns, a')
  BY <1>1, <1>2, FourStepTables, AgreeTransposed DEF Columns
<1> DEFINE d == LogN1
           length == N1
<1>4. length = Pow2[d] /\ d \in 0 .. LogN /\ d \in Int /\ length \in Int
  BY Sizes DEF N1
<1> HIDE DEF d, length
<1>5. Agree(Remainder(Columns, length, 1), a')
  BY <1>3, <1>4, AgreeOne
<1>6. Columns' = Columns
  BY <1>1 DEF Columns
<1> QED
  BY <1>1, <1>5, <1>6 DEF Stand, length

LEMMA Step4RowsStands ==
  ASSUME NttTypeOK, Stand, Step4Rows PROVE Stand'
<1> DEFINE s == Transposed(a, N2, N1)
<1>1. form = "cols" /\ m = N1 /\ form' = "rows" /\ m' = 1 /\ a' = RowsTimes(s, alg, N2) /\ poly' = poly
  BY DEF Step4Rows
<1>2. a \in [Index -> 0 .. R - 1] /\ poly \in [Index -> 0 .. q - 1] /\ alg \in Variants /\ q \in Nat /\ R \in Nat
  BY Sizes DEF NttTypeOK
<1>3. s \in [Index -> 0 .. R - 1]
  BY <1>2, TransposedType
<1>4. Agree(Crossed, s)
  BY <1>1, AgreeTransposed DEF Stand, Crossed
<1>5. /\ Rows \in [Index -> Int]
      /\ \A k \in Index : Crossed[k] \in Int /\ Wmatrix[k] \in Int /\ Rows[k] = Mod(Crossed[k] * Wmatrix[k])
  BY <1>2, FourStepTables
<1> HIDE DEF s
<1>6. a' \in [Index -> 0 .. q] /\ \A k \in Index : Mod(a'[k]) = Mod(s[k] * Wmatrix[k])
  BY <1>1, <1>2, <1>3, RowsTimesFacts
<1>7. Agree(Rows, a')
  <2> SUFFICES ASSUME NEW k \in Index PROVE Rows[k] \in Int /\ a'[k] \in Int /\ Mod(Rows[k]) = Mod(a'[k])
    BY DEF Agree
  <2> DEFINE X == Crossed[k]
             S == s[k]
             W == Wmatrix[k]
  <2>1. X \in Int /\ S \in Int /\ W \in Int /\ Mod(X) = Mod(S) /\ Rows[k] = Mod(X * W) /\ Mod(a'[k]) = Mod(S * W)
        /\ a'[k] \in Int
    BY <1>2, <1>4, <1>5, <1>6 DEF Agree
  <2> HIDE DEF X, S, W
  <2>2. Mod(W) \in Int /\ X * W \in Int
    BY <2>1, ModRange
  <2>3. Mod(X * W) = Mod(S * W)
    BY <2>1, <2>2, ModTimes
  <2>4. Mod(Mod(X * W)) = Mod(X * W) /\ Mod(X * W) \in Int
    <3> DEFINE u == X * W
    <3> HIDE DEF u
    <3>1. u \in Int
      BY <2>2 DEF u
    <3> QED
      BY <3>1, ModRange DEF u
  <2> QED
    BY <2>1, <2>3, <2>4
<1> DEFINE d == LogN - LogN1
           length == N2
<1>8. length = Pow2[d] /\ d \in 0 .. LogN /\ d \in Int /\ length \in Int
  BY Sizes DEF N2
<1> HIDE DEF d, length
<1>9. Agree(Remainder(Rows, length, 1), a')
  BY <1>5, <1>7, <1>8, AgreeOne
<1>10. Rows' = Rows
  BY <1>1 DEF Rows, Columns
<1> QED
  BY <1>1, <1>9, <1>10 DEF Stand, length

\* Without rvv_bar a schedule is complete.
LEMMA NTTLayerStands ==
  ASSUME NttTypeOK, "rvv_bar" \notin Variant, NEW B \in q .. R - q - 1, a \in [Index -> 0 .. B], Stand, NTTLayer
  PROVE  Stand'
<1> DEFINE x == CASE form = "ntt" -> poly [] form = "cols" -> Columns [] form = "rows" -> Rows
<1>1. /\ a' = LayerOf(a, alg, len, m) /\ form \in {"ntt", "cols", "rows"} /\ m < len /\ poly' = poly
      /\ IF 2 * m = len /\ form # "cols"
         THEN form' = "value" /\ m' = N
         ELSE m' = 2 * m /\ form' = form
  BY DEF NTTLayer
<1>2. PICK d \in 0 .. LogN : \E e \in 0 .. d - 1 :
        LoopAt(d, e) /\ AreLayer(d, e, len, m, Pow2[d - e - 1]) /\ Pow2[d] \in RowLengths /\ FitsVector(alg, len)
  BY <1>1, LayerLoop
<1>3. PICK e \in 0 .. d - 1 :
        LoopAt(d, e) /\ AreLayer(d, e, len, m, Pow2[d - e - 1]) /\ Pow2[d] \in RowLengths /\ FitsVector(alg, len)
  BY <1>2
<1> DEFINE t == Pow2[d - e - 1]
           length == len
           b == m
<1>4. alg \in Variants /\ alg # "rvv_bar" /\ length \in Int /\ b \in Int /\ t \in Int /\ d \in Int /\ e \in Int /\ B \in Int
      /\ AreLayer(d, e, length, b, t) /\ FitsVector(alg, length)
  <2>1. d \in Nat /\ e \in Nat /\ d - e - 1 \in Nat /\ B \in Int
    BY Sizes
  <2>2. len \in Int /\ m \in Int /\ t \in Int
    BY <1>3, <2>1, Pow2Facts DEF AreLayer
  <2>3. alg \in Variants /\ alg # "rvv_bar"
    BY <1>1 DEF NttTypeOK
  <2> QED
    BY <1>3, <2>1, <2>2, <2>3
<1>5. poly \in [Index -> Int] /\ Columns \in [Index -> Int] /\ Rows \in [Index -> Int] /\ poly \in [Index -> 0 .. q - 1]
  <2>1. poly \in [Index -> 0 .. q - 1]
    BY DEF NttTypeOK
  <2> QED
    BY <2>1, FourStepTables
<1>6. /\ x \in [Index -> Int]
      /\ form = "ntt" => x = poly
      /\ form = "cols" => x = Columns
      /\ form = "rows" => x = Rows
  <2>1. form = "ntt" => x = poly
    OBVIOUS
  <2>2. form = "cols" => x = Columns
    OBVIOUS
  <2>3. form = "rows" => x = Rows
    OBVIOUS
  <2> HIDE DEF x
  <2> QED
    BY <1>1, <1>5, <2>1, <2>2, <2>3
<1> HIDE DEF x
<1>7. /\ N = Pow2[LogN] /\ N1 = Pow2[LogN1] /\ N2 = Pow2[LogN - LogN1]
      /\ form = "ntt" => len = N
      /\ form = "cols" => len = N1
      /\ form = "rows" => len = N2
  BY <1>3 DEF N, N1, N2, LoopAt
<1>8. Agree(Remainder(x, length, b), a)
  <2>1. CASE form = "ntt"
    BY <1>6, <1>7, <2>1 DEF Stand
  <2>2. CASE form = "cols"
    BY <1>6, <1>7, <2>2 DEF Stand
  <2>3. CASE form = "rows"
    BY <1>6, <1>7, <2>3 DEF Stand
  <2> QED
    BY <1>1, <2>1, <2>2, <2>3
<1> HIDE DEF t, length, b
<1>9. Agree(Remainder(x, length, 2 * b), LayerOf(a, alg, length, b))
  BY <1>3, <1>4, <1>6, <1>8, LayerStands
<1>10. Agree(Remainder(x, len, 2 * m), a')
  BY <1>1, <1>9 DEF length, b
<1>11. Columns' = Columns /\ Rows' = Rows
  BY <1>1 DEF Rows, Columns
<1>12. CASE form = "ntt"
  <2>1. Agree(Remainder(poly, N, 2 * m), a')
    BY <1>6, <1>7, <1>10, <1>12
  <2>2. CASE 2 * m # len
    BY <1>1, <1>12, <2>1, <2>2 DEF Stand
  <2>3. CASE 2 * m = len
    <3>1. Agree(Remainder(poly, N, N), a')
      BY <1>7, <1>12, <2>1, <2>3
    <3> QED
      BY <1>1, <1>12, <2>3, <3>1 DEF Stand
  <2> QED
    BY <2>2, <2>3
<1>13. CASE form = "cols"
  <2>1. Agree(Remainder(Columns, N1, 2 * m), a')
    BY <1>6, <1>7, <1>10, <1>13
  <2> QED
    BY <1>1, <1>11, <1>13, <2>1 DEF Stand
<1>14. CASE form = "rows"
  <2>1. Agree(Remainder(Rows, N2, 2 * m), a')
    BY <1>6, <1>7, <1>10, <1>14
  <2>2. CASE 2 * m # len
    BY <1>1, <1>11, <1>14, <2>1, <2>2 DEF Stand
  <2>3. CASE 2 * m = len
    <3>1. Agree(Remainder(Rows, N2, N2), a')
      BY <1>7, <1>14, <2>1, <2>3
    <3>2. \A k \in Index : Remainder(Rows, N2, N2)[k] = Remainder(poly, N, N)[k]
      <4> TAKE k \in Index
      <4>1. k \div N2 \in 0 .. N1 - 1 /\ k % N2 \in 0 .. N2 - 1 /\ k = At(k \div N2, N2, k % N2)
        BY Matrix DEF At
      <4>2. Remainder(Rows, N2, N2)[At(k \div N2, N2, k % N2)] = Remainder(poly, N, N)[At(k \div N2, N2, k % N2)]
        BY <1>5, <4>1, RowsAreValues
      <4> QED
        BY <4>1, <4>2
    <3>3. Agree(Remainder(poly, N, N), a')
      BY <3>1, <3>2 DEF Agree
    <3> QED
      BY <1>1, <1>14, <2>3, <3>3 DEF Stand
  <2> QED
    BY <2>2, <2>3
<1> QED
  BY <1>1, <1>12, <1>13, <1>14

-------------------------------------------------------------------------------
(* The inverse takes remainders for b blocks back to those for half of them *)

LEMMA BeginINTTStands ==
  ASSUME NttTypeOK, Stand, BeginINTT PROVE Stand'
<1>1. form = "value" /\ form' = "intt" /\ m' = N /\ a' = a /\ poly' = poly
  BY DEF BeginINTT
<1> DEFINE x == Remainder(poly, N, N)
           c == N \div N
<1>2. x \in [Index -> Int] /\ Agree(x, a)
  BY <1>1, StandTypes DEF Stand
<1>3. c = 1
  <2>1. N \in Nat \ {0}
    BY Sizes
  <2> DEFINE n == N
  <2> HIDE DEF n
  <2>2. n \in Nat \ {0}
    BY <2>1 DEF n
  <2>3. n \div n = 1
    BY <2>2
  <2> QED
    BY <2>3 DEF n
<1> HIDE DEF x, c
<1>4. Agree([k \in Index |-> c * x[k]], a)
  <2>1. \A k \in Index : c * x[k] = x[k]
    BY <1>2, <1>3
  <2> QED
    BY <1>2, <2>1 DEF Agree
<1> QED
  BY <1>1, <1>4 DEF Stand, x, c

\* Sum and difference of the two words of a butterfly, and what they undo.
AreButterfly(c, A, B, X1, X2, Y1, Y2, W, V) ==
  /\ Mod(c * X1) = Mod(A) /\ Mod(c * X2) = Mod(B)
  /\ X1 = Mod(Y1 + Y2 * W) /\ X2 = Mod(Y1 - Y2 * W) /\ Mod(W * V) = Mod(1)

IsUndone(c, A, B, Y1, Y2, V) == Mod(A + B) = Mod((2 * c) * Y1) /\ Mod((A - B) * V) = Mod((2 * c) * Y2)

LEMMA Butterfly ==
  ASSUME NEW c \in Int, NEW A \in Int, NEW B \in Int, NEW X1 \in Int, NEW X2 \in Int, NEW Y1 \in Int, NEW Y2 \in Int,
         NEW W \in Int, NEW V \in Int, AreButterfly(c, A, B, X1, X2, Y1, Y2, W, V)
  PROVE  IsUndone(c, A, B, Y1, Y2, V)
<1> DEFINE U1 == Y1 + Y2 * W
           U2 == Y1 - Y2 * W
           D == (2 * c) * Y2
<1>1. U1 \in Int /\ U2 \in Int /\ D \in Int /\ c * U1 + c * U2 = (2 * c) * Y1 /\ c * U1 - c * U2 = D * W
  OBVIOUS
<1>2. /\ Mod(c * X1) = Mod(A) /\ Mod(c * X2) = Mod(B)
      /\ X1 = Mod(U1) /\ X2 = Mod(U2) /\ Mod(W * V) = Mod(1)
  BY DEF AreButterfly
<1> HIDE DEF U1, U2, D
<1>3. Mod(X1) = Mod(U1) /\ Mod(X2) = Mod(U2) /\ Mod(c) \in Int
  BY <1>1, <1>2, ModRange
<1>4. Mod(c * X1) = Mod(c * U1) /\ Mod(c * X2) = Mod(c * U2)
  BY <1>1, <1>3, ModTimes
<1> DEFINE P1 == c * U1
           P2 == c * U2
<1>5. P1 \in Int /\ P2 \in Int /\ Mod(A) = Mod(P1) /\ Mod(B) = Mod(P2)
  BY <1>1, <1>2, <1>4
<1>6. P1 + P2 = (2 * c) * Y1 /\ P1 - P2 = D * W
  BY <1>1
<1> HIDE DEF P1, P2
<1>7. Mod(A + B) = Mod(P1 + P2) /\ Mod(A - B) = Mod(P1 - P2)
  BY <1>5, ModOperations
<1> DEFINE E == A - B
           F == D * W
           G == W * V
           one == 1
<1>8. E \in Int /\ F \in Int /\ G \in Int /\ Mod(E) = Mod(F) /\ F * V = D * G /\ D * one = D /\ one \in Int
      /\ Mod(G) = Mod(one)
  BY <1>1, <1>2, <1>6, <1>7
<1> HIDE DEF E, F, G, one
<1>9. Mod(V) \in Int /\ Mod(D) \in Int
  BY <1>1, ModRange
<1>10. Mod(E * V) = Mod(F * V)
  BY <1>8, <1>9, ModTimes
<1>11. Mod(D * G) = Mod(D * one)
  BY <1>1, <1>8, <1>9, ModTimes
<1> QED
  BY <1>6, <1>7, <1>8, <1>10, <1>11 DEF E, D, IsUndone

\* The first words of the butterflies of the whole array, and the second.
LEMMA Halved ==
  ASSUME NEW b \in Nat \ {0}, NEW t \in Nat \ {0}, AreBlocks(N, b, t), NEW k \in Index
  PROVE  /\ k % N = k
         /\ k \in Lower(N, t) <=> k % (2 * t) < t
         /\ k \in Lower(N, t) => /\ k + t \in Index /\ (k + t) \notin Lower(N, t)
                                 /\ (k + t) \div (2 * t) = k \div (2 * t)
         /\ k \notin Lower(N, t) => /\ k - t \in Index /\ k - t \in Lower(N, t)
                                    /\ (k - t) \div (2 * t) = k \div (2 * t)
<1> DEFINE w == 2 * t
           i == k \div w
           y == k % w
<1>1. N \in Nat \ {0} /\ k \in 0 .. N - 1 /\ k \in Nat /\ w \in Nat \ {0} /\ w = 2 * t /\ N = b * w
  BY Sizes DEF Index, AreBlocks
<1>2. k % N = k
  BY <1>1
<1>3. k \in Lower(N, t) <=> y < t
  BY <1>1 DEF Lower
<1> HIDE DEF w
<1>4. i \in Nat /\ y \in 0 .. w - 1 /\ k = i * w + y
  BY <1>1, DivMod
<1>5. i <= b - 1
  <2> HIDE DEF i, y
  <2>1. CASE i >= b
    <3>1. i * w >= b * w /\ i * w \in Int /\ b * w \in Int
      BY <1>1, <1>4, <2>1
    <3> QED
      BY <1>1, <1>4, <3>1
  <2> QED
    BY <1>4, <2>1
<1>6. ASSUME NEW z \in 0 .. w - 1
      PROVE  i * w + z \in Index /\ (i * w + z) \div w = i /\ (i * w + z) % w = z
  <2> HIDE DEF i, y
  <2>1. (i * w + z) \div w = i /\ (i * w + z) % w = z
    BY <1>1, <1>4, Compose
  <2>2. i * w <= (b - 1) * w /\ 0 <= i * w /\ i * w \in Int
    BY <1>1, <1>4, <1>5
  <2>3. (b - 1) * w = N - w
    BY <1>1
  <2> QED
    BY <1>1, <2>1, <2>2, <2>3 DEF Index
<1> HIDE DEF i, y
<1>7. y < t => /\ k + t \in Index /\ (k + t) \div w = i /\ ~((k + t) % w < t)
  <2> SUFFICES ASSUME y < t PROVE k + t \in Index /\ (k + t) \div w = i /\ ~((k + t) % w < t)
    OBVIOUS
  <2> DEFINE z == y + t
  <2>1. z \in 0 .. w - 1 /\ ~(z < t)
    BY <1>1, <1>4
  <2>2. i * w \in Int
    BY <1>1, <1>4
  <2>3. k + t = i * w + z
    BY <1>4, <2>2
  <2> HIDE DEF z
  <2> QED
    BY <1>6, <2>1, <2>3
<1>8. ~(y < t) => /\ k - t \in Index /\ (k - t) \div w = i /\ (k - t) % w < t
  <2> SUFFICES ASSUME ~(y < t) PROVE k - t \in Index /\ (k - t) \div w = i /\ (k - t) % w < t
    OBVIOUS
  <2> DEFINE z == y - t
  <2>1. z \in 0 .. w - 1 /\ z < t
    BY <1>1, <1>4
  <2>2. i * w \in Int
    BY <1>1, <1>4
  <2>3. k - t = i * w + z
    BY <1>4, <2>2
  <2> HIDE DEF z
  <2> QED
    BY <1>6, <2>1, <2>3
<1> QED
  BY <1>1, <1>2, <1>3, <1>7, <1>8 DEF Lower, Index, i, w, y

LEMMA INTTLayerStands ==
  ASSUME NttTypeOK, a \in [Index -> 0 .. 2 * q - 1], Stand, INTTLayer
  PROVE  Stand'
<1>1. /\ form = "intt" /\ form' = "intt" /\ m > 1 /\ m' = m \div 2 /\ poly' = poly
      /\ a' = InverseLayerOf(a, N \div m)
  BY DEF INTTLayer
<1>2. PICK f \in 0 .. LogN : LoopAt(LogN, f)
  <2>1. PICK d \in 0 .. LogN : \E f \in 0 .. d : LoopAt(d, f)
    BY DEF NttTypeOK
  <2>2. d = LogN
    BY <1>1, <2>1 DEF LoopAt
  <2> QED
    BY <2>1, <2>2
<1>3. m = Pow2[f] /\ f \in 1 .. LogN
  <2>1. m = Pow2[f]
    BY <1>2 DEF LoopAt
  <2>2. f # 0
    BY <1>1, <2>1, Pow2Facts
  <2> QED
    BY <2>1, <2>2
<1> DEFINE e == f - 1
           b == m \div 2
           t == N \div m
           d == LogN
           length == N
<1>4. b = Pow2[e] /\ t = Pow2[LogN - e - 1] /\ t \in Nat \ {0} /\ e \in 0 .. LogN - 1
  <2>1. \A k \in Index : /\ m \div 2 = Pow2[f - 1] /\ N \div m = Pow2[LogN - (f - 1) - 1]
                         /\ N \div m \in Nat \ {0}
    BY <1>3, InverseLayerFacts
  <2>2. 0 \in Index
    BY Sizes DEF Index
  <2> QED
    BY <1>3, <2>1, <2>2, Sizes
<1>5. /\ d \in Nat /\ e \in Nat /\ d \in Int /\ e \in Int /\ e \in 0 .. d - 1 /\ b \in Nat \ {0} /\ b \in Int /\ t \in Int
      /\ AreLayer(d, e, length, b, t) /\ length \in Int /\ d \in 0 .. LogN /\ Pow2[d] \in RowLengths /\ m = 2 * b
  <2>1. d \in Nat /\ e \in Nat /\ e + 1 = f
    BY <1>3, <1>4, Sizes
  <2>2. b \in Nat \ {0} /\ m = 2 * b
    BY <1>3, <1>4, <2>1, Pow2Facts
  <2>3. AreLayer(d, e, length, b, t) /\ Pow2[d] \in RowLengths
    BY <1>4 DEF AreLayer, N, RowLengths
  <2> QED
    BY <1>4, <2>1, <2>2, <2>3, Sizes
<1>6. AreBlocks(N, b, t)
  <2> HIDE DEF b, t, e, d, length
  <2>1. AreBlocks(length, b, t)
    BY <1>4, <1>5, LayerSizes
  <2> QED
    BY <2>1 DEF length
<1>7. poly \in [Index -> Int]
  BY StandTypes
<1> DEFINE X == Remainder(poly, N, m)
           Y == Remainder(poly, N, b)
           c == N \div m
           W(k) == RootPows[N][b + k \div (2 * t)]
           V(k) == RootPowsInv[b + k \div (2 * t)]
<1>8. \A k \in Index : X[k] \in Int /\ c * X[k] \in Int /\ c \in Int /\ a[k] \in Int /\ Mod(c * X[k]) = Mod(a[k])
  <2>1. Agree([k \in Index |-> c * X[k]], a) /\ X \in [Index -> Int] /\ c \in Int
    BY <1>1, StandTypes DEF Stand
  <2> HIDE DEF X, c
  <2> QED
    BY <2>1 DEF Agree
<1>9. ASSUME NEW k \in Index PROVE SplitsAt(poly, N, b, t, k)
  <2> HIDE DEF b, t, e, d, length
  <2>1. SplitsAt(poly, length, b, t, k)
    BY <1>5, <1>7, LayerSplits
  <2> QED
    BY <2>1 DEF length
<1>10. Y \in [Index -> Int]
  <2> DEFINE w == Pow2[d - e]
  <2>1. w \in Int /\ AreBlocksIn(d, e, length, b, w) /\ e \in 0 .. d
    <3>1. d - e \in Nat /\ e \in 0 .. d
      BY <1>5
    <3>2. w \in Int
      BY <3>1, Pow2Facts
    <3> QED
      BY <1>4, <3>1, <3>2 DEF AreBlocksIn, N
  <2> HIDE DEF b, t, e, d, length, w
  <2>2. Remainder(poly, length, b) \in [Index -> 0 .. q - 1]
    BY <1>5, <1>7, <2>1, RemainderType
  <2> DEFINE x == Remainder(poly, length, b)
  <2> HIDE DEF x
  <2>3. x \in [Index -> Int]
    BY <2>2, Sizes DEF x
  <2> QED
    BY <2>3 DEF x, length
<1>11. N \div b = 2 * c /\ 2 * c \in Int
  <2>1. e \in Nat /\ f \in Nat /\ e <= LogN /\ f <= LogN /\ LogN \in Nat /\ LogN - e = (LogN - f) + 1 /\ LogN - f \in Nat
    BY <1>3, <1>5
  <2>2. N \div b = Pow2[LogN - e] /\ N \div m = Pow2[LogN - f]
    BY <1>3, <1>4, <2>1, Pow2Order DEF N
  <2> QED
    BY <2>1, <2>2, Pow2Facts
<1>12. ASSUME NEW k \in Index
       PROVE  /\ b + k \div (2 * t) \in Index /\ V(k) \in Int /\ W(k) \in Int /\ Mod(W(k) * V(k)) = Mod(1)
              /\ k % (2 * t) < t => k + t \in Index /\ Mod(a'[k]) = Mod(a[k] + a[k + t])
              /\ ~(k % (2 * t) < t) => k - t \in Index /\ Mod(a'[k]) = Mod((a[k - t] - a[k]) * V(k))
              /\ a'[k] \in 0 .. 2 * q - 1
  <2>1. /\ b + k \div (2 * t) \in Index
        /\ InverseLayerOf(a, t)[k] \in 0 .. 2 * q - 1
        /\ k % (2 * t) < t => k + t \in Index /\ Mod(InverseLayerOf(a, t)[k]) = Mod(a[k] + a[k + t])
        /\ ~(k % (2 * t) < t) => k - t \in Index /\ Mod(InverseLayerOf(a, t)[k]) = Mod((a[k - t] - a[k]) * V(k))
    BY <1>3, InverseLayerFacts
  <2> DEFINE j == b + k \div (2 * t)
  <2> HIDE DEF j, b, t
  <2>2. j \in Index
    BY <2>1 DEF j
  <2>3. RootPowsInv[j] \in 1 .. q - 1 /\ Mod(RootPows[N][j] * RootPowsInv[j]) = Mod(1)
    BY <2>2, RootPowsInvFacts
  <2>4. RootPows[N][j] \in 1 .. q - 1
    <3> DEFINE n == LogN
    <3>1. n \in 0 .. LogN /\ Pow2[n] = N /\ Pow2[n] \in RowLengths /\ j \in 0 .. Pow2[n] - 1
      BY <2>2, Sizes DEF N, RowLengths, Index
    <3> HIDE DEF n
    <3>2. RootPows[Pow2[n]][j] \in 1 .. q - 1
      BY <3>1, RootPowsFacts
    <3> QED
      BY <3>1, <3>2
  <2>5. a' = InverseLayerOf(a, t)
    BY <1>1 DEF t
  <2>6. q \in Nat
    BY Sizes
  <2> QED
    BY <2>1, <2>2, <2>3, <2>4, <2>5, <2>6 DEF j
<1>13. ASSUME NEW k \in Index, NEW i \in Index, i = k + t, k % (2 * t) < t
       PROVE  /\ i \div (2 * t) = k \div (2 * t) /\ W(i) = W(k) /\ V(i) = V(k)
              /\ Mod(a[k] + a[i]) = Mod((2 * c) * Y[k]) /\ Mod((a[k] - a[i]) * V(k)) = Mod((2 * c) * Y[i])
  <2>1. /\ k % N = k /\ i % N = i /\ k \in Lower(N, t) /\ i \notin Lower(N, t)
        /\ i \div (2 * t) = k \div (2 * t) /\ i - t = k
    <3>1. k \in Lower(N, t) /\ k % N = k /\ i \notin Lower(N, t) /\ i \div (2 * t) = k \div (2 * t)
      <4> HIDE DEF b, t
      <4> QED
        BY <1>4, <1>5, <1>6, <1>13, Halved
    <3>2. i % N = i
      <4> HIDE DEF b, t
      <4> QED
        BY <1>4, <1>5, <1>6, Halved
    <3>3. i - t = k
      <4> HIDE DEF t
      <4> QED
        BY <1>4, <1>13 DEF Index
    <3> QED
      BY <3>1, <3>2, <3>3
  <2>2. Twiddle(N, b, t, k) = W(k) /\ Twiddle(N, b, t, i) = W(k) /\ W(i) = W(k) /\ V(i) = V(k)
    BY <2>1 DEF Twiddle
  <2>3. X[k] = Mod(Y[k] + Y[i] * W(k)) /\ X[i] = Mod(Y[k] - Y[i] * W(k))
    <3>1. SplitsAt(poly, N, b, t, k) /\ SplitsAt(poly, N, b, t, i)
      BY <1>9
    <3> DEFINE T == W(k)
               Z == Remainder(poly, N, 2 * b)
    <3>2. Twiddle(N, b, t, k) = T /\ Twiddle(N, b, t, i) = T
      BY <2>2
    <3>3. X = Z
      BY <1>5
    <3> HIDE DEF T, b, t, X
    <3>4. Z[k] = Mod(Y[k] + Y[i] * T)
      BY <1>13, <2>1, <3>1, <3>2 DEF SplitsAt
    <3>5. Z[i] = Mod(Y[k] - Y[i] * T)
      BY <1>13, <2>1, <3>1, <3>2 DEF SplitsAt
    <3> HIDE DEF Z, Y
    <3> QED
      BY <3>3, <3>4, <3>5 DEF T
  <2>4. V(k) \in Int /\ W(k) \in Int /\ Mod(W(k) * V(k)) = Mod(1)
    BY <1>12
  <2> DEFINE A == a[k]
             B == a[i]
             X1 == X[k]
             X2 == X[i]
             Y1 == Y[k]
             Y2 == Y[i]
             T == W(k)
             U == V(k)
  <2>5. /\ c \in Int /\ A \in Int /\ B \in Int /\ X1 \in Int /\ X2 \in Int /\ Mod(c * X1) = Mod(A) /\ Mod(c * X2) = Mod(B)
    BY <1>8
  <2>6. Y1 \in Int /\ Y2 \in Int
    BY <1>10
  <2>7. T \in Int /\ U \in Int /\ Mod(T * U) = Mod(1) /\ X1 = Mod(Y1 + Y2 * T) /\ X2 = Mod(Y1 - Y2 * T)
    BY <2>3, <2>4
  <2> HIDE DEF A, B, X1, X2, Y1, Y2, T, U, c
  <2>9. /\ AreButterfly(c, A, B, X1, X2, Y1, Y2, T, U) /\ T \in Int /\ U \in Int
        /\ c \in Int /\ A \in Int /\ B \in Int /\ X1 \in Int /\ X2 \in Int /\ Y1 \in Int /\ Y2 \in Int
    BY <2>5, <2>6, <2>7 DEF AreButterfly
  <2>8. IsUndone(c, A, B, Y1, Y2, U)
    BY <2>9, Butterfly
  <2> QED
    BY <2>1, <2>2, <2>8 DEF A, B, U, Y1, Y2, IsUndone
<1>14. ASSUME NEW k \in Index PROVE (2 * c) * Y[k] \in Int /\ a'[k] \in Int /\ Mod((2 * c) * Y[k]) = Mod(a'[k])
  <2>1. (2 * c) * Y[k] \in Int
    <3> HIDE DEF c, Y
    <3>1. Y[k] \in Int /\ 2 * c \in Int
      BY <1>10, <1>11
    <3> QED
      BY <3>1
  <2>2. a'[k] \in Int
    BY <1>12, Sizes
  <2>3. CASE k % (2 * t) < t
    <3> DEFINE i == k + t
    <3>1. i \in Index /\ Mod(a'[k]) = Mod(a[k] + a[i])
      BY <1>12, <2>3
    <3> HIDE DEF t, c, Y, W, V
    <3>2. Mod(a[k] + a[i]) = Mod((2 * c) * Y[k])
      BY <1>13, <2>3, <3>1
    <3> QED
      BY <2>1, <2>2, <3>1, <3>2
  <2>4. CASE ~(k % (2 * t) < t)
    <3> DEFINE i == k - t
    <3>1. i \in Index /\ Mod(a'[k]) = Mod((a[i] - a[k]) * V(k))
      BY <1>12, <2>4
    <3>2. i % (2 * t) < t /\ k = i + t
      <4>1. k \notin Lower(N, t) /\ i \in Lower(N, t)
        <5> HIDE DEF b, t
        <5> QED
          BY <1>4, <1>5, <1>6, <2>4, Halved DEF i
      <4>2. k = i + t
        <5> HIDE DEF t
        <5> QED
          BY <1>4 DEF Index
      <4> QED
        BY <4>1, <4>2 DEF Lower
    <3> HIDE DEF i, t, c, Y, W, V
    <3>3. Mod((a[i] - a[k]) * V(i)) = Mod((2 * c) * Y[k]) /\ V(k) = V(i)
      BY <1>13, <3>1, <3>2
    <3> QED
      BY <2>1, <2>2, <3>1, <3>3
  <2> QED
    BY <2>3, <2>4
<1>15. Agree([k \in Index |-> (N \div b) * Y[k]], a')
  <2> HIDE DEF b, c, Y
  <2> QED
    BY <1>11, <1>14 DEF Agree
<1> QED
  BY <1>1, <1>15 DEF Stand

LEMMA INTTScaleStands ==
  ASSUME NttTypeOK, a \in [Index -> 0 .. 2 * q - 1], Stand, INTTScale
  PROVE  Stand'
<1>1. /\ form = "intt" /\ form' = "coef" /\ m = 1 /\ poly' = poly
      /\ a' = [k \in Index |-> redc(BelowQ(a[k]), NScaleInv)]
  BY DEF INTTScale
<1>2. poly \in [Index -> Int] /\ N \in Nat \ {0} /\ q \in Nat \ {0} /\ 8 * q < R /\ R \in Nat
  BY StandTypes, Sizes
<1> DEFINE x == Remainder(poly, N, m)
           c == N \div m
           I == InverseMod(N)
           n == N
<1>3. I \in 1 .. q - 1 /\ I \in Int /\ Mod(n * I) = Mod(1) /\ n \in Int /\ c = n
  <2>1. Invertible(N, q) /\ N \in Int /\ \A y \in Nat : y \div 1 = y
    BY <1>2, WordsInvertible
  <2>2. c = n
    BY <1>1, <1>2, <2>1
  <2> HIDE DEF n
  <2>3. n \in Int /\ Invertible(n, q)
    BY <2>1 DEF n
  <2>4. InverseMod(n) \in 1 .. q - 1 /\ Mod(n * InverseMod(n)) = Mod(1)
    BY <2>3, InverseModFacts
  <2> QED
    BY <1>2, <2>2, <2>3, <2>4 DEF n
<1>4. ASSUME NEW k \in Index PROVE poly[k] \in Int /\ a'[k] \in Int /\ Mod(poly[k]) = Mod(a'[k])
  <2> DEFINE A == a[k]
             B == BelowQ(A)
             p == poly[k]
             X == x[k]
             C == redc(B, Scaled(I))
  <2>1. A \in 0 .. 2 * q - 1 /\ p \in Int /\ a'[k] = C
    BY <1>1, <1>2 DEF NScaleInv
  <2>2. X \in Int /\ Mod(X) = Mod(p)
    <3> DEFINE d == LogN
               length == N
    <3>1. length = Pow2[d] /\ d \in 0 .. LogN /\ d \in Int /\ length \in Int
      BY Sizes DEF N
    <3> HIDE DEF d, length
    <3>2. Agree(poly, poly)
      BY <1>2 DEF Agree
    <3>3. Agree(Remainder(poly, length, 1), poly)
      BY <1>2, <3>1, <3>2, AgreeOne
    <3> QED
      BY <1>1, <3>3 DEF length, Agree
  <2>3. Mod(n * X) = Mod(A)
    <3>1. Agree([j \in Index |-> c * x[j]], a)
      BY <1>1 DEF Stand
    <3> HIDE DEF c, x
    <3>2. Mod(c * x[k]) = Mod(a[k])
      BY <3>1 DEF Agree
    <3> QED
      BY <1>3, <3>2
  <2> HIDE DEF A, p, X, I, n
  <2>4. B \in 0 .. R - 1 /\ Mod(B) = Mod(A)
    <3> DEFINE j == 1
    <3>1. A \in Int /\ j \in Int /\ A - j * q = A - q
      BY <1>2, <2>1
    <3> HIDE DEF j
    <3>2. Mod(A - j * q) = Mod(A)
      BY <3>1, ModFacts
    <3> QED
      BY <1>2, <2>1, <3>1, <3>2 DEF BelowQ
  <2> HIDE DEF B
  <2>5. C \in 0 .. q - 1 /\ Mod(C) = Mod(B * I)
    BY <1>3, <2>4, MontgomeryProduct
  <2> HIDE DEF C
  <2> DEFINE F == n * X
             G == n * I
             one == 1
  <2>6. B \in Int /\ X \in Int /\ Mod(X) = Mod(p) /\ A \in Int /\ Mod(I) \in Int /\ Mod(p) \in Int /\ Mod(X) \in Int
    BY <1>2, <1>3, <2>1, <2>2, <2>4, ModRange
  <2>7. F \in Int /\ G \in Int /\ F * I = X * G /\ X * one = X /\ one \in Int
    BY <1>3, <2>6
  <2>8. Mod(B) = Mod(F) /\ Mod(G) = Mod(one)
    BY <1>3, <2>3, <2>4
  <2> HIDE DEF F, G, one
  <2>9. Mod(B * I) = Mod(F * I)
    BY <1>3, <2>6, <2>7, <2>8, ModTimes
  <2>10. Mod(X * G) = Mod(X * one)
    BY <2>6, <2>7, <2>8, ModTimes
  <2>11. Mod(C) = Mod(p)
    BY <2>5, <2>6, <2>7, <2>9, <2>10
  <2> QED
    BY <1>2, <2>1, <2>5, <2>11 DEF p
<1> QED
  BY <1>1, <1>4 DEF Stand, Agree

-------------------------------------------------------------------------------
(* Sums and multiples of polynomials *)

Samples(p, s) == \A n \in Index : s[n] \in Int /\ Mod(Sample(p, Odd(n))) = Mod(s[n])

LEMMA ValuesAreSamples ==
  ASSUME NEW p, NEW s, p \in [Index -> Int]
  PROVE  Agree(Remainder(p, N, N), s) <=> Samples(p, s)
<1>1. ASSUME NEW n \in Index
      PROVE  Remainder(p, N, N)[n] \in Int /\ Mod(Remainder(p, N, N)[n]) = Mod(Sample(p, Odd(n)))
  <2> DEFINE u == Sample(p, Odd(n))
  <2>1. Remainder(p, N, N)[n] = Mod(u)
    BY ValueFacts
  <2>2. u \in Int
    BY OddFacts, SampleIsNumber
  <2> HIDE DEF u
  <2>3. Mod(u) \in Int /\ Mod(Mod(u)) = Mod(u)
    BY <2>2, ModRange
  <2> QED
    BY <2>1, <2>3 DEF u
<1> QED
  BY <1>1 DEF Agree, Samples

\* Words modulo q that are c times those of p and d times those of r.
IsCombined(s, c, p, d, r) ==
  \A k \in Index : s[k] \in Int /\ p[k] \in Int /\ r[k] \in Int /\ Mod(s[k]) = Mod(c * p[k] + d * r[k])

Combination(c, x, d, y) == c * x + d * y

LEMMA CombinedOperands ==
  ASSUME NEW c \in Int, NEW d \in Int, NEW x \in Int, NEW y \in Int, NEW u \in Int, NEW v \in Int,
         Mod(x) = Mod(u), Mod(y) = Mod(v)
  PROVE  Mod(Combination(c, x, d, y)) = Mod(Combination(c, u, d, v))
<1> DEFINE X == c * x
           Y == d * y
           U == c * u
           V == d * v
<1>1. X \in Int /\ Y \in Int /\ U \in Int /\ V \in Int
  OBVIOUS
<1>2. Mod(c) \in Int /\ Mod(d) \in Int
  BY ModRange
<1>3. Mod(X) = Mod(U)
  BY <1>2, ModTimes
<1>4. Mod(Y) = Mod(V)
  BY <1>2, ModTimes
<1> HIDE DEF X, Y, U, V
<1>5. Mod(X + Y) = Mod(U + V)
  BY <1>1, <1>3, <1>4, ModOperations
<1> QED
  BY <1>5 DEF X, Y, U, V, Combination

LEMMA SampleCombined ==
  ASSUME NEW c \in Int, NEW d \in Int, NEW z \in Int, NEW s, NEW p, NEW r, IsCombined(s, c, p, d, r),
         p \in [Index -> Int], r \in [Index -> Int], s \in [Index -> Int]
  PROVE  Mod(Sample(s, z)) = Mod(c * Sample(p, z) + d * Sample(r, z))
<1> DEFINE f == Terms(p, z)
           g == Terms(r, z)
           e == Terms(s, z)
           h == [j \in Index |-> c * f[j] + d * g[j]]
<1>1. /\ \A j \in Index : f[j] \in Int /\ Pow(z * j) \in Int
      /\ \A j \in Index : g[j] \in Int
      /\ \A j \in Index : e[j] \in Int
  <2>1. \A j \in Index : f[j] \in Int /\ Pow(z * j) \in Int
    BY SampleIsNumber
  <2>2. \A j \in Index : g[j] \in Int
    BY SampleIsNumber
  <2>3. \A j \in Index : e[j] \in Int
    BY SampleIsNumber
  <2> QED
    BY <2>1, <2>2, <2>3
<1>2. ASSUME NEW j \in Index PROVE h[j] \in Int /\ Mod(e[j]) = Mod(h[j])
  <2> DEFINE P == Pow(z * j)
             A == p[j]
             B == r[j]
             C == s[j]
             D == c * A + d * B
  <2>1. P \in Int /\ A \in Int /\ B \in Int /\ C \in Int /\ Mod(C) = Mod(D)
    BY <1>1 DEF IsCombined
  <2>2. f[j] = A * P /\ g[j] = B * P /\ e[j] = C * P
    BY DEF Terms
  <2>3. h[j] = c * (A * P) + d * (B * P)
    BY <2>2
  <2> HIDE DEF A, B, C, P, f, g, e, h
  <2>4. D \in Int /\ c * (A * P) + d * (B * P) = D * P
    BY <2>1
  <2> HIDE DEF D
  <2>5. D * P \in Int /\ Mod(P) \in Int
    BY <2>1, <2>4, ModRange
  <2>6. Mod(C * P) = Mod(D * P)
    BY <2>1, <2>4, <2>5, ModTimes
  <2> QED
    BY <2>2, <2>3, <2>4, <2>5, <2>6
<1> HIDE DEF f, g, e
<1>3. N \in Nat /\ \A j \in 0 .. N - 1 : j \in Index
  BY Sizes DEF Index
<1>4. AreCombined(h, c, f, d, g, N)
  BY <1>1, <1>3 DEF AreCombined
<1> HIDE DEF h
<1>5. SumBelow(h, N) = c * SumBelow(f, N) + d * SumBelow(g, N)
  <2> DEFINE n == N
  <2>1. n \in Nat /\ AreCombined(h, c, f, d, g, n)
    BY <1>3, <1>4
  <2> HIDE DEF n
  <2>2. SumBelow(h, n) = c * SumBelow(f, n) + d * SumBelow(g, n)
    BY <2>1, BelowLinear
  <2> QED
    BY <2>2 DEF n
<1>6. Mod(SumBelow(e, N)) = Mod(SumBelow(h, N))
  <2>1. \A j \in 0 .. N - 1 : e[j] \in Int /\ h[j] \in Int /\ Mod(e[j]) = Mod(h[j])
    BY <1>1, <1>2, <1>3
  <2> QED
    BY <1>3, <2>1, ModSum
<1> QED
  BY <1>5, <1>6 DEF Sample, f, g, e

\* The values of a combination are the combinations of the values.
LEMMA CombineStands ==
  ASSUME NEW c \in Int, NEW d \in Int, NEW p, NEW r, NEW p2, NEW s, NEW u, NEW s2,
         p \in [Index -> Int], r \in [Index -> Int], p2 \in [Index -> Int],
         Samples(p, s), Samples(r, u), IsCombined(p2, c, p, d, r), IsCombined(s2, c, s, d, u)
  PROVE  Samples(p2, s2)
<1> SUFFICES ASSUME NEW n \in Index
             PROVE  s2[n] \in Int /\ Mod(Sample(p2, Odd(n))) = Mod(s2[n])
  BY DEF Samples
<1> DEFINE z == Odd(n)
           P == Sample(p, z)
           Q == Sample(r, z)
           A == s[n]
           B == u[n]
<1>1. z \in Int
  BY OddFacts
<1> HIDE DEF z
<1>2. P \in Int /\ Q \in Int
  <2>1. P \in Int
    BY <1>1, SampleIsNumber
  <2>2. Q \in Int
    BY <1>1, SampleIsNumber
  <2> QED
    BY <2>1, <2>2
<1>3. A \in Int /\ B \in Int /\ Mod(P) = Mod(A) /\ Mod(Q) = Mod(B)
  BY DEF Samples, z
<1>4. s2[n] \in Int /\ Mod(s2[n]) = Mod(c * A + d * B)
  BY DEF IsCombined
<1>5. Mod(Sample(p2, z)) = Mod(c * P + d * Q)
  BY <1>1, SampleCombined
<1> HIDE DEF P, Q, A, B
<1>6. Mod(Combination(c, P, d, Q)) = Mod(Combination(c, A, d, B))
  BY <1>2, <1>3, CombinedOperands
<1> QED
  BY <1>4, <1>5, <1>6 DEF z, Combination

\* The polynomial 1.
unit == [k \in Index |-> IF k = 0 THEN 1 ELSE 0]

LEMMA UnitStands == unit \in [Index -> Int] /\ Samples(unit, [n \in Index |-> 1])
<1>1. unit \in [Index -> Int]
  BY DEF unit
<1>2. ASSUME NEW z \in Int PROVE Sample(unit, z) = 1
  <2> DEFINE f == Terms(unit, z)
             j == 0
             n == N
  <2>1. n \in Nat /\ j \in 0 .. n - 1 /\ \A i \in 0 .. n - 1 : i \in Index
    BY Sizes DEF Index
  <2>2. Pow(z * 0) = 1
    <3>1. z * 0 = 0 /\ 0 \in 0 .. M
      BY Sizes
    <3> QED
      BY <3>1, PowerFacts, PowTable
  <2>3. f[0] = 1
    <3>1. f[0] = 1 * Pow(z * 0)
      BY <2>1 DEF Terms, unit
    <3> QED
      BY <2>2, <3>1
  <2>4. \A i \in 0 .. n - 1 : i # j => f[i] = 0
    <3> TAKE i \in 0 .. n - 1
    <3> HAVE i # j
    <3>1. f[i] = 0 * Pow(z * i)
      BY <2>1 DEF Terms, unit
    <3>2. Pow(z * i) \in Int
      <4>1. z * i \in Int
        BY <2>1
      <4> QED
        BY <4>1, PowRange
    <3> QED
      BY <3>1, <3>2
  <2>5. f[j] = 1 /\ f[j] \in Int
    BY <2>3
  <2> HIDE DEF f, j, n
  <2>6. SumBelow(f, n) = f[j]
    BY <2>1, <2>4, <2>5, BelowSingle
  <2> QED
    BY <2>5, <2>6 DEF Sample, f, n
<1>3. \A n \in Index : Sample(unit, Odd(n)) = 1
  BY <1>2, OddFacts
<1> QED
  BY <1>1, <1>3 DEF Samples

LEMMA OperandStands ==
  /\ OperandPoly \in [Index -> 0 .. q - 1] /\ OperandPoly \in [Index -> Int]
  /\ Operand \in [Index -> 0 .. q] /\ Samples(OperandPoly, Operand)
<1>1. OperandPoly \in [Index -> 0 .. q - 1] /\ Operand \in [Index -> 0 .. q] /\ q \in Nat
      /\ \A n \in Index : Operand[n] % q = Value(OperandPoly, n)
  BY NttAssumption, Sizes
<1>2. OperandPoly \in [Index -> Int]
  BY <1>1
<1>3. \A n \in Index : Operand[n] \in Int /\ Mod(Sample(OperandPoly, Odd(n))) = Mod(Operand[n])
  <2> TAKE n \in Index
  <2>1. Value(OperandPoly, n) = Mod(Sample(OperandPoly, Odd(n)))
    BY <1>2, ValueFacts
  <2> QED
    BY <1>1, <2>1 DEF Mod
<1> QED
  BY <1>1, <1>2, <1>3 DEF Samples

LEMMA CombineStep ==
  ASSUME NttTypeOK, Stand, form = "value", form' = "value", NEW c \in Int, NEW d \in Int, NEW r, NEW u,
         r \in [Index -> Int], Samples(r, u), poly' \in [Index -> Int],
         IsCombined(poly', c, poly, d, r), IsCombined(a', c, a, d, u)
  PROVE  Stand'
<1>1. poly \in [Index -> Int] /\ Agree(Remainder(poly, N, N), a)
  BY StandTypes DEF Stand
<1>2. Samples(poly, a)
  BY <1>1, ValuesAreSamples
<1>3. Samples(poly', a')
  BY <1>1, <1>2, CombineStands
<1>4. Agree(Remainder(poly', N, N), a')
  BY <1>3, ValuesAreSamples
<1> QED
  BY <1>4 DEF Stand

\* A number that is reduced after it is computed.
LEMMA ReducedIs ==
  ASSUME NEW x \in Int, NEW y \in Int, Mod(x) = Mod(y) PROVE x % q \in Int /\ Mod(x % q) = Mod(y)
<1>1. x % q = Mod(x)
  BY DEF Mod
<1> QED
  BY <1>1, ModRange

LEMMA StepNumbers ==
  ASSUME NttTypeOK, [Next]_vars
  PROVE  /\ q \in Nat \ {0, 1} /\ poly \in [Index -> 0 .. q - 1] /\ poly' \in [Index -> 0 .. q - 1] /\ poly' \in [Index -> Int]
         /\ \A k \in Index : a[k] \in Nat /\ a[k] \in Int /\ poly[k] \in Int
<1>1. q \in Nat \ {0, 1} /\ poly' \in [Index -> 0 .. q - 1] /\ R \in Nat
  BY PolynomialOfStep, Sizes
<1>2. poly \in [Index -> 0 .. q - 1] /\ a \in [Index -> 0 .. R - 1]
  BY DEF NttTypeOK
<1>3. poly' \in [Index -> Int]
  BY <1>1
<1> QED
  BY <1>1, <1>2, <1>3

LEMMA qiAddStands ==
  ASSUME NttTypeOK, Stand, [Next]_vars, qiAdd PROVE Stand'
<1>1. /\ form = "value" /\ form' = "value"
      /\ a' = [n \in Index |-> (a[n] + Operand[n]) % q]
      /\ poly' = [k \in Index |-> (poly[k] + OperandPoly[k]) % q]
  BY DEF qiAdd, On
<1>2. /\ q \in Nat \ {0, 1} /\ poly' \in [Index -> Int] /\ \A k \in Index : a[k] \in Int /\ poly[k] \in Int
      /\ OperandPoly \in [Index -> Int] /\ Samples(OperandPoly, Operand) /\ Operand \in [Index -> 0 .. q]
  BY StepNumbers, OperandStands
<1>3. ASSUME NEW x \in Int, NEW y \in Int
      PROVE  (x + y) % q \in Int /\ Mod((x + y) % q) = Mod(1 * x + 1 * y)
  <2> DEFINE s == x + y
  <2>1. s \in Int /\ 1 * x + 1 * y = s /\ Mod(s) = Mod(s)
    OBVIOUS
  <2> HIDE DEF s
  <2>2. s % q \in Int /\ Mod(s % q) = Mod(s)
    BY <2>1, ReducedIs
  <2> QED
    BY <2>1, <2>2 DEF s
<1>4. IsCombined(poly', 1, poly, 1, OperandPoly)
  <2>1. \A k \in Index : poly'[k] = (poly[k] + OperandPoly[k]) % q /\ poly[k] \in Int /\ OperandPoly[k] \in Int
    BY <1>1, <1>2
  <2> QED
    BY <1>3, <2>1 DEF IsCombined
<1>5. IsCombined(a', 1, a, 1, Operand)
  <2>1. \A k \in Index : a'[k] = (a[k] + Operand[k]) % q /\ a[k] \in Int /\ Operand[k] \in Int
    BY <1>1, <1>2
  <2> QED
    BY <1>3, <2>1 DEF IsCombined
<1> DEFINE c == 1
<1>6. c \in Int /\ IsCombined(poly', c, poly, c, OperandPoly) /\ IsCombined(a', c, a, c, Operand)
  BY <1>4, <1>5
<1> HIDE DEF c
<1> QED
  BY <1>1, <1>2, <1>6, CombineStep

\* Steps that need no second operand take the polynomial 1 for one.
LEMMA UnitStep ==
  ASSUME NttTypeOK, Stand, [Next]_vars, form = "value", form' = "value", NEW c \in Int, NEW d \in Int,
         \A k \in Index : /\ poly'[k] \in Int /\ a'[k] \in Int
                          /\ Mod(poly'[k]) = Mod(c * poly[k] + d * unit[k])
                          /\ Mod(a'[k]) = Mod(c * a[k] + d * 1)
  PROVE  Stand'
<1> DEFINE one == [n \in Index |-> 1]
<1>1. poly' \in [Index -> Int] /\ \A k \in Index : a[k] \in Int /\ poly[k] \in Int
  BY StepNumbers
<1>2. unit \in [Index -> Int] /\ Samples(unit, one)
  BY UnitStands
<1>3. IsCombined(poly', c, poly, d, unit)
  BY <1>1, <1>2 DEF IsCombined
<1>4. IsCombined(a', c, a, d, one)
  BY <1>1 DEF IsCombined
<1> HIDE DEF one
<1> QED
  BY <1>1, <1>2, <1>3, <1>4, CombineStep

LEMMA qiNegateStands ==
  ASSUME NttTypeOK, Stand, [Next]_vars, qiNegate PROVE Stand'
<1>1. /\ form = "value" /\ form' = "value"
      /\ a' = [n \in Index |-> IF a[n] = 0 THEN 0 ELSE q - a[n]]
      /\ poly' = [k \in Index |-> (q - poly[k]) % q]
  BY DEF qiNegate, On
<1>2. q \in Nat \ {0, 1} /\ \A k \in Index : a[k] \in Int /\ poly[k] \in Int /\ unit[k] \in Int
  BY StepNumbers, UnitStands
<1>3. ASSUME NEW x \in Int
      PROVE  /\ q - x \in Int /\ (q - x) % q \in Int
             /\ Mod(q - x) = Mod((0 - 1) * x + 0 * 1) /\ Mod((q - x) % q) = Mod((0 - 1) * x + 0 * 1)
  <2> DEFINE u == q - x
             v == 0 - x
             j == 1
  <2>1. u \in Int /\ v \in Int /\ u = v + j * q /\ (0 - 1) * x + 0 * 1 = v /\ j \in Int
    BY <1>2
  <2> HIDE DEF u, v, j
  <2>2. Mod(u) = Mod(v)
    BY <2>1, ModFacts
  <2>3. u % q \in Int /\ Mod(u % q) = Mod(v)
    BY <2>1, <2>2, ReducedIs
  <2> QED
    BY <2>1, <2>2, <2>3 DEF u
<1> DEFINE c == 0 - 1
           d == 0
<1>4. ASSUME NEW k \in Index
      PROVE  /\ poly'[k] \in Int /\ a'[k] \in Int
             /\ Mod(poly'[k]) = Mod(c * poly[k] + d * unit[k]) /\ Mod(a'[k]) = Mod(c * a[k] + d * 1)
  <2>1. poly[k] \in Int /\ a[k] \in Int /\ unit[k] \in Int /\ poly'[k] = (q - poly[k]) % q
        /\ a'[k] = IF a[k] = 0 THEN 0 ELSE q - a[k]
    BY <1>1, <1>2
  <2>2. d * unit[k] = d * 1
    BY <2>1
  <2>3. poly'[k] \in Int /\ Mod(poly'[k]) = Mod(c * poly[k] + d * 1)
    BY <1>3, <2>1
  <2>4. a'[k] \in Int /\ Mod(a'[k]) = Mod(c * a[k] + d * 1)
    <3>1. CASE a[k] = 0
      BY <2>1, <3>1
    <3>2. CASE a[k] # 0
      BY <1>3, <2>1, <3>2
    <3> QED
      BY <3>1, <3>2
  <2> QED
    BY <2>2, <2>3, <2>4
<1>5. c \in Int /\ d \in Int
  OBVIOUS
<1> HIDE DEF c, d
<1> QED
  BY <1>1, <1>4, <1>5, UnitStep

LEMMA qiMulConstStands ==
  ASSUME NttTypeOK, Stand, [Next]_vars, NEW c \in Consts, qiMulConst(c) PROVE Stand'
<1>1. /\ form = "value" /\ form' = "value"
      /\ a' = [n \in Index |-> mulModBarrett(a[n], c)]
      /\ poly' = [k \in Index |-> (poly[k] * c) % q]
  BY DEF qiMulConst, On
<1>2. c \in Nat /\ c \in Int /\ q \in Nat \ {0, 1} /\ q \in Int
      /\ \A k \in Index : a[k] \in Nat /\ a[k] \in Int /\ poly[k] \in Int /\ unit[k] \in Int
  BY StepNumbers, UnitStands, NttAssumption
<1> DEFINE d == 0
<1>3. ASSUME NEW k \in Index
      PROVE  /\ poly'[k] \in Int /\ a'[k] \in Int
             /\ Mod(poly'[k]) = Mod(c * poly[k] + d * unit[k]) /\ Mod(a'[k]) = Mod(c * a[k] + d * 1)
  <2>1. poly[k] \in Int /\ a[k] \in Nat /\ a[k] \in Int /\ unit[k] \in Int /\ poly'[k] = (poly[k] * c) % q
        /\ a'[k] = mulModBarrett(a[k], c)
    BY <1>1, <1>2
  <2>2. poly[k] * c \in Int /\ poly[k] * c = c * poly[k] + d * unit[k] /\ a[k] * c = c * a[k] + d * 1
    BY <1>2, <2>1
  <2>3. a'[k] \in 0 .. q - 1 /\ Mod(a'[k]) = Mod(a[k] * c)
    BY <1>2, <2>1, mulModBarrettFacts
  <2>4. a'[k] \in Int
    BY <1>2, <2>3
  <2> DEFINE x == poly[k] * c
  <2>5. x \in Int /\ poly'[k] = x % q
    BY <2>1, <2>2
  <2> HIDE DEF x
  <2>6. poly'[k] \in Int /\ Mod(poly'[k]) = Mod(x)
    BY <2>5, ReducedIs
  <2> QED
    BY <2>2, <2>3, <2>4, <2>6 DEF x
<1>4. d \in Int
  OBVIOUS
<1> HIDE DEF d
<1> QED
  BY <1>1, <1>2, <1>3, <1>4, UnitStep

LEMMA qiAddConstStands ==
  ASSUME NttTypeOK, Stand, [Next]_vars, NEW c \in Consts, qiAddConst(c) PROVE Stand'
<1>1. /\ form = "value" /\ form' = "value"
      /\ a' = [n \in Index |-> (a[n] + c) % q]
      /\ poly' = [poly EXCEPT ![0] = (@ + c) % q]
  BY DEF qiAddConst, On, addMod
<1>2. c \in Nat /\ c \in Int /\ q \in Nat \ {0, 1} /\ q \in Int /\ poly \in [Index -> 0 .. q - 1]
      /\ \A k \in Index : a[k] \in Int /\ poly[k] \in Int /\ unit[k] \in Int
  BY StepNumbers, UnitStands, NttAssumption
<1> DEFINE b == 1
<1>3. ASSUME NEW x \in Int PROVE (x + c) % q \in Int /\ Mod((x + c) % q) = Mod(b * x + c * 1)
  <2> DEFINE u == x + c
  <2>1. u \in Int /\ u = b * x + c * 1
    BY <1>2
  <2> HIDE DEF u, b
  <2>2. u % q \in Int /\ Mod(u % q) = Mod(u)
    BY <2>1, ReducedIs
  <2> QED
    BY <2>1, <2>2 DEF u
<1>4. ASSUME NEW k \in Index
      PROVE  /\ poly'[k] \in Int /\ a'[k] \in Int
             /\ Mod(poly'[k]) = Mod(b * poly[k] + c * unit[k]) /\ Mod(a'[k]) = Mod(b * a[k] + c * 1)
  <2>1. poly[k] \in Int /\ a[k] \in Int /\ a'[k] = (a[k] + c) % q
    BY <1>1, <1>2
  <2>2. a'[k] \in Int /\ Mod(a'[k]) = Mod(b * a[k] + c * 1)
    BY <1>3, <2>1
  <2>3. CASE k = 0
    <3>1. poly'[k] = (poly[k] + c) % q /\ unit[k] = 1
      BY <1>1, <1>2, <2>3 DEF unit
    <3>2. poly'[k] \in Int /\ Mod(poly'[k]) = Mod(b * poly[k] + c * 1)
      BY <1>3, <2>1, <3>1
    <3> QED
      BY <2>2, <3>1, <3>2
  <2>4. CASE k # 0
    <3>1. poly'[k] = poly[k] /\ unit[k] = 0
      BY <1>1, <1>2, <2>4 DEF unit
    <3>2. b * poly[k] + c * 0 = poly[k]
      BY <1>2, <2>1
    <3> QED
      BY <2>1, <2>2, <3>1, <3>2
  <2> QED
    BY <2>3, <2>4
<1>5. b \in Int
  OBVIOUS
<1> HIDE DEF b
<1> QED
  BY <1>1, <1>2, <1>4, <1>5, UnitStep

LEMMA qiSubConstStands ==
  ASSUME NttTypeOK, Stand, [Next]_vars, NEW c \in Consts, qiSubConst(c) PROVE Stand'
<1>1. /\ form = "value" /\ form' = "value"
      /\ a' = [n \in Index |-> (a[n] + q - (c % q)) % q]
      /\ poly' = [poly EXCEPT ![0] = (@ - c) % q]
  BY DEF qiSubConst, On, subMod
<1>2. c \in Nat /\ c \in Int /\ q \in Nat \ {0, 1} /\ q \in Int /\ poly \in [Index -> 0 .. q - 1]
      /\ \A k \in Index : a[k] \in Int /\ poly[k] \in Int /\ unit[k] \in Int
  BY StepNumbers, UnitStands, NttAssumption
<1> DEFINE b == 1
           d == 0 - c
<1>3. ASSUME NEW x \in Int
      PROVE  /\ (x - c) % q \in Int /\ Mod((x - c) % q) = Mod(b * x + d * 1)
             /\ (x + q - (c % q)) % q \in Int /\ Mod((x + q - (c % q)) % q) = Mod(b * x + d * 1)
  <2> DEFINE u == x - c
             s == c % q
             v == x - s
             w == x + q - s
             j == 1
  <2>1. s = Mod(c)
    BY DEF Mod
  <2>2. s \in Int /\ Mod(s) = Mod(c)
    BY <1>2, <2>1, ModRange
  <2> HIDE DEF s
  <2>3. u \in Int /\ u = b * x + d * 1 /\ v \in Int /\ w \in Int /\ w = v + j * q /\ j \in Int
    BY <1>2, <2>2
  <2>4. Mod(u) = Mod(v)
    <3>1. Mod(x) \in Int
      BY ModRange
    <3> QED
      BY <1>2, <2>2, <3>1, ModTimes
  <2> HIDE DEF u, b, d, v, w, j
  <2>5. Mod(w) = Mod(u)
    BY <2>3, <2>4, ModFacts
  <2>6. u % q \in Int /\ Mod(u % q) = Mod(u) /\ w % q \in Int /\ Mod(w % q) = Mod(u)
    BY <2>3, <2>5, ReducedIs
  <2> QED
    BY <2>3, <2>6 DEF u, w, s
<1>4. ASSUME NEW k \in Index
      PROVE  /\ poly'[k] \in Int /\ a'[k] \in Int
             /\ Mod(poly'[k]) = Mod(b * poly[k] + d * unit[k]) /\ Mod(a'[k]) = Mod(b * a[k] + d * 1)
  <2>1. poly[k] \in Int /\ a[k] \in Int /\ a'[k] = (a[k] + q - (c % q)) % q
    BY <1>1, <1>2
  <2>2. a'[k] \in Int /\ Mod(a'[k]) = Mod(b * a[k] + d * 1)
    BY <1>3, <2>1
  <2>3. CASE k = 0
    <3>1. poly'[k] = (poly[k] - c) % q /\ unit[k] = 1
      BY <1>1, <1>2, <2>3 DEF unit
    <3>2. poly'[k] \in Int /\ Mod(poly'[k]) = Mod(b * poly[k] + d * 1)
      BY <1>3, <2>1, <3>1
    <3> QED
      BY <2>2, <3>1, <3>2
  <2>4. CASE k # 0
    <3>1. poly'[k] = poly[k] /\ unit[k] = 0
      BY <1>1, <1>2, <2>4 DEF unit
    <3>2. b * poly[k] + d * 0 = poly[k]
      BY <1>2, <2>1
    <3> QED
      BY <2>1, <2>2, <3>1, <3>2
  <2> QED
    BY <2>3, <2>4
<1>5. b \in Int /\ d \in Int
  BY <1>2
<1> HIDE DEF b, d
<1> QED
  BY <1>1, <1>2, <1>4, <1>5, UnitStep

(* Products: what X^N = -1 wraps around, the value at an odd power of psi negates. *)

Shift(j, k) == IF j <= k THEN k - j ELSE N + k - j
Unshift(j, i) == IF i + j < N THEN i + j ELSE i + j - N

LEMMA ShiftFacts ==
  ASSUME NEW j \in Index
  PROVE  /\ \A k \in Index : Shift(j, k) \in Index /\ Unshift(j, Shift(j, k)) = k
         /\ \A i \in Index : Unshift(j, i) \in Index /\ Shift(j, Unshift(j, i)) = i
<1>1. N \in Nat \ {0} /\ j \in 0 .. N - 1 /\ Index = 0 .. N - 1
  BY Sizes DEF Index
<1> QED
  BY <1>1 DEF Shift, Unshift

LEMMA SampleShifted ==
  ASSUME NEW r \in [Index -> Int], NEW z \in Int, NEW j \in Index
  PROVE  SumBelow([k \in Index |-> Terms(r, z)[Shift(j, k)]], N) = Sample(r, z)
<1> DEFINE f == Terms(r, z)
           g == [k \in Index |-> f[Shift(j, k)]]
           s == [k \in Index |-> Shift(j, k)]
           u == [i \in Index |-> Unshift(j, i)]
<1>1. N \in Nat /\ Index = 0 .. N - 1
  BY Sizes DEF Index
<1>2. s \in [Index -> Index] /\ u \in [Index -> Index]
  BY ShiftFacts
<1>3. \A i \in Index : f[i] \in Int /\ g[i] = f[s[i]] /\ u[s[i]] = i /\ s[u[i]] = i
  BY SampleIsNumber, ShiftFacts
<1>4. SumBelow(g, N) = SumBelow(f, N)
  <2> HIDE DEF f, g, s, u
  <2>1. IsReordering(N, f, g, s, u)
    BY <1>1, <1>2, <1>3 DEF IsReordering
  <2> QED
    BY <1>1, <2>1, BelowReordered
<1> QED
  BY <1>4 DEF Sample

LEMMA PowOdd ==
  ASSUME NEW z \in Int, Congruent(z, 1, 2), NEW e \in Int
  PROVE  z * N \in Int /\ e + z * N \in Int /\ Mod(Pow(e + z * N)) = Mod(0 - Pow(e))
<1>1. N \in Nat /\ M = 2 * N /\ M \in Int
  BY Sizes
<1>2. PICK h \in Int : z - 1 = 2 * h
  BY DEF Congruent, Divides
<1> DEFINE x == e + z * N
           y == e + N
<1>3. x \in Int /\ y \in Int /\ z * N \in Int
  BY <1>1
<1>4. x - y = M * h
  <2>1. z = 2 * h + 1
    BY <1>2
  <2>2. z * N = 2 * N * h + N
    BY <1>1, <2>1
  <2> QED
    BY <1>1, <2>2
<1>5. Congruent(x, y, M)
  BY <1>2, <1>4 DEF Congruent, Divides
<1> HIDE DEF x, y
<1>6. Pow(x) = Pow(y)
  BY <1>3, <1>5, PowSame
<1>7. Mod(Pow(y)) = Mod(0 - Pow(e))
  BY PowHalf DEF y
<1> QED
  BY <1>3, <1>6, <1>7 DEF x

LEMMA PowShift ==
  ASSUME NEW z \in Int, Congruent(z, 1, 2), NEW j \in Index, NEW k \in Index
  PROVE  Mod(Pow(z * j) * Pow(z * Shift(j, k))) = IF j <= k THEN Mod(Pow(z * k)) ELSE Mod(0 - Pow(z * k))
<1>1. N \in Nat /\ j \in Int /\ k \in Int /\ Shift(j, k) \in Int
  BY Sizes, ShiftFacts DEF Index
<1> DEFINE c == z * j
           b == z * Shift(j, k)
           e == z * k
<1>2. c \in Int /\ b \in Int /\ e \in Int
  BY <1>1
<1>3. Mod(Pow(c + b)) = Mod(Pow(c) * Pow(b))
  <2> HIDE DEF c, b
  <2> QED
    BY <1>2, PowSum
<1>4. CASE j <= k
  <2>1. Shift(j, k) = k - j
    BY <1>4 DEF Shift
  <2>2. c + b = e
    BY <1>1, <2>1
  <2> QED
    BY <1>3, <1>4, <2>2
<1>5. CASE ~(j <= k)
  <2>1. Shift(j, k) = N + k - j
    BY <1>5 DEF Shift
  <2>2. c + b = e + z * N
    BY <1>1, <2>1
  <2>3. Mod(Pow(e + z * N)) = Mod(0 - Pow(e))
    BY <1>2, PowOdd
  <2> QED
    BY <1>3, <1>5, <2>2, <2>3
<1> QED
  BY <1>4, <1>5

IsTermProduct(u, v, x, y, w) ==
  /\ Mod(x * y) = Mod(w) => Mod(w * (u * v)) = Mod((u * x) * (v * y))
  /\ Mod(x * y) = Mod(0 - w) => Mod(w * (u * (q - v))) = Mod((u * x) * (v * y))

LEMMA ProductOfTerms ==
  ASSUME NEW u \in Int, NEW v \in Int, NEW x \in Int, NEW y \in Int, NEW w \in Int
  PROVE  IsTermProduct(u, v, x, y, w)
<1>1. q \in Int
  BY Sizes
<1> DEFINE t == x * y
           s == u * v
           n == 0 - w
           h == w * u
<1>2. t \in Int /\ s \in Int /\ n \in Int /\ h \in Int
  OBVIOUS
<1>3. t * s = (u * x) * (v * y) /\ w * s = w * (u * v)
  OBVIOUS
<1>4. w * (u * (q - v)) = n * s + h * q
  BY <1>1
<1>5. Mod(s) \in Int
  BY <1>2, ModRange
<1>6. ASSUME Mod(t) = Mod(w) PROVE Mod(w * s) = Mod(t * s)
  <2> HIDE DEF t, s
  <2> QED
    BY <1>2, <1>5, <1>6, ModTimes
<1>7. ASSUME Mod(t) = Mod(n) PROVE Mod(n * s + h * q) = Mod(t * s)
  <2> HIDE DEF t, s, n, h
  <2>1. Mod(n * s) = Mod(t * s)
    BY <1>2, <1>5, <1>7, ModTimes
  <2> DEFINE g == n * s
  <2>2. g \in Int
    BY <1>2
  <2>3. Mod(g + h * q) = Mod(g)
    <3> HIDE DEF g
    <3> QED
      BY <1>2, <2>2, ModFacts
  <2> QED
    BY <2>1, <2>3
<1> HIDE DEF n, h
<1>8. Mod(x * y) = Mod(w) => Mod(w * (u * v)) = Mod((u * x) * (v * y))
  BY <1>3, <1>6
<1>9. Mod(x * y) = Mod(0 - w) => Mod(w * (u * (q - v))) = Mod((u * x) * (v * y))
  BY <1>3, <1>4, <1>7 DEF n
<1> QED
  BY <1>8, <1>9 DEF IsTermProduct

LEMMA ShiftedTerm ==
  ASSUME NEW p \in [Index -> 0 .. q - 1], NEW r \in [Index -> 0 .. q - 1], NEW z \in Int, Congruent(z, 1, 2),
         NEW j \in Index, NEW k \in Index
  PROVE  Mod(Pow(z * k) * Term(p, r, k, j)) = Mod(Terms(p, z)[j] * Terms(r, z)[Shift(j, k)])
<1> DEFINE i == Shift(j, k)
<1>1. q \in Nat \ {0} /\ i \in Index /\ i \in Int /\ j \in Int /\ k \in Int
  <2>1. i \in Index
    BY ShiftFacts
  <2> HIDE DEF i
  <2> QED
    BY <2>1, Sizes DEF Index
<1> DEFINE u == p[j]
           v == r[i]
           x == Pow(z * j)
           y == Pow(z * i)
           w == Pow(z * k)
<1>2. u \in Int /\ v \in Int
  BY <1>1
<1>3. z * j \in Int /\ z * i \in Int /\ z * k \in Int
  BY <1>1
<1>4. x \in Int /\ y \in Int /\ w \in Int
  BY <1>3, PowRange
<1>5. Mod(x * y) = IF j <= k THEN Mod(w) ELSE Mod(0 - w)
  BY PowShift
<1>6. Terms(p, z)[j] = u * x /\ Terms(r, z)[i] = v * y
  BY <1>1 DEF Terms
<1>7. Term(p, r, k, j) = IF j <= k THEN u * v ELSE u * (q - v)
  BY DEF Term, Shift
<1> HIDE DEF i, u, v, x, y, w
<1>8. IsTermProduct(u, v, x, y, w)
  BY <1>2, <1>4, ProductOfTerms
<1>9. CASE j <= k
  BY <1>5, <1>6, <1>7, <1>8, <1>9 DEF i, w, IsTermProduct
<1>10. CASE ~(j <= k)
  BY <1>5, <1>6, <1>7, <1>8, <1>10 DEF i, w, IsTermProduct
<1> QED
  BY <1>9, <1>10

LEMMA ReducedTimes ==
  ASSUME NEW x \in Int, NEW y \in Int PROVE Mod(Mod(x) * y) = Mod(y * x)
<1> DEFINE u == Mod(x)
<1>1. u \in Int /\ Mod(u) = Mod(x) /\ Mod(y) \in Int /\ y * x = x * y
  BY ModRange
<1> HIDE DEF u
<1>2. Mod(u * y) = Mod(x * y)
  BY <1>1, ModTimes
<1> QED
  BY <1>1, <1>2 DEF u

LEMMA ProductSample ==
  ASSUME NEW p \in [Index -> 0 .. q - 1], NEW r \in [Index -> 0 .. q - 1], NEW z \in Int, Congruent(z, 1, 2)
  PROVE  Mod(Sample(Times(p, r), z)) = Mod(Sample(p, z) * Sample(r, z))
<1>1. N \in Nat /\ Index = 0 .. N - 1 /\ q \in Nat \ {0} /\ p \in [Index -> Int] /\ r \in [Index -> Int]
  BY Sizes DEF Index
<1>2. Times(p, r) \in [Index -> Int] /\ Sample(p, z) \in Int /\ Sample(r, z) \in Int
  <2>1. Times(p, r) \in [Index -> 0 .. q - 1]
    BY TimesType
  <2>2. Sample(p, z) \in Int /\ Sample(r, z) \in Int
    BY <1>1, SampleIsNumber
  <2> QED
    BY <1>1, <2>1, <2>2
<1> DEFINE t == [k \in Index |-> [j \in Index |-> Pow(z * k) * Term(p, r, k, j)]]
           rows == [k \in Index |-> SumBelow(t[k], N)]
           cols == [j \in Index |-> SumBelow([k \in Index |-> t[k][j]], N)]
           P == Terms(p, z)
           S == Terms(r, z)
           prods == [j \in Index |-> Sample(r, z) * P[j]]
<1>3. \A k \in Index : Pow(z * k) \in Int /\ P[k] \in Int /\ S[k] \in Int
  BY <1>1, SampleIsNumber
<1>4. \A k \in Index : \A j \in Index : Term(p, r, k, j) \in Int /\ t[k][j] \in Int
  BY <1>3, TermIsNumber
<1>5. ASSUME NEW k \in Index
      PROVE  rows[k] \in Int /\ Terms(Times(p, r), z)[k] \in Int /\ Mod(Terms(Times(p, r), z)[k]) = Mod(rows[k])
  <2> DEFINE f == [j \in Index |-> Term(p, r, k, j)]
             h == t[k]
             c == Pow(z * k)
             x == SumBelow(f, N)
  <2>1. c \in Int /\ \A j \in 0 .. N - 1 : f[j] \in Int /\ h[j] = c * f[j]
    BY <1>1, <1>3, <1>4
  <2>2. x \in Int /\ Times(p, r)[k] = Mod(x)
    BY TimesType
  <2>3. Terms(Times(p, r), z)[k] = Mod(x) * c
    BY <2>2 DEF Terms
  <2>4. rows[k] = SumBelow(h, N)
    OBVIOUS
  <2> HIDE DEF f, h, c
  <2>5. SumBelow(h, N) = c * x
    <3>1. N \in Nat /\ c \in Int
      BY <1>1, <2>1
    <3>2. \A j \in 0 .. N - 1 : f[j] \in Int /\ h[j] = c * f[j]
      BY <2>1
    <3>3. SumBelow(h, N) = c * SumBelow(f, N)
      BY <3>1, <3>2, BelowTimes
    <3> QED
      BY <3>3
  <2> HIDE DEF x
  <2>6. Mod(Mod(x) * c) = Mod(c * x) /\ Mod(x) \in Int
    BY <2>1, <2>2, ReducedTimes, ModRange
  <2>7. Mod(x) * c \in Int /\ c * x \in Int
    BY <2>1, <2>2, <2>6
  <2> QED
    BY <2>3, <2>4, <2>5, <2>6, <2>7
<1>6. Mod(Sample(Times(p, r), z)) = Mod(SumBelow(rows, N))
  <2> DEFINE f == Terms(Times(p, r), z)
  <2>1. \A k \in 0 .. N - 1 : f[k] \in Int /\ rows[k] \in Int /\ Mod(f[k]) = Mod(rows[k])
    BY <1>1, <1>5
  <2> HIDE DEF f, rows
  <2>2. Mod(SumBelow(f, N)) = Mod(SumBelow(rows, N))
    BY <1>1, <2>1, ModSum
  <2> QED
    BY <2>2 DEF Sample, f
<1>7. SumBelow(rows, N) = SumBelow(cols, N)
  <2>1. \A k \in 0 .. N - 1 : \A j \in 0 .. N - 1 : t[k][j] \in Int
    BY <1>1, <1>4
  <2> HIDE DEF t
  <2>2. SumBelow([i \in 0 .. N - 1 |-> SumBelow(t[i], N)], N)
          = SumBelow([j \in 0 .. N - 1 |-> SumBelow([i \in 0 .. N - 1 |-> t[i][j]], N)], N)
    BY <1>1, <2>1, BelowSwap
  <2> QED
    BY <1>1, <2>2
<1>8. ASSUME NEW j \in Index
      PROVE  cols[j] \in Int /\ prods[j] \in Int /\ Mod(cols[j]) = Mod(prods[j])
  <2> DEFINE f == [k \in Index |-> t[k][j]]
             s == [k \in Index |-> S[Shift(j, k)]]
             c == P[j]
             h == [k \in Index |-> c * s[k]]
  <2>1. \A k \in Index : Shift(j, k) \in Index
    BY ShiftFacts
  <2>2. \A k \in Index : f[k] \in Int /\ s[k] \in Int /\ h[k] \in Int /\ h[k] = c * s[k]
    BY <1>3, <1>4, <2>1
  <2>3. ASSUME NEW k \in Index PROVE Mod(f[k]) = Mod(h[k])
    <3>1. f[k] = Pow(z * k) * Term(p, r, k, j) /\ h[k] = P[j] * S[Shift(j, k)]
      OBVIOUS
    <3>2. Mod(Pow(z * k) * Term(p, r, k, j)) = Mod(P[j] * S[Shift(j, k)])
      BY ShiftedTerm
    <3> QED
      BY <3>1, <3>2
  <2>4. SumBelow(s, N) = Sample(r, z)
    BY <1>1, SampleShifted
  <2>5. cols[j] = SumBelow(f, N) /\ prods[j] = Sample(r, z) * c /\ c \in Int
    BY <1>3
  <2> HIDE DEF f, s, c, h, cols, prods
  <2>6. SumBelow(h, N) = c * Sample(r, z)
    <3>1. \A k \in 0 .. N - 1 : s[k] \in Int /\ h[k] = c * s[k]
      BY <1>1, <2>2
    <3>2. SumBelow(h, N) = c * SumBelow(s, N)
      BY <1>1, <2>5, <3>1, BelowTimes
    <3> QED
      BY <2>4, <3>2
  <2>7. Mod(SumBelow(f, N)) = Mod(SumBelow(h, N))
    BY <1>1, <2>2, <2>3, ModSum
  <2>8. SumBelow(f, N) \in Int
    BY <1>1, <2>2, BelowIsNumber
  <2>9. c * Sample(r, z) = Sample(r, z) * c /\ Sample(r, z) * c \in Int
    BY <1>2, <2>5
  <2> QED
    BY <2>5, <2>6, <2>7, <2>8, <2>9
<1>9. Mod(SumBelow(cols, N)) = Mod(SumBelow(prods, N))
  <2>1. \A j \in 0 .. N - 1 : cols[j] \in Int /\ prods[j] \in Int /\ Mod(cols[j]) = Mod(prods[j])
    BY <1>1, <1>8
  <2> HIDE DEF cols, prods
  <2> QED
    BY <1>1, <2>1, ModSum
<1>10. SumBelow(prods, N) = Sample(r, z) * Sample(p, z)
  <2> DEFINE c == Sample(r, z)
  <2>1. c \in Int /\ \A j \in 0 .. N - 1 : P[j] \in Int /\ prods[j] = c * P[j]
    BY <1>1, <1>2, <1>3
  <2> HIDE DEF c, P, prods
  <2>2. SumBelow(prods, N) = c * SumBelow(P, N)
    BY <1>1, <2>1, BelowTimes
  <2> QED
    BY <2>2 DEF c, P, Sample
<1>11. Sample(r, z) * Sample(p, z) = Sample(p, z) * Sample(r, z)
  BY <1>2
<1> HIDE DEF rows, cols, prods
<1> QED
  BY <1>6, <1>7, <1>9, <1>10, <1>11

LEMMA ProductStep ==
  ASSUME NttTypeOK, Stand, [Next]_vars, form = "value", form' = "value", NEW r, NEW u,
         r \in [Index -> 0 .. q - 1], Samples(r, u), poly' = Times(poly, r),
         \A n \in Index : a'[n] \in Int /\ Mod(a'[n]) = Mod(a[n] * u[n])
  PROVE  Stand'
<1>1. poly \in [Index -> 0 .. q - 1] /\ poly \in [Index -> Int] /\ Agree(Remainder(poly, N, N), a)
  BY StandTypes DEF Stand
<1>2. Samples(poly, a)
  BY <1>1, ValuesAreSamples
<1>3. poly' \in [Index -> Int] /\ r \in [Index -> Int] /\ q \in Nat \ {0}
  BY StepNumbers, Sizes
<1>4. ASSUME NEW n \in Index PROVE a'[n] \in Int /\ Mod(Sample(poly', Odd(n))) = Mod(a'[n])
  <2> DEFINE x == Sample(poly, Odd(n))
             y == Sample(r, Odd(n))
             v == a[n]
             w == u[n]
  <2>1. Odd(n) \in Int /\ Congruent(Odd(n), 1, 2)
    BY OddFacts
  <2>2. Mod(Sample(poly', Odd(n))) = Mod(x * y)
    BY <1>1, <2>1, ProductSample
  <2>3. x \in Int /\ y \in Int
    BY <1>1, <1>3, <2>1, SampleIsNumber
  <2>4. v \in Int /\ w \in Int /\ Mod(x) = Mod(v) /\ Mod(y) = Mod(w)
    BY <1>2 DEF Samples
  <2>5. a'[n] \in Int /\ Mod(a'[n]) = Mod(v * w)
    OBVIOUS
  <2> HIDE DEF x, y, v, w
  <2>6. Mod(x * y) = Mod(v * w)
    BY <2>3, <2>4, ModOperations
  <2> QED
    BY <2>2, <2>5, <2>6
<1>5. Samples(poly', a')
  BY <1>4 DEF Samples
<1>6. Agree(Remainder(poly', N, N), a')
  BY <1>3, <1>5, ValuesAreSamples
<1> QED
  BY <1>6 DEF Stand

LEMMA qiMulStands ==
  ASSUME NttTypeOK, Stand, [Next]_vars, qiMul PROVE Stand'
<1>1. /\ form = "value" /\ form' = "value" /\ poly' = Times(poly, OperandPoly)
      /\ a' = [n \in Index |-> mulModBarrett(a[n], Operand[n])]
  BY DEF qiMul, On
<1>2. /\ q \in Nat \ {0, 1} /\ \A k \in Index : a[k] \in Nat
      /\ OperandPoly \in [Index -> 0 .. q - 1] /\ Samples(OperandPoly, Operand) /\ Operand \in [Index -> 0 .. q]
  BY StepNumbers, OperandStands
<1>3. ASSUME NEW n \in Index PROVE a'[n] \in Int /\ Mod(a'[n]) = Mod(a[n] * Operand[n])
  <2>1. a[n] \in Nat /\ Operand[n] \in Nat /\ a'[n] = mulModBarrett(a[n], Operand[n])
    BY <1>1, <1>2
  <2>2. a'[n] \in 0 .. q - 1 /\ Mod(a'[n]) = Mod(a[n] * Operand[n])
    BY <2>1, mulModBarrettFacts
  <2> QED
    BY <1>2, <2>2
<1> QED
  BY <1>1, <1>2, <1>3, ProductStep

LEMMA qiSquareStands ==
  ASSUME NttTypeOK, Stand, [Next]_vars, qiSquare PROVE Stand'
<1>1. /\ form = "value" /\ form' = "value" /\ poly' = Times(poly, poly)
      /\ a' = [n \in Index |-> mulModBarrett(a[n], a[n])]
  BY DEF qiSquare, On
<1>2. q \in Nat \ {0, 1} /\ poly \in [Index -> 0 .. q - 1] /\ \A k \in Index : a[k] \in Nat
  BY StepNumbers
<1>3. Samples(poly, a)
  <2>1. poly \in [Index -> Int] /\ Agree(Remainder(poly, N, N), a)
    BY <1>1, StandTypes DEF Stand
  <2> QED
    BY <2>1, ValuesAreSamples
<1>4. ASSUME NEW n \in Index PROVE a'[n] \in Int /\ Mod(a'[n]) = Mod(a[n] * a[n])
  <2>1. a[n] \in Nat /\ a'[n] = mulModBarrett(a[n], a[n])
    BY <1>1, <1>2
  <2>2. a'[n] \in 0 .. q - 1 /\ Mod(a'[n]) = Mod(a[n] * a[n])
    BY <2>1, mulModBarrettFacts
  <2> QED
    BY <1>2, <2>2
<1> QED
  BY <1>1, <1>2, <1>3, <1>4, ProductStep

(* Automorphisms: the value of p(X^g) at a power of psi is the value of p at the g-th power of it. *)

Image(j, g) == (j * g) % N
Preimage(k, g) == CHOOSE j \in Index : Image(j, g) = k

LEMMA ImageFacts ==
  ASSUME NEW g \in Int, Congruent(g, 1, 2)
  PROVE  /\ \A j \in Index : Image(j, g) \in Index /\ Preimage(Image(j, g), g) = j
         /\ \A k \in Index : Preimage(k, g) \in Index /\ Image(Preimage(k, g), g) = k
<1>1. N \in Nat \ {0} /\ Index = 0 .. N - 1
  BY Sizes DEF Index
<1>2. /\ \A k \in Index : \E j \in Index : Image(j, g) = k
      /\ \A i, j \in Index : Image(i, g) = Image(j, g) => i = j
  BY OddReaches DEF Image
<1>3. \A k \in Index : Preimage(k, g) \in Index /\ Image(Preimage(k, g), g) = k
  BY <1>2 DEF Preimage
<1>4. ASSUME NEW j \in Index PROVE Image(j, g) \in Index
  <2>1. j * g \in Int
    BY <1>1
  <2> DEFINE x == j * g
  <2>2. x \in Int
    BY <2>1
  <2> HIDE DEF x
  <2>3. x % N \in 0 .. N - 1
    BY <1>1, <2>2, DivisionFacts
  <2> QED
    BY <1>1, <2>3 DEF x, Image
<1> QED
  BY <1>2, <1>3, <1>4

LEMMA ImageExponent ==
  ASSUME NEW g \in Int, NEW j \in Index
  PROVE  /\ j * g \in Int /\ Image(j, g) \in 0 .. N - 1 /\ (j * g) % M \in {Image(j, g), Image(j, g) + N}
         /\ Congruent((j * g) % M, j * g, M)
<1>1. N \in Nat \ {0} /\ M = 2 * N /\ M \in Nat \ {0} /\ N \in Int /\ M \in Int /\ j \in Int
  BY Sizes DEF Index
<1> DEFINE x == j * g
           u == x % M
           h == x \div M
           v == IF u < N THEN u ELSE u - N
           i == x % N
<1>2. x \in Int
  BY <1>1
<1> HIDE DEF x
<1>3. u \in 0 .. M - 1 /\ h \in Int /\ x = h * M + u /\ Congruent(u, x, M)
  BY <1>1, <1>2, DivisionFacts
<1>4. i \in 0 .. N - 1 /\ Congruent(i, x, N)
  BY <1>1, <1>2, DivisionFacts
<1> HIDE DEF u, h, i
<1>5. v \in 0 .. N - 1 /\ v \in Int /\ i \in Int
  BY <1>1, <1>3, <1>4
<1> DEFINE c == IF u < N THEN 2 * h ELSE 2 * h + 1
<1>6. c \in Int /\ x - v = N * c
  <2>1. h * M = N * (2 * h)
    BY <1>1, <1>3
  <2>2. x = N * (2 * h) + u /\ u \in Int
    BY <1>3, <2>1
  <2>3. N * (2 * h + 1) = N * (2 * h) + N
    BY <1>1, <1>3
  <2> QED
    BY <1>1, <1>2, <1>3, <2>2, <2>3
<1>7. Congruent(x, v, N)
  BY <1>6 DEF Congruent, Divides
<1> HIDE DEF v
<1>8. Congruent(i, v, N)
  BY <1>1, <1>2, <1>4, <1>5, <1>7, CongruenceIsEquivalence
<1>9. i = v
  BY <1>1, <1>4, <1>5, <1>8, CongruentSmall
<1>10. u \in {i, i + N}
  BY <1>1, <1>3, <1>9 DEF v
<1> QED
  BY <1>2, <1>3, <1>4, <1>10 DEF x, u, i, Image

LEMMA AutomorphismAt ==
  ASSUME NEW p \in [Index -> 0 .. q - 1], NEW g \in Int, Congruent(g, 1, 2), NEW j \in Index
  PROVE  Automorphism(p, g)[Image(j, g)] = IF (j * g) % M = Image(j, g) THEN p[j] ELSE (q - p[j]) % q
<1> DEFINE k == Image(j, g)
<1>1. k \in Index /\ Preimage(k, g) = j
  BY ImageFacts
<1> HIDE DEF k
<1>2. Automorphism(p, g)[k] = IF (Preimage(k, g) * g) % M = k THEN p[Preimage(k, g)] ELSE (q - p[Preimage(k, g)]) % q
  BY <1>1 DEF Automorphism, Preimage, Image
<1> QED
  BY <1>1, <1>2 DEF k

IsNegated(w, y) == Mod(w) = Mod(0 - y)
TakenFromQ(x) == (q - x) % q

LEMMA NegatedTerm ==
  ASSUME NEW x \in Int, NEW y \in Int, NEW w \in Int, IsNegated(w, y)
  PROVE  TakenFromQ(x) \in Int /\ Mod(TakenFromQ(x) * y) = Mod(x * w)
<1> DEFINE u == q - x
           v == u % q
           n == 0 - x
           o == 0 - y
           b == 1
<1>1. q \in Int /\ u \in Int /\ n \in Int /\ o \in Int /\ b \in Int /\ u = n + b * q /\ n * y = x * o
  BY Sizes
<1> HIDE DEF u, n, o, b
<1>2. Mod(u) = Mod(n)
  BY <1>1, ModFacts
<1>3. v \in Int /\ Mod(v) = Mod(n)
  BY <1>1, <1>2, ReducedIs
<1> HIDE DEF v
<1>4. Mod(x) \in Int /\ Mod(y) \in Int
  BY ModRange
<1>5. Mod(v * y) = Mod(n * y)
  BY <1>1, <1>3, <1>4, ModTimes
<1>6. Mod(w) = Mod(o)
  BY DEF o, IsNegated
<1>7. Mod(x * w) = Mod(x * o)
  BY <1>1, <1>4, <1>6, ModTimes
<1> QED
  BY <1>1, <1>3, <1>5, <1>7 DEF u, v, TakenFromQ

LEMMA ImageTerm ==
  ASSUME NEW p \in [Index -> 0 .. q - 1], NEW g \in Int, Congruent(g, 1, 2), NEW z \in Int, Congruent(z, 1, 2),
         NEW j \in Index
  PROVE  Mod(Terms(Automorphism(p, g), z)[Image(j, g)]) = Mod(Terms(p, g * z)[j])
<1> DEFINE i == Image(j, g)
           u == (j * g) % M
           e == (g * z) * j
           f == z * i
           x == p[j]
           y == Pow(f)
           w == Pow(e)
<1>1. N \in Nat \ {0} /\ M \in Int /\ j \in Int /\ q \in Nat \ {0} /\ x \in Int
  BY Sizes DEF Index
<1>2. j * g \in Int /\ i \in Int /\ u \in {i, i + N} /\ Congruent(u, j * g, M) /\ i \in Index
  BY ImageExponent DEF Index
<1>3. Terms(Automorphism(p, g), z)[i] = Automorphism(p, g)[i] * y /\ Terms(p, g * z)[j] = x * w
  BY <1>2 DEF Terms
<1>4. Automorphism(p, g)[i] = IF u = i THEN x ELSE TakenFromQ(x)
  BY AutomorphismAt DEF TakenFromQ
<1> HIDE DEF i
<1>5. u \in Int /\ e \in Int /\ f \in Int
  BY <1>1, <1>2
<1>6. Congruent(z * u, e, M)
  <2> DEFINE v == j * g
  <2>1. v \in Int /\ Congruent(u, v, M) /\ z * v = e
    BY <1>1, <1>2
  <2>2. Congruent(z, z, M)
    BY <1>1, CongruenceIsEquivalence
  <2> HIDE DEF u, v, e
  <2>3. Congruent(z * u, z * v, M)
    BY <1>1, <1>5, <2>1, <2>2, CongruentOperations
  <2> QED
    BY <2>1, <2>3
<1>7. y \in Int /\ w \in Int
  BY <1>5, PowRange
<1> HIDE DEF u, e
<1>8. w = Pow(z * u)
  <2> DEFINE v == z * u
  <2>1. v \in Int /\ Congruent(v, e, M)
    BY <1>5, <1>6
  <2> HIDE DEF v
  <2>2. Pow(v) = Pow(e)
    BY <1>5, <2>1, PowSame
  <2> QED
    BY <2>2 DEF v
<1>9. CASE u = i
  <2>1. w = y
    BY <1>8, <1>9
  <2>2. Automorphism(p, g)[i] = x
    BY <1>4, <1>9
  <2>3. Terms(Automorphism(p, g), z)[i] = Terms(p, g * z)[j]
    BY <1>3, <2>1, <2>2
  <2> QED
    BY <2>3 DEF i
<1>10. CASE u # i
  <2>1. u = i + N
    BY <1>2, <1>10
  <2>2. z * u = f + z * N
    BY <1>1, <1>2, <2>1
  <2>3. Mod(Pow(f + z * N)) = Mod(0 - Pow(f))
    <3> HIDE DEF f
    <3> QED
      BY <1>5, PowOdd
  <2>4. IsNegated(w, y)
    BY <1>8, <2>2, <2>3 DEF IsNegated
  <2>5. Automorphism(p, g)[i] = TakenFromQ(x)
    BY <1>4, <1>10
  <2>6. x \in Int
    BY <1>1
  <2>7. Terms(Automorphism(p, g), z)[i] = TakenFromQ(x) * y /\ Terms(p, g * z)[j] = x * w
    BY <1>3, <2>5
  <2> HIDE DEF w, y, x
  <2>8. Mod(TakenFromQ(x) * y) = Mod(x * w)
    BY <1>7, <2>4, <2>6, NegatedTerm
  <2> QED
    BY <2>7, <2>8 DEF i
<1> QED
  BY <1>9, <1>10

LEMMA AutomorphismSample ==
  ASSUME NEW p \in [Index -> 0 .. q - 1], NEW g \in Int, Congruent(g, 1, 2), NEW z \in Int, Congruent(z, 1, 2)
  PROVE  Mod(Sample(Automorphism(p, g), z)) = Mod(Sample(p, g * z))
<1> DEFINE v == g * z
           f == Terms(Automorphism(p, g), z)
           h == Terms(p, v)
           s == [j \in Index |-> Image(j, g)]
           u == [k \in Index |-> Preimage(k, g)]
           t == [j \in Index |-> f[s[j]]]
<1>1. N \in Nat \ {0} /\ Index = 0 .. N - 1 /\ q \in Nat \ {0} /\ v \in Int /\ p \in [Index -> Int]
  BY Sizes DEF Index
<1>2. Automorphism(p, g) \in [Index -> Int]
  <2>1. Automorphism(p, g) \in [Index -> 0 .. q - 1]
    BY AutomorphismType
  <2> QED
    BY <1>1, <2>1
<1>3. s \in [Index -> Index] /\ u \in [Index -> Index] /\ \A j \in Index : u[s[j]] = j /\ s[u[j]] = j
  BY ImageFacts
<1>4. \A j \in Index : f[j] \in Int
  BY <1>2, SampleIsNumber
<1>5. \A j \in Index : h[j] \in Int
  <2> HIDE DEF v
  <2> QED
    BY <1>1, SampleIsNumber
<1>6. ASSUME NEW j \in Index PROVE t[j] \in Int /\ Mod(t[j]) = Mod(h[j])
  <2>1. s[j] \in Index /\ s[j] = Image(j, g) /\ t[j] = f[s[j]]
    BY <1>3
  <2>2. Mod(f[Image(j, g)]) = Mod(h[j])
    BY ImageTerm
  <2> HIDE DEF f, h, s, t
  <2> QED
    BY <1>4, <2>1, <2>2
<1>7. \A j \in Index : t[j] = f[s[j]]
  OBVIOUS
<1> HIDE DEF f, h, s, u, t
<1>8. SumBelow(t, N) = SumBelow(f, N)
  <2>1. IsReordering(N, f, t, s, u)
    BY <1>1, <1>3, <1>4, <1>7 DEF IsReordering
  <2> QED
    BY <1>1, <2>1, BelowReordered
<1>9. Mod(SumBelow(t, N)) = Mod(SumBelow(h, N))
  <2>1. \A j \in 0 .. N - 1 : t[j] \in Int /\ h[j] \in Int /\ Mod(t[j]) = Mod(h[j])
    BY <1>1, <1>5, <1>6
  <2> QED
    BY <1>1, <2>1, ModSum
<1> QED
  BY <1>8, <1>9 DEF Sample, f, h

LEMMA SampleSame ==
  ASSUME NEW p, NEW z \in Int, NEW y \in Int, Congruent(z, y, M) PROVE Sample(p, z) = Sample(p, y)
<1>1. N \in Nat \ {0} /\ M \in Int
  BY Sizes
<1>2. ASSUME NEW j \in Index PROVE Pow(z * j) = Pow(y * j)
  <2>1. j \in Int
    BY <1>1 DEF Index
  <2>2. Congruent(j, j, M)
    BY <1>1, <2>1, CongruenceIsEquivalence
  <2> DEFINE b == z * j
             c == y * j
  <2>3. b \in Int /\ c \in Int /\ Congruent(b, c, M)
    BY <1>1, <2>1, <2>2, CongruentOperations
  <2> HIDE DEF b, c
  <2>4. Pow(b) = Pow(c)
    BY <2>3, PowSame
  <2> QED
    BY <2>4 DEF b, c
<1>3. Terms(p, z) = Terms(p, y)
  BY <1>2 DEF Terms
<1> QED
  BY <1>3 DEF Sample

\* Where a value of the rotated polynomial comes from.
ComesFrom(n, s, g) == s \in Index /\ Congruent(Odd(s), g * Odd(n), M) /\ a'[n] = a[s]

LEMMA AutomorphismStep ==
  ASSUME NttTypeOK, Stand, [Next]_vars, form = "value", form' = "value", NEW g \in Int, Congruent(g, 1, 2),
         poly' = Automorphism(poly, g), \A n \in Index : \E s \in Index : ComesFrom(n, s, g)
  PROVE  Stand'
<1>1. poly \in [Index -> 0 .. q - 1] /\ poly \in [Index -> Int] /\ Agree(Remainder(poly, N, N), a)
  BY StandTypes DEF Stand
<1>2. Samples(poly, a)
  BY <1>1, ValuesAreSamples
<1>3. poly' \in [Index -> Int]
  BY StepNumbers
<1>4. ASSUME NEW n \in Index PROVE a'[n] \in Int /\ Mod(Sample(poly', Odd(n))) = Mod(a'[n])
  <2>1. PICK s \in Index : ComesFrom(n, s, g)
    OBVIOUS
  <2>2. Odd(n) \in Int /\ Congruent(Odd(n), 1, 2) /\ Odd(s) \in Int
    BY OddFacts
  <2>3. a'[n] = a[s] /\ a[s] \in Int /\ Mod(Sample(poly, Odd(s))) = Mod(a[s])
    BY <1>2, <2>1 DEF Samples, ComesFrom
  <2>4. Mod(Sample(poly', Odd(n))) = Mod(Sample(poly, g * Odd(n)))
    BY <1>1, <2>2, AutomorphismSample
  <2> DEFINE y == g * Odd(n)
             z == Odd(s)
  <2>5. y \in Int /\ z \in Int /\ Congruent(z, y, M)
    BY <2>1, <2>2 DEF ComesFrom
  <2> HIDE DEF y, z
  <2>6. Sample(poly, z) = Sample(poly, y)
    BY <2>5, SampleSame
  <2> QED
    BY <2>3, <2>4, <2>6 DEF y, z
<1>5. Samples(poly', a')
  BY <1>4 DEF Samples
<1>6. Agree(Remainder(poly', N, N), a')
  BY <1>3, <1>5, ValuesAreSamples
<1> QED
  BY <1>6 DEF Stand

LEMMA leftRotAndEqualStands ==
  ASSUME NttTypeOK, Stand, [Next]_vars, NEW r \in 0 .. N \div 2 - 1, leftRotAndEqual(r) PROVE Stand'
<1> DEFINE g == rotGroup[r % (N \div 2)]
<1>1. /\ form = "value" /\ form' = "value" /\ poly' = Automorphism(poly, g)
      /\ a' = [n \in Index |-> a[Source(n, r)]]
  BY DEF leftRotAndEqual, On
<1>2. r \in Nat /\ M \in Nat \ {0} /\ LogN \in Nat /\ Index = 0 .. Pow2[LogN] - 1
  BY Sizes DEF Index, N
<1>3. r % (N \div 2) \in 0 .. N \div 2 - 1
  <2>1. 0 \in Index
    BY Sizes DEF Index
  <2> QED
    BY <1>2, <2>1, SourceIsIndex
<1>4. g \in 0 .. M - 1 /\ Congruent(g, 1, 2)
  BY <1>3, RotGroupFacts
<1> HIDE DEF g
<1>5. g \in Int
  BY <1>2, <1>4
<1>6. ASSUME NEW n \in Index PROVE ComesFrom(n, Source(n, r), g)
  <2> DEFINE z == Turned(n, r)
             v == (z - 1) \div 2
  <2>1. v \in Index /\ Source(n, r) \in Index /\ 2 * v + 1 = z
    BY <1>2, SourceIsIndex DEF Turned
  <2>2. Source(n, r) = bitReverse(v, LogN)
    BY DEF Source, Turned
  <2>3. z = (g * Odd(n)) % M
    BY DEF Turned, g, Odd
  <2> HIDE DEF z, v
  <2>4. bitReverse(bitReverse(v, LogN), LogN) = v
    BY <1>2, <2>1, ReverseTwice
  <2>5. Odd(Source(n, r)) = z
    BY <2>1, <2>2, <2>4 DEF Odd
  <2>6. Congruent(z, g * Odd(n), M)
    <3>1. Odd(n) \in Int
      BY OddFacts
    <3> DEFINE x == g * Odd(n)
    <3>2. x \in Int
      BY <1>5, <3>1
    <3> HIDE DEF x
    <3>3. Congruent(x % M, x, M)
      BY <1>2, <3>2, DivisionFacts
    <3> QED
      BY <2>3, <3>3 DEF x
  <2> QED
    BY <1>1, <2>1, <2>5, <2>6 DEF ComesFrom
<1>7. \A n \in Index : \E s \in Index : ComesFrom(n, s, g)
  BY <1>6 DEF ComesFrom
<1> QED
  BY <1>1, <1>4, <1>5, <1>7, AutomorphismStep

LEMMA conjugateStands ==
  ASSUME NttTypeOK, Stand, [Next]_vars, conjugate PROVE Stand'
<1> DEFINE g == M - 1
<1>1. /\ form = "value" /\ form' = "value" /\ poly' = Automorphism(poly, g)
      /\ a' = [n \in Index |-> a[N - 1 - n]]
  BY DEF conjugate, On
<1>2. N \in Nat /\ N \in Int /\ M = 2 * N /\ M \in Int /\ Index = 0 .. N - 1
  BY Sizes DEF Index
<1>3. g \in Int /\ Congruent(g, 1, 2)
  <2> DEFINE h == N - 1
  <2>1. g - 1 = 2 * h /\ h \in Int /\ g \in Int
    BY <1>2
  <2> HIDE DEF g, h
  <2> QED
    BY <2>1 DEF Congruent, Divides
<1>4. ASSUME NEW n \in Index PROVE ComesFrom(n, N - 1 - n, g)
  <2> DEFINE s == N - 1 - n
             v == bitReverse(n, LogN)
             u == bitReverse(s, LogN)
  <2>1. s \in Index /\ n \in Int
    BY <1>2
  <2>2. u = N - 1 - v
    <3>1. LogN \in Nat /\ Index = 0 .. Pow2[LogN] - 1
      BY Sizes DEF Index, N
    <3>2. bitReverse(Pow2[LogN] - 1 - n, LogN) = Pow2[LogN] - 1 - bitReverse(n, LogN)
      BY <3>1, ReverseMirrored
    <3> QED
      BY <3>2 DEF N
  <2>3. v \in Int
    <3>1. v \in Index
      BY OddFacts
    <3> QED
      BY <1>2, <3>1
  <2>4. Odd(s) = 2 * u + 1 /\ Odd(n) = 2 * v + 1
    BY DEF Odd
  <2> HIDE DEF s, v, u
  <2>5. Odd(s) - g * Odd(n) = M * (0 - 2 * v)
    <3>1. (M - 1) * (2 * v + 1) = M * (2 * v) + M - 2 * v - 1
      BY <1>2, <2>3
    <3>2. M * (0 - 2 * v) = 0 - M * (2 * v)
      BY <1>2, <2>3
    <3> DEFINE t == M * (2 * v)
    <3>3. t \in Int
      BY <1>2, <2>3
    <3>4. (M - 1) * (2 * v + 1) = t + M - 2 * v - 1 /\ M * (0 - 2 * v) = 0 - t
      BY <3>1, <3>2
    <3> HIDE DEF t
    <3>5. Odd(s) = 2 * (N - 1 - v) + 1 /\ Odd(n) = 2 * v + 1
      BY <2>2, <2>4
    <3> QED
      BY <1>2, <2>3, <3>3, <3>4, <3>5
  <2>6. Congruent(Odd(s), g * Odd(n), M)
    <3>1. 0 - 2 * v \in Int
      BY <2>3
    <3> QED
      BY <2>5, <3>1 DEF Congruent, Divides
  <2>7. a'[n] = a[s]
    BY <1>1 DEF s
  <2> QED
    BY <2>1, <2>6, <2>7 DEF ComesFrom, s
<1>5. \A n \in Index : \E s \in Index : ComesFrom(n, s, g)
  BY <1>4 DEF ComesFrom
<1> HIDE DEF g
<1> QED
  BY <1>1, <1>3, <1>5, AutomorphismStep

\* Coefficients that leftRot finds below q are those of the polynomial.
LEMMA LeftRotShiftStands ==
  ASSUME NttTypeOK, Stand, NEW r \in 0 .. N \div 2 - 1, LeftRotShift(r) PROVE Stand'
<1> DEFINE g == rotGroup[r]
<1>1. /\ form = "coef" /\ form' = "coef" /\ poly' = Automorphism(poly, g) /\ \A k \in Index : a[k] < q
      /\ a' = [k \in Index |-> LET n == Preimage(k, g)
                               IN  IF (n * g) % M < N THEN a[n] ELSE q - a[n]]
  BY DEF LeftRotShift, On, Preimage, Image
<1>2. q \in Nat \ {0} /\ M \in Nat \ {0} /\ N \in Nat \ {0} /\ Index = 0 .. N - 1
  BY Sizes DEF Index
<1>3. g \in 0 .. M - 1 /\ Congruent(g, 1, 2)
  BY RotGroupFacts
<1> HIDE DEF g
<1>4. g \in Int
  BY <1>2, <1>3
<1>5. a \in [Index -> 0 .. R - 1] /\ poly \in [Index -> 0 .. q - 1] /\ Agree(poly, a)
  BY <1>1 DEF NttTypeOK, Stand
<1>6. ASSUME NEW n \in Index PROVE a[n] = poly[n] /\ poly[n] \in Int
  <2> DEFINE x == a[n]
             y == poly[n]
  <2>1. x \in 0 .. q - 1 /\ y \in 0 .. q - 1 /\ Mod(x) = Mod(y)
    <3>1. Mod(poly[n]) = Mod(a[n])
      BY <1>5 DEF Agree
    <3>2. a[n] \in Nat /\ a[n] < q
      BY <1>1, <1>5
    <3> QED
      BY <1>2, <1>5, <3>1, <3>2
  <2> HIDE DEF x, y
  <2>2. x = y /\ y \in Int
    BY <1>2, <2>1, ModFacts
  <2> QED
    BY <2>2 DEF x, y
<1>7. ASSUME NEW k \in Index PROVE poly'[k] \in Int /\ a'[k] \in Int /\ Mod(poly'[k]) = Mod(a'[k])
  <2> DEFINE n == Preimage(k, g)
             u == (n * g) % M
             x == poly[n]
  <2>1. n \in Index /\ Image(n, g) = k
    BY <1>3, <1>4, ImageFacts
  <2> HIDE DEF n
  <2>2. u \in {k, k + N} /\ x \in Int /\ a[n] = x
    BY <1>4, <1>6, <2>1, ImageExponent
  <2>3. a'[k] = IF u < N THEN x ELSE q - x
    BY <1>1, <2>2 DEF n
  <2>4. poly'[k] = IF u = k THEN x ELSE TakenFromQ(x)
    <3>1. Automorphism(poly, g)[Image(n, g)]
            = IF (n * g) % M = Image(n, g) THEN poly[n] ELSE (q - poly[n]) % q
      BY <1>3, <1>4, <1>5, <2>1, AutomorphismAt
    <3> QED
      BY <1>1, <2>1, <3>1 DEF TakenFromQ
  <2> HIDE DEF u, x
  <2>5. CASE u = k
    <3>1. u < N
      BY <1>2, <2>5
    <3> QED
      BY <2>2, <2>3, <2>4, <2>5, <3>1
  <2>6. CASE u = k + N
    <3>1. ~(u < N) /\ u # k
      BY <1>2, <2>6
    <3> DEFINE y == q - x
    <3>2. y \in Int /\ TakenFromQ(x) = y % q
      BY <1>2, <2>2 DEF TakenFromQ
    <3>3. a'[k] = y /\ poly'[k] = TakenFromQ(x)
      BY <2>3, <2>4, <3>1
    <3> HIDE DEF y
    <3>4. y % q \in Int /\ Mod(y % q) = Mod(y)
      BY <3>2, ReducedIs
    <3> QED
      BY <3>2, <3>3, <3>4
  <2> QED
    BY <2>2, <2>5, <2>6
<1> QED
  BY <1>1, <1>7 DEF Stand, Agree

LEMMA UnmovedStands == ASSUME Stand, UNCHANGED <<a, form, m, poly>> PROVE Stand'
BY DEF Stand, Columns, Rows

LEMMA StepStands ==
  ASSUME NttIInv, "rvv_bar" \notin Variant, ~imulted => Stand, [Next]_vars
  PROVE  ~imulted' => Stand'
<1> SUFFICES ASSUME ~imulted' PROVE Stand'
  OBVIOUS
<1>1. NttTypeOK /\ WordsAreSmall /\ a \in [Index -> 0 .. R - 1]
  BY DEF NttIInv, NttTypeOK
<1>2. Stand
  <2>1. imulted' = imulted \/ imulted' = TRUE
    BY DEF Next, BeginNTT, BeginStep4, Step4Rows, NTTLayer, BeginINTT, INTTLayer, INTTScale, leftRotAndEqual,
           LeftRotShift, conjugate, conjugateAndEqual, qiAdd, qiNegate, qiMul, qiSquare, mulByMonomial, qiAddConst,
           qiSubConst, qiMulConst, vars
  <2> QED
    BY <2>1
<1>3. q \in Nat \ {0} /\ R \in Nat /\ Largest \in q .. R - q - 1 /\ Largest \in Nat
  BY Sizes, LargestFacts
<1>4. ASSUME form # "intt" PROVE a \in [Index -> 0 .. Largest]
  <2>1. \A k \in Index : a[k] <= Largest
    BY <1>1, <1>4 DEF WordsAreSmall
  <2>2. \A k \in Index : a[k] \in 0 .. Largest
    BY <1>1, <1>3, <2>1
  <2> QED
    BY <1>1, <2>2
<1>5. ASSUME form = "intt" PROVE a \in [Index -> 0 .. 2 * q - 1]
  <2>1. \A k \in Index : a[k] < 2 * q
    BY <1>1, <1>5 DEF WordsAreSmall
  <2>2. \A k \in Index : a[k] \in 0 .. 2 * q - 1
    BY <1>1, <1>3, <2>1
  <2> QED
    BY <1>1, <2>2
<1>6. CASE UNCHANGED vars
  BY <1>2, <1>6, UnmovedStands DEF vars
<1>7. ASSUME NEW al \in Variant, BeginNTT(al) \/ BeginStep4(al) PROVE Stand'
  BY <1>1, <1>2, <1>7, BeginNTTStands, BeginStep4Stands
<1>8. CASE Step4Rows
  BY <1>1, <1>2, <1>8, Step4RowsStands
<1>9. CASE NTTLayer
  <2>1. a \in [Index -> 0 .. Largest]
    BY <1>4, <1>9 DEF NTTLayer
  <2> QED
    BY <1>1, <1>2, <1>3, <1>9, <2>1, NTTLayerStands
<1>10. CASE BeginINTT
  BY <1>1, <1>2, <1>10, BeginINTTStands
<1>11. CASE INTTLayer
  <2>1. a \in [Index -> 0 .. 2 * q - 1]
    BY <1>5, <1>11 DEF INTTLayer
  <2> QED
    BY <1>1, <1>2, <1>11, <2>1, INTTLayerStands
<1>12. CASE INTTScale
  <2>1. a \in [Index -> 0 .. 2 * q - 1]
    BY <1>5, <1>12 DEF INTTScale
  <2> QED
    BY <1>1, <1>2, <1>12, <2>1, INTTScaleStands
<1>13. ASSUME NEW r \in 0 .. N \div 2 - 1, leftRotAndEqual(r) \/ LeftRotShift(r) PROVE Stand'
  BY <1>1, <1>2, <1>13, leftRotAndEqualStands, LeftRotShiftStands
<1>14. CASE conjugate
  BY <1>1, <1>2, <1>14, conjugateStands
<1>15. CASE conjugateAndEqual
  BY <1>2, <1>15, UnmovedStands DEF conjugateAndEqual, On
<1>16. CASE qiAdd
  BY <1>1, <1>2, <1>16, qiAddStands
<1>17. CASE qiNegate
  BY <1>1, <1>2, <1>17, qiNegateStands
<1>18. CASE qiMul
  BY <1>1, <1>2, <1>18, qiMulStands
<1>19. CASE qiSquare
  BY <1>1, <1>2, <1>19, qiSquareStands
<1>20. CASE mulByMonomial
  BY <1>20 DEF mulByMonomial
<1>21. ASSUME NEW c \in Consts, qiAddConst(c) \/ qiSubConst(c) \/ qiMulConst(c) PROVE Stand'
  BY <1>1, <1>2, <1>21, qiAddConstStands, qiSubConstStands, qiMulConstStands
<1> QED
  BY <1>6, <1>7, <1>8, <1>9, <1>10, <1>11, <1>12, <1>13, <1>14, <1>15, <1>16, <1>17, <1>18, <1>19, <1>20, <1>21 DEF Next

\* StandsFor, and that the words stay small: what holds of every state.
NttStandInv == NttIInv /\ (~imulted => Stand)

\* Unless "rvv_bar" is among the variants, the words stand for their polynomial in
\* every form, before and after every operation and between all layers.
THEOREM WordsStandForPolynomial == ASSUME "rvv_bar" \notin Variant PROVE Spec => []StandsFor
<1>1. Init => NttStandInv
  BY InitSmall, InitStands DEF NttStandInv
<1>2. NttStandInv /\ [Next]_vars => NttStandInv'
  <2> SUFFICES ASSUME NttStandInv, [Next]_vars PROVE NttStandInv'
    OBVIOUS
  <2>1. NttIInv /\ (~imulted => Stand)
    BY DEF NttStandInv
  <2>2. NttIInv'
    BY <2>1, StepSmall
  <2>3. (~imulted => Stand)'
    BY <2>1, StepStands
  <2> QED
    BY <2>2, <2>3 DEF NttStandInv
<1>3. NttStandInv => StandsFor
  BY StandsForIsStand DEF NttStandInv, NttIInv
<1> QED
  BY <1>1, <1>2, <1>3, PTL DEF Spec
===============================================================================
