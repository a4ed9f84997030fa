-------------------------------- MODULE RnsLemmas --------------------------------
(***************************************************************************)
(* Lemmas about the operations of the residue number system, for any       *)
(* number of moduli of any size of which no two have a common factor.      *)
(* Each operation is first described by congruences; the uniqueness of the *)
(* number that residues stand for then says what it does to that number.   *)
(***************************************************************************)
EXTENDS Rns, Lemmas, SequenceTheorems, TLAPS

-------------------------------------------------------------------------------
(* The moduli *)

\* Each prefix of q, all of p, and both together, are moduli without common factors.
Both(k) == [i \in 1 .. k + K |-> modulus(k, i)]

LEMMA Lengths == /\ L \in Nat \ {0} /\ K \in Nat \ {0}
                 /\ DOMAIN q = 1 .. L /\ DOMAIN p = 1 .. K
                 /\ \A i \in 1 .. L : q[i] \in Nat \ {0, 1} /\ q[i] \in Nat \ {0} /\ q[i] \in Int /\ q[i] \in Modulus
                 /\ \A k \in 1 .. K : p[k] \in Nat \ {0, 1} /\ p[k] \in Nat \ {0} /\ p[k] \in Int /\ p[k] \in Modulus
BY RnsAssumption DEF L, K, Modulus

LEMMA CoprimeModuli ==
  /\ \A i, j \in 1 .. L : i # j => Coprime(q[i], q[j])
  /\ \A i, j \in 1 .. K : i # j => Coprime(p[i], p[j])
  /\ \A i \in 1 .. L, j \in 1 .. K : Coprime(q[i], p[j]) /\ Coprime(p[j], q[i])
<1>1. /\ \A i \in 1 .. L : (q \o p)[i] = q[i] /\ i \in 1 .. L + K
      /\ \A j \in 1 .. K : (q \o p)[L + j] = p[j] /\ L + j \in 1 .. L + K /\ \A i \in 1 .. L : i # L + j
  BY Lengths, RnsAssumption DEF L, K
<1>2. \A i, j \in 1 .. L + K : i # j => Coprime((q \o p)[i], (q \o p)[j])
  BY RnsAssumption
<1>3. ASSUME NEW i \in 1 .. L, NEW j \in 1 .. L, i # j PROVE Coprime(q[i], q[j])
  BY <1>1, <1>2, <1>3
<1>4. ASSUME NEW i \in 1 .. K, NEW j \in 1 .. K, i # j PROVE Coprime(p[i], p[j])
  <2>1. L + i # L + j
    BY <1>4, Lengths
  <2> QED
    BY <1>1, <1>2, <2>1
<1>5. ASSUME NEW i \in 1 .. L, NEW j \in 1 .. K PROVE Coprime(q[i], p[j]) /\ Coprime(p[j], q[i])
  BY <1>1, <1>2
<1> QED
  BY <1>3, <1>4, <1>5

LEMMA Systems ==
  /\ AreModuli(p, K)
  /\ \A k \in 1 .. L : AreModuli(q, k) /\ AreModuli(Both(k), k + K)
<1>1. AreModuli(p, K)
  BY Lengths, CoprimeModuli DEF AreModuli
<1>2. ASSUME NEW k \in 1 .. L PROVE AreModuli(q, k)
  <2>1. k \in Nat /\ \A i \in 1 .. k : i \in 1 .. L
    BY Lengths
  <2> QED
    BY Lengths, CoprimeModuli, <2>1 DEF AreModuli
<1>3. ASSUME NEW k \in 1 .. L PROVE AreModuli(Both(k), k + K)
  <2>1. k + K \in Nat
    BY Lengths
  <2>2. ASSUME NEW i \in 1 .. k + K
        PROVE  \/ i \in 1 .. L /\ i <= k /\ Both(k)[i] = q[i]
               \/ ~(i <= k) /\ i - k \in 1 .. K /\ Both(k)[i] = p[i - k]
    BY Lengths DEF Both, modulus
  <2>3. ASSUME NEW i \in 1 .. k + K PROVE Both(k)[i] \in Nat \ {0, 1}
    BY <2>2, Lengths
  <2>4. ASSUME NEW i \in 1 .. k + K, NEW j \in 1 .. k + K, i # j PROVE Coprime(Both(k)[i], Both(k)[j])
    <3>1. i - k \in 1 .. K /\ j - k \in 1 .. K => i - k # j - k
      BY <2>4
    <3> QED
      BY <2>2, <2>4, <3>1, CoprimeModuli
  <2> QED
    BY <2>1, <2>3, <2>4 DEF AreModuli
<1> QED
  BY <1>1, <1>2, <1>3

-------------------------------------------------------------------------------
(* Modular arithmetic *)

LEMMA MulModFacts ==
  ASSUME NEW m \in Nat \ {0}, NEW x \in Int, NEW y \in Int
  PROVE  mulMod(x, y, m) \in 0 .. m - 1 /\ Congruent(mulMod(x, y, m), x * y, m)
<1> DEFINE r == x % m
           s == y % m
<1>0. \A z \in Int : z % m \in 0 .. m - 1 /\ Congruent(z % m, z, m)
  BY DivisionFacts
<1>1. /\ r \in 0 .. m - 1 /\ Congruent(r, x, m)
      /\ s \in 0 .. m - 1 /\ Congruent(s, y, m)
  BY <1>0
<1> HIDE DEF r, s
<1>2. Congruent(r * s, x * y, m) /\ r * s \in Int
  BY <1>1, CongruentOperations
<1>3. (r * s) % m \in 0 .. m - 1 /\ Congruent((r * s) % m, r * s, m)
  BY <1>2, DivisionFacts
<1>4. Congruent((r * s) % m, x * y, m)
  BY <1>2, <1>3, CongruenceIsEquivalence
<1> QED
  BY <1>3, <1>4 DEF mulMod, r, s

LEMMA SubModFacts ==
  ASSUME NEW m \in Nat \ {0}, NEW x \in Int, NEW y \in Int
  PROVE  subMod(x, y, m) \in 0 .. m - 1 /\ Congruent(subMod(x, y, m), x - y, m)
<1> DEFINE s == y % m
<1>1. s \in Int /\ Congruent(s, y, m)
  BY DivisionFacts
<1> HIDE DEF s
<1>2. (x + m) - x = m * 1
  OBVIOUS
<1>3. Congruent(x + m, x, m)
  BY <1>2 DEF Congruent, Divides
<1>4. Congruent((x + m) - s, x - y, m) /\ (x + m) - s \in Int /\ x + m - s = (x + m) - s
  BY <1>1, <1>3, CongruentOperations
<1>5. ((x + m) - s) % m \in 0 .. m - 1 /\ Congruent(((x + m) - s) % m, (x + m) - s, m)
  BY <1>4, DivisionFacts
<1>6. Congruent(((x + m) - s) % m, x - y, m)
  BY <1>4, <1>5, CongruenceIsEquivalence
<1> QED
  BY <1>4, <1>5, <1>6 DEF subMod, s

\* Every number has its exponent of two below itself.
LEMMA PowersExceed == \A n \in Nat : n < Pow2[n]
<1> SUFFICES ASSUME NEW n \in Nat PROVE n < Pow2[n]
  OBVIOUS
<1> DEFINE S == {i \in 0 .. n : i < Pow2[i]}
<1>1. 0 \in S
  BY Pow2Facts
<1>2. ASSUME NEW i \in 0 .. n - 1, i \in S PROVE i + 1 \in S
  BY <1>2, Pow2Facts
<1>3. n \in S
  <2> HIDE DEF S
  <2>1. \A i \in 0 .. n : i \in S
    BY <1>1, <1>2, InductionUpTo
  <2> QED
    BY <2>1
<1> QED
  BY <1>3

\* Barrett's shift is that of the least power of four above m.
LEMMA ShiftFacts ==
  ASSUME NEW m \in Modulus
  PROVE  /\ m \in Nat \ {0, 1}
         /\ Shift[m] \in Nat \ {0} /\ mr[m] \in Nat /\ m * mr[m] <= Shift[m] /\ Shift[m] < m * mr[m] + m
         /\ m * m < Shift[m]
<1>1. m \in Nat \ {0, 1}
  BY Lengths DEF Modulus
<1> DEFINE Fits(e) == Pow2[e] <= m /\ m < Pow2[e + 1]
           top == CHOOSE e \in 0 .. m : Fits(e)
<1>2. \E e \in 0 .. m : Fits(e)
  <2> DEFINE S == {i \in Nat : m < Pow2[i]}
  <2>1. m \in S /\ S \in SUBSET Nat
    BY <1>1, PowersExceed
  <2>2. PICK i \in S : \A j \in S : i <= j
    <3> HIDE DEF S
    <3> QED
      BY <2>1, LeastElement
  <2>3. i # 0
    BY <1>1, <2>2, Pow2Facts
  <2>4. i - 1 \in Nat /\ (i - 1) + 1 = i /\ i <= m /\ ~(i <= i - 1)
    BY <2>1, <2>2, <2>3
  <2>5. ~(m < Pow2[i - 1])
    BY <2>2, <2>4
  <2>6. Fits(i - 1) /\ i - 1 \in 0 .. m
    BY <1>1, <2>2, <2>4, <2>5, Pow2Facts
  <2> QED
    BY <2>6
<1>3. top \in 0 .. m /\ Fits(top)
  BY <1>2
<1>4. twok[m] = 2 * (1 + top)
  BY DEF twok
<1> HIDE DEF top
<1>5. Shift[m] = Pow2[top + 1] * Pow2[top + 1]
  <2>1. twok[m] = (top + 1) + (top + 1) /\ top + 1 \in Nat
    BY <1>3, <1>4
  <2>2. Shift[m] = Pow2[twok[m]]
    BY DEF Shift
  <2> QED
    BY <2>1, <2>2, Pow2Sum
<1>6. Shift[m] \in Nat \ {0} /\ m * m < Shift[m]
  <2> DEFINE t == Pow2[top + 1]
  <2>1. t \in Nat \ {0} /\ m < t
    BY <1>3, Pow2Facts
  <2> HIDE DEF t
  <2>2. m * m < t * t /\ t * t \in Nat \ {0}
    <3>1. m * m <= m * t /\ m * t < t * t
      BY <1>1, <2>1
    <3>2. m * m \in Nat /\ m * t \in Nat /\ t * t \in Nat
      BY <1>1, <2>1
    <3> QED
      BY <3>1, <3>2
  <2> QED
    BY <1>5, <2>2 DEF t
<1>7. mr[m] = Shift[m] \div m
  BY DEF mr
<1>8. mr[m] \in Nat /\ m * mr[m] <= Shift[m] /\ Shift[m] < m * mr[m] + m
  <2> DEFINE s == Shift[m]
             d == s \div m
             r == s % m
  <2>1. d \in Nat /\ r \in 0 .. m - 1 /\ s = d * m + r
    BY <1>1, <1>6, DivMod
  <2>2. mr[m] = d
    BY <1>7
  <2> HIDE DEF d, r
  <2>3. d * m = m * d /\ m * d \in Nat
    BY <1>1, <2>1
  <2>4. s \in Nat
    BY <1>6
  <2> HIDE DEF s
  <2>5. m * d <= s /\ s < m * d + m
    BY <1>1, <2>1, <2>3, <2>4
  <2> QED
    BY <2>1, <2>2, <2>5 DEF s
<1> QED
  BY <1>1, <1>6, <1>8

\* Barrett's reduction subtracts multiples of m, and stays above 0.
LEMMA BarrettFacts ==
  ASSUME NEW m \in Modulus, NEW x \in Nat
  PROVE  modBarrett(x, m) \in Nat /\ Congruent(modBarrett(x, m), x, m)
<1>1. /\ m \in Nat \ {0, 1} /\ Shift[m] \in Nat \ {0}
      /\ mr[m] \in Nat /\ m * mr[m] <= Shift[m]
  BY ShiftFacts
<1> DEFINE s == Shift[m]
           u == mr[m]
           k == (x * u) \div s
           r == x - k * m
<1>2. s \in Nat \ {0} /\ u \in Nat /\ m * u <= s
  BY <1>1
<1> HIDE DEF s, u
<1>3. k \in Nat /\ k * s <= x * u
  <2>1. x * u \in Nat
    BY <1>2
  <2> DEFINE y == x * u
  <2> HIDE DEF y
  <2>2. y \in Nat
    BY <2>1 DEF y
  <2>3. y \div s \in Nat /\ y % s \in 0 .. s - 1 /\ y = (y \div s) * s + (y % s)
    BY <1>2, <2>2, DivMod
  <2> DEFINE d == y \div s
             e == y % s
  <2>4. d \in Nat /\ e \in Nat /\ y = d * s + e
    BY <1>2, <2>3
  <2> HIDE DEF d, e
  <2>5. d * s \in Int
    BY <1>2, <2>4
  <2>6. d * s <= y
    BY <2>4, <2>5
  <2> QED
    BY <2>4, <2>6 DEF d, y
<1> HIDE DEF k
<1>4. k * m <= x
  <2>1. (k * s) * m <= (x * u) * m
    BY <1>1, <1>2, <1>3
  <2>2. (k * s) * m = (k * m) * s /\ (x * u) * m = x * (m * u) /\ x * (m * u) <= x * s
    BY <1>1, <1>2, <1>3
  <2>3. (k * m) * s <= x * s
    BY <1>1, <1>2, <1>3, <2>1, <2>2
  <2> DEFINE z == k * m
  <2>4. z \in Nat
    BY <1>1, <1>3
  <2> HIDE DEF z
  <2>5. ~(z >= x + 1)
    <3>1. SUFFICES ASSUME z >= x + 1 PROVE FALSE
      OBVIOUS
    <3>2. z * s >= (x + 1) * s
      BY <1>2, <2>4, <3>1
    <3>3. (x + 1) * s = x * s + s /\ x * s \in Nat
      BY <1>2
    <3>4. z * s <= x * s
      BY <2>3 DEF z
    <3> QED
      BY <1>2, <2>4, <3>2, <3>3, <3>4
  <2> QED
    BY <2>4, <2>5 DEF z
<1>5. r \in Nat /\ Congruent(r, x, m) /\ Congruent(r - m, x, m)
  <2>1. k * m \in Nat
    BY <1>1, <1>3
  <2>2. r - x = m * (0 - k) /\ (r - m) - x = m * (0 - k - 1) /\ 0 - k \in Int /\ 0 - k - 1 \in Int
    BY <1>1, <1>3
  <2> QED
    BY <1>4, <2>1, <2>2 DEF Congruent, Divides
<1>6. modBarrett(x, m) = IF r >= m THEN r - m ELSE r
  BY DEF modBarrett, k, s, u
<1> HIDE DEF r
<1> QED
  BY <1>1, <1>5, <1>6

\* It is exact below the power of two, and so for products of reduced words.
LEMMA BarrettIsExact ==
  ASSUME NEW m \in Modulus, NEW x \in Nat, x < Shift[m] PROVE modBarrett(x, m) = x % m
<1>1. /\ m \in Nat \ {0, 1} /\ Shift[m] \in Nat \ {0}
      /\ mr[m] \in Nat /\ m * mr[m] <= Shift[m] /\ Shift[m] < m * mr[m] + m
  BY ShiftFacts
<1> DEFINE s == Shift[m]
           u == mr[m]
           k == (x * u) \div s
           r == x - k * m
<1>2. s \in Nat \ {0} /\ u \in Nat /\ m * u <= s /\ s < m * u + m /\ x < s
  BY <1>1
<1> HIDE DEF s, u
<1>3. k \in Nat /\ x * u < k * s + s
  <2> DEFINE y == x * u
  <2>1. y \in Nat
    BY <1>2
  <2> HIDE DEF y
  <2>2. y \div s \in Nat /\ y % s \in 0 .. s - 1 /\ y = (y \div s) * s + (y % s)
    BY <1>2, <2>1, DivMod
  <2> DEFINE d == y \div s
             e == y % s
  <2>3. d \in Nat /\ e \in 0 .. s - 1 /\ y = d * s + e
    BY <1>2, <2>2
  <2> HIDE DEF d, e
  <2>4. d * s \in Int
    BY <1>2, <2>3
  <2>5. y < d * s + s
    BY <1>2, <2>3, <2>4
  <2> QED
    BY <2>3, <2>5 DEF d, y
<1> HIDE DEF k
<1>4. x < k * m + 2 * m
  <2>1. (x * u) * m <= (k * s + s) * m
    BY <1>1, <1>2, <1>3
  <2>2. x * s <= x * (m * u + m)
    BY <1>1, <1>2
  <2>3. x * (m * u + m) = (x * u) * m + x * m
    BY <1>1, <1>2
  <2>4. x * m < s * m
    BY <1>1, <1>2
  <2>5. (k * s + s) * m + s * m = (k * m + 2 * m) * s
    BY <1>1, <1>2, <1>3
  <2>6. x * s < (k * m + 2 * m) * s
    <3>1. /\ x * s \in Int /\ x * (m * u + m) \in Int /\ (x * u) * m \in Int /\ x * m \in Int
          /\ s * m \in Int /\ (k * s + s) * m \in Int /\ (k * m + 2 * m) * s \in Int
      BY <1>1, <1>2, <1>3
    <3> QED
      BY <2>1, <2>2, <2>3, <2>4, <2>5, <3>1
  <2> DEFINE z == k * m + 2 * m
  <2>7. z \in Nat
    BY <1>1, <1>3
  <2> HIDE DEF z
  <2>8. ~(z <= x)
    <3>1. SUFFICES ASSUME z <= x PROVE FALSE
      OBVIOUS
    <3>2. z * s <= x * s
      BY <1>2, <2>7, <3>1
    <3>3. z * s \in Int /\ x * s \in Int
      BY <1>2, <2>7
    <3>4. x * s < z * s
      BY <2>6 DEF z
    <3> QED
      BY <3>2, <3>3, <3>4
  <2> QED
    BY <2>7, <2>8 DEF z
<1>5. modBarrett(x, m) = IF r >= m THEN r - m ELSE r
  BY DEF modBarrett, k, s, u
<1>6. r < 2 * m /\ r \in Int
  <2>1. k * m \in Int
    BY <1>1, <1>3
  <2> QED
    BY <1>1, <1>4, <2>1
<1> HIDE DEF r
<1> DEFINE b == modBarrett(x, m)
<1>7. b \in Nat /\ Congruent(b, x, m)
  BY BarrettFacts
<1>8. b < m
  BY <1>1, <1>5, <1>6
<1> HIDE DEF b
<1>9. x % m \in 0 .. m - 1 /\ Congruent(x % m, x, m)
  <2>1. \A z \in Int : z % m \in 0 .. m - 1 /\ Congruent(z % m, z, m)
    BY <1>1, DivisionFacts
  <2> QED
    BY <2>1
<1> DEFINE y == x % m
<1>10. y \in 0 .. m - 1 /\ Congruent(y, x, m)
  BY <1>9
<1> HIDE DEF y
<1>11. Congruent(x, y, m) /\ Congruent(b, y, m) /\ b \in 0 .. m - 1
  <2>1. m \in Int /\ y \in Int /\ b \in Int /\ x \in Int /\ b \in 0 .. m - 1
    BY <1>1, <1>7, <1>8, <1>10
  <2>2. Congruent(x, y, m)
    BY <1>10, <2>1, CongruenceIsEquivalence
  <2>3. Congruent(b, y, m)
    BY <1>7, <2>1, <2>2, CongruenceIsEquivalence
  <2> QED
    BY <2>1, <2>2, <2>3
<1>12. b = y
  BY <1>1, <1>10, <1>11, CongruentSmall
<1> QED
  BY <1>12 DEF b, y

\* What the constructor computes as the inverse of x modulo b is one.
LEMMA InverseFacts ==
  ASSUME NEW b \in Nat \ {0, 1}, NEW x \in Int, Invertible(x, b)
  PROVE  /\ InverseMod(x % b, b) \in 1 .. b - 1
         /\ Congruent(x * InverseMod(x % b, b), 1, b)
<1>0. \A z \in Int : z % b \in 0 .. b - 1 /\ Congruent(z % b, z, b)
  BY DivisionFacts
<1> DEFINE r == x % b
<1>1. r \in 0 .. b - 1 /\ Congruent(r, x, b)
  BY <1>0
<1> HIDE DEF r
<1>2. 1 % b = 1 /\ 0 % b = 0
  <2>1. \A z \in 0 .. b - 1 : z % b = z
    OBVIOUS
  <2> QED
    BY <2>1
<1>3. \E y \in 1 .. b - 1 : (r * y) % b = 1
  <2>1. PICK w \in Int : Congruent(x * w, 1, b)
    BY DEF Invertible
  <2> DEFINE y == w % b
  <2>2. y \in 0 .. b - 1 /\ Congruent(y, w, b)
    BY <1>0
  <2> HIDE DEF y
  <2>3. Congruent(r * y, x * w, b)
    BY <1>1, <2>2, CongruentOperations
  <2>4. r * y \in Int /\ x * w \in Int /\ 1 \in Int
    BY <1>1, <2>2
  <2>5. Congruent(r * y, 1, b)
    BY <2>1, <2>3, <2>4, CongruenceIsEquivalence
  <2>6. (r * y) % b = 1 % b
    BY <2>4, <2>5, CongruentMod
  <2>7. y # 0
    <3>1. r * 0 = 0
      BY <1>1
    <3> QED
      BY <1>2, <2>6, <3>1
  <2> QED
    BY <1>2, <2>2, <2>6, <2>7
<1> DEFINE y == InverseMod(r, b)
<1>4. y \in 1 .. b - 1 /\ (r * y) % b = 1
  BY <1>3 DEF InverseMod
<1> HIDE DEF y
<1>5. r * y \in Int /\ x * y \in Int
  BY <1>1, <1>4
<1>6. Congruent(r * y, 1, b)
  <2> DEFINE z == r * y
  <2>1. z \in Int /\ z % b = 1 % b /\ 1 \in Int
    BY <1>2, <1>4, <1>5
  <2> HIDE DEF z
  <2>2. Congruent(z, 1, b)
    BY <2>1, CongruentMod
  <2> QED
    BY <2>2 DEF z
<1>7. Congruent(y, y, b)
  BY <1>4, CongruenceIsEquivalence
<1>8. Congruent(x * y, r * y, b)
  <2>1. Congruent(x, r, b)
    BY <1>1, CongruenceIsEquivalence
  <2> QED
    BY <1>1, <1>4, <1>7, <2>1, CongruentOperations
<1>9. Congruent(x * y, 1, b)
  BY <1>5, <1>6, <1>8, CongruenceIsEquivalence
<1> QED
  BY <1>4, <1>9 DEF y, r

\* A number times an inverse times the number it is the inverse of.
LEMMA ScaledBack ==
  ASSUME NEW b \in Nat \ {0, 1}, NEW h \in Int, Invertible(h, b), NEW c \in Int, NEW w \in Int,
         Congruent(w, c * InverseMod(h % b, b), b)
  PROVE  Congruent(w * h, c, b)
<1> DEFINE u == InverseMod(h % b, b)
<1>1. u \in Int /\ Congruent(h * u, 1, b) /\ Congruent(w, c * u, b)
  BY InverseFacts
<1> HIDE DEF u
<1>2. Congruent((c * h) * u, c, b)
  <2>1. b \in Int /\ Congruent(h * u, 1, b)
    BY <1>1
  <2> QED
    BY <1>1, <2>1, Cancel
<1>3. Congruent(h, h, b) /\ c * u \in Int
  BY <1>1, CongruenceIsEquivalence
<1>4. Congruent(w * h, (c * u) * h, b)
  BY <1>1, <1>3, CongruentOperations
<1>5. (c * u) * h = (c * h) * u /\ (c * h) * u \in Int /\ w * h \in Int
  BY <1>1
<1>6. Congruent(w * h, (c * h) * u, b)
  BY <1>4, <1>5
<1> QED
  BY <1>2, <1>5, <1>6, CongruenceIsEquivalence

-------------------------------------------------------------------------------
(* The number that residues stand for *)

\* It has these residues, and lies below the product of the moduli.
LEMMA CombineFacts ==
  ASSUME NEW n, NEW m, AreModuli(m, n), n > 0, NEW r, \A i \in 1 .. n : r[i] \in Int
  PROVE  /\ Combine(r, m, n) \in 0 .. ProductOf(m, n) - 1
         /\ \A i \in 1 .. n : Congruent(Combine(r, m, n), r[i], m[i])
<1>0. /\ n \in Nat /\ ProductOf(m, n) \in Nat \ {0}
      /\ \A i \in 1 .. n : /\ m[i] \in Nat \ {0, 1} /\ m[i] \in Nat \ {0} /\ m[i] \in Int
                           /\ HatOf(m, n, i) \in Int /\ Invertible(HatOf(m, n, i), m[i])
  BY ModuliFacts, HatFacts
<1> DEFINE inv(i) == InverseMod(HatOf(m, n, i) % m[i], m[i])
           t == [i \in 1 .. n |-> (r[i] * inv(i)) % m[i]]
           f == [i \in 1 .. n |-> ((r[i] * inv(i)) % m[i]) * HatOf(m, n, i)]
<1>1. ASSUME NEW i \in 1 .. n
      PROVE  /\ t[i] \in 0 .. m[i] - 1 /\ Congruent(t[i] * HatOf(m, n, i), r[i], m[i])
             /\ f[i] = t[i] * HatOf(m, n, i)
  <2> DEFINE b == m[i]
             h == HatOf(m, n, i)
             c == r[i]
             w == (c * inv(i)) % b
  <2>1. b \in Nat \ {0, 1} /\ h \in Int /\ c \in Int /\ Invertible(h, b)
    BY <1>0
  <2>2. inv(i) = InverseMod(h % b, b)
    OBVIOUS
  <2>3. t[i] = w /\ f[i] = w * h
    OBVIOUS
  <2> HIDE DEF b, h, c, inv
  <2>4. inv(i) \in Int
    BY <2>1, <2>2, InverseFacts
  <2> DEFINE z == c * inv(i)
  <2>5. z \in Int
    BY <2>1, <2>4
  <2> HIDE DEF z
  <2>6. z % b \in 0 .. b - 1 /\ Congruent(z % b, z, b)
    BY <2>1, <2>5, DivisionFacts
  <2>7. w \in 0 .. b - 1 /\ Congruent(w, c * InverseMod(h % b, b), b)
    BY <2>2, <2>6 DEF z
  <2> HIDE DEF w
  <2>8. Congruent(w * h, c, b)
    BY <2>1, <2>7, ScaledBack
  <2> QED
    BY <2>3, <2>7, <2>8 DEF b, h, c
<1>2. Combine(r, m, n) = SumOf(f, n) % ProductOf(m, n)
  BY Zenon DEF Combine
<1> HIDE DEF t, f, inv
<1>3. /\ SumOf(f, n) \in 0 .. n * ProductOf(m, n) - 1
      /\ \A i \in 1 .. n : Congruent(SumOf(f, n), r[i], m[i])
  <2>1. \A i \in 1 .. n : /\ r[i] \in Int /\ t[i] \in 0 .. m[i] - 1
                          /\ Congruent(t[i] * HatOf(m, n, i), r[i], m[i])
                          /\ f[i] = t[i] * HatOf(m, n, i)
    BY <1>1
  <2> QED
    BY <2>1, SumOfHats
<1> DEFINE M == ProductOf(m, n)
           X == SumOf(f, n)
           y == X % M
<1>4. X \in Int /\ M \in Nat \ {0}
  <2>1. M \in Nat \ {0} /\ n * M \in Int
    BY <1>0
  <2> QED
    BY <1>3, <2>1
<1> HIDE DEF M, X
<1>5. y \in 0 .. M - 1 /\ Congruent(y, X, M)
  BY <1>4, DivisionFacts
<1> HIDE DEF y
<1>6. y \in Int
  BY <1>4, <1>5
<1>7. ASSUME NEW i \in 1 .. n PROVE Congruent(y, r[i], m[i])
  <2>1. Congruent(y, X, m[i])
    BY <1>4, <1>5, <1>6, CongruentFactor DEF M
  <2>2. Congruent(X, r[i], m[i])
    BY <1>3 DEF X
  <2>3. r[i] \in Int /\ m[i] \in Int
    BY <1>0
  <2> QED
    BY <1>4, <1>6, <2>1, <2>2, <2>3, CongruenceIsEquivalence
<1> QED
  BY <1>2, <1>5, <1>7 DEF y, X, M

\* It is the only one.
LEMMA CombineIs ==
  ASSUME NEW n, NEW m, AreModuli(m, n), n > 0, NEW r, \A i \in 1 .. n : r[i] \in Int,
         NEW x \in Int, x \in 0 .. ProductOf(m, n) - 1, \A i \in 1 .. n : Congruent(x, r[i], m[i])
  PROVE  Combine(r, m, n) = x
<1> DEFINE M == ProductOf(m, n)
           y == Combine(r, m, n)
<1>1. y \in 0 .. M - 1 /\ \A i \in 1 .. n : Congruent(y, r[i], m[i])
  BY CombineFacts
<1>2. M \in Nat \ {0} /\ \A i \in 1 .. n : m[i] \in Int
  BY ModuliFacts
<1>3. x \in 0 .. M - 1
  OBVIOUS
<1> HIDE DEF y
<1>4. y \in Int
  BY <1>1, <1>2
<1>5. ASSUME NEW i \in 1 .. n PROVE Congruent(y, x, m[i])
  <2>1. Congruent(r[i], x, m[i]) /\ Congruent(y, r[i], m[i]) /\ r[i] \in Int /\ m[i] \in Int
    <3>1. Congruent(x, r[i], m[i]) /\ r[i] \in Int /\ m[i] \in Int
      BY <1>2
    <3> QED
      BY <1>1, <3>1, CongruenceIsEquivalence
  <2> QED
    BY <1>4, <2>1, CongruenceIsEquivalence
<1>6. Congruent(y, x, M)
  BY <1>4, <1>5, ResiduesDetermine
<1> HIDE DEF M
<1>7. y = x
  BY <1>1, <1>2, <1>3, <1>6, CongruentSmall
<1> QED
  BY <1>7 DEF y

-------------------------------------------------------------------------------
(* The residues of RnsContext: k of them, and K more when they are raised *)

Count(k, up) == IF up THEN k + K ELSE k
Bound(k, up) == IF up THEN QProduct[k] * PProduct ELSE QProduct[k]
Value(r, k) == Combine(r, SubSeq(q, 1, k) \o p, Len(r))

\* The i-th residue is modulo the i-th modulus of q and p together.
LEMMA ModuliInOrder ==
  ASSUME NEW k \in 1 .. L
  PROVE  /\ \A i \in 1 .. k + K : (SubSeq(q, 1, k) \o p)[i] = Both(k)[i]
         /\ \A i \in 1 .. k : Both(k)[i] = q[i] /\ Both(k)[i] = modulus(k, i) /\ i \in 1 .. k + K /\ i \in 1 .. L
         /\ \A j \in 1 .. K : Both(k)[k + j] = p[j] /\ modulus(k, k + j) = p[j] /\ k + j \in 1 .. k + K
<1>1. q \in Seq(Nat \ {0, 1}) /\ p \in Seq(Nat \ {0, 1}) /\ k \in 1 .. Len(q)
  BY RnsAssumption DEF L
<1>2. /\ SubSeq(q, 1, k) \in Seq(Nat \ {0, 1}) /\ Len(SubSeq(q, 1, k)) = k
      /\ \A i \in 1 .. k : SubSeq(q, 1, k)[i] = q[i]
  BY <1>1
<1>3. \A i \in 1 .. k + K : (SubSeq(q, 1, k) \o p)[i] = IF i <= k THEN q[i] ELSE p[i - k]
  <2> DEFINE s == SubSeq(q, 1, k)
  <2>1. s \in Seq(Nat \ {0, 1}) /\ Len(s) = k /\ \A i \in 1 .. k : s[i] = q[i]
    BY <1>2
  <2> HIDE DEF s
  <2>2. \A i \in 1 .. k + Len(p) : (s \o p)[i] = IF i <= Len(s) THEN s[i] ELSE p[i - Len(s)]
    BY <1>1, <2>1, ConcatProperties
  <2>3. k \in Nat /\ K = Len(p)
    BY <1>1 DEF K
  <2>4. ASSUME NEW i \in 1 .. k + K PROVE (s \o p)[i] = IF i <= k THEN q[i] ELSE p[i - k]
    <3>1. i <= k => i \in 1 .. k
      BY <2>3
    <3> QED
      BY <2>1, <2>2, <2>3, <3>1
  <2> QED
    BY <2>4 DEF s
<1> QED
  BY <1>3, Lengths DEF Both, modulus

\* The product of both is that of the products.
LEMMA ProductOfBoth ==
  ASSUME NEW k \in 1 .. L
  PROVE  /\ ProductOf(Both(k), k) = QProduct[k] /\ QProduct[k] = ProductOf(q, k)
         /\ ProductOf(Both(k), k + K) = QProduct[k] * PProduct
         /\ QProduct[k] \in Nat \ {0} /\ PProduct \in Nat \ {0}
<1>1. k \in Nat /\ K \in Nat /\ QProduct[k] = ProductOf(q, k) /\ PProduct = ProductOf(p, K)
  BY Lengths DEF QProduct, PProduct
<1>2. ProductOf(Both(k), k) = ProductOf(q, k)
  <2>1. \A i \in 1 .. k : Both(k)[i] = q[i]
    BY ModuliInOrder
  <2> QED
    BY <1>1, <2>1, SumSame
<1>3. QProduct[k] \in Nat \ {0} /\ PProduct \in Nat \ {0}
  BY <1>1, Systems, ModuliFacts
<1> DEFINE S == {j \in 0 .. K : ProductOf(Both(k), k + j) = QProduct[k] * ProductOf(p, j) /\ ProductOf(p, j) \in Int}
<1>4. 0 \in S
  <2>1. ProductOf(p, 0) = 1 /\ k + 0 = k /\ QProduct[k] * 1 = QProduct[k]
    BY <1>1, <1>3, ProductSteps
  <2> QED
    BY <1>1, <1>2, <2>1
<1>5. ASSUME NEW j \in 0 .. K - 1, j \in S PROVE j + 1 \in S
  <2>1. j \in Nat /\ j + 1 \in 1 .. K /\ j + 1 \in 0 .. K /\ k + j \in Nat /\ k + (j + 1) = (k + j) + 1
    BY <1>1
  <2>2. Both(k)[k + (j + 1)] = p[j + 1]
    BY <2>1, ModuliInOrder
  <2> DEFINE b == p[j + 1]
             Q == QProduct[k]
             f == Both(k)
  <2>3. ProductOf(f, k + (j + 1)) = ProductOf(f, k + j) * b
    BY <2>1, <2>2, ProductSteps
  <2>4. ProductOf(p, j + 1) = ProductOf(p, j) * b
    BY <2>1, ProductSteps
  <2>5. ProductOf(f, k + j) = Q * ProductOf(p, j) /\ ProductOf(p, j) \in Int /\ b \in Int /\ Q \in Int
    BY <1>3, <1>5, <2>1, Lengths
  <2> HIDE DEF b, Q, f
  <2>6. (Q * ProductOf(p, j)) * b = Q * (ProductOf(p, j) * b) /\ ProductOf(p, j) * b \in Int
    BY <2>5
  <2>7. ProductOf(f, k + (j + 1)) = Q * ProductOf(p, j + 1) /\ ProductOf(p, j + 1) \in Int
    BY <2>3, <2>4, <2>5, <2>6
  <2> QED
    BY <2>1, <2>7 DEF f, Q
<1>6. K \in S
  <2> HIDE DEF S
  <2>1. \A j \in 0 .. K : j \in S
    BY <1>1, <1>4, <1>5, InductionUpTo
  <2> QED
    BY <1>1, <2>1
<1> QED
  BY <1>1, <1>2, <1>3, <1>6

\* The number that the residues of a step stand for.
LEMMA ValueFacts ==
  ASSUME NEW k \in 1 .. L, NEW up \in BOOLEAN, NEW r \in [1 .. Count(k, up) -> Int]
  PROVE  /\ Bound(k, up) \in Nat \ {0}
         /\ Value(r, k) \in 0 .. Bound(k, up) - 1 /\ Value(r, k) \in Int
         /\ \A i \in 1 .. Count(k, up) : Congruent(Value(r, k), r[i], Both(k)[i])
         /\ \A x \in 0 .. Bound(k, up) - 1 :
              (\A i \in 1 .. Count(k, up) : Congruent(x, r[i], Both(k)[i])) => Value(r, k) = x
<1> DEFINE m == SubSeq(q, 1, k) \o p
           n == Count(k, up)
<1>1. n \in Nat /\ n > 0 /\ \A i \in 1 .. n : i \in 1 .. k + K /\ m[i] = Both(k)[i]
  <2>1. n \in Nat /\ n > 0 /\ \A i \in 1 .. n : i \in 1 .. k + K
    BY Lengths DEF Count
  <2>2. \A i \in 1 .. k + K : m[i] = Both(k)[i]
    BY ModuliInOrder
  <2> HIDE DEF m, n
  <2> QED
    BY <2>1, <2>2
<1>2. AreModuli(m, n)
  <2>1. AreModuli(Both(k), k + K)
    BY Systems
  <2> HIDE DEF m, n
  <2> QED
    BY <1>1, <2>1 DEF AreModuli
<1>3. ProductOf(m, n) = Bound(k, up)
  <2>1. ProductOf(m, n) = ProductOf(Both(k), n)
    <3> HIDE DEF m, n
    <3> QED
      BY <1>1, SumSame
  <2>2. CASE up
    BY <2>1, <2>2, ProductOfBoth DEF Count, Bound
  <2>3. CASE ~up
    BY <2>1, <2>3, ProductOfBoth DEF Count, Bound
  <2> QED
    BY <2>2, <2>3
<1>4. Len(r) = n
  <2> HIDE DEF n
  <2>1. r \in [1 .. n -> Int]
    BY DEF n
  <2> QED
    BY <1>1, <2>1
<1>5. Value(r, k) = Combine(r, m, n)
  BY <1>4 DEF Value
<1>6. \A i \in 1 .. n : r[i] \in Int
  OBVIOUS
<1>7. ProductOf(m, n) \in Nat \ {0}
  BY <1>2, ModuliFacts
<1> HIDE DEF m, n
<1>8. /\ Combine(r, m, n) \in 0 .. ProductOf(m, n) - 1
      /\ \A i \in 1 .. n : Congruent(Combine(r, m, n), r[i], m[i])
  BY <1>1, <1>2, <1>6, CombineFacts
<1>9. ASSUME NEW x \in 0 .. ProductOf(m, n) - 1, \A i \in 1 .. n : Congruent(x, r[i], Both(k)[i])
      PROVE  Value(r, k) = x
  <2>1. x \in Int /\ \A i \in 1 .. n : Congruent(x, r[i], m[i])
    BY <1>1, <1>7, <1>9
  <2> QED
    BY <1>1, <1>2, <1>5, <1>6, <1>9, <2>1, CombineIs
<1>10. /\ Bound(k, up) \in Nat \ {0}
       /\ Value(r, k) \in 0 .. Bound(k, up) - 1 /\ Value(r, k) \in Int
  BY <1>3, <1>5, <1>7, <1>8
<1>11. \A i \in 1 .. n : Congruent(Value(r, k), r[i], Both(k)[i])
  BY <1>1, <1>5, <1>8
<1> QED
  BY <1>3, <1>9, <1>10, <1>11 DEF n

\* If all residues are those of some number, it is the remainder of that one.
LEMMA ValueIsRemainder ==
  ASSUME NEW k \in 1 .. L, NEW up \in BOOLEAN, NEW r \in [1 .. Count(k, up) -> Int], NEW X \in Int,
         \A i \in 1 .. Count(k, up) : Congruent(X, r[i], Both(k)[i])
  PROVE  Value(r, k) = X % Bound(k, up)
<1> DEFINE n == Count(k, up)
           M == Bound(k, up)
           y == X % M
<1>1. AreModuli(Both(k), n) /\ ProductOf(Both(k), n) = M
  <2>1. CASE up
    BY <2>1, Systems, ProductOfBoth DEF Count, Bound
  <2>2. CASE ~up
    <3>1. ProductOf(Both(k), n) = M /\ n = k
      BY <2>2, ProductOfBoth DEF Count, Bound
    <3>2. k \in Nat /\ AreModuli(Both(k), k + K) /\ \A i \in 1 .. k : i \in 1 .. k + K
      BY Systems, ModuliInOrder
    <3> HIDE DEF n
    <3> QED
      BY <3>1, <3>2 DEF AreModuli
  <2> QED
    BY <2>1, <2>2
<1>2. M \in Nat \ {0}
  BY ValueFacts
<1> HIDE DEF M, n
<1>3. y \in 0 .. M - 1 /\ Congruent(y, X, M)
  BY <1>2, DivisionFacts
<1> HIDE DEF y
<1>4. y \in Int
  BY <1>2, <1>3
<1>5. ASSUME NEW i \in 1 .. n PROVE Congruent(y, r[i], Both(k)[i])
  <2>1. Congruent(y, X, Both(k)[i])
    BY <1>1, <1>3, <1>4, CongruentFactor
  <2>2. Both(k)[i] \in Int
    BY <1>1, ModuliFacts
  <2>3. Congruent(X, r[i], Both(k)[i]) /\ r[i] \in Int
    BY DEF n
  <2> QED
    BY <1>4, <2>1, <2>2, <2>3, CongruenceIsEquivalence
<1>6. y \in 0 .. Bound(k, up) - 1 /\ \A i \in 1 .. Count(k, up) : Congruent(y, r[i], Both(k)[i])
  BY <1>3, <1>5 DEF M, n
<1>7. Value(r, k) = y
  BY <1>6, ValueFacts
<1> QED
  BY <1>7 DEF y, M

\* Both facts for residues that are not raised, and for raised ones.
LEMMA LowValue ==
  ASSUME NEW k \in 1 .. L, NEW r \in [1 .. k -> Int]
  PROVE  /\ Value(r, k) \in 0 .. QProduct[k] - 1 /\ Value(r, k) \in Int
         /\ \A i \in 1 .. k : Congruent(Value(r, k), r[i], q[i])
         /\ \A X \in Int : (\A i \in 1 .. k : Congruent(X, r[i], q[i])) => Value(r, k) = X % QProduct[k]
<1>1. Count(k, FALSE) = k /\ Bound(k, FALSE) = QProduct[k] /\ FALSE \in BOOLEAN
  BY DEF Count, Bound
<1>2. r \in [1 .. Count(k, FALSE) -> Int]
  BY <1>1
<1>3. \A i \in 1 .. k : Both(k)[i] = q[i]
  BY ModuliInOrder
<1>4. /\ Value(r, k) \in 0 .. Bound(k, FALSE) - 1 /\ Value(r, k) \in Int
      /\ \A i \in 1 .. Count(k, FALSE) : Congruent(Value(r, k), r[i], Both(k)[i])
  BY <1>1, <1>2, ValueFacts, Zenon
<1>5. ASSUME NEW X \in Int, \A i \in 1 .. k : Congruent(X, r[i], q[i]) PROVE Value(r, k) = X % QProduct[k]
  <2>1. \A i \in 1 .. Count(k, FALSE) : Congruent(X, r[i], Both(k)[i])
    BY <1>1, <1>3, <1>5, Zenon
  <2>2. Value(r, k) = X % Bound(k, FALSE)
    BY <1>1, <1>2, <2>1, ValueIsRemainder, Zenon
  <2> QED
    BY <1>1, <2>2, Zenon
<1> QED
  BY <1>1, <1>3, <1>4, <1>5, Zenon

LEMMA RaisedValue ==
  ASSUME NEW k \in 1 .. L, NEW r \in [1 .. k + K -> Int]
  PROVE  /\ Value(r, k) \in 0 .. QProduct[k] * PProduct - 1 /\ Value(r, k) \in Int
         /\ \A i \in 1 .. k + K : Congruent(Value(r, k), r[i], Both(k)[i])
         /\ \A X \in Int : (\A i \in 1 .. k + K : Congruent(X, r[i], Both(k)[i]))
                           => Value(r, k) = X % (QProduct[k] * PProduct)
<1>1. Count(k, TRUE) = k + K /\ Bound(k, TRUE) = QProduct[k] * PProduct /\ TRUE \in BOOLEAN
  BY DEF Count, Bound
<1>2. r \in [1 .. Count(k, TRUE) -> Int]
  BY <1>1
<1>3. /\ Value(r, k) \in 0 .. Bound(k, TRUE) - 1 /\ Value(r, k) \in Int
      /\ \A i \in 1 .. Count(k, TRUE) : Congruent(Value(r, k), r[i], Both(k)[i])
  BY <1>1, <1>2, ValueFacts, Zenon
<1>4. ASSUME NEW X \in Int, \A i \in 1 .. k + K : Congruent(X, r[i], Both(k)[i])
      PROVE  Value(r, k) = X % (QProduct[k] * PProduct)
  <2>1. \A i \in 1 .. Count(k, TRUE) : Congruent(X, r[i], Both(k)[i])
    BY <1>1, <1>4, Zenon
  <2>2. Value(r, k) = X % Bound(k, TRUE)
    BY <1>1, <1>2, <2>1, ValueIsRemainder, Zenon
  <2> QED
    BY <1>1, <2>2, Zenon
<1> QED
  BY <1>1, <1>3, <1>4, Zenon

-------------------------------------------------------------------------------
(* The tables of the constructor, and sums of their entries *)

LEMMA TableFacts ==
  ASSUME NEW k \in 1 .. L
  PROVE  /\ \A i \in 1 .. k : /\ qHat(k, i) \in Nat \ {0} /\ Invertible(qHat(k, i), q[i])
                              /\ HatInv(k, i) = InverseMod(qHat(k, i) % q[i], q[i]) /\ HatInv(k, i) \in Int
                              /\ \A j \in 1 .. K : qHatModp[k][i][j] = qHat(k, i) % p[j]
         /\ \A j \in 1 .. K : /\ pHat(j) \in Nat \ {0} /\ Invertible(pHat(j), p[j])
                              /\ pHatInvModp[j] = InverseMod(pHat(j) % p[j], p[j]) /\ pHatInvModp[j] \in Int
                              /\ \A i \in 1 .. L : pHatModq[j][i] = pHat(j) % q[i]
<1>1. ASSUME NEW i \in 1 .. k
      PROVE  /\ qHat(k, i) \in Nat \ {0} /\ Invertible(qHat(k, i), q[i])
             /\ HatInv(k, i) = InverseMod(qHat(k, i) % q[i], q[i]) /\ HatInv(k, i) \in Int
             /\ \A j \in 1 .. K : qHatModp[k][i][j] = qHat(k, i) % p[j]
  <2>1. qHat(k, i) \in Nat \ {0} /\ Invertible(qHat(k, i), q[i])
    BY Systems, HatFacts DEF qHat
  <2>2. i \in 1 .. L /\ q[i] \in Nat \ {0, 1}
    BY Lengths
  <2>3. HatInv(k, i) = InverseMod(qHat(k, i) % q[i], q[i])
    BY DEF HatInv, qHatInvModq
  <2>4. InverseMod(qHat(k, i) % q[i], q[i]) \in 1 .. q[i] - 1
    BY <2>1, <2>2, InverseFacts
  <2>5. \A j \in 1 .. K : qHatModp[k][i][j] = qHat(k, i) % p[j]
    BY DEF qHatModp
  <2> QED
    BY <2>1, <2>2, <2>3, <2>4, <2>5
<1>2. ASSUME NEW j \in 1 .. K
      PROVE  /\ pHat(j) \in Nat \ {0} /\ Invertible(pHat(j), p[j])
             /\ pHatInvModp[j] = InverseMod(pHat(j) % p[j], p[j]) /\ pHatInvModp[j] \in Int
             /\ \A i \in 1 .. L : pHatModq[j][i] = pHat(j) % q[i]
  <2>1. pHat(j) \in Nat \ {0} /\ Invertible(pHat(j), p[j])
    BY Systems, HatFacts DEF pHat
  <2>2. p[j] \in Nat \ {0, 1}
    BY Lengths
  <2>3. pHatInvModp[j] = InverseMod(pHat(j) % p[j], p[j])
    BY DEF pHatInvModp
  <2>4. InverseMod(pHat(j) % p[j], p[j]) \in 1 .. p[j] - 1
    BY <2>1, <2>2, InverseFacts
  <2>5. \A i \in 1 .. L : pHatModq[j][i] = pHat(j) % q[i]
    BY DEF pHatModq
  <2> QED
    BY <2>1, <2>2, <2>3, <2>4, <2>5
<1> QED
  BY <1>1, <1>2

\* The constructor's inverses of P and of the moduli of q are inverses.
LEMMA FactorFacts ==
  ASSUME NEW i \in 1 .. L
  PROVE  /\ PModq[i] = PProduct % q[i] /\ PModq[i] \in Int
         /\ PInvModq[i] \in Int /\ Congruent(PProduct * PInvModq[i], 1, q[i])
         /\ \A k \in 1 .. L : k # i => /\ qInvModq[k][i] \in Int
                                       /\ Congruent(q[k] * qInvModq[k][i], 1, q[i])
<1>1. q[i] \in Nat \ {0, 1} /\ q[i] \in Nat \ {0} /\ q[i] \in Int
  BY Lengths
<1>2. PModq[i] = PProduct % q[i] /\ PInvModq[i] = InverseMod(PProduct % q[i], q[i])
  BY DEF PModq, PInvModq
<1>3. PProduct \in Int
  BY ProductOfBoth
<1>4. Invertible(PProduct, q[i])
  <2>1. \A j \in 1 .. K : p[j] \in Nat \ {0} /\ p[j] \in Int /\ Coprime(q[i], p[j])
    BY Lengths, CoprimeModuli
  <2>2. ASSUME NEW j \in 1 .. K PROVE p[j] \in Int /\ Invertible(p[j], q[i])
    BY <1>1, <2>1, CoprimeInvertible
  <2>3. K \in Nat
    BY Lengths
  <2> QED
    BY <1>1, <2>2, <2>3, InvertibleProductOf DEF PProduct
<1>5. /\ InverseMod(PProduct % q[i], q[i]) \in 1 .. q[i] - 1
      /\ Congruent(PProduct * InverseMod(PProduct % q[i], q[i]), 1, q[i])
  BY <1>1, <1>3, <1>4, InverseFacts
<1>6. ASSUME NEW k \in 1 .. L, k # i
      PROVE  qInvModq[k][i] \in Int /\ Congruent(q[k] * qInvModq[k][i], 1, q[i])
  <2>1. qInvModq[k][i] = InverseMod(q[k] % q[i], q[i])
    <3>1. i \in 1 .. L \ {k}
      BY <1>6
    <3> QED
      BY <3>1 DEF qInvModq
  <2>2. q[k] \in Nat \ {0} /\ q[k] \in Int /\ Coprime(q[i], q[k])
    BY <1>6, Lengths, CoprimeModuli
  <2>3. Invertible(q[k], q[i])
    BY <1>1, <2>2, CoprimeInvertible
  <2>4. InverseMod(q[k] % q[i], q[i]) \in 1 .. q[i] - 1 /\ Congruent(q[k] * InverseMod(q[k] % q[i], q[i]), 1, q[i])
    BY <1>1, <2>2, <2>3, InverseFacts
  <2> QED
    BY <1>1, <2>1, <2>4
<1>7. PModq[i] \in Int
  <2>1. \A z \in Int : z % q[i] \in 0 .. q[i] - 1
    BY <1>1, DivisionFacts
  <2>2. PProduct % q[i] \in 0 .. q[i] - 1
    BY <1>3, <2>1
  <2> QED
    BY <1>2, <2>2
<1> QED
  BY <1>1, <1>2, <1>5, <1>6, <1>7

LEMMA SumIsNatural ==
  ASSUME NEW n \in Nat, NEW f, \A i \in 1 .. n : f[i] \in Nat PROVE SumOf(f, n) \in Nat
<1> DEFINE S == {i \in 0 .. n : SumOf(f, i) \in Nat}
<1>1. 0 \in S
  BY SumSteps
<1>2. ASSUME NEW i \in 0 .. n - 1, i \in S PROVE i + 1 \in S
  <2>1. i \in Nat /\ i + 1 \in 1 .. n /\ i + 1 \in 0 .. n
    OBVIOUS
  <2>2. f[i + 1] \in Nat /\ SumOf(f, i + 1) = SumOf(f, i) + f[i + 1]
    BY <2>1, SumSteps
  <2> QED
    BY <1>2, <2>1, <2>2
<1>3. n \in S
  <2> HIDE DEF S
  <2>1. \A i \in 0 .. n : i \in S
    BY <1>1, <1>2, InductionUpTo
  <2> QED
    BY <2>1
<1> QED
  BY <1>3

\* A sum of words times table entries, reduced, is congruent to the sum of the
\* words times the numbers that the entries are residues of.
AreTerms(n, d, t, h, f, g) ==
  \A i \in 1 .. n : /\ t[i] \in Nat /\ h[i] \in Nat
                    /\ f[i] = t[i] * (h[i] % d) /\ g[i] = t[i] * h[i]

LEMMA ReducedSum ==
  ASSUME NEW n \in Nat, NEW d \in Modulus, NEW t, NEW h, NEW f, NEW g, AreTerms(n, d, t, h, f, g)
  PROVE  /\ modBarrett(SumOf(f, n), d) \in Nat /\ SumOf(g, n) \in Nat
         /\ Congruent(SumOf(g, n), modBarrett(SumOf(f, n), d), d)
<1>1. d \in Nat \ {0} /\ d \in Int
  BY ShiftFacts
<1>2. ASSUME NEW i \in 1 .. n PROVE f[i] \in Nat /\ g[i] \in Nat /\ Congruent(g[i], f[i], d)
  <2> DEFINE x == t[i]
             y == h[i]
             z == y % d
  <2>1. x \in Nat /\ y \in Nat /\ f[i] = x * z /\ g[i] = x * y
    BY DEF AreTerms
  <2> HIDE DEF x, y
  <2>2. z \in 0 .. d - 1 /\ Congruent(z, y, d)
    BY <1>1, <2>1, DivisionFacts
  <2> HIDE DEF z
  <2>3. z \in Nat /\ z \in Int
    BY <1>1, <2>2
  <2>4. Congruent(y, z, d) /\ Congruent(x, x, d)
    <3>1. x \in Int /\ y \in Int
      BY <2>1
    <3>2. Congruent(x, x, d)
      BY <1>1, <3>1, CongruenceIsEquivalence
    <3>3. Congruent(y, z, d)
      BY <1>1, <2>2, <2>3, <3>1, CongruenceIsEquivalence
    <3> QED
      BY <3>2, <3>3
  <2>5. Congruent(x * y, x * z, d)
    BY <1>1, <2>1, <2>3, <2>4, CongruentOperations
  <2>6. x * y \in Nat /\ x * z \in Nat
    BY <2>1, <2>3
  <2> QED
    BY <2>1, <2>5, <2>6
<1>3. SumOf(f, n) \in Nat /\ SumOf(g, n) \in Nat
  BY <1>2, SumIsNatural
<1>4. Congruent(SumOf(g, n), SumOf(f, n), d)
  <2>1. \A i \in 1 .. n : f[i] \in Int /\ g[i] \in Int /\ Congruent(g[i], f[i], d)
    BY <1>2
  <2> QED
    BY <1>1, <2>1, SumCongruent
<1> DEFINE X == SumOf(f, n)
           Y == SumOf(g, n)
           B == modBarrett(X, d)
<1>5. X \in Nat /\ Y \in Nat /\ Congruent(Y, X, d)
  BY <1>3, <1>4
<1> HIDE DEF X, Y
<1>6. B \in Nat /\ Congruent(B, X, d)
  BY <1>5, BarrettFacts
<1> HIDE DEF B
<1>7. Congruent(X, B, d)
  <2>1. X \in Int /\ B \in Int
    BY <1>5, <1>6
  <2> QED
    BY <1>1, <1>6, <2>1, CongruenceIsEquivalence
<1>8. Congruent(Y, B, d)
  BY <1>1, <1>5, <1>6, <1>7, CongruenceIsEquivalence
<1> QED
  BY <1>5, <1>6, <1>8 DEF B, X, Y

\* Subtracting a residue of Y and multiplying by u.
LEMMA SubtractAndScale ==
  ASSUME NEW b \in Nat \ {0}, NEW c \in Int, NEW B \in Int, NEW Y \in Int, NEW u \in Int, Congruent(Y, B, b)
  PROVE  /\ mulMod(subMod(c, B, b), u, b) \in 0 .. b - 1
         /\ Congruent(mulMod(subMod(c, B, b), u, b), (c - Y) * u, b)
<1> DEFINE d == subMod(c, B, b)
           w == mulMod(d, u, b)
           x == c - Y
<1>1. d \in 0 .. b - 1 /\ Congruent(d, c - B, b)
  BY SubModFacts
<1> HIDE DEF d
<1>2. d \in Int
  BY <1>1
<1>3. w \in 0 .. b - 1 /\ Congruent(w, d * u, b)
  BY <1>2, MulModFacts
<1> HIDE DEF w
<1>4. w \in Int /\ c - B \in Int /\ c - Y \in Int /\ b \in Int
  BY <1>3
<1>5. Congruent(d, x, b)
  <2>1. Congruent(B, Y, b) /\ Congruent(c, c, b)
    BY CongruenceIsEquivalence
  <2>2. Congruent(c - B, c - Y, b)
    BY <2>1, CongruentOperations
  <2> QED
    BY <1>1, <1>2, <1>4, <2>2, CongruenceIsEquivalence
<1>6. x \in Int
  BY <1>4
<1> HIDE DEF x
<1>7. Congruent(d * u, x * u, b) /\ d * u \in Int /\ x * u \in Int
  <2>1. Congruent(u, u, b)
    BY CongruenceIsEquivalence
  <2>2. Congruent(d * u, x * u, b)
    BY <1>2, <1>4, <1>5, <1>6, <2>1, CongruentOperations
  <2> QED
    BY <1>2, <1>6, <2>2
<1>8. Congruent(w, x * u, b)
  BY <1>3, <1>4, <1>7, CongruenceIsEquivalence
<1> QED
  BY <1>3, <1>8 DEF w, d, x

\* Multiplying a residue of v by a residue of x.
LEMMA MultiplyByResidue ==
  ASSUME NEW b \in Nat \ {0}, NEW c \in Int, NEW v0 \in Int, NEW x \in Int, Congruent(v0, c, b)
  PROVE  mulMod(c, x % b, b) \in 0 .. b - 1 /\ Congruent(v0 * x, mulMod(c, x % b, b), b)
<1> DEFINE y == x % b
           w == mulMod(c, y, b)
<1>1. y \in 0 .. b - 1 /\ Congruent(y, x, b)
  BY DivisionFacts
<1> HIDE DEF y
<1>2. y \in Int /\ b \in Int
  BY <1>1
<1>3. w \in 0 .. b - 1 /\ Congruent(w, c * y, b)
  BY <1>2, MulModFacts
<1> HIDE DEF w
<1>4. w \in Int
  BY <1>3
<1>5. Congruent(v0 * x, c * y, b)
  <2>1. Congruent(x, y, b)
    BY <1>1, <1>2, CongruenceIsEquivalence
  <2> QED
    BY <1>2, <2>1, CongruentOperations
<1>6. v0 * x \in Int /\ c * y \in Int
  BY <1>2
<1>7. Congruent(c * y, w, b)
  BY <1>2, <1>3, <1>4, <1>6, CongruenceIsEquivalence
<1>8. Congruent(v0 * x, w, b)
  BY <1>2, <1>4, <1>5, <1>6, <1>7, CongruenceIsEquivalence
<1> QED
  BY <1>3, <1>8 DEF w, y

-------------------------------------------------------------------------------
(* The operations, by the residues of one number *)

\* Raising gives the residues of one number, below k * Q.
LEMMA RaiseFacts ==
  ASSUME NEW k \in 1 .. L, NEW r \in [1 .. k -> Int]
  PROVE  /\ raise(r, k) \in [1 .. k + K -> Int]
         /\ \A i \in 1 .. k : raise(r, k)[i] = r[i]
         /\ \A i \in 1 .. k + K : ~(i <= k) => raise(r, k)[i] \in Nat
         /\ \E X \in 0 .. k * QProduct[k] - 1 :
              \A i \in 1 .. k + K : Congruent(X, raise(r, k)[i], Both(k)[i])
<1> DEFINE t == [i \in 1 .. k |-> mulMod(r[i], HatInv(k, i), q[i])]
           f(j) == [i \in 1 .. k |-> t[i] * qHatModp[k][i][j]]
           g == [i \in 1 .. k |-> t[i] * qHat(k, i)]
<1>0. k \in Nat /\ K \in Nat /\ k > 0 /\ \A i \in 1 .. k : i \in 1 .. L /\ i \in 1 .. k + K
  BY Lengths
<1>1. ASSUME NEW i \in 1 .. k
      PROVE  /\ t[i] \in 0 .. q[i] - 1 /\ t[i] \in Nat /\ Congruent(t[i] * HatOf(q, k, i), r[i], q[i])
             /\ g[i] = t[i] * HatOf(q, k, i) /\ r[i] \in Int
  <2> DEFINE b == q[i]
             h == qHat(k, i)
             c == r[i]
             u == HatInv(k, i)
             w == mulMod(c, u, b)
  <2>1. /\ b \in Nat \ {0, 1} /\ b \in Nat \ {0} /\ h \in Int /\ Invertible(h, b) /\ c \in Int
        /\ u = InverseMod(h % b, b) /\ u \in Int
    BY <1>0, Lengths, TableFacts
  <2>2. t[i] = w /\ g[i] = w * h /\ h = HatOf(q, k, i)
    BY DEF qHat
  <2> HIDE DEF b, h, c, u
  <2>3. w \in 0 .. b - 1 /\ Congruent(w, c * u, b)
    BY <2>1, MulModFacts
  <2> HIDE DEF w
  <2>4. w \in Int /\ w \in Nat /\ Congruent(w, c * InverseMod(h % b, b), b)
    BY <2>1, <2>3
  <2>5. Congruent(w * h, c, b)
    BY <2>1, <2>4, ScaledBack
  <2> QED
    BY <2>1, <2>2, <2>3, <2>4, <2>5 DEF b, c
<1>2. raise(r, k) = [i \in 1 .. k + K |-> IF i <= k THEN r[i] ELSE modBarrett(SumOf(f(i - k), k), p[i - k])]
  BY DEF raise
<1>3. \A j \in 1 .. K : \A i \in 1 .. k : f(j)[i] = t[i] * (qHat(k, i) % p[j])
  BY TableFacts
<1>4. \A i \in 1 .. k : g[i] = t[i] * qHat(k, i)
  OBVIOUS
<1> HIDE DEF t, f, g
<1> DEFINE X == SumOf(g, k)
<1>5. X \in 0 .. k * QProduct[k] - 1 /\ \A i \in 1 .. k : Congruent(X, r[i], q[i])
  <2>1. AreModuli(q, k) /\ QProduct[k] = ProductOf(q, k)
    BY Systems, ProductOfBoth
  <2>2. /\ SumOf(g, k) \in 0 .. k * ProductOf(q, k) - 1
        /\ \A i \in 1 .. k : Congruent(SumOf(g, k), r[i], q[i])
    BY <1>0, <1>1, <2>1, SumOfHats
  <2> QED
    BY <2>1, <2>2
<1>6. ASSUME NEW j \in 1 .. K
      PROVE  modBarrett(SumOf(f(j), k), p[j]) \in Nat /\ Congruent(X, modBarrett(SumOf(f(j), k), p[j]), p[j])
  <2> DEFINE d == p[j]
             F == f(j)
             h == [i \in 1 .. k |-> qHat(k, i)]
  <2>1. d \in Modulus
    BY Lengths
  <2>2. ASSUME NEW i \in 1 .. k
        PROVE  /\ t[i] \in Nat /\ h[i] \in Nat
               /\ F[i] = t[i] * (h[i] % d) /\ g[i] = t[i] * h[i]
    BY <1>1, <1>3, <1>4, TableFacts
  <2> HIDE DEF d, F, h
  <2>3. modBarrett(SumOf(F, k), d) \in Nat /\ Congruent(SumOf(g, k), modBarrett(SumOf(F, k), d), d)
    <3>1. k \in Nat /\ AreTerms(k, d, t, h, F, g)
      BY <1>0, <2>2 DEF AreTerms
    <3> QED
      BY <2>1, <3>1, ReducedSum
  <2> QED
    BY <2>3 DEF F, d
<1> HIDE DEF X
<1>7. ASSUME NEW i \in 1 .. k
      PROVE  raise(r, k)[i] = r[i] /\ Both(k)[i] = q[i]
  BY <1>0, <1>2, ModuliInOrder
<1>8. ASSUME NEW i \in 1 .. k + K, ~(i <= k)
      PROVE  raise(r, k)[i] \in Nat /\ Congruent(X, raise(r, k)[i], Both(k)[i])
  <2> DEFINE j == i - k
  <2>1. j \in 1 .. K /\ k + j = i
    BY <1>0, <1>8
  <2>2. raise(r, k)[i] = modBarrett(SumOf(f(j), k), p[j])
    BY <1>2, <1>8
  <2> HIDE DEF j
  <2>3. Both(k)[i] = p[j]
    BY <2>1, ModuliInOrder
  <2> QED
    BY <1>6, <2>1, <2>2, <2>3
<1>9. ASSUME NEW i \in 1 .. k + K
      PROVE  raise(r, k)[i] \in Int /\ Congruent(X, raise(r, k)[i], Both(k)[i])
  <2>1. CASE i <= k
    <3>1. i \in 1 .. k
      BY <1>0, <2>1
    <3> QED
      BY <1>1, <1>5, <1>7, <3>1
  <2>2. CASE ~(i <= k)
    BY <1>8, <2>2
  <2> QED
    BY <2>1, <2>2
<1>10. raise(r, k) \in [1 .. k + K -> Int]
  BY <1>2, <1>9
<1> QED
  BY <1>5, <1>7, <1>8, <1>9, <1>10

\* Coming back subtracts one number below K * P with the residues modulo p, and
\* multiplies by the inverse of P.
LEMMA BackFacts ==
  ASSUME NEW k \in 1 .. L, NEW r \in [1 .. k + K -> Int]
  PROVE  /\ back(r, k) \in [1 .. k -> Int] /\ \A i \in 1 .. k : back(r, k)[i] \in 0 .. q[i] - 1
         /\ \E Y \in 0 .. K * PProduct - 1 :
              /\ \A j \in 1 .. K : Congruent(Y, r[k + j], p[j])
              /\ \A i \in 1 .. k : Congruent(back(r, k)[i], (r[i] - Y) * PInvModq[i], q[i])
<1> DEFINE t == [j \in 1 .. K |-> mulMod(r[k + j], pHatInvModp[j], p[j])]
           f(i) == [j \in 1 .. K |-> t[j] * pHatModq[j][i]]
           g == [j \in 1 .. K |-> t[j] * pHat(j)]
           s == [j \in 1 .. K |-> r[k + j]]
<1>0. /\ k \in Nat /\ K \in Nat /\ K > 0 /\ \A i \in 1 .. k : i \in 1 .. L /\ i \in 1 .. k + K
      /\ \A j \in 1 .. K : k + j \in 1 .. k + K /\ r[k + j] \in Int
  <2>1. k \in Nat /\ K \in Nat /\ K > 0 /\ \A i \in 1 .. k : i \in 1 .. L /\ i \in 1 .. k + K
    BY Lengths
  <2>2. \A j \in 1 .. K : k + j \in 1 .. k + K
    BY <2>1
  <2> QED
    BY <2>1, <2>2
<1>1. ASSUME NEW j \in 1 .. K
      PROVE  /\ t[j] \in 0 .. p[j] - 1 /\ t[j] \in Nat /\ Congruent(t[j] * HatOf(p, K, j), s[j], p[j])
             /\ g[j] = t[j] * HatOf(p, K, j) /\ s[j] \in Int /\ s[j] = r[k + j]
  <2> DEFINE b == p[j]
             h == pHat(j)
             c == r[k + j]
             u == pHatInvModp[j]
             w == mulMod(c, u, b)
  <2>1. /\ b \in Nat \ {0, 1} /\ b \in Nat \ {0} /\ h \in Int /\ Invertible(h, b) /\ c \in Int
        /\ u = InverseMod(h % b, b) /\ u \in Int
    BY <1>0, Lengths, TableFacts
  <2>2. t[j] = w /\ g[j] = w * h /\ h = HatOf(p, K, j) /\ s[j] = c
    BY DEF pHat
  <2> HIDE DEF b, h, c, u, s
  <2>3. w \in 0 .. b - 1 /\ Congruent(w, c * u, b)
    BY <2>1, MulModFacts
  <2> HIDE DEF w
  <2>4. w \in Int /\ w \in Nat /\ Congruent(w, c * InverseMod(h % b, b), b)
    BY <2>1, <2>3
  <2>5. Congruent(w * h, c, b)
    BY <2>1, <2>4, ScaledBack
  <2> QED
    BY <2>1, <2>2, <2>3, <2>4, <2>5 DEF b, c
<1>2. back(r, k) = [i \in 1 .. k |-> mulMod(subMod(r[i], modBarrett(SumOf(f(i), K), q[i]), q[i]), PInvModq[i], q[i])]
  BY DEF back, PFactor
<1>3. \A i \in 1 .. L : \A j \in 1 .. K : f(i)[j] = t[j] * (pHat(j) % q[i])
  <2>1. ASSUME NEW i \in 1 .. L, NEW j \in 1 .. K PROVE pHatModq[j][i] = pHat(j) % q[i]
    BY DEF pHatModq
  <2> QED
    BY <2>1
<1>4. \A j \in 1 .. K : g[j] = t[j] * pHat(j)
  OBVIOUS
<1> HIDE DEF t, f, g, s
<1> DEFINE Y == SumOf(g, K)
<1>5. Y \in 0 .. K * PProduct - 1 /\ \A j \in 1 .. K : Congruent(Y, r[k + j], p[j])
  <2>1. AreModuli(p, K) /\ PProduct = ProductOf(p, K)
    BY Systems DEF PProduct
  <2>2. /\ SumOf(g, K) \in 0 .. K * ProductOf(p, K) - 1
        /\ \A j \in 1 .. K : Congruent(SumOf(g, K), s[j], p[j])
    <3>1. \A j \in 1 .. K : /\ s[j] \in Int /\ t[j] \in 0 .. p[j] - 1
                            /\ Congruent(t[j] * HatOf(p, K, j), s[j], p[j])
                            /\ g[j] = t[j] * HatOf(p, K, j)
      BY <1>1
    <3> QED
      BY <1>0, <2>1, <3>1, SumOfHats
  <2> QED
    BY <1>1, <2>1, <2>2
<1>6. ASSUME NEW i \in 1 .. k
      PROVE  modBarrett(SumOf(f(i), K), q[i]) \in Nat /\ Congruent(Y, modBarrett(SumOf(f(i), K), q[i]), q[i])
  <2> DEFINE d == q[i]
             F == f(i)
             h == [j \in 1 .. K |-> pHat(j)]
  <2>1. d \in Modulus
    BY <1>0, Lengths
  <2>2. ASSUME NEW j \in 1 .. K
        PROVE  /\ t[j] \in Nat /\ h[j] \in Nat
               /\ F[j] = t[j] * (h[j] % d) /\ g[j] = t[j] * h[j]
    <3>1. pHat(j) \in Nat
      BY TableFacts
    <3> QED
      BY <1>0, <1>1, <1>3, <1>4, <3>1
  <2> HIDE DEF d, F, h
  <2>3. AreTerms(K, d, t, h, F, g)
    BY <2>2 DEF AreTerms
  <2>4. modBarrett(SumOf(F, K), d) \in Nat /\ Congruent(SumOf(g, K), modBarrett(SumOf(F, K), d), d)
    BY <1>0, <2>1, <2>3, ReducedSum
  <2> QED
    BY <2>4 DEF F, d
<1>7. Y \in Int
  BY <1>0, <1>5, ProductOfBoth
<1> HIDE DEF Y
<1>8. ASSUME NEW i \in 1 .. k
      PROVE  /\ back(r, k)[i] \in 0 .. q[i] - 1 /\ back(r, k)[i] \in Int
             /\ Congruent(back(r, k)[i], (r[i] - Y) * PInvModq[i], q[i])
  <2> DEFINE b == q[i]
             B == modBarrett(SumOf(f(i), K), b)
             c == r[i]
             u == PInvModq[i]
             w == mulMod(subMod(c, B, b), u, b)
  <2>1. back(r, k)[i] = w
    BY <1>2
  <2>2. b \in Nat \ {0} /\ c \in Int /\ u \in Int /\ B \in Int /\ Congruent(Y, B, b)
    <3>1. B \in Nat /\ Congruent(Y, B, b)
      BY <1>6
    <3>2. b \in Nat \ {0}
      BY <1>0, Lengths
    <3>3. u \in Int
      BY <1>0, FactorFacts
    <3>4. c \in Int
      BY <1>0
    <3> QED
      BY <3>1, <3>2, <3>3, <3>4
  <2> HIDE DEF b, B, c, u
  <2>3. w \in 0 .. b - 1 /\ Congruent(w, (c - Y) * u, b)
    BY <1>7, <2>2, SubtractAndScale
  <2> HIDE DEF w
  <2>4. w \in Int
    BY <2>2, <2>3
  <2> QED
    BY <2>1, <2>3, <2>4 DEF b, c, u
<1>9. back(r, k) \in [1 .. k -> Int]
  BY <1>2, <1>8
<1> QED
  BY <1>5, <1>8, <1>9

-------------------------------------------------------------------------------
(* The operations, by the numbers they stand for *)

\* Raising adds a multiple of Q below k * Q.
LEMMA RaiseValue ==
  ASSUME NEW k \in 1 .. L, NEW r \in [1 .. k -> Int]
  PROVE  \E e \in 0 .. k - 1 :
           Value(raise(r, k), k) = (Value(r, k) + e * QProduct[k]) % (QProduct[k] * PProduct)
<1> DEFINE Q == QProduct[k]
           x == Value(r, k)
<1>0. k \in Nat \ {0} /\ Q \in Nat \ {0}
  <2>1. Q \in Nat \ {0}
    BY ProductOfBoth
  <2>2. k \in Nat \ {0}
    BY Lengths
  <2> QED
    BY <2>1, <2>2
<1>1. x \in 0 .. Q - 1 /\ x \in Int /\ \A i \in 1 .. k : Congruent(x, r[i], q[i])
  BY LowValue
<1>2. PICK X \in 0 .. k * Q - 1 : \A i \in 1 .. k + K : Congruent(X, raise(r, k)[i], Both(k)[i])
  BY RaiseFacts
<1>3. X \in Nat
  <2>1. k * Q \in Int
    BY <1>0
  <2> HIDE DEF Q
  <2> QED
    BY <1>2, <2>1
<1>4. Value(raise(r, k), k) = X % (QProduct[k] * PProduct)
  <2>1. raise(r, k) \in [1 .. k + K -> Int] /\ X \in Int
    BY <1>3, RaiseFacts
  <2> QED
    BY <1>2, <2>1, RaisedValue
<1>5. X % Q = x
  <2>1. ASSUME NEW i \in 1 .. k PROVE Congruent(X, x, q[i])
    <3>1. i \in 1 .. k + K /\ raise(r, k)[i] = r[i] /\ Both(k)[i] = q[i] /\ q[i] \in Int /\ r[i] \in Int
      <4>1. i \in 1 .. k + K /\ i \in 1 .. L /\ Both(k)[i] = q[i]
        BY ModuliInOrder
      <4>2. raise(r, k)[i] = r[i]
        BY RaiseFacts
      <4> QED
        BY <4>1, <4>2, Lengths
    <3>2. Congruent(X, r[i], q[i]) /\ Congruent(x, r[i], q[i]) /\ X \in Int
      BY <1>1, <1>2, <1>3, <3>1
    <3> HIDE DEF x
    <3>3. Congruent(r[i], x, q[i])
      BY <1>1, <3>1, <3>2, CongruenceIsEquivalence
    <3> QED
      BY <1>1, <3>1, <3>2, <3>3, CongruenceIsEquivalence
  <2>2. AreModuli(q, k) /\ Q = ProductOf(q, k) /\ X \in Int
    BY <1>3, Systems, ProductOfBoth
  <2> HIDE DEF x, Q
  <2>3. Congruent(X, x, Q)
    BY <1>1, <2>1, <2>2, ResiduesDetermine
  <2>4. X % Q = x % Q
    BY <1>0, <1>1, <2>2, <2>3, CongruentMod
  <2>5. x % Q = x
    BY <1>0, <1>1
  <2> QED
    BY <2>4, <2>5
<1> DEFINE e == X \div Q
<1>6. e \in Nat /\ X = e * Q + x
  <2> HIDE DEF Q, x
  <2>1. X \div Q \in Nat /\ X % Q \in 0 .. Q - 1 /\ X = (X \div Q) * Q + (X % Q)
    BY <1>0, <1>3, DivMod
  <2> QED
    BY <1>5, <2>1
<1> HIDE DEF e
<1>7. e \in 0 .. k - 1
  <2> HIDE DEF Q, x
  <2>1. ~(e >= k)
    <3>1. SUFFICES ASSUME e >= k PROVE FALSE
      OBVIOUS
    <3>2. e * Q >= k * Q /\ e * Q \in Int /\ k * Q \in Int
      BY <1>0, <1>6, <3>1
    <3>3. X <= k * Q - 1 /\ X = e * Q + x /\ x >= 0
      BY <1>0, <1>1, <1>2, <1>6, <3>2
    <3> QED
      BY <1>1, <1>3, <3>2, <3>3
  <2> QED
    BY <1>0, <1>6, <2>1
<1>8. X = x + e * Q
  <2> HIDE DEF Q, x
  <2>1. e * Q \in Int
    BY <1>0, <1>6
  <2> QED
    BY <1>1, <1>6, <2>1
<1>9. Value(raise(r, k), k) = (x + e * Q) % (Q * PProduct)
  BY <1>4, <1>8
<1> QED
  BY <1>7, <1>9

\* Coming back divides by P, and subtracts less than K.
LEMMA BackValue ==
  ASSUME NEW k \in 1 .. L, NEW r \in [1 .. k + K -> Int]
  PROVE  \E e \in 0 .. K - 1 :
           Value(back(r, k), k) = (Value(r, k) \div PProduct - e) % QProduct[k]
<1> DEFINE P == PProduct
           x == Value(r, k)
           V == x \div P
           R == x % P
<1>0. k \in Nat \ {0} /\ K \in Nat \ {0} /\ P \in Nat \ {0} /\ QProduct[k] \in Nat \ {0}
  <2>1. P \in Nat \ {0} /\ QProduct[k] \in Nat \ {0}
    BY ProductOfBoth
  <2>2. k \in Nat \ {0} /\ K \in Nat \ {0}
    BY Lengths
  <2> QED
    BY <2>1, <2>2
<1>1. x \in Nat /\ \A i \in 1 .. k + K : Congruent(x, r[i], Both(k)[i])
  <2>1. x \in 0 .. QProduct[k] * PProduct - 1 /\ x \in Int /\ \A i \in 1 .. k + K : Congruent(x, r[i], Both(k)[i])
    BY RaisedValue
  <2> QED
    BY <2>1
<1>2. PICK Y \in 0 .. K * PProduct - 1 :
        /\ \A j \in 1 .. K : Congruent(Y, r[k + j], p[j])
        /\ \A i \in 1 .. k : Congruent(back(r, k)[i], (r[i] - Y) * PInvModq[i], q[i])
  BY BackFacts
<1>3. Y \in Nat /\ Y <= K * P - 1
  <2>1. K * P \in Int
    BY <1>0
  <2> HIDE DEF P
  <2> QED
    BY <1>2, <2>1 DEF P
<1> HIDE DEF x
<1>4. Y % P = R
  <2>1. ASSUME NEW j \in 1 .. K PROVE Congruent(Y, x, p[j])
    <3>1. Congruent(x, r[k + j], p[j]) /\ r[k + j] \in Int /\ p[j] \in Int
      <4>1. Both(k)[k + j] = p[j] /\ k + j \in 1 .. k + K
        BY ModuliInOrder
      <4> QED
        BY <1>1, <4>1, Lengths
    <3>2. Congruent(Y, r[k + j], p[j]) /\ Y \in Int /\ x \in Int
      BY <1>1, <1>2, <1>3
    <3>3. Congruent(r[k + j], x, p[j])
      BY <3>1, <3>2, CongruenceIsEquivalence
    <3> QED
      BY <3>1, <3>2, <3>3, CongruenceIsEquivalence
  <2>2. AreModuli(p, K) /\ P = ProductOf(p, K) /\ Y \in Int /\ x \in Int
    BY <1>1, <1>3, Systems DEF PProduct
  <2> HIDE DEF P
  <2>3. Congruent(Y, x, P)
    BY <2>1, <2>2, ResiduesDetermine
  <2> QED
    BY <1>0, <2>2, <2>3, CongruentMod
<1> HIDE DEF P
<1>5. V \in Nat /\ R \in Nat /\ x = V * P + R
  <2>1. V \in Nat /\ R \in 0 .. P - 1 /\ x = V * P + R
    BY <1>0, <1>1, DivMod
  <2> QED
    BY <1>0, <2>1
<1> DEFINE e == Y \div P
<1>6. e \in Nat /\ Y = e * P + R
  <2>1. Y \div P \in Nat /\ Y % P \in 0 .. P - 1 /\ Y = (Y \div P) * P + (Y % P)
    BY <1>0, <1>3, DivMod
  <2> QED
    BY <1>4, <2>1
<1> HIDE DEF e, V, R
<1>7. e \in 0 .. K - 1
  <2>1. ~(e >= K)
    <3>1. SUFFICES ASSUME e >= K PROVE FALSE
      OBVIOUS
    <3>2. e * P >= K * P /\ e * P \in Int /\ K * P \in Int
      BY <1>0, <1>6, <3>1
    <3>3. Y <= K * P - 1 /\ Y = e * P + R /\ R >= 0 /\ Y \in Int /\ R \in Int
      BY <1>3, <1>5, <1>6 DEF P
    <3> DEFINE y == e * P
               z == K * P
    <3>4. y >= z /\ y \in Int /\ z \in Int /\ Y <= z - 1 /\ Y = y + R
      BY <3>2, <3>3
    <3> HIDE DEF y, z
    <3> QED
      BY <3>3, <3>4
  <2> QED
    BY <1>0, <1>6, <2>1
<1>8. x - Y = (V - e) * P /\ V - e \in Int
  BY <1>0, <1>5, <1>6
<1> DEFINE X == V - e
<1>9. ASSUME NEW i \in 1 .. k PROVE Congruent(X, back(r, k)[i], q[i])
  <2> DEFINE b == q[i]
             u == PInvModq[i]
             c == r[i]
             w == back(r, k)[i]
  <2>1. /\ b \in Nat \ {0} /\ b \in Int /\ u \in Int /\ Congruent(P * u, 1, b) /\ c \in Int
        /\ Congruent(x, c, b) /\ Congruent(w, (c - Y) * u, b)
    <3>1. i \in 1 .. L /\ i \in 1 .. k + K /\ Both(k)[i] = q[i]
      BY ModuliInOrder
    <3> QED
      BY <1>1, <1>2, <3>1, Lengths, FactorFacts DEF P
  <2>2. w \in Int
    BY BackFacts
  <2> HIDE DEF b, u, c, w
  <2>3. X \in Int /\ x - Y = X * P /\ x - Y \in Int /\ c - Y \in Int /\ Y \in Int /\ x \in Int
    BY <1>1, <1>3, <1>8, <2>1
  <2> HIDE DEF X
  <2>4. Congruent(x - Y, c - Y, b)
    <3>1. Congruent(Y, Y, b)
      BY <2>1, <2>3, CongruenceIsEquivalence
    <3> QED
      BY <2>1, <2>3, <3>1, CongruentOperations
  <2> DEFINE y == x - Y
             z == c - Y
  <2>5. y \in Int /\ z \in Int /\ y = X * P /\ Congruent(y, z, b) /\ Congruent(w, z * u, b)
    BY <2>1, <2>3, <2>4
  <2> HIDE DEF y, z
  <2>6. Congruent(y * u, z * u, b) /\ y * u \in Int /\ z * u \in Int
    <3>1. Congruent(u, u, b)
      BY <2>1, CongruenceIsEquivalence
    <3>2. Congruent(y * u, z * u, b)
      BY <2>1, <2>5, <3>1, CongruentOperations
    <3> QED
      BY <2>1, <2>5, <3>2
  <2>7. Congruent(y * u, X, b)
    <3>1. Congruent((X * P) * u, X, b)
      BY <1>0, <2>1, <2>3, Cancel
    <3> QED
      BY <2>5, <3>1
  <2>8. Congruent(X, y * u, b) /\ Congruent(z * u, w, b)
    BY <2>1, <2>2, <2>3, <2>5, <2>6, <2>7, CongruenceIsEquivalence
  <2>9. Congruent(X, z * u, b)
    BY <2>1, <2>3, <2>6, <2>8, CongruenceIsEquivalence
  <2>10. Congruent(X, w, b)
    BY <2>1, <2>2, <2>3, <2>6, <2>8, <2>9, CongruenceIsEquivalence
  <2> QED
    BY <2>10 DEF b, w
<1>10. Value(back(r, k), k) = X % QProduct[k]
  <2>1. back(r, k) \in [1 .. k -> Int] /\ X \in Int
    BY <1>8, BackFacts
  <2> HIDE DEF X
  <2> QED
    BY <1>9, <2>1, LowValue
<1> QED
  BY <1>7, <1>10 DEF V, P, x

\* Rescaling divides by the last modulus, rounding down.
LEMMA ReScaleValue ==
  ASSUME NEW k \in 1 .. L, k > 1, NEW r \in [1 .. k -> Int], r[k] \in 0 .. q[k] - 1
  PROVE  /\ reScale(r, k) \in [1 .. k - 1 -> Int]
         /\ \A i \in 1 .. k - 1 : reScale(r, k)[i] \in 0 .. q[i] - 1
         /\ QProduct[k] \div QProduct[k - 1] = q[k]
         /\ Value(reScale(r, k), k - 1) = Value(r, k) \div q[k]
<1> DEFINE m == q[k]
           x == Value(r, k)
           V == x \div m
           Q == QProduct[k - 1]
           w == reScale(r, k)
<1>0. /\ k \in Nat /\ k - 1 \in Nat /\ k - 1 \in 1 .. L /\ k \in 1 .. k /\ m \in Nat \ {0} /\ m \in Int /\ Q \in Nat \ {0}
      /\ \A i \in 1 .. k - 1 : i \in 1 .. k /\ i \in 1 .. L /\ i # k
  <2>1. k \in Nat /\ k - 1 \in Nat /\ k - 1 \in 1 .. L /\ k \in 1 .. k
    BY Lengths
  <2>2. \A i \in 1 .. k - 1 : i \in 1 .. k /\ i \in 1 .. L /\ i # k
    BY Lengths
  <2>3. Q \in Nat \ {0}
    BY <2>1, ProductOfBoth
  <2> QED
    BY <2>1, <2>2, <2>3, Lengths
<1>1. QProduct[k] = Q * m
  <2>1. QProduct[k] = ProductOf(q, k) /\ Q = ProductOf(q, k - 1)
    BY <1>0, ProductOfBoth
  <2>2. (k - 1) + 1 = k
    BY <1>0
  <2>3. ProductOf(q, (k - 1) + 1) = ProductOf(q, k - 1) * q[(k - 1) + 1]
    BY <1>0, ProductSteps
  <2> QED
    BY <2>1, <2>2, <2>3
<1>2. QProduct[k] \div Q = m
  <2> HIDE DEF Q, m
  <2>1. Q * m = m * Q + 0 /\ 0 \in 0 .. Q - 1
    BY <1>0
  <2>2. (m * Q + 0) \div Q = m
    BY <1>0, <2>1, Compose
  <2> QED
    BY <1>1, <2>1, <2>2
<1>3. x \in Nat /\ x <= Q * m - 1 /\ \A i \in 1 .. k : Congruent(x, r[i], q[i])
  <2>1. x \in 0 .. Q * m - 1 /\ x \in Int /\ \A i \in 1 .. k : Congruent(x, r[i], q[i])
    BY <1>1, LowValue
  <2>2. Q * m \in Int
    BY <1>0
  <2> HIDE DEF x, Q, m
  <2> QED
    BY <2>1, <2>2
<1> HIDE DEF x
<1>4. V \in Nat /\ x % m = r[k] /\ x = V * m + r[k] /\ r[k] \in Nat
  <2>1. Congruent(x, r[k], m) /\ r[k] \in 0 .. m - 1 /\ r[k] \in Int /\ r[k] \in Nat
    BY <1>0, <1>3
  <2> DEFINE y == r[k]
  <2>2. Congruent(x, y, m) /\ y \in 0 .. m - 1 /\ y \in Int /\ y \in Nat
    BY <2>1
  <2> HIDE DEF y, m
  <2>3. x % m = y % m
    <3>1. x \in Int /\ y \in Int /\ m \in Nat \ {0}
      BY <1>0, <1>3, <2>2
    <3> QED
      BY <2>2, <3>1, CongruentMod
  <2>4. y % m = y
    BY <1>0, <2>2
  <2>5. V \in Nat /\ x % m \in 0 .. m - 1 /\ x = V * m + (x % m)
    BY <1>0, <1>3, DivMod
  <2> QED
    BY <2>2, <2>3, <2>4, <2>5 DEF y
<1> HIDE DEF V
<1>5. V \in 0 .. Q - 1
  <2> HIDE DEF Q, m
  <2>1. ~(V >= Q)
    <3>1. SUFFICES ASSUME V >= Q PROVE FALSE
      OBVIOUS
    <3>2. V * m >= Q * m /\ V * m \in Int /\ Q * m \in Int
      BY <1>0, <1>4, <3>1
    <3> QED
      BY <1>3, <1>4, <3>2
  <2> QED
    BY <1>0, <1>4, <2>1
<1>6. w = [i \in 1 .. k - 1 |-> mulMod(subMod(r[i], modBarrett(r[k], q[i]), q[i]), qInvModq[k][i], q[i])]
  BY DEF reScale, LastFactor
<1>7. ASSUME NEW i \in 1 .. k - 1 PROVE w[i] \in 0 .. q[i] - 1 /\ w[i] \in Int /\ Congruent(V, w[i], q[i])
  <2> DEFINE b == q[i]
             c == r[i]
             y == r[k]
             B == modBarrett(y, b)
             u == qInvModq[k][i]
             z == mulMod(subMod(c, B, b), u, b)
  <2>1. w[i] = z
    BY <1>6
  <2>2. /\ b \in Modulus /\ b \in Nat \ {0} /\ b \in Int /\ c \in Int /\ y \in Nat /\ u \in Int
        /\ Congruent(m * u, 1, b) /\ Congruent(x, c, b)
    BY <1>0, <1>3, <1>4, Lengths, FactorFacts
  <2>3. x = V * m + y
    BY <1>4
  <2> HIDE DEF b, c, y, u, m
  <2>4. B \in Nat /\ Congruent(B, y, b)
    BY <2>2, BarrettFacts
  <2> HIDE DEF B
  <2>5. B \in Int /\ y \in Int /\ x \in Int /\ V \in Int
    BY <1>3, <1>4, <2>2, <2>4
  <2>6. Congruent(y, B, b)
    BY <2>2, <2>4, <2>5, CongruenceIsEquivalence
  <2>7. z \in 0 .. b - 1 /\ Congruent(z, (c - y) * u, b)
    BY <2>2, <2>5, <2>6, SubtractAndScale
  <2> HIDE DEF z
  <2>8. x - y = V * m /\ x - y \in Int /\ c - y \in Int /\ z \in Int
    <3>1. V * m \in Int
      BY <1>0, <2>5
    <3> QED
      BY <2>2, <2>3, <2>5, <2>7, <3>1
  <2>9. Congruent(x - y, c - y, b)
    <3>1. Congruent(y, y, b)
      BY <2>2, <2>5, CongruenceIsEquivalence
    <3> QED
      BY <2>2, <2>5, <3>1, CongruentOperations
  <2> DEFINE d == x - y
             e == c - y
  <2>10. d \in Int /\ e \in Int /\ d = V * m /\ Congruent(d, e, b) /\ Congruent(z, e * u, b)
    BY <2>7, <2>8, <2>9
  <2> HIDE DEF d, e
  <2>11. Congruent(d * u, e * u, b) /\ d * u \in Int /\ e * u \in Int
    <3>1. Congruent(u, u, b)
      BY <2>2, CongruenceIsEquivalence
    <3>2. Congruent(d * u, e * u, b)
      BY <2>2, <2>10, <3>1, CongruentOperations
    <3> QED
      BY <2>2, <2>10, <3>2
  <2>12. Congruent(d * u, V, b)
    <3>1. Congruent((V * m) * u, V, b)
      BY <1>0, <2>2, <2>5, Cancel
    <3> QED
      BY <2>10, <3>1
  <2>13. Congruent(V, d * u, b) /\ Congruent(e * u, z, b)
    BY <2>2, <2>5, <2>8, <2>10, <2>11, <2>12, CongruenceIsEquivalence
  <2>14. Congruent(V, e * u, b)
    BY <2>2, <2>5, <2>11, <2>13, CongruenceIsEquivalence
  <2>15. Congruent(V, z, b)
    BY <2>2, <2>5, <2>8, <2>11, <2>13, <2>14, CongruenceIsEquivalence
  <2> QED
    BY <2>1, <2>7, <2>8, <2>15 DEF b
<1>8. w \in [1 .. k - 1 -> Int]
  BY <1>6, <1>7
<1> HIDE DEF w
<1>9. Value(w, k - 1) = V
  <2>1. V \in Int /\ \A i \in 1 .. k - 1 : Congruent(V, w[i], q[i])
    BY <1>4, <1>7
  <2>2. Value(w, k - 1) = V % Q
    BY <1>0, <1>8, <2>1, LowValue
  <2> HIDE DEF Q
  <2>3. V % Q = V
    BY <1>0, <1>5
  <2> QED
    BY <2>2, <2>3
<1> QED
  BY <1>2, <1>7, <1>8, <1>9 DEF w, V, x

\* Dropping residues takes the remainder.
LEMMA ModDownValue ==
  ASSUME NEW k \in 1 .. L, NEW d \in 1 .. k - 1, NEW r \in [1 .. k -> Int]
  PROVE  /\ modDown(r, k, d) \in [1 .. k - d -> Int]
         /\ \A i \in 1 .. k - d : modDown(r, k, d)[i] = r[i]
         /\ Value(modDown(r, k, d), k - d) = Value(r, k) % QProduct[k - d]
<1> DEFINE w == modDown(r, k, d)
           x == Value(r, k)
<1>0. k \in Nat /\ d \in Nat /\ k - d \in 1 .. L /\ \A i \in 1 .. k - d : i \in 1 .. k /\ r[i] \in Int
  BY Lengths
<1>1. w = [i \in 1 .. k - d |-> r[i]]
  BY DEF modDown
<1>2. w \in [1 .. k - d -> Int] /\ \A i \in 1 .. k - d : w[i] = r[i]
  BY <1>0, <1>1
<1>3. x \in Int /\ \A i \in 1 .. k : Congruent(x, r[i], q[i])
  BY LowValue
<1> HIDE DEF w, x
<1>4. \A i \in 1 .. k - d : Congruent(x, w[i], q[i])
  BY <1>0, <1>2, <1>3
<1>5. Value(w, k - d) = x % QProduct[k - d]
  BY <1>0, <1>2, <1>3, <1>4, LowValue
<1> QED
  BY <1>2, <1>5 DEF w, x

\* Multiplication of residues that are not raised.
LEMMA LowProduct ==
  ASSUME NEW k \in 1 .. L, NEW r \in [1 .. k -> Int], NEW c \in Int, NEW w,
         w = [i \in 1 .. k |-> mulMod(r[i], c % q[i], q[i])]
  PROVE  /\ w \in [1 .. k -> Int] /\ \A i \in 1 .. k : w[i] \in 0 .. q[i] - 1
         /\ Value(w, k) = (Value(r, k) * c) % QProduct[k]
<1> DEFINE x == Value(r, k)
<1>1. x \in Int /\ \A i \in 1 .. k : Congruent(x, r[i], q[i])
  BY LowValue
<1> HIDE DEF x
<1>2. ASSUME NEW i \in 1 .. k PROVE w[i] \in 0 .. q[i] - 1 /\ w[i] \in Int /\ Congruent(x * c, w[i], q[i])
  <2> DEFINE b == q[i]
             d == r[i]
  <2>1. b \in Nat \ {0} /\ d \in Int /\ Congruent(x, d, b) /\ w[i] = mulMod(d, c % b, b)
    <3>1. i \in 1 .. L
      BY Lengths
    <3> QED
      BY <1>1, <3>1, Lengths
  <2> HIDE DEF b, d
  <2>2. mulMod(d, c % b, b) \in 0 .. b - 1 /\ Congruent(x * c, mulMod(d, c % b, b), b)
    BY <1>1, <2>1, MultiplyByResidue
  <2>3. w[i] \in 0 .. b - 1 /\ Congruent(x * c, w[i], b)
    BY <2>1, <2>2
  <2>4. w[i] \in Int
    BY <2>1, <2>3
  <2> QED
    BY <2>3, <2>4 DEF b
<1>3. w \in [1 .. k -> Int]
  BY <1>2
<1> DEFINE X == x * c
<1>4. X \in Int /\ \A i \in 1 .. k : Congruent(X, w[i], q[i])
  BY <1>1, <1>2
<1> HIDE DEF X
<1>5. Value(w, k) = X % QProduct[k]
  BY <1>3, <1>4, LowValue
<1> QED
  BY <1>2, <1>3, <1>5 DEF X, x

LEMMA EvalValue ==
  ASSUME NEW k \in 1 .. L, NEW r \in [1 .. k -> Int]
  PROVE  /\ eval(r, k) \in [1 .. k -> Int] /\ \A i \in 1 .. k : eval(r, k)[i] \in 0 .. q[i] - 1
         /\ Value(eval(r, k), k) = (Value(r, k) * PProduct) % QProduct[k]
<1>1. eval(r, k) = [i \in 1 .. k |-> mulMod(r[i], PProduct % q[i], q[i])]
  <2>1. ASSUME NEW i \in 1 .. k PROVE PModq[i] = PProduct % q[i]
    <3>1. i \in 1 .. L
      BY Lengths
    <3> QED
      BY <3>1, FactorFacts
  <2> QED
    BY <2>1 DEF eval
<1>2. PProduct \in Int
  BY ProductOfBoth
<1> QED
  BY <1>1, <1>2, LowProduct

LEMMA MulValue ==
  ASSUME NEW k \in 1 .. L, NEW r \in [1 .. k -> Int], NEW c \in Int
  PROVE  /\ mul(r, Residues(c, k), k) \in [1 .. k -> Int]
         /\ \A i \in 1 .. k : mul(r, Residues(c, k), k)[i] \in 0 .. q[i] - 1
         /\ Value(mul(r, Residues(c, k), k), k) = (Value(r, k) * c) % QProduct[k]
<1>1. mul(r, Residues(c, k), k) = [i \in 1 .. k |-> mulMod(r[i], c % q[i], q[i])]
  <2>1. \A i \in 1 .. k : Residues(c, k)[i] = c % q[i]
    BY DEF Residues
  <2> QED
    BY <2>1 DEF mul
<1> DEFINE product == [i \in 1 .. k |-> mulMod(r[i], c % q[i], q[i])]
<1>2. /\ product \in [1 .. k -> Int] /\ \A i \in 1 .. k : product[i] \in 0 .. q[i] - 1
      /\ Value(product, k) = (Value(r, k) * c) % QProduct[k]
  BY LowProduct
<1> HIDE DEF product
<1>3. mul(r, Residues(c, k), k) = product
  BY <1>1 DEF product
<1> QED
  BY <1>2, <1>3

\* The residue of a key that mulKey takes is modulo the modulus it multiplies for.
LEMMA KeyOffsetFits ==
  ASSUME NEW k \in 1 .. L, NEW c, NEW i \in 1 .. k + K
  PROVE  /\ KeyResidues(c)[KeyOffset(k, i)] = c % Both(k)[i] /\ modulus(k, i) = Both(k)[i]
         /\ Both(k)[i] \in Modulus
<1>0. k \in Nat /\ L \in Nat /\ K \in Nat /\ k <= L
  BY Lengths
<1>1. CASE i <= k
  <2>1. i \in 1 .. k /\ i \in 1 .. L /\ i \in 1 .. L + K /\ KeyOffset(k, i) = i /\ i <= L
    BY <1>0, <1>1 DEF KeyOffset
  <2>2. KeyResidues(c)[i] = c % q[i] /\ Both(k)[i] = q[i] /\ modulus(k, i) = q[i]
    BY <1>1, <2>1 DEF KeyResidues, modulus, Both
  <2> QED
    BY <2>1, <2>2, Lengths
<1>2. CASE ~(i <= k)
  <2> DEFINE n == i - k + L
  <2>1. n \in 1 .. L + K /\ ~(n <= L) /\ n - L = i - k /\ i - k \in 1 .. K /\ KeyOffset(k, i) = n
    BY <1>0, <1>2 DEF KeyOffset
  <2> HIDE DEF n
  <2>2. KeyResidues(c)[n] = c % p[i - k] /\ Both(k)[i] = p[i - k] /\ modulus(k, i) = p[i - k]
    BY <1>2, <2>1 DEF KeyResidues, modulus, Both
  <2> QED
    BY <2>1, <2>2, Lengths
<1> QED
  BY <1>1, <1>2

LEMMA MulKeyValue ==
  ASSUME NEW k \in 1 .. L, NEW r \in [1 .. k + K -> Int], NEW c \in Int
  PROVE  /\ mulKey(r, KeyResidues(c), k) \in [1 .. k + K -> Int]
         /\ \A i \in 1 .. k + K : /\ mulKey(r, KeyResidues(c), k)[i] \in Nat
                                  /\ mulKey(r, KeyResidues(c), k)[i] = mulMod(r[i], c % Both(k)[i], Both(k)[i])
         /\ Value(mulKey(r, KeyResidues(c), k), k) = (Value(r, k) * c) % (QProduct[k] * PProduct)
<1> DEFINE x == Value(r, k)
           w == mulKey(r, KeyResidues(c), k)
<1>1. x \in Int /\ \A i \in 1 .. k + K : Congruent(x, r[i], Both(k)[i])
  BY RaisedValue
<1> HIDE DEF x
<1>2. w = [i \in 1 .. k + K |-> mulMod(r[i], KeyResidues(c)[KeyOffset(k, i)], modulus(k, i))]
  BY DEF mulKey
<1>3. ASSUME NEW i \in 1 .. k + K
      PROVE  /\ w[i] \in Nat /\ w[i] \in Int /\ Congruent(x * c, w[i], Both(k)[i])
             /\ w[i] = mulMod(r[i], c % Both(k)[i], Both(k)[i])
  <2> DEFINE b == Both(k)[i]
             d == r[i]
  <2>1. b \in Nat \ {0} /\ d \in Int /\ Congruent(x, d, b) /\ w[i] = mulMod(d, c % b, b)
    <3>1. KeyResidues(c)[KeyOffset(k, i)] = c % b /\ modulus(k, i) = b /\ b \in Modulus
      BY KeyOffsetFits
    <3> QED
      BY <1>1, <1>2, <3>1, ShiftFacts
  <2>2. w[i] = mulMod(r[i], c % Both(k)[i], Both(k)[i])
    BY <2>1
  <2> HIDE DEF b, d
  <2>3. mulMod(d, c % b, b) \in 0 .. b - 1 /\ Congruent(x * c, mulMod(d, c % b, b), b)
    BY <1>1, <2>1, MultiplyByResidue
  <2>4. w[i] \in 0 .. b - 1 /\ Congruent(x * c, w[i], b)
    BY <2>1, <2>3
  <2>5. w[i] \in Nat /\ w[i] \in Int
    BY <2>1, <2>4
  <2> QED
    BY <2>2, <2>4, <2>5 DEF b
<1>4. w \in [1 .. k + K -> Int]
  BY <1>2, <1>3
<1> DEFINE X == x * c
<1>5. X \in Int /\ \A i \in 1 .. k + K : Congruent(X, w[i], Both(k)[i])
  BY <1>1, <1>3
<1> HIDE DEF X, w
<1>6. Value(w, k) = X % (QProduct[k] * PProduct)
  BY <1>4, <1>5, RaisedValue
<1> QED
  BY <1>3, <1>4, <1>6 DEF X, x, w

-------------------------------------------------------------------------------
(* The error of a raise disappears when P divides the key *)

LEMMA RaisedTimesP ==
  ASSUME NEW k \in 1 .. L, NEW r \in [1 .. k -> Int], NEW c \in Int
  PROVE  back(mulKey(raise(r, k), KeyResidues(c * PProduct), k), k) = mul(r, Residues(c, k), k)
<1> DEFINE s == raise(r, k)
           x == c * PProduct
           z == mulKey(s, KeyResidues(x), k)
           t == [j \in 1 .. K |-> mulMod(z[k + j], pHatInvModp[j], p[j])]
           f(i) == [j \in 1 .. K |-> t[j] * pHatModq[j][i]]
<1>0. /\ PProduct \in Int /\ x \in Int /\ k \in Nat /\ K \in Nat /\ s \in [1 .. k + K -> Int]
      /\ \A i \in 1 .. k : i \in 1 .. L /\ i \in 1 .. k + K /\ Both(k)[i] = q[i] /\ s[i] = r[i] /\ r[i] \in Int
  <2>1. PProduct \in Int /\ k \in Nat /\ K \in Nat
    BY ProductOfBoth, Lengths
  <2>2. x \in Int
    BY <2>1
  <2>3. s \in [1 .. k + K -> Int] /\ \A i \in 1 .. k : s[i] = r[i]
    BY RaiseFacts
  <2>4. \A i \in 1 .. k : i \in 1 .. L /\ i \in 1 .. k + K /\ Both(k)[i] = q[i] /\ r[i] \in Int
    BY ModuliInOrder
  <2> QED
    BY <2>1, <2>2, <2>3, <2>4
<1>1. z \in [1 .. k + K -> Int] /\ \A i \in 1 .. k + K : z[i] = mulMod(s[i], x % Both(k)[i], Both(k)[i])
  <2> HIDE DEF s, x
  <2> QED
    BY <1>0, MulKeyValue
<1>2. back(z, k) = [i \in 1 .. k |-> mulMod(subMod(z[i], modBarrett(SumOf(f(i), K), q[i]), q[i]), PInvModq[i], q[i])]
  BY DEF back, PFactor
<1> HIDE DEF z
\* The residues modulo p are 0, and nothing is subtracted.
<1>3. ASSUME NEW j \in 1 .. K PROVE z[k + j] = 0
  <2> DEFINE b == p[j]
             y == s[k + j]
  <2>1. k + j \in 1 .. k + K /\ Both(k)[k + j] = b /\ b \in Nat \ {0} /\ b \in Int /\ PProduct = b * pHat(j) /\ pHat(j) \in Int
    <3>1. k + j \in 1 .. k + K /\ Both(k)[k + j] = b
      BY ModuliInOrder
    <3>2. PProduct = b * pHat(j)
      BY Systems, HatFacts DEF PProduct, pHat
    <3> QED
      BY <3>1, <3>2, Lengths, TableFacts
  <2>2. z[k + j] = mulMod(y, x % b, b) /\ y \in Int
    BY <1>0, <1>1, <2>1
  <2> HIDE DEF b, y
  <2>3. x - 0 = b * (c * pHat(j)) /\ c * pHat(j) \in Int
    BY <2>1
  <2>4. Congruent(x, 0, b)
    BY <2>3 DEF Congruent, Divides
  <2> HIDE DEF x
  <2>5. x % b = 0 % b /\ 0 % b = 0
    <3>1. 0 \in Int /\ 0 \in 0 .. b - 1
      BY <2>1
    <3>2. x % b = 0 % b
      BY <1>0, <2>1, <2>4, <3>1, CongruentMod
    <3> QED
      BY <2>1, <3>1, <3>2
  <2>6. z[k + j] = ((y % b) * 0) % b
    BY <2>2, <2>5 DEF mulMod
  <2>7. y % b \in Int
    <3>1. y % b \in 0 .. b - 1
      BY <2>1, <2>2, DivisionFacts
    <3> QED
      BY <2>1, <3>1
  <2> DEFINE w == y % b
  <2>8. w * 0 = 0
    BY <2>7
  <2> QED
    BY <2>5, <2>6, <2>8
<1>4. ASSUME NEW i \in 1 .. k PROVE modBarrett(SumOf(f(i), K), q[i]) = 0
  <2>1. ASSUME NEW j \in 1 .. K PROVE f(i)[j] = 0
    <3> DEFINE u == pHatInvModp[j]
               b == p[j]
    <3>1. b \in Nat \ {0} /\ u \in Int
      BY Lengths, TableFacts
    <3>2. t[j] = mulMod(0, u, b)
      BY <1>3
    <3>3. mulMod(0, u, b) = 0
      <4> HIDE DEF u, b
      <4>1. 0 % b = 0 /\ u % b \in 0 .. b - 1
        BY <3>1, DivisionFacts
      <4> DEFINE w == u % b
      <4>2. 0 * w = 0
        BY <3>1, <4>1
      <4> QED
        BY <4>1, <4>2 DEF mulMod
    <3>4. pHatModq[j][i] \in Int
      <4> DEFINE d == q[i]
                 h == pHat(j)
      <4>1. d \in Nat \ {0} /\ h \in Int /\ pHatModq[j][i] = h % d
        <5>1. i \in 1 .. L /\ pHatModq[j][i] = pHat(j) % q[i]
          BY <1>0 DEF pHatModq
        <5>2. d \in Nat \ {0}
          BY <5>1, Lengths
        <5>3. h \in Int
          BY TableFacts
        <5> QED
          BY <5>1, <5>2, <5>3
      <4> HIDE DEF d, h
      <4>2. h % d \in 0 .. d - 1
        BY <4>1, DivisionFacts
      <4> QED
        BY <4>1, <4>2
    <3>5. f(i)[j] = t[j] * pHatModq[j][i]
      OBVIOUS
    <3> QED
      BY <3>2, <3>3, <3>4, <3>5
  <2> DEFINE F == f(i)
             d == q[i]
  <2>2. SumOf(F, K) = 0
    <3>1. \A j \in 1 .. K : F[j] \in 0 .. 0
      BY <2>1
    <3> HIDE DEF F
    <3>2. SumOf(F, K) \in 0 .. K * 0
      BY <1>0, <3>1, SumBound
    <3> QED
      BY <1>0, <3>2
  <2>3. d \in Modulus
    BY <1>0, Lengths
  <2> HIDE DEF d, F
  <2>4. modBarrett(0, d) = 0 % d /\ d \in Nat \ {0}
    BY <2>3, ShiftFacts, BarrettIsExact
  <2>5. 0 % d = 0
    BY <2>4
  <2> QED
    BY <2>2, <2>4, <2>5 DEF F, d
\* The rest is multiplied by P and by its inverse.
<1>5. ASSUME NEW i \in 1 .. k PROVE back(z, k)[i] = mul(r, Residues(c, k), k)[i]
  <2> DEFINE b == q[i]
             u == PInvModq[i]
             y == z[i]
             w == mulMod(subMod(y, 0, b), u, b)
             d == mulMod(r[i], c % b, b)
             e == r[i]
             P == PProduct
  <2>1. back(z, k)[i] = w /\ mul(r, Residues(c, k), k)[i] = d
    BY <1>2, <1>4 DEF mul, Residues
  <2>2. /\ b \in Nat \ {0} /\ b \in Int /\ u \in Int /\ Congruent(P * u, 1, b) /\ e \in Int /\ P \in Int
        /\ y = mulMod(e, x % b, b) /\ y \in Int /\ x = c * P
    BY <1>0, <1>1, Lengths, FactorFacts
  <2> HIDE DEF b, u, y, e, P, x
  <2>3. d \in 0 .. b - 1 /\ Congruent(e * c, d, b)
    <3>1. Congruent(e, e, b)
      BY <2>2, CongruenceIsEquivalence
    <3>2. mulMod(e, c % b, b) \in 0 .. b - 1 /\ Congruent(e * c, mulMod(e, c % b, b), b)
      BY <2>2, <3>1, MultiplyByResidue
    <3> QED
      BY <3>2 DEF e
  <2> HIDE DEF d
  <2>4. Congruent(e * x, y, b)
    <3>1. Congruent(e, e, b)
      BY <2>2, CongruenceIsEquivalence
    <3>2. Congruent(e * x, mulMod(e, x % b, b), b)
      BY <1>0, <2>2, <3>1, MultiplyByResidue
    <3> QED
      BY <2>2, <3>2
  <2>5. w \in 0 .. b - 1 /\ Congruent(w, (y - 0) * u, b) /\ y - 0 = y
    <3>1. Congruent(0, 0, b) /\ 0 \in Int
      BY <2>2, CongruenceIsEquivalence
    <3> QED
      BY <2>2, <3>1, SubtractAndScale
  <2> HIDE DEF w
  <2>6. w \in Int /\ d \in Int
    BY <2>2, <2>3, <2>5
  <2> DEFINE v0 == e * c
             v1 == e * x
  <2>7. v0 \in Int /\ v1 \in Int /\ v1 = v0 * P
    BY <1>0, <2>2
  <2>8. Congruent(v0, d, b) /\ Congruent(v1, y, b) /\ Congruent(w, y * u, b)
    BY <2>3, <2>4, <2>5
  <2> HIDE DEF v0, v1
  <2>9. Congruent(v1 * u, y * u, b) /\ v1 * u \in Int /\ y * u \in Int
    <3>1. Congruent(u, u, b)
      BY <2>2, CongruenceIsEquivalence
    <3>2. Congruent(v1 * u, y * u, b)
      BY <2>2, <2>7, <2>8, <3>1, CongruentOperations
    <3> QED
      BY <2>2, <2>7, <3>2
  <2>10. Congruent(v1 * u, v0, b)
    <3>1. Congruent((v0 * P) * u, v0, b)
      BY <2>2, <2>7, Cancel
    <3> QED
      BY <2>7, <3>1
  <2>11. Congruent(y * u, v1 * u, b)
    BY <2>2, <2>9, CongruenceIsEquivalence
  <2>12. Congruent(w, v1 * u, b)
    BY <2>2, <2>6, <2>8, <2>9, <2>11, CongruenceIsEquivalence
  <2>13. Congruent(w, v0, b)
    BY <2>2, <2>6, <2>7, <2>9, <2>10, <2>12, CongruenceIsEquivalence
  <2>14. Congruent(w, d, b)
    BY <2>2, <2>6, <2>7, <2>8, <2>13, CongruenceIsEquivalence
  <2>15. w = d
    BY <2>2, <2>3, <2>5, <2>14, CongruentSmall
  <2> QED
    BY <2>1, <2>15
<1>6. DOMAIN back(z, k) = 1 .. k /\ DOMAIN mul(r, Residues(c, k), k) = 1 .. k
  BY <1>2 DEF mul
<1>7. back(z, k) = [i \in 1 .. k |-> back(z, k)[i]]
  BY <1>2
<1>8. mul(r, Residues(c, k), k) = [i \in 1 .. k |-> mul(r, Residues(c, k), k)[i]]
  BY DEF mul
<1> QED
  BY <1>5, <1>7, <1>8 DEF z

\* The special moduli drop out: a key that P divides multiplies raised residues
\* exactly, whatever the residues and however far off the raise is.
===============================================================================
