------------------------------ MODULE SchemeProofs ------------------------------
(***************************************************************************)
(* Proofs about the homomorphic operations, for any degree that is a power *)
(* of two, any number of moduli of any size of which no two have a common  *)
(* factor, and any keys and samples: every ciphertext decrypts to what its *)
(* history says, up to the noise its history allows.  First come the laws  *)
(* of the ring Z[X]/(X^N + 1), then the operations on residues, each as a  *)
(* congruence for every modulus, and the invariant.  The last part is      *)
(* about the algorithms of SchemeAlgo, for any degree, number and series:  *)
(* their results have the value, the scale and the level they should have. *)
(***************************************************************************)
EXTENDS Scheme, SchemeAlgo, RnsLemmas, TLAPS

-------------------------------------------------------------------------------
(* Coefficients by exponents of any size *)

LEMMA Degree == /\ N \in Nat \ {0} /\ N \in Int /\ M \in Nat \ {0} /\ M \in Int /\ M = 2 * N
                /\ \A k \in Index : k \in Int /\ 0 <= k /\ k < N
                /\ 0 \in Index
<1>1. N \in Nat \ {0}
  BY SchemeAssumption
<1> QED
  BY <1>1 DEF M, Index

\* The remainder is the only one there is.
LEMMA RemainderIs ==
  ASSUME NEW m \in Nat \ {0}, NEW x \in Int, NEW y \in 0 .. m - 1, Congruent(x, y, m)
  PROVE  x % m = y
<1>1. x % m \in 0 .. m - 1 /\ Congruent(x % m, x, m) /\ m \in Int /\ x % m \in Int /\ y \in Int
  BY DivisionFacts
<1>2. Congruent(x % m, y, m)
  BY <1>1, CongruenceIsEquivalence
<1> QED
  BY <1>1, <1>2, CongruentSmall

\* n and n + N modulo N and modulo 2 * N.
LEMMA Halves ==
  ASSUME NEW n \in Int
  PROVE  /\ n % M \in 0 .. M - 1 /\ n % N \in Index
         /\ n % M < N => n % N = n % M
         /\ ~(n % M < N) => n % N = (n % M) - N
         /\ (n + N) % M = IF n % M < N THEN (n % M) + N ELSE (n % M) - N
         /\ (n + N) % N = n % N
<1>1. /\ n % M \in 0 .. M - 1 /\ n % N \in 0 .. N - 1 /\ n \div M \in Int
      /\ n = (n \div M) * M + (n % M)
  BY Degree, DivisionFacts
<1> DEFINE r == n % M
           w == n \div M
<1>2. r \in Int /\ w \in Int /\ n = w * M + r /\ 0 <= r /\ r < M
  BY <1>1, Degree
<1> HIDE DEF r, w
<1>3. Congruent(n, r, M) /\ Congruent(n, r, N)
  <2>1. n - r = M * w /\ n - r = N * (2 * w) /\ 2 * w \in Int
    BY <1>2, Degree
  <2> QED
    BY <2>1, <1>2 DEF Congruent, Divides
<1>4. Congruent(n + N, r + N, M) /\ Congruent(n + N, r - N, M) /\ Congruent(n, r - N, N)
      /\ Congruent(n + N, r, N) /\ Congruent(n + N, r - N, N)
  <2>1. /\ (n + N) - (r + N) = M * w /\ (n + N) - (r - N) = M * (w + 1) /\ n - (r - N) = N * (2 * w + 1)
        /\ (n + N) - r = N * (2 * w + 1) /\ (n + N) - (r - N) = N * (2 * w + 2)
        /\ w + 1 \in Int /\ 2 * w + 1 \in Int /\ 2 * w + 2 \in Int
    BY <1>2, Degree
  <2> QED
    BY <2>1, <1>2 DEF Congruent, Divides
<1>5. n + N \in Int /\ (r < N => r \in 0 .. N - 1 /\ r + N \in 0 .. M - 1)
      /\ (~(r < N) => r - N \in 0 .. N - 1 /\ r - N \in 0 .. M - 1)
  BY <1>2, Degree
<1>6. CASE r < N
  <2>1. n % N = r /\ (n + N) % M = r + N /\ (n + N) % N = r
    BY <1>3, <1>4, <1>5, <1>6, Degree, RemainderIs
  <2> QED
    BY <1>1, <1>6, <2>1, Degree DEF Index, r
<1>7. CASE ~(r < N)
  <2>1. n % N = r - N /\ (n + N) % M = r - N /\ (n + N) % N = r - N
    BY <1>3, <1>4, <1>5, <1>7, Degree, RemainderIs
  <2> QED
    BY <1>1, <1>7, <2>1, Degree DEF Index, r
<1> QED
  BY <1>6, <1>7

\* The coefficient of X^n, where X^N is -1.
At(x, n) == IF n % M < N THEN x[n % N] ELSE 0 - x[n % N]

LEMMA Entries == ASSUME NEW x \in IntPoly PROVE \A k \in Index : x[k] \in Int
  BY DEF IntPoly

LEMMA AtFacts ==
  ASSUME NEW x \in IntPoly, NEW n \in Int
  PROVE  /\ At(x, n) \in Int /\ At(x, n + N) = 0 - At(x, n) /\ At(x, n - N) = 0 - At(x, n)
         /\ n \in Index => At(x, n) = x[n]
<1>1. \A j \in Int : At(x, j) \in Int /\ At(x, j + N) = 0 - At(x, j)
  <2> TAKE j \in Int
  <2>1. x[j % N] \in Int /\ (j + N) % N = j % N
    BY Halves, Entries
  <2>2. (j + N) % M < N <=> ~(j % M < N)
    <3> DEFINE r == j % M
               s == (j + N) % M
    <3>1. s = IF r < N THEN r + N ELSE r - N
      BY Halves
    <3>2. r \in 0 .. M - 1
      BY Halves
    <3> HIDE DEF r, s
    <3>3. s < N <=> ~(r < N)
      BY <3>1, <3>2, Degree
    <3> QED
      BY <3>3 DEF r, s
  <2> QED
    BY <2>1, <2>2 DEF At
<1>2. At(x, n - N) = 0 - At(x, n)
  <2>1. n - N \in Int /\ (n - N) + N = n
    BY Degree
  <2>2. At(x, n - N) \in Int /\ At(x, (n - N) + N) = 0 - At(x, n - N)
    BY <1>1, <2>1
  <2> QED
    BY <2>1, <2>2
<1>3. n \in Index => At(x, n) = x[n]
  <2> HAVE n \in Index
  <2>1. Congruent(n, n, M) /\ Congruent(n, n, N) /\ n \in 0 .. M - 1 /\ n \in 0 .. N - 1 /\ n < N
    BY Degree, CongruenceIsEquivalence DEF Index
  <2>2. n % M = n /\ n % N = n
    BY <2>1, Degree, RemainderIs
  <2> QED
    BY <2>1, <2>2 DEF At
<1> QED
  BY <1>1, <1>2, <1>3

\* It only depends on n modulo 2 * N.
LEMMA AtPeriod ==
  ASSUME NEW x \in IntPoly, NEW m \in Int, NEW n \in Int, Congruent(m, n, M) PROVE At(x, m) = At(x, n)
<1>1. Congruent(m, n, N)
  <2>1. PICK w \in Int : m - n = M * w
    BY DEF Congruent, Divides
  <2>2. m - n = N * (2 * w) /\ 2 * w \in Int
    BY <2>1, Degree
  <2> QED
    BY <2>2 DEF Congruent, Divides
<1>2. m % M = n % M /\ m % N = n % N
  BY <1>1, Degree, CongruentMod
<1> QED
  BY <1>2 DEF At

-------------------------------------------------------------------------------
(* The ring: sums of products *)

\* The terms of a product's coefficient.
TermsAt(x, y, n) == [j \in Index |-> x[j] * At(y, n - j)]

LEMMA TermsFacts ==
  ASSUME NEW x \in IntPoly, NEW y \in IntPoly, NEW n \in Int
  PROVE  /\ \A j \in 0 .. N - 1 : /\ n - j \in Int /\ At(y, n - j) \in Int /\ x[j] \in Int
                                  /\ TermsAt(x, y, n)[j] = x[j] * At(y, n - j)
                                  /\ TermsAt(x, y, n)[j] \in Int
         /\ SumBelow(TermsAt(x, y, n), N) \in Int
<1>1. ASSUME NEW j \in 0 .. N - 1
      PROVE  /\ n - j \in Int /\ At(y, n - j) \in Int /\ x[j] \in Int
             /\ TermsAt(x, y, n)[j] = x[j] * At(y, n - j) /\ TermsAt(x, y, n)[j] \in Int
  <2>1. j \in Index /\ n - j \in Int
    BY Degree DEF Index
  <2>2. At(y, n - j) \in Int /\ x[j] \in Int
    BY <2>1, AtFacts, Entries
  <2>3. TermsAt(x, y, n)[j] = x[j] * At(y, n - j)
    BY <2>1 DEF TermsAt
  <2> QED
    BY <2>1, <2>2, <2>3
<1>2. \A j \in 0 .. N - 1 : TermsAt(x, y, n)[j] \in Int
  BY <1>1
<1>3. SumBelow(TermsAt(x, y, n), N) \in Int
  BY <1>2, Degree, BelowIsNumber
<1> QED
  BY <1>1, <1>3

LEMMA TermAt ==
  ASSUME NEW x \in IntPoly, NEW y \in IntPoly, NEW n \in Int, NEW j \in 0 .. N - 1
  PROVE  /\ At(y, n - j) \in Int /\ x[j] \in Int
         /\ TermsAt(x, y, n)[j] = x[j] * At(y, n - j) /\ TermsAt(x, y, n)[j] \in Int
  BY TermsFacts

LEMMA ProductAt ==
  ASSUME NEW x \in IntPoly, NEW y \in IntPoly
  PROVE  /\ Product(x, y) \in IntPoly
         /\ \A k \in Index : Product(x, y)[k] = SumBelow(TermsAt(x, y, k), N)
<1>1. ASSUME NEW k \in Index
      PROVE  /\ Product(x, y)[k] = SumBelow(TermsAt(x, y, k), N)
             /\ Product(x, y)[k] \in Int
  <2> DEFINE f == [j \in Index |-> IF j <= k THEN x[j] * y[k - j] ELSE -(x[j] * y[N + k - j])]
  <2>1. ASSUME NEW j \in 0 .. N - 1 PROVE f[j] = TermsAt(x, y, k)[j]
    <3>1. j \in Index /\ k \in Int /\ j \in Int /\ f[j] = IF j <= k THEN x[j] * y[k - j] ELSE -(x[j] * y[N + k - j])
      BY Degree DEF Index
    <3>2. TermsAt(x, y, k)[j] = x[j] * At(y, k - j) /\ At(y, k - j) \in Int /\ x[j] \in Int
      BY <3>1, TermsFacts
    <3>3. CASE j <= k
      <4>1. k - j \in Index
        BY <3>1, <3>3, Degree DEF Index
      <4>2. k - j \in Int /\ At(y, k - j) = y[k - j]
        BY <4>1, Degree, AtFacts
      <4> QED
        BY <3>1, <3>2, <3>3, <4>2
    <3>4. CASE ~(j <= k)
      <4>1. N + k - j \in Index /\ k - j = (N + k - j) - N /\ N + k - j \in Int
        BY <3>1, <3>4, Degree DEF Index
      <4>2. At(y, k - j) = 0 - y[N + k - j] /\ y[N + k - j] \in Int
        BY <4>1, AtFacts, Entries
      <4> DEFINE u == x[j]
                 w == y[N + k - j]
      <4>3. u \in Int /\ w \in Int /\ f[j] = -(u * w) /\ TermsAt(x, y, k)[j] = u * (0 - w)
        BY <3>1, <3>2, <3>4, <4>2
      <4> HIDE DEF u, w, f
      <4>4. -(u * w) = u * (0 - w)
        BY <4>3
      <4> QED
        BY <4>3, <4>4
    <3> QED
      BY <3>3, <3>4
  <2>2. SumBelow(f, N) = SumBelow(TermsAt(x, y, k), N)
    <3> HIDE DEF f
    <3> QED
      BY <2>1, Degree, BelowSame
  <2>3. Product(x, y)[k] = SumBelow(f, N)
    BY DEF Product
  <2>4. SumBelow(TermsAt(x, y, k), N) \in Int
    BY Degree, TermsFacts
  <2> QED
    BY <2>2, <2>3, <2>4
<1>2. Product(x, y) = [k \in Index |-> Product(x, y)[k]]
  BY DEF Product
<1> QED
  BY <1>1, <1>2 DEF IntPoly

\* For every exponent.
LEMMA ProductAnywhere ==
  ASSUME NEW x \in IntPoly, NEW y \in IntPoly, NEW n \in Int
  PROVE  At(Product(x, y), n) = SumBelow(TermsAt(x, y, n), N)
<1> DEFINE k == n % N
<1>1. /\ k \in Index /\ k \in Int
      /\ n % M < N => k = n % M
      /\ ~(n % M < N) => k + N = n % M
  <2>1. n % M \in 0 .. M - 1 /\ k \in Index
    BY Halves
  <2>2. k \in Int /\ n % M \in Int
    BY <2>1, Degree
  <2>3. (n % M < N => k = n % M) /\ (~(n % M < N) => k = (n % M) - N)
    BY Halves
  <2> HIDE DEF k
  <2> QED
    BY <2>1, <2>2, <2>3, Degree
<1> HIDE DEF k
<1>2. Product(x, y)[k] = SumBelow(TermsAt(x, y, k), N) /\ SumBelow(TermsAt(x, y, k), N) \in Int
  BY <1>1, ProductAt, TermsFacts
<1>3. CASE n % M < N
  <2>1. Congruent(k, n, M)
    <3>1. k = n % M
      BY <1>1, <1>3
    <3> QED
      BY <3>1, Degree, DivisionFacts
  <2>2. ASSUME NEW j \in 0 .. N - 1 PROVE TermsAt(x, y, k)[j] = TermsAt(x, y, n)[j]
    <3>1. Congruent(k - j, n - j, M) /\ k - j \in Int /\ n - j \in Int /\ j \in Int
      <4>1. j \in Int /\ Congruent(j, j, M)
        BY Degree, CongruenceIsEquivalence
      <4> QED
        BY <1>1, <2>1, <4>1, Degree, CongruentOperations
    <3>2. At(y, k - j) = At(y, n - j)
      BY <3>1, AtPeriod
    <3>3. /\ TermsAt(x, y, k)[j] = x[j] * At(y, k - j)
          /\ TermsAt(x, y, n)[j] = x[j] * At(y, n - j)
      BY <1>1, TermsFacts
    <3> QED
      BY <3>2, <3>3
  <2>3. SumBelow(TermsAt(x, y, k), N) = SumBelow(TermsAt(x, y, n), N)
    BY <2>2, Degree, BelowSame
  <2> QED
    BY <1>2, <1>3, <2>3 DEF At, k
<1>4. CASE ~(n % M < N)
  <2>1. Congruent(k + N, n, M) /\ k + N \in Int
    <3>1. k + N = n % M
      BY <1>1, <1>4
    <3> QED
      BY <1>1, <3>1, Degree, DivisionFacts
  <2>2. ASSUME NEW j \in 0 .. N - 1
        PROVE  TermsAt(x, y, k)[j] \in Int /\ TermsAt(x, y, n)[j] = (0 - 1) * TermsAt(x, y, k)[j]
    <3>1. Congruent((k - j) + N, n - j, M) /\ k - j \in Int /\ n - j \in Int /\ j \in Int /\ (k - j) + N \in Int
      <4>1. j \in Int /\ Congruent(j, j, M) /\ (k - j) + N = (k + N) - j
        BY <1>1, Degree, CongruenceIsEquivalence
      <4>2. Congruent((k + N) - j, n - j, M)
        BY <2>1, <4>1, Degree, CongruentOperations
      <4> QED
        BY <1>1, <4>1, <4>2, Degree
    <3>2. At(y, n - j) = 0 - At(y, k - j)
      <4>1. At(y, (k - j) + N) = At(y, n - j)
        BY <3>1, AtPeriod
      <4> QED
        BY <3>1, <4>1, AtFacts
    <3> DEFINE u == x[j]
               w == At(y, k - j)
    <3>3. /\ u \in Int /\ w \in Int /\ TermsAt(x, y, k)[j] = u * w /\ TermsAt(x, y, n)[j] = u * (0 - w)
          /\ TermsAt(x, y, k)[j] \in Int
      <4>1. /\ x[j] \in Int /\ At(y, k - j) \in Int /\ TermsAt(x, y, k)[j] = x[j] * At(y, k - j)
            /\ TermsAt(x, y, k)[j] \in Int
        BY <1>1, TermsFacts
      <4>2. TermsAt(x, y, n)[j] = x[j] * At(y, n - j)
        BY TermsFacts
      <4> QED
        BY <3>2, <4>1, <4>2
    <3> HIDE DEF u, w
    <3>4. u * (0 - w) = (0 - 1) * (u * w)
      BY <3>3
    <3> QED
      BY <3>3, <3>4
  <2>3. SumBelow(TermsAt(x, y, n), N) = (0 - 1) * SumBelow(TermsAt(x, y, k), N)
    <3>1. \A j \in 0 .. N - 1 : TermsAt(x, y, k)[j] \in Int /\ TermsAt(x, y, n)[j] = (0 - 1) * TermsAt(x, y, k)[j]
      BY <2>2
    <3>2. 0 - 1 \in Int /\ N \in Nat
      BY Degree
    <3> QED
      BY <3>1, <3>2, BelowTimes
  <2> QED
    BY <1>2, <1>4, <2>3 DEF At, k
<1> QED
  BY <1>3, <1>4

-------------------------------------------------------------------------------
(* The ring: its laws *)

\* Where the other factor of a term is.
Mirror(k) == [j \in Index |-> IF j <= k THEN k - j ELSE N + k - j]

\* x * y = y * x.
LEMMA ProductCommutes ==
  ASSUME NEW x \in IntPoly, NEW y \in IntPoly PROVE Product(x, y) = Product(y, x)
<1>1. ASSUME NEW k \in Index PROVE SumBelow(TermsAt(x, y, k), N) = SumBelow(TermsAt(y, x, k), N)
  <2> DEFINE f == TermsAt(y, x, k)
             g == TermsAt(x, y, k)
             r == Mirror(k)
  <2>1. ASSUME NEW j \in 0 .. N - 1
        PROVE  r[j] \in 0 .. N - 1 /\ f[j] \in Int /\ g[j] = f[r[j]] /\ r[r[j]] = j
    <3>1. j \in Index /\ j \in Int /\ k \in Int /\ 0 <= k /\ k < N /\ 0 <= j /\ j < N /\ N \in Int
      BY Degree DEF Index
    <3>2. r[j] = IF j <= k THEN k - j ELSE N + k - j
      BY <3>1 DEF Mirror
    <3>3. r[j] \in Index /\ r[j] \in Int /\ r[j] \in 0 .. N - 1
      BY <3>1, <3>2 DEF Index
    <3>4. r[r[j]] = j
      <4>1. r[r[j]] = IF r[j] <= k THEN k - r[j] ELSE N + k - r[j]
        BY <3>3 DEF Mirror
      <4> HIDE DEF r
      <4> QED
        BY <3>1, <3>2, <4>1
    <3>5. f[j] \in Int
      BY <3>1, TermsFacts
    <3>6. /\ g[j] = x[j] * At(y, k - j) /\ x[j] \in Int /\ At(y, k - j) \in Int
      BY <3>1, TermsFacts
    <3> HIDE DEF r
    <3>7. /\ f[r[j]] = y[r[j]] * At(x, k - r[j]) /\ y[r[j]] \in Int /\ At(x, k - r[j]) \in Int
      BY <3>1, <3>3, TermAt
    <3> HIDE DEF f, g
    <3>8. CASE j <= k
      <4>1. k - j \in Index /\ k - j = r[j] /\ k - r[j] = j
        BY <3>1, <3>2, <3>8 DEF Index
      <4>2. At(y, k - j) = y[r[j]] /\ At(x, k - r[j]) = x[j]
        BY <3>1, <4>1, AtFacts
      <4> DEFINE u == x[j]
                 w == y[r[j]]
      <4>3. g[j] = u * w /\ f[r[j]] = w * u /\ u \in Int /\ w \in Int
        BY <3>6, <3>7, <4>2
      <4> HIDE DEF u, w
      <4>4. g[j] = f[r[j]]
        BY <4>3
      <4> QED
        BY <3>3, <3>4, <3>5, <4>4
    <3>9. CASE ~(j <= k)
      <4>1. k - j = r[j] - N /\ k - r[j] = j - N /\ r[j] \in Index
        BY <3>1, <3>2, <3>3, <3>9
      <4>2. At(y, k - j) = 0 - y[r[j]] /\ At(x, k - r[j]) = 0 - x[j]
        BY <3>1, <3>3, <4>1, AtFacts
      <4> DEFINE u == x[j]
                 w == y[r[j]]
      <4>3. g[j] = u * (0 - w) /\ f[r[j]] = w * (0 - u) /\ u \in Int /\ w \in Int
        BY <3>6, <3>7, <4>2
      <4> HIDE DEF u, w
      <4>4. g[j] = f[r[j]]
        BY <4>3
      <4> QED
        BY <3>3, <3>4, <3>5, <4>4
    <3> QED
      BY <3>8, <3>9
  <2>2. r = [j \in 0 .. N - 1 |-> r[j]]
    BY DEF Mirror, Index
  <2> HIDE DEF f, g, r
  <2>3. IsReordering(N, f, g, r, r)
    BY <2>1, <2>2 DEF IsReordering
  <2>4. SumBelow(g, N) = SumBelow(f, N)
    BY <2>3, Degree, BelowReordered
  <2> QED
    BY <2>4 DEF f, g
<1>2. /\ Product(x, y) \in IntPoly /\ Product(y, x) \in IntPoly
      /\ \A k \in Index : Product(x, y)[k] = Product(y, x)[k]
  BY <1>1, ProductAt
<1> QED
  BY <1>2 DEF IntPoly

\* z * (x * y) = x * (z * y).
LEMMA ProductExchange ==
  ASSUME NEW x \in IntPoly, NEW y \in IntPoly, NEW z \in IntPoly
  PROVE  Product(z, Product(x, y)) = Product(x, Product(z, y))
<1>0. Product(x, y) \in IntPoly /\ Product(z, y) \in IntPoly
  BY ProductAt
<1>1. ASSUME NEW k \in Index
      PROVE  SumBelow(TermsAt(z, Product(x, y), k), N) = SumBelow(TermsAt(x, Product(z, y), k), N)
  <2> DEFINE t == [j \in 0 .. N - 1 |-> [i \in 0 .. N - 1 |-> z[j] * (x[i] * At(y, (k - j) - i))]]
             rows == [j \in 0 .. N - 1 |-> SumBelow(t[j], N)]
             column(i) == [j \in 0 .. N - 1 |-> t[j][i]]
             columns == [i \in 0 .. N - 1 |-> SumBelow(column(i), N)]
  <2>1. k \in Int /\ N \in Nat /\ \A j \in 0 .. N - 1 : k - j \in Int /\ x[j] \in Int /\ z[j] \in Int
    BY Degree, Entries DEF Index
  <2>2. ASSUME NEW i \in 0 .. N - 1, NEW j \in 0 .. N - 1
        PROVE  /\ (k - j) - i \in Int /\ At(y, (k - j) - i) \in Int
               /\ t[j][i] = z[j] * (x[i] * At(y, (k - j) - i)) /\ t[j][i] \in Int
               /\ (k - j) - i = (k - i) - j
    <3>1. (k - j) - i \in Int /\ (k - j) - i = (k - i) - j
      BY <2>1
    <3>2. At(y, (k - j) - i) \in Int
      BY <3>1, AtFacts
    <3>3. t[j][i] = z[j] * (x[i] * At(y, (k - j) - i))
      OBVIOUS
    <3>4. z[j] \in Int /\ x[i] \in Int
      BY <2>1
    <3>5. z[j] * (x[i] * At(y, (k - j) - i)) \in Int
      <4> DEFINE u == z[j]
                 v == x[i]
                 w == At(y, (k - j) - i)
      <4>1. u \in Int /\ v \in Int /\ w \in Int
        BY <3>2, <3>4
      <4> HIDE DEF u, v, w
      <4>2. u * (v * w) \in Int
        BY <4>1
      <4> QED
        BY <4>2 DEF u, v, w
    <3> QED
      BY <3>1, <3>2, <3>3, <3>5
  <2>3. SumBelow(rows, N) = SumBelow(columns, N)
    <3>1. \A j \in 0 .. N - 1 : \A i \in 0 .. N - 1 : t[j][i] \in Int
      BY <2>2
    <3> HIDE DEF t
    <3> QED
      BY <2>1, <3>1, BelowSwap
  <2>4. ASSUME NEW j \in 0 .. N - 1 PROVE rows[j] = TermsAt(z, Product(x, y), k)[j]
    <3>1. ASSUME NEW i \in 0 .. N - 1 PROVE TermsAt(x, y, k - j)[i] \in Int /\ t[j][i] = z[j] * TermsAt(x, y, k - j)[i]
      <4> DEFINE e == k - j
      <4>1. e \in Int
        BY <2>1
      <4>2. t[j][i] = z[j] * (x[i] * At(y, e - i))
        BY <2>2
      <4> HIDE DEF e, t
      <4>3. TermsAt(x, y, e)[i] = x[i] * At(y, e - i) /\ TermsAt(x, y, e)[i] \in Int
        BY <4>1, TermAt
      <4>4. TermsAt(x, y, e)[i] \in Int /\ t[j][i] = z[j] * TermsAt(x, y, e)[i]
        BY <4>2, <4>3
      <4> QED
        BY <4>4 DEF e
    <3>2. SumBelow(t[j], N) = z[j] * SumBelow(TermsAt(x, y, k - j), N)
      <4> HIDE DEF t
      <4>1. \A i \in 0 .. N - 1 : TermsAt(x, y, k - j)[i] \in Int /\ t[j][i] = z[j] * TermsAt(x, y, k - j)[i]
        BY <3>1
      <4>2. N \in Nat /\ z[j] \in Int
        BY <2>1
      <4> QED
        BY <4>1, <4>2, BelowTimes
    <3>3. At(Product(x, y), k - j) = SumBelow(TermsAt(x, y, k - j), N)
      BY <2>1, ProductAnywhere
    <3>4. TermsAt(z, Product(x, y), k)[j] = z[j] * At(Product(x, y), k - j)
      BY <1>0, <2>1, TermsFacts
    <3>5. rows[j] = SumBelow(t[j], N)
      OBVIOUS
    <3> QED
      BY <3>2, <3>3, <3>4, <3>5
  <2>5. ASSUME NEW i \in 0 .. N - 1 PROVE columns[i] = TermsAt(x, Product(z, y), k)[i]
    <3>1. ASSUME NEW j \in 0 .. N - 1
          PROVE  TermsAt(z, y, k - i)[j] \in Int /\ column(i)[j] = x[i] * TermsAt(z, y, k - i)[j]
      <4>1. /\ t[j][i] = z[j] * (x[i] * At(y, (k - i) - j)) /\ At(y, (k - i) - j) \in Int
        BY <2>2
      <4>2. TermsAt(z, y, k - i)[j] = z[j] * At(y, (k - i) - j) /\ TermsAt(z, y, k - i)[j] \in Int
        <5> DEFINE e == k - i
        <5>1. e \in Int
          BY <2>1
        <5> HIDE DEF e
        <5>2. TermsAt(z, y, e)[j] = z[j] * At(y, e - j) /\ TermsAt(z, y, e)[j] \in Int
          BY <5>1, TermAt
        <5> QED
          BY <5>2 DEF e
      <4> DEFINE u == z[j]
                 v == x[i]
                 w == At(y, (k - i) - j)
      <4>3. u \in Int /\ v \in Int /\ w \in Int /\ column(i)[j] = u * (v * w) /\ TermsAt(z, y, k - i)[j] = u * w
        BY <2>1, <4>1, <4>2
      <4> HIDE DEF u, v, w, t
      <4>4. u * (v * w) = v * (u * w)
        BY <4>3
      <4> QED
        BY <4>2, <4>3, <4>4 DEF v
    <3>2. SumBelow(column(i), N) = x[i] * SumBelow(TermsAt(z, y, k - i), N)
      <4> HIDE DEF column
      <4>1. \A j \in 0 .. N - 1 : TermsAt(z, y, k - i)[j] \in Int /\ column(i)[j] = x[i] * TermsAt(z, y, k - i)[j]
        BY <3>1
      <4>2. N \in Nat /\ x[i] \in Int
        BY <2>1
      <4> QED
        BY <4>1, <4>2, BelowTimes
    <3>3. At(Product(z, y), k - i) = SumBelow(TermsAt(z, y, k - i), N)
      BY <2>1, ProductAnywhere
    <3>4. TermsAt(x, Product(z, y), k)[i] = x[i] * At(Product(z, y), k - i)
      BY <1>0, <2>1, TermsFacts
    <3>5. columns[i] = SumBelow(column(i), N)
      OBVIOUS
    <3> QED
      BY <3>2, <3>3, <3>4, <3>5
  <2> HIDE DEF rows, columns
  <2>6. SumBelow(rows, N) = SumBelow(TermsAt(z, Product(x, y), k), N)
    BY <2>1, <2>4, BelowSame
  <2>7. SumBelow(columns, N) = SumBelow(TermsAt(x, Product(z, y), k), N)
    BY <2>1, <2>5, BelowSame
  <2> QED
    BY <2>3, <2>6, <2>7
<1>2. /\ Product(z, Product(x, y)) \in IntPoly /\ Product(x, Product(z, y)) \in IntPoly
      /\ \A k \in Index : Product(z, Product(x, y))[k] = Product(x, Product(z, y))[k]
  BY <1>0, <1>1, ProductAt
<1> QED
  BY <1>2 DEF IntPoly

\* (x * y) * z = x * (y * z).
LEMMA ProductAssociates ==
  ASSUME NEW x \in IntPoly, NEW y \in IntPoly, NEW z \in IntPoly
  PROVE  Product(Product(x, y), z) = Product(x, Product(y, z))
<1>1. Product(x, y) \in IntPoly /\ Product(y, z) = Product(z, y)
  BY ProductAt, ProductCommutes
<1>2. Product(Product(x, y), z) = Product(z, Product(x, y))
  BY <1>1, ProductCommutes
<1>3. Product(z, Product(x, y)) = Product(x, Product(z, y))
  BY ProductExchange
<1> QED
  BY <1>1, <1>2, <1>3

\* Products are linear in each factor.
Times(n, x) == [k \in Index |-> n * x[k]]
Combined(n, x, m, y) == [k \in Index |-> n * x[k] + m * y[k]]

LEMMA PolyFacts ==
  ASSUME NEW x \in IntPoly, NEW y \in IntPoly
  PROVE  /\ Plus(x, y) \in IntPoly /\ \A k \in Index : Plus(x, y)[k] = x[k] + y[k]
         /\ Minus(x, y) \in IntPoly /\ \A k \in Index : Minus(x, y)[k] = x[k] - y[k]
         /\ \A n \in Int : Times(n, x) \in IntPoly /\ \A k \in Index : Times(n, x)[k] = n * x[k]
         /\ \A k \in Index : x[k] \in Int /\ y[k] \in Int
<1>1. \A k \in Index : x[k] \in Int /\ y[k] \in Int
  BY Entries
<1>2. \A k \in Index : x[k] + y[k] \in Int /\ x[k] - y[k] \in Int
  BY <1>1
<1>3. ASSUME NEW n \in Int PROVE Times(n, x) \in IntPoly /\ \A k \in Index : Times(n, x)[k] = n * x[k]
  <2>1. ASSUME NEW k \in Index PROVE n * x[k] \in Int
    <3> DEFINE u == x[k]
    <3>1. u \in Int
      BY <1>1
    <3> HIDE DEF u
    <3>2. n * u \in Int
      BY <3>1
    <3> QED
      BY <3>2 DEF u
  <2> QED
    BY <2>1 DEF Times, IntPoly
<1> QED
  BY <1>1, <1>2, <1>3 DEF Plus, Minus, IntPoly

LEMMA ProductCombined ==
  ASSUME NEW x \in IntPoly, NEW y \in IntPoly, NEW z \in IntPoly, NEW n \in Int, NEW m \in Int,
         NEW k \in Index
  PROVE  /\ Combined(n, x, m, y) \in IntPoly
         /\ Product(Combined(n, x, m, y), z)[k] = n * Product(x, z)[k] + m * Product(y, z)[k]
<1> DEFINE w == Combined(n, x, m, y)
           f == TermsAt(x, z, k)
           g == TermsAt(y, z, k)
           h == TermsAt(w, z, k)
<1>1. ASSUME NEW j \in Index PROVE w[j] = n * x[j] + m * y[j] /\ w[j] \in Int
  <2>1. w[j] = n * x[j] + m * y[j] /\ x[j] \in Int /\ y[j] \in Int
    BY Entries DEF Combined
  <2> DEFINE u == x[j]
             v == y[j]
  <2>2. u \in Int /\ v \in Int
    BY <2>1
  <2> HIDE DEF u, v
  <2>3. n * u + m * v \in Int
    BY <2>2
  <2> QED
    BY <2>1, <2>3 DEF u, v
<1>2. w \in IntPoly
  BY <1>1 DEF Combined, IntPoly
<1> HIDE DEF w
<1>3. ASSUME NEW j \in 0 .. N - 1 PROVE f[j] \in Int /\ g[j] \in Int /\ h[j] = n * f[j] + m * g[j]
  <2>1. j \in Index /\ k \in Int /\ j \in Int
    BY Degree DEF Index
  <2> DEFINE u == x[j]
             v == y[j]
             s == At(z, k - j)
  <2>2. f[j] = u * s /\ g[j] = v * s /\ u \in Int /\ v \in Int /\ s \in Int /\ f[j] \in Int /\ g[j] \in Int
    BY <2>1, TermAt
  <2>3. h[j] = w[j] * s /\ w[j] = n * u + m * v
    BY <1>1, <1>2, <2>1, TermAt
  <2> HIDE DEF u, v, s, f, g, h
  <2>4. (n * u + m * v) * s = n * (u * s) + m * (v * s)
    BY <2>2
  <2> QED
    BY <2>2, <2>3, <2>4
<1> HIDE DEF f, g, h
<1>4. AreCombined(h, n, f, m, g, N)
  BY <1>3 DEF AreCombined
<1>5. SumBelow(h, N) = n * SumBelow(f, N) + m * SumBelow(g, N)
  BY <1>4, Degree, BelowLinear
<1>6. /\ Product(w, z)[k] = SumBelow(h, N) /\ Product(x, z)[k] = SumBelow(f, N)
      /\ Product(y, z)[k] = SumBelow(g, N)
  BY <1>2, ProductAt DEF f, g, h
<1> QED
  BY <1>2, <1>5, <1>6 DEF w

LEMMA ProductPlus ==
  ASSUME NEW x \in IntPoly, NEW y \in IntPoly, NEW z \in IntPoly, NEW k \in Index
  PROVE  /\ Product(x, z)[k] \in Int /\ Product(y, z)[k] \in Int
         /\ Product(Plus(x, y), z)[k] = Product(x, z)[k] + Product(y, z)[k]
         /\ Product(Minus(x, y), z)[k] = Product(x, z)[k] - Product(y, z)[k]
         /\ Product(z, Plus(x, y))[k] = Product(z, x)[k] + Product(z, y)[k]
         /\ Product(z, Minus(x, y))[k] = Product(z, x)[k] - Product(z, y)[k]
<1>1. Product(x, z) \in IntPoly /\ Product(y, z) \in IntPoly
  BY ProductAt
<1>2. Product(x, z)[k] \in Int /\ Product(y, z)[k] \in Int
  BY <1>1, Entries
<1>3. Plus(x, y) = Combined(1, x, 1, y) /\ Minus(x, y) = Combined(1, x, 0 - 1, y)
  <2>1. ASSUME NEW j \in Index PROVE x[j] + y[j] = 1 * x[j] + 1 * y[j] /\ x[j] - y[j] = 1 * x[j] + (0 - 1) * y[j]
    BY Entries
  <2> QED
    BY <2>1 DEF Plus, Minus, Combined
<1>4. /\ Product(Plus(x, y), z)[k] = 1 * Product(x, z)[k] + 1 * Product(y, z)[k]
      /\ Product(Minus(x, y), z)[k] = 1 * Product(x, z)[k] + (0 - 1) * Product(y, z)[k]
  <2>1. 1 \in Int /\ 0 - 1 \in Int
    OBVIOUS
  <2> QED
    BY <1>3, <2>1, ProductCombined
<1>5. /\ Product(Plus(x, y), z)[k] = Product(x, z)[k] + Product(y, z)[k]
      /\ Product(Minus(x, y), z)[k] = Product(x, z)[k] - Product(y, z)[k]
  BY <1>2, <1>4
<1>6. /\ Product(z, Plus(x, y)) = Product(Plus(x, y), z) /\ Product(z, Minus(x, y)) = Product(Minus(x, y), z)
      /\ Product(z, x) = Product(x, z) /\ Product(z, y) = Product(y, z)
  BY PolyFacts, ProductCommutes
<1> QED
  BY <1>2, <1>5, <1>6

LEMMA ProductTimes ==
  ASSUME NEW x \in IntPoly, NEW z \in IntPoly, NEW n \in Int, NEW k \in Index
  PROVE  /\ Product(Times(n, x), z)[k] = n * Product(x, z)[k]
         /\ Product(z, Times(n, x))[k] = n * Product(z, x)[k]
<1>1. Times(n, x) = Combined(n, x, 0, x)
  <2>1. ASSUME NEW j \in Index PROVE n * x[j] = n * x[j] + 0 * x[j]
    <3> DEFINE u == x[j]
    <3>1. u \in Int
      BY Entries
    <3> HIDE DEF u
    <3>2. n * u = n * u + 0 * u
      BY <3>1
    <3> QED
      BY <3>2 DEF u
  <2> QED
    BY <2>1 DEF Times, Combined
<1> DEFINE u == Product(x, z)[k]
<1>2. u \in Int
  BY ProductPlus
<1>3. Product(Times(n, x), z)[k] = n * u + 0 * u
  <2>1. 0 \in Int
    OBVIOUS
  <2> QED
    BY <1>1, <2>1, ProductCombined
<1> HIDE DEF u
<1>4. n * u + 0 * u = n * u
  BY <1>2
<1>5. /\ Product(z, Times(n, x)) = Product(Times(n, x), z) /\ Product(z, x) = Product(x, z)
  BY PolyFacts, ProductCommutes
<1> QED
  BY <1>3, <1>4, <1>5 DEF u

-------------------------------------------------------------------------------
(* The ring: how large coefficients become *)

AreSmall(x, b) == \A k \in Index : Magnitude(x[k]) <= b

LEMMA MagnitudeFacts ==
  /\ \A x \in Int : Magnitude(x) \in Nat
  /\ \A x \in Int, b \in Int : Magnitude(x) <= b <=> (x <= b /\ 0 - b <= x)
  BY DEF Magnitude

\* A sum is not larger than the sum of bounds of its terms.
LEMMA BelowMagnitude ==
  ASSUME NEW n \in Nat, NEW f, NEW g,
         \A i \in 0 .. n - 1 : f[i] \in Int /\ g[i] \in Int /\ Magnitude(f[i]) <= g[i]
  PROVE  /\ SumBelow(f, n) \in Int /\ SumBelow(g, n) \in Int
         /\ Magnitude(SumBelow(f, n)) <= SumBelow(g, n)
<1> DEFINE S == {i \in 0 .. n : /\ SumBelow(f, i) \in Int /\ SumBelow(g, i) \in Int
                                /\ Magnitude(SumBelow(f, i)) <= SumBelow(g, i)}
<1>1. 0 \in S
  BY BelowSteps DEF Magnitude
<1>2. \A i \in 0 .. n - 1 : i \in S => i + 1 \in S
  <2> SUFFICES ASSUME NEW i \in 0 .. n - 1, i \in S PROVE i + 1 \in S
    OBVIOUS
  <2>1. i \in Nat /\ i + 1 \in 0 .. n
    OBVIOUS
  <2>2. SumBelow(f, i + 1) = SumBelow(f, i) + f[i] /\ SumBelow(g, i + 1) = SumBelow(g, i) + g[i]
    BY <2>1, BelowSteps
  <2> DEFINE u == SumBelow(f, i)
             v == SumBelow(g, i)
             x == f[i]
             y == g[i]
  <2>3. u \in Int /\ v \in Int /\ x \in Int /\ y \in Int /\ Magnitude(u) <= v /\ Magnitude(x) <= y
    OBVIOUS
  <2> HIDE DEF u, v, x, y
  <2>4. u + x \in Int /\ v + y \in Int /\ Magnitude(u + x) <= v + y
    BY <2>3, MagnitudeFacts
  <2> QED
    BY <2>1, <2>2, <2>4 DEF u, v, x, y
<1> HIDE DEF S
<1>3. n \in S
  BY <1>1, <1>2, InductionUpTo
<1> QED
  BY <1>3 DEF S

LEMMA NormFacts == ASSUME NEW x \in IntPoly PROVE Norm(x) \in Nat
<1> DEFINE g == [k \in Index |-> Magnitude(x[k])]
<1>1. \A i \in 0 .. N - 1 : g[i] \in Int /\ g[i] = Magnitude(x[i]) /\ x[i] \in Int /\ g[i] \in Nat
  BY Entries, MagnitudeFacts DEF Index
<1> HIDE DEF g
<1>2. SumBelow(g, N) \in Int /\ Magnitude(SumBelow(x, N)) <= SumBelow(g, N) /\ SumBelow(x, N) \in Int
  <2>1. \A i \in 0 .. N - 1 : x[i] \in Int /\ g[i] \in Int /\ Magnitude(x[i]) <= g[i]
    BY <1>1
  <2> QED
    BY <2>1, Degree, BelowMagnitude
<1>3. SumBelow(g, N) \in Nat
  BY <1>2, MagnitudeFacts
<1> QED
  BY <1>3 DEF Norm, g

LEMMA MagnitudeOfProduct ==
  ASSUME NEW x \in Int, NEW y \in Int, NEW b \in Nat, Magnitude(y) <= b
  PROVE  Magnitude(x * y) <= b * Magnitude(x) /\ b * Magnitude(x) \in Nat /\ x * y \in Int
<1>1. y <= b /\ 0 - b <= y /\ x * y \in Int
  BY MagnitudeFacts
<1>2. CASE x >= 0
  <2>1. Magnitude(x) = x
    BY <1>2 DEF Magnitude
  <2>2. x * y <= x * b /\ x * (0 - b) <= x * y /\ x * (0 - b) = 0 - x * b /\ x * b = b * x /\ b * x \in Nat
    BY <1>1, <1>2
  <2> QED
    BY <1>1, <2>1, <2>2, MagnitudeFacts
<1>3. CASE ~(x >= 0)
  <2> DEFINE u == 0 - x
  <2>1. Magnitude(x) = u /\ u \in Nat /\ x = 0 - u
    BY <1>3 DEF Magnitude
  <2> HIDE DEF u
  <2>2. u * y <= u * b /\ u * (0 - b) <= u * y /\ u * (0 - b) = 0 - u * b /\ u * b = b * u /\ b * u \in Nat
    BY <1>1, <2>1
  <2>3. x * y = 0 - u * y /\ u * y \in Int
    BY <1>1, <2>1
  <2> QED
    BY <1>1, <2>1, <2>2, <2>3, MagnitudeFacts
<1> QED
  BY <1>2, <1>3

\* A product with small coefficients.
LEMMA ProductIsSmall ==
  ASSUME NEW x \in IntPoly, NEW y \in IntPoly, NEW b \in Nat, AreSmall(y, b)
  PROVE  AreSmall(Product(x, y), b * Norm(x)) /\ b * Norm(x) \in Nat
<1> DEFINE s == [k \in Index |-> Magnitude(x[k])]
           h == [k \in 0 .. N - 1 |-> b * Magnitude(x[k])]
<1>1. /\ \A i \in 0 .. N - 1 : s[i] \in Int /\ s[i] = Magnitude(x[i]) /\ h[i] = b * s[i]
      /\ SumBelow(s, N) = Norm(x)
  BY Entries, MagnitudeFacts DEF Index, Norm
<1>2. SumBelow(h, N) = b * Norm(x)
  <2> HIDE DEF s, h
  <2>1. \A i \in 0 .. N - 1 : s[i] \in Int /\ h[i] = b * s[i]
    BY <1>1
  <2>2. N \in Nat /\ b \in Int
    BY Degree
  <2>3. SumBelow(h, N) = b * SumBelow(s, N)
    BY <2>1, <2>2, BelowTimes
  <2> QED
    BY <1>1, <2>3
<1>3. ASSUME NEW k \in Index PROVE Magnitude(Product(x, y)[k]) <= b * Norm(x)
  <2> DEFINE f == TermsAt(x, y, k)
  <2>1. ASSUME NEW i \in 0 .. N - 1 PROVE f[i] \in Int /\ h[i] \in Int /\ Magnitude(f[i]) <= h[i]
    <3>1. k \in Int /\ i \in Index /\ i \in Int
      BY Degree DEF Index
    <3> DEFINE u == x[i]
               v == At(y, k - i)
    <3>2. u \in Int /\ v \in Int /\ f[i] = u * v
      BY <3>1, TermAt
    <3>3. Magnitude(v) <= b
      <4>1. k - i \in Int /\ (k - i) % N \in Index
        BY <3>1, Halves
      <4>2. Magnitude(y[(k - i) % N]) <= b /\ y[(k - i) % N] \in Int
        BY <4>1, Entries DEF AreSmall
      <4>3. v = y[(k - i) % N] \/ v = 0 - y[(k - i) % N]
        BY DEF At
      <4> DEFINE z == y[(k - i) % N]
      <4> HIDE DEF z, v
      <4>4. Magnitude(z) <= b /\ z \in Int /\ (v = z \/ v = 0 - z)
        BY <4>2, <4>3 DEF z, v
      <4> QED
        BY <3>2, <4>4, MagnitudeFacts
    <3>4. h[i] = b * Magnitude(u)
      OBVIOUS
    <3> HIDE DEF u, v, f, h
    <3>5. Magnitude(u * v) <= b * Magnitude(u) /\ b * Magnitude(u) \in Nat /\ u * v \in Int
      BY <3>2, <3>3, MagnitudeOfProduct
    <3> QED
      BY <3>2, <3>4, <3>5
  <2>2. Product(x, y)[k] = SumBelow(f, N)
    BY ProductAt
  <2> HIDE DEF f, h
  <2>3. Magnitude(SumBelow(f, N)) <= SumBelow(h, N)
    BY <2>1, Degree, BelowMagnitude
  <2> QED
    BY <1>2, <2>2, <2>3
<1>4. b * Norm(x) \in Nat
  <2> DEFINE u == Norm(x)
  <2>1. u \in Nat
    BY NormFacts
  <2> HIDE DEF u
  <2>2. b * u \in Nat
    BY <2>1
  <2> QED
    BY <2>2 DEF u
<1> QED
  BY <1>3, <1>4 DEF AreSmall

\* Norm(x) is at most N times the largest coefficient.
LEMMA NormIsSmall ==
  ASSUME NEW x \in IntPoly, NEW b \in Nat, AreSmall(x, b) PROVE Norm(x) <= N * b /\ N * b \in Nat
<1> DEFINE f == [k \in Index |-> Magnitude(x[k])]
           g == [i \in 1 .. N |-> f[i - 1]]
<1>1. \A i \in 1 .. N : g[i] \in 0 .. b
  <2> TAKE i \in 1 .. N
  <2>1. i - 1 \in Index
    BY Degree DEF Index
  <2>2. g[i] = Magnitude(x[i - 1]) /\ Magnitude(x[i - 1]) <= b /\ x[i - 1] \in Int
    BY <2>1, Entries DEF AreSmall
  <2>3. Magnitude(x[i - 1]) \in Nat
    BY <2>2, MagnitudeFacts
  <2> QED
    BY <2>2, <2>3
<1>2. Norm(x) = SumOf(g, N)
  BY DEF Norm, SumBelow
<1> HIDE DEF g
<1>3. SumOf(g, N) \in 0 .. N * b
  BY <1>1, Degree, SumBound
<1>4. N * b \in Nat
  BY Degree
<1> QED
  BY <1>2, <1>3, <1>4

\* Largest is the least bound.
LEMMA LargestFacts ==
  ASSUME NEW x \in IntPoly
  PROVE  Largest(x) \in Nat /\ AreSmall(x, Largest(x))
<1> DEFINE A == {Magnitude(x[k]) : k \in Index}
           S == {n \in 0 .. N - 1 : \E v \in Index : \A k \in 0 .. n : Magnitude(x[k]) <= Magnitude(x[v])}
<1>1. \A k \in Index : Magnitude(x[k]) \in Nat
  BY Entries, MagnitudeFacts
<1>2. 0 \in S
  <2>1. 0 \in Index /\ \A k \in 0 .. 0 : k = 0
    BY Degree
  <2>2. Magnitude(x[0]) <= Magnitude(x[0])
    BY <1>1, <2>1
  <2> QED
    BY <2>1, <2>2, Degree
<1>3. \A n \in 0 .. (N - 1) - 1 : n \in S => n + 1 \in S
  <2> SUFFICES ASSUME NEW n \in 0 .. (N - 1) - 1, NEW v \in Index,
                      \A k \in 0 .. n : Magnitude(x[k]) <= Magnitude(x[v])
               PROVE  n + 1 \in S
    OBVIOUS
  <2>1. n + 1 \in Index /\ n + 1 \in 0 .. N - 1 /\ \A k \in 0 .. n + 1 : k \in Index /\ (k \in 0 .. n \/ k = n + 1)
    BY Degree DEF Index
  <2>2. CASE Magnitude(x[n + 1]) <= Magnitude(x[v])
    BY <2>1, <2>2
  <2>3. CASE ~(Magnitude(x[n + 1]) <= Magnitude(x[v]))
    <3>1. \A k \in 0 .. n + 1 : Magnitude(x[k]) <= Magnitude(x[n + 1])
      <4> TAKE k \in 0 .. n + 1
      <4>1. Magnitude(x[k]) \in Nat /\ Magnitude(x[v]) \in Nat /\ Magnitude(x[n + 1]) \in Nat
        BY <1>1, <2>1
      <4>2. CASE k = n + 1
        BY <4>1, <4>2
      <4>3. CASE k \in 0 .. n
        <5>1. Magnitude(x[k]) <= Magnitude(x[v])
          BY <4>3
        <5> QED
          BY <2>3, <4>1, <5>1
      <4> QED
        BY <2>1, <4>2, <4>3
    <3> QED
      BY <2>1, <3>1
  <2> QED
    BY <2>2, <2>3
<1>4. N - 1 \in S
  <2> HIDE DEF S
  <2>1. N - 1 \in Nat /\ N - 1 \in 0 .. N - 1
    BY Degree
  <2>2. \A n \in 0 .. N - 1 : n \in S
    BY <1>2, <1>3, <2>1, InductionUpTo
  <2> QED
    BY <2>1, <2>2
<1>5. PICK v \in Index : \A k \in Index : Magnitude(x[k]) <= Magnitude(x[v])
  BY <1>4 DEF Index
<1>6. \E a \in A : \A b \in A : a >= b
  <2>1. Magnitude(x[v]) \in A
    OBVIOUS
  <2>2. \A b \in A : Magnitude(x[v]) >= b
    BY <1>1, <1>5
  <2> QED
    BY <2>1, <2>2
<1>7. Max(A) \in A /\ \A b \in A : Max(A) >= b
  <2> HIDE DEF A
  <2> QED
    BY <1>6 DEF Max
<1>8. A \subseteq Nat
  BY <1>1
<1> QED
  BY <1>1, <1>7, <1>8 DEF Largest, AreSmall

-------------------------------------------------------------------------------
(* The ring modulo a number *)

Same(x, y, m) == \A k \in Index : Congruent(x[k], y[k], m)

LEMMA SameIsEquivalence ==
  ASSUME NEW m \in Int
  PROVE  /\ \A x \in IntPoly : Same(x, x, m)
         /\ \A x, y \in IntPoly : Same(x, y, m) => Same(y, x, m)
         /\ \A x, y, z \in IntPoly : Same(x, y, m) /\ Same(y, z, m) => Same(x, z, m)
<1>1. ASSUME NEW x \in IntPoly PROVE Same(x, x, m)
  BY Entries, CongruenceIsEquivalence DEF Same
<1>2. ASSUME NEW x \in IntPoly, NEW y \in IntPoly, Same(x, y, m) PROVE Same(y, x, m)
  BY <1>2, Entries, CongruenceIsEquivalence DEF Same
<1>3. ASSUME NEW x \in IntPoly, NEW y \in IntPoly, NEW z \in IntPoly, Same(x, y, m), Same(y, z, m)
      PROVE  Same(x, z, m)
  <2> SUFFICES ASSUME NEW k \in Index PROVE Congruent(x[k], z[k], m)
    BY DEF Same
  <2>1. Congruent(x[k], y[k], m) /\ Congruent(y[k], z[k], m) /\ x[k] \in Int /\ y[k] \in Int /\ z[k] \in Int
    BY <1>3, Entries DEF Same
  <2> QED
    BY <2>1, CongruenceIsEquivalence
<1> QED
  BY <1>1, <1>2, <1>3

LEMMA SameOperations ==
  ASSUME NEW m \in Int, NEW x \in IntPoly, NEW y \in IntPoly, NEW u \in IntPoly, NEW v \in IntPoly,
         Same(x, u, m), Same(y, v, m)
  PROVE  /\ Same(Plus(x, y), Plus(u, v), m) /\ Same(Minus(x, y), Minus(u, v), m)
         /\ Same(Product(x, y), Product(u, v), m)
<1>1. ASSUME NEW k \in Index
      PROVE  Congruent(x[k] + y[k], u[k] + v[k], m) /\ Congruent(x[k] - y[k], u[k] - v[k], m)
  <2>1. /\ Congruent(x[k], u[k], m) /\ Congruent(y[k], v[k], m)
        /\ x[k] \in Int /\ y[k] \in Int /\ u[k] \in Int /\ v[k] \in Int
    BY Entries DEF Same
  <2> QED
    BY <2>1, CongruentOperations
<1>2. Same(Plus(x, y), Plus(u, v), m) /\ Same(Minus(x, y), Minus(u, v), m)
  BY <1>1 DEF Plus, Minus, Same
<1>3. ASSUME NEW k \in Index PROVE Congruent(Product(x, y)[k], Product(u, v)[k], m)
  <2>1. ASSUME NEW j \in 0 .. N - 1
        PROVE  /\ TermsAt(x, y, k)[j] \in Int /\ TermsAt(u, v, k)[j] \in Int
               /\ Congruent(TermsAt(x, y, k)[j], TermsAt(u, v, k)[j], m)
    <3>1. k \in Int /\ j \in Index /\ k - j \in Int
      BY Degree DEF Index
    <3>2. /\ TermsAt(x, y, k)[j] = x[j] * At(y, k - j) /\ TermsAt(x, y, k)[j] \in Int
          /\ At(y, k - j) \in Int /\ x[j] \in Int
      BY <3>1, TermAt
    <3>3. /\ TermsAt(u, v, k)[j] = u[j] * At(v, k - j) /\ TermsAt(u, v, k)[j] \in Int
          /\ At(v, k - j) \in Int /\ u[j] \in Int
      BY <3>1, TermAt
    <3>4. Congruent(At(y, k - j), At(v, k - j), m)
      <4> DEFINE n == (k - j) % N
      <4>1. n \in Index
        BY <3>1, Halves
      <4>2. /\ Congruent(y[n], v[n], m) /\ y[n] \in Int /\ v[n] \in Int
        BY <4>1, Entries DEF Same
      <4>3. 0 \in Int /\ Congruent(0, 0, m)
        BY CongruenceIsEquivalence
      <4>4. Congruent(0 - y[n], 0 - v[n], m)
        <5> HIDE DEF n
        <5> QED
          BY <4>2, <4>3, CongruentOperations
      <4> QED
        BY <4>2, <4>4 DEF At
    <3>5. Congruent(x[j], u[j], m)
      BY <3>1 DEF Same
    <3>6. Congruent(x[j] * At(y, k - j), u[j] * At(v, k - j), m)
      BY <3>2, <3>3, <3>4, <3>5, CongruentOperations
    <3> QED
      BY <3>2, <3>3, <3>6
  <2>2. Congruent(SumBelow(TermsAt(x, y, k), N), SumBelow(TermsAt(u, v, k), N), m)
    BY <2>1, Degree, BelowCongruent
  <2> QED
    BY <2>2, ProductAt
<1> QED
  BY <1>2, <1>3 DEF Same

-------------------------------------------------------------------------------
(* The ring: automorphisms *)

\* h is the inverse of g.
AreInverse(g, h) == g \in Int /\ h \in Int /\ Congruent(g * h, 1, M)

LEMMA CongruentHalf ==
  ASSUME NEW x \in Int, NEW y \in Int, Congruent(x, y, M) PROVE Congruent(x, y, N)
<1>1. PICK w \in Int : x - y = M * w
  BY DEF Congruent, Divides
<1>2. x - y = N * (2 * w) /\ 2 * w \in Int
  BY <1>1, Degree
<1> QED
  BY <1>2 DEF Congruent, Divides

\* Times g and times h undo each other.
LEMMA InverseTimes ==
  ASSUME NEW g, NEW h, AreInverse(g, h), NEW x \in Int, NEW y \in Int, NEW m \in {N, M},
         Congruent(x, y * h, m)
  PROVE  x * g \in Int /\ y * h \in Int /\ Congruent(x * g, y, m)
<1>1. g \in Int /\ h \in Int /\ Congruent(g * h, 1, m) /\ m \in Int /\ g * h \in Int
  BY Degree, CongruentHalf DEF AreInverse
<1>2. x * g \in Int /\ y * h \in Int /\ (y * h) * g \in Int /\ (y * h) * g = y * (g * h) /\ y * (g * h) \in Int
  BY <1>1
<1>3. Congruent(g, g, m) /\ Congruent(y, y, m)
  BY <1>1, CongruenceIsEquivalence
<1>4. Congruent(x * g, (y * h) * g, m)
  BY <1>1, <1>2, <1>3, CongruentOperations
<1>5. Congruent(y * (g * h), y * 1, m) /\ y * 1 = y
  <2>1. 1 \in Int
    OBVIOUS
  <2>2. Congruent(y * (g * h), y * 1, m)
    BY <1>1, <1>3, <2>1, CongruentOperations
  <2> QED
    BY <2>2
<1> QED
  BY <1>1, <1>2, <1>4, <1>5, CongruenceIsEquivalence

LEMMA InverseSymmetric == ASSUME NEW g, NEW h, AreInverse(g, h) PROVE AreInverse(h, g)
<1>1. g \in Int /\ h \in Int /\ g * h = h * g
  BY DEF AreInverse
<1> QED
  BY <1>1 DEF AreInverse

LEMMA AutomorphismAt ==
  ASSUME NEW x \in IntPoly, NEW g, NEW h, AreInverse(g, h)
  PROVE  /\ Automorphism(x, g) \in IntPoly
         /\ \A k \in Index : k * h \in Int /\ Automorphism(x, g)[k] = At(x, k * h)
<1>0. g \in Int /\ h \in Int
  BY DEF AreInverse
<1>1. ASSUME NEW k \in Index PROVE k * h \in Int /\ Automorphism(x, g)[k] = At(x, k * h)
  <2>1. k \in Int /\ k * h \in Int /\ k \in 0 .. N - 1 /\ k \in 0 .. M - 1
    BY <1>0, Degree DEF Index
  <2> DEFINE n == k * h
             i == n % N
  <2>2. i \in Index /\ i \in Int /\ n \in Int /\ Congruent(i, n, N)
    <3>1. n \in Int
      BY <2>1
    <3> HIDE DEF n
    <3>2. i \in Index /\ Congruent(i, n, N)
      BY <3>1, Halves, Degree, DivisionFacts
    <3> QED
      BY <3>1, <3>2, Degree
  <2>3. (i * g) % N = k
    <3>1. Congruent(i, k * h, N)
      BY <2>2
    <3> HIDE DEF i
    <3>2. i * g \in Int /\ Congruent(i * g, k, N)
      BY <2>1, <2>2, <3>1, InverseTimes
    <3> QED
      BY <2>1, <3>2, Degree, RemainderIs
  <2>4. ASSUME NEW j \in Index, (j * g) % N = k PROVE j = i
    <3>1. j \in Int /\ j * g \in Int /\ j \in 0 .. N - 1
      BY <1>0, Degree DEF Index
    <3>2. Congruent(j * g, k, N)
      <4>1. Congruent((j * g) % N, j * g, N)
        BY <3>1, Degree, DivisionFacts
      <4> QED
        BY <2>1, <2>4, <3>1, <4>1, Degree, CongruenceIsEquivalence
    <3>3. Congruent(k * h, j, N)
      <4>1. Congruent(k, j * g, N)
        BY <2>1, <3>1, <3>2, Degree, CongruenceIsEquivalence
      <4> QED
        BY <2>1, <3>1, <4>1, InverseSymmetric, InverseTimes
    <3>4. n % N = j
      <4> HIDE DEF n
      <4>1. Congruent(n, j, N)
        BY <3>3 DEF n
      <4> QED
        BY <2>2, <3>1, <4>1, Degree, RemainderIs
    <3> QED
      BY <3>4
  <2>5. (CHOOSE j \in Index : (j * g) % N = k) = i
    <3> HIDE DEF i
    <3> QED
      BY <2>2, <2>3, <2>4
  <2>6. Automorphism(x, g)[k] = IF (i * g) % M = k THEN x[i] ELSE -x[i]
    <3> DEFINE found == CHOOSE j \in Index : (j * g) % N = k
    <3>1. Automorphism(x, g)[k] = IF (found * g) % M = k THEN x[found] ELSE -x[found]
      BY DEF Automorphism
    <3> HIDE DEF found
    <3>2. found = i
      BY <2>5 DEF found
    <3> QED
      BY <3>1, <3>2
  <2>7. (i * g) % M = k <=> n % M < N
    <3>1. ASSUME n % M < N PROVE (i * g) % M = k
      <4>1. Congruent(i, k * h, M)
        <5>1. i = n % M
          BY <2>2, <3>1, Halves
        <5>2. Congruent(n % M, n, M)
          BY <2>2, Degree, DivisionFacts
        <5> QED
          BY <5>1, <5>2
      <4> HIDE DEF i
      <4>2. i * g \in Int /\ Congruent(i * g, k, M)
        BY <2>1, <2>2, <4>1, InverseTimes
      <4> QED
        BY <2>1, <4>2, Degree, RemainderIs
    <3>2. ASSUME (i * g) % M = k PROVE n % M < N
      <4> HIDE DEF i
      <4>1. i * g \in Int /\ i \in 0 .. M - 1 /\ i < N
        BY <1>0, <2>2, Degree DEF Index
      <4>2. Congruent(k, i * g, M)
        BY <3>2, <4>1, Degree, DivisionFacts
      <4>3. Congruent(k * h, i, M)
        BY <2>1, <2>2, <4>2, InverseSymmetric, InverseTimes
      <4>4. Congruent(n, i, M)
        BY <4>3
      <4> HIDE DEF n
      <4>5. n % M = i
        BY <2>2, <4>1, <4>4, Degree, RemainderIs
      <4> QED
        BY <4>1, <4>5
    <3> QED
      BY <3>1, <3>2
  <2>8. x[i] \in Int
    <3> HIDE DEF i
    <3> QED
      BY <2>2, Entries
  <2>9. -x[i] = 0 - x[i]
    BY <2>8
  <2> QED
    BY <2>1, <2>6, <2>7, <2>9 DEF At
<1>2. ASSUME NEW k \in Index PROVE Automorphism(x, g)[k] \in Int
  <2> DEFINE n == k * h
  <2>1. n \in Int /\ Automorphism(x, g)[k] = At(x, n)
    BY <1>1
  <2> HIDE DEF n
  <2> QED
    BY <2>1, AtFacts
<1>3. Automorphism(x, g) = [k \in Index |-> Automorphism(x, g)[k]]
  BY DEF Automorphism
<1> QED
  BY <1>1, <1>2, <1>3 DEF IntPoly

\* An inverse is odd.
LEMMA InverseIsOdd ==
  ASSUME NEW g, NEW h, AreInverse(g, h)
  PROVE  h \in Int /\ N * h \in Int /\ Congruent(N * h, N, M)
<1>1. g \in Int /\ h \in Int /\ g * h \in Int
  BY DEF AreInverse
<1>2. PICK w \in Int : g * h - 1 = M * w
  BY DEF AreInverse, Congruent, Divides
<1>3. PICK u \in Int, v \in 0 .. 1 : h = 2 * u + v
  <2>1. h % 2 \in 0 .. 1 /\ h \div 2 \in Int /\ h = 2 * (h \div 2) + (h % 2)
    BY <1>1
  <2> QED
    BY <2>1
<1>4. v = 1
  <2> SUFFICES ASSUME v = 0 PROVE FALSE
    OBVIOUS
  <2>1. g * h = 2 * (g * u) /\ g * u \in Int
    BY <1>1, <1>3
  <2>2. M * w = 2 * (N * w) /\ N * w \in Int
    BY <1>2, Degree
  <2> QED
    BY <1>2, <2>1, <2>2
<1>5. N * h - N = M * u /\ N * h \in Int
  BY <1>1, <1>3, <1>4, Degree
<1> QED
  BY <1>1, <1>5 DEF Congruent, Divides

LEMMA AutomorphismAnywhere ==
  ASSUME NEW x \in IntPoly, NEW g, NEW h, AreInverse(g, h), NEW n \in Int
  PROVE  n * h \in Int /\ At(Automorphism(x, g), n) = At(x, n * h)
<1> DEFINE k == n % N
<1>0. h \in Int /\ n * h \in Int /\ N * h \in Int /\ Congruent(N * h, N, M) /\ Congruent(h, h, M)
  BY Degree, InverseIsOdd, CongruenceIsEquivalence
<1>1. /\ k \in Index /\ k \in Int
      /\ n % M < N => k = n % M
      /\ ~(n % M < N) => k + N = n % M
  <2>1. n % M \in 0 .. M - 1 /\ k \in Index
    BY Halves
  <2>2. k \in Int /\ n % M \in Int
    BY <2>1, Degree
  <2>3. (n % M < N => k = n % M) /\ (~(n % M < N) => k = (n % M) - N)
    BY Halves
  <2> HIDE DEF k
  <2> QED
    BY <2>1, <2>2, <2>3, Degree
<1>2. Congruent(n % M, n, M)
  BY Degree, DivisionFacts
<1>3. Automorphism(x, g)[k] = At(x, k * h) /\ k * h \in Int
  <2> HIDE DEF k
  <2> QED
    BY <1>1, AutomorphismAt
<1> HIDE DEF k
<1>4. CASE n % M < N
  <2>1. Congruent(k, n, M)
    BY <1>1, <1>2, <1>4
  <2>2. Congruent(k * h, n * h, M)
    BY <1>0, <1>1, <2>1, Degree, CongruentOperations
  <2>3. At(x, k * h) = At(x, n * h)
    BY <1>0, <1>3, <2>2, AtPeriod
  <2> QED
    BY <1>0, <1>3, <1>4, <2>3 DEF At, k
<1>5. CASE ~(n % M < N)
  <2>1. Congruent(k + N, n, M) /\ k + N \in Int
    BY <1>1, <1>2, <1>5, Degree
  <2>2. Congruent((k + N) * h, n * h, M) /\ (k + N) * h \in Int
    <3> DEFINE e == k + N
    <3>1. e \in Int /\ Congruent(e, n, M) /\ M \in Int
      BY <2>1, Degree
    <3> HIDE DEF e
    <3>2. Congruent(e * h, n * h, M) /\ e * h \in Int
      BY <1>0, <3>1, CongruentOperations
    <3> QED
      BY <3>2 DEF e
  <2>3. (k + N) * h = k * h + N * h
    BY <1>0, <1>1, Degree
  <2>4. Congruent(k * h + N * h, k * h + N, M) /\ k * h + N * h \in Int /\ k * h + N \in Int
    <3> DEFINE e == k * h
               s == N * h
    <3>1. e \in Int /\ s \in Int /\ Congruent(s, N, M) /\ M \in Int /\ N \in Int
      BY <1>0, <1>3, Degree
    <3> HIDE DEF e, s
    <3>2. Congruent(e, e, M)
      BY <3>1, CongruenceIsEquivalence
    <3>3. Congruent(e + s, e + N, M) /\ e + s \in Int /\ e + N \in Int
      BY <3>1, <3>2, CongruentOperations
    <3> QED
      BY <3>3 DEF e, s
  <2>5. At(x, k * h + N * h) = At(x, n * h) /\ At(x, k * h + N * h) = At(x, k * h + N)
    <3>1. Congruent(k * h + N * h, n * h, M)
      BY <2>2, <2>3
    <3> QED
      BY <1>0, <2>4, <3>1, AtPeriod
  <2>6. At(x, k * h + N) = 0 - At(x, k * h)
    BY <1>3, AtFacts
  <2> QED
    BY <1>0, <1>3, <1>5, <2>5, <2>6 DEF At, k
<1> QED
  BY <1>4, <1>5

\* They respect products.
LEMMA AutomorphismProduct ==
  ASSUME NEW x \in IntPoly, NEW y \in IntPoly, NEW g, NEW h, AreInverse(g, h)
  PROVE  Automorphism(Product(x, y), g) = Product(Automorphism(x, g), Automorphism(y, g))
<1> DEFINE ax == Automorphism(x, g)
           ay == Automorphism(y, g)
<1>0. /\ g \in Int /\ h \in Int /\ ax \in IntPoly /\ ay \in IntPoly /\ Product(x, y) \in IntPoly
      /\ Product(ax, ay) \in IntPoly /\ Automorphism(Product(x, y), g) \in IntPoly
  BY AutomorphismAt, ProductAt DEF AreInverse
<1>1. ASSUME NEW k \in Index
      PROVE  Automorphism(Product(x, y), g)[k] = Product(ax, ay)[k]
  <2> DEFINE w == k * h
             f == TermsAt(x, y, w)
             s == TermsAt(ax, ay, k)
             r == [j \in 0 .. N - 1 |-> (j * h) % N]
             t == [j \in 0 .. N - 1 |-> (j * g) % N]
  <2>1. w \in Int /\ k \in Int
    BY <1>0, Degree
  <2>2. ASSUME NEW j \in 0 .. N - 1
        PROVE  /\ r[j] \in 0 .. N - 1 /\ t[j] \in 0 .. N - 1 /\ t[r[j]] = j /\ r[t[j]] = j
    <3>1. j \in Int /\ j * h \in Int /\ j * g \in Int
      BY <1>0
    <3> DEFINE b == (j * h) % N
               e == (j * g) % N
    <3>2. b \in 0 .. N - 1 /\ e \in 0 .. N - 1 /\ Congruent(b, j * h, N) /\ Congruent(e, j * g, N)
      BY <3>1, Degree, DivisionFacts
    <3>3. r[j] = b /\ t[j] = e
      OBVIOUS
    <3> HIDE DEF b, e
    <3>4. b \in Int /\ e \in Int
      BY <3>2
    <3>5. b * g \in Int /\ Congruent(b * g, j, N)
      BY <3>1, <3>2, <3>4, InverseTimes
    <3>6. e * h \in Int /\ Congruent(e * h, j, N)
      BY <3>1, <3>2, <3>4, InverseSymmetric, InverseTimes
    <3>7. (b * g) % N = j /\ (e * h) % N = j
      BY <3>5, <3>6, Degree, RemainderIs
    <3>8. t[b] = (b * g) % N /\ r[e] = (e * h) % N
      BY <3>2
    <3> QED
      BY <3>2, <3>3, <3>7, <3>8
  <2>3. ASSUME NEW j \in 0 .. N - 1 PROVE f[j] \in Int /\ s[j] = f[r[j]]
    <3>1. j \in Index /\ j \in Int /\ j * h \in Int /\ k - j \in Int
      BY <1>0, <2>1, Degree DEF Index
    <3>2. f[j] \in Int
      BY <2>1, TermAt
    <3>3. s[j] = ax[j] * At(ay, k - j)
      BY <1>0, <2>1, TermAt
    <3> DEFINE n == j * h
               i == n % N
    <3>4. ax[j] = At(x, n)
      BY <3>1, AutomorphismAt
    <3>5. At(ay, k - j) = At(y, w - n) /\ n \in Int /\ w - n \in Int
      <4> DEFINE e == k - j
      <4>1. e * h = w - n /\ w - n \in Int /\ n \in Int
        BY <1>0, <2>1, <3>1
      <4>2. e \in Int
        BY <3>1
      <4> HIDE DEF e, n, w, ax, ay
      <4>3. At(Automorphism(y, g), e) = At(y, e * h)
        BY <4>2, AutomorphismAnywhere
      <4> QED
        BY <4>1, <4>3 DEF e, ay
    <3> HIDE DEF n, w, ax, ay
    <3>6. /\ i \in Index /\ i \in 0 .. N - 1 /\ i \in Int /\ w - i \in Int
          /\ n % M < N => i = n % M
          /\ ~(n % M < N) => i + N = n % M
      <4>1. n % M \in 0 .. M - 1 /\ i \in Index
        BY <3>5, Halves
      <4>2. i \in Int /\ n % M \in Int
        BY <4>1, Degree
      <4>3. (n % M < N => i = n % M) /\ (~(n % M < N) => i = (n % M) - N)
        BY <3>5, Halves
      <4> HIDE DEF i
      <4> QED
        BY <2>1, <4>1, <4>2, <4>3, Degree DEF Index
    <3>7. Congruent(n % M, n, M) /\ Congruent(w, w, M)
      BY <2>1, <3>5, Degree, DivisionFacts, CongruenceIsEquivalence
    <3>8. r[j] = i
      BY DEF n
    <3> HIDE DEF i, r
    <3>9. f[i] = x[i] * At(y, w - i) /\ x[i] \in Int /\ At(y, w - i) \in Int
      BY <2>1, <3>6, TermAt
    <3>10. CASE n % M < N
      <4>1. Congruent(i, n, M)
        BY <3>6, <3>7, <3>10
      <4>2. Congruent(w - i, w - n, M)
        BY <2>1, <3>5, <3>6, <3>7, <4>1, Degree, CongruentOperations
      <4>3. At(y, w - i) = At(y, w - n)
        BY <3>5, <3>6, <4>2, AtPeriod
      <4>4. At(x, n) = x[i]
        BY <3>10 DEF At, i
      <4> QED
        BY <3>2, <3>3, <3>4, <3>5, <3>8, <3>9, <4>3, <4>4
    <3>11. CASE ~(n % M < N)
      <4>1. Congruent(i + N, n, M) /\ i + N \in Int
        BY <3>6, <3>7, <3>11, Degree
      <4>2. Congruent(w - (i + N), w - n, M) /\ w - (i + N) = (w - i) - N /\ (w - i) - N \in Int
        BY <2>1, <3>5, <3>6, <3>7, <4>1, Degree, CongruentOperations
      <4>3. At(y, (w - i) - N) = At(y, w - n)
        BY <3>5, <4>2, AtPeriod
      <4>4. At(y, (w - i) - N) = 0 - At(y, w - i)
        BY <3>6, AtFacts
      <4>5. At(x, n) = 0 - x[i]
        BY <3>11 DEF At, i
      <4> DEFINE u == x[i]
                 v == At(y, w - i)
      <4>6. u \in Int /\ v \in Int /\ s[j] = (0 - u) * (0 - v) /\ f[i] = u * v
        BY <3>3, <3>4, <3>5, <3>9, <4>3, <4>4, <4>5
      <4> HIDE DEF u, v, f, s
      <4>7. (0 - u) * (0 - v) = u * v
        BY <4>6
      <4> QED
        BY <3>2, <3>8, <4>6, <4>7
    <3> QED
      BY <3>10, <3>11
  <2>4. SumBelow(s, N) = SumBelow(f, N)
    <3>1. r = [j \in 0 .. N - 1 |-> r[j]] /\ t = [j \in 0 .. N - 1 |-> t[j]]
      OBVIOUS
    <3> HIDE DEF f, s, r, t
    <3>2. IsReordering(N, f, s, r, t)
      BY <2>2, <2>3, <3>1 DEF IsReordering
    <3> QED
      BY <3>2, Degree, BelowReordered
  <2>5. Product(ax, ay)[k] = SumBelow(s, N)
    BY <1>0, ProductAt
  <2>6. Automorphism(Product(x, y), g)[k] = At(Product(x, y), w)
    BY <1>0, AutomorphismAt
  <2>7. At(Product(x, y), w) = SumBelow(f, N)
    <3> HIDE DEF w
    <3> QED
      BY <2>1, ProductAnywhere
  <2> QED
    BY <2>4, <2>5, <2>6, <2>7
<1> QED
  BY <1>0, <1>1 DEF IntPoly

\* They respect sums, congruences and bounds.
LEMMA AutomorphismFacts ==
  ASSUME NEW x \in IntPoly, NEW y \in IntPoly, NEW g, NEW h, AreInverse(g, h)
  PROVE  /\ \A k \in Index : Automorphism(Plus(x, y), g)[k] = Automorphism(x, g)[k] + Automorphism(y, g)[k]
         /\ \A m \in Int : Same(x, y, m) => Same(Automorphism(x, g), Automorphism(y, g), m)
         /\ \A b \in Int : AreSmall(x, b) => AreSmall(Automorphism(x, g), b)
<1>1. ASSUME NEW k \in Index
      PROVE  \E i \in Index :
               \/ /\ Automorphism(x, g)[k] = x[i] /\ Automorphism(y, g)[k] = y[i]
                  /\ Automorphism(Plus(x, y), g)[k] = Plus(x, y)[i]
               \/ /\ Automorphism(x, g)[k] = 0 - x[i] /\ Automorphism(y, g)[k] = 0 - y[i]
                  /\ Automorphism(Plus(x, y), g)[k] = 0 - Plus(x, y)[i]
  <2> DEFINE n == k * h
  <2>1. Plus(x, y) \in IntPoly
    BY PolyFacts
  <2>2. /\ n \in Int /\ Automorphism(x, g)[k] = At(x, n) /\ Automorphism(y, g)[k] = At(y, n)
        /\ Automorphism(Plus(x, y), g)[k] = At(Plus(x, y), n)
    BY <2>1, AutomorphismAt
  <2> HIDE DEF n
  <2>3. n % N \in Index
    BY <2>2, Halves
  <2> QED
    BY <2>2, <2>3 DEF At
<1>2. ASSUME NEW k \in Index
      PROVE  Automorphism(Plus(x, y), g)[k] = Automorphism(x, g)[k] + Automorphism(y, g)[k]
  <2>1. \A i \in Index : x[i] \in Int /\ y[i] \in Int /\ Plus(x, y)[i] = x[i] + y[i]
    BY PolyFacts
  <2> QED
    BY <1>1, <2>1
<1>3. ASSUME NEW m \in Int, Same(x, y, m) PROVE Same(Automorphism(x, g), Automorphism(y, g), m)
  <2> SUFFICES ASSUME NEW k \in Index PROVE Congruent(Automorphism(x, g)[k], Automorphism(y, g)[k], m)
    BY DEF Same
  <2>1. PICK i \in Index : \/ Automorphism(x, g)[k] = x[i] /\ Automorphism(y, g)[k] = y[i]
                           \/ Automorphism(x, g)[k] = 0 - x[i] /\ Automorphism(y, g)[k] = 0 - y[i]
    BY <1>1
  <2>2. Congruent(x[i], y[i], m) /\ x[i] \in Int /\ y[i] \in Int /\ 0 \in Int /\ Congruent(0, 0, m)
    BY <1>3, Entries, CongruenceIsEquivalence DEF Same
  <2>3. Congruent(0 - x[i], 0 - y[i], m)
    BY <2>2, CongruentOperations
  <2> QED
    BY <2>1, <2>2, <2>3
<1>4. ASSUME NEW b \in Int, AreSmall(x, b) PROVE AreSmall(Automorphism(x, g), b)
  <2> SUFFICES ASSUME NEW k \in Index PROVE Magnitude(Automorphism(x, g)[k]) <= b
    BY DEF AreSmall
  <2>1. PICK i \in Index : Automorphism(x, g)[k] = x[i] \/ Automorphism(x, g)[k] = 0 - x[i]
    BY <1>1
  <2>2. Magnitude(x[i]) <= b /\ x[i] \in Int
    BY <1>4, Entries DEF AreSmall
  <2> DEFINE u == x[i]
  <2>3. Magnitude(u) <= b /\ Magnitude(0 - u) <= b
    <3>1. u \in Int /\ Magnitude(u) <= b
      BY <2>2
    <3> HIDE DEF u
    <3> QED
      BY <3>1, MagnitudeFacts
  <2> QED
    BY <2>1, <2>3
<1> QED
  BY <1>2, <1>3, <1>4

\* The two that the scheme uses have inverses.
LEMMA Inverses ==
  /\ \E h \in Int : AreInverse(Conjugation, h)
  /\ \E h \in Int : AreInverse(Rotation, h)
<1>1. \E h \in Int : AreInverse(Conjugation, h)
  <2> DEFINE g == M - 1
  <2>1. g \in Int /\ g * g \in Int /\ M - 2 \in Int
    BY Degree
  <2>2. g * g - 1 = M * (M - 2)
    BY Degree
  <2>3. AreInverse(g, g)
    BY <2>1, <2>2 DEF AreInverse, Congruent, Divides
  <2> QED
    BY <2>1, <2>3 DEF Conjugation
<1>2. \E h \in Int : AreInverse(Rotation, h)
  <2>1. PICK e \in 0 .. N : N = Pow2[e]
    BY SchemeAssumption
  <2>2. e \in Nat /\ e + 1 \in Nat /\ M = Pow2[e + 1]
    BY <2>1, Degree, Pow2Facts
  <2>3. Congruent(5, 1, 2) /\ 5 \in Int
    <3>1. 5 - 1 = 2 * 2 /\ 2 \in Int
      OBVIOUS
    <3> QED
      BY <3>1 DEF Congruent, Divides
  <2>4. Invertible(5, M)
    BY <2>2, <2>3, OddInvertible
  <2>5. 5 % M \in Int /\ Congruent(5, 5 % M, M)
    <3>1. 5 % M \in Int /\ Congruent(5 % M, 5, M)
      BY <2>3, Degree, DivisionFacts
    <3> QED
      BY <2>3, <3>1, Degree, CongruenceIsEquivalence
  <2>6. Invertible(5 % M, M)
    BY <2>3, <2>4, <2>5, Degree, InvertibleCongruent
  <2> QED
    BY <2>5, <2>6 DEF AreInverse, Invertible, Rotation
<1> QED
  BY <1>1, <1>2

-------------------------------------------------------------------------------
(* Residue polynomials *)

\* The first n residue polynomials of A are those of x for the moduli m; in
\* Stands they are also reduced, and there are no more of them.
Follows(A, x, m, n) == \A i \in 1 .. n : A[i] \in IntPoly /\ Same(A[i], x, m[i])
Reduced(A, m, n) == \A i \in 1 .. n : \A k \in Index : A[i][k] \in 0 .. m[i] - 1
Stands(A, x, m, n) == A \in [1 .. n -> IntPoly] /\ Follows(A, x, m, n) /\ Reduced(A, m, n)

\* All moduli, in the order a key keeps them.
LEMMA Chain ==
  /\ L \in Nat \ {0} /\ K \in Nat \ {0}
  /\ \A i \in 1 .. L + K : modulus(L, i) = Both(L)[i] /\ Both(L)[i] \in Nat \ {0} /\ Both(L)[i] \in Int
  /\ \A i \in 1 .. L : i \in 1 .. L + K /\ Both(L)[i] = q[i]
  /\ \A n \in 1 .. L + K : n \in Nat /\ \A i \in 1 .. n : i \in 1 .. L + K
<1>1. L \in Nat \ {0} /\ K \in Nat \ {0}
  BY Lengths
<1>2. ASSUME NEW i \in 1 .. L + K
      PROVE modulus(L, i) = Both(L)[i] /\ Both(L)[i] \in Nat \ {0} /\ Both(L)[i] \in Int
  <2>1. modulus(L, i) = Both(L)[i]
    BY DEF Both
  <2>2. CASE i <= L
    BY <1>1, <2>1, <2>2, Lengths DEF modulus
  <2>3. CASE ~(i <= L)
    <3>1. i - L \in 1 .. K
      BY <1>1, <2>3
    <3> QED
      BY <2>1, <2>3, <3>1, Lengths DEF modulus
  <2> QED
    BY <2>2, <2>3
<1>3. ASSUME NEW i \in 1 .. L PROVE i \in 1 .. L + K /\ Both(L)[i] = q[i]
  <2>1. i \in 1 .. L + K /\ i <= L
    BY <1>1
  <2> QED
    BY <1>2, <2>1 DEF modulus
<1>4. ASSUME NEW n \in 1 .. L + K PROVE n \in Nat /\ \A i \in 1 .. n : i \in 1 .. L + K
  BY <1>1
<1> QED
  BY <1>1, <1>2, <1>3, <1>4

\* Fewer of the residue polynomials.
LEMMA FollowsLess ==
  ASSUME NEW A, NEW x, NEW m, NEW n \in Nat, Follows(A, x, m, n), NEW j \in Nat, j <= n
  PROVE  Follows(A, x, m, j)
<1>1. \A i \in 1 .. j : i \in 1 .. n
  OBVIOUS
<1> QED
  BY <1>1 DEF Follows

\* The product of residues is a residue of the product.
LEMMA ProductModFacts ==
  ASSUME NEW m \in Nat \ {0}, NEW u \in IntPoly, NEW v \in IntPoly, NEW x \in IntPoly, NEW y \in IntPoly,
         Same(u, x, m), Same(v, y, m)
  PROVE  /\ ProductMod(u, v, m) \in IntPoly /\ Same(ProductMod(u, v, m), Product(x, y), m)
         /\ \A k \in Index : ProductMod(u, v, m)[k] \in 0 .. m - 1
<1> DEFINE a == [k \in Index |-> u[k] % m]
           b == [k \in Index |-> v[k] % m]
           r == Product(a, b)
<1>1. \A k \in Index : /\ a[k] \in Int /\ Congruent(a[k], u[k], m)
                       /\ b[k] \in Int /\ Congruent(b[k], v[k], m)
  BY Entries, DivisionFacts
<1>2. a \in IntPoly /\ b \in IntPoly /\ Same(a, u, m) /\ Same(b, v, m)
  <2>1. a = [k \in Index |-> a[k]] /\ b = [k \in Index |-> b[k]]
    OBVIOUS
  <2> HIDE DEF a, b
  <2> QED
    BY <1>1, <2>1 DEF IntPoly, Same
<1>3. m \in Int
  OBVIOUS
<1> HIDE DEF a, b
<1>4. Same(a, x, m) /\ Same(b, y, m)
  BY <1>2, <1>3, SameIsEquivalence
<1>5. r \in IntPoly /\ Product(x, y) \in IntPoly /\ Same(r, Product(x, y), m)
  BY <1>2, <1>3, <1>4, ProductAt, SameOperations
<1>6. ProductMod(u, v, m) = [k \in Index |-> r[k] % m]
  BY DEF ProductMod, a, b
<1> HIDE DEF r
<1> DEFINE z == ProductMod(u, v, m)
<1>7. ASSUME NEW k \in Index PROVE z[k] \in 0 .. m - 1 /\ z[k] \in Int /\ Congruent(z[k], r[k], m)
  <2>1. z[k] = r[k] % m /\ r[k] \in Int
    BY <1>5, <1>6, Entries
  <2>2. r[k] % m \in 0 .. m - 1 /\ Congruent(r[k] % m, r[k], m)
    BY <2>1, DivisionFacts
  <2> QED
    BY <2>1, <2>2
<1>8. z \in IntPoly /\ Same(z, r, m)
  <2>1. z = [k \in Index |-> z[k]]
    BY <1>6
  <2> HIDE DEF z
  <2> QED
    BY <1>7, <2>1 DEF IntPoly, Same
<1> HIDE DEF z
<1>9. Same(z, Product(x, y), m)
  BY <1>3, <1>5, <1>8, SameIsEquivalence
<1> QED
  BY <1>7, <1>8, <1>9 DEF z

AreCoefficients(A, x, m, n) ==
  /\ A = [i \in 1 .. n |-> [k \in Index |-> A[i][k]]]
  /\ \A i \in 1 .. n : \A k \in Index : /\ m[i] \in Nat \ {0} /\ A[i][k] \in 0 .. m[i] - 1
                                      /\ Congruent(A[i][k], x[k], m[i])

LEMMA ByCoefficient ==
  ASSUME NEW n, NEW m, NEW x, NEW A, AreCoefficients(A, x, m, n)
  PROVE  Stands(A, x, m, n)
<1>1. ASSUME NEW i \in 1 .. n, NEW k \in Index
      PROVE  A[i][k] \in 0 .. m[i] - 1 /\ A[i][k] \in Int /\ Congruent(A[i][k], x[k], m[i])
  <2>1. m[i] \in Nat \ {0} /\ A[i][k] \in 0 .. m[i] - 1 /\ Congruent(A[i][k], x[k], m[i])
    BY DEF AreCoefficients
  <2> DEFINE a == A[i][k]
             b == m[i]
  <2>2. a \in Int
    <3>1. b \in Nat \ {0} /\ a \in 0 .. b - 1
      BY <2>1
    <3> HIDE DEF a, b
    <3> QED
      BY <3>1
  <2> QED
    BY <2>1, <2>2
<1>2. A = [i \in 1 .. n |-> [k \in Index |-> A[i][k]]]
  BY DEF AreCoefficients
<1>3. ASSUME NEW i \in 1 .. n PROVE A[i] \in IntPoly /\ Same(A[i], x, m[i])
  <2>1. A[i] = [k \in Index |-> A[i][k]]
    BY <1>2
  <2>2. A[i] \in IntPoly
    BY <1>1, <2>1 DEF IntPoly
  <2>3. Same(A[i], x, m[i])
    BY <1>1 DEF Same
  <2> QED
    BY <2>2, <2>3
<1>4. A \in [1 .. n -> IntPoly]
  <2>1. A = [i \in 1 .. n |-> A[i]]
    BY <1>2
  <2> QED
    BY <1>3, <2>1
<1>5. Follows(A, x, m, n)
  BY <1>3 DEF Follows
<1>6. Reduced(A, m, n)
  BY <1>1 DEF Reduced
<1> QED
  BY <1>4, <1>5, <1>6 DEF Stands

\* An integer polynomial's residues.
LEMMA FromIntStands ==
  ASSUME NEW x \in IntPoly
  PROVE  /\ Stands(FromIntKey(x), x, Both(L), L + K)
         /\ \A n \in 1 .. L : Stands(FromInt(x, n), x, Both(L), n)
<1>1. ASSUME NEW i \in 1 .. L + K, NEW k \in Index
      PROVE  x[k] % Both(L)[i] \in 0 .. Both(L)[i] - 1 /\ Congruent(x[k] % Both(L)[i], x[k], Both(L)[i])
  BY Entries, Chain, DivisionFacts
<1>2. Stands(FromIntKey(x), x, Both(L), L + K)
  <2> DEFINE A == FromIntKey(x)
  <2>1. A = [i \in 1 .. L + K |-> [k \in Index |-> A[i][k]]]
    BY DEF FromIntKey
  <2>2. \A i \in 1 .. L + K : \A k \in Index : A[i][k] = x[k] % Both(L)[i]
    BY Chain DEF FromIntKey
  <2> HIDE DEF A
  <2>3. AreCoefficients(A, x, Both(L), L + K)
    BY <1>1, <2>1, <2>2, Chain DEF AreCoefficients
  <2> QED
    BY <2>3, ByCoefficient DEF A
<1>3. ASSUME NEW n \in 1 .. L PROVE Stands(FromInt(x, n), x, Both(L), n)
  <2> DEFINE A == FromInt(x, n)
  <2>1. A = [i \in 1 .. n |-> [k \in Index |-> A[i][k]]]
    BY DEF FromInt
  <2>2. n \in Nat /\ \A i \in 1 .. n : i \in 1 .. L /\ i \in 1 .. L + K
    BY Chain
  <2>3. \A i \in 1 .. n : \A k \in Index : A[i][k] = x[k] % Both(L)[i]
    BY <2>2, Chain DEF FromInt
  <2> HIDE DEF A
  <2>4. AreCoefficients(A, x, Both(L), n)
    BY <1>1, <2>1, <2>2, <2>3, Chain DEF AreCoefficients
  <2> QED
    BY <2>4, ByCoefficient DEF A
<1> QED
  BY <1>2, <1>3

\* Sums and differences of residues.
LEMMA SumStands ==
  ASSUME NEW n \in 1 .. L + K, NEW x \in IntPoly, NEW y \in IntPoly, NEW A, NEW B,
         Follows(A, x, Both(L), n), Follows(B, y, Both(L), n)
  PROVE  /\ Stands(addPoly(A, B, n), Plus(x, y), Both(L), n)
         /\ Stands(subPoly(A, B, n), Minus(x, y), Both(L), n)
<1> DEFINE m == Both(L)
<1>1. ASSUME NEW i \in 1 .. n, NEW k \in Index
      PROVE  /\ addMod(A[i][k], B[i][k], m[i]) \in 0 .. m[i] - 1
             /\ Congruent(addMod(A[i][k], B[i][k], m[i]), Plus(x, y)[k], m[i])
             /\ subMod(A[i][k], B[i][k], m[i]) \in 0 .. m[i] - 1
             /\ Congruent(subMod(A[i][k], B[i][k], m[i]), Minus(x, y)[k], m[i])
  <2> DEFINE a == A[i][k]
             b == B[i][k]
             e == m[i]
  <2>1. e \in Nat \ {0} /\ e \in Int
    BY Chain
  <2>2. a \in Int /\ b \in Int /\ Congruent(a, x[k], e) /\ Congruent(b, y[k], e)
    <3>1. A[i] \in IntPoly /\ B[i] \in IntPoly /\ Same(A[i], x, e) /\ Same(B[i], y, e)
      BY DEF Follows
    <3> QED
      BY <3>1, Entries DEF Same
  <2>3. x[k] \in Int /\ y[k] \in Int /\ Plus(x, y)[k] = x[k] + y[k] /\ Minus(x, y)[k] = x[k] - y[k]
    BY PolyFacts
  <2> HIDE DEF a, b, e
  <2>4. Congruent(a + b, x[k] + y[k], e) /\ Congruent(a - b, x[k] - y[k], e)
    BY <2>1, <2>2, <2>3, CongruentOperations
  <2>5. a + b \in Int /\ a - b \in Int /\ x[k] + y[k] \in Int /\ x[k] - y[k] \in Int
    BY <2>2, <2>3
  <2>6. addMod(a, b, e) \in 0 .. e - 1 /\ Congruent(addMod(a, b, e), a + b, e)
    BY <2>1, <2>5, DivisionFacts DEF addMod
  <2>7. subMod(a, b, e) \in 0 .. e - 1 /\ Congruent(subMod(a, b, e), a - b, e)
    BY <2>1, <2>2, SubModFacts
  <2>8. addMod(a, b, e) \in Int /\ subMod(a, b, e) \in Int
    BY <2>1, <2>6, <2>7
  <2>9. Congruent(addMod(a, b, e), x[k] + y[k], e) /\ Congruent(subMod(a, b, e), x[k] - y[k], e)
    BY <2>1, <2>4, <2>5, <2>6, <2>7, <2>8, CongruenceIsEquivalence
  <2> QED
    BY <2>3, <2>6, <2>7, <2>9 DEF a, b, e
<1>2. n \in Nat /\ \A i \in 1 .. n : m[i] \in Nat \ {0} /\ modulus(L, i) = m[i]
  BY Chain
<1>3. Stands(addPoly(A, B, n), Plus(x, y), m, n)
  <2> DEFINE C == addPoly(A, B, n)
  <2>1. C = [i \in 1 .. n |-> [k \in Index |-> C[i][k]]]
    BY DEF addPoly, MapPoly
  <2>2. \A i \in 1 .. n : \A k \in Index : C[i][k] = addMod(A[i][k], B[i][k], m[i])
    BY <1>2 DEF addPoly, MapPoly
  <2> HIDE DEF C, m
  <2>3. AreCoefficients(C, Plus(x, y), m, n)
    BY <1>1, <1>2, <2>1, <2>2 DEF AreCoefficients
  <2> QED
    BY <2>3, ByCoefficient DEF C
<1>4. Stands(subPoly(A, B, n), Minus(x, y), m, n)
  <2> DEFINE C == subPoly(A, B, n)
  <2>1. C = [i \in 1 .. n |-> [k \in Index |-> C[i][k]]]
    BY DEF subPoly, MapPoly
  <2>2. \A i \in 1 .. n : \A k \in Index : C[i][k] = subMod(A[i][k], B[i][k], m[i])
    BY <1>2 DEF subPoly, MapPoly
  <2> HIDE DEF C, m
  <2>3. AreCoefficients(C, Minus(x, y), m, n)
    BY <1>1, <1>2, <2>1, <2>2 DEF AreCoefficients
  <2> QED
    BY <2>3, ByCoefficient DEF C
<1> QED
  BY <1>3, <1>4

\* The negated residues.
LEMMA NegateStands ==
  ASSUME NEW n \in 1 .. L, NEW x \in IntPoly, NEW A, Stands(A, x, Both(L), n)
  PROVE  Stands(negatePoly(A, n), Minus([k \in Index |-> 0], x), Both(L), n)
<1> DEFINE C == negatePoly(A, n)
           z == Minus([k \in Index |-> 0], x)
           m == Both(L)
<1>1. ASSUME NEW i \in 1 .. n, NEW k \in Index
      PROVE  m[i] \in Nat \ {0} /\ C[i][k] \in 0 .. m[i] - 1 /\ Congruent(C[i][k], z[k], m[i])
  <2> DEFINE a == A[i][k]
             e == m[i]
             b == C[i][k]
             y == x[k]
  <2>1. i \in 1 .. L /\ e = q[i] /\ e \in Nat \ {0} /\ e \in Int
    BY Chain
  <2>2. a \in 0 .. e - 1 /\ Congruent(a, y, e) /\ y \in Int
    BY Entries DEF Stands, Follows, Reduced, Same
  <2>3. z[k] = 0 - y
    BY DEF Minus
  <2>4. b = IF a = 0 THEN 0 ELSE e - a
    BY <2>1 DEF negatePoly
  <2> HIDE DEF a, b, e, y
  <2>5. a \in Int /\ b \in 0 .. e - 1 /\ b \in Int
    BY <2>1, <2>2, <2>4
  <2>6. PICK j \in Int : a - y = e * j
    BY <2>2 DEF Congruent, Divides
  <2>7. Congruent(b, 0 - y, e)
    <3>1. CASE a = 0
      <4>1. b - (0 - y) = e * (0 - j) /\ 0 - j \in Int
        BY <2>1, <2>2, <2>4, <2>5, <2>6, <3>1
      <4> QED
        BY <4>1 DEF Congruent, Divides
    <3>2. CASE a # 0
      <4>1. b - (0 - y) = e - (a - y)
        BY <2>1, <2>2, <2>4, <2>5, <3>2
      <4>2. e - e * j = e * (1 - j) /\ 1 - j \in Int
        <5>1. e \in Int /\ j \in Int
          BY <2>1
        <5>2. e * (1 - j) = e * 1 - e * j
          BY <5>1
        <5> QED
          BY <5>1, <5>2
      <4> QED
        BY <2>6, <4>1, <4>2 DEF Congruent, Divides
    <3> QED
      BY <3>1, <3>2
  <2> QED
    BY <2>1, <2>3, <2>5, <2>7 DEF b, e, y
<1>2. C = [i \in 1 .. n |-> [k \in Index |-> C[i][k]]]
  BY DEF negatePoly
<1> HIDE DEF C, z, m
<1>3. AreCoefficients(C, z, m, n)
  BY <1>1, <1>2 DEF AreCoefficients
<1> QED
  BY <1>3, ByCoefficient DEF C, z, m

\* The products of residue polynomials.
LEMMA ProductStands ==
  ASSUME NEW n \in 1 .. L + K, NEW x \in IntPoly, NEW y \in IntPoly, NEW A, NEW B,
         Follows(A, x, Both(L), n), Follows(B, y, Both(L), n)
  PROVE  Stands(mulPoly(A, B, n), Product(x, y), Both(L), n)
<1> DEFINE C == mulPoly(A, B, n)
           m == Both(L)
<1>1. ASSUME NEW i \in 1 .. n
      PROVE  /\ C[i] \in IntPoly /\ Same(C[i], Product(x, y), m[i])
             /\ \A k \in Index : C[i][k] \in 0 .. m[i] - 1
  <2>1. m[i] \in Nat \ {0} /\ modulus(L, i) = m[i]
    BY Chain
  <2>2. C[i] = ProductMod(A[i], B[i], m[i])
    BY <2>1 DEF mulPoly
  <2>3. A[i] \in IntPoly /\ B[i] \in IntPoly /\ Same(A[i], x, m[i]) /\ Same(B[i], y, m[i])
    BY DEF Follows
  <2> HIDE DEF C, m
  <2> QED
    BY <2>1, <2>2, <2>3, ProductModFacts
<1>2. C = [i \in 1 .. n |-> C[i]]
  BY DEF mulPoly
<1> HIDE DEF C, m
<1> QED
  BY <1>1, <1>2 DEF Stands, Follows, Reduced, C, m

LEMMA StandsFacts ==
  ASSUME NEW n \in Nat, NEW x, NEW m, NEW A, Stands(A, x, m, n)
  PROVE  /\ A \in [1 .. n -> IntPoly] /\ \A i \in 1 .. n : A[i] \in IntPoly
         /\ Follows(A, x, m, n)
         /\ \A j \in 1 .. n : Follows(A, x, m, j)
         /\ \A i \in 1 .. n : \A k \in Index : A[i][k] \in 0 .. m[i] - 1
<1>1. Follows(A, x, m, n)
  BY DEF Stands
<1>2. ASSUME NEW j \in 1 .. n PROVE Follows(A, x, m, j)
  <2>1. j \in Nat /\ j <= n
    OBVIOUS
  <2> QED
    BY <1>1, <2>1, FollowsLess
<1> QED
  BY <1>1, <1>2 DEF Stands, Reduced

\* The images of residue polynomials.
LEMMA AutomorphismStands ==
  ASSUME NEW n \in 1 .. L + K, NEW x \in IntPoly, NEW A, Follows(A, x, Both(L), n),
         NEW g, NEW h, AreInverse(g, h)
  PROVE  Stands(AutoPoly(A, g, n), Automorphism(x, g), Both(L), n)
<1> DEFINE C == AutoPoly(A, g, n)
           m == Both(L)
           z == Automorphism(x, g)
<1>1. ASSUME NEW i \in 1 .. n, NEW k \in Index
      PROVE  m[i] \in Nat \ {0} /\ C[i][k] \in 0 .. m[i] - 1 /\ Congruent(C[i][k], z[k], m[i])
  <2> DEFINE e == m[i]
             r == Automorphism(A[i], g)
  <2>1. e \in Nat \ {0} /\ e \in Int /\ modulus(L, i) = e
    BY Chain
  <2>2. A[i] \in IntPoly /\ Same(A[i], x, e)
    BY DEF Follows
  <2>3. C[i][k] = r[k] % e
    BY <2>1 DEF AutoPoly
  <2> HIDE DEF e
  <2>4. r \in IntPoly /\ z \in IntPoly /\ Same(r, z, e)
    BY <2>1, <2>2, AutomorphismAt, AutomorphismFacts
  <2> HIDE DEF r, z
  <2>5. r[k] \in Int /\ z[k] \in Int /\ Congruent(r[k], z[k], e)
    BY <2>4, Entries DEF Same
  <2>6. r[k] % e \in 0 .. e - 1 /\ Congruent(r[k] % e, r[k], e)
    BY <2>1, <2>5, DivisionFacts
  <2> DEFINE b == r[k] % e
  <2>7. b \in 0 .. e - 1 /\ Congruent(b, r[k], e) /\ C[i][k] = b
    BY <2>3, <2>6
  <2> HIDE DEF b
  <2>8. b \in Int
    BY <2>1, <2>7
  <2>9. Congruent(b, z[k], e)
    BY <2>1, <2>5, <2>7, <2>8, CongruenceIsEquivalence
  <2> QED
    BY <2>1, <2>7, <2>9 DEF e
<1>2. C = [i \in 1 .. n |-> [k \in Index |-> C[i][k]]]
  BY DEF AutoPoly
<1> HIDE DEF C, z, m
<1>3. AreCoefficients(C, z, m, n)
  BY <1>1, <1>2 DEF AreCoefficients
<1> QED
  BY <1>3, ByCoefficient DEF C, z, m

-------------------------------------------------------------------------------
(* Conversions of residue polynomials *)

\* The residues of coefficient k.
Residue(A, k) == [i \in DOMAIN A |-> A[i][k]]

LEMMA ResidueFacts ==
  ASSUME NEW n \in Nat, NEW A \in [1 .. n -> IntPoly], NEW k \in Index
  PROVE  /\ Residue(A, k) = [i \in 1 .. n |-> A[i][k]]
         /\ Residue(A, k) \in [1 .. n -> Int] /\ \A i \in 1 .. n : Residue(A, k)[i] = A[i][k]
<1>1. DOMAIN A = 1 .. n /\ \A i \in 1 .. n : A[i] \in IntPoly
  OBVIOUS
<1>2. \A i \in 1 .. n : A[i][k] \in Int
  BY <1>1, Entries
<1> QED
  BY <1>1, <1>2 DEF Residue

\* The moduli of raised residues, and where a key keeps them.
LEMMA RaisedChain ==
  ASSUME NEW l \in 1 .. L
  PROVE  /\ l \in Nat /\ l + K \in Nat
         /\ \A i \in 1 .. l + K : /\ modulus(l, i) = Both(l)[i] /\ Both(l)[i] \in Nat \ {0} /\ Both(l)[i] \in Int
                                 /\ KeyOffset(l, i) \in 1 .. L + K /\ Both(L)[KeyOffset(l, i)] = Both(l)[i]
         /\ \A i \in 1 .. l : /\ i \in 1 .. L /\ i \in 1 .. l + K /\ Both(l)[i] = q[i] /\ Both(L)[i] = q[i]
                             /\ q[i] \in Nat \ {0} /\ q[i] \in Int
         /\ \A j \in 1 .. K : /\ l + j \in 1 .. l + K /\ Both(l)[l + j] = p[j]
                             /\ p[j] \in Nat \ {0} /\ p[j] \in Int
<1>1. l \in Nat /\ L \in Nat /\ K \in Nat /\ l + K \in Nat
  BY Lengths
<1>2. \A i \in 1 .. l : i \in 1 .. L /\ i \in 1 .. l + K /\ Both(l)[i] = q[i]
  BY ModuliInOrder
<1>3. \A j \in 1 .. K : l + j \in 1 .. l + K /\ Both(l)[l + j] = p[j]
  BY ModuliInOrder
<1>4. ASSUME NEW i \in 1 .. l + K
      PROVE  /\ modulus(l, i) = Both(l)[i] /\ Both(l)[i] \in Nat \ {0} /\ Both(l)[i] \in Int
             /\ KeyOffset(l, i) \in 1 .. L + K /\ Both(L)[KeyOffset(l, i)] = Both(l)[i]
  <2>1. CASE i <= l
    <3>1. i \in 1 .. l /\ i \in 1 .. L /\ i \in Nat
      BY <1>1, <2>1
    <3>2. KeyOffset(l, i) = i /\ Both(l)[i] = q[i] /\ Both(L)[i] = q[i] /\ i \in 1 .. L + K
      BY <1>2, <2>1, <3>1, Chain DEF KeyOffset
    <3>3. modulus(l, i) = q[i] /\ q[i] \in Nat \ {0} /\ q[i] \in Int
      BY <2>1, <3>1, Lengths DEF modulus
    <3> QED
      BY <3>2, <3>3
  <2>2. CASE ~(i <= l)
    <3> DEFINE j == i - l
    <3>1. j \in 1 .. K /\ j \in Int /\ i = l + j /\ i - l + L = L + j /\ ~(L + j <= L) /\ L + j - L = j
      BY <1>1, <2>2
    <3>2. KeyOffset(l, i) = L + j /\ modulus(l, i) = p[j]
      BY <2>2, <3>1 DEF KeyOffset, modulus
    <3> HIDE DEF j
    <3>3. L \in 1 .. L
      BY Lengths
    <3>4. L + j \in 1 .. L + K /\ Both(L)[L + j] = p[j]
      BY <3>1, <3>3, ModuliInOrder
    <3>5. Both(l)[i] = p[j] /\ p[j] \in Nat \ {0} /\ p[j] \in Int
      BY <1>3, <3>1, Lengths
    <3> QED
      BY <3>2, <3>4, <3>5
  <2> QED
    BY <2>1, <2>2
<1> QED
  BY <1>1, <1>2, <1>3, <1>4, Chain, Lengths

\* raisePoly: the polynomial that the raised residues stand for.
LEMMA RaiseStands ==
  ASSUME NEW l \in 1 .. L, NEW x \in IntPoly, NEW A, Stands(A, x, Both(L), l)
  PROVE  \E v \in IntPoly : /\ Follows(raisePoly(A, l), v, Both(l), l + K)
                            /\ \A k \in Index : v[k] \in 0 .. l * QProduct[l] - 1
                            /\ Follows(A, v, Both(L), l)
                            /\ \A i \in 1 .. l : Same(v, x, Both(L)[i])
<1> DEFINE U == raisePoly(A, l)
           m == Both(l)
           b == l * QProduct[l] - 1
           OK(k, n) == \A i \in 1 .. l + K : Congruent(n, raise(Residue(A, k), l)[i], m[i])
           v == [k \in Index |-> CHOOSE n \in 0 .. b : OK(k, n)]
<1>1. l \in Nat /\ A \in [1 .. l -> IntPoly] /\ Follows(A, x, Both(L), l)
  BY Chain, StandsFacts
<1>2. ASSUME NEW k \in Index
      PROVE  /\ raise(Residue(A, k), l) \in [1 .. l + K -> Int]
             /\ \A i \in 1 .. l : raise(Residue(A, k), l)[i] = A[i][k]
             /\ \E n \in 0 .. b : OK(k, n)
  <2>1. Residue(A, k) \in [1 .. l -> Int] /\ \A i \in 1 .. l : Residue(A, k)[i] = A[i][k]
    BY <1>1, ResidueFacts
  <2> DEFINE r == Residue(A, k)
  <2> HIDE DEF r
  <2>2. /\ raise(r, l) \in [1 .. l + K -> Int] /\ \A i \in 1 .. l : raise(r, l)[i] = r[i]
        /\ \E X \in 0 .. l * QProduct[l] - 1 :
              \A i \in 1 .. l + K : Congruent(X, raise(r, l)[i], Both(l)[i])
    BY <2>1, RaiseFacts DEF r
  <2> QED
    BY <2>1, <2>2 DEF r
<1>3. U = [i \in 1 .. l + K |-> [k \in Index |-> raise(Residue(A, k), l)[i]]]
  BY DEF raisePoly, Coefficientwise, Residue
<1> HIDE DEF U
<1>4. ASSUME NEW k \in Index PROVE v[k] \in 0 .. b /\ OK(k, v[k])
  <2> HIDE DEF OK, b
  <2> QED
    BY <1>2
<1>5. v \in IntPoly /\ \A k \in Index : v[k] \in Int
  <2>1. b \in Int
    <3>1. QProduct[l] \in Nat
      BY ProductOfBoth
    <3> DEFINE c0 == QProduct[l]
    <3>2. c0 \in Nat
      BY <3>1
    <3> HIDE DEF c0
    <3>3. l * c0 - 1 \in Int
      BY <1>1, <3>2
    <3> QED
      BY <3>3 DEF c0
  <2>2. \A k \in Index : v[k] \in Int
    <3> HIDE DEF v, b
    <3> QED
      BY <1>4, <2>1
  <2>3. v = [k \in Index |-> v[k]]
    OBVIOUS
  <2> HIDE DEF v
  <2> QED
    BY <2>2, <2>3 DEF IntPoly
<1> HIDE DEF v
<1>6. ASSUME NEW i \in 1 .. l + K PROVE U[i] \in IntPoly /\ Same(U[i], v, m[i])
  <2>1. U[i] = [k \in Index |-> raise(Residue(A, k), l)[i]]
    BY <1>3
  <2>2. \A k \in Index : U[i][k] = raise(Residue(A, k), l)[i] /\ U[i][k] \in Int
    BY <1>2, <2>1
  <2>3. U[i] \in IntPoly
    BY <2>1, <2>2 DEF IntPoly
  <2>4. m[i] \in Int
    BY RaisedChain
  <2>5. \A k \in Index : Congruent(v[k], U[i][k], m[i])
    BY <1>4, <2>2
  <2>6. Same(v, U[i], m[i])
    BY <2>5 DEF Same
  <2> HIDE DEF m
  <2> QED
    BY <1>5, <2>3, <2>4, <2>6, SameIsEquivalence
<1>7. ASSUME NEW i \in 1 .. l PROVE A[i] \in IntPoly /\ Same(A[i], v, Both(L)[i]) /\ Same(v, x, Both(L)[i])
  <2>1. i \in 1 .. l + K /\ m[i] = Both(L)[i] /\ Both(L)[i] \in Int
    BY RaisedChain
  <2>2. A[i] \in IntPoly /\ Same(A[i], x, Both(L)[i])
    BY <1>1 DEF Follows
  <2>3. \A k \in Index : Congruent(v[k], A[i][k], m[i])
    BY <1>2, <1>4, <2>1
  <2>4. Same(v, A[i], Both(L)[i])
    BY <2>1, <2>3 DEF Same
  <2> QED
    BY <1>5, <2>1, <2>2, <2>4, SameIsEquivalence
<1> HIDE DEF m
<1>8. Follows(U, v, m, l + K) /\ Follows(A, v, Both(L), l)
  BY <1>6, <1>7 DEF Follows
<1> QED
  BY <1>4, <1>5, <1>7, <1>8 DEF U, m

\* Subtracting Y and dividing by D on residues, where D divides X - Y.
LEMMA ExactQuotient ==
  ASSUME NEW m \in Int, NEW e \in Int, NEW X \in Int, NEW Y \in Int, NEW w \in Int, NEW D \in Int,
         NEW u \in Int, NEW z \in Int,
         X - Y = D * w, Congruent(e, X, m), Congruent(D * u, 1, m), Congruent(z, (e - Y) * u, m)
  PROVE  Congruent(z, w, m)
<1>1. Congruent(Y, Y, m) /\ Congruent(u, u, m)
  BY CongruenceIsEquivalence
<1>2. Congruent(e - Y, X - Y, m) /\ e - Y \in Int /\ X - Y \in Int
  BY <1>1, CongruentOperations
<1> DEFINE a == e - Y
           b == X - Y
<1>3. a \in Int /\ b \in Int /\ Congruent(a, b, m) /\ b = D * w /\ Congruent(z, a * u, m)
  BY <1>2
<1> HIDE DEF a, b
<1>4. Congruent(a * u, b * u, m) /\ a * u \in Int /\ b * u \in Int
  BY <1>1, <1>3, CongruentOperations
<1>5. Congruent((w * D) * u, w, m)
  BY Cancel
<1>6. w * D = b
  BY <1>3
<1> QED
  BY <1>3, <1>4, <1>5, <1>6, CongruenceIsEquivalence

\* What back does to a coefficient, when the residues stand for X.
LEMMA BackCoefficient ==
  ASSUME NEW l \in 1 .. L, NEW r \in [1 .. l + K -> Int], NEW X \in Int,
         \A i \in 1 .. l + K : Congruent(r[i], X, Both(l)[i])
  PROVE  /\ back(r, l) \in [1 .. l -> Int] /\ \A i \in 1 .. l : back(r, l)[i] \in 0 .. q[i] - 1
         /\ \E w \in Int, Y \in Int : /\ Y \in 0 .. K * PProduct - 1 /\ X = PProduct * w + Y
                                      /\ \A i \in 1 .. l : Congruent(back(r, l)[i], w, q[i])
<1>1. /\ back(r, l) \in [1 .. l -> Int] /\ \A i \in 1 .. l : back(r, l)[i] \in 0 .. q[i] - 1
      /\ \E Y \in 0 .. K * PProduct - 1 :
           /\ \A j \in 1 .. K : Congruent(Y, r[l + j], p[j])
           /\ \A i \in 1 .. l : Congruent(back(r, l)[i], (r[i] - Y) * PInvModq[i], q[i])
  BY BackFacts
<1>2. PICK Y \in 0 .. K * PProduct - 1 :
           /\ \A j \in 1 .. K : Congruent(Y, r[l + j], p[j])
           /\ \A i \in 1 .. l : Congruent(back(r, l)[i], (r[i] - Y) * PInvModq[i], q[i])
  BY <1>1
<1>3. PProduct \in Int /\ PProduct \in Nat /\ K \in Nat
  BY ProductOfBoth, Lengths
<1>4. Y \in Int
  <2> DEFINE b == K * PProduct - 1
  <2>1. b \in Int
    BY <1>3
  <2>2. Y \in 0 .. b
    BY <1>2
  <2> HIDE DEF b
  <2> QED
    BY <2>1, <2>2
<1>5. Congruent(X, Y, PProduct)
  <2>1. ASSUME NEW j \in 1 .. K PROVE Congruent(X, Y, p[j])
    <3>1. l + j \in 1 .. l + K /\ Both(l)[l + j] = p[j] /\ p[j] \in Int
      BY RaisedChain
    <3>2. Congruent(r[l + j], X, p[j]) /\ r[l + j] \in Int
      BY <3>1
    <3>3. Congruent(Y, r[l + j], p[j])
      BY <1>2
    <3> QED
      BY <1>4, <3>1, <3>2, <3>3, CongruenceIsEquivalence
  <2> QED
    BY <1>4, <2>1, Systems, ResiduesDetermine DEF PProduct
<1>6. PICK w \in Int : X - Y = PProduct * w
  BY <1>5 DEF Congruent, Divides
<1>7. X = PProduct * w + Y
  <2> DEFINE a == PProduct * w
  <2>1. a \in Int /\ X - Y = a
    BY <1>3, <1>6
  <2> HIDE DEF a
  <2>2. X = a + Y
    BY <1>4, <2>1
  <2> QED
    BY <2>2 DEF a
<1>8. ASSUME NEW i \in 1 .. l PROVE Congruent(back(r, l)[i], w, q[i])
  <2>1. i \in 1 .. L /\ i \in 1 .. l + K /\ Both(l)[i] = q[i] /\ q[i] \in Int
    BY RaisedChain
  <2>2. PInvModq[i] \in Int /\ Congruent(PProduct * PInvModq[i], 1, q[i])
    BY <2>1, FactorFacts
  <2>3. r[i] \in Int /\ Congruent(r[i], X, q[i]) /\ back(r, l)[i] \in Int
    BY <1>1, <2>1
  <2>4. Congruent(back(r, l)[i], (r[i] - Y) * PInvModq[i], q[i])
    BY <1>2
  <2> QED
    BY <1>3, <1>4, <1>6, <2>1, <2>2, <2>3, <2>4, ExactQuotient
<1> QED
  BY <1>1, <1>2, <1>4, <1>7, <1>8

\* What reScale does to a coefficient.
LEMMA ReScaleCoefficient ==
  ASSUME NEW l \in 1 .. L, l > 1, NEW r \in [1 .. l -> Int], NEW X \in Int, r[l] \in 0 .. q[l] - 1,
         \A i \in 1 .. l : Congruent(r[i], X, q[i])
  PROVE  /\ \A i \in 1 .. l - 1 : reScale(r, l)[i] \in 0 .. q[i] - 1
         /\ \E w \in Int, Y \in Int : /\ Y \in 0 .. q[l] - 1 /\ X = q[l] * w + Y
                                      /\ \A i \in 1 .. l - 1 : Congruent(reScale(r, l)[i], w, q[i])
<1> DEFINE Y == r[l]
           D == q[l]
<1>1. l \in Nat /\ l \in 1 .. l /\ D \in Nat \ {0} /\ D \in Int /\ Y \in 0 .. D - 1 /\ Congruent(Y, X, D)
  BY Lengths
<1>2. Y \in Int /\ Y \in Nat
  <2> HIDE DEF Y, D
  <2> QED
    BY <1>1
<1>3. PICK w0 \in Int : Y - X = D * w0
  <2> HIDE DEF Y, D
  <2> QED
    BY <1>1 DEF Congruent, Divides
<1> DEFINE w == 0 - w0
<1>4. w \in Int /\ X - Y = D * w /\ X = D * w + Y
  <2> DEFINE a == D * w0
  <2>1. a \in Int /\ Y - X = a /\ D * w = 0 - a
    <3> HIDE DEF Y, D
    <3> QED
      BY <1>1, <1>3
  <2> HIDE DEF a, Y, D
  <2> QED
    BY <1>2, <2>1
<1>5. ASSUME NEW i \in 1 .. l - 1
      PROVE  reScale(r, l)[i] \in 0 .. q[i] - 1 /\ Congruent(reScale(r, l)[i], w, q[i])
  <2> DEFINE m == q[i]
             e == r[i]
             B == modBarrett(Y, m)
             u == qInvModq[l][i]
             z == reScale(r, l)[i]
  <2>1. i \in 1 .. L /\ i \in 1 .. l /\ l # i
    BY <1>1, Lengths
  <2>2. m \in Nat \ {0} /\ m \in Int /\ m \in Modulus
    BY <2>1, Lengths
  <2>3. u \in Int /\ Congruent(D * u, 1, m)
    BY <2>1, FactorFacts
  <2>4. e \in Int /\ Congruent(e, X, m)
    BY <2>1
  <2>5. B \in Int /\ Congruent(Y, B, m)
    <3>1. B \in Nat /\ Congruent(B, Y, m)
      BY <1>2, <2>2, BarrettFacts
    <3> HIDE DEF B, m, Y
    <3>2. B \in Int
      BY <3>1
    <3> QED
      BY <1>2, <2>2, <3>1, <3>2, CongruenceIsEquivalence
  <2>6. z = mulMod(subMod(e, B, m), u, m)
    BY DEF reScale, LastFactor
  <2> HIDE DEF m, e, B, u, z, Y, D, w
  <2>7. z \in 0 .. m - 1 /\ Congruent(z, (e - Y) * u, m)
    BY <1>2, <2>2, <2>3, <2>4, <2>5, <2>6, SubtractAndScale
  <2>8. z \in Int
    BY <2>2, <2>7
  <2>9. Congruent(z, w, m)
    BY <1>1, <1>2, <1>4, <2>2, <2>3, <2>4, <2>7, <2>8, ExactQuotient
  <2> QED
    BY <2>7, <2>9 DEF z, m
<1> HIDE DEF w
<1> QED
  BY <1>1, <1>2, <1>4, <1>5

\* backPoly: the quotient by P of what the raised residues stand for.
LEMMA BackStands ==
  ASSUME NEW l \in 1 .. L, NEW x \in IntPoly, NEW A \in [1 .. l + K -> IntPoly],
         Follows(A, x, Both(l), l + K)
  PROVE  \E w \in IntPoly, y \in IntPoly :
           /\ Stands(backPoly(A, l), w, Both(L), l)
           /\ \A k \in Index : y[k] \in 0 .. K * PProduct - 1 /\ x[k] = PProduct * w[k] + y[k]
<1> DEFINE C == backPoly(A, l)
           r(k) == Residue(A, k)
           OK(k, n, e) == /\ e \in 0 .. K * PProduct - 1 /\ x[k] = PProduct * n + e
                          /\ \A i \in 1 .. l : Congruent(back(r(k), l)[i], n, q[i])
           Good(k, n) == \E e \in Int : OK(k, n, e)
           w == [k \in Index |-> CHOOSE n \in Int : Good(k, n)]
           y == [k \in Index |-> CHOOSE e \in Int : OK(k, w[k], e)]
<1>1. l \in Nat /\ l + K \in Nat
  BY RaisedChain
<1>2. ASSUME NEW k \in Index
      PROVE  /\ back(r(k), l) \in [1 .. l -> Int] /\ \A i \in 1 .. l : back(r(k), l)[i] \in 0 .. q[i] - 1
             /\ \E n \in Int, e \in Int : OK(k, n, e)
  <2>1. r(k) \in [1 .. l + K -> Int] /\ \A i \in 1 .. l + K : r(k)[i] = A[i][k]
    BY <1>1, ResidueFacts
  <2>2. x[k] \in Int /\ \A i \in 1 .. l + K : Congruent(r(k)[i], x[k], Both(l)[i])
    BY <2>1, Entries DEF Follows, Same
  <2> DEFINE t == r(k)
             X == x[k]
  <2> HIDE DEF t, X
  <2>3. /\ back(t, l) \in [1 .. l -> Int] /\ \A i \in 1 .. l : back(t, l)[i] \in 0 .. q[i] - 1
        /\ \E n \in Int, e \in Int : /\ e \in 0 .. K * PProduct - 1 /\ X = PProduct * n + e
                                     /\ \A i \in 1 .. l : Congruent(back(t, l)[i], n, q[i])
    BY <2>1, <2>2, BackCoefficient DEF t, X
  <2> QED
    BY <2>3 DEF t, X
<1>3. C = [i \in 1 .. l |-> [k \in Index |-> back(r(k), l)[i]]]
  BY DEF backPoly, Coefficientwise, Residue
<1> HIDE DEF C
<1>4. \A k \in Index : w[k] \in Int /\ \E e \in Int : OK(k, w[k], e)
  <2> HIDE DEF OK, r
  <2> QED
    BY <1>2
<1>5. w \in IntPoly
  <2> HIDE DEF Good
  <2>1. w = [k \in Index |-> w[k]]
    OBVIOUS
  <2> HIDE DEF w
  <2> QED
    BY <1>4, <2>1 DEF IntPoly
<1> HIDE DEF w
<1>6. \A k \in Index : y[k] \in Int /\ OK(k, w[k], y[k])
  <2> HIDE DEF OK, r
  <2> QED
    BY <1>4
<1>7. y \in IntPoly
  <2> HIDE DEF OK, r
  <2>1. y = [k \in Index |-> y[k]]
    OBVIOUS
  <2> HIDE DEF y
  <2> QED
    BY <1>6, <2>1 DEF IntPoly
<1> HIDE DEF y
<1>8. ASSUME NEW i \in 1 .. l, NEW k \in Index
      PROVE  /\ Both(L)[i] \in Nat \ {0} /\ C[i][k] \in 0 .. Both(L)[i] - 1
             /\ Congruent(C[i][k], w[k], Both(L)[i])
  <2>1. Both(L)[i] = q[i] /\ q[i] \in Nat \ {0}
    BY RaisedChain
  <2>2. C[i][k] = back(r(k), l)[i]
    BY <1>3
  <2> QED
    BY <1>2, <1>6, <2>1, <2>2
<1>9. C = [i \in 1 .. l |-> [k \in Index |-> C[i][k]]]
  BY <1>3
<1>10. Stands(C, w, Both(L), l)
  <2>1. AreCoefficients(C, w, Both(L), l)
    BY <1>8, <1>9 DEF AreCoefficients
  <2> QED
    BY <2>1, ByCoefficient
<1> QED
  BY <1>5, <1>6, <1>7, <1>10 DEF C

\* The polynomial that is rescaled: the quotient by q[l] of what the residues stand for.
Rescaled(A, l) == [i \in 1 .. l - 1 |-> [k \in Index |-> reScale(Residue(A, k), l)[i]]]

LEMMA ReScaleStands ==
  ASSUME NEW l \in 1 .. L, l > 1, NEW x \in IntPoly, NEW A, Stands(A, x, Both(L), l)
  PROVE  \E w \in IntPoly, y \in IntPoly :
           /\ Stands(Rescaled(A, l), w, Both(L), l - 1)
           /\ \A k \in Index : y[k] \in 0 .. q[l] - 1 /\ x[k] = q[l] * w[k] + y[k]
<1> DEFINE C == Rescaled(A, l)
           r(k) == Residue(A, k)
           OK(k, n, e) == /\ e \in 0 .. q[l] - 1 /\ x[k] = q[l] * n + e
                          /\ \A i \in 1 .. l - 1 : Congruent(reScale(r(k), l)[i], n, q[i])
           Good(k, n) == \E e \in Int : OK(k, n, e)
           w == [k \in Index |-> CHOOSE n \in Int : Good(k, n)]
           y == [k \in Index |-> CHOOSE e \in Int : OK(k, w[k], e)]
<1>1. l \in Nat /\ l \in 1 .. l /\ Both(L)[l] = q[l] /\ A \in [1 .. l -> IntPoly] /\ Follows(A, x, Both(L), l) /\ Reduced(A, Both(L), l)
  BY RaisedChain DEF Stands
<1>2. ASSUME NEW k \in Index
      PROVE  /\ \A i \in 1 .. l - 1 : reScale(r(k), l)[i] \in 0 .. q[i] - 1
             /\ \E n \in Int, e \in Int : OK(k, n, e)
  <2>1. r(k) \in [1 .. l -> Int] /\ \A i \in 1 .. l : r(k)[i] = A[i][k]
    BY <1>1, ResidueFacts
  <2>2. x[k] \in Int /\ \A i \in 1 .. l : Congruent(r(k)[i], x[k], q[i])
    <3> DEFINE t == r(k)
    <3>1. x[k] \in Int /\ \A i \in 1 .. l : t[i] = A[i][k]
      BY <2>1, Entries
    <3> HIDE DEF t
    <3>2. ASSUME NEW i \in 1 .. l PROVE Congruent(t[i], x[k], q[i])
      <4>1. Same(A[i], x, Both(L)[i]) /\ Both(L)[i] = q[i]
        BY <1>1, RaisedChain DEF Follows
      <4>2. Congruent(A[i][k], x[k], q[i])
        BY <4>1 DEF Same
      <4> QED
        BY <3>1, <4>2
    <3> QED
      BY <3>1, <3>2 DEF t
  <2>3. r(k)[l] \in 0 .. q[l] - 1
    BY <1>1, <2>1 DEF Reduced
  <2> DEFINE t == r(k)
             X == x[k]
  <2> HIDE DEF t, X
  <2>4. /\ \A i \in 1 .. l - 1 : reScale(t, l)[i] \in 0 .. q[i] - 1
        /\ \E n \in Int, e \in Int : /\ e \in 0 .. q[l] - 1 /\ X = q[l] * n + e
                                     /\ \A i \in 1 .. l - 1 : Congruent(reScale(t, l)[i], n, q[i])
    BY <2>1, <2>2, <2>3, ReScaleCoefficient DEF t, X
  <2> QED
    BY <2>4 DEF t, X
<1>3. C = [i \in 1 .. l - 1 |-> [k \in Index |-> reScale(r(k), l)[i]]]
  BY DEF Rescaled
<1> HIDE DEF C
<1>4. \A k \in Index : w[k] \in Int /\ \E e \in Int : OK(k, w[k], e)
  <2> HIDE DEF OK, r
  <2> QED
    BY <1>2
<1>5. w \in IntPoly
  <2> HIDE DEF Good
  <2>1. w = [k \in Index |-> w[k]]
    OBVIOUS
  <2> HIDE DEF w
  <2> QED
    BY <1>4, <2>1 DEF IntPoly
<1> HIDE DEF w
<1>6. \A k \in Index : y[k] \in Int /\ OK(k, w[k], y[k])
  <2> HIDE DEF OK, r
  <2> QED
    BY <1>4
<1>7. y \in IntPoly
  <2> HIDE DEF OK, r
  <2>1. y = [k \in Index |-> y[k]]
    OBVIOUS
  <2> HIDE DEF y
  <2> QED
    BY <1>6, <2>1 DEF IntPoly
<1> HIDE DEF y
<1>8. ASSUME NEW i \in 1 .. l - 1, NEW k \in Index
      PROVE  /\ Both(L)[i] \in Nat \ {0} /\ C[i][k] \in 0 .. Both(L)[i] - 1
             /\ Congruent(C[i][k], w[k], Both(L)[i])
  <2>1. Both(L)[i] = q[i] /\ q[i] \in Nat \ {0}
    <3>1. i \in 1 .. l
      BY <1>1
    <3> QED
      BY <3>1, RaisedChain
  <2>2. C[i][k] = reScale(r(k), l)[i]
    BY <1>3
  <2> QED
    BY <1>2, <1>6, <2>1, <2>2
<1>9. C = [i \in 1 .. l - 1 |-> [k \in Index |-> C[i][k]]]
  BY <1>3
<1>10. Stands(C, w, Both(L), l - 1)
  <2>1. AreCoefficients(C, w, Both(L), l - 1)
    BY <1>8, <1>9 DEF AreCoefficients
  <2> QED
    BY <2>1, ByCoefficient
<1> QED
  BY <1>5, <1>6, <1>7, <1>10 DEF C

\* Fewer residues stand for the same polynomial.
Lowered(A, l, dl) == [i \in 1 .. l - dl |-> [k \in Index |-> modDown(Residue(A, k), l, dl)[i]]]

LEMMA ModDownStands ==
  ASSUME NEW l \in 1 .. L, NEW dl \in 1 .. l - 1, NEW x \in IntPoly, NEW A, Stands(A, x, Both(L), l)
  PROVE  Stands(Lowered(A, l, dl), x, Both(L), l - dl)
<1> DEFINE C == Lowered(A, l, dl)
<1>1. l \in Nat /\ \A i \in 1 .. l - dl : i \in 1 .. l
  BY RaisedChain
<1>2. A \in [1 .. l -> IntPoly] /\ Follows(A, x, Both(L), l) /\ Reduced(A, Both(L), l)
  BY DEF Stands
<1>3. C = [i \in 1 .. l - dl |-> [k \in Index |-> A[i][k]]]
  <2>1. C = [i \in 1 .. l - dl |-> [k \in Index |-> modDown(Residue(A, k), l, dl)[i]]]
    BY DEF Lowered
  <2>2. ASSUME NEW k \in Index, NEW i \in 1 .. l - dl PROVE modDown(Residue(A, k), l, dl)[i] = A[i][k]
    <3> DEFINE r == Residue(A, k)
    <3>1. i \in 1 .. l
      BY <1>1
    <3>2. r[i] = A[i][k]
      BY <1>1, <1>2, <3>1, ResidueFacts
    <3>3. r \in [1 .. l -> Int]
      BY <1>1, <1>2, ResidueFacts
    <3> HIDE DEF r
    <3>4. modDown(r, l, dl)[i] = r[i]
      BY <3>3, ModDownValue
    <3> QED
      BY <3>2, <3>4 DEF r
  <2> DEFINE u == [i \in 1 .. l - dl |-> [k \in Index |-> modDown(Residue(A, k), l, dl)[i]]]
             v == [i \in 1 .. l - dl |-> [k \in Index |-> A[i][k]]]
  <2>3. \A i \in 1 .. l - dl : u[i] = v[i]
    BY <2>2
  <2> QED
    BY <2>1, <2>3
<1> HIDE DEF C
<1>4. ASSUME NEW i \in 1 .. l - dl, NEW k \in Index
      PROVE  /\ Both(L)[i] \in Nat \ {0} /\ C[i][k] \in 0 .. Both(L)[i] - 1
             /\ Congruent(C[i][k], x[k], Both(L)[i])
  <2>1. i \in 1 .. l /\ Both(L)[i] \in Nat \ {0}
    BY <1>1, RaisedChain
  <2>2. C[i][k] = A[i][k]
    BY <1>3
  <2> QED
    BY <1>2, <2>1, <2>2 DEF Follows, Reduced, Same
<1>5. C = [i \in 1 .. l - dl |-> [k \in Index |-> C[i][k]]]
  BY <1>3
<1>6. AreCoefficients(C, x, Both(L), l - dl)
  BY <1>4, <1>5 DEF AreCoefficients
<1> QED
  BY <1>6, ByCoefficient DEF C

\* evalAndEqual multiplies by P.
LEMMA TimesPStands ==
  ASSUME NEW x \in IntPoly, NEW A, Stands(A, x, Both(L), L)
  PROVE  Stands(TimesP(A), Times(PProduct, x), Both(L), L)
<1> DEFINE C == TimesP(A)
<1>1. L \in Nat /\ PProduct \in Int /\ A \in [1 .. L -> IntPoly] /\ Follows(A, x, Both(L), L)
  <2>1. L \in 1 .. L
    BY Lengths
  <2> QED
    BY <2>1, Lengths, ProductOfBoth DEF Stands
<1>2. C = [i \in 1 .. L |-> [k \in Index |-> eval(Residue(A, k), L)[i]]]
  BY DEF TimesP, Coefficientwise, Residue
<1> HIDE DEF C
<1>3. ASSUME NEW i \in 1 .. L, NEW k \in Index
      PROVE  /\ Both(L)[i] \in Nat \ {0} /\ C[i][k] \in 0 .. Both(L)[i] - 1
             /\ Congruent(C[i][k], Times(PProduct, x)[k], Both(L)[i])
  <2> DEFINE m == q[i]
             a == A[i][k]
             e == PProduct % m
             b == C[i][k]
             v == x[k]
  <2>1. Both(L)[i] = m /\ m \in Nat \ {0} /\ m \in Int
    BY Chain, Lengths
  <2>2. a \in Int /\ Congruent(a, v, m) /\ v \in Int
    BY <1>1, <2>1, Entries DEF Follows, Same
  <2>3. b = mulMod(a, e, m)
    <3>1. b = eval(Residue(A, k), L)[i]
      BY <1>2
    <3>2. Residue(A, k)[i] = a
      BY <1>1, ResidueFacts
    <3>3. PModq[i] = e
      BY FactorFacts
    <3> QED
      BY <3>1, <3>2, <3>3 DEF eval
  <2>4. Times(PProduct, x)[k] = PProduct * v
    BY <1>1, PolyFacts
  <2> HIDE DEF m, a, b, v
  <2>5. Congruent(v, a, m)
    BY <2>1, <2>2, CongruenceIsEquivalence
  <2>6. mulMod(a, e, m) \in 0 .. m - 1 /\ Congruent(v * PProduct, mulMod(a, e, m), m)
    BY <1>1, <2>1, <2>2, <2>5, MultiplyByResidue
  <2> HIDE DEF e
  <2>7. b \in 0 .. m - 1 /\ Congruent(v * PProduct, b, m) /\ b \in Int
    BY <2>1, <2>3, <2>6
  <2> DEFINE z == v * PProduct
  <2>8. z \in Int /\ z = PProduct * v /\ Congruent(z, b, m)
    BY <1>1, <2>2, <2>7
  <2> HIDE DEF z
  <2>9. Congruent(b, z, m)
    BY <2>1, <2>7, <2>8, CongruenceIsEquivalence
  <2> QED
    BY <2>1, <2>4, <2>7, <2>8, <2>9 DEF b
<1>4. C = [i \in 1 .. L |-> [k \in Index |-> C[i][k]]]
  BY <1>2
<1>5. AreCoefficients(C, Times(PProduct, x), Both(L), L)
  BY <1>3, <1>4 DEF AreCoefficients
<1> QED
  BY <1>5, ByCoefficient DEF C

\* mulKeyPoly: the product of raised residues and a key.
LEMMA KeyProductFollows ==
  ASSUME NEW l \in 1 .. L, NEW x \in IntPoly, NEW y \in IntPoly, NEW A, NEW B,
         Follows(A, x, Both(l), l + K), Follows(B, y, Both(L), L + K)
  PROVE  /\ mulKeyPoly(A, B, l) \in [1 .. l + K -> IntPoly]
         /\ Follows(mulKeyPoly(A, B, l), Product(x, y), Both(l), l + K)
<1> DEFINE C == mulKeyPoly(A, B, l)
           m == Both(l)
<1>1. ASSUME NEW i \in 1 .. l + K
      PROVE  C[i] \in IntPoly /\ Same(C[i], Product(x, y), m[i])
  <2> DEFINE j == KeyOffset(l, i)
  <2>1. modulus(l, i) = m[i] /\ m[i] \in Nat \ {0} /\ j \in 1 .. L + K /\ Both(L)[j] = m[i]
    BY RaisedChain
  <2>2. C[i] = ProductMod(A[i], B[j], m[i])
    BY <2>1 DEF mulKeyPoly
  <2>3. A[i] \in IntPoly /\ Same(A[i], x, m[i])
    BY DEF Follows
  <2> HIDE DEF C, m, j
  <2>4. B[j] \in IntPoly /\ Same(B[j], y, m[i])
    BY <2>1 DEF Follows
  <2> QED
    BY <2>1, <2>2, <2>3, <2>4, ProductModFacts
<1>2. C = [i \in 1 .. l + K |-> C[i]]
  BY DEF mulKeyPoly
<1> HIDE DEF C, m
<1>3. C \in [1 .. l + K -> IntPoly]
  BY <1>1, <1>2
<1>4. Follows(C, Product(x, y), m, l + K)
  BY <1>1 DEF Follows
<1> QED
  BY <1>3, <1>4 DEF C, m

-------------------------------------------------------------------------------
(* Keys *)

\* What SchemeAssumption says of secret, samples and messages.
LEMMA ConstantFacts ==
  /\ secret \in IntPoly /\ AreSmall(secret, 1)
  /\ \A s \in Samples : s.vx \in IntPoly /\ s.axError \in IntPoly /\ s.bxError \in IntPoly
  /\ \A o \in Purpose : Uniform[o] \in IntPoly /\ Gauss[o] \in IntPoly
  /\ Message \subseteq IntPoly /\ Const \subseteq Int /\ Scale \in Nat
  /\ PProduct \in Nat \ {0} /\ PProduct \in Int
<1>1. secret \in [Index -> {-1, 0, 1}]
  BY SchemeAssumption
<1>2. secret \in IntPoly
  BY <1>1 DEF IntPoly
<1>3. \A k \in Index : secret[k] \in {-1, 0, 1}
  BY <1>1
<1>4. AreSmall(secret, 1)
  BY <1>3 DEF AreSmall, Magnitude
<1>5. ASSUME NEW s \in Samples PROVE s.vx \in IntPoly /\ s.axError \in IntPoly /\ s.bxError \in IntPoly
  <2>1. s \in [vx : [Index -> {-1, 0, 1}], axError : IntPoly, bxError : IntPoly]
    BY SchemeAssumption
  <2>2. s.vx \in [Index -> {-1, 0, 1}] /\ s.axError \in IntPoly /\ s.bxError \in IntPoly
    BY <2>1
  <2> QED
    BY <2>2 DEF IntPoly
<1>6. ASSUME NEW o \in Purpose PROVE Uniform[o] \in IntPoly /\ Gauss[o] \in IntPoly
  BY SchemeAssumption DEF IntPoly
<1>7. PProduct \in Nat \ {0} /\ PProduct \in Int
  <2>1. L \in 1 .. L
    BY Lengths
  <2> QED
    BY <2>1, ProductOfBoth
<1> QED
  BY <1>2, <1>4, <1>5, <1>6, <1>7, SchemeAssumption

\* The polynomial that the bx of a key stands for, when it switches from f.
KeyBody(o, f) == Minus(Plus(Gauss[o], Times(PProduct, f)), Product(Uniform[o], secret))

LEMMA KeyBodyFacts ==
  ASSUME NEW o \in Purpose, NEW f \in IntPoly
  PROVE  /\ Times(PProduct, f) \in IntPoly /\ Plus(Gauss[o], Times(PProduct, f)) \in IntPoly
         /\ Product(Uniform[o], secret) \in IntPoly /\ KeyBody(o, f) \in IntPoly
<1>1. /\ secret \in IntPoly /\ Uniform[o] \in IntPoly /\ Gauss[o] \in IntPoly /\ PProduct \in Int
  BY ConstantFacts
<1>2. Times(PProduct, f) \in IntPoly /\ Product(Uniform[o], secret) \in IntPoly
  BY <1>1, PolyFacts, ProductAt
<1>3. Plus(Gauss[o], Times(PProduct, f)) \in IntPoly
  BY <1>1, <1>2, PolyFacts
<1> QED
  BY <1>2, <1>3, PolyFacts DEF KeyBody

\* Modulo a factor of P, P * f is nothing.
LEMMA FactorVanishes ==
  ASSUME NEW m \in Int, NEW h \in Int, PProduct = m * h, NEW e \in IntPoly, NEW f \in IntPoly
  PROVE  Same(e, Plus(e, Times(PProduct, f)), m)
<1>1. PProduct \in Int /\ Times(PProduct, f) \in IntPoly
  BY ConstantFacts, PolyFacts
<1> SUFFICES ASSUME NEW k \in Index PROVE Congruent(e[k], Plus(e, Times(PProduct, f))[k], m)
  BY DEF Same
<1> DEFINE a == e[k]
           b == f[k]
           z == Plus(e, Times(PProduct, f))[k]
<1>2. a \in Int /\ b \in Int /\ z = a + PProduct * b
  BY <1>1, PolyFacts
<1> HIDE DEF a, b, z
<1>3. PProduct * b = m * (h * b) /\ h * b \in Int
  BY <1>2
<1> DEFINE g == h * b
<1>4. g \in Int /\ z = a + m * g
  BY <1>2, <1>3
<1> HIDE DEF g
<1>5. a - z = m * (0 - g) /\ 0 - g \in Int
  <2> DEFINE w == m * g
  <2>1. w \in Int /\ m * (0 - g) = 0 - w
    BY <1>4
  <2> HIDE DEF w
  <2>2. z = a + w
    BY <1>4 DEF w
  <2> QED
    BY <1>2, <1>4, <2>1, <2>2
<1> QED
  BY <1>5 DEF a, z, Congruent, Divides

\* The two halves of a key that switches from f.
LEMMA SwitchKeyFollows ==
  ASSUME NEW o \in Purpose, NEW f \in IntPoly, NEW from, Stands(from, f, Both(L), L)
  PROVE  /\ Follows(SwitchKey(o, from).ax, Uniform[o], Both(L), L + K)
         /\ Follows(SwitchKey(o, from).bx, KeyBody(o, f), Both(L), L + K)
<1> DEFINE ax == FromIntKey(Uniform[o])
           ex == FromIntKey(Gauss[o])
           F == Plus(Gauss[o], Times(PProduct, f))
           T == addPoly(ex, TimesP(from), L)
           tot == [i \in 1 .. L + K |-> IF i <= L THEN T[i] ELSE ex[i]]
           m == Both(L)
<1>0. /\ secret \in IntPoly /\ Uniform[o] \in IntPoly /\ Gauss[o] \in IntPoly
      /\ L \in Nat /\ K \in Nat /\ L \in 1 .. L + K /\ L + K \in 1 .. L + K /\ L + K \in Nat
      /\ Times(PProduct, f) \in IntPoly /\ F \in IntPoly /\ Product(Uniform[o], secret) \in IntPoly
  BY ConstantFacts, KeyBodyFacts, Lengths
<1>1. Follows(ax, Uniform[o], m, L + K) /\ Follows(ex, Gauss[o], m, L + K) /\ Follows(SecretPoly, secret, m, L + K)
  BY <1>0, FromIntStands DEF Stands, SecretPoly
<1>2. SwitchKey(o, from).ax = ax /\ SwitchKey(o, from).bx = subPoly(tot, mulPoly(ax, SecretPoly, L + K), L + K)
  BY DEF SwitchKey
<1>3. Follows(T, F, m, L)
  <2>1. Follows(ex, Gauss[o], m, L)
    <3>1. L <= L + K
      BY <1>0
    <3> QED
      BY <1>0, <1>1, <3>1, FollowsLess
  <2>2. Follows(TimesP(from), Times(PProduct, f), m, L)
    BY TimesPStands DEF Stands
  <2> HIDE DEF ex, m
  <2> QED
    BY <1>0, <2>1, <2>2, SumStands DEF Stands, m
<1>4. ASSUME NEW i \in 1 .. L + K PROVE tot[i] \in IntPoly /\ Same(tot[i], F, m[i])
  <2>1. CASE i <= L
    <3>1. i \in 1 .. L /\ tot[i] = T[i]
      BY <1>0, <2>1
    <3> QED
      BY <1>3, <3>1 DEF Follows
  <2>2. CASE ~(i <= L)
    <3> DEFINE j == i - L
    <3>1. j \in 1 .. K /\ j \in Int /\ i = L + j /\ tot[i] = ex[i] /\ L \in 1 .. L
      BY <1>0, <2>2
    <3>2. m[i] = p[j] /\ p[j] \in Int
      <4> HIDE DEF j
      <4> QED
        BY <3>1, RaisedChain
    <3>3. PProduct = p[j] * HatOf(p, K, j) /\ HatOf(p, K, j) \in Int
      <4>1. HatOf(p, K, j) \in Nat \ {0} /\ PProduct = p[j] * HatOf(p, K, j)
        <5> HIDE DEF j
        <5> QED
          BY <3>1, Systems, HatFacts DEF PProduct
      <4> DEFINE h == HatOf(p, K, j)
      <4>2. h \in Nat \ {0}
        BY <4>1
      <4> HIDE DEF h
      <4>3. h \in Int
        BY <4>2
      <4> QED
        BY <4>1, <4>3 DEF h
    <3>4. Same(Gauss[o], F, m[i])
      <4> DEFINE b == p[j]
                 h == HatOf(p, K, j)
      <4>1. b \in Int /\ h \in Int /\ PProduct = b * h /\ m[i] = b
        BY <3>2, <3>3
      <4> HIDE DEF b, h, m
      <4> QED
        BY <1>0, <4>1, FactorVanishes
    <3>5. ex[i] \in IntPoly /\ Same(ex[i], Gauss[o], m[i])
      BY <1>1 DEF Follows
    <3> HIDE DEF ex, F, m, tot
    <3> QED
      BY <1>0, <3>1, <3>2, <3>4, <3>5, SameIsEquivalence
  <2> QED
    BY <2>1, <2>2
<1>5. Follows(tot, F, m, L + K)
  <2> HIDE DEF tot, F, m
  <2> QED
    BY <1>4 DEF Follows
<1>6. Follows(mulPoly(ax, SecretPoly, L + K), Product(Uniform[o], secret), m, L + K)
  <2> HIDE DEF ax
  <2> QED
    BY <1>0, <1>1, ProductStands DEF Stands
<1> DEFINE G == mulPoly(ax, SecretPoly, L + K)
<1>7. Follows(subPoly(tot, G, L + K), Minus(F, Product(Uniform[o], secret)), m, L + K)
  <2> HIDE DEF tot, G, F
  <2> QED
    BY <1>0, <1>5, <1>6, SumStands DEF Stands, G
<1> QED
  BY <1>1, <1>2, <1>7 DEF KeyBody

\* The key for a purpose switches from f.
IsKeyFor(o, f) == /\ o \in Purpose /\ f \in IntPoly
                  /\ Follows(keyMap[o].ax, Uniform[o], Both(L), L + K)
                  /\ Follows(keyMap[o].bx, KeyBody(o, f), Both(L), L + K)

LEMMA KeysAreRight ==
  /\ IsKeyFor("MULTIPLICATION", Product(secret, secret))
  /\ IsKeyFor("CONJUGATION", Automorphism(secret, Conjugation))
  /\ IsKeyFor("ROTATION", Automorphism(secret, Rotation))
<1>1. /\ secret \in IntPoly /\ L \in Nat /\ L \in 1 .. L + K
      /\ Product(secret, secret) \in IntPoly
      /\ "MULTIPLICATION" \in Purpose /\ "CONJUGATION" \in Purpose /\ "ROTATION" \in Purpose
  BY ConstantFacts, ProductAt, Lengths DEF Purpose
<1>2. Follows(SecretPoly, secret, Both(L), L)
  <2>1. Follows(SecretPoly, secret, Both(L), L + K)
    BY <1>1, FromIntStands DEF SecretPoly, Stands
  <2>2. L <= L + K /\ L + K \in Nat
    BY Lengths
  <2> QED
    BY <1>1, <2>1, <2>2, FollowsLess
<1>3. Stands(mulPoly(SecretPoly, SecretPoly, L), Product(secret, secret), Both(L), L)
  BY <1>1, <1>2, ProductStands
<1>4. ASSUME NEW g \in {Conjugation, Rotation}
      PROVE  Automorphism(secret, g) \in IntPoly /\ Stands(AutoPoly(SecretPoly, g, L), Automorphism(secret, g), Both(L), L)
  <2>1. PICK h \in Int : AreInverse(g, h)
    BY Inverses
  <2> QED
    BY <1>1, <1>2, <2>1, AutomorphismAt, AutomorphismStands
<1>5. /\ keyMap["MULTIPLICATION"] = SwitchKey("MULTIPLICATION", mulPoly(SecretPoly, SecretPoly, L))
      /\ keyMap["CONJUGATION"] = SwitchKey("CONJUGATION", AutoPoly(SecretPoly, Conjugation, L))
      /\ keyMap["ROTATION"] = SwitchKey("ROTATION", AutoPoly(SecretPoly, Rotation, L))
  BY DEF keyMap, addMultKey, addConjKey, addLeftRotKey
<1>6. IsKeyFor("MULTIPLICATION", Product(secret, secret))
  BY <1>1, <1>3, <1>5, SwitchKeyFollows DEF IsKeyFor
<1>7. IsKeyFor("CONJUGATION", Automorphism(secret, Conjugation))
  BY <1>1, <1>4, <1>5, SwitchKeyFollows DEF IsKeyFor
<1>8. IsKeyFor("ROTATION", Automorphism(secret, Rotation))
  BY <1>1, <1>4, <1>5, SwitchKeyFollows DEF IsKeyFor
<1> QED
  BY <1>6, <1>7, <1>8

LEMMA EncryptionKey ==
  /\ Follows(keyMap["ENCRYPTION"].ax, Uniform["ENCRYPTION"], Both(L), L)
  /\ Follows(keyMap["ENCRYPTION"].bx, Minus(Gauss["ENCRYPTION"], Product(Uniform["ENCRYPTION"], secret)), Both(L), L)
<1> DEFINE U == Uniform["ENCRYPTION"]
           E == Gauss["ENCRYPTION"]
           ax == FromIntKey(U)
           ex == FromIntKey(E)
           G == mulPoly(ax, SecretPoly, L)
<1>1. /\ secret \in IntPoly /\ U \in IntPoly /\ E \in IntPoly /\ L \in Nat /\ L \in 1 .. L + K
      /\ L <= L + K /\ L + K \in Nat /\ Product(U, secret) \in IntPoly
  <2>1. "ENCRYPTION" \in Purpose
    BY DEF Purpose
  <2> QED
    BY <2>1, ConstantFacts, ProductAt, Lengths
<1>2. keyMap["ENCRYPTION"].ax = ax /\ keyMap["ENCRYPTION"].bx = subPoly(ex, G, L)
  BY DEF keyMap, addEncKey
<1>3. /\ Follows(SecretPoly, secret, Both(L), L + K) /\ Follows(ax, U, Both(L), L + K)
      /\ Follows(ex, E, Both(L), L + K)
  BY <1>1, FromIntStands DEF SecretPoly, Stands
<1> HIDE DEF U, E, ax, ex, G
<1>4. Follows(SecretPoly, secret, Both(L), L) /\ Follows(ax, U, Both(L), L) /\ Follows(ex, E, Both(L), L)
  BY <1>1, <1>3, FollowsLess
<1>5. Follows(G, Product(U, secret), Both(L), L)
  BY <1>1, <1>4, ProductStands DEF Stands, G
<1>6. Follows(subPoly(ex, G, L), Minus(E, Product(U, secret)), Both(L), L)
  BY <1>1, <1>4, <1>5, SumStands DEF Stands
<1> QED
  BY <1>2, <1>4, <1>6 DEF U, E

-------------------------------------------------------------------------------
(* Key switching *)

\* A number whose multiple by D is at most R + D * b.
LEMMA DividedBound ==
  ASSUME NEW D \in Nat \ {0}, NEW z \in Int, NEW R \in Nat, NEW b \in Nat, NEW a \in Int, a = D * z,
         a <= R + D * b, 0 - a <= R + D * b
  PROVE  Magnitude(z) <= 1 + b + R \div D
<1> DEFINE g == R \div D
           s == R % D
<1>1. g \in Int /\ s \in 0 .. D - 1 /\ R = g * D + s
  BY DivisionFacts
<1> HIDE DEF g, s
<1>2. s \in Int /\ s < D
  BY <1>1
<1>3. ASSUME NEW y \in Int, D * y <= R + D * b PROVE y <= 1 + b + g
  <2> DEFINE x == y - b - g
  <2>1. x \in Int /\ D * x = D * y - D * b - D * g
    <3>1. x \in Int /\ y - b \in Int
      BY <1>1
    <3>2. D * x = D * (y - b) - D * g
      BY <1>1, <3>1
    <3>3. D * (y - b) = D * y - D * b
      OBVIOUS
    <3> QED
      BY <3>1, <3>2, <3>3
  <2>2. D * y \in Int /\ D * b \in Int /\ D * g \in Int /\ g * D = D * g
    BY <1>1
  <2> DEFINE u == D * y
             v == D * b
             w == D * g
  <2>3. u \in Int /\ v \in Int /\ w \in Int /\ D * x = u - v - w /\ R = w + s /\ u <= R + v
    BY <1>1, <1>3, <2>1, <2>2
  <2> HIDE DEF u, v, w
  <2>4. D * x < D
    BY <1>2, <2>3
  <2> HIDE DEF x
  <2>5. x < 1
    <3>1. CASE x < 1
      BY <3>1
    <3>2. CASE x >= 1
      <4>1. D * x >= D * 1
        BY <2>1, <3>2
      <4> QED
        BY <2>1, <2>4, <4>1
    <3> QED
      BY <2>1, <3>1, <3>2
  <2>6. y - b - g < 1
    BY <2>5 DEF x
  <2> QED
    BY <1>1, <2>6
<1>4. z <= 1 + b + g
  BY <1>3
<1>5. 0 - z <= 1 + b + g
  <2>1. D * (0 - z) = 0 - a
    OBVIOUS
  <2> DEFINE y == 0 - z
  <2>2. y \in Int /\ D * y <= R + D * b
    BY <2>1
  <2> HIDE DEF y
  <2>3. y <= 1 + b + g
    BY <1>3, <2>2
  <2> QED
    BY <2>3 DEF y
<1>6. 1 + b + g \in Int
  BY <1>1
<1> QED
  BY <1>1, <1>4, <1>5, <1>6, MagnitudeFacts DEF g

\* w is x divided by D, and y what remains.
AreDivided(x, D, w, y) == \A k \in Index : x[k] = D * w[k] + y[k]

\* v times both halves of a key is divided by D, with the remainders ya and yb.
IsSwitching(v, U, E, f, s, u, w, ya, yb, D) ==
  /\ v \in IntPoly /\ U \in IntPoly /\ E \in IntPoly /\ f \in IntPoly /\ s \in IntPoly /\ u \in IntPoly
  /\ w \in IntPoly /\ ya \in IntPoly /\ yb \in IntPoly /\ D \in Int
  /\ AreDivided(Product(v, U), D, u, ya)
  /\ AreDivided(Product(v, Minus(Plus(E, Times(D, f)), Product(U, s))), D, w, yb)

\* The ring identity behind key switching: V * U and V * B, where B is the
\* body of the key, divided by D with remainders.
LEMMA SwitchIdentity ==
  ASSUME NEW v, NEW U, NEW E, NEW f, NEW s, NEW u, NEW w, NEW ya, NEW yb, NEW D,
         IsSwitching(v, U, E, f, s, u, w, ya, yb, D), NEW k \in Index
  PROVE  /\ (w[k] + Product(u, s)[k]) - Product(v, f)[k] \in Int
         /\ D * ((w[k] + Product(u, s)[k]) - Product(v, f)[k])
              = Product(v, E)[k] - yb[k] - Product(ya, s)[k]
<1> DEFINE F == Times(D, f)
           EF == Plus(E, F)
           Us == Product(U, s)
           VU == Product(v, U)
           B == Minus(EF, Us)
<1>0. /\ v \in IntPoly /\ U \in IntPoly /\ E \in IntPoly /\ f \in IntPoly /\ s \in IntPoly /\ u \in IntPoly
      /\ w \in IntPoly /\ ya \in IntPoly /\ yb \in IntPoly /\ D \in Int
      /\ AreDivided(VU, D, u, ya) /\ AreDivided(Product(v, B), D, w, yb)
  BY DEF IsSwitching
<1>1. F \in IntPoly /\ EF \in IntPoly /\ Us \in IntPoly /\ VU \in IntPoly /\ B \in IntPoly
  <2>1. F \in IntPoly /\ Us \in IntPoly /\ VU \in IntPoly
    BY <1>0, PolyFacts, ProductAt
  <2>2. EF \in IntPoly
    BY <1>0, <2>1, PolyFacts
  <2> QED
    BY <1>0, <2>1, <2>2, PolyFacts
<1>2. Product(v, F)[k] = D * Product(v, f)[k] /\ Product(v, f)[k] \in Int
  BY <1>0, ProductTimes, ProductAt, Entries
<1>3. Product(v, EF)[k] = Product(v, E)[k] + Product(v, F)[k] /\ Product(v, E)[k] \in Int
  <2> HIDE DEF F
  <2> QED
    BY <1>0, <1>1, ProductPlus, ProductAt, Entries
<1>4. Product(v, B)[k] = Product(v, EF)[k] - Product(v, Us)[k] /\ Product(v, Us)[k] \in Int
  <2> HIDE DEF EF, Us
  <2> QED
    BY <1>0, <1>1, ProductPlus, ProductAt, Entries
\* The same with the first half.
<1>5. Product(VU, s)[k] = Product(v, Us)[k]
  BY <1>0, ProductAssociates
<1>6. Product(VU, s)[k] = D * Product(u, s)[k] + Product(ya, s)[k] /\ Product(u, s)[k] \in Int /\ Product(ya, s)[k] \in Int
  <2> DEFINE Du == Times(D, u)
  <2>1. Du \in IntPoly /\ \A j \in Index : Du[j] = D * u[j]
    BY <1>0, PolyFacts
  <2>2. VU = Plus(Du, ya)
    <3>1. \A j \in Index : VU[j] = Du[j] + ya[j]
      BY <1>0, <2>1 DEF AreDivided
    <3>2. VU = [j \in Index |-> VU[j]]
      BY <1>0, <1>1 DEF IntPoly
    <3> HIDE DEF VU, Du
    <3> QED
      BY <1>0, <3>1, <3>2 DEF Plus
  <2>3. Product(Du, s)[k] = D * Product(u, s)[k]
    BY <1>0, ProductTimes
  <2> HIDE DEF Du, VU
  <2>4. Product(Plus(Du, ya), s)[k] = Product(Du, s)[k] + Product(ya, s)[k]
    BY <1>0, <2>1, ProductPlus
  <2>5. Product(u, s)[k] \in Int /\ Product(ya, s)[k] \in Int
    BY <1>0, ProductAt, Entries
  <2> QED
    BY <1>0, <2>2, <2>3, <2>4, <2>5
<1>7. Product(v, B)[k] = D * w[k] + yb[k] /\ w[k] \in Int /\ yb[k] \in Int
  BY <1>0, Entries DEF AreDivided
<1> DEFINE a == Product(v, E)[k]
           b == Product(v, f)[k]
           g == Product(u, s)[k]
           h == w[k]
           r == Product(ya, s)[k]
<1>8. /\ a \in Int /\ b \in Int /\ g \in Int /\ h \in Int /\ r \in Int /\ yb[k] \in Int
      /\ D * h + yb[k] = a + D * b - (D * g + r)
  BY <1>0, <1>2, <1>3, <1>4, <1>5, <1>6, <1>7
<1> HIDE DEF a, b, g, h, r
<1> DEFINE t == h + g
           x1 == D * h
           x2 == D * g
           x3 == D * b
<1>9. t \in Int /\ D * t = x1 + x2 /\ x1 \in Int /\ x2 \in Int /\ x3 \in Int
  BY <1>0, <1>8
<1>10. D * (t - b) = D * t - x3 /\ t - b \in Int
  <2> HIDE DEF t
  <2> QED
    BY <1>0, <1>8, <1>9
<1>11. x1 + yb[k] = a + x3 - (x2 + r)
  BY <1>0, <1>8
<1>12. D * (t - b) = x1 + x2 - x3
  BY <1>0, <1>9, <1>10
<1>13. x1 + x2 - x3 = a - yb[k] - r
  <2>1. a \in Int /\ r \in Int /\ yb[k] \in Int
    BY <1>0, <1>8
  <2> DEFINE y == yb[k]
  <2>2. y \in Int /\ x1 + y = a + x3 - (x2 + r) /\ x1 \in Int /\ x2 \in Int /\ x3 \in Int
    BY <1>0, <1>9, <1>11, <2>1
  <2> HIDE DEF x1, x2, x3, y
  <2>3. x1 + x2 - x3 = a - y - r
    BY <1>0, <2>1, <2>2
  <2> QED
    BY <1>0, <2>3 DEF y
<1>14. D * (t - b) = a - yb[k] - r
  <2> HIDE DEF x1, x2, x3, t
  <2> QED
    BY <1>0, <1>12, <1>13
<1>15. t - b \in Int
  BY <1>0, <1>10
<1> QED
  BY <1>0, <1>14, <1>15 DEF a, b, g, h, r

\* Magnitudes add up.
LEMMA MagnitudeOfSum ==
  ASSUME NEW x \in Int, NEW y \in Int, NEW a \in Int, NEW b \in Int, Magnitude(x) <= a, Magnitude(y) <= b
  PROVE  Magnitude(x + y) <= a + b /\ Magnitude(x - y) <= a + b /\ Magnitude(0 - x) <= a
<1>1. x <= a /\ 0 - a <= x /\ y <= b /\ 0 - b <= y
  BY MagnitudeFacts
<1> QED
  BY <1>1 DEF Magnitude

\* How far the quotients are from each other: the bound of SwitchNoise.
LEMMA SwitchBound ==
  ASSUME NEW l \in 1 .. L, NEW o \in Purpose, NEW v \in IntPoly, NEW ya \in IntPoly, NEW yb \in IntPoly,
         NEW z \in IntPoly,
         \A k \in Index : v[k] \in 0 .. l * QProduct[l] - 1,
         \A k \in Index : ya[k] \in 0 .. K * PProduct - 1,
         \A k \in Index : yb[k] \in 0 .. K * PProduct - 1,
         \A k \in Index : PProduct * z[k] = Product(v, Gauss[o])[k] - yb[k] - Product(ya, secret)[k]
  PROVE  SwitchNoise(o, l) \in Nat /\ AreSmall(z, SwitchNoise(o, l))
<1> DEFINE Q == QProduct[l]
           P == PProduct
           E == Gauss[o]
           S == Norm(secret)
           n == Norm(E)
           R == (l * n) * Q
           b == K * (1 + S)
           KP == K * P
           lQ == l * Q
<1>1. /\ secret \in IntPoly /\ E \in IntPoly /\ P \in Nat \ {0} /\ P \in Int /\ K \in Nat /\ l \in Nat
      /\ Q \in Nat /\ S \in Nat /\ n \in Nat
  BY ConstantFacts, ProductOfBoth, Lengths, NormFacts
<1> HIDE DEF Q, P, E, S, n
<1>2. KP \in Nat /\ lQ \in Nat /\ l * n \in Nat /\ K * P = P * K
  BY <1>1
<1>3. R \in Nat /\ b \in Nat /\ R = lQ * n /\ P * b = KP * (1 + S)
  <2>1. R \in Nat /\ b \in Nat
    <3> DEFINE a == l * n
               e == 1 + S
    <3>1. a \in Nat /\ e \in Nat
      BY <1>1, <1>2
    <3> HIDE DEF a, e
    <3>2. a * Q \in Nat /\ K * e \in Nat
      BY <1>1, <3>1
    <3> QED
      BY <3>2 DEF a, e
  <2>2. R = lQ * n
    BY <1>1
  <2>3. P * b = KP * (1 + S)
    <3> DEFINE e == 1 + S
    <3>1. e \in Nat
      BY <1>1
    <3> HIDE DEF e
    <3>2. P * (K * e) = (K * P) * e
      BY <1>1, <3>1
    <3> QED
      BY <3>2 DEF e
  <2> QED
    BY <2>1, <2>2, <2>3
<1>4. SwitchNoise(o, l) = 1 + b + R \div P /\ R \div P \in Int /\ R \div P >= 0
  <2>1. SwitchNoise(o, l) = 1 + b + R \div P
    BY DEF SwitchNoise, Rounding, Q, P, E, S, n
  <2>2. R \div P \in Nat
    <3> HIDE DEF R
    <3> QED
      BY <1>1, <1>3, DivMod
  <2> QED
    BY <2>1, <2>2
<1>5. AreSmall(v, lQ) /\ AreSmall(ya, KP) /\ AreSmall(yb, KP)
  <2>1. \A k \in Index : v[k] \in 0 .. lQ - 1 /\ ya[k] \in 0 .. KP - 1 /\ yb[k] \in 0 .. KP - 1
    BY DEF Q, P
  <2> HIDE DEF lQ, KP
  <2> QED
    BY <1>2, <2>1 DEF AreSmall, Magnitude
<1> HIDE DEF lQ, KP, R, b
<1>6. AreSmall(Product(v, E), lQ * n) /\ AreSmall(Product(ya, secret), KP * S)
  <2>1. AreSmall(Product(E, v), lQ * n) /\ AreSmall(Product(secret, ya), KP * S)
    BY <1>1, <1>2, <1>5, ProductIsSmall DEF n, S
  <2> QED
    BY <1>1, <2>1, ProductCommutes
<1>7. ASSUME NEW k \in Index PROVE Magnitude(z[k]) <= 1 + b + R \div P
  <2> DEFINE x1 == Product(v, E)[k]
             x2 == yb[k]
             x3 == Product(ya, secret)[k]
             a == P * z[k]
             D == KP * S
  <2>1. x1 \in Int /\ x2 \in Int /\ x3 \in Int /\ z[k] \in Int
    <3>1. Product(v, E) \in IntPoly /\ Product(ya, secret) \in IntPoly
      BY <1>1, ProductAt
    <3> QED
      BY <3>1, Entries
  <2>2. Magnitude(x1) <= R /\ Magnitude(x2) <= KP /\ Magnitude(x3) <= D
    BY <1>3, <1>5, <1>6 DEF AreSmall
  <2>3. a = x1 - x2 - x3 /\ a \in Int
    BY <1>1, <2>1 DEF P, E
  <2>4. D \in Nat /\ P * b = KP + D
    <3>1. D \in Nat
      BY <1>1, <1>2
    <3>2. KP * (1 + S) = KP + KP * S
      BY <1>1, <1>2
    <3> QED
      BY <1>3, <3>1, <3>2
  <2> DEFINE g == P * b
  <2> HIDE DEF x1, x2, x3, a, D
  <2>5. Magnitude(x1 - x2) <= R + KP
    BY <1>2, <1>3, <2>1, <2>2, MagnitudeOfSum
  <2>6. Magnitude(x1 - x2 - x3) <= R + KP + D
    <3> DEFINE y == x1 - x2
               e == R + KP
    <3>1. y \in Int /\ e \in Int /\ Magnitude(y) <= e /\ D \in Int
      BY <1>2, <1>3, <2>1, <2>4, <2>5
    <3> HIDE DEF y, e
    <3>2. Magnitude(y - x3) <= e + D
      BY <2>1, <2>2, <3>1, MagnitudeOfSum
    <3> QED
      BY <3>2 DEF y, e
  <2>7. g \in Int /\ g = KP + D
    BY <1>2, <2>4
  <2> HIDE DEF g
  <2>8. a <= R + g /\ 0 - a <= R + g
    <3>1. R + KP + D \in Int /\ R + KP + D = R + g
      BY <1>2, <1>3, <2>4, <2>7
    <3> QED
      BY <2>3, <2>6, <3>1, MagnitudeFacts
  <2> QED
    BY <1>1, <1>3, <2>1, <2>3, <2>8, DividedBound DEF a, g
<1>8. 1 + b + R \div P \in Nat
  BY <1>3, <1>4
<1> QED
  BY <1>4, <1>7, <1>8 DEF AreSmall

\* Adding a multiple of the moduli changes nothing.
LEMMA FollowsSame ==
  ASSUME NEW n \in 1 .. L, NEW x \in IntPoly, NEW y \in IntPoly, NEW A,
         Stands(A, x, Both(L), n), \A i \in 1 .. n : Same(x, y, Both(L)[i])
  PROVE  Stands(A, y, Both(L), n)
<1>1. A \in [1 .. n -> IntPoly] /\ Reduced(A, Both(L), n)
  BY DEF Stands
<1>2. ASSUME NEW i \in 1 .. n PROVE A[i] \in IntPoly /\ Same(A[i], y, Both(L)[i])
  <2>1. A[i] \in IntPoly /\ Same(A[i], x, Both(L)[i]) /\ Same(x, y, Both(L)[i])
    BY DEF Stands, Follows
  <2>2. Both(L)[i] \in Int
    BY RaisedChain
  <2> QED
    BY <2>1, <2>2, SameIsEquivalence
<1> QED
  BY <1>1, <1>2 DEF Stands, Follows

\* Key switching (raise, mulKey, back) of x with a key that switches from f
\* yields polynomials w and u with w + u * secret = x * f, up to noise that
\* SwitchNoise bounds, although raise is inexact and back rounds.
THEOREM KeySwitchIsRight ==
  ASSUME NEW l \in 1 .. L, NEW o, NEW f, IsKeyFor(o, f), NEW x \in IntPoly, NEW A, Stands(A, x, Both(L), l)
  PROVE  /\ SwitchNoise(o, l) \in Nat
         /\ \E u, w, z \in IntPoly :
              /\ Stands(KeySwitch(A, o, l).ax, u, Both(L), l) /\ Stands(KeySwitch(A, o, l).bx, w, Both(L), l)
              /\ AreSmall(z, SwitchNoise(o, l))
              /\ \A k \in Index : w[k] + Product(u, secret)[k] = Product(x, f)[k] + z[k]
<1> DEFINE up == raisePoly(A, l)
           key == keyMap[o]
           P == PProduct
           B == KeyBody(o, f)
           U == Uniform[o]
           E == Gauss[o]
           ax == mulKeyPoly(up, key.ax, l)
           bx == mulKeyPoly(up, key.bx, l)
<1>1. /\ o \in Purpose /\ f \in IntPoly /\ secret \in IntPoly /\ U \in IntPoly /\ E \in IntPoly
      /\ P \in Nat \ {0} /\ P \in Int /\ B \in IntPoly
      /\ Follows(key.ax, U, Both(L), L + K) /\ Follows(key.bx, B, Both(L), L + K)
  BY ConstantFacts, KeyBodyFacts DEF IsKeyFor
<1>2. PICK v \in IntPoly : /\ Follows(up, v, Both(l), l + K)
                           /\ \A k \in Index : v[k] \in 0 .. l * QProduct[l] - 1
                           /\ Follows(A, v, Both(L), l)
                           /\ \A i \in 1 .. l : Same(v, x, Both(L)[i])
  BY RaiseStands
<1>3. KeySwitch(A, o, l).ax = backPoly(ax, l) /\ KeySwitch(A, o, l).bx = backPoly(bx, l)
  BY DEF KeySwitch
<1>4. /\ Product(v, U) \in IntPoly /\ Product(v, B) \in IntPoly
      /\ ax \in [1 .. l + K -> IntPoly] /\ Follows(ax, Product(v, U), Both(l), l + K)
      /\ bx \in [1 .. l + K -> IntPoly] /\ Follows(bx, Product(v, B), Both(l), l + K)
  <2> HIDE DEF up, key, U, B
  <2> QED
    BY <1>1, <1>2, KeyProductFollows, ProductAt
<1> HIDE DEF ax, bx, up, key
<1>5. PICK u \in IntPoly, ya \in IntPoly :
           /\ Stands(backPoly(ax, l), u, Both(L), l)
           /\ \A k \in Index : ya[k] \in 0 .. K * P - 1 /\ Product(v, U)[k] = P * u[k] + ya[k]
  BY <1>4, BackStands
<1>6. PICK w \in IntPoly, yb \in IntPoly :
           /\ Stands(backPoly(bx, l), w, Both(L), l)
           /\ \A k \in Index : yb[k] \in 0 .. K * P - 1 /\ Product(v, B)[k] = P * w[k] + yb[k]
  <2> DEFINE vB == Product(v, B)
  <2>1. vB \in IntPoly /\ bx \in [1 .. l + K -> IntPoly] /\ Follows(bx, vB, Both(l), l + K)
    BY <1>4
  <2> HIDE DEF vB
  <2>2. \E w \in IntPoly, yb \in IntPoly :
           /\ Stands(backPoly(bx, l), w, Both(L), l)
           /\ \A k \in Index : yb[k] \in 0 .. K * P - 1 /\ vB[k] = P * w[k] + yb[k]
    BY <2>1, BackStands
  <2> QED
    BY <2>2 DEF vB
<1> DEFINE us == Product(u, secret)
           vf == Product(v, f)
           z == Minus(Plus(w, us), vf)
<1>7. us \in IntPoly /\ vf \in IntPoly /\ z \in IntPoly /\ \A k \in Index : z[k] = (w[k] + us[k]) - vf[k]
  <2>1. us \in IntPoly /\ vf \in IntPoly
    BY <1>1, ProductAt
  <2> HIDE DEF us, vf
  <2>2. Plus(w, us) \in IntPoly /\ \A k \in Index : Plus(w, us)[k] = w[k] + us[k]
    BY <2>1, PolyFacts
  <2> QED
    BY <2>1, <2>2, PolyFacts
<1>8. ASSUME NEW k \in Index PROVE P * z[k] = Product(v, E)[k] - yb[k] - Product(ya, secret)[k]
  <2>1. AreDivided(Product(v, Minus(Plus(E, Times(P, f)), Product(U, secret))), P, w, yb)
    BY <1>6 DEF KeyBody, AreDivided
  <2>2. P * ((w[k] + Product(u, secret)[k]) - Product(v, f)[k])
              = Product(v, E)[k] - yb[k] - Product(ya, secret)[k]
    <3>1. AreDivided(Product(v, U), P, u, ya)
      BY <1>5 DEF AreDivided
    <3>2. v \in IntPoly /\ u \in IntPoly /\ ya \in IntPoly /\ w \in IntPoly /\ yb \in IntPoly
      BY <1>2, <1>5, <1>6
    <3> HIDE DEF P, U, E
    <3>3. IsSwitching(v, U, E, f, secret, u, w, ya, yb, P)
      BY <1>1, <2>1, <3>1, <3>2 DEF IsSwitching
    <3>4. /\ (w[k] + Product(u, secret)[k]) - Product(v, f)[k] \in Int
          /\ P * ((w[k] + Product(u, secret)[k]) - Product(v, f)[k])
              = Product(v, E)[k] - yb[k] - Product(ya, secret)[k]
      BY <3>3, SwitchIdentity
    <3> QED
      BY <3>4
  <2>3. z[k] = (w[k] + Product(u, secret)[k]) - Product(v, f)[k]
    BY <1>7
  <2> QED
    BY <2>2, <2>3
<1>9. SwitchNoise(o, l) \in Nat /\ AreSmall(z, SwitchNoise(o, l))
  <2>1. \A k \in Index : v[k] \in 0 .. l * QProduct[l] - 1
    BY <1>2
  <2>2. \A k \in Index : ya[k] \in 0 .. K * PProduct - 1
    BY <1>5
  <2>3. \A k \in Index : yb[k] \in 0 .. K * PProduct - 1
    BY <1>6
  <2>4. z \in IntPoly
    BY <1>7
  <2> HIDE DEF z
  <2>5. \A k \in Index : PProduct * z[k] = Product(v, Gauss[o])[k] - yb[k] - Product(ya, secret)[k]
    BY <1>8
  <2> QED
    BY <1>1, <2>1, <2>2, <2>3, <2>4, <2>5, SwitchBound
\* Back from the raised polynomial v to x, which has the same residues modulo q.
<1> DEFINE xv == Minus(x, v)
           g == Product(xv, f)
           w1 == Plus(w, g)
<1>10. xv \in IntPoly /\ g \in IntPoly /\ w1 \in IntPoly /\ Product(x, f) \in IntPoly
  <2>1. xv \in IntPoly /\ Product(x, f) \in IntPoly
    BY <1>1, PolyFacts, ProductAt
  <2>2. g \in IntPoly
    <3> HIDE DEF xv
    <3> QED
      BY <1>1, <2>1, ProductAt
  <2> HIDE DEF xv, g
  <2> QED
    BY <2>1, <2>2, PolyFacts
<1>11. Stands(backPoly(bx, l), w1, Both(L), l)
  <2>1. ASSUME NEW i \in 1 .. l PROVE Same(w, w1, Both(L)[i])
    <3> DEFINE m == Both(L)[i]
               zero == [k \in Index |-> 0]
    <3>1. m \in Int /\ Same(v, x, m)
      BY <1>2, RaisedChain
    <3> HIDE DEF m
    <3>2. ASSUME NEW k \in Index PROVE Congruent(w[k], w1[k], m)
      <4>1. Same(x, x, m) /\ Same(Product(x, f), Product(v, f), m)
        <5>1. Same(x, v, m) /\ Same(f, f, m) /\ Same(x, x, m)
          BY <1>1, <3>1, SameIsEquivalence
        <5> QED
          BY <1>1, <3>1, <5>1, SameOperations
      <4>2. g[k] = Product(x, f)[k] - Product(v, f)[k]
        BY <1>1, ProductPlus
      <4> DEFINE a == Product(x, f)[k]
                 b == Product(v, f)[k]
      <4>3. a \in Int /\ b \in Int /\ w[k] \in Int /\ Congruent(a, b, m) /\ g[k] = a - b
        BY <1>7, <1>10, <4>1, <4>2, Entries DEF Same
      <4>4. w1[k] = w[k] + g[k]
        <5> HIDE DEF g
        <5> QED
          BY <1>10, PolyFacts
      <4> HIDE DEF a, b, g, w1
      <4>5. PICK j \in Int : a - b = m * j
        BY <4>3 DEF Congruent, Divides
      <4>6. w[k] - w1[k] = m * (0 - j) /\ 0 - j \in Int
        <5> DEFINE e == m * j
        <5>1. e \in Int /\ m * (0 - j) = 0 - e /\ a - b = e
          BY <3>1, <4>5
        <5> HIDE DEF e
        <5> QED
          BY <4>3, <4>4, <5>1
      <4> QED
        BY <4>6 DEF Congruent, Divides
    <3> QED
      BY <3>2 DEF Same, m
  <2> HIDE DEF w1
  <2> QED
    BY <1>6, <1>10, <2>1, FollowsSame
<1>12. ASSUME NEW k \in Index PROVE w1[k] + us[k] = Product(x, f)[k] + z[k]
  <2>1. g[k] = Product(x, f)[k] - vf[k]
    BY <1>1, ProductPlus
  <2>2. w1[k] = w[k] + g[k]
    <3> HIDE DEF g
    <3> QED
      BY <1>10, PolyFacts
  <2>3. z[k] = (w[k] + us[k]) - vf[k]
    BY <1>7
  <2>4. Product(x, f)[k] \in Int /\ vf[k] \in Int /\ w[k] \in Int /\ us[k] \in Int
    BY <1>7, <1>10, Entries
  <2> HIDE DEF us, vf, z, g, w1
  <2> QED
    BY <2>1, <2>2, <2>3, <2>4
<1>13. /\ Stands(KeySwitch(A, o, l).ax, u, Both(L), l) /\ Stands(KeySwitch(A, o, l).bx, w1, Both(L), l)
       /\ \A k \in Index : w1[k] + Product(u, secret)[k] = Product(x, f)[k] + z[k]
  BY <1>3, <1>5, <1>11, <1>12
<1> HIDE DEF w1, z
<1> QED
  BY <1>7, <1>9, <1>10, <1>13

-------------------------------------------------------------------------------
(* Sound ciphertexts *)

\* The residues AX and BX are those of a and b, and b + a * secret is t up to
\* the small e.
Encrypts(AX, BX, l, t, err, a, b, e) ==
  /\ l \in 1 .. L /\ t \in IntPoly /\ err \in Nat
  /\ a \in IntPoly /\ b \in IntPoly /\ e \in IntPoly
  /\ Stands(AX, a, Both(L), l) /\ Stands(BX, b, Both(L), l)
  /\ AreSmall(e, err)
  /\ \A k \in Index : b[k] + Product(a, secret)[k] = t[k] + e[k]

\* What every ciphertext keeps.
Sound(x) == /\ \E a, b, e \in IntPoly : Encrypts(x.ax, x.bx, x.l, x.t, x.err, a, b, e)
            /\ x.fits => Fits(x.t, x.err, x.l)

LEMMA SoundFacts ==
  ASSUME NEW x, Sound(x)
  PROVE  /\ x.l \in 1 .. L /\ x.t \in IntPoly /\ x.err \in Nat /\ x.l \in 1 .. L + K /\ x.l \in Nat
         /\ \E a, b, e \in IntPoly : Encrypts(x.ax, x.bx, x.l, x.t, x.err, a, b, e)
<1>1. PICK a, b, e \in IntPoly : Encrypts(x.ax, x.bx, x.l, x.t, x.err, a, b, e)
  BY DEF Sound
<1>2. x.l \in 1 .. L /\ x.t \in IntPoly /\ x.err \in Nat
  BY <1>1 DEF Encrypts
<1> QED
  BY <1>1, <1>2, RaisedChain, Chain

LEMMA CipherIsSound ==
  ASSUME NEW AX, NEW BX, NEW l, NEW t, NEW err, NEW fits, NEW a, NEW b, NEW e,
         Encrypts(AX, BX, l, t, err, a, b, e)
  PROVE  Sound(Cipher(AX, BX, l, t, err, fits)) /\ Cipher(AX, BX, l, t, err, fits).l = l
<1> DEFINE x == Cipher(AX, BX, l, t, err, fits)
<1>1. x.ax = AX /\ x.bx = BX /\ x.l = l /\ x.t = t /\ x.err = err /\ x.fits = (fits /\ Fits(t, err, l))
  BY DEF Cipher
<1> HIDE DEF x
<1>2. a \in IntPoly /\ b \in IntPoly /\ e \in IntPoly
  BY DEF Encrypts
<1>3. Sound(x)
  BY <1>1, <1>2 DEF Sound
<1> QED
  BY <1>1, <1>3 DEF x

\* Sums and differences of ciphertexts, at the level of the first one.
LEMMA AddIsSound ==
  ASSUME NEW x, NEW y, Sound(x), Sound(y), x.l <= y.l
  PROVE  /\ Sound(add2(x, y)) /\ add2(x, y).l = x.l
         /\ Sound(sub2(x, y)) /\ sub2(x, y).l = x.l
<1> DEFINE l == x.l
<1>1. PICK a1, b1, e1 \in IntPoly : Encrypts(x.ax, x.bx, l, x.t, x.err, a1, b1, e1)
  BY SoundFacts
<1>2. PICK a2, b2, e2 \in IntPoly : Encrypts(y.ax, y.bx, y.l, y.t, y.err, a2, b2, e2)
  BY SoundFacts
<1> DEFINE AX == x.ax
           BX == x.bx
           AY == y.ax
           BY0 == y.bx
           t1 == x.t
           t2 == y.t
           r1 == x.err
           r2 == y.err
<1>3. /\ l \in 1 .. L /\ l \in 1 .. L + K
      /\ t1 \in IntPoly /\ t2 \in IntPoly /\ r1 \in Nat /\ r2 \in Nat
      /\ a1 \in IntPoly /\ a2 \in IntPoly /\ b1 \in IntPoly /\ b2 \in IntPoly /\ e1 \in IntPoly /\ e2 \in IntPoly
      /\ Follows(AX, a1, Both(L), l) /\ Follows(BX, b1, Both(L), l)
      /\ Follows(AY, a2, Both(L), l) /\ Follows(BY0, b2, Both(L), l)
      /\ AreSmall(e1, r1) /\ AreSmall(e2, r2)
      /\ \A k \in Index : /\ b1[k] + Product(a1, secret)[k] = t1[k] + e1[k]
                          /\ b2[k] + Product(a2, secret)[k] = t2[k] + e2[k]
  <2>1. l \in Nat /\ y.l \in Nat /\ l <= y.l
    BY SoundFacts
  <2>2. Follows(AY, a2, Both(L), y.l) /\ Follows(BY0, b2, Both(L), y.l)
    BY <1>2 DEF Encrypts, Stands
  <2>3. Follows(AY, a2, Both(L), l) /\ Follows(BY0, b2, Both(L), l)
    <3> HIDE DEF l, AY, BY0
    <3> QED
      BY <2>1, <2>2, FollowsLess
  <2> QED
    BY <1>1, <1>2, <2>3, Chain DEF Encrypts, Stands
<1>4. secret \in IntPoly
  BY ConstantFacts
<1> HIDE DEF l, AX, BX, AY, BY0, t1, t2, r1, r2
<1>5. ASSUME NEW k \in Index
      PROVE  /\ Product(a1, secret)[k] \in Int /\ Product(a2, secret)[k] \in Int
             /\ a1[k] \in Int /\ a2[k] \in Int /\ b1[k] \in Int /\ b2[k] \in Int
             /\ e1[k] \in Int /\ e2[k] \in Int /\ t1[k] \in Int /\ t2[k] \in Int
             /\ Magnitude(e1[k]) <= r1 /\ Magnitude(e2[k]) <= r2
  BY <1>3, <1>4, Entries, ProductAt DEF AreSmall
<1>6. r1 + r2 \in Nat
  BY <1>3
<1>7. Sound(add2(x, y)) /\ add2(x, y).l = l
  <2> DEFINE a == Plus(a1, a2)
             b == Plus(b1, b2)
             e == Plus(e1, e2)
             t == Plus(t1, t2)
             CX == addPoly(AX, AY, l)
             DX == addPoly(BX, BY0, l)
  <2>1. a \in IntPoly /\ b \in IntPoly /\ e \in IntPoly /\ t \in IntPoly
    BY <1>3, PolyFacts
  <2>2. Stands(CX, a, Both(L), l) /\ Stands(DX, b, Both(L), l)
    BY <1>3, SumStands
  <2>3. ASSUME NEW k \in Index
        PROVE  /\ b[k] + Product(a, secret)[k] = t[k] + e[k] /\ Magnitude(e[k]) <= r1 + r2
    <3>1. Product(a, secret)[k] = Product(a1, secret)[k] + Product(a2, secret)[k]
      BY <1>3, <1>4, ProductPlus
    <3>2. b[k] = b1[k] + b2[k] /\ e[k] = e1[k] + e2[k] /\ t[k] = t1[k] + t2[k]
      BY <1>3, PolyFacts
    <3>3. Magnitude(e1[k] + e2[k]) <= r1 + r2
      <4>1. /\ e1[k] \in Int /\ e2[k] \in Int /\ r1 \in Int /\ r2 \in Int
            /\ Magnitude(e1[k]) <= r1 /\ Magnitude(e2[k]) <= r2
        BY <1>3, <1>5
      <4> QED
        BY <4>1, MagnitudeOfSum
    <3> HIDE DEF a, b, e, t
    <3> QED
      BY <1>3, <1>5, <3>1, <3>2, <3>3
  <2> HIDE DEF a, b, e, t, CX, DX
  <2>4. Encrypts(CX, DX, l, t, r1 + r2, a, b, e)
    BY <1>3, <1>6, <2>1, <2>2, <2>3 DEF Encrypts, AreSmall
  <2>5. add2(x, y) = Cipher(CX, DX, l, t, r1 + r2, x.fits /\ y.fits)
    BY DEF add2, CX, DX, AX, BX, AY, BY0, l, t, t1, t2, r1, r2
  <2> QED
    BY <2>4, <2>5, CipherIsSound
<1>8. Sound(sub2(x, y)) /\ sub2(x, y).l = l
  <2> DEFINE a == Minus(a1, a2)
             b == Minus(b1, b2)
             e == Minus(e1, e2)
             t == Minus(t1, t2)
             CX == subPoly(AX, AY, l)
             DX == subPoly(BX, BY0, l)
  <2>1. a \in IntPoly /\ b \in IntPoly /\ e \in IntPoly /\ t \in IntPoly
    BY <1>3, PolyFacts
  <2>2. Stands(CX, a, Both(L), l) /\ Stands(DX, b, Both(L), l)
    BY <1>3, SumStands
  <2>3. ASSUME NEW k \in Index
        PROVE  /\ b[k] + Product(a, secret)[k] = t[k] + e[k] /\ Magnitude(e[k]) <= r1 + r2
    <3>1. Product(a, secret)[k] = Product(a1, secret)[k] - Product(a2, secret)[k]
      BY <1>3, <1>4, ProductPlus
    <3>2. b[k] = b1[k] - b2[k] /\ e[k] = e1[k] - e2[k] /\ t[k] = t1[k] - t2[k]
      BY <1>3, PolyFacts
    <3>3. Magnitude(e1[k] - e2[k]) <= r1 + r2
      <4>1. /\ e1[k] \in Int /\ e2[k] \in Int /\ r1 \in Int /\ r2 \in Int
            /\ Magnitude(e1[k]) <= r1 /\ Magnitude(e2[k]) <= r2
        BY <1>3, <1>5
      <4> QED
        BY <4>1, MagnitudeOfSum
    <3> HIDE DEF a, b, e, t
    <3> QED
      BY <1>3, <1>5, <3>1, <3>2, <3>3
  <2> HIDE DEF a, b, e, t, CX, DX
  <2>4. Encrypts(CX, DX, l, t, r1 + r2, a, b, e)
    BY <1>3, <1>6, <2>1, <2>2, <2>3 DEF Encrypts, AreSmall
  <2>5. sub2(x, y) = Cipher(CX, DX, l, t, r1 + r2, x.fits /\ y.fits)
    BY DEF sub2, CX, DX, AX, BX, AY, BY0, l, t, t1, t2, r1, r2
  <2> QED
    BY <2>4, <2>5, CipherIsSound
<1> QED
  BY <1>7, <1>8 DEF l

\* A ciphertext times an integer.
LEMMA ScaledEncrypts ==
  ASSUME NEW AX, NEW BX, NEW l, NEW t, NEW err, NEW a, NEW b, NEW e, NEW n \in Int, NEW CX, NEW DX, NEW r \in Nat,
         NEW AZ, NEW BZ, Encrypts(AZ, BZ, l, t, err, a, b, e), r = err * Magnitude(n),
         Stands(CX, Times(n, a), Both(L), l), Stands(DX, Times(n, b), Both(L), l)
  PROVE  Encrypts(CX, DX, l, Times(n, t), r, Times(n, a), Times(n, b), Times(n, e))
<1>1. /\ l \in 1 .. L /\ t \in IntPoly /\ err \in Nat /\ a \in IntPoly /\ b \in IntPoly /\ e \in IntPoly
      /\ AreSmall(e, err) /\ secret \in IntPoly
      /\ \A k \in Index : b[k] + Product(a, secret)[k] = t[k] + e[k]
  BY ConstantFacts DEF Encrypts
<1>2. Times(n, t) \in IntPoly /\ Times(n, a) \in IntPoly /\ Times(n, b) \in IntPoly /\ Times(n, e) \in IntPoly
  BY <1>1, PolyFacts
<1>3. ASSUME NEW k \in Index
      PROVE  /\ Times(n, b)[k] + Product(Times(n, a), secret)[k] = Times(n, t)[k] + Times(n, e)[k]
             /\ Magnitude(Times(n, e)[k]) <= r
  <2> DEFINE x1 == b[k]
             x2 == Product(a, secret)[k]
             x3 == t[k]
             x4 == e[k]
  <2>1. /\ x1 \in Int /\ x2 \in Int /\ x3 \in Int /\ x4 \in Int /\ x1 + x2 = x3 + x4
        /\ Magnitude(x4) <= err
    BY <1>1, Entries, ProductAt DEF AreSmall
  <2>2. /\ Times(n, b)[k] = n * x1 /\ Product(Times(n, a), secret)[k] = n * x2
        /\ Times(n, t)[k] = n * x3 /\ Times(n, e)[k] = n * x4
    <3>1. Times(n, b)[k] = n * x1 /\ Times(n, t)[k] = n * x3 /\ Times(n, e)[k] = n * x4
      BY DEF Times
    <3>2. a \in IntPoly /\ secret \in IntPoly
      BY <1>1
    <3>3. Product(Times(n, a), secret)[k] = n * x2
      BY <3>2, ProductTimes
    <3> QED
      BY <3>1, <3>3
  <2> HIDE DEF x1, x2, x3, x4
  <2>3. n * x1 + n * x2 = n * (x1 + x2) /\ n * x3 + n * x4 = n * (x3 + x4)
    BY <2>1
  <2>4. Magnitude(n * x4) <= err * Magnitude(n)
    BY <1>1, <2>1, MagnitudeOfProduct
  <2> QED
    BY <2>1, <2>2, <2>3, <2>4
<1>4. AreSmall(Times(n, e), r)
  BY <1>3 DEF AreSmall
<1> QED
  BY <1>1, <1>2, <1>3, <1>4 DEF Encrypts

LEMMA NegativeIsTimes ==
  ASSUME NEW x \in IntPoly
  PROVE  Minus([k \in Index |-> 0], x) = Times(0 - 1, x)
<1>1. \A k \in Index : 0 - x[k] = (0 - 1) * x[k]
  BY Entries
<1> QED
  BY <1>1 DEF Minus, Times

\* negate1: every residue that is not 0 from its modulus.
LEMMA NegateIsSound ==
  ASSUME NEW x, Sound(x)
  PROVE  Sound(negate1(x)) /\ negate1(x).l = x.l
<1> DEFINE n == 0 - 1
           AX == x.ax
           BX == x.bx
           l == x.l
           t == x.t
           r == x.err
           CX == negatePoly(AX, l)
           DX == negatePoly(BX, l)
<1>1. PICK a, b, e \in IntPoly : Encrypts(AX, BX, l, t, r, a, b, e)
  BY SoundFacts
<1>2. l \in 1 .. L /\ t \in IntPoly /\ r \in Nat /\ Stands(AX, a, Both(L), l) /\ Stands(BX, b, Both(L), l)
  BY <1>1 DEF Encrypts
<1>3. n \in Int /\ Magnitude(n) = 1
  <2>1. n \in Int /\ n <= 1 /\ 0 - 1 <= n /\ ~(0 - 0 <= n) /\ 1 \in Int /\ 0 \in Int
    OBVIOUS
  <2> HIDE DEF n
  <2>2. Magnitude(n) \in Nat /\ Magnitude(n) <= 1 /\ ~(Magnitude(n) <= 0)
    BY <2>1, MagnitudeFacts
  <2> QED
    BY <2>1, <2>2
<1>4. Stands(CX, Times(n, a), Both(L), l) /\ Stands(DX, Times(n, b), Both(L), l)
  <2> HIDE DEF AX, BX, l
  <2>1. Stands(CX, Minus([k \in Index |-> 0], a), Both(L), l) /\ Stands(DX, Minus([k \in Index |-> 0], b), Both(L), l)
    BY <1>1, <1>2, NegateStands
  <2> QED
    BY <1>1, <2>1, NegativeIsTimes
<1>5. [k \in Index |-> -t[k]] = Times(n, t)
  <2>1. \A k \in Index : -t[k] = (0 - 1) * t[k]
    BY <1>2, Entries
  <2> QED
    BY <2>1 DEF Times
<1>6. negate1(x) = Cipher(CX, DX, l, Times(n, t), r, x.fits)
  BY <1>5 DEF negate1
<1>7. r = r * Magnitude(n)
  BY <1>2, <1>3
<1> HIDE DEF n, AX, BX, l, t, r, CX, DX
<1>8. Encrypts(CX, DX, l, Times(n, t), r, Times(n, a), Times(n, b), Times(n, e))
  BY <1>1, <1>2, <1>3, <1>4, <1>7, ScaledEncrypts
<1> QED
  BY <1>6, <1>8, CipherIsSound DEF l

\* The polynomial m, constant.
Constant(m) == [j \in Index |-> IF j = 0 THEN m ELSE 0]

LEMMA ConstantFactsOf ==
  ASSUME NEW x \in IntPoly, NEW m \in Int
  PROVE  /\ Constant(m) \in IntPoly
         /\ Product(x, Constant(m)) = Times(m, x)
<1> DEFINE g == Constant(m)
<1>1. g \in IntPoly /\ g[0] = m /\ \A j \in Index : j # 0 => g[j] = 0
  BY Degree DEF Constant, IntPoly
<1> HIDE DEF g
<1>2. ASSUME NEW k \in Index PROVE Product(g, x)[k] = m * x[k]
  <2> DEFINE f == TermsAt(g, x, k)
  <2>1. k \in Int /\ N \in Nat /\ 0 \in 0 .. N - 1
    BY Degree
  <2>2. ASSUME NEW j \in 0 .. N - 1, j # 0 PROVE f[j] = 0
    <3>1. f[j] = g[j] * At(x, k - j) /\ At(x, k - j) \in Int
      BY <1>1, <2>1, TermAt
    <3>2. g[j] = 0
      BY <1>1, <2>2 DEF Index
    <3> DEFINE w == At(x, k - j)
    <3>3. 0 * w = 0
      BY <3>1
    <3> QED
      BY <3>1, <3>2, <3>3
  <2>3. f[0] = m * x[k] /\ f[0] \in Int
    <3> DEFINE z == 0
    <3>1. z \in 0 .. N - 1 /\ z = 0 /\ k - z = k
      BY <2>1
    <3> HIDE DEF z
    <3>2. f[z] = g[z] * At(x, k - z) /\ f[z] \in Int
      BY <1>1, <2>1, <3>1, TermAt
    <3>3. At(x, k) = x[k]
      BY <2>1, AtFacts
    <3> HIDE DEF f
    <3> QED
      BY <1>1, <3>1, <3>2, <3>3
  <2> HIDE DEF f
  <2>4. SumBelow(f, N) = f[0]
    BY <2>1, <2>2, <2>3, BelowSingle
  <2>5. Product(g, x)[k] = SumBelow(f, N)
    BY <1>1, ProductAt DEF f
  <2> QED
    BY <2>3, <2>4, <2>5
<1>3. Product(g, x) = Times(m, x)
  <2>1. Product(g, x) = [k \in Index |-> Product(g, x)[k]]
    BY DEF Product
  <2> QED
    BY <1>2, <2>1 DEF Times
<1>4. Product(x, g) = Product(g, x)
  BY <1>1, ProductCommutes
<1> QED
  BY <1>1, <1>3, <1>4 DEF g

\* abs(cnst) * p and its sign.
LEMMA ConstFacts ==
  ASSUME NEW n \in Const
  PROVE  /\ n \in Int /\ Magnitude(n) \in Nat /\ Magnitude(n) * Scale \in Nat /\ n * Scale \in Int
         /\ Magnitude(n * Scale) = Magnitude(n) * Scale
         /\ ~(n < 0) => n * Scale = Magnitude(n) * Scale
         /\ n < 0 => n * Scale = 0 - Magnitude(n) * Scale
<1> DEFINE g == Magnitude(n)
<1>1. n \in Int /\ Scale \in Nat
  BY ConstantFacts
<1>2. g \in Nat
  BY <1>1, MagnitudeFacts
<1>3. (~(n < 0) => n = g) /\ (n < 0 => n = 0 - g)
  BY <1>1 DEF Magnitude
<1> HIDE DEF g
<1> DEFINE m == g * Scale
           s == n * Scale
<1>4. m \in Nat /\ s \in Int
  BY <1>1, <1>2
<1>5. ~(n < 0) => s = m
  BY <1>3
<1>6. n < 0 => s = 0 - m
  <2> SUFFICES ASSUME n < 0 PROVE s = 0 - m
    OBVIOUS
  <2>1. (0 - g) * Scale = 0 - g * Scale
    BY <1>1, <1>2
  <2> QED
    BY <1>3, <2>1
<1> HIDE DEF m, s
<1>7. Magnitude(s) = m
  BY <1>1, <1>4, <1>5, <1>6 DEF Magnitude
<1> QED
  BY <1>1, <1>2, <1>4, <1>5, <1>6, <1>7 DEF m, s, g

LEMMA MultByConstIsSound ==
  ASSUME NEW x, Sound(x), NEW n \in Const
  PROVE  Sound(multByConst(x, n)) /\ multByConst(x, n).l = x.l
<1> DEFINE AX == x.ax
           BX == x.bx
           l == x.l
           t == x.t
           r == x.err
           m == Magnitude(n) * Scale
           s == n * Scale
           k == FromInt(Constant(m), l)
           sign(A) == IF n < 0 THEN negatePoly(A, l) ELSE A
           CX == sign(mulPoly(AX, k, l))
           DX == sign(mulPoly(BX, k, l))
<1>1. PICK a, b, e \in IntPoly : Encrypts(AX, BX, l, t, r, a, b, e)
  BY SoundFacts
<1>2. /\ l \in 1 .. L /\ l \in 1 .. L + K /\ t \in IntPoly /\ r \in Nat
      /\ Follows(AX, a, Both(L), l) /\ Follows(BX, b, Both(L), l)
  BY <1>1, Chain DEF Encrypts, Stands
<1>3. /\ n \in Int /\ m \in Nat /\ m \in Int /\ s \in Int /\ Magnitude(s) = m
      /\ (~(n < 0) => s = m) /\ (n < 0 => s = 0 - m)
  BY ConstFacts
<1>4. multByConst(x, n) = Cipher(CX, DX, l, Times(s, t), r * Magnitude(n) * Scale, x.fits)
  <2>1. [j \in Index |-> x.t[j] * n * Scale] = Times(s, t)
    <3>1. ASSUME NEW j \in Index PROVE t[j] * n * Scale = s * t[j]
      <4>1. t[j] \in Int /\ n \in Int /\ Scale \in Int
        BY <1>2, <1>3, Entries, ConstantFacts
      <4> DEFINE y == t[j]
      <4>2. y \in Int
        BY <4>1
      <4> HIDE DEF y
      <4>3. y * n * Scale = (n * Scale) * y
        BY <4>1, <4>2
      <4> QED
        BY <4>3 DEF y
    <3> QED
      BY <3>1 DEF Times
  <2> QED
    BY <2>1 DEF multByConst, Constant
<1>5. r * Magnitude(n) * Scale = r * Magnitude(s) /\ r * Magnitude(n) * Scale \in Nat
  <2> DEFINE g == Magnitude(n)
  <2>1. g \in Nat /\ r \in Nat /\ Scale \in Nat
    BY <1>2, ConstFacts, ConstantFacts
  <2> HIDE DEF g, r
  <2>2. r * g * Scale = r * (g * Scale) /\ g * Scale \in Nat
    BY <2>1
  <2>3. r * (g * Scale) \in Nat
    BY <2>1, <2>2
  <2> QED
    BY <1>3, <2>2, <2>3 DEF g
<1> HIDE DEF AX, BX, l, t, r, s
<1>6. ASSUME NEW A, NEW v \in IntPoly, Follows(A, v, Both(L), l)
      PROVE  Stands(sign(mulPoly(A, k, l)), Times(s, v), Both(L), l)
  <2>1. Constant(m) \in IntPoly /\ Product(v, Constant(m)) = Times(m, v) /\ Times(m, v) \in IntPoly
    <3> HIDE DEF m
    <3> QED
      BY <1>3, <1>6, ConstantFactsOf, PolyFacts
  <2>2. Follows(k, Constant(m), Both(L), l)
    BY <1>2, <2>1, FromIntStands DEF Stands
  <2> HIDE DEF k
  <2>3. Stands(mulPoly(A, k, l), Times(m, v), Both(L), l)
    <3> DEFINE g == Constant(m)
    <3>1. g \in IntPoly /\ Follows(k, g, Both(L), l) /\ Product(v, g) = Times(m, v)
      BY <2>1, <2>2
    <3> HIDE DEF g, m
    <3> QED
      BY <1>2, <1>6, <3>1, ProductStands
  <2> DEFINE C == mulPoly(A, k, l)
             mv == Times(m, v)
  <2>4. Stands(C, mv, Both(L), l) /\ mv \in IntPoly
    BY <2>1, <2>3
  <2>5. CASE ~(n < 0)
    BY <1>3, <2>3, <2>5
  <2>6. CASE n < 0
    <3> HIDE DEF C, mv
    <3>1. Stands(negatePoly(C, l), Minus([j \in Index |-> 0], mv), Both(L), l)
      BY <1>2, <2>4, NegateStands
    <3>2. ASSUME NEW j \in Index PROVE 0 - mv[j] = s * v[j]
      <4> DEFINE y == v[j]
      <4>1. mv[j] = m * y /\ y \in Int
        BY <1>6, Entries DEF Times, mv
      <4> HIDE DEF y, m
      <4>2. (0 - m) * y = 0 - m * y
        BY <1>3, <4>1
      <4> QED
        BY <1>3, <2>6, <4>1, <4>2 DEF y
    <3>3. Minus([j \in Index |-> 0], mv) = Times(s, v)
      BY <3>2 DEF Minus, Times
    <3> QED
      BY <2>6, <3>1, <3>3 DEF C
  <2> QED
    BY <2>5, <2>6
<1>7. Stands(CX, Times(s, a), Both(L), l) /\ Stands(DX, Times(s, b), Both(L), l)
  <2> HIDE DEF sign, k
  <2> QED
    BY <1>1, <1>2, <1>6
<1> DEFINE g == r * Magnitude(n) * Scale
<1> HIDE DEF CX, DX, g
<1>8. Encrypts(CX, DX, l, Times(s, t), g, Times(s, a), Times(s, b), Times(s, e))
  <2>1. g \in Nat /\ g = r * Magnitude(s)
    BY <1>5 DEF g
  <2> QED
    BY <1>1, <1>3, <1>7, <2>1, ScaledEncrypts
<1>9. multByConst(x, n) = Cipher(CX, DX, l, Times(s, t), g, x.fits)
  BY <1>4 DEF CX, DX, g, l, AX, BX, t, r, s
<1> QED
  BY <1>8, <1>9, CipherIsSound DEF l

\* addConst changes coefficient 0 of one half alone.
LEMMA AddConstIsSound ==
  ASSUME NEW x, Sound(x), NEW n \in Const
  PROVE  Sound(addConst(x, n)) /\ addConst(x, n).l = x.l
<1> DEFINE AX == x.ax
           BX == x.bx
           l == x.l
           t == x.t
           r == x.err
           m == Magnitude(n) * Scale
           s == n * Scale
           k == FromInt(Constant(m), l)
           DX == IF n >= 0 THEN addPoly(BX, k, l) ELSE subPoly(BX, k, l)
           t1 == [t EXCEPT ![0] = @ + s]
<1>1. PICK a, b, e \in IntPoly : Encrypts(AX, BX, l, t, r, a, b, e)
  BY SoundFacts
<1>2. /\ l \in 1 .. L /\ l \in 1 .. L + K /\ t \in IntPoly /\ r \in Nat
      /\ Stands(AX, a, Both(L), l) /\ Follows(BX, b, Both(L), l)
      /\ AreSmall(e, r) /\ \A j \in Index : b[j] + Product(a, secret)[j] = t[j] + e[j]
  BY <1>1, Chain DEF Encrypts, Stands
<1>3. /\ n \in Int /\ m \in Nat /\ m \in Int /\ s \in Int
      /\ (~(n < 0) => s = m) /\ (n < 0 => s = 0 - m)
  BY ConstFacts
<1>4. addConst(x, n) = Cipher(AX, DX, l, t1, r, x.fits)
  BY DEF addConst, Constant
<1>5. t1 \in IntPoly /\ \A j \in Index : t1[j] = IF j = 0 THEN t[j] + s ELSE t[j]
  <2> HIDE DEF t, s
  <2>1. \A j \in Index : t1[j] = IF j = 0 THEN t[j] + s ELSE t[j]
    BY <1>2, Degree DEF IntPoly
  <2>2. \A j \in Index : t1[j] \in Int
    <3> HIDE DEF t1
    <3> QED
      BY <1>2, <1>3, <2>1, Entries
  <2>3. t1 = [j \in Index |-> t1[j]]
    BY <1>2 DEF IntPoly
  <2> HIDE DEF t1
  <2>4. t1 \in IntPoly
    BY <2>2, <2>3 DEF IntPoly
  <2> QED
    BY <2>1, <2>4
<1> DEFINE g == Constant(m)
           b1 == IF n >= 0 THEN Plus(b, g) ELSE Minus(b, g)
<1>6. g \in IntPoly /\ \A j \in Index : g[j] = IF j = 0 THEN m ELSE 0
  <2>1. secret \in IntPoly
    BY ConstantFacts
  <2> HIDE DEF m
  <2>2. g \in IntPoly
    BY <1>3, <2>1, ConstantFactsOf
  <2> QED
    BY <2>2 DEF Constant
<1> HIDE DEF g
<1>7. b1 \in IntPoly /\ Stands(DX, b1, Both(L), l)
  <2>1. Follows(k, g, Both(L), l)
    BY <1>2, <1>6, FromIntStands DEF Stands, g
  <2> HIDE DEF k, BX, l
  <2>2. /\ Plus(b, g) \in IntPoly /\ Minus(b, g) \in IntPoly
        /\ Stands(addPoly(BX, k, l), Plus(b, g), Both(L), l) /\ Stands(subPoly(BX, k, l), Minus(b, g), Both(L), l)
    BY <1>1, <1>2, <1>6, <2>1, SumStands, PolyFacts
  <2> QED
    BY <2>2
<1>8. ASSUME NEW j \in Index PROVE b1[j] + Product(a, secret)[j] = t1[j] + e[j]
  <2> DEFINE x1 == b[j]
             x2 == Product(a, secret)[j]
             x3 == t[j]
             x4 == e[j]
             y == IF j = 0 THEN s ELSE 0
             w == g[j]
  <2>1. /\ x1 \in Int /\ x2 \in Int /\ x3 \in Int /\ x4 \in Int /\ x1 + x2 = x3 + x4 /\ y \in Int /\ w \in Int
    BY <1>1, <1>2, <1>3, <1>6, Entries, ProductAt, ConstantFacts
  <2>2. t1[j] = x3 + y
    <3>1. t1[j] = IF j = 0 THEN x3 + s ELSE x3
      BY <1>5
    <3> HIDE DEF t1, x3, s
    <3> QED
      BY <1>3, <2>1, <3>1
  <2>3. b1[j] = x1 + y
    <3>1. n >= 0 => w = y
      <4> HIDE DEF m, s
      <4> QED
        BY <1>3, <1>6
    <3>2. ~(n >= 0) => 0 - w = y
      <4> HIDE DEF m, s
      <4> QED
        BY <1>3, <1>6
    <3>3. Plus(b, g)[j] = x1 + w /\ Minus(b, g)[j] = x1 - w
      BY <1>1, <1>6, PolyFacts
    <3>4. b1[j] = IF n >= 0 THEN x1 + w ELSE x1 - w
      <4> HIDE DEF x1, w
      <4> QED
        BY <3>3
    <3> HIDE DEF x1, w, y, b1
    <3> QED
      BY <2>1, <3>1, <3>2, <3>4
  <2> HIDE DEF x1, x3, y, b1, t1, w
  <2>5. x1 + y + x2 = x3 + y + x4
    <3> HIDE DEF x2, x4
    <3> QED
      BY <2>1
  <2> QED
    BY <2>2, <2>3, <2>5
<1> HIDE DEF AX, DX, l, t1, t, r, b1
<1>9. Encrypts(AX, DX, l, t1, r, a, b1, e)
  BY <1>1, <1>2, <1>5, <1>7, <1>8 DEF Encrypts
<1> QED
  BY <1>4, <1>9, CipherIsSound DEF l

\* encryptMsg: the noise of the key times vx, and the errors, stay below FreshNoise.
LEMMA EncryptIsSound ==
  ASSUME NEW t \in IntPoly, NEW l \in 1 .. L, NEW s \in Samples
  PROVE  Sound(encryptMsg(t, l, s)) /\ encryptMsg(t, l, s).l = l
<1> DEFINE key == keyMap["ENCRYPTION"]
           U == Uniform["ENCRYPTION"]
           G == Gauss["ENCRYPTION"]
           V == s.vx
           v == FromIntKey(V)
           E0 == s.axError
           E1 == s.bxError
           g0 == Largest(E0)
           g1 == Largest(E1)
           F0 == FromInt(E0, l)
           F1 == FromInt(E1, l)
           Ft == FromInt(t, l)
           AX == addPoly(mulPoly(v, key.ax, l), F0, l)
           BX == addPoly(addPoly(mulPoly(v, key.bx, l), F1, l), Ft, l)
           Us == Product(U, secret)
           B == Minus(G, Us)
           vU == Product(V, U)
           vB == Product(V, B)
           a == Plus(vU, E0)
           b1 == Plus(vB, E1)
           b == Plus(b1, t)
           vG == Product(V, G)
           Es == Product(E0, secret)
           e1 == Plus(vG, E1)
           e == Plus(e1, Es)
<1>1. encryptMsg(t, l, s) = Cipher(AX, BX, l, t, FreshNoise(s), TRUE)
  BY DEF encryptMsg
<1>2. /\ secret \in IntPoly /\ V \in IntPoly /\ U \in IntPoly /\ G \in IntPoly
      /\ E0 \in IntPoly /\ E1 \in IntPoly /\ AreSmall(E0, g0) /\ AreSmall(E1, g1)
      /\ g0 \in Nat /\ g1 \in Nat
  <2>1. "ENCRYPTION" \in Purpose
    BY DEF Purpose
  <2> QED
    BY <2>1, ConstantFacts, LargestFacts
<1>3. /\ Follows(key.ax, U, Both(L), l) /\ Follows(key.bx, B, Both(L), l)
      /\ Follows(v, V, Both(L), l) /\ l \in 1 .. L + K
      /\ Follows(F0, E0, Both(L), l) /\ Follows(F1, E1, Both(L), l) /\ Follows(Ft, t, Both(L), l)
  <2>1. l \in Nat /\ l <= L /\ L \in Nat /\ l \in 1 .. L + K /\ L + K \in Nat /\ l <= L + K
    BY Lengths
  <2>2. Follows(key.ax, U, Both(L), L) /\ Follows(key.bx, B, Both(L), L)
    BY EncryptionKey
  <2>3. Follows(v, V, Both(L), L + K)
    BY <1>2, FromIntStands DEF Stands
  <2> HIDE DEF V, E0, E1
  <2>4. Stands(F0, E0, Both(L), l) /\ Stands(F1, E1, Both(L), l) /\ Stands(Ft, t, Both(L), l)
    BY <1>2, FromIntStands
  <2> HIDE DEF key, U, B, v, F0, F1, Ft
  <2> QED
    BY <2>1, <2>2, <2>3, <2>4, FollowsLess DEF Stands
<1> HIDE DEF key, U, G, V, v, E0, E1, g0, g1, F0, F1, Ft
<1>4. Us \in IntPoly /\ vU \in IntPoly /\ vG \in IntPoly /\ Es \in IntPoly
  BY <1>2, ProductAt
<1>5. B \in IntPoly
  <2> HIDE DEF Us
  <2> QED
    BY <1>2, <1>4, PolyFacts
<1>6. vB \in IntPoly
  <2> HIDE DEF B
  <2> QED
    BY <1>2, <1>5, ProductAt
<1>7. a \in IntPoly /\ b1 \in IntPoly /\ e1 \in IntPoly
  <2> HIDE DEF vU, vB, vG
  <2> QED
    BY <1>2, <1>4, <1>6, PolyFacts
<1>8. b \in IntPoly /\ e \in IntPoly
  <2> HIDE DEF b1, e1, Es
  <2> QED
    BY <1>4, <1>7, PolyFacts
<1>9. Stands(AX, a, Both(L), l)
  <2>1. Follows(mulPoly(v, key.ax, l), vU, Both(L), l)
    BY <1>2, <1>3, ProductStands DEF Stands
  <2> HIDE DEF vU
  <2> QED
    BY <1>2, <1>3, <1>4, <2>1, SumStands
<1>10. Stands(BX, b, Both(L), l)
  <2> DEFINE C1 == mulPoly(v, key.bx, l)
             C2 == addPoly(C1, F1, l)
  <2>1. Follows(C1, vB, Both(L), l)
    <3> HIDE DEF B
    <3> QED
      BY <1>2, <1>3, <1>5, ProductStands DEF Stands
  <2> HIDE DEF vB, C1
  <2>2. Follows(C2, b1, Both(L), l)
    BY <1>2, <1>3, <1>6, <2>1, SumStands DEF Stands
  <2> HIDE DEF C2, b1
  <2>3. Stands(addPoly(C2, Ft, l), b, Both(L), l)
    BY <1>3, <1>7, <2>2, SumStands
  <2> QED
    BY <2>3 DEF C2, C1
<1>11. ASSUME NEW k \in Index
       PROVE  /\ b[k] + Product(a, secret)[k] = t[k] + e[k] /\ e[k] = vG[k] + E1[k] + Es[k]
              /\ vG[k] \in Int /\ E1[k] \in Int /\ Es[k] \in Int
  <2>1. /\ Us[k] \in Int /\ vU[k] \in Int /\ vG[k] \in Int /\ Es[k] \in Int /\ vB[k] \in Int
        /\ E0[k] \in Int /\ E1[k] \in Int /\ t[k] \in Int
    <3> HIDE DEF Us, vU, vG, Es, vB
    <3> QED
      BY <1>2, <1>4, <1>6, Entries
  <2>2. b[k] = b1[k] + t[k] /\ e[k] = e1[k] + Es[k] /\ b1[k] = vB[k] + E1[k] /\ e1[k] = vG[k] + E1[k]
    BY DEF Plus
  <2>3. vB[k] = vG[k] - Product(V, Us)[k] /\ Product(V, Us)[k] \in Int
    <3> HIDE DEF Us
    <3> QED
      BY <1>2, <1>4, ProductPlus
  <2>4. Product(a, secret)[k] = Product(vU, secret)[k] + Es[k]
    <3> HIDE DEF vU
    <3> QED
      BY <1>2, <1>4, ProductPlus
  <2>5. Product(vU, secret)[k] = Product(V, Us)[k]
    BY <1>2, ProductAssociates
  <2> HIDE DEF Us, vU, vG, Es, vB, a, b, b1, e, e1
  <2> DEFINE x1 == Product(V, Us)[k]
             x2 == Product(a, secret)[k]
  <2>6. x1 \in Int /\ x2 = x1 + Es[k] /\ vB[k] = vG[k] - x1
    BY <2>3, <2>4, <2>5
  <2> HIDE DEF x1, x2
  <2>7. b[k] + x2 = t[k] + e[k] /\ e[k] = vG[k] + E1[k] + Es[k]
    BY <2>1, <2>2, <2>6
  <2> QED
    BY <2>1, <2>7 DEF x2
<1>12. FreshNoise(s) \in Nat /\ AreSmall(e, FreshNoise(s))
  <2> DEFINE n == Norm(V)
             g == Largest(G)
             S0 == g0 * Norm(secret)
  <2>1. FreshNoise(s) = n * g + g1 + S0
    BY DEF FreshNoise, G, V, E0, E1, g0, g1
  <2>2. n \in Nat /\ g \in Nat /\ AreSmall(G, g)
    BY <1>2, NormFacts, LargestFacts
  <2>3. AreSmall(vG, g * n) /\ g * n \in Nat
    <3> HIDE DEF g
    <3> QED
      BY <1>2, <2>2, ProductIsSmall
  <2>4. AreSmall(Es, S0) /\ S0 \in Nat
    <3>1. AreSmall(Product(secret, E0), S0) /\ S0 \in Nat
      BY <1>2, ProductIsSmall
    <3>2. Product(secret, E0) = Es
      BY <1>2, ProductCommutes
    <3> HIDE DEF S0, Es
    <3> QED
      BY <3>1, <3>2
  <2> HIDE DEF n, g, S0, vG, Es, e
  <2> DEFINE ng == g * n
  <2>5. ng \in Nat /\ FreshNoise(s) = ng + g1 + S0 /\ AreSmall(vG, ng)
    <3>1. n * g = g * n
      BY <2>2
    <3> QED
      BY <2>1, <2>3, <3>1
  <2> HIDE DEF ng
  <2>6. ASSUME NEW k \in Index PROVE Magnitude(e[k]) <= ng + g1 + S0
    <3> DEFINE x1 == vG[k]
               x2 == E1[k]
               x3 == Es[k]
    <3>1. /\ x1 \in Int /\ x2 \in Int /\ x3 \in Int /\ e[k] = x1 + x2 + x3
          /\ Magnitude(x1) <= ng /\ Magnitude(x2) <= g1 /\ Magnitude(x3) <= S0
      BY <1>2, <1>11, <2>4, <2>5 DEF AreSmall
    <3>2. ng \in Int /\ g1 \in Int /\ S0 \in Int /\ ng + g1 \in Int /\ x1 + x2 \in Int
      BY <1>2, <2>4, <2>5, <3>1
    <3> HIDE DEF x1, x2, x3
    <3>3. Magnitude(x1 + x2) <= ng + g1
      BY <3>1, <3>2, MagnitudeOfSum
    <3>4. Magnitude((x1 + x2) + x3) <= (ng + g1) + S0
      <4> DEFINE y == x1 + x2
                 z == ng + g1
      <4>1. y \in Int /\ z \in Int /\ Magnitude(y) <= z
        BY <3>2, <3>3
      <4> HIDE DEF y, z
      <4>2. Magnitude(y + x3) <= z + S0
        BY <3>1, <3>2, <4>1, MagnitudeOfSum
      <4> QED
        BY <4>2 DEF y, z
    <3> QED
      BY <3>1, <3>4
  <2> QED
    BY <1>2, <2>4, <2>5, <2>6 DEF AreSmall
<1> HIDE DEF AX, BX, a, b, e
<1>13. Encrypts(AX, BX, l, t, FreshNoise(s), a, b, e)
  BY <1>7, <1>8, <1>9, <1>10, <1>11, <1>12 DEF Encrypts
<1> DEFINE fits == TRUE
<1>14. encryptMsg(t, l, s) = Cipher(AX, BX, l, t, FreshNoise(s), fits)
  BY <1>1
<1> HIDE DEF fits
<1> QED
  BY <1>13, <1>14, CipherIsSound

\* A squareAndEqual that throws leaves zeros.
LEMMA EmptiedIsSound == ASSUME NEW x, Sound(x) PROVE Sound(Emptied(x))
<1> DEFINE l == x.l
           z == [k \in Index |-> 0]
           F == FromInt(z, l)
<1>1. l \in 1 .. L
  BY SoundFacts
<1>2. z \in IntPoly /\ secret \in IntPoly
  BY ConstantFacts DEF IntPoly
<1>3. Emptied(x) = Cipher(F, F, l, z, 0, FALSE) /\ \A k \in Index : z[k] = 0
  BY DEF Emptied
<1> HIDE DEF z
<1>4. Stands(F, z, Both(L), l)
  BY <1>1, <1>2, FromIntStands
<1>5. AreSmall(z, 0)
  BY <1>3 DEF AreSmall, Magnitude
<1>6. AreSmall(Product(secret, z), 0 * Norm(secret)) /\ Norm(secret) \in Nat
  BY <1>2, <1>5, ProductIsSmall, NormFacts
<1>7. Product(z, secret) = Product(secret, z) /\ Product(z, secret) \in IntPoly
  BY <1>2, ProductCommutes, ProductAt
<1>8. ASSUME NEW k \in Index PROVE z[k] + Product(z, secret)[k] = z[k] + z[k]
  <2>1. Product(z, secret)[k] \in Int
    BY <1>7, Entries
  <2>2. Magnitude(Product(z, secret)[k]) <= 0
    BY <1>6, <1>7 DEF AreSmall
  <2>3. Product(z, secret)[k] = 0
    BY <2>1, <2>2 DEF Magnitude
  <2> QED
    BY <1>3, <2>3
<1> HIDE DEF l, F
<1>9. Encrypts(F, F, l, z, 0, z, z, z)
  BY <1>1, <1>2, <1>4, <1>5, <1>8 DEF Encrypts
<1> DEFINE fits == FALSE
<1>10. Emptied(x) = Cipher(F, F, l, z, 0, fits)
  BY <1>3
<1> HIDE DEF fits
<1> QED
  BY <1>9, <1>10, CipherIsSound

\* Dividing both halves and t by D.
AreRescaled(D, err, S, x1, x2, u1, u2, y1, y2, t, e) ==
  /\ x1 = D * u1 + y1 /\ x2 = D * u2 + y2 /\ x1 + x2 = t + e
  /\ Magnitude(y1) <= D /\ Magnitude(y2) <= D * S /\ Magnitude(e) <= err

LEMMA ReScaleNoise ==
  ASSUME NEW D \in Nat \ {0}, NEW err \in Nat, NEW S \in Nat, NEW x1 \in Int, NEW x2 \in Int, NEW u1 \in Int, NEW u2 \in Int,
         NEW y1 \in Int, NEW y2 \in Int, NEW t \in Int, NEW e \in Int,
         AreRescaled(D, err, S, x1, x2, u1, u2, y1, y2, t, e)
  PROVE  /\ t \div D \in Int /\ (u1 + u2) - t \div D \in Int
         /\ Magnitude((u1 + u2) - t \div D) <= err \div D + 2 + (1 + S)
<1> DEFINE g == t \div D
           r == t % D
           z == (u1 + u2) - g
           v1 == D * u1
           v2 == D * u2
           v3 == D * g
           Db == D * (2 + S)
           DS == D * S
<1>1. g \in Int /\ r \in 0 .. D - 1 /\ t = g * D + r
  BY DivisionFacts
<1> HIDE DEF g, r
<1>2. z \in Int /\ v1 \in Int /\ v2 \in Int /\ v3 \in Int /\ r \in Int /\ r >= 0 /\ r <= D /\ g * D = v3 /\ DS \in Int
  BY <1>1
<1>3. D * z = (v1 + v2) - v3
  <2>1. D * (u1 + u2) = v1 + v2
    OBVIOUS
  <2> DEFINE u == u1 + u2
  <2>2. u \in Int /\ D * u = v1 + v2
    BY <2>1
  <2> HIDE DEF u, v1, v2
  <2>3. D * (u - g) = D * u - D * g
    BY <1>1, <2>2
  <2> QED
    BY <2>2, <2>3 DEF u
<1>4. Db = D + D + DS
  BY DEF Db
<1>5. x1 = v1 + y1 /\ x2 = v2 + y2 /\ t = v3 + r /\ x1 + x2 = t + e
  BY <1>1, <1>2 DEF AreRescaled
<1>6. y1 <= D /\ 0 - D <= y1 /\ y2 <= DS /\ 0 - DS <= y2 /\ e <= err /\ 0 - err <= e
  <2> HIDE DEF DS
  <2> QED
    BY <1>2, MagnitudeFacts DEF DS, AreRescaled
<1> DEFINE a == D * z
<1>7. a = (v1 + v2) - v3
  BY <1>3
<1> HIDE DEF z, v1, v2, v3, a, Db, DS
<1>8. a = r + e - y1 - y2 /\ a \in Int
  BY <1>2, <1>5, <1>7
<1>9. a <= err + Db /\ 0 - a <= err + Db
  BY <1>2, <1>4, <1>6, <1>8
<1>10. Magnitude(z) <= 1 + (2 + S) + err \div D
  <2> DEFINE b == 2 + S
  <2>1. b \in Nat /\ a = D * z /\ a <= err + D * b /\ 0 - a <= err + D * b
    BY <1>9 DEF a, Db
  <2> HIDE DEF b
  <2>2. Magnitude(z) <= 1 + b + err \div D
    BY <1>2, <1>8, <2>1, DividedBound
  <2> QED
    BY <2>2 DEF b
<1>11. err \div D \in Int /\ Magnitude(z) \in Int
  BY <1>2, DivisionFacts, MagnitudeFacts
<1>12. Magnitude(z) <= err \div D + 2 + (1 + S)
  <2> DEFINE h == err \div D
             n == Magnitude(z)
  <2>1. h \in Int /\ n \in Int /\ n <= 1 + (2 + S) + h
    BY <1>10, <1>11
  <2> HIDE DEF h, n
  <2>2. n <= h + 2 + (1 + S)
    BY <2>1
  <2> QED
    BY <2>2 DEF h, n
<1> QED
  BY <1>1, <1>2, <1>12 DEF z, g

\* reScaleBy1: both halves are rounded down, and the message with them.
LEMMA ReScaleIsSound ==
  ASSUME NEW x, Sound(x), x.l > 1
  PROVE  Sound(reScaleBy1(x)) /\ reScaleBy1(x).l = x.l - 1
<1> DEFINE AX == x.ax
           BX == x.bx
           l == x.l
           t == x.t
           r == x.err
           S == Norm(secret)
           D == q[l]
           CX == Rescaled(AX, l)
           DX == Rescaled(BX, l)
           t1 == [k \in Index |-> t[k] \div D]
           r1 == r \div D + 2 + Rounding
<1>1. PICK a, b, e \in IntPoly : Encrypts(AX, BX, l, t, r, a, b, e)
  BY SoundFacts
<1>2. /\ l \in 1 .. L /\ l > 1 /\ l - 1 \in 1 .. L /\ t \in IntPoly /\ r \in Nat
      /\ Stands(AX, a, Both(L), l) /\ Stands(BX, b, Both(L), l)
      /\ AreSmall(e, r) /\ \A k \in Index : b[k] + Product(a, secret)[k] = t[k] + e[k]
      /\ secret \in IntPoly /\ S \in Nat /\ D \in Nat \ {0}
  <2>1. Encrypts(AX, BX, l, t, r, a, b, e) /\ l > 1
    BY <1>1
  <2>2. l \in 1 .. L /\ L \in Nat
    BY <2>1, Lengths DEF Encrypts
  <2>3. D \in Nat \ {0}
    BY <2>2, RaisedChain
  <2>4. l - 1 \in 1 .. L
    BY <2>1, <2>2
  <2> HIDE DEF AX, BX, l, t, r, S, D
  <2> QED
    BY <2>1, <2>2, <2>3, <2>4, ConstantFacts, NormFacts DEF Encrypts, S
<1>3. reScaleBy1(x) = Cipher(CX, DX, l - 1, t1, r1, x.fits)
  BY DEF reScaleBy1, Coefficientwise, Rescaled, Residue
<1>4. PICK ua \in IntPoly, ya \in IntPoly :
           /\ Stands(CX, ua, Both(L), l - 1)
           /\ \A k \in Index : ya[k] \in 0 .. D - 1 /\ a[k] = D * ua[k] + ya[k]
  <2> HIDE DEF AX, BX, l, t, r
  <2> QED
    BY <1>1, <1>2, ReScaleStands
<1>5. PICK ub \in IntPoly, yb \in IntPoly :
           /\ Stands(DX, ub, Both(L), l - 1)
           /\ \A k \in Index : yb[k] \in 0 .. D - 1 /\ b[k] = D * ub[k] + yb[k]
  <2> HIDE DEF AX, BX, l, t, r
  <2> QED
    BY <1>1, <1>2, ReScaleStands
<1> HIDE DEF AX, BX, l, t, r, S, D, CX, DX
<1> DEFINE us == Product(ua, secret)
           ys == Product(ya, secret)
           e1 == [k \in Index |-> (ub[k] + us[k]) - t[k] \div D]
<1>6. us \in IntPoly /\ ys \in IntPoly /\ AreSmall(ys, D * S)
  <2>1. us \in IntPoly /\ ys \in IntPoly
    BY <1>2, <1>4, ProductAt
  <2>2. AreSmall(ya, D)
    BY <1>2, <1>4 DEF AreSmall, Magnitude
  <2>3. AreSmall(Product(secret, ya), D * S)
    BY <1>2, <1>4, <2>2, ProductIsSmall DEF S
  <2>4. Product(secret, ya) = ys
    BY <1>2, <1>4, ProductCommutes
  <2> QED
    BY <2>1, <2>3, <2>4
<1>7. ASSUME NEW k \in Index
      PROVE  /\ t[k] \div D \in Int /\ (ub[k] + us[k]) - t[k] \div D \in Int
             /\ Magnitude((ub[k] + us[k]) - t[k] \div D) <= r \div D + 2 + (1 + S)
             /\ ub[k] + us[k] \in Int
  <2> DEFINE x2 == Product(a, secret)[k]
  <2>1. x2 = D * us[k] + ys[k]
    <3> DEFINE Du == Times(D, ua)
    <3>1. D \in Int /\ Du \in IntPoly
      BY <1>2, <1>4, PolyFacts
    <3>2. a = Plus(Du, ya)
      <4>1. a = [j \in Index |-> a[j]]
        BY <1>1 DEF IntPoly
      <4>2. \A j \in Index : a[j] = Du[j] + ya[j]
        BY <1>4 DEF Times
      <4> HIDE DEF Du
      <4> QED
        BY <4>1, <4>2 DEF Plus
    <3>3. Product(Du, secret)[k] = D * us[k]
      BY <1>2, <1>4, <3>1, ProductTimes
    <3> HIDE DEF Du
    <3>4. Product(Plus(Du, ya), secret)[k] = Product(Du, secret)[k] + ys[k]
      BY <1>2, <1>4, <3>1, ProductPlus
    <3> QED
      BY <3>2, <3>3, <3>4
  <2>2. x2 \in Int /\ us[k] \in Int /\ ys[k] \in Int /\ Magnitude(ys[k]) <= D * S
    <3> HIDE DEF us, ys
    <3> QED
      BY <1>1, <1>2, <1>6, ProductAt, Entries DEF AreSmall
  <2>3. /\ ub[k] \in Int /\ yb[k] \in Int /\ b[k] \in Int /\ e[k] \in Int /\ t[k] \in Int
        /\ Magnitude(e[k]) <= r /\ b[k] + x2 = t[k] + e[k] /\ b[k] = D * ub[k] + yb[k]
    BY <1>1, <1>2, <1>5, Entries DEF AreSmall
  <2>4. Magnitude(yb[k]) <= D
    <3> DEFINE y == yb[k]
    <3>1. y \in 0 .. D - 1
      BY <1>5
    <3> HIDE DEF y
    <3>2. Magnitude(y) <= D
      BY <1>2, <3>1 DEF Magnitude
    <3> QED
      BY <3>2 DEF y
  <2> DEFINE z1 == b[k]
             z2 == ub[k]
             z3 == us[k]
             z4 == yb[k]
             z5 == ys[k]
             z6 == t[k]
             z7 == e[k]
  <2>5. /\ z1 \in Int /\ x2 \in Int /\ z2 \in Int /\ z3 \in Int /\ z4 \in Int /\ z5 \in Int /\ z6 \in Int /\ z7 \in Int
        /\ z1 = D * z2 + z4 /\ x2 = D * z3 + z5 /\ z1 + x2 = z6 + z7
        /\ Magnitude(z4) <= D /\ Magnitude(z5) <= D * S /\ Magnitude(z7) <= r
    BY <2>1, <2>2, <2>3, <2>4
  <2> HIDE DEF z1, z2, z3, z4, z5, z6, z7, x2
  <2>6. /\ z6 \div D \in Int /\ (z2 + z3) - z6 \div D \in Int
        /\ Magnitude((z2 + z3) - z6 \div D) <= r \div D + 2 + (1 + S)
    <3>1. AreRescaled(D, r, S, z1, x2, z2, z3, z4, z5, z6, z7)
      BY <2>5 DEF AreRescaled
    <3> QED
      BY <1>2, <2>5, <3>1, ReScaleNoise
  <2> QED
    BY <2>5, <2>6 DEF z2, z3, z6
<1>8. e1 \in IntPoly /\ t1 \in IntPoly
  BY <1>7 DEF IntPoly
<1>9. ASSUME NEW k \in Index
      PROVE  /\ ub[k] + Product(ua, secret)[k] = t1[k] + e1[k]
             /\ Magnitude(e1[k]) <= r1
  <2> DEFINE x1 == ub[k] + us[k]
             x2 == t[k] \div D
  <2>1. x1 \in Int /\ x2 \in Int /\ t1[k] = x2 /\ e1[k] = x1 - x2
    BY <1>7
  <2> HIDE DEF x1, x2, e1, t1
  <2>2. x1 = t1[k] + e1[k]
    BY <2>1
  <2>3. Magnitude(x1 - x2) <= r1
    BY <1>7 DEF x1, x2, Rounding, S
  <2> QED
    BY <2>1, <2>2, <2>3 DEF x1
<1>10. r1 \in Nat
  <2>1. r \div D \in Nat
    BY <1>2, DivMod
  <2>2. Rounding \in Nat
    BY <1>2 DEF Rounding, S
  <2> DEFINE g == r \div D
             h == Rounding
  <2>3. g \in Nat /\ h \in Nat
    BY <2>1, <2>2
  <2> HIDE DEF g, h
  <2>4. g + 2 + h \in Nat
    BY <2>3
  <2> QED
    BY <2>4 DEF g, h
<1> HIDE DEF e1, t1, r1
<1>11. AreSmall(e1, r1)
  BY <1>9 DEF AreSmall
<1> DEFINE j == l - 1
<1>12. j \in 1 .. L /\ Stands(CX, ua, Both(L), j) /\ Stands(DX, ub, Both(L), j) /\ reScaleBy1(x) = Cipher(CX, DX, j, t1, r1, x.fits)
  BY <1>2, <1>3, <1>4, <1>5
<1> HIDE DEF j
<1>13. Encrypts(CX, DX, j, t1, r1, ua, ub, e1)
  BY <1>4, <1>5, <1>8, <1>9, <1>10, <1>11, <1>12 DEF Encrypts
<1>14. Sound(reScaleBy1(x)) /\ reScaleBy1(x).l = j
  BY <1>12, <1>13, CipherIsSound
<1> QED
  BY <1>14 DEF j, l

\* modDownBy: fewer residues stand for the same two polynomials.
LEMMA ModDownIsSound ==
  ASSUME NEW x, Sound(x), NEW dl \in 1 .. x.l - 1
  PROVE  Sound(modDownBy(x, dl)) /\ modDownBy(x, dl).l = x.l - dl
<1> DEFINE AX == x.ax
           BX == x.bx
           l == x.l
           t == x.t
           r == x.err
           j == l - dl
           CX == Lowered(AX, l, dl)
           DX == Lowered(BX, l, dl)
<1>1. PICK a, b, e \in IntPoly : Encrypts(AX, BX, l, t, r, a, b, e)
  BY SoundFacts
<1>2. l \in 1 .. L /\ L \in Nat /\ dl \in 1 .. l - 1
  BY <1>1, Lengths DEF Encrypts
<1>3. modDownBy(x, dl) = Cipher(CX, DX, j, t, r, x.fits)
  BY DEF modDownBy, Coefficientwise, Lowered, Residue
<1> HIDE DEF AX, BX, l, t, r
<1>4. j \in 1 .. L
  BY <1>2
<1>5. Stands(CX, a, Both(L), j) /\ Stands(DX, b, Both(L), j)
  BY <1>1, <1>2, ModDownStands DEF Encrypts
<1> HIDE DEF j, CX, DX
<1>6. Encrypts(CX, DX, j, t, r, a, b, e)
  BY <1>1, <1>4, <1>5 DEF Encrypts
<1>7. Sound(modDownBy(x, dl)) /\ modDownBy(x, dl).l = j
  BY <1>3, <1>6, CipherIsSound
<1> QED
  BY <1>7 DEF j, l

LEMMA AutomorphismPlus ==
  ASSUME NEW g, NEW h, AreInverse(g, h), NEW k \in Index
  PROVE  \A x, y \in IntPoly :
           Automorphism(Plus(x, y), g)[k] = Automorphism(x, g)[k] + Automorphism(y, g)[k]
BY AutomorphismFacts

\* conjugate and leftRotateFast, when the key switches from the image of the secret.
LEMMA SwitchedIsSound ==
  ASSUME NEW x, Sound(x), NEW o, NEW g, NEW h, AreInverse(g, h), IsKeyFor(o, Automorphism(secret, g))
  PROVE  Sound(Switched(x, o, g)) /\ Switched(x, o, g).l = x.l
<1> DEFINE AX == x.ax
           BX == x.bx
           l == x.l
           t == x.t
           r == x.err
           A == AutoPoly(AX, g, l)
           B == AutoPoly(BX, g, l)
           s == KeySwitch(A, o, l)
           DX == addPoly(s.bx, B, l)
           S == SwitchNoise(o, l)
           f == Automorphism(secret, g)
           t1 == Automorphism(t, g)
           r1 == r + S
           Im(y) == Automorphism(y, g)
<1>1. PICK a, b, e \in IntPoly : Encrypts(AX, BX, l, t, r, a, b, e)
  BY SoundFacts
<1>2. /\ l \in 1 .. L /\ l \in 1 .. L + K /\ t \in IntPoly /\ r \in Nat /\ r \in Int
      /\ Follows(AX, a, Both(L), l) /\ Follows(BX, b, Both(L), l)
      /\ AreSmall(e, r) /\ \A k \in Index : b[k] + Product(a, secret)[k] = t[k] + e[k]
      /\ secret \in IntPoly
  BY <1>1, Chain, ConstantFacts DEF Encrypts, Stands
<1>3. Switched(x, o, g) = Cipher(s.ax, DX, l, t1, r1, x.fits)
  BY DEF Switched
<1> HIDE DEF AX, BX, l, t, r
<1>4. Stands(A, Im(a), Both(L), l) /\ Stands(B, Im(b), Both(L), l)
  BY <1>1, <1>2, AutomorphismStands
<1>5. /\ Im(a) \in IntPoly /\ Im(b) \in IntPoly /\ Im(e) \in IntPoly /\ t1 \in IntPoly /\ f \in IntPoly
      /\ AreSmall(Im(e), r)
  BY <1>1, <1>2, AutomorphismAt, AutomorphismFacts
<1>6. /\ S \in Nat
      /\ \E u, w, z \in IntPoly :
           /\ Stands(s.ax, u, Both(L), l) /\ Stands(s.bx, w, Both(L), l) /\ AreSmall(z, S)
           /\ \A k \in Index : w[k] + Product(u, secret)[k] = Product(Im(a), f)[k] + z[k]
  <2> DEFINE y == Im(a)
  <2>1. Stands(A, y, Both(L), l) /\ y \in IntPoly /\ IsKeyFor(o, f)
    BY <1>4, <1>5
  <2> HIDE DEF A, y, f
  <2>2. /\ S \in Nat
        /\ \E u, w, z \in IntPoly :
             /\ Stands(KeySwitch(A, o, l).ax, u, Both(L), l) /\ Stands(KeySwitch(A, o, l).bx, w, Both(L), l)
             /\ AreSmall(z, SwitchNoise(o, l))
             /\ \A k \in Index : w[k] + Product(u, secret)[k] = Product(y, f)[k] + z[k]
    BY <1>2, <2>1, KeySwitchIsRight
  <2> QED
    BY <2>2 DEF y
<1> HIDE DEF A, s, S
<1>7. PICK u, w, z \in IntPoly :
           /\ Stands(s.ax, u, Both(L), l) /\ Stands(s.bx, w, Both(L), l) /\ AreSmall(z, S)
           /\ \A k \in Index : w[k] + Product(u, secret)[k] = Product(Im(a), f)[k] + z[k]
  BY <1>6
<1> DEFINE b1 == Plus(w, Im(b))
           e1 == Plus(Im(e), z)
<1>8. b1 \in IntPoly /\ e1 \in IntPoly
  <2> DEFINE y1 == Im(b)
             y2 == Im(e)
  <2>1. y1 \in IntPoly /\ y2 \in IntPoly
    BY <1>5
  <2> HIDE DEF y1, y2
  <2>2. Plus(w, y1) \in IntPoly /\ Plus(y2, z) \in IntPoly
    BY <1>7, <2>1, PolyFacts
  <2> QED
    BY <2>2 DEF y1, y2
<1>9. Stands(DX, b1, Both(L), l)
  <2> DEFINE y1 == Im(b)
  <2>1. y1 \in IntPoly /\ Follows(B, y1, Both(L), l)
    BY <1>4, <1>5 DEF Stands
  <2>2. Follows(s.bx, w, Both(L), l)
    BY <1>7 DEF Stands
  <2> HIDE DEF y1, B
  <2>3. Stands(addPoly(s.bx, B, l), Plus(w, y1), Both(L), l)
    BY <1>2, <1>7, <2>1, <2>2, SumStands
  <2> QED
    BY <2>3 DEF y1
<1>10. ASSUME NEW k \in Index
       PROVE  b1[k] + Product(u, secret)[k] = t1[k] + e1[k] /\ Magnitude(e1[k]) <= r1
  <2> DEFINE pr == Product(a, secret)
             x1 == Im(b)[k]
             x2 == Im(pr)[k]
             x3 == Im(e)[k]
             x4 == t1[k]
             x5 == Product(u, secret)[k]
  <2>1. pr \in IntPoly
    BY <1>1, <1>2, ProductAt
  <2>2. Product(Im(a), f) = Im(pr)
    BY <1>1, <1>2, AutomorphismProduct
  <2>3. x1 + x2 = x4 + x3
    <3>1. Plus(b, pr) = Plus(t, e)
      BY <1>2 DEF Plus
    <3> HIDE DEF pr
    <3>2. b \in IntPoly /\ pr \in IntPoly /\ t \in IntPoly /\ e \in IntPoly
      BY <1>1, <1>2, <2>1
    <3>3. Im(Plus(b, pr))[k] = Im(b)[k] + Im(pr)[k]
      BY <3>2, AutomorphismPlus
    <3>4. Im(Plus(t, e))[k] = Im(t)[k] + Im(e)[k]
      BY <3>2, AutomorphismFacts
    <3> QED
      BY <3>1, <3>3, <3>4
  <2>4. x1 \in Int /\ x2 \in Int /\ x3 \in Int /\ x4 \in Int /\ x5 \in Int /\ w[k] \in Int /\ z[k] \in Int
    <3>1. Im(pr) \in IntPoly
      <4> HIDE DEF pr
      <4> QED
        BY <2>1, AutomorphismAt
    <3>2. Product(u, secret) \in IntPoly
      BY <1>2, <1>7, ProductAt
    <3>3. w \in IntPoly /\ z \in IntPoly
      BY <1>7
    <3> HIDE DEF Im, pr, t1
    <3> QED
      BY <1>5, <3>1, <3>2, <3>3, Entries
  <2>5. w[k] + x5 = x2 + z[k]
    BY <1>7, <2>2
  <2>6. b1[k] = w[k] + x1 /\ e1[k] = x3 + z[k]
    BY DEF Plus
  <2>7. Magnitude(x3) <= r /\ Magnitude(z[k]) <= S
    BY <1>5, <1>7 DEF AreSmall
  <2> DEFINE x6 == z[k]
             x7 == w[k]
  <2>8. /\ x6 \in Int /\ x7 \in Int /\ x7 + x5 = x2 + x6 /\ b1[k] = x7 + x1 /\ e1[k] = x3 + x6
        /\ Magnitude(x6) <= S /\ S \in Int
    BY <1>6, <2>4, <2>5, <2>6, <2>7
  <2> HIDE DEF x1, x2, x3, x4, x5, x6, x7, b1, e1
  <2>9. Magnitude(x3 + x6) <= r + S
    BY <1>2, <2>4, <2>7, <2>8, MagnitudeOfSum
  <2>10. b1[k] + x5 = x4 + e1[k]
    BY <2>3, <2>4, <2>8
  <2> QED
    BY <2>8, <2>9, <2>10 DEF x4, x5
<1>11. r1 \in Nat
  BY <1>2, <1>6
<1> DEFINE ux == s.ax
<1>12. Stands(ux, u, Both(L), l) /\ Switched(x, o, g) = Cipher(ux, DX, l, t1, r1, x.fits)
  BY <1>3, <1>7
<1> HIDE DEF b1, e1, r1, t1, DX, ux
<1>13. AreSmall(e1, r1) /\ \A k \in Index : b1[k] + Product(u, secret)[k] = t1[k] + e1[k]
  BY <1>10 DEF AreSmall
<1>14. Encrypts(ux, DX, l, t1, r1, u, b1, e1)
  BY <1>2, <1>5, <1>7, <1>8, <1>9, <1>11, <1>12, <1>13 DEF Encrypts
<1>15. Sound(Switched(x, o, g)) /\ Switched(x, o, g).l = l
  BY <1>12, <1>14, CipherIsSound
<1> QED
  BY <1>15 DEF l

\* Products of sums: what the residues of mult stand for, as integers.
AreFactors(a, b, t, e) ==
  /\ a \in IntPoly /\ b \in IntPoly /\ t \in IntPoly /\ e \in IntPoly
  /\ \A k \in Index : b[k] + Product(a, secret)[k] = t[k] + e[k]

LEMMA ExpandSum ==
  ASSUME NEW x \in IntPoly, NEW y \in IntPoly, NEW u \in IntPoly, NEW v \in IntPoly, NEW k \in Index
  PROVE  Product(Plus(x, y), Plus(u, v))[k]
           = Product(x, u)[k] + Product(x, v)[k] + Product(y, u)[k] + Product(y, v)[k]
<1> DEFINE s == Plus(u, v)
<1>1. s \in IntPoly
  BY PolyFacts
<1> HIDE DEF s
<1>2. /\ Product(Plus(x, y), s)[k] = Product(x, s)[k] + Product(y, s)[k]
      /\ Product(x, s)[k] \in Int /\ Product(y, s)[k] \in Int
  BY <1>1, ProductPlus
<1>3. Product(x, s)[k] = Product(x, u)[k] + Product(x, v)[k]
  BY ProductPlus DEF s
<1>4. Product(y, s)[k] = Product(y, u)[k] + Product(y, v)[k]
  BY ProductPlus DEF s
<1>5. /\ Product(x, u)[k] \in Int /\ Product(x, v)[k] \in Int
      /\ Product(y, u)[k] \in Int /\ Product(y, v)[k] \in Int
  <2>1. Product(x, u) \in IntPoly /\ Product(x, v) \in IntPoly
    BY ProductAt
  <2>2. Product(y, u) \in IntPoly /\ Product(y, v) \in IntPoly
    BY ProductAt
  <2> QED
    BY <2>1, <2>2, Entries
<1> DEFINE x1 == Product(x, u)[k]
           x2 == Product(x, v)[k]
           x3 == Product(y, u)[k]
           x4 == Product(y, v)[k]
           x5 == Product(x, s)[k]
           x6 == Product(y, s)[k]
           x7 == Product(Plus(x, y), s)[k]
<1>6. /\ x1 \in Int /\ x2 \in Int /\ x3 \in Int /\ x4 \in Int /\ x7 = x5 + x6 /\ x5 = x1 + x2 /\ x6 = x3 + x4
  BY <1>2, <1>3, <1>4, <1>5
<1> HIDE DEF x1, x2, x3, x4, x5, x6, x7
<1>7. x7 = x1 + x2 + x3 + x4
  BY <1>6
<1> QED
  BY <1>7 DEF x1, x2, x3, x4, x7, s

\* The two mixed products are what Karatsuba's three leave.
Mixed(x, y, u, v) == Minus(Minus(Product(Plus(x, y), Plus(u, v)), Product(y, v)), Product(x, u))

LEMMA MixedIs ==
  ASSUME NEW x \in IntPoly, NEW y \in IntPoly, NEW u \in IntPoly, NEW v \in IntPoly
  PROVE  Mixed(x, y, u, v) = Plus(Product(x, v), Product(y, u))
<1> DEFINE P1 == Product(Plus(x, y), Plus(u, v))
           P2 == Product(x, u)
           P3 == Product(x, v)
           P4 == Product(y, u)
           P5 == Product(y, v)
<1>1. P2 \in IntPoly /\ P3 \in IntPoly
  BY ProductAt
<1>2. P4 \in IntPoly /\ P5 \in IntPoly
  BY ProductAt
<1>3. \A k \in Index : P1[k] = P2[k] + P3[k] + P4[k] + P5[k]
  BY ExpandSum
<1> HIDE DEF P1, P2, P3, P4, P5
<1>4. \A k \in Index : P2[k] \in Int /\ P3[k] \in Int /\ P4[k] \in Int /\ P5[k] \in Int
  BY <1>1, <1>2, Entries
<1>5. \A k \in Index : (P1[k] - P5[k]) - P2[k] = P3[k] + P4[k]
  BY <1>3, <1>4
<1>6. Minus(Minus(P1, P5), P2) = Plus(P3, P4)
  BY <1>5 DEF Minus, Plus
<1> QED
  BY <1>6 DEF Mixed, P1, P2, P3, P4, P5

\* A factor may be multiplied to either factor of a product, or to both.
LEMMA FactorMoves ==
  ASSUME NEW x \in IntPoly, NEW y \in IntPoly, NEW s \in IntPoly
  PROVE  /\ Product(Product(x, y), s) = Product(Product(x, s), y)
         /\ Product(Product(x, y), s) = Product(x, Product(y, s))
         /\ Product(Product(x, s), Product(y, s)) = Product(Product(x, y), Product(s, s))
<1>1. Product(x, y) \in IntPoly /\ Product(x, s) \in IntPoly
  BY ProductAt
<1>2. Product(y, s) \in IntPoly /\ Product(s, s) \in IntPoly
  BY ProductAt
<1>3. Product(Product(x, y), s) = Product(x, Product(y, s))
  BY ProductAssociates
<1>4. Product(y, s) = Product(s, y)
  BY ProductCommutes
<1>5. Product(Product(x, s), y) = Product(x, Product(s, y))
  BY ProductAssociates
<1> DEFINE ys == Product(y, s)
           ss == Product(s, s)
<1>6. Product(Product(x, s), ys) = Product(x, Product(s, ys))
  <2> HIDE DEF ys
  <2> QED
    BY <1>2, ProductAssociates DEF ys
<1>7. Product(s, ys) = Product(y, ss)
  BY ProductExchange
<1>8. Product(Product(x, y), ss) = Product(x, Product(y, ss))
  <2>1. ss \in IntPoly
    BY <1>2
  <2> HIDE DEF ss
  <2> QED
    BY <2>1, ProductAssociates
<1> HIDE DEF ys, ss
<1>9. Product(Product(x, s), ys) = Product(Product(x, y), ss)
  BY <1>6, <1>7, <1>8
<1> QED
  BY <1>3, <1>4, <1>5, <1>9 DEF ys, ss

\* (b1 + a1 * s) * (b2 + a2 * s), sorted by powers of the secret s.
LEMMA ProductOfSums ==
  ASSUME NEW x \in IntPoly, NEW y \in IntPoly, NEW u \in IntPoly, NEW v \in IntPoly, NEW k \in Index
  PROVE  /\ Product(y, v)[k] \in Int /\ Product(Mixed(x, y, u, v), secret)[k] \in Int
         /\ Product(Product(x, u), Product(secret, secret))[k] \in Int
         /\ Product(Plus(y, Product(x, secret)), Plus(v, Product(u, secret)))[k]
              = Product(y, v)[k] + Product(Mixed(x, y, u, v), secret)[k]
                  + Product(Product(x, u), Product(secret, secret))[k]
<1> DEFINE s == secret
           A == Product(x, s)
           B == Product(u, s)
           Q1 == Product(x, v)
           Q2 == Product(y, u)
           z1 == Product(y, v)[k]
           z2 == Product(y, B)[k]
           z3 == Product(A, v)[k]
           z4 == Product(A, B)[k]
           z5 == Product(Mixed(x, y, u, v), s)[k]
           z6 == Product(Product(x, u), Product(s, s))[k]
           z7 == Product(Plus(y, A), Plus(v, B))[k]
<1>1. s \in IntPoly
  BY ConstantFacts
<1>2. A \in IntPoly /\ B \in IntPoly
  <2> HIDE DEF s
  <2> QED
    BY <1>1, ProductAt
<1>3. Q1 \in IntPoly /\ Q2 \in IntPoly
  BY ProductAt
<1>4. Mixed(x, y, u, v) = Plus(Q1, Q2)
  BY MixedIs
<1>5. z4 = z6
  BY <1>1, FactorMoves
<1>6. Product(Q1, s) = Product(A, v)
  BY <1>1, FactorMoves
<1>7. Product(Q2, s) = Product(y, B)
  BY <1>1, FactorMoves
<1> HIDE DEF Q1, Q2, A, B, s
<1>8. z5 = Product(Q1, s)[k] + Product(Q2, s)[k]
  <2>1. Product(Plus(Q1, Q2), s)[k] = Product(Q1, s)[k] + Product(Q2, s)[k]
    BY <1>1, <1>3, ProductPlus
  <2> QED
    BY <1>4, <2>1
<1>9. z7 = z1 + z2 + z3 + z4
  <2>1. Product(Plus(y, A), Plus(v, B))[k]
          = Product(y, v)[k] + Product(y, B)[k] + Product(A, v)[k] + Product(A, B)[k]
    BY <1>2, ExpandSum
  <2> QED
    BY <2>1
<1>10. z1 \in Int /\ z2 \in Int /\ z3 \in Int /\ z4 \in Int
  <2>1. Product(y, v) \in IntPoly /\ Product(y, B) \in IntPoly
    BY <1>2, ProductAt
  <2>2. Product(A, v) \in IntPoly /\ Product(A, B) \in IntPoly
    BY <1>2, ProductAt
  <2> QED
    BY <2>1, <2>2, Entries
<1>11. z5 = z3 + z2
  BY <1>6, <1>7, <1>8
<1> HIDE DEF z1, z2, z3, z4, z5, z6, z7
<1>12. z1 \in Int /\ z5 \in Int /\ z6 \in Int /\ z7 = z1 + z5 + z6
  BY <1>5, <1>9, <1>10, <1>11
<1> QED
  BY <1>12 DEF z1, z5, z6, z7, A, B, s

\* What the noise of two messages does to their product.
LEMMA ProductNoise ==
  ASSUME NEW x \in IntPoly, NEW y \in IntPoly, NEW u \in IntPoly, NEW v \in IntPoly,
         NEW m \in Nat, NEW n \in Nat, AreSmall(u, m), AreSmall(v, n), NEW k \in Index
  PROVE  /\ Product(x, y)[k] \in Int /\ Product(Plus(x, u), Plus(y, v))[k] - Product(x, y)[k] \in Int
         /\ Norm(x) * n + Norm(y) * m + N * m * n \in Nat
         /\ Magnitude(Product(Plus(x, u), Plus(y, v))[k] - Product(x, y)[k])
              <= Norm(x) * n + Norm(y) * m + N * m * n
<1> DEFINE z1 == Product(x, y)[k]
           z2 == Product(x, v)[k]
           z3 == Product(u, y)[k]
           z4 == Product(u, v)[k]
           z5 == Product(Plus(x, u), Plus(y, v))[k]
           Nx == Norm(x)
           Ny == Norm(y)
           Nu == Norm(u)
           Nm == N * m
<1>1. z5 = z1 + z2 + z3 + z4
  BY ExpandSum
<1>2. z1 \in Int /\ z2 \in Int /\ z3 \in Int /\ z4 \in Int
  <2>1. Product(x, y) \in IntPoly /\ Product(x, v) \in IntPoly
    BY ProductAt
  <2>2. Product(u, y) \in IntPoly /\ Product(u, v) \in IntPoly
    BY ProductAt
  <2> QED
    BY <2>1, <2>2, Entries
<1>3. Magnitude(z2) <= n * Nx /\ n * Nx \in Nat
  BY ProductIsSmall DEF AreSmall
<1>4. Magnitude(z3) <= m * Ny /\ m * Ny \in Nat
  <2>1. AreSmall(Product(y, u), m * Norm(y)) /\ m * Norm(y) \in Nat
    BY ProductIsSmall
  <2>2. Product(y, u) = Product(u, y)
    BY ProductCommutes
  <2> QED
    BY <2>1, <2>2 DEF AreSmall
<1>5. Magnitude(z4) <= n * Nu /\ n * Nu \in Nat
  BY ProductIsSmall DEF AreSmall
<1>6. Nu <= Nm /\ Nm \in Nat
  BY NormIsSmall
<1>7. Nx \in Nat /\ Ny \in Nat /\ Nu \in Nat
  BY NormFacts
<1>8. N \in Int
  BY Degree
<1> HIDE DEF z1, z2, z3, z4, z5, Nx, Ny, Nu, Nm
<1>9. n * Nu <= n * Nm /\ n * Nm \in Nat
  BY <1>6, <1>7
<1> DEFINE w1 == n * Nx
           w2 == m * Ny
           w3 == n * Nm
           w4 == n * Nu
<1>10. w1 \in Nat /\ w2 \in Nat /\ w3 \in Nat /\ w4 \in Nat /\ w4 <= w3
       /\ Magnitude(z2) <= w1 /\ Magnitude(z3) <= w2 /\ Magnitude(z4) <= w4
  BY <1>3, <1>4, <1>5, <1>9
<1>11. Nx * n = w1 /\ Ny * m = w2 /\ Nm * n = w3
  BY <1>6, <1>7
<1> HIDE DEF w1, w2, w3, w4
<1>12. z5 - z1 = z2 + z3 + z4
  BY <1>1, <1>2
<1>13. Magnitude(z2 + z3 + z4) <= w1 + w2 + w3
  BY <1>2, <1>10 DEF Magnitude
<1>14. Nx * n + Ny * m + Nm * n = w1 + w2 + w3
  BY <1>11
<1>15. /\ z1 \in Int /\ z5 - z1 \in Int /\ Nx * n + Ny * m + Nm * n \in Nat
       /\ Magnitude(z5 - z1) <= Nx * n + Ny * m + Nm * n
  BY <1>2, <1>10, <1>12, <1>13, <1>14
<1> QED
  BY <1>15 DEF z1, z5, Nx, Ny, Nm

\* Two ciphertexts of one level are multiplied as their messages are.
LEMMA MultEncrypts ==
  ASSUME NEW l, NEW A1, NEW B1, NEW t1, NEW r1, NEW a1, NEW b1, NEW e1, Encrypts(A1, B1, l, t1, r1, a1, b1, e1),
         NEW A2, NEW B2, NEW t2, NEW r2, NEW a2, NEW b2, NEW e2, Encrypts(A2, B2, l, t2, r2, a2, b2, e2),
         NEW S \in Nat, NEW u \in IntPoly, NEW w \in IntPoly, NEW z \in IntPoly, AreSmall(z, S),
         \A k \in Index : w[k] + Product(u, secret)[k]
                            = Product(Product(a1, a2), Product(secret, secret))[k] + z[k],
         NEW CX, NEW DX, Stands(CX, Plus(u, Mixed(a1, b1, a2, b2)), Both(L), l),
         Stands(DX, Plus(w, Product(b1, b2)), Both(L), l)
  PROVE  \E a, b, e \in IntPoly :
           Encrypts(CX, DX, l, Product(t1, t2), Norm(t1) * r2 + Norm(t2) * r1 + N * r1 * r2 + S, a, b, e)
<1> DEFINE t == Product(t1, t2)
           T == Product(Plus(t1, e1), Plus(t2, e2))
           B == Product(b1, b2)
           X == Mixed(a1, b1, a2, b2)
           a == Plus(u, X)
           b == Plus(w, B)
           e == Plus(Minus(T, t), z)
           R == Norm(t1) * r2 + Norm(t2) * r1 + N * r1 * r2
           f == Product(Product(a1, a2), Product(secret, secret))
<1>1. /\ a1 \in IntPoly /\ b1 \in IntPoly /\ t1 \in IntPoly /\ e1 \in IntPoly
      /\ a2 \in IntPoly /\ b2 \in IntPoly /\ t2 \in IntPoly /\ e2 \in IntPoly
      /\ r1 \in Nat /\ r2 \in Nat /\ AreSmall(e1, r1) /\ AreSmall(e2, r2) /\ l \in 1 .. L
  BY DEF Encrypts
<1>2. secret \in IntPoly
  BY ConstantFacts
<1>3. Plus(t1, e1) = Plus(b1, Product(a1, secret)) /\ Plus(t2, e2) = Plus(b2, Product(a2, secret))
  BY DEF Encrypts, Plus
<1>4. Product(a1, b2) \in IntPoly /\ Product(b1, a2) \in IntPoly
  BY <1>1, ProductAt
<1>5. X \in IntPoly
  <2> DEFINE y1 == Product(a1, b2)
             y2 == Product(b1, a2)
  <2>1. X = Plus(y1, y2)
    BY <1>1, MixedIs
  <2>2. y1 \in IntPoly /\ y2 \in IntPoly
    BY <1>4
  <2> HIDE DEF y1, y2, X
  <2> QED
    BY <2>1, <2>2, PolyFacts
<1>6. Plus(t1, e1) \in IntPoly /\ Plus(t2, e2) \in IntPoly
  BY <1>1, PolyFacts
<1>7. t \in IntPoly /\ T \in IntPoly /\ B \in IntPoly
  <2>1. t \in IntPoly /\ B \in IntPoly
    BY <1>1, ProductAt
  <2> DEFINE y1 == Plus(t1, e1)
             y2 == Plus(t2, e2)
  <2>2. y1 \in IntPoly /\ y2 \in IntPoly
    BY <1>6
  <2> HIDE DEF y1, y2
  <2>3. Product(y1, y2) \in IntPoly
    BY <2>2, ProductAt
  <2> QED
    BY <2>1, <2>3 DEF y1, y2
<1>8. /\ R \in Nat
      /\ \A k \in Index : T[k] - t[k] \in Int /\ Magnitude(T[k] - t[k]) <= R
  BY <1>1, ProductNoise, Degree
<1>9. \A k \in Index : T[k] = B[k] + Product(X, secret)[k] + f[k]
  <2>1. a1 \in IntPoly /\ b1 \in IntPoly /\ a2 \in IntPoly /\ b2 \in IntPoly
    BY <1>1
  <2>2. \A k \in Index : Product(Plus(b1, Product(a1, secret)), Plus(b2, Product(a2, secret)))[k]
                            = B[k] + Product(X, secret)[k] + f[k]
    BY <2>1, ProductOfSums
  <2> QED
    BY <1>3, <2>2
<1>10. Product(X, secret) \in IntPoly /\ Product(u, secret) \in IntPoly
  <2> HIDE DEF X
  <2> QED
    BY <1>2, <1>5, ProductAt
<1>11. \A k \in Index : f[k] \in Int
  BY <1>1, ProductOfSums
<1>12. \A k \in Index : Product(a, secret)[k] = Product(u, secret)[k] + Product(X, secret)[k]
  <2> HIDE DEF X
  <2> QED
    BY <1>2, <1>5, ProductPlus
<1> DEFINE us == Product(u, secret)
           xs == Product(X, secret)
           ps == Product(a, secret)
<1>13. \A k \in Index : w[k] + us[k] = f[k] + z[k] /\ T[k] = B[k] + xs[k] + f[k] /\ ps[k] = us[k] + xs[k]
  BY <1>9, <1>12
<1> HIDE DEF t, T, B, X, us, xs, ps, f
<1>14. ASSUME NEW k \in Index
       PROVE  /\ w[k] \in Int /\ us[k] \in Int /\ z[k] \in Int /\ T[k] \in Int /\ B[k] \in Int /\ xs[k] \in Int
              /\ t[k] \in Int /\ f[k] \in Int
  <2>1. us \in IntPoly /\ xs \in IntPoly
    BY <1>10 DEF us, xs
  <2> QED
    BY <1>7, <1>11, <2>1, Entries
<1>15. a \in IntPoly /\ b \in IntPoly /\ e \in IntPoly
  <2>1. Minus(T, t) \in IntPoly
    BY <1>7, PolyFacts
  <2> DEFINE y == Minus(T, t)
  <2>2. y \in IntPoly
    BY <2>1
  <2> HIDE DEF y
  <2>3. Plus(y, z) \in IntPoly
    BY <2>2, PolyFacts
  <2> QED
    BY <1>5, <1>7, <2>3, PolyFacts DEF y
<1>16. \A k \in Index : b[k] = w[k] + B[k] /\ e[k] = (T[k] - t[k]) + z[k]
  BY DEF Plus, Minus
<1> HIDE DEF a, b, e, R
<1>17. ASSUME NEW k \in Index PROVE b[k] + ps[k] = t[k] + e[k] /\ Magnitude(e[k]) <= R + S
  <2> DEFINE y1 == w[k]
             y2 == us[k]
             y3 == z[k]
             y4 == T[k]
             y5 == B[k]
             y6 == xs[k]
             y7 == t[k]
             y8 == f[k]
             y9 == b[k]
             x1 == e[k]
             x2 == ps[k]
  <2>1. /\ y1 \in Int /\ y2 \in Int /\ y3 \in Int /\ y4 \in Int /\ y5 \in Int /\ y6 \in Int /\ y7 \in Int /\ y8 \in Int
        /\ y1 + y2 = y8 + y3 /\ y4 = y5 + y6 + y8 /\ x2 = y2 + y6 /\ y9 = y1 + y5 /\ x1 = (y4 - y7) + y3
    BY <1>13, <1>14, <1>16
  <2>2. Magnitude(y4 - y7) <= R /\ Magnitude(y3) <= S /\ R \in Int /\ S \in Int
    BY <1>8 DEF AreSmall
  <2> HIDE DEF y1, y2, y3, y4, y5, y6, y7, y8, y9, x1, x2
  <2>3. y9 + x2 = y7 + x1
    BY <2>1
  <2>4. Magnitude(x1) <= R + S
    <3> DEFINE y == y4 - y7
    <3>1. y \in Int /\ x1 = y + y3 /\ Magnitude(y) <= R
      BY <2>1, <2>2
    <3> HIDE DEF y
    <3> QED
      BY <2>1, <2>2, <3>1, MagnitudeOfSum
  <2> QED
    BY <2>3, <2>4 DEF y7, y9, x1, x2
<1>18. R + S \in Nat
  BY <1>8
<1> DEFINE r == R + S
<1>19. Stands(CX, a, Both(L), l) /\ Stands(DX, b, Both(L), l)
  BY DEF a, b, X, B
<1> HIDE DEF r
<1>20. Encrypts(CX, DX, l, t, r, a, b, e)
  BY <1>1, <1>7, <1>15, <1>17, <1>18, <1>19 DEF Encrypts, AreSmall, ps, r
<1>21. \E x, y, v \in IntPoly : Encrypts(CX, DX, l, t, r, x, y, v)
  BY <1>15, <1>20
<1> QED
  BY <1>21 DEF t, r, R

\* axbx without bxbx and axax, on residues.
LEMMA CrossTermsStand ==
  ASSUME NEW l \in 1 .. L + K, NEW a1 \in IntPoly, NEW b1 \in IntPoly, NEW a2 \in IntPoly, NEW b2 \in IntPoly,
         NEW A1, NEW B1, NEW A2, NEW B2, Follows(A1, a1, Both(L), l), Follows(B1, b1, Both(L), l),
         Follows(A2, a2, Both(L), l), Follows(B2, b2, Both(L), l)
  PROVE  /\ Mixed(a1, b1, a2, b2) \in IntPoly
         /\ Follows(CrossTerms(mulPoly(addPoly(A1, B1, l), addPoly(A2, B2, l), l), mulPoly(B1, B2, l),
                               mulPoly(A1, A2, l), l),
                    Mixed(a1, b1, a2, b2), Both(L), l)
<1> DEFINE SA == addPoly(A1, B1, l)
           SB == addPoly(A2, B2, l)
           x == Plus(a1, b1)
           y == Plus(a2, b2)
           AB == mulPoly(SA, SB, l)
           BB == mulPoly(B1, B2, l)
           AA == mulPoly(A1, A2, l)
           DD == subPoly(AB, BB, l)
           v1 == Product(x, y)
           v2 == Product(b1, b2)
           v3 == Product(a1, a2)
           v4 == Minus(v1, v2)
<1>1. x \in IntPoly /\ y \in IntPoly
  BY PolyFacts
<1>2. Follows(SA, x, Both(L), l) /\ Follows(SB, y, Both(L), l)
  BY SumStands DEF Stands
<1> HIDE DEF SA, SB, x, y
<1>3. Follows(AB, v1, Both(L), l) /\ v1 \in IntPoly
  BY <1>1, <1>2, ProductStands, ProductAt DEF Stands
<1>4. Follows(BB, v2, Both(L), l) /\ v2 \in IntPoly
  BY ProductStands, ProductAt DEF Stands
<1>5. Follows(AA, v3, Both(L), l) /\ v3 \in IntPoly
  BY ProductStands, ProductAt DEF Stands
<1> HIDE DEF AB, BB, AA, v1, v2, v3
<1>6. Follows(DD, v4, Both(L), l) /\ v4 \in IntPoly
  BY <1>3, <1>4, SumStands, PolyFacts DEF Stands
<1> HIDE DEF DD, v4
<1>7. Follows(subPoly(DD, AA, l), Minus(v4, v3), Both(L), l) /\ Minus(v4, v3) \in IntPoly
  BY <1>5, <1>6, SumStands, PolyFacts DEF Stands
<1>8. Mixed(a1, b1, a2, b2) = Minus(v4, v3)
  BY DEF Mixed, v1, v2, v3, v4, x, y
<1>9. CrossTerms(mulPoly(addPoly(A1, B1, l), addPoly(A2, B2, l), l), mulPoly(B1, B2, l), mulPoly(A1, A2, l), l)
        = subPoly(DD, AA, l)
  BY DEF CrossTerms, DD, AA, AB, BB, SA, SB
<1> QED
  BY <1>7, <1>8, <1>9

\* mult: Karatsuba's products, and the key switching of axax back to a secret.
LEMMA MultIsSound ==
  ASSUME NEW x, NEW y, Sound(x), Sound(y), x.l = y.l
  PROVE  Sound(mult(x, y)) /\ mult(x, y).l = x.l
<1> DEFINE l == x.l
           A1 == x.ax
           B1 == x.bx
           t1 == x.t
           r1 == x.err
           A2 == y.ax
           B2 == y.bx
           t2 == y.t
           r2 == y.err
           AA == mulPoly(A1, A2, l)
           BB == mulPoly(B1, B2, l)
           X == CrossTerms(mulPoly(addPoly(A1, B1, l), addPoly(A2, B2, l), l), BB, AA, l)
           SX == KeySwitch(AA, "MULTIPLICATION", l).ax
           SY == KeySwitch(AA, "MULTIPLICATION", l).bx
           CX == addPoly(SX, X, l)
           DX == addPoly(SY, BB, l)
           S == SwitchNoise("MULTIPLICATION", l)
           R == Norm(t1) * r2 + Norm(t2) * r1 + N * r1 * r2 + S
           t == Product(t1, t2)
           fits == x.fits /\ y.fits
           f == Product(secret, secret)
<1>1. mult(x, y) = Cipher(CX, DX, l, t, R, fits)
  BY DEF mult
<1>2. PICK a1, b1, e1 \in IntPoly : Encrypts(A1, B1, l, t1, r1, a1, b1, e1)
  BY SoundFacts
<1>3. PICK a2, b2, e2 \in IntPoly : Encrypts(A2, B2, l, t2, r2, a2, b2, e2)
  BY SoundFacts
<1>4. l \in 1 .. L /\ l \in 1 .. L + K
  BY SoundFacts
<1> HIDE DEF l, A1, B1, t1, r1, A2, B2, t2, r2, fits
<1>5. /\ Follows(A1, a1, Both(L), l) /\ Follows(B1, b1, Both(L), l)
      /\ Follows(A2, a2, Both(L), l) /\ Follows(B2, b2, Both(L), l)
  BY <1>2, <1>3 DEF Encrypts, Stands
<1> DEFINE aa == Product(a1, a2)
           bb == Product(b1, b2)
           mx == Mixed(a1, b1, a2, b2)
<1>6. Stands(AA, aa, Both(L), l) /\ aa \in IntPoly
  BY <1>2, <1>3, <1>4, <1>5, ProductStands, ProductAt
<1>7. Follows(BB, bb, Both(L), l) /\ bb \in IntPoly
  BY <1>2, <1>3, <1>4, <1>5, ProductStands, ProductAt DEF Stands
<1>8. Follows(X, mx, Both(L), l) /\ mx \in IntPoly
  BY <1>2, <1>3, <1>4, <1>5, CrossTermsStand
<1> HIDE DEF aa, bb, mx, X, BB, AA, f
<1>9. IsKeyFor("MULTIPLICATION", f)
  BY KeysAreRight DEF f
<1>10. /\ S \in Nat
       /\ \E u, w, z \in IntPoly :
            /\ Stands(SX, u, Both(L), l) /\ Stands(SY, w, Both(L), l) /\ AreSmall(z, S)
            /\ \A k \in Index : w[k] + Product(u, secret)[k] = Product(aa, f)[k] + z[k]
  BY <1>4, <1>6, <1>9, KeySwitchIsRight
<1> HIDE DEF S, SX, SY
<1>11. PICK u, w, z \in IntPoly :
            /\ Stands(SX, u, Both(L), l) /\ Stands(SY, w, Both(L), l) /\ AreSmall(z, S)
            /\ \A k \in Index : w[k] + Product(u, secret)[k] = Product(aa, f)[k] + z[k]
  BY <1>10
<1>12. Follows(SX, u, Both(L), l) /\ Follows(SY, w, Both(L), l)
  BY <1>11 DEF Stands
<1>13. Stands(CX, Plus(u, mx), Both(L), l)
  BY <1>4, <1>8, <1>11, <1>12, SumStands
<1>14. Stands(DX, Plus(w, bb), Both(L), l)
  BY <1>4, <1>7, <1>11, <1>12, SumStands
<1> HIDE DEF CX, DX
<1>15. \E a, b, e \in IntPoly : Encrypts(CX, DX, l, t, R, a, b, e)
  <2>1. \A k \in Index : w[k] + Product(u, secret)[k] = Product(Product(a1, a2), Product(secret, secret))[k] + z[k]
    BY <1>11 DEF aa, f
  <2>2. Stands(CX, Plus(u, Mixed(a1, b1, a2, b2)), Both(L), l) /\ Stands(DX, Plus(w, Product(b1, b2)), Both(L), l)
    BY <1>13, <1>14 DEF mx, bb
  <2> QED
    BY <1>2, <1>3, <1>10, <1>11, <2>1, <2>2, MultEncrypts
<1> HIDE DEF t, R
<1>16. PICK a, b, e \in IntPoly : Encrypts(CX, DX, l, t, R, a, b, e)
  BY <1>15
<1>17. Sound(mult(x, y)) /\ mult(x, y).l = l
  BY <1>1, <1>16, CipherIsSound
<1> QED
  BY <1>17 DEF l

\* Both of them have their key.
LEMMA SwitchesAreSound ==
  ASSUME NEW x, Sound(x)
  PROVE  Sound(conjugate(x)) /\ Sound(leftRotateFast(x))
<1>1. PICK g \in Int : AreInverse(Conjugation, g)
  BY Inverses
<1>2. Sound(conjugate(x))
  BY <1>1, KeysAreRight, SwitchedIsSound DEF conjugate
<1>3. PICK h \in Int : AreInverse(Rotation, h)
  BY Inverses
<1>4. Sound(leftRotateFast(x))
  BY <1>3, KeysAreRight, SwitchedIsSound DEF leftRotateFast
<1> QED
  BY <1>2, <1>4

(***************************************************************************)
(* Every reachable ciphertext stands for exact integer polynomials that    *)
(* decrypt, with the exact secret, to its message and a noise within its   *)
(* bound: what each operation keeps, and the strengthening from which the  *)
(* two decryptions follow.                                                 *)
(***************************************************************************)
BothSound == Sound(c) /\ Sound(d)

\* However the operations of Scheme.cpp are called, in any number and order,
\* their ciphertexts stand for such polynomials: no key switching, rescaling or
\* change of level loses what the message was.
THEOREM CiphertextsAreSound == Spec => []BothSound
<1>1. Init => BothSound
  <2> SUFFICES ASSUME Init PROVE BothSound
    OBVIOUS
  <2>1. /\ \A t \in Message : t \in IntPoly
        /\ \A l \in 2 .. L : l \in 1 .. L
        /\ L \in 1 .. L
    BY ConstantFacts, Chain
  <2>2. Sound(c)
    <3>1. PICK t \in Message, l \in 2 .. L, s \in Samples : c = encryptMsg(t, l, s)
      BY DEF Init
    <3> QED
      BY <2>1, <3>1, EncryptIsSound
  <2>3. Sound(d)
    <3>1. PICK t \in Message, s \in Samples : d = encryptMsg(t, L, s)
      BY DEF Init
    <3> QED
      BY <2>1, <3>1, EncryptIsSound
  <2> QED
    BY <2>2, <2>3 DEF BothSound
<1>2. BothSound /\ [Next]_vars => BothSound'
  <2> SUFFICES ASSUME BothSound, [Next]_vars PROVE BothSound'
    OBVIOUS
  <2>1. Sound(c) /\ Sound(d)
    BY DEF BothSound
  <2>2. ASSUME NEW x, To(x), Sound(x) PROVE BothSound'
    BY <2>1, <2>2 DEF BothSound, To
  <2>3. CASE Copy
    BY <2>1, <2>3 DEF Copy, BothSound
  <2>4. CASE Align
    <3> DEFINE dl == d.l - c.l
    <3>1. dl \in 1 .. d.l - 1
      <4>1. d.l \in 1 .. L /\ c.l \in 1 .. L /\ L \in Nat
        BY <2>1, SoundFacts, Chain
      <4> QED
        BY <2>4, <4>1 DEF Align
    <3>2. d' = modDownBy(d, dl) /\ c' = c
      BY <2>4 DEF Align
    <3> HIDE DEF dl
    <3>3. Sound(modDownBy(d, dl))
      BY <2>1, <3>1, ModDownIsSound
    <3> QED
      BY <2>1, <3>2, <3>3 DEF BothSound
  <2>5. CASE Add
    <3>1. c.l <= d.l /\ To(add2(c, d))
      BY <2>5 DEF Add
    <3> QED
      BY <2>1, <2>2, <3>1, AddIsSound
  <2>6. CASE Sub
    <3>1. c.l = d.l /\ To(sub2(c, d)) /\ c.l \in Nat
      BY <2>1, <2>6, SoundFacts DEF Sub
    <3>2. c.l <= d.l /\ d.l <= c.l
      BY <3>1
    <3> QED
      BY <2>1, <2>2, <3>1, <3>2, AddIsSound
  <2>7. CASE Sub2
    <3>1. c.l = d.l /\ To(sub2(d, c)) /\ c.l \in Nat
      BY <2>1, <2>7, SoundFacts DEF Sub2
    <3>2. c.l <= d.l /\ d.l <= c.l
      BY <3>1
    <3> QED
      BY <2>1, <2>2, <3>1, <3>2, AddIsSound
  <2>8. CASE Mult
    <3>1. c.l = d.l /\ To(mult(c, d))
      BY <2>8 DEF Mult
    <3> QED
      BY <2>1, <2>2, <3>1, MultIsSound
  <2>9. CASE Square
    <3>1. To(mult(c, c))
      BY <2>9 DEF Square
    <3> QED
      BY <2>1, <2>2, <3>1, MultIsSound
  <2>10. CASE Negate
    <3>1. To(negate1(c))
      BY <2>10 DEF Negate
    <3> QED
      BY <2>1, <2>2, <3>1, NegateIsSound
  <2>11. CASE MultByConst
    <3>1. PICK n \in Const : To(multByConst(c, n))
      BY <2>11 DEF MultByConst
    <3> QED
      BY <2>1, <2>2, <3>1, MultByConstIsSound
  <2>12. CASE AddConst
    <3>1. PICK n \in Const : To(addConst(c, n))
      BY <2>12 DEF AddConst
    <3> QED
      BY <2>1, <2>2, <3>1, AddConstIsSound
  <2>13. CASE ReScale
    <3>1. c.l > 1 /\ To(reScaleBy1(c))
      BY <2>13 DEF ReScale
    <3> QED
      BY <2>1, <2>2, <3>1, ReScaleIsSound
  <2>14. CASE ModDown
    <3>1. PICK dl \in 1 .. c.l - 1 : To(modDownBy(c, dl))
      BY <2>14 DEF ModDown
    <3> QED
      BY <2>1, <2>2, <3>1, ModDownIsSound
  <2>15. CASE Conjugate
    <3>1. To(conjugate(c))
      BY <2>15 DEF Conjugate
    <3> QED
      BY <2>1, <2>2, <3>1, SwitchesAreSound
  <2>16. CASE LeftRotate
    <3>1. To(leftRotateFast(c))
      BY <2>16 DEF LeftRotate
    <3> QED
      BY <2>1, <2>2, <3>1, SwitchesAreSound
  <2>17. CASE SquareWithoutKey
    <3>1. To(Emptied(c))
      BY <2>17 DEF SquareWithoutKey
    <3> QED
      BY <2>1, <2>2, <3>1, EmptiedIsSound
  <2>18. CASE AddKey
    BY <2>1, <2>18 DEF AddKey, BothSound
  <2>19. CASE UNCHANGED vars
    BY <2>1, <2>19 DEF vars, BothSound
  <2> QED
    BY <2>3, <2>4, <2>5, <2>6, <2>7, <2>8, <2>9, <2>10, <2>11, <2>12, <2>13, <2>14, <2>15, <2>16, <2>17, <2>18, <2>19 DEF Next
<1> QED
  BY <1>1, <1>2, PTL DEF Spec

\* Reducing and centring undo each other on small integers.
LEMMA CenteredIs ==
  ASSUME NEW m \in Nat \ {0}, NEW x \in Int, 2 * Magnitude(x) < m
  PROVE  Centered(x % m, m) = x
<1>1. x < m /\ 0 - m < x
  BY DEF Magnitude
<1>2. CASE x >= 0
  <2>1. x \in 0 .. m - 1
    BY <1>1, <1>2
  <2>2. Congruent(x, x, m)
    BY CongruenceIsEquivalence
  <2>3. x % m = x
    BY <2>1, <2>2, RemainderIs
  <2> QED
    BY <1>2, <2>3 DEF Centered, Magnitude
<1>3. CASE x < 0
  <2> DEFINE y == x + m
  <2>1. y \in 0 .. m - 1
    BY <1>1, <1>3
  <2>2. x - y = m * (0 - 1)
    OBVIOUS
  <2>3. Congruent(x, y, m)
    BY <2>2, DividesIntro DEF Congruent, Divides
  <2> HIDE DEF y
  <2>4. x % m = y
    BY <2>1, <2>3, RemainderIs
  <2>5. 2 * y > m /\ y - m = x
    BY <1>3 DEF y, Magnitude
  <2> QED
    BY <2>4, <2>5 DEF Centered
<1> QED
  BY <1>2, <1>3

\* The integer below the modulus that residues of X stand for.
LEMMA CombineLow ==
  ASSUME NEW n \in 1 .. L, NEW r \in [1 .. n -> Int], NEW X \in Int, \A i \in 1 .. n : Congruent(r[i], X, q[i])
  PROVE  Combine(r, q, n) = X % QProduct[n] /\ QProduct[n] \in Nat \ {0}
<1> DEFINE v == Value(r, n)
<1>1. AreModuli(q, n) /\ n > 0 /\ n \in Nat
  BY Systems
<1>2. QProduct[n] = ProductOf(q, n) /\ QProduct[n] \in Nat \ {0}
  BY ProductOfBoth
<1>3. \A i \in 1 .. n : q[i] \in Int /\ r[i] \in Int
  BY Lengths
<1>4. \A i \in 1 .. n : Congruent(X, r[i], q[i])
  BY <1>3, CongruenceIsEquivalence
<1>5. /\ v \in 0 .. QProduct[n] - 1 /\ v \in Int
      /\ \A i \in 1 .. n : Congruent(v, r[i], q[i])
      /\ v = X % QProduct[n]
  BY <1>4, LowValue
<1> HIDE DEF v
<1>6. v \in 0 .. ProductOf(q, n) - 1
  BY <1>2, <1>5
<1>7. Combine(r, q, n) = v
  BY <1>1, <1>3, <1>5, <1>6, CombineIs
<1> QED
  BY <1>2, <1>5, <1>7

\* What fits is less than half of the modulus.
LEMMA FittingNoise ==
  ASSUME NEW t \in IntPoly, NEW e \in IntPoly, NEW r \in Nat, AreSmall(e, r), NEW n \in 1 .. L, Fits(t, r, n),
         NEW k \in Index
  PROVE  2 * Magnitude(t[k] + e[k]) < QProduct[n] /\ t[k] + e[k] \in Int /\ Magnitude((t[k] + e[k]) - t[k]) <= r
<1> DEFINE x == t[k]
           y == e[k]
           b == Largest(t)
           m == QProduct[n]
<1>1. x \in Int /\ y \in Int
  BY Entries
<1>2. b \in Nat /\ Magnitude(x) <= b
  BY LargestFacts DEF AreSmall
<1>3. Magnitude(y) <= r
  BY DEF AreSmall
<1>4. 2 * (b + r) < m
  BY DEF Fits
<1>5. m \in Nat \ {0}
  BY ProductOfBoth
<1> HIDE DEF x, y, b, m
<1>6. Magnitude(x + y) <= b + r /\ Magnitude(x + y) \in Int /\ x + y \in Int
  BY <1>1, <1>2, <1>3 DEF Magnitude
<1>7. 2 * Magnitude(x + y) < m
  BY <1>2, <1>4, <1>5, <1>6
<1>8. (x + y) - x = y
  BY <1>1
<1> QED
  BY <1>3, <1>6, <1>7, <1>8 DEF x, y, m

\* With the residues that it looks at, decryption yields the message and its noise.
LEMMA DecryptionIsNear ==
  ASSUME NEW x, Sound(x), NEW n \in 1 .. x.l, Fits(x.t, x.err, n)
  PROVE  Near(Decrypted(x, n), x.t, x.err)
<1> DEFINE AX == x.ax
           BX == x.bx
           l == x.l
           t == x.t
           r == x.err
           A == addPoly(mulPoly(AX, SecretPoly, n), BX, n)
           Q == QProduct[n]
<1>1. PICK a, b, e \in IntPoly : Encrypts(AX, BX, l, t, r, a, b, e)
  BY SoundFacts
<1>2. l \in 1 .. L /\ l \in Nat /\ t \in IntPoly /\ r \in Nat
  BY SoundFacts
<1>3. L \in Nat /\ K \in Nat
  BY Chain
<1>4. n \in 1 .. L /\ n \in Nat /\ n \in 1 .. L + K /\ n <= l
  BY <1>2, <1>3
<1>5. Fits(t, r, n)
  OBVIOUS
<1>6. Decrypted(x, n) = [k \in Index |-> Centered(Combine([i \in 1 .. n |-> A[i][k]], q, n), Q)]
  BY DEF Decrypted
<1> HIDE DEF AX, BX, l, t, r
<1>7. /\ Follows(AX, a, Both(L), l) /\ Follows(BX, b, Both(L), l) /\ AreSmall(e, r)
      /\ \A k \in Index : b[k] + Product(a, secret)[k] = t[k] + e[k]
  BY <1>1 DEF Encrypts, Stands
<1>8. Follows(AX, a, Both(L), n) /\ Follows(BX, b, Both(L), n)
  BY <1>2, <1>4, <1>7, FollowsLess
<1>9. secret \in IntPoly /\ Follows(SecretPoly, secret, Both(L), n)
  <2>1. secret \in IntPoly
    BY ConstantFacts
  <2>2. Follows(SecretPoly, secret, Both(L), L + K) /\ L + K \in Nat /\ n <= L + K
    BY <1>3, <1>4, <2>1, FromIntStands DEF SecretPoly, Stands
  <2> QED
    BY <1>4, <2>1, <2>2, FollowsLess
<1> DEFINE y == Product(a, secret)
           AS == mulPoly(AX, SecretPoly, n)
           s == Plus(y, b)
<1>10. Follows(AS, y, Both(L), n) /\ y \in IntPoly
  BY <1>4, <1>8, <1>9, ProductStands, ProductAt DEF Stands
<1> HIDE DEF y, AS
<1>11. Stands(A, s, Both(L), n) /\ s \in IntPoly
  <2>1. Stands(addPoly(AS, BX, n), Plus(y, b), Both(L), n)
    BY <1>4, <1>8, <1>10, SumStands
  <2> QED
    BY <1>10, <2>1, PolyFacts DEF AS
<1>12. ASSUME NEW k \in Index PROVE s[k] = t[k] + e[k]
  <2>1. y[k] \in Int /\ b[k] \in Int
    BY <1>10, Entries
  <2>2. b[k] + y[k] = t[k] + e[k]
    BY <1>7 DEF y
  <2> QED
    BY <2>1, <2>2 DEF Plus
<1> HIDE DEF A, s
<1>13. ASSUME NEW k \in Index PROVE Centered(Combine([i \in 1 .. n |-> A[i][k]], q, n), Q) = s[k]
  <2> DEFINE g == [i \in 1 .. n |-> A[i][k]]
             X == s[k]
  <2>1. \A i \in 1 .. n : A[i] \in IntPoly
    BY <1>4, <1>11, StandsFacts
  <2>2. g \in [1 .. n -> Int] /\ \A i \in 1 .. n : g[i] = A[i][k]
    BY <2>1, Entries
  <2>3. \A i \in 1 .. n : Both(L)[i] = q[i]
    BY <1>3, <1>4, Chain
  <2>4. \A i \in 1 .. n : Congruent(g[i], X, q[i])
    BY <1>11, <2>2, <2>3 DEF Stands, Follows, Same
  <2>5. X \in Int
    BY <1>11, Entries
  <2>6. 2 * Magnitude(X) < Q
    BY <1>1, <1>2, <1>4, <1>5, <1>7, <1>12, FittingNoise
  <2> HIDE DEF g, X
  <2>7. Combine(g, q, n) = X % QProduct[n] /\ QProduct[n] \in Nat \ {0}
    BY <1>4, <2>2, <2>4, <2>5, CombineLow
  <2> HIDE DEF Q
  <2>8. Centered(X % Q, Q) = X
    BY <2>5, <2>6, <2>7, CenteredIs DEF Q
  <2>9. Centered(Combine(g, q, n), Q) = X
    BY <2>7, <2>8 DEF Q
  <2> QED
    BY <2>9 DEF g, X
<1>14. ASSUME NEW k \in Index PROVE Magnitude(Decrypted(x, n)[k] - t[k]) <= r
  <2>1. Decrypted(x, n)[k] = t[k] + e[k]
    BY <1>6, <1>12, <1>13
  <2>2. Magnitude((t[k] + e[k]) - t[k]) <= r
    BY <1>1, <1>2, <1>4, <1>5, <1>7, FittingNoise
  <2> QED
    BY <2>1, <2>2
<1>15. Near(Decrypted(x, n), t, r)
  BY <1>14 DEF Near
<1> QED
  BY <1>15 DEF t, r

\* However many operations made it, a ciphertext whose message and noise have
\* always fitted the modulus decrypts to what they should have computed.
THEOREM DecryptionIsCorrect == Spec => []DecryptsCorrectly
<1>1. BothSound => DecryptsCorrectly
  <2> SUFFICES ASSUME BothSound, NEW x \in {c, d}, x.fits PROVE Near(Decrypted(x, x.l), x.t, x.err)
    BY DEF DecryptsCorrectly
  <2>1. Sound(x)
    BY DEF BothSound
  <2>2. x.l \in 1 .. L /\ L \in Nat
    BY <2>1, SoundFacts, Chain
  <2>3. x.l \in 1 .. x.l
    BY <2>2
  <2>4. Fits(x.t, x.err, x.l)
    BY <2>1 DEF Sound
  <2> QED
    BY <2>1, <2>3, <2>4, DecryptionIsNear
<1> QED
  BY <1>1, CiphertextsAreSound, PTL

\* decryptMsg takes the first residue alone, at every level: that is enough when
\* the message and its noise fit the first modulus.
THEOREM FirstResidueIsEnough == Spec => []FirstResidueSuffices
<1>1. BothSound => FirstResidueSuffices
  <2> SUFFICES ASSUME BothSound, NEW x \in {c, d}, Fits(x.t, x.err, 1) PROVE Near(Decrypted(x, 1), x.t, x.err)
    BY DEF FirstResidueSuffices
  <2>1. Sound(x)
    BY DEF BothSound
  <2>2. x.l \in 1 .. L /\ L \in Nat
    BY <2>1, SoundFacts, Chain
  <2>3. 1 \in 1 .. x.l
    BY <2>2
  <2> QED
    BY <2>1, <2>3, DecryptionIsNear
<1> QED
  BY <1>1, CiphertextsAreSound, PTL

-------------------------------------------------------------------------------
(* Algorithms on ciphertexts: what an operation does to the four fields *)

Outcome == {"none", "exhausted", "bounds", "scales", "throws"}
Ciphertext == [l : Int, e : Int, v : Int, err : Outcome]

\* ok: nothing went wrong.
Has(x, lev, exp, val, ok) ==
  x \in Ciphertext /\ x.l = lev /\ x.e = exp /\ x.v = val /\ (x.err = "none" <=> ok)

LEMMA HasFacts ==
  ASSUME NEW x \in Ciphertext
  PROVE  /\ x.l \in Int /\ x.e \in Int /\ x.v \in Int
         /\ x = [l |-> x.l, e |-> x.e, v |-> x.v, err |-> x.err]
BY DEF Ciphertext

\* x with another level, power of the scale, plaintext.
AtLevel(x, a) == [x EXCEPT !.l = a]
AtScale(x, a) == [x EXCEPT !.e = a]
OfValue(x, a) == [x EXCEPT !.v = a]

LEMMA OneField ==
  ASSUME NEW x \in Ciphertext, NEW a \in Int
  PROVE  /\ AtLevel(x, a) \in Ciphertext
         /\ AtLevel(x, a) = [l |-> a, e |-> x.e, v |-> x.v, err |-> x.err]
         /\ AtScale(x, a) \in Ciphertext
         /\ AtScale(x, a) = [l |-> x.l, e |-> a, v |-> x.v, err |-> x.err]
         /\ OfValue(x, a) \in Ciphertext
         /\ OfValue(x, a) = [l |-> x.l, e |-> x.e, v |-> a, err |-> x.err]
<1>1. AtLevel(x, a) = [l |-> a, e |-> x.e, v |-> x.v, err |-> x.err]
  BY DEF Ciphertext, AtLevel
<1>2. AtScale(x, a) = [l |-> x.l, e |-> a, v |-> x.v, err |-> x.err]
  BY DEF Ciphertext, AtScale
<1>3. OfValue(x, a) = [l |-> x.l, e |-> x.e, v |-> a, err |-> x.err]
  BY DEF Ciphertext, OfValue
<1>4. x.l \in Int /\ x.e \in Int /\ x.v \in Int /\ x.err \in Outcome
  BY DEF Ciphertext
<1>5. \A a1, a2, a3 \in Int, o \in Outcome : [l |-> a1, e |-> a2, v |-> a3, err |-> o] \in Ciphertext
  BY DEF Ciphertext
<1> QED
  BY <1>1, <1>2, <1>3, <1>4, <1>5

LEMMA TwoFields ==
  ASSUME NEW x \in Ciphertext, NEW a \in Int, NEW b \in Int
  PROVE  /\ OfValue(AtScale(x, a), b) \in Ciphertext
         /\ OfValue(AtScale(x, a), b) = [l |-> x.l, e |-> a, v |-> b, err |-> x.err]
         /\ AtScale(OfValue(x, b), a) \in Ciphertext
         /\ AtScale(OfValue(x, b), a) = [l |-> x.l, e |-> a, v |-> b, err |-> x.err]
         /\ AtScale(AtLevel(x, b), a) \in Ciphertext
         /\ AtScale(AtLevel(x, b), a) = [l |-> b, e |-> a, v |-> x.v, err |-> x.err]
<1>1. /\ AtScale(x, a) \in Ciphertext /\ AtScale(x, a) = [l |-> x.l, e |-> a, v |-> x.v, err |-> x.err]
      /\ OfValue(x, b) \in Ciphertext /\ OfValue(x, b) = [l |-> x.l, e |-> x.e, v |-> b, err |-> x.err]
      /\ AtLevel(x, b) \in Ciphertext /\ AtLevel(x, b) = [l |-> b, e |-> x.e, v |-> x.v, err |-> x.err]
  BY OneField
<1>2. /\ OfValue(AtScale(x, a), b) \in Ciphertext
      /\ OfValue(AtScale(x, a), b) = [l |-> AtScale(x, a).l, e |-> AtScale(x, a).e, v |-> b, err |-> AtScale(x, a).err]
  BY <1>1, OneField
<1>3. /\ AtScale(OfValue(x, b), a) \in Ciphertext
      /\ AtScale(OfValue(x, b), a) = [l |-> OfValue(x, b).l, e |-> a, v |-> OfValue(x, b).v, err |-> OfValue(x, b).err]
  BY <1>1, OneField
<1>4. /\ AtScale(AtLevel(x, b), a) \in Ciphertext
      /\ AtScale(AtLevel(x, b), a) = [l |-> AtLevel(x, b).l, e |-> a, v |-> AtLevel(x, b).v, err |-> AtLevel(x, b).err]
  BY <1>1, OneField
<1> QED
  BY <1>1, <1>2, <1>3, <1>4

LEMMA FreshHas ==
  ASSUME NEW val \in Int, NEW lev \in Int PROVE Has(Fresh(val, lev), lev, 1, val, TRUE)
BY DEF Has, Fresh, Ciphertext, Outcome

LEMMA CheckHas ==
  ASSUME NEW x \in Ciphertext, NEW errs \in SUBSET Outcome, NEW bad \in BOOLEAN, NEW why \in Outcome,
         why # "none"
  PROVE  Has(Check(x, errs, bad, why), x.l, x.e, x.v, (\A s \in errs : s = "none") /\ ~bad)
<1> DEFINE err == IF \E s \in errs : s # "none" THEN CHOOSE s \in errs : s # "none"
                  ELSE IF bad THEN why ELSE "none"
<1>1. err \in Outcome /\ (err = "none" <=> (\A s \in errs : s = "none") /\ ~bad)
  <2>1. CASE \E s \in errs : s # "none"
    <3>1. (CHOOSE s \in errs : s # "none") \in errs /\ (CHOOSE s \in errs : s # "none") # "none"
      BY <2>1
    <3> QED
      BY <2>1, <3>1
  <2>2. CASE ~ \E s \in errs : s # "none"
    BY <2>2 DEF Outcome
  <2> QED
    BY <2>1, <2>2
<1>2. Check(x, errs, bad, why) = [x EXCEPT !.err = err]
  BY DEF Check
<1> HIDE DEF err
<1> QED
  BY <1>1, <1>2 DEF Has, Ciphertext

LEMMA SquareHas ==
  ASSUME NEW x \in Ciphertext
  PROVE  Has(squareAndEqual(x), x.l, 2 * x.e, x.v * x.v, x.err = "none" /\ x.l # 0)
<1> DEFINE y == [x EXCEPT !.e = 2 * @, !.v = @ * @]
<1>1. y \in Ciphertext /\ y.l = x.l /\ y.e = 2 * x.e /\ y.v = x.v * x.v
  <2> DEFINE a == 2 * x.e
             b == x.v * x.v
  <2>1. a \in Int /\ b \in Int /\ y = OfValue(AtScale(x, a), b)
    BY HasFacts DEF OfValue, AtScale
  <2> HIDE DEF a, b, y
  <2>2. y \in Ciphertext /\ y = [l |-> x.l, e |-> a, v |-> b, err |-> x.err]
    BY <2>1, TwoFields
  <2> QED
    BY <2>2 DEF a, b
<1>2. {x.err} \in SUBSET Outcome /\ (x.l = 0) \in BOOLEAN /\ "exhausted" \in Outcome /\ "exhausted" # "none"
  BY DEF Ciphertext, Outcome
<1> HIDE DEF y
<1>3. Has(Check(y, {x.err}, x.l = 0, "exhausted"), y.l, y.e, y.v, (\A s \in {x.err} : s = "none") /\ ~(x.l = 0))
  BY <1>1, <1>2, CheckHas
<1> QED
  BY <1>1, <1>3 DEF squareAndEqual, y, Has

LEMMA MultHas ==
  ASSUME NEW x \in Ciphertext, NEW y \in Ciphertext
  PROVE  Has(multAndEqual(x, y), x.l, x.e + y.e, x.v * y.v,
             x.err = "none" /\ y.err = "none" /\ x.l = y.l /\ x.l # 0)
<1> DEFINE z == [x EXCEPT !.e = @ + y.e, !.v = @ * y.v]
           bad == LevelsDiffer(x, y) \/ x.l = 0
<1>1. z \in Ciphertext /\ z.l = x.l /\ z.e = x.e + y.e /\ z.v = x.v * y.v
  <2> DEFINE a == x.e + y.e
             b == x.v * y.v
  <2>1. a \in Int /\ b \in Int /\ z = OfValue(AtScale(x, a), b)
    BY HasFacts DEF OfValue, AtScale
  <2> HIDE DEF a, b, z
  <2>2. z \in Ciphertext /\ z = [l |-> x.l, e |-> a, v |-> b, err |-> x.err]
    BY <2>1, TwoFields
  <2> QED
    BY <2>2 DEF a, b
<1>2. /\ {x.err, y.err} \in SUBSET Outcome /\ bad \in BOOLEAN /\ (bad <=> ~(x.l = y.l) \/ x.l = 0)
      /\ "bounds" \in Outcome /\ "bounds" # "none"
  BY DEF Ciphertext, Outcome, LevelsDiffer
<1>3. multAndEqual(x, y) = Check(z, {x.err, y.err}, bad, "bounds")
  BY DEF multAndEqual
<1> HIDE DEF z, bad
<1>4. Has(Check(z, {x.err, y.err}, bad, "bounds"), z.l, z.e, z.v, (\A s \in {x.err, y.err} : s = "none") /\ ~bad)
  BY <1>1, <1>2, CheckHas
<1> QED
  BY <1>1, <1>2, <1>3, <1>4 DEF Has

LEMMA AddHas ==
  ASSUME NEW x \in Ciphertext, NEW y \in Ciphertext
  PROVE  Has(addAndEqual(x, y), x.l, x.e, x.v + y.v,
             x.err = "none" /\ y.err = "none" /\ x.l = y.l /\ x.e = y.e)
<1> DEFINE z == [x EXCEPT !.v = @ + y.v]
           bad == x.l # y.l \/ x.e # y.e
           why == IF x.l # y.l THEN "throws" ELSE "scales"
<1>1. z \in Ciphertext /\ z.l = x.l /\ z.e = x.e /\ z.v = x.v + y.v
  BY DEF Ciphertext
<1>2. /\ {x.err, y.err} \in SUBSET Outcome /\ bad \in BOOLEAN /\ (bad <=> ~(x.l = y.l /\ x.e = y.e))
      /\ why \in Outcome /\ why # "none"
  BY DEF Ciphertext, Outcome
<1>3. addAndEqual(x, y) = Check(z, {x.err, y.err}, bad, why)
  BY DEF addAndEqual
<1> HIDE DEF z, bad, why
<1>4. Has(Check(z, {x.err, y.err}, bad, why), z.l, z.e, z.v, (\A s \in {x.err, y.err} : s = "none") /\ ~bad)
  BY <1>1, <1>2, CheckHas
<1> QED
  BY <1>1, <1>2, <1>3, <1>4 DEF Has

LEMMA ReScaleHas ==
  ASSUME NEW x \in Ciphertext
  PROVE  Has(reScaleByAndEqual(x), x.l - 1, x.e - 1, x.v, x.err = "none" /\ x.l > 1)
<1> DEFINE y == [x EXCEPT !.l = @ - 1, !.e = @ - 1]
<1>1. y \in Ciphertext /\ y.l = x.l - 1 /\ y.e = x.e - 1 /\ y.v = x.v /\ x.l \in Int
  <2> DEFINE a == x.e - 1
             b == x.l - 1
  <2>1. a \in Int /\ b \in Int /\ y = AtScale(AtLevel(x, b), a) /\ x.l \in Int
    BY HasFacts DEF AtLevel, AtScale
  <2> HIDE DEF a, b, y
  <2>2. y \in Ciphertext /\ y = [l |-> b, e |-> a, v |-> x.v, err |-> x.err]
    BY <2>1, TwoFields
  <2> QED
    BY <2>1, <2>2 DEF a, b
<1>2. {x.err} \in SUBSET Outcome /\ (x.l <= 1) \in BOOLEAN /\ "exhausted" \in Outcome /\ "exhausted" # "none"
  BY DEF Ciphertext, Outcome
<1> HIDE DEF y
<1>3. Has(Check(y, {x.err}, x.l <= 1, "exhausted"), y.l, y.e, y.v, (\A s \in {x.err} : s = "none") /\ ~(x.l <= 1))
  BY <1>1, <1>2, CheckHas
<1> QED
  BY <1>1, <1>3 DEF reScaleByAndEqual, y, Has

LEMMA ModDownHas ==
  ASSUME NEW x \in Ciphertext, NEW lev \in Int
  PROVE  Has(modDownToAndEqual(x, lev), lev, x.e, x.v, x.err = "none" /\ lev <= x.l /\ lev > 0)
<1> DEFINE y == [x EXCEPT !.l = lev]
           bad == lev > x.l \/ lev <= 0
           why == IF lev > x.l THEN "bounds" ELSE "exhausted"
<1>1. y \in Ciphertext /\ y.l = lev /\ y.e = x.e /\ y.v = x.v /\ x.l \in Int
  BY DEF Ciphertext
<1>2. /\ {x.err} \in SUBSET Outcome /\ bad \in BOOLEAN /\ why \in Outcome /\ why # "none"
      /\ (bad <=> ~(lev <= x.l /\ lev > 0))
  BY <1>1 DEF Ciphertext, Outcome
<1>3. modDownToAndEqual(x, lev) = Check(y, {x.err}, bad, why)
  BY DEF modDownToAndEqual
<1> HIDE DEF y, bad, why
<1>4. Has(Check(y, {x.err}, bad, why), y.l, y.e, y.v, (\A s \in {x.err} : s = "none") /\ ~bad)
  BY <1>1, <1>2, CheckHas
<1> QED
  BY <1>1, <1>2, <1>3, <1>4 DEF Has

LEMMA MultAndRescaleHas ==
  ASSUME NEW x \in Ciphertext, NEW y \in Ciphertext
  PROVE  Has(multAndRescale(x, y), x.l - 1, (x.e + y.e) - 1, x.v * y.v,
             x.err = "none" /\ y.err = "none" /\ x.l = y.l /\ x.l > 1)
<1>1. Has(multAndEqual(x, y), x.l, x.e + y.e, x.v * y.v,
          x.err = "none" /\ y.err = "none" /\ x.l = y.l /\ x.l # 0) /\ x.l \in Int
  BY MultHas, HasFacts
<1>2. multAndEqual(x, y) \in Ciphertext
  BY <1>1 DEF Has
<1>3. Has(reScaleByAndEqual(multAndEqual(x, y)), multAndEqual(x, y).l - 1, multAndEqual(x, y).e - 1,
          multAndEqual(x, y).v, multAndEqual(x, y).err = "none" /\ multAndEqual(x, y).l > 1)
  BY <1>2, ReScaleHas
<1> QED
  BY <1>1, <1>3 DEF multAndRescale, Has

LEMMA ConstantsHave ==
  ASSUME NEW x \in Ciphertext, NEW k \in Int
  PROVE  /\ Has(multByConstAndEqual(x, k), x.l, x.e + 1, x.v * k, x.err = "none")
         /\ Has(negate(x), x.l, x.e, -x.v, x.err = "none")
         /\ x.e = 1 => Has(addConstAndEqual(x, k), x.l, x.e, x.v + k, x.err = "none")
         /\ x.e = 2 => Has(addP2(x, k), x.l, x.e, x.v + k, x.err = "none")
<1> DEFINE a == x.e + 1
           b == x.v * k
           s == x.v + k
           t == 0 - x.v
<1>1. a \in Int /\ b \in Int /\ s \in Int /\ t \in Int /\ -x.v = t
  BY HasFacts
<1>2. /\ multByConstAndEqual(x, k) = AtScale(OfValue(x, b), a)
      /\ negate(x) = OfValue(x, t)
      /\ x.e = 1 => addConstAndEqual(x, k) = OfValue(x, s)
      /\ x.e = 2 => addP2(x, k) = OfValue(x, s)
  BY <1>1 DEF multByConstAndEqual, negate, addConstAndEqual, addP2, AtScale, OfValue
<1> HIDE DEF a, b, s, t
<1>3. Has(AtScale(OfValue(x, b), a), x.l, a, b, x.err = "none")
  <2>1. /\ AtScale(OfValue(x, b), a) \in Ciphertext
        /\ AtScale(OfValue(x, b), a) = [l |-> x.l, e |-> a, v |-> b, err |-> x.err]
    BY <1>1, TwoFields
  <2> QED
    BY <2>1 DEF Has
<1>4. \A u \in Int : Has(OfValue(x, u), x.l, x.e, u, x.err = "none")
  <2> SUFFICES ASSUME NEW u \in Int PROVE Has(OfValue(x, u), x.l, x.e, u, x.err = "none")
    OBVIOUS
  <2>1. /\ OfValue(x, u) \in Ciphertext
        /\ OfValue(x, u) = [l |-> x.l, e |-> x.e, v |-> u, err |-> x.err]
    BY OneField
  <2> QED
    BY <2>1 DEF Has
<1> QED
  BY <1>1, <1>2, <1>3, <1>4 DEF a, b, s, t

-------------------------------------------------------------------------------
(* Functions defined recursively: each value from one before it *)

IsRecursive(f, S, n, b, prev, step) ==
  /\ f = [i \in 0 .. n |-> f[i]] /\ f[0] = b
  /\ \A i \in 0 .. n : f[i] \in S[i]
  /\ \A i \in 1 .. n : f[i] = step[i][f[prev[i]]]

LEMMA FromEarlier ==
  ASSUME NEW n \in Nat, NEW S, NEW b \in S[0], NEW prev, NEW step,
         \A i \in 1 .. n : prev[i] \in 0 .. i - 1 /\ \A x \in S[prev[i]] : step[i][x] \in S[i]
  PROVE  \E f : IsRecursive(f, S, n, b, prev, step)
<1> DEFINE T == {m \in 0 .. n : \E f : IsRecursive(f, S, m, b, prev, step)}
<1>1. 0 \in T
  <2> DEFINE f == [k \in 0 .. 0 |-> b]
  <2>1. f = [k \in 0 .. 0 |-> f[k]] /\ f[0] = b /\ \A k \in 0 .. 0 : f[k] \in S[k]
    OBVIOUS
  <2> HIDE DEF f
  <2>2. IsRecursive(f, S, 0, b, prev, step)
    BY <2>1 DEF IsRecursive
  <2> QED
    BY <2>2
<1>2. ASSUME NEW m \in 0 .. n - 1, m \in T PROVE m + 1 \in T
  <2>1. /\ m \in Nat /\ m + 1 \in 0 .. n /\ m + 1 \in 1 .. n /\ prev[m + 1] \in 0 .. m
        /\ \A k \in 0 .. m + 1 : k = m + 1 \/ k \in 0 .. m
        /\ \A k \in 0 .. m : k # m + 1 /\ k \in 0 .. m + 1
    <3>1. m \in Nat /\ m + 1 \in 0 .. n /\ m + 1 \in 1 .. n /\ (m + 1) - 1 = m
      OBVIOUS
    <3>2. prev[m + 1] \in 0 .. m
      BY <3>1
    <3> QED
      BY <3>1, <3>2
  <2>2. PICK f : IsRecursive(f, S, m, b, prev, step)
    BY <1>2
  <2> DEFINE h == [k \in 0 .. m + 1 |-> IF k = m + 1 THEN step[m + 1][f[prev[m + 1]]] ELSE f[k]]
  <2>3. h[m + 1] = step[m + 1][f[prev[m + 1]]] /\ \A k \in 0 .. m : h[k] = f[k]
    BY <2>1
  <2>4. h = [k \in 0 .. m + 1 |-> h[k]]
    OBVIOUS
  <2> HIDE DEF h
  <2>5. f[prev[m + 1]] \in S[prev[m + 1]]
    BY <2>1, <2>2 DEF IsRecursive
  <2>6. step[m + 1][f[prev[m + 1]]] \in S[m + 1]
    BY <2>1, <2>5
  <2>7. \A k \in 0 .. m + 1 : h[k] \in S[k]
    BY <2>1, <2>2, <2>3, <2>6 DEF IsRecursive
  <2>8. h[0] = b
    BY <2>1, <2>2, <2>3 DEF IsRecursive
  <2>9. ASSUME NEW k \in 1 .. m + 1 PROVE h[k] = step[k][h[prev[k]]]
    <3>1. k \in 1 .. n /\ prev[k] \in 0 .. k - 1
      BY <2>1
    <3>2. prev[k] \in 0 .. m
      BY <3>1, <2>1
    <3>3. CASE k = m + 1
      BY <2>3, <3>2, <3>3
    <3>4. CASE k \in 1 .. m
      <4>1. k \in 0 .. m
        BY <3>4
      <4>2. f[k] = step[k][f[prev[k]]]
        BY <2>2, <3>4 DEF IsRecursive
      <4> QED
        BY <2>3, <3>2, <4>1, <4>2
    <3> QED
      BY <3>3, <3>4, <2>1
  <2>10. IsRecursive(h, S, m + 1, b, prev, step)
    BY <2>4, <2>7, <2>8, <2>9 DEF IsRecursive
  <2> QED
    BY <2>1, <2>10
<1> HIDE DEF T
<1>3. \A i \in 0 .. n - 1 : i \in T => i + 1 \in T
  BY <1>2
<1>4. n \in T
  <2>1. \A i \in 0 .. n : i \in T
    BY <1>1, <1>3, InductionUpTo
  <2> QED
    BY <2>1
<1> QED
  BY <1>4 DEF T

-------------------------------------------------------------------------------
(* Powers, logarithms and depths *)

LEMMA PowerSteps ==
  ASSUME NEW x \in Int
  PROVE  /\ PowerOf(x, 0) = 1 /\ PowerOf(x, 1) = x
         /\ \A n \in Nat : PowerOf(x, n) \in Int /\ PowerOf(x, n + 1) = PowerOf(x, n) * x
<1>1. ASSUME NEW n \in Nat PROVE PowerOf(x, n) \in Int /\ PowerOf(x, n + 1) = PowerOf(x, n) * x
  <2> DEFINE f == [i \in 1 .. n |-> x]
             g == [i \in 1 .. n + 1 |-> x]
  <2>1. /\ \A i \in 1 .. n : f[i] \in Int /\ g[i] = f[i]
        /\ g[n + 1] = x
    OBVIOUS
  <2>2. PowerOf(x, n) = ProductOf(f, n) /\ PowerOf(x, n + 1) = ProductOf(g, n + 1)
    BY DEF PowerOf
  <2> HIDE DEF f, g
  <2>3. ProductOf(g, n + 1) = ProductOf(g, n) * g[n + 1]
    BY ProductSteps
  <2>4. ProductOf(g, n) = ProductOf(f, n) /\ ProductOf(f, n) \in Int
    BY <2>1, SumSame, SumIsNumber
  <2> QED
    BY <2>1, <2>2, <2>3, <2>4
<1>2. PowerOf(x, 0) = 1
  BY ProductSteps DEF PowerOf
<1>3. PowerOf(x, 1) = x
  <2>1. PowerOf(x, 0 + 1) = PowerOf(x, 0) * x
    BY <1>1
  <2> QED
    BY <1>2, <2>1
<1> QED
  BY <1>1, <1>2, <1>3

LEMMA PowerSum ==
  ASSUME NEW x \in Int, NEW m \in Nat, NEW n \in Nat
  PROVE  m + n \in Nat /\ PowerOf(x, m + n) = PowerOf(x, m) * PowerOf(x, n)
<1> DEFINE T == {k \in 0 .. n : PowerOf(x, m + k) = PowerOf(x, m) * PowerOf(x, k)}
<1>1. 0 \in T
  BY PowerSteps
<1>2. ASSUME NEW k \in 0 .. n - 1, k \in T PROVE k + 1 \in T
  <2>1. k \in Nat /\ m + k \in Nat /\ m + (k + 1) = (m + k) + 1 /\ k + 1 \in 0 .. n
    OBVIOUS
  <2>2. PowerOf(x, m + k) = PowerOf(x, m) * PowerOf(x, k)
    BY <1>2
  <2> DEFINE a == PowerOf(x, m)
             b == PowerOf(x, k)
  <2>3. a \in Int /\ b \in Int /\ PowerOf(x, (m + k) + 1) = PowerOf(x, m + k) * x /\ PowerOf(x, k + 1) = b * x
    BY <2>1, PowerSteps
  <2>4. PowerOf(x, m + k) = a * b
    BY <2>2
  <2> HIDE DEF a, b
  <2>5. (a * b) * x = a * (b * x)
    BY <2>3
  <2>6. PowerOf(x, m + (k + 1)) = a * PowerOf(x, k + 1)
    BY <2>1, <2>3, <2>4, <2>5
  <2> QED
    BY <2>1, <2>6 DEF a
<1> HIDE DEF T
<1>3. \A k \in 0 .. n - 1 : k \in T => k + 1 \in T
  BY <1>2
<1>4. n \in T
  <2>1. \A i \in 0 .. n : i \in T
    BY <1>1, <1>3, InductionUpTo
  <2> QED
    BY <2>1
<1> QED
  BY <1>4 DEF T

LEMMA Log2Facts ==
  ASSUME NEW n \in Nat \ {0}
  PROVE  Log2(n) \in Nat /\ Log2(n) <= n /\ Pow2[Log2(n)] <= n /\ n < Pow2[Log2(n) + 1]
<1> DEFINE S == {k \in Nat : n < Pow2[k + 1]}
<1>1. \A k \in Nat : Pow2[k] \in Nat \ {0} /\ Pow2[k + 1] = 2 * Pow2[k] /\ k < Pow2[k]
  BY Pow2Facts, PowersExceed
<1>2. n \in S
  BY <1>1
<1> HIDE DEF S
<1>3. S \in SUBSET Nat /\ S # {}
  BY <1>2 DEF S
<1>4. PICK k \in S : \A m \in S : k <= m
  BY <1>3, LeastElement
<1>5. k \in Nat /\ n < Pow2[k + 1] /\ k <= n
  BY <1>2, <1>4 DEF S
<1>6. Pow2[k] <= n
  <2>1. CASE k = 0
    BY <2>1, Pow2Facts
  <2>2. CASE k # 0
    <3>1. k - 1 \in Nat /\ (k - 1) + 1 = k /\ ~(k <= k - 1)
      BY <1>5, <2>2
    <3>2. k - 1 \notin S
      BY <1>4, <3>1
    <3>3. ~(n < Pow2[(k - 1) + 1])
      BY <3>1, <3>2 DEF S
    <3> QED
      BY <1>1, <1>5, <3>1, <3>3
  <2> QED
    BY <2>1, <2>2
<1>7. k \in 0 .. n
  BY <1>5
<1> DEFINE Good(j) == Pow2[j] <= n /\ n < Pow2[j + 1]
<1>8. (CHOOSE j \in 0 .. n : Good(j)) \in 0 .. n /\ Good(CHOOSE j \in 0 .. n : Good(j))
  <2>1. \E j \in 0 .. n : Good(j)
    BY <1>5, <1>6, <1>7
  <2> HIDE DEF Good
  <2> QED
    BY <2>1
<1> QED
  BY <1>8 DEF Log2

LEMMA Log2Is ==
  ASSUME NEW n \in Nat \ {0}, NEW k \in Nat, Pow2[k] <= n, n < Pow2[k + 1] PROVE Log2(n) = k
<1> DEFINE j == Log2(n)
<1>1. j \in Nat /\ Pow2[j] <= n /\ n < Pow2[j + 1]
  BY Log2Facts
<1> HIDE DEF j
<1>2. \A m \in Nat : Pow2[m] \in Nat
  BY Pow2Facts
<1>3. ~(j < k)
  <2> SUFFICES ASSUME j < k PROVE FALSE
    OBVIOUS
  <2>1. j + 1 \in Nat /\ j + 1 <= k
    BY <1>1
  <2>2. Pow2[j + 1] <= Pow2[k]
    BY <2>1, Pow2Order
  <2> QED
    BY <1>1, <1>2, <2>1, <2>2
<1>4. ~(k < j)
  <2> SUFFICES ASSUME k < j PROVE FALSE
    OBVIOUS
  <2>1. k + 1 \in Nat /\ k + 1 <= j
    BY <1>1
  <2>2. Pow2[k + 1] <= Pow2[j]
    BY <1>1, <2>1, Pow2Order
  <2> QED
    BY <1>1, <1>2, <2>1, <2>2
<1> QED
  BY <1>1, <1>3, <1>4 DEF j

\* The number of levels of the shortest tree of multiplications.
LEMMA DepthFacts ==
  /\ Depth(1) = 0
  /\ \A k \in Nat : Depth(Pow2[k]) = k
  /\ \A n \in Nat \ {0} : Depth(n) \in Nat
  /\ \A k, m \in Nat : m \in 1 .. Pow2[k] => Depth(m) <= k
  /\ \A k, m \in Nat : m \in 1 .. Pow2[k] => Depth(Pow2[k] + m) = k + 1
<1>1. Depth(1) = 0
  BY DEF Depth
<1>2. \A k \in Nat : Pow2[k] \in Nat \ {0} /\ Pow2[k + 1] = 2 * Pow2[k] /\ (k # 0 => Pow2[k] = 2 * Pow2[k - 1])
  <2> SUFFICES ASSUME NEW k \in Nat
               PROVE  Pow2[k] \in Nat \ {0} /\ Pow2[k + 1] = 2 * Pow2[k] /\ (k # 0 => Pow2[k] = 2 * Pow2[k - 1])
    OBVIOUS
  <2>1. k # 0 => k - 1 \in Nat /\ (k - 1) + 1 = k
    OBVIOUS
  <2> QED
    BY <2>1, Pow2Facts
<1>3. ASSUME NEW n \in Nat \ {0} PROVE Depth(n) \in Nat
  <2>1. CASE n = 1
    BY <1>1, <2>1
  <2>2. CASE n # 1
    <3>1. n - 1 \in Nat \ {0}
      BY <2>2
    <3> QED
      BY <2>2, <3>1, Log2Facts DEF Depth
  <2> QED
    BY <2>1, <2>2
<1>4. ASSUME NEW k \in Nat, NEW m \in 1 .. Pow2[k] PROVE Depth(Pow2[k] + m) = k + 1
  <2> DEFINE n == (Pow2[k] + m) - 1
  <2>1. n \in Nat \ {0} /\ Pow2[k] <= n /\ n < Pow2[k + 1] /\ Pow2[k] + m # 1
    BY <1>2
  <2>2. Depth(Pow2[k] + m) = 1 + Log2(n)
    BY <2>1 DEF Depth
  <2> HIDE DEF n
  <2> QED
    BY <2>1, <2>2, Log2Is
<1>5. ASSUME NEW k \in Nat PROVE Depth(Pow2[k]) = k
  <2>1. CASE k = 0
    BY <1>1, <2>1, Pow2Facts
  <2>2. CASE k # 0
    <3>1. /\ k - 1 \in Nat /\ Pow2[k] = Pow2[k - 1] + Pow2[k - 1] /\ (k - 1) + 1 = k
          /\ Pow2[k - 1] \in 1 .. Pow2[k - 1]
      BY <1>2, <2>2
    <3>2. Depth(Pow2[k - 1] + Pow2[k - 1]) = (k - 1) + 1
      BY <1>4, <3>1
    <3> QED
      BY <3>1, <3>2
  <2> QED
    BY <2>1, <2>2
<1>6. ASSUME NEW k \in Nat, NEW m \in 1 .. Pow2[k] PROVE Depth(m) <= k
  <2>1. CASE m = 1
    BY <1>1, <2>1
  <2>2. CASE m # 1
    <3> DEFINE n == m - 1
               j == Log2(n)
    <3>1. n \in Nat \ {0} /\ n < Pow2[k] /\ Depth(m) = 1 + j
      BY <1>2, <2>2 DEF Depth
    <3> HIDE DEF n
    <3>2. j \in Nat /\ Pow2[j] <= n
      BY <3>1, Log2Facts
    <3> HIDE DEF j
    <3>3. j < k
      <4>1. k <= j => Pow2[k] <= Pow2[j]
        BY <3>2, Pow2Order
      <4> QED
        BY <1>2, <3>1, <3>2, <4>1
    <3> QED
      BY <3>1, <3>2, <3>3
  <2> QED
    BY <2>1, <2>2, <1>2
<1> QED
  BY <1>1, <1>3, <1>4, <1>5, <1>6

-------------------------------------------------------------------------------
(* Powers *)

LEMMA ClosedOperations ==
  /\ \A x \in Ciphertext : /\ squareAndEqual(x) \in Ciphertext /\ reScaleByAndEqual(x) \in Ciphertext
                            /\ negate(x) \in Ciphertext /\ x.l \in Int /\ x.e \in Int /\ x.v \in Int
  /\ \A x, y \in Ciphertext : /\ multAndEqual(x, y) \in Ciphertext /\ addAndEqual(x, y) \in Ciphertext
                               /\ multAndRescale(x, y) \in Ciphertext
  /\ \A x \in Ciphertext, k \in Int :
       /\ modDownToAndEqual(x, k) \in Ciphertext
       /\ multByConstAndEqual(x, k) \in Ciphertext
       /\ x.e = 1 => addConstAndEqual(x, k) \in Ciphertext
<1>1. \A x \in Ciphertext : /\ squareAndEqual(x) \in Ciphertext /\ reScaleByAndEqual(x) \in Ciphertext
                            /\ x.l \in Int /\ x.e \in Int /\ x.v \in Int
  BY SquareHas, ReScaleHas, HasFacts DEF Has
<1>2. \A x, y \in Ciphertext : /\ multAndEqual(x, y) \in Ciphertext /\ addAndEqual(x, y) \in Ciphertext
                               /\ multAndRescale(x, y) \in Ciphertext
  BY MultHas, AddHas, MultAndRescaleHas DEF Has
<1>3. \A x \in Ciphertext, k \in Int :
        /\ modDownToAndEqual(x, k) \in Ciphertext
        /\ multByConstAndEqual(x, k) \in Ciphertext /\ negate(x) \in Ciphertext
        /\ x.e = 1 => addConstAndEqual(x, k) \in Ciphertext
  BY ModDownHas, ConstantsHave DEF Has
<1>4. \A x \in Ciphertext : negate(x) \in Ciphertext
  <2>1. 0 \in Int
    OBVIOUS
  <2> QED
    BY <1>3, <2>1
<1> QED
  BY <1>1, <1>2, <1>3, <1>4

LEMMA PowerOf2Steps ==
  ASSUME NEW x \in Ciphertext, NEW n \in Nat
  PROVE  /\ powerOf2Extended(x, n)[0] = x
         /\ \A i \in 0 .. n : powerOf2Extended(x, n)[i] \in Ciphertext
         /\ \A i \in 1 .. n : powerOf2Extended(x, n)[i]
                                = reScaleByAndEqual(squareAndEqual(powerOf2Extended(x, n)[i - 1]))
<1> DEFINE Body(f) == [i \in 0 .. n |-> IF i = 0 THEN x ELSE reScaleByAndEqual(squareAndEqual(f[i - 1]))]
           step == [i \in 1 .. n |-> [y \in Ciphertext |-> reScaleByAndEqual(squareAndEqual(y))]]
<1>1. /\ \A i \in 1 .. n : i - 1 \in 0 .. n /\ i # 0 /\ i \in 0 .. n
      /\ \A i \in 1 .. n : \A y \in Ciphertext : step[i][y] = reScaleByAndEqual(squareAndEqual(y))
      /\ \A i \in 0 .. n : i = 0 \/ i \in 1 .. n
  OBVIOUS
<1>2. \A y \in Ciphertext : reScaleByAndEqual(squareAndEqual(y)) \in Ciphertext
  BY ClosedOperations
<1> HIDE DEF step
<1>3. PICK f : IsIteration(f, Ciphertext, n, x, step)
  BY <1>1, <1>2, Iteration
<1>4. /\ f = [i \in 0 .. n |-> f[i]] /\ f[0] = x
      /\ \A i \in 1 .. n : f[i] = reScaleByAndEqual(squareAndEqual(f[i - 1]))
  <2>1. /\ f = [i \in 0 .. n |-> f[i]] /\ f[0] = x /\ \A i \in 0 .. n : f[i] \in Ciphertext
        /\ \A i \in 1 .. n : f[i] = step[i][f[i - 1]]
    BY <1>3 DEF IsIteration
  <2> QED
    BY <1>1, <2>1
<1>5. f = Body(f)
  BY <1>1, <1>4
<1>6. powerOf2Extended(x, n) = CHOOSE g : g = Body(g)
  BY Zenon DEF powerOf2Extended
<1>7. powerOf2Extended(x, n) = Body(powerOf2Extended(x, n))
  <2> HIDE DEF Body
  <2> QED
    BY <1>5, <1>6, Zenon
<1> DEFINE h == powerOf2Extended(x, n)
           T == {i \in 0 .. n : h[i] \in Ciphertext}
<1>8. h[0] = x /\ \A i \in 1 .. n : h[i] = reScaleByAndEqual(squareAndEqual(h[i - 1]))
  <2> HIDE DEF h
  <2>1. h = [i \in 0 .. n |-> IF i = 0 THEN x ELSE reScaleByAndEqual(squareAndEqual(h[i - 1]))]
    BY <1>7 DEF h
  <2> HIDE DEF Body
  <2> QED
    BY <1>1, <2>1
<1> HIDE DEF h, Body
<1>9. \A i \in 0 .. n - 1 : i \in T => i + 1 \in T
  <2> SUFFICES ASSUME NEW i \in 0 .. n - 1, i \in T PROVE i + 1 \in T
    OBVIOUS
  <2>1. i + 1 \in 1 .. n /\ i + 1 \in 0 .. n /\ (i + 1) - 1 = i
    OBVIOUS
  <2> QED
    BY <1>2, <1>8, <2>1
<1>10. 0 \in T
  BY <1>8
<1>11. \A i \in 0 .. n : i \in T
  <2> HIDE DEF T
  <2> QED
    BY <1>9, <1>10, InductionUpTo
<1> QED
  BY <1>8, <1>11 DEF h

\* The i-th repeated square of a ciphertext of level lev.
LEMMA PowersOf2Have ==
  ASSUME NEW n \in Nat, NEW lev \in Nat \ {0}, NEW val \in Int, NEW x, Has(x, lev, 1, val, TRUE)
  PROVE  \A i \in 0 .. n : Has(powerOf2Extended(x, n)[i], lev - i, 1, PowerOf(val, Pow2[i]), lev > i)
<1> DEFINE h == powerOf2Extended(x, n)
           T == {i \in 0 .. n : Has(h[i], lev - i, 1, PowerOf(val, Pow2[i]), lev > i)}
<1>1. x \in Ciphertext /\ x.l = lev /\ x.e = 1 /\ x.v = val /\ x.err = "none"
  BY DEF Has
<1>2. /\ h[0] = x /\ \A i \in 0 .. n : h[i] \in Ciphertext
      /\ \A i \in 1 .. n : h[i] = reScaleByAndEqual(squareAndEqual(h[i - 1]))
  BY <1>1, PowerOf2Steps
<1> HIDE DEF h
<1>3. 0 \in T
  <2>1. PowerOf(val, Pow2[0]) = val
    BY PowerSteps, Pow2Facts
  <2>2. Has(h[0], lev - 0, 1, PowerOf(val, Pow2[0]), lev > 0)
    BY <1>1, <1>2, <2>1 DEF Has
  <2> QED
    BY <2>2
<1>4. ASSUME NEW i \in 0 .. n - 1, i \in T PROVE i + 1 \in T
  <2>1. i \in Nat /\ i \in 0 .. n /\ i + 1 \in 1 .. n /\ i + 1 \in 0 .. n /\ (i + 1) - 1 = i
    OBVIOUS
  <2> DEFINE y == h[i]
             z == squareAndEqual(y)
             a == PowerOf(val, Pow2[i])
  <2>2. y \in Ciphertext /\ y.l = lev - i /\ y.e = 1 /\ y.v = a /\ (y.err = "none" <=> lev > i)
    BY <1>4 DEF Has
  <2>3. h[i + 1] = reScaleByAndEqual(z)
    BY <1>2, <2>1
  <2>4. PowerOf(val, Pow2[i + 1]) = a * a
    <3>1. Pow2[i] \in Nat /\ Pow2[i + 1] = Pow2[i] + Pow2[i]
      BY <2>1, Pow2Facts
    <3>2. PowerOf(val, Pow2[i] + Pow2[i]) = PowerOf(val, Pow2[i]) * PowerOf(val, Pow2[i])
      BY <3>1, PowerSum
    <3> QED
      BY <3>1, <3>2
  <2> HIDE DEF y, a
  <2>5. z \in Ciphertext /\ z.l = y.l /\ z.e = 2 * y.e /\ z.v = y.v * y.v /\ (z.err = "none" <=> y.err = "none" /\ y.l # 0)
    BY <2>2, SquareHas DEF Has
  <2> HIDE DEF z
  <2>6. Has(reScaleByAndEqual(z), z.l - 1, z.e - 1, z.v, z.err = "none" /\ z.l > 1)
    BY <2>5, ReScaleHas
  <2>7. /\ z.l - 1 = lev - (i + 1) /\ z.e - 1 = 1 /\ z.v = a * a
        /\ (z.err = "none" /\ z.l > 1 <=> lev > i + 1)
    BY <2>1, <2>2, <2>5
  <2>8. Has(h[i + 1], lev - (i + 1), 1, PowerOf(val, Pow2[i + 1]), lev > i + 1)
    BY <2>3, <2>4, <2>6, <2>7 DEF Has
  <2> QED
    BY <2>1, <2>8
<1> HIDE DEF T
<1>5. \A i \in 0 .. n - 1 : i \in T => i + 1 \in T
  BY <1>4
<1>6. \A i \in 0 .. n : i \in T
  BY <1>3, <1>5, InductionUpTo
<1> QED
  BY <1>6 DEF T, h

\* n is a power of two and a smaller rest.
LEMMA SplitFacts ==
  ASSUME NEW n \in Nat \ {0}
  PROVE  /\ Log2(n) \in Nat /\ Pow2[Log2(n)] \in Nat \ {0} /\ n - Pow2[Log2(n)] \in 0 .. n - 1
         /\ n # Pow2[Log2(n)] => n - Pow2[Log2(n)] \in 1 .. Pow2[Log2(n)]
         /\ n = Pow2[Log2(n)] + (n - Pow2[Log2(n)])
<1> DEFINE k == Log2(n)
<1>1. k \in Nat /\ Pow2[k] <= n /\ n < Pow2[k + 1]
  BY Log2Facts
<1> HIDE DEF k
<1>2. Pow2[k] \in Nat \ {0} /\ Pow2[k + 1] = 2 * Pow2[k]
  BY <1>1, Pow2Facts
<1> DEFINE w == Pow2[k]
<1> HIDE DEF w
<1>3. w \in Nat \ {0} /\ w <= n /\ n < 2 * w
  BY <1>1, <1>2 DEF w
<1>4. n - w \in 0 .. n - 1 /\ (n # w => n - w \in 1 .. w) /\ n = w + (n - w)
  BY <1>3
<1> QED
  BY <1>1, <1>3, <1>4 DEF k, w

LEMMA Log2Order ==
  ASSUME NEW n \in Nat \ {0}, NEW m \in 1 .. n PROVE m \in Nat \ {0} /\ Log2(m) \in 0 .. Log2(n)
<1> DEFINE j == Log2(m)
           k == Log2(n)
<1>1. m \in Nat \ {0} /\ m <= n
  OBVIOUS
<1>2. j \in Nat /\ Pow2[j] <= m /\ k \in Nat /\ n < Pow2[k + 1]
  BY <1>1, Log2Facts
<1> HIDE DEF j, k
<1>3. j < k + 1
  <2> SUFFICES ASSUME k + 1 <= j PROVE FALSE
    BY <1>2
  <2>1. k + 1 \in Nat
    BY <1>2
  <2>2. Pow2[k + 1] <= Pow2[j]
    BY <1>2, <2>1, Pow2Order
  <2>3. Pow2[k + 1] \in Nat /\ Pow2[j] \in Nat
    BY <1>2, <2>1, Pow2Facts
  <2> QED
    BY <1>1, <1>2, <2>2, <2>3
<1> QED
  BY <1>1, <1>2, <1>3 DEF j, k

LEMMA PowerExtendedSteps ==
  ASSUME NEW x \in Ciphertext, NEW degree \in Nat \ {0}
  PROVE  LET h == powerOf2Extended(x, Log2(degree))
             r == powerExtended(x, degree)
         IN  \A n \in 1 .. degree :
               r[n] = IF n = Pow2[Log2(n)] THEN h[Log2(n)]
                      ELSE multAndRescale(modDownToAndEqual(r[n - Pow2[Log2(n)]], h[Log2(n)].l), h[Log2(n)])
<1> DEFINE h == powerOf2Extended(x, Log2(degree))
           Made(n, y) == IF n = Pow2[Log2(n)] THEN h[Log2(n)]
                          ELSE multAndRescale(modDownToAndEqual(y, h[Log2(n)].l), h[Log2(n)])
           Body(f) == [n \in 1 .. degree |-> Made(n, f[n - Pow2[Log2(n)]])]
           S == [i \in 0 .. degree |-> Ciphertext]
           prev == [i \in 1 .. degree |-> i - Pow2[Log2(i)]]
           step == [i \in 1 .. degree |-> [y \in Ciphertext |-> Made(i, y)]]
<1>1. \A n \in 1 .. degree : \A y \in Ciphertext : Made(n, y) \in Ciphertext
  <2> SUFFICES ASSUME NEW n \in 1 .. degree, NEW y \in Ciphertext PROVE Made(n, y) \in Ciphertext
    OBVIOUS
  <2> DEFINE z == h[Log2(n)]
  <2>1. z \in Ciphertext
    <3>1. Log2(n) \in 0 .. Log2(degree) /\ Log2(degree) \in Nat
      BY Log2Order, Log2Facts
    <3> QED
      BY <3>1, PowerOf2Steps
  <2> HIDE DEF h, z
  <2>2. z.l \in Int
    BY <2>1, ClosedOperations
  <2>3. multAndRescale(modDownToAndEqual(y, z.l), z) \in Ciphertext
    BY <2>1, <2>2, ClosedOperations
  <2> QED
    BY <2>1, <2>3 DEF z
<1>2. /\ \A n \in 1 .. degree : n - Pow2[Log2(n)] \in 0 .. n - 1
      /\ \A n \in 1 .. degree : n # Pow2[Log2(n)] => n - Pow2[Log2(n)] \in 1 .. degree
      /\ \A n \in 1 .. degree : n \in 0 .. degree
  <2> SUFFICES ASSUME NEW n \in 1 .. degree
               PROVE  /\ n - Pow2[Log2(n)] \in 0 .. n - 1 /\ n \in 0 .. degree
                      /\ n # Pow2[Log2(n)] => n - Pow2[Log2(n)] \in 1 .. degree
    OBVIOUS
  <2>1. n \in Nat \ {0} /\ n <= degree
    OBVIOUS
  <2>2. n - Pow2[Log2(n)] \in 0 .. n - 1 /\ (n # Pow2[Log2(n)] => n - Pow2[Log2(n)] \in 1 .. Pow2[Log2(n)])
    BY <2>1, SplitFacts
  <2> DEFINE m == n - Pow2[Log2(n)]
  <2> HIDE DEF m
  <2>3. m \in 0 .. n - 1 /\ (n # Pow2[Log2(n)] => m \in 1 .. Pow2[Log2(n)])
    BY <2>2 DEF m
  <2>4. n # Pow2[Log2(n)] => m \in 1 .. degree
    BY <2>1, <2>3
  <2> QED
    BY <2>1, <2>3, <2>4 DEF m
<1> HIDE DEF Made
<1>3. /\ \A i \in 0 .. degree : S[i] = Ciphertext
      /\ \A i \in 1 .. degree : prev[i] = i - Pow2[Log2(i)]
      /\ \A i \in 1 .. degree : \A y \in Ciphertext : step[i][y] = Made(i, y)
      /\ 0 \in 0 .. degree
  OBVIOUS
<1> HIDE DEF S, prev, step
<1>4. PICK f : IsRecursive(f, S, degree, x, prev, step)
  <2>1. \A i \in 1 .. degree : prev[i] \in 0 .. degree /\ i \in 0 .. degree /\ prev[i] \in 0 .. i - 1
    BY <1>2, <1>3
  <2>2. \A i \in 1 .. degree : prev[i] \in 0 .. i - 1 /\ \A y \in S[prev[i]] : step[i][y] \in S[i]
    BY <1>1, <1>3, <2>1
  <2>3. x \in S[0]
    BY <1>3
  <2> QED
    BY <2>2, <2>3, FromEarlier
<1> DEFINE g == [n \in 1 .. degree |-> f[n]]
<1>5. g = Body(g)
  <2>1. \A n \in 1 .. degree : f[n] = Made(n, f[n - Pow2[Log2(n)]])
    <3>1. /\ \A i \in 0 .. degree : f[i] \in Ciphertext
          /\ \A i \in 1 .. degree : f[i] = step[i][f[prev[i]]]
      BY <1>3, <1>4 DEF IsRecursive
    <3>2. \A i \in 1 .. degree : prev[i] \in 0 .. degree
      BY <1>2, <1>3
    <3> QED
      BY <1>3, <3>1, <3>2
  <2>2. \A n \in 1 .. degree : Made(n, f[n - Pow2[Log2(n)]]) = Made(n, g[n - Pow2[Log2(n)]])
    BY <1>2 DEF Made
  <2> QED
    BY <2>1, <2>2
<1>6. powerExtended(x, degree) = CHOOSE r : r = Body(r)
  BY Zenon DEF powerExtended, Made
<1>7. powerExtended(x, degree) = Body(powerExtended(x, degree))
  <2> HIDE DEF Body, g
  <2> QED
    BY <1>5, <1>6, Zenon
<1> DEFINE r == powerExtended(x, degree)
<1>8. \A n \in 1 .. degree : r[n] = Made(n, r[n - Pow2[Log2(n)]])
  <2> HIDE DEF r
  <2>1. r = [n \in 1 .. degree |-> Made(n, r[n - Pow2[Log2(n)]])]
    BY <1>7, Zenon DEF r
  <2> HIDE DEF Body
  <2> QED
    BY <2>1
<1> QED
  BY <1>8 DEF Made

LEMMA PowerExtendedHave ==
  ASSUME NEW degree \in Nat \ {0}, NEW lev \in Nat \ {0}, NEW val \in Int, NEW x, Has(x, lev, 1, val, TRUE)
  PROVE  \A n \in 1 .. degree :
           Has(powerExtended(x, degree)[n], lev - Depth(n), 1, PowerOf(val, n), lev > Depth(n))
<1> DEFINE h == powerOf2Extended(x, Log2(degree))
           r == powerExtended(x, degree)
           Right(n) == Has(r[n], lev - Depth(n), 1, PowerOf(val, n), lev > Depth(n))
           T == {n \in 0 .. degree : \A m \in 1 .. n : Right(m)}
<1>1. Log2(degree) \in Nat
  BY Log2Facts
<1>2. \A i \in 0 .. Log2(degree) : Has(h[i], lev - i, 1, PowerOf(val, Pow2[i]), lev > i)
  BY <1>1, PowersOf2Have
<1>3. \A n \in 1 .. degree : r[n] = IF n = Pow2[Log2(n)] THEN h[Log2(n)]
                                    ELSE multAndRescale(modDownToAndEqual(r[n - Pow2[Log2(n)]], h[Log2(n)].l), h[Log2(n)])
  BY PowerExtendedSteps DEF Has
<1> HIDE DEF h, r
<1>4. 0 \in T
  OBVIOUS
<1>5. ASSUME NEW i \in 0 .. degree - 1, i \in T PROVE i + 1 \in T
  <2> DEFINE n == i + 1
             k == Log2(n)
             m == n - Pow2[k]
             y == h[k]
  <2>1. n \in Nat \ {0} /\ n \in 1 .. degree /\ n \in 0 .. degree /\ \A j \in 1 .. n : j = n \/ j \in 1 .. i
    OBVIOUS
  <2>2. \A j \in 1 .. i : Right(j)
    BY <1>5
  <2> HIDE DEF n, Right
  <2>3. /\ k \in Nat /\ Pow2[k] \in Nat \ {0} /\ m \in 0 .. n - 1
        /\ n # Pow2[k] => m \in 1 .. Pow2[k]
        /\ n = Pow2[k] + m
    BY <2>1, SplitFacts
  <2>4. k \in 0 .. Log2(degree)
    BY <2>1, Log2Order
  <2>5. r[n] = IF n = Pow2[k] THEN y ELSE multAndRescale(modDownToAndEqual(r[m], y.l), y)
    BY <1>3, <2>1
  <2>6. Has(y, lev - k, 1, PowerOf(val, Pow2[k]), lev > k)
    BY <1>2, <2>4
  <2> HIDE DEF k, m, y
  <2>7. Right(n)
    <3>1. CASE n = Pow2[k]
      <4>1. Depth(n) = k
        BY <2>3, <3>1, DepthFacts
      <4> QED
        BY <2>5, <2>6, <3>1, <4>1 DEF Right
    <3>2. CASE n # Pow2[k]
      <4>1. m \in 1 .. Pow2[k] /\ m \in 1 .. i /\ m \in Nat
        BY <2>1, <2>3, <3>2 DEF n
      <4>2. Depth(m) \in Nat /\ Depth(m) <= k /\ Depth(n) = k + 1
        <5>1. m \in Nat \ {0}
          BY <4>1
        <5>2. Depth(m) \in Nat /\ Depth(m) <= k
          BY <2>3, <4>1, <5>1, DepthFacts
        <5>3. Depth(Pow2[k] + m) = k + 1
          BY <2>3, <4>1, DepthFacts
        <5> QED
          BY <2>3, <5>2, <5>3
      <4>3. Has(r[m], lev - Depth(m), 1, PowerOf(val, m), lev > Depth(m))
        BY <2>2, <4>1 DEF Right
      <4> DEFINE a == PowerOf(val, m)
                 b == PowerOf(val, Pow2[k])
                 d1 == Depth(m)
                 z == modDownToAndEqual(r[m], y.l)
      <4>4. a \in Int /\ b \in Int /\ PowerOf(val, n) = b * a
        <5>1. PowerOf(val, Pow2[k] + m) = PowerOf(val, Pow2[k]) * PowerOf(val, m)
          BY <2>3, <4>1, PowerSum
        <5> QED
          BY <2>3, <4>1, <5>1, PowerSteps
      <4>5. r[m] \in Ciphertext /\ r[m].l = lev - d1 /\ r[m].e = 1 /\ r[m].v = a /\ (r[m].err = "none" <=> lev > d1)
        BY <4>3 DEF Has
      <4>6. y \in Ciphertext /\ y.l = lev - k /\ y.e = 1 /\ y.v = b /\ (y.err = "none" <=> lev > k)
        BY <2>6 DEF Has
      <4>7. d1 \in Nat /\ d1 <= k
        BY <4>2
      <4> HIDE DEF a, b, d1, z
      <4>8. /\ z \in Ciphertext /\ z.l = y.l /\ z.e = r[m].e /\ z.v = r[m].v
            /\ (z.err = "none" <=> r[m].err = "none" /\ y.l <= r[m].l /\ y.l > 0)
        <5>1. y.l \in Int
          BY <4>6, ClosedOperations
        <5> QED
          BY <4>5, <5>1, ModDownHas DEF Has, z
      <4>9. Has(multAndRescale(z, y), z.l - 1, (z.e + y.e) - 1, z.v * y.v,
                z.err = "none" /\ y.err = "none" /\ z.l = y.l /\ z.l > 1)
        BY <4>6, <4>8, MultAndRescaleHas
      <4>10. /\ z.l - 1 = lev - (k + 1) /\ (z.e + y.e) - 1 = 1 /\ z.v * y.v = b * a
             /\ (z.err = "none" /\ y.err = "none" /\ z.l = y.l /\ z.l > 1 <=> lev > k + 1)
        <5>1. z.l - 1 = lev - (k + 1) /\ (z.e + y.e) - 1 = 1 /\ z.v = a /\ y.v = b
          BY <2>3, <4>5, <4>6, <4>8
        <5>2. z.err = "none" /\ y.err = "none" /\ z.l = y.l /\ z.l > 1 <=> lev > k + 1
          BY <2>3, <4>5, <4>6, <4>7, <4>8
        <5>3. a * b = b * a
          BY <4>4
        <5> QED
          BY <5>1, <5>2, <5>3
      <4>11. r[n] = multAndRescale(z, y)
        BY <2>5, <3>2 DEF z
      <4> QED
        BY <4>2, <4>4, <4>9, <4>10, <4>11 DEF Right, Has
    <3> QED
      BY <3>1, <3>2
  <2>8. \A j \in 1 .. n : Right(j)
    BY <2>1, <2>2, <2>7
  <2> QED
    BY <2>1, <2>8 DEF n
<1> HIDE DEF T
<1>6. \A i \in 0 .. degree - 1 : i \in T => i + 1 \in T
  BY <1>5
<1>7. degree \in T
  <2>1. \A i \in 0 .. degree : i \in T
    BY <1>4, <1>6, InductionUpTo
  <2> QED
    BY <2>1
<1> QED
  BY <1>7 DEF T, r

\* Whatever goes wrong with the levels, what is computed is the power.
LEMMA PowerHas ==
  ASSUME NEW degree \in Nat \ {0}, NEW lev \in Nat \ {0}, NEW val \in Int, NEW x, Has(x, lev, 1, val, TRUE)
  PROVE  LET r == power(x, degree) IN r \in Ciphertext /\ r.e = 1 /\ r.v = PowerOf(val, degree)
<1> DEFINE h(n) == powerOf2(x, Log2(n))
           Made(n, y) == IF n - Pow2[Log2(n)] = 0 THEN h(n)
                         ELSE multAndRescale(h(n), modDownToAndEqual(y, y.l - 1))
           Body(f) == [n \in 1 .. degree |-> Made(n, f[n - Pow2[Log2(n)]])]
           S == [i \in 0 .. degree |-> {y \in Ciphertext : y.e = 1 /\ (i # 0 => y.v = PowerOf(val, i))}]
           prev == [i \in 1 .. degree |-> i - Pow2[Log2(i)]]
           step == [i \in 1 .. degree |-> [y \in S[prev[i]] |-> Made(i, y)]]
<1>1. \A n \in 1 .. degree : h(n) \in Ciphertext /\ h(n).e = 1 /\ h(n).v = PowerOf(val, Pow2[Log2(n)])
  <2> SUFFICES ASSUME NEW n \in 1 .. degree
               PROVE  h(n) \in Ciphertext /\ h(n).e = 1 /\ h(n).v = PowerOf(val, Pow2[Log2(n)])
    OBVIOUS
  <2> DEFINE k == Log2(n)
  <2>1. k \in Nat /\ k \in 0 .. k
    BY Log2Facts
  <2> HIDE DEF k
  <2>2. Has(powerOf2Extended(x, k)[k], lev - k, 1, PowerOf(val, Pow2[k]), lev > k)
    BY <2>1, PowersOf2Have
  <2> QED
    BY <2>2 DEF powerOf2, Has, k
<1>2. \A n \in 1 .. degree : /\ n \in Nat \ {0} /\ n \in 0 .. degree
                             /\ n - Pow2[Log2(n)] \in 0 .. n - 1 /\ n - Pow2[Log2(n)] \in 0 .. degree
                             /\ Pow2[Log2(n)] \in Nat \ {0}
                             /\ n = Pow2[Log2(n)] + (n - Pow2[Log2(n)])
                             /\ n - Pow2[Log2(n)] # 0 => n - Pow2[Log2(n)] \in 1 .. degree
  <2> SUFFICES ASSUME NEW n \in 1 .. degree, NEW w, w = Pow2[Log2(n)]
               PROVE  /\ n \in Nat \ {0} /\ n \in 0 .. degree /\ n - w \in 0 .. n - 1 /\ n - w \in 0 .. degree
                      /\ w \in Nat \ {0} /\ n = w + (n - w) /\ (n - w # 0 => n - w \in 1 .. degree)
    OBVIOUS
  <2>1. n \in Nat \ {0} /\ n <= degree
    OBVIOUS
  <2>2. w \in Nat \ {0} /\ n - w \in 0 .. n - 1
    BY <2>1, SplitFacts
  <2> QED
    BY <2>1, <2>2
<1>3. \A n \in 1 .. degree : \A y \in S[n - Pow2[Log2(n)]] : Made(n, y) \in S[n]
  <2> SUFFICES ASSUME NEW n \in 1 .. degree, NEW w, w = Pow2[Log2(n)], NEW y \in S[n - w] PROVE Made(n, y) \in S[n]
    OBVIOUS
  <2> DEFINE z == h(n)
             m == n - w
             u == modDownToAndEqual(y, y.l - 1)
  <2>1. /\ m \in 0 .. n - 1 /\ m \in 0 .. degree /\ m \in Nat /\ n \in 0 .. degree /\ w \in Nat /\ n = w + m /\ n # 0
        /\ z \in Ciphertext /\ z.e = 1 /\ z.v = PowerOf(val, w)
    BY <1>1, <1>2
  <2>2. y \in Ciphertext /\ y.e = 1 /\ (m # 0 => y.v = PowerOf(val, m))
    BY <2>1
  <2>3. Made(n, y) = IF m = 0 THEN z ELSE multAndRescale(z, u)
    OBVIOUS
  <2>4. SUFFICES Made(n, y) \in Ciphertext /\ Made(n, y).e = 1 /\ Made(n, y).v = PowerOf(val, n)
    BY <2>1
  <2> HIDE DEF h, z, m, Made
  <2>5. CASE m = 0
    BY <2>1, <2>3, <2>5
  <2>6. CASE m # 0
    <3> HIDE DEF u
    <3>1. u \in Ciphertext /\ u.e = 1 /\ u.v = PowerOf(val, m)
      <4>1. y.l - 1 \in Int
        BY <2>2, HasFacts
      <4>2. Has(u, y.l - 1, y.e, y.v, y.err = "none" /\ y.l - 1 <= y.l /\ y.l - 1 > 0)
        BY <2>2, <4>1, ModDownHas DEF u
      <4> QED
        BY <2>2, <2>6, <4>2 DEF Has
    <3>2. Has(multAndRescale(z, u), z.l - 1, (z.e + u.e) - 1, z.v * u.v,
              z.err = "none" /\ u.err = "none" /\ z.l = u.l /\ z.l > 1)
      BY <2>1, <3>1, MultAndRescaleHas
    <3>3. PowerOf(val, w + m) = PowerOf(val, w) * PowerOf(val, m)
      BY <2>1, PowerSum
    <3>4. (z.e + u.e) - 1 = 1
      BY <2>1, <3>1
    <3> QED
      BY <2>1, <2>3, <2>6, <3>1, <3>2, <3>3, <3>4 DEF Has
  <2> QED
    BY <2>5, <2>6
<1>4. x \in S[0] /\ 0 \in 0 .. degree
  BY DEF Has
<1>5. \A i \in 1 .. degree : prev[i] = i - Pow2[Log2(i)]
  OBVIOUS
<1>6. \A i \in 1 .. degree : \A y \in S[prev[i]] : step[i][y] = Made(i, y)
  <2> HIDE DEF S, prev, Made
  <2> QED
    OBVIOUS
<1>7. \A i \in 1 .. degree : \A y \in S[i] : y \in Ciphertext /\ y.e = 1 /\ y.v = PowerOf(val, i)
  BY <1>2
<1> HIDE DEF S, prev, step, Made
<1>8. PICK f : IsRecursive(f, S, degree, x, prev, step)
  <2>1. \A i \in 1 .. degree : prev[i] \in 0 .. i - 1 /\ \A y \in S[prev[i]] : step[i][y] \in S[i]
    BY <1>2, <1>3, <1>5, <1>6
  <2> QED
    BY <1>4, <2>1, FromEarlier
<1>9. /\ \A n \in 1 .. degree : f[n] \in S[n]
      /\ \A n \in 1 .. degree : f[n] = Made(n, f[n - Pow2[Log2(n)]])
  <2>1. /\ \A i \in 0 .. degree : f[i] \in S[i]
        /\ \A i \in 1 .. degree : f[i] = step[i][f[prev[i]]]
    BY <1>8 DEF IsRecursive
  <2>2. \A i \in 1 .. degree : prev[i] \in 0 .. degree /\ i \in 0 .. degree
    BY <1>2, <1>5
  <2> QED
    BY <1>5, <1>6, <2>1, <2>2
<1> DEFINE g == [n \in 1 .. degree |-> f[n]]
<1>10. g = Body(g)
  <2>1. \A n \in 1 .. degree : Made(n, f[n - Pow2[Log2(n)]]) = Made(n, g[n - Pow2[Log2(n)]])
    BY <1>2 DEF Made
  <2> QED
    BY <1>9, <2>1
<1> DEFINE t == CHOOSE r : r = Body(r)
<1>11. power(x, degree) = t[degree]
  BY Zenon DEF power, Made, h
<1>12. t = Body(t)
  <2> HIDE DEF Body, g
  <2> QED
    BY <1>10, Zenon
<1>13. \A n \in 1 .. degree : t[n] = Made(n, t[n - Pow2[Log2(n)]])
  <2> HIDE DEF t
  <2>1. t = [n \in 1 .. degree |-> Made(n, t[n - Pow2[Log2(n)]])]
    BY <1>12, Zenon
  <2> HIDE DEF Body
  <2> QED
    BY <2>1
<1> HIDE DEF t, Body
<1> DEFINE T == {n \in 0 .. degree : \A m \in 1 .. n : t[m] \in S[m]}
<1>14. 0 \in T
  OBVIOUS
<1>15. ASSUME NEW i \in 0 .. degree - 1, i \in T PROVE i + 1 \in T
  <2> DEFINE n == i + 1
             m == n - Pow2[Log2(n)]
  <2>1. n \in 1 .. degree /\ n \in 0 .. degree /\ \A j \in 1 .. n : j = n \/ j \in 1 .. i
    OBVIOUS
  <2>2. \A j \in 1 .. i : t[j] \in S[j]
    BY <1>15
  <2>3. m \in 0 .. n - 1 /\ t[n] = Made(n, t[m])
    BY <1>2, <1>13, <2>1
  <2>4. \A y \in S[m] : Made(n, y) \in S[n]
    BY <1>3, <2>1
  <2> HIDE DEF m
  <2>5. t[n] \in S[n]
    <3>1. CASE m = 0
      <4>1. Made(n, t[m]) = Made(n, x)
        BY <3>1 DEF Made, m
      <4> QED
        BY <1>4, <2>3, <2>4, <3>1, <4>1
    <3>2. CASE m # 0
      <4>1. m \in 1 .. i
        BY <2>3, <3>2
      <4> QED
        BY <2>2, <2>3, <2>4, <4>1
    <3> QED
      BY <3>1, <3>2
  <2> HIDE DEF n
  <2>6. \A j \in 1 .. n : t[j] \in S[j]
    BY <2>1, <2>2, <2>5
  <2> QED
    BY <2>1, <2>6 DEF n
<1> HIDE DEF T
<1>16. \A i \in 0 .. degree - 1 : i \in T => i + 1 \in T
  BY <1>15
<1>17. degree \in T
  <2>1. \A i \in 0 .. degree : i \in T
    BY <1>14, <1>16, InductionUpTo
  <2> QED
    BY <2>1
<1>18. t[degree] \in S[degree] /\ degree \in 1 .. degree
  BY <1>17 DEF T
<1> QED
  BY <1>7, <1>11, <1>18

-------------------------------------------------------------------------------
(* What has been called has returned its result, and no other. *)

Answered ==
  /\ call.n \in 1 .. MaxDegree /\ call.l \in 1 .. MaxLevel
  /\ Called("power") => res = <<power(Input(call.l), call.n)>>
  /\ Called("powerExtended") => res = powerExtended(Input(call.l), call.n)
  /\ Called("prod") => res = <<prod(Inputs(call.l), call.n)>>
  /\ Called("innerProd") => res = <<innerProd(Inputs(call.l), Inputs(call.l), call.n)>>
  /\ Called("sum") => res = <<sum(Inputs(call.l), call.n)>>
  /\ Called("multVec") => res = Vector(call.n, multVec(Inputs(call.l), Inputs(call.l), call.n))
  /\ Called("multAndModSwitchVec") =>
       res = Vector(call.n, multAndModSwitchVec(Inputs(call.l), Inputs(call.l), call.n))
  /\ Called("distance") =>
       res = <<distance(Input(call.l), Fresh(Factors[MaxDegree - 1], call.l), call.n)>>
  /\ Called("fft") \/ Called("fftInv") =>
       call.n = Pow2[Log2(call.n)] /\ res = Vector(call.n, fft(Inputs(call.l), Log2(call.n)))
  /\ Called("inverse") => res = <<inverse(Fresh(1 - Number, call.l), call.n)>>
  /\ Called("inverseExtended") =>
       res = Vector(call.n, inverseExtended(Input(call.l), addConstAndEqual(Input(call.l), 1), call.n))
  /\ Called("series") => call.of \in DOMAIN Coeffs /\ res = <<series(Input(call.l), call.of, call.n)>>
  /\ Called("function") => call.of \in DOMAIN Coeffs /\ res = <<function(Input(call.l), call.of, call.n)>>
  /\ Called("functionExtended") =>
       call.of \in DOMAIN Coeffs /\ res = functionExtended(Input(call.l), call.of, call.n)
CallIsAnswered == Called("none") \/ Answered

LEMMA RunFacts ==
  ASSUME NEW f, NEW of, NEW n, NEW lev, NEW r, RunOf(f, of, n, lev, r)
  PROVE  call'.f = f /\ call'.of = of /\ call'.n = n /\ call'.l = lev /\ res' = r
BY DEF RunOf

LEMMA AnsweredAlways == AlgoSpec => []CallIsAnswered
<1>1. AlgoInit => CallIsAnswered
  BY DEF AlgoInit, CallIsAnswered, Called
<1>2. CallIsAnswered /\ [AlgoNext]_algoVars => CallIsAnswered'
  <2> SUFFICES ASSUME CallIsAnswered, [AlgoNext]_algoVars PROVE CallIsAnswered'
    OBVIOUS
  <2>1. CASE UNCHANGED algoVars
    BY <2>1 DEF algoVars, CallIsAnswered, Answered, Called
  <2>2. CASE AlgoNext
    <3> SUFFICES Answered'
      BY DEF CallIsAnswered
    <3>1. PICK n \in 1 .. MaxDegree, lev \in 1 .. MaxLevel :
            \/ Power(n, lev) \/ PowerExtended(n, lev) \/ Prod(n, lev) \/ InnerProd(n, lev)
            \/ SumOfAll(n, lev) \/ MultVec(n, lev) \/ MultAndModSwitchVec(n, lev)
            \/ Fft(n, lev) \/ FftInv(n, lev) \/ Distance(n, lev)
            \/ InverseOf(n, lev) \/ InverseExtended(n, lev)
            \/ \E f \in DOMAIN Coeffs :
                 Series(f, n, lev) \/ Function(f, n, lev) \/ FunctionExtended(f, n, lev)
      BY <2>2 DEF AlgoNext
    <3>2. CASE Power(n, lev)
      <4>1. call'.f = "power" /\ call'.n = n /\ call'.l = lev /\ res' = <<power(Input(lev), n)>>
        BY <3>2, RunFacts DEF Power, Run
      <4> QED
        BY <4>1 DEF Answered, Called
    <3>3. CASE PowerExtended(n, lev)
      <4>1. call'.f = "powerExtended" /\ call'.n = n /\ call'.l = lev /\ res' = powerExtended(Input(lev), n)
        BY <3>3, RunFacts DEF PowerExtended, Run
      <4> QED
        BY <4>1 DEF Answered, Called
    <3>4. CASE Prod(n, lev)
      <4>1. call'.f = "prod" /\ call'.n = n /\ call'.l = lev /\ res' = <<prod(Inputs(lev), n)>>
        BY <3>4, RunFacts DEF Prod, Run
      <4> QED
        BY <4>1 DEF Answered, Called
    <3>5. CASE InnerProd(n, lev)
      <4>1. /\ call'.f = "innerProd" /\ call'.n = n /\ call'.l = lev
            /\ res' = <<innerProd(Inputs(lev), Inputs(lev), n)>>
        BY <3>5, RunFacts DEF InnerProd, Run
      <4> QED
        BY <4>1 DEF Answered, Called
    <3>6. CASE SumOfAll(n, lev)
      <4>1. call'.f = "sum" /\ call'.n = n /\ call'.l = lev /\ res' = <<sum(Inputs(lev), n)>>
        BY <3>6, RunFacts DEF SumOfAll, Run
      <4> QED
        BY <4>1 DEF Answered, Called
    <3>7. CASE MultVec(n, lev)
      <4>1. /\ call'.f = "multVec" /\ call'.n = n /\ call'.l = lev
            /\ res' = Vector(n, multVec(Inputs(lev), Inputs(lev), n))
        BY <3>7, RunFacts DEF MultVec, Run
      <4> QED
        BY <4>1 DEF Answered, Called
    <3>8. CASE MultAndModSwitchVec(n, lev)
      <4>1. /\ call'.f = "multAndModSwitchVec" /\ call'.n = n /\ call'.l = lev
            /\ res' = Vector(n, multAndModSwitchVec(Inputs(lev), Inputs(lev), n))
        BY <3>8, RunFacts DEF MultAndModSwitchVec, Run
      <4> QED
        BY <4>1 DEF Answered, Called
    <3>9. CASE Fft(n, lev)
      <4>1. /\ call'.f = "fft" /\ call'.n = n /\ call'.l = lev /\ n = Pow2[Log2(n)]
            /\ res' = Vector(n, fft(Inputs(lev), Log2(n)))
        BY <3>9, RunFacts DEF Fft, Run
      <4> QED
        BY <4>1 DEF Answered, Called
    <3>10. CASE FftInv(n, lev)
      <4>1. /\ call'.f = "fftInv" /\ call'.n = n /\ call'.l = lev /\ n = Pow2[Log2(n)]
            /\ res' = Vector(n, fft(Inputs(lev), Log2(n)))
        BY <3>10, RunFacts DEF FftInv, Run, fftInvLazy
      <4> QED
        BY <4>1 DEF Answered, Called
    <3>11. CASE Distance(n, lev)
      <4>1. /\ call'.f = "distance" /\ call'.n = n /\ call'.l = lev
            /\ res' = <<distance(Input(lev), Fresh(Factors[MaxDegree - 1], lev), n)>>
        BY <3>11, RunFacts DEF Distance, Run
      <4> QED
        BY <4>1 DEF Answered, Called
    <3>12. CASE InverseOf(n, lev)
      <4>1. /\ call'.f = "inverse" /\ call'.n = n /\ call'.l = lev
            /\ res' = <<inverse(Fresh(1 - Number, lev), n)>>
        BY <3>12, RunFacts DEF InverseOf, Run
      <4> QED
        BY <4>1 DEF Answered, Called
    <3>13. CASE InverseExtended(n, lev)
      <4>1. /\ call'.f = "inverseExtended" /\ call'.n = n /\ call'.l = lev
            /\ res' = Vector(n, inverseExtended(Input(lev), addConstAndEqual(Input(lev), 1), n))
        BY <3>13, RunFacts DEF InverseExtended, Run
      <4> QED
        BY <4>1 DEF Answered, Called
    <3>14. CASE \E f \in DOMAIN Coeffs :
                  Series(f, n, lev) \/ Function(f, n, lev) \/ FunctionExtended(f, n, lev)
      <4>1. PICK f \in DOMAIN Coeffs : Series(f, n, lev) \/ Function(f, n, lev) \/ FunctionExtended(f, n, lev)
        BY <3>14
      <4>2. CASE Series(f, n, lev)
        <5>1. /\ call'.f = "series" /\ call'.of = f /\ call'.n = n /\ call'.l = lev
              /\ res' = <<series(Input(lev), f, n)>>
          BY <4>2, RunFacts DEF Series
        <5> QED
          BY <5>1 DEF Answered, Called
      <4>3. CASE Function(f, n, lev)
        <5>1. /\ call'.f = "function" /\ call'.of = f /\ call'.n = n /\ call'.l = lev
              /\ res' = <<function(Input(lev), f, n)>>
          BY <4>3, RunFacts DEF Function
        <5> QED
          BY <5>1 DEF Answered, Called
      <4>4. CASE FunctionExtended(f, n, lev)
        <5>1. /\ call'.f = "functionExtended" /\ call'.of = f /\ call'.n = n /\ call'.l = lev
              /\ res' = functionExtended(Input(lev), f, n)
          BY <4>4, RunFacts DEF FunctionExtended
        <5> QED
          BY <5>1 DEF Answered, Called
      <4> QED
        BY <4>1, <4>2, <4>3, <4>4
    <3> QED
      BY <3>1, <3>2, <3>3, <3>4, <3>5, <3>6, <3>7, <3>8, <3>9, <3>10, <3>11, <3>12, <3>13, <3>14
  <2> QED
    BY <2>1, <2>2
<1> QED
  BY <1>1, <1>2, PTL DEF AlgoSpec

LEMMA InputsHave ==
  ASSUME NEW lev \in 1 .. MaxLevel
  PROVE  /\ lev \in Nat \ {0} /\ Number \in Int /\ MaxDegree \in Nat \ {0}
         /\ Has(Input(lev), lev, 1, Number, TRUE)
         /\ \A i \in 0 .. MaxDegree - 1 : Factors[i] \in Int /\ Has(Inputs(lev)[i], lev, 1, Factors[i], TRUE)
<1>1. /\ lev \in Nat \ {0} /\ lev \in Int /\ Number \in Int /\ MaxDegree \in Nat \ {0}
      /\ \A i \in 0 .. MaxDegree - 1 : Factors[i] \in Int
  BY SchemeAlgoParameters
<1>2. \A i \in 0 .. MaxDegree - 1 : Inputs(lev)[i] = Fresh(Factors[i], lev)
  BY DEF Inputs
<1> QED
  BY <1>1, <1>2, FreshHas DEF Input

\* The two ways in which a result is right.
LEMMA HasIsCorrect ==
  ASSUME NEW x, NEW val, NEW dep \in Nat, call.l \in Nat, Has(x, call.l - dep, 1, val, call.l > dep)
  PROVE  Correct(x, val, dep)
<1>1. x \in Ciphertext /\ x.l = call.l - dep /\ x.e = 1 /\ x.v = val /\ (x.err = "none" <=> call.l > dep)
  BY DEF Has
<1>2. x = [l |-> x.l, e |-> x.e, v |-> x.v, err |-> x.err]
  BY <1>1, HasFacts
<1>3. CASE call.l > dep
  BY <1>1, <1>2, <1>3 DEF Correct
<1>4. CASE ~(call.l > dep)
  BY <1>1, <1>4 DEF Correct
<1> QED
  BY <1>3, <1>4

\* The powers of a number are computed at the highest level they can have, and
\* power computes the power.
THEOREM PowersAlways == AlgoSpec => []PowersAreAligned
<1>1. CallIsAnswered => PowersAreAligned
  <2> SUFFICES ASSUME CallIsAnswered PROVE PowersAreAligned
    OBVIOUS
  <2>1. CASE Called("none")
    BY <2>1 DEF Called, PowersAreAligned
  <2>2. CASE Answered
    <3>1. /\ call.n \in 1 .. MaxDegree /\ call.l \in 1 .. MaxLevel
          /\ Called("power") => res = <<power(Input(call.l), call.n)>>
          /\ Called("powerExtended") => res = powerExtended(Input(call.l), call.n)
      BY <2>2 DEF Answered
    <3>2. PICK n \in 1 .. MaxDegree, lev \in 1 .. MaxLevel : call.n = n /\ call.l = lev
      BY <3>1
    <3>3. /\ n \in Nat \ {0} /\ lev \in Nat \ {0} /\ Number \in Int
          /\ Has(Input(lev), lev, 1, Number, TRUE)
      <4>1. lev \in Nat \ {0} /\ Number \in Int /\ Has(Input(lev), lev, 1, Number, TRUE)
        BY InputsHave
      <4>2. n \in Nat \ {0}
        BY SchemeAlgoParameters
      <4> QED
        BY <4>1, <4>2
    <3>4. Called("powerExtended") => \A k \in 1 .. n : Correct(res[k], PowerOf(Number, k), Depth(k))
      <4> SUFFICES ASSUME Called("powerExtended"), NEW k \in 1 .. n PROVE Correct(res[k], PowerOf(Number, k), Depth(k))
        OBVIOUS
      <4>1. res = powerExtended(Input(lev), n)
        BY <3>1, <3>2
      <4>2. Has(powerExtended(Input(lev), n)[k], lev - Depth(k), 1, PowerOf(Number, k), lev > Depth(k))
        BY <3>3, PowerExtendedHave
      <4>3. Depth(k) \in Nat /\ call.l \in Nat
        BY <3>2, <3>3, DepthFacts
      <4> QED
        BY <3>2, <4>1, <4>2, <4>3, HasIsCorrect
    <3>5. Called("power") => res[1].v = PowerOf(Number, n) /\ res[1].e = 1
      <4> SUFFICES ASSUME Called("power") PROVE res[1].v = PowerOf(Number, n) /\ res[1].e = 1
        OBVIOUS
      <4>1. res = <<power(Input(lev), n)>>
        BY <3>1, <3>2
      <4>2. res[1] = power(Input(lev), n)
        BY <4>1
      <4>3. power(Input(lev), n).e = 1 /\ power(Input(lev), n).v = PowerOf(Number, n)
        BY <3>3, PowerHas
      <4> QED
        BY <4>2, <4>3
    <3> QED
      BY <3>2, <3>4, <3>5 DEF PowersAreAligned
  <2> QED
    BY <2>1, <2>2 DEF CallIsAnswered
<1> QED
  BY <1>1, AnsweredAlways, PTL

-------------------------------------------------------------------------------
(* Sums and products of two parts *)

LEMMA BelowAppend ==
  ASSUME NEW m \in Nat, NEW n \in Nat, NEW f, NEW g, \A i \in 0 .. (m + n) - 1 : f[i] \in Int,
         \A j \in 0 .. n - 1 : g[j] = f[m + j]
  PROVE  SumBelow(f, m + n) = SumBelow(f, m) + SumBelow(g, n)
<1> DEFINE T == {k \in 0 .. n : SumBelow(f, m + k) = SumBelow(f, m) + SumBelow(g, k)}
<1>1. SumBelow(f, m) \in Int
  BY BelowIsNumber
<1>2. 0 \in T
  BY <1>1, BelowSteps
<1>3. ASSUME NEW k \in 0 .. n - 1, k \in T PROVE k + 1 \in T
  <2>1. k \in Nat /\ m + k \in Nat /\ m + (k + 1) = (m + k) + 1 /\ k + 1 \in 0 .. n /\ m + k \in 0 .. (m + n) - 1
    OBVIOUS
  <2>2. SumBelow(f, m + k) = SumBelow(f, m) + SumBelow(g, k)
    BY <1>3
  <2>3. SumBelow(f, (m + k) + 1) = SumBelow(f, m + k) + f[m + k] /\ SumBelow(g, k + 1) = SumBelow(g, k) + g[k]
    BY <2>1, BelowSteps
  <2>4. g[k] = f[m + k] /\ f[m + k] \in Int
    BY <2>1
  <2>5. SumBelow(g, k) \in Int
    <3>1. \A j \in 0 .. k - 1 : g[j] \in Int
      <4> SUFFICES ASSUME NEW j \in 0 .. k - 1 PROVE g[j] \in Int
        OBVIOUS
      <4>1. j \in 0 .. n - 1 /\ m + j \in 0 .. (m + n) - 1
        OBVIOUS
      <4> QED
        BY <4>1
    <3> QED
      BY <2>1, <3>1, BelowIsNumber
  <2>6. SumBelow(f, m + (k + 1)) = SumBelow(f, m) + SumBelow(g, k + 1)
    BY <1>1, <2>1, <2>2, <2>3, <2>4, <2>5
  <2> QED
    BY <2>1, <2>6
<1> HIDE DEF T
<1>4. \A k \in 0 .. n - 1 : k \in T => k + 1 \in T
  BY <1>3
<1>5. \A k \in 0 .. n : k \in T
  BY <1>2, <1>4, InductionUpTo
<1> QED
  BY <1>5 DEF T

LEMMA ProductBelowSteps ==
  \A f : ProductBelow(f, 0) = 1 /\ \A n \in Nat : ProductBelow(f, n + 1) = ProductBelow(f, n) * f[n]
<1> SUFFICES ASSUME NEW f PROVE ProductBelow(f, 0) = 1 /\ \A n \in Nat : ProductBelow(f, n + 1) = ProductBelow(f, n) * f[n]
  OBVIOUS
<1>1. ProductBelow(f, 0) = 1
  BY ProductSteps DEF ProductBelow
<1>2. ASSUME NEW n \in Nat PROVE ProductBelow(f, n + 1) = ProductBelow(f, n) * f[n]
  <2> DEFINE a == [i \in 1 .. n |-> f[i - 1]]
             b == [i \in 1 .. n + 1 |-> f[i - 1]]
  <2>1. b[n + 1] = f[n] /\ \A i \in 1 .. n : a[i] = b[i]
    OBVIOUS
  <2>2. ProductBelow(f, n) = ProductOf(a, n) /\ ProductBelow(f, n + 1) = ProductOf(b, n + 1)
    BY DEF ProductBelow
  <2> HIDE DEF a, b
  <2>3. ProductOf(b, n + 1) = ProductOf(b, n) * b[n + 1]
    BY ProductSteps
  <2>4. ProductOf(b, n) = ProductOf(a, n)
    BY <2>1, SumSame
  <2> QED
    BY <2>1, <2>2, <2>3, <2>4
<1> QED
  BY <1>1, <1>2

LEMMA ProductBelowFacts ==
  ASSUME NEW n \in Nat, NEW f, NEW g, \A i \in 0 .. n - 1 : f[i] \in Int /\ g[i] = f[i]
  PROVE  ProductBelow(f, n) \in Int /\ ProductBelow(g, n) = ProductBelow(f, n)
<1> DEFINE T == {k \in 0 .. n : ProductBelow(f, k) \in Int /\ ProductBelow(g, k) = ProductBelow(f, k)}
<1>1. 0 \in T
  BY ProductBelowSteps
<1>2. ASSUME NEW k \in 0 .. n - 1, k \in T PROVE k + 1 \in T
  <2>1. k \in Nat /\ k + 1 \in 0 .. n /\ f[k] \in Int /\ g[k] = f[k]
    OBVIOUS
  <2>2. ProductBelow(f, k) \in Int /\ ProductBelow(g, k) = ProductBelow(f, k)
    BY <1>2
  <2>3. ProductBelow(f, k + 1) = ProductBelow(f, k) * f[k] /\ ProductBelow(g, k + 1) = ProductBelow(g, k) * g[k]
    BY <2>1, ProductBelowSteps
  <2> QED
    BY <2>1, <2>2, <2>3
<1> HIDE DEF T
<1>3. \A k \in 0 .. n - 1 : k \in T => k + 1 \in T
  BY <1>2
<1>4. \A k \in 0 .. n : k \in T
  BY <1>1, <1>3, InductionUpTo
<1> QED
  BY <1>4 DEF T

LEMMA ProductBelowAppend ==
  ASSUME NEW m \in Nat, NEW n \in Nat, NEW f, NEW g, \A i \in 0 .. (m + n) - 1 : f[i] \in Int,
         \A j \in 0 .. n - 1 : g[j] = f[m + j]
  PROVE  /\ ProductBelow(f, m + n) = ProductBelow(f, m) * ProductBelow(g, n)
         /\ ProductBelow(f, m) \in Int /\ ProductBelow(g, n) \in Int
<1> DEFINE T == {k \in 0 .. n : ProductBelow(f, m + k) = ProductBelow(f, m) * ProductBelow(g, k)}
<1>1. ProductBelow(f, m) \in Int
  <2>1. \A i \in 0 .. m - 1 : i \in 0 .. (m + n) - 1
    OBVIOUS
  <2>2. \A i \in 0 .. m - 1 : f[i] \in Int /\ f[i] = f[i]
    BY <2>1
  <2> QED
    BY <2>2, ProductBelowFacts
<1>2. \A j \in 0 .. n - 1 : g[j] \in Int /\ m + j \in 0 .. (m + n) - 1
  <2> SUFFICES ASSUME NEW j \in 0 .. n - 1 PROVE g[j] \in Int /\ m + j \in 0 .. (m + n) - 1
    OBVIOUS
  <2>1. m + j \in 0 .. (m + n) - 1
    OBVIOUS
  <2> QED
    BY <2>1
<1>3. \A k \in 0 .. n : ProductBelow(g, k) \in Int
  <2> SUFFICES ASSUME NEW k \in 0 .. n PROVE ProductBelow(g, k) \in Int
    OBVIOUS
  <2>1. k \in Nat /\ \A j \in 0 .. k - 1 : j \in 0 .. n - 1
    OBVIOUS
  <2>2. \A j \in 0 .. k - 1 : g[j] \in Int /\ g[j] = g[j]
    BY <1>2, <2>1
  <2> QED
    BY <2>1, <2>2, ProductBelowFacts
<1>4. 0 \in T
  BY <1>1, ProductBelowSteps
<1>5. ASSUME NEW k \in 0 .. n - 1, k \in T PROVE k + 1 \in T
  <2>1. k \in Nat /\ k \in 0 .. n /\ m + k \in Nat /\ m + (k + 1) = (m + k) + 1 /\ k + 1 \in 0 .. n
    OBVIOUS
  <2> DEFINE a == ProductBelow(f, m)
             b == ProductBelow(g, k)
             t == g[k]
  <2>2. ProductBelow(f, m + k) = a * b
    BY <1>5
  <2>3. ProductBelow(f, (m + k) + 1) = ProductBelow(f, m + k) * f[m + k] /\ ProductBelow(g, k + 1) = b * t
    BY <2>1, ProductBelowSteps
  <2>4. t = f[m + k] /\ t \in Int /\ a \in Int /\ b \in Int
    BY <1>1, <1>2, <1>3, <2>1
  <2> HIDE DEF a, b, t
  <2>5. (a * b) * t = a * (b * t)
    BY <2>4
  <2>6. ProductBelow(f, m + (k + 1)) = a * ProductBelow(g, k + 1)
    BY <2>1, <2>2, <2>3, <2>4, <2>5
  <2> QED
    BY <2>1, <2>6 DEF a
<1> HIDE DEF T
<1>6. \A k \in 0 .. n - 1 : k \in T => k + 1 \in T
  BY <1>5
<1>7. \A k \in 0 .. n : k \in T
  BY <1>4, <1>6, InductionUpTo
<1>8. n \in T /\ n \in 0 .. n
  BY <1>7
<1> QED
  BY <1>1, <1>3, <1>8 DEF T

-------------------------------------------------------------------------------
(* The geometric series *)

LEMMA GeometricSteps ==
  ASSUME Number \in Int
  PROVE  /\ Geometric(1) = Number + 1
         /\ \A n \in Nat : /\ Geometric(n) \in Int
                           /\ Geometric(n + 1) = (PowerOf(Number, Pow2[n]) + 1) * Geometric(n)
<1>1. ASSUME NEW n \in Nat
      PROVE  Geometric(n) \in Int /\ Geometric(n + 1) = (PowerOf(Number, Pow2[n]) + 1) * Geometric(n)
  <2> DEFINE w == Pow2[n]
             f == [j \in 0 .. w - 1 |-> PowerOf(Number, j)]
             g == [j \in 0 .. (w + w) - 1 |-> PowerOf(Number, j)]
             s == [j \in 0 .. w - 1 |-> PowerOf(Number, w + j)]
             a == PowerOf(Number, w)
  <2>1. w \in Nat \ {0} /\ Pow2[n + 1] = w + w
    BY Pow2Facts
  <2>2. Geometric(n) = SumBelow(f, w) /\ Geometric(n + 1) = SumBelow(g, w + w)
    BY <2>1 DEF Geometric
  <2> HIDE DEF w
  <2>3. /\ \A j \in 0 .. (w + w) - 1 : g[j] = PowerOf(Number, j) /\ g[j] \in Int
        /\ \A j \in 0 .. w - 1 : f[j] = PowerOf(Number, j) /\ f[j] \in Int /\ g[j] = f[j]
        /\ \A j \in 0 .. w - 1 : s[j] = g[w + j] /\ s[j] = a * f[j]
        /\ a \in Int
    <3>1. \A j \in Nat : PowerOf(Number, j) \in Int
      BY PowerSteps
    <3>2. a \in Int
      BY <2>1, <3>1
    <3>3. \A j \in 0 .. w - 1 : PowerOf(Number, w + j) = a * PowerOf(Number, j)
      <4> SUFFICES ASSUME NEW j \in 0 .. w - 1 PROVE PowerOf(Number, w + j) = a * PowerOf(Number, j)
        OBVIOUS
      <4>1. j \in Nat /\ w \in Nat
        BY <2>1
      <4> QED
        BY <4>1, PowerSum
    <3> HIDE DEF a
    <3>4. \A j \in 0 .. (w + w) - 1 : j \in Nat /\ g[j] = PowerOf(Number, j)
      BY <2>1
    <3>5. \A j \in 0 .. w - 1 : j \in Nat /\ f[j] = PowerOf(Number, j) /\ j \in 0 .. (w + w) - 1
      BY <2>1
    <3>6. \A j \in 0 .. w - 1 : s[j] = PowerOf(Number, w + j) /\ w + j \in 0 .. (w + w) - 1
      BY <2>1
    <3> HIDE DEF f, g, s
    <3> QED
      BY <3>1, <3>2, <3>3, <3>4, <3>5, <3>6
  <2> HIDE DEF f, g, s, a
  <2>4. SumBelow(g, w + w) = SumBelow(g, w) + SumBelow(s, w)
    BY <2>1, <2>3, BelowAppend
  <2>5. SumBelow(g, w) = SumBelow(f, w)
    BY <2>1, <2>3, BelowSame
  <2>6. SumBelow(f, w) \in Int /\ SumBelow(s, w) = a * SumBelow(f, w)
    BY <2>1, <2>3, BelowTimes
  <2> DEFINE b == SumBelow(f, w)
  <2> HIDE DEF b
  <2>7. b \in Int /\ a \in Int /\ Geometric(n) = b /\ Geometric(n + 1) = b + a * b
    BY <2>2, <2>3, <2>4, <2>5, <2>6 DEF b
  <2>8. b + a * b = (a + 1) * b
    BY <2>7
  <2> QED
    BY <2>7, <2>8 DEF a, w
<1>2. Geometric(0) = 1
  <2> DEFINE f == [j \in 0 .. Pow2[0] - 1 |-> PowerOf(Number, j)]
  <2>1. Pow2[0] = 1 /\ f[0] = 1
    <3>1. Pow2[0] = 1
      BY Pow2Facts
    <3> QED
      BY <3>1, PowerSteps
  <2>2. Geometric(0) = SumBelow(f, 0 + 1)
    BY <2>1 DEF Geometric
  <2> HIDE DEF f
  <2>3. SumBelow(f, 0 + 1) = SumBelow(f, 0) + f[0] /\ SumBelow(f, 0) = 0
    BY BelowSteps
  <2> QED
    BY <2>1, <2>2, <2>3
<1>3. Geometric(1) = Number + 1
  <2>1. Geometric(0 + 1) = (PowerOf(Number, Pow2[0]) + 1) * Geometric(0) /\ PowerOf(Number, Pow2[0]) = Number
    BY <1>1, Pow2Facts, PowerSteps
  <2> QED
    BY <1>2, <2>1
<1> QED
  BY <1>1, <1>3

LEMMA InverseExtendedSteps ==
  ASSUME NEW x \in Ciphertext, NEW first \in Ciphertext, NEW steps \in Nat \ {0}, x.e = 1,
         NEW h, h = powerOf2Extended(x, steps - 1), \A i \in 0 .. steps - 1 : h[i] \in Ciphertext /\ h[i].e = 1
  PROVE  LET r == inverseExtended(x, first, steps)
         IN  /\ r[0] = modDownByAndEqual(first, 1)
             /\ \A i \in 1 .. steps - 1 : r[i] = multAndRescale(addConstAndEqual(h[i], 1), r[i - 1])
<1> DEFINE n == steps - 1
           b == modDownByAndEqual(first, 1)
           Body(f) == [i \in 0 .. n |-> IF i = 0 THEN b ELSE multAndRescale(addConstAndEqual(h[i], 1), f[i - 1])]
           step == [i \in 1 .. n |-> [y \in Ciphertext |-> multAndRescale(addConstAndEqual(h[i], 1), y)]]
<1>1. n \in Nat /\ b \in Ciphertext
  <2>1. first.l - 1 \in Int
    BY ClosedOperations
  <2> QED
    BY <2>1, ClosedOperations DEF modDownByAndEqual
<1>2. inverseExtended(x, first, steps) = CHOOSE f : f = Body(f)
  BY Zenon DEF inverseExtended
<1> HIDE DEF b, n
<1>3. /\ \A i \in 1 .. n : i - 1 \in 0 .. n /\ i # 0 /\ i \in 0 .. n
      /\ \A i \in 0 .. n : i = 0 \/ i \in 1 .. n
      /\ \A i \in 1 .. n : \A y \in Ciphertext : step[i][y] = multAndRescale(addConstAndEqual(h[i], 1), y)
  BY <1>1
<1>4. \A i \in 1 .. n : \A y \in Ciphertext : multAndRescale(addConstAndEqual(h[i], 1), y) \in Ciphertext
  <2> SUFFICES ASSUME NEW i \in 1 .. n, NEW y \in Ciphertext
               PROVE  multAndRescale(addConstAndEqual(h[i], 1), y) \in Ciphertext
    OBVIOUS
  <2>1. h[i] \in Ciphertext /\ h[i].e = 1
    BY <1>3 DEF n
  <2>2. addConstAndEqual(h[i], 1) \in Ciphertext
    BY <2>1, ClosedOperations
  <2> QED
    BY <2>2, ClosedOperations
<1> HIDE DEF step
<1>5. PICK f : IsIteration(f, Ciphertext, n, b, step)
  BY <1>1, <1>3, <1>4, Iteration
<1>6. f = Body(f)
  <2>1. /\ f = [i \in 0 .. n |-> f[i]] /\ f[0] = b /\ \A i \in 0 .. n : f[i] \in Ciphertext
        /\ \A i \in 1 .. n : f[i] = step[i][f[i - 1]]
    BY <1>5 DEF IsIteration
  <2>2. \A i \in 1 .. n : f[i] = multAndRescale(addConstAndEqual(h[i], 1), f[i - 1])
    BY <1>3, <2>1
  <2> QED
    BY <1>3, <2>1, <2>2
<1> DEFINE r == inverseExtended(x, first, steps)
<1>7. r = Body(r)
  <2> HIDE DEF Body
  <2> QED
    BY <1>2, <1>6, Zenon
<1>8. r[0] = b /\ \A i \in 1 .. n : r[i] = multAndRescale(addConstAndEqual(h[i], 1), r[i - 1])
  <2> HIDE DEF r
  <2>1. r = [i \in 0 .. n |-> IF i = 0 THEN b ELSE multAndRescale(addConstAndEqual(h[i], 1), r[i - 1])]
    BY <1>7, Zenon
  <2> HIDE DEF Body
  <2> QED
    BY <1>1, <1>3, <2>1
<1> QED
  BY <1>8 DEF n, b

LEMMA InverseExtendedHave ==
  ASSUME NEW steps \in Nat \ {0}, NEW lev \in Nat \ {0}, Number \in Int,
         NEW x, Has(x, lev, 1, Number, TRUE), NEW first, Has(first, lev, 1, Number + 1, TRUE)
  PROVE  \A i \in 0 .. steps - 1 :
           Has(inverseExtended(x, first, steps)[i], lev - (i + 1), 1, Geometric(i + 1), lev > i + 1)
<1> DEFINE n == steps - 1
           h == powerOf2Extended(x, n)
           r == inverseExtended(x, first, steps)
           T == {i \in 0 .. n : Has(r[i], lev - (i + 1), 1, Geometric(i + 1), lev > i + 1)}
<1>1. n \in Nat /\ x \in Ciphertext /\ x.e = 1 /\ first \in Ciphertext /\ first.l = lev
      /\ first.e = 1 /\ first.v = Number + 1 /\ first.err = "none"
  BY DEF Has
<1>2. \A i \in 0 .. n : Has(h[i], lev - i, 1, PowerOf(Number, Pow2[i]), lev > i)
  BY <1>1, PowersOf2Have
<1>3. r[0] = modDownByAndEqual(first, 1) /\ \A i \in 1 .. n : r[i] = multAndRescale(addConstAndEqual(h[i], 1), r[i - 1])
  <2>1. \A i \in 0 .. steps - 1 : h[i] \in Ciphertext /\ h[i].e = 1
    BY <1>2 DEF Has
  <2> HIDE DEF r
  <2> DEFINE hh == h
  <2>2. hh = powerOf2Extended(x, steps - 1) /\ \A i \in 0 .. steps - 1 : hh[i] \in Ciphertext /\ hh[i].e = 1
    BY <2>1
  <2> HIDE DEF hh
  <2>3. /\ inverseExtended(x, first, steps)[0] = modDownByAndEqual(first, 1)
        /\ \A i \in 1 .. steps - 1 : inverseExtended(x, first, steps)[i]
             = multAndRescale(addConstAndEqual(hh[i], 1), inverseExtended(x, first, steps)[i - 1])
    BY <1>1, <2>2, InverseExtendedSteps
  <2> QED
    BY <2>3 DEF hh, r
<1> HIDE DEF h, r, n
<1>4. 0 \in T
  <2>1. Has(modDownToAndEqual(first, lev - 1), lev - 1, 1, Number + 1, first.err = "none" /\ lev - 1 <= lev /\ lev - 1 > 0)
    BY <1>1, ModDownHas
  <2>2. modDownByAndEqual(first, 1) = modDownToAndEqual(first, lev - 1)
    BY <1>1 DEF modDownByAndEqual
  <2>3. Geometric(0 + 1) = Number + 1
    BY GeometricSteps
  <2>4. lev > 0 + 1 <=> first.err = "none" /\ lev - 1 <= lev /\ lev - 1 > 0
    BY <1>1
  <2>5. Has(r[0], lev - (0 + 1), 1, Geometric(0 + 1), lev > 0 + 1)
    BY <1>3, <2>1, <2>2, <2>3, <2>4 DEF Has
  <2> QED
    BY <1>1, <2>5
<1>5. ASSUME NEW i \in 0 .. n - 1, i \in T PROVE i + 1 \in T
  <2> DEFINE k == i + 1
             y == h[k]
             z == addConstAndEqual(y, 1)
             a == PowerOf(Number, Pow2[k])
             s == Geometric(k)
             u == r[i]
  <2>1. i \in Nat /\ k \in Nat /\ k \in 1 .. n /\ k \in 0 .. n /\ k - 1 = i
    BY <1>1
  <2>2. Has(u, lev - k, 1, s, lev > k)
    BY <1>5
  <2>3. Has(y, lev - k, 1, a, lev > k)
    BY <1>2, <2>1
  <2>4. r[k] = multAndRescale(z, u)
    BY <1>3, <2>1
  <2>5. a \in Int /\ s \in Int /\ Geometric(k + 1) = (a + 1) * s
    BY <2>1, GeometricSteps, PowerSteps, Pow2Facts
  <2> HIDE DEF k, y, z, a, s, u
  <2>6. u \in Ciphertext /\ u.l = lev - k /\ u.e = 1 /\ u.v = s /\ (u.err = "none" <=> lev > k)
    BY <2>2 DEF Has
  <2>7. y \in Ciphertext /\ y.l = lev - k /\ y.e = 1 /\ y.v = a /\ (y.err = "none" <=> lev > k)
    BY <2>3 DEF Has
  <2>8. z \in Ciphertext /\ z.l = y.l /\ z.e = 1 /\ z.v = a + 1 /\ (z.err = "none" <=> y.err = "none")
    <3>1. \A t \in Ciphertext : t.e = 1 => Has(addConstAndEqual(t, 1), t.l, t.e, t.v + 1, t.err = "none")
      BY ConstantsHave
    <3>2. Has(z, y.l, y.e, y.v + 1, y.err = "none")
      BY <2>7, <3>1 DEF z
    <3> QED
      BY <2>7, <3>2 DEF Has
  <2>9. Has(multAndRescale(z, u), z.l - 1, (z.e + u.e) - 1, z.v * u.v,
            z.err = "none" /\ u.err = "none" /\ z.l = u.l /\ z.l > 1)
    BY <2>6, <2>8, MultAndRescaleHas
  <2>10. /\ z.l - 1 = lev - (k + 1) /\ (z.e + u.e) - 1 = 1 /\ z.v * u.v = (a + 1) * s
         /\ (z.err = "none" /\ u.err = "none" /\ z.l = u.l /\ z.l > 1 <=> lev > k + 1)
    <3>1. z.l - 1 = lev - (k + 1) /\ (z.e + u.e) - 1 = 1 /\ z.v = a + 1 /\ u.v = s
      BY <2>1, <2>6, <2>7, <2>8
    <3>2. z.err = "none" /\ u.err = "none" /\ z.l = u.l /\ z.l > 1 <=> lev > k + 1
      BY <2>1, <2>6, <2>7, <2>8
    <3> QED
      BY <3>1, <3>2
  <2>11. Has(r[k], lev - (k + 1), 1, Geometric(k + 1), lev > k + 1)
    BY <2>4, <2>5, <2>9, <2>10 DEF Has
  <2> QED
    BY <2>1, <2>11 DEF k
<1> HIDE DEF T
<1>6. \A i \in 0 .. n - 1 : i \in T => i + 1 \in T
  BY <1>5
<1>7. \A i \in 0 .. n : i \in T
  BY <1>1, <1>4, <1>6, InductionUpTo
<1> QED
  BY <1>7 DEF T, r, n

\* The inverse is a partial sum of the geometric series.
THEOREM InverseAlways == AlgoSpec => []InverseIsGeometric
<1>1. CallIsAnswered => InverseIsGeometric
  <2> SUFFICES ASSUME CallIsAnswered PROVE InverseIsGeometric
    OBVIOUS
  <2>1. CASE Called("none")
    BY <2>1 DEF Called, InverseIsGeometric
  <2>2. CASE Answered
    <3>1. /\ call.n \in 1 .. MaxDegree /\ call.l \in 1 .. MaxLevel
          /\ Called("inverse") => res = <<inverse(Fresh(1 - Number, call.l), call.n)>>
          /\ Called("inverseExtended") =>
               res = Vector(call.n, inverseExtended(Input(call.l), addConstAndEqual(Input(call.l), 1), call.n))
      BY <2>2 DEF Answered
    <3>2. PICK n \in 1 .. MaxDegree, lev \in 1 .. MaxLevel : call.n = n /\ call.l = lev
      BY <3>1
    <3>3. n \in Nat \ {0} /\ lev \in Nat \ {0} /\ Number \in Int /\ Has(Input(lev), lev, 1, Number, TRUE)
      <4>1. lev \in Nat \ {0} /\ Number \in Int /\ Has(Input(lev), lev, 1, Number, TRUE)
        BY InputsHave
      <4>2. n \in Nat \ {0}
        BY SchemeAlgoParameters
      <4> QED
        BY <4>1, <4>2
    <3>4. \A x \in Ciphertext : x.e = 1 => Has(addConstAndEqual(x, 1), x.l, x.e, x.v + 1, x.err = "none")
      BY ConstantsHave
    <3>5. Called("inverseExtended") => \A i \in 1 .. n : Correct(res[i], Geometric(i), i)
      <4> SUFFICES ASSUME Called("inverseExtended"), NEW i \in 1 .. n PROVE Correct(res[i], Geometric(i), i)
        OBVIOUS
      <4> DEFINE x == Input(lev)
                 first == addConstAndEqual(x, 1)
                 r == inverseExtended(x, first, n)
      <4>1. res = Vector(n, r)
        BY <3>1, <3>2
      <4>2. Has(first, lev, 1, Number + 1, TRUE)
        BY <3>3, <3>4 DEF Has
      <4> HIDE DEF x, first
      <4>3. Has(x, lev, 1, Number, TRUE)
        BY <3>3 DEF x
      <4>4. \A k \in 0 .. n - 1 : Has(r[k], lev - (k + 1), 1, Geometric(k + 1), lev > k + 1)
        BY <3>3, <4>2, <4>3, InverseExtendedHave
      <4> HIDE DEF r
      <4>5. i - 1 \in 0 .. n - 1 /\ (i - 1) + 1 = i /\ i \in Nat
        BY <3>3
      <4>6. res[i] = r[i - 1]
        BY <4>1 DEF Vector
      <4>7. Has(r[i - 1], lev - ((i - 1) + 1), 1, Geometric((i - 1) + 1), lev > (i - 1) + 1)
        BY <4>4, <4>5
      <4>8. Has(res[i], call.l - i, 1, Geometric(i), call.l > i)
        BY <3>2, <4>5, <4>6, <4>7
      <4> QED
        BY <3>2, <3>3, <4>5, <4>8, HasIsCorrect
    <3>6. Called("inverse") => Correct(res[1], Geometric(n), n)
      <4> SUFFICES ASSUME Called("inverse") PROVE Correct(res[1], Geometric(n), n)
        OBVIOUS
      <4> DEFINE x == Fresh(1 - Number, lev)
                 y == negate(x)
                 z == addConstAndEqual(y, 1)
                 first == addConstAndEqual(z, 1)
                 r == inverseExtended(z, first, n)
      <4>1. Has(x, lev, 1, 1 - Number, TRUE)
        <5>1. 1 - Number \in Int /\ lev \in Int
          BY <3>3
        <5> QED
          BY <5>1, FreshHas
      <4>2. res = <<r[n - 1]>>
        BY <3>1, <3>2 DEF inverse
      <4> HIDE DEF x
      <4>3. Has(y, lev, 1, -(1 - Number), TRUE)
        BY <4>1, ConstantsHave DEF Has
      <4> HIDE DEF y
      <4>4. Has(z, lev, 1, -(1 - Number) + 1, TRUE)
        BY <3>4, <4>3 DEF Has
      <4>5. -(1 - Number) + 1 = Number
        BY <3>3
      <4> HIDE DEF z
      <4>6. Has(z, lev, 1, Number, TRUE)
        BY <4>4, <4>5
      <4>7. Has(first, lev, 1, Number + 1, TRUE)
        BY <3>4, <4>6 DEF Has
      <4> HIDE DEF first
      <4>8. \A k \in 0 .. n - 1 : Has(r[k], lev - (k + 1), 1, Geometric(k + 1), lev > k + 1)
        BY <3>3, <4>6, <4>7, InverseExtendedHave
      <4> HIDE DEF r
      <4>9. n - 1 \in 0 .. n - 1 /\ (n - 1) + 1 = n /\ n \in Nat
        BY <3>3
      <4>10. Has(r[n - 1], lev - ((n - 1) + 1), 1, Geometric((n - 1) + 1), lev > (n - 1) + 1)
        BY <4>8, <4>9
      <4>11. Has(res[1], call.l - n, 1, Geometric(n), call.l > n)
        BY <3>2, <4>2, <4>9, <4>10
      <4> QED
        BY <3>2, <3>3, <4>9, <4>11, HasIsCorrect
    <3> QED
      BY <3>2, <3>5, <3>6 DEF InverseIsGeometric
  <2> QED
    BY <2>1, <2>2 DEF CallIsAnswered
<1> QED
  BY <1>1, AnsweredAlways, PTL

-------------------------------------------------------------------------------
(* Series *)

LEMMA DepthOrder ==
  ASSUME NEW n \in Nat \ {0}, NEW i \in 1 .. n
  PROVE  Depth(i) \in Nat /\ Depth(n) \in Nat /\ Depth(i) <= Depth(n)
<1>1. n <= Pow2[Depth(n)]
  <2>1. CASE n = 1
    BY <2>1, Pow2Facts, DepthFacts
  <2>2. CASE n # 1
    <3> DEFINE j == Log2(n - 1)
    <3>1. n - 1 \in Nat \ {0}
      BY <2>2
    <3>2. j \in Nat /\ n - 1 < Pow2[j + 1]
      BY <3>1, Log2Facts
    <3>3. Depth(n) = 1 + j
      BY <2>2 DEF Depth
    <3> HIDE DEF j
    <3>4. Depth(n) = j + 1 /\ Pow2[j + 1] \in Nat
      BY <3>2, <3>3, Pow2Facts
    <3> QED
      BY <3>1, <3>2, <3>4
  <2> QED
    BY <2>1, <2>2
<1>2. i \in Nat \ {0} /\ i <= n
  OBVIOUS
<1>3. Depth(i) \in Nat /\ Depth(n) \in Nat
  BY <1>2, DepthFacts
<1> DEFINE k == Depth(n)
<1> HIDE DEF k
<1>4. k \in Nat /\ n <= Pow2[k] /\ Pow2[k] \in Nat
  BY <1>1, <1>3, Pow2Facts DEF k
<1>5. i \in 1 .. Pow2[k]
  BY <1>2, <1>4
<1>6. Depth(i) <= k
  BY <1>2, <1>4, <1>5, DepthFacts
<1> QED
  BY <1>3, <1>6 DEF k

LEMMA CoefficientFacts ==
  ASSUME NEW f \in DOMAIN Coeffs, NEW i \in 0 .. MaxDegree PROVE Coeffs[f][i] \in Int
BY SchemeAlgoParameters

LEMMA PolynomialSteps ==
  ASSUME NEW f \in DOMAIN Coeffs
  PROVE  /\ Polynomial(f, 0) = Coeffs[f][0]
         /\ \A n \in 0 .. MaxDegree : Polynomial(f, n) \in Int
         /\ \A n \in 1 .. MaxDegree :
              Polynomial(f, n) = Polynomial(f, n - 1) + Coeffs[f][n] * PowerOf(Number, n)
<1> DEFINE g(n) == [i \in 0 .. n |-> Coeffs[f][i] * PowerOf(Number, i)]
<1>1. MaxDegree \in Nat \ {0} /\ Number \in Int
  BY SchemeAlgoParameters
<1>2. \A n \in 0 .. MaxDegree : \A i \in 0 .. n : g(n)[i] = Coeffs[f][i] * PowerOf(Number, i) /\ g(n)[i] \in Int
  <2> SUFFICES ASSUME NEW n \in 0 .. MaxDegree, NEW i \in 0 .. n
               PROVE  g(n)[i] = Coeffs[f][i] * PowerOf(Number, i) /\ g(n)[i] \in Int
    OBVIOUS
  <2>1. i \in 0 .. MaxDegree /\ i \in Nat
    BY <1>1
  <2>2. Coeffs[f][i] \in Int /\ PowerOf(Number, i) \in Int
    BY <1>1, <2>1, CoefficientFacts, PowerSteps
  <2> QED
    BY <2>2
<1>3. \A n : Polynomial(f, n) = SumBelow(g(n), n + 1)
  BY DEF Polynomial
<1> HIDE DEF g
<1>4. \A n \in 0 .. MaxDegree : Polynomial(f, n) \in Int
  <2> SUFFICES ASSUME NEW n \in 0 .. MaxDegree PROVE Polynomial(f, n) \in Int
    OBVIOUS
  <2>1. n + 1 \in Nat /\ \A i \in 0 .. (n + 1) - 1 : i \in 0 .. n
    BY <1>1
  <2>2. \A i \in 0 .. (n + 1) - 1 : g(n)[i] \in Int
    BY <1>2, <2>1
  <2>3. SumBelow(g(n), n + 1) \in Int
    BY <2>1, <2>2, BelowIsNumber
  <2> QED
    BY <1>3, <2>3
<1>5. Polynomial(f, 0) = Coeffs[f][0]
  <2> DEFINE s == g(0)
  <2>1. s[0] = Coeffs[f][0] * PowerOf(Number, 0) /\ Coeffs[f][0] \in Int /\ PowerOf(Number, 0) = 1
    <3>1. 0 \in 0 .. MaxDegree /\ 0 \in 0 .. 0
      BY <1>1
    <3> QED
      BY <1>1, <1>2, <3>1, CoefficientFacts, PowerSteps
  <2>2. Polynomial(f, 0) = SumBelow(s, 0 + 1)
    BY <1>3
  <2> HIDE DEF s
  <2>3. SumBelow(s, 0 + 1) = SumBelow(s, 0) + s[0] /\ SumBelow(s, 0) = 0
    BY BelowSteps
  <2> QED
    BY <2>1, <2>2, <2>3
<1>6. ASSUME NEW n \in 1 .. MaxDegree
      PROVE  Polynomial(f, n) = Polynomial(f, n - 1) + Coeffs[f][n] * PowerOf(Number, n)
  <2> DEFINE s == g(n)
             t == g(n - 1)
  <2>1. /\ n \in Nat /\ n - 1 \in Nat /\ (n - 1) + 1 = n /\ n \in 0 .. n /\ n \in 0 .. MaxDegree
        /\ n - 1 \in 0 .. MaxDegree
        /\ \A i \in 0 .. n - 1 : i \in 0 .. n
    BY <1>1
  <2>2. s[n] = Coeffs[f][n] * PowerOf(Number, n) /\ \A i \in 0 .. n - 1 : t[i] = s[i]
    BY <1>2, <2>1
  <2>3. Polynomial(f, n) = SumBelow(s, n + 1) /\ Polynomial(f, n - 1) = SumBelow(t, n)
    <3>1. Polynomial(f, n - 1) = SumBelow(t, (n - 1) + 1)
      BY <1>3
    <3> QED
      BY <1>3, <2>1, <3>1
  <2> HIDE DEF s, t
  <2>4. SumBelow(s, n + 1) = SumBelow(s, n) + s[n]
    BY <2>1, BelowSteps
  <2>5. SumBelow(t, n) = SumBelow(s, n)
    BY <2>1, <2>2, BelowSame
  <2> QED
    BY <2>2, <2>3, <2>4, <2>5
<1> QED
  BY <1>4, <1>5, <1>6

IsLastTerm(f, n, t) == /\ t \in 1 .. n /\ (Coeffs[f][t] # 0 \/ t = 1)
                       /\ \A j \in t + 1 .. n : Coeffs[f][j] = 0

LEMMA LastTermIs ==
  ASSUME NEW f, NEW n \in Nat, NEW t, IsLastTerm(f, n, t) PROVE LastTerm(f, n) = t
<1> DEFINE u == LastTerm(f, n)
<1>1. u = CHOOSE i \in 1 .. n : IsLastTerm(f, n, i)
  <2>1. \A i \in 1 .. n : IsLastTerm(f, n, i) <=> /\ Coeffs[f][i] # 0 \/ i = 1
                                                  /\ \A j \in i + 1 .. n : Coeffs[f][j] = 0
    BY DEF IsLastTerm
  <2>2. (CHOOSE i \in 1 .. n : IsLastTerm(f, n, i))
          = CHOOSE i \in 1 .. n : /\ Coeffs[f][i] # 0 \/ i = 1
                                  /\ \A j \in i + 1 .. n : Coeffs[f][j] = 0
    BY <2>1
  <2> QED
    BY <2>2, Zenon DEF LastTerm
<1>2. u \in 1 .. n /\ IsLastTerm(f, n, u)
  <2>1. t \in 1 .. n /\ IsLastTerm(f, n, t)
    BY DEF IsLastTerm
  <2> HIDE DEF u
  <2> QED
    BY <1>1, <2>1
<1> HIDE DEF u
<1>3. t \in 1 .. n /\ t \in Int /\ u \in Int
  BY <1>2 DEF IsLastTerm
<1>4. ~(u < t)
  <2> SUFFICES ASSUME u < t PROVE FALSE
    OBVIOUS
  <2>1. t \in u + 1 .. n /\ t # 1
    BY <1>2, <1>3
  <2> QED
    BY <1>2, <2>1 DEF IsLastTerm
<1>5. ~(t < u)
  <2> SUFFICES ASSUME t < u PROVE FALSE
    OBVIOUS
  <2>1. u \in t + 1 .. n /\ u # 1
    BY <1>2, <1>3
  <2> QED
    BY <1>2, <2>1 DEF IsLastTerm
<1> QED
  BY <1>3, <1>4, <1>5 DEF u

LEMMA LastTermSteps ==
  ASSUME NEW f, NEW n \in Nat \ {0}
  PROVE  /\ LastTerm(f, n) \in 1 .. n
         /\ LastTerm(f, 1) = 1
         /\ LastTerm(f, n + 1) = IF Coeffs[f][n + 1] = 0 THEN LastTerm(f, n) ELSE n + 1
<1>1. ASSUME NEW m \in Nat \ {0}, NEW t, IsLastTerm(f, m, t)
      PROVE  IsLastTerm(f, m + 1, IF Coeffs[f][m + 1] = 0 THEN t ELSE m + 1)
  <2>1. t \in 1 .. m /\ (Coeffs[f][t] # 0 \/ t = 1) /\ \A j \in t + 1 .. m : Coeffs[f][j] = 0
    BY <1>1 DEF IsLastTerm
  <2>2. CASE Coeffs[f][m + 1] = 0
    <3>1. t \in 1 .. m + 1 /\ \A j \in t + 1 .. m + 1 : j \in t + 1 .. m \/ j = m + 1
      BY <2>1
    <3>2. IsLastTerm(f, m + 1, t)
      BY <2>1, <2>2, <3>1 DEF IsLastTerm
    <3> QED
      BY <2>2, <3>2
  <2>3. CASE Coeffs[f][m + 1] # 0
    <3>1. m + 1 \in 1 .. m + 1 /\ \A j \in (m + 1) + 1 .. m + 1 : FALSE
      OBVIOUS
    <3>2. IsLastTerm(f, m + 1, m + 1)
      BY <2>3, <3>1 DEF IsLastTerm
    <3> QED
      BY <2>3, <3>2
  <2> QED
    BY <2>2, <2>3
<1>2. IsLastTerm(f, 1, 1)
  <2>1. 1 \in 1 .. 1 /\ \A j \in 1 + 1 .. 1 : FALSE
    OBVIOUS
  <2> QED
    BY <2>1 DEF IsLastTerm
<1> DEFINE T == {m \in 0 .. n - 1 : \E t : IsLastTerm(f, m + 1, t)}
<1>3. 0 \in T
  BY <1>2
<1>4. \A i \in 0 .. (n - 1) - 1 : i \in T => i + 1 \in T
  <2> SUFFICES ASSUME NEW i \in 0 .. (n - 1) - 1, i \in T PROVE i + 1 \in T
    OBVIOUS
  <2>1. PICK t : IsLastTerm(f, i + 1, t)
    OBVIOUS
  <2>2. i + 1 \in Nat \ {0} /\ i + 1 \in 0 .. n - 1
    OBVIOUS
  <2>3. \E u : IsLastTerm(f, (i + 1) + 1, u)
    BY <1>1, <2>1, <2>2
  <2> QED
    BY <2>2, <2>3
<1> HIDE DEF T
<1>5. n - 1 \in T
  <2>1. n - 1 \in Nat /\ n - 1 \in 0 .. n - 1
    OBVIOUS
  <2>2. \A i \in 0 .. n - 1 : i \in T
    BY <1>3, <1>4, <2>1, InductionUpTo
  <2> QED
    BY <2>1, <2>2
<1>6. PICK t : IsLastTerm(f, n, t)
  <2>1. (n - 1) + 1 = n
    OBVIOUS
  <2> QED
    BY <1>5, <2>1 DEF T
<1>7. LastTerm(f, n) = t /\ t \in 1 .. n
  BY <1>6, LastTermIs DEF IsLastTerm
<1>8. LastTerm(f, n + 1) = IF Coeffs[f][n + 1] = 0 THEN t ELSE n + 1
  BY <1>1, <1>6, LastTermIs
<1>9. LastTerm(f, 1) = 1
  BY <1>2, LastTermIs
<1> QED
  BY <1>7, <1>8, <1>9

LEMMA TermsSteps ==
  ASSUME NEW degree \in Nat \ {0}, NEW cpows, NEW coeffs, NEW first \in Ciphertext,
         \A i \in 1 .. degree : cpows[i] \in Ciphertext /\ coeffs[i] \in Int
  PROVE  LET r == Terms(cpows, coeffs, first, degree)
             aixi(i) == multByConstAndEqual(cpows[i], coeffs[i])
         IN  /\ r[1] = first
             /\ \A i \in 2 .. degree : r[i] = IF coeffs[i] = 0 THEN r[i - 1]
                                              ELSE addAndEqual(modDownToAndEqual(r[i - 1], aixi(i).l), aixi(i))
<1> DEFINE aixi(i) == multByConstAndEqual(cpows[i], coeffs[i])
           Made(i, y) == IF i = 1 THEN first
                         ELSE IF coeffs[i] = 0 THEN y
                         ELSE addAndEqual(modDownToAndEqual(y, aixi(i).l), aixi(i))
           Body(f) == [i \in 1 .. degree |-> Made(i, f[i - 1])]
           step == [i \in 1 .. degree |-> [y \in Ciphertext |-> Made(i, y)]]
<1>1. \A i \in 1 .. degree : \A y \in Ciphertext : Made(i, y) \in Ciphertext
  <2> SUFFICES ASSUME NEW i \in 1 .. degree, NEW y \in Ciphertext PROVE Made(i, y) \in Ciphertext
    OBVIOUS
  <2> DEFINE z == aixi(i)
  <2>1. z \in Ciphertext
    BY ClosedOperations
  <2>2. Made(i, y) = IF i = 1 THEN first ELSE IF coeffs[i] = 0 THEN y ELSE addAndEqual(modDownToAndEqual(y, z.l), z)
    OBVIOUS
  <2> HIDE DEF z, Made
  <2>3. z.l \in Int
    BY <2>1, ClosedOperations
  <2>4. modDownToAndEqual(y, z.l) \in Ciphertext
    BY <2>3, ClosedOperations
  <2>5. addAndEqual(modDownToAndEqual(y, z.l), z) \in Ciphertext
    BY <2>1, <2>4, ClosedOperations
  <2> QED
    BY <2>2, <2>5
<1>2. Terms(cpows, coeffs, first, degree) = CHOOSE f : f = Body(f)
  BY Zenon DEF Terms
<1>3. \A y : Made(1, y) = first
  OBVIOUS
<1>4. \A i \in 2 .. degree : \A y : Made(i, y) = IF coeffs[i] = 0 THEN y
                                                 ELSE addAndEqual(modDownToAndEqual(y, aixi(i).l), aixi(i))
  OBVIOUS
<1> HIDE DEF Made, aixi
<1>5. \A i \in 1 .. degree : \A y \in Ciphertext : step[i][y] = Made(i, y)
  OBVIOUS
<1>6. \A i \in 1 .. degree : i \in 0 .. degree /\ i - 1 \in 0 .. degree /\ (i # 1 => i - 1 \in 1 .. degree)
  OBVIOUS
<1> HIDE DEF step
<1>7. PICK f : IsIteration(f, Ciphertext, degree, first, step)
  BY <1>1, <1>5, Iteration
<1>8. \A i \in 1 .. degree : f[i] = Made(i, f[i - 1])
  <2>1. /\ \A i \in 0 .. degree : f[i] \in Ciphertext
        /\ \A i \in 1 .. degree : f[i] = step[i][f[i - 1]]
    BY <1>7 DEF IsIteration
  <2> QED
    BY <1>5, <1>6, <2>1
<1> DEFINE g == [i \in 1 .. degree |-> f[i]]
<1>9. g = Body(g)
  <2>1. \A i \in 1 .. degree : Made(i, f[i - 1]) = Made(i, g[i - 1])
    BY <1>6 DEF Made
  <2> QED
    BY <1>8, <2>1
<1> DEFINE r == Terms(cpows, coeffs, first, degree)
<1>10. r = Body(r)
  <2> HIDE DEF Body, g
  <2> QED
    BY <1>2, <1>9, Zenon
<1>11. \A i \in 1 .. degree : r[i] = Made(i, r[i - 1])
  <2> HIDE DEF r
  <2>1. r = [i \in 1 .. degree |-> Made(i, r[i - 1])]
    BY <1>10, Zenon
  <2> HIDE DEF Body
  <2> QED
    BY <2>1
<1> HIDE DEF r
<1>12. r[1] = first
  BY <1>3, <1>11
<1>13. \A i \in 2 .. degree : r[i] = IF coeffs[i] = 0 THEN r[i - 1]
                                     ELSE addAndEqual(modDownToAndEqual(r[i - 1], aixi(i).l), aixi(i))
  <2> SUFFICES ASSUME NEW i \in 2 .. degree
               PROVE  r[i] = IF coeffs[i] = 0 THEN r[i - 1]
                             ELSE addAndEqual(modDownToAndEqual(r[i - 1], aixi(i).l), aixi(i))
    OBVIOUS
  <2>1. i \in 1 .. degree
    OBVIOUS
  <2> QED
    BY <1>4, <1>11, <2>1
<1> QED
  BY <1>12, <1>13 DEF r, aixi

\* The accumulator has the level of the last term that was added to it.
LEMMA TermsHave ==
  ASSUME NEW degree \in 1 .. MaxDegree, NEW lev \in Nat \ {0}, NEW f \in DOMAIN Coeffs, NEW x,
         Has(x, lev, 1, Number, TRUE), lev > Depth(degree), NEW first, NEW b \in Int,
         Has(first, lev, 2, b + Coeffs[f][1] * Number, TRUE)
  PROVE  \A i \in 1 .. degree :
           Has(Terms(powerExtended(x, degree), Coeffs[f], first, degree)[i], lev - Depth(LastTerm(f, i)), 2,
               (Polynomial(f, i) - Coeffs[f][0]) + b, TRUE)
<1> DEFINE h == powerExtended(x, degree)
           cf == Coeffs[f]
           aixi(i) == multByConstAndEqual(h[i], cf[i])
           r == Terms(h, cf, first, degree)
           Right(i) == Has(r[i], lev - Depth(LastTerm(f, i)), 2, (Polynomial(f, i) - cf[0]) + b, TRUE)
           T == {i \in 0 .. degree : i # 0 => Right(i)}
<1>1. /\ degree \in Nat \ {0} /\ Number \in Int /\ MaxDegree \in Nat \ {0}
      /\ \A i \in 1 .. degree : i \in 1 .. MaxDegree /\ i \in 0 .. MaxDegree /\ i \in Nat \ {0}
      /\ \A i \in 1 .. degree : i - 1 \in 0 .. MaxDegree
      /\ 0 \in 0 .. MaxDegree
  BY SchemeAlgoParameters
<1>2. \A i \in 1 .. degree : Depth(i) \in Nat /\ lev > Depth(i)
  BY <1>1, DepthOrder
<1>3. \A i \in 1 .. degree : Has(h[i], lev - Depth(i), 1, PowerOf(Number, i), TRUE)
  <2> SUFFICES ASSUME NEW i \in 1 .. degree PROVE Has(h[i], lev - Depth(i), 1, PowerOf(Number, i), TRUE)
    OBVIOUS
  <2>1. Has(h[i], lev - Depth(i), 1, PowerOf(Number, i), lev > Depth(i))
    BY <1>1, PowerExtendedHave
  <2> QED
    BY <1>2, <2>1 DEF Has
<1>4. \A i \in 0 .. MaxDegree : cf[i] \in Int
  BY CoefficientFacts
<1>5. /\ r[1] = first
      /\ \A i \in 2 .. degree : r[i] = IF cf[i] = 0 THEN r[i - 1]
                                       ELSE addAndEqual(modDownToAndEqual(r[i - 1], aixi(i).l), aixi(i))
  <2>1. \A i \in 1 .. degree : h[i] \in Ciphertext /\ cf[i] \in Int
    BY <1>1, <1>3, <1>4 DEF Has
  <2>2. first \in Ciphertext
    BY DEF Has
  <2> HIDE DEF h, cf
  <2> QED
    BY <1>1, <2>1, <2>2, TermsSteps
<1>6. \A i \in 1 .. degree : Has(aixi(i), lev - Depth(i), 2, PowerOf(Number, i) * cf[i], TRUE)
  <2> SUFFICES ASSUME NEW i \in 1 .. degree PROVE Has(aixi(i), lev - Depth(i), 2, PowerOf(Number, i) * cf[i], TRUE)
    OBVIOUS
  <2> DEFINE y == h[i]
             k == cf[i]
  <2>1. y \in Ciphertext /\ y.l = lev - Depth(i) /\ y.e = 1 /\ y.v = PowerOf(Number, i) /\ y.err = "none" /\ k \in Int
    BY <1>1, <1>3, <1>4 DEF Has
  <2> HIDE DEF y, k
  <2>2. Has(multByConstAndEqual(y, k), y.l, y.e + 1, y.v * k, y.err = "none")
    BY <2>1, ConstantsHave
  <2> QED
    BY <2>1, <2>2 DEF Has, y, k
<1>7. /\ Polynomial(f, 0) = cf[0]
      /\ \A n \in 0 .. MaxDegree : Polynomial(f, n) \in Int
      /\ \A n \in 1 .. MaxDegree : Polynomial(f, n) = Polynomial(f, n - 1) + cf[n] * PowerOf(Number, n)
  BY PolynomialSteps
<1> HIDE DEF h, cf, aixi, r
<1>8. 0 \in T
  OBVIOUS
<1>9. ASSUME NEW i \in 0 .. degree - 1, i \in T PROVE i + 1 \in T
  <2> DEFINE n == i + 1
             k == cf[n]
             y == r[i]
             a == aixi(n)
             z == modDownToAndEqual(y, a.l)
             w == PowerOf(Number, n)
             s == Polynomial(f, i)
             c0 == cf[0]
  <2>1. n \in 1 .. degree /\ n \in 0 .. degree /\ n \in Nat \ {0} /\ n - 1 = i /\ n \in 1 .. MaxDegree
    BY <1>1
  <2>2. k \in Int /\ c0 \in Int /\ w \in Int /\ s \in Int /\ Polynomial(f, n) = s + k * w
    <3>1. Polynomial(f, n) = Polynomial(f, n - 1) + cf[n] * PowerOf(Number, n)
      BY <1>7, <2>1
    <3>2. k \in Int /\ c0 \in Int /\ w \in Int
      BY <1>1, <1>4, <2>1, PowerSteps
    <3>3. s \in Int
      <4>1. i \in 0 .. MaxDegree
        BY <1>1, <2>1
      <4> QED
        BY <1>7, <4>1
    <3> QED
      BY <2>1, <3>1, <3>2, <3>3
  <2>3. Has(a, lev - Depth(n), 2, w * k, TRUE)
    BY <1>6, <2>1
  <2>4. Right(n)
    <3>1. CASE i = 0
      <4>1. n = 1
        BY <3>1
      <4>2. LastTerm(f, 1) = 1 /\ Depth(1) = 0
        BY <1>1, LastTermSteps, DepthFacts
      <4>3. w = Number /\ s = c0
        BY <1>1, <1>7, <3>1, <4>1, PowerSteps
      <4>4. Has(r[n], lev, 2, b + k * Number, TRUE)
        BY <1>5, <4>1 DEF cf
      <4> HIDE DEF k, w, s, c0
      <4>5. lev - 0 = lev /\ ((s + k * w) - c0) + b = b + k * Number
        <5> DEFINE t == k * Number
        <5>1. t \in Int /\ k * w = t
          BY <1>1, <2>2, <4>3
        <5> HIDE DEF t
        <5>2. ((s + t) - c0) + b = b + t
          BY <2>2, <4>3, <5>1
        <5> QED
          BY <5>1, <5>2 DEF t
      <4> QED
        BY <2>2, <4>1, <4>2, <4>4, <4>5 DEF c0
    <3>2. CASE i # 0
      <4>1. i \in Nat \ {0} /\ n \in 2 .. degree /\ i \in 1 .. degree
        BY <3>2
      <4>2. LastTerm(f, i) \in 1 .. i /\ LastTerm(f, n) = IF k = 0 THEN LastTerm(f, i) ELSE n
        BY <4>1, LastTermSteps DEF cf
      <4> DEFINE d1 == Depth(LastTerm(f, i))
                 d2 == Depth(n)
      <4>3. d1 \in Nat /\ d2 \in Nat /\ d1 <= d2 /\ lev > d2
        <5>1. LastTerm(f, i) \in 1 .. n
          BY <4>1, <4>2
        <5> QED
          BY <1>2, <2>1, <5>1, DepthOrder
      <4>4. Has(y, lev - d1, 2, (s - c0) + b, TRUE)
        BY <1>9, <3>2
      <4>5. r[n] = IF k = 0 THEN y ELSE addAndEqual(z, a)
        BY <1>5, <2>1, <4>1
      <4> HIDE DEF n, k, y, a, z, w, s, c0, d1, d2
      <4>6. CASE k = 0
        <5>1. k * w = 0
          BY <2>2, <4>6
        <5>2. Polynomial(f, n) = s
          BY <2>2, <5>1
        <5>3. LastTerm(f, n) = LastTerm(f, i) /\ r[n] = y
          BY <4>2, <4>5, <4>6
        <5> QED
          BY <4>4, <5>2, <5>3 DEF d1, c0
      <4>7. CASE k # 0
        <5>1. y \in Ciphertext /\ y.l = lev - d1 /\ y.e = 2 /\ y.v = (s - c0) + b /\ y.err = "none"
          BY <4>4 DEF Has
        <5>2. a \in Ciphertext /\ a.l = lev - d2 /\ a.e = 2 /\ a.v = w * k /\ a.err = "none" /\ a.l \in Int
          BY <2>3, HasFacts DEF Has, d2
        <5>3. z \in Ciphertext /\ z.l = a.l /\ z.e = 2 /\ z.v = (s - c0) + b /\ z.err = "none"
          <6>1. Has(z, a.l, y.e, y.v, y.err = "none" /\ a.l <= y.l /\ a.l > 0)
            BY <5>1, <5>2, ModDownHas DEF z
          <6>2. a.l <= y.l /\ a.l > 0
            BY <4>3, <5>1, <5>2
          <6> QED
            BY <5>1, <6>1, <6>2 DEF Has
        <5>4. Has(addAndEqual(z, a), z.l, z.e, z.v + a.v, z.err = "none" /\ a.err = "none" /\ z.l = a.l /\ z.e = a.e)
          BY <5>2, <5>3, AddHas
        <5>5. z.v + a.v = ((s + k * w) - c0) + b
          <6> DEFINE t == k * w
          <6>1. t \in Int /\ w * k = t
            BY <2>2
          <6> HIDE DEF t
          <6>2. ((s - c0) + b) + t = ((s + t) - c0) + b
            BY <2>2, <6>1
          <6> QED
            BY <5>2, <5>3, <6>1, <6>2 DEF t
        <5>6. LastTerm(f, n) = n /\ r[n] = addAndEqual(z, a)
          BY <4>2, <4>5, <4>7
        <5>7. Has(r[n], lev - d2, 2, ((s + k * w) - c0) + b, TRUE)
          BY <5>2, <5>3, <5>4, <5>5, <5>6 DEF Has
        <5> QED
          BY <2>2, <5>6, <5>7 DEF d2, c0
      <4> QED
        BY <4>6, <4>7
    <3> QED
      BY <3>1, <3>2
  <2> HIDE DEF Right
  <2> QED
    BY <2>1, <2>4
<1> HIDE DEF T
<1>10. \A i \in 0 .. degree - 1 : i \in T => i + 1 \in T
  BY <1>9
<1>11. \A i \in 0 .. degree : i \in T
  BY <1>1, <1>8, <1>10, InductionUpTo
<1>12. \A i \in 1 .. degree : i \in 0 .. degree /\ i # 0
  OBVIOUS
<1> QED
  BY <1>11, <1>12 DEF T, r, h, cf

\* The term of degree 1, and the sum of terms once it is rescaled.
FirstTerm(x, f, degree) == multByConstAndEqual(powerExtended(x, degree)[1], Coeffs[f][1])
TotalOf(x, f, degree, first, i) == reScaleByAndEqual(Terms(powerExtended(x, degree), Coeffs[f], first, degree)[i])
DepthOf(f, i) == Depth(LastTerm(f, i)) + 1

LEMMA SeriesHave ==
  ASSUME NEW degree \in 1 .. MaxDegree, NEW lev \in Nat \ {0}, NEW f \in DOMAIN Coeffs, NEW x,
         Has(x, lev, 1, Number, TRUE), lev > Depth(degree) + 1, NEW i \in 1 .. degree
  PROVE  /\ DepthOf(f, i) \in Nat /\ lev > DepthOf(f, i)
         /\ Has(TotalOf(x, f, degree, addP2(FirstTerm(x, f, degree), Coeffs[f][0]), i),
                lev - DepthOf(f, i), 1, Polynomial(f, i), TRUE)
         /\ Has(TotalOf(x, f, degree, FirstTerm(x, f, degree), i),
                lev - DepthOf(f, i), 1, Polynomial(f, i) - Coeffs[f][0], TRUE)
         /\ addConstAndEqual(FirstTerm(x, f, degree), Coeffs[f][0]) = FirstTerm(x, f, degree)
<1> DEFINE h == powerExtended(x, degree)
           c0 == Coeffs[f][0]
           c1 == Coeffs[f][1]
           term == multByConstAndEqual(h[1], c1)
           r(first) == Terms(h, Coeffs[f], first, degree)
<1>1. /\ degree \in Nat \ {0} /\ 1 \in 1 .. degree /\ Number \in Int
      /\ c0 \in Int /\ c1 \in Int /\ Number * c1 \in Int /\ Number * c1 = c1 * Number
      /\ \A n \in 1 .. degree : n \in Nat \ {0} /\ n \in 0 .. MaxDegree
  <2>1. MaxDegree \in Nat \ {0} /\ Number \in Int
    BY SchemeAlgoParameters
  <2>2. 0 \in 0 .. MaxDegree /\ 1 \in 0 .. MaxDegree
    BY <2>1
  <2>3. c0 \in Int /\ c1 \in Int
    BY <2>2, CoefficientFacts
  <2> HIDE DEF c0, c1
  <2> QED
    BY <2>1, <2>3
<1>2. h[1] \in Ciphertext /\ h[1].l = lev /\ h[1].e = 1 /\ h[1].v = Number /\ h[1].err = "none"
  <2>1. Has(h[1], lev - Depth(1), 1, PowerOf(Number, 1), lev > Depth(1))
    BY <1>1, PowerExtendedHave
  <2>2. Depth(1) = 0 /\ PowerOf(Number, 1) = Number
    BY <1>1, PowerSteps, DepthFacts
  <2> HIDE DEF h
  <2> QED
    BY <2>1, <2>2 DEF Has
<1> DEFINE y == h[1]
<1>3. term \in Ciphertext /\ term.l = lev /\ term.e = 2 /\ term.v = Number * c1 /\ term.err = "none"
  <2>1. y \in Ciphertext /\ y.l = lev /\ y.e = 1 /\ y.v = Number /\ y.err = "none"
    BY <1>2
  <2> HIDE DEF y, c1
  <2>2. Has(multByConstAndEqual(y, c1), y.l, y.e + 1, y.v * c1, y.err = "none")
    BY <1>1, <2>1, ConstantsHave
  <2> QED
    BY <2>1, <2>2 DEF Has, y
<1> HIDE DEF y
<1>4. Has(term, lev, 2, 0 + c1 * Number, TRUE)
  <2> HIDE DEF term, c1
  <2>1. 0 + c1 * Number = Number * c1
    BY <1>1
  <2> QED
    BY <1>3, <2>1 DEF Has
<1>5. addConstAndEqual(term, c0) = term
  <2> HIDE DEF term
  <2> QED
    BY <1>3 DEF addConstAndEqual
<1>6. Has(addP2(term, c0), lev, 2, c0 + c1 * Number, TRUE)
  <2> HIDE DEF term, c0, c1
  <2>1. Has(addP2(term, c0), term.l, term.e, term.v + c0, term.err = "none")
    BY <1>1, <1>3, ConstantsHave
  <2>2. term.v + c0 = c0 + c1 * Number
    <3> DEFINE t == Number * c1
    <3>1. t \in Int /\ c1 * Number = t
      BY <1>1
    <3> HIDE DEF t
    <3>2. t + c0 = c0 + t
      BY <1>1, <3>1
    <3> QED
      BY <1>3, <3>1, <3>2 DEF t
  <2> QED
    BY <1>3, <2>1, <2>2 DEF Has
<1>7. /\ lev > Depth(degree) /\ Depth(LastTerm(f, i)) \in Nat
      /\ lev > Depth(LastTerm(f, i)) + 1 /\ Polynomial(f, i) \in Int
  <2>1. Depth(degree) \in Nat
    BY <1>1, DepthFacts
  <2>2. LastTerm(f, i) \in 1 .. i
    BY <1>1, LastTermSteps
  <2>3. LastTerm(f, i) \in 1 .. degree
    BY <1>1, <2>2
  <2>4. Depth(LastTerm(f, i)) \in Nat /\ Depth(LastTerm(f, i)) <= Depth(degree)
    BY <1>1, <2>3, DepthOrder
  <2>5. Polynomial(f, i) \in Int
    BY <1>1, PolynomialSteps
  <2> QED
    BY <2>1, <2>4, <2>5
<1>8. ASSUME NEW first, NEW b \in Int, Has(first, lev, 2, b + c1 * Number, TRUE)
      PROVE  Has(reScaleByAndEqual(r(first)[i]), lev - (Depth(LastTerm(f, i)) + 1), 1, (Polynomial(f, i) - c0) + b, TRUE)
  <2> DEFINE z == r(first)[i]
             d1 == Depth(LastTerm(f, i))
             val == (Polynomial(f, i) - c0) + b
  <2>1. Has(z, lev - d1, 2, val, TRUE)
    BY <1>7, <1>8, TermsHave
  <2>2. d1 \in Nat /\ lev > d1 + 1
    BY <1>7
  <2> HIDE DEF z, d1, val
  <2>3. z \in Ciphertext /\ z.l = lev - d1 /\ z.e = 2 /\ z.v = val /\ z.err = "none"
    BY <2>1 DEF Has
  <2>4. Has(reScaleByAndEqual(z), z.l - 1, z.e - 1, z.v, z.err = "none" /\ z.l > 1)
    BY <2>3, ReScaleHas
  <2>5. z.l - 1 = lev - (d1 + 1) /\ z.e - 1 = 1 /\ z.l > 1
    BY <2>2, <2>3
  <2>6. Has(reScaleByAndEqual(z), lev - (d1 + 1), 1, val, TRUE)
    BY <2>3, <2>4, <2>5 DEF Has
  <2> QED
    BY <2>6 DEF z, d1, val
<1> DEFINE total(first) == reScaleByAndEqual(r(first)[i])
           dep == Depth(LastTerm(f, i)) + 1
           s == Polynomial(f, i)
           zero == 0
<1>9. dep \in Nat /\ lev > dep /\ s \in Int /\ zero \in Int
  BY <1>7
<1>10. \A first : \A b \in Int : Has(first, lev, 2, b + c1 * Number, TRUE) => Has(total(first), lev - dep, 1, (s - c0) + b, TRUE)
  BY <1>8
<1>11. Has(term, lev, 2, zero + c1 * Number, TRUE)
  BY <1>4
<1> HIDE DEF total, dep, s, zero, term, c0, c1
<1>12. Has(total(addP2(term, c0)), lev - dep, 1, (s - c0) + c0, TRUE) /\ Has(total(term), lev - dep, 1, (s - c0) + zero, TRUE)
  BY <1>1, <1>6, <1>9, <1>10, <1>11
<1>13. (s - c0) + c0 = s /\ (s - c0) + zero = s - c0
  BY <1>1, <1>9 DEF zero
<1>14. Has(total(addP2(term, c0)), lev - dep, 1, s, TRUE) /\ Has(total(term), lev - dep, 1, s - c0, TRUE)
  BY <1>12, <1>13
<1>15. /\ total(addP2(term, c0)) = TotalOf(x, f, degree, addP2(FirstTerm(x, f, degree), Coeffs[f][0]), i)
       /\ total(term) = TotalOf(x, f, degree, FirstTerm(x, f, degree), i)
       /\ term = FirstTerm(x, f, degree) /\ c0 = Coeffs[f][0] /\ dep = DepthOf(f, i) /\ s = Polynomial(f, i)
  BY DEF total, term, c0, c1, dep, s, TotalOf, FirstTerm, DepthOf
<1> QED
  BY <1>5, <1>9, <1>14, <1>15

\* Series are evaluated to the polynomial, one level after their last term.
THEOREM SeriesAlways == AlgoSpec => []SeriesIsPolynomial
<1>1. CallIsAnswered => SeriesIsPolynomial
  <2> SUFFICES ASSUME CallIsAnswered, call.f \in {"series", "function", "functionExtended"},
                      call.l > Depth(call.n) + 1, NEW f, f = call.of
               PROVE  /\ Called("series") \/ (Called("function") /\ Coeffs[f][0] = 0) =>
                           Correct(res[1], Polynomial(f, call.n), Depth(LastTerm(f, call.n)) + 1)
                      /\ Called("functionExtended") =>
                           \A n \in 1 .. call.n :
                             Correct(res[n], Polynomial(f, n) - Coeffs[f][0], Depth(LastTerm(f, n)) + 1)
    BY DEF SeriesIsPolynomial
  <2>1. Answered
    BY DEF CallIsAnswered, Called
  <2>2. /\ call.n \in 1 .. MaxDegree /\ call.l \in 1 .. MaxLevel /\ f \in DOMAIN Coeffs
        /\ Called("series") => res = <<series(Input(call.l), f, call.n)>>
        /\ Called("function") => res = <<function(Input(call.l), f, call.n)>>
        /\ Called("functionExtended") => res = functionExtended(Input(call.l), f, call.n)
    BY <2>1 DEF Answered, Called
  <2>3. PICK n \in 1 .. MaxDegree, lev \in 1 .. MaxLevel : call.n = n /\ call.l = lev
    BY <2>2
  <2>4. n \in Nat \ {0} /\ lev \in Nat \ {0} /\ Has(Input(lev), lev, 1, Number, TRUE) /\ lev > Depth(n) + 1
    <3>1. lev \in Nat \ {0} /\ Has(Input(lev), lev, 1, Number, TRUE)
      BY InputsHave
    <3>2. n \in Nat \ {0}
      BY SchemeAlgoParameters
    <3> QED
      BY <2>3, <3>1, <3>2
  <2> DEFINE x == Input(lev)
             c0 == Coeffs[f][0]
             term == FirstTerm(x, f, n)
             t1(i) == TotalOf(x, f, n, addP2(term, c0), i)
             t2(i) == TotalOf(x, f, n, term, i)
             dep(i) == DepthOf(f, i)
  <2>5. \A i \in 1 .. n : /\ dep(i) \in Nat /\ lev > dep(i)
                          /\ Has(t1(i), lev - dep(i), 1, Polynomial(f, i), TRUE)
                          /\ Has(t2(i), lev - dep(i), 1, Polynomial(f, i) - c0, TRUE)
                          /\ addConstAndEqual(term, c0) = term
    <3> HIDE DEF x
    <3>1. Has(x, lev, 1, Number, TRUE)
      BY <2>4 DEF x
    <3> QED
      BY <2>2, <2>4, <3>1, SeriesHave
  <2>6. /\ Called("series") => res = <<t1(n)>>
        /\ Called("function") => res = <<TotalOf(x, f, n, addConstAndEqual(term, c0), n)>>
        /\ Called("functionExtended") => res = [i \in 1 .. n |-> t2(i)]
    BY <2>2, <2>3 DEF series, function, functionExtended, FirstTerm, TotalOf
  <2>7. \A i \in 1 .. n : Polynomial(f, i) \in Int /\ c0 \in Int
    <3>1. MaxDegree \in Nat \ {0}
      BY SchemeAlgoParameters
    <3>2. 0 \in 0 .. MaxDegree /\ \A i \in 1 .. n : i \in 0 .. MaxDegree
      BY <3>1
    <3> QED
      BY <2>2, <3>2, PolynomialSteps, CoefficientFacts
  <2>8. n \in 1 .. n
    BY <2>4
  <2>9. Called("function") => res = <<t2(n)>>
    BY <2>5, <2>6, <2>8
  <2> HIDE DEF term, t1, t2, dep, c0
  <2>10. \A y, val : \A i \in 1 .. n : Has(y, lev - dep(i), 1, val, TRUE) => Correct(y, val, dep(i))
    <3> SUFFICES ASSUME NEW y, NEW val, NEW i \in 1 .. n, Has(y, lev - dep(i), 1, val, TRUE)
                 PROVE  Correct(y, val, dep(i))
      OBVIOUS
    <3>1. dep(i) \in Nat /\ call.l > dep(i) /\ call.l \in Nat
      BY <2>3, <2>4, <2>5
    <3>2. Has(y, call.l - dep(i), 1, val, call.l > dep(i))
      BY <2>3, <3>1 DEF Has
    <3> QED
      BY <3>1, <3>2, HasIsCorrect
  <2>11. Called("series") => Correct(res[1], Polynomial(f, n), dep(n))
    <3> SUFFICES ASSUME Called("series") PROVE Correct(res[1], Polynomial(f, n), dep(n))
      OBVIOUS
    <3>1. res[1] = t1(n)
      BY <2>6
    <3> QED
      BY <2>5, <2>8, <2>10, <3>1
  <2>12. Called("function") /\ c0 = 0 => Correct(res[1], Polynomial(f, n), dep(n))
    <3> SUFFICES ASSUME Called("function"), c0 = 0 PROVE Correct(res[1], Polynomial(f, n), dep(n))
      OBVIOUS
    <3>1. res[1] = t2(n)
      BY <2>9
    <3>2. Polynomial(f, n) - c0 = Polynomial(f, n)
      BY <2>7, <2>8
    <3>3. Has(res[1], lev - dep(n), 1, Polynomial(f, n), TRUE)
      BY <2>5, <2>8, <3>1, <3>2
    <3> QED
      BY <2>8, <2>10, <3>3
  <2>13. Called("functionExtended") => \A i \in 1 .. n : Correct(res[i], Polynomial(f, i) - c0, dep(i))
    BY <2>5, <2>6, <2>10
  <2> QED
    BY <2>3, <2>11, <2>12, <2>13 DEF c0, dep, DepthOf
<1> QED
  BY <1>1, AnsweredAlways, PTL

-------------------------------------------------------------------------------
(* Algorithms on ciphertexts: sums *)

\* s adds g[1], g[2], ... to first.
IsChain(s, first, g, n) == s[0] = first /\ \A i \in 1 .. n : s[i] = addAndEqual(s[i - 1], g[i])

LEMMA SumLoop ==
  ASSUME NEW size \in Nat \ {0}, NEW cs, \A i \in 0 .. size - 1 : cs[i] \in Ciphertext
  PROVE  \E s : IsChain(s, cs[0], cs, size - 1) /\ sum(cs, size) = s[size - 1]
<1> DEFINE n == size - 1
           Body(f) == [i \in 0 .. n |-> IF i = 0 THEN cs[0] ELSE addAndEqual(f[i - 1], cs[i])]
           F == CHOOSE f : f = Body(f)
           step == [i \in 1 .. n |-> [y \in Ciphertext |-> addAndEqual(y, cs[i])]]
<1>1. sum(cs, size) = F[n]
  BY Zenon DEF sum
<1>2. /\ n \in Nat /\ cs[0] \in Ciphertext
      /\ \A i \in 1 .. n : cs[i] \in Ciphertext
  OBVIOUS
<1> HIDE DEF n
<1>3. /\ \A i \in 1 .. n : i - 1 \in 0 .. n /\ i # 0 /\ i \in 0 .. n
      /\ \A i \in 0 .. n : i = 0 \/ i \in 1 .. n
      /\ \A i \in 1 .. n : \A y \in Ciphertext : step[i][y] = addAndEqual(y, cs[i])
  BY <1>2
<1>4. \A i \in 1 .. n : \A y \in Ciphertext : addAndEqual(y, cs[i]) \in Ciphertext
  BY <1>2, ClosedOperations
<1> HIDE DEF step
<1>5. PICK f : IsIteration(f, Ciphertext, n, cs[0], step)
  BY <1>2, <1>3, <1>4, Iteration
<1>6. f = Body(f)
  <2>1. /\ f = [i \in 0 .. n |-> f[i]] /\ f[0] = cs[0] /\ \A i \in 0 .. n : f[i] \in Ciphertext
        /\ \A i \in 1 .. n : f[i] = step[i][f[i - 1]]
    BY <1>5 DEF IsIteration
  <2>2. \A i \in 1 .. n : f[i] = addAndEqual(f[i - 1], cs[i])
    BY <1>3, <2>1
  <2> QED
    BY <1>3, <2>1, <2>2
<1>7. F = Body(F)
  <2> HIDE DEF Body
  <2> QED
    BY <1>6, Zenon
<1>8. F[0] = cs[0] /\ \A i \in 1 .. n : F[i] = addAndEqual(F[i - 1], cs[i])
  <2> HIDE DEF F
  <2>1. F = [i \in 0 .. n |-> IF i = 0 THEN cs[0] ELSE addAndEqual(F[i - 1], cs[i])]
    BY <1>7, Zenon
  <2> HIDE DEF Body
  <2> QED
    BY <1>2, <1>3, <2>1
<1> HIDE DEF F
<1> QED
  BY <1>1, <1>8 DEF IsChain, n

LEMMA InnerProdLoop ==
  ASSUME NEW size \in Nat \ {0}, NEW cs, \A i \in 0 .. size - 1 : cs[i] \in Ciphertext
  PROVE  \E s : /\ IsChain(s, multAndEqual(cs[size - 1], cs[size - 1]),
                           [i \in 1 .. size - 1 |-> multAndEqual(cs[i - 1], cs[i - 1])], size - 1)
                /\ innerProd(cs, cs, size) = reScaleByAndEqual(s[size - 1])
<1> DEFINE n == size - 1
           b == multAndEqual(cs[n], cs[n])
           Body(f) == [i \in 0 .. n |-> IF i = 0 THEN b ELSE addAndEqual(f[i - 1], multAndEqual(cs[i - 1], cs[i - 1]))]
           F == CHOOSE f : f = Body(f)
           g == [i \in 1 .. n |-> multAndEqual(cs[i - 1], cs[i - 1])]
           step == [i \in 1 .. n |-> [y \in Ciphertext |-> addAndEqual(y, g[i])]]
<1>1. innerProd(cs, cs, size) = reScaleByAndEqual(F[n])
  BY Zenon DEF innerProd
<1>2. /\ n \in Nat /\ cs[n] \in Ciphertext
      /\ \A i \in 1 .. n : cs[i - 1] \in Ciphertext /\ g[i] = multAndEqual(cs[i - 1], cs[i - 1])
  OBVIOUS
<1>3. b \in Ciphertext /\ \A i \in 1 .. n : g[i] \in Ciphertext
  <2> HIDE DEF n, g
  <2>1. \A x, y \in Ciphertext : multAndEqual(x, y) \in Ciphertext
    BY ClosedOperations
  <2>2. b \in Ciphertext
    BY <1>2, <2>1
  <2>3. \A i \in 1 .. n : g[i] \in Ciphertext
    BY <1>2, <2>1
  <2> QED
    BY <2>2, <2>3
<1> HIDE DEF n, b, g
<1>4. /\ \A i \in 1 .. n : i - 1 \in 0 .. n /\ i # 0 /\ i \in 0 .. n
      /\ \A i \in 0 .. n : i = 0 \/ i \in 1 .. n
      /\ \A i \in 1 .. n : \A y \in Ciphertext : step[i][y] = addAndEqual(y, g[i])
  BY <1>2
<1>5. \A i \in 1 .. n : \A y \in Ciphertext : addAndEqual(y, g[i]) \in Ciphertext
  BY <1>3, ClosedOperations
<1> HIDE DEF step
<1>6. PICK f : IsIteration(f, Ciphertext, n, b, step)
  BY <1>2, <1>3, <1>4, <1>5, Iteration
<1>7. f = Body(f)
  <2>1. /\ f = [i \in 0 .. n |-> f[i]] /\ f[0] = b /\ \A i \in 0 .. n : f[i] \in Ciphertext
        /\ \A i \in 1 .. n : f[i] = step[i][f[i - 1]]
    BY <1>6 DEF IsIteration
  <2>2. \A i \in 1 .. n : f[i] = addAndEqual(f[i - 1], g[i])
    BY <1>4, <2>1
  <2>3. \A i \in 1 .. n : f[i] = addAndEqual(f[i - 1], multAndEqual(cs[i - 1], cs[i - 1]))
    BY <1>2, <2>2
  <2> QED
    BY <1>4, <2>1, <2>3
<1>8. F = Body(F)
  <2> HIDE DEF Body
  <2> QED
    BY <1>7, Zenon
<1>9. F[0] = b /\ \A i \in 1 .. n : F[i] = addAndEqual(F[i - 1], g[i])
  <2> HIDE DEF F
  <2>1. F = [i \in 0 .. n |-> IF i = 0 THEN b ELSE addAndEqual(F[i - 1], multAndEqual(cs[i - 1], cs[i - 1]))]
    BY <1>8, Zenon
  <2> HIDE DEF Body
  <2> QED
    BY <1>2, <1>4, <2>1
<1> HIDE DEF F
<1>10. IsChain(F, b, g, n)
  BY <1>9 DEF IsChain
<1> QED
  BY <1>1, <1>10 DEF b, n, g

\* The level and the scale stay, the values are added.
LEMMA ChainHas ==
  ASSUME NEW n \in Nat, NEW lev \in Int, NEW exp \in Int, NEW s, NEW first, NEW g, NEW w, NEW a \in Int,
         IsChain(s, first, g, n), Has(first, lev, exp, a, TRUE),
         \A i \in 1 .. n : w[i - 1] \in Int /\ Has(g[i], lev, exp, w[i - 1], TRUE)
  PROVE  SumBelow(w, n) \in Int /\ Has(s[n], lev, exp, a + SumBelow(w, n), TRUE)
<1> DEFINE T == {i \in 0 .. n : SumBelow(w, i) \in Int /\ Has(s[i], lev, exp, a + SumBelow(w, i), TRUE)}
<1>1. 0 \in T
  <2> DEFINE t == SumBelow(w, 0)
  <2>1. t = 0 /\ 0 \in 0 .. n
    BY BelowSteps
  <2> HIDE DEF t
  <2>2. t \in Int /\ a + t = a
    BY <2>1
  <2>3. Has(s[0], lev, exp, a + t, TRUE)
    BY <2>2 DEF IsChain
  <2> QED
    BY <2>1, <2>2, <2>3 DEF t
<1>2. ASSUME NEW i \in 0 .. n - 1, i \in T PROVE i + 1 \in T
  <2> DEFINE k == i + 1
             x == s[i]
             y == g[k]
             t == SumBelow(w, i)
             u == w[i]
  <2>1. i \in Nat /\ k \in 1 .. n /\ k \in 0 .. n /\ k - 1 = i
    OBVIOUS
  <2>2. t \in Int /\ Has(x, lev, exp, a + t, TRUE)
    BY <1>2
  <2>3. u \in Int /\ Has(y, lev, exp, u, TRUE) /\ s[k] = addAndEqual(x, y)
    BY <2>1 DEF IsChain
  <2>4. SumBelow(w, k) = t + u
    BY <2>1, BelowSteps
  <2> HIDE DEF k, x, y, t, u
  <2>5. /\ x \in Ciphertext /\ x.l = lev /\ x.e = exp /\ x.v = a + t /\ x.err = "none"
        /\ y \in Ciphertext /\ y.l = lev /\ y.e = exp /\ y.v = u /\ y.err = "none"
    BY <2>2, <2>3 DEF Has
  <2>6. Has(addAndEqual(x, y), x.l, x.e, x.v + y.v, x.err = "none" /\ y.err = "none" /\ x.l = y.l /\ x.e = y.e)
    BY <2>5, AddHas
  <2>7. x.v + y.v = a + (t + u) /\ t + u \in Int
    BY <2>2, <2>3, <2>5
  <2>8. Has(s[k], lev, exp, a + (t + u), TRUE)
    BY <2>3, <2>5, <2>6, <2>7 DEF Has
  <2>9. k \in T
    BY <2>1, <2>4, <2>7, <2>8
  <2> QED
    BY <2>9 DEF k
<1> HIDE DEF T
<1>3. \A i \in 0 .. n - 1 : i \in T => i + 1 \in T
  BY <1>2
<1>4. \A i \in 0 .. n : i \in T
  BY <1>1, <1>3, InductionUpTo
<1>5. n \in 0 .. n
  OBVIOUS
<1> QED
  BY <1>4, <1>5 DEF T

LEMMA SumHas ==
  ASSUME NEW size \in Nat \ {0}, NEW lev \in Int, NEW cs, NEW w,
         \A i \in 0 .. size - 1 : w[i] \in Int /\ Has(cs[i], lev, 1, w[i], TRUE)
  PROVE  Has(sum(cs, size), lev, 1, SumBelow(w, size), TRUE)
<1> DEFINE n == size - 1
           w1 == [i \in 0 .. n - 1 |-> w[i + 1]]
           exp == 1
<1>1. /\ n \in Nat /\ n + 1 = size /\ exp \in Int
      /\ \A i \in 0 .. n : w[i] \in Int /\ Has(cs[i], lev, exp, w[i], TRUE)
      /\ 0 \in 0 .. n /\ \A i \in 1 .. n : i \in 0 .. n /\ i - 1 \in 0 .. n - 1 /\ (i - 1) + 1 = i
  <2>1. \A i \in 0 .. n : w[i] \in Int /\ Has(cs[i], lev, exp, w[i], TRUE)
    BY Zenon
  <2>2. n \in Nat /\ n + 1 = size /\ exp \in Int
    OBVIOUS
  <2> HIDE DEF n, exp
  <2>3. 0 \in 0 .. n /\ \A i \in 1 .. n : i \in 0 .. n /\ i - 1 \in 0 .. n - 1 /\ (i - 1) + 1 = i
    BY <2>2
  <2> QED
    BY <2>1, <2>2, <2>3
<1> HIDE DEF exp
<1>2. /\ \A i \in 0 .. n : cs[i] \in Ciphertext
      /\ \A i \in 0 .. n - 1 : w1[i] = w[i + 1]
  BY <1>1 DEF Has
<1>3. PICK s : IsChain(s, cs[0], cs, n) /\ sum(cs, size) = s[n]
  <2>1. \A i \in 0 .. size - 1 : cs[i] \in Ciphertext
    BY <1>2
  <2> QED
    BY <2>1, SumLoop
<1> HIDE DEF w1, n
<1>4. \A i \in 1 .. n : w1[i - 1] \in Int /\ Has(cs[i], lev, exp, w1[i - 1], TRUE)
  BY <1>1, <1>2
<1> DEFINE a == w[0]
           first == cs[0]
<1>5. a \in Int /\ Has(first, lev, exp, a, TRUE) /\ IsChain(s, first, cs, n)
  BY <1>1, <1>3
<1> HIDE DEF a, first
<1>6. Has(s[n], lev, exp, a + SumBelow(w1, n), TRUE)
  BY <1>1, <1>4, <1>5, ChainHas
<1>7. SumBelow(w, n + 1) = a + SumBelow(w1, n)
  <2>1. /\ \A i \in 0 .. n : w[i] \in Int
        /\ \A i \in 0 .. n - 1 : w1[i] = w[i + 1]
    BY <1>1, <1>2
  <2> QED
    BY <1>1, <2>1, BelowFirst DEF a
<1> QED
  BY <1>1, <1>3, <1>6, <1>7 DEF exp

LEMMA InnerProdHas ==
  ASSUME NEW size \in Nat \ {0}, NEW lev \in Nat \ {0}, NEW cs, NEW w, NEW sq,
         \A i \in 0 .. size - 1 : w[i] \in Int /\ Has(cs[i], lev, 1, w[i], TRUE) /\ sq[i] = w[i] * w[i]
  PROVE  Has(innerProd(cs, cs, size), lev - 1, 1, SumBelow(sq, size), lev > 1)
<1> DEFINE n == size - 1
           g == [i \in 1 .. n |-> multAndEqual(cs[i - 1], cs[i - 1])]
           first == multAndEqual(cs[n], cs[n])
           exp == 2
<1>1. /\ n \in Nat /\ n + 1 = size /\ n \in 0 .. n /\ exp \in Int /\ exp - 1 = 1
      /\ \A i \in 0 .. n : w[i] \in Int /\ Has(cs[i], lev, 1, w[i], TRUE) /\ sq[i] = w[i] * w[i]
      /\ \A i \in 1 .. n : i - 1 \in 0 .. n
  <2>1. \A i \in 0 .. n : w[i] \in Int /\ Has(cs[i], lev, 1, w[i], TRUE) /\ sq[i] = w[i] * w[i]
    BY Zenon
  <2>2. n \in Nat /\ n + 1 = size /\ exp \in Int /\ exp - 1 = 1
    OBVIOUS
  <2> HIDE DEF n, exp
  <2>3. n \in 0 .. n /\ \A i \in 1 .. n : i - 1 \in 0 .. n
    BY <2>2
  <2> QED
    BY <2>1, <2>2, <2>3
<1>2. \A i \in 1 .. n : g[i] = multAndEqual(cs[i - 1], cs[i - 1])
  OBVIOUS
<1>3. \A i \in 0 .. n : cs[i] \in Ciphertext
  BY <1>1 DEF Has
<1>4. PICK s : IsChain(s, first, g, n) /\ innerProd(cs, cs, size) = reScaleByAndEqual(s[n])
  <2>1. \A i \in 0 .. size - 1 : cs[i] \in Ciphertext
    BY <1>3
  <2> QED
    BY <2>1, InnerProdLoop
<1> HIDE DEF n, g
<1>5. \A i \in 0 .. n : sq[i] \in Int /\ Has(multAndEqual(cs[i], cs[i]), lev, exp, sq[i], TRUE)
  <2> SUFFICES ASSUME NEW i \in 0 .. n
               PROVE  sq[i] \in Int /\ Has(multAndEqual(cs[i], cs[i]), lev, exp, sq[i], TRUE)
    OBVIOUS
  <2> DEFINE x == cs[i]
             a == w[i]
  <2>1. a \in Int /\ Has(x, lev, 1, a, TRUE) /\ sq[i] = a * a
    BY <1>1
  <2> HIDE DEF x, a
  <2>2. x \in Ciphertext /\ x.l = lev /\ x.e = 1 /\ x.v = a /\ x.err = "none"
    BY <2>1 DEF Has
  <2>3. Has(multAndEqual(x, x), x.l, x.e + x.e, x.v * x.v,
            x.err = "none" /\ x.err = "none" /\ x.l = x.l /\ x.l # 0)
    BY <2>2, MultHas
  <2>4. x.e + x.e = 2 /\ x.l # 0
    BY <2>2
  <2>5. x.v * x.v = a * a /\ a * a \in Int
    BY <2>1, <2>2
  <2> QED
    BY <2>1, <2>2, <2>3, <2>4, <2>5 DEF Has, x, exp
<1>6. /\ sq[n] \in Int /\ Has(first, lev, exp, sq[n], TRUE)
      /\ \A i \in 1 .. n : sq[i - 1] \in Int /\ Has(g[i], lev, exp, sq[i - 1], TRUE)
  <2>1. sq[n] \in Int /\ Has(first, lev, exp, sq[n], TRUE)
    BY <1>1, <1>5
  <2>2. \A i \in 1 .. n : sq[i - 1] \in Int /\ Has(multAndEqual(cs[i - 1], cs[i - 1]), lev, exp, sq[i - 1], TRUE)
    <3> HIDE DEF exp
    <3> QED
      BY <1>1, <1>5
  <2>3. \A i \in 1 .. n : sq[i - 1] \in Int /\ Has(g[i], lev, exp, sq[i - 1], TRUE)
    BY <1>2, <2>2
  <2> QED
    BY <2>1, <2>3
<1> HIDE DEF first, exp
<1> DEFINE a == sq[n]
           z == s[n]
           t == SumBelow(sq, n)
<1>7. t \in Int /\ Has(z, lev, exp, a + t, TRUE)
  <2>1. a \in Int /\ Has(first, lev, exp, a, TRUE)
    BY <1>6
  <2>2. lev \in Int
    OBVIOUS
  <2> HIDE DEF a
  <2> QED
    BY <1>1, <1>4, <1>6, <2>1, <2>2, ChainHas
<1>8. SumBelow(sq, size) = t + a /\ a \in Int
  <2>1. SumBelow(sq, n + 1) = t + a
    BY <1>1, BelowSteps
  <2> QED
    BY <1>1, <1>6, <2>1
<1> HIDE DEF a, z, t
<1>9. z \in Ciphertext /\ z.l = lev /\ z.e = exp /\ z.v = a + t /\ z.err = "none"
  BY <1>7 DEF Has
<1>10. Has(reScaleByAndEqual(z), z.l - 1, z.e - 1, z.v, z.err = "none" /\ z.l > 1)
  BY <1>9, ReScaleHas
<1>11. a + t = t + a
  BY <1>7, <1>8
<1> QED
  BY <1>1, <1>4, <1>8, <1>9, <1>10, <1>11 DEF Has, z

\* Doubling k times.
LEMMA DistanceLoop ==
  ASSUME NEW k \in Nat, NEW x \in Ciphertext, NEW y \in Ciphertext
  PROVE  \E s : /\ s[0] = reScaleByAndEqual(squareAndEqual(sub(x, y)))
                /\ \A i \in 1 .. k : s[i] = addAndEqual(s[i - 1], s[i - 1])
                /\ distance(x, y, k) = s[k]
<1> DEFINE b == reScaleByAndEqual(squareAndEqual(sub(x, y)))
           Body(f) == [i \in 0 .. k |-> IF i = 0 THEN b ELSE addAndEqual(f[i - 1], f[i - 1])]
           F == CHOOSE f : f = Body(f)
           step == [i \in 1 .. k |-> [z \in Ciphertext |-> addAndEqual(z, z)]]
<1>1. distance(x, y, k) = F[k]
  BY Zenon DEF distance
<1>2. b \in Ciphertext
  <2>1. [y EXCEPT !.v = -@] = negate(y) /\ negate(y) \in Ciphertext
    BY ClosedOperations DEF negate
  <2>2. sub(x, y) \in Ciphertext
    BY <2>1, ClosedOperations DEF sub
  <2> QED
    BY <2>2, ClosedOperations
<1> HIDE DEF b
<1>3. /\ \A i \in 1 .. k : i - 1 \in 0 .. k /\ i # 0 /\ i \in 0 .. k
      /\ \A i \in 0 .. k : i = 0 \/ i \in 1 .. k
      /\ \A i \in 1 .. k : \A z \in Ciphertext : step[i][z] = addAndEqual(z, z)
  OBVIOUS
<1>4. \A z \in Ciphertext : addAndEqual(z, z) \in Ciphertext
  BY ClosedOperations
<1> HIDE DEF step
<1>5. PICK f : IsIteration(f, Ciphertext, k, b, step)
  BY <1>2, <1>3, <1>4, Iteration
<1>6. f = Body(f)
  <2>1. /\ f = [i \in 0 .. k |-> f[i]] /\ f[0] = b /\ \A i \in 0 .. k : f[i] \in Ciphertext
        /\ \A i \in 1 .. k : f[i] = step[i][f[i - 1]]
    BY <1>5 DEF IsIteration
  <2>2. \A i \in 1 .. k : f[i] = addAndEqual(f[i - 1], f[i - 1])
    BY <1>3, <2>1
  <2> QED
    BY <1>3, <2>1, <2>2
<1>7. F = Body(F)
  <2> HIDE DEF Body
  <2> QED
    BY <1>6, Zenon
<1>8. F[0] = b /\ \A i \in 1 .. k : F[i] = addAndEqual(F[i - 1], F[i - 1])
  <2> HIDE DEF F
  <2>1. F = [i \in 0 .. k |-> IF i = 0 THEN b ELSE addAndEqual(F[i - 1], F[i - 1])]
    BY <1>7, Zenon
  <2> HIDE DEF Body
  <2>2. 0 \in 0 .. k
    OBVIOUS
  <2> QED
    BY <1>3, <2>1, <2>2
<1> HIDE DEF F
<1> QED
  BY <1>1, <1>8 DEF b

LEMMA DistanceHas ==
  ASSUME NEW k \in Nat, NEW lev \in Nat \ {0}, NEW x, NEW y, NEW a \in Int, NEW b \in Int,
         Has(x, lev, 1, a, TRUE), Has(y, lev, 1, b, TRUE)
  PROVE  Has(distance(x, y, k), lev - 1, 1, Pow2[k] * (a - b) * (a - b), lev > 1)
<1> DEFINE dif == a - b
           q2 == dif * dif
<1>1. /\ x \in Ciphertext /\ x.l = lev /\ x.e = 1 /\ x.v = a /\ x.err = "none"
      /\ y \in Ciphertext /\ y.l = lev /\ y.e = 1 /\ y.v = b /\ y.err = "none"
  BY DEF Has
<1>2. PICK s : /\ s[0] = reScaleByAndEqual(squareAndEqual(sub(x, y)))
               /\ \A i \in 1 .. k : s[i] = addAndEqual(s[i - 1], s[i - 1])
               /\ distance(x, y, k) = s[k]
  BY <1>1, DistanceLoop
<1>3. dif \in Int /\ a + (-b) = dif
  OBVIOUS
<1>4. Has(sub(x, y), lev, 1, dif, TRUE)
  <2> DEFINE z == negate(y)
  <2>1. Has(z, y.l, y.e, -y.v, y.err = "none")
    <3>1. \A t \in Ciphertext : \A n \in Int : Has(negate(t), t.l, t.e, -t.v, t.err = "none")
      BY ConstantsHave
    <3>2. 0 \in Int
      OBVIOUS
    <3> QED
      BY <1>1, <3>1, <3>2
  <2>2. sub(x, y) = addAndEqual(x, z)
    BY DEF sub, negate
  <2> HIDE DEF z, dif
  <2>3. z \in Ciphertext /\ z.l = lev /\ z.e = 1 /\ z.v = -b /\ z.err = "none"
    BY <1>1, <2>1 DEF Has
  <2>4. Has(addAndEqual(x, z), x.l, x.e, x.v + z.v, x.err = "none" /\ z.err = "none" /\ x.l = z.l /\ x.e = z.e)
    BY <1>1, <2>3, AddHas
  <2> QED
    BY <1>1, <1>3, <2>2, <2>3, <2>4 DEF Has
<1> HIDE DEF dif
<1>5. Has(s[0], lev - 1, 1, q2, lev > 1)
  <2> DEFINE z == sub(x, y)
             u == squareAndEqual(z)
  <2>1. z \in Ciphertext /\ z.l = lev /\ z.e = 1 /\ z.v = dif /\ z.err = "none"
    BY <1>4 DEF Has
  <2>2. s[0] = reScaleByAndEqual(u)
    BY <1>2
  <2> HIDE DEF z
  <2>3. Has(u, z.l, 2 * z.e, z.v * z.v, z.err = "none" /\ z.l # 0)
    BY <2>1, SquareHas
  <2> HIDE DEF u
  <2>4. u \in Ciphertext /\ u.l = lev /\ u.e = 2 /\ u.v = q2 /\ u.err = "none"
    BY <2>1, <2>3 DEF Has
  <2> HIDE DEF q2
  <2>5. Has(reScaleByAndEqual(u), u.l - 1, u.e - 1, u.v, u.err = "none" /\ u.l > 1)
    BY <2>4, ReScaleHas
  <2> QED
    BY <2>2, <2>4, <2>5 DEF Has
<1>6. q2 \in Int
  BY <1>3
<1> HIDE DEF q2
<1> DEFINE T == {i \in 0 .. k : Has(s[i], lev - 1, 1, Pow2[i] * q2, lev > 1)}
<1>7. 0 \in T
  <2>1. Pow2[0] = 1 /\ 1 * q2 = q2 /\ 0 \in 0 .. k
    BY <1>6, Pow2Facts
  <2>2. Pow2[0] * q2 = q2
    BY <2>1
  <2> QED
    BY <1>5, <2>1, <2>2
<1>8. ASSUME NEW i \in 0 .. k - 1, i \in T PROVE i + 1 \in T
  <2> DEFINE j == i + 1
             z == s[i]
             t == Pow2[i] * q2
  <2>1. i \in Nat /\ j \in 1 .. k /\ j \in 0 .. k /\ j - 1 = i
    OBVIOUS
  <2>2. Has(z, lev - 1, 1, t, lev > 1) /\ s[j] = addAndEqual(z, z)
    BY <1>2, <1>8, <2>1
  <2>3. t \in Int /\ Pow2[j] * q2 = t + t
    <3> DEFINE m == Pow2[i]
    <3>1. m \in Int /\ Pow2[j] = 2 * m
      BY <2>1, Pow2Facts
    <3> HIDE DEF m, j
    <3>2. m * q2 \in Int /\ (2 * m) * q2 = m * q2 + m * q2
      BY <1>6, <3>1
    <3> QED
      BY <3>1, <3>2 DEF m
  <2> HIDE DEF j, z, t
  <2>4. z \in Ciphertext /\ z.l = lev - 1 /\ z.e = 1 /\ z.v = t /\ (z.err = "none" <=> lev > 1)
    BY <2>2 DEF Has
  <2>5. Has(addAndEqual(z, z), z.l, z.e, z.v + z.v, z.err = "none" /\ z.err = "none" /\ z.l = z.l /\ z.e = z.e)
    BY <2>4, AddHas
  <2>6. Has(s[j], lev - 1, 1, t + t, lev > 1)
    BY <2>2, <2>4, <2>5 DEF Has
  <2>7. j \in T
    BY <2>1, <2>3, <2>6
  <2> QED
    BY <2>7 DEF j
<1> HIDE DEF T
<1>9. \A i \in 0 .. k - 1 : i \in T => i + 1 \in T
  BY <1>8
<1>10. \A i \in 0 .. k : i \in T
  BY <1>7, <1>9, InductionUpTo
<1>11. Has(s[k], lev - 1, 1, Pow2[k] * q2, lev > 1)
  <2>1. k \in 0 .. k
    OBVIOUS
  <2> QED
    BY <1>10, <2>1 DEF T
<1>12. Pow2[k] * (a - b) * (a - b) = Pow2[k] * q2
  <2> DEFINE m == Pow2[k]
  <2>1. m \in Int
    BY Pow2Facts
  <2> HIDE DEF m
  <2>2. (m * dif) * dif = m * (dif * dif)
    BY <1>3, <2>1
  <2> QED
    BY <2>2 DEF m, dif, q2
<1> QED
  BY <1>2, <1>11, <1>12

-------------------------------------------------------------------------------
(* Algorithms on ciphertexts: products *)

\* The j-th block of size h.
Block(w, j, h) == [m \in 0 .. h - 1 |-> w[j * h + m]]

LEMMA BlockSplit ==
  ASSUME NEW h \in Nat \ {0}, NEW j \in Nat, NEW w, \A m \in 0 .. 2 * h - 1 : w[j * (2 * h) + m] \in Int
  PROVE  /\ ProductBelow(Block(w, j, 2 * h), 2 * h)
              = ProductBelow(Block(w, 2 * j, h), h) * ProductBelow(Block(w, 2 * j + 1, h), h)
         /\ SumBelow(Block(w, j, 2 * h), 2 * h)
              = SumBelow(Block(w, 2 * j, h), h) + SumBelow(Block(w, 2 * j + 1, h), h)
<1> DEFINE f == Block(w, j, 2 * h)
           g1 == Block(w, 2 * j, h)
           g2 == Block(w, 2 * j + 1, h)
<1>1. /\ \A m \in 0 .. 2 * h - 1 : f[m] = w[j * (2 * h) + m] /\ f[m] \in Int
      /\ \A m \in 0 .. h - 1 : g1[m] = w[(2 * j) * h + m] /\ g2[m] = w[(2 * j + 1) * h + m]
  BY DEF Block
<1> HIDE DEF f, g1, g2
<1>2. \A m \in 0 .. h - 1 : /\ m \in Nat /\ m \in 0 .. 2 * h - 1 /\ h + m \in 0 .. 2 * h - 1
  OBVIOUS
<1>3. \A m \in 0 .. h - 1 : (2 * j) * h + m = j * (2 * h) + m /\ (2 * j + 1) * h + m = j * (2 * h) + (h + m)
  <2> DEFINE u == j * h
  <2>1. u \in Int /\ (2 * j) * h = 2 * u /\ (2 * j + 1) * h = 2 * u + h /\ j * (2 * h) = 2 * u
    OBVIOUS
  <2> HIDE DEF u
  <2>2. \A m \in 0 .. h - 1 : 2 * u + m = 2 * u + m /\ (2 * u + h) + m = 2 * u + (h + m)
    BY <2>1
  <2> QED
    BY <2>1, <2>2
<1>4. \A m \in 0 .. h - 1 : g1[m] = f[m] /\ g2[m] = f[h + m] /\ f[m] \in Int /\ g1[m] \in Int /\ g2[m] \in Int
  BY <1>1, <1>2, <1>3
<1>5. h + h = 2 * h /\ (h + h) - 1 = 2 * h - 1 /\ h \in Nat
  OBVIOUS
<1>6. \A i \in 0 .. (h + h) - 1 : f[i] \in Int
  BY <1>1, <1>5
<1>7. ProductBelow(f, h + h) = ProductBelow(f, h) * ProductBelow(g2, h)
  BY <1>4, <1>5, <1>6, ProductBelowAppend
<1>8. SumBelow(f, h + h) = SumBelow(f, h) + SumBelow(g2, h)
  BY <1>4, <1>5, <1>6, BelowAppend
<1>9. ProductBelow(g1, h) = ProductBelow(f, h)
  BY <1>4, <1>5, ProductBelowFacts
<1>10. SumBelow(g1, h) = SumBelow(f, h)
  BY <1>4, <1>5, BelowSame
<1> QED
  BY <1>5, <1>7, <1>8, <1>9, <1>10 DEF f, g1, g2

\* The products of the pairs.
PairsOf(x, m) == [j \in 0 .. m - 1 |-> multAndRescale(x[2 * j], x[2 * j + 1])]

LEMMA PairsFacts ==
  ASSUME NEW m \in Nat, NEW x \in [0 .. 2 * m - 1 -> Ciphertext]
  PROVE  /\ PairsOf(x, m) \in [0 .. m - 1 -> Ciphertext]
         /\ \A j \in 0 .. m - 1 : /\ 2 * j \in 0 .. 2 * m - 1 /\ 2 * j + 1 \in 0 .. 2 * m - 1
                                  /\ PairsOf(x, m)[j] = multAndRescale(x[2 * j], x[2 * j + 1])
<1>1. \A j \in 0 .. m - 1 : 2 * j \in 0 .. 2 * m - 1 /\ 2 * j + 1 \in 0 .. 2 * m - 1
  OBVIOUS
<1>2. \A j \in 0 .. m - 1 : x[2 * j] \in Ciphertext /\ x[2 * j + 1] \in Ciphertext
  BY <1>1
<1>3. \A j \in 0 .. m - 1 : multAndRescale(x[2 * j], x[2 * j + 1]) \in Ciphertext
  BY <1>2, ClosedOperations
<1> QED
  BY <1>1, <1>3 DEF PairsOf

IsPairing(t, cs, k) == t[0] = cs /\ \A i \in 1 .. k : t[i] = PairsOf(t[i - 1], Pow2[k - i])

LEMMA PairsLoop ==
  ASSUME NEW k \in Nat, NEW cs \in [0 .. Pow2[k] - 1 -> Ciphertext]
  PROVE  \E t : IsPairing(t, cs, k) /\ prodOfPo2(cs, k) = t[k][0]
<1> DEFINE S == [i \in 0 .. k |-> [0 .. Pow2[k - i] - 1 -> Ciphertext]]
           Body(f) == [i \in 0 .. k |-> IF i = 0 THEN cs ELSE PairsOf(f[i - 1], Pow2[k - i])]
           F == CHOOSE f : f = Body(f)
           prev == [i \in 1 .. k |-> i - 1]
           step == [i \in 1 .. k |-> [x \in S[i - 1] |-> PairsOf(x, Pow2[k - i])]]
<1>1. prodOfPo2(cs, k) = F[k][0]
  BY Zenon DEF prodOfPo2, PairsOf
<1>2. /\ \A i \in 0 .. k : S[i] = [0 .. Pow2[k - i] - 1 -> Ciphertext]
      /\ \A i \in 1 .. k : prev[i] = i - 1
  OBVIOUS
<1>3. \A i \in 1 .. k : \A x \in S[i - 1] : step[i][x] = PairsOf(x, Pow2[k - i])
  <2> HIDE DEF S
  <2> QED
    OBVIOUS
<1> HIDE DEF S, step, prev
<1>4. /\ cs \in S[0]
      /\ \A i \in 1 .. k : i - 1 \in 0 .. k /\ i # 0 /\ i \in 0 .. k /\ prev[i] \in 0 .. i - 1
      /\ \A i \in 0 .. k : i = 0 \/ i \in 1 .. k
      /\ 0 \in 0 .. k
  <2>1. k - 0 = k /\ 0 \in 0 .. k
    OBVIOUS
  <2> QED
    BY <1>2, <2>1
<1>5. \A i \in 1 .. k : \A x \in S[i - 1] : PairsOf(x, Pow2[k - i]) \in S[i]
  <2> SUFFICES ASSUME NEW i \in 1 .. k, NEW x \in S[i - 1] PROVE PairsOf(x, Pow2[k - i]) \in S[i]
    OBVIOUS
  <2> DEFINE m == Pow2[k - i]
  <2>1. k - i \in Nat /\ k - (i - 1) = (k - i) + 1
    OBVIOUS
  <2>2. m \in Nat /\ Pow2[k - (i - 1)] = 2 * m
    BY <2>1, Pow2Facts
  <2>3. x \in [0 .. 2 * m - 1 -> Ciphertext] /\ S[i] = [0 .. m - 1 -> Ciphertext]
    BY <1>2, <1>4, <2>2
  <2> HIDE DEF m
  <2>4. PairsOf(x, m) \in S[i]
    BY <2>2, <2>3, PairsFacts
  <2> QED
    BY <2>4 DEF m
<1>6. PICK f : IsRecursive(f, S, k, cs, prev, step)
  <2>1. \A i \in 1 .. k : prev[i] \in 0 .. i - 1 /\ \A x \in S[prev[i]] : step[i][x] \in S[i]
    BY <1>2, <1>3, <1>4, <1>5
  <2> QED
    BY <1>4, <2>1, FromEarlier
<1>7. f = Body(f)
  <2>1. /\ f = [i \in 0 .. k |-> f[i]] /\ f[0] = cs /\ \A i \in 0 .. k : f[i] \in S[i]
        /\ \A i \in 1 .. k : f[i] = step[i][f[prev[i]]]
    BY <1>6 DEF IsRecursive
  <2>2. \A i \in 1 .. k : f[i] = step[i][f[i - 1]] /\ f[i - 1] \in S[i - 1]
    BY <1>2, <1>4, <2>1
  <2>3. \A i \in 1 .. k : f[i] = PairsOf(f[i - 1], Pow2[k - i])
    BY <1>3, <2>2
  <2> QED
    BY <1>4, <2>1, <2>3
<1>8. F = Body(F)
  <2> HIDE DEF Body
  <2> QED
    BY <1>7, Zenon
<1>9. IsPairing(F, cs, k)
  <2> HIDE DEF F
  <2>1. F = [i \in 0 .. k |-> IF i = 0 THEN cs ELSE PairsOf(F[i - 1], Pow2[k - i])]
    BY <1>8, Zenon
  <2> HIDE DEF Body
  <2>2. \A i \in 0 .. k : F[i] = IF i = 0 THEN cs ELSE PairsOf(F[i - 1], Pow2[k - i])
    BY <2>1, Zenon
  <2>3. F[0] = cs
    BY <1>4, <2>2, Zenon
  <2>4. \A i \in 1 .. k : F[i] = PairsOf(F[i - 1], Pow2[k - i])
    BY <1>4, <2>2, Zenon
  <2> QED
    BY <2>3, <2>4 DEF IsPairing
<1> HIDE DEF F
<1> QED
  BY <1>1, <1>9

\* The product of a power of two many factors, a level per doubling.
LEMMA PairsHave ==
  ASSUME NEW k \in Nat, NEW lev \in Nat \ {0}, NEW w, NEW cs \in [0 .. Pow2[k] - 1 -> Ciphertext],
         \A j \in 0 .. Pow2[k] - 1 : w[j] \in Int /\ Has(cs[j], lev, 1, w[j], TRUE)
  PROVE  Has(prodOfPo2(cs, k), lev - k, 1, ProductBelow(w, Pow2[k]), lev > k)
<1> DEFINE P(i, j) == ProductBelow(Block(w, j, Pow2[i]), Pow2[i])
<1>2. PICK t : IsPairing(t, cs, k) /\ prodOfPo2(cs, k) = t[k][0]
  BY PairsLoop
<1> DEFINE T == {i \in 0 .. k : /\ t[i] \in [0 .. Pow2[k - i] - 1 -> Ciphertext]
                               /\ \A j \in 0 .. Pow2[k - i] - 1 :
                                    P(i, j) \in Int /\ Has(t[i][j], lev - i, 1, P(i, j), lev > i)}
<1>3. 0 \in T
  <2>1. k - 0 = k /\ Pow2[0] = 1 /\ 0 \in 0 .. k /\ lev - 0 = lev /\ lev > 0 /\ t[0] = cs
    BY <1>2, Pow2Facts DEF IsPairing
  <2>2. ASSUME NEW j \in 0 .. Pow2[k] - 1 PROVE P(0, j) = w[j]
    <3> DEFINE b == Block(w, j, 1)
    <3>1. Pow2[k] \in Nat
      BY Pow2Facts
    <3>2. j \in Int /\ j * 1 + 0 = j
      BY <3>1
    <3>3. b[0] = w[j]
      BY <3>2 DEF Block
    <3> HIDE DEF b
    <3>4. ProductBelow(b, 0 + 1) = 1 * b[0]
      BY ProductBelowSteps
    <3>5. 0 + 1 = 1 /\ 1 * b[0] = w[j]
      <4> DEFINE a == b[0]
      <4>1. a \in Int /\ a = w[j]
        BY <3>3
      <4> HIDE DEF a
      <4>2. 0 + 1 = 1 /\ 1 * a = a
        BY <4>1
      <4> QED
        BY <4>1, <4>2 DEF a
    <3>6. ProductBelow(b, 1) = w[j]
      BY <3>4, <3>5
    <3> QED
      BY <2>1, <3>6 DEF b
  <2> HIDE DEF P
  <2>3. \A j \in 0 .. Pow2[k] - 1 : P(0, j) \in Int /\ Has(t[0][j], lev - 0, 1, P(0, j), lev > 0)
    BY <2>1, <2>2
  <2> QED
    BY <2>1, <2>3
<1>4. ASSUME NEW i \in 0 .. k - 1, i \in T PROVE i + 1 \in T
  <2> DEFINE n == i + 1
             m == Pow2[k - n]
             h == Pow2[i]
             x == t[i]
  <2>1. /\ i \in Nat /\ n \in 1 .. k /\ n \in 0 .. k /\ n - 1 = i /\ k - n \in Nat /\ k - i = (k - n) + 1
        /\ i \in 0 .. k /\ n + (k - n) = k /\ lev - n = (lev - i) - 1
    OBVIOUS
  <2>2. m \in Nat \ {0} /\ h \in Nat \ {0} /\ Pow2[k - i] = 2 * m /\ Pow2[n] = 2 * h /\ Pow2[k] = Pow2[n] * m
    <3> DEFINE u == k - n
    <3>1. u \in Nat /\ n \in Nat /\ k - i = u + 1 /\ k = n + u /\ n = i + 1 /\ i \in Nat
      BY <2>1
    <3> HIDE DEF u, n
    <3>2. /\ Pow2[u] \in Nat \ {0} /\ Pow2[i] \in Nat \ {0} /\ Pow2[u + 1] = 2 * Pow2[u]
          /\ Pow2[i + 1] = 2 * Pow2[i]
      BY <3>1, Pow2Facts
    <3>3. Pow2[n + u] = Pow2[n] * Pow2[u]
      BY <3>1, Pow2Sum
    <3> QED
      BY <3>1, <3>2, <3>3 DEF u
  <2>3. /\ x \in [0 .. 2 * m - 1 -> Ciphertext]
        /\ \A j \in 0 .. 2 * m - 1 : P(i, j) \in Int /\ Has(x[j], lev - i, 1, P(i, j), lev > i)
    BY <1>4, <2>2
  <2>4. t[n] = PairsOf(x, m)
    BY <1>2, <2>1 DEF IsPairing
  <2> HIDE DEF n, m, h, x
  <2>5. /\ t[n] \in [0 .. m - 1 -> Ciphertext]
        /\ \A j \in 0 .. m - 1 : /\ 2 * j \in 0 .. 2 * m - 1 /\ 2 * j + 1 \in 0 .. 2 * m - 1
                                /\ t[n][j] = multAndRescale(x[2 * j], x[2 * j + 1])
    <3> HIDE DEF P
    <3>1. m \in Nat /\ x \in [0 .. 2 * m - 1 -> Ciphertext]
      BY <2>2, <2>3
    <3>2. /\ PairsOf(x, m) \in [0 .. m - 1 -> Ciphertext]
          /\ \A j \in 0 .. m - 1 : /\ 2 * j \in 0 .. 2 * m - 1 /\ 2 * j + 1 \in 0 .. 2 * m - 1
                                  /\ PairsOf(x, m)[j] = multAndRescale(x[2 * j], x[2 * j + 1])
      BY <3>1, PairsFacts, Zenon
    <3> QED
      BY <2>4, <3>2, Zenon
  <2>6. ASSUME NEW j \in 0 .. m - 1 PROVE P(n, j) \in Int /\ Has(t[n][j], lev - n, 1, P(n, j), lev > n)
    <3> DEFINE y == x[2 * j]
               z == x[2 * j + 1]
               a == P(i, 2 * j)
               b == P(i, 2 * j + 1)
    <3>1. /\ 2 * j \in 0 .. 2 * m - 1 /\ 2 * j + 1 \in 0 .. 2 * m - 1
          /\ t[n][j] = multAndRescale(y, z)
      BY <2>5
    <3>2. a \in Int /\ b \in Int /\ Has(y, lev - i, 1, a, lev > i) /\ Has(z, lev - i, 1, b, lev > i)
      <4> HIDE DEF P
      <4> QED
        BY <2>3, <3>1
    <3>3. P(n, j) = a * b
      <4>1. \A l \in 0 .. 2 * h - 1 : j * (2 * h) + l \in 0 .. Pow2[k] - 1
        <5>1. j \in Nat /\ j + 1 <= m /\ 2 * h \in Nat
          BY <2>2
        <5> DEFINE g == 2 * h
        <5>2. g \in Nat /\ Pow2[k] = g * m
          BY <2>2
        <5> HIDE DEF g
        <5>3. (j + 1) * g <= m * g /\ (j + 1) * g = j * g + g /\ m * g = g * m /\ j * g \in Nat
          BY <2>2, <5>1, <5>2
        <5> DEFINE u == j * g
                   v == m * g
        <5>4. u \in Nat /\ v \in Nat /\ u + g <= v /\ Pow2[k] = v
          BY <2>2, <5>2, <5>3
        <5> HIDE DEF u, v
        <5>5. \A l \in 0 .. g - 1 : u + l \in 0 .. v - 1
          BY <5>2, <5>4
        <5>6. \A l \in 0 .. g - 1 : j * g + l \in 0 .. Pow2[k] - 1
          BY <5>4, <5>5 DEF u
        <5> QED
          BY <5>6 DEF g
      <4>2. \A l \in 0 .. 2 * h - 1 : w[j * (2 * h) + l] \in Int
        BY <4>1
      <4>3. j \in Nat
        BY <2>2
      <4>4. ProductBelow(Block(w, j, 2 * h), 2 * h)
              = ProductBelow(Block(w, 2 * j, h), h) * ProductBelow(Block(w, 2 * j + 1, h), h)
        BY <2>2, <4>2, <4>3, BlockSplit
      <4> QED
        BY <2>2, <4>4 DEF h
    <3> HIDE DEF y, z, a, b, P
    <3>4. /\ y \in Ciphertext /\ y.l = lev - i /\ y.e = 1 /\ y.v = a /\ (y.err = "none" <=> lev > i)
          /\ z \in Ciphertext /\ z.l = lev - i /\ z.e = 1 /\ z.v = b /\ (z.err = "none" <=> lev > i)
      BY <3>2 DEF Has
    <3>5. Has(multAndRescale(y, z), y.l - 1, (y.e + z.e) - 1, y.v * z.v,
              y.err = "none" /\ z.err = "none" /\ y.l = z.l /\ y.l > 1)
      BY <3>4, MultAndRescaleHas
    <3>6. /\ y.l - 1 = lev - n /\ (y.e + z.e) - 1 = 1
          /\ (y.err = "none" /\ z.err = "none" /\ y.l = z.l /\ y.l > 1 <=> lev > n)
      BY <2>1, <3>4
    <3>7. y.v * z.v = a * b /\ a * b \in Int
      BY <3>2, <3>4
    <3> QED
      BY <3>1, <3>3, <3>5, <3>6, <3>7 DEF Has
  <2> HIDE DEF P
  <2>7. n \in T
    BY <2>1, <2>5, <2>6 DEF m
  <2> QED
    BY <2>7 DEF n
<1> HIDE DEF T
<1>5. \A i \in 0 .. k - 1 : i \in T => i + 1 \in T
  BY <1>4
<1>6. \A i \in 0 .. k : i \in T
  BY <1>3, <1>5, InductionUpTo
<1>7. Has(t[k][0], lev - k, 1, P(k, 0), lev > k)
  <2>1. k \in 0 .. k /\ k - k = 0 /\ Pow2[0] = 1 /\ 0 \in 0 .. 1 - 1
    BY Pow2Facts
  <2> HIDE DEF P
  <2> QED
    BY <1>6, <2>1 DEF T
<1>8. P(k, 0) = ProductBelow(w, Pow2[k])
  <2> DEFINE h == Pow2[k]
             b == Block(w, 0, h)
  <2>1. h \in Nat
    BY Pow2Facts
  <2> HIDE DEF h
  <2>2. \A i \in 0 .. h - 1 : 0 * h + i = i
    BY <2>1
  <2>3. \A i \in 0 .. h - 1 : w[i] \in Int /\ b[i] = w[i]
    BY <2>2 DEF Block, h
  <2> HIDE DEF b
  <2>4. ProductBelow(b, h) = ProductBelow(w, h)
    BY <2>1, <2>3, ProductBelowFacts
  <2> QED
    BY <2>4 DEF b, h
<1> QED
  BY <1>2, <1>7, <1>8

LEMMA LowBits ==
  ASSUME NEW h \in Nat \ {0}, NEW n \in Nat
  PROVE  /\ n % h \in 0 .. h - 1 /\ n % (2 * h) \in Nat /\ n % (2 * h) <= n
         /\ n % (2 * h) = n % h \/ n % (2 * h) = h + (n % h)
<1> DEFINE c2 == n % (2 * h)
           a == c2 \div h
           r == c2 % h
<1>1. h * 2 = 2 * h /\ 2 * h \in Nat \ {0} /\ 2 \in Nat \ {0}
  OBVIOUS
<1>2. c2 \in 0 .. 2 * h - 1 /\ c2 \in Nat /\ c2 <= n
  <2> DEFINE g == 2 * h
             e == n \div g
             u == e * g
  <2>1. g \in Nat \ {0}
    BY <1>1
  <2> HIDE DEF g
  <2>2. e \in Nat /\ n % g \in 0 .. g - 1 /\ n = u + (n % g)
    BY <2>1, DivMod
  <2>3. u \in Nat
    BY <2>1, <2>2
  <2> HIDE DEF e, u
  <2>4. n % g <= n /\ n % g \in Nat
    BY <2>1, <2>2, <2>3
  <2> QED
    BY <2>2, <2>4 DEF g
<1>3. r = n % h
  <2>1. (n % (h * 2)) % h = n % h
    BY <1>1, ModMod
  <2> QED
    BY <1>1, <2>1
<1>4. a \in Nat /\ r \in 0 .. h - 1 /\ c2 = a * h + r
  <2> HIDE DEF c2
  <2> QED
    BY <1>2, DivMod
<1> HIDE DEF c2, a, r
<1>5. a = 0 \/ a = 1
  <2> SUFFICES ASSUME a >= 2 PROVE FALSE
    BY <1>4
  <2> DEFINE u == a * h
  <2>1. u >= 2 * h /\ u \in Nat
    BY <1>4
  <2> HIDE DEF u
  <2>2. c2 = u + r
    BY <1>4 DEF u
  <2> QED
    BY <1>2, <1>4, <2>1, <2>2
<1>6. c2 = r \/ c2 = h + r
  BY <1>4, <1>5
<1> QED
  BY <1>2, <1>3, <1>4, <1>6 DEF c2

\* The product of the 2^i factors from b on, and what the loop of prod does with it.
PartOf(cs, b, i) == prodOfPo2([j \in 0 .. Pow2[i] - 1 |-> cs[b + j]], i)
NextProduct(cs, degree, n, old) ==
  IF degree % Pow2[n] = degree % Pow2[n - 1] THEN old
  ELSE IF degree % Pow2[n - 1] = 0 THEN PartOf(cs, degree % Pow2[n - 1], n - 1)
  ELSE multAndRescale(modDownByAndEqual(old, old.l - PartOf(cs, degree % Pow2[n - 1], n - 1).l),
                      PartOf(cs, degree % Pow2[n - 1], n - 1))

LEMMA ProdLoop ==
  ASSUME NEW degree \in Nat \ {0}, NEW cs, NEW k \in Nat, k = Log2(degree) + 1, NEW S, Unset \in S[0],
         \A n \in 1 .. k : \A x \in S[n - 1] : NextProduct(cs, degree, n, x) \in S[n]
  PROVE  prod(cs, degree) \in S[k]
<1> DEFINE Body(f) == [n \in 0 .. Log2(degree) + 1 |-> IF n = 0 THEN Unset ELSE NextProduct(cs, degree, n, f[n - 1])]
           F == CHOOSE f : f = Body(f)
           prev == [n \in 1 .. k |-> n - 1]
           step == [n \in 1 .. k |-> [x \in S[n - 1] |-> NextProduct(cs, degree, n, x)]]
<1>1. prod(cs, degree) = F[Log2(degree) + 1]
  BY Zenon DEF prod, NextProduct, PartOf
<1>2. /\ \A n \in 1 .. k : n - 1 \in 0 .. k /\ n # 0 /\ n \in 0 .. k /\ n - 1 \in 0 .. n - 1 /\ prev[n] = n - 1
      /\ \A n \in 0 .. k : n = 0 \/ n \in 1 .. k
      /\ 0 \in 0 .. k
  OBVIOUS
<1>3. \A n \in 1 .. k : \A x \in S[n - 1] : step[n][x] = NextProduct(cs, degree, n, x)
  OBVIOUS
<1> HIDE DEF step, prev
<1>4. PICK f : IsRecursive(f, S, k, Unset, prev, step)
  <2>1. \A n \in 1 .. k : prev[n] \in 0 .. n - 1 /\ \A x \in S[prev[n]] : step[n][x] \in S[n]
    BY <1>2, <1>3
  <2> QED
    BY <2>1, FromEarlier
<1>5. /\ f = [n \in 0 .. k |-> f[n]] /\ f[0] = Unset /\ \A n \in 0 .. k : f[n] \in S[n]
      /\ \A n \in 1 .. k : f[n] = step[n][f[prev[n]]]
  BY <1>4 DEF IsRecursive
<1>6. \A n \in 1 .. k : f[n] = NextProduct(cs, degree, n, f[n - 1])
  <2>1. \A n \in 1 .. k : f[n] = step[n][f[n - 1]] /\ f[n - 1] \in S[n - 1]
    BY <1>2, <1>5
  <2> QED
    BY <1>3, <2>1
<1>7. f = Body(f)
  <2>1. f = [n \in 0 .. k |-> IF n = 0 THEN Unset ELSE NextProduct(cs, degree, n, f[n - 1])]
    BY <1>2, <1>5, <1>6
  <2> QED
    BY <2>1, Zenon
<1>8. F = Body(F)
  <2> HIDE DEF Body
  <2> QED
    BY <1>7, Zenon
<1> HIDE DEF F
<1>9. F[0] = Unset /\ \A n \in 1 .. k : F[n] = NextProduct(cs, degree, n, F[n - 1])
  <2>1. F = [n \in 0 .. k |-> IF n = 0 THEN Unset ELSE NextProduct(cs, degree, n, F[n - 1])]
    BY <1>8, Zenon
  <2> HIDE DEF Body
  <2>2. \A n \in 0 .. k : F[n] = IF n = 0 THEN Unset ELSE NextProduct(cs, degree, n, F[n - 1])
    BY <2>1, Zenon
  <2>3. F[0] = Unset
    BY <1>2, <2>2, Zenon
  <2>4. \A n \in 1 .. k : F[n] = NextProduct(cs, degree, n, F[n - 1])
    BY <1>2, <2>2, Zenon
  <2> QED
    BY <2>3, <2>4
<1> DEFINE T == {n \in 0 .. k : F[n] \in S[n]}
<1>10. 0 \in T
  BY <1>2, <1>9
<1>11. ASSUME NEW n \in 0 .. k - 1, n \in T PROVE n + 1 \in T
  <2> DEFINE m == n + 1
  <2>1. m \in 1 .. k /\ m - 1 = n /\ m \in 0 .. k
    OBVIOUS
  <2> HIDE DEF m
  <2>2. F[m] = NextProduct(cs, degree, m, F[m - 1]) /\ F[m - 1] \in S[m - 1]
    BY <1>9, <1>11, <2>1
  <2>3. m \in T
    BY <2>1, <2>2
  <2> QED
    BY <2>3 DEF m
<1> HIDE DEF T
<1>12. \A n \in 0 .. k - 1 : n \in T => n + 1 \in T
  BY <1>11
<1>13. \A n \in 0 .. k : n \in T
  BY <1>10, <1>12, InductionUpTo
<1>14. k \in 0 .. k
  OBVIOUS
<1> QED
  BY <1>1, <1>13, <1>14 DEF T

AreNumbers(cs, w, n, lev) == \A j \in 0 .. n - 1 : w[j] \in Int /\ Has(cs[j], lev, 1, w[j], TRUE)

IsPart(g, f, m, n) == (\A j \in 0 .. n - 1 : g[j] = f[m + j]) /\ \A j \in 0 .. (m + n) - 1 : f[j] \in Int

LEMMA ProductOfPart ==
  ASSUME NEW m \in Nat, NEW n \in Nat, NEW f, NEW g, IsPart(g, f, m, n)
  PROVE  /\ ProductBelow(f, m + n) = ProductBelow(f, m) * ProductBelow(g, n)
         /\ ProductBelow(f, m) \in Int /\ ProductBelow(g, n) \in Int
BY ProductBelowAppend DEF IsPart

LEMMA PartHas ==
  ASSUME NEW degree \in Nat \ {0}, NEW lev \in Nat \ {0}, NEW w, NEW cs,
         AreNumbers(cs, w, degree, lev),
         NEW i \in Nat, NEW b \in Nat, b + Pow2[i] <= degree
  PROVE  /\ ProductBelow(w, b) \in Int
         /\ \E val \in Int : /\ ProductBelow(w, b + Pow2[i]) = ProductBelow(w, b) * val
                             /\ Has(PartOf(cs, b, i), lev - i, 1, val, lev > i)
<1> DEFINE h == Pow2[i]
           w2 == [j \in 0 .. h - 1 |-> w[b + j]]
           c2 == [j \in 0 .. h - 1 |-> cs[b + j]]
<1>1. PartOf(cs, b, i) = prodOfPo2(c2, i)
  BY Zenon DEF PartOf
<1>2. h \in Nat \ {0} /\ b + h <= degree /\ h \in Nat
  BY Pow2Facts
<1>3. \A j \in 0 .. h - 1 : w2[j] = w[b + j] /\ c2[j] = cs[b + j]
  OBVIOUS
<1>4. \A j \in 0 .. h - 1 : b + j \in 0 .. degree - 1
  <2> HIDE DEF h
  <2> QED
    BY <1>2
<1>5. \A j \in 0 .. h - 1 : w2[j] \in Int /\ Has(c2[j], lev, 1, w2[j], TRUE)
  <2> HIDE DEF h, w2, c2
  <2> QED
    BY <1>3, <1>4 DEF AreNumbers
<1>6. c2 \in [0 .. h - 1 -> Ciphertext]
  <2>1. \A j \in 0 .. h - 1 : cs[b + j] \in Ciphertext
    <3> HIDE DEF h, w2
    <3> QED
      BY <1>4 DEF AreNumbers, Has
  <2> HIDE DEF h, w2
  <2> QED
    BY <2>1
<1> HIDE DEF w2, c2
<1>7. Has(prodOfPo2(c2, i), lev - i, 1, ProductBelow(w2, h), lev > i)
  BY <1>5, <1>6, PairsHave
<1> HIDE DEF h
<1>8. \A j \in 0 .. (b + h) - 1 : w[j] \in Int
  <2>1. \A j \in 0 .. (b + h) - 1 : j \in 0 .. degree - 1
    BY <1>2
  <2> QED
    BY <2>1 DEF AreNumbers
<1>9. /\ ProductBelow(w, b + h) = ProductBelow(w, b) * ProductBelow(w2, h)
      /\ ProductBelow(w, b) \in Int /\ ProductBelow(w2, h) \in Int
  <2>1. \A j \in 0 .. h - 1 : w2[j] = w[b + j]
    BY <1>3
  <2> QED
    <3>1. IsPart(w2, w, b, h)
      BY <1>8, <2>1 DEF IsPart
    <3> QED
      BY <1>2, <3>1, ProductOfPart
<1> QED
  BY <1>1, <1>7, <1>9 DEF h

ProductDepth(n) == IF n = Pow2[Log2(n)] THEN Log2(n) ELSE Log2(n) + 1

LEMMA ProductDepthIsDepth == ASSUME NEW n \in Nat \ {0} PROVE ProductDepth(n) = Depth(n) /\ Depth(n) \in Nat
<1> DEFINE k == Log2(n)
           m == n - Pow2[k]
<1>1. k \in Nat /\ (n # Pow2[k] => m \in 1 .. Pow2[k]) /\ n = Pow2[k] + m
  BY SplitFacts
<1> HIDE DEF k
<1>2. CASE n = Pow2[k]
  BY <1>1, <1>2, DepthFacts DEF ProductDepth, k
<1>3. CASE n # Pow2[k]
  <2>1. m \in 1 .. Pow2[k] /\ n = Pow2[k] + m
    BY <1>1, <1>3
  <2>2. Pow2[k] \in Nat
    BY <1>1, Pow2Facts
  <2>3. m \in Nat
    BY <2>1, <2>2
  <2> HIDE DEF m
  <2>4. Depth(Pow2[k] + m) = k + 1
    BY <1>1, <2>1, <2>3, DepthFacts
  <2> QED
    BY <2>1, <2>4, <1>1, <1>3, DepthFacts DEF ProductDepth, k
<1> QED
  BY <1>2, <1>3

\* The factors taken so far, and the levels they have cost.
IsProductOf(x, w, b, lev) == Has(x, lev - Depth(b), 1, ProductBelow(w, b), lev > Depth(b))

\* A bit of degree multiplies the product by that of its block.
LEMMA NextProductHas ==
  ASSUME NEW degree \in Nat \ {0}, NEW lev \in Nat \ {0}, NEW w, NEW cs,
         AreNumbers(cs, w, degree, lev),
         NEW n \in Nat \ {0}, NEW x \in Ciphertext,
         degree % Pow2[n - 1] # 0 => IsProductOf(x, w, degree % Pow2[n - 1], lev)
  PROVE  LET y == NextProduct(cs, degree, n, x)
         IN  y \in Ciphertext /\ (degree % Pow2[n] # 0 => IsProductOf(y, w, degree % Pow2[n], lev))
<1> DEFINE i == n - 1
           h == Pow2[i]
           b == degree % h
           b2 == degree % Pow2[n]
           y == NextProduct(cs, degree, n, x)
           z == PartOf(cs, b, i)
<1>1. i \in Nat /\ n = i + 1
  OBVIOUS
<1>2. /\ h \in Nat \ {0} /\ Pow2[n] = 2 * h
  BY <1>1, Pow2Facts
<1>3. b \in 0 .. h - 1 /\ b2 \in Nat /\ b2 <= degree /\ (b2 = b \/ b2 = h + b)
  <2> HIDE DEF h
  <2>1. degree \in Nat
    OBVIOUS
  <2> QED
    BY <1>2, <2>1, LowBits
<1>4. /\ y = IF b2 = b THEN x
             ELSE IF b = 0 THEN z ELSE multAndRescale(modDownByAndEqual(x, x.l - z.l), z)
      /\ b # 0 => IsProductOf(x, w, b, lev)
  BY Zenon DEF NextProduct
<1> HIDE DEF y
<1>5. CASE b2 = b
  BY <1>4, <1>5 DEF y
<1>6. CASE b2 # b
  <2>1. b \in Nat /\ b2 = b + h /\ b + h <= degree /\ b2 # 0
    <3> HIDE DEF b, b2, h
    <3> QED
      BY <1>2, <1>3, <1>6
  <2>2. PICK val \in Int : /\ ProductBelow(w, b + h) = ProductBelow(w, b) * val
                           /\ Has(z, lev - i, 1, val, lev > i)
    <3> HIDE DEF h, i
    <3>1. b \in Nat /\ i \in Nat /\ h = Pow2[i] /\ b + h <= degree
      BY <1>1, <2>1 DEF h
    <3> HIDE DEF b
    <3> QED
      BY <3>1, PartHas
  <2>3. ProductBelow(w, b) \in Int
    BY <1>1, <2>1, PartHas
  <2> DEFINE v == ProductBelow(w, b)
  <2> HIDE DEF v, z
  <2>4. z \in Ciphertext /\ z.l = lev - i /\ z.e = 1 /\ z.v = val /\ (z.err = "none" <=> lev > i)
    BY <2>2 DEF Has
  <2>5. CASE b = 0
    <3>1. v = 1 /\ ProductBelow(w, b2) = val /\ b2 = h
      <4>1. v = 1
        BY <2>5, ProductBelowSteps DEF v
      <4> HIDE DEF b, b2, h
      <4>2. b2 = b + h /\ b2 = h
        BY <1>2, <2>1, <2>5
      <4> QED
        BY <2>2, <4>1, <4>2 DEF v
    <3>2. Depth(b2) = i
      BY <1>1, <3>1, DepthFacts DEF h
    <3>3. y = z
      BY <1>4, <1>6, <2>5
    <3> HIDE DEF b, b2
    <3>4. IsProductOf(z, w, b2, lev)
      BY <2>2, <3>1, <3>2 DEF IsProductOf
    <3>5. y \in Ciphertext /\ IsProductOf(y, w, b2, lev)
      BY <2>4, <3>3, <3>4
    <3> QED
      BY <3>5 DEF y, b2
  <2>6. CASE b # 0
    <3> DEFINE d1 == Depth(b)
               u == modDownByAndEqual(x, x.l - z.l)
    <3>1. Has(x, lev - d1, 1, v, lev > d1)
      BY <1>4, <2>6, Zenon DEF IsProductOf, v
    <3>2. d1 \in Nat /\ d1 <= i /\ Depth(b2) = i + 1
      <4>1. b \in 1 .. h /\ b \in Nat /\ b \in Nat \ {0} /\ b2 = h + b
        <5> HIDE DEF b, b2, h
        <5> QED
          BY <1>2, <1>3, <2>1, <2>6
      <4> HIDE DEF b, b2
      <4> QED
        BY <1>1, <4>1, DepthFacts DEF h
    <3> HIDE DEF d1
    <3>3. x.l = lev - d1 /\ x.e = 1 /\ x.v = v /\ (x.err = "none" <=> lev > d1)
      BY <3>1 DEF Has
    <3>4. u = modDownToAndEqual(x, z.l)
      <4>1. x.l \in Int /\ z.l \in Int /\ x.l - (x.l - z.l) = z.l
        BY <2>4, HasFacts
      <4> QED
        BY <4>1 DEF modDownByAndEqual
    <3> DEFINE t == z.l
    <3>5. t \in Int /\ t = lev - i
      BY <1>1, <2>4
    <3> HIDE DEF t
    <3>6. Has(u, t, x.e, x.v, x.err = "none" /\ t <= x.l /\ t > 0)
      <4>1. Has(modDownToAndEqual(x, t), t, x.e, x.v, x.err = "none" /\ t <= x.l /\ t > 0)
        BY <3>5, ModDownHas
      <4> QED
        BY <3>4, <4>1 DEF t
    <3> HIDE DEF u
    <3>7. u \in Ciphertext /\ u.l = lev - i /\ u.e = 1 /\ u.v = v /\ (u.err = "none" <=> lev > i)
      <4>1. (x.err = "none" /\ t <= x.l /\ t > 0) <=> lev > i
        BY <1>1, <3>2, <3>3, <3>5
      <4> QED
        BY <3>3, <3>5, <3>6, <4>1 DEF Has
    <3>8. Has(multAndRescale(u, z), u.l - 1, (u.e + z.e) - 1, u.v * z.v,
              u.err = "none" /\ z.err = "none" /\ u.l = z.l /\ u.l > 1)
      BY <2>4, <3>7, MultAndRescaleHas
    <3>9. /\ u.l - 1 = lev - (i + 1) /\ (u.e + z.e) - 1 = 1
          /\ (u.err = "none" /\ z.err = "none" /\ u.l = z.l /\ u.l > 1 <=> lev > i + 1)
      BY <1>1, <2>4, <3>7
    <3>10. u.v * z.v = v * val
      BY <2>4, <3>7
    <3>11. y = multAndRescale(u, z)
      BY <1>4, <1>6, <2>6, Zenon DEF u
    <3>12. ProductBelow(w, b2) = v * val
      BY <2>1, <2>2 DEF v
    <3> HIDE DEF b, b2
    <3>13. IsProductOf(y, w, b2, lev) /\ y \in Ciphertext
      BY <3>2, <3>8, <3>9, <3>10, <3>11, <3>12 DEF IsProductOf, Has
    <3> QED
      BY <3>13 DEF y, b2
  <2> QED
    BY <2>5, <2>6
<1> QED
  BY <1>5, <1>6

LEMMA ProdHas ==
  ASSUME NEW degree \in Nat \ {0}, NEW lev \in Nat \ {0}, NEW w, NEW cs, AreNumbers(cs, w, degree, lev)
  PROVE  Has(prod(cs, degree), lev - ProductDepth(degree), 1, ProductBelow(w, degree), lev > ProductDepth(degree))
<1> DEFINE k == Log2(degree) + 1
           S == [n \in 0 .. k |-> {x \in Ciphertext :
                                     degree % Pow2[n] # 0 => IsProductOf(x, w, degree % Pow2[n], lev)}]
<1>1. Log2(degree) \in Nat /\ k \in Nat /\ degree < Pow2[k] /\ Pow2[k] \in Nat \ {0}
  BY Log2Facts, Pow2Facts
<1> HIDE DEF k
<1>2. /\ 0 \in 0 .. k /\ k \in 0 .. k
      /\ \A n \in 1 .. k : n - 1 \in 0 .. k /\ n \in 0 .. k /\ n \in Nat \ {0}
  BY <1>1
<1>3. \A n \in 0 .. k : \A x : x \in S[n] <=>
         x \in Ciphertext /\ (degree % Pow2[n] # 0 => IsProductOf(x, w, degree % Pow2[n], lev))
  OBVIOUS
<1> HIDE DEF S
<1>4. Unset \in S[0]
  <2>1. Unset \in Ciphertext
    BY DEF Unset, Ciphertext, Outcome
  <2>2. degree % Pow2[0] = 0
    BY Pow2Facts
  <2> QED
    BY <1>2, <1>3, <2>1, <2>2
<1>5. ASSUME NEW n \in 1 .. k, NEW x \in S[n - 1] PROVE NextProduct(cs, degree, n, x) \in S[n]
  <2>1. /\ n - 1 \in 0 .. k /\ n \in 0 .. k /\ n \in Nat \ {0}
        /\ x \in Ciphertext /\ (degree % Pow2[n - 1] # 0 => IsProductOf(x, w, degree % Pow2[n - 1], lev))
    BY <1>2, <1>3
  <2> DEFINE y == NextProduct(cs, degree, n, x)
  <2>2. y \in Ciphertext /\ (degree % Pow2[n] # 0 => IsProductOf(y, w, degree % Pow2[n], lev))
    BY <2>1, NextProductHas
  <2> HIDE DEF y
  <2>3. y \in S[n]
    BY <1>3, <2>1, <2>2
  <2> QED
    BY <2>3 DEF y
<1>6. prod(cs, degree) \in S[k]
  <2>1. \A n \in 1 .. k : \A x \in S[n - 1] : NextProduct(cs, degree, n, x) \in S[n]
    BY <1>5
  <2> QED
    BY <1>1, <1>4, <2>1, ProdLoop DEF k
<1>7. degree % Pow2[k] = degree /\ degree # 0
  <2> DEFINE h == Pow2[k]
  <2>1. h \in Nat \ {0} /\ degree \in 0 .. h - 1
    BY <1>1
  <2> HIDE DEF h
  <2>2. degree % h = degree
    BY <2>1
  <2> QED
    BY <2>2 DEF h
<1>8. IsProductOf(prod(cs, degree), w, degree, lev)
  BY <1>2, <1>3, <1>6, <1>7
<1> QED
  BY <1>8, ProductDepthIsDepth DEF IsProductOf

-------------------------------------------------------------------------------
(* Algorithms on ciphertexts: the order of the transform *)

LEMMA BitOfRest ==
  ASSUME NEW m \in Nat \ {0}, NEW u \in Nat \ {0}, NEW x \in Nat
  PROVE  ((x % (m * (2 * u))) \div m) % 2 = (x \div m) % 2
<1> DEFINE two == 2
<1>1. two \in Nat \ {0}
  OBVIOUS
<1> HIDE DEF two
<1>2. ((x % (m * (two * u))) \div m) % two = (x \div m) % two
  BY <1>1, DivOfMod
<1> QED
  BY <1>2 DEF two

\* The last k bits of i, reversed.
Reversed(i, k) == SumBelow([b \in 0 .. k - 1 |-> ((i \div Pow2[b]) % 2) * Pow2[(k - 1) - b]], k)

LEMMA ReversedStep ==
  ASSUME NEW k \in Nat, NEW i \in 0 .. Pow2[k] - 1, NEW x, NEW bit \in {0, 1}, x = bit * Pow2[k] + i
  PROVE  Reversed(i, k) \in Int /\ Reversed(x, k + 1) = 2 * Reversed(i, k) + bit
<1> DEFINE n == k + 1
           f == [b \in 0 .. k - 1 |-> ((i \div Pow2[b]) % 2) * Pow2[(k - 1) - b]]
           g == [b \in 0 .. n - 1 |-> ((x \div Pow2[b]) % 2) * Pow2[(n - 1) - b]]
           h == Pow2[k]
<1>1. h \in Nat \ {0} /\ i \in Nat /\ i \in 0 .. h - 1 /\ x = bit * h + i
  BY Pow2Facts
<1>2. x \in Nat /\ x \div h = bit /\ x % h = i
  <2> HIDE DEF h
  <2>1. bit \in Nat /\ i \in 0 .. h - 1 /\ h \in Nat \ {0}
    BY <1>1
  <2>2. bit * h + i \in Nat /\ (bit * h + i) \div h = bit /\ (bit * h + i) % h = i
    BY <2>1, Compose
  <2> QED
    BY <1>1, <2>2
<1>3. ASSUME NEW b \in 0 .. k - 1 PROVE f[b] \in Int /\ g[b] = 2 * f[b]
  <2> DEFINE m == Pow2[b]
             e == (k - 1) - b
             u == Pow2[e]
             z == (x \div m) % 2
  <2>1. /\ b \in Nat /\ e \in Nat /\ b \in 0 .. n - 1 /\ (n - 1) - b = e + 1 /\ b + (e + 1) = k
        /\ f[b] = ((i \div m) % 2) * u /\ g[b] = z * Pow2[(n - 1) - b]
    OBVIOUS
  <2>2. m \in Nat \ {0} /\ u \in Nat \ {0} /\ Pow2[e + 1] = 2 * u
    <3> HIDE DEF e
    <3> QED
      BY <2>1, Pow2Facts
  <2>3. h = m * (2 * u)
    <3> HIDE DEF e
    <3>1. e + 1 \in Nat
      BY <2>1
    <3>2. Pow2[b + (e + 1)] = m * Pow2[e + 1]
      BY <2>1, <3>1, Pow2Sum
    <3> QED
      BY <2>1, <2>2, <3>2
  <2> HIDE DEF m, e, u, h, f, g
  <2>4. (i \div m) % 2 = z
    <3>1. x \in Nat
      BY <1>2
    <3>2. ((x % (m * (2 * u))) \div m) % 2 = (x \div m) % 2
      BY <3>1, <2>2, BitOfRest, Zenon
    <3> QED
      BY <1>2, <2>3, <3>2 DEF z
  <2>5. z \in Int
    <3> DEFINE y == x \div m
    <3>1. y \in Nat
      BY <1>2, <2>2, DivMod
    <3> HIDE DEF y
    <3>2. y % 2 \in Int
      BY <3>1
    <3> QED
      BY <3>2 DEF y
  <2> HIDE DEF z
  <2>6. f[b] = z * u /\ g[b] = z * (2 * u)
    BY <2>1, <2>2, <2>4
  <2>7. z * u \in Int /\ z * (2 * u) = 2 * (z * u)
    BY <2>2, <2>5
  <2> QED
    BY <2>6, <2>7
<1>4. g[k] = bit
  <2>1. k \in 0 .. n - 1 /\ (n - 1) - k = 0
    OBVIOUS
  <2>2. g[k] = ((x \div h) % 2) * Pow2[0]
    BY <2>1
  <2>3. bit % 2 = bit /\ bit * 1 = bit
    OBVIOUS
  <2> HIDE DEF g, h
  <2> QED
    BY <1>2, <2>2, <2>3, Pow2Facts
<1> HIDE DEF f, g
<1>5. SumBelow(f, k) \in Int /\ SumBelow(g, k) = 2 * SumBelow(f, k)
  <2> DEFINE two == 2
  <2>1. two \in Int /\ \A b \in 0 .. k - 1 : f[b] \in Int /\ g[b] = two * f[b]
    BY <1>3
  <2> HIDE DEF two
  <2>2. SumBelow(f, k) \in Int /\ SumBelow(g, k) = two * SumBelow(f, k)
    BY <2>1, BelowTimes
  <2> QED
    BY <2>2 DEF two
<1>6. SumBelow(g, k + 1) = SumBelow(g, k) + g[k]
  BY BelowSteps
<1>7. Reversed(i, k) = SumBelow(f, k) /\ Reversed(x, k + 1) = SumBelow(g, k + 1)
  BY DEF Reversed, f, g
<1> QED
  BY <1>4, <1>5, <1>6, <1>7

\* The numbers at even and at odd places.
LEMMA EvenAndOdd ==
  ASSUME NEW m \in Nat, NEW f, \A j \in 0 .. 2 * m - 1 : f[j] \in Int, NEW g1, NEW g2,
         \A j \in 0 .. m - 1 : g1[j] = f[2 * j] /\ g2[j] = f[2 * j + 1]
  PROVE  SumBelow(f, 2 * m) = SumBelow(g1, m) + SumBelow(g2, m)
<1> DEFINE T == {n \in 0 .. m : /\ SumBelow(g1, n) \in Int /\ SumBelow(g2, n) \in Int
                               /\ SumBelow(f, 2 * n) = SumBelow(g1, n) + SumBelow(g2, n)}
<1>1. 0 \in T
  <2>1. SumBelow(g1, 0) = 0 /\ SumBelow(g2, 0) = 0 /\ SumBelow(f, 0) = 0
    BY BelowSteps
  <2>2. 2 * 0 = 0 /\ 0 \in 0 .. m
    OBVIOUS
  <2> QED
    BY <2>1, <2>2
<1>2. ASSUME NEW n \in 0 .. m - 1, n \in T PROVE n + 1 \in T
  <2> DEFINE s1 == SumBelow(g1, n)
             s2 == SumBelow(g2, n)
             a == f[2 * n]
             b == f[2 * n + 1]
             k == 2 * n
  <2>1. /\ n \in Nat /\ n + 1 \in 0 .. m /\ k \in Nat /\ k + 1 \in Nat /\ (k + 1) + 1 = 2 * (n + 1)
        /\ k \in 0 .. 2 * m - 1 /\ k + 1 \in 0 .. 2 * m - 1
    OBVIOUS
  <2>2. s1 \in Int /\ s2 \in Int /\ SumBelow(f, k) = s1 + s2
    BY <1>2
  <2>3. a \in Int /\ b \in Int /\ g1[n] = a /\ g2[n] = b
    BY <2>1
  <2>4. SumBelow(g1, n + 1) = s1 + a /\ SumBelow(g2, n + 1) = s2 + b
    <3>1. SumBelow(g1, n + 1) = s1 + g1[n] /\ SumBelow(g2, n + 1) = s2 + g2[n]
      BY <2>1, BelowSteps
    <3> QED
      BY <2>3, <3>1
  <2>5. SumBelow(f, 2 * (n + 1)) = ((s1 + s2) + a) + b
    <3> HIDE DEF k
    <3>1. SumBelow(f, k + 1) = SumBelow(f, k) + f[k] /\ SumBelow(f, (k + 1) + 1) = SumBelow(f, k + 1) + f[k + 1]
      BY <2>1, BelowSteps
    <3>2. f[k] = a /\ f[k + 1] = b
      BY DEF k
    <3> QED
      BY <2>1, <2>2, <3>1, <3>2
  <2> HIDE DEF s1, s2, a, b
  <2>6. ((s1 + s2) + a) + b = (s1 + a) + (s2 + b) /\ s1 + a \in Int /\ s2 + b \in Int
    BY <2>2, <2>3
  <2> QED
    BY <2>1, <2>4, <2>5, <2>6
<1> HIDE DEF T
<1>3. \A n \in 0 .. m - 1 : n \in T => n + 1 \in T
  BY <1>2
<1>4. m \in T
  <2>1. \A n \in 0 .. m : n \in T
    BY <1>1, <1>3, InductionUpTo
  <2>2. m \in 0 .. m
    OBVIOUS
  <2> QED
    BY <2>1, <2>2
<1> QED
  BY <1>4 DEF T

\* Reversing the bits of the places is a permutation: whatever is summed.
AnyOrder(k) ==
  /\ Reversed(0, k) = 0
  /\ \A i \in 0 .. Pow2[k] - 1 : Reversed(i, k) \in 0 .. Pow2[k] - 1
  /\ \A w : \A g : (\A i \in 0 .. Pow2[k] - 1 : w[i] \in Int /\ g[i] = w[Reversed(i, k)])
                   => SumBelow(g, Pow2[k]) = SumBelow(w, Pow2[k])

LEMMA AnyOrderStep ==
  ASSUME NEW k \in Nat, AnyOrder(k) PROVE AnyOrder(k + 1)
<1> DEFINE h == Pow2[k]
           R(i) == Reversed(i, k)
           Rn(x) == Reversed(x, k + 1)
<1>1. h \in Nat \ {0} /\ h \in Nat /\ Pow2[k + 1] = 2 * h /\ 2 * h = h + h
  BY Pow2Facts
<1>2. \A i \in 0 .. h - 1 : Rn(i) = 2 * R(i) /\ Rn(h + i) = 2 * R(i) + 1 /\ R(i) \in Int
  <2> SUFFICES ASSUME NEW i \in 0 .. h - 1 PROVE Rn(i) = 2 * R(i) /\ Rn(h + i) = 2 * R(i) + 1 /\ R(i) \in Int
    OBVIOUS
  <2>1. \A bit \in {0, 1} : \A x : x = bit * Pow2[k] + i => R(i) \in Int /\ Rn(x) = 2 * R(i) + bit
    BY ReversedStep
  <2>2. i = 0 * Pow2[k] + i /\ h + i = 1 * Pow2[k] + i
    BY <1>1
  <2>3. R(i) \in Int /\ Rn(i) = 2 * R(i) + 0
    <3> HIDE DEF R, Rn, h
    <3> QED
      BY <2>1, <2>2
  <2>4. Rn(h + i) = 2 * R(i) + 1
    <3> HIDE DEF R, Rn, h
    <3> QED
      BY <2>1, <2>2
  <2> HIDE DEF R, Rn, h
  <2> QED
    BY <2>3, <2>4
<1>3. /\ R(0) = 0
      /\ \A i \in 0 .. h - 1 : R(i) \in 0 .. h - 1
      /\ \A w : \A g : (\A i \in 0 .. h - 1 : w[i] \in Int /\ g[i] = w[R(i)]) => SumBelow(g, h) = SumBelow(w, h)
  BY DEF AnyOrder
<1> HIDE DEF h, R, Rn
<1>4. Rn(0) = 0
  BY <1>1, <1>2, <1>3
<1>5. ASSUME NEW x \in 0 .. 2 * h - 1
      PROVE  x \in 0 .. h - 1 \/ (x - h \in 0 .. h - 1 /\ x = h + (x - h))
  BY <1>1
<1>6. ASSUME NEW x \in 0 .. 2 * h - 1 PROVE Rn(x) \in 0 .. 2 * h - 1
  <2>1. \A i \in 0 .. h - 1 : Rn(i) \in 0 .. 2 * h - 1 /\ Rn(h + i) \in 0 .. 2 * h - 1
    <3> SUFFICES ASSUME NEW i \in 0 .. h - 1 PROVE Rn(i) \in 0 .. 2 * h - 1 /\ Rn(h + i) \in 0 .. 2 * h - 1
      OBVIOUS
    <3> DEFINE r == R(i)
    <3>1. r \in 0 .. h - 1 /\ Rn(i) = 2 * r /\ Rn(h + i) = 2 * r + 1
      BY <1>2, <1>3
    <3> HIDE DEF r
    <3> QED
      BY <1>1, <3>1
  <2> QED
    BY <1>5, <2>1
<1>7. ASSUME NEW w, NEW g, \A x \in 0 .. 2 * h - 1 : w[x] \in Int /\ g[x] = w[Rn(x)]
      PROVE  SumBelow(g, 2 * h) = SumBelow(w, 2 * h)
  <2> DEFINE w1 == [i \in 0 .. h - 1 |-> w[2 * i]]
             w2 == [i \in 0 .. h - 1 |-> w[2 * i + 1]]
             g2 == [i \in 0 .. h - 1 |-> g[h + i]]
  <2>1. \A i \in 0 .. h - 1 : w1[i] = w[2 * i] /\ w2[i] = w[2 * i + 1] /\ g2[i] = g[h + i]
    OBVIOUS
  <2> HIDE DEF w1, w2, g2
  <2>2. \A i \in 0 .. h - 1 : /\ i \in 0 .. 2 * h - 1 /\ h + i \in 0 .. 2 * h - 1
                              /\ 2 * i \in 0 .. 2 * h - 1 /\ 2 * i + 1 \in 0 .. 2 * h - 1
    BY <1>1
  <2>3. \A i \in 0 .. h - 1 : w1[i] \in Int /\ w2[i] \in Int
    BY <2>1, <2>2, <1>7
  <2>4. \A i \in 0 .. h - 1 : g[i] = w1[R(i)] /\ g2[i] = w2[R(i)]
    <3> SUFFICES ASSUME NEW i \in 0 .. h - 1 PROVE g[i] = w1[R(i)] /\ g2[i] = w2[R(i)]
      OBVIOUS
    <3> DEFINE r == R(i)
    <3>1. r \in 0 .. h - 1 /\ Rn(i) = 2 * r /\ Rn(h + i) = 2 * r + 1
      BY <1>2, <1>3
    <3> HIDE DEF r
    <3>2. g[i] = w[Rn(i)] /\ g[h + i] = w[Rn(h + i)]
      BY <2>2, <1>7
    <3>3. g[i] = w1[r] /\ g2[i] = w2[r]
      BY <2>1, <3>1, <3>2
    <3> QED
      BY <3>3 DEF r
  <2>5. SumBelow(g, h) = SumBelow(w1, h)
    BY <1>3, <2>3, <2>4
  <2>6. SumBelow(g2, h) = SumBelow(w2, h)
    BY <1>3, <2>3, <2>4
  <2>7. SumBelow(w, 2 * h) = SumBelow(w1, h) + SumBelow(w2, h)
    <3>1. \A x \in 0 .. 2 * h - 1 : w[x] \in Int
      BY <1>7
    <3> QED
      BY <1>1, <2>1, <3>1, EvenAndOdd
  <2>8. SumBelow(g, h + h) = SumBelow(g, h) + SumBelow(g2, h)
    <3>1. \A x \in 0 .. (h + h) - 1 : g[x] \in Int
      BY <1>1, <1>6, <1>7
    <3> QED
      BY <1>1, <2>1, <3>1, BelowAppend
  <2> QED
    BY <1>1, <2>5, <2>6, <2>7, <2>8
<1> QED
  BY <1>1, <1>4, <1>6, <1>7 DEF AnyOrder, Rn

LEMMA AnyOrderHolds == ASSUME NEW k \in Nat PROVE AnyOrder(k)
<1> DEFINE T == {i \in 0 .. k : AnyOrder(i)}
<1>1. AnyOrder(0)
  <2>1. Pow2[0] = 1 /\ \A i \in 0 .. 1 - 1 : i = 0
    BY Pow2Facts
  <2>2. Reversed(0, 0) = 0
    BY BelowSteps DEF Reversed
  <2>3. ASSUME NEW w, NEW g, g[0] = w[0] PROVE SumBelow(g, 0 + 1) = SumBelow(w, 0 + 1)
    <3>1. SumBelow(g, 0 + 1) = SumBelow(g, 0) + g[0] /\ SumBelow(w, 0 + 1) = SumBelow(w, 0) + w[0]
      BY BelowSteps
    <3>2. SumBelow(g, 0) = 0 /\ SumBelow(w, 0) = 0
      BY BelowSteps
    <3> QED
      BY <2>3, <3>1, <3>2
  <2>4. 0 + 1 = 1 /\ 0 \in 0 .. 1 - 1
    OBVIOUS
  <2> QED
    BY <2>1, <2>2, <2>3, <2>4 DEF AnyOrder
<1>2. ASSUME NEW i \in 0 .. k - 1, i \in T PROVE i + 1 \in T
  <2>1. i \in Nat /\ i + 1 \in 0 .. k
    OBVIOUS
  <2> QED
    BY <1>2, <2>1, AnyOrderStep
<1>3. 0 \in T
  BY <1>1
<1> HIDE DEF T
<1>4. \A i \in 0 .. k - 1 : i \in T => i + 1 \in T
  BY <1>2
<1>5. \A i \in 0 .. k : i \in T
  BY <1>3, <1>4, InductionUpTo
<1> QED
  BY <1>5 DEF T

-------------------------------------------------------------------------------
(* Algorithms on ciphertexts: the transform *)

\* Two blocks of size h, the first one the j-th of size 2 * h: what a butterfly does to their words.
LEMMA BlockPlaces ==
  ASSUME NEW h \in Nat \ {0}, NEW n \in Nat, NEW j \in 0 .. n - 1, NEW m \in 0 .. h - 1
  PROVE  LET i1 == (2 * j) * h + m
             i2 == (2 * j + 1) * h + m
         IN  /\ i1 \in 0 .. n * (2 * h) - 1 /\ i2 \in 0 .. n * (2 * h) - 1
             /\ i2 = i1 + h /\ i2 - h = i1 /\ i1 = j * (2 * h) + m /\ i2 = j * (2 * h) + (h + m)
             /\ i1 % (2 * h) = m /\ i2 % (2 * h) = h + m /\ (2 * h) \div 2 = h /\ ~(h + m < h)
<1> DEFINE g == 2 * h
           u == j * h
           i1 == (2 * j) * h + m
           i2 == (2 * j + 1) * h + m
           v == n * h
<1>8. \A k \in Nat \ {0} : \A i \in Nat : \A r \in 0 .. k - 1 : (i * k + r) % k = r
  BY Compose
<1>1. u \in Nat /\ v \in Nat /\ (2 * j) * h = 2 * u /\ (2 * j + 1) * h = 2 * u + h /\ j * g = 2 * u /\ n * g = 2 * v
  OBVIOUS
<1>2. u + h <= v
  <2>1. j + 1 <= n /\ j \in Nat /\ (j + 1) * h = u + h
    OBVIOUS
  <2>2. (j + 1) * h <= n * h
    BY <2>1
  <2> QED
    BY <2>1, <2>2
<1>3. g \in Nat \ {0} /\ g = 2 * h /\ g \div 2 = h
  OBVIOUS
<1> HIDE DEF g, u, v
<1>4. /\ i1 = 2 * u + m /\ i2 = 2 * u + (h + m)
  BY <1>1
<1> HIDE DEF i1, i2
<1>5. /\ i1 \in 0 .. 2 * v - 1 /\ i2 \in 0 .. 2 * v - 1 /\ i2 = i1 + h /\ i2 - h = i1 /\ ~(h + m < h)
      /\ m \in 0 .. g - 1 /\ h + m \in 0 .. g - 1 /\ j \in Nat
  BY <1>1, <1>2, <1>3, <1>4
<1>6. i1 = j * g + m /\ i2 = j * g + (h + m)
  BY <1>1, <1>4
<1>7. i1 % g = m /\ i2 % g = h + m
  <2>1. (j * g + m) % g = m /\ (j * g + (h + m)) % g = h + m
    BY <1>3, <1>5, <1>8, Zenon
  <2> QED
    BY <1>6, <2>1
<1> QED
  BY <1>1, <1>3, <1>5, <1>6, <1>7 DEF i1, i2, g

\* All words have level lev and scale p, and nothing has gone wrong.
AllHave(x, n, lev) == x \in [0 .. n - 1 -> Ciphertext] /\ \A i \in 0 .. n - 1 : Has(x[i], lev, 1, x[i].v, TRUE)

AreWings(y, x, h, n) ==
  \A j \in 0 .. n - 1 : \A m \in 0 .. h - 1 :
    LET a == x[(2 * j) * h + m].v
        b == x[(2 * j + 1) * h + m].v
    IN  a \in Int /\ b \in Int /\ y[j * (2 * h) + m].v = a + b /\ y[j * (2 * h) + (h + m)].v = a - b

LEMMA ButterfliesHave ==
  ASSUME NEW lev \in Int, NEW h \in Nat \ {0}, NEW n \in Nat, NEW x, AllHave(x, n * (2 * h), lev)
  PROVE  LET y == Butterflies(x, 2 * h)
         IN  AllHave(y, n * (2 * h), lev) /\ AreWings(y, x, h, n)
<1> DEFINE g == 2 * h
           size == n * g
           D == 0 .. size - 1
           y == Butterflies(x, g)
           Wing(i) == IF i % g < h THEN addAndEqual(x[i], x[i + h]) ELSE sub2AndEqual(x[i - h], x[i])
<1>1. g \in Nat \ {0} /\ g \div 2 = h /\ size \in Nat
  OBVIOUS
<1>2. x \in [D -> Ciphertext] /\ \A i \in D : Has(x[i], lev, 1, x[i].v, TRUE) /\ x[i].v \in Int
  BY HasFacts DEF AllHave
<1>3. DOMAIN x = D
  BY <1>2
<1> HIDE DEF g, D
<1>4. y = [i \in D |-> Wing(i)]
  <2>1. y = [i \in DOMAIN x |-> Wing(i)]
    <3>1. \A i \in D : (LET half == g \div 2
                            u == IF i % g < half THEN x[i] ELSE x[i - half]
                            w == multByMonomialAndEqual(IF i % g < half THEN x[i + half] ELSE x[i])
                        IN  IF i % g < half THEN addAndEqual(u, w) ELSE sub2AndEqual(u, w)) = Wing(i)
      BY <1>1 DEF multByMonomialAndEqual
    <3> HIDE DEF Wing
    <3> QED
      BY <1>3, <3>1 DEF Butterflies
  <2> QED
    BY <1>3, <2>1
<1> HIDE DEF y
<1>5. ASSUME NEW s, NEW t, NEW a \in Int, NEW b \in Int, Has(s, lev, 1, a, TRUE), Has(t, lev, 1, b, TRUE)
      PROVE  Has(addAndEqual(s, t), lev, 1, a + b, TRUE) /\ Has(sub2AndEqual(s, t), lev, 1, a - b, TRUE)
  <2> DEFINE z == negate(t)
  <2>1. /\ s \in Ciphertext /\ s.l = lev /\ s.e = 1 /\ s.v = a /\ s.err = "none"
        /\ t \in Ciphertext /\ t.l = lev /\ t.e = 1 /\ t.v = b /\ t.err = "none"
    BY <1>5 DEF Has
  <2>2. Has(z, t.l, t.e, -t.v, t.err = "none")
    <3>1. \A r \in Ciphertext : \A k \in Int : Has(negate(r), r.l, r.e, -r.v, r.err = "none")
      BY ConstantsHave
    <3>2. 0 \in Int
      OBVIOUS
    <3> QED
      BY <2>1, <3>1, <3>2
  <2>3. sub2AndEqual(s, t) = addAndEqual(s, z)
    BY DEF sub2AndEqual, sub, negate
  <2> HIDE DEF z
  <2>4. z \in Ciphertext /\ z.l = lev /\ z.e = 1 /\ z.v = -b /\ z.err = "none"
    BY <2>1, <2>2 DEF Has
  <2>5. Has(addAndEqual(s, z), s.l, s.e, s.v + z.v, s.err = "none" /\ z.err = "none" /\ s.l = z.l /\ s.e = z.e)
    BY <2>1, <2>4, AddHas
  <2>6. Has(addAndEqual(s, t), s.l, s.e, s.v + t.v, s.err = "none" /\ t.err = "none" /\ s.l = t.l /\ s.e = t.e)
    BY <2>1, AddHas
  <2>7. s.v + z.v = a - b /\ s.v + t.v = a + b
    BY <2>1, <2>4
  <2>8. Has(addAndEqual(s, t), lev, 1, a + b, TRUE)
    BY <2>1, <2>6, <2>7 DEF Has
  <2>9. Has(addAndEqual(s, z), lev, 1, a - b, TRUE)
    BY <2>1, <2>4, <2>5, <2>7 DEF Has
  <2> QED
    BY <2>3, <2>8, <2>9
<1>6. ASSUME NEW j \in 0 .. n - 1, NEW m \in 0 .. h - 1
      PROVE  /\ x[(2 * j) * h + m].v \in Int /\ x[(2 * j + 1) * h + m].v \in Int
             /\ j * g + m \in D /\ j * g + (h + m) \in D
             /\ Has(y[j * g + m], lev, 1, x[(2 * j) * h + m].v + x[(2 * j + 1) * h + m].v, TRUE)
             /\ Has(y[j * g + (h + m)], lev, 1, x[(2 * j) * h + m].v - x[(2 * j + 1) * h + m].v, TRUE)
  <2> DEFINE i1 == (2 * j) * h + m
             i2 == (2 * j + 1) * h + m
             a == x[i1].v
             b == x[i2].v
  <2>1. /\ i1 \in D /\ i2 \in D /\ i2 = i1 + h /\ i2 - h = i1 /\ i1 = j * g + m /\ i2 = j * g + (h + m)
        /\ i1 % g = m /\ i2 % g = h + m /\ ~(h + m < h) /\ m < h
    BY BlockPlaces DEF g, D
  <2> HIDE DEF i1, i2
  <2>2. a \in Int /\ b \in Int /\ Has(x[i1], lev, 1, a, TRUE) /\ Has(x[i2], lev, 1, b, TRUE)
    BY <1>2, <2>1
  <2>3. y[i1] = addAndEqual(x[i1], x[i2]) /\ y[i2] = sub2AndEqual(x[i1], x[i2])
    BY <1>4, <2>1
  <2> HIDE DEF a, b, Wing
  <2>4. Has(y[i1], lev, 1, a + b, TRUE) /\ Has(y[i2], lev, 1, a - b, TRUE)
    BY <1>5, <2>2, <2>3
  <2>5. a \in Int /\ b \in Int /\ j * g + m \in D /\ j * g + (h + m) \in D
        /\ Has(y[j * g + m], lev, 1, a + b, TRUE) /\ Has(y[j * g + (h + m)], lev, 1, a - b, TRUE)
    BY <2>1, <2>2, <2>4
  <2> QED
    BY <2>5 DEF a, b, i1, i2
<1> HIDE DEF Wing
<1>7. ASSUME NEW i \in D PROVE \E v \in Int : Has(y[i], lev, 1, v, TRUE)
  <2> DEFINE j == i \div g
             r == i % g
  <2>1. i \in Nat /\ i < size /\ size = n * g
    BY <1>1 DEF D
  <2>2. j \in Nat /\ r \in 0 .. g - 1 /\ i = j * g + r
    BY <1>1, <2>1, DivMod
  <2> HIDE DEF j, r, size
  <2>3. j \in 0 .. n - 1
    <3> SUFFICES ASSUME j >= n PROVE FALSE
      BY <2>2
    <3> DEFINE u == j * g
    <3>1. u >= n * g /\ u \in Nat
      BY <1>1, <2>2
    <3> HIDE DEF u
    <3>2. i = u + r
      BY <2>2 DEF u
    <3> QED
      BY <1>1, <2>1, <2>2, <3>1, <3>2
  <2>4. CASE r < h
    <3>1. r \in 0 .. h - 1
      BY <2>2, <2>4
    <3> DEFINE a == x[(2 * j) * h + r].v
               b == x[(2 * j + 1) * h + r].v
    <3>2. a \in Int /\ b \in Int /\ Has(y[j * g + r], lev, 1, a + b, TRUE)
      BY <1>6, <2>3, <3>1
    <3> HIDE DEF a, b
    <3>3. a + b \in Int
      BY <3>2
    <3> QED
      BY <2>2, <3>2, <3>3
  <2>5. CASE ~(r < h)
    <3> DEFINE m == r - h
    <3>1. m \in 0 .. h - 1 /\ h + m = r
      BY <2>2, <2>5 DEF g
    <3> HIDE DEF m
    <3> DEFINE a == x[(2 * j) * h + m].v
               b == x[(2 * j + 1) * h + m].v
    <3>2. a \in Int /\ b \in Int /\ Has(y[j * g + (h + m)], lev, 1, a - b, TRUE)
      BY <1>6, <2>3, <3>1
    <3> HIDE DEF a, b
    <3>3. a - b \in Int
      BY <3>2
    <3> QED
      BY <2>2, <3>1, <3>2, <3>3
  <2> QED
    BY <2>4, <2>5
<1>8. AllHave(y, size, lev)
  <2>1. \A i \in D : y[i] \in Ciphertext /\ Has(y[i], lev, 1, y[i].v, TRUE)
    BY <1>7 DEF Has
  <2>2. y \in [D -> Ciphertext]
    <3>1. y = [i \in D |-> y[i]]
      BY <1>4
    <3> QED
      BY <2>1, <3>1
  <2> QED
    BY <2>1, <2>2 DEF AllHave, D
<1>9. ASSUME NEW j \in 0 .. n - 1, NEW m \in 0 .. h - 1
      PROVE  LET a == x[(2 * j) * h + m].v
                 b == x[(2 * j + 1) * h + m].v
             IN  a \in Int /\ b \in Int /\ y[j * g + m].v = a + b /\ y[j * g + (h + m)].v = a - b
  BY <1>6 DEF Has
<1> QED
  BY <1>8, <1>9 DEF AreWings, g, y

\* After the step for blocks of size h: the first word of a block is the sum of
\* the block before the first step, and the words of the block together are h
\* times its first word then.
IsTransform(x, size, lev, g, h, n) ==
  /\ AllHave(x, size, lev)
  /\ \A j \in 0 .. n - 1 :
       /\ x[j * h].v = SumBelow(Block(g, j, h), h)
       /\ SumBelow(Block([i \in 0 .. size - 1 |-> x[i].v], j, h), h) = h * g[j * h]

LEMMA NextTransform ==
  ASSUME NEW lev \in Int, NEW h \in Nat \ {0}, NEW n \in Nat, NEW size, size = n * (2 * h), NEW x, NEW g,
         \A i \in 0 .. size - 1 : g[i] \in Int, IsTransform(x, size, lev, g, h, 2 * n)
  PROVE  IsTransform(Butterflies(x, 2 * h), size, lev, g, 2 * h, n)
<1> DEFINE k == 2 * h
           y == Butterflies(x, k)
           X == [i \in 0 .. size - 1 |-> x[i].v]
           Y == [i \in 0 .. size - 1 |-> y[i].v]
<1>1. /\ AllHave(y, size, lev)
      /\ \A j \in 0 .. n - 1 : \A m \in 0 .. h - 1 :
           LET a == x[(2 * j) * h + m].v
               b == x[(2 * j + 1) * h + m].v
           IN  /\ a \in Int /\ b \in Int
               /\ y[j * k + m].v = a + b /\ y[j * k + (h + m)].v = a - b
  <2>1. AllHave(x, n * (2 * h), lev)
    BY DEF IsTransform
  <2>2. AllHave(Butterflies(x, 2 * h), n * (2 * h), lev) /\ AreWings(Butterflies(x, 2 * h), x, h, n)
    BY <2>1, ButterfliesHave, Zenon
  <2> QED
    BY <2>2 DEF AreWings
<1>2. \A j \in 0 .. 2 * n - 1 : x[j * h].v = SumBelow(Block(g, j, h), h) /\ SumBelow(Block(X, j, h), h) = h * g[j * h]
  BY DEF IsTransform
<1>3. \A i \in 0 .. size - 1 : X[i] = x[i].v /\ Y[i] = y[i].v
  OBVIOUS
<1> HIDE DEF y, X, Y
<1>4. ASSUME NEW j \in 0 .. n - 1
      PROVE  y[j * k].v = SumBelow(Block(g, j, k), k) /\ SumBelow(Block(Y, j, k), k) = k * g[j * k]
  <2>1. ASSUME NEW m \in 0 .. h - 1
        PROVE  /\ (2 * j) * h + m \in 0 .. size - 1 /\ (2 * j + 1) * h + m \in 0 .. size - 1
               /\ (2 * j) * h + m = j * k + m /\ (2 * j + 1) * h + m = j * k + (h + m)
    BY BlockPlaces
  <2>2. j \in Nat /\ 2 * j \in 0 .. 2 * n - 1 /\ 2 * j + 1 \in 0 .. 2 * n - 1 /\ h \in Nat /\ 0 \in 0 .. h - 1
    OBVIOUS
  <2>3. (2 * j) * h = j * k /\ j * k \in Nat /\ (2 * j) * h + 0 = j * k /\ (2 * j + 1) * h + 0 = (2 * j + 1) * h
        /\ j * k + 0 = j * k
    OBVIOUS
  <2>4. ASSUME NEW r \in 0 .. k - 1 PROVE j * k + r \in 0 .. size - 1
    <3>1. CASE r < h
      BY <2>1, <3>1
    <3>2. CASE ~(r < h)
      <4>1. r - h \in 0 .. h - 1 /\ h + (r - h) = r
        BY <3>2
      <4> QED
        BY <2>1, <4>1
    <3> QED
      BY <3>1, <3>2
  <2>5. y[j * k].v = SumBelow(Block(g, j, k), k)
    <3> DEFINE s1 == SumBelow(Block(g, 2 * j, h), h)
               s2 == SumBelow(Block(g, 2 * j + 1, h), h)
               s == SumBelow(Block(g, j, k), k)
    <3>1. y[j * k].v = x[(2 * j) * h].v + x[(2 * j + 1) * h].v
      <4>1. y[j * k + 0].v = x[(2 * j) * h + 0].v + x[(2 * j + 1) * h + 0].v
        BY <1>1, <2>2
      <4>2. (2 * j) * h + 0 = (2 * j) * h
        BY <2>3
      <4> HIDE DEF k
      <4> QED
        BY <2>3, <4>1, <4>2
    <3>2. x[(2 * j) * h].v = s1 /\ x[(2 * j + 1) * h].v = s2
      BY <1>2, <2>2
    <3>3. s = s1 + s2
      <4>1. \A m \in 0 .. 2 * h - 1 : g[j * (2 * h) + m] \in Int
        BY <2>4
      <4> QED
        BY <2>2, <4>1, BlockSplit
    <3> QED
      BY <3>1, <3>2, <3>3
  <2>6. SumBelow(Block(Y, j, k), k) = k * g[j * k]
    <3> DEFINE b == Block(Y, j, k)
               b1 == Block(X, 2 * j, h)
               b2 == Block(X, 2 * j + 1, h)
               low == [m \in 0 .. h - 1 |-> b[m]]
               high == [m \in 0 .. h - 1 |-> b[h + m]]
    <3>1. \A r \in 0 .. k - 1 : b[r] = y[j * k + r].v
      <4>1. \A r \in 0 .. k - 1 : b[r] = Y[j * k + r]
        BY DEF Block
      <4> HIDE DEF k, b
      <4> QED
        BY <1>3, <2>4, <4>1
    <3>2. \A m \in 0 .. h - 1 : b1[m] = x[(2 * j) * h + m].v /\ b2[m] = x[(2 * j + 1) * h + m].v
      <4>1. \A m \in 0 .. h - 1 : b1[m] = X[(2 * j) * h + m] /\ b2[m] = X[(2 * j + 1) * h + m]
        BY DEF Block
      <4> HIDE DEF b1, b2
      <4> QED
        BY <1>3, <2>1, <4>1
    <3>3. \A m \in 0 .. h - 1 : m \in 0 .. k - 1 /\ h + m \in 0 .. k - 1 /\ low[m] = b[m] /\ high[m] = b[h + m]
      OBVIOUS
    <3> HIDE DEF b, b1, b2, low, high
    <3>4. ASSUME NEW m \in 0 .. h - 1
          PROVE  b1[m] \in Int /\ b2[m] \in Int /\ low[m] = b1[m] + b2[m] /\ high[m] = b1[m] - b2[m]
      <4> DEFINE a1 == x[(2 * j) * h + m].v
                 a2 == x[(2 * j + 1) * h + m].v
      <4>1. a1 \in Int /\ a2 \in Int /\ y[j * k + m].v = a1 + a2 /\ y[j * k + (h + m)].v = a1 - a2
        BY <1>1
      <4>2. b1[m] = a1 /\ b2[m] = a2
        BY <3>2
      <4>3. low[m] = y[j * k + m].v /\ high[m] = y[j * k + (h + m)].v
        <5> HIDE DEF k
        <5> QED
          BY <3>1, <3>3
      <4> HIDE DEF a1, a2, k
      <4> QED
        BY <4>1, <4>2, <4>3
    <3> DEFINE t1 == SumBelow(b1, h)
               t2 == SumBelow(b2, h)
    <3>5. t1 \in Int /\ t2 \in Int /\ SumBelow(low, h) = t1 + t2
      <4>1. \A m \in 0 .. h - 1 : b1[m] \in Int /\ b2[m] \in Int /\ low[m] = b1[m] + b2[m]
        BY <3>4
      <4> QED
        BY <2>2, <4>1, BelowPlus
    <3>6. SumBelow(high, h) = 1 * t1 + (-1) * t2
      <4> DEFINE p1 == 1
                 p2 == -1
      <4>1. p1 \in Int /\ p2 \in Int
        OBVIOUS
      <4>2. \A m \in 0 .. h - 1 : b1[m] \in Int /\ b2[m] \in Int /\ high[m] = p1 * b1[m] + p2 * b2[m]
        BY <3>4
      <4> HIDE DEF p1, p2
      <4>3. AreCombined(high, p1, b1, p2, b2, h)
        BY <4>2 DEF AreCombined
      <4>4. SumBelow(high, h) = p1 * t1 + p2 * t2
        BY <2>2, <4>1, <4>3, BelowLinear
      <4> QED
        BY <4>4 DEF p1, p2
    <3>7. SumBelow(b, h + h) = SumBelow(b, h) + SumBelow(high, h)
      <4>1. \A r \in 0 .. k - 1 : b[r] \in Int
        <5> SUFFICES ASSUME NEW r \in 0 .. k - 1 PROVE b[r] \in Int
          OBVIOUS
        <5>1. CASE r < h
          <6>1. r \in 0 .. h - 1
            BY <5>1
          <6>2. low[r] = b[r] /\ b1[r] \in Int /\ b2[r] \in Int /\ low[r] = b1[r] + b2[r]
            BY <3>3, <3>4, <6>1
          <6> QED
            BY <6>2
        <5>2. CASE ~(r < h)
          <6> DEFINE m == r - h
          <6>1. m \in 0 .. h - 1 /\ h + m = r
            BY <5>2
          <6> HIDE DEF m
          <6>2. high[m] = b[r] /\ b1[m] \in Int /\ b2[m] \in Int /\ high[m] = b1[m] - b2[m]
            BY <3>3, <3>4, <6>1
          <6> QED
            BY <6>2
        <5> QED
          BY <5>1, <5>2
      <4>2. (h + h) - 1 = k - 1
        OBVIOUS
      <4>3. \A r \in 0 .. (h + h) - 1 : b[r] \in Int
        BY <4>1, <4>2
      <4>4. \A m \in 0 .. h - 1 : high[m] = b[h + m]
        BY <3>3
      <4> QED
        BY <2>2, <4>3, <4>4, BelowAppend
    <3>8. SumBelow(low, h) = SumBelow(b, h)
      <4>1. \A m \in 0 .. h - 1 : low[m] = b[m]
        BY <3>3
      <4> QED
        BY <2>2, <4>1, BelowSame
    <3>9. t1 = h * g[j * k]
      <4>1. SumBelow(Block(X, 2 * j, h), h) = h * g[(2 * j) * h]
        BY <1>2, <2>2
      <4> QED
        BY <2>3, <4>1 DEF b1
    <3>10. k = h + h /\ k = 2 * h
      OBVIOUS
    <3> DEFINE a == g[j * k]
               s == SumBelow(b, k)
    <3>11. a \in Int
      <4>1. 0 \in 0 .. k - 1 /\ j * k + 0 = j * k
        BY <2>3
      <4>2. j * k \in 0 .. size - 1
        BY <2>4, <4>1
      <4> QED
        BY <4>2
    <3>12. s = (t1 + t2) + (1 * t1 + (-1) * t2)
      <4> HIDE DEF k
      <4> QED
        BY <3>5, <3>6, <3>7, <3>8, <3>10
    <3> HIDE DEF t1, t2, a, s, k
    <3>13. s = 2 * t1
      BY <3>5, <3>12
    <3>14. t1 = h * a /\ k = 2 * h
      BY <3>9, <3>10 DEF a
    <3>15. 2 * (h * a) = (2 * h) * a
      BY <3>11
    <3> QED
      BY <3>13, <3>14, <3>15 DEF s, a, b
  <2> QED
    BY <2>5, <2>6
<1> QED
  BY <1>1, <1>4 DEF IsTransform, y, Y

LEMMA FftLoop ==
  ASSUME NEW k \in Nat, NEW cs, NEW S, bitReverse(cs, k) \in S[0],
         \A i \in 1 .. k : \A x \in S[i - 1] : Butterflies(x, Pow2[i]) \in S[i]
  PROVE  fft(cs, k) \in S[k]
<1> DEFINE first == bitReverse(cs, k)
           Body(f) == [i \in 0 .. k |-> IF i = 0 THEN first ELSE Butterflies(f[i - 1], Pow2[i])]
           F == CHOOSE f : f = Body(f)
           prev == [i \in 1 .. k |-> i - 1]
           step == [i \in 1 .. k |-> [x \in S[i - 1] |-> Butterflies(x, Pow2[i])]]
<1>1. fft(cs, k) = F[k]
  BY Zenon DEF fft
<1>2. /\ \A i \in 1 .. k : i - 1 \in 0 .. k /\ i # 0 /\ i \in 0 .. k /\ i - 1 \in 0 .. i - 1 /\ prev[i] = i - 1
      /\ \A i \in 0 .. k : i = 0 \/ i \in 1 .. k
      /\ 0 \in 0 .. k
  OBVIOUS
<1>3. \A i \in 1 .. k : \A x \in S[i - 1] : step[i][x] = Butterflies(x, Pow2[i])
  OBVIOUS
<1> HIDE DEF step, prev, first
<1>4. PICK f : IsRecursive(f, S, k, first, prev, step)
  <2>1. \A i \in 1 .. k : prev[i] \in 0 .. i - 1 /\ \A x \in S[prev[i]] : step[i][x] \in S[i]
    BY <1>2, <1>3
  <2>2. first \in S[0]
    BY DEF first
  <2> QED
    BY <2>1, <2>2, FromEarlier
<1>5. /\ f = [i \in 0 .. k |-> f[i]] /\ f[0] = first /\ \A i \in 0 .. k : f[i] \in S[i]
      /\ \A i \in 1 .. k : f[i] = step[i][f[prev[i]]]
  BY <1>4 DEF IsRecursive
<1>6. \A i \in 1 .. k : f[i] = Butterflies(f[i - 1], Pow2[i])
  <2>1. \A i \in 1 .. k : f[i] = step[i][f[i - 1]] /\ f[i - 1] \in S[i - 1]
    BY <1>2, <1>5
  <2> QED
    BY <1>3, <2>1
<1>7. f = Body(f)
  <2>1. f = [i \in 0 .. k |-> IF i = 0 THEN first ELSE Butterflies(f[i - 1], Pow2[i])]
    BY <1>2, <1>5, <1>6
  <2> QED
    BY <2>1, Zenon
<1>8. F = Body(F)
  <2> HIDE DEF Body
  <2> QED
    BY <1>7, Zenon
<1> HIDE DEF F
<1>9. F[0] = first /\ \A i \in 1 .. k : F[i] = Butterflies(F[i - 1], Pow2[i])
  <2>1. F = [i \in 0 .. k |-> IF i = 0 THEN first ELSE Butterflies(F[i - 1], Pow2[i])]
    BY <1>8, Zenon
  <2> HIDE DEF Body
  <2>2. \A i \in 0 .. k : F[i] = IF i = 0 THEN first ELSE Butterflies(F[i - 1], Pow2[i])
    BY <2>1, Zenon
  <2>3. F[0] = first
    BY <1>2, <2>2, Zenon
  <2>4. \A i \in 1 .. k : F[i] = Butterflies(F[i - 1], Pow2[i])
    BY <1>2, <2>2, Zenon
  <2> QED
    BY <2>3, <2>4
<1> DEFINE T == {i \in 0 .. k : F[i] \in S[i]}
<1>10. 0 \in T
  <2>1. first \in S[0]
    BY DEF first
  <2> QED
    BY <1>2, <1>9, <2>1
<1>11. ASSUME NEW i \in 0 .. k - 1, i \in T PROVE i + 1 \in T
  <2> DEFINE m == i + 1
  <2>1. m \in 1 .. k /\ m - 1 = i /\ m \in 0 .. k
    OBVIOUS
  <2> HIDE DEF m
  <2>2. F[m] = Butterflies(F[m - 1], Pow2[m]) /\ F[m - 1] \in S[m - 1]
    BY <1>9, <1>11, <2>1
  <2>3. m \in T
    BY <2>1, <2>2
  <2> QED
    BY <2>3 DEF m
<1> HIDE DEF T
<1>12. \A i \in 0 .. k - 1 : i \in T => i + 1 \in T
  BY <1>11
<1>13. \A i \in 0 .. k : i \in T
  BY <1>10, <1>12, InductionUpTo
<1>14. k \in 0 .. k
  OBVIOUS
<1> QED
  BY <1>1, <1>13, <1>14 DEF T

LEMMA SmallBlocks ==
  ASSUME NEW w
  PROVE  /\ \A h \in Nat : SumBelow(Block(w, 0, h), h) = SumBelow(w, h)
         /\ \A j \in Nat : w[j] \in Int => SumBelow(Block(w, j, 1), 1) = w[j]
<1>1. ASSUME NEW h \in Nat PROVE SumBelow(Block(w, 0, h), h) = SumBelow(w, h)
  <2> DEFINE b == Block(w, 0, h)
  <2>1. \A i \in 0 .. h - 1 : 0 * h + i = i
    OBVIOUS
  <2>2. \A i \in 0 .. h - 1 : b[i] = w[i]
    BY <2>1 DEF Block
  <2> HIDE DEF b
  <2>3. SumBelow(b, h) = SumBelow(w, h)
    BY <2>2, BelowSame
  <2> QED
    BY <2>3 DEF b
<1>2. ASSUME NEW j \in Nat, w[j] \in Int PROVE SumBelow(Block(w, j, 1), 1) = w[j]
  <2> DEFINE b == Block(w, j, 1)
  <2>1. j * 1 + 0 = j /\ 0 \in 0 .. 1 - 1 /\ 0 + 1 = 1
    OBVIOUS
  <2>2. b[0] = w[j]
    BY <2>1 DEF Block
  <2> HIDE DEF b
  <2>3. SumBelow(b, 0 + 1) = SumBelow(b, 0) + b[0] /\ SumBelow(b, 0) = 0
    BY BelowSteps
  <2>4. SumBelow(b, 1) = w[j]
    BY <1>2, <2>1, <2>2, <2>3
  <2> QED
    BY <2>4 DEF b
<1> QED
  BY <1>1, <1>2

LEMMA BitReverseHas ==
  ASSUME NEW k \in Nat, NEW lev \in Int, NEW w, NEW cs, AreNumbers(cs, w, Pow2[k], lev),
         NEW g, \A i \in 0 .. Pow2[k] - 1 : g[i] = w[Reversed(i, k)]
  PROVE  /\ \A i \in 0 .. Pow2[k] - 1 : g[i] \in Int
         /\ IsTransform(bitReverse(cs, k), Pow2[k], lev, g, 1, Pow2[k])
<1> DEFINE size == Pow2[k]
           x == bitReverse(cs, k)
           X == [i \in 0 .. size - 1 |-> x[i].v]
<1>1. size \in Nat \ {0} /\ AnyOrder(k)
  BY Pow2Facts, AnyOrderHolds
<1>2. \A i \in 0 .. size - 1 : Reversed(i, k) \in 0 .. size - 1
  BY <1>1 DEF AnyOrder
<1>3. x = [i \in 0 .. size - 1 |-> cs[Reversed(i, k)]]
  BY Zenon DEF bitReverse, Reversed
<1>4. \A j \in 0 .. size - 1 : w[j] \in Int /\ Has(cs[j], lev, 1, w[j], TRUE)
  BY DEF AreNumbers
<1> HIDE DEF x
<1>5. \A i \in 0 .. size - 1 : x[i] = cs[Reversed(i, k)] /\ g[i] = w[Reversed(i, k)]
  BY <1>3
<1> HIDE DEF size
<1>6. \A i \in 0 .. size - 1 : g[i] \in Int /\ Has(x[i], lev, 1, g[i], TRUE)
  BY <1>2, <1>4, <1>5
<1>7. \A i \in 0 .. size - 1 : x[i] \in Ciphertext /\ x[i].v = g[i] /\ Has(x[i], lev, 1, x[i].v, TRUE)
  BY <1>6 DEF Has
<1>8. x \in [0 .. size - 1 -> Ciphertext]
  <2>1. \A i \in 0 .. size - 1 : cs[Reversed(i, k)] \in Ciphertext
    BY <1>5, <1>7
  <2> QED
    BY <1>3, <2>1
<1>9. \A i \in 0 .. size - 1 : X[i] = g[i] /\ X[i] \in Int
  BY <1>6, <1>7
<1> HIDE DEF X
<1>10. ASSUME NEW j \in 0 .. size - 1
       PROVE  x[j * 1].v = SumBelow(Block(g, j, 1), 1) /\ SumBelow(Block(X, j, 1), 1) = 1 * g[j * 1]
  <2>1. j \in Nat /\ j * 1 = j
    BY <1>1
  <2>2. SumBelow(Block(g, j, 1), 1) = g[j]
    BY <1>6, <2>1, SmallBlocks
  <2>3. SumBelow(Block(X, j, 1), 1) = X[j]
    BY <1>9, <2>1, SmallBlocks
  <2>4. x[j].v = g[j] /\ X[j] = g[j] /\ g[j] \in Int
    BY <1>6, <1>7, <1>9
  <2> DEFINE a == g[j]
  <2>5. a \in Int /\ 1 * a = a
    BY <2>4
  <2> HIDE DEF a
  <2> QED
    BY <2>1, <2>2, <2>3, <2>4, <2>5 DEF a
<1>11. IsTransform(x, size, lev, g, 1, size)
  BY <1>7, <1>8, <1>10 DEF IsTransform, AllHave, X
<1> QED
  BY <1>6, <1>11 DEF x, size

\* What a transform of any kind keeps: its first word, and all together.
IsSpectrum(y, w, size, lev) ==
  /\ AllHave(y, size, lev) /\ y[0].v = SumBelow(w, size)
  /\ SumBelow([i \in 0 .. size - 1 |-> y[i].v], size) = size * w[0]

LEMMA FftHas ==
  ASSUME NEW k \in Nat, NEW lev \in Int, NEW w, NEW cs, AreNumbers(cs, w, Pow2[k], lev)
  PROVE  IsSpectrum(fft(cs, k), w, Pow2[k], lev)
<1> DEFINE size == Pow2[k]
           g == [i \in 0 .. size - 1 |-> w[Reversed(i, k)]]
           y == fft(cs, k)
           S == [i \in 0 .. k |-> {x \in [0 .. size - 1 -> Ciphertext] :
                                     IsTransform(x, size, lev, g, Pow2[i], Pow2[k - i])}]
<1>1. /\ \A i \in 0 .. size - 1 : g[i] \in Int
      /\ IsTransform(bitReverse(cs, k), size, lev, g, 1, size)
  <2>1. \A i \in 0 .. Pow2[k] - 1 : g[i] = w[Reversed(i, k)]
    OBVIOUS
  <2> HIDE DEF g
  <2> QED
    BY <2>1, BitReverseHas
<1>2. \A i \in 0 .. k : \A x : x \in S[i] <=> x \in [0 .. size - 1 -> Ciphertext]
                                              /\ IsTransform(x, size, lev, g, Pow2[i], Pow2[k - i])
  OBVIOUS
<1>3. \A i \in 0 .. size - 1 : g[i] = w[Reversed(i, k)]
  OBVIOUS
<1>4. size \in Nat \ {0} /\ size \in Nat /\ size = Pow2[k]
  BY Pow2Facts
<1>5. \A j \in 0 .. size - 1 : w[j] \in Int
  BY DEF AreNumbers
<1> HIDE DEF S, g, y, size
<1>6. \A x, h, n : IsTransform(x, size, lev, g, h, n) => x \in [0 .. size - 1 -> Ciphertext]
  BY DEF IsTransform, AllHave
<1>7. bitReverse(cs, k) \in S[0]
  <2>1. k - 0 = k /\ Pow2[0] = 1 /\ 0 \in 0 .. k
    BY Pow2Facts
  <2>2. IsTransform(bitReverse(cs, k), size, lev, g, Pow2[0], Pow2[k - 0])
    BY <1>1, <1>4, <2>1
  <2> QED
    BY <1>2, <1>6, <2>1, <2>2
<1>8. ASSUME NEW i \in 1 .. k, NEW x \in S[i - 1] PROVE Butterflies(x, Pow2[i]) \in S[i]
  <2> DEFINE m == i - 1
             h == Pow2[m]
             n == Pow2[k - i]
  <2>1. m \in Nat /\ i = m + 1 /\ m \in 0 .. k /\ i \in 0 .. k /\ k - i \in Nat /\ k - m = (k - i) + 1
        /\ (m + 1) + (k - i) = k /\ m + 1 \in Nat
    OBVIOUS
  <2>2. h \in Nat \ {0} /\ n \in Nat /\ Pow2[i] = 2 * h /\ Pow2[k - m] = 2 * n
    BY <2>1, Pow2Facts
  <2>3. size = n * (2 * h)
    <3>1. Pow2[(m + 1) + (k - i)] = Pow2[m + 1] * Pow2[k - i]
      BY <2>1, Pow2Sum
    <3>2. (2 * h) * n = n * (2 * h)
      BY <2>2
    <3> QED
      BY <1>4, <2>1, <2>2, <3>1, <3>2
  <2>4. IsTransform(x, size, lev, g, h, 2 * n)
    BY <1>2, <2>1, <2>2
  <2> HIDE DEF m, h, n
  <2>5. IsTransform(Butterflies(x, 2 * h), size, lev, g, 2 * h, n)
    BY <1>1, <2>2, <2>3, <2>4, NextTransform
  <2> DEFINE z == Butterflies(x, Pow2[i])
  <2>6. IsTransform(z, size, lev, g, Pow2[i], Pow2[k - i])
    BY <2>2, <2>5 DEF n
  <2> HIDE DEF z
  <2>7. z \in S[i]
    BY <1>2, <1>6, <2>1, <2>6
  <2> QED
    BY <2>7 DEF z
<1>9. y \in S[k]
  <2>1. \A i \in 1 .. k : \A x \in S[i - 1] : Butterflies(x, Pow2[i]) \in S[i]
    BY <1>8
  <2> QED
    BY <1>7, <2>1, FftLoop DEF y
<1>10. IsTransform(y, size, lev, g, size, 1)
  <2>1. k \in 0 .. k /\ k - k = 0 /\ Pow2[0] = 1
    BY Pow2Facts
  <2> QED
    BY <1>2, <1>4, <1>9, <2>1
<1> DEFINE Y == [i \in 0 .. size - 1 |-> y[i].v]
<1>11. /\ AllHave(y, size, lev)
       /\ y[0 * size].v = SumBelow(Block(g, 0, size), size)
       /\ SumBelow(Block(Y, 0, size), size) = size * g[0 * size]
  <2>1. 0 \in 0 .. 1 - 1
    OBVIOUS
  <2> QED
    BY <1>10, <2>1 DEF IsTransform
<1> HIDE DEF Y
<1>12. /\ SumBelow(Block(g, 0, size), size) = SumBelow(g, size)
       /\ SumBelow(Block(Y, 0, size), size) = SumBelow(Y, size)
  BY <1>4, SmallBlocks
<1>13. Reversed(0, k) = 0 /\ SumBelow(g, size) = SumBelow(w, size)
  <2>1. AnyOrder(k)
    BY AnyOrderHolds
  <2> QED
    BY <1>3, <1>5, <2>1 DEF AnyOrder, size
<1>14. 0 * size = 0 /\ 0 \in 0 .. size - 1
  BY <1>4
<1>15. g[0] = w[0]
  BY <1>3, <1>13, <1>14
<1> QED
  BY <1>11, <1>12, <1>13, <1>14, <1>15 DEF IsSpectrum, size, y, Y

LEMMA NumbersGiven ==
  ASSUME NEW lev \in 1 .. MaxLevel, NEW n \in 1 .. MaxDegree
  PROVE  /\ n \in Nat \ {0} /\ n \in Nat /\ lev \in Nat \ {0} /\ lev \in Int /\ lev > 0
         /\ 0 \in 0 .. n - 1 /\ MaxDegree - 1 \in 0 .. MaxDegree - 1
         /\ \A i \in 0 .. MaxDegree - 1 : Factors[i] \in Int
         /\ \A i \in 0 .. n - 1 : i \in 0 .. MaxDegree - 1
         /\ \A i \in 0 .. n - 1 : Factors[i] \in Int /\ Has(Inputs(lev)[i], lev, 1, Factors[i], TRUE)
         /\ AreNumbers(Inputs(lev), Factors, n, lev)
<1>1. /\ lev \in Nat \ {0} /\ MaxDegree \in Nat \ {0}
      /\ \A i \in 0 .. MaxDegree - 1 : Factors[i] \in Int /\ Has(Inputs(lev)[i], lev, 1, Factors[i], TRUE)
  BY InputsHave
<1>2. /\ n \in Nat \ {0} /\ n \in Nat /\ lev \in Int /\ lev > 0
      /\ 0 \in 0 .. n - 1 /\ MaxDegree - 1 \in 0 .. MaxDegree - 1
      /\ \A i \in 0 .. n - 1 : i \in 0 .. MaxDegree - 1
  BY <1>1
<1>3. \A i \in 0 .. n - 1 : Factors[i] \in Int /\ Has(Inputs(lev)[i], lev, 1, Factors[i], TRUE)
  BY <1>1, <1>2
<1> QED
  BY <1>1, <1>2, <1>3 DEF AreNumbers

\* The squares of the numbers, as they come out of a multiplication.
LEMMA SquaresHave ==
  ASSUME NEW lev \in Nat \ {0}, NEW a \in Int, NEW x, Has(x, lev, 1, a, TRUE)
  PROVE  /\ multAndEqual(x, x) = [Fresh(a * a, lev) EXCEPT !.e = 2]
         /\ Has(multAndRescale(x, x), lev - 1, 1, a * a, lev > 1)
<1> DEFINE y == multAndEqual(x, x)
           z == multAndRescale(x, x)
           b == a * a
<1>1. x \in Ciphertext /\ x.l = lev /\ x.e = 1 /\ x.v = a /\ x.err = "none"
  BY DEF Has
<1>2. Has(y, x.l, x.e + x.e, x.v * x.v, x.err = "none" /\ x.err = "none" /\ x.l = x.l /\ x.l # 0)
  BY <1>1, MultHas
<1>3. Has(z, x.l - 1, (x.e + x.e) - 1, x.v * x.v, x.err = "none" /\ x.err = "none" /\ x.l = x.l /\ x.l > 1)
  BY <1>1, MultAndRescaleHas
<1>4. x.v * x.v = b /\ x.e + x.e = 2 /\ (x.e + x.e) - 1 = 1 /\ x.l # 0
  BY <1>1
<1> HIDE DEF y, z, b
<1>5. y \in Ciphertext /\ y.l = lev /\ y.e = 2 /\ y.v = b /\ y.err = "none"
  BY <1>1, <1>2, <1>4 DEF Has
<1>6. y = [l |-> lev, e |-> 2, v |-> b, err |-> "none"]
  <2>1. y = [l |-> y.l, e |-> y.e, v |-> y.v, err |-> y.err]
    BY <1>5, HasFacts
  <2> QED
    BY <1>5, <2>1
<1>7. y = [Fresh(b, lev) EXCEPT !.e = 2]
  BY <1>6 DEF Fresh
<1>8. Has(z, lev - 1, 1, b, lev > 1)
  BY <1>1, <1>3, <1>4 DEF Has
<1> QED
  BY <1>7, <1>8 DEF y, z, b

\* Every function that takes several numbers takes each of them as often as it
\* should: for all numbers, lengths and levels.
THEOREM EachAlways == AlgoSpec => []EachIsTakenOnce
<1>1. CallIsAnswered => EachIsTakenOnce
  <2> SUFFICES ASSUME CallIsAnswered PROVE EachIsTakenOnce
    OBVIOUS
  <2>1. CASE Called("none")
    BY <2>1 DEF EachIsTakenOnce, Called
  <2>2. CASE Answered
    <3> DEFINE lev == call.l
               n == call.n
               cs == Inputs(lev)
    <3>1. lev \in 1 .. MaxLevel /\ n \in 1 .. MaxDegree
      BY <2>2 DEF Answered
    <3>2. /\ n \in Nat \ {0} /\ n \in Nat /\ lev \in Nat \ {0} /\ lev \in Int /\ lev > 0
          /\ 0 \in 0 .. n - 1 /\ MaxDegree - 1 \in 0 .. MaxDegree - 1
          /\ \A i \in 0 .. MaxDegree - 1 : Factors[i] \in Int
          /\ \A i \in 0 .. n - 1 : i \in 0 .. MaxDegree - 1
      <4> HIDE DEF lev, n
      <4> QED
        BY <3>1, NumbersGiven
    <3>3. /\ \A i \in 0 .. n - 1 : Factors[i] \in Int /\ Has(cs[i], lev, 1, Factors[i], TRUE)
          /\ AreNumbers(cs, Factors, n, lev)
      <4> HIDE DEF lev, n
      <4> QED
        BY <3>1, NumbersGiven
    <3>4. \A x, val : \A dep \in Nat : Has(x, lev - dep, 1, val, lev > dep) => Correct(x, val, dep)
      <4>1. call.l \in Nat
        BY <3>2
      <4> QED
        BY <4>1, HasIsCorrect
    <3>5. ASSUME Called("prod")
          PROVE  Correct(res[1], ProductBelow(Factors, n), ProductDepth(n))
      <4> DEFINE y == prod(cs, n)
      <4>1. res = <<y>>
        BY <2>2, <3>5 DEF Answered
      <4> HIDE DEF lev, n, cs
      <4>2. ProductDepth(n) \in Nat /\ Has(y, lev - ProductDepth(n), 1, ProductBelow(Factors, n), lev > ProductDepth(n))
        BY <3>2, <3>3, ProdHas, ProductDepthIsDepth
      <4> HIDE DEF y
      <4> QED
        BY <3>4, <4>1, <4>2
    <3>6. ASSUME Called("innerProd")
          PROVE  Correct(res[1], SumBelow([i \in 0 .. MaxDegree - 1 |-> Factors[i] * Factors[i]], n), 1)
      <4> DEFINE y == innerProd(cs, cs, n)
                 sq == [i \in 0 .. MaxDegree - 1 |-> Factors[i] * Factors[i]]
                 w == Factors
      <4>1. res = <<y>>
        BY <2>2, <3>6 DEF Answered
      <4>2. \A i \in 0 .. MaxDegree - 1 : sq[i] = Factors[i] * Factors[i]
        OBVIOUS
      <4> HIDE DEF lev, n, cs, sq
      <4>3. \A i \in 0 .. n - 1 : w[i] \in Int /\ Has(cs[i], lev, 1, w[i], TRUE) /\ sq[i] = w[i] * w[i]
        BY <3>2, <3>3, <4>2
      <4> HIDE DEF w
      <4>4. Has(y, lev - 1, 1, SumBelow(sq, n), lev > 1)
        BY <3>2, <4>3, InnerProdHas
      <4> HIDE DEF y
      <4>5. 1 \in Nat
        OBVIOUS
      <4> QED
        BY <3>4, <4>1, <4>4, <4>5 DEF sq
    <3>7. ASSUME Called("sum")
          PROVE  Correct(res[1], SumBelow(Factors, n), 0)
      <4> DEFINE y == sum(cs, n)
      <4>1. res = <<y>>
        BY <2>2, <3>7 DEF Answered
      <4> HIDE DEF lev, n, cs
      <4>2. Has(y, lev, 1, SumBelow(Factors, n), TRUE)
        BY <3>2, <3>3, SumHas
      <4> HIDE DEF y
      <4>3. 0 \in Nat /\ lev - 0 = lev /\ (lev > 0 <=> TRUE)
        BY <3>2
      <4>4. Has(y, lev - 0, 1, SumBelow(Factors, n), lev > 0)
        BY <4>2, <4>3 DEF Has
      <4> QED
        BY <3>4, <4>1, <4>3, <4>4
    <3>8. ASSUME Called("distance")
          PROVE  Correct(res[1], Pow2[n] * (Number - Factors[MaxDegree - 1]) * (Number - Factors[MaxDegree - 1]), 1)
      <4> DEFINE a == Factors[MaxDegree - 1]
                 x1 == Input(lev)
                 x2 == Fresh(a, lev)
                 y == distance(x1, x2, n)
                 t == Pow2[n] * (Number - a) * (Number - a)
      <4>1. res = <<y>>
        BY <2>2, <3>8 DEF Answered
      <4>2. a \in Int
        BY <3>2
      <4> HIDE DEF lev, n, a
      <4>3. Number \in Int /\ Has(x1, lev, 1, Number, TRUE)
        BY <3>1, InputsHave
      <4>4. Has(x2, lev, 1, a, TRUE)
        BY <3>2, <4>2, FreshHas
      <4> HIDE DEF x1, x2
      <4>5. Has(y, lev - 1, 1, t, lev > 1)
        BY <3>2, <4>2, <4>3, <4>4, DistanceHas
      <4> HIDE DEF y, t
      <4>6. 1 \in Nat
        OBVIOUS
      <4> QED
        BY <3>4, <4>1, <4>5, <4>6 DEF t, a
    <3>9. ASSUME Called("multVec"), NEW i \in 1 .. n
          PROVE  res[i] = [Fresh(Factors[i - 1] * Factors[i - 1], lev) EXCEPT !.e = 2]
      <4>1. res = Vector(n, multVec(cs, cs, n))
        BY <2>2, <3>9 DEF Answered
      <4> HIDE DEF lev, n, cs
      <4>2. i - 1 \in 0 .. n - 1
        BY <3>2
      <4>3. res[i] = multAndEqual(cs[i - 1], cs[i - 1])
        BY <4>1, <4>2 DEF Vector, multVec
      <4> DEFINE a == Factors[i - 1]
                 x == cs[i - 1]
      <4>4. a \in Int /\ Has(x, lev, 1, a, TRUE)
        BY <3>3, <4>2
      <4> HIDE DEF a, x
      <4>5. multAndEqual(x, x) = [Fresh(a * a, lev) EXCEPT !.e = 2]
        BY <3>2, <4>4, SquaresHave
      <4> QED
        BY <4>3, <4>5 DEF a, x
    <3>10. ASSUME Called("multAndModSwitchVec"), NEW i \in 1 .. n
           PROVE  Correct(res[i], Factors[i - 1] * Factors[i - 1], 1)
      <4>1. res = Vector(n, multAndModSwitchVec(cs, cs, n))
        BY <2>2, <3>10 DEF Answered
      <4> HIDE DEF lev, n, cs
      <4>2. i - 1 \in 0 .. n - 1
        BY <3>2
      <4>3. res[i] = multAndRescale(cs[i - 1], cs[i - 1])
        BY <4>1, <4>2 DEF Vector, multAndModSwitchVec
      <4> DEFINE a == Factors[i - 1]
                 x == cs[i - 1]
                 y == multAndRescale(x, x)
                 b == a * a
      <4>4. a \in Int /\ Has(x, lev, 1, a, TRUE)
        BY <3>3, <4>2
      <4>5. res[i] = y
        BY <4>3
      <4> HIDE DEF a, x
      <4>6. Has(y, lev - 1, 1, b, lev > 1)
        BY <3>2, <4>4, SquaresHave
      <4>7. 1 \in Nat
        OBVIOUS
      <4> HIDE DEF y, b
      <4>8. Correct(y, b, 1)
        BY <3>4, <4>6, <4>7
      <4> QED
        BY <4>5, <4>8 DEF b, a
    <3>11. ASSUME Called("fft") \/ Called("fftInv")
           PROVE  /\ Correct(res[1], SumBelow(Factors, n), 0)
                  /\ SumBelow([i \in 0 .. n - 1 |-> res[i + 1].v], n) = n * Factors[0]
                  /\ \A i \in 1 .. n : res[i] = Fresh(res[i].v, lev)
      <4> DEFINE k == Log2(n)
                 y == fft(cs, k)
                 w == Factors
      <4>1. n = Pow2[k] /\ res = Vector(n, y)
        BY <2>2, <3>11 DEF Answered
      <4> HIDE DEF lev, n, cs
      <4>2. k \in Nat
        BY <3>2, Log2Facts
      <4> HIDE DEF k
      <4>3. AreNumbers(cs, w, Pow2[k], lev)
        BY <3>3, <4>1
      <4>4. IsSpectrum(y, w, Pow2[k], lev)
        <5> HIDE DEF w
        <5> QED
          BY <3>2, <4>2, <4>3, FftHas
      <4> HIDE DEF y, w
      <4>5. /\ AllHave(y, n, lev) /\ y[0].v = SumBelow(w, n)
            /\ SumBelow([i \in 0 .. n - 1 |-> y[i].v], n) = n * w[0]
        BY <4>1, <4>4, Zenon DEF IsSpectrum
      <4>6. \A i \in 0 .. n - 1 : Has(y[i], lev, 1, y[i].v, TRUE)
        BY <4>5 DEF AllHave
      <4>7. /\ \A i \in 1 .. n : i - 1 \in 0 .. n - 1
            /\ \A i \in 0 .. n - 1 : i + 1 \in 1 .. n /\ (i + 1) - 1 = i
            /\ 1 \in 1 .. n /\ 1 - 1 = 0
        BY <3>2
      <4>8. \A i \in 1 .. n : res[i] = y[i - 1]
        BY <4>1 DEF Vector
      <4>9. \A i \in 1 .. n : res[i] = Fresh(res[i].v, lev)
        <5> SUFFICES ASSUME NEW i \in 1 .. n PROVE res[i] = Fresh(res[i].v, lev)
          OBVIOUS
        <5> DEFINE z == y[i - 1]
        <5>1. Has(z, lev, 1, z.v, TRUE) /\ res[i] = z
          BY <4>6, <4>7, <4>8
        <5> HIDE DEF z
        <5>2. z \in Ciphertext /\ z.l = lev /\ z.e = 1 /\ z.err = "none"
          BY <5>1 DEF Has
        <5>3. z = [l |-> z.l, e |-> z.e, v |-> z.v, err |-> z.err]
          BY <5>2, HasFacts
        <5>4. z = Fresh(z.v, lev)
          BY <5>2, <5>3 DEF Fresh
        <5> QED
          BY <5>1, <5>4
      <4>10. SumBelow([i \in 0 .. n - 1 |-> res[i + 1].v], n) = n * w[0]
        <5>1. \A i \in 0 .. n - 1 : res[i + 1] = y[i]
          BY <4>7, <4>8
        <5> DEFINE g1 == [i \in 0 .. n - 1 |-> res[i + 1].v]
                   g2 == [i \in 0 .. n - 1 |-> y[i].v]
        <5>2. \A i \in 0 .. n - 1 : g1[i] = g2[i]
          BY <5>1
        <5> HIDE DEF g1, g2
        <5>3. SumBelow(g1, n) = SumBelow(g2, n)
          BY <3>2, <5>2, BelowSame
        <5> QED
          BY <4>5, <5>3 DEF g1, g2
      <4>11. Correct(res[1], SumBelow(w, n), 0)
        <5> DEFINE z == y[0]
                   v == SumBelow(w, n)
        <5>1. res[1] = z
          BY <4>7, <4>8
        <5>2. Has(z, lev, 1, v, TRUE)
          BY <3>2, <4>5, <4>6
        <5> HIDE DEF z, v
        <5>3. 0 \in Nat /\ lev - 0 = lev /\ (lev > 0 <=> TRUE)
          BY <3>2
        <5>4. Has(z, lev - 0, 1, v, lev > 0)
          BY <5>2, <5>3 DEF Has
        <5>5. Correct(z, v, 0)
          BY <3>4, <5>3, <5>4
        <5> QED
          BY <5>1, <5>5 DEF v
      <4> QED
        BY <4>9, <4>10, <4>11 DEF w
    <3>12. ProductDepth(call.n) = IF call.n = Pow2[Log2(call.n)] THEN Log2(call.n) ELSE Log2(call.n) + 1
      BY Zenon DEF ProductDepth
    <3> QED
      BY <3>5, <3>6, <3>7, <3>8, <3>9, <3>10, <3>11, <3>12, Zenon DEF EachIsTakenOnce
  <2> QED
    BY <2>1, <2>2 DEF CallIsAnswered
<1> QED
  BY <1>1, AnsweredAlways, PTL
===============================================================================
