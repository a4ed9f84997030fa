---------------------------------- MODULE Ntt ----------------------------------
(***************************************************************************)
(* One residue polynomial of src/src/Context.cpp: N words modulo a prime q *)
(* that stand for an element of Z_q[X]/(X^N + 1), either by coefficients   *)
(* or by values at the odd powers of the root of unity psi.  The NTT, in   *)
(* every variant and as a direct or as a four-step transform, and the      *)
(* inverse NTT (qiINTTAndEqual) are modelled layer by layer on machine     *)
(* words; none of them reduces its results fully: words are up to q after  *)
(* the NTT, below 2 * q between the layers of the inverse, and a raised    *)
(* polynomial even enters the NTT as a sum that one Barrett step could not *)
(* reduce.  In value form a polynomial is added, multiplied, rotated       *)
(* (leftRotAndEqual) and conjugated; leftRot works on coefficients.        *)
(***************************************************************************)
EXTENDS NttLayers

CONSTANTS
  Variant, \* the variants of the NTT there are to choose from
  Inputs,  \* the arrays given to the NTT
  OperandPoly, \* the second operand of additions and multiplications, modulo q
  Operand, \* its values, or q for a value 0
  Consts,  \* the constants that are added and multiplied with
  MaxOps   \* bound: operations on one polynomial after its first NTT

\* The values of a polynomial, in the order of the words.
Value(p, n) ==
  SumBelow([k \in Index |-> p[k] * power[(k * (2 * bitReverse(n, LogN) + 1)) % M]], N) % q

ASSUME NttAssumption ==
  /\ Variant \subseteq Variants /\ MaxOps \in Nat
  /\ Inputs \subseteq [Index -> 0 .. R - q - 1]
  /\ OperandPoly \in [Index -> 0 .. q - 1] /\ Operand \in [Index -> 0 .. q]
  /\ \A n \in Index : Operand[n] % q = Value(OperandPoly, n)
  /\ Consts \subseteq Nat /\ \A c \in Consts, s \in Inputs, k \in Index : s[k] + c < R

VARIABLES
  a,     \* the words
  form,  \* "coef", "value", or in between: "ntt", "cols", "rows", "intt"
  alg,   \* the variant of the NTT that is running
  len,   \* the length of the rows the NTT is on
  m,     \* the loop variable of the layers: how many blocks there are
  ops,   \* how many operations there have been
  poly,  \* history: the coefficients modulo q of the element a stands for
  imulted \* history: mulByMonomial has been called

vars == <<a, form, alg, len, m, ops, poly, imulted>>

Init == /\ a \in Inputs
        /\ form = "coef" /\ alg = "bar" /\ len = N /\ m = 1 /\ ops = 0
        /\ poly = [k \in Index |-> a[k] % q]
        /\ imulted = FALSE

-------------------------------------------------------------------------------
(* Forward *)

BeginNTT(al) == /\ form = "coef" /\ FitsVector(al, N)
                /\ form' = "ntt" /\ alg' = al /\ len' = N /\ m' = 1
                /\ UNCHANGED <<a, ops, poly, imulted>>

\* The matrix s of c columns, transposed; its words fill rows of r.
Transposed(s, r, c) == [k \in Index |-> s[(k % r) * c + k \div r]]

\* The four-step NTT is an NTT of every column, then of every row.
BeginStep4(al) == /\ form = "coef" /\ FitsVector(al, N1)
                  /\ a' = Transposed(a, N1, N2)
                  /\ form' = "cols" /\ alg' = al /\ len' = N1 /\ m' = 1
                  /\ UNCHANGED <<ops, poly, imulted>>

\* Between them, back by the other transposition and times Wmatrix.
Step4Rows ==
  /\ form = "cols" /\ m = N1
  /\ LET s == Transposed(a, N2, N1)
     IN  a' = RowsTimes(s, alg, N2)
  /\ form' = "rows" /\ len' = N2 /\ m' = 1
  /\ UNCHANGED <<alg, ops, poly, imulted>>

NTTLayer == /\ form \in {"ntt", "cols", "rows"} /\ m < len
            /\ a' = LayerOf(a, alg, len, m)
            /\ IF 2 * m = len /\ form # "cols"
               THEN form' = "value" /\ alg' = "bar" /\ len' = N /\ m' = N
               ELSE m' = 2 * m /\ UNCHANGED <<form, alg, len>>
            /\ UNCHANGED <<ops, poly, imulted>>

(* Inverse: butterflies of Gentleman and Sande, words below 2 * q *)

LateWrap(s) == IF s > 2 * q THEN s - 2 * q ELSE s
WrapSum(s) == IF s >= 2 * q THEN s - 2 * q ELSE s

InverseLayerOf(s, t) ==
  [k \in Index |-> LET i == k \div (2 * t)
                   IN  IF k % (2 * t) < t
                       THEN WrapSum((s[k] + s[k + t]) % R)
                       ELSE redcLazy((s[k - t] + 2 * q - s[k]) % R, Scaled(RootPowsInv[m \div 2 + i]))]

\* A raised polynomial is multiplied by a key, and so reduced, before it gets
\* here.
BeginINTT == /\ form = "value" /\ ops < MaxOps
             /\ \A k \in Index : a[k] <= q
             /\ form' = "intt" /\ m' = N
             /\ ops' = ops + 1
             /\ UNCHANGED <<a, alg, len, poly, imulted>>

INTTLayer == /\ form = "intt" /\ m > 1
             /\ a' = InverseLayerOf(a, N \div m)
             /\ m' = m \div 2
             /\ UNCHANGED <<form, alg, len, ops, poly, imulted>>

\* The loop after the layers, by N^-1.
BelowQ(x) == IF x < q THEN x ELSE x - q
INTTScale == /\ form = "intt" /\ m = 1
             /\ a' = [k \in Index |-> redc(BelowQ(a[k]), NScaleInv)]
             /\ form' = "coef"
             /\ UNCHANGED <<alg, len, m, ops, poly, imulted>>

-------------------------------------------------------------------------------
(* Operations on polynomials *)

\* p(X^g), in Z_q[X]/(X^N + 1).
Automorphism(p, g) ==
  [k \in Index |-> LET j == CHOOSE j \in Index : (j * g) % N = k
                   IN  IF (j * g) % M = k THEN p[j] ELSE (q - p[j]) % q]

\* Where leftRotAndEqual finds the value number n of the rotated polynomial.
SourceKept(n, r) == bitReverse((rotGroup[r % (N \div 2)] * bitReverse(n, LogN)) % N, LogN)
Source(n, r) ==
  bitReverse((((rotGroup[r % (N \div 2)] * (2 * bitReverse(n, LogN) + 1)) % M) - 1) \div 2, LogN)

On(f) == form = f /\ ops < MaxOps /\ ops' = ops + 1 /\ UNCHANGED <<form, alg, len, m>>

leftRotAndEqual(r) == /\ On("value")
                      /\ a' = [n \in Index |-> a[Source(n, r)]]
                      /\ poly' = Automorphism(poly, rotGroup[r % (N \div 2)])
                      /\ UNCHANGED imulted

\* The loop of leftRot, after its inverse NTT and before its NTT.
LeftRotShift(r) ==
  /\ On("coef") /\ \A k \in Index : a[k] < q
  /\ a' = [k \in Index |-> LET n == CHOOSE n \in Index : (n * rotGroup[r]) % N = k
                           IN  IF (n * rotGroup[r]) % M < N THEN a[n] ELSE q - a[n]]
  /\ poly' = Automorphism(poly, rotGroup[r])
  /\ UNCHANGED imulted

conjugate == /\ On("value")
             /\ a' = [n \in Index |-> a[N - 1 - n]]
             /\ poly' = Automorphism(poly, M - 1)
             /\ UNCHANGED imulted

\* Swapping every word with its mirror image, twice.
conjugateAndEqual == On("value") /\ UNCHANGED <<a, poly, imulted>>

qiAdd == /\ On("value")
         /\ a' = [n \in Index |-> (a[n] + Operand[n]) % q]
         /\ poly' = [k \in Index |-> (poly[k] + OperandPoly[k]) % q]
         /\ UNCHANGED imulted

qiNegate == /\ On("value") /\ \A k \in Index : a[k] <= q
            /\ a' = [n \in Index |-> IF a[n] = 0 THEN 0 ELSE q - a[n]]
            /\ poly' = [k \in Index |-> (q - poly[k]) % q]
            /\ UNCHANGED imulted

\* The product in the ring: X^N = -1.
Times(p, r) == [k \in Index |->
  SumBelow([j \in Index |-> IF j <= k THEN p[j] * r[k - j] ELSE p[j] * (q - r[N + k - j])], N) % q]
qiMul == /\ On("value")
         /\ a' = [n \in Index |-> mulModBarrett(a[n], Operand[n])]
         /\ poly' = Times(poly, OperandPoly)
         /\ UNCHANGED imulted

qiSquare == /\ On("value")
            /\ a' = [n \in Index |-> mulModBarrett(a[n], a[n])]
            /\ poly' = Times(poly, poly)
            /\ UNCHANGED imulted

(* A constant c, which may be far above q, added to, taken from and multiplied with every value *)

addMod(x, c) == (x + c) % q
subModUnreduced(x, c) == ((x + q - c) % R) % q
subMod(x, c) == LET r == c % q IN (x + q - r) % q

qiAddConst(c) == /\ On("value")
                 /\ a' = [n \in Index |-> addMod(a[n], c)]
                 /\ poly' = [poly EXCEPT ![0] = (@ + c) % q]
                 /\ UNCHANGED imulted

qiSubConst(c) == /\ On("value")
                 /\ a' = [n \in Index |-> subMod(a[n], c)]
                 /\ poly' = [poly EXCEPT ![0] = (@ - c) % q]
                 /\ UNCHANGED imulted

qiMulConst(c) == /\ On("value")
                 /\ a' = [n \in Index |-> mulModBarrett(a[n], c)]
                 /\ poly' = [k \in Index |-> (poly[k] * c) % q]
                 /\ UNCHANGED imulted

\* imult multiplies by the monomial X^(N / 2), the square root of -1.
mulByMonomial == /\ On("value")
                 /\ a' = [n \in Index |-> mulModBarrett(a[n], RootPows[N][n])]
                 /\ poly' = Times(poly, [k \in Index |-> IF k = N \div 2 THEN 1 ELSE 0])
                 /\ imulted' = TRUE

Next == \/ \E al \in Variant : BeginNTT(al) \/ BeginStep4(al)
        \/ Step4Rows \/ NTTLayer \/ BeginINTT \/ INTTLayer \/ INTTScale
        \/ \E r \in 0 .. N \div 2 - 1 : leftRotAndEqual(r) \/ LeftRotShift(r)
        \/ conjugate \/ conjugateAndEqual \/ qiAdd \/ qiNegate \/ qiMul \/ qiSquare \/ mulByMonomial
        \/ \E c \in Consts : qiAddConst(c) \/ qiSubConst(c) \/ qiMulConst(c)

Spec == Init /\ [][Next]_vars

-------------------------------------------------------------------------------
(* Properties *)

\* Rows of len words, with b blocks each: block i of a row x is the polynomial
\* of that row modulo X^(len / b) - z, where z is the power of psi to N / b times
\* an odd number.  For b = 1 these are the coefficients, for b = len the values at
\* the odd powers of a root of order 2 * len, in bit-reversed order.
Remainder(x, length, b) ==
  [k \in Index |->
     LET w == length \div b
         i == k % length
         z == (N \div b) * (2 * bitReverse(i \div w, LogOf(b)) + 1)
     IN  SumBelow([j \in 0 .. b - 1 |-> x[(k - i) + (i % w) + j * w] * power[(z * j) % M]], b) % q]

\* What the columns of the four-step NTT start from, and then its rows.
Columns == Transposed(poly, N1, N2)
Rows == LET s == Transposed(Remainder(Columns, N1, N1), N2, N1)
        IN  [k \in Index |-> (s[k] * Wmatrix[k]) % q]

\* Through every layer of every direct and every four-step NTT and of the inverse,
\* and through every operation in either form, the words stand for the
\* polynomial they should: no variant's schedule missed a butterfly, whatever
\* was left unreduced never overflowed a word, and no sign was lost.  During the
\* inverse they are the multiple by N / m of it.
StandsFor ==
  LET x == CASE form = "coef"  -> poly
             [] form = "ntt"   -> Remainder(poly, N, m)
             [] form = "cols"  -> Remainder(Columns, N1, m)
             [] form = "rows"  -> Remainder(Rows, N2, m)
             [] form = "value" -> Remainder(poly, N, N)
             [] form = "intt"  -> Remainder(poly, N, m)
      c == IF form = "intt" THEN N \div m ELSE 1
  IN  ~imulted => \A k \in Index : (c * x[k] - a[k]) % q = 0

\* How far from reduced the words are: at most q after the NTT, unless they
\* were larger when they entered it, when they are no larger now; below 2 * q
\* in the inverse; below q after it, or q where leftRot negated a zero.
Largest == Max({q} \cup {s[k] : s \in Inputs, k \in Index})
WordsAreSmall ==
  /\ form # "intt" => \A k \in Index : a[k] <= Largest
  /\ form = "intt" => \A k \in Index : a[k] < 2 * q
  /\ form = "coef" /\ ops > 0 => \A k \in Index : a[k] <= q

\* The words of a reduced array never leave 0 .. q: the NTT hands the inverse,
\* and every comparison with zero or q, what they expect.
ReducedStaysReduced ==
  [][(\A k \in Index : a[k] <= q) /\ "intt" \notin {form, form'}
       => \A k \in Index : a'[k] <= q]_vars

\* The direct and the four-step NTT turn coefficients into values, as
\* test_case.cpp compares every variant with the scalar one.
TransformIsNTT ==
  form = "value" /\ ops = 0 => \A n \in Index : (Value(poly, n) - a[n]) % q = 0

\* imult multiplies by i, as testimultBatch compares it with imvec.
ImultIsTimesI == form = "value" => \A n \in Index : (Value(poly, n) - a[n]) % q = 0
===============================================================================
