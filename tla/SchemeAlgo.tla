------------------------------ MODULE SchemeAlgo ------------------------------
(***************************************************************************)
(* src/src/SchemeAlgo.cpp: powers, products and Taylor series of encrypted *)
(* numbers, built from the operations of src/src/Scheme.cpp.               *)
(*                                                                         *)
(* Of a ciphertext the model keeps what these algorithms have to get right *)
(* by themselves: l, the number of residue polynomials in its buffers; e,  *)
(* the power of the scale p its plaintext carries; v, the plaintext, as an *)
(* integer; and err, the first thing that went wrong.  The operations of   *)
(* Scheme check almost nothing: multiplying ciphertexts of different       *)
(* levels reads or writes past the end of a buffer, adding a constant at   *)
(* the wrong scale adds next to nothing.                                   *)
(***************************************************************************)
EXTENDS Numbers, Sequences, FiniteSets

CONSTANTS
  MaxLevel,  \* bound: the levels a ciphertext may be encrypted at are 1 .. MaxLevel
  MaxDegree, \* bound: the degree of a power, product or series
  MaxSteps,  \* bound: the steps of an inverse, the log2 of the slots of a distance
  Number,    \* the encrypted number
  Coeffs,    \* context.taylorCoeffsMap: coeffs[i] of a series is Coeffs[name][i]
  Factors    \* the numbers whose product is computed

ASSUME SchemeAlgoParameters ==
  /\ MaxLevel \in Nat /\ MaxDegree \in Nat \ {0} /\ MaxSteps \in Nat /\ Number \in Int
  /\ \A f \in DOMAIN Coeffs : Coeffs[f] \in [0 .. MaxDegree -> Int]
  /\ Factors \in [0 .. MaxDegree - 1 -> Int]

VARIABLES
  call, \* the function called, the series it is of, its degree and the level
  res   \* what it returned

algoVars == <<call, res>>

Fresh(v, l) == [l |-> l, e |-> 1, v |-> v, err |-> "none"]

\* (long) log2((double) n)
Log2(n) == CHOOSE k \in 0 .. n : Pow2[k] <= n /\ n < Pow2[k + 1]

-------------------------------------------------------------------------------
(* Scheme.cpp *)

\* c, unless something has gone wrong before or goes wrong now.
Check(c, errs, bad, why) ==
  [c EXCEPT !.err = IF \E s \in errs : s # "none" THEN CHOOSE s \in errs : s # "none"
                    ELSE IF bad THEN why ELSE "none"]

\* The raise in a multiplication needs at least one residue.
squareAndEqual(c) ==
  Check([c EXCEPT !.e = 2 * @, !.v = @ * @], {c.err}, c.l = 0, "exhausted")

\* Buffers are sized by the first operand and filled by the second one's level.
LevelsDiffer(c1, c2) == c1.l # c2.l
multAndEqual(c1, c2) ==
  Check([c1 EXCEPT !.e = @ + c2.e, !.v = @ * c2.v], {c1.err, c2.err},
        LevelsDiffer(c1, c2) \/ c1.l = 0, "bounds")

\* throws invalid_argument if the levels differ
addAndEqual(c1, c2) ==
  Check([c1 EXCEPT !.v = @ + c2.v], {c1.err, c2.err},
        c1.l # c2.l \/ c1.e # c2.e, IF c1.l # c2.l THEN "throws" ELSE "scales")

\* abs(cnst) * context.p is a constant of scale p.
addConstAndEqual(c, cnst) == IF c.e = 1 THEN [c EXCEPT !.v = @ + cnst] ELSE c

\* p2coeff and p2hcoeff have scale p * p.
AddAtScaleP(c, cnst) == addConstAndEqual(c, cnst)
addP2(c, cnst) == IF c.e = 2 THEN [c EXCEPT !.v = @ + cnst] ELSE Check(c, {c.err}, TRUE, "scales")

sub(c1, c2) == addAndEqual(c1, [c2 EXCEPT !.v = -@])
sub2AndEqual(c1, c2) == sub(c1, c2)

\* A stub: whatever the degree of the monomial, nothing changes.
multByMonomialAndEqual(c) == c

negate(c) == [c EXCEPT !.v = -@]
multByConstAndEqual(c, cnst) == [c EXCEPT !.v = @ * cnst, !.e = @ + 1]

\* Dropping the last residue leaves nothing to decrypt.
KeepScale(c) == [c EXCEPT !.l = @ - 1]
reScaleByAndEqual(c) == Check([c EXCEPT !.l = @ - 1, !.e = @ - 1], {c.err}, c.l <= 1, "exhausted")

\* modDown copies the first residues, as many as are asked for.
NoModDown(c, l) == c
modDownToAndEqual(c, l) == Check([c EXCEPT !.l = l], {c.err}, l > c.l \/ l <= 0,
                                   IF l > c.l THEN "bounds" ELSE "exhausted")
NoModDownBy(c, dl) == c
modDownByAndEqual(c, dl) == modDownToAndEqual(c, c.l - dl)

multAndRescale(c1, c2) == reScaleByAndEqual(multAndEqual(c1, c2))

-------------------------------------------------------------------------------
(* Powers and products *)

powerOf2Extended(c, logDegree) ==
  LET pow[i \in 0 .. logDegree] == IF i = 0 THEN c ELSE reScaleByAndEqual(squareAndEqual(pow[i - 1]))
  IN  pow

powerOf2(c, logDegree) == powerOf2Extended(c, logDegree)[logDegree]

power(c, degree) ==
  LET pow[d \in 1 .. degree] ==
        LET k == Log2(d)
            r == powerOf2(c, k)
            rem == d - Pow2[k]
        IN  IF rem = 0 THEN r
            ELSE multAndRescale(r, modDownToAndEqual(pow[rem], pow[rem].l - 1))
  IN  pow[degree]

\* res[n - 1] of the code, n = idx + 1: the powers of two are copied, the others
\* are the product of an earlier result and the last power of two before them.
powerExtended(c, degree) ==
  LET cpows == powerOf2Extended(c, Log2(degree))
      r[n \in 1 .. degree] ==
        LET k == Log2(n)
        IN  IF n = Pow2[k] THEN cpows[k]
            ELSE multAndRescale(modDownToAndEqual(r[n - Pow2[k]], cpows[k].l), cpows[k])
  IN  r

\* Pairs, pairs of pairs, ...; level by level.
prodOfPo2(cs, logDegree) ==
  LET t[i \in 0 .. logDegree] ==
        IF i = 0 THEN cs
        ELSE [j \in 0 .. Pow2[logDegree - i] - 1 |-> multAndRescale(t[i - 1][2 * j], t[i - 1][2 * j + 1])]
  IN  t[logDegree][0]

\* One product of a power of two many factors for every bit of degree, r[i + 1]
\* after bit i; what is before the first one is not used.
Unset == [l |-> 0, e |-> 1, v |-> 1, err |-> "none"]
prod(cs, degree) ==
  LET before(i) == degree % Pow2[i]
      iprod(i) == prodOfPo2([j \in 0 .. Pow2[i] - 1 |-> cs[before(i) + j]], i)
      r[n \in 0 .. Log2(degree) + 1] ==
        IF n = 0 THEN Unset
        ELSE LET i == n - 1  old == r[n - 1]
             IN  IF before(n) = before(i) THEN old
                 ELSE IF before(i) = 0 THEN iprod(i)
                 ELSE multAndRescale(modDownByAndEqual(old, old.l - iprod(i).l), iprod(i))
  IN  r[Log2(degree) + 1]

-------------------------------------------------------------------------------
(* Functions *)

\* One factor 1 + x^(2^i) per step, the powers as in powerOf2Extended.
inverseExtended(x, first, steps) ==
  LET cpow == powerOf2Extended(x, steps - 1)
      r[i \in 0 .. steps - 1] ==
        IF i = 0 THEN modDownByAndEqual(first, 1)
        ELSE multAndRescale(addConstAndEqual(cpow[i], 1), r[i - 1])
  IN  r

inverse(c, steps) ==
  LET cbar == addConstAndEqual(negate(c), 1)
  IN  inverseExtended(cbar, addConstAndEqual(cbar, 1), steps)[steps - 1]

\* The loop that exponent, sigmoid and function share, from the term of degree
\* 1 and the constant; a coefficient that is zero is skipped.
Terms(cpows, coeffs, first, degree) ==
  LET r[i \in 1 .. degree] ==
        IF i = 1 THEN first
        ELSE IF coeffs[i] = 0 THEN r[i - 1]
        ELSE LET aixi == multByConstAndEqual(cpows[i], coeffs[i])
             IN  addAndEqual(modDownToAndEqual(r[i - 1], aixi.l), aixi)
  IN  r

\* exponent and sigmoid: the constant is added at scale p * p.
series(c, f, degree) ==
  LET cpows == powerExtended(c, degree)
      first == addP2(multByConstAndEqual(cpows[1], Coeffs[f][1]), Coeffs[f][0])
  IN  reScaleByAndEqual(Terms(cpows, Coeffs[f], first, degree)[degree])

\* function: the constant is added with addConstAndEqual.
function(c, f, degree) ==
  LET cpows == powerExtended(c, degree)
      first == addConstAndEqual(multByConstAndEqual(cpows[1], Coeffs[f][1]), Coeffs[f][0])
  IN  reScaleByAndEqual(Terms(cpows, Coeffs[f], first, degree)[degree])

functionExtended(c, f, degree) ==
  LET cpows == powerExtended(c, degree)
      r == Terms(cpows, Coeffs[f], multByConstAndEqual(cpows[1], Coeffs[f][1]), degree)
  IN  [i \in 1 .. degree |-> reScaleByAndEqual(r[i])]

innerProd(cs1, cs2, size) ==
  LET s[i \in 0 .. size - 1] ==
        IF i = 0 THEN multAndEqual(cs1[size - 1], cs2[size - 1])
        ELSE addAndEqual(s[i - 1], multAndEqual(cs1[i - 1], cs2[i - 1]))
  IN  reScaleByAndEqual(s[size - 1])

-------------------------------------------------------------------------------
(* Arrays of ciphertexts *)

sum(cs, size) ==
  LET s[i \in 0 .. size - 1] == IF i = 0 THEN cs[0] ELSE addAndEqual(s[i - 1], cs[i])
  IN  s[size - 1]

\* All slots hold the same number, so that the rotations of c are c; the sum is
\* over 2^logSlots slots.
distance(c1, c2, logSlots) ==
  LET s[i \in 0 .. logSlots] ==
        IF i = 0 THEN reScaleByAndEqual(squareAndEqual(sub(c1, c2))) ELSE addAndEqual(s[i - 1], s[i - 1])
  IN  s[logSlots]

\* multVec and multAndEqualVec, then with a rescaling of every product.
multVec(cs1, cs2, size) == [i \in 0 .. size - 1 |-> multAndEqual(cs1[i], cs2[i])]
multAndModSwitchVec(cs1, cs2, size) == [i \in 0 .. size - 1 |-> multAndRescale(cs1[i], cs2[i])]

\* The places of an array of 2^k, their bits reversed.
bitReverse(cs, k) ==
  LET rev(i) == SumBelow([b \in 0 .. k - 1 |-> ((i \div Pow2[b]) % 2) * Pow2[(k - 1) - b]], k)
  IN  [i \in 0 .. Pow2[k] - 1 |-> cs[rev(i)]]

\* Butterflies of words len / 2 apart.
Butterflies(cs, len) ==
  [i \in DOMAIN cs |->
     LET half == len \div 2
         u == IF i % len < half THEN cs[i] ELSE cs[i - half]
         w == multByMonomialAndEqual(IF i % len < half THEN cs[i + half] ELSE cs[i])
     IN  IF i % len < half THEN addAndEqual(u, w) ELSE sub2AndEqual(u, w)]

fft(cs, k) ==
  LET t[i \in 0 .. k] == IF i = 0 THEN bitReverse(cs, k) ELSE Butterflies(t[i - 1], Pow2[i])
  IN  t[k]

\* Only the degrees of the monomials are others.
fftInvLazy(cs, k) == fft(cs, k)

-------------------------------------------------------------------------------
(* A client calls one of them. *)

AlgoInit == /\ call = [f |-> "none"]
            /\ res = << >>

RunOf(f, of, n, l, r) == /\ call.f = "none"
                         /\ call' = [f |-> f, of |-> of, n |-> n, l |-> l]
                         /\ res' = r
Run(f, n, l, r) == RunOf(f, "none", n, l, r)

Input(l) == Fresh(Number, l)
Inputs(l) == [i \in 0 .. MaxDegree - 1 |-> Fresh(Factors[i], l)]

Power(n, l) == Run("power", n, l, <<power(Input(l), n)>>)
PowerExtended(n, l) == Run("powerExtended", n, l, powerExtended(Input(l), n))
Prod(n, l) == Run("prod", n, l, <<prod(Inputs(l), n)>>)
InnerProd(n, l) == Run("innerProd", n, l, <<innerProd(Inputs(l), Inputs(l), n)>>)
SumOfAll(n, l) == Run("sum", n, l, <<sum(Inputs(l), n)>>)
Vector(n, r) == [i \in 1 .. n |-> r[i - 1]]
MultVec(n, l) == Run("multVec", n, l, Vector(n, multVec(Inputs(l), Inputs(l), n)))
MultAndModSwitchVec(n, l) ==
  Run("multAndModSwitchVec", n, l, Vector(n, multAndModSwitchVec(Inputs(l), Inputs(l), n)))
Distance(n, l) == n <= MaxSteps /\ Run("distance", n, l, <<distance(Input(l), Fresh(Factors[MaxDegree - 1], l), n)>>)
Fft(n, l) == n = Pow2[Log2(n)] /\ Run("fft", n, l, Vector(n, fft(Inputs(l), Log2(n))))
FftInv(n, l) == n = Pow2[Log2(n)] /\ Run("fftInv", n, l, Vector(n, fftInvLazy(Inputs(l), Log2(n))))
InverseOf(n, l) == n <= MaxSteps /\ Run("inverse", n, l, <<inverse(Fresh(1 - Number, l), n)>>)
InverseExtended(n, l) ==
  n <= MaxSteps /\ Run("inverseExtended", n, l,
                       Vector(n, inverseExtended(Input(l), addConstAndEqual(Input(l), 1), n)))
Series(f, n, l) == RunOf("series", f, n, l, <<series(Input(l), f, n)>>)
Function(f, n, l) == RunOf("function", f, n, l, <<function(Input(l), f, n)>>)
FunctionExtended(f, n, l) == RunOf("functionExtended", f, n, l, functionExtended(Input(l), f, n))

AlgoNext == \E n \in 1 .. MaxDegree, l \in 1 .. MaxLevel :
          \/ Power(n, l) \/ PowerExtended(n, l) \/ Prod(n, l) \/ InnerProd(n, l)
          \/ SumOfAll(n, l) \/ MultVec(n, l) \/ MultAndModSwitchVec(n, l)
          \/ Fft(n, l) \/ FftInv(n, l) \/ Distance(n, l)
          \/ InverseOf(n, l) \/ InverseExtended(n, l)
          \/ \E f \in DOMAIN Coeffs :
               Series(f, n, l) \/ Function(f, n, l) \/ FunctionExtended(f, n, l)

AlgoSpec == AlgoInit /\ [][AlgoNext]_algoVars

-------------------------------------------------------------------------------
(* Properties *)

Called(f) == call.f = f

\* The number of multiplications on the longest path to x^n.
Depth(n) == IF n = 1 THEN 0 ELSE 1 + Log2(n - 1)

\* v is what c decrypts to, after d levels have been consumed of call.l; if
\* call.l does not reach, the code must have run out of levels and not have
\* returned something else.
Correct(c, v, d) ==
  IF call.l > d THEN c = [l |-> call.l - d, e |-> 1, v |-> v, err |-> "none"]
                ELSE c.err # "none"

\* powerExtended returns the powers x, x^2, ..., each at the highest level it
\* can have: no multiplication in its two loops meets different levels.  What
\* power returns without leaving the bounds of a buffer is x^degree, at scale p.
PowersAreAligned ==
  /\ Called("powerExtended") => \A n \in 1 .. call.n : Correct(res[n], PowerOf(Number, n), Depth(n))
  /\ Called("power") /\ res[1].err = "none" => res[1].v = PowerOf(Number, call.n) /\ res[1].e = 1

\* prod multiplies each factor once, whatever the bits of degree, and brings
\* the levels of the partial products together; the scale of innerProd's sum of
\* products returns to p with a single rescaling.  sum takes each number once,
\* and of two vectors each number meets the one in its place.  Of the ciphertexts
\* that fft returns the first is the sum and all together are size times the
\* first one, as for a Fourier transform with any roots of unity.
EachIsTakenOnce ==
  /\ Called("prod") => Correct(res[1], ProductBelow(Factors, call.n),
                               IF call.n = Pow2[Log2(call.n)] THEN Log2(call.n) ELSE Log2(call.n) + 1)
  /\ Called("innerProd") =>
       Correct(res[1], SumBelow([i \in 0 .. MaxDegree - 1 |-> Factors[i] * Factors[i]], call.n), 1)
  /\ Called("sum") => Correct(res[1], SumBelow(Factors, call.n), 0)
  /\ Called("distance") =>
       Correct(res[1], Pow2[call.n] * (Number - Factors[MaxDegree - 1]) * (Number - Factors[MaxDegree - 1]), 1)
  /\ Called("multVec") =>
       \A i \in 1 .. call.n : res[i] = [Fresh(Factors[i - 1] * Factors[i - 1], call.l) EXCEPT !.e = 2]
  /\ Called("multAndModSwitchVec") =>
       \A i \in 1 .. call.n : Correct(res[i], Factors[i - 1] * Factors[i - 1], 1)
  /\ Called("fft") \/ Called("fftInv") =>
       /\ Correct(res[1], SumBelow(Factors, call.n), 0)
       /\ SumBelow([i \in 0 .. call.n - 1 |-> res[i + 1].v], call.n) = call.n * Factors[0]
       /\ \A i \in 1 .. call.n : res[i] = Fresh(res[i].v, call.l)

\* inverse of c approximates 1 / c by the geometric series in 1 - c, with
\* 2^steps terms; inverseExtended returns the partial products.
Geometric(steps) == SumBelow([j \in 0 .. Pow2[steps] - 1 |-> PowerOf(Number, j)], Pow2[steps])
InverseIsGeometric ==
  /\ Called("inverse") => Correct(res[1], Geometric(call.n), call.n)
  /\ Called("inverseExtended") =>
       \A i \in 1 .. call.n : Correct(res[i], Geometric(i), i)

\* exponent and sigmoid evaluate their series: the accumulator has the level
\* and the scale of every term that is added to it, constant included.  So does
\* function if the constant term is zero (it is added at the wrong scale), and
\* functionExtended returns the partial sums without it.
Polynomial(f, n) == SumBelow([i \in 0 .. n |-> Coeffs[f][i] * PowerOf(Number, i)], n + 1)
LastTerm(f, n) == CHOOSE i \in 1 .. n : /\ Coeffs[f][i] # 0 \/ i = 1
                                        /\ \A j \in i + 1 .. n : Coeffs[f][j] = 0
SeriesIsPolynomial ==
  call.f \in {"series", "function", "functionExtended"} /\ call.l > Depth(call.n) + 1 =>
    LET f == call.of
    IN  /\ Called("series") \/ (Called("function") /\ Coeffs[f][0] = 0) =>
             Correct(res[1], Polynomial(f, call.n), Depth(LastTerm(f, call.n)) + 1)
        /\ Called("functionExtended") =>
             \A n \in 1 .. call.n :
               Correct(res[n], Polynomial(f, n) - Coeffs[f][0], Depth(LastTerm(f, n)) + 1)

\* power computes the power for every degree, given levels enough, as
\* testPowerBatch compares it with pow(mvec[i], degree).
PowerIsPower ==
  Called("power") /\ call.l > 2 * Log2(call.n) => res[1].err = "none"
===============================================================================
