-------------------------------- MODULE Scheme --------------------------------
(***************************************************************************)
(* The homomorphic operations of src/src/Scheme.cpp on ciphertexts         *)
(* (ax, bx) of l residue polynomials, which decrypt to bx + ax * sx: their *)
(* key switching by raise, mulKey and back, their rescaling, and the keys  *)
(* they need.  Polynomials are kept by coefficients, in the ring           *)
(* Z[X]/(X^N + 1); that the program's values at roots of unity are         *)
(* multiplied, rotated and conjugated alike is checked in Ntt.             *)
(*                                                                         *)
(* The samplers are external: what they return are constants, of an        *)
(* encryption any element of one.                                          *)
(*                                                                         *)
(* For every ciphertext a history record follows what it should decrypt to *)
(* and how much noise it may have.                                         *)
(***************************************************************************)
EXTENDS Rns, FiniteSetsExt

CONSTANTS
  N,       \* the degree of the ring
  Scale,   \* context.p
  secret,  \* the coefficients of SecretKey.sx
  Uniform, \* a polynomial for each purpose: the ax of its key
  Gauss,   \* the same: the ex of its key
  Samples, \* of encryptions: vx, and the errors ex of ax and of bx
  Message, \* the polynomials that are encrypted
  Const,   \* the numbers that ciphertexts are multiplied by or added to
  MaxOps   \* bound: operations in a sequence

Index == 0 .. N - 1
M == 2 * N
Purpose == {"ENCRYPTION", "MULTIPLICATION", "CONJUGATION", "ROTATION"}
IntPoly == [Index -> Int]

ASSUME SchemeAssumption ==
  /\ N \in Nat \ {0} /\ \E e \in 0 .. N : N = Pow2[e]
  /\ Scale \in Nat /\ MaxOps \in Nat
  /\ secret \in [Index -> {-1, 0, 1}]
  /\ Samples \subseteq [vx : [Index -> {-1, 0, 1}], axError : IntPoly, bxError : IntPoly]
  /\ Uniform \in [Purpose -> [Index -> Nat]] /\ Gauss \in [Purpose -> IntPoly]
  /\ Message \subseteq IntPoly /\ Const \subseteq Int

VARIABLES
  c,    \* the ciphertext that is worked on
  d,    \* another one, the second operand
  held, \* the purposes there is a key for, in keyMap and leftRotKeyMap
  ops   \* how many operations there have been

vars == <<c, d, held, ops>>

-------------------------------------------------------------------------------
(* Residue polynomials: A[i] is the polynomial modulo the i-th modulus. *)

FromInt(x, n) == [i \in 1 .. n |-> [k \in Index |-> x[k] % q[i]]]
FromIntKey(x) == [i \in 1 .. L + K |-> [k \in Index |-> x[k] % modulus(L, i)]]

\* An operation of Rns on every coefficient, n residues wide.
Coefficientwise(op(_), A, n) ==
  LET r == [k \in Index |-> op([i \in DOMAIN A |-> A[i][k]])]
  IN  [i \in 1 .. n |-> [k \in Index |-> r[k][i]]]

MapPoly(op(_, _, _), A, B, n) ==
  [i \in 1 .. n |-> [k \in Index |-> op(A[i][k], B[i][k], modulus(L, i))]]

addPoly(A, B, n) == MapPoly(addMod, A, B, n)
subPoly(A, B, n) == MapPoly(subMod, A, B, n)
negatePoly(A, n) == [i \in 1 .. n |-> [k \in Index |-> IF A[i][k] = 0 THEN 0 ELSE q[i] - A[i][k]]]

\* The product modulo X^N + 1.
Product(x, y) == [k \in Index |->
  SumBelow([j \in Index |-> IF j <= k THEN x[j] * y[k - j] ELSE -(x[j] * y[N + k - j])], N)]
ProductMod(x, y, m) ==
  LET r == Product([k \in Index |-> x[k] % m], [k \in Index |-> y[k] % m])
  IN  [k \in Index |-> r[k] % m]
mulPoly(A, B, n) == [i \in 1 .. n |-> ProductMod(A[i], B[i], modulus(L, i))]
mulKeyPoly(A, B, l) == [i \in 1 .. l + K |-> ProductMod(A[i], B[KeyOffset(l, i)], modulus(l, i))]

\* The image of x under X -> X^g.
Automorphism(x, g) == [k \in Index |-> LET j == CHOOSE j \in Index : (j * g) % N = k
                                       IN  IF (j * g) % M = k THEN x[j] ELSE -x[j]]
AutoPoly(A, g, n) ==
  [i \in 1 .. n |-> LET r == Automorphism(A[i], g) IN [k \in Index |-> r[k] % modulus(L, i)]]

Conjugation == M - 1
Rotation == 5 % M  \* rotGroup[1]

raisePoly(A, l) == Coefficientwise(LAMBDA x : raise(x, l), A, l + K)
backPoly(A, l) == Coefficientwise(LAMBDA x : back(x, l), A, l)

-------------------------------------------------------------------------------
(* Keys *)

SecretPoly == FromIntKey(secret)

\* bx = ex + what the key switches from - ax * sx; only its residues modulo q
\* carry the latter, multiplied by P.
Unscaled(A) == A
TimesP(A) == Coefficientwise(LAMBDA x : eval(x, L), A, L)
SwitchKey(purpose, from) ==
  LET ax == FromIntKey(Uniform[purpose])
      ex == FromIntKey(Gauss[purpose])
      sum == [i \in 1 .. L + K |-> IF i <= L THEN addPoly(ex, TimesP(from), L)[i] ELSE ex[i]]
  IN  [ax |-> ax, bx |-> subPoly(sum, mulPoly(ax, SecretPoly, L + K), L + K)]

addEncKey == LET ax == FromIntKey(Uniform["ENCRYPTION"])
             IN  [ax |-> ax, bx |-> subPoly(FromIntKey(Gauss["ENCRYPTION"]),
                                            mulPoly(ax, SecretPoly, L), L)]
addMultKey == SwitchKey("MULTIPLICATION", mulPoly(SecretPoly, SecretPoly, L))
addConjKey == SwitchKey("CONJUGATION", AutoPoly(SecretPoly, Conjugation, L))
addLeftRotKey == SwitchKey("ROTATION", AutoPoly(SecretPoly, Rotation, L))

keyMap == [ENCRYPTION |-> addEncKey, MULTIPLICATION |-> addMultKey,
           CONJUGATION |-> addConjKey, ROTATION |-> addLeftRotKey]

\* Two polynomials that stand for x times what the key switches from.
KeySwitch(x, purpose, l) ==
  LET up == raisePoly(x, l)
      key == keyMap[purpose]
  IN  [ax |-> backPoly(mulKeyPoly(up, key.ax, l), l), bx |-> backPoly(mulKeyPoly(up, key.bx, l), l)]

-------------------------------------------------------------------------------
(* What a ciphertext should decrypt to: hist.t, up to hist.err, as long as   *)
(* that has always been less than half the modulus (hist.fits).              *)

Magnitude(x) == IF x < 0 THEN -x ELSE x
Largest(x) == Max({Magnitude(x[k]) : k \in Index})
Norm(x) == SumBelow([k \in Index |-> Magnitude(x[k])], N)

Fits(t, err, l) == 2 * (Largest(t) + err) < QProduct[l]
Cipher(ax, bx, l, t, err, fits) ==
  [ax |-> ax, bx |-> bx, l |-> l, t |-> t, err |-> err, fits |-> fits /\ Fits(t, err, l)]

\* Rounding down in ax and in bx.
Rounding == 1 + Norm(secret)
\* The key's noise times the raised polynomial over P, and the losses of back.
SwitchNoise(purpose, l) ==
  1 + K * Rounding + (((l * Norm(Gauss[purpose])) * QProduct[l]) \div PProduct)
FreshNoise(s) == Norm(s.vx) * Largest(Gauss["ENCRYPTION"]) + Largest(s.bxError)
                   + Largest(s.axError) * Norm(secret)

-------------------------------------------------------------------------------
(* Operations: each yields the ciphertext that replaces its first operand.   *)

encryptMsg(t, l, s) ==
  LET key == keyMap["ENCRYPTION"]
      v == FromIntKey(s.vx)
  IN  Cipher(addPoly(mulPoly(v, key.ax, l), FromInt(s.axError, l), l),
             addPoly(addPoly(mulPoly(v, key.bx, l), FromInt(s.bxError, l), l), FromInt(t, l), l),
             l, t, FreshNoise(s), TRUE)

Plus(x, y) == [k \in Index |-> x[k] + y[k]]
Minus(x, y) == [k \in Index |-> x[k] - y[k]]

add2(x, y) == Cipher(addPoly(x.ax, y.ax, x.l), addPoly(x.bx, y.bx, x.l), x.l,
                     Plus(x.t, y.t), x.err + y.err, x.fits /\ y.fits)
sub2(x, y) == Cipher(subPoly(x.ax, y.ax, x.l), subPoly(x.bx, y.bx, x.l), x.l,
                     Minus(x.t, y.t), x.err + y.err, x.fits /\ y.fits)
negate1(x) == Cipher(negatePoly(x.ax, x.l), negatePoly(x.bx, x.l), x.l,
                     [k \in Index |-> -x.t[k]], x.err, x.fits)

\* ax1 * bx2 + ax2 * bx1 by Karatsuba's three products.
CrossSumKept(axbx, bxbx, axax, l) == subPoly(axbx, bxbx, l)
CrossTerms(axbx, bxbx, axax, l) == subPoly(subPoly(axbx, bxbx, l), axax, l)
mult(x, y) ==
  LET l == x.l
      axbx == mulPoly(addPoly(x.ax, x.bx, l), addPoly(y.ax, y.bx, l), l)
      bxbx == mulPoly(x.bx, y.bx, l)
      axax == mulPoly(x.ax, y.ax, l)
      s == KeySwitch(axax, "MULTIPLICATION", l)
  IN  Cipher(addPoly(s.ax, CrossTerms(axbx, bxbx, axax, l), l), addPoly(s.bx, bxbx, l), l,
             Product(x.t, y.t),
             Norm(x.t) * y.err + Norm(y.t) * x.err + N * x.err * y.err
               + SwitchNoise("MULTIPLICATION", l),
             x.fits /\ y.fits)

\* squareAndEqual that throws: it has put new arrays of zeros in the place of its
\* operand's, which is no encryption of anything any more.
Emptied(x) == LET zero == [k \in Index |-> 0]
              IN  Cipher(FromInt(zero, x.l), FromInt(zero, x.l), x.l, zero, 0, FALSE)

\* abs(cnst) * p, then the sign.
multByConst(x, n) ==
  LET k == FromInt([j \in Index |-> IF j = 0 THEN Magnitude(n) * Scale ELSE 0], x.l)
      sign(A) == IF n < 0 THEN negatePoly(A, x.l) ELSE A
  IN  Cipher(sign(mulPoly(x.ax, k, x.l)), sign(mulPoly(x.bx, k, x.l)), x.l,
             [j \in Index |-> x.t[j] * n * Scale], x.err * Magnitude(n) * Scale, x.fits)

\* A constant polynomial has the same value everywhere: coefficient 0 changes.
addConst(x, n) ==
  LET k == FromInt([j \in Index |-> IF j = 0 THEN Magnitude(n) * Scale ELSE 0], x.l)
  IN  Cipher(x.ax, IF n >= 0 THEN addPoly(x.bx, k, x.l) ELSE subPoly(x.bx, k, x.l), x.l,
             [x.t EXCEPT ![0] = @ + n * Scale], x.err, x.fits)

reScaleBy1(x) ==
  LET down(A) == Coefficientwise(LAMBDA y : reScale(y, x.l), A, x.l - 1)
  IN  Cipher(down(x.ax), down(x.bx), x.l - 1,
             [k \in Index |-> x.t[k] \div q[x.l]], x.err \div q[x.l] + 2 + Rounding, x.fits)

modDownBy(x, dl) ==
  LET down(A) == Coefficientwise(LAMBDA y : modDown(y, x.l, dl), A, x.l - dl)
  IN  Cipher(down(x.ax), down(x.bx), x.l - dl, x.t, x.err, x.fits)

\* conjugate, and leftRotateFast by one slot.
Switched(x, purpose, g) ==
  LET s == KeySwitch(AutoPoly(x.ax, g, x.l), purpose, x.l)
  IN  Cipher(s.ax, addPoly(s.bx, AutoPoly(x.bx, g, x.l), x.l), x.l,
             Automorphism(x.t, g), x.err + SwitchNoise(purpose, x.l), x.fits)
conjugate(x) == Switched(x, "CONJUGATION", Conjugation)
leftRotateFast(x) == Switched(x, "ROTATION", Rotation)

-------------------------------------------------------------------------------

\* Before the first operation there is the key to encrypt with, or every key.
Init == /\ ops = 0 /\ held \in {{"ENCRYPTION"}, Purpose}
        /\ \E t \in Message, l \in 2 .. L, s \in Samples : c = encryptMsg(t, l, s)
        /\ \E t \in Message, s \in Samples : d = encryptMsg(t, L, s)

\* Bound: history and noise stay below MaxValue, far above what still fits.
MaxValue == 2 ^ 28
Weight(x) == Norm(x.t) + N * x.err
Within(x, factor) == factor > 0 => Weight(x) <= MaxValue \div factor

Another == ops < MaxOps /\ ops' = ops + 1
To(x) == Another /\ c' = x /\ UNCHANGED <<d, held>>

\* The maps keep the key they have for a purpose.
AddKey == Another /\ \E o \in Purpose \ held : held' = held \cup {o} /\ UNCHANGED <<c, d>>

\* The copy constructor, and the operand brought to the level of c.
Copy == Another /\ d' = c /\ d # c /\ UNCHANGED <<c, held>>
Align == Another /\ d.l > c.l /\ d' = modDownBy(d, d.l - c.l) /\ UNCHANGED <<c, held>>

\* Without its key an operation throws.  All but squareAndEqual look for it before
\* they change their operand.
HasKey(purpose) == purpose \in held

\* add takes the residues of a second operand that has more of them, and reads
\* behind one that has fewer; addAndEqual, sub, subAndEqual and sub2AndEqual
\* throw if the levels differ, and mult then reads or writes behind an array.
Add == c.l <= d.l /\ To(add2(c, d))
Sub == c.l = d.l /\ To(sub2(c, d))
Sub2 == c.l = d.l /\ To(sub2(d, c))
Mult == c.l = d.l /\ HasKey("MULTIPLICATION") /\ Within(c, Weight(d)) /\ To(mult(c, d))
Square == HasKey("MULTIPLICATION") /\ Within(c, Weight(c)) /\ To(mult(c, c))
SquareWithoutKey == ~HasKey("MULTIPLICATION") /\ To(Emptied(c))
Negate == To(negate1(c))
MultByConst == \E n \in Const : Within(c, Magnitude(n) * Scale) /\ To(multByConst(c, n))
AddConst == \E n \in Const : To(addConst(c, n))
ReScale == c.l > 1 /\ To(reScaleBy1(c))
ModDown == \E dl \in 1 .. c.l - 1 : To(modDownBy(c, dl))
Conjugate == HasKey("CONJUGATION") /\ To(conjugate(c))
LeftRotate == HasKey("ROTATION") /\ To(leftRotateFast(c))

Next == AddKey \/ Copy \/ Align \/ Add \/ Sub \/ Sub2 \/ Mult \/ Square \/ SquareWithoutKey
        \/ Negate \/ MultByConst \/ AddConst \/ ReScale \/ ModDown \/ Conjugate \/ LeftRotate

Spec == Init /\ [][Next]_vars

-------------------------------------------------------------------------------
(* Properties *)

\* The polynomial of the integers closest to 0 that ax * sx + bx stands for,
\* with all residues, and with the first one, which is all decryptMsg looks at.
Centered(x, m) == IF 2 * x > m THEN x - m ELSE x
Decrypted(x, n) ==
  LET A == addPoly(mulPoly(x.ax, SecretPoly, n), x.bx, n)
  IN  [k \in Index |-> Centered(Combine([i \in 1 .. n |-> A[i][k]], q, n), QProduct[n])]

Near(x, t, err) == \A k \in Index : Magnitude(x[k] - t[k]) <= err

\* After any sequence of operations a ciphertext decrypts to what they should
\* have computed, up to the noise they may have added, as long as that fitted
\* the modulus: no operation mixes up levels, keys, signs or scales.
DecryptsCorrectly == \A x \in {c, d} : x.fits => Near(Decrypted(x, x.l), x.t, x.err)

\* So it does with the first residue alone, which decryptMsg takes at every
\* level, if the message is small enough for the first modulus.
FirstResidueSuffices ==
  \A x \in {c, d} : x.fits /\ Fits(x.t, x.err, 1) => Near(Decrypted(x, 1), x.t, x.err)
===============================================================================
