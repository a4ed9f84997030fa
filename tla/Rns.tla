---------------------------------- MODULE Rns ----------------------------------
(***************************************************************************)
(* Residue number system of src/src/Context.cpp: an integer modulo         *)
(* q_1 ... q_l, or modulo q_1 ... q_l p_1 ... p_K once it is raised, is    *)
(* kept by its residues, and never put together.  The functions below work *)
(* on one coefficient of a polynomial; the loops over the coefficients are *)
(* left out, and so are the changes between coefficients and values, which *)
(* Ntt models.  Residues 1 .. l are modulo q, residues l + 1 .. l + K      *)
(* modulo p.                                                               *)
(***************************************************************************)
EXTENDS Integers, Sequences, Numbers

CONSTANTS q, p  \* qVec and pVec: primes, all different; all that matters is that no two have a common factor

L == Len(q)
K == Len(p)

ASSUME RnsAssumption ==
  /\ q \in Seq(Nat \ {0, 1}) /\ L > 0
  /\ p \in Seq(Nat \ {0, 1}) /\ K > 0
  /\ \A i, j \in 1 .. L + K : i # j => Coprime((q \o p)[i], (q \o p)[j])

modulus(l, i) == IF i <= l THEN q[i] ELSE p[i - l]

-------------------------------------------------------------------------------
(* Numb.cpp *)

addMod(x, y, m) == (x + y) % m
subMod(x, y, m) == (x + m - (y % m)) % m
UnreducedMul(x, y, m) == (x % m) * (y % m)
mulMod(x, y, m) == ((x % m) * (y % m)) % m
InverseMod(x, m) == CHOOSE y \in 1 .. m - 1 : (x * y) % m = 1

\* With mr = 2^twok div m of the constructor.  Exact for x < 2^twok, which a sum
\* of products may exceed; then the result is reduced only in part.
Modulus == {q[i] : i \in 1 .. L} \cup {p[k] : k \in 1 .. K}
twok == [m \in Modulus |-> 2 * (1 + CHOOSE e \in 0 .. m : Pow2[e] <= m /\ m < Pow2[e + 1])]
Shift == [m \in Modulus |-> Pow2[twok[m]]]
mr == [m \in Modulus |-> Shift[m] \div m]
modBarrett(x, m) == LET r == x - ((x * mr[m]) \div Shift[m]) * m
                    IN  IF r >= m THEN r - m ELSE r

(* The tables of the constructor *)

QProduct == [l \in 1 .. L |-> ProductOf(q, l)]
PProduct == ProductOf(p, K)
qHat(l, i) == HatOf(q, l, i)
pHat(k) == HatOf(p, K, k)

qHatInvModq == [l \in 1 .. L |-> [i \in 1 .. l |-> InverseMod(qHat(l, i) % q[i], q[i])]]
qHatModp == [l \in 1 .. L |-> [i \in 1 .. l |-> [k \in 1 .. K |-> qHat(l, i) % p[k]]]]
pHatInvModp == [k \in 1 .. K |-> InverseMod(pHat(k) % p[k], p[k])]
pHatModq == [k \in 1 .. K |-> [i \in 1 .. L |-> pHat(k) % q[i]]]
PModq == [i \in 1 .. L |-> PProduct % q[i]]
PInvModq == [i \in 1 .. L |-> InverseMod(PModq[i], q[i])]
qInvModq == [l \in 1 .. L |-> [i \in 1 .. L \ {l} |-> InverseMod(q[l] % q[i], q[i])]]

-------------------------------------------------------------------------------
(* Conversions *)

\* raiseAndEqual: the residues modulo p of some integer with the residues a.
FullHatInv(l, i) == qHatInvModq[L][i]
HatInv(l, i) == qHatInvModq[l][i]
raise(a, l) ==
  LET tmp3 == [i \in 1 .. l |-> mulMod(a[i], HatInv(l, i), q[i])]
      sum(k) == SumOf([i \in 1 .. l |-> tmp3[i] * qHatModp[l][i][k]], l)
  IN  [i \in 1 .. l + K |-> IF i <= l THEN a[i] ELSE modBarrett(sum(i - l), p[i - l])]

\* backAndEqual: subtract what the residues modulo p stand for, divide by P.
NoFactor(i) == 1
PFactor(i) == PInvModq[i]
back(a, l) ==
  LET tmp3 == [k \in 1 .. K |-> mulMod(a[l + k], pHatInvModp[k], p[k])]
      sum(i) == SumOf([k \in 1 .. K |-> tmp3[k] * pHatModq[k][i]], K)
  IN  [i \in 1 .. l |-> mulMod(subMod(a[i], modBarrett(sum(i), q[i]), q[i]), PFactor(i), q[i])]

\* reScaleAndEqual: subtract the last residue, divide by its modulus.
UnscaledFactor(l, i) == 1
LastFactor(l, i) == qInvModq[l][i]
reScale(a, l) ==
  [i \in 1 .. l - 1 |-> mulMod(subMod(a[i], modBarrett(a[l], q[i]), q[i]), LastFactor(l, i), q[i])]

\* modDown and modDownAndEqual: keep the first residues.
LastKept(a, l, dl) == [i \in 1 .. l - dl |-> a[i + dl]]
modDown(a, l, dl) == [i \in 1 .. l - dl |-> a[i]]

\* evalAndEqual: multiply by P.
eval(a, l) == [i \in 1 .. l |-> mulMod(a[i], PModq[i], q[i])]

\* mulKey: a key has L residues modulo q, whatever l is.
OffsetOfLevel(l, i) == i
KeyOffset(l, i) == IF i <= l THEN i ELSE i - l + L
mulKey(a, key, l) == [i \in 1 .. l + K |-> mulMod(a[i], key[KeyOffset(l, i)], modulus(l, i))]

mul(a, b, l) == [i \in 1 .. l |-> mulMod(a[i], b[i], q[i])]

-------------------------------------------------------------------------------
(* What residues stand for (the code never computes it) *)

\* The residues of the integer x.
Residues(x, l) == [i \in 1 .. l |-> x % q[i]]
KeyResidues(x) == [i \in 1 .. L + K |-> x % modulus(L, i)]

\* The integer with these residues, below the product of the n moduli m.
Combine(a, m, n) ==
  LET term(i) == ((a[i] * InverseMod(HatOf(m, n, i) % m[i], m[i])) % m[i]) * HatOf(m, n, i)
  IN  SumOf([i \in 1 .. n |-> term(i)], n) % ProductOf(m, n)
===============================================================================
