------------------------------- MODULE NttTables -------------------------------
(***************************************************************************)
(* The tables that the constructor of Context (src/src/Context.cpp) fills  *)
(* for one prime, and the modular multiplications on machine words of Word *)
(* bits that use them (utils.h, Numb.cpp).  The four-step NTT looks at the *)
(* array as a matrix of N1 rows and N2 columns, so there are tables of     *)
(* roots for rows of three lengths: N, N1 and N2.                          *)
(***************************************************************************)
EXTENDS Integers, FiniteSets, FiniteSetsExt, Numbers

CONSTANTS
  LogN,    \* log2 of the degree N
  q,       \* a prime, 1 modulo 2 * N
  psi,     \* qRoots: a primitive root of unity of order M = 2 * N
  Word     \* the bits of a machine word (64 in the code)

N == Pow2[LogN]
M == 2 * N
R == Pow2[Word]
Index == 0 .. N - 1

LogN1 == LogN \div 2
N1 == Pow2[LogN1]
N2 == Pow2[LogN - LogN1]

power == LET pow[e \in 0 .. M] == IF e = 0 THEN 1 ELSE (pow[e - 1] * psi) % q
         IN  [e \in 0 .. M |-> pow[e]]
InverseMod(x) == CHOOSE y \in 1 .. q - 1 : (x * y) % q = 1

ASSUME TablesAssumption ==
  /\ LogN \in Nat \ {0} /\ Word \in Nat
  /\ q \in Nat \ {0, 1} /\ (q - 1) % M = 0 /\ 8 * q < R
  /\ psi \in Nat
  /\ power[N] = q - 1

-------------------------------------------------------------------------------
(* Tables *)

bitReverse(n, bits) ==
  SumBelow([b \in 0 .. bits - 1 |-> ((n \div Pow2[b]) % 2) * Pow2[bits - 1 - b]], bits)

RowLengths == {N, N1, N2}
LogOf(len) == CHOOSE e \in 0 .. LogN : Pow2[e] = len

\* cal_RootPows: the powers of a root of order 2 * len, in bit-reversed order.
RootPowsUnreversed == [len \in RowLengths |-> [j \in 0 .. len - 1 |-> power[(N \div len) * j]]]
RootPows == [len \in RowLengths |->
  [j \in 0 .. len - 1 |-> power[(N \div len) * bitReverse(j, LogOf(len))]]]
RootPowsInv == [j \in Index |-> InverseMod(RootPows[N][j])]

\* Montgomery form, x * 2^64 mod q, and Barrett's floor(x * 2^64 / q).
Scaled(x) == (x * R) % q
BarPre(x) == (x * R) \div q
qInv == CHOOSE x \in 1 .. R - 1 : (x * q) % R = 1
NScaleInv == Scaled(InverseMod(N))

\* Wmatrix_pows: what the word in row j and column k is multiplied by between
\* the two passes of the four-step NTT, a power of psi that may be negative.
Wmatrix == [w \in Index |->
  LET pow == (w % N2) * (2 * bitReverse(w \div N2, LogN1) - N1 + 1)
  IN  IF pow >= 0 THEN power[pow] ELSE q - power[N + pow]]

rotGroup[r \in 0 .. N \div 2 - 1] == IF r = 0 THEN 1 ELSE (5 * rotGroup[r - 1]) % M

-------------------------------------------------------------------------------
(* Modular multiplication *)

\* mulModBarrett, with qrVec and qTwok.
Log2q == CHOOSE e \in 0 .. Word : Pow2[e] <= q /\ q < Pow2[e + 1]
qTwok == 2 * (Log2q + 1)
qr == Pow2[qTwok] \div q
mulModBarrett(x, y) == LET mul == (x % q) * (y % q)
                           r == mul - q * ((mul * qr) \div Pow2[qTwok])
                       IN  IF r < q THEN r ELSE r - q

\* High words of T * W and of the multiple of q with the same low word.
High(T, W) == (T * W) \div R
Matching(T, W) == (((((T * W) % R) * qInv) % R) * q) \div R

redc(T, W) == LET U == High(T, W)  H == Matching(T, W)
              IN  IF U < H THEN U + q - H ELSE U - H
redcLazy(T, W) == High(T, W) + q - Matching(T, W)

barrett(T, W, pre) == LET z == (T * W - q * ((T * pre) \div R)) % R
                      IN  IF z > q THEN z - q ELSE z
===============================================================================
