------------------------------- MODULE Encoding -------------------------------
(***************************************************************************)
(* encode and decode of src/src/Context.cpp: a vector of complex numbers,  *)
(* at most N / 2 of them, becomes the words of a polynomial whose values   *)
(* at the powers of ksi to 5^j they are, layer by layer; and the plain fft *)
(* and its inverse of the same file.                                       *)
(*                                                                         *)
(* Complex numbers are exact here: pairs of integers modulo a prime P, 3   *)
(* modulo 4, with i^2 = -1.  Sums, products, the halvings and the roots of *)
(* unity of the code all exist in that field, so its algebra is that of    *)
(* the code without rounding.                                              *)
(***************************************************************************)
EXTENDS Integers, Sequences, FiniteSetsExt

CONSTANTS
  P,        \* the prime; M divides P + 1
  ksi,      \* exp(2 * pi * i / M): a root of unity of order M, of norm 1
  LogN,     \* log2 of the degree N
  q,        \* qVec
  p,        \* what the numbers are multiplied by before they are integers
  Vectors   \* the vectors there are to encode

N == 2 ^ LogN
M == 2 * N
Nh == N \div 2

cplus(x, y) == <<(x[1] + y[1]) % P, (x[2] + y[2]) % P>>
cminus(x, y) == <<(x[1] - y[1]) % P, (x[2] - y[2]) % P>>
ctimes(x, y) == <<(x[1] * y[1] - x[2] * y[2]) % P, (x[1] * y[2] + x[2] * y[1]) % P>>
Divided(x, n) == LET r == CHOOSE r \in 1 .. P - 1 : (r * n) % P = 1 IN ctimes(x, <<r, 0>>)
ksiPows[j \in 0 .. M] == IF j = 0 THEN <<1, 0>> ELSE ctimes(ksiPows[j - 1], ksi)
rotGroup[j \in 0 .. Nh - 1] == IF j = 0 THEN 1 ELSE (5 * rotGroup[j - 1]) % M

\* What the constants may be.
EncodingParameters ==
  /\ P % 4 = 3 /\ (P + 1) % M = 0 /\ LogN > 1
  /\ ksiPows[M \div 4] = <<0, 1>> /\ (ksi[1] * ksi[1] + ksi[2] * ksi[2]) % P = 1
  /\ p \in Nat \ {0} /\ \A i \in DOMAIN q : q[i] > p * P
  /\ \A u \in Vectors : \E e \in 0 .. LogN - 1 : Len(u) = 2 ^ e

\* The integer a real or imaginary part stands for, of either sign.
Signed(x) == IF x > P \div 2 THEN x - P ELSE x

VARIABLES
  v,     \* the vector
  phase, \* what is being done with it
  vals,  \* the numbers being transformed
  len,   \* the loop variable of the layers
  words  \* the words of the polynomial before its NTT, for each modulus

vars == <<v, phase, vals, len, words>>

size == Len(vals)
slots == Len(v)
gap == Nh \div slots

Init == /\ v \in Vectors
        /\ vals = v /\ phase = "new" /\ len = 0
        /\ words = [i \in DOMAIN q |-> [k \in 0 .. N - 1 |-> 0]]

-------------------------------------------------------------------------------
(* arrayBitReverse: j counts in reversed order, in the bits below size *)

Swap(s, i, j) == [s EXCEPT ![i + 1] = s[j + 1], ![j + 1] = s[i + 1]]
Increment(j, bit) ==
  LET down[x \in Nat, b \in Nat] == IF x >= b THEN down[x - b, b \div 2] ELSE x + b IN down[j, bit]
arrayBitReverse(s) ==
  LET n == Len(s)
      at[i \in 0 .. n - 1] ==
        IF i = 0 THEN [s |-> s, j |-> 0]
        ELSE LET j == Increment(at[i - 1].j, n \div 2)
             IN  [s |-> IF i < j THEN Swap(at[i - 1].s, i, j) ELSE at[i - 1].s, j |-> j]
  IN  at[n - 1].s

\* One layer: in blocks of len, number j of the first half and its partner.
Layer(s, n, butterfly(_, _, _)) ==
  [k \in DOMAIN s |-> LET j == (k - 1) % n IN
     IF j < n \div 2 THEN butterfly(s[k], s[k + n \div 2], j)[1]
     ELSE butterfly(s[k - n \div 2], s[k], j - n \div 2)[2]]

Cooley(x, y, w) == <<cplus(x, ctimes(y, w)), cminus(x, ctimes(y, w))>>
Gentleman(x, y, w) == <<cplus(x, y), ctimes(cminus(x, y), w)>>

FftInvRoot(j, n) == ksiPows[(n - j) * (M \div n)]
FftRoot(j, n) == ksiPows[j * (M \div n)]
PlainRoot(j, n) == ksiPows[(j * M) \div (4 * n)]
SpecialRoot(j, n) == ksiPows[((rotGroup[j] % (4 * n)) * M) \div (4 * n)]
SpecialInvRoot(j, n) == ksiPows[((4 * n - (rotGroup[j] % (4 * n))) * M) \div (4 * n)]

FftLayerOf(s, n) == Layer(s, n, LAMBDA x, y, j : Cooley(x, y, FftRoot(j, n)))
FftInvLayerOf(s, n) == Layer(s, n, LAMBDA x, y, j : Cooley(x, y, FftInvRoot(j, n)))
SpecialLayerOf(s, n) == Layer(s, n, LAMBDA x, y, j : Cooley(x, y, SpecialRoot(j, n)))
SpecialInvLayerOf(s, n) == Layer(s, n, LAMBDA x, y, j : Gentleman(x, y, SpecialInvRoot(j, n)))

Go(from, to) == phase = from /\ phase' = to

-------------------------------------------------------------------------------
(* encode *)

BeginEncode == Go("new", "encode") /\ len' = slots /\ UNCHANGED <<v, vals, words>>

fftSpecialInvLazy == /\ phase = "encode" /\ len >= 2
                     /\ vals' = SpecialInvLayerOf(vals, len) /\ len' = len \div 2
                     /\ UNCHANGED <<v, phase, words>>

\* A real and an imaginary part as a word modulo n.
WordOf(x, n) == LET mir == Signed(x) * p IN IF mir >= 0 THEN mir ELSE n + mir

Contiguous(j) == j
Place(j) == j * gap

encode ==
  /\ Go("encode", "encoded") /\ len < 2
  /\ vals' = [k \in DOMAIN vals |-> Divided(arrayBitReverse(vals)[k], slots)]
  /\ words' = [i \in DOMAIN q |-> [k \in 0 .. N - 1 |->
       CASE \E j \in 0 .. slots - 1 : k = Place(j) ->
              WordOf(vals'[(CHOOSE j \in 0 .. slots - 1 : k = Place(j)) + 1][1], q[i])
         [] \E j \in 0 .. slots - 1 : k = Nh + Place(j) ->
              WordOf(vals'[(CHOOSE j \in 0 .. slots - 1 : k = Nh + Place(j)) + 1][2], q[i])
         [] OTHER -> words[i][k]]]
  /\ UNCHANGED <<v, len>>

\* One number for all slots.
encodeSingle ==
  /\ Go("new", "single") /\ slots = 1
  /\ words' = [i \in DOMAIN q |->
                 [words[i] EXCEPT ![0] = WordOf(v[1][1], q[i]), ![Nh] = WordOf(v[1][2], q[i])]]
  /\ UNCHANGED <<v, vals, len>>

-------------------------------------------------------------------------------
(* decode *)

\* The real number a word of the first residue stands for; p divides it here.
RealOf(w) == ((IF w <= q[1] \div 2 THEN w ELSE w - q[1]) \div p) % P
NumberAt(k) == <<RealOf(words[1][k]), RealOf(words[1][Nh + k])>>

BeginDecode == /\ Go("encoded", "decode")
               /\ vals' = arrayBitReverse([j \in 1 .. slots |-> NumberAt((j - 1) * gap)])
               /\ len' = 2
               /\ UNCHANGED <<v, words>>

fftSpecial == /\ phase = "decode" /\ len <= slots
              /\ vals' = SpecialLayerOf(vals, len) /\ len' = 2 * len
              /\ UNCHANGED <<v, phase, words>>

decode == Go("decode", "restored") /\ len > slots /\ UNCHANGED <<v, vals, len, words>>

decodeSingle == /\ Go("single", "restored")
                /\ vals' = <<NumberAt(0)>>
                /\ UNCHANGED <<v, len, words>>

-------------------------------------------------------------------------------
(* The plain transform, of any power of two of numbers *)

BeginFft == /\ Go("new", "fft")
            /\ vals' = arrayBitReverse(vals) /\ len' = 2
            /\ UNCHANGED <<v, words>>

fft == /\ phase = "fft" /\ len <= size
       /\ vals' = FftLayerOf(vals, len) /\ len' = 2 * len
       /\ UNCHANGED <<v, phase, words>>

BeginFftInv == /\ Go("fft", "fftInv") /\ len > size
               /\ vals' = arrayBitReverse(vals) /\ len' = 2
               /\ UNCHANGED <<v, words>>

fftInvLazy == /\ phase = "fftInv" /\ len <= size
              /\ vals' = FftInvLayerOf(vals, len) /\ len' = 2 * len
              /\ UNCHANGED <<v, phase, words>>

fftInv == /\ Go("fftInv", "restored") /\ len > size
          /\ vals' = [k \in DOMAIN vals |-> Divided(vals[k], size)]
          /\ UNCHANGED <<v, len, words>>

Next == BeginEncode \/ fftSpecialInvLazy \/ encode \/ encodeSingle
        \/ BeginDecode \/ fftSpecial \/ decode \/ decodeSingle
        \/ BeginFft \/ fft \/ BeginFftInv \/ fftInvLazy \/ fftInv

Spec == Init /\ [][Next]_vars

-------------------------------------------------------------------------------
(* Properties *)

Sum(f(_), S) == MapThenFoldSet(cplus, <<0, 0>>, f, LAMBDA T : CHOOSE x \in T : TRUE, S)

\* The value of the polynomial with the words w modulo n at ksi^e.
ValueAt(w, n, e) ==
  Sum(LAMBDA k : ctimes(<<(IF w[k] <= n \div 2 THEN w[k] ELSE w[k] - n) % P, 0>>, ksiPows[(k * e) % M]),
      0 .. N - 1)

\* What is encoded is a polynomial whose value at ksi^(5^j) is number j times
\* p, in every residue; with fewer than N / 2 numbers they repeat, which is
\* what lets a ciphertext be rotated by X -> X^5.  A single number, encoded
\* without any transform, is in all of the N / 2 slots.
SlotsAreValues ==
  phase \in {"encoded", "single"} =>
    \A i \in DOMAIN q, j \in 0 .. Nh - 1 :
      ValueAt(words[i], q[i], rotGroup[j]) = ctimes(v[(j % slots) + 1], <<p % P, 0>>)

\* Decoding is the inverse of encoding, and fftInv that of fft, for every
\* number of slots and the numbers in the same order; between them fft has
\* computed the sums over number k times the root of order size to j * k.
RoundTrip ==
  /\ phase = "restored" => vals = v
  /\ phase = "fft" /\ len > size =>
       \A j \in 0 .. size - 1 :
         vals[j + 1] = Sum(LAMBDA k : ctimes(v[k + 1], ksiPows[(j * k * (M \div size)) % M]), 0 .. size - 1)
===============================================================================
