----------------------------- MODULE ContextSetup -----------------------------
(***************************************************************************)
(* How the constructor of Context (src/src/Context.cpp) finds its moduli,  *)
(* candidate by candidate, and what it computes for each of them with the  *)
(* number theory of src/src/Numb.cpp: first a large prime, then L - 1      *)
(* primes and then K special ones at both sides of 2^logp, all of them 1   *)
(* modulo M = 2 * N.  The other modules take what is found here as their   *)
(* constants (psi in NttTables, q and p in Rns).                           *)
(***************************************************************************)
EXTENDS Numbers, Sequences

CONSTANTS
  Arguments, \* of the constructor: records [logN, logp, L, K, direct]
  Q0Bits     \* Q0_BIT_SIZE, the bits of the first prime (61)

ASSUME SetupParameters ==
  /\ Q0Bits \in Nat
  /\ \A x \in Arguments : /\ {x.logN, x.logp, x.L} \subseteq Nat \ {0}
                          /\ x.K \in Nat /\ x.direct \in Nat
                          /\ x.direct # 0 => x.L = 1

VARIABLES
  args,   \* the arguments
  phase,  \* "first", "primes", "special", "tables" and "done", or "threw"
  side,   \* which of the two candidates of a round is next
  bnd,    \* the distance of the candidates, in multiples of M
  qVec,   \* the primes found
  pVec,   \* the special primes found
  behind, \* primes written behind the end of qVec
  tables  \* what has been computed for the first moduli of qVec and pVec

setupVars == <<args, phase, side, bnd, qVec, pVec, behind, tables>>

N == Pow2[args.logN]
M == 2 * N
N1 == Pow2[args.logN \div 2]
N2 == Pow2[args.logN - args.logN \div 2]

-------------------------------------------------------------------------------
(* Number theory *)

powMod(b, e, n) ==
  LET pow[x \in Nat] ==
        IF x = 0 THEN 1
        ELSE LET half == pow[x \div 2] IN (((half * half) % n) * (IF x % 2 = 1 THEN b % n ELSE 1)) % n
  IN  pow[e]

\* n without its factors f.
Without(f, n) == LET w[x \in Nat] == IF x % f = 0 THEN w[x \div f] ELSE x IN w[n]

\* A base that does not show that n is composite.
OddPart(n) == Without(2, n - 1)
Passes(b, n) ==
  \/ powMod(b, OddPart(n), n) = 1
  \/ \E j \in 0 .. Q0Bits : /\ OddPart(n) * Pow2[j] < n - 1
                            /\ powMod(b, OddPart(n) * Pow2[j], n) = n - 1

\* Two hundred random bases: as good as all of them.
primeTest(n) == n >= 2 /\ (n = 2 \/ n % 2 = 1) /\ \A b \in 1 .. n - 1 : Passes(b, n)

\* The loop over i ends at the square root of what is left: the square of a
\* prime is taken for a prime.
OddFactors(n) ==
  LET from[i \in Nat, x \in Nat] ==
        IF i * i >= x THEN IF x > 2 THEN {x} ELSE {}
        ELSE IF x % i = 0 THEN {i} \cup from[i + 1, Without(i, x)] ELSE from[i + 1, x]
  IN  from[3, n]
findPrimeFactors(n) == (IF n % 2 = 0 THEN {2} ELSE {}) \cup OddFactors(Without(2, n))

IsRoot(r, n) == \A f \in findPrimeFactors(n - 1) : powMod(r, (n - 1) \div f, n) # 1
AnyRoot(n) == 2
findPrimitiveRoot(n) == CHOOSE r \in 2 .. n - 1 : IsRoot(r, n) /\ \A s \in 2 .. r - 1 : ~IsRoot(s, n)

\* Where M does not divide n - 1 the code goes on with 2^64 - 1, here modulo n.
findMthRootOfUnity(n) ==
  IF (n - 1) % M = 0 THEN powMod(findPrimitiveRoot(n), (n - 1) \div M, n)
  ELSE (powMod(2, 64, n) + n - 1) % n

\* It throws where there is no inverse.
HasInverse(x, n) == {d \in 2 .. n : n % d = 0 /\ x % d = 0} = {}
invMod(x, n) == powMod(x % n, n - 2, n)

-------------------------------------------------------------------------------
(* The search *)

SetupInit == /\ args \in Arguments
             /\ IF args.direct # 0 THEN phase = "special" /\ qVec = <<args.direct>>
                ELSE phase = "first" /\ qVec = <<>>
             /\ side = 1 /\ bnd = 1 /\ pVec = <<>> /\ behind = <<>> /\ tables = <<>>

Candidate == Pow2[args.logp] + (IF side = 1 THEN bnd ELSE 0 - bnd) * M + 1

\* On to the other candidate, or to the next round.
Onward == IF side = 1 THEN side' = 2 /\ UNCHANGED bnd ELSE side' = 1 /\ bnd' = bnd + 1

FirstPrime ==
  /\ phase = "first"
  /\ LET prime == Pow2[Q0Bits] + bnd * M + 1
     IN  IF primeTest(prime)
         THEN qVec' = <<prime>> /\ bnd' = 1 /\ phase' = "primes"
         ELSE bnd' = bnd + 1 /\ UNCHANGED <<qVec, phase>>
  /\ UNCHANGED <<args, side, pVec, behind, tables>>

\* The bound of the loop is tested once for two candidates.
SearchingOneMore == phase = "primes" /\ (side = 2 \/ Len(qVec) <= args.L)
Searching == phase = "primes" /\ (side = 2 \/ Len(qVec) < args.L)

NextPrime ==
  /\ Searching
  /\ CASE ~primeTest(Candidate) -> UNCHANGED <<qVec, behind>>
       [] primeTest(Candidate) /\ Len(qVec) < args.L ->
            qVec' = Append(qVec, Candidate) /\ UNCHANGED behind
       [] OTHER -> behind' = Append(behind, Candidate) /\ UNCHANGED qVec
  /\ Onward
  /\ UNCHANGED <<args, phase, pVec, tables>>

\* The search for special primes goes on where the other one ended.
FirstBnd == 1
SpecialBnd == bnd
PrimesFound ==
  /\ phase = "primes" /\ ~Searching
  /\ phase' = "special" /\ bnd' = SpecialBnd
  /\ UNCHANGED <<args, side, qVec, pVec, behind, tables>>

SpecialPrime ==
  /\ phase = "special" /\ Len(pVec) < args.K
  /\ pVec' = IF primeTest(Candidate) THEN Append(pVec, Candidate) ELSE pVec
  /\ Onward
  /\ UNCHANGED <<args, phase, qVec, behind, tables>>

SpecialFound ==
  /\ phase = "special" /\ Len(pVec) = args.K
  /\ phase' = "tables"
  /\ UNCHANGED <<args, side, bnd, qVec, pVec, behind, tables>>

-------------------------------------------------------------------------------
(* What is computed for a modulus *)

foundModuli == qVec \o pVec

Log2(n) == CHOOSE e \in 0 .. 28 : Pow2[e] <= n /\ n < Pow2[e + 1]
ShortTwok(n) == 2 * Log2(n)
Twok(n) == 2 * (Log2(n) + 1)

TablesOf(n) ==
  LET root == findMthRootOfUnity(n)
  IN  [root    |-> root,
       rootInv |-> invMod(root, n),
       NInv    |-> invMod(N, n),
       colRoot |-> powMod(root, N2, n),
       rowRoot |-> powMod(root, N1, n),
       twok    |-> Twok(n),
       r       |-> Pow2[Twok(n)] \div n]

\* With as many rows as columns the tables of the rows are those of the columns.
TablesExist(n) == HasInverse(findMthRootOfUnity(n), n) /\ HasInverse(N, n)
MakeTables ==
  /\ phase = "tables" /\ Len(tables) < Len(foundModuli)
  /\ TablesExist(foundModuli[Len(tables) + 1])
  /\ LET t == TablesOf(foundModuli[Len(tables) + 1])
     IN  tables' = Append(tables, IF N1 = N2 THEN [t EXCEPT !.rowRoot = t.colRoot] ELSE t)
  /\ UNCHANGED <<args, phase, side, bnd, qVec, pVec, behind>>

\* Then, for the base conversions, the inverses of products of moduli modulo the
\* others, which exist if no two of them have a common factor.
ProductsInvertible ==
  \A i, j \in DOMAIN foundModuli : i # j => HasInverse(foundModuli[i], foundModuli[j])
Ready == /\ phase = "tables" /\ Len(tables) = Len(foundModuli) /\ ProductsInvertible
         /\ phase' = "done"
         /\ UNCHANGED <<args, side, bnd, qVec, pVec, behind, tables>>

\* A modulus given on the command line may be any number.
Throw == /\ phase = "tables"
         /\ IF Len(tables) < Len(foundModuli) THEN ~TablesExist(foundModuli[Len(tables) + 1])
            ELSE ~ProductsInvertible
         /\ phase' = "threw"
         /\ UNCHANGED <<args, side, bnd, qVec, pVec, behind, tables>>

SetupNext == FirstPrime \/ NextPrime \/ PrimesFound \/ SpecialPrime \/ SpecialFound
             \/ MakeTables \/ Ready \/ Throw

SetupSpec == SetupInit /\ [][SetupNext]_setupVars

-------------------------------------------------------------------------------
(* Properties *)

IsPrime(n) == n > 1 /\ \A d \in 2 .. n - 1 : n % d # 0

\* All moduli, the special ones included, are different primes, 1 modulo M,
\* although the two searches share candidates and one of them counts past its
\* end: the residues determine an integer, and every modulus has an NTT.  A
\* modulus given on the command line is not tested.
ModuliServe ==
  args.direct = 0 =>
    /\ \A i \in DOMAIN foundModuli : IsPrime(foundModuli[i]) /\ foundModuli[i] % M = 1
    /\ \A i, j \in DOMAIN foundModuli : i # j => foundModuli[i] # foundModuli[j]

\* The search writes at most one prime behind qVec, only where the first of
\* two candidates was the last prime wanted; no special prime is the same.
OneBehind ==
  /\ Len(behind) <= 1
  /\ behind # <<>> => /\ Len(qVec) = args.L /\ qVec[args.L] > Pow2[args.logp]
                      /\ qVec[args.L] + behind[1] = Pow2[args.logp + 1] + 2
                      /\ \A k \in DOMAIN pVec : pVec[k] # behind[1]

\* The root has order M, and those of the rows and columns twice their
\* length, although findPrimeFactors takes the square of a prime for a prime
\* and the root it came from may not be primitive; inverses are inverses, and
\* Barrett's quotient is too small by at most one for every product of residues
\* (of a modulus below 2^10, for TLC's integers).
TablesServe ==
  \A i \in DOMAIN tables :
    LET t == tables[i]  n == foundModuli[i]
    IN  IsPrime(n) /\ n % M = 1 =>
          /\ powMod(t.root, N, n) = n - 1 /\ (t.root * t.rootInv) % n = 1 /\ (N * t.NInv) % n = 1
          /\ powMod(t.colRoot, N1, n) = n - 1 /\ powMod(t.rowRoot, N2, n) = n - 1
          /\ n < Pow2[10] => \A c \in 1 .. n - 1 : (c * n * t.r) \div Pow2[t.twok] \in {c - 1, c}
===============================================================================
