------------------------------- MODULE Sampling -------------------------------
(***************************************************************************)
(* The samplers of src/src/Context.cpp.  Each of them fills the residues   *)
(* of a random polynomial: a row of Columns words for each modulus.        *)
(* What rand() returns is any of its outcomes.                             *)
(***************************************************************************)
EXTENDS Integers, Sequences, FiniteSets

CONSTANTS
  Columns,       \* N, the coefficients
  Moduli,        \* qVec and pVec in a row
  HammingWeight, \* h, the coefficients of a secret key that are not zero
  Errors         \* what the rounded Gaussian of sampleGauss may be

ASSUME SamplingParameters ==
  /\ {Columns, HammingWeight} \subseteq Nat \ {0} /\ Columns % 2 = 0 /\ HammingWeight <= Columns
  /\ Moduli \in Seq(Nat \ {0}) /\ Moduli # << >>
  /\ Errors \subseteq Int
  /\ \A j \in DOMAIN Moduli, g \in Errors \cup {-1, 1} : Moduli[j] > 2 * g /\ Moduli[j] > 0 - 2 * g

VARIABLES
  sampler, \* which sampler is running
  res,     \* the words, row by row; new buffers are zero
  at,      \* the loop variable: the next coefficient, or how many are not zero
  drewMax, \* history: rand() returned RAND_MAX
  overrun  \* words have been written behind the last row

samplingVars == <<sampler, res, at, drewMax, overrun>>

Rows == DOMAIN Moduli
Cells == 0 .. Len(Moduli) * Columns - 1
Cell(j, i) == (j - 1) * Columns + i

SamplingInit == /\ sampler \in {"Gauss", "ZO", "Uniform", "HWT"}
                /\ res = [c \in Cells |-> 0] /\ at = 0
                /\ drewMax = FALSE /\ overrun = FALSE

WordOf(g, n) == IF g >= 0 THEN g ELSE n + g

\* The words of the small integer g, in column i of every row; in column Columns,
\* which is the first column of the next row, and behind the last one.
With(s, i, g) ==
  [c \in Cells |-> IF \E j \in Rows : c = Cell(j, i)
                   THEN WordOf(g, Moduli[CHOOSE j \in Rows : c = Cell(j, i)]) ELSE s[c]]

sampleGauss ==
  /\ sampler = "Gauss" /\ at < Columns
  /\ \E g1, g2 \in Errors : res' = With(With(res, at, g1), at + 1, g2)
  /\ at' = at + 2
  /\ UNCHANGED <<sampler, drewMax, overrun>>

sampleZO ==
  /\ sampler = "ZO" /\ at < Columns
  /\ \E zo \in {-1, 0, 1} : res' = With(res, at, zo)
  /\ at' = at + 1
  /\ UNCHANGED <<sampler, drewMax, overrun>>

\* rand() divided by RAND_MAX may be 1, and the word the modulus.
sampleUniform ==
  /\ sampler = "Uniform" /\ at \in Cells
  /\ LET n == Moduli[at \div Columns + 1]
     IN  \E x \in {0, n \div 2, n} : /\ res' = [res EXCEPT ![at] = x]
                                     /\ drewMax' = (drewMax \/ x = n)
  /\ at' = at + 1
  /\ UNCHANGED <<sampler, overrun>>

\* A column that is taken is drawn again; for RAND_MAX the column is Columns.
NeverTaken(s, i) == FALSE
Taken(s, i) == i \in Cells /\ s[i] # 0
sampleHWT ==
  /\ sampler = "HWT" /\ at < HammingWeight
  /\ \E i \in 0 .. Columns, hwt \in {-1, 1} :
       /\ ~Taken(res, i)
       /\ res' = With(res, i, hwt)
       /\ drewMax' = (drewMax \/ i = Columns)
       /\ overrun' = (overrun \/ i = Columns)
  /\ at' = at + 1
  /\ UNCHANGED sampler

SamplingNext == sampleGauss \/ sampleZO \/ sampleUniform \/ sampleHWT

SamplingSpec == SamplingInit /\ [][SamplingNext]_samplingVars

-------------------------------------------------------------------------------
(* Properties *)

Done == at = CASE sampler = "HWT" -> HammingWeight [] sampler = "Uniform" -> Len(Moduli) * Columns [] OTHER -> Columns

\* The small integer a column of the residues stands for, if there is one.
Represents(g, i) == \A j \in Rows : (res[Cell(j, i)] - g) % Moduli[j] = 0

\* Residues of errors and secrets are those of one small polynomial, whatever
\* the modulus of a row; a secret has h coefficients that are 1 or -1.  Unless
\* rand() returns RAND_MAX: then sampleHWT writes to the next rows and behind
\* the last one, which happens only then.
SampleIsOnePolynomial ==
  Done /\ sampler # "Uniform" /\ ~drewMax =>
    /\ \A i \in 0 .. Columns - 1 : \E g \in Errors \cup {-1, 0, 1} : Represents(g, i)
    /\ sampler = "HWT" =>
         /\ Cardinality({i \in 0 .. Columns - 1 : Represents(1, i) \/ Represents(-1, i)}) = HammingWeight
         /\ Cardinality({i \in 0 .. Columns - 1 : Represents(0, i)}) = Columns - HammingWeight
         /\ ~overrun
===============================================================================
