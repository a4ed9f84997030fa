------------------------------- MODULE MCContext -------------------------------
(***************************************************************************)
(* The sequential parts of the repository that do not call one another,    *)
(* for TLC: of Context.cpp the conversions between residues (RnsContext),  *)
(* the constructor's search (ContextSetup), the encoder (Encoding) and the *)
(* samplers (Sampling); the transpositions of MatrixUtils (Transposition); *)
(* and gem5's branch predictor (C910BiModeBP).  One of them is chosen      *)
(* initially; the others stay idle.                                        *)
(***************************************************************************)
EXTENDS RnsContext, ContextSetup, Sampling, C910BiModeBP

CONSTANTS P, LogN, MaxSide

VARIABLES
  part,
  vector, coding, vals, len, words,
  m, n, in, calls, pass

codingVars == <<vector, coding, vals, len, words>>
matrixVars == <<m, n, in, calls, pass>>

\* RnsContext: as in the program the first prime is much larger than the others,
\* so that a raise leaves the range of Barrett's reduction and words are left
\* above their modulus.
RnsModuli == <<61, 11, 3>>
Special == <<13, 7>>
Inputs == {x \in 0 .. 2012 : x % 4 = 0} \cup {2012}
KeyValues == {3, 76, 2000}

\* ContextSetup: no candidate is below 0, where the code's would wrap around;
\* the constructor warns when they come near.  The moduli given directly are a
\* prime whose root of unity comes from a root that is not primitive
\* (7840 = 2^5 * 5 * 7^2), one that is not 1 modulo M, one that is not prime, one
\* without a root, and the one that is found as special prime.
Small == [logN : {1, 2}, logp : {6, 7}, L : 1 .. 4, K : 0 .. 3, direct : {0}]
Larger == [logN : {3}, logp : {8}, L : 1 .. 3, K : 1 .. 2, direct : {0}]
Direct == [logN : {2}, logp : {6}, L : {1}, K : {1}, direct : {7841, 19, 25, 15, 73}]
MCArguments == Small \cup Larger \cup Direct

\* Encoding: vectors of 1, 2, 4 and 8 numbers, one of them other than zero, and
\* one vector of each length without zeros.
CodingModuli == <<97, 193>>
Root == <<2, 20>>
Numbers == {<<1, 0>>, <<0, 1>>, <<16, 3>>}
Unit(length, k, x) == [j \in 1 .. length |-> IF j = k THEN x ELSE <<0, 0>>]
Generic(length) == [j \in 1 .. length |-> <<(3 + 7 * j) % P, (11 * j * j) % P>>]
MCVectors == UNION {{Unit(s, k, x) : k \in 1 .. s, x \in Numbers} \cup {Generic(s)} : s \in {1, 2, 4, 8}}

\* Sampling: two moduli, four coefficients, two of a secret other than zero.
SamplingModuli == <<17, 13>>
MCErrors == {-2, 0, 3}

\* C910BiModeBP: two conditional branches that share counters, and a jump; after
\* no branch, or a full history of jumps.
Threads == {1, 2}
Branches == {4, 68}
Jumps == {8}
Warmups == {0, HistoryBits + 1}
Bits == INSTANCE Bitwise
BitXor(x, y) == Bits!^^(x, y)

Coding == INSTANCE Encoding WITH ksi <- Root, q <- CodingModuli, p <- 2, Vectors <- MCVectors,
                                 v <- vector, phase <- coding
Matrix == INSTANCE Transposition

ASSUME PartsAssumption == Coding!EncodingParameters /\ PredictorParameters

\* An idle machine; of RnsContext, one that starts from zero, and of C910BiModeBP,
\* one that fetches nothing.
None == "none"
IdleRns == a = Residues(0, 1) /\ l = 1 /\ raised = FALSE /\ ops = 0
IdleBranch == /\ globalHistoryReg = [t \in Thread |-> 0] /\ committed = globalHistoryReg
              /\ choiceCounters = << >> /\ takenCounters = << >> /\ notTakenCounters = << >>
              /\ flight = [t \in Thread |-> << >>] /\ fetched = 0
IdleSetup == /\ args = [logN |-> 1, logp |-> 6, L |-> 1, K |-> 0, direct |-> 1] /\ phase = "done"
             /\ side = 1 /\ bnd = 1 /\ qVec = <<1>> /\ pVec = <<>> /\ behind = <<>> /\ tables = <<>>
IdleCoding == vector = None /\ coding = None /\ vals = None /\ len = None /\ words = None
IdleSampling == /\ sampler = "Uniform" /\ res = [x \in Cells |-> 0] /\ at = 0
                /\ drewMax = FALSE /\ overrun = FALSE
IdleMatrix == m = None /\ n = None /\ in = None /\ calls = None /\ pass = None

MCInit ==
  \/ /\ part = "rns" /\ Init
     /\ IdleSetup /\ IdleCoding /\ IdleSampling /\ IdleMatrix /\ IdleBranch
  \/ /\ part = "setup" /\ SetupInit
     /\ IdleRns /\ IdleCoding /\ IdleSampling /\ IdleMatrix /\ IdleBranch
  \/ /\ part = "coding" /\ Coding!Init
     /\ IdleRns /\ IdleSetup /\ IdleSampling /\ IdleMatrix /\ IdleBranch
  \/ /\ part = "sampling" /\ SamplingInit
     /\ IdleRns /\ IdleSetup /\ IdleCoding /\ IdleMatrix /\ IdleBranch
  \/ /\ part = "matrix" /\ Matrix!Init
     /\ IdleRns /\ IdleSetup /\ IdleCoding /\ IdleSampling /\ IdleBranch
  \/ /\ part = "branch" /\ PredictorInit
     /\ IdleRns /\ IdleSetup /\ IdleCoding /\ IdleSampling /\ IdleMatrix

InRns(step) == /\ part = "rns" /\ step
               /\ UNCHANGED <<part, setupVars, codingVars, samplingVars, matrixVars, predictorVars>>
InSetup(step) == /\ part = "setup" /\ step
                 /\ UNCHANGED <<part, vars, codingVars, samplingVars, matrixVars, predictorVars>>
InCoding(step) == /\ part = "coding" /\ step
                  /\ UNCHANGED <<part, vars, setupVars, samplingVars, matrixVars, predictorVars>>
InSampling(step) == /\ part = "sampling" /\ step
                    /\ UNCHANGED <<part, vars, setupVars, codingVars, matrixVars, predictorVars>>
InMatrix(step) == /\ part = "matrix" /\ step
                  /\ UNCHANGED <<part, vars, setupVars, codingVars, samplingVars, predictorVars>>
InBranch(step) == /\ part = "branch" /\ step
                  /\ UNCHANGED <<part, vars, setupVars, codingVars, samplingVars, matrixVars>>

MCNext ==
  \/ InRns(raiseAndEqual) \/ InRns(backAndEqual) \/ InRns(reScaleAndEqual) \/ InRns(modDownAndEqual)
  \/ InRns(evalAndEqual) \/ InRns(mulByKey)
  \/ InSetup(FirstPrime) \/ InSetup(NextPrime) \/ InSetup(PrimesFound)
  \/ InSetup(SpecialPrime) \/ InSetup(SpecialFound) \/ InSetup(MakeTables)
  \/ InSetup(Ready) \/ InSetup(Throw)
  \/ InCoding(Coding!BeginEncode) \/ InCoding(Coding!fftSpecialInvLazy) \/ InCoding(Coding!encode)
  \/ InCoding(Coding!encodeSingle) \/ InCoding(Coding!BeginDecode) \/ InCoding(Coding!fftSpecial)
  \/ InCoding(Coding!decode) \/ InCoding(Coding!decodeSingle) \/ InCoding(Coding!BeginFft)
  \/ InCoding(Coding!fft) \/ InCoding(Coding!BeginFftInv) \/ InCoding(Coding!fftInvLazy)
  \/ InCoding(Coding!fftInv)
  \/ InSampling(sampleGauss) \/ InSampling(sampleZO)
  \/ InSampling(sampleUniform) \/ InSampling(sampleHWT)
  \/ InMatrix(Matrix!Transpose) \/ InMatrix(Matrix!Transpose4) \/ InMatrix(Matrix!SwapRow)
  \/ InMatrix(Matrix!ReverseRecursive) \/ InMatrix(Matrix!ReverseOffset) \/ InMatrix(Matrix!Split)
  \/ InMatrix(Matrix!Merge) \/ InMatrix(Matrix!RotateColumns) \/ InMatrix(Matrix!ShuffleRows)
  \/ InMatrix(Matrix!ShuffleColumns)
  \/ \E t \in Thread : \/ InBranch(Predict(t)) \/ InBranch(PredictUncond(t)) \/ InBranch(Squash(t))
                       \/ InBranch(Mispredicted(t)) \/ InBranch(Commit(t))

MCSpec == MCInit /\ [][MCNext]_<<part, vars, setupVars, codingVars, samplingVars, matrixVars, predictorVars>>

-------------------------------------------------------------------------------
(* The properties of the instances, where they are not idle *)

\* Encoding: the encoded polynomial has the numbers as its values.
SlotsAreValues == part = "coding" => Coding!SlotsAreValues

\* Encoding: decoding is the inverse of encoding, fftInv of fft.
RoundTrip == part = "coding" => Coding!RoundTrip

\* Transposition: trip_mtp and dep_mtp leave the transposed matrix.
LeavesTransposed == part = "matrix" => Matrix!LeavesTransposed
===============================================================================
