------------------------------- MODULE MCScheme -------------------------------
(***************************************************************************)
(* The three levels of Scheme.cpp and SchemeAlgo.cpp for TLC: operations   *)
(* on a ciphertext's residues (Scheme), rotations composed of rotations    *)
(* that have a key (Rotation), and the algorithms built from operations    *)
(* (SchemeAlgo).  One of them is chosen initially; the others stay idle.   *)
(***************************************************************************)
EXTENDS Scheme, SchemeAlgo

CONSTANTS Slots, MaxCalls

VARIABLES level, slots, ct, keys, request, threw, calls

rotationVars == <<slots, ct, keys, request, threw, calls>>

\* The primes are those that the constructor of Context would find for logp = 7
\* if Q0_BIT_SIZE were 10.
Moduli == <<1033, 137, 113>>
Special == <<97, 89, 73, 193>>

Poly(x0, x1, x2, x3) == [k \in Index |-> <<x0, x1, x2, x3>>[k + 1]]
MCSecret == Poly(0, -1, 0, 1)
MCSamples == {[vx |-> Poly(1, 0, 0, -1), axError |-> Poly(1, 0, -1, 0), bxError |-> Poly(0, -1, 0, 1)]}
MCUniform == [ENCRYPTION |-> Poly(7654321, 123456, 98765, 5555555),
              MULTIPLICATION |-> Poly(31415926, 5358979, 32384626, 4338327),
              CONJUGATION |-> Poly(27182818, 28459045, 23536028, 7471352),
              ROTATION |-> Poly(16180339, 88749894, 84820458, 6834365)]
MCGauss == [ENCRYPTION |-> Poly(1, 0, -1, 0),
            MULTIPLICATION |-> Poly(0, 1, 0, 0),
            CONJUGATION |-> Poly(-1, 0, 0, 0),
            ROTATION |-> Poly(0, 0, 0, 1)]
MCConst == {2, -1}
MCMessage == {Poly(0, Scale, 0, 0), Poly(-Scale, 0, 0, Scale)}

\* Number is 3 and the coefficients of a series are 0, 1 or 2, so that an integer
\* determines the series by its ternary digits; the factors of a product are
\* different primes.
MCCoeffs == [LOGARITHM |-> [i \in 0 .. MaxDegree |-> IF i = 0 THEN 0 ELSE 1 + (i % 2)],
             EXPONENT  |-> [i \in 0 .. MaxDegree |-> 1 + (i % 2)],
             SIGMOID   |-> [i \in 0 .. MaxDegree |-> IF i = 0 \/ (i % 2) = 1 THEN 1 + ((i \div 2) % 2) ELSE 0]]
Primes == <<2, 3, 5, 7, 11, 13, 17, 19, 23>>
MCFactors == [i \in 0 .. MaxDegree - 1 |-> Primes[i + 1]]

R == INSTANCE Rotation WITH LogNh <- Slots, MaxOps <- MaxCalls, call <- request, ops <- calls

ASSUME LevelsAssumption == R!RotationParameters

\* An idle machine; of Scheme, with no ciphertext that could be decrypted.
None == "none"
NoCipher == [fits |-> FALSE]
IdleAlgo == call = [f |-> None] /\ res = << >>

MCInit == \/ /\ level = "scheme" /\ Init
             /\ slots = None /\ ct = None /\ keys = None /\ request = None /\ threw = None /\ calls = None
             /\ IdleAlgo
          \/ /\ level = "rotation" /\ R!Init
             /\ c = NoCipher /\ d = NoCipher /\ held = {} /\ ops = 0 /\ IdleAlgo
          \/ /\ level = "algo" /\ AlgoInit
             /\ c = NoCipher /\ d = NoCipher /\ held = {} /\ ops = 0
             /\ slots = None /\ ct = None /\ keys = None /\ request = None /\ threw = None /\ calls = None

Op(step) == level = "scheme" /\ step /\ UNCHANGED <<level, rotationVars, algoVars>>
Rotate(step) == level = "rotation" /\ step /\ UNCHANGED <<level, vars, algoVars>>
Algo(step) == level = "algo" /\ step /\ UNCHANGED <<level, vars, rotationVars>>

MCNext == \/ Op(AddKey) \/ Op(Copy) \/ Op(Align) \/ Op(Add) \/ Op(Sub) \/ Op(Sub2) \/ Op(Mult) \/ Op(Square)
          \/ Op(SquareWithoutKey) \/ Op(Negate) \/ Op(MultByConst) \/ Op(AddConst) \/ Op(ReScale) \/ Op(ModDown)
          \/ Op(Conjugate) \/ Op(LeftRotate)
          \/ Rotate(R!addLeftRotKey) \/ Rotate(R!addLeftRotKeys) \/ Rotate(R!addRightRotKeys)
          \/ \E r \in 0 .. 2 * R!Nh : Rotate(R!leftRotateAndEqual(r))
          \/ \E r \in 0 .. 2 * R!Nh : Rotate(R!rightRotateAndEqual(r))
          \/ \E n \in 1 .. R!Nh : Rotate(n <= slots /\ R!partialSlotsSumAndEqual(n))
          \/ \E n \in 1 .. MaxDegree, l \in 1 .. MaxLevel :
               \/ Algo(Power(n, l)) \/ Algo(PowerExtended(n, l)) \/ Algo(Prod(n, l))
               \/ Algo(InnerProd(n, l)) \/ Algo(InverseOf(n, l)) \/ Algo(InverseExtended(n, l))
               \/ Algo(SumOfAll(n, l)) \/ Algo(MultVec(n, l)) \/ Algo(MultAndModSwitchVec(n, l))
               \/ Algo(Fft(n, l)) \/ Algo(FftInv(n, l)) \/ Algo(Distance(n, l))
               \/ \E f \in DOMAIN Coeffs :
                    \/ Algo(Series(f, n, l)) \/ Algo(Function(f, n, l))
                    \/ Algo(FunctionExtended(f, n, l))

MCSpec == MCInit /\ [][MCNext]_<<level, vars, rotationVars, algoVars>>

-------------------------------------------------------------------------------
(* The properties of Rotation *)

\* Rotation: a rotation is by the whole amount, or by the bits below one without
\* a key.
RotationIsWhole == R!RotationIsWhole

\* Rotation: the sum over the slots has every rotation of a message once.
SumIsOverAllSlots == R!SumIsOverAllSlots
===============================================================================
