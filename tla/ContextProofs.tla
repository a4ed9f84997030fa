------------------------------ MODULE ContextProofs ------------------------------
(***************************************************************************)
(* Proofs about the parts that MCContext puts together for TLC: about the  *)
(* residue number system, that the operations on residues do what          *)
(* RnsInteger says of integers; about the branch predictor, for every      *)
(* number of threads, width of the history and of the register, size of    *)
(* the tables and exclusive or, that the history register and the          *)
(* histories of the branches in flight are the path the fetch unit is on,  *)
(* and that the counters are trained at the indexes of that path.          *)
(***************************************************************************)
EXTENDS RnsContext, ContextSetup, Sampling, C910BiModeBP, RnsLemmas, SequenceTheorems, FiniteSetTheorems, TLAPS

-------------------------------------------------------------------------------
(* Residues stay reduced, or natural when they are raised *)

IInv == /\ TypeOK
        /\ a \in [1 .. Count(l, raised) -> Int]

LEMMA TypeFacts ==
  ASSUME IInv
  PROVE  /\ l \in 1 .. L /\ raised \in BOOLEAN /\ ops \in 0 .. MaxOps
         /\ raised => a \in [1 .. l + K -> Int] /\ \A i \in 1 .. l + K : a[i] \in Nat
         /\ ~raised => a \in [1 .. l -> Int] /\ \A i \in 1 .. l : a[i] \in 0 .. q[i] - 1
<1>1. l \in 1 .. L /\ raised \in BOOLEAN /\ ops \in 0 .. MaxOps
  BY DEF IInv, TypeOK
<1>2. CASE raised
  BY <1>1, <1>2 DEF IInv, TypeOK, Count
<1>3. CASE ~raised
  BY <1>1, <1>3 DEF IInv, TypeOK, Count
<1> QED
  BY <1>1, <1>2, <1>3

\* What is to be shown of a step.
LEMMA TypeIntro ==
  /\ l' \in 1 .. L /\ ops' \in 0 .. MaxOps
  /\ \/ raised' = TRUE /\ a' \in [1 .. l' + K -> Int] /\ \A i \in 1 .. l' + K : a'[i] \in Nat
     \/ raised' = FALSE /\ a' \in [1 .. l' -> Int] /\ \A i \in 1 .. l' : a'[i] \in 0 .. q[i] - 1
  => IInv'
<1> SUFFICES ASSUME /\ l' \in 1 .. L /\ ops' \in 0 .. MaxOps
                    /\ \/ /\ raised' = TRUE /\ a' \in [1 .. l' + K -> Int]
                          /\ \A i \in 1 .. l' + K : a'[i] \in Nat
                       \/ /\ raised' = FALSE /\ a' \in [1 .. l' -> Int]
                          /\ \A i \in 1 .. l' : a'[i] \in 0 .. q[i] - 1
             PROVE  IInv'
  OBVIOUS
<1>1. CASE /\ raised' = TRUE /\ a' \in [1 .. l' + K -> Int]
           /\ \A i \in 1 .. l' + K : a'[i] \in Nat
  BY <1>1 DEF IInv, TypeOK, Count
<1>2. CASE /\ raised' = FALSE /\ a' \in [1 .. l' -> Int]
           /\ \A i \in 1 .. l' : a'[i] \in 0 .. q[i] - 1
  BY <1>2 DEF IInv, TypeOK, Count
<1> QED
  BY <1>1, <1>2

LEMMA InitTyped ==
  ASSUME Init PROVE IInv /\ ~raised
<1>1. PICK x \in Start : a = Residues(x, l)
  BY DEF Init
<1>2. l \in 1 .. L /\ raised = FALSE /\ ops = 0 /\ x \in Int
  BY RnsContextAssumption DEF Init
<1>3. ASSUME NEW i \in 1 .. l PROVE x % q[i] \in 0 .. q[i] - 1 /\ x % q[i] \in Int
  <2> DEFINE b == q[i]
  <2>1. b \in Nat \ {0}
    BY <1>2, Lengths
  <2> HIDE DEF b
  <2>2. x % b \in 0 .. b - 1
    BY <1>2, <2>1, DivisionFacts
  <2>3. x % b \in Int
    BY <2>1, <2>2
  <2> QED
    BY <2>2, <2>3 DEF b
<1>4. a = [i \in 1 .. l |-> x % q[i]]
  BY <1>1 DEF Residues
<1>5. a \in [1 .. l -> Int] /\ \A i \in 1 .. l : a[i] \in 0 .. q[i] - 1
  BY <1>3, <1>4
<1>6. ops \in 0 .. MaxOps /\ (IF raised THEN l + K ELSE l) = l
  BY <1>2, RnsContextAssumption
<1>7. DOMAIN a = 1 .. l
  BY <1>5
<1> QED
  BY <1>2, <1>5, <1>6, <1>7 DEF IInv, TypeOK, Count

LEMMA StepTyped ==
  ASSUME IInv, [Next]_vars PROVE IInv'
<1>0. /\ l \in 1 .. L /\ l \in Nat /\ raised \in BOOLEAN /\ ops \in 0 .. MaxOps
      /\ raised => a \in [1 .. l + K -> Int] /\ \A i \in 1 .. l + K : a[i] \in Nat
      /\ ~raised => a \in [1 .. l -> Int] /\ \A i \in 1 .. l : a[i] \in 0 .. q[i] - 1
  <2>1. l \in 1 .. L => l \in Nat
    BY Lengths
  <2> QED
    BY <2>1, TypeFacts
<1>1. ASSUME Step PROVE ops' \in 0 .. MaxOps
  BY <1>0, <1>1, RnsContextAssumption DEF Step
<1>2. CASE raiseAndEqual
  <2>1. ~raised /\ raised' = TRUE /\ a' = raise(a, l) /\ l' = l /\ ops' \in 0 .. MaxOps
    BY <1>1, <1>2 DEF raiseAndEqual
  <2>2. a' \in [1 .. l + K -> Int]
    BY <1>0, <2>1, RaiseFacts
  <2>3. ASSUME NEW i \in 1 .. l + K PROVE a'[i] \in Nat
    <3>1. CASE i <= l
      <4>1. i \in 1 .. l /\ i \in 1 .. L
        BY <1>0, <3>1, Lengths
      <4>2. a'[i] = a[i]
        BY <1>0, <2>1, <4>1, RaiseFacts
      <4>3. a[i] \in 0 .. q[i] - 1 /\ q[i] \in Nat
        BY <1>0, <2>1, <4>1, Lengths
      <4> QED
        BY <4>2, <4>3
    <3>2. CASE ~(i <= l)
      BY <1>0, <2>1, <3>2, RaiseFacts
    <3> QED
      BY <3>1, <3>2
  <2> QED
    BY <1>0, <2>1, <2>2, <2>3, TypeIntro
<1>3. CASE backAndEqual
  <2>1. raised /\ raised' = FALSE /\ a' = back(a, l) /\ l' = l /\ ops' \in 0 .. MaxOps
    BY <1>1, <1>3 DEF backAndEqual
  <2>2. a' \in [1 .. l -> Int] /\ \A i \in 1 .. l : a'[i] \in 0 .. q[i] - 1
    BY <1>0, <2>1, BackFacts
  <2> QED
    BY <1>0, <2>1, <2>2, TypeIntro
<1>4. CASE reScaleAndEqual
  <2>1. ~raised /\ l > 1 /\ a' = reScale(a, l) /\ l' = l - 1 /\ raised' = FALSE /\ ops' \in 0 .. MaxOps
    BY <1>0, <1>1, <1>4 DEF reScaleAndEqual
  <2>2. a[l] \in 0 .. q[l] - 1 /\ l - 1 \in 1 .. L
    BY <1>0, <2>1, Lengths
  <2>3. a' \in [1 .. l - 1 -> Int] /\ \A i \in 1 .. l - 1 : a'[i] \in 0 .. q[i] - 1
    BY <1>0, <2>1, <2>2, ReScaleValue
  <2> QED
    BY <2>1, <2>2, <2>3, TypeIntro
<1>5. CASE modDownAndEqual
  <2>1. PICK d \in 1 .. l - 1 : a' = modDown(a, l, d) /\ l' = l - d
    BY <1>5 DEF modDownAndEqual
  <2>2. ~raised /\ raised' = FALSE /\ ops' \in 0 .. MaxOps
    BY <1>0, <1>1, <1>5 DEF modDownAndEqual
  <2>3. l - d \in 1 .. L /\ \A i \in 1 .. l - d : i \in 1 .. l
    BY <1>0, Lengths
  <2>4. a' \in [1 .. l - d -> Int] /\ \A i \in 1 .. l - d : a'[i] = a[i]
    BY <1>0, <2>1, <2>2, ModDownValue
  <2>5. \A i \in 1 .. l - d : a'[i] \in 0 .. q[i] - 1
    BY <1>0, <2>2, <2>3, <2>4
  <2> QED
    BY <2>1, <2>2, <2>3, <2>4, <2>5, TypeIntro
<1>6. CASE evalAndEqual
  <2>1. ~raised /\ raised' = FALSE /\ a' = eval(a, l) /\ l' = l /\ ops' \in 0 .. MaxOps
    BY <1>0, <1>1, <1>6 DEF evalAndEqual
  <2>2. a' \in [1 .. l -> Int] /\ \A i \in 1 .. l : a'[i] \in 0 .. q[i] - 1
    BY <1>0, <2>1, EvalValue
  <2> QED
    BY <1>0, <2>1, <2>2, TypeIntro
<1>7. CASE mulByKey
  <2>1. PICK c \in Keys : a' = IF raised THEN mulKey(a, KeyResidues(c), l) ELSE mul(a, Residues(c, l), l)
    BY <1>7 DEF mulByKey
  <2>2. l' = l /\ raised' = raised /\ ops' \in 0 .. MaxOps /\ c \in Int
    BY <1>1, <1>7, RnsContextAssumption DEF mulByKey
  <2>3. CASE raised
    <3>1. a' = mulKey(a, KeyResidues(c), l) /\ raised' = TRUE
      BY <1>0, <2>1, <2>2, <2>3
    <3>2. a' \in [1 .. l + K -> Int] /\ \A i \in 1 .. l + K : a'[i] \in Nat
      BY <1>0, <2>2, <2>3, <3>1, MulKeyValue
    <3> QED
      BY <1>0, <2>2, <3>1, <3>2, TypeIntro
  <2>4. CASE ~raised
    <3>1. a' = mul(a, Residues(c, l), l) /\ raised' = FALSE
      BY <1>0, <2>1, <2>2, <2>4
    <3>2. a' \in [1 .. l -> Int] /\ \A i \in 1 .. l : a'[i] \in 0 .. q[i] - 1
      BY <1>0, <2>2, <2>4, <3>1, MulValue
    <3> QED
      BY <1>0, <2>2, <3>1, <3>2, TypeIntro
  <2> QED
    BY <2>3, <2>4
<1>8. CASE UNCHANGED vars
  BY <1>8 DEF vars, IInv, TypeOK, Count
<1> QED
  BY <1>2, <1>3, <1>4, <1>5, <1>6, <1>7, <1>8 DEF Next

LEMMA ResiduesTyped == Spec => []IInv
<1>1. Init => IInv
  BY InitTyped
<1>2. IInv /\ [Next]_vars => IInv'
  BY StepTyped
<1> QED
  BY <1>1, <1>2, PTL DEF Spec

\* There are as many residues as moduli, and outside a key switch every word is
\* below its modulus - for any moduli, and after any sequence of operations.
THEOREM TypeCorrect == Spec => []TypeOK
<1>1. IInv => TypeOK
  BY DEF IInv
<1> QED
  BY <1>1, ResiduesTyped, PTL

THEOREM RaiseIsExact == Spec => []RaiseIsExactTimesP
<1>1. IInv => RaiseIsExactTimesP
  <2> SUFFICES ASSUME IInv, ~raised, NEW c \in Keys
               PROVE  back(mulKey(raise(a, l), KeyResidues(c * PProduct), l), l) = mul(a, Residues(c, l), l)
    BY DEF RaiseIsExactTimesP
  <2>1. l \in 1 .. L /\ a \in [1 .. l -> Int] /\ c \in Int
    BY TypeFacts, RnsContextAssumption
  <2> QED
    BY <2>1, RaisedTimesP
<1> QED
  BY <1>1, ResiduesTyped, PTL

-------------------------------------------------------------------------------
(* The operations compute what RnsInteger says *)

LEMMA ValueIsValue == v = Value(a, l)
BY DEF v, moduli, Value

LEMMA InitImplements == Init => RI!IntInit
<1> SUFFICES ASSUME Init PROVE RI!IntInit
  OBVIOUS
<1>1. l \in 1 .. L /\ ~raised /\ a \in [1 .. l -> Int] /\ raised \in BOOLEAN
  BY InitTyped, TypeFacts
<1>2. v \in 0 .. QProduct[l] - 1
  BY <1>1, LowValue, ValueIsValue
<1>3. raised = FALSE
  BY <1>1
<1> QED
  BY <1>1, <1>2, <1>3 DEF RI!IntInit

LEMMA StepImplements ==
  ASSUME IInv, [Next]_vars PROVE [RI!IntNext]_RI!intVars
<1>0. /\ l \in 1 .. L /\ l \in Nat /\ raised \in BOOLEAN
      /\ raised => a \in [1 .. l + K -> Int]
      /\ ~raised => a \in [1 .. l -> Int] /\ \A i \in 1 .. l : a[i] \in 0 .. q[i] - 1
  <2>1. l \in 1 .. L => l \in Nat
    BY Lengths
  <2> QED
    BY <2>1, TypeFacts
<1>1. v = Value(a, l) /\ v' = Value(a', l')
  BY DEF v, moduli, Value
<1> DEFINE Qs == [n \in 1 .. L |-> QProduct[n]]
<1>2. \A n \in 1 .. L : Qs[n] = QProduct[n]
  OBVIOUS
<1>3. CASE raiseAndEqual
  <2>1. ~raised /\ raised' = TRUE /\ a' = raise(a, l) /\ l' = l
    BY <1>3 DEF raiseAndEqual
  <2>2. PICK e \in 0 .. l - 1 : Value(raise(a, l), l) = (Value(a, l) + e * QProduct[l]) % (QProduct[l] * PProduct)
    BY <1>0, <2>1, RaiseValue
  <2>3. v' = (v + e * Qs[l]) % (Qs[l] * PProduct)
    BY <1>0, <1>1, <1>2, <2>1, <2>2
  <2>4. RI!Raise
    BY <2>1, <2>3 DEF RI!Raise
  <2> QED
    BY <2>4 DEF RI!IntNext
<1>4. CASE backAndEqual
  <2>1. raised /\ raised' = FALSE /\ a' = back(a, l) /\ l' = l
    BY <1>4 DEF backAndEqual
  <2>2. PICK e \in 0 .. K - 1 : Value(back(a, l), l) = (Value(a, l) \div PProduct - e) % QProduct[l]
    BY <1>0, <2>1, BackValue
  <2>3. v' = (v \div PProduct - e) % Qs[l]
    BY <1>0, <1>1, <1>2, <2>1, <2>2
  <2>4. RI!Back
    BY <2>1, <2>3 DEF RI!Back
  <2> QED
    BY <2>4 DEF RI!IntNext
<1>5. CASE reScaleAndEqual
  <2>1. ~raised /\ l > 1 /\ a' = reScale(a, l) /\ l' = l - 1 /\ raised' = raised
    BY <1>5 DEF reScaleAndEqual
  <2>2. l \in 1 .. l /\ l - 1 \in 1 .. L
    BY <1>0, <2>1, Lengths
  <2>3. a[l] \in 0 .. q[l] - 1
    BY <1>0, <2>1, <2>2
  <2>4. QProduct[l] \div QProduct[l - 1] = q[l] /\ Value(reScale(a, l), l - 1) = Value(a, l) \div q[l]
    BY <1>0, <2>1, <2>3, ReScaleValue
  <2>5. v' = v \div (Qs[l] \div Qs[l - 1])
    BY <1>0, <1>1, <1>2, <2>1, <2>2, <2>4
  <2>6. RI!ReScale
    BY <2>1, <2>5 DEF RI!ReScale
  <2> QED
    BY <2>6 DEF RI!IntNext
<1>6. CASE modDownAndEqual
  <2>1. PICK d \in 1 .. l - 1 : a' = modDown(a, l, d) /\ l' = l - d
    BY <1>6 DEF modDownAndEqual
  <2>2. ~raised /\ raised' = raised
    BY <1>6 DEF modDownAndEqual
  <2>3. Value(modDown(a, l, d), l - d) = Value(a, l) % QProduct[l - d]
    BY <1>0, <2>2, ModDownValue
  <2>4. l' \in 1 .. l - 1 /\ l' \in 1 .. L
    BY <1>0, <2>1, Lengths
  <2>5. v' = v % Qs[l']
    BY <1>1, <1>2, <2>1, <2>3, <2>4
  <2>6. RI!ModDown
    BY <2>2, <2>4, <2>5 DEF RI!ModDown
  <2> QED
    BY <2>6 DEF RI!IntNext
<1>7. CASE evalAndEqual
  <2>1. ~raised /\ raised' = raised /\ a' = eval(a, l) /\ l' = l
    BY <1>7 DEF evalAndEqual
  <2>2. Value(eval(a, l), l) = (Value(a, l) * PProduct) % QProduct[l]
    BY <1>0, <2>1, EvalValue
  <2>3. v' = (v * PProduct) % Qs[l]
    BY <1>0, <1>1, <1>2, <2>1, <2>2
  <2>4. RI!Eval
    BY <2>1, <2>3 DEF RI!Eval
  <2> QED
    BY <2>4 DEF RI!IntNext
<1>8. CASE mulByKey
  <2>1. PICK c \in Keys : a' = IF raised THEN mulKey(a, KeyResidues(c), l) ELSE mul(a, Residues(c, l), l)
    BY <1>8 DEF mulByKey
  <2>2. l' = l /\ raised' = raised /\ c \in Int
    BY <1>8, RnsContextAssumption DEF mulByKey
  <2>3. v' = (v * c) % RI!Top
    <3>1. CASE raised
      <4>1. Value(mulKey(a, KeyResidues(c), l), l) = (Value(a, l) * c) % (QProduct[l] * PProduct)
        BY <1>0, <2>2, <3>1, MulKeyValue
      <4>2. RI!Top = QProduct[l] * PProduct
        BY <1>0, <3>1 DEF RI!Top
      <4> QED
        BY <1>1, <2>1, <2>2, <3>1, <4>1, <4>2
    <3>2. CASE ~raised
      <4>1. Value(mul(a, Residues(c, l), l), l) = (Value(a, l) * c) % QProduct[l]
        BY <1>0, <2>2, <3>2, MulValue
      <4>2. RI!Top = QProduct[l]
        BY <1>0, <3>2 DEF RI!Top
      <4> QED
        BY <1>1, <2>1, <2>2, <3>2, <4>1, <4>2
    <3> QED
      BY <3>1, <3>2
  <2>4. RI!MulBy
    BY <2>1, <2>2, <2>3 DEF RI!MulBy
  <2> QED
    BY <2>4 DEF RI!IntNext
<1>9. CASE UNCHANGED vars
  <2>1. a' = a /\ l' = l /\ raised' = raised
    BY <1>9 DEF vars
  <2>2. v' = v
    BY <1>1, <2>1
  <2> QED
    BY <2>1, <2>2 DEF RI!intVars
<1> QED
  BY <1>3, <1>4, <1>5, <1>6, <1>7, <1>8, <1>9 DEF Next

\* For any moduli and after any sequence of operations, the residues stand for
\* the integer that RnsInteger computes: the errors of the base conversions are
\* the stated multiples, and every division is exact.
THEOREM Refinement == Spec => ImplementsIntegers
<1>1. IInv /\ [Next]_vars => [RI!IntNext]_RI!intVars
  BY StepImplements
<1> QED
  BY <1>1, InitImplements, ResiduesTyped, PTL DEF Spec, ImplementsIntegers, RI!IntSpec

-------------------------------------------------------------------------------
(* The branch predictor *)

H == Pow2[HistoryBits]

-------------------------------------------------------------------------------
(* Shifting, masking and hashing the history *)

\* Powers of two divide larger ones.
LEMMA PowerDivides ==
  ASSUME NEW n \in Nat, NEW m \in Nat, n <= m
  PROVE  Pow2[m] = Pow2[n] * Pow2[m - n] /\ Pow2[n] \in Nat \ {0} /\ Pow2[m - n] \in Nat \ {0}
<1>1. m - n \in Nat /\ n + (m - n) = m
  OBVIOUS
<1>2. Pow2[n + (m - n)] = Pow2[n] * Pow2[m - n]
  BY <1>1, Pow2Sum, Zenon
<1>3. Pow2[n] \in Nat \ {0} /\ Pow2[m - n] \in Nat \ {0}
  BY <1>1, Pow2Facts, Zenon
<1> QED
  BY <1>1, <1>2, <1>3, Zenon

\* A shift keeps the history within its bits, and depends on those bits only;
\* without the mask these come out the same.
LEMMA Shifting ==
  ASSUME PredictorParameters, NEW g \in Nat, NEW taken \in BOOLEAN
  PROVE  /\ H \in Nat \ {0}
         /\ g % H \in 0 .. H - 1
         /\ Shifted(g, taken) \in 0 .. H - 1
         /\ Shifted(g, taken) % H = Shifted(g, taken)
         /\ Shifted(g % H, taken) = Shifted(g, taken)
         /\ Corrected(g, taken) \in Nat
         /\ Corrected(g, taken) % H = Shifted(g, taken)
<1> DEFINE b == Bit(taken)
           W == Pow2[Word]
           C == Pow2[Word - HistoryBits]
<1>1. HistoryBits \in Nat /\ Word \in Nat /\ HistoryBits <= Word
  BY DEF PredictorParameters
<1>2. H \in Nat \ {0} /\ W = H * C /\ C \in Nat \ {0} /\ W \in Nat \ {0}
  BY <1>1, PowerDivides, Pow2Facts DEF H
<1>3. b \in Nat /\ 2 * g + b \in Nat
  BY DEF Bit
<1>4. Shifted(g, taken) = (2 * g + b) % H /\ Corrected(g, taken) = (2 * g + b) % W
      /\ Shifted(g % H, taken) = (2 * (g % H) + b) % H
  BY DEF Shifted, Corrected, H
<1> HIDE DEF b, W, C, H
<1>5. g \div H \in Nat /\ g % H \in 0 .. H - 1 /\ g = (g \div H) * H + (g % H)
  BY <1>2, DivMod
<1>6. (2 * g + b) % H \in 0 .. H - 1
  BY <1>2, <1>3, DivMod
<1>7. ((2 * g + b) % H) % H = (2 * g + b) % H
  <2>1. \A n \in Nat \ {0} : \A r \in 0 .. n - 1 : r % n = r
    OBVIOUS
  <2> QED
    BY <1>2, <1>6, <2>1
<1>8. (2 * (g % H) + b) % H = (2 * g + b) % H
  <2> DEFINE d == g \div H
             r == g % H
  <2>1. d \in Nat /\ r \in Nat /\ g = d * H + r
    BY <1>2, <1>5
  <2> HIDE DEF d, r
  <2>2. 2 * g + b = (2 * d) * H + (2 * r + b) /\ 2 * d \in Nat /\ 2 * r + b \in Nat
    BY <1>2, <1>3, <2>1
  <2>3. ((2 * d) * H + (2 * r + b)) % H = (2 * r + b) % H
    BY <1>2, <2>2, ModAdd
  <2> QED
    BY <2>2, <2>3 DEF r
<1>9. (2 * g + b) % W \in Nat /\ ((2 * g + b) % W) % H = (2 * g + b) % H
  <2> DEFINE s == 2 * g + b
  <2>1. s \in Nat
    BY <1>3
  <2> HIDE DEF s
  <2>2. s % W \in Nat
    BY <1>2, <2>1, DivMod
  <2>3. (s % (H * C)) % H = s % H
    BY <1>2, <2>1, ModMod
  <2> QED
    BY <1>2, <2>2, <2>3 DEF s
<1>10. Corrected(g, taken) \in Nat /\ Corrected(g, taken) % H = Shifted(g, taken)
  BY <1>4, <1>9
<1>11. /\ Shifted(g, taken) \in 0 .. H - 1 /\ Shifted(g, taken) % H = Shifted(g, taken)
       /\ Shifted(g % H, taken) = Shifted(g, taken)
  BY <1>4, <1>6, <1>7, <1>8
<1> QED
  BY <1>2, <1>4, <1>5, <1>6, <1>7, <1>8, <1>9

\* A field of the history lies within its bits.
LEMMA FieldOfHistory ==
  ASSUME PredictorParameters, NEW g \in Nat, NEW high \in 0 .. 21, NEW low \in 0 .. high
  PROVE  Field(g % H, high, low) = Field(g, high, low)
<1>1. HistoryBits \in Nat /\ low \in Nat /\ high - low + 1 \in Nat /\ low <= HistoryBits
      /\ high - low + 1 <= HistoryBits - low /\ HistoryBits - low \in Nat
  BY DEF PredictorParameters
<1> DEFINE n == Pow2[low]
           b == Pow2[high - low + 1]
           c == Pow2[(HistoryBits - low) - (high - low + 1)]
<1>2. H = n * Pow2[HistoryBits - low] /\ n \in Nat \ {0}
  BY <1>1, PowerDivides DEF H
<1>3. Pow2[HistoryBits - low] = b * c /\ b \in Nat \ {0} /\ c \in Nat \ {0}
  BY <1>1, PowerDivides
<1>4. Field(g % H, high, low) = ((g % H) \div n) % b /\ Field(g, high, low) = (g \div n) % b
  BY DEF Field
<1> HIDE DEF n, b, c, H
<1>5. H = n * (b * c)
  BY <1>2, <1>3
<1> QED
  BY <1>2, <1>3, <1>4, <1>5, DivOfMod

\* The hash reads nothing but the bits within the mask.
LEMMA IndexOfHistory ==
  ASSUME PredictorParameters, NEW g \in Nat, NEW pc
  PROVE  globalTableIndex(pc, g % H) = globalTableIndex(pc, g)
<1>1. Field(g % H, 13, 10) = Field(g, 13, 10) /\ Field(g % H, 21, 16) = Field(g, 21, 16)
      /\ Field(g % H, 9, 4) = Field(g, 9, 4)
  BY FieldOfHistory
<1>2. (g % H) % 16 = g % 16
  <2>1. Pow2[0] = 1 /\ Pow2[1] = 2 /\ Pow2[2] = 4 /\ Pow2[3] = 8 /\ Pow2[4] = 16
    <3>1. Pow2[0] = 1
      BY Pow2Facts
    <3>2. Pow2[0 + 1] = 2 * Pow2[0] /\ Pow2[1 + 1] = 2 * Pow2[1] /\ Pow2[2 + 1] = 2 * Pow2[2]
          /\ Pow2[3 + 1] = 2 * Pow2[3]
      BY Pow2Facts
    <3> QED
      BY <3>1, <3>2
  <2>2. 4 \in Nat /\ HistoryBits \in Nat /\ 4 <= HistoryBits
    BY DEF PredictorParameters
  <2>3. H = Pow2[4] * Pow2[HistoryBits - 4] /\ Pow2[HistoryBits - 4] \in Nat \ {0}
    BY <2>2, PowerDivides, Zenon DEF H
  <2>4. H = 16 * Pow2[HistoryBits - 4]
    BY <2>1, <2>3, Zenon
  <2> HIDE DEF H
  <2>5. 16 \in Nat \ {0}
    OBVIOUS
  <2>6. (g % (16 * Pow2[HistoryBits - 4])) % 16 = g % 16
    BY <2>3, <2>5, ModMod, Zenon
  <2> QED
    BY <2>4, <2>6, Zenon
<1> QED
  BY <1>1, <1>2 DEF globalTableIndex
-------------------------------------------------------------------------------
(* Paths *)

\* One more branch, whose history was the register: the register becomes what
\* the hash cannot tell from the history shifted.
LEMMA PathGrows ==
  ASSUME PredictorParameters, NEW ghr \in Nat, NEW start, NEW f \in Seq(InFlight),
         IsPath(ghr, start, f),
         NEW b \in InFlight, b.history.ghr = ghr,
         NEW new \in Nat, new % H = Shifted(ghr, b.taken)
  PROVE  IsPath(new, start, Append(f, b))
<1> DEFINE g == Append(f, b)
           n == Len(f)
<1>1. n \in Nat /\ DOMAIN f = 1 .. n /\ DOMAIN g = 1 .. n + 1 /\ g[n + 1] = b
      /\ \A i \in 1 .. n : g[i] = f[i]
  OBVIOUS
<1> HIDE DEF g, n
<1>2. \A i \in 1 .. n : Before(new, g, i) = Before(ghr, f, i)
  BY <1>1 DEF Before
<1>3. Before(new, g, n + 1) = Before(ghr, f, n + 1)
  BY <1>1 DEF Before
<1>4. Before(new, g, n + 2) = new % H /\ Before(ghr, f, n + 1) = ghr % H
  BY <1>1 DEF Before, H
<1>5. b.taken \in BOOLEAN /\ Shifted(ghr % H, b.taken) = Shifted(ghr, b.taken)
  <2>1. b.taken \in BOOLEAN
    BY DEF InFlight
  <2> QED
    BY <2>1, Shifting
<1>6. \A i \in 1 .. n + 1 : Before(new, g, i) = Before(ghr, f, i)
  <2> TAKE i \in 1 .. n + 1
  <2>1. i \in 1 .. n \/ i = n + 1
    BY <1>1
  <2> QED
    BY <1>2, <1>3, <2>1
<1>7. ASSUME NEW i \in 1 .. n + 1
      PROVE  Before(new, g, i + 1) = Shifted(Before(new, g, i), g[i].taken)
  <2>1. CASE i \in 1 .. n
    <3>1. i + 1 \in 1 .. n + 1 /\ i \in DOMAIN f
      BY <1>1, <2>1
    <3>2. Before(ghr, f, i + 1) = Shifted(Before(ghr, f, i), f[i].taken)
      BY <3>1 DEF IsPath
    <3> QED
      BY <1>1, <1>6, <2>1, <3>1, <3>2
  <2>2. CASE i = n + 1
    <3>1. i + 1 = n + 2
      BY <1>1, <2>2
    <3>2. Before(new, g, i + 1) = Shifted(ghr, b.taken)
      BY <1>4, <3>1
    <3>3. Before(new, g, i) = ghr % H /\ g[i].taken = b.taken
      BY <1>1, <1>3, <1>4, <2>2
    <3> QED
      BY <1>5, <3>2, <3>3
  <2> QED
    BY <1>1, <2>1, <2>2
<1>8. Before(new, g, 1) = start
  <2>1. 1 \in 1 .. n + 1
    BY <1>1
  <2> QED
    BY <1>6, <2>1 DEF IsPath
<1>9. IsPath(new, start, g)
  BY <1>1, <1>7, <1>8 DEF IsPath
<1> QED
  BY <1>9 DEF g

\* The branches after the first n are squashed, each restoring its history.
LEMMA PathShrinks ==
  ASSUME NEW ghr, NEW start, NEW f \in Seq(InFlight), IsPath(ghr, start, f),
         NEW n \in 0 .. Len(f) - 1
  PROVE  IsPath(f[n + 1].history.ghr, start, SubSeq(f, 1, n))
<1> DEFINE g == SubSeq(f, 1, n)
           new == f[n + 1].history.ghr
<1>1. Len(f) \in Nat /\ n \in Nat /\ DOMAIN f = 1 .. Len(f) /\ n + 1 \in 1 .. Len(f)
  OBVIOUS
<1>2. DOMAIN g = 1 .. n /\ \A i \in 1 .. n : g[i] = f[i]
  BY <1>1, SubSeqProperties
<1> HIDE DEF g
<1>3. \A i \in 1 .. n + 1 : Before(new, g, i) = Before(ghr, f, i)
  <2> TAKE i \in 1 .. n + 1
  <2>1. i \in 1 .. n \/ i = n + 1
    BY <1>1
  <2> QED
    BY <1>1, <1>2, <2>1 DEF Before
<1>4. ASSUME NEW i \in 1 .. n
      PROVE  Before(new, g, i + 1) = Shifted(Before(new, g, i), g[i].taken)
  <2>1. i \in 1 .. n + 1 /\ i + 1 \in 1 .. n + 1 /\ i \in DOMAIN f
    BY <1>1
  <2>2. Before(ghr, f, i + 1) = Shifted(Before(ghr, f, i), f[i].taken)
    BY <2>1 DEF IsPath
  <2> QED
    BY <1>2, <1>3, <2>1, <2>2
<1>5. 1 \in 1 .. n + 1
  BY <1>1
<1>6. IsPath(new, start, g)
  BY <1>2, <1>3, <1>4, <1>5 DEF IsPath
<1> QED
  BY <1>6 DEF g

\* Branch n turns the other way, and those after it are squashed.
LEMMA PathTurns ==
  ASSUME PredictorParameters, NEW ghr \in Nat, NEW start, NEW f \in Seq(InFlight),
         IsPath(ghr, start, f),
         NEW n \in 1 .. Len(f), NEW b \in InFlight, b.history = f[n].history
  PROVE  IsPath(Corrected(b.history.ghr, b.taken), start, Append(SubSeq(f, 1, n - 1), b))
<1>1. n - 1 \in 0 .. Len(f) - 1 /\ (n - 1) + 1 = n
  OBVIOUS
<1>2. IsPath(b.history.ghr, start, SubSeq(f, 1, n - 1))
  BY <1>1, PathShrinks
<1>3. SubSeq(f, 1, n - 1) \in Seq(InFlight)
  BY <1>1, SubSeqProperties
<1>4. b.history.ghr \in Nat /\ b.taken \in BOOLEAN
  BY DEF InFlight, BPHistory
<1>5. Corrected(b.history.ghr, b.taken) \in Nat
      /\ Corrected(b.history.ghr, b.taken) % H = Shifted(b.history.ghr, b.taken)
  BY <1>4, Shifting
<1> QED
  BY <1>2, <1>3, <1>4, <1>5, PathGrows

\* The oldest branch commits.
LEMMA PathAdvances ==
  ASSUME NEW ghr, NEW start, NEW f \in Seq(InFlight), f # << >>, IsPath(ghr, start, f)
  PROVE  IsPath(ghr, Shifted(start, Head(f).taken), Tail(f))
<1> DEFINE g == Tail(f)
           n == Len(f)
<1>1. n \in Nat \ {0} /\ DOMAIN f = 1 .. n /\ DOMAIN g = 1 .. n - 1 /\ Head(f) = f[1]
      /\ \A i \in 1 .. n - 1 : g[i] = f[i + 1]
  OBVIOUS
<1> HIDE DEF g, n
<1>2. \A i \in 1 .. n : Before(ghr, g, i) = Before(ghr, f, i + 1)
  <2> TAKE i \in 1 .. n
  <2>1. (i \in 1 .. n - 1 /\ i + 1 \in 1 .. n) \/ (i \notin 1 .. n - 1 /\ i + 1 \notin 1 .. n)
    BY <1>1
  <2> QED
    BY <1>1, <2>1 DEF Before
<1>3. ASSUME NEW i \in 1 .. n - 1
      PROVE  Before(ghr, g, i + 1) = Shifted(Before(ghr, g, i), g[i].taken)
  <2>1. i \in 1 .. n /\ i + 1 \in 1 .. n
    BY <1>1
  <2>2. Before(ghr, f, (i + 1) + 1) = Shifted(Before(ghr, f, i + 1), f[i + 1].taken)
    BY <1>1, <2>1 DEF IsPath
  <2> QED
    BY <1>1, <1>2, <2>1, <2>2
<1>4. Before(ghr, g, 1) = Shifted(start, f[1].taken)
  <2>1. 1 \in 1 .. n
    BY <1>1
  <2>2. Before(ghr, f, 1 + 1) = Shifted(Before(ghr, f, 1), f[1].taken) /\ Before(ghr, f, 1) = start
    BY <1>1, <2>1 DEF IsPath
  <2> QED
    BY <1>2, <2>1, <2>2
<1>5. IsPath(ghr, Shifted(start, Head(f).taken), g)
  BY <1>1, <1>3, <1>4 DEF IsPath
<1> QED
  BY <1>5 DEF g
-------------------------------------------------------------------------------
(* Counters *)

\* Training a counter keeps it, and the others, within their bits.
LEMMA Training ==
  ASSUME PredictorParameters, NEW table, IsTable(table), NEW i, NEW taken \in BOOLEAN
  PROVE  IsTable(Trained(table, i, taken))
<1> DEFINE max == Pow2[CounterBits] - 1
<1>1. max \in Nat /\ max > 0
  <2>1. CounterBits - 1 \in Nat /\ (CounterBits - 1) + 1 = CounterBits
    BY DEF PredictorParameters
  <2>2. Pow2[CounterBits - 1] \in Nat \ {0} /\ Pow2[(CounterBits - 1) + 1] = 2 * Pow2[CounterBits - 1]
    BY <2>1, Pow2Facts
  <2> QED
    BY <2>1, <2>2
<1>2. \A n \in 0 .. max : SaturatingStep(n, taken) \in 0 .. max
  BY <1>1 DEF SaturatingStep
<1>3. Counter(table, i) \in 0 .. max
  BY <1>1 DEF Counter, IsTable
<1>4. \A k \in DOMAIN table : table[k] \in 0 .. max
  BY DEF IsTable
<1> HIDE DEF max
<1>5. \A k \in DOMAIN table \cup {i} :
        Trained(table, i, taken)[k] = IF k = i THEN SaturatingStep(Counter(table, i), taken) ELSE table[k]
  BY DEF Trained
<1>6. DOMAIN Trained(table, i, taken) = DOMAIN table \cup {i}
  BY DEF Trained
<1>7. \A k \in DOMAIN Trained(table, i, taken) : Trained(table, i, taken)[k] \in 0 .. max
  BY <1>2, <1>3, <1>4, <1>5, <1>6
<1> QED
  BY <1>7 DEF IsTable, max

\* What one more unconditional branch does to the state of the predictor.
Jump(pc, s) == [ghr |-> Shifted(s.ghr, TRUE),
                choice |-> Trained(s.choice, choiceIndex(pc), TRUE),
                taken |-> Trained(s.taken, globalTableIndex(pc, s.ghr), TRUE)]
Cold == [ghr |-> 0, choice |-> << >>, taken |-> << >>]
Run(pc, n, g) == g = [k \in 0 .. n |-> IF k = 0 THEN Cold ELSE Jump(pc, g[k - 1])]

\* There is a run of any length.
LEMMA SomeRun == \A pc, n : n \in Nat => \E g : Run(pc, n, g)
<1> SUFFICES ASSUME NEW pc PROVE \A n \in Nat : \E g : Run(pc, n, g)
  OBVIOUS
<1> DEFINE S == {n \in Nat : ~ \E g : Run(pc, n, g)}
<1> SUFFICES ASSUME S # {} PROVE FALSE
  OBVIOUS
<1>1. PICK n \in S : \A i \in S : n <= i
  BY LeastElement
<1>2. CASE n = 0
  <2> DEFINE g == [k \in 0 .. 0 |-> Cold]
  <2>1. g = [k \in 0 .. 0 |-> IF k = 0 THEN Cold ELSE Jump(pc, g[k - 1])]
    OBVIOUS
  <2> QED
    BY <1>1, <1>2, <2>1 DEF Run
<1>3. CASE n # 0
  <2>1. n \in Nat /\ n - 1 \in Nat /\ ~(n <= n - 1)
    BY <1>1, <1>3
  <2>2. PICK g : Run(pc, n - 1, g)
    BY <1>1, <2>1
  <2> DEFINE longer == [k \in 0 .. n |-> IF k = n THEN Jump(pc, g[n - 1]) ELSE g[k]]
             Next0(e, k) == IF k = 0 THEN Cold ELSE Jump(pc, e[k - 1])
  <2>3. \A k \in 0 .. n - 1 : g[k] = Next0(g, k)
    BY <2>2 DEF Run
  <2> HIDE DEF Jump, Cold
  <2>4. ASSUME NEW k \in 0 .. n PROVE longer[k] = Next0(longer, k)
    <3>1. CASE k = n
      <4>1. n - 1 \in 0 .. n /\ n - 1 # n
        BY <2>1
      <4>2. longer[n - 1] = g[n - 1] /\ longer[n] = Jump(pc, g[n - 1])
        BY <2>1, <4>1
      <4> QED
        BY <1>3, <3>1, <4>2
    <3>2. CASE k # n
      <4>1. k \in 0 .. n - 1 /\ longer[k] = g[k]
        BY <2>1, <3>2
      <4>2. k # 0 => k - 1 \in 0 .. n /\ k - 1 # n
        BY <2>1, <3>2
      <4>3. k # 0 => longer[k - 1] = g[k - 1]
        BY <4>2
      <4> QED
        BY <2>3, <4>1, <4>3
    <3> QED
      BY <3>1, <3>2
  <2>5. longer = [k \in 0 .. n |-> longer[k]]
    OBVIOUS
  <2> HIDE DEF longer
  <2>6. longer = [k \in 0 .. n |-> Next0(longer, k)]
    BY <2>4, <2>5
  <2>7. Run(pc, n, longer)
    BY <2>6 DEF Run
  <2> QED
    BY <1>1, <2>7
<1> QED
  BY <1>2, <1>3

\* The state after n unconditional branches is one the predictor may be in.
LEMMA WarmUp ==
  ASSUME PredictorParameters, NEW pc, NEW n \in Nat
  PROVE  /\ AfterTaken(pc, n).ghr \in 0 .. H - 1
         /\ IsTable(AfterTaken(pc, n).choice)
         /\ IsTable(AfterTaken(pc, n).taken)
<1> DEFINE run == CHOOSE g : Run(pc, n, g)
           Good(s) == s.ghr \in 0 .. H - 1 /\ IsTable(s.choice) /\ IsTable(s.taken)
<1>1. AfterTaken(pc, n) = run[n]
  BY Zenon DEF AfterTaken, Run, Jump, Cold
<1>2. Run(pc, n, run)
  <2>1. \E g : Run(pc, n, g)
    BY SomeRun, Zenon
  <2> QED
    BY <2>1, Zenon
<1> HIDE DEF run
<1>3. run[0] = Cold /\ \A k \in 1 .. n : run[k] = Jump(pc, run[k - 1])
  <2>1. \A k \in 0 .. n : run[k] = IF k = 0 THEN Cold ELSE Jump(pc, run[k - 1])
    BY <1>2, Zenon DEF Run
  <2> HIDE DEF Cold, Jump
  <2> QED
    BY <2>1
<1>4. Good(Cold)
  <2>1. H \in Nat \ {0}
    BY Shifting
  <2> QED
    BY <2>1 DEF Cold, IsTable
<1>5. ASSUME NEW s, Good(s) PROVE Good(Jump(pc, s))
  <2>1. s.ghr \in Nat
    BY <1>5, Shifting
  <2>2. Shifted(s.ghr, TRUE) \in 0 .. H - 1
    BY <2>1, Shifting
  <2>3. IsTable(Trained(s.choice, choiceIndex(pc), TRUE))
        /\ IsTable(Trained(s.taken, globalTableIndex(pc, s.ghr), TRUE))
    BY <1>5, Training
  <2> QED
    BY <2>2, <2>3 DEF Jump
<1> HIDE DEF Good
<1> DEFINE S == {k \in 0 .. n : ~Good(run[k])}
<1>6. ASSUME S # {} PROVE FALSE
  <2>0. S \subseteq Nat
    OBVIOUS
  <2>1. PICK k \in S : \A i \in S : k <= i
    <3> HIDE DEF S
    <3> QED
      BY <1>6, <2>0, LeastElement
  <2>2. k # 0
    BY <1>3, <1>4, <2>1
  <2>3. k \in 1 .. n /\ k - 1 \in 0 .. n /\ ~(k <= k - 1)
    BY <2>1, <2>2
  <2>4. Good(run[k - 1])
    BY <2>1, <2>3
  <2>5. run[k] = Jump(pc, run[k - 1])
    BY <1>3, <2>3
  <2>6. Good(run[k])
    BY <1>5, <2>4, <2>5
  <2> QED
    BY <2>1, <2>6
<1>7. Good(run[n])
  BY <1>6
<1> QED
  BY <1>1, <1>7 DEF Good
-------------------------------------------------------------------------------
(* The inductive invariant *)

\* A prediction is one of the register's history.
LEMMA Lookup ==
  ASSUME PredictorParameters, PredictorInv, NEW t \in Thread, NEW pc
  PROVE  lookup(t, pc) \in BPHistory /\ lookup(t, pc).ghr = globalHistoryReg[t]
<1>1. globalHistoryReg[t] \in Nat
      /\ IsTable(choiceCounters) /\ IsTable(takenCounters) /\ IsTable(notTakenCounters)
  BY DEF PredictorInv, PredictorTypeOK
<1>2. Pow2[CounterBits] \in Nat \ {0} /\ Pow2[CounterBits - 1] \in Nat \ {0}
  <2>1. CounterBits \in Nat /\ CounterBits - 1 \in Nat
    BY DEF PredictorParameters
  <2> QED
    BY <2>1, Pow2Facts
<1>3. ASSUME NEW table, IsTable(table), NEW i PROVE Predicts(table, i) \in BOOLEAN
  <2>1. Counter(table, i) \in Int
    BY <1>2, <1>3 DEF Counter, IsTable
  <2>2. Threshold \in Int
    BY <1>2 DEF Threshold
  <2> QED
    BY <2>1, <2>2 DEF Predicts
<1>4. /\ \A i : Predicts(choiceCounters, i) \in BOOLEAN
      /\ \A i : Predicts(takenCounters, i) \in BOOLEAN
      /\ \A i : Predicts(notTakenCounters, i) \in BOOLEAN
  BY <1>1, <1>3
<1> QED
  BY <1>1, <1>4 DEF lookup, BPHistory

\* The prediction for an unconditional branch.
LEMMA LookupUncond ==
  ASSUME NEW ghr \in Nat
  PROVE  uncondBranch(ghr) \in BPHistory /\ uncondBranch(ghr).ghr = ghr
BY DEF uncondBranch, BPHistory

LEMMA InitInvariant == ASSUME PredictorParameters, PredictorInit PROVE PredictorInv
<1> DEFINE jump == CHOOSE pc \in Unconditional : TRUE
<1>1. PICK n \in Warmup, warm \in Thread :
        /\ globalHistoryReg = [t \in Thread |-> IF t = warm THEN AfterTaken(jump, n).ghr ELSE 0]
        /\ choiceCounters = AfterTaken(jump, n).choice
        /\ takenCounters = AfterTaken(jump, n).taken
        /\ notTakenCounters = << >>
        /\ flight = [t \in Thread |-> << >>]
        /\ committed = globalHistoryReg
        /\ fetched = 0
  BY Zenon DEF PredictorInit
<1>2. n \in Nat
  BY DEF PredictorParameters
<1> HIDE DEF jump
<1>3. AfterTaken(jump, n).ghr \in 0 .. H - 1 /\ IsTable(choiceCounters) /\ IsTable(takenCounters)
  BY <1>1, <1>2, WarmUp
<1>4. H \in Nat \ {0}
  BY Shifting
<1>5. \A t \in Thread : globalHistoryReg[t] \in 0 .. H - 1
  BY <1>1, <1>3, <1>4
<1>6. committed \in [Thread -> 0 .. H - 1] /\ globalHistoryReg \in [Thread -> Nat]
  BY <1>1, <1>5
<1>7. IsTable(notTakenCounters)
  BY <1>1 DEF IsTable
<1>8. flight \in [Thread -> Seq(InFlight)] /\ fetched \in Nat
  BY <1>1
<1>9. PredictorTypeOK
  BY <1>3, <1>6, <1>7, <1>8 DEF PredictorTypeOK, H
<1>10. ASSUME NEW t \in Thread PROVE IsPath(globalHistoryReg[t], committed[t], flight[t])
  <2>1. flight[t] = << >> /\ committed[t] = globalHistoryReg[t]
    BY <1>1
  <2>2. \A r \in 0 .. H - 1 : r % H = r
    BY <1>4
  <2>3. globalHistoryReg[t] % H = globalHistoryReg[t]
    BY <1>5, <2>2
  <2>4. DOMAIN flight[t] = {}
    BY <2>1
  <2> QED
    BY <2>1, <2>3, <2>4 DEF IsPath, Before, H
<1> QED
  BY <1>9, <1>10 DEF PredictorInv, HistoryIsPath

\* A step of the fetch unit on thread t leaves the register and the branches
\* in flight of the thread related as they should be.
LEMMA FetchUnitStep ==
  ASSUME PredictorInv, NEW t \in Thread, NEW ghr \in Nat, NEW branches \in Seq(InFlight),
         Restart(t, ghr, branches), IsPath(ghr, committed[t], branches),
         UNCHANGED <<counters, committed>>, fetched' \in Nat
  PROVE  PredictorInv'
<1> USE DEF PredictorInv, PredictorTypeOK, HistoryIsPath
<1>1. globalHistoryReg' \in [Thread -> Nat] /\ flight' \in [Thread -> Seq(InFlight)]
  BY DEF Restart
<1>2. PredictorTypeOK'
  BY <1>1 DEF counters, IsTable
<1>3. ASSUME NEW u \in Thread PROVE IsPath(globalHistoryReg[u], committed[u], flight[u])'
  <2>0. committed' = committed
    OBVIOUS
  <2>1. CASE u = t
    <3>1. globalHistoryReg'[u] = ghr /\ flight'[u] = branches
      BY <2>1 DEF Restart
    <3>2. IsPath(globalHistoryReg'[u], committed'[u], flight'[u])
      BY <2>0, <2>1, <3>1
    <3> QED
      BY <3>2 DEF IsPath, Before
  <2>2. CASE u # t
    <3>1. globalHistoryReg'[u] = globalHistoryReg[u] /\ flight'[u] = flight[u]
      BY <2>2 DEF Restart
    <3>2. IsPath(globalHistoryReg'[u], committed'[u], flight'[u])
      BY <2>0, <3>1
    <3> QED
      BY <3>2 DEF IsPath, Before
  <2> QED
    BY <2>1, <2>2
<1> QED
  BY <1>2, <1>3

\* A branch enters.
LEMMA FetchInvariant ==
  ASSUME PredictorParameters, PredictorInv, NEW t \in Thread, NEW pc \in Conditional \cup Unconditional,
         NEW hist \in BPHistory, hist.ghr = globalHistoryReg[t], NEW taken \in BOOLEAN,
         Fetch(t, pc, hist, taken)
  PROVE  PredictorInv'
<1> DEFINE b == [pc |-> pc, history |-> hist, taken |-> taken]
           g == globalHistoryReg[t]
<1>1. g \in Nat /\ flight[t] \in Seq(InFlight) /\ IsPath(g, committed[t], flight[t])
  BY DEF PredictorInv, PredictorTypeOK, HistoryIsPath
<1>2. b \in InFlight /\ b.history.ghr = g /\ b.taken = taken
  BY DEF InFlight
<1>3. Restart(t, Shifted(g, taken), Append(flight[t], b)) /\ UNCHANGED <<counters, committed>>
      /\ fetched' = fetched + 1
  BY DEF Fetch
<1> HIDE DEF b, g
<1>4. Shifted(g, taken) \in Nat /\ Shifted(g, taken) % H = Shifted(g, b.taken)
  <2>1. H \in Nat \ {0} /\ Shifted(g, taken) \in 0 .. H - 1
        /\ Shifted(g, taken) % H = Shifted(g, taken)
    BY <1>1, Shifting
  <2> QED
    BY <1>2, <2>1
<1>5. IsPath(Shifted(g, taken), committed[t], Append(flight[t], b))
  BY <1>1, <1>2, <1>4, PathGrows
<1>6. Append(flight[t], b) \in Seq(InFlight) /\ fetched' \in Nat
  BY <1>1, <1>2, <1>3 DEF PredictorInv, PredictorTypeOK
<1> QED
  BY <1>3, <1>4, <1>5, <1>6, FetchUnitStep

LEMMA CommitInvariant ==
  ASSUME PredictorParameters, PredictorInv, NEW t \in Thread, Commit(t) PROVE PredictorInv'
<1> DEFINE b == Head(flight[t])
<1>1. flight[t] \in Seq(InFlight) /\ flight[t] # << >> /\ b \in InFlight
      /\ Tail(flight[t]) \in Seq(InFlight)
  BY DEF Commit, PredictorInv, PredictorTypeOK
<1>2. /\ update(t, b, b.taken)
      /\ committed' = [committed EXCEPT ![t] = Shifted(@, b.taken)]
      /\ flight' = [flight EXCEPT ![t] = Tail(@)]
      /\ UNCHANGED <<globalHistoryReg, fetched>>
  BY DEF Commit
<1>3. b.taken \in BOOLEAN
  BY <1>1 DEF InFlight
<1> HIDE DEF b
<1>4. IsTable(takenCounters') /\ IsTable(notTakenCounters') /\ IsTable(choiceCounters')
  <2>1. IsTable(takenCounters) /\ IsTable(notTakenCounters) /\ IsTable(choiceCounters)
    BY DEF PredictorInv, PredictorTypeOK
  <2>2. \A table, i : IsTable(table) => IsTable(Trained(table, i, b.taken))
    BY <1>3, Training
  <2> QED
    BY <1>2, <2>1, <2>2 DEF update
<1>5. committed[t] \in 0 .. H - 1 /\ committed[t] \in Nat
  <2>1. committed[t] \in 0 .. H - 1
    BY DEF PredictorInv, PredictorTypeOK, H
  <2> QED
    BY <2>1, Shifting
<1>6. Shifted(committed[t], b.taken) \in 0 .. H - 1
  BY <1>3, <1>5, Shifting
<1>7. PredictorTypeOK'
  <2>1. committed' \in [Thread -> 0 .. H - 1]
    BY <1>2, <1>6 DEF PredictorInv, PredictorTypeOK, H
  <2>2. flight' \in [Thread -> Seq(InFlight)]
    BY <1>1, <1>2 DEF PredictorInv, PredictorTypeOK
  <2>3. globalHistoryReg' \in [Thread -> Nat] /\ fetched' \in Nat
    BY <1>2 DEF PredictorInv, PredictorTypeOK
  <2> QED
    BY <1>4, <2>1, <2>2, <2>3 DEF PredictorTypeOK, H, IsTable
<1>8. ASSUME NEW u \in Thread PROVE IsPath(globalHistoryReg[u], committed[u], flight[u])'
  <2>0. IsPath(globalHistoryReg[u], committed[u], flight[u])
    BY DEF PredictorInv, HistoryIsPath
  <2>1. CASE u = t
    <3>1. committed'[u] = Shifted(committed[u], b.taken) /\ flight'[u] = Tail(flight[u])
      BY <1>2, <2>1 DEF PredictorInv, PredictorTypeOK
    <3>2. IsPath(globalHistoryReg[u], Shifted(committed[u], b.taken), Tail(flight[u]))
      BY <1>1, <2>0, <2>1, PathAdvances DEF b
    <3>3. IsPath(globalHistoryReg'[u], committed'[u], flight'[u])
      BY <1>2, <3>1, <3>2
    <3> QED
      BY <3>3 DEF IsPath, Before
  <2>2. CASE u # t
    <3>1. committed'[u] = committed[u] /\ flight'[u] = flight[u]
      BY <1>2, <2>2 DEF PredictorInv, PredictorTypeOK
    <3>2. IsPath(globalHistoryReg'[u], committed'[u], flight'[u])
      BY <1>2, <2>0, <3>1
    <3> QED
      BY <3>2 DEF IsPath, Before
  <2> QED
    BY <2>1, <2>2
<1> QED
  BY <1>7, <1>8 DEF PredictorInv, HistoryIsPath

LEMMA StepInvariant == ASSUME PredictorParameters, PredictorInv, [PredictorNext]_predictorVars PROVE PredictorInv'
<1>1. ASSUME NEW t \in Thread, Predict(t) PROVE PredictorInv'
  <2>1. PICK pc \in Conditional : \E taken \in {lookup(t, pc).finalPred, FALSE} :
                                     Fetch(t, pc, lookup(t, pc), taken)
    BY <1>1, Zenon DEF Predict
  <2>2. PICK taken \in {lookup(t, pc).finalPred, FALSE} : Fetch(t, pc, lookup(t, pc), taken)
    BY <2>1, Zenon
  <2>4. lookup(t, pc) \in BPHistory /\ lookup(t, pc).ghr = globalHistoryReg[t]
    BY Lookup
  <2>5. taken \in BOOLEAN
    BY <2>2, <2>4 DEF BPHistory
  <2> QED
    BY <2>2, <2>4, <2>5, FetchInvariant
<1>2. ASSUME NEW t \in Thread, PredictUncond(t) PROVE PredictorInv'
  <2>1. PICK pc \in Unconditional, taken \in BOOLEAN :
               Fetch(t, pc, uncondBranch(globalHistoryReg[t]), taken)
    BY <1>2, Zenon DEF PredictUncond
  <2>2. globalHistoryReg[t] \in Nat
    BY DEF PredictorInv, PredictorTypeOK
  <2>3. uncondBranch(globalHistoryReg[t]) \in BPHistory
        /\ uncondBranch(globalHistoryReg[t]).ghr = globalHistoryReg[t]
    BY <2>2, LookupUncond
  <2> QED
    BY <2>1, <2>3, FetchInvariant
<1>3. ASSUME NEW t \in Thread, Squash(t) PROVE PredictorInv'
  <2> DEFINE f == flight[t]
  <2>1. PICK n \in 0 .. Len(f) - 1 : /\ Restart(t, SquashTo(t, n), SubSeq(f, 1, n))
                                     /\ UNCHANGED <<counters, committed, fetched>>
    BY <1>3, Zenon DEF Squash
  <2>2. f \in Seq(InFlight) /\ IsPath(globalHistoryReg[t], committed[t], f) /\ fetched' \in Nat
    BY <2>1 DEF PredictorInv, PredictorTypeOK, HistoryIsPath
  <2>3. SquashTo(t, n) = f[n + 1].history.ghr
    BY <2>1, <2>2 DEF SquashTo
  <2> HIDE DEF f
  <2>4. IsPath(SquashTo(t, n), committed[t], SubSeq(f, 1, n))
    BY <2>2, <2>3, PathShrinks
  <2>5. SquashTo(t, n) \in Nat
    <3>1. n + 1 \in 1 .. Len(f) /\ f[n + 1] \in InFlight
      BY <2>2
    <3> QED
      BY <2>3, <3>1 DEF InFlight, BPHistory
  <2>6. SubSeq(f, 1, n) \in Seq(InFlight)
    BY <2>2, SubSeqProperties
  <2> QED
    BY <2>1, <2>2, <2>4, <2>5, <2>6, FetchUnitStep
<1>4. ASSUME NEW t \in Thread, Mispredicted(t) PROVE PredictorInv'
  <2> DEFINE f == flight[t]
  <2>1. PICK n \in 1 .. Len(f), taken \in BOOLEAN :
          /\ Restart(t, Corrected(f[n].history.ghr, taken),
                     Append(SubSeq(f, 1, n - 1), [f[n] EXCEPT !.taken = taken]))
          /\ UNCHANGED <<counters, committed, fetched>>
    BY <1>4, Zenon DEF Mispredicted
  <2>2. f \in Seq(InFlight) /\ IsPath(globalHistoryReg[t], committed[t], f) /\ fetched' \in Nat
        /\ globalHistoryReg[t] \in Nat
    BY <2>1 DEF PredictorInv, PredictorTypeOK, HistoryIsPath
  <2> DEFINE b == [f[n] EXCEPT !.taken = taken]
  <2>3. f[n] \in InFlight
    BY <2>2
  <2> HIDE DEF f
  <2>4. b \in InFlight /\ b.history = f[n].history /\ b.taken = taken
    BY <2>3 DEF InFlight
  <2>5. b.history.ghr \in Nat
    BY <2>4 DEF InFlight, BPHistory
  <2>6. Restart(t, Corrected(b.history.ghr, b.taken), Append(SubSeq(f, 1, n - 1), b))
    BY <2>1, <2>4
  <2> HIDE DEF b
  <2>7. IsPath(Corrected(b.history.ghr, b.taken), committed[t], Append(SubSeq(f, 1, n - 1), b))
    BY <2>2, <2>4, PathTurns
  <2>8. Corrected(b.history.ghr, b.taken) \in Nat
    BY <2>4, <2>5, Shifting
  <2>9. Append(SubSeq(f, 1, n - 1), b) \in Seq(InFlight)
    <3>1. SubSeq(f, 1, n - 1) \in Seq(InFlight)
      BY <2>2, SubSeqProperties
    <3> QED
      BY <2>4, <3>1
  <2> QED
    BY <2>1, <2>2, <2>6, <2>7, <2>8, <2>9, FetchUnitStep
<1>5. ASSUME NEW t \in Thread, Commit(t) PROVE PredictorInv'
  BY <1>5, CommitInvariant
<1>6. CASE UNCHANGED predictorVars
  BY <1>6 DEF predictorVars, counters, PredictorInv, PredictorTypeOK, HistoryIsPath, IsPath, Before, IsTable
<1> QED
  BY <1>1, <1>2, <1>3, <1>4, <1>5, <1>6, Zenon DEF PredictorNext

\* The branch predictor's variables have their types, its counters stay within
\* their bits, and the histories are the path.
THEOREM PredictorInvariance == ASSUME PredictorParameters PROVE PredictorSpec => []PredictorInv
<1>1. PredictorInit => PredictorInv
  BY InitInvariant
<1>2. PredictorInv /\ [PredictorNext]_predictorVars => PredictorInv'
  BY StepInvariant
<1> QED
  BY <1>1, <1>2, PTL DEF PredictorSpec

\* HistoryIsPath: however the branches of a thread are squashed, turned and
\* committed, the register holds the path the fetch unit is on.
THEOREM HistoryIsThePath == ASSUME PredictorParameters PROVE PredictorSpec => []HistoryIsPath
<1>1. PredictorInv => HistoryIsPath
  BY DEF PredictorInv
<1> QED
  BY <1>1, PredictorInvariance, PTL

\* TrainedOnThePath: a step that changes the counters commits the oldest branch
\* of a thread and trains one direction counter, at the index lookup would use
\* if the fetch unit had never been on another path.
THEOREM TrainingOnThePath == ASSUME PredictorParameters PROVE PredictorSpec => TrainedOnThePath
<1> DEFINE Train == counters' # counters =>
             \E t \in Thread, pc \in Conditional \cup Unconditional, taken \in BOOLEAN :
               LET i == globalTableIndex(pc, committed[t])
               IN  /\ committed'[t] = Shifted(committed[t], taken)
                   /\ flight[t] # << >> /\ Head(flight[t]).pc = pc
                   /\ \/ Moves(takenCounters, i, taken) /\ UNCHANGED notTakenCounters
                      \/ Moves(notTakenCounters, i, taken) /\ UNCHANGED takenCounters
<1>1. ASSUME PredictorInv, [PredictorNext]_predictorVars PROVE [Train]_predictorVars
  <2>1. ASSUME NEW t \in Thread, Commit(t) PROVE Train
    <3> DEFINE b == Head(flight[t])
               i == globalTableIndex(b.pc, committed[t])
    <3>1. flight[t] \in Seq(InFlight) /\ flight[t] # << >> /\ b \in InFlight
          /\ b = flight[t][1] /\ 1 \in DOMAIN flight[t]
      BY <1>1, <2>1 DEF Commit, PredictorInv, PredictorTypeOK
    <3>2. b.pc \in Conditional \cup Unconditional /\ b.taken \in BOOLEAN /\ b.history.ghr \in Nat
      BY <3>1 DEF InFlight, BPHistory
    <3>3. committed[t] = b.history.ghr % H
      <4>1. Before(globalHistoryReg[t], flight[t], 1) = committed[t]
        BY <1>1 DEF PredictorInv, HistoryIsPath, IsPath
      <4> QED
        BY <3>1, <4>1 DEF Before, H
    <3>4. i = IndexThen(t, b)
      BY <3>2, <3>3, IndexOfHistory DEF IndexThen
    <3>5. committed'[t] = Shifted(committed[t], b.taken) /\ update(t, b, b.taken)
      BY <1>1, <2>1 DEF Commit, PredictorInv, PredictorTypeOK
    <3>6. \/ Moves(takenCounters, i, b.taken) /\ UNCHANGED notTakenCounters
          \/ Moves(notTakenCounters, i, b.taken) /\ UNCHANGED takenCounters
      BY <3>4, <3>5, Zenon DEF update, Moves
    <3> QED
      BY <3>1, <3>2, <3>5, <3>6, Zenon
  <2>2. ASSUME NEW t \in Thread,
               Predict(t) \/ PredictUncond(t) \/ Squash(t) \/ Mispredicted(t)
        PROVE  counters' = counters
    BY <2>2, Zenon DEF Predict, PredictUncond, Fetch, Squash, Mispredicted
  <2>3. CASE UNCHANGED predictorVars
    BY <2>3
  <2>4. CASE PredictorNext
    <3>1. Train
      BY <2>1, <2>2, <2>4, Zenon DEF PredictorNext
    <3> QED
      BY <3>1
  <2> QED
    BY <1>1, <2>3, <2>4
<1>2. PredictorInv /\ [PredictorNext]_predictorVars => [Train]_predictorVars
  BY <1>1
<1>3. ([][Train]_predictorVars) <=> TrainedOnThePath
  BY DEF TrainedOnThePath
<1> HIDE DEF Train
<1>4. PredictorSpec => [][Train]_predictorVars
  BY <1>2, PredictorInvariance, PTL DEF PredictorSpec
<1> QED
  BY <1>3, <1>4

-------------------------------------------------------------------------------
(* Samples are the residues of one polynomial *)

Places == 0 .. Columns - 1
SmallOnes == Errors \cup {-1, 0, 1}

LEMMA SamplingTyped ==
  /\ Columns \in Nat \ {0} /\ Columns % 2 = 0 /\ HammingWeight \in Nat \ {0} /\ HammingWeight <= Columns
  /\ Moduli \in Seq(Nat \ {0}) /\ Len(Moduli) \in Nat \ {0} /\ Rows = 1 .. Len(Moduli)
  /\ SmallOnes \subseteq Int
<1>1. Moduli \in Seq(Nat \ {0}) /\ Moduli # << >>
  BY SamplingParameters
<1>2. Len(Moduli) \in Nat \ {0} /\ Rows = 1 .. Len(Moduli)
  BY <1>1 DEF Rows
<1>3. SmallOnes \subseteq Int
  BY SamplingParameters DEF SmallOnes
<1> QED
  BY <1>1, <1>2, <1>3, SamplingParameters

\* A small integer is less than half a modulus.
LEMMA ModulusLarge ==
  ASSUME NEW j \in Rows, NEW g \in SmallOnes
  PROVE  /\ Moduli[j] \in Nat \ {0} /\ Moduli[j] > 2 /\ g \in Int
         /\ Moduli[j] > 2 * g /\ Moduli[j] > 0 - 2 * g
<1>1. Moduli[j] \in Nat \ {0} /\ g \in Int
  BY SamplingTyped
<1>2. \A e \in Errors \cup {-1, 1} : Moduli[j] > 2 * e /\ Moduli[j] > 0 - 2 * e
  BY SamplingParameters DEF Rows
<1>3. Moduli[j] > 2
  BY <1>1, <1>2
<1>4. CASE g = 0
  BY <1>1, <1>3, <1>4
<1>5. CASE g # 0
  BY <1>1, <1>2, <1>3, <1>5 DEF SmallOnes
<1> QED
  BY <1>4, <1>5

\* No two places of the rows share a cell.
LEMMA CellFacts ==
  ASSUME NEW j \in Rows, NEW i \in Places
  PROVE  /\ Cell(j, i) \in Cells
         /\ \A k \in Rows, e \in Places : Cell(j, i) = Cell(k, e) => j = k /\ i = e
<1>1. Columns \in Nat \ {0} /\ Len(Moduli) \in Nat \ {0} /\ Rows = 1 .. Len(Moduli)
  BY SamplingTyped
<1>2. \A k \in Rows, e \in Places : k - 1 \in Nat /\ e \in 0 .. Columns - 1
  BY <1>1 DEF Places
<1>3. \A k \in Rows, e \in Places :
        Cell(k, e) \in Nat /\ Cell(k, e) \div Columns = k - 1 /\ Cell(k, e) % Columns = e
  BY <1>1, <1>2, Compose DEF Cell
<1>4. Cell(j, i) <= Len(Moduli) * Columns - 1
  <2> DEFINE C == Columns  n == Len(Moduli)
  <2>1. C \in Nat \ {0} /\ n \in Nat \ {0} /\ j \in 1 .. n /\ i \in 0 .. C - 1
    BY <1>1, <1>2
  <2> HIDE DEF C, n
  <2>2. n - j \in Nat
    BY <2>1
  <2>3. (n - j) * C \in Nat
    BY <2>1, <2>2
  <2>4. n * C = ((n - j) * C) + (((j - 1) * C) + C)
    BY <2>1, <2>2
  <2> DEFINE x == (j - 1) * C  y == (n - j) * C  z == n * C
  <2>5. x \in Int /\ y \in Nat /\ z = y + (x + C)
    BY <2>1, <2>3, <2>4
  <2> HIDE DEF x, y, z
  <2>6. x + i <= z - 1
    BY <2>1, <2>5
  <2> QED
    BY <2>6 DEF x, z, Cell, C, n
<1>5. Cell(j, i) \in Cells
  <2>1. Cell(j, i) \in Nat
    BY <1>3
  <2>2. Len(Moduli) * Columns - 1 \in Int
    BY <1>1
  <2> QED
    BY <1>4, <2>1, <2>2 DEF Cells
<1>6. ASSUME NEW k \in Rows, NEW e \in Places, Cell(j, i) = Cell(k, e) PROVE j = k /\ i = e
  <2>1. j - 1 = k - 1 /\ i = e
    BY <1>3, <1>6
  <2> QED
    BY <1>1, <2>1
<1> QED
  BY <1>5, <1>6

\* The words are those of the small integers col.
Composed(s, col) == \A j \in Rows, i \in Places : s[Cell(j, i)] = WordOf(col[i], Moduli[j])

LEMMA WithTyped ==
  ASSUME NEW s \in [Cells -> Int], NEW i, NEW g \in SmallOnes PROVE With(s, i, g) \in [Cells -> Int]
<1>1. \A j \in Rows : WordOf(g, Moduli[j]) \in Int
  BY ModulusLarge DEF WordOf
<1> QED
  BY <1>1 DEF With

LEMMA WithComposes ==
  ASSUME NEW s \in [Cells -> Int], NEW col \in [Places -> SmallOnes], Composed(s, col),
         NEW i \in Places, NEW g \in SmallOnes
  PROVE  Composed(With(s, i, g), [col EXCEPT ![i] = g])
<1> DEFINE new == [col EXCEPT ![i] = g]
<1>1. ASSUME NEW k \in Rows, NEW e \in Places
      PROVE  With(s, i, g)[Cell(k, e)] = WordOf(new[e], Moduli[k])
  <2> DEFINE c == Cell(k, e)
  <2>1. c \in Cells /\ \A j \in Rows : Cell(j, i) = c => j = k /\ i = e
    BY CellFacts, <1>1
  <2>2. CASE e = i
    <3>1. \E j \in Rows : c = Cell(j, i)
      BY <1>1, <2>2
    <3>2. (CHOOSE j \in Rows : c = Cell(j, i)) = k
      BY <2>1, <3>1
    <3>3. With(s, i, g)[c] = WordOf(g, Moduli[k])
      BY <2>1, <3>1, <3>2 DEF With
    <3>4. new[e] = g
      BY <2>2
    <3> QED
      BY <3>3, <3>4
  <2>3. CASE e # i
    <3>1. ~\E j \in Rows : c = Cell(j, i)
      BY <2>1, <2>3
    <3>2. With(s, i, g)[c] = s[c]
      BY <2>1, <3>1 DEF With
    <3>3. new[e] = col[e]
      BY <2>3, <1>1
    <3> QED
      BY <1>1, <3>2, <3>3 DEF Composed
  <2> QED
    BY <2>2, <2>3
<1> QED
  BY <1>1 DEF Composed

\* The places of a polynomial that are not zero.
Support(col) == {i \in Places : col[i] # 0}

\* The residues are those of one polynomial; of a secret key, with as many
\* coefficients 1 or -1 as have been drawn.
OnePolynomial ==
  \E col \in [Places -> SmallOnes] :
    /\ Composed(res, col)
    /\ sampler = "HWT" => /\ \A i \in Places : col[i] \in {-1, 0, 1}
                          /\ Cardinality(Support(col)) = at

\* The inductive invariant: where a sampler is between two steps, and what it has
\* made so far unless rand() returned RAND_MAX.
SamplingInv ==
  /\ sampler \in {"Gauss", "ZO", "Uniform", "HWT"}
  /\ res \in [Cells -> Int] /\ at \in Nat /\ drewMax \in BOOLEAN /\ overrun \in BOOLEAN
  /\ sampler = "Gauss" => at % 2 = 0
  /\ sampler = "HWT" => (overrun => drewMax)
  /\ sampler # "Uniform" /\ ~drewMax => OnePolynomial

LEMMA SupportFinite == \A col : IsFiniteSet(Support(col)) /\ Support(col) \subseteq Places
<1>1. IsFiniteSet(Places)
  BY SamplingTyped, FS_Interval DEF Places
<1> QED
  BY <1>1, FS_Subset DEF Support

LEMMA SamplingStarts == SamplingInit => SamplingInv
<1> SUFFICES ASSUME SamplingInit PROVE SamplingInv
  OBVIOUS
<1> DEFINE col == [i \in Places |-> 0]
<1>1. col \in [Places -> SmallOnes] /\ \A i \in Places : col[i] = 0
  BY DEF SmallOnes
<1>2. Support(col) = {}
  BY <1>1 DEF Support
<1>3. Composed(res, col)
  <2>1. \A j \in Rows, i \in Places : res[Cell(j, i)] = 0
    BY CellFacts DEF SamplingInit
  <2>2. \A j \in Rows : WordOf(0, Moduli[j]) = 0
    BY DEF WordOf
  <2> HIDE DEF col
  <2> QED
    BY <1>1, <2>1, <2>2 DEF Composed
<1> HIDE DEF col
<1>4. at = 0 /\ Cardinality(Support(col)) = at
  BY <1>2, FS_EmptySet DEF SamplingInit
<1>5. OnePolynomial
  BY <1>1, <1>3, <1>4 DEF OnePolynomial
<1>6. /\ sampler \in {"Gauss", "ZO", "Uniform", "HWT"}
      /\ res \in [Cells -> Int] /\ drewMax = FALSE /\ overrun = FALSE
  BY DEF SamplingInit
<1>7. at \in Nat /\ at % 2 = 0
  BY <1>4
<1> QED
  BY <1>5, <1>6, <1>7 DEF SamplingInv

LEMMA GaussKeeps == ASSUME SamplingInv, sampleGauss PROVE SamplingInv'
<1>1. /\ sampler = "Gauss" /\ at \in Nat /\ at % 2 = 0 /\ at < Columns /\ res \in [Cells -> Int]
      /\ drewMax \in BOOLEAN /\ overrun \in BOOLEAN
  BY DEF SamplingInv, sampleGauss
<1>2. PICK g1, g2 \in Errors : res' = With(With(res, at, g1), at + 1, g2)
  BY DEF sampleGauss
<1>3. at' = at + 2 /\ UNCHANGED <<sampler, drewMax, overrun>>
  BY DEF sampleGauss
<1>4. g1 \in SmallOnes /\ g2 \in SmallOnes
  BY <1>2 DEF SmallOnes
<1> DEFINE one == With(res, at, g1)
<1>5. one \in [Cells -> Int] /\ With(one, at + 1, g2) \in [Cells -> Int]
  BY <1>1, <1>4, WithTyped
<1>6. at' \in Nat /\ at' % 2 = 0
  BY <1>1, <1>3
<1>7. at \in Places /\ at + 1 \in Places
  BY <1>1, SamplingTyped DEF Places
<1>8. ASSUME ~drewMax PROVE OnePolynomial'
  <2>1. PICK col \in [Places -> SmallOnes] : Composed(res, col)
    BY <1>1, <1>8 DEF SamplingInv, OnePolynomial
  <2> DEFINE col1 == [col EXCEPT ![at] = g1]
             col2 == [col1 EXCEPT ![at + 1] = g2]
  <2>2. col1 \in [Places -> SmallOnes]
    BY <1>4, <2>1
  <2>3. Composed(one, col1)
    BY <1>1, <1>4, <1>7, <2>1, WithComposes
  <2> HIDE DEF one, col1
  <2>4. col2 \in [Places -> SmallOnes]
    BY <1>4, <2>2
  <2>5. Composed(With(one, at + 1, g2), col2)
    BY <1>4, <1>5, <1>7, <2>2, <2>3, WithComposes
  <2>6. Composed(res', col2)
    BY <1>2, <2>5 DEF one
  <2> HIDE DEF col2
  <2>7. sampler' # "HWT"
    BY <1>1, <1>3
  <2>8. \E c \in [Places -> SmallOnes] : Composed(res', c)
    BY <2>4, <2>6
  <2> QED
    BY <2>7, <2>8 DEF OnePolynomial, Composed
<1>9. res' \in [Cells -> Int]
  BY <1>2, <1>5
<1> QED
  BY <1>1, <1>3, <1>6, <1>8, <1>9 DEF SamplingInv

LEMMA ZOKeeps == ASSUME SamplingInv, sampleZO PROVE SamplingInv'
<1>1. /\ sampler = "ZO" /\ at \in Nat /\ at < Columns /\ res \in [Cells -> Int]
      /\ drewMax \in BOOLEAN /\ overrun \in BOOLEAN
  BY DEF SamplingInv, sampleZO
<1>2. PICK zo \in {-1, 0, 1} : res' = With(res, at, zo)
  BY DEF sampleZO
<1>3. at' = at + 1 /\ UNCHANGED <<sampler, drewMax, overrun>>
  BY DEF sampleZO
<1>4. zo \in SmallOnes
  BY <1>2 DEF SmallOnes
<1>5. res' \in [Cells -> Int]
  BY <1>1, <1>2, <1>4, WithTyped
<1>6. at \in Places /\ at' \in Nat
  BY <1>1, <1>3, SamplingTyped DEF Places
<1>7. ASSUME ~drewMax PROVE OnePolynomial'
  <2>1. PICK col \in [Places -> SmallOnes] : Composed(res, col)
    BY <1>1, <1>7 DEF SamplingInv, OnePolynomial
  <2> DEFINE new == [col EXCEPT ![at] = zo]
  <2>2. new \in [Places -> SmallOnes]
    BY <1>4, <2>1
  <2>3. Composed(res', new)
    BY <1>1, <1>2, <1>4, <1>6, <2>1, WithComposes
  <2> HIDE DEF new
  <2>4. sampler' # "HWT"
    BY <1>1, <1>3
  <2>5. \E c \in [Places -> SmallOnes] : Composed(res', c)
    BY <2>2, <2>3
  <2> QED
    BY <2>4, <2>5 DEF OnePolynomial, Composed
<1> QED
  BY <1>1, <1>3, <1>5, <1>6, <1>7 DEF SamplingInv

LEMMA UniformKeeps == ASSUME SamplingInv, sampleUniform PROVE SamplingInv'
<1>1. /\ sampler = "Uniform" /\ at \in Nat /\ at \in Cells /\ res \in [Cells -> Int]
      /\ drewMax \in BOOLEAN /\ overrun \in BOOLEAN
  BY DEF SamplingInv, sampleUniform
<1> DEFINE n == Moduli[at \div Columns + 1]
<1>2. PICK x \in {0, n \div 2, n} : res' = [res EXCEPT ![at] = x] /\ drewMax' = (drewMax \/ x = n)
  BY Zenon DEF sampleUniform
<1>3. at' = at + 1 /\ UNCHANGED <<sampler, overrun>>
  BY DEF sampleUniform
<1>4. n \in Nat \ {0}
  <2> DEFINE C == Columns  b == at \div C  L1 == Len(Moduli)
  <2>1. C \in Nat \ {0} /\ L1 \in Nat \ {0} /\ at \in Nat /\ at < L1 * C
    <3>1. C \in Nat \ {0} /\ L1 \in Nat \ {0}
      BY SamplingTyped
    <3>2. L1 * C \in Nat
      BY <3>1
    <3> QED
      BY <1>1, <3>1, <3>2 DEF Cells
  <2> HIDE DEF L1, C
  <2>2. b \in Nat /\ b * C <= at
    BY <2>1, DivMod
  <2> HIDE DEF b
  <2>3. ASSUME b >= L1 PROVE FALSE
    <3>1. PICK d \in Nat : b = L1 + d
      BY <2>1, <2>2, <2>3
    <3>2. b * C = L1 * C + d * C /\ d * C \in Nat /\ L1 * C \in Nat
      BY <2>1, <3>1
    <3> QED
      BY <2>1, <2>2, <3>2
  <2>4. b + 1 \in 1 .. L1
    BY <2>1, <2>2, <2>3
  <2> QED
    BY <2>4, SamplingTyped DEF b, C, L1
<1>5. x \in Int
  BY <1>2, <1>4
<1>6. res' \in [Cells -> Int] /\ drewMax' \in BOOLEAN
  BY <1>1, <1>2, <1>5
<1> QED
  BY <1>1, <1>3, <1>6 DEF SamplingInv

LEMMA HWTKeeps == ASSUME SamplingInv, sampleHWT PROVE SamplingInv'
<1>1. /\ sampler = "HWT" /\ at \in Nat /\ at < HammingWeight /\ res \in [Cells -> Int]
      /\ drewMax \in BOOLEAN /\ overrun \in BOOLEAN /\ (overrun => drewMax)
  BY DEF SamplingInv, sampleHWT
<1>2. PICK i \in 0 .. Columns, hwt \in {-1, 1} :
        /\ ~Taken(res, i) /\ res' = With(res, i, hwt)
        /\ drewMax' = (drewMax \/ i = Columns) /\ overrun' = (overrun \/ i = Columns)
  BY DEF sampleHWT
<1>3. at' = at + 1 /\ UNCHANGED sampler
  BY DEF sampleHWT
<1>4. hwt \in SmallOnes
  BY <1>2 DEF SmallOnes
<1>5. res' \in [Cells -> Int]
  BY <1>1, <1>2, <1>4, WithTyped
<1>6. ASSUME ~drewMax' PROVE OnePolynomial'
  <2>1. ~drewMax /\ i \in Places
    <3>1. ~drewMax /\ i # Columns
      BY <1>2, <1>6
    <3> QED
      BY <1>2, <3>1, SamplingTyped DEF Places
  <2>2. PICK col \in [Places -> SmallOnes] :
          /\ Composed(res, col) /\ \A e \in Places : col[e] \in {-1, 0, 1}
          /\ Cardinality(Support(col)) = at
    BY <1>1, <2>1 DEF SamplingInv, OnePolynomial
  <2> DEFINE new == [col EXCEPT ![i] = hwt]
  <2>3. new \in [Places -> SmallOnes]
    BY <1>4, <2>2
  <2>4. Composed(res', new)
    BY <1>1, <1>2, <1>4, <2>1, <2>2, WithComposes
  <2>5. \A e \in Places : new[e] \in {-1, 0, 1}
    BY <1>2, <2>2
  <2>6. col[i] = 0
    <3>1. 1 \in Rows /\ Cell(1, i) = i
      BY <2>1, SamplingTyped DEF Cell, Places
    <3>2. i \in Cells /\ res[i] = WordOf(col[i], Moduli[1])
      BY <2>1, <2>2, <3>1, CellFacts DEF Composed
    <3>3. res[i] = 0
      BY <1>2, <3>2 DEF Taken
    <3>4. Moduli[1] \in Nat \ {0} /\ Moduli[1] > 2
      BY <3>1, <1>4, ModulusLarge
    <3>5. col[i] \in {-1, 0, 1}
      BY <2>1, <2>2
    <3> QED
      BY <3>2, <3>3, <3>4, <3>5 DEF WordOf
  <2>7. Support(new) = Support(col) \cup {i}
    BY <1>2, <2>1 DEF Support
  <2>8. i \notin Support(col)
    BY <2>6 DEF Support
  <2>9. Cardinality(Support(new)) = at + 1
    BY <2>2, <2>7, <2>8, SupportFinite, FS_AddElement
  <2> HIDE DEF new
  <2>10. \E c \in [Places -> SmallOnes] :
          /\ Composed(res', c) /\ \A e \in Places : c[e] \in {-1, 0, 1}
          /\ Cardinality(Support(c)) = at'
    BY <1>3, <2>3, <2>4, <2>5, <2>9
  <2> QED
    BY <2>10 DEF OnePolynomial, Composed, Support
<1>7. /\ drewMax' \in BOOLEAN /\ overrun' \in BOOLEAN /\ (overrun' => drewMax') /\ at' \in Nat
  BY <1>1, <1>2, <1>3
<1> QED
  BY <1>1, <1>3, <1>5, <1>6, <1>7 DEF SamplingInv

LEMMA SamplingKeeps == ASSUME SamplingInv, [SamplingNext]_samplingVars PROVE SamplingInv'
<1>1. CASE SamplingNext
  BY <1>1, GaussKeeps, ZOKeeps, UniformKeeps, HWTKeeps DEF SamplingNext
<1>2. CASE UNCHANGED samplingVars
  BY <1>2 DEF samplingVars, SamplingInv, OnePolynomial, Composed, Support
<1> QED
  BY <1>1, <1>2

\* Before, during and after every sampler the residues are those of one polynomial
\* unless rand() returned RAND_MAX.
THEOREM SamplersCompose == SamplingSpec => []SamplingInv
<1> QED
  BY SamplingStarts, SamplingKeeps, PTL DEF SamplingSpec

\* What a column stands for, of the polynomial it was made from.
LEMMA ColumnStandsFor ==
  ASSUME NEW col \in [Places -> SmallOnes], Composed(res, col), NEW i \in Places
  PROVE  /\ Represents(col[i], i)
         /\ col[i] \in {-1, 0, 1} => /\ Represents(0, i) <=> col[i] = 0
                                     /\ Represents(1, i) \/ Represents(-1, i) <=> col[i] # 0
<1>1. ASSUME NEW j \in Rows
      PROVE  /\ Moduli[j] \in Nat \ {0} /\ Moduli[j] > 2 /\ col[i] \in Int
             /\ res[Cell(j, i)] = WordOf(col[i], Moduli[j])
  BY <1>1, ModulusLarge DEF Composed
<1>2. ASSUME NEW n \in Nat \ {0} PROVE 0 % n = 0 /\ n % n = 0
  BY <1>2
<1>3. Represents(col[i], i)
  <2> SUFFICES ASSUME NEW j \in Rows PROVE (res[Cell(j, i)] - col[i]) % Moduli[j] = 0
    BY DEF Represents
  <2>1. res[Cell(j, i)] - col[i] \in {0, Moduli[j]}
    BY <1>1 DEF WordOf
  <2> QED
    BY <1>1, <1>2, <2>1
<1>4. 1 \in Rows
  BY SamplingTyped
<1> DEFINE n == Moduli[1]  w == res[Cell(1, i)]
<1>5. n \in Nat /\ n > 2 /\ col[i] \in Int /\ w = WordOf(col[i], n)
  BY <1>1, <1>4
<1>6. \A g : Represents(g, i) => (w - g) % n = 0
  BY <1>4 DEF Represents
<1> HIDE DEF n, w
<1>7. ASSUME col[i] \in {-1, 1} PROVE ~Represents(0, i)
  <2>1. w \in {1, n - 1} /\ w - 0 = w
    BY <1>5, <1>7 DEF WordOf
  <2>2. w \in 1 .. n - 1
    BY <1>5, <2>1
  <2>3. w % n = w
    BY <1>5, <2>2
  <2> QED
    BY <1>6, <2>1, <2>2, <2>3
<1>8. ASSUME col[i] = 0 PROVE ~Represents(1, i) /\ ~Represents(-1, i)
  <2>1. w = 0
    BY <1>5, <1>8 DEF WordOf
  <2>2. (w - 1) % n # 0 /\ (w - (-1)) % n # 0
    BY <1>5, <2>1
  <2> QED
    BY <1>6, <2>2
<1> QED
  BY <1>3, <1>7, <1>8

\* Errors and secrets have the residues of one small polynomial in every row, and
\* a secret h coefficients other than zero, for every number of coefficients and
\* of moduli, whatever rand() returns but RAND_MAX.
THEOREM SamplesAreSound == SamplingSpec => []SampleIsOnePolynomial
<1>1. ASSUME SamplingInv PROVE SampleIsOnePolynomial
  <2> SUFFICES ASSUME Done, sampler # "Uniform", ~drewMax
               PROVE  /\ \A i \in Places : \E g \in SmallOnes : Represents(g, i)
                      /\ sampler = "HWT" =>
                           /\ Cardinality({i \in Places : Represents(1, i) \/ Represents(-1, i)}) = HammingWeight
                           /\ Cardinality({i \in Places : Represents(0, i)}) = Columns - HammingWeight
                           /\ ~overrun
    BY DEF SampleIsOnePolynomial, Places, SmallOnes
  <2>1. PICK col \in [Places -> SmallOnes] :
          /\ Composed(res, col)
          /\ sampler = "HWT" => /\ \A i \in Places : col[i] \in {-1, 0, 1}
                                /\ Cardinality(Support(col)) = at
    BY <1>1 DEF SamplingInv, OnePolynomial
  <2>2. \A i \in Places : col[i] \in SmallOnes /\ Represents(col[i], i)
    BY <2>1, ColumnStandsFor
  <2>3. ASSUME sampler = "HWT"
        PROVE  /\ Cardinality({i \in Places : Represents(1, i) \/ Represents(-1, i)}) = HammingWeight
               /\ Cardinality({i \in Places : Represents(0, i)}) = Columns - HammingWeight
               /\ ~overrun
    <3>1. at = HammingWeight /\ Cardinality(Support(col)) = HammingWeight /\ ~overrun
      BY <1>1, <2>1, <2>3 DEF Done, SamplingInv
    <3>2. \A i \in Places : /\ Represents(0, i) <=> col[i] = 0
                            /\ Represents(1, i) \/ Represents(-1, i) <=> col[i] # 0
      BY <2>1, <2>3, ColumnStandsFor
    <3>3. /\ {i \in Places : Represents(1, i) \/ Represents(-1, i)} = Support(col)
          /\ {i \in Places : Represents(0, i)} = Places \ Support(col)
      BY <3>2 DEF Support
    <3>4. IsFiniteSet(Places) /\ Cardinality(Places) = Columns
      BY SamplingTyped, FS_Interval DEF Places
    <3>5. Places \cap Support(col) = Support(col)
      BY SupportFinite
    <3>6. Cardinality(Places \ Support(col)) = Columns - HammingWeight
      BY <3>1, <3>4, <3>5, FS_Difference
    <3> QED
      BY <3>1, <3>3, <3>6
  <2> QED
    BY <2>2, <2>3
<1> QED
  BY <1>1, SamplersCompose, PTL

-------------------------------------------------------------------------------
(* The search for primes writes one too many at most *)

\* The candidates, on both sides of 2^logp.
At(k) == Pow2[args.logp] + k * M + 1

\* The prime behind the end is the mirror image of the last one wanted, b rounds
\* from the middle.
BehindIs(b) == /\ behind = <<At(0 - b)>>
               /\ Len(qVec) = args.L /\ qVec[args.L] = At(b)
               /\ \A k \in DOMAIN pVec : pVec[k] # At(0 - b)

SetupTypeOK == /\ args \in Arguments /\ phase \in {"first", "primes", "special", "tables", "done", "threw"}
               /\ side \in {1, 2} /\ bnd \in Nat \ {0}
               /\ qVec \in Seq(Int) /\ pVec \in Seq(Int) /\ behind \in Seq(Int)

\* The inductive invariant: between the two candidates of a round the list may
\* just have been completed, and after one was written behind it the search is
\* over and has left that round.
SetupInv ==
  /\ SetupTypeOK
  /\ Len(qVec) <= args.L
  /\ phase = "first" => qVec = << >> /\ side = 1 /\ behind = << >>
  /\ phase \in {"first", "primes"} => pVec = << >>
  /\ phase = "primes" /\ behind # << >> => side = 1
  /\ phase = "primes" /\ side = 2 /\ Len(qVec) = args.L => qVec[args.L] = At(bnd) /\ behind = << >>
  /\ behind # << >> => \E b \in 1 .. bnd - 1 : BehindIs(b)

LEMMA ArgumentFacts ==
  ASSUME NEW x \in Arguments
  PROVE  /\ x.logN \in Nat /\ x.logp \in Nat /\ x.L \in Nat \ {0} /\ x.direct \in Nat
         /\ x.direct # 0 => x.L = 1
BY SetupParameters

LEMMA CandidateFacts ==
  ASSUME SetupTypeOK
  PROVE  /\ \A k \in Int : At(k) \in Int
         /\ \A j, k \in Int : At(j) = At(k) => j = k
         /\ \A k \in Nat \ {0} : At(k) > Pow2[args.logp] /\ At(k) + At(0 - k) = Pow2[args.logp + 1] + 2
         /\ Candidate \in {At(bnd), At(0 - bnd)} /\ Candidate \in Int
         /\ side = 1 => Candidate = At(bnd)
         /\ side = 2 => Candidate = At(0 - bnd)
<1>1. args.logN \in Nat /\ args.logp \in Nat
  BY ArgumentFacts DEF SetupTypeOK
<1>2. M \in Nat \ {0}
  <2>1. Pow2[args.logN] \in Nat \ {0}
    BY <1>1, Pow2Facts
  <2> QED
    BY <2>1 DEF M, N
<1> DEFINE b == Pow2[args.logp]  m == M
<1>3. b \in Nat /\ m \in Nat \ {0} /\ Pow2[args.logp + 1] = 2 * b
  BY <1>1, <1>2, Pow2Facts
<1>4. \A k : At(k) = b + k * m + 1
  BY DEF At
<1> HIDE DEF b, m
<1>5. \A k \in Int : k * m \in Int /\ At(k) \in Int
  BY <1>3, <1>4
<1>6. ASSUME NEW j \in Int, NEW k \in Int, At(j) = At(k) PROVE j = k
  <2>1. j * m = k * m
    <3> DEFINE u == j * m  w == k * m
    <3>1. u \in Int /\ w \in Int /\ b + u + 1 = b + w + 1
      BY <1>4, <1>5, <1>6
    <3> HIDE DEF u, w
    <3>2. u = w
      BY <1>3, <3>1
    <3> QED
      BY <3>2 DEF u, w
  <2>2. (j - k) * m = 0
    BY <1>3, <2>1
  <2>3. j - k = 0
    BY <1>3, <2>2
  <2> QED
    BY <2>3
<1>7. ASSUME NEW k \in Nat \ {0} PROVE At(k) > b /\ At(k) + At(0 - k) = Pow2[args.logp + 1] + 2
  <2> DEFINE u == k * m  w == (0 - k) * m
  <2>1. u \in Nat /\ w = 0 - u
    BY <1>3
  <2>2. At(k) = b + u + 1 /\ At(0 - k) = b + w + 1
    BY <1>4
  <2> HIDE DEF u, w
  <2> QED
    BY <1>3, <2>1, <2>2
<1>8. bnd \in Int /\ 0 - bnd \in Int /\ side \in {1, 2}
  BY DEF SetupTypeOK
<1>9. /\ side = 1 => Candidate = At(bnd)
      /\ side = 2 => Candidate = At(0 - bnd)
  BY DEF Candidate, At
<1> QED
  BY <1>5, <1>6, <1>7, <1>8, <1>9 DEF b

LEMMA SetupStarts == SetupInit => SetupInv
<1> SUFFICES ASSUME SetupInit PROVE SetupInv
  OBVIOUS
<1>1. args \in Arguments /\ side = 1 /\ bnd = 1 /\ pVec = << >> /\ behind = << >>
  BY DEF SetupInit
<1>2. args.L \in Nat \ {0} /\ args.direct \in Nat /\ (args.direct # 0 => args.L = 1)
  BY <1>1, ArgumentFacts
<1>3. CASE args.direct # 0
  <2>1. phase = "special" /\ qVec = <<args.direct>>
    BY <1>3 DEF SetupInit
  <2>2. qVec \in Seq(Int) /\ Len(qVec) = 1
    BY <1>2, <2>1
  <2> QED
    BY <1>1, <1>2, <1>3, <2>1, <2>2 DEF SetupInv, SetupTypeOK
<1>4. CASE args.direct = 0
  <2>1. phase = "first" /\ qVec = << >>
    BY <1>4 DEF SetupInit
  <2> QED
    BY <1>1, <1>2, <2>1 DEF SetupInv, SetupTypeOK
<1> QED
  BY <1>3, <1>4

\* While the arguments stay, so do the candidates.
LEMMA CandidatesStay == UNCHANGED args => \A k : At(k)' = At(k)
BY DEF At, M, N

\* A round before bnd is one before a later one.
LEMMA LaterRound ==
  \A b \in Nat, x \in Nat, y \in Nat : x <= y /\ b \in 1 .. x - 1 => b \in 1 .. y - 1
OBVIOUS

\* A step that leaves the primes alone and does not go back to an earlier phase.
LEMMA SetupQuiet ==
  ASSUME SetupInv, UNCHANGED <<args, qVec, pVec, behind>>, bnd' \in Nat, bnd' >= bnd, side' \in {1, 2},
         \/ phase' = phase /\ phase \notin {"first", "primes"}
         \/ phase' \in {"special", "tables", "done", "threw"}
  PROVE  SetupInv'
<1>1. SetupTypeOK'
  BY DEF SetupInv, SetupTypeOK
<1>2. phase' \notin {"first", "primes"}
  OBVIOUS
<1>3. \A b : BehindIs(b)' <=> BehindIs(b)
  BY CandidatesStay DEF BehindIs
<1>4. behind # << >> => \E b \in 1 .. bnd' - 1 : BehindIs(b)
  <2> SUFFICES ASSUME behind # << >> PROVE \E b \in 1 .. bnd' - 1 : BehindIs(b)
    OBVIOUS
  <2>1. PICK b \in 1 .. bnd - 1 : BehindIs(b)
    BY DEF SetupInv
  <2>2. bnd \in Nat /\ bnd' \in Nat
    BY DEF SetupInv, SetupTypeOK
  <2>3. bnd <= bnd' /\ b \in Nat
    BY <2>1, <2>2
  <2>4. b \in 1 .. bnd' - 1
    BY <2>1, <2>2, <2>3, LaterRound
  <2> QED
    BY <2>1, <2>4
<1> QED
  BY <1>1, <1>2, <1>3, <1>4 DEF SetupInv

LEMMA FirstPrimeKeeps == ASSUME SetupInv, FirstPrime PROVE SetupInv'
<1>1. /\ phase = "first" /\ qVec = << >> /\ pVec = << >> /\ behind = << >> /\ side = 1
      /\ bnd \in Nat \ {0} /\ args \in Arguments
      /\ UNCHANGED <<args, side, pVec, behind, tables>>
  BY DEF FirstPrime, SetupInv, SetupTypeOK
<1> DEFINE prime == Pow2[Q0Bits] + bnd * M + 1
<1>2. prime \in Int
  <2> DEFINE x == Pow2[Q0Bits]  y == Pow2[args.logN]
  <2>1. x \in Nat /\ y \in Nat /\ bnd \in Nat
    BY <1>1, SetupParameters, Pow2Facts, ArgumentFacts
  <2>2. prime = x + bnd * (2 * y) + 1
    BY DEF M, N
  <2> HIDE DEF x, y, prime
  <2>3. bnd * (2 * y) \in Int
    BY <2>1
  <2> QED
    BY <2>1, <2>2, <2>3
<1>3. args.L \in Nat \ {0}
  BY <1>1, ArgumentFacts
<1>4. \/ qVec' = <<prime>> /\ bnd' = 1 /\ phase' = "primes"
      \/ bnd' = bnd + 1 /\ UNCHANGED <<qVec, phase>>
  BY Zenon DEF FirstPrime
<1> HIDE DEF prime
<1>5. CASE qVec' = <<prime>> /\ bnd' = 1 /\ phase' = "primes"
  <2>1. qVec' \in Seq(Int) /\ Len(qVec') = 1
    BY <1>2, <1>5
  <2> QED
    BY <1>1, <1>3, <1>5, <2>1 DEF SetupInv, SetupTypeOK
<1>6. CASE bnd' = bnd + 1 /\ UNCHANGED <<qVec, phase>>
  BY <1>1, <1>3, <1>6 DEF SetupInv, SetupTypeOK
<1> QED
  BY <1>4, <1>5, <1>6

LEMMA NextPrimeKeeps == ASSUME SetupInv, NextPrime PROVE SetupInv'
<1>1. /\ phase = "primes" /\ side \in {1, 2} /\ (side = 2 \/ Len(qVec) < args.L)
      /\ qVec \in Seq(Int) /\ behind \in Seq(Int) /\ bnd \in Nat \ {0} /\ args \in Arguments
      /\ pVec = << >> /\ Len(qVec) <= args.L
      /\ behind # << >> => side = 1
  BY DEF NextPrime, Searching, SetupInv, SetupTypeOK
<1>2. UNCHANGED <<args, phase, pVec, tables>>
  BY DEF NextPrime
<1>3. \/ side = 1 /\ side' = 2 /\ bnd' = bnd
      \/ side = 2 /\ side' = 1 /\ bnd' = bnd + 1
  BY <1>1 DEF NextPrime, Onward
<1>4. args.L \in Nat \ {0}
  BY <1>1, ArgumentFacts
<1>5. \A k : At(k)' = At(k)
  BY <1>2, CandidatesStay
<1>6. /\ Candidate \in Int
      /\ side = 1 => Candidate = At(bnd)
      /\ side = 2 => Candidate = At(0 - bnd)
  BY CandidateFacts DEF SetupInv
\* Where something is behind, the round of both candidates is over, and the list full.
<1>7. behind = << >>
  <2> SUFFICES ASSUME behind # << >> PROVE FALSE
    OBVIOUS
  <2>1. PICK b \in 1 .. bnd - 1 : BehindIs(b)
    BY DEF SetupInv
  <2>2. Len(qVec) = args.L /\ side = 1
    BY <1>1, <2>1 DEF BehindIs
  <2> QED
    BY <1>1, <1>4, <2>2
<1>8. \/ UNCHANGED <<qVec, behind>>
      \/ Len(qVec) < args.L /\ qVec' = Append(qVec, Candidate) /\ UNCHANGED behind
      \/ ~(Len(qVec) < args.L) /\ behind' = Append(behind, Candidate) /\ UNCHANGED qVec
  BY DEF NextPrime
<1>9. CASE UNCHANGED <<qVec, behind>>
  <2>1. ~(side' = 2 /\ Len(qVec') = args'.L)
    BY <1>1, <1>2, <1>3, <1>4, <1>9
  <2> QED
    BY <1>1, <1>2, <1>3, <1>7, <1>9, <2>1 DEF SetupInv, SetupTypeOK
<1>10. CASE Len(qVec) < args.L /\ qVec' = Append(qVec, Candidate) /\ UNCHANGED behind
  <2>1. /\ qVec' \in Seq(Int) /\ Len(qVec') = Len(qVec) + 1 /\ Len(qVec') <= args.L
        /\ qVec'[Len(qVec')] = Candidate
    BY <1>1, <1>4, <1>6, <1>10
  <2>2. side' = 2 => side = 1 /\ bnd' = bnd
    BY <1>3
  <2>3. side' = 2 /\ Len(qVec') = args'.L => qVec'[args'.L] = At(bnd)'
    BY <1>2, <1>5, <1>6, <2>1, <2>2
  <2> QED
    BY <1>1, <1>2, <1>3, <1>7, <1>10, <2>1, <2>3 DEF SetupInv, SetupTypeOK
<1>11. CASE ~(Len(qVec) < args.L) /\ behind' = Append(behind, Candidate) /\ UNCHANGED qVec
  <2>1. side = 2 /\ Len(qVec) = args.L
    BY <1>1, <1>4, <1>11
  <2>2. qVec[args.L] = At(bnd)
    BY <1>1, <2>1 DEF SetupInv
  <2>3. behind' = <<At(0 - bnd)>> /\ behind' \in Seq(Int)
    BY <1>6, <1>7, <1>11, <2>1
  <2>4. PICK b \in Nat \ {0} : b = bnd
    BY <1>1
  <2>5. side' = 1 /\ bnd' \in Nat \ {0} /\ b \in 1 .. bnd' - 1
    BY <1>1, <1>3, <2>1, <2>4
  <2>6. qVec'[args'.L] = At(b)' /\ behind' = <<At(0 - b)'>>
    BY <1>2, <1>5, <1>11, <2>2, <2>3, <2>4
  <2>7. Len(qVec') = args'.L /\ pVec' = << >>
    BY <1>1, <1>2, <1>11, <2>1
  <2>8. BehindIs(b)'
    BY <2>6, <2>7 DEF BehindIs
  <2>9. \E k \in 1 .. bnd' - 1 : BehindIs(k)'
    BY <2>5, <2>8
  <2>10. SetupTypeOK'
    BY <1>1, <1>2, <1>11, <2>3, <2>5 DEF SetupTypeOK
  <2>11. Len(qVec') <= args'.L /\ phase' = "primes" /\ side' = 1 /\ pVec' = << >>
    BY <1>1, <1>2, <1>4, <2>5, <2>7
  <2> QED
    BY <2>9, <2>10, <2>11 DEF SetupInv
<1> QED
  BY <1>8, <1>9, <1>10, <1>11

LEMMA SpecialPrimeKeeps == ASSUME SetupInv, SpecialPrime PROVE SetupInv'
<1>1. /\ phase = "special" /\ side \in {1, 2} /\ bnd \in Nat \ {0} /\ pVec \in Seq(Int)
      /\ UNCHANGED <<args, phase, qVec, behind, tables>>
  BY DEF SpecialPrime, SetupInv, SetupTypeOK
<1>2. bnd' \in Nat \ {0} /\ bnd' >= bnd /\ side' \in {1, 2}
  BY <1>1 DEF SpecialPrime, Onward
<1>3. Candidate \in {At(bnd), At(0 - bnd)} /\ Candidate \in Int /\ bnd \in Int /\ 0 - bnd \in Int
  BY <1>1, CandidateFacts DEF SetupInv
<1>4. pVec' = pVec \/ pVec' = Append(pVec, Candidate)
  BY DEF SpecialPrime
<1>5. /\ pVec' \in Seq(Int)
      /\ \A k \in DOMAIN pVec' : pVec'[k] = Candidate \/ (k \in DOMAIN pVec /\ pVec'[k] = pVec[k])
  <2>1. CASE pVec' = pVec
    BY <1>1, <2>1
  <2>2. CASE pVec' = Append(pVec, Candidate)
    <3> DEFINE c == Candidate
    <3>1. pVec' = Append(pVec, c) /\ c \in Int /\ pVec \in Seq(Int)
      BY <1>1, <1>3, <2>2
    <3> HIDE DEF c
    <3>2. /\ Append(pVec, c) \in Seq(Int)
          /\ \A k \in 1 .. Len(pVec) + 1 : k = Len(pVec) + 1 \/ k \in 1 .. Len(pVec)
          /\ DOMAIN Append(pVec, c) = 1 .. Len(pVec) + 1
      BY <3>1
    <3>3. \A k \in DOMAIN Append(pVec, c) :
            Append(pVec, c)[k] = c \/ (k \in DOMAIN pVec /\ Append(pVec, c)[k] = pVec[k])
      BY <3>1
    <3> QED
      BY <3>1, <3>2, <3>3 DEF c
  <2> QED
    BY <1>4, <2>1, <2>2
<1>6. ASSUME behind # << >> PROVE \E b \in 1 .. bnd' - 1 : BehindIs(b)'
  <2>1. PICK b \in 1 .. bnd - 1 : BehindIs(b)
    BY <1>6 DEF SetupInv
  <2>2. 0 - b \in Int /\ 0 - b # bnd /\ 0 - b # 0 - bnd
    BY <1>1, <2>1
  <2>3. Candidate # At(0 - b)
    <3>1. \A j, k \in Int : At(j) = At(k) => j = k
      BY CandidateFacts DEF SetupInv
    <3> QED
      BY <1>3, <2>2, <3>1
  <2>4. \A k \in DOMAIN pVec' : pVec'[k] # At(0 - b)
    BY <1>5, <2>1, <2>3 DEF BehindIs
  <2>5. At(b)' = At(b) /\ At(0 - b)' = At(0 - b)
    BY <1>1, CandidatesStay
  <2>6. BehindIs(b)'
    BY <1>1, <2>1, <2>4, <2>5 DEF BehindIs
  <2>7. b \in 1 .. bnd' - 1
    <3>1. b \in Nat /\ bnd \in Nat /\ bnd' \in Nat /\ bnd <= bnd'
      BY <1>1, <1>2, <2>1
    <3> QED
      BY <2>1, <3>1, LaterRound
  <2> QED
    BY <2>6, <2>7
<1>7. SetupTypeOK'
  BY <1>1, <1>2, <1>5 DEF SetupInv, SetupTypeOK
<1> QED
  BY <1>1, <1>6, <1>7 DEF SetupInv

LEMMA SetupKeeps == ASSUME SetupInv, [SetupNext]_setupVars PROVE SetupInv'
<1>1. bnd \in Nat /\ bnd >= bnd /\ side \in {1, 2}
  BY DEF SetupInv, SetupTypeOK
<1>2. CASE PrimesFound
  BY <1>1, <1>2, SetupQuiet DEF PrimesFound, SpecialBnd
<1>3. CASE SpecialFound
  BY <1>1, <1>3, SetupQuiet DEF SpecialFound
<1>4. CASE MakeTables
  <2>1. UNCHANGED <<args, qVec, pVec, behind, bnd, side, phase>> /\ phase = "tables"
    BY <1>4, Zenon DEF MakeTables
  <2> QED
    BY <1>1, <2>1, SetupQuiet
<1>5. CASE Ready
  BY <1>1, <1>5, SetupQuiet DEF Ready
<1>6. CASE Throw
  BY <1>1, <1>6, SetupQuiet DEF Throw
<1>7. CASE UNCHANGED setupVars
  BY <1>7, CandidatesStay DEF setupVars, SetupInv, SetupTypeOK, BehindIs
<1>8. SetupNext => FirstPrime \/ NextPrime \/ PrimesFound \/ SpecialPrime \/ SpecialFound \/ MakeTables \/ Ready \/ Throw
  BY Zenon DEF SetupNext
<1> QED
  BY <1>2, <1>3, <1>4, <1>5, <1>6, <1>7, <1>8, FirstPrimeKeeps, NextPrimeKeeps, SpecialPrimeKeeps

\* Where the constructor's search is, and what may have been written behind.
THEOREM SearchInvariance == SetupSpec => []SetupInv
<1> QED
  BY SetupStarts, SetupKeeps, PTL DEF SetupSpec

\* For all arguments of the constructor and wherever the primes are, at most one
\* is written behind the end of qVec, the mirror image of the last one wanted,
\* and the search for special primes, which goes on from there, does not find it.
THEOREM OneBehindAlways == SetupSpec => []OneBehind
<1>1. ASSUME SetupInv PROVE OneBehind
  <2>1. CASE behind = << >>
    BY <2>1 DEF OneBehind
  <2>2. CASE behind # << >>
    <3>1. PICK b \in 1 .. bnd - 1 : BehindIs(b)
      BY <1>1, <2>2 DEF SetupInv
    <3>2. b \in Nat \ {0}
      BY <1>1, <3>1 DEF SetupInv, SetupTypeOK
    <3>3. /\ At(b) > Pow2[args.logp] /\ At(b) + At(0 - b) = Pow2[args.logp + 1] + 2
      BY <1>1, <3>2, CandidateFacts DEF SetupInv
    <3>4. Len(behind) = 1 /\ behind[1] = At(0 - b)
      BY <3>1 DEF BehindIs
    <3> QED
      BY <3>1, <3>3, <3>4 DEF OneBehind, BehindIs
  <2> QED
    BY <2>1, <2>2
<1> QED
  BY <1>1, SearchInvariance, PTL
===============================================================================
