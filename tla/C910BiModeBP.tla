------------------------------ MODULE C910BiModeBP ------------------------------
(***************************************************************************)
(* The bi-mode branch predictor of src/gem5-modify/c910_bi_mode.{cc,hh}:   *)
(* a table of choice counters indexed by the address of a branch, and two  *)
(* tables of direction counters, of mostly taken and mostly not taken      *)
(* branches, indexed by a hash of address and global history.              *)
(*                                                                         *)
(* The history register runs ahead of the program: updateHistories shifts  *)
(* in predicted directions, squash and update(squashed) restore it from the*)
(* BPHistory of a branch in flight.  The caller, gem5's BPredUnit, is not  *)
(* in the repository: it predicts branches in the order fetched, squashes  *)
(* the youngest first, tells update(squashed) what a branch really did and *)
(* calls update once more when the branch commits, the oldest first.  Which*)
(* branches are fetched, what they do and when is arbitrary.               *)
(***************************************************************************)
EXTENDS Integers, Sequences, Numbers

CONSTANTS
  Thread,             \* ThreadID
  Conditional,        \* the addresses of conditional branches
  Unconditional,      \* and of the others
  InstShift,          \* instShiftAmt
  HistoryBits,        \* globalHistoryBits
  ChoiceSize, GlobalSize,  \* choicePredictorSize, globalPredictorSize
  CounterBits,        \* choiceCtrBits and globalCtrBits
  Word,               \* the width of unsigned
  Xor(_, _),          \* the bitwise exclusive or of two numbers
  Warmup,             \* how many taken branches may have been executed before
  MaxFlight, MaxFetch \* bounds: branches of a thread in flight, fetched in all

\* What the constructor insists on.
PredictorParameters ==
  /\ {HistoryBits, CounterBits, Word} \cup Warmup \subseteq Nat
  /\ HistoryBits >= 22 /\ Word > HistoryBits /\ CounterBits > 0
  /\ \E n \in 0 .. Word : ChoiceSize = Pow2[n]
  /\ \E n \in 0 .. Word : GlobalSize = Pow2[n]

VARIABLES
  globalHistoryReg,                          \* per thread
  choiceCounters, takenCounters, notTakenCounters,  \* a counter that is not listed is 0
  flight,    \* flight[t]: the branches in flight, oldest first, with their BPHistory
             \* and the direction the fetch unit takes them to have
  committed, \* history: the directions of the last HistoryBits branches committed
  fetched    \* how many branches have been fetched

counters == <<choiceCounters, takenCounters, notTakenCounters>>
predictorVars == <<globalHistoryReg, counters, flight, committed, fetched>>

-------------------------------------------------------------------------------
(* Counters, indexes and the history register *)

Bit(taken) == IF taken THEN 1 ELSE 0

\* SatCounter8, with the tables as sparse arrays.
Counter(table, i) == IF i \in DOMAIN table THEN table[i] ELSE 0
Threshold == Pow2[CounterBits - 1] - 1
Predicts(table, i) == Counter(table, i) > Threshold
SaturatingStep(n, taken) ==
  IF taken THEN (IF n = Pow2[CounterBits] - 1 THEN n ELSE n + 1)
           ELSE (IF n = 0 THEN n ELSE n - 1)
Trained(table, i, taken) ==
  [k \in DOMAIN table \cup {i} |-> IF k = i THEN SaturatingStep(Counter(table, i), taken) ELSE table[k]]

\* bits(ghr, high, low)
Field(ghr, high, low) == (ghr \div Pow2[low]) % Pow2[high - low + 1]

choiceIndex(pc) == (pc \div Pow2[InstShift]) % ChoiceSize
globalTableIndex(pc, ghr) ==
  LET offset == Xor((pc \div Pow2[InstShift]) % 16, ghr % 16)
      index == Field(ghr, 13, 10) * 64 + Xor(Field(ghr, 21, 16), Field(ghr, 9, 4))
  IN  (index * 16 + offset) % GlobalSize

\* updateGlobalHistReg: shift and mask.
Shifted(ghr, taken) == (2 * ghr + Bit(taken)) % Pow2[HistoryBits]
\* update(squashed): shift in a 32-bit word, without the mask.
LeftUncorrected(ghr, taken) == ghr % Pow2[Word]
Corrected(ghr, taken) == (2 * ghr + Bit(taken)) % Pow2[Word]

-------------------------------------------------------------------------------
(* The functions of the predictor *)

uncondBranch(ghr) ==
  [ghr |-> ghr, takenUsed |-> TRUE, takenPred |-> TRUE, notTakenPred |-> TRUE, finalPred |-> TRUE]

lookup(t, pc) ==
  LET ghr == globalHistoryReg[t]
      i == globalTableIndex(pc, ghr)
      choice == Predicts(choiceCounters, choiceIndex(pc))
      taken == Predicts(takenCounters, i)
      notTaken == Predicts(notTakenCounters, i)
  IN  [ghr |-> ghr, takenUsed |-> choice, takenPred |-> taken, notTakenPred |-> notTaken,
       finalPred |-> IF choice THEN taken ELSE notTaken]

\* The counters update trains: the direction counter of the table that made the
\* prediction, and the choice counter unless the choice was wrong and the
\* prediction right nevertheless.
ChoiceIsTrained(h, taken) == h.finalPred = taken => h.finalPred = h.takenUsed

\* The index it trains: where lookup had looked, not where it would look now.
IndexNow(t, b) == globalTableIndex(b.pc, globalHistoryReg[t])
IndexThen(t, b) == globalTableIndex(b.pc, b.history.ghr)

update(t, b, taken) ==
  LET h == b.history
      i == IndexThen(t, b)
      c == choiceIndex(b.pc)
  IN  /\ takenCounters' = IF h.takenUsed THEN Trained(takenCounters, i, taken) ELSE takenCounters
      /\ notTakenCounters' = IF h.takenUsed THEN notTakenCounters
                                            ELSE Trained(notTakenCounters, i, taken)
      /\ choiceCounters' = IF ChoiceIsTrained(h, taken) THEN Trained(choiceCounters, c, taken)
                                                        ELSE choiceCounters

-------------------------------------------------------------------------------
\* After n unconditional branches at pc, each committed before the next.
AfterTaken(pc, n) ==
  LET run[k \in 0 .. n] ==
        IF k = 0 THEN [ghr |-> 0, choice |-> << >>, taken |-> << >>]
        ELSE LET s == run[k - 1]
             IN  [ghr |-> Shifted(s.ghr, TRUE),
                  choice |-> Trained(s.choice, choiceIndex(pc), TRUE),
                  taken |-> Trained(s.taken, globalTableIndex(pc, s.ghr), TRUE)]
  IN  run[n]

PredictorInit ==
  \E n \in Warmup :
    LET s == AfterTaken(CHOOSE pc \in Unconditional : TRUE, n)
    IN  /\ \E warm \in Thread : globalHistoryReg = [t \in Thread |-> IF t = warm THEN s.ghr ELSE 0]
        /\ choiceCounters = s.choice
        /\ takenCounters = s.taken
        /\ notTakenCounters = << >>
        /\ flight = [t \in Thread |-> << >>]
        /\ committed = globalHistoryReg
        /\ fetched = 0

-------------------------------------------------------------------------------
(* Steps of the fetch unit *)

\* The register becomes ghr, the branches in flight the first n and perhaps one more.
Restart(t, ghr, branches) ==
  /\ globalHistoryReg' = [globalHistoryReg EXCEPT ![t] = ghr]
  /\ flight' = [flight EXCEPT ![t] = branches]

Fetch(t, pc, history, taken) ==
  /\ fetched < MaxFetch /\ Len(flight[t]) < MaxFlight
  /\ Restart(t, Shifted(globalHistoryReg[t], taken),
             Append(flight[t], [pc |-> pc, history |-> history, taken |-> taken]))
  /\ fetched' = fetched + 1
  /\ UNCHANGED <<counters, committed>>

\* lookup and updateHistories.  A branch predicted taken whose target is not
\* known goes on as not taken.
Predict(t) == \E pc \in Conditional :
                LET h == lookup(t, pc)
                IN  \E taken \in {h.finalPred, FALSE} : Fetch(t, pc, h, taken)

\* updateHistories alone, with uncond.
PredictUncond(t) == \E pc \in Unconditional, taken \in BOOLEAN :
                      Fetch(t, pc, uncondBranch(globalHistoryReg[t]), taken)

\* All but the oldest n branches are squashed, youngest first: each restores
\* its own history.
SquashTo(t, n) == IF n < Len(flight[t]) THEN flight[t][n + 1].history.ghr ELSE globalHistoryReg[t]

Squash(t) == \E n \in 0 .. Len(flight[t]) - 1 :
               /\ Restart(t, SquashTo(t, n), SubSeq(flight[t], 1, n))
               /\ UNCHANGED <<counters, committed, fetched>>

\* Branch n turns out to go elsewhere than predicted: what was fetched after it is
\* squashed, and update(squashed) is called for it.
Mispredicted(t) ==
  \E n \in 1 .. Len(flight[t]), taken \in BOOLEAN :
    LET b == flight[t][n]
    IN  /\ b.pc \in Unconditional => taken
        /\ Restart(t, Corrected(b.history.ghr, taken),
                   Append(SubSeq(flight[t], 1, n - 1), [b EXCEPT !.taken = taken]))
        /\ UNCHANGED <<counters, committed, fetched>>

\* The oldest branch commits, with the direction it was last known to have.
Commit(t) ==
  /\ flight[t] # << >>
  /\ LET b == Head(flight[t])
     IN  /\ b.pc \in Unconditional => b.taken
         /\ update(t, b, b.taken)
         /\ committed' = [committed EXCEPT ![t] = Shifted(@, b.taken)]
         /\ flight' = [flight EXCEPT ![t] = Tail(@)]
         /\ UNCHANGED <<globalHistoryReg, fetched>>

PredictorNext ==
  \E t \in Thread : Predict(t) \/ PredictUncond(t) \/ Squash(t) \/ Mispredicted(t) \/ Commit(t)

PredictorSpec == PredictorInit /\ [][PredictorNext]_predictorVars

-------------------------------------------------------------------------------
(* Properties *)

\* The bits the hash reads of the history before the n-th branch in flight, or
\* of the register after the last one.
Before(ghr, branches, n) ==
  (IF n \in DOMAIN branches THEN branches[n].history.ghr ELSE ghr) % Pow2[HistoryBits]

\* They are the path from start on that the branches take one after the other.
IsPath(ghr, start, branches) ==
  /\ Before(ghr, branches, 1) = start
  /\ \A n \in DOMAIN branches :
       Before(ghr, branches, n + 1) = Shifted(Before(ghr, branches, n), branches[n].taken)

\* However often it was squashed and restored, the register holds, in the bits
\* the hash reads, the path the fetch unit is on, and the BPHistory of each
\* branch the path up to it: the directions committed and, after them, those of
\* the branches in flight - though update(squashed) does not mask the register
\* and bits beyond the mask pile up (c910_bi_mode.cc:192).
HistoryIsPath == \A t \in Thread : IsPath(globalHistoryReg[t], committed[t], flight[t])

\* The type of every variable; the counters stay within their bits.
BPHistory == [ghr : Nat, takenUsed : BOOLEAN, takenPred : BOOLEAN, notTakenPred : BOOLEAN,
              finalPred : BOOLEAN]
InFlight == [pc : Conditional \cup Unconditional, history : BPHistory, taken : BOOLEAN]
IsTable(table) == \A i \in DOMAIN table : table[i] \in 0 .. Pow2[CounterBits] - 1
PredictorTypeOK ==
  /\ globalHistoryReg \in [Thread -> Nat]
  /\ IsTable(choiceCounters) /\ IsTable(takenCounters) /\ IsTable(notTakenCounters)
  /\ flight \in [Thread -> Seq(InFlight)]
  /\ committed \in [Thread -> 0 .. Pow2[HistoryBits] - 1]
  /\ fetched \in Nat

\* What every step preserves.
PredictorInv == PredictorTypeOK /\ HistoryIsPath

\* Counters change only when a branch commits, and then as if the program had
\* never been on another path: one direction counter, at the index of the
\* committed history before the branch, towards where it went.
Moves(table, i, taken) == table' = Trained(table, i, taken)
TrainedOnThePath ==
  [][counters' # counters =>
       \E t \in Thread, pc \in Conditional \cup Unconditional, taken \in BOOLEAN :
         LET i == globalTableIndex(pc, committed[t])
         IN  /\ committed'[t] = Shifted(committed[t], taken)
             /\ flight[t] # << >> /\ Head(flight[t]).pc = pc
             /\ \/ Moves(takenCounters, i, taken) /\ UNCHANGED notTakenCounters
                \/ Moves(notTakenCounters, i, taken) /\ UNCHANGED takenCounters]_predictorVars
===============================================================================
