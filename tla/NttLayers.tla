------------------------------- MODULE NttLayers -------------------------------
(***************************************************************************)
(* One layer of the NTT of a row, in every variant the build may choose.   *)
(* The scalar one (Context.cpp, Step4_NTT.cpp), the vector one             *)
(* (RVV_NTT.cpp), the unrolled one with modular instructions (ExtUtil.cpp, *)
(* Ext_Step4_NTT.cpp) and the vector one with modular instructions         *)
(* (RVV_Ext_NTT.cpp) do the same butterflies in another order, several at  *)
(* once, and reduce by other comparisons.  rvv_bar alone, whose loops over *)
(* the rest of a block or a row are in comments, leaves some out.          *)
(*                                                                         *)
(* A layer with m blocks of 2 * t words pairs word j of the lower half of  *)
(* a block with word j + t.  Lanes is the set of the words j a variant     *)
(* visits; no word is in two butterflies, so their order does not matter.  *)
(***************************************************************************)
EXTENDS NttTables

CONSTANTS
  VLMax,  \* words in a vector register group (8: 128 bits, groups of four), a power of two
  Cut     \* with fewer than len / Cut blocks a vector is within a block (8)

ASSUME LayersAssumption ==
  /\ Cut \in Nat \ {0} /\ VLMax <= Cut
  /\ \E e \in 0 .. Cut : VLMax = Pow2[e]
  /\ \E e \in 0 .. Cut : Cut = Pow2[e]

ScalarVariants == {"bar", "mont"}
UnrolledVariants == {"ext_bar", "ext_mont"}
VectorInsnVariants == {"rvv_ext_bar", "rvv_ext_mont"}
VectorVariants == {"rvv_bar", "rvv_mont"}
Variants == ScalarVariants \cup UnrolledVariants \cup VectorInsnVariants \cup VectorVariants

\* The variants that are given tables of roots and their Barrett factors, and
\* those given tables of roots scaled for Montgomery's reduction.
BarrettVariants == {"bar", "ext_bar", "rvv_bar", "rvv_ext_bar"}
MontgomeryVariants == {"mont", "ext_mont", "rvv_mont", "rvv_ext_mont"}

\* The rows the vector variants can transform: in shorter ones a vector of
\* words of different blocks would reach beyond the row.
FitsVector(al, len) == al \in VectorVariants => len >= Cut * VLMax

-------------------------------------------------------------------------------
(* Butterflies *)

KeepSum(s) == s
ReduceSum(s) == IF s > q THEN s - q ELSE s
PlainDifference(x, V) == x - V
Difference(x, V) == IF x < V THEN x + q - V ELSE x - V

\* Unsigned minima, where the difference that would be negative wraps around.
Least(x, y) == IF x % R < y % R THEN x % R ELSE y % R
vminuSum(s) == Least(s, s - q)
vminuDifference(x, V) == Least(x - V, x - V + q)

\* The instructions addmod and submod, and their vector versions.
addmod(s) == IF s >= q THEN s - q ELSE s
submod(c) == IF c < 0 THEN c + q ELSE c

\* The product, in the form a variant's tables are for.
vminuBarrett(T, W) == vminuSum((T * W - q * ((T * BarPre(W)) \div R)) % R)
Product(al, T, W) ==
  CASE al = "rvv_bar" -> vminuBarrett(T, W)
    [] al \in BarrettVariants \ {"rvv_bar"} -> barrett(T, W, BarPre(W))
    [] al \in MontgomeryVariants -> redc(T, Scaled(W))

ByMinimum(al, len, m) == al = "rvv_bar" \/ (al = "rvv_mont" /\ m < len \div Cut)
SumIn(al, len, m, x, V) == LET s == (x + V) % R IN
  IF ByMinimum(al, len, m) THEN vminuSum(s)
  ELSE IF al \in UnrolledVariants \cup VectorInsnVariants THEN addmod(s) ELSE ReduceSum(s)
DifferenceIn(al, len, m, x, V) ==
  IF ByMinimum(al, len, m) THEN vminuDifference(x, V)
  ELSE IF al \in UnrolledVariants \cup VectorInsnVariants THEN submod(x - V) ELSE Difference(x, V)

-------------------------------------------------------------------------------
(* Schedules: the lower words of a row's butterflies *)

\* In every block the offsets o.
InBlocks(m, t, o) == {i * 2 * t + x : i \in 0 .. m - 1, x \in o}

\* Whole vectors from the start of a block on, as long as words are left.
VectorsOf(t, vl) == {x * vl + l : x \in 0 .. (t - 1) \div vl, l \in 0 .. vl - 1}
WithinBlock(m, t) == InBlocks(m, t, VectorsOf(t, VLMax))

\* A vector takes one word of each of VLMax blocks.
AcrossHalves(m, t) == {g * VLMax * t + off + l * 2 * t :
  g \in 0 .. (m - 1) \div VLMax, off \in 0 .. t - 1, l \in 0 .. VLMax - 1}
AcrossBlocks(m, t) == {g * VLMax * 2 * t + off + l * 2 * t :
  g \in 0 .. (m - 1) \div VLMax, off \in 0 .. t - 1, l \in 0 .. VLMax - 1}

\* Without the loops: the first vector of each block, and the first blocks.
FirstVector(m, t) == InBlocks(m, t, 0 .. VLMax - 1)
FirstBlocks(t) == {off + l * 2 * t : off \in 0 .. t - 1, l \in 0 .. VLMax - 1}

\* Vectors of at most t words, two by two, and the last one alone.
Pairs(t) == LET vl == Min({t, VLMax})  rest == t % (2 * vl)
            IN  0 .. t - rest - 1 \cup IF rest = vl THEN t - rest .. t - 1 ELSE {}

\* width butterflies at a time, and on by step.
Unrolled(t, width, step) == {x * step + b : x \in 0 .. (t - 1) \div step, b \in 0 .. width - 1}
Widest(t, widths) == Max({w \in widths : t % w = 0})
BarUnrolled(t) == LET w == Widest(t, {16, 8, 4, 2, 1}) IN Unrolled(t, w, w)
MontUnrolled(t) == LET w == Widest(t, {8, 4, 2, 1}) IN Unrolled(t, w, IF w = 2 THEN 4 ELSE w)
RowBarUnrolled(t) == LET w == Widest(t, {8, 4, 1}) IN Unrolled(t, w, w)
RowMontUnrolled(t) == LET w == Widest(t, {2, 1}) IN Unrolled(t, w, w)

Lanes(al, len, m) ==
  LET t == len \div (2 * m)
  IN  CASE al \in ScalarVariants -> InBlocks(m, t, 0 .. t - 1)
        [] al = "rvv_bar" -> IF m < len \div Cut THEN FirstVector(m, t) ELSE FirstBlocks(t)
        [] al = "rvv_mont" -> IF m < len \div Cut THEN WithinBlock(m, t) ELSE AcrossBlocks(m, t)
        [] al \in VectorInsnVariants -> InBlocks(m, t, Pairs(t))
        [] al = "ext_bar" -> InBlocks(m, t, IF len = N THEN BarUnrolled(t) ELSE RowBarUnrolled(t))
        [] al = "ext_mont" -> InBlocks(m, t, IF len = N THEN MontUnrolled(t) ELSE RowMontUnrolled(t))

\* A layer of all rows of len words of s, with m blocks each.
LayerOf(s, al, len, m) ==
  LET t == len \div (2 * m)
      lanes == Lanes(al, len, m)
      V(j) == Product(al, s[j + t], RootPows[len][m + (j % len) \div (2 * t)])
  IN  [k \in Index |-> CASE k % len \in lanes -> SumIn(al, len, m, s[k], V(k))
                         [] (k % len) - t \in lanes -> DifferenceIn(al, len, m, s[k - t], V(k - t))
                         [] OTHER -> s[k]]

-------------------------------------------------------------------------------
(* Between the two passes of a four-step NTT, a row times a row of Wmatrix *)

\* The words of a row of len that are multiplied: all of them one by one, or in
\* vectors of the length that fits the row.
WholeRow(len) == 0 .. len - 1
RowInVectors(len) == LET vl == Min({len, VLMax})
                     IN  {x * vl + l : x \in 0 .. (len - 1) \div vl, l \in 0 .. vl - 1}
RowLanes(al, len) == IF al \in VectorVariants \cup VectorInsnVariants THEN RowInVectors(len)
                     ELSE WholeRow(len)

\* The rows of s times the rows of Wmatrix.
RowsTimes(s, al, len) ==
  [k \in Index |-> IF k % len \in RowLanes(al, len) THEN Product(al, s[k], Wmatrix[k]) ELSE s[k]]
===============================================================================
