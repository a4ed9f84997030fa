----------------------------- MODULE Transposition -----------------------------
(***************************************************************************)
(* The transpositions of a matrix in its own memory: trip_mtp of           *)
(* src/src/MatrixUtils.cpp, which divides the matrix until squares are     *)
(* left and shuffles the parts together by reversals, and dep_mtp of       *)
(* src/src/MatrixUtils.h, three permutations within columns, rows and      *)
(* columns.  The recursion of trip_mtp is a stack of the calls still to be *)
(* made; cilk_spawn is defined as nothing, so they are made in order.      *)
(***************************************************************************)
EXTENDS Integers, Sequences

CONSTANT MaxSide  \* bound: rows and columns of a matrix

VARIABLES
  m, n,  \* rows and columns
  in,    \* the matrix, row by row
  calls, \* trip_mtp: the calls still to be made, the next one first
  pass   \* dep_mtp: the next permutation, 4 when there is none; 0 in trip_mtp

vars == <<m, n, in, calls, pass>>

Cell == 0 .. m * n - 1
Matrix == [c \in Cell |-> c]
PowersOfTwo == {2 ^ e : e \in 0 .. MaxSide}

transpose(i0, i1, j0, j1) == [f |-> "transpose", i0 |-> i0, i1 |-> i1, j0 |-> j0, j1 |-> j1]
transpose4(I0, J0, i0, i1, j0, j1) ==
  [f |-> "transpose4", I0 |-> I0, J0 |-> J0, i0 |-> i0, i1 |-> i1, j0 |-> j0, j1 |-> j1]
split(b, p, q, s0, k) == [f |-> "split", b |-> b, p |-> p, q |-> q, s0 |-> s0, k |-> k]
merge(b, p, q, m0, k) == [f |-> "merge", b |-> b, p |-> p, q |-> q, m0 |-> m0, k |-> k]
reverse(b, m0, m1, l) == [f |-> "reverse", b |-> b, m0 |-> m0, m1 |-> m1, l |-> l]

\* The part of the matrix that is read row by row, from row i0, columns j0 to j1 - 1.
Block(i0, j0, j1) == [i0 |-> i0, j0 |-> j0, j1 |-> j1]
CellOf(b, x) == (b.i0 + x \div (b.j1 - b.j0)) * n + b.j0 + (x % (b.j1 - b.j0))

Init == /\ m \in 1 .. MaxSide /\ n \in 1 .. MaxSide
        /\ in = Matrix
        /\ \/ pass = 0 /\ calls = <<transpose(0, m, 0, n)>>
           \/ pass = 1 /\ calls = <<>> /\ {m, n} \subseteq PowersOfTwo

-------------------------------------------------------------------------------
(* trip_mtp: what a call does, and the calls it makes *)

c == Head(calls)
Call(f) == calls # <<>> /\ c.f = f /\ UNCHANGED <<m, n, pass>>
Calls(s) == calls' = s \o Tail(calls) /\ UNCHANGED in

Half(x, y) == (x + y) \div 2

\* Where the longer side is cut: a square off it, if it is less than twice as long.
Cut(from, long, short) == IF long < 2 * short THEN from + short ELSE Half(from, from + long)

Transpose ==
  /\ Call("transpose")
  /\ LET rows == c.i1 - c.i0
         columns == c.j1 - c.j0
         im == Cut(c.i0, rows, columns)
         jm == Cut(c.j0, columns, rows)
     IN  CASE rows = 1 \/ columns = 1 -> Calls(<<>>)
           [] rows = columns /\ rows > 1 -> Calls(<<transpose4(c.i0, c.j0, 0, rows, 0, columns)>>)
           [] rows > columns /\ columns > 1 ->
                Calls(<<transpose(c.i0, im, c.j0, c.j1), transpose(im, c.i1, c.j0, c.j1),
                        merge(Block(c.i0, c.j0, c.j1), im - c.i0, c.i1 - im, 0, columns)>>)
           [] rows < columns /\ rows > 1 ->
                Calls(<<transpose(c.i0, c.i1, c.j0, jm), transpose(c.i0, c.i1, jm, c.j1),
                        split(Block(c.i0, c.j0, c.j1), jm - c.j0, c.j1 - jm, 0, rows)>>)

\* A square by quarters; the lower left one of a part on the diagonal is left
\* to its mirror image.
BelowDiagonal(x) == x.i1 <= x.j0
Transpose4 ==
  /\ Call("transpose4") /\ c.i1 - c.i0 > 1
  /\ LET im == Half(c.i0, c.i1)
         jm == Half(c.j0, c.j1)
         Quarter(i0, i1, j0, j1) == transpose4(c.I0, c.J0, i0, i1, j0, j1)
     IN  Calls(<<Quarter(c.i0, im, c.j0, jm), Quarter(c.i0, im, jm, c.j1), Quarter(im, c.i1, jm, c.j1)>>
               \o IF BelowDiagonal(c) THEN <<Quarter(im, c.i1, c.j0, jm)>> ELSE <<>>)

Swapped(s, x, y) == [s EXCEPT ![x] = s[y], ![y] = s[x]]

SwapRow ==
  /\ Call("transpose4") /\ c.i1 - c.i0 <= 1
  /\ LET done[j \in c.j0 .. c.j1] ==
           IF j = c.j0 THEN in
           ELSE Swapped(done[j - 1], (c.I0 + j - 1) * n + c.J0 + c.i0, (c.I0 + c.i0) * n + c.J0 + j - 1)
     IN  in' = done[c.j1]
  /\ calls' = Tail(calls)

\* The words from m0 on and those before m1, exchanged up to the middle.
Reverse(b, m0, m1) == reverse(b, m0, m1, (m1 - m0) \div 2)

ReverseRecursive ==
  /\ Call("reverse") /\ c.l > 1
  /\ LET lm == c.l \div 2
     IN  Calls(<<reverse(c.b, c.m0, c.m1, lm), reverse(c.b, c.m0 + lm, c.m1 - lm, c.l - lm)>>)

ReverseOffset ==
  /\ Call("reverse") /\ c.l <= 1
  /\ in' = IF c.l = 0 THEN in ELSE Swapped(in, CellOf(c.b, c.m0), CellOf(c.b, c.m1 - 1))
  /\ calls' = Tail(calls)

\* k pairs of p and q words become k times p words and k times q words.  The
\* middle - the q words of the first half and the p words of the second - is
\* exchanged by reversing all of it and then both parts.
MiddleEnd(from, k, k2, p, q) == from + k * p + k2 * q
Split ==
  /\ Call("split")
  /\ LET k2 == c.k \div 2
         sm == c.s0 + k2 * (c.p + c.q)
         r0 == c.s0 + k2 * c.p
         rm == c.s0 + c.k * c.p
         r1 == MiddleEnd(c.s0, c.k, k2, c.p, c.q)
     IN  IF c.k = 1 THEN Calls(<<>>)
         ELSE Calls(<<split(c.b, c.p, c.q, c.s0, k2), split(c.b, c.p, c.q, sm, c.k - k2),
                      Reverse(c.b, r0, r1), Reverse(c.b, r0, rm), Reverse(c.b, rm, r1)>>)

\* And back.
MergeMiddleHalf(r0, k, k2, q) == r0 + (k - k2) * q
MergeMiddle(r0, k, k2, q) == r0 + k2 * q
Merge ==
  /\ Call("merge")
  /\ LET k2 == c.k \div 2
         mm == c.m0 + k2 * (c.p + c.q)
         r0 == c.m0 + k2 * c.p
         rm == MergeMiddle(r0, c.k, k2, c.q)
         r1 == MiddleEnd(c.m0, c.k, k2, c.p, c.q)
     IN  IF c.k = 1 THEN Calls(<<>>)
         ELSE Calls(<<Reverse(c.b, r0, r1), Reverse(c.b, r0, rm), Reverse(c.b, rm, r1),
                      merge(c.b, c.p, c.q, c.m0, k2), merge(c.b, c.p, c.q, mm, c.k - k2)>>)

-------------------------------------------------------------------------------
(* dep_mtp *)

Shift(x, y) == IF x > y THEN x \div y ELSE 1
r(i, j) == (i + j \div Shift(n, m)) % m
d(i, j) == (r(i, j) + j * m) % n
s(i, j) == (j + i * n - i \div Shift(m, n)) % m

Permute(k, to) == /\ pass = k /\ pass' = k + 1 /\ in' = to /\ UNCHANGED <<m, n, calls>>
Row(x) == x \div n
Column(x) == x % n

RotateColumns == Permute(1, [x \in Cell |-> in[r(Row(x), Column(x)) * n + Column(x)]])
ShuffleRows == Permute(2, [x \in Cell |->
  in[Row(x) * n + CHOOSE j \in 0 .. n - 1 : d(Row(x), j) = Column(x)]])
ShuffleColumns == Permute(3, [x \in Cell |-> in[s(Row(x), Column(x)) * n + Column(x)]])

Next == \/ Transpose \/ Transpose4 \/ SwapRow \/ ReverseRecursive \/ ReverseOffset \/ Split \/ Merge
        \/ RotateColumns \/ ShuffleRows \/ ShuffleColumns

Spec == Init /\ [][Next]_vars

-------------------------------------------------------------------------------
(* Properties *)

\* Both leave what ref_mtp computes in another array: trip_mtp for every number
\* of rows and columns, dep_mtp for powers of two, with either side longer.
LeavesTransposed ==
  calls = <<>> /\ pass \in {0, 4} => \A x \in Cell : in[x] = Matrix[(x % m) * n + x \div m]
===============================================================================
