--------------------------------- MODULE MCNtt ---------------------------------
(* Small instances of Ntt for TLC. *)
EXTENDS Ntt

\* Zero, one, q - 1, the q that the NTT and leftRot leave for a zero, and a
\* word that a raised polynomial may contain.
Raised == {0, 1, q - 1, q, 5 * q - 1}

\* The first or the last word unlike the others, or every third one.
Places == {{0}, {N - 1}, {k \in Index : k % 3 = 0}}
Arrays == {[k \in Index |-> IF k \in p THEN x ELSE y] : p \in Places, x \in Raised, y \in {0, 5 * q - 1}}

\* All arrays of words on the edge, for a small degree.
Edges == [Index -> Raised]

\* A polynomial one of whose values is 0, and in its words q.
Sketch == [k \in Index |-> (3 + 5 * k) % q]
MCOperandPoly == [Sketch EXCEPT ![0] = (@ + q - Value(Sketch, 1)) % q]
MCOperand == [n \in Index |-> IF n = 1 THEN q ELSE Value(MCOperandPoly, n)]

\* The variants whose loops are complete, and the one whose are not.
Complete == Variants \ {"rvv_bar"}
RvvBar == {"rvv_bar"}

\* A constant above the modulus.
Above == {3 * q + 2}
================================================================================
