------------------------------ MODULE RnsContext ------------------------------
(***************************************************************************)
(* The operations of Context.cpp that change the number of residues, on    *)
(* one coefficient: a client raises it, multiplies it by a key, brings it  *)
(* back, rescales it and drops residues, in any order the buffers allow.   *)
(***************************************************************************)
EXTENDS Rns

CONSTANTS
  Start,  \* the integers a coefficient may start from
  Keys,   \* integers whose residues are multiplied with
  MaxOps  \* bound: operations in a sequence

ASSUME RnsContextAssumption == Start \subseteq Int /\ Keys \subseteq Int /\ MaxOps \in Nat

VARIABLES
  a,      \* the residues
  l,      \* how many of them are modulo q
  raised, \* are there K more?
  ops     \* how many operations there have been

vars == <<a, l, raised, ops>>

Init == /\ l \in 1 .. L
        /\ \E x \in Start : a = Residues(x, l)
        /\ raised = FALSE /\ ops = 0

Step == ops < MaxOps /\ ops' = ops + 1

raiseAndEqual == Step /\ ~raised /\ raised' = TRUE /\ a' = raise(a, l) /\ UNCHANGED l
backAndEqual == Step /\ raised /\ raised' = FALSE /\ a' = back(a, l) /\ UNCHANGED l
reScaleAndEqual == /\ Step /\ ~raised /\ l > 1
                   /\ a' = reScale(a, l) /\ l' = l - 1 /\ UNCHANGED raised
modDownAndEqual == /\ Step /\ ~raised
                   /\ \E dl \in 1 .. l - 1 : a' = modDown(a, l, dl) /\ l' = l - dl
                   /\ UNCHANGED raised
evalAndEqual == Step /\ ~raised /\ a' = eval(a, l) /\ UNCHANGED <<l, raised>>
mulByKey == /\ Step
            /\ \E c \in Keys : a' = IF raised THEN mulKey(a, KeyResidues(c), l)
                                    ELSE mul(a, Residues(c, l), l)
            /\ UNCHANGED <<l, raised>>

Next == raiseAndEqual \/ backAndEqual \/ reScaleAndEqual \/ modDownAndEqual
        \/ evalAndEqual \/ mulByKey

Spec == Init /\ [][Next]_vars

-------------------------------------------------------------------------------
(* Properties *)

\* The type of every variable.  Words are reduced, as the comparisons with 0
\* and the decoding need them, unless they are raised: those may exceed their
\* modulus.
TypeOK == /\ l \in 1 .. L /\ raised \in BOOLEAN /\ ops \in 0 .. MaxOps
          /\ DOMAIN a = 1 .. IF raised THEN l + K ELSE l
          /\ \A i \in DOMAIN a : a[i] \in IF raised THEN Nat ELSE 0 .. q[i] - 1

moduli == SubSeq(q, 1, l) \o p

\* The integer the residues stand for.
v == Combine(a, moduli, Len(a))

RI == INSTANCE RnsInteger WITH Q <- [n \in 1 .. L |-> QProduct[n]], P <- PProduct, C <- Keys

\* On the integers the operations compute what RnsInteger says: raising adds a
\* multiple of Q below l * Q, coming back divides by P and loses less than K,
\* rescaling divides exactly - after any sequence of other operations, and
\* although no residue is ever combined with the others.
ImplementsIntegers == RI!IntSpec

\* A multiplication by P before raised residues are brought back is undone
\* exactly, however far off the raise was: that is what makes key switching
\* independent of the base conversion's error.
RaiseIsExactTimesP ==
  ~raised => \A c \in Keys :
    back(mulKey(raise(a, l), KeyResidues(c * PProduct), l), l) = mul(a, Residues(c, l), l)
===============================================================================
