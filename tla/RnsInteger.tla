------------------------------ MODULE RnsInteger ------------------------------
(***************************************************************************)
(* What the conversions of Context.cpp compute, on the integer v that a    *)
(* coefficient is modulo Q(l), or modulo Q(l) * P once it is raised: the   *)
(* approximate base conversions may be off by a small multiple of the      *)
(* modulus they convert from, the others are exact.                        *)
(***************************************************************************)
EXTENDS Integers

CONSTANTS
  Q,    \* Q[l]: the product of the first l moduli
  P, K, \* the product of the special moduli, and their number
  C     \* multipliers: the coefficients of keys

VARIABLES v, l, raised

intVars == <<v, l, raised>>

Top == IF raised THEN Q[l] * P ELSE Q[l]

IntInit == l \in DOMAIN Q /\ v \in 0 .. Q[l] - 1 /\ raised = FALSE

\* The raised integer is v plus a multiple of Q[l], one of l.
Raise == /\ ~raised
         /\ raised' = TRUE /\ l' = l
         /\ \E e \in 0 .. l - 1 : v' = (v + e * Q[l]) % (Q[l] * P)

\* Division by P, rounded down, and at most K - 1 lower.
Back == /\ raised
        /\ raised' = FALSE /\ l' = l
        /\ \E e \in 0 .. K - 1 : v' = (v \div P - e) % Q[l]

\* Division by the last modulus, rounded down.
ReScale == /\ ~raised /\ l > 1
           /\ l' = l - 1
           /\ v' = v \div (Q[l] \div Q[l - 1])
           /\ UNCHANGED raised

ModDown == /\ ~raised
           /\ l' \in 1 .. l - 1
           /\ v' = v % Q[l']
           /\ UNCHANGED raised

Eval == /\ ~raised
        /\ v' = (v * P) % Q[l]
        /\ UNCHANGED <<l, raised>>

MulBy == /\ \E c \in C : v' = (v * c) % Top
         /\ UNCHANGED <<l, raised>>

IntNext == Raise \/ Back \/ ReScale \/ ModDown \/ Eval \/ MulBy

IntSpec == IntInit /\ [][IntNext]_intVars
===============================================================================
