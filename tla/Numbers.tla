------------------------------- MODULE Numbers -------------------------------
(***************************************************************************)
(* Powers, sums, products and divisors of numbers, as functions and        *)
(* formulas the proofs can reason about.                                   *)
(***************************************************************************)
EXTENDS Integers

Pow2[n \in Nat] == IF n = 0 THEN 1 ELSE 2 * Pow2[n - 1]

\* The sum and the product of f[1], ..., f[n].
SumOf(f, n) == LET sum[i \in Nat] == IF i = 0 THEN 0 ELSE sum[i - 1] + f[i] IN sum[n]
ProductOf(f, n) == LET product[i \in Nat] == IF i = 0 THEN 1 ELSE product[i - 1] * f[i] IN product[n]

\* The sum of f[0], ..., f[n - 1].
SumBelow(f, n) == SumOf([i \in 1 .. n |-> f[i - 1]], n)

\* The product of f[0], ..., f[n - 1].
ProductBelow(f, n) == ProductOf([i \in 1 .. n |-> f[i - 1]], n)

PowerOf(x, n) == ProductOf([i \in 1 .. n |-> x], n)

\* The product of all of them but the i-th.
HatOf(f, n, i) == ProductOf([j \in 1 .. n |-> IF j = i THEN 1 ELSE f[j]], n)

\* Only 1 divides both numbers.
Coprime(x, y) == \A d \in 2 .. x : ~(x % d = 0 /\ y % d = 0)
===============================================================================
