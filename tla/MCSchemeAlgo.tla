----------------------------- MODULE MCSchemeAlgo -----------------------------
(* Inputs of SchemeAlgo for TLC.  Number is 3 and the coefficients of a       *)
(* series are 0, 1 or 2, so that an integer determines the series by its      *)
(* ternary digits; the factors of a product are different primes.             *)
EXTENDS SchemeAlgo

MCCoeffs == [LOGARITHM |-> [i \in 0 .. MaxDegree |-> IF i = 0 THEN 0 ELSE 1 + (i % 2)],
             EXPONENT  |-> [i \in 0 .. MaxDegree |-> 1 + (i % 2)],
             SIGMOID   |-> [i \in 0 .. MaxDegree |-> IF i = 0 \/ (i % 2) = 1 THEN 1 + ((i \div 2) % 2) ELSE 0]]

Primes == <<2, 3, 5, 7, 11, 13, 17, 19, 23>>
MCFactors == [i \in 0 .. MaxDegree - 1 |-> Primes[i + 1]]
===============================================================================
