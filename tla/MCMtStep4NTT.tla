----------------------------- MODULE MCMtStep4NTT -----------------------------
(* Small instances of MtStep4NTT for TLC. *)
EXTENDS MtStep4NTT, TLC

\* Workers are interchangeable.
Symmetry == Permutations(Worker)
===============================================================================
