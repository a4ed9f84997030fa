------------------------------ MODULE MCMtLayers ------------------------------
(* For TLC: MtLayers with interchangeable workers. *)
EXTENDS MtLayers, TLC

Symmetry == Permutations(Worker)

ASSUME LayersAssumption == LayerParameters
===============================================================================
