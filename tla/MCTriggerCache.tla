--------------------------- MODULE MCTriggerCache ---------------------------
(* Bounds for TLC.                                                         *)
EXTENDS TriggerCache, TLC

Symmetry == UNION {Permutations(Instances), Permutations(Callers),
                   Permutations(Writers)}
=============================================================================
