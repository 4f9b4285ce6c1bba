--------------------------- MODULE MCTriggerFiles ---------------------------
(* Bounds for TLC.                                                         *)
EXTENDS TriggerFiles, TLC

Symmetry == UNION {Permutations(Files), Permutations(Triggers),
                   Permutations(Handlers), Permutations(Hashes)}
=============================================================================
