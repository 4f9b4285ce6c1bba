----------------------------- MODULE MCReminder -----------------------------
(* Bounds for TLC.                                                          *)
EXTENDS Reminder, TLC

Symmetry == Permutations(Clients)
=============================================================================
