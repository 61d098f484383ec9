----------------------------- MODULE MCReminders -----------------------------
(***************************************************************************)
(* Reminders on small instances.                                           *)
(***************************************************************************)
EXTENDS Reminders, TLC

Symmetry == Permutations(Workers) \cup Permutations(Scanners)
=============================================================================
