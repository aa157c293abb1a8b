-------------------------- MODULE MCCompanionMove --------------------------
(* CompanionMove with interchangeable slots, for the runs that check        *)
(* invariants only.                                                         *)
EXTENDS CompanionMove, TLC

SlotSymmetry == Permutations(Slots)
=============================================================================
