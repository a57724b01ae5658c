----------------------------- MODULE MCHouseholds -----------------------------
(* Model checking of Households: families, residents and calls are           *)
(* interchangeable.                                                          *)
EXTENDS Households, TLC

Symmetry == Permutations(Family) \cup Permutations(Resident) \cup Permutations(Calls)
=============================================================================
