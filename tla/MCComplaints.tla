---------------------------- MODULE MCComplaints ----------------------------
(* Complaints for TLC: calls are interchangeable.                          *)
EXTENDS Complaints, TLC

Symmetry == Permutations(Calls)
=============================================================================
