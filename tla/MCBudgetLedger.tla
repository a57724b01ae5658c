---------------------------- MODULE MCBudgetLedger ----------------------------
(* Instances of BudgetLedger for TLC; the runs differ in their .cfg.         *)
EXTENDS BudgetLedger, TLC

Symmetry == Permutations(Items) \cup Permutations(Years) \cup Permutations(Users)
              \cup Permutations(Tenants) \cup Permutations(Calls)
=============================================================================
