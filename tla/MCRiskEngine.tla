---------------------------- MODULE MCRiskEngine ----------------------------
(***************************************************************************)
(* Model checking of RiskEngine on small instances.  Order ids and fill    *)
(* ids are interchangeable: nothing compares them except for equality.     *)
(***************************************************************************)
EXTENDS RiskEngine, TLC

Symmetry == Permutations(Orders) \cup Permutations(Fills)
=============================================================================
