------------------------- MODULE MCDecisionElevation -------------------------
(***************************************************************************)
(* Instances of DecisionElevation for TLC.                                 *)
(***************************************************************************)
EXTENDS DecisionElevation, TLC

Symmetry == Permutations(Case) \cup Permutations(Request)

=============================================================================
