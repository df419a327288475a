----------------------------- MODULE MCElevation -----------------------------
(***************************************************************************)
(* Instances of ElevationActor for TLC.                                    *)
(***************************************************************************)
EXTENDS ElevationActor, TLC

Symmetry == Permutations(Request) \cup Permutations(OpenSlot)

=============================================================================
