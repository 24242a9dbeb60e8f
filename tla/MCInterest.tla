----------------------------- MODULE MCInterest -----------------------------
(***************************************************************************)
(* Small instances of Interest for TLC.  At the savings rate of 150 basis  *)
(* points, 25000 minor units earn one minor unit a day.                    *)
(***************************************************************************)
EXTENDS Interest, TLC

Symmetry == Permutations(Job)

=============================================================================
