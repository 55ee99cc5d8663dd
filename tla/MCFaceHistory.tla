--------------------------- MODULE MCFaceHistory ---------------------------
(* Model-checking instance of FaceHistory. *)
EXTENDS FaceHistory, TLC

Symmetry == Permutations(Slot)
=============================================================================
