---------------------------- MODULE MCSmoothing ----------------------------
(* Model-checking instance of Smoothing. *)
EXTENDS Smoothing

\* Without a gap, with one missing frame, with two, and two gaps.
MCFrameIds == {<<1, 2, 3>>, <<1, 3>>, <<1, 4>>, <<2, 4, 6>>, <<1, 5, 6>>}
=============================================================================
