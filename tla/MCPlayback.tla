----------------------------- MODULE MCPlayback -----------------------------
(* Model-checking instance of Playback. *)
EXTENDS Playback
=============================================================================
