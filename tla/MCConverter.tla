---------------------------- MODULE MCConverter ----------------------------
(* Model-checking instance of Converter. *)
EXTENDS Converter

\* What the detector registers.
MCExtensions == {"jpg", "avi"}
=============================================================================
