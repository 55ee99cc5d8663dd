--------------------------- MODULE MCSaverOutput ---------------------------
(* Model-checking instance of SaverOutput. *)
EXTENDS SaverOutput, TLC

\* Fast enough that no rate but the slowest is raised to 2.
MCInitialFps == <<6, 1>>
MCSpeedup    == <<3, 1>>

\* Less than a second, one to two seconds, and slower than a frame a second.
MCWindows == {1, 3, 6}

Symmetry == Permutations(Saver)
=============================================================================
