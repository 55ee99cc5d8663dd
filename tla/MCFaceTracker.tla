--------------------------- MODULE MCFaceTracker ---------------------------
(* Model-checking instance of FaceTracker. *)
EXTENDS FaceTracker

\* Rectangles that differ in place and size; every area exceeds NullArea.  Two
\* of the places are out of reach of each other, others are very close.
MCRects == [x : {0, 1, 4}, area : {2, 3}]

\* Two crowded frames, in which up to two faces compete for up to two threads,
\* and then a face that comes, jumps and goes for long enough to exceed every limit.
MCScenes == [f \in 1 .. MaxFrames |->
  IF f <= 2 THEN UNION {[1 .. k -> MCRects] : k \in 0 .. 2}
            ELSE {<<>>} \cup {<<[x |-> p, area |-> 2]>> : p \in {0, 4}}]
=============================================================================
