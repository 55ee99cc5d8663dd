----------------------------- MODULE Smoothing -----------------------------
(***************************************************************************)
(* How a saver prepares the faces of a smoothed video                      *)
(* (Detector/FaceProcessor.cpp, saveThreadVideo with isSmoothVideo): it    *)
(* copies the list of faces, walks it with two iterators and inserts a     *)
(* face for every frame in which the thread had none (addMissingFrames),   *)
(* and smooths x, y, width and height one after the other                  *)
(* (smoothFaceSeries, built without USE_NEW_SMOOTH).                       *)
(*                                                                         *)
(* Abstracted: floats are exact quotients; an iterator is the place of the *)
(* face it points to, so it moves when a face is inserted before it.  A    *)
(* saver works on its own copy, so the steps interleave with nothing.      *)
(***************************************************************************)
EXTENDS Integers, Sequences, FiniteSets, FiniteSetsExt, SequencesExt

CONSTANTS
  Position,       \* left and top edges the detector reports
  Size,           \* widths and heights it reports
  FrameIds,       \* the increasing sequences of frame ids a thread may have
  FrameSize       \* width and height of a frame

ASSUME SmoothingAssumption ==
  /\ Position \subseteq Nat
  /\ Size \subseteq Nat \ {0}
  /\ FrameSize \in Nat
  /\ \A s \in FrameIds :
       /\ s \in Seq(Nat) \ {<<>>}
       /\ \A i, j \in DOMAIN s : i < j => s[i] < s[j]

VARIABLES
  _pFaces,        \* the faces of the thread, oldest first
  my_faces,       \* the copy of the saver
  stage,          \* the next thing the saver does with its copy
  prev_itr,       \* the iterators of addMissingFrames, at two detected faces
  itr,            \*   with the faces inserted between them
  nth             \* the i of its inner loop: the next face of the gap

iterators == <<prev_itr, itr, nth>>
vars == <<_pFaces, my_faces, stage, iterators>>

SIZE_FILT     == <<1, 1, 1, 1, 1, 1, 1>>
LOCATION_FILT == <<1, 2, 1>>

\* The detector reports squares inside the frame.
SquareFace(f, x, y, s) ==
  [frame_id |-> f, x |-> x, y |-> y, width |-> s, height |-> s]

-----------------------------------------------------------------------------
(* Arithmetic *)

\* my_round of p / q: to the nearest integer, a tie goes up.
my_round(p, q) == IF 2 * (p % q) < q THEN p \div q ELSE -((-p) \div q)

\* The sum of the products under the taps: the longest filter has seven.
Total(w) == w[1] + w[2] + w[3] + w[4] + w[5] + w[6] + w[7]

\* LinearConvolutionSame, rounded: entry k is the average of the entries of X
\* around k, weighted by the first leny entries of Y.  At both ends the window
\* is cut and the weights are normalised.  (Mutant: not normalised.)
ConvolutionPlain(X, Y, leny, k) ==
  LET entry(d)  == k + leny \div 2 - d + 1
      inside(d) == d <= leny /\ entry(d) \in DOMAIN X
      product   == [d \in 1 .. 7 |-> IF inside(d) THEN X[entry(d)] * Y[d] ELSE 0]
      weight    == [d \in 1 .. 7 |-> IF d <= leny THEN Y[d] ELSE 0]
  IN my_round(Total(product), Total(weight))
Convolution(X, Y, leny, k) ==
  LET entry(d)  == k + leny \div 2 - d + 1
      inside(d) == d <= leny /\ entry(d) \in DOMAIN X
      product   == [d \in 1 .. 7 |-> IF inside(d) THEN X[entry(d)] * Y[d] ELSE 0]
      weight    == [d \in 1 .. 7 |-> IF inside(d) THEN Y[d] ELSE 0]
  IN my_round(Total(product), Total(weight))

-----------------------------------------------------------------------------
(* The steps of a saver *)

\* The face addMissingFrames puts i frames after face p, on the way to face q.
\* (Mutant: the steps are added to the members of q.)
BetweenFromNext(p, q, i) ==
  LET gap == q.frame_id - p.frame_id
      step(a, b) == b + my_round(i * (b - a), gap)
  IN [frame_id |-> p.frame_id + i,
      x        |-> step(p.x, q.x),
      y        |-> step(p.y, q.y),
      width    |-> step(p.width, q.width),
      height   |-> step(p.height, q.height)]
Between(p, q, i) ==
  LET gap == q.frame_id - p.frame_id
      step(a, b) == a + my_round(i * (b - a), gap)
  IN [frame_id |-> p.frame_id + i,
      x        |-> step(p.x, q.x),
      y        |-> step(p.y, q.y),
      width    |-> step(p.width, q.width),
      height   |-> step(p.height, q.height)]

\* addMissingFrames returns early when the number of faces is that of the frames.
FillStart ==
  /\ stage = "fill"
  /\ LET frames == Last(my_faces).frame_id - Head(my_faces).frame_id + 1
     IN stage' = IF frames = Len(my_faces) THEN "x" ELSE "insert"
  /\ UNCHANGED <<_pFaces, my_faces, iterators>>

\* The loop of addMissingFrames is at a pair of faces, diff frames apart.
AtPair == stage = "insert" /\ itr <= Len(my_faces)
diff   == my_faces[itr].frame_id - my_faces[prev_itr].frame_id

\* Insert the next face of the gap before itr, which stays at its face.
InsertFace ==
  /\ AtPair
  /\ nth < diff
  /\ my_faces' = InsertAt(my_faces, itr, Between(my_faces[prev_itr], my_faces[itr], nth))
  /\ itr' = itr + 1
  /\ nth' = nth + 1
  /\ UNCHANGED <<_pFaces, stage, prev_itr>>

\* prev_itr = itr++.  (Mutant: prev_itr goes on by one, to an inserted face.)
NextPairShort ==
  /\ AtPair
  /\ nth >= diff
  /\ prev_itr' = prev_itr + 1
  /\ itr' = itr + 1
  /\ nth' = 1
  /\ UNCHANGED <<_pFaces, my_faces, stage>>
NextPair ==
  /\ AtPair
  /\ nth >= diff
  /\ prev_itr' = itr
  /\ itr' = itr + 1
  /\ nth' = 1
  /\ UNCHANGED <<_pFaces, my_faces, stage>>

FillEnd ==
  /\ stage = "insert"
  /\ itr > Len(my_faces)
  /\ stage' = "x"
  /\ UNCHANGED <<_pFaces, my_faces, iterators>>

\* One block of smoothFaceSeries: smooth one member of every face.
Smooth(member, leny) ==
  LET X == [k \in DOMAIN my_faces |-> my_faces[k][member]]
  IN my_faces' = [k \in DOMAIN my_faces |->
       [my_faces[k] EXCEPT ![member] = Convolution(X, SIZE_FILT, leny, k)]]

SmoothX ==
  /\ stage = "x"
  /\ Smooth("x", Len(SIZE_FILT))
  /\ stage' = "y"
  /\ UNCHANGED <<_pFaces, iterators>>

SmoothY ==
  /\ stage = "y"
  /\ Smooth("y", Len(SIZE_FILT))
  /\ stage' = "width"
  /\ UNCHANGED <<_pFaces, iterators>>

\* (Mutant: the number of taps that the code passes for the height.)
SmoothWidthShort ==
  /\ stage = "width"
  /\ Smooth("width", Len(LOCATION_FILT))
  /\ stage' = "height"
  /\ UNCHANGED <<_pFaces, iterators>>
SmoothWidth ==
  /\ stage = "width"
  /\ Smooth("width", Len(SIZE_FILT))
  /\ stage' = "height"
  /\ UNCHANGED <<_pFaces, iterators>>

\* The last block passes the size of LOCATION_FILT with SIZE_FILT.
SmoothHeight ==
  /\ stage = "height"
  /\ Smooth("height", Len(LOCATION_FILT))
  /\ stage' = "done"
  /\ UNCHANGED <<_pFaces, iterators>>

Done == stage = "done" /\ UNCHANGED vars

-----------------------------------------------------------------------------
Init ==
  /\ \E ids \in FrameIds :
     \E square \in [DOMAIN ids -> {q \in [x : Position, y : Position, s : Size] :
                                     q.x + q.s <= FrameSize /\ q.y + q.s <= FrameSize}] :
       _pFaces = [i \in DOMAIN ids |->
         SquareFace(ids[i], square[i].x, square[i].y, square[i].s)]
  /\ my_faces = _pFaces
  /\ stage = "fill"
  /\ prev_itr = 1
  /\ itr = 2
  /\ nth = 1

Next ==
  \/ FillStart
  \/ InsertFace
  \/ NextPair
  \/ FillEnd
  \/ SmoothX
  \/ SmoothY
  \/ SmoothWidth
  \/ SmoothHeight
  \/ Done

Spec == Init /\ [][Next]_vars

-----------------------------------------------------------------------------
(* Properties *)

Filled  == stage \notin {"fill", "insert"}
Members == {"x", "y", "width", "height"}

\* The smoothed video shows every frame from the first to the last face once
\* and in order, which is what lets the saver walk the history in step with
\* the list (the assertion of FaceProcessor.cpp:983).
EveryFrameHasAFace ==
  Filled =>
    LET first == _pFaces[1].frame_id
    IN /\ Len(my_faces) = _pFaces[Len(_pFaces)].frame_id - first + 1
       /\ \A k \in DOMAIN my_faces : my_faces[k].frame_id = first + k - 1

\* An added face lies between its neighbours in every member; a detected face
\* keeps its rectangle.
InterpolatedBetween ==
  stage = "x" =>
    /\ \A i \in DOMAIN _pFaces : \E k \in DOMAIN my_faces : my_faces[k] = _pFaces[i]
    /\ \A i \in 1 .. Len(_pFaces) - 1 : \A k \in DOMAIN my_faces :
         my_faces[k].frame_id \in _pFaces[i].frame_id .. _pFaces[i + 1].frame_id =>
           \A m \in Members :
             my_faces[k][m] \in (_pFaces[i][m] .. _pFaces[i + 1][m])
                                  \cup (_pFaces[i + 1][m] .. _pFaces[i][m])

\* Smoothing never leaves the range of the detected values, not even at the
\* ends of the list where the window is cut.
SmoothedInRange ==
  stage = "done" =>
    \A k \in DOMAIN my_faces : \A m \in Members :
      LET detected == {_pFaces[i][m] : i \in DOMAIN _pFaces}
      IN my_faces[k][m] \in Min(detected) .. Max(detected)

\* x and width are smoothed alike, so a smoothed rectangle passes the right
\* edge of the frame by a rounding error at most (cvSetImageROI clips it).
RightEdgeInFrame ==
  stage = "done" =>
    \A k \in DOMAIN my_faces : my_faces[k].x + my_faces[k].width <= FrameSize + 1
=============================================================================
