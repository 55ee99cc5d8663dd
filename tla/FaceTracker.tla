---------------------------- MODULE FaceTracker ----------------------------
(***************************************************************************)
(* FdProcessFaces and processThreads2 (Detector/FaceProcessor.cpp): how    *)
(* the faces detected in a frame are matched with the tracked face threads,*)
(* when a thread is retired, which retired threads are worth saving and    *)
(* which faces are drawn.  FaceHistory leaves all of these choices open.   *)
(*                                                                         *)
(* All of it runs on the main CPU thread: one iteration of a loop, or one  *)
(* of the parts the code numbers, is an action.                            *)
(*                                                                         *)
(* Abstracted: a rectangle is the position of its centre on a line and its *)
(* area; the list gThreads is a function whose domain, a set of increasing *)
(* numbers, gives the order of the list.                                   *)
(***************************************************************************)
EXTENDS Integers, Sequences, FiniteSets

CONSTANTS
  Rect,                             \* rectangles: records [x, area]
  DIST_THRESH,
  VERY_CLOSE_DIST_THRESH,
  MAX_ALLOWED_MISSED_COUNT,
  MAX_ALLOWED_CONSECUTIVE_MISSES,
  MIN_FACE_OCCURENCES_THRESH,
  MaxFrames,                        \* bound: frames captured in a behaviour
  Scenes                            \* bound: what may be detected in each frame

ASSUME TrackerAssumption ==
  /\ Rect \subseteq [x : Int, area : Nat]
  /\ DIST_THRESH \in Nat
  /\ VERY_CLOSE_DIST_THRESH \in Nat
  /\ MAX_ALLOWED_MISSED_COUNT \in Nat
  /\ MAX_ALLOWED_CONSECUTIVE_MISSES \in Nat
  /\ MIN_FACE_OCCURENCES_THRESH \in Nat
  /\ MaxFrames \in Nat
  /\ \A f \in 1 .. MaxFrames : Scenes[f] \subseteq Seq(Rect)

VARIABLES
  frame,        \* processed_frame_counter
  part,         \* where main is in processThreads2 and FdProcessFaces
  input_faces,  \* faces not looked at yet in part 1
  unmatched,    \* faces left in input_faces for part 3
  gThreads,     \* the tracked face threads
  matches,      \* the Matching of each thread for this frame
  toCompare,    \* threads the face being matched is still to be compared with
  thInd,        \* the best thread so far, or None
  min_dist,     \* its distance
  nextThread,   \* the number the next thread gets
  retired,      \* the threads deleted in this frame
  gFacesInCurrentFrame  \* the faces drawn

matchVars == <<input_faces, unmatched, matches, toCompare, thInd, min_dist>>
vars == <<frame, part, matchVars, gThreads, nextThread, retired,
          gFacesInCurrentFrame>>

None == 0

\* A face is a rectangle seen in a frame; n tells apart equal rectangles.
Face == [rect : Rect, frame_id : Nat, n : Nat]

FDFaceThread == [last : Face, totalCount : Nat, missedCount : Nat,
                 nonMissedCount : Nat, consecutiveMissedCount : Nat]

\* getDistance of the centres.
getDistance(r1, r2) == IF r1.x < r2.x THEN r2.x - r1.x ELSE r1.x - r2.x

\* FD_NULL_RECT is -1 wide and -1 high: the area of a Matching without a face.
NullArea == 1

NoMatch == [found |-> FALSE]

MatchArea(t) == IF matches[t].found THEN matches[t].face.rect.area ELSE NullArea

\* Distance of the face being matched from the last face of thread t.
Distance(t) == getDistance(Head(input_faces).rect, gThreads[t].last.rect)

-----------------------------------------------------------------------------
(* Parts 0 and 1: matching *)

\* The detector reports the faces of a new frame; matches is reset.
Detect ==
  /\ part = "detect"
  /\ frame < MaxFrames
  /\ frame' = frame + 1
  /\ \E r \in Scenes[frame'] :
       input_faces' = [i \in DOMAIN r |-> [rect |-> r[i], frame_id |-> frame', n |-> i]]
  /\ unmatched' = {}
  /\ matches' = [t \in DOMAIN gThreads |-> NoMatch]
  /\ toCompare' = DOMAIN gThreads
  /\ thInd' = None
  /\ min_dist' = -1
  /\ retired' = <<>>
  /\ part' = "match"
  /\ UNCHANGED <<gThreads, nextThread, gFacesInCurrentFrame>>

\* One iteration over gThreads: is thread t within reach, and better?  The
\* thread found first is kept unless it is very close and the last face of t
\* is smaller than the face t is matched with so far.  getSizeDiff divides
\* both areas by the same number.
\* (Mutant: the distance of the thread chosen is not remembered.)
Better(t) ==
  /\ Distance(t) < min_dist
  /\ min_dist < VERY_CLOSE_DIST_THRESH
  /\ gThreads[t].last.rect.area < MatchArea(t)
CompareThreadForget(t) ==
  /\ part = "match"
  /\ input_faces # <<>>
  /\ t \in toCompare
  /\ \A u \in toCompare : t <= u
  /\ toCompare' = toCompare \ {t}
  /\ IF Distance(t) <= DIST_THRESH /\ (thInd = None \/ Better(t))
     THEN thInd' = t /\ min_dist' = IF thInd = None THEN Distance(t) ELSE min_dist
     ELSE UNCHANGED <<thInd, min_dist>>
  /\ UNCHANGED <<frame, part, input_faces, unmatched, matches, gThreads,
                 nextThread, retired, gFacesInCurrentFrame>>
CompareThread(t) ==
  /\ part = "match"
  /\ input_faces # <<>>
  /\ t \in toCompare
  /\ \A u \in toCompare : t <= u
  /\ toCompare' = toCompare \ {t}
  /\ IF Distance(t) <= DIST_THRESH /\ (thInd = None \/ Better(t))
     THEN thInd' = t /\ min_dist' = Distance(t)
     ELSE UNCHANGED <<thInd, min_dist>>
  /\ UNCHANGED <<frame, part, input_faces, unmatched, matches, gThreads,
                 nextThread, retired, gFacesInCurrentFrame>>

\* Does the face replace the one its thread is matched with so far?
Replaces(f) ==
  LET m == matches[thInd]
  IN \/ ~m.found
     \/ min_dist < m.faceDistance /\ m.faceDistance > VERY_CLOSE_DIST_THRESH
     \/ /\ m.faceDistance < VERY_CLOSE_DIST_THRESH
        /\ min_dist < VERY_CLOSE_DIST_THRESH
        /\ f.rect.area > m.face.rect.area

\* Every thread was compared: the face is left for part 3, or offered to its
\* thread and dropped.  (Mutant: a matched face is left for part 3 as well.)
AssignFaceKeep ==
  /\ part = "match"
  /\ input_faces # <<>>
  /\ toCompare = {}
  /\ LET f == Head(input_faces)
     IN /\ unmatched' = unmatched \cup {f}
        /\ IF thInd # None /\ Replaces(f)
           THEN matches' = [matches EXCEPT ![thInd] =
                              [found |-> TRUE, face |-> f, faceDistance |-> min_dist]]
           ELSE UNCHANGED matches
  /\ input_faces' = Tail(input_faces)
  /\ toCompare' = DOMAIN gThreads
  /\ thInd' = None
  /\ min_dist' = -1
  /\ UNCHANGED <<frame, part, gThreads, nextThread, retired, gFacesInCurrentFrame>>
AssignFace ==
  /\ part = "match"
  /\ input_faces # <<>>
  /\ toCompare = {}
  /\ LET f == Head(input_faces)
     IN /\ unmatched' = IF thInd = None THEN unmatched \cup {f} ELSE unmatched
        /\ IF thInd # None /\ Replaces(f)
           THEN matches' = [matches EXCEPT ![thInd] =
                              [found |-> TRUE, face |-> f, faceDistance |-> min_dist]]
           ELSE UNCHANGED matches
  /\ input_faces' = Tail(input_faces)
  /\ toCompare' = DOMAIN gThreads
  /\ thInd' = None
  /\ min_dist' = -1
  /\ UNCHANGED <<frame, part, gThreads, nextThread, retired, gFacesInCurrentFrame>>

-----------------------------------------------------------------------------
(* Part 2: counters and deletion *)

\* The counters of thread th after a frame in which it had match m.
\* (Mutants: a hit does not end the run of misses; every frame is a miss; the
\* balance of misses may become negative.)
UpdatedBelowZero(th, m) ==
  IF m.found
  THEN [th EXCEPT !.last = m.face, !.totalCount = @ + 1, !.nonMissedCount = @ + 1,
                  !.missedCount = @ - 1, !.consecutiveMissedCount = 0]
  ELSE [th EXCEPT !.totalCount = @ + 1, !.missedCount = @ + 1,
                  !.consecutiveMissedCount = @ + 1]
UpdatedNoReset(th, m) ==
  IF m.found
  THEN [th EXCEPT !.last = m.face, !.totalCount = @ + 1, !.nonMissedCount = @ + 1,
                  !.missedCount = IF @ > 0 THEN @ - 1 ELSE @]
  ELSE [th EXCEPT !.totalCount = @ + 1, !.missedCount = @ + 1,
                  !.consecutiveMissedCount = @ + 1]
UpdatedMissed(th, m) ==
  IF m.found
  THEN [th EXCEPT !.last = m.face, !.totalCount = @ + 1, !.nonMissedCount = @ + 1,
                  !.missedCount = @ + 1, !.consecutiveMissedCount = 0]
  ELSE [th EXCEPT !.totalCount = @ + 1, !.missedCount = @ + 1,
                  !.consecutiveMissedCount = @ + 1]
Updated(th, m) ==
  IF m.found
  THEN [th EXCEPT !.last = m.face, !.totalCount = @ + 1, !.nonMissedCount = @ + 1,
                  !.missedCount = IF @ > 0 THEN @ - 1 ELSE @,
                  !.consecutiveMissedCount = 0]
  ELSE [th EXCEPT !.totalCount = @ + 1, !.missedCount = @ + 1,
                  !.consecutiveMissedCount = @ + 1]

UpdateThreads ==
  /\ part = "match"
  /\ input_faces = <<>>
  /\ gThreads' = [t \in DOMAIN gThreads |-> Updated(gThreads[t], matches[t])]
  /\ part' = "delete"
  /\ UNCHANGED <<frame, matchVars, nextThread, retired, gFacesInCurrentFrame>>

\* Which threads are handed to a saver.  (Mutants: the run of misses does not
\* count, or counts one miss too early.)
GivenUpMissed(th) == th.missedCount > MAX_ALLOWED_MISSED_COUNT
GivenUpEarly(th) ==
  \/ th.missedCount > MAX_ALLOWED_MISSED_COUNT
  \/ th.consecutiveMissedCount >= MAX_ALLOWED_CONSECUTIVE_MISSES
GivenUp(th) ==
  \/ th.missedCount > MAX_ALLOWED_MISSED_COUNT
  \/ th.consecutiveMissedCount > MAX_ALLOWED_CONSECUTIVE_MISSES

DeleteThreads ==
  /\ part = "delete"
  /\ LET gone == {t \in DOMAIN gThreads : GivenUp(gThreads[t])}
     IN /\ retired'  = [t \in gone |-> gThreads[t]]
        /\ gThreads' = [t \in DOMAIN gThreads \ gone |-> gThreads[t]]
  /\ part' = "seed"
  /\ UNCHANGED <<frame, matchVars, nextThread, gFacesInCurrentFrame>>

\* What saveAndDeleteThread demands before it writes anything.
WorthSaving(th) ==
  /\ th.nonMissedCount >= MIN_FACE_OCCURENCES_THRESH
  /\ th.missedCount < MAX_ALLOWED_MISSED_COUNT

-----------------------------------------------------------------------------
(* Part 3, and the output of FdProcessFaces *)

\* addNewThread: all counters are 0, the first face is not counted.
NewThread(f) == [last |-> f, totalCount |-> 0, missedCount |-> 0,
                 nonMissedCount |-> 0, consecutiveMissedCount |-> 0]

SeedThread(f) ==
  /\ part = "seed"
  /\ f \in unmatched
  /\ \A g \in unmatched : f.n <= g.n
  /\ unmatched' = unmatched \ {f}
  /\ gThreads' = [t \in DOMAIN gThreads \cup {nextThread} |->
                    IF t = nextThread THEN NewThread(f) ELSE gThreads[t]]
  /\ nextThread' = nextThread + 1
  /\ UNCHANGED <<frame, part, input_faces, matches, toCompare, thInd, min_dist,
                 retired, gFacesInCurrentFrame>>

\* Step 4: the last face of every thread seen often enough.
Displayed(th) == th.nonMissedCount > MIN_FACE_OCCURENCES_THRESH

Output ==
  /\ part = "seed"
  /\ unmatched = {}
  /\ gFacesInCurrentFrame' =
       {gThreads[t].last : t \in {u \in DOMAIN gThreads : Displayed(gThreads[u])}}
  /\ part' = "detect"
  /\ UNCHANGED <<frame, matchVars, gThreads, nextThread, retired>>

\* The video or the user ends the input loop between two frames.
EndOfInput ==
  /\ part = "detect"
  /\ part' = "ended"
  /\ UNCHANGED <<frame, matchVars, gThreads, nextThread, retired,
                 gFacesInCurrentFrame>>

Ended == part = "ended" /\ UNCHANGED vars

-----------------------------------------------------------------------------
Init ==
  /\ frame = 0
  /\ part = "detect"
  /\ input_faces = <<>>
  /\ unmatched = {}
  /\ gThreads = <<>>
  /\ matches = <<>>
  /\ toCompare = {}
  /\ thInd = None
  /\ min_dist = -1
  /\ nextThread = 1
  /\ retired = <<>>
  /\ gFacesInCurrentFrame = {}

Next ==
  \/ Detect
  \/ \E t \in toCompare : CompareThread(t)
  \/ AssignFace
  \/ UpdateThreads
  \/ DeleteThreads
  \/ \E f \in unmatched : SeedThread(f)
  \/ Output
  \/ EndOfInput
  \/ Ended

Spec == Init /\ [][Next]_vars

-----------------------------------------------------------------------------
(* Properties *)

Matching ==
  [found : {FALSE}] \cup [found : {TRUE}, face : Face, faceDistance : Nat]

\* The type of every variable.
TypeOK ==
  /\ frame \in Nat
  /\ part \in {"detect", "match", "delete", "seed", "ended"}
  /\ input_faces \in Seq(Face)
  /\ unmatched \in SUBSET Face
  /\ DOMAIN gThreads \subseteq 1 .. nextThread - 1
  /\ \A t \in DOMAIN gThreads : gThreads[t] \in FDFaceThread
  /\ part = "match" => DOMAIN matches = DOMAIN gThreads
  /\ \A t \in DOMAIN matches : matches[t] \in Matching
  /\ toCompare \subseteq DOMAIN matches
  /\ thInd \in DOMAIN matches \cup {None}
  /\ min_dist \in Nat \cup {-1}
  /\ nextThread \in Nat
  /\ \A t \in DOMAIN retired : retired[t] \in FDFaceThread
  /\ gFacesInCurrentFrame \in SUBSET Face

\* Between frames the counters of a tracked thread agree with each other and
\* with its last face: the current run of misses is the age of that face, and
\* neither it nor the balance of misses exceeds its limit.
CountersConsistent ==
  part = "detect" =>
    \A t \in DOMAIN gThreads : LET th == gThreads[t] IN
      /\ th.consecutiveMissedCount = frame - th.last.frame_id
      /\ th.consecutiveMissedCount <= th.missedCount
      /\ th.missedCount + th.nonMissedCount <= th.totalCount
      /\ th.missedCount <= MAX_ALLOWED_MISSED_COUNT
      /\ th.consecutiveMissedCount <= MAX_ALLOWED_CONSECUTIVE_MISSES

\* A detected face continues or starts at most one thread, so no two threads
\* end in the same face.
OneThreadPerFace ==
  \A t, u \in DOMAIN gThreads : t # u => gThreads[t].last # gThreads[u].last

\* The distance remembered for a match is the real one, and within reach.
MatchWithinReach ==
  part = "match" =>
    \A t \in DOMAIN matches : matches[t].found =>
      /\ matches[t].faceDistance =
           getDistance(matches[t].face.rect, gThreads[t].last.rect)
      /\ matches[t].faceDistance <= DIST_THRESH

\* What processThreads2 does, without the rules by which it does it.
Threads == INSTANCE FaceThreads WITH
  newest <- frame,
  stage  <- CASE part = "match"              -> "matching"
              [] part \in {"delete", "seed"} -> "settling"
              [] OTHER                       -> "done",
  last   <- [t \in DOMAIN gThreads |-> gThreads[t].last.frame_id]

\* The rules implement FaceThreads, the choices FaceHistory assumes: a thread
\* that has a face in the newest frame is not retired, and neither matching,
\* replacing matches nor erasing during the loop loses or revives a thread.
ThreadsSpec == Threads!Spec

\* A retired thread that is saved was lost from sight, exactly one frame more
\* than the allowed run ago; one retired for its balance of misses never is.
SavedWereLost ==
  \A t \in DOMAIN retired : WorthSaving(retired[t]) =>
    frame - retired[t].last.frame_id = MAX_ALLOWED_CONSECUTIVE_MISSES + 1

\* A drawn rectangle is never older than the allowed run of misses.
DrawnIsFresh ==
  part = "detect" =>
    \A f \in gFacesInCurrentFrame :
      frame - f.frame_id <= MAX_ALLOWED_CONSECUTIVE_MISSES
=============================================================================
