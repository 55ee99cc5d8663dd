------------------------- MODULE FaceTrackerProofs -------------------------
(***************************************************************************)
(* The counters of a face thread, the matching of faces and the retiring   *)
(* of threads, for all rectangles, thresholds and limits, and for any      *)
(* number of frames.                                                       *)
(***************************************************************************)
EXTENDS FaceTracker, SequenceTheorems, TLAPS

\* The counters of a thread agree with each other and, f being the newest
\* frame they count, with the frame of its last face.
Consistent(th, f) ==
  /\ th.consecutiveMissedCount = f - th.last.frame_id
  /\ th.consecutiveMissedCount <= th.missedCount
  /\ th.missedCount + th.nonMissedCount <= th.totalCount

\* The counters exceed their limits by at most k.
Within(th, k) ==
  /\ th.missedCount <= MAX_ALLOWED_MISSED_COUNT + k
  /\ th.consecutiveMissedCount <= MAX_ALLOWED_CONSECUTIVE_MISSES + k

\* Between part 2's two loops a thread may be over its limits, but not one that
\* has a face in the newest frame.
CountersInv ==
  \A t \in DOMAIN gThreads :
    /\ part = "match" => Consistent(gThreads[t], frame - 1)
    /\ part # "match" => Consistent(gThreads[t], frame)
    /\ part # "delete" => Within(gThreads[t], 0)
    /\ part = "delete" =>
         /\ Within(gThreads[t], 1)
         /\ gThreads[t].consecutiveMissedCount = 0 => Within(gThreads[t], 0)

RetiredInv ==
  \A t \in DOMAIN retired :
    Consistent(retired[t], frame) /\ Within(retired[t], 1) /\ GivenUp(retired[t])

\* The faces of the newest frame are one by one in input_faces, in unmatched,
\* in a match or dropped.
InInput(f) == \E i \in DOMAIN input_faces : f = input_faces[i]

FacesInv ==
  /\ \A i \in DOMAIN input_faces : input_faces[i].frame_id = frame
  /\ \A i, j \in DOMAIN input_faces : i # j => input_faces[i] # input_faces[j]
  /\ \A f \in unmatched : f.frame_id = frame /\ ~InInput(f)

MatchesInv ==
  part = "match" =>
    /\ \A t \in DOMAIN matches : matches[t].found =>
         /\ matches[t].face.frame_id = frame
         /\ matches[t].face \notin unmatched
         /\ ~InInput(matches[t].face)
    /\ \A t, u \in DOMAIN matches :
         t # u /\ matches[t].found /\ matches[u].found =>
           matches[t].face # matches[u].face

\* A face that is left over ends no thread.
SeedsInv ==
  part \in {"delete", "seed"} =>
    \A t \in DOMAIN gThreads : gThreads[t].last \notin unmatched

\* min_dist is the distance of the face being matched from the best thread.
BestInv ==
  part = "match" /\ thInd # None =>
    input_faces # <<>> /\ min_dist = Distance(thInd) /\ min_dist <= DIST_THRESH

TInv ==
  /\ TypeOK
  /\ nextThread # 0
  /\ CountersInv
  /\ RetiredInv
  /\ FacesInv
  /\ MatchesInv
  /\ SeedsInv
  /\ BestInv
  /\ OneThreadPerFace
  /\ MatchWithinReach
  /\ DrawnIsFresh

-----------------------------------------------------------------------------
(* What the helpers yield *)

LEMMA DistanceType ==
  ASSUME NEW r1 \in Rect, NEW r2 \in Rect
  PROVE  getDistance(r1, r2) \in Nat
  BY TrackerAssumption DEF getDistance

LEMMA FaceFields ==
  ASSUME NEW f \in Face
  PROVE  f.rect \in Rect /\ f.frame_id \in Nat /\ f.n \in Nat
  BY DEF Face

LEMMA ThreadFields ==
  ASSUME NEW th \in FDFaceThread
  PROVE  /\ th.last \in Face
         /\ th.totalCount \in Nat
         /\ th.missedCount \in Nat
         /\ th.nonMissedCount \in Nat
         /\ th.consecutiveMissedCount \in Nat
  BY DEF FDFaceThread

LEMMA MatchingFields ==
  ASSUME NEW m \in Matching
  PROVE  /\ m.found \in BOOLEAN
         /\ m.found => m.face \in Face /\ m.faceDistance \in Nat
  BY DEF Matching

LEMMA UpdatedHit ==
  ASSUME NEW th \in FDFaceThread, NEW m \in Matching, m.found
  PROVE  /\ Updated(th, m) \in FDFaceThread
         /\ Updated(th, m).last = m.face
         /\ Updated(th, m).totalCount = th.totalCount + 1
         /\ Updated(th, m).nonMissedCount = th.nonMissedCount + 1
         /\ Updated(th, m).missedCount <= th.missedCount
         /\ Updated(th, m).consecutiveMissedCount = 0
  <1>1. m.face \in Face
    BY MatchingFields
  <1>2. PICK k \in Nat : k <= th.missedCount
                         /\ k = IF th.missedCount > 0 THEN th.missedCount - 1
                                                      ELSE th.missedCount
    BY ThreadFields
  <1>3. Updated(th, m) = [last |-> m.face,
                          totalCount |-> th.totalCount + 1,
                          missedCount |-> k,
                          nonMissedCount |-> th.nonMissedCount + 1,
                          consecutiveMissedCount |-> 0]
    BY <1>2 DEF Updated, FDFaceThread
  <1> QED BY <1>1, <1>2, <1>3, ThreadFields DEF FDFaceThread

LEMMA UpdatedMiss ==
  ASSUME NEW th \in FDFaceThread, NEW m \in Matching, ~m.found
  PROVE  /\ Updated(th, m) \in FDFaceThread
         /\ Updated(th, m).last = th.last
         /\ Updated(th, m).totalCount = th.totalCount + 1
         /\ Updated(th, m).nonMissedCount = th.nonMissedCount
         /\ Updated(th, m).missedCount = th.missedCount + 1
         /\ Updated(th, m).consecutiveMissedCount = th.consecutiveMissedCount + 1
  <1>1. Updated(th, m) = [last |-> th.last,
                          totalCount |-> th.totalCount + 1,
                          missedCount |-> th.missedCount + 1,
                          nonMissedCount |-> th.nonMissedCount,
                          consecutiveMissedCount |-> th.consecutiveMissedCount + 1]
    BY DEF Updated, FDFaceThread
  <1> QED BY <1>1, ThreadFields DEF FDFaceThread

LEMMA NewThreadType ==
  ASSUME NEW f \in Face
  PROVE  NewThread(f) \in FDFaceThread
  BY DEF NewThread, FDFaceThread

-----------------------------------------------------------------------------
LEMMA TInit == Init => TInv
  <1> SUFFICES ASSUME Init PROVE TInv
    OBVIOUS
  <1>1. DOMAIN gThreads = {} /\ DOMAIN matches = {} /\ DOMAIN retired = {}
    BY DEF Init
  <1>2. input_faces \in Seq(Face) /\ DOMAIN input_faces = {}
    BY EmptySeq DEF Init
  <1>3. TypeOK
    BY <1>1, <1>2 DEF Init, TypeOK
  <1>4. CountersInv /\ RetiredInv /\ OneThreadPerFace
    BY <1>1 DEF CountersInv, RetiredInv, OneThreadPerFace
  <1>5. FacesInv /\ MatchesInv /\ SeedsInv /\ BestInv /\ MatchWithinReach /\ DrawnIsFresh
    BY <1>2 DEF Init, FacesInv, MatchesInv, SeedsInv, BestInv, MatchWithinReach, DrawnIsFresh
  <1> QED BY <1>3, <1>4, <1>5 DEF Init, TInv

LEMMA DetectStep ==
  ASSUME TInv, Detect
  PROVE  TInv'
  <1>1. PICK r \in Scenes[frame'] :
          input_faces' = [i \in DOMAIN r |-> [rect |-> r[i], frame_id |-> frame', n |-> i]]
    BY DEF Detect
  <1>2. /\ part = "detect" /\ part' = "match"
        /\ frame' = frame + 1 /\ frame \in Nat /\ frame' \in 1 .. MaxFrames
        /\ unmatched' = {} /\ toCompare' = DOMAIN gThreads
        /\ thInd' = None /\ min_dist' = -1 /\ retired' = <<>>
        /\ UNCHANGED <<gThreads, nextThread, gFacesInCurrentFrame>>
    BY TrackerAssumption DEF Detect, TInv, TypeOK
  <1>3. r \in Seq(Rect)
    BY <1>1, <1>2, TrackerAssumption
  <1>4. /\ Len(r) \in Nat
        /\ DOMAIN r = 1 .. Len(r)
        /\ \A i \in 1 .. Len(r) : r[i] \in Rect
    BY <1>3, LenProperties, ElementOfSeq
  <1>5. input_faces' \in Seq(Face)
    <2>1. \A i \in 1 .. Len(r) :
            [rect |-> r[i], frame_id |-> frame', n |-> i] \in Face
      BY <1>2, <1>4 DEF Face
    <2>2. input_faces' \in [1 .. Len(r) -> Face]
      BY <1>1, <1>4, <2>1
    <2> QED BY <1>4, <2>2, SeqDef
  <1>6. /\ DOMAIN input_faces' = 1 .. Len(r)
        /\ \A i \in 1 .. Len(r) : input_faces'[i].frame_id = frame' /\ input_faces'[i].n = i
    BY <1>1, <1>4
  <1>7. /\ DOMAIN matches' = DOMAIN gThreads
        /\ \A t \in DOMAIN matches' : matches'[t] \in Matching /\ ~matches'[t].found
    BY DEF Detect, NoMatch, Matching
  <1>8. TypeOK'
    BY <1>2, <1>5, <1>7 DEF TInv, TypeOK
  <1>9. CountersInv'
    BY <1>2 DEF TInv, CountersInv, Consistent, Within
  <1>10. FacesInv'
    BY <1>2, <1>6 DEF FacesInv
  <1>11. MatchesInv' /\ MatchWithinReach'
    BY <1>7 DEF MatchesInv, MatchWithinReach
  <1>12. RetiredInv' /\ SeedsInv' /\ BestInv' /\ OneThreadPerFace' /\ DrawnIsFresh'
    BY <1>2 DEF TInv, RetiredInv, SeedsInv, BestInv, OneThreadPerFace, DrawnIsFresh
  <1> QED BY <1>2, <1>8, <1>9, <1>10, <1>11, <1>12 DEF TInv

\* What only the parts after matching are about.
LEMMA StillMatching ==
  ASSUME TInv, part = "match",
         UNCHANGED <<frame, part, gThreads, nextThread, retired, gFacesInCurrentFrame>>
  PROVE  CountersInv' /\ RetiredInv' /\ SeedsInv' /\ OneThreadPerFace' /\ DrawnIsFresh'
  BY DEF TInv, CountersInv, Consistent, Within, RetiredInv, GivenUp, SeedsInv,
     OneThreadPerFace, DrawnIsFresh

LEMMA CompareStep ==
  ASSUME TInv, NEW t \in toCompare, CompareThread(t)
  PROVE  TInv'
  <1>1. /\ part = "match" /\ input_faces # <<>>
        /\ toCompare' = toCompare \ {t}
        /\ UNCHANGED <<frame, part, input_faces, unmatched, matches, gThreads,
                       nextThread, retired, gFacesInCurrentFrame>>
    BY DEF CompareThread
  <1>2. Distance(t) \in Nat
    <2>1. gThreads[t].last \in Face /\ Head(input_faces) \in Face
      BY <1>1, ThreadFields, HeadTailProperties DEF TInv, TypeOK
    <2> QED BY <2>1, FaceFields, DistanceType DEF Distance
  <1>3. \/ thInd' = t /\ min_dist' = Distance(t) /\ Distance(t) <= DIST_THRESH
        \/ UNCHANGED <<thInd, min_dist>>
    BY DEF CompareThread
  <1>4. TypeOK'
    BY <1>1, <1>2, <1>3 DEF TInv, TypeOK
  <1>5. BestInv'
    BY <1>1, <1>3 DEF TInv, BestInv, Distance
  <1>6. FacesInv' /\ MatchesInv' /\ MatchWithinReach'
    BY <1>1 DEF TInv, FacesInv, MatchesInv, InInput, MatchWithinReach
  <1> QED BY <1>1, <1>4, <1>5, <1>6, StillMatching DEF TInv

LEMMA AssignStep ==
  ASSUME TInv, AssignFace
  PROVE  TInv'
  <1> PICK f : f = Head(input_faces)
    OBVIOUS
  <1> DEFINE Found == [found |-> TRUE, face |-> f, faceDistance |-> min_dist]
  <1>1. /\ part = "match" /\ input_faces # <<>>
        /\ unmatched' = IF thInd = None THEN unmatched \cup {f} ELSE unmatched
        /\ \/ thInd # None /\ matches' = [matches EXCEPT ![thInd] = Found]
           \/ UNCHANGED matches
        /\ input_faces' = Tail(input_faces)
        /\ toCompare' = DOMAIN gThreads /\ thInd' = None /\ min_dist' = -1
        /\ UNCHANGED <<frame, part, gThreads, nextThread, retired, gFacesInCurrentFrame>>
    BY DEF AssignFace
  <1>2. /\ input_faces \in Seq(Face)
        /\ DOMAIN matches = DOMAIN gThreads
        /\ DOMAIN gThreads \subseteq 1 .. nextThread - 1
        /\ thInd \in DOMAIN matches \cup {None}
        /\ unmatched \subseteq Face
    BY <1>1 DEF TInv, TypeOK
  <1>3. /\ f \in Face
        /\ f = input_faces[1]
        /\ Len(input_faces) \in Nat \ {0}
        /\ DOMAIN input_faces = 1 .. Len(input_faces)
        /\ input_faces' \in Seq(Face)
        /\ DOMAIN input_faces' = 1 .. Len(input_faces) - 1
        /\ \A i \in 1 .. Len(input_faces) - 1 : input_faces'[i] = input_faces[i + 1]
    BY <1>1, <1>2, HeadTailProperties, LenProperties, EmptySeq
  <1>4. thInd # None =>
          /\ Found \in Matching
          /\ min_dist = getDistance(f.rect, gThreads[thInd].last.rect)
          /\ min_dist <= DIST_THRESH
    <2> HAVE thInd # None
    <2>1. /\ min_dist = getDistance(f.rect, gThreads[thInd].last.rect)
          /\ min_dist <= DIST_THRESH
      BY <1>1 DEF TInv, BestInv, Distance
    <2>2. gThreads[thInd].last \in Face
      BY <1>2, ThreadFields DEF TInv, TypeOK
    <2>3. min_dist \in Nat
      BY <1>3, <2>1, <2>2, FaceFields, DistanceType
    <2> QED BY <1>3, <2>1, <2>3 DEF Matching
  <1>5. /\ DOMAIN matches' = DOMAIN matches
        /\ \A t \in DOMAIN matches :
             \/ matches'[t] = matches[t]
             \/ thInd # None /\ t = thInd /\ matches'[t] = Found
    BY <1>1
  <1>6. /\ InInput(f) /\ f.frame_id = frame
        /\ ~InInput(f)'
    <2>1. InInput(f)
      BY <1>3 DEF InInput
    <2>2. f.frame_id = frame
      BY <1>3 DEF TInv, FacesInv
    <2>3. ASSUME NEW i \in 1 .. Len(input_faces) - 1
          PROVE  f # input_faces'[i]
      <3>1. i + 1 \in DOMAIN input_faces /\ 1 \in DOMAIN input_faces /\ i + 1 # 1
        BY <1>3
      <3> QED BY <1>3, <3>1 DEF TInv, FacesInv
    <2>4. ~InInput(f)'
      BY <1>3, <2>3 DEF InInput
    <2> QED BY <2>1, <2>2, <2>4
  <1>7. \A g : InInput(g)' => InInput(g)
    BY <1>3 DEF InInput
  <1>8. Found.found /\ Found.face = f /\ Found.faceDistance = min_dist
    OBVIOUS
  <1> HIDE DEF Found
  <1>9. \A t \in DOMAIN matches : matches'[t] \in Matching
    BY <1>4, <1>5 DEF TInv, TypeOK
  <1>10. TypeOK'
    BY <1>1, <1>2, <1>3, <1>5, <1>9 DEF TInv, TypeOK
  <1>11. FacesInv'
    <2>1. \A i, j \in DOMAIN input_faces' : i # j => input_faces'[i] # input_faces'[j]
      <3> SUFFICES ASSUME NEW i \in DOMAIN input_faces', NEW j \in DOMAIN input_faces',
                          i # j
                   PROVE  input_faces'[i] # input_faces'[j]
        OBVIOUS
      <3>1. /\ i + 1 \in DOMAIN input_faces /\ j + 1 \in DOMAIN input_faces
            /\ i + 1 # j + 1
        BY <1>3
      <3> QED BY <1>3, <3>1 DEF TInv, FacesInv
    <2>2. \A i \in DOMAIN input_faces' : input_faces'[i].frame_id = frame'
      BY <1>1, <1>3 DEF TInv, FacesInv
    <2>3. ASSUME NEW g \in unmatched'
          PROVE  g.frame_id = frame' /\ ~InInput(g)'
      <3>1. g = f \/ g \in unmatched
        BY <1>1, <2>3
      <3> QED BY <1>1, <1>6, <1>7, <3>1 DEF TInv, FacesInv
    <2> QED BY <2>1, <2>2, <2>3 DEF FacesInv
  <1>12. MatchesInv'
    <2>1. ASSUME NEW t \in DOMAIN matches', matches'[t].found
          PROVE  /\ matches'[t].face.frame_id = frame'
                 /\ matches'[t].face \notin unmatched'
                 /\ ~InInput(matches[t].face)'
      <3>1. CASE matches'[t] = matches[t]
        <4>1. /\ matches[t].face.frame_id = frame
              /\ matches[t].face \notin unmatched
              /\ ~InInput(matches[t].face)
          BY <1>1, <1>5, <2>1, <3>1 DEF TInv, MatchesInv
        <4>2. PICK g : g = matches[t].face
          OBVIOUS
        <4>3. g \notin unmatched' /\ ~InInput(g)'
          BY <1>1, <1>6, <1>7, <4>1, <4>2
        <4> QED BY <1>1, <3>1, <4>1, <4>2, <4>3
      <3>2. CASE thInd # None /\ matches'[t] = Found
        <4>1. f \notin unmatched'
          BY <1>1, <1>6, <3>2 DEF TInv, FacesInv
        <4> QED BY <1>1, <1>6, <1>8, <3>2, <4>1
      <3> QED BY <1>5, <2>1, <3>1, <3>2
    <2>2. ASSUME NEW t \in DOMAIN matches', NEW u \in DOMAIN matches',
                 t # u, matches'[t].found, matches'[u].found
          PROVE  matches'[t].face # matches'[u].face
      BY <1>1, <1>5, <1>6, <1>8, <2>2 DEF TInv, MatchesInv
    <2> QED BY <2>1, <2>2 DEF MatchesInv
  <1>13. MatchWithinReach'
    BY <1>1, <1>4, <1>5, <1>8 DEF TInv, MatchWithinReach
  <1>14. BestInv'
    BY <1>1 DEF BestInv
  <1> QED
    BY <1>1, <1>10, <1>11, <1>12, <1>13, <1>14, StillMatching DEF TInv

-----------------------------------------------------------------------------
LEMMA UpdateStep ==
  ASSUME TInv, UpdateThreads
  PROVE  TInv'
  <1>1. /\ part = "match" /\ part' = "delete"
        /\ DOMAIN gThreads' = DOMAIN gThreads
        /\ \A t \in DOMAIN gThreads : gThreads'[t] = Updated(gThreads[t], matches[t])
        /\ UNCHANGED <<frame, matchVars, nextThread, retired, gFacesInCurrentFrame>>
    BY DEF UpdateThreads
  <1>2. \A t \in DOMAIN gThreads :
          gThreads[t] \in FDFaceThread /\ matches[t] \in Matching
    BY <1>1 DEF TInv, TypeOK
  <1>3. \A t \in DOMAIN gThreads :
          gThreads'[t] \in FDFaceThread
    BY <1>1, <1>2, UpdatedHit, UpdatedMiss
  <1>4. TypeOK'
    BY <1>1, <1>3 DEF TInv, TypeOK, matchVars
  <1>5. ASSUME NEW t \in DOMAIN gThreads
        PROVE  /\ Consistent(gThreads'[t], frame)
               /\ Within(gThreads'[t], 1)
               /\ gThreads'[t].consecutiveMissedCount = 0 => Within(gThreads'[t], 0)
    <2>1. Consistent(gThreads[t], frame - 1) /\ Within(gThreads[t], 0)
      BY <1>1, <1>5 DEF TInv, CountersInv
    <2>2. /\ gThreads[t].last.frame_id \in Nat /\ frame \in Nat
          /\ MAX_ALLOWED_MISSED_COUNT \in Nat
          /\ MAX_ALLOWED_CONSECUTIVE_MISSES \in Nat
      BY <1>2, <1>5, ThreadFields, FaceFields, TrackerAssumption DEF TInv, TypeOK
    <2>3. CASE matches[t].found
      <3>1. matches[t].face.frame_id = frame
        BY <1>1, <1>5, <2>3 DEF TInv, TypeOK, MatchesInv
      <3> QED
        BY <1>1, <1>2, <1>3, <1>5, <2>1, <2>2, <2>3, <3>1, UpdatedHit, ThreadFields
        DEF Consistent, Within
    <2>4. CASE ~matches[t].found
      <3>1. /\ gThreads'[t].last = gThreads[t].last
            /\ gThreads'[t].totalCount = gThreads[t].totalCount + 1
            /\ gThreads'[t].nonMissedCount = gThreads[t].nonMissedCount
            /\ gThreads'[t].missedCount = gThreads[t].missedCount + 1
            /\ gThreads'[t].consecutiveMissedCount = gThreads[t].consecutiveMissedCount + 1
        BY <1>1, <1>2, <1>5, <2>4, UpdatedMiss
      <3>2. /\ gThreads[t].totalCount \in Nat
            /\ gThreads[t].nonMissedCount \in Nat
            /\ gThreads[t].missedCount \in Nat
            /\ gThreads[t].consecutiveMissedCount \in Nat
        BY <1>2, <1>5, ThreadFields
      <3> QED BY <2>1, <2>2, <3>1, <3>2 DEF Consistent, Within
    <2> QED BY <2>3, <2>4
  <1>6. CountersInv'
    BY <1>1, <1>5 DEF CountersInv, Consistent, Within
  <1>7. ASSUME NEW t \in DOMAIN gThreads
        PROVE  \/ /\ matches[t].found
                  /\ gThreads'[t].last = matches[t].face
               \/ /\ gThreads'[t].last = gThreads[t].last
                  /\ gThreads'[t].last.frame_id < frame
    <2>1. Consistent(gThreads[t], frame - 1)
      BY <1>1, <1>7 DEF TInv, CountersInv
    <2>2. gThreads[t].last.frame_id < frame
      BY <1>2, <1>7, <2>1, ThreadFields, FaceFields DEF Consistent, TInv, TypeOK
    <2> QED BY <1>1, <1>2, <1>7, <2>2, UpdatedHit, UpdatedMiss
  <1>8. OneThreadPerFace'
    <2> SUFFICES ASSUME NEW t \in DOMAIN gThreads, NEW u \in DOMAIN gThreads, t # u
                 PROVE  gThreads'[t].last # gThreads'[u].last
      BY <1>1 DEF OneThreadPerFace
    <2>1. /\ DOMAIN matches = DOMAIN gThreads
          /\ \A v \in DOMAIN gThreads : matches[v].found => matches[v].face.frame_id = frame
          /\ matches[t].found /\ matches[u].found => matches[t].face # matches[u].face
          /\ gThreads[t].last # gThreads[u].last
          /\ frame \in Nat
      BY <1>1 DEF TInv, TypeOK, MatchesInv, OneThreadPerFace
    <2> QED BY <1>7, <2>1
  <1>9. SeedsInv'
    <2>1. \A t \in DOMAIN gThreads : matches[t].found => matches[t].face \notin unmatched
      BY <1>1 DEF TInv, TypeOK, MatchesInv
    <2>2. \A g \in unmatched : g.frame_id = frame
      BY DEF TInv, FacesInv
    <2>3. frame \in Nat
      BY DEF TInv, TypeOK
    <2> QED BY <1>1, <1>7, <2>1, <2>2, <2>3 DEF SeedsInv, matchVars
  <1>10. RetiredInv' /\ FacesInv'
    BY <1>1 DEF TInv, RetiredInv, Consistent, Within, GivenUp, FacesInv, InInput, matchVars
  <1>11. MatchesInv' /\ BestInv' /\ MatchWithinReach' /\ DrawnIsFresh'
    BY <1>1 DEF MatchesInv, BestInv, MatchWithinReach, DrawnIsFresh
  <1> QED BY <1>1, <1>4, <1>6, <1>8, <1>9, <1>10, <1>11 DEF TInv

LEMMA DeleteStep ==
  ASSUME TInv, DeleteThreads
  PROVE  TInv'
  <1> DEFINE gone == {t \in DOMAIN gThreads : GivenUp(gThreads[t])}
  <1>1. /\ part = "delete" /\ part' = "seed"
        /\ DOMAIN retired' = gone
        /\ \A t \in gone : retired'[t] = gThreads[t]
        /\ DOMAIN gThreads' = DOMAIN gThreads \ gone
        /\ \A t \in DOMAIN gThreads' : gThreads'[t] = gThreads[t]
        /\ UNCHANGED <<frame, matchVars, nextThread, gFacesInCurrentFrame>>
    BY DEF DeleteThreads
  <1>2. TypeOK'
    BY <1>1 DEF TInv, TypeOK, matchVars
  <1>3. \A t \in DOMAIN gThreads \ gone : Within(gThreads[t], 0)
    <2> SUFFICES ASSUME NEW t \in DOMAIN gThreads, ~GivenUp(gThreads[t])
                 PROVE  Within(gThreads[t], 0)
      OBVIOUS
    <2>1. /\ gThreads[t].missedCount \in Nat
          /\ gThreads[t].consecutiveMissedCount \in Nat
      BY ThreadFields DEF TInv, TypeOK
    <2> QED BY <2>1, TrackerAssumption DEF GivenUp, Within
  <1>4. CountersInv'
    BY <1>1, <1>3 DEF TInv, CountersInv, Consistent, Within
  <1>5. RetiredInv'
    BY <1>1 DEF TInv, CountersInv, RetiredInv, Consistent, Within, GivenUp
  <1>6. SeedsInv' /\ OneThreadPerFace' /\ FacesInv'
    BY <1>1 DEF TInv, SeedsInv, OneThreadPerFace, FacesInv, InInput, matchVars
  <1>7. MatchesInv' /\ BestInv' /\ MatchWithinReach' /\ DrawnIsFresh'
    BY <1>1 DEF MatchesInv, BestInv, MatchWithinReach, DrawnIsFresh
  <1> QED BY <1>1, <1>2, <1>4, <1>5, <1>6, <1>7 DEF TInv

LEMMA SeedStep ==
  ASSUME TInv, NEW f \in unmatched, SeedThread(f)
  PROVE  TInv'
  <1>1. /\ part = "seed" /\ part' = "seed"
        /\ unmatched' = unmatched \ {f}
        /\ DOMAIN gThreads' = DOMAIN gThreads \cup {nextThread}
        /\ gThreads'[nextThread] = NewThread(f)
        /\ \A t \in DOMAIN gThreads \ {nextThread} : gThreads'[t] = gThreads[t]
        /\ nextThread' = nextThread + 1
        /\ UNCHANGED <<frame, input_faces, matches, toCompare, thInd, min_dist,
                       retired, gFacesInCurrentFrame>>
    BY DEF SeedThread
  <1>2. /\ f \in Face
        /\ nextThread \in Nat
        /\ DOMAIN gThreads \subseteq 1 .. nextThread - 1
        /\ nextThread \notin DOMAIN gThreads
    BY DEF TInv, TypeOK
  <1>3. NewThread(f) \in FDFaceThread
    BY <1>2, NewThreadType
  <1>4. DOMAIN gThreads' \subseteq 1 .. nextThread' - 1
    <2>1. nextThread # 0
      BY DEF TInv
    <2> QED BY <1>1, <1>2, <2>1
  <1>5. TypeOK'
    BY <1>1, <1>2, <1>3, <1>4 DEF TInv, TypeOK
  <1>6. Consistent(NewThread(f), frame) /\ Within(NewThread(f), 0)
    BY TrackerAssumption DEF TInv, TypeOK, FacesInv, NewThread, Consistent, Within
  <1>7. CountersInv'
    BY <1>1, <1>6 DEF TInv, CountersInv, Consistent, Within
  <1>8. NewThread(f).last = f
    BY DEF NewThread
  <1>9. SeedsInv' /\ OneThreadPerFace'
    BY <1>1, <1>8 DEF TInv, SeedsInv, OneThreadPerFace
  <1>10. RetiredInv' /\ FacesInv'
    BY <1>1 DEF TInv, RetiredInv, Consistent, Within, GivenUp, FacesInv, InInput
  <1>11. MatchesInv' /\ BestInv' /\ MatchWithinReach' /\ DrawnIsFresh'
    BY <1>1 DEF MatchesInv, BestInv, MatchWithinReach, DrawnIsFresh
  <1>12. nextThread' # 0
    BY <1>1, <1>2
  <1> QED BY <1>5, <1>7, <1>9, <1>10, <1>11, <1>12 DEF TInv

LEMMA OutputStep ==
  ASSUME TInv, Output
  PROVE  TInv'
  <1>1. /\ part = "seed" /\ part' = "detect"
        /\ gFacesInCurrentFrame' =
             {gThreads[t].last : t \in {u \in DOMAIN gThreads : Displayed(gThreads[u])}}
        /\ UNCHANGED <<frame, matchVars, gThreads, nextThread, retired>>
    BY DEF Output
  <1>2. \A g \in gFacesInCurrentFrame' :
          \E t \in DOMAIN gThreads : g = gThreads[t].last
    BY <1>1
  <1>3. \A t \in DOMAIN gThreads :
          /\ gThreads[t].last \in Face
          /\ frame - gThreads[t].last.frame_id <= MAX_ALLOWED_CONSECUTIVE_MISSES
    <2> SUFFICES ASSUME NEW t \in DOMAIN gThreads
                 PROVE  /\ gThreads[t].last \in Face
                        /\ frame - gThreads[t].last.frame_id <= MAX_ALLOWED_CONSECUTIVE_MISSES
      OBVIOUS
    <2>1. gThreads[t].last \in Face
      BY ThreadFields DEF TInv, TypeOK
    <2>2. Consistent(gThreads[t], frame) /\ Within(gThreads[t], 0)
      BY <1>1 DEF TInv, CountersInv
    <2> QED BY <2>1, <2>2, TrackerAssumption DEF Consistent, Within
  <1>4. gFacesInCurrentFrame' \subseteq Face
    BY <1>2, <1>3
  <1>5. TypeOK'
    BY <1>1, <1>4 DEF TInv, TypeOK, matchVars
  <1>6. DrawnIsFresh'
    BY <1>1, <1>2, <1>3 DEF DrawnIsFresh
  <1>7. CountersInv' /\ RetiredInv'
    BY <1>1 DEF TInv, CountersInv, Consistent, Within, RetiredInv, GivenUp
  <1>8. FacesInv' /\ OneThreadPerFace'
    BY <1>1 DEF TInv, FacesInv, InInput, OneThreadPerFace, matchVars
  <1>9. MatchesInv' /\ SeedsInv' /\ BestInv' /\ MatchWithinReach'
    BY <1>1 DEF MatchesInv, SeedsInv, BestInv, MatchWithinReach
  <1> QED BY <1>1, <1>5, <1>6, <1>7, <1>8, <1>9 DEF TInv

LEMMA EndStep ==
  ASSUME TInv, EndOfInput
  PROVE  TInv'
  <1>1. /\ part = "detect" /\ part' = "ended"
        /\ UNCHANGED <<frame, matchVars, gThreads, nextThread, retired,
                       gFacesInCurrentFrame>>
    BY DEF EndOfInput
  <1>2. TypeOK'
    BY <1>1 DEF TInv, TypeOK, matchVars
  <1>3. CountersInv' /\ RetiredInv'
    BY <1>1 DEF TInv, CountersInv, Consistent, Within, RetiredInv, GivenUp
  <1>4. FacesInv' /\ OneThreadPerFace'
    BY <1>1 DEF TInv, FacesInv, InInput, OneThreadPerFace, matchVars
  <1>5. MatchesInv' /\ SeedsInv' /\ BestInv' /\ MatchWithinReach' /\ DrawnIsFresh'
    BY <1>1 DEF MatchesInv, SeedsInv, BestInv, MatchWithinReach, DrawnIsFresh
  <1> QED BY <1>1, <1>2, <1>3, <1>4, <1>5 DEF TInv

LEMMA StutterStep ==
  ASSUME TInv, UNCHANGED vars
  PROVE  TInv'
  <1> USE DEF vars, matchVars
  <1>1. TypeOK'
    BY DEF TInv, TypeOK
  <1>2. CountersInv' /\ RetiredInv'
    BY DEF TInv, CountersInv, Consistent, Within, RetiredInv, GivenUp
  <1>3. FacesInv' /\ MatchesInv' /\ SeedsInv'
    BY DEF TInv, FacesInv, InInput, MatchesInv, SeedsInv
  <1>4. BestInv'
    BY DEF TInv, BestInv, Distance
  <1>5. OneThreadPerFace' /\ MatchWithinReach' /\ DrawnIsFresh'
    BY DEF TInv, OneThreadPerFace, MatchWithinReach, DrawnIsFresh
  <1> QED BY <1>1, <1>2, <1>3, <1>4, <1>5 DEF TInv

LEMMA InductiveTracker == Spec => []TInv
  <1>1. ASSUME TInv, [Next]_vars PROVE TInv'
    <2>1. CASE Detect
      BY <1>1, <2>1, DetectStep
    <2>2. CASE \E t \in toCompare : CompareThread(t)
      BY <1>1, <2>2, CompareStep
    <2>3. CASE AssignFace
      BY <1>1, <2>3, AssignStep
    <2>4. CASE UpdateThreads
      BY <1>1, <2>4, UpdateStep
    <2>5. CASE DeleteThreads
      BY <1>1, <2>5, DeleteStep
    <2>6. CASE \E f \in unmatched : SeedThread(f)
      BY <1>1, <2>6, SeedStep
    <2>7. CASE Output
      BY <1>1, <2>7, OutputStep
    <2>8. CASE EndOfInput
      BY <1>1, <2>8, EndStep
    <2>9. CASE Ended \/ UNCHANGED vars
      BY <1>1, <2>9, StutterStep DEF Ended
    <2> QED
      BY <1>1, <2>1, <2>2, <2>3, <2>4, <2>5, <2>6, <2>7, <2>8, <2>9 DEF Next
  <1> QED BY <1>1, TInit, PTL DEF Spec

-----------------------------------------------------------------------------
\* The type of every variable.
THEOREM TrackerTypes == Spec => []TypeOK
  <1>1. TInv => TypeOK
    BY DEF TInv
  <1> QED BY <1>1, InductiveTracker, PTL

\* No face ends two threads, however the faces compete for them.
THEOREM FacesApart == Spec => []OneThreadPerFace
  <1>1. TInv => OneThreadPerFace
    BY DEF TInv
  <1> QED BY <1>1, InductiveTracker, PTL

\* A face joins a thread only from within DIST_THRESH of its last face.
THEOREM WithinReach == Spec => []MatchWithinReach
  <1>1. TInv => MatchWithinReach
    BY DEF TInv
  <1> QED BY <1>1, InductiveTracker, PTL

\* The four counters of a thread agree, whatever hits and misses it had.
THEOREM CountersAgree == Spec => []CountersConsistent
  <1>1. TInv => CountersConsistent
    <2> SUFFICES ASSUME TInv, part = "detect", NEW t \in DOMAIN gThreads
                 PROVE  Consistent(gThreads[t], frame) /\ Within(gThreads[t], 0)
                        /\ gThreads[t] \in FDFaceThread
      BY ThreadFields, TrackerAssumption DEF CountersConsistent, Consistent, Within
    <2> QED BY DEF TInv, TypeOK, CountersInv
  <1> QED BY <1>1, InductiveTracker, PTL

\* A saved thread was out of sight for one frame more than allowed: it was not
\* its balance of misses that ended it.
THEOREM SavedLost == Spec => []SavedWereLost
  <1>1. TInv => SavedWereLost
    <2> SUFFICES ASSUME TInv, NEW t \in DOMAIN retired, WorthSaving(retired[t])
                 PROVE  frame - retired[t].last.frame_id =
                          MAX_ALLOWED_CONSECUTIVE_MISSES + 1
      BY DEF SavedWereLost
    <2>1. /\ retired[t].missedCount \in Nat
          /\ retired[t].consecutiveMissedCount \in Nat
          /\ retired[t].last.frame_id \in Nat
          /\ frame \in Nat
      BY ThreadFields, FaceFields DEF TInv, TypeOK
    <2>2. Consistent(retired[t], frame) /\ Within(retired[t], 1) /\ GivenUp(retired[t])
      BY DEF TInv, RetiredInv
    <2> QED
      BY <2>1, <2>2, TrackerAssumption DEF WorthSaving, Consistent, Within, GivenUp
  <1> QED BY <1>1, InductiveTracker, PTL

\* What is drawn was seen within the allowed run of misses.
THEOREM DrawnFresh == Spec => []DrawnIsFresh
  <1>1. TInv => DrawnIsFresh
    BY DEF TInv
  <1> QED BY <1>1, InductiveTracker, PTL

-----------------------------------------------------------------------------
(* Implementing FaceThreads: its stage and last in the terms of this module *)

Stage == CASE part = "match"              -> "matching"
           [] part \in {"delete", "seed"} -> "settling"
           [] OTHER                       -> "done"

Last == [t \in DOMAIN gThreads |-> gThreads[t].last.frame_id]

LEMMA ThreadsInit == Init => Threads!Init
  BY DEF Init, Threads!Init

\* A thread is given up only if the newest frame added a miss.
LEMMA GivenUpBehind ==
  ASSUME TInv, part = "delete", NEW t \in DOMAIN gThreads, GivenUp(gThreads[t])
  PROVE  gThreads[t].last.frame_id < frame
  <1>1. /\ gThreads[t].missedCount \in Nat
        /\ gThreads[t].consecutiveMissedCount \in Nat
        /\ gThreads[t].last.frame_id \in Nat
        /\ frame \in Nat
    BY ThreadFields, FaceFields DEF TInv, TypeOK
  <1>2. /\ Consistent(gThreads[t], frame)
        /\ gThreads[t].consecutiveMissedCount = 0 => Within(gThreads[t], 0)
    BY DEF TInv, CountersInv
  <1> QED BY <1>1, <1>2, TrackerAssumption DEF Consistent, Within, GivenUp

LEMMA ThreadsStep ==
  ASSUME TInv, [Next]_vars
  PROVE  Threads!Next \/ UNCHANGED <<frame, Stage, Last>>
  <1>1. CASE Detect
    <2>1. frame' = frame + 1 /\ UNCHANGED gThreads /\ Stage = "done" /\ Stage' = "matching"
      BY <1>1 DEF Detect, Stage
    <2> QED BY <2>1 DEF Threads!Next, Threads!Capture, Stage, Last
  <1>2. CASE (\E t \in toCompare : CompareThread(t)) \/ AssignFace
    BY <1>2 DEF CompareThread, AssignFace, Stage, Last
  <1>3. CASE UpdateThreads
    <2>1. /\ Stage = "matching" /\ Stage' = "settling" /\ UNCHANGED frame
          /\ DOMAIN gThreads' = DOMAIN gThreads
      BY <1>3 DEF UpdateThreads, Stage
    <2>2. \A t \in DOMAIN gThreads :
            gThreads'[t].last.frame_id \in {gThreads[t].last.frame_id, frame}
      <3> SUFFICES ASSUME NEW t \in DOMAIN gThreads
                   PROVE  gThreads'[t].last.frame_id \in {gThreads[t].last.frame_id, frame}
        OBVIOUS
      <3>1. /\ gThreads[t] \in FDFaceThread /\ matches[t] \in Matching
            /\ gThreads'[t] = Updated(gThreads[t], matches[t])
            /\ matches[t].found => matches[t].face.frame_id = frame
        BY <1>3 DEF UpdateThreads, TInv, TypeOK, MatchesInv
      <3> QED BY <3>1, UpdatedHit, UpdatedMiss
    <2>3. /\ DOMAIN Last = DOMAIN gThreads /\ DOMAIN Last' = DOMAIN gThreads
          /\ \A t \in DOMAIN gThreads : Last'[t] \in {Last[t], frame}
      BY <2>1, <2>2 DEF Last
    <2> QED BY <2>1, <2>3 DEF Threads!Next, Threads!Continue, Stage, Last
  <1>4. CASE DeleteThreads
    <2>1. /\ Stage = "settling" /\ UNCHANGED <<frame, Stage>>
          /\ part = "delete"
          /\ DOMAIN gThreads' = {t \in DOMAIN gThreads : ~GivenUp(gThreads[t])}
          /\ \A t \in DOMAIN gThreads' : gThreads'[t] = gThreads[t]
      BY <1>4 DEF DeleteThreads, Stage
    <2>2. /\ DOMAIN Last' \subseteq DOMAIN Last
          /\ \A t \in DOMAIN Last' : Last'[t] = Last[t]
      BY <2>1 DEF Last
    <2>3. \A t \in DOMAIN Last \ DOMAIN Last' : Last[t] < frame
      BY <2>1, GivenUpBehind DEF Last
    <2> QED BY <2>1, <2>2, <2>3 DEF Threads!Next, Threads!Retire, Stage, Last
  <1>5. CASE \E f \in unmatched : SeedThread(f)
    <2> PICK f \in unmatched : SeedThread(f)
      BY <1>5
    <2>1. /\ Stage = "settling" /\ Stage' = "settling" /\ UNCHANGED frame
          /\ DOMAIN gThreads' = DOMAIN gThreads \cup {nextThread}
          /\ gThreads'[nextThread] = NewThread(f)
          /\ \A t \in DOMAIN gThreads \ {nextThread} : gThreads'[t] = gThreads[t]
      BY DEF SeedThread, Stage
    <2>2. nextThread \notin DOMAIN gThreads
      BY DEF TInv, TypeOK
    <2>3. NewThread(f).last.frame_id = frame
      BY DEF NewThread, TInv, FacesInv
    <2>4. /\ DOMAIN Last \subseteq DOMAIN Last'
          /\ \A t \in DOMAIN Last : Last'[t] = Last[t]
          /\ \A t \in DOMAIN Last' \ DOMAIN Last : Last'[t] = frame
      BY <2>1, <2>2, <2>3 DEF Last
    <2> QED BY <2>1, <2>4 DEF Threads!Next, Threads!Start, Stage, Last
  <1>6. CASE Output
    <2>1. Stage = "settling" /\ Stage' = "done" /\ UNCHANGED <<frame, gThreads>>
      BY <1>6 DEF Output, Stage
    <2>2. Last' = Last
      BY <2>1 DEF Last
    <2> QED BY <2>1, <2>2 DEF Threads!Next, Threads!Start, Stage, Last
  <1>7. CASE EndOfInput
    BY <1>7 DEF EndOfInput, Stage, Last
  <1>8. CASE Ended \/ UNCHANGED vars
    BY <1>8 DEF Ended, vars, Stage, Last
  <1> QED
    BY <1>1, <1>2, <1>3, <1>4, <1>5, <1>6, <1>7, <1>8 DEF Next

\* processThreads2 continues, retires and starts face threads as FaceThreads
\* says, for all rectangles and thresholds.  FaceHistory leaves open what these
\* rules decide, and implements FaceThreads too.
THEOREM TrackerImplements == Spec => ThreadsSpec
  <1>1. ASSUME TInv, [Next]_vars PROVE [Threads!Next]_(Threads!vars)
    BY <1>1, ThreadsStep DEF Threads!vars, Stage, Last
  <1> QED
    BY <1>1, ThreadsInit, InductiveTracker, PTL DEF Spec, ThreadsSpec, Threads!Spec
=============================================================================
