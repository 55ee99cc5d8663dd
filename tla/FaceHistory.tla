---------------------------- MODULE FaceHistory ----------------------------
(***************************************************************************)
(* The frame history of the detector (Detector/FaceProcessor.cpp) and the  *)
(* three kinds of CPU threads that share it:                               *)
(*                                                                         *)
(*   main     FdProcessFaces: pushes every captured frame on gHistory,     *)
(*            extends, retires and creates face threads (FDFaceThread);    *)
(*   pruner   pruneHistory: one endless loop that releases old frames;     *)
(*   savers   saveAndDeleteThread: one CPU thread per retired face thread, *)
(*            walking gHistory to write an image and two videos.           *)
(*                                                                         *)
(* A critical section (gThreadsCS, gHistoryCS) is one action; no section   *)
(* nests another on a different lock.  Reads and writes the code makes     *)
(* outside any lock are actions of their own.                              *)
(*                                                                         *)
(* Abstracted: the pixels and rectangles (a face is the frame id it was    *)
(* seen in), which face matches which thread and which missing thread is   *)
(* retired (any choice; module FaceTracker models the rules), and file     *)
(* names.  A list iterator into gHistory is the frame id of its node.      *)
(***************************************************************************)
EXTENDS Integers, Sequences, FiniteSets

CONSTANTS
  Slot,                             \* list nodes that can hold an FDFaceThread
  MIN_LIST_SIZE,                    \* the pruner keeps this many entries
  MAX_THREAD_HISTORY_SIZE,          \* faces kept by pruneFacesList
  PRUNE_FACES_INTERVAL,             \* main trims every so many frames
  MIN_FRAMES_FOR_VIDEO,
  MAX_JPG_IMAGES_SAVED_PER_THREAD,
  MaxFrames,                        \* bound: frames captured in a behaviour
  StallBound                        \* frames main may add in one prune pass

ASSUME ConstantsAssumption ==
  /\ MIN_LIST_SIZE \in Nat \ {0}
  /\ MAX_THREAD_HISTORY_SIZE \in Nat \ {0}
  /\ PRUNE_FACES_INTERVAL \in Nat \ {0}
  /\ MIN_FRAMES_FOR_VIDEO \in Nat
  /\ MAX_JPG_IMAGES_SAVED_PER_THREAD \in Nat
  /\ MaxFrames \in Nat
  /\ StallBound \in Nat

VARIABLES
  gHistory,       \* frame ids of the history entries, oldest first
  frame,          \* processed_frame_counter
  gThreads,       \* slots of the face threads being tracked
  gThreads_beingSerialized, \* slots of the face threads owned by a saver
  pFaces,         \* _pFaces of each slot: frame ids, oldest first
  mainPc,         \* where main is in FdProcessFaces
  missed,         \* tracked threads without a face in the current frame
  prunePc,        \* where the pruner is
  listSize,       \* list_size, a local of pruneHistory
  minFrameToKeep, \* local of pruneHistory; NoFrame stands for "erase it all"
  lag,            \* frames main has added since the snapshot of this pass
  savePc,         \* where the saver of each slot is; "idle": none is wanted,
                  \* "unserved": there should be one, but CreateThread failed
  pass,           \* which output the saver is producing
  itr,            \* history_itr of the saver: a frame id, or End
  face,           \* faces_itr of the saver: an index in Visit(t)
  saved           \* image_num_saved of the saver

mainVars  == <<frame, mainPc, missed>>
pruneVars == <<prunePc, listSize, minFrameToKeep>>
saveVars  == <<savePc, pass, itr, face, saved>>
vars == <<gHistory, gThreads, gThreads_beingSerialized, pFaces, lag,
          mainVars, pruneVars, saveVars>>

NoFrame == -1       \* what getMinFrameToKeep returns when no thread is alive
End     == 0        \* gHistory.end(): no entry has this id

Live == gThreads \cup gThreads_beingSerialized

Stored == {gHistory[i] : i \in DOMAIN gHistory}

(***************************************************************************)
(* pruneFacesList: pop_front until at most MAX_THREAD_HISTORY_SIZE remain. *)
(* (Mutant: pop_back.)                                                     *)
(***************************************************************************)
PruneFacesListBack(s) ==
  IF Len(s) > MAX_THREAD_HISTORY_SIZE
  THEN SubSeq(s, 1, MAX_THREAD_HISTORY_SIZE)
  ELSE s
PruneFacesList(s) ==
  IF Len(s) > MAX_THREAD_HISTORY_SIZE
  THEN SubSeq(s, Len(s) - MAX_THREAD_HISTORY_SIZE + 1, Len(s))
  ELSE s

-----------------------------------------------------------------------------
(* The main thread *)

\* addToHistory, called first by FdProcessFaces.  StallBound is no code: it
\* bounds how long the scheduler may keep the pruner inside one pass.
AddToHistory ==
  /\ mainPc = "capture"
  /\ frame < MaxFrames
  /\ prunePc = "cut" => lag < StallBound
  /\ frame' = frame + 1
  /\ gHistory' = Append(gHistory, frame')
  /\ lag' = IF prunePc = "cut" THEN lag + 1 ELSE lag
  /\ mainPc' = "match"
  /\ UNCHANGED <<gThreads, gThreads_beingSerialized, pFaces, missed,
                 pruneVars, saveVars>>

\* Parts 1 and 2 of processThreads2, which hold no lock: some tracked threads
\* get a face of this frame, the others count a miss.
MatchFaces ==
  /\ mainPc = "match"
  /\ \E hit \in SUBSET gThreads :
       /\ pFaces' = [t \in Slot |-> IF t \in hit THEN Append(pFaces[t], frame)
                                                 ELSE pFaces[t]]
       /\ missed' = gThreads \ hit
  /\ mainPc' = "delete"
  /\ UNCHANGED <<gHistory, frame, gThreads, gThreads_beingSerialized, lag,
                 pruneVars, saveVars>>

\* deleteThread: hand one face thread that missed to a new CPU thread.  When
\* CreateThread fails, the release build goes on: no saver will ever serve the
\* face thread.  (Mutant: the loop of processThreads2 does not step past it.)
DeleteThreadAgain(t) ==
  /\ mainPc = "delete"
  /\ t \in missed
  /\ gThreads' = gThreads \ {t}
  /\ gThreads_beingSerialized' = gThreads_beingSerialized \cup {t}
  /\ \E pc \in {"trim", "unserved"} : savePc' = [savePc EXCEPT ![t] = pc]
  /\ UNCHANGED <<gHistory, frame, pFaces, missed, mainPc, lag, pruneVars,
                 pass, itr, face, saved>>
DeleteThread(t) ==
  /\ mainPc = "delete"
  /\ t \in missed
  /\ missed' = missed \ {t}
  /\ gThreads' = gThreads \ {t}
  /\ gThreads_beingSerialized' = gThreads_beingSerialized \cup {t}
  /\ \E pc \in {"trim", "unserved"} : savePc' = [savePc EXCEPT ![t] = pc]
  /\ UNCHANGED <<gHistory, frame, pFaces, mainPc, lag, pruneVars,
                 pass, itr, face, saved>>

\* Part 3 of processThreads2: every unmatched face seeds a face thread.
SeedThreads ==
  /\ mainPc = "delete"
  /\ \E new \in SUBSET (Slot \ Live) :
       /\ gThreads' = gThreads \cup new
       /\ pFaces' = [t \in Slot |-> IF t \in new THEN <<frame>> ELSE pFaces[t]]
  /\ missed' = {}
  /\ mainPc' = IF frame % PRUNE_FACES_INTERVAL = 0 THEN "trim" ELSE "capture"
  /\ UNCHANGED <<gHistory, frame, gThreads_beingSerialized, lag,
                 pruneVars, saveVars>>

\* Step 3 of FdProcessFaces: trim every tracked thread under gThreadsCS.
TrimThreads ==
  /\ mainPc = "trim"
  /\ pFaces' = [t \in Slot |-> IF t \in gThreads THEN PruneFacesList(pFaces[t])
                                                 ELSE pFaces[t]]
  /\ mainPc' = "capture"
  /\ UNCHANGED <<gHistory, frame, gThreads, gThreads_beingSerialized, missed,
                 lag, pruneVars, saveVars>>

\* captureVideoFrame fails or ESC is pressed: the input loop ends.
EndOfInput ==
  /\ mainPc = "capture"
  /\ mainPc' = "ended"
  /\ UNCHANGED <<gHistory, frame, gThreads, gThreads_beingSerialized, pFaces,
                 missed, lag, pruneVars, saveVars>>

\* After a key press and the playback (module Playback), main calls exit and
\* takes every other CPU thread down with it.
ExitProgram ==
  /\ mainPc = "ended"
  /\ mainPc' = "exited"
  /\ UNCHANGED <<gHistory, frame, gThreads, gThreads_beingSerialized, pFaces,
                 missed, lag, pruneVars, saveVars>>

Running == mainPc # "exited"

-----------------------------------------------------------------------------
(* The pruner *)

\* First loop of pruneHistory: wait for a list longer than MIN_LIST_SIZE.
PruneWait ==
  /\ prunePc = "wait"
  /\ listSize' = Len(gHistory)
  /\ prunePc' = IF listSize' <= MIN_LIST_SIZE THEN "wait" ELSE "snapshot"
  /\ UNCHANGED <<gHistory, gThreads, gThreads_beingSerialized, pFaces, lag,
                 minFrameToKeep, mainVars, saveVars>>

\* The fronts that getMinFrameToKeep looks at.  (Mutant: only the tracked
\* threads, forgetting those a saver is still working on.)
TrackedFronts == {Head(pFaces[t]) : t \in gThreads}
FrontsToKeep == {Head(pFaces[t]) : t \in Live}

\* getMinFrameToKeep, under gThreadsCS: the oldest front of all face threads.
PruneSnapshot ==
  /\ prunePc = "snapshot"
  /\ \/ /\ FrontsToKeep = {}
        /\ minFrameToKeep' = NoFrame
     \/ /\ minFrameToKeep' \in FrontsToKeep
        /\ \A f \in FrontsToKeep : minFrameToKeep' <= f
  /\ prunePc' = "cut"
  /\ UNCHANGED <<gHistory, gThreads, gThreads_beingSerialized, pFaces, lag,
                 listSize, mainVars, saveVars>>

\* The condition of the inner loop of pruneHistory; itr is gHistory.begin().
\* (Mutants: one of the two conditions forgotten.)
MayEraseNewest == minFrameToKeep = NoFrame \/ Head(gHistory) < minFrameToKeep
MayEraseNeeded == listSize > MIN_LIST_SIZE
MayErase ==
  /\ minFrameToKeep = NoFrame \/ Head(gHistory) < minFrameToKeep
  /\ listSize > MIN_LIST_SIZE

\* One iteration of the inner loop: release the oldest frame.
PruneErase ==
  /\ prunePc = "cut"
  /\ MayErase
  /\ gHistory' = Tail(gHistory)
  /\ listSize' = Len(gHistory')
  /\ UNCHANGED <<gThreads, gThreads_beingSerialized, pFaces, lag, prunePc,
                 minFrameToKeep, mainVars, saveVars>>

\* The pass is over: sleep PRUNE_HISTORY_EVERY_MS.
PruneSleep ==
  /\ prunePc = "cut"
  /\ ~MayErase
  /\ prunePc' = "sleep"
  /\ lag' = 0
  /\ UNCHANGED <<gHistory, gThreads, gThreads_beingSerialized, pFaces,
                 listSize, minFrameToKeep, mainVars, saveVars>>

\* Wake up and read the size again.  (Mutant: the size is not read again.)
PruneWakeBlind ==
  /\ prunePc = "sleep"
  /\ prunePc' = "snapshot"
  /\ UNCHANGED <<gHistory, gThreads, gThreads_beingSerialized, pFaces, lag,
                 listSize, minFrameToKeep, mainVars, saveVars>>
PruneWake ==
  /\ prunePc = "sleep"
  /\ listSize' = Len(gHistory)
  /\ prunePc' = "snapshot"
  /\ UNCHANGED <<gHistory, gThreads, gThreads_beingSerialized, pFaces, lag,
                 minFrameToKeep, mainVars, saveVars>>

-----------------------------------------------------------------------------
(* The saver of slot t *)

\* The faces a pass walks.  The smoothed video runs on a copy to which
\* addMissingFrames has added a face for every missing frame.
Visit(t) ==
  IF pass[t] = "smoothed"
  THEN [i \in 1 .. pFaces[t][Len(pFaces[t])] - Head(pFaces[t]) + 1 |->
          Head(pFaces[t]) + i - 1]
  ELSE pFaces[t]

\* The first entry of gHistory not older than frame f.  (Mutant: newer than.)
FirstAfter(f) ==
  LET later == {g \in Stored : g > f}
  IN IF later = {} THEN End ELSE CHOOSE g \in later : \A h \in later : g <= h
FirstFrom(f) ==
  LET later == {g \in Stored : g >= f}
  IN IF later = {} THEN End ELSE CHOOSE g \in later : \A h \in later : g <= h

\* saveThreadImages or saveThreadVideo returns: its locals are gone.
Return(t, pc) ==
  /\ savePc' = [savePc EXCEPT ![t] = pc]
  /\ itr' = [itr EXCEPT ![t] = End]
  /\ face' = [face EXCEPT ![t] = 1]
  /\ saved' = [saved EXCEPT ![t] = 0]

\* Go on to the next output: an image, a video, a smoothed video, the end.
NextPass(t) ==
  /\ Return(t, IF pass[t] = "smoothed" THEN "finish" ELSE "seek")
  /\ pass' = [pass EXCEPT ![t] =
                IF pass[t] = "image" THEN "video" ELSE "smoothed"]

\* Trim the list under gThreadsCS, then decide whether it is worth saving.
SaverTrim(t) ==
  /\ savePc[t] = "trim"
  /\ pFaces' = [pFaces EXCEPT ![t] = PruneFacesList(pFaces[t])]
  /\ pass' = [pass EXCEPT ![t] = "image"]
  /\ \E next \in {"seek", "finish"} : savePc' = [savePc EXCEPT ![t] = next]
  /\ UNCHANGED <<gHistory, gThreads, gThreads_beingSerialized, lag, itr, face,
                 saved, mainVars, pruneVars>>

\* saveThreadVideo returns at once when the thread has too few faces.
TooShort(t) == pass[t] # "image" /\ Len(pFaces[t]) < MIN_FRAMES_FOR_VIDEO

SaverSkip(t) ==
  /\ savePc[t] = "seek"
  /\ TooShort(t)
  /\ NextPass(t)
  /\ UNCHANGED <<gHistory, gThreads, gThreads_beingSerialized, pFaces, lag,
                 mainVars, pruneVars>>

\* Under gHistoryCS, find the first entry not older than the first face; then
\* a video pass may fail to open its writer.
SaverSeek(t) ==
  /\ savePc[t] = "seek"
  /\ ~TooShort(t)
  /\ \/ /\ savePc' = [savePc EXCEPT ![t] = "walk"]
        /\ itr' = [itr EXCEPT ![t] = FirstFrom(Head(Visit(t)))]
        /\ UNCHANGED <<pass, face, saved>>
     \/ /\ pass[t] # "image"
        /\ NextPass(t)
  /\ UNCHANGED <<gHistory, gThreads, gThreads_beingSerialized, pFaces, lag,
                 mainVars, pruneVars>>

\* Loop iteration on an entry without a face: only ++history_itr, unlocked.
SaverPass(t) ==
  /\ savePc[t] = "walk"
  /\ face[t] <= Len(Visit(t))
  /\ itr[t] < Visit(t)[face[t]]
  /\ itr' = [itr EXCEPT ![t] = FirstFrom(@ + 1)]
  /\ UNCHANGED <<gHistory, gThreads, gThreads_beingSerialized, pFaces, lag,
                 savePc, pass, face, saved, mainVars, pruneVars>>

\* Loop iteration on an entry with a face: write it under gHistoryCS.  ok is
\* the result of cvSaveImage or cvWriteFrame.  A video pass aborts on failure,
\* an image pass returns once it has saved enough.
SaverWrite(t) ==
  /\ savePc[t] = "walk"
  /\ face[t] <= Len(Visit(t))
  /\ itr[t] >= Visit(t)[face[t]]
  /\ \E ok \in BOOLEAN :
       LET counts == ok /\ pass[t] = "image"
           enough == counts /\ saved[t] + 1 = MAX_JPG_IMAGES_SAVED_PER_THREAD
       IN \/ /\ enough
             /\ Return(t, "register")
             /\ UNCHANGED pass
          \/ /\ pass[t] # "image" /\ ~ok
             /\ NextPass(t)
          \/ /\ ~enough
             /\ pass[t] = "image" \/ ok
             /\ saved' = [saved EXCEPT ![t] = IF counts THEN @ + 1 ELSE @]
             /\ face' = [face EXCEPT ![t] = @ + 1]
             /\ itr' = [itr EXCEPT ![t] = FirstFrom(@ + 1)]
             /\ UNCHANGED <<savePc, pass>>
  /\ UNCHANGED <<gHistory, gThreads, gThreads_beingSerialized, pFaces, lag,
                 mainVars, pruneVars>>

\* Every face was visited: a video is complete, an image pass succeeds if it
\* saved any image.  (Mutant: a pass without an image never returns.)
SaverEndWalkSaved(t) ==
  /\ savePc[t] = "walk"
  /\ face[t] > Len(Visit(t))
  /\ pass[t] = "image" => saved[t] > 0
  /\ Return(t, "register")
  /\ UNCHANGED <<gHistory, gThreads, gThreads_beingSerialized, pFaces, lag,
                 pass, mainVars, pruneVars>>
SaverEndWalk(t) ==
  /\ savePc[t] = "walk"
  /\ face[t] > Len(Visit(t))
  /\ \/ /\ pass[t] = "image" => saved[t] > 0
        /\ Return(t, "register")
        /\ UNCHANGED pass
     \/ /\ pass[t] = "image" /\ saved[t] = 0
        /\ NextPass(t)
  /\ UNCHANGED <<gHistory, gThreads, gThreads_beingSerialized, pFaces, lag,
                 mainVars, pruneVars>>

\* registerOutputFile: a blocking HTTP request, made holding no lock.
SaverRegister(t) ==
  /\ savePc[t] = "register"
  /\ NextPass(t)
  /\ UNCHANGED <<gHistory, gThreads, gThreads_beingSerialized, pFaces, lag,
                 mainVars, pruneVars>>

\* deleteThreadFromgThreads_beingSerialized: the face thread is destroyed and
\* the CPU thread ends.
SaverFinish(t) ==
  /\ savePc[t] = "finish"
  /\ t \in gThreads_beingSerialized
  /\ gThreads_beingSerialized' = gThreads_beingSerialized \ {t}
  /\ pFaces' = [pFaces EXCEPT ![t] = <<>>]
  /\ pass' = [pass EXCEPT ![t] = "image"]
  /\ Return(t, "idle")
  /\ UNCHANGED <<gHistory, gThreads, lag, mainVars, pruneVars>>

-----------------------------------------------------------------------------
Init ==
  /\ gHistory = <<>>
  /\ frame = 0
  /\ gThreads = {}
  /\ gThreads_beingSerialized = {}
  /\ pFaces = [t \in Slot |-> <<>>]
  /\ mainPc = "capture"
  /\ missed = {}
  /\ prunePc = "wait"
  /\ listSize = 0
  /\ minFrameToKeep = NoFrame
  /\ lag = 0
  /\ savePc = [t \in Slot |-> "idle"]
  /\ pass = [t \in Slot |-> "image"]
  /\ itr = [t \in Slot |-> End]
  /\ face = [t \in Slot |-> 1]
  /\ saved = [t \in Slot |-> 0]

Main ==
  \/ AddToHistory
  \/ MatchFaces
  \/ \E t \in Slot : DeleteThread(t)
  \/ SeedThreads
  \/ TrimThreads
  \/ EndOfInput
  \/ ExitProgram

Pruner ==
  /\ Running
  /\ \/ PruneWait
     \/ PruneSnapshot
     \/ PruneErase
     \/ PruneSleep
     \/ PruneWake

Saver(t) ==
  /\ Running
  /\ \/ SaverTrim(t)
     \/ SaverSkip(t)
     \/ SaverSeek(t)
     \/ SaverPass(t)
     \/ SaverWrite(t)
     \/ SaverEndWalk(t)
     \/ SaverRegister(t)
     \/ SaverFinish(t)

\* The process is gone; nothing is left to happen.
Exited == ~Running /\ UNCHANGED vars

Next == Main \/ Pruner \/ (\E t \in Slot : Saver(t)) \/ Exited

Spec == Init /\ [][Next]_vars

-----------------------------------------------------------------------------
(* Safety *)

\* The type of every variable.
TypeOK ==
  /\ gHistory \in Seq(Nat)
  /\ frame \in Nat
  /\ gThreads \in SUBSET Slot
  /\ gThreads_beingSerialized \in SUBSET Slot
  /\ pFaces \in [Slot -> Seq(Nat)]
  /\ mainPc \in {"capture", "match", "delete", "trim", "ended", "exited"}
  /\ missed \in SUBSET gThreads
  /\ prunePc \in {"wait", "snapshot", "cut", "sleep"}
  /\ listSize \in Nat
  /\ minFrameToKeep \in Nat \cup {NoFrame}
  /\ lag \in Nat
  /\ savePc \in [Slot -> {"idle", "trim", "seek", "walk", "register", "finish",
                      "unserved"}]
  /\ pass \in [Slot -> {"image", "video", "smoothed"}]
  /\ itr \in [Slot -> Nat]
  /\ face \in [Slot -> Nat]
  /\ saved \in [Slot -> Nat]

\* Every frame in which a live face thread has a face is still in the history:
\* what getMinFrameToKeep and the pruner exist for.
RequiredFramesKept ==
  \A t \in Live : \A i \in DOMAIN pFaces[t] : pFaces[t][i] \in Stored

\* A saver's history iterator points at a live node, at or before the face it
\* is looking for (the comment of FaceProcessor.cpp:812 "pruneHistory can't
\* pass this point", and the assertions of lines 815, 816, 824, 828).
SaverIteratorsValid ==
  \A t \in Slot : savePc[t] = "walk" /\ face[t] <= Len(Visit(t)) =>
    /\ itr[t] \in Stored
    /\ itr[t] <= Visit(t)[face[t]]
    /\ Visit(t)[face[t]] \in Stored

\* The pruner never leaves fewer than MIN_LIST_SIZE entries, so its unlocked
\* begin() and the main thread's gHistory.back() denote entries that exist
\* (the assertion of line 616).
HistoryFloor ==
  /\ prunePc # "wait" => Len(gHistory) >= MIN_LIST_SIZE
  /\ frame > 0 => gHistory # <<>> /\ gHistory[Len(gHistory)] = frame

\* A face thread is tracked, or handed to exactly one saver, or gone; it is
\* never empty while the pruner may look at its front (lines 570, 578), and a
\* saver finds it in gThreads_beingSerialized at the end (line 726).
OwnershipExclusive ==
  /\ gThreads \cap gThreads_beingSerialized = {}
  /\ \A t \in Slot : savePc[t] # "idle" <=> t \in gThreads_beingSerialized
  /\ \A t \in Live : pFaces[t] # <<>>

\* A frame is claimed by the face threads that have a face in it.
Retention == INSTANCE FrameRetention WITH
  Claimant <- Slot,
  Keep     <- MIN_LIST_SIZE,
  newest   <- frame,
  stored   <- Stored,
  claims   <- [t \in Slot |-> IF t \in Live
                              THEN {pFaces[t][i] : i \in DOMAIN pFaces[t]}
                              ELSE {}]

\* The history implements FrameRetention: the pruner, working from a stale
\* minimum and without gThreadsCS, still discards only unclaimed frames.
RetentionSpec == Retention!Spec

\* Main's choices are those of FaceThreads.
Threads == INSTANCE FaceThreads WITH
  newest <- frame,
  stage  <- CASE mainPc = "match"  -> "matching"
              [] mainPc = "delete" -> "settling"
              [] OTHER             -> "done",
  last   <- [t \in gThreads |-> pFaces[t][Len(pFaces[t])]]

\* Main continues, retires and starts face threads as FaceThreads says: no
\* thread that has a face in the newest frame is handed to a saver, and the
\* trimming of face lists never takes the last face.
ThreadsSpec == Threads!Spec

-----------------------------------------------------------------------------
(* Liveness, under the fairness of PlayFairSpec in module Playback *)

\* The face threads that wait for a saver CreateThread failed to make.
Unserved == {t \in Slot : savePc[t] = "unserved"}

\* Every face thread that gets a saver is eventually destroyed, whatever image
\* or video could not be written, unless the process exits first.
SaversFinish ==
  \A t \in Slot : t \in gThreads_beingSerialized \ Unserved
                    ~> t \notin gThreads_beingSerialized \/ ~Running

\* Once input has ended, and until the key press that starts the playback, the
\* history is released down to MIN_LIST_SIZE entries, or to the oldest frame
\* needed by a face thread that is still tracked or will never be saved.
HistoryReclaimed ==
  mainPc = "ended" ~> \/ ~Running
                      \/ Len(gHistory) <= MIN_LIST_SIZE
                      \/ \E t \in gThreads \cup Unserved :
                           Head(pFaces[t]) = Head(gHistory)
=============================================================================
