------------------------------ MODULE Playback ------------------------------
(***************************************************************************)
(* What main does once input has ended (Detector/PlanetariumFD.cpp): it    *)
(* waits for a key, walks gHistory once to find a consensus rectangle,     *)
(* sleeps three seconds and walks gHistory again to show and record every  *)
(* frame.  Both walks hold no lock, and the pruner and the savers of       *)
(* FaceHistory are still running: when the pruner erases the entry that    *)
(* main stands on, main uses a freed list node.  The behaviour of that is  *)
(* undefined, and all that the model says of main from then on is that it  *)
(* may end the program.                                                    *)
(*                                                                         *)
(* FaceHistory is extended by what only this part can see: the region of   *)
(* interest (ROI) a saver sets on a stored image while it holds            *)
(* gHistoryCS, and the face sequence of each history entry.                *)
(***************************************************************************)
EXTENDS FaceHistory

CONSTANT
  PLAYBACK_NAPS   \* naps of PRUNE_HISTORY_EVERY_MS that end while main sleeps

ASSUME PlaybackAssumption == PLAYBACK_NAPS \in Nat

VARIABLES
  playPc,     \* where main is in the playback
  playItr,    \* its history iterator
  playSize,   \* the size cvGetSize returned for the entry
  played,     \* the frames written to playback.avi
  naps,       \* naps of the pruner that ended since main went to sleep
  quiet,      \* has main gone to sleep with no saver running?
  roi,        \* the entry whose ROI is set, or NoFrame
  pFacesSeq,  \* the entries whose face sequence is not empty
  detected    \* were there faces in the current frame?

playVars  == <<playPc, playItr, playSize, played, naps, quiet>>
entryVars == <<roi, pFacesSeq, detected>>
allVars   == <<vars, playVars, entryVars>>

\* A saver that has set a ROI is inside a critical section of gHistoryCS.
HistoryUnlocked == roi = NoFrame

-----------------------------------------------------------------------------
(* The steps of FaceHistory *)

\* cvCloneSeq puts the detected faces in the entry.
Capture ==
  /\ HistoryUnlocked
  /\ AddToHistory
  /\ detected' \in BOOLEAN
  /\ pFacesSeq' = IF detected' THEN pFacesSeq \cup {frame'} ELSE pFacesSeq
  /\ UNCHANGED <<playVars, roi>>

\* Part 0 of processThreads2 pops every face off the sequence of the entry.
Process ==
  \/ /\ MatchFaces
     /\ detected \/ missed' = gThreads
     /\ pFacesSeq' = pFacesSeq \ {frame}
     /\ UNCHANGED <<playVars, roi, detected>>
  \/ /\ SeedThreads
     /\ detected \/ gThreads' = gThreads
     /\ UNCHANGED <<playVars, entryVars>>
  \/ /\ TrimThreads \/ EndOfInput \/ (\E t \in Slot : DeleteThread(t))
     /\ UNCHANGED <<playVars, entryVars>>

PrunerStep ==
  \/ /\ PruneSnapshot \/ PruneSleep \/ (HistoryUnlocked /\ PruneErase)
     /\ UNCHANGED <<playVars, entryVars>>
  \/ /\ HistoryUnlocked /\ (PruneWait \/ PruneWake)
     /\ naps' = IF naps < PLAYBACK_NAPS THEN naps + 1 ELSE naps
     /\ UNCHANGED <<playPc, playItr, playSize, played, quiet, entryVars>>

\* A saver locks gHistoryCS and sets the ROI of the image it will write.
SaverSetROI(t) ==
  /\ HistoryUnlocked
  /\ savePc[t] = "walk"
  /\ face[t] <= Len(Visit(t))
  /\ itr[t] >= Visit(t)[face[t]]
  /\ roi' = itr[t]
  /\ UNCHANGED <<vars, playVars, pFacesSeq, detected>>

\* It writes the image, resets the ROI and unlocks.
SaverUnlock(t) ==
  /\ roi = itr[t]
  /\ SaverWrite(t)
  /\ roi' = NoFrame
  /\ UNCHANGED <<playVars, pFacesSeq, detected>>

SaverStep(t) ==
  \/ SaverSetROI(t)
  \/ SaverUnlock(t)
  \/ /\ \/ SaverTrim(t) \/ SaverSkip(t) \/ SaverPass(t) \/ SaverEndWalk(t)
        \/ SaverRegister(t) \/ SaverFinish(t)
        \/ HistoryUnlocked /\ SaverSeek(t)
     /\ UNCHANGED <<playVars, entryVars>>

-----------------------------------------------------------------------------
(* The playback *)

\* gHistory.begin(), and ++itr from entry f.
Begin == IF gHistory = <<>> THEN End ELSE Head(gHistory)
Successor(f) == FirstFrom(f + 1)

\* A key is pressed and the video writer opens; else the program exits.
KeyPressed ==
  /\ mainPc = "ended"
  /\ playPc = "input"
  /\ \/ playPc' = "scan" /\ playItr' = Begin
     \/ playPc' = "exit" /\ UNCHANGED playItr
  /\ UNCHANGED <<vars, playSize, played, naps, quiet, entryVars>>

\* One iteration of the walk for the consensus rectangle.
Scan ==
  /\ playPc = "scan"
  /\ playItr \in Stored
  /\ playItr' = Successor(playItr)
  /\ UNCHANGED <<vars, playPc, playSize, played, naps, quiet, entryVars>>

\* Sleep(3000).
FallAsleep ==
  /\ playPc = "scan"
  /\ playItr = End
  /\ playPc' = "sleep"
  /\ naps' = 0
  /\ quiet' = (gThreads_beingSerialized = {})
  /\ UNCHANGED <<vars, playItr, playSize, played, entryVars>>

\* Main wakes after some naps of the pruner have ended.  (Mutant: no sleep.)
StartWalkAtOnce ==
  /\ playPc = "sleep"
  /\ playPc' = "size"
  /\ playItr' = Begin
  /\ UNCHANGED <<vars, playSize, played, naps, quiet, entryVars>>
StartWalk ==
  /\ playPc = "sleep"
  /\ naps = PLAYBACK_NAPS
  /\ playPc' = "size"
  /\ playItr' = Begin
  /\ UNCHANGED <<vars, playSize, played, naps, quiet, entryVars>>

\* cvGetSize returns the size of the ROI if one is set.
GetSize ==
  /\ playPc = "size"
  /\ playItr \in Stored
  /\ playSize' = IF playItr = roi THEN "roi" ELSE "full"
  /\ playPc' = "copy"
  /\ UNCHANGED <<vars, playItr, played, naps, quiet, entryVars>>

\* cvCopy of the entry, or of its ROI, into an image of that size: when they
\* differ OpenCV raises an error and the program ends.  Then the copy is shown
\* and written; ESC ends the loop.  (Mutant: the iterator is not advanced.)
CopyFrameStay ==
  /\ playPc = "copy"
  /\ playItr \in Stored
  /\ playPc' \in {"size", "exit"}
  /\ UNCHANGED <<vars, playItr, playSize, played, naps, quiet, entryVars>>
CopyFrame ==
  /\ playPc = "copy"
  /\ playItr \in Stored
  /\ IF (playSize = "roi") = (playItr = roi)
     THEN /\ played' = Append(played, playItr)
          /\ playItr' = Successor(playItr)
          /\ playPc' \in {"size", "exit"}
     ELSE /\ playPc' = "exit"
          /\ UNCHANGED <<played, playItr>>
  /\ UNCHANGED <<vars, playSize, naps, quiet, entryVars>>

WalkEnds ==
  /\ playPc = "size"
  /\ playItr = End
  /\ playPc' = "exit"
  /\ UNCHANGED <<vars, playItr, playSize, played, naps, quiet, entryVars>>

Exit ==
  /\ playPc = "exit"
  /\ ExitProgram
  /\ UNCHANGED <<playVars, entryVars>>

\* The iterator of a walk stands on an entry that has been erased.
Astray == playItr # End /\ playItr \notin Stored

\* The entry or its successor is read all the same; one that is erased while it
\* is read, or before ++itr, counts as erased before.
Stray ==
  /\ playPc \in {"scan", "size", "copy"}
  /\ Astray
  /\ playPc' = "lost"
  /\ UNCHANGED <<vars, playItr, playSize, played, naps, quiet, entryVars>>

\* One way it may end.
Crash ==
  /\ playPc = "lost"
  /\ ExitProgram
  /\ UNCHANGED <<playVars, entryVars>>

-----------------------------------------------------------------------------
PlayInit ==
  /\ Init
  /\ playPc = "input"
  /\ playItr = End
  /\ playSize = "full"
  /\ played = <<>>
  /\ naps = 0
  /\ quiet = FALSE
  /\ roi = NoFrame
  /\ pFacesSeq = {}
  /\ detected = FALSE

Playing ==
  \/ Scan
  \/ FallAsleep
  \/ StartWalk
  \/ GetSize
  \/ CopyFrame
  \/ WalkEnds
  \/ Stray
  \/ Exit

PlayNext ==
  \/ Capture
  \/ Process
  \/ Running /\ PrunerStep
  \/ \E t \in Slot : Running /\ SaverStep(t)
  \/ KeyPressed
  \/ Playing
  \/ Crash
  \/ Exited /\ UNCHANGED allVars

PlaySpec == PlayInit /\ [][PlayNext]_allVars

\* The operating system keeps running every CPU thread, and a request of
\* registerOutputFile is answered or fails in the end.  Nobody has to press a
\* key, and main need not capture another frame.
PlayFairSpec ==
  /\ PlaySpec
  /\ WF_allVars(Playing)
  /\ WF_allVars(Running /\ PrunerStep)
  /\ \A t \in Slot : WF_allVars(Running /\ SaverStep(t))

-----------------------------------------------------------------------------
(* Properties *)

\* The type of every variable.
PlayTypeOK ==
  /\ TypeOK
  /\ playPc \in {"input", "scan", "sleep", "size", "copy", "exit", "lost"}
  /\ playItr \in Nat
  /\ playSize \in {"full", "roi"}
  /\ played \in Seq(Nat)
  /\ naps \in 0 .. PLAYBACK_NAPS
  /\ quiet \in BOOLEAN
  /\ roi \in Nat \cup {NoFrame}
  /\ pFacesSeq \in SUBSET Nat
  /\ detected \in BOOLEAN

\* When no saver is running any more as main goes to sleep, the recording is
\* the history: every frame kept, once, in order and in full size, and the
\* unlocked iterator never strays from it.  It is the sleep of three seconds
\* that makes this true ("just to make sure that pruneHistory isn't
\* modifying..", PlanetariumFD.cpp:204).
QuietPlaybackComplete ==
  quiet =>
    /\ playPc # "lost"
    /\ playPc \in {"size", "copy"} =>
         /\ Len(played) <= Len(gHistory)
         /\ played = SubSeq(gHistory, 1, Len(played))
         /\ IF playItr = End THEN Len(played) = Len(gHistory)
                            ELSE gHistory[Len(played) + 1] = playItr
         /\ playPc = "copy" => playSize = "full"

\* A playback that has begun ends the program, unless main strays, and it ends
\* it for certain once main has gone to sleep with no saver running.
PlaybackEnds ==
  /\ playPc = "scan" ~> ~Running \/ playPc = "lost"
  /\ quiet ~> ~Running

\* "Playback history + rectangles" (PlanetariumFD.cpp:149): the entries in
\* which a face thread has a face still have their faces.
RectanglesPlayed ==
  playPc = "copy" =>
    \A t \in gThreads : \A i \in DOMAIN pFaces[t] :
      pFaces[t][i] = playItr => playItr \in pFacesSeq
=============================================================================
