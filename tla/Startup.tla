------------------------------- MODULE Startup -------------------------------
(***************************************************************************)
(* How the detector starts: initAll() (PlanetariumFD.cpp) with             *)
(* initConfiguration(), initCapture(), initFaceDet(), the first frame,     *)
(* createTracker() and FdInit(), which reads the tuning parameters of      *)
(* FaceProcessorConfig.h from face_detect.ini and starts the pruner.       *)
(*                                                                         *)
(* The ini file is a function from its keys to what stands at the key:     *)
(* nothing, an empty value, text that sscanf cannot parse, or a number.    *)
(* A path is a number too: only whether a value is the file's, the         *)
(* default or the initial one matters.  The camera, the cascade file, the  *)
(* first frame, the storage of FdInit and its thread may each fail.        *)
(***************************************************************************)
EXTENDS Integers, Sequences, FiniteSets

CONSTANTS Values,      \* the numbers an ini file may hold
          MAX_GIVEN    \* bound: how many keys an ini file of the model gives

ASSUME StartupAssumption == Values \subseteq Nat /\ MAX_GIVEN \in Nat

VARIABLES ini,      \* the file: key -> Absent, Empty, Unparsable or one of Values
          config,   \* parameter -> its value in the process
          next,     \* number of the next key of initConfig to be read
          pc,       \* where initAll is
          cascade,  \* is a classifier loaded? (pCascade)
          frame,    \* is there a frame copy? (pfd_pVideoFrameCopy)
          sections, \* have gThreadsCS and gHistoryCS been initialised?
          pruner    \* has the pruner thread been created?

\* What initAll makes, besides the configuration.
made == <<cascade, frame, sections, pruner>>

vars == <<ini, config, next, pc, made>>

-----------------------------------------------------------------------------
(* The keys that initConfig reads, in its order, each with the parameter   *)
(* it is read into.                                                        *)
Reads == <<[key |-> "OUTPUT_DIR", into |-> "OUTPUT_DIR"],
           [key |-> "MIN_FRAMES_FOR_VIDEO", into |-> "MIN_FRAMES_FOR_VIDEO"],
           [key |-> "FACE_VIDEO_SIZE", into |-> "FACE_VIDEO_SIZE"],
           [key |-> "MAX_JPG_IMAGES_SAVED_PER_THREAD", into |-> "MAX_JPG_IMAGES_SAVED_PER_THREAD"],
           [key |-> "FPS_SPEEDUP_FACTOR", into |-> "FPS_SPEEDUP_FACTOR"],
           [key |-> "INITIAL_FPS", into |-> "INITIAL_FPS"],
           [key |-> "SAMPLE_TIME_EVERY_X_FRAMES", into |-> "SAMPLE_TIME_EVERY_X_FRAMES"],
           [key |-> "PRUNE_FACES_INTERVAL", into |-> "PRUNE_FACES_INTERVAL"],
           [key |-> "MAX_ALLOWED_MISSED_COUNT", into |-> "MAX_ALLOWED_MISSED_COUNT"],
           [key |-> "MAX_ALLOWED_CONSECUTIVE_MISSES", into |-> "MAX_ALLOWED_CONSECUTIVE_MISSES"],
           [key |-> "DIST_THRESH", into |-> "DIST_THRESH"],
           [key |-> "VERY_CLOSE_DIST_THRESH", into |-> "DIST_THRESH"],
           [key |-> "MIN_FACE_OCCURENCES_THRESH", into |-> "MIN_FACE_OCCURENCES_THRESH"],
           [key |-> "VIDEO_OUTPUT_FORMAT", into |-> "VIDEO_OUTPUT_FORMAT"],
           [key |-> "PRUNE_HISTORY_EVERY_MS", into |-> "PRUNE_HISTORY_EVERY_MS"],
           [key |-> "MAX_THREAD_HISTORY_SIZE", into |-> "MAX_THREAD_HISTORY_SIZE"]>>

(* What can stand at a key besides one of Values. *)
Absent == -3
Empty == -4
Unparsable == -5

MainKeys == {"CAM_ID", "OPENCV_ROOT", "OUTPUT_PLAYBACK_VIDEOS_DIR"}
TuningKeys == {Reads[i].key : i \in DOMAIN Reads}
Keys == MainKeys \cup TuningKeys
PathKeys == {"OPENCV_ROOT", "OUTPUT_PLAYBACK_VIDEOS_DIR", "OUTPUT_DIR"}

(* What the process holds before it reads the file; a path not yet set is  *)
(* Unset, and CV_CAP_ANY and CV_FOURCC_DEFAULT are 0 here.                 *)
Unset == -1
InitialValue ==
  [key \in Keys |->
     CASE key \in PathKeys -> Unset
       [] key = "MIN_FRAMES_FOR_VIDEO" -> 12
       [] key = "FACE_VIDEO_SIZE" -> 150
       [] key \in {"MAX_JPG_IMAGES_SAVED_PER_THREAD", "FPS_SPEEDUP_FACTOR"} -> 1
       [] key = "INITIAL_FPS" -> 6
       [] key = "SAMPLE_TIME_EVERY_X_FRAMES" -> 71
       [] key = "PRUNE_FACES_INTERVAL" -> 31
       [] key = "MAX_ALLOWED_MISSED_COUNT" -> 10
       [] key \in {"MAX_ALLOWED_CONSECUTIVE_MISSES", "MIN_FACE_OCCURENCES_THRESH"} -> 3
       [] key = "DIST_THRESH" -> 100
       [] key = "VERY_CLOSE_DIST_THRESH" -> 25
       [] key = "PRUNE_HISTORY_EVERY_MS" -> 1000
       [] key = "MAX_THREAD_HISTORY_SIZE" -> 200
       [] OTHER -> 0]

(* The default each call passes, where it is not the initial value: three  *)
(* of them differ, a path's default is a text of its own, and the default  *)
(* of VERY_CLOSE_DIST_THRESH is computed from the DIST_THRESH in force.    *)
DefaultPath == -2
Default(key) ==
  CASE key \in PathKeys -> DefaultPath
    [] key = "FACE_VIDEO_SIZE" -> 200
    [] key = "INITIAL_FPS" -> 4
    [] key = "MIN_FACE_OCCURENCES_THRESH" -> 2
    [] key = "VERY_CLOSE_DIST_THRESH" -> config["DIST_THRESH"] \div 4
    [] OTHER -> InitialValue[key]

(* getIniValue: whether it found a value, and what the caller's variable   *)
(* holds after it.  A missing key gives a path its default and counts as   *)
(* found; an empty one leaves the path alone.  A number falls back on the  *)
(* default when it is missing, empty or not parsable.                      *)
Found(key) == IF key \in PathKeys THEN ini[key] # Empty ELSE ini[key] \in Values
ValueRead(key, old) ==
  IF key \in PathKeys
  THEN CASE ini[key] = Absent -> DefaultPath
         [] ini[key] = Empty -> old
         [] OTHER -> ini[key]
  ELSE IF Found(key) THEN ini[key] ELSE Default(key)

(* A slip kept for checking the properties: an absent number keeps what    *)
(* the parameter held instead of taking the default of the call.           *)
GetIniValueKeep(key, into) ==
  [config EXCEPT ![into] = IF Found(key) THEN ValueRead(key, @) ELSE @]
GetIniValue(key, into) == [config EXCEPT ![into] = ValueRead(key, @)]

-----------------------------------------------------------------------------
At(step) == pc = step
Goto(step) == pc' = step

(* exitProgram(-1): what has been allocated is released. *)
Fail == /\ Goto("exited")
        /\ UNCHANGED <<ini, config, next, made>>

(* initConfiguration: it gives up at the first value it cannot find, and   *)
(* initAll goes on either way.                                             *)
InitConfiguration ==
  LET camera == GetIniValue("CAM_ID", "CAM_ID")
      root == [camera EXCEPT !["OPENCV_ROOT"] = ValueRead("OPENCV_ROOT", @)]
      playback == [root EXCEPT !["OUTPUT_PLAYBACK_VIDEOS_DIR"] =
                     ValueRead("OUTPUT_PLAYBACK_VIDEOS_DIR", @)]
  IN /\ At("configuration")
     /\ config' = IF Found("OPENCV_ROOT") THEN playback ELSE root
     /\ Goto("capture")
     /\ UNCHANGED <<ini, next, made>>

InitCapture ==
  /\ At("capture")
  /\ \/ /\ Goto("face detector")
        /\ UNCHANGED <<ini, config, next, made>>
     \/ Fail

(* initFaceDet: the cascade is loaded from below OPENCV_ROOT, and is only  *)
(* there when the file names that place.                                   *)
InitFaceDetAnyway ==
  /\ At("face detector")
  /\ cascade' \in {FALSE, config["OPENCV_ROOT"] \in Values}
  /\ Goto("first frame")
  /\ UNCHANGED <<ini, config, next, frame, sections, pruner>>
InitFaceDet ==
  /\ At("face detector")
  /\ \/ /\ config["OPENCV_ROOT"] \in Values
        /\ cascade' = TRUE
        /\ Goto("first frame")
        /\ UNCHANGED <<ini, config, next, frame, sections, pruner>>
     \/ Fail

(* captureVideoFrame after the user has pressed ENTER: its result is not   *)
(* looked at.                                                              *)
FirstFrame ==
  /\ At("first frame")
  /\ frame' \in BOOLEAN
  /\ Goto("tracker")
  /\ UNCHANGED <<ini, config, next, cascade, sections, pruner>>

(* createTracker takes the size of the frame copy: without one OpenCV      *)
(* reports an error, which ends the process.                               *)
CreateTrackerAnyway ==
  /\ At("tracker")
  /\ Goto("parameters")
  /\ UNCHANGED <<ini, config, next, made>>
CreateTracker ==
  /\ At("tracker")
  /\ IF frame THEN Goto("parameters") ELSE Goto("exited")
  /\ UNCHANGED <<ini, config, next, made>>

(* One call of getIniValue in initConfig. *)
ReadParameter ==
  /\ At("parameters") /\ next \in DOMAIN Reads
  /\ config' = GetIniValue(Reads[next].key, Reads[next].into)
  /\ next' = next + 1
  /\ UNCHANGED <<ini, pc, made>>

(* FdInit after initConfig: without the storage it returns 0 before there   *)
(* are critical sections and a pruner, and initAll does not look at that.  *)
CreateSections ==
  /\ At("parameters") /\ next \notin DOMAIN Reads
  /\ \/ sections' = TRUE /\ Goto("pruner thread")
     \/ sections' = FALSE /\ Goto("running")
  /\ UNCHANGED <<ini, config, next, cascade, frame, pruner>>

(* CreateThread: only an assertion looks at its result, which ends a debug *)
(* build, and which a release build does not have.                         *)
CreatePruner ==
  /\ At("pruner thread")
  /\ \/ pruner' = TRUE /\ Goto("running")
     \/ pruner' = FALSE /\ \E build \in {"exited", "running"} : Goto(build)
  /\ UNCHANGED <<ini, config, next, cascade, frame, sections>>

(* The first turn of main's loop: without a frame it throws. *)
FirstTurn ==
  /\ At("running")
  /\ \E got \in BOOLEAN : Goto(IF got THEN "detecting" ELSE "exited")
  /\ UNCHANGED <<ini, config, next, made>>

(* The files of the model: an empty one, and those that give OPENCV_ROOT and *)
(* up to MAX_GIVEN - 1 other keys.  Any text is a path.                      *)
Given == {Empty, Unparsable} \cup Values
Files == {[key \in Keys |-> Absent]} \cup
         UNION {{[key \in Keys |-> IF key \in given THEN f[key] ELSE Absent] :
                   f \in {g \in [given -> Given] : \A key \in given \cap PathKeys : g[key] # Unparsable}} :
                given \in {s \in SUBSET Keys : Cardinality(s) <= MAX_GIVEN /\ "OPENCV_ROOT" \in s}}

Init == /\ ini \in Files
        /\ config = InitialValue
        /\ next = 1
        /\ pc = "configuration"
        /\ cascade = FALSE /\ frame = FALSE
        /\ sections = FALSE /\ pruner = FALSE

Finished == pc \in {"detecting", "exited"} /\ UNCHANGED vars

Next == \/ InitConfiguration \/ InitCapture \/ InitFaceDet \/ FirstFrame \/ CreateTracker
        \/ ReadParameter \/ CreateSections \/ CreatePruner \/ FirstTurn \/ Finished

Spec == Init /\ [][Next]_vars

-----------------------------------------------------------------------------
(* Once started, the value of a parameter is its own key's in the file, or *)
(* the default of the call that reads it.  The two distance thresholds are *)
(* looked at on their own below.  Code: initConfig and getIniValue.        *)
Thresholds == {"DIST_THRESH", "VERY_CLOSE_DIST_THRESH"}
OwnValue(key) ==
  CASE ini[key] \in Values -> config[key] = ini[key]
    [] key \in PathKeys /\ ini[key] = Empty -> config[key] = InitialValue[key]
    [] OTHER -> config[key] = Default(key)
ParametersFromOwnKeys == pc \in {"running", "detecting"} => \A key \in TuningKeys \ Thresholds : OwnValue(key)

(* Whatever failed on the way, and although the results of the first frame *)
(* and of FdInit are ignored: frames are searched for faces only when a    *)
(* classifier is loaded and the buffers of the tracker had a frame to take *)
(* their size from, and a pruner thread finds its critical sections        *)
(* initialised.  Code: initAll, FdInit and _tmain.                         *)
DetectsOnlyWhenReady ==
  /\ pc = "detecting" => cascade /\ frame
  /\ pruner => sections /\ cascade /\ frame

(* Both distance thresholds hold what the file says of them: face_detect.ini *)
(* documents DIST_THRESH = 100.0 and VERY_CLOSE_DIST_THRESH = 25.0 as two   *)
(* settings.  The code reads the second into the variable of the first.     *)
ThresholdsFromOwnKeys ==
  pc \in {"running", "detecting"} =>
    \A key \in Thresholds : ini[key] \in Values => config[key] = ini[key]
=============================================================================
