---------------------------- MODULE SaverOutput ----------------------------
(***************************************************************************)
(* What the savers share besides the history: the counter that numbers     *)
(* their files (image_series_cnt, Detector/FaceProcessor.cpp), the frame   *)
(* rate of their videos, which main estimates (estimated_fps, the same     *)
(* file), and the lazily read address of the server (inited and            *)
(* SERVER_URL, Detector/RegisterOutput.cpp).  None is locked, so every     *)
(* read and every write of them is an action of its own.                   *)
(*                                                                         *)
(* Each saver makes an image, a video and a smoothed video, and registers  *)
(* each one it could write.  Abstracted: the walk along the history        *)
(* (module FaceHistory), the date and time that start every file name, and *)
(* images after the first of a series.  A rate is a fraction <<n, d>>.     *)
(***************************************************************************)
EXTENDS Integers, Sequences, FiniteSets

CONSTANTS
  Saver,                        \* the CPU threads that run saveAndDeleteThread
  SAMPLE_TIME_EVERY_X_FRAMES,   \* the rate is estimated every so many frames
  INITIAL_FPS,                  \* a fraction: the rate until then
  FPS_SPEEDUP_FACTOR,           \* a fraction: how much faster videos play
  Tick,                         \* the ticks of true time in a second
  Windows,                      \* bound: the ticks so many frames may take
  MaxTime                       \* bound: ticks in a behaviour

ASSUME SaverAssumption ==
  /\ IsFiniteSet(Saver)
  /\ SAMPLE_TIME_EVERY_X_FRAMES \in Nat \ {0}
  /\ INITIAL_FPS \in Nat \X (Nat \ {0})
  /\ FPS_SPEEDUP_FACTOR \in Nat \X (Nat \ {0})
  /\ Tick \in Nat \ {0}
  /\ Windows \subseteq Nat
  /\ MaxTime \in Nat

VARIABLES
  image_series_cnt,   \* the number given out last
  my_series_num,      \* the number of each saver; before its store, the one
                      \* it read plus one
  pass,               \* the output each saver is producing
  pc,                 \* where each saver is
  files,              \* the names of the files written so far
  registered,         \* what each saver put in a request: a sequence of names
  inited,             \* has reading SERVER_URL been tried?
  SERVER_URL,         \* NoUrl until the ini file has given an address
  readFailed,         \* history: has a reading given none?
  url,                \* the address each saver put in its request
  time,               \* true time, in ticks
  fd_time_seconds,    \* the clock, in whole seconds, at the last estimate
  estimated_fps,      \* a fraction, which may be below any sensible rate...
  clamped,            \* ...until main has looked at it again
  window,             \* true length of the frames it was estimated from
  video               \* the rate each saver gives the video it writes, and
                      \* the window it was estimated from

rateVars == <<time, fd_time_seconds, estimated_fps, clamped, window>>
vars == <<image_series_cnt, my_series_num, pass, pc, files, registered,
          inited, SERVER_URL, readFailed, url, rateVars, video>>

Passes == <<"image", "video", "smoothed">>

\* The empty string that SERVER_URL starts as.
NoUrl == "none"

NoVideo == [fps |-> <<0, 1>>, of |-> 0]

\* The names of two outputs differ in the number, the extension (images) or
\* the suffix "_smoothed".  (Mutant: no suffix.)
FilenamePlain(s) ==
  [series |-> my_series_num[s],
   kind   |-> IF pass[s] = 1 THEN "image" ELSE "video"]
Filename(s) == [series |-> my_series_num[s], kind |-> Passes[pass[s]]]

\* Saver s is done with its output, whose locals are gone: go on to the next,
\* or to the end.
NextPass(s) ==
  /\ my_series_num' = [my_series_num EXCEPT ![s] = 0]
  /\ pc' = [pc EXCEPT ![s] = IF pass[s] = Len(Passes) THEN "end" ELSE "count"]
  /\ pass' = [pass EXCEPT ![s] = IF @ = Len(Passes) THEN @ ELSE @ + 1]

-----------------------------------------------------------------------------
(* The frame rate, estimated by main at the start of processThreads2 *)

Below(a, b) == a[1] * b[2] < b[1] * a[2]

\* SAMPLE_TIME_EVERY_X_FRAMES frames later: the rate is measured against the
\* clock, unless the second has not changed.  (Mutant: even then.)
EstimateAlways ==
  /\ clamped
  /\ \E w \in Windows :
       LET new_time == (time + w) \div Tick
       IN /\ time' = time + w
          /\ time' <= MaxTime
          /\ estimated_fps' = <<SAMPLE_TIME_EVERY_X_FRAMES, new_time - fd_time_seconds>>
          /\ window' = w
          /\ fd_time_seconds' = new_time
  /\ clamped' = FALSE
  /\ UNCHANGED <<image_series_cnt, my_series_num, pass, pc, files, registered,
                 inited, SERVER_URL, readFailed, url, video>>
Estimate ==
  /\ clamped
  /\ \E w \in Windows :
       LET new_time == (time + w) \div Tick
       IN /\ time' = time + w
          /\ time' <= MaxTime
          /\ IF new_time # fd_time_seconds
             THEN /\ estimated_fps' = <<SAMPLE_TIME_EVERY_X_FRAMES,
                                       new_time - fd_time_seconds>>
                  /\ window' = w
             ELSE UNCHANGED <<estimated_fps, window>>
          /\ fd_time_seconds' = new_time
  /\ clamped' = FALSE
  /\ UNCHANGED <<image_series_cnt, my_series_num, pass, pc, files, registered,
                 inited, SERVER_URL, readFailed, url, video>>

\* Less than a frame per second becomes 1.1.
Clamp ==
  /\ ~clamped
  /\ estimated_fps' = IF Below(estimated_fps, <<1, 1>>) THEN <<11, 10>>
                                                       ELSE estimated_fps
  /\ clamped' = TRUE
  /\ UNCHANGED <<image_series_cnt, my_series_num, pass, pc, files, registered,
                 inited, SERVER_URL, readFailed, url, time, fd_time_seconds,
                 window, video>>

\* The rate of a video: the estimate, sped up, but at least 2.
Fps(e) ==
  LET f == <<e[1] * FPS_SPEEDUP_FACTOR[1], e[2] * FPS_SPEEDUP_FACTOR[2]>>
  IN IF Below(f, <<2, 1>>) THEN <<2, 1>> ELSE f

-----------------------------------------------------------------------------
(* saveThreadImages and saveThreadVideo *)

\* A video of a short thread: return before counting.
Skip(s) ==
  /\ pc[s] = "count"
  /\ pass[s] > 1
  /\ NextPass(s)
  /\ UNCHANGED <<image_series_cnt, files, registered, inited,
                 SERVER_URL, readFailed, url, rateVars, video>>

\* my_series_num = ++image_series_cnt: a read...
CountRead(s) ==
  /\ pc[s] = "count"
  /\ my_series_num' = [my_series_num EXCEPT ![s] = image_series_cnt + 1]
  /\ pc' = [pc EXCEPT ![s] = "store"]
  /\ UNCHANGED <<image_series_cnt, pass, files, registered, inited, SERVER_URL,
                 readFailed, url, rateVars, video>>

\* ...and a write.
CountWrite(s) ==
  /\ pc[s] = "store"
  /\ image_series_cnt' = my_series_num[s]
  /\ pc' = [pc EXCEPT ![s] = IF pass[s] = 1 THEN "write" ELSE "open"]
  /\ UNCHANGED <<my_series_num, pass, files, registered, inited, SERVER_URL,
                 readFailed, url, rateVars, video>>

\* A video writer is opened at the rate estimated just then, or cannot be.
OpenWriter(s) ==
  /\ pc[s] = "open"
  /\ \/ /\ video' = [video EXCEPT ![s] = [fps |-> Fps(estimated_fps), of |-> window]]
        /\ pc' = [pc EXCEPT ![s] = "write"]
        /\ UNCHANGED <<my_series_num, pass>>
     \/ /\ NextPass(s)
        /\ UNCHANGED video
  /\ UNCHANGED <<image_series_cnt, files, registered, inited,
                 SERVER_URL, readFailed, url, rateVars>>

\* The file is written and closed, or something fails and nothing is to be
\* registered.  (Mutant: a failure is registered as well.)
WriteAlways(s) ==
  /\ pc[s] = "write"
  /\ video' = [video EXCEPT ![s] = NoVideo]
  /\ files' \in {files, files \cup {Filename(s)}}
  /\ pc' = [pc EXCEPT ![s] = "check"]
  /\ UNCHANGED <<image_series_cnt, my_series_num, pass, registered, inited,
                 SERVER_URL, readFailed, url, rateVars>>
Write(s) ==
  /\ pc[s] = "write"
  /\ video' = [video EXCEPT ![s] = NoVideo]
  /\ \/ /\ files' = files \cup {Filename(s)}
        /\ pc' = [pc EXCEPT ![s] = "check"]
        /\ UNCHANGED <<my_series_num, pass>>
     \/ /\ NextPass(s)
        /\ UNCHANGED files
  /\ UNCHANGED <<image_series_cnt, registered, inited,
                 SERVER_URL, readFailed, url, rateVars>>

-----------------------------------------------------------------------------
(* registerOutputFile *)

\* Is the address there already?  (Mutant: inited is set by the first to ask.)
CheckAndSetInited(s) ==
  /\ pc[s] = "check"
  /\ pc' = [pc EXCEPT ![s] = IF inited THEN "ask" ELSE "readIni"]
  /\ inited' = TRUE
  /\ UNCHANGED <<image_series_cnt, my_series_num, pass, files, registered,
                 SERVER_URL, readFailed, url, rateVars, video>>
CheckInited(s) ==
  /\ pc[s] = "check"
  /\ pc' = [pc EXCEPT ![s] = IF inited THEN "ask" ELSE "readIni"]
  /\ UNCHANGED <<image_series_cnt, my_series_num, pass, files, registered,
                 inited, SERVER_URL, readFailed, url, rateVars, video>>

\* init: getIniValue assigns SERVER_URL, or leaves it alone when the key has an
\* empty value or the current directory is not known; nobody looks at which...
ReadIni(s) ==
  /\ pc[s] = "readIni"
  /\ \/ SERVER_URL' = "server" /\ UNCHANGED readFailed
     \/ readFailed' = TRUE /\ UNCHANGED SERVER_URL
  /\ pc' = [pc EXCEPT ![s] = "setInited"]
  /\ UNCHANGED <<image_series_cnt, my_series_num, pass, files, registered,
                 inited, url, rateVars, video>>

\* ...and then inited is set.
SetInited(s) ==
  /\ pc[s] = "setInited"
  /\ inited' = TRUE
  /\ pc' = [pc EXCEPT ![s] = "ask"]
  /\ UNCHANGED <<image_series_cnt, my_series_num, pass, files, registered,
                 SERVER_URL, readFailed, url, rateVars, video>>

\* The request is put together, sent, and its result ignored.
Request(s) ==
  /\ pc[s] = "ask"
  /\ url' = [url EXCEPT ![s] = SERVER_URL]
  /\ registered' = [registered EXCEPT ![s] = Append(@, Filename(s))]
  /\ NextPass(s)
  /\ UNCHANGED <<image_series_cnt, files, inited, SERVER_URL, readFailed, rateVars,
                 video>>

-----------------------------------------------------------------------------
Init ==
  /\ image_series_cnt = 0
  /\ my_series_num = [s \in Saver |-> 0]
  /\ pass = [s \in Saver |-> 1]
  /\ pc = [s \in Saver |-> "count"]
  /\ files = {}
  /\ registered = [s \in Saver |-> <<>>]
  /\ inited = FALSE
  /\ SERVER_URL = NoUrl
  /\ readFailed = FALSE
  /\ url = [s \in Saver |-> NoUrl]
  /\ time \in 0 .. Tick - 1
  /\ fd_time_seconds = 0
  /\ estimated_fps = INITIAL_FPS
  /\ clamped = TRUE
  /\ window = 0
  /\ video = [s \in Saver |-> NoVideo]

Step(s) ==
  \/ Skip(s)
  \/ CountRead(s)
  \/ CountWrite(s)
  \/ OpenWriter(s)
  \/ Write(s)
  \/ CheckInited(s)
  \/ ReadIni(s)
  \/ SetInited(s)
  \/ Request(s)

AllEnded == (\A s \in Saver : pc[s] = "end") /\ UNCHANGED vars

Next == Estimate \/ Clamp \/ (\E s \in Saver : Step(s)) \/ AllEnded

Spec == Init /\ [][Next]_vars

-----------------------------------------------------------------------------
(* Properties *)

\* A saver never registers one name twice, whatever numbers the race on the
\* counter gives it: a number may come back, but not for the same kind.
OwnNamesDistinct ==
  \A s \in Saver : \A i, j \in DOMAIN registered[s] :
    i # j => registered[s][i] # registered[s][j]

\* The server is told of a file only after it was written and closed.
RegisteredFilesExist ==
  \A s \in Saver : \A i \in DOMAIN registered[s] : registered[s][i] \in files

\* The rate of a video is that of the frames measured last, whose length in
\* whole seconds is wrong by less than one, whenever main's two unlocked stores
\* were seen; or it is one of the three constants for want of a measurement.
RateMeasured ==
  \A s \in Saver : video[s] # NoVideo =>
    \/ video[s].fps \in {<<2, 1>>, Fps(INITIAL_FPS), Fps(<<11, 10>>)}
    \/ \E seconds \in 1 .. MaxTime :
         /\ video[s].fps = Fps(<<SAMPLE_TIME_EVERY_X_FRAMES, seconds>>)
         /\ seconds * Tick - video[s].of \in 1 - Tick .. Tick - 1

\* A request goes out without an address only if a reading of the ini file has
\* failed: none overtakes the reading that another saver is still at, though
\* inited is tested without a lock.
RequestHasAddress ==
  \A s \in Saver : registered[s] # <<>> /\ url[s] = NoUrl => readFailed
=============================================================================
