# Verification of planetariumfd

planetariumfd watches a camera, tracks the faces it sees, saves an image and two
videos of each face thread, registers them with a web service, converts the
videos and hands them to Flash clients. This directory holds TLA+ models of it,
the TLC configurations that check them, and machine-checked proofs about the
core. Paths below are relative to `src/planetariumfd/`; `FP` is
`Detector/FaceProcessor.cpp` and `MAIN` is `Detector/PlanetariumFD.cpp`.

## 1. Inventory

| Component | State | Operations | Interacts with |
|---|---|---|---|
| Frame history (`FP`) | `gHistory`, a list of entries (frame copy, face sequence, frame id), under `gHistoryCS` | `addToHistory`, `pruneHistory`, walks of savers and of the playback | main, pruner, savers |
| Face threads (`FP`, `FaceProcessor.h`) | `gThreads`, `gThreads_beingSerialized`, under `gThreadsCS`; per thread a list of faces and four counters | `processThreads2` (match, count, retire, seed), `deleteThread`, `pruneFacesList` | history (required frames), savers |
| Pruner (`pruneHistory`, a CPU thread) | `list_size`, `minFrameToKeep` | wait, snapshot the minimum, erase, sleep | both locks, never nested |
| Savers (`saveAndDeleteThread`, one CPU thread per retired face thread) | iterators into history and faces, series number | trim, three passes (image, video, smoothed video), register, destroy | history, face threads, web service |
| Smoothing (`FP` 1024-1122, `fd_util.h`) | a copy of the face list | `addMissingFrames`, `smoothFaceSeries` | the saver's third pass |
| Registration (`RegisterOutput.cpp`) | `inited`, `SERVER_URL` | `init`, `registerOutputFile` | `srcAdded.php` by HTTP |
| Frame rate (`FP` 371-387, 959) | `estimated_fps`, `fd_time_seconds`, unlocked | estimate and clamp by main, read by savers | clock, savers |
| Critical sections (`fd_util.h` 89-98, `FP`) | `gHistoryCS`, `gThreadsCS` | enter, leave, `cs_locker` | main, pruner, savers |
| Main program (`MAIN`) | the frame copy, an unlocked iterator | `initAll`, input loop, playback, `exitProgram` | everything above |
| Configuration (`FaceProcessorConfig.h`, `CommonLib/ConfigIni.cpp`) | the tuning parameters | `initConfig`, `getIniValue` | read by all |
| Capture and detection (`capture.cpp`, `facedet.cpp`) | OpenCV handles | `initCapture`, `nextVideoFrame`, `initFaceDet`, `detectFaces` | main |
| Converter (`CConverter/CConverter.cpp`) | list of selected rows | `query`, `convert`, `update`, sleep | MySQL, `ffmpeg.exe` |
| Web service (`wwwsvc/*.php`) | table `visuals` | `srcAdded.php`, `getVisuals.php` | detector, converter, clients |

Hard behaviours: the history is shared by main, the pruner and any number of
savers, and much of it is touched outside the locks on the strength of an
argument in a comment ("pruneHistory can't pass this point"); a minimum is
computed under one lock and used after it; savers fail in every pass; main
walks the history unlocked after the input; counters with strict and non-strict
comparisons decide what is retired, saved and drawn; nearly every result of the
database and of ffmpeg is ignored. What could go wrong, line by line, is
the `hazards` list of `PROJECT.json`, with the properties that watch it.

What makes each component right:

- history: no frame a live face thread needs is released; no iterator dangles;
  unneeded frames are released in the end; the list never runs short;
- face threads: one owner each; a face continues one thread; the counters agree
  with the last face; no thread with a face in the newest frame is retired;
- smoothing: exactly one face per frame, between its neighbours, and no further
  past the right edge of the frame than one;
- savers and registration: only files that exist are registered, each once, at
  an address that was read, unless reading it failed;
- playback: the recording is the history, and playback ends, if the savers are done;
- critical sections: exclusive, never nested in one another, left on every return;
- configuration: each parameter comes from its own key; faces are searched only
  with what the search needs, and a pruner finds its critical sections initialised;
- converter and service: every registered video is offered in the end, not while
  its file is being written, and clients see all of them in turn.

## 2. Modules

| Module | Models | Composed with |
|---|---|---|
| `FrameRetention` | abstract: only the oldest frame is discarded, only unclaimed, never one of the newest `Keep` | |
| `FaceThreads` | abstract: each frame continues threads, then retires some that missed and starts new ones | |
| `FaceHistory` | main, pruner and savers on the history and the face threads | implements `FrameRetention` (`RetentionSpec`) and `FaceThreads` (`ThreadsSpec`) |
| `FaceTracker` | `processThreads2` and the output of `FdProcessFaces`: the rules | implements `FaceThreads` (`ThreadsSpec`) |
| `LockOrder` | entering, waiting for and leaving the two critical sections | justifies the atomic sections of `FaceHistory` |
| `Smoothing` | `addMissingFrames`, `smoothFaceSeries`, `my_round`, `LinearConvolutionSame` | |
| `Playback` | main after the input, beside the pruner and the savers | extends `FaceHistory` |
| `SaverOutput` | the unlocked counter, server address and frame rate | |
| `Startup` | `initAll`, `getIniValue`, `initConfig` | |
| `MediaTypes` | the types and subtypes of the web service (`local.php`, `config.php`) | used by the next two |
| `Converter` | `srcAdded.php`, the converter, ffmpeg | extends `MediaTypes` |
| `GetVisuals` | `getVisuals.php`, with insertions and the converter's updates | extends `MediaTypes` |

Each `MCx` module instantiates module `x` for TLC. The proofs are in
`FaceHistoryProofs` (with those about `Playback`), `FaceTrackerProofs`,
`LockOrderProofs`, `SmoothingProofs`, `SaverOutputProofs`, `StartupProofs`,
`ConverterProofs` and `GetVisualsProofs` (section 4). The map from definitions to
source lines is in `PROJECT.json`. Definitions keep the names of the code. An
operator whose name extends the next one's (`PruneWakeBlind` before `PruneWake`)
is a deliberate slip kept beside the operator it would replace, to show that a
property notices it.

### FaceHistory

A face thread is a list node (`Slot`) that is in `gThreads`, in
`gThreads_beingSerialized`, or free; its faces are the frame ids it was seen in.
`gHistory` is the sequence of stored frame ids; an iterator is the id of its
node.

- Main: `AddToHistory`, then `MatchFaces` (parts 1 and 2, without a lock),
  `DeleteThread` for any of the threads that missed, `SeedThreads`, and every
  `PRUNE_FACES_INTERVAL` frames `TrimThreads`; `EndOfInput`, `ExitProgram`.
- Pruner: `PruneWait`, `PruneSnapshot` (under `gThreadsCS`), `PruneErase` one
  entry at a time, `PruneSleep`, `PruneWake`.
- Savers: `SaverTrim`, then per pass `SaverSkip`, `SaverSeek`, `SaverPass` and
  `SaverWrite` per entry, `SaverEndWalk`, `SaverRegister`; `SaverFinish`.

A critical section is one action, which is sound because sections of one lock
exclude one another and none contains a section of the other: `LockOrder` shows
both (`MutualExclusion`, `OneLockAtATime`). Failures (no writer, a failed write,
no image) are choices in the saver's actions. `CreateThread` may fail too
(FP:324; the assertion is empty in a release build): the face thread then stays in
`gThreads_beingSerialized` with nobody to serve it (`Unserved`), safe, but it and
its frames are never given back, which `SaversFinish` and `HistoryReclaimed` say.

`StallBound` is no code. It is how many frames main may add between the pruner's
snapshot and the end of its pass: a statement about the scheduler and the camera.
The history is safe exactly while it is below `MIN_LIST_SIZE` (20 in the code,
so 19 frames, some seconds of video, in one pass that normally takes
milliseconds at a lower priority): `history` and `FramesKept` assume it, and
`history_stall` shows that at `MIN_LIST_SIZE` it fails.

### FaceTracker and FaceThreads

`FaceTracker` has one action per detected frame, per comparison of a face with a
thread, per face assigned, and one for each numbered part of `processThreads2`. A
rectangle is the position of its centre on a line and its area; real distances
are planar and floating point, which only the comparisons with thresholds see.

`FaceThreads` is where the two halves of the detector's core meet. `FaceHistory`
lets any thread be continued and any that missed be retired; `FaceTracker` says
which. Both implement `FaceThreads`, so what is shown of `FaceHistory` does not
exclude what the rules do, and the rules never do what `FaceHistory` forbids:
retire a thread that has a face in the newest frame, or lose one otherwise.

### LockOrder

One place per section, one per wait, and the rests between them, for main, the
pruner and any number of savers; a lock has an owner and a recursion count, as
Windows keeps them. Where data decides which call comes next, any may. The inner
`cs_locker` of `deleteThreadFromgThreads_beingSerialized` (FP:717) is a section
inside a section of the same lock.

### Smoothing

`addMissingFrames` walks the list with two iterators and inserts the missing faces
before the second: `InsertFace` and `NextPair` are the inner and the outer loop,
`FillStart` has its early return. An iterator is the place of its face in the
sequence, so it moves when a face is inserted before it (`InsertAt` of the
community modules). Positions and sizes are integers, averages are exact quotients rounded by
`my_round` as the code rounds floats (for the gaps and sums here the float
result rounds alike). Rectangles start square, as `detectFaces` makes them.

### Playback

`Playback` adds to `FaceHistory` what main does and sees after the input: its
iterator, the ROI a saver sets on an image inside `gHistoryCS`
(`SaverSetROI`, `SaverUnlock`), the face sequences stored with the frames.
`PLAYBACK_NAPS` = 2 says that `Sleep(3000)` contains at least two ends of the
pruner's naps of `PRUNE_HISTORY_EVERY_MS` = 1000. The drawing of rectangles is
compiled out (`NO_RECTS_ON_PLAYBACK`, `MAIN:9`); the consensus rectangle is not.

The entry under main's iterator may be erased when a saver is left. Main then reads
a freed node (`Astray`), of which nothing can be said: the model takes main to `lost`
(`Stray`) and says of it only that it may end the program (`Crash`). The playback
goes on for entries that are stored, and for those alone.

### SaverOutput

`++image_series_cnt` and `init()` are split into reads and writes. `getIniValue` may
leave the address empty (an empty `SERVER_URL=`, no current directory); `init` does not
look at that and sets `inited`, so every later request has no address (`ReadIni`,
`SetInited`). `RequestHasAddress` says that a request lacks one for no other reason.

The frame rate is estimated against a clock of whole seconds that differs from true
time (`time`, in `Tick`s); main stores it, then clamps it (`Estimate`, `Clamp`), and a
saver may read it in between. `RateMeasured` says that a video has the rate of
the frames measured last, in whole seconds that are wrong by less than one, or
one of three constants: never a division by zero, never a rate that mixes two
measurements, and never the unclamped one below the minimum of 2.

### Startup

The sixteen keys of `initConfig` are read one by one, over ini files that
give up to three keys, each missing, empty, unparsable or a number; camera,
cascade and first frame may fail. So may the storage that `FdInit` allocates before
it initialises the critical sections (`CreateSections`) and the `CreateThread` of
the pruner (`CreatePruner`): `initAll` ignores its result (`MAIN:320`), so frames are
searched with neither or without the second.

### MediaTypes, Converter, GetVisuals

`MediaTypes` follows `local.php` under the PHP of its time (5): a request without
type and subtype gets AVI, because `"" == 0` makes the `switch` take "" for
`MEDIATYPE_VIDEO`, so the default FLV of `getVisuals.php:7` applies only to a
subtype that is not known; and `type=image` without a subtype yields the
undefined `MEDIATYPE_IMAGE`, for which MySQL refuses the statement.

`Converter` has one action for each call of its start-up and loop, each of which
may fail, with ffmpeg a process that outlives a time-out and a restart. A query
whose `SELECT` fails returns without `mysql_close` (`leaked`). Names of files may be
shared: two savers that read one count (`SaverOutput`) register one name twice,
and the conversion of the second row overwrites what the first one offers, which
is the exception in `OfferedOutputAtRest`. A row is offered whatever became of its
conversion: nothing looks at the result. `ConvertsAviFilesOnly` is checked for
what the detector registers, jpg and avi: the service gives any extension it does
not know the subtype AVI.

`GetVisuals` has the two statements of a request as actions under the row locks of
a transaction, with a clock of whole seconds in each of which any number of requests
may come, for any number of rows. Each kind of media has its own rotation; the
converter moves a row, with its place, from one to another. The UPDATE gives the
turns, and `overtaken` counts those that other rows had since a row had its own.

## 3. Runs

| Run | Shows | Bounds |
|---|---|---|
| `history` | types; required frames kept; savers' iterators valid; floor; one owner; `FaceHistory` implements `FrameRetention` and `FaceThreads` | 2 face threads, 5 frames, list floor 2, stall 1: threads born, extended, trimmed, retired and reused while the pruner erases (over 2 million states) |
| `history_stall` | *violated*: a stalled pruner invalidates a saver's iterator | stall = floor |
| `tracker` | a face feeds one thread; match distances real and within reach; counters agree with the last face; who is saved and drawn; `FaceTracker` implements `FaceThreads` | scenes of competing faces, then up to 12 frames of hits and misses; thresholds that differ, so that both reasons to retire a thread occur |
| `lock_order` | exclusion, no nesting, no section held at rest, every waiter enters | main, pruner, 2 savers |
| `smoothing` | the insertion loop gives one face per frame; between neighbours; averages in range; at most one past the right edge | sequences with gaps of 0 to 3 missing frames, sizes and places at the edges |
| `playback` | the recording is the whole history, in order and full size, if no saver is left; playback ends, or main strays onto an erased entry; savers finish; the history is reclaimed | 1 face thread at a time, 4 frames |
| `playback_rectangles` | *violated*: the frames played still have their faces | same |
| `saver_output` | names distinct per saver; only existing files registered; no request without address unless a reading failed; frame rates measured | 2 savers, 3 outputs each, 3 seconds of 2 ticks |
| `converter` | only AVI files converted; one writer and offered files at rest, unless an ffmpeg was overrun; every video offered in the end | 2 names, 3 rows, 1 restart, 2 ffmpegs per output, 1 connection |
| `get_visuals` | the turns go round: a row waits for fewer turns of other rows than there are rows | 3 rows, 2 clients, 6 seconds, requests for 0, 1 and 2 rows |
| `startup` | parameters from their own keys; detection only when ready | 19 keys, up to 3 given |
| `startup_thresholds` | *violated*: both distance thresholds from their own keys | same |

Why the bounds suffice: the interesting events of the history need a list longer
than its floor, a thread born after the snapshot, a saver with a middle face, and
a reused slot; with five frames and two slots each happens, and all the
deliberate slips are noticed. Frames only grow and are compared, so more of them
repeat these situations. Liveness is checked with one face thread at a time
(retired, destroyed and reborn): savers wait for nothing of one another but short
critical sections, and `lock_order` shows that each is entered. In the tracker two
faces and two threads are the smallest case in which faces compete for threads
and threads for faces. In the converter two rows of one name and one of another,
one connection and one restart are enough for a leak to keep it out of the
database, for an overrun of each kind and for a shared output. In the rotation of
`getVisuals.php` three rows with requests for one and for two are the fewest in which
a request gives more than one turn and leaves a row out, and six seconds let each row
have two turns in different seconds, or all in one. Every safety property of a
passing run is also proved for all bounds (section 4).

A run marked *violated* checks one statement of a comment or of the ini file that
the code does not keep; the statement, the line and the consequence are in
`findings` of `PROJECT.json`. More places where text and code differ, seen while
modelling; the models follow the code:

- FP:351 "Choose best matching thread among those within thresh": FP:424-431
  keeps the first thread within reach unless it is very close and the size test
  says otherwise, and that test compares with `FD_NULL_RECT` for a thread without
  a match in this frame (`Better`, `MatchArea`).
- `FaceProcessorConfig.h:41` "must appear in at least this number of frames":
  FP:269 compares with `>` a counter that leaves out the first face, so a face is
  drawn from its (threshold + 2)nd frame (`Displayed`, `NewThread`).
- `FaceProcessorConfig.h:42` says that this threshold is for display only; FP:663
  decides with it what is saved (`WorthSaving`).
- FP:1030 "used for both size and location": FP:1079 passes the length of
  `LOCATION_FILT` for the heights, so square faces (`misc.txt:34`) do not stay
  square (`SmoothHeight`).
- `MAIN:204` "just to make sure that pruneHistory isn't modifying": the sleep is long
  enough for what the pruner has begun, but nothing waits for the savers. When one
  finishes during the walk the pruner erases the frames it kept, the entry under
  main's iterator included; the run `playback` takes that step (`Stray`).
- FP:111 `assert(h)` of the pruner's `CreateThread`: a release build has no assertion,
  and faces are searched with no pruner (`CreatePruner`); when the storage fails
  before, `gThreadsCS` and `gHistoryCS` are not even initialised (`CreateSections`).
- `RegisterOutput.cpp:24` sets `inited` though no address may have been read
  (`ReadIni`, `SetInited`).
- `MAIN:210` the ROI is "now reset by FDFaceThread": main may see it set
  (`GetSize`), because it does not enter `gHistoryCS`.
- FP:794 "multi-threading kind of more protection": two savers can read the same
  count and write to one file (`CountRead`, `CountWrite`).
- `FaceProcessor.h:48` speaks of `nonMissedCount--`; the code decrements
  `missedCount` (`Updated`).
- `MAIN:275`: the error of a missing `OPENCV_ROOT` appears only for an empty one,
  because the call passes a default (`Found`).

### Assumptions the properties rest on

- Fairness of the detector (`PlayFairSpec`): the operating system runs every CPU
  thread (`WF` of the pruner, of each saver and of a playback that has begun);
  nobody must capture another frame or press a key. A request to the server ends:
  libcurl is given no time-out, so this is an assumption about the server. That a
  waiting thread gets its section is what makes weak fairness of these atomic
  steps right; in `LockOrder`, where waiting is a state, it takes `SF`, because a
  critical section of Windows has no queue. Every CPU thread sleeps or does slow
  work between two sections, so each is free again and again.
- Converter: the process runs (`WF`), the database accepts a query and an update
  again and again (`SF`), as the endless retries of the loop need; ffmpeg ends;
  the MySQL server closes idle connections (`Reap`, its `wait_timeout`): without
  that, enough failed queries keep the converter out for ever.
  `OneWriterPerOutput` and `OfferedOutputAtRest` are about runs in which no ffmpeg
  was overrun: took longer than the wait of 100 seconds, or than its converter
  lived. The variable `overrun` remembers that; after it both can fail.
- `GetVisuals`: the row locks of MySQL serialise requests; without transactions
  (MyISAM) two requests could give one row's turn twice. What is guaranteed is the
  order of turns, not what is seen: an UPDATE gives its rows one time, MySQL may return
  rows with equal times in any order, and with more rows of a kind than a request asks
  for (from the eleventh on by default, `config.php:32`) nothing bounds how long a row
  that has its turns is left out of the answers. With as many as there are rows all
  are shown (`SmallTableShown`); no text of the repository promises more.
- `HistoryReclaimed` takes it that there is a pruner, which the code does not make
  sure of (`CreatePruner`). `FaceHistory` begins where `FdInit` has succeeded.
- The constants of `FaceHistory` are at least 1, which the code does not check.

## 4. Proofs

Each holds for every value of the constants that the module's assumption allows.

| Module | Theorem | Statement |
|---|---|---|
| `FaceHistoryProofs` | `TypeCorrect` | `Spec => []TypeOK` |
| | `HistoryNeverShort` | `Spec => []HistoryFloor` |
| | `OneOwner` | `Spec => []OwnershipExclusive` |
| | `FramesKept` | `PrunerKeepsUp => (Spec => []RequiredFramesKept)` |
| | `IteratorsValid` | `PrunerKeepsUp => (Spec => []SaverIteratorsValid)` |
| | `ImplementsThreads` | `Spec => ThreadsSpec` |
| | `ImplementsRetention` | `PrunerKeepsUp => (Spec => RetentionSpec)` |
| `FaceTrackerProofs` | `TrackerTypes` | `Spec => []TypeOK` |
| | `FacesApart`, `WithinReach` | `Spec => []OneThreadPerFace`, `Spec => []MatchWithinReach` |
| | `CountersAgree`, `SavedLost`, `DrawnFresh` | `CountersConsistent`, `SavedWereLost`, `DrawnIsFresh` always |
| | `TrackerImplements` | `Spec => ThreadsSpec` |
| `LockOrderProofs` | `LockTypes` | `Spec => []TypeOK` |
| | `SectionsExclusive`, `NoNesting`, `NothingHeldAtRest` | `MutualExclusion`, `OneLockAtATime`, `RestsUnlocked` always |
| `SmoothingProofs` | `OneFacePerFrame` | `Spec => []EveryFrameHasAFace` |
| | `AddedFacesBetween` | `Spec => []InterpolatedBetween` |
| | `AveragesInRange` | `Spec => []SmoothedInRange` |
| | `EdgeWithinOne` | `Spec => []RightEdgeInFrame` |
| `FaceHistoryProofs` | `PlaybackImplementsHistory` | `PlaySpec => Spec` of `FaceHistory` |
| | `PlayTypes` | `PlaySpec => []PlayTypeOK` |
| | `RecordsTheHistory` | `PlaybackSleepsLong => (PlaySpec => []QuietPlaybackComplete)` |
| `SaverOutputProofs` | `NamesDistinct`, `FilesExist`, `AddressKnown` | `OwnNamesDistinct`, `RegisteredFilesExist`, `RequestHasAddress` always |
| | `RateIsMeasured` | `Spec => []RateMeasured` |
| `StartupProofs` | `ReadyWhenDetecting`, `ParametersRead` | `DetectsOnlyWhenReady`, `ParametersFromOwnKeys` always |
| `ConverterProofs` | `OneWriter`, `OfferedAtRest` | `OneWriterPerOutput`, `OfferedOutputAtRest` always |
| | `AviFilesOnly` | if only jpg, avi and flv files are registered, `ConvertsAviFilesOnly` always |
| `GetVisualsProofs` | `TurnsGoRound` | `Spec => []RotationFair` |
| | `SmallTableShown` | if `N <= Wanted(q).ammount` for all requests `q`, `Spec => [][AskedStep]_vars` |

`PrunerKeepsUp == StallBound < MIN_LIST_SIZE` and `PlaybackSleepsLong ==
PLAYBACK_NAPS >= 2`, which the code's 3000 ms of sleep and 1000 ms of nap give.
`N` is the number of rows; `AskedStep` says that a `Select` shows all rows of its kind.

**The history.** The argument has layers. `IInv` adds to the type invariant what
no property says but each needs: the history is a run of consecutive frame ids
that ends with the newest (`HistoryShape`), so being stored is a matter of two
comparisons; the pruner's `listSize` is at most the real length, since main only
adds, and exceeds the floor when it erases (`PrunerShape`); the faces of a thread
are increasing and not newer than the frame, and a slot is free exactly when its
list is empty (`FacesShape`). It is inductive by itself and gives the first three
theorems.

`KeepInv` is relative to it. `FrontsHeld`: the first face of each live thread is
stored, hence all its faces are. `CutSafe`: while the pruner cuts, a thread either
was seen by its snapshot, and its first face is not older than the minimum, or was
born since, and its first face is among the last `lag` frames. Erasing an entry
older than the minimum hurts no thread of the first kind; and because more than
`MIN_LIST_SIZE` > `StallBound` >= `lag` entries remain, not one of the second. This
is the place where the stall bound is needed, and the run `history_stall` shows
that it cannot be dropped.

`WalkInv` is relative to both: a walking saver's iterator lies between the first
face of its thread and the face it looks for. The frames between are consecutive
and the first face is stored, so is the iterator; a face thread that is being
saved is not extended or trimmed any more, so the bounds do not move under it.

**The refinements.** For `FaceThreads` the missing invariant is `MissedBehind`: when
main deletes threads, those that missed have no face in the newest frame. For
`FrameRetention` it is `StoredNewest`: what is stored is the last
`Len(gHistory)` frames, so that erasing the head discards the oldest one, and not
one of the newest `MIN_LIST_SIZE`; that nobody claims it is `FramesKept` after the
step. Every other step maps to a claim, a release or a stutter.

**The tracker.** `TInv` says where the faces of a frame are: each is still in the
input, or unmatched, or in exactly one match (`FacesInv`, `MatchesInv`), and one
that is left over ends no thread (`SeedsInv`): hence no two threads end in one
face. `CountersInv` bounds the counters between the loops of part 2, where a thread
may be over its limits by one, but none that was just hit; `BestInv` keeps the
distance of the best thread so far the real one.

**The locks.** `HolderInside`: a lock is held by the thread whose place is in one of
its sections, and by no one else. `DepthCounts`: the recursion count is the number
of sections that thread is in, two in `remove`, so that the inner `cs_locker` leaves
the lock held and the outer one frees it. The theorems follow, because the places
inside the two locks, the waits and the rests are disjoint.

**Smoothing.** The windows have at most seven taps, so an average is two sums of
seven numbers (`Total`), and no induction over the list is needed. `ShapeInv` follows
the insertion loop. `LoopInv`: the faces up to the second iterator are those of
consecutive frames, as far as the loop has come; the first iterator is at a detected
face, the second at the next one, with as many faces between as were inserted, and
from there on the list is what the thread still has to give. `InsertKeeps` and
`NextPairKeeps` are its two steps, `EndFills` the end. The early return is right
because as many faces as frames, with increasing ids, leave no gap (`NoGap`). Each face
is then either detected or put by `Between` into the one gap its frame lies in.
`Rounding` and `RoundedBetween` say what `my_round` may add, so an added face stays
between its neighbours; `RangeInv` carries
any range of the detected values through the four blocks, because a cut window is
divided by the weights it used. `EdgeInv` is the one that is not obvious. Each of x and
width is rounded twice, and four halves could add up to two. They do not: an added
face passes the edge by one only if its x and its width are both exact ties
(`SumBetween`), and of two frames in a row not both can be (`NoTwoTies`), so every
window of two frames or more holds one that stays inside (`EdgeFilled`), and the mean
over the window stays below `FrameSize + 1` (`WindowSum`); the last rounding of each
then fits in what is left. Between the smoothing of x and that of width, `EdgeInv`
compares the new x with the widths its window will have.

**Playback.** Every step of `Playback` is a step of `FaceHistory` or a stutter, so its
invariants hold during the playback. `RecordsTheHistory` needs to know that the
history stands still while main copies it. Once no saver is left, the pruner can
still be at work with an old minimum: after the first end of a nap it has the true
size of the list and takes a minimum that stays right (`FreshMin`), because no face
thread changes any more; after the second its inner loop has run to its end, and
what is left is either short or needed (`Settled`, `SettledIsDone`). This is
`PrunerSettles`, and why one nap is not enough. `Recorded` then relates main's
iterator to what it has copied, and so shows that it never strays; `RoiHeld` says
that a region of interest is set only by a saver that is inside its section, of which
there is none.

**The savers' output.** `NamesFinished`: a registered name is that of an output its
saver has finished, and of each kind there is one. `FileWritten` and `AddressRead`
follow a saver from the write to the request, and from the test of `inited`:
while there is no address and no reading has failed, nobody is past his own reading.
`RateInv`: main's clock is the true time divided by the tick, so two readings differ
from what passed by less than one tick (`UnitsPassed`), and the rate in force and the
one each video was opened with come from such a pair or from a constant.

**Start-up.** `ReadyInv` says, for each place start-up can have reached, which steps
before it succeeded: the results that the code ignores are caught by later steps,
but for those of `FdInit`.
`ParamInv`: a parameter whose key was read has the file's value, the others their
initial one, and no other read writes it (`OwnValueUntouched`), except for the two
thresholds that share one.

**The converter.** `OneRow`: at most one row is held, and until it is marked its
subtype is AVI. `WaitedFor`: without an overrun, ffmpeg runs only while the converter
waits for it, on the output of the row it holds.

**The rotation.** `RotationFair` is not inductive: how often a row was overtaken says
nothing of how often it still will be. `Ordered` adds that: the turns that others had
since its own, and the rows that may still have one before it (`Ahead`: no newer than
the row, or not yet in the table), are together at most the other rows. A turn makes
a row newer than all that wait, hence takes it out of `Ahead` for as many turns as it
adds (`UpdateInv`, with S the rows of one request); rows that have their turn in the
same second tie, and count only from the next one on. A new row was in `Ahead` before
it was inserted, and the converter changes no time. `Past` says that times lie in the
past, `Outside` that a row outside the table has not been overtaken.

Only model-checked: liveness under fairness, because TLAPS does not reason about
`ENABLED` (`WaitersEnter`, `SaversFinish`, `HistoryReclaimed`,
`PlaybackEnds`, `EveryVideoOffered`). The three *violated* runs are counterexamples
and need no proof.

## 5. Not modelled

- pixels, classifiers, encoders: OpenCV's own; a detector may report any faces;
- logging; memory that OpenCV storages accumulate (FP 511);
- torn reads of `std::string SERVER_URL` and of list links appended to outside
  `gThreadsCS` (FP 471): undefined behaviour below the level of these models;
- the instants after `exit` (`MAIN:340`), in which the destructors of the lists run
  beside CPU threads that still use them: undefined behaviour too; the models end
  with the call;
- rows with NULL columns (`CConverter.cpp:101`): the repository has no schema, so
  whether a column of `visuals` may be NULL is not known;
- `getflv.php` and `convert.php`, stateless; `TrackFaces.cpp` and the two
  `stdafx.cpp`, not compiled or empty; the tracking half of `camshift_wrapper.cpp`,
  not called; the Flash examples, which do not call the service.

Nine tenths of the C, C++ and PHP lines in the repository are vendored: the
headers of libCurl, of the MySQL connector and of ffmpeg, which declare
interfaces and hold no logic of this program. Its own code is some 2250
lines with comments and blank lines; the map names about 1750 of them, some 1500 of
them not blank, and what
is left is includes, logging, commented-out code, the files of the last item and
operations without state (`date_and_time2string`). More of
the share than that cannot be modelled.

## 6. Plan

Done: every component of section 2 modelled and checked; every safety invariant
that a passing run checks a theorem; both abstract specifications implemented, and
`FaceHistory` by `Playback`. What is left, in this order:

1. `SaverOutput` composed with `Converter`: the shared numbers of the one as the
   shared names of the other, instead of a choice of names.
2. NULL columns, if a schema of `visuals` appears.
