------------------------------ MODULE LockOrder ------------------------------
(***************************************************************************)
(* The two critical sections of the detector, gHistoryCS and gThreadsCS,   *)
(* and every place where main, the pruner and the savers enter and leave   *)
(* them (Detector/FaceProcessor.cpp, cs_locker of Detector/fd_util.h).     *)
(* FaceHistory takes each critical section for one step; here entering,    *)
(* waiting and leaving are steps of their own.                             *)
(*                                                                         *)
(* Abstracted: everything done between two calls.  Where the data decides  *)
(* which call comes next, any of the calls may.                            *)
(***************************************************************************)
EXTENDS Integers

CONSTANT Saver              \* the CPU threads that may save a face thread

Nobody    == "nobody"
CpuThread == {"main", "pruner"} \cup Saver
Lock      == {"gHistoryCS", "gThreadsCS"}

ASSUME SaverAssumption == Saver \cap {"main", "pruner", Nobody} = {}

VARIABLES
  pc,      \* the place each CPU thread is at
  holder,  \* OwningThread of each critical section
  depth    \* RecursionCount of each critical section

vars == <<pc, holder, depth>>

\* The places inside a section, named for what is done there.  "remove" is
\* inside two sections on gThreadsCS, one in the other.
Inside == [
  gHistoryCS |-> {"push", "measure", "erase", "remeasure", "seek", "write"},
  gThreadsCS |-> {"move", "seed", "trim", "minimum", "prune", "find", "remove",
                  "found"}]

\* The places at which a CPU thread waits for a section.  In "find" it waits
\* for a section it is in already.
Waiting == {"want push", "want measure", "want erase", "want remeasure",
            "want seek", "want write", "want move", "want seed", "want trim",
            "want minimum", "want prune", "want find"}

\* The places with no section near: a camera, a sleep, a disk, a server.
Resting == {"capture", "match", "create", "playback", "exited", "nap", "cut",
            "sleep", "pass", "walk", "register", "idle"}

Place == Inside["gHistoryCS"] \cup Inside["gThreadsCS"] \cup Waiting \cup Resting

Running == pc["main"] # "exited"

-----------------------------------------------------------------------------
(* What a thread can do *)

\* EnterCriticalSection(l) at place a: wait for its owner, unless that is p.
Enter(p, a, l, b) ==
  /\ pc[p] = a
  /\ holder[l] \in {Nobody, p}
  /\ holder' = [holder EXCEPT ![l] = p]
  /\ depth' = [depth EXCEPT ![l] = @ + 1]
  /\ pc' = [pc EXCEPT ![p] = b]

\* LeaveCriticalSection(l) at place a, then on to one of the places B.
\* (Mutants: an inner Leave gives the section up; Leave comes twice.)
LeaveAll(p, a, l, B) ==
  /\ pc[p] = a
  /\ depth' = [depth EXCEPT ![l] = IF @ = 0 THEN 0 ELSE @ - 1]
  /\ holder' = [holder EXCEPT ![l] = Nobody]
  /\ \E b \in B : pc' = [pc EXCEPT ![p] = b]
LeaveTwice(p, a, l, B) ==
  /\ pc[p] = a
  /\ depth' = [depth EXCEPT ![l] = @ - 2]
  /\ holder' = [holder EXCEPT ![l] = IF depth'[l] <= 0 THEN Nobody ELSE @]
  /\ \E b \in B : pc' = [pc EXCEPT ![p] = b]
Leave(p, a, l, B) ==
  /\ pc[p] = a
  /\ depth' = [depth EXCEPT ![l] = @ - 1]
  /\ holder' = [holder EXCEPT ![l] = IF depth'[l] = 0 THEN Nobody ELSE @]
  /\ \E b \in B : pc' = [pc EXCEPT ![p] = b]

\* Anything between two sections.
Work(p, a, B) ==
  /\ pc[p] = a
  /\ \E b \in B : pc' = [pc EXCEPT ![p] = b]
  /\ UNCHANGED <<holder, depth>>

-----------------------------------------------------------------------------
(* Main *)

\* The camera, and the user, decide whether there is another frame.
NextFrame == Work("main", "capture", {"want push", "playback"})

AddToHistory ==
  \/ Enter("main", "want push", "gHistoryCS", "push")
  \/ Leave("main", "push", "gHistoryCS", {"match"})

\* Parts 1 and 2 of processThreads2.
MatchFaces == Work("main", "match", {"want move", "want seed"})

\* deleteThread; CreateThread makes a saver, or fails.
DeleteThread ==
  \/ Enter("main", "want move", "gThreadsCS", "move")
  \/ Leave("main", "move", "gThreadsCS", {"create"})
  \/ Work("main", "create", {"match"})
  \/ \E s \in Saver :
       /\ pc["main"] = "create"
       /\ pc[s] = "idle"
       /\ pc' = [pc EXCEPT !["main"] = "match", ![s] = "want prune"]
       /\ UNCHANGED <<holder, depth>>

\* Part 3 of processThreads2, under a cs_locker until it returns; after it the
\* lists are trimmed, or not.
SeedThreads ==
  \/ Enter("main", "want seed", "gThreadsCS", "seed")
  \/ Leave("main", "seed", "gThreadsCS", {"want trim", "capture"})

TrimThreads ==
  \/ Enter("main", "want trim", "gThreadsCS", "trim")
  \/ Leave("main", "trim", "gThreadsCS", {"capture"})

\* exit takes every other CPU thread down, wherever it is.
ExitProgram == Work("main", "playback", {"exited"})

Main ==
  \/ AddToHistory
  \/ MatchFaces
  \/ DeleteThread
  \/ SeedThreads
  \/ TrimThreads

-----------------------------------------------------------------------------
(* The pruner *)

\* The first loop of pruneHistory: measure, sleep, and again while it is short.
PruneWait ==
  \/ Enter("pruner", "want measure", "gHistoryCS", "measure")
  \/ Leave("pruner", "measure", "gHistoryCS", {"nap"})
  \/ Work("pruner", "nap", {"want measure", "want minimum"})

\* getMinFrameToKeep, whose cs_locker is left on both of its returns.
GetMinFrameToKeep ==
  \/ Enter("pruner", "want minimum", "gThreadsCS", "minimum")
  \/ Leave("pruner", "minimum", "gThreadsCS", {"cut"})

\* Take gHistoryCS once for every entry released.  (Mutant: the minimum is
\* computed anew inside.)
PruneEraseRefresh ==
  \/ Work("pruner", "cut", {"want erase", "sleep"})
  \/ Enter("pruner", "want erase", "gHistoryCS", "erase")
  \/ Enter("pruner", "erase", "gThreadsCS", "minimum")
  \/ Leave("pruner", "erase", "gHistoryCS", {"cut"})
PruneErase ==
  \/ Work("pruner", "cut", {"want erase", "sleep"})
  \/ Enter("pruner", "want erase", "gHistoryCS", "erase")
  \/ Leave("pruner", "erase", "gHistoryCS", {"cut"})

PruneWake ==
  \/ Work("pruner", "sleep", {"want remeasure"})
  \/ Enter("pruner", "want remeasure", "gHistoryCS", "remeasure")
  \/ Leave("pruner", "remeasure", "gHistoryCS", {"want minimum"})

Pruner == PruneWait \/ GetMinFrameToKeep \/ PruneErase \/ PruneWake

-----------------------------------------------------------------------------
(* The saver s *)

\* Trim the face list; then the face thread is worth saving, or not.
SaverTrim(s) ==
  \/ Enter(s, "want prune", "gThreadsCS", "prune")
  \/ Leave(s, "prune", "gThreadsCS", {"pass", "want find"})

\* An image, a video, a smoothed video: a video of too few faces is left out.
SaverPass(s) == Work(s, "pass", {"pass", "want seek", "want find"})

\* Look for the first frame; then a writer may not open.
SaverSeek(s) ==
  \/ Enter(s, "want seek", "gHistoryCS", "seek")
  \/ Leave(s, "seek", "gHistoryCS", {"walk", "pass"})

\* A frame with a face is written under gHistoryCS; after that the walk goes
\* on, is done, or is given up.  (Mutant: given up without leaving.)
SaverWriteGivesUp(s) ==
  \/ Work(s, "walk", {"walk", "want write", "register", "pass"})
  \/ Enter(s, "want write", "gHistoryCS", "write")
  \/ Leave(s, "write", "gHistoryCS", {"walk", "register"})
  \/ Work(s, "write", {"pass"})
SaverWrite(s) ==
  \/ Work(s, "walk", {"walk", "want write", "register", "pass"})
  \/ Enter(s, "want write", "gHistoryCS", "write")
  \/ Leave(s, "write", "gHistoryCS", {"walk", "register", "pass"})

SaverRegister(s) == Work(s, "register", {"pass"})

\* deleteThreadFromgThreads_beingSerialized: one cs_locker inside another.
SaverFinish(s) ==
  \/ Enter(s, "want find", "gThreadsCS", "find")
  \/ Enter(s, "find", "gThreadsCS", "remove")
  \/ Leave(s, "remove", "gThreadsCS", {"found"})
  \/ Leave(s, "found", "gThreadsCS", {"idle"})

SaverThread(s) ==
  \/ SaverTrim(s)
  \/ SaverPass(s)
  \/ SaverSeek(s)
  \/ SaverWrite(s)
  \/ SaverRegister(s)
  \/ SaverFinish(s)

-----------------------------------------------------------------------------
Init ==
  /\ pc = [p \in CpuThread |-> IF p = "main" THEN "capture"
                          ELSE IF p = "pruner" THEN "want measure" ELSE "idle"]
  /\ holder = [l \in Lock |-> Nobody]
  /\ depth = [l \in Lock |-> 0]

Exited == ~Running /\ UNCHANGED vars

Next ==
  \/ NextFrame
  \/ Main
  \/ ExitProgram
  \/ Running /\ Pruner
  \/ \E s \in Saver : Running /\ SaverThread(s)
  \/ Exited

Spec == Init /\ [][Next]_vars

\* Every CPU thread runs, and one that waits gets a section that is free again
\* and again: strong fairness, because a critical section of Windows has no
\* queue.  Nothing forces another frame or the end of the playback.
FairSpec ==
  /\ Spec
  /\ SF_vars(Main)
  /\ SF_vars(Running /\ Pruner)
  /\ \A s \in Saver : SF_vars(Running /\ SaverThread(s))

-----------------------------------------------------------------------------
(* Properties *)

\* The type of every variable.
TypeOK ==
  /\ pc \in [CpuThread -> Place]
  /\ holder \in [Lock -> CpuThread \cup {Nobody}]
  /\ depth \in [Lock -> Nat]

\* No two CPU threads are inside sections of the same lock, wherever in the
\* code these are: what FaceHistory assumes when it makes each one step.
MutualExclusion ==
  \A l \in Lock : \A p, q \in CpuThread :
    pc[p] \in Inside[l] /\ pc[q] \in Inside[l] => p = q

\* "DO NOT LOCK HISTORY (DEADLOCK!)" (FaceProcessor.cpp:610): nobody enters, or
\* waits for, a section of one lock while he holds the other.
OneLockAtATime ==
  \A l, m \in Lock : \A p \in CpuThread :
    holder[l] = p /\ l # m => pc[p] \notin Inside[m] \cup Waiting

\* Whoever waits for a frame, sleeps, writes a video or calls the server holds
\* no section, whichever return or loop exit brought him there.
RestsUnlocked ==
  \A l \in Lock : \A p \in CpuThread : pc[p] \in Resting => holder[l] # p

\* Whoever waits for a section enters it in the end, unless the process exits.
WaitersEnter ==
  \A p \in CpuThread : pc[p] \in Waiting ~> pc[p] \notin Waiting \/ ~Running
=============================================================================
