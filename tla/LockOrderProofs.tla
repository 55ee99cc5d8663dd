--------------------------- MODULE LockOrderProofs ---------------------------
(***************************************************************************)
(* Proofs about LockOrder, for any number of savers.                       *)
(***************************************************************************)
EXTENDS LockOrder, TLAPS

Outside == Waiting \cup Resting

\* A lock is held by the thread whose place is in one of its sections, and by
\* nobody else.
HolderInside ==
  \A l \in Lock : \A p \in CpuThread : holder[l] = p <=> pc[p] \in Inside[l]

\* The count is the number of sections its holder is in.
DepthCounts ==
  \A l \in Lock :
    depth[l] = IF holder[l] = Nobody THEN 0
               ELSE IF pc[holder[l]] = "remove" THEN 2 ELSE 1

LInv == TypeOK /\ HolderInside /\ DepthCounts

\* Every place is inside one lock, or outside of both.
LEMMA Places ==
  /\ \A l \in Lock : Inside[l] \subseteq Place
  /\ Outside \subseteq Place
  /\ \A l \in Lock : Inside[l] \cap Outside = {}
  /\ \A l, m \in Lock : l # m => Inside[l] \cap Inside[m] = {}
  /\ {"find", "remove", "found"} \subseteq Inside["gThreadsCS"]
  /\ Nobody \notin CpuThread
  /\ Waiting \cap Resting = {}
  <1>1. Inside["gHistoryCS"] = {"push", "measure", "erase", "remeasure", "seek", "write"}
    BY DEF Inside
  <1>2. Inside["gThreadsCS"] = {"move", "seed", "trim", "minimum", "prune", "find",
                                "remove", "found"}
    BY DEF Inside
  <1>3. \A l \in Lock : l = "gHistoryCS" \/ l = "gThreadsCS"
    BY DEF Lock
  <1>4. Inside["gHistoryCS"] \cap Inside["gThreadsCS"] = {}
    BY <1>1, <1>2
  <1>5. \A l \in Lock : Inside[l] \cap Outside = {}
    BY <1>1, <1>2, <1>3 DEF Outside, Waiting, Resting
  <1>6. Nobody \notin CpuThread
    BY SaverAssumption DEF CpuThread, Nobody
  <1>7. Waiting \cap Resting = {}
    BY DEF Waiting, Resting
  <1>8. Outside \subseteq Place /\ \A l \in Lock : Inside[l] \subseteq Place
    <2>1. Outside \subseteq Place
      BY DEF Outside, Place
    <2>2. Inside["gHistoryCS"] \subseteq Place /\ Inside["gThreadsCS"] \subseteq Place
      BY DEF Place
    <2> QED BY <1>3, <2>1, <2>2
  <1> QED BY <1>2, <1>3, <1>4, <1>5, <1>6, <1>7, <1>8

LEMMA InitLInv == Init => LInv
  <1> SUFFICES ASSUME Init PROVE LInv
    OBVIOUS
  <1>1. \A p \in CpuThread : pc[p] \in Outside
    BY DEF Init, Outside, Waiting, Resting
  <1>2. TypeOK
    BY <1>1, Places DEF Init, TypeOK
  <1>3. HolderInside
    BY <1>1, Places DEF Init, HolderInside
  <1>4. DepthCounts
    BY DEF Init, DepthCounts
  <1> QED BY <1>2, <1>3, <1>4 DEF LInv

-----------------------------------------------------------------------------
(* The five kinds of steps *)

\* Entering a section from outside.
LEMMA EnterInv ==
  ASSUME LInv, NEW p \in CpuThread, NEW l \in Lock, NEW a \in Outside,
         NEW b \in Inside[l], b # "remove", Enter(p, a, l, b)
  PROVE  LInv'
  <1> USE DEF LInv
  <1>1. holder[l] = Nobody
    <2>1. holder[l] # p
      BY Places DEF HolderInside, Enter
    <2> QED BY <2>1 DEF Enter
  <1>2. /\ pc' = [pc EXCEPT ![p] = b]
        /\ holder' = [holder EXCEPT ![l] = p]
        /\ depth' = [depth EXCEPT ![l] = 1]
    <2>1. depth[l] = 0
      BY <1>1 DEF DepthCounts
    <2>2. [depth EXCEPT ![l] = @ + 1] = [depth EXCEPT ![l] = 1]
      BY <2>1 DEF TypeOK
    <2> QED BY <2>2 DEF Enter
  <1>3. TypeOK'
    BY <1>2, Places DEF TypeOK
  <1>4. \A q \in CpuThread : pc'[q] = IF q = p THEN b ELSE pc[q]
    BY <1>2 DEF TypeOK
  <1>5. \A m \in Lock : holder'[m] = IF m = l THEN p ELSE holder[m]
    BY <1>2 DEF TypeOK
  <1>6. HolderInside'
    <2> SUFFICES ASSUME NEW m \in Lock, NEW q \in CpuThread
                 PROVE  holder'[m] = q <=> pc'[q] \in Inside[m]
      BY DEF HolderInside
    <2>1. holder[m] = q <=> pc[q] \in Inside[m]
      BY DEF HolderInside
    <2>2. CASE q = p /\ m = l
      BY <1>4, <1>5, <2>2
    <2>3. CASE q = p /\ m # l
      BY <1>4, <1>5, <2>1, <2>3, Places DEF Enter
    <2>4. CASE q # p /\ m = l
      BY <1>1, <1>4, <1>5, <2>1, <2>4, Places
    <2>5. CASE q # p /\ m # l
      BY <1>4, <1>5, <2>1, <2>5
    <2> QED BY <2>2, <2>3, <2>4, <2>5
  <1>7. DepthCounts'
    <2> SUFFICES ASSUME NEW m \in Lock
                 PROVE  depth'[m] = IF holder'[m] = Nobody THEN 0
                                    ELSE IF pc'[holder'[m]] = "remove" THEN 2 ELSE 1
      BY DEF DepthCounts
    <2>1. CASE m = l
      BY <1>2, <1>4, <1>5, <2>1, Places DEF TypeOK
    <2>2. CASE m # l
      <3>1. holder[m] # p
        BY Places DEF HolderInside, Enter
      <3>2. depth'[m] = depth[m] /\ holder'[m] = holder[m]
        BY <1>2, <1>5, <2>2 DEF TypeOK
      <3>3. holder[m] # Nobody => holder[m] \in CpuThread
        BY DEF TypeOK
      <3> QED BY <1>4, <3>1, <3>2, <3>3 DEF DepthCounts
    <2> QED BY <2>1, <2>2
  <1> QED BY <1>3, <1>6, <1>7

\* Leaving the only section.
LEMMA LeaveInv ==
  ASSUME LInv, NEW p \in CpuThread, NEW l \in Lock, NEW a \in Inside[l],
         a # "remove", NEW B \in SUBSET Outside, Leave(p, a, l, B)
  PROVE  LInv'
  <1> USE DEF LInv
  <1>1. holder[l] = p /\ depth[l] = 1
    <2>1. holder[l] = p
      BY DEF HolderInside, Leave
    <2> QED BY <2>1, Places DEF DepthCounts, Leave
  <1> PICK b \in B : pc' = [pc EXCEPT ![p] = b]
    BY DEF Leave
  <1>2. /\ depth' = [depth EXCEPT ![l] = 0]
        /\ holder' = [holder EXCEPT ![l] = Nobody]
    BY <1>1 DEF Leave, TypeOK
  <1>3. TypeOK'
    BY <1>2, Places DEF TypeOK
  <1>4. \A q \in CpuThread : pc'[q] = IF q = p THEN b ELSE pc[q]
    BY DEF TypeOK
  <1>5. \A m \in Lock : holder'[m] = IF m = l THEN Nobody ELSE holder[m]
    BY <1>2 DEF TypeOK
  <1>6. HolderInside'
    <2> SUFFICES ASSUME NEW m \in Lock, NEW q \in CpuThread
                 PROVE  holder'[m] = q <=> pc'[q] \in Inside[m]
      BY DEF HolderInside
    <2>1. holder[m] = q <=> pc[q] \in Inside[m]
      BY DEF HolderInside
    <2>2. CASE q = p /\ m = l
      BY <1>4, <1>5, <2>2, Places
    <2>3. CASE q = p /\ m # l
      <3>1. pc[q] \notin Inside[m] /\ b \notin Inside[m]
        BY <2>3, Places DEF Leave
      <3> QED BY <1>4, <1>5, <2>1, <2>3, <3>1
    <2>4. CASE q # p /\ m = l
      BY <1>1, <1>4, <1>5, <2>1, <2>4, Places
    <2>5. CASE q # p /\ m # l
      BY <1>4, <1>5, <2>1, <2>5
    <2> QED BY <2>2, <2>3, <2>4, <2>5
  <1>7. DepthCounts'
    <2> SUFFICES ASSUME NEW m \in Lock
                 PROVE  depth'[m] = IF holder'[m] = Nobody THEN 0
                                    ELSE IF pc'[holder'[m]] = "remove" THEN 2 ELSE 1
      BY DEF DepthCounts
    <2>1. CASE m = l
      BY <1>2, <1>5, <2>1 DEF TypeOK
    <2>2. CASE m # l
      <3>1. holder[m] # p
        BY <2>2, Places DEF HolderInside, Leave
      <3>2. depth'[m] = depth[m] /\ holder'[m] = holder[m]
        BY <1>2, <1>5, <2>2 DEF TypeOK
      <3>3. holder[m] # Nobody => holder[m] \in CpuThread
        BY DEF TypeOK
      <3> QED BY <1>4, <3>1, <3>2, <3>3 DEF DepthCounts
    <2> QED BY <2>1, <2>2
  <1> QED BY <1>3, <1>6, <1>7

\* Going from one place in a lock's sections to another changes the holder of
\* no lock: a step of the nested cs_locker.
LEMMA NestedInv ==
  ASSUME LInv, NEW p \in CpuThread, NEW b \in Inside["gThreadsCS"],
         pc[p] \in Inside["gThreadsCS"],
         pc' = [pc EXCEPT ![p] = b],
         holder' = holder,
         depth' = [depth EXCEPT !["gThreadsCS"] = IF b = "remove" THEN 2 ELSE 1]
  PROVE  LInv'
  <1> USE DEF LInv
  <1>1. "gThreadsCS" \in Lock
    BY DEF Lock
  <1>2. holder["gThreadsCS"] = p
    BY <1>1 DEF HolderInside
  <1>3. TypeOK'
    BY <1>1, Places DEF TypeOK
  <1>4. \A q \in CpuThread : pc'[q] = IF q = p THEN b ELSE pc[q]
    BY DEF TypeOK
  <1>5. HolderInside'
    <2> SUFFICES ASSUME NEW m \in Lock, NEW q \in CpuThread
                 PROVE  holder[m] = q <=> pc'[q] \in Inside[m]
      BY DEF HolderInside
    <2>1. holder[m] = q <=> pc[q] \in Inside[m]
      BY DEF HolderInside
    <2>2. pc'[p] \in Inside[m] <=> pc[p] \in Inside[m]
      BY <1>1, <1>4, Places
    <2> QED BY <1>4, <2>1, <2>2
  <1>6. DepthCounts'
    <2> SUFFICES ASSUME NEW m \in Lock
                 PROVE  depth'[m] = IF holder[m] = Nobody THEN 0
                                    ELSE IF pc'[holder[m]] = "remove" THEN 2 ELSE 1
      BY DEF DepthCounts
    <2>1. CASE m = "gThreadsCS"
      BY <1>1, <1>2, <1>4, <2>1, Places DEF TypeOK
    <2>2. CASE m # "gThreadsCS"
      <3>1. holder[m] # p
        BY <1>1, <2>2, Places DEF HolderInside
      <3>2. depth'[m] = depth[m]
        BY <2>2 DEF TypeOK
      <3>3. holder[m] # Nobody => holder[m] \in CpuThread
        BY DEF TypeOK
      <3> QED BY <1>4, <3>1, <3>2, <3>3 DEF DepthCounts
    <2> QED BY <2>1, <2>2
  <1> QED BY <1>3, <1>5, <1>6

\* Moving any threads from outside to outside touches no lock.
LEMMA OutsideInv ==
  ASSUME LInv, pc' \in [CpuThread -> Place], UNCHANGED <<holder, depth>>,
         \A q \in CpuThread : pc'[q] # pc[q] => pc[q] \in Outside /\ pc'[q] \in Outside
  PROVE  LInv'
  <1> USE DEF LInv
  <1>1. TypeOK'
    BY DEF TypeOK
  <1>2. HolderInside'
    BY Places DEF HolderInside
  <1>3. DepthCounts'
    <2> SUFFICES ASSUME NEW m \in Lock
                 PROVE  depth[m] = IF holder[m] = Nobody THEN 0
                                   ELSE IF pc'[holder[m]] = "remove" THEN 2 ELSE 1
      BY DEF DepthCounts
    <2>1. holder[m] # Nobody => holder[m] \in CpuThread
      BY DEF TypeOK
    <2>2. "remove" \notin Outside
      BY DEF Outside, Waiting, Resting
    <2> QED BY <2>1, <2>2 DEF DepthCounts
  <1> QED BY <1>1, <1>2, <1>3

LEMMA WorkInv ==
  ASSUME LInv, NEW p \in CpuThread, NEW a \in Outside, NEW B \in SUBSET Outside,
         Work(p, a, B)
  PROVE  LInv'
  <1> PICK b \in B : pc' = [pc EXCEPT ![p] = b]
    BY DEF Work
  <1>1. pc' \in [CpuThread -> Place]
    BY Places DEF LInv, TypeOK
  <1>2. \A q \in CpuThread : pc'[q] # pc[q] => pc[q] \in Outside /\ pc'[q] \in Outside
    BY DEF LInv, TypeOK, Work
  <1> QED BY <1>1, <1>2, OutsideInv DEF Work

-----------------------------------------------------------------------------
(* The threads *)

LEMMA MainLInv ==
  ASSUME LInv, NextFrame \/ Main \/ ExitProgram
  PROVE  LInv'
  <1>1. "main" \in CpuThread /\ Lock = {"gHistoryCS", "gThreadsCS"}
    BY DEF CpuThread, Lock
  <1>2. CASE NextFrame
    BY <1>1, <1>2, WorkInv DEF NextFrame, Outside, Waiting, Resting
  <1>3. CASE AddToHistory
    <2>1. CASE Enter("main", "want push", "gHistoryCS", "push")
      BY <1>1, <2>1, EnterInv DEF Outside, Waiting, Inside
    <2>2. CASE Leave("main", "push", "gHistoryCS", {"match"})
      BY <1>1, <2>2, LeaveInv DEF Outside, Resting, Inside
    <2> QED BY <1>3, <2>1, <2>2 DEF AddToHistory
  <1>4. CASE MatchFaces
    BY <1>1, <1>4, WorkInv DEF MatchFaces, Outside, Waiting, Resting
  <1>5. CASE DeleteThread
    <2>1. CASE Enter("main", "want move", "gThreadsCS", "move")
      BY <1>1, <2>1, EnterInv DEF Outside, Waiting, Inside
    <2>2. CASE Leave("main", "move", "gThreadsCS", {"create"})
      BY <1>1, <2>2, LeaveInv DEF Outside, Resting, Inside
    <2>3. CASE Work("main", "create", {"match"})
      BY <1>1, <2>3, WorkInv DEF Outside, Resting
    <2>4. ASSUME NEW s \in Saver,
                 pc["main"] = "create", pc[s] = "idle",
                 pc' = [pc EXCEPT !["main"] = "match", ![s] = "want prune"],
                 UNCHANGED <<holder, depth>>
          PROVE  LInv'
      <3>1. s \in CpuThread /\ s # "main"
        BY SaverAssumption DEF CpuThread
      <3>2. \A q \in CpuThread : pc'[q] = IF q = s THEN "want prune"
                                     ELSE IF q = "main" THEN "match" ELSE pc[q]
        BY <1>1, <2>4, <3>1 DEF LInv, TypeOK
      <3>3. {"create", "idle", "match", "want prune"} \subseteq Outside
        BY DEF Outside, Waiting, Resting
      <3>4. pc' \in [CpuThread -> Place]
        BY <2>4, <3>3, Places DEF LInv, TypeOK
      <3> QED BY <2>4, <3>1, <3>2, <3>3, <3>4, OutsideInv
    <2> QED BY <1>5, <2>1, <2>2, <2>3, <2>4 DEF DeleteThread
  <1>6. CASE SeedThreads
    <2>1. CASE Enter("main", "want seed", "gThreadsCS", "seed")
      BY <1>1, <2>1, EnterInv DEF Outside, Waiting, Inside
    <2>2. CASE Leave("main", "seed", "gThreadsCS", {"want trim", "capture"})
      BY <1>1, <2>2, LeaveInv DEF Outside, Waiting, Resting, Inside
    <2> QED BY <1>6, <2>1, <2>2 DEF SeedThreads
  <1>7. CASE TrimThreads
    <2>1. CASE Enter("main", "want trim", "gThreadsCS", "trim")
      BY <1>1, <2>1, EnterInv DEF Outside, Waiting, Inside
    <2>2. CASE Leave("main", "trim", "gThreadsCS", {"capture"})
      BY <1>1, <2>2, LeaveInv DEF Outside, Resting, Inside
    <2> QED BY <1>7, <2>1, <2>2 DEF TrimThreads
  <1>8. CASE ExitProgram
    BY <1>1, <1>8, WorkInv DEF ExitProgram, Outside, Resting
  <1> QED BY <1>2, <1>3, <1>4, <1>5, <1>6, <1>7, <1>8 DEF Main

LEMMA PrunerLInv ==
  ASSUME LInv, Pruner
  PROVE  LInv'
  <1>1. "pruner" \in CpuThread /\ Lock = {"gHistoryCS", "gThreadsCS"}
    BY DEF CpuThread, Lock
  <1>2. CASE PruneWait
    <2>1. CASE Enter("pruner", "want measure", "gHistoryCS", "measure")
      BY <1>1, <2>1, EnterInv DEF Outside, Waiting, Inside
    <2>2. CASE Leave("pruner", "measure", "gHistoryCS", {"nap"})
      BY <1>1, <2>2, LeaveInv DEF Outside, Resting, Inside
    <2>3. CASE Work("pruner", "nap", {"want measure", "want minimum"})
      BY <1>1, <2>3, WorkInv DEF Outside, Waiting, Resting
    <2> QED BY <1>2, <2>1, <2>2, <2>3 DEF PruneWait
  <1>3. CASE GetMinFrameToKeep
    <2>1. CASE Enter("pruner", "want minimum", "gThreadsCS", "minimum")
      BY <1>1, <2>1, EnterInv DEF Outside, Waiting, Inside
    <2>2. CASE Leave("pruner", "minimum", "gThreadsCS", {"cut"})
      BY <1>1, <2>2, LeaveInv DEF Outside, Resting, Inside
    <2> QED BY <1>3, <2>1, <2>2 DEF GetMinFrameToKeep
  <1>4. CASE PruneErase
    <2>1. CASE Work("pruner", "cut", {"want erase", "sleep"})
      BY <1>1, <2>1, WorkInv DEF Outside, Waiting, Resting
    <2>2. CASE Enter("pruner", "want erase", "gHistoryCS", "erase")
      BY <1>1, <2>2, EnterInv DEF Outside, Waiting, Inside
    <2>3. CASE Leave("pruner", "erase", "gHistoryCS", {"cut"})
      BY <1>1, <2>3, LeaveInv DEF Outside, Resting, Inside
    <2> QED BY <1>4, <2>1, <2>2, <2>3 DEF PruneErase
  <1>5. CASE PruneWake
    <2>1. CASE Work("pruner", "sleep", {"want remeasure"})
      BY <1>1, <2>1, WorkInv DEF Outside, Waiting, Resting
    <2>2. CASE Enter("pruner", "want remeasure", "gHistoryCS", "remeasure")
      BY <1>1, <2>2, EnterInv DEF Outside, Waiting, Inside
    <2>3. CASE Leave("pruner", "remeasure", "gHistoryCS", {"want minimum"})
      BY <1>1, <2>3, LeaveInv DEF Outside, Waiting, Inside
    <2> QED BY <1>5, <2>1, <2>2, <2>3 DEF PruneWake
  <1> QED BY <1>2, <1>3, <1>4, <1>5 DEF Pruner

LEMMA SaverLInv ==
  ASSUME LInv, NEW s \in Saver, SaverThread(s)
  PROVE  LInv'
  <1>1. s \in CpuThread /\ Lock = {"gHistoryCS", "gThreadsCS"}
    BY DEF CpuThread, Lock
  <1>2. CASE SaverTrim(s)
    <2>1. CASE Enter(s, "want prune", "gThreadsCS", "prune")
      BY <1>1, <2>1, EnterInv DEF Outside, Waiting, Inside
    <2>2. CASE Leave(s, "prune", "gThreadsCS", {"pass", "want find"})
      BY <1>1, <2>2, LeaveInv DEF Outside, Waiting, Resting, Inside
    <2> QED BY <1>2, <2>1, <2>2 DEF SaverTrim
  <1>3. CASE SaverPass(s)
    BY <1>1, <1>3, WorkInv DEF SaverPass, Outside, Waiting, Resting
  <1>4. CASE SaverSeek(s)
    <2>1. CASE Enter(s, "want seek", "gHistoryCS", "seek")
      BY <1>1, <2>1, EnterInv DEF Outside, Waiting, Inside
    <2>2. CASE Leave(s, "seek", "gHistoryCS", {"walk", "pass"})
      BY <1>1, <2>2, LeaveInv DEF Outside, Resting, Inside
    <2> QED BY <1>4, <2>1, <2>2 DEF SaverSeek
  <1>5. CASE SaverWrite(s)
    <2>1. CASE Work(s, "walk", {"walk", "want write", "register", "pass"})
      BY <1>1, <2>1, WorkInv DEF Outside, Waiting, Resting
    <2>2. CASE Enter(s, "want write", "gHistoryCS", "write")
      BY <1>1, <2>2, EnterInv DEF Outside, Waiting, Inside
    <2>3. CASE Leave(s, "write", "gHistoryCS", {"walk", "register", "pass"})
      BY <1>1, <2>3, LeaveInv DEF Outside, Resting, Inside
    <2> QED BY <1>5, <2>1, <2>2, <2>3 DEF SaverWrite
  <1>6. CASE SaverRegister(s)
    BY <1>1, <1>6, WorkInv DEF SaverRegister, Outside, Resting
  <1>7. CASE SaverFinish(s)
    <2>1. CASE Enter(s, "want find", "gThreadsCS", "find")
      BY <1>1, <2>1, EnterInv DEF Outside, Waiting, Inside
    <2>2. CASE Enter(s, "find", "gThreadsCS", "remove")
      <3>1. pc[s] = "find" /\ holder["gThreadsCS"] = s /\ depth["gThreadsCS"] = 1
        BY <1>1, <2>2, Places DEF LInv, HolderInside, DepthCounts, Enter
      <3>2. holder' = holder /\ depth' = [depth EXCEPT !["gThreadsCS"] = 2]
        BY <2>2, <3>1 DEF Enter, LInv, TypeOK
      <3> QED BY <1>1, <2>2, <3>1, <3>2, NestedInv, Places DEF Enter
    <2>3. CASE Leave(s, "remove", "gThreadsCS", {"found"})
      <3>1. pc[s] = "remove" /\ holder["gThreadsCS"] = s /\ depth["gThreadsCS"] = 2
        BY <1>1, <2>3, Places DEF LInv, HolderInside, DepthCounts, Leave
      <3>2. holder' = holder /\ depth' = [depth EXCEPT !["gThreadsCS"] = 1]
        BY <1>1, <2>3, <3>1 DEF Leave, LInv, TypeOK
      <3>3. pc' = [pc EXCEPT ![s] = "found"]
        BY <2>3 DEF Leave
      <3> QED BY <1>1, <3>1, <3>2, <3>3, NestedInv, Places
    <2>4. CASE Leave(s, "found", "gThreadsCS", {"idle"})
      BY <1>1, <2>4, LeaveInv DEF Outside, Resting, Inside
    <2> QED BY <1>7, <2>1, <2>2, <2>3, <2>4 DEF SaverFinish
  <1> QED BY <1>2, <1>3, <1>4, <1>5, <1>6, <1>7 DEF SaverThread

LEMMA InductiveL == Spec => []LInv
  <1>1. LInv /\ [Next]_vars => LInv'
    <2> SUFFICES ASSUME LInv, [Next]_vars PROVE LInv'
      OBVIOUS
    <2>1. CASE UNCHANGED vars
      BY <2>1 DEF vars, LInv, TypeOK, HolderInside, DepthCounts
    <2>2. CASE Exited
      BY <2>1, <2>2 DEF Exited
    <2> QED BY <2>1, <2>2, MainLInv, PrunerLInv, SaverLInv DEF Next
  <1> QED BY <1>1, InitLInv, PTL DEF Spec

-----------------------------------------------------------------------------
\* For any number of savers, every variable has its type: a critical section is
\* held by one CPU thread or by nobody, and entered at most twice by its holder.
THEOREM LockTypes == Spec => []TypeOK
  <1>1. LInv => TypeOK
    BY DEF LInv
  <1> QED BY <1>1, InductiveL, PTL

\* For any number of savers, no two CPU threads are inside sections of the same
\* critical section (FaceProcessor.cpp, every Enter and Leave).
THEOREM SectionsExclusive == Spec => []MutualExclusion
  <1>1. LInv => MutualExclusion
    BY DEF LInv, HolderInside, MutualExclusion
  <1> QED BY <1>1, InductiveL, PTL

\* For any number of savers, nobody waits for one lock, or is inside it, while
\* he holds the other: no cycle of waiting threads can form
\* (FaceProcessor.cpp:610).
THEOREM NoNesting == Spec => []OneLockAtATime
  <1>1. LInv => OneLockAtATime
    BY Places DEF LInv, HolderInside, OneLockAtATime, Outside
  <1> QED BY <1>1, InductiveL, PTL

\* For any number of savers, whoever sleeps, writes or calls the server has left
\* every section, on every return path.
THEOREM NothingHeldAtRest == Spec => []RestsUnlocked
  <1>1. LInv => RestsUnlocked
    BY Places DEF LInv, HolderInside, RestsUnlocked, Outside
  <1> QED BY <1>1, InductiveL, PTL
=============================================================================
