----------------------------- MODULE FaceThreads -----------------------------
(***************************************************************************)
(* What main does with the tracked face threads, without rectangles,       *)
(* counters, savers or locks.  Every frame goes through two stages: first  *)
(* some of the threads get a face of the new frame, then threads that did  *)
(* not may be retired, and faces that are left start new threads.          *)
(*                                                                         *)
(* FaceTracker implements this with the rules of processThreads2, and      *)
(* FaceHistory with any choice the rules might make: this module is the    *)
(* interface at which the two meet.                                        *)
(***************************************************************************)
EXTENDS Integers

VARIABLES
  newest,   \* the last frame captured, 0 before the first
  stage,    \* of the newest frame: "matching", "settling", or "done"
  last      \* the frame of the last face of each tracked thread

vars == <<newest, stage, last>>

Init ==
  /\ newest = 0
  /\ stage = "done"
  /\ last = [t \in {} |-> 0]

Capture ==
  /\ stage = "done"
  /\ newest' = newest + 1
  /\ stage' = "matching"
  /\ UNCHANGED last

Continue ==
  /\ stage = "matching"
  /\ stage' = "settling"
  /\ DOMAIN last' = DOMAIN last
  /\ \A t \in DOMAIN last : last'[t] \in {last[t], newest}
  /\ UNCHANGED newest

Retire ==
  /\ stage = "settling"
  /\ DOMAIN last' \subseteq DOMAIN last
  /\ \A t \in DOMAIN last' : last'[t] = last[t]
  /\ \A t \in DOMAIN last \ DOMAIN last' : last[t] < newest
  /\ UNCHANGED <<newest, stage>>

Start ==
  /\ stage = "settling"
  /\ stage' \in {"settling", "done"}
  /\ DOMAIN last \subseteq DOMAIN last'
  /\ \A t \in DOMAIN last : last'[t] = last[t]
  /\ \A t \in DOMAIN last' \ DOMAIN last : last'[t] = newest
  /\ UNCHANGED newest

Next == Capture \/ Continue \/ Retire \/ Start

Spec == Init /\ [][Next]_vars
=============================================================================
