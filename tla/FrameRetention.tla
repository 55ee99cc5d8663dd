--------------------------- MODULE FrameRetention ---------------------------
(***************************************************************************)
(* What the frame history promises, without threads, locks or lists:       *)
(* frames are stored in the order they are captured; a claimant (a face    *)
(* thread) may claim only the newest frame and may give claims up at any   *)
(* time; storage discards only the oldest frame, only when nobody claims   *)
(* it, and never one of the newest Keep frames.                            *)
(***************************************************************************)
EXTENDS Integers

CONSTANTS Claimant, Keep

VARIABLES
  newest,   \* the last frame captured, 0 before the first
  stored,   \* the frames held
  claims    \* the frames each claimant still needs

vars == <<newest, stored, claims>>

Init ==
  /\ newest = 0
  /\ stored = {}
  /\ claims = [c \in Claimant |-> {}]

Store ==
  /\ newest' = newest + 1
  /\ stored' = stored \cup {newest'}
  /\ UNCHANGED claims

Claim ==
  /\ newest \in stored
  /\ \E C \in SUBSET Claimant :
       claims' = [c \in Claimant |-> IF c \in C THEN claims[c] \cup {newest}
                                               ELSE claims[c]]
  /\ UNCHANGED <<newest, stored>>

GiveUp ==
  /\ claims' \in [Claimant -> SUBSET UNION {claims[c] : c \in Claimant}]
  /\ \A c \in Claimant : claims'[c] \subseteq claims[c]
  /\ UNCHANGED <<newest, stored>>

Discard ==
  /\ \E f \in stored :
       /\ f <= newest - Keep
       /\ \A g \in stored : f <= g
       /\ \A c \in Claimant : f \notin claims[c]
       /\ stored' = stored \ {f}
  /\ UNCHANGED <<newest, claims>>

Next == Store \/ Claim \/ GiveUp \/ Discard

Spec == Init /\ [][Next]_vars

\* Every claimed frame is held.
ClaimsHeld == \A c \in Claimant : claims[c] \subseteq stored
=============================================================================
