------------------------- MODULE FaceHistoryProofs -------------------------
(***************************************************************************)
(* Proofs about FaceHistory for every number of slots, every value of the  *)
(* configuration and any number of frames: its invariants, the frames it   *)
(* keeps, the iterators of its savers, and its two refinements.            *)
(*                                                                         *)
(* The second part is about Playback, which only watches and delays the    *)
(* steps of FaceHistory, so that all that is proved of FaceHistory holds   *)
(* of it.  Its main result is that the unlocked walk records the whole     *)
(* history when no saver is left and the pruner has napped twice while     *)
(* main slept: the first nap makes it take a new minimum, and at the       *)
(* second it has erased all that this allows.                              *)
(***************************************************************************)
EXTENDS Playback, TLAPS

-----------------------------------------------------------------------------
(* Face lists *)

Ordered(s) == \A i, j \in 1 .. Len(s) : i < j => s[i] < s[j]

\* Appending a face newer than every other keeps a face list ordered.
LEMMA AppendNewer ==
  ASSUME NEW s \in Seq(Nat), NEW n \in Nat, Ordered(s),
         \A i \in 1 .. Len(s) : s[i] < n
  PROVE  /\ Append(s, n) \in Seq(Nat)
         /\ Append(s, n) # <<>>
         /\ Ordered(Append(s, n))
         /\ \A i \in 1 .. Len(Append(s, n)) : Append(s, n)[i] <= n
         /\ Append(s, n)[1] = IF s = <<>> THEN n ELSE s[1]
  <1>1. /\ Append(s, n) \in Seq(Nat)
        /\ Len(Append(s, n)) = Len(s) + 1
        /\ \A i \in 1 .. Len(s) : Append(s, n)[i] = s[i]
        /\ Append(s, n)[Len(s) + 1] = n
    OBVIOUS
  <1>2. Len(s) \in Nat /\ (s = <<>> <=> Len(s) = 0)
    OBVIOUS
  <1>3. \A i \in 1 .. Len(s) : s[i] \in Nat
    OBVIOUS
  <1>4. Append(s, n) # <<>>
    BY <1>1, <1>2
  <1>5. Ordered(Append(s, n))
    <2> SUFFICES ASSUME NEW i \in 1 .. Len(s) + 1, NEW j \in 1 .. Len(s) + 1,
                        i < j
                 PROVE  Append(s, n)[i] < Append(s, n)[j]
      BY <1>1 DEF Ordered
    <2>1. i \in 1 .. Len(s) /\ (j \in 1 .. Len(s) \/ j = Len(s) + 1)
      BY <1>2
    <2>2. j \in 1 .. Len(s) => s[i] < s[j]
      BY <2>1 DEF Ordered
    <2> QED BY <1>1, <2>1, <2>2
  <1>6. \A i \in 1 .. Len(Append(s, n)) : Append(s, n)[i] <= n
    BY <1>1, <1>2, <1>3
  <1>7. Append(s, n)[1] = IF s = <<>> THEN n ELSE s[1]
    BY <1>1, <1>2
  <1> QED BY <1>1, <1>4, <1>5, <1>6, <1>7

\* pruneFacesList keeps the newest faces in order and never empties a list.
LEMMA PruneFacesListKeeps ==
  ASSUME NEW s \in Seq(Nat), s # <<>>, Ordered(s)
  PROVE  /\ PruneFacesList(s) \in Seq(Nat)
         /\ PruneFacesList(s) # <<>>
         /\ Ordered(PruneFacesList(s))
         /\ \A i \in 1 .. Len(PruneFacesList(s)) :
              \E j \in 1 .. Len(s) : PruneFacesList(s)[i] = s[j]
         /\ PruneFacesList(s)[1] >= s[1]
  <1> DEFINE M == MAX_THREAD_HISTORY_SIZE
             r == SubSeq(s, Len(s) - M + 1, Len(s))
  <1>1. M \in Nat /\ M > 0
    BY ConstantsAssumption
  <1>2. Len(s) \in Nat /\ Len(s) > 0 /\ \A i \in 1 .. Len(s) : s[i] \in Nat
    OBVIOUS
  <1>3. CASE Len(s) <= M
    <2>1. PruneFacesList(s) = s
      BY <1>1, <1>2, <1>3 DEF PruneFacesList
    <2> QED BY <2>1, <1>2
  <1>4. CASE Len(s) > M
    <2>1. PruneFacesList(s) = r
      BY <1>4 DEF PruneFacesList
    <2>2. /\ r \in Seq(Nat)
          /\ Len(r) = M
          /\ \A i \in 1 .. M : r[i] = s[Len(s) - M + i]
      BY <1>1, <1>2, <1>4
    <2>3. \A i \in 1 .. M : Len(s) - M + i \in 1 .. Len(s)
      BY <1>1, <1>2, <1>4
    <2>4. r # <<>>
      <3>1. Len(r) # 0
        BY <1>1, <2>2
      <3> HIDE DEF r
      <3> QED BY <3>1
    <2>5. Ordered(r)
      <3> SUFFICES ASSUME NEW i \in 1 .. M, NEW j \in 1 .. M, i < j
                   PROVE  r[i] < r[j]
        BY <2>2 DEF Ordered
      <3>1. Len(s) - M + i < Len(s) - M + j
        BY <1>1, <1>2
      <3> QED BY <3>1, <2>2, <2>3 DEF Ordered
    <2>6. \A i \in 1 .. M : \E j \in 1 .. Len(s) : r[i] = s[j]
      BY <2>2, <2>3
    <2>7. r[1] >= s[1]
      <3>1. r[1] = s[Len(s) - M + 1] /\ Len(s) - M + 1 \in 1 .. Len(s)
        <4>1. 1 \in 1 .. M
          BY <1>1
        <4> HIDE DEF r, M
        <4> QED BY <4>1, <2>2, <2>3
      <3>2. s[1] < s[Len(s) - M + 1]
        BY <1>1, <1>2, <1>4, <3>1 DEF Ordered
      <3> QED BY <3>1, <3>2, <1>2
    <2> QED BY <2>1, <2>2, <2>4, <2>5, <2>6, <2>7
  <1> QED BY <1>1, <1>2, <1>3, <1>4

-----------------------------------------------------------------------------
(***************************************************************************)
(* The inductive invariant.  TypeOK is not inductive: Tail, Head and the   *)
(* CHOOSE of FirstFrom have the right type only because lists are not      *)
(* empty and the history has no gap.                                       *)
(***************************************************************************)

\* The history is the last Len(gHistory) frames, none missing.
HistoryShape ==
  /\ Len(gHistory) <= frame
  /\ \A i \in 1 .. Len(gHistory) : gHistory[i] = frame - Len(gHistory) + i
  /\ frame > 0 => Len(gHistory) > 0
  /\ mainPc \in {"match", "delete"} => frame > 0

\* What the pruner's locals say of the history, which only it shortens.
PrunerShape ==
  /\ prunePc # "wait" => Len(gHistory) >= MIN_LIST_SIZE
  /\ prunePc \in {"snapshot", "cut"} => listSize <= Len(gHistory)
  /\ prunePc # "cut" => lag = 0

\* Face lists are ordered and hold only frames already captured.
FacesShape ==
  \A t \in Slot :
    /\ Ordered(pFaces[t])
    /\ \A i \in 1 .. Len(pFaces[t]) : pFaces[t][i] <= frame
    /\ mainPc = "match" => \A i \in 1 .. Len(pFaces[t]) : pFaces[t][i] < frame

IInv == TypeOK /\ HistoryShape /\ PrunerShape /\ FacesShape /\ OwnershipExclusive

LEMMA StoredInterval ==
  ASSUME TypeOK, HistoryShape
  PROVE  Stored = (frame - Len(gHistory) + 1) .. frame
  <1> DEFINE n == Len(gHistory)
  <1>1. n \in Nat /\ frame \in Nat /\ n <= frame /\ DOMAIN gHistory = 1 .. n
    BY DEF TypeOK, HistoryShape
  <1>2. \A i \in 1 .. n : gHistory[i] = frame - n + i
    BY DEF HistoryShape
  <1> HIDE DEF n
  <1>3. Stored \subseteq (frame - n + 1) .. frame
    BY <1>1, <1>2 DEF Stored
  <1>4. ASSUME NEW f \in (frame - n + 1) .. frame
        PROVE  f \in Stored
    <2>1. f - frame + n \in 1 .. n
      BY <1>1
    <2>2. gHistory[f - frame + n] = f
      BY <1>1, <1>2, <2>1
    <2> QED BY <1>1, <2>1, <2>2 DEF Stored
  <1> QED BY <1>3, <1>4 DEF n

\* What the search of saveThreadImages and saveThreadVideo finds.
LEMMA FirstFromValue ==
  ASSUME TypeOK, HistoryShape, NEW f \in Nat
  PROVE  /\ FirstFrom(f) \in Nat
         /\ f \in Stored => FirstFrom(f) = f
  <1> DEFINE low   == frame - Len(gHistory) + 1
             later == {g \in Stored : g >= f}
             Least(g) == \A h \in later : g <= h
  <1>1. Stored = low .. frame /\ low \in Int /\ low > 0 /\ frame \in Nat
    BY StoredInterval DEF TypeOK, HistoryShape
  <1>2. FirstFrom(f) = IF later = {} THEN End ELSE CHOOSE g \in later : Least(g)
    BY DEF FirstFrom
  <1> HIDE DEF low
  <1>3. CASE later = {}
    <2>1. f \notin Stored
      BY <1>1, <1>3
    <2> QED BY <1>2, <1>3, <2>1 DEF End
  <1>4. CASE later # {}
    <2> DEFINE m == IF f < low THEN low ELSE f
    <2>1. m \in later /\ Least(m) /\ m \in Nat
      BY <1>1, <1>4
    <2>2. \A g \in later : Least(g) => g = m
      BY <1>1, <2>1
    <2>3. (CHOOSE g \in later : Least(g)) = m
      <3> HIDE DEF m, Least, later
      <3> QED BY <2>1, <2>2
    <2>4. f \in Stored => m = f
      BY <1>1
    <2> QED BY <1>2, <1>4, <2>1, <2>3, <2>4
  <1> QED BY <1>3, <1>4

LEMMA InitInv == Init => IInv
  <1> SUFFICES ASSUME Init PROVE IInv
    OBVIOUS
  <1> USE ConstantsAssumption DEF Init
  <1>1. TypeOK
    BY DEF TypeOK, End
  <1>2. HistoryShape
    BY DEF HistoryShape
  <1>3. PrunerShape
    BY DEF PrunerShape
  <1>4. FacesShape
    BY DEF FacesShape, Ordered
  <1>5. OwnershipExclusive
    BY DEF OwnershipExclusive, Live
  <1> QED BY <1>1, <1>2, <1>3, <1>4, <1>5 DEF IInv

-----------------------------------------------------------------------------
(* The steps of main *)

LEMMA AddToHistoryInv ==
  ASSUME IInv, AddToHistory
  PROVE  IInv'
  <1> USE DEF IInv
  <1>1. /\ gHistory \in Seq(Nat) /\ frame \in Nat /\ Len(gHistory) \in Nat
        /\ gHistory' \in Seq(Nat) /\ Len(gHistory') = Len(gHistory) + 1
        /\ \A i \in 1 .. Len(gHistory) : gHistory'[i] = gHistory[i]
        /\ gHistory'[Len(gHistory) + 1] = frame + 1
        /\ frame' = frame + 1
    BY DEF TypeOK, AddToHistory
  <1>2. TypeOK'
    BY <1>1 DEF TypeOK, AddToHistory, pruneVars, saveVars
  <1>3. HistoryShape'
    BY <1>1 DEF HistoryShape
  <1>4. PrunerShape'
    BY <1>1, ConstantsAssumption DEF PrunerShape, TypeOK, AddToHistory, pruneVars
  <1>5. FacesShape'
    <2> SUFFICES ASSUME NEW t \in Slot
                 PROVE  /\ Ordered(pFaces[t])
                        /\ \A i \in 1 .. Len(pFaces[t]) : pFaces[t][i] < frame + 1
                        /\ \A i \in 1 .. Len(pFaces[t]) : pFaces[t][i] <= frame + 1
      BY <1>1 DEF FacesShape, AddToHistory, Ordered
    <2>1. \A i \in 1 .. Len(pFaces[t]) : pFaces[t][i] \in Nat /\ pFaces[t][i] <= frame
      BY DEF TypeOK, FacesShape
    <2>2. Ordered(pFaces[t])
      BY DEF FacesShape
    <2>3. \A i \in 1 .. Len(pFaces[t]) :
             pFaces[t][i] < frame + 1 /\ pFaces[t][i] <= frame + 1
      BY <1>1, <2>1
    <2> QED BY <2>2, <2>3
  <1>6. OwnershipExclusive'
    BY DEF OwnershipExclusive, Live, AddToHistory, saveVars
  <1> QED BY <1>2, <1>3, <1>4, <1>5, <1>6

LEMMA MatchFacesInv ==
  ASSUME IInv, MatchFaces
  PROVE  IInv'
  <1> USE DEF IInv
  <1> PICK hit \in SUBSET gThreads :
        /\ pFaces' = [t \in Slot |-> IF t \in hit THEN Append(pFaces[t], frame)
                                                  ELSE pFaces[t]]
        /\ missed' = gThreads \ hit
    BY DEF MatchFaces
  <1>1. ASSUME NEW t \in Slot
        PROVE  /\ pFaces'[t] \in Seq(Nat)
               /\ Ordered(pFaces'[t])
               /\ \A i \in 1 .. Len(pFaces'[t]) : pFaces'[t][i] <= frame
               /\ t \in hit => pFaces'[t] # <<>>
               /\ t \notin hit => pFaces'[t] = pFaces[t]
    <2>1. /\ pFaces[t] \in Seq(Nat) /\ Ordered(pFaces[t]) /\ frame \in Nat
          /\ \A i \in 1 .. Len(pFaces[t]) : pFaces[t][i] < frame
          /\ \A i \in 1 .. Len(pFaces[t]) : pFaces[t][i] <= frame
      BY DEF TypeOK, FacesShape, MatchFaces
    <2>2. CASE t \in hit
      <3>1. pFaces'[t] = Append(pFaces[t], frame)
        BY <2>2
      <3> QED BY <2>1, <2>2, <3>1, AppendNewer
    <2>3. CASE t \notin hit
      BY <2>1, <2>3
    <2> QED BY <2>2, <2>3
  <1>2. TypeOK'
    BY <1>1 DEF TypeOK, MatchFaces, pruneVars, saveVars
  <1>3. HistoryShape'
    BY DEF HistoryShape, MatchFaces
  <1>4. PrunerShape'
    BY DEF PrunerShape, MatchFaces, pruneVars
  <1>5. FacesShape'
    BY <1>1 DEF FacesShape, MatchFaces
  <1>6. OwnershipExclusive'
    BY <1>1 DEF OwnershipExclusive, Live, MatchFaces, saveVars, TypeOK
  <1> QED BY <1>2, <1>3, <1>4, <1>5, <1>6

LEMMA DeleteThreadInv ==
  ASSUME IInv, NEW t \in Slot, DeleteThread(t)
  PROVE  IInv'
  <1> USE DEF IInv
  <1>1. TypeOK'
    BY DEF TypeOK, DeleteThread, pruneVars
  <1>2. HistoryShape'
    BY DEF HistoryShape, DeleteThread
  <1>3. PrunerShape'
    BY DEF PrunerShape, DeleteThread, pruneVars
  <1>4. FacesShape'
    BY DEF FacesShape, DeleteThread
  <1>5. OwnershipExclusive'
    <2>1. t \in gThreads /\ gThreads' \cup gThreads_beingSerialized' = Live
      BY DEF TypeOK, DeleteThread, Live
    <2>2. \A u \in Slot : savePc'[u] # "idle" <=> u = t \/ savePc[u] # "idle"
      BY DEF TypeOK, DeleteThread
    <2> QED BY <2>1, <2>2 DEF OwnershipExclusive, Live, DeleteThread
  <1> QED BY <1>1, <1>2, <1>3, <1>4, <1>5

LEMMA SeedThreadsInv ==
  ASSUME IInv, SeedThreads
  PROVE  IInv'
  <1> USE DEF IInv
  <1> PICK new \in SUBSET (Slot \ Live) :
        /\ gThreads' = gThreads \cup new
        /\ pFaces' = [t \in Slot |-> IF t \in new THEN <<frame>> ELSE pFaces[t]]
    BY DEF SeedThreads
  <1>1. /\ <<frame>> \in Seq(Nat) /\ <<frame>> # <<>> /\ Ordered(<<frame>>)
        /\ \A i \in 1 .. Len(<<frame>>) : <<frame>>[i] <= frame
    BY DEF TypeOK, Ordered
  <1>2. \A t \in Slot : pFaces'[t] = IF t \in new THEN <<frame>> ELSE pFaces[t]
    OBVIOUS
  <1>3. mainPc' \in {"trim", "capture"}
    BY DEF SeedThreads
  <1>4. TypeOK'
    BY <1>1, <1>3 DEF TypeOK, SeedThreads, pruneVars, saveVars
  <1>5. HistoryShape'
    BY <1>3 DEF HistoryShape, SeedThreads
  <1>6. PrunerShape'
    BY DEF PrunerShape, SeedThreads, pruneVars
  <1>7. FacesShape'
    BY <1>1, <1>2, <1>3 DEF FacesShape, SeedThreads
  <1>8. OwnershipExclusive'
    <2>1. gThreads' \cap gThreads_beingSerialized' = {}
      BY DEF OwnershipExclusive, Live, SeedThreads
    <2>2. \A t \in Slot : savePc'[t] # "idle" <=> t \in gThreads_beingSerialized'
      BY DEF OwnershipExclusive, SeedThreads, saveVars
    <2>3. \A t \in Live' : t \in Slot /\ (t \in new \/ t \in Live)
      BY DEF Live, SeedThreads, TypeOK
    <2>4. \A t \in Live' : pFaces'[t] # <<>>
      BY <1>1, <1>2, <2>3 DEF OwnershipExclusive
    <2> QED BY <2>1, <2>2, <2>4 DEF OwnershipExclusive
  <1> QED BY <1>4, <1>5, <1>6, <1>7, <1>8

\* Replacing some lists by their pruneFacesList keeps all that is known of them.
LEMMA TrimmedFaces ==
  ASSUME IInv, NEW T \in SUBSET Live, frame' = frame, mainPc' # "match",
         pFaces' = [t \in Slot |-> IF t \in T THEN PruneFacesList(pFaces[t])
                                               ELSE pFaces[t]]
  PROVE  /\ pFaces' \in [Slot -> Seq(Nat)]
         /\ FacesShape'
         /\ \A t \in Live : pFaces'[t] # <<>> /\ pFaces'[t][1] >= pFaces[t][1]
  <1> USE DEF IInv
  <1>1. ASSUME NEW t \in Slot
        PROVE  /\ pFaces'[t] \in Seq(Nat)
               /\ Ordered(pFaces'[t])
               /\ \A i \in 1 .. Len(pFaces'[t]) : pFaces'[t][i] <= frame
               /\ t \in Live => pFaces'[t] # <<>> /\ pFaces'[t][1] >= pFaces[t][1]
    <2>1. /\ pFaces[t] \in Seq(Nat) /\ Ordered(pFaces[t]) /\ frame \in Nat
          /\ \A i \in 1 .. Len(pFaces[t]) : pFaces[t][i] <= frame
          /\ t \in Live => pFaces[t] # <<>>
      BY DEF TypeOK, FacesShape, OwnershipExclusive
    <2>2. CASE t \in T
      <3>1. pFaces'[t] = PruneFacesList(pFaces[t])
        BY <2>2
      <3> QED BY <2>1, <2>2, <3>1, PruneFacesListKeeps
    <2>3. CASE t \notin T
      <3>1. pFaces'[t] = pFaces[t]
        BY <2>3
      <3>2. t \in Live => pFaces[t][1] \in Nat
        BY <2>1
      <3> QED BY <2>1, <3>1, <3>2
    <2> QED BY <2>2, <2>3
  <1>2. Live \subseteq Slot
    BY DEF Live, TypeOK
  <1> QED BY <1>1, <1>2 DEF FacesShape

LEMMA TrimThreadsInv ==
  ASSUME IInv, TrimThreads
  PROVE  IInv'
  <1> USE DEF IInv
  <1>1. /\ pFaces' \in [Slot -> Seq(Nat)]
        /\ FacesShape'
        /\ \A t \in Live : pFaces'[t] # <<>>
    BY TrimmedFaces DEF TrimThreads, Live
  <1>2. TypeOK'
    BY <1>1 DEF TypeOK, TrimThreads, pruneVars, saveVars
  <1>3. HistoryShape'
    BY DEF HistoryShape, TrimThreads
  <1>4. PrunerShape'
    BY DEF PrunerShape, TrimThreads, pruneVars
  <1>5. OwnershipExclusive'
    BY <1>1 DEF OwnershipExclusive, Live, TrimThreads, saveVars
  <1> QED BY <1>1, <1>2, <1>3, <1>4, <1>5

LEMMA MainInv ==
  ASSUME IInv, Main
  PROVE  IInv'
  <1>1. CASE AddToHistory
    BY <1>1, AddToHistoryInv
  <1>2. CASE MatchFaces
    BY <1>2, MatchFacesInv
  <1>3. CASE \E t \in Slot : DeleteThread(t)
    BY <1>3, DeleteThreadInv
  <1>4. CASE SeedThreads
    BY <1>4, SeedThreadsInv
  <1>5. CASE TrimThreads
    BY <1>5, TrimThreadsInv
  <1>6. CASE EndOfInput \/ ExitProgram
    <2> USE <1>6 DEF IInv, EndOfInput, ExitProgram, pruneVars, saveVars
    <2>1. TypeOK'
      BY DEF TypeOK
    <2>2. HistoryShape' /\ PrunerShape'
      BY DEF HistoryShape, PrunerShape
    <2>3. FacesShape' /\ OwnershipExclusive'
      BY DEF FacesShape, OwnershipExclusive, Live
    <2> QED BY <2>1, <2>2, <2>3
  <1> QED BY <1>1, <1>2, <1>3, <1>4, <1>5, <1>6 DEF Main

-----------------------------------------------------------------------------
(* The steps of the pruner *)

\* One iteration of the pruning loop finds an entry and leaves enough of them.
LEMMA PruneErasePops ==
  ASSUME IInv, PruneErase
  PROVE  /\ Len(gHistory) > MIN_LIST_SIZE
         /\ gHistory' \in Seq(Nat)
         /\ Len(gHistory') = Len(gHistory) - 1
         /\ \A i \in 1 .. Len(gHistory') : gHistory'[i] = gHistory[i + 1]
         /\ Head(gHistory) = frame - Len(gHistory) + 1
  <1> USE DEF IInv
  <1>1. gHistory \in Seq(Nat) /\ Len(gHistory) \in Nat /\ MIN_LIST_SIZE \in Nat
        /\ frame \in Nat /\ listSize \in Nat
    BY ConstantsAssumption DEF TypeOK
  <1>2. Len(gHistory) > MIN_LIST_SIZE
    BY <1>1 DEF PruneErase, MayErase, PrunerShape
  <1>3. gHistory # <<>> /\ gHistory' = Tail(gHistory)
    BY <1>1, <1>2 DEF PruneErase
  <1>4. Head(gHistory) = gHistory[1]
    BY <1>1, <1>3
  <1> QED BY <1>1, <1>2, <1>3, <1>4 DEF HistoryShape

LEMMA PrunerInv ==
  ASSUME IInv, Pruner
  PROVE  IInv'
  <1> USE DEF IInv
  <1>1. Len(gHistory) \in Nat /\ MIN_LIST_SIZE \in Nat /\ MIN_LIST_SIZE > 0
    BY ConstantsAssumption DEF TypeOK
  <1>2. /\ UNCHANGED <<gThreads, gThreads_beingSerialized, pFaces>>
        /\ UNCHANGED <<frame, mainPc, missed, savePc, pass, itr, face, saved>>
    BY DEF Pruner, PruneWait, PruneSnapshot, PruneErase, PruneSleep, PruneWake,
           mainVars, saveVars
  <1>3. FacesShape' /\ OwnershipExclusive'
    BY <1>2 DEF FacesShape, OwnershipExclusive, Live
  <1>4. CASE PruneWait
    <2>1. TypeOK'
      BY <1>1, <1>2, <1>4 DEF TypeOK, PruneWait
    <2>2. HistoryShape' /\ PrunerShape'
      BY <1>1, <1>2, <1>4 DEF HistoryShape, PrunerShape, PruneWait
    <2> QED BY <1>3, <2>1, <2>2
  <1>5. CASE PruneSnapshot
    <2>1. ASSUME NEW t \in Live
          PROVE  Head(pFaces[t]) \in Nat
      <3>1. pFaces[t] \in Seq(Nat) /\ pFaces[t] # <<>>
        BY DEF TypeOK, OwnershipExclusive, Live
      <3> QED BY <3>1
    <2>2. minFrameToKeep' \in Nat \cup {NoFrame}
      BY <1>5, <2>1 DEF PruneSnapshot, FrontsToKeep
    <2>3. TypeOK'
      BY <1>2, <1>5, <2>2 DEF TypeOK, PruneSnapshot
    <2>4. HistoryShape' /\ PrunerShape'
      BY <1>2, <1>5 DEF HistoryShape, PrunerShape, PruneSnapshot
    <2> QED BY <1>3, <2>3, <2>4
  <1>6. CASE PruneErase
    <2>1. TypeOK'
      BY <1>2, <1>6, PruneErasePops DEF TypeOK, PruneErase
    <2>2. HistoryShape'
      <3>1. /\ Len(gHistory') = Len(gHistory) - 1 /\ Len(gHistory) > MIN_LIST_SIZE
            /\ \A i \in 1 .. Len(gHistory') : gHistory'[i] = gHistory[i + 1]
        BY <1>6, PruneErasePops
      <3>2. \A i \in 1 .. Len(gHistory) : gHistory[i] = frame - Len(gHistory) + i
        BY DEF HistoryShape
      <3>3. frame \in Nat /\ Len(gHistory) <= frame
        BY DEF TypeOK, HistoryShape
      <3>4. \A i \in 1 .. Len(gHistory') :
               gHistory'[i] = frame - Len(gHistory') + i
        <4> SUFFICES ASSUME NEW i \in 1 .. Len(gHistory')
                     PROVE  gHistory'[i] = frame - Len(gHistory') + i
          OBVIOUS
        <4>1. i + 1 \in 1 .. Len(gHistory) /\ gHistory'[i] = gHistory[i + 1]
          BY <1>1, <3>1
        <4> QED BY <1>1, <3>1, <3>2, <3>3, <4>1
      <3> QED BY <1>1, <1>2, <3>1, <3>3, <3>4 DEF HistoryShape
    <2>3. PrunerShape'
      BY <1>1, <1>6, PruneErasePops DEF PrunerShape, PruneErase
    <2> QED BY <1>3, <2>1, <2>2, <2>3
  <1>7. CASE PruneSleep
    <2>1. TypeOK'
      BY <1>2, <1>7 DEF TypeOK, PruneSleep
    <2>2. HistoryShape' /\ PrunerShape'
      BY <1>2, <1>7 DEF HistoryShape, PrunerShape, PruneSleep
    <2> QED BY <1>3, <2>1, <2>2
  <1>8. CASE PruneWake
    <2>1. TypeOK'
      BY <1>1, <1>2, <1>8 DEF TypeOK, PruneWake
    <2>2. HistoryShape' /\ PrunerShape'
      BY <1>1, <1>2, <1>8 DEF HistoryShape, PrunerShape, PruneWake
    <2> QED BY <1>3, <2>1, <2>2
  <1> QED BY <1>4, <1>5, <1>6, <1>7, <1>8 DEF Pruner

-----------------------------------------------------------------------------
(* The steps of the savers *)

SavePcs == {"idle", "trim", "seek", "walk", "register", "finish", "unserved"}
Passes  == {"image", "video", "smoothed"}

\* A step in which a saver that stays alive moves only its own variables.
SaverOnly(t) ==
  /\ UNCHANGED <<gHistory, gThreads, gThreads_beingSerialized, pFaces, lag>>
  /\ UNCHANGED <<frame, mainPc, missed, prunePc, listSize, minFrameToKeep>>
  /\ \E pc \in SavePcs \ {"idle"} : savePc' = [savePc EXCEPT ![t] = pc]
  /\ pass' \in [Slot -> Passes]
  /\ itr' \in [Slot -> Nat]
  /\ face' \in [Slot -> Nat]
  /\ saved' \in [Slot -> Nat]

LEMMA SaverOnlyInv ==
  ASSUME IInv, NEW t \in Slot, SaverOnly(t), savePc[t] # "idle"
  PROVE  IInv'
  <1> USE DEF IInv
  <1> PICK pc \in SavePcs \ {"idle"} : savePc' = [savePc EXCEPT ![t] = pc]
    BY DEF SaverOnly
  <1>1. savePc \in [Slot -> SavePcs]
    BY DEF TypeOK, SavePcs
  <1>2. savePc' \in [Slot -> SavePcs]
    BY <1>1
  <1>3. TypeOK'
    BY <1>2 DEF TypeOK, SaverOnly, SavePcs, Passes
  <1>4. HistoryShape' /\ PrunerShape'
    BY DEF HistoryShape, PrunerShape, SaverOnly
  <1>5. FacesShape'
    BY DEF FacesShape, SaverOnly
  <1>6. \A u \in Slot : savePc'[u] # "idle" <=> savePc[u] # "idle"
    BY <1>1
  <1>7. OwnershipExclusive'
    BY <1>6 DEF OwnershipExclusive, Live, SaverOnly
  <1> QED BY <1>3, <1>4, <1>5, <1>7

LEMMA SaverFinishInv ==
  ASSUME IInv, NEW t \in Slot, SaverFinish(t)
  PROVE  IInv'
  <1> USE DEF IInv
  <1>1. /\ pFaces' = [pFaces EXCEPT ![t] = <<>>]
        /\ savePc' = [savePc EXCEPT ![t] = "idle"]
        /\ gThreads_beingSerialized' = gThreads_beingSerialized \ {t}
        /\ UNCHANGED <<gHistory, gThreads, lag, frame, mainPc, missed,
                        prunePc, listSize, minFrameToKeep>>
    BY DEF SaverFinish, Return, mainVars, pruneVars
  <1>2. TypeOK'
    <2>1. <<>> \in Seq(Nat)
      OBVIOUS
    <2> QED BY <1>1, <2>1 DEF TypeOK, SaverFinish, Return, End
  <1>3. HistoryShape' /\ PrunerShape'
    BY <1>1 DEF HistoryShape, PrunerShape
  <1>4. FacesShape'
    BY <1>1 DEF FacesShape, Ordered, TypeOK
  <1>5. OwnershipExclusive'
    <2>1. t \in gThreads_beingSerialized /\ t \notin gThreads
      BY DEF SaverFinish, OwnershipExclusive
    <2>2. \A u \in Slot : savePc'[u] = IF u = t THEN "idle" ELSE savePc[u]
      BY <1>1 DEF TypeOK
    <2>3. \A u \in Slot : u # t => pFaces'[u] = pFaces[u]
      BY <1>1 DEF TypeOK
    <2>4. gThreads' \cap gThreads_beingSerialized' = {}
      BY <1>1 DEF OwnershipExclusive
    <2>5. \A u \in Slot : savePc'[u] # "idle" <=> u \in gThreads_beingSerialized'
      BY <1>1, <2>2 DEF OwnershipExclusive
    <2>6. \A u \in Live' : u \in Live /\ u # t /\ u \in Slot
      BY <1>1, <2>1 DEF Live, TypeOK
    <2>7. \A u \in Live' : pFaces'[u] # <<>>
      BY <2>3, <2>6 DEF OwnershipExclusive
    <2> QED BY <2>4, <2>5, <2>7 DEF OwnershipExclusive
  <1> QED BY <1>2, <1>3, <1>4, <1>5

LEMMA SaverTrimInv ==
  ASSUME IInv, NEW t \in Slot, SaverTrim(t)
  PROVE  IInv'
  <1> USE DEF IInv
  <1>1. t \in Live
    BY DEF SaverTrim, OwnershipExclusive, Live
  <1>2. pFaces' = [u \in Slot |-> IF u \in {t} THEN PruneFacesList(pFaces[u])
                                              ELSE pFaces[u]]
    BY DEF SaverTrim, TypeOK
  <1>3. PICK pc \in {"seek", "finish"} : savePc' = [savePc EXCEPT ![t] = pc]
    BY DEF SaverTrim
  <1>4. UNCHANGED <<gHistory, gThreads, gThreads_beingSerialized, lag, frame,
                    missed, mainPc, prunePc, listSize, minFrameToKeep>>
    BY DEF SaverTrim, mainVars, pruneVars
  <1>5. TypeOK'
    <2>1. pFaces' \in [Slot -> Seq(Nat)]
      <3>1. \A u \in Slot : pFaces'[u] \in Seq(Nat)
        <4> TAKE u \in Slot
        <4>1. pFaces[u] \in Seq(Nat)
          BY DEF TypeOK
        <4>2. u = t => PruneFacesList(pFaces[u]) \in Seq(Nat)
          BY <1>1, <4>1, PruneFacesListKeeps DEF OwnershipExclusive, FacesShape
        <4> QED BY <1>2, <4>1, <4>2
      <3> QED BY <1>2, <3>1
    <2> QED BY <1>3, <1>4, <2>1 DEF TypeOK, SaverTrim
  <1>6. HistoryShape' /\ PrunerShape'
    BY <1>4 DEF HistoryShape, PrunerShape
  <1>7. ASSUME NEW u \in Slot
        PROVE  \/ pFaces'[u] = pFaces[u]
               \/ /\ u = t
                  /\ pFaces'[u] # <<>>
                  /\ Ordered(pFaces'[u])
                  /\ \A i \in 1 .. Len(pFaces'[u]) :
                       \E j \in 1 .. Len(pFaces[u]) : pFaces'[u][i] = pFaces[u][j]
    <2>1. pFaces[t] \in Seq(Nat) /\ pFaces[t] # <<>> /\ Ordered(pFaces[t])
      BY <1>1 DEF TypeOK, OwnershipExclusive, FacesShape
    <2>2. CASE u = t
      <3> DEFINE r == PruneFacesList(pFaces[t])
      <3>1. pFaces'[u] = r
        BY <1>2, <2>2
      <3>2. /\ r # <<>> /\ Ordered(r)
            /\ \A i \in 1 .. Len(r) : \E j \in 1 .. Len(pFaces[t]) : r[i] = pFaces[t][j]
        BY <2>1, PruneFacesListKeeps
      <3> HIDE DEF r
      <3> QED BY <2>2, <3>1, <3>2
    <2>3. CASE u # t
      BY <1>2, <2>3
    <2> QED BY <2>2, <2>3
  <1>8. FacesShape'
    BY <1>4, <1>7 DEF FacesShape
  <1>9. OwnershipExclusive'
    <2>1. \A u \in Slot : savePc'[u] # "idle" <=> savePc[u] # "idle"
      BY <1>3 DEF SaverTrim, TypeOK
    <2>2. \A u \in Live' : u \in Live /\ u \in Slot
      BY <1>4 DEF Live, TypeOK
    <2>3. \A u \in Live' : pFaces'[u] # <<>>
      BY <1>7, <2>2 DEF OwnershipExclusive
    <2> QED BY <1>4, <2>1, <2>3 DEF OwnershipExclusive
  <1> QED BY <1>5, <1>6, <1>8, <1>9

\* The faces a pass visits are in order, from the first face of the thread on.
LEMMA VisitShape ==
  ASSUME IInv, NEW t \in Live
  PROVE  /\ Visit(t) \in Seq(Nat)
         /\ Visit(t) # <<>>
         /\ Ordered(Visit(t))
         /\ Visit(t)[1] = pFaces[t][1]
         /\ Head(Visit(t)) = pFaces[t][1]
         /\ Head(pFaces[t]) = pFaces[t][1]
         /\ \A i \in 1 .. Len(Visit(t)) : Visit(t)[i] <= frame
  <1> DEFINE s == pFaces[t]
             n == s[Len(s)] - s[1] + 1
             v == [i \in 1 .. n |-> s[1] + i - 1]
  <1>1. /\ s \in Seq(Nat) /\ s # <<>> /\ Ordered(s)
        /\ \A i \in 1 .. Len(s) : s[i] <= frame
    BY DEF IInv, TypeOK, FacesShape, OwnershipExclusive, Live
  <1>2. /\ Len(s) \in Nat /\ Len(s) > 0 /\ Head(s) = s[1] /\ frame \in Nat
        /\ \A i \in 1 .. Len(s) : s[i] \in Nat
    BY <1>1 DEF IInv, TypeOK
  <1>3. CASE pass[t] # "smoothed"
    <2>1. Visit(t) = s
      BY <1>3 DEF Visit
    <2>2. s[1] = pFaces[t][1]
      OBVIOUS
    <2> HIDE DEF s
    <2> QED BY <1>1, <1>2, <2>1, <2>2
  <1>4. CASE pass[t] = "smoothed"
    <2>1. Visit(t) = v
      BY <1>2, <1>4 DEF Visit
    <2>2. n \in Nat /\ n > 0 /\ s[1] \in Nat /\ s[Len(s)] <= frame
      <3>1. s[1] <= s[Len(s)]
        BY <1>1, <1>2 DEF Ordered
      <3>2. 1 \in 1 .. Len(s) /\ Len(s) \in 1 .. Len(s)
        BY <1>2
      <3>3. s[1] \in Nat /\ s[Len(s)] \in Nat /\ s[Len(s)] <= frame
        BY <1>1, <1>2, <3>2
      <3> HIDE DEF s
      <3> QED BY <3>1, <3>3
    <2>3. s[1] + n - 1 = s[Len(s)] /\ s[Len(s)] \in Nat
      BY <1>2
    <2> HIDE DEF n, s
    <2>4. /\ v \in Seq(Nat) /\ Len(v) = n
          /\ \A i \in 1 .. n : v[i] = s[1] + i - 1
      BY <2>2
    <2> HIDE DEF v
    <2>5. v # <<>> /\ v[1] = s[1] /\ Head(v) = v[1]
      <3>1. v # <<>> /\ Head(v) = v[1]
        BY <2>2, <2>4
      <3>2. 1 \in 1 .. n
        BY <2>2
      <3>3. v[1] = s[1] + 1 - 1
        BY <2>4, <3>2
      <3> QED BY <2>2, <3>1, <3>3
    <2>6. Ordered(v)
      <3> SUFFICES ASSUME NEW i \in 1 .. n, NEW j \in 1 .. n, i < j
                   PROVE  v[i] < v[j]
        BY <2>4 DEF Ordered
      <3>1. v[i] = s[1] + i - 1 /\ v[j] = s[1] + j - 1
        BY <2>4
      <3> QED BY <2>2, <3>1
    <2>7. \A i \in 1 .. Len(v) : v[i] <= frame
      <3> SUFFICES ASSUME NEW i \in 1 .. n PROVE v[i] <= frame
        BY <2>4
      <3>1. v[i] = s[1] + i - 1
        BY <2>4
      <3> QED BY <1>2, <2>2, <2>3, <3>1
    <2>8. s[1] = pFaces[t][1]
      BY DEF s
    <2> QED BY <1>2, <2>1, <2>4, <2>5, <2>6, <2>7, <2>8
  <1> QED BY <1>3, <1>4

LEMMA ReturnType ==
  ASSUME TypeOK, NEW t \in Slot, NEW pc, Return(t, pc)
  PROVE  /\ savePc' = [savePc EXCEPT ![t] = pc]
         /\ itr' \in [Slot -> Nat]
         /\ face' \in [Slot -> Nat]
         /\ saved' \in [Slot -> Nat]
  BY DEF Return, TypeOK, End

LEMMA NextPassType ==
  ASSUME TypeOK, NEW t \in Slot, NextPass(t)
  PROVE  /\ \E pc \in SavePcs \ {"idle"} : savePc' = [savePc EXCEPT ![t] = pc]
         /\ pass' \in [Slot -> Passes]
         /\ itr' \in [Slot -> Nat]
         /\ face' \in [Slot -> Nat]
         /\ saved' \in [Slot -> Nat]
  <1>1. pass' \in [Slot -> Passes]
    BY DEF NextPass, TypeOK, Passes
  <1> QED BY <1>1, ReturnType DEF NextPass, SavePcs

LEMMA SaverInv ==
  ASSUME IInv, NEW t \in Slot, Saver(t)
  PROVE  IInv'
  <1> DEFINE Others ==
        /\ UNCHANGED <<gHistory, gThreads, gThreads_beingSerialized, pFaces, lag>>
        /\ UNCHANGED <<frame, mainPc, missed, prunePc, listSize, minFrameToKeep>>
  <1>1. TypeOK /\ HistoryShape
    BY DEF IInv
  <1>2. \A f \in Nat : FirstFrom(f) \in Nat
    BY <1>1, FirstFromValue
  <1>3. CASE SaverTrim(t)
    BY <1>3, SaverTrimInv
  <1>4. CASE SaverFinish(t)
    BY <1>4, SaverFinishInv
  <1>5. CASE SaverSkip(t)
    <2>1. SaverOnly(t)
      BY <1>1, <1>5, NextPassType DEF SaverSkip, SaverOnly, mainVars, pruneVars
    <2> QED BY <1>5, <2>1, SaverOnlyInv DEF SaverSkip
  <1>6. CASE SaverRegister(t)
    <2>1. SaverOnly(t)
      BY <1>1, <1>6, NextPassType DEF SaverRegister, SaverOnly, mainVars, pruneVars
    <2> QED BY <1>6, <2>1, SaverOnlyInv DEF SaverRegister
  <1>7. CASE SaverPass(t)
    <2>1. itr' \in [Slot -> Nat]
      BY <1>1, <1>2, <1>7 DEF SaverPass, TypeOK
    <2>2. savePc' = [savePc EXCEPT ![t] = "walk"]
      BY <1>1, <1>7 DEF SaverPass, TypeOK
    <2>3. SaverOnly(t)
      BY <1>1, <1>7, <2>1, <2>2
         DEF SaverPass, SaverOnly, mainVars, pruneVars, TypeOK, SavePcs, Passes
    <2> QED BY <1>7, <2>3, SaverOnlyInv DEF SaverPass
  <1>8. CASE SaverSeek(t)
    <2>1. t \in Live
      BY <1>8 DEF SaverSeek, IInv, OwnershipExclusive, Live
    <2>2. Head(Visit(t)) \in Nat
      BY <2>1, VisitShape DEF IInv, TypeOK, Live
    <2>3. Others
      BY <1>8 DEF SaverSeek, mainVars, pruneVars
    <2>4. ASSUME itr' = [itr EXCEPT ![t] = FirstFrom(Head(Visit(t)))],
                 savePc' = [savePc EXCEPT ![t] = "walk"],
                 UNCHANGED <<pass, face, saved>>
          PROVE  SaverOnly(t)
      BY <1>1, <1>2, <2>2, <2>3, <2>4 DEF SaverOnly, TypeOK, SavePcs, Passes
    <2>5. ASSUME NextPass(t)
          PROVE  SaverOnly(t)
      BY <1>1, <2>3, <2>5, NextPassType DEF SaverOnly
    <2>6. SaverOnly(t)
      BY <1>8, <2>4, <2>5 DEF SaverSeek
    <2> QED BY <1>8, <2>6, SaverOnlyInv DEF SaverSeek
  <1>9. CASE SaverWrite(t)
    <2>1. Others
      BY <1>9 DEF SaverWrite, mainVars, pruneVars
    <2>2. ASSUME Return(t, "register"), UNCHANGED pass
          PROVE  SaverOnly(t)
      BY <1>1, <2>1, <2>2, ReturnType DEF SaverOnly, SavePcs, Passes, TypeOK
    <2>3. ASSUME NextPass(t)
          PROVE  SaverOnly(t)
      BY <1>1, <2>1, <2>3, NextPassType DEF SaverOnly
    <2>4. ASSUME NEW counts \in BOOLEAN,
                 saved' = [saved EXCEPT ![t] = IF counts THEN @ + 1 ELSE @],
                 face' = [face EXCEPT ![t] = @ + 1],
                 itr' = [itr EXCEPT ![t] = FirstFrom(@ + 1)],
                 UNCHANGED <<savePc, pass>>
          PROVE  SaverOnly(t)
      <3>1. saved' \in [Slot -> Nat] /\ face' \in [Slot -> Nat]
        BY <1>1, <2>4 DEF TypeOK
      <3>2. itr' \in [Slot -> Nat]
        BY <1>1, <1>2, <2>4 DEF TypeOK
      <3>3. savePc' = [savePc EXCEPT ![t] = "walk"]
        BY <1>1, <1>9, <2>4 DEF SaverWrite, TypeOK
      <3> QED BY <1>1, <2>1, <2>4, <3>1, <3>2, <3>3
                 DEF SaverOnly, SavePcs, Passes, TypeOK
    <2>5. SaverOnly(t)
      BY <1>9, <2>2, <2>3, <2>4 DEF SaverWrite
    <2> QED BY <1>9, <2>5, SaverOnlyInv DEF SaverWrite
  <1>10. CASE SaverEndWalk(t)
    <2>1. Others
      BY <1>10 DEF SaverEndWalk, mainVars, pruneVars
    <2>2. ASSUME Return(t, "register"), UNCHANGED pass
          PROVE  SaverOnly(t)
      BY <1>1, <2>1, <2>2, ReturnType DEF SaverOnly, SavePcs, Passes, TypeOK
    <2>3. ASSUME NextPass(t)
          PROVE  SaverOnly(t)
      BY <1>1, <2>1, <2>3, NextPassType DEF SaverOnly
    <2>4. SaverOnly(t)
      BY <1>10, <2>2, <2>3 DEF SaverEndWalk
    <2> QED BY <1>10, <2>4, SaverOnlyInv DEF SaverEndWalk
  <1> QED BY <1>3, <1>4, <1>5, <1>6, <1>7, <1>8, <1>9, <1>10 DEF Saver

-----------------------------------------------------------------------------
(* The first theorems *)

LEMMA StepInv == IInv /\ [Next]_vars => IInv'
  <1> SUFFICES ASSUME IInv, [Next]_vars PROVE IInv'
    OBVIOUS
  <1>1. CASE Main
    BY <1>1, MainInv
  <1>2. CASE Pruner
    BY <1>2, PrunerInv
  <1>3. CASE \E t \in Slot : Saver(t)
    BY <1>3, SaverInv
  <1>4. CASE UNCHANGED vars
    <2> USE <1>4 DEF IInv, vars, mainVars, pruneVars, saveVars
    <2>1. TypeOK'
      BY DEF TypeOK
    <2>2. HistoryShape' /\ PrunerShape'
      BY DEF HistoryShape, PrunerShape
    <2>3. FacesShape' /\ OwnershipExclusive'
      BY DEF FacesShape, OwnershipExclusive, Live
    <2> QED BY <2>1, <2>2, <2>3
  <1> QED BY <1>1, <1>2, <1>3, <1>4 DEF Next, Exited

LEMMA Inductive == Spec => []IInv
  <1> QED BY InitInv, StepInv, PTL DEF Spec

\* Every variable keeps its type, whatever the threads do and however slow the
\* pruner is.
THEOREM TypeCorrect == Spec => []TypeOK
  <1>1. IInv => TypeOK
    BY DEF IInv
  <1> QED BY <1>1, Inductive, PTL

\* The list shared without a lock never runs short: the pruner leaves
\* MIN_LIST_SIZE entries and main finds the entry it has just added.
THEOREM HistoryNeverShort == Spec => []HistoryFloor
  <1>1. IInv => HistoryFloor
    <2> SUFFICES ASSUME IInv PROVE HistoryFloor
      OBVIOUS
    <2>1. gHistory \in Seq(Nat) /\ Len(gHistory) \in Nat /\ frame \in Nat
      BY DEF IInv, TypeOK
    <2>2. ASSUME frame > 0
          PROVE  gHistory # <<>> /\ gHistory[Len(gHistory)] = frame
      BY <2>1, <2>2 DEF IInv, HistoryShape
    <2> QED BY <2>2 DEF IInv, PrunerShape, HistoryFloor
  <1> QED BY <1>1, Inductive, PTL

\* Every face thread has one owner, and one with an owner has a face.
THEOREM OneOwner == Spec => []OwnershipExclusive
  <1>1. IInv => OwnershipExclusive
    BY DEF IInv
  <1> QED BY <1>1, Inductive, PTL

-----------------------------------------------------------------------------
(***************************************************************************)
(* No frame that a face thread needs is ever released, provided main adds  *)
(* fewer than MIN_LIST_SIZE frames during one pass of the pruner.  The     *)
(* proviso is what MIN_LIST_SIZE is for, and it is needed: the run         *)
(* FaceHistoryStall exhibits the loss without it.                          *)
(***************************************************************************)

PrunerKeepsUp == StallBound < MIN_LIST_SIZE

\* The oldest face of every live thread is in the history.
FrontsHeld == \A t \in Live : pFaces[t][1] > frame - Len(gHistory)

\* The minimum that the pruner works with may be stale, but only by the
\* frames added since, and face threads born since then need only those.
CutSafe ==
  prunePc = "cut" =>
    /\ lag <= StallBound
    /\ minFrameToKeep = NoFrame => \A t \in Live : pFaces[t][1] >= frame - lag
    /\ minFrameToKeep # NoFrame =>
         /\ minFrameToKeep <= frame
         /\ \A t \in Live : pFaces[t][1] >= minFrameToKeep

KeepInv == FrontsHeld /\ CutSafe

\* The oldest face of a live thread is a captured frame.
LEMMA FrontType ==
  ASSUME IInv, NEW t \in Live
  PROVE  pFaces[t][1] \in Nat /\ pFaces[t][1] <= frame
  <1>1. /\ pFaces[t] \in Seq(Nat) /\ pFaces[t] # <<>>
        /\ \A i \in 1 .. Len(pFaces[t]) : pFaces[t][i] <= frame
    BY DEF IInv, TypeOK, FacesShape, OwnershipExclusive, Live
  <1>2. 1 \in 1 .. Len(pFaces[t])
    BY <1>1
  <1> QED BY <1>1, <1>2

\* A step that shortens no history and moves no face thread backwards is safe.
LEMMA FrontsForward ==
  ASSUME IInv, IInv', KeepInv,
         UNCHANGED <<gHistory, frame, prunePc, minFrameToKeep, lag>>,
         \A t \in Live' : \/ t \in Live /\ pFaces'[t][1] >= pFaces[t][1]
                          \/ pFaces'[t][1] = frame /\ frame > 0
  PROVE  KeepInv'
  <1>1. /\ frame \in Nat /\ Len(gHistory) \in Nat /\ lag \in Nat
        /\ minFrameToKeep \in Nat \cup {NoFrame}
        /\ frame > 0 => Len(gHistory) > 0
    BY DEF IInv, TypeOK, HistoryShape
  <1>2. \A t \in Live : pFaces[t][1] \in Nat
    BY FrontType
  <1>3. \A t \in Live' : pFaces'[t][1] \in Nat
    <2>1. ASSUME NEW t \in Live' PROVE pFaces'[t][1] \in Nat
      <3>1. /\ pFaces'[t] \in Seq(Nat) /\ pFaces'[t] # <<>>
        BY DEF IInv, TypeOK, OwnershipExclusive, Live
      <3>2. 1 \in 1 .. Len(pFaces'[t])
        BY <3>1
      <3> QED BY <3>1, <3>2
    <2> QED BY <2>1
  <1>4. FrontsHeld'
    <2> SUFFICES ASSUME NEW t \in Live'
                 PROVE  pFaces'[t][1] > frame - Len(gHistory)
      BY DEF FrontsHeld
    <2> QED BY <1>1, <1>2, <1>3 DEF KeepInv, FrontsHeld
  <1>5. CutSafe'
    <2> SUFFICES ASSUME prunePc = "cut"
                 PROVE  /\ lag <= StallBound
                        /\ minFrameToKeep = NoFrame =>
                             \A t \in Live' : pFaces'[t][1] >= frame - lag
                        /\ minFrameToKeep # NoFrame =>
                             /\ minFrameToKeep <= frame
                             /\ \A t \in Live' : pFaces'[t][1] >= minFrameToKeep
      BY DEF CutSafe
    <2>1. ASSUME minFrameToKeep = NoFrame, NEW t \in Live'
          PROVE  pFaces'[t][1] >= frame - lag
      BY <1>1, <1>2, <1>3, <2>1 DEF KeepInv, CutSafe
    <2>2. ASSUME minFrameToKeep # NoFrame, NEW t \in Live'
          PROVE  pFaces'[t][1] >= minFrameToKeep
      BY <1>1, <1>2, <1>3, <2>2 DEF KeepInv, CutSafe
    <2> QED BY <2>1, <2>2 DEF KeepInv, CutSafe
  <1> QED BY <1>4, <1>5 DEF KeepInv

LEMMA MainKeeps ==
  ASSUME IInv, IInv', KeepInv, Main
  PROVE  KeepInv'
  <1>1. CASE AddToHistory
    <2>1. /\ Live' = Live /\ pFaces' = pFaces /\ frame' = frame + 1
          /\ gHistory' = Append(gHistory, frame + 1)
          /\ prunePc' = prunePc /\ minFrameToKeep' = minFrameToKeep
          /\ prunePc = "cut" => lag < StallBound /\ lag' = lag + 1
      BY <1>1 DEF AddToHistory, Live, pruneVars
    <2>2. /\ frame \in Nat /\ lag \in Nat /\ Len(gHistory) \in Nat
          /\ Len(gHistory') = Len(gHistory) + 1
          /\ minFrameToKeep \in Nat \cup {NoFrame} /\ StallBound \in Nat
      BY <2>1, ConstantsAssumption DEF IInv, TypeOK
    <2>3. \A t \in Live : pFaces[t][1] \in Nat
      BY FrontType
    <2>4. FrontsHeld'
      BY <2>1, <2>2, <2>3 DEF KeepInv, FrontsHeld
    <2>5. CutSafe'
      BY <2>1, <2>2, <2>3 DEF KeepInv, CutSafe
    <2> QED BY <2>4, <2>5 DEF KeepInv
  <1>2. CASE MatchFaces
    <2>1. UNCHANGED <<gHistory, frame, prunePc, minFrameToKeep, lag, gThreads,
                      gThreads_beingSerialized>>
      BY <1>2 DEF MatchFaces, pruneVars
    <2>2. ASSUME NEW t \in Live
          PROVE  pFaces'[t][1] = pFaces[t][1]
      <3>1. /\ pFaces[t] \in Seq(Nat) /\ pFaces[t] # <<>> /\ frame \in Nat
            /\ t \in Slot
        BY DEF IInv, TypeOK, OwnershipExclusive, Live
      <3>2. Append(pFaces[t], frame)[1] = pFaces[t][1]
        BY <3>1
      <3>3. \/ pFaces'[t] = Append(pFaces[t], frame)
            \/ pFaces'[t] = pFaces[t]
        BY <1>2, <3>1 DEF MatchFaces
      <3> QED BY <3>2, <3>3
    <2>3. \A t \in Live' : t \in Live /\ pFaces'[t][1] >= pFaces[t][1]
      BY <2>1, <2>2, FrontType DEF Live
    <2> QED BY <2>1, <2>3, FrontsForward
  <1>3. CASE \E t \in Slot : DeleteThread(t)
    <2>1. UNCHANGED <<gHistory, frame, prunePc, minFrameToKeep, lag, pFaces>>
      BY <1>3 DEF DeleteThread, pruneVars
    <2>2. Live' = Live
      BY <1>3 DEF DeleteThread, Live, IInv, TypeOK
    <2>3. \A t \in Live' : t \in Live /\ pFaces'[t][1] >= pFaces[t][1]
      BY <2>1, <2>2, FrontType
    <2> QED BY <2>1, <2>3, FrontsForward
  <1>4. CASE SeedThreads
    <2>1. UNCHANGED <<gHistory, frame, prunePc, minFrameToKeep, lag>>
      BY <1>4 DEF SeedThreads, pruneVars
    <2>2. PICK new \in SUBSET (Slot \ Live) :
            /\ gThreads' = gThreads \cup new
            /\ pFaces' = [t \in Slot |-> IF t \in new THEN <<frame>> ELSE pFaces[t]]
      BY <1>4 DEF SeedThreads
    <2>3. frame > 0
      BY <1>4 DEF SeedThreads, IInv, HistoryShape
    <2>4. ASSUME NEW t \in Live'
          PROVE  \/ t \in Live /\ pFaces'[t][1] >= pFaces[t][1]
                 \/ pFaces'[t][1] = frame /\ frame > 0
      <3>1. t \in Slot /\ (t \in new \/ t \in Live)
        BY <1>4, <2>2 DEF SeedThreads, Live, IInv, TypeOK
      <3>2. CASE t \in new
        BY <2>2, <2>3, <3>1, <3>2
      <3>3. CASE t \notin new
        BY <2>2, <3>1, <3>3, FrontType
      <3> QED BY <3>2, <3>3
    <2> QED BY <2>1, <2>4, FrontsForward
  <1>5. CASE TrimThreads
    <2>1. UNCHANGED <<gHistory, frame, prunePc, minFrameToKeep, lag, gThreads,
                      gThreads_beingSerialized>>
      BY <1>5 DEF TrimThreads, pruneVars
    <2>2. \A t \in Live' : t \in Live /\ pFaces'[t][1] >= pFaces[t][1]
      BY <1>5, <2>1, TrimmedFaces DEF TrimThreads, Live
    <2> QED BY <2>1, <2>2, FrontsForward
  <1>6. CASE EndOfInput \/ ExitProgram
    <2>1. UNCHANGED <<gHistory, frame, prunePc, minFrameToKeep, lag, gThreads,
                      gThreads_beingSerialized, pFaces>>
      BY <1>6 DEF EndOfInput, ExitProgram, pruneVars
    <2>2. \A t \in Live' : t \in Live /\ pFaces'[t][1] >= pFaces[t][1]
      BY <2>1, FrontType DEF Live
    <2> QED BY <2>1, <2>2, FrontsForward
  <1> QED BY <1>1, <1>2, <1>3, <1>4, <1>5, <1>6 DEF Main

LEMMA PrunerKeeps ==
  ASSUME PrunerKeepsUp, IInv, IInv', KeepInv, Pruner
  PROVE  KeepInv'
  <1>1. /\ UNCHANGED <<gThreads, gThreads_beingSerialized, pFaces, frame>>
        /\ Live' = Live
    BY DEF Pruner, PruneWait, PruneSnapshot, PruneErase, PruneSleep, PruneWake,
           mainVars, Live
  <1>2. /\ frame \in Nat /\ lag \in Nat /\ Len(gHistory) \in Nat
        /\ minFrameToKeep \in Nat \cup {NoFrame}
        /\ StallBound \in Nat /\ MIN_LIST_SIZE \in Nat
    BY ConstantsAssumption DEF IInv, TypeOK
  <1>3. \A t \in Live : pFaces[t][1] \in Nat /\ pFaces[t][1] <= frame
    BY FrontType
  <1>4. CASE PruneWait \/ PruneSleep \/ PruneWake
    <2>1. gHistory' = gHistory /\ prunePc' # "cut"
      BY <1>4 DEF PruneWait, PruneSleep, PruneWake
    <2> QED BY <1>1, <2>1 DEF KeepInv, FrontsHeld, CutSafe
  <1>5. CASE PruneSnapshot
    <2>1. gHistory' = gHistory /\ lag' = lag /\ lag = 0
      BY <1>5 DEF PruneSnapshot, IInv, PrunerShape
    <2>2. \A t \in Live : Head(pFaces[t]) = pFaces[t][1]
      BY VisitShape DEF IInv
    <2>3. \/ Live = {} /\ minFrameToKeep' = NoFrame
          \/ /\ \E t \in Live : minFrameToKeep' = pFaces[t][1]
             /\ \A t \in Live : minFrameToKeep' <= pFaces[t][1]
      BY <1>5, <2>2 DEF PruneSnapshot, FrontsToKeep
    <2>4. FrontsHeld'
      BY <1>1, <2>1 DEF KeepInv, FrontsHeld
    <2>5. CASE Live = {} /\ minFrameToKeep' = NoFrame
      BY <1>1, <1>2, <2>1, <2>4, <2>5 DEF KeepInv, CutSafe
    <2>6. CASE /\ \E t \in Live : minFrameToKeep' = pFaces[t][1]
               /\ \A t \in Live : minFrameToKeep' <= pFaces[t][1]
      <3>1. minFrameToKeep' \in Nat /\ minFrameToKeep' <= frame
        BY <1>3, <2>6
      <3>2. minFrameToKeep' # NoFrame
        BY <3>1 DEF NoFrame
      <3>3. \A t \in Live : pFaces[t][1] >= minFrameToKeep'
        BY <1>3, <2>6, <3>1
      <3> QED BY <1>1, <1>2, <2>1, <2>4, <3>1, <3>2, <3>3 DEF KeepInv, CutSafe
    <2> QED BY <2>3, <2>5, <2>6
  <1>6. CASE PruneErase
    <2>1. /\ Len(gHistory) > MIN_LIST_SIZE
          /\ Len(gHistory') = Len(gHistory) - 1
          /\ Head(gHistory) = frame - Len(gHistory) + 1
      BY <1>6, PruneErasePops
    <2>2. /\ prunePc = "cut" /\ UNCHANGED <<lag, minFrameToKeep, prunePc>>
          /\ minFrameToKeep = NoFrame \/ Head(gHistory) < minFrameToKeep
      BY <1>6 DEF PruneErase, MayErase
    <2>3. CutSafe'
      BY <1>1, <2>2 DEF KeepInv, CutSafe
    <2>4. FrontsHeld'
      <3> SUFFICES ASSUME NEW t \in Live
                   PROVE  pFaces[t][1] > frame - (Len(gHistory) - 1)
        BY <1>1, <2>1 DEF FrontsHeld
      <3>1. CASE minFrameToKeep = NoFrame
        <4>1. pFaces[t][1] >= frame - lag /\ lag <= StallBound
          BY <2>2, <3>1 DEF KeepInv, CutSafe
        <4> QED BY <1>2, <1>3, <2>1, <4>1 DEF PrunerKeepsUp
      <3>2. CASE minFrameToKeep # NoFrame
        <4>1. pFaces[t][1] >= minFrameToKeep /\ minFrameToKeep \in Nat
          BY <1>2, <2>2, <3>2 DEF KeepInv, CutSafe
        <4> QED BY <1>2, <1>3, <2>1, <2>2, <3>2, <4>1
      <3> QED BY <3>1, <3>2
    <2> QED BY <2>3, <2>4 DEF KeepInv
  <1> QED BY <1>4, <1>5, <1>6 DEF Pruner

LEMMA SaverKeeps ==
  ASSUME IInv, IInv', KeepInv, NEW s \in Slot, Saver(s)
  PROVE  KeepInv'
  <1>1. UNCHANGED <<gHistory, frame, prunePc, minFrameToKeep, lag, gThreads>>
    BY DEF Saver, SaverTrim, SaverSkip, SaverSeek, SaverPass, SaverWrite,
           SaverEndWalk, SaverRegister, SaverFinish, mainVars, pruneVars
  <1>2. CASE SaverTrim(s)
    <2>1. s \in Live /\ Live' = Live
      BY <1>1, <1>2 DEF SaverTrim, IInv, OwnershipExclusive, Live
    <2>2. pFaces' = [t \in Slot |-> IF t \in {s} THEN PruneFacesList(pFaces[t])
                                                 ELSE pFaces[t]]
      BY <1>2 DEF SaverTrim, IInv, TypeOK
    <2>4. \A t \in Live : pFaces'[t][1] >= pFaces[t][1]
      <3> SUFFICES ASSUME NEW t \in Live PROVE pFaces'[t][1] >= pFaces[t][1]
        OBVIOUS
      <3>1. /\ pFaces[t] \in Seq(Nat) /\ pFaces[t] # <<>> /\ Ordered(pFaces[t])
            /\ t \in Slot
        BY DEF IInv, TypeOK, FacesShape, OwnershipExclusive, Live
      <3>2. CASE t = s
        BY <2>2, <3>1, <3>2, PruneFacesListKeeps
      <3>3. CASE t # s
        BY <2>2, <3>1, <3>3, FrontType
      <3> QED BY <3>2, <3>3
    <2> QED BY <1>1, <2>1, <2>4, FrontsForward
  <1>3. CASE SaverFinish(s)
    <2>1. /\ gThreads_beingSerialized' = gThreads_beingSerialized \ {s}
          /\ pFaces' = [pFaces EXCEPT ![s] = <<>>]
      BY <1>3 DEF SaverFinish
    <2>2. s \notin Live' /\ Live' \subseteq Live /\ Live \subseteq Slot
      BY <1>1, <1>3, <2>1 DEF SaverFinish, Live, IInv, TypeOK, OwnershipExclusive
    <2>3. \A t \in Live' : t \in Live /\ pFaces'[t] = pFaces[t]
      BY <2>1, <2>2 DEF IInv, TypeOK
    <2>4. \A t \in Live' : t \in Live /\ pFaces'[t][1] >= pFaces[t][1]
      BY <2>3, FrontType
    <2> QED BY <1>1, <2>4, FrontsForward
  <1>4. CASE \/ SaverSkip(s) \/ SaverSeek(s) \/ SaverPass(s)
             \/ SaverWrite(s) \/ SaverEndWalk(s) \/ SaverRegister(s)
    <2>1. UNCHANGED <<gThreads_beingSerialized, pFaces>>
      BY <1>4 DEF SaverSkip, SaverSeek, SaverPass, SaverWrite, SaverEndWalk,
                  SaverRegister
    <2>2. \A t \in Live' : t \in Live /\ pFaces'[t][1] >= pFaces[t][1]
      BY <1>1, <2>1, FrontType DEF Live
    <2> QED BY <1>1, <2>2, FrontsForward
  <1> QED BY <1>2, <1>3, <1>4 DEF Saver

LEMMA InductiveKeep == PrunerKeepsUp => (Spec => []KeepInv)
  <1> SUFFICES ASSUME PrunerKeepsUp PROVE Spec => []KeepInv
    OBVIOUS
  <1>1. Init => KeepInv
    BY DEF Init, KeepInv, FrontsHeld, CutSafe, Live
  <1>2. IInv /\ IInv' /\ KeepInv /\ [Next]_vars => KeepInv'
    <2> SUFFICES ASSUME IInv, IInv', KeepInv, [Next]_vars PROVE KeepInv'
      OBVIOUS
    <2>1. CASE UNCHANGED vars
      BY <2>1 DEF KeepInv, FrontsHeld, CutSafe, Live, vars, mainVars, pruneVars
    <2> QED BY <2>1, MainKeeps, PrunerKeeps, SaverKeeps DEF Next, Exited
  <1> QED BY <1>1, <1>2, Inductive, PTL DEF Spec

\* As long as main adds fewer than MIN_LIST_SIZE frames during a pass of the
\* pruner, every frame a live face thread needs stays in the history, for any
\* number of face threads and savers, however slow the savers are.
THEOREM FramesKept == PrunerKeepsUp => (Spec => []RequiredFramesKept)
  <1> SUFFICES ASSUME PrunerKeepsUp PROVE Spec => []RequiredFramesKept
    OBVIOUS
  <1>1. IInv /\ KeepInv => RequiredFramesKept
    <2> SUFFICES ASSUME IInv, KeepInv, NEW t \in Live, NEW i \in DOMAIN pFaces[t]
                 PROVE  pFaces[t][i] \in Stored
      BY DEF RequiredFramesKept
    <2>1. /\ pFaces[t] \in Seq(Nat) /\ Ordered(pFaces[t])
          /\ \A j \in 1 .. Len(pFaces[t]) : pFaces[t][j] <= frame
      BY DEF IInv, TypeOK, FacesShape, Live
    <2>2. /\ i \in 1 .. Len(pFaces[t]) /\ 1 \in 1 .. Len(pFaces[t])
          /\ pFaces[t][i] \in Nat /\ pFaces[t][1] \in Nat
      BY <2>1
    <2>3. pFaces[t][1] <= pFaces[t][i]
      BY <2>1, <2>2 DEF Ordered
    <2>4. pFaces[t][1] > frame - Len(gHistory) /\ frame \in Nat
          /\ Len(gHistory) \in Nat
      BY DEF KeepInv, FrontsHeld, IInv, TypeOK
    <2>5. pFaces[t][i] \in (frame - Len(gHistory) + 1) .. frame
      BY <2>1, <2>2, <2>3, <2>4
    <2> QED BY <2>5, StoredInterval DEF IInv
  <1> QED BY <1>1, Inductive, InductiveKeep, PTL

-----------------------------------------------------------------------------
(***************************************************************************)
(* A saver may keep walking the history without gHistoryCS: its iterator   *)
(* denotes a live node, at or before the face it looks for, as long as the *)
(* pruner keeps up with main.  This rests on FramesKept: the pruner cannot *)
(* pass the first face of the thread, and the iterator is never before it. *)
(***************************************************************************)

\* The walk of one saver lies between the first face of its thread and the
\* face it looks for; a saver that does not walk is at its first face.
Walk(t) ==
  /\ face[t] > 0
  /\ savePc[t] # "walk" => face[t] = 1
  /\ savePc[t] = "walk" /\ face[t] <= Len(Visit(t)) =>
       /\ pFaces[t][1] <= itr[t]
       /\ itr[t] <= Visit(t)[face[t]]

WalkInv == \A t \in Slot : Walk(t)

\* A step that leaves the saver of a slot and its faces alone.
LEMMA WalkUntouched ==
  ASSUME NEW t \in Slot, Walk(t),
         pFaces'[t] = pFaces[t], savePc'[t] = savePc[t], pass'[t] = pass[t],
         itr'[t] = itr[t], face'[t] = face[t]
  PROVE  Walk(t)'
  <1>1. Visit(t)' = Visit(t)
    BY DEF Visit
  <1> QED BY <1>1 DEF Walk

\* A step after which the saver of a slot does not walk.
LEMMA WalkOver ==
  ASSUME NEW t \in Slot, savePc'[t] # "walk", face'[t] = 1
  PROVE  Walk(t)'
  BY DEF Walk

\* An entry from the first face of a live thread on is found where it is.
LEMMA FindsEntry ==
  ASSUME IInv, KeepInv, NEW t \in Live, NEW f \in Nat,
         pFaces[t][1] <= f, f <= frame
  PROVE  f \in Stored /\ FirstFrom(f) = f
  <1>1. /\ pFaces[t][1] > frame - Len(gHistory) /\ pFaces[t][1] \in Nat
        /\ frame \in Nat /\ Len(gHistory) \in Nat
    BY FrontType DEF KeepInv, FrontsHeld, IInv, TypeOK
  <1>2. f \in (frame - Len(gHistory) + 1) .. frame
    BY <1>1
  <1> QED BY <1>2, StoredInterval, FirstFromValue DEF IInv

LEMMA InitWalk == Init => WalkInv
  BY DEF Init, WalkInv, Walk

\* Main appends faces only to tracked threads, and a saver owns its thread.
LEMMA MainLeavesSaver ==
  ASSUME IInv, Main, NEW t \in Slot, savePc[t] = "walk"
  PROVE  /\ UNCHANGED <<pass, itr, face>>
         /\ pFaces'[t] = pFaces[t]
         /\ savePc'[t] = savePc[t]
  <1>1. UNCHANGED <<pass, itr, face>>
    BY DEF Main, AddToHistory, MatchFaces, DeleteThread, SeedThreads,
           TrimThreads, EndOfInput, ExitProgram, saveVars
  <1>2. /\ t \in gThreads_beingSerialized /\ t \in Live /\ t \notin gThreads
        /\ gThreads \subseteq Slot
    BY DEF IInv, OwnershipExclusive, Live, TypeOK
  <1>3. pFaces'[t] = pFaces[t]
    <2>1. CASE MatchFaces
      BY <1>2, <2>1 DEF MatchFaces
    <2>2. CASE SeedThreads
      BY <1>2, <2>2 DEF SeedThreads
    <2>3. CASE TrimThreads
      BY <1>2, <2>3 DEF TrimThreads
    <2>4. CASE UNCHANGED pFaces
      BY <2>4
    <2> QED BY <2>1, <2>2, <2>3, <2>4
            DEF Main, AddToHistory, DeleteThread, EndOfInput, ExitProgram
  <1>4. savePc'[t] = savePc[t]
    <2>1. CASE \E u \in Slot : DeleteThread(u)
      <3> PICK u \in Slot : DeleteThread(u)
        BY <2>1
      <3>1. u \in gThreads
        BY DEF DeleteThread, IInv, TypeOK
      <3>2. u # t
        BY <1>2, <3>1
      <3> QED BY <3>2 DEF DeleteThread, IInv, TypeOK
    <2>2. CASE UNCHANGED savePc
      BY <2>2
    <2> QED BY <2>1, <2>2 DEF Main, AddToHistory, MatchFaces, SeedThreads,
                TrimThreads, EndOfInput, ExitProgram, saveVars
  <1> QED BY <1>1, <1>3, <1>4

LEMMA MainWalk ==
  ASSUME IInv, WalkInv, Main
  PROVE  WalkInv'
  <1> SUFFICES ASSUME NEW t \in Slot PROVE Walk(t)'
    BY DEF WalkInv
  <1>1. Walk(t)
    BY DEF WalkInv
  <1>2. CASE savePc[t] = "walk"
    <2>1. /\ pFaces'[t] = pFaces[t] /\ savePc'[t] = savePc[t]
          /\ UNCHANGED <<pass, itr, face>>
      BY <1>2, MainLeavesSaver
    <2> QED BY <1>1, <2>1, WalkUntouched
  <1>3. CASE savePc[t] # "walk"
    <2>1. face'[t] = 1
      BY <1>1, <1>3 DEF Walk, Main, AddToHistory, MatchFaces, DeleteThread,
         SeedThreads, TrimThreads, EndOfInput, ExitProgram, saveVars
    <2>2. savePc'[t] # "walk"
      <3>1. CASE \E u \in Slot : DeleteThread(u)
        BY <1>3, <3>1 DEF DeleteThread, IInv, TypeOK
      <3>2. CASE UNCHANGED savePc
        BY <1>3, <3>2
      <3> QED BY <3>1, <3>2 DEF Main, AddToHistory, MatchFaces, SeedThreads,
                  TrimThreads, EndOfInput, ExitProgram, saveVars
    <2> QED BY <2>1, <2>2, WalkOver
  <1> QED BY <1>2, <1>3

LEMMA PrunerWalk ==
  ASSUME WalkInv, Pruner
  PROVE  WalkInv'
  <1>1. UNCHANGED <<pFaces, savePc, pass, itr, face>>
    BY DEF Pruner, PruneWait, PruneSnapshot, PruneErase, PruneSleep, PruneWake,
           saveVars
  <1> QED BY <1>1, WalkUntouched DEF WalkInv

-----------------------------------------------------------------------------
(* The steps of a saver *)

LEMMA ReturnWalk ==
  ASSUME IInv, NEW t \in Slot, NEW pc, pc # "walk", Return(t, pc)
  PROVE  Walk(t)'
  <1>1. savePc'[t] = pc /\ face'[t] = 1
    BY DEF Return, IInv, TypeOK
  <1> QED BY <1>1, WalkOver

LEMMA NextPassWalk ==
  ASSUME IInv, NEW t \in Slot, NextPass(t)
  PROVE  Walk(t)'
  <1>1. PICK pc \in {"finish", "seek"} : Return(t, pc)
    BY DEF NextPass
  <1> QED BY <1>1, ReturnWalk

LEMMA SeekWalk ==
  ASSUME IInv, KeepInv, NEW t \in Slot, Walk(t), SaverSeek(t)
  PROVE  Walk(t)'
  <1>1. CASE NextPass(t)
    BY <1>1, NextPassWalk
  <1>2. CASE /\ savePc' = [savePc EXCEPT ![t] = "walk"]
             /\ itr' = [itr EXCEPT ![t] = FirstFrom(Head(Visit(t)))]
             /\ UNCHANGED <<pass, face>>
    <2>1. savePc[t] = "seek" /\ t \in Live /\ UNCHANGED pFaces
      BY DEF SaverSeek, IInv, OwnershipExclusive, Live
    <2>2. /\ Head(Visit(t)) = pFaces[t][1] /\ Visit(t)[1] = pFaces[t][1]
          /\ pFaces[t][1] \in Nat /\ pFaces[t][1] <= frame
      BY <2>1, VisitShape, FrontType
    <2>3. FirstFrom(Head(Visit(t))) = pFaces[t][1]
      BY <2>1, <2>2, FindsEntry
    <2>4. itr'[t] = pFaces[t][1] /\ face'[t] = 1
      BY <1>2, <2>1, <2>3 DEF Walk, IInv, TypeOK
    <2>5. Visit(t)' = Visit(t) /\ pFaces'[t] = pFaces[t]
      BY <1>2, <2>1 DEF Visit
    <2> QED BY <1>2, <2>2, <2>4, <2>5 DEF Walk, IInv, TypeOK
  <1> QED BY <1>1, <1>2 DEF SaverSeek

\* What SaverPass and SaverWrite know of the face they look for.
LEMMA FaceAhead ==
  ASSUME IInv, NEW t \in Slot, Walk(t), savePc[t] = "walk",
         face[t] <= Len(Visit(t))
  PROVE  /\ t \in Live
         /\ itr[t] \in Nat /\ face[t] \in 1 .. Len(Visit(t))
         /\ pFaces[t][1] \in Nat /\ pFaces[t][1] <= itr[t]
         /\ itr[t] <= Visit(t)[face[t]]
         /\ Visit(t)[face[t]] \in Nat /\ Visit(t)[face[t]] <= frame
         /\ face[t] + 1 <= Len(Visit(t)) =>
              /\ Visit(t)[face[t]] < Visit(t)[face[t] + 1]
              /\ Visit(t)[face[t] + 1] \in Nat
              /\ Visit(t)[face[t] + 1] <= frame
  <1>1. t \in Live /\ itr[t] \in Nat /\ face[t] \in Nat
    BY DEF IInv, TypeOK, OwnershipExclusive, Live
  <1> DEFINE v == Visit(t)
  <1>2. /\ v \in Seq(Nat) /\ Ordered(v)
        /\ \A i \in 1 .. Len(v) : v[i] <= frame
    BY <1>1, VisitShape
  <1>3. face[t] > 0 /\ pFaces[t][1] <= itr[t] /\ itr[t] <= v[face[t]]
    BY DEF Walk
  <1> HIDE DEF v
  <1>4. Len(v) \in Nat /\ \A i \in 1 .. Len(v) : v[i] \in Nat
    BY <1>2
  <1>5. face[t] \in 1 .. Len(v)
    BY <1>1, <1>3, <1>4 DEF v
  <1>6. ASSUME face[t] + 1 <= Len(v)
        PROVE  /\ v[face[t]] < v[face[t] + 1]
               /\ v[face[t] + 1] \in Nat
               /\ v[face[t] + 1] <= frame
    <2>1. face[t] + 1 \in 1 .. Len(v) /\ face[t] < face[t] + 1
      BY <1>1, <1>4, <1>6
    <2> QED BY <1>2, <1>4, <1>5, <2>1 DEF Ordered
  <1>7. pFaces[t][1] \in Nat
    BY <1>1, FrontType
  <1> QED BY <1>1, <1>2, <1>3, <1>4, <1>5, <1>6, <1>7 DEF v

LEMMA PassWalk ==
  ASSUME IInv, KeepInv, NEW t \in Slot, Walk(t), SaverPass(t)
  PROVE  Walk(t)'
  <1>1. /\ savePc[t] = "walk" /\ face[t] <= Len(Visit(t))
        /\ itr[t] < Visit(t)[face[t]]
        /\ itr' = [itr EXCEPT ![t] = FirstFrom(@ + 1)]
        /\ UNCHANGED <<pFaces, savePc, pass, face>>
    BY DEF SaverPass
  <1>2. /\ t \in Live /\ itr[t] \in Nat /\ pFaces[t][1] \in Nat
        /\ pFaces[t][1] <= itr[t] /\ face[t] \in 1 .. Len(Visit(t))
        /\ Visit(t)[face[t]] \in Nat /\ Visit(t)[face[t]] <= frame
    BY <1>1, FaceAhead
  <1>3. itr[t] + 1 \in Nat /\ pFaces[t][1] <= itr[t] + 1 /\ itr[t] + 1 <= frame
        /\ itr[t] + 1 <= Visit(t)[face[t]]
    <2>1. frame \in Nat
      BY DEF IInv, TypeOK
    <2> QED BY <1>1, <1>2, <2>1
  <1>4. itr'[t] = itr[t] + 1
    <2>1. FirstFrom(itr[t] + 1) = itr[t] + 1
      BY <1>2, <1>3, FindsEntry
    <2> QED BY <1>1, <2>1 DEF IInv, TypeOK
  <1>5. Visit(t)' = Visit(t)
    BY <1>1 DEF Visit
  <1> QED BY <1>1, <1>2, <1>3, <1>4, <1>5 DEF Walk

LEMMA WriteWalk ==
  ASSUME IInv, KeepInv, NEW t \in Slot, Walk(t), SaverWrite(t)
  PROVE  Walk(t)'
  <1>1. /\ savePc[t] = "walk" /\ face[t] <= Len(Visit(t))
        /\ itr[t] >= Visit(t)[face[t]] /\ UNCHANGED pFaces
    BY DEF SaverWrite
  <1>2. CASE Return(t, "register")
    BY <1>2, ReturnWalk
  <1>3. CASE NextPass(t)
    BY <1>3, NextPassWalk
  <1>4. CASE /\ face' = [face EXCEPT ![t] = @ + 1]
             /\ itr' = [itr EXCEPT ![t] = FirstFrom(@ + 1)]
             /\ UNCHANGED <<savePc, pass>>
    <2>1. /\ t \in Live /\ itr[t] \in Nat /\ pFaces[t][1] \in Nat
          /\ pFaces[t][1] <= itr[t] /\ face[t] \in 1 .. Len(Visit(t))
          /\ itr[t] <= Visit(t)[face[t]] /\ Visit(t)[face[t]] \in Nat
          /\ face[t] + 1 <= Len(Visit(t)) =>
               /\ Visit(t)[face[t]] < Visit(t)[face[t] + 1]
               /\ Visit(t)[face[t] + 1] \in Nat
               /\ Visit(t)[face[t] + 1] <= frame
      BY <1>1, FaceAhead
    <2>2. Visit(t)' = Visit(t)
      BY <1>1, <1>4 DEF Visit
    <2>3. face'[t] = face[t] + 1 /\ savePc'[t] = "walk"
      BY <1>1, <1>4 DEF IInv, TypeOK
    <2>4. ASSUME face[t] + 1 <= Len(Visit(t))
          PROVE  /\ pFaces[t][1] <= itr'[t]
                 /\ itr'[t] <= Visit(t)[face[t] + 1]
      <3> DEFINE now  == Visit(t)[face[t]]
                 next == Visit(t)[face[t] + 1]
      <3>0. /\ itr[t] <= now /\ now < next /\ next <= frame
            /\ now \in Nat /\ next \in Nat /\ frame \in Nat
        BY <2>1, <2>4 DEF IInv, TypeOK
      <3>1. itr[t] + 1 \in Nat /\ pFaces[t][1] <= itr[t] + 1
            /\ itr[t] + 1 <= Visit(t)[face[t] + 1] /\ itr[t] + 1 <= frame
        <4> HIDE DEF now, next
        <4>1. itr[t] + 1 <= next /\ itr[t] + 1 <= frame
          BY <2>1, <3>0
        <4> QED BY <2>1, <4>1 DEF next
      <3>2. FirstFrom(itr[t] + 1) = itr[t] + 1
        BY <2>1, <3>1, FindsEntry
      <3>3. itr'[t] = itr[t] + 1
        BY <1>4, <3>2 DEF IInv, TypeOK
      <3> QED BY <3>1, <3>3
    <2> QED BY <1>1, <2>1, <2>2, <2>3, <2>4 DEF Walk
  <1> QED BY <1>2, <1>3, <1>4 DEF SaverWrite

\* A saver moves nothing of another saver.
LEMMA SaverLeavesOthers ==
  ASSUME IInv, NEW s \in Slot, Saver(s), NEW t \in Slot, t # s
  PROVE  /\ pFaces'[t] = pFaces[t] /\ savePc'[t] = savePc[t]
         /\ pass'[t] = pass[t] /\ itr'[t] = itr[t] /\ face'[t] = face[t]
  <1>1. CASE SaverTrim(s)
    BY <1>1 DEF SaverTrim, IInv, TypeOK
  <1>2. CASE SaverSkip(s) \/ SaverRegister(s)
    BY <1>2 DEF SaverSkip, SaverRegister, NextPass, Return, IInv, TypeOK
  <1>3. CASE SaverSeek(s)
    BY <1>3 DEF SaverSeek, NextPass, Return, IInv, TypeOK
  <1>4. CASE SaverPass(s)
    BY <1>4 DEF SaverPass, IInv, TypeOK
  <1>5. CASE SaverWrite(s)
    BY <1>5 DEF SaverWrite, NextPass, Return, IInv, TypeOK
  <1>6. CASE SaverEndWalk(s)
    BY <1>6 DEF SaverEndWalk, NextPass, Return, IInv, TypeOK
  <1>7. CASE SaverFinish(s)
    BY <1>7 DEF SaverFinish, Return, IInv, TypeOK
  <1> QED BY <1>1, <1>2, <1>3, <1>4, <1>5, <1>6, <1>7 DEF Saver

LEMMA SaverWalk ==
  ASSUME IInv, KeepInv, WalkInv, NEW s \in Slot, Saver(s)
  PROVE  WalkInv'
  <1> SUFFICES ASSUME NEW t \in Slot PROVE Walk(t)'
    BY DEF WalkInv
  <1>1. Walk(t)
    BY DEF WalkInv
  <1>2. CASE t # s
    BY <1>1, <1>2, SaverLeavesOthers, WalkUntouched
  <1>3. CASE t = s
    <2>1. CASE SaverTrim(t)
      <3>1. face'[t] = 1 /\ savePc'[t] # "walk"
        BY <1>1, <2>1 DEF SaverTrim, Walk, IInv, TypeOK
      <3> QED BY <3>1, WalkOver
    <2>2. CASE SaverSkip(t) \/ SaverRegister(t)
      BY <2>2, NextPassWalk DEF SaverSkip, SaverRegister
    <2>3. CASE SaverSeek(t)
      BY <1>1, <2>3, SeekWalk
    <2>4. CASE SaverPass(t)
      BY <1>1, <2>4, PassWalk
    <2>5. CASE SaverWrite(t)
      BY <1>1, <2>5, WriteWalk
    <2>6. CASE SaverEndWalk(t)
      BY <2>6, NextPassWalk, ReturnWalk DEF SaverEndWalk
    <2>7. CASE SaverFinish(t)
      BY <2>7, ReturnWalk DEF SaverFinish
    <2> QED BY <1>3, <2>1, <2>2, <2>3, <2>4, <2>5, <2>6, <2>7 DEF Saver
  <1> QED BY <1>2, <1>3

LEMMA InductiveWalk == PrunerKeepsUp => (Spec => []WalkInv)
  <1> SUFFICES ASSUME PrunerKeepsUp PROVE Spec => []WalkInv
    OBVIOUS
  <1>1. IInv /\ KeepInv /\ WalkInv /\ [Next]_vars => WalkInv'
    <2> SUFFICES ASSUME IInv, KeepInv, WalkInv, [Next]_vars PROVE WalkInv'
      OBVIOUS
    <2>1. CASE UNCHANGED vars
      BY <2>1, WalkUntouched DEF WalkInv, vars, saveVars
    <2> QED BY <2>1, MainWalk, PrunerWalk, SaverWalk DEF Next, Exited
  <1> QED BY <1>1, InitWalk, Inductive, InductiveKeep, PTL DEF Spec

\* As long as main adds fewer than MIN_LIST_SIZE frames during a pass of the
\* pruner, no saver ever holds an iterator to a node that was erased or walks
\* past the entry of a face, though it walks without gHistoryCS.
THEOREM IteratorsValid == PrunerKeepsUp => (Spec => []SaverIteratorsValid)
  <1> SUFFICES ASSUME PrunerKeepsUp PROVE Spec => []SaverIteratorsValid
    OBVIOUS
  <1>1. IInv /\ KeepInv /\ WalkInv => SaverIteratorsValid
    <2> SUFFICES ASSUME IInv, KeepInv, WalkInv, NEW t \in Slot,
                        savePc[t] = "walk", face[t] <= Len(Visit(t))
                 PROVE  /\ itr[t] \in Stored
                        /\ itr[t] <= Visit(t)[face[t]]
                        /\ Visit(t)[face[t]] \in Stored
      BY DEF SaverIteratorsValid
    <2>1. /\ t \in Live /\ itr[t] \in Nat /\ pFaces[t][1] \in Nat
          /\ pFaces[t][1] <= itr[t] /\ itr[t] <= Visit(t)[face[t]]
          /\ Visit(t)[face[t]] \in Nat /\ Visit(t)[face[t]] <= frame
      BY FaceAhead DEF WalkInv
    <2>2. frame \in Nat
      BY DEF IInv, TypeOK
    <2>3. itr[t] <= frame /\ pFaces[t][1] <= Visit(t)[face[t]]
      BY <2>1, <2>2
    <2> QED BY <2>1, <2>3, FindsEntry
  <1> QED BY <1>1, Inductive, InductiveKeep, InductiveWalk, PTL

-----------------------------------------------------------------------------
(***************************************************************************)
(* FaceHistory implements its two abstract specifications: FaceThreads,    *)
(* always, and FrameRetention, as long as the pruner keeps up with main.   *)
(***************************************************************************)

(* FaceThreads *)

\* The frame of the newest face of a face thread.
LastFace(t) == pFaces[t][Len(pFaces[t])]

\* A tracked thread that missed the newest frame has no face in it.
MissedBehind == mainPc = "delete" => \A t \in missed : LastFace(t) < frame

\* pruneFacesList never takes the newest face.
LEMMA PruneFacesListLast ==
  ASSUME NEW s \in Seq(Nat), s # <<>>
  PROVE  PruneFacesList(s)[Len(PruneFacesList(s))] = s[Len(s)]
  <1> DEFINE M == MAX_THREAD_HISTORY_SIZE
             r == SubSeq(s, Len(s) - M + 1, Len(s))
  <1>1. M \in Nat /\ M > 0 /\ Len(s) \in Nat /\ Len(s) > 0
    BY ConstantsAssumption
  <1>2. CASE Len(s) <= M
    BY <1>1, <1>2 DEF PruneFacesList
  <1>3. CASE Len(s) > M
    <2>1. PruneFacesList(s) = r
      BY <1>3 DEF PruneFacesList
    <2>2. Len(r) = M /\ \A i \in 1 .. M : r[i] = s[Len(s) - M + i]
      BY <1>1, <1>3
    <2>3. M \in 1 .. M /\ Len(s) - M + M = Len(s)
      BY <1>1
    <2> HIDE DEF r, M
    <2> QED BY <2>1, <2>2, <2>3
  <1> QED BY <1>1, <1>2, <1>3

\* The newest face of a live thread is a captured frame.
LEMMA LastFaceType ==
  ASSUME IInv, NEW t \in Live
  PROVE  /\ pFaces[t] \in Seq(Nat) /\ pFaces[t] # <<>>
         /\ Len(pFaces[t]) \in 1 .. Len(pFaces[t])
         /\ LastFace(t) \in Nat /\ LastFace(t) <= frame
         /\ mainPc = "match" => LastFace(t) < frame
  <1>1. /\ t \in Slot /\ pFaces[t] \in Seq(Nat) /\ pFaces[t] # <<>>
        /\ \A i \in 1 .. Len(pFaces[t]) : pFaces[t][i] <= frame
        /\ mainPc = "match" => \A i \in 1 .. Len(pFaces[t]) : pFaces[t][i] < frame
    BY DEF IInv, TypeOK, FacesShape, OwnershipExclusive, Live
  <1>2. Len(pFaces[t]) \in 1 .. Len(pFaces[t])
    BY <1>1
  <1> QED BY <1>1, <1>2 DEF LastFace

\* Savers and the pruner leave the faces of the tracked threads alone.
LEMMA OthersLeaveTracked ==
  ASSUME IInv, Pruner \/ \E s \in Slot : Saver(s)
  PROVE  /\ UNCHANGED <<frame, mainPc, missed, gThreads>>
         /\ \A t \in gThreads : pFaces'[t] = pFaces[t]
  <1>1. CASE Pruner
    BY <1>1 DEF Pruner, PruneWait, PruneSnapshot, PruneErase, PruneSleep,
                PruneWake, mainVars
  <1>2. ASSUME NEW s \in Slot, Saver(s)
        PROVE  /\ UNCHANGED <<frame, mainPc, missed, gThreads>>
               /\ \A t \in gThreads : pFaces'[t] = pFaces[t]
    <2>1. UNCHANGED <<frame, mainPc, missed, gThreads>>
      BY <1>2 DEF Saver, SaverTrim, SaverSkip, SaverSeek, SaverPass, SaverWrite,
                  SaverEndWalk, SaverRegister, SaverFinish, mainVars
    <2>2. \/ UNCHANGED pFaces
          \/ \E v : savePc[s] # "idle" /\ pFaces' = [pFaces EXCEPT ![s] = v]
      BY <1>2 DEF Saver, SaverTrim, SaverSkip, SaverSeek, SaverPass, SaverWrite,
                  SaverEndWalk, SaverRegister, SaverFinish
    <2>3. savePc[s] # "idle" => s \notin gThreads
      BY DEF IInv, OwnershipExclusive
    <2>4. \A t \in gThreads : pFaces'[t] = pFaces[t]
      BY <2>2, <2>3 DEF IInv, TypeOK
    <2> QED BY <2>1, <2>4
  <1> QED BY <1>1, <1>2

\* Trimming the tracked threads keeps their newest faces.
LEMMA TrimKeepsLast ==
  ASSUME IInv, TrimThreads, NEW t \in gThreads
  PROVE  LastFace(t)' = LastFace(t)
  <1>1. t \in Slot /\ t \in Live
    BY DEF IInv, TypeOK, Live
  <1>2. pFaces'[t] = PruneFacesList(pFaces[t])
    BY <1>1 DEF TrimThreads
  <1> QED BY <1>1, <1>2, LastFaceType, PruneFacesListLast DEF LastFace

LEMMA MissedStep ==
  ASSUME IInv, MissedBehind, [Next]_vars
  PROVE  MissedBehind'
  <1>1. gThreads \subseteq Live /\ gThreads \subseteq Slot /\ missed \subseteq gThreads
    BY DEF IInv, TypeOK, Live
  <1>2. CASE MatchFaces
    <2> PICK hit \in SUBSET gThreads :
          /\ pFaces' = [t \in Slot |-> IF t \in hit THEN Append(pFaces[t], frame)
                                                    ELSE pFaces[t]]
          /\ missed' = gThreads \ hit
      BY <1>2 DEF MatchFaces
    <2>1. \A t \in missed' : pFaces'[t] = pFaces[t] /\ t \in Live
      BY <1>1
    <2>2. \A t \in Live : LastFace(t) < frame
      BY <1>2, LastFaceType DEF MatchFaces
    <2>3. frame' = frame
      BY <1>2 DEF MatchFaces
    <2> QED BY <2>1, <2>2, <2>3 DEF MissedBehind, LastFace
  <1>3. CASE \E t \in Slot : DeleteThread(t)
    <2>1. missed' \subseteq missed /\ UNCHANGED <<frame, pFaces, mainPc>>
      BY <1>3 DEF DeleteThread
    <2> QED BY <2>1 DEF MissedBehind, LastFace
  <1>4. CASE AddToHistory \/ SeedThreads \/ TrimThreads \/ EndOfInput \/ ExitProgram
    <2>1. mainPc' # "delete"
      BY <1>4 DEF AddToHistory, SeedThreads, TrimThreads, EndOfInput, ExitProgram
    <2> QED BY <2>1 DEF MissedBehind
  <1>5. CASE Pruner \/ \E s \in Slot : Saver(s)
    <2>1. UNCHANGED <<frame, mainPc, missed>> /\ \A t \in missed : pFaces'[t] = pFaces[t]
      BY <1>1, <1>5, OthersLeaveTracked
    <2> QED BY <2>1 DEF MissedBehind, LastFace
  <1>6. CASE UNCHANGED vars
    BY <1>6 DEF MissedBehind, LastFace, vars, mainVars
  <1> QED BY <1>2, <1>3, <1>4, <1>5, <1>6 DEF Next, Main, Exited

LEMMA InductiveMissed == Spec => []MissedBehind
  <1>1. Init => MissedBehind
    BY DEF Init, MissedBehind
  <1>2. IInv /\ MissedBehind /\ [Next]_vars => MissedBehind'
    BY MissedStep
  <1> QED BY <1>1, <1>2, Inductive, PTL DEF Spec

\* The variables of FaceThreads, as FaceHistory substitutes them.
Stage == CASE mainPc = "match"  -> "matching"
           [] mainPc = "delete" -> "settling"
           [] OTHER             -> "done"
Last  == [t \in gThreads |-> pFaces[t][Len(pFaces[t])]]

LEMMA LastIs == Last = [t \in gThreads |-> LastFace(t)]
  BY DEF Last, LastFace

LEMMA ThreadsInit == Init => Threads!Init
  BY DEF Init, Threads!Init

LEMMA ThreadsStep ==
  ASSUME IInv, IInv', MissedBehind, [Next]_vars
  PROVE  [Threads!Next]_<<frame, Stage, Last>>
  <1> USE DEF LastFace
  <1>1. gThreads \subseteq Live /\ gThreads \subseteq Slot /\ missed \subseteq gThreads
    BY DEF IInv, TypeOK, Live
  <1>2. CASE AddToHistory
    <2>1. Last' = Last /\ frame' = frame + 1 /\ Stage = "done" /\ Stage' = "matching"
      BY <1>2 DEF AddToHistory, Last, Stage
    <2> QED BY <2>1 DEF Threads!Next, Threads!Capture, Last, Stage
  <1>3. CASE MatchFaces
    <2> PICK hit \in SUBSET gThreads :
          pFaces' = [t \in Slot |-> IF t \in hit THEN Append(pFaces[t], frame)
                                                 ELSE pFaces[t]]
      BY <1>3 DEF MatchFaces
    <2>1. /\ UNCHANGED <<frame, gThreads>> /\ Stage = "matching"
          /\ Stage' = "settling"
      BY <1>3 DEF MatchFaces, Stage
    <2>2. \A t \in gThreads : Last'[t] \in {Last[t], frame}
      <3> SUFFICES ASSUME NEW t \in gThreads
                   PROVE  LastFace(t)' \in {LastFace(t), frame}
        BY <2>1, LastIs DEF Last
      <3>1. pFaces[t] \in Seq(Nat)
        BY <1>1 DEF IInv, TypeOK
      <3>2. LET s == Append(pFaces[t], frame) IN s[Len(s)] = frame
        BY <3>1 DEF IInv, TypeOK
      <3>3. \/ pFaces'[t] = Append(pFaces[t], frame)
            \/ pFaces'[t] = pFaces[t]
        BY <1>1
      <3> QED BY <3>2, <3>3
    <2>3. DOMAIN Last = gThreads /\ DOMAIN Last' = gThreads
      BY <2>1 DEF Last
    <2> QED BY <2>1, <2>2, <2>3 DEF Threads!Next, Threads!Continue, Last, Stage
  <1>4. CASE \E t \in Slot : DeleteThread(t)
    <2> PICK t \in Slot : DeleteThread(t)
      BY <1>4
    <2>1. /\ gThreads' = gThreads \ {t} /\ t \in missed
          /\ UNCHANGED <<frame, mainPc, pFaces>> /\ mainPc = "delete"
      BY DEF DeleteThread
    <2>2. Last[t] < frame
      BY <1>1, <2>1 DEF MissedBehind, Last
    <2>3. /\ DOMAIN Last = gThreads /\ DOMAIN Last' = gThreads \ {t}
          /\ \A u \in gThreads \ {t} : Last'[u] = Last[u]
      BY <2>1 DEF Last
    <2>4. Stage = "settling" /\ UNCHANGED Stage
      BY <2>1 DEF Stage
    <2> QED BY <2>1, <2>2, <2>3, <2>4 DEF Threads!Next, Threads!Retire, Last, Stage
  <1>5. CASE SeedThreads
    <2> PICK new \in SUBSET (Slot \ Live) :
          /\ gThreads' = gThreads \cup new
          /\ pFaces' = [t \in Slot |-> IF t \in new THEN <<frame>> ELSE pFaces[t]]
      BY <1>5 DEF SeedThreads
    <2>1. Stage = "settling" /\ Stage' = "done" /\ UNCHANGED frame
      BY <1>5 DEF SeedThreads, Stage
    <2>2. DOMAIN Last = gThreads /\ DOMAIN Last' = gThreads \cup new
      BY DEF Last
    <2>3. \A t \in gThreads : Last'[t] = Last[t]
      <3>1. \A t \in gThreads : pFaces'[t] = pFaces[t]
        BY <1>1
      <3> QED BY <3>1 DEF Last
    <2>4. \A t \in (gThreads \cup new) \ gThreads : Last'[t] = frame
      <3>1. \A t \in new : pFaces'[t] = <<frame>>
        OBVIOUS
      <3> QED BY <3>1 DEF Last
    <2> QED BY <2>1, <2>2, <2>3, <2>4 DEF Threads!Next, Threads!Start, Last, Stage
  <1>6. CASE TrimThreads
    <2>1. UNCHANGED <<frame, gThreads, Stage>>
      BY <1>6 DEF TrimThreads, Stage
    <2>2. Last' = Last
      BY <1>6, <2>1, TrimKeepsLast DEF Last
    <2> QED BY <2>1, <2>2
  <1>7. CASE EndOfInput \/ ExitProgram
    BY <1>7 DEF EndOfInput, ExitProgram, Last, Stage
  <1>8. CASE Pruner \/ \E s \in Slot : Saver(s)
    <2>1. UNCHANGED <<frame, mainPc, gThreads>>
          /\ \A t \in gThreads : pFaces'[t] = pFaces[t]
      BY <1>8, OthersLeaveTracked
    <2> QED BY <2>1 DEF Last, Stage
  <1>9. CASE UNCHANGED vars
    BY <1>9 DEF vars, mainVars, Last, Stage
  <1> QED BY <1>2, <1>3, <1>4, <1>5, <1>6, <1>7, <1>8, <1>9 DEF Next, Main, Exited

\* The detector's main thread continues, retires and starts face threads as
\* FaceThreads says, for every number of face threads, savers and frames:
\* no thread that has a face in the newest frame is handed to a saver.
THEOREM ImplementsThreads == Spec => ThreadsSpec
  <1>1. IInv /\ IInv' /\ MissedBehind /\ [Next]_vars
          => [Threads!Next]_(Threads!vars)
    BY ThreadsStep DEF Threads!vars, Stage, Last
  <1> QED BY ThreadsInit, <1>1, Inductive, InductiveMissed, PTL
          DEF ThreadsSpec, Threads!Spec, Spec

-----------------------------------------------------------------------------
(* FrameRetention *)

\* The frames a face thread needs.
Needed(t) == IF t \in Live THEN {pFaces[t][i] : i \in DOMAIN pFaces[t]} ELSE {}
Claims == [t \in Slot |-> Needed(t)]

\* Which frames are stored, before and after a step.
StoredNewest == Stored = (frame - Len(gHistory) + 1) .. frame

LEMMA StoredNow == IInv => StoredNewest
  BY StoredInterval DEF IInv, StoredNewest

LEMMA StoredNext == IInv' => StoredNewest'
  BY StoredNow, PTL

\* The faces of a list to which one is appended.
LEMMA AppendedFaces ==
  ASSUME NEW s \in Seq(Nat), NEW n \in Nat
  PROVE  {Append(s, n)[i] : i \in DOMAIN Append(s, n)}
           = {s[i] : i \in DOMAIN s} \cup {n}
  <1> DEFINE a == Append(s, n)
  <1>1. /\ DOMAIN s = 1 .. Len(s) /\ Len(s) \in Nat
        /\ DOMAIN a = 1 .. Len(s) + 1
        /\ \A i \in 1 .. Len(s) : a[i] = s[i]
        /\ a[Len(s) + 1] = n
    OBVIOUS
  <1> HIDE DEF a
  <1>2. 1 .. Len(s) + 1 = (1 .. Len(s)) \cup {Len(s) + 1}
    BY <1>1
  <1>3. {a[i] : i \in DOMAIN a} = {s[i] : i \in DOMAIN s} \cup {n}
    BY <1>1, <1>2
  <1> QED BY <1>3 DEF a

\* The faces of a list that was trimmed.
LEMMA TrimmedNeeds ==
  ASSUME IInv, NEW t \in Live,
         pFaces'[t] = PruneFacesList(pFaces[t]) \/ pFaces'[t] = pFaces[t]
  PROVE  {pFaces'[t][i] : i \in DOMAIN pFaces'[t]}
           \subseteq {pFaces[t][i] : i \in DOMAIN pFaces[t]}
  <1> DEFINE s == pFaces[t]
             r == PruneFacesList(s)
  <1>1. s \in Seq(Nat) /\ s # <<>> /\ Ordered(s)
    BY DEF IInv, TypeOK, FacesShape, OwnershipExclusive, Live
  <1>2. /\ r \in Seq(Nat)
        /\ \A i \in 1 .. Len(r) : \E j \in 1 .. Len(s) : r[i] = s[j]
    BY <1>1, PruneFacesListKeeps
  <1> HIDE DEF r
  <1>3. DOMAIN r = 1 .. Len(r) /\ DOMAIN s = 1 .. Len(s)
    BY <1>1, <1>2
  <1>4. {r[i] : i \in DOMAIN r} \subseteq {s[j] : j \in DOMAIN s}
    BY <1>2, <1>3
  <1> QED BY <1>4 DEF r

\* A step that keeps the frames and takes no frame into need is a GiveUp.
LEMMA GivesUp ==
  ASSUME UNCHANGED <<frame, Stored>>,
         \A t \in Slot : Needed(t)' \subseteq Needed(t)
  PROVE  Retention!GiveUp
  <1>1. Claims' \in [Slot -> SUBSET UNION {Claims[c] : c \in Slot}]
    BY DEF Claims
  <1>2. \A c \in Slot : Claims'[c] \subseteq Claims[c]
    BY DEF Claims
  <1> QED BY <1>1, <1>2 DEF Retention!GiveUp, Claims, Needed

\* The newest frame is stored when main needs it.
LEMMA NewestStored ==
  ASSUME IInv, mainPc \in {"match", "delete"}
  PROVE  frame \in Stored
  <1>1. frame \in Nat /\ frame > 0 /\ Len(gHistory) \in Nat /\ Len(gHistory) > 0
    BY DEF IInv, TypeOK, HistoryShape
  <1>2. frame \in (frame - Len(gHistory) + 1) .. frame
    BY <1>1
  <1> QED BY <1>2, StoredNow DEF StoredNewest

LEMMA MainRetains ==
  ASSUME IInv, IInv', Main
  PROVE  [Retention!Next]_<<frame, Stored, Claims>>
  <1> USE DEF Claims
  <1>1. /\ gThreads \subseteq Slot /\ Live \subseteq Slot /\ gThreads \subseteq Live
        /\ pFaces \in [Slot -> Seq(Nat)] /\ frame \in Nat
        /\ gHistory \in Seq(Nat)
    BY DEF IInv, TypeOK, Live
  <1>2. CASE AddToHistory
    <2>1. frame' = frame + 1 /\ UNCHANGED <<Live, pFaces>>
          /\ Len(gHistory') = Len(gHistory) + 1 /\ Len(gHistory) \in Nat
          /\ Len(gHistory) <= frame
      BY <1>1, <1>2 DEF AddToHistory, Live, IInv, HistoryShape
    <2>2. Stored' = Stored \cup {frame'}
      <3>1. /\ Stored = (frame - Len(gHistory) + 1) .. frame
            /\ Stored' = (frame - Len(gHistory) + 1) .. (frame + 1)
        BY <1>1, <2>1, StoredNow, StoredNext DEF StoredNewest
      <3> QED BY <1>1, <2>1, <3>1
    <2>3. UNCHANGED Claims
      BY <2>1 DEF Needed
    <2> QED BY <2>1, <2>2, <2>3 DEF Retention!Next, Retention!Store, Needed
  <1>3. CASE MatchFaces
    <2> PICK hit \in SUBSET gThreads :
          pFaces' = [t \in Slot |-> IF t \in hit THEN Append(pFaces[t], frame)
                                                 ELSE pFaces[t]]
      BY <1>3 DEF MatchFaces
    <2>1. UNCHANGED <<frame, Stored, Live>> /\ frame \in Stored
      BY <1>3, NewestStored DEF MatchFaces, Stored, Live
    <2>2. ASSUME NEW t \in Slot
          PROVE  Needed(t)' = IF t \in hit THEN Needed(t) \cup {frame}
                                           ELSE Needed(t)
      <3>1. CASE t \in hit
        <4>1. t \in Live /\ t \in Live' /\ pFaces'[t] = Append(pFaces[t], frame)
          BY <1>1, <2>1, <3>1
        <4>2. {pFaces'[t][i] : i \in DOMAIN pFaces'[t]}
                = {pFaces[t][i] : i \in DOMAIN pFaces[t]} \cup {frame}
          <5> DEFINE s == pFaces[t]
          <5>1. s \in Seq(Nat)
            BY <1>1
          <5> HIDE DEF s
          <5>2. {Append(s, frame)[i] : i \in DOMAIN Append(s, frame)}
                  = {s[i] : i \in DOMAIN s} \cup {frame}
            BY <1>1, <5>1, AppendedFaces
          <5>3. pFaces'[t] = Append(s, frame)
            BY <4>1 DEF s
          <5>4. {pFaces'[t][i] : i \in DOMAIN pFaces'[t]}
                  = {s[i] : i \in DOMAIN s} \cup {frame}
            BY <5>2, <5>3, Zenon
          <5> QED BY <5>4 DEF s
        <4> QED BY <3>1, <4>1, <4>2 DEF Needed
      <3>2. CASE t \notin hit
        <4>1. pFaces'[t] = pFaces[t]
          BY <3>2
        <4> QED BY <2>1, <3>2, <4>1 DEF Needed
      <3> QED BY <3>1, <3>2
    <2>3. Claims' = [t \in Slot |-> IF t \in hit THEN Claims[t] \cup {frame}
                                                 ELSE Claims[t]]
      BY <2>2
    <2> QED BY <1>1, <2>1, <2>3 DEF Retention!Next, Retention!Claim, Needed
  <1>4. CASE SeedThreads
    <2> PICK new \in SUBSET (Slot \ Live) :
          /\ gThreads' = gThreads \cup new
          /\ pFaces' = [t \in Slot |-> IF t \in new THEN <<frame>> ELSE pFaces[t]]
      BY <1>4 DEF SeedThreads
    <2>1. UNCHANGED <<frame, Stored>> /\ frame \in Stored /\ Live' = Live \cup new
      BY <1>4, NewestStored DEF SeedThreads, Stored, Live
    <2>2. ASSUME NEW t \in Slot
          PROVE  Needed(t)' = IF t \in new THEN Needed(t) \cup {frame}
                                           ELSE Needed(t)
      <3>1. CASE t \in new
        <4>1. pFaces'[t] = <<frame>> /\ t \in Live' /\ t \notin Live
          BY <2>1, <3>1
        <4>2. {pFaces'[t][i] : i \in DOMAIN pFaces'[t]} = {frame}
          BY <4>1
        <4> QED BY <3>1, <4>1, <4>2 DEF Needed
      <3>2. CASE t \notin new
        <4>1. pFaces'[t] = pFaces[t] /\ (t \in Live' <=> t \in Live)
          BY <2>1, <3>2
        <4> QED BY <3>2, <4>1 DEF Needed
      <3> QED BY <3>1, <3>2
    <2>3. Claims' = [t \in Slot |-> IF t \in new THEN Claims[t] \cup {frame}
                                                 ELSE Claims[t]]
      BY <2>2
    <2> QED BY <1>1, <2>1, <2>3 DEF Retention!Next, Retention!Claim, Needed
  <1>5. CASE TrimThreads
    <2>1. UNCHANGED <<frame, Stored, Live>>
      BY <1>5 DEF TrimThreads, Stored, Live
    <2>2. \A t \in Slot : pFaces'[t] = PruneFacesList(pFaces[t])
                            \/ pFaces'[t] = pFaces[t]
      BY <1>5 DEF TrimThreads
    <2>3. \A t \in Slot : Needed(t)' \subseteq Needed(t)
      BY <2>1, <2>2, TrimmedNeeds DEF Needed
    <2> QED BY <2>1, <2>3, GivesUp DEF Retention!Next
  <1>6. CASE (\E t \in Slot : DeleteThread(t)) \/ EndOfInput \/ ExitProgram
    <2>1. UNCHANGED <<frame, gHistory, pFaces>>
      BY <1>6 DEF DeleteThread, EndOfInput, ExitProgram
    <2>2. Live' = Live
      <3>1. CASE \E t \in Slot : DeleteThread(t)
        <4> PICK t \in Slot : DeleteThread(t)
          BY <3>1
        <4>1. t \in gThreads
          BY DEF DeleteThread, IInv, TypeOK
        <4>2. /\ gThreads' = gThreads \ {t}
              /\ gThreads_beingSerialized' = gThreads_beingSerialized \cup {t}
          BY DEF DeleteThread
        <4> QED BY <4>1, <4>2 DEF Live
      <3>2. CASE EndOfInput \/ ExitProgram
        BY <3>2 DEF EndOfInput, ExitProgram, Live
      <3> QED BY <1>6, <3>1, <3>2
    <2> QED BY <2>1, <2>2 DEF Stored, Needed
  <1> QED BY <1>2, <1>3, <1>4, <1>5, <1>6 DEF Main

LEMMA PrunerRetains ==
  ASSUME IInv, IInv', KeepInv', Pruner
  PROVE  [Retention!Next]_<<frame, Stored, Claims>>
  <1>1. UNCHANGED <<frame, Live, pFaces>>
    BY DEF Pruner, PruneWait, PruneSnapshot, PruneErase, PruneSleep, PruneWake,
           mainVars, Live
  <1>2. UNCHANGED Claims
    BY <1>1 DEF Claims, Needed
  <1>3. CASE PruneErase
    <2> DEFINE n == Len(gHistory)
    <2>1. /\ n > MIN_LIST_SIZE /\ Len(gHistory') = n - 1
          /\ n \in Nat /\ MIN_LIST_SIZE \in Nat /\ frame \in Nat
      BY <1>3, PruneErasePops, ConstantsAssumption DEF IInv, TypeOK
    <2>2. Stored = (frame - n + 1) .. frame /\ Stored' = (frame - n + 2) .. frame
      BY <1>1, <2>1, StoredNow, StoredNext DEF StoredNewest
    <2>3. frame - n + 1 <= frame - MIN_LIST_SIZE
      BY <2>1
    <2>4. /\ frame - n + 1 \in Stored
          /\ \A g \in Stored : frame - n + 1 <= g
          /\ Stored' = Stored \ {frame - n + 1}
      BY <2>1, <2>2
    <2>5. ASSUME NEW t \in Slot
          PROVE  frame - n + 1 \notin Claims[t]
      <3>1. CASE t \in Live
        <4>1. /\ pFaces[t] \in Seq(Nat) /\ Ordered(pFaces[t]) /\ pFaces[t] # <<>>
          BY <3>1 DEF IInv, TypeOK, FacesShape, OwnershipExclusive, Live
        <4>2. pFaces[t][1] > frame - (n - 1)
          BY <1>1, <2>1, <3>1 DEF KeepInv, FrontsHeld
        <4>3. ASSUME NEW i \in 1 .. Len(pFaces[t])
              PROVE  pFaces[t][i] > frame - (n - 1)
          <5>1. 1 \in 1 .. Len(pFaces[t])
            BY <4>1
          <5>2. pFaces[t][1] \in Nat /\ pFaces[t][i] \in Nat
            BY <4>1, <5>1
          <5>3. pFaces[t][1] <= pFaces[t][i]
            BY <4>1, <5>1, <5>2 DEF Ordered
          <5> QED BY <2>1, <4>2, <5>2, <5>3
        <4>4. DOMAIN pFaces[t] = 1 .. Len(pFaces[t])
          BY <4>1
        <4>5. \A i \in DOMAIN pFaces[t] : pFaces[t][i] # frame - n + 1
          BY <2>1, <4>1, <4>3, <4>4
        <4> QED BY <3>1, <4>5 DEF Claims, Needed
      <3>2. CASE t \notin Live
        BY <3>2 DEF Claims, Needed
      <3> QED BY <3>1, <3>2
    <2> HIDE DEF n
    <2>6. Retention!Discard
      BY <1>1, <1>2, <2>1, <2>3, <2>4, <2>5 DEF Retention!Discard, Claims, Needed
    <2> QED BY <2>6 DEF Retention!Next
  <1>4. CASE PruneWait \/ PruneSnapshot \/ PruneSleep \/ PruneWake
    <2>1. UNCHANGED gHistory
      BY <1>4 DEF PruneWait, PruneSnapshot, PruneSleep, PruneWake
    <2> QED BY <1>1, <1>2, <2>1 DEF Stored
  <1> QED BY <1>3, <1>4 DEF Pruner

LEMMA SaverRetains ==
  ASSUME IInv, IInv', NEW s \in Slot, Saver(s)
  PROVE  [Retention!Next]_<<frame, Stored, Claims>>
  <1>1. UNCHANGED <<frame, gHistory, gThreads>> /\ UNCHANGED Stored
    BY DEF Saver, SaverTrim, SaverSkip, SaverSeek, SaverPass, SaverWrite,
           SaverEndWalk, SaverRegister, SaverFinish, mainVars, Stored
  <1>2. CASE SaverTrim(s)
    <2>1. UNCHANGED Live
      BY <1>1, <1>2 DEF SaverTrim, Live
    <2>2. \A t \in Slot : pFaces'[t] = PruneFacesList(pFaces[t])
                            \/ pFaces'[t] = pFaces[t]
      BY <1>2 DEF SaverTrim, IInv, TypeOK
    <2>3. \A t \in Slot : Needed(t)' \subseteq Needed(t)
      BY <2>1, <2>2, TrimmedNeeds DEF Needed
    <2> QED BY <1>1, <2>3, GivesUp DEF Retention!Next
  <1>3. CASE SaverFinish(s)
    <2>1. /\ gThreads_beingSerialized' = gThreads_beingSerialized \ {s}
          /\ s \in gThreads_beingSerialized
          /\ pFaces' = [pFaces EXCEPT ![s] = <<>>]
      BY <1>3 DEF SaverFinish
    <2>2. s \notin Live' /\ Live' \subseteq Live
      BY <1>1, <2>1 DEF Live, IInv, OwnershipExclusive
    <2>3. \A t \in Slot : t # s => pFaces'[t] = pFaces[t]
      BY <2>1 DEF IInv, TypeOK
    <2>4. \A t \in Slot : Needed(t)' \subseteq Needed(t)
      BY <2>2, <2>3 DEF Needed
    <2> QED BY <1>1, <2>4, GivesUp DEF Retention!Next
  <1>4. CASE \/ SaverSkip(s) \/ SaverSeek(s) \/ SaverPass(s)
             \/ SaverWrite(s) \/ SaverEndWalk(s) \/ SaverRegister(s)
    <2>1. UNCHANGED <<gThreads_beingSerialized, pFaces>>
      BY <1>4 DEF SaverSkip, SaverSeek, SaverPass, SaverWrite, SaverEndWalk,
                  SaverRegister
    <2> QED BY <1>1, <2>1 DEF Claims, Needed, Live
  <1> QED BY <1>2, <1>3, <1>4 DEF Saver

LEMMA RetentionInit == Init => Retention!Init
  BY DEF Init, Retention!Init, Stored, Live

\* The pruner implements the rule of FrameRetention, for every number of face
\* threads and every value of the configuration: though it works from a stale
\* minimum, it discards the oldest frame only, only when no face thread needs
\* it, and never below MIN_LIST_SIZE frames.
THEOREM ImplementsRetention == PrunerKeepsUp => (Spec => RetentionSpec)
  <1> SUFFICES ASSUME PrunerKeepsUp PROVE Spec => RetentionSpec
    OBVIOUS
  <1>1. IInv /\ IInv' /\ KeepInv' /\ [Next]_vars
          => [Retention!Next]_(Retention!vars)
    <2> SUFFICES ASSUME IInv, IInv', KeepInv', [Next]_vars
                 PROVE  [Retention!Next]_<<frame, Stored, Claims>>
      BY DEF Retention!vars, Claims, Needed
    <2>1. CASE UNCHANGED vars
      BY <2>1 DEF vars, mainVars, Stored, Claims, Needed, Live
    <2> QED BY <2>1, MainRetains, PrunerRetains, SaverRetains DEF Next, Exited
  <1> QED BY RetentionInit, <1>1, Inductive, InductiveKeep, PTL
          DEF RetentionSpec, Retention!Spec, Spec

-----------------------------------------------------------------------------
(* Playback *)

\* PRUNE_HISTORY_EVERY_MS is a third of the time main sleeps.
PlaybackSleepsLong == PLAYBACK_NAPS >= 2

-----------------------------------------------------------------------------
(* Playback implements FaceHistory *)

LEMMA PlayStep ==
  ASSUME [PlayNext]_allVars
  PROVE  [Next]_vars
  <1>1. CASE Capture
    BY <1>1 DEF Capture, Next, Main
  <1>2. CASE Process
    BY <1>2 DEF Process, Next, Main
  <1>3. CASE Running /\ PrunerStep
    BY <1>3 DEF PrunerStep, Next, Pruner
  <1>4. ASSUME NEW t \in Slot, Running /\ SaverStep(t)
        PROVE  [Next]_vars
    <2>1. CASE SaverSetROI(t)
      BY <2>1 DEF SaverSetROI
    <2>2. CASE ~SaverSetROI(t)
      <3>1. Saver(t)
        BY <1>4, <2>2 DEF SaverStep, SaverUnlock, Saver
      <3> QED BY <3>1 DEF Next
    <2> QED BY <2>1, <2>2
  <1>5. CASE KeyPressed
    BY <1>5 DEF KeyPressed
  <1>6. CASE Exit \/ Crash
    BY <1>6 DEF Exit, Crash, Next, Main
  <1>7. CASE Playing /\ ~Exit
    BY <1>7 DEF Playing, Scan, FallAsleep, StartWalk, GetSize, CopyFrame, WalkEnds,
                Stray
  <1>8. CASE Exited
    BY <1>8 DEF Next
  <1>9. CASE UNCHANGED allVars
    BY <1>9 DEF allVars
  <1> QED BY <1>1, <1>2, <1>3, <1>4, <1>5, <1>6, <1>7, <1>8, <1>9 DEF PlayNext

\* Whatever main does after its input has ended, and wherever a saver holds
\* gHistoryCS, the history, the face threads and their savers go through steps
\* of FaceHistory only: every safety property of that module holds in this one.
THEOREM PlaybackImplementsHistory == PlaySpec => Spec
  <1>1. PlayInit => Init
    BY DEF PlayInit
  <1> QED BY <1>1, PlayStep, PTL DEF PlaySpec, Spec

LEMMA PlayInductive == PlaySpec => []IInv
  BY PlaybackImplementsHistory, Inductive, PTL

-----------------------------------------------------------------------------
(* Types *)

PlayVarsOK ==
  /\ playPc \in {"input", "scan", "sleep", "size", "copy", "exit", "lost"}
  /\ playItr \in Nat
  /\ playSize \in {"full", "roi"}
  /\ played \in Seq(Nat)
  /\ naps \in 0 .. PLAYBACK_NAPS
  /\ quiet \in BOOLEAN
  /\ roi \in Nat \cup {NoFrame}
  /\ pFacesSeq \in SUBSET Nat
  /\ detected \in BOOLEAN

\* The iterators of the playback are frame ids, or End.
LEMMA IteratorTypes ==
  ASSUME IInv, PlayVarsOK
  PROVE  Begin \in Nat /\ Successor(playItr) \in Nat
  <1>1. Begin \in Nat
    BY DEF Begin, End, IInv, TypeOK
  <1>2. playItr + 1 \in Nat
    BY DEF PlayVarsOK
  <1> QED BY <1>1, <1>2, FirstFromValue DEF Successor, IInv

LEMMA PlayVarsStep ==
  ASSUME IInv, IInv', PlayVarsOK, [PlayNext]_allVars
  PROVE  PlayVarsOK'
  <1> USE DEF PlayVarsOK, entryVars, playVars
  <1>1. CASE Capture
    <2>1. frame' \in Nat
      BY DEF IInv, TypeOK
    <2> QED BY <1>1, <2>1 DEF Capture
  <1>2. CASE Process
    BY <1>2 DEF Process
  <1>3. CASE PrunerStep
    <2>1. naps' \in 0 .. PLAYBACK_NAPS
      BY <1>3, PlaybackAssumption DEF PrunerStep
    <2> QED BY <1>3, <2>1 DEF PrunerStep
  <1>4. ASSUME NEW t \in Slot, SaverStep(t)
        PROVE  PlayVarsOK'
    <2>1. itr[t] \in Nat
      BY DEF IInv, TypeOK
    <2> QED BY <1>4, <2>1 DEF SaverStep, SaverSetROI, SaverUnlock
  <1>5. CASE KeyPressed
    BY <1>5, IteratorTypes DEF KeyPressed
  <1>6. CASE Playing
    <2>1. 0 \in 0 .. PLAYBACK_NAPS
      BY PlaybackAssumption
    <2>2. CASE Scan \/ FallAsleep \/ StartWalk \/ GetSize \/ WalkEnds \/ Exit \/ Stray
      BY <2>1, <2>2, IteratorTypes
         DEF Scan, FallAsleep, StartWalk, GetSize, WalkEnds, Exit, Stray
    <2>3. CASE CopyFrame
      <3>1. Append(played, playItr) \in Seq(Nat)
        OBVIOUS
      <3>2. UNCHANGED <<playSize, naps, quiet, roi, pFacesSeq, detected>>
            /\ playPc' \in {"size", "exit"}
            /\ \/ played' = Append(played, playItr) /\ playItr' = Successor(playItr)
               \/ UNCHANGED <<played, playItr>>
        BY <2>3 DEF CopyFrame
      <3> QED BY <3>1, <3>2, IteratorTypes
    <2> QED BY <1>6, <2>2, <2>3 DEF Playing
  <1>7. CASE Crash \/ UNCHANGED allVars
    BY <1>7 DEF Crash, allVars
  <1> QED BY <1>1, <1>2, <1>3, <1>4, <1>5, <1>6, <1>7 DEF PlayNext

LEMMA PlayVarsTyped == PlaySpec => []PlayVarsOK
  <1>1. PlayInit => PlayVarsOK
    <2>1. 0 \in 0 .. PLAYBACK_NAPS /\ <<>> \in Seq(Nat)
      BY PlaybackAssumption
    <2>2. End \in Nat
      BY DEF End
    <2> QED BY <2>1, <2>2 DEF PlayInit, PlayVarsOK
  <1>2. IInv /\ IInv' /\ PlayVarsOK /\ [PlayNext]_allVars => PlayVarsOK'
    BY PlayVarsStep
  <1> QED BY <1>1, <1>2, PlayInductive, PTL DEF PlaySpec

\* The iterators, the naps and the regions of interest have their types: the
\* playback's iterator is a frame id or the end of the history.
THEOREM PlayTypes == PlaySpec => []PlayTypeOK
  <1>1. IInv /\ PlayVarsOK => PlayTypeOK
    BY DEF IInv, PlayVarsOK, PlayTypeOK
  <1> QED BY <1>1, PlayInductive, PlayVarsTyped, PTL

-----------------------------------------------------------------------------
(* The region of interest *)

\* Between locking gHistoryCS and writing the image a saver stays at its entry.
Locked(t) ==
  /\ savePc[t] = "walk"
  /\ face[t] <= Len(Visit(t))
  /\ itr[t] >= Visit(t)[face[t]]

RoiHeld ==
  /\ \A t \in Slot : face[t] > 0
  /\ roi # NoFrame => \E t \in Slot : Locked(t)

LEMMA LockedUntouched ==
  ASSUME NEW t \in Slot, Locked(t),
         pFaces'[t] = pFaces[t], savePc'[t] = savePc[t], pass'[t] = pass[t],
         itr'[t] = itr[t], face'[t] = face[t]
  PROVE  Locked(t)'
  <1>1. Visit(t)' = Visit(t)
    BY DEF Visit
  <1> QED BY <1>1 DEF Locked

\* The indices of the savers only grow, until they start over at 1.
LEMMA FacesStart ==
  ASSUME IInv, \A t \in Slot : face[t] > 0, [Next]_vars
  PROVE  \A t \in Slot : face'[t] > 0
  <1>0. face \in [Slot -> Nat]
    BY DEF IInv, TypeOK
  <1>1. CASE UNCHANGED face
    BY <1>1
  <1>2. ASSUME NEW s \in Slot, Saver(s)
        PROVE  \A t \in Slot : face'[t] > 0
    <2>1. \/ UNCHANGED face
          \/ face' = [face EXCEPT ![s] = 1]
          \/ face' = [face EXCEPT ![s] = face[s] + 1]
      BY <1>2 DEF Saver, SaverTrim, SaverSkip, SaverSeek, SaverPass, SaverWrite,
                  SaverEndWalk, SaverRegister, SaverFinish, NextPass, Return
    <2> QED BY <1>0, <2>1
  <1>3. Main \/ Pruner => UNCHANGED face
    BY DEF Main, AddToHistory, MatchFaces, DeleteThread, SeedThreads, TrimThreads,
           EndOfInput, ExitProgram, Pruner, PruneWait, PruneSnapshot, PruneErase,
           PruneSleep, PruneWake, saveVars
  <1> QED BY <1>1, <1>2, <1>3 DEF Next, Exited, vars, saveVars

\* A saver that holds gHistoryCS does nothing but write the image.
LEMMA LockedOnlyWrites ==
  ASSUME IInv, RoiHeld, NEW t \in Slot, Locked(t)
  PROVE  /\ ~SaverTrim(t) /\ ~SaverSkip(t) /\ ~SaverSeek(t) /\ ~SaverPass(t)
         /\ ~SaverEndWalk(t) /\ ~SaverRegister(t) /\ ~SaverFinish(t)
  <1>1. /\ t \in Live /\ itr[t] \in Nat /\ face[t] \in Nat /\ face[t] > 0
    BY DEF IInv, TypeOK, OwnershipExclusive, Live, Locked, RoiHeld
  <1>2. Visit(t) \in Seq(Nat)
    BY <1>1, VisitShape
  <1>3. face[t] \in 1 .. Len(Visit(t))
    BY <1>1, <1>2 DEF Locked
  <1>4. Visit(t)[face[t]] \in Nat /\ Len(Visit(t)) \in Nat
    BY <1>2, <1>3
  <1>5. ~(itr[t] < Visit(t)[face[t]]) /\ ~(face[t] > Len(Visit(t)))
    BY <1>1, <1>4 DEF Locked
  <1> QED BY <1>5 DEF Locked, SaverTrim, SaverSkip, SaverSeek, SaverPass,
          SaverEndWalk, SaverRegister, SaverFinish

LEMMA RoiStep ==
  ASSUME IInv, PlayVarsOK, RoiHeld, [PlayNext]_allVars
  PROVE  RoiHeld'
  <1>1. \A t \in Slot : face'[t] > 0
    BY PlayStep, FacesStart DEF RoiHeld
  <1> SUFFICES ASSUME roi' # NoFrame PROVE \E t \in Slot : Locked(t)'
    BY <1>1 DEF RoiHeld
  <1>2. ASSUME NEW t \in Slot, SaverSetROI(t)
        PROVE  \E u \in Slot : Locked(u)'
    <2>1. Locked(t)
      BY <1>2 DEF SaverSetROI, Locked
    <2>2. UNCHANGED <<pFaces, savePc, pass, itr, face>>
      BY <1>2 DEF SaverSetROI, vars, saveVars
    <2> QED BY <2>1, <2>2, LockedUntouched
  <1>3. ASSUME NEW t \in Slot, SaverStep(t), ~SaverSetROI(t), ~SaverUnlock(t),
               Running
        PROVE  \E u \in Slot : Locked(u)'
    <2>1. UNCHANGED roi
      BY <1>3 DEF SaverStep, entryVars
    <2>2. Saver(t)
      BY <1>3 DEF SaverStep, Saver
    <2>3. ~Locked(t)
      BY <1>3, LockedOnlyWrites DEF SaverStep
    <2> PICK u \in Slot : Locked(u)
      BY <2>1 DEF RoiHeld
    <2>4. /\ pFaces'[u] = pFaces[u] /\ savePc'[u] = savePc[u]
          /\ pass'[u] = pass[u] /\ itr'[u] = itr[u] /\ face'[u] = face[u]
      BY <2>2, <2>3, SaverLeavesOthers
    <2> QED BY <2>4, LockedUntouched
  <1>4. ASSUME Main \/ Pruner \/ UNCHANGED vars, UNCHANGED roi
        PROVE  \E u \in Slot : Locked(u)'
    <2> PICK t \in Slot : Locked(t)
      BY <1>4 DEF RoiHeld
    <2>1. /\ pFaces'[t] = pFaces[t] /\ savePc'[t] = savePc[t]
          /\ pass'[t] = pass[t] /\ itr'[t] = itr[t] /\ face'[t] = face[t]
      <3>1. CASE Main
        BY <3>1, MainLeavesSaver DEF Locked
      <3>2. CASE Pruner
        BY <3>2 DEF Pruner, PruneWait, PruneSnapshot, PruneErase, PruneSleep,
                    PruneWake, saveVars
      <3>3. CASE UNCHANGED vars
        BY <3>3 DEF vars, saveVars
      <3> QED BY <1>4, <3>1, <3>2, <3>3
    <2> QED BY <2>1, LockedUntouched
  <1>5. CASE \E t \in Slot : Running /\ SaverStep(t)
    BY <1>2, <1>3, <1>5 DEF SaverUnlock
  <1>6. CASE Capture \/ Process \/ Exit \/ Crash
    BY <1>4, <1>6 DEF Capture, Process, Exit, Crash, Main, entryVars
  <1>7. CASE Running /\ PrunerStep
    BY <1>4, <1>7 DEF PrunerStep, Pruner, entryVars
  <1>8. CASE KeyPressed \/ (Playing /\ ~Exit) \/ UNCHANGED allVars
    BY <1>4, <1>8 DEF KeyPressed, Playing, Scan, FallAsleep, StartWalk, GetSize,
       CopyFrame, WalkEnds, Stray, allVars, entryVars
  <1> QED BY <1>5, <1>6, <1>7, <1>8 DEF PlayNext, Exited

-----------------------------------------------------------------------------
(* Main, after its input has ended *)

\* Where main is tells that input is over, that nothing is recorded before the
\* second walk, and that main slept before it.
PlaceInv ==
  /\ playPc \in {"scan", "sleep", "size", "copy"} => mainPc = "ended"
  /\ playPc \in {"input", "scan", "sleep"} => played = <<>>
  /\ playPc \in {"size", "copy"} => naps = PLAYBACK_NAPS

LEMMA PlaceStep ==
  ASSUME PlayVarsOK, PlaceInv, [PlayNext]_allVars
  PROVE  PlaceInv'
  <1> USE DEF PlaceInv, playVars, entryVars
  <1>1. CASE Capture
    BY <1>1 DEF Capture, AddToHistory
  <1>2. CASE Process
    BY <1>2 DEF Process, MatchFaces, SeedThreads, TrimThreads, EndOfInput, DeleteThread
  <1>3. CASE PrunerStep
    <2>1. UNCHANGED <<mainPc, playPc, played>>
      BY <1>3 DEF PrunerStep, PruneWait, PruneSnapshot, PruneErase, PruneSleep,
                  PruneWake, mainVars
    <2>2. naps = PLAYBACK_NAPS => naps' = naps
      BY <1>3, PlaybackAssumption DEF PrunerStep
    <2> QED BY <2>1, <2>2
  <1>4. CASE \E t \in Slot : SaverStep(t)
    BY <1>4 DEF SaverStep, SaverSetROI, SaverUnlock, SaverTrim, SaverSkip,
                SaverSeek, SaverPass, SaverWrite, SaverEndWalk, SaverRegister,
                SaverFinish, mainVars, vars
  <1>5. CASE KeyPressed \/ Playing \/ Crash
    BY <1>5 DEF KeyPressed, Playing, Scan, FallAsleep, StartWalk, GetSize,
                CopyFrame, WalkEnds, Stray, Exit, Crash, ExitProgram, vars, mainVars
  <1>6. CASE UNCHANGED allVars
    BY <1>6 DEF allVars, vars, mainVars
  <1> QED BY <1>1, <1>2, <1>3, <1>4, <1>5, <1>6 DEF PlayNext

-----------------------------------------------------------------------------
(* The quiet playback *)

\* Main went to sleep when no saver was running, and has not ended yet.
Alone == quiet /\ playPc \in {"sleep", "size", "copy"}

NobodySaves == Alone => gThreads_beingSerialized = {}

\* Nobody is left who could hold gHistoryCS.
LEMMA AloneUnlocked ==
  ASSUME IInv, RoiHeld, NobodySaves, Alone
  PROVE  /\ Live = gThreads
         /\ \A t \in Slot : savePc[t] = "idle"
         /\ roi = NoFrame
  BY DEF IInv, OwnershipExclusive, NobodySaves, RoiHeld, Locked, Live

\* What can happen then: the pruner goes on, and main walks.
Walking == StartWalk \/ GetSize \/ CopyFrame \/ WalkEnds \/ Stray

LEMMA AloneSteps ==
  ASSUME IInv, RoiHeld, PlaceInv, NobodySaves, Alone, [PlayNext]_allVars
  PROVE  PrunerStep \/ Walking \/ UNCHANGED allVars
  <1>1. mainPc = "ended" /\ playPc \notin {"input", "scan", "exit", "lost"}
    BY DEF Alone, PlaceInv
  <1>2. ~Capture /\ ~Process
    BY <1>1 DEF Capture, AddToHistory, Process, MatchFaces, SeedThreads,
       TrimThreads, EndOfInput, DeleteThread
  <1>3. \A t \in Slot : ~SaverStep(t)
    BY AloneUnlocked DEF SaverStep, SaverSetROI, SaverUnlock, SaverTrim, SaverSkip,
       SaverSeek, SaverPass, SaverWrite, SaverEndWalk, SaverRegister, SaverFinish
  <1>4. ~KeyPressed /\ ~Scan /\ ~FallAsleep /\ ~Exit /\ ~Crash
    BY <1>1 DEF KeyPressed, Scan, FallAsleep, Exit, Crash
  <1> QED BY <1>2, <1>3, <1>4 DEF PlayNext, Playing, Walking

\* Main gets there by falling asleep only.
LEMMA FallsAlone ==
  ASSUME ~Alone, Alone', [PlayNext]_allVars
  PROVE  FallAsleep /\ gThreads_beingSerialized = {}
  <1> USE DEF Alone, playVars
  <1>1. CASE FallAsleep
    BY <1>1 DEF FallAsleep
  <1>2. CASE ~FallAsleep
    <2>1. CASE Capture \/ Process \/ PrunerStep \/ \E t \in Slot : SaverStep(t)
      BY <2>1 DEF Capture, Process, PrunerStep, SaverStep, SaverSetROI, SaverUnlock
    <2>2. CASE KeyPressed \/ Playing \/ Crash
      BY <1>2, <2>2 DEF KeyPressed, Playing, Scan, StartWalk, GetSize, CopyFrame,
         WalkEnds, Stray, Exit, Crash
    <2>3. CASE UNCHANGED allVars
      BY <2>3 DEF allVars
    <2> QED BY <2>1, <2>2, <2>3 DEF PlayNext
  <1> QED BY <1>1, <1>2

LEMMA NobodySavesStep ==
  ASSUME IInv, RoiHeld, PlaceInv, NobodySaves, [PlayNext]_allVars
  PROVE  NobodySaves'
  <1>1. CASE ~Alone
    BY <1>1, FallsAlone DEF NobodySaves, FallAsleep, vars
  <1>2. CASE Alone
    <2>1. PrunerStep \/ Walking \/ UNCHANGED allVars
      BY <1>2, AloneSteps
    <2>2. UNCHANGED gThreads_beingSerialized
      BY <2>1 DEF PrunerStep, PruneWait, PruneSnapshot, PruneErase, PruneSleep,
         PruneWake, Walking, StartWalk, GetSize, CopyFrame, WalkEnds, Stray, vars,
         allVars
    <2> QED BY <1>2, <2>2 DEF NobodySaves
  <1> QED BY <1>1, <1>2

-----------------------------------------------------------------------------
(* The pruner settles *)

\* Nothing is left to erase.
Settled ==
  \/ Len(gHistory) <= MIN_LIST_SIZE
  \/ \E t \in Live : Head(pFaces[t]) <= Head(gHistory)

\* The minimum is that of the face threads there are.
FreshMin ==
  /\ minFrameToKeep = NoFrame <=> Live = {}
  /\ \A t \in Live : minFrameToKeep <= Head(pFaces[t])
  /\ Live # {} => \E t \in Live : minFrameToKeep = Head(pFaces[t])

\* At the end of its first nap the pruner reads the size of the list, and takes
\* a minimum that stays right; at the end of the second it has settled.
PrunerSettles ==
  Alone /\ naps >= 1 =>
    /\ listSize = Len(gHistory)
    /\ prunePc \in {"wait", "sleep"} \/ naps >= 2 => Settled
    /\ prunePc = "cut" => FreshMin

LEMMA FrontHead ==
  ASSUME IInv
  PROVE  /\ \A t \in Live : Head(pFaces[t]) \in Nat
         /\ Len(gHistory) \in Nat /\ MIN_LIST_SIZE \in Nat
         /\ Len(gHistory) > MIN_LIST_SIZE => Head(gHistory) \in Nat
         /\ minFrameToKeep \in Nat \cup {NoFrame}
         /\ frame \in Nat
  <1>1. \A t \in Live : Head(pFaces[t]) \in Nat
    <2> TAKE t \in Live
    <2>1. pFaces[t] \in Seq(Nat) /\ pFaces[t] # <<>>
      BY DEF IInv, TypeOK, OwnershipExclusive, Live
    <2> QED BY <2>1
  <1>2. /\ gHistory \in Seq(Nat) /\ MIN_LIST_SIZE \in Nat
        /\ minFrameToKeep \in Nat \cup {NoFrame} /\ frame \in Nat
    BY ConstantsAssumption DEF IInv, TypeOK
  <1>3. Len(gHistory) \in Nat
    BY <1>2
  <1>4. Len(gHistory) > MIN_LIST_SIZE => gHistory # <<>>
    BY <1>2
  <1>5. gHistory # <<>> => Head(gHistory) \in Nat
    BY <1>2
  <1> QED BY <1>1, <1>2, <1>3, <1>4, <1>5

\* The inner loop of the pruner ends exactly when it has settled.
LEMMA SettledIsDone ==
  ASSUME IInv, FreshMin, listSize = Len(gHistory)
  PROVE  Settled <=> ~MayErase
  <1> USE FrontHead
  <1>1. ASSUME Settled, MayErase PROVE FALSE
    <2>1. Len(gHistory) > MIN_LIST_SIZE
      BY <1>1 DEF MayErase
    <2> PICK t \in Live : Head(pFaces[t]) <= Head(gHistory)
      BY <1>1, <2>1 DEF Settled
    <2>2. minFrameToKeep # NoFrame /\ minFrameToKeep <= Head(pFaces[t])
      BY DEF FreshMin
    <2>3. Head(gHistory) < minFrameToKeep
      BY <1>1, <2>2 DEF MayErase
    <2> QED BY <2>1, <2>2, <2>3
  <1>2. ASSUME ~MayErase, Len(gHistory) > MIN_LIST_SIZE
        PROVE  Settled
    <2>1. minFrameToKeep # NoFrame /\ ~(Head(gHistory) < minFrameToKeep)
      BY <1>2 DEF MayErase
    <2> PICK t \in Live : minFrameToKeep = Head(pFaces[t])
      BY <2>1 DEF FreshMin
    <2>2. Head(pFaces[t]) <= Head(gHistory)
      BY <1>2, <2>1
    <2> QED BY <2>2 DEF Settled
  <1> QED BY <1>1, <1>2 DEF Settled

LEMMA SnapshotFresh ==
  ASSUME IInv, PruneSnapshot
  PROVE  FreshMin'
  <1>1. Live' = Live /\ pFaces' = pFaces
    BY DEF PruneSnapshot, Live
  <1>2. \A t \in Live : Head(pFaces[t]) \in Nat
    BY FrontHead
  <1>3. CASE Live = {}
    <2>1. minFrameToKeep' = NoFrame
      BY <1>3 DEF PruneSnapshot, FrontsToKeep
    <2> QED BY <1>1, <1>3, <2>1 DEF FreshMin
  <1>4. CASE Live # {}
    <2>1. FrontsToKeep # {}
      BY <1>4 DEF FrontsToKeep
    <2>2. /\ minFrameToKeep' \in FrontsToKeep
          /\ \A f \in FrontsToKeep : minFrameToKeep' <= f
      BY <2>1 DEF PruneSnapshot
    <2>3. PICK t \in Live : minFrameToKeep' = Head(pFaces[t])
      BY <2>2 DEF FrontsToKeep
    <2>4. \A u \in Live : minFrameToKeep' <= Head(pFaces[u])
      BY <2>2 DEF FrontsToKeep
    <2>5. minFrameToKeep' # NoFrame
      BY <1>2, <2>3 DEF NoFrame
    <2> QED BY <1>1, <1>4, <2>3, <2>4, <2>5 DEF FreshMin
  <1> QED BY <1>3, <1>4

\* A nap ends; if one had ended before, it is the second.
LEMMA NapEnds ==
  ASSUME PlayVarsOK, PlaybackSleepsLong,
         naps' = IF naps < PLAYBACK_NAPS THEN naps + 1 ELSE naps
  PROVE  naps' >= 1 /\ (naps' >= 2 => naps >= 1)
  BY PlaybackAssumption DEF PlayVarsOK, PlaybackSleepsLong

LEMMA SettlesStep ==
  ASSUME PlaybackSleepsLong, IInv, PlayVarsOK, RoiHeld, PlaceInv, NobodySaves,
         PrunerSettles, [PlayNext]_allVars
  PROVE  PrunerSettles'
  <1>1. CASE ~Alone
    <2> SUFFICES ASSUME Alone' PROVE ~(naps' >= 1)
      BY DEF PrunerSettles
    <2>1. FallAsleep
      BY <1>1, FallsAlone
    <2> QED BY <2>1 DEF FallAsleep
  <1>2. CASE Alone /\ (Walking \/ UNCHANGED allVars)
    <2>1. UNCHANGED <<vars, naps>>
      BY <1>2 DEF Walking, StartWalk, GetSize, CopyFrame, WalkEnds, Stray, allVars,
                  playVars
    <2>2. (Settled' <=> Settled) /\ (FreshMin' <=> FreshMin)
      BY <2>1 DEF vars, pruneVars, Settled, FreshMin, Live
    <2> QED BY <1>2, <2>1, <2>2 DEF PrunerSettles, vars, pruneVars
  <1>3. CASE Alone /\ PrunerStep
    <2>1. UNCHANGED Live /\ UNCHANGED pFaces
      BY <1>3 DEF PrunerStep, PruneWait, PruneSnapshot, PruneErase, PruneSleep,
                  PruneWake, Live
    <2>2. CASE PruneWait \/ PruneWake
      <3>1. /\ prunePc \in {"wait", "sleep"} /\ UNCHANGED gHistory
            /\ listSize' = Len(gHistory)
            /\ prunePc' \in {"wait", "snapshot"}
            /\ prunePc' = "wait" => Len(gHistory) <= MIN_LIST_SIZE
        BY <2>2 DEF PruneWait, PruneWake
      <3>2. naps' = IF naps < PLAYBACK_NAPS THEN naps + 1 ELSE naps
        BY <1>3, <3>1 DEF PrunerStep, PruneSnapshot, PruneErase, PruneSleep
      <3>3. naps' >= 2 => Settled
        BY <1>3, <3>1, <3>2, NapEnds DEF PrunerSettles
      <3>4. Settled' <=> Settled
        BY <2>1, <3>1 DEF Settled
      <3>5. prunePc' = "wait" => Settled
        BY <3>1 DEF Settled
      <3> QED BY <3>1, <3>3, <3>4, <3>5 DEF PrunerSettles
    <2>3. CASE ~(PruneWait \/ PruneWake)
      <3>1. PruneSnapshot \/ PruneErase \/ PruneSleep
        BY <1>3, <2>3 DEF PrunerStep
      <3>2. UNCHANGED naps
        BY <1>3, <2>3 DEF PrunerStep, playVars
      <3> SUFFICES ASSUME naps >= 1
                   PROVE  /\ listSize' = Len(gHistory')
                          /\ prunePc' \in {"wait", "sleep"} \/ naps >= 2 => Settled'
                          /\ prunePc' = "cut" => FreshMin'
        BY <3>2 DEF PrunerSettles
      <3>3. /\ listSize = Len(gHistory)
            /\ naps >= 2 => Settled
            /\ prunePc = "cut" => FreshMin
        BY <1>3 DEF PrunerSettles
      <3>4. CASE PruneSnapshot
        <4>1. FreshMin'
          BY <3>4, SnapshotFresh
        <4>2. Settled' <=> Settled
          BY <2>1, <3>4 DEF PruneSnapshot, Settled
        <4> QED BY <3>3, <3>4, <4>1, <4>2 DEF PruneSnapshot
      <3>5. CASE PruneErase
        <4>1. ~Settled
          BY <3>3, <3>5, SettledIsDone DEF PruneErase
        <4>2. FreshMin'
          BY <2>1, <3>3, <3>5 DEF PruneErase, FreshMin
        <4> QED BY <3>3, <3>5, <4>1, <4>2 DEF PruneErase
      <3>6. CASE PruneSleep
        <4>1. Settled
          BY <3>3, <3>6, SettledIsDone DEF PruneSleep
        <4>2. Settled' <=> Settled
          BY <2>1, <3>6 DEF PruneSleep, Settled
        <4> QED BY <3>3, <3>6, <4>1, <4>2 DEF PruneSleep
      <3> QED BY <3>1, <3>4, <3>5, <3>6
    <2> QED BY <2>2, <2>3
  <1> QED BY <1>1, <1>2, <1>3, AloneSteps

\* Once main walks, the history does not change any more.
LEMMA HistoryFrozen ==
  ASSUME PlaybackSleepsLong, IInv, PlayVarsOK, PlaceInv, PrunerSettles,
         Alone, playPc # "sleep", PrunerStep
  PROVE  UNCHANGED <<gHistory, playPc, playItr, playSize, played, quiet>>
  <1>1. naps >= 2
    BY DEF Alone, PlaceInv, PlaybackSleepsLong
  <1>2. naps >= 1 /\ Settled
    BY <1>1 DEF PrunerSettles, PlayVarsOK
  <1>3. ~PruneErase
    BY <1>2, SettledIsDone DEF PruneErase, PrunerSettles
  <1> QED BY <1>3 DEF PrunerStep, PruneWait, PruneSnapshot, PruneSleep, PruneWake,
          playVars

-----------------------------------------------------------------------------
(* The recording *)

\* What is recorded is the part of the history before the iterator.
Recorded ==
  Alone /\ playPc # "sleep" =>
    /\ \A i \in 1 .. Len(played) : played[i] = gHistory[i]
    /\ IF playItr = End
       THEN Len(played) = Len(gHistory)
       ELSE Len(played) < Len(gHistory) /\ playItr = gHistory[Len(played) + 1]
    /\ playPc = "copy" => playItr # End /\ playSize = "full"

\* The iterator goes from one entry to the next, and from the last to the end.
LEMMA IteratorMoves ==
  ASSUME IInv
  PROVE  /\ gHistory # <<>> => Begin = gHistory[1] /\ Begin # End
         /\ \A k \in 1 .. Len(gHistory) :
              Successor(gHistory[k]) = IF k = Len(gHistory) THEN End
                                                         ELSE gHistory[k + 1]
         /\ \A k \in 1 .. Len(gHistory) : gHistory[k] # End
  <1> DEFINE n == Len(gHistory)
  <1>1. /\ gHistory \in Seq(Nat) /\ n \in Nat /\ frame \in Nat /\ n <= frame
        /\ \A i \in 1 .. n : gHistory[i] = frame - n + i
    BY DEF IInv, TypeOK, HistoryShape
  <1>2. Stored = (frame - n + 1) .. frame
    BY StoredInterval DEF IInv
  <1>3. gHistory # <<>> => Begin = gHistory[1] /\ n >= 1
    BY <1>1 DEF Begin
  <1> HIDE DEF n
  <1>4. \A k \in 1 .. n : gHistory[k] # End
    BY <1>1 DEF End
  <1>5. ASSUME NEW k \in 1 .. n
        PROVE  Successor(gHistory[k]) = IF k = n THEN End ELSE gHistory[k + 1]
    <2>1. gHistory[k] + 1 = frame - n + k + 1 /\ gHistory[k] + 1 \in Nat
      BY <1>1
    <2>2. CASE k = n
      <3>1. gHistory[k] + 1 = frame + 1
        BY <1>1, <2>1, <2>2
      <3>2. {g \in Stored : g >= frame + 1} = {}
        BY <1>1, <1>2
      <3> QED BY <2>2, <3>1, <3>2 DEF Successor, FirstFrom
    <2>3. CASE k # n
      <3>1. k + 1 \in 1 .. n
        BY <1>1, <2>3
      <3>2. gHistory[k + 1] = gHistory[k] + 1
        BY <1>1, <2>1, <3>1
      <3>3. gHistory[k] + 1 \in Stored
        BY <1>1, <1>2, <2>1, <3>1
      <3> QED BY <2>1, <2>3, <3>2, <3>3, FirstFromValue DEF Successor, IInv
    <2> QED BY <2>2, <2>3
  <1>6. n >= 1 => 1 \in 1 .. n
    BY <1>1
  <1> QED BY <1>3, <1>4, <1>5, <1>6 DEF n

LEMMA RecordedStep ==
  ASSUME PlaybackSleepsLong, IInv, PlayVarsOK, RoiHeld, PlaceInv, NobodySaves,
         PrunerSettles, Recorded, [PlayNext]_allVars
  PROVE  Recorded'
  <1> SUFFICES ASSUME Alone', playPc' # "sleep" PROVE Recorded'
    BY DEF Recorded
  <1>1. Alone
    BY FallsAlone DEF FallAsleep
  <1>2. CASE PrunerStep
    <2>1. playPc' = playPc
      BY <1>2 DEF PrunerStep, playVars
    <2>2. UNCHANGED <<gHistory, playPc, playItr, playSize, played, quiet>>
      BY <1>1, <1>2, <2>1, HistoryFrozen
    <2> QED BY <1>1, <2>2 DEF Recorded
  <1>3. CASE UNCHANGED allVars
    BY <1>1, <1>3 DEF allVars, vars, playVars, Recorded
  <1>4. CASE StartWalk
    <2>1. /\ played = <<>> /\ played' = <<>> /\ gHistory' = gHistory
          /\ playItr' = Begin /\ playPc' = "size"
      BY <1>4 DEF StartWalk, PlaceInv, vars
    <2>2. Len(gHistory) \in Nat /\ (gHistory = <<>> => Len(gHistory) = 0)
          /\ (gHistory # <<>> => Len(gHistory) > 0)
      BY DEF IInv, TypeOK
    <2>3. gHistory = <<>> => Begin = End
      BY DEF Begin
    <2> QED BY <2>1, <2>2, <2>3, IteratorMoves DEF Recorded
  <1>5. CASE GetSize
    <2>1. UNCHANGED <<gHistory, played, playItr>> /\ playItr # End /\ playPc = "size"
      <3>1. PICK k \in DOMAIN gHistory : playItr = gHistory[k]
        BY <1>5 DEF GetSize, Stored
      <3>2. DOMAIN gHistory = 1 .. Len(gHistory)
        BY DEF IInv, TypeOK
      <3> QED BY <1>5, <3>1, <3>2, IteratorMoves DEF GetSize, vars
    <2>2. playItr # roi
      BY <1>1, AloneUnlocked DEF PlayVarsOK, NoFrame
    <2>3. playSize' = "full"
      BY <1>5, <2>2 DEF GetSize
    <2> QED BY <1>1, <2>1, <2>3 DEF Recorded
  <1>6. CASE CopyFrame
    <2> DEFINE n == Len(played)
    <2>1. /\ playPc = "copy" /\ playItr # End /\ playSize = "full"
          /\ n < Len(gHistory) /\ playItr = gHistory[n + 1]
          /\ \A i \in 1 .. n : played[i] = gHistory[i]
      BY <1>1, <1>6 DEF Recorded, CopyFrame
    <2>2. playItr # roi
      BY <1>1, AloneUnlocked DEF PlayVarsOK, NoFrame
    <2>3. /\ played' = Append(played, playItr) /\ playItr' = Successor(playItr)
          /\ gHistory' = gHistory /\ playPc' # "copy"
      BY <1>6, <2>1, <2>2 DEF CopyFrame, vars
    <2>4. /\ n \in Nat /\ Len(gHistory) \in Nat /\ n + 1 \in 1 .. Len(gHistory)
          /\ played \in Seq(Nat) /\ playItr \in Nat
      BY <2>1 DEF PlayVarsOK, IInv, TypeOK
    <2>5. /\ Len(played') = n + 1
          /\ \A i \in 1 .. n : played'[i] = played[i]
          /\ played'[n + 1] = playItr
      BY <2>3, <2>4
    <2> HIDE DEF n
    <2>6. \A i \in 1 .. n + 1 : played'[i] = gHistory[i]
      <3> TAKE i \in 1 .. n + 1
      <3>1. i \in 1 .. n \/ i = n + 1
        BY <2>4
      <3> QED BY <2>1, <2>5, <3>1
    <2>7. playItr' = IF n + 1 = Len(gHistory) THEN End ELSE gHistory[(n + 1) + 1]
      BY <2>1, <2>3, <2>4, IteratorMoves
    <2>8. n + 1 # Len(gHistory) => playItr' # End /\ n + 1 < Len(gHistory)
      <3> SUFFICES ASSUME n + 1 # Len(gHistory)
                   PROVE  playItr' # End /\ n + 1 < Len(gHistory)
        OBVIOUS
      <3>1. (n + 1) + 1 \in 1 .. Len(gHistory)
        BY <2>4
      <3> QED BY <2>4, <2>7, <3>1, IteratorMoves
    <2> QED BY <2>3, <2>5, <2>6, <2>7, <2>8 DEF Recorded
  <1>7. CASE WalkEnds \/ Stray
    BY <1>7 DEF WalkEnds, Stray, Alone
  <1> QED BY <1>1, <1>2, <1>3, <1>4, <1>5, <1>6, <1>7, AloneSteps DEF Walking

\* Main never strays there: its iterator stands on an entry, or at the end.
StaysOnPath == quiet => playPc \in {"sleep", "size", "copy", "exit"}

LEMMA StaysOnPathStep ==
  ASSUME IInv, PlayVarsOK, RoiHeld, PlaceInv, NobodySaves, Recorded, StaysOnPath,
         [PlayNext]_allVars
  PROVE  StaysOnPath'
  <1> SUFFICES ASSUME quiet'
               PROVE  playPc' \in {"sleep", "size", "copy", "exit"}
    BY DEF StaysOnPath
  <1>1. CASE Alone
    <2>1. ~Stray
      <3>1. CASE playPc = "sleep"
        BY <3>1 DEF Stray
      <3>2. CASE playPc # "sleep" /\ playItr # End
        <4>1. Len(played) < Len(gHistory) /\ playItr = gHistory[Len(played) + 1]
          BY <1>1, <3>2 DEF Recorded
        <4>2. Len(played) + 1 \in DOMAIN gHistory
          <5>1. gHistory \in Seq(Nat) /\ played \in Seq(Nat)
            BY DEF IInv, TypeOK, PlayVarsOK
          <5> QED BY <4>1, <5>1
        <4> QED BY <4>1, <4>2 DEF Stray, Astray, Stored
      <3>3. CASE playItr = End
        BY <3>3 DEF Stray, Astray
      <3> QED BY <3>1, <3>2, <3>3
    <2>2. CASE PrunerStep \/ UNCHANGED allVars
      BY <1>1, <2>2 DEF PrunerStep, allVars, playVars, Alone
    <2>3. CASE Walking
      BY <2>1, <2>3 DEF Walking, StartWalk, GetSize, CopyFrame, WalkEnds
    <2> QED BY <1>1, <2>2, <2>3, AloneSteps
  <1>2. CASE ~Alone /\ Alone'
    BY <1>2 DEF Alone
  <1>3. CASE ~Alone /\ ~Alone'
    <2>1. CASE ~quiet
      <3>1. CASE FallAsleep
        BY <3>1 DEF FallAsleep
      <3>2. CASE ~FallAsleep
        <4>1. quiet' = quiet
          BY <3>2 DEF PlayNext, Playing, Capture, Process, PrunerStep, SaverStep,
             SaverSetROI, SaverUnlock, KeyPressed, Scan, StartWalk, GetSize,
             CopyFrame, WalkEnds, Stray, Exit, Crash, playVars, allVars
        <4> QED BY <2>1, <4>1
      <3> QED BY <3>1, <3>2
    <2>2. CASE quiet
      <3>1. playPc = "exit"
        BY <1>3, <2>2 DEF Alone, StaysOnPath
      <3>2. playPc' = playPc
        BY <3>1 DEF PlayNext, Playing, Capture, Process, PrunerStep, SaverStep,
           SaverSetROI, SaverUnlock, KeyPressed, Scan, FallAsleep, StartWalk,
           GetSize, CopyFrame, WalkEnds, Stray, Exit, Crash, playVars, allVars
      <3> QED BY <3>1, <3>2
    <2> QED BY <2>1, <2>2
  <1> QED BY <1>1, <1>2, <1>3

\* With no saver left, and with a sleep of at least two naps of the pruner, the
\* recording is the history: every frame kept, once, in order and in full size,
\* and the unlocked iterator never strays from it - for any number of frames and
\* face threads (PlanetariumFD.cpp:204).
THEOREM RecordsTheHistory ==
  PlaybackSleepsLong => (PlaySpec => []QuietPlaybackComplete)
  <1> SUFFICES ASSUME PlaybackSleepsLong
               PROVE  PlaySpec => []QuietPlaybackComplete
    OBVIOUS
  <1> DEFINE QInv == /\ RoiHeld /\ PlaceInv /\ NobodySaves
                     /\ PrunerSettles /\ Recorded /\ StaysOnPath
  <1>1. PlayInit => QInv
    BY DEF PlayInit, Init, RoiHeld, PlaceInv, NobodySaves, PrunerSettles, Recorded,
           StaysOnPath, Alone
  <1>2. IInv /\ PlayVarsOK /\ QInv /\ [PlayNext]_allVars => QInv'
    BY RoiStep, PlaceStep, NobodySavesStep, SettlesStep, RecordedStep,
       StaysOnPathStep
  <1>3. IInv /\ PlayVarsOK /\ QInv => QuietPlaybackComplete
    <2>0. QInv /\ quiet => playPc # "lost"
      BY DEF StaysOnPath
    <2> SUFFICES ASSUME IInv, PlayVarsOK, QInv, Alone, playPc # "sleep"
                 PROVE  /\ Len(played) <= Len(gHistory)
                        /\ played = SubSeq(gHistory, 1, Len(played))
                        /\ IF playItr = End
                           THEN Len(played) = Len(gHistory)
                           ELSE gHistory[Len(played) + 1] = playItr
                        /\ playPc = "copy" => playSize = "full"
      BY <2>0 DEF QuietPlaybackComplete, Alone
    <2>1. /\ played \in Seq(Nat) /\ gHistory \in Seq(Nat)
          /\ Len(played) \in Nat /\ Len(gHistory) \in Nat
      BY DEF PlayVarsOK, IInv, TypeOK
    <2>2. Len(played) <= Len(gHistory)
      BY <2>1 DEF Recorded
    <2>3. played = SubSeq(gHistory, 1, Len(played))
      <3> DEFINE p == SubSeq(gHistory, 1, Len(played))
      <3>1. p \in Seq(Nat) /\ Len(p) = Len(played)
            /\ \A i \in 1 .. Len(played) : p[i] = gHistory[i]
        BY <2>1, <2>2
      <3>2. \A i \in 1 .. Len(played) : p[i] = played[i]
        BY <3>1 DEF Recorded
      <3> HIDE DEF p
      <3>3. /\ p = [i \in 1 .. Len(played) |-> p[i]]
            /\ played = [i \in 1 .. Len(played) |-> played[i]]
        BY <2>1, <3>1
      <3>4. p = played
        BY <3>2, <3>3
      <3> QED BY <3>4 DEF p
    <2> QED BY <2>2, <2>3 DEF Recorded
  <1> HIDE DEF QInv
  <1> QED BY <1>1, <1>2, <1>3, PlayInductive, PlayVarsTyped, PTL DEF PlaySpec
=============================================================================
