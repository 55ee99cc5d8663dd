------------------------- MODULE GetVisualsProofs -------------------------
(***************************************************************************)
(* Proofs about GetVisuals, for every number of rows, clients and seconds, *)
(* for all parameters of the requests and for any number of requests in a  *)
(* second.                                                                 *)
(*                                                                         *)
(* A row that waits for its turn is overtaken only by rows that are not    *)
(* newer, and each of these, once it has had its turn, is newer until the  *)
(* row has had its own.  So what a row has been overtaken by and what may  *)
(* still overtake it, rows that are not yet in the table among them, are   *)
(* together never more than the other rows.                                *)
(***************************************************************************)
EXTENDS GetVisuals, FiniteSetTheorems, TLAPS

-----------------------------------------------------------------------------
(* The invariant *)

N == Cardinality(Visual)

\* The rows that may still have a turn before r has, if they are, or come to be,
\* of its kind.
Ahead(r) ==
  {q \in Visual \ {r} : q \in Table => lastupdated[q] <= lastupdated[r]}

TypeOK ==
  /\ now \in Nat
  /\ Table \subseteq Visual
  /\ lastupdated \in [Table -> Nat]
  /\ overtaken \in [Visual -> Nat]

Past == \A r \in Table : lastupdated[r] <= now

Outside == \A r \in Visual \ Table : overtaken[r] = 0

Ordered == \A r \in Table : overtaken[r] + Cardinality(Ahead(r)) <= N - 1

IInv == TypeOK /\ Past /\ Outside /\ Ordered

-----------------------------------------------------------------------------

\* No more rows than the others come before a row.
LEMMA AheadSize ==
  ASSUME NEW r \in Visual
  PROVE  /\ N \in Nat
         /\ \A S \in SUBSET (Visual \ {r}) :
              /\ IsFiniteSet(S)
              /\ Cardinality(S) \in Nat
              /\ Cardinality(S) <= N - 1
  <1>1. /\ IsFiniteSet(Visual \ {r}) /\ Cardinality(Visual \ {r}) = N - 1
        /\ N \in Nat
    BY VisualsAssumption, FS_RemoveElement, FS_CardinalityType DEF N
  <1> QED BY <1>1, FS_Subset, FS_CardinalityType

\* A row that keeps its count, and that no other comes before, keeps the
\* invariant.
LEMMA OrderKept ==
  ASSUME NEW r \in Visual, NEW A \in SUBSET (Visual \ {r}),
         NEW B \in SUBSET A, NEW o \in Nat,
         o + Cardinality(A) <= N - 1
  PROVE  o + Cardinality(B) <= N - 1
  <1>1. /\ N \in Nat /\ IsFiniteSet(A) /\ Cardinality(A) \in Nat
        /\ Cardinality(B) \in Nat
    BY AheadSize
  <1>2. Cardinality(B) <= Cardinality(A)
    BY <1>1, FS_Subset
  <1> QED BY <1>1, <1>2

LEMMA InitInv ==
  ASSUME Init
  PROVE  IInv
  <1>1. Table = {} /\ now = 1 /\ overtaken = [r \in Visual |-> 0]
    BY DEF Init, Table
  <1>2. lastupdated \in [Table -> Nat]
    BY <1>1 DEF Init, Table
  <1> QED BY <1>1, <1>2 DEF IInv, TypeOK, Past, Outside, Ordered

\* A new row comes before all others, where it was counted before it was there.
LEMMA InsertInv ==
  ASSUME IInv, NEW f \in Visual, NEW u \in Uploads, Insert(f, u)
  PROVE  IInv'
  <1>1. /\ f \notin Table
        /\ lastupdated' = [q \in Table \cup {f} |->
                             IF q = f THEN Never ELSE lastupdated[q]]
        /\ UNCHANGED <<now, overtaken>>
    BY Zenon DEF Insert
  <1>2. Table' = Table \cup {f}
    BY <1>1 DEF Table
  <1>3. /\ TypeOK /\ Never \in Nat
        /\ \A q \in Table : lastupdated'[q] = lastupdated[q]
        /\ lastupdated'[f] = Never
    BY <1>1 DEF IInv, Never
  <1>4. TypeOK' /\ Past' /\ Outside'
    BY <1>1, <1>2, <1>3 DEF IInv, TypeOK, Past, Outside, Never
  <1>5. ASSUME NEW r \in Table'
        PROVE  (overtaken[r] + Cardinality(Ahead(r)) <= N - 1)'
    <2>1. r \in Visual /\ overtaken'[r] = overtaken[r] /\ overtaken[r] \in Nat
      BY <1>1, <1>2, <1>3 DEF TypeOK
    <2>2. N' = N /\ Ahead(r)' \in SUBSET (Visual \ {r})
      BY DEF Ahead, N
    <2>3. CASE r = f
      <3>1. overtaken[r] = 0
        BY <1>1, <2>3 DEF IInv, Outside
      <3> QED BY <2>1, <2>2, <3>1, AheadSize
    <2>4. CASE r # f
      <3>1. r \in Table
        BY <1>2, <2>4
      <3>2. Ahead(r) \in SUBSET (Visual \ {r}) /\ Ahead(r)' \in SUBSET Ahead(r)
        BY <1>2, <1>3, <3>1 DEF Ahead
      <3>3. overtaken[r] + Cardinality(Ahead(r)) <= N - 1
        BY <3>1 DEF IInv, Ordered
      <3> QED BY <2>1, <2>2, <3>2, <3>3, OrderKept
    <2> QED BY <2>3, <2>4
  <1> QED BY <1>4, <1>5 DEF IInv, Ordered

\* The rows that have their turn are no newer than those that wait, and newer
\* afterwards.
LEMMA UpdateInv ==
  ASSUME IInv, NEW c \in Client, NEW p \in Requests, Update(c, p)
  PROVE  IInv'
  <1> DEFINE k == Wanted(p).kind
             ammount == Wanted(p).ammount
  <1>1. now' = now /\ kind' = kind
    BY DEF Update
  <1>2. PICK S \in Oldest(k, ammount) : HaveTurn(S, k)
    BY DEF Update
  <1>3. /\ S \in SUBSET Rows(k)
        /\ \A r \in S : \A q \in Rows(k) \ S : lastupdated[r] <= lastupdated[q]
    BY DEF Oldest
  <1> HIDE DEF k, ammount
  <1>4. /\ TypeOK
        /\ lastupdated' = [r \in Table |-> IF r \in S THEN now ELSE lastupdated[r]]
    BY <1>2 DEF IInv, HaveTurn
  <1>5. Table' = Table /\ Rows(k) \subseteq Table
    BY <1>4 DEF Table, Rows
  <1>6. /\ \A r \in S : lastupdated'[r] = now
        /\ \A r \in Table \ S : lastupdated'[r] = lastupdated[r]
    BY <1>3, <1>4, <1>5
  <1>7. \A r \in Visual :
          /\ r \in S => overtaken'[r] = 0
          /\ r \in Rows(k) \ S /\ lastupdated[r] < now
               => overtaken'[r] = overtaken[r] + Cardinality(S)
          /\ ~(r \in Rows(k) /\ lastupdated[r] < now) /\ r \notin S
               => overtaken'[r] = overtaken[r]
    BY <1>2 DEF HaveTurn
  <1>8. Cardinality(S) \in Nat
    BY <1>3, <1>4, <1>5, VisualsAssumption, FS_Subset, FS_CardinalityType
       DEF TypeOK
  <1>9. overtaken' \in [Visual -> Nat]
    <2>1. \A r \in Visual : overtaken'[r] \in Nat
      BY <1>4, <1>7, <1>8 DEF TypeOK
    <2>2. overtaken' = [r \in Visual |-> overtaken'[r]]
      BY <1>2 DEF HaveTurn
    <2> QED BY <2>1, <2>2
  <1>10. TypeOK' /\ Past'
    BY <1>1, <1>3, <1>4, <1>5, <1>6, <1>9 DEF IInv, TypeOK, Past
  <1>11. Outside'
    BY <1>3, <1>5, <1>7 DEF IInv, Outside
  <1>12. ASSUME NEW r \in Table
         PROVE  (overtaken[r] + Cardinality(Ahead(r)) <= N - 1)'
    <2>1. /\ r \in Visual /\ overtaken[r] \in Nat /\ now \in Nat
          /\ lastupdated[r] \in Nat /\ lastupdated[r] <= now
      BY <1>4 DEF TypeOK, IInv, Past
    <2>2. /\ N' = N /\ N \in Nat
          /\ Ahead(r)' \in SUBSET (Visual \ {r})
          /\ Ahead(r) \in SUBSET (Visual \ {r})
      BY <2>1, AheadSize DEF Ahead, N
    <2>3. overtaken[r] + Cardinality(Ahead(r)) <= N - 1
      BY DEF IInv, Ordered
    <2>4. CASE r \in S
      BY <1>7, <2>1, <2>2, <2>4, AheadSize
    <2>5. CASE r \in Rows(k) \ S /\ lastupdated[r] < now
      <3>1. S \in SUBSET Ahead(r)
        BY <1>3, <1>4, <1>5, <2>5 DEF Ahead, TypeOK
      <3>2. Ahead(r)' \in SUBSET (Ahead(r) \ S)
        <4> SUFFICES ASSUME NEW q \in Ahead(r)'
                     PROVE  q \in Ahead(r) /\ q \notin S
          OBVIOUS
        <4>1. lastupdated'[r] = lastupdated[r]
          BY <1>6, <2>5
        <4>2. CASE q \in S
          <5>1. q \in Table /\ lastupdated'[q] = now
            BY <1>3, <1>5, <1>6, <4>2
          <5>2. now <= lastupdated[r]
            BY <1>5, <4>1, <5>1 DEF Ahead
          <5> QED BY <2>1, <2>5, <5>2
        <4>3. CASE q \notin S
          BY <1>5, <1>6, <4>1, <4>3 DEF Ahead
        <4> QED BY <4>2, <4>3
      <3>3. /\ IsFiniteSet(Ahead(r)) /\ IsFiniteSet(S)
            /\ IsFiniteSet(Ahead(r) \ S)
            /\ Cardinality(Ahead(r)) \in Nat
            /\ Cardinality(Ahead(r) \ S) \in Nat
            /\ Cardinality(Ahead(r)') \in Nat
        BY <2>1, <2>2, <3>1, AheadSize
      <3>4. Cardinality(Ahead(r) \ S) = Cardinality(Ahead(r)) - Cardinality(S)
        <4>1. Ahead(r) \cap S = S
          BY <3>1
        <4> QED BY <3>3, <4>1, FS_Difference
      <3>5. Cardinality(Ahead(r)') <= Cardinality(Ahead(r) \ S)
        BY <3>2, <3>3, FS_Subset
      <3>6. overtaken'[r] = overtaken[r] + Cardinality(S)
        BY <1>7, <2>1, <2>5
      <3> QED BY <1>8, <2>1, <2>2, <2>3, <3>3, <3>4, <3>5, <3>6
    <2>6. CASE r \notin S /\ ~(r \in Rows(k) /\ lastupdated[r] < now)
      <3>1. overtaken'[r] = overtaken[r]
        BY <1>7, <2>1, <2>6
      <3>2. Ahead(r)' \in SUBSET Ahead(r)
        <4> SUFFICES ASSUME NEW q \in Ahead(r)'
                     PROVE  q \in Ahead(r)
          OBVIOUS
        <4>1. lastupdated'[r] = lastupdated[r]
          BY <1>6, <2>6
        <4>2. CASE q \in S
          <5>1. q \in Table /\ lastupdated'[q] = now
            BY <1>3, <1>5, <1>6, <4>2
          <5>2. now <= lastupdated[r]
            BY <1>5, <4>1, <5>1 DEF Ahead
          <5>3. lastupdated[q] <= now /\ lastupdated[q] \in Nat
            BY <1>4, <5>1 DEF IInv, Past, TypeOK
          <5> QED BY <2>1, <5>2, <5>3 DEF Ahead
        <4>3. CASE q \notin S
          BY <1>5, <1>6, <4>1, <4>3 DEF Ahead
        <4> QED BY <4>2, <4>3
      <3> QED BY <2>1, <2>2, <2>3, <3>1, <3>2, OrderKept
    <2> QED BY <2>4, <2>5, <2>6
  <1>13. Ordered'
    BY <1>5, <1>12 DEF Ordered
  <1> QED BY <1>10, <1>11, <1>13 DEF IInv

\* Time passes, an answer is given, a row changes its kind, or nothing happens.
LEMMA OtherInv ==
  ASSUME IInv, UNCHANGED <<lastupdated, overtaken>>,
         now' = now \/ now' = now + 1
  PROVE  IInv'
  <1>1. Table' = Table /\ N' = N
    BY DEF Table, N
  <1>2. (TypeOK /\ Past /\ Outside)'
    BY <1>1 DEF IInv, TypeOK, Past, Outside
  <1>3. \A r : Ahead(r)' = Ahead(r)
    BY <1>1 DEF Ahead
  <1> QED BY <1>1, <1>2, <1>3 DEF IInv, Ordered

\* The turns go round (the UPDATE of getVisuals.php beside srcAdded.php and the
\* UPDATE of the converter): each row waits for N - 1 turns of other rows at
\* most, for every number of rows, of clients, of rows that a request asks for
\* and of requests in a second, and in whatever order MySQL returns rows with
\* equal times.
THEOREM TurnsGoRound == Spec => []RotationFair
  <1>1. Init => IInv
    BY InitInv
  <1>2. IInv /\ [Next]_vars => IInv'
    <2> SUFFICES ASSUME IInv, [Next]_vars
                 PROVE  IInv'
      OBVIOUS
    <2>1. ASSUME NEW r \in Visual, NEW u \in Uploads, Insert(r, u)
          PROVE  IInv'
      BY <2>1, InsertInv
    <2>2. ASSUME NEW c \in Client, NEW p \in Requests, Update(c, p)
          PROVE  IInv'
      BY <2>2, UpdateInv
    <2>3. ASSUME NEW c \in Client, Select(c)
          PROVE  IInv'
      BY <2>3, OtherInv DEF Select
    <2>4. ASSUME NEW r \in Visual, MarkFlv(r)
          PROVE  IInv'
      BY <2>4, OtherInv DEF MarkFlv
    <2>5. CASE Tick
      BY <2>5, OtherInv DEF Tick
    <2>6. CASE UNCHANGED vars
      BY <2>6, OtherInv DEF vars
    <2> QED BY <2>1, <2>2, <2>3, <2>4, <2>5, <2>6 DEF Next, TimeUp
  <1>3. IInv => RotationFair
    <2> SUFFICES ASSUME IInv, NEW r \in Table
                 PROVE  overtaken[r] < Cardinality(Visual)
      BY DEF RotationFair
    <2>1. r \in Visual /\ overtaken[r] \in Nat
      BY DEF IInv, TypeOK
    <2>2. /\ Ahead(r) \in SUBSET (Visual \ {r})
          /\ overtaken[r] + Cardinality(Ahead(r)) <= N - 1
      BY DEF IInv, Ordered, Ahead
    <2>3. N \in Nat /\ Cardinality(Ahead(r)) \in Nat
      BY <2>1, <2>2, AheadSize
    <2> QED BY <2>1, <2>2, <2>3 DEF N
  <1> QED BY <1>1, <1>2, <1>3, PTL DEF Spec

-----------------------------------------------------------------------------
(* A table that fits in one answer *)

\* What a client waits for was asked for by a request.
Asked ==
  /\ Table \subseteq Visual
  /\ wanted \in [Client -> {Idle} \cup {Wanted(q) : q \in Requests}]

\* The oldest n rows are all rows, when there are no more.
LEMMA OldestAll ==
  ASSUME NEW n \in Nat, N <= n, Table \subseteq Visual, NEW k,
         NEW S \in Oldest(k, n)
  PROVE  S = Rows(k)
  <1>1. Rows(k) \in SUBSET Visual
    BY DEF Rows
  <1>2. /\ IsFiniteSet(Rows(k)) /\ Cardinality(Rows(k)) \in Nat
        /\ Cardinality(Rows(k)) <= N
    BY <1>1, VisualsAssumption, FS_Subset, FS_CardinalityType DEF N
  <1>3. N \in Nat
    BY VisualsAssumption, FS_CardinalityType DEF N
  <1>4. \A a, b \in Nat : b <= a => Min({a, b}) = b
    BY DEF Min
  <1>5. Min({n, Cardinality(Rows(k))}) = Cardinality(Rows(k))
    BY <1>2, <1>3, <1>4
  <1>6. S \in SUBSET Rows(k) /\ Cardinality(S) = Cardinality(Rows(k))
    BY <1>5 DEF Oldest
  <1> QED BY <1>2, <1>6, FS_Subset

AskedStep == \A c \in Client : Select(c) => shown' = Rows(wanted[c].kind)

\* While there are no more rows than the requests ask for (10 by default,
\* DEFAULT_VISUALS_AMMOUNT), each answer of getVisuals.php shows all rows of its
\* kind, at any rate of requests, though its UPDATE has given them all the same
\* time.
THEOREM SmallTableShown ==
  ASSUME \A q \in Requests : N <= Wanted(q).ammount
  PROVE  Spec => [][AskedStep]_vars
  <1>1. Init => Asked
    BY DEF Init, Asked, Table
  <1>2. Asked /\ [Next]_vars => Asked'
    <2> SUFFICES ASSUME Asked, [Next]_vars
                 PROVE  Asked'
      OBVIOUS
    <2>1. ASSUME NEW r \in Visual, NEW u \in Uploads, Insert(r, u)
          PROVE  Asked'
      <3>1. DOMAIN lastupdated' = Table \cup {r} /\ wanted' = wanted
        BY <2>1, Zenon DEF Insert
      <3> QED BY <3>1 DEF Asked, Table
    <2>2. ASSUME NEW c \in Client, NEW p \in Requests, Update(c, p)
          PROVE  Asked'
      <3>1. wanted' = [wanted EXCEPT ![c] = Wanted(p)]
        BY <2>2 DEF Update
      <3>2. DOMAIN lastupdated' = Table
        BY <2>2 DEF Update, HaveTurn
      <3> HIDE DEF Wanted, Idle
      <3> QED BY <3>1, <3>2 DEF Asked, Table
    <2>3. ASSUME NEW c \in Client, Select(c)
          PROVE  Asked'
      BY <2>3 DEF Select, Asked, Table
    <2>4. CASE \/ \E r \in Visual : MarkFlv(r)
               \/ Tick
               \/ UNCHANGED vars
      BY <2>4 DEF MarkFlv, Tick, vars, Asked, Table
    <2> QED BY <2>1, <2>2, <2>3, <2>4 DEF Next, TimeUp
  <1>3. Asked => AskedStep
    <2> SUFFICES ASSUME Asked, NEW c \in Client, Select(c)
                 PROVE  shown' = Rows(wanted[c].kind)
      BY DEF AskedStep
    <2>1. /\ wanted[c] # Idle
          /\ shown' \in Oldest(wanted[c].kind, wanted[c].ammount)
      BY DEF Select
    <2>2. PICK q \in Requests : wanted[c] = Wanted(q)
      BY <2>1, Zenon DEF Asked
    <2>3. wanted[c].ammount \in Nat /\ N <= wanted[c].ammount
      <3>1. Wanted(q).ammount \in Int
        BY VisualsAssumption DEF Wanted
      <3>2. N \in Nat
        BY VisualsAssumption, FS_CardinalityType DEF N
      <3> QED BY <2>2, <3>1, <3>2
    <2> QED BY <2>1, <2>3, OldestAll DEF Asked
  <1>4. Asked /\ [Next]_vars => [AskedStep]_vars
    BY <1>3
  <1> QED BY <1>1, <1>2, <1>4, PTL DEF Spec
=============================================================================
