----------------------------- MODULE GetVisuals -----------------------------
(***************************************************************************)
(* How the web clients are handed media (wwwsvc/getVisuals.php): each      *)
(* request moves the $ammount rows of its kind whose turn is longest ago   *)
(* to the end of the rotation by setting their lastupdated, then selects   *)
(* the $ammount rows of that kind with the oldest lastupdated, between     *)
(* begin and commit.  Meanwhile the converter takes rows out of the        *)
(* rotation of AVI files and puts them into that of FLV files.             *)
(*                                                                         *)
(* External: MySQL.  NOW() counts in seconds, and any number of requests   *)
(* may come in one; rows with equal times come in any order; an UPDATE in  *)
(* a transaction locks the rows it read, which are all the rows (the       *)
(* repository has no schema and no index), until the commit.  A request    *)
(* whose SELECT fails is rolled back, as if it had not been.               *)
(***************************************************************************)
EXTENDS MediaTypes, FiniteSets, FiniteSetsExt

CONSTANTS
  Visual,         \* the rows there may be
  Client,         \* the requests being served at a time
  Requests,       \* the parameters that requests have
  Uploads,        \* the type and subtype parameters of registrations
  DEFAULT_VISUALS_AMMOUNT,  \* rows a request gets that asks for no number
  MaxTime         \* bound: seconds

NoClient == "none"

ASSUME VisualsAssumption ==
  /\ IsFiniteSet(Visual) /\ IsFiniteSet(Client)
  /\ NoClient \notin Client
  /\ Requests \subseteq [type : STRING, subtype : STRING, ammount : Int]
  /\ Uploads \subseteq [type : STRING, subtype : STRING]
  /\ DEFAULT_VISUALS_AMMOUNT \in Nat
  /\ MaxTime \in Nat

VARIABLES
  now,            \* what NOW() returns
  kind,           \* of each row in the table: [mediatype, mediasubtype]
  lastupdated,    \* of each row in the table: when it had its last turn
  tx,             \* the client that holds the row locks, if any
  wanted,         \* what each request asks for, if it is being served
  shown,          \* the rows of the last answer
  overtaken       \* history: how many rows of its kind have had a turn since
                  \* each row had its own, once the second of that is over

vars == <<now, kind, lastupdated, tx, wanted, shown, overtaken>>

\* The ammount parameter of a request that has none, or an empty one.
Missing == -1

Idle == [kind |-> [mediatype    |-> MEDIATYPE_UNRECOGNIZED,
                   mediasubtype |-> MEDIASUBTYPE_UNRECOGNIZED],
         ammount |-> Missing]

Never == 0      \* lastupdated of a row that was just inserted

Table == DOMAIN lastupdated

\* WHERE mediatype=$mediatype AND mediasubtype=$mediasubtype.
Rows(k) == {r \in Table : kind[r] = k}

\* What ORDER BY lastupdated ASC LIMIT $ammount may take of them.
Oldest(k, ammount) ==
  {S \in SUBSET Rows(k) :
     /\ Cardinality(S) = Min({ammount, Cardinality(Rows(k))})
     /\ \A r \in S : \A q \in Rows(k) \ S : lastupdated[r] <= lastupdated[q]}

-----------------------------------------------------------------------------
\* srcAdded.php adds a row; without a type, or with one that it does not
\* recognise, it refuses.
Insert(r, u) ==
  LET mediatype == getQSMediaType(u.type, MEDIATYPE_VIDEO)
  IN /\ r \notin Table
     /\ u.type \notin {Unset, ""}
     /\ mediatype # MEDIATYPE_UNRECOGNIZED
     /\ kind' = [q \in Table \cup {r} |->
                   IF q = r THEN [mediatype    |-> mediatype,
                                  mediasubtype |-> getQSMediaSubType(u.type,
                                                     u.subtype, MEDIASUBTYPE_AVI)]
                            ELSE kind[q]]
     /\ lastupdated' = [q \in Table \cup {r} |->
                          IF q = r THEN Never ELSE lastupdated[q]]
     /\ UNCHANGED <<now, tx, wanted, shown, overtaken>>

\* What a request asks for.
Wanted(q) ==
  [kind |-> [mediatype    |-> getQSMediaType(q.type, MEDIATYPE_VIDEO),
             mediasubtype |-> getQSMediaSubType(q.type, q.subtype, MEDIASUBTYPE_FLV)],
   ammount |-> IF q.ammount = Missing THEN DEFAULT_VISUALS_AMMOUNT ELSE q.ammount]

\* The request is answered with an error before any row is touched: its type
\* is not recognised, or MySQL refuses the statement.
Refused(q) ==
  \/ Wanted(q).kind.mediatype = MEDIATYPE_UNRECOGNIZED
  \/ Wanted(q).kind.mediasubtype = Undefined
  \/ Wanted(q).ammount < 0

\* The rows of S have their turn, before the others of kind k.
HaveTurn(S, k) ==
  /\ lastupdated' = [r \in Table |-> IF r \in S THEN now ELSE lastupdated[r]]
  /\ overtaken' = [r \in Visual |->
                     CASE r \in S -> 0
                       [] r \in Rows(k) \ S /\ lastupdated[r] < now ->
                            overtaken[r] + Cardinality(S)
                       [] OTHER -> overtaken[r]]

\* begin and UPDATE, until the commit.  (Mutant: the UPDATE has no ORDER BY.)
UpdateAny(c, q) ==
  /\ wanted[c] = Idle
  /\ ~Refused(q)
  /\ tx = NoClient
  /\ tx' = c
  /\ wanted' = [wanted EXCEPT ![c] = Wanted(q)]
  /\ \E S \in SUBSET Rows(Wanted(q).kind) :
       /\ Cardinality(S) <= Wanted(q).ammount
       /\ HaveTurn(S, Wanted(q).kind)
  /\ UNCHANGED <<now, kind, shown>>
Update(c, q) ==
  /\ wanted[c] = Idle
  /\ ~Refused(q)
  /\ tx = NoClient
  /\ tx' = c
  /\ wanted' = [wanted EXCEPT ![c] = Wanted(q)]
  /\ \E S \in Oldest(Wanted(q).kind, Wanted(q).ammount) :
       HaveTurn(S, Wanted(q).kind)
  /\ UNCHANGED <<now, kind, shown>>

\* SELECT, commit and the answer.
Select(c) ==
  /\ wanted[c] # Idle
  /\ tx' = NoClient
  /\ shown' \in Oldest(wanted[c].kind, wanted[c].ammount)
  /\ wanted' = [wanted EXCEPT ![c] = Idle]
  /\ UNCHANGED <<now, kind, lastupdated, overtaken>>

\* The converter's UPDATE of one row, once the row is not locked.
MarkFlv(r) ==
  /\ tx = NoClient
  /\ r \in Table
  /\ kind[r].mediasubtype = MEDIASUBTYPE_AVI
  /\ kind' = [kind EXCEPT ![r].mediasubtype = MEDIASUBTYPE_FLV]
  /\ UNCHANGED <<now, lastupdated, tx, wanted, shown, overtaken>>

Tick ==
  /\ now < MaxTime
  /\ now' = now + 1
  /\ UNCHANGED <<kind, lastupdated, tx, wanted, shown, overtaken>>

-----------------------------------------------------------------------------
Init ==
  /\ now = 1
  /\ kind = <<>>
  /\ lastupdated = <<>>
  /\ tx = NoClient
  /\ wanted = [c \in Client |-> Idle]
  /\ shown = {}
  /\ overtaken = [r \in Visual |-> 0]

\* The model ends with its last second.
TimeUp == now = MaxTime /\ UNCHANGED vars

Next ==
  \/ \E r \in Visual, u \in Uploads : Insert(r, u)
  \/ \E c \in Client, q \in Requests : Update(c, q)
  \/ \E c \in Client : Select(c)
  \/ \E r \in Visual : MarkFlv(r)
  \/ Tick
  \/ TimeUp

Spec == Init /\ [][Next]_vars

-----------------------------------------------------------------------------
\* The turns go round: while a row waits for its turn, the others have fewer
\* turns between them than there are rows, however many rows the requests ask
\* for, however many come in a second, though all rows that have their turn in
\* one second have the same time, and though rows are added and the converter
\* moves a row, with its place, from one rotation into another.
RotationFair == \A r \in Table : overtaken[r] < Cardinality(Visual)
=============================================================================
