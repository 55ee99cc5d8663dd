--------------------------- MODULE ConverterProofs ---------------------------
(***************************************************************************)
(* Proofs about Converter for any number of files, names, restarts and     *)
(* ffmpeg processes: as long as no ffmpeg was overrun, an output has one   *)
(* writer and what the clients are offered is not being written.           *)
(***************************************************************************)
EXTENDS Converter, FiniteSetTheorems, TLAPS

SubTypes == {MEDIASUBTYPE_JPG, MEDIASUBTYPE_AVI, MEDIASUBTYPE_FLV, Undefined,
             MEDIASUBTYPE_UNRECOGNIZED}

Row == [name : Names, extension : Extensions,
        mediatype : {MEDIATYPE_UNRECOGNIZED, MEDIATYPE_VIDEO,
                     MEDIATYPE_STILL_IMAGE},
        mediasubtype : SubTypes]

\* The types the proofs need.  Rows are numbered from 1 on.
Typed ==
  /\ \E n \in Nat : visuals \in [1 .. n -> Row]
  /\ rlist \in SUBSET DOMAIN visuals
  /\ pc \in {"start", "query", "rows", "wait", "update", "exited"}
  /\ ffmpeg \in [Names -> Nat]
  /\ overrun \in BOOLEAN

\* The converter holds at most one row, and, until it has marked it, the row
\* is one of an AVI file.
OneRow ==
  /\ \A i, j \in rlist : i = j
  /\ pc \in {"wait", "update"} => rlist # {}
  /\ pc \in {"start", "query", "exited"} => rlist = {}
  /\ \A i \in rlist : visuals[i].mediasubtype = MEDIASUBTYPE_AVI

\* As long as none was overrun, ffmpeg runs only while the converter waits for
\* it, and it writes the output of the row the converter holds.
WaitedFor ==
  ~overrun => \A name \in Names :
    ffmpeg[name] > 0 => /\ ffmpeg[name] = 1
                        /\ pc = "wait"
                        /\ \E i \in rlist : visuals[i].name = name

CInv == Typed /\ OneRow /\ WaitedFor

\* What Register and the converter find of a row.
LEMMA RowType ==
  ASSUME Typed, NEW i \in DOMAIN visuals
  PROVE  visuals[i] \in Row /\ visuals[i].name \in Names
  BY DEF Typed, Row

\* The row that srcAdded.php inserts.
NewRow(name, ext) ==
  [name         |-> name,
   extension    |-> ext,
   mediatype    |-> getQSMediaType(MediaType(ext), MEDIATYPE_VIDEO),
   mediasubtype |-> getQSMediaSubType(MediaType(ext), ext, MEDIASUBTYPE_AVI)]

LEMMA NewRowType ==
  ASSUME NEW name \in Names, NEW ext \in Extensions
  PROVE  NewRow(name, ext) \in Row
  <1>1. ext # Unset /\ MediaType(ext) \in {"image", "video"}
    BY ConverterAssumption DEF MediaType, Unset, ImageExtensions, VideoExtensions
  <1>2. getQSMediaType(MediaType(ext), MEDIATYPE_VIDEO)
          \in {MEDIATYPE_VIDEO, MEDIATYPE_STILL_IMAGE}
    BY <1>1 DEF getQSMediaType, Unset
  <1>3. getQSMediaSubType(MediaType(ext), ext, MEDIASUBTYPE_AVI) \in SubTypes
    BY <1>1 DEF getQSMediaSubType, SubTypes
  <1> QED BY <1>2, <1>3 DEF NewRow, Row

\* Register adds a row with an id of its own and changes no other row.
LEMMA RegisterAdds ==
  ASSUME Typed, Register
  PROVE  /\ \E n \in Nat : visuals' \in [1 .. n -> Row]
         /\ DOMAIN visuals \subseteq DOMAIN visuals'
         /\ \A i \in DOMAIN visuals : visuals'[i] = visuals[i]
         /\ \E name \in Names, ext \in Extensions :
              \A i \in DOMAIN visuals' \ DOMAIN visuals :
                visuals'[i] = NewRow(name, ext)
  <1> PICK n \in Nat : visuals \in [1 .. n -> Row]
    BY DEF Typed
  <1>1. DOMAIN visuals = 1 .. n /\ Cardinality(DOMAIN visuals) = n
    <2>1. Cardinality(1 .. n) = n
      <3>1. 1 \in Int /\ n \in Int
        OBVIOUS
      <3>2. Cardinality(1 .. n) = IF 1 > n THEN 0 ELSE n - 1 + 1
        BY <3>1, FS_Interval
      <3> QED BY <3>2
    <2> QED BY <2>1
  <1>2. PICK name \in Names, ext \in Extensions :
          visuals' = [i \in DOMAIN visuals \cup {n + 1} |->
                        IF i = n + 1 THEN NewRow(name, ext) ELSE visuals[i]]
    BY <1>1 DEF Register, NewRow
  <1>3. DOMAIN visuals \cup {n + 1} = 1 .. n + 1 /\ n + 1 \notin DOMAIN visuals
    BY <1>1
  <1>4. visuals' \in [1 .. n + 1 -> Row]
    BY <1>1, <1>2, <1>3, NewRowType
  <1>5. DOMAIN visuals' = 1 .. n + 1
    BY <1>4
  <1>6. \A i \in DOMAIN visuals : visuals'[i] = visuals[i]
    BY <1>2, <1>3
  <1>7. \A i \in DOMAIN visuals' \ DOMAIN visuals : visuals'[i] = NewRow(name, ext)
    BY <1>2, <1>3, <1>5
  <1> QED BY <1>3, <1>4, <1>5, <1>6, <1>7

LEMMA InitConverter == Init => CInv
  <1> SUFFICES ASSUME Init PROVE CInv
    OBVIOUS
  <1>1. visuals \in [1 .. 0 -> Row]
    <2>1. 1 .. 0 = {} /\ visuals = [i \in {} |-> 0]
      BY DEF Init
    <2> QED BY <2>1
  <1>2. Typed
    BY <1>1 DEF Typed, Init
  <1> QED BY <1>2 DEF CInv, OneRow, WaitedFor, Init

LEMMA RegisterStep ==
  ASSUME CInv, Register
  PROVE  CInv'
  <1>1. UNCHANGED <<rlist, pc, ffmpeg, overrun>>
    BY DEF Register, processes
  <1>2. Typed
    BY DEF CInv
  <1>3. /\ rlist \subseteq DOMAIN visuals /\ rlist \subseteq DOMAIN visuals'
        /\ \A i \in rlist : visuals'[i] = visuals[i]
    BY <1>2, RegisterAdds DEF Typed
  <1>4. Typed'
    BY <1>1, <1>2, <1>3, RegisterAdds DEF Typed
  <1>5. OneRow' /\ WaitedFor'
    BY <1>1, <1>3 DEF CInv, OneRow, WaitedFor
  <1> QED BY <1>4, <1>5 DEF CInv

\* The steps of the converter that start, await or follow ffmpeg.
LEMMA ConvertStep ==
  ASSUME CInv, NEW i \in Ids, Convert(i)
  PROVE  CInv'
  <1>1. /\ i \in rlist /\ pc = "rows" /\ UNCHANGED <<visuals, rlist, overrun>>
        /\ ExecuteProcess(visuals[i].name)
    BY DEF Convert
  <1> DEFINE n == visuals[i].name
  <1>2. n \in Names /\ Typed
    BY <1>1, RowType DEF CInv, Typed
  <1>3. ~overrun => \A name \in Names : ffmpeg[name] = 0
    BY <1>1, <1>2 DEF CInv, WaitedFor, Typed
  <1> HIDE DEF n
  <1>4. CASE ffmpeg' = [ffmpeg EXCEPT ![n] = @ + 1] /\ pc' = "wait"
    <2>1. Typed'
      BY <1>1, <1>2, <1>4 DEF Typed
    <2>2. OneRow'
      BY <1>1, <1>4 DEF CInv, OneRow
    <2>3. WaitedFor'
      BY <1>1, <1>2, <1>3, <1>4 DEF WaitedFor, Typed, n
    <2> QED BY <2>1, <2>2, <2>3 DEF CInv
  <1>5. CASE pc' = "update" /\ UNCHANGED ffmpeg
    <2>1. Typed'
      BY <1>1, <1>2, <1>5 DEF Typed
    <2>2. OneRow'
      BY <1>1, <1>5 DEF CInv, OneRow
    <2>3. WaitedFor'
      BY <1>1, <1>3, <1>5 DEF WaitedFor
    <2> QED BY <2>1, <2>2, <2>3 DEF CInv
  <1> QED BY <1>1, <1>4, <1>5 DEF ExecuteProcess, n

LEMMA WaitedStep ==
  ASSUME CInv, NEW i \in Ids, Waited(i)
  PROVE  CInv'
  <1>1. /\ i \in rlist /\ pc = "wait" /\ pc' = "update"
        /\ UNCHANGED <<visuals, rlist, ffmpeg>>
        /\ overrun' = (overrun \/ ffmpeg[visuals[i].name] > 0)
    BY DEF Waited
  <1>2. Typed'
    <2>1. overrun' \in BOOLEAN
      BY <1>1
    <2> QED BY <1>1, <2>1 DEF CInv, Typed
  <1>3. OneRow'
    BY <1>1 DEF CInv, OneRow
  <1>4. WaitedFor'
    <2> SUFFICES ASSUME ~overrun', NEW name \in Names
                 PROVE  ~(ffmpeg[name] > 0)
      BY <1>1 DEF WaitedFor
    <2>1. ~overrun /\ ~(ffmpeg[visuals[i].name] > 0)
      BY <1>1
    <2>2. ffmpeg[name] > 0 => \E j \in rlist : visuals[j].name = name
      BY <2>1 DEF CInv, WaitedFor
    <2>3. \A j \in rlist : j = i
      BY <1>1 DEF CInv, OneRow
    <2> QED BY <2>1, <2>2, <2>3
  <1> QED BY <1>2, <1>3, <1>4 DEF CInv

LEMMA UpdateStep ==
  ASSUME CInv, NEW i \in Ids, Update(i) \/ UpdateFails(i)
  PROVE  CInv'
  <1>1. /\ pc = "update" /\ i \in rlist /\ rlist' = rlist \ {i} /\ pc' = "rows"
        /\ UNCHANGED <<ffmpeg, overrun>>
    BY DEF Update, UpdateFails, RowDone, processes
  <1>2. Typed
    BY DEF CInv
  <1>3. \/ UNCHANGED visuals
        \/ visuals' = [visuals EXCEPT ![i].mediasubtype = MEDIASUBTYPE_FLV]
    BY DEF Update, UpdateFails
  <1>4. Typed'
    <2> PICK n \in Nat : visuals \in [1 .. n -> Row]
      BY <1>2 DEF Typed
    <2>1. visuals[i] \in Row /\ i \in 1 .. n
      BY <1>1, <1>2, RowType DEF Typed
    <2>2. [visuals[i] EXCEPT !.mediasubtype = MEDIASUBTYPE_FLV] \in Row
      BY <2>1 DEF Row, SubTypes
    <2>3. visuals' \in [1 .. n -> Row]
      BY <1>3, <2>1, <2>2
    <2>4. DOMAIN visuals' = DOMAIN visuals
      BY <2>3
    <2> QED BY <1>1, <1>2, <2>3, <2>4 DEF Typed
  <1>5. rlist' = {}
    BY <1>1 DEF CInv, OneRow
  <1>6. OneRow'
    BY <1>1, <1>5 DEF OneRow
  <1>7. WaitedFor'
    BY <1>1 DEF CInv, WaitedFor
  <1> QED BY <1>4, <1>6, <1>7 DEF CInv

LEMMA FfmpegStep ==
  ASSUME CInv, NEW name \in Names, FfmpegEnds(name)
  PROVE  CInv'
  <1>1. /\ ffmpeg[name] > 0 /\ ffmpeg' = [ffmpeg EXCEPT ![name] = @ - 1]
        /\ UNCHANGED <<visuals, rlist, pc, overrun>>
    BY DEF FfmpegEnds
  <1>2. Typed'
    BY <1>1 DEF CInv, Typed
  <1>3. OneRow'
    BY <1>1 DEF CInv, OneRow
  <1>4. WaitedFor'
    BY <1>1 DEF CInv, WaitedFor, Typed
  <1> QED BY <1>2, <1>3, <1>4 DEF CInv

LEMMA RestartStep ==
  ASSUME CInv, Restart
  PROVE  CInv'
  <1>1. /\ rlist' = {} /\ pc' = "start" /\ UNCHANGED <<visuals, ffmpeg>>
        /\ overrun' = (overrun \/ \E name \in Names : ffmpeg[name] > 0)
    BY DEF Restart
  <1>2. Typed'
    <2>1. overrun' \in BOOLEAN
      BY <1>1
    <2> QED BY <1>1, <2>1 DEF CInv, Typed
  <1> QED BY <1>1, <1>2 DEF CInv, OneRow, WaitedFor

\* Start, Query, QueryFails and Sleep find no row in hand; Reap touches none.
LEMMA IdleStep ==
  ASSUME CInv, Start \/ Query \/ QueryFails \/ Sleep \/ Reap
  PROVE  CInv'
  <1>1. UNCHANGED <<visuals, ffmpeg, overrun>>
    BY DEF Start, Query, QueryFails, Sleep, Reap, processes
  <1>2. CASE Reap
    BY <1>1, <1>2 DEF Reap, CInv, Typed, OneRow, WaitedFor
  <1>3. CASE Start \/ Query \/ QueryFails \/ Sleep
    <2>1. /\ pc \in {"start", "query", "rows"}
          /\ pc' \in {"query", "exited", "rows"}
          /\ pc' # "rows" => rlist' = {}
      BY <1>3 DEF Start, Query, QueryFails, Sleep, CInv, OneRow
    <2>2. rlist' = {} \/ \E i \in AviRows : rlist' = {i}
      BY <1>3 DEF Start, Query, QueryFails, Sleep, CInv, OneRow
    <2>3. Typed' /\ OneRow'
      BY <1>1, <2>1, <2>2 DEF CInv, Typed, OneRow, AviRows
    <2>4. WaitedFor'
      BY <1>1, <2>1 DEF CInv, WaitedFor
    <2> QED BY <2>3, <2>4 DEF CInv
  <1> QED BY <1>2, <1>3

LEMMA InductiveConverter == Spec => []CInv
  <1>1. CInv /\ [Next]_vars => CInv'
    <2> SUFFICES ASSUME CInv, [Next]_vars PROVE CInv'
      OBVIOUS
    <2>1. CASE UNCHANGED vars
      BY <2>1 DEF vars, processes, CInv, Typed, OneRow, WaitedFor
    <2> QED BY <2>1, RegisterStep, ConvertStep, WaitedStep, UpdateStep,
               FfmpegStep, RestartStep, IdleStep DEF Next, Loop, Exited
  <1> QED BY InitConverter, <1>1, PTL DEF Spec

\* Whatever fails, and however many rows share a name, two ffmpeg processes
\* write one output only after an overrun.
THEOREM OneWriter == Spec => []OneWriterPerOutput
  <1>1. CInv => OneWriterPerOutput
    BY DEF CInv, WaitedFor, OneWriterPerOutput, Typed
  <1> QED BY <1>1, InductiveConverter, PTL

\* What the clients are offered is at rest: only an overrun, or another row of
\* the same name that is still to be converted, has it written again.
THEOREM OfferedAtRest == Spec => []OfferedOutputAtRest
  <1>1. CInv => OfferedOutputAtRest
    <2> SUFFICES ASSUME CInv, ~overrun, NEW i \in DOMAIN visuals,
                        ffmpeg[visuals[i].name] > 0
                 PROVE  \E j \in AviRows : visuals[j].name = visuals[i].name
      BY DEF OfferedOutputAtRest
    <2>1. visuals[i].name \in Names
      BY RowType DEF CInv
    <2>2. PICK j \in rlist : visuals[j].name = visuals[i].name
      BY <2>1 DEF CInv, WaitedFor
    <2>3. j \in AviRows
      BY DEF CInv, OneRow, Typed, AviRows
    <2> QED BY <2>2, <2>3
  <1> QED BY <1>1, InductiveConverter, PTL

-----------------------------------------------------------------------------
\* The files that have a subtype of their own; the detector registers the
\* first two.
OwnSubType == {"jpg", "avi", "flv"}

\* Only an AVI file has the subtype AVI, unless the subtype is a default.
AviIsAvi ==
  \A i \in DOMAIN visuals :
    visuals[i].mediasubtype = MEDIASUBTYPE_AVI => visuals[i].extension = "avi"

LEMMA JpgSubType ==
  ASSUME NEW type, NEW default
  PROVE  getQSMediaSubType(type, "jpg", default) = 0
  BY DEF getQSMediaSubType, MEDIASUBTYPE_JPG, Unset

LEMMA FlvSubType ==
  ASSUME NEW type, NEW default
  PROVE  getQSMediaSubType(type, "flv", default) = 2
  BY DEF getQSMediaSubType, MEDIASUBTYPE_FLV, Unset

LEMMA AviStep ==
  ASSUME Extensions \subseteq OwnSubType, CInv, AviIsAvi, [Next]_vars
  PROVE  AviIsAvi'
  <1>1. CASE Register
    <2>1. ASSUME NEW name \in Names, NEW ext \in Extensions,
                 NewRow(name, ext).mediasubtype = MEDIASUBTYPE_AVI
          PROVE  NewRow(name, ext).extension = "avi"
      <3>1. ext \in {"jpg", "avi", "flv"}
        BY DEF OwnSubType
      <3>2. /\ NewRow(name, ext).extension = ext
            /\ getQSMediaSubType(MediaType(ext), ext, MEDIASUBTYPE_AVI) = 1
        BY <2>1 DEF NewRow, MEDIASUBTYPE_AVI
      <3>3. CASE ext = "jpg"
        BY <3>2, <3>3, JpgSubType
      <3>4. CASE ext = "flv"
        BY <3>2, <3>4, FlvSubType
      <3> QED BY <3>1, <3>2, <3>3, <3>4
    <2>2. PICK name \in Names, ext \in Extensions :
            \A i \in DOMAIN visuals' \ DOMAIN visuals :
              visuals'[i] = NewRow(name, ext)
      BY <1>1, RegisterAdds DEF CInv
    <2>3. \A i \in DOMAIN visuals : visuals'[i] = visuals[i]
      BY <1>1, RegisterAdds DEF CInv
    <2> SUFFICES ASSUME NEW i \in DOMAIN visuals',
                        visuals'[i].mediasubtype = MEDIASUBTYPE_AVI
                 PROVE  visuals'[i].extension = "avi"
      BY DEF AviIsAvi
    <2> QED BY <2>1, <2>2, <2>3 DEF AviIsAvi
  <1>2. CASE \E i \in Ids : Update(i)
    <2> PICK i \in Ids : Update(i)
      BY <1>2
    <2>1. /\ visuals' = [visuals EXCEPT ![i].mediasubtype = MEDIASUBTYPE_FLV]
          /\ i \in DOMAIN visuals
      BY DEF Update, RowDone, CInv, Typed
    <2>2. visuals[i] \in Row
      BY <2>1, RowType DEF CInv
    <2>3. /\ DOMAIN visuals' = DOMAIN visuals
          /\ visuals'[i].mediasubtype = MEDIASUBTYPE_FLV
          /\ \A j \in DOMAIN visuals : j # i => visuals'[j] = visuals[j]
      BY <2>1, <2>2 DEF CInv, Typed, Row
    <2> QED BY <2>3 DEF AviIsAvi, MEDIASUBTYPE_FLV, MEDIASUBTYPE_AVI
  <1>3. CASE UNCHANGED visuals
    BY <1>3 DEF AviIsAvi
  <1> QED BY <1>1, <1>2, <1>3
          DEF Next, Loop, Start, Query, QueryFails, Convert, Waited, UpdateFails,
              FfmpegEnds, Sleep, Restart, Reap, Exited, vars

\* If every registered file has a subtype of its own, ffmpeg is only given AVI
\* files.  With the default subtype in play (a png, say) it would not be.
THEOREM AviFilesOnly ==
  Extensions \subseteq OwnSubType => (Spec => []ConvertsAviFilesOnly)
  <1> SUFFICES ASSUME Extensions \subseteq OwnSubType
               PROVE  Spec => []ConvertsAviFilesOnly
    OBVIOUS
  <1>1. Init => AviIsAvi
    BY DEF Init, AviIsAvi
  <1>2. CInv /\ AviIsAvi /\ [Next]_vars => AviIsAvi'
    BY AviStep
  <1>3. CInv /\ AviIsAvi => ConvertsAviFilesOnly
    BY DEF CInv, Typed, OneRow, AviIsAvi, ConvertsAviFilesOnly
  <1> QED BY <1>1, <1>2, <1>3, InductiveConverter, PTL DEF Spec
=============================================================================
