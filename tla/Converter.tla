----------------------------- MODULE Converter -----------------------------
(***************************************************************************)
(* From a registered file to a video the web clients can play: the rows    *)
(* srcAdded.php inserts in the table visuals, and the endless loop of the  *)
(* converter (CConverter/CConverter.cpp) that selects a row of an AVI      *)
(* file, runs ffmpeg on it for at most 100 seconds and marks the row FLV.  *)
(* Hardly any result is looked at, so every call may fail, and a query     *)
(* that fails leaves its connection open.                                  *)
(*                                                                         *)
(* External: the table, of which the repository has no schema; the MySQL   *)
(* server, which bounds the connections and closes idle ones; ffmpeg,      *)
(* which may fail, and which keeps running when the wait for it times out  *)
(* or the converter dies.                                                  *)
(***************************************************************************)
EXTENDS MediaTypes, FiniteSets

CONSTANTS
  Names,          \* of the media: two files may be registered under one
  Extensions,     \* of the files that are registered
  MaxRows,        \* bound: files registered
  MaxRestarts,    \* bound: times the converter is killed and started again
  MaxFfmpeg,      \* bound: ffmpeg processes on one output at a time
  MaxConnections  \* the connections the MySQL server accepts

ImageExtensions == {"jpg", "jpeg", "png", "gif", "bmp"}
VideoExtensions == {"avi", "mpg", "mpeg", "flv"}

ASSUME ConverterAssumption ==
  /\ Extensions \subseteq ImageExtensions \cup VideoExtensions
  /\ MaxRows \in Nat
  /\ MaxRestarts \in Nat
  /\ MaxFfmpeg \in Nat
  /\ MaxConnections \in Nat \ {0}

VARIABLES
  visuals,    \* the rows, by id: [name, extension, mediatype, mediasubtype]
  configured, \* does converter.ini name the two directories?
  rlist,      \* the ids of the rows selected
  pc,         \* where the converter is
  restarts,   \* how often it was killed
  leaked,     \* the connections left open by queries that failed
  ffmpeg,     \* the ffmpeg processes writing each output: how many
  output,     \* the FLV file of each name
  overrun     \* did an ffmpeg ever outlive the wait for it, or its converter?

processes == <<ffmpeg, output, overrun>>

vars == <<visuals, configured, rlist, pc, restarts, leaked, processes>>

Ids == 1 .. MaxRows

-----------------------------------------------------------------------------
(* registerOutputFile and srcAdded.php *)

\* The type that registerOutputFile sends with a file.
MediaType(ext) == IF ext \in ImageExtensions THEN "image" ELSE "video"

\* registerOutputFile sends the extension as the subtype, and both parameters
\* are there.
Register ==
  /\ Cardinality(DOMAIN visuals) < MaxRows
  /\ \E name \in Names, ext \in Extensions :
       LET id == Cardinality(DOMAIN visuals) + 1
           row == [name         |-> name,
                   extension    |-> ext,
                   mediatype    |-> getQSMediaType(MediaType(ext),
                                                   MEDIATYPE_VIDEO),
                   mediasubtype |-> getQSMediaSubType(MediaType(ext), ext,
                                                      MEDIASUBTYPE_AVI)]
       IN visuals' = [i \in DOMAIN visuals \cup {id} |->
                        IF i = id THEN row ELSE visuals[i]]
  /\ UNCHANGED <<configured, rlist, pc, restarts, leaked, processes>>

-----------------------------------------------------------------------------
(* The converter *)

\* initConfig: without the two directories the converter ends with -1.
Start ==
  /\ pc = "start"
  /\ pc' = IF configured THEN "query" ELSE "exited"
  /\ UNCHANGED <<visuals, configured, rlist, restarts, leaked, processes>>

\* The rows the SELECT may return first: it has a LIMIT and no ORDER BY.
AviRows == {i \in DOMAIN visuals : visuals[i].mediasubtype = MEDIASUBTYPE_AVI}

\* mysql_real_connect finds a free connection.
CanConnect == leaked < MaxConnections

\* query answers with at most one row...
Query ==
  /\ pc = "query"
  /\ CanConnect
  /\ \/ /\ AviRows = {}
        /\ rlist' = {}
     \/ \E i \in AviRows : rlist' = {i}
  /\ pc' = "rows"
  /\ UNCHANGED <<visuals, configured, restarts, leaked, processes>>

\* ...or fails, which is the same as an empty answer.  When it is the SELECT
\* that fails, or its result, query returns without mysql_close.
QueryFails ==
  /\ pc = "query"
  /\ rlist' = {}
  /\ leaked' \in {leaked} \cup {n \in {leaked + 1} : CanConnect}
  /\ pc' = "rows"
  /\ UNCHANGED <<visuals, configured, restarts, processes>>

\* ExecuteProcess starts ffmpeg (or fails to), with -y: an output that is
\* there is overwritten.
ExecuteProcess(name) ==
  \/ /\ ffmpeg[name] < MaxFfmpeg
     /\ ffmpeg' = [ffmpeg EXCEPT ![name] = @ + 1]
     /\ output' = [output EXCEPT ![name] = "partial"]
     /\ pc' = "wait"
  \/ /\ pc' = "update"
     /\ UNCHANGED <<ffmpeg, output>>

\* convert names the input and the output after the row.
Convert(i) ==
  /\ pc = "rows"
  /\ i \in rlist
  /\ ExecuteProcess(visuals[i].name)
  /\ UNCHANGED <<visuals, configured, rlist, restarts, leaked, overrun>>

\* WaitForSingleObject returns; why, and with which exit code, is ignored.
\* Either ffmpeg has ended, or 100 seconds are over.  (Mutant: it waits for no
\* time, and no overrun is to blame.)
WaitedNot(i) ==
  /\ pc = "wait"
  /\ i \in rlist
  /\ pc' = "update"
  /\ UNCHANGED <<visuals, configured, rlist, restarts, leaked, processes>>
Waited(i) ==
  /\ pc = "wait"
  /\ i \in rlist
  /\ overrun' = (overrun \/ ffmpeg[visuals[i].name] > 0)
  /\ pc' = "update"
  /\ UNCHANGED <<visuals, configured, rlist, restarts, leaked, ffmpeg, output>>

\* The selected row is done, whatever became of it.
RowDone(i) ==
  /\ pc = "update"
  /\ i \in rlist
  /\ rlist' = rlist \ {i}
  /\ pc' = "rows"
  /\ UNCHANGED <<configured, restarts, leaked, processes>>

\* update marks the row FLV...  (Mutant: only when there is a good output.)
UpdateGood(i) ==
  /\ RowDone(i)
  /\ CanConnect
  /\ visuals' = [visuals EXCEPT ![i].mediasubtype =
                   IF output[visuals[i].name] = "complete"
                   THEN MEDIASUBTYPE_FLV ELSE @]
Update(i) ==
  /\ RowDone(i)
  /\ CanConnect
  /\ visuals' = [visuals EXCEPT ![i].mediasubtype = MEDIASUBTYPE_FLV]

\* ...or fails, which nobody notices: whatever it returns counts for nothing.
UpdateFails(i) == RowDone(i) /\ UNCHANGED visuals

\* All selected rows are done: clear the list, sleep a second, query again.
Sleep ==
  /\ pc = "rows"
  /\ rlist = {}
  /\ pc' = "query"
  /\ UNCHANGED <<visuals, configured, rlist, restarts, leaked, processes>>

\* The converter is killed and started again; its connections are closed, its
\* ffmpeg lives on.
Restart ==
  /\ restarts < MaxRestarts
  /\ restarts' = restarts + 1
  /\ rlist' = {}
  /\ leaked' = 0
  /\ pc' = "start"
  /\ overrun' = (overrun \/ \E name \in Names : ffmpeg[name] > 0)
  /\ UNCHANGED <<visuals, configured, ffmpeg, output>>

\* An ffmpeg process ends: with a good file, or not.
FfmpegEnds(name) ==
  /\ ffmpeg[name] > 0
  /\ ffmpeg' = [ffmpeg EXCEPT ![name] = @ - 1]
  /\ output' \in {output, [output EXCEPT ![name] = "complete"]}
  /\ UNCHANGED <<visuals, configured, rlist, pc, restarts, leaked, overrun>>

\* The MySQL server closes a connection that has been idle for long.
Reap ==
  /\ leaked > 0
  /\ leaked' = leaked - 1
  /\ UNCHANGED <<visuals, configured, rlist, pc, restarts, processes>>

-----------------------------------------------------------------------------
Init ==
  /\ visuals = <<>>
  /\ configured \in BOOLEAN
  /\ rlist = {}
  /\ pc = "start"
  /\ restarts = 0
  /\ leaked = 0
  /\ ffmpeg = [name \in Names |-> 0]
  /\ output = [name \in Names |-> "none"]
  /\ overrun = FALSE

Loop(i) == Convert(i) \/ Waited(i) \/ Update(i) \/ UpdateFails(i)

\* A converter that found no configuration stays ended.
Exited == pc = "exited" /\ UNCHANGED vars

Next ==
  \/ Register
  \/ Start
  \/ Query
  \/ QueryFails
  \/ \E i \in Ids : Loop(i)
  \/ \E name \in Names : FfmpegEnds(name)
  \/ Sleep
  \/ Restart
  \/ Reap
  \/ Exited

Spec == Init /\ [][Next]_vars

\* The converter runs and ffmpeg ends at last; the database, asked again and
\* again, answers a query and accepts an update in the end; an idle connection
\* does not stay open for ever (wait_timeout of MySQL).
Fairness ==
  /\ WF_vars(Start)
  /\ WF_vars(Query \/ QueryFails)
  /\ WF_vars(Sleep)
  /\ WF_vars(Reap)
  /\ SF_vars(Query)
  /\ \A i \in Ids : WF_vars(Loop(i)) /\ SF_vars(Update(i))
  /\ \A name \in Names : WF_vars(FfmpegEnds(name))

FairSpec == Spec /\ Fairness

-----------------------------------------------------------------------------
(* Properties *)

\* ffmpeg is only given files that exist: the converter appends ".avi" to the
\* name of any row of subtype AVI (CConverter.cpp:275), the default subtype.
ConvertsAviFilesOnly ==
  \A i \in rlist : visuals[i].extension = "avi"

\* At most one ffmpeg writes an output, though a row whose update failed is
\* selected and converted again and two rows may have one name, as long as no
\* ffmpeg was overrun: took longer than the converter waits (ExecuteProcess),
\* or than the converter lived.
OneWriterPerOutput == ~overrun => \A name \in Names : ffmpeg[name] <= 1

\* A row the clients are offered as FLV is not being written any more, though
\* the converter looks at no result, as long as no ffmpeg was overrun.  The
\* exception is a name that two savers took at once (image_series_cnt has no
\* lock): a row of it still to be converted overwrites what the other offers.
OfferedOutputAtRest ==
  ~overrun => \A i \in DOMAIN visuals :
    /\ visuals[i].mediasubtype = MEDIASUBTYPE_FLV
    /\ ffmpeg[visuals[i].name] > 0
    => \E j \in AviRows : visuals[j].name = visuals[i].name

\* Every registered video is offered in the end, whatever fails on the way: no
\* row blocks the others, a restart loses none, and the connections that failed
\* queries leave open keep the converter from the database only for a time.
EveryVideoOffered ==
  \A i \in Ids :
    configured /\ i \in AviRows
      ~> i \in DOMAIN visuals /\ visuals[i].mediasubtype = MEDIASUBTYPE_FLV
=============================================================================
