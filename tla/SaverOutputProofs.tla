------------------------- MODULE SaverOutputProofs -------------------------
(***************************************************************************)
(* What holds of the savers' outputs for any number of savers, however     *)
(* they race on the counter and on the address of the server.              *)
(***************************************************************************)
EXTENDS SaverOutput, TLAPS

Places == {"count", "store", "open", "write", "check", "readIni", "setInited",
           "ask", "end"}

Kinds == {"image", "video", "smoothed"}

Urls == {NoUrl, "server"}

Names == [series : Int, kind : Kinds]

Shape ==
  /\ image_series_cnt \in Int
  /\ my_series_num \in [Saver -> Int]
  /\ pass \in [Saver -> 1 .. 3]
  /\ pc \in [Saver -> Places]
  /\ registered \in [Saver -> Seq(Names)]
  /\ SERVER_URL \in Urls
  /\ readFailed \in BOOLEAN
  /\ url \in [Saver -> Urls]

\* Saver s has finished its output of kind p.
Finished(s, p) == p < pass[s] \/ pc[s] = "end"

\* A name is registered with the output it names, of which there is one of
\* each kind.
NamesFinished ==
  \A s \in Saver : \A i \in DOMAIN registered[s] :
    \E p \in 1 .. 3 : Finished(s, p) /\ registered[s][i].kind = Passes[p]

\* The file that saver s is about to register has been written.
AboutToRegister(s) == pc[s] \in {"check", "readIni", "setInited", "ask"}
FileWritten == \A s \in Saver : AboutToRegister(s) => Filename(s) \in files

\* Whoever has passed the test of inited finds the address, or a reading of it
\* has failed.
AddressRead ==
  SERVER_URL = NoUrl /\ ~readFailed =>
    ~inited /\ \A s \in Saver : pc[s] \notin {"setInited", "ask"}

SInv ==
  /\ Shape
  /\ NamesFinished
  /\ FileWritten
  /\ AddressRead
  /\ OwnNamesDistinct
  /\ RegisteredFilesExist
  /\ RequestHasAddress

-----------------------------------------------------------------------------
LEMMA SInit == Init => SInv
  <1> SUFFICES ASSUME Init PROVE SInv
    OBVIOUS
  <1>1. Shape
    <2>1. readFailed \in BOOLEAN
      BY Zenon DEF Init
    <2>2. /\ image_series_cnt \in Int /\ my_series_num \in [Saver -> Int]
          /\ pass \in [Saver -> 1 .. 3] /\ pc \in [Saver -> Places]
          /\ SERVER_URL \in Urls /\ url \in [Saver -> Urls]
      BY DEF Init, Places, Urls
    <2>3. registered \in [Saver -> Seq(Names)]
      BY DEF Init
    <2> QED BY <2>1, <2>2, <2>3 DEF Shape
  <1>2. \A s \in Saver : registered[s] = <<>> /\ pc[s] = "count"
    BY DEF Init
  <1>3. NamesFinished /\ OwnNamesDistinct /\ RegisteredFilesExist /\ RequestHasAddress
    BY <1>2 DEF NamesFinished, OwnNamesDistinct, RegisteredFilesExist, RequestHasAddress
  <1>4. FileWritten /\ AddressRead
    BY <1>2 DEF Init, FileWritten, AboutToRegister, AddressRead
  <1> QED BY <1>1, <1>3, <1>4 DEF SInv

\* No two kinds of output have the same name.
LEMMA KindsDiffer ==
  ASSUME NEW p \in 1 .. 3, NEW q \in 1 .. 3, p # q
  PROVE  Passes[p] # Passes[q]
  BY DEF Passes

LEMMA KindType == ASSUME NEW p \in 1 .. 3 PROVE Passes[p] \in Kinds
  BY DEF Passes, Kinds

LEMMA FilenameType ==
  ASSUME Shape, NEW s \in Saver
  PROVE  Filename(s) \in Names /\ Filename(s).kind = Passes[pass[s]]
  BY KindType DEF Shape, Filename, Names

\* The end of an output leaves the shape, and what was finished stays so.
LEMMA NextPassMoves ==
  ASSUME Shape, NEW s \in Saver, NextPass(s), pc[s] # "end"
  PROVE  /\ pass' \in [Saver -> 1 .. 3]
         /\ pc' \in [Saver -> Places]
         /\ my_series_num' \in [Saver -> Int]
         /\ \A u \in Saver \ {s} : pass'[u] = pass[u] /\ pc'[u] = pc[u]
         /\ \A u \in Saver \ {s} : my_series_num'[u] = my_series_num[u]
         /\ pc'[s] \in {"count", "end"}
         /\ \A p \in 1 .. 3 : p <= pass[s] => Finished(s, p)'
  <1>1. Len(Passes) = 3
    BY DEF Passes
  <1>2. CASE pass[s] = 3
    <2>1. pass' = [pass EXCEPT ![s] = 3] /\ pc' = [pc EXCEPT ![s] = "end"]
      BY <1>1, <1>2 DEF NextPass
    <2> QED BY <2>1 DEF Shape, NextPass, Places, Finished
  <1>3. CASE pass[s] # 3
    <2>1. /\ pass' = [pass EXCEPT ![s] = pass[s] + 1]
          /\ pc' = [pc EXCEPT ![s] = "count"]
          /\ pass[s] \in 1 .. 2
      BY <1>1, <1>3 DEF NextPass, Shape
    <2> QED BY <2>1 DEF Shape, NextPass, Places, Finished
  <1> QED BY <1>2, <1>3

LEMMA FinishedStays ==
  ASSUME Shape, NEW s \in Saver, NextPass(s), pc[s] # "end",
         NEW u \in Saver, NEW p \in 1 .. 3, Finished(u, p)
  PROVE  Finished(u, p)'
  <1>1. CASE u = s
    <2>1. p < pass[s] /\ pass[s] \in 1 .. 3
      BY <1>1 DEF Finished, Shape
    <2>2. p <= pass[s]
      BY <2>1
    <2> QED BY <1>1, <2>2, NextPassMoves
  <1>2. CASE u # s
    BY <1>2, NextPassMoves DEF Finished
  <1> QED BY <1>1, <1>2

-----------------------------------------------------------------------------
(* The steps that are not a saver's touch nothing the invariant is about. *)

untouched == <<image_series_cnt, my_series_num, pass, pc, files, registered,
               inited, SERVER_URL, readFailed, url>>

LEMMA Unchanged == SInv /\ UNCHANGED untouched => SInv'
  <1> SUFFICES ASSUME SInv, UNCHANGED untouched PROVE SInv'
    OBVIOUS
  <1> USE DEF SInv, untouched
  <1>1. Shape' /\ AddressRead' /\ OwnNamesDistinct' /\ RegisteredFilesExist'
        /\ RequestHasAddress'
    BY DEF Shape, AddressRead, OwnNamesDistinct, RegisteredFilesExist, RequestHasAddress
  <1>2. NamesFinished'
    BY DEF NamesFinished, Finished
  <1>3. FileWritten'
    BY DEF FileWritten, AboutToRegister, Filename
  <1> QED BY <1>1, <1>2, <1>3

\* A step of a saver that ends an output without registering it.
LEMMA GiveUp ==
  ASSUME SInv, NEW s \in Saver, NextPass(s), pc[s] # "end",
         UNCHANGED <<image_series_cnt, files, registered, inited, SERVER_URL,
                     readFailed, url>>
  PROVE  SInv'
  <1>1. Shape'
    BY NextPassMoves DEF SInv, Shape
  <1>2. NamesFinished'
    <2> SUFFICES ASSUME NEW u \in Saver, NEW i \in DOMAIN registered[u]
                 PROVE  \E p \in 1 .. 3 : Finished(u, p)' /\ registered[u][i].kind = Passes[p]
      BY DEF NamesFinished
    <2>1. PICK p \in 1 .. 3 : Finished(u, p) /\ registered[u][i].kind = Passes[p]
      BY DEF SInv, NamesFinished
    <2>2. Finished(u, p)'
      BY <2>1, FinishedStays DEF SInv
    <2> QED BY <2>1, <2>2
  <1>3. FileWritten'
    BY NextPassMoves DEF SInv, FileWritten, AboutToRegister, Filename
  <1>4. AddressRead'
    BY NextPassMoves DEF SInv, AddressRead
  <1> QED
    BY <1>1, <1>2, <1>3, <1>4
    DEF SInv, OwnNamesDistinct, RegisteredFilesExist, RequestHasAddress

\* A step of saver s within an output, that only moves it and may count, write
\* a file or read the address.
LEMMA Move ==
  ASSUME SInv, NEW s \in Saver, NEW place \in Places \ {"end"}, pc[s] # "end",
         pc' = [pc EXCEPT ![s] = place],
         UNCHANGED <<pass, registered, url>>,
         image_series_cnt' \in Int,
         my_series_num' \in [Saver -> Int],
         \A u \in Saver \ {s} : my_series_num'[u] = my_series_num[u],
         files \subseteq files',
         SERVER_URL' \in Urls, readFailed' \in BOOLEAN,
         readFailed => readFailed',
         AboutToRegister(s)' => Filename(s)' \in files',
         AddressRead'
  PROVE  SInv'
  <1>1. /\ Shape'
        /\ pc'[s] = place
        /\ \A u \in Saver \ {s} : pc'[u] = pc[u]
    BY DEF SInv, Shape
  <1>2. NamesFinished'
    BY <1>1 DEF SInv, NamesFinished, Finished
  <1>3. FileWritten'
    BY <1>1 DEF SInv, FileWritten, AboutToRegister, Filename
  <1> QED
    BY <1>1, <1>2, <1>3
    DEF SInv, OwnNamesDistinct, RegisteredFilesExist, RequestHasAddress

-----------------------------------------------------------------------------
LEMMA RequestStep ==
  ASSUME SInv, NEW s \in Saver, Request(s)
  PROVE  SInv'
  <1> DEFINE name == Filename(s)
  <1>1. /\ pc[s] = "ask"
        /\ NextPass(s)
        /\ registered' = [registered EXCEPT ![s] = Append(registered[s], name)]
        /\ url' = [url EXCEPT ![s] = SERVER_URL]
        /\ UNCHANGED <<image_series_cnt, files, inited, SERVER_URL, readFailed>>
    BY DEF Request
  <1>2. /\ name \in Names
        /\ name.kind = Passes[pass[s]]
        /\ name \in files
        /\ SERVER_URL = NoUrl => readFailed
    BY <1>1, FilenameType DEF SInv, FileWritten, AboutToRegister, AddressRead
  <1>3. /\ registered' \in [Saver -> Seq(Names)]
        /\ \A u \in Saver \ {s} : registered'[u] = registered[u]
        /\ registered'[s] = Append(registered[s], name)
    BY <1>1, <1>2 DEF SInv, Shape
  <1>4. /\ DOMAIN registered[s] = 1 .. Len(registered[s])
        /\ Len(registered[s]) \in Nat
        /\ DOMAIN registered'[s] = 1 .. Len(registered[s]) + 1
        /\ registered'[s][Len(registered[s]) + 1] = name
        /\ \A i \in DOMAIN registered[s] : registered'[s][i] = registered[s][i]
    BY <1>2, <1>3 DEF SInv, Shape
  <1> HIDE DEF name
  <1>5. Shape'
    BY <1>1, <1>3, NextPassMoves DEF SInv, Shape
  <1>6. NamesFinished'
    <2>1. ASSUME NEW i \in DOMAIN registered'[s]
          PROVE  \E p \in 1 .. 3 : Finished(s, p)' /\ registered'[s][i].kind = Passes[p]
      <3>1. CASE i = Len(registered[s]) + 1
        <4> pass[s] \in 1 .. 3
          BY DEF SInv, Shape
        <4>1. PICK p \in 1 .. 3 : p = pass[s] /\ p <= pass[s]
          OBVIOUS
        <4>2. Finished(s, p)'
          BY <1>1, <4>1, NextPassMoves DEF SInv
        <4> QED BY <1>2, <1>4, <3>1, <4>1, <4>2
      <3>2. CASE i \in DOMAIN registered[s]
        <4>1. PICK p \in 1 .. 3 : Finished(s, p) /\ registered[s][i].kind = Passes[p]
          BY <3>2 DEF SInv, NamesFinished
        <4>2. Finished(s, p)'
          BY <1>1, <4>1, FinishedStays DEF SInv
        <4> QED BY <1>4, <3>2, <4>1, <4>2
      <3> QED BY <1>4, <3>1, <3>2
    <2>2. ASSUME NEW u \in Saver \ {s}, NEW i \in DOMAIN registered'[u]
          PROVE  \E p \in 1 .. 3 : Finished(u, p)' /\ registered'[u][i].kind = Passes[p]
      <3>1. PICK p \in 1 .. 3 : Finished(u, p) /\ registered[u][i].kind = Passes[p]
        BY <1>3 DEF SInv, NamesFinished
      <3>2. Finished(u, p)'
        BY <1>1, <3>1, FinishedStays DEF SInv
      <3> QED BY <1>3, <3>1, <3>2
    <2> QED BY <2>1, <2>2 DEF NamesFinished
  <1>7. FileWritten'
    BY <1>1, NextPassMoves DEF SInv, FileWritten, AboutToRegister, Filename
  <1>8. AddressRead'
    BY <1>1, NextPassMoves DEF SInv, AddressRead
  <1>9. OwnNamesDistinct'
    <2>1. ASSUME NEW i \in DOMAIN registered[s]
          PROVE  registered[s][i] # name
      <3>1. PICK p \in 1 .. 3 : Finished(s, p) /\ registered[s][i].kind = Passes[p]
        BY DEF SInv, NamesFinished
      <3>2. p # pass[s] /\ pass[s] \in 1 .. 3
        BY <1>1, <3>1 DEF Finished, SInv, Shape
      <3> QED BY <1>2, <3>1, <3>2, KindsDiffer
    <2>2. \A i, j \in DOMAIN registered'[s] :
            i # j => registered'[s][i] # registered'[s][j]
      BY <1>4, <2>1 DEF SInv, OwnNamesDistinct
    <2>3. OwnNamesDistinct
      BY Zenon DEF SInv
    <2> QED BY <1>3, <2>2, <2>3 DEF OwnNamesDistinct
  <1>10. RegisteredFilesExist'
    BY <1>1, <1>2, <1>3, <1>4 DEF SInv, RegisteredFilesExist
  <1>11. RequestHasAddress'
    BY <1>1, <1>2, <1>3 DEF SInv, Shape, RequestHasAddress
  <1> QED
    BY <1>5, <1>6, <1>7, <1>8, <1>9, <1>10, <1>11 DEF SInv

LEMMA StepKeeps ==
  ASSUME SInv, NEW s \in Saver, Step(s)
  PROVE  SInv'
  <1> USE DEF Places, AboutToRegister
  <1>1. CASE Skip(s)
    BY <1>1, GiveUp DEF Skip
  <1>2. CASE CountRead(s)
    <2>1. image_series_cnt' \in Int /\ my_series_num' \in [Saver -> Int]
      BY <1>2 DEF CountRead, SInv, Shape
    <2>2. AddressRead' /\ SERVER_URL' \in Urls
      BY <1>2 DEF CountRead, SInv, Shape, AddressRead
    <2>3. ~AboutToRegister(s)'
      BY <1>2 DEF CountRead, SInv, Shape
    <2>4. readFailed' \in BOOLEAN /\ (readFailed => readFailed')
      BY <1>2, Zenon DEF CountRead, SInv, Shape
    <2> QED BY <1>2, <2>1, <2>2, <2>3, <2>4, Move DEF CountRead
  <1>3. CASE CountWrite(s)
    <2>1. PICK place \in {"write", "open"} : pc' = [pc EXCEPT ![s] = place]
      BY <1>3 DEF CountWrite
    <2>2. image_series_cnt' \in Int /\ my_series_num' \in [Saver -> Int]
      BY <1>3 DEF CountWrite, SInv, Shape
    <2>3. AddressRead' /\ SERVER_URL' \in Urls
      BY <1>3, <2>1 DEF CountWrite, SInv, Shape, AddressRead
    <2>4. ~AboutToRegister(s)'
      BY <2>1 DEF SInv, Shape
    <2>5. readFailed' \in BOOLEAN /\ (readFailed => readFailed')
      BY <1>3, Zenon DEF CountWrite, SInv, Shape
    <2> QED BY <1>3, <2>1, <2>2, <2>3, <2>4, <2>5, Move DEF CountWrite
  <1>4. CASE OpenWriter(s)
    <2>1. CASE NextPass(s)
      BY <1>4, <2>1, GiveUp DEF OpenWriter
    <2>2. CASE pc' = [pc EXCEPT ![s] = "write"] /\ UNCHANGED <<my_series_num, pass>>
      <3>1. AddressRead' /\ SERVER_URL' \in Urls
        BY <1>4, <2>2 DEF OpenWriter, SInv, Shape, AddressRead
      <3>2. ~AboutToRegister(s)'
        BY <2>2 DEF SInv, Shape
      <3>3. image_series_cnt' \in Int /\ my_series_num' \in [Saver -> Int]
        BY <1>4, <2>2 DEF OpenWriter, SInv, Shape
      <3>4. readFailed' \in BOOLEAN /\ (readFailed => readFailed')
        BY <1>4, Zenon DEF OpenWriter, SInv, Shape
      <3> QED BY <1>4, <2>2, <3>1, <3>2, <3>3, <3>4, Move DEF OpenWriter
    <2> QED BY <1>4, <2>1, <2>2 DEF OpenWriter
  <1>5. CASE Write(s)
    <2>1. CASE NextPass(s) /\ UNCHANGED files
      BY <1>5, <2>1, GiveUp DEF Write
    <2>2. CASE /\ files' = files \cup {Filename(s)}
               /\ pc' = [pc EXCEPT ![s] = "check"]
               /\ UNCHANGED <<my_series_num, pass>>
      <3>1. AddressRead' /\ SERVER_URL' \in Urls
        BY <1>5, <2>2 DEF Write, SInv, Shape, AddressRead
      <3>2. Filename(s)' \in files'
        BY <2>2 DEF Filename
      <3>3. image_series_cnt' \in Int /\ my_series_num' \in [Saver -> Int]
        BY <1>5, <2>2 DEF Write, SInv, Shape
      <3>4. readFailed' \in BOOLEAN /\ (readFailed => readFailed')
        BY <1>5, Zenon DEF Write, SInv, Shape
      <3> QED BY <1>5, <2>2, <3>1, <3>2, <3>3, <3>4, Move DEF Write
    <2> QED BY <1>5, <2>1, <2>2 DEF Write
  <1>6. CASE CheckInited(s) \/ ReadIni(s) \/ SetInited(s)
    <2> DEFINE Same == UNCHANGED <<image_series_cnt, my_series_num, pass, files,
                                   registered, url>>
    <2>1. /\ Same
          /\ AboutToRegister(s)
      BY <1>6 DEF CheckInited, ReadIni, SetInited
    <2>2. PICK place \in {"readIni", "setInited", "ask"} :
            pc' = [pc EXCEPT ![s] = place]
      BY <1>6 DEF CheckInited, ReadIni, SetInited
    <2>3. /\ SERVER_URL' \in Urls /\ (SERVER_URL # NoUrl => SERVER_URL' # NoUrl)
          /\ readFailed' \in BOOLEAN /\ (readFailed => readFailed')
      BY <1>6 DEF CheckInited, ReadIni, SetInited, SInv, Shape, Urls, NoUrl
    <2>4. AddressRead'
      BY <1>6, <2>3 DEF CheckInited, ReadIni, SetInited, SInv, Shape, AddressRead, NoUrl
    <2>5. Filename(s)' \in files'
      BY <2>1 DEF SInv, FileWritten, Filename
    <2>6. image_series_cnt' \in Int /\ my_series_num' \in [Saver -> Int]
      BY <2>1 DEF SInv, Shape
    <2> QED BY <2>1, <2>2, <2>3, <2>4, <2>5, <2>6, Move
  <1>7. CASE Request(s)
    BY <1>7, RequestStep
  <1> QED
    BY <1>1, <1>2, <1>3, <1>4, <1>5, <1>6, <1>7 DEF Step

LEMMA InductiveOutput == Spec => []SInv
  <1>1. ASSUME SInv, [Next]_vars PROVE SInv'
    <2>1. CASE Estimate
      BY <1>1, <2>1, Unchanged DEF Estimate, untouched
    <2>2. CASE Clamp
      BY <1>1, <2>2, Unchanged DEF Clamp, untouched
    <2>3. CASE \E s \in Saver : Step(s)
      BY <1>1, <2>3, StepKeeps
    <2>4. CASE AllEnded \/ UNCHANGED vars
      BY <1>1, <2>4, Unchanged DEF AllEnded, vars, untouched
    <2> QED BY <1>1, <2>1, <2>2, <2>3, <2>4 DEF Next
  <1> QED BY <1>1, SInit, PTL DEF Spec

\* However the savers race on the counter, none registers a name twice.
THEOREM NamesDistinct == Spec => []OwnNamesDistinct
  <1>1. SInv => OwnNamesDistinct
    BY DEF SInv
  <1> QED BY <1>1, InductiveOutput, PTL

\* What is registered has been written, by whichever saver has the number.
THEOREM FilesExist == Spec => []RegisteredFilesExist
  <1>1. SInv => RegisteredFilesExist
    BY DEF SInv
  <1> QED BY <1>1, InductiveOutput, PTL

\* No request overtakes the reading of the address, though the savers may all
\* read it at once: one goes out without an address only if a reading, whose
\* result init() ignores, has failed (registerOutputFile).
THEOREM AddressKnown == Spec => []RequestHasAddress
  <1>1. SInv => RequestHasAddress
    BY DEF SInv
  <1> QED BY <1>1, InductiveOutput, PTL

-----------------------------------------------------------------------------
(* The frame rate *)

LEMMA Division ==
  ASSUME NEW a \in Nat, NEW T \in Nat, T > 0
  PROVE  /\ a \div T \in Nat
         /\ T * (a \div T) <= a
         /\ a < T * (a \div T) + T
  OBVIOUS

\* Between two readings of a clock that counts whole units of T, the units that
\* passed are less than one off the time w that did.
LEMMA UnitsPassed ==
  ASSUME NEW a \in Nat, NEW w \in Nat, NEW T \in Nat, T > 0,
         NEW p \in Nat, NEW q \in Nat,
         T * p <= a, a < T * p + T, T * q <= a + w, a + w < T * q + T, p # q
  PROVE  /\ q - p > 0
         /\ q - p <= a + w
         /\ (q - p) * T - w \in 1 - T .. T - 1
  <1>1. T * q \in Nat /\ T * p \in Nat
    OBVIOUS
  <1>2. (q - p) * T = T * q - T * p
    OBVIOUS
  <1>3. q > p
    <2> SUFFICES ASSUME q + 1 <= p PROVE FALSE
      OBVIOUS
    <2>1. T * (q + 1) <= T * p
      OBVIOUS
    <2>2. T * (q + 1) = T * q + T
      OBVIOUS
    <2> QED BY <1>1, <2>1, <2>2
  <1>4. q <= T * q
    OBVIOUS
  <1> QED BY <1>1, <1>2, <1>3, <1>4

\* A rate measured over w ticks, in whole seconds.
Measured(fps, w) ==
  \E seconds \in 1 .. MaxTime :
    /\ fps = <<SAMPLE_TIME_EVERY_X_FRAMES, seconds>>
    /\ seconds * Tick - w \in 1 - Tick .. Tick - 1

\* What is known of a rate when it was estimated over w ticks.
Estimated(fps, w) == fps \in {INITIAL_FPS, <<11, 10>>} \/ Measured(fps, w)

RateInv ==
  /\ time \in Nat
  /\ fd_time_seconds = time \div Tick
  /\ Estimated(estimated_fps, window)
  /\ DOMAIN video = Saver
  /\ \A s \in Saver :
       video[s] # NoVideo =>
         \E fps : /\ Estimated(fps, video[s].of)
                  /\ video[s].fps \in {Fps(fps), <<2, 1>>}

LEMMA EstimateRate ==
  ASSUME RateInv, Estimate
  PROVE  RateInv'
  <1> PICK w \in Windows :
        LET new_time == (time + w) \div Tick
        IN /\ time' = time + w
           /\ time' <= MaxTime
           /\ IF new_time # fd_time_seconds
              THEN /\ estimated_fps' = <<SAMPLE_TIME_EVERY_X_FRAMES,
                                        new_time - fd_time_seconds>>
                   /\ window' = w
              ELSE UNCHANGED <<estimated_fps, window>>
           /\ fd_time_seconds' = new_time
    BY DEF Estimate
  <1> DEFINE p == time \div Tick
             q == (time + w) \div Tick
  <1>1. /\ w \in Nat /\ Tick \in Nat /\ Tick > 0 /\ time \in Nat /\ MaxTime \in Nat
        /\ time + w <= MaxTime /\ fd_time_seconds = p
    BY SaverAssumption DEF RateInv
  <1>2. time' \in Nat /\ fd_time_seconds' = time' \div Tick
    BY <1>1
  <1>3. Estimated(estimated_fps, window)'
    <2>1. CASE q = p
      <3>1. UNCHANGED <<estimated_fps, window>>
        BY <1>1, <2>1
      <3> QED BY <3>1 DEF RateInv, Estimated, Measured
    <2>2. CASE q # p
      <3>1. /\ p \in Nat /\ Tick * p <= time /\ time < Tick * p + Tick
            /\ q \in Nat /\ Tick * q <= time + w /\ time + w < Tick * q + Tick
        <4>1. time + w \in Nat
          BY <1>1
        <4> QED BY <1>1, <4>1, Division
      <3>2. estimated_fps' = <<SAMPLE_TIME_EVERY_X_FRAMES, q - p>> /\ window' = w
        BY <1>1, <2>2
      <3> HIDE DEF p, q
      <3>3. /\ q - p > 0 /\ q - p <= time + w
            /\ (q - p) * Tick - w \in 1 - Tick .. Tick - 1
        BY <1>1, <2>2, <3>1, UnitsPassed
      <3>4. q - p \in 1 .. MaxTime
        BY <1>1, <3>1, <3>3
      <3> QED BY <3>2, <3>3, <3>4 DEF Estimated, Measured
    <2> QED BY <2>1, <2>2
  <1>4. UNCHANGED video
    BY DEF Estimate
  <1> QED BY <1>2, <1>3, <1>4 DEF RateInv, Estimated, Measured, Fps

LEMMA OpenWriterRate ==
  ASSUME RateInv, NEW s \in Saver, OpenWriter(s)
  PROVE  RateInv'
  <1>1. UNCHANGED <<time, fd_time_seconds, estimated_fps, window>>
    BY DEF OpenWriter, rateVars
  <1>2. \/ video' = [video EXCEPT ![s] = [fps |-> Fps(estimated_fps), of |-> window]]
        \/ UNCHANGED video
    BY DEF OpenWriter
  <1>3. DOMAIN video' = Saver
    BY <1>2 DEF RateInv
  <1>4. ASSUME NEW u \in Saver, video'[u] # NoVideo
        PROVE  \E fps : /\ Estimated(fps, video'[u].of)
                        /\ video'[u].fps \in {Fps(fps), <<2, 1>>}
    <2>1. CASE video'[u] = video[u]
      BY <1>4, <2>1 DEF RateInv
    <2>2. CASE video'[u] = [fps |-> Fps(estimated_fps), of |-> window]
      BY <2>2 DEF RateInv
    <2> QED BY <1>2, <2>1, <2>2 DEF RateInv
  <1> QED BY <1>1, <1>3, <1>4 DEF RateInv, Estimated, Measured, Fps

\* However long the frames took and whenever a saver looked, the rate of a video
\* is measured over frames that took as many seconds, less than one more or less,
\* or it is one of three constants (processThreads2 and saveThreadVideo).
THEOREM RateIsMeasured == Spec => []RateMeasured
  <1>1. Init => RateInv
    <2> SUFFICES ASSUME Init PROVE RateInv
      OBVIOUS
    <2>1. time \in Nat /\ fd_time_seconds = time \div Tick
      BY SaverAssumption DEF Init
    <2> QED BY <2>1 DEF Init, RateInv, Estimated
  <1>2. RateInv /\ [Next]_vars => RateInv'
    <2> SUFFICES ASSUME RateInv, [Next]_vars PROVE RateInv'
      OBVIOUS
    <2>1. CASE Estimate
      BY <2>1, EstimateRate
    <2>2. CASE Clamp
      <3>1. estimated_fps' = estimated_fps \/ estimated_fps' = <<11, 10>>
        BY <2>2 DEF Clamp
      <3> QED BY <2>2, <3>1 DEF Clamp, RateInv, Estimated, Measured
    <2>3. ASSUME NEW s \in Saver, Step(s)
          PROVE  RateInv'
      <3>1. CASE OpenWriter(s)
        BY <3>1, OpenWriterRate
      <3>2. CASE Write(s)
        <4>1. UNCHANGED <<time, fd_time_seconds, estimated_fps, window>>
          BY <3>2 DEF Write, rateVars
        <4>2. video' = [video EXCEPT ![s] = NoVideo]
          BY <3>2 DEF Write
        <4>3. \A u \in Saver : video'[u] \in {video[u], NoVideo}
          BY <4>2 DEF RateInv
        <4>4. DOMAIN video' = Saver
          BY <4>2 DEF RateInv
        <4> QED BY <4>1, <4>3, <4>4 DEF RateInv
      <3>3. CASE ~OpenWriter(s) /\ ~Write(s)
        <4>1. UNCHANGED <<time, fd_time_seconds, estimated_fps, window, video>>
          BY <2>3, <3>3 DEF Step, Skip, CountRead, CountWrite, CheckInited, ReadIni,
             SetInited, Request, rateVars
        <4> QED BY <4>1 DEF RateInv
      <3> QED BY <3>1, <3>2, <3>3
    <2>4. CASE UNCHANGED vars
      BY <2>4 DEF vars, rateVars, RateInv
    <2> QED BY <2>1, <2>2, <2>3, <2>4 DEF Next, AllEnded
  <1>3. RateInv => RateMeasured
    <2> SUFFICES ASSUME RateInv, NEW s \in Saver, video[s] # NoVideo
                 PROVE  \/ video[s].fps \in {<<2, 1>>, Fps(INITIAL_FPS), Fps(<<11, 10>>)}
                        \/ \E seconds \in 1 .. MaxTime :
                             /\ video[s].fps = Fps(<<SAMPLE_TIME_EVERY_X_FRAMES, seconds>>)
                             /\ seconds * Tick - video[s].of \in 1 - Tick .. Tick - 1
      BY DEF RateMeasured
    <2>1. PICK fps : /\ Estimated(fps, video[s].of)
                     /\ video[s].fps \in {Fps(fps), <<2, 1>>}
      BY DEF RateInv
    <2> QED BY <2>1 DEF Estimated, Measured
  <1> QED BY <1>1, <1>2, <1>3, PTL DEF Spec
=============================================================================
