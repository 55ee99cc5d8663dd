---------------------------- MODULE StartupProofs ----------------------------
(***************************************************************************)
(* Proofs about Startup, for every ini file: any numbers at any keys.      *)
(***************************************************************************)
EXTENDS Startup, TLAPS

-----------------------------------------------------------------------------
(* Ready before detecting *)

\* What the place start-up has reached says of the steps behind it.
ReadyInv ==
  /\ pc \in {"first frame", "tracker", "parameters", "pruner thread", "running",
            "detecting"} => cascade
  /\ pc \in {"parameters", "pruner thread", "running", "detecting"} => frame
  /\ pc = "pruner thread" => sections
  /\ pruner => /\ pc \in {"running", "detecting", "exited"}
               /\ sections /\ cascade /\ frame

\* Whatever failed on the way, frames are searched for faces only with a classifier
\* loaded and a frame for the tracker's buffers, and a pruner thread exists only
\* with its critical sections initialised (initAll, FdInit and _tmain).
THEOREM ReadyWhenDetecting == Spec => []DetectsOnlyWhenReady
  <1>1. Init => ReadyInv
    BY DEF Init, ReadyInv
  <1>2. ReadyInv /\ [Next]_vars => ReadyInv'
    <2> SUFFICES ASSUME ReadyInv, [Next]_vars PROVE ReadyInv'
      OBVIOUS
    <2> USE DEF ReadyInv, At, Goto, made
    <2>1. CASE InitConfiguration
      BY <2>1 DEF InitConfiguration
    <2>2. CASE Fail
      BY <2>2 DEF Fail
    <2>3. CASE /\ At("capture") /\ Goto("face detector")
               /\ UNCHANGED made
      BY <2>3
    <2>4. CASE /\ At("face detector") /\ Goto("first frame")
               /\ cascade' = TRUE /\ UNCHANGED <<frame, sections, pruner>>
      BY <2>4
    <2>5. CASE FirstFrame
      BY <2>5 DEF FirstFrame
    <2>6. CASE CreateTracker
      BY <2>6 DEF CreateTracker
    <2>7. CASE ReadParameter
      BY <2>7 DEF ReadParameter
    <2>8. CASE CreateSections
      BY <2>8 DEF CreateSections
    <2>9. CASE CreatePruner
      BY <2>9 DEF CreatePruner
    <2>10. CASE FirstTurn
      BY <2>10 DEF FirstTurn
    <2>11. CASE UNCHANGED vars
      BY <2>11 DEF vars
    <2> QED BY <2>1, <2>2, <2>3, <2>4, <2>5, <2>6, <2>7, <2>8, <2>9, <2>10, <2>11
            DEF Next, Finished, InitCapture, InitFaceDet
  <1>3. ReadyInv => DetectsOnlyWhenReady
    BY DEF ReadyInv, DetectsOnlyWhenReady
  <1> QED BY <1>1, <1>2, <1>3, PTL DEF Spec

-----------------------------------------------------------------------------
(* Parameters *)

\* The calls of initConfig: each reads a key of its own, into the parameter of
\* that name, except the one that reads VERY_CLOSE_DIST_THRESH.
LEMMA ReadsShape ==
  /\ DOMAIN Reads = 1 .. 16
  /\ \A i \in 1 .. 16 : Reads[i].key \in TuningKeys /\ Reads[i].into \in TuningKeys
  /\ \A i, j \in 1 .. 16 :
       Reads[j].key \notin Thresholds /\ Reads[i].into = Reads[j].key => i = j
  /\ \A i \in 1 .. 16 : Reads[i].key \notin Thresholds => Reads[i].into = Reads[i].key
  <1>1. DOMAIN Reads = 1 .. 16
    BY DEF Reads
  <1>2. \A i \in 1 .. 16 : Reads[i].key \in TuningKeys
    BY <1>1 DEF TuningKeys
  <1>3. \A i \in 1 .. 16 :
          i # 12 => Reads[i].into = Reads[i].key
    BY DEF Reads
  <1>4. Reads[12].into = Reads[11].key /\ Reads[12].key = "VERY_CLOSE_DIST_THRESH"
        /\ Reads[11].key = "DIST_THRESH"
    BY DEF Reads
  <1>5. \A i, j \in 1 .. 16 : Reads[i].key = Reads[j].key => i = j
    <2> TAKE i, j \in 1 .. 16
    <2> QED BY DEF Reads
  <1> QED BY <1>1, <1>2, <1>3, <1>4, <1>5 DEF Thresholds

\* The keys main reads are none of these.
LEMMA MainKeysApart ==
  /\ MainKeys \cap TuningKeys = {}
  /\ TuningKeys \subseteq Keys /\ MainKeys \subseteq Keys
  <1>1. \A i \in 1 .. 16 : Reads[i].key \notin MainKeys
    BY DEF Reads, MainKeys
  <1> QED BY <1>1, ReadsShape DEF TuningKeys, Keys

\* What can stand in a file.
FileTyped ==
  /\ ini \in [Keys -> Values \cup {Absent, Empty, Unparsable}]
  /\ \A key \in PathKeys : ini[key] # Unparsable

LEMMA InitFile == ini \in Files => FileTyped
  <1> SUFFICES ASSUME ini \in Files PROVE FileTyped
    OBVIOUS
  <1>0. PathKeys \subseteq Keys
    <2>1. Reads[1].key = "OUTPUT_DIR" /\ 1 \in DOMAIN Reads
      BY DEF Reads
    <2> QED BY <2>1 DEF PathKeys, Keys, MainKeys, TuningKeys
  <1>1. CASE ini = [key \in Keys |-> Absent]
    BY <1>0, <1>1 DEF FileTyped, Absent, Unparsable
  <1>2. ASSUME NEW given \in SUBSET Keys, NEW f \in [given -> Given],
               \A key \in given \cap PathKeys : f[key] # Unparsable,
               ini = [key \in Keys |-> IF key \in given THEN f[key] ELSE Absent]
        PROVE  FileTyped
    BY <1>0, <1>2 DEF FileTyped, Given, Absent, Unparsable
  <1> QED BY <1>1, <1>2 DEF Files

\* Where the reading has got to: a key read holds its own value, a key not yet
\* read what the parameter held before the file was opened.
ParamInv ==
  /\ FileTyped
  /\ config \in [Keys -> Int]
  /\ next \in 1 .. 17
  /\ pc \in {"pruner thread", "running", "detecting"} => next = 17
  /\ \A i \in 1 .. 16 :
       Reads[i].key \notin Thresholds =>
         IF i < next THEN OwnValue(Reads[i].key)
                     ELSE config[Reads[i].key] = InitialValue[Reads[i].key]

\* The value of a parameter speaks of nothing but its file and itself.
LEMMA OwnValueUntouched ==
  ASSUME NEW key \in TuningKeys \ Thresholds, config'[key] = config[key], ini' = ini
  PROVE  OwnValue(key)' <=> OwnValue(key)
  BY DEF OwnValue, Default, Thresholds

\* What a call of getIniValue leaves in a parameter that holds its initial value.
LEMMA ReadsOwnValue ==
  ASSUME FileTyped, NEW key \in TuningKeys \ Thresholds,
         config[key] = InitialValue[key], ini' = ini,
         config'[key] = ValueRead(key, config[key])
  PROVE  OwnValue(key)'
  <1>1. /\ key \in Keys
        /\ ini[key] \in Values \cup {Absent, Empty, Unparsable}
    BY MainKeysApart DEF FileTyped
  <1>2. Absent \notin Values /\ Empty \notin Values /\ Unparsable \notin Values
        /\ Absent # Empty
    BY StartupAssumption DEF Absent, Empty, Unparsable
  <1>3. Default(key)' = Default(key)
    BY DEF Default, Thresholds
  <1>4. CASE key \in PathKeys
    <2>1. ini[key] # Unparsable
      BY <1>4 DEF FileTyped
    <2>2. Default(key) = DefaultPath
      BY <1>4 DEF Default, PathKeys
    <2>3. ini[key] \in Values => config'[key] = ini[key]
      BY <1>2, <1>4 DEF ValueRead
    <2>4. ini[key] = Empty => config'[key] = InitialValue[key]
      BY <1>2, <1>4 DEF ValueRead
    <2>5. ini[key] = Absent => config'[key] = DefaultPath
      BY <1>2, <1>4 DEF ValueRead
    <2> QED BY <1>1, <1>2, <1>3, <1>4, <2>1, <2>2, <2>3, <2>4, <2>5 DEF OwnValue
  <1>5. CASE key \notin PathKeys
    <2>1. config'[key] = IF ini[key] \in Values THEN ini[key] ELSE Default(key)
      BY <1>5 DEF ValueRead, Found
    <2> QED BY <1>1, <1>2, <1>3, <1>5, <2>1 DEF OwnValue
  <1> QED BY <1>4, <1>5

\* Every value read is a number.
LEMMA ValueReadType ==
  ASSUME FileTyped, config \in [Keys -> Int], NEW key \in Keys, NEW old \in Int
  PROVE  ValueRead(key, old) \in Int
  <1>1. ini[key] \in Int
    <2>1. ini[key] \in Values \cup {Absent, Empty, Unparsable}
      BY DEF FileTyped
    <2>2. \A v \in Values : v \in Int
      BY StartupAssumption
    <2>3. Absent \in Int /\ Empty \in Int /\ Unparsable \in Int
      BY DEF Absent, Empty, Unparsable
    <2> QED BY <2>1, <2>2, <2>3
  <1>2. InitialValue[key] \in Int
    BY DEF InitialValue, Unset
  <1>3. "DIST_THRESH" \in Keys
    <2>1. Reads[11].key = "DIST_THRESH" /\ 11 \in DOMAIN Reads
      BY DEF Reads
    <2> QED BY <2>1 DEF Keys, TuningKeys
  <1>4. config["DIST_THRESH"] \in Int
    BY <1>3
  <1>5. config["DIST_THRESH"] \div 4 \in Int
    BY <1>4
  <1>6. Default(key) \in Int
    BY <1>2, <1>5 DEF Default, DefaultPath
  <1> QED BY <1>1, <1>6 DEF ValueRead, DefaultPath

\* The three keys of initConfiguration leave every tuning parameter alone.
LEMMA ConfigurationApart ==
  ASSUME FileTyped, config \in [Keys -> Int], InitConfiguration
  PROVE  /\ config' \in [Keys -> Int]
         /\ \A key \in TuningKeys : config'[key] = config[key]
  <1> DEFINE camera == GetIniValue("CAM_ID", "CAM_ID")
             root == [camera EXCEPT !["OPENCV_ROOT"] = ValueRead("OPENCV_ROOT", @)]
             playback == [root EXCEPT !["OUTPUT_PLAYBACK_VIDEOS_DIR"] =
                            ValueRead("OUTPUT_PLAYBACK_VIDEOS_DIR", @)]
  <1>1. /\ "CAM_ID" \in Keys \ TuningKeys
        /\ "OPENCV_ROOT" \in Keys \ TuningKeys
        /\ "OUTPUT_PLAYBACK_VIDEOS_DIR" \in Keys \ TuningKeys
    BY MainKeysApart DEF MainKeys
  <1>2. /\ camera \in [Keys -> Int]
        /\ \A key \in TuningKeys : camera[key] = config[key]
    <2>1. ValueRead("CAM_ID", config["CAM_ID"]) \in Int
      BY <1>1, ValueReadType
    <2> QED BY <1>1, <2>1, MainKeysApart DEF GetIniValue
  <1> HIDE DEF camera
  <1>3. /\ root \in [Keys -> Int]
        /\ \A key \in TuningKeys : root[key] = config[key]
    <2>1. ValueRead("OPENCV_ROOT", camera["OPENCV_ROOT"]) \in Int
      BY <1>1, <1>2, ValueReadType
    <2> QED BY <1>1, <1>2, <2>1, MainKeysApart
  <1> HIDE DEF root
  <1>4. /\ playback \in [Keys -> Int]
        /\ \A key \in TuningKeys : playback[key] = config[key]
    <2>1. ValueRead("OUTPUT_PLAYBACK_VIDEOS_DIR", root["OUTPUT_PLAYBACK_VIDEOS_DIR"])
            \in Int
      BY <1>1, <1>3, ValueReadType
    <2> QED BY <1>1, <1>3, <2>1, MainKeysApart
  <1> HIDE DEF playback
  <1>5. config' = playback \/ config' = root
    BY DEF InitConfiguration, camera, root, playback
  <1> QED BY <1>3, <1>4, <1>5

\* A call of initConfig reads the next key and leaves every other one alone.
LEMMA ReadParameterInv ==
  ASSUME ParamInv, ReadParameter
  PROVE  ParamInv'
  <1> DEFINE into == Reads[next].into
             key  == Reads[next].key
  <1>1. /\ next \in 1 .. 16 /\ next' = next + 1 /\ UNCHANGED <<ini, pc>>
        /\ pc = "parameters"
        /\ into \in Keys /\ key \in Keys
        /\ config' = [config EXCEPT ![into] = ValueRead(key, @)]
    BY ReadsShape, MainKeysApart DEF ReadParameter, GetIniValue, At
  <1>2. config \in [Keys -> Int] /\ FileTyped
    BY DEF ParamInv
  <1>3. ValueRead(key, config[into]) \in Int
    BY <1>1, <1>2, ValueReadType
  <1>4. config' \in [Keys -> Int] /\ FileTyped'
    BY <1>1, <1>2, <1>3 DEF FileTyped
  <1>5. ASSUME NEW i \in 1 .. 16, Reads[i].key \notin Thresholds
        PROVE  IF i < next' THEN OwnValue(Reads[i].key)'
                            ELSE config'[Reads[i].key] = InitialValue[Reads[i].key]
    <2>1. Reads[i].key \in TuningKeys \ Thresholds /\ Reads[i].key \in Keys
      BY <1>5, ReadsShape, MainKeysApart
    <2>2. CASE i = next
      <3>1. into = Reads[i].key /\ key = Reads[i].key
        BY <1>5, <2>2, ReadsShape
      <3>2. config[Reads[i].key] = InitialValue[Reads[i].key]
        BY <1>1, <1>5, <2>2 DEF ParamInv
      <3>3. config'[Reads[i].key] = ValueRead(Reads[i].key, config[Reads[i].key])
        BY <1>1, <1>2, <2>1, <3>1
      <3>4. OwnValue(Reads[i].key)'
        BY <1>1, <1>2, <2>1, <3>2, <3>3, ReadsOwnValue
      <3> QED BY <1>1, <2>2, <3>4
    <2>3. CASE i # next
      <3>1. into # Reads[i].key
        BY <1>1, <1>5, <2>3, ReadsShape
      <3>2. config'[Reads[i].key] = config[Reads[i].key]
        BY <1>1, <1>2, <2>1, <3>1
      <3>3. OwnValue(Reads[i].key)' <=> OwnValue(Reads[i].key)
        BY <1>1, <2>1, <3>2, OwnValueUntouched
      <3>4. i < next' <=> i < next
        BY <1>1, <2>3
      <3>5. IF i < next THEN OwnValue(Reads[i].key)
                        ELSE config[Reads[i].key] = InitialValue[Reads[i].key]
        BY <1>5 DEF ParamInv
      <3> QED BY <3>2, <3>3, <3>4, <3>5
    <2> QED BY <2>2, <2>3
  <1>6. next' \in 1 .. 17
    BY <1>1
  <1> QED BY <1>1, <1>4, <1>5, <1>6 DEF ParamInv

\* For every ini file, a parameter of the running process is its own key's value,
\* or the default of the call that reads it (initConfig and getIniValue).
THEOREM ParametersRead == Spec => []ParametersFromOwnKeys
  <1>1. Init => ParamInv
    <2> SUFFICES ASSUME Init PROVE ParamInv
      OBVIOUS
    <2>1. FileTyped
      BY InitFile DEF Init
    <2>2. config = InitialValue /\ config \in [Keys -> Int]
      BY DEF Init, InitialValue, Unset
    <2> QED BY <2>1, <2>2 DEF Init, ParamInv
  <1>2. ParamInv /\ [Next]_vars => ParamInv'
    <2> SUFFICES ASSUME ParamInv, [Next]_vars PROVE ParamInv'
      OBVIOUS
    <2>1. ASSUME UNCHANGED <<ini, next>>, config' \in [Keys -> Int],
                 \A key \in TuningKeys : config'[key] = config[key],
                 pc' \in {"pruner thread", "running", "detecting"} => next = 17
          PROVE  ParamInv'
      <3>1. \A i \in 1 .. 16 : Reads[i].key \notin Thresholds =>
              (OwnValue(Reads[i].key)' <=> OwnValue(Reads[i].key))
        BY <2>1, ReadsShape, OwnValueUntouched
      <3> QED BY <2>1, <3>1, ReadsShape DEF ParamInv, FileTyped
    <2>2. CASE InitConfiguration
      BY <2>1, <2>2, ConfigurationApart DEF ParamInv, InitConfiguration, Goto
    <2>3. CASE ReadParameter
      BY <2>3, ReadParameterInv
    <2>4. CASE \/ InitCapture \/ InitFaceDet \/ FirstFrame \/ CreateTracker
               \/ FirstTurn \/ UNCHANGED vars
      <3>1. UNCHANGED <<ini, next, config>>
        BY <2>4 DEF InitCapture, InitFaceDet, Fail, FirstFrame, CreateTracker,
                    FirstTurn, vars
      <3>2. pc' \in {"pruner thread", "running", "detecting"}
              => pc \in {"pruner thread", "running", "detecting"}
        BY <2>4 DEF InitCapture, InitFaceDet, Fail, FirstFrame, CreateTracker,
                    FirstTurn, vars, At, Goto
      <3> QED BY <2>1, <3>1, <3>2 DEF ParamInv
    <2>5. CASE CreateSections \/ CreatePruner
      <3>1. /\ next \in 1 .. 17
            /\ pc = "pruner thread" => next = 17
            /\ config \in [Keys -> Int]
        BY DEF ParamInv
      <3>2. CASE CreateSections
        <4>1. next \notin 1 .. 16 /\ UNCHANGED <<ini, next, config>>
          BY <3>2, ReadsShape DEF CreateSections
        <4>2. next = 17
          <5>1. \A n \in 1 .. 17 : n \notin 1 .. 16 => n = 17
            OBVIOUS
          <5> QED BY <3>1, <4>1, <5>1
        <4>3. /\ UNCHANGED <<ini, next>> /\ config' \in [Keys -> Int]
              /\ \A key \in TuningKeys : config'[key] = config[key]
          BY <3>1, <4>1
        <4> QED BY <2>1, <4>2, <4>3
      <3>3. CASE CreatePruner
        BY <2>1, <3>1, <3>3 DEF CreatePruner, At
      <3> QED BY <2>5, <3>2, <3>3
    <2> QED BY <2>2, <2>3, <2>4, <2>5 DEF Next, Finished
  <1>3. ParamInv => ParametersFromOwnKeys
    <2> SUFFICES ASSUME ParamInv, pc \in {"running", "detecting"},
                        NEW key \in TuningKeys \ Thresholds
                 PROVE  OwnValue(key)
      BY DEF ParametersFromOwnKeys
    <2>1. PICK i \in 1 .. 16 : Reads[i].key = key
      BY ReadsShape DEF TuningKeys
    <2>2. i < next
      <3>1. next = 17
        BY Zenon DEF ParamInv
      <3> QED BY <3>1
    <2> QED BY <2>1, <2>2 DEF ParamInv
  <1> QED BY <1>1, <1>2, <1>3, PTL DEF Spec
=============================================================================
