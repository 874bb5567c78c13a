------------------------- MODULE EnvironmentProofs -------------------------
(***************************************************************************)
(* Proofs about Environment: it implements Actuation, the thread is right  *)
(* about the fan, and it works with the settings of the table or with its  *)
(* defaults; for all settings, temperatures and capacities of the queues.  *)
(***************************************************************************)
EXTENDS Environment, ActuationProofs

-----------------------------------------------------------------------------
(* The messages. *)

LEMMA EnvMsgTypes ==
  /\ GetSettingsThread \in EnvMsgs
  /\ GetSettingsThread.type = "GET_SETTINGS_THREAD"
  /\ \A s \in Chosen : UpdateSettings(s) \in EnvMsgs
  /\ \A t \in Temps : SensorLog(t) \in EnvMsgs
  /\ EnvMsgs \subseteq OtherMsgs
  /\ Fan(0) \in Requests /\ Fan(1) \in Requests
BY EnvironmentAssumption
   DEF EnvMsgs, GetSettingsThread, EnvRequests

LEMMA EnvMsgKinds ==
  ASSUME NEW m \in ActuatorLogs \union EnvMsgs
  PROVE  m.type = "UPDATE_SETTINGS" => m.settings \in Chosen
<1>1. CASE m \in ActuatorLogs
  BY <1>1 DEF ActuatorLogs
<1>2. CASE m \in EnvMsgs
  BY <1>2 DEF EnvMsgs, GetSettingsThread, UpdateSettings, SensorLog
<1> QED BY <1>1, <1>2

LEMMA ReplyTypes ==
  /\ \A s \in Known :
       /\ ToThread("GET_SETTINGS_THREAD", s) \in EnvReplies
       /\ ToThread("UPDATE_SETTINGS", s) \in EnvReplies
  /\ \A s : ToThread("GET_SETTINGS_THREAD", s).command = "GET_SETTINGS_THREAD"
  /\ \A s : ToThread("UPDATE_SETTINGS", s).command = "UPDATE_SETTINGS"
  /\ \A c, s : ToThread(c, s).settings = s
  /\ \A r \in EnvReplies : /\ r.command \in {"GET_SETTINGS_THREAD", "UPDATE_SETTINGS"}
                           /\ r.settings \in Known
  /\ StopEnvSensor \notin EnvReplies
  /\ NoMessage \notin EnvReplies
  /\ NoMessage.command = "none"
  /\ StopEnvSensor.command = "STOP_ENV_SENSOR"
BY DEF ToThread, EnvReplies, StopEnvSensor, NoMessage

LEMMA SettingsTypes ==
  /\ Known \subseteq SystemSettings
  /\ CoreDefaults \in Known /\ SeedSettings \in Known /\ Chosen \subseteq Known
  /\ \A s \in Known : Clamped(s) \in SystemSettings
BY EnvironmentAssumption DEF Known, SystemSettings, Clamped

-----------------------------------------------------------------------------
(* Environment implements Actuation. *)

EnvMoves ==
  \/ LoadTimeout \/ EnvLoop \/ IntervalElapses \/ SampleFails

LEMMA EnvSteps ==
  ASSUME [EnvNext]_envVars
  PROVE  \/ EnvMoves
         \/ EnvRequest \/ LoadSettings \/ TakeMessage
         \/ (\E t \in Temps : Sample(t))
         \/ ToggleFan \/ LogSample
         \/ EnvDbProcess \/ EnvDbSend \/ EnvDbAnswer
         \/ (\E s \in Chosen : SaveSettings(s)) \/ EnvWebTake
         \/ CoreStop \/ SendStop \/ EnvDestroy \/ EnvActStep
         \/ UNCHANGED envVars
BY DEF EnvNext, C_tReadEnvSensor, EnvSend, EnvMoves

LEMMA EnvMovesOnly ==
  ASSUME EnvMoves
  PROVE  /\ UNCHANGED <<vars, webVars, current, lastFanState, temp, settingsVars>>
         /\ \/ envAt = "load" /\ envAt' = "loop"
            \/ envAt = "loop" /\ envAt' \in {"receive", "done"}
            \/ envAt = "receive" /\ envAt' = "sample"
            \/ envAt = "sample" /\ envAt' = "loop"
BY DEF EnvMoves, LoadTimeout, EnvLoop, IntervalElapses, SampleFails, EnvMove

(* The part of the type invariant that the invariants below need first. *)
FanStateOK == lastFanState \in {0, 1} /\ temp \in Temps

LEMMA FanStateStep ==
  ASSUME FanStateOK, [EnvNext]_envVars
  PROVE  FanStateOK'
<1>1. CASE \E t \in Temps : Sample(t)
  BY <1>1 DEF Sample, FanValue, FanStateOK
<1>2. CASE UNCHANGED <<lastFanState, temp>>
  BY <1>2 DEF FanStateOK
<1>3. EnvMoves => UNCHANGED <<lastFanState, temp>>
  BY EnvMovesOnly
<1> QED BY <1>1, <1>2, <1>3, EnvSteps
    DEF EnvRequest, LoadSettings, TakeMessage, ToggleFan, LogSample, EnvDbProcess,
        EnvDbSend, EnvDbAnswer, SaveSettings, EnvWebTake, CoreStop, SendStop,
        EnvDestroy, EnvActStep, threadState, envVars

LEMMA EnvStepImplements ==
  ASSUME FanStateOK, [EnvNext]_envVars
  PROVE  [Next]_vars
<1>1. CASE EnvMoves
  BY <1>1, EnvMovesOnly
<1>2. CASE LoadSettings \/ TakeMessage \/ EnvDbSend \/ SendStop
             \/ (\E t \in Temps : Sample(t))
  BY <1>2 DEF LoadSettings, TakeMessage, EnvDbSend, SendStop, Sample
<1>3. CASE EnvRequest \/ LogSample
  BY <1>3, EnvMsgTypes DEF EnvRequest, LogSample, FanStateOK, Next
<1>4. CASE ToggleFan
  BY <1>4, EnvMsgTypes DEF ToggleFan, FanStateOK, Next
<1>5. CASE EnvDbProcess
  BY <1>5 DEF EnvDbProcess, Next
<1>6. CASE EnvDbAnswer \/ EnvWebTake
  BY <1>6 DEF EnvDbAnswer, AnswerWeb, EnvWebTake, WebReceive
<1>7. ASSUME NEW s \in Chosen, SaveSettings(s) PROVE Next
  BY <1>7, EnvMsgTypes DEF SaveSettings, WebRequest, Next
<1>8. CASE CoreStop \/ EnvDestroy \/ EnvActStep
  BY <1>8 DEF CoreStop, EnvDestroy, EnvActStep, Next
<1>9. CASE UNCHANGED envVars
  BY <1>9 DEF envVars
<1> QED BY <1>1, <1>2, <1>3, <1>4, <1>5, <1>6, <1>7, <1>8, <1>9, EnvSteps

LEMMA FanStateHolds == EnvSpec => []FanStateOK
<1>1. EnvInit => FanStateOK
  BY DEF EnvInit, FanStateOK
<1>2. FanStateOK /\ [EnvNext]_envVars => FanStateOK'
  BY FanStateStep
<1> QED BY <1>1, <1>2, PTL DEF EnvSpec

(* The sensor's thread and the daemon with its settings do only what        *)
(* Actuation allows its open environment.                                   *)
THEOREM EnvironmentRefinesActuation == EnvSpec => Spec
<1>1. EnvInit => Init
  BY DEF EnvInit
<1>2. FanStateOK /\ [EnvNext]_envVars => [Next]_vars
  BY EnvStepImplements
<1> QED BY <1>1, <1>2, FanStateHolds, PTL DEF EnvSpec, Spec

-----------------------------------------------------------------------------
(* The fan. *)

LEMMA FanAfterSubmit ==
  ASSUME TypeOK, NEW v \in {0, 1}, Submit(Fan(v))
  PROVE  FanEndsIn(v)'
<1> DEFINE n == Len(mqToActuator) + 1
<1>1. Fan(v) \in ActuatorCmd /\ Fan(v).id = "FAN" /\ Fan(v).value = v
  BY EnvMsgTypes, CommandTypes DEF Fan, Cmd
<1>2. /\ Len(mqToActuator) \in Nat
      /\ Len(mqToActuator') = n
      /\ mqToActuator'[n] = Fan(v)
  BY <1>1, AppendElements, LenProperties DEF Submit, Post, TypeOK
<1>3. n \in FanCmds' /\ FanCmds' \subseteq 1..n
  BY <1>1, <1>2 DEF FanCmds
<1>4. \A i \in FanCmds' : (\A j \in FanCmds' : j <= i) => i = n
  BY <1>2, <1>3
<1> QED BY <1>1, <1>2, <1>3, <1>4 DEF FanEndsIn

LEMMA FanQuiet ==
  ASSUME NEW v, UNCHANGED <<mqToActuator, hw>>, FanEndsIn(v),
         UNCHANGED <<pc, cmd>> \/ (pc # "apply" /\ pc' # "apply")
  PROVE  FanEndsIn(v)'
<1>1. FanCmds' = FanCmds
  BY DEF FanCmds
<1> QED BY <1>1 DEF FanEndsIn

LEMMA FanReceive ==
  ASSUME TypeOK, NEW v, Receive, FanEndsIn(v)
  PROVE  FanEndsIn(v)'
<1>1. CASE mqToActuator = << >>
  BY <1>1, FanQuiet DEF Receive
<1>2. CASE mqToActuator # << >>
  <2> DEFINE n == Len(mqToActuator)
  <2>1. /\ n \in Nat \ {0}
        /\ cmd' = mqToActuator[1]
        /\ Len(mqToActuator') = n - 1
        /\ \A i \in 1..(n - 1) : mqToActuator'[i] = mqToActuator[i + 1]
        /\ pc = "receive" /\ pc' = "apply" /\ hw' = hw
    BY <1>2, TailElements DEF Receive, TypeOK
  <2>2. \A i \in FanCmds' : i \in Int /\ i + 1 \in FanCmds
                              /\ mqToActuator'[i] = mqToActuator[i + 1]
    <3>1. ASSUME NEW i \in FanCmds'
          PROVE  i \in Int /\ i + 1 \in FanCmds
                   /\ mqToActuator'[i] = mqToActuator[i + 1]
      <4>1. i \in 1..(n - 1) /\ mqToActuator'[i].id = "FAN"
        BY <2>1 DEF FanCmds
      <4>2. i + 1 \in 1..n /\ mqToActuator'[i] = mqToActuator[i + 1]
        BY <2>1, <4>1
      <4> QED BY <4>1, <4>2 DEF FanCmds
    <3> QED BY <3>1
  <2>3. \A j \in FanCmds : j \in Int /\ (j = 1 \/ j - 1 \in FanCmds')
    <3>1. ASSUME NEW j \in FanCmds, j # 1
          PROVE  j \in Int /\ j - 1 \in FanCmds'
      <4>1. j \in 1..n /\ mqToActuator[j].id = "FAN"
        BY DEF FanCmds
      <4>2. j - 1 \in 1..(n - 1) /\ (j - 1) + 1 = j
        BY <2>1, <3>1, <4>1
      <4>3. mqToActuator'[j - 1] = mqToActuator[j] /\ j - 1 \in 1..Len(mqToActuator')
        BY <2>1, <4>2
      <4> QED BY <4>1, <4>3 DEF FanCmds
    <3> QED BY <3>1
  <2>4. ASSUME NEW i \in FanCmds', \A j \in FanCmds' : j <= i
        PROVE  mqToActuator'[i].value = v
    <3>1. \A j \in FanCmds : j <= i + 1
      <4>1. ASSUME NEW j \in FanCmds
            PROVE  j <= i + 1
        <5>1. i \in 1..Len(mqToActuator') /\ j \in Int
          BY <2>3 DEF FanCmds
        <5>2. CASE j = 1
          BY <5>1, <5>2, <2>1
        <5>3. CASE j # 1
          <6>1. j - 1 <= i
            BY <2>3, <2>4, <5>3
          <6> QED BY <5>1, <6>1, <2>1
        <5> QED BY <5>2, <5>3
      <4> QED BY <4>1
    <3> QED BY <2>2, <3>1 DEF FanEndsIn
  <2>5. ASSUME FanCmds' = {}
        PROVE  v = IF cmd'.id = "FAN" THEN cmd'.value ELSE hw'["FAN"]
    <3>1. \A j \in FanCmds : j = 1
      BY <2>3, <2>5
    <3>2. 1 \in FanCmds <=> cmd'.id = "FAN"
      BY <2>1 DEF FanCmds
    <3>3. CASE 1 \in FanCmds
      BY <2>1, <3>1, <3>2, <3>3 DEF FanEndsIn
    <3>4. CASE 1 \notin FanCmds
      BY <2>1, <3>1, <3>2, <3>4 DEF FanEndsIn
    <3> QED BY <3>3, <3>4
  <2> QED BY <2>1, <2>4, <2>5 DEF FanEndsIn
<1> QED BY <1>1, <1>2

LEMMA FanApplied ==
  ASSUME TypeOK, NEW v, Apply \/ ApplyFails, FanEndsIn(v)
  PROVE  FanEndsIn(v)'
<1>1. /\ UNCHANGED mqToActuator
      /\ pc = "apply" /\ pc' # "apply"
      /\ \/ hw' = [hw EXCEPT ![cmd.id] = cmd.value]
         \/ hw' = hw /\ cmd.id \in FaultyServos
         \/ hw' = [hw EXCEPT ![cmd.id] = 90] /\ cmd.id \in FaultyServos
  BY DEF Apply, ApplyFails
<1>2. FanCmds' = FanCmds
  BY <1>1 DEF FanCmds
<1>3. "FAN" \in Actuators /\ "FAN" \notin FaultyServos
  BY ActuationAssumption DEF Actuators, Servos
<1>4. FanCmds = {} => hw'["FAN"] = v
  BY <1>1, <1>3 DEF FanEndsIn, TypeOK
<1> QED BY <1>1, <1>2, <1>4 DEF FanEndsIn

LEMMA FanActStep ==
  ASSUME TypeOK, NEW v, tAct, FanEndsIn(v)
  PROVE  FanEndsIn(v)'
<1>1. CASE CheckStop \/ SetTimer \/ SendLog
  BY <1>1, FanQuiet DEF CheckStop, SetTimer, SendLog
<1> QED BY <1>1, FanReceive, FanApplied DEF tAct

LEMMA FanStep ==
  ASSUME TypeOK, FanStateOK, FanTellsLastState, [EnvNext]_envVars
  PROVE  FanTellsLastState'
<1> SUFFICES ASSUME pc' # "destroyed"
             PROVE  FanTellsLastState'
  BY DEF FanTellsLastState
<1> DEFINE due == IF envAt = "fan" THEN 1 - lastFanState ELSE lastFanState
<1>1. CASE EnvActStep
  <2>1. pc # "destroyed" /\ tAct /\ UNCHANGED <<envAt, lastFanState>>
    BY <1>1 DEF EnvActStep, threadState, tAct, CheckStop, Receive, Apply,
                ApplyFails, SetTimer, SendLog
  <2>2. FanEndsIn(due)
    BY <2>1 DEF FanTellsLastState
  <2> PICK v : v = due
    OBVIOUS
  <2>3. FanEndsIn(v)'
    BY <2>1, <2>2, FanActStep
  <2>4. v = IF envAt' = "fan" THEN 1 - lastFanState' ELSE lastFanState'
    BY <2>1
  <2> QED BY <2>3, <2>4 DEF FanTellsLastState
<1>2. CASE ToggleFan
  <2> PICK v : v = lastFanState
    OBVIOUS
  <2>1. FanEndsIn(v)'
    BY <1>2, FanAfterSubmit DEF ToggleFan, FanStateOK
  <2>2. envAt' = "log" /\ lastFanState' = v
    BY <1>2 DEF ToggleFan
  <2> QED BY <2>1, <2>2 DEF FanTellsLastState
<1>3. CASE UNCHANGED <<mqToActuator, pc, cmd, hw>>
  <2>1. ASSUME due = IF envAt' = "fan" THEN 1 - lastFanState' ELSE lastFanState'
        PROVE  FanTellsLastState'
    <3> PICK v : v = due
      OBVIOUS
    <3>1. FanEndsIn(v)'
      BY <1>3, FanQuiet DEF FanTellsLastState
    <3> QED BY <2>1, <3>1 DEF FanTellsLastState
  <2>2. CASE \E t \in Temps : Sample(t)
    <3>1. PICK t \in Temps : Sample(t)
      BY <2>2
    <3>2. FanValue(t) \in {0, 1}
      BY DEF FanValue
    <3>3. due = IF envAt' = "fan" THEN 1 - lastFanState' ELSE lastFanState'
      BY <3>1, <3>2 DEF Sample, FanStateOK
    <3> QED BY <2>1, <3>3
  <2>3. CASE EnvMoves
    BY <2>1, <2>3, EnvMovesOnly
  <2>4. CASE EnvRequest \/ LoadSettings \/ TakeMessage \/ LogSample
    <3>1. envAt # "fan" /\ envAt' # "fan" /\ lastFanState' = lastFanState
      BY <2>4 DEF EnvRequest, LoadSettings, TakeMessage, LogSample
    <3> QED BY <2>1, <3>1
  <2>5. CASE UNCHANGED <<envAt, lastFanState>>
    BY <2>1, <2>5
  <2> QED BY <1>1, <1>2, <2>2, <2>3, <2>4, <2>5, EnvSteps
      DEF EnvDbProcess, EnvDbSend, EnvDbAnswer, SaveSettings, EnvWebTake, CoreStop,
          SendStop, EnvDestroy, threadState, envVars
<1>4. EnvMoves => UNCHANGED <<mqToActuator, pc, cmd, hw>>
  BY EnvMovesOnly DEF vars
<1>5. (\E t \in Temps : Sample(t)) => UNCHANGED <<mqToActuator, pc, cmd, hw>>
  BY DEF Sample, vars
<1> QED BY <1>1, <1>2, <1>3, <1>4, <1>5, EnvSteps
    DEF EnvRequest, LoadSettings, TakeMessage, LogSample, EnvDbProcess, EnvDbSend,
        EnvDbAnswer, SaveSettings, EnvWebTake, CoreStop, SendStop, EnvDestroy,
        SendOther, DbTake, AnswerWeb, WebRequest, WebReceive, RequestStop, Destroy,
        vars, envVars

(* m_lastFanState is what the fan ends up in, except while the command that *)
(* makes it so waits for room.                                              *)
THEOREM FanIsAsLastTold == EnvSpec => []FanTellsLastState
<1>1. EnvInit => FanTellsLastState
  <2> SUFFICES ASSUME EnvInit
               PROVE  FanEndsIn(lastFanState) /\ envAt # "fan"
    BY DEF FanTellsLastState
  <2>1. mqToActuator = << >> /\ pc = "check" /\ hw = InitialHw /\ lastFanState = 0
    BY DEF EnvInit, Init
  <2>2. FanCmds = {}
    BY <2>1 DEF FanCmds
  <2>3. hw["FAN"] = 0
    BY <2>1 DEF InitialHw, Actuators, Servos
  <2> QED BY <2>1, <2>2, <2>3 DEF FanEndsIn, EnvInit
<1>2. TypeOK /\ FanStateOK /\ FanTellsLastState /\ [EnvNext]_envVars
        => FanTellsLastState'
  BY FanStep
<1> QED BY <1>1, <1>2, EnvironmentRefinesActuation, TypeCorrect, FanStateHolds, PTL
    DEF EnvSpec

-----------------------------------------------------------------------------
(* The type invariant. *)

(* Nothing is in mq_to_db but what tAct, the thread and the web daemon send. *)
OnlyEnvMsgs ==
  \A i \in 1..Len(mqToDatabase) : mqToDatabase[i] \in ActuatorLogs \union EnvMsgs

EnvOwnTypeOK ==
  /\ WebTypeOK
  /\ envAt \in EnvPlaces
  /\ current \in SystemSettings
  /\ mqToEnv \in Seq(EnvReplies \union {StopEnvSensor})
  /\ Len(mqToEnv) <= EnvCap
  /\ settings \in Known
  /\ dbToEnv \in EnvReplies \union {NoMessage}
  /\ stopDue \in BOOLEAN

EnvTypedInv == TypeOK /\ HandOK /\ FanStateOK /\ OnlyEnvMsgs /\ EnvOwnTypeOK

LEMMA EnvQueuePosted ==
  ASSUME TypeOK, OnlyEnvMsgs, NEW m \in ActuatorLogs \union EnvMsgs, PostDb(m)
  PROVE  OnlyEnvMsgs'
<1>1. m \in ActuatorLogs \union OtherMsgs
  BY EnvMsgTypes
<1>2. /\ Len(mqToDatabase) \in Nat
      /\ Len(mqToDatabase') = Len(mqToDatabase) + 1
      /\ \A i \in 1..Len(mqToDatabase) : mqToDatabase'[i] = mqToDatabase[i]
      /\ mqToDatabase'[Len(mqToDatabase) + 1] = m
  BY <1>1, AppendElements, LenProperties DEF PostDb, TypeOK
<1> QED BY <1>2 DEF OnlyEnvMsgs

LEMMA EnvQueueTaken ==
  ASSUME TypeOK, OnlyEnvMsgs, DbTake
  PROVE  OnlyEnvMsgs' /\ Head(mqToDatabase) \in ActuatorLogs \union EnvMsgs
BY TailElements DEF DbTake, TypeOK, OnlyEnvMsgs

LEMMA OnlyEnvMsgsStep ==
  ASSUME TypeOK, HandOK, FanStateOK, OnlyEnvMsgs, [EnvNext]_envVars
  PROVE  OnlyEnvMsgs'
<1>1. CASE EnvRequest \/ LogSample
  BY <1>1, EnvMsgTypes, EnvQueuePosted
     DEF EnvRequest, LogSample, SendOther, FanStateOK
<1>2. ASSUME NEW s \in Chosen, SaveSettings(s) PROVE OnlyEnvMsgs'
  BY <1>2, EnvMsgTypes, EnvQueuePosted DEF SaveSettings, WebRequest, SendOther
<1>3. CASE EnvDbProcess
  BY <1>3, EnvQueueTaken DEF EnvDbProcess
<1>4. CASE EnvActStep
  <2>1. CASE SendLog
    <3>1. ActuatorLog(cmd) \in ActuatorLogs
      BY <2>1, CommandFields DEF SendLog, HandOK
    <3> QED BY <2>1, <3>1, EnvQueuePosted DEF SendLog
  <2> QED BY <1>4, <2>1 DEF EnvActStep, tAct, CheckStop, Receive, Apply,
                            ApplyFails, SetTimer, OnlyEnvMsgs
<1>5. EnvMoves \/ (\E t \in Temps : Sample(t)) => UNCHANGED mqToDatabase
  BY EnvMovesOnly DEF Sample, vars
<1>6. CASE UNCHANGED mqToDatabase
  BY <1>6 DEF OnlyEnvMsgs
<1> QED BY <1>1, <1>2, <1>3, <1>4, <1>5, <1>6, EnvSteps
    DEF LoadSettings, TakeMessage, ToggleFan, Submit, EnvDbSend, EnvDbAnswer,
        EnvWebTake, CoreStop, SendStop, EnvDestroy, AnswerWeb, WebReceive,
        RequestStop, Destroy, vars, envVars

(* What the daemon has for the thread after a message. *)
LEMMA DbProcessKinds ==
  ASSUME TypeOK, OnlyEnvMsgs, EnvDbProcess
  PROVE  \/ \E s \in Chosen : handleUpdateSettings(s)
         \/ handleGetSettingsForThread
         \/ UNCHANGED <<settings, dbToEnv, dbAnswers>>
<1> PICK m : m = Head(mqToDatabase)
  OBVIOUS
<1>1. m \in ActuatorLogs \union EnvMsgs
  BY EnvQueueTaken DEF EnvDbProcess
<1>2. CASE m.type = "UPDATE_SETTINGS"
  BY <1>1, <1>2, EnvMsgKinds DEF EnvDbProcess
<1>3. CASE m.type = "GET_SETTINGS_THREAD"
  BY <1>3 DEF EnvDbProcess
<1>4. CASE m.type \notin {"UPDATE_SETTINGS", "GET_SETTINGS_THREAD"}
  BY <1>4 DEF EnvDbProcess
<1> QED BY <1>2, <1>3, <1>4

(* The two ends of mq_db_to_env. *)
LEMMA EnvPosted ==
  ASSUME EnvOwnTypeOK, NEW m \in EnvReplies \union {StopEnvSensor}, PostEnv(m)
  PROVE  /\ mqToEnv' \in Seq(EnvReplies \union {StopEnvSensor})
         /\ Len(mqToEnv') <= EnvCap
         /\ Len(mqToEnv) \in Nat
         /\ Len(mqToEnv') = Len(mqToEnv) + 1
         /\ \A i \in 1..Len(mqToEnv) : mqToEnv'[i] = mqToEnv[i]
         /\ mqToEnv'[Len(mqToEnv) + 1] = m
BY AppendElements, LenProperties, EnvironmentAssumption DEF PostEnv, EnvOwnTypeOK

LEMMA EnvTaken ==
  ASSUME EnvOwnTypeOK, mqToEnv # << >>, mqToEnv' = Tail(mqToEnv)
  PROVE  /\ Head(mqToEnv) \in EnvReplies \union {StopEnvSensor}
         /\ Head(mqToEnv) = mqToEnv[1]
         /\ mqToEnv' \in Seq(EnvReplies \union {StopEnvSensor})
         /\ Len(mqToEnv') <= EnvCap
         /\ Len(mqToEnv) \in Nat \ {0}
         /\ Len(mqToEnv') = Len(mqToEnv) - 1
         /\ \A i \in 1..(Len(mqToEnv) - 1) : mqToEnv'[i] = mqToEnv[i + 1]
<1>1. mqToEnv \in Seq(EnvReplies \union {StopEnvSensor})
  BY DEF EnvOwnTypeOK
<1>2. /\ Len(mqToEnv) \in Nat \ {0}
      /\ Len(mqToEnv') = Len(mqToEnv) - 1
  BY <1>1, TailElements
<1>3. Len(mqToEnv') <= EnvCap
  BY <1>2, EnvironmentAssumption DEF EnvOwnTypeOK
<1> QED BY <1>1, <1>2, <1>3, TailElements

LEMMA EnvOwnStep ==
  ASSUME TypeOK, OnlyEnvMsgs, EnvOwnTypeOK, [EnvNext]_envVars
  PROVE  EnvOwnTypeOK'
<1> USE DEF EnvOwnTypeOK
<1>1. CASE EnvMoves
  BY <1>1, EnvMovesOnly DEF webVars, settingsVars, EnvPlaces, WebTypeOK
<1>2. CASE EnvRequest \/ ToggleFan \/ LogSample \/ (\E t \in Temps : Sample(t))
  BY <1>2 DEF EnvRequest, ToggleFan, LogSample, Sample, webVars, settingsVars,
              EnvPlaces, WebTypeOK
<1>3. CASE LoadSettings \/ TakeMessage
  <2> PICK m : m = Head(mqToEnv)
    OBVIOUS
  <2>1. mqToEnv # << >> /\ mqToEnv' = Tail(mqToEnv)
    BY <1>3 DEF LoadSettings, TakeMessage
  <2>2. /\ m \in EnvReplies \union {StopEnvSensor}
        /\ mqToEnv' \in Seq(EnvReplies \union {StopEnvSensor})
        /\ Len(mqToEnv') <= EnvCap
    BY <2>1, EnvTaken
  <2>3. m.command \in {"GET_SETTINGS_THREAD", "UPDATE_SETTINGS"}
          => m.settings \in Known
    BY <2>2, ReplyTypes
  <2>4. current' \in SystemSettings
    BY <1>3, <2>3, SettingsTypes DEF LoadSettings, TakeMessage
  <2> QED BY <1>3, <2>2, <2>4
      DEF LoadSettings, TakeMessage, webVars, EnvPlaces, WebTypeOK
<1>4. CASE EnvDbProcess
  <2>1. /\ settings' \in Known
        /\ dbToEnv' \in EnvReplies \union {NoMessage}
        /\ dbAnswers' \in BOOLEAN
    BY <1>4, DbProcessKinds, ReplyTypes, SettingsTypes
       DEF handleUpdateSettings, handleGetSettingsForThread, WebTypeOK
  <2> QED BY <1>4, <2>1 DEF EnvDbProcess, threadState, WebTypeOK
<1>5. CASE EnvDbSend
  <2>1. dbToEnv \in EnvReplies /\ PostEnv(dbToEnv)
    BY <1>5 DEF EnvDbSend
  <2>2. mqToEnv' \in Seq(EnvReplies \union {StopEnvSensor}) /\ Len(mqToEnv') <= EnvCap
    BY <2>1, EnvPosted
  <2> QED BY <1>5, <2>2 DEF EnvDbSend, threadState, webVars, WebTypeOK
<1>6. CASE SendStop
  <2>1. mqToEnv' \in Seq(EnvReplies \union {StopEnvSensor}) /\ Len(mqToEnv') <= EnvCap
    BY <1>6, EnvPosted DEF SendStop
  <2> QED BY <1>6, <2>1 DEF SendStop, threadState, webVars, WebTypeOK
<1>7. CASE EnvDbAnswer \/ EnvWebTake \/ (\E s \in Chosen : SaveSettings(s))
  <2>1. WebTypeOK'
    <3>1. CASE EnvDbAnswer
      <4>1. dbAnswers' = FALSE /\ UNCHANGED <<webWaits, requests>>
        BY <3>1 DEF EnvDbAnswer, AnswerWeb
      <4>2. webReplies' \in 0..WebCap
        BY <3>1, WebLinkAssumption DEF EnvDbAnswer, AnswerWeb, WebTypeOK
      <4> QED BY <4>1, <4>2 DEF WebTypeOK
    <3>2. CASE EnvWebTake
      <4>1. webWaits' = FALSE /\ UNCHANGED <<dbAnswers, requests>>
        BY <3>2 DEF EnvWebTake, WebReceive
      <4>2. webReplies' \in 0..WebCap
        BY <3>2, WebLinkAssumption DEF EnvWebTake, WebReceive, WebTypeOK
      <4> QED BY <4>1, <4>2 DEF WebTypeOK
    <3>3. CASE \E s \in Chosen : SaveSettings(s)
      BY <1>7, <3>3, WebLinkAssumption DEF SaveSettings, WebRequest, WebTypeOK
    <3> QED BY <1>7, <3>1, <3>2, <3>3
  <2> QED BY <1>7, <2>1 DEF EnvDbAnswer, EnvWebTake, SaveSettings, threadState, settingsVars
<1>8. CASE CoreStop \/ EnvDestroy \/ EnvActStep \/ UNCHANGED envVars
  BY <1>8 DEF CoreStop, EnvDestroy, EnvActStep, threadState, settingsVars, webVars,
              envVars, WebTypeOK
<1> QED BY <1>1, <1>2, <1>3, <1>4, <1>5, <1>6, <1>7, <1>8, EnvSteps

LEMMA EnvTypedHolds == EnvSpec => []EnvTypedInv
<1>1. EnvInit => OnlyEnvMsgs /\ EnvOwnTypeOK
  <2> SUFFICES ASSUME EnvInit PROVE OnlyEnvMsgs /\ EnvOwnTypeOK
    OBVIOUS
  <2>1. Len(mqToDatabase) = 0
    BY DEF EnvInit, Init
  <2>2. OnlyEnvMsgs
    BY <2>1 DEF OnlyEnvMsgs
  <2>3. mqToEnv \in Seq(EnvReplies \union {StopEnvSensor}) /\ Len(mqToEnv) <= EnvCap
    <3>1. mqToEnv = << >> /\ Len(mqToEnv) = 0
      BY DEF EnvInit
    <3> QED BY <3>1, EmptySeq, EnvironmentAssumption
  <2>4. WebTypeOK
    <3>1. webReplies \in 0..WebCap /\ requests \in 0..MaxRequests
      BY WebLinkAssumption DEF EnvInit, WebInit
    <3> QED BY <3>1 DEF EnvInit, WebInit, WebTypeOK
  <2>5. settings \in Known /\ current \in SystemSettings
    BY SettingsTypes DEF EnvInit
  <2>6. envAt \in EnvPlaces
    BY DEF EnvInit, EnvPlaces
  <2> QED BY <2>2, <2>3, <2>4, <2>5, <2>6 DEF EnvInit, EnvOwnTypeOK
<1>2. TypeOK /\ HandOK /\ FanStateOK /\ OnlyEnvMsgs /\ EnvOwnTypeOK
        /\ [EnvNext]_envVars => OnlyEnvMsgs' /\ EnvOwnTypeOK'
  BY OnlyEnvMsgsStep, EnvOwnStep
<1> QED BY <1>1, <1>2, EnvironmentRefinesActuation, TypeCorrect, FanStateHolds, PTL
    DEF EnvSpec, EnvTypedInv

(* Every variable of the sensor's thread and the settings has its type. *)
THEOREM EnvTypeCorrect == EnvSpec => []EnvTypeOK
<1>1. EnvTypedInv => EnvTypeOK
  BY DEF EnvTypedInv, EnvOwnTypeOK, FanStateOK, EnvTypeOK
<1> QED BY <1>1, EnvTypedHolds, PTL


-----------------------------------------------------------------------------
(* The settings. The inductive invariant says at each place of the queue    *)
(* what the thread will have been told before it takes the message there:   *)
(* the daemon has sent the row of the table as it is; before any message    *)
(* that is not a change of it, and at the end of the queue when the daemon  *)
(* has no such change in hand, the thread will have been told of that row,  *)
(* or of none and is still on its defaults.                                 *)

Fits(s) == current \in {s, Clamped(s), CoreDefaults}

IsTold(i) == mqToEnv[i] # StopEnvSensor

(* Ahead of place i the thread is last told s. *)
ToldBefore(i, s) ==
  /\ \A j \in 1..(i - 1) :
       IsTold(j) /\ (\A k \in (j + 1)..(i - 1) : ~IsTold(k))
         => mqToEnv[j].settings = s
  /\ (\A j \in 1..(i - 1) : ~IsTold(j)) /\ envAt # "done" => Fits(s)

HandTellsRow == dbToEnv # NoMessage => dbToEnv.settings = settings

EndTellsRow ==
  dbToEnv.command # "UPDATE_SETTINGS" =>
    ToldBefore(Len(mqToEnv) + 1, settings)

LateAnswersRepeat ==
  \A i \in 1..Len(mqToEnv) :
    mqToEnv[i].command = "GET_SETTINGS_THREAD" =>
      ToldBefore(i, mqToEnv[i].settings)

DefaultsUntilLoaded == envAt \in {"request", "load"} => current = CoreDefaults

SettingsInv ==
  HandTellsRow /\ EndTellsRow /\ LateAnswersRepeat /\ DefaultsUntilLoaded

LEMMA SettingsInvSuffices ==
  ASSUME EnvOwnTypeOK, SettingsInv
  PROVE  SettingsAreCurrentOrDefault
<1>1. CASE dbToEnv # NoMessage
  BY <1>1 DEF SettingsInv, HandTellsRow, SettingsAreCurrentOrDefault
<1>2. CASE dbToEnv = NoMessage
  <2> DEFINE n == Len(mqToEnv)
  <2>1. n \in Nat /\ (n + 1) - 1 = n
    BY LenProperties DEF EnvOwnTypeOK
  <2>2. ToldBefore(n + 1, settings)
    BY <1>2, ReplyTypes DEF SettingsInv, EndTellsRow
  <2>3. ASSUME NEW i \in Told, \A j \in Told : j <= i
        PROVE  mqToEnv[i].settings = settings
    <3>1. i \in 1..n /\ IsTold(i)
      BY DEF Told, IsTold
    <3>2. \A k \in (i + 1)..n : ~IsTold(k)
      <4>1. ASSUME NEW k \in (i + 1)..n, IsTold(k)
            PROVE  FALSE
        <5>1. k \in 1..n /\ ~(k <= i)
          BY <2>1, <3>1, <4>1
        <5>2. k \in Told
          BY <4>1, <5>1 DEF Told, IsTold
        <5> QED BY <2>3, <5>1, <5>2
      <4> QED BY <4>1
    <3> QED BY <2>1, <2>2, <3>1, <3>2 DEF ToldBefore
  <2>4. ASSUME Told = {}, envAt # "done"
        PROVE  current \in {settings, Clamped(settings), CoreDefaults}
    <3>1. \A j \in 1..n : ~IsTold(j)
      BY <2>4 DEF Told, IsTold
    <3> QED BY <2>1, <2>2, <2>4, <3>1 DEF ToldBefore, Fits
  <2> QED BY <1>2, <2>3, <2>4 DEF SettingsAreCurrentOrDefault
<1> QED BY <1>1, <1>2

(* What is ahead of a place does not change while the thread keeps its      *)
(* settings and does not come back from its end.                            *)
LEMMA ToldKept ==
  ASSUME NEW i \in Nat, NEW s,
         \A j \in 1..(i - 1) : mqToEnv'[j] = mqToEnv[j],
         current' = current,
         envAt = "done" => envAt' = "done",
         ToldBefore(i, s)
  PROVE  ToldBefore(i, s)'
BY DEF ToldBefore, IsTold, Fits

(* A message at the end of the queue. *)
LEMMA ToldAppended ==
  ASSUME EnvOwnTypeOK, NEW m \in EnvReplies \union {StopEnvSensor}, PostEnv(m),
         UNCHANGED <<current, envAt>>, NEW n, n = Len(mqToEnv), NEW r, r = m.settings
  PROVE  /\ \A i \in 1..(n + 1) : \A s : ToldBefore(i, s) => ToldBefore(i, s)'
         /\ m # StopEnvSensor => ToldBefore(n + 2, r)'
         /\ m = StopEnvSensor =>
              \A s : ToldBefore(n + 1, s) => ToldBefore(n + 2, s)'
<1>1. /\ n \in Nat
      /\ (n + 1) - 1 = n /\ (n + 2) - 1 = n + 1
      /\ \A i \in 1..n : mqToEnv'[i] = mqToEnv[i]
      /\ mqToEnv'[n + 1] = m
  BY EnvPosted
<1>2. ASSUME NEW i \in 1..(n + 1), NEW s, ToldBefore(i, s)
      PROVE  ToldBefore(i, s)'
  <2>1. i \in Nat /\ \A j \in 1..(i - 1) : mqToEnv'[j] = mqToEnv[j]
    BY <1>1, <1>2
  <2> QED BY <1>2, <2>1, ToldKept
<1>3. ASSUME m # StopEnvSensor
      PROVE  ToldBefore(n + 2, r)'
  <2>1. ASSUME NEW j \in 1..(n + 1),
               \A k \in (j + 1)..(n + 1) : ~IsTold(k)'
        PROVE  j = n + 1
    <3>1. n + 1 \notin (j + 1)..(n + 1)
      BY <1>1, <1>3, <2>1 DEF IsTold
    <3> QED BY <1>1, <2>1, <3>1
  <2>2. n + 1 \in 1..(n + 1) /\ IsTold(n + 1)'
    BY <1>1, <1>3 DEF IsTold
  <2> QED BY <1>1, <2>1, <2>2 DEF ToldBefore
<1>4. ASSUME m = StopEnvSensor, NEW s, ToldBefore(n + 1, s)
      PROVE  ToldBefore(n + 2, s)'
  <2>1. ~IsTold(n + 1)'
    BY <1>1, <1>4 DEF IsTold
  <2>2. \A j \in 1..n : IsTold(j)' <=> IsTold(j)
    BY <1>1 DEF IsTold
  <2>3. ASSUME NEW j \in 1..(n + 1), IsTold(j)',
               \A k \in (j + 1)..(n + 1) : ~IsTold(k)'
        PROVE  mqToEnv'[j].settings = s
    <3>1. j \in 1..n
      BY <1>1, <2>1, <2>3
    <3>2. \A k \in (j + 1)..n : k \in (j + 1)..(n + 1) /\ k \in 1..n
      BY <1>1, <3>1
    <3>3. IsTold(j) /\ \A k \in (j + 1)..n : ~IsTold(k)
      BY <2>2, <2>3, <3>1, <3>2
    <3> QED BY <1>1, <1>4, <3>1, <3>3 DEF ToldBefore
  <2>4. ASSUME \A j \in 1..(n + 1) : ~IsTold(j)', envAt' # "done"
        PROVE  Fits(s)'
    <3>1. \A j \in 1..n : j \in 1..(n + 1)
      BY <1>1
    <3>2. \A j \in 1..n : ~IsTold(j)
      BY <2>2, <2>4, <3>1
    <3>3. Fits(s)
      BY <1>1, <1>4, <2>4, <3>2 DEF ToldBefore
    <3> QED BY <3>3 DEF Fits
  <2> QED BY <1>1, <2>3, <2>4 DEF ToldBefore
<1> QED BY <1>2, <1>3, <1>4

(* The first message is taken: what it told is in the settings now. *)
LEMMA ToldTaken ==
  ASSUME EnvOwnTypeOK, mqToEnv # << >>, mqToEnv' = Tail(mqToEnv),
         envAt # "done", NEW m, m = Head(mqToEnv),
         m = StopEnvSensor /\ envAt' # "done" => current' = current,
         m # StopEnvSensor /\ envAt' # "done" => Fits(m.settings)',
         NEW n, n = Len(mqToEnv)
  PROVE  \A i \in 1..n : \A s : ToldBefore(i + 1, s) => ToldBefore(i, s)'
<1>1. /\ n \in Nat \ {0}
      /\ m = mqToEnv[1]
      /\ \A j \in 1..(n - 1) : mqToEnv'[j] = mqToEnv[j + 1]
  BY EnvTaken
<1>2. SUFFICES ASSUME NEW i \in 1..n, NEW s, ToldBefore(i + 1, s)
               PROVE  ToldBefore(i, s)'
  OBVIOUS
<1>3. \A j \in 1..(i - 1) : j + 1 \in 1..i /\ (IsTold(j)' <=> IsTold(j + 1))
                              /\ mqToEnv'[j] = mqToEnv[j + 1]
  BY <1>1 DEF IsTold
<1>4. (i + 1) - 1 = i /\ 1 \in 1..i /\ i \in Nat
  BY <1>1
<1>5. \A k \in 2..i : k - 1 \in 1..(i - 1) /\ (k - 1) + 1 = k
  BY <1>1
<1>6. ASSUME NEW j \in 1..(i - 1), IsTold(j)',
             \A k \in (j + 1)..(i - 1) : ~IsTold(k)'
      PROVE  mqToEnv'[j].settings = s
  <2>1. ASSUME NEW k \in ((j + 1) + 1)..i
        PROVE  ~IsTold(k)
    <3>1. k - 1 \in (j + 1)..(i - 1) /\ k - 1 \in 1..(i - 1) /\ (k - 1) + 1 = k
      BY <1>4, <2>1
    <3> QED BY <1>3, <1>6, <3>1
  <2>2. j + 1 \in 1..i /\ IsTold(j + 1)
    BY <1>3, <1>6
  <2>3. mqToEnv[j + 1].settings = s
    BY <1>2, <1>4, <2>1, <2>2 DEF ToldBefore
  <2> QED BY <1>3, <2>3
<1>7. ASSUME \A j \in 1..(i - 1) : ~IsTold(j)', envAt' # "done"
      PROVE  Fits(s)'
  <2>1. \A k \in 2..i : ~IsTold(k)
    <3>1. ASSUME NEW k \in 2..i
          PROVE  ~IsTold(k)
      <4>1. k - 1 \in 1..(i - 1) /\ (k - 1) + 1 = k
        BY <1>5
      <4>2. ~IsTold(k - 1)'
        BY <1>7, <4>1
      <4> QED BY <1>3, <4>1, <4>2
    <3> QED BY <3>1
  <2>2. CASE IsTold(1)
    <3>1. mqToEnv[1].settings = s
      BY <1>2, <1>4, <2>1, <2>2 DEF ToldBefore
    <3> QED BY <1>1, <1>7, <2>2, <3>1 DEF IsTold
  <2>3. CASE ~IsTold(1)
    <3>1. \A j \in 1..i : j = 1 \/ j \in 2..i
      BY <1>4
    <3>2. Fits(s)
      BY <1>2, <1>4, <2>1, <2>3, <3>1 DEF ToldBefore
    <3> QED BY <1>1, <1>7, <2>3, <3>2 DEF IsTold, Fits
  <2> QED BY <2>2, <2>3
<1> QED BY <1>6, <1>7 DEF ToldBefore


(* A step that leaves the messages and the thread's settings alone. *)
LEMMA SettingsQuiet ==
  ASSUME EnvOwnTypeOK, SettingsInv,
         UNCHANGED <<mqToEnv, settings, dbToEnv, current>>,
         envAt = "done" => envAt' = "done",
         envAt' \in {"request", "load"} => envAt \in {"request", "load"}
  PROVE  SettingsInv'
<1> PICK n : n = Len(mqToEnv)
  OBVIOUS
<1>1. n \in Nat
  BY LenProperties DEF EnvOwnTypeOK
<1>2. ASSUME NEW i \in 1..(n + 1), NEW s, ToldBefore(i, s) PROVE ToldBefore(i, s)'
  BY <1>1, <1>2, ToldKept
<1>3. HandTellsRow' /\ DefaultsUntilLoaded'
  BY DEF SettingsInv, HandTellsRow, DefaultsUntilLoaded
<1>4. EndTellsRow'
  <2> PICK s : s = settings
    OBVIOUS
  <2>1. ASSUME dbToEnv.command # "UPDATE_SETTINGS"
        PROVE  ToldBefore(n + 1, s)'
    <3>1. n + 1 \in 1..(n + 1) /\ ToldBefore(n + 1, s)
      BY <1>1, <2>1 DEF SettingsInv, EndTellsRow
    <3> QED BY <1>2, <3>1
  <2> QED BY <2>1 DEF EndTellsRow
<1>5. LateAnswersRepeat'
  <2>1. ASSUME NEW i \in 1..n, NEW s, s = mqToEnv[i].settings,
               mqToEnv[i].command = "GET_SETTINGS_THREAD"
        PROVE  ToldBefore(i, s)'
    <3>1. i \in 1..(n + 1) /\ ToldBefore(i, s)
      BY <1>1, <2>1 DEF SettingsInv, LateAnswersRepeat
    <3> QED BY <1>2, <3>1
  <2> QED BY <2>1 DEF LateAnswersRepeat
<1> QED BY <1>3, <1>4, <1>5 DEF SettingsInv

(* The daemon changes or reads the row, and has it in hand for the thread. *)
LEMMA SettingsProcessed ==
  ASSUME TypeOK, OnlyEnvMsgs, EnvOwnTypeOK, SettingsInv, EnvDbProcess
  PROVE  SettingsInv'
<1> USE ReplyTypes
<1>1. UNCHANGED <<mqToEnv, current, envAt>> /\ dbToEnv = NoMessage
  BY DEF EnvDbProcess, threadState
<1> PICK n : n = Len(mqToEnv)
  OBVIOUS
<1>2. n \in Nat
  BY LenProperties DEF EnvOwnTypeOK
<1>3. CASE UNCHANGED <<settings, dbToEnv>>
  BY <1>1, <1>3, SettingsQuiet
<1>4. ASSUME settings' = settings \/ dbToEnv'.command = "UPDATE_SETTINGS",
             dbToEnv'.settings = settings'
      PROVE  SettingsInv'
  <2>1. HandTellsRow' /\ DefaultsUntilLoaded'
    BY <1>1, <1>4 DEF SettingsInv, HandTellsRow, DefaultsUntilLoaded
  <2>2. ASSUME NEW s, NEW i \in 1..(n + 1), ToldBefore(i, s) PROVE ToldBefore(i, s)'
    BY <1>1, <1>2, <2>2, ToldKept
  <2>3. EndTellsRow'
    <3> PICK s : s = settings
      OBVIOUS
    <3>1. n + 1 \in 1..(n + 1) /\ ToldBefore(n + 1, s)
      BY <1>1, <1>2 DEF SettingsInv, EndTellsRow
    <3>2. ToldBefore(n + 1, s)'
      BY <2>2, <3>1
    <3>3. dbToEnv'.command # "UPDATE_SETTINGS" => settings' = s /\ Len(mqToEnv') = n
      BY <1>1, <1>4
    <3> QED BY <3>2, <3>3 DEF EndTellsRow
  <2>4. LateAnswersRepeat'
    <3>1. ASSUME NEW i \in 1..n, NEW s, s = mqToEnv[i].settings,
                 mqToEnv[i].command = "GET_SETTINGS_THREAD"
          PROVE  ToldBefore(i, s)'
      <4>1. i \in 1..(n + 1) /\ ToldBefore(i, s)
        BY <1>2, <3>1 DEF SettingsInv, LateAnswersRepeat
      <4> QED BY <2>2, <4>1
    <3> QED BY <1>1, <3>1 DEF LateAnswersRepeat
  <2> QED BY <2>1, <2>3, <2>4 DEF SettingsInv
<1>5. ASSUME NEW s \in Chosen, handleUpdateSettings(s) PROVE SettingsInv'
  <2>1. CASE UNCHANGED <<settings, dbToEnv>>
    BY <1>3, <2>1
  <2>2. CASE dbToEnv' = ToThread("UPDATE_SETTINGS", s) /\ settings' = s
    <3>1. dbToEnv'.command = "UPDATE_SETTINGS" /\ dbToEnv'.settings = settings'
      BY <2>2
    <3> QED BY <1>4, <3>1
  <2> QED BY <1>5, <2>1, <2>2 DEF handleUpdateSettings
<1>6. CASE handleGetSettingsForThread
  <2>1. dbToEnv' = ToThread("GET_SETTINGS_THREAD", settings) /\ settings' = settings
    BY <1>6 DEF handleGetSettingsForThread
  <2>2. dbToEnv'.settings = settings'
    BY <2>1
  <2> QED BY <1>4, <2>1, <2>2
<1> QED BY <1>3, <1>5, <1>6, DbProcessKinds

(* The daemon sends what it has in hand. *)
LEMMA SettingsSent ==
  ASSUME EnvOwnTypeOK, SettingsInv, EnvDbSend
  PROVE  SettingsInv'
<1> PICK n, m, r : n = Len(mqToEnv) /\ m = dbToEnv /\ r = m.settings
  OBVIOUS
<1>1. /\ m \in EnvReplies /\ PostEnv(m)
      /\ UNCHANGED <<current, envAt, settings>>
      /\ dbToEnv' = NoMessage
  BY DEF EnvDbSend, EnvOwnTypeOK, threadState
<1>2. m # StopEnvSensor
  BY <1>1, ReplyTypes
<1>3. /\ n \in Nat
      /\ Len(mqToEnv') = n + 1
      /\ (n + 1) + 1 = n + 2
      /\ \A i \in 1..n : mqToEnv'[i] = mqToEnv[i]
      /\ mqToEnv'[n + 1] = m
  BY <1>1, EnvPosted
<1>4. /\ \A i \in 1..(n + 1) : \A s : ToldBefore(i, s) => ToldBefore(i, s)'
      /\ ToldBefore(n + 2, r)'
  BY <1>1, <1>2, ToldAppended
<1>5. r = settings
  BY <1>1, ReplyTypes DEF SettingsInv, HandTellsRow
<1>6. HandTellsRow' /\ DefaultsUntilLoaded'
  BY <1>1 DEF SettingsInv, HandTellsRow, DefaultsUntilLoaded
<1>7. EndTellsRow'
  BY <1>1, <1>3, <1>4, <1>5 DEF EndTellsRow
<1>8. LateAnswersRepeat'
  <2>1. ASSUME NEW i \in 1..(n + 1), NEW s, s = mqToEnv'[i].settings,
               mqToEnv'[i].command = "GET_SETTINGS_THREAD"
        PROVE  ToldBefore(i, s)'
    <3>1. CASE i \in 1..n
      <4>1. ToldBefore(i, s)
        BY <1>3, <2>1, <3>1 DEF SettingsInv, LateAnswersRepeat
      <4> QED BY <1>4, <4>1
    <3>2. CASE i \notin 1..n
      <4>1. i = n + 1
        BY <1>3, <3>2
      <4>2. s = settings /\ m.command = "GET_SETTINGS_THREAD"
        BY <1>3, <1>5, <2>1, <4>1
      <4>3. ToldBefore(i, s)
        BY <4>1, <4>2 DEF SettingsInv, EndTellsRow
      <4> QED BY <1>4, <4>3
    <3> QED BY <3>1, <3>2
  <2> QED BY <1>3, <2>1 DEF LateAnswersRepeat
<1> QED BY <1>6, <1>7, <1>8 DEF SettingsInv

(* The core tells the thread to stop. *)
LEMMA SettingsStop ==
  ASSUME EnvOwnTypeOK, SettingsInv, SendStop
  PROVE  SettingsInv'
<1> PICK n, m : n = Len(mqToEnv) /\ m = StopEnvSensor
  OBVIOUS
<1>1. PostEnv(m) /\ UNCHANGED <<current, envAt, settings, dbToEnv>>
  BY DEF SendStop, threadState
<1>2. /\ n \in Nat
      /\ Len(mqToEnv') = n + 1
      /\ (n + 1) + 1 = n + 2
      /\ \A i \in 1..n : mqToEnv'[i] = mqToEnv[i]
      /\ mqToEnv'[n + 1] = m
  BY <1>1, EnvPosted
<1>3. /\ \A i \in 1..(n + 1) : \A s : ToldBefore(i, s) => ToldBefore(i, s)'
      /\ \A s : ToldBefore(n + 1, s) => ToldBefore(n + 2, s)'
  BY <1>1, ToldAppended
<1>4. HandTellsRow' /\ DefaultsUntilLoaded'
  BY <1>1 DEF SettingsInv, HandTellsRow, DefaultsUntilLoaded
<1>5. EndTellsRow'
  <2> PICK s : s = settings
    OBVIOUS
  <2>1. dbToEnv.command # "UPDATE_SETTINGS" => ToldBefore(n + 2, s)'
    BY <1>3 DEF SettingsInv, EndTellsRow
  <2> QED BY <1>1, <1>2, <2>1 DEF EndTellsRow
<1>6. LateAnswersRepeat'
  <2>1. ASSUME NEW i \in 1..(n + 1), NEW s, s = mqToEnv'[i].settings,
               mqToEnv'[i].command = "GET_SETTINGS_THREAD"
        PROVE  ToldBefore(i, s)'
    <3>1. i # n + 1
      BY <1>2, <2>1, ReplyTypes
    <3>2. i \in 1..n
      BY <1>2, <3>1
    <3>3. ToldBefore(i, s)
      BY <1>2, <2>1, <3>2 DEF SettingsInv, LateAnswersRepeat
    <3> QED BY <1>3, <3>3
  <2> QED BY <1>2, <2>1 DEF LateAnswersRepeat
<1> QED BY <1>4, <1>5, <1>6 DEF SettingsInv

(* The thread takes the first message, as the answer to its question or in  *)
(* its loop; an answer that comes late only repeats what it knows.          *)
LEMMA SettingsTaken ==
  ASSUME EnvOwnTypeOK, SettingsInv, LoadSettings \/ TakeMessage
  PROVE  SettingsInv'
<1> PICK n, m : n = Len(mqToEnv) /\ m = Head(mqToEnv)
  OBVIOUS
<1>1. /\ mqToEnv # << >> /\ mqToEnv' = Tail(mqToEnv)
      /\ UNCHANGED <<settings, dbToEnv>>
      /\ envAt # "done" /\ envAt' \notin {"request", "load"}
  BY DEF LoadSettings, TakeMessage
<1>2. /\ m \in EnvReplies \union {StopEnvSensor}
      /\ m = mqToEnv[1]
      /\ n \in Nat \ {0}
      /\ Len(mqToEnv') = n - 1
      /\ \A j \in 1..(n - 1) : mqToEnv'[j] = mqToEnv[j + 1]
  BY <1>1, EnvTaken
<1>3. m = StopEnvSensor => current' = current
  BY ReplyTypes DEF LoadSettings, TakeMessage
<1>4. ASSUME m # StopEnvSensor
      PROVE  current' \in {m.settings, Clamped(m.settings), CoreDefaults}
  <2>1. m \in EnvReplies
    BY <1>2, <1>4
  <2>2. CASE LoadSettings
    <3>1. current = CoreDefaults
      BY <2>2 DEF LoadSettings, SettingsInv, DefaultsUntilLoaded
    <3> QED BY <2>2, <3>1 DEF LoadSettings
  <2>3. CASE TakeMessage
    <3>1. CASE m.command = "UPDATE_SETTINGS"
      BY <2>3, <3>1 DEF TakeMessage
    <3>2. CASE m.command = "GET_SETTINGS_THREAD"
      <4>1. ToldBefore(1, m.settings)
        <5>1. 1 \in 1..Len(mqToEnv)
          BY <1>2
        <5> QED BY <1>2, <3>2, <5>1 DEF SettingsInv, LateAnswersRepeat
      <4>2. Fits(m.settings)
        BY <1>1, <4>1 DEF ToldBefore
      <4> QED BY <2>3, <3>2, <4>2 DEF TakeMessage, Fits
    <3> QED BY <2>1, <3>1, <3>2, ReplyTypes
  <2> QED BY <2>2, <2>3
<1>5. \A i \in 1..n : \A s : ToldBefore(i + 1, s) => ToldBefore(i, s)'
  <2>1. m # StopEnvSensor => Fits(m.settings)'
    BY <1>4 DEF Fits
  <2> QED BY <1>1, <1>3, <2>1, ToldTaken
<1>6. HandTellsRow' /\ DefaultsUntilLoaded'
  BY <1>1 DEF SettingsInv, HandTellsRow, DefaultsUntilLoaded
<1>7. EndTellsRow'
  <2> PICK s : s = settings
    OBVIOUS
  <2>1. dbToEnv.command # "UPDATE_SETTINGS" => ToldBefore(n, s)'
    <3>1. n \in 1..n
      BY <1>2
    <3> QED BY <1>5, <3>1 DEF SettingsInv, EndTellsRow
  <2>2. Len(mqToEnv') + 1 = n
    BY <1>2
  <2> QED BY <1>1, <2>1, <2>2 DEF EndTellsRow
<1>8. LateAnswersRepeat'
  <2>1. ASSUME NEW i \in 1..(n - 1), NEW s, s = mqToEnv'[i].settings,
               mqToEnv'[i].command = "GET_SETTINGS_THREAD"
        PROVE  ToldBefore(i, s)'
    <3>1. i \in 1..n /\ i + 1 \in 1..n /\ mqToEnv'[i] = mqToEnv[i + 1]
      BY <1>2
    <3>2. ToldBefore(i + 1, s)
      BY <2>1, <3>1 DEF SettingsInv, LateAnswersRepeat
    <3> QED BY <1>5, <3>1, <3>2
  <2> QED BY <1>2, <2>1 DEF LateAnswersRepeat
<1> QED BY <1>6, <1>7, <1>8 DEF SettingsInv

LEMMA SettingsStep ==
  ASSUME TypeOK, OnlyEnvMsgs, EnvOwnTypeOK, SettingsInv, [EnvNext]_envVars
  PROVE  SettingsInv'
<1>1. CASE EnvMoves
  BY <1>1, EnvMovesOnly, SettingsQuiet DEF settingsVars
<1>2. CASE EnvRequest \/ ToggleFan \/ LogSample \/ (\E t \in Temps : Sample(t))
  <2>1. /\ UNCHANGED <<mqToEnv, settings, dbToEnv, current>>
        /\ envAt # "done" /\ envAt' # "request"
        /\ envAt' = "load" => envAt = "request"
    BY <1>2 DEF EnvRequest, ToggleFan, LogSample, Sample, settingsVars
  <2> QED BY <2>1, SettingsQuiet
<1>3. CASE EnvDbAnswer \/ EnvWebTake \/ (\E s \in Chosen : SaveSettings(s))
             \/ CoreStop \/ EnvDestroy \/ EnvActStep \/ UNCHANGED envVars
  <2>1. UNCHANGED <<mqToEnv, settings, dbToEnv, current, envAt>>
    BY <1>3 DEF EnvDbAnswer, EnvWebTake, SaveSettings, CoreStop, EnvDestroy,
                EnvActStep, threadState, settingsVars, envVars
  <2> QED BY <2>1, SettingsQuiet
<1> QED BY <1>1, <1>2, <1>3, SettingsProcessed, SettingsSent, SettingsStop,
           SettingsTaken, EnvSteps

(* The thread never works with settings that were replaced. *)
THEOREM SettingsAreNotStale == EnvSpec => []SettingsAreCurrentOrDefault
<1>1. EnvInit => SettingsInv
  <2> SUFFICES ASSUME EnvInit PROVE SettingsInv
    OBVIOUS
  <2>1. mqToEnv = << >> /\ Len(mqToEnv) = 0 /\ dbToEnv = NoMessage
        /\ current = CoreDefaults
    BY DEF EnvInit
  <2>2. HandTellsRow /\ LateAnswersRepeat /\ DefaultsUntilLoaded
    BY <2>1 DEF HandTellsRow, LateAnswersRepeat, DefaultsUntilLoaded
  <2>3. EndTellsRow
    BY <2>1 DEF EndTellsRow, ToldBefore, Fits
  <2> QED BY <2>2, <2>3 DEF SettingsInv
<1>2. TypeOK /\ OnlyEnvMsgs /\ EnvOwnTypeOK /\ SettingsInv /\ [EnvNext]_envVars
        => SettingsInv'
  BY SettingsStep
<1>3. EnvOwnTypeOK /\ SettingsInv => SettingsAreCurrentOrDefault
  BY SettingsInvSuffices
<1> QED BY <1>1, <1>2, <1>3, EnvTypedHolds, PTL DEF EnvSpec, EnvTypedInv

=============================================================================
