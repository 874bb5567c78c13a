---------------------------- MODULE Environment ----------------------------
(***************************************************************************)
(* The temperature of the room: the thread C_tReadEnvSensor, which samples *)
(* the sensor and drives the fan through tAct; the settings it works with, *)
(* loaded from the database daemon when it starts and pushed to it when    *)
(* the web pages change them; and its end, for which C_SecureAsset::stop   *)
(* sends a message of its own, as the thread may wait for minutes. tAct    *)
(* is that of module Actuation.                                            *)
(***************************************************************************)
EXTENDS WebLink, Integers

CONSTANTS
  Temps,         \* temperatures the sensor may read
  Chosen,        \* the settings the web pages save in this instance
  SeedSettings,  \* 30 degrees, 600 s: the row initializeSchema seeds
  CoreDefaults,  \* 3 degrees, 60 s: what the thread is created with
  EnvCap         \* capacity of mq_db_to_env (10)

SystemSettings == [tempThreshold : Int, samplingInterval : Int]
Known == Chosen \union {SeedSettings, CoreDefaults}

GetSettingsThread == [type |-> "GET_SETTINGS_THREAD"]
UpdateSettings(s) == [type |-> "UPDATE_SETTINGS", settings |-> s]
SensorLog(t)      == [type |-> "LOG_SENSOR", temp |-> t]

EnvMsgs == {GetSettingsThread} \union {UpdateSettings(s) : s \in Chosen}
           \union {SensorLog(t) : t \in Temps}

(* AuthResponse, as the thread gets it: what the payload of a stop message  *)
(* says does not matter.                                                    *)
ToThread(command, s) == [command |-> command, settings |-> s]
StopEnvSensor == ToThread("STOP_ENV_SENSOR", CoreDefaults)
NoMessage     == ToThread("none", CoreDefaults)
EnvReplies    == [command : {"GET_SETTINGS_THREAD", "UPDATE_SETTINGS"},
                  settings : Known]

Fan(value) == Cmd("FAN", value)
EnvRequests == {Fan(0), Fan(1)}

ASSUME EnvironmentAssumption ==
  /\ Temps \subseteq Int
  /\ Known \subseteq SystemSettings
  /\ EnvCap \in Nat \ {0}
  /\ EnvRequests \subseteq Requests
  /\ EnvMsgs \subseteq OtherMsgs

VARIABLES
  envAt,         \* where the thread is
  current,       \* m_tempThreshold and m_intervalSeconds
  lastFanState,  \* m_lastFanState
  temp,          \* the temperature read last
  mqToEnv,       \* messages waiting for the thread
  settings,      \* the row of SystemSettings
  dbToEnv,       \* what the daemon is sending to the thread, or NoMessage
  stopDue        \* stop() has yet to send its message

threadState == <<envAt, current, lastFanState, temp>>
settingsVars == <<mqToEnv, settings, dbToEnv, stopDue>>
envVars == <<vars, webVars, threadState, settingsVars>>

EnvPlaces == {"request", "load", "loop", "receive", "sample", "fan", "log",
              "done"}

EnvInit ==
  /\ Init
  /\ WebInit
  /\ envAt = "request"
  /\ current = CoreDefaults
  /\ lastFanState = 0
  /\ temp \in Temps
  /\ mqToEnv = << >>
  /\ settings \in Chosen \union {SeedSettings}
  /\ dbToEnv = NoMessage
  /\ stopDue = FALSE

-----------------------------------------------------------------------------
(* The thread. A step that changes nothing but where it is: *)
EnvMove(from, to) ==
  /\ envAt = from
  /\ envAt' = to
  /\ UNCHANGED <<vars, webVars, current, lastFanState, temp, settingsVars>>

EnvRequest ==
  /\ envAt = "request"
  /\ SendOther(GetSettingsThread)
  /\ envAt' = "load"
  /\ UNCHANGED <<webVars, current, lastFanState, temp, settingsVars>>

(* The first message is taken for the answer; if it is another, it is       *)
(* dropped and the defaults stay.                                           *)
LoadSettings ==
  /\ envAt = "load"
  /\ mqToEnv # << >>
  /\ mqToEnv' = Tail(mqToEnv)
  /\ envAt' = "loop"
  /\ current' = IF Head(mqToEnv).command = "GET_SETTINGS_THREAD"
                THEN Head(mqToEnv).settings ELSE current
  /\ UNCHANGED <<vars, webVars, lastFanState, temp, settings, dbToEnv, stopDue>>

(* No message for 5 s: the thread goes on with the defaults. *)
LoadTimeout == mqToEnv = << >> /\ EnvMove("load", "loop")

(* A definition with a two-part name, such as EnvLoop_MessageOnly, is a     *)
(* plausible bug of the one after it.                                       *)
EnvLoop_MessageOnly == EnvMove("loop", "receive")

EnvLoop == EnvMove("loop", IF stopRequested THEN "done" ELSE "receive")

(* An interval pushed to the thread is at least a second. *)
Clamped(s) ==
  IF s.samplingInterval < 1 THEN [s EXCEPT !.samplingInterval = 1] ELSE s

(* Any message ends the wait; one that is neither a stop nor an update is   *)
(* dropped.                                                                 *)
TakeMessage ==
  /\ envAt = "receive"
  /\ mqToEnv # << >>
  /\ mqToEnv' = Tail(mqToEnv)
  /\ LET m == Head(mqToEnv) IN
     /\ current' = IF m.command = "UPDATE_SETTINGS" THEN Clamped(m.settings)
                   ELSE current
     /\ envAt' = IF m.command = "STOP_ENV_SENSOR" THEN "done" ELSE "loop"
  /\ UNCHANGED <<vars, webVars, lastFanState, temp, settings, dbToEnv, stopDue>>

(* No message for the sampling interval. *)
IntervalElapses == mqToEnv = << >> /\ EnvMove("receive", "sample")

SampleFails == EnvMove("sample", "loop")

FanValue(t) == IF t > current.tempThreshold THEN 1 ELSE 0

Sample_KeepsState(t) ==
  /\ envAt = "sample"
  /\ temp' = t
  /\ envAt' = IF FanValue(t) # lastFanState THEN "fan" ELSE "log"
  /\ UNCHANGED <<vars, webVars, current, lastFanState, settingsVars>>

Sample(t) ==
  /\ envAt = "sample"
  /\ temp' = t
  /\ lastFanState' = FanValue(t)
  /\ envAt' = IF FanValue(t) # lastFanState THEN "fan" ELSE "log"
  /\ UNCHANGED <<vars, webVars, current, settingsVars>>

ToggleFan ==
  /\ envAt = "fan"
  /\ Submit(Fan(lastFanState))
  /\ envAt' = "log"
  /\ UNCHANGED <<webVars, current, lastFanState, temp, settingsVars>>

LogSample ==
  /\ envAt = "log"
  /\ SendOther(SensorLog(temp))
  /\ envAt' = "loop"
  /\ UNCHANGED <<webVars, current, lastFanState, temp, settingsVars>>

EnvSend == EnvRequest \/ ToggleFan \/ LogSample

C_tReadEnvSensor ==
  \/ EnvSend
  \/ LoadSettings \/ EnvLoop \/ TakeMessage
  \/ SampleFails \/ \E t \in Temps : Sample(t)

-----------------------------------------------------------------------------
(* The database daemon. *)

handleUpdateSettings_PushesOld(s) ==
  /\ settings' = s
  /\ dbToEnv' = ToThread("UPDATE_SETTINGS", settings)
  /\ dbAnswers' = TRUE

(* A change SQLite refuses is answered, and told to nobody else. *)
handleUpdateSettings(s) ==
  /\ \/ settings' = s /\ dbToEnv' = ToThread("UPDATE_SETTINGS", s)
     \/ UNCHANGED <<settings, dbToEnv>>
  /\ dbAnswers' = TRUE

handleGetSettingsForThread ==
  /\ dbToEnv' = ToThread("GET_SETTINGS_THREAD", settings)
  /\ UNCHANGED <<settings, dbAnswers>>

EnvDbProcess ==
  /\ dbToEnv = NoMessage /\ ~dbAnswers
  /\ DbTake
  /\ LET m == Head(mqToDatabase) IN
     CASE m.type = "UPDATE_SETTINGS" -> handleUpdateSettings(m.settings)
       [] m.type = "GET_SETTINGS_THREAD" -> handleGetSettingsForThread
       [] OTHER -> UNCHANGED <<settings, dbToEnv, dbAnswers>>
  /\ UNCHANGED <<webReplies, webWaits, requests, threadState, mqToEnv, stopDue>>

PostEnv(m) ==
  /\ Len(mqToEnv) < EnvCap
  /\ mqToEnv' = Append(mqToEnv, m)

EnvDbSend ==
  /\ dbToEnv # NoMessage
  /\ PostEnv(dbToEnv)
  /\ dbToEnv' = NoMessage
  /\ UNCHANGED <<vars, webVars, threadState, settings, stopDue>>

EnvDbAnswer ==
  /\ dbToEnv = NoMessage
  /\ AnswerWeb
  /\ UNCHANGED <<threadState, settingsVars>>

-----------------------------------------------------------------------------
(* The web daemon. *)

SaveSettings(s) ==
  /\ WebRequest(UpdateSettings(s))
  /\ UNCHANGED <<threadState, settingsVars>>

EnvWebTake == WebReceive /\ UNCHANGED <<threadState, settingsVars>>

-----------------------------------------------------------------------------
(* The end of the core: the flags first, then the message. *)

CoreStop ==
  /\ RequestStop
  /\ stopDue' = TRUE
  /\ UNCHANGED <<webVars, threadState, mqToEnv, settings, dbToEnv>>

SendStop ==
  /\ stopDue
  /\ PostEnv(StopEnvSensor)
  /\ stopDue' = FALSE
  /\ UNCHANGED <<vars, webVars, threadState, settings, dbToEnv>>

EnvDestroy ==
  /\ stopRequested /\ ~stopDue /\ envAt = "done"
  /\ Destroy
  /\ UNCHANGED <<webVars, threadState, settingsVars>>

EnvActStep == tAct /\ UNCHANGED <<webVars, threadState, settingsVars>>

EnvNext ==
  \/ C_tReadEnvSensor \/ LoadTimeout \/ IntervalElapses
  \/ EnvDbProcess \/ EnvDbSend \/ EnvDbAnswer
  \/ \E s \in Chosen : SaveSettings(s)
  \/ EnvWebTake
  \/ CoreStop \/ SendStop \/ EnvDestroy
  \/ EnvActStep

EnvSpec == EnvInit /\ [][EnvNext]_envVars

(* Threads and daemons are scheduled; a blocked send gets the slot the next *)
(* receive frees. The sampling interval and the 5 s of the first answer     *)
(* need not elapse: they may be longer than the launcher waits for the end. *)
EnvFairness ==
  /\ WF_envVars(C_tReadEnvSensor)
  /\ SF_envVars(EnvSend)
  /\ WF_envVars(EnvDbProcess)
  /\ SF_envVars(EnvDbSend)
  /\ WF_envVars(EnvDbAnswer)
  /\ WF_envVars(EnvWebTake)
  /\ SF_envVars(SendStop)
  /\ WF_envVars(EnvActStep)
  /\ SF_envVars(SendLog /\ UNCHANGED <<webVars, threadState, settingsVars>>)

FairEnvSpec == EnvSpec /\ EnvFairness

-----------------------------------------------------------------------------
EnvTypeOK ==
  /\ TypeOK
  /\ WebTypeOK
  /\ envAt \in EnvPlaces
  /\ current \in SystemSettings
  /\ lastFanState \in {0, 1}
  /\ temp \in Temps
  /\ mqToEnv \in Seq(EnvReplies \union {StopEnvSensor})
  /\ Len(mqToEnv) <= EnvCap
  /\ settings \in Known
  /\ dbToEnv \in EnvReplies \union {NoMessage}
  /\ stopDue \in BOOLEAN

FanCmds == {i \in 1..Len(mqToActuator) : mqToActuator[i].id = "FAN"}

(* What the fan will be set to when all that is sent to tAct is done: by    *)
(* the last command queued, else by the one in hand, else as it is.         *)
FanEndsIn(value) ==
  /\ \A i \in FanCmds :
       (\A j \in FanCmds : j <= i) => mqToActuator[i].value = value
  /\ FanCmds = {} =>
       value = IF pc = "apply" /\ cmd.id = "FAN" THEN cmd.value ELSE hw["FAN"]

(* The thread sends a command only when the fan must change                *)
(* (C_tReadEnvSensor.cpp:86-91), so it must never be wrong about what it   *)
(* sent: m_lastFanState is what the fan ends up in, except while the       *)
(* command that makes it so waits for room in mq_to_actuator.              *)
FanTellsLastState ==
  pc # "destroyed" =>
    FanEndsIn(IF envAt = "fan" THEN 1 - lastFanState ELSE lastFanState)

(* Places in mq_db_to_env of messages with settings. *)
Told == {i \in 1..Len(mqToEnv) : mqToEnv[i] # StopEnvSensor}

(* The thread never works with settings that were replaced: the newest     *)
(* message under way tells the row of SystemSettings, and when there is    *)
(* none, the thread in its loop has that row, or is still on the defaults  *)
(* it was created with (C_tReadEnvSensor.cpp:45-47, 67-71;                 *)
(* dDatabase.cpp:1360-1375, 1383-1400).                                    *)
SettingsAreCurrentOrDefault ==
  IF dbToEnv # NoMessage THEN dbToEnv.settings = settings
  ELSE /\ \A i \in Told :
            (\A j \in Told : j <= i) => mqToEnv[i].settings = settings
       /\ Told = {} /\ envAt \in {"loop", "receive", "sample", "fan", "log"} =>
            current \in {settings, Clamped(settings), CoreDefaults}

(* The thread waits for room in mq_to_actuator after tAct has ended. *)
FanUnheard == envAt = "fan" /\ pc = "done"

(* The daemon waits for room in mq_db_to_env or in mq_db_to_web, which the  *)
(* thread or the web daemon would make; one of them, or tAct on the way,    *)
(* waits for room in mq_to_db, which the daemon would.                      *)
EnvMutualWait ==
  /\ Len(mqToDatabase) = DbCap
  /\ \/ dbToEnv # NoMessage /\ Len(mqToEnv) = EnvCap
     \/ dbToEnv = NoMessage /\ AnswerBlocked

(* The core can end whatever the sampling interval is: after stop(), the   *)
(* thread ends without waiting for an interval or for the 5 s of its first *)
(* answer, though the queue of the message that wakes it may be full       *)
(* (C_SecureAsset.cpp:337 "Special message to unblock the env thread").    *)
(* Two waits have no end: for tAct, if it ended first and left             *)
(* mq_to_actuator full; and that of daemon and thread for each other.      *)
StopReachesEnv ==
  stopRequested ~> (envAt = "done" \/ []FanUnheard \/ []EnvMutualWait)
=============================================================================
