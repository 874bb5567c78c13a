----------------------------- MODULE Actuation -----------------------------
(***************************************************************************)
(* The actuation path of the core process: the thread tAct, which takes    *)
(* ActuatorCmd messages from mq_to_actuator, applies them to the hardware  *)
(* and logs them to mq_to_db; the POSIX timer that ends an alarm, whose    *)
(* callback runs in a thread of its own; and the Actuators table the       *)
(* database daemon keeps from the logs.                                    *)
(*                                                                         *)
(* The threads that send commands, and everything else that is sent to     *)
(* mq_to_db, are an open environment here (Submit and SendOther); module   *)
(* RoomAccess puts the real threads in its place.                          *)
(***************************************************************************)
EXTENDS Naturals, Sequences

CONSTANTS
  ActCap,        \* capacity of mq_to_actuator (20 in the code)
  DbCap,         \* capacity of mq_to_db (20 in the code)
  Requests,      \* the commands the other threads of this instance send
  OtherMsgs,     \* what the other threads send to mq_to_db
  FaultyServos,  \* servos whose PWM writes may fail
  MaxCallbacks   \* bound: timer callbacks in flight at the same time

Servos    == {"SERVO_ROOM", "SERVO_VAULT"}
Actuators == Servos \union {"FAN", "ALARM"}
Values    == {0, 1, 90}

Cmd(id, value) == [id |-> id, value |-> value]

AlarmOn  == Cmd("ALARM", 1)
AlarmOff == Cmd("ALARM", 0)

(* The commands the threads other than the timer callback send. *)
ThreadCmds == [id : Servos, value : {0, 90}]
              \union [id : {"FAN"}, value : {0, 1}] \union {AlarmOn}

ActuatorCmd == ThreadCmds \union {AlarmOff}

(* WRITE_LOG messages of type LOG_TYPE_ACTUATOR. *)
ActuatorLog(c) == [type |-> "LOG_ACTUATOR", id |-> c.id, value |-> c.value]
ActuatorLogs   == [type : {"LOG_ACTUATOR"}, id : Actuators, value : Values]

(* tAct's message buffer while it holds no command. *)
NoCmd == [id |-> "none", value |-> 0]

ASSUME ActuationAssumption ==
  /\ ActCap \in Nat \ {0}
  /\ DbCap \in Nat \ {0}
  /\ MaxCallbacks \in Nat
  /\ Requests \subseteq ThreadCmds
  /\ OtherMsgs \intersect ActuatorLogs = {}
  /\ FaultyServos \subseteq Servos

VARIABLES
  mqToActuator,   \* commands waiting for tAct, in sending order
  mqToDatabase,   \* messages waiting for the database daemon
  pc,             \* where tAct is
  cmd,            \* the command tAct is processing
  hw,             \* what each actuator was last set to; 0 is off, or door free
  timerArmed,     \* the alarm timer is running
  callbacks,      \* timer callbacks that have started and not yet sent
  stopRequested,  \* requestStop() has been called
  actuatorTable   \* State column of the Actuators table

vars == <<mqToActuator, mqToDatabase, pc, cmd, hw, timerArmed, callbacks,
          stopRequested, actuatorTable>>

State(value) == IF value > 0 THEN 1 ELSE 0

(* What init() leaves the hardware in, and the rows initializeSchema seeds. *)
InitialHw    == [a \in Actuators |-> IF a \in Servos THEN 90 ELSE 0]
SeededTable  == [a \in Actuators |-> IF a \in Servos THEN 1 ELSE 0]

Init ==
  /\ mqToActuator = << >>
  /\ mqToDatabase = << >>
  /\ pc = "check"
  /\ cmd = NoCmd
  /\ hw = InitialHw
  /\ timerArmed = FALSE
  /\ callbacks = 0
  /\ stopRequested = FALSE
  /\ actuatorTable = SeededTable

-----------------------------------------------------------------------------
(* mq_send blocks while the queue is full: a send is enabled only with room. *)
(* A definition with a two-part name, such as SendLog_DropsWhenFull, is a   *)
(* plausible bug of the one after it.                                       *)

Post(c) ==
  /\ Len(mqToActuator) < ActCap
  /\ mqToActuator' = Append(mqToActuator, c)

PostDb(m) ==
  /\ Len(mqToDatabase) < DbCap
  /\ mqToDatabase' = Append(mqToDatabase, m)

(* Another thread sends a command, or sends something to the database. *)
Submit(c) ==
  /\ Post(c)
  /\ UNCHANGED <<mqToDatabase, pc, cmd, hw, timerArmed, callbacks,
                 stopRequested, actuatorTable>>

SendOther(m) ==
  /\ PostDb(m)
  /\ UNCHANGED <<mqToActuator, pc, cmd, hw, timerArmed, callbacks,
                 stopRequested, actuatorTable>>

RequestStop ==
  /\ ~stopRequested
  /\ stopRequested' = TRUE
  /\ UNCHANGED <<mqToActuator, mqToDatabase, pc, cmd, hw, timerArmed,
                 callbacks, actuatorTable>>

-----------------------------------------------------------------------------
(* The loop of tAct. *)

CheckStop_AlwaysDisarms ==
  /\ pc = "check"
  /\ pc' = IF stopRequested THEN "done" ELSE "receive"
  /\ timerArmed' = FALSE
  /\ UNCHANGED <<mqToActuator, mqToDatabase, cmd, hw, callbacks,
                 stopRequested, actuatorTable>>

(* The loop condition; a thread told to stop disarms the timer and ends. *)
CheckStop ==
  /\ pc = "check"
  /\ pc' = IF stopRequested THEN "done" ELSE "receive"
  /\ timerArmed' = (timerArmed /\ ~stopRequested)
  /\ UNCHANGED <<mqToActuator, mqToDatabase, cmd, hw, callbacks,
                 stopRequested, actuatorTable>>

(* timedReceive: a message, or ETIMEDOUT when there has been none for 1 s. *)
Receive ==
  /\ pc = "receive"
  /\ IF mqToActuator = << >>
     THEN pc' = "check" /\ UNCHANGED <<mqToActuator, cmd>>
     ELSE /\ pc' = "apply"
          /\ cmd' = Head(mqToActuator)
          /\ mqToActuator' = Tail(mqToActuator)
  /\ UNCHANGED <<mqToDatabase, hw, timerArmed, callbacks, stopRequested,
                 actuatorTable>>

(* set_value succeeds: only the alarm goes on to the timer. *)
Apply ==
  /\ pc = "apply"
  /\ hw' = [hw EXCEPT ![cmd.id] = cmd.value]
  /\ pc' = IF cmd.id = "ALARM" THEN "timer" ELSE "log"
  /\ UNCHANGED <<mqToActuator, mqToDatabase, cmd, timerArmed, callbacks,
                 stopRequested, actuatorTable>>

(* A write to a servo fails. The first, which enables the motor, or that of *)
(* the pulse: set_value returns false and nothing is logged. That of stop(), *)
(* which leaves the door held, goes untold, and 0 is logged.                *)
ApplyFails ==
  /\ pc = "apply"
  /\ cmd.id \in FaultyServos
  /\ \/ /\ \/ UNCHANGED hw
           \/ cmd.value # 0 /\ hw' = [hw EXCEPT ![cmd.id] = cmd.value]
        /\ pc' = "check"
        /\ cmd' = NoCmd
     \/ /\ cmd.value = 0
        /\ hw' = [hw EXCEPT ![cmd.id] = 90]
        /\ pc' = "log"
        /\ UNCHANGED cmd
  /\ UNCHANGED <<mqToActuator, mqToDatabase, timerArmed, callbacks,
                 stopRequested, actuatorTable>>

(* startAlarmTimer after an ON, stopAlarmTimer after an OFF. *)
SetTimer ==
  /\ pc = "timer"
  /\ timerArmed' = (cmd.value = 1)
  /\ pc' = "log"
  /\ UNCHANGED <<mqToActuator, mqToDatabase, cmd, hw, callbacks,
                 stopRequested, actuatorTable>>

SendLog_DropsWhenFull ==
  /\ pc = "log"
  /\ PostDb(ActuatorLog(cmd)) \/ (Len(mqToDatabase) = DbCap /\ UNCHANGED mqToDatabase)
  /\ pc' = "check"
  /\ cmd' = NoCmd
  /\ UNCHANGED <<mqToActuator, hw, timerArmed, callbacks, stopRequested,
                 actuatorTable>>

SendLog ==
  /\ pc = "log"
  /\ PostDb(ActuatorLog(cmd))
  /\ pc' = "check"
  /\ cmd' = NoCmd
  /\ UNCHANGED <<mqToActuator, hw, timerArmed, callbacks, stopRequested,
                 actuatorTable>>

(* destroyInstance runs the actuators' destructors, which switch everything *)
(* off and log nothing. All threads are joined first: of the others, which  *)
(* the modules that extend this one have, nothing is known here.            *)
Destroy ==
  /\ pc = "done"
  /\ pc' = "destroyed"
  /\ hw' = [a \in Actuators |-> 0]
  /\ UNCHANGED <<mqToActuator, mqToDatabase, cmd, timerArmed, callbacks,
                 stopRequested, actuatorTable>>

tAct == CheckStop \/ Receive \/ Apply \/ ApplyFails \/ SetTimer \/ SendLog

-----------------------------------------------------------------------------
(* The alarm timer and its callback (SIGEV_THREAD: a thread per expiry). *)

Expire ==
  /\ timerArmed
  /\ callbacks < MaxCallbacks
  /\ timerArmed' = FALSE
  /\ callbacks' = callbacks + 1
  /\ UNCHANGED <<mqToActuator, mqToDatabase, pc, cmd, hw, stopRequested,
                 actuatorTable>>

AlarmTimerCallback_DropsWhenFull ==
  /\ callbacks > 0
  /\ Post(AlarmOff) \/ (Len(mqToActuator) = ActCap /\ UNCHANGED mqToActuator)
  /\ callbacks' = callbacks - 1
  /\ UNCHANGED <<mqToDatabase, pc, cmd, hw, timerArmed, stopRequested,
                 actuatorTable>>

AlarmTimerCallback ==
  /\ callbacks > 0
  /\ Post(AlarmOff)
  /\ callbacks' = callbacks - 1
  /\ UNCHANGED <<mqToDatabase, pc, cmd, hw, timerArmed, stopRequested,
                 actuatorTable>>

-----------------------------------------------------------------------------
(* The database daemon takes one message; an actuator log updates its row. *)

UpdateActuatorTable(m) ==
  actuatorTable' = IF m \in ActuatorLogs
                   THEN [actuatorTable EXCEPT ![m.id] = State(m.value)]
                   ELSE actuatorTable

DbTake ==
  /\ mqToDatabase # << >>
  /\ mqToDatabase' = Tail(mqToDatabase)
  /\ UpdateActuatorTable(Head(mqToDatabase))
  /\ UNCHANGED <<mqToActuator, pc, cmd, hw, timerArmed, callbacks,
                 stopRequested>>

-----------------------------------------------------------------------------
Next ==
  \/ \E c \in Requests : Submit(c)
  \/ \E m \in OtherMsgs : SendOther(m)
  \/ RequestStop
  \/ tAct
  \/ Destroy
  \/ Expire
  \/ AlarmTimerCallback
  \/ DbTake

Spec == Init /\ [][Next]_vars

(* tAct is scheduled, and a running timer expires. A sender blocked on a    *)
(* full queue gets the slot the next receive frees: the kernel hands it     *)
(* over, so the two blocking sends are strongly fair. Nothing is asked of   *)
(* the database daemon, which may block, nor of the destructors, which wait *)
(* for joins that may never return.                                         *)
FairSpec ==
  /\ Spec
  /\ WF_vars(tAct)
  /\ WF_vars(Expire)
  /\ SF_vars(SendLog)
  /\ SF_vars(AlarmTimerCallback)

-----------------------------------------------------------------------------
(* Every variable has its type; the queues respect their capacities. *)
TypeOK ==
  /\ mqToActuator \in Seq(ActuatorCmd)
  /\ Len(mqToActuator) <= ActCap
  /\ mqToDatabase \in Seq(ActuatorLogs \union OtherMsgs)
  /\ Len(mqToDatabase) <= DbCap
  /\ pc \in {"check", "receive", "apply", "timer", "log", "done",
            "destroyed"}
  /\ cmd \in ActuatorCmd \union {NoCmd}
  /\ hw \in [Actuators -> Values]
  /\ timerArmed \in BOOLEAN
  /\ callbacks \in 0..MaxCallbacks
  /\ stopRequested \in BOOLEAN
  /\ actuatorTable \in [Actuators -> {0, 1}]

(* What pc says about the command in hand. *)
HandOK ==
  /\ pc \in {"apply", "timer", "log"} => cmd \in ActuatorCmd
  /\ pc = "timer" => cmd.id = "ALARM"
  /\ pc \in {"timer", "log"} /\ cmd.id \notin FaultyServos => hw[cmd.id] = cmd.value

OffQueued == \E i \in 1..Len(mqToActuator) : mqToActuator[i] = AlarmOff

(* An alarm that sounds is on its way to being silenced: the timer runs, a *)
(* callback is about to send OFF, an OFF is queued or in hand, or tAct is  *)
(* just arming the timer. No thread but the callback ever switches the     *)
(* alarm off (C_tAct.cpp:66-97, 154-164), so an unguarded alarm would      *)
(* sound until the core ends.                                              *)
AlarmGuarded ==
  pc # "done" /\ hw["ALARM"] # 0 =>
    \/ timerArmed
    \/ callbacks > 0
    \/ OffQueued
    \/ pc = "apply" /\ cmd = AlarmOff
    \/ pc = "timer" /\ cmd = AlarmOn

(* The actuator logs of a still to be read by the database. *)
LogsOf(a) ==
  {i \in 1..Len(mqToDatabase) :
     mqToDatabase[i] \in ActuatorLogs /\ mqToDatabase[i].id = a}

LogDue(a) == pc \in {"timer", "log"} /\ cmd.id = a

(* The Actuators table follows the hardware: what tAct last logged of an   *)
(* actuator, or the row when no log of it is under way, is the state the   *)
(* hardware is in, until the destructors run (C_tAct.cpp:167-168, 221;     *)
(* dDatabase.cpp:420-425).                                                 *)
TableFollowsHardware ==
  pc # "destroyed" =>
  \A a \in Actuators \ FaultyServos :
    ~LogDue(a) =>
      /\ LogsOf(a) = {} => actuatorTable[a] = State(hw[a])
      /\ \A i \in LogsOf(a) :
           (\A j \in LogsOf(a) : j <= i) => mqToDatabase[i].value = hw[a]

(* tAct waits for room in mq_to_db, which only the database daemon makes. *)
DaemonStalls == pc = "log" /\ Len(mqToDatabase) = DbCap

(* A sounding alarm falls silent or is prolonged by another ON (C_tAct.cpp:73 *)
(* "Turn off the alarm after timeout."), unless the database daemon takes   *)
(* no message any more, or the core is told to stop: once tAct has ended    *)
(* nothing but the destructors silences the alarm, after joins that need    *)
(* not return (C_SecureAsset.cpp:348-359).                                  *)
AlarmEnds ==
  hw["ALARM"] # 0 ~>
    \/ hw["ALARM"] = 0 \/ (pc = "timer" /\ cmd = AlarmOn)
    \/ pc = "done"
    \/ []DaemonStalls
=============================================================================
