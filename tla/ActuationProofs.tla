-------------------------- MODULE ActuationProofs --------------------------
(***************************************************************************)
(* Proofs about Actuation: its type invariant, that a sounding alarm is    *)
(* always guarded, and that the Actuators table follows the hardware, for  *)
(* every queue capacity and every set of commands the threads send.        *)
(***************************************************************************)
EXTENDS Actuation, SequenceTheorems, TLAPS

-----------------------------------------------------------------------------
(* What the two queue operations do to the elements. *)

LEMMA AppendElements ==
  ASSUME NEW S, NEW s \in Seq(S), NEW e \in S
  PROVE  /\ Append(s, e) \in Seq(S)
         /\ Len(Append(s, e)) = Len(s) + 1
         /\ \A i \in 1..Len(s) : Append(s, e)[i] = s[i]
         /\ Append(s, e)[Len(s) + 1] = e
BY AppendProperties

LEMMA TailElements ==
  ASSUME NEW S, NEW s \in Seq(S), s # << >>
  PROVE  /\ Head(s) \in S
         /\ Head(s) = s[1]
         /\ Len(s) \in Nat \ {0}
         /\ Tail(s) \in Seq(S)
         /\ Len(Tail(s)) = Len(s) - 1
         /\ \A i \in 1..(Len(s) - 1) : Tail(s)[i] = s[i + 1]
BY HeadTailProperties, LenProperties, EmptySeq

-----------------------------------------------------------------------------
(* The type invariant, with what pc says about the command in hand. *)

LEMMA CommandTypes ==
  /\ Requests \subseteq ActuatorCmd
  /\ AlarmOff \in ActuatorCmd
  /\ AlarmOn \in ActuatorCmd
BY ActuationAssumption DEF ThreadCmds, ActuatorCmd

LEMMA CommandFields ==
  ASSUME NEW c \in ActuatorCmd
  PROVE  /\ c.id \in Actuators
         /\ c.value \in Values
         /\ c.id = "ALARM" => c = AlarmOn \/ c = AlarmOff
         /\ ActuatorLog(c) \in ActuatorLogs
BY DEF ThreadCmds, ActuatorCmd, AlarmOff, AlarmOn, Cmd, ActuatorLog,
   ActuatorLogs, Actuators, Servos, Values

LEMMA InitTyped == Init => TypeOK /\ HandOK
<1> SUFFICES ASSUME Init PROVE TypeOK /\ HandOK
  OBVIOUS
<1>1. mqToActuator \in Seq(ActuatorCmd) /\ Len(mqToActuator) = 0
  BY EmptySeq DEF Init
<1>2. mqToDatabase \in Seq(ActuatorLogs \union OtherMsgs) /\ Len(mqToDatabase) = 0
  BY EmptySeq DEF Init
<1>3. hw \in [Actuators -> Values]
  BY DEF Init, InitialHw, Values
<1>4. actuatorTable \in [Actuators -> {0, 1}]
  BY DEF Init, SeededTable
<1>5. /\ Len(mqToActuator) <= ActCap /\ Len(mqToDatabase) <= DbCap
      /\ callbacks \in 0..MaxCallbacks
  BY <1>1, <1>2, ActuationAssumption DEF Init
<1>6. pc = "check" /\ cmd = NoCmd /\ timerArmed = FALSE /\ stopRequested = FALSE
  BY DEF Init
<1>7. TypeOK
  BY <1>1, <1>2, <1>3, <1>4, <1>5, <1>6 DEF TypeOK
<1>8. HandOK
  BY DEF Init, HandOK
<1> QED BY <1>7, <1>8

LEMMA PostTyped ==
  ASSUME TypeOK, NEW c \in ActuatorCmd, Post(c)
  PROVE  mqToActuator' \in Seq(ActuatorCmd) /\ Len(mqToActuator') <= ActCap
BY AppendElements, LenProperties, ActuationAssumption DEF TypeOK, Post

LEMMA PostDbTyped ==
  ASSUME TypeOK, NEW m \in ActuatorLogs \union OtherMsgs, PostDb(m)
  PROVE  /\ mqToDatabase' \in Seq(ActuatorLogs \union OtherMsgs)
         /\ Len(mqToDatabase') <= DbCap
BY AppendElements, LenProperties, ActuationAssumption DEF TypeOK, PostDb

LEMMA NextTyped ==
  ASSUME TypeOK, HandOK, [Next]_vars
  PROVE  TypeOK' /\ HandOK'
<1> USE DEF HandOK
<1>1. ASSUME NEW c \in Requests, Submit(c) PROVE TypeOK' /\ HandOK'
  <2>1. mqToActuator' \in Seq(ActuatorCmd) /\ Len(mqToActuator') <= ActCap
    BY <1>1, PostTyped, CommandTypes DEF Submit
  <2> QED BY <1>1, <2>1 DEF TypeOK, Submit
<1>2. ASSUME NEW m \in OtherMsgs, SendOther(m) PROVE TypeOK' /\ HandOK'
  <2>1. /\ mqToDatabase' \in Seq(ActuatorLogs \union OtherMsgs)
        /\ Len(mqToDatabase') <= DbCap
    BY <1>2, PostDbTyped DEF SendOther
  <2> QED BY <1>2, <2>1 DEF TypeOK, SendOther
<1>3. CASE RequestStop
  BY <1>3 DEF TypeOK, RequestStop
<1>4. CASE CheckStop
  BY <1>4 DEF TypeOK, CheckStop
<1>5. CASE Receive
  <2>1. CASE mqToActuator = << >>
    BY <1>5, <2>1 DEF TypeOK, Receive
  <2>2. CASE mqToActuator # << >>
    <3>1. /\ Head(mqToActuator) \in ActuatorCmd
          /\ Tail(mqToActuator) \in Seq(ActuatorCmd)
          /\ Len(Tail(mqToActuator)) = Len(mqToActuator) - 1
          /\ Len(mqToActuator) \in Nat
      BY <2>2, TailElements DEF TypeOK
    <3>2. pc' = "apply" /\ cmd' \in ActuatorCmd
          /\ mqToActuator' \in Seq(ActuatorCmd)
      BY <1>5, <2>2, <3>1 DEF Receive
    <3>3. Len(mqToActuator') <= ActCap
      BY <1>5, <2>2, <3>1, ActuationAssumption DEF TypeOK, Receive
    <3> QED BY <1>5, <3>2, <3>3 DEF TypeOK, Receive
  <2> QED BY <2>1, <2>2
<1>6. CASE Apply
  <2>1. cmd \in ActuatorCmd /\ cmd.id \in Actuators /\ cmd.value \in Values
    BY <1>6, CommandFields DEF Apply
  <2> QED BY <1>6, <2>1 DEF TypeOK, Apply
<1>7. CASE ApplyFails
  <2>1. cmd \in ActuatorCmd /\ cmd.id \in Actuators /\ cmd.value \in Values
    BY <1>7, CommandFields DEF ApplyFails
  <2>2. hw' \in {hw, [hw EXCEPT ![cmd.id] = cmd.value],
                [hw EXCEPT ![cmd.id] = 90]}
    BY <1>7 DEF ApplyFails
  <2>3. 90 \in Values /\ hw \in [Actuators -> Values]
    BY DEF Values, TypeOK
  <2>4. hw' \in [Actuators -> Values]
    BY <2>1, <2>2, <2>3
  <2> QED BY <1>7, <2>4 DEF TypeOK, ApplyFails
<1>8. CASE SetTimer
  BY <1>8 DEF TypeOK, SetTimer
<1>9. CASE SendLog
  <2>1. ActuatorLog(cmd) \in ActuatorLogs
    BY <1>9, CommandFields DEF SendLog
  <2>2. /\ mqToDatabase' \in Seq(ActuatorLogs \union OtherMsgs)
        /\ Len(mqToDatabase') <= DbCap
    BY <1>9, <2>1, PostDbTyped DEF SendLog
  <2> QED BY <1>9, <2>2 DEF TypeOK, SendLog
<1>10. CASE Destroy
  <2>1. hw' \in [Actuators -> Values]
    BY <1>10 DEF Destroy, Values
  <2> QED BY <1>10, <2>1 DEF TypeOK, Destroy
<1>11. CASE Expire
  <2>1. callbacks' \in 0..MaxCallbacks
    BY <1>11, ActuationAssumption DEF TypeOK, Expire
  <2> QED BY <1>11, <2>1 DEF TypeOK, Expire
<1>12. CASE AlarmTimerCallback
  <2>1. mqToActuator' \in Seq(ActuatorCmd) /\ Len(mqToActuator') <= ActCap
    BY <1>12, PostTyped, CommandTypes DEF AlarmTimerCallback
  <2> QED BY <1>12, <2>1, ActuationAssumption DEF TypeOK, AlarmTimerCallback
<1>13. CASE DbTake
  <2>1. /\ Tail(mqToDatabase) \in Seq(ActuatorLogs \union OtherMsgs)
        /\ Len(Tail(mqToDatabase)) = Len(mqToDatabase) - 1
        /\ Len(mqToDatabase) \in Nat
    BY <1>13, TailElements DEF TypeOK, DbTake
  <2>2. actuatorTable' \in [Actuators -> {0, 1}]
    BY <1>13 DEF TypeOK, DbTake, UpdateActuatorTable, ActuatorLogs, State
  <2> QED BY <1>13, <2>1, <2>2, ActuationAssumption DEF TypeOK, DbTake
<1>14. CASE UNCHANGED vars
  BY <1>14 DEF TypeOK, vars
<1> QED
  BY <1>1, <1>2, <1>3, <1>4, <1>5, <1>6, <1>7, <1>8, <1>9, <1>10, <1>11,
     <1>12, <1>13, <1>14 DEF Next, tAct

(* Every reachable state is well typed, and no queue exceeds its capacity. *)
THEOREM TypeCorrect == Spec => [](TypeOK /\ HandOK)
<1>1. Init => TypeOK /\ HandOK
  BY InitTyped
<1>2. TypeOK /\ HandOK /\ [Next]_vars => TypeOK' /\ HandOK'
  BY NextTyped
<1> QED BY <1>1, <1>2, PTL DEF Spec

-----------------------------------------------------------------------------
(* A sounding alarm is guarded. *)

LEMMA AlarmStep ==
  ASSUME TypeOK, HandOK, AlarmGuarded, [Next]_vars
  PROVE  AlarmGuarded'
<1> SUFFICES ASSUME pc' # "done", hw'["ALARM"] # 0
             PROVE  \/ timerArmed'
                    \/ callbacks' > 0
                    \/ OffQueued'
                    \/ pc' = "apply" /\ cmd' = AlarmOff
                    \/ pc' = "timer" /\ cmd' = AlarmOn
  BY DEF AlarmGuarded
<1>a. ASSUME NEW c \in ActuatorCmd, Post(c), OffQueued PROVE OffQueued'
  <2>1. \A i \in 1..Len(mqToActuator) : mqToActuator'[i] = mqToActuator[i]
    BY <1>a, AppendElements DEF Post, TypeOK
  <2>2. Len(mqToActuator') = Len(mqToActuator) + 1 /\ Len(mqToActuator) \in Nat
    BY <1>a, AppendElements, LenProperties DEF Post, TypeOK
  <2> QED BY <1>a, <2>1, <2>2 DEF OffQueued
<1>1. ASSUME NEW c \in Requests, Submit(c) PROVE AlarmGuarded'
  BY <1>1, <1>a, CommandTypes DEF Submit, AlarmGuarded
<1>2. ASSUME NEW m \in OtherMsgs, SendOther(m) PROVE AlarmGuarded'
  BY <1>2 DEF SendOther, AlarmGuarded, OffQueued
<1>3. CASE RequestStop
  BY <1>3 DEF RequestStop, AlarmGuarded, OffQueued
<1>4. CASE CheckStop
  BY <1>4 DEF CheckStop, AlarmGuarded, OffQueued
<1>5. CASE Receive
  <2>1. CASE mqToActuator = << >>
    BY <1>5, <2>1 DEF Receive, AlarmGuarded, OffQueued
  <2>2. CASE mqToActuator # << >>
    <3>1. /\ Head(mqToActuator) = mqToActuator[1]
          /\ Len(mqToActuator) \in Nat \ {0}
          /\ Len(Tail(mqToActuator)) = Len(mqToActuator) - 1
          /\ \A i \in 1..(Len(mqToActuator) - 1) :
               Tail(mqToActuator)[i] = mqToActuator[i + 1]
      BY <2>2, TailElements DEF TypeOK
    <3>2. OffQueued => OffQueued' \/ cmd' = AlarmOff
      <4> SUFFICES ASSUME NEW i \in 1..Len(mqToActuator),
                          mqToActuator[i] = AlarmOff, cmd' # AlarmOff
                   PROVE  OffQueued'
        BY DEF OffQueued
      <4>1. i # 1
        BY <1>5, <2>2, <3>1 DEF Receive
      <4>2. i - 1 \in 1..(Len(mqToActuator) - 1)
        BY <3>1, <4>1
      <4>3. Tail(mqToActuator)[i - 1] = AlarmOff
        BY <3>1, <4>2
      <4> QED BY <1>5, <2>2, <3>1, <4>2, <4>3 DEF Receive, OffQueued
    <3> QED BY <1>5, <2>2, <3>2 DEF Receive, AlarmGuarded
  <2> QED BY <2>1, <2>2
<1>6. CASE Apply
  <2>1. cmd \in ActuatorCmd
    BY <1>6 DEF Apply, HandOK
  <2>2. CASE cmd.id = "ALARM"
    <3>1. cmd = AlarmOn \/ cmd = AlarmOff
      BY <2>1, <2>2, CommandFields
    <3>2. hw'["ALARM"] = cmd.value
      BY <1>6, <2>2 DEF Apply, TypeOK, Actuators
    <3> QED BY <1>6, <2>2, <3>1, <3>2 DEF Apply, AlarmOff, Cmd, AlarmGuarded
  <2>3. CASE cmd.id # "ALARM"
    <3>1. hw'["ALARM"] = hw["ALARM"]
      BY <1>6, <2>1, <2>3, CommandFields DEF Apply, TypeOK, Actuators
    <3>2. cmd # AlarmOff
      BY <2>3 DEF AlarmOff, Cmd
    <3> QED BY <1>6, <3>1, <3>2 DEF Apply, AlarmGuarded, OffQueued
  <2> QED BY <2>2, <2>3
<1>7. CASE ApplyFails
  <2>1. cmd.id # "ALARM" /\ cmd # AlarmOff
    BY <1>7, ActuationAssumption DEF ApplyFails, Servos, AlarmOff, Cmd
  <2>2. hw'["ALARM"] = hw["ALARM"]
    BY <1>7, <2>1 DEF ApplyFails, TypeOK, Actuators
  <2> QED BY <1>7, <2>1, <2>2 DEF ApplyFails, AlarmGuarded, OffQueued
<1>8. CASE SetTimer
  <2>1. cmd \in ActuatorCmd /\ cmd.id = "ALARM" /\ hw["ALARM"] = cmd.value
    BY <1>8, ActuationAssumption DEF SetTimer, HandOK, Servos
  <2>2. cmd = AlarmOn
    BY <1>8, <2>1, CommandFields DEF SetTimer, AlarmOff, Cmd
  <2> QED BY <1>8, <2>2 DEF SetTimer, AlarmOn, Cmd, AlarmGuarded
<1>9. CASE SendLog
  BY <1>9 DEF SendLog, AlarmGuarded, OffQueued
<1>10. CASE Destroy
  BY <1>10 DEF Destroy, Actuators
<1>11. CASE Expire
  BY <1>11 DEF Expire, TypeOK, AlarmGuarded
<1>12. CASE AlarmTimerCallback
  <2>1. /\ mqToActuator'[Len(mqToActuator) + 1] = AlarmOff
        /\ Len(mqToActuator') = Len(mqToActuator) + 1
        /\ Len(mqToActuator) \in Nat
    BY <1>12, AppendElements, CommandTypes, LenProperties
       DEF AlarmTimerCallback, Post, TypeOK
  <2>2. OffQueued'
    BY <2>1 DEF OffQueued
  <2> QED BY <2>2 DEF AlarmGuarded
<1>13. CASE DbTake
  BY <1>13 DEF DbTake, AlarmGuarded, OffQueued
<1>14. CASE UNCHANGED vars
  BY <1>14 DEF vars, AlarmGuarded, OffQueued
<1>15. AlarmGuarded'
  BY <1>1, <1>2, <1>3, <1>4, <1>5, <1>6, <1>7, <1>8, <1>9, <1>10, <1>11,
     <1>12, <1>13, <1>14 DEF Next, tAct, AlarmGuarded
<1> QED BY <1>15 DEF AlarmGuarded

(* The alarm is never left sounding without anything on its way to silence *)
(* it, however commands, expiries and callbacks interleave.                *)
THEOREM AlarmIsGuarded == Spec => []AlarmGuarded
<1>1. Init => AlarmGuarded
  BY DEF Init, AlarmGuarded, InitialHw, Actuators, Servos
<1>2. TypeOK /\ HandOK /\ AlarmGuarded /\ [Next]_vars => AlarmGuarded'
  BY AlarmStep
<1> QED BY <1>1, <1>2, TypeCorrect, PTL DEF Spec

-----------------------------------------------------------------------------
(* The Actuators table follows the hardware. *)

LEMMA TableStep ==
  ASSUME TypeOK, HandOK, TableFollowsHardware, [Next]_vars
  PROVE  TableFollowsHardware'
<1> DEFINE Follows(a) ==
      /\ LogsOf(a) = {} => actuatorTable[a] = State(hw[a])
      /\ \A i \in LogsOf(a) :
           (\A j \in LogsOf(a) : j <= i) => mqToDatabase[i].value = hw[a]
<1> SUFFICES ASSUME pc' # "destroyed", NEW a \in Actuators \ FaultyServos,
                    ~LogDue(a)'
             PROVE  Follows(a)'
  BY DEF TableFollowsHardware
<1>a. pc # "destroyed" /\ ~LogDue(a) => Follows(a)
  BY DEF TableFollowsHardware
<1>b. ASSUME UNCHANGED <<mqToDatabase, hw, actuatorTable>>,
             pc # "destroyed", ~LogDue(a)
      PROVE  Follows(a)'
  BY <1>a, <1>b DEF LogsOf, State
<1>c. ASSUME NEW m \in ActuatorLogs \union OtherMsgs, PostDb(m)
      PROVE  /\ Len(mqToDatabase) \in Nat
             /\ Len(mqToDatabase') = Len(mqToDatabase) + 1
             /\ \A i \in 1..Len(mqToDatabase) :
                  mqToDatabase'[i] = mqToDatabase[i]
             /\ mqToDatabase'[Len(mqToDatabase) + 1] = m
  BY <1>c, AppendElements, LenProperties DEF PostDb, TypeOK
<1>d. ASSUME NEW m \in ActuatorLogs \union OtherMsgs, PostDb(m),
             ~(m \in ActuatorLogs /\ m.id = a),
             pc # "destroyed", ~LogDue(a),
             UNCHANGED <<hw, actuatorTable>>
      PROVE  Follows(a)'
  <2>1. LogsOf(a)' = LogsOf(a)
    BY <1>c, <1>d DEF LogsOf
  <2>2. \A i \in LogsOf(a) : mqToDatabase'[i] = mqToDatabase[i]
    BY <1>c, <1>d DEF LogsOf
  <2> QED BY <1>a, <1>d, <2>1, <2>2 DEF State
<1>1. ASSUME NEW c \in Requests, Submit(c) PROVE Follows(a)'
  BY <1>1, <1>b DEF Submit, LogDue
<1>2. ASSUME NEW m \in OtherMsgs, SendOther(m) PROVE Follows(a)'
  <2>1. m \notin ActuatorLogs
    BY ActuationAssumption
  <2> QED BY <1>2, <1>d, <2>1 DEF SendOther, LogDue
<1>3. CASE RequestStop
  BY <1>3, <1>b DEF RequestStop, LogDue
<1>4. CASE CheckStop
  BY <1>4, <1>b DEF CheckStop, LogDue
<1>5. CASE Receive
  BY <1>5, <1>b DEF Receive, LogDue
<1>6. CASE Apply
  <2>1. cmd \in ActuatorCmd /\ cmd.id # a /\ hw'[a] = hw[a]
    BY <1>6 DEF Apply, LogDue, HandOK, TypeOK
  <2>2. ~LogDue(a) /\ pc # "destroyed"
    BY <1>6 DEF Apply, LogDue
  <2> QED BY <1>6, <1>a, <2>1, <2>2 DEF Apply, LogsOf, State
<1>7. CASE ApplyFails
  <2>1. cmd.id # a /\ hw'[a] = hw[a]
    BY <1>7 DEF ApplyFails, TypeOK
  <2>2. ~LogDue(a) /\ pc # "destroyed"
    BY <1>7 DEF ApplyFails, LogDue
  <2> QED BY <1>7, <1>a, <2>1, <2>2 DEF ApplyFails, LogsOf, State
<1>8. CASE SetTimer
  BY <1>8, <1>b DEF SetTimer, LogDue
<1>9. CASE SendLog
  <2>1. /\ cmd \in ActuatorCmd
        /\ cmd.id \notin FaultyServos => hw[cmd.id] = cmd.value
        /\ ActuatorLog(cmd) \in ActuatorLogs
    BY <1>9, CommandFields DEF SendLog, HandOK
  <2>2. ActuatorLog(cmd).id = cmd.id /\ ActuatorLog(cmd).value = cmd.value
    BY DEF ActuatorLog
  <2>3. CASE cmd.id = a
    <3>1. /\ Len(mqToDatabase) \in Nat
          /\ Len(mqToDatabase') = Len(mqToDatabase) + 1
          /\ mqToDatabase'[Len(mqToDatabase) + 1] = ActuatorLog(cmd)
      BY <1>9, <1>c, <2>1 DEF SendLog
    <3>2. /\ Len(mqToDatabase) + 1 \in LogsOf(a)'
          /\ \A i \in LogsOf(a)' : i \in Nat /\ i <= Len(mqToDatabase) + 1
      BY <2>1, <2>2, <2>3, <3>1 DEF LogsOf
    <3>3. ASSUME NEW i \in LogsOf(a)', \A j \in LogsOf(a)' : j <= i
          PROVE  mqToDatabase'[i].value = hw'[a]
      <4>1. i = Len(mqToDatabase) + 1
        BY <3>1, <3>2, <3>3
      <4> QED BY <1>9, <2>1, <2>2, <2>3, <3>1, <4>1 DEF SendLog
    <3> QED BY <3>2, <3>3
  <2>4. CASE cmd.id # a
    BY <1>9, <1>d, <2>1, <2>2, <2>4 DEF SendLog, LogDue
  <2> QED BY <2>3, <2>4
<1>10. CASE Destroy
  BY <1>10 DEF Destroy
<1>11. CASE Expire
  BY <1>11, <1>b DEF Expire, LogDue
<1>12. CASE AlarmTimerCallback
  BY <1>12, <1>b DEF AlarmTimerCallback, LogDue
<1>13. CASE DbTake
  <2> DEFINE n == Len(mqToDatabase)
  <2>1. /\ n \in Nat \ {0}
        /\ Head(mqToDatabase) = mqToDatabase[1]
        /\ Len(mqToDatabase') = n - 1
        /\ \A i \in 1..(n - 1) : mqToDatabase'[i] = mqToDatabase[i + 1]
    BY <1>13, TailElements DEF DbTake, TypeOK
  <2>2. UNCHANGED <<pc, cmd, hw>> /\ Follows(a)
    BY <1>13, <1>a DEF DbTake, LogDue
  <2>3. \A i \in 1..(n - 1) : i \in LogsOf(a)' <=> i + 1 \in LogsOf(a)
    BY <2>1 DEF LogsOf
  <2>4. /\ \A i \in LogsOf(a)' : i \in 1..(n - 1)
        /\ \A i \in LogsOf(a) : i \in 1..n
    BY <2>1 DEF LogsOf
  <2>5. ASSUME LogsOf(a)' = {} PROVE actuatorTable'[a] = State(hw'[a])
    <3>1. \A i \in LogsOf(a) : i = 1
      <4> SUFFICES ASSUME NEW i \in LogsOf(a), i # 1 PROVE FALSE
        OBVIOUS
      <4>1. i - 1 \in 1..(n - 1) /\ (i - 1) + 1 = i
        BY <2>1, <2>4
      <4> QED BY <2>3, <2>5, <4>1
    <3>2. CASE 1 \in LogsOf(a)
      <4>1. mqToDatabase[1].value = hw[a]
        BY <2>2, <3>1, <3>2
      <4>2. mqToDatabase[1] \in ActuatorLogs /\ mqToDatabase[1].id = a
        BY <3>2 DEF LogsOf
      <4> QED BY <1>13, <2>1, <2>2, <4>1, <4>2
              DEF DbTake, UpdateActuatorTable, TypeOK
    <3>3. CASE 1 \notin LogsOf(a)
      <4>1. LogsOf(a) = {}
        BY <3>1, <3>3
      <4>2. ~(mqToDatabase[1] \in ActuatorLogs /\ mqToDatabase[1].id = a)
        BY <2>1, <3>3 DEF LogsOf
      <4>3. actuatorTable'[a] = actuatorTable[a]
        BY <1>13, <2>1, <4>2 DEF DbTake, UpdateActuatorTable, TypeOK
      <4> QED BY <2>2, <4>1, <4>3
    <3> QED BY <3>2, <3>3
  <2>6. ASSUME NEW i \in LogsOf(a)', \A j \in LogsOf(a)' : j <= i
        PROVE  mqToDatabase'[i].value = hw'[a]
    <3>1. i \in 1..(n - 1) /\ i + 1 \in LogsOf(a)
      BY <2>3, <2>4
    <3>2. ASSUME NEW j \in LogsOf(a) PROVE j <= i + 1
      <4>1. j \in 1..n
        BY <2>4
      <4>2. CASE j = 1
        BY <2>1, <3>1, <4>2
      <4>3. CASE j # 1
        <5>1. j - 1 \in 1..(n - 1) /\ (j - 1) + 1 = j
          BY <2>1, <4>1, <4>3
        <5>2. j - 1 \in LogsOf(a)'
          BY <2>3, <5>1
        <5> QED BY <2>6, <3>1, <4>1, <5>2
      <4> QED BY <4>2, <4>3
    <3> QED BY <2>1, <2>2, <3>1, <3>2
  <2> QED BY <2>5, <2>6
<1>14. CASE UNCHANGED vars
  BY <1>14, <1>b DEF vars, LogDue
<1> QED
  BY <1>1, <1>2, <1>3, <1>4, <1>5, <1>6, <1>7, <1>8, <1>9, <1>10, <1>11,
     <1>12, <1>13, <1>14 DEF Next, tAct

(* While the core runs, what the table and the queued logs say of an       *)
(* actuator whose writes do not fail is what the hardware was last set to. *)
THEOREM TableIsTrue == Spec => []TableFollowsHardware
<1>1. Init => TableFollowsHardware
  <2> SUFFICES ASSUME Init, NEW a \in Actuators
               PROVE  LogsOf(a) = {} /\ actuatorTable[a] = State(hw[a])
    BY DEF TableFollowsHardware
  <2>1. LogsOf(a) = {}
    BY EmptySeq DEF Init, LogsOf
  <2>2. actuatorTable[a] = State(hw[a])
    BY DEF Init, InitialHw, SeededTable, State
  <2> QED BY <2>1, <2>2
<1>2. TypeOK /\ HandOK /\ TableFollowsHardware /\ [Next]_vars
        => TableFollowsHardware'
  BY TableStep
<1> QED BY <1>1, <1>2, TypeCorrect, PTL DEF Spec

-----------------------------------------------------------------------------
(* The doors. What the threads need to know of a servo's commands: once the *)
(* last of them is a lock, tAct's steps leave the door locked or about to   *)
(* be. RoomAccessProofs and VaultAccessProofs add who sends the lock.       *)

LockOf(s) == Cmd(s, 90)

(* The places in mq_to_actuator of the commands to a servo.      *)
ServoCmds(s) == {i \in 1..Len(mqToActuator) : mqToActuator[i].id = s}

(* The door is locked, or will be once tAct has worked off its queue: the  *)
(* last command to it is a lock.                                            *)
ServoSettled(s) ==
  /\ \A i \in ServoCmds(s) :
       \/ mqToActuator[i] = LockOf(s)
       \/ \E j \in ServoCmds(s) : j > i /\ mqToActuator[j] = LockOf(s)
  /\ ServoCmds(s) = {} =>
       IF pc = "apply" /\ cmd.id = s THEN cmd = LockOf(s)
       ELSE hw[s] # 0

(* A lock command settles the door; one to another actuator does not touch it. *)
LEMMA ServoPost ==
  ASSUME NEW s, TypeOK, NEW c \in ActuatorCmd, Post(c)
  PROVE  /\ c = LockOf(s) => ServoSettled(s)'
         /\ c.id # s =>
              /\ ServoCmds(s)' = ServoCmds(s)
              /\ \A i \in ServoCmds(s) : mqToActuator'[i] = mqToActuator[i]
<1> DEFINE n == Len(mqToActuator)
<1>1. /\ n \in Nat
      /\ Len(mqToActuator') = n + 1
      /\ \A i \in 1..n : mqToActuator'[i] = mqToActuator[i]
      /\ mqToActuator'[n + 1] = c
  BY AppendElements, LenProperties DEF Post, TypeOK
<1>2. ASSUME c = LockOf(s) PROVE ServoSettled(s)'
  <2>1. n + 1 \in ServoCmds(s)'
    BY <1>1, <1>2 DEF ServoCmds, LockOf, Cmd
  <2>2. \A i \in ServoCmds(s)' : i = n + 1 \/ n + 1 > i
    BY <1>1 DEF ServoCmds
  <2>3. \A i \in ServoCmds(s)' : \/ mqToActuator'[i] = LockOf(s)
                                \/ \E j \in ServoCmds(s)' :
                                 j > i /\ mqToActuator'[j] = LockOf(s)
    BY <1>1, <1>2, <2>1, <2>2
  <2> QED BY <2>1, <2>3 DEF ServoSettled
<1>3. ASSUME c.id # s
      PROVE  /\ ServoCmds(s)' = ServoCmds(s)
             /\ \A i \in ServoCmds(s) : mqToActuator'[i] = mqToActuator[i]
  BY <1>1, <1>3 DEF ServoCmds
<1> QED BY <1>2, <1>3

LEMMA ServoReceive ==
  ASSUME NEW s, TypeOK, Receive, ServoSettled(s)
  PROVE  ServoSettled(s)'
<1>1. hw' = hw /\ pc = "receive"
  BY DEF Receive
<1>2. ServoCmds(s) = {} => hw[s] # 0
  BY <1>1 DEF ServoSettled
<1>3. CASE mqToActuator = << >>
  <2>1. pc' = "check" /\ mqToActuator' = mqToActuator
    BY <1>3 DEF Receive
  <2>2. ServoCmds(s)' = ServoCmds(s)
    BY <2>1 DEF ServoCmds
  <2> QED BY <1>1, <1>2, <2>1, <2>2 DEF ServoSettled
<1>4. CASE mqToActuator # << >>
  <2> DEFINE n == Len(mqToActuator)
  <2>1. /\ n \in Nat \ {0}
        /\ cmd' = mqToActuator[1]
        /\ Len(mqToActuator') = n - 1
        /\ \A i \in 1..(n - 1) : mqToActuator'[i] = mqToActuator[i + 1]
        /\ pc' = "apply"
    BY <1>4, TailElements DEF Receive, TypeOK
  <2>2. ASSUME NEW i \in ServoCmds(s)'
        PROVE  i \in 1..(n - 1) /\ i + 1 \in ServoCmds(s)
               /\ mqToActuator'[i] = mqToActuator[i + 1]
    <3>1. i \in 1..(n - 1) /\ mqToActuator'[i].id = s
      BY <2>1, <2>2 DEF ServoCmds
    <3>2. i + 1 \in 1..n /\ mqToActuator'[i] = mqToActuator[i + 1]
      BY <2>1, <3>1
    <3> QED BY <3>1, <3>2 DEF ServoCmds
  <2>3. ASSUME NEW j \in ServoCmds(s), j # 1
        PROVE  j - 1 \in ServoCmds(s)' /\ mqToActuator'[j - 1] = mqToActuator[j]
    <3>1. j \in 1..n /\ mqToActuator[j].id = s
      BY DEF ServoCmds
    <3>2. j - 1 \in 1..(n - 1) /\ (j - 1) + 1 = j
      BY <2>1, <2>3, <3>1
    <3>3. mqToActuator'[j - 1] = mqToActuator[j]
      BY <2>1, <3>2
    <3>4. j - 1 \in 1..Len(mqToActuator')
      BY <2>1, <3>2
    <3> QED BY <3>1, <3>3, <3>4 DEF ServoCmds
  <2>4. ASSUME NEW i \in ServoCmds(s)'
        PROVE  \/ mqToActuator'[i] = LockOf(s)
               \/ \E j \in ServoCmds(s)' : j > i /\ mqToActuator'[j] = LockOf(s)
    <3>1. CASE mqToActuator[i + 1] = LockOf(s)
      BY <2>2, <3>1
    <3>2. CASE mqToActuator[i + 1] # LockOf(s)
      <4>1. PICK j \in ServoCmds(s) : j > i + 1 /\ mqToActuator[j] = LockOf(s)
        BY <2>2, <3>2 DEF ServoSettled
      <4>2. i \in Nat /\ j \in Nat
        BY <2>2 DEF ServoCmds
      <4>3. j # 1 /\ j - 1 > i
        BY <4>1, <4>2
      <4> QED BY <2>3, <4>1, <4>3
    <3> QED BY <3>1, <3>2
  <2>5. ASSUME ServoCmds(s)' = {}
        PROVE  IF cmd'.id = s THEN cmd' = LockOf(s)
               ELSE hw'[s] # 0
    <3>1. \A j \in ServoCmds(s) : j = 1
      BY <2>3, <2>5
    <3>2. CASE cmd'.id = s
      <4>1. 1 \in ServoCmds(s)
        BY <2>1, <3>2 DEF ServoCmds
      <4>2. \A j \in ServoCmds(s) : ~(j > 1)
        BY <3>1
      <4> QED BY <2>1, <3>2, <4>1, <4>2 DEF ServoSettled
    <3>3. CASE cmd'.id # s
      <4>1. 1 \notin ServoCmds(s)
        BY <2>1, <3>3 DEF ServoCmds
      <4> QED BY <1>1, <1>2, <3>1, <3>3, <4>1
    <3> QED BY <3>2, <3>3
  <2> QED BY <2>1, <2>4, <2>5 DEF ServoSettled
<1> QED BY <1>3, <1>4

(* tAct, the timer and its callback keep a settled door settled. *)
LEMMA ServoActStep ==
  ASSUME NEW s \in Servos, TypeOK, HandOK, tAct \/ Expire \/ AlarmTimerCallback,
         s \notin FaultyServos, ServoSettled(s)
  PROVE  ServoSettled(s)'
<1>1. CASE CheckStop \/ SetTimer \/ SendLog \/ Expire
  <2>1. /\ UNCHANGED <<mqToActuator, hw>>
        /\ (pc # "apply" /\ pc' # "apply") \/ UNCHANGED <<pc, cmd>>
    BY <1>1 DEF CheckStop, SetTimer, SendLog, Expire
  <2>2. ServoCmds(s)' = ServoCmds(s)
    BY <2>1 DEF ServoCmds
  <2> QED BY <2>1, <2>2 DEF ServoSettled
<1>2. CASE Receive
  BY <1>2, ServoReceive
<1>3. CASE Apply
  <2>1. /\ UNCHANGED mqToActuator
        /\ pc = "apply" /\ pc' # "apply"
        /\ hw' = [hw EXCEPT ![cmd.id] = cmd.value]
    BY <1>3 DEF Apply
  <2>2. ServoCmds(s)' = ServoCmds(s)
    BY <2>1 DEF ServoCmds
  <2>3. cmd = LockOf(s) => cmd.value = 90
    BY DEF LockOf, Cmd
  <2>4. s \in Actuators
    BY DEF Actuators, Servos
  <2>5. ServoCmds(s) = {} => hw'[s] # 0
    BY <2>1, <2>3, <2>4 DEF ServoSettled, TypeOK
  <2> QED BY <2>1, <2>2, <2>5 DEF ServoSettled
<1>4. CASE ApplyFails
  <2>1. /\ UNCHANGED mqToActuator
        /\ pc = "apply" /\ pc' # "apply"
        /\ cmd.id # s
        /\ hw' \in {hw, [hw EXCEPT ![cmd.id] = cmd.value],
                   [hw EXCEPT ![cmd.id] = 90]}
    BY <1>4 DEF ApplyFails
  <2>2. ServoCmds(s)' = ServoCmds(s)
    BY <2>1 DEF ServoCmds
  <2>3. s \in Actuators
    BY DEF Actuators, Servos
  <2>4. hw'[s] = hw[s]
    BY <2>1, <2>3 DEF TypeOK
  <2> QED BY <2>1, <2>2, <2>4 DEF ServoSettled
<1>5. CASE AlarmTimerCallback
  <2>1. Post(AlarmOff) /\ UNCHANGED <<pc, cmd, hw>>
    BY <1>5 DEF AlarmTimerCallback
  <2>2. AlarmOff.id # s
    BY DEF AlarmOff, Cmd, Servos
  <2>3. ServoCmds(s)' = ServoCmds(s)
        /\ \A i \in ServoCmds(s) : mqToActuator'[i] = mqToActuator[i]
    BY <2>1, <2>2, ServoPost, CommandTypes
  <2> QED BY <2>1, <2>3 DEF ServoSettled
<1> QED BY <1>1, <1>2, <1>3, <1>4, <1>5 DEF tAct

(* A step that leaves tAct and its queue alone. *)
LEMMA ServoQuiet ==
  ASSUME NEW s, UNCHANGED <<mqToActuator, pc, cmd, hw>>, ServoSettled(s)
  PROVE  ServoSettled(s)'
<1>1. ServoCmds(s)' = ServoCmds(s)
  BY DEF ServoCmds
<1> QED BY <1>1 DEF ServoSettled

LEMMA ServoInit ==
  ASSUME Init, NEW s \in Servos
  PROVE  ServoSettled(s)
<1>1. mqToActuator = << >> /\ pc = "check" /\ hw = InitialHw
  BY DEF Init
<1>2. ServoCmds(s) = {}
  BY <1>1, EmptySeq DEF ServoCmds
<1>3. hw[s] = 90
  BY <1>1 DEF InitialHw, Actuators
<1> QED BY <1>1, <1>2, <1>3 DEF ServoSettled

(* A free door that is settled has its lock command under way. *)
LEMMA SettledIsLocking ==
  ASSUME NEW s, ServoSettled(s), hw[s] = 0
  PROVE  \/ \E i \in 1..Len(mqToActuator) : mqToActuator[i] = LockOf(s)
         \/ pc = "apply" /\ cmd = LockOf(s)
<1>1. CASE ServoCmds(s) = {}
  BY <1>1 DEF ServoSettled
<1>2. CASE ServoCmds(s) # {}
  <2>1. PICK i \in ServoCmds(s) : mqToActuator[i] = LockOf(s)
    BY <1>2 DEF ServoSettled
  <2> QED BY <2>1 DEF ServoCmds
<1> QED BY <1>1, <1>2

(* Once told to stop, the core stays so, and only then does tAct end. *)
LEMMA StopStep ==
  ASSUME [Next]_vars, pc \in {"done", "destroyed"} => stopRequested
  PROVE  /\ pc' \in {"done", "destroyed"} => stopRequested'
         /\ stopRequested => stopRequested'
BY DEF Next, Submit, SendOther, RequestStop, tAct, CheckStop, Receive, Apply,
   ApplyFails, SetTimer, SendLog, Destroy, Expire, AlarmTimerCallback, DbTake, vars
=============================================================================
