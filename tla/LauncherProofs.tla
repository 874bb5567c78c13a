--------------------------- MODULE LauncherProofs ---------------------------
(***************************************************************************)
(* Proofs about Launcher, for any number of starts, signals and crashes:   *)
(* its types, the order in which the daemons end, the one set of queues    *)
(* that all living processes share and who unlinks it, the alarm and its   *)
(* row.                                                                    *)
(***************************************************************************)
EXTENDS Launcher, SequenceTheorems, TLAPS

USE LauncherAssumption

-----------------------------------------------------------------------------
(* The inductive invariant. *)

Dead(p)    == at[p] \in {"none", "gone"}
StartingUp == launcherAt \in {"create", "launch", "waitpid", "await", "giveup"}
Waiting    == launcherAt \in {"test", "pause", "paused"}
Away       == launcherAt \in {"off", "create"}

(* A process has not existed before its launch. *)
NotYet(i) == \/ StartingUp /\ i > step
             \/ launcherAt \in {"create", "launch"} /\ i = step

StartsInv ==
  /\ launcherAt # "off" => starts # 0
  /\ \A f \in failed : f <= starts
  /\ \A p \in Processes : p[1] > starts => at[p] = "none"
  /\ \A i \in 1..3 : NotYet(i) => at[<<starts, Order[i]>>] = "none"

(* What the launcher knows, and when its start has failed. *)
KnownInv ==
  /\ \A d \in Daemons : known[d] => starts # 0
  /\ StartingUp => starts \notin failed
  /\ StartingUp => \A i \in 1..3 : known[Order[i]] <=> i < step
  /\ launcherAt = "create" => step = 1
  /\ Waiting => step = 3
  /\ Waiting \/ launcherAt = "unlink" => starts \notin failed
  /\ starts \notin failed /\ ~StartingUp /\ launcherAt # "off"
       => \A d \in Daemons : known[d]

(* Who owns the names, and that the processes of earlier starts have ended  *)
(* when the launcher does.                                                  *)
QueueInv ==
  /\ names = 0 => Away /\ \A p \in Processes : Dead(p)
  /\ owner /\ ~Away => names = starts /\ \A p \in Processes : p[1] # starts => Dead(p)
  /\ names # 0 => \/ names \in failed
                  \/ owner /\ ~Away

-----------------------------------------------------------------------------
LEMMA OrderFacts ==
  /\ \A i \in 1..3 : Order[i] \in Daemons
  /\ \A i, j \in 1..3 : Order[i] = Order[j] => i = j
  /\ \A d \in Daemons : \E i \in 1..3 : Order[i] = d
  /\ Database \in Daemons /\ Web \in Daemons /\ Core \in Daemons
  /\ Database # Web /\ Database # Core /\ Web # Core
BY DEF Order, Daemons, Database, Web, Core

LEMMA ThisIsAProcess ==
  ASSUME LauncherTypeOK, StartsInv, launcherAt # "off"
  PROVE  /\ This \in Processes /\ This[1] = starts /\ This[2] = Order[step]
         /\ starts \in Starts /\ step \in 1..3
         /\ \A i \in 1..3 : /\ <<starts, Order[i]>> \in Processes
                            /\ <<starts, Order[i]>> = This <=> i = step
         /\ \A p \in Processes : p[1] = starts => \E i \in 1..3 : p = <<starts, Order[i]>>
BY OrderFacts DEF LauncherTypeOK, StartsInv, This, Processes, Starts

(* A step of a daemon is seen by the launcher in its place only, and it     *)
(* ends what lives and starts nothing that does not.                        *)
LEMMA DaemonStep ==
  ASSUME LauncherTypeOK, NEW p \in Processes, daemon(p)
  PROVE  /\ UNCHANGED <<launcherVars, names, owner>>
         /\ \A q \in Processes : q # p => at'[q] = at[q] /\ opened'[q] = opened[q]
         /\ Dead(p) => at'[p] = at[p] /\ opened'[p] = opened[p]
         /\ at'[p] \in {"none", "exec", "starting"} => at'[p] = at[p] /\ opened'[p] = opened[p]
         /\ at[p] \in {"exec", "starting"} /\ at'[p] \in Running => opened'[p] = names
         /\ at[p] = "starting" \/ at'[p] = "gone" \/ opened'[p] = opened[p]
<1> DEFINE Moves(v, o) == /\ UNCHANGED <<launcherVars, names, owner>>
                          /\ at' = [at EXCEPT ![p] = v]
                          /\ opened' = [opened EXCEPT ![p] = o]
<1>a. at \in [Processes -> Places] /\ opened \in [Processes -> 0..MaxStarts]
  BY DEF LauncherTypeOK
<1>1. CASE ~Dead(p) /\ Moves("gone", 0)  BY <1>a, <1>1 DEF Dead, Running, Alive
<1>2. CASE at[p] = "starting" /\ Moves("opened", names)  BY <1>a, <1>2 DEF Dead
<1>3. CASE \E v \in Running : at[p] \in Running /\ Moves(v, opened[p])
  BY <1>a, <1>3 DEF Running, Alive, Places, Dead
<1>b. CASE at[p] = "exec" /\ Moves("gone", opened[p])  BY <1>a, <1>b DEF Running, Alive, Places, Dead
<1>4. CASE UNCHANGED <<launcherVars, names, owner, at, opened>>
  BY <1>4 DEF Running, Alive, Places, Dead
<1> USE DEF queueVars, daemonVars, Running, Alive, Places, IsGone, Dies, Dead
<1>5. CASE Open(p)  BY <1>a, <1>2, <1>5 DEF Open
<1>6. CASE Tell(p)
  <2>1. CASE Listens(p) \/ p[2] = Web
    <3>1. at[p] = "opened" /\ opened' = opened /\ UNCHANGED <<launcherVars, names, owner>>
      BY <1>6, <2>1 DEF Tell
    <3>2. opened' = [opened EXCEPT ![p] = opened[p]]  BY <1>a, <3>1
    <3>3. \E v \in {"test", "booted"} : at' = [at EXCEPT ![p] = v]
      BY <1>6, <2>1 DEF Tell
    <3>4. QED  BY <1>3, <3>1, <3>2, <3>3
  <2>2. CASE ~(Listens(p) \/ p[2] = Web)  BY <1>1, <1>6, <2>2 DEF Tell
  <2>3. QED  BY <2>1, <2>2
<1>7. CASE FailToStart(p)
  <2>1. at[p] \in {"starting", "opened"}  BY <1>7 DEF FailToStart
  <2>2. QED  BY <1>1, <1>7, <2>1 DEF FailToStart
<1>8. CASE Crash(p)  BY <1>1, <1>8 DEF Crash
<1>9. CASE Switch(p)  BY <1>4, <1>9 DEF Switch
<1>10. CASE Log(p)  BY <1>4, <1>10 DEF Log
<1>11. CASE Finish(p)
  <2>1. at[p] = "ending"  BY <1>11 DEF Finish
  <2>2. QED  BY <1>1, <1>11, <2>1 DEF Finish
<1>12. CASE \/ InstallHandlers(p) \/ TestFlag(p) \/ CorePauses(p)
            \/ DatabaseReceives(p) \/ DatabaseHandles(p)
  <2>1. /\ at[p] \in {"booted", "test", "pausing", "serving", "handling"}
        /\ opened' = opened /\ UNCHANGED <<launcherVars, names, owner>>
    BY <1>12 DEF InstallHandlers, TestFlag, CorePauses, DatabaseReceives, DatabaseHandles
  <2>2. opened' = [opened EXCEPT ![p] = opened[p]]  BY <1>a, <2>1
  <2>3. \E v \in {"test", "ending", "pausing", "serving", "handling"} :
          at' = [at EXCEPT ![p] = v]
    BY <1>12 DEF InstallHandlers, TestFlag, CorePauses, DatabaseReceives, DatabaseHandles
  <2>4. QED  BY <1>3, <2>1, <2>2, <2>3
<1>14. CASE FailToFork(p)  BY <1>a, <1>b, <1>14 DEF FailToFork
<1>13. QED  BY <1>14, <1>5, <1>6, <1>7, <1>8, <1>9, <1>10, <1>11, <1>12 DEF daemon

-----------------------------------------------------------------------------
(* The types. *)

LEMMA EmptyLog == <<>> \in Seq(BOOLEAN) /\ Len(<<>>) = 0
OBVIOUS

LEMMA TypeOfDeath ==
  ASSUME LauncherTypeOK, NEW p, Dies(p)
  PROVE  /\ at' \in [Processes -> Places]
         /\ stopFlag' \in [Processes -> BOOLEAN]
         /\ opened' \in [Processes -> 0..MaxStarts]
         /\ inHand' \in [Processes -> BOOLEAN]
         /\ alarm' \in BOOLEAN /\ unlogged' \subseteq Starts
         /\ tells' \in BOOLEAN /\ killed' \in BOOLEAN /\ row' \in BOOLEAN
<1>1. killed' \in BOOLEAN /\ tells' \in BOOLEAN  BY DEF Dies
<1>6. inHand' \in [Processes -> BOOLEAN]  BY DEF Dies, IsGone, LauncherTypeOK
<1>2. unlogged' \subseteq Starts  BY DEF Dies, LauncherTypeOK
<1>3. at' \in [Processes -> Places]  BY DEF Dies, IsGone, LauncherTypeOK, Places
<1>4. 0 \in 0..MaxStarts  BY DEF LauncherAssumption
<1>5. QED  BY <1>1, <1>2, <1>3, <1>4, <1>6 DEF Dies, IsGone, LauncherTypeOK

LEMMA TypeOfLauncher ==
  ASSUME LauncherTypeOK, StartsInv, Start \/ signalHandler \/ main \/ Forks
  PROVE  LauncherTypeOK'
<1> USE DEF LauncherTypeOK, LauncherPlaces, Places, daemonVars, queueVars, alarmVars
<1>0. MaxStarts \in Nat \ {0} /\ MaxLogs \in Nat \ {0}  BY DEF LauncherAssumption
<1>1. CASE Start
  <2>1. starts' \in 0..MaxStarts  BY <1>0, <1>1 DEF Start
  <2>2. known' \in [Daemons -> BOOLEAN] /\ told' \in [Processes -> BOOLEAN]  BY <1>1 DEF Start
  <2>3. /\ launcherAt' = "create" /\ step' = 1 /\ gStop' = FALSE
        /\ UNCHANGED <<failed, signals, at, stopFlag, crashes, names, owner, opened, logs,
                       inHand, alarm, unlogged, tells, killed, row>>
    BY <1>1 DEF Start
  <2>4. launcherAt' \in LauncherPlaces /\ step' \in 1..3  BY <2>3
  <2>5. (logs \in Seq(BOOLEAN) /\ Len(logs) <= MaxLogs)'  BY <2>3
  <2>6. gStop' \in BOOLEAN  BY <2>3
  <2>7. QED  BY <2>1, <2>2, <2>3, <2>4, <2>5, <2>6
<1>2. CASE signalHandler  BY <1>2 DEF signalHandler
<1>3. CASE CreateQueues
  <2>1. owner' \in BOOLEAN  BY <1>3 DEF CreateQueues
  <2>2. /\ names' \in 0..MaxStarts
        /\ logs' \in Seq(BOOLEAN) /\ Len(logs') <= MaxLogs
    <3>1. CASE names = 0  BY <1>0, <1>3, <3>1, EmptyLog DEF CreateQueues
    <3>2. CASE names # 0  BY <1>3, <3>2 DEF CreateQueues
    <3>3. QED  BY <3>1, <3>2
  <2>3. QED  BY <1>3, <2>1, <2>2 DEF CreateQueues
<1>4. CASE Launch  BY <1>4 DEF Launch
<1>16. CASE Waited  BY <1>16 DEF Waited
<1>17. CASE Forks  BY <1>17 DEF Forks
<1>5. CASE Started
  <2>1. step' \in 1..3 /\ launcherAt' \in LauncherPlaces  BY <1>5 DEF Started
  <2>2. known' \in [Daemons -> BOOLEAN]  BY <1>5 DEF Started
  <2>3. QED  BY <1>5, <2>1, <2>2 DEF Started
<1>6. CASE NotStarted  BY <1>6 DEF NotStarted
<1>7. CASE GiveUp  BY <1>7 DEF GiveUp, StartsInv, Starts
<1>8. CASE TestStop  BY <1>8 DEF TestStop
<1>9. CASE Pause  BY <1>9 DEF Pause
<1>10. CASE Term
  <2>1. CASE at[This] = "booted"
    <3>1. Dies(This)  BY <1>10, <2>1 DEF Term, Terminate
    <3>2. QED  BY <1>10, <3>1, TypeOfDeath DEF Term
  <2>2. CASE at[This] # "booted"
    <3>1. /\ at' = [at EXCEPT ![This] = IF This[2] = Core /\ @ = "serving" THEN "test" ELSE @]
          /\ stopFlag' = [stopFlag EXCEPT ![This] = TRUE]
          /\ UNCHANGED <<starts, step, failed, gStop, signals, known, told, crashes, names,
                         owner, logs, opened, inHand, alarm, unlogged, tells, killed, row>>
          /\ launcherAt' = "ack"
      BY <1>10, <2>2 DEF Term, Terminate
    <3>2. This \in Processes  BY <1>10, ThisIsAProcess DEF Term
    <3>3. at' \in [Processes -> Places]  BY <3>1, <3>2
    <3>4. QED  BY <3>1, <3>3
  <2>3. QED  BY <2>1, <2>2
<1>11. CASE NothingToStop  BY <1>11 DEF NothingToStop, AfterStop
<1>12. CASE Acknowledged  BY <1>12 DEF Acknowledged, AfterStop
<1>13. CASE StopTimeout
  <2>1. Dies(This)  BY <1>13 DEF StopTimeout
  <2>2. step' \in 1..3 /\ launcherAt' \in LauncherPlaces  BY <1>13 DEF StopTimeout, AfterStop
  <2>3. QED  BY <1>13, <2>1, <2>2, TypeOfDeath DEF StopTimeout
<1>14. CASE Unlink
  <2>1. /\ names' \in 0..MaxStarts
        /\ logs' \in Seq(BOOLEAN) /\ Len(logs') <= MaxLogs
    <3>1. CASE owner  BY <1>0, <1>14, <3>1, EmptyLog DEF Unlink
    <3>2. CASE ~owner  BY <1>14, <3>2 DEF Unlink
    <3>3. QED  BY <3>1, <3>2
  <2>2. QED  BY <1>14, <2>1 DEF Unlink
<1>15. QED
  BY <1>1, <1>2, <1>3, <1>4, <1>5, <1>6, <1>7, <1>8, <1>9, <1>10, <1>11, <1>12, <1>13, <1>14, <1>16,
     <1>17
  DEF main

LEMMA TypeOfDaemon ==
  ASSUME LauncherTypeOK, NEW p \in Processes, daemon(p)
  PROVE  LauncherTypeOK'
<1> USE DEF LauncherTypeOK, LauncherPlaces, Places, launcherVars, daemonVars, queueVars,
            alarmVars, IsGone
<1>0. p[1] \in Starts  BY DEF Processes
<1>1. CASE Open(p)  BY <1>1 DEF Open
<1>2. CASE Tell(p)
  <2>1. CASE Listens(p) \/ p[2] = Web
    <3>1. Listens(p) \in BOOLEAN  BY DEF Listens
    <3>2. told' \in [Processes -> BOOLEAN]  BY <1>2, <2>1, <3>1 DEF Tell
    <3>3. QED  BY <1>2, <2>1, <3>2 DEF Tell
  <2>2. CASE ~(Listens(p) \/ p[2] = Web)
    <3>1. Dies(p)  BY <1>2, <2>2 DEF Tell
    <3>2. UNCHANGED <<launcherAt, starts, step, failed, gStop, signals, known, told, crashes,
                      names, owner, logs>>
      BY <1>2, <2>2 DEF Tell
    <3>3. QED  BY <3>1, <3>2, TypeOfDeath
  <2>3. QED  BY <2>1, <2>2
<1>3. CASE FailToStart(p)
  <2>1. alarm' \in BOOLEAN /\ tells' \in BOOLEAN
    <3>1. CASE p[2] = Core  BY <1>3, <3>1 DEF FailToStart
    <3>2. CASE p[2] # Core  BY <1>3, <3>2 DEF FailToStart
    <3>3. QED  BY <3>1, <3>2
  <2>2. QED  BY <1>3, <2>1 DEF FailToStart
<1>4. CASE InstallHandlers(p)  BY <1>4 DEF InstallHandlers
<1>5. CASE Crash(p)
  <2>1. Dies(p)  BY <1>5 DEF Crash
  <2>2. crashes' \in 0..MaxCrashes  BY <1>5 DEF Crash, LauncherAssumption
  <2>3. QED  BY <1>5, <2>1, <2>2, TypeOfDeath DEF Crash
<1>6. CASE TestFlag(p)  BY <1>6 DEF TestFlag
<1>7. CASE CorePauses(p)  BY <1>7 DEF CorePauses
<1>8. CASE DatabaseReceives(p)
  <2>1. logs # <<>> => Head(logs) \in BOOLEAN /\ Tail(logs) \in Seq(BOOLEAN)
                       /\ Len(Tail(logs)) <= MaxLogs
    OBVIOUS
  <2>2. logs' \in Seq(BOOLEAN) /\ Len(logs') <= MaxLogs
    BY <1>8, <2>1 DEF DatabaseReceives
  <2>3. inHand' \in [Processes -> BOOLEAN]  BY <1>8, <2>1 DEF DatabaseReceives
  <2>4. tells' \in BOOLEAN  BY <1>8 DEF DatabaseReceives
  <2>5. at' \in [Processes -> Places]  BY <1>8 DEF DatabaseReceives
  <2>6. QED  BY <1>8, <2>2, <2>3, <2>4, <2>5 DEF DatabaseReceives
<1>13. CASE DatabaseHandles(p)
  <2>1. inHand' \in [Processes -> BOOLEAN] /\ row' \in BOOLEAN  BY <1>13 DEF DatabaseHandles
  <2>2. tells' \in BOOLEAN  BY <1>13 DEF DatabaseHandles
  <2>3. QED  BY <1>13, <2>1, <2>2 DEF DatabaseHandles
<1>14. CASE FailToFork(p)  BY <1>14 DEF FailToFork
<1>9. CASE Switch(p)  BY <1>0, <1>9 DEF Switch
<1>10. CASE Log(p)
  <2>1. logs' \in Seq(BOOLEAN) /\ Len(logs') <= MaxLogs  BY <1>10 DEF Log
  <2>2. QED  BY <1>10, <2>1 DEF Log
<1>11. CASE Finish(p)
  <2>1. alarm' \in BOOLEAN /\ tells' \in BOOLEAN  BY <1>11 DEF Finish
  <2>2. QED  BY <1>11, <2>1 DEF Finish
<1>12. QED  BY <1>1, <1>2, <1>3, <1>4, <1>5, <1>6, <1>7, <1>8, <1>9, <1>10, <1>11, <1>13,
               <1>14 DEF daemon

-----------------------------------------------------------------------------
(* The processes of a start, and what the launcher knows of them. *)

(* What the launcher does to the processes: it launches This, finds that it *)
(* has forked, signals it or kills it.                                      *)
LEMMA LauncherStep ==
  ASSUME LauncherTypeOK, StartsInv, Start \/ signalHandler \/ main \/ Forks
  PROVE  /\ \/ launcherAt = "off" /\ UNCHANGED <<at, opened>>
            \/ \A q \in Processes : q # This => at'[q] = at[q] /\ opened'[q] = opened[q]
         /\ \A q \in Processes :
              \/ at'[q] = at[q] /\ opened'[q] = opened[q]
              \/ Launch /\ q = This /\ at'[q] = "exec"
              \/ /\ Forks /\ q = This /\ opened'[q] = opened[q]
                 /\ at[q] = "exec" /\ at'[q] = "starting"
              \/ launcherAt \in {"term", "ack"} /\ q = This /\ at[q] # "gone" /\ at'[q] = "gone"
              \/ /\ Term /\ q = This /\ opened'[q] = opened[q]
                 /\ at[q] = "serving" /\ at'[q] = "test"
<1>a. at \in [Processes -> Places] /\ opened \in [Processes -> 0..MaxStarts]
  BY DEF LauncherTypeOK
<1>1. CASE Launch  BY <1>a, <1>1 DEF Launch, queueVars
<1>6. CASE Forks  BY <1>a, <1>6 DEF Forks, queueVars
<1>2. CASE Term
  <2>1. This \in Processes  BY <1>2, ThisIsAProcess DEF Term
  <2>2. CASE at[This] = "booted"
    <3>1. Dies(This)  BY <1>2, <2>2 DEF Term, Terminate
    <3>2. QED  BY <1>a, <1>2, <2>1, <2>2, <3>1 DEF Term, Dies, IsGone
  <2>3. CASE at[This] # "booted"
    <3>1. /\ at' = [at EXCEPT ![This] = IF This[2] = Core /\ @ = "serving" THEN "test" ELSE @]
          /\ opened' = opened
      BY <1>2, <2>3 DEF Term, Terminate
    <3>2. QED  BY <1>a, <1>2, <2>1, <3>1 DEF Term
  <2>4. QED  BY <2>2, <2>3
<1>3. CASE StopTimeout
  <2>1. This \in Processes  BY <1>3, ThisIsAProcess DEF StopTimeout
  <2>2. QED  BY <1>a, <1>3, <2>1 DEF StopTimeout, Dies, IsGone
<1>4. CASE \/ Start \/ signalHandler \/ CreateQueues \/ Waited \/ Started \/ NotStarted \/ GiveUp
           \/ TestStop \/ Pause \/ NothingToStop \/ Acknowledged \/ Unlink
  BY <1>4 DEF Start, signalHandler, CreateQueues, Waited, Started, NotStarted, GiveUp, TestStop, Pause,
              NothingToStop, Acknowledged, Unlink, daemonVars, queueVars
<1>5. QED  BY <1>1, <1>2, <1>3, <1>4, <1>6 DEF main

LEMMA StartsStep ==
  ASSUME LauncherTypeOK, StartsInv, [Next]_vars
  PROVE  StartsInv'
<1> USE DEF StartsInv, NotYet, StartingUp
<1>1. CASE UNCHANGED vars
  BY <1>1 DEF vars, launcherVars, daemonVars
<1>2. CASE \E p \in Processes : daemon(p)
  <2>1. PICK p \in Processes : daemon(p)  BY <1>2
  <2>2. /\ UNCHANGED launcherVars
        /\ \A q \in Processes : at[q] = "none" => at'[q] = "none"
    BY <2>1, DaemonStep DEF Dead
  <2>3. launcherAt # "off" => \A i \in 1..3 : <<starts, Order[i]>> \in Processes
    BY ThisIsAProcess
  <2>4. QED  BY <2>2, <2>3 DEF launcherVars
<1>3. CASE Start
  <2>1. /\ starts' = starts + 1 /\ launcherAt' = "create" /\ step' = 1
        /\ UNCHANGED <<failed, at>>
    BY <1>3 DEF Start
  <2>2. starts \in Nat /\ starts' \in Starts  BY <1>3, <2>1 DEF Start, LauncherTypeOK, LauncherAssumption, Starts
  <2>3. \A i \in 1..3 : /\ <<starts', Order[i]>> \in Processes
                        /\ <<starts', Order[i]>>[1] = starts'
    BY <2>2, OrderFacts DEF Processes
  <2>4. \A p \in Processes : p[1] \in Nat  BY DEF Processes, Starts
  <2>5. \A i \in 1..3 : at'[<<starts', Order[i]>>] = "none"  BY <2>1, <2>2, <2>3
  <2>6. \A f \in failed : f \in Nat  BY DEF LauncherTypeOK, Starts
  <2>7. QED  BY <2>1, <2>2, <2>4, <2>5, <2>6
<1>4. CASE signalHandler \/ main \/ Forks
  <2>1. launcherAt # "off" /\ starts' = starts
    BY <1>4 DEF signalHandler, main, CreateQueues, Launch, Waited, Forks, Started, NotStarted, GiveUp, TestStop,
       Pause, Term, NothingToStop, Acknowledged, StopTimeout, AfterStop, Unlink
  <2>2. starts \in Nat /\ step \in 1..3  BY DEF LauncherTypeOK
  <2>3. \A f \in failed' : f <= starts
    BY <1>4, <2>2 DEF signalHandler, main, CreateQueues, Launch, Waited, Forks, Started, NotStarted, GiveUp, TestStop,
       Pause, Term, NothingToStop, Acknowledged, StopTimeout, AfterStop, Unlink
  <2>4. \A p \in Processes : p[1] > starts => at'[p] = "none"
    <3>1. This[1] = starts  BY DEF This
    <3>2. QED  BY <1>4, <2>1, <2>2, <3>1, LauncherStep
  <2>5. \A i \in 1..3 : NotYet(i)' => NotYet(i) /\ (Launch => <<starts, Order[i]>> # This)
    <3>1. CASE Launch  BY <2>1, <2>2, <3>1, ThisIsAProcess DEF Launch
    <3>2. CASE Started  BY <2>1, <2>2, <3>2 DEF Started, Launch
    <3>3. CASE CreateQueues  BY <2>1, <2>2, <3>3 DEF CreateQueues, Launch
    <3>4. CASE \/ signalHandler \/ Waited \/ Forks \/ NotStarted \/ GiveUp \/ TestStop
               \/ Pause \/ Term \/ NothingToStop \/ Acknowledged \/ StopTimeout \/ Unlink
      BY <2>1, <2>2, <3>4 DEF signalHandler, Waited, Forks, NotStarted, GiveUp, TestStop, Pause, Term,
         NothingToStop, Acknowledged, StopTimeout, AfterStop, Unlink, Launch
    <3>5. QED  BY <1>4, <3>1, <3>2, <3>3, <3>4 DEF main
  <2>6. \A i \in 1..3 : NotYet(i)' => at'[<<starts, Order[i]>>] = "none"
    <3> SUFFICES ASSUME NEW i \in 1..3, NotYet(i)'
                 PROVE  at'[<<starts, Order[i]>>] = "none"
      OBVIOUS
    <3>1. <<starts, Order[i]>> \in Processes  BY <2>1, ThisIsAProcess
    <3>2. at[<<starts, Order[i]>>] = "none" /\ launcherAt \notin {"term", "ack"}
      BY <2>5
    <3>3. QED  BY <1>4, <2>5, <3>1, <3>2, LauncherStep
  <2>7. QED  BY <2>1, <2>3, <2>4, <2>6
<1>5. QED  BY <1>1, <1>2, <1>3, <1>4 DEF Next

LEMMA KnownStep ==
  ASSUME LauncherTypeOK, StartsInv, KnownInv, [Next]_vars
  PROVE  KnownInv'
<1> USE DEF KnownInv, StartingUp, Waiting
<1>0. /\ step \in 1..3 /\ starts \in Nat /\ known \in [Daemons -> BOOLEAN]
      /\ \A f \in failed : f \in Nat
  BY DEF LauncherTypeOK, Starts
<1>1. CASE UNCHANGED vars  BY <1>1 DEF vars, launcherVars
<1>2. CASE \E p \in Processes : daemon(p)  BY <1>2, DaemonStep DEF launcherVars
<1>3. CASE signalHandler  BY <1>3 DEF signalHandler
<1>4. CASE \/ CreateQueues \/ Launch \/ Waited \/ Forks \/ NotStarted \/ TestStop \/ Pause
           \/ Term \/ Unlink
  BY <1>4 DEF CreateQueues, Launch, Waited, Forks, NotStarted, TestStop, Pause, Term, Unlink
<1>5. CASE Started
  <2>0. starts # 0  BY <1>5 DEF Started, StartsInv
  <2>1. \A i \in 1..3 : known'[Order[i]] <=> (i = step \/ known[Order[i]])
    BY <1>0, <1>5, OrderFacts DEF Started
  <2>2. CASE step < 3  BY <1>0, <1>5, <2>0, <2>1, <2>2 DEF Started
  <2>3. CASE step = 3
    <3>1. \A d \in Daemons : known'[d]  BY <1>5, <2>1, <2>3, OrderFacts DEF Started
    <3>2. QED  BY <1>5, <2>0, <2>3, <3>1 DEF Started
  <2>4. QED  BY <1>0, <2>2, <2>3
<1>6. CASE GiveUp  BY <1>0, <1>6 DEF GiveUp
<1>7. CASE NothingToStop \/ Acknowledged \/ StopTimeout
  BY <1>7 DEF NothingToStop, Acknowledged, StopTimeout, AfterStop
<1>8. CASE Start
  <2>1. \A d \in Daemons : ~known'[d]  BY <1>8 DEF Start
  <2>2. starts' \notin failed'  BY <1>0, <1>8 DEF Start, StartsInv
  <2>3. QED  BY <1>8, <2>1, <2>2, OrderFacts DEF Start
<1>9. QED  BY <1>1, <1>2, <1>3, <1>4, <1>5, <1>6, <1>7, <1>8 DEF Next, main

LEMMA OrderStep ==
  ASSUME LauncherTypeOK, StartsInv, KnownInv, StopsInOrder, [Next]_vars
  PROVE  StopsInOrder'
<1> USE DEF StopsInOrder
<1>0. step \in 1..3 /\ starts \in 0..MaxStarts /\ known \in [Daemons -> BOOLEAN]
  BY DEF LauncherTypeOK
<1>a. \A i \in 1..3 : known[Order[i]] => <<starts, Order[i]>> \in Processes
  BY <1>0, OrderFacts DEF KnownInv, Processes, Starts, LauncherAssumption
<1>1. CASE UNCHANGED vars  BY <1>1 DEF vars, launcherVars, daemonVars
<1>2. CASE \E p \in Processes : daemon(p)
  <2>1. UNCHANGED launcherVars /\ \A q \in Processes : at[q] = "gone" => at'[q] = "gone"
    BY <1>2, DaemonStep DEF Dead
  <2>2. QED  BY <1>a, <2>1 DEF launcherVars
<1>3. CASE Start  BY <1>3 DEF Start
<1>4. CASE signalHandler \/ main \/ Forks
  <2>1. launcherAt # "off" /\ starts' = starts
    BY <1>4 DEF signalHandler, main, CreateQueues, Launch, Waited, Forks, Started, NotStarted, GiveUp, TestStop,
       Pause, Term, NothingToStop, Acknowledged, StopTimeout, AfterStop, Unlink
  <2>2. \A q \in Processes : at[q] = "gone" => at'[q] = "gone" \/ Launch
    BY <1>4, LauncherStep
  <2>3. CASE CreateQueues \/ Launch \/ Waited \/ Forks \/ Started \/ NotStarted \/ Pause
    BY <2>3 DEF CreateQueues, Launch, Waited, Forks, Started, NotStarted, Pause
  <2>4. CASE TestStop  BY <1>0, <2>4 DEF TestStop, KnownInv, Waiting
  <2>5. CASE GiveUp  BY <1>0, <2>5 DEF GiveUp, KnownInv, StartingUp
  <2>6. CASE signalHandler \/ Term \/ Unlink
    <3>1. \A i \in 1..3 : /\ known'[Order[i]] <=> known[Order[i]]
                          /\ launcherAt' \in {"term", "ack"} /\ i > step' =>
                               launcherAt \in {"term", "ack"} /\ i > step
                          /\ launcherAt' \in {"off", "unlink"} => launcherAt = "unlink"
                          /\ ~Launch
      BY <2>6 DEF signalHandler, Term, Unlink, Launch
    <3>2. QED  BY <1>a, <2>1, <2>2, <3>1
  <2>7. CASE NothingToStop \/ Acknowledged \/ StopTimeout
    <3>1. This \in Processes /\ This = <<starts, Order[step]>>
      BY <2>1, ThisIsAProcess DEF This
    <3>2. at'[This] = "gone"
      <4>1. CASE StopTimeout
        BY <3>1, <4>1 DEF StopTimeout, Dies, IsGone, LauncherTypeOK
      <4>2. CASE NothingToStop \/ Acknowledged
        BY <4>2 DEF NothingToStop, Acknowledged, daemonVars
      <4>3. QED  BY <2>7, <4>1, <4>2
    <3>3. \A i \in 1..3 : /\ known'[Order[i]] <=> known[Order[i]]
                          /\ launcherAt' \in {"term", "ack"} /\ i > step' => i = step \/ i > step
                          /\ launcherAt' \in {"off", "unlink"} => i = step \/ i > step
                          /\ launcherAt \in {"term", "ack"} /\ ~Launch
      BY <1>0, <2>7 DEF NothingToStop, Acknowledged, StopTimeout, AfterStop, Launch
    <3>4. QED  BY <1>a, <2>1, <2>2, <3>1, <3>2, <3>3
  <2>8. QED  BY <1>4, <2>3, <2>4, <2>5, <2>6, <2>7 DEF main
<1>5. QED  BY <1>1, <1>2, <1>3, <1>4 DEF Next

-----------------------------------------------------------------------------
(* The queues. *)

(* When the launcher unlinks its queues, nobody is left to use them. *)
LEMMA UnlinkedForNobody ==
  ASSUME LauncherTypeOK, StartsInv, KnownInv, StopsInOrder, QueueInv, Unlink, owner
  PROVE  \A p \in Processes : Dead(p)
<1>1. launcherAt = "unlink"  BY DEF Unlink
<1>2. \A i \in 1..3 : known[Order[i]]  BY <1>1, OrderFacts DEF KnownInv, StartingUp
<1>3. \A i \in 1..3 : at[<<starts, Order[i]>>] = "gone"  BY <1>1, <1>2 DEF StopsInOrder
<1>4. \A p \in Processes : p[1] # starts => Dead(p)  BY <1>1 DEF QueueInv, Away
<1>5. QED  BY <1>1, <1>3, <1>4, ThisIsAProcess DEF Dead

LEMMA QueueStep ==
  ASSUME LauncherTypeOK, StartsInv, KnownInv, StopsInOrder, QueueInv, [Next]_vars
  PROVE  QueueInv'
<1> USE DEF QueueInv, Away
<1>0. starts \in 0..MaxStarts  BY DEF LauncherTypeOK
<1>1. CASE UNCHANGED vars
  BY <1>1 DEF vars, launcherVars, daemonVars, queueVars, Dead
<1>2. CASE \E p \in Processes : daemon(p)
  <2>1. /\ UNCHANGED <<launcherVars, names, owner>>
        /\ \A q \in Processes : Dead(q) => Dead(q)'
    BY <1>2, DaemonStep DEF Dead
  <2>2. QED  BY <2>1 DEF launcherVars
<1>3. CASE Start
  <2>1. \A q \in Processes : Dead(q) => Dead(q)'  BY <1>3 DEF Start, Dead
  <2>2. QED  BY <1>3, <2>1 DEF Start, queueVars
<1>4. CASE CreateQueues
  <2>1. \A q \in Processes : Dead(q) => Dead(q)'  BY <1>4 DEF CreateQueues, daemonVars, Dead
  <2>2. starts # 0 /\ UNCHANGED <<starts, failed>> /\ launcherAt' = "launch" /\ launcherAt = "create"
    BY <1>4 DEF CreateQueues, StartsInv
  <2>3. CASE names = 0
    <3>1. names' = starts  BY <1>4, <2>3 DEF CreateQueues
    <3>2. owner'  BY <1>4, <2>3 DEF CreateQueues
    <3>3. QED  BY <2>1, <2>2, <2>3, <3>1, <3>2
  <2>4. CASE names # 0
    <3>1. names' = names  BY <1>4, <2>4 DEF CreateQueues
    <3>2. ~owner'  BY <1>4, <2>4 DEF CreateQueues
    <3>3. QED  BY <2>2, <2>4, <3>1, <3>2
  <2>5. QED  BY <2>3, <2>4
<1>5. CASE signalHandler \/ Forks \/ (main /\ ~CreateQueues /\ ~Unlink)
  <2>1. launcherAt # "off" /\ UNCHANGED <<starts, names, owner>>
    BY <1>5 DEF signalHandler, main, Launch, Waited, Forks, Started, NotStarted, GiveUp, TestStop,
       Pause, Term, NothingToStop, Acknowledged, StopTimeout, AfterStop, queueVars
  <2>2. /\ failed \subseteq failed'
        /\ Away' => (signalHandler /\ Away) \/ (launcherAt' = "off" /\ starts \in failed')
        /\ signalHandler => (Away' <=> Away)
        /\ ~signalHandler => ~Away
    BY <1>5 DEF signalHandler, main, Launch, Waited, Forks, Started, NotStarted, GiveUp, TestStop,
       Pause, Term, NothingToStop, Acknowledged, StopTimeout, AfterStop
  <2>3. \A q \in Processes : Dead(q) => Dead(q)' \/ (Launch /\ q[1] = starts)
    <3>1. This[1] = starts  BY DEF This
    <3>2. QED  BY <1>5, <3>1, LauncherStep DEF Dead
  <2>4. Launch => launcherAt = "launch"  BY DEF Launch
  <2>5. QED  BY <2>1, <2>2, <2>3, <2>4
<1>6. CASE Unlink
  <2>1. \A q \in Processes : Dead(q) => Dead(q)'  BY <1>6 DEF Unlink, daemonVars, Dead
  <2>2. launcherAt = "unlink" /\ launcherAt' = "off" /\ UNCHANGED <<starts, failed, owner>>
    BY <1>6 DEF Unlink
  <2>3. CASE owner
    <3>1. names' = 0  BY <1>6, <2>3 DEF Unlink
    <3>2. QED  BY <1>6, <2>1, <2>2, <2>3, <3>1, UnlinkedForNobody
  <2>4. CASE ~owner
    <3>1. names' = names  BY <1>6, <2>4 DEF Unlink
    <3>2. QED  BY <2>1, <2>2, <2>4, <3>1
  <2>5. QED  BY <2>3, <2>4
<1>7. QED  BY <1>1, <1>2, <1>3, <1>4, <1>5, <1>6 DEF Next

LEMMA OneSetStep ==
  ASSUME LauncherTypeOK, StartsInv, KnownInv, StopsInOrder, QueueInv, OneSetOfQueues, [Next]_vars
  PROVE  OneSetOfQueues'
<1> USE DEF OneSetOfQueues
<1>0. \A p \in Processes : Dead(p) <=> at[p] \notin Alive
  BY DEF Dead, Alive, LauncherTypeOK
<1>1. CASE UNCHANGED vars  BY <1>1 DEF vars, daemonVars, queueVars
<1>2. CASE \E p \in Processes : daemon(p)
  <2>1. PICK p \in Processes : daemon(p)  BY <1>2
  <2>2. UNCHANGED names /\ \A q \in Processes : q # p => at'[q] = at[q] /\ opened'[q] = opened[q]
    BY <2>1, DaemonStep
  <2>3. at'[p] \in Running => opened'[p] = names
    <3>1. at[p] \in Running \union {"none", "exec", "starting", "gone"}
      BY DEF LauncherTypeOK, Places, Running, Alive
    <3>2. QED  BY <1>0, <2>1, <3>1, DaemonStep DEF Running, Alive, Dead
  <2>4. QED  BY <2>2, <2>3
<1>3. CASE Start  BY <1>3 DEF Start, queueVars
<1>4. CASE CreateQueues
  <2>1. UNCHANGED <<at, opened>>  BY <1>4 DEF CreateQueues, daemonVars
  <2>2. CASE names = 0
    <3>1. \A p \in Processes : at[p] \notin Running  BY <1>0, <2>2 DEF QueueInv, Running
    <3>2. QED  BY <2>1, <3>1
  <2>3. CASE names # 0  BY <1>4, <2>1, <2>3 DEF CreateQueues
  <2>4. QED  BY <2>2, <2>3
<1>5. CASE signalHandler \/ Forks \/ (main /\ ~CreateQueues /\ ~Unlink)
  <2>1. UNCHANGED names
    BY <1>5 DEF signalHandler, main, Launch, Waited, Forks, Started, NotStarted, GiveUp, TestStop,
       Pause, Term, NothingToStop, Acknowledged, StopTimeout, AfterStop, queueVars
  <2>2. \A q \in Processes : at'[q] \in Running => at[q] \in Running /\ opened'[q] = opened[q]
    BY <1>5, LauncherStep DEF Running, Alive, Places
  <2>3. QED  BY <2>1, <2>2
<1>6. CASE Unlink
  <2>1. UNCHANGED <<at, opened>>  BY <1>6 DEF Unlink, daemonVars
  <2>2. CASE owner
    <3>1. \A p \in Processes : at[p] \notin Running
      BY <1>0, <1>6, <2>2, UnlinkedForNobody DEF Running
    <3>2. QED  BY <2>1, <3>1
  <2>3. CASE ~owner  BY <1>6, <2>1, <2>3 DEF Unlink
  <2>4. QED  BY <2>2, <2>3
<1>7. QED  BY <1>1, <1>2, <1>3, <1>4, <1>5, <1>6 DEF Next

-----------------------------------------------------------------------------
(* The alarm. *)

(* No core's threads are running. *)
Quiet == \A s \in Starts : at[<<s, Core>>] \notin Running

(* An alarm that sounds, or one that a core has switched and not silenced.  *)
AlarmInv == (alarm \/ tells) /\ Quiet => killed

(* The last log of the alarm is of the alarm as it is: in the queue, then   *)
(* in the hands of the one daemon that has it, then in the row.             *)
TableInv ==
  tells /\ ~killed /\ unlogged = {} =>
    /\ logs # <<>> => (logs[Len(logs)] <=> alarm)
    /\ logs = <<>> =>
         /\ \A p, q \in Processes : at[p] = "handling" /\ at[q] = "handling" => p = q
         /\ \A p \in Processes : at[p] = "handling" => (inHand[p] <=> alarm)
         /\ (\A p \in Processes : at[p] # "handling") => (row <=> alarm)

LEMMA Cores ==
  /\ \A s \in Starts : <<s, Core>> \in Processes
  /\ \A p \in Processes : p[2] = Core => \E s \in Starts : p = <<s, Core>>
  /\ \A p \in Processes : p[2] # Core => \A s \in Starts : p # <<s, Core>>
BY OrderFacts DEF Processes

(* A death leaves the alarm as it is; a core's is recorded. *)
LEMMA AlarmAfterDeath ==
  ASSUME LauncherTypeOK, AlarmInv, NEW p \in Processes, Dies(p)
  PROVE  AlarmInv'
<1>1. CASE p[2] = Core
  <2>1. killed'  BY <1>1 DEF Dies
  <2>2. QED  BY <2>1 DEF AlarmInv, Quiet
<1>2. CASE p[2] # Core
  <2>1. (alarm' => alarm) /\ (tells' => tells) /\ (killed => killed')  BY DEF Dies
  <2>2. \A s \in Starts : at'[<<s, Core>>] = at[<<s, Core>>]
    BY <1>2, Cores DEF Dies, IsGone, LauncherTypeOK
  <2>3. QED  BY <2>1, <2>2 DEF AlarmInv, Quiet
<1>3. QED  BY <1>1, <1>2

(* A step that keeps the alarm and the record, after which no core runs     *)
(* only if none did before.                                                 *)
LEMMA AlarmKept ==
  ASSUME AlarmInv, alarm' => alarm, tells' => tells, killed => killed', Quiet' => Quiet
  PROVE  AlarmInv'
BY DEF AlarmInv, Quiet

LEMMA AlarmStep ==
  ASSUME LauncherTypeOK, StartsInv, AlarmInv, [Next]_vars
  PROVE  AlarmInv'
<1>0. at \in [Processes -> Places]  BY DEF LauncherTypeOK
<1>1. CASE UNCHANGED vars
  BY <1>1 DEF vars, daemonVars, alarmVars, AlarmInv, Quiet
<1>2. CASE \E p \in Processes : daemon(p)
  <2> PICK p \in Processes : daemon(p)  BY <1>2
  <2>1. CASE Open(p)
    <3>1. CASE p[2] = Core
      <4>1. ~alarm' /\ ~tells'  BY <2>1, <3>1 DEF Open
      <4>2. QED  BY <4>1 DEF AlarmInv, Quiet
    <3>2. CASE p[2] # Core
      <4>1. (alarm' => alarm) /\ (tells' => tells) /\ (killed => killed')  BY <2>1, <3>2 DEF Open
      <4>2. \A s \in Starts : at'[<<s, Core>>] = at[<<s, Core>>]
        BY <1>0, <2>1, <3>2, Cores DEF Open
      <4>3. QED  BY <4>1, <4>2, AlarmKept DEF Quiet
    <3>3. QED  BY <3>1, <3>2
  <2>2. CASE Tell(p)
    <3>1. CASE Listens(p) \/ p[2] = Web
      <4>1. (alarm' => alarm) /\ (tells' => tells) /\ (killed => killed')
        BY <2>2, <3>1 DEF Tell, alarmVars
      <4>2. \A q \in Processes : at'[q] = at[q] \/ at'[q] \in {"test", "booted"}
        BY <1>0, <2>2, <3>1 DEF Tell
      <4>3. Quiet' => Quiet  BY <4>2, Cores DEF Quiet, Running, Alive, Places
      <4>4. QED  BY <4>1, <4>3, AlarmKept
    <3>2. CASE ~(Listens(p) \/ p[2] = Web)
      BY <2>2, <3>2, AlarmAfterDeath DEF Tell
    <3>3. QED  BY <3>1, <3>2
  <2>3. CASE FailToStart(p)
    <3>1. CASE p[2] = Core
      <4>1. (alarm' => alarm) /\ (tells' => tells) /\ (killed => killed')
        BY <2>3, <3>1 DEF FailToStart
      <4>2. at[p] = "starting"  BY <2>3, <3>1 DEF FailToStart
      <4>3. \A q \in Processes : at'[q] = at[q] \/ at[q] = "starting"
        BY <1>0, <2>3, <4>2 DEF FailToStart, IsGone
      <4>4. Quiet' => Quiet  BY <4>3, Cores DEF Quiet, Running
      <4>5. QED  BY <4>1, <4>4, AlarmKept
    <3>2. CASE p[2] # Core
      <4>1. (alarm' => alarm) /\ (tells' => tells) /\ (killed => killed')
        BY <2>3, <3>2 DEF FailToStart
      <4>2. \A s \in Starts : at'[<<s, Core>>] = at[<<s, Core>>]
        BY <1>0, <2>3, <3>2, Cores DEF FailToStart, IsGone
      <4>3. QED  BY <4>1, <4>2, AlarmKept DEF Quiet
    <3>3. QED  BY <3>1, <3>2
  <2>4. CASE Crash(p)  BY <2>4, AlarmAfterDeath DEF Crash
  <2>5. CASE InstallHandlers(p) \/ TestFlag(p) \/ CorePauses(p)
    <3>1. (alarm' => alarm) /\ (tells' => tells) /\ (killed => killed')
      BY <2>5 DEF InstallHandlers, TestFlag, CorePauses, alarmVars
    <3>2. \A q \in Processes : at'[q] = at[q] \/ at'[q] \in {"test", "ending", "pausing", "serving"}
      BY <1>0, <2>5 DEF InstallHandlers, TestFlag, CorePauses
    <3>3. Quiet' => Quiet  BY <3>2, Cores DEF Quiet, Running, Alive, Places
    <3>4. QED  BY <3>1, <3>3, AlarmKept
  <2>6. CASE DatabaseReceives(p) \/ DatabaseHandles(p)
    <3>1. (alarm' => alarm) /\ (tells' => tells) /\ (killed => killed')
      <4>1. CASE DatabaseReceives(p)
        <5>1. tells' => tells
          <6>1. CASE opened[p] = names /\ logs # <<>>  BY <4>1, <6>1 DEF DatabaseReceives
          <6>2. CASE ~(opened[p] = names /\ logs # <<>>)  BY <4>1, <6>2 DEF DatabaseReceives
          <6>3. QED  BY <6>1, <6>2
        <5>2. QED  BY <4>1, <5>1 DEF DatabaseReceives
      <4>2. CASE DatabaseHandles(p)
        <5>1. tells' => tells
          <6>1. CASE tells' = (tells /\ ~NoLogAfter)  BY <6>1
          <6>2. CASE UNCHANGED tells  BY <6>2
          <6>3. QED  BY <4>2, <6>1, <6>2 DEF DatabaseHandles
        <5>2. UNCHANGED <<alarm, killed>>  BY <4>2 DEF DatabaseHandles
        <5>3. QED  BY <5>1, <5>2
      <4>3. QED  BY <2>6, <4>1, <4>2
    <3>2. \A q \in Processes : at'[q] = at[q] \/ at'[q] \in {"test", "handling"}
      BY <1>0, <2>6 DEF DatabaseReceives, DatabaseHandles
    <3>3. Quiet' => Quiet  BY <3>2, Cores DEF Quiet, Running, Alive, Places
    <3>4. QED  BY <3>1, <3>3, AlarmKept
  <2>7. CASE FailToFork(p)
    <3>1. (alarm' => alarm) /\ (tells' => tells) /\ (killed => killed')
      BY <2>7 DEF FailToFork, alarmVars
    <3>2. \A q \in Processes : at'[q] = at[q] \/ at[q] = "exec"
      BY <1>0, <2>7 DEF FailToFork
    <3>3. Quiet' => Quiet  BY <3>2, Cores DEF Quiet, Running
    <3>4. QED  BY <3>1, <3>3, AlarmKept
  <2>8. CASE Switch(p)
    <3>1. p[2] = Core /\ at'[p] \in Running  BY <2>8 DEF Switch, daemonVars
    <3>2. QED  BY <3>1, Cores DEF AlarmInv, Quiet
  <2>9. CASE Log(p)  BY <2>9 DEF Log, daemonVars, AlarmInv, Quiet
  <2>10. CASE Finish(p)
    <3>1. CASE p[2] = Core
      <4>1. ~alarm' /\ ~tells'  BY <2>10, <3>1 DEF Finish
      <4>2. QED  BY <4>1 DEF AlarmInv, Quiet
    <3>2. CASE p[2] # Core
      <4>1. (alarm' => alarm) /\ (tells' => tells) /\ (killed => killed')
        BY <2>10, <3>2 DEF Finish
      <4>2. \A s \in Starts : at'[<<s, Core>>] = at[<<s, Core>>]
        BY <1>0, <2>10, <3>2, Cores DEF Finish, IsGone
      <4>3. QED  BY <4>1, <4>2, AlarmKept DEF Quiet
    <3>3. QED  BY <3>1, <3>2
  <2>11. QED
    BY <2>1, <2>2, <2>3, <2>4, <2>5, <2>6, <2>7, <2>8, <2>9, <2>10 DEF daemon
<1>3. CASE Launch \/ Forks
  <2>1. (alarm' => alarm) /\ (tells' => tells) /\ (killed => killed')
    BY <1>3 DEF Launch, Forks, alarmVars
  <2>2. \A q \in Processes : at[q] \in Running => at'[q] = at[q]
    <3>1. CASE Launch
      <4>1. This \in Processes /\ at[This] = "none"
        <5>1. launcherAt = "launch"  BY <3>1 DEF Launch
        <5>2. step \in 1..3 /\ NotYet(step)  BY <5>1 DEF NotYet, LauncherTypeOK
        <5>3. QED  BY <5>1, <5>2, ThisIsAProcess DEF StartsInv, This
      <4>2. QED  BY <1>0, <3>1, <4>1 DEF Launch, Running, Alive
    <3>2. CASE Forks  BY <1>0, <3>2 DEF Forks, Running
    <3>3. QED  BY <1>3, <3>1, <3>2
  <2>3. Quiet' => Quiet  BY <2>2, Cores DEF Quiet
  <2>4. QED  BY <2>1, <2>3, AlarmKept
<1>4. CASE Term
  <2>1. This \in Processes  BY <1>4, ThisIsAProcess DEF Term
  <2>2. CASE at[This] = "booted"  BY <1>4, <2>1, <2>2, AlarmAfterDeath DEF Term, Terminate
  <2>3. CASE at[This] # "booted"
    <3>1. (alarm' => alarm) /\ (tells' => tells) /\ (killed => killed')
      BY <1>4, <2>3 DEF Term, Terminate, alarmVars
    <3>2. \A q \in Processes : at'[q] = at[q] \/ at'[q] = "test"
      BY <1>0, <1>4, <2>3 DEF Term, Terminate
    <3>3. Quiet' => Quiet  BY <3>2, Cores DEF Quiet, Running, Alive, Places
    <3>4. QED  BY <3>1, <3>3, AlarmKept
  <2>4. QED  BY <2>2, <2>3
<1>5. CASE StopTimeout
  <2>1. This \in Processes  BY <1>5, ThisIsAProcess DEF StopTimeout
  <2>2. QED  BY <1>5, <2>1, AlarmAfterDeath DEF StopTimeout
<1>6. CASE \/ Start \/ signalHandler \/ CreateQueues \/ Waited \/ Started \/ NotStarted \/ GiveUp
           \/ TestStop \/ Pause \/ NothingToStop \/ Acknowledged \/ Unlink
  <2>1. UNCHANGED at  BY <1>6 DEF Start, signalHandler, CreateQueues, Waited, Started, NotStarted, GiveUp,
              TestStop, Pause, NothingToStop, Acknowledged, Unlink, daemonVars
  <2>2. (alarm' => alarm) /\ (tells' => tells) /\ (killed => killed')
    BY <1>6 DEF Start, signalHandler, CreateQueues, Waited, Started, NotStarted, GiveUp,
              TestStop, Pause, NothingToStop, Acknowledged, Unlink, alarmVars
  <2>3. QED  BY <2>1, <2>2, AlarmKept DEF Quiet
<1>7. QED  BY <1>1, <1>2, <1>3, <1>4, <1>5, <1>6 DEF Next, main

LEMMA TailOfLogs ==
  ASSUME NEW S, NEW s \in Seq(S), Len(s) > 1
  PROVE  /\ Len(Tail(s)) = Len(s) - 1 /\ Tail(s) # <<>>
         /\ \A i \in 1..(Len(s) - 1) : Tail(s)[i] = s[i + 1]
<1>1. s # <<>> /\ Len(s) \in Nat  BY EmptySeq
<1>2. /\ Tail(s) \in Seq(S) /\ Len(Tail(s)) = Len(s) - 1
      /\ \A i \in 1..(Len(s) - 1) : Tail(s)[i] = s[i + 1]
  BY <1>1, HeadTailProperties
<1>3. PICK t \in Seq(S) : t = Tail(s)  BY <1>2
<1>4. Len(t) # 0  BY <1>1, <1>2, <1>3
<1>5. t # <<>>  BY <1>4, EmptySeq
<1>6. QED  BY <1>2, <1>3, <1>5

(* A step after which the logs and the row are what they were, and which    *)
(* has no daemon take or lay down a log.                                    *)
LEMMA TableKept ==
  ASSUME TableInv, tells' => tells, killed => killed', alarm' <=> alarm, row' <=> row,
         UNCHANGED <<logs, unlogged>>,
         \A q \in Processes :
           /\ at'[q] = "handling" <=> at[q] = "handling"
           /\ at[q] = "handling" => inHand'[q] = inHand[q]
  PROVE  TableInv'
BY DEF TableInv

(* A daemon that dies mislays the last log if it has it in hand. *)
LEMMA TableAfterDeath ==
  ASSUME LauncherTypeOK, TableInv, NEW p \in Processes, Dies(p), UNCHANGED logs
  PROVE  TableInv'
<1>1. CASE p[2] = Core
  <2>1. killed'  BY <1>1 DEF Dies
  <2>2. QED  BY <2>1 DEF TableInv
<1>2. CASE p[2] # Core
  <2>1. /\ (alarm' <=> alarm) /\ (tells' => tells) /\ (killed => killed')
        /\ (row' <=> row) /\ unlogged' = unlogged
    BY <1>2 DEF Dies
  <2>2. CASE at[p] # "handling"
    <3>1. \A q \in Processes :
            /\ at'[q] = "handling" <=> at[q] = "handling"
            /\ at[q] = "handling" => inHand'[q] = inHand[q]
      BY <2>2 DEF Dies, IsGone, LauncherTypeOK
    <3>2. QED  BY <2>1, <3>1, TableKept
  <2>3. CASE at[p] = "handling"
    <3>1. tells' => ~NoLogAfter  BY <2>3 DEF Dies
    <3>2. QED  BY <2>1, <3>1 DEF NoLogAfter, TableInv
  <2>4. QED  BY <2>2, <2>3
<1>3. QED  BY <1>1, <1>2

LEMMA TableAfterReceipt ==
  ASSUME LauncherTypeOK, TableInv, NEW p \in Processes, DatabaseReceives(p)
  PROVE  TableInv'
<1>0. /\ logs \in Seq(BOOLEAN) /\ at \in [Processes -> Places]
      /\ inHand \in [Processes -> BOOLEAN]
  BY DEF LauncherTypeOK
<1>1. UNCHANGED <<alarm, unlogged, killed, row>> /\ at[p] = "serving"
  BY DEF DatabaseReceives
<1>2. CASE opened[p] = names /\ logs # <<>>
  <2>1. /\ at' = [at EXCEPT ![p] = "handling"] /\ inHand' = [inHand EXCEPT ![p] = Head(logs)]
        /\ logs' = Tail(logs) /\ Len(logs) \in Nat /\ Len(logs) > 0
    BY <1>0, <1>2 DEF DatabaseReceives
  <2>2. tells' => tells /\ \A q \in Processes \ {p} : at[q] # "handling"
    BY <1>2 DEF DatabaseReceives
  <2>3. CASE Len(logs) = 1
    <3>1. logs' = <<>> /\ Head(logs) = logs[Len(logs)]  BY <1>0, <2>1, <2>3
    <3>2. inHand'[p] = logs[Len(logs)] /\ at'[p] = "handling"  BY <1>0, <2>1, <3>1
    <3>3. \A q \in Processes \ {p} : at'[q] = at[q]  BY <1>0, <2>1
    <3>4. QED  BY <1>1, <1>2, <2>2, <3>1, <3>2, <3>3 DEF TableInv
  <2>4. CASE Len(logs) > 1
    <3>1. /\ Len(logs') = Len(logs) - 1 /\ logs' # <<>>
          /\ \A i \in 1..(Len(logs) - 1) : logs'[i] = logs[i + 1]
      BY <1>0, <2>1, <2>4, TailOfLogs
    <3>2. logs'[Len(logs')] = logs[Len(logs)]  BY <2>1, <2>4, <3>1
    <3>3. QED  BY <1>1, <1>2, <2>2, <3>1, <3>2 DEF TableInv
  <2>a. \A n \in Nat : n > 0 => n = 1 \/ n > 1  OBVIOUS
  <2>5. Len(logs) = 1 \/ Len(logs) > 1  BY <2>1, <2>a
  <2>6. QED  BY <2>3, <2>4, <2>5
<1>3. CASE ~(opened[p] = names /\ logs # <<>>)
  <2>1. UNCHANGED <<inHand, logs, tells>> /\ at' = [at EXCEPT ![p] = "test"]
    BY <1>3 DEF DatabaseReceives
  <2>2. \A q \in Processes : at'[q] = "handling" <=> at[q] = "handling"
    BY <1>0, <1>1, <2>1
  <2>3. QED  BY <1>1, <2>1, <2>2, TableKept
<1>4. QED  BY <1>2, <1>3

LEMMA TableAfterHandling ==
  ASSUME LauncherTypeOK, TableInv, NEW p \in Processes, DatabaseHandles(p)
  PROVE  TableInv'
<1>0. /\ at \in [Processes -> Places] /\ inHand \in [Processes -> BOOLEAN]
  BY DEF LauncherTypeOK
<1>1. /\ UNCHANGED <<logs, alarm, unlogged, killed>> /\ at[p] = "handling"
      /\ at' = [at EXCEPT ![p] = "test"]
  BY DEF DatabaseHandles
<1>2. CASE logs = <<>> /\ unlogged = {} /\ tells /\ ~killed
  <2>1. /\ \A q \in Processes : at[q] = "handling" => q = p
        /\ inHand[p] <=> alarm
    BY <1>1, <1>2 DEF TableInv
  <2>2. \A q \in Processes : at'[q] # "handling"  BY <1>0, <1>1, <2>1
  <2>3. tells' => row' = inHand[p]  BY <1>2 DEF DatabaseHandles, NoLogAfter
  <2>4. QED  BY <1>1, <1>2, <2>1, <2>2, <2>3 DEF TableInv
<1>3. CASE ~(logs = <<>> /\ unlogged = {} /\ tells /\ ~killed)
  <2>1. tells' => tells  BY DEF DatabaseHandles
  <2>2. QED  BY <1>1, <1>3, <2>1 DEF TableInv
<1>4. QED  BY <1>2, <1>3

LEMMA TableStep ==
  ASSUME LauncherTypeOK, StartsInv, KnownInv, StopsInOrder, QueueInv, AlarmInv, TableInv,
         [Next]_vars
  PROVE  TableInv'
<1>0. /\ logs \in Seq(BOOLEAN) /\ at \in [Processes -> Places]
      /\ inHand \in [Processes -> BOOLEAN]
  BY DEF LauncherTypeOK
<1>a. (\A p \in Processes : Dead(p)) => Quiet  BY Cores DEF Dead, Quiet, Running, Alive
<1>1. CASE UNCHANGED vars
  BY <1>1, TableKept DEF vars, daemonVars, queueVars, alarmVars
<1>2. CASE \E p \in Processes : daemon(p)
  <2> PICK p \in Processes : daemon(p)  BY <1>2
  <2>1. CASE Open(p) \/ Finish(p) \/ FailToStart(p)
    <3>1. CASE p[2] = Core
      <4>1. ~tells'  BY <2>1, <3>1 DEF Open, Finish, FailToStart
      <4>2. QED  BY <4>1 DEF TableInv
    <3>2. CASE p[2] # Core
      <4>1. /\ (alarm' <=> alarm) /\ (tells' => tells) /\ (killed => killed')
            /\ (row' <=> row)
        <5>1. CASE Open(p)  BY <3>2, <5>1 DEF Open
        <5>2. CASE Finish(p)  BY <3>2, <5>2 DEF Finish
        <5>3. CASE FailToStart(p)  BY <3>2, <5>3 DEF FailToStart
        <5>4. QED  BY <2>1, <5>1, <5>2, <5>3
      <4>2. UNCHANGED <<logs, unlogged>>  BY <2>1 DEF Open, Finish, FailToStart
      <4>3. at[p] \in {"starting", "opened", "ending"}  BY <2>1, <3>2 DEF Open, Finish, FailToStart
      <4>4. at'[p] \in {"opened", "gone"} /\ \A q \in Processes \ {p} : at'[q] = at[q]
        BY <1>0, <2>1 DEF Open, Finish, FailToStart, IsGone
      <4>5. \A q \in Processes \ {p} : inHand'[q] = inHand[q]
        BY <1>0, <2>1 DEF Open, Finish, FailToStart, IsGone
      <4>6. QED  BY <4>1, <4>2, <4>3, <4>4, <4>5, TableKept
    <3>3. QED  BY <3>1, <3>2
  <2>2. CASE Tell(p)
    <3>1. CASE Listens(p) \/ p[2] = Web
      <4>1. UNCHANGED <<logs, inHand, alarmVars>>  BY <2>2, <3>1 DEF Tell
      <4>2. \A q \in Processes : at'[q] = "handling" <=> at[q] = "handling"
        BY <1>0, <2>2, <3>1 DEF Tell
      <4>3. QED  BY <4>1, <4>2, TableKept DEF alarmVars
    <3>2. CASE ~(Listens(p) \/ p[2] = Web)  BY <2>2, <3>2, TableAfterDeath DEF Tell
    <3>3. QED  BY <3>1, <3>2
  <2>3. CASE Crash(p)  BY <2>3, TableAfterDeath DEF Crash
  <2>4. CASE FailToFork(p) \/ InstallHandlers(p) \/ TestFlag(p) \/ CorePauses(p)
    <3>1. UNCHANGED <<queueVars, alarmVars>>
      BY <2>4 DEF FailToFork, InstallHandlers, TestFlag, CorePauses
    <3>2. \A q \in Processes : at'[q] = "handling" <=> at[q] = "handling"
      BY <1>0, <2>4 DEF FailToFork, InstallHandlers, TestFlag, CorePauses
    <3>3. QED  BY <3>1, <3>2, TableKept DEF queueVars, alarmVars
  <2>5. CASE DatabaseReceives(p)  BY <2>5, TableAfterReceipt
  <2>6. CASE DatabaseHandles(p)  BY <2>6, TableAfterHandling
  <2>7. CASE Switch(p)
    <3>1. unlogged' # {}  BY <2>7 DEF Switch
    <3>2. QED  BY <3>1 DEF TableInv
  <2>8. CASE Log(p)
    <3>1. logs' = Append(logs, alarm) /\ (alarm' <=> alarm)  BY <2>8 DEF Log
    <3>2. logs' # <<>> /\ logs'[Len(logs')] = alarm  BY <1>0, <3>1
    <3>3. QED  BY <3>1, <3>2 DEF TableInv
  <2>9. QED  BY <2>1, <2>2, <2>3, <2>4, <2>5, <2>6, <2>7, <2>8 DEF daemon
<1>3. CASE Term
  <2>1. This \in Processes /\ UNCHANGED logs  BY <1>3, ThisIsAProcess DEF Term
  <2>2. CASE at[This] = "booted"  BY <1>3, <2>1, <2>2, TableAfterDeath DEF Term, Terminate
  <2>3. CASE at[This] # "booted"
    <3>1. UNCHANGED <<inHand, alarmVars>>  BY <1>3, <2>3 DEF Term, Terminate
    <3>2. \A q \in Processes : at'[q] = "handling" <=> at[q] = "handling"
      BY <1>0, <1>3, <2>3 DEF Term, Terminate
    <3>3. QED  BY <2>1, <3>1, <3>2, TableKept DEF alarmVars
  <2>4. QED  BY <2>2, <2>3
<1>4. CASE StopTimeout
  <2>1. This \in Processes  BY <1>4, ThisIsAProcess DEF StopTimeout
  <2>2. QED  BY <1>4, <2>1, TableAfterDeath DEF StopTimeout
<1>5. CASE CreateQueues
  <2>1. UNCHANGED <<at, inHand, alarmVars>>  BY <1>5 DEF CreateQueues, daemonVars
  <2>2. CASE names = 0
    <3>1. Quiet  BY <1>a, <2>2 DEF QueueInv
    <3>2. QED  BY <2>1, <3>1 DEF AlarmInv, TableInv, alarmVars
  <2>3. CASE names # 0  BY <1>5, <2>1, <2>3, TableKept DEF CreateQueues, alarmVars
  <2>4. QED  BY <2>2, <2>3
<1>6. CASE Unlink
  <2>1. UNCHANGED <<at, inHand, alarmVars>>  BY <1>6 DEF Unlink, daemonVars
  <2>2. CASE owner
    <3>1. Quiet  BY <1>a, <1>6, <2>2, UnlinkedForNobody
    <3>2. QED  BY <2>1, <3>1 DEF AlarmInv, TableInv, alarmVars
  <2>3. CASE ~owner  BY <1>6, <2>1, <2>3, TableKept DEF Unlink, alarmVars
  <2>4. QED  BY <2>2, <2>3
<1>7. CASE \/ Start \/ signalHandler \/ Waited \/ Started \/ NotStarted \/ GiveUp
           \/ TestStop \/ Pause \/ NothingToStop \/ Acknowledged
  <2>1. UNCHANGED <<at, queueVars, alarmVars>>
    BY <1>7 DEF Start, signalHandler, Waited, Started, NotStarted, GiveUp,
                TestStop, Pause, NothingToStop, Acknowledged, daemonVars
  <2>2. QED  BY <2>1, TableKept DEF queueVars, alarmVars
<1>8. CASE Launch \/ Forks
  <2>1. UNCHANGED <<queueVars, alarmVars>>  BY <1>8 DEF Launch, Forks
  <2>2. at[This] # "handling"
    <3>1. CASE Launch
      <4>1. launcherAt = "launch"  BY <3>1 DEF Launch
      <4>2. step \in 1..3 /\ NotYet(step)  BY <4>1 DEF NotYet, LauncherTypeOK
      <4>3. QED  BY <4>2 DEF StartsInv, This
    <3>2. CASE Forks  BY <3>2 DEF Forks
    <3>3. QED  BY <1>8, <3>1, <3>2
  <2>3. \A q \in Processes : at'[q] = "handling" <=> at[q] = "handling"
    BY <1>0, <1>8, <2>2 DEF Launch, Forks
  <2>4. QED  BY <2>1, <2>3, TableKept DEF queueVars, alarmVars
<1>9. QED  BY <1>1, <1>2, <1>3, <1>4, <1>5, <1>6, <1>7, <1>8 DEF Next, main

-----------------------------------------------------------------------------
(* The theorems. *)

LauncherInv ==
  /\ LauncherTypeOK
  /\ StartsInv
  /\ KnownInv
  /\ StopsInOrder
  /\ QueueInv
  /\ OneSetOfQueues
  /\ AlarmInv
  /\ TableInv

LEMMA InitLauncherInv == Init => LauncherInv
<1> SUFFICES ASSUME Init  PROVE LauncherInv
  OBVIOUS
<1> USE DEF Init
<1>1. LauncherTypeOK
  <2>1. logs \in Seq(BOOLEAN) /\ Len(logs) <= MaxLogs  BY EmptyLog DEF LauncherAssumption
  <2>2. /\ stopFlag \in [Processes -> BOOLEAN] /\ told \in [Processes -> BOOLEAN]
        /\ known \in [Daemons -> BOOLEAN]
    OBVIOUS
  <2>3. at \in [Processes -> Places] /\ opened \in [Processes -> 0..MaxStarts]
    BY DEF Places, LauncherAssumption
  <2>4. /\ gStop \in BOOLEAN /\ owner \in BOOLEAN /\ alarm \in BOOLEAN
        /\ tells \in BOOLEAN /\ killed \in BOOLEAN /\ row \in BOOLEAN
        /\ inHand \in [Processes -> BOOLEAN]
    OBVIOUS
  <2>5. /\ launcherAt \in LauncherPlaces /\ starts \in 0..MaxStarts /\ step \in 1..3
        /\ failed \subseteq Starts /\ signals \in 0..MaxSignals /\ crashes \in 0..MaxCrashes
        /\ names \in 0..MaxStarts /\ unlogged \subseteq Starts
    BY DEF LauncherPlaces, LauncherAssumption
  <2>6. QED  BY <2>1, <2>2, <2>3, <2>4, <2>5 DEF LauncherTypeOK
<1>2. StartsInv  BY DEF StartsInv, NotYet, StartingUp
<1>3. \A d \in Daemons : ~known[d]  OBVIOUS
<1>4. KnownInv  BY <1>3 DEF KnownInv, StartingUp, Waiting
<1>5. StopsInOrder  BY <1>3, OrderFacts DEF StopsInOrder
<1>6. QueueInv
  <2>1. \A p \in Processes : Dead(p)  BY DEF Dead
  <2>2. Away  BY DEF Away
  <2>3. names = 0  OBVIOUS
  <2>4. QED  BY <2>1, <2>2, <2>3 DEF QueueInv
<1>7. OneSetOfQueues  BY DEF OneSetOfQueues, Running, Alive
<1>8. AlarmInv  BY DEF AlarmInv, Quiet
<1>9. TableInv  BY DEF TableInv
<1>10. QED  BY <1>1, <1>2, <1>4, <1>5, <1>6, <1>7, <1>8, <1>9 DEF LauncherInv

LEMMA NextLauncherInv == LauncherInv /\ [Next]_vars => LauncherInv'
<1> SUFFICES ASSUME LauncherInv, [Next]_vars  PROVE LauncherInv'
  OBVIOUS
<1> USE DEF LauncherInv
<1>1. LauncherTypeOK'
  <2>1. CASE UNCHANGED vars
    BY <2>1 DEF vars, launcherVars, daemonVars, queueVars, alarmVars, LauncherTypeOK
  <2>2. QED  BY <2>1, TypeOfLauncher, TypeOfDaemon DEF Next
<1>2. StartsInv'  BY StartsStep
<1>3. KnownInv'  BY KnownStep
<1>4. StopsInOrder'  BY OrderStep
<1>5. QueueInv'  BY QueueStep
<1>6. OneSetOfQueues'  BY OneSetStep
<1>7. AlarmInv'  BY AlarmStep
<1>8. TableInv'  BY TableStep
<1>9. QED  BY <1>1, <1>2, <1>3, <1>4, <1>5, <1>6, <1>7, <1>8

LEMMA Invariance == Spec => []LauncherInv
BY InitLauncherInv, NextLauncherInv, PTL DEF Spec

(* Every variable of the launcher's model keeps its type. *)
THEOREM LauncherTypes == Spec => []LauncherTypeOK
<1>1. LauncherInv => LauncherTypeOK  BY DEF LauncherInv
<1>2. QED  BY Invariance, <1>1, PTL

(* "Reverse order to avoid pending dependencies" (main.cpp:229): a daemon   *)
(* is stopped only when those started after it have ended, however they     *)
(* behave.                                                                  *)
THEOREM DaemonsStopInOrder == Spec => []StopsInOrder
<1>1. LauncherInv => StopsInOrder  BY DEF LauncherInv
<1>2. QED  BY Invariance, <1>1, PTL

(* All processes alive at one time, of whatever start, use the same queues  *)
(* (C_Mqueue.cpp:24-31, main.cpp:204-221).                                  *)
THEOREM QueuesAreShared == Spec => []OneSetOfQueues
<1>1. LauncherInv => OneSetOfQueues  BY DEF LauncherInv
<1>2. QED  BY Invariance, <1>1, PTL

(* The queues' names outlive only a start that failed (main.cpp:185).       *)
THEOREM NamesOutliveFailuresOnly == Spec => []QueuesOutliveFailuresOnly
<1>1. LauncherInv => QueuesOutliveFailuresOnly
  BY DEF LauncherInv, QueueInv, Away, QueuesOutliveFailuresOnly
<1>2. QED  BY Invariance, <1>1, PTL

(* The alarm outlives the cores only if one was killed or crashed           *)
(* (C_alarmActuator.cpp:11, main.cpp:174).                                  *)
THEOREM AlarmDiesWithCore == Spec => []AlarmEndsWithCore
<1>1. LauncherInv => AlarmEndsWithCore
  BY DEF LauncherInv, AlarmInv, Quiet, AlarmEndsWithCore
<1>2. QED  BY Invariance, <1>1, PTL

(* The alarm's row is right once its logs are taken and handled, after the  *)
(* alarm has been switched and while no core is killed: unless the last log *)
(* was mislaid between the receive and the row (main_db.cpp:127, 130,       *)
(* dDatabase.cpp:249, C_alarmActuator.cpp:15).                              *)
THEOREM RowTellsAlarm == Spec => []TableTellsAlarm
<1>1. LauncherInv => TableTellsAlarm
  <2> SUFFICES ASSUME LauncherInv, tells, ~killed, unlogged = {}, logs = <<>>,
                      \A p \in Processes : at[p] # "handling"
               PROVE  row = alarm
    BY DEF TableTellsAlarm
  <2>1. row <=> alarm  BY DEF LauncherInv, TableInv
  <2>2. row \in BOOLEAN /\ alarm \in BOOLEAN  BY DEF LauncherInv, LauncherTypeOK
  <2>3. QED  BY <2>1, <2>2
<1>2. QED  BY Invariance, <1>1, PTL
=============================================================================
