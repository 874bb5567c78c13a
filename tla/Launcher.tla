------------------------------ MODULE Launcher ------------------------------
(***************************************************************************)
(* The launcher and the lives of the three daemons.  The launcher creates  *)
(* the message queues, starts the database daemon, the web daemon and the  *)
(* core, each with 5 s to send its PID, waits for a signal, and stops them *)
(* in the opposite order, each with 5 s to acknowledge before a SIGKILL.   *)
(* It may be started again later; what then still exists is the queues'    *)
(* names in the kernel, the database's file, the hardware, and any process *)
(* it left behind.  Of the work of the daemons only the alarm is here: the *)
(* core switches it and logs that, the database daemon keeps its row.      *)
(***************************************************************************)
EXTENDS Naturals, Sequences

CONSTANTS
  MaxStarts,    \* bound: how often the launcher is started
  MaxSignals,   \* bound: SIGINT and SIGTERM sent to the launcher
  MaxCrashes,   \* bound: daemons that die by themselves
  MaxLogs       \* bound: logs of the alarm in mq_to_db

ASSUME LauncherAssumption ==
  /\ MaxStarts \in Nat \ {0}
  /\ MaxSignals \in Nat
  /\ MaxCrashes \in Nat
  /\ MaxLogs \in Nat \ {0}

Starts  == 1..MaxStarts
Order   == <<"dDatabase", "dWebServer", "SecureAssetCore">>
Database == Order[1]
Web      == Order[2]
Core     == Order[3]
Daemons == {Database, Web, Core}
Processes == Starts \X Daemons      \* <<s, d>>: the daemon d of the s-th start

VARIABLES
  launcherAt,  \* where main of the launcher is; "off" when it does not run
  starts,      \* how often it has been started
  step,        \* the place in Order of the daemon being started or stopped
  failed,      \* the starts that failed
  gStop,       \* g_stop of the launcher
  signals,     \* signals it was sent so far
  known,       \* known[d]: the launcher has d's PID
  at,          \* at[p]: where the process p is
  stopFlag,    \* stopFlag[p]: its own g_stop (g_shutdown, ~m_running)
  told,        \* told[p]: it has written its PID on the startup channel
  crashes,     \* daemons that have died by themselves
  names,       \* the start that created the queues now named, 0 if none are
  owner,       \* m_owner of the launcher's queues
  opened,      \* opened[p]: the queues it has open, by their start
  logs,        \* the logs of the alarm in mq_to_db
  inHand,      \* inHand[p]: the log a database daemon has taken and handles
  alarm,       \* the alarm sounds
  unlogged,    \* the starts whose core has switched the alarm but not logged it
  tells,       \* the alarm was switched since a core silenced it without a log,
               \* and its last log was not mislaid
  killed,      \* since the last core's init one ended without its destructors
  row          \* State of the alarm in the table Actuators

launcherVars == <<launcherAt, starts, step, failed, gStop, signals, known>>
daemonVars   == <<at, stopFlag, told, crashes>>
queueVars    == <<names, owner, opened, logs, inHand>>
alarmVars    == <<alarm, unlogged, tells, killed, row>>
vars         == <<launcherVars, daemonVars, queueVars, alarmVars>>

(* A daemon is executed and forks, starts, opens its queues and             *)
(* initializes, writes its PID, installs its signal handlers (the web       *)
(* daemon has done so before), and then tests its flag and serves in turn.  *)
(* Only the core tests and then pauses; only the database daemon handles    *)
(* what it has taken.                                                       *)
Places == {"none", "exec", "starting", "opened", "booted", "test", "pausing",
           "serving", "handling", "ending", "gone"}
Alive == Places \ {"none", "gone"}
Running == Alive \ {"exec", "starting"}
InService == Running \ {"opened"}

LauncherPlaces == {"off", "create", "launch", "waitpid", "await", "giveup", "test",
                   "pause", "paused", "term", "ack", "unlink"}

Init ==
  /\ launcherAt = "off" /\ starts = 0 /\ step = 1
  /\ failed = {} /\ gStop = FALSE /\ signals = 0
  /\ known = [d \in Daemons |-> FALSE]
  /\ at = [p \in Processes |-> "none"]
  /\ stopFlag = [p \in Processes |-> FALSE]
  /\ told = [p \in Processes |-> FALSE]
  /\ crashes = 0
  /\ names = 0 /\ owner = FALSE
  /\ opened = [p \in Processes |-> 0]
  /\ logs = <<>>
  /\ inHand = [p \in Processes |-> FALSE]
  /\ alarm = FALSE /\ unlogged = {} /\ tells = FALSE /\ killed = FALSE
  /\ row = FALSE

This == <<starts, Order[step]>>     \* the process being started or stopped

-----------------------------------------------------------------------------
(* The launcher: start-up. *)

Start ==
  /\ launcherAt = "off" /\ starts < MaxStarts
  /\ launcherAt' = "create"
  /\ starts' = starts + 1
  /\ step' = 1 /\ gStop' = FALSE
  /\ known' = [d \in Daemons |-> FALSE]
  /\ told' = [p \in Processes |-> FALSE]
  /\ UNCHANGED <<failed, signals, at, stopFlag, crashes, queueVars, alarmVars>>

(* A definition with a two-part name is a plausible bug of the one after    *)
(* it.                                                                      *)
CreateQueues_Anew ==
  /\ launcherAt = "create"
  /\ launcherAt' = "launch"
  /\ owner' = TRUE /\ names' = starts /\ logs' = <<>>
  /\ UNCHANGED <<starts, step, failed, gStop, signals, known, opened, inHand, daemonVars, alarmVars>>

(* Names that exist already are opened with what their queues hold, and not *)
(* owned.                                                                   *)
CreateQueues ==
  /\ launcherAt = "create"
  /\ launcherAt' = "launch"
  /\ owner' = (names = 0)
  /\ IF names = 0 THEN names' = starts /\ logs' = <<>> ELSE UNCHANGED <<names, logs>>
  /\ UNCHANGED <<starts, step, failed, gStop, signals, known, opened, inHand, daemonVars, alarmVars>>

(* fork, execl, and waitpid for what was executed, without a time-out. *)
Launch ==
  /\ launcherAt = "launch"
  /\ launcherAt' = "waitpid"
  /\ at' = [at EXCEPT ![This] = "exec"]
  /\ UNCHANGED <<starts, step, failed, gStop, signals, known, stopFlag, told, crashes,
                 queueVars, alarmVars>>

(* daemonize(): it forks and exits, which ends the wait; before that, the   *)
(* core has waited for insmod.  A signal does not end it: std::signal has   *)
(* it restarted.                                                            *)
Forks ==
  /\ launcherAt = "waitpid" /\ at[This] = "exec"
  /\ launcherAt' = "await"
  /\ at' = [at EXCEPT ![This] = "starting"]
  /\ UNCHANGED <<starts, step, failed, gStop, signals, known, stopFlag, told, crashes,
                 queueVars, alarmVars>>

(* It has died without. *)
Waited ==
  /\ launcherAt = "waitpid" /\ at[This] = "gone"
  /\ launcherAt' = "await"
  /\ UNCHANGED <<starts, step, failed, gStop, signals, known, daemonVars, queueVars, alarmVars>>

Started ==
  /\ launcherAt = "await" /\ told[This]
  /\ known' = [known EXCEPT ![Order[step]] = TRUE]
  /\ IF step < 3
     THEN launcherAt' = "launch" /\ step' = step + 1
     ELSE launcherAt' = "test" /\ UNCHANGED step
  /\ UNCHANGED <<starts, failed, gStop, signals, daemonVars, queueVars, alarmVars>>

(* The daemon has sent -1 or ended, or 5 s have passed without a word of    *)
(* it, or a signal has interrupted poll().                                  *)
NotStarted ==
  /\ launcherAt = "await" /\ ~told[This]
  /\ launcherAt' = "giveup"
  /\ UNCHANGED <<starts, step, failed, gStop, signals, known, daemonVars, queueVars, alarmVars>>

(* The channel is closed, those started before are stopped, and main        *)
(* returns: the queues keep their names.                                    *)
GiveUp ==
  /\ launcherAt = "giveup"
  /\ failed' = failed \union {starts}
  /\ IF step = 1
     THEN launcherAt' = "off" /\ UNCHANGED step
     ELSE launcherAt' = "term" /\ step' = step - 1
  /\ UNCHANGED <<starts, gStop, signals, known, daemonVars, queueVars, alarmVars>>

(* while (!g_stop) pause(): a signal between the two is not waited for. *)
TestStop ==
  /\ launcherAt = "test"
  /\ launcherAt' = IF gStop THEN "term" ELSE "pause"
  /\ UNCHANGED <<starts, step, failed, gStop, signals, known, daemonVars, queueVars, alarmVars>>

Pause ==
  /\ launcherAt = "pause"
  /\ launcherAt' = "paused"
  /\ UNCHANGED <<starts, step, failed, gStop, signals, known, daemonVars, queueVars, alarmVars>>

signalHandler ==
  /\ launcherAt # "off" /\ signals < MaxSignals
  /\ signals' = signals + 1
  /\ gStop' = TRUE
  /\ launcherAt' = IF launcherAt = "paused" THEN "test" ELSE launcherAt
  /\ UNCHANGED <<starts, step, failed, known, daemonVars, queueVars, alarmVars>>

-----------------------------------------------------------------------------
(* The launcher: stopDaemon. *)

(* p is no more, nor are its flag, its descriptors and its memory. *)
IsGone(p) ==
  /\ at' = [at EXCEPT ![p] = "gone"]
  /\ stopFlag' = [stopFlag EXCEPT ![p] = FALSE]
  /\ opened' = [opened EXCEPT ![p] = 0]
  /\ inHand' = [inHand EXCEPT ![p] = FALSE]

(* Nothing will write the row after the log in hand. *)
NoLogAfter == logs = <<>> /\ unlogged = {}

(* A core that is killed runs no destructors; a database daemon takes the   *)
(* log it handles with it.                                                  *)
Dies(p) ==
  /\ IsGone(p)
  /\ killed' = (killed \/ p[2] = Core)
  /\ tells' = (tells /\ ~(at[p] = "handling" /\ NoLogAfter))
  /\ unlogged' = IF p[2] = Core THEN unlogged \ {p[1]} ELSE unlogged
  /\ UNCHANGED <<alarm, row>>

(* SIGTERM kills a daemon that has no handler for it yet; one that has sets *)
(* its flag, and a core in pause() goes on to test it.                      *)
Terminate(p) ==
  IF at[p] = "booted"
  THEN Dies(p)
  ELSE /\ stopFlag' = [stopFlag EXCEPT ![p] = TRUE]
       /\ at' = [at EXCEPT ![p] = IF p[2] = Core /\ @ = "serving" THEN "test" ELSE @]
       /\ UNCHANGED <<opened, inHand, alarmVars>>

AfterStop ==
  IF step > 1 THEN launcherAt' = "term" /\ step' = step - 1
  ELSE launcherAt' = (IF starts \in failed THEN "off" ELSE "unlink") /\ UNCHANGED step

Term ==
  /\ launcherAt = "term" /\ at[This] # "gone"
  /\ Terminate(This)
  /\ launcherAt' = "ack"
  /\ UNCHANGED <<starts, step, failed, gStop, signals, known, told, crashes, names, owner, logs>>

(* ESRCH: no such process. *)
NothingToStop ==
  /\ launcherAt = "term" /\ at[This] = "gone"
  /\ AfterStop
  /\ UNCHANGED <<starts, failed, gStop, signals, known, daemonVars, queueVars, alarmVars>>

(* OK or the end of file on the shutdown channel. *)
Acknowledged ==
  /\ launcherAt = "ack" /\ at[This] = "gone"
  /\ AfterStop
  /\ UNCHANGED <<starts, failed, gStop, signals, known, daemonVars, queueVars, alarmVars>>

StopTimeout_NoKill ==
  /\ launcherAt = "ack" /\ at[This] # "gone"
  /\ AfterStop
  /\ UNCHANGED <<starts, failed, gStop, signals, known, daemonVars, queueVars, alarmVars>>

StopTimeout_Never == FALSE /\ UNCHANGED vars

(* 5 s have passed, or a signal has interrupted poll(): SIGKILL. *)
StopTimeout ==
  /\ launcherAt = "ack" /\ at[This] # "gone"
  /\ Dies(This)
  /\ AfterStop
  /\ UNCHANGED <<starts, failed, gStop, signals, known, told, crashes, names, owner, logs>>

Unlink_Forgotten ==
  /\ launcherAt = "unlink"
  /\ launcherAt' = "off"
  /\ UNCHANGED <<starts, step, failed, gStop, signals, known, daemonVars, queueVars, alarmVars>>

(* unregister() marks the queues this launcher owns, their destructors      *)
(* unlink them.                                                             *)
Unlink ==
  /\ launcherAt = "unlink"
  /\ launcherAt' = "off"
  /\ IF owner THEN names' = 0 /\ logs' = <<>> ELSE UNCHANGED <<names, logs>>
  /\ UNCHANGED <<starts, step, failed, gStop, signals, known, owner, opened, inHand,
                 daemonVars, alarmVars>>

main ==
  \/ CreateQueues \/ Launch \/ Waited \/ Started \/ NotStarted \/ GiveUp \/ TestStop \/ Pause
  \/ Term \/ NothingToStop \/ Acknowledged \/ StopTimeout \/ Unlink

-----------------------------------------------------------------------------
(* The daemons: start-up. *)

(* execl or fork fails: the process exits. *)
FailToFork(p) ==
  /\ at[p] = "exec"
  /\ at' = [at EXCEPT ![p] = "gone"]
  /\ UNCHANGED <<launcherVars, stopFlag, told, crashes, queueVars, alarmVars>>

(* The queues are opened.  The core then initializes its devices, which     *)
(* silences the alarm, and starts its threads.                              *)
Open(p) ==
  /\ at[p] = "starting"
  /\ at' = [at EXCEPT ![p] = "opened"]
  /\ opened' = [opened EXCEPT ![p] = names]
  /\ IF p[2] = Core
     THEN alarm' = FALSE /\ tells' = FALSE /\ killed' = FALSE
     ELSE UNCHANGED <<alarm, tells, killed>>
  /\ UNCHANGED <<launcherVars, stopFlag, told, crashes, names, owner, logs, inHand,
                 unlogged, row>>

PortIsTaken == \E s \in Starts : at[<<s, Web>>] \in InService
Listens(p)  == launcherAt \in {"await", "giveup"} /\ p = This

(* The PID is written.  Once the launcher has closed the channel, SIGPIPE   *)
(* kills a daemon that writes to it; the web daemon's library ignores that. *)
Tell(p) ==
  /\ at[p] = "opened"
  /\ p[2] = Web => ~PortIsTaken
  /\ IF Listens(p) \/ p[2] = Web
     THEN /\ at' = [at EXCEPT ![p] = IF p[2] = Web THEN "test" ELSE "booted"]
          /\ told' = [told EXCEPT ![p] = Listens(p)]
          /\ UNCHANGED <<stopFlag, opened, inHand, alarmVars>>
     ELSE Dies(p) /\ UNCHANGED told
  /\ UNCHANGED <<launcherVars, crashes, names, owner, logs>>

(* A device, the database or the port cannot be used: -1 is written, and    *)
(* the process ends in good order.  Its destructors silence the alarm if    *)
(* the failing init got that far.                                           *)
FailToStart(p) ==
  /\ at[p] \in IF p[2] = Core THEN {"starting"} ELSE {"starting", "opened"}
  /\ IsGone(p)
  /\ IF p[2] = Core
     THEN alarm' \in {alarm, FALSE} /\ tells' = FALSE
     ELSE UNCHANGED <<alarm, tells>>
  /\ UNCHANGED <<launcherVars, told, crashes, names, owner, logs, unlogged, killed,
                 row>>

InstallHandlers(p) ==
  /\ at[p] = "booted"
  /\ at' = [at EXCEPT ![p] = "test"]
  /\ UNCHANGED <<launcherVars, stopFlag, told, crashes, queueVars, alarmVars>>

Crash(p) ==
  /\ at[p] \in Alive /\ crashes < MaxCrashes
  /\ crashes' = crashes + 1
  /\ Dies(p)
  /\ UNCHANGED <<launcherVars, told, names, owner, logs>>

-----------------------------------------------------------------------------
(* The daemons: their loops and their end. *)

(* What the web daemon does between two tests touches nothing here. *)
TestFlag(p) ==
  /\ at[p] = "test"
  /\ p[2] = Web => stopFlag[p]
  /\ at' = [at EXCEPT ![p] = CASE stopFlag[p]  -> "ending"
                               [] p[2] = Core  -> "pausing"
                               [] OTHER        -> "serving"]
  /\ UNCHANGED <<launcherVars, stopFlag, told, crashes, queueVars, alarmVars>>

CorePauses(p) ==
  /\ p[2] = Core /\ at[p] = "pausing"
  /\ at' = [at EXCEPT ![p] = "serving"]
  /\ UNCHANGED <<launcherVars, stopFlag, told, crashes, queueVars, alarmVars>>

DatabaseReceives_Drops(p) ==
  /\ p[2] = Database /\ at[p] = "serving"
  /\ at' = [at EXCEPT ![p] = "test"]
  /\ logs' = IF opened[p] = names /\ logs # <<>> THEN Tail(logs) ELSE logs
  /\ UNCHANGED <<launcherVars, stopFlag, told, crashes, names, owner, opened, inHand,
                 alarmVars>>

(* A message is taken, which another database daemon, left by an earlier    *)
(* start, may be doing as well; or none came within a second.               *)
DatabaseReceives(p) ==
  /\ p[2] = Database /\ at[p] = "serving"
  /\ IF opened[p] = names /\ logs # <<>>
     THEN /\ at' = [at EXCEPT ![p] = "handling"]
          /\ inHand' = [inHand EXCEPT ![p] = Head(logs)]
          /\ logs' = Tail(logs)
          /\ tells' = (tells /\ \A q \in Processes \ {p} : at[q] # "handling")
     ELSE /\ at' = [at EXCEPT ![p] = "test"]
          /\ UNCHANGED <<inHand, logs, tells>>
  /\ UNCHANGED <<launcherVars, stopFlag, told, crashes, names, owner, opened,
                 alarm, unlogged, killed, row>>

(* The row is written, or SQLite refuses, which goes untold. *)
DatabaseHandles(p) ==
  /\ at[p] = "handling"
  /\ at' = [at EXCEPT ![p] = "test"]
  /\ inHand' = [inHand EXCEPT ![p] = FALSE]
  /\ \/ row' = inHand[p] /\ UNCHANGED tells
     \/ tells' = (tells /\ ~NoLogAfter) /\ UNCHANGED row
  /\ UNCHANGED <<launcherVars, stopFlag, told, crashes, names, owner, opened, logs,
                 alarm, unlogged, killed>>

(* tAct of the core switches the alarm and then logs it; it runs from the   *)
(* core's init until its threads are joined.                                *)
Switch(p) ==
  /\ p[2] = Core /\ at[p] \in Running /\ p[1] \notin unlogged
  /\ alarm' = ~alarm
  /\ unlogged' = unlogged \union {p[1]}
  /\ tells' = TRUE
  /\ UNCHANGED <<launcherVars, daemonVars, queueVars, killed, row>>

Log(p) ==
  /\ p[1] \in unlogged /\ p[2] = Core /\ opened[p] = names /\ Len(logs) < MaxLogs
  /\ unlogged' = unlogged \ {p[1]}
  /\ logs' = Append(logs, alarm)
  /\ UNCHANGED <<launcherVars, daemonVars, names, owner, opened, inHand, alarm, tells,
                 killed, row>>

(* What was started is ended, the core's alarm by its destructor; then the  *)
(* stop is acknowledged.                                                    *)
Finish_Sounding(p) ==
  /\ at[p] = "ending"
  /\ p[2] = Core => p[1] \notin unlogged
  /\ IsGone(p)
  /\ UNCHANGED <<launcherVars, told, crashes, names, owner, logs, alarmVars>>

Finish(p) ==
  /\ at[p] = "ending"
  /\ p[2] = Core => p[1] \notin unlogged
  /\ IsGone(p)
  /\ alarm' = (alarm /\ p[2] # Core)
  /\ tells' = (tells /\ p[2] # Core)
  /\ UNCHANGED <<launcherVars, told, crashes, names, owner, logs, unlogged, killed,
                 row>>

daemon(p) ==
  \/ FailToFork(p) \/ Open(p) \/ Tell(p) \/ FailToStart(p)
  \/ InstallHandlers(p) \/ Crash(p)
  \/ TestFlag(p) \/ CorePauses(p) \/ DatabaseReceives(p) \/ DatabaseHandles(p)
  \/ Switch(p) \/ Log(p) \/ Finish(p)

Next == Start \/ signalHandler \/ main \/ Forks \/ \E p \in Processes : daemon(p)

(* The launcher waits 5 s at most for a PID and for an acknowledgement, but *)
(* as long as it takes for what it executed to fork.  Nothing is asked of   *)
(* the daemons: each may hang wherever it is.                               *)
Spec == Init /\ [][Next]_vars /\ WF_vars(main)

-----------------------------------------------------------------------------
(* Properties. *)

(* Every variable keeps its type. *)
LauncherTypeOK ==
  /\ launcherAt \in LauncherPlaces /\ starts \in 0..MaxStarts /\ step \in 1..3
  /\ failed \subseteq Starts /\ gStop \in BOOLEAN /\ signals \in 0..MaxSignals
  /\ known \in [Daemons -> BOOLEAN]
  /\ at \in [Processes -> Places]
  /\ stopFlag \in [Processes -> BOOLEAN] /\ told \in [Processes -> BOOLEAN]
  /\ crashes \in 0..MaxCrashes
  /\ names \in 0..MaxStarts /\ owner \in BOOLEAN
  /\ opened \in [Processes -> 0..MaxStarts]
  /\ logs \in Seq(BOOLEAN) /\ Len(logs) <= MaxLogs
  /\ inHand \in [Processes -> BOOLEAN]
  /\ alarm \in BOOLEAN /\ unlogged \subseteq Starts
  /\ tells \in BOOLEAN /\ killed \in BOOLEAN /\ row \in BOOLEAN

(* "Reverse order to avoid pending dependencies" (main.cpp:229): when a     *)
(* daemon is stopped, those started after it have ended, whether they       *)
(* answered, hung, crashed or were never started; and when the launcher has *)
(* stopped the last of them, all it knew of have ended.                     *)
StopsInOrder ==
  \A i \in 1..3 :
    /\ known[Order[i]]
    /\ \/ launcherAt \in {"term", "ack"} /\ i > step
       \/ launcherAt \in {"off", "unlink"}
    => at[<<starts, Order[i]>>] = "gone"

(* Processes that are alive at one time talk through the same queues, also  *)
(* those that an earlier start has left behind: no two use queues that only *)
(* share their names (C_Mqueue.cpp:24-31, main.cpp:204-221).                *)
OneSetOfQueues ==
  \A p \in Processes : at[p] \in Running => opened[p] = names

(* "Launcher owns and unlinks" (main.cpp:185): the queues' names outlive    *)
(* the launcher only if the start that created them failed.  After such a   *)
(* start no later one owns them, and they are never unlinked.               *)
QueuesOutliveFailuresOnly ==
  launcherAt = "off" /\ names # 0 => names \in failed

(* The alarm outlives the cores only if one was killed or crashed.  Until   *)
(* the next core's init nothing silences it then (C_alarmActuator.cpp:11,   *)
(* main.cpp:174).                                                           *)
AlarmEndsWithCore ==
  alarm /\ (\A s \in Starts : at[<<s, Core>>] \notin Running) => killed

(* The alarm's row is right about the hardware once all logs are taken and  *)
(* handled -- but only after the alarm has been switched since a core's     *)
(* init or destructor silenced it, of which there is no log: the rows are   *)
(* seeded once, and after a restart the web pages show the state before it  *)
(* (dDatabase.cpp:249, C_alarmActuator.cpp:15).  A log is taken out of the  *)
(* queue before it is written (main_db.cpp:127, 130): if the daemon dies in *)
(* between, SQLite refuses, or a second daemon is handling an older log,    *)
(* the row waits for the next log.                                          *)
TableTellsAlarm ==
  /\ tells /\ ~killed
  /\ unlogged = {} /\ logs = <<>> /\ \A p \in Processes : at[p] # "handling"
  => row = alarm

(* The launcher waits for a daemon that does not fork. *)
HeldByDaemon == launcherAt = "waitpid" /\ at[This] = "exec"

(* A signal ends the launcher, however its daemons hang: unless it comes    *)
(* between the last test of g_stop and pause() (main.cpp:226), or a daemon  *)
(* hangs before its first fork (main.cpp:117), as the core may in insmod    *)
(* (maincore.cpp:88).                                                       *)
StopIsHeeded ==
  (gStop /\ launcherAt \notin {"pause", "paused"})
    ~> (launcherAt = "off" \/ []HeldByDaemon)
=============================================================================
