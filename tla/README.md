# Verification of SecureAssetGuard

TLA+ models of SecureAssetGuard, a guard for a room and a vault: RFID readers and a
door on the room, a fingerprint reader and a door on the vault, a PIR, an alarm, a fan,
and a web interface. Safety and liveness are model-checked with TLC on small instances;
every safety property of the passing runs is also proved with TLAPS for every value of the constants (section 4).
Paths below are relative to the repository's root.

## 1. The system

Four processes on one board, joined by POSIX message queues that the launcher creates:

| process | source | keeps |
|---|---|---|
| launcher | `main.cpp` | the queues it owns, the PIDs of the three others |
| core | `src/core/` | threads, sensors, actuators |
| database daemon | `src/daemons/database/` | the SQLite tables Users, Logs, Assets, Sensors, Actuators, SystemSettings |
| web daemon | `src/daemons/web/` | the sessions |

| queue | from | to | capacity |
|---|---|---|---|
| `mq_to_db` | every thread of the core, the web daemon | database daemon | 20 |
| `mq_to_actuator` | access threads, environment thread, timer callback | tAct | 20 |
| `mq_rfid_in`, `mq_rfid_out`, `mq_move` | database daemon | entry, exit, PIR thread | 10 |
| `mq_finger` | database daemon | vault thread | 10 |
| `mq_db_to_env` | database daemon, core's stop | environment thread | 10 |
| `mq_db_to_web` | database daemon | web daemon | 10 |

### Components

| component | state | operations | what makes it correct |
|---|---|---|---|
| tAct (`C_tAct.cpp`) | command in hand, hardware, alarm timer | receive, apply, arm or disarm the timer, log, stop | a sounding alarm ends; the table of actuators follows the hardware; an alarm runs its own timeout |
| alarm timer | armed or not, callbacks in flight | expire, send OFF | no OFF is lost |
| entry thread (`C_tVerifyRoomAccess.cpp`) | card, failed attempts | read, ask, unlock, log, wait for the door, lock; raise the alarm on the third denial | only registered cards pass; the door does not stay free; the third denial alarms |
| exit thread (`C_tLeaveRoomAccess.cpp`) | card | as the entry thread, without the alarm | as above |
| PIR thread (`C_tCheckMovement.cpp`) | - | ask who is inside; alarm if nobody | no alarm for a user inside |
| vault thread (`C_tVerifyVaultAccess.cpp`) | pending enrolment | ADD and DELETE commands, verify, unlock, lock | the finger enrolled is that of the user created |
| inventory thread (`C_tInventoryScan.cpp`) | - | scan when the vault closes, report, log | the list shows the latest reading, whole |
| environment thread (`C_tReadEnvSensor.cpp`) | threshold, interval, last fan state | load settings, sample, drive the fan | the fan follows the threshold in the table |
| signal handler, monitors (`C_tSighandler.cpp`, `C_Monitor.cpp`) | signals pending in the kernel | wake every waiter | a wake-up is not lost |
| database daemon (`dDatabase.cpp`) | tables | one handler per command | each request is answered once, to the one who asked |
| web daemon (`dWebServer.cpp`) | sessions | one handler per route; 2 s for the database's reply | the reply shown is the one to the request |
| launcher (`main.cpp`) | children, queues | start with a 5 s timeout, stop with a 5 s timeout | the children end in the opposite order of their start; one set of queues |
| drivers (`core/devices/`) | frame under way, state of the device | read, enrol, delete, move | no late answer or old frame passes for what was asked |

Interaction is by messages only, except for the monitors (shared by the signal handler and
the threads) and the two servos, fan and alarm, which only tAct drives. What is hard:
blocking sends on bounded queues between processes that wait on each other; replies that
carry no request id; monitors without memory; a timer whose expiry travels through the
same queue as the commands it races with; and tables that mirror hardware only through logs.
`PROJECT.json` lists the hazards line by line with the properties aimed at them.

## 2. The modules

| module | models | extends |
|---|---|---|
| `Actuation` | tAct, the alarm timer and its callback, the Actuators table; the senders are an open environment | - |
| `ActuationProofs` | theorems about `Actuation` | `Actuation` |
| `RoomAccess` | entry, exit and PIR thread, their monitors and reply queues, the daemon's answers | `Actuation` |
| `RoomAccessProofs` | theorems about `RoomAccess`, which implements `AccessControl` | `RoomAccess`, `ActuationProofs` |
| `WebLink` | how the web daemon asks for a change: request, 2 s, answer | `Actuation` |
| `Users` | the Users table and the handlers that change it | - |
| `VaultAccess` | the vault thread, enrolment, the daemon's user handlers | `WebLink`, `Users` |
| `VaultAccessProofs` | theorems about `VaultAccess` and `Users` | `VaultAccess`, `ActuationProofs` |
| `Environment` | the environment thread, its settings, the fan | `WebLink` |
| `EnvironmentProofs` | theorems about `Environment` | `Environment`, `ActuationProofs` |
| `Inventory` | the inventory thread, its readings and logs, the Assets table | - |
| `InventoryProofs` | theorems about `Inventory` | `Inventory` |
| `WebServer` | the web daemon's event loop, requests and sessions, late answers | - |
| `WebServerProofs` | theorems about `WebServer` | `WebServer` |
| `AccessControl` | what the access to the room promises, without threads and queues | - |
| `Launcher` | the launcher, the lives of the three daemons, two starts, the alarm and its row | - |
| `LauncherProofs` | theorems about `Launcher` | `Launcher` |
| `Uart` | a serial port: what is taken, what is left | - |
| `Fingerprint`, `TagReader`, `CardReader` | the serial drivers and their devices | `Uart` |
| `FingerStore` | what a call of the fingerprint driver promises, without commands, answers and time-outs | - |
| `Servo` | a servo and its PWM channel in the kernel's files | - |
| `Sht30` | the temperature sensor and its checksum | - |
| `Drivers` | the five drivers, one at a time | all of them |
| `DriverProofs` | theorems about the drivers; `Fingerprint` implements `FingerStore` | the five drivers |
| `RoomLeaver` | `RoomAccess` with a record of the users who are leaving | `MCRoomAccess` |
| `MCActuation`, `MCRoomAccess`, `MCVaultAccess`, `MCEnvironment`, `MCInventory`, `MCWebServer` | small sets and model values for TLC | |

`Actuation` is both a model of tAct and the abstract specification of the actuation path:
`RoomAccess`, `VaultAccess` and `Environment` put real threads in the place of its open
environment and are shown to implement it. `AccessControl` is the abstract specification of the other side of
`RoomAccess`. `FingerStore` is that of `Fingerprint`, and what
`VaultAccess` takes the sensor for. Definitions with a two-part name (`Flush_Not`) are
plausible bugs of the definition they are named after; they are not part of any
specification.

### Actuation

`mqToActuator` and `mqToDatabase` are the two shared queues in sending order (all sends use
one priority); a send is enabled only while the queue has room, as `mq_send` blocks. `pc`
is tAct's place in `run` and `processMessage`: `check` (the loop condition), `receive`,
`apply` (`set_value`), `timer` (only after an alarm command), `log`, `done`, and `destroyed`
once the actuators' destructors have run, which is after joins that need not return. Receiving from an empty queue is the 1 s
time-out. `hw` is what each actuator was last set to. A servo of `FaultyServos` may fail in
`set_value`: the failure of an angle is returned and not logged, that of `stop()` is returned as
done and logged, and the pulses go on. `Expire` and `AlarmTimerCallback` are the two
halves of the SIGEV_THREAD notification: the callback runs in a thread of its own and
blocks like any sender. `DbTake` is the database daemon reading one message; a log of an
actuator updates its row.

### RoomAccess

`RoomAccess` extends `Actuation` and puts the real threads in the place of its environment.
`at[t]` is the place of thread `t`; entry and exit share the definitions from `unlock` to
`lock`, which are the same code. The database daemon is two steps, `DbProcess` (take a message
and decide, updating `IsInside`) and `DbReply` (the send of the answer, which may block), so
everything the other threads do in between is covered. `reedSignals` counts the reed switch
signals pending in the kernel; `ReedSignal` is tSighandler waking every thread that waits
at that instant, and nobody else. `Sense` is a card read or a movement seen; which card is
read is free, so a stale frame of the reader is covered. `Stop` sets all stop flags at once.
The table is as an earlier run of the core left it: anybody registered may be inside at the start.
`RoomLeaver` adds who has been marked outside and has no free door yet, for the run of that name.

`AccessControl` knows no messages: a card is presented, granted or denied by the table of that
moment, and the decision is acted on once. `ImplementsAccessControl` maps to it: `decision[t]`
is what the question in `mq_to_db`, the answer in the daemon's hand and the reply in the
thread's queue say together, `passing` the threads between grant and lock, `owed` those about to
raise the alarm.

### Users and VaultAccess

`Users` holds the rows of the table (`users`, by UserID, with AUTOINCREMENT as
`lastUserId`) and one operator per handler, each with its own checks: a credential is
needed, cards and fingers are UNIQUE, the administrator is not touched, a finger once given
is kept. `VaultAccess` drives them. The daemon is three steps: `VaultDbProcess` changes the
table and decides on the command for the sensor, `DbNotify` sends it to `mq_finger`, `DbAnswer`
answers the web daemon; the last two block, also on an answer that nobody took in time. `vaultAt` is the place of the vault thread:
it drains `mq_finger` between touches (`DrainOne`), a touch either enrols the pending
finger or is matched against the slots of the sensor, a match frees the vault, waits for its
door and locks it. The bytes exchanged with the sensor are reduced to success, refusal
and silence; an ID reaches the sensor modulo the number of its slots (`Slot`).

### Environment

`envAt` is the place of C_tReadEnvSensor: it asks for its settings, takes the first
message that arrives for the answer (or goes on after 5 s), and then waits in the same queue
for a whole sampling interval, which any message cuts short. `current` and `lastFanState` are
its members. `EnvDbProcess` and `EnvDbSend` are the daemon's update of SystemSettings
and the push to the thread; SQLite may refuse the update. The core's stop is two steps, the flags (`CoreStop`) and the
message that wakes the thread (`SendStop`), which blocks like any other.

### Inventory

A reading is five moments: `Read` (the reader returns at most MAX_TAGS distinct tags),
`SendScan`, `StampLog` (the thread's clock), `SendLog`, and, in the daemon, the stamp of the
assets when it takes the reading. `Tick` moves the clock between any two of them. `Inside` is
what handleGetAssets shows: stamped no earlier than the newest inventory log. The pages
create and remove assets through the same queue.

### WebServer

The event loop handles one page at a time: `Handle` (routing, session and level),
`Send` (blocks), then an answer or the 2 s (`ReceiveTimeout`). Answers carry no number; the
`id` in the model is for the properties only, no action looks at it. An answer is reduced
to the shape of its JSON, because that is what the handlers depend on: a login reads members,
the dashboard sets one, text longer than `jsonData` is cut. Where the JSON library would
throw, the daemon is `down`. `CoreSend` is every other sender to `mq_to_db`. Sessions are
those of `m_sessions`; `Expire` is the hour passing.

### Launcher

`launcherAt` follows `main`: create the queues, launch each daemon of `Order`, wait for what was
executed to fork (`waitpid`, without a time-out) and then for the daemon's PID, test the flag, pause, and `term` and `ack` each in the opposite order (`step`). A process is a
pair of a start and a daemon, so those an earlier start left behind are still there at the
next: `at` is their place, `opened` the start whose queues they hold, `names` the start
whose queues bear the names now. `Forks`, `Open`, `Tell`, `InstallHandlers`, `TestFlag` and `Finish` are the
main functions of the three; `FailToFork`, `FailToStart` and `Crash` are what goes wrong. Of their
work only the alarm is here (`Switch`, `Log`, and in the database daemon `DatabaseReceives` and
`DatabaseHandles`, between which it holds the log in `inHand` and may die), to see what a restart does to
the hardware and its row. `tells` says that the last switch of the alarm is on its way to the row: no
switch since a restart, or a log that was mislaid, and it is false.

### Drivers

`Uart` has the one thing the serial drivers rely on: a read takes what has come in and never
waits. The bytes of a frame are grouped into two or three symbols, so that a frame may be cut,
garbled or joined with another where it matters. In `Fingerprint` an answer carries the
serial number of its command for the properties only. `Legible` is ICRNL: an answer whose bytes, the
checksum among them, hold a 13 is none. `ImplementsFingerStore` maps it to a call that
is idle, open or over (`Phase`): what the sensor is told may happen while the call is open, or after it
has failed and before `sleep()`, and never in another call. `TagReader` has the whole scan, from power
on to power off, or to a START that cannot be sent; what noise leaves is a phantom, a different one each time; `CardReader` one call of `read()` after another, with a reader that repeats
a frame; each symbol notes how many calls had ended when it came in. `Servo` has each write to the
channel's files as a step of its own, since each can fail, the export of the channel too, and the
channel outlives the core. `Sht30` computes the checksum as the code does, bit by bit, a byte being the set of its one bits,
and errs in bursts of up to eight bits and in pairs of bits. `Drivers` picks one driver at the start: they share nothing.

## 3. The runs

| run | instance | shows |
|---|---|---|
| `Actuation` | `mq_to_actuator` of 2, `mq_to_db` of 1, two callbacks, doors and alarm, one faulty servo, tAct and the timer fair | `AlarmGuarded`, `TableFollowsHardware`, `AlarmEnds` |
| `RoomDoor` | entry and exit, queues of 1, one registered card and a stranger | `RoomTypeOK`, `ReplyIsMine`, `OnlyRegisteredPass`, `FreeDoorIsHeld`, `ImplementsActuation` |
| `RoomLive` | entry and PIR, three attempts, queues of 1, fairness | `ThirdDenialSoundsAlarm`, `EveryRequestIsAnswered`, `ImplementsAccessControl` |
| `VaultDoor` | the web daemon creates, registers, changes and removes users; touches; a failing sensor with one slot; two requests, queues of 1, fairness | `FreeVaultIsHeld`, `LastCommandTellsTable`, `LevelTellsCredentials`, `NobodyIsLockedOut`, `VaultImplementsActuation`, `CommandsAreTaken` |
| `Environment` | one setting to choose, with an interval of 0, temperatures of 10 and 45, two updates, queues of 1, fairness | `FanTellsLastState`, `SettingsAreCurrentOrDefault`, `StopReachesEnv` |
| `Inventory` | two tags, three seconds, fairness | `LatestReadingIsWhole`, `LatestLogCounts`, `StopEndsInventory` |
| `WebServer` | a user and the administrator, four requests, queues of 1, fairness | `AnswersInOrder`, `SessionsWereProved`, `LateForGood`, `StopEndsServer` |
| `Launcher` | two starts, a signal, a crash, late and hung daemons, a log in the hand of one, the launcher alone fair | `StopsInOrder`, `OneSetOfQueues`, `QueuesOutliveFailuresOnly`, `AlarmEndsWithCore`, `TableTellsAlarm`, `StopIsHeeded` |
| `Drivers` | four commands to the fingerprint sensor, two scans, three cards, three moves of a servo, words of the sensor's; noise and failures | `AnswerIsOfThisCommand`, `ImplementsFingerStore`, `TagsAreOfThisScan`, `CountIsHonest`, `CardIsFresh`, `ToldIsDone`, `ReadingIsMeasured` |

`RoomDoor` checks the types of `RoomAccess` and with them those of `Actuation`, which the first
proofs rest on; the runs spend their other properties on what can go wrong, and the types of the
other modules are proved without a run of their own. `LateForGood` is the other half of `WebLate`:
what is late stays late, by exactly as many answers as waits were given up.

Three runs show that the code does not do what one of its comments says:

| run | what happens |
|---|---|
| `RoomLeaver` | a user with `IsInside` = 1 shows a card at the exit; the daemon sets it to 0 and answers; the PIR asks before the door is free, is told that nobody is inside, and the alarm sounds |
| `VaultGhost` | a user is removed before the touch that enrols the finger: the finger is enrolled afterwards |
| `WebLate` | an answer that comes after the 2 s is taken for the answer to the next request, and all later ones stay one behind |

### Seen in the models, without a run of their own

Each of these is a behaviour of the modules above; a property that forbids it is violated.

- The OFF of an expired timer waits behind a new ON; tAct applies ON, arms a new timer and at
  once applies OFF: the new alarm is silenced before its time (`C_tAct.cpp:77`).
- One closing of the room's door wakes the entry and the exit thread; the lock of one may
  reach tAct after the free of the other (`C_tVerifyRoomAccess.cpp:74`).
- A door that closes while the thread still sends its log finds no waiter: the signal is lost
  and the door stays free (`C_Monitor.cpp:41`).
- Of several ADD_USER commands taken before a touch only the last is enrolled
  (`C_tVerifyVaultAccess.cpp:41`).
- Daemon and vault thread wait for one another: one for room in `mq_finger`, the other for
  room in `mq_to_db` (`dDatabase.cpp:1029`), which `CommandsAreTaken` excepts by name
  (`MutualWait`). The same with the environment thread and a full
  `mq_db_to_env`, which `StopReachesEnv` excepts by name (`EnvMutualWait`), and with the web daemon and a
  full `mq_db_to_web`, which `StopEndsServer` (`WaitForOneAnother`) and the two others
  (`AnswerBlocked`) except. Each of the three fails without its exception. The last circle takes more waits
  given up than `mq_db_to_web` has places (`WaitingNeedsLateAnswers`); the threads of the room are
  never part of such a circle (`RepliesFit`).
- A change of a name may give it to a second row with a password (`dDatabase.cpp:1099`), of
  which handleLogin reads only the first; a vault log may show the name of another user, as one
  number is both UserID and fingerprint ID (`dDatabase.cpp:389`).
- An UPDATE_SETTINGS ahead of the answer to the thread's own request is taken for that
  answer and dropped (`C_tReadEnvSensor.cpp:45`).
- When the daemon stamps a reading in the second before the thread stamps its log, all that
  was found is listed as Outside (`dDatabase.cpp:1220`); `LatestReadingIsWhole` allows exactly this.
- tAct may end first and leave `mq_to_actuator` full; the environment thread then never ends
  (`C_SecureAsset.cpp:353`), an exception `StopReachesEnv` names (`FanUnheard`). The join of that thread
  then never returns, no destructor runs, and a sounding alarm sounds on: `AlarmEnds` says nothing
  once tAct has ended.
- A database daemon that takes no more messages stalls tAct at its next log, and the OFF of a
  sounding alarm waits behind it for ever (`C_Mqueue.cpp:63`): `AlarmEnds` excepts it (`DaemonStalls`).
- The launcher gives up on a daemon that starts late. The database daemon and the core then die
  of SIGPIPE; the web daemon, whose library ignores that signal, serves on and keeps its port, so
  that later starts fail (`main.cpp:65`, `dWebServer.cpp:22`).
- After a failed start the queues keep their names, no later start owns them, and nobody
  unlinks them (`main.cpp:185`, `main.cpp:204`).
- A signal between the test of the flag and `pause()` is seen only at the next one
  (`main.cpp:226`, `maincore.cpp:121`); `StopIsHeeded` leaves this case out by name. So it does a
  daemon that hangs before its first fork, as the core may in `insmod` (`maincore.cpp:88`): the launcher
  waits for it without a time-out, and no signal ends the wait (`main.cpp:117`; `HeldByDaemon`).
- A log that the database daemon has taken is lost if it dies before it has written the row
  (`main_db.cpp:127`, `main_db.cpp:130`), or if SQLite refuses; the row is then wrong until the alarm is
  switched again. `TableTellsAlarm` names the logs that are mislaid.
- After a restart the rows of alarm and fan stay what they were until the next switch
  (`dDatabase.cpp:249`).
- `configPort` leaves ICRNL set, the default of a terminal: a byte 13 comes in as 10, so the user of
  fingerprint 13 is never verified, and the 13s in tags are read as 10 (`C_UART.cpp:103`). So it is with
  a fingerprint whose two bytes are equal, such as 257: the checksum of its match is 13.
- The servo's init writes a duty cycle of 90 %, the angle of a locked door, and the channel is on by
  then (`C_ServoMG996R.cpp:46`); a failed write of `stop()` is returned as done.
- A card shown while the thread serves the one before it is read next: nothing is dropped at the
  start of `read()` (`C_RDM6300.cpp:34`).
- A wrong checksum in a report of the tag reader is only warned of, so that noise may add an item to
  a reading (`C_YRM1001.cpp:217`); `CountIsHonest` allows one for each disturbance.

### Bounds

Capacities of 1 to 3 instead of 10 and 20 fill and drain the queues in every order; the
proofs cover all capacities. In `VaultDoor` all fingers share the sensor's one slot, which is
the hardest case for what commands and table say of each other, and keeps the run short. In `VaultDoor` and `Environment` every queue
holds one message, so that each blocking send does block; two requests are enough for the answer to the
first to be late and the second to find `mq_db_to_web` full. In `Inventory` a reading holds
as many tags as there are: what it had no place for leaves no trace that a property could look at. Two
callbacks in flight suffice to have an old OFF behind a new ON. One registered card and one
stranger are all the daemon tells apart. `MaxAttempts` is the code's 3 where the count matters
and 2 where only the alarm does. `MaxReed` = 1: the handler wakes the same waiters for
one signal as for more. Four web requests are enough for two to be given up, a third to
take the answer of the first, and a fourth to block. Three seconds are enough for a reading and
its log to be stamped apart, for two readings to share a second, and for a third to follow. One
chosen setting is enough to replace what was loaded, and the two temperatures are below and above
the thresholds of all settings but the defaults.

Two starts (`MaxStarts`) let what one leaves behind meet the next; one signal, one crash and one log
of the alarm under way are enough for every order of the three, as each may come at any place of
any start, that of a database daemon with a log in hand included. In `Drivers`, four commands are an enrolment of three and one after it, or a time-out
and its late answer; slot 13 is the one ICRNL spoils. `FlushMax` = 3 symbols stand for the 640
bytes of a flush and `RxCap` for two flushes, the most the port may hold by
`TagReaderAssumption`: that the driver is never held up for more than 110 ms in the middle of a
scan. With more the first reports of a scan can be those of the scan before. The checksum of the
temperature sensor is linear, so that what an error does to it does not depend on the word
(`XorLinear`, `ByteCrcLinear`): the four words of `Bytes` stand for all, and `ReadingsAreTrue` is
for all.

`CHECK_DEADLOCK FALSE`: the processes really stop, and the mutual waits above are reachable.

### Fairness

Every thread and daemon is scheduled (weak fairness), except the database daemon and the destructors in
`Actuation`: one may block on queues that are not in that model, the others follow joins that may
never return. Strong fairness only for blocking
sends (and, in `VaultDoor`, for the thread and tAct as wholes, most of whose steps are or follow
such sends): the kernel hands a freed slot of a message queue to a sender that waits for it, so a
blocked sender is not overtaken for ever; and for the end of the web daemon's loop, which comes
round again after each poll. A running timer expires; the vault's door, once freed and waited for,
closes again (in `VaultDoor`); a wait of one second times out. Nothing is assumed of cards, movement, touches,
the room's door, readings, page requests or the stop, and neither the sampling interval nor the
5 s of the environment thread need elapse: they may be longer than the launcher waits.
In `Launcher` only the launcher itself is fair: its waits for a PID and for an acknowledgement end after
5 s, the one for what it executed only when that forks or dies. The daemons may hang wherever they are.

## 4. The proofs

TLAPS checks the theorems below for all values of the constants that satisfy the modules' named
assumptions: any capacities, cards, users, tags, slots, angles and temperatures, any choice of the
room's threads and of faulty servos, and any number of starts, signals, crashes, requests, seconds,
commands, scans and disturbances. The assumptions say what kind of thing each constant is, and
besides only what the code has: fingers are positive numbers, the administrator's among them, a
finger's ID in the sensor has 16 bits, and, in `TagReaderAssumption`, that the port never holds more than two flushes discard
(section 3, Bounds).

| theorem | argument |
|---|---|
| `TypeCorrect` | `TypeOK` with `HandOK`, what `pc` says of the command in hand |
| `AlarmIsGuarded` | inductive as it stands, given the types: only the callback sends OFF, and every expiry leaves a callback, an OFF queued, or an OFF in hand |
| `TableIsTrue` | by the last log of each actuator under way; needs `HandOK` for the log about to be sent |
| `RoomTypeCorrect`, `RoomImplementsActuation` | every room step is a step of `Actuation` or leaves it alone |
| `RoomAlarmAndTable` | hence the two invariants hold with the real threads |
| `RepliesAreMine` | `Exchange(t)`, for all threads at once: at most one question or answer of `t` is under way, and it is about the card `t` read last. The daemon's step needs the exchange of the thread it answers, every other step only its own |
| `RepliesFit` | from `RepliesAreMine`: while the daemon sends a reply to `t` there is none in `t`'s queue, which has at least one place |
| `OnlyRegisteredGetThrough` | from `RepliesAreMine`: the reply a thread takes on a grant is about its own card |
| `RoomImplementsAccessControl` | step by step: `Exchange(t)` makes what is known of a question one of none, open, granted and denied, which only Sense, the daemon's decision and the taking of the reply change; the decision is about the card presented because the question is |
| `FreeDoorIsAlwaysHeld` | `FreeDoorIsHeld` is not inductive: a locked door with a free command still queued would satisfy it and be free one step later. `DoorInv` adds that once no thread holds the door, the last command to its servo still queued or in hand is a lock |
| `LauncherTypes`, `DaemonsStopInOrder`, `QueuesAreShared`, `NamesOutliveFailuresOnly`, `AlarmDiesWithCore`, `RowTellsAlarm` | one inductive invariant, `LauncherInv`: no process exists before its launch (`StartsInv`); while it starts up the launcher knows exactly the daemons before `step`, afterwards all unless the start failed (`KnownInv`); names that exist are either a failed start's or its own, and then nobody of an earlier start lives (`QueueInv`); the last log is of the alarm as it is, in the queue, then in the hand of the only daemon that handles one, then in the row, unless it was mislaid (`TableInv`, by cases on how a log is taken, handled, or lost with its daemon). The queues are dropped only when nobody lives, as the stops are in order |
| `VaultRefinesActuation`, `VaultAlarmAndTable` | every step of the vault is one of `Actuation` or leaves it alone; hence alarm and table, as in the room |
| `VaultTypeCorrect`, `LevelsTellCredentials`, `EverybodyGetsIn` | handler by handler: each writes a row whose level, card, finger and password fit, or removes one. That no two rows share a card or a finger (`FingersUnique`) is part of it |
| `FreeVaultIsAlwaysHeld` | as for the room: `VaultDoorInv` adds that once the thread does not hold the door, the last command to its servo that is queued or in hand is a lock |
| `LastCommandIsTrue` | inductive with `CommandTells`: a command appended is about a finger the same handler gives or takes, and as fingers are unique no other row changes what it says |
| `EnvironmentRefinesActuation`, `FanIsAsLastTold` | the fan's last command under way, or else the hardware, is what `lastFanState` says; the thread's own step changes both sides at once |
| `EnvTypeCorrect`, `SettingsAreNotStale` | `SettingsInv` is about each place in the queue, not only its end: what the thread will have been told before it (`ToldBefore`) is what any answer in that place repeats (`LateAnswersRepeat`), so the thread loses nothing when it drops an answer that comes late; an update dropped in place of the answer leaves it on the defaults, which it has until then (`DefaultsUntilLoaded`) |
| `InventoryTypeCorrect`, `NewestLogIsTheLatest`, `ReadingIsListedWhole` | `InventoryInv`: logs are past and the newest one that is known or under way is the latest; the assets' stamps are those of the daemon's last reading (`ReadingStamped`). The list shows all of a reading or none, as one stamp is compared with one log |
| `WebServerTypeCorrect`, `EveryRequestIsAnsweredInOrder`, `SessionsAreProved` | `WebServerInv`: the numbers under way are a stretch without gaps, counted from the place behind (`AskedAfter`); a step adds at the end or takes at the front, which changes the count by one or not at all. `LoginsVouched`: an answer that opens a session is to a login with the right password, whichever handler takes it |
| `LateStaysLate`, `WaitingNeedsLateAnswers` | from `WebServerInv`: sending adds one to what is under way and taking an answer removes one, each with the wait that begins or ends, so that only a wait given up changes `Lag`; the answer taken is the oldest under way and the waiting request the latest (`AnswerIsOldest`). When both daemons wait, all that is under way is late, and that is a full queue and one more |
| `FingerprintTypeCorrect`, `AnswersAreOfTheCommand`, `ResultsAreTrue` | neither is inductive. `FingerprintInv` has three phases while the driver waits: the sensor works on the command and nothing of an answer is anywhere (`Working`), is sending it and no second half has come in (`Sending`), or is silent (`Sent`). So two halves in the buffer mean that the sensor is done, what the answer tells (`Tells`) cannot change any more, and nothing is left to arrive before the next flush |
| `FingerprintImplementsStore` | step by step, from `FingerprintInv`: the sensor works on a command only while the call is open or has failed (`EffectMaps`), and a call that returns success or a match finds in the templates what it tells (`ReturnMaps`); all else leaves the abstract state alone |
| `TagReaderTypeCorrect`, `TagsAreOfTheScan`, `TagCountIsHonest` | between the two flushes at most `FlushMax` old symbols are left, all in front (`FlushedOnce`), and the module is silent; after the second everything on the line is of this scan. The list holds each tag once, and a phantom only if the line was disturbed (`Listed`), each with the number of its disturbance (`SoFar`), so it injects into the tags and the disturbances so far |
| `CardReaderTypeCorrect`, `CardsAreFresh` | the port is empty whenever a read ends, so that all it holds came in after the last one |
| `ServoIsAsTold` | `ServoPlace`: nothing is returned as done before the second write, by when the channel is there and on; the pulses of all angles from 1 to 180 are from 1 to 2 ms |
| `ReadingsAreTrue` | the checksum of a sum is the sum of the checksums (`ByteCrcLinear`), so an error passes only if it is itself a word with a right checksum, counted from 0 (`Syndrome`); what each bit of a byte becomes (`ByteCrcBits`) leaves no burst of up to eight bits (`BurstIsSeen`) and no pair (`PairIsSeen`) for that |

Only model-checked: the liveness properties (`AlarmEnds`, `ThirdDenialSoundsAlarm`,
`EveryRequestIsAnswered`, `CommandsAreTaken`, `StopReachesEnv`, `StopEndsInventory`,
`StopEndsServer`, `StopIsHeeded`), which rest on fairness and are beyond TLAPS, and the three
violations.

## 5. Not modelled

- `EINTR` of a timed receive (Linux delivers SIGTERM to the main thread) and spurious wake-ups
  of a condition variable.
- Errors of `mq_send` other than blocking; a queue once open stays so while its process runs.
- The text of log descriptions, names of assets, humidity and the Sensors table, passwords
  beyond right and wrong, the bodies of page requests.
- An error of a receive other than its time-out, on which the PIR thread ends its question and the
  others go on (`C_tCheckMovement.cpp:58`).
- The moment between a SIGKILL and the end of the process: in `StopTimeout` it is gone at once.
- The permission of 1 in the answer to CMD_MATCH has the value of ACK_FAIL (`C_Fingerprint.h:23`); a
  sensor that answered CMD_MATCH with it as a refusal would be taken for a match. The sensor's own
  refusals (5, no such user, and 8, time-out) are what the model has.
- The servo's first duty cycle, 90 %, is the value 90 in `Actuation`: nothing there looks at it; `Servo`
  has the pulse.
- A timer callback that outlives the `C_tAct` object.
- PID files, the second fork and the redirection of output of the daemons; the migration of an
  older database.
- Results of GPIO pins, which nothing reads; the opening of devices beyond success and failure;
  `deleteAllUsers`, which nothing calls.
- The web pages, the build files.

Assumed of what is outside `src/`: a POSIX queue keeps order within a priority, a terminal has
ICRNL set until somebody clears it, the fingerprint sensor forgets a command when its reset line is
low, the tag reader stops when its power is off, and a PWM channel keeps its settings until they are
written again.

## 6. Plan

1. `Actuation`, `RoomAccess` and their proofs; `Users`, `VaultAccess`, `Environment`,
   `Inventory`, `WebServer` (done).
2. `AccessControl` and the proof that `RoomAccess` implements it; `Launcher` and its proofs; the
   drivers (done).
3. Proofs of the safety of `VaultAccess`, `Environment`, `Inventory`, `WebServer` and the
   drivers (done).
4. `FingerStore`, the checksum, and how far behind the web pages fall, with their proofs (done).

Left out on purpose: `VaultAccess` and `Inventory` in one module. The two threads share the reed
switch of the vault and `mq_to_db`; a signal wakes every waiter, each then goes its own way, and
neither reads what the other writes.
