# home-auto in TLA+

A model of the home-auto daemon (C, `src/code`), its PHP clients and its web page
(`src/web`): TLA+ modules translated from the source, TLC configurations that check them
on small instances, and theorems proved with TLAPS.

## 1. The system

One process, `home-auto`, controls the relays, digital inputs and energy analyzers of up
to 24 devices on a UniPi board. `main()` reads `home.conf`, starts the logger, reads
`devices.xml` into an array of devices, and starts two threads:

* the **core thread** (`main.c: core`) runs one iteration per second of
  `CLOCK_MONOTONIC`. An iteration calls `historify_device` and `fire_device` on each
  device; an iteration that took too long is followed at once by the next, because the
  thread sleeps until an absolute target time;
* the **server thread** (`tcp_server.c`) accepts one TCP client at a time, answers its
  requests, and accepts the next when the client has closed.

A browser runs `home.js`, which calls PHP pages; each page opens a connection, sends one
XML request, reads once and closes. systemd restarts the daemon whenever it ends.

| Component | State | Operations | Interacts with | Hard behaviour | What makes it correct |
|---|---|---|---|---|---|
| Core loop `main.c` | target time | start-up, iteration, signal handler | calls historification and fire per device | late iterations in bursts, signal during logging | no timer goes off early; a signal ends the process |
| Fire schedule `fire.c` | `remaining_ticks`; per entry `running`, `period_countdown`, `duration_countdown` | `fire_device` (period or date mode), entry matching | relay file, wall clock | two clock readings, two countdowns, hand-over between dates, failed writes, restart | relay driven exactly `duration` ticks per round, rounds not too close, open at the start hour, go on for ever |
| Historification `historify.c`, `db.c` | value and last value per point, `remaining_ticks`; rows in PostgreSQL | sample, log on change, log all | relay, input, analyzer, database | failing reads and inserts, restart between sample and log | rows follow samples; exactly every period; values settle |
| Relay and input files `relay.c`, `digital.c` | a file per pin | open, (truncate,) write or read, close | both threads | read between truncate and write, crash between them, unopened file, uninitialised `status` | a state that rests is read in the end |
| Modbus analyzer `modbus.c` | a connection per read | connect, read register, convert | core thread | failing reads that return without closing | descriptors are returned |
| Device array `device.c` | 24 devices | `set_devices`, `get_all_devices`, `get_device`, `update_pin_state` | all of the above | fields read by one thread and written by the other without a lock, a file never closed, the file edited after it was read, ids longer than their place, a switch of a device without relay | a switch is shown; a listed device is served |
| devices.xml reader `device_xml.c` | parse tree | `read_devices_xml` | device array | absent children and attributes, more elements than places | what is in the file is in the array |
| TCP server `tcp_server.c` | one connection, two buffers | accept, recv, parse, dispatch, send | PHP clients, device array | split segments, killed clients, full backlog, descriptors used up by either thread, ends of the process | every request answered once, with its own answer |
| PHP clients `web/request`, `connection.php` | one socket | connect, send, read, close | server | killed at any point, one read per answer | the whole answer is read |
| Web page `home.js` | the table of devices | poll | PHP clients | overlapping polls, one chance to register a device | the page settles on the actual values |
| Configuration `config.c` | 15 name/value slots | `load_config`, `get_var_value` | everything at start | blank lines use slots, last line without newline, too many lines, unknown name ends the process | what is in the file is found |
| Logger `logger.c` | level, file, size, mutex | log, rotate, flush | all threads, signal handler | rotation that fails half-way, a signal while the mutex is held, a crash with lines in the buffer | the files hold the messages in order and without gaps |
| Supervision `home-auto.service` | | restart | process | restart at any point | `Restart=always` |

Not part of the running system: the analyzer simulator (Go), shell scripts, the static
pages; `sb.c` and `loggerconf.c` are third-party copies.

## 2. The modules

| Module | Models | Role |
|---|---|---|
| `FireSchedule` | `fire.c`, the pace of `main.c: core`, restart by systemd | detailed specification of one device's schedule |
| `DutyCycle` | what an `<entry>` promises | abstract specification: one counter per entry, no countdowns |
| `FireScheduleProofs` | | theorems about `FireSchedule` |
| `Historify` | `historify.c`, `db.c`, outcomes of `relay.c`, `digital.c`, `modbus.c` | one device's points and their rows |
| `HistorifyProofs` | | theorems about `Historify` |
| `TcpServer` | `tcp_server.c`, the handlers of `device.c`, the PHP clients, the streams between them, the end and restart of the process and the descriptors of its core thread | server and clients composed |
| `RequestReply` | what the server promises | abstract specification without sockets |
| `TcpServerProofs` | | theorems about `TcpServer` |
| `HomeAuto` | the core thread and the server thread on the device array, the relays' files (`relay.c`) and the descriptors (`modbus.c`, `tcp_server.c`) | composition of the two threads, without what each computes |
| `HomeAutoProofs` | | theorems about `HomeAuto` |
| `Logger` | `logger.c`, `main.c: exit_handler` | threads, signal handlers and files |
| `RollingLog` | what the logger promises of its log as a whole | abstract specification without threads, mutex, files and buffers |
| `LoggerProofs` | | theorems about `Logger` |
| `Config` | `config.c` | the character loop as a recursive function, beside what a file states, line by line |
| `Startup` | `main()`, `read_devices_xml`, `set_devices`, the server's socket, restarts and edits | extends `Config` by the process's phases |
| `StartupProofs` | | theorems about `Startup` and about the reading of `home.conf` |
| `WebPage` | `home.js`, `index.php`, `make_request.php` by its outcome | one page and its polls |
| `WebPageProofs` | | theorems about `WebPage` |
| `SetInduction` | | induction and recursion over numbers, stated for sets, for the proofs about recursive functions |
| `MCFireSchedule`, `MCHistorify`, `MCTcpServer`, `MCHomeAuto`, `MCLogger`, `MCStartup`, `MCWebPage` | | constants for TLC |

### FireSchedule

State: the fields of `fire_device_t` and `entry_t` under their own names, the relay
(`pin`), the local time (`clock`), the iterations that are due and unfinished (`lag`), and
three histories, `driven` (ticks in which the current round drove the relay), `idle`
(seconds since a timer last went off) and `steady` (iterations were late by one second at
most and the clock was not changed).

An iteration is one action, `FireNothing`, `FireCountdown` or `FirePeriod`, except in date
mode, where `fire_device_date` reads the wall clock twice: `SelectEntry` is the match (first
reading) and `StartEntry`/`ServeEntry` the rest (second reading), with time free to pass
between. `FirePeriod` and `ServeEntry` take the result of `relay_write` as a parameter: in
period mode a failed write returns early and leaves the countdown at 1; in date mode the
result is ignored. `DriveNullRelay` is the process's end in `relay_write`, which takes
`strlen` of the NULL `id_pin` of a device without relay. `Boot` is `set_devices` after a
restart. `SwitchRelay` is a user's `update_pin_state`.

The calendar is cyclic with `DaysPerYear` days of `HoursPerDay` hours of `SecsPerHour`
seconds; a day number stands for the code's `month * 100 + day`, which is ordered the same
way. `MatchingEntry` is the code's scan, as a recursive function over the entries.

### Historify

State: `value` and `last_value` of every point the device has (relay, input, registers),
the countdown, and the newest row of each point. `update_last_value` is one `ReadPoint` per
point, so a point may change between two reads; `db_log` is one `LogPoint` per point, with a
row or without (no connection, rejected insert: both are logged and forgotten by the code).
`Reading` has the outcomes of the three readers: the level; -1 for a file that cannot be
opened; whatever was on the stack (`Junk`) for a file without a number in it; 0 for a
register that cannot be read. `Restart` reads every point anew and logs nothing, as
`set_devices` does. Two histories, `first` and `news`, tell what the table says of a point
(`Known`): its sample at the start until a row is written, then its newest row.
`historify_all` does not log registers: its loop is inside `#ifdef
LOG_HISTORIFY`, whose definition is commented out, and `Wanted` says so.

### TcpServer

State: where each PHP process and the server thread are, the segments of each message on
the way (`toServer`, `toClient`) and arrived (`arrived`, `delivered`), the two buffers, the
descriptors that `get_all_devices` and `modbus_read` leave open (`leaked`), whether the core
thread has a file or a connection open (`coreOpen`), the relays. One action per system call that
can block or be interleaved (`Accept`, `Recv`, `SendAnswer`, `Read`, ...), and one per
request handler. A request that is not whole does not parse: `read_request` returns without
touching the cleared answer buffer, and `send` sends nothing. An identity in `Clients` is
used again after its connection has ended, so a run covers any number of connections in a
row.

Devices may have no relay (`Devices \ Relays`): `update_pin_state` does not ask, and
`relay_write` takes `strlen` of a NULL `id_pin`, which ends the process (`SwitchPinless`).
`Crash` ends it from outside and `Boot` starts it again. With the process go its connections,
accepted or not, and what was sent to it (`Die`); a client whose connection is gone
(`~Attached`) can still read what had been delivered to it, and fails otherwise (`Reset`). The
core thread shares the limit of descriptors: it opens one file or connection at a time and a
connection whose register cannot be read stays open (`CoreOpen`, `CoreClose`). When the
descriptors have run out `accept` fails and is called again at once, for ever; `Starved` is the
state from which that can happen. `FileSizes` are the lengths that `devices.xml` may have; an
empty file gives an empty answer, for which nothing is sent. The ids of the model are shorter
than `DEVICE_ID_SIZE`; `Startup` has the longer ones.

### HomeAuto

State: where each thread is (`core` at device `dev`, `server` with its `request`), each
relay's file and whether it can be opened (`shut`, which `ChangeAccess` changes: a file is
missing, protected, or there again), `rl.value`, the descriptors in use (`fds`), and four
histories: descriptors nobody will close (`leaked`), an open that found none left (`starved`), a
switch that was answered with ok and not done (`lost`), and the files a crash left truncated
(`torn`). Reading a relay, driving it and switching it fail for either reason, a file that
cannot be opened or no descriptor. `SwitchPinless` is the end of the process by a switch of
a device without a relay, as in `TcpServer`. Between `fopen(.., "w")` and `fclose` a regular
file is empty (`OpenToWrite`, `CloseWritten`); a file of sysfs keeps its number, and
whether the files are one or the other is chosen in `Init`. `Scanned` is `fscanf`: on an empty
file `status` keeps what was on the stack (`Stray`). `FdLeft` stands for every `fopen`,
`accept` and `modbus_connect` that can fail for want of a descriptor; an analyzer may leak one
when `set_devices` reads it, before the threads start (`Boot`). An analyzer has one register.
`fire_device` is abstracted to a choice (`due`), its schedule being `FireSchedule`'s question.

### Logger

A thread is a stack of frames: its own code and, above it, the signal handlers that
interrupted it. A handler is a frame that logs twice and then calls `exit(0)`; the kernel
blocks a signal only while its own handler runs. The mutex is owned by a frame, so that a
handler on top of the owner waits for itself, as a POSIX mutex without recursion does. A line is two
pieces, its text and its newline, each the number of its message; the stream has a buffer
that reaches the file with `fclose` and `exit` whole and with a crash in part. One turn of
the loop in `rotateLogFiles` is one action, so that a crash can come between two renames.
`OpenedSize` leaves the old size when the log file cannot be opened again: the next message is due
for a rotation again and calls `fclose(NULL)` (`CloseNull`), which ends the process. The
history `torn` tells that a process has ended between two renames.

`RollingLog` sees one sequence of pieces, `Log`: the backups from the oldest on, the log file,
the buffer. What is not in the buffer is safe (`kept`), and `Written` reads from the owner of the
mutex how much of the newest message is in the log. Its steps are to begin a message, to write
a piece of it, to have everything written on the disk, to give up the oldest file, to stop and to
fail; locking, signals, threads and most turns of the rotation's loop are stutters.

### Config and Startup

A character of `home.conf` is a newline, a carriage return, an equals sign or an atom of
text. `Loaded` is the code's loop (`ReadChar`, one character each) for every content of the file;
`Stated` says what the same file means line by line, without a loop, and `ConfigRead`
compares the two. `Overrun` tells that a line was written past the array: from then on the
process may end at any time (`DieOfOverrun`). `Char` is the alphabet the files are written in.

`Startup` has one action per phase of `main`; an element of `devices.xml` is what the reader
tells apart (`Element`). `Needed` are the variables that `set_devices` asks for when it reads
each pin and register. `GetAllDevices` and `GetDevice` are the two handlers by where they look:
in the file, in the array. An id of `DEVICE_ID_SIZE` (16) characters or more is copied without its
final 0, in the array and in the request, and `strcmp` goes on beyond it, so what it is equal to
depends on what follows in memory. `LongIds` are these ids: `MayMatch` and `MustMatch` bound
the comparison from both sides, and `GetDevice` finds or refuses such an id as it likes.

### WebPage

State: the page's table (`devices`), the version of the values each drawing shows (`shown`), the
fetches in flight in the order they were sent. What `get_device` answers is abstracted to a
version, how often the values have changed. A poll is sent to every section whether the one before
has been answered or not, and answers are handled in any order. `Register` is `set_device`: on a
section of another type (`misfit`) it fails before the device gets into the table; `Update` is
`update_device`, which fails on a device with pins that is not there. -1 of `server_read` parses
and has no device (`Garbled`): it registers nothing but collects the elements. `update_pin_state`
of `home.js` has no caller at this commit and is not modelled; the handler of the daemon that it
would reach is in `TcpServer` and `HomeAuto`.

## 3. What the runs check

| Run | Properties | Shows |
|---|---|---|
| `FireSafety` | `TypeOK`, `OnTimeBudget`, `MatchIsLatest`, `NotTooSoon`, `RoundSpec` | the two countdowns drive the relay for exactly the budget of each round and implement `DutyCycle`; the match is the latest past date; no timer goes off early, for nine device configurations |
| `FireLive` | `EveryEntryStarts`, `TimersRecur`, `OpensAtStart` | no entry is forgotten and no timer stops; while iterations are on time (`steady`) every round of a daily entry opens in its start hour (or the next, when it was started in the last second of it), across hand-overs and restarts |
| `Hist` | `TypeOK`, `RowsFollowSamples`, `EveryPeriod`, `ValuesSettle`, `RowsSettle` | every change between two samples is logged; a periodic log comes in exactly the period-th sample; samples and rows come to agree with a point at rest (on change: unless its last insert failed) |
| `TcpSafety` | `TypeOK`, `AnswerIsOwn`, `NoAnswerLost`, `RpcSpec` | answers belong to their requests over reused buffers; no answer but an empty one is lost; a request is executed at most once; the server implements `RequestReply`, also when a request ends the process |
| `TcpLive` | `EveryRequestAnswered`, `EveryConnectionServed` | with requests in one segment, a client is answered and every connection gets its turn, also behind a killed client and after a restart, unless the process ends on it or the descriptors run out |
| `Threads` | `TypeOK`, `StarvedByLeaks`, `EmptyOnlyTorn`, `ShowsActual`, `SwitchShown` | the two threads return every descriptor but the leaked ones, so descriptors run out only when all but two have leaked; a file is empty only while it is written or after a crash in that moment; a state at rest and a switch told as done are shown in the end, as long as the file can be opened |
| `LogFiles` | `TypeOK`, `InOrder`, `NoGap`, `BackupSizes`, `SignalEnds`, `RollingSpec` | the log, from its oldest backup on, is in order, also when files cannot be opened, renamed or removed and whenever the process ends, and without gaps as long as no call fails (writes do not fail in the model); backups are full files; a signal ends the process unless its handler interrupted the holder of the mutex; the log as a whole implements `RollingLog`: a rotation gives up one full file behind which `maxBackupFiles` full ones stay, unless a call failed or a rotation was cut off before |
| `Startup` | `TypeOK`, `ConfigRead`, `ServesConfigured`, `ListedAreServed`, `ComesUp` | what is looked up is what the file states; a process that serves has all that its devices need; a listed device whose id fits its place is refused only after an edit or when there are too many; good files bring the service up |
| `Page` | `TypeOK`, `MissingOnlyByFailure`, `ForwardUnlessOverlapped`, `Settles` | a drawing settles on the actual values and goes back only through overlapping polls; a device is missing only when its one request failed |
| `FireRelease` (violated) | `RelayReleased` | see below |
| `HistInactive` (violated) | `ValuesSettle` | see below |
| `TcpSplit` (violated) | `EveryRequestAnswered` | see below |

### Disagreements found

* `FireRelease`: the example file says the duration is "the amount of hours the relay will
  be on". The code writes 1 while the duration lasts and then nothing: nobody switches the
  relay off.
* `HistInactive`: a comment in `update_pin_state` relies on `rl.value` being refreshed
  independently of historification; with historification inactive nothing refreshes it, and
  `get_device` answers with the start-up value for ever.
* `TcpSplit`: one `recv` is taken for a whole request. A request in two segments leaves
  server and client waiting for each other, and every other client waiting for them.

Disagreements and hazards that are modelled and have no violated run of their own:

* *Schedule.* A device without a relay but with a dated schedule ends the process at its
  start hour (`DriveNullRelay`; the example file has such a device, with a period that hides
  it). Dates written `dd` or `dd/mm/yyyy`, which the example file allows, never match
  (`Past`). After a change of the local time running rounds open an hour off their start
  attribute, because they follow `CLOCK_MONOTONIC`.
* *Historification.* The registers of a periodic analyzer are never logged (`Wanted`); on
  change, a change made while the process was down is never logged (`Boot`), nor is one
  whose insert failed (`LogPoint`).
* *Server.* `update_pin_state` for a device without a relay ends the process and every connection
  with it (`SwitchPinless`); `EveryRequestAnswered` and `EveryConnectionServed` except the clients
  of that process. `get_all_devices` never closes `devices.xml`, and `modbus_read` leaves a
  connection open when a register cannot be read: both use up the descriptors of the one process
  (`StarvedByLeaks` says that nothing else does), and then relays read as -1 and `accept` fails
  until the process ends (`Starved`). A switch whose relay file cannot be opened, for this or any
  other reason, is answered with ok and not done (`lost`). An empty `devices.xml` is answered with
  nothing, so that the client waits as after a split request (`NoAnswerLost` excepts it, and
  the liveness run has no empty file), and one longer than the buffer is cut off (`GetAllDevices`);
  an answer in two segments is read only in part (`Read`); the documented endpoint `set_device`
  does not exist (`RequestNotFound`).
* *Logger.* A handler that interrupts the holder of the mutex waits for itself for ever
  (`Interrupted`), and so does everyone who logs; systemd kills the process in the end. A log
  file that cannot be opened again after a rotation ends the process at the next message
  (`CloseNull`). A process that ends within the renames leaves a hole in the row of backups, and
  a later rotation may give up a file behind which fewer full ones stay (`torn` in
  `RollingLog`).
* *Start-up.* Blank lines and comments use up places of the 15, a last line without newline
  has no value, more lines are written past the array (`DieOfOverrun`). When the port cannot
  be bound only the server thread ends: the process runs on, deaf, and nothing restarts it
  (`ComesUp` allows exactly that). A missing `<historify>`, `<fire>` or attribute ends the
  process at every start. A listed device with an id of 16 characters or more may be refused
  (`GetDevice` of `Startup`).
* *Page.* A device whose request at loading fails stays dead until the page is loaded again.

### Bounds, and why they are enough

* *Fire.* An hour is 3 ticks, so that a countdown has a first, a middle and a last tick; a
  day has 2 or 3 hours and a year 2 or 3 days, so that two entries hand over to each other
  in both directions and the year wraps. Two entries are enough for every case of the scan
  (earlier, equal, later, unreadable). The configurations have durations below, at and above
  the period, period 0 and duration 0. `MaxLag` 2 gives bursts of late iterations; crashes
  are 1 or 2. `CountdownFloor` cuts off the endless countdown of an entry with period 0 after
  three ticks, when its round is long over. What the bounds cut off, the theorems cover for
  every value.
* `OpensAtStart` speaks of `steady` executions. An iteration late around midnight is spent on
  the other day's entry, so with longer delays an entry's rounds slip by the ticks it
  missed; the code has nothing that repairs that and the property is not claimed for it.
* *Historify.* Relay, input and one register; two levels and one stray value; periods 1 and 2 (a
  countdown that is restarted, and one that counts); one fault and one crash, because the liveness
  properties are checked with them in the same run; the two safety properties are proved for any
  number of faults and crashes.
* *TcpServer.* Two clients and messages of up to two segments for safety, with symmetry between
  the clients. `TcpLive` has two clients and a backlog of one, so that one is talked to while the
  other waits, a client that comes back queues behind it, and a process that ends leaves both
  behind. `FdLimit = 3` leaves room for a connection, a file of the core thread and one leaked
  descriptor, and is used up by two. `SwitchPinless` ends the process any number of times;
  `MaxCrashes` bounds the ends from outside. The buffer is 3 characters; `devices.xml` is empty or
  cut off (0 and 4) in the safety run and just fits (2) elsewhere. The requests differ per run, in
  what they can do to the others: all kinds in the safety run, those that switch, leak or end the
  process in the liveness run. Deadlock is not checked: a split request, or a process without
  descriptors, really leaves everyone waiting. `EveryConnectionServed` and `EveryRequestAnswered`
  need `MaxRequestParts = 1`, and `TcpSplit` shows why.
* *HomeAuto.* Two devices: an analyzer without a relay, and one with a relay that is fired; both
  are historified. Four descriptors, so that two can leak and the rest run out in either thread;
  one crash, which a file can be torn by, and one change of what can be opened, beside any choice
  at the start. What `FdLimit` and the number of devices cut off, the theorems cover.
* *Logger.* Two threads and two signals (a handler over a handler, in one thread or in two), one
  line per file and two backups, so that four messages go through every file and out; one
  failing call, one crash. Deadlock is not checked: a process whose handler waits for itself really
  stands still.
* *Startup.* Three places for variables of at most two characters; every file of up to five
  characters over two atoms, newline, carriage return and equals sign, which has blank lines,
  lines without name, value or end, too long parts and too many lines, and eight longer files; two
  places for devices and a file with three; one file has a device whose id does not fit its place.
  The variables the program asks for have two names, one of which is asked for before and one
  after the devices are set. One edit after any phase, one failed bind. Deadlock is not checked: a
  deaf process has nothing left to do.
* *WebPage.* A meter beside each kind of section; two fetches of a section in flight (the
  shortest overlap), two changes of the values, one failure, one reload.

### Fairness

* `FireSchedule`: `Second` (time passes), `CoreStep` (the operating system runs the core
  thread), `Boot` (`Restart=always`). Weak fairness is enough: none of them is disabled by
  others again and again. A user's switching, clock changes and crashes are not fair.
* `Historify`: `CoreStep` and `Restart`, for the same reasons. Levels change when they like.
* `TcpServer`: the server thread, each PHP process once it is connected, the network
  (TCP delivers) and the restart. No client is forced to connect or to be killed, and the core
  thread is not forced to give its descriptor back. `accept` takes connections
  in order, which is why weak fairness of the server serves everyone.
* `HomeAuto`: each of the two threads, and the restart. `ShowsActual` needs no fairness of
  clients: they may stop asking.
* `Logger`: each thread once it has begun a message or a handler; that there is a next
  message or signal is nobody's promise.
* `Startup`: `main` goes from one phase to the next or ends, because each phase ends by itself, and
  systemd starts it again (`RestartSec=5` keeps within systemd's default limit of starts).
  Requests, edits, a logged value that ends the process are not fair.
* `WebPage`: the timer fires, each fetch of a section is answered or fails (PHP and the
  browser time out), each answer is handled. Changes and reloads are not fair.

## 4. What is proved

All theorems hold for every value of the constants under the modules' `ASSUME`s: any
calendar, number of entries, configuration, lag, number of crashes and faults.

`FireScheduleProofs`, from the inductive invariant `IInv == TypeOK /\ HeldInv /\ EntryInv /\
PeriodInv`:

* `TypeCorrect`: `Spec => []TypeOK`.
* `BudgetKept`: `Spec => []OnTimeBudget`.
* `RoundsKeepDistance`: `Spec => NotTooSoon`.
* `Refinement`: `Spec => RoundSpec`, that is, `FireSchedule` implements `DutyCycle`.
* `MatchLatest`: `Spec => []MatchIsLatest`.
* `RoundsOpenAtStart`: `Spec => OpensAtStart`.

`OnTimeBudget` is not inductive: a round's renewal depends on where both countdowns are.
`EntryInv` says that an entry is in one of three situations, waiting as `set_devices` left
it, started with its first round still to be renewed, or in a round; in a round the driven
ticks are `Lesser(Budget, Served)`, the rest of the duration is `Budget - driven`, and the
seconds since the renewal are at least the ticks served minus the lateness the round began
with (`Served + lag - MaxLag`): each tick took an iteration that was due then or a second
since. That last conjunct, and `PeriodInv` for the device's own period, give `NotTooSoon`.
`HeldInv` says that an entry is held only in an iteration that is due. The first
four theorems never expand `MatchingEntry`: they do not depend on which entry the scan selects.

`MatchLatest` is about every configuration and day, not about a behaviour. `Scan` is the
function that the scan computes, turn by turn; `SetInduction` shows that its recursive definition
has a solution (`ScanDef`), and by induction over the turns the best entry so far is the
latest past one of the entries seen, the first of them if several are equal (`ScanIsLatest`).

`OpensAtStart` is not inductive either: a round that opens now was scheduled a day or more ago,
perhaps by another entry's hand-over. `DailyInv` says of steady executions that every running
daily entry is `Anchored`: with `p` ticks of its round left it is due `p` ticks from now, if it is
the entry of today, or `p` ticks from the start of whichever later day it will be served again.
`AnchoredServed` says that an iteration keeps this for the entry it serves and `AnchoredSuspended`
that it keeps it for every other, whether the day turns or not. `IdleInv` bounds the history
`idle`.

`HistorifyProofs`, from `IInv == TypeOK /\ RowsFollowSamples /\ CounterInv /\ AwakeInv`:

* `TypeCorrect`: `Spec => []TypeOK`.
* `ChangesReported`: `Spec => []RowsFollowSamples`.
* `LoggedEveryPeriod`: `Spec => []EveryPeriod`.

`EveryPeriod` needs `CounterInv`, the sum of the countdown and the samples since the last
log at each point of an iteration; `RowsFollowSamples` needs no strengthening but
`AwakeInv` (only an active device of a running process is sampled), because `Reported`
already says which sample each point's row should hold in the middle of an iteration.

`HomeAutoProofs`, from `IInv == TypeOK /\ WriterInv /\ DownInv /\ StarvedByLeaks /\
EmptyOnlyTorn`, for any number of devices, descriptors and crashes, and whichever files can be
opened:

* `TypeCorrect`: `Spec => []TypeOK`.
* `OnlyLeaksStarve`: `Spec => []StarvedByLeaks`.
* `OnlyTornIsEmpty`: `Spec => []EmptyOnlyTorn`.

`StarvedByLeaks` counts: what is in use is what has leaked and what the two threads hold
(`Held`), at most one in the core thread and two in the server thread. `WriterInv` says what a
server thread that is writing was asked for, and `DownInv` that a process that has ended
holds nothing.

`LoggerProofs`, from `IInv == TypeOK /\ Mutex /\ StartInv /\ NewestInv /\ WrittenInv /\
InOrder`, for any threads, signals, backups, sizes, failures and crashes:

* `TypeCorrect`: `Spec => []TypeOK`.
* `MutualExclusion`: `Spec => []Mutex`: of all frames of all threads, handlers included, the
  owner of the mutex is the one that is rotating or writing.
* `LogInOrder`: `Spec => []InOrder`.
* `BackupsAreFull`: `Spec => []BackupSizes`.
* `LogHasNoGap`: `Spec => []NoGap`.
* `LogRolls`: `Spec => RollingSpec`, that is, `Logger` implements `RollingLog`.

`InOrder` rests on the mutex: the number that the owner writes is the newest there is
(`NewestInv`), and nothing newer has been written (`WrittenInv`). The lemmas about sequences
(`AppendFacts`, `ConcatFacts`) say that a number not less than all of them can be appended, and
that a file followed by a beginning of the buffer is sorted; `ShiftIInv` is the rotation.

The other three rest on three more layers, each inductive with the ones before it:

* `SizeInv` for `BackupSizes`: `s_flog.currentFileSize` is the pieces in the log file and in the
  buffer together (`CountInv`), so only a full file is closed for a rotation; and as long as no
  call fails a rotation that has come to a backup has made room for it (`RoomInv`), so nothing
  is appended to a file that is full.
* `NewestLogged` for `NoGap`: as long as no call fails, the log goes up by ones, or
  jumps only over messages that a process took with it (`Linked`), and it ends with the newest
  message, or with the one before it while the newest is prepared (`Reaches`). `FromMoved` says
  what the log is after one file has been moved over another: the same, without what was in
  the place it went to.
* `HoleInv` for `LogRolls`: as long as no call fails and no process ends within a rotation, the
  only hole in the row of backups is the one that the rotation has just made. So when the oldest
  file is given up all the others are there, and by `SizeInv` they are full (`FromFull`).
  The proof maps every step of every thread, handler and end of the process to one of
  `RollingLog` or to a stutter (the lemmas `..Rolls`): `Lock` begins a message, `WriteText` and
  `WriteEnd` write its pieces, `BeginRotation` puts the buffer on the disk, `Shift` gives up a
  file, moves one (a stutter) or fails, and whatever ends the process stops.

`TcpServerProofs`, from `IInv == TypeOK /\ StreamInv /\ BufferInv /\ QueueInv /\ \A c \in Clients :
ConnInv(c)`, for any clients, requests, devices, backlog, descriptors, numbers of segments and ends
of the process:

* `TypeCorrect`: `Spec => []TypeOK`.
* `OwnAnswer`: `Spec => []AnswerIsOwn`.
* `AnswerKept`: `Spec => []NoAnswerLost`.
* `Refinement`: `Spec => RpcSpec`, that is, `TcpServer` implements `RequestReply`.

The argument counts segments: what of a request is on the way, arrived and in the buffer is no
more than its number of segments (`RequestInv`, `Stretches`), so that nothing is left of a request
that was whole, and none is executed twice (`ServedInv`). What is on the way to a client are parts
of the answer to its request (`AnswerInv`), because the answer buffer is empty until a handler
writes to it (`BufferInv`). A client has one place in the queue or the connection, and nothing of
it is executed before `accept` (`QueueInv`), and what was sent to a process ends with it
(`DieIInv`), so a request is not executed a second time by the next process. One lemma,
`OtherConn`, says that a step leaves every connection alone but its own. `NobodyAssumption` tells
`Nobody` from clients, requests and answers.

`WebPageProofs`, from `IInv == TypeOK /\ FlightInv /\ TableInv /\ OrderInv /\
MissingOnlyByFailure`, for any page and any number of polls in flight, changes, failures and
reloads:

* `TypeCorrect`: `Spec => []TypeOK`.
* `MissingByFailure`: `Spec => []MissingOnlyByFailure`.
* `Forward`: `Spec => ForwardUnlessOverlapped`.

`OrderInv` says that an answer that is not overlapped is alone in flight and no older than the
drawing; `WithoutFacts` says what is left of a queue when one place is taken out.

`StartupProofs`, for every content of the files and any sizes of the tables:

* `StartTyped`: `Spec => []TypeOK`.
* `ConfigIsRead`: `Spec => []ConfigRead`: for every file and every name, what `get_var_value`
  finds in the array that `load_config` left is what the file states.
* `ServerIsConfigured`: `Spec => []ServesConfigured`.
* `RefusedForAReason`: `Spec => []ListedAreServed`.

`ConfigRead` compares a loop with a definition that has none, so its proof goes through the text
character by character. For each part of `Stated` there is a lemma that says how it changes when
the text gets one character longer: the ends of lines and their places in the array, the last
line, its name and its value (`LastLineGrows`, `LastLineEnds`, `PartGrows`, `UpToLongGrows`).
`Parsed(s, text)` says that the loop's state `s` is what `text` says, with the value of the last
line still in the buffer; `ParsedInLine` and `ParsedEnd` are its two steps, an ordinary character
and a newline, and `LoadingParsed` is the induction, by `SetInduction`. `LookUp` is
`get_var_value` on what results. The other two theorems use `Loaded` only as what the array is
(`LoadedVars`), from `StartInv == StateType /\ LoadedVars /\ AcceptedDevices /\ KnownPort /\
RefusedAreUnknown`: the array of devices is what `set_devices` accepted of the file it read, each
with the variables it needs, and a request with an id that fits its place is refused only for a
device that is not in the array. The assumptions are that a file is a finite text (`FileIsText`)
and that the program asks for no variable with an empty name (`NameAssumption`).

`SetInduction` states induction up to a number, and that a recursive function over the numbers
up to it exists, about sets in place of predicates, from the library's theorem that the numbers are
well-founded. `FireScheduleProofs`, `LoggerProofs` and `StartupProofs` use it.

Model-checked only: the liveness properties, because fairness and ENABLED are out of the
prover's reach: `EveryEntryStarts`, `TimersRecur`, `ValuesSettle`, `RowsSettle`,
`EveryRequestAnswered`, `EveryConnectionServed`, `ShowsActual`, `SwitchShown`, `SignalEnds`,
`ComesUp`, `Settles`. Every invariant and every action property of a passing run, and each of the
three refinements, is a theorem.

## 5. What is not modelled, and why

* `PQconnectdb` or a modbus read that hangs: the core thread then stops; modelled is that it
  is late (`MaxLag`), fails or goes on.
* A request cut right after its XML declaration (the second segment is then well-formed by
  itself) and a `new_state` of more than one character.
* More than one descriptor of the core thread at a time: it opens its relay files and
  connections one after the other and closes or leaks each before the next. A connection to
  the database is one more of these in `TcpServer`, and left out of `HomeAuto`. The log file is
  open all the time but within a rotation, whose reopening may fail for want of a descriptor in
  `Logger` (any failure).
* `send` to a client that is gone: a client sends one request per connection, so the server
  writes at most once after the client's end and the signal for a second write cannot come.
* `escape_buf`, `set_device`, `read_devices_xml_by_id` and the loggers' set-up by file
  (`loggerconf.c`), which are never called; `update_pin_state` of `home.js`, which has no caller;
  the logger's console copy, its level (set once) and its auto flush (off).
* Writes to the log that fail (`fprintf`, or the flush of `fclose`, on a full disk): `InOrder`,
  `NoGap`, `BackupSizes` and `RollingSpec` are claimed for a disk with room. Opens, renames and
  removes do fail.
* Locks inside the C library: a signal that interrupts `localtime_r` or stdio and whose handler
  calls it again may wait for itself as it may for `s_mutex`. `SignalEnds` takes the library as
  atomic.
* What follows an id of 16 characters in memory: `GetDevice` of `Startup` leaves the outcome open.
* The message of an unknown function, which `call_target_function` uses after its block has
  ended: what is sent then is the wording of an error.
* The numbers and texts of `devices.xml`: `Startup` has what ends the process or asks for a
  variable, the other modules take periods, dates and pins as their configuration.
* The modal window of the page and the drawings themselves.
* The values of the analyzer (scaling, endianness) and the wording of messages.
* The string builder, static pages, the analyzer simulator and scripts: helpers and layout without
  state, or not part of the running system.

## 6. Plan

Done, in this order: `FireSchedule` and `DutyCycle`, their proofs; `Historify`, its proofs;
`TcpServer` and `RequestReply`; `HomeAuto`, its proofs; `Logger`, its proofs; `Config` and
`Startup`; `WebPage`; the proofs about `TcpServer` and about `WebPage`; `OpensAtStart` and the
matching of entries; `BackupSizes` and `NoGap`; the reading of `home.conf` and `Startup`;
`RollingLog` and its refinement; the end of the process and the shared descriptors in `TcpServer`,
files that cannot be opened in `HomeAuto`, long ids in `Startup`.

Left: `WebPage` on `RequestReply`, in place of its outcome of a fetch; failing writes in `Logger`.
