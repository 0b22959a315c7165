---------------------------- MODULE FireSchedule ----------------------------
(***************************************************************************)
(* fire.c: the relay schedule of one device, driven by the core thread.    *)
(*                                                                         *)
(* The core thread runs one loop iteration per second of CLOCK_MONOTONIC;  *)
(* an iteration that was due while the thread was busy is run late, so     *)
(* `lag' counts the iterations due and not yet finished.  In its iteration *)
(* a device is scheduled either by <fire period> (countdown of the device) *)
(* or, when that is 0, by the <date> entry that matches today (countdowns  *)
(* of the entry).  The wall clock is read once to match an entry and again *)
(* to compare its start hour, so time may pass in between.                 *)
(*                                                                         *)
(* Durations are hours in devices.xml and loop iterations ("ticks") in     *)
(* memory.  The calendar is cyclic: after the last day comes day 1.        *)
(***************************************************************************)
EXTENDS Integers

CONSTANTS
  SecsPerHour,      \* 3600 in the code
  HoursPerDay,      \* 24 in the code
  DaysPerYear,      \* calendar days; a day number stands for month * 100 + day
  DATE_ENTRIES,     \* entries of one device
  DeviceConfigs,    \* the devices.xml contents considered
  ClockChanges,     \* hours the local time can jump by (daylight saving)
  MaxLag,           \* bound: iterations the core thread can be behind
  MaxCrashes,       \* bound: crashes of the process
  CountdownFloor    \* bound: lowest period_countdown (period 0 counts down forever)

Entries == 1 .. DATE_ENTRIES
NULL    == 0        \* no entry
Days    == 1 .. DaysPerYear
Formats == {"unset", "dd", "dd/mm", "dd/mm/yyyy"}

\* entry_t as read_device_fire_date leaves it: hours, and the date's notation.
EntryConfig ==
  [format : Formats, day : Days, period : Nat, duration : Nat, start : Nat]

DeviceConfig ==
  [active : BOOLEAN, period : Nat, has_rl : BOOLEAN, entries : [Entries -> EntryConfig]]

ASSUME ClockAssumption ==
  /\ SecsPerHour \in Nat \ {0}
  /\ HoursPerDay \in Nat \ {0}
  /\ DaysPerYear \in Nat \ {0}
  /\ DATE_ENTRIES \in Nat
  /\ ClockChanges \subseteq Int
ASSUME ConfigAssumption == DeviceConfigs \subseteq DeviceConfig
ASSUME BoundAssumption ==
  /\ MaxLag \in Nat \ {0}
  /\ MaxCrashes \in Nat
  /\ CountdownFloor \in Int /\ CountdownFloor < 0

VARIABLES
  cfg,                 \* the device's configuration; never changes
  clock,               \* local time, in seconds since the start of the year
  steady,              \* history: since the process started no iteration was late
                       \* and the local time did not jump
  up,                  \* the process is running
  crashes,             \* crashes so far
  lag,                 \* loop iterations due and not finished
  entry,               \* entry matched by the iteration in progress, or NULL
  remaining_ticks,     \* fire_device_t.remaining_ticks
  running,             \* entry_t.running
  period_countdown,    \* entry_t.period_countdown
  duration_countdown,  \* entry_t.duration_countdown
  pin,                 \* state of the relay
  driven,              \* history: ticks in which the entry drove the relay, this round
  idle                 \* history: seconds since timer t last went off (saturating);
                       \* timer NULL is the device's own period

envVars    == <<cfg, up, crashes>>
fireVars   == <<remaining_ticks>>
entryVars  == <<running, period_countdown, duration_countdown, driven>>
vars == <<envVars, clock, steady, lag, entry, fireVars, entryVars, pin, idle>>

-----------------------------------------------------------------------------
Secs(hours) == hours * SecsPerHour
DaySecs  == HoursPerDay * SecsPerHour
YearSecs == DaysPerYear * DaySecs

DayOf(t)  == 1 + t \div DaySecs
HourOf(t) == (t \div SecsPerHour) % HoursPerDay

Timers == Entries \cup {NULL}
Cap(t) == IF t = NULL THEN Secs(cfg.period) ELSE Secs(cfg.entries[t].period)

\* The entry's date parses (exactly dd/mm) and is not later than `today'.
Past(e, today) ==
  cfg.entries[e].format = "dd/mm" /\ cfg.entries[e].day <= today

\* Mutant: of two equal dates the last one wins.
LaterOrEqual(e, best) == best = NULL \/ cfg.entries[e].day >= cfg.entries[best].day

\* A later date replaces the best one so far; an equal one does not.
Later(e, best) == best = NULL \/ cfg.entries[e].day > cfg.entries[best].day

\* fire_get_matching_entry: the scan over the entries array.
MatchingEntry(today) ==
  LET last_entry[i \in 0 .. DATE_ENTRIES] ==
        IF i = 0 THEN NULL
        ELSE IF Past(i, today) /\ Later(i, last_entry[i - 1])
             THEN i ELSE last_entry[i - 1]
  IN last_entry[DATE_ENTRIES]

-----------------------------------------------------------------------------
\* set_devices: every countdown starts at its full period or duration.
FullPeriods   == [e \in Entries |-> Secs(cfg.entries[e].period)]
FullDurations == [e \in Entries |-> Secs(cfg.entries[e].duration)]
Stopped       == [e \in Entries |-> FALSE]
Undriven      == [e \in Entries |-> 0]

\* The first iteration runs at once: target_time is the time of the start.
Init ==
  /\ cfg \in DeviceConfigs
  /\ clock \in 0 .. YearSecs - 1
  /\ steady = TRUE
  /\ up = TRUE
  /\ crashes = 0
  /\ lag = 1
  /\ entry = NULL
  /\ remaining_ticks = Secs(cfg.period)
  /\ running = Stopped
  /\ period_countdown = FullPeriods
  /\ duration_countdown = FullDurations
  /\ pin \in {0, 1}
  /\ driven = Undriven
  /\ idle = [t \in Timers |-> Cap(t)]

\* One second passes; while the process runs, one more iteration is due.
Second ==
  /\ up => lag < MaxLag
  /\ clock' = (clock + 1) % YearSecs
  /\ lag' = IF up THEN lag + 1 ELSE lag
  /\ steady' = (steady /\ lag = 0)
  /\ idle' = [t \in Timers |-> IF idle[t] < Cap(t) THEN idle[t] + 1 ELSE idle[t]]
  /\ UNCHANGED <<envVars, entry, fireVars, entryVars, pin>>

\* The local time jumps; CLOCK_MONOTONIC, which paces the loop, does not.
ChangeClock(hours) ==
  /\ clock' = (clock + Secs(hours)) % YearSecs
  /\ steady' = FALSE
  /\ UNCHANGED <<envVars, lag, entry, fireVars, entryVars, pin, idle>>

-----------------------------------------------------------------------------
\* relay_write: the pin takes the value, or the file could not be opened.
RelayWrite(value, ok) == pin' = IF ok THEN value ELSE pin

Due == up /\ lag > 0 /\ entry = NULL

\* Mutant: the matched entry is kept for the next iteration.
EndIterationKeepingEntry == lag' = lag - 1 /\ UNCHANGED entry

EndIteration == lag' = lag - 1 /\ entry' = NULL

\* fire_device on an inactive device, or with no entry for today.
FireNothing ==
  /\ Due
  /\ \/ ~cfg.active
     \/ cfg.period = 0 /\ MatchingEntry(DayOf(clock)) = NULL
  /\ EndIteration
  /\ UNCHANGED <<envVars, clock, steady, fireVars, entryVars, pin, idle>>

\* fire_device_period, more than one tick left.
FireCountdown ==
  /\ Due /\ cfg.active /\ cfg.period # 0
  /\ remaining_ticks # 1
  /\ remaining_ticks' = remaining_ticks - 1
  /\ EndIteration
  /\ UNCHANGED <<envVars, clock, steady, entryVars, pin, idle>>

\* fire_device_period, last tick: a failed write leaves the countdown at 1.
FirePeriod(ok) ==
  /\ Due /\ cfg.active /\ cfg.period # 0
  /\ remaining_ticks = 1
  /\ IF cfg.has_rl THEN RelayWrite(1, ok) ELSE UNCHANGED pin
  /\ IF cfg.has_rl /\ ~ok
     THEN UNCHANGED <<remaining_ticks, idle>>
     ELSE /\ remaining_ticks' = Secs(cfg.period)
          /\ idle' = [idle EXCEPT ![NULL] = 0]
  /\ EndIteration
  /\ UNCHANGED <<envVars, clock, steady, entryVars>>

\* fire_device_date, first half: match today's entry.
SelectEntry(e) ==
  /\ Due /\ cfg.active /\ cfg.period = 0
  /\ e = MatchingEntry(DayOf(clock))
  /\ entry' = e
  /\ UNCHANGED <<envVars, clock, steady, lag, fireVars, entryVars, pin, idle>>

\* Mutants: any hour from the start hour on; hours counted from 1.
StartHourOrAfter(e) == cfg.entries[e].start <= HourOf(clock)
StartHourFromOne(e) == cfg.entries[e].start = HourOf(clock) + 1

\* Is it the start hour of entry e?  The wall clock is read a second time.
StartHour(e) == cfg.entries[e].start = HourOf(clock)

\* fire_device_date, entry not running: it starts in its start hour.
StartEntry ==
  /\ up /\ entry # NULL /\ ~running[entry]
  /\ IF StartHour(entry)
     THEN /\ running' = [running EXCEPT ![entry] = TRUE]
          /\ period_countdown' = [period_countdown EXCEPT ![entry] = 0]
     ELSE UNCHANGED <<running, period_countdown>>
  /\ EndIteration
  /\ UNCHANGED <<envVars, clock, steady, fireVars, duration_countdown, driven, pin, idle>>

\* Mutants: renewal waits for both countdowns; the duration is not renewed; the
\* period is renewed with the duration; the relay is driven in one tick more.
RenewsWhenBothSpent(e) == period_countdown[e] = 0 /\ duration_countdown[e] = 0
DurationLeftForGood(e) == duration_countdown[e]
PeriodLeftMixedUp(e) ==
  IF period_countdown[e] = 0 THEN Secs(cfg.entries[e].duration) ELSE period_countdown[e]
DrivesOneMore(e) == duration_countdown[e] >= 0

\* The running entry's countdowns once a spent period has been renewed.
Renews(e) == period_countdown[e] = 0
PeriodLeft(e)   == IF Renews(e) THEN Secs(cfg.entries[e].period) ELSE period_countdown[e]
DurationLeft(e) == IF Renews(e) THEN Secs(cfg.entries[e].duration) ELSE duration_countdown[e]
Drives(e) == DurationLeft(e) > 0

\* fire_device_date, entry running.  The result of relay_write is ignored.
ServeEntry(ok) ==
  /\ up /\ entry # NULL /\ running[entry]
  /\ period_countdown[entry] > CountdownFloor
  /\ Drives(entry) => cfg.has_rl
  /\ LET on == IF Drives(entry) THEN 1 ELSE 0
         already == IF Renews(entry) THEN 0 ELSE driven[entry]
     IN /\ period_countdown'   = [period_countdown EXCEPT ![entry] = PeriodLeft(entry) - 1]
        /\ duration_countdown' = [duration_countdown EXCEPT ![entry] = DurationLeft(entry) - on]
        /\ driven' = [driven EXCEPT ![entry] = already + on]
  /\ IF Drives(entry) THEN RelayWrite(1, ok) ELSE UNCHANGED pin
  /\ idle' = [idle EXCEPT ![entry] = IF Renews(entry) THEN 0 ELSE @]
  /\ EndIteration
  /\ UNCHANGED <<envVars, clock, steady, fireVars, running>>

-----------------------------------------------------------------------------
\* The process is gone; what it kept in memory is lost, the relay keeps its state.
Die ==
  /\ up' = FALSE
  /\ lag' = 0
  /\ entry' = NULL
  /\ UNCHANGED <<cfg, clock, steady, fireVars, entryVars, pin, idle>>

\* fire_device_date drives a relay the device does not have: relay_write
\* takes strlen of its NULL id_pin and the process dies.
DriveNullRelay ==
  /\ up /\ entry # NULL /\ running[entry]
  /\ Drives(entry) /\ ~cfg.has_rl
  /\ Die
  /\ UNCHANGED crashes

Crash ==
  /\ up /\ crashes < MaxCrashes
  /\ crashes' = crashes + 1
  /\ Die

\* Restart=always: the service is started again and set_devices runs.
Boot ==
  /\ ~up
  /\ up' = TRUE
  /\ steady' = TRUE
  /\ UNCHANGED <<cfg, crashes, clock, entry, pin>>
  /\ lag' = 1
  /\ remaining_ticks' = Secs(cfg.period)
  /\ running' = Stopped
  /\ period_countdown' = FullPeriods
  /\ duration_countdown' = FullDurations
  /\ driven' = Undriven
  /\ idle' = [t \in Timers |-> IF t = NULL THEN idle[t] ELSE Cap(t)]

\* update_pin_state in the server thread: a user switches the relay by hand.
SwitchRelay(value) ==
  /\ up /\ cfg.has_rl
  /\ pin' = value
  /\ UNCHANGED <<envVars, clock, steady, lag, entry, fireVars, entryVars, idle>>

CoreStep ==
  \/ FireNothing
  \/ FireCountdown
  \/ \E ok \in BOOLEAN : FirePeriod(ok)
  \/ \E e \in Entries : SelectEntry(e)
  \/ StartEntry
  \/ \E ok \in BOOLEAN : ServeEntry(ok)
  \/ DriveNullRelay

Next ==
  \/ Second
  \/ \E hours \in ClockChanges : ChangeClock(hours)
  \/ CoreStep
  \/ Crash
  \/ Boot
  \/ \E value \in {0, 1} : SwitchRelay(value)

Spec == Init /\ [][Next]_vars

\* The scheduler runs the core thread, systemd restarts the service, time passes.
Fairness == WF_vars(Second) /\ WF_vars(CoreStep) /\ WF_vars(Boot)
FairSpec == Spec /\ Fairness
-----------------------------------------------------------------------------
\* Every variable of the device, its entries and the core loop has its type.
TypeOK ==
  /\ cfg \in DeviceConfigs
  /\ clock \in 0 .. YearSecs - 1
  /\ steady \in BOOLEAN /\ up \in BOOLEAN
  /\ crashes \in 0 .. MaxCrashes
  /\ lag \in 0 .. MaxLag
  /\ entry \in Entries \cup {NULL}
  /\ remaining_ticks \in Int
  /\ running \in [Entries -> BOOLEAN]
  /\ period_countdown \in [Entries -> Int]
  /\ duration_countdown \in [Entries -> Int]
  /\ driven \in [Entries -> Nat]
  /\ pin \in {0, 1}
  /\ idle \in [Timers -> Nat]

Lesser(a, b) == IF a <= b THEN a ELSE b

\* Ticks the entry has been served in the current round of its period.
Served(e) == Secs(cfg.entries[e].period) - period_countdown[e]
Budget(e) == Secs(cfg.entries[e].duration)

\* Started, but its first round is still to come.
Fresh(e) == period_countdown[e] = 0 /\ driven[e] = 0 /\ duration_countdown[e] = Budget(e)

\* fire_device_date keeps two countdowns, renewed together.  In every round,
\* however often the entry was suspended by another entry's date and whatever
\* the relay writes returned, the relay has been driven in exactly the first
\* `duration' of the ticks served: never in one more and never in one less.
OnTimeBudget ==
  \A e \in Entries :
    running[e] => Fresh(e) \/ driven[e] = Lesser(Budget(e), Served(e))

\* fire_get_matching_entry returns the latest dd/mm date not after today, the
\* first such entry when two have the same date, and NULL when there is none.
MatchIsLatest ==
  \A today \in Days :
    LET past == {e \in Entries : Past(e, today)}
        m == MatchingEntry(today)
    IN IF past = {} THEN m = NULL
       ELSE /\ m \in past
            /\ \A e \in past : \/ cfg.entries[e].day < cfg.entries[m].day
                               \/ cfg.entries[e].day = cfg.entries[m].day /\ m <= e

\* A timer (the device's period, or an entry's round) never goes off twice
\* within less than its period, up to the seconds the core thread can be late:
\* bursts of late iterations, failed writes, suspension of the entry and, for
\* the device's period, a restart of the process only ever delay it.
NotTooSoon ==
  [][\A t \in Timers : idle'[t] < idle[t] => idle[t] >= Cap(t) - MaxLag]_vars

\* The two countdowns of fire_device_date implement the one-counter schedule
\* of module DutyCycle, across crashes, suspensions and failed writes.
Round == INSTANCE DutyCycle WITH
  Slots   <- Entries,
  plan    <- [e \in Entries |-> [cycle  |-> Secs(cfg.entries[e].period),
                                 budget |-> Secs(cfg.entries[e].duration)]],
  started <- running,
  phase   <- [e \in Entries |-> IF period_countdown[e] = 0 THEN 0 ELSE Served(e)]
RoundSpec == Round!Spec

\* fire.c promises ("The start attribute sets the time of day at which the relay
\* will start"): as long as the core thread keeps up and the local time does not
\* jump, every round of a daily entry begins in its start hour, or at the latest in
\* the next hour when it was started in the last second of it.  A round suspended
\* by another entry's date is resumed after whole days, so it is still true of the
\* rounds after it; a restart waits for the start hour again.
OpensAtStart ==
  [][\A e \in Entries :
       (steady /\ idle'[e] < idle[e] /\ cfg.entries[e].period = HoursPerDay) =>
         (HourOf(clock) - cfg.entries[e].start) % HoursPerDay \in {0, 1}]_vars

\* Entry e is the match of some day and its start hour exists.
Startable(e) ==
  /\ cfg.active /\ cfg.period = 0
  /\ \E today \in Days : MatchingEntry(today) = e
  /\ cfg.entries[e].start < HoursPerDay

\* fire_device_date: no entry is forgotten.  Late iterations, the two separate
\* clock readings and restarts may make the core thread miss a start hour, but
\* every entry that matches a day of the year is running in the end.
EveryEntryStarts ==
  \A e \in Entries : <>[](Startable(e) => running[e])

\* A timer goes off again and again: the period of a device comes to its last
\* tick, and the round of a startable entry is renewed, infinitely often.
TimersRecur ==
  /\ []<>(cfg.active /\ cfg.period # 0 => remaining_ticks = 1)
  /\ \A e \in Entries : []<>(Startable(e) => idle[e] = 0)

-----------------------------------------------------------------------------
(* What the comments of conf/devices.example.xml promise and the code does *)
(* not do.                                                                 *)

BriefEntry == \E e \in Entries : Startable(e) /\ Budget(e) < Secs(cfg.entries[e].period)

\* "The duration attribute sets the amount of hours the relay will be on": an
\* entry whose duration is shorter than its period lets go of the relay.
RelayReleased == []<>(BriefEntry => pin = 0)
=============================================================================
