----------------------------- MODULE Historify ------------------------------
(***************************************************************************)
(* historify.c and db.c: one device's points (relay, digital input, the    *)
(* registers of its analyzer), sampled by the core thread once per loop    *)
(* iteration and written to the database, on change or periodically.       *)
(*                                                                         *)
(* The sampled values are also what get_device answers with; nothing else  *)
(* samples a point after set_devices has read it at start-up.              *)
(***************************************************************************)
EXTENDS Integers

CONSTANTS
  REGISTER_COUNT,   \* registers of an analyzer (11 in the code)
  DeviceConfigs,    \* the devices considered: historify settings and points
  Levels,           \* what a point can really be at
  Junk,             \* what an uninitialised `status' may hold
  MaxFaults,        \* bound: failed reads and failed inserts
  MaxCrashes        \* bound: crashes of the process

RELAY     == 1
INPUT     == 2
Registers == 3 .. REGISTER_COUNT + 2
LAST      == REGISTER_COUNT + 2
Points    == 1 .. LAST
NO_ROW    == -2     \* no row for the point yet
FAILED    == -1     \* relay_read and digital_read when the file cannot be opened

DeviceConfig ==
  [active : BOOLEAN, period : Nat, has_rl : BOOLEAN, has_di : BOOLEAN, has_mb : BOOLEAN]

ASSUME PointAssumption ==
  /\ REGISTER_COUNT \in Nat
  /\ Levels \subseteq Nat /\ 0 \in Levels /\ Junk \subseteq Int
  /\ DeviceConfigs \subseteq DeviceConfig
ASSUME BoundAssumption == MaxFaults \in Nat /\ MaxCrashes \in Nat

VARIABLES
  cfg,              \* the device; never changes
  level,            \* what each point really is at
  up,               \* the process is running
  pc,               \* where the core thread is: "sleep", "read" or "log"
  at,               \* next point to read or to log
  remaining_ticks,  \* historify_t.remaining_ticks
  value,            \* rl.value, di.value, mb.registers[k].value
  last_value,       \* rl.last_value, di.last_value, mb.registers[k].last_value
  db,               \* value of the point's newest row, or NO_ROW
  first,            \* history: each point's sample at the start of the process
  news,             \* history: what happened to the point's rows since: "none" was
                    \* written, the last was written ("row"), the last was "lost"
  since,            \* history: samples since the last periodic log
  faults, crashes   \* faults and crashes so far

deviceVars  == <<cfg, up, crashes>>
sampleVars  == <<value, last_value>>
newsVars    == <<first, news>>
vars == <<deviceVars, level, pc, at, remaining_ticks, sampleVars, db, newsVars, since, faults>>

Has(p) ==
  IF p = RELAY THEN cfg.has_rl
  ELSE IF p = INPUT THEN cfg.has_di ELSE cfg.has_mb

OnChange == cfg.active /\ cfg.period = 0
Periodic == cfg.active /\ cfg.period # 0

-----------------------------------------------------------------------------
\* relay_read and digital_read: the level; -1 when the file cannot be opened;
\* whatever was on the stack when it holds no number.  modbus_read: 0.
FaultyReadings(p) == IF p \in Registers THEN {0} ELSE {FAILED} \cup Junk

\* Mutant: every point is read from the relay's file.
ReadingOfRelay(p, v) == v = level[RELAY] /\ UNCHANGED faults

Reading(p, v) ==
  \/ v = level[p] /\ UNCHANGED faults
  \/ v \in FaultyReadings(p) /\ faults < MaxFaults /\ faults' = faults + 1

Readings == Levels \cup Junk \cup {0, FAILED}

\* set_devices: the first samples; a point the device does not have stays 0.
Sampled(failing, v) ==
  [p \in Points |-> IF ~Has(p) THEN 0 ELSE IF p \in failing THEN v[p] ELSE level[p]]

Init ==
  /\ cfg \in DeviceConfigs
  /\ level \in [Points -> Levels] /\ \A p \in Points : ~Has(p) => level[p] = 0
  /\ up = TRUE
  /\ pc = "sleep"
  /\ at = 1
  /\ remaining_ticks = cfg.period
  /\ value = Sampled({}, level)
  /\ last_value = value
  /\ db = [p \in Points |-> NO_ROW]
  /\ first = value
  /\ news = [p \in Points |-> "none"]
  /\ since = 0
  /\ faults = 0
  /\ crashes = 0

\* A relay is switched, an input or a register changes.
Change(p, v) ==
  /\ Has(p)
  /\ level' = [level EXCEPT ![p] = v]
  /\ UNCHANGED <<deviceVars, pc, at, remaining_ticks, sampleVars, db, newsVars, since, faults>>

-----------------------------------------------------------------------------
\* historify_device is called: an inactive device is left alone.
StartIteration ==
  /\ up /\ pc = "sleep" /\ cfg.active
  /\ pc' = "read" /\ at' = 1
  /\ since' = IF Periodic THEN since + 1 ELSE since
  /\ UNCHANGED <<deviceVars, level, remaining_ticks, sampleVars, db, newsVars, faults>>

\* update_last_value, one point.
ReadPoint(v) ==
  /\ up /\ pc = "read" /\ at <= LAST /\ Has(at)
  /\ Reading(at, v)
  /\ last_value' = [last_value EXCEPT ![at] = value[at]]
  /\ value' = [value EXCEPT ![at] = v]
  /\ at' = at + 1
  /\ UNCHANGED <<deviceVars, level, pc, remaining_ticks, db, newsVars, since>>

\* Mutants: the log comes a tick late; the counter is restarted a tick too high.
LastTickAtZero == remaining_ticks = 0
FullPeriodAndOne == cfg.period + 1

\* All points are read: log on change, log the period, or count down.
LastTick == remaining_ticks = 1
Decide ==
  /\ up /\ pc = "read" /\ at > LAST
  /\ IF OnChange \/ LastTick
     THEN pc' = "log" /\ at' = 1 /\ UNCHANGED remaining_ticks
     ELSE pc' = "sleep" /\ at' = 1 /\ remaining_ticks' = remaining_ticks - 1
  /\ UNCHANGED <<deviceVars, level, sampleVars, db, newsVars, since, faults>>

\* historify_on_change logs what differs from the sample before; historify_all
\* logs relay and input, its loop over the registers is compiled out.
\* Mutants: no loop over the registers on change either; only a rise is a change.
WantedOfPins(p) ==
  Has(p) /\ p \notin Registers /\ (OnChange => value[p] # last_value[p])
WantedOfRises(p) ==
  Has(p) /\ IF OnChange THEN value[p] > last_value[p] ELSE p \notin Registers

Wanted(p) ==
  Has(p) /\ IF OnChange THEN value[p] # last_value[p] ELSE p \notin Registers

\* db_log: a row, or no connection, or a rejected insert.
InsertRow(p, ok) ==
  IF ok THEN /\ db' = [db EXCEPT ![p] = value[p]]
             /\ news' = [news EXCEPT ![p] = "row"]
             /\ UNCHANGED faults
  ELSE /\ faults < MaxFaults /\ faults' = faults + 1
       /\ news' = [news EXCEPT ![p] = "lost"]
       /\ UNCHANGED db

LogPoint(ok) ==
  /\ up /\ pc = "log" /\ at <= LAST /\ Wanted(at)
  /\ InsertRow(at, ok)
  /\ at' = at + 1
  /\ UNCHANGED <<deviceVars, level, pc, remaining_ticks, sampleVars, first, since>>

\* A point the device does not have, or that is not to be logged, is passed by.
PassPoint ==
  /\ up /\ at <= LAST
  /\ \/ pc = "read" /\ ~Has(at)
     \/ pc = "log" /\ ~Wanted(at)
  /\ at' = at + 1
  /\ UNCHANGED <<deviceVars, level, pc, remaining_ticks, sampleVars, db, newsVars, since, faults>>

\* The counter is restarted after a periodic log.
FullPeriod == cfg.period
FinishLog ==
  /\ up /\ pc = "log" /\ at > LAST
  /\ pc' = "sleep" /\ at' = 1
  /\ IF Periodic THEN remaining_ticks' = FullPeriod /\ since' = 0
     ELSE UNCHANGED <<remaining_ticks, since>>
  /\ UNCHANGED <<deviceVars, level, sampleVars, db, newsVars, faults>>

-----------------------------------------------------------------------------
\* The process is gone, with what it had sampled; the rows stay.
Crash ==
  /\ up /\ crashes < MaxCrashes
  /\ up' = FALSE /\ crashes' = crashes + 1
  /\ pc' = "sleep" /\ at' = 1
  /\ UNCHANGED <<cfg, level, remaining_ticks, sampleVars, db, newsVars, since, faults>>

\* set_devices after a restart: sampled anew, the first samples are not logged.
Boot(failing, v) ==
  /\ ~up
  /\ up' = TRUE
  /\ IF failing = {} THEN UNCHANGED faults ELSE faults < MaxFaults /\ faults' = faults + 1
  /\ value' = Sampled(failing, v)
  /\ last_value' = value'
  /\ remaining_ticks' = cfg.period
  /\ since' = 0
  /\ first' = value'
  /\ news' = [p \in Points |-> "none"]
  /\ UNCHANGED <<cfg, crashes, level, pc, at, db>>

CoreStep ==
  \/ StartIteration
  \/ \E v \in Readings : ReadPoint(v)
  \/ Decide
  \/ \E ok \in BOOLEAN : LogPoint(ok)
  \/ PassPoint
  \/ FinishLog

Restart ==
  \E failing \in SUBSET Points :
    \E v \in [failing -> {0, FAILED} \cup Junk] :
      (\A p \in failing : v[p] \in FaultyReadings(p)) /\ Boot(failing, v)

Next ==
  \/ \E p \in Points, v \in Levels : Change(p, v)
  \/ CoreStep
  \/ Crash
  \/ Restart

Spec == Init /\ [][Next]_vars

\* The core thread is scheduled and systemd restarts the service.
FairSpec == Spec /\ WF_vars(CoreStep) /\ WF_vars(Restart)
-----------------------------------------------------------------------------
\* Every variable has its type; the counter of a period stays within it.
TypeOK ==
  /\ cfg \in DeviceConfigs
  /\ level \in [Points -> Levels]
  /\ up \in BOOLEAN
  /\ pc \in {"sleep", "read", "log"}
  /\ at \in 1 .. LAST + 1
  /\ remaining_ticks \in 0 .. cfg.period
  /\ value \in [Points -> Readings]
  /\ last_value \in [Points -> Readings]
  /\ db \in [Points -> Readings \cup {NO_ROW}]
  /\ first \in [Points -> Readings]
  /\ news \in [Points -> {"none", "row", "lost"}]
  /\ since \in Nat
  /\ faults \in 0 .. MaxFaults
  /\ crashes \in 0 .. MaxCrashes

\* The sample the newest row of p should hold: the one before, while a new
\* sample has been taken and its turn to be logged has not come.
Reported(p) ==
  IF (pc = "read" /\ p < at) \/ (pc = "log" /\ at <= p) THEN last_value[p] ELSE value[p]

\* What the table says of p to one who knows what it was at the start.
Known(p) == IF news[p] = "none" THEN first[p] ELSE db[p]

\* historify_on_change: no change between two samples goes unreported, the first
\* after a start included.  What is known of a point is its last sample but one
\* that is still to be logged, unless its last insert failed (it is not repeated).
RowsFollowSamples ==
  OnChange /\ up => \A p \in Points : Has(p) /\ news[p] # "lost" => Known(p) = Reported(p)

\* historify_device, periodic: the points are logged in the period-th sample after
\* the last log (or the start), never in one before or after it, whatever fails.
EveryPeriod ==
  Periodic /\ up => since <= cfg.period /\ (pc = "log" => since = cfg.period)

\* A point that stays at one level is sampled at that level in the end, and keeps
\* that sample: what get_device answers with is its actual value.
ValuesSettle ==
  \A p \in Points, v \in Levels :
    <>[](Has(p) => level[p] = v) => <>[](Has(p) => value[p] = v)

\* What the table says of a point that stays at one level is that level in the
\* end.  Periodic: whatever was lost, and whatever the point did while the process
\* was down, the next log repairs it.  On change: only unless its last insert
\* failed, which nothing repairs, and only from the sample at the start on.
RowsSettle ==
  \A p \in Points, v \in Levels :
    <>[](Has(p) => level[p] = v) =>
      /\ <>[](OnChange /\ Has(p) => news[p] = "lost" \/ Known(p) = v)
      /\ <>[](Periodic /\ Has(p) /\ p \notin Registers => db[p] = v)
=============================================================================
