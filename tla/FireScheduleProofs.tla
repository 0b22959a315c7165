------------------------- MODULE FireScheduleProofs -------------------------
(***************************************************************************)
(* Theorems about FireSchedule, for every configuration, calendar, number  *)
(* of entries and bound.  The first part leaves MatchingEntry unexpanded:  *)
(* whatever entry the scan selects, the countdowns keep what is proved of  *)
(* them there.  The second part is about the scan itself and, with the     *)
(* arithmetic of the calendar, about the time of day a round begins.       *)
(***************************************************************************)
EXTENDS FireSchedule, SetInduction, TLAPS

\* An entry waiting for its start hour, as set_devices left it.
Waiting(e) ==
  /\ ~running[e]
  /\ period_countdown[e] = Cap(e)
  /\ duration_countdown[e] = Budget(e)
  /\ driven[e] = 0
  /\ idle[e] = Cap(e)

\* An entry whose start hour has come; its first round is still to be renewed.
Started(e) ==
  /\ running[e]
  /\ period_countdown[e] = 0
  /\ duration_countdown[e] = Budget(e)
  /\ driven[e] = 0
  /\ idle[e] = Cap(e)

\* An entry in a round: a tick served took either an iteration that was late
\* when the round began or a second since then.
InRound(e) ==
  /\ running[e]
  /\ Served(e) >= 1
  /\ driven[e] = Lesser(Budget(e), Served(e))
  /\ duration_countdown[e] = Budget(e) - driven[e]
  /\ idle[e] >= Lesser(Cap(e), Served(e) + lag - MaxLag)

EntryInv == \A e \in Entries : Waiting(e) \/ Started(e) \/ InRound(e)

\* The same of the device's own period.
PeriodInv ==
  idle[NULL] >= Lesser(Cap(NULL), Cap(NULL) - remaining_ticks + lag - MaxLag)

\* An entry is held only inside an iteration that is due.
HeldInv == entry # NULL => up /\ lag > 0

IInv == TypeOK /\ HeldInv /\ EntryInv /\ PeriodInv

-----------------------------------------------------------------------------
\* Hours of the configuration are whole numbers of ticks.
LEMMA SecsNat == ASSUME NEW h \in Nat PROVE Secs(h) \in Nat
  BY ClockAssumption DEF Secs

LEMMA YearPositive == YearSecs \in Nat \ {0}
<1>1. DaySecs \in Nat \ {0}
  BY ClockAssumption DEF DaySecs
<1> QED
  BY <1>1, ClockAssumption DEF YearSecs

LEMMA InYear == ASSUME NEW t \in Int PROVE t % YearSecs \in 0 .. YearSecs - 1
  BY YearPositive

\* What a configuration from DeviceConfigs contributes: capacities and budgets.
LEMMA ConfigFacts ==
  ASSUME cfg \in DeviceConfigs
  PROVE  /\ cfg.period \in Nat
         /\ \A t \in Timers : Cap(t) \in Nat
         /\ \A e \in Entries : /\ Budget(e) \in Nat
                               /\ Secs(cfg.entries[e].period) = Cap(e)
                               /\ Secs(cfg.entries[e].duration) = Budget(e)
                               /\ e # NULL /\ e \in Timers
         /\ Secs(cfg.period) = Cap(NULL)
         /\ NULL \in Timers
<1>1. cfg \in DeviceConfig
  BY ConfigAssumption
<1>2. /\ cfg.period \in Nat
      /\ \A e \in Entries : /\ cfg.entries[e].period \in Nat
                            /\ cfg.entries[e].duration \in Nat
  BY <1>1 DEF DeviceConfig, EntryConfig
<1>3. \A e \in Entries : e # NULL
  BY ClockAssumption DEF Entries, NULL
<1> QED
  BY <1>2, <1>3, SecsNat DEF Cap, Budget, Timers

-----------------------------------------------------------------------------
LEMMA InitIInv == Init => IInv
<1> SUFFICES ASSUME Init PROVE IInv
  OBVIOUS
<1>1. cfg \in DeviceConfigs
  BY DEF Init
<1>2. TypeOK
  BY <1>1, ConfigFacts, BoundAssumption
     DEF Init, TypeOK, FullPeriods, FullDurations, Stopped, Undriven, Timers
<1>3. HeldInv
  BY DEF Init, HeldInv
<1>4. EntryInv
  BY <1>1, ConfigFacts
     DEF Init, EntryInv, Waiting, FullPeriods, FullDurations, Stopped, Undriven
<1>5. PeriodInv
  BY <1>1, ConfigFacts, BoundAssumption DEF Init, PeriodInv, Lesser
<1> QED
  BY <1>2, <1>3, <1>4, <1>5 DEF IInv

-----------------------------------------------------------------------------
\* An action that leaves a device's countdowns, its idle times and lag alone,
\* or only finishes an iteration, keeps what is known of its timers.
LEMMA TimersKept ==
  ASSUME TypeOK, EntryInv, PeriodInv,
         UNCHANGED <<cfg, entryVars, fireVars, idle>>, lag' \in Int, lag' <= lag
  PROVE  EntryInv' /\ PeriodInv'
<1>1. ASSUME NEW e \in Entries PROVE (Waiting(e) \/ Started(e) \/ InRound(e))'
  <2>1. /\ Cap(e)' = Cap(e) /\ Budget(e)' = Budget(e) /\ Served(e)' = Served(e)
        /\ Cap(e) \in Nat /\ Served(e) \in Int /\ idle[e] \in Nat
    BY ConfigFacts DEF Cap, Budget, Served, Secs, entryVars, TypeOK
  <2>2. CASE Waiting(e)
    BY <2>1, <2>2 DEF Waiting, entryVars
  <2>3. CASE Started(e)
    BY <2>1, <2>3 DEF Started, entryVars
  <2>4. CASE InRound(e)
    BY <2>1, <2>4, BoundAssumption DEF InRound, Lesser, entryVars, TypeOK
  <2> QED
    BY <2>2, <2>3, <2>4 DEF EntryInv
<1>2. Cap(NULL)' = Cap(NULL) /\ Cap(NULL) \in Nat /\ idle[NULL] \in Nat
  BY ConfigFacts DEF Cap, Secs, TypeOK
<1>3. PeriodInv'
  BY <1>2, BoundAssumption DEF PeriodInv, Lesser, fireVars, TypeOK
<1> QED
  BY <1>1, <1>3 DEF EntryInv

LEMMA SecondIInv == IInv /\ Second => IInv'
<1> SUFFICES ASSUME IInv, Second PROVE IInv'
  OBVIOUS
<1> USE DEF IInv
<1>1. \A t \in Timers :
        /\ Cap(t)' = Cap(t) /\ Cap(t) \in Nat
        /\ idle[t] \in Nat
        /\ idle'[t] = IF idle[t] < Cap(t) THEN idle[t] + 1 ELSE idle[t]
  BY ConfigFacts DEF Second, TypeOK, envVars, Cap, Secs
<1>2. lag' \in 0 .. MaxLag /\ lag' <= lag + 1 /\ lag <= lag'
  BY BoundAssumption DEF Second, TypeOK, envVars
<1>3. TypeOK'
  <2>1. clock' \in 0 .. YearSecs - 1
    BY InYear DEF Second, TypeOK
  <2>2. idle' \in [Timers -> Nat]
    BY <1>1 DEF Second
  <2> QED
    BY <1>2, <2>1, <2>2 DEF Second, TypeOK, envVars, fireVars, entryVars
<1>4. HeldInv'
  BY <1>2 DEF Second, HeldInv, TypeOK, envVars
<1>5. ASSUME NEW e \in Entries PROVE (Waiting(e) \/ Started(e) \/ InRound(e))'
  <2>1. /\ Budget(e)' = Budget(e) /\ Served(e)' = Served(e) /\ Served(e) \in Int
        /\ e \in Timers
    BY ConfigFacts DEF Second, TypeOK, envVars, entryVars, Budget, Served, Secs
  <2>2. CASE Waiting(e)
    BY <1>1, <2>1, <2>2 DEF Waiting, Second, entryVars
  <2>3. CASE Started(e)
    BY <1>1, <2>1, <2>3 DEF Started, Second, entryVars
  <2>4. CASE InRound(e)
    BY <1>1, <1>2, <2>1, <2>4, BoundAssumption
       DEF InRound, Lesser, Second, entryVars, TypeOK
  <2> QED
    BY <2>2, <2>3, <2>4 DEF EntryInv
<1>6. PeriodInv'
  BY <1>1, <1>2, ConfigFacts, BoundAssumption
     DEF PeriodInv, Lesser, Second, fireVars, TypeOK
<1> QED
  BY <1>3, <1>4, <1>5, <1>6 DEF EntryInv

LEMMA ChangeClockIInv ==
  ASSUME IInv, NEW hours \in ClockChanges, ChangeClock(hours) PROVE IInv'
<1> USE DEF IInv
<1>1. clock' \in 0 .. YearSecs - 1
  <2>1. clock + Secs(hours) \in Int
    BY ClockAssumption, YearPositive DEF TypeOK, Secs
  <2> QED
    BY <2>1, InYear DEF ChangeClock
<1>2. EntryInv' /\ PeriodInv'
  BY TimersKept DEF ChangeClock, TypeOK, envVars
<1> QED
  BY <1>1, <1>2 DEF ChangeClock, TypeOK, HeldInv, envVars, fireVars, entryVars

\* The iterations that leave every countdown alone.
LEMMA FireNothingIInv == IInv /\ FireNothing => IInv'
  BY TimersKept, BoundAssumption
     DEF IInv, FireNothing, Due, EndIteration, TypeOK, HeldInv, NULL, envVars, fireVars,
         entryVars

LEMMA SelectEntryIInv ==
  ASSUME IInv, NEW e \in Entries, SelectEntry(e) PROVE IInv'
  BY TimersKept
     DEF IInv, SelectEntry, Due, TypeOK, HeldInv, envVars, fireVars, entryVars

LEMMA SwitchRelayIInv ==
  ASSUME IInv, NEW value \in {0, 1}, SwitchRelay(value) PROVE IInv'
  BY TimersKept
     DEF IInv, SwitchRelay, TypeOK, HeldInv, envVars, fireVars, entryVars

\* The process dies: what it kept is still there until set_devices runs again.
LEMMA DieIInv ==
  ASSUME IInv, Die, crashes' \in 0 .. MaxCrashes PROVE IInv'
<1> USE DEF IInv
<1>0. lag' \in 0 .. MaxLag /\ entry' \in Entries \cup {NULL}
  BY BoundAssumption DEF Die
<1>u. up' \in BOOLEAN
  BY DEF Die
<1>1. TypeOK' /\ HeldInv'
  BY <1>0, <1>u DEF Die, TypeOK, HeldInv, fireVars, entryVars
<1>2. lag' \in Int /\ lag' <= lag
  BY BoundAssumption DEF Die, TypeOK
<1>3. EntryInv' /\ PeriodInv'
  BY <1>2, TimersKept DEF Die
<1> QED
  BY <1>1, <1>3

LEMMA FireCountdownIInv == IInv /\ FireCountdown => IInv'
<1> SUFFICES ASSUME IInv, FireCountdown PROVE IInv'
  OBVIOUS
<1> USE DEF IInv
<1>1. TypeOK' /\ HeldInv'
  BY BoundAssumption
     DEF FireCountdown, Due, EndIteration, TypeOK, HeldInv, NULL, envVars, entryVars
<1>2. EntryInv'
  <2>1. ASSUME NEW e \in Entries PROVE (Waiting(e) \/ Started(e) \/ InRound(e))'
    <3>1. /\ Cap(e)' = Cap(e) /\ Budget(e)' = Budget(e) /\ Served(e)' = Served(e)
          /\ Cap(e) \in Nat /\ Served(e) \in Int /\ e \in Timers
      BY ConfigFacts
         DEF FireCountdown, Cap, Budget, Served, Secs, envVars, entryVars, TypeOK
    <3>2. (Waiting(e) => Waiting(e)') /\ (Started(e) => Started(e)')
      BY <3>1 DEF FireCountdown, Waiting, Started, entryVars
    <3>3. CASE InRound(e)
      BY <3>1, <3>3, BoundAssumption
         DEF FireCountdown, EndIteration, InRound, Lesser, entryVars, TypeOK
    <3> QED
      BY <3>2, <3>3 DEF EntryInv
  <2> QED
    BY <2>1 DEF EntryInv
<1>3. PeriodInv'
  <2>1. Cap(NULL)' = Cap(NULL) /\ Cap(NULL) \in Nat /\ idle[NULL] \in Nat
    BY ConfigFacts DEF FireCountdown, Cap, Secs, envVars, TypeOK
  <2> QED
    BY <2>1, BoundAssumption DEF FireCountdown, EndIteration, PeriodInv, Lesser, TypeOK
<1> QED
  BY <1>1, <1>2, <1>3

LEMMA FirePeriodIInv ==
  ASSUME IInv, NEW ok \in BOOLEAN, FirePeriod(ok) PROVE IInv'
<1> USE DEF IInv
<1>1. /\ \A t \in Timers : Cap(t)' = Cap(t) /\ Cap(t) \in Nat /\ idle[t] \in Nat
      /\ Secs(cfg.period) = Cap(NULL)
      /\ \A e \in Entries : e \in Timers /\ idle'[e] = idle[e]
      /\ lag' = lag - 1 /\ lag \in 1 .. MaxLag
  BY ConfigFacts, BoundAssumption
     DEF FirePeriod, Due, EndIteration, Cap, Secs, envVars, TypeOK
<1>2. /\ idle' \in [Timers -> Nat]
      /\ pin' \in {0, 1} /\ remaining_ticks' \in Int
  BY <1>1, ConfigFacts DEF FirePeriod, RelayWrite, TypeOK
<1>3. TypeOK' /\ HeldInv'
  BY <1>1, <1>2, BoundAssumption
     DEF FirePeriod, Due, EndIteration, TypeOK, HeldInv, NULL, envVars, entryVars
<1>4. ASSUME NEW e \in Entries PROVE (Waiting(e) \/ Started(e) \/ InRound(e))'
  <2>1. /\ Budget(e)' = Budget(e) /\ Served(e)' = Served(e) /\ Served(e) \in Int
    BY ConfigFacts DEF FirePeriod, TypeOK, envVars, entryVars, Budget, Served, Secs
  <2>2. (Waiting(e) => Waiting(e)') /\ (Started(e) => Started(e)')
    BY <1>1, <2>1 DEF FirePeriod, Waiting, Started, entryVars
  <2>3. CASE InRound(e)
    BY <1>1, <2>1, <2>3, BoundAssumption DEF FirePeriod, InRound, Lesser, entryVars, TypeOK
  <2> QED
    BY <2>2, <2>3 DEF EntryInv
<1>5. PeriodInv'
  <2>1. CASE cfg.has_rl /\ ~ok
    BY <1>1, <2>1, ConfigFacts, BoundAssumption DEF FirePeriod, PeriodInv, Lesser, TypeOK
  <2>2. CASE ~(cfg.has_rl /\ ~ok)
    <3>1. remaining_ticks' = Cap(NULL) /\ idle'[NULL] = 0
      BY <1>1, <2>2, ConfigFacts DEF FirePeriod, TypeOK
    <3> QED
      BY <1>1, <3>1, ConfigFacts, BoundAssumption DEF PeriodInv, Lesser, TypeOK
  <2> QED
    BY <2>1, <2>2
<1> QED
  BY <1>3, <1>4, <1>5 DEF EntryInv

LEMMA StartEntryIInv == IInv /\ StartEntry => IInv'
<1> SUFFICES ASSUME IInv, StartEntry PROVE IInv'
  OBVIOUS
<1> USE DEF IInv
<1>1. CASE ~StartHour(entry)
  <2>1. UNCHANGED <<cfg, entryVars, fireVars, idle>>
    BY <1>1 DEF StartEntry, envVars, entryVars
  <2>2. lag' = lag - 1 /\ lag \in 1 .. MaxLag /\ entry' = NULL
    BY DEF StartEntry, EndIteration, HeldInv, TypeOK
  <2>3. EntryInv' /\ PeriodInv'
    BY <2>1, <2>2, BoundAssumption, TimersKept DEF TypeOK
  <2>4. TypeOK' /\ HeldInv'
    BY <2>1, <2>2, BoundAssumption
       DEF StartEntry, TypeOK, HeldInv, envVars, fireVars, entryVars
  <2> QED
    BY <2>3, <2>4
<1>2. CASE StartHour(entry)
  <2>1. /\ running' = [running EXCEPT ![entry] = TRUE]
        /\ period_countdown' = [period_countdown EXCEPT ![entry] = 0]
        /\ entry \in Entries /\ ~running[entry]
        /\ lag' = lag - 1 /\ lag \in 1 .. MaxLag
    BY <1>2 DEF StartEntry, EndIteration, HeldInv, TypeOK
  <2>2. TypeOK' /\ HeldInv'
    <3>1. running' \in [Entries -> BOOLEAN] /\ period_countdown' \in [Entries -> Int]
      BY <2>1 DEF TypeOK
    <3>2. lag' \in 0 .. MaxLag /\ entry' = NULL
      BY <2>1, BoundAssumption DEF StartEntry, EndIteration
    <3> QED
      BY <3>1, <3>2 DEF StartEntry, TypeOK, HeldInv, envVars, fireVars
  <2>3. ASSUME NEW e \in Entries PROVE (Waiting(e) \/ Started(e) \/ InRound(e))'
    <3>1. /\ Cap(e)' = Cap(e) /\ Budget(e)' = Budget(e)
          /\ Cap(e) \in Nat /\ e \in Timers /\ idle[e] \in Nat
      BY ConfigFacts DEF StartEntry, Cap, Budget, Secs, envVars, TypeOK
    <3>2. CASE e = entry
      <4>1. Waiting(e)
        BY <2>1, <3>2 DEF EntryInv, Started, InRound
      <4>2. Started(e)'
        BY <2>1, <3>1, <3>2, <4>1 DEF Waiting, Started, StartEntry, TypeOK
      <4> QED
        BY <4>2
    <3>3. CASE e # entry
      <4>1. /\ running'[e] = running[e]
            /\ period_countdown'[e] = period_countdown[e]
            /\ Served(e)' = Served(e) /\ Served(e) \in Int
        BY <2>1, <3>1, <3>3, ConfigFacts DEF StartEntry, Served, Secs, envVars, TypeOK
      <4>2. (Waiting(e) => Waiting(e)') /\ (Started(e) => Started(e)')
        BY <3>1, <4>1 DEF StartEntry, Waiting, Started
      <4>3. CASE InRound(e)
        BY <2>1, <3>1, <4>1, <4>3, BoundAssumption DEF StartEntry, InRound, Lesser, TypeOK
      <4> QED
        BY <4>2, <4>3 DEF EntryInv
    <3> QED
      BY <3>2, <3>3
  <2>4. PeriodInv'
    BY <2>1, ConfigFacts, BoundAssumption
       DEF StartEntry, PeriodInv, Lesser, Cap, Secs, envVars, fireVars, TypeOK
  <2> QED
    BY <2>2, <2>3, <2>4 DEF EntryInv
<1> QED
  BY <1>1, <1>2

LEMMA ServeEntryIInv ==
  ASSUME IInv, NEW ok \in BOOLEAN, ServeEntry(ok) PROVE IInv'
<1> USE DEF IInv
<1> DEFINE on == IF Drives(entry) THEN 1 ELSE 0
           already == IF Renews(entry) THEN 0 ELSE driven[entry]
<1>1. /\ entry \in Entries /\ running[entry]
      /\ lag' = lag - 1 /\ lag \in 1 .. MaxLag /\ entry' = NULL
  BY DEF ServeEntry, EndIteration, HeldInv, TypeOK
<1>2. /\ \A t \in Timers : Cap(t)' = Cap(t) /\ Cap(t) \in Nat /\ idle[t] \in Nat
      /\ \A e \in Entries : /\ e \in Timers /\ e # NULL
                            /\ Budget(e)' = Budget(e) /\ Budget(e) \in Nat
                            /\ Served(e) = Cap(e) - period_countdown[e]
                            /\ Served(e)' = Cap(e) - period_countdown'[e]
                            /\ period_countdown[e] \in Int
      /\ NULL \in Timers
  BY ConfigFacts DEF ServeEntry, envVars, Cap, Budget, Served, Secs, TypeOK
<1>3. /\ PeriodLeft(entry) = IF Renews(entry) THEN Cap(entry) ELSE period_countdown[entry]
      /\ DurationLeft(entry) =
           IF Renews(entry) THEN Budget(entry) ELSE duration_countdown[entry]
      /\ PeriodLeft(entry) \in Int /\ DurationLeft(entry) \in Int
      /\ already \in Nat /\ on \in {0, 1}
  BY <1>1, <1>2, ConfigFacts DEF PeriodLeft, DurationLeft, TypeOK
<1>4. /\ period_countdown' = [period_countdown EXCEPT ![entry] = PeriodLeft(entry) - 1]
      /\ duration_countdown' =
           [duration_countdown EXCEPT ![entry] = DurationLeft(entry) - on]
      /\ driven' = [driven EXCEPT ![entry] = already + on]
      /\ idle' = [idle EXCEPT ![entry] = IF Renews(entry) THEN 0 ELSE @]
      /\ running' = running
  BY DEF ServeEntry
<1> HIDE DEF on, already
<1>5. TypeOK' /\ HeldInv'
  <2>1. /\ period_countdown' \in [Entries -> Int]
        /\ duration_countdown' \in [Entries -> Int]
        /\ driven' \in [Entries -> Nat]
        /\ idle' \in [Timers -> Nat]
    BY <1>1, <1>2, <1>3, <1>4 DEF TypeOK
  <2>2. pin' \in {0, 1} /\ lag' \in 0 .. MaxLag
    BY <1>1, BoundAssumption DEF ServeEntry, RelayWrite, TypeOK
  <2> QED
    BY <1>1, <2>1, <2>2 DEF ServeEntry, TypeOK, HeldInv, envVars, fireVars
<1>6. ASSUME NEW e \in Entries, e # entry
      PROVE  (Waiting(e) \/ Started(e) \/ InRound(e))'
  <2>1. /\ period_countdown'[e] = period_countdown[e]
        /\ duration_countdown'[e] = duration_countdown[e]
        /\ driven'[e] = driven[e] /\ idle'[e] = idle[e] /\ Served(e)' = Served(e)
    BY <1>2, <1>4, <1>6 DEF TypeOK
  <2>2. (Waiting(e) => Waiting(e)') /\ (Started(e) => Started(e)')
    BY <1>2, <1>4, <2>1 DEF Waiting, Started
  <2>3. CASE InRound(e)
    BY <1>1, <1>2, <1>4, <2>1, <2>3, BoundAssumption DEF InRound, Lesser, TypeOK
  <2> QED
    BY <2>2, <2>3 DEF EntryInv
<1>7. ASSUME NEW e \in Entries, e = entry PROVE InRound(e)'
  <2>1. /\ period_countdown'[e] = PeriodLeft(e) - 1
        /\ duration_countdown'[e] = DurationLeft(e) - on
        /\ driven'[e] = already + on
        /\ idle'[e] = IF Renews(e) THEN 0 ELSE idle[e]
    BY <1>1, <1>2, <1>4, <1>7 DEF TypeOK
  <2>2. /\ on = IF DurationLeft(e) > 0 THEN 1 ELSE 0
        /\ already = IF Renews(e) THEN 0 ELSE driven[e]
    BY <1>7 DEF on, already, Drives
  <2>3. CASE Renews(e)
    BY <1>1, <1>2, <1>3, <1>4, <1>7, <2>1, <2>2, <2>3, BoundAssumption DEF InRound, Lesser
  <2>4. CASE ~Renews(e)
    <3>1. InRound(e)
      BY <1>1, <1>7, <2>4 DEF EntryInv, Waiting, Started, Renews
    <3>2. /\ PeriodLeft(e) = period_countdown[e] /\ DurationLeft(e) = duration_countdown[e]
          /\ Cap(e) \in Nat /\ Budget(e) \in Nat /\ idle[e] \in Nat
          /\ period_countdown[e] \in Int /\ driven[e] \in Nat
          /\ duration_countdown[e] \in Int
      BY <1>2, <1>3, <1>7, <2>4 DEF TypeOK
    <3>3. Served(e)' = Served(e) + 1 /\ Served(e) \in Int /\ Served(e)' >= 1
      BY <1>2, <2>1, <3>1, <3>2 DEF InRound
    <3>4. /\ driven'[e] = Lesser(Budget(e), Served(e) + 1)
          /\ duration_countdown'[e] = Budget(e) - driven'[e]
      BY <2>1, <2>2, <2>4, <3>1, <3>2, <3>3 DEF InRound, Lesser
    <3>5. idle'[e] >= Lesser(Cap(e), Served(e) + 1 + lag' - MaxLag)
      BY <1>1, <2>1, <2>4, <3>1, <3>2, <3>3, BoundAssumption DEF InRound, Lesser
    <3> QED
      BY <1>1, <1>2, <1>4, <1>7, <3>3, <3>4, <3>5 DEF InRound, Lesser
  <2> QED
    BY <2>3, <2>4
<1>8. PeriodInv'
  <2>1. idle'[NULL] = idle[NULL] /\ remaining_ticks' = remaining_ticks
    BY <1>1, <1>2, <1>4 DEF ServeEntry, fireVars, TypeOK
  <2> QED
    BY <1>1, <1>2, <2>1, BoundAssumption DEF PeriodInv, Lesser, TypeOK
<1> QED
  BY <1>5, <1>6, <1>7, <1>8 DEF EntryInv

LEMMA BootIInv == IInv /\ Boot => IInv'
<1> SUFFICES ASSUME IInv, Boot PROVE IInv'
  OBVIOUS
<1> USE DEF IInv
<1>1. /\ \A t \in Timers : Cap(t)' = Cap(t) /\ Cap(t) \in Nat /\ idle[t] \in Nat
      /\ \A e \in Entries : /\ e \in Timers /\ e # NULL
                            /\ Budget(e)' = Budget(e) /\ Budget(e) \in Nat
                            /\ Secs(cfg.entries[e].period) = Cap(e)
                            /\ Secs(cfg.entries[e].duration) = Budget(e)
      /\ NULL \in Timers /\ Secs(cfg.period) = Cap(NULL)
  BY ConfigFacts DEF Boot, Cap, Budget, Secs, TypeOK
<1>2. TypeOK'
  <2>1. lag' \in 0 .. MaxLag /\ up' \in BOOLEAN
    BY BoundAssumption DEF Boot
  <2>2. /\ period_countdown' \in [Entries -> Int]
        /\ duration_countdown' \in [Entries -> Int]
        /\ driven' \in [Entries -> Nat]
        /\ running' \in [Entries -> BOOLEAN]
        /\ idle' \in [Timers -> Nat]
        /\ remaining_ticks' \in Int
    BY <1>1 DEF Boot, FullPeriods, FullDurations, Stopped, Undriven
  <2> QED
    BY <2>1, <2>2 DEF Boot, TypeOK
<1>3. HeldInv'
  BY DEF Boot, HeldInv
<1>4. \A e \in Entries : Waiting(e)'
  BY <1>1 DEF Boot, Waiting, FullPeriods, FullDurations, Stopped, Undriven
<1>5. PeriodInv'
  BY <1>1, BoundAssumption DEF Boot, PeriodInv, Lesser, TypeOK
<1> QED
  BY <1>2, <1>3, <1>4, <1>5 DEF EntryInv

LEMMA StepIInv == IInv /\ [Next]_vars => IInv'
<1> SUFFICES ASSUME IInv, [Next]_vars PROVE IInv'
  OBVIOUS
<1>1. CASE UNCHANGED vars
  BY <1>1, TimersKept
     DEF IInv, TypeOK, HeldInv, vars, envVars, fireVars, entryVars
<1>2. CASE Second
  BY <1>2, SecondIInv
<1>3. ASSUME NEW hours \in ClockChanges, ChangeClock(hours) PROVE IInv'
  BY <1>3, ChangeClockIInv
<1>4. CASE FireNothing
  BY <1>4, FireNothingIInv
<1>5. CASE FireCountdown
  BY <1>5, FireCountdownIInv
<1>6. ASSUME NEW ok \in BOOLEAN, FirePeriod(ok) PROVE IInv'
  BY <1>6, FirePeriodIInv
<1>7. ASSUME NEW e \in Entries, SelectEntry(e) PROVE IInv'
  BY <1>7, SelectEntryIInv
<1>8. CASE StartEntry
  BY <1>8, StartEntryIInv
<1>9. ASSUME NEW ok \in BOOLEAN, ServeEntry(ok) PROVE IInv'
  BY <1>9, ServeEntryIInv
<1>10. CASE DriveNullRelay
  BY <1>10, DieIInv DEF DriveNullRelay, IInv, TypeOK
<1>11. CASE Crash
  <2>1. crashes' \in 0 .. MaxCrashes
    BY <1>11, BoundAssumption DEF Crash, IInv, TypeOK
  <2> QED
    BY <1>11, <2>1, DieIInv DEF Crash
<1>12. CASE Boot
  BY <1>12, BootIInv
<1>13. ASSUME NEW value \in {0, 1}, SwitchRelay(value) PROVE IInv'
  BY <1>13, SwitchRelayIInv
<1> QED
  BY <1>1, <1>2, <1>3, <1>4, <1>5, <1>6, <1>7, <1>8, <1>9, <1>10, <1>11, <1>12, <1>13
     DEF Next, CoreStep

LEMMA Invariance == Spec => []IInv
  BY InitIInv, StepIInv, PTL DEF Spec

\* Every variable has its type, for every configuration and bound.
THEOREM TypeCorrect == Spec => []TypeOK
  BY Invariance, PTL DEF IInv

-----------------------------------------------------------------------------
\* fire_device_date: in every round of every entry the relay has been driven in
\* exactly the first `duration' ticks served.  Each disjunct of EntryInv ties
\* the two countdowns to the ticks driven.
THEOREM BudgetKept == Spec => []OnTimeBudget
<1>1. IInv => OnTimeBudget
  BY DEF IInv, EntryInv, Waiting, Started, InRound, OnTimeBudget, Fresh
<1> QED
  BY <1>1, Invariance, PTL

-----------------------------------------------------------------------------
\* The same as NotTooSoon says, of one step.
KeepsDistance ==
  \A t \in Timers : idle'[t] < idle[t] => idle[t] >= Cap(t) - MaxLag

LEMMA StepKeepsDistance == IInv /\ [Next]_vars => KeepsDistance
<1> SUFFICES ASSUME IInv, [Next]_vars, NEW t \in Timers, idle'[t] < idle[t]
             PROVE  idle[t] >= Cap(t) - MaxLag
  BY DEF KeepsDistance
<1> USE DEF IInv
<1>1. Cap(t) \in Nat /\ idle[t] \in Nat
  BY ConfigFacts DEF TypeOK
<1>2. idle' # idle
  BY <1>1
<1>3. ASSUME NEW ok \in BOOLEAN, FirePeriod(ok) PROVE idle[t] >= Cap(t) - MaxLag
  <2>1. t = NULL /\ remaining_ticks = 1 /\ lag >= 1
    BY <1>1, <1>3 DEF FirePeriod, Due, TypeOK
  <2> QED
    BY <1>1, <2>1, BoundAssumption DEF PeriodInv, Lesser, TypeOK
<1>4. ASSUME NEW ok \in BOOLEAN, ServeEntry(ok) PROVE idle[t] >= Cap(t) - MaxLag
  <2>1. t = entry /\ t \in Entries /\ Renews(t) /\ running[t] /\ lag >= 1
    BY <1>1, <1>4 DEF ServeEntry, HeldInv, TypeOK
  <2>2. CASE Started(t)
    BY <1>1, <2>2, BoundAssumption DEF Started
  <2>3. CASE InRound(t)
    BY <1>1, <2>1, <2>3, ConfigFacts, BoundAssumption
       DEF InRound, Renews, Served, Lesser, TypeOK
  <2> QED
    BY <2>1, <2>2, <2>3 DEF EntryInv, Waiting
<1>5. CASE Second
  BY <1>1, <1>5 DEF Second
<1>6. CASE Boot
  BY <1>1, <1>6, BoundAssumption DEF Boot
<1>7. ASSUME NEW hours \in ClockChanges, ChangeClock(hours) PROVE FALSE
  BY <1>2, <1>7 DEF ChangeClock
<1>8. CASE FireNothing \/ FireCountdown \/ StartEntry \/ DriveNullRelay \/ Crash
  BY <1>2, <1>8 DEF FireNothing, FireCountdown, StartEntry, DriveNullRelay, Crash, Die
<1>9. ASSUME NEW e \in Entries, SelectEntry(e) PROVE FALSE
  BY <1>2, <1>9 DEF SelectEntry
<1>10. ASSUME NEW value \in {0, 1}, SwitchRelay(value) PROVE FALSE
  BY <1>2, <1>10 DEF SwitchRelay
<1>11. CASE UNCHANGED vars
  BY <1>2, <1>11 DEF vars
<1> QED
  BY <1>3, <1>4, <1>5, <1>6, <1>7, <1>8, <1>9, <1>10, <1>11 DEF Next, CoreStep

\* fire_device_period and fire_device_date: no timer goes off twice within less
\* than its period less the seconds the core thread can be late, whatever the
\* relay answers, whatever entry is selected and however often the process dies.
THEOREM RoundsKeepDistance == Spec => NotTooSoon
<1>1. IInv /\ [Next]_vars => [KeepsDistance]_vars
  BY StepKeepsDistance
<1> QED
  BY <1>1, Invariance, PTL DEF Spec, NotTooSoon, KeepsDistance

-----------------------------------------------------------------------------
\* The abstract variables that RoundSpec reads off the countdowns.
Plan == [e \in Entries |-> [cycle  |-> Secs(cfg.entries[e].period),
                            budget |-> Secs(cfg.entries[e].duration)]]
Phase == [e \in Entries |-> IF period_countdown[e] = 0 THEN 0 ELSE Served(e)]

\* The phase of an entry between rounds is 0, and only then.
LEMMA PhaseFacts ==
  ASSUME TypeOK, EntryInv, NEW e \in Entries
  PROVE  /\ Phase[e] = (IF period_countdown[e] = 0 THEN 0 ELSE Served(e))
         /\ Served(e) = Cap(e) - period_countdown[e]
         /\ ~running[e] => Phase[e] = 0
         /\ running[e] /\ period_countdown[e] # 0 =>
              Served(e) >= 1 /\ duration_countdown[e] = Budget(e) - driven[e]
              /\ driven[e] = Lesser(Budget(e), Served(e))
         /\ Plan[e].cycle = Cap(e) /\ Plan[e].budget = Budget(e)
         /\ Cap(e) \in Nat /\ Budget(e) \in Nat
<1>1. /\ Secs(cfg.entries[e].period) = Cap(e)
      /\ Secs(cfg.entries[e].duration) = Budget(e)
      /\ Cap(e) \in Nat /\ Budget(e) \in Nat
  BY ConfigFacts DEF TypeOK, Timers
<1>2. Served(e) = Cap(e) - period_countdown[e] /\ period_countdown[e] \in Int
  BY <1>1 DEF Served, TypeOK
<1> QED
  BY <1>1, <1>2 DEF Phase, Plan, EntryInv, Waiting, Started, InRound

LEMMA InitRefines == Init => Round!Init
<1> SUFFICES ASSUME Init PROVE Round!Init
  OBVIOUS
<1>1. cfg \in DeviceConfigs
  BY DEF Init
<1>2. \A e \in Entries : /\ Secs(cfg.entries[e].period) \in Nat
                         /\ Secs(cfg.entries[e].duration) \in Nat
  BY <1>1, ConfigFacts DEF Timers
<1> QED
  BY <1>2 DEF Init, Round!Init, Round!Idle, Stopped, Undriven, FullPeriods, Served

LEMMA StepRefines == IInv /\ IInv' /\ [Next]_vars => [Round!Next]_(Round!dvars)
<1> SUFFICES ASSUME IInv, IInv', [Next]_vars
             PROVE  Round!Next \/ UNCHANGED <<Plan, running, Phase, driven>>
  BY DEF Round!dvars, Plan, Phase
<1> USE DEF IInv
<1>0. ASSUME UNCHANGED <<cfg, period_countdown>> PROVE UNCHANGED <<Plan, Phase>>
  BY <1>0 DEF Plan, Phase, Served, Secs
<1>1. ASSUME UNCHANGED <<cfg, entryVars>>
      PROVE  UNCHANGED <<Plan, running, Phase, driven>>
  BY <1>0, <1>1 DEF entryVars
<1>2. CASE UNCHANGED vars
  BY <1>1, <1>2 DEF vars, envVars
<1>3. CASE Second \/ FireNothing \/ FireCountdown \/ DriveNullRelay \/ Crash
  BY <1>1, <1>3 DEF Second, FireNothing, FireCountdown, DriveNullRelay, Crash, Die, envVars
<1>4. ASSUME NEW hours \in ClockChanges, ChangeClock(hours)
      PROVE  UNCHANGED <<Plan, running, Phase, driven>>
  BY <1>1, <1>4 DEF ChangeClock, envVars
<1>5. ASSUME NEW ok \in BOOLEAN, FirePeriod(ok)
      PROVE  UNCHANGED <<Plan, running, Phase, driven>>
  BY <1>1, <1>5 DEF FirePeriod, envVars
<1>6. ASSUME NEW e \in Entries, SelectEntry(e)
      PROVE  UNCHANGED <<Plan, running, Phase, driven>>
  BY <1>1, <1>6 DEF SelectEntry, envVars
<1>7. ASSUME NEW value \in {0, 1}, SwitchRelay(value)
      PROVE  UNCHANGED <<Plan, running, Phase, driven>>
  BY <1>1, <1>7 DEF SwitchRelay, envVars
<1>8. CASE Boot
  <2>1. UNCHANGED Plan
    BY <1>8 DEF Boot, Plan, Secs
  <2>2. Phase' = [e \in Entries |-> 0]
    <3>1. \A e \in Entries : Phase'[e] = 0
      BY <1>8, ConfigFacts DEF Boot, Phase, Served, FullPeriods, Secs, Timers, TypeOK
    <3> QED
      BY <3>1 DEF Phase
  <2> QED
    BY <1>8, <2>1, <2>2
       DEF Boot, Round!Next, Round!Forget, Round!Idle, Stopped, Undriven, Plan, Phase
<1>9. CASE StartEntry
  <2>1. CASE ~StartHour(entry)
    BY <1>1, <1>9, <2>1 DEF StartEntry, envVars, entryVars
  <2>2. CASE StartHour(entry)
    <3>1. /\ entry \in Entries /\ ~running[entry]
          /\ running' = [running EXCEPT ![entry] = TRUE]
          /\ period_countdown' = [period_countdown EXCEPT ![entry] = 0]
      BY <1>9, <2>2 DEF StartEntry, TypeOK
    <3>2. UNCHANGED <<cfg, driven>>
      BY <1>9 DEF StartEntry, envVars
    <3>3. UNCHANGED Plan
      BY <3>2 DEF Plan, Secs
    <3>4. \A e \in Entries : Phase'[e] = Phase[e]
      <4>1. ASSUME NEW e \in Entries PROVE Phase'[e] = Phase[e]
        BY <3>1, <3>2, <4>1, PhaseFacts DEF Phase, Served, Secs, TypeOK
      <4> QED
        BY <4>1
    <3>5. UNCHANGED Phase
      BY <3>4 DEF Phase
    <3> QED
      BY <3>1, <3>2, <3>3, <3>5 DEF Round!Next, Round!Start, Plan, Phase
  <2> QED
    BY <2>1, <2>2
<1>10. ASSUME NEW ok \in BOOLEAN, ServeEntry(ok) PROVE Round!Next
  <2> DEFINE f == entry
  <2>1. /\ f \in Entries /\ running[f]
        /\ period_countdown' = [period_countdown EXCEPT ![f] = PeriodLeft(f) - 1]
        /\ driven' = [driven EXCEPT ![f] = (IF Renews(f) THEN 0 ELSE driven[f])
                                          + (IF Drives(f) THEN 1 ELSE 0)]
        /\ UNCHANGED <<cfg, running>>
    BY <1>10 DEF ServeEntry, TypeOK, envVars
  <2> HIDE DEF f
  <2>2. UNCHANGED Plan
    BY <2>1 DEF Plan, Secs
  <2>3. /\ Renews(f) <=> Phase[f] = 0
        /\ Drives(f) <=> Phase[f] < Plan[f].budget
    BY <2>1, PhaseFacts, ConfigFacts
       DEF Renews, Drives, DurationLeft, Lesser, TypeOK
  <2>4. Phase' = [Phase EXCEPT ![f] = IF @ + 1 = Plan[f].cycle THEN 0 ELSE @ + 1]
    <3>1. ASSUME NEW e \in Entries
          PROVE  Phase'[e] = IF period_countdown'[e] = 0
                             THEN 0 ELSE Cap(e) - period_countdown'[e]
      BY <2>1, <3>1, ConfigFacts DEF Phase, Served, Secs, TypeOK
    <3>2. \A e \in Entries : e # f => Phase'[e] = Phase[e]
      BY <2>1, <3>1, PhaseFacts DEF TypeOK
    <3>3. period_countdown'[f] = PeriodLeft(f) - 1
      BY <2>1 DEF TypeOK
    <3>4. Phase'[f] = IF Phase[f] + 1 = Plan[f].cycle THEN 0 ELSE Phase[f] + 1
      <4>1. PeriodLeft(f) = IF period_countdown[f] = 0 THEN Cap(f) ELSE period_countdown[f]
        BY <2>1, ConfigFacts DEF PeriodLeft, Renews, TypeOK
      <4>2. period_countdown[f] \in Int /\ Cap(f) \in Nat /\ Plan[f].cycle = Cap(f)
        BY <2>1, PhaseFacts DEF TypeOK
      <4>3. Phase'[f] = IF period_countdown'[f] = 0 THEN 0 ELSE Cap(f) - period_countdown'[f]
        BY <2>1, <3>1
      <4>4. CASE period_countdown[f] = 0
        <5>1. Phase[f] = 0
          BY <2>1, <4>4, PhaseFacts
        <5> QED
          BY <3>3, <4>1, <4>2, <4>3, <4>4, <5>1
      <4>5. CASE period_countdown[f] # 0
        <5>1. Phase[f] = Cap(f) - period_countdown[f]
          BY <2>1, <4>5, PhaseFacts
        <5> QED
          BY <3>3, <4>1, <4>2, <4>3, <4>5, <5>1
      <4> QED
        BY <4>4, <4>5
    <3> QED
      BY <2>1, <3>2, <3>4 DEF Phase
  <2> QED
    BY <2>1, <2>2, <2>3, <2>4 DEF Round!Next, Round!Serve, Plan, Phase
<1> QED
  BY <1>2, <1>3, <1>4, <1>5, <1>6, <1>7, <1>8, <1>9, <1>10 DEF Next, CoreStep

\* fire_device_date implements DutyCycle: its two countdowns, renewed together,
\* are one counter of the ticks served in the round.
THEOREM Refinement == Spec => RoundSpec
<1>1. Init => Round!Init
  BY InitRefines
<1>2. IInv /\ IInv' /\ [Next]_vars => [Round!Next]_(Round!dvars)
  BY StepRefines
<1> QED
  BY <1>1, <1>2, Invariance, PTL DEF Spec, RoundSpec, Round!Spec

-----------------------------------------------------------------------------
(* The scan of fire_get_matching_entry. *)

\* The best entry so far, after each turn of the loop, of a configuration c.
Scan(c, today) ==
  LET last_entry[i \in 0 .. DATE_ENTRIES] ==
        IF i = 0 THEN NULL
        ELSE IF /\ c.entries[i].format = "dd/mm" /\ c.entries[i].day <= today
                /\ \/ last_entry[i - 1] = NULL
                   \/ c.entries[i].day > c.entries[last_entry[i - 1]].day
             THEN i ELSE last_entry[i - 1]
  IN last_entry

LEMMA MatchIs ==
  /\ \A today : MatchingEntry(today) = Scan(cfg, today)[DATE_ENTRIES]
  /\ \A today : MatchingEntry(today)' = Scan(cfg', today)[DATE_ENTRIES]
  BY DEF MatchingEntry, Scan, Past, Later

LEMMA ScanDef ==
  ASSUME NEW c, NEW today
  PROVE  Scan(c, today) =
           [i \in 0 .. DATE_ENTRIES |->
              IF i = 0 THEN NULL
              ELSE IF /\ c.entries[i].format = "dd/mm" /\ c.entries[i].day <= today
                      /\ \/ Scan(c, today)[i - 1] = NULL
                         \/ c.entries[i].day > c.entries[Scan(c, today)[i - 1]].day
                   THEN i ELSE Scan(c, today)[i - 1]]
<1> DEFINE Best(i, b) ==
             IF /\ c.entries[i].format = "dd/mm" /\ c.entries[i].day <= today
                /\ b = NULL \/ c.entries[i].day > c.entries[b].day
             THEN i ELSE b
           Solves(g, n) == g = [i \in 0 .. n |-> IF i = 0 THEN NULL ELSE Best(i, g[i - 1])]
           S == {n \in 0 .. DATE_ENTRIES : \E g : Solves(g, n)}
<1>0. DATE_ENTRIES \in Nat
  BY ClockAssumption
<1>1. Scan(c, today) = CHOOSE g : Solves(g, DATE_ENTRIES)
  BY DEF Scan
<1> HIDE DEF Best
<1>2. 0 \in S
  <2> DEFINE g == [i \in 0 .. 0 |-> NULL]
  <2>1. Solves(g, 0)
    OBVIOUS
  <2> HIDE DEF Solves, g
  <2> QED
    BY <1>0, <2>1
<1>3. ASSUME NEW n \in 0 .. DATE_ENTRIES - 1, n \in S PROVE n + 1 \in S
  <2>1. PICK g : Solves(g, n)
    BY <1>3
  <2> DEFINE h == [i \in 0 .. n + 1 |-> IF i = n + 1 THEN Best(n + 1, g[n]) ELSE g[i]]
             r == [i \in 0 .. n + 1 |-> IF i = 0 THEN NULL ELSE Best(i, h[i - 1])]
  <2>2. \A i \in 0 .. n : g[i] = IF i = 0 THEN NULL ELSE Best(i, g[i - 1])
    BY <2>1
  <2> HIDE DEF Solves
  <2>3. ASSUME NEW i \in 0 .. n + 1 PROVE h[i] = r[i]
    <3>1. CASE i = n + 1
      <4>1. i # 0 /\ i - 1 = n /\ h[i - 1] = g[n] /\ h[i] = Best(i, g[n])
        BY <1>0, <3>1
      <4> QED
        BY <4>1
    <3>2. CASE i # n + 1 /\ i # 0
      <4>1. i \in 0 .. n /\ i - 1 \in 0 .. n /\ h[i] = g[i] /\ h[i - 1] = g[i - 1]
        BY <1>0, <3>2
      <4> QED
        BY <2>2, <3>2, <4>1
    <3>3. CASE i = 0
      <4>1. 0 \in 0 .. n /\ 0 \in 0 .. n + 1 /\ 0 # n + 1
        BY <1>0
      <4>2. h[0] = g[0] /\ r[0] = NULL /\ g[0] = NULL
        BY <2>2, <4>1
      <4> QED
        BY <3>3, <4>2
    <3> QED
      BY <3>1, <3>2, <3>3
  <2>4. h = r
    <3>1. DOMAIN h = 0 .. n + 1 /\ DOMAIN r = 0 .. n + 1
      OBVIOUS
    <3> QED
      BY <2>3
  <2>5. Solves(h, n + 1)
    BY <2>4 DEF Solves
  <2> HIDE DEF h
  <2> QED
    BY <1>0, <2>5
<1>4. DATE_ENTRIES \in S
  <2> HIDE DEF S
  <2>1. \A n \in 0 .. DATE_ENTRIES : n \in S
    BY <1>0, <1>2, <1>3, InductionTo
  <2> QED
    BY <1>0, <2>1
<1>5. Solves(Scan(c, today), DATE_ENTRIES)
  <2> HIDE DEF Solves
  <2> QED
    BY <1>1, <1>4
<1> QED
  BY <1>5 DEF Best

\* One turn of the loop of fire_get_matching_entry.
LEMMA ScanStep ==
  ASSUME NEW c, NEW today
  PROVE  /\ Scan(c, today)[0] = NULL
         /\ \A i \in 0 .. DATE_ENTRIES - 1 :
              Scan(c, today)[i + 1] =
                IF /\ c.entries[i + 1].format = "dd/mm" /\ c.entries[i + 1].day <= today
                   /\ \/ Scan(c, today)[i] = NULL
                      \/ c.entries[i + 1].day > c.entries[Scan(c, today)[i]].day
                THEN i + 1 ELSE Scan(c, today)[i]
<1> DEFINE F == Scan(c, today)
           G(j, b) == IF /\ c.entries[j].format = "dd/mm" /\ c.entries[j].day <= today
                         /\ \/ b = NULL
                            \/ c.entries[j].day > c.entries[b].day
                      THEN j ELSE b
<1>0. DATE_ENTRIES \in Nat
  BY ClockAssumption
<1>1. F = [i \in 0 .. DATE_ENTRIES |-> IF i = 0 THEN NULL ELSE G(i, F[i - 1])]
  BY ScanDef
<1> HIDE DEF F, G
<1>2. F[0] = NULL
  <2>1. 0 \in 0 .. DATE_ENTRIES
    BY <1>0
  <2> QED
    BY <1>1, <2>1
<1>3. ASSUME NEW i \in 0 .. DATE_ENTRIES - 1 PROVE F[i + 1] = G(i + 1, F[i])
  <2> DEFINE k == i + 1
  <2>1. k \in 0 .. DATE_ENTRIES /\ k # 0 /\ k - 1 = i
    BY <1>0
  <2> HIDE DEF k
  <2>2. F[k] = G(k, F[k - 1])
    BY <1>1, <2>1
  <2>3. F[k] = G(k, F[i])
    BY <2>1, <2>2
  <2> QED
    BY <2>3 DEF k
<1> QED
  BY <1>2, <1>3 DEF F, G

\* Among the first i entries, b is the latest dd/mm date not after today, the
\* first of them when two are equal, or there is none and b is NULL.
LatestOf(c, today, i, b) ==
  LET past == {e \in 1 .. i : c.entries[e].format = "dd/mm" /\ c.entries[e].day <= today}
  IN IF past = {} THEN b = NULL
     ELSE /\ b \in past
          /\ \A e \in past : \/ c.entries[e].day < c.entries[b].day
                             \/ c.entries[e].day = c.entries[b].day /\ b <= e

LEMMA ScanIsLatest ==
  ASSUME NEW c \in DeviceConfigs, NEW today
  PROVE  \A i \in 0 .. DATE_ENTRIES : LatestOf(c, today, i, Scan(c, today)[i])
<1> DEFINE F == Scan(c, today)
           S == {i \in 0 .. DATE_ENTRIES : LatestOf(c, today, i, F[i])}
<1>0. DATE_ENTRIES \in Nat
  BY ClockAssumption
<1>1. 0 \in S
  BY <1>0, ScanStep DEF LatestOf
<1>2. ASSUME NEW i \in 0 .. DATE_ENTRIES - 1, i \in S PROVE i + 1 \in S
  <2> DEFINE k == i + 1
             b == F[i]
             day(e) == c.entries[e].day
             P(e) == c.entries[e].format = "dd/mm" /\ day(e) <= today
  <2>1. k \in 1 .. DATE_ENTRIES /\ (\A e \in 1 .. k : e = k \/ e \in 1 .. i)
        /\ (\A e \in 1 .. i : e \in 1 .. k /\ e < k /\ e \in Entries) /\ k \in Entries
    BY <1>0 DEF Entries
  <2>2. \A e \in Entries : day(e) \in Int
    BY ConfigAssumption, ClockAssumption DEF DeviceConfig, EntryConfig, Days
  <2>3. F[k] = IF P(k) /\ (b = NULL \/ day(k) > day(b)) THEN k ELSE b
    BY ScanStep
  <2>4. LatestOf(c, today, i, b)
    BY <1>2
  <2> HIDE DEF k, F, b, day
  <2>5. ASSUME NEW e \in 1 .. i, P(e)
        PROVE  /\ b \in 1 .. i /\ P(b)
               /\ \/ day(e) < day(b)
                  \/ day(e) = day(b) /\ b <= e
    <3>1. e \in {x \in 1 .. i : c.entries[x].format = "dd/mm" /\ c.entries[x].day <= today}
      BY <2>5 DEF day
    <3> QED
      BY <2>4, <3>1 DEF LatestOf, day
  <2>6. (\A e \in 1 .. i : ~P(e)) => b = NULL
    BY <2>4 DEF LatestOf, day
  <2>7. b # NULL => b \in 1 .. i /\ P(b)
    BY <2>5, <2>6
  <2>8. k # NULL /\ k \in Nat /\ i \in Nat /\ (b # NULL => b \in Nat)
    BY <1>0, <2>1, <2>7 DEF NULL, k
  <2>9. ASSUME NEW e \in 1 .. k, P(e)
        PROVE  /\ F[k] \in 1 .. k /\ P(F[k])
               /\ \/ day(e) < day(F[k])
                  \/ day(e) = day(F[k]) /\ F[k] <= e
    <3>1. CASE P(k) /\ (b = NULL \/ day(k) > day(b))
      <4>1. F[k] = k /\ k \in 1 .. k
        BY <2>3, <3>1, <2>1
      <4>2. CASE e = k
        BY <3>1, <4>1, <4>2, <2>1, <2>2, <2>8
      <4>3. CASE e \in 1 .. i
        <5>1. day(e) <= day(b) /\ b \in 1 .. i /\ b # NULL
          BY <2>9, <4>3, <2>5, <2>1, <2>2 DEF NULL
        <5>2. day(e) < day(k)
          BY <5>1, <3>1, <2>1, <2>2
        <5>3. P(k)
          BY <3>1
        <5> QED
          BY <4>1, <5>2, <5>3
      <4> QED
        BY <2>1, <4>2, <4>3
    <3>2. CASE ~(P(k) /\ (b = NULL \/ day(k) > day(b)))
      <4>1. F[k] = b
        BY <2>3, <3>2
      <4>2. CASE e = k
        <5>1. b # NULL /\ day(k) <= day(b) /\ b \in 1 .. i /\ P(b) /\ b < k /\ b \in 1 .. k
          BY <2>9, <3>2, <4>2, <2>7, <2>1, <2>2
        <5>2. CASE day(k) < day(b)
          BY <4>1, <4>2, <5>1, <5>2
        <5>3. CASE day(k) = day(b)
          <6>1. b <= k
            BY <5>1, <2>8
          <6> QED
            BY <4>1, <4>2, <5>1, <5>3, <6>1
        <5>4. day(k) \in Int /\ day(b) \in Int
          BY <5>1, <2>1, <2>2
        <5> QED
          BY <5>1, <5>2, <5>3, <5>4
      <4>3. CASE e \in 1 .. i
        BY <2>9, <4>1, <4>3, <2>5, <2>1
      <4> QED
        BY <2>1, <4>2, <4>3
    <3> QED
      BY <3>1, <3>2
  <2>10. ASSUME \A e \in 1 .. k : ~P(e) PROVE F[k] = NULL
    BY <2>10, <2>1, <2>3, <2>6
  <2>11. LatestOf(c, today, k, F[k])
    BY <2>9, <2>10 DEF LatestOf, day
  <2>12. k \in 0 .. DATE_ENTRIES
    BY <2>1
  <2> QED
    BY <2>11, <2>12 DEF k, F
<1> HIDE DEF S
<1>3. \A i \in 0 .. DATE_ENTRIES : i \in S
  BY <1>0, <1>1, <1>2, InductionTo
<1> QED
  BY <1>3 DEF S, F

\* fire_get_matching_entry: for every day and every configuration the scan ends
\* with the latest dd/mm date not after the day, the first of equal ones.
THEOREM MatchLatest == Spec => []MatchIsLatest
<1>1. TypeOK => MatchIsLatest
  <2> SUFFICES ASSUME cfg \in DeviceConfigs, NEW today \in Days
               PROVE  LatestOf(cfg, today, DATE_ENTRIES, MatchingEntry(today))
    BY DEF TypeOK, MatchIsLatest, LatestOf, Past, Entries
  <2>1. DATE_ENTRIES \in 0 .. DATE_ENTRIES
    BY ClockAssumption
  <2> QED
    BY <2>1, MatchIs, ScanIsLatest
<1> QED
  BY <1>1, TypeCorrect, PTL

-----------------------------------------------------------------------------
(* The arithmetic of hours and days. *)

LEMMA DivMod ==
  ASSUME NEW x \in Int, NEW b \in Nat \ {0}
  PROVE  /\ x \div b \in Int /\ x % b \in 0 .. b - 1
         /\ x = (x \div b) * b + (x % b)
  OBVIOUS

LEMMA DivUnique ==
  ASSUME NEW b \in Nat \ {0}, NEW q \in Int, NEW r \in 0 .. b - 1
  PROVE  (q * b + r) \div b = q /\ (q * b + r) % b = r
<1> DEFINE x == q * b + r
           p == x \div b
           s == x % b
<1>1. x \in Int /\ p \in Int /\ s \in 0 .. b - 1 /\ x = p * b + s
  BY DivMod
<1> HIDE DEF p, s
<1>2. (q - p) * b = s - r
  BY <1>1
<1>3. q = p
  <2>1. CASE q - p >= 1
    <3>1. (q - p) * b >= b
      BY <1>1, <2>1
    <3> QED
      BY <1>1, <1>2, <3>1
  <2>2. CASE q - p <= -1
    <3>1. (q - p) * b <= -b
      BY <1>1, <2>2
    <3> QED
      BY <1>1, <1>2, <3>1
  <2> QED
    BY <1>1, <2>1, <2>2
<1> QED
  BY <1>1, <1>3 DEF p, s

LEMMA DayFacts ==
  /\ SecsPerHour \in Nat \ {0} /\ HoursPerDay \in Nat \ {0} /\ DaysPerYear \in Nat \ {0}
  /\ DaySecs \in Nat \ {0} /\ DaySecs = HoursPerDay * SecsPerHour
  /\ YearSecs \in Nat \ {0} /\ YearSecs = DaysPerYear * DaySecs
  BY ClockAssumption, YearPositive DEF DaySecs, YearSecs

\* Time t is, in some day, at most an hour after the start of hour s: the round
\* of an entry that starts in hour s is due, and never in the first second.
OpensAt(s, t) ==
  \E k \in Int, r \in 1 .. SecsPerHour : t = k * DaySecs + Secs(s) + r

\* Whole days more or less make no difference.
LEMMA Shift ==
  ASSUME NEW s \in Nat, NEW t \in Int, NEW m \in Int, OpensAt(s, t)
  PROVE  OpensAt(s, t + m * DaySecs)
<1>1. PICK k \in Int, r \in 1 .. SecsPerHour : t = k * DaySecs + Secs(s) + r
  BY DEF OpensAt
<1>2. Secs(s) \in Nat /\ DaySecs \in Nat
  BY SecsNat, DayFacts
<1>3. t + m * DaySecs = (k + m) * DaySecs + Secs(s) + r
  BY <1>1, <1>2, DayFacts
<1>4. k + m \in Int
  OBVIOUS
<1> QED
  BY <1>3, <1>4 DEF OpensAt

\* The next second is in the same day or is the first of a day.
LEMMA Advance ==
  ASSUME NEW c \in 0 .. YearSecs - 1
  PROVE  /\ (c + 1) % YearSecs \in 0 .. YearSecs - 1
         /\ \E m \in Int : (c + 1) % YearSecs = c + 1 + m * DaySecs
         /\ \/ DayOf((c + 1) % YearSecs) = DayOf(c)
            \/ \E m \in Int : (c + 1) % YearSecs = m * DaySecs
<1> DEFINE n == (c + 1) % YearSecs
<1>0. n \in 0 .. YearSecs - 1
  BY InYear
<1>1. CASE c + 1 = YearSecs
  <2>1. n = 0
    <3>1. (1 * YearSecs + 0) % YearSecs = 0
      BY DivUnique, DayFacts
    <3> QED
      BY <1>1, <3>1, DayFacts
  <2>2. n = 0 * DaySecs
    BY <2>1, DayFacts
  <2>3. n = c + 1 + (-DaysPerYear) * DaySecs
    <3>1. (-DaysPerYear) * DaySecs = -YearSecs
      BY DayFacts
    <3> QED
      BY <2>1, <3>1, <1>1, DayFacts
  <2>4. 0 \in Int /\ -DaysPerYear \in Int
    BY DayFacts
  <2> QED
    BY <1>0, <2>2, <2>3, <2>4
<1>2. CASE c + 1 < YearSecs
  <2>1. n = c + 1
    <3>1. (0 * YearSecs + (c + 1)) % YearSecs = c + 1
      BY <1>2, DivUnique, DayFacts
    <3> QED
      BY <3>1, DayFacts
  <2>2. n = c + 1 + 0 * DaySecs
    BY <2>1, DayFacts
  <2> DEFINE q == c \div DaySecs
             r == c % DaySecs
  <2>3. q \in Int /\ r \in 0 .. DaySecs - 1 /\ c = q * DaySecs + r
    <3>1. c \in Int /\ DaySecs \in Nat \ {0}
      BY DayFacts
    <3> QED
      BY <3>1, DivMod
  <2> HIDE DEF q, r
  <2>4. CASE r + 1 < DaySecs
    <3>1. c + 1 = q * DaySecs + (r + 1) /\ r + 1 \in 0 .. DaySecs - 1
      BY <2>3, <2>4, DayFacts
    <3>2. (c + 1) \div DaySecs = q
      BY <2>3, <3>1, DivUnique, DayFacts
    <3> QED
      BY <1>0, <2>1, <2>2, <3>2 DEF DayOf, q
  <2>5. CASE r + 1 = DaySecs
    <3>1. c + 1 = (q + 1) * DaySecs /\ q + 1 \in Int
      BY <2>3, <2>5, DayFacts
    <3> QED
      BY <1>0, <2>1, <2>2, <3>1
  <2> QED
    BY <2>3, <2>4, <2>5, DayFacts
<1> QED
  BY <1>1, <1>2, DayFacts

\* An entry started in its start hour is due from the next second on.
LEMMA StartOpens ==
  ASSUME NEW c \in 0 .. YearSecs - 1, NEW s \in Nat, s = HourOf(c)
  PROVE  OpensAt(s, c + 1)
<1> DEFINE h == c \div SecsPerHour
           q == c % SecsPerHour
           k == h \div HoursPerDay
<1>1. h \in Int /\ q \in 0 .. SecsPerHour - 1 /\ c = h * SecsPerHour + q
  BY DivMod, DayFacts
<1>2. k \in Int /\ h = k * HoursPerDay + s
  BY <1>1, DivMod, DayFacts DEF HourOf
<1> HIDE DEF h, q, k
<1>3. h * SecsPerHour = k * DaySecs + Secs(s)
  <2>1. h * SecsPerHour = (k * HoursPerDay) * SecsPerHour + s * SecsPerHour
    BY <1>1, <1>2, DayFacts
  <2>2. (k * HoursPerDay) * SecsPerHour = k * DaySecs
    BY <1>2, DayFacts
  <2> QED
    BY <2>1, <2>2 DEF Secs
<1>4. q + 1 \in 1 .. SecsPerHour /\ c + 1 = k * DaySecs + Secs(s) + (q + 1)
  <2>1. Secs(s) \in Int /\ k * DaySecs \in Int
    BY <1>2, SecsNat, DayFacts
  <2> QED
    BY <1>1, <1>3, <2>1, DayFacts
<1> QED
  BY <1>2, <1>4 DEF OpensAt

\* The round of an entry that is due begins in the start hour or the next.
LEMMA OpensInHour ==
  ASSUME NEW c \in Nat, NEW s \in Nat, OpensAt(s, c)
  PROVE  (HourOf(c) - s) % HoursPerDay \in {0, 1}
<1>1. PICK k \in Int, r \in 1 .. SecsPerHour : c = k * DaySecs + Secs(s) + r
  BY DEF OpensAt
<1>2. PICK u \in {0, 1}, v \in 0 .. SecsPerHour - 1 : r = u * SecsPerHour + v
  <2>1. CASE r = SecsPerHour
    <3>1. r = 1 * SecsPerHour + 0 /\ 0 \in 0 .. SecsPerHour - 1
      BY <2>1, DayFacts
    <3> QED
      BY <3>1
  <2>2. CASE r < SecsPerHour
    <3>1. r = 0 * SecsPerHour + r /\ r \in 0 .. SecsPerHour - 1
      BY <2>2, DayFacts
    <3> QED
      BY <3>1
  <2> QED
    BY <2>1, <2>2, DayFacts
<1> DEFINE h == k * HoursPerDay + s + u
<1>3. h \in Int
  BY <1>1, <1>2, DayFacts
<1>4. c = h * SecsPerHour + v
  <2>1. k * DaySecs = (k * HoursPerDay) * SecsPerHour
    BY <1>1, DayFacts
  <2>2. h * SecsPerHour = (k * HoursPerDay) * SecsPerHour + s * SecsPerHour + u * SecsPerHour
    BY <1>1, <1>2, DayFacts
  <2> QED
    BY <1>1, <1>2, <2>1, <2>2, DayFacts DEF Secs
<1>5. c \div SecsPerHour = h
  BY <1>2, <1>3, <1>4, DivUnique, DayFacts
<1> DEFINE g == h \div HoursPerDay
<1>6. g \in Int /\ HourOf(c) \in 0 .. HoursPerDay - 1 /\ h = g * HoursPerDay + HourOf(c)
  BY <1>3, <1>5, DivMod, DayFacts DEF HourOf
<1> HIDE DEF g
<1>7. HourOf(c) - s = (k - g) * HoursPerDay + u /\ k - g \in Int
  BY <1>1, <1>2, <1>6, DayFacts
<1> HIDE DEF h
<1>8. CASE u < HoursPerDay
  <2>1. u \in 0 .. HoursPerDay - 1
    BY <1>2, <1>8, DayFacts
  <2> QED
    BY <1>2, <1>7, <2>1, DivUnique, DayFacts
<1>9. CASE u = HoursPerDay
  <2>1. HourOf(c) - s = (k - g + 1) * HoursPerDay + 0 /\ k - g + 1 \in Int
        /\ 0 \in 0 .. HoursPerDay - 1
    BY <1>7, <1>9, DayFacts
  <2> QED
    BY <2>1, DivUnique, DayFacts
<1> QED
  BY <1>2, <1>8, <1>9, DayFacts

-----------------------------------------------------------------------------
(* When the rounds of a daily entry begin. *)

Match(c, today) == Scan(c, today)[DATE_ENTRIES]

\* When the iteration after the last finished one runs, if none is late.
NextIteration == IF lag = 1 THEN clock ELSE (clock + 1) % YearSecs

\* With p ticks of its round left, entry e of configuration c is due at its
\* start hour: p ticks from time n if it is the entry of n's day, or, while it is
\* suspended, p ticks from the start of any later day.
Anchored(c, e, n, p) ==
  OpensAt(c.entries[e].start, IF Match(c, DayOf(n)) = e THEN n + p ELSE p)

IdleInv == \A t \in Timers : idle[t] <= Cap(t)

ByDate == cfg.active /\ cfg.period = 0

DailyInv ==
  steady /\ up =>
    /\ lag <= 1
    /\ entry # NULL => ByDate /\ entry = Match(cfg, DayOf(clock))
    /\ \A e \in Entries : running[e] =>
         /\ ByDate
         /\ cfg.entries[e].period = HoursPerDay =>
              Anchored(cfg, e, NextIteration, period_countdown[e])

\* An entry served, or just started, in the iteration at time t.
LEMMA AnchoredServed ==
  ASSUME NEW c, NEW e, NEW t \in 0 .. YearSecs - 1, NEW p \in Int,
         c.entries[e].start \in Nat, Match(c, DayOf(t)) = e,
         OpensAt(c.entries[e].start, t + 1 + p)
  PROVE  Anchored(c, e, (t + 1) % YearSecs, p)
<1> DEFINE s == c.entries[e].start
           n == (t + 1) % YearSecs
<1>1. PICK m \in Int : n = t + 1 + m * DaySecs
  BY Advance
<1>2. n \in Int /\ t \in Int /\ \A k \in Int : k * DaySecs \in Int
  BY Advance, DayFacts
<1>3. \/ DayOf(n) = DayOf(t)
      \/ \E k \in Int : n = k * DaySecs
  BY Advance
<1> HIDE DEF n, s
<1>4. OpensAt(s, n + p)
  <2>1. OpensAt(s, (t + 1 + p) + m * DaySecs)
    BY <1>2, Shift DEF s
  <2>2. (t + 1 + p) + m * DaySecs = n + p
    BY <1>1, <1>2
  <2> QED
    BY <2>1, <2>2
<1>5. Match(c, DayOf(n)) # e => OpensAt(s, p)
  <2> SUFFICES ASSUME Match(c, DayOf(n)) # e PROVE OpensAt(s, p)
    OBVIOUS
  <2>1. PICK k \in Int : n = k * DaySecs
    BY <1>3
  <2>2. OpensAt(s, (n + p) + (-k) * DaySecs)
    BY <1>2, <1>4, Shift DEF s
  <2>3. (-k) * DaySecs = -(k * DaySecs)
    BY DayFacts
  <2>4. (n + p) + (-k) * DaySecs = p
    BY <1>2, <2>1, <2>3
  <2> QED
    BY <2>2, <2>4
<1> QED
  BY <1>4, <1>5 DEF Anchored, n, s

\* An entry suspended by another entry's date, or by none, at time t.
LEMMA AnchoredSuspended ==
  ASSUME NEW c, NEW e, NEW t \in 0 .. YearSecs - 1, NEW p \in Int,
         c.entries[e].start \in Nat, Match(c, DayOf(t)) # e, Anchored(c, e, t, p)
  PROVE  Anchored(c, e, (t + 1) % YearSecs, p)
<1> DEFINE s == c.entries[e].start
           n == (t + 1) % YearSecs
<1>1. n \in Int /\ \A k \in Int : k * DaySecs \in Int
  BY Advance, DayFacts
<1>2. \/ DayOf(n) = DayOf(t)
      \/ \E k \in Int : n = k * DaySecs
  BY Advance
<1> HIDE DEF n, s
<1>3. OpensAt(s, p)
  BY DEF Anchored, s
<1>4. Match(c, DayOf(n)) = e => OpensAt(s, n + p)
  <2> SUFFICES ASSUME Match(c, DayOf(n)) = e PROVE OpensAt(s, n + p)
    OBVIOUS
  <2>1. PICK k \in Int : n = k * DaySecs
    BY <1>2
  <2>2. OpensAt(s, p + k * DaySecs)
    BY <1>3, Shift DEF s
  <2>3. p + k * DaySecs = n + p
    BY <1>1, <2>1
  <2> QED
    BY <2>2, <2>3
<1> QED
  BY <1>3, <1>4 DEF Anchored, n, s

-----------------------------------------------------------------------------
LEMMA StartNat ==
  ASSUME cfg \in DeviceConfigs PROVE \A e \in Entries : cfg.entries[e].start \in Nat
  BY ConfigAssumption DEF DeviceConfig, EntryConfig

LEMMA InitDaily == Init => IdleInv /\ DailyInv
<1> SUFFICES ASSUME Init PROVE IdleInv /\ DailyInv
  OBVIOUS
<1>1. IdleInv
  BY ConfigFacts DEF Init, IdleInv
<1>2. DailyInv
  BY DEF Init, DailyInv, Stopped
<1> QED
  BY <1>1, <1>2

LEMMA StepIdle == IInv /\ IdleInv /\ [Next]_vars => IdleInv'
<1> SUFFICES ASSUME IInv, IdleInv, [Next]_vars, NEW t \in Timers
             PROVE  idle'[t] <= Cap(t)'
  BY DEF IdleInv
<1> USE DEF IInv
<1>1. Cap(t) \in Nat /\ idle[t] \in Nat /\ idle[t] <= Cap(t)
  BY ConfigFacts DEF TypeOK, IdleInv
<1>2. Cap(t)' = Cap(t)
  <2>1. cfg' = cfg
    BY DEF Next, CoreStep, vars, envVars, Second, ChangeClock, FireNothing, FireCountdown,
           FirePeriod, SelectEntry, StartEntry, ServeEntry, DriveNullRelay, Crash, Die, Boot,
           SwitchRelay
  <2> QED
    BY <2>1 DEF Cap, Secs
<1>3. ASSUME NEW ok \in BOOLEAN, FirePeriod(ok) PROVE idle'[t] <= Cap(t)
  BY <1>1, <1>3 DEF FirePeriod, TypeOK
<1>4. ASSUME NEW ok \in BOOLEAN, ServeEntry(ok) PROVE idle'[t] <= Cap(t)
  BY <1>1, <1>4 DEF ServeEntry, TypeOK
<1>5. CASE Second
  BY <1>1, <1>2, <1>5 DEF Second
<1>6. CASE Boot
  BY <1>1, <1>2, <1>6 DEF Boot
<1>7. CASE UNCHANGED idle
  BY <1>1, <1>2, <1>7
<1> QED
  BY <1>2, <1>3, <1>4, <1>5, <1>6, <1>7
     DEF Next, CoreStep, vars, ChangeClock, FireNothing, FireCountdown,
         SelectEntry, StartEntry, DriveNullRelay, Crash, Die, SwitchRelay

\* The iteration at the time `clock' ends: entries that are not its match keep
\* their countdowns.
LEMMA SuspendedKept ==
  ASSUME IInv, DailyInv, steady, up, lag = 1, lag' = 0, UNCHANGED <<cfg, clock>>,
         NEW e \in Entries, running[e], e # Match(cfg, DayOf(clock)),
         period_countdown'[e] = period_countdown[e],
         cfg.entries[e].period = HoursPerDay
  PROVE  Anchored(cfg', e, NextIteration', period_countdown'[e])
<1> USE DEF IInv
<1>1. /\ clock \in 0 .. YearSecs - 1 /\ period_countdown[e] \in Int
      /\ cfg.entries[e].start \in Nat
  BY StartNat DEF TypeOK
<1>2. Anchored(cfg, e, clock, period_countdown[e])
  BY DEF DailyInv, NextIteration
<1>3. NextIteration' = (clock + 1) % YearSecs
  BY DEF NextIteration
<1> QED
  BY <1>1, <1>2, <1>3, AnchoredSuspended

LEMMA FireNothingDaily ==
  ASSUME IInv, DailyInv, FireNothing
  PROVE  DailyInv'
<1> SUFFICES ASSUME steady, up PROVE DailyInv'
  BY DEF FireNothing, DailyInv, envVars
<1>1. /\ lag = 1 /\ lag' = 0 /\ entry' = NULL
      /\ UNCHANGED <<cfg, clock, running, period_countdown>>
  BY BoundAssumption
     DEF IInv, DailyInv, FireNothing, Due, EndIteration, TypeOK, envVars, entryVars
<1>2. ASSUME NEW e \in Entries, running[e]
      PROVE  /\ ByDate'
             /\ cfg'.entries[e].period = HoursPerDay =>
                  Anchored(cfg', e, NextIteration', period_countdown'[e])
  <2>1. ByDate /\ e # NULL
    BY <1>2, ClockAssumption DEF DailyInv, Entries, NULL
  <2>2. Match(cfg, DayOf(clock)) = NULL
    BY <2>1, MatchIs DEF FireNothing, ByDate, Match
  <2> QED
    BY <1>1, <1>2, <2>1, <2>2, SuspendedKept DEF ByDate
<1> QED
  BY <1>1, <1>2 DEF DailyInv

LEMMA StartEntryDaily ==
  ASSUME IInv, DailyInv, StartEntry PROVE DailyInv'
<1> SUFFICES ASSUME steady, up PROVE DailyInv'
  BY DEF StartEntry, DailyInv, envVars
<1>1. /\ lag = 1 /\ lag' = 0 /\ entry' = NULL /\ entry \in Entries /\ ~running[entry]
      /\ UNCHANGED <<cfg, clock>> /\ entry = Match(cfg, DayOf(clock)) /\ ByDate
  BY BoundAssumption
     DEF IInv, HeldInv, DailyInv, StartEntry, EndIteration, TypeOK, envVars
<1>2. ASSUME NEW e \in Entries, running'[e]
      PROVE  cfg'.entries[e].period = HoursPerDay =>
                  Anchored(cfg', e, NextIteration', period_countdown'[e])
  <2>1. CASE e = entry
    <3>1. StartHour(e) /\ period_countdown'[e] = 0
      BY <1>1, <1>2, <2>1 DEF StartEntry, IInv, TypeOK
    <3>2. OpensAt(cfg.entries[e].start, clock + 1)
      BY <3>1, StartOpens, StartNat DEF StartHour, IInv, TypeOK
    <3>3. Anchored(cfg, e, (clock + 1) % YearSecs, 0)
      <4>1. clock + 1 = clock + 1 + 0 /\ clock \in 0 .. YearSecs - 1
        BY YearPositive DEF IInv, TypeOK
      <4>2. cfg.entries[e].start \in Nat /\ 0 \in Int
        BY StartNat DEF IInv, TypeOK
      <4> QED
        BY <1>1, <2>1, <3>2, <4>1, <4>2, AnchoredServed
    <3> QED
      BY <1>1, <3>1, <3>3 DEF NextIteration
  <2>2. CASE e # entry
    <3>1. running[e] /\ period_countdown'[e] = period_countdown[e]
      BY <1>1, <1>2, <2>2 DEF StartEntry, IInv, TypeOK
    <3> QED
      BY <1>1, <2>2, <3>1, SuspendedKept
  <2> QED
    BY <2>1, <2>2
<1>3. ByDate'
  BY <1>1 DEF ByDate
<1> QED
  BY <1>1, <1>2, <1>3 DEF DailyInv

LEMMA ServeEntryDaily ==
  ASSUME IInv, DailyInv, NEW ok \in BOOLEAN, ServeEntry(ok) PROVE DailyInv'
<1> SUFFICES ASSUME steady, up PROVE DailyInv'
  BY DEF ServeEntry, DailyInv, envVars
<1>1. /\ lag = 1 /\ lag' = 0 /\ entry' = NULL /\ entry \in Entries /\ running[entry]
      /\ UNCHANGED <<cfg, clock, running>> /\ entry = Match(cfg, DayOf(clock)) /\ ByDate
      /\ period_countdown' = [period_countdown EXCEPT ![entry] = PeriodLeft(entry) - 1]
  BY BoundAssumption
     DEF IInv, HeldInv, DailyInv, ServeEntry, EndIteration, TypeOK, envVars
<1>2. ASSUME NEW e \in Entries, running[e], cfg.entries[e].period = HoursPerDay
      PROVE  Anchored(cfg', e, NextIteration', period_countdown'[e])
  <2>1. CASE e = entry
    <3> DEFINE p == period_countdown[e]
               q == period_countdown'[e]
               s == cfg.entries[e].start
    <3>1. /\ p \in Int /\ s \in Nat /\ clock \in 0 .. YearSecs - 1 /\ clock \in Int
          /\ DaySecs \in Nat
      BY StartNat, DayFacts DEF IInv, TypeOK
    <3>2. q = PeriodLeft(e) - 1 /\ PeriodLeft(e) = IF p = 0 THEN DaySecs ELSE p
      BY <1>1, <1>2, <2>1 DEF PeriodLeft, Renews, Secs, DaySecs, IInv, TypeOK
    <3>3. OpensAt(s, clock + p)
      BY <1>1, <1>2, <2>1 DEF DailyInv, NextIteration, Anchored
    <3> HIDE DEF p, q, s
    <3>4. q \in Int /\ OpensAt(s, clock + 1 + q)
      <4>1. CASE p # 0
        <5>1. q \in Int /\ clock + 1 + q = clock + p
          BY <3>1, <3>2, <4>1
        <5> QED
          BY <3>3, <5>1
      <4>2. CASE p = 0
        <5> DEFINE day == 1
        <5>1. /\ q \in Int /\ clock + 1 + q = (clock + p) + day * DaySecs
              /\ clock + p \in Int /\ day \in Int
          BY <3>1, <3>2, <4>2
        <5> HIDE DEF day
        <5>2. OpensAt(s, (clock + p) + day * DaySecs)
          BY <3>1, <3>3, <5>1, Shift
        <5> QED
          BY <5>1, <5>2
      <4> QED
        BY <4>1, <4>2
    <3>5. Anchored(cfg, e, (clock + 1) % YearSecs, q)
      BY <1>1, <2>1, <3>1, <3>4, AnchoredServed DEF s
    <3> QED
      BY <1>1, <3>5 DEF NextIteration, q
  <2>2. CASE e # entry
    <3>1. period_countdown'[e] = period_countdown[e]
      BY <1>1, <2>2 DEF IInv, TypeOK
    <3> QED
      BY <1>1, <1>2, <2>2, <3>1, SuspendedKept
  <2> QED
    BY <2>1, <2>2
<1>3. ByDate'
  BY <1>1 DEF ByDate
<1> QED
  BY <1>1, <1>2, <1>3 DEF DailyInv

LEMMA StepDaily == IInv /\ DailyInv /\ [Next]_vars => DailyInv'
<1> SUFFICES ASSUME IInv, DailyInv, [Next]_vars PROVE DailyInv'
  OBVIOUS
<1>1. CASE Second
  <2> SUFFICES ASSUME steady', up' PROVE DailyInv'
    BY DEF DailyInv
  <2>1. steady /\ lag = 0 /\ up
    BY <1>1 DEF Second, envVars
  <2>2. /\ lag = 0 /\ lag' = 1 /\ entry' = NULL /\ steady /\ up
        /\ UNCHANGED <<cfg, running, period_countdown>> /\ clock' = (clock + 1) % YearSecs
    BY <1>1, <2>1 DEF Second, IInv, HeldInv, envVars, entryVars
  <2>3. NextIteration' = NextIteration
    BY <2>2 DEF NextIteration
  <2> QED
    BY <2>2, <2>3 DEF DailyInv, ByDate
<1>2. ASSUME NEW hours \in ClockChanges, ChangeClock(hours) PROVE DailyInv'
  BY <1>2 DEF ChangeClock, DailyInv
<1>3. CASE FireNothing
  BY <1>3, FireNothingDaily
<1>4. CASE FireCountdown
  BY <1>4, BoundAssumption
     DEF FireCountdown, Due, EndIteration, DailyInv, ByDate, IInv, TypeOK, envVars, entryVars
<1>5. ASSUME NEW ok \in BOOLEAN, FirePeriod(ok) PROVE DailyInv'
  BY <1>5, BoundAssumption
     DEF FirePeriod, Due, EndIteration, DailyInv, ByDate, IInv, TypeOK, envVars, entryVars
<1>6. ASSUME NEW e \in Entries, SelectEntry(e) PROVE DailyInv'
  <2>1. /\ UNCHANGED <<cfg, clock, steady, up, lag, running, period_countdown>>
        /\ entry' = Match(cfg, DayOf(clock)) /\ ByDate
    BY <1>6, MatchIs DEF SelectEntry, ByDate, Match, envVars, entryVars
  <2>2. NextIteration' = NextIteration /\ ByDate' = ByDate
    BY <2>1 DEF NextIteration, ByDate
  <2> QED
    BY <2>1, <2>2 DEF DailyInv
<1>7. CASE StartEntry
  BY <1>7, StartEntryDaily
<1>8. ASSUME NEW ok \in BOOLEAN, ServeEntry(ok) PROVE DailyInv'
  BY <1>8, ServeEntryDaily
<1>9. CASE DriveNullRelay \/ Crash
  BY <1>9 DEF DriveNullRelay, Crash, Die, DailyInv
<1>10. CASE Boot
  BY <1>10 DEF Boot, DailyInv, Stopped, IInv, HeldInv
<1>11. ASSUME UNCHANGED <<cfg, clock, steady, up, lag, entry, running, period_countdown>>
       PROVE  DailyInv'
  <2>1. NextIteration' = NextIteration /\ ByDate' = ByDate
    BY <1>11 DEF NextIteration, ByDate
  <2> QED
    BY <1>11, <2>1 DEF DailyInv
<1>12. ASSUME NEW value \in {0, 1}, SwitchRelay(value) PROVE DailyInv'
  BY <1>11, <1>12 DEF SwitchRelay, envVars, entryVars
<1>13. CASE UNCHANGED vars
  BY <1>11, <1>13 DEF vars, envVars, entryVars
<1> QED
  BY <1>1, <1>2, <1>3, <1>4, <1>5, <1>6, <1>7, <1>8, <1>9, <1>10, <1>12, <1>13
     DEF Next, CoreStep

LEMMA DailyInvariance == Spec => [](IInv /\ IdleInv /\ DailyInv)
<1>1. Init => IInv /\ IdleInv /\ DailyInv
  BY InitIInv, InitDaily
<1>2. IInv /\ IdleInv /\ DailyInv /\ [Next]_vars => (IInv /\ IdleInv /\ DailyInv)'
  BY StepIInv, StepIdle, StepDaily
<1> QED
  BY <1>1, <1>2, PTL DEF Spec

\* The same as OpensAtStart says, of one step.
OpensInTime ==
  \A e \in Entries :
    (steady /\ idle'[e] < idle[e] /\ cfg.entries[e].period = HoursPerDay) =>
      (HourOf(clock) - cfg.entries[e].start) % HoursPerDay \in {0, 1}

LEMMA StepOpensInTime == IInv /\ IdleInv /\ DailyInv /\ [Next]_vars => OpensInTime
<1> SUFFICES ASSUME IInv, IdleInv, DailyInv, [Next]_vars, NEW e \in Entries,
                    steady, idle'[e] < idle[e], cfg.entries[e].period = HoursPerDay
             PROVE  (HourOf(clock) - cfg.entries[e].start) % HoursPerDay \in {0, 1}
  BY DEF OpensInTime
<1> USE DEF IInv
<1>1. /\ Cap(e) \in Nat /\ idle[e] \in Nat /\ idle[e] <= Cap(e) /\ e \in Timers /\ e # NULL
      /\ cfg.entries[e].start \in Nat /\ clock \in Nat
  BY ConfigFacts, StartNat DEF TypeOK, IdleInv
<1>2. idle' # idle
  BY <1>1
<1>3. ASSUME NEW ok \in BOOLEAN, FirePeriod(ok) PROVE FALSE
  BY <1>1, <1>3 DEF FirePeriod, TypeOK
<1>4. ASSUME NEW ok \in BOOLEAN, ServeEntry(ok)
      PROVE  (HourOf(clock) - cfg.entries[e].start) % HoursPerDay \in {0, 1}
  <2>1. e = entry /\ Renews(e) /\ running[e] /\ lag >= 1 /\ up
    BY <1>1, <1>4 DEF ServeEntry, HeldInv, TypeOK
  <2>2. Anchored(cfg, e, clock, 0) /\ e = Match(cfg, DayOf(clock))
    BY <1>1, <2>1 DEF DailyInv, NextIteration, Renews, TypeOK
  <2>3. OpensAt(cfg.entries[e].start, clock)
    BY <1>1, <2>2 DEF Anchored
  <2> QED
    BY <1>1, <2>3, OpensInHour
<1>5. CASE Second
  BY <1>1, <1>5 DEF Second
<1>6. CASE Boot
  BY <1>1, <1>6 DEF Boot
<1> QED
  BY <1>2, <1>3, <1>4, <1>5, <1>6
     DEF Next, CoreStep, vars, ChangeClock, FireNothing, FireCountdown,
         SelectEntry, StartEntry, DriveNullRelay, Crash, Die, SwitchRelay

\* fire_device_date, for every calendar: while no iteration is late and the local
\* time does not jump, every round of a daily entry begins in its start hour or,
\* when it was started in the hour's last second, in the next; the days on which
\* another entry suspends it do not move it.
THEOREM RoundsOpenAtStart == Spec => OpensAtStart
<1>1. IInv /\ IdleInv /\ DailyInv /\ [Next]_vars => [OpensInTime]_vars
  BY StepOpensInTime
<1> QED
  BY <1>1, DailyInvariance, PTL DEF Spec, OpensAtStart, OpensInTime
=============================================================================
