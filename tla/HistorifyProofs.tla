-------------------------- MODULE HistorifyProofs ---------------------------
(***************************************************************************)
(* Theorems about Historify, for any number of registers, any period, any  *)
(* levels and any number of faults and restarts.                           *)
(***************************************************************************)
EXTENDS Historify, TLAPS

\* Between samples the counter has what the samples taken leave of the period.
CounterInv ==
  Periodic /\ up =>
    /\ remaining_ticks >= 1
    /\ pc = "sleep" => since + remaining_ticks = cfg.period
    /\ pc = "read" => since + remaining_ticks = cfg.period + 1
    /\ pc = "log" => since = cfg.period

\* Only an active device of a running process is sampled.
AwakeInv == pc # "sleep" => cfg.active /\ up

IInv == TypeOK /\ RowsFollowSamples /\ CounterInv /\ AwakeInv

-----------------------------------------------------------------------------
LEMMA PointFacts ==
  /\ LAST \in Nat /\ LAST >= 2
  /\ Points = 1 .. LAST
  /\ RELAY \in Points /\ INPUT \in Points
  /\ Levels \subseteq Readings /\ 0 \in Readings /\ FAILED \in Readings
  /\ \A p \in Points : FaultyReadings(p) \subseteq Readings
  BY PointAssumption DEF LAST, Points, RELAY, INPUT, Readings, FAILED, FaultyReadings

LEMMA ConfigFacts ==
  ASSUME cfg \in DeviceConfigs
  PROVE  /\ cfg.period \in Nat
         /\ cfg.active \in BOOLEAN
         /\ OnChange => ~Periodic
  BY PointAssumption DEF DeviceConfig, OnChange, Periodic

LEMMA SampledType ==
  ASSUME level \in [Points -> Levels], NEW failing, NEW v,
         \A p \in Points \cap failing : v[p] \in Readings
  PROVE  Sampled(failing, v) \in [Points -> Readings]
  BY PointFacts DEF Sampled

LEMMA InitIInv == Init => IInv
<1> SUFFICES ASSUME Init PROVE IInv
  OBVIOUS
<1>1. value \in [Points -> Readings]
  BY SampledType DEF Init
<1>2. TypeOK
  BY <1>1, PointFacts, ConfigFacts, BoundAssumption DEF Init, TypeOK
<1>3. RowsFollowSamples
  BY DEF Init, RowsFollowSamples, Reported, Known
<1>4. CounterInv
  BY ConfigFacts DEF Init, CounterInv, Periodic
<1> QED
  BY <1>2, <1>3, <1>4 DEF IInv, AwakeInv, Init

\* Steps that leave the device, its samples and its rows alone.
LEMMA ChangeIInv ==
  ASSUME IInv, NEW p \in Points, NEW v \in Levels, Change(p, v) PROVE IInv'
<1>1. level' \in [Points -> Levels]
  BY DEF IInv, Change, TypeOK
<1> QED
  BY <1>1
     DEF IInv, Change, TypeOK, RowsFollowSamples, CounterInv, AwakeInv, deviceVars,
         sampleVars, newsVars, Reported, Known, Has, OnChange, Periodic

LEMMA StartIterationIInv == IInv /\ StartIteration => IInv'
<1> SUFFICES ASSUME IInv, StartIteration PROVE IInv'
  OBVIOUS
<1> USE DEF IInv
<1>1. TypeOK'
  <2>1. since' \in Nat /\ at' \in 1 .. LAST + 1
    BY PointFacts DEF StartIteration, TypeOK
  <2> QED
    BY <2>1 DEF StartIteration, TypeOK, deviceVars, sampleVars, newsVars
<1>2. RowsFollowSamples'
  BY PointFacts
     DEF StartIteration, RowsFollowSamples, Reported, Known, Has, OnChange, deviceVars,
         sampleVars, newsVars
<1>3. CounterInv' /\ AwakeInv'
  BY ConfigFacts DEF StartIteration, CounterInv, AwakeInv, Periodic, TypeOK, deviceVars
<1> QED
  BY <1>1, <1>2, <1>3

LEMMA ReadPointIInv ==
  ASSUME IInv, NEW v \in Readings, ReadPoint(v) PROVE IInv'
<1> USE DEF IInv
<1>1. at \in Points /\ at' = at + 1 /\ at' \in 1 .. LAST + 1
  BY PointFacts DEF ReadPoint, TypeOK
<1>2. TypeOK'
  <2>1. value' \in [Points -> Readings] /\ last_value' \in [Points -> Readings]
    BY DEF ReadPoint, TypeOK
  <2>2. faults' \in 0 .. MaxFaults
    BY BoundAssumption DEF ReadPoint, Reading, TypeOK
  <2> QED
    BY <1>1, <2>1, <2>2 DEF ReadPoint, TypeOK, deviceVars, newsVars
<1>3. RowsFollowSamples'
  <2>1. ASSUME OnChange, up, NEW p \in Points, Has(p), news[p] # "lost"
        PROVE  Known(p)' = Reported(p)'
    <3>1. Known(p) = Reported(p)
      BY <2>1 DEF RowsFollowSamples
    <3>2. CASE p = at
      BY <1>1, <3>1, <3>2, PointFacts DEF ReadPoint, Reported, Known, TypeOK, newsVars
    <3>3. CASE p # at
      BY <1>1, <3>1, <3>3, PointFacts DEF ReadPoint, Reported, Known, TypeOK, newsVars
    <3> QED
      BY <3>2, <3>3
  <2> QED
    BY <2>1 DEF ReadPoint, RowsFollowSamples, Has, OnChange, deviceVars, newsVars
<1>4. CounterInv' /\ AwakeInv'
  BY DEF ReadPoint, CounterInv, AwakeInv, Periodic, deviceVars
<1> QED
  BY <1>2, <1>3, <1>4

LEMMA DecideIInv == IInv /\ Decide => IInv'
<1> SUFFICES ASSUME IInv, Decide PROVE IInv'
  OBVIOUS
<1> USE DEF IInv
<1>1. Periodic \/ OnChange
  BY DEF Decide, AwakeInv, Periodic, OnChange
<1>2. TypeOK'
  <2>1. remaining_ticks' \in 0 .. cfg.period /\ at' \in 1 .. LAST + 1
    BY <1>1, PointFacts, ConfigFacts DEF Decide, TypeOK, CounterInv
  <2> QED
    BY <2>1 DEF Decide, TypeOK, deviceVars, sampleVars, newsVars
<1>3. RowsFollowSamples'
  BY PointFacts
     DEF Decide, RowsFollowSamples, Reported, Known, Has, OnChange, deviceVars,
         sampleVars, newsVars, TypeOK
<1>4. CounterInv' /\ AwakeInv'
  <2>1. ASSUME Periodic PROVE CounterInv'
    BY <2>1, ConfigFacts DEF Decide, LastTick, CounterInv, Periodic, TypeOK, deviceVars
  <2>2. Periodic' = Periodic
    BY DEF Decide, Periodic, deviceVars
  <2> QED
    BY <2>1, <2>2 DEF Decide, CounterInv, AwakeInv, deviceVars
<1> QED
  BY <1>2, <1>3, <1>4

LEMMA LogPointIInv ==
  ASSUME IInv, NEW ok \in BOOLEAN, LogPoint(ok) PROVE IInv'
<1> USE DEF IInv
<1>1. at \in Points /\ at' = at + 1 /\ at' \in 1 .. LAST + 1
  BY PointFacts DEF LogPoint, TypeOK
<1>2. TypeOK'
  <2>1. db' \in [Points -> Readings \cup {NO_ROW}]
    BY <1>1 DEF LogPoint, InsertRow, TypeOK
  <2>2. news' \in [Points -> {"none", "row", "lost"}]
    BY <1>1 DEF LogPoint, InsertRow, TypeOK
  <2>3. faults' \in 0 .. MaxFaults
    BY BoundAssumption DEF LogPoint, InsertRow, TypeOK
  <2> QED
    BY <1>1, <2>1, <2>2, <2>3 DEF LogPoint, TypeOK, deviceVars, sampleVars, newsVars
<1>3. RowsFollowSamples'
  <2>1. ASSUME OnChange, up, NEW p \in Points, Has(p), news'[p] # "lost"
        PROVE  Known(p)' = Reported(p)'
    <3>1. CASE p = at
      BY <1>1, <2>1, <3>1, PointFacts
         DEF LogPoint, InsertRow, Reported, Known, TypeOK, sampleVars, newsVars
    <3>2. CASE p # at
      <4>1. Known(p) = Reported(p) /\ Known(p)' = Known(p)
        BY <1>1, <2>1, <3>2 DEF LogPoint, InsertRow, RowsFollowSamples, Known, TypeOK
      <4> QED
        BY <1>1, <3>2, <4>1, PointFacts DEF LogPoint, Reported, Known, TypeOK, sampleVars, newsVars
    <3> QED
      BY <3>1, <3>2
  <2> QED
    BY <2>1 DEF LogPoint, RowsFollowSamples, Has, OnChange, deviceVars
<1>4. CounterInv' /\ AwakeInv'
  BY DEF LogPoint, CounterInv, AwakeInv, Periodic, deviceVars
<1> QED
  BY <1>2, <1>3, <1>4

LEMMA PassPointIInv == IInv /\ PassPoint => IInv'
<1> SUFFICES ASSUME IInv, PassPoint PROVE IInv'
  OBVIOUS
<1> USE DEF IInv
<1>1. at \in Points /\ at' = at + 1 /\ at' \in 1 .. LAST + 1
  BY PointFacts DEF PassPoint, TypeOK
<1>2. TypeOK'
  BY <1>1 DEF PassPoint, TypeOK, deviceVars, sampleVars, newsVars
<1>3. RowsFollowSamples'
  <2>1. ASSUME OnChange, up, NEW p \in Points, Has(p), news[p] # "lost"
        PROVE  Known(p)' = Reported(p)'
    <3>1. Known(p) = Reported(p)
      BY <2>1 DEF RowsFollowSamples
    <3>2. CASE p = at
      BY <1>1, <2>1, <3>1, <3>2, PointFacts
         DEF PassPoint, Wanted, Reported, Known, TypeOK, sampleVars, newsVars
    <3>3. CASE p # at
      BY <1>1, <3>1, <3>3, PointFacts DEF PassPoint, Reported, Known, TypeOK, sampleVars, newsVars
    <3> QED
      BY <3>2, <3>3
  <2> QED
    BY <2>1 DEF PassPoint, RowsFollowSamples, Has, OnChange, deviceVars, newsVars
<1>4. CounterInv' /\ AwakeInv'
  BY DEF PassPoint, CounterInv, AwakeInv, Periodic, deviceVars
<1> QED
  BY <1>2, <1>3, <1>4

LEMMA FinishLogIInv == IInv /\ FinishLog => IInv'
<1> SUFFICES ASSUME IInv, FinishLog PROVE IInv'
  OBVIOUS
<1> USE DEF IInv
<1>1. TypeOK'
  BY PointFacts, ConfigFacts DEF FinishLog, FullPeriod, TypeOK, deviceVars, sampleVars, newsVars
<1>2. RowsFollowSamples'
  BY PointFacts
     DEF FinishLog, RowsFollowSamples, Reported, Known, Has, OnChange, TypeOK,
         deviceVars, sampleVars, newsVars
<1>3. CounterInv' /\ AwakeInv'
  BY ConfigFacts DEF FinishLog, FullPeriod, CounterInv, AwakeInv, Periodic, TypeOK, deviceVars
<1> QED
  BY <1>1, <1>2, <1>3

LEMMA CrashIInv == IInv /\ Crash => IInv'
<1> SUFFICES ASSUME IInv, Crash PROVE IInv'
  OBVIOUS
<1> USE DEF IInv
<1>1. crashes' \in 0 .. MaxCrashes /\ at' \in 1 .. LAST + 1
  BY PointFacts, BoundAssumption DEF Crash, TypeOK
<1>2. up' = FALSE /\ pc' = "sleep"
  BY DEF Crash
<1>3. up' \in BOOLEAN
  BY <1>2
<1>4. TypeOK'
  BY <1>1, <1>2, <1>3 DEF Crash, TypeOK, sampleVars, newsVars
<1> QED
  BY <1>2, <1>4 DEF RowsFollowSamples, CounterInv, AwakeInv

LEMMA RestartIInv == IInv /\ Restart => IInv'
<1> SUFFICES ASSUME IInv, NEW failing \in SUBSET Points,
                    NEW v \in [failing -> {0, FAILED} \cup Junk], Boot(failing, v),
                    \A p \in failing : v[p] \in FaultyReadings(p)
             PROVE  IInv'
  BY DEF Restart
<1> USE DEF IInv
<1>1. value' \in [Points -> Readings] /\ last_value' \in [Points -> Readings]
  <2>1. \A p \in Points \cap failing : v[p] \in Readings
    BY PointFacts
  <2> QED
    BY <2>1, SampledType DEF Boot, TypeOK
<1>2. faults' \in 0 .. MaxFaults /\ remaining_ticks' \in 0 .. cfg.period
  BY ConfigFacts, BoundAssumption DEF Boot, TypeOK
<1>3. first' = value' /\ news' = [p \in Points |-> "none"]
  BY DEF Boot
<1>4. up' \in BOOLEAN
  BY DEF Boot
<1>5. TypeOK'
  BY <1>1, <1>2, <1>3, <1>4 DEF Boot, TypeOK
<1>6. RowsFollowSamples'
  BY <1>3 DEF Boot, RowsFollowSamples, Known, Reported, AwakeInv
<1>7. CounterInv' /\ AwakeInv'
  <2>1. ~Periodic \/ remaining_ticks' >= 1
    BY ConfigFacts DEF Boot, Periodic, TypeOK
  <2>2. pc = "sleep"
    BY DEF Boot, AwakeInv
  <2> QED
    BY <2>1, <2>2, ConfigFacts DEF Boot, CounterInv, AwakeInv, Periodic, TypeOK
<1> QED
  BY <1>5, <1>6, <1>7

LEMMA StepIInv == IInv /\ [Next]_vars => IInv'
<1> SUFFICES ASSUME IInv, [Next]_vars PROVE IInv'
  OBVIOUS
<1>1. CASE UNCHANGED vars
  BY <1>1
     DEF IInv, TypeOK, RowsFollowSamples, CounterInv, AwakeInv, vars, deviceVars,
         sampleVars, newsVars, Reported, Known, Has, OnChange, Periodic
<1>2. ASSUME NEW p \in Points, NEW v \in Levels, Change(p, v) PROVE IInv'
  BY <1>2, ChangeIInv
<1>3. CASE StartIteration
  BY <1>3, StartIterationIInv
<1>4. ASSUME NEW v \in Readings, ReadPoint(v) PROVE IInv'
  BY <1>4, ReadPointIInv
<1>5. CASE Decide
  BY <1>5, DecideIInv
<1>6. ASSUME NEW ok \in BOOLEAN, LogPoint(ok) PROVE IInv'
  BY <1>6, LogPointIInv
<1>7. CASE PassPoint
  BY <1>7, PassPointIInv
<1>8. CASE FinishLog
  BY <1>8, FinishLogIInv
<1>9. CASE Crash
  BY <1>9, CrashIInv
<1>10. CASE Restart
  BY <1>10, RestartIInv
<1> QED
  BY <1>1, <1>2, <1>3, <1>4, <1>5, <1>6, <1>7, <1>8, <1>9, <1>10 DEF Next, CoreStep

LEMMA Invariance == Spec => []IInv
  BY InitIInv, StepIInv, PTL DEF Spec

\* Every variable has its type, for every device and bound.
THEOREM TypeCorrect == Spec => []TypeOK
  BY Invariance, PTL DEF IInv

\* historify_on_change: what is known of a point is its last sample that had its
\* turn to be logged, except after a failed insert.
THEOREM ChangesReported == Spec => []RowsFollowSamples
  BY Invariance, PTL DEF IInv

\* historify_device, periodic: points are logged in the period-th sample, no other.
THEOREM LoggedEveryPeriod == Spec => []EveryPeriod
<1>1. IInv => EveryPeriod
  BY ConfigFacts DEF IInv, CounterInv, EveryPeriod, Periodic, TypeOK
<1> QED
  BY <1>1, Invariance, PTL
=============================================================================
