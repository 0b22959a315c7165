--------------------------- MODULE HomeAutoProofs ----------------------------
(***************************************************************************)
(* Theorems about HomeAuto: for any number of devices, whatever they have, *)
(* any number of descriptors, of crashes and of changes of access.         *)
(***************************************************************************)
EXTENDS HomeAuto, TLAPS

\* While a file is open for writing, who has it open knows which and what to write.
WriterInv ==
  /\ server = "write" => request.id \in Devices /\ request.new_state \in Levels
  /\ server # "accept" => request \in Requests

\* A process that has ended holds nothing, and neither starves nor loses a switch.
DownInv == ~up => core = "read" /\ server = "accept" /\ leaked = 0 /\ fds = 0 /\ ~starved /\ ~lost

IInv == TypeOK /\ WriterInv /\ DownInv /\ StarvedByLeaks /\ EmptyOnlyTorn

-----------------------------------------------------------------------------
\* What a request to switch a relay says.
LEMMA RequestFacts ==
  \A r \in Requests : r.function = "update_pin_state" =>
    r.id \in Devices /\ r.new_state \in Levels
  BY DeviceAssumption DEF Requests, Ask, Levels

\* The kinds of content and samples are told apart.
LEMMA ContentFacts ==
  /\ EMPTY \notin Levels /\ FAILED \notin Levels /\ FAILED # Stray /\ 0 \in Levels
  /\ EMPTY # FAILED
  BY DeviceAssumption DEF EMPTY, FAILED, Levels

LEMMA HeldFacts == Held \in 0 .. 3 /\ (core \notin {"scan", "write"} => Held <= 2)
                   /\ (server # "write" => Held <= 2)
  BY DEF Held

LEMMA FirstStepFacts ==
  ASSUME NEW d \in Devices PROVE FirstStep(d) \in {"read", "analyze", "fire"}
  BY DEF FirstStep

LEMMA NextDeviceFacts == ASSUME NEW d \in Devices PROVE NextDevice(d) \in Devices
  BY DeviceAssumption DEF NextDevice, Devices

\* set_devices samples a state, a failure or, from an empty file, a stray value.
LEMMA SampledFacts ==
  ASSUME file \in [Devices -> Levels \cup {EMPTY}]
  PROVE  Sampled \in [Devices -> Levels \cup {FAILED, Stray}]
  BY ContentFacts DEF Sampled

\* An open that finds no descriptor left: at least two threads' places are leaked.
LEMMA TriedFacts ==
  ASSUME IInv, Tried, core \notin {"scan", "write"} \/ server # "write",
         leaked' \in {leaked, leaked + 1}
  PROVE  starved' \in BOOLEAN /\ (starved' => leaked' >= FdLimit - 2)
<1>1. Held <= 2 /\ Held \in Nat /\ fds = leaked + Held /\ leaked \in Nat /\ FdLimit \in Nat
  BY HeldFacts, BoundAssumption DEF IInv, StarvedByLeaks, TypeOK
<1>2. ~FdLeft => leaked >= FdLimit - 2
  BY <1>1 DEF FdLeft
<1>3. starved => leaked >= FdLimit - 2
  BY DEF IInv, StarvedByLeaks
<1>4. leaked' >= leaked
  BY <1>1
<1>5. starved' => leaked >= FdLimit - 2
  BY <1>2, <1>3 DEF Tried
<1>6. starved' \in BOOLEAN
  BY DEF Tried
<1> QED
  BY <1>1, <1>4, <1>5, <1>6

-----------------------------------------------------------------------------
\* What opening a relay's file for writing does to the files.
LEMMA OpenFacts ==
  ASSUME TypeOK, NEW d \in Devices, OpenToWrite(d)
  PROVE  /\ file' \in [Devices -> Levels \cup {EMPTY}] /\ shut' \subseteq Relays \X {"r", "w"}
         /\ sysfs => file' = file
         /\ \A e \in Devices : e # d => file'[e] = file[e]
  BY DEF TypeOK, OpenToWrite

LEMMA InitIInv == Init => IInv
<1> SUFFICES ASSUME Init PROVE IInv
  OBVIOUS
<1>1. TypeOK
  <2>1. file \in [Devices -> Levels \cup {EMPTY}] /\ shut \subseteq Relays \X {"r", "w"}
    BY DEF Init
  <2>2. 1 \in Devices
    BY DeviceAssumption DEF Devices
  <2>3. value \in [Devices -> Levels \cup {FAILED, Stray}]
    BY <2>1, SampledFacts DEF Init
  <2>4. {sysfs, up, lost, starved} \subseteq BOOLEAN
    BY DEF Init
  <2>5. leaked \in 0 .. FdLimit /\ fds \in 0 .. FdLimit
    BY DEF Init, StartLeaks
  <2> QED
    BY <2>1, <2>2, <2>3, <2>4, <2>5, FirstStepFacts, BoundAssumption DEF Init, TypeOK
<1>2. StarvedByLeaks
  <2>1. core \in {"read", "analyze", "fire"}
    BY FirstStepFacts, DeviceAssumption DEF Init, Devices
  <2>2. Held = 0 /\ leaked \in Nat
    BY <2>1 DEF Init, Held, StartLeaks
  <2> QED
    BY <2>2 DEF Init, StarvedByLeaks
<1>3. EmptyOnlyTorn
  BY ContentFacts DEF Init, EmptyOnlyTorn
<1> QED
  BY <1>1, <1>2, <1>3 DEF Init, IInv, WriterInv, DownInv

-----------------------------------------------------------------------------
(* The core thread. *)

LEMMA ReadRelayIInv == IInv /\ ReadRelay => IInv'
<1> SUFFICES ASSUME IInv, ReadRelay PROVE IInv'
  OBVIOUS
<1> USE DEF IInv, ReadRelay, lifeVars, serverVars, fileVars
<1>1. starved' \in BOOLEAN /\ (starved' => leaked' >= FdLimit - 2)
  BY TriedFacts
<1>2. TypeOK'
  BY <1>1, BoundAssumption DEF TypeOK, AfterRead, FdLeft
<1>3. StarvedByLeaks'
  BY <1>1 DEF StarvedByLeaks, Held, TypeOK, AfterRead
<1>4. EmptyOnlyTorn'
  BY DEF EmptyOnlyTorn, CoreHolds, ServerHolds, AfterRead
<1> QED
  BY <1>2, <1>3, <1>4 DEF WriterInv, DownInv

LEMMA ScanRelayIInv == IInv /\ ScanRelay => IInv'
<1> SUFFICES ASSUME IInv, ScanRelay PROVE IInv'
  OBVIOUS
<1> USE DEF IInv, ScanRelay, lifeVars, serverVars, fileVars, AfterRead
<1>1. Scanned(dev) \in Levels \cup {Stray}
  BY DEF Scanned, TypeOK
<1>2. TypeOK'
  BY <1>1, HeldFacts, BoundAssumption DEF TypeOK, StarvedByLeaks, Held
<1>3. StarvedByLeaks'
  BY DEF StarvedByLeaks, Held, TypeOK
<1>4. EmptyOnlyTorn'
  BY DEF EmptyOnlyTorn, CoreHolds, ServerHolds
<1> QED
  BY <1>2, <1>3, <1>4 DEF WriterInv, DownInv

LEMMA ReadAnalyzerIInv ==
  ASSUME IInv, NEW answers, ReadAnalyzer(answers) PROVE IInv'
<1> USE DEF IInv, ReadAnalyzer, lifeVars, serverVars, fileVars
<1>1. starved' \in BOOLEAN /\ (starved' => leaked' >= FdLimit - 2)
  BY TriedFacts
<1>2. TypeOK'
  BY <1>1, HeldFacts, BoundAssumption DEF TypeOK, FdLeft, StarvedByLeaks
<1>3. StarvedByLeaks'
  <2>1. Held' = Held
    BY DEF Held
  <2> QED
    BY <1>1, <2>1, HeldFacts DEF StarvedByLeaks, TypeOK
<1>4. EmptyOnlyTorn'
  BY DEF EmptyOnlyTorn, CoreHolds, ServerHolds
<1> QED
  BY <1>2, <1>3, <1>4 DEF WriterInv, DownInv

LEMMA FireDeviceIInv == ASSUME IInv, NEW due, FireDevice(due) PROVE IInv'
<1> USE DEF IInv, FireDevice, lifeVars, serverVars
<1>1. FirstStep(NextDevice(dev)) \in {"read", "analyze", "fire"} /\ NextDevice(dev) \in Devices
  BY NextDeviceFacts, FirstStepFacts DEF TypeOK
<1>2. starved' \in BOOLEAN /\ (starved' => leaked' >= FdLimit - 2)
  BY TriedFacts DEF TypeOK, StarvedByLeaks
<1>3. CASE OpenToWrite(dev) /\ core' = "write" /\ FdLeft /\ UNCHANGED dev
  <2>1. /\ file' \in [Devices -> Levels \cup {EMPTY}] /\ shut' \subseteq Relays \X {"r", "w"}
        /\ sysfs => file' = file
        /\ \A e \in Devices : e # dev => file'[e] = file[e]
        /\ fds' = fds + 1
    BY <1>3, OpenFacts DEF TypeOK, OpenToWrite
  <2>2. TypeOK'
    BY <1>2, <1>3, <2>1, BoundAssumption DEF TypeOK, FdLeft
  <2>3. StarvedByLeaks'
    BY <1>2, <1>3, <2>1 DEF StarvedByLeaks, Held, TypeOK
  <2>4. EmptyOnlyTorn'
    BY <1>3, <2>1 DEF EmptyOnlyTorn, CoreHolds, ServerHolds, TypeOK
  <2> QED
    BY <2>2, <2>3, <2>4 DEF WriterInv, DownInv
<1>4. CASE AfterFire /\ UNCHANGED <<fds, file, shut>>
  <2>1. TypeOK'
    BY <1>1, <1>2, <1>4, BoundAssumption DEF TypeOK, AfterFire
  <2>2. StarvedByLeaks'
    BY <1>1, <1>2, <1>4 DEF StarvedByLeaks, Held, TypeOK, AfterFire
  <2>3. EmptyOnlyTorn'
    BY <1>1, <1>4 DEF EmptyOnlyTorn, CoreHolds, ServerHolds, TypeOK, AfterFire
  <2> QED
    BY <2>1, <2>2, <2>3 DEF WriterInv, DownInv
<1> QED
  BY <1>3, <1>4

LEMMA WriteFiredIInv == IInv /\ WriteFired => IInv'
<1> SUFFICES ASSUME IInv, WriteFired PROVE IInv'
  OBVIOUS
<1> USE DEF IInv, WriteFired, lifeVars, serverVars, CloseWritten, AfterFire
<1>1. FirstStep(NextDevice(dev)) \in {"read", "analyze", "fire"} /\ NextDevice(dev) \in Devices
  BY NextDeviceFacts, FirstStepFacts DEF TypeOK
<1>2. TypeOK'
  BY <1>1, BoundAssumption DEF TypeOK, StarvedByLeaks, Held, Levels
<1>3. StarvedByLeaks'
  BY <1>1 DEF StarvedByLeaks, Held, TypeOK
<1>4. EmptyOnlyTorn'
  BY <1>1, ContentFacts DEF EmptyOnlyTorn, CoreHolds, ServerHolds, TypeOK, Levels
<1> QED
  BY <1>2, <1>3, <1>4 DEF WriterInv, DownInv

-----------------------------------------------------------------------------
(* The server thread. *)

LEMMA AcceptIInv == ASSUME IInv, NEW r \in Requests, Accept(r) PROVE IInv'
<1> USE DEF IInv, Accept, lifeVars, coreVars, fileVars, serverVars
<1>1. starved' \in BOOLEAN /\ (starved' => leaked' >= FdLimit - 2)
  BY TriedFacts
<1>2. lost' \in BOOLEAN
  BY DEF TypeOK
<1>3. TypeOK'
  BY <1>1, <1>2, BoundAssumption DEF TypeOK, FdLeft
<1>4. StarvedByLeaks'
  BY <1>1 DEF StarvedByLeaks, Held, TypeOK
<1>5. EmptyOnlyTorn'
  BY DEF EmptyOnlyTorn, CoreHolds, ServerHolds
<1> QED
  BY <1>3, <1>4, <1>5 DEF WriterInv, DownInv

LEMMA GetDeviceIInv == IInv /\ GetDevice => IInv'
  BY DEF IInv, GetDevice, lifeVars, coreVars, fileVars, fdVars, TypeOK, WriterInv, DownInv,
         StarvedByLeaks, Held, EmptyOnlyTorn, CoreHolds, ServerHolds

LEMMA GetAllDevicesIInv == ASSUME IInv, NEW opens, GetAllDevices(opens) PROVE IInv'
<1> USE DEF IInv, GetAllDevices, lifeVars, coreVars, fileVars
<1>1. starved' \in BOOLEAN /\ (starved' => leaked' >= FdLimit - 2)
  BY TriedFacts
<1>2. TypeOK'
  BY <1>1, HeldFacts, BoundAssumption DEF TypeOK, FdLeft, StarvedByLeaks
<1>3. StarvedByLeaks'
  <2>1. Held' = Held
    BY DEF Held
  <2> QED
    BY <1>1, <2>1, HeldFacts DEF StarvedByLeaks, TypeOK
<1>4. EmptyOnlyTorn'
  BY DEF EmptyOnlyTorn, CoreHolds, ServerHolds
<1> QED
  BY <1>2, <1>3, <1>4 DEF WriterInv, DownInv

LEMMA OpenSwitchIInv == IInv /\ OpenSwitch => IInv'
<1> SUFFICES ASSUME IInv, OpenSwitch PROVE IInv'
  OBVIOUS
<1> USE DEF IInv, OpenSwitch, Switching, lifeVars, coreVars
<1>1. request.id \in Devices /\ request.new_state \in Levels
  BY RequestFacts DEF WriterInv
<1>2. starved' \in BOOLEAN /\ (starved' => leaked' >= FdLimit - 2)
  BY TriedFacts
<1>3. CASE OpenToWrite(request.id) /\ server' = "write" /\ FdLeft /\ UNCHANGED lost
  <2>1. /\ file' \in [Devices -> Levels \cup {EMPTY}] /\ shut' \subseteq Relays \X {"r", "w"}
        /\ sysfs => file' = file
        /\ \A e \in Devices : e # request.id => file'[e] = file[e]
        /\ fds' = fds + 1
    BY <1>1, <1>3, OpenFacts DEF OpenToWrite
  <2>2. TypeOK'
    BY <1>2, <1>3, <2>1, BoundAssumption DEF TypeOK, FdLeft
  <2>3. StarvedByLeaks'
    BY <1>2, <1>3, <2>1 DEF StarvedByLeaks, Held, TypeOK
  <2>4. EmptyOnlyTorn'
    BY <1>3, <2>1 DEF EmptyOnlyTorn, CoreHolds, ServerHolds, TypeOK
  <2> QED
    BY <1>1, <1>3, <2>2, <2>3, <2>4 DEF WriterInv, DownInv
<1>4. CASE server' = "reply" /\ lost' = TRUE /\ UNCHANGED <<fds, file, shut>>
  <2>1. TypeOK'
    BY <1>2, <1>4, BoundAssumption DEF TypeOK
  <2>2. StarvedByLeaks'
    BY <1>2, <1>4 DEF StarvedByLeaks, Held, TypeOK
  <2>3. EmptyOnlyTorn'
    BY <1>4 DEF EmptyOnlyTorn, CoreHolds, ServerHolds
  <2> QED
    BY <1>4, <2>1, <2>2, <2>3 DEF WriterInv, DownInv
<1> QED
  BY <1>3, <1>4

LEMMA WriteSwitchIInv == IInv /\ WriteSwitch => IInv'
<1> SUFFICES ASSUME IInv, WriteSwitch PROVE IInv'
  OBVIOUS
<1> USE DEF IInv, WriteSwitch, lifeVars, coreVars, CloseWritten
<1>1. TypeOK'
  BY BoundAssumption DEF TypeOK, WriterInv, StarvedByLeaks, Held
<1>2. StarvedByLeaks'
  BY DEF StarvedByLeaks, Held, TypeOK
<1>3. EmptyOnlyTorn'
  BY ContentFacts DEF EmptyOnlyTorn, CoreHolds, ServerHolds, TypeOK, WriterInv
<1> QED
  BY <1>1, <1>2, <1>3 DEF WriterInv, DownInv

LEMMA EndTalkIInv == IInv /\ EndTalk => IInv'
<1> SUFFICES ASSUME IInv, EndTalk PROVE IInv'
  OBVIOUS
<1> USE DEF IInv, EndTalk, lifeVars, coreVars, fileVars
<1>1. TypeOK'
  BY BoundAssumption DEF TypeOK, StarvedByLeaks, Held
<1>2. StarvedByLeaks'
  BY DEF StarvedByLeaks, Held, TypeOK
<1>3. EmptyOnlyTorn'
  BY DEF EmptyOnlyTorn, CoreHolds, ServerHolds
<1> QED
  BY <1>1, <1>2, <1>3 DEF WriterInv, DownInv

-----------------------------------------------------------------------------
(* The process, and the files. *)

LEMMA DieIInv ==
  ASSUME IInv, Die, crashes' \in 0 .. MaxCrashes
  PROVE  IInv'
<1> USE DEF IInv, Die, fileVars
<1>1. TypeOK'
  <2>1. {sysfs, up, lost, starved}' \subseteq BOOLEAN
    BY DEF TypeOK
  <2>2. dev' \in Devices /\ torn' \subseteq Devices
    BY DeviceAssumption DEF Devices
  <2> QED
    BY <2>1, <2>2, BoundAssumption DEF TypeOK
<1>2. StarvedByLeaks'
  BY DEF StarvedByLeaks, Held
<1>3. EmptyOnlyTorn'
  BY DEF EmptyOnlyTorn
<1> QED
  BY <1>1, <1>2, <1>3 DEF WriterInv, DownInv

LEMMA BootIInv == ASSUME IInv, NEW leaks \in StartLeaks, Boot(leaks) PROVE IInv'
<1> USE DEF IInv, Boot, serverVars, fileVars
<1>1. FirstStep(1) \in {"read", "analyze", "fire"}
  BY FirstStepFacts, DeviceAssumption DEF Devices
<1>2. Sampled \in [Devices -> Levels \cup {FAILED, Stray}] /\ leaks \in 0 .. FdLimit
  BY SampledFacts DEF TypeOK, StartLeaks
<1>3. TypeOK'
  BY <1>1, <1>2, BoundAssumption DEF TypeOK
<1>4. StarvedByLeaks'
  BY <1>1, <1>2 DEF StarvedByLeaks, Held, DownInv
<1>5. EmptyOnlyTorn'
  BY <1>1 DEF EmptyOnlyTorn, CoreHolds, ServerHolds, DownInv
<1> QED
  BY <1>3, <1>4, <1>5 DEF WriterInv, DownInv

LEMMA ChangeAccessIInv == IInv /\ ChangeAccess => IInv'
<1> SUFFICES ASSUME IInv, ChangeAccess PROVE IInv'
  OBVIOUS
<1> USE DEF IInv, ChangeAccess, lifeVars, coreVars, serverVars, fdVars
<1>1. faults' \in 0 .. MaxFaults /\ shut' \subseteq Relays \X {"r", "w"}
  BY BoundAssumption DEF TypeOK
<1>2. TypeOK'
  BY <1>1 DEF TypeOK
<1> QED
  BY <1>2 DEF WriterInv, DownInv, StarvedByLeaks, Held, EmptyOnlyTorn, CoreHolds, ServerHolds

LEMMA NextIInv == IInv /\ [Next]_vars => IInv'
<1> SUFFICES ASSUME IInv, [Next]_vars PROVE IInv'
  OBVIOUS
<1>1. CASE CoreStep
  BY <1>1, ReadRelayIInv, ScanRelayIInv, ReadAnalyzerIInv, FireDeviceIInv, WriteFiredIInv
     DEF CoreStep
<1>2. ASSUME NEW r \in Requests, Accept(r) PROVE IInv'
  BY <1>2, AcceptIInv
<1>3. CASE SwitchPinless
  BY <1>3, DieIInv DEF SwitchPinless, IInv, TypeOK
<1>4. CASE ServerStep
  BY <1>3, <1>4, GetDeviceIInv, GetAllDevicesIInv, OpenSwitchIInv, WriteSwitchIInv,
     EndTalkIInv DEF ServerStep
<1>5. CASE Crash
  <2>1. crashes' \in 0 .. MaxCrashes
    BY <1>5, BoundAssumption DEF Crash, IInv, TypeOK
  <2> QED
    BY <1>5, <2>1, DieIInv DEF Crash
<1>6. CASE Restart
  BY <1>6, BootIInv DEF Restart
<1>7. CASE ChangeAccess
  BY <1>7, ChangeAccessIInv
<1>8. CASE UNCHANGED vars
  BY <1>8 DEF vars, lifeVars, coreVars, serverVars, fileVars, fdVars, IInv, TypeOK, WriterInv,
              DownInv, StarvedByLeaks, Held, EmptyOnlyTorn, CoreHolds, ServerHolds
<1> QED
  BY <1>1, <1>2, <1>4, <1>5, <1>6, <1>7, <1>8 DEF Next

LEMMA Invariance == Spec => []IInv
  BY InitIInv, NextIInv, PTL DEF Spec

-----------------------------------------------------------------------------
\* Every variable of the two threads and of what they share has its type.
THEOREM TypeCorrect == Spec => []TypeOK
  BY Invariance, PTL DEF IInv

\* modbus_read and get_all_devices leak descriptors, and nothing else does: what is in use
\* beyond that is held by one of the threads, and an open or accept finds no descriptor
\* only when all but two have leaked.
THEOREM OnlyLeaksStarve == Spec => []StarvedByLeaks
  BY Invariance, PTL DEF IInv

\* relay_write: a relay's file has no number only while it is open for writing in one
\* of the threads, or because the process ended in that moment.
THEOREM OnlyTornIsEmpty == Spec => []EmptyOnlyTorn
  BY Invariance, PTL DEF IInv
=============================================================================
