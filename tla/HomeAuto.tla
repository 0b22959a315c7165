------------------------------ MODULE HomeAuto -------------------------------
(***************************************************************************)
(* The core thread and the server thread of one process, composed on what  *)
(* they share: the array of devices, the relays' files and the process's   *)
(* descriptors.  The core thread goes through the devices, samples each    *)
(* relay and analyzer and may fire the relay; the server thread answers    *)
(* one client at a time.  No lock is taken.                                *)
(*                                                                         *)
(* A relay's file is opened, which truncates a regular file (virtual_pins) *)
(* but not one of sysfs, and written when it is closed.  When it fires is  *)
(* FireSchedule's question, and what is logged Historify's; an input is    *)
(* read as a relay is, from a file that nobody writes.                     *)
(***************************************************************************)
EXTENDS Integers, FiniteSets

CONSTANTS
  MAX_DEVICES,    \* devices in the array (24 in the code)
  Relays, Analyzers, Historified, Fired,   \* devices that have or are ...
  FdLimit,        \* descriptors left to the two threads
  Stray,          \* what an uninitialised `status' holds
  MaxCrashes, MaxFaults    \* bounds: crashes, changes of what can be opened

Devices == 1 .. MAX_DEVICES
EMPTY   == -2         \* content of a truncated file
FAILED  == -1         \* relay_read when the file cannot be opened
NoFile  == 0          \* no device

ASSUME DeviceAssumption ==
  /\ MAX_DEVICES \in Nat \ {0}
  /\ Relays \cup Analyzers \cup Historified \subseteq Devices /\ Fired \subseteq Relays
  /\ Stray \in Int \ {EMPTY, FAILED, 0, 1}
ASSUME BoundAssumption == FdLimit \in Nat /\ FdLimit > 2 /\ {MaxCrashes, MaxFaults} \subseteq Nat

VARIABLES
  sysfs,          \* the files are those of sysfs, not regular ones; never changes
  file,           \* file[d]: content of the relay's file
  shut, faults,   \* the relays' files that cannot be opened, and in which mode
  value,          \* rl.value
  up, crashes,
  core, dev,      \* where the core thread is, and at which device
  server,         \* where the server thread is
  request,        \* the request it is serving
  fds,            \* descriptors in use
  leaked,         \* history: of these, those nobody will close
  starved,        \* history: an open of this process found no descriptor left
  lost,           \* history: a switch was answered with ok and not done
  torn            \* history: devices whose file a crash left truncated

coreVars   == <<core, dev>>
serverVars == <<server, request, lost>>
lifeVars   == <<sysfs, up, crashes, torn>>
fileVars   == <<file, shut, faults>>
fdVars     == <<fds, leaked, starved>>
vars == <<lifeVars, coreVars, serverVars, fileVars, value, fdVars>>

Levels == {0, 1}
Ask(function, d, state) == [function |-> function, id |-> d, new_state |-> state]
Requests ==
  {Ask("get_all_devices", NoFile, 0)} \cup {Ask("get_device", d, 0) : d \in Devices}
    \cup {Ask("update_pin_state", d, s) : d \in Devices, s \in Levels}
Nobody == Ask("none", NoFile, 0)

FirstStep(d) ==
  IF d \in Historified /\ d \in Relays THEN "read"
  ELSE IF d \in Historified /\ d \in Analyzers THEN "analyze" ELSE "fire"

CanOpen(d, mode) == <<d, mode>> \notin shut

\* set_devices: the main thread reads every relay and every analyzer before the
\* threads start.
Sampled == [d \in Devices |-> IF d \notin Relays THEN 0
                              ELSE IF ~CanOpen(d, "r") THEN FAILED
                              ELSE IF file[d] = EMPTY THEN Stray ELSE file[d]]
StartLeaks == {n \in 0 .. FdLimit : n <= Cardinality(Analyzers)}

Init ==
  /\ sysfs \in BOOLEAN
  /\ file \in [Devices -> Levels] /\ \A d \in Devices \ Relays : file[d] = 0
  /\ shut \in SUBSET (Relays \X {"r", "w"}) /\ faults = 0
  /\ value = Sampled
  /\ up = TRUE /\ crashes = 0 /\ torn = {}
  /\ core = FirstStep(1) /\ dev = 1
  /\ server = "accept" /\ request = Nobody
  /\ leaked \in StartLeaks /\ fds = leaked /\ starved = FALSE /\ lost = FALSE

-----------------------------------------------------------------------------
(* relay.c *)

FdLeft == fds < FdLimit

\* An open that may find no descriptor left.
Tried == starved' = (starved \/ ~FdLeft)

\* fopen with "w": a regular file that was not there is made.
OpenToWrite(d) ==
  /\ fds' = fds + 1
  /\ file' = IF sysfs THEN file ELSE [file EXCEPT ![d] = EMPTY]
  /\ shut' \in {shut, IF sysfs THEN shut ELSE shut \ {<<d, "r">>}}

\* Mutants: a failed fprintf leaves the file as it is; the file is not closed.
CloseUnwritten(d, v) == fds' = fds - 1 /\ UNCHANGED file
WriteUnclosed(d, v) == file' = [file EXCEPT ![d] = v] /\ UNCHANGED fds

CloseWritten(d, v) == fds' = fds - 1 /\ file' = [file EXCEPT ![d] = v]

\* Mutant: the number that is read is not returned.
ScannedNothing(d) == value[d]

\* What relay_read returns: nothing is assigned when there is no number in the file.
Scanned(d) == IF file[d] = EMPTY THEN Stray ELSE file[d]

-----------------------------------------------------------------------------
(* main.c: core, one device after the other *)

\* Mutants: the loop ends before the last device; it goes one too far.
NextDeviceButLast(d) == IF d + 1 >= MAX_DEVICES THEN 1 ELSE d + 1
NextDeviceBeyond(d) == IF d > MAX_DEVICES THEN 1 ELSE d + 1

NextDevice(d) == IF d = MAX_DEVICES THEN 1 ELSE d + 1

AfterRead == core' = (IF dev \in Analyzers THEN "analyze" ELSE "fire") /\ UNCHANGED dev
AfterFire == dev' = NextDevice(dev) /\ core' = FirstStep(NextDevice(dev))

\* update_last_value, the relay: opened, ...
ReadRelay ==
  /\ up /\ core = "read" /\ Tried
  /\ IF FdLeft /\ CanOpen(dev, "r")
     THEN core' = "scan" /\ fds' = fds + 1 /\ UNCHANGED <<dev, value>>
     ELSE value' = [value EXCEPT ![dev] = FAILED] /\ AfterRead /\ UNCHANGED fds
  /\ UNCHANGED <<lifeVars, serverVars, fileVars, leaked>>

\* ... scanned and closed.
ScanRelay ==
  /\ up /\ core = "scan"
  /\ value' = [value EXCEPT ![dev] = Scanned(dev)]
  /\ fds' = fds - 1
  /\ AfterRead
  /\ UNCHANGED <<lifeVars, serverVars, fileVars, leaked, starved>>

\* modbus_read: a connection is made and closed, or there is none; but one whose
\* register cannot be read is neither closed nor freed.
ReadAnalyzer(answers) ==
  /\ up /\ core = "analyze" /\ Tried
  /\ core' = "fire" /\ UNCHANGED dev
  /\ IF FdLeft /\ ~answers THEN fds' = fds + 1 /\ leaked' = leaked + 1
     ELSE UNCHANGED <<fds, leaked>>
  /\ UNCHANGED <<lifeVars, serverVars, fileVars, value>>

\* fire_device: the relay is driven, if its time has come and it can be opened.
FireDevice(due) ==
  /\ up /\ core = "fire"
  /\ IF due /\ dev \in Fired THEN Tried ELSE UNCHANGED starved
  /\ IF due /\ dev \in Fired /\ FdLeft /\ CanOpen(dev, "w")
     THEN core' = "write" /\ OpenToWrite(dev) /\ UNCHANGED dev
     ELSE AfterFire /\ UNCHANGED <<fds, file, shut>>
  /\ UNCHANGED <<lifeVars, serverVars, faults, value, leaked>>

WriteFired ==
  /\ up /\ core = "write"
  /\ CloseWritten(dev, 1)
  /\ AfterFire
  /\ UNCHANGED <<lifeVars, serverVars, shut, faults, value, leaked, starved>>

-----------------------------------------------------------------------------
(* tcp_server.c and the handlers of device.c *)

\* A client has sent request r.  Without a descriptor accept fails and is repeated.
Accept(r) ==
  /\ up /\ server = "accept" /\ Tried
  /\ IF FdLeft
     THEN /\ fds' = fds + 1
          /\ server' = "process" /\ request' = r /\ lost' = FALSE
     ELSE UNCHANGED <<fds, serverVars>>
  /\ UNCHANGED <<lifeVars, coreVars, fileVars, value, leaked>>

\* get_device only reads the array.
GetDevice ==
  /\ up /\ server = "process" /\ request.function = "get_device"
  /\ server' = "reply"
  /\ UNCHANGED <<lifeVars, coreVars, request, lost, fileVars, value, fdVars>>

\* devices.xml is opened and not closed, or answered with an error.
GetAllDevices(opens) ==
  /\ up /\ server = "process" /\ request.function = "get_all_devices" /\ Tried
  /\ server' = "reply"
  /\ IF FdLeft /\ opens THEN fds' = fds + 1 /\ leaked' = leaked + 1
     ELSE UNCHANGED <<fds, leaked>>
  /\ UNCHANGED <<lifeVars, coreVars, request, lost, fileVars, value>>

\* update_pin_state ignores whether relay_write could open the file.
Switching == up /\ server = "process" /\ request.function = "update_pin_state"
OpenSwitch ==
  /\ Switching /\ request.id \in Relays /\ Tried
  /\ IF FdLeft /\ CanOpen(request.id, "w")
     THEN server' = "write" /\ OpenToWrite(request.id) /\ UNCHANGED lost
     ELSE server' = "reply" /\ lost' = TRUE /\ UNCHANGED <<fds, file, shut>>
  /\ UNCHANGED <<lifeVars, coreVars, request, faults, value, leaked>>

WriteSwitch ==
  /\ up /\ server = "write"
  /\ CloseWritten(request.id, request.new_state)
  /\ server' = "reply"
  /\ UNCHANGED <<lifeVars, coreVars, request, lost, shut, faults, value, leaked, starved>>

\* The client has its answer and closes, so does the server.
EndTalk ==
  /\ up /\ server = "reply"
  /\ server' = "accept" /\ request' = Nobody
  /\ fds' = fds - 1
  /\ UNCHANGED <<lifeVars, coreVars, lost, fileVars, value, leaked, starved>>

-----------------------------------------------------------------------------
\* The process is gone, and what it had open is closed unwritten.
Die ==
  /\ up' = FALSE
  /\ torn' = {d \in Devices : file[d] = EMPTY}
  /\ core' = "read" /\ dev' = 1 /\ server' = "accept" /\ request' = Nobody
  /\ fds' = 0 /\ leaked' = 0 /\ starved' = FALSE /\ lost' = FALSE
  /\ UNCHANGED <<sysfs, fileVars, value>>

Crash == up /\ crashes < MaxCrashes /\ crashes' = crashes + 1 /\ Die

\* update_pin_state asks no device whether it has a relay: relay_write takes the length
\* of an id_pin that is not there.
SwitchPinless == Switching /\ request.id \notin Relays /\ Die /\ UNCHANGED crashes

\* Restart=always: set_devices samples everything; analyzers may fail and leak.
Boot(leaks) ==
  /\ ~up
  /\ up' = TRUE
  /\ value' = Sampled
  /\ core' = FirstStep(1)
  /\ fds' = leaks /\ leaked' = leaks
  /\ UNCHANGED <<sysfs, crashes, torn, dev, serverVars, fileVars, starved>>

\* A relay's file is removed or protected, or is there again.
ChangeAccess ==
  /\ faults < MaxFaults /\ faults' = faults + 1
  /\ shut' \in SUBSET (Relays \X {"r", "w"})
  /\ UNCHANGED <<lifeVars, coreVars, serverVars, file, value, fdVars>>

CoreStep ==
  \/ ReadRelay \/ ScanRelay \/ WriteFired
  \/ \E answers \in BOOLEAN : ReadAnalyzer(answers)
  \/ \E due \in BOOLEAN : FireDevice(due)
ServerStep ==
  \/ GetDevice \/ OpenSwitch \/ WriteSwitch \/ EndTalk \/ SwitchPinless
  \/ \E opens \in BOOLEAN : GetAllDevices(opens)
Restart == \E leaks \in StartLeaks : Boot(leaks)

Next ==
  \/ CoreStep
  \/ \E r \in Requests : Accept(r)
  \/ ServerStep
  \/ Crash
  \/ Restart
  \/ ChangeAccess

Spec == Init /\ [][Next]_vars

\* Both threads are scheduled, and systemd restarts the process.
FairSpec == Spec /\ WF_vars(CoreStep) /\ WF_vars(ServerStep) /\ WF_vars(Restart)
-----------------------------------------------------------------------------
\* Every variable has its type.
TypeOK ==
  /\ {sysfs, up, lost, starved} \subseteq BOOLEAN
  /\ shut \subseteq Relays \X {"r", "w"} /\ faults \in 0 .. MaxFaults
  /\ file \in [Devices -> Levels \cup {EMPTY}]
  /\ value \in [Devices -> Levels \cup {FAILED, Stray}]
  /\ crashes \in 0 .. MaxCrashes
  /\ core \in {"read", "scan", "analyze", "fire", "write"} /\ dev \in Devices
  /\ server \in {"accept", "process", "write", "reply"}
  /\ request \in Requests \cup {Nobody}
  /\ fds \in 0 .. FdLimit /\ leaked \in 0 .. FdLimit
  /\ torn \subseteq Devices

CoreHolds(d)   == core = "write" /\ dev = d
ServerHolds(d) == server = "write" /\ request.id = d
Held ==
  (IF core \in {"scan", "write"} THEN 1 ELSE 0)
    + (IF server = "accept" THEN 0 ELSE 1) + (IF server = "write" THEN 1 ELSE 0)

\* Between them the two threads return every descriptor but those that modbus_read and
\* get_all_devices leak: what is in use is leaked, or held at this moment.  So an open
\* or accept finds none left only when all but two of them have leaked.
StarvedByLeaks ==
  /\ fds = leaked + Held
  /\ starved => leaked >= FdLimit - 2

\* relay_write against relay_read and against itself in the other thread: a relay's
\* file is without its number only while one of them has it open for writing, or
\* from an end of the process in that moment on, and never in sysfs.  Only that gives a
\* sample that is neither the state of the relay nor a failure.
EmptyOnlyTorn ==
  \A d \in Devices : file[d] = EMPTY =>
    ~sysfs /\ (CoreHolds(d) \/ ServerHolds(d) \/ d \in torn)

\* A historified relay that rests in a state is sampled in that state in the end and
\* reported so from then on, whatever the two threads and a crash did to its file
\* before, unless it cannot be opened or there are no descriptors left to open it with.
ShowsActual ==
  \A d \in Relays \cap Historified, v \in Levels :
    <>[](file[d] = v /\ CanOpen(d, "r") /\ leaked < FdLimit - 2) => <>[](value[d] = v)

\* update_pin_state: the state a user asked for and that was answered with ok, in
\* truth, is reported by get_device later, unless the relay has been switched again,
\* the process has ended, or the file cannot be opened or the descriptors run out.
Answered(d, v) ==
  server = "reply" /\ request = Ask("update_pin_state", d, v) /\ ~lost /\ file[d] = v
SwitchShown ==
  \A d \in Relays \cap Historified, v \in Levels :
    Answered(d, v) ~>
      \/ value[d] = v \/ file[d] # v \/ ~up
      \/ ~CanOpen(d, "r") \/ leaked >= FdLimit - 2
=============================================================================
