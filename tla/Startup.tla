------------------------------ MODULE Startup -------------------------------
(***************************************************************************)
(* main(), load_config, read_devices_xml and set_devices: the process from *)
(* its start until it serves, started again and again by systemd, while    *)
(* somebody edits its two files.                                           *)
(*                                                                         *)
(* A device element is what the reader tells apart: its id, its type,      *)
(* whether it has the children that are read without a test, and its pins. *)
(***************************************************************************)
EXTENDS Config

CONSTANTS
  MAX_DEVICES,              \* places in devices (24 in the code)
  BASE, PORT, MODBUS, DB,   \* names of the variables asked for
  Edits,                    \* contents of home.conf after an edit
  XmlFiles,                 \* contents of devices.xml; Absent: not there, or not XML
  LongIds,                  \* ids of DEVICE_ID_SIZE characters (16 in the code) or more
  MaxEdits, MaxFaults       \* bounds: edits of a file, failed binds of the socket

Element == [id : STRING, analyzer : BOOLEAN, historify : BOOLEAN, fire : BOOLEAN, pin : BOOLEAN]

ASSUME FileAssumption ==
  /\ XmlFiles \ {Absent} \subseteq Seq(Element)
  /\ Edits \subseteq ConfFiles
ASSUME NameAssumption == <<>> \notin {BASE, PORT, MODBUS, DB}
ASSUME StartAssumption ==
  MAX_DEVICES \in Nat \ {0} /\ MaxEdits \in Nat /\ MaxFaults \in Nat

VARIABLES
  conf, xml,         \* the files
  phase,             \* of the process; "deaf": it runs, but its server could not start
  vars,              \* the array of config.c
  devices,           \* the devices that have been set
  read,              \* history: the two files as this process read them
  listed, refused,   \* history: ids that the last get_all_devices listed, and those of
                     \* them that get_device answered with an error
  edits, faults      \* counted so far

fileVars == <<conf, xml, edits>>
memVars  == <<vars, devices, read>>
askVars  == <<listed, refused>>
startVars == <<fileVars, phase, memVars, askVars, faults>>

Phases == {"down", "config", "devices", "start", "serve", "deaf"}
NoFiles == [conf |-> <<>>, xml |-> <<>>]

Init ==
  /\ conf \in ConfFiles /\ xml \in XmlFiles
  /\ phase = "config"
  /\ vars = Zeroed /\ devices = <<>> /\ read = NoFiles
  /\ listed = {} /\ refused = {}
  /\ edits = 0 /\ faults = 0

\* The process ends: main returns, exit(1), or it is killed by a fault.
Stop == phase' = "down" /\ UNCHANGED <<fileVars, memVars, askVars, faults>>

Defined(name) == GetVar(vars, name) # NotFound

-----------------------------------------------------------------------------
LoadConfig ==
  /\ phase = "config"
  /\ IF conf = Absent THEN Stop
     ELSE /\ phase' = "devices"
          /\ vars' = Loaded[conf].vars
          /\ read' = [read EXCEPT !.conf = conf]
          /\ UNCHANGED <<fileVars, devices, askVars, faults>>

\* Children that are taken from an empty node set, or an attribute of a child that
\* is not there, end the process; <fire> is not read for an analyzer.
Complete(e) == e.historify /\ (e.analyzer \/ e.fire)

\* Mutants: one element more than there are places, or one less.
FittingButOne(elements) == SubSeq(elements, 1, IF Len(elements) >= MAX_DEVICES
                                               THEN MAX_DEVICES - 1 ELSE Len(elements))
FittingAndOne(elements) == SubSeq(elements, 1, IF Len(elements) > MAX_DEVICES
                                               THEN MAX_DEVICES + 1 ELSE Len(elements))

\* read_devices_xml: as many elements as there are places.
Fitting(elements) == SubSeq(elements, 1, IF Len(elements) > MAX_DEVICES
                                         THEN MAX_DEVICES ELSE Len(elements))

\* Mutant: the address of the analyzer is asked for when it is logged.
NeededByPins(elements) == {BASE : i \in {j \in DOMAIN elements : elements[j].pin}}

\* set_devices reads every pin and every register once, which asks for variables.
Needed(elements) ==
  {BASE : i \in {j \in DOMAIN elements : elements[j].pin}}
    \cup {MODBUS : i \in {j \in DOMAIN elements : elements[j].analyzer}}

SetDevices ==
  /\ phase = "devices"
  /\ IF \/ xml = Absent
        \/ \E i \in DOMAIN Fitting(xml) : ~Complete(xml[i])
        \/ \E name \in Needed(Fitting(xml)) : ~Defined(name)
     THEN Stop
     ELSE /\ phase' = "start"
          /\ devices' = Fitting(xml)
          /\ read' = [read EXCEPT !.xml = xml]
          /\ UNCHANGED <<fileVars, vars, askVars, faults>>

\* start_tcp_server: when the socket cannot be bound the thread ends, and the
\* process goes on without a server.
StartServer(bound) ==
  /\ phase = "start"
  /\ IF ~Defined(PORT) THEN Stop
     ELSE /\ phase' = IF bound THEN "serve" ELSE "deaf"
          /\ IF bound THEN UNCHANGED faults ELSE faults < MaxFaults /\ faults' = faults + 1
          /\ UNCHANGED <<fileVars, memVars, askVars>>

\* The first db_log asks for the variables of the database.
LogWithoutDatabase ==
  /\ phase \in {"start", "serve", "deaf"} /\ devices # <<>> /\ ~Defined(DB)
  /\ Stop

\* What is written past the array may end the process at any time.
DieOfOverrun ==
  /\ phase \notin {"down", "config"} /\ Overrun(read.conf)
  /\ Stop

-----------------------------------------------------------------------------
\* get_all_devices sends the file, not the array.
GetAllDevices ==
  /\ phase = "serve" /\ xml # Absent
  /\ listed' = {xml[i].id : i \in DOMAIN xml} /\ refused' = {}
  /\ UNCHANGED <<fileVars, phase, memVars, faults>>

\* get_device compares ids that strncpy has cut at DEVICE_ID_SIZE.  A long one is left
\* without its end, so that what two of them are followed by decides.
MayMatch(a, b)  == a = b \/ {a, b} \subseteq LongIds
MustMatch(a, b) == a = b /\ a \notin LongIds

\* get_device: an error when no device of the array has the id.
GetDevice(id) ==
  /\ phase = "serve" /\ id \in listed
  /\ \/ /\ \E i \in DOMAIN devices : MayMatch(devices[i].id, id)
        /\ UNCHANGED refused
     \/ /\ ~\E i \in DOMAIN devices : MustMatch(devices[i].id, id)
        /\ refused' = refused \cup {id}
  /\ UNCHANGED <<fileVars, phase, memVars, listed, faults>>

-----------------------------------------------------------------------------
\* Restart=always; a new process has zeroed arrays and none of the old clients.
Boot ==
  /\ phase = "down"
  /\ phase' = "config"
  /\ vars' = Zeroed /\ devices' = <<>> /\ read' = NoFiles
  /\ listed' = {} /\ refused' = {}
  /\ UNCHANGED <<fileVars, faults>>

Edit ==
  /\ edits < MaxEdits /\ edits' = edits + 1
  /\ \/ conf' \in Edits /\ UNCHANGED xml
     \/ xml' \in XmlFiles /\ UNCHANGED conf
  /\ UNCHANGED <<phase, memVars, askVars, faults>>

MainStep == LoadConfig \/ SetDevices \/ \E bound \in BOOLEAN : StartServer(bound)

Next ==
  \/ MainStep
  \/ LogWithoutDatabase
  \/ DieOfOverrun
  \/ GetAllDevices
  \/ \E id \in listed : GetDevice(id)
  \/ Boot
  \/ Edit

Spec == Init /\ [][Next]_startVars

\* A process that is starting gets to its next phase or ends: every phase of main
\* ends by itself.  systemd starts a process that has ended again.
GoesOn == phase \in {"config", "devices", "start"} /\ phase' \in Phases
FairSpec == Spec /\ WF_phase(GoesOn) /\ WF_startVars(Boot)
-----------------------------------------------------------------------------
Texts == {vars[i].name : i \in Slots} \cup {vars[i].value : i \in Slots}

\* Every variable has its type; no more devices than places are set.
TypeOK ==
  /\ xml \in XmlFiles
  /\ phase \in Phases
  /\ DOMAIN vars = Slots /\ \A t \in Texts : Len(t) < MAX_VAR_SIZE
  /\ Len(devices) <= MAX_DEVICES /\ \A i \in DOMAIN devices : devices[i] \in Element
  /\ refused \subseteq listed
  /\ edits \in 0 .. MaxEdits /\ faults \in 0 .. MaxFaults

\* load_config and get_var_value: a look-up finds what home.conf states for the
\* name, in the first line that has it and in the shape `name=value', blank lines,
\* lines without or with several '=', '\r', lines too long for the buffer, a last
\* line without its end and lines beyond the array included.
ConfigRead ==
  phase \notin {"down", "config"} =>
    \A name \in {BASE, PORT, MODBUS, DB} : GetVar(vars, name) = Stated(read.conf, name)

\* Once the server listens, every variable that the devices it serves need is stated
\* in the file that was read, and none of these devices lacks a part.
ServesConfigured ==
  phase = "serve" =>
    /\ \A i \in DOMAIN devices :
         /\ Complete(devices[i])
         /\ devices[i].pin => Stated(read.conf, BASE) # NotFound
         /\ devices[i].analyzer => Stated(read.conf, MODBUS) # NotFound
    /\ Stated(read.conf, PORT) # NotFound

\* get_all_devices and get_device agree: a listed device is refused only when its id is
\* too long to be compared, or devices.xml was edited after the start or has more devices
\* than there are places.
ListedAreServed ==
  phase = "serve" =>
    \A id \in refused :
      \/ id \in LongIds
      \/ xml # read.xml \/ Len(xml) > MAX_DEVICES
      \/ \A i \in DOMAIN xml : xml[i].id # id

\* Files as they should be.
GoodConfs ==
  {text \in ConfFiles \ {Absent} :
     ~Overrun(text) /\ \A name \in {BASE, PORT, MODBUS, DB} : Stated(text, name) # NotFound}
GoodXmls == {f \in XmlFiles \ {Absent} : \A i \in DOMAIN f : Complete(f[i])}

\* Whatever the files were before, once they are as they should be the service comes
\* up and stays up, unless the socket could not be bound: then the process runs on
\* without a server and nothing restarts it.
ComesUp == <>[](conf \in GoodConfs /\ xml \in GoodXmls) =>
            <>[](phase = "serve") \/ <>[](phase = "deaf")
=============================================================================
