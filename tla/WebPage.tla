------------------------------ MODULE WebPage -------------------------------
(***************************************************************************)
(* home.js in one browser: the page asks once for each of its sections and *)
(* then polls all of them every three seconds, whether the polls before    *)
(* are answered or not; the answers come through PHP processes of their    *)
(* own, in any order.                                                      *)
(*                                                                         *)
(* What get_device answers for a device is abstracted to its version: how  *)
(* often its values have changed.                                          *)
(***************************************************************************)
EXTENDS Integers, Sequences, FiniteSets

CONSTANTS
  Sections,                       \* the sections that index.php writes
  Pages,                          \* which device each section may have
  MaxFlight,                      \* bound: fetches of a section at the same time
  MaxChanges, MaxFails, MaxReloads               \* bounds on these events

Kinds == {"lamp",     \* has a relay and a digital input
          "meter",    \* has registers only
          "misfit",   \* a lamp, but the section is for another type of device
          "none"}     \* the server does not know the section's id
ASSUME PageAssumption == Pages \subseteq [Sections -> Kinds]
ASSUME BoundAssumption ==
  {MaxFlight, MaxChanges, MaxFails, MaxReloads} \subseteq Nat

VARIABLES
  kind, version,    \* the server: each section's device, how often its values changed
  devices,      \* the page's table: the version it has of a device, or Nothing
  data_fields,  \* the elements that show values have been collected
  shown,        \* the version that the drawing shows, or Nothing
  fetches,      \* get_device requests in flight, in the order they were sent
  lost,         \* history: sections whose one request at loading failed
  count         \* events of each bounded kind

serverVars == <<kind, version>>
tableVars  == <<devices, data_fields, shown, lost>>
webVars    == <<serverVars, tableVars, fetches, count>>

Nothing == -1
Pending == -2    \* not answered yet
Failed  == -3    \* make_request.php answered 503, or the fetch failed
Unknown == -4    \* <error>
Garbled == -5    \* -1 from server_read: it parses, but has no device

Fetch(set, overlapped) == [set |-> set, answer |-> Pending, overlapped |-> overlapped]
Loading ==
  /\ devices' = [s \in Sections |-> Nothing] /\ shown' = devices'
  /\ data_fields' = FALSE /\ lost' = {}
  /\ fetches' = [s \in Sections |-> <<Fetch(TRUE, FALSE)>>]

Init ==
  /\ kind \in Pages
  /\ version = [s \in Sections |-> 0]
  /\ devices = [s \in Sections |-> Nothing] /\ shown = devices
  /\ data_fields = FALSE /\ lost = {}
  /\ fetches = [s \in Sections |-> <<Fetch(TRUE, FALSE)>>]
  /\ count = [changes |-> 0, fails |-> 0, reloads |-> 0]

Count(event, max) == count[event] < max /\ count' = [count EXCEPT ![event] = @ + 1]
Without(q, i) == SubSeq(q, 1, i - 1) \o SubSeq(q, i + 1, Len(q))

-----------------------------------------------------------------------------
(* The server, and what is between it and the page. *)

Change(s) ==
  /\ Count("changes", MaxChanges)
  /\ version' = [version EXCEPT ![s] = @ + 1]
  /\ UNCHANGED <<kind, tableVars, fetches>>

Serve(s, i) ==
  /\ fetches[s][i].answer = Pending
  /\ fetches' = [fetches EXCEPT ![s][i].answer =
                   IF kind[s] = "none" THEN Unknown ELSE version[s]]
  /\ UNCHANGED <<serverVars, tableVars, count>>

Fail(s, i, how) ==
  /\ fetches[s][i].answer = Pending /\ Count("fails", MaxFails)
  /\ fetches' = [fetches EXCEPT ![s][i].answer = how]
  /\ UNCHANGED <<serverVars, tableVars>>

-----------------------------------------------------------------------------
(* home.js *)

\* load_pin_data: every section is polled, whatever is still in flight.
Poll ==
  LET seen(s) == [i \in DOMAIN fetches[s] |-> [fetches[s][i] EXCEPT !.overlapped = TRUE]]
  IN /\ \A s \in Sections : Len(fetches[s]) < MaxFlight
     /\ fetches' = [s \in Sections |-> Append(seen(s), Fetch(FALSE, fetches[s] # <<>>))]
     /\ UNCHANGED <<serverVars, tableVars, count>>

HasPins(s) == kind[s] \in {"lamp", "misfit"}

\* Mutant: a failed answer is shown as a value.
ValueOrZero(f) == IF f.answer = Failed THEN 0 ELSE f.answer

\* The values of an answer, or Nothing: every other answer is only logged.
Value(f) == IF f.answer \in {Failed, Unknown, Garbled} THEN Nothing ELSE f.answer

\* Mutant: only devices with pins get into the table.
RegisterPins(s, v) ==
  /\ data_fields' = TRUE
  /\ devices' = IF kind[s] = "lamp" THEN [devices EXCEPT ![s] = v] ELSE devices
  /\ UNCHANGED <<shown, lost>>

\* set_device: on a misfit it fails before the device gets into the table.
Register(s, v) ==
  /\ data_fields' = TRUE
  /\ devices' = IF kind[s] = "misfit" THEN devices ELSE [devices EXCEPT ![s] = v]
  /\ UNCHANGED <<shown, lost>>

\* Mutants: a device needs no place in the table to be drawn; the drawing is
\* left as it was when the table has a value.
UpdateAny(s, v) ==
  /\ devices' = [devices EXCEPT ![s] = v] /\ shown' = [shown EXCEPT ![s] = v]
  /\ UNCHANGED <<data_fields, lost>>
UpdateOnce(s, v) ==
  /\ devices' = IF HasPins(s) /\ devices[s] # Nothing THEN [devices EXCEPT ![s] = v] ELSE devices
  /\ shown' = IF data_fields /\ shown[s] = Nothing THEN [shown EXCEPT ![s] = v] ELSE shown
  /\ UNCHANGED <<data_fields, lost>>

\* update_device: pins that have no place in the table end the update; registers
\* need none, and are drawn once the elements have been collected.
Update(s, v) ==
  LET done == IF HasPins(s) THEN devices[s] # Nothing ELSE data_fields
  IN /\ devices' = IF done /\ HasPins(s) THEN [devices EXCEPT ![s] = v] ELSE devices
     /\ shown' = IF done THEN [shown EXCEPT ![s] = v] ELSE shown
     /\ UNCHANGED <<data_fields, lost>>

Handle(s, i) ==
  LET f == fetches[s][i]
  IN /\ f.answer # Pending
     /\ IF Value(f) # Nothing
        THEN IF f.set THEN Register(s, Value(f)) ELSE Update(s, Value(f))
        ELSE /\ lost' = IF f.set THEN lost \cup {s} ELSE lost
             /\ data_fields' = (data_fields \/ (f.set /\ f.answer = Garbled))
             /\ UNCHANGED <<devices, shown>>
     /\ fetches' = [fetches EXCEPT ![s] = Without(@, i)]
     /\ UNCHANGED <<serverVars, count>>

\* The page is loaded again: answers to the old one are dropped.
Reload ==
  /\ Count("reloads", MaxReloads)
  /\ Loading
  /\ UNCHANGED serverVars

Answered(s) ==
  \E i \in DOMAIN fetches[s] : Serve(s, i) \/ \E how \in {Failed, Garbled} : Fail(s, i, how)
Handled(s)  == \E i \in DOMAIN fetches[s] : Handle(s, i)

Next ==
  \/ Poll
  \/ Reload
  \/ \E s \in Sections : Change(s) \/ Answered(s) \/ Handled(s)

Spec == Init /\ [][Next]_webVars

\* The timer fires, each fetch is answered or fails, each answer is handled.
FairSpec ==
  /\ Spec /\ WF_webVars(Poll)
  /\ \A s \in Sections : WF_webVars(Answered(s)) /\ WF_webVars(Handled(s))
-----------------------------------------------------------------------------
\* Every variable has its type; nothing is drawn before the elements are there.
TypeOK ==
  /\ version \in [Sections -> 0 .. MaxChanges]
  /\ devices \in [Sections -> Nothing .. MaxChanges] /\ data_fields \in BOOLEAN
  /\ shown \in [Sections -> Nothing .. MaxChanges] /\ lost \subseteq Sections
  /\ \A s \in Sections : shown[s] # Nothing => data_fields /\ kind[s] # "misfit"

\* get_device_pin_status: the drawing goes back to older values only by a poll that
\* was in flight together with another one; answers that come within the three
\* seconds of the timer are shown in order.
ForwardUnlessOverlapped ==
  [][\A s \in Sections :
       Nothing < shown[s]' /\ shown[s]' < shown[s] =>
         \E i \in DOMAIN fetches[s] :
           fetches[s][i].overlapped /\ fetches[s]' = Without(fetches[s], i)]_webVars

\* set_all_devices: a device that the server knows and the section fits gets into the
\* table, unless its one request failed: then only a reload can bring it there.
MissingOnlyByFailure ==
  \A s \in Sections :
    devices[s] = Nothing /\ kind[s] \in {"lamp", "meter"} =>
      s \in lost \/ \E i \in DOMAIN fetches[s] : fetches[s][i].set

\* home.js: the drawing of a section settles on the device's actual values, for pins
\* once the device is in the table, for registers once anything is.
Live(s) == IF HasPins(s) THEN devices[s] # Nothing ELSE kind[s] = "meter" /\ data_fields
Settles == \A s \in Sections : <>[]Live(s) => <>[](shown[s] = version[s])
=============================================================================
