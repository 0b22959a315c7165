---------------------------- MODULE MCHistorify -----------------------------
(***************************************************************************)
(* Devices for model-checking Historify: relay and input, with or without  *)
(* one register, logged on change or every second iteration.               *)
(***************************************************************************)
EXTENDS Historify

Device(active, period, has_mb) ==
  [active |-> active, period |-> period, has_rl |-> TRUE, has_di |-> ~has_mb, has_mb |-> has_mb]

\* An input without a relay, as the analyzer of the example file.
InputOnly(period) ==
  [active |-> TRUE, period |-> period, has_rl |-> FALSE, has_di |-> TRUE, has_mb |-> FALSE]

ActiveDevices ==
  {Device(TRUE, 0, FALSE), Device(TRUE, 0, TRUE), Device(TRUE, 1, TRUE),
   Device(TRUE, 2, FALSE), InputOnly(0), InputOnly(2)}
InactiveDevices == {Device(FALSE, 1, FALSE)}

OnOff == {0, 1}
Stray == {7}
=============================================================================
