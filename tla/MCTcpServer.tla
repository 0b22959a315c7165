---------------------------- MODULE MCTcpServer -----------------------------
(***************************************************************************)
(* Requests and clients for model-checking TcpServer: a device with a      *)
(* relay and one without, requests for them and for a stranger, every      *)
(* function the server knows and one that it does not.                     *)
(***************************************************************************)
EXTENDS TcpServer, TLC

Call(function, id, new_state) == [function |-> function, id |-> id, new_state |-> new_state]

CONSTANTS c1, c2, lamp, meter, stranger

AllRequests ==
  {Call("get_all_devices", lamp, 0), Call("get_device", lamp, 0),
   Call("get_device", stranger, 0), Call("update_pin_state", lamp, 1),
   Call("update_pin_state", meter, 1), Call("set_device", lamp, 0)}
AnyClient == Permutations(Clients)
PollRequests == {Call("get_device", lamp, 0), Call("update_pin_state", lamp, 1)}
LiveRequests ==
  PollRequests \cup {Call("get_all_devices", lamp, 0), Call("update_pin_state", meter, 1)}
=============================================================================
