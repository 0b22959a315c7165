---------------------------- MODULE RequestReply ----------------------------
(***************************************************************************)
(* What the TCP server promises its clients, without sockets: a request    *)
(* that is asked takes effect at most once, at one moment between asking   *)
(* and the end of the connection, and the answer is that of its own        *)
(* request at that moment.                                                 *)
(***************************************************************************)
CONSTANTS
  Clients,
  Requests,
  Outcomes(_),   \* Outcomes(r): the answers request r may get
  Effects(_, _), \* Effects(r, s): the states request r may leave of state s
  Nobody         \* no request, no answer

VARIABLES asked, answer, state

rvars == <<asked, answer, state>>

Init ==
  /\ asked = [c \in Clients |-> Nobody]
  /\ answer = [c \in Clients |-> Nobody]

Ask(c) ==
  /\ asked[c] = Nobody
  /\ \E r \in Requests : asked' = [asked EXCEPT ![c] = r]
  /\ UNCHANGED <<answer, state>>

Execute(c) ==
  /\ asked[c] # Nobody /\ answer[c] = Nobody
  /\ \E a \in Outcomes(asked[c]) : answer' = [answer EXCEPT ![c] = a]
  /\ state' \in Effects(asked[c], state)
  /\ UNCHANGED asked

\* The connection ends; a request that was not executed by then never is.
Leave(c) ==
  /\ asked' = [asked EXCEPT ![c] = Nobody]
  /\ answer' = [answer EXCEPT ![c] = Nobody]
  /\ UNCHANGED state

Next == \E c \in Clients : Ask(c) \/ Execute(c) \/ Leave(c)

Spec == Init /\ [][Next]_rvars
=============================================================================
