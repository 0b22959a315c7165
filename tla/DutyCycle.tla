----------------------------- MODULE DutyCycle -----------------------------
(***************************************************************************)
(* What an <entry> of a device's <date> schedule promises, stated with one *)
(* counter per entry and no countdowns: once started, an entry goes round  *)
(* a cycle of plan[e].cycle loop iterations and drives the relay in the    *)
(* first plan[e].budget iterations of every round, and in no other.        *)
(***************************************************************************)
EXTENDS Integers

CONSTANT Slots        \* the entries of one device

VARIABLES
  plan,     \* plan[e]: [cycle, budget], both in loop iterations
  started,  \* started[e]: the entry's start hour has been seen since boot
  phase,    \* phase[e]: iterations already served in the current round
  driven    \* driven[e]: relay_write(.., 1) calls in the current round

dvars == <<plan, started, phase, driven>>

Idle == [e \in Slots |-> 0]

Init ==
  /\ plan \in [Slots -> [cycle : Nat, budget : Nat]]
  /\ started = [e \in Slots |-> FALSE]
  /\ phase = Idle
  /\ driven = Idle

Start(e) ==
  /\ ~started[e]
  /\ started' = [started EXCEPT ![e] = TRUE]
  /\ UNCHANGED <<plan, phase, driven>>

Serve(e) ==
  LET already == IF phase[e] = 0 THEN 0 ELSE driven[e]
      on      == IF phase[e] < plan[e].budget THEN 1 ELSE 0
  IN /\ started[e]
     /\ phase'  = [phase EXCEPT ![e] = IF @ + 1 = plan[e].cycle THEN 0 ELSE @ + 1]
     /\ driven' = [driven EXCEPT ![e] = already + on]
     /\ UNCHANGED <<plan, started>>

\* The process is restarted: every entry waits for its start hour again.
Forget ==
  /\ started' = [e \in Slots |-> FALSE]
  /\ phase' = Idle
  /\ driven' = Idle
  /\ UNCHANGED plan

Next == Forget \/ \E e \in Slots : Start(e) \/ Serve(e)

Spec == Init /\ [][Next]_dvars
============================================================================
