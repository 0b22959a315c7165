----------------------------- MODULE MCHomeAuto ------------------------------
(***************************************************************************)
(* An analyzer without a relay, and one with a relay that is fired.        *)
(***************************************************************************)
EXTENDS HomeAuto

Second == {2}
Both == {1, 2}
=============================================================================
