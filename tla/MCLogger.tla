------------------------------ MODULE MCLogger ------------------------------
(***************************************************************************)
(* Two threads and two signals; one line fills a file, so that a few       *)
(* messages go through every backup and out.                               *)
(***************************************************************************)
EXTENDS Logger

CONSTANTS core
Both == {main, core}
Kinds == {"SIGINT", "SIGTERM"}
=============================================================================
