----------------------------- MODULE RollingLog ------------------------------
(***************************************************************************)
(* What the logger promises of its log as a whole, read from the oldest    *)
(* backup to the newest line, without threads, mutex, files and buffers:   *)
(* every message is written once and whole behind the one before it, what  *)
(* is lost in the end of a process is its newest end, and what is given up *)
(* otherwise is one full file at the oldest end, while maxBackupFiles full *)
(* ones stay.  A failing call may cost a message or a stretch of the log,  *)
(* and the end of a process within a rotation the number of files that     *)
(* stay; neither changes the order of the rest.                            *)
(***************************************************************************)
EXTENDS Integers, Sequences

CONSTANTS
  LINE,              \* pieces of a message
  maxBackupFiles, maxFileSize

VARIABLES
  log,       \* the pieces in the log, each the number of its message
  kept,      \* how many of them are safe from the end of the process
  serial,    \* number of the newest message
  written,   \* pieces of it in the log, or LINE when nothing of it is to follow
  failed,    \* a call has failed
  torn       \* a process has ended within a rotation

rollingVars == <<log, kept, serial, written, failed, torn>>

Init ==
  /\ log = <<>> /\ kept = 0
  /\ serial = 0 /\ written = LINE
  /\ failed = FALSE /\ torn = FALSE

\* The oldest n pieces, and all but those from the (m+1)-th to the n-th.
First(n) == SubSeq(log, 1, n)
Without(m, n) == First(m) \o SubSeq(log, n + 1, Len(log))

\* A message is taken up when nothing of the one before it is to follow.
Begin ==
  /\ written = LINE
  /\ serial' = serial + 1 /\ written' = 0
  /\ UNCHANGED <<log, kept, failed, torn>>

\* Its next piece goes behind everything else.
Write ==
  /\ written < LINE
  /\ log' = Append(log, serial) /\ written' = written + 1
  /\ UNCHANGED <<kept, serial, failed, torn>>

\* What has been written is on the disk.
Keep ==
  /\ kept' = Len(log)
  /\ UNCHANGED <<log, serial, written, failed, torn>>

\* The oldest file is given up, n pieces long: full, and behind it so many more are
\* left as there are backups, unless a rotation was cut off once.
GiveUp(n) ==
  /\ maxFileSize <= n /\ n < maxFileSize + LINE /\ n <= kept
  /\ torn \/ Len(log) - n >= maxBackupFiles * maxFileSize
  /\ log' = Without(0, n) /\ kept' = kept - n
  /\ UNCHANGED <<serial, written, failed, torn>>

\* The process ends: n pieces stay, among them all that were on the disk.  The
\* message that was being written remains what it is; only one of which nothing is
\* written yet can have been in a rotation.
Stop(n) ==
  /\ kept <= n
  /\ log' = First(n) /\ kept' = n
  /\ written' = LINE
  /\ \/ UNCHANGED torn
     \/ written = 0 /\ torn' = TRUE
  /\ UNCHANGED <<serial, failed>>

\* A call fails: a stretch on the disk is lost, or the rest of the message that is
\* being written, or a message of which nothing is written.
Fail ==
  /\ failed' = TRUE
  /\ \/ /\ \E m, n \in 0 .. kept : m <= n /\ log' = Without(m, n) /\ kept' = kept - (n - m)
        /\ UNCHANGED <<serial, written>>
     \/ /\ written' \in {written, LINE}
        /\ UNCHANGED <<log, kept, serial>>
     \/ /\ written = LINE /\ serial' = serial + 1
        /\ UNCHANGED <<log, kept, written>>
  /\ UNCHANGED torn

Next ==
  \/ Begin \/ Write \/ Keep \/ Fail
  \/ \E n \in 0 .. Len(log) : GiveUp(n) \/ Stop(n)

Spec == Init /\ [][Next]_rollingVars
=============================================================================
