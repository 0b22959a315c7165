------------------------------- MODULE Logger -------------------------------
(***************************************************************************)
(* logger.c and the signal handler of main.c: the threads of the process   *)
(* log under one mutex to a file that is rotated through its backups.      *)
(*                                                                         *)
(* A line is written in two pieces, its text and its newline; a piece is   *)
(* the number of its message, counted in the order the mutex was taken, so *)
(* a file is a sequence of numbers.  An absent file is an empty one.  The  *)
(* console gets the same line in the same critical section and is left     *)
(* out.  Files may fail to be opened, renamed and removed; what is written *)
(* to an open one does not fail (the disk is not full).                    *)
(***************************************************************************)
EXTENDS Integers, Sequences

CONSTANTS
  Threads, main,     \* the threads, of which main starts the others
  Signals,           \* SIGINT and SIGTERM
  maxBackupFiles,    \* 5 in the code
  maxFileSize,       \* 1 MB in the code; here in pieces
  MaxMessages,       \* bound: messages of the threads' own code
  MaxSignals, MaxFaults, MaxCrashes   \* bounds: signals, failed calls, ends of the process

ASSUME ThreadAssumption == main \in Threads
ASSUME SizeAssumption == maxBackupFiles \in Nat /\ maxFileSize \in Nat \ {0}
ASSUME BoundAssumption ==
  MaxMessages \in Nat /\ MaxSignals \in Nat /\ MaxFaults \in Nat /\ MaxCrashes \in Nat

VARIABLES
  up,               \* the process is running
  started,          \* main has started the other threads
  stack,            \* stack[t]: frames of t, a signal handler above what it interrupted
  owner,            \* frame <<t, depth>> that holds s_mutex, or Nobody
  file,             \* file[0] is the log file, file[i] its i-th backup
  buffer,           \* pieces written to s_flog.output and still in stdio's buffer
  output,           \* s_flog.output: "open", "closed" or "NULL"
  fileLogger,       \* the flag kFileLogger is set
  currentFileSize,  \* s_flog.currentFileSize
  shift,            \* the loop variable of rotateLogFiles
  serial,           \* history: number of the newest message
  ends,             \* history: the number of the newest message at each process's end
  torn,             \* history: a process has ended between two renames of a rotation
  signals, faults, crashes   \* counted so far

processVars == <<up, started, ends, torn, crashes>>
threadVars  == <<stack, owner, serial, signals>>
outVars     == <<buffer, output, fileLogger, currentFileSize>>
vars == <<processVars, threadVars, file, outVars, shift, faults>>

Nobody   == <<>>
Files    == 0 .. maxBackupFiles
LINE     == 2                    \* pieces of a line
OwnCode  == "none"               \* the `signal' of a thread's own code
Critical == {"init", "rotate", "shift", "text", "end", "unlock"}

Frame(pc, signal, left) == [pc |-> pc, signal |-> signal, left |-> left, num |-> 0]

-----------------------------------------------------------------------------
Depth(t) == Len(stack[t])
Top(t)   == stack[t][Depth(t)]
At(t, pc) == stack[t] # <<>> /\ Top(t).pc = pc

\* Some frame is at this place.
Doing(pc) == \E t \in Threads : \E d \in DOMAIN stack[t] : stack[t][d].pc = pc

\* The topmost frame of t becomes f.
Put(t, f) == stack' = [stack EXCEPT ![t][Depth(t)] = f]
Goto(t, pc) == Put(t, [Top(t) EXCEPT !.pc = pc])

\* A system call may fail, a bounded number of times.
Fault(failed) ==
  IF failed THEN faults < MaxFaults /\ faults' = faults + 1 ELSE UNCHANGED faults

\* main as it is in logger_initFileLogger, holding the mutex.
Booting == [t \in Threads |-> IF t = main THEN <<Frame("init", OwnCode, 0)>> ELSE <<>>]

Init ==
  /\ up = TRUE /\ started = FALSE
  /\ stack = Booting /\ owner = <<main, 1>>
  /\ file = [i \in Files |-> <<>>]
  /\ buffer = <<>> /\ output = "NULL"
  /\ fileLogger = FALSE /\ currentFileSize = 0 /\ shift = 0
  /\ serial = 0 /\ ends = {} /\ torn = FALSE
  /\ signals = 0 /\ faults = 0 /\ crashes = 0

\* Mutant: getFileSize tells a file that cannot be opened by a size of -1.
OpenedSizeOrError(ok) == IF ok THEN Len(file[0]) ELSE -1

\* The size after fopen; when that fails it is left as it was.
OpenedSize(ok) == IF ok THEN Len(file[0]) ELSE currentFileSize

\* logger_initFileLogger: without the file only the console is logged to.
InitFileLogger(ok) ==
  /\ At(main, "init")
  /\ output' = IF ok THEN "open" ELSE "NULL"
  /\ fileLogger' = ok
  /\ currentFileSize' = OpenedSize(ok)
  /\ Fault(~ok)
  /\ Goto(main, "run") /\ owner' = Nobody
  /\ UNCHANGED <<processVars, serial, signals, file, buffer, shift>>

\* main starts the other threads and then only waits for them.
StartThreads ==
  /\ At(main, "run") /\ Depth(main) = 1 /\ ~started
  /\ started' = TRUE
  /\ stack' = [t \in Threads |-> IF t = main THEN stack[t] ELSE <<Frame("run", OwnCode, 0)>>]
  /\ UNCHANGED <<up, ends, torn, crashes, owner, serial, signals, file, outVars, shift, faults>>

\* The kernel lets a thread run exit_handler, which blocks the same signal only.
Signal(t, s) ==
  /\ stack[t] # <<>> /\ signals < MaxSignals
  /\ \A d \in DOMAIN stack[t] : stack[t][d].signal # s
  /\ stack' = [stack EXCEPT ![t] = Append(@, Frame("run", s, 2))]
  /\ signals' = signals + 1
  /\ UNCHANGED <<processVars, owner, serial, file, outVars, shift, faults>>

-----------------------------------------------------------------------------
(* logger_log *)

\* The frame has something to log: the handler has, twice, and so may have the
\* code of the threads (main only before it has started the others).
HasMessage(t) ==
  IF Top(t).signal # OwnCode THEN Top(t).left > 0
  ELSE serial < MaxMessages /\ (t = main => ~started)

\* Mutant: the mutex is not waited for.
FreeAnyway == TRUE

Free == owner = Nobody
Lock(t) ==
  /\ At(t, "run") /\ HasMessage(t) /\ Free
  /\ owner' = <<t, Depth(t)>>
  /\ serial' = serial + 1
  /\ Put(t, [Top(t) EXCEPT !.pc = IF fileLogger THEN "rotate" ELSE "unlock", !.num = serial + 1])
  /\ UNCHANGED <<processVars, signals, file, outVars, shift, faults>>

\* Mutant: a file of exactly the maximal size is not full yet.
FullBeyond == currentFileSize > maxFileSize

Full == currentFileSize >= maxFileSize
NoRotation(t) ==
  /\ At(t, "rotate") /\ ~Full
  /\ Goto(t, IF output = "NULL" THEN "unlock" ELSE "text")
  /\ UNCHANGED <<processVars, owner, serial, signals, file, outVars, shift, faults>>

\* fclose writes what is buffered; then the loop over the backups begins.
BeginRotation(t) ==
  /\ At(t, "rotate") /\ Full /\ output # "NULL"
  /\ file' = [file EXCEPT ![0] = @ \o buffer] /\ buffer' = <<>>
  /\ output' = "closed"
  /\ shift' = maxBackupFiles
  /\ Goto(t, "shift")
  /\ UNCHANGED <<processVars, owner, serial, signals, fileLogger, currentFileSize, faults>>

Exists(i) == file[i] # <<>>

\* Mutant: the newer file is renamed only when the older one does not exist.
MovedIfFree(i, removed, renamed) ==
  IF Exists(i) /\ removed THEN [file EXCEPT ![i] = <<>>]
  ELSE IF Exists(i - 1) /\ renamed THEN [file EXCEPT ![i] = file[i - 1], ![i - 1] = <<>>] ELSE file

\* One turn of the loop: remove the older file, rename the newer one to it.
Moved(i, removed, renamed) ==
  IF Exists(i - 1) /\ renamed THEN [file EXCEPT ![i] = file[i - 1], ![i - 1] = <<>>]
  ELSE IF removed THEN [file EXCEPT ![i] = <<>>] ELSE file
Shift(t, removed, renamed) ==
  /\ At(t, "shift") /\ shift > 0
  /\ file' = Moved(shift, removed, renamed)
  /\ Fault(~removed \/ ~renamed)
  /\ shift' = shift - 1
  /\ UNCHANGED <<processVars, threadVars, outVars>>

\* Mutant: the message that caused a rotation is not written.
AfterReopenNothing(ok) == "unlock"

\* The log file is opened again.
AfterReopen(ok) == IF ok THEN "text" ELSE "unlock"
Reopen(t, ok) ==
  /\ At(t, "shift") /\ shift = 0
  /\ output' = IF ok THEN "open" ELSE "NULL"
  /\ currentFileSize' = OpenedSize(ok)
  /\ Goto(t, AfterReopen(ok))
  /\ Fault(~ok)
  /\ UNCHANGED <<processVars, owner, serial, signals, file, buffer, fileLogger, shift>>

\* vflog: the text of the line, then its end.
WriteText(t) ==
  /\ At(t, "text")
  /\ buffer' = Append(buffer, Top(t).num)
  /\ Goto(t, "end")
  /\ UNCHANGED <<processVars, owner, serial, signals, file, output, fileLogger, currentFileSize,
                 shift, faults>>

WriteEnd(t) ==
  /\ At(t, "end")
  /\ buffer' = Append(buffer, Top(t).num)
  /\ currentFileSize' = currentFileSize + LINE
  /\ Goto(t, "unlock")
  /\ UNCHANGED <<processVars, owner, serial, signals, file, output, fileLogger, shift, faults>>

\* Mutant: the mutex is kept when the line could not be written.
ReleasedIfOpen == IF output = "NULL" THEN owner ELSE Nobody

Released == Nobody
Unlock(t) ==
  /\ At(t, "unlock")
  /\ owner' = Released
  /\ Put(t, [Top(t) EXCEPT !.pc = "run", !.num = 0,
                          !.left = IF @ > 0 THEN @ - 1 ELSE 0])
  /\ UNCHANGED <<processVars, serial, signals, file, outVars, shift, faults>>

-----------------------------------------------------------------------------
\* The process ends with n pieces of its buffer on the disk.
End(n) ==
  /\ up' = FALSE /\ started' = FALSE
  /\ stack' = [t \in Threads |-> <<>>] /\ owner' = Nobody
  /\ file' = [file EXCEPT ![0] = @ \o SubSeq(buffer, 1, n)] /\ buffer' = <<>>
  /\ output' = "NULL" /\ fileLogger' = FALSE /\ currentFileSize' = 0 /\ shift' = 0
  /\ ends' = ends \cup {serial}
  /\ torn' = (torn \/ shift \in 1 .. maxBackupFiles - 1)
  /\ UNCHANGED <<serial, signals, faults>>

\* exit(0) of the handler, whatever the other threads are doing.
ExitHandler(t) ==
  /\ At(t, "run") /\ Top(t).signal # OwnCode /\ Top(t).left = 0
  /\ End(Len(buffer))
  /\ UNCHANGED crashes

\* exit(1) of get_var_value in any thread, or main returns.
Exit(t) ==
  /\ At(t, "run") /\ Top(t).signal = OwnCode /\ crashes < MaxCrashes
  /\ End(Len(buffer))
  /\ crashes' = crashes + 1

\* Killed, from outside or by a fault elsewhere in the process.
Crash(n) ==
  /\ up /\ crashes < MaxCrashes
  /\ End(n)
  /\ crashes' = crashes + 1

\* A reopening failed before: fclose(NULL).
CloseNull(t, n) ==
  /\ At(t, "rotate") /\ Full /\ output = "NULL"
  /\ End(n)
  /\ UNCHANGED crashes

\* Restart=always.
Boot ==
  /\ ~up
  /\ up' = TRUE /\ stack' = Booting /\ owner' = <<main, 1>>
  /\ UNCHANGED <<started, ends, torn, crashes, serial, signals, file, outVars, shift, faults>>

\* What thread t does without being asked again, once it has begun.
Progress(t) ==
  \/ \E ok \in BOOLEAN : t = main /\ InitFileLogger(ok)
  \/ Top(t).signal # OwnCode /\ Lock(t)
  \/ NoRotation(t)
  \/ BeginRotation(t)
  \/ \E removed, renamed \in BOOLEAN : Shift(t, removed, renamed)
  \/ \E ok \in BOOLEAN : Reopen(t, ok)
  \/ WriteText(t)
  \/ WriteEnd(t)
  \/ Unlock(t)
  \/ ExitHandler(t)
  \/ \E n \in 0 .. Len(buffer) : CloseNull(t, n)

Step(t) ==
  \/ stack[t] # <<>> /\ Progress(t)
  \/ Lock(t)
  \/ Exit(t)
  \/ \E s \in Signals : Signal(t, s)

Next ==
  \/ \E t \in Threads : Step(t)
  \/ StartThreads
  \/ \E n \in 0 .. Len(buffer) : Crash(n)
  \/ Boot

Spec == Init /\ [][Next]_vars

\* The scheduler runs every thread that can run.
FairSpec == Spec /\ \A t \in Threads : WF_vars(stack[t] # <<>> /\ Progress(t))
-----------------------------------------------------------------------------
Pcs == Critical \cup {"run"}
Frames == [pc : Pcs, signal : Signals \cup {OwnCode}, left : 0 .. 2, num : Nat]

\* Every variable has its type.
TypeOK ==
  /\ up \in BOOLEAN /\ started \in BOOLEAN
  /\ stack \in [Threads -> Seq(Frames)]
  /\ owner \in {Nobody} \cup (Threads \X (Nat \ {0}))
  /\ file \in [Files -> Seq(Nat)] /\ buffer \in Seq(Nat)
  /\ output \in {"open", "closed", "NULL"}
  /\ fileLogger \in BOOLEAN
  /\ currentFileSize \in Nat /\ shift \in Files
  /\ serial \in Nat /\ ends \subseteq Nat /\ torn \in BOOLEAN
  /\ signals \in 0 .. MaxSignals /\ faults \in 0 .. MaxFaults /\ crashes \in 0 .. MaxCrashes

Sorted(s) == \A j, k \in DOMAIN s : j < k => s[j] <= s[k]
Before(r, s) == \A j \in DOMAIN r, k \in DOMAIN s : r[j] <= s[k]

\* logger_log and rotateLogFiles: read from the oldest backup to the newest line,
\* the log has its messages in the order in which the mutex was taken, and no line
\* is interrupted by another.  It stays so when removing, renaming or opening files
\* fails, and when the process ends in the middle of a line or of a rotation.
InOrder ==
  /\ Sorted(buffer)
  /\ \A i \in Files : Sorted(file[i]) /\ Before(file[i], buffer)
  /\ \A i, j \in Files : i > j => Before(file[i], file[j])

\* The pieces of backup i and of what is newer.
LogFrom ==
  LET from[i \in Files] == IF i = 0 THEN file[0] \o buffer ELSE file[i] \o from[i - 1] IN from

\* As long as no call fails, only the oldest messages are given up: between the
\* first and the last message in the files, whatever process wrote them, one is
\* missing only if its process was killed before its buffer was written.
NoGap ==
  LET log == LogFrom[maxBackupFiles]
  IN faults = 0 =>
       \A k \in DOMAIN log \ {1} :
         log[k] \in {log[k - 1], log[k - 1] + 1} \/ log[k] - 1 \in ends

\* A file becomes a backup only when it is full, whoever wrote it in however many
\* processes, and unless a rename failed it has at most one line more.
BackupSizes ==
  \A i \in Files \ {0} : Exists(i) =>
    /\ Len(file[i]) >= maxFileSize
    /\ faults = 0 => Len(file[i]) < maxFileSize + LINE

\* The log as a whole: logger_log and rotateLogFiles, whatever thread or handler runs
\* them, write each message once and whole, and give up nothing but a full oldest
\* file behind which maxBackupFiles full ones are left, or what RollingLog allows a
\* failing call and the end of a process.
Log == LogFrom[maxBackupFiles]
Written == IF Doing("rotate") \/ Doing("shift") \/ Doing("text") THEN 0
           ELSE IF Doing("end") THEN 1 ELSE LINE
Rolling == INSTANCE RollingLog
  WITH log <- Log, kept <- Len(Log) - Len(buffer), written <- Written, failed <- faults > 0
RollingSpec == Rolling!Spec

\* A handler runs on top of the frame that holds the mutex.
Interrupted == owner # Nobody /\ Depth(owner[1]) > owner[2]

\* exit_handler: a signal ends the process, whatever was going on in the other
\* threads and whatever fails, unless a handler interrupted the code that holds the
\* mutex, in the same thread (then it waits for itself, and so does everyone).
\* The C library is taken as atomic: that localtime_r or stdio, which have locks of
\* their own, are interrupted within a call and called again by the handler is left out.
SignalEnds ==
  \A t \in Threads :
    (\E d \in DOMAIN stack[t] : stack[t][d].signal # OwnCode) ~> ~up \/ Interrupted
=============================================================================
