---------------------------- MODULE LoggerProofs -----------------------------
(***************************************************************************)
(* Theorems about Logger: for any threads and signals, any number of       *)
(* backups, any size of a file, and any number of messages, failed calls   *)
(* and ends of the process.                                                *)
(***************************************************************************)
EXTENDS Logger, SetInduction, SequenceTheorems, TLAPS

\* s_mutex: the frame that owns it, and no other, is in the critical section.
Mutex ==
  /\ \A t \in Threads : \A d \in DOMAIN stack[t] :
       stack[t][d].pc \in Critical <=> owner = <<t, d>>
  /\ owner # Nobody => owner[2] \in DOMAIN stack[owner[1]]

\* The owner writes the number of the newest message.
NewestInv ==
  \A t \in Threads : \A d \in DOMAIN stack[t] :
    stack[t][d].pc \in Critical \ {"init", "unlock"} => stack[t][d].num = serial

\* Nothing newer has been written.
AtMost(s, n) == \A k \in DOMAIN s : s[k] <= n
WrittenInv == AtMost(buffer, serial) /\ \A i \in Files : AtMost(file[i], serial)

\* Before main starts them the other threads have no frame.
StartInv == ~started => \A t \in Threads \ {main} : stack[t] = <<>>

IInv == TypeOK /\ Mutex /\ StartInv /\ NewestInv /\ WrittenInv /\ InOrder

-----------------------------------------------------------------------------
(* Sequences of numbers. *)

LEMMA AppendFacts ==
  ASSUME NEW s \in Seq(Nat), NEW n \in Nat, AtMost(s, n)
  PROVE  /\ Append(s, n) \in Seq(Nat)
         /\ AtMost(Append(s, n), n)
         /\ Sorted(s) => Sorted(Append(s, n))
         /\ \A q \in Seq(Nat) : Before(q, s) /\ AtMost(q, n) => Before(q, Append(s, n))
<1>1. Append(s, n) \in Seq(Nat) /\ Len(Append(s, n)) = Len(s) + 1
  OBVIOUS
<1>2. \A k \in DOMAIN Append(s, n) :
        Append(s, n)[k] = IF k = Len(s) + 1 THEN n ELSE s[k]
  OBVIOUS
<1>3. DOMAIN s = 1 .. Len(s) /\ DOMAIN Append(s, n) = 1 .. Len(s) + 1
  BY <1>1
<1>4. \A k \in DOMAIN s : s[k] \in Nat
  OBVIOUS
<1>5. AtMost(Append(s, n), n)
  BY <1>2, <1>3, <1>4 DEF AtMost
<1>6. Sorted(s) => Sorted(Append(s, n))
  BY <1>2, <1>3, <1>4 DEF AtMost, Sorted
<1>7. ASSUME NEW q \in Seq(Nat), Before(q, s), AtMost(q, n) PROVE Before(q, Append(s, n))
  BY <1>2, <1>3, <1>7 DEF AtMost, Before
<1> QED
  BY <1>1, <1>5, <1>6, <1>7

\* r followed by the first n of s.
LEMMA ConcatFacts ==
  ASSUME NEW r \in Seq(Nat), NEW s \in Seq(Nat), NEW n \in 0 .. Len(s)
  PROVE  /\ r \o SubSeq(s, 1, n) \in Seq(Nat)
         /\ \A m \in Nat : AtMost(r, m) /\ AtMost(s, m) => AtMost(r \o SubSeq(s, 1, n), m)
         /\ Sorted(r) /\ Sorted(s) /\ Before(r, s) => Sorted(r \o SubSeq(s, 1, n))
         /\ \A q \in Seq(Nat) :
              Before(q, r) /\ Before(q, s) => Before(q, r \o SubSeq(s, 1, n))
<1> DEFINE p == SubSeq(s, 1, n)
           c == r \o p
<1>1. p \in Seq(Nat) /\ Len(p) = n /\ \A k \in 1 .. n : p[k] = s[k]
  OBVIOUS
<1>2. c \in Seq(Nat) /\ Len(c) = Len(r) + n
  BY <1>1
<1>3. DOMAIN c = 1 .. Len(r) + n
  BY <1>2
<1>4. \A k \in DOMAIN c : c[k] = IF k <= Len(r) THEN r[k] ELSE p[k - Len(r)]
  BY <1>1, <1>3
<1>5. \A k \in DOMAIN c :
        \/ k \in DOMAIN r /\ c[k] = r[k]
        \/ k > Len(r) /\ k - Len(r) \in DOMAIN s /\ c[k] = s[k - Len(r)]
  <2> SUFFICES ASSUME NEW k \in 1 .. Len(r) + n
               PROVE  \/ k \in DOMAIN r /\ c[k] = r[k]
                      \/ k > Len(r) /\ k - Len(r) \in DOMAIN s /\ c[k] = s[k - Len(r)]
    BY <1>3
  <2>1. DOMAIN r = 1 .. Len(r) /\ DOMAIN s = 1 .. Len(s) /\ Len(r) \in Nat /\ Len(s) \in Nat
    OBVIOUS
  <2>2. c[k] = IF k <= Len(r) THEN r[k] ELSE p[k - Len(r)]
    BY <1>3, <1>4
  <2>3. \A j \in 1 .. n : p[j] = s[j] /\ j \in 1 .. Len(s)
    BY <1>1, <2>1
  <2> HIDE DEF c, p
  <2>4. CASE k <= Len(r)
    BY <2>1, <2>2, <2>4
  <2>5. CASE k > Len(r)
    <3>1. k - Len(r) \in 1 .. n
      BY <2>1, <2>5
    <3> QED
      BY <3>1, <2>1, <2>2, <2>3, <2>5
  <2> QED
    BY <2>1, <2>4, <2>5
<1> HIDE DEF p, c
<1>6. \A m \in Nat : AtMost(r, m) /\ AtMost(s, m) => AtMost(c, m)
  BY <1>5 DEF AtMost
<1>7. ASSUME Sorted(r), Sorted(s), Before(r, s) PROVE Sorted(c)
  <2> SUFFICES ASSUME NEW j \in DOMAIN c, NEW k \in DOMAIN c, j < k PROVE c[j] <= c[k]
    BY DEF Sorted
  <2>1. j \in Int /\ k \in Int /\ Len(r) \in Nat
    BY <1>3
  <2>2. CASE k \in DOMAIN r
    <3>1. DOMAIN r = 1 .. Len(r)
      OBVIOUS
    <3>2. j \in DOMAIN r /\ ~(k > Len(r)) /\ ~(j > Len(r))
      BY <1>3, <2>1, <2>2, <3>1
    <3>3. c[k] = r[k] /\ c[j] = r[j]
      BY <1>5, <3>2
    <3> QED
      BY <1>7, <2>2, <3>2, <3>3 DEF Sorted
  <2>3. CASE k > Len(r) /\ j \in DOMAIN r
    BY <1>5, <1>7, <2>1, <2>3 DEF Before
  <2>4. CASE k > Len(r) /\ j > Len(r)
    BY <1>5, <1>7, <2>1, <2>4 DEF Sorted
  <2> QED
    BY <1>5, <2>2, <2>3, <2>4
<1>8. ASSUME NEW q \in Seq(Nat), Before(q, r), Before(q, s) PROVE Before(q, c)
  BY <1>5, <1>8 DEF Before
<1> QED
  BY <1>2, <1>6, <1>7, <1>8 DEF c, p

LEMMA WholeFacts == ASSUME NEW s \in Seq(Nat) PROVE SubSeq(s, 1, Len(s)) = s
  OBVIOUS

LEMMA EmptyFacts ==
  /\ <<>> \in Seq(Nat) /\ Sorted(<<>>)
  /\ \A n \in Nat : AtMost(<<>>, n)
  /\ \A s \in Seq(Nat) : Before(s, <<>>) /\ Before(<<>>, s)
  BY DEF Sorted, Before, AtMost

-----------------------------------------------------------------------------
(* Frames. *)

\* The topmost frame is a frame of the thread.
LEMMA TopFacts ==
  ASSUME TypeOK, NEW t \in Threads, stack[t] # <<>>
  PROVE  /\ Depth(t) \in Nat \ {0} /\ Depth(t) \in DOMAIN stack[t]
         /\ Top(t) \in Frames /\ Top(t) = stack[t][Depth(t)]
  BY DEF TypeOK, Depth, Top

\* Put changes the topmost frame of one thread.
LEMMA PutFacts ==
  ASSUME TypeOK, NEW t \in Threads, stack[t] # <<>>, NEW f \in Frames, Put(t, f)
  PROVE  /\ stack' \in [Threads -> Seq(Frames)]
         /\ \A u \in Threads : DOMAIN stack'[u] = DOMAIN stack[u]
         /\ stack'[t][Depth(t)] = f
         /\ \A u \in Threads : \A d \in DOMAIN stack[u] :
              u # t \/ d # Depth(t) => stack'[u][d] = stack[u][d]
<1>1. stack[t] \in Seq(Frames) /\ Depth(t) \in DOMAIN stack[t]
  BY TopFacts DEF TypeOK
<1>2. [stack[t] EXCEPT ![Depth(t)] = f] \in Seq(Frames)
  BY <1>1
<1>3. stack' = [stack EXCEPT ![t] = [stack[t] EXCEPT ![Depth(t)] = f]]
  BY DEF Put
<1> QED
  BY <1>1, <1>2, <1>3 DEF TypeOK

\* A stack is empty when its domain is.
LEMMA EmptyStack == \A r \in Seq(Frames) : r = <<>> <=> 1 \notin DOMAIN r
<1> SUFFICES ASSUME NEW r \in Seq(Frames) PROVE r = <<>> <=> 1 \notin DOMAIN r
  OBVIOUS
<1>1. DOMAIN r = 1 .. Len(r) /\ Len(r) \in Nat /\ (r = <<>> <=> Len(r) = 0)
  OBVIOUS
<1> QED
  BY <1>1

LEMMA SameLength ==
  ASSUME NEW r \in Seq(Frames), NEW s \in Seq(Frames), DOMAIN r = DOMAIN s
  PROVE  r = <<>> <=> s = <<>>
  BY EmptyStack, Zenon

\* Going from one place of the critical section to another keeps the mutex and the
\* number of the message.
LEMMA GotoFacts ==
  ASSUME IInv, NEW t \in Threads, NEW pc, At(t, pc), pc \in Critical,
         NEW to \in Critical, Goto(t, to), UNCHANGED <<owner, serial>>,
         pc \in {"init", "unlock"} => to \in {"init", "unlock"}
  PROVE  /\ stack' \in [Threads -> Seq(Frames)]
         /\ Mutex' /\ NewestInv'
         /\ started' = started => StartInv'
<1> DEFINE f == [Top(t) EXCEPT !.pc = to]
<1>1. stack[t] # <<>> /\ Top(t).pc = pc
  BY DEF At
<1>2. Top(t) \in Frames /\ Top(t) = stack[t][Depth(t)] /\ Depth(t) \in DOMAIN stack[t]
  BY <1>1, TopFacts DEF IInv
<1>3. f \in Frames /\ f.pc = to /\ f.num = Top(t).num
  BY <1>2 DEF Frames, Pcs
<1>4. Put(t, f)
  BY DEF Goto
<1> HIDE DEF f
<1>5. stack' \in [Threads -> Seq(Frames)]
  BY <1>1, <1>3, <1>4, PutFacts DEF IInv
<1>6. /\ \A u \in Threads : DOMAIN stack'[u] = DOMAIN stack[u]
      /\ stack'[t][Depth(t)] = f
      /\ \A u \in Threads : \A d \in DOMAIN stack[u] :
           u # t \/ d # Depth(t) => stack'[u][d] = stack[u][d]
  BY <1>1, <1>3, <1>4, PutFacts DEF IInv
<1>7. owner = <<t, Depth(t)>>
  BY <1>1, <1>2 DEF IInv, Mutex
<1>8. Mutex'
  BY <1>2, <1>3, <1>6, <1>7 DEF IInv, Mutex, Nobody
<1>9. NewestInv'
  BY <1>1, <1>2, <1>3, <1>6 DEF IInv, NewestInv
<1>10. started' = started => StartInv'
  BY <1>1, <1>5, <1>6, SameLength DEF IInv, StartInv, TypeOK
<1> QED
  BY <1>5, <1>8, <1>9, <1>10

\* A failed call is counted.
LEMMA FaultFacts ==
  ASSUME TypeOK, NEW failed, Fault(failed) PROVE faults' \in 0 .. MaxFaults
  BY BoundAssumption DEF TypeOK, Fault

\* A frame at a place of the critical section owns the mutex and knows its number.
LEMMA OwnerFacts ==
  ASSUME IInv, NEW t \in Threads, NEW pc \in Critical, At(t, pc)
  PROVE  /\ stack[t] # <<>> /\ owner = <<t, Depth(t)>>
         /\ pc \notin {"init", "unlock"} => Top(t).num = serial
<1>1. stack[t] # <<>> /\ Top(t).pc = pc
  BY DEF At
<1> QED
  BY <1>1, TopFacts DEF IInv, Mutex, NewestInv

\* Leaving the critical section releases the mutex.
LEMMA LeaveFacts ==
  ASSUME IInv, NEW t \in Threads, NEW pc \in Critical, At(t, pc),
         NEW f \in Frames, f.pc = "run", Put(t, f), owner' = Nobody
  PROVE  /\ stack' \in [Threads -> Seq(Frames)]
         /\ Mutex'
         /\ serial' = serial => NewestInv'
         /\ started' = started => StartInv'
<1>1. stack[t] # <<>> /\ owner = <<t, Depth(t)>>
  BY OwnerFacts
<1>2. stack' \in [Threads -> Seq(Frames)]
  BY <1>1, PutFacts DEF IInv
<1>3. /\ \A u \in Threads : DOMAIN stack'[u] = DOMAIN stack[u]
      /\ stack'[t][Depth(t)] = f
      /\ \A u \in Threads : \A d \in DOMAIN stack[u] :
           u # t \/ d # Depth(t) => stack'[u][d] = stack[u][d]
  BY <1>1, PutFacts DEF IInv
<1>4. Mutex'
  BY <1>1, <1>3 DEF IInv, Mutex, Nobody, Critical
<1>5. serial' = serial => NewestInv'
  BY <1>1, <1>3 DEF IInv, NewestInv, Critical
<1>6. started' = started => StartInv'
  BY <1>1, <1>2, <1>3, SameLength DEF IInv, StartInv, TypeOK
<1> QED
  BY <1>2, <1>4, <1>5, <1>6

\* A step that writes nothing keeps the order of what is written.
LEMMA UnwrittenFacts ==
  ASSUME IInv, UNCHANGED <<file, buffer>>, serial' \in Nat, serial' >= serial
  PROVE  WrittenInv' /\ InOrder'
<1>1. serial \in Nat /\ buffer \in Seq(Nat) /\ file \in [Files -> Seq(Nat)]
  BY DEF IInv, TypeOK
<1>2. \A q \in Seq(Nat) : AtMost(q, serial) => AtMost(q, serial')
  BY <1>1 DEF AtMost
<1>3. WrittenInv'
  BY <1>1, <1>2 DEF IInv, WrittenInv
<1> QED
  BY <1>3 DEF IInv, InOrder

\* A number appended to the buffer is the newest.
LEMMA AppendedFacts ==
  ASSUME IInv, buffer' = Append(buffer, serial), UNCHANGED <<file, serial>>
  PROVE  WrittenInv' /\ InOrder' /\ buffer' \in Seq(Nat)
<1>1. /\ serial \in Nat /\ buffer \in Seq(Nat) /\ AtMost(buffer, serial) /\ Sorted(buffer)
      /\ \A i \in Files : /\ file[i] \in Seq(Nat) /\ AtMost(file[i], serial)
                          /\ Sorted(file[i]) /\ Before(file[i], buffer)
      /\ \A i, j \in Files : i > j => Before(file[i], file[j])
  BY DEF IInv, TypeOK, WrittenInv, InOrder
<1>2. /\ buffer' \in Seq(Nat) /\ AtMost(buffer', serial) /\ Sorted(buffer')
      /\ \A q \in Seq(Nat) : Before(q, buffer) /\ AtMost(q, serial) => Before(q, buffer')
  BY <1>1, AppendFacts
<1> QED
  BY <1>1, <1>2 DEF WrittenInv, InOrder

\* The beginning of the buffer goes to the log file, the rest is lost.
LEMMA FlushedFacts ==
  ASSUME IInv, NEW n \in 0 .. Len(buffer), buffer' = <<>>, UNCHANGED serial,
         file' = [file EXCEPT ![0] = file[0] \o SubSeq(buffer, 1, n)]
  PROVE  WrittenInv' /\ InOrder'
<1> DEFINE c == file[0] \o SubSeq(buffer, 1, n)
<1>1. /\ serial \in Nat /\ buffer \in Seq(Nat) /\ AtMost(buffer, serial) /\ Sorted(buffer)
      /\ \A i \in Files : /\ file[i] \in Seq(Nat) /\ AtMost(file[i], serial)
                          /\ Sorted(file[i]) /\ Before(file[i], buffer)
      /\ \A i, j \in Files : i > j => Before(file[i], file[j])
  BY DEF IInv, TypeOK, WrittenInv, InOrder
<1>2. 0 \in Files /\ \A i, j \in Files : i > j => i # 0 /\ (j = 0 => i > 0)
  BY SizeAssumption DEF Files
<1>3. file \in [Files -> Seq(Nat)]
  BY DEF IInv, TypeOK
<1>4. /\ c \in Seq(Nat) /\ AtMost(c, serial) /\ Sorted(c)
      /\ \A q \in Seq(Nat) : Before(q, file[0]) /\ Before(q, buffer) => Before(q, c)
  BY <1>1, <1>2, ConcatFacts
<1> HIDE DEF c
<1>5. file'[0] = c /\ \A i \in Files \ {0} : file'[i] = file[i]
  BY <1>2, <1>3 DEF c
<1>6. WrittenInv'
  BY <1>1, <1>4, <1>5, EmptyFacts DEF WrittenInv
<1>7. \A i \in Files : Sorted(file'[i]) /\ Before(file'[i], <<>>)
  BY <1>1, <1>2, <1>4, <1>5, EmptyFacts
<1>8. \A i, j \in Files : i > j => Before(file'[i], file'[j])
  BY <1>1, <1>2, <1>4, <1>5
<1> QED
  BY <1>6, <1>7, <1>8, EmptyFacts DEF InOrder

-----------------------------------------------------------------------------
(* The beginning. *)

LEMMA BootingFacts ==
  /\ Booting \in [Threads -> Seq(Frames)]
  /\ DOMAIN Booting[main] = {1} /\ Booting[main][1].pc = "init"
  /\ \A t \in Threads \ {main} : Booting[t] = <<>>
<1>1. Frame("init", OwnCode, 0) \in Frames
  BY DEF Frame, Frames, Pcs, Critical
<1> QED
  BY <1>1, ThreadAssumption DEF Booting, Frame

LEMMA InitIInv == Init => IInv
<1> SUFFICES ASSUME Init PROVE IInv
  OBVIOUS
<1> USE DEF Init
<1>1. TypeOK
  <2>1. owner \in Threads \X (Nat \ {0})
    BY ThreadAssumption
  <2>2. up \in BOOLEAN /\ started \in BOOLEAN /\ fileLogger \in BOOLEAN /\ torn \in BOOLEAN
    OBVIOUS
  <2>3. file \in [Files -> Seq(Nat)] /\ buffer \in Seq(Nat)
    OBVIOUS
  <2>4. shift \in Files
    BY SizeAssumption DEF Files
  <2> QED
    BY <2>1, <2>2, <2>3, <2>4, BootingFacts, BoundAssumption DEF TypeOK
<1>2. Mutex
  BY BootingFacts, ThreadAssumption DEF Mutex, Critical
<1>3. StartInv
  BY BootingFacts DEF StartInv
<1>4. NewestInv
  BY BootingFacts, ThreadAssumption DEF NewestInv
<1>5. WrittenInv /\ InOrder
  BY EmptyFacts DEF WrittenInv, InOrder
<1> QED
  BY <1>1, <1>2, <1>3, <1>4, <1>5 DEF IInv

LEMMA BootIInv == IInv /\ Boot => IInv'
<1> SUFFICES ASSUME IInv, Boot PROVE IInv'
  OBVIOUS
<1> USE DEF Boot, outVars
<1>1. TypeOK'
  <2>1. owner' \in Threads \X (Nat \ {0}) /\ up' \in BOOLEAN
    BY ThreadAssumption
  <2> QED
    BY <2>1, BootingFacts DEF IInv, TypeOK
<1>2. Mutex'
  BY BootingFacts, ThreadAssumption DEF Mutex, Critical
<1>3. StartInv'
  BY BootingFacts DEF StartInv
<1>4. NewestInv'
  BY BootingFacts, ThreadAssumption DEF NewestInv
<1>5. serial' \in Nat /\ serial' >= serial
  BY DEF IInv, TypeOK
<1>6. WrittenInv' /\ InOrder'
  BY <1>5, UnwrittenFacts
<1> QED
  BY <1>1, <1>2, <1>3, <1>4, <1>6 DEF IInv

LEMMA InitFileLoggerIInv ==
  ASSUME IInv, NEW ok \in BOOLEAN, InitFileLogger(ok) PROVE IInv'
<1> DEFINE f == [Top(main) EXCEPT !.pc = "run"]
<1>1. main \in Threads /\ "init" \in Critical
  BY ThreadAssumption DEF Critical
<1>2. stack[main] # <<>> /\ Top(main) \in Frames
  BY <1>1, OwnerFacts, TopFacts DEF IInv, InitFileLogger
<1>3. f \in Frames /\ f.pc = "run"
  BY <1>2 DEF Frames, Pcs
<1>4. Put(main, f)
  BY DEF InitFileLogger, Goto
<1> HIDE DEF f
<1> USE DEF InitFileLogger, processVars
<1>5. stack' \in [Threads -> Seq(Frames)] /\ Mutex' /\ NewestInv' /\ StartInv'
  BY <1>1, <1>3, <1>4, LeaveFacts
<1>6. TypeOK'
  <2>1. currentFileSize' \in Nat
    BY SizeAssumption DEF IInv, TypeOK, OpenedSize, Files
  <2>2. faults' \in 0 .. MaxFaults
    BY FaultFacts DEF IInv
  <2>3. owner' \in {Nobody} /\ fileLogger' \in BOOLEAN /\ output' \in {"open", "closed", "NULL"}
    OBVIOUS
  <2> QED
    BY <1>5, <2>1, <2>2, <2>3 DEF IInv, TypeOK
<1>7. serial' \in Nat /\ serial' >= serial
  BY DEF IInv, TypeOK
<1>8. WrittenInv' /\ InOrder'
  BY <1>7, UnwrittenFacts
<1> QED
  BY <1>5, <1>6, <1>8 DEF IInv

\* main has one frame, outside the critical section, and nobody else has any.
LEMMA StartThreadsIInv == IInv /\ StartThreads => IInv'
<1> SUFFICES ASSUME IInv, StartThreads PROVE IInv'
  OBVIOUS
<1> USE DEF StartThreads, outVars
<1>1. stack[main] # <<>> /\ Top(main).pc = "run" /\ main \in Threads
  BY ThreadAssumption DEF At
<1>2. DOMAIN stack[main] = {1} /\ stack[main][1].pc = "run"
  <2>1. stack[main] \in Seq(Frames) /\ Len(stack[main]) = 1
    BY <1>1 DEF IInv, TypeOK, Depth
  <2> QED
    BY <1>1, <2>1 DEF Top, Depth
<1>3. owner = Nobody
  <2>1. ASSUME owner # Nobody PROVE FALSE
    <3>1. owner[1] \in Threads /\ owner[2] \in DOMAIN stack[owner[1]]
          /\ owner = <<owner[1], owner[2]>>
      BY <2>1 DEF IInv, TypeOK, Mutex
    <3>2. owner[1] = main
      BY <3>1 DEF IInv, StartInv
    <3> QED
      BY <1>1, <1>2, <3>1, <3>2 DEF IInv, Mutex, Critical
  <2> QED
    BY <2>1
<1>4. Frame("run", OwnCode, 0) \in Frames /\ Frame("run", OwnCode, 0).pc = "run"
  BY DEF Frame, Frames, Pcs
<1>5. stack' \in [Threads -> Seq(Frames)]
  BY <1>4 DEF IInv, TypeOK
<1>6. \A t \in Threads : \A d \in DOMAIN stack'[t] : stack'[t][d].pc = "run"
  BY <1>1, <1>2, <1>4
<1>7. started' \in BOOLEAN
  OBVIOUS
<1>8. TypeOK'
  BY <1>5, <1>7 DEF IInv, TypeOK
<1>9. Mutex' /\ NewestInv' /\ StartInv'
  BY <1>3, <1>6 DEF Mutex, NewestInv, StartInv, Nobody, Critical
<1>10. serial' \in Nat /\ serial' >= serial
  BY DEF IInv, TypeOK
<1>11. WrittenInv' /\ InOrder'
  BY <1>10, UnwrittenFacts
<1> QED
  BY <1>8, <1>9, <1>11 DEF IInv

-----------------------------------------------------------------------------
(* The steps of a thread. *)

LEMMA SignalIInv ==
  ASSUME IInv, NEW t \in Threads, NEW s \in Signals, Signal(t, s) PROVE IInv'
<1> DEFINE f == Frame("run", s, 2)
<1> USE DEF Signal, outVars, processVars
<1>1. f \in Frames /\ f.pc = "run"
  BY DEF Frame, Frames, Pcs
<1> HIDE DEF f
<1>2. stack' = [stack EXCEPT ![t] = Append(stack[t], f)]
  BY DEF f
<1>3. stack[t] \in Seq(Frames) /\ Append(stack[t], f) \in Seq(Frames)
  BY <1>1 DEF IInv, TypeOK
<1>4. stack' \in [Threads -> Seq(Frames)]
  BY <1>2, <1>3 DEF IInv, TypeOK
<1>5. /\ DOMAIN Append(stack[t], f) = DOMAIN stack[t] \cup {Len(stack[t]) + 1}
      /\ Len(stack[t]) + 1 \notin DOMAIN stack[t]
      /\ \A d \in DOMAIN stack[t] : Append(stack[t], f)[d] = stack[t][d]
      /\ Append(stack[t], f)[Len(stack[t]) + 1] = f
  BY <1>3
<1>6. \A u \in Threads : \A d \in DOMAIN stack'[u] :
        \/ d \in DOMAIN stack[u] /\ stack'[u][d] = stack[u][d]
        \/ d \notin DOMAIN stack[u] /\ stack'[u][d] = f
  BY <1>2, <1>5 DEF IInv, TypeOK
<1>7. \A u \in Threads : DOMAIN stack[u] \subseteq DOMAIN stack'[u]
  BY <1>2, <1>5 DEF IInv, TypeOK
<1>8. Mutex'
  <2>1. \A u \in Threads : \A d : d \notin DOMAIN stack[u] => owner # <<u, d>>
    BY DEF IInv, Mutex, Nobody
  <2>2. f.pc \notin Critical
    BY <1>1 DEF Critical
  <2>3. owner # Nobody => owner[2] \in DOMAIN stack'[owner[1]]
    BY <1>7 DEF IInv, Mutex, TypeOK
  <2> QED
    BY <1>6, <2>1, <2>2, <2>3 DEF IInv, Mutex
<1>9. NewestInv'
  BY <1>1, <1>6 DEF IInv, NewestInv, Critical
<1>10. StartInv'
  BY <1>2 DEF IInv, StartInv, TypeOK
<1>11. TypeOK'
  <2>1. signals' \in 0 .. MaxSignals
    BY BoundAssumption DEF IInv, TypeOK
  <2> QED
    BY <1>4, <2>1 DEF IInv, TypeOK
<1>12. serial' \in Nat /\ serial' >= serial
  BY DEF IInv, TypeOK
<1>13. WrittenInv' /\ InOrder'
  BY <1>12, UnwrittenFacts
<1> QED
  BY <1>8, <1>9, <1>10, <1>11, <1>13 DEF IInv

\* Nobody is in the critical section: the frame that enters it is the only one.
LEMMA LockIInv == ASSUME IInv, NEW t \in Threads, Lock(t) PROVE IInv'
<1> DEFINE to == IF fileLogger THEN "rotate" ELSE "unlock"
           f == [Top(t) EXCEPT !.pc = to, !.num = serial + 1]
<1> USE DEF Lock, outVars, processVars
<1>1. stack[t] # <<>> /\ owner = Nobody /\ Put(t, f)
  BY DEF At, Free
<1>2. Top(t) \in Frames /\ Depth(t) \in Nat \ {0} /\ Depth(t) \in DOMAIN stack[t]
  BY <1>1, TopFacts DEF IInv
<1>3. to \in Critical /\ serial + 1 \in Nat
  BY DEF Critical, IInv, TypeOK
<1>4. f \in Frames /\ f.pc \in Critical /\ f.num = serial + 1
  BY <1>2, <1>3 DEF Frames, Pcs
<1> HIDE DEF f, to
<1>5. stack' \in [Threads -> Seq(Frames)]
  BY <1>1, <1>4, PutFacts DEF IInv
<1>6. /\ \A u \in Threads : DOMAIN stack'[u] = DOMAIN stack[u]
      /\ stack'[t][Depth(t)] = f
      /\ \A u \in Threads : \A d \in DOMAIN stack[u] :
           u # t \/ d # Depth(t) => stack'[u][d] = stack[u][d]
  BY <1>1, <1>4, PutFacts DEF IInv
<1>7. \A u \in Threads : \A d \in DOMAIN stack[u] : stack[u][d].pc \notin Critical
  BY <1>1 DEF IInv, Mutex, Nobody
<1>8. owner' = <<t, Depth(t)>>
  OBVIOUS
<1>9. Mutex'
  BY <1>2, <1>4, <1>6, <1>7, <1>8 DEF Mutex
<1>10. NewestInv'
  BY <1>4, <1>6, <1>7 DEF NewestInv
<1>11. StartInv'
  BY <1>1, <1>5, <1>6, SameLength DEF IInv, StartInv, TypeOK
<1>12. TypeOK'
  <2>1. owner' \in Threads \X (Nat \ {0})
    BY <1>2, <1>8
  <2> QED
    BY <1>3, <1>5, <2>1 DEF IInv, TypeOK
<1>13. serial' \in Nat /\ serial' >= serial
  BY DEF IInv, TypeOK
<1>14. WrittenInv' /\ InOrder'
  BY <1>13, UnwrittenFacts
<1> QED
  BY <1>9, <1>10, <1>11, <1>12, <1>14 DEF IInv

LEMMA NoRotationIInv == ASSUME IInv, NEW t \in Threads, NoRotation(t) PROVE IInv'
<1> DEFINE to == IF output = "NULL" THEN "unlock" ELSE "text"
<1> USE DEF NoRotation, outVars, processVars
<1>1. to \in Critical /\ "rotate" \in Critical /\ Goto(t, to)
  BY DEF Critical
<1> HIDE DEF to
<1>2. stack' \in [Threads -> Seq(Frames)] /\ Mutex' /\ NewestInv' /\ StartInv'
  BY <1>1, GotoFacts
<1>3. TypeOK'
  BY <1>2 DEF IInv, TypeOK
<1>4. serial' \in Nat /\ serial' >= serial
  BY DEF IInv, TypeOK
<1>5. WrittenInv' /\ InOrder'
  BY <1>4, UnwrittenFacts
<1> QED
  BY <1>2, <1>3, <1>5 DEF IInv

\* What is in the buffer is newer than the log file and older than nothing.
LEMMA BeginRotationIInv == ASSUME IInv, NEW t \in Threads, BeginRotation(t) PROVE IInv'
<1> USE DEF BeginRotation, processVars
<1>1. "shift" \in Critical /\ "rotate" \in Critical /\ At(t, "rotate") /\ Goto(t, "shift")
  BY DEF Critical
<1>2. stack' \in [Threads -> Seq(Frames)] /\ Mutex' /\ NewestInv' /\ StartInv'
  BY <1>1, GotoFacts
<1>3. file \in [Files -> Seq(Nat)] /\ buffer \in Seq(Nat) /\ serial \in Nat /\ 0 \in Files
  BY SizeAssumption DEF IInv, TypeOK, Files
<1>4. Len(buffer) \in 0 .. Len(buffer) /\ file[0] \in Seq(Nat)
  BY <1>3
<1>5. file' = [file EXCEPT ![0] = file[0] \o SubSeq(buffer, 1, Len(buffer))] /\ buffer' = <<>>
  BY <1>3, WholeFacts
<1>6. TypeOK'
  <2>1. shift' \in Files
    BY SizeAssumption DEF Files
  <2>2. file' \in [Files -> Seq(Nat)] /\ buffer' \in Seq(Nat)
    BY <1>3, <1>4, <1>5, ConcatFacts, EmptyFacts
  <2> QED
    BY <1>2, <2>1, <2>2 DEF IInv, TypeOK
<1>7. WrittenInv' /\ InOrder'
  BY <1>3, <1>4, <1>5, FlushedFacts
<1> QED
  BY <1>2, <1>6, <1>7 DEF IInv

\* One turn of the loop moves a backup or removes one.
LEMMA ShiftIInv ==
  ASSUME IInv, NEW t \in Threads, NEW removed \in BOOLEAN, NEW renamed \in BOOLEAN,
         Shift(t, removed, renamed)
  PROVE  IInv'
<1> USE DEF Shift, processVars, threadVars, outVars
<1>1. /\ file \in [Files -> Seq(Nat)] /\ buffer \in Seq(Nat) /\ serial \in Nat
      /\ shift \in Files /\ shift - 1 \in Files /\ shift > 0
      /\ Files \subseteq Int
  BY SizeAssumption DEF IInv, TypeOK, Files
<1>2. \/ file' = [file EXCEPT ![shift] = file[shift - 1], ![shift - 1] = <<>>]
      \/ file' = [file EXCEPT ![shift] = <<>>]
      \/ file' = file
  BY DEF Moved
<1> HIDE DEF Shift
<1>3. /\ file' \in [Files -> Seq(Nat)]
      /\ \/ /\ file'[shift] = file[shift - 1] /\ file'[shift - 1] = <<>>
            /\ \A i \in Files \ {shift, shift - 1} : file'[i] = file[i]
         \/ \A i \in Files : file'[i] = file[i] \/ file'[i] = <<>>
  BY <1>1, <1>2, EmptyFacts
<1>4. TypeOK'
  <2>1. faults' \in 0 .. MaxFaults
    BY FaultFacts DEF IInv, Shift
  <2>2. shift' \in Files
    BY <1>1 DEF Shift
  <2> QED
    BY <1>3, <2>1, <2>2 DEF IInv, TypeOK, Shift
<1>5. Mutex' /\ StartInv' /\ NewestInv' /\ UNCHANGED <<buffer, serial>>
  BY DEF IInv, Mutex, StartInv, NewestInv, Shift
<1>6. \A i \in Files : \E k \in Files : file'[i] = file[k] \/ file'[i] = <<>>
  BY <1>1, <1>3
<1>7. WrittenInv'
  BY <1>1, <1>5, <1>6, EmptyFacts DEF IInv, WrittenInv
<1>8. \A i \in Files : Sorted(file'[i]) /\ Before(file'[i], buffer)
  BY <1>1, <1>6, EmptyFacts DEF IInv, InOrder
<1>9. ASSUME NEW i \in Files, NEW j \in Files, i > j PROVE Before(file'[i], file'[j])
  <2>1. CASE file'[i] = <<>> \/ file'[j] = <<>>
    BY <1>3, <2>1, EmptyFacts
  <2>2. CASE file'[i] # <<>> /\ file'[j] # <<>>
    <3>1. CASE \A k \in Files : file'[k] = file[k] \/ file'[k] = <<>>
      BY <1>9, <2>2, <3>1 DEF IInv, InOrder
    <3>2. CASE /\ file'[shift] = file[shift - 1] /\ file'[shift - 1] = <<>>
               /\ \A k \in Files \ {shift, shift - 1} : file'[k] = file[k]
      <4> DEFINE From(k) == IF k = shift THEN shift - 1 ELSE k
      <4>1. file'[i] = file[From(i)] /\ file'[j] = file[From(j)]
        BY <2>2, <3>2
      <4>2. i # shift - 1 /\ j # shift - 1
        BY <2>2, <3>2
      <4>3. From(i) \in Files /\ From(j) \in Files /\ From(i) > From(j)
        BY <1>1, <1>9, <4>2
      <4> QED
        BY <4>1, <4>3 DEF IInv, InOrder
    <3> QED
      BY <1>3, <3>1, <3>2
  <2> QED
    BY <2>1, <2>2
<1> QED
  BY <1>4, <1>5, <1>7, <1>8, <1>9 DEF IInv, InOrder

LEMMA ReopenIInv == ASSUME IInv, NEW t \in Threads, NEW ok \in BOOLEAN, Reopen(t, ok) PROVE IInv'
<1> USE DEF Reopen, processVars
<1>1. "shift" \in Critical /\ AfterReopen(ok) \in Critical
  BY DEF Critical, AfterReopen
<1>2. stack' \in [Threads -> Seq(Frames)] /\ Mutex' /\ NewestInv' /\ StartInv'
  BY <1>1, GotoFacts
<1>3. TypeOK'
  <2>1. currentFileSize' \in Nat
    BY SizeAssumption DEF IInv, TypeOK, OpenedSize, Files
  <2>2. faults' \in 0 .. MaxFaults
    BY FaultFacts DEF IInv
  <2>3. output' \in {"open", "closed", "NULL"}
    OBVIOUS
  <2> QED
    BY <1>2, <2>1, <2>2, <2>3 DEF IInv, TypeOK
<1>4. serial' \in Nat /\ serial' >= serial
  BY DEF IInv, TypeOK
<1>5. WrittenInv' /\ InOrder'
  BY <1>4, UnwrittenFacts
<1> QED
  BY <1>2, <1>3, <1>5 DEF IInv

LEMMA WriteTextIInv == ASSUME IInv, NEW t \in Threads, WriteText(t) PROVE IInv'
<1> USE DEF WriteText, processVars
<1>1. "text" \in Critical /\ "end" \in Critical /\ At(t, "text") /\ Goto(t, "end")
  BY DEF Critical
<1>2. stack' \in [Threads -> Seq(Frames)] /\ Mutex' /\ NewestInv' /\ StartInv'
  BY <1>1, GotoFacts
<1>3. buffer' = Append(buffer, serial)
  BY <1>1, OwnerFacts
<1>4. WrittenInv' /\ InOrder' /\ buffer' \in Seq(Nat)
  BY <1>3, AppendedFacts
<1>5. TypeOK'
  BY <1>2, <1>4 DEF IInv, TypeOK
<1> QED
  BY <1>2, <1>4, <1>5 DEF IInv

LEMMA WriteEndIInv == ASSUME IInv, NEW t \in Threads, WriteEnd(t) PROVE IInv'
<1> USE DEF WriteEnd, processVars
<1>1. "unlock" \in Critical /\ "end" \in Critical /\ At(t, "end") /\ Goto(t, "unlock")
  BY DEF Critical
<1>2. stack' \in [Threads -> Seq(Frames)] /\ Mutex' /\ NewestInv' /\ StartInv'
  BY <1>1, GotoFacts
<1>3. buffer' = Append(buffer, serial)
  BY <1>1, OwnerFacts
<1>4. WrittenInv' /\ InOrder' /\ buffer' \in Seq(Nat)
  BY <1>3, AppendedFacts
<1>5. TypeOK'
  BY <1>2, <1>4 DEF IInv, TypeOK, LINE
<1> QED
  BY <1>2, <1>4, <1>5 DEF IInv

LEMMA UnlockIInv == ASSUME IInv, NEW t \in Threads, Unlock(t) PROVE IInv'
<1> DEFINE left == IF Top(t).left > 0 THEN Top(t).left - 1 ELSE 0
           f == [Top(t) EXCEPT !.pc = "run", !.num = 0, !.left = left]
<1> USE DEF Unlock, outVars, processVars
<1>1. "unlock" \in Critical /\ At(t, "unlock") /\ stack[t] # <<>> /\ Put(t, f)
  BY DEF Critical, At
<1>2. Top(t) \in Frames
  BY <1>1, TopFacts DEF IInv
<1>3. left \in 0 .. 2
  BY <1>2 DEF Frames
<1> HIDE DEF left
<1>4. f \in Frames /\ f.pc = "run"
  BY <1>2, <1>3 DEF Frames, Pcs
<1> HIDE DEF f
<1>5. owner' = Nobody
  BY DEF Released
<1>6. stack' \in [Threads -> Seq(Frames)] /\ Mutex' /\ NewestInv' /\ StartInv'
  BY <1>1, <1>4, <1>5, LeaveFacts
<1>7. TypeOK'
  BY <1>5, <1>6 DEF IInv, TypeOK
<1>8. serial' \in Nat /\ serial' >= serial
  BY DEF IInv, TypeOK
<1>9. WrittenInv' /\ InOrder'
  BY <1>8, UnwrittenFacts
<1> QED
  BY <1>6, <1>7, <1>9 DEF IInv

-----------------------------------------------------------------------------
(* The end of the process, and all steps. *)

LEMMA EndIInv ==
  ASSUME IInv, NEW n \in 0 .. Len(buffer), End(n), crashes' \in 0 .. MaxCrashes PROVE IInv'
<1> USE DEF End
<1>1. file \in [Files -> Seq(Nat)] /\ buffer \in Seq(Nat) /\ 0 \in Files /\ file[0] \in Seq(Nat)
  BY SizeAssumption DEF IInv, TypeOK, Files
<1>2. TypeOK'
  <2>1. file' \in [Files -> Seq(Nat)] /\ buffer' \in Seq(Nat)
    BY <1>1, ConcatFacts, EmptyFacts
  <2>2. up' \in BOOLEAN /\ started' \in BOOLEAN /\ fileLogger' \in BOOLEAN
    OBVIOUS
  <2>3. stack' \in [Threads -> Seq(Frames)]
    OBVIOUS
  <2>4. owner' \in {Nobody} /\ ends' \subseteq Nat /\ shift' \in Files
    BY <1>1 DEF IInv, TypeOK
  <2> QED
    BY <2>1, <2>2, <2>3, <2>4 DEF IInv, TypeOK
<1>3. \A u \in Threads : stack'[u] = <<>> /\ DOMAIN stack'[u] = {}
  OBVIOUS
<1>4. Mutex' /\ NewestInv' /\ StartInv'
  BY <1>3 DEF Mutex, NewestInv, StartInv
<1>5. WrittenInv' /\ InOrder'
  BY <1>1, FlushedFacts
<1> QED
  BY <1>2, <1>4, <1>5 DEF IInv

LEMMA NextIInv == IInv /\ [Next]_vars => IInv'
<1> SUFFICES ASSUME IInv, [Next]_vars PROVE IInv'
  OBVIOUS
<1>1. buffer \in Seq(Nat) /\ Len(buffer) \in 0 .. Len(buffer) /\ crashes \in 0 .. MaxCrashes
  BY DEF IInv, TypeOK
<1>2. crashes < MaxCrashes => crashes + 1 \in 0 .. MaxCrashes
  BY <1>1, BoundAssumption
<1>3. CASE UNCHANGED vars
  BY <1>3 DEF IInv, TypeOK, Mutex, StartInv, NewestInv, WrittenInv, InOrder, vars, processVars,
              threadVars, outVars
<1>4. ASSUME NEW t \in Threads, Step(t) PROVE IInv'
  <2>1. CASE Lock(t)
    BY <2>1, LockIInv
  <2>2. CASE Exit(t)
    BY <1>1, <1>2, <2>2, EndIInv DEF Exit
  <2>3. CASE \E s \in Signals : Signal(t, s)
    BY <2>3, SignalIInv
  <2>4. CASE Progress(t)
    <3>1. CASE \E ok \in BOOLEAN : t = main /\ InitFileLogger(ok)
      BY <3>1, InitFileLoggerIInv
    <3>2. CASE NoRotation(t)
      BY <3>2, NoRotationIInv
    <3>3. CASE BeginRotation(t)
      BY <3>3, BeginRotationIInv
    <3>4. CASE \E removed, renamed \in BOOLEAN : Shift(t, removed, renamed)
      BY <3>4, ShiftIInv
    <3>5. CASE \E ok \in BOOLEAN : Reopen(t, ok)
      BY <3>5, ReopenIInv
    <3>6. CASE WriteText(t)
      BY <3>6, WriteTextIInv
    <3>7. CASE WriteEnd(t)
      BY <3>7, WriteEndIInv
    <3>8. CASE Unlock(t)
      BY <3>8, UnlockIInv
    <3>9. CASE ExitHandler(t)
      BY <1>1, <3>9, EndIInv DEF ExitHandler
    <3>10. CASE \E n \in 0 .. Len(buffer) : CloseNull(t, n)
      BY <1>1, <3>10, EndIInv DEF CloseNull
    <3> QED
      BY <2>1, <2>4, <3>1, <3>2, <3>3, <3>4, <3>5, <3>6, <3>7, <3>8, <3>9, <3>10 DEF Progress
  <2> QED
    BY <1>4, <2>1, <2>2, <2>3, <2>4 DEF Step
<1>5. CASE StartThreads
  BY <1>5, StartThreadsIInv
<1>6. CASE \E n \in 0 .. Len(buffer) : Crash(n)
  BY <1>2, <1>6, EndIInv DEF Crash
<1>7. CASE Boot
  BY <1>7, BootIInv
<1> QED
  BY <1>3, <1>4, <1>5, <1>6, <1>7 DEF Next

LEMMA Invariance == Spec => []IInv
  BY InitIInv, NextIInv, PTL DEF Spec

-----------------------------------------------------------------------------
(* What the threads are doing. *)

\* One place of the critical section at a time.
LEMMA DoingFacts ==
  ASSUME IInv, NEW t \in Threads, NEW pc \in Critical, At(t, pc)
  PROVE  \A q \in Critical : Doing(q) <=> q = pc
<1>1. owner = <<t, Depth(t)>> /\ stack[t] # <<>> /\ Top(t).pc = pc
  BY OwnerFacts DEF At
<1>2. Top(t) = stack[t][Depth(t)] /\ Depth(t) \in DOMAIN stack[t]
  BY <1>1, TopFacts DEF IInv
<1>3. ASSUME NEW q \in Critical, Doing(q) PROVE q = pc
  BY <1>1, <1>2, <1>3 DEF Doing, IInv, Mutex
<1> QED
  BY <1>1, <1>2, <1>3 DEF Doing

LEMMA DoingNothing ==
  ASSUME IInv, owner = Nobody PROVE \A q \in Critical : ~Doing(q)
  BY DEF IInv, Mutex, Nobody, Doing

\* The frame at the top of a thread is the only one in the critical section, or none
\* is, and gets to another place.
LEMMA DoingPut ==
  ASSUME IInv, NEW t \in Threads, stack[t] # <<>>, NEW f \in Frames, Put(t, f),
         owner = Nobody \/ owner = <<t, Depth(t)>>
  PROVE  \A q \in Critical : Doing(q)' <=> q = f.pc
<1>1. /\ \A u \in Threads : DOMAIN stack'[u] = DOMAIN stack[u]
      /\ stack'[t][Depth(t)] = f
      /\ \A u \in Threads : \A d \in DOMAIN stack[u] :
           u # t \/ d # Depth(t) => stack'[u][d] = stack[u][d]
  BY PutFacts DEF IInv
<1>2. \A u \in Threads : \A d \in DOMAIN stack[u] :
        u # t \/ d # Depth(t) => stack[u][d].pc \notin Critical
  BY DEF IInv, Mutex, Nobody
<1>3. Depth(t) \in DOMAIN stack[t]
  BY TopFacts DEF IInv
<1>4. Doing(f.pc)'
  BY <1>1, <1>3 DEF Doing
<1>5. ASSUME NEW q \in Critical, Doing(q)' PROVE q = f.pc
  BY <1>1, <1>2, <1>5 DEF Doing
<1> QED
  BY <1>4, <1>5

LEMMA DoingGoto ==
  ASSUME IInv, NEW t \in Threads, NEW pc \in Critical, At(t, pc), NEW to \in Pcs, Goto(t, to)
  PROVE  \A q \in Critical : Doing(q)' <=> q = to
<1> DEFINE f == [Top(t) EXCEPT !.pc = to]
<1>1. stack[t] # <<>> /\ owner = <<t, Depth(t)>>
  BY OwnerFacts
<1>2. f \in Frames /\ f.pc = to
  BY <1>1, TopFacts DEF IInv, Frames
<1>3. Put(t, f)
  BY DEF Goto
<1> HIDE DEF f
<1> QED
  BY <1>1, <1>2, <1>3, DoingPut

\* A handler is not in the critical section when it begins.
LEMMA DoingSignal ==
  ASSUME IInv, NEW t \in Threads, NEW s \in Signals, Signal(t, s)
  PROVE  \A q \in Critical : Doing(q)' <=> Doing(q)
<1> DEFINE f == Frame("run", s, 2)
<1>1. f.pc \notin Critical
  BY DEF Frame, Critical
<1>2. f \in Frames
  BY DEF Frame, Frames, Pcs
<1> HIDE DEF f
<1>3. stack' = [stack EXCEPT ![t] = Append(stack[t], f)]
  BY DEF Signal, f
<1>4. stack[t] \in Seq(Frames)
  BY DEF IInv, TypeOK
<1>5. /\ DOMAIN Append(stack[t], f) = DOMAIN stack[t] \cup {Len(stack[t]) + 1}
      /\ Len(stack[t]) + 1 \notin DOMAIN stack[t]
      /\ \A d \in DOMAIN stack[t] : Append(stack[t], f)[d] = stack[t][d]
      /\ Append(stack[t], f)[Len(stack[t]) + 1] = f
  BY <1>2, <1>4
<1>6. \A u \in Threads : \A d \in DOMAIN stack'[u] :
        \/ d \in DOMAIN stack[u] /\ stack'[u][d] = stack[u][d]
        \/ stack'[u][d] = f
  BY <1>3, <1>5 DEF IInv, TypeOK
<1>7. \A u \in Threads : \A d \in DOMAIN stack[u] :
        d \in DOMAIN stack'[u] /\ stack'[u][d] = stack[u][d]
  BY <1>3, <1>5 DEF IInv, TypeOK
<1> QED
  BY <1>1, <1>6, <1>7 DEF Doing

\* Nobody logs when main starts the threads, nor after it.
LEMMA DoingStart ==
  ASSUME IInv, StartThreads PROVE \A q \in Critical : ~Doing(q) /\ ~Doing(q)'
<1>1. stack[main] # <<>> /\ Top(main).pc = "run" /\ Depth(main) = 1 /\ main \in Threads
  BY ThreadAssumption DEF StartThreads, At
<1>2. stack[main] \in Seq(Frames) /\ Len(stack[main]) = 1 /\ stack[main][1].pc = "run"
  BY <1>1 DEF Top, Depth, IInv, TypeOK
<1>3. \A d \in DOMAIN stack[main] : stack[main][d].pc = "run"
  BY <1>2
<1>4. \A t \in Threads \ {main} : stack[t] = <<>>
  BY DEF IInv, StartInv, StartThreads
<1>5. \A t \in Threads : \A d \in DOMAIN stack[t] : stack[t][d].pc = "run"
  BY <1>3, <1>4
<1>6. /\ stack' = [t \in Threads |-> IF t = main THEN stack[t] ELSE <<Frame("run", OwnCode, 0)>>]
      /\ Frame("run", OwnCode, 0).pc = "run"
  BY DEF StartThreads, Frame
<1>7. \A t \in Threads : \A d \in DOMAIN stack'[t] : stack'[t][d].pc = "run"
  BY <1>3, <1>6
<1> QED
  BY <1>5, <1>7 DEF Doing, Critical

LEMMA DoingBoot ==
  /\ Init => \A q \in Critical : Doing(q) <=> q = "init"
  /\ Boot => \A q \in Critical : Doing(q)' <=> q = "init"
  BY BootingFacts, ThreadAssumption DEF Doing, Init, Boot

LEMMA DoingEnd == ASSUME NEW n, End(n) PROVE \A q : ~Doing(q)'
  BY DEF End, Doing

-----------------------------------------------------------------------------
(* The sizes of the files. *)

\* What the process has written since it opened the log file, and what was there.
Length == Len(file[0]) + Len(buffer)

\* When the process has ended nothing of it is left.
DownInv == ~up => output = "NULL" /\ \A t \in Threads : stack[t] = <<>>

\* s_flog.output is what the owner of the mutex needs it to be.
OutputInv ==
  /\ output = "closed" <=> Doing("shift")
  /\ output # "open" => buffer = <<>>
  /\ Doing("text") \/ Doing("end") => output = "open"
  /\ Doing("init") => output = "NULL"

\* s_flog.currentFileSize is the size of the open file, and only a full file is
\* rotated.
CountInv ==
  /\ output = "open" /\ ~Doing("end") => Length = currentFileSize
  /\ Doing("end") => Length = currentFileSize + 1
  /\ output = "closed" /\ shift > 0 => Len(file[0]) >= maxFileSize

\* As long as no call fails: a rotation that has come to a backup has made room for
\* it, and a line is begun only in a file that is not full.
RoomInv ==
  faults = 0 =>
    /\ output = "closed" /\ shift < maxBackupFiles => file[shift] = <<>>
    /\ maxBackupFiles > 0 =>
         /\ Length < maxFileSize + LINE
         /\ Doing("text") \/ Doing("end") => currentFileSize < maxFileSize

SizeInv == DownInv /\ OutputInv /\ CountInv /\ RoomInv /\ BackupSizes

LEMMA InitSizeInv == Init => SizeInv
<1> SUFFICES ASSUME Init PROVE SizeInv
  OBVIOUS
<1>1. \A q \in Critical : Doing(q) <=> q = "init"
  BY DoingBoot
<1>2. ~Doing("shift") /\ ~Doing("text") /\ ~Doing("end")
  BY <1>1 DEF Critical
<1>3. \A i \in Files : file[i] = <<>>
  BY DEF Init
<1>4. 0 \in Files /\ Length = 0
  BY <1>3, SizeAssumption DEF Files, Length, Init
<1>5. BackupSizes
  BY <1>3 DEF BackupSizes, Exists
<1>6. DownInv /\ OutputInv
  <2>1. up = TRUE /\ output = "NULL" /\ buffer = <<>>
    BY DEF Init
  <2>2. DownInv
    BY <2>1 DEF DownInv
  <2> QED
    BY <1>2, <2>1, <2>2 DEF OutputInv
<1>7. CountInv /\ RoomInv
  BY <1>2, <1>4, SizeAssumption DEF Init, CountInv, RoomInv, LINE
<1> QED
  BY <1>5, <1>6, <1>7 DEF SizeInv

\* The steps that write nothing and leave the file as it is.
LEMMA QuietSizeInv ==
  ASSUME IInv, SizeInv, UNCHANGED <<file, buffer, output, currentFileSize, shift, faults>>,
         DownInv',
         \A q \in {"shift", "text", "end", "init"} : Doing(q)' => Doing(q),
         \A q \in {"shift", "end"} : Doing(q) => Doing(q)'
  PROVE  SizeInv'
<1>1. /\ Doing("shift")' <=> Doing("shift")
      /\ Doing("end")' <=> Doing("end")
      /\ Doing("text")' => Doing("text")
      /\ Doing("init")' => Doing("init")
  OBVIOUS
<1>2. Length' = Length
  BY DEF Length
<1>3. OutputInv' /\ CountInv' /\ RoomInv'
  BY <1>1, <1>2 DEF SizeInv, OutputInv, CountInv, RoomInv
<1>4. BackupSizes'
  BY DEF SizeInv, BackupSizes, Exists
<1> QED
  BY <1>3, <1>4 DEF SizeInv

\* A step of a thread finds the process running, and leaves it so.
LEMMA Running ==
  ASSUME SizeInv, NEW t \in Threads, stack[t] # <<>>, up' = up PROVE DownInv'
  BY DEF SizeInv, DownInv

LEMMA SignalSizeInv ==
  ASSUME IInv, SizeInv, NEW t \in Threads, NEW s \in Signals, Signal(t, s) PROVE SizeInv'
<1>1. \A q \in {"shift", "text", "end", "init"} : Doing(q)' <=> Doing(q)
  BY DoingSignal DEF Critical
<1>2. DownInv'
  BY Running DEF Signal, processVars
<1> QED
  BY <1>1, <1>2, QuietSizeInv DEF Signal, outVars

LEMMA StartThreadsSizeInv == ASSUME IInv, SizeInv, StartThreads PROVE SizeInv'
<1>1. \A q \in {"shift", "text", "end", "init"} : ~Doing(q) /\ ~Doing(q)'
  BY DoingStart DEF Critical
<1>2. DownInv'
  BY ThreadAssumption, Running DEF StartThreads, At
<1> QED
  BY <1>1, <1>2, QuietSizeInv DEF StartThreads, outVars

LEMMA LockSizeInv == ASSUME IInv, SizeInv, NEW t \in Threads, Lock(t) PROVE SizeInv'
<1> DEFINE to == IF fileLogger THEN "rotate" ELSE "unlock"
           f == [Top(t) EXCEPT !.pc = to, !.num = serial + 1]
<1>1. stack[t] # <<>> /\ owner = Nobody /\ Put(t, f)
  BY DEF Lock, At, Free
<1>2. f \in Frames /\ f.pc = to /\ to \in {"rotate", "unlock"}
  <2>1. Top(t) \in Frames /\ serial + 1 \in Nat
    BY <1>1, TopFacts DEF IInv, TypeOK
  <2> QED
    BY <2>1 DEF Frames, Pcs, Critical
<1> HIDE DEF f, to
<1>3. \A q \in {"shift", "text", "end", "init"} : ~Doing(q) /\ ~Doing(q)'
  BY <1>1, <1>2, DoingNothing, DoingPut DEF Critical
<1>4. DownInv'
  BY <1>1, Running DEF Lock, processVars
<1> QED
  BY <1>3, <1>4, QuietSizeInv DEF Lock, outVars

LEMMA UnlockSizeInv == ASSUME IInv, SizeInv, NEW t \in Threads, Unlock(t) PROVE SizeInv'
<1> DEFINE left == IF Top(t).left > 0 THEN Top(t).left - 1 ELSE 0
           f == [Top(t) EXCEPT !.pc = "run", !.num = 0, !.left = left]
<1>1. "unlock" \in Critical /\ At(t, "unlock") /\ Put(t, f)
  BY DEF Critical, Unlock
<1>2. stack[t] # <<>> /\ owner = <<t, Depth(t)>>
  BY <1>1, OwnerFacts
<1>3. f \in Frames /\ f.pc = "run"
  <2>1. Top(t) \in Frames
    BY <1>2, TopFacts DEF IInv
  <2>2. left \in 0 .. 2
    BY <2>1 DEF Frames
  <2> HIDE DEF left
  <2> QED
    BY <2>1, <2>2 DEF Frames, Pcs
<1> HIDE DEF f
<1>4. \A q \in Critical : Doing(q) <=> q = "unlock"
  BY <1>1, DoingFacts
<1>5. \A q \in Critical : Doing(q)' <=> q = "run"
  BY <1>2, <1>1, <1>3, DoingPut
<1>6. \A q \in {"shift", "text", "end", "init"} : ~Doing(q) /\ ~Doing(q)'
  BY <1>4, <1>5 DEF Critical
<1>7. DownInv'
  BY <1>2, Running DEF Unlock, processVars
<1> QED
  BY <1>6, <1>7, QuietSizeInv DEF Unlock, outVars

\* The types that the sizes are counted with.
LEMMA SizeTypes ==
  ASSUME IInv
  PROVE  /\ 0 \in Files /\ file \in [Files -> Seq(Nat)] /\ file[0] \in Seq(Nat)
         /\ buffer \in Seq(Nat) /\ Len(buffer) \in Nat /\ Len(file[0]) \in Nat
         /\ currentFileSize \in Nat /\ Length \in Nat /\ shift \in Files /\ shift \in Nat
         /\ maxFileSize \in Nat \ {0} /\ maxBackupFiles \in Nat /\ faults \in Nat
<1>1. 0 \in Files /\ Files \subseteq Nat /\ maxBackupFiles \in Nat
  BY SizeAssumption DEF Files
<1>2. /\ file \in [Files -> Seq(Nat)] /\ buffer \in Seq(Nat) /\ currentFileSize \in Nat
      /\ shift \in Files /\ faults \in 0 .. MaxFaults
  BY DEF IInv, TypeOK
<1>3. file[0] \in Seq(Nat)
  BY <1>1, <1>2
<1>4. Len(buffer) \in Nat /\ Len(file[0]) \in Nat
  BY <1>2, <1>3
<1>5. Length \in Nat
  BY <1>4 DEF Length
<1> QED
  BY <1>1, <1>2, <1>3, <1>4, <1>5, SizeAssumption, BoundAssumption

\* A failed call is one of those counted.
LEMMA FaultGrows ==
  ASSUME TypeOK, NEW failed \in BOOLEAN, Fault(failed)
  PROVE  (faults' = 0) <=> (faults = 0 /\ ~failed)
<1>1. faults \in Nat
  BY BoundAssumption DEF TypeOK
<1> QED
  BY <1>1 DEF Fault

\* logger_initFileLogger: nothing is buffered yet, and the size is that of the file.
LEMMA InitFileLoggerSizeInv ==
  ASSUME IInv, SizeInv, NEW ok \in BOOLEAN, InitFileLogger(ok) PROVE SizeInv'
<1>1. "init" \in Critical /\ At(main, "init") /\ main \in Threads /\ Goto(main, "run")
  BY ThreadAssumption DEF Critical, InitFileLogger
<1>2. \A q \in Critical : Doing(q) <=> q = "init"
  BY <1>1, DoingFacts
<1>3. \A q \in Critical : Doing(q)' <=> q = "run"
  BY <1>1, DoingGoto DEF Pcs
<1>4. Doing("init") /\ \A q \in {"shift", "text", "end", "init"} : ~Doing(q)'
  BY <1>2, <1>3 DEF Critical
<1>5. output = "NULL" /\ buffer = <<>> /\ buffer' = buffer /\ file' = file
  BY <1>4 DEF SizeInv, OutputInv, InitFileLogger
<1>6. DownInv'
  BY <1>1, Running DEF InitFileLogger, processVars, At
<1>7. OutputInv'
  BY <1>4, <1>5 DEF OutputInv, InitFileLogger
<1>8. Len(buffer) = 0 /\ Length' = Length /\ Length = Len(file[0])
  BY <1>5, SizeTypes DEF Length
<1>9. CountInv'
  BY <1>4, <1>8 DEF CountInv, InitFileLogger, OpenedSize
<1>10. faults' = 0 => faults = 0
  BY FaultGrows DEF IInv, InitFileLogger
<1>11. RoomInv'
  BY <1>4, <1>7, <1>8, <1>10 DEF SizeInv, RoomInv, OutputInv
<1>12. BackupSizes'
  BY <1>5, <1>10 DEF SizeInv, BackupSizes, Exists
<1> QED
  BY <1>6, <1>7, <1>9, <1>11, <1>12 DEF SizeInv

\* A line is begun only when the file is not full.
LEMMA NoRotationSizeInv == ASSUME IInv, SizeInv, NEW t \in Threads, NoRotation(t) PROVE SizeInv'
<1> DEFINE to == IF output = "NULL" THEN "unlock" ELSE "text"
<1>1. "rotate" \in Critical /\ At(t, "rotate") /\ Goto(t, to) /\ to \in Pcs
  BY DEF Critical, NoRotation, Pcs
<1> HIDE DEF to
<1>2. \A q \in Critical : Doing(q) <=> q = "rotate"
  BY <1>1, DoingFacts
<1>3. \A q \in Critical : Doing(q)' <=> q = to
  BY <1>1, DoingGoto
<1>4. /\ \A q \in {"shift", "text", "end", "init"} : ~Doing(q)
      /\ \A q \in {"shift", "end", "init"} : ~Doing(q)'
      /\ Doing("text")' => output # "NULL"
  BY <1>2, <1>3 DEF Critical, to
<1>5. UNCHANGED <<file, buffer, output, currentFileSize, shift, faults>>
  BY DEF NoRotation, outVars
<1>6. DownInv'
  BY <1>1, Running DEF NoRotation, processVars, At
<1>7. OutputInv'
  BY <1>4, <1>5 DEF SizeInv, OutputInv, IInv, TypeOK
<1>8. CountInv'
  BY <1>4, <1>5 DEF SizeInv, CountInv, Length
<1>9. currentFileSize < maxFileSize
  BY SizeTypes DEF NoRotation, Full
<1>10. RoomInv'
  BY <1>5, <1>9 DEF SizeInv, RoomInv, Length
<1>11. BackupSizes'
  BY <1>5 DEF SizeInv, BackupSizes, Exists
<1> QED
  BY <1>6, <1>7, <1>8, <1>10, <1>11 DEF SizeInv

\* What is buffered goes to the file that is to become a backup.
LEMMA BeginRotationSizeInv ==
  ASSUME IInv, SizeInv, NEW t \in Threads, BeginRotation(t) PROVE SizeInv'
<1>1. "rotate" \in Critical /\ At(t, "rotate") /\ Goto(t, "shift") /\ "shift" \in Pcs
  BY DEF Critical, BeginRotation, Pcs
<1>2. \A q \in Critical : Doing(q) <=> q = "rotate"
  BY <1>1, DoingFacts
<1>3. \A q \in Critical : Doing(q)' <=> q = "shift"
  BY <1>1, DoingGoto
<1>4. /\ \A q \in {"shift", "text", "end", "init"} : ~Doing(q)
      /\ \A q \in {"text", "end", "init"} : ~Doing(q)'
      /\ Doing("shift")'
  BY <1>2, <1>3 DEF Critical
<1>5. output = "open"
  BY <1>4 DEF SizeInv, OutputInv, BeginRotation, IInv, TypeOK
<1>6. Length = currentFileSize /\ currentFileSize >= maxFileSize
  BY <1>4, <1>5 DEF SizeInv, CountInv, BeginRotation, Full
<1>7. file' = [file EXCEPT ![0] = file[0] \o buffer] /\ buffer' = <<>> /\ faults' = faults
      /\ output' = "closed" /\ shift' = maxBackupFiles
  BY DEF BeginRotation
<1>8. file'[0] = file[0] \o buffer /\ \A i \in Files \ {0} : file'[i] = file[i]
  BY <1>7, SizeTypes
<1>9. Len(file'[0]) = Length /\ Len(buffer') = 0 /\ Length' = Length
  <2>1. Len(file[0] \o buffer) = Len(file[0]) + Len(buffer)
    BY SizeTypes, ConcatProperties
  <2> QED
    BY <1>7, <1>8, <2>1, SizeTypes DEF Length
<1>10. DownInv'
  BY <1>1, Running DEF BeginRotation, processVars, At
<1>11. OutputInv'
  BY <1>4, <1>7 DEF OutputInv
<1>12. CountInv'
  BY <1>4, <1>6, <1>7, <1>9 DEF CountInv
<1>13. RoomInv'
  BY <1>4, <1>7, <1>9, SizeTypes DEF SizeInv, RoomInv
<1>14. BackupSizes'
  BY <1>7, <1>8 DEF SizeInv, BackupSizes, Exists
<1> QED
  BY <1>10, <1>11, <1>12, <1>13, <1>14 DEF SizeInv

\* One turn of the loop: what moves on moves to the next older place.
LEMMA ShiftFiles ==
  ASSUME IInv, NEW t, NEW removed \in BOOLEAN, NEW renamed \in BOOLEAN,
         Shift(t, removed, renamed)
  PROVE  /\ shift \in Files /\ shift - 1 \in Files /\ shift > 0 /\ shift' = shift - 1
         /\ \A i \in Files \ {shift, shift - 1} : file'[i] = file[i]
         /\ \/ file'[shift] = file[shift - 1] /\ file'[shift - 1] = <<>>
            \/ file'[shift - 1] = file[shift - 1] /\ file'[shift] \in {file[shift], <<>>}
         /\ removed /\ renamed =>
              file'[shift] = file[shift - 1] /\ file'[shift - 1] = <<>>
<1>1. /\ file \in [Files -> Seq(Nat)] /\ shift \in Files /\ shift - 1 \in Files /\ shift > 0
      /\ shift # shift - 1 /\ shift' = shift - 1
  BY SizeTypes DEF Files, Shift
<1>2. CASE Exists(shift - 1) /\ renamed
  BY <1>1, <1>2 DEF Shift, Moved
<1>3. CASE ~(Exists(shift - 1) /\ renamed)
  <2>1. \/ removed /\ file' = [file EXCEPT ![shift] = <<>>]
        \/ ~removed /\ file' = file
    BY <1>3 DEF Shift, Moved
  <2>2. renamed => file[shift - 1] = <<>>
    BY <1>3 DEF Exists
  <2> QED
    BY <1>1, <2>1, <2>2
<1> QED
  BY <1>1, <1>2, <1>3

\* The log file gets to be a backup only when a rotation has found it full.
LEMMA ShiftSizeInv ==
  ASSUME IInv, SizeInv, NEW t \in Threads, NEW removed \in BOOLEAN, NEW renamed \in BOOLEAN,
         Shift(t, removed, renamed)
  PROVE  SizeInv'
<1>1. "shift" \in Critical /\ At(t, "shift")
  BY DEF Critical, Shift
<1>2. \A q \in {"text", "end", "init"} : ~Doing(q)
  BY <1>1, DoingFacts DEF Critical
<1>3. Doing("shift")
  BY <1>1, DoingFacts
<1>4. UNCHANGED <<up, stack, output, buffer, currentFileSize>>
  BY DEF Shift, processVars, threadVars, outVars
<1>5. \A q : Doing(q)' <=> Doing(q)
  BY <1>4 DEF Doing
<1>6. /\ shift \in Files /\ shift - 1 \in Files /\ shift > 0 /\ shift' = shift - 1
      /\ \A i \in Files \ {shift, shift - 1} : file'[i] = file[i]
      /\ \/ file'[shift] = file[shift - 1] /\ file'[shift - 1] = <<>>
         \/ file'[shift - 1] = file[shift - 1] /\ file'[shift] \in {file[shift], <<>>}
  BY ShiftFiles
<1>7. faults' = 0 => /\ faults = 0
                     /\ file'[shift] = file[shift - 1] /\ file'[shift - 1] = <<>>
  <2>1. Fault(~removed \/ ~renamed)
    BY DEF Shift
  <2>2. faults' = 0 => faults = 0 /\ removed /\ renamed
    BY <2>1, FaultGrows DEF IInv
  <2> QED
    BY <2>2, ShiftFiles
<1>8. output = "closed" /\ buffer = <<>> /\ Len(file[0]) >= maxFileSize
  BY <1>3, <1>6 DEF SizeInv, OutputInv, CountInv
<1>9. DownInv' /\ OutputInv'
  BY <1>4, <1>5 DEF SizeInv, DownInv, OutputInv
<1>10. 0 \in Files /\ shift \in Nat /\ (shift - 1 > 0 => 0 \notin {shift, shift - 1})
  BY <1>6, SizeTypes
<1>11. CountInv'
  <2>1. shift' > 0 => file'[0] = file[0]
    BY <1>6, <1>10
  <2> QED
    BY <1>2, <1>4, <1>5, <1>8, <2>1 DEF CountInv
<1>12. RoomInv'
  <2> SUFFICES ASSUME faults' = 0 PROVE RoomInv'
    BY DEF RoomInv
  <2>1. file'[shift'] = <<>>
    BY <1>6, <1>7
  <2>2. file'[0] = file[0] \/ file'[0] = <<>>
    BY <1>6, <1>7, <1>10
  <2>3. Len(file'[0]) = Len(file[0]) \/ Len(file'[0]) = 0
    BY <2>2
  <2>4. Length' = Length \/ Length' = 0
    <3>1. Len(buffer) = 0 /\ buffer' = buffer
      BY <1>4, <1>8
    <3> QED
      BY <2>3, <3>1, SizeTypes DEF Length
  <2>5. maxBackupFiles > 0 => Length < maxFileSize + LINE
    BY <1>7 DEF SizeInv, RoomInv
  <2>6. 0 < maxFileSize + LINE
    BY SizeTypes DEF LINE
  <2> QED
    BY <1>2, <1>5, <2>1, <2>4, <2>5, <2>6 DEF RoomInv
<1>13. BackupSizes'
  <2> SUFFICES ASSUME NEW i \in Files \ {0}, file'[i] # <<>>
               PROVE  /\ Len(file'[i]) >= maxFileSize
                      /\ faults' = 0 => Len(file'[i]) < maxFileSize + LINE
    BY DEF BackupSizes, Exists
  <2>1. \A j \in Files \ {0} : file[j] # <<>> =>
          /\ Len(file[j]) >= maxFileSize
          /\ faults = 0 => Len(file[j]) < maxFileSize + LINE
    BY DEF SizeInv, BackupSizes, Exists
  <2>2. CASE file'[i] = file[i]
    BY <1>7, <2>1, <2>2
  <2>3. CASE i = shift /\ file'[i] = file[shift - 1]
    <3>1. CASE shift - 1 = 0
      <4>1. maxBackupFiles > 0
        BY <1>6, SizeTypes DEF Files
      <4>2. faults = 0 => Length < maxFileSize + LINE
        BY <4>1 DEF SizeInv, RoomInv
      <4>3. Length = Len(file[0])
        BY <1>8, SizeTypes DEF Length
      <4> QED
        BY <1>7, <1>8, <2>3, <3>1, <4>2, <4>3
    <3>2. CASE shift - 1 # 0
      BY <1>6, <1>7, <2>1, <2>3, <3>2
    <3> QED
      BY <3>1, <3>2
  <2> QED
    BY <1>6, <2>2, <2>3
<1> QED
  BY <1>9, <1>11, <1>12, <1>13 DEF SizeInv

\* The new file is empty unless something failed, or there is no backup at all.
LEMMA ReopenSizeInv ==
  ASSUME IInv, SizeInv, NEW t \in Threads, NEW ok \in BOOLEAN, Reopen(t, ok) PROVE SizeInv'
<1>1. /\ "shift" \in Critical /\ At(t, "shift") /\ Goto(t, AfterReopen(ok))
      /\ AfterReopen(ok) \in Pcs
  BY DEF Critical, Reopen, AfterReopen, Pcs
<1>2. Doing("shift")
  BY <1>1, DoingFacts
<1>3. \A q \in Critical : Doing(q)' <=> q = AfterReopen(ok)
  BY <1>1, DoingGoto
<1>4. /\ \A q \in {"shift", "end", "init"} : ~Doing(q)'
      /\ Doing("text")' => ok
  BY <1>3 DEF Critical, AfterReopen
<1>5. output = "closed" /\ buffer = <<>> /\ shift = 0
  BY <1>2 DEF SizeInv, OutputInv, Reopen
<1>6. /\ UNCHANGED <<up, file, buffer, shift>>
      /\ output' = IF ok THEN "open" ELSE "NULL"
      /\ ok => currentFileSize' = Len(file[0])
  BY DEF Reopen, processVars, OpenedSize
<1>7. Len(buffer) = 0 /\ Length' = Length /\ Length = Len(file[0])
  BY <1>5, <1>6, SizeTypes DEF Length
<1>8. faults' = 0 => faults = 0 /\ ok
  BY FaultGrows DEF IInv, Reopen
<1>9. DownInv'
  BY <1>1, <1>6, Running DEF At
<1>10. OutputInv'
  BY <1>4, <1>5, <1>6 DEF OutputInv
<1>11. CountInv'
  BY <1>4, <1>6, <1>7 DEF CountInv
<1>12. RoomInv'
  <2> SUFFICES ASSUME faults' = 0, maxBackupFiles > 0
               PROVE  Length' < maxFileSize + LINE /\ currentFileSize' < maxFileSize
    BY <1>6 DEF RoomInv
  <2>1. file[0] = <<>>
    BY <1>5, <1>8 DEF SizeInv, RoomInv
  <2>2. Length' = 0 /\ currentFileSize' = 0
    BY <1>6, <1>7, <1>8, <2>1
  <2> QED
    BY <2>2, SizeTypes DEF LINE
<1>13. BackupSizes'
  BY <1>6, <1>8 DEF SizeInv, BackupSizes, Exists
<1> QED
  BY <1>9, <1>10, <1>11, <1>12, <1>13 DEF SizeInv

LEMMA WriteTextSizeInv == ASSUME IInv, SizeInv, NEW t \in Threads, WriteText(t) PROVE SizeInv'
<1>1. /\ "text" \in Critical /\ At(t, "text") /\ Goto(t, "end") /\ "end" \in Pcs
  BY DEF Critical, WriteText, Pcs
<1>2. Doing("text") /\ ~Doing("end")
  BY <1>1, DoingFacts DEF Critical
<1>3. /\ \A q \in {"shift", "text", "init"} : ~Doing(q)'
      /\ Doing("end")'
  BY <1>1, DoingGoto DEF Critical
<1>4. output = "open" /\ Length = currentFileSize
  BY <1>2 DEF SizeInv, OutputInv, CountInv
<1>5. /\ UNCHANGED <<up, file, output, currentFileSize, shift, faults>>
      /\ buffer' = Append(buffer, Top(t).num) /\ Top(t).num \in Nat
  BY <1>1, TopFacts DEF WriteText, processVars, IInv, At, Frames
<1>6. Len(buffer') = Len(buffer) + 1
  BY <1>5, SizeTypes
<1>7. Length' = Length + 1
  BY <1>5, <1>6, SizeTypes DEF Length
<1>8. DownInv'
  BY <1>1, <1>5, Running DEF At
<1>9. OutputInv' /\ CountInv'
  BY <1>3, <1>4, <1>5, <1>7 DEF OutputInv, CountInv
<1>10. RoomInv'
  <2> SUFFICES ASSUME faults = 0, maxBackupFiles > 0
               PROVE  Length' < maxFileSize + LINE /\ currentFileSize' < maxFileSize
    BY <1>4, <1>5 DEF RoomInv
  <2>1. currentFileSize < maxFileSize
    BY <1>2 DEF SizeInv, RoomInv
  <2> QED
    BY <1>4, <1>5, <1>7, <2>1, SizeTypes DEF LINE
<1>11. BackupSizes'
  BY <1>5 DEF SizeInv, BackupSizes, Exists
<1> QED
  BY <1>8, <1>9, <1>10, <1>11 DEF SizeInv

LEMMA WriteEndSizeInv == ASSUME IInv, SizeInv, NEW t \in Threads, WriteEnd(t) PROVE SizeInv'
<1>1. /\ "end" \in Critical /\ At(t, "end") /\ Goto(t, "unlock") /\ "unlock" \in Pcs
  BY DEF Critical, WriteEnd, Pcs
<1>2. Doing("end")
  BY <1>1, DoingFacts
<1>3. \A q \in {"shift", "text", "init", "end"} : ~Doing(q)'
  BY <1>1, DoingGoto DEF Critical
<1>4. output = "open" /\ Length = currentFileSize + 1
  BY <1>2 DEF SizeInv, OutputInv, CountInv
<1>5. /\ UNCHANGED <<up, file, output, shift, faults>> /\ currentFileSize' = currentFileSize + 2
      /\ buffer' = Append(buffer, Top(t).num) /\ Top(t).num \in Nat
  BY <1>1, TopFacts DEF WriteEnd, processVars, IInv, At, Frames, LINE
<1>6. Len(buffer') = Len(buffer) + 1
  BY <1>5, SizeTypes
<1>7. Length' = Length + 1
  BY <1>5, <1>6, SizeTypes DEF Length
<1>8. DownInv'
  BY <1>1, <1>5, Running DEF At
<1>9. Length' = currentFileSize'
  BY <1>4, <1>5, <1>7, SizeTypes
<1>10. OutputInv' /\ CountInv'
  BY <1>3, <1>4, <1>5, <1>9 DEF OutputInv, CountInv
<1>11. RoomInv'
  <2> SUFFICES ASSUME faults = 0, maxBackupFiles > 0 PROVE Length' < maxFileSize + LINE
    BY <1>3, <1>4, <1>5 DEF RoomInv
  <2>1. currentFileSize < maxFileSize
    BY <1>2 DEF SizeInv, RoomInv
  <2> QED
    BY <1>4, <1>7, <2>1, SizeTypes DEF LINE
<1>12. BackupSizes'
  BY <1>5 DEF SizeInv, BackupSizes, Exists
<1> QED
  BY <1>8, <1>10, <1>11, <1>12 DEF SizeInv

LEMMA EndSizeInv ==
  ASSUME IInv, SizeInv, NEW n \in 0 .. Len(buffer), End(n) PROVE SizeInv'
<1>1. \A q : ~Doing(q)'
  BY DoingEnd
<1>2. /\ file' = [file EXCEPT ![0] = file[0] \o SubSeq(buffer, 1, n)] /\ buffer' = <<>>
      /\ output' = "NULL" /\ shift' = 0 /\ faults' = faults
      /\ stack' = [t \in Threads |-> <<>>]
  BY DEF End
<1>3. /\ file'[0] = file[0] \o SubSeq(buffer, 1, n)
      /\ \A i \in Files \ {0} : file'[i] = file[i]
  BY <1>2, SizeTypes
<1>4. Length' <= Length /\ Length' \in Int
  <2>1. SubSeq(buffer, 1, n) \in Seq(Nat) /\ Len(SubSeq(buffer, 1, n)) = n
    BY SizeTypes
  <2>2. Len(file'[0]) = Len(file[0]) + n
    BY <1>3, <2>1, SizeTypes, ConcatProperties
  <2>3. Len(buffer') = 0
    BY <1>2
  <2> QED
    BY <2>2, <2>3, SizeTypes DEF Length
<1>5. DownInv'
  BY <1>2 DEF DownInv
<1>6. OutputInv' /\ CountInv'
  BY <1>1, <1>2 DEF OutputInv, CountInv
<1>8. RoomInv'
  <2> SUFFICES ASSUME faults = 0, maxBackupFiles > 0 PROVE Length' < maxFileSize + LINE
    BY <1>1, <1>2 DEF RoomInv
  <2>1. Length < maxFileSize + LINE
    BY DEF SizeInv, RoomInv
  <2> QED
    BY <1>4, <2>1, SizeTypes DEF LINE
<1>9. BackupSizes'
  BY <1>2, <1>3 DEF SizeInv, BackupSizes, Exists
<1> QED
  BY <1>5, <1>6, <1>8, <1>9 DEF SizeInv

LEMMA BootSizeInv == ASSUME IInv, SizeInv, Boot PROVE SizeInv'
<1>1. \A q \in {"shift", "text", "end"} : ~Doing(q)'
  BY DoingBoot DEF Critical
<1>2. ~up /\ up' = TRUE /\ UNCHANGED <<file, buffer, output, currentFileSize, shift, faults>>
  BY DEF Boot, outVars
<1>3. output = "NULL"
  BY <1>2 DEF SizeInv, DownInv
<1>4. DownInv'
  BY <1>2 DEF DownInv
<1>5. OutputInv' /\ CountInv'
  BY <1>1, <1>2, <1>3 DEF SizeInv, OutputInv, CountInv
<1>6. RoomInv'
  BY <1>1, <1>2, <1>3 DEF SizeInv, RoomInv, Length
<1>7. BackupSizes'
  BY <1>2 DEF SizeInv, BackupSizes, Exists
<1> QED
  BY <1>4, <1>5, <1>6, <1>7 DEF SizeInv

LEMMA NextSizeInv == IInv /\ SizeInv /\ [Next]_vars => SizeInv'
<1> SUFFICES ASSUME IInv, SizeInv, [Next]_vars PROVE SizeInv'
  OBVIOUS
<1>1. Len(buffer) \in 0 .. Len(buffer)
  BY SizeTypes
<1>2. CASE UNCHANGED vars
  <2>1. \A q : Doing(q)' <=> Doing(q)
    BY <1>2 DEF Doing, vars, threadVars
  <2>2. DownInv'
    BY <1>2 DEF SizeInv, DownInv, vars, processVars, threadVars, outVars
  <2> QED
    BY <1>2, <2>1, <2>2, QuietSizeInv DEF vars, processVars, threadVars, outVars
<1>3. ASSUME NEW t \in Threads, Step(t) PROVE SizeInv'
  <2>1. CASE Lock(t)
    BY <2>1, LockSizeInv
  <2>2. CASE Exit(t)
    BY <1>1, <2>2, EndSizeInv DEF Exit
  <2>3. CASE \E s \in Signals : Signal(t, s)
    BY <2>3, SignalSizeInv
  <2>4. CASE Progress(t)
    <3>1. CASE \E ok \in BOOLEAN : t = main /\ InitFileLogger(ok)
      BY <3>1, InitFileLoggerSizeInv
    <3>2. CASE NoRotation(t)
      BY <3>2, NoRotationSizeInv
    <3>3. CASE BeginRotation(t)
      BY <3>3, BeginRotationSizeInv
    <3>4. CASE \E removed, renamed \in BOOLEAN : Shift(t, removed, renamed)
      BY <3>4, ShiftSizeInv
    <3>5. CASE \E ok \in BOOLEAN : Reopen(t, ok)
      BY <3>5, ReopenSizeInv
    <3>6. CASE WriteText(t)
      BY <3>6, WriteTextSizeInv
    <3>7. CASE WriteEnd(t)
      BY <3>7, WriteEndSizeInv
    <3>8. CASE Unlock(t)
      BY <3>8, UnlockSizeInv
    <3>9. CASE ExitHandler(t)
      BY <1>1, <3>9, EndSizeInv DEF ExitHandler
    <3>10. CASE \E n \in 0 .. Len(buffer) : CloseNull(t, n)
      BY <3>10, EndSizeInv DEF CloseNull
    <3> QED
      BY <2>1, <2>4, <3>1, <3>2, <3>3, <3>4, <3>5, <3>6, <3>7, <3>8, <3>9, <3>10 DEF Progress
  <2> QED
    BY <1>3, <2>1, <2>2, <2>3, <2>4 DEF Step
<1>4. CASE StartThreads
  BY <1>4, StartThreadsSizeInv
<1>5. CASE \E n \in 0 .. Len(buffer) : Crash(n)
  BY <1>5, EndSizeInv DEF Crash
<1>6. CASE Boot
  BY <1>6, BootSizeInv
<1> QED
  BY <1>2, <1>3, <1>4, <1>5, <1>6 DEF Next

LEMMA SizeInvariance == Spec => [](IInv /\ SizeInv)
<1>1. Init => IInv /\ SizeInv
  BY InitIInv, InitSizeInv
<1>2. (IInv /\ SizeInv) /\ [Next]_vars => (IInv /\ SizeInv)'
  BY NextIInv, NextSizeInv
<1> QED
  BY <1>1, <1>2, PTL DEF Spec

-----------------------------------------------------------------------------
(* The log as one sequence. *)

\* LogFrom of any files f and any buffer b.
From(f, b, N) ==
  LET from[i \in 0 .. N] == IF i = 0 THEN f[0] \o b ELSE f[i] \o from[i - 1] IN from

\* The recursive definition is that of a function.
LEMMA FromDef ==
  ASSUME NEW N \in Nat, NEW f, NEW b
  PROVE  From(f, b, N) = [i \in 0 .. N |-> IF i = 0 THEN f[0] \o b
                                           ELSE f[i] \o From(f, b, N)[i - 1]]
<1> DEFINE Solves(g, n) == g = [i \in 0 .. n |-> IF i = 0 THEN f[0] \o b ELSE f[i] \o g[i - 1]]
           S == {n \in 0 .. N : \E g : Solves(g, n)}
<1>1. 0 \in S
  <2> DEFINE g == [i \in 0 .. 0 |-> f[0] \o b]
  <2>1. Solves(g, 0)
    OBVIOUS
  <2> HIDE DEF Solves, g
  <2> QED
    BY <2>1
<1>2. ASSUME NEW n \in 0 .. N - 1, n \in S PROVE n + 1 \in S
  <2>1. PICK g : Solves(g, n)
    BY <1>2
  <2> DEFINE h == [i \in 0 .. n + 1 |-> IF i = n + 1 THEN f[n + 1] \o g[n] ELSE g[i]]
             r == [i \in 0 .. n + 1 |-> IF i = 0 THEN f[0] \o b ELSE f[i] \o h[i - 1]]
  <2>2. \A i \in 0 .. n : g[i] = IF i = 0 THEN f[0] \o b ELSE f[i] \o g[i - 1]
    BY <2>1
  <2> HIDE DEF Solves
  <2>3. ASSUME NEW i \in 0 .. n + 1 PROVE h[i] = r[i]
    <3>1. CASE i = n + 1
      <4>1. i # 0 /\ i - 1 = n /\ h[i - 1] = g[n] /\ h[i] = f[i] \o g[n]
        BY <3>1
      <4> QED
        BY <4>1
    <3>2. CASE i # n + 1 /\ i # 0
      <4>1. i \in 0 .. n /\ i - 1 \in 0 .. n /\ h[i] = g[i] /\ h[i - 1] = g[i - 1]
        BY <3>2
      <4> QED
        BY <2>2, <3>2, <4>1
    <3>3. CASE i = 0
      <4>1. 0 \in 0 .. n /\ 0 \in 0 .. n + 1 /\ 0 # n + 1
        OBVIOUS
      <4>2. h[0] = g[0] /\ r[0] = f[0] \o b /\ g[0] = f[0] \o b
        BY <2>2, <4>1
      <4> QED
        BY <3>3, <4>2
    <3> QED
      BY <3>1, <3>2, <3>3
  <2>4. h = r
    <3>1. DOMAIN h = 0 .. n + 1 /\ DOMAIN r = 0 .. n + 1
      OBVIOUS
    <3> QED
      BY <2>3
  <2>5. Solves(h, n + 1)
    BY <2>4 DEF Solves
  <2> QED
    BY <2>5
<1>3. N \in S
  <2> HIDE DEF S
  <2>1. \A n \in 0 .. N : n \in S
    BY <1>1, <1>2, InductionTo
  <2> QED
    BY <2>1
<1>4. \E g : Solves(g, N)
  BY <1>3
<1>5. From(f, b, N) = CHOOSE g : Solves(g, N)
  BY DEF From
<1> HIDE DEF Solves
<1>6. Solves(From(f, b, N), N)
  BY <1>4, <1>5
<1> QED
  BY <1>6 DEF Solves

LEMMA FromFacts ==
  ASSUME NEW N \in Nat, NEW f \in [0 .. N -> Seq(Nat)], NEW b \in Seq(Nat)
  PROVE  /\ From(f, b, N)[0] = f[0] \o b
         /\ \A i \in 0 .. N - 1 : From(f, b, N)[i + 1] = f[i + 1] \o From(f, b, N)[i]
         /\ \A i \in 0 .. N : From(f, b, N)[i] \in Seq(Nat)
<1> DEFINE g == From(f, b, N)
<1>1. g = [i \in 0 .. N |-> IF i = 0 THEN f[0] \o b ELSE f[i] \o g[i - 1]]
  BY FromDef
<1> HIDE DEF g
<1>2. \A i \in 0 .. N : g[i] = IF i = 0 THEN f[0] \o b ELSE f[i] \o g[i - 1]
  BY <1>1
<1>3. g[0] = f[0] \o b
  <2>1. 0 \in 0 .. N
    OBVIOUS
  <2> QED
    BY <1>2, <2>1
<1>4. ASSUME NEW i \in 0 .. N - 1 PROVE g[i + 1] = f[i + 1] \o g[i]
  <2> DEFINE k == i + 1
  <2>1. k \in 0 .. N /\ k # 0 /\ k - 1 = i
    OBVIOUS
  <2> HIDE DEF k
  <2>2. g[k] = f[k] \o g[k - 1]
    BY <1>2, <2>1
  <2> QED
    BY <2>1, <2>2 DEF k
<1> DEFINE S == {i \in 0 .. N : g[i] \in Seq(Nat)}
<1>5. 0 \in S
  <2>1. f[0] \in Seq(Nat) /\ 0 \in 0 .. N
    OBVIOUS
  <2> QED
    BY <1>3, <2>1, ConcatProperties
<1>6. ASSUME NEW i \in 0 .. N - 1, i \in S PROVE i + 1 \in S
  <2>1. i + 1 \in 0 .. N /\ f[i + 1] \in Seq(Nat) /\ g[i] \in Seq(Nat)
    BY <1>6
  <2> QED
    BY <1>4, <2>1, ConcatProperties
<1> HIDE DEF S
<1>7. \A i \in 0 .. N : i \in S
  BY <1>5, <1>6, InductionTo
<1> QED
  BY <1>3, <1>4, <1>7 DEF g, S

LEMMA FromType ==
  ASSUME NEW N \in Nat, NEW f \in [0 .. N -> Seq(Nat)], NEW b \in Seq(Nat)
  PROVE  From(f, b, N)[N] \in Seq(Nat)
<1>1. N \in 0 .. N
  OBVIOUS
<1> QED
  BY <1>1, FromFacts

LEMMA Associative == \A q, r, s \in Seq(Nat) : (q \o r) \o s = q \o (r \o s)
  BY ConcatAssociative

\* Only the newest end differs: the log of f and b is that of g and c, and r.
Continues(f, b, g, c, r, N) ==
  /\ N \in Nat /\ f \in [0 .. N -> Seq(Nat)] /\ g \in [0 .. N -> Seq(Nat)]
  /\ b \in Seq(Nat) /\ c \in Seq(Nat) /\ r \in Seq(Nat)
  /\ f[0] \o b = (g[0] \o c) \o r
  /\ \A i \in 1 .. N : f[i] = g[i]

LEMMA FromTail ==
  ASSUME NEW N, NEW f, NEW b, NEW g, NEW c, NEW r, Continues(f, b, g, c, r, N)
  PROVE  From(f, b, N)[N] = From(g, c, N)[N] \o r
<1> DEFINE F == From(f, b, N)
           G == From(g, c, N)
           S == {i \in 0 .. N : F[i] = G[i] \o r}
<1> USE DEF Continues
<1>1. /\ F[0] = f[0] \o b /\ G[0] = g[0] \o c
      /\ \A i \in 0 .. N - 1 : F[i + 1] = f[i + 1] \o F[i] /\ G[i + 1] = g[i + 1] \o G[i]
      /\ \A i \in 0 .. N : G[i] \in Seq(Nat)
  BY FromFacts
<1> HIDE DEF F, G
<1>2. 0 \in S
  <2>1. 0 \in 0 .. N /\ F[0] = G[0] \o r
    BY <1>1
  <2> QED
    BY <2>1
<1>3. ASSUME NEW i \in 0 .. N - 1, i \in S PROVE i + 1 \in S
  <2>1. i + 1 \in 1 .. N /\ f[i + 1] = g[i + 1] /\ F[i] = G[i] \o r
    BY <1>3
  <2>2. F[i + 1] = f[i + 1] \o F[i] /\ G[i + 1] = g[i + 1] \o G[i]
    BY <1>1
  <2>3. F[i + 1] = g[i + 1] \o (G[i] \o r)
    BY <2>1, <2>2
  <2>4. i + 1 \in 0 .. N /\ g[i + 1] \in Seq(Nat) /\ G[i] \in Seq(Nat)
    BY <1>1
  <2>5. (g[i + 1] \o G[i]) \o r = g[i + 1] \o (G[i] \o r)
    BY <2>4, Associative
  <2> QED
    BY <2>2, <2>3, <2>4, <2>5
<1> HIDE DEF S
<1>4. \A i \in 0 .. N : i \in S
  BY <1>2, <1>3, InductionTo
<1> QED
  BY <1>4 DEF S, F, G

\* Only two neighbouring files differ.
DifferAt(f, g, b, p, N) ==
  /\ N \in Nat /\ f \in [0 .. N -> Seq(Nat)] /\ g \in [0 .. N -> Seq(Nat)]
  /\ b \in Seq(Nat) /\ p \in 0 .. N - 1
  /\ \A i \in (0 .. N) \ {p, p + 1} : g[i] = f[i]

\* They are between what is older and what is newer, which does not differ.
Between(f, g, b, p, N, older, newer) ==
  /\ From(f, b, N)[N] = older \o (f[p + 1] \o (f[p] \o newer))
  /\ From(g, b, N)[N] = older \o (g[p + 1] \o (g[p] \o newer))
  /\ p + 1 = N => older = <<>>

LEMMA FromMoved ==
  ASSUME NEW N, NEW f, NEW g, NEW b, NEW p, DifferAt(f, g, b, p, N)
  PROVE  \E older, newer \in Seq(Nat) : Between(f, g, b, p, N, older, newer)
<1> /\ N \in Nat /\ f \in [0 .. N -> Seq(Nat)] /\ g \in [0 .. N -> Seq(Nat)]
    /\ b \in Seq(Nat) /\ p \in 0 .. N - 1
    /\ \A i \in (0 .. N) \ {p, p + 1} : g[i] = f[i]
  BY DEF DifferAt
<1> DEFINE F == From(f, b, N)
           G == From(g, b, N)
<1>0. /\ 0 \in 0 .. N /\ N \in 0 .. N /\ p \in 0 .. N /\ p + 1 \in 0 .. N
      /\ <<>> \in Seq(Nat) /\ \A q \in Seq(Nat) : <<>> \o q = q
  BY ConcatEmptySeq
<1>1. /\ F[0] = f[0] \o b /\ G[0] = g[0] \o b
      /\ \A i \in 0 .. N - 1 : F[i + 1] = f[i + 1] \o F[i] /\ G[i + 1] = g[i + 1] \o G[i]
      /\ \A i \in 0 .. N : F[i] \in Seq(Nat) /\ G[i] \in Seq(Nat)
  <2>1. /\ F[0] = f[0] \o b
        /\ \A i \in 0 .. N - 1 : F[i + 1] = f[i + 1] \o F[i]
        /\ \A i \in 0 .. N : F[i] \in Seq(Nat)
    BY FromFacts
  <2>2. /\ G[0] = g[0] \o b
        /\ \A i \in 0 .. N - 1 : G[i + 1] = g[i + 1] \o G[i]
        /\ \A i \in 0 .. N : G[i] \in Seq(Nat)
    BY FromFacts
  <2> QED
    BY <2>1, <2>2
<1> HIDE DEF F, G
<1>2. \A i \in 0 .. N : i < p => G[i] = F[i]
  <2> DEFINE S == {i \in 0 .. N : i < p => G[i] = F[i]}
  <2>1. 0 \in S
    <3>1. 0 < p => g[0] = f[0]
      BY <1>0
    <3> QED
      BY <1>0, <1>1, <3>1
  <2>2. ASSUME NEW i \in 0 .. N - 1, i \in S PROVE i + 1 \in S
    <3>1. i + 1 \in 0 .. N /\ (i + 1 < p => i < p /\ i + 1 \in (0 .. N) \ {p, p + 1})
      OBVIOUS
    <3>2. F[i + 1] = f[i + 1] \o F[i] /\ G[i + 1] = g[i + 1] \o G[i]
      BY <1>1
    <3>3. i + 1 < p => G[i + 1] = F[i + 1]
      BY <2>2, <3>1, <3>2
    <3> QED
      BY <3>1, <3>3
  <2> HIDE DEF S
  <2>3. \A i \in 0 .. N : i \in S
    BY <2>1, <2>2, InductionTo
  <2> QED
    BY <2>3 DEF S
<1>3. PICK newer \in Seq(Nat) : F[p] = f[p] \o newer /\ G[p] = g[p] \o newer
  <2>1. CASE p = 0
    BY <1>1, <2>1
  <2>2. CASE p # 0
    <3> DEFINE k == p - 1
    <3>1. k \in 0 .. N - 1 /\ k \in 0 .. N /\ k < p /\ k + 1 = p
      BY <2>2
    <3> HIDE DEF k
    <3>2. F[p] = f[p] \o F[k] /\ G[p] = g[p] \o F[k] /\ F[k] \in Seq(Nat)
      BY <1>1, <1>2, <3>1
    <3> QED
      BY <3>2
  <2> QED
    BY <2>1, <2>2
<1> DEFINE T == {i \in 0 .. N : i >= p + 1 =>
                   \E older \in Seq(Nat) :
                     /\ F[i] = older \o F[p + 1] /\ G[i] = older \o G[p + 1]
                     /\ i = p + 1 => older = <<>>}
<1>4. 0 \in T
  BY <1>0
<1>5. ASSUME NEW i \in 0 .. N - 1, i \in T PROVE i + 1 \in T
  <2> DEFINE k == i + 1
  <2>1. k \in 0 .. N /\ f[k] \in Seq(Nat) /\ F[k] = f[k] \o F[i] /\ G[k] = g[k] \o G[i]
    <3>1. i + 1 \in 0 .. N /\ f[i + 1] \in Seq(Nat)
      OBVIOUS
    <3> QED
      BY <1>1, <3>1
  <2>2. CASE i >= p + 1
    <3>1. PICK older \in Seq(Nat) : F[i] = older \o F[p + 1] /\ G[i] = older \o G[p + 1]
      BY <1>5, <2>2
    <3>2. k \in (0 .. N) \ {p, p + 1} /\ k # p + 1
      BY <2>1, <2>2
    <3> HIDE DEF k
    <3>7. g[k] = f[k]
      BY <3>2
    <3>8. F[p + 1] \in Seq(Nat) /\ G[p + 1] \in Seq(Nat)
      BY <1>0, <1>1
    <3>3. f[k] \o older \in Seq(Nat)
      BY <2>1, ConcatProperties
    <3>4. /\ f[k] \o (older \o F[p + 1]) = (f[k] \o older) \o F[p + 1]
          /\ f[k] \o (older \o G[p + 1]) = (f[k] \o older) \o G[p + 1]
      BY <2>1, <3>8, Associative
    <3>5. F[k] = (f[k] \o older) \o F[p + 1] /\ G[k] = (f[k] \o older) \o G[p + 1]
      BY <2>1, <3>1, <3>4, <3>7
    <3>6. k \in T
      BY <2>1, <3>2, <3>3, <3>5
    <3> QED
      BY <3>6 DEF k
  <2>3. CASE i = p
    <3>1. F[k] = <<>> \o F[p + 1] /\ G[k] = <<>> \o G[p + 1]
      BY <1>0, <1>1, <2>3
    <3> QED
      BY <1>0, <2>1, <2>3, <3>1
  <2>4. CASE i < p
    BY <2>4
  <2>5. i \in Int /\ p \in Int
    OBVIOUS
  <2> HIDE DEF T
  <2> QED
    BY <2>2, <2>3, <2>4, <2>5
<1> HIDE DEF T
<1>6. \A i \in 0 .. N : i \in T
  BY <1>4, <1>5, InductionTo
<1>7. PICK older \in Seq(Nat) : /\ F[N] = older \o F[p + 1] /\ G[N] = older \o G[p + 1]
                                /\ N = p + 1 => older = <<>>
  <2>1. N \in T /\ N >= p + 1
    BY <1>0, <1>6
  <2> QED
    BY <2>1 DEF T
<1>8. F[p + 1] = f[p + 1] \o F[p] /\ G[p + 1] = g[p + 1] \o G[p]
  BY <1>1
<1>9. /\ F[N] = older \o (f[p + 1] \o (f[p] \o newer))
      /\ G[N] = older \o (g[p + 1] \o (g[p] \o newer))
      /\ p + 1 = N => older = <<>>
  BY <1>3, <1>7, <1>8
<1> QED
  BY <1>9 DEF F, G, Between

\* As many full files as there are from the log file to backup k.
LEMMA FromFull ==
  ASSUME NEW N \in Nat, NEW f \in [0 .. N -> Seq(Nat)], NEW b \in Seq(Nat),
         NEW m \in Nat, NEW k \in 0 .. N, \A i \in 0 .. k : Len(f[i]) >= m
  PROVE  Len(From(f, b, N)[k]) >= (k + 1) * m
<1> DEFINE F == From(f, b, N)
           S == {i \in 0 .. k : Len(F[i]) >= (i + 1) * m}
<1>1. /\ F[0] = f[0] \o b
      /\ \A i \in 0 .. N - 1 : F[i + 1] = f[i + 1] \o F[i]
      /\ \A i \in 0 .. N : F[i] \in Seq(Nat)
  BY FromFacts
<1> HIDE DEF F
<1>2. 0 \in S
  <2>1. f[0] \in Seq(Nat) /\ Len(f[0]) \in Nat /\ Len(b) \in Nat /\ Len(f[0]) >= m
    OBVIOUS
  <2>2. Len(F[0]) = Len(f[0]) + Len(b)
    BY <1>1, <2>1, ConcatProperties
  <2>3. Len(F[0]) >= m /\ (0 + 1) * m = m
    BY <2>1, <2>2
  <2> QED
    BY <2>3
<1>3. ASSUME NEW i \in 0 .. k - 1, i \in S PROVE i + 1 \in S
  <2> DEFINE j == i + 1
  <2>1. /\ j \in 0 .. k /\ j \in 0 .. N /\ i \in 0 .. N
        /\ F[j] = f[j] \o F[i] /\ f[j] \in Seq(Nat) /\ F[i] \in Seq(Nat)
    <3>1. i + 1 \in 0 .. k /\ i + 1 \in 0 .. N /\ i \in 0 .. N /\ i \in 0 .. N - 1
      OBVIOUS
    <3> QED
      BY <1>1, <3>1
  <2>2. Len(F[i]) >= j * m
    BY <1>3
  <2>3. (j + 1) * m = j * m + m /\ j * m \in Nat
    <3>1. \A x, y \in Nat : (x + 1) * y = x * y + y /\ x * y \in Nat
      OBVIOUS
    <3> QED
      BY <2>1, <3>1
  <2> HIDE DEF j
  <2>4. Len(F[j]) = Len(f[j]) + Len(F[i]) /\ Len(f[j]) \in Nat /\ Len(F[i]) \in Nat
    BY <2>1, ConcatProperties, LenProperties
  <2>5. Len(f[j]) >= m
    BY <2>1
  <2>6. Len(F[j]) >= (j + 1) * m
    <3> DEFINE x == j * m
               y == (j + 1) * m
    <3>1. Len(F[i]) >= x /\ y = x + m /\ x \in Nat
      BY <2>2, <2>3
    <3> HIDE DEF x, y
    <3>2. m \in Nat
      OBVIOUS
    <3>3. \A u, v \in Nat : u >= m /\ v >= x => u + v >= x + m
      BY ONLY <3>1, <3>2
    <3>4. Len(F[j]) >= x + m
      BY ONLY <2>4, <2>5, <3>1, <3>3
    <3> QED
      BY <3>1, <3>4 DEF y
  <2>7. j \in S
    BY <2>1, <2>6
  <2> QED
    BY <2>7 DEF j
<1> HIDE DEF S
<1>4. \A i \in 0 .. k : i \in S
  <2>1. k \in Nat
    OBVIOUS
  <2> QED
    BY <1>2, <1>3, <2>1, InductionTo
<1>5. k \in 0 .. k
  OBVIOUS
<1> QED
  BY <1>4, <1>5 DEF S, F

-----------------------------------------------------------------------------
(* What follows what in a log. *)

\* One message after the other, except where a process ended.
Linked(s, E) ==
  \A k \in DOMAIN s \ {1} : s[k] \in {s[k - 1], s[k - 1] + 1} \/ s[k] - 1 \in E

\* The log ends with message n, unless a process ended with it.
Reaches(s, n, E) == s # <<>> => s[Len(s)] = n \/ n \in E

LEMMA LinkedPart ==
  ASSUME NEW r \in Seq(Nat), NEW s \in Seq(Nat), NEW E, Linked(r \o s, E)
  PROVE  Linked(r, E) /\ Linked(s, E)
<1> DEFINE c == r \o s
<1>1. /\ c \in Seq(Nat) /\ Len(c) = Len(r) + Len(s)
      /\ \A i \in 1 .. Len(r) + Len(s) : c[i] = IF i <= Len(r) THEN r[i] ELSE s[i - Len(r)]
  BY ConcatProperties
<1>2. /\ DOMAIN r = 1 .. Len(r) /\ DOMAIN s = 1 .. Len(s) /\ DOMAIN c = 1 .. Len(r) + Len(s)
      /\ Len(r) \in Nat /\ Len(s) \in Nat
  BY <1>1
<1>3. \A k \in DOMAIN c \ {1} : c[k] \in {c[k - 1], c[k - 1] + 1} \/ c[k] - 1 \in E
  BY DEF Linked
<1> HIDE DEF c
<1>4. Linked(r, E)
  <2> SUFFICES ASSUME NEW k \in 1 .. Len(r), k # 1
               PROVE  r[k] \in {r[k - 1], r[k - 1] + 1} \/ r[k] - 1 \in E
    BY <1>2 DEF Linked
  <2>1. k \in DOMAIN c \ {1} /\ k - 1 \in 1 .. Len(r) + Len(s)
    BY <1>2
  <2>2. c[k] = r[k] /\ c[k - 1] = r[k - 1]
    BY <1>1, <1>2, <2>1
  <2> QED
    BY <1>3, <2>1, <2>2
<1>5. Linked(s, E)
  <2> SUFFICES ASSUME NEW k \in 1 .. Len(s), k # 1
               PROVE  s[k] \in {s[k - 1], s[k - 1] + 1} \/ s[k] - 1 \in E
    BY <1>2 DEF Linked
  <2> DEFINE i == Len(r) + k
  <2>1. i \in DOMAIN c \ {1} /\ i - 1 \in 1 .. Len(r) + Len(s) /\ i \in 1 .. Len(r) + Len(s)
        /\ ~(i <= Len(r)) /\ ~(i - 1 <= Len(r)) /\ i - Len(r) = k /\ i - 1 - Len(r) = k - 1
    BY <1>2
  <2> HIDE DEF i
  <2>2. c[i] = s[k] /\ c[i - 1] = s[k - 1]
    BY <1>1, <2>1
  <2> QED
    BY <1>3, <2>1, <2>2
<1> QED
  BY <1>4, <1>5

LEMMA LinkedAppend ==
  ASSUME NEW s \in Seq(Nat), NEW n \in Nat, NEW E, Linked(s, E),
         s # <<>> => n \in {s[Len(s)], s[Len(s)] + 1} \/ n - 1 \in E
  PROVE  Linked(s \o <<n>>, E) /\ Reaches(s \o <<n>>, n, {}) /\ s \o <<n>> \in Seq(Nat)
<1> DEFINE c == s \o <<n>>
<1>0. <<n>> \in Seq(Nat) /\ Len(<<n>>) = 1 /\ <<n>>[1] = n
  OBVIOUS
<1>1. /\ c \in Seq(Nat) /\ Len(c) = Len(s) + 1
      /\ \A i \in 1 .. Len(s) + 1 : c[i] = IF i <= Len(s) THEN s[i] ELSE <<n>>[i - Len(s)]
  BY <1>0, ConcatProperties
<1>2. DOMAIN s = 1 .. Len(s) /\ Len(s) \in Nat /\ (s # <<>> <=> Len(s) # 0)
  OBVIOUS
<1>3. DOMAIN c = 1 .. Len(s) + 1
  BY <1>1
<1> HIDE DEF c
<1>4. c[Len(s) + 1] = n /\ \A i \in 1 .. Len(s) : c[i] = s[i]
  BY <1>0, <1>1, <1>2
<1>5. ASSUME NEW k \in 1 .. Len(s) + 1, k # 1
      PROVE  c[k] \in {c[k - 1], c[k - 1] + 1} \/ c[k] - 1 \in E
  <2>1. CASE k = Len(s) + 1
    <3>1. s # <<>> /\ k - 1 = Len(s) /\ Len(s) \in 1 .. Len(s)
      BY <1>2, <1>5, <2>1
    <3> QED
      BY <1>4, <2>1, <3>1
  <2>2. CASE k # Len(s) + 1
    <3>1. k \in DOMAIN s \ {1} /\ k \in 1 .. Len(s) /\ k - 1 \in 1 .. Len(s)
      BY <1>2, <1>5, <2>2
    <3> QED
      BY <1>4, <3>1 DEF Linked
  <2> QED
    BY <2>1, <2>2
<1> QED
  BY <1>1, <1>3, <1>4, <1>5 DEF Linked, Reaches, c

\* What is given up at the old end is not missed at the new one.
LEMMA ReachesPart ==
  ASSUME NEW r \in Seq(Nat), NEW s \in Seq(Nat), NEW n, NEW E, Reaches(r \o s, n, E)
  PROVE  Reaches(s, n, E)
<1>1. /\ r \o s \in Seq(Nat) /\ Len(r \o s) = Len(r) + Len(s)
      /\ \A i \in 1 .. Len(r) + Len(s) : (r \o s)[i] = IF i <= Len(r) THEN r[i] ELSE s[i - Len(r)]
  BY ConcatProperties
<1>2. SUFFICES ASSUME s # <<>> PROVE s[Len(s)] = n \/ n \in E
  BY DEF Reaches
<1>3. Len(s) \in Nat \ {0} /\ Len(r) \in Nat
  BY <1>2
<1>4. r \o s # <<>>
  BY <1>1, <1>3
<1>5. (r \o s)[Len(r) + Len(s)] = s[Len(s)]
  BY <1>1, <1>3
<1> QED
  BY <1>1, <1>4, <1>5 DEF Reaches

-----------------------------------------------------------------------------
(* No message is missing. *)

\* The owner of the mutex has a message that is not in the log yet.
Preparing == Doing("rotate") \/ Doing("shift") \/ Doing("text")

\* As long as no call fails the log can be written to, and it ends with the message
\* before the one that is being prepared, or with the newest one.
NewestLogged ==
  faults = 0 =>
    /\ up /\ ~Doing("init") => fileLogger /\ output # "NULL"
    /\ Linked(Log, ends)
    /\ Preparing => Reaches(Log, serial - 1, ends)
    /\ ~Preparing => Reaches(Log, serial, ends)
    /\ Doing("end") => Reaches(Log, serial, {})

LogInv == IInv /\ SizeInv /\ NewestLogged

LEMMA LogIs ==
  /\ Log = From(file, buffer, maxBackupFiles)[maxBackupFiles]
  /\ Log' = From(file', buffer', maxBackupFiles)[maxBackupFiles]
  BY DEF Log, LogFrom, From, Files

LEMMA LogTypes ==
  ASSUME IInv
  PROVE  /\ maxBackupFiles \in Nat /\ file \in [0 .. maxBackupFiles -> Seq(Nat)]
         /\ buffer \in Seq(Nat) /\ serial \in Nat /\ Log \in Seq(Nat) /\ file[0] \in Seq(Nat)
<1>1. /\ maxBackupFiles \in Nat /\ file \in [0 .. maxBackupFiles -> Seq(Nat)]
      /\ buffer \in Seq(Nat) /\ serial \in Nat
  BY SizeAssumption DEF IInv, TypeOK, Files
<1>2. maxBackupFiles \in 0 .. maxBackupFiles /\ 0 \in 0 .. maxBackupFiles
  BY <1>1
<1>3. Log \in Seq(Nat)
  BY <1>1, <1>2, LogIs, FromFacts
<1> QED
  BY <1>1, <1>2, <1>3

LEMMA NoGapIs == NoGap <=> (faults = 0 => Linked(Log, ends))
  BY DEF NoGap, Linked, Log

LEMMA EmptyLog == ASSUME Init PROVE Log = <<>>
<1> DEFINE F == From(file, buffer, maxBackupFiles)
           S == {i \in 0 .. maxBackupFiles : F[i] = <<>>}
<1>1. /\ maxBackupFiles \in Nat /\ file \in [0 .. maxBackupFiles -> Seq(Nat)]
      /\ buffer \in Seq(Nat) /\ buffer = <<>> /\ \A i \in 0 .. maxBackupFiles : file[i] = <<>>
  BY SizeAssumption DEF Init, Files
<1>2. F[0] = file[0] \o buffer
      /\ \A i \in 0 .. maxBackupFiles - 1 : F[i + 1] = file[i + 1] \o F[i]
  BY <1>1, FromFacts
<1> HIDE DEF F
<1>3. <<>> \o <<>> = <<>>
  OBVIOUS
<1>4. 0 \in S
  <2>1. 0 \in 0 .. maxBackupFiles /\ file[0] = <<>>
    BY <1>1
  <2> QED
    BY <1>1, <1>2, <1>3, <2>1
<1>5. ASSUME NEW i \in 0 .. maxBackupFiles - 1, i \in S PROVE i + 1 \in S
  <2>1. i + 1 \in 0 .. maxBackupFiles /\ file[i + 1] = <<>> /\ F[i] = <<>>
    BY <1>1, <1>5
  <2>2. F[i + 1] = file[i + 1] \o F[i]
    BY <1>2
  <2> QED
    BY <1>3, <2>1, <2>2
<1> HIDE DEF S
<1>6. \A i \in 0 .. maxBackupFiles : i \in S
  BY <1>1, <1>4, <1>5, InductionTo
<1>7. maxBackupFiles \in 0 .. maxBackupFiles
  BY <1>1
<1> QED
  BY <1>6, <1>7, LogIs DEF S, F

LEMMA InitLogInv == Init => LogInv
<1> SUFFICES ASSUME Init PROVE NewestLogged
  BY InitIInv, InitSizeInv DEF LogInv
<1>1. Doing("init") /\ ~Doing("end")
  BY DoingBoot DEF Critical
<1>2. Linked(<<>>, ends) /\ \A n, E : Reaches(<<>>, n, E)
  BY DEF Linked, Reaches
<1> QED
  BY <1>1, <1>2, EmptyLog DEF NewestLogged

\* A step that leaves the log as it is, or gives up the oldest backup.
LEMMA KeptLog ==
  ASSUME IInv, NewestLogged, faults' = 0 => faults = 0, UNCHANGED <<serial, ends>>,
         faults' = 0 => Log' = Log \/ \E r \in Seq(Nat) : Log' \in Seq(Nat) /\ Log = r \o Log',
         faults' = 0 => (up' /\ ~Doing("init")' => fileLogger' /\ output' # "NULL"),
         faults' = 0 => (Preparing' <=> Preparing),
         faults' = 0 => (Doing("end")' => Doing("end"))
  PROVE  NewestLogged'
<1> SUFFICES ASSUME faults' = 0 PROVE NewestLogged'
  BY DEF NewestLogged
<1>1. /\ faults = 0 /\ Linked(Log, ends)
      /\ Preparing => Reaches(Log, serial - 1, ends)
      /\ ~Preparing => Reaches(Log, serial, ends)
      /\ Doing("end") => Reaches(Log, serial, {})
  BY DEF NewestLogged
<1>2. /\ Linked(Log', ends)
      /\ Preparing => Reaches(Log', serial - 1, ends)
      /\ ~Preparing => Reaches(Log', serial, ends)
      /\ Doing("end") => Reaches(Log', serial, {})
  <2>1. CASE Log' = Log
    BY <1>1, <2>1
  <2>2. CASE \E r \in Seq(Nat) : Log' \in Seq(Nat) /\ Log = r \o Log'
    <3>1. PICK r \in Seq(Nat) : Log' \in Seq(Nat) /\ Log = r \o Log'
      BY <2>2
    <3> QED
      BY <1>1, <3>1, LinkedPart, ReachesPart
  <2> QED
    BY <2>1, <2>2
<1>3. UNCHANGED <<serial, ends>>
  OBVIOUS
<1>4. /\ Linked(Log', ends')
      /\ Preparing => Reaches(Log', serial' - 1, ends')
      /\ ~Preparing => Reaches(Log', serial', ends')
      /\ Doing("end") => Reaches(Log', serial', {})
  BY <1>2, <1>3
<1> QED
  BY <1>4 DEF NewestLogged

\* Nothing of the log changes with these variables.
LEMMA SameLog == ASSUME UNCHANGED <<file, buffer>> PROVE Log' = Log
  BY LogIs

LEMMA SignalLog ==
  ASSUME LogInv, NEW t \in Threads, NEW s \in Signals, Signal(t, s) PROVE NewestLogged'
<1>1. \A q \in {"init", "rotate", "shift", "text", "end"} : Doing(q)' <=> Doing(q)
  BY DoingSignal DEF LogInv, Critical
<1>2. UNCHANGED <<up, ends, serial, file, buffer, fileLogger, output, faults>>
  BY DEF Signal, processVars, outVars
<1>3. Preparing' <=> Preparing
  BY <1>1 DEF Preparing
<1>4. faults = 0 => (up' /\ ~Doing("init")' => fileLogger' /\ output' # "NULL")
  BY <1>1, <1>2 DEF LogInv, NewestLogged
<1>5. Log' = Log
  BY <1>2, SameLog
<1> QED
  BY <1>1, <1>2, <1>3, <1>4, <1>5, KeptLog DEF LogInv

LEMMA StartThreadsLog == ASSUME LogInv, StartThreads PROVE NewestLogged'
<1>1. \A q \in {"init", "rotate", "shift", "text", "end"} : ~Doing(q)' /\ ~Doing(q)
  BY DoingStart DEF LogInv, Critical
<1>2. UNCHANGED <<up, ends, serial, file, buffer, fileLogger, output, faults>>
  BY DEF StartThreads, outVars
<1>3. Preparing' <=> Preparing
  BY <1>1 DEF Preparing
<1>4. faults = 0 => (up' /\ ~Doing("init")' => fileLogger' /\ output' # "NULL")
  BY <1>1, <1>2 DEF LogInv, NewestLogged
<1>5. Log' = Log
  BY <1>2, SameLog
<1> QED
  BY <1>1, <1>2, <1>3, <1>4, <1>5, KeptLog DEF LogInv

LEMMA InitFileLoggerLog ==
  ASSUME LogInv, NEW ok \in BOOLEAN, InitFileLogger(ok) PROVE NewestLogged'
<1>1. "init" \in Critical /\ At(main, "init") /\ main \in Threads /\ Goto(main, "run")
  BY ThreadAssumption DEF Critical, InitFileLogger
<1>2. \A q \in {"rotate", "shift", "text", "end"} : ~Doing(q)
  BY <1>1, DoingFacts DEF LogInv, Critical
<1>3. \A q \in {"rotate", "shift", "text", "end"} : ~Doing(q)'
  BY <1>1, DoingGoto DEF LogInv, Critical, Pcs
<1>4. UNCHANGED <<ends, serial, file, buffer>>
  BY DEF InitFileLogger, processVars
<1>5. faults' = 0 => faults = 0 /\ ok
  BY FaultGrows DEF LogInv, IInv, InitFileLogger
<1>6. ok => fileLogger' /\ output' # "NULL"
  BY DEF InitFileLogger
<1>7. Preparing' <=> Preparing
  BY <1>2, <1>3 DEF Preparing
<1>8. Log' = Log
  BY <1>4, SameLog
<1> QED
  BY <1>3, <1>4, <1>5, <1>6, <1>7, <1>8, KeptLog DEF LogInv

LEMMA BootLog == ASSUME LogInv, Boot PROVE NewestLogged'
<1>1. Doing("init")' /\ \A q \in {"rotate", "shift", "text", "end"} : ~Doing(q)'
  BY DoingBoot DEF Critical
<1>2. \A q : ~Doing(q)
  BY DEF LogInv, SizeInv, DownInv, Boot, Doing
<1>3. UNCHANGED <<ends, serial, file, buffer, faults>>
  BY DEF Boot, outVars
<1>4. Preparing' <=> Preparing
  BY <1>1, <1>2 DEF Preparing
<1>5. Log' = Log
  BY <1>3, SameLog
<1> QED
  BY <1>1, <1>3, <1>4, <1>5, KeptLog DEF LogInv

LEMMA UnlockLog == ASSUME LogInv, NEW t \in Threads, Unlock(t) PROVE NewestLogged'
<1> DEFINE left == IF Top(t).left > 0 THEN Top(t).left - 1 ELSE 0
           f == [Top(t) EXCEPT !.pc = "run", !.num = 0, !.left = left]
<1>1. "unlock" \in Critical /\ At(t, "unlock") /\ Put(t, f)
  BY DEF Critical, Unlock
<1>2. stack[t] # <<>> /\ owner = <<t, Depth(t)>>
  BY <1>1, OwnerFacts DEF LogInv
<1>3. f \in Frames /\ f.pc = "run"
  <2>1. Top(t) \in Frames
    BY <1>2, TopFacts DEF LogInv, IInv
  <2>2. left \in 0 .. 2
    BY <2>1 DEF Frames
  <2> HIDE DEF left
  <2> QED
    BY <2>1, <2>2 DEF Frames, Pcs
<1> HIDE DEF f
<1>4. \A q \in {"init", "rotate", "shift", "text", "end"} : ~Doing(q)
  BY <1>1, DoingFacts DEF LogInv, Critical
<1>5. \A q \in {"init", "rotate", "shift", "text", "end"} : ~Doing(q)'
  BY <1>1, <1>2, <1>3, DoingPut DEF LogInv, Critical
<1>6. UNCHANGED <<up, ends, serial, file, buffer, fileLogger, output, faults>>
  BY DEF Unlock, processVars, outVars
<1>7. Preparing' <=> Preparing
  BY <1>4, <1>5 DEF Preparing
<1>8. faults = 0 => (up' /\ ~Doing("init")' => fileLogger' /\ output' # "NULL")
  BY <1>4, <1>6 DEF LogInv, NewestLogged
<1>9. Log' = Log
  BY <1>6, SameLog
<1> QED
  BY <1>5, <1>6, <1>7, <1>8, <1>9, KeptLog DEF LogInv

\* A new message: the log ends with the one before it.
LEMMA LockLog == ASSUME LogInv, NEW t \in Threads, Lock(t) PROVE NewestLogged'
<1> DEFINE to == IF fileLogger THEN "rotate" ELSE "unlock"
           f == [Top(t) EXCEPT !.pc = to, !.num = serial + 1]
<1>1. stack[t] # <<>> /\ owner = Nobody /\ Put(t, f) /\ serial' = serial + 1
  BY DEF Lock, At, Free
<1>2. f \in Frames /\ f.pc = to
  <2>1. Top(t) \in Frames /\ serial + 1 \in Nat
    BY <1>1, TopFacts DEF LogInv, IInv, TypeOK
  <2> QED
    BY <2>1 DEF Frames, Pcs, Critical
<1> HIDE DEF f
<1>3. UNCHANGED <<up, ends, file, buffer, fileLogger, output, faults>>
  BY DEF Lock, processVars, outVars
<1> SUFFICES ASSUME faults = 0 PROVE NewestLogged'
  BY <1>3 DEF NewestLogged
<1>4. \A q \in Critical : ~Doing(q)
  BY <1>1, DoingNothing DEF LogInv
<1>5. ~Doing("init") /\ ~Preparing /\ up
  BY <1>1, <1>4 DEF Critical, Preparing, LogInv, SizeInv, DownInv
<1>6. fileLogger /\ output # "NULL" /\ to = "rotate"
  BY <1>5 DEF LogInv, NewestLogged
<1>7. Preparing' /\ ~Doing("end")'
  <2>1. \A q \in Critical : Doing(q)' <=> q = "rotate"
    BY <1>1, <1>2, <1>6, DoingPut DEF LogInv
  <2> QED
    BY <2>1 DEF Preparing, Critical
<1>8. Log' = Log
  BY <1>3, SameLog
<1>9. Linked(Log', ends') /\ Reaches(Log', serial' - 1, ends')
  <2>1. serial' - 1 = serial
    BY <1>1, LogTypes DEF LogInv
  <2> QED
    BY <1>3, <1>5, <1>8, <2>1 DEF LogInv, NewestLogged
<1> QED
  BY <1>3, <1>6, <1>7, <1>9 DEF NewestLogged

LEMMA NoRotationLog == ASSUME LogInv, NEW t \in Threads, NoRotation(t) PROVE NewestLogged'
<1> DEFINE to == IF output = "NULL" THEN "unlock" ELSE "text"
<1>1. "rotate" \in Critical /\ At(t, "rotate") /\ Goto(t, to) /\ to \in Pcs
  BY DEF Critical, NoRotation, Pcs
<1>2. UNCHANGED <<up, ends, serial, file, buffer, fileLogger, output, faults>>
  BY DEF NoRotation, processVars, outVars
<1> SUFFICES ASSUME faults = 0 PROVE NewestLogged'
  BY <1>2 DEF NewestLogged
<1>3. Doing("rotate") /\ ~Doing("init") /\ ~Doing("end")
  BY <1>1, DoingFacts DEF LogInv, Critical
<1>4. up
  BY <1>1 DEF At, LogInv, SizeInv, DownInv
<1>5. fileLogger /\ output # "NULL" /\ to = "text"
  BY <1>3, <1>4 DEF LogInv, NewestLogged
<1>6. \A q \in Critical : Doing(q)' <=> q = "text"
  BY <1>1, <1>5, DoingGoto DEF LogInv
<1>7. Doing("text")' /\ ~Doing("end")'
  BY <1>6 DEF Critical
<1>8. Preparing' <=> Preparing
  BY <1>3, <1>7 DEF Preparing
<1>9. Log' = Log
  BY <1>2, SameLog
<1> QED
  BY <1>2, <1>5, <1>7, <1>8, <1>9, KeptLog DEF LogInv

\* fclose moves the buffer to the log file.
LEMMA RotatedLog ==
  ASSUME IInv, file' = [file EXCEPT ![0] = file[0] \o buffer], buffer' = <<>>
  PROVE  Log' = Log
<1> DEFINE N == maxBackupFiles
<1>1. /\ N \in Nat /\ file \in [0 .. N -> Seq(Nat)] /\ buffer \in Seq(Nat)
      /\ file[0] \in Seq(Nat) /\ 0 \in 0 .. N
  BY LogTypes
<1> HIDE DEF N
<1>2. file[0] \o buffer \in Seq(Nat) /\ <<>> \in Seq(Nat)
  BY <1>1, ConcatProperties
<1>3. /\ file' \in [0 .. N -> Seq(Nat)] /\ file'[0] = file[0] \o buffer
      /\ \A i \in 1 .. N : file[i] = file'[i]
  BY <1>1, <1>2
<1>4. file[0] \o buffer = (file'[0] \o <<>>) \o <<>>
  BY <1>2, <1>3, ConcatEmptySeq
<1>5. From(file, buffer, N)[N] = From(file', <<>>, N)[N] \o <<>>
  <2> DEFINE r == <<>>
  <2>1. Continues(file, buffer, file', <<>>, r, N)
    BY <1>1, <1>2, <1>3, <1>4 DEF Continues
  <2> HIDE DEF r
  <2>2. From(file, buffer, N)[N] = From(file', <<>>, N)[N] \o r
    BY ONLY <2>1, FromTail
  <2> QED
    BY <2>2 DEF r
<1>6. From(file', <<>>, N)[N] \in Seq(Nat)
  BY <1>1, <1>2, <1>3, FromType
<1>7. From(file, buffer, N)[N] = From(file', buffer', N)[N]
  BY <1>5, <1>6, ConcatEmptySeq
<1> QED
  BY <1>7, LogIs DEF N

LEMMA BeginRotationLog == ASSUME LogInv, NEW t \in Threads, BeginRotation(t) PROVE NewestLogged'
<1>1. /\ "rotate" \in Critical /\ At(t, "rotate") /\ Goto(t, "shift") /\ "shift" \in Pcs
      /\ "shift" \in Critical
  BY DEF Critical, BeginRotation, Pcs
<1>2. Doing("rotate")
  BY <1>1, DoingFacts DEF LogInv
<1>3. Doing("shift")' /\ ~Doing("end")'
  BY <1>1, DoingGoto DEF LogInv, Critical
<1>4. Preparing' <=> Preparing
  BY <1>2, <1>3 DEF Preparing
<1>5. UNCHANGED <<up, ends, serial, fileLogger, faults>> /\ output' = "closed" /\ buffer' = <<>>
      /\ file' = [file EXCEPT ![0] = file[0] \o buffer]
  BY DEF BeginRotation, processVars
<1>6. ~Doing("init") /\ up
  BY <1>1, DoingFacts DEF At, LogInv, SizeInv, DownInv, Critical
<1>7. faults = 0 => fileLogger' /\ output' # "NULL"
  BY <1>5, <1>6 DEF LogInv, NewestLogged
<1>8. Log' = Log
  BY <1>5, RotatedLog DEF LogInv
<1> QED
  BY <1>3, <1>4, <1>5, <1>7, <1>8, KeptLog DEF LogInv

\* One turn of the loop gives up nothing but the file that the newer one replaces.
LEMMA ShiftedLog ==
  ASSUME IInv, NEW t \in Threads, NEW removed \in BOOLEAN, NEW renamed \in BOOLEAN,
         Shift(t, removed, renamed), buffer = <<>>
  PROVE  \E older, newer \in Seq(Nat) :
           /\ Log = older \o (file[shift] \o newer)
           /\ Log' \in {Log, older \o newer}
           /\ shift = maxBackupFiles => older = <<>>
<1> DEFINE N == maxBackupFiles
           p == shift - 1
           k == p + 1
<1>1. N \in Nat /\ file \in [0 .. N -> Seq(Nat)] /\ <<>> \in Seq(Nat)
  BY LogTypes
<1>2. shift \in Files /\ shift > 0 /\ UNCHANGED buffer
  BY ShiftFiles DEF Shift, outVars
<1>3. k = shift /\ p \in 0 .. N - 1 /\ p \in 0 .. N /\ k \in 0 .. N
  BY <1>1, <1>2 DEF Files
<1>4. /\ \A i \in (0 .. N) \ {k, p} : file'[i] = file[i]
      /\ \/ file'[k] = file[p] /\ file'[p] = <<>>
         \/ file'[p] = file[p] /\ file'[k] \in {file[k], <<>>}
  BY <1>3, ShiftFiles DEF Files
<1>5. file' \in [0 .. N -> Seq(Nat)]
  <2>1. IInv'
    BY ShiftIInv
  <2> QED
    BY <2>1 DEF IInv, TypeOK, Files
<1> DEFINE b == <<>>
<1>6. b \in Seq(Nat) /\ Log = From(file, b, N)[N] /\ Log' = From(file', b, N)[N]
  BY <1>2, LogIs
<1> HIDE DEF N, p, b
<1>7. PICK older, newer \in Seq(Nat) : Between(file, file', b, p, N, older, newer)
  <2>1. \A i \in (0 .. N) \ {p, p + 1} : file'[i] = file[i]
    BY <1>4
  <2>2. DifferAt(file, file', b, p, N)
    BY <1>1, <1>3, <1>5, <1>6, <2>1 DEF DifferAt
  <2> QED
    BY ONLY <2>2, FromMoved
<1>8. /\ From(file, b, N)[N] = older \o (file[p + 1] \o (file[p] \o newer))
      /\ From(file', b, N)[N] = older \o (file'[p + 1] \o (file'[p] \o newer))
      /\ p + 1 = N => older = <<>>
  BY <1>7 DEF Between
<1>9. file[p] \in Seq(Nat) /\ file[p] \o newer \in Seq(Nat) /\ <<>> \o newer = newer
      /\ <<>> \o (file[p] \o newer) = file[p] \o newer
  <2>1. file[p] \in Seq(Nat)
    BY <1>1, <1>3
  <2>2. file[p] \o newer \in Seq(Nat)
    BY <2>1, ConcatProperties
  <2> QED
    BY <2>1, <2>2, ConcatEmptySeq
<1>10. Log' \in {Log, older \o (file[p] \o newer)}
  <2>1. CASE file'[k] = file[p] /\ file'[p] = <<>>
    BY <1>3, <1>6, <1>8, <1>9, <2>1
  <2>2. CASE file'[p] = file[p] /\ file'[k] = file[k]
    BY <1>3, <1>6, <1>8, <2>2
  <2>3. CASE file'[p] = file[p] /\ file'[k] = <<>>
    BY <1>3, <1>6, <1>8, <1>9, <2>3
  <2> QED
    BY <1>4, <2>1, <2>2, <2>3
<1>11. Log = older \o (file[shift] \o (file[p] \o newer)) /\ (shift = N => older = <<>>)
  BY <1>3, <1>6, <1>8
<1> QED
  BY <1>9, <1>10, <1>11 DEF N

\* Only the oldest backup is given up, by the first turn of the loop.
LEMMA ShiftLog ==
  ASSUME LogInv, NEW t \in Threads, NEW removed \in BOOLEAN, NEW renamed \in BOOLEAN,
         Shift(t, removed, renamed)
  PROVE  NewestLogged'
<1> SUFFICES ASSUME faults' = 0 PROVE NewestLogged'
  BY DEF NewestLogged
<1>1. "shift" \in Critical /\ At(t, "shift")
  BY DEF Critical, Shift
<1>2. UNCHANGED <<up, stack, ends, serial, buffer, fileLogger, output>>
  BY DEF Shift, processVars, threadVars, outVars
<1>3. \A q : Doing(q)' <=> Doing(q)
  BY <1>2 DEF Doing
<1>4. Preparing' <=> Preparing
  BY <1>3 DEF Preparing
<1>5. faults = 0 /\ removed /\ renamed
  BY FaultGrows DEF LogInv, IInv, Shift
<1>6. up' /\ ~Doing("init")' => fileLogger' /\ output' # "NULL"
  BY <1>2, <1>3, <1>5 DEF LogInv, NewestLogged
<1>7. buffer = <<>> /\ (shift < maxBackupFiles => file[shift] = <<>>)
  <2>1. output = "closed"
    BY <1>1, DoingFacts DEF LogInv, SizeInv, OutputInv
  <2> QED
    BY <1>5, <2>1 DEF LogInv, SizeInv, OutputInv, RoomInv
<1>8. \/ Log' = Log
      \/ \E r \in Seq(Nat) : Log' \in Seq(Nat) /\ Log = r \o Log'
  <2>1. PICK older, newer \in Seq(Nat) :
          /\ Log = older \o (file[shift] \o newer)
          /\ Log' \in {Log, older \o newer}
          /\ shift = maxBackupFiles => older = <<>>
    BY <1>7, ShiftedLog DEF LogInv
  <2>2. shift \in Files /\ file[shift] \in Seq(Nat)
    BY ShiftFiles, SizeTypes DEF LogInv
  <2>3. \A q \in Seq(Nat) : <<>> \o q = q
    BY ConcatEmptySeq
  <2>4. CASE shift < maxBackupFiles
    BY <1>7, <2>1, <2>3, <2>4
  <2>5. CASE ~(shift < maxBackupFiles)
    <3>1. shift = maxBackupFiles
      BY <2>2, <2>5, SizeAssumption DEF Files
    <3>2. Log = file[shift] \o newer /\ Log' \in {Log, newer}
      <4>1. file[shift] \o newer \in Seq(Nat)
        BY <2>2, ConcatProperties
      <4> QED
        BY <2>1, <2>3, <3>1, <4>1
    <3> QED
      BY <2>2, <3>2
  <2> QED
    BY <2>4, <2>5
<1> QED
  BY <1>2, <1>3, <1>4, <1>5, <1>6, <1>8, KeptLog DEF LogInv

LEMMA ReopenLog ==
  ASSUME LogInv, NEW t \in Threads, NEW ok \in BOOLEAN, Reopen(t, ok) PROVE NewestLogged'
<1> SUFFICES ASSUME faults' = 0 PROVE NewestLogged'
  BY DEF NewestLogged
<1>1. faults = 0 /\ ok
  BY FaultGrows DEF LogInv, IInv, Reopen
<1>2. "shift" \in Critical /\ At(t, "shift") /\ Goto(t, "text") /\ "text" \in Pcs
  BY <1>1 DEF Critical, Reopen, AfterReopen, Pcs
<1>3. Doing("shift") /\ ~Doing("init")
  BY <1>2, DoingFacts DEF LogInv, Critical
<1>4. Doing("text")' /\ ~Doing("end")'
  BY <1>2, DoingGoto DEF LogInv, Critical
<1>5. Preparing' <=> Preparing
  BY <1>3, <1>4 DEF Preparing
<1>6. UNCHANGED <<up, ends, serial, file, buffer, fileLogger>> /\ output' = "open"
  BY <1>1 DEF Reopen, processVars
<1>7. up
  BY <1>2 DEF At, LogInv, SizeInv, DownInv
<1>8. fileLogger' /\ output' # "NULL"
  BY <1>1, <1>3, <1>6, <1>7 DEF LogInv, NewestLogged
<1>9. Log' = Log
  BY <1>6, SameLog
<1> QED
  BY <1>1, <1>4, <1>5, <1>6, <1>8, <1>9, KeptLog DEF LogInv

\* A piece of a line.
LEMMA AppendedLog ==
  ASSUME IInv, UNCHANGED file, buffer' = Append(buffer, serial)
  PROVE  Log' = Log \o <<serial>>
<1> DEFINE N == maxBackupFiles
<1>1. /\ N \in Nat /\ file \in [0 .. N -> Seq(Nat)] /\ buffer \in Seq(Nat)
      /\ file[0] \in Seq(Nat) /\ serial \in Nat
  BY LogTypes
<1> HIDE DEF N
<1>2. buffer' = buffer \o <<serial>> /\ buffer' \in Seq(Nat) /\ <<serial>> \in Seq(Nat)
  BY <1>1, AppendIsConcat, AppendProperties
<1>3. file[0] \o buffer' = (file[0] \o buffer) \o <<serial>>
  BY <1>1, <1>2, Associative
<1> DEFINE r == <<serial>>
<1>4. Continues(file, buffer', file, buffer, r, N)
  BY <1>1, <1>2, <1>3 DEF Continues
<1> HIDE DEF r
<1>5. From(file, buffer', N)[N] = From(file, buffer, N)[N] \o r
  BY <1>4, FromTail
<1> QED
  BY <1>5, LogIs DEF N, r

LEMMA WriteTextLog == ASSUME LogInv, NEW t \in Threads, WriteText(t) PROVE NewestLogged'
<1>1. /\ "text" \in Critical /\ At(t, "text") /\ Goto(t, "end") /\ "end" \in Pcs
  BY DEF Critical, WriteText, Pcs
<1>2. Doing("text") /\ ~Doing("init")
  BY <1>1, DoingFacts DEF LogInv, Critical
<1>3. \A q \in {"rotate", "shift", "text"} : ~Doing(q)'
  BY <1>1, DoingGoto DEF LogInv, Critical
<1>4. /\ UNCHANGED <<up, ends, serial, file, fileLogger, output, faults>>
      /\ buffer' = Append(buffer, serial)
  BY <1>1, OwnerFacts DEF WriteText, processVars, LogInv
<1> SUFFICES ASSUME faults = 0 PROVE NewestLogged'
  BY <1>4 DEF NewestLogged
<1>5. Linked(Log, ends) /\ Reaches(Log, serial - 1, ends) /\ fileLogger /\ output # "NULL"
  <2>1. up
    BY <1>1 DEF At, LogInv, SizeInv, DownInv
  <2> QED
    BY <1>2, <2>1 DEF LogInv, NewestLogged, Preparing
<1>6. Log \in Seq(Nat) /\ serial \in Nat /\ (Log # <<>> => Log[Len(Log)] \in Nat)
  <2>1. Log \in Seq(Nat) /\ serial \in Nat
    BY LogTypes DEF LogInv
  <2> QED
    BY <2>1
<1>7. Log # <<>> => serial \in {Log[Len(Log)], Log[Len(Log)] + 1} \/ serial - 1 \in ends
  BY <1>5, <1>6 DEF Reaches
<1>8. Log' = Log \o <<serial>>
  BY <1>4, AppendedLog DEF LogInv
<1>9. Linked(Log', ends) /\ Reaches(Log', serial, {})
  BY <1>5, <1>6, <1>7, <1>8, LinkedAppend
<1>10. Reaches(Log', serial, ends)
  BY <1>9 DEF Reaches
<1>11. ~Preparing'
  BY <1>3 DEF Preparing
<1> QED
  BY <1>4, <1>5, <1>9, <1>10, <1>11 DEF NewestLogged

LEMMA WriteEndLog == ASSUME LogInv, NEW t \in Threads, WriteEnd(t) PROVE NewestLogged'
<1>1. /\ "end" \in Critical /\ At(t, "end") /\ Goto(t, "unlock") /\ "unlock" \in Pcs
  BY DEF Critical, WriteEnd, Pcs
<1>2. Doing("end") /\ ~Doing("init")
  BY <1>1, DoingFacts DEF LogInv, Critical
<1>3. \A q \in {"rotate", "shift", "text"} : ~Doing(q)'
  BY <1>1, DoingGoto DEF LogInv, Critical
<1>4. /\ UNCHANGED <<up, ends, serial, file, fileLogger, output, faults>>
      /\ buffer' = Append(buffer, serial)
  BY <1>1, OwnerFacts DEF WriteEnd, processVars, LogInv
<1> SUFFICES ASSUME faults = 0 PROVE NewestLogged'
  BY <1>4 DEF NewestLogged
<1>5. Linked(Log, ends) /\ Reaches(Log, serial, {}) /\ fileLogger /\ output # "NULL"
  <2>1. up
    BY <1>1 DEF At, LogInv, SizeInv, DownInv
  <2> QED
    BY <1>2, <2>1 DEF LogInv, NewestLogged
<1>6. Log \in Seq(Nat) /\ serial \in Nat
  BY LogTypes DEF LogInv
<1>7. Log # <<>> => serial \in {Log[Len(Log)], Log[Len(Log)] + 1}
  BY <1>5 DEF Reaches
<1>8. Log' = Log \o <<serial>>
  BY <1>4, AppendedLog DEF LogInv
<1>9. Linked(Log', ends) /\ Reaches(Log', serial, {})
  BY <1>5, <1>6, <1>7, <1>8, LinkedAppend
<1>10. Reaches(Log', serial, ends)
  BY <1>9 DEF Reaches
<1>11. ~Preparing'
  BY <1>3 DEF Preparing
<1> QED
  BY <1>4, <1>5, <1>9, <1>10, <1>11 DEF NewestLogged

\* The first n of the buffer go to the log file, the others are lost.
LEMMA EndedLog ==
  ASSUME IInv, NEW n \in 0 .. Len(buffer), buffer' = <<>>,
         file' = [file EXCEPT ![0] = file[0] \o SubSeq(buffer, 1, n)]
  PROVE  \E r \in Seq(Nat) :
           Log' \in Seq(Nat) /\ Log = Log' \o r /\ Len(r) = Len(buffer) - n
<1> DEFINE N == maxBackupFiles
           a == SubSeq(buffer, 1, n)
           r == SubSeq(buffer, n + 1, Len(buffer))
<1>1. /\ N \in Nat /\ file \in [0 .. N -> Seq(Nat)] /\ buffer \in Seq(Nat)
      /\ file[0] \in Seq(Nat) /\ 0 \in 0 .. N /\ <<>> \in Seq(Nat) /\ Len(buffer) \in Nat
  BY LogTypes
<1>2. a \in Seq(Nat) /\ r \in Seq(Nat) /\ Len(r) = Len(buffer) - n
  BY <1>1
<1>3. a \o r = buffer
  <2>1. /\ 1 \in 1 .. Len(buffer) + 1 /\ n \in 1 - 1 .. Len(buffer)
        /\ Len(buffer) \in n .. Len(buffer)
    BY <1>1
  <2>2. a \o r = SubSeq(buffer, 1, Len(buffer))
    BY <1>1, <2>1, ConcatAdjacentSubSeq
  <2> QED
    BY <1>1, <2>2, WholeFacts
<1> HIDE DEF N, a, r
<1>4. file[0] \o a \in Seq(Nat)
  BY <1>1, <1>2, ConcatProperties
<1>5. /\ file' \in [0 .. N -> Seq(Nat)] /\ file'[0] = file[0] \o a
      /\ \A i \in 1 .. N : file[i] = file'[i]
  BY <1>1, <1>4 DEF a
<1>6. file[0] \o buffer = (file'[0] \o <<>>) \o r
  <2>1. file'[0] \o <<>> = file'[0]
    BY <1>4, <1>5, ConcatEmptySeq
  <2>2. (file[0] \o a) \o r = file[0] \o (a \o r)
    BY <1>1, <1>2, Associative
  <2> QED
    BY <1>3, <1>5, <2>1, <2>2
<1>7. From(file, buffer, N)[N] = From(file', <<>>, N)[N] \o r
  <2>1. Continues(file, buffer, file', <<>>, r, N)
    BY <1>1, <1>2, <1>5, <1>6 DEF Continues
  <2> QED
    BY ONLY <2>1, FromTail
<1>8. From(file', <<>>, N)[N] \in Seq(Nat)
  BY <1>1, <1>5, FromType
<1> QED
  BY <1>2, <1>7, <1>8, LogIs DEF N

\* What is lost of the buffer was written by the process that ends.
LEMMA EndLog ==
  ASSUME LogInv, NEW n \in 0 .. Len(buffer), End(n) PROVE NewestLogged'
<1>1. \A q : ~Doing(q)'
  BY DoingEnd
<1>2. /\ file' = [file EXCEPT ![0] = file[0] \o SubSeq(buffer, 1, n)] /\ buffer' = <<>>
      /\ up' = FALSE /\ ends' = ends \cup {serial} /\ serial' = serial /\ faults' = faults
  BY DEF End
<1> SUFFICES ASSUME faults = 0 PROVE NewestLogged'
  BY <1>2 DEF NewestLogged
<1>3. \E r \in Seq(Nat) : Log' \in Seq(Nat) /\ Log = Log' \o r
  BY <1>2, EndedLog DEF LogInv
<1>4. Linked(Log, ends)
  BY DEF LogInv, NewestLogged
<1>5. Linked(Log', ends')
  <2>1. Linked(Log', ends)
    BY <1>3, <1>4, LinkedPart
  <2> QED
    BY <1>2, <2>1 DEF Linked
<1>6. Reaches(Log', serial', ends')
  BY <1>2 DEF Reaches
<1>7. ~Preparing'
  BY <1>1 DEF Preparing
<1> QED
  BY <1>1, <1>2, <1>5, <1>6, <1>7 DEF NewestLogged

LEMMA NextLog == LogInv /\ [Next]_vars => LogInv'
<1> SUFFICES ASSUME LogInv, [Next]_vars PROVE NewestLogged'
  BY NextIInv, NextSizeInv DEF LogInv
<1>1. Len(buffer) \in 0 .. Len(buffer)
  BY SizeTypes DEF LogInv
<1>2. CASE UNCHANGED vars
  <2>1. \A q : Doing(q)' <=> Doing(q)
    BY <1>2 DEF Doing, vars, threadVars
  <2>2. UNCHANGED <<up, ends, serial, file, buffer, fileLogger, output, faults>>
    BY <1>2 DEF vars, processVars, threadVars, outVars
  <2>3. Preparing' <=> Preparing
    BY <2>1 DEF Preparing
  <2>4. faults = 0 => (up' /\ ~Doing("init")' => fileLogger' /\ output' # "NULL")
    BY <2>1, <2>2 DEF LogInv, NewestLogged
  <2>5. Log' = Log
    BY <2>2, SameLog
  <2> QED
    BY <2>1, <2>2, <2>3, <2>4, <2>5, KeptLog DEF LogInv
<1>3. ASSUME NEW t \in Threads, Step(t) PROVE NewestLogged'
  <2>1. CASE Lock(t)
    BY <2>1, LockLog
  <2>2. CASE Exit(t)
    BY <1>1, <2>2, EndLog DEF Exit
  <2>3. CASE \E s \in Signals : Signal(t, s)
    BY <2>3, SignalLog
  <2>4. CASE Progress(t)
    <3>1. CASE \E ok \in BOOLEAN : t = main /\ InitFileLogger(ok)
      BY <3>1, InitFileLoggerLog
    <3>2. CASE NoRotation(t)
      BY <3>2, NoRotationLog
    <3>3. CASE BeginRotation(t)
      BY <3>3, BeginRotationLog
    <3>4. CASE \E removed, renamed \in BOOLEAN : Shift(t, removed, renamed)
      BY <3>4, ShiftLog
    <3>5. CASE \E ok \in BOOLEAN : Reopen(t, ok)
      BY <3>5, ReopenLog
    <3>6. CASE WriteText(t)
      BY <3>6, WriteTextLog
    <3>7. CASE WriteEnd(t)
      BY <3>7, WriteEndLog
    <3>8. CASE Unlock(t)
      BY <3>8, UnlockLog
    <3>9. CASE ExitHandler(t)
      BY <1>1, <3>9, EndLog DEF ExitHandler
    <3>10. CASE \E n \in 0 .. Len(buffer) : CloseNull(t, n)
      BY <3>10, EndLog DEF CloseNull
    <3> QED
      BY <2>1, <2>4, <3>1, <3>2, <3>3, <3>4, <3>5, <3>6, <3>7, <3>8, <3>9, <3>10 DEF Progress
  <2> QED
    BY <1>3, <2>1, <2>2, <2>3, <2>4 DEF Step
<1>4. CASE StartThreads
  BY <1>4, StartThreadsLog
<1>5. CASE \E n \in 0 .. Len(buffer) : Crash(n)
  BY <1>5, EndLog DEF Crash
<1>6. CASE Boot
  BY <1>6, BootLog
<1> QED
  BY <1>2, <1>3, <1>4, <1>5, <1>6 DEF Next

LEMMA LogInvariance == Spec => []LogInv
  BY InitLogInv, NextLog, PTL DEF Spec

-----------------------------------------------------------------------------
(* The backups have no holes. *)

\* As long as no call fails and no process ends within a rotation, the backups have
\* no hole but the one that a rotation has just made, which the next turn fills.
HoleInv ==
  /\ output # "closed" => shift = 0
  /\ faults = 0 /\ ~torn =>
       \A i \in 2 .. maxBackupFiles : file[i] # <<>> =>
         \/ file[i - 1] # <<>>
         \/ i - 1 = shift /\ (shift > 1 => file[shift - 1] # <<>>)

RollInv == LogInv /\ HoleInv

\* A step that changes no backup.
LEMMA KeptHoles ==
  ASSUME IInv, HoleInv, \A i \in Files \ {0} : file'[i] = file[i],
         faults' = 0 /\ ~torn' => faults = 0 /\ ~torn /\ (shift' = shift \/ shift = 0),
         output' # "closed" => shift' = 0
  PROVE  HoleInv'
<1> SUFFICES ASSUME faults' = 0, ~torn', NEW i \in 2 .. maxBackupFiles, file'[i] # <<>>
             PROVE  \/ file'[i - 1] # <<>>
                    \/ i - 1 = shift' /\ (shift' > 1 => file'[shift' - 1] # <<>>)
  BY DEF HoleInv
<1>1. i \in Files \ {0} /\ i - 1 \in Files \ {0} /\ i - 1 > 0 /\ shift \in Files /\ shift \in Nat
  BY SizeTypes DEF Files
<1>2. file'[i] = file[i] /\ file'[i - 1] = file[i - 1]
  BY <1>1
<1>3. shift > 1 => shift - 1 \in Files \ {0}
  BY <1>1, SizeTypes DEF Files
<1>4. \/ file[i - 1] # <<>>
      \/ i - 1 = shift /\ (shift > 1 => file[shift - 1] # <<>>)
  BY <1>2 DEF HoleInv
<1>5. shift > 1 => file'[shift - 1] = file[shift - 1]
  BY <1>3
<1>6. shift' = shift \/ shift = 0
  OBVIOUS
<1> QED
  BY <1>1, <1>2, <1>4, <1>5, <1>6

LEMMA InitHoles == Init => HoleInv
<1>1. Init => \A i \in 2 .. maxBackupFiles : file[i] = <<>>
  BY DEF Init, Files
<1> QED
  BY <1>1 DEF Init, HoleInv

LEMMA ShiftHoles ==
  ASSUME LogInv, HoleInv, NEW t \in Threads, NEW removed \in BOOLEAN, NEW renamed \in BOOLEAN,
         Shift(t, removed, renamed)
  PROVE  HoleInv'
<1>1. output = "closed" /\ buffer = <<>> /\ UNCHANGED <<output, torn>>
  <2>1. "shift" \in Critical /\ At(t, "shift")
    BY DEF Critical, Shift
  <2> QED
    BY <2>1, DoingFacts DEF LogInv, SizeInv, OutputInv, Shift, outVars, processVars
<1> SUFFICES ASSUME faults' = 0, ~torn', NEW i \in 2 .. maxBackupFiles, file'[i] # <<>>
             PROVE  \/ file'[i - 1] # <<>>
                    \/ i - 1 = shift' /\ (shift' > 1 => file'[shift' - 1] # <<>>)
  BY <1>1 DEF HoleInv
<1>2. faults = 0 /\ removed /\ renamed /\ ~torn
  BY <1>1, FaultGrows DEF LogInv, IInv, Shift
<1> DEFINE s == shift
<1>3. /\ s \in 1 .. maxBackupFiles /\ shift' = s - 1 /\ maxBackupFiles \in Nat
      /\ \A j \in 0 .. maxBackupFiles : j # s /\ j # s - 1 => file'[j] = file[j]
      /\ file'[s] = file[s - 1] /\ file'[s - 1] = <<>>
  <2>1. maxBackupFiles \in Nat
    BY SizeAssumption
  <2>2. /\ s \in Files /\ s > 0 /\ shift' = s - 1
        /\ \A j \in Files \ {s, s - 1} : file'[j] = file[j]
        /\ file'[s] = file[s - 1] /\ file'[s - 1] = <<>>
    BY <1>2, ShiftFiles DEF LogInv
  <2> HIDE DEF s
  <2> QED
    BY <2>1, <2>2 DEF Files
<1>4. s < maxBackupFiles => file[s] = <<>>
  BY <1>1, <1>2 DEF LogInv, SizeInv, RoomInv
<1>5. file[0] # <<>>
  <2>1. Len(file[0]) >= maxFileSize /\ maxFileSize \in Nat \ {0}
    BY <1>1, <1>3, SizeAssumption DEF LogInv, SizeInv, CountInv
  <2> QED
    BY <2>1
<1>6. \A j \in 2 .. maxBackupFiles : file[j] # <<>> =>
        \/ file[j - 1] # <<>>
        \/ j - 1 = s /\ (s > 1 => file[s - 1] # <<>>)
  BY <1>2 DEF HoleInv
<1> HIDE DEF s
<1>7. CASE i = s + 1
  <2>1. s < maxBackupFiles /\ i # s /\ i # s - 1 /\ i - 1 = s /\ i \in 0 .. maxBackupFiles
    BY <1>3, <1>7
  <2>2. file[i] # <<>> /\ file[s] = <<>>
    BY <1>3, <1>4, <2>1
  <2>3. s > 1 => file[s - 1] # <<>>
    BY <1>6, <2>1, <2>2
  <2>4. s = 1 => s - 1 = 0
    OBVIOUS
  <2>5. file[s - 1] # <<>>
    BY <1>3, <1>5, <2>3, <2>4
  <2> QED
    BY <1>3, <2>1, <2>5
<1>8. CASE i = s
  <2>1. file[s - 1] # <<>>
    BY <1>3, <1>8
  <2>2. CASE s - 1 > 1
    <3> DEFINE k == s - 1
    <3>1. k \in 2 .. maxBackupFiles /\ k - 1 # s /\ k - 1 # s - 1 /\ k - 1 \in 0 .. maxBackupFiles
      BY <1>3, <2>2
    <3>2. file[k] # <<>>
      BY <2>1
    <3> HIDE DEF k
    <3>3. file[k - 1] # <<>>
      BY <1>6, <3>1, <3>2
    <3>4. file'[k - 1] # <<>>
      BY <1>3, <3>1, <3>3
    <3> QED
      BY <1>3, <1>8, <3>4 DEF k
  <2>3. CASE ~(s - 1 > 1)
    BY <1>3, <1>8, <2>3
  <2> QED
    BY <2>2, <2>3
<1>9. CASE i # s /\ i # s + 1
  <2>1. i # s - 1 /\ i \in 0 .. maxBackupFiles
    BY <1>3
  <2>2. file[i] # <<>>
    BY <1>3, <1>9, <2>1
  <2>3. i - 1 # s /\ i - 1 # s - 1 /\ i - 1 \in 0 .. maxBackupFiles
    BY <1>3, <1>9
  <2>4. file[i - 1] # <<>>
    BY <1>6, <2>2, <2>3
  <2> QED
    BY <1>3, <2>3, <2>4
<1> QED
  BY <1>7, <1>8, <1>9

LEMMA EndHoles ==
  ASSUME LogInv, HoleInv, NEW n \in 0 .. Len(buffer), End(n) PROVE HoleInv'
<1>1. /\ \A i \in Files \ {0} : file'[i] = file[i]
      /\ shift' = 0 /\ output' = "NULL" /\ faults' = faults
      /\ torn' = (torn \/ shift \in 1 .. maxBackupFiles - 1)
  BY SizeTypes DEF End, LogInv
<1> SUFFICES ASSUME faults' = 0, ~torn', NEW i \in 2 .. maxBackupFiles, file'[i] # <<>>
             PROVE  file'[i - 1] # <<>>
  BY <1>1 DEF HoleInv
<1>2. i \in Files \ {0} /\ i - 1 \in Files \ {0} /\ i - 1 \in 1 .. maxBackupFiles - 1
  BY SizeAssumption DEF Files
<1>3. faults = 0 /\ ~torn /\ i - 1 # shift /\ file[i] # <<>>
  BY <1>1, <1>2
<1>4. file[i - 1] # <<>>
  BY <1>3 DEF HoleInv
<1> QED
  BY <1>1, <1>2, <1>4

LEMMA NextHoles == LogInv /\ HoleInv /\ [Next]_vars => HoleInv'
<1> SUFFICES ASSUME LogInv, HoleInv, [Next]_vars PROVE HoleInv'
  OBVIOUS
<1>1. Len(buffer) \in 0 .. Len(buffer) /\ IInv /\ file \in [Files -> Seq(Nat)]
  BY SizeTypes DEF LogInv
<1>2. ASSUME UNCHANGED <<file, output, shift, torn, faults>> PROVE HoleInv'
  BY <1>1, <1>2, KeptHoles DEF HoleInv
<1>3. ASSUME NEW n \in 0 .. Len(buffer), End(n) PROVE HoleInv'
  BY <1>3, EndHoles
<1>4. ASSUME NEW t \in Threads, Step(t) PROVE HoleInv'
  <2>1. CASE Lock(t)
    BY <1>2, <2>1 DEF Lock, processVars, outVars
  <2>2. CASE Exit(t)
    BY <1>1, <1>3, <2>2 DEF Exit
  <2>3. CASE \E s \in Signals : Signal(t, s)
    BY <1>2, <2>3 DEF Signal, processVars, outVars
  <2>4. CASE Progress(t)
    <3>1. ASSUME NEW ok \in BOOLEAN, InitFileLogger(ok) PROVE HoleInv'
      <4>1. "init" \in Critical /\ At(main, "init") /\ main \in Threads
        BY <3>1, ThreadAssumption DEF Critical, InitFileLogger
      <4>2. output = "NULL"
        BY <4>1, DoingFacts DEF LogInv, SizeInv, OutputInv
      <4>3. shift = 0
        BY <4>2 DEF HoleInv
      <4>4. faults' = 0 => faults = 0
        BY <1>1, <3>1, FaultGrows DEF IInv, InitFileLogger
      <4>5. UNCHANGED <<file, shift, torn>>
        BY <3>1 DEF InitFileLogger, processVars
      <4> QED
        BY <1>1, <4>3, <4>4, <4>5, KeptHoles
    <3>2. CASE NoRotation(t)
      BY <1>2, <3>2 DEF NoRotation, processVars, outVars
    <3>3. CASE BeginRotation(t)
      <4>1. "rotate" \in Critical /\ At(t, "rotate") /\ "shift" \in Critical /\ "shift" # "rotate"
        BY <3>3 DEF Critical, BeginRotation
      <4>2. output # "closed"
        BY <1>1, <4>1, DoingFacts DEF LogInv, SizeInv, OutputInv
      <4>3. shift = 0
        BY <4>2 DEF HoleInv
      <4>4. \A i \in Files \ {0} : file'[i] = file[i]
        BY <1>1, <3>3 DEF BeginRotation
      <4>5. UNCHANGED <<torn, faults>> /\ output' = "closed"
        BY <3>3 DEF BeginRotation, processVars
      <4> QED
        BY <1>1, <4>3, <4>4, <4>5, KeptHoles
    <3>4. CASE \E removed, renamed \in BOOLEAN : Shift(t, removed, renamed)
      BY <3>4, ShiftHoles
    <3>5. ASSUME NEW ok \in BOOLEAN, Reopen(t, ok) PROVE HoleInv'
      <4>1. shift = 0 /\ UNCHANGED <<file, shift, torn>>
        BY <3>5 DEF Reopen, processVars
      <4>2. faults' = 0 => faults = 0
        BY <1>1, <3>5, FaultGrows DEF IInv, Reopen
      <4> QED
        BY <1>1, <4>1, <4>2, KeptHoles
    <3>6. CASE WriteText(t)
      BY <1>2, <3>6 DEF WriteText, processVars
    <3>7. CASE WriteEnd(t)
      BY <1>2, <3>7 DEF WriteEnd, processVars
    <3>8. CASE Unlock(t)
      BY <1>2, <3>8 DEF Unlock, processVars, outVars
    <3>9. CASE ExitHandler(t)
      BY <1>1, <1>3, <3>9 DEF ExitHandler
    <3>10. CASE \E n \in 0 .. Len(buffer) : CloseNull(t, n)
      BY <1>3, <3>10 DEF CloseNull
    <3> QED
      BY <2>1, <2>4, <3>1, <3>2, <3>3, <3>4, <3>5, <3>6, <3>7, <3>8, <3>9, <3>10 DEF Progress
  <2> QED
    BY <1>4, <2>1, <2>2, <2>3, <2>4 DEF Step
<1>5. CASE StartThreads
  BY <1>2, <1>5 DEF StartThreads, outVars
<1>6. CASE \E n \in 0 .. Len(buffer) : Crash(n)
  BY <1>3, <1>6 DEF Crash
<1>7. CASE Boot
  BY <1>2, <1>7 DEF Boot, outVars
<1>8. CASE UNCHANGED vars
  BY <1>2, <1>8 DEF vars, processVars, outVars
<1> QED
  BY <1>4, <1>5, <1>6, <1>7, <1>8 DEF Next

LEMMA RollInvariance == Spec => []RollInv
<1>1. Init => RollInv
  BY InitLogInv, InitHoles DEF RollInv
<1>2. RollInv /\ [Next]_vars => RollInv'
  BY NextLog, NextHoles DEF RollInv
<1> QED
  BY <1>1, <1>2, PTL DEF Spec

-----------------------------------------------------------------------------
(* The log is a rolling log. *)

\* A step of the rolling log, or none.
Rolls == Rolling!Next \/ UNCHANGED Rolling!rollingVars

LEMMA InitRolls == Init => Rolling!Init
<1> SUFFICES ASSUME Init PROVE Rolling!Init
  OBVIOUS
<1>1. Log = <<>> /\ buffer = <<>> /\ Len(<<>>) = 0
  BY EmptyLog DEF Init
<1>2. \A q \in {"rotate", "shift", "text", "end"} : ~Doing(q)
  BY DoingBoot DEF Critical
<1>3. Written = LINE
  BY <1>2 DEF Written
<1>4. Len(Log) - Len(buffer) = 0
  BY <1>1
<1>5. serial = 0 /\ torn = FALSE /\ (faults > 0) = FALSE
  BY DEF Init
<1> QED
  BY <1>1, <1>3, <1>4, <1>5 DEF Rolling!Init

\* What of the log is read from variables that do not change does not change.
LEMMA StuttersRolls ==
  ASSUME UNCHANGED <<file, buffer, serial, torn, faults>>, Written' = Written
  PROVE  Rolls
<1>1. Log' = Log
  BY SameLog
<1> QED
  BY <1>1 DEF Rolls, Rolling!rollingVars

\* The owner of the mutex is at one place of the critical section.
LEMMA WrittenFacts ==
  ASSUME IInv
  PROVE  /\ Written \in 0 .. LINE
         /\ owner = Nobody => Written = LINE
         /\ \A t \in Threads, pc \in Critical : At(t, pc) =>
              Written = IF pc \in {"rotate", "shift", "text"} THEN 0
                        ELSE IF pc = "end" THEN 1 ELSE LINE
<1>1. Written \in 0 .. LINE
  BY DEF Written, LINE
<1>2. owner = Nobody => Written = LINE
  BY DoingNothing DEF Written, Critical
<1>3. ASSUME NEW t \in Threads, NEW pc \in Critical, At(t, pc)
      PROVE  Written = IF pc \in {"rotate", "shift", "text"} THEN 0
                       ELSE IF pc = "end" THEN 1 ELSE LINE
  <2>1. \A q \in {"rotate", "shift", "text", "end"} : Doing(q) <=> q = pc
    BY <1>3, DoingFacts DEF Critical
  <2> QED
    BY <2>1 DEF Written
<1> QED
  BY <1>1, <1>2, <1>3

\* And goes to one.
LEMMA WrittenPut ==
  ASSUME IInv, NEW t \in Threads, stack[t] # <<>>, NEW f \in Frames, Put(t, f),
         owner = Nobody \/ owner = <<t, Depth(t)>>
  PROVE  Written' = IF f.pc \in {"rotate", "shift", "text"} THEN 0
                    ELSE IF f.pc = "end" THEN 1 ELSE LINE
<1>1. \A q \in {"rotate", "shift", "text", "end"} : Doing(q)' <=> q = f.pc
  BY DoingPut DEF Critical
<1> QED
  BY <1>1 DEF Written

LEMMA WrittenGoto ==
  ASSUME IInv, NEW t \in Threads, NEW pc \in Critical, At(t, pc), NEW to \in Pcs, Goto(t, to)
  PROVE  Written' = IF to \in {"rotate", "shift", "text"} THEN 0
                    ELSE IF to = "end" THEN 1 ELSE LINE
<1>1. \A q \in {"rotate", "shift", "text", "end"} : Doing(q)' <=> q = to
  BY DoingGoto DEF Critical
<1> QED
  BY <1>1 DEF Written

\* What the buffer and the log have in common.
LEMMA KeptFacts ==
  ASSUME IInv
  PROVE  /\ Log \in Seq(Nat) /\ Len(Log) \in Nat /\ Len(buffer) \in Nat
         /\ Len(Log) - Len(buffer) \in 0 .. Len(Log)
         /\ SubSeq(Log, 1, Len(Log)) = Log
<1> DEFINE N == maxBackupFiles
           b == buffer
           c == <<>>
<1>1. N \in Nat /\ file \in [0 .. N -> Seq(Nat)] /\ b \in Seq(Nat) /\ c \in Seq(Nat)
      /\ file[0] \in Seq(Nat) /\ Log \in Seq(Nat) /\ Log = From(file, b, N)[N]
  BY LogTypes, LogIs
<1>2. file[0] \o b = (file[0] \o c) \o b
  BY <1>1, ConcatEmptySeq
<1> HIDE DEF N, b, c
<1>3. From(file, b, N)[N] = From(file, c, N)[N] \o b
  <2>1. Continues(file, b, file, c, b, N)
    BY <1>1, <1>2 DEF Continues
  <2> QED
    BY ONLY <2>1, FromTail
<1>4. From(file, c, N)[N] \in Seq(Nat)
  BY <1>1, FromType
<1>5. Len(Log) = Len(From(file, c, N)[N]) + Len(b)
  BY <1>1, <1>3, <1>4, ConcatProperties
<1>6. Len(From(file, c, N)[N]) \in Nat /\ Len(b) \in Nat /\ Len(Log) \in Nat
  BY <1>1, <1>4, LenProperties
<1>7. Len(Log) - Len(b) \in 0 .. Len(Log)
  BY <1>5, <1>6
<1> QED
  BY <1>1, <1>6, <1>7, WholeFacts DEF b

LEMMA SignalRolls ==
  ASSUME RollInv, NEW t \in Threads, NEW s \in Signals, Signal(t, s) PROVE Rolls
<1>1. \A q \in {"rotate", "shift", "text", "end"} : Doing(q)' <=> Doing(q)
  BY DoingSignal DEF RollInv, LogInv, Critical
<1>2. Written' = Written
  BY <1>1 DEF Written
<1> QED
  BY <1>2, StuttersRolls DEF Signal, processVars, outVars

LEMMA StartThreadsRolls == ASSUME RollInv, StartThreads PROVE Rolls
<1>1. \A q \in {"rotate", "shift", "text", "end"} : ~Doing(q) /\ ~Doing(q)'
  BY DoingStart DEF RollInv, LogInv, Critical
<1>2. Written' = Written
  BY <1>1 DEF Written
<1> QED
  BY <1>2, StuttersRolls DEF StartThreads, outVars

LEMMA BootRolls == ASSUME RollInv, Boot PROVE Rolls
<1>1. \A q : ~Doing(q)
  BY DEF RollInv, LogInv, SizeInv, DownInv, Boot, Doing
<1>2. \A q \in {"rotate", "shift", "text", "end"} : ~Doing(q)'
  BY DoingBoot DEF Critical
<1>3. Written' = Written
  BY <1>1, <1>2 DEF Written
<1> QED
  BY <1>3, StuttersRolls DEF Boot, outVars

LEMMA UnlockRolls == ASSUME RollInv, NEW t \in Threads, Unlock(t) PROVE Rolls
<1> DEFINE left == IF Top(t).left > 0 THEN Top(t).left - 1 ELSE 0
           f == [Top(t) EXCEPT !.pc = "run", !.num = 0, !.left = left]
<1>1. "unlock" \in Critical /\ At(t, "unlock") /\ Put(t, f) /\ IInv
  BY DEF Critical, Unlock, RollInv, LogInv
<1>2. stack[t] # <<>> /\ owner = <<t, Depth(t)>>
  BY <1>1, OwnerFacts
<1>3. f \in Frames /\ f.pc = "run"
  <2>1. Top(t) \in Frames
    BY <1>1, <1>2, TopFacts DEF IInv
  <2>2. left \in 0 .. 2
    BY <2>1 DEF Frames
  <2> HIDE DEF left
  <2> QED
    BY <2>1, <2>2 DEF Frames, Pcs
<1> HIDE DEF f
<1>4. Written' = LINE
  BY <1>1, <1>2, <1>3, WrittenPut
<1>5. Written = LINE
  BY <1>1, WrittenFacts
<1> QED
  BY <1>4, <1>5, StuttersRolls DEF Unlock, processVars, outVars

\* A message begins, or is lost because the log could not be opened.
LEMMA LockRolls == ASSUME RollInv, NEW t \in Threads, Lock(t) PROVE Rolls
<1> DEFINE to == IF fileLogger THEN "rotate" ELSE "unlock"
           f == [Top(t) EXCEPT !.pc = to, !.num = serial + 1]
<1>1. stack[t] # <<>> /\ owner = Nobody /\ Put(t, f) /\ serial' = serial + 1 /\ IInv
  BY DEF Lock, At, Free, RollInv, LogInv
<1>2. f \in Frames /\ f.pc = to
  <2>1. Top(t) \in Frames /\ serial + 1 \in Nat
    BY <1>1, TopFacts DEF IInv, TypeOK
  <2> QED
    BY <2>1 DEF Frames, Pcs, Critical
<1> HIDE DEF f
<1>3. Written = LINE
  BY <1>1, WrittenFacts
<1>4. Written' = IF fileLogger THEN 0 ELSE LINE
  BY <1>1, <1>2, WrittenPut
<1>5. UNCHANGED <<up, torn, file, buffer, faults>> /\ Log' = Log
  BY SameLog DEF Lock, processVars, outVars
<1>6. CASE fileLogger
  BY <1>1, <1>3, <1>4, <1>5, <1>6 DEF Rolls, Rolling!Next, Rolling!Begin
<1>7. CASE ~fileLogger
  <2>1. up /\ ~Doing("init")
    BY <1>1, DoingNothing DEF RollInv, LogInv, SizeInv, DownInv, Critical
  <2>2. faults > 0
    BY <1>7, <2>1, SizeTypes DEF RollInv, LogInv, NewestLogged
  <2>3. Rolling!Fail
    BY <1>1, <1>3, <1>4, <1>5, <1>7, <2>2 DEF Rolling!Fail
  <2> QED
    BY <2>3 DEF Rolls, Rolling!Next
<1> QED
  BY <1>6, <1>7

\* A failing call: the message that is being written may not be written.
LEMMA FailRolls ==
  ASSUME UNCHANGED <<file, buffer, serial, torn>>, faults' > 0, Written' \in {Written, LINE}
  PROVE  Rolls
<1>1. Log' = Log
  BY SameLog
<1>2. Rolling!Fail
  BY <1>1 DEF Rolling!Fail
<1> QED
  BY <1>2 DEF Rolls, Rolling!Next

LEMMA InitFileLoggerRolls ==
  ASSUME RollInv, NEW ok \in BOOLEAN, InitFileLogger(ok) PROVE Rolls
<1>1. /\ "init" \in Critical /\ At(main, "init") /\ main \in Threads /\ Goto(main, "run")
      /\ "run" \in Pcs /\ IInv
  BY ThreadAssumption DEF Critical, Pcs, InitFileLogger, RollInv, LogInv
<1>2. Written = LINE /\ Written' = LINE
  BY <1>1, WrittenFacts, WrittenGoto
<1>3. UNCHANGED <<file, buffer, serial, torn>> /\ Fault(~ok)
  BY DEF InitFileLogger, processVars
<1>4. CASE ok
  BY <1>2, <1>3, <1>4, StuttersRolls DEF Fault
<1>5. CASE ~ok
  <2>1. faults' > 0
    BY <1>1, <1>3, <1>5, SizeTypes DEF Fault
  <2> QED
    BY <1>2, <1>3, <2>1, FailRolls
<1> QED
  BY <1>4, <1>5

LEMMA NoRotationRolls == ASSUME RollInv, NEW t \in Threads, NoRotation(t) PROVE Rolls
<1> DEFINE to == IF output = "NULL" THEN "unlock" ELSE "text"
<1>1. "rotate" \in Critical /\ At(t, "rotate") /\ Goto(t, to) /\ to \in Pcs /\ IInv
  BY DEF Critical, NoRotation, Pcs, RollInv, LogInv
<1>2. UNCHANGED <<file, buffer, serial, torn, faults>>
  BY DEF NoRotation, processVars, outVars
<1>3. Written = 0 /\ Written' = IF output = "NULL" THEN LINE ELSE 0
  BY <1>1, WrittenFacts, WrittenGoto
<1>4. CASE output # "NULL"
  BY <1>2, <1>3, <1>4, StuttersRolls
<1>5. CASE output = "NULL"
  <2>1. Doing("rotate") /\ ~Doing("init") /\ up
    BY <1>1, DoingFacts DEF Critical, At, RollInv, LogInv, SizeInv, DownInv
  <2>2. faults > 0
    BY <1>1, <1>5, <2>1, SizeTypes DEF RollInv, LogInv, NewestLogged
  <2> QED
    BY <1>2, <1>3, <1>5, <2>2, FailRolls
<1> QED
  BY <1>4, <1>5

\* fclose writes everything that is buffered.
LEMMA BeginRotationRolls == ASSUME RollInv, NEW t \in Threads, BeginRotation(t) PROVE Rolls
<1>1. /\ "rotate" \in Critical /\ At(t, "rotate") /\ Goto(t, "shift") /\ "shift" \in Pcs /\ IInv
  BY DEF Critical, BeginRotation, Pcs, RollInv, LogInv
<1>2. Written = 0 /\ Written' = 0
  BY <1>1, WrittenFacts, WrittenGoto
<1>3. /\ UNCHANGED <<serial, torn, faults>> /\ buffer' = <<>>
      /\ file' = [file EXCEPT ![0] = file[0] \o buffer]
  BY DEF BeginRotation, processVars
<1>4. Log' = Log
  BY <1>1, <1>3, RotatedLog
<1>5. Len(Log) - Len(buffer') = Len(Log)
  BY <1>1, <1>3, KeptFacts
<1> QED
  BY <1>2, <1>3, <1>4, <1>5 DEF Rolls, Rolling!Next, Rolling!Keep

LEMMA ReopenRolls ==
  ASSUME RollInv, NEW t \in Threads, NEW ok \in BOOLEAN, Reopen(t, ok) PROVE Rolls
<1>1. /\ "shift" \in Critical /\ At(t, "shift") /\ Goto(t, AfterReopen(ok))
      /\ AfterReopen(ok) \in Pcs /\ IInv
  BY DEF Critical, Reopen, AfterReopen, Pcs, RollInv, LogInv
<1>2. Written = 0 /\ Written' = IF ok THEN 0 ELSE LINE
  BY <1>1, WrittenFacts, WrittenGoto DEF AfterReopen
<1>3. UNCHANGED <<file, buffer, serial, torn>> /\ Fault(~ok)
  BY DEF Reopen, processVars
<1>4. CASE ok
  BY <1>2, <1>3, <1>4, StuttersRolls DEF Fault
<1>5. CASE ~ok
  <2>1. faults' > 0
    BY <1>1, <1>3, <1>5, SizeTypes DEF Fault
  <2> QED
    BY <1>2, <1>3, <1>5, <2>1, FailRolls
<1> QED
  BY <1>4, <1>5

\* A piece of the message.
LEMMA WriteRolls ==
  ASSUME IInv, UNCHANGED <<file, serial, torn, faults>>, buffer' = Append(buffer, serial),
         Written < LINE, Written' = Written + 1
  PROVE  Rolls
<1>1. Log' = Append(Log, serial)
  BY AppendedLog, LogTypes, AppendIsConcat
<1>2. Len(Log') - Len(buffer') = Len(Log) - Len(buffer)
  <2>1. Len(Log') = Len(Log) + 1 /\ Len(buffer') = Len(buffer) + 1
    BY <1>1, LogTypes
  <2> QED
    BY <2>1, KeptFacts
<1> QED
  BY <1>1, <1>2 DEF Rolls, Rolling!Next, Rolling!Write

LEMMA WriteTextRolls == ASSUME RollInv, NEW t \in Threads, WriteText(t) PROVE Rolls
<1>1. /\ "text" \in Critical /\ At(t, "text") /\ Goto(t, "end") /\ "end" \in Pcs /\ IInv
  BY DEF Critical, WriteText, Pcs, RollInv, LogInv
<1>2. Written = 0 /\ Written' = 1
  BY <1>1, WrittenFacts, WrittenGoto
<1>3. UNCHANGED <<file, serial, torn, faults>> /\ buffer' = Append(buffer, serial)
  BY <1>1, OwnerFacts DEF WriteText, processVars
<1> QED
  BY <1>1, <1>2, <1>3, WriteRolls DEF LINE

LEMMA WriteEndRolls == ASSUME RollInv, NEW t \in Threads, WriteEnd(t) PROVE Rolls
<1>1. /\ "end" \in Critical /\ At(t, "end") /\ Goto(t, "unlock") /\ "unlock" \in Pcs /\ IInv
  BY DEF Critical, WriteEnd, Pcs, RollInv, LogInv
<1>2. Written = 1 /\ Written' = LINE
  BY <1>1, WrittenFacts, WrittenGoto
<1>3. UNCHANGED <<file, serial, torn, faults>> /\ buffer' = Append(buffer, serial)
  BY <1>1, OwnerFacts DEF WriteEnd, processVars
<1> QED
  BY <1>1, <1>2, <1>3, WriteRolls DEF LINE

LEMMA PartFacts ==
  ASSUME NEW s \in Seq(Nat), NEW lo \in 1 .. Len(s) + 1, NEW hi \in lo - 1 .. Len(s)
  PROVE  /\ SubSeq(s, lo, hi) \in Seq(Nat) /\ Len(SubSeq(s, lo, hi)) = hi - lo + 1
         /\ \A i \in 1 .. hi - lo + 1 : SubSeq(s, lo, hi)[i] = s[lo + i - 1]
  OBVIOUS

\* What remains when the part in the middle is taken out.
LEMMA CutFacts ==
  ASSUME NEW a \in Seq(Nat), NEW b \in Seq(Nat), NEW c \in Seq(Nat), NEW s, s = a \o (b \o c)
  PROVE  /\ s \in Seq(Nat) /\ Len(s) = Len(a) + Len(b) + Len(c)
         /\ SubSeq(s, 1, Len(a)) = a
         /\ SubSeq(s, Len(a) + Len(b) + 1, Len(s)) = c
<1> DEFINE m == Len(a)
           n == Len(b)
           k == Len(c)
           bc == b \o c
<1>1. m \in Nat /\ n \in Nat /\ k \in Nat
  OBVIOUS
<1>2. /\ bc \in Seq(Nat) /\ Len(bc) = n + k
      /\ \A i \in 1 .. n + k : bc[i] = IF i <= n THEN b[i] ELSE c[i - n]
  BY ConcatProperties
<1> HIDE DEF bc
<1>3. /\ s \in Seq(Nat) /\ Len(s) = m + (n + k)
      /\ \A i \in 1 .. m + (n + k) : s[i] = IF i <= m THEN a[i] ELSE bc[i - m]
  BY <1>2, ConcatProperties DEF bc
<1>4. SubSeq(s, 1, m) = a
  <2> DEFINE q == SubSeq(s, 1, m)
  <2>1. q \in Seq(Nat) /\ Len(q) = m /\ \A i \in 1 .. m : q[i] = s[i]
    BY <1>1, <1>3
  <2>2. \A i \in 1 .. m : s[i] = a[i]
    BY <1>1, <1>3
  <2> HIDE DEF q
  <2>3. q = a
    BY <2>1, <2>2, SeqEqual
  <2> QED
    BY <2>3 DEF q
<1>5. SubSeq(s, m + n + 1, Len(s)) = c
  <2> DEFINE lo == m + n + 1
             hi == m + (n + k)
             q == SubSeq(s, lo, hi)
  <2>1. q \in Seq(Nat) /\ Len(q) = k /\ \A i \in 1 .. k : q[i] = s[m + n + i]
    <3>1. /\ lo \in 1 .. Len(s) + 1 /\ hi \in lo - 1 .. Len(s) /\ hi - lo + 1 = k
          /\ \A i \in 1 .. k : lo + i - 1 = m + n + i
      BY <1>1, <1>3
    <3> HIDE DEF lo, hi
    <3>2. q \in Seq(Nat) /\ Len(q) = hi - lo + 1
          /\ \A i \in 1 .. hi - lo + 1 : q[i] = s[lo + i - 1]
      BY ONLY <1>3, <3>1, PartFacts
    <3> QED
      BY <3>1, <3>2
  <2>2. ASSUME NEW i \in 1 .. k PROVE s[m + n + i] = c[i]
    <3> DEFINE j == m + n + i
               h == n + i
    <3>1. /\ j \in 1 .. m + (n + k) /\ ~(j <= m) /\ j - m = h
          /\ h \in 1 .. n + k /\ ~(h <= n) /\ h - n = i
      BY <1>1
    <3> HIDE DEF j, h, m, n, k
    <3>2. s[j] = bc[h]
      BY <1>3, <3>1
    <3>3. bc[h] = c[i]
      BY <1>2, <3>1
    <3> QED
      BY <3>2, <3>3 DEF j
  <2> HIDE DEF q
  <2>3. q = c
    BY <2>1, <2>2, SeqEqual
  <2> QED
    BY <1>3, <2>3 DEF q
<1> QED
  BY <1>1, <1>3, <1>4, <1>5

\* When the oldest backup is given up, maxBackupFiles full files stay.
LEMMA Retained ==
  ASSUME RollInv, faults = 0, ~torn, output = "closed",
         shift = maxBackupFiles, shift > 0, file[shift] # <<>>
  PROVE  Len(Log) >= Len(file[shift]) + maxBackupFiles * maxFileSize
<1> DEFINE N == maxBackupFiles
           M == maxFileSize
           k == N - 1
<1>1. /\ N \in Nat /\ N > 0 /\ k \in 0 .. N - 1 /\ k \in 0 .. N /\ k + 1 = N /\ N \in 0 .. N
      /\ k \in Nat /\ M \in Nat
      /\ file \in [0 .. N -> Seq(Nat)] /\ buffer \in Seq(Nat) /\ Log = From(file, buffer, N)[N]
  BY LogTypes, LogIs, SizeAssumption DEF RollInv, LogInv
<1>2. \A i \in 2 .. N : file[i] # <<>> => file[i - 1] # <<>>
  BY <1>1 DEF RollInv, HoleInv
<1>3. \A i \in 1 .. N : file[i] # <<>>
  <2> DEFINE S == {j \in 0 .. k : file[N - j] # <<>>}
  <2>1. 0 \in S
    <3>1. N - 0 = N /\ 0 \in 0 .. k
      BY <1>1
    <3> QED
      BY <3>1
  <2>2. ASSUME NEW j \in 0 .. k - 1, j \in S PROVE j + 1 \in S
    <3>1. N - j \in 2 .. N /\ (N - j) - 1 = N - (j + 1) /\ j + 1 \in 0 .. k
      BY <1>1
    <3> QED
      BY <1>2, <2>2, <3>1
  <2> HIDE DEF S
  <2>3. \A j \in 0 .. k : j \in S
    BY <1>1, <2>1, <2>2, InductionTo
  <2>4. ASSUME NEW i \in 1 .. N PROVE file[i] # <<>>
    <3>1. N - i \in 0 .. k /\ N - (N - i) = i
      BY <1>1
    <3> QED
      BY <2>3, <3>1 DEF S
  <2> QED
    BY <2>4
<1>4. ASSUME NEW i \in 0 .. k PROVE Len(file[i]) >= M
  <2>1. CASE i = 0
    BY <2>1 DEF RollInv, LogInv, SizeInv, CountInv
  <2>2. CASE i # 0
    <3>1. i \in Files \ {0} /\ i \in 1 .. N
      BY <1>1, <2>2 DEF Files
    <3> QED
      BY <1>3, <3>1 DEF RollInv, LogInv, SizeInv, BackupSizes, Exists
  <2> QED
    BY <2>1, <2>2
<1> HIDE DEF N, M, k
<1>5. Len(From(file, buffer, N)[k]) >= (k + 1) * M
  BY <1>1, <1>4, FromFull
<1>6. From(file, buffer, N)[k + 1] = file[k + 1] \o From(file, buffer, N)[k]
      /\ From(file, buffer, N)[k] \in Seq(Nat)
  BY <1>1, FromFacts
<1>7. Log = file[N] \o From(file, buffer, N)[k] /\ file[N] \in Seq(Nat)
  BY <1>1, <1>6
<1>8. Len(Log) = Len(file[N]) + Len(From(file, buffer, N)[k])
  BY <1>6, <1>7, ConcatProperties
<1> DEFINE x == Len(From(file, buffer, N)[k])
           y == Len(file[N])
           z == N * M
<1>9. /\ x \in Nat /\ y \in Nat /\ z \in Nat /\ x >= z /\ Len(Log) = y + x
  <2>1. \A u, v \in Nat : u * v \in Nat
    OBVIOUS
  <2> QED
    BY <1>1, <1>5, <1>6, <1>7, <1>8, <2>1, LenProperties
<1> HIDE DEF x, y, z
<1>10. Len(Log) >= y + z
  BY <1>9
<1> QED
  BY <1>10 DEF y, z, N, M

\* A turn of the loop gives up one full file, or nothing; a failed call costs at most
\* the file whose place is taken.
LEMMA ShiftRolls ==
  ASSUME RollInv, NEW t \in Threads, NEW removed \in BOOLEAN, NEW renamed \in BOOLEAN,
         Shift(t, removed, renamed)
  PROVE  Rolls
<1>1. "shift" \in Critical /\ At(t, "shift") /\ IInv /\ SizeInv
  BY DEF Critical, Shift, RollInv, LogInv
<1>2. UNCHANGED <<stack, serial, torn, buffer>> /\ Fault(~removed \/ ~renamed)
  BY DEF Shift, processVars, threadVars, outVars
<1>3. Written' = Written
  BY <1>2 DEF Written, Doing
<1>4. output = "closed" /\ buffer = <<>>
  BY <1>1, DoingFacts DEF SizeInv, OutputInv
<1>5. shift \in Files /\ shift > 0 /\ file[shift] \in Seq(Nat) /\ shift \in Nat
      /\ maxBackupFiles \in Nat /\ shift <= maxBackupFiles
  BY <1>1, ShiftFiles, SizeTypes DEF Files
<1>6. PICK older, newer \in Seq(Nat) :
        /\ Log = older \o (file[shift] \o newer)
        /\ Log' \in {Log, older \o newer}
        /\ shift = maxBackupFiles => older = <<>>
  BY <1>1, <1>4, ShiftedLog
<1> DEFINE m == Len(older)
           n == Len(file[shift])
<1>7. /\ Log \in Seq(Nat) /\ Len(Log) = m + n + Len(newer)
      /\ SubSeq(Log, 1, m) = older /\ SubSeq(Log, m + n + 1, Len(Log)) = newer
  <2> DEFINE b == file[shift]
             c == Log
  <2>1. b \in Seq(Nat) /\ c = older \o (b \o newer)
    BY <1>5, <1>6
  <2> HIDE DEF b, c
  <2>2. /\ c \in Seq(Nat) /\ Len(c) = Len(older) + Len(b) + Len(newer)
        /\ SubSeq(c, 1, Len(older)) = older
        /\ SubSeq(c, Len(older) + Len(b) + 1, Len(c)) = newer
    BY ONLY <2>1, CutFacts
  <2> QED
    BY <2>2 DEF b, c
<1>8. m \in Nat /\ n \in Nat /\ Len(newer) \in Nat /\ Len(buffer) = 0
      /\ Len(older \o newer) = m + Len(newer)
  BY <1>4, <1>5, ConcatProperties
<1> HIDE DEF m, n
<1>9. CASE Log' = Log /\ faults' = faults
  BY <1>2, <1>3, <1>9 DEF Rolls, Rolling!rollingVars
<1>10. CASE faults' # faults
  <2>1. faults' > 0
    BY <1>1, <1>2, <1>10, SizeTypes DEF Fault
  <2>2. CASE Log' = Log
    <3>1. Rolling!Fail
      BY <1>2, <1>3, <2>1, <2>2 DEF Rolling!Fail
    <3> QED
      BY <3>1 DEF Rolls, Rolling!Next
  <2>3. CASE Log' = older \o newer
    <3> DEFINE h == m + n
    <3>1. /\ m \in 0 .. Len(Log) - Len(buffer) /\ h \in 0 .. Len(Log) - Len(buffer) /\ m <= h
          /\ Len(Log') - Len(buffer) = (Len(Log) - Len(buffer)) - (h - m)
      <4>1. Len(Log') = m + Len(newer)
        BY <1>8, <2>3
      <4> QED
        BY <1>7, <1>8, <4>1
    <3>2. Log' = Rolling!Without(m, h)
      BY <1>7, <2>3 DEF Rolling!Without, Rolling!First
    <3> HIDE DEF h
    <3>3. Rolling!Fail
      BY <1>2, <1>3, <2>1, <3>1, <3>2 DEF Rolling!Fail
    <3> QED
      BY <3>3 DEF Rolls, Rolling!Next
  <2> QED
    BY <1>6, <2>2, <2>3
<1>11. CASE Log' # Log /\ faults' = faults /\ faults > 0
  <2> DEFINE h == m + n
  <2>1. /\ m \in 0 .. Len(Log) - Len(buffer) /\ h \in 0 .. Len(Log) - Len(buffer) /\ m <= h
        /\ Len(Log') - Len(buffer) = (Len(Log) - Len(buffer)) - (h - m)
    <3>1. Len(Log') = m + Len(newer)
      BY <1>6, <1>8, <1>11
    <3> QED
      BY <1>7, <1>8, <3>1
  <2>2. Log' = Rolling!Without(m, h)
    BY <1>6, <1>7, <1>11 DEF Rolling!Without, Rolling!First
  <2> HIDE DEF h
  <2>3. Rolling!Fail
    BY <1>2, <1>3, <1>11, <2>1, <2>2 DEF Rolling!Fail
  <2> QED
    BY <2>3 DEF Rolls, Rolling!Next
<1>12. CASE Log' # Log /\ faults' = faults /\ faults = 0
  <2>1. file[shift] # <<>>
    <3>1. <<>> \o newer = newer
      BY ConcatEmptySeq
    <3> QED
      BY <1>6, <1>12, <3>1
  <2>2. shift = maxBackupFiles
    BY <1>1, <1>4, <1>5, <1>12, <2>1 DEF SizeInv, RoomInv
  <2>3. older = <<>> /\ m = 0 /\ Log' = newer
    <3>1. older = <<>> /\ <<>> \o newer = newer /\ Len(<<>>) = 0
      BY <1>6, <2>2, ConcatEmptySeq
    <3> QED
      BY <1>6, <1>12, <3>1 DEF m
  <2>4. n >= maxFileSize /\ n < maxFileSize + LINE
    BY <1>1, <1>5, <1>12, <2>1 DEF SizeInv, BackupSizes, Exists, n
  <2>5. torn \/ Len(Log) - n >= maxBackupFiles * maxFileSize
    <3>1. ~torn => Len(Log) >= n + maxBackupFiles * maxFileSize
      BY <1>4, <1>5, <1>12, <2>1, <2>2, Retained DEF n
    <3>2. maxBackupFiles * maxFileSize \in Nat
      BY SizeAssumption
    <3> DEFINE z == maxBackupFiles * maxFileSize
    <3> HIDE DEF z
    <3>3. ~torn => Len(Log) - n >= z
      BY <1>7, <1>8, <3>1, <3>2 DEF z
    <3> QED
      BY <3>3 DEF z
  <2>6. Log' = Rolling!Without(0, n)
    <3>1. m + n + 1 = n + 1 /\ <<>> \o newer = newer
      BY <1>8, <2>3, ConcatEmptySeq
    <3>2. SubSeq(Log, 1, 0) = <<>> /\ SubSeq(Log, n + 1, Len(Log)) = newer
      BY <1>7, <2>3, <3>1
    <3> QED
      BY <2>3, <3>1, <3>2 DEF Rolling!Without, Rolling!First
  <2>7. /\ n <= Len(Log) - Len(buffer) /\ n \in 0 .. Len(Log)
        /\ Len(Log') - Len(buffer) = (Len(Log) - Len(buffer)) - n
    BY <1>7, <1>8, <2>3
  <2>8. Rolling!GiveUp(n)
    BY <1>2, <1>3, <1>12, <2>4, <2>5, <2>6, <2>7 DEF Rolling!GiveUp
  <2> QED
    BY <2>7, <2>8 DEF Rolls, Rolling!Next
<1> QED
  BY <1>1, <1>9, <1>10, <1>11, <1>12, SizeTypes

\* What is lost was in the buffer; the message that was being written ends.
LEMMA EndRolls ==
  ASSUME RollInv, NEW n \in 0 .. Len(buffer), End(n) PROVE Rolls
<1>1. IInv /\ SizeInv /\ HoleInv
  BY DEF RollInv, LogInv
<1>2. /\ file' = [file EXCEPT ![0] = file[0] \o SubSeq(buffer, 1, n)] /\ buffer' = <<>>
      /\ UNCHANGED <<serial, faults>> /\ torn' = (torn \/ shift \in 1 .. maxBackupFiles - 1)
  BY DEF End
<1>3. PICK r \in Seq(Nat) : Log' \in Seq(Nat) /\ Log = Log' \o r /\ Len(r) = Len(buffer) - n
  BY <1>1, <1>2, EndedLog
<1>4. /\ Len(Log) = Len(Log') + Len(r) /\ Len(Log') \in Nat
      /\ Len(Log) \in Nat /\ Len(buffer) \in Nat /\ Len(buffer') = 0
  BY <1>1, <1>2, <1>3, ConcatProperties, LenProperties, KeptFacts
<1> DEFINE k == Len(Log')
<1>5. /\ k \in 0 .. Len(Log) /\ Len(Log) - Len(buffer) <= k /\ Len(Log') - Len(buffer') = k
  BY <1>3, <1>4
<1>6. Log' = Rolling!First(k)
  <2> DEFINE c == <<>>
             a == Log'
  <2>1. c \in Seq(Nat) /\ r \o c = r /\ a \in Seq(Nat)
    BY <1>3, ConcatEmptySeq
  <2> HIDE DEF c, a
  <2>2. Log = a \o (r \o c)
    BY <1>3, <2>1 DEF a
  <2>3. SubSeq(Log, 1, Len(a)) = a
    BY <2>1, <2>2, CutFacts
  <2> QED
    BY <2>3 DEF a, Rolling!First
<1>7. Written' = LINE
  BY DoingEnd DEF Written
<1>8. torn' = torn \/ (Written = 0 /\ torn' = TRUE)
  <2>1. CASE shift \in 1 .. maxBackupFiles - 1
    <3>1. output = "closed"
      BY <1>1, <2>1 DEF HoleInv
    <3>2. Doing("shift")
      BY <1>1, <3>1 DEF SizeInv, OutputInv
    <3> QED
      BY <1>2, <2>1, <3>2 DEF Written
  <2>2. CASE ~(shift \in 1 .. maxBackupFiles - 1)
    <3>1. torn \in BOOLEAN
      BY <1>1 DEF IInv, TypeOK
    <3> QED
      BY <1>2, <2>2, <3>1, Zenon
  <2> QED
    BY <2>1, <2>2
<1> HIDE DEF k
<1>9. Rolling!Stop(k)
  BY <1>2, <1>5, <1>6, <1>7, <1>8 DEF Rolling!Stop
<1> QED
  BY <1>5, <1>9 DEF Rolls, Rolling!Next

LEMMA NextRolls == RollInv /\ [Next]_vars => Rolls
<1> SUFFICES ASSUME RollInv, [Next]_vars PROVE Rolls
  OBVIOUS
<1>1. Len(buffer) \in 0 .. Len(buffer)
  BY SizeTypes DEF RollInv, LogInv
<1>2. CASE UNCHANGED vars
  <2>1. Written' = Written
    BY <1>2 DEF Written, Doing, vars, threadVars
  <2> QED
    BY <1>2, <2>1, StuttersRolls DEF vars, processVars, threadVars, outVars
<1>3. ASSUME NEW t \in Threads, Step(t) PROVE Rolls
  <2>1. CASE Lock(t)
    BY <2>1, LockRolls
  <2>2. CASE Exit(t)
    BY <1>1, <2>2, EndRolls DEF Exit
  <2>3. CASE \E s \in Signals : Signal(t, s)
    BY <2>3, SignalRolls
  <2>4. CASE Progress(t)
    <3>1. CASE \E ok \in BOOLEAN : t = main /\ InitFileLogger(ok)
      BY <3>1, InitFileLoggerRolls
    <3>2. CASE NoRotation(t)
      BY <3>2, NoRotationRolls
    <3>3. CASE BeginRotation(t)
      BY <3>3, BeginRotationRolls
    <3>4. CASE \E removed, renamed \in BOOLEAN : Shift(t, removed, renamed)
      BY <3>4, ShiftRolls
    <3>5. CASE \E ok \in BOOLEAN : Reopen(t, ok)
      BY <3>5, ReopenRolls
    <3>6. CASE WriteText(t)
      BY <3>6, WriteTextRolls
    <3>7. CASE WriteEnd(t)
      BY <3>7, WriteEndRolls
    <3>8. CASE Unlock(t)
      BY <3>8, UnlockRolls
    <3>9. CASE ExitHandler(t)
      BY <1>1, <3>9, EndRolls DEF ExitHandler
    <3>10. CASE \E n \in 0 .. Len(buffer) : CloseNull(t, n)
      BY <3>10, EndRolls DEF CloseNull
    <3> QED
      BY <2>1, <2>4, <3>1, <3>2, <3>3, <3>4, <3>5, <3>6, <3>7, <3>8, <3>9, <3>10 DEF Progress
  <2> QED
    BY <1>3, <2>1, <2>2, <2>3, <2>4 DEF Step
<1>4. CASE StartThreads
  BY <1>4, StartThreadsRolls
<1>5. CASE \E n \in 0 .. Len(buffer) : Crash(n)
  BY <1>5, EndRolls DEF Crash
<1>6. CASE Boot
  BY <1>6, BootRolls
<1> QED
  BY <1>2, <1>3, <1>4, <1>5, <1>6 DEF Next

-----------------------------------------------------------------------------
(* What follows. *)

\* Every variable keeps its type.
THEOREM TypeCorrect == Spec => []TypeOK
<1>1. IInv => TypeOK
  BY DEF IInv
<1> QED
  BY <1>1, Invariance, PTL

\* s_mutex excludes: of all the frames of all the threads, signal handlers included,
\* the owner is the one that is rotating or writing.
THEOREM MutualExclusion == Spec => []Mutex
<1>1. IInv => Mutex
  BY DEF IInv
<1> QED
  BY <1>1, Invariance, PTL

\* The log, from its oldest backup to the newest line, is in the order in which the
\* mutex was taken, through rotations, failed calls, signals and ends of the process.
THEOREM LogInOrder == Spec => []InOrder
<1>1. IInv => InOrder
  BY DEF IInv
<1> QED
  BY <1>1, Invariance, PTL

\* A backup is a full file, and unless a call failed it is so by at most one line,
\* whatever processes wrote it: s_flog.currentFileSize is the size of the open file.
THEOREM BackupsAreFull == Spec => []BackupSizes
<1>1. LogInv => BackupSizes
  BY DEF LogInv, SizeInv
<1> QED
  BY <1>1, LogInvariance, PTL

\* As long as no call fails, no message between the first and the last one in the
\* files is missing, but at the end of a process whose buffer was lost.
THEOREM LogHasNoGap == Spec => []NoGap
<1>1. LogInv => NoGap
  BY NoGapIs DEF LogInv, NewestLogged
<1> QED
  BY <1>1, LogInvariance, PTL

\* The log as a whole is the rolling log: whatever the threads and handlers interleave,
\* each message is written once and whole, a rotation gives up one full file behind
\* which maxBackupFiles full ones are left, and failed calls and ends of the process
\* cost what RollingLog says and nothing else.
THEOREM LogRolls == Spec => RollingSpec
<1>1. Init => Rolling!Init
  BY InitRolls
<1>2. RollInv /\ [Next]_vars => [Rolling!Next]_(Rolling!rollingVars)
  BY NextRolls DEF Rolls
<1> QED
  BY <1>1, <1>2, RollInvariance, PTL DEF Spec, RollingSpec, Rolling!Spec
=============================================================================
