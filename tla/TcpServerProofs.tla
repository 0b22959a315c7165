--------------------------- MODULE TcpServerProofs ---------------------------
(***************************************************************************)
(* Theorems about TcpServer: for any clients, requests and devices, any    *)
(* backlog, buffer and number of descriptors, messages in any number of    *)
(* segments, any number of killed clients and of ends of the process.      *)
(***************************************************************************)
EXTENDS TcpServer, TLAPS

RequestParts == [of : Requests, part : Nat, total : Nat]
AnswerParts == [of : Answers, part : Nat, total : Nat]

\* The segments on the way, arrived and in the buffers are parts of requests and answers.
StreamInv ==
  /\ toServer \in [Clients -> Seq(RequestParts)]
  /\ arrived \in [Clients -> Seq(RequestParts)]
  /\ toClient \in [Clients -> Seq(AnswerParts)]
  /\ delivered \in [Clients -> Seq(AnswerParts)]
  /\ got \in [Clients -> Seq(AnswerParts) \cup {Nobody}]
  /\ recv_buf \in Seq(RequestParts)
  /\ backlog \in Seq(Clients)

PartsOf(segments, message) == \A i \in DOMAIN segments : segments[i].of = message
Pieces(segments, message, n) ==
  \A i \in DOMAIN segments : segments[i].of = message /\ segments[i].total = n

\* Three stretches of the stream of one message of n segments.
Stretches(s, t, u, message, n) ==
  /\ Pieces(s, message, n) /\ Pieces(t, message, n) /\ Pieces(u, message, n)
  /\ Len(s) + Len(t) + Len(u) <= n

Processing(c) == conn = c /\ server = "process"
InProcess(c) == IF Processing(c) THEN recv_buf ELSE <<>>

\* A connection without a request carries nothing.
SilentInv(c) ==
  /\ client[c] \in {"idle", "connected"} => request[c] = Nobody
  /\ request[c] = Nobody =>
       /\ toServer[c] = <<>> /\ arrived[c] = <<>> /\ ~Processing(c)
       /\ got[c] = Nobody /\ executed[c] = Nobody

\* What the server has not processed are parts of the one request, each at most once.
InPieces(c, n) == Stretches(toServer[c], arrived[c], InProcess(c), request[c], n)
RequestInv(c) == \E n \in Nat : InPieces(c, n)

\* The answer of c, unless it is empty, is on the way as soon as the server waits again.
Sent(c) ==
  conn = c /\ client[c] = "reading" /\ server # "send" =>
    toClient[c] # <<>> \/ delivered[c] # <<>> \/ executed[c].size = 0

\* A request that was executed was whole, so that nothing of it is left.
ServedInv(c) ==
  executed[c] # Nobody =>
    /\ ~Processing(c)
    /\ toServer[c] = <<>> /\ arrived[c] = <<>>
    /\ executed[c].to = request[c]
    /\ Sent(c)

\* What is on the way to a client are parts of the answer to its request.
AnswerInv(c) ==
  /\ PartsOf(toClient[c], executed[c]) /\ PartsOf(delivered[c], executed[c])
  /\ got[c] # Nobody => PartsOf(got[c], executed[c])

ConnInv(c) == SilentInv(c) /\ RequestInv(c) /\ ServedInv(c) /\ AnswerInv(c)

\* The answer buffer is empty until a handler writes the answer of the connection to it.
BufferInv ==
  /\ server = "process" => resp_buf = Nobody
  /\ server = "send" => resp_buf = executed[conn]

\* A client has one connection, and is served on it only after accept.
QueueInv ==
  /\ \A i \in DOMAIN backlog :
       /\ client[backlog[i]] # "idle" /\ executed[backlog[i]] = Nobody /\ backlog[i] # conn
       /\ \A j \in DOMAIN backlog : backlog[i] = backlog[j] => i = j
  /\ conn # Nobody => client[conn] # "idle"

IInv == TypeOK /\ StreamInv /\ BufferInv /\ QueueInv /\ \A c \in Clients : ConnInv(c)

-----------------------------------------------------------------------------
(* Segments. *)

\* A message split into n segments.
LEMMA SegmentsFacts ==
  ASSUME NEW S, NEW m \in S, NEW n \in Nat \ {0}
  PROVE  /\ Segments(m, n) \in Seq([of : S, part : Nat, total : Nat])
         /\ Len(Segments(m, n)) = n /\ Segments(m, n) # <<>>
         /\ Pieces(Segments(m, n), m, n) /\ PartsOf(Segments(m, n), m)
<1>1. \A i \in 1 .. n : [of |-> m, part |-> i, total |-> n] \in [of : S, part : Nat, total : Nat]
  OBVIOUS
<1>2. Segments(m, n) \in [1 .. n -> [of : S, part : Nat, total : Nat]]
  BY <1>1 DEF Segments
<1>3. Segments(m, n) \in Seq([of : S, part : Nat, total : Nat]) /\ Len(Segments(m, n)) = n
  <2>1. \A T, f : f \in [1 .. n -> T] => f \in Seq(T) /\ Len(f) = n
    OBVIOUS
  <2> QED
    BY <1>2, <2>1
<1>4. \A i \in DOMAIN Segments(m, n) : Segments(m, n)[i].of = m /\ Segments(m, n)[i].total = n
  BY DEF Segments
<1> QED
  BY <1>3, <1>4 DEF Pieces, PartsOf

\* A segment that moves from the head of one stream to the end of another.
LEMMA MoveFacts ==
  ASSUME NEW S, NEW s \in Seq(S), NEW t \in Seq(S), s # <<>>
  PROVE  /\ Tail(s) \in Seq(S) /\ Append(t, Head(s)) \in Seq(S)
         /\ Len(Tail(s)) = Len(s) - 1 /\ Len(Append(t, Head(s))) = Len(t) + 1
         /\ Append(t, Head(s)) # <<>>
         /\ \A m : PartsOf(s, m) /\ PartsOf(t, m) =>
              PartsOf(Tail(s), m) /\ PartsOf(Append(t, Head(s)), m)
         /\ \A m, n : Pieces(s, m, n) /\ Pieces(t, m, n) =>
              Pieces(Tail(s), m, n) /\ Pieces(Append(t, Head(s)), m, n)
<1>1. /\ Tail(s) \in Seq(S) /\ Append(t, Head(s)) \in Seq(S)
      /\ Len(Tail(s)) = Len(s) - 1 /\ Len(Append(t, Head(s))) = Len(t) + 1
  OBVIOUS
<1>2. \A i \in DOMAIN Tail(s) : i + 1 \in DOMAIN s /\ Tail(s)[i] = s[i + 1]
  OBVIOUS
<1>3. \A i \in DOMAIN Append(t, Head(s)) :
        \/ i \in DOMAIN t /\ Append(t, Head(s))[i] = t[i]
        \/ 1 \in DOMAIN s /\ Append(t, Head(s))[i] = s[1]
  OBVIOUS
<1>4. Append(t, Head(s)) # <<>>
  BY <1>1
<1>5. ASSUME NEW m, PartsOf(s, m), PartsOf(t, m)
      PROVE  PartsOf(Tail(s), m) /\ PartsOf(Append(t, Head(s)), m)
  BY <1>2, <1>3, <1>5 DEF PartsOf
<1>6. ASSUME NEW m, NEW n, Pieces(s, m, n), Pieces(t, m, n)
      PROVE  Pieces(Tail(s), m, n) /\ Pieces(Append(t, Head(s)), m, n)
  BY <1>2, <1>3, <1>6 DEF Pieces
<1> QED
  BY <1>1, <1>4, <1>5, <1>6

\* Before a request is executed no part of an answer can be on the way.
LEMMA NoPartsFacts ==
  ASSUME NEW s \in Seq(AnswerParts), PartsOf(s, Nobody) PROVE s = <<>>
<1>1. \A i \in DOMAIN s : s[i].of \in Answers
  <2>1. \A i \in DOMAIN s : s[i] \in AnswerParts
    OBVIOUS
  <2> QED
    BY <2>1 DEF AnswerParts
<1>2. DOMAIN s = {}
  BY <1>1, NobodyAssumption DEF PartsOf
<1> QED
  BY <1>2

LEMMA EmptyFacts ==
  /\ \A m, n : Pieces(<<>>, m, n) /\ PartsOf(<<>>, m)
  /\ \A m : Stretches(<<>>, <<>>, <<>>, m, 0)
<1>1. \A i : i \notin DOMAIN <<>>
  OBVIOUS
<1> QED
  BY <1>1 DEF Pieces, PartsOf, Stretches

\* The steps of a stream: it is sent, it arrives, it is received and processed.
LEMMA StretchFacts ==
  ASSUME NEW S, NEW s \in Seq(S), NEW t \in Seq(S), NEW u \in Seq(S), NEW m, NEW n \in Nat
  PROVE  /\ Pieces(s, m, n) /\ Len(s) = n => Stretches(s, <<>>, <<>>, m, n)
         /\ Stretches(s, t, u, m, n) /\ s # <<>> =>
              Stretches(Tail(s), Append(t, Head(s)), u, m, n)
         /\ Stretches(s, t, <<>>, m, n) => Stretches(s, <<>>, t, m, n)
         /\ Stretches(s, t, u, m, n) => Stretches(s, t, <<>>, m, n)
         /\ Stretches(s, t, u, m, n) /\ Whole(u) => s = <<>> /\ t = <<>> /\ u[1].of = m
<1>1. \A k, l : Pieces(<<>>, k, l)
  BY EmptyFacts
<1>2. Len(s) \in Nat /\ Len(t) \in Nat /\ Len(u) \in Nat /\ Len(<<>>) = 0
  OBVIOUS
<1>3. ASSUME Stretches(s, t, u, m, n), s # <<>>
      PROVE  Stretches(Tail(s), Append(t, Head(s)), u, m, n)
  <2>1. Len(Tail(s)) = Len(s) - 1 /\ Len(Append(t, Head(s))) = Len(t) + 1
    BY <1>3
  <2>2. Pieces(Tail(s), m, n) /\ Pieces(Append(t, Head(s)), m, n)
    BY <1>3, MoveFacts DEF Stretches
  <2> QED
    BY <1>2, <1>3, <2>1, <2>2 DEF Stretches
<1>4. ASSUME Stretches(s, t, u, m, n), Whole(u) PROVE s = <<>> /\ t = <<>> /\ u[1].of = m
  <2>1. 1 \in DOMAIN u /\ Len(u) = u[1].total
    BY <1>4 DEF Whole
  <2>2. u[1].of = m /\ u[1].total = n
    BY <1>4, <2>1 DEF Stretches, Pieces
  <2>3. Len(s) = 0 /\ Len(t) = 0
    BY <1>2, <1>4, <2>1, <2>2 DEF Stretches
  <2> QED
    BY <2>2, <2>3
<1>5. Pieces(s, m, n) /\ Len(s) = n => Stretches(s, <<>>, <<>>, m, n)
  BY <1>1, <1>2 DEF Stretches
<1>6. Stretches(s, t, <<>>, m, n) => Stretches(s, <<>>, t, m, n)
  BY <1>1, <1>2 DEF Stretches
<1>7. Stretches(s, t, u, m, n) => Stretches(s, t, <<>>, m, n)
  BY <1>1, <1>2 DEF Stretches
<1> QED
  BY <1>3, <1>4, <1>5, <1>6, <1>7

LEMMA ConcatFacts ==
  ASSUME NEW S, NEW s \in Seq(S), NEW t \in Seq(S), NEW m, PartsOf(s, m), PartsOf(t, m), t # <<>>
  PROVE  s \o t \in Seq(S) /\ s \o t # <<>> /\ PartsOf(s \o t, m)
<1>1. s \o t \in Seq(S) /\ Len(s \o t) = Len(s) + Len(t) /\ Len(t) \in Nat \ {0}
  OBVIOUS
<1>2. s \o t # <<>>
  BY <1>1
<1>3. \A i \in DOMAIN (s \o t) :
        \/ i \in DOMAIN s /\ (s \o t)[i] = s[i]
        \/ i - Len(s) \in DOMAIN t /\ (s \o t)[i] = t[i - Len(s)]
  OBVIOUS
<1> QED
  BY <1>1, <1>2, <1>3 DEF PartsOf

-----------------------------------------------------------------------------
\* A step that concerns neither the connection of c nor, if the server talks to
\* c, the server.
LEMMA OtherConn ==
  ASSUME NEW c \in Clients, ConnInv(c),
         client'[c] = client[c], request'[c] = request[c], got'[c] = got[c],
         executed'[c] = executed[c],
         toServer'[c] = toServer[c], arrived'[c] = arrived[c],
         toClient'[c] = toClient[c], delivered'[c] = delivered[c],
         conn' = c <=> conn = c,
         conn = c => server' = server /\ recv_buf' = recv_buf
  PROVE  ConnInv(c)'
<1>1. Processing(c)' <=> Processing(c)
  BY DEF Processing
<1>2. SilentInv(c)' /\ AnswerInv(c)'
  BY <1>1 DEF ConnInv, SilentInv, AnswerInv
<1>3. ServedInv(c)'
  BY <1>1 DEF ConnInv, ServedInv, Sent
<1>4. RequestInv(c)'
  <2>1. PICK n \in Nat : InPieces(c, n)
    BY DEF ConnInv, RequestInv
  <2>2. InProcess(c)' = InProcess(c)
    BY <1>1 DEF InProcess, Processing
  <2>3. InPieces(c, n)'
    BY <2>1, <2>2 DEF InPieces
  <2> QED
    BY <2>3 DEF RequestInv
<1> QED
  BY <1>2, <1>3, <1>4 DEF ConnInv

\* A step that leaves the queue and the connections in it alone.
LEMMA QueueKept ==
  ASSUME IInv, UNCHANGED <<backlog, conn>>,
         \A d \in Clients : Attached(d) /\ client[d] # "idle" => client'[d] # "idle",
         \A d \in Clients : (\E i \in DOMAIN backlog : backlog[i] = d) =>
            executed'[d] = executed[d]
  PROVE  QueueInv'
<1>1. ASSUME NEW i \in DOMAIN backlog
      PROVE  client'[backlog[i]] # "idle" /\ executed'[backlog[i]] = Nobody
  <2>1. backlog[i] \in Clients
    BY DEF IInv, StreamInv
  <2> QED
    BY <2>1 DEF IInv, QueueInv, Attached
<1>2. conn # Nobody => client'[conn] # "idle"
  BY DEF IInv, QueueInv, TypeOK, Attached
<1> QED
  BY <1>1, <1>2 DEF IInv, QueueInv

LEMMA InitIInv == Init => IInv
<1> SUFFICES ASSUME Init PROVE IInv
  OBVIOUS
<1> USE DEF Init
<1>1. TypeOK
  <2>1. HeldFds = 0 /\ leaked + HeldFds <= FdLimit
    BY SizeAssumption DEF HeldFds
  <2>2. Len(backlog) <= BACKLOG + 1
    BY SizeAssumption
  <2>3. aborts \in 0 .. MaxAborts /\ crashes \in 0 .. MaxCrashes /\ leaked \in Nat
    BY SizeAssumption
  <2>4. /\ client \in [Clients -> ClientStates]
        /\ request \in [Clients -> Requests \cup {Nobody}]
        /\ executed \in [Clients -> Answers \cup {Nobody}]
    BY DEF ClientStates
  <2> QED
    BY <2>1, <2>2, <2>3, <2>4 DEF TypeOK, ServerStates
<1>2. StreamInv
  BY DEF StreamInv
<1>3. BufferInv /\ QueueInv
  BY DEF BufferInv, QueueInv
<1>4. ASSUME NEW c \in Clients PROVE ConnInv(c)
  <2>1. InPieces(c, 0)
    BY EmptyFacts DEF InPieces, InProcess, Processing
  <2> QED
    BY <2>1, EmptyFacts
       DEF ConnInv, SilentInv, RequestInv, ServedInv, AnswerInv, Processing
<1> QED
  BY <1>1, <1>2, <1>3, <1>4 DEF IInv

-----------------------------------------------------------------------------
(* The clients and the network. *)

LEMMA ConnectIInv == ASSUME IInv, NEW c \in Clients, Connect(c) PROVE IInv'
<1> USE DEF IInv, Connect, Set, clientVars, netVars, bufVars, worldVars, fdVars
<1>1. TypeOK'
  BY SizeAssumption DEF TypeOK, HeldFds, StreamInv, ClientStates
<1>2. StreamInv' /\ BufferInv'
  BY DEF StreamInv, BufferInv
<1>4. QueueInv'
  <2>1. request[c] = Nobody /\ executed[c] = Nobody
    BY DEF ConnInv, SilentInv
  <2>2. c # conn /\ \A i \in DOMAIN backlog : backlog[i] # c
    BY NobodyAssumption DEF QueueInv
  <2>3. \A i \in DOMAIN backlog' :
          \/ i \in DOMAIN backlog /\ backlog'[i] = backlog[i] /\ backlog[i] \in Clients
          \/ i = Len(backlog) + 1 /\ i \notin DOMAIN backlog /\ backlog'[i] = c
    BY DEF StreamInv
  <2>4. \A d \in Clients : client'[d] = IF d = c THEN "connected" ELSE client[d]
    BY DEF TypeOK
  <2> QED
    BY <2>1, <2>2, <2>3, <2>4 DEF QueueInv, TypeOK
<1>3. ASSUME NEW d \in Clients PROVE ConnInv(d)'
  <2>1. CASE d # c
    BY <2>1, OtherConn DEF TypeOK
  <2>2. CASE d = c
    <3>1. PICK n \in Nat : InPieces(d, n)
      BY DEF ConnInv, RequestInv
    <3>2. InPieces(d, n)'
      BY <3>1 DEF InPieces, InProcess, Processing
    <3> QED
      BY <2>2, <3>2
         DEF ConnInv, SilentInv, RequestInv, ServedInv, Sent, AnswerInv, Processing, TypeOK
  <2> QED
    BY <2>1, <2>2
<1> QED
  BY <1>1, <1>2, <1>3, <1>4

LEMMA SendIInv ==
  ASSUME IInv, NEW c \in Clients, NEW r \in Requests, NEW n \in 1 .. MaxRequestParts,
         Send(c, r, n)
  PROVE  IInv'
<1> USE DEF IInv, Send, Set, clientVars, netVars, bufVars, worldVars, fdVars
<1>1. /\ Segments(r, n) \in Seq(RequestParts) /\ Len(Segments(r, n)) = n
      /\ Pieces(Segments(r, n), r, n)
  BY SegmentsFacts DEF RequestParts
<1>2. TypeOK'
  BY DEF TypeOK, HeldFds, ClientStates
<1>3. StreamInv' /\ BufferInv'
  BY <1>1 DEF StreamInv, BufferInv
<1>5. QueueInv'
  BY QueueKept DEF TypeOK, StreamInv
<1>4. ASSUME NEW d \in Clients PROVE ConnInv(d)'
  <2>1. CASE d # c
    BY <2>1, OtherConn DEF TypeOK, StreamInv
  <2>2. CASE d = c
    <3>1. /\ request[c] = Nobody /\ arrived[c] = <<>> /\ ~Processing(c)
          /\ executed[c] = Nobody
      BY DEF ConnInv, SilentInv
    <3>2. /\ client'[c] = "reading" /\ request'[c] = r /\ toServer'[c] = Segments(r, n)
          /\ arrived'[c] = <<>> /\ executed'[c] = Nobody /\ ~Processing(c)'
      BY <3>1 DEF TypeOK, StreamInv, Processing
    <3>3. InPieces(c, n)'
      BY ONLY <1>1, <3>2, SizeAssumption, StretchFacts DEF InPieces, InProcess
    <3>4. n \in Nat /\ r # Nobody
      BY NobodyAssumption, SizeAssumption
    <3> QED
      BY <2>2, <3>2, <3>3, <3>4 DEF ConnInv, SilentInv, RequestInv, ServedInv, Sent, AnswerInv
  <2> QED
    BY <2>1, <2>2
<1> QED
  BY <1>2, <1>3, <1>4, <1>5

LEMMA ReadIInv == ASSUME IInv, NEW c \in Clients, Read(c) PROVE IInv'
<1> USE DEF IInv, Read, Set, clientVars, netVars, bufVars, worldVars, fdVars
<1>1. TypeOK'
  BY DEF TypeOK, HeldFds, ClientStates
<1>2. StreamInv' /\ BufferInv'
  BY DEF StreamInv, BufferInv
<1>4. QueueInv'
  BY QueueKept DEF TypeOK, StreamInv
<1>3. ASSUME NEW d \in Clients PROVE ConnInv(d)'
  <2>1. CASE d # c
    BY <2>1, OtherConn DEF TypeOK, StreamInv
  <2>2. CASE d = c
    <3>1. /\ client'[c] = "answered" /\ got'[c] = delivered[c] /\ delivered'[c] = <<>>
      BY DEF TypeOK, StreamInv
    <3>2. executed[c] # Nobody
      BY NoPartsFacts DEF StreamInv, ConnInv, AnswerInv
    <3>3. PICK n \in Nat : InPieces(c, n)
      BY DEF ConnInv, RequestInv
    <3>4. InPieces(c, n)'
      BY <3>3 DEF InPieces, InProcess, Processing
    <3>5. SilentInv(c)' /\ ServedInv(c)'
      BY <3>1, <3>2 DEF ConnInv, SilentInv, ServedInv, Sent, Processing
    <3>6. AnswerInv(c)'
      BY <3>1, EmptyFacts DEF ConnInv, AnswerInv
    <3> QED
      BY <2>2, <3>4, <3>5, <3>6 DEF ConnInv, RequestInv
  <2> QED
    BY <2>1, <2>2
<1> QED
  BY <1>1, <1>2, <1>3, <1>4

LEMMA CloseIInv == ASSUME IInv, NEW c \in Clients, Close(c) PROVE IInv'
<1> USE DEF IInv, Close, Set, clientVars, netVars, bufVars, worldVars, fdVars
<1>1. TypeOK'
  BY SizeAssumption DEF TypeOK, HeldFds, ClientStates
<1>2. StreamInv' /\ BufferInv'
  BY DEF StreamInv, BufferInv
<1>4. QueueInv'
  BY QueueKept DEF TypeOK, StreamInv
<1>3. ASSUME NEW d \in Clients PROVE ConnInv(d)'
  <2>1. CASE d # c
    BY <2>1, OtherConn DEF TypeOK, StreamInv
  <2>2. CASE d = c
    <3>1. PICK n \in Nat : InPieces(c, n)
      BY DEF ConnInv, RequestInv
    <3>2. InPieces(c, n)'
      BY <3>1 DEF InPieces, InProcess, Processing
    <3>3. client'[c] \notin {"idle", "connected", "reading"}
      BY DEF TypeOK
    <3>4. SilentInv(c)' /\ ServedInv(c)'
      BY <3>3 DEF ConnInv, SilentInv, ServedInv, Sent, Processing
    <3>5. AnswerInv(c)'
      BY DEF ConnInv, AnswerInv
    <3> QED
      BY <2>2, <3>2, <3>4, <3>5 DEF ConnInv, RequestInv
  <2> QED
    BY <2>1, <2>2
<1> QED
  BY <1>1, <1>2, <1>3, <1>4

LEMMA AbortIInv == ASSUME IInv, NEW c \in Clients, Abort(c) PROVE IInv'
<1> USE DEF IInv, Abort, Set, clientVars, netVars, bufVars, worldVars, fdVars
<1>1. TypeOK'
  BY SizeAssumption DEF TypeOK, HeldFds, ClientStates
<1>2. StreamInv' /\ BufferInv'
  BY DEF StreamInv, BufferInv
<1>4. QueueInv'
  BY QueueKept DEF TypeOK, StreamInv
<1>3. ASSUME NEW d \in Clients PROVE ConnInv(d)'
  <2>1. CASE d # c
    BY <2>1, OtherConn DEF TypeOK, StreamInv
  <2>2. CASE d = c
    <3>1. PICK n \in Nat : InPieces(c, n)
      BY DEF ConnInv, RequestInv
    <3>2. InPieces(c, n)'
      BY <3>1 DEF InPieces, InProcess, Processing
    <3>3. client'[c] \notin {"idle", "connected", "reading"}
      BY DEF TypeOK
    <3>4. SilentInv(c)' /\ ServedInv(c)'
      BY <3>3 DEF ConnInv, SilentInv, ServedInv, Sent, Processing
    <3>5. AnswerInv(c)'
      BY DEF ConnInv, AnswerInv
    <3> QED
      BY <2>2, <3>2, <3>4, <3>5 DEF ConnInv, RequestInv
  <2> QED
    BY <2>1, <2>2
<1> QED
  BY <1>1, <1>2, <1>3, <1>4

LEMMA ArriveIInv == ASSUME IInv, NEW c \in Clients, Arrive(c) PROVE IInv'
<1> USE DEF IInv, Arrive, Set, clientVars, netVars, bufVars, worldVars, fdVars
<1>1. TypeOK'
  BY DEF TypeOK, HeldFds
<1>2. StreamInv' /\ BufferInv'
  BY MoveFacts DEF StreamInv, BufferInv
<1>4. QueueInv'
  BY QueueKept DEF TypeOK, StreamInv
<1>3. ASSUME NEW d \in Clients PROVE ConnInv(d)'
  <2>1. CASE d # c
    BY <2>1, OtherConn DEF StreamInv
  <2>2. CASE d = c
    <3>1. /\ toServer'[c] = Tail(toServer[c])
          /\ arrived'[c] = Append(arrived[c], Head(toServer[c]))
          /\ toServer[c] \in Seq(RequestParts) /\ arrived[c] \in Seq(RequestParts)
      BY DEF StreamInv
    <3>2. request[c] # Nobody /\ executed[c] = Nobody
      BY DEF ConnInv, SilentInv, ServedInv, Sent
    <3>3. PICK n \in Nat : InPieces(c, n)
      BY DEF ConnInv, RequestInv
    <3>4. Processing(c)' <=> Processing(c)
      BY DEF Processing
    <3>5. InPieces(c, n)'
      <4>1. toServer[c] # <<>> /\ request' = request /\ recv_buf' = recv_buf
        OBVIOUS
      <4>2. InProcess(c)' = InProcess(c) /\ InProcess(c) \in Seq(RequestParts)
        BY <3>4 DEF InProcess, StreamInv
      <4> QED
        BY ONLY <3>1, <3>3, <4>1, <4>2, StretchFacts DEF InPieces
    <3>6. SilentInv(c)' /\ ServedInv(c)' /\ AnswerInv(c)'
      BY <3>2, <3>4 DEF ConnInv, SilentInv, ServedInv, Sent, AnswerInv
    <3> QED
      BY <2>2, <3>5, <3>6 DEF ConnInv, RequestInv
  <2> QED
    BY <2>1, <2>2
<1> QED
  BY <1>1, <1>2, <1>3, <1>4

LEMMA DeliverIInv == ASSUME IInv, NEW c \in Clients, Deliver(c) PROVE IInv'
<1> USE DEF IInv, Deliver, Set, clientVars, netVars, bufVars, worldVars, fdVars
<1>1. TypeOK'
  BY DEF TypeOK, HeldFds
<1>2. StreamInv' /\ BufferInv'
  BY MoveFacts DEF StreamInv, BufferInv
<1>4. QueueInv'
  BY QueueKept DEF TypeOK, StreamInv
<1>3. ASSUME NEW d \in Clients PROVE ConnInv(d)'
  <2>1. CASE d # c
    BY <2>1, OtherConn DEF StreamInv
  <2>2. CASE d = c
    <3>1. /\ toClient'[c] = Tail(toClient[c])
          /\ delivered'[c] = Append(delivered[c], Head(toClient[c]))
          /\ toClient[c] \in Seq(AnswerParts) /\ delivered[c] \in Seq(AnswerParts)
      BY DEF StreamInv
    <3>2. PICK n \in Nat : InPieces(c, n)
      BY DEF ConnInv, RequestInv
    <3>3. InPieces(c, n)'
      BY <3>2 DEF InPieces, InProcess, Processing
    <3>4. SilentInv(c)'
      BY DEF ConnInv, SilentInv, Processing
    <3>5. ServedInv(c)'
      BY <3>1, MoveFacts DEF ConnInv, ServedInv, Sent, Processing
    <3>6. AnswerInv(c)'
      BY <3>1, MoveFacts DEF ConnInv, AnswerInv
    <3> QED
      BY <2>2, <3>3, <3>4, <3>5, <3>6 DEF ConnInv, RequestInv
  <2> QED
    BY <2>1, <2>2
<1> QED
  BY <1>1, <1>2, <1>3, <1>4

-----------------------------------------------------------------------------
(* The server. *)

LEMMA AcceptIInv == IInv /\ Accept => IInv'
<1> SUFFICES ASSUME IInv, Accept PROVE IInv'
  OBVIOUS
<1> USE DEF IInv, Accept, clientVars, netVars, bufVars, worldVars, fdVars
<1>1. Head(backlog) \in Clients /\ Tail(backlog) \in Seq(Clients)
      /\ Len(Tail(backlog)) = Len(backlog) - 1
  BY DEF StreamInv
<1>2. conn = Nobody
  BY DEF TypeOK
<1>6. QueueInv' /\ executed[Head(backlog)] = Nobody
  <2>1. 1 \in DOMAIN backlog /\ Head(backlog) = backlog[1]
    BY DEF StreamInv
  <2>2. \A i \in DOMAIN Tail(backlog) :
          i \in Nat \ {0} /\ i + 1 \in DOMAIN backlog /\ Tail(backlog)[i] = backlog[i + 1]
    <3>1. \A S : \A s \in Seq(S) : s # <<>> =>
            \A i \in DOMAIN Tail(s) :
              i \in Nat \ {0} /\ i + 1 \in DOMAIN s /\ Tail(s)[i] = s[i + 1]
      OBVIOUS
    <3> QED
      BY <3>1 DEF StreamInv
  <2> QED
    BY <2>1, <2>2 DEF QueueInv
<1>3. TypeOK'
  <2>1. Len(backlog) \in Nat /\ Len(backlog') <= BACKLOG + 1
    BY <1>1, SizeAssumption DEF TypeOK, StreamInv
  <2>2. leaked' + HeldFds' <= FdLimit
    BY <1>1, <1>2, SizeAssumption, NobodyAssumption DEF TypeOK, HeldFds, OpenFds
  <2> QED
    BY <1>1, <2>1, <2>2, NobodyAssumption DEF TypeOK, ServerStates
<1>4. StreamInv' /\ BufferInv'
  BY <1>1 DEF StreamInv, BufferInv
<1>5. ASSUME NEW d \in Clients PROVE ConnInv(d)'
  <2>1. PICK n \in Nat : InPieces(d, n)
    BY DEF ConnInv, RequestInv
  <2>2. ~Processing(d) /\ ~Processing(d)' /\ (conn' = d => executed[d] = Nobody)
    BY <1>2, <1>6, NobodyAssumption DEF Processing
  <2>3. InPieces(d, n)'
    BY <2>1, <2>2 DEF InPieces, InProcess
  <2> QED
    BY <1>2, <2>2, <2>3, NobodyAssumption DEF ConnInv, SilentInv, RequestInv, ServedInv, Sent, AnswerInv
<1> QED
  BY <1>3, <1>4, <1>5, <1>6

LEMMA RecvIInv == IInv /\ Recv => IInv'
<1> SUFFICES ASSUME IInv, Recv PROVE IInv'
  OBVIOUS
<1> USE DEF IInv, Recv, Set, clientVars, netVars, bufVars, worldVars, fdVars
<1>1. conn \in Clients
  BY DEF TypeOK
<1>2. TypeOK'
  BY DEF TypeOK, HeldFds, ServerStates, EmptyAnswer
<1>3. StreamInv' /\ BufferInv'
  BY <1>1 DEF StreamInv, BufferInv, EmptyAnswer
<1>5. QueueInv'
  BY QueueKept DEF TypeOK, StreamInv
<1>4. ASSUME NEW d \in Clients PROVE ConnInv(d)'
  <2>1. CASE d # conn
    BY <2>1, OtherConn DEF StreamInv
  <2>2. CASE d = conn
    <3>1. PICK n \in Nat : InPieces(d, n)
      BY DEF ConnInv, RequestInv
    <3>2. /\ ~Processing(d) /\ Processing(d)'
          /\ arrived'[d] = <<>> /\ recv_buf' = arrived[d]
          /\ UNCHANGED <<request, toServer>>
      BY <2>2 DEF Processing, StreamInv
    <3>3. toServer[d] \in Seq(RequestParts) /\ arrived[d] \in Seq(RequestParts)
      BY DEF StreamInv
    <3>4. InPieces(d, n)'
      BY ONLY <3>1, <3>2, <3>3, StretchFacts DEF InPieces, InProcess
    <3>5. request[d] # Nobody /\ executed[d] = Nobody
      BY <2>2 DEF ConnInv, SilentInv, ServedInv, Sent
    <3> QED
      BY <3>4, <3>5 DEF ConnInv, SilentInv, RequestInv, ServedInv, Sent, AnswerInv
  <2> QED
    BY <2>1, <2>2
<1> QED
  BY <1>2, <1>3, <1>4, <1>5

LEMMA EndTalkIInv == IInv /\ EndTalk => IInv'
<1> SUFFICES ASSUME IInv, EndTalk PROVE IInv'
  OBVIOUS
<1> USE DEF IInv, EndTalk, Forget, Set, clientVars, netVars, bufVars, worldVars, fdVars
<1>1. conn \in Clients
  BY DEF TypeOK
<1>2. TypeOK'
  <2>1. leaked' + HeldFds' <= FdLimit
    BY <1>1, SizeAssumption, NobodyAssumption DEF TypeOK, HeldFds
  <2> QED
    BY <1>1, <2>1, NobodyAssumption DEF TypeOK, ServerStates, ClientStates
<1>3. StreamInv' /\ BufferInv'
  BY <1>1 DEF StreamInv, BufferInv
<1>5. QueueInv'
  <2>1. ASSUME NEW i \in DOMAIN backlog
        PROVE  /\ backlog[i] \in Clients /\ backlog[i] # conn
               /\ client'[backlog[i]] = client[backlog[i]]
               /\ executed'[backlog[i]] = executed[backlog[i]]
    BY <1>1 DEF QueueInv, StreamInv, TypeOK
  <2> QED
    BY <2>1, NobodyAssumption DEF QueueInv
<1>4. ASSUME NEW d \in Clients PROVE ConnInv(d)'
  <2>1. CASE d # conn
    BY <1>1, <2>1, NobodyAssumption, OtherConn DEF TypeOK, StreamInv
  <2>2. CASE d = conn
    <3>1. /\ client'[d] = "idle" /\ request'[d] = Nobody /\ got'[d] = Nobody
          /\ executed'[d] = Nobody /\ ~Processing(d)'
          /\ toServer'[d] = <<>> /\ arrived'[d] = <<>>
          /\ toClient'[d] = <<>> /\ delivered'[d] = <<>>
      BY <1>1, <2>2 DEF TypeOK, StreamInv, Processing
    <3>2. InPieces(d, 0)'
      BY ONLY <3>1, EmptyFacts DEF InPieces, InProcess
    <3> QED
      BY <3>1, <3>2, EmptyFacts
         DEF ConnInv, SilentInv, RequestInv, ServedInv, Sent, AnswerInv
  <2> QED
    BY <2>1, <2>2
<1> QED
  BY <1>2, <1>3, <1>4, <1>5

LEMMA MalformedIInv == IInv /\ Malformed => IInv'
<1> SUFFICES ASSUME IInv, Malformed PROVE IInv'
  OBVIOUS
<1> USE DEF IInv, Malformed, clientVars, netVars, bufVars, worldVars, fdVars
<1>1. conn \in Clients
  BY DEF TypeOK
<1>2. executed[conn] = Nobody
  BY <1>1 DEF ConnInv, ServedInv, Processing
<1>3. TypeOK' /\ StreamInv'
  BY DEF TypeOK, HeldFds, ServerStates, StreamInv
<1>4. BufferInv' /\ QueueInv'
  BY <1>2 DEF BufferInv, QueueInv
<1>5. ASSUME NEW d \in Clients PROVE ConnInv(d)'
  <2>1. CASE d # conn
    BY <2>1, OtherConn
  <2>2. CASE d = conn
    <3>1. PICK n \in Nat : InPieces(d, n)
      BY DEF ConnInv, RequestInv
    <3>2. /\ toServer[d] \in Seq(RequestParts) /\ arrived[d] \in Seq(RequestParts)
          /\ InProcess(d) \in Seq(RequestParts)
      BY DEF StreamInv, InProcess
    <3>3. ~Processing(d)' /\ UNCHANGED <<request, toServer, arrived>>
      BY DEF Processing
    <3>4. InPieces(d, n)'
      BY ONLY <3>1, <3>2, <3>3, StretchFacts DEF InPieces, InProcess
    <3> QED
      BY <1>2, <2>2, <3>3, <3>4 DEF ConnInv, SilentInv, RequestInv, ServedInv, Sent, AnswerInv
  <2> QED
    BY <2>1, <2>2
<1> QED
  BY <1>3, <1>4, <1>5

-----------------------------------------------------------------------------
(* The handlers. *)

\* The request in the buffer of a server that processes a whole one: it is the
\* one of its connection, nothing is left of it, and it was not executed yet.
LEMMA WholeFacts ==
  ASSUME IInv, server = "process", Whole(recv_buf)
  PROVE  /\ conn \in Clients /\ recv_buf[1].of = request[conn] /\ request[conn] \in Requests
         /\ request[conn] # Nobody /\ executed[conn] = Nobody
         /\ toServer[conn] = <<>> /\ arrived[conn] = <<>>
<1> USE DEF IInv
<1>1. conn \in Clients
  BY DEF TypeOK
<1>2. PICK n \in Nat : InPieces(conn, n)
  BY <1>1 DEF ConnInv, RequestInv
<1>3. /\ toServer[conn] \in Seq(RequestParts) /\ arrived[conn] \in Seq(RequestParts)
      /\ recv_buf \in Seq(RequestParts) /\ InProcess(conn) = recv_buf
  BY <1>1 DEF StreamInv, InProcess, Processing
<1>4. toServer[conn] = <<>> /\ arrived[conn] = <<>> /\ recv_buf[1].of = request[conn]
  BY ONLY <1>2, <1>3, Whole(recv_buf), StretchFacts DEF InPieces
<1>5. request[conn] # Nobody /\ executed[conn] = Nobody
  BY <1>1 DEF ConnInv, SilentInv, ServedInv, Processing
<1>6. request[conn] \in Requests
  BY <1>1, <1>5 DEF TypeOK
<1> QED
  BY <1>1, <1>4, <1>5, <1>6

\* Every handler answers the request in the buffer.
LEMMA HandledIInv ==
  ASSUME IInv, NEW function, Called(function),
         NEW a \in Answers, a.to = recv_buf[1].of, Respond(a),
         relay' \in [Relays -> {0, 1}], leaked' \in Nat, leaked' + HeldFds <= FdLimit
  PROVE  IInv'
<1> USE DEF IInv, Called, Asks, Respond, Set, clientVars, netVars
<1>1. /\ conn \in Clients /\ a.to = request[conn] /\ request[conn] # Nobody
      /\ executed[conn] = Nobody /\ toServer[conn] = <<>> /\ arrived[conn] = <<>>
  BY WholeFacts
<1>2. executed'[conn] = a /\ a # Nobody
  BY <1>1, NobodyAssumption DEF TypeOK
<1>3. TypeOK'
  BY DEF TypeOK, HeldFds, ServerStates
<1>4. StreamInv' /\ BufferInv'
  BY <1>2 DEF StreamInv, BufferInv
<1>6. QueueInv'
  BY <1>1, QueueKept DEF QueueInv, TypeOK
<1>5. ASSUME NEW d \in Clients PROVE ConnInv(d)'
  <2>1. CASE d # conn
    BY <2>1, OtherConn DEF TypeOK
  <2>2. CASE d = conn
    <3>1. PICK n \in Nat : InPieces(d, n)
      BY DEF ConnInv, RequestInv
    <3>2. ~Processing(d)' /\ request' = request /\ toServer' = toServer /\ arrived' = arrived
      BY DEF Processing
    <3>3. /\ toServer[d] \in Seq(RequestParts) /\ arrived[d] \in Seq(RequestParts)
          /\ InProcess(d) \in Seq(RequestParts)
      BY DEF StreamInv, InProcess
    <3>4. InPieces(d, n)'
      BY ONLY <3>1, <3>2, <3>3, StretchFacts DEF InPieces, InProcess
    <3>5. toClient[d] = <<>> /\ delivered[d] = <<>> /\ (got[d] # Nobody => got[d] = <<>>)
      BY <1>1, <2>2, NoPartsFacts DEF ConnInv, AnswerInv, StreamInv
    <3>6. AnswerInv(d)'
      BY <3>5, EmptyFacts DEF AnswerInv
    <3>7. SilentInv(d)' /\ ServedInv(d)'
      BY <1>1, <1>2, <2>2, <3>2 DEF ConnInv, SilentInv, ServedInv, Sent
    <3> QED
      BY <3>4, <3>6, <3>7 DEF ConnInv, RequestInv
  <2> QED
    BY <2>1, <2>2
<1> QED
  BY <1>3, <1>4, <1>5, <1>6

\* What the handlers answer.
LEMMA AnswerFacts ==
  ASSUME NEW r \in Requests
  PROVE  /\ \A size \in Nat :
              Answer("devices", r, Shorter(size, MESSAGE_SIZE - 1)) \in Answers
         /\ Answer("device", r, 1) \in Answers /\ Answer("ok", r, 1) \in Answers
         /\ Error(r) \in Answers /\ Error(r).to = r /\ Error(r).kind = "error"
         /\ \A k, n : Answer(k, r, n).to = r /\ Answer(k, r, n).kind = k
<1>1. /\ \A size \in Nat : Shorter(size, MESSAGE_SIZE - 1) \in 0 .. MESSAGE_SIZE - 1
      /\ 1 \in 0 .. MESSAGE_SIZE - 1
  BY SizeAssumption DEF Shorter
<1> QED
  BY <1>1 DEF Answer, Error, Answers

\* A handler answers the request of its connection, as RequestReply allows.
LEMMA GetAllDevicesStep ==
  ASSUME IInv, NEW opens \in BOOLEAN, NEW size \in FileSizes, GetAllDevices(opens, size)
  PROVE  IInv' /\ Rpc!Execute(conn)
<1> DEFINE r == recv_buf[1].of
<1> USE DEF GetAllDevices
<1>1. conn \in Clients /\ r = request[conn] /\ r \in Requests /\ r # Nobody
      /\ executed[conn] = Nobody
  BY WholeFacts DEF Called, Asks
<1>2. PICK a \in Answers : Respond(a) /\ a.to = r /\ a.kind \in {"devices", "error"}
  BY <1>1, AnswerFacts, SizeAssumption
<1>3. relay' = relay /\ leaked' \in Nat /\ leaked' + HeldFds <= FdLimit
  BY SizeAssumption DEF IInv, TypeOK, OpenFds, HeldFds
<1>4. IInv'
  BY <1>2, <1>3, HandledIInv DEF IInv, TypeOK
<1>5. r.function = "get_all_devices" /\ request' = request
  BY DEF Called, Asks, clientVars
<1>6. a \in Outcomes(r) /\ relay' \in Effects(r, relay)
  BY <1>2, <1>3, <1>5 DEF Outcomes, Effects
<1> QED
  BY <1>1, <1>2, <1>4, <1>5, <1>6 DEF Rpc!Execute, Respond, Set

LEMMA GetDeviceStep ==
  ASSUME IInv, GetDevice PROVE IInv' /\ Rpc!Execute(conn)
<1> DEFINE r == recv_buf[1].of
<1> USE DEF GetDevice
<1>1. conn \in Clients /\ r = request[conn] /\ r \in Requests /\ r # Nobody
      /\ executed[conn] = Nobody
  BY WholeFacts DEF Called, Asks
<1>2. PICK a \in Answers :
        Respond(a) /\ a.to = r /\ a.kind = IF r.id \in Devices THEN "device" ELSE "error"
  BY <1>1, AnswerFacts
<1>3. IInv'
  BY <1>2, HandledIInv DEF IInv, TypeOK
<1>4. r.function = "get_device" /\ request' = request /\ relay' = relay
  BY DEF Called, Asks, clientVars
<1>5. a \in Outcomes(r) /\ relay' \in Effects(r, relay)
  BY <1>2, <1>4 DEF Outcomes, Effects
<1> QED
  BY <1>1, <1>2, <1>3, <1>4, <1>5 DEF Rpc!Execute, Respond, Set

LEMMA UpdatePinStateStep ==
  ASSUME IInv, NEW ok \in BOOLEAN, UpdatePinState(ok) PROVE IInv' /\ Rpc!Execute(conn)
<1> DEFINE r == recv_buf[1].of
<1> USE DEF UpdatePinState
<1>1. conn \in Clients /\ r = request[conn] /\ r \in Requests /\ r # Nobody
      /\ executed[conn] = Nobody
  BY WholeFacts DEF Called, Asks
<1>2. PICK a \in Answers :
        Respond(a) /\ a.to = r /\ a.kind = IF r.id \in Devices THEN "ok" ELSE "error"
  BY <1>1, AnswerFacts
<1>3. relay' \in [Relays -> {0, 1}]
  BY <1>1, RequestAssumption DEF IInv, TypeOK, Set
<1>4. IInv'
  BY <1>2, <1>3, HandledIInv DEF IInv, TypeOK
<1>5. r.function = "update_pin_state" /\ request' = request
  BY DEF Called, Asks, clientVars
<1>6. a \in Outcomes(r)
  BY <1>2, <1>5 DEF Outcomes
<1>7. relay' \in Effects(r, relay)
  BY <1>5 DEF Effects
<1> QED
  BY <1>1, <1>2, <1>4, <1>5, <1>6, <1>7 DEF Rpc!Execute, Respond, Set

LEMMA RequestNotFoundStep ==
  ASSUME IInv, RequestNotFound PROVE IInv' /\ Rpc!Execute(conn)
<1> DEFINE r == recv_buf[1].of
<1>1. PICK function \in {q.function : q \in Requests} \ Known :
        Called(function) /\ Respond(Error(r)) /\ UNCHANGED <<relay, leaked>>
  BY DEF RequestNotFound
<1>2. conn \in Clients /\ r = request[conn] /\ r \in Requests /\ r # Nobody
      /\ executed[conn] = Nobody
  BY <1>1, WholeFacts DEF Called, Asks
<1>3. Error(r) \in Answers /\ Error(r).to = r /\ Error(r).kind = "error"
  BY <1>2, AnswerFacts
<1>4. IInv'
  BY <1>1, <1>3, HandledIInv DEF IInv, TypeOK
<1>5. r.function \notin Known /\ request' = request
  BY <1>1 DEF Called, Asks, clientVars
<1>6. Error(r) \in Outcomes(r) /\ relay' \in Effects(r, relay)
  BY <1>1, <1>3, <1>5 DEF Outcomes, Effects, Known
<1> QED
  BY <1>1, <1>2, <1>4, <1>5, <1>6 DEF Rpc!Execute, Respond, Set

LEMMA SendAnswerIInv ==
  ASSUME IInv, NEW n \in 1 .. MaxAnswerParts, SendAnswer(n) PROVE IInv'
<1> USE DEF IInv, SendAnswer, Set, clientVars, bufVars, worldVars, fdVars
<1>1. conn \in Clients /\ resp_buf = executed[conn] /\ n \in Nat \ {0}
  BY SizeAssumption DEF TypeOK, BufferInv
<1>2. ~Processing(conn) /\ \A d : Processing(d)' <=> Processing(d)
  BY DEF Processing
<1>3. TypeOK'
  BY DEF TypeOK, HeldFds, ServerStates
<1>6. QueueInv'
  BY DEF QueueInv
<1>4. CASE resp_buf = Nobody \/ resp_buf.size = 0
  <2>1. StreamInv' /\ BufferInv'
    BY <1>4 DEF StreamInv, BufferInv
  <2>2. ASSUME NEW d \in Clients PROVE ConnInv(d)'
    <3>1. PICK k \in Nat : InPieces(d, k)
      BY DEF ConnInv, RequestInv
    <3>2. InPieces(d, k)'
      BY <1>2, <3>1 DEF InPieces, InProcess
    <3>3. SilentInv(d)' /\ AnswerInv(d)'
      BY <1>2, <1>4 DEF ConnInv, SilentInv, AnswerInv
    <3>4. ServedInv(d)'
      BY <1>1, <1>2, <1>4 DEF ConnInv, ServedInv, Sent
    <3> QED
      BY <3>2, <3>3, <3>4 DEF ConnInv, RequestInv
  <2> QED
    BY <1>3, <1>6, <2>1, <2>2
<1>5. CASE ~(resp_buf = Nobody \/ resp_buf.size = 0)
  <2> DEFINE answer == Segments(resp_buf, n)
  <2>1. /\ answer \in Seq(AnswerParts) /\ answer # <<>> /\ PartsOf(answer, executed[conn])
    BY <1>1, <1>5, SegmentsFacts DEF TypeOK, AnswerParts
  <2>2. /\ toClient[conn] \in Seq(AnswerParts) /\ PartsOf(toClient[conn], executed[conn])
    BY <1>1 DEF StreamInv, ConnInv, AnswerInv
  <2>3. toClient' = [toClient EXCEPT ![conn] = toClient[conn] \o answer]
    BY <1>5
  <2> HIDE DEF answer
  <2>4. /\ toClient[conn] \o answer \in Seq(AnswerParts) /\ toClient[conn] \o answer # <<>>
        /\ PartsOf(toClient[conn] \o answer, executed[conn])
    BY ONLY <2>1, <2>2, ConcatFacts
  <2>5. StreamInv' /\ BufferInv'
    BY <2>3, <2>4 DEF StreamInv, BufferInv
  <2>6. ASSUME NEW d \in Clients PROVE ConnInv(d)'
    <3>1. CASE d # conn
      BY <2>3, <3>1, OtherConn DEF StreamInv
    <3>2. CASE d = conn
      <4>1. PICK k \in Nat : InPieces(d, k)
        BY DEF ConnInv, RequestInv
      <4>2. InPieces(d, k)'
        BY <1>2, <4>1 DEF InPieces, InProcess
      <4>3. /\ toClient'[d] = toClient[conn] \o answer /\ toClient'[d] # <<>>
            /\ PartsOf(toClient'[d], executed[d])
        BY <1>1, <2>3, <2>4, <3>2 DEF StreamInv
      <4>4. SilentInv(d)' /\ ServedInv(d)' /\ AnswerInv(d)'
        BY <1>2, <4>3 DEF ConnInv, SilentInv, ServedInv, Sent, AnswerInv
      <4> QED
        BY <4>2, <4>4 DEF ConnInv, RequestInv
    <3> QED
      BY <3>1, <3>2
  <2> QED
    BY <1>3, <1>6, <2>5, <2>6
<1> QED
  BY <1>4, <1>5

-----------------------------------------------------------------------------
(* The process and its core thread. *)

\* A connection that nobody is at the other end of any more.
LEMMA ResetIInv == ASSUME IInv, NEW c \in Clients, Reset(c) PROVE IInv'
<1> USE DEF IInv, Reset, Forget, Set, bufVars, fdVars
<1>1. TypeOK'
  BY DEF TypeOK, HeldFds, ClientStates
<1>2. StreamInv'
  BY DEF StreamInv
<1>3. conn # c /\ \A i \in DOMAIN backlog : backlog[i] # c
  BY DEF Attached
<1>4. BufferInv'
  BY <1>3 DEF BufferInv, TypeOK
<1>5. QueueInv'
  BY <1>3, QueueKept DEF TypeOK, Attached
<1>6. ASSUME NEW d \in Clients PROVE ConnInv(d)'
  <2>1. CASE d # c
    BY <2>1, OtherConn DEF TypeOK, StreamInv
  <2>2. CASE d = c
    <3>1. /\ client'[d] = "idle" /\ request'[d] = Nobody /\ got'[d] = Nobody
          /\ executed'[d] = Nobody /\ ~Processing(d)'
          /\ toServer'[d] = <<>> /\ arrived'[d] = <<>>
          /\ toClient'[d] = <<>> /\ delivered'[d] = <<>>
      BY <1>3, <2>2 DEF TypeOK, StreamInv, Processing
    <3>2. InPieces(d, 0)'
      BY ONLY <3>1, EmptyFacts DEF InPieces, InProcess
    <3> QED
      BY <3>1, <3>2, EmptyFacts
         DEF ConnInv, SilentInv, RequestInv, ServedInv, AnswerInv
  <2> QED
    BY <2>1, <2>2
<1> QED
  BY <1>1, <1>2, <1>4, <1>5, <1>6

\* Nothing of a request outlives the process that it was sent to.
LEMMA DieIInv ==
  ASSUME IInv, Die, crashes' \in 0 .. MaxCrashes PROVE IInv'
<1> USE DEF IInv, Die, clientVars
<1>1. TypeOK'
  <2>1. HeldFds' = 0 /\ leaked' + HeldFds' <= FdLimit
    BY SizeAssumption DEF HeldFds
  <2>2. Len(backlog') <= BACKLOG + 1
    BY SizeAssumption
  <2> QED
    BY <2>1, <2>2 DEF TypeOK, ServerStates
<1>2. StreamInv'
  BY DEF StreamInv
<1>3. BufferInv' /\ QueueInv'
  BY DEF BufferInv, QueueInv
<1>4. ASSUME NEW d \in Clients PROVE ConnInv(d)'
  <2>1. ~Processing(d)' /\ conn' # d
    BY NobodyAssumption DEF Processing
  <2>2. toServer'[d] = <<>> /\ arrived'[d] = <<>>
    OBVIOUS
  <2>3. InPieces(d, 0)'
    BY ONLY <2>1, <2>2, EmptyFacts DEF InPieces, InProcess
  <2>4. SilentInv(d)' /\ AnswerInv(d)'
    BY <2>1, <2>2 DEF ConnInv, SilentInv, AnswerInv
  <2>5. ServedInv(d)'
    BY <2>1, <2>2 DEF ConnInv, ServedInv, Sent
  <2> QED
    BY <2>3, <2>4, <2>5 DEF ConnInv, RequestInv
<1> QED
  BY <1>1, <1>2, <1>3, <1>4

LEMMA BootIInv == IInv /\ Boot => IInv'
<1> SUFFICES ASSUME IInv, Boot PROVE IInv'
  OBVIOUS
<1> USE DEF IInv, Boot, clientVars, netVars, bufVars, worldVars, fdVars
<1>1. TypeOK' /\ StreamInv' /\ BufferInv' /\ QueueInv'
  BY DEF TypeOK, HeldFds, ServerStates, StreamInv, BufferInv, QueueInv
<1>2. ASSUME NEW d \in Clients PROVE ConnInv(d)'
  BY NobodyAssumption, OtherConn DEF TypeOK
<1> QED
  BY <1>1, <1>2

\* The core thread takes a descriptor, and gives it back or leaks it.
LEMMA CoreIInv ==
  ASSUME IInv, CoreOpen \/ \E leaks \in BOOLEAN : CoreClose(leaks) PROVE IInv'
<1> USE DEF IInv, CoreOpen, CoreClose, clientVars, netVars, bufVars
<1>1. coreOpen' \in BOOLEAN /\ leaked' \in Nat /\ leaked' + HeldFds' <= FdLimit
  <2>1. CASE CoreOpen
    BY <2>1, SizeAssumption DEF TypeOK, HeldFds, OpenFds
  <2>2. CASE \E leaks \in BOOLEAN : CoreClose(leaks)
    <3>1. HeldFds' = HeldFds - 1 /\ HeldFds \in Nat /\ coreOpen' = FALSE
      BY <2>2 DEF HeldFds
    <3>2. leaked' = leaked \/ leaked' = leaked + 1
      BY <2>2
    <3>3. leaked \in Nat /\ leaked + HeldFds <= FdLimit
      BY DEF TypeOK
    <3>4. FdLimit \in Nat
      BY SizeAssumption
    <3>5. leaked' \in Nat /\ leaked' + HeldFds' <= FdLimit
      <4> DEFINE h == HeldFds  g == HeldFds'
      <4> HIDE DEF h, g
      <4>1. g = h - 1 /\ h \in Nat /\ leaked + h <= FdLimit
        BY <3>1, <3>3 DEF g, h
      <4>2. leaked' \in Nat /\ leaked' + g <= FdLimit
        BY ONLY <3>2, <3>3, <3>4, <4>1
      <4> QED
        BY <4>2 DEF g
    <3> QED
      BY <3>1, <3>5
  <2> QED
    BY <2>1, <2>2
<1>2. TypeOK' /\ StreamInv' /\ BufferInv' /\ QueueInv'
  BY <1>1 DEF TypeOK, StreamInv, BufferInv, QueueInv
<1>3. ASSUME NEW d \in Clients PROVE ConnInv(d)'
  BY OtherConn
<1> QED
  BY <1>2, <1>3

-----------------------------------------------------------------------------
\* Every step keeps the invariant, and is a step of RequestReply or none.
LEMMA NextStep ==
  ASSUME IInv, [Next]_vars
  PROVE  IInv' /\ (Rpc!Next \/ UNCHANGED Rpc!rvars)
<1> USE DEF Rpc!rvars
<1>1. CASE UNCHANGED vars
  <2>1. /\ UNCHANGED <<client, request, got, aborts, toServer, arrived, toClient, delivered>>
        /\ UNCHANGED <<backlog, conn, server, recv_buf, resp_buf, executed, relay, leaked>>
        /\ UNCHANGED <<coreOpen, crashes>>
    BY <1>1 DEF vars, clientVars, netVars, bufVars, worldVars, fdVars
  <2>2. TypeOK' /\ StreamInv' /\ BufferInv' /\ QueueInv'
    BY <2>1 DEF IInv, TypeOK, HeldFds, StreamInv, BufferInv, QueueInv
  <2>3. ASSUME NEW c \in Clients PROVE ConnInv(c)'
    BY <2>1, OtherConn DEF IInv
  <2> QED
    BY <2>1, <2>2, <2>3 DEF IInv
<1>2. CASE Accept
  BY <1>2, AcceptIInv DEF Accept, clientVars, worldVars, fdVars
<1>3. CASE Recv
  BY <1>3, RecvIInv DEF Recv, clientVars, worldVars, fdVars
<1>4. CASE EndTalk
  <2>1. conn \in Clients
    BY <1>4 DEF IInv, TypeOK, EndTalk
  <2>2. Rpc!Leave(conn)
    BY <1>4 DEF EndTalk, Forget, Set, Rpc!Leave
  <2> QED
    BY <1>4, <2>1, <2>2, EndTalkIInv DEF Rpc!Next
<1>5. CASE Malformed
  BY <1>5, MalformedIInv DEF Malformed, clientVars, worldVars, fdVars
<1>6. CASE \/ \E opens \in BOOLEAN, size \in FileSizes : GetAllDevices(opens, size)
           \/ GetDevice \/ RequestNotFound \/ \E ok \in BOOLEAN : UpdatePinState(ok)
  <2>1. conn \in Clients
    BY <1>6 DEF IInv, TypeOK, GetAllDevices, GetDevice, RequestNotFound, UpdatePinState, Called,
                Asks
  <2>2. IInv' /\ Rpc!Execute(conn)
    BY <1>6, GetAllDevicesStep, GetDeviceStep, RequestNotFoundStep, UpdatePinStateStep
  <2> QED
    BY <2>1, <2>2 DEF Rpc!Next
<1>7. CASE \E n \in 1 .. MaxAnswerParts : SendAnswer(n)
  BY <1>7, SendAnswerIInv DEF SendAnswer, clientVars, worldVars, fdVars
<1>8. ASSUME NEW c \in Clients, Connect(c) \/ ClientStep(c) \/ Abort(c) \/ Network(c)
      PROVE  IInv' /\ (Rpc!Next \/ UNCHANGED Rpc!rvars)
  <2>1. CASE \E r \in Requests, n \in 1 .. MaxRequestParts : Send(c, r, n)
    <3>1. PICK r \in Requests, n \in 1 .. MaxRequestParts : Send(c, r, n)
      BY <2>1
    <3>2. request[c] = Nobody
      BY <3>1 DEF IInv, ConnInv, SilentInv, Send
    <3>3. Rpc!Ask(c)
      BY <3>1, <3>2 DEF Send, Set, worldVars, fdVars, Rpc!Ask
    <3> QED
      BY <3>1, <3>3, SendIInv DEF Rpc!Next
  <2>2. CASE Connect(c)
    BY <2>2, ConnectIInv DEF Connect, worldVars, fdVars
  <2>3. CASE Read(c)
    BY <2>3, ReadIInv DEF Read, worldVars, fdVars
  <2>4. CASE Close(c)
    BY <2>4, CloseIInv DEF Close, worldVars, fdVars
  <2>5. CASE Abort(c)
    BY <2>5, AbortIInv DEF Abort, worldVars, fdVars
  <2>6. CASE Reset(c)
    <3>1. Rpc!Leave(c)
      BY <2>6 DEF Reset, Forget, Set, Rpc!Leave
    <3> QED
      BY <2>6, <3>1, ResetIInv DEF Rpc!Next
  <2>7. CASE Arrive(c)
    BY <2>7, ArriveIInv DEF Arrive, clientVars, worldVars, fdVars
  <2>8. CASE Deliver(c)
    BY <2>8, DeliverIInv DEF Deliver, clientVars, worldVars, fdVars
  <2> QED
    BY <1>8, <2>1, <2>2, <2>3, <2>4, <2>5, <2>6, <2>7, <2>8 DEF ClientStep, Network
<1>9. CASE Crash \/ SwitchPinless
  <2>1. Die /\ crashes' \in 0 .. MaxCrashes
    BY <1>9, SizeAssumption DEF Crash, SwitchPinless, IInv, TypeOK
  <2> QED
    BY <2>1, DieIInv DEF Die, clientVars
<1>10. CASE Boot
  BY <1>10, BootIInv DEF Boot, clientVars, worldVars, fdVars
<1>11. CASE CoreOpen \/ \E leaks \in BOOLEAN : CoreClose(leaks)
  BY <1>11, CoreIInv DEF CoreOpen, CoreClose, clientVars
<1> QED
  BY <1>1, <1>2, <1>3, <1>4, <1>5, <1>6, <1>7, <1>8, <1>9, <1>10, <1>11 DEF Next, ServerStep

LEMMA Invariance == Spec => []IInv
<1>1. IInv /\ [Next]_vars => IInv'
  BY NextStep
<1> QED
  BY <1>1, InitIInv, PTL DEF Spec

\* The states of server and clients fit together, through clients that are killed and
\* ends of the process, and the two threads never have more descriptors than there are.
THEOREM TypeCorrect == Spec => []TypeOK
  BY Invariance, PTL DEF IInv

\* talk reuses its buffers and cuts requests and answers at will: a client never reads
\* a part of an answer to a request that is not its own.
THEOREM OwnAnswer == Spec => []AnswerIsOwn
<1>1. IInv => AnswerIsOwn
  <2> SUFFICES ASSUME IInv, NEW c \in Clients, got[c] # Nobody
               PROVE  /\ request[c] # Nobody
                      /\ \A i \in DOMAIN got[c] :
                           got[c][i].of = executed[c] /\ executed[c].to = request[c]
    BY DEF AnswerIsOwn
  <2>1. request[c] # Nobody /\ PartsOf(got[c], executed[c]) /\ got[c] \in Seq(AnswerParts)
    BY DEF IInv, ConnInv, SilentInv, AnswerInv, StreamInv
  <2>2. ASSUME NEW i \in DOMAIN got[c] PROVE executed[c] # Nobody
    BY <2>1, NoPartsFacts
  <2> QED
    BY <2>1, <2>2 DEF IInv, ConnInv, ServedInv, PartsOf
<1> QED
  BY <1>1, Invariance, PTL

\* talk, make_request.php: a client and the server that wait for each other have not
\* lost the answer to an executed request, unless it was empty.
THEOREM AnswerKept == Spec => []NoAnswerLost
<1>1. IInv => NoAnswerLost
  BY DEF IInv, ConnInv, ServedInv, Sent, NoAnswerLost
<1> QED
  BY <1>1, Invariance, PTL

\* tcp_server.c with its clients implements RequestReply: every request is executed at
\* most once, between its sending and the end of its connection, also when the process
\* ends with the request executed, half received or waiting.
THEOREM Refinement == Spec => RpcSpec
<1>1. Init => Rpc!Init
  BY DEF Init, Rpc!Init
<1>2. IInv /\ [Next]_vars => [Rpc!Next]_(Rpc!rvars)
  BY NextStep
<1> QED
  BY <1>1, <1>2, Invariance, PTL DEF Spec, RpcSpec, Rpc!Spec
=============================================================================
