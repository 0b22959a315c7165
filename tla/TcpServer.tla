----------------------------- MODULE TcpServer ------------------------------
(***************************************************************************)
(* tcp_server.c and the PHP clients: one server thread accepts a client,   *)
(* talks to it until it closes, and only then accepts the next.  A client  *)
(* (request/make_request.php) connects, sends one request, reads once and  *)
(* closes.                                                                 *)
(*                                                                         *)
(* The streams between them carry messages in segments: the server takes   *)
(* what one recv returns for a whole request, the client takes what one    *)
(* socket_read returns for the whole answer.                               *)
(*                                                                         *)
(* The process ends and is started again while clients are connected, and  *)
(* its core thread uses, and leaks, descriptors of the same process.       *)
(***************************************************************************)
EXTENDS Integers, Sequences

CONSTANTS
  Clients,        \* PHP processes; an identity is used again after its close
  Nobody,         \* no client, no request, no answer
  Requests,       \* the requests considered
  Devices,        \* ids of the devices that exist, shorter than DEVICE_ID_SIZE
  Relays,         \* those of the devices that have a relay
  BACKLOG,        \* connections the kernel keeps for accept (listen(sockfd, 5))
  MESSAGE_SIZE,   \* size of a buffer
  FileSizes,      \* characters that devices.xml may have
  FdLimit,        \* descriptors left to the two threads when the server starts to listen
  MaxRequestParts, MaxAnswerParts,   \* bound: segments a message travels in
  MaxAborts, MaxCrashes       \* bounds: clients killed, ends of the process from outside

ASSUME RequestAssumption ==
  \A r \in Requests : DOMAIN r = {"function", "id", "new_state"} /\ r.new_state \in {0, 1}
ASSUME SizeAssumption ==
  /\ BACKLOG \in Nat /\ MESSAGE_SIZE \in Nat \ {0, 1} /\ FileSizes \subseteq Nat
  /\ FdLimit \in Nat \ {0}
  /\ MaxRequestParts \in Nat \ {0} /\ MaxAnswerParts \in Nat \ {0}
  /\ MaxAborts \in Nat /\ MaxCrashes \in Nat
ASSUME DeviceAssumption == Relays \subseteq Devices

VARIABLES
  client,     \* client[c]: where make_request.php is
  request,    \* request[c]: what c sent, or Nobody
  got,        \* got[c]: what its one read returned, or Nobody
  backlog,    \* connections that wait for accept, in order
  toServer, arrived,    \* segments of c's request on the way, and not yet received
  toClient, delivered,  \* segments of c's answer on the way, and not yet read
  conn,       \* the client the server talks to, or Nobody
  server,     \* where the server thread is; "down": the process has ended
  recv_buf,   \* segments that recv returned
  resp_buf,   \* the answer, or Nobody while it is empty
  executed,   \* history: the answer that executing c's request produced, or Nobody
  relay,      \* state of each device's relay
  leaked,     \* descriptors that get_all_devices and modbus_read have left open
  coreOpen,   \* the core thread has a file or a connection open
  aborts, crashes    \* counted so far

clientVars == <<client, request, got, aborts>>
netVars    == <<toServer, arrived, toClient, delivered>>
bufVars    == <<recv_buf, resp_buf>>
fdVars     == <<leaked, coreOpen>>
worldVars  == <<executed, relay, fdVars, crashes>>
vars == <<clientVars, netVars, backlog, conn, server, bufVars, worldVars>>

ClientStates == {"idle", "connected", "reading", "answered", "closed", "killed"}
ServerStates == {"accept", "recv", "process", "send", "down"}

\* A message on its way.  (That the second segment of a request cut right after its
\* XML declaration is well-formed by itself is left out.)
Segments(message, n) == [i \in 1 .. n |-> [of |-> message, part |-> i, total |-> n]]

\* Mutant: any part of a message is taken for the message.
AnyPart(segments) == segments # <<>>

Whole(segments) == segments # <<>> /\ Len(segments) = segments[1].total

Set(f, c, v) == [f EXCEPT ![c] = v]

Init ==
  /\ client = [c \in Clients |-> "idle"]
  /\ request = [c \in Clients |-> Nobody]
  /\ got = [c \in Clients |-> Nobody]
  /\ backlog = <<>>
  /\ toServer = [c \in Clients |-> <<>>] /\ arrived = toServer
  /\ toClient = toServer /\ delivered = toServer
  /\ conn = Nobody /\ server = "accept"
  /\ recv_buf = <<>> /\ resp_buf = Nobody
  /\ executed = [c \in Clients |-> Nobody]
  /\ relay \in [Relays -> {0, 1}]
  /\ leaked = 0 /\ coreOpen = FALSE /\ aborts = 0 /\ crashes = 0

-----------------------------------------------------------------------------
(* connection.php and make_request.php *)

\* server_connect: the kernel completes it while there is room in the backlog.
Connect(c) ==
  /\ client[c] = "idle" /\ server # "down" /\ Len(backlog) <= BACKLOG
  /\ client' = Set(client, c, "connected")
  /\ backlog' = Append(backlog, c)
  /\ UNCHANGED <<request, got, aborts, netVars, conn, server, bufVars, worldVars>>

\* The process has c's connection, accepted or not.
Attached(c) == conn = c \/ \E i \in DOMAIN backlog : backlog[i] = c

\* server_send: the request leaves in one segment or in several.
Send(c, r, n) ==
  /\ client[c] = "connected" /\ Attached(c)
  /\ client' = Set(client, c, "reading")
  /\ request' = Set(request, c, r)
  /\ toServer' = Set(toServer, c, Segments(r, n))
  /\ UNCHANGED <<got, aborts, arrived, toClient, delivered, backlog, conn, server, bufVars,
                 worldVars>>

\* server_read: one socket_read, which returns what has been delivered.
Read(c) ==
  /\ client[c] = "reading" /\ delivered[c] # <<>>
  /\ got' = Set(got, c, delivered[c])
  /\ delivered' = Set(delivered, c, <<>>)
  /\ client' = Set(client, c, "answered")
  /\ UNCHANGED <<request, aborts, toServer, arrived, toClient, backlog, conn, server, bufVars,
                 worldVars>>

\* server_close.
Close(c) ==
  /\ client[c] = "answered"
  /\ client' = Set(client, c, "closed")
  /\ UNCHANGED <<request, got, aborts, netVars, backlog, conn, server, bufVars, worldVars>>

\* The PHP process is killed.
Abort(c) ==
  /\ client[c] \in {"connected", "reading"} /\ aborts < MaxAborts
  /\ client' = Set(client, c, "killed")
  /\ aborts' = aborts + 1
  /\ UNCHANGED <<request, got, netVars, backlog, conn, server, bufVars, worldVars>>

\* The connection is over for both: everything on the way is dropped.
Forget(c) ==
  /\ client' = Set(client, c, "idle")
  /\ request' = Set(request, c, Nobody) /\ got' = Set(got, c, Nobody)
  /\ executed' = Set(executed, c, Nobody)
  /\ toServer' = Set(toServer, c, <<>>) /\ arrived' = Set(arrived, c, <<>>)
  /\ toClient' = Set(toClient, c, <<>>) /\ delivered' = Set(delivered, c, <<>>)

\* The process that had the other end is gone: what the client does fails, unless it
\* reads what had been delivered.
Reset(c) ==
  /\ client[c] \in {"connected", "reading", "closed", "killed"} /\ ~Attached(c)
  /\ Forget(c)
  /\ UNCHANGED <<aborts, backlog, conn, server, bufVars, relay, fdVars, crashes>>

Arrive(c) ==
  /\ toServer[c] # <<>>
  /\ arrived' = Set(arrived, c, Append(arrived[c], Head(toServer[c])))
  /\ toServer' = Set(toServer, c, Tail(toServer[c]))
  /\ UNCHANGED <<clientVars, toClient, delivered, backlog, conn, server, bufVars, worldVars>>

Deliver(c) ==
  /\ toClient[c] # <<>>
  /\ delivered' = Set(delivered, c, Append(delivered[c], Head(toClient[c])))
  /\ toClient' = Set(toClient, c, Tail(toClient[c]))
  /\ UNCHANGED <<clientVars, toServer, arrived, backlog, conn, server, bufVars, worldVars>>

-----------------------------------------------------------------------------
(* tcp_server.c *)

\* Mutant: the descriptors that are not leaked are forgotten.
LeakedFds == leaked

HeldFds == (IF conn = Nobody THEN 0 ELSE 1) + (IF coreOpen THEN 1 ELSE 0)
OpenFds == leaked + HeldFds

\* Without a descriptor accept fails, and is called again at once.
Accept ==
  /\ server = "accept" /\ backlog # <<>> /\ OpenFds < FdLimit
  /\ conn' = Head(backlog) /\ backlog' = Tail(backlog)
  /\ server' = "recv"
  /\ UNCHANGED <<clientVars, netVars, bufVars, worldVars>>

\* Mutant: the answer to the request before is still in the buffer.
LastAnswer == resp_buf

\* talk: both buffers are cleared, recv returns all that has arrived.
EmptyAnswer == Nobody
Recv ==
  /\ server = "recv" /\ arrived[conn] # <<>>
  /\ recv_buf' = arrived[conn]
  /\ arrived' = Set(arrived, conn, <<>>)
  /\ resp_buf' = EmptyAnswer
  /\ server' = "process"
  /\ UNCHANGED <<clientVars, toServer, toClient, delivered, backlog, conn, worldVars>>

\* Mutants: only the one or only the other end of a client is noticed.
ClientClosed == client[conn] = "closed" /\ arrived[conn] = <<>> /\ toServer[conn] = <<>>
ClientKilled == client[conn] = "killed"

\* recv returns 0 when the client has closed and all it sent has been received,
\* or fails when the client was killed; the server closes the connection.
ClientGone ==
  \/ client[conn] = "killed"
  \/ client[conn] = "closed" /\ arrived[conn] = <<>> /\ toServer[conn] = <<>>
EndTalk ==
  /\ server = "recv" /\ ClientGone
  /\ server' = "accept" /\ conn' = Nobody
  /\ Forget(conn)
  /\ UNCHANGED <<aborts, backlog, bufVars, relay, fdVars, crashes>>

Answer(kind, r, size) == [kind |-> kind, to |-> r, size |-> size]
Error(r) == Answer("error", r, 1)

\* read_request fails on a part of a request: nothing is executed or answered.
Malformed ==
  /\ server = "process" /\ ~Whole(recv_buf)
  /\ server' = "send"
  /\ UNCHANGED <<clientVars, netVars, backlog, conn, bufVars, worldVars>>

Asks(function) ==
  server = "process" /\ Whole(recv_buf) /\ recv_buf[1].of.function = function
Called(function) ==
  /\ Asks(function)
  /\ server' = "send"
  /\ UNCHANGED <<clientVars, netVars, backlog, conn, recv_buf, coreOpen, crashes>>

\* Mutant: the answer is not written to the buffer.
RespondNothing(a) == executed' = Set(executed, conn, a) /\ UNCHANGED resp_buf

Respond(a) == resp_buf' = a /\ executed' = Set(executed, conn, a)

\* The file is read up to the size of the buffer, and never closed.
Shorter(a, b) == IF a < b THEN a ELSE b
GetAllDevices(opens, size) ==
  LET r == recv_buf[1].of
  IN /\ Called("get_all_devices")
     /\ IF OpenFds < FdLimit /\ opens
        THEN /\ Respond(Answer("devices", r, Shorter(size, MESSAGE_SIZE - 1)))
             /\ leaked' = leaked + 1
        ELSE Respond(Error(r)) /\ UNCHANGED leaked
     /\ UNCHANGED relay

GetDevice ==
  LET r == recv_buf[1].of
  IN /\ Called("get_device")
     /\ Respond(IF r.id \in Devices THEN Answer("device", r, 1) ELSE Error(r))
     /\ UNCHANGED <<relay, leaked>>

\* The answer is the same whether relay_write could open the file or not.
UpdatePinState(ok) ==
  LET r == recv_buf[1].of
  IN /\ Called("update_pin_state") /\ r.id \notin Devices \ Relays
     /\ Respond(IF r.id \in Devices THEN Answer("ok", r, 1) ELSE Error(r))
     /\ relay' = IF r.id \in Relays /\ ok THEN Set(relay, r.id, r.new_state) ELSE relay
     /\ UNCHANGED leaked

Known == {"get_all_devices", "get_device", "update_pin_state"}
RequestNotFound ==
  \E function \in {r.function : r \in Requests} \ Known :
    /\ Called(function)
    /\ Respond(Error(recv_buf[1].of))
    /\ UNCHANGED <<relay, leaked>>

\* send: an empty answer sends nothing.
SendAnswer(n) ==
  /\ server = "send"
  /\ toClient' = IF resp_buf = Nobody \/ resp_buf.size = 0 THEN toClient
                 ELSE Set(toClient, conn, toClient[conn] \o Segments(resp_buf, n))
  /\ server' = "recv"
  /\ UNCHANGED <<clientVars, toServer, arrived, delivered, backlog, conn, bufVars, worldVars>>

-----------------------------------------------------------------------------
(* The process *)

\* With the process go its connections, accepted or not, what was sent to it, and its
\* descriptors.
Die ==
  /\ server' = "down" /\ conn' = Nobody /\ backlog' = <<>>
  /\ recv_buf' = <<>> /\ resp_buf' = Nobody
  /\ toServer' = [c \in Clients |-> <<>>] /\ arrived' = toServer'
  /\ leaked' = 0 /\ coreOpen' = FALSE
  /\ UNCHANGED <<clientVars, toClient, delivered, executed, relay>>

Crash == server # "down" /\ crashes < MaxCrashes /\ crashes' = crashes + 1 /\ Die

\* update_pin_state does not ask whether the device has a relay: relay_write takes the
\* length of an id_pin that is not there.
SwitchPinless ==
  /\ Asks("update_pin_state") /\ recv_buf[1].of.id \in Devices \ Relays
  /\ Die /\ UNCHANGED crashes

\* Restart=always, up to the moment the server listens.
Boot ==
  /\ server = "down" /\ server' = "accept"
  /\ UNCHANGED <<clientVars, netVars, backlog, conn, bufVars, worldVars>>

\* The core thread opens one file or connection at a time; a connection whose register
\* cannot be read is not closed.
CoreOpen ==
  /\ server # "down" /\ ~coreOpen /\ OpenFds < FdLimit /\ coreOpen' = TRUE
  /\ UNCHANGED <<clientVars, netVars, backlog, conn, server, bufVars, executed, relay, leaked,
                 crashes>>
CoreClose(leaks) ==
  /\ coreOpen /\ coreOpen' = FALSE
  /\ leaked' = IF leaks THEN leaked + 1 ELSE leaked
  /\ UNCHANGED <<clientVars, netVars, backlog, conn, server, bufVars, executed, relay, crashes>>

ServerStep ==
  \/ Accept \/ Recv \/ EndTalk
  \/ Malformed \/ GetDevice \/ RequestNotFound \/ SwitchPinless
  \/ \E opens \in BOOLEAN, size \in FileSizes : GetAllDevices(opens, size)
  \/ \E ok \in BOOLEAN : UpdatePinState(ok)
  \/ \E n \in 1 .. MaxAnswerParts : SendAnswer(n)

ClientStep(c) ==
  \/ \E r \in Requests, n \in 1 .. MaxRequestParts : Send(c, r, n)
  \/ Read(c)
  \/ Close(c)
  \/ Reset(c)

Network(c) == Arrive(c) \/ Deliver(c)

Next ==
  \/ ServerStep
  \/ \E c \in Clients : Connect(c) \/ ClientStep(c) \/ Abort(c) \/ Network(c)
  \/ CoreOpen \/ \E leaks \in BOOLEAN : CoreClose(leaks)
  \/ Crash \/ Boot

Spec == Init /\ [][Next]_vars

\* The server thread and the PHP processes are scheduled, segments arrive, systemd
\* starts the process again.
FairSpec ==
  /\ Spec /\ WF_vars(ServerStep) /\ WF_vars(Boot)
  /\ \A c \in Clients : WF_vars(ClientStep(c)) /\ WF_vars(Network(c))
-----------------------------------------------------------------------------
Answers ==
  [kind : {"devices", "device", "ok", "error"}, to : Requests, size : 0 .. MESSAGE_SIZE - 1]

ASSUME NobodyAssumption == Nobody \notin Clients \cup Requests \cup Answers

\* The connection states fit together, and the two threads have no more descriptors
\* than there are.
TypeOK ==
  /\ client \in [Clients -> ClientStates]
  /\ request \in [Clients -> Requests \cup {Nobody}]
  /\ executed \in [Clients -> Answers \cup {Nobody}]
  /\ resp_buf \in Answers \cup {Nobody}
  /\ conn \in Clients \cup {Nobody}
  /\ server \in ServerStates
  /\ (server \in {"accept", "down"}) <=> (conn = Nobody)
  /\ relay \in [Relays -> {0, 1}]
  /\ coreOpen \in BOOLEAN /\ leaked \in Nat /\ leaked + HeldFds <= FdLimit
  /\ aborts \in 0 .. MaxAborts /\ crashes \in 0 .. MaxCrashes
  /\ Len(backlog) <= BACKLOG + 1

\* Whatever arrives in whatever pieces, and whoever was served before on the
\* same buffers: what a client reads belongs to the answer to its own request.
AnswerIsOwn ==
  \A c \in Clients : got[c] # Nobody =>
    /\ request[c] # Nobody
    /\ \A i \in DOMAIN got[c] : got[c][i].of = executed[c] /\ executed[c].to = request[c]

\* When server and client wait for each other with nothing on the way between
\* them, the request was never executed or its answer was empty: no other answer to
\* an executed request is lost.
NoAnswerLost ==
  \A c \in Clients :
    (/\ conn = c /\ server = "recv" /\ client[c] = "reading"
     /\ toServer[c] = <<>> /\ arrived[c] = <<>> /\ toClient[c] = <<>> /\ delivered[c] = <<>>)
      => executed[c] = Nobody \/ executed[c].size = 0

\* What a request may be answered and do, whatever the state of the server.
Outcomes(r) ==
  {a \in Answers : a.to = r /\
     CASE r.function = "get_all_devices"  -> a.kind \in {"devices", "error"}
       [] r.function = "get_device"       -> a.kind = IF r.id \in Devices THEN "device" ELSE "error"
       [] r.function = "update_pin_state" ->
            r.id \notin Devices \ Relays /\ a.kind = IF r.id \in Devices THEN "ok" ELSE "error"
       [] OTHER                           -> a.kind = "error"}
Effects(r, state) ==
  IF r.function = "update_pin_state" /\ r.id \in Relays
  THEN {state, Set(state, r.id, r.new_state)} ELSE {state}

\* The server with its sockets, segments and buffers implements RequestReply:
\* each request is executed at most once, between its sending and the end of
\* its connection, also when the client is killed, the process ends or the request is
\* split.
Rpc == INSTANCE RequestReply WITH asked <- request, answer <- executed, state <- relay
RpcSpec == Rpc!Spec

\* With all descriptors but one leaked, the core thread may have the last one whenever
\* accept is called.
Starved == leaked >= FdLimit - 1
CutOff(c) == ~Attached(c) \/ Starved

\* talk and make_request.php: a client that sent its request in one segment gets
\* an answer, unless it is killed, the process ends or the descriptors run out, provided
\* that devices.xml is not empty.
EveryRequestAnswered ==
  \A c \in Clients :
    client[c] = "reading" ~> client[c] \in {"answered", "killed"} \/ CutOff(c)

\* One client is talked to at a time, and every connection gets its turn, with the same
\* exceptions: no client can keep the server from the others.
EveryConnectionServed ==
  \A c \in Clients : client[c] = "connected" ~> conn = c \/ CutOff(c)
=============================================================================
