-------------------------- MODULE ProxyLoopProofs --------------------------
(***************************************************************************)
(* What a read and a send may do to a socket; type correctness and the     *)
(* coherence of the map, the pipelines, the descriptors and epoll.  For    *)
(* any clients and descriptors, any EventsSize, MaxRx and Faults.          *)
(***************************************************************************)
EXTENDS ProxyLoop, TLAPS

-----------------------------------------------------------------------------
(* What a read and a send may do to a socket. *)

\* Reporting the pending error changes nothing else of a socket.
LEMMA ErrorReported ==
  ASSUME NEW s \in Socket
  PROVE  /\ [s EXCEPT !.err = FALSE] \in Socket
         /\ [s EXCEPT !.err = FALSE].link = s.link
BY Zenon DEF Socket

\* The sockets a failed and a pending connect leave, and the one close leaves.
LEMMA NewSocketTypes ==
  /\ ClosedSocket \in Socket /\ ~IsOpen(ClosedSocket)
  /\ ConnectingSocket \in Socket /\ IsOpen(ConnectingSocket)
  /\ DeadSocket \in Socket /\ IsOpen(DeadSocket)
<1>1. ClosedSocket \in Socket /\ ClosedSocket.link = "closed"
  BY MaxRxAssumption DEF ClosedSocket, Socket
<1>. HIDE DEF ClosedSocket
<1>2. \A l \in {"connecting", "failed"} :
        [ClosedSocket EXCEPT !.link = l] \in Socket /\ [ClosedSocket EXCEPT !.link = l].link = l
  BY <1>1 DEF Socket
<1>. QED BY <1>1, <1>2 DEF ConnectingSocket, DeadSocket, IsOpen

\* A read never opens, closes, connects or breaks a socket: it returns one of
\* the three statuses of ReadData, and changes the queue, the error and errno
\* within their types.
LEMMA ReadDataType ==
  ASSUME NEW s \in Socket, NEW n \in Errno
  PROVE  LET r == ReadData(s, n) IN
         /\ r.status \in ReadStatus
         /\ r.sock \in Socket /\ r.sock.link = s.link
         /\ r.errno \in Errno
<1>. USE MaxRxAssumption DEF Socket, Errno, ReadStatus
<1>1. /\ Recv(s, n).result \in RecvResult
      /\ Recv(s, n).sock \in Socket /\ Recv(s, n).sock.link = s.link
      /\ Recv(s, n).errno \in Errno
  <2>1. CASE s.rx > 0
    BY <2>1 DEF Recv, RecvResult
  <2>2. CASE s.rx = 0 /\ s.eof
    BY <2>2 DEF Recv, RecvResult
  <2>3. CASE s.rx = 0 /\ ~s.eof /\ s.err
    <3>1. Recv(s, n) = [result |-> "error", sock |-> [s EXCEPT !.err = FALSE], errno |-> "other"]
      BY <2>3 DEF Recv
    <3>. QED BY <3>1, ErrorReported DEF RecvResult
  <2>4. CASE s.rx = 0 /\ ~s.eof /\ ~s.err
    BY <2>4 DEF Recv, RecvResult
  <2>. QED BY <2>1, <2>2, <2>3, <2>4
<1>. QED BY <1>1 DEF ReadData, RecvResult

\* A send leaves the state of the link as it is, and clears at most the pending
\* error.
LEMMA SendDataType ==
  ASSUME NEW s \in Socket, NEW n \in Errno, NEW w \in SendData(s, n)
  PROVE  /\ w.ok \in BOOLEAN
         /\ w.sock \in Socket /\ w.sock.link = s.link
         /\ w.errno \in Errno
<1>1. CASE s.link = "connected"
  <2>1. w \in {[ok |-> TRUE, sock |-> s, errno |-> n], SendFailed(s, "EWOULDBLOCK")}
    <3>1. SendData(s, n) = {[ok |-> TRUE, sock |-> s, errno |-> n]} \cup
             (IF "send" \in Faults THEN {SendFailed(s, "EWOULDBLOCK")} ELSE {})
      BY <1>1 DEF SendData
    <3>. QED BY <3>1
  <2>2. CASE w = [ok |-> TRUE, sock |-> s, errno |-> n]
    BY <2>2
  <2>3. CASE w = SendFailed(s, "EWOULDBLOCK")
    BY <2>3 DEF SendFailed, Errno
  <2>. QED BY <2>1, <2>2, <2>3
<1>2. CASE s.link = "connecting"
  <2>1. w = SendFailed(s, "EWOULDBLOCK")
    BY <1>2 DEF SendData
  <2>. QED BY <2>1 DEF SendFailed, Errno
<1>3. CASE s.link \notin {"connected", "connecting"}
  <2>1. w = SendFailed([s EXCEPT !.err = FALSE], "other")
    BY <1>3 DEF SendData
  <2>. QED BY <2>1, ErrorReported DEF SendFailed, Errno
<1>. QED BY <1>1, <1>2, <1>3

\* The end of a transfer is reported only when nothing is unread and the stream
\* really is over.
LEMMA EndedMeansDrained ==
  ASSUME NEW s \in Socket, NEW n \in Errno,
         ReadData(s, n).status = "DataTransferEnded"
  PROVE  s.rx = 0 /\ (s.eof \/ s.link = "failed") /\ n = "EWOULDBLOCK"
<1>. USE MaxRxAssumption DEF Socket, Errno
<1>1. CASE s.rx > 0
  BY <1>1 DEF ReadData, Recv
<1>2. CASE s.rx = 0 /\ s.eof
  BY <1>2 DEF ReadData, Recv
<1>3. CASE s.rx = 0 /\ ~s.eof
  BY <1>3 DEF ReadData, Recv
<1>. QED BY <1>1, <1>2, <1>3

-----------------------------------------------------------------------------
(* What holds between the parts of the loop. *)

\* A client that was not accepted has nothing, and only such clients queue.
FreshClients ==
  /\ \A c \in backlog : flow[c] = "none"
  /\ \A c \in Client : flow[c] = "none" => serverFd[c] = NoFd /\ ~awaiting[c]

\* A closed descriptor is not registered.
RegisteredIsOpen == \A f \in Fd : epoll[f] # "off" => IsOpen(sock[f])

\* Client descriptors are watched on edges and server descriptors by level.
Watched ==
  status = "running" =>
    \A c \in Client : Live(c) =>
      /\ epoll[clientFd[c]] = "edge"
      /\ serverFd[c] # NoFd => epoll[serverFd[c]] = "level"

IInv ==
  /\ TypeOK
  /\ FreshClients
  /\ MapCoherent
  /\ RegisteredIsOpen
  /\ Watched
  /\ ServerReady

\* What a transaction that neither creates nor releases a descriptor does.
Quiet(c) ==
  /\ TypeOK'
  /\ UNCHANGED <<status, backlog, pipelines, clientFd, serverFd, epoll>>
  /\ \A f \in Fd : sock'[f].link = sock[f].link
  /\ \A d \in Client \ {c} : flow'[d] = flow[d] /\ awaiting'[d] = awaiting[d]
  /\ Live(c) /\ flow'[c] \in Flow
  /\ (awaiting'[c] \/ flow'[c] \in TLSFlow) <=> (awaiting[c] \/ flow[c] \in TLSFlow)

LEMMA QuietPreserves ==
  ASSUME IInv, NEW c \in Client, Quiet(c)
  PROVE  IInv'
<1>. USE DEF IInv, Quiet
<1>1. TypeOK'
  OBVIOUS
<1>2. \A d \in Client : /\ (Live(d)' <=> Live(d))
                        /\ (flow'[d] = "none" <=> flow[d] = "none")
                        /\ Owned(d)' = Owned(d)
  <2>. SUFFICES ASSUME NEW d \in Client
                PROVE  /\ (Live(d)' <=> Live(d))
                       /\ (flow'[d] = "none" <=> flow[d] = "none")
                       /\ Owned(d)' = Owned(d)
    OBVIOUS
  <2>1. CASE d = c
    BY <2>1 DEF Live, Owned, Flow
  <2>2. CASE d # c
    BY <2>2 DEF Live, Owned
  <2>. QED BY <2>1, <2>2
<1>3. \A f \in Fd : IsOpen(sock[f])' <=> IsOpen(sock[f])
  BY DEF IsOpen
<1>4. \A d \in Client : (awaiting'[d] \/ flow'[d] \in TLSFlow)
                          <=> (awaiting[d] \/ flow[d] \in TLSFlow)
  OBVIOUS
<1>5. FreshClients'
  BY <1>2 DEF FreshClients, TypeOK, Live, Flow
<1>6. MapCoherent'
  BY <1>2, <1>3 DEF MapCoherent, TypeOK
<1>7. RegisteredIsOpen'
  BY <1>3 DEF RegisteredIsOpen
<1>8. Watched'
  BY <1>2 DEF Watched
<1>9. ServerReady'
  BY <1>2, <1>4 DEF ServerReady
<1>. QED BY <1>1, <1>5, <1>6, <1>7, <1>8, <1>9

\* What Dispatch tells about the conversation of an event.
LEMMA Dispatched ==
  ASSUME IInv, NEW e, NEW c \in Client, NEW state \in Flow, Dispatch(e, c, state)
  PROVE  /\ Live(c) /\ flow[c] = state /\ status = "running"
         /\ batch' \subseteq Fd \cup {Listener}
         /\ clientFd[c] \in Fd /\ sock[clientFd[c]] \in Socket
         /\ clientFd[c] # serverFd[c]
         /\ awaiting[c] \/ state \in TLSFlow =>
              serverFd[c] \in Fd /\ sock[serverFd[c]] \in Socket
BY DEF IInv, TypeOK, Dispatch, TakeEvent, Live, MapCoherent, ServerReady

\* Touch and Touch2 keep every link.
LEMMA TouchKeeps ==
  ASSUME TypeOK, NEW f \in Fd, NEW r, Touch(f, r),
         r.sock \in Socket, r.sock.link = sock[f].link, r.errno \in Errno
  PROVE  /\ sock' \in [Fd -> Socket] /\ errno' \in Errno
         /\ UNCHANGED <<epoll, edge>>
         /\ \A x \in Fd : sock'[x].link = sock[x].link
BY DEF TypeOK, Touch

LEMMA Touch2Keeps ==
  ASSUME TypeOK, NEW f \in Fd, NEW g \in Fd, NEW r, NEW q, Touch2(f, r, g, q),
         r.sock \in Socket, r.sock.link = sock[f].link,
         q.sock \in Socket, q.sock.link = sock[g].link, q.errno \in Errno
  PROVE  /\ sock' \in [Fd -> Socket] /\ errno' \in Errno
         /\ UNCHANGED <<epoll, edge>>
         /\ \A x \in Fd : sock'[x].link = sock[x].link
BY DEF TypeOK, Touch2

\* A transaction that keeps its flow, or moves to another and keeps whether it
\* needs a server, is quiet once its sockets are.
LEMMA StayIsQuiet ==
  ASSUME TypeOK, NEW c \in Client, NEW b \in BOOLEAN, Stay(c, b), Live(c),
         batch' \subseteq Fd \cup {Listener},
         UNCHANGED <<status, backlog, pipelines, epoll, edge>>,
         sock' \in [Fd -> Socket], errno' \in Errno,
         \A f \in Fd : sock'[f].link = sock[f].link
  PROVE  Quiet(c)
<1>1. held' \in [Client -> BOOLEAN]
  BY Zenon DEF TypeOK, Stay
<1>. QED BY <1>1 DEF Quiet, TypeOK, Stay, Live

LEMMA BecomeIsQuiet ==
  ASSUME TypeOK, NEW c \in Client, NEW b \in BOOLEAN, NEW s \in Flow,
         Become(c, s, b), Live(c),
         s \in TLSFlow <=> flow[c] \in TLSFlow,
         batch' \subseteq Fd \cup {Listener},
         UNCHANGED <<status, backlog, pipelines, epoll, edge>>,
         sock' \in [Fd -> Socket], errno' \in Errno,
         \A f \in Fd : sock'[f].link = sock[f].link
  PROVE  Quiet(c)
<1>1. held' \in [Client -> BOOLEAN]
  BY Zenon DEF TypeOK, Become
<1>2. flow' \in [Client -> FlowState]
  BY DEF TypeOK, Become, FlowState
<1>3. flow'[c] = s /\ \A d \in Client \ {c} : flow'[d] = flow[d]
  BY DEF TypeOK, Become
<1>. QED BY <1>1, <1>2, <1>3 DEF Quiet, TypeOK, Become, Live

-----------------------------------------------------------------------------
(* The transactions that keep their descriptors, one lemma each. *)

LEMMA ClientHelloQuiet ==
  ASSUME IInv, NEW e, NEW c \in Client, ClientHelloTransmission(e, c)
  PROVE  Quiet(c)
<1>. DEFINE f == clientFd[c]
            r == ReadData(sock[f], errno)
<1>1. /\ Live(c) /\ flow[c] = "SOCKS5ClientHello"
      /\ batch' \subseteq Fd \cup {Listener}
      /\ f \in Fd /\ sock[f] \in Socket
  BY Dispatched DEF ClientHelloTransmission, Flow
<1>2. TypeOK /\ errno \in Errno /\ held[c] \in BOOLEAN
  BY Zenon DEF IInv, TypeOK
<1>3. r.sock \in Socket /\ r.sock.link = sock[f].link /\ r.errno \in Errno
  BY <1>1, <1>2, ReadDataType
<1>4. UNCHANGED <<status, backlog, pipelines>>
  BY DEF ClientHelloTransmission
<1>5. \/ \E b \in BOOLEAN : Touch(f, r) /\ Stay(c, b)
      \/ \E w \in SendData(r.sock, r.errno), b \in BOOLEAN :
           Touch(f, w) /\ (Stay(c, b) \/ Become(c, "SOCKS5ConnectionRequest", b))
  BY <1>2, Zenon DEF ClientHelloTransmission
<1>6. CASE \E b \in BOOLEAN : Touch(f, r) /\ Stay(c, b)
  <2>1. PICK b \in BOOLEAN : Touch(f, r) /\ Stay(c, b)
    BY <1>6
  <2>. HIDE DEF f, r
  <2>2. /\ sock' \in [Fd -> Socket] /\ errno' \in Errno /\ UNCHANGED <<epoll, edge>>
        /\ \A x \in Fd : sock'[x].link = sock[x].link
    BY <1>1, <1>2, <1>3, <2>1, TouchKeeps
  <2>. QED BY <1>1, <1>2, <1>4, <2>1, <2>2, StayIsQuiet
<1>7. CASE \E w \in SendData(r.sock, r.errno), b \in BOOLEAN :
             Touch(f, w) /\ (Stay(c, b) \/ Become(c, "SOCKS5ConnectionRequest", b))
  <2>1. PICK w \in SendData(r.sock, r.errno), b \in BOOLEAN :
           Touch(f, w) /\ (Stay(c, b) \/ Become(c, "SOCKS5ConnectionRequest", b))
    BY <1>7
  <2>. HIDE DEF f, r
  <2>2. w.sock \in Socket /\ w.sock.link = sock[f].link /\ w.errno \in Errno
    BY <1>3, <2>1, SendDataType
  <2>3. /\ sock' \in [Fd -> Socket] /\ errno' \in Errno /\ UNCHANGED <<epoll, edge>>
        /\ \A x \in Fd : sock'[x].link = sock[x].link
    BY <1>1, <1>2, <2>1, <2>2, TouchKeeps
  <2>4. CASE Stay(c, b)
    BY <1>1, <1>2, <1>4, <2>3, <2>4, StayIsQuiet
  <2>5. CASE Become(c, "SOCKS5ConnectionRequest", b)
    BY <1>1, <1>2, <1>4, <2>3, <2>5, BecomeIsQuiet DEF Flow, TLSFlow
  <2>. QED BY <2>1, <2>4, <2>5
<1>. QED BY <1>5, <1>6, <1>7

LEMMA TLSClientHelloQuiet ==
  ASSUME IInv, NEW e, NEW c \in Client, TLSReceivingClientHello(e, c)
  PROVE  Quiet(c)
<1>. DEFINE f == clientFd[c]
            g == serverFd[c]
            r == ReadData(sock[f], errno)
<1>1. /\ Live(c) /\ flow[c] = "TLSClientHello"
      /\ batch' \subseteq Fd \cup {Listener}
      /\ f \in Fd /\ sock[f] \in Socket
      /\ g \in Fd /\ sock[g] \in Socket
  BY Dispatched DEF TLSReceivingClientHello, Flow, TLSFlow
<1>2. TypeOK /\ errno \in Errno /\ held[c] \in BOOLEAN
  BY Zenon DEF IInv, TypeOK
<1>3. r.sock \in Socket /\ r.sock.link = sock[f].link /\ r.errno \in Errno
  BY <1>1, <1>2, ReadDataType
<1>4. UNCHANGED <<status, backlog, pipelines>>
  BY DEF TLSReceivingClientHello
<1>5. \/ \E b \in BOOLEAN : Touch(f, r) /\ Stay(c, b)
      \/ \E w \in SendData(sock[g], r.errno), b \in BOOLEAN :
           Touch2(f, r, g, w) /\ (Stay(c, b) \/ Become(c, "TLSServerHello", b))
  BY <1>2, Zenon DEF TLSReceivingClientHello
<1>6. CASE \E b \in BOOLEAN : Touch(f, r) /\ Stay(c, b)
  <2>1. PICK b \in BOOLEAN : Touch(f, r) /\ Stay(c, b)
    BY <1>6
  <2>. HIDE DEF f, g, r
  <2>2. /\ sock' \in [Fd -> Socket] /\ errno' \in Errno /\ UNCHANGED <<epoll, edge>>
        /\ \A x \in Fd : sock'[x].link = sock[x].link
    BY <1>1, <1>2, <1>3, <2>1, TouchKeeps
  <2>. QED BY <1>1, <1>2, <1>4, <2>1, <2>2, StayIsQuiet
<1>7. CASE \E w \in SendData(sock[g], r.errno), b \in BOOLEAN :
             Touch2(f, r, g, w) /\ (Stay(c, b) \/ Become(c, "TLSServerHello", b))
  <2>1. PICK w \in SendData(sock[g], r.errno), b \in BOOLEAN :
           Touch2(f, r, g, w) /\ (Stay(c, b) \/ Become(c, "TLSServerHello", b))
    BY <1>7
  <2>. HIDE DEF f, g, r
  <2>2. w.sock \in Socket /\ w.sock.link = sock[g].link /\ w.errno \in Errno
    BY <1>1, <1>3, <2>1, SendDataType
  <2>3. /\ sock' \in [Fd -> Socket] /\ errno' \in Errno /\ UNCHANGED <<epoll, edge>>
        /\ \A x \in Fd : sock'[x].link = sock[x].link
    BY <1>1, <1>2, <1>3, <2>1, <2>2, Touch2Keeps
  <2>4. CASE Stay(c, b)
    BY <1>1, <1>2, <1>4, <2>3, <2>4, StayIsQuiet
  <2>5. CASE Become(c, "TLSServerHello", b)
    BY <1>1, <1>2, <1>4, <2>3, <2>5, BecomeIsQuiet DEF Flow, TLSFlow
  <2>. QED BY <2>1, <2>4, <2>5
<1>. QED BY <1>5, <1>6, <1>7

LEMMA TLSServerHelloQuiet ==
  ASSUME IInv, NEW e, NEW c \in Client, TLSReceivingServerHello(e, c)
  PROVE  Quiet(c)
<1>. DEFINE f == serverFd[c]
            g == clientFd[c]
            r == ReadData(sock[f], errno)
<1>1. /\ Live(c) /\ flow[c] = "TLSServerHello"
      /\ batch' \subseteq Fd \cup {Listener}
      /\ f \in Fd /\ sock[f] \in Socket
      /\ g \in Fd /\ sock[g] \in Socket
  BY Dispatched DEF TLSReceivingServerHello, Flow, TLSFlow
<1>2. TypeOK /\ errno \in Errno /\ held[c] \in BOOLEAN
  BY Zenon DEF IInv, TypeOK
<1>3. r.sock \in Socket /\ r.sock.link = sock[f].link /\ r.errno \in Errno
  BY <1>1, <1>2, ReadDataType
<1>4. UNCHANGED <<status, backlog, pipelines>>
  BY DEF TLSReceivingServerHello
<1>5. \/ \E b \in BOOLEAN : Touch(f, r) /\ Stay(c, b)
      \/ \E w \in SendData(sock[g], r.errno), b \in BOOLEAN :
           Touch2(f, r, g, w) /\ (Stay(c, b) \/ Become(c, "TLSDefault", b))
  <2>1. HasBytes(c, r) \in BOOLEAN
    BY DEF HasBytes
  <2>2. \/ r.status = "Failed" /\ Touch(f, r) /\ Stay(c, held[c])
        \/ Touch(f, r) /\ Stay(c, TRUE)
        \/ \E w \in SendData(sock[g], r.errno) :
             /\ Touch2(f, r, g, w)
             /\ \/ Become(c, "TLSDefault", FALSE)
                \/ Stay(c, TRUE)
                \/ Stay(c, HasBytes(c, r))
    BY Zenon DEF TLSReceivingServerHello
  <2>. QED BY <1>2, <2>1, <2>2, Zenon
<1>6. CASE \E b \in BOOLEAN : Touch(f, r) /\ Stay(c, b)
  <2>1. PICK b \in BOOLEAN : Touch(f, r) /\ Stay(c, b)
    BY <1>6
  <2>. HIDE DEF f, g, r
  <2>2. /\ sock' \in [Fd -> Socket] /\ errno' \in Errno /\ UNCHANGED <<epoll, edge>>
        /\ \A x \in Fd : sock'[x].link = sock[x].link
    BY <1>1, <1>2, <1>3, <2>1, TouchKeeps
  <2>. QED BY <1>1, <1>2, <1>4, <2>1, <2>2, StayIsQuiet
<1>7. CASE \E w \in SendData(sock[g], r.errno), b \in BOOLEAN :
             Touch2(f, r, g, w) /\ (Stay(c, b) \/ Become(c, "TLSDefault", b))
  <2>1. PICK w \in SendData(sock[g], r.errno), b \in BOOLEAN :
           Touch2(f, r, g, w) /\ (Stay(c, b) \/ Become(c, "TLSDefault", b))
    BY <1>7
  <2>. HIDE DEF f, g, r
  <2>2. w.sock \in Socket /\ w.sock.link = sock[g].link /\ w.errno \in Errno
    BY <1>1, <1>3, <2>1, SendDataType
  <2>3. /\ sock' \in [Fd -> Socket] /\ errno' \in Errno /\ UNCHANGED <<epoll, edge>>
        /\ \A x \in Fd : sock'[x].link = sock[x].link
    BY <1>1, <1>2, <1>3, <2>1, <2>2, Touch2Keeps
  <2>4. CASE Stay(c, b)
    BY <1>1, <1>2, <1>4, <2>3, <2>4, StayIsQuiet
  <2>5. CASE Become(c, "TLSDefault", b)
    BY <1>1, <1>2, <1>4, <2>3, <2>5, BecomeIsQuiet DEF Flow, TLSFlow
  <2>. QED BY <2>1, <2>4, <2>5
<1>. QED BY <1>5, <1>6, <1>7

LEMMA TLSDefaultQuiet ==
  ASSUME IInv, NEW e, NEW c \in Client, TLSDefault(e, c)
  PROVE  Quiet(c)
<1>. DEFINE f == IF e = clientFd[c] THEN clientFd[c] ELSE serverFd[c]
            g == IF e = clientFd[c] THEN serverFd[c] ELSE clientFd[c]
            r == ReadData(sock[f], errno)
<1>1. /\ Live(c) /\ flow[c] = "TLSDefault"
      /\ batch' \subseteq Fd \cup {Listener}
      /\ f \in Fd /\ sock[f] \in Socket
      /\ g \in Fd /\ sock[g] \in Socket
  BY Dispatched DEF TLSDefault, Flow, TLSFlow
<1>2. TypeOK /\ errno \in Errno /\ held[c] \in BOOLEAN
  BY Zenon DEF IInv, TypeOK
<1>3. r.sock \in Socket /\ r.sock.link = sock[f].link /\ r.errno \in Errno
  BY <1>1, <1>2, ReadDataType
<1>4. UNCHANGED <<status, backlog, pipelines>>
  BY DEF TLSDefault
<1>5. \/ \E b \in BOOLEAN : Touch(f, r) /\ Stay(c, b)
      \/ \E w \in SendData(sock[g], r.errno), b \in BOOLEAN :
           Touch2(f, r, g, w) /\ Stay(c, b)
  BY <1>2, Zenon DEF TLSDefault
<1>6. CASE \E b \in BOOLEAN : Touch(f, r) /\ Stay(c, b)
  <2>1. PICK b \in BOOLEAN : Touch(f, r) /\ Stay(c, b)
    BY <1>6
  <2>. HIDE DEF f, g, r
  <2>2. /\ sock' \in [Fd -> Socket] /\ errno' \in Errno /\ UNCHANGED <<epoll, edge>>
        /\ \A x \in Fd : sock'[x].link = sock[x].link
    BY <1>1, <1>2, <1>3, <2>1, TouchKeeps
  <2>. QED BY <1>1, <1>2, <1>4, <2>1, <2>2, StayIsQuiet
<1>7. CASE \E w \in SendData(sock[g], r.errno), b \in BOOLEAN :
             Touch2(f, r, g, w) /\ Stay(c, b)
  <2>1. PICK w \in SendData(sock[g], r.errno), b \in BOOLEAN :
           Touch2(f, r, g, w) /\ Stay(c, b)
    BY <1>7
  <2>. HIDE DEF f, g, r
  <2>2. w.sock \in Socket /\ w.sock.link = sock[g].link /\ w.errno \in Errno
    BY <1>1, <1>3, <2>1, SendDataType
  <2>3. /\ sock' \in [Fd -> Socket] /\ errno' \in Errno /\ UNCHANGED <<epoll, edge>>
        /\ \A x \in Fd : sock'[x].link = sock[x].link
    BY <1>1, <1>2, <1>3, <2>1, <2>2, Touch2Keeps
  <2>. QED BY <1>1, <1>2, <1>4, <2>1, <2>3, StayIsQuiet
<1>. QED BY <1>5, <1>6, <1>7

LEMMA ConnectionRequestReplyQuiet ==
  ASSUME IInv, NEW e, NEW c \in Client, ConnectionRequestReply(e, c)
  PROVE  Quiet(c)
<1>. DEFINE f == clientFd[c]
            g == serverFd[c]
            settled == [sock EXCEPT ![g].err = FALSE]
<1>1. /\ Live(c) /\ flow[c] = "SOCKS5ConnectionRequest" /\ awaiting[c]
      /\ batch' \subseteq Fd \cup {Listener}
      /\ f \in Fd /\ g \in Fd /\ sock[g] \in Socket
  BY Dispatched DEF ConnectionRequestReply, Flow
<1>2. TypeOK /\ errno \in Errno
  BY Zenon DEF IInv, TypeOK
<1>3. settled \in [Fd -> Socket] /\ \A x \in Fd : settled[x].link = sock[x].link
  <2>1. [sock[g] EXCEPT !.err = FALSE] \in Socket
        /\ [sock[g] EXCEPT !.err = FALSE].link = sock[g].link
    BY <1>1, ErrorReported
  <2>2. settled = [sock EXCEPT ![g] = [sock[g] EXCEPT !.err = FALSE]]
    BY Zenon
  <2>. HIDE DEF settled
  <2>. QED BY <1>1, <1>2, <2>1, <2>2, Zenon DEF TypeOK
<1>. HIDE DEF settled
<1>4. UNCHANGED <<status, backlog, pipelines, epoll, edge>>
  BY DEF ConnectionRequestReply, settled
<1>5. \/ sock' = settled /\ errno' = errno /\ Stay(c, TRUE)
      \/ \E w \in SendData(settled[f], errno) :
           /\ sock' = [settled EXCEPT ![f] = w.sock]
           /\ errno' = w.errno
           /\ \/ Stay(c, TRUE)
              \/ /\ flow' = [flow EXCEPT ![c] = "TLSClientHello"]
                 /\ awaiting' = [awaiting EXCEPT ![c] = FALSE]
                 /\ held' = [held EXCEPT ![c] = FALSE]
                 /\ UNCHANGED <<clientFd, serverFd>>
  BY Zenon DEF ConnectionRequestReply, settled
<1>6. CASE sock' = settled /\ errno' = errno /\ Stay(c, TRUE)
  BY <1>1, <1>2, <1>3, <1>4, <1>6, StayIsQuiet
<1>7. CASE \E w \in SendData(settled[f], errno) :
             /\ sock' = [settled EXCEPT ![f] = w.sock]
             /\ errno' = w.errno
             /\ \/ Stay(c, TRUE)
                \/ /\ flow' = [flow EXCEPT ![c] = "TLSClientHello"]
                   /\ awaiting' = [awaiting EXCEPT ![c] = FALSE]
                   /\ held' = [held EXCEPT ![c] = FALSE]
                   /\ UNCHANGED <<clientFd, serverFd>>
  <2>1. PICK w \in SendData(settled[f], errno) :
             /\ sock' = [settled EXCEPT ![f] = w.sock]
             /\ errno' = w.errno
             /\ \/ Stay(c, TRUE)
                \/ /\ flow' = [flow EXCEPT ![c] = "TLSClientHello"]
                   /\ awaiting' = [awaiting EXCEPT ![c] = FALSE]
                   /\ held' = [held EXCEPT ![c] = FALSE]
                   /\ UNCHANGED <<clientFd, serverFd>>
    BY <1>7
  <2>. HIDE DEF f, g
  <2>2. w.sock \in Socket /\ w.sock.link = settled[f].link /\ w.errno \in Errno
    BY <1>1, <1>2, <1>3, SendDataType
  <2>3. /\ sock' \in [Fd -> Socket] /\ errno' \in Errno
        /\ \A x \in Fd : sock'[x].link = sock[x].link
    BY <1>1, <1>3, <2>1, <2>2
  <2>4. CASE Stay(c, TRUE)
    BY <1>1, <1>2, <1>4, <2>3, <2>4, StayIsQuiet
  <2>5. CASE /\ flow' = [flow EXCEPT ![c] = "TLSClientHello"]
             /\ awaiting' = [awaiting EXCEPT ![c] = FALSE]
             /\ held' = [held EXCEPT ![c] = FALSE]
             /\ UNCHANGED <<clientFd, serverFd>>
    <3>1. held' \in [Client -> BOOLEAN] /\ awaiting' \in [Client -> BOOLEAN]
      BY <1>2, <2>5, Zenon DEF TypeOK
    <3>2. flow' \in [Client -> FlowState]
      BY <1>2, <2>5 DEF TypeOK, FlowState, Flow
    <3>3. TypeOK'
      BY <1>1, <1>2, <1>4, <2>3, <2>5, <3>1, <3>2 DEF TypeOK
    <3>4. /\ flow'[c] = "TLSClientHello"
          /\ \A d \in Client \ {c} : flow'[d] = flow[d] /\ awaiting'[d] = awaiting[d]
      BY <1>2, <2>5 DEF TypeOK
    <3>. QED BY <1>1, <1>4, <2>3, <2>5, <3>3, <3>4 DEF Quiet, Flow, TLSFlow
  <2>. QED BY <2>1, <2>4, <2>5
<1>. QED BY <1>5, <1>6, <1>7

-----------------------------------------------------------------------------
(* Steps that create, close or change descriptors. *)

\* In a coherent state a closed descriptor is nobody's.
LEMMA FreeIsUnowned ==
  ASSUME IInv, NEW g \in Fd, ~IsOpen(sock[g])
  PROVE  /\ pipelines[g] = Null /\ epoll[g] = "off"
         /\ \A c \in Client : Live(c) => g # clientFd[c] /\ g # serverFd[c]
<1>1. pipelines[g] = Null /\ epoll[g] = "off"
  BY DEF IInv, MapCoherent, RegisteredIsOpen, TypeOK
<1>2. \A c \in Client : Live(c) => g \notin Owned(c)
  BY <1>1, NullAssumption DEF IInv, MapCoherent
<1>3. g # NoFd
  BY FdAssumption DEF NoFd
<1>. QED BY <1>1, <1>2, <1>3 DEF Owned

\* Steps that leave every conversation, the map and the registrations alone and
\* close nothing.
LEMMA OutsidePreserves ==
  ASSUME IInv, TypeOK',
         UNCHANGED <<pipelines, flow, clientFd, serverFd, awaiting>>,
         \A f \in Fd : IsOpen(sock[f]) => IsOpen(sock'[f]),
         \A f \in Fd : epoll'[f] # epoll[f] => ~IsOpen(sock[f]) /\ IsOpen(sock'[f]),
         \A c \in backlog' : flow[c] = "none",
         status' = "running" => status = "running"
  PROVE  IInv'
<1>1. FreshClients'
  BY DEF IInv, FreshClients
<1>2. \A c \in Client : (Live(c)' <=> Live(c)) /\ Owned(c)' = Owned(c)
  BY DEF Live, Owned
<1>3. MapCoherent'
  BY <1>2 DEF IInv, MapCoherent, TypeOK
<1>4. RegisteredIsOpen'
  BY DEF IInv, RegisteredIsOpen
<1>5. Watched'
  <2>. SUFFICES ASSUME status' = "running", NEW c \in Client, Live(c)
                PROVE  /\ epoll'[clientFd[c]] = "edge"
                       /\ serverFd[c] # NoFd => epoll'[serverFd[c]] = "level"
    BY <1>2 DEF Watched
  <2>1. /\ epoll[clientFd[c]] = "edge"
        /\ serverFd[c] # NoFd => epoll[serverFd[c]] = "level"
    BY DEF IInv, Watched
  <2>2. clientFd[c] \in Fd /\ (serverFd[c] # NoFd => serverFd[c] \in Fd)
    BY DEF IInv, TypeOK, MapCoherent
  <2>. QED BY <2>1, <2>2, FreeIsUnowned
<1>6. ServerReady'
  BY <1>2 DEF IInv, ServerReady
<1>. QED BY <1>1, <1>3, <1>4, <1>5, <1>6 DEF IInv

LEMMA ArrivePreserves ==
  ASSUME IInv, NEW c \in Client, Arrive(c)
  PROVE  IInv'
<1>. USE DEF Arrive, conversation, kernel
<1>1. TypeOK'
  BY DEF IInv, TypeOK
<1>2. \A d \in backlog' : flow[d] = "none"
  BY DEF IInv, FreshClients
<1>. QED BY <1>1, <1>2, OutsidePreserves

\* The kernel changes one socket that is open.
LEMMA SocketChangesPreserves ==
  ASSUME IInv, NEW f \in Fd, NEW s \in Socket, IsOpen(s), SocketChanges(f, s)
  PROVE  IInv'
<1>. USE DEF SocketChanges, conversation
<1>1. edge' \subseteq Fd
  BY DEF News, IInv, TypeOK
<1>2. TypeOK'
  BY <1>1 DEF IInv, TypeOK
<1>3. \A g \in Fd : IsOpen(sock[g]) => IsOpen(sock'[g])
  BY DEF IInv, TypeOK
<1>. QED BY <1>2, <1>3, OutsidePreserves DEF IInv, FreshClients

LEMMA PeerPreserves ==
  ASSUME IInv, NEW f \in Fd,
         PeerSend(f) \/ PeerClose(f) \/ PeerReset(f) \/ ConnectSettles(f)
  PROVE  IInv'
<1>1. sock[f] \in Socket
  BY DEF IInv, TypeOK
<1>2. CASE PeerSend(f)
  <2>1. /\ [sock[f] EXCEPT !.rx = @ + 1] \in Socket
        /\ IsOpen([sock[f] EXCEPT !.rx = @ + 1])
    BY <1>1, <1>2, MaxRxAssumption DEF PeerSend, Socket, IsOpen
  <2>. QED BY <1>2, <2>1, SocketChangesPreserves DEF PeerSend
<1>3. CASE PeerClose(f)
  <2>1. /\ [sock[f] EXCEPT !.eof = TRUE] \in Socket
        /\ [sock[f] EXCEPT !.eof = TRUE].link = "connected"
    BY <1>1, <1>3, Zenon DEF PeerClose, Socket
  <2>2. IsOpen([sock[f] EXCEPT !.eof = TRUE])
    BY <2>1 DEF IsOpen
  <2>. QED BY <1>3, <2>1, <2>2, SocketChangesPreserves DEF PeerClose
<1>4. ASSUME SocketChanges(f, [sock[f] EXCEPT !.link = "failed", !.err = TRUE])
      PROVE  IInv'
  <2>. DEFINE s == [sock[f] EXCEPT !.link = "failed", !.err = TRUE]
  <2>1. [sock[f] EXCEPT !.link = "failed"] \in Socket
        /\ [sock[f] EXCEPT !.link = "failed"].link = "failed"
    BY <1>1 DEF Socket
  <2>2. s \in Socket /\ s.link = "failed"
    BY <2>1, Zenon DEF Socket
  <2>3. IsOpen(s)
    BY <2>2 DEF IsOpen
  <2>. QED BY <1>4, <2>2, <2>3, SocketChangesPreserves
<1>5. CASE PeerReset(f)
  BY <1>4, <1>5 DEF PeerReset
<1>6. CASE ConnectSettles(f)
  <2>1. [sock[f] EXCEPT !.link = "connected"] \in Socket
        /\ IsOpen([sock[f] EXCEPT !.link = "connected"])
    BY <1>1 DEF Socket, IsOpen
  <2>. QED BY <1>4, <1>6, <2>1, SocketChangesPreserves DEF ConnectSettles
<1>. QED BY <1>2, <1>3, <1>5, <1>6

LEMMA EpollWaitPreserves ==
  ASSUME IInv, EpollWait
  PROVE  IInv'
<1>. USE DEF EpollWait, conversation
<1>1. Ready \subseteq Fd \cup {Listener}
  BY DEF Ready
<1>2. batch' \subseteq Ready
  BY DEF Returned
<1>3. TypeOK'
  BY <1>1, <1>2 DEF IInv, TypeOK
<1>. QED BY <1>3, OutsidePreserves DEF IInv, FreshClients

LEMMA NoPipelineFoundPreserves ==
  ASSUME IInv, NEW e \in Fd, NoPipelineFound(e)
  PROVE  IInv'
<1>. USE DEF NoPipelineFound, TakeEvent, Stop, conversation, kernel
<1>1. TypeOK'
  BY DEF IInv, TypeOK, StopStatus
<1>. QED BY <1>1, OutsidePreserves DEF IInv, FreshClients

\* accept gives a new conversation a descriptor nobody has.
LEMMA AcceptPreserves ==
  ASSUME IInv, AcceptNewConnectionSocket
  PROVE  IInv'
<1>. USE DEF AcceptNewConnectionSocket, TakeEvent, Stop
<1>1. PICK c \in backlog :
        \/ /\ status' = "BadConnectionFromListeningSocket"
           /\ UNCHANGED <<backlog, pipelines, conversation, kernel>>
        \/ \E f \in Free, s \in AcceptedSocket :
            /\ backlog' = backlog \ {c}
            /\ sock' = [sock EXCEPT ![f] = s]
            /\ \/ /\ pipelines[f] # Null
                  /\ status' = "NoConversationPipelineCreated"
                  /\ UNCHANGED <<pipelines, conversation, epoll, edge, errno>>
               \/ /\ pipelines' = [pipelines EXCEPT ![f] = c]
                  /\ flow' = [flow EXCEPT ![c] = "SOCKS5ClientHello"]
                  /\ clientFd' = [clientFd EXCEPT ![c] = f]
                  /\ UNCHANGED <<serverFd, awaiting, held, errno>>
                  /\ \/ Register(f, s) /\ UNCHANGED status
                     \/ /\ status' = "BadEpollCTL"
                        /\ UNCHANGED <<epoll, edge>>
  OBVIOUS
<1>2. batch' \subseteq Fd \cup {Listener}
  BY DEF IInv, TypeOK
<1>3. c \in Client /\ flow[c] = "none" /\ serverFd[c] = NoFd /\ ~awaiting[c] /\ ~Live(c)
  BY DEF IInv, TypeOK, FreshClients, Live, Flow
<1>4. CASE /\ status' = "BadConnectionFromListeningSocket"
           /\ UNCHANGED <<backlog, pipelines, conversation, kernel>>
  <2>1. TypeOK'
    BY <1>2, <1>4 DEF IInv, TypeOK, StopStatus, conversation, kernel
  <2>. QED BY <1>4, <2>1, OutsidePreserves DEF IInv, FreshClients, conversation, kernel
<1>5. ASSUME NEW f \in Free, NEW s \in AcceptedSocket,
             backlog' = backlog \ {c},
             sock' = [sock EXCEPT ![f] = s],
             \/ /\ pipelines[f] # Null
                /\ status' = "NoConversationPipelineCreated"
                /\ UNCHANGED <<pipelines, conversation, epoll, edge, errno>>
             \/ /\ pipelines' = [pipelines EXCEPT ![f] = c]
                /\ flow' = [flow EXCEPT ![c] = "SOCKS5ClientHello"]
                /\ clientFd' = [clientFd EXCEPT ![c] = f]
                /\ UNCHANGED <<serverFd, awaiting, held, errno>>
                /\ \/ Register(f, s) /\ UNCHANGED status
                   \/ /\ status' = "BadEpollCTL"
                      /\ UNCHANGED <<epoll, edge>>
      PROVE  IInv'
  <2>1. f \in Fd /\ ~IsOpen(sock[f]) /\ f # NoFd
    BY FdAssumption DEF Free, IsOpen, NoFd
  <2>2. s \in Socket /\ IsOpen(s)
    BY DEF AcceptedSocket, IsOpen
  <2>3. /\ pipelines[f] = Null /\ epoll[f] = "off"
        /\ \A d \in Client : Live(d) => f # clientFd[d] /\ f # serverFd[d]
    BY <2>1, FreeIsUnowned
  <2>4. /\ pipelines' = [pipelines EXCEPT ![f] = c]
        /\ flow' = [flow EXCEPT ![c] = "SOCKS5ClientHello"]
        /\ clientFd' = [clientFd EXCEPT ![c] = f]
        /\ UNCHANGED <<serverFd, awaiting, held, errno>>
        /\ \/ /\ epoll' = [epoll EXCEPT ![f] = "edge"]
              /\ edge' \in {edge, edge \cup {f}}
              /\ UNCHANGED status
           \/ /\ status' = "BadEpollCTL"
              /\ UNCHANGED <<epoll, edge>>
    BY <1>5, <2>3 DEF Register, ClientEvents
  <2>5. TypeOK'
    <3>1. sock' \in [Fd -> Socket]
      BY <1>5, <2>1, <2>2, Zenon DEF IInv, TypeOK
    <3>2. flow' \in [Client -> FlowState]
      BY <1>3, <2>4 DEF IInv, TypeOK, FlowState, Flow
    <3>3. pipelines' \in [Fd -> Client \cup {Null}] /\ clientFd' \in [Client -> Fd \cup {NoFd}]
      BY <1>3, <2>1, <2>4 DEF IInv, TypeOK
    <3>4. epoll' \in [Fd -> Trigger] /\ edge' \subseteq Fd /\ backlog' \subseteq Client
          /\ status' \in {"running"} \cup StopStatus
      BY <1>5, <2>1, <2>4 DEF IInv, TypeOK, Trigger, StopStatus
    <3>5. UNCHANGED <<serverFd, awaiting, held, errno>>
      BY <2>4
    <3>6. /\ serverFd' \in [Client -> Fd \cup {NoFd}] /\ errno' \in Errno
          /\ awaiting' \in [Client -> BOOLEAN] /\ held' \in [Client -> BOOLEAN]
      BY <3>5, Zenon DEF IInv, TypeOK
    <3>. QED BY <1>2, <3>1, <3>2, <3>3, <3>4, <3>6 DEF TypeOK
  <2>6. /\ flow'[c] = "SOCKS5ClientHello" /\ clientFd'[c] = f /\ pipelines'[f] = c
        /\ IsOpen(sock'[f])
        /\ \A d \in Client \ {c} : flow'[d] = flow[d] /\ clientFd'[d] = clientFd[d]
        /\ \A g \in Fd \ {f} : pipelines'[g] = pipelines[g] /\ sock'[g] = sock[g]
                              /\ epoll'[g] = epoll[g]
    BY <1>3, <1>5, <2>1, <2>2, <2>4 DEF IInv, TypeOK
  <2>7. /\ Live(c)' /\ Owned(c)' = {f}
        /\ \A d \in Client \ {c} : (Live(d)' <=> Live(d)) /\ Owned(d)' = Owned(d)
    BY <1>3, <2>1, <2>4, <2>6 DEF Live, Owned, Flow
  <2>8. FreshClients'
    BY <1>3, <1>5, <2>4, <2>6 DEF IInv, TypeOK, FreshClients
  <2>9. MapCoherent'
    <3>1. \A g \in Fd, d \in Client : pipelines'[g] = d =>
            Live(d)' /\ g \in Owned(d)' /\ IsOpen(sock'[g])
      <4>. SUFFICES ASSUME NEW g \in Fd, NEW d \in Client, pipelines'[g] = d
                    PROVE  Live(d)' /\ g \in Owned(d)' /\ IsOpen(sock'[g])
        OBVIOUS
      <4>1. CASE g = f
        BY <4>1, <2>6, <2>7
      <4>2. CASE g # f
        <5>1. /\ pipelines[g] = d /\ sock'[g] = sock[g]
              /\ Live(d) /\ g \in Owned(d) /\ IsOpen(sock[g])
          BY <4>2, <2>6, NullAssumption DEF IInv, TypeOK, MapCoherent
        <5>2. d # c
          BY <1>3, <5>1
        <5>. QED BY <2>7, <5>1, <5>2
      <4>. QED BY <4>1, <4>2
    <3>2. \A d \in Client : Live(d)' =>
            /\ clientFd'[d] \in Fd /\ clientFd'[d] # serverFd'[d]
            /\ \A g \in Owned(d)' : pipelines'[g] = d
      <4>. SUFFICES ASSUME NEW d \in Client, Live(d)'
                    PROVE  /\ clientFd'[d] \in Fd /\ clientFd'[d] # serverFd'[d]
                           /\ \A g \in Owned(d)' : pipelines'[g] = d
        OBVIOUS
      <4>1. CASE d = c
        BY <1>3, <2>1, <2>4, <2>6, <2>7, <4>1
      <4>2. CASE d # c
        <5>1. Live(d) /\ Owned(d)' = Owned(d)
          BY <2>7, <4>2
        <5>2. /\ clientFd[d] \in Fd /\ clientFd[d] # serverFd[d]
              /\ \A g \in Owned(d) : g \in Fd /\ g # f /\ pipelines[g] = d
          BY <5>1, <2>3 DEF IInv, MapCoherent, Owned, TypeOK
        <5>3. clientFd'[d] = clientFd[d] /\ serverFd'[d] = serverFd[d]
          BY <2>4, <2>6, <4>2
        <5>4. \A g \in Owned(d) : pipelines'[g] = d
          BY <2>6, <5>2
        <5>. QED BY <5>1, <5>2, <5>3, <5>4
      <4>. QED BY <4>1, <4>2
    <3>. QED BY <2>5, <3>1, <3>2 DEF MapCoherent, TypeOK
  <2>10. RegisteredIsOpen'
    BY <2>6 DEF IInv, RegisteredIsOpen
  <2>11. Watched'
    <3>. SUFFICES ASSUME status' = "running", NEW d \in Client, Live(d)'
                  PROVE  /\ epoll'[clientFd'[d]] = "edge"
                         /\ serverFd'[d] # NoFd => epoll'[serverFd'[d]] = "level"
      BY DEF Watched
    <3>1. epoll' = [epoll EXCEPT ![f] = "edge"] /\ status = "running"
      BY <2>4
    <3>2. CASE d = c
      BY <1>3, <2>1, <2>4, <2>6, <3>1, <3>2 DEF IInv, TypeOK
    <3>3. CASE d # c
      <4>1. Live(d) /\ clientFd'[d] = clientFd[d] /\ serverFd'[d] = serverFd[d]
        BY <2>4, <2>6, <2>7, <3>3
      <4>2. clientFd[d] \in Fd \ {f} /\ (serverFd[d] # NoFd => serverFd[d] \in Fd \ {f})
        BY <2>3, <4>1 DEF IInv, MapCoherent, TypeOK
      <4>. QED BY <2>6, <3>1, <4>1, <4>2 DEF IInv, Watched
    <3>. QED BY <3>2, <3>3
  <2>12. ServerReady'
    BY <1>3, <2>4, <2>6, <2>7 DEF IInv, ServerReady, TLSFlow
  <2>. QED BY <2>5, <2>8, <2>9, <2>10, <2>11, <2>12 DEF IInv
<1>. QED BY <1>1, <1>4, <1>5

\* A request that starts no connect leaves at most a socket that nobody owns;
\* one that does gives the conversation a descriptor nobody has.
LEMMA ConnectionRequestPreserves ==
  ASSUME IInv, NEW e, NEW c \in Client, ConnectionRequestTransmission(e, c)
  PROVE  IInv'
<1>. DEFINE f == clientFd[c]
            r == ReadData(sock[f], errno)
            Opened(g, s) == sock' = [sock EXCEPT ![f] = r.sock, ![g] = s]
            Linked(g) == /\ Opened(g, ConnectingSocket)
                         /\ epoll' = [epoll EXCEPT ![g] = "level"]
                         /\ serverFd' = [serverFd EXCEPT ![c] = g]
                         /\ awaiting' = [awaiting EXCEPT ![c] = TRUE]
                         /\ held' = [held EXCEPT ![c] = TRUE]
                         /\ pipelines' = IF pipelines[g] = Null
                                         THEN [pipelines EXCEPT ![g] = c] ELSE pipelines
                         /\ UNCHANGED <<flow, clientFd>>
            Dropped(g) == /\ Opened(g, DeadSocket)
                          /\ epoll' \in {epoll, [epoll EXCEPT ![g] = "level"]}
                          /\ Stay(c, TRUE) /\ UNCHANGED pipelines
<1>1. /\ Live(c) /\ flow[c] = "SOCKS5ConnectionRequest" /\ ~awaiting[c] /\ status = "running"
      /\ batch' \subseteq Fd \cup {Listener}
      /\ f \in Fd /\ sock[f] \in Socket
  BY Dispatched DEF ConnectionRequestTransmission, Flow
<1>2. TypeOK /\ errno \in Errno /\ held[c] \in BOOLEAN
  BY Zenon DEF IInv, TypeOK
<1>3. r.sock \in Socket /\ r.sock.link = sock[f].link /\ r.errno \in Errno
  BY <1>1, <1>2, ReadDataType
<1>4. UNCHANGED <<status, backlog>>
  BY DEF ConnectionRequestTransmission
<1>5. serverFd[c] = NoFd
  BY <1>1 DEF IInv, ServerReady, TLSFlow
<1>6. \/ \E b \in BOOLEAN, n \in Errno :
           (Touch(f, r) \/ Touch(f, [r EXCEPT !.errno = n])) /\ Stay(c, b) /\ UNCHANGED pipelines
      \/ \E g \in Free : errno' = "other" /\ UNCHANGED edge /\ (Dropped(g) \/ Linked(g))
  <2>1. \/ Touch(f, r) /\ Stay(c, held[c]) /\ UNCHANGED pipelines
        \/ Touch(f, r) /\ Stay(c, TRUE) /\ UNCHANGED pipelines
        \/ (\E n \in Errno : Touch(f, [r EXCEPT !.errno = n])) /\ Stay(c, TRUE) /\ UNCHANGED pipelines
        \/ \E g \in Free : errno' = "other" /\ UNCHANGED edge /\ (Dropped(g) \/ Linked(g))
    BY DEF ConnectionRequestTransmission, ServerEvents,
           InitServerConnection, LinkSockfdToExistingPipeline
  <2>. HIDE DEF f, r, Dropped, Linked
  <2>. QED BY <1>2, <2>1, Zenon
<1>7. ASSUME NEW b \in BOOLEAN, NEW n \in Errno,
             Touch(f, r) \/ Touch(f, [r EXCEPT !.errno = n]), Stay(c, b), UNCHANGED pipelines
      PROVE  IInv'
  <2>. DEFINE q == [r EXCEPT !.errno = n]
  <2>1. q.sock = r.sock /\ q.errno = n
    BY DEF ReadData
  <2>. HIDE DEF f, r, q
  <2>2. /\ sock' \in [Fd -> Socket] /\ errno' \in Errno /\ UNCHANGED <<epoll, edge>>
        /\ \A x \in Fd : sock'[x].link = sock[x].link
    <3>1. CASE Touch(f, r)
      BY <1>1, <1>2, <1>3, <3>1, TouchKeeps
    <3>2. CASE Touch(f, q)
      BY <1>1, <1>2, <1>3, <2>1, <3>2, TouchKeeps
    <3>. QED BY <1>7, <3>1, <3>2 DEF q
  <2>. QED BY <1>1, <1>2, <1>4, <1>7, <2>2, StayIsQuiet, QuietPreserves
<1>. HIDE DEF r
<1>8. ASSUME NEW g \in Free
      PROVE  /\ g \in Fd /\ ~IsOpen(sock[g]) /\ g # f /\ g # NoFd
             /\ pipelines[g] = Null /\ epoll[g] = "off"
             /\ \A d \in Client : Live(d) => g # clientFd[d] /\ g # serverFd[d]
  <2>1. g \in Fd /\ ~IsOpen(sock[g]) /\ g # NoFd
    BY FdAssumption DEF Free, IsOpen, NoFd
  <2>. QED BY <1>1, <2>1, FreeIsUnowned
<1>9. ASSUME NEW g \in Free, NEW s \in Socket, IsOpen(s), Opened(g, s)
      PROVE  /\ sock' \in [Fd -> Socket] /\ IsOpen(sock'[g])
             /\ \A x \in Fd \ {g} : IsOpen(sock'[x]) <=> IsOpen(sock[x])
  BY <1>1, <1>2, <1>3, <1>8, <1>9 DEF TypeOK, IsOpen
<1>10. ASSUME NEW g \in Free, errno' = "other", UNCHANGED edge, Dropped(g)
       PROVE  IInv'
  <2>1. DeadSocket \in Socket /\ IsOpen(DeadSocket)
    BY NewSocketTypes
  <2>2. /\ sock' \in [Fd -> Socket] /\ IsOpen(sock'[g])
        /\ \A x \in Fd \ {g} : IsOpen(sock'[x]) <=> IsOpen(sock[x])
    BY <1>9, <1>10, <2>1
  <2>3. held' \in [Client -> BOOLEAN]
    BY <1>2, <1>10, Zenon DEF TypeOK, Stay
  <2>4. epoll' \in [Fd -> Trigger]
    BY <1>2, <1>10, <1>8 DEF TypeOK, Trigger
  <2>5. UNCHANGED <<status, backlog, pipelines, flow, clientFd, serverFd, awaiting, edge>>
    BY <1>4, <1>10 DEF Stay
  <2>6. TypeOK'
    BY <1>1, <1>2, <1>10, <2>2, <2>3, <2>4, <2>5 DEF TypeOK, Errno
  <2>7. \A x \in Fd : epoll'[x] # epoll[x] => ~IsOpen(sock[x]) /\ IsOpen(sock'[x])
    BY <1>2, <1>8, <1>10, <2>2 DEF TypeOK
  <2>8. \A x \in Fd : IsOpen(sock[x]) => IsOpen(sock'[x])
    BY <1>8, <2>2
  <2>. HIDE DEF Dropped
  <2>. QED BY <2>5, <2>6, <2>7, <2>8, OutsidePreserves DEF IInv, FreshClients
<1>11. ASSUME NEW g \in Free, errno' = "other", UNCHANGED edge, Linked(g)
       PROVE  IInv'
  <2>1. ConnectingSocket \in Socket /\ IsOpen(ConnectingSocket)
    BY NewSocketTypes
  <2>2. /\ sock' \in [Fd -> Socket] /\ IsOpen(sock'[g])
        /\ \A x \in Fd \ {g} : IsOpen(sock'[x]) <=> IsOpen(sock[x])
    BY <1>9, <1>11, <2>1
  <2>3. /\ epoll' = [epoll EXCEPT ![g] = "level"]
        /\ serverFd' = [serverFd EXCEPT ![c] = g]
        /\ pipelines' = [pipelines EXCEPT ![g] = c]
        /\ UNCHANGED <<flow, clientFd>>
    BY <1>8, <1>11
  <2>4. /\ awaiting' = [awaiting EXCEPT ![c] = TRUE]
        /\ held' = [held EXCEPT ![c] = TRUE]
    BY <1>11
  <2>5. held' \in [Client -> BOOLEAN] /\ awaiting' \in [Client -> BOOLEAN] /\ awaiting'[c]
    BY <1>2, <2>4, Zenon DEF TypeOK
  <2>. HIDE DEF Linked
  <2>6. TypeOK'
    BY <1>1, <1>2, <1>4, <1>8, <1>11, <2>2, <2>3, <2>5 DEF TypeOK, Errno, Trigger
  <2>7. /\ serverFd'[c] = g /\ pipelines'[g] = c /\ epoll'[g] = "level"
        /\ \A d \in Client \ {c} : serverFd'[d] = serverFd[d] /\ (awaiting'[d] <=> awaiting[d])
        /\ \A x \in Fd \ {g} : pipelines'[x] = pipelines[x] /\ epoll'[x] = epoll[x]
    BY <1>2, <1>8, <2>3, <2>4 DEF TypeOK
  <2>8. /\ \A d \in Client : Live(d)' <=> Live(d)
        /\ Owned(c)' = {f, g}
        /\ \A d \in Client \ {c} : Owned(d)' = Owned(d)
    <3>1. f # NoFd /\ g # NoFd
      BY <1>1, <1>8, FdAssumption DEF NoFd
    <3>. QED BY <2>3, <2>7, <3>1 DEF Live, Owned
  <2>9. FreshClients'
    BY <1>1, <1>4, <2>3, <2>7 DEF IInv, TypeOK, FreshClients
  <2>10. MapCoherent'
    <3>1. \A x \in Fd, d \in Client : pipelines'[x] = d =>
            Live(d)' /\ x \in Owned(d)' /\ IsOpen(sock'[x])
      <4>. SUFFICES ASSUME NEW x \in Fd, NEW d \in Client, pipelines'[x] = d
                    PROVE  Live(d)' /\ x \in Owned(d)' /\ IsOpen(sock'[x])
        OBVIOUS
      <4>1. CASE x = g
        BY <1>1, <2>2, <2>7, <2>8, <4>1
      <4>2. CASE x # g
        <5>1. pipelines[x] = d /\ Live(d) /\ x \in Owned(d) /\ IsOpen(sock[x])
          BY <2>7, <4>2, NullAssumption DEF IInv, TypeOK, MapCoherent
        <5>2. x \in Owned(d)'
          BY <1>5, <2>8, <5>1 DEF Owned
        <5>. QED BY <2>2, <2>8, <4>2, <5>1, <5>2
      <4>. QED BY <4>1, <4>2
    <3>2. \A d \in Client : Live(d)' =>
            /\ clientFd'[d] \in Fd /\ clientFd'[d] # serverFd'[d]
            /\ \A x \in Owned(d)' : pipelines'[x] = d
      <4>. SUFFICES ASSUME NEW d \in Client, Live(d)'
                    PROVE  /\ clientFd'[d] \in Fd /\ clientFd'[d] # serverFd'[d]
                           /\ \A x \in Owned(d)' : pipelines'[x] = d
        OBVIOUS
      <4>0. /\ Live(d) /\ clientFd[d] \in Fd /\ clientFd[d] # serverFd[d]
            /\ \A x \in Owned(d) : x \in Fd /\ x # g /\ pipelines[x] = d
        BY <1>8, <2>8 DEF IInv, MapCoherent, Owned, TypeOK
      <4>1. CASE d = c
        <5>1. pipelines[f] = c
          BY <1>1, <4>0, <4>1, FdAssumption DEF Owned, NoFd
        <5>. QED BY <1>1, <1>8, <2>3, <2>7, <2>8, <4>1, <5>1
      <4>2. CASE d # c
        <5>1. \A x \in Owned(d) : pipelines'[x] = d
          BY <2>7, <4>0
        <5>. QED BY <2>3, <2>7, <2>8, <4>0, <4>2, <5>1
      <4>. QED BY <4>1, <4>2
    <3>. QED BY <2>6, <3>1, <3>2 DEF MapCoherent, TypeOK
  <2>11. RegisteredIsOpen'
    BY <2>2, <2>7 DEF IInv, RegisteredIsOpen
  <2>12. Watched'
    <3>. SUFFICES ASSUME NEW d \in Client, Live(d)
                  PROVE  /\ epoll'[clientFd[d]] = "edge"
                         /\ serverFd'[d] # NoFd => epoll'[serverFd'[d]] = "level"
      BY <2>3, <2>8 DEF Watched
    <3>1. clientFd[d] \in Fd \ {g} /\ (serverFd[d] # NoFd => serverFd[d] \in Fd \ {g})
      BY <1>8 DEF IInv, MapCoherent, TypeOK
    <3>2. /\ epoll[clientFd[d]] = "edge"
          /\ serverFd[d] # NoFd => epoll[serverFd[d]] = "level"
      BY <1>1 DEF IInv, Watched
    <3>. QED BY <2>7, <3>1, <3>2
  <2>13. ServerReady'
    <3>. SUFFICES ASSUME NEW d \in Client, Live(d)
                  PROVE  serverFd'[d] # NoFd <=> awaiting'[d] \/ flow'[d] \in TLSFlow
      BY <2>8 DEF ServerReady
    <3>1. CASE d = c
      BY <1>8, <2>5, <2>7, <3>1
    <3>2. CASE d # c
      BY <2>3, <2>7, <3>2 DEF IInv, ServerReady
    <3>. QED BY <3>1, <3>2
  <2>. QED BY <2>6, <2>9, <2>10, <2>11, <2>12, <2>13 DEF IInv
<1>. HIDE DEF f, Dropped, Linked
<1>. QED BY <1>6, <1>7, <1>10, <1>11

\* What the end of a conversation does, in a coherent state: the last reference
\* goes with the map entries, so both descriptors are closed.
LEMMA ReleaseEffect ==
  ASSUME IInv, NEW e, NEW c \in Client, TLSDefaultEnds(e, c)
  PROVE  /\ Live(c) /\ status = "running"
         /\ clientFd[c] \in Fd /\ serverFd[c] \in Fd
         /\ Removable(clientFd[c]) /\ Removable(serverFd[c])
         /\ pipelines' = [x \in Fd |-> IF x \in Owned(c) THEN Null ELSE pipelines[x]]
         /\ epoll' = [x \in Fd |-> IF x \in Owned(c) THEN "off" ELSE epoll[x]]
         /\ sock' = [x \in Fd |-> IF x \in Owned(c) THEN ClosedSocket ELSE sock[x]]
         /\ flow' = [flow EXCEPT ![c] = "gone"]
         /\ clientFd' = [clientFd EXCEPT ![c] = NoFd]
         /\ serverFd' = [serverFd EXCEPT ![c] = NoFd]
<1>1. /\ Live(c) /\ status = "running" /\ flow[c] = "TLSDefault"
      /\ clientFd[c] \in Fd /\ serverFd[c] \in Fd
  BY Dispatched DEF TLSDefaultEnds, Flow, TLSFlow
<1>2. Owned(c) = {serverFd[c], clientFd[c]}
  BY <1>1, FdAssumption DEF Owned, NoFd
<1>3. pipelines' = [x \in Fd |-> IF x \in Owned(c) THEN Null ELSE pipelines[x]]
  BY <1>2 DEF TLSDefaultEnds, Erased
<1>4. \A x \in Fd : pipelines'[x] # c
  BY <1>3, NullAssumption DEF IInv, MapCoherent, TypeOK
<1>5. Removable(clientFd[c]) /\ Removable(serverFd[c])
  BY <1>1, FdAssumption DEF IInv, Watched, Removable, NoFd
<1>. QED BY <1>1, <1>2, <1>3, <1>4, <1>5 DEF TLSDefaultEnds, Closed

LEMMA ReleasePreserves ==
  ASSUME IInv, NEW e, NEW c \in Client, TLSDefaultEnds(e, c)
  PROVE  IInv'
<1>1. /\ Live(c) /\ status = "running"
      /\ clientFd[c] \in Fd /\ serverFd[c] \in Fd
      /\ pipelines' = [x \in Fd |-> IF x \in Owned(c) THEN Null ELSE pipelines[x]]
      /\ epoll' = [x \in Fd |-> IF x \in Owned(c) THEN "off" ELSE epoll[x]]
      /\ sock' = [x \in Fd |-> IF x \in Owned(c) THEN ClosedSocket ELSE sock[x]]
      /\ flow' = [flow EXCEPT ![c] = "gone"]
      /\ clientFd' = [clientFd EXCEPT ![c] = NoFd]
      /\ serverFd' = [serverFd EXCEPT ![c] = NoFd]
  BY ReleaseEffect
<1>2. /\ UNCHANGED <<backlog, awaiting, held>>
      /\ status' \in {status, "BadEpollCTL"}
      /\ edge' \subseteq edge
      /\ batch' \subseteq batch
      /\ errno' = ReadData(sock[IF e = clientFd[c] THEN clientFd[c] ELSE serverFd[c]], errno).errno
  BY DEF TLSDefaultEnds, Stop, Dispatch, TakeEvent
<1>3. errno' \in Errno
  BY <1>1, <1>2, ReadDataType DEF IInv, TypeOK
<1>4. TypeOK'
  <2>1. /\ held' \in [Client -> BOOLEAN] /\ awaiting' \in [Client -> BOOLEAN]
    BY <1>2, Zenon DEF IInv, TypeOK
  <2>2. /\ pipelines' \in [Fd -> Client \cup {Null}]
        /\ epoll' \in [Fd -> Trigger]
        /\ sock' \in [Fd -> Socket]
    BY <1>1, NewSocketTypes DEF IInv, TypeOK, Trigger
  <2>3. /\ flow' \in [Client -> FlowState]
        /\ clientFd' \in [Client -> Fd \cup {NoFd}]
        /\ serverFd' \in [Client -> Fd \cup {NoFd}]
    BY <1>1 DEF IInv, TypeOK, FlowState
  <2>. QED BY <1>2, <1>3, <2>1, <2>2, <2>3 DEF IInv, TypeOK, StopStatus
<1>5. /\ ~Live(c)' /\ flow'[c] = "gone"
      /\ \A d \in Client \ {c} : /\ flow'[d] = flow[d]
                               /\ clientFd'[d] = clientFd[d] /\ serverFd'[d] = serverFd[d]
                               /\ (Live(d)' <=> Live(d))
                               /\ Owned(d)' = Owned(d)
  BY <1>1 DEF IInv, TypeOK, Live, Flow, Owned
<1>6. \A d \in Client \ {c} : Live(d) => Owned(d) \subseteq Fd \ Owned(c)
  BY <1>1 DEF IInv, MapCoherent, TypeOK, Owned
<1>7. FreshClients'
  BY <1>1, <1>2, <1>5 DEF IInv, TypeOK, FreshClients, Live, Flow
<1>8. MapCoherent'
  <2>1. \A x \in Fd, d \in Client : pipelines'[x] = d =>
          Live(d)' /\ x \in Owned(d)' /\ IsOpen(sock'[x])
    <3>. SUFFICES ASSUME NEW x \in Fd, NEW d \in Client, pipelines'[x] = d
                  PROVE  Live(d)' /\ x \in Owned(d)' /\ IsOpen(sock'[x])
      OBVIOUS
    <3>1. x \notin Owned(c) /\ pipelines[x] = d /\ sock'[x] = sock[x]
      BY <1>1, NullAssumption
    <3>2. Live(d) /\ x \in Owned(d) /\ IsOpen(sock[x])
      BY <3>1, NullAssumption DEF IInv, MapCoherent
    <3>3. d # c
      BY <3>1, <3>2
    <3>. QED BY <1>5, <3>1, <3>2, <3>3
  <2>2. \A d \in Client : Live(d)' =>
          /\ clientFd'[d] \in Fd /\ clientFd'[d] # serverFd'[d]
          /\ \A x \in Owned(d)' : pipelines'[x] = d
    <3>. SUFFICES ASSUME NEW d \in Client, Live(d)'
                  PROVE  /\ clientFd'[d] \in Fd /\ clientFd'[d] # serverFd'[d]
                         /\ \A x \in Owned(d)' : pipelines'[x] = d
      OBVIOUS
    <3>0. d # c
      BY <1>5 DEF Live, Flow
    <3>1. d # c /\ Live(d) /\ Owned(d)' = Owned(d)
      BY <1>5, <3>0
    <3>2. /\ clientFd[d] \in Fd /\ clientFd[d] # serverFd[d]
          /\ \A x \in Owned(d) : pipelines[x] = d
      BY <3>1 DEF IInv, MapCoherent
    <3>3. \A x \in Owned(d) : pipelines'[x] = d
      BY <1>1, <1>6, <3>1, <3>2
    <3>. QED BY <1>5, <3>1, <3>2, <3>3
  <2>. QED BY <1>4, <2>1, <2>2 DEF MapCoherent, TypeOK
<1>9. RegisteredIsOpen'
  BY <1>1 DEF IInv, RegisteredIsOpen
<1>10. Watched'
  <2>. SUFFICES ASSUME status' = "running", NEW d \in Client, Live(d)'
                PROVE  /\ epoll'[clientFd'[d]] = "edge"
                       /\ serverFd'[d] # NoFd => epoll'[serverFd'[d]] = "level"
    BY DEF Watched
  <2>0. d # c
    BY <1>5 DEF Live, Flow
  <2>1. /\ d # c /\ Live(d)
        /\ clientFd'[d] = clientFd[d] /\ serverFd'[d] = serverFd[d]
    BY <1>5, <2>0
  <2>2. /\ epoll[clientFd[d]] = "edge"
        /\ serverFd[d] # NoFd => epoll[serverFd[d]] = "level"
    BY <1>1, <2>1 DEF IInv, Watched
  <2>3. /\ clientFd[d] \in Fd \ Owned(c)
        /\ serverFd[d] # NoFd => serverFd[d] \in Fd \ Owned(c)
    <3>1. clientFd[d] \in Owned(d) /\ (serverFd[d] # NoFd => serverFd[d] \in Owned(d))
      BY <2>1, FdAssumption DEF Owned, NoFd, IInv, MapCoherent
    <3>. QED BY <1>6, <2>1, <3>1
  <2>4. \A x \in Fd \ Owned(c) : epoll'[x] = epoll[x]
    BY <1>1
  <2>. QED BY <2>1, <2>2, <2>3, <2>4
<1>11. ServerReady'
  BY <1>2, <1>5 DEF IInv, ServerReady
<1>. QED BY <1>4, <1>7, <1>8, <1>9, <1>10, <1>11 DEF IInv

-----------------------------------------------------------------------------

LEMMA InitIInv == Init => IInv
<1>. SUFFICES ASSUME Init PROVE IInv
  OBVIOUS
<1>. USE DEF Init
<1>1. awaiting \in [Client -> BOOLEAN] /\ held \in [Client -> BOOLEAN]
  BY Zenon
<1>2. TypeOK
  BY <1>1, NewSocketTypes DEF TypeOK, FlowState, Trigger
<1>3. \A c \in Client : ~awaiting[c] /\ ~Live(c)
  BY DEF Live, Flow
<1>. QED BY <1>2, <1>3 DEF IInv, FreshClients, MapCoherent, RegisteredIsOpen, Watched, ServerReady

LEMMA NextIInv == IInv /\ [Next]_vars => IInv'
<1>. SUFFICES ASSUME IInv, [Next]_vars PROVE IInv'
  OBVIOUS
<1>1. CASE EpollWait
  BY <1>1, EpollWaitPreserves
<1>2. CASE AcceptNewConnectionSocket
  BY <1>2, AcceptPreserves
<1>3. ASSUME NEW e \in Fd, NoPipelineFound(e) PROVE IInv'
  BY <1>3, NoPipelineFoundPreserves
<1>4. ASSUME NEW e \in Fd, NEW c \in Client, HandleEvent(e, c) PROVE IInv'
  <2>1. CASE ClientHelloTransmission(e, c)
    BY <2>1, ClientHelloQuiet, QuietPreserves
  <2>2. CASE ConnectionRequestTransmission(e, c)
    BY <2>2, ConnectionRequestPreserves
  <2>3. CASE ConnectionRequestReply(e, c)
    BY <2>3, ConnectionRequestReplyQuiet, QuietPreserves
  <2>4. CASE TLSReceivingClientHello(e, c)
    BY <2>4, TLSClientHelloQuiet, QuietPreserves
  <2>5. CASE TLSReceivingServerHello(e, c)
    BY <2>5, TLSServerHelloQuiet, QuietPreserves
  <2>6. CASE TLSDefault(e, c)
    BY <2>6, TLSDefaultQuiet, QuietPreserves
  <2>7. CASE TLSDefaultEnds(e, c)
    BY <2>7, ReleasePreserves
  <2>. QED BY <1>4, <2>1, <2>2, <2>3, <2>4, <2>5, <2>6, <2>7 DEF HandleEvent
<1>5. ASSUME NEW c \in Client, Arrive(c) PROVE IInv'
  BY <1>5, ArrivePreserves
<1>6. ASSUME NEW f \in Fd, PeerSend(f) \/ PeerClose(f) \/ PeerReset(f) \/ ConnectSettles(f)
      PROVE  IInv'
  BY <1>6, PeerPreserves
<1>7. CASE UNCHANGED vars
  BY <1>7 DEF vars, conversation, kernel, IInv, TypeOK, FreshClients, MapCoherent,
              RegisteredIsOpen, Watched, ServerReady, Live, Owned
<1>. QED BY <1>1, <1>2, <1>3, <1>4, <1>5, <1>6, <1>7
         DEF Next, ProcessConnections, Environment

THEOREM Invariance == Spec => []IInv
BY InitIInv, NextIInv, PTL DEF Spec

\* Every variable keeps its type.
THEOREM TypeCorrect == Spec => []TypeOK
<1>1. IInv => TypeOK
  BY DEF IInv
<1>. QED BY <1>1, Invariance, PTL

\* The map, the live conversations and the open descriptors always agree,
\* through any reuse of descriptor numbers.
THEOREM MapIsCoherent == Spec => []MapCoherent
<1>1. IInv => MapCoherent
  BY DEF IInv
<1>. QED BY <1>1, Invariance, PTL

\* Epoll never watches a closed descriptor, and never loses one in use.
THEOREM EpollIsCoherent == Spec => []EpollCoherent
<1>1. IInv => EpollCoherent
  BY DEF IInv, EpollCoherent, RegisteredIsOpen, Watched
<1>. QED BY <1>1, Invariance, PTL

\* No flow dereferences a server connection that does not exist.
THEOREM ServerIsReady == Spec => []ServerReady
<1>1. IInv => ServerReady
  BY DEF IInv
<1>. QED BY <1>1, Invariance, PTL
=============================================================================
