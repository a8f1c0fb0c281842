------------------------------ MODULE ProxyLoop ------------------------------
(***************************************************************************)
(* The control plane of the proxy: the epoll loop of                       *)
(* SocketConnectionManager, the descriptor-to-pipeline map of              *)
(* SocketConversationManager, the ConversationPipeline objects and the     *)
(* flow object that decides what an event on one of their two descriptors  *)
(* does.  One thread; everything between two steps of the loop is the      *)
(* kernel and the peers.  What the bytes say is abstracted to the outcome  *)
(* of parsing them (see HelloOutcomes and its neighbours).                 *)
(***************************************************************************)
EXTENDS Integers, FiniteSets, Sockets

CONSTANTS
  Client,      \* connections that clients may open, each at most once
  Fd,          \* descriptors left to sockets; the kernel gives out the lowest
  Null,        \* the map has no pipeline for a descriptor
  Listener,    \* the listening socket's descriptor
  EventsSize   \* EVENTS_SIZE, the most events one epoll_wait returns

NoFd == -1     \* GetServerSockfd() before there is a server connection

ASSUME FdAssumption == Fd \subseteq Nat /\ Listener \in Nat \ Fd
ASSUME NullAssumption == Null \notin Client
ASSUME EventsSizeAssumption == EventsSize \in Nat \ {0}

VARIABLES
  status,      \* "running", or the error ProcessConnections returned
  batch,       \* the events of the last epoll_wait that are still to be handled
  backlog,     \* clients the listening socket has and accept has not returned
  pipelines,   \* SocketConversationManager::pipelines
  flow,        \* m_conversationFlow of each conversation
  clientFd, serverFd,   \* m_clientConnection and m_serverConnection
  awaiting,    \* m_connetionState = WaitingForResponse
  held,        \* bytes of the handshake wait in a buffer (TLSDefault never asks)
  sock,        \* the socket behind each descriptor
  epoll,       \* how a descriptor is registered with epoll
  edge,        \* edge-triggered descriptors with news epoll_wait did not return
  errno

conversation == <<flow, clientFd, serverFd, awaiting, held>>
kernel == <<sock, epoll, edge, errno>>
vars == <<status, batch, backlog, pipelines, conversation, kernel>>

Flow == {"SOCKS5ClientHello", "SOCKS5ConnectionRequest",
         "TLSClientHello", "TLSServerHello", "TLSDefault"}
TLSFlow == {"TLSClientHello", "TLSServerHello", "TLSDefault"}

\* "none": not accepted yet; "gone": the pipeline object is destroyed.
FlowState == Flow \cup {"none", "gone"}

StopStatus == {"NoPipelineFound", "BadConnectionFromListeningSocket",
               "NoConversationPipelineCreated", "BadEpollCTL"}

Trigger == {"off", "edge", "level"}

Free == {f \in Fd : sock[f].link = "closed"}
IsLowest(f, S) == f \in S /\ \A g \in S : f <= g

Live(c) == flow[c] \in Flow

Init ==
  /\ status = "running"
  /\ batch = {}
  /\ backlog = {}
  /\ pipelines = [f \in Fd |-> Null]
  /\ flow = [c \in Client |-> "none"]
  /\ clientFd = [c \in Client |-> NoFd]
  /\ serverFd = [c \in Client |-> NoFd]
  /\ awaiting = [c \in Client |-> FALSE]
  /\ held = [c \in Client |-> FALSE]
  /\ sock = [f \in Fd |-> ClosedSocket]
  /\ epoll = [f \in Fd |-> "off"]
  /\ edge = {}
  /\ errno \in Errno

-----------------------------------------------------------------------------
(* The world outside: clients, servers and the kernel. *)

News(f) == IF epoll[f] = "edge" THEN edge \cup {f} ELSE edge

Arrive(c) ==
  /\ status = "running"
  /\ flow[c] = "none" /\ c \notin backlog
  /\ backlog' = backlog \cup {c}
  /\ UNCHANGED <<status, batch, pipelines, conversation, kernel>>

SocketChanges(f, s) ==
  /\ status = "running"
  /\ sock' = [sock EXCEPT ![f] = s]
  /\ edge' = News(f)
  /\ UNCHANGED <<status, batch, backlog, pipelines, conversation, epoll, errno>>

PeerSend(f) ==
  /\ sock[f].link = "connected" /\ ~sock[f].eof /\ sock[f].rx < MaxRx
  /\ SocketChanges(f, [sock[f] EXCEPT !.rx = @ + 1])

PeerClose(f) ==
  /\ sock[f].link = "connected" /\ ~sock[f].eof
  /\ SocketChanges(f, [sock[f] EXCEPT !.eof = TRUE])

PeerReset(f) ==
  /\ "reset" \in Faults
  /\ sock[f].link = "connected"
  /\ SocketChanges(f, [sock[f] EXCEPT !.link = "failed", !.err = TRUE])

\* The server, or the network, answers the SYN of connect().
ConnectSettles(f) ==
  /\ sock[f].link = "connecting"
  /\ \/ SocketChanges(f, [sock[f] EXCEPT !.link = "connected"])
     \/ /\ "refused" \in Faults
        /\ SocketChanges(f, [sock[f] EXCEPT !.link = "failed", !.err = TRUE])

-----------------------------------------------------------------------------
(* The loop: epoll_wait, then its events one by one. *)

\* For the mutation runs: EPOLLET is added.
EdgeTriggered == "edge"

ClientEvents == "edge"    \* EPOLLIN | EPOLLET
ServerEvents == "level"   \* EPOLLIN | EPOLLOUT | EPOLLERR

\* What epoll_wait would return: the listening socket while somebody waits for
\* accept, a client with unread news, a server socket that is readable or writable.
Ready ==
  {f \in Fd : \/ epoll[f] = "level" /\ ReadyForServerEvents(sock[f])
              \/ epoll[f] = "edge" /\ f \in edge /\ Readable(sock[f])}
    \cup (IF backlog = {} THEN {} ELSE {Listener})

Returned(R) ==
  IF Cardinality(R) <= EventsSize THEN {R}
  ELSE {B \in SUBSET R : Cardinality(B) = EventsSize}

EpollWait ==
  /\ status = "running"
  /\ batch = {} /\ Ready # {}
  /\ batch' \in Returned(Ready)
  /\ edge' = {f \in edge : f \notin batch' /\ Readable(sock[f])}
  /\ UNCHANGED <<status, backlog, pipelines, conversation, sock, epoll, errno>>

\* The loop takes event e of the array; e is handled by the rest of the action.
TakeEvent(e) ==
  /\ status = "running"
  /\ e \in batch
  /\ batch' = batch \ {e}

\* ProcessConnections returns: the process ends.
Stop(error) == status' = error

\* For the mutation runs: the wrong descriptor is added, or none.
RegisterListener(f, s) == epoll' = epoll /\ edge' = edge \cup {Listener}
RegisterNothing(f, s) == epoll' = epoll /\ edge' = edge

\* EpollAdd of an accepted socket: one that is ready when it is added is news.
Register(f, s) ==
  /\ epoll' = [epoll EXCEPT ![f] = ClientEvents]
  /\ edge' = IF Readable(s) THEN edge \cup {f} ELSE edge

AcceptNewConnectionSocket ==
  /\ TakeEvent(Listener)
  /\ \E c \in backlog :
       \/ /\ Free = {}
          /\ Stop("BadConnectionFromListeningSocket")
          /\ UNCHANGED <<backlog, pipelines, conversation, kernel>>
       \/ \E f \in Free, s \in AcceptedSocket :
            /\ IsLowest(f, Free)
            /\ backlog' = backlog \ {c}
            /\ sock' = [sock EXCEPT ![f] = s]
            /\ \/ /\ pipelines[f] # Null
                  /\ Stop("NoConversationPipelineCreated")
                  /\ UNCHANGED <<pipelines, conversation, epoll, edge, errno>>
               \/ /\ pipelines[f] = Null
                  /\ pipelines' = [pipelines EXCEPT ![f] = c]
                  /\ flow' = [flow EXCEPT ![c] = "SOCKS5ClientHello"]
                  /\ clientFd' = [clientFd EXCEPT ![c] = f]
                  /\ UNCHANGED <<serverFd, awaiting, held, errno>>
                  /\ \/ Register(f, s) /\ UNCHANGED status
                     \/ /\ "epoll_ctl" \in Faults
                        /\ Stop("BadEpollCTL")
                        /\ UNCHANGED <<epoll, edge>>

\* FindPipelineAndPerformTransaction without a pipeline for the descriptor.
NoPipelineFound(e) ==
  /\ e \in Fd
  /\ TakeEvent(e)
  /\ pipelines[e] = Null
  /\ Stop("NoPipelineFound")
  /\ UNCHANGED <<backlog, pipelines, conversation, kernel>>

-----------------------------------------------------------------------------
(* PerformTransaction of each flow, for an event e on a descriptor of        *)
(* conversation c.  A flow that fails returns nullptr and the pipeline stays *)
(* where it is; the failure goes no further.                                 *)

Dispatch(e, c, state) ==
  /\ e \in Fd
  /\ TakeEvent(e)
  /\ pipelines[e] = c
  /\ flow[c] = state

\* The transaction keeps the flow; bytes stay behind iff b.
Stay(c, b) ==
  /\ held' = [held EXCEPT ![c] = b]
  /\ UNCHANGED <<flow, clientFd, serverFd, awaiting>>

Become(c, state, b) ==
  /\ flow' = [flow EXCEPT ![c] = state]
  /\ held' = [held EXCEPT ![c] = b]
  /\ UNCHANGED <<clientFd, serverFd, awaiting>>

Touch(f, r) ==
  /\ sock' = [sock EXCEPT ![f] = r.sock]
  /\ errno' = r.errno
  /\ UNCHANGED <<epoll, edge>>

Touch2(f, r, g, q) ==
  /\ sock' = [sock EXCEPT ![f] = r.sock, ![g] = q.sock]
  /\ errno' = q.errno
  /\ UNCHANGED <<epoll, edge>>

\* The conversation's bytes after a read: nothing arrived and nothing was held,
\* or there is something whose parse may go either way.
HasBytes(c, r) == r.status = "Success" \/ held[c]

\* ClientHelloTransmission: an answered greeting starts the connection request.
ClientHelloTransmission(e, c) ==
  /\ Dispatch(e, c, "SOCKS5ClientHello")
  /\ LET f == clientFd[c]
         r == ReadData(sock[f], errno)
     IN \/ /\ r.status = "Failed" \/ ~HasBytes(c, r)
           /\ Touch(f, r) /\ Stay(c, held[c])
        \/ /\ r.status # "Failed" /\ HasBytes(c, r)
           /\ \/ Touch(f, r) /\ Stay(c, TRUE)            \* not a valid greeting
              \/ \E w \in SendData(r.sock, r.errno) :
                   /\ Touch(f, w)
                   /\ IF w.ok THEN Become(c, "SOCKS5ConnectionRequest", FALSE)
                      ELSE Stay(c, TRUE)
  /\ UNCHANGED <<status, backlog, pipelines>>

\* For the mutation runs: a step of the bookkeeping is forgotten.
InitNothing(c, g) == serverFd' = serverFd
LinkNothing(g, c) == pipelines' = pipelines

InitServerConnection(c, g) == serverFd' = [serverFd EXCEPT ![c] = g]

\* emplace: an entry that exists stays.
LinkSockfdToExistingPipeline(g, c) ==
  pipelines' = IF pipelines[g] = Null THEN [pipelines EXCEPT ![g] = c] ELSE pipelines

\* ConnectionRequestTransmission before there is a server: read the request,
\* resolve the name, and start a non-blocking connect.  The new socket joins
\* epoll before connect; a failure after socket() shuts it down and forgets it.
ConnectionRequestTransmission(e, c) ==
  /\ Dispatch(e, c, "SOCKS5ConnectionRequest")
  /\ ~awaiting[c]
  /\ LET f == clientFd[c]
         r == ReadData(sock[f], errno)
         ok == r.status # "Failed" /\ HasBytes(c, r)
     IN \/ ~ok /\ Touch(f, r) /\ Stay(c, held[c]) /\ UNCHANGED pipelines
        \/ /\ ok               \* no valid request yet, or an IPv4 or IPv6 address
           /\ Touch(f, r) /\ Stay(c, TRUE) /\ UNCHANGED pipelines
        \/ /\ ok               \* getaddrinfo or socket fails
           /\ "getaddrinfo" \in Faults \/ Free = {}
           /\ \E n \in Errno : Touch(f, [r EXCEPT !.errno = n])
           /\ Stay(c, TRUE) /\ UNCHANGED pipelines
        \/ /\ ok
           /\ \E g \in Free :
                /\ IsLowest(g, Free)
                /\ errno' = "other"
                /\ UNCHANGED edge
                /\ \/ /\ "epoll_ctl" \in Faults
                      /\ sock' = [sock EXCEPT ![f] = r.sock, ![g] = DeadSocket]
                      /\ Stay(c, TRUE) /\ UNCHANGED <<pipelines, epoll>>
                   \/ /\ "connect" \in Faults
                      /\ sock' = [sock EXCEPT ![f] = r.sock, ![g] = DeadSocket]
                      /\ epoll' = [epoll EXCEPT ![g] = ServerEvents]
                      /\ Stay(c, TRUE) /\ UNCHANGED pipelines
                   \/ /\ sock' = [sock EXCEPT ![f] = r.sock, ![g] = ConnectingSocket]
                      /\ epoll' = [epoll EXCEPT ![g] = ServerEvents]
                      /\ InitServerConnection(c, g)
                      /\ LinkSockfdToExistingPipeline(g, c)
                      /\ awaiting' = [awaiting EXCEPT ![c] = TRUE]
                      /\ held' = [held EXCEPT ![c] = TRUE]
                      /\ UNCHANGED <<flow, clientFd>>
  /\ UNCHANGED <<status, backlog>>

\* Only EWOULDBLOCK counts as a failed connect, and SO_ERROR never holds it.
SucceedsOnError(s) == s.err   \* for the mutation runs
SoError(s) == IF s.err THEN "other" ELSE "none"
IsConnectionSucceed(s) == SoError(s) # "EWOULDBLOCK"

\* ConnectionRequestTransmission with a server socket: any event on either
\* descriptor asks for SO_ERROR, which clears it, and answers "Succeeded".
ConnectionRequestReply(e, c) ==
  /\ Dispatch(e, c, "SOCKS5ConnectionRequest")
  /\ awaiting[c]
  /\ LET f == clientFd[c]
         g == serverFd[c]
         settled == [sock EXCEPT ![g].err = FALSE]
     IN IF ~IsConnectionSucceed(sock[g])
        THEN /\ sock' = settled
             /\ Stay(c, TRUE) /\ UNCHANGED <<epoll, edge, errno>>
        ELSE \E w \in SendData(settled[f], errno) :
             /\ sock' = [settled EXCEPT ![f] = w.sock]
             /\ errno' = w.errno
             /\ UNCHANGED <<epoll, edge>>
             /\ IF w.ok
                THEN /\ flow' = [flow EXCEPT ![c] = "TLSClientHello"]
                     /\ awaiting' = [awaiting EXCEPT ![c] = FALSE]
                     /\ held' = [held EXCEPT ![c] = FALSE]
                     /\ UNCHANGED <<clientFd, serverFd>>
                ELSE Stay(c, TRUE)
  /\ UNCHANGED <<status, backlog, pipelines>>

\* TLSReceivingClientHello reads the client whichever descriptor has the event.
TLSReceivingClientHello(e, c) ==
  /\ Dispatch(e, c, "TLSClientHello")
  /\ LET f == clientFd[c]
         g == serverFd[c]
         r == ReadData(sock[f], errno)
     IN \/ r.status = "Failed" /\ Touch(f, r) /\ Stay(c, held[c])
        \/ /\ r.status # "Failed"      \* no handshake message: everything is cleared
           /\ Touch(f, r) /\ Stay(c, FALSE)
        \/ /\ r.status # "Failed" /\ HasBytes(c, r)   \* part of one, or no SNI in it
           /\ Touch(f, r) /\ Stay(c, TRUE)
        \/ /\ r.status # "Failed" /\ HasBytes(c, r)   \* a ClientHello, alone or not
           /\ \E w \in SendData(sock[g], r.errno) :
                /\ Touch2(f, r, g, w)
                /\ \/ Stay(c, TRUE)
                   \/ w.ok /\ Become(c, "TLSServerHello", FALSE)
  /\ UNCHANGED <<status, backlog, pipelines>>

\* TLSReceivingServerHello reads the server whichever descriptor has the event.
\* No bytes at all count as a complete handshake.
TLSReceivingServerHello(e, c) ==
  /\ Dispatch(e, c, "TLSServerHello")
  /\ LET f == clientFd[c]
         g == serverFd[c]
         r == ReadData(sock[g], errno)
     IN \/ r.status = "Failed" /\ Touch(g, r) /\ Stay(c, held[c])
        \/ /\ r.status # "Failed" /\ HasBytes(c, r)   \* no message is complete
           /\ Touch(g, r) /\ Stay(c, TRUE)
        \/ /\ r.status # "Failed"
           /\ \E w \in SendData(sock[f], r.errno) :
                /\ Touch2(g, r, f, w)
                /\ IF w.ok
                   THEN \/ Become(c, "TLSDefault", FALSE)
                        \/ HasBytes(c, r) /\ Stay(c, TRUE)   \* more to come
                   ELSE Stay(c, HasBytes(c, r))
  /\ UNCHANGED <<status, backlog, pipelines>>

\* TLSDefault relays what the descriptor with the event received.
TLSDefault(e, c) ==
  /\ Dispatch(e, c, "TLSDefault")
  /\ LET from == IF e = clientFd[c] THEN clientFd[c] ELSE serverFd[c]
         to   == IF e = clientFd[c] THEN serverFd[c] ELSE clientFd[c]
         r    == ReadData(sock[from], errno)
     IN /\ r.status # "DataTransferEnded"
        /\ Stay(c, FALSE)
        /\ \/ Touch(from, r)           \* failed, or no full record yet
           \/ /\ r.status = "Success"
              /\ \E w \in SendData(sock[to], r.errno) : Touch2(from, r, to, w)
  /\ UNCHANGED <<status, backlog, pipelines>>

\* For the mutation runs: only the descriptor with the event is erased, or only
\* the client's descriptor is closed.
ErasedEventOnly(e, c) == {e}
ClosedClientOnly(c) == {clientFd[c]}

\* What ~Connection of the two connections closes.
Closed(c) == {serverFd[c], clientFd[c]}

\* The descriptors FindPipelineAndPerformTransaction erases for an event on e.
Erased(e, c) == {serverFd[c], clientFd[c]}

\* EpollRemove: the descriptor must exist and be registered.
Removable(f) == f \in Fd /\ epoll[f] # "off"

\* TLSDefault with BreakConnection: the map entries, the registrations and, as
\* the last reference to the pipeline goes, both descriptors.
TLSDefaultEnds(e, c) ==
  /\ Dispatch(e, c, "TLSDefault")
  /\ LET from == IF e = clientFd[c] THEN clientFd[c] ELSE serverFd[c]
         r    == ReadData(sock[from], errno)
         pair == {serverFd[c], clientFd[c]}
     IN /\ r.status = "DataTransferEnded"
        /\ pipelines' = [x \in Fd |-> IF x \in Erased(e, c) THEN Null ELSE pipelines[x]]
        /\ \/ /\ \A x \in pair : Removable(x)
              /\ UNCHANGED status
           \/ /\ "epoll_ctl" \in Faults \/ \E x \in pair : ~Removable(x)
              /\ Stop("BadEpollCTL")
        /\ epoll' = [x \in Fd |-> IF x \in pair THEN "off" ELSE epoll[x]]
        /\ edge' = edge \ pair
        /\ IF \A x \in Fd : pipelines'[x] # c
           THEN /\ sock' = [x \in Fd |-> IF x \in Closed(c) THEN ClosedSocket ELSE sock[x]]
                /\ flow' = [flow EXCEPT ![c] = "gone"]
                /\ clientFd' = [clientFd EXCEPT ![c] = NoFd]
                /\ serverFd' = [serverFd EXCEPT ![c] = NoFd]
           ELSE UNCHANGED <<sock, flow, clientFd, serverFd>>
        /\ errno' = r.errno
  /\ UNCHANGED <<backlog, awaiting, held>>

-----------------------------------------------------------------------------

HandleEvent(e, c) ==
  \/ ClientHelloTransmission(e, c)
  \/ ConnectionRequestTransmission(e, c)
  \/ ConnectionRequestReply(e, c)
  \/ TLSReceivingClientHello(e, c)
  \/ TLSReceivingServerHello(e, c)
  \/ TLSDefault(e, c)
  \/ TLSDefaultEnds(e, c)

ProcessConnections ==
  \/ EpollWait
  \/ AcceptNewConnectionSocket
  \/ \E e \in Fd : NoPipelineFound(e)
  \/ \E e \in Fd, c \in Client : HandleEvent(e, c)

Environment ==
  \/ \E c \in Client : Arrive(c)
  \/ \E f \in Fd : PeerSend(f) \/ PeerClose(f) \/ PeerReset(f) \/ ConnectSettles(f)

Next == ProcessConnections \/ Environment

Spec == Init /\ [][Next]_vars

\* The thread runs as long as it has an event; every connect is answered or
\* times out.  Peers owe nothing.
FairSpec ==
  /\ Spec
  /\ WF_vars(ProcessConnections)
  /\ \A f \in Fd : WF_vars(ConnectSettles(f))

-----------------------------------------------------------------------------
(* Properties. *)

TypeOK ==
  /\ status \in {"running"} \cup StopStatus
  /\ batch \subseteq Fd \cup {Listener}
  /\ backlog \subseteq Client
  /\ pipelines \in [Fd -> Client \cup {Null}]
  /\ flow \in [Client -> FlowState]
  /\ clientFd \in [Client -> Fd \cup {NoFd}]
  /\ serverFd \in [Client -> Fd \cup {NoFd}]
  /\ awaiting \in [Client -> BOOLEAN]
  /\ held \in [Client -> BOOLEAN]
  /\ sock \in [Fd -> Socket]
  /\ epoll \in [Fd -> Trigger]
  /\ edge \subseteq Fd
  /\ errno \in Errno

Owned(c) == {clientFd[c], serverFd[c]} \ {NoFd}

\* The map, the pipelines and the descriptors agree: a mapped descriptor is open
\* and belongs to the live conversation it is mapped to, and every descriptor of
\* a live conversation is mapped to it.  FindPipelineBySockfd depends on it.
MapCoherent ==
  /\ \A f \in Fd : pipelines[f] # Null =>
        Live(pipelines[f]) /\ f \in Owned(pipelines[f]) /\ IsOpen(sock[f])
  /\ \A c \in Client : Live(c) =>
        /\ clientFd[c] \in Fd /\ clientFd[c] # serverFd[c]
        /\ \A f \in Owned(c) : pipelines[f] = c

\* While the loop runs, epoll watches exactly what the map knows, clients on
\* edges and servers by level, so no event is delivered for a closed descriptor
\* and no conversation is out of epoll's sight.  Connect and epoll_ctl failures
\* are the exception the code makes (see NoOrphan).
EpollCoherent ==
  /\ \A f \in Fd : epoll[f] # "off" => IsOpen(sock[f])
  /\ status = "running" =>
       \A c \in Client : Live(c) =>
         /\ epoll[clientFd[c]] = "edge"
         /\ serverFd[c] # NoFd => epoll[serverFd[c]] = "level"

\* A flow that uses the server connection runs only in a conversation that has
\* one: PerformTransaction dereferences m_serverConnection without a test.
ServerReady ==
  \A c \in Client : Live(c) =>
    (serverFd[c] # NoFd <=> awaiting[c] \/ flow[c] \in TLSFlow)

\* When connect() and epoll_ctl() do not fail at once, every open descriptor
\* belongs to a conversation: none leaks.
NoOrphan ==
  Faults \cap {"connect", "epoll_ctl"} = {} =>
    \A f \in Fd : IsOpen(sock[f]) => pipelines[f] # Null

\* The process ends for a reason outside its own bookkeeping: EpollAdd and
\* EpollRemove fail only if epoll_ctl does, a conversation is never created over
\* another one, and an event is without a pipeline only after some conversation
\* ended, once connect failures are set aside.
StopsForCause ==
  /\ status # "NoConversationPipelineCreated"
  /\ status = "BadEpollCTL" => "epoll_ctl" \in Faults
  /\ status = "NoPipelineFound" /\ Faults \cap {"connect", "epoll_ctl"} = {} =>
       \E c \in Client : flow[c] = "gone"

\* A descriptor is closed only by the end of the conversation that owns it, and
\* then both of its descriptors are: one conversation's end never takes the
\* socket of another, though descriptor numbers are reused.
ReleaseIsIsolated ==
  [][\A f \in Fd : IsOpen(sock[f]) /\ ~IsOpen(sock'[f]) =>
       \E c \in Client :
         /\ f \in Owned(c) /\ Live(c) /\ flow'[c] = "gone"
         /\ \A g \in Owned(c) : ~IsOpen(sock'[g]) /\ epoll'[g] = "off"]_vars

\* A conversation ends only when one of its peers really is at the end and has
\* nothing left to read; an empty queue or a failed recv never ends it.
EndsOnlyAtEndOfStream ==
  [][\A c \in Client : Live(c) /\ flow'[c] = "gone" =>
       \E f \in Owned(c) : sock[f].rx = 0 /\ (sock[f].eof \/ sock[f].link = "failed")]_vars

\* A conversation's place in its life, as a client would tell it.
PhaseOf(state, connecting) ==
  CASE state = "none" -> "new"
    [] state = "SOCKS5ClientHello" -> "negotiating"
    [] state = "SOCKS5ConnectionRequest" -> IF connecting THEN "connecting" ELSE "negotiating"
    [] state \in {"TLSClientHello", "TLSServerHello"} -> "handshaking"
    [] state = "TLSDefault" -> "relaying"
    [] state = "gone" -> "over"

Abstract == INSTANCE Lifecycle WITH
  phase <- [c \in Client |-> PhaseOf(flow[c], awaiting[c])],
  running <- status = "running"

\* The loop implements the life cycle: whatever the interleaving and whichever
\* calls fail, no conversation skips or repeats a phase, takes a descriptor another
\* one holds, or keeps one after its end.
RefinesLifecycle == Abstract!Spec

SocketOf(f) == IF f \in Fd THEN sock[f] ELSE ClosedSocket

\* A client whose connect was answered by the network gets a reply, or resets
\* its own connection, or the process ends.
ConnectAnswered ==
  \A c \in Client :
    (Live(c) /\ awaiting[c]) ~>
      (~awaiting[c] \/ SocketOf(clientFd[c]).link = "failed" \/ status # "running")

\* What a server sent before it closed is received in full by a conversation
\* that relays, however many reads that takes: server descriptors are
\* level-triggered.
ServerDrained ==
  \A c \in Client :
    (flow[c] = "TLSDefault" /\ SocketOf(serverFd[c]).eof) ~>
      (~Live(c) \/ SocketOf(serverFd[c]).rx = 0 \/ status # "running")

\* While the proxy negotiates, a client whose receive queue is as full as the
\* model lets it get is read from: the registration of an accepted socket reports
\* what came before it, and later arrivals are edges.  Only one read is promised;
\* what it leaves behind waits for the next edge.
HandshakeInputRead ==
  \A c \in Client :
    (flow[c] \in {"SOCKS5ClientHello", "TLSClientHello"} /\ SocketOf(clientFd[c]).rx = MaxRx) ~>
      (~Live(c) \/ SocketOf(clientFd[c]).rx < MaxRx \/ status # "running")

-----------------------------------------------------------------------------
(* What the documents say and the code does not do. *)

\* The proxy outlives its conversations: one process serves one client after
\* another until it is killed.
KeepsServing == status # "NoPipelineFound"

\* A refused connection closes the conversation instead of being answered
\* "Succeeded".
RefusalNotAnswered ==
  [][\A c \in Client : flow[c] = "SOCKS5ConnectionRequest" /\ flow'[c] = "TLSClientHello" =>
       sock[serverFd[c]].link # "failed"]_vars
=============================================================================
