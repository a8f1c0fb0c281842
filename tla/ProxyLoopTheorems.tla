------------------------- MODULE ProxyLoopTheorems -------------------------
(***************************************************************************)
(* What the loop does with descriptors, over a step and over a run: it     *)
(* orphans none, closes only those of the conversation that ends, ends a   *)
(* conversation only at the end of a stream, and ends itself for a cause;  *)
(* and ProxyLoop implements Lifecycle.  For any clients, descriptors,      *)
(* EventsSize and Faults.                                                  *)
(***************************************************************************)
EXTENDS ProxyLoopProofs

-----------------------------------------------------------------------------
(* What is kept, released and ended. *)

ConnectsCleanly == Faults \cap {"connect", "epoll_ctl"} = {}

\* The events that wait had a pipeline when epoll_wait returned them.
UnmappedAfterRelease ==
  ConnectsCleanly =>
    \A f \in Fd \cap batch : pipelines[f] = Null => \E c \in Client : flow[c] = "gone"

SInv ==
  /\ NoOrphan
  /\ UnmappedAfterRelease
  /\ StopsForCause

\* A step that ends no conversation: it closes nothing, unmaps nothing, maps what
\* it opens, and stops the process only for a cause.
Tame ==
  /\ \A f \in Fd : IsOpen(sock[f]) => IsOpen(sock'[f])
  /\ \A f \in Fd : pipelines'[f] = Null => pipelines[f] = Null
  /\ ConnectsCleanly =>
       \A f \in Fd : IsOpen(sock'[f]) /\ ~IsOpen(sock[f]) => pipelines'[f] # Null
  /\ \A c \in Client : flow'[c] = "gone" <=> flow[c] = "gone"
  /\ \/ status' = status
     \/ status' = "BadConnectionFromListeningSocket"
     \/ status' = "BadEpollCTL" /\ "epoll_ctl" \in Faults
     \/ status' = "NoPipelineFound" /\ \E f \in Fd \cap batch : pipelines[f] = Null

-----------------------------------------------------------------------------
(* Every step but the end of a conversation is tame. *)

LEMMA QuietIsTame ==
  ASSUME NEW c \in Client, Quiet(c)
  PROVE  Tame
<1>1. \A d \in Client : flow'[d] = "gone" <=> flow[d] = "gone"
  BY DEF Quiet, Live, Flow
<1>. QED BY <1>1 DEF Quiet, Tame, IsOpen

LEMMA AcceptIsTame ==
  ASSUME IInv, AcceptNewConnectionSocket
  PROVE  Tame
<1>. USE DEF AcceptNewConnectionSocket, TakeEvent, Stop
<1>1. PICK c \in backlog :
        \/ /\ status' = "BadConnectionFromListeningSocket"
           /\ UNCHANGED <<pipelines, flow, sock>>
        \/ \E f \in Free, s \in AcceptedSocket :
             /\ sock' = [sock EXCEPT ![f] = s]
             /\ \/ pipelines[f] # Null
                \/ /\ pipelines' = [pipelines EXCEPT ![f] = c]
                   /\ flow' = [flow EXCEPT ![c] = "SOCKS5ClientHello"]
                   /\ \/ UNCHANGED status
                      \/ status' = "BadEpollCTL" /\ "epoll_ctl" \in Faults
  BY DEF conversation, kernel
<1>2. c \in Client /\ flow[c] = "none"
  BY DEF IInv, TypeOK, FreshClients
<1>3. CASE /\ status' = "BadConnectionFromListeningSocket"
           /\ UNCHANGED <<pipelines, flow, sock>>
  BY <1>3 DEF Tame
<1>4. ASSUME NEW f \in Free, NEW s \in AcceptedSocket,
             sock' = [sock EXCEPT ![f] = s],
             \/ pipelines[f] # Null
             \/ /\ pipelines' = [pipelines EXCEPT ![f] = c]
                /\ flow' = [flow EXCEPT ![c] = "SOCKS5ClientHello"]
                /\ \/ UNCHANGED status
                   \/ status' = "BadEpollCTL" /\ "epoll_ctl" \in Faults
      PROVE  Tame
  <2>1. f \in Fd /\ ~IsOpen(sock[f]) /\ IsOpen(s) /\ pipelines[f] = Null
    <3>1. f \in Fd /\ ~IsOpen(sock[f]) /\ IsOpen(s)
      BY DEF Free, IsOpen, AcceptedSocket
    <3>. QED BY <3>1, FreeIsUnowned
  <2>2. /\ IsOpen(sock'[f]) /\ pipelines'[f] = c
        /\ \A x \in Fd \ {f} : sock'[x] = sock[x] /\ pipelines'[x] = pipelines[x]
        /\ flow'[c] = "SOCKS5ClientHello" /\ \A d \in Client \ {c} : flow'[d] = flow[d]
    BY <1>2, <1>4, <2>1 DEF IInv, TypeOK
  <2>. QED BY <1>2, <1>4, <2>1, <2>2, NullAssumption DEF Tame
<1>. QED BY <1>1, <1>3, <1>4

LEMMA ConnectionRequestIsTame ==
  ASSUME IInv, NEW e, NEW c \in Client, ConnectionRequestTransmission(e, c)
  PROVE  Tame
<1>. DEFINE f == clientFd[c]
            r == ReadData(sock[f], errno)
            Opened(g, s) == sock' = [sock EXCEPT ![f] = r.sock, ![g] = s]
<1>1. f \in Fd /\ sock[f] \in Socket
  BY Dispatched DEF ConnectionRequestTransmission, Flow
<1>2. TypeOK /\ errno \in Errno
  BY Zenon DEF IInv, TypeOK
<1>3. r.sock \in Socket /\ r.sock.link = sock[f].link
  BY <1>1, <1>2, ReadDataType
<1>4. UNCHANGED <<status, flow>>
  BY DEF ConnectionRequestTransmission, Stay
<1>5. \/ /\ \/ Touch(f, r)
            \/ \E n \in Errno : Touch(f, [r EXCEPT !.errno = n])
         /\ UNCHANGED pipelines
      \/ \E g \in Free :
           \/ Opened(g, DeadSocket) /\ ~ConnectsCleanly /\ UNCHANGED pipelines
           \/ /\ Opened(g, ConnectingSocket)
              /\ pipelines' = IF pipelines[g] = Null
                              THEN [pipelines EXCEPT ![g] = c] ELSE pipelines
  BY DEF ConnectionRequestTransmission, LinkSockfdToExistingPipeline, ConnectsCleanly
<1>6. CASE /\ \/ Touch(f, r)
              \/ \E n \in Errno : Touch(f, [r EXCEPT !.errno = n])
           /\ UNCHANGED pipelines
  <2>1. sock' = [sock EXCEPT ![f] = r.sock]
    BY <1>6 DEF Touch, ReadData
  <2>. HIDE DEF r, f
  <2>2. \A x \in Fd : sock'[x].link = sock[x].link
    BY <1>1, <1>2, <1>3, <2>1 DEF TypeOK
  <2>. QED BY <1>4, <1>6, <2>2 DEF Tame, IsOpen
<1>7. ASSUME NEW g \in Free, NEW s \in Socket, IsOpen(s), Opened(g, s)
      PROVE  /\ g \in Fd /\ ~IsOpen(sock[g]) /\ IsOpen(sock'[g]) /\ pipelines[g] = Null
             /\ \A x \in Fd \ {g} : IsOpen(sock'[x]) <=> IsOpen(sock[x])
  <2>. HIDE DEF r
  <2>1. g \in Fd /\ ~IsOpen(sock[g])
    BY DEF Free, IsOpen
  <2>2. g # f /\ pipelines[g] = Null
    <3>1. Live(c)
      BY Dispatched DEF ConnectionRequestTransmission, Flow
    <3>. QED BY <2>1, <3>1, FreeIsUnowned
  <2>. QED BY <1>1, <1>2, <1>3, <1>7, <2>1, <2>2 DEF TypeOK, IsOpen
<1>8. ASSUME NEW g \in Free, Opened(g, DeadSocket), ~ConnectsCleanly, UNCHANGED pipelines
      PROVE  Tame
  <2>. HIDE DEF Opened
  <2>. QED BY <1>4, <1>7, <1>8, NewSocketTypes DEF Tame
<1>9. ASSUME NEW g \in Free, Opened(g, ConnectingSocket),
             pipelines' = IF pipelines[g] = Null
                          THEN [pipelines EXCEPT ![g] = c] ELSE pipelines
      PROVE  Tame
  <2>. HIDE DEF Opened
  <2>1. /\ g \in Fd /\ ~IsOpen(sock[g]) /\ IsOpen(sock'[g]) /\ pipelines[g] = Null
        /\ \A x \in Fd \ {g} : IsOpen(sock'[x]) <=> IsOpen(sock[x])
    BY <1>7, <1>9, NewSocketTypes
  <2>2. pipelines'[g] = c /\ \A x \in Fd \ {g} : pipelines'[x] = pipelines[x]
    BY <1>2, <1>9, <2>1 DEF TypeOK
  <2>. QED BY <1>4, <2>1, <2>2, NullAssumption DEF Tame
<1>. HIDE DEF f, r, Opened
<1>. QED BY <1>5, <1>6, <1>8, <1>9

LEMMA TransactionIsTame ==
  ASSUME IInv, NEW e \in Fd, NEW c \in Client, HandleEvent(e, c), ~TLSDefaultEnds(e, c)
  PROVE  Tame
<1>1. CASE ConnectionRequestTransmission(e, c)
  BY <1>1, ConnectionRequestIsTame
<1>2. CASE ~ConnectionRequestTransmission(e, c)
  <2>1. Quiet(c)
    BY <1>2, ClientHelloQuiet, ConnectionRequestReplyQuiet, TLSClientHelloQuiet,
       TLSServerHelloQuiet, TLSDefaultQuiet DEF HandleEvent
  <2>. QED BY <2>1, QuietIsTame
<1>. QED BY <1>1, <1>2

LEMMA EnvironmentIsTame ==
  ASSUME IInv, Environment
  PROVE  Tame
<1>1. CASE \E c \in Client : Arrive(c)
  BY <1>1 DEF Arrive, conversation, kernel, Tame
<1>2. ASSUME NEW f \in Fd, NEW s, sock[f].link # "closed", s.link # "closed", SocketChanges(f, s)
      PROVE  Tame
  <2>1. \A x \in Fd : IsOpen(sock'[x]) <=> IsOpen(sock[x])
    BY <1>2 DEF SocketChanges, IInv, TypeOK, IsOpen
  <2>. QED BY <1>2, <2>1 DEF SocketChanges, conversation, Tame
<1>3. ASSUME NEW f \in Fd, PeerSend(f) \/ PeerClose(f) \/ PeerReset(f) \/ ConnectSettles(f)
      PROVE  \E s : sock[f].link # "closed" /\ s.link # "closed" /\ SocketChanges(f, s)
  <2>1. sock[f] \in Socket
    BY DEF IInv, TypeOK
  <2>2. /\ [sock[f] EXCEPT !.rx = @ + 1].link = sock[f].link
        /\ [sock[f] EXCEPT !.eof = TRUE].link = sock[f].link
        /\ [sock[f] EXCEPT !.link = "failed", !.err = TRUE].link = "failed"
        /\ [sock[f] EXCEPT !.link = "connected"].link = "connected"
    BY <2>1 DEF Socket
  <2>3. CASE PeerSend(f)
    BY <2>2, <2>3 DEF PeerSend
  <2>4. CASE PeerClose(f)
    BY <2>2, <2>4 DEF PeerClose
  <2>5. CASE PeerReset(f)
    BY <2>2, <2>5 DEF PeerReset
  <2>6. CASE ConnectSettles(f)
    BY <2>2, <2>6 DEF ConnectSettles
  <2>. QED BY <1>3, <2>3, <2>4, <2>5, <2>6
<1>. QED BY <1>1, <1>2, <1>3 DEF Environment

LEMMA StepIsTameOrRelease ==
  ASSUME IInv, [Next]_vars
  PROVE  Tame \/ \E e \in Fd, c \in Client : TLSDefaultEnds(e, c)
<1>1. CASE EpollWait \/ UNCHANGED vars
  BY <1>1 DEF EpollWait, vars, conversation, kernel, Tame
<1>2. CASE AcceptNewConnectionSocket
  BY <1>2, AcceptIsTame
<1>3. ASSUME NEW e \in Fd, NoPipelineFound(e) PROVE Tame
  BY <1>3 DEF NoPipelineFound, TakeEvent, Stop, conversation, kernel, Tame
<1>4. CASE Environment
  BY <1>4, EnvironmentIsTame
<1>. QED BY <1>1, <1>2, <1>3, <1>4, TransactionIsTame DEF Next, ProcessConnections

-----------------------------------------------------------------------------
(* The end of a conversation. *)

LEMMA ReleaseStep ==
  ASSUME IInv, NEW e \in Fd, NEW c \in Client, TLSDefaultEnds(e, c)
  PROVE  /\ Live(c) /\ flow'[c] = "gone"
         /\ \A d \in Client \ {c} : flow'[d] = flow[d]
         /\ \A f \in Owned(c) : ~IsOpen(sock'[f]) /\ epoll'[f] = "off"
         /\ \A f \in Fd \ Owned(c) : sock'[f] = sock[f] /\ pipelines'[f] = pipelines[f]
         /\ \E f \in Owned(c) : sock[f].rx = 0 /\ (sock[f].eof \/ sock[f].link = "failed")
         /\ status' = status \/ (status' = "BadEpollCTL" /\ "epoll_ctl" \in Faults)
<1>1. /\ Live(c) /\ clientFd[c] \in Fd /\ serverFd[c] \in Fd
      /\ Removable(clientFd[c]) /\ Removable(serverFd[c])
      /\ pipelines' = [x \in Fd |-> IF x \in Owned(c) THEN Null ELSE pipelines[x]]
      /\ epoll' = [x \in Fd |-> IF x \in Owned(c) THEN "off" ELSE epoll[x]]
      /\ sock' = [x \in Fd |-> IF x \in Owned(c) THEN ClosedSocket ELSE sock[x]]
      /\ flow' = [flow EXCEPT ![c] = "gone"]
  BY ReleaseEffect
<1>2. flow'[c] = "gone" /\ \A d \in Client \ {c} : flow'[d] = flow[d]
  BY <1>1 DEF IInv, TypeOK
<1>3. Owned(c) = {clientFd[c], serverFd[c]}
  BY <1>1, FdAssumption DEF Owned, NoFd
<1>4. \E f \in Owned(c) : sock[f].rx = 0 /\ (sock[f].eof \/ sock[f].link = "failed")
  <2>1. PICK f \in Owned(c) : ReadData(sock[f], errno).status = "DataTransferEnded"
    BY <1>3 DEF TLSDefaultEnds
  <2>2. sock[f] \in Socket /\ errno \in Errno
    BY <1>1, <1>3 DEF IInv, TypeOK
  <2>. QED BY <2>1, <2>2, EndedMeansDrained
<1>5. status' = status \/ (status' = "BadEpollCTL" /\ "epoll_ctl" \in Faults)
  BY <1>1 DEF TLSDefaultEnds, Stop
<1>. QED BY <1>1, <1>2, <1>3, <1>4, <1>5, NewSocketTypes

-----------------------------------------------------------------------------
(* The invariant. *)

LEMMA InitSInv == Init => SInv
BY NewSocketTypes DEF Init, SInv, NoOrphan, UnmappedAfterRelease, StopsForCause

\* Only epoll_wait adds events to handle.
LEMMA OnlyEpollWaitFills ==
  ASSUME [Next]_vars, ~EpollWait
  PROVE  batch' \subseteq batch
<1>1. ASSUME NEW e \in Fd, NEW c \in Client, HandleEvent(e, c) PROVE batch' = batch \ {e}
  <2>1. \E state : Dispatch(e, c, state)
    BY <1>1, Zenon
       DEF HandleEvent, ClientHelloTransmission, ConnectionRequestTransmission,
           ConnectionRequestReply, TLSReceivingClientHello, TLSReceivingServerHello,
           TLSDefault, TLSDefaultEnds
  <2>. QED BY <2>1 DEF Dispatch, TakeEvent
<1>2. ASSUME NEW e \in Fd, NoPipelineFound(e) PROVE batch' = batch \ {e}
  BY <1>2 DEF NoPipelineFound, TakeEvent
<1>3. CASE AcceptNewConnectionSocket
  BY <1>3 DEF AcceptNewConnectionSocket, TakeEvent
<1>4. CASE Environment
  BY <1>4, Zenon DEF Environment, Arrive, PeerSend, PeerClose, PeerReset, ConnectSettles,
                     SocketChanges
<1>5. CASE UNCHANGED vars
  BY <1>5 DEF vars
<1>. QED BY <1>1, <1>2, <1>3, <1>4, <1>5 DEF Next, ProcessConnections

LEMMA NextSInv ==
  ASSUME IInv, SInv, [Next]_vars
  PROVE  SInv'
<1>. USE DEF SInv
<1>1. NoOrphan'
  <2>1. CASE Tame
    BY <2>1 DEF Tame, NoOrphan, ConnectsCleanly
  <2>2. ASSUME NEW e \in Fd, NEW c \in Client, TLSDefaultEnds(e, c) PROVE NoOrphan'
    BY <2>2, ReleaseStep DEF NoOrphan
  <2>. QED BY <2>1, <2>2, StepIsTameOrRelease
<1>2. UnmappedAfterRelease'
  <2>1. CASE EpollWait
    <3>1. \A f \in Fd \cap batch' : epoll[f] # "off"
      BY <2>1, FdAssumption DEF EpollWait, Returned, Ready
    <3>. QED BY <2>1, <3>1
         DEF EpollWait, IInv, RegisteredIsOpen, NoOrphan, UnmappedAfterRelease, ConnectsCleanly
  <2>2. CASE ~EpollWait
    <3>1. batch' \subseteq batch
      BY <2>2, OnlyEpollWaitFills
    <3>2. CASE Tame
      BY <3>1, <3>2 DEF Tame, UnmappedAfterRelease
    <3>3. ASSUME NEW e \in Fd, NEW c \in Client, TLSDefaultEnds(e, c)
          PROVE  UnmappedAfterRelease'
      BY <3>3, ReleaseStep DEF UnmappedAfterRelease
    <3>. QED BY <3>2, <3>3, StepIsTameOrRelease
  <2>. QED BY <2>1, <2>2
<1>3. StopsForCause'
  <2>1. CASE Tame
    BY <2>1 DEF Tame, StopsForCause, UnmappedAfterRelease, ConnectsCleanly
  <2>2. ASSUME NEW e \in Fd, NEW c \in Client, TLSDefaultEnds(e, c) PROVE StopsForCause'
    BY <2>2, ReleaseStep DEF StopsForCause
  <2>. QED BY <2>1, <2>2, StepIsTameOrRelease
<1>. QED BY <1>1, <1>2, <1>3

THEOREM SafetyInvariance == Spec => []SInv
<1>1. SInv /\ IInv /\ [Next]_vars => SInv'
  BY NextSInv
<1>. QED BY <1>1, InitSInv, Invariance, PTL DEF Spec

-----------------------------------------------------------------------------

\* When connect() and epoll_ctl() do not fail at once, every open descriptor has
\* its conversation in the map: none leaks.
THEOREM NothingIsOrphaned == Spec => []NoOrphan
<1>1. SInv => NoOrphan
  BY DEF SInv
<1>. QED BY <1>1, SafetyInvariance, PTL

\* The bookkeeping of the loop never stops the process by itself.
THEOREM LoopStopsForCause == Spec => []StopsForCause
<1>1. SInv => StopsForCause
  BY DEF SInv
<1>. QED BY <1>1, SafetyInvariance, PTL

\* A descriptor is closed only with the conversation that owns it, and both of
\* that conversation's descriptors go together.
THEOREM ReleasesAreIsolated == Spec => ReleaseIsIsolated
<1>. DEFINE Isolated ==
       \A f \in Fd : IsOpen(sock[f]) /\ ~IsOpen(sock'[f]) =>
         \E c \in Client :
           /\ f \in Owned(c) /\ Live(c) /\ flow'[c] = "gone"
           /\ \A g \in Owned(c) : ~IsOpen(sock'[g]) /\ epoll'[g] = "off"
<1>1. ASSUME IInv, [Next]_vars PROVE Isolated
  <2>1. CASE Tame
    BY <2>1 DEF Tame
  <2>2. ASSUME NEW e \in Fd, NEW c \in Client, TLSDefaultEnds(e, c) PROVE Isolated
    BY <1>1, <2>2, ReleaseStep
  <2>. QED BY <1>1, <2>1, <2>2, StepIsTameOrRelease
<1>2. IInv /\ [Next]_vars => [Isolated]_vars
  BY <1>1
<1>. HIDE DEF Isolated
<1>3. Spec => [][Isolated]_vars
  BY <1>2, Invariance, PTL DEF Spec
<1>. QED BY <1>3 DEF Isolated, ReleaseIsIsolated

\* A conversation ends only when one of its peers is at the end of its stream and
\* nothing of it is left to read.
THEOREM EndsAtEndOfStream == Spec => EndsOnlyAtEndOfStream
<1>. DEFINE AtEnd ==
       \A c \in Client : Live(c) /\ flow'[c] = "gone" =>
         \E f \in Owned(c) : sock[f].rx = 0 /\ (sock[f].eof \/ sock[f].link = "failed")
<1>1. ASSUME IInv, [Next]_vars PROVE AtEnd
  <2>1. CASE Tame
    BY <2>1 DEF Tame, Live, Flow
  <2>2. ASSUME NEW e \in Fd, NEW c \in Client, TLSDefaultEnds(e, c) PROVE AtEnd
    BY <1>1, <2>2, ReleaseStep DEF Live, Flow
  <2>. QED BY <1>1, <2>1, <2>2, StepIsTameOrRelease
<1>2. IInv /\ [Next]_vars => [AtEnd]_vars
  BY <1>1
<1>. HIDE DEF AtEnd
<1>3. Spec => [][AtEnd]_vars
  BY <1>2, Invariance, PTL DEF Spec
<1>. QED BY <1>3 DEF AtEnd, EndsOnlyAtEndOfStream

-----------------------------------------------------------------------------
(* The loop implements the life cycle. *)

\* A conversation that does not live holds nothing, and only the request flow waits
\* for a connect.
Orderly ==
  \A c \in Client :
    /\ ~Live(c) => clientFd[c] = NoFd /\ serverFd[c] = NoFd
    /\ awaiting[c] => flow[c] = "SOCKS5ConnectionRequest"

-----------------------------------------------------------------------------
(* What a step does to the conversations, without the kernel and the map. *)

Nothing ==
  /\ UNCHANGED <<flow, clientFd, serverFd, awaiting>>
  /\ status' = status \/ (status = "running" /\ status' # "running")

Accepted(c, f) ==
  /\ status = "running"
  /\ flow[c] = "none"
  /\ \A d \in Client : Live(d) => f # clientFd[d] /\ f # serverFd[d]
  /\ flow' = [flow EXCEPT ![c] = "SOCKS5ClientHello"]
  /\ clientFd' = [clientFd EXCEPT ![c] = f]
  /\ UNCHANGED <<serverFd, awaiting>>

Connected(c, g) ==
  /\ status = "running"
  /\ flow[c] = "SOCKS5ConnectionRequest" /\ ~awaiting[c]
  /\ \A d \in Client : Live(d) => g # clientFd[d] /\ g # serverFd[d]
  /\ serverFd' = [serverFd EXCEPT ![c] = g]
  /\ awaiting' = [awaiting EXCEPT ![c] = TRUE]
  /\ UNCHANGED <<status, flow, clientFd>>

Moved(c, from, to) ==
  /\ status = "running"
  /\ flow[c] = from
  /\ flow' = [flow EXCEPT ![c] = to]
  /\ UNCHANGED <<status, clientFd, serverFd, awaiting>>

Answered(c) ==
  /\ status = "running"
  /\ flow[c] = "SOCKS5ConnectionRequest" /\ awaiting[c]
  /\ flow' = [flow EXCEPT ![c] = "TLSClientHello"]
  /\ awaiting' = [awaiting EXCEPT ![c] = FALSE]
  /\ UNCHANGED <<status, clientFd, serverFd>>

Released(c) ==
  /\ status = "running"
  /\ flow[c] = "TLSDefault"
  /\ flow' = [flow EXCEPT ![c] = "gone"]
  /\ clientFd' = [clientFd EXCEPT ![c] = NoFd]
  /\ serverFd' = [serverFd EXCEPT ![c] = NoFd]
  /\ UNCHANGED awaiting

Effect ==
  \/ Nothing
  \/ \E c \in Client, f \in Fd : Accepted(c, f) \/ Connected(c, f)
  \/ \E c \in Client :
       \/ Moved(c, "SOCKS5ClientHello", "SOCKS5ConnectionRequest")
       \/ Answered(c)
       \/ Moved(c, "TLSClientHello", "TLSServerHello")
       \/ Moved(c, "TLSServerHello", "TLSDefault")
       \/ Released(c)

\* accept takes a descriptor nobody has, for a conversation that has not begun.
LEMMA AcceptEffect ==
  ASSUME IInv, AcceptNewConnectionSocket
  PROVE  Effect
<1>. USE DEF AcceptNewConnectionSocket, TakeEvent, Stop
<1>1. status = "running"
  OBVIOUS
<1>2. PICK c \in backlog :
        \/ UNCHANGED conversation /\ status' # "running"
        \/ \E f \in Free :
             /\ flow' = [flow EXCEPT ![c] = "SOCKS5ClientHello"]
             /\ clientFd' = [clientFd EXCEPT ![c] = f]
             /\ UNCHANGED <<serverFd, awaiting>>
  OBVIOUS
<1>3. c \in Client /\ flow[c] = "none"
  BY DEF IInv, TypeOK, FreshClients
<1>4. CASE UNCHANGED conversation /\ status' # "running"
  BY <1>1, <1>4 DEF Effect, Nothing, conversation
<1>5. ASSUME NEW f \in Free,
             flow' = [flow EXCEPT ![c] = "SOCKS5ClientHello"],
             clientFd' = [clientFd EXCEPT ![c] = f],
             UNCHANGED <<serverFd, awaiting>>
      PROVE  Effect
  <2>1. f \in Fd /\ ~IsOpen(sock[f])
    BY DEF Free, IsOpen
  <2>2. Accepted(c, f)
    BY <1>1, <1>3, <1>5, <2>1, FreeIsUnowned DEF Accepted
  <2>. QED BY <1>3, <2>1, <2>2 DEF Effect
<1>. QED BY <1>2, <1>4, <1>5

\* A request that is served takes a descriptor nobody has.
LEMMA ConnectEffect ==
  ASSUME IInv, NEW e, NEW c \in Client, ConnectionRequestTransmission(e, c)
  PROVE  Effect
<1>1. status = "running" /\ flow[c] = "SOCKS5ConnectionRequest" /\ ~awaiting[c]
  BY DEF ConnectionRequestTransmission, Dispatch, TakeEvent
<1>2. UNCHANGED status
  BY DEF ConnectionRequestTransmission
<1>3. \/ \E b \in {held[c], TRUE} : Stay(c, b)
      \/ \E g \in Free :
           /\ serverFd' = [serverFd EXCEPT ![c] = g]
           /\ awaiting' = [awaiting EXCEPT ![c] = TRUE]
           /\ UNCHANGED <<flow, clientFd>>
  BY DEF ConnectionRequestTransmission, InitServerConnection
<1>4. ASSUME NEW b, Stay(c, b) PROVE Effect
  BY <1>2, <1>4 DEF Stay, Effect, Nothing
<1>5. ASSUME NEW g \in Free,
             serverFd' = [serverFd EXCEPT ![c] = g],
             awaiting' = [awaiting EXCEPT ![c] = TRUE],
             UNCHANGED <<flow, clientFd>>
      PROVE  Effect
  <2>1. g \in Fd /\ ~IsOpen(sock[g])
    BY DEF Free, IsOpen
  <2>2. Connected(c, g)
    BY <1>1, <1>2, <1>5, <2>1, FreeIsUnowned DEF Connected
  <2>. QED BY <2>1, <2>2 DEF Effect
<1>. QED BY <1>3, <1>4, <1>5

\* The other transactions stay where they are or go on to the next flow.
LEMMA TransactionEffect ==
  ASSUME IInv, NEW e \in Fd, NEW c \in Client, HandleEvent(e, c)
  PROVE  Effect
<1>1. ASSUME NEW b, Stay(c, b), UNCHANGED status PROVE Effect
  BY <1>1 DEF Stay, Effect, Nothing
<1>2. ASSUME NEW from, NEW to, NEW b, Become(c, to, b), Dispatch(e, c, from), UNCHANGED status
      PROVE  Moved(c, from, to)
  BY <1>2 DEF Become, Dispatch, TakeEvent, Moved
<1>3. CASE ClientHelloTransmission(e, c)
  <2>1. /\ Dispatch(e, c, "SOCKS5ClientHello") /\ UNCHANGED status
        /\ \/ \E b : Stay(c, b)
           \/ Become(c, "SOCKS5ConnectionRequest", FALSE)
    BY <1>3, Zenon DEF ClientHelloTransmission
  <2>. QED BY <1>1, <1>2, <2>1 DEF Effect
<1>4. CASE ConnectionRequestTransmission(e, c)
  BY <1>4, ConnectEffect
<1>5. CASE ConnectionRequestReply(e, c)
  <2>1. /\ Dispatch(e, c, "SOCKS5ConnectionRequest") /\ awaiting[c] /\ UNCHANGED status
        /\ \/ \E b : Stay(c, b)
           \/ /\ flow' = [flow EXCEPT ![c] = "TLSClientHello"]
              /\ awaiting' = [awaiting EXCEPT ![c] = FALSE]
              /\ UNCHANGED <<clientFd, serverFd>>
    BY <1>5, Zenon DEF ConnectionRequestReply
  <2>. QED BY <1>1, <2>1, Zenon DEF Effect, Answered, Dispatch, TakeEvent
<1>6. CASE TLSReceivingClientHello(e, c)
  <2>1. /\ Dispatch(e, c, "TLSClientHello") /\ UNCHANGED status
        /\ \/ \E b : Stay(c, b)
           \/ Become(c, "TLSServerHello", FALSE)
    BY <1>6, Zenon DEF TLSReceivingClientHello
  <2>. QED BY <1>1, <1>2, <2>1 DEF Effect
<1>7. CASE TLSReceivingServerHello(e, c)
  <2>1. /\ Dispatch(e, c, "TLSServerHello") /\ UNCHANGED status
        /\ \/ \E b : Stay(c, b)
           \/ Become(c, "TLSDefault", FALSE)
    BY <1>7, Zenon DEF TLSReceivingServerHello
  <2>. QED BY <1>1, <1>2, <2>1 DEF Effect
<1>8. CASE TLSDefault(e, c)
  <2>1. UNCHANGED status /\ Stay(c, FALSE)
    BY <1>8 DEF TLSDefault
  <2>. QED BY <1>1, <2>1
<1>9. CASE TLSDefaultEnds(e, c)
  <2>1. flow[c] = "TLSDefault" /\ UNCHANGED awaiting
    BY <1>9 DEF TLSDefaultEnds, Dispatch
  <2>2. /\ status = "running"
        /\ flow' = [flow EXCEPT ![c] = "gone"]
        /\ clientFd' = [clientFd EXCEPT ![c] = NoFd]
        /\ serverFd' = [serverFd EXCEPT ![c] = NoFd]
    BY <1>9, ReleaseEffect
  <2>. QED BY <2>1, <2>2 DEF Effect, Released
<1>. QED BY <1>3, <1>4, <1>5, <1>6, <1>7, <1>8, <1>9 DEF HandleEvent

LEMMA StepEffect ==
  ASSUME IInv, [Next]_vars
  PROVE  Effect
<1>1. ASSUME UNCHANGED conversation,
             status' = status \/ (status = "running" /\ status' # "running")
      PROVE  Effect
  BY <1>1 DEF conversation, Effect, Nothing
<1>2. CASE AcceptNewConnectionSocket
  BY <1>2, AcceptEffect
<1>3. ASSUME NEW e \in Fd, NEW c \in Client, HandleEvent(e, c) PROVE Effect
  BY <1>3, TransactionEffect
<1>4. CASE EpollWait
  BY <1>1, <1>4 DEF EpollWait
<1>5. ASSUME NEW e \in Fd, NoPipelineFound(e) PROVE Effect
  BY <1>1, <1>5 DEF NoPipelineFound, TakeEvent, Stop
<1>6. CASE Environment
  BY <1>1, <1>6 DEF Environment, Arrive, PeerSend, PeerClose, PeerReset, ConnectSettles,
                    SocketChanges
<1>7. CASE UNCHANGED vars
  BY <1>1, <1>7 DEF vars
<1>. QED BY <1>2, <1>3, <1>4, <1>5, <1>6, <1>7 DEF Next, ProcessConnections

-----------------------------------------------------------------------------
(* The effects keep conversations orderly. *)

LEMMA InitOrderly == Init => Orderly
BY Zenon DEF Init, Orderly

\* An effect changes one conversation at most.
LEMMA OrderlyPreserved ==
  ASSUME IInv, Orderly, Effect
  PROVE  Orderly'
<1>. USE DEF Orderly
<1>1. CASE Nothing
  BY <1>1 DEF Nothing, Live
<1>2. ASSUME NEW c \in Client, Live(c)' \/ (clientFd'[c] = NoFd /\ serverFd'[c] = NoFd),
             awaiting'[c] => flow'[c] = "SOCKS5ConnectionRequest",
             \A d \in Client \ {c} :
               /\ flow'[d] = flow[d] /\ awaiting'[d] = awaiting[d]
               /\ clientFd'[d] = clientFd[d] /\ serverFd'[d] = serverFd[d]
      PROVE  Orderly'
  BY <1>2 DEF Live
<1>3. ASSUME NEW c \in Client, NEW f \in Fd, Accepted(c, f) PROVE Orderly'
  <2>1. ~awaiting[c]
    BY <1>3 DEF Accepted
  <2>. QED BY <1>2, <1>3, <2>1 DEF Accepted, IInv, TypeOK, Live, Flow
<1>4. ASSUME NEW c \in Client, NEW f \in Fd, Connected(c, f) PROVE Orderly'
  BY <1>2, <1>4 DEF Connected, IInv, TypeOK, Live, Flow
<1>5. ASSUME NEW c \in Client, NEW from, NEW to \in Flow,
             from # "SOCKS5ConnectionRequest", Moved(c, from, to)
      PROVE  Orderly'
  <2>1. ~awaiting[c]
    BY <1>5 DEF Moved
  <2>. QED BY <1>2, <1>5, <2>1 DEF Moved, IInv, TypeOK, Live
<1>6. ASSUME NEW c \in Client, Answered(c) PROVE Orderly'
  BY <1>2, <1>6 DEF Answered, IInv, TypeOK, Live, Flow
<1>7. ASSUME NEW c \in Client, Released(c) PROVE Orderly'
  <2>1. ~awaiting[c]
    BY <1>7 DEF Released
  <2>. QED BY <1>2, <1>7, <2>1 DEF Released, IInv, TypeOK
<1>. QED BY <1>1, <1>3, <1>4, <1>5, <1>6, <1>7 DEF Effect, Flow

-----------------------------------------------------------------------------
(* The effects are steps of Lifecycle. *)

Phases == [c \in Client |-> PhaseOf(flow[c], awaiting[c])]

LEMMA PhaseValues ==
  ASSUME NEW b \in BOOLEAN
  PROVE  /\ PhaseOf("none", b) = "new"
         /\ PhaseOf("SOCKS5ClientHello", b) = "negotiating"
         /\ PhaseOf("SOCKS5ConnectionRequest", FALSE) = "negotiating"
         /\ PhaseOf("SOCKS5ConnectionRequest", TRUE) = "connecting"
         /\ PhaseOf("TLSClientHello", b) = "handshaking"
         /\ PhaseOf("TLSServerHello", b) = "handshaking"
         /\ PhaseOf("TLSDefault", b) = "relaying"
         /\ PhaseOf("gone", b) = "over"
BY DEF PhaseOf

\* One conversation's change of flow is one conversation's change of phase.
LEMMA PhaseMoves ==
  ASSUME NEW c \in Client,
         \A d \in Client \ {c} : flow'[d] = flow[d] /\ awaiting'[d] = awaiting[d]
  PROVE  Phases' = [Phases EXCEPT ![c] = PhaseOf(flow'[c], awaiting'[c])]
BY DEF Phases

LEMMA InitMaps == Init => Abstract!Init
<1>. SUFFICES ASSUME Init PROVE Abstract!Init
  OBVIOUS
<1>1. \A c \in Client : flow[c] = "none" /\ awaiting[c] = FALSE
  BY Zenon DEF Init
<1>2. \A c \in Client : PhaseOf(flow[c], awaiting[c]) = "new"
  BY <1>1, PhaseValues
<1>. QED BY <1>2 DEF Init, Abstract!Init

LEMMA EffectMaps ==
  ASSUME IInv, Orderly, Effect
  PROVE  [Abstract!Next]_(Abstract!vars)
<1>1. \A c \in Client : Phases[c] = PhaseOf(flow[c], awaiting[c])
  BY DEF Phases
<1>2. \A c \in Client : awaiting[c] \in BOOLEAN
  BY Zenon DEF IInv, TypeOK
<1>3. CASE Nothing
  BY <1>3 DEF Nothing, Abstract!vars, Abstract!Next, Abstract!Stop
<1>4. ASSUME NEW c \in Client, NEW f \in Fd, Accepted(c, f) \/ Connected(c, f)
      PROVE  f \in Fd \ Abstract!Held
  BY <1>4, FdAssumption DEF Accepted, Connected, Orderly, NoFd, Abstract!Held
<1>5. ASSUME NEW c \in Client, NEW to \in FlowState, NEW d \in BOOLEAN,
             flow' = [flow EXCEPT ![c] = to], awaiting' = [awaiting EXCEPT ![c] = d]
      PROVE  Phases' = [Phases EXCEPT ![c] = PhaseOf(to, d)]
  <2>1. flow'[c] = to /\ awaiting'[c] = d
    BY <1>5, Zenon DEF IInv, TypeOK
  <2>2. \A x \in Client \ {c} : flow'[x] = flow[x] /\ awaiting'[x] = awaiting[x]
    BY <1>5, Zenon DEF IInv, TypeOK
  <2>3. Phases' = [Phases EXCEPT ![c] = PhaseOf(flow'[c], awaiting'[c])]
    BY <2>2, PhaseMoves, Zenon
  <2>. QED BY <2>1, <2>3, Zenon
<1>6. ASSUME NEW c \in Client, NEW from \in FlowState, NEW to \in FlowState,
             flow[c] = from, flow' = [flow EXCEPT ![c] = to], UNCHANGED awaiting
      PROVE  /\ Phases[c] = PhaseOf(from, awaiting[c])
             /\ Phases' = [Phases EXCEPT ![c] = PhaseOf(to, awaiting[c])]
  <2>1. flow'[c] = to /\ awaiting'[c] = awaiting[c]
    BY <1>6, Zenon DEF IInv, TypeOK
  <2>2. \A x \in Client \ {c} : flow'[x] = flow[x] /\ awaiting'[x] = awaiting[x]
    BY <1>6, Zenon DEF IInv, TypeOK
  <2>3. Phases' = [Phases EXCEPT ![c] = PhaseOf(flow'[c], awaiting'[c])]
    BY <2>2, PhaseMoves, Zenon
  <2>4. Phases[c] = PhaseOf(from, awaiting[c])
    BY <1>1, <1>6, Zenon
  <2>. QED BY <2>1, <2>3, <2>4, Zenon
<1>7. ASSUME NEW c \in Client, NEW f \in Fd, Accepted(c, f)
      PROVE  Abstract!Accept(c)
  <2>1. Phases[c] = "new" /\ Phases' = [Phases EXCEPT ![c] = "negotiating"]
    <3>1. "none" \in FlowState /\ "SOCKS5ClientHello" \in FlowState
      BY DEF FlowState, Flow
    <3>2. /\ Phases[c] = PhaseOf("none", awaiting[c])
          /\ Phases' = [Phases EXCEPT ![c] = PhaseOf("SOCKS5ClientHello", awaiting[c])]
      BY <1>6, <1>7, <3>1, Zenon DEF Accepted
    <3>. QED BY <1>2, <3>2, PhaseValues, Zenon
  <2>. QED BY <1>4, <1>7, <2>1 DEF Accepted, Phases, Abstract!Accept, Abstract!Advance
<1>8. ASSUME NEW c \in Client, NEW g \in Fd, Connected(c, g)
      PROVE  Abstract!Connect(c)
  <2>1. flow' = [flow EXCEPT ![c] = "SOCKS5ConnectionRequest"]
    BY <1>8 DEF Connected, IInv, TypeOK
  <2>2. Phases[c] = "negotiating" /\ Phases' = [Phases EXCEPT ![c] = "connecting"]
    <3>1. "SOCKS5ConnectionRequest" \in FlowState
      BY DEF FlowState, Flow
    <3>2. awaiting[c] = FALSE
      BY <1>2, <1>8, Zenon DEF Connected
    <3>3. /\ Phases[c] = PhaseOf("SOCKS5ConnectionRequest", FALSE)
          /\ Phases' = [Phases EXCEPT ![c] = PhaseOf("SOCKS5ConnectionRequest", TRUE)]
      BY <1>1, <1>5, <1>8, <2>1, <3>1, <3>2, Zenon DEF Connected
    <3>. QED BY <3>3, PhaseValues, Zenon
  <2>. QED BY <1>4, <1>8, <2>2 DEF Connected, Phases, Abstract!Connect, Abstract!Advance
<1>9. ASSUME NEW c \in Client, NEW from \in FlowState, NEW to \in FlowState, Moved(c, from, to)
      PROVE  /\ Phases[c] = PhaseOf(from, awaiting[c])
             /\ Phases' = [Phases EXCEPT ![c] = PhaseOf(to, awaiting[c])]
             /\ awaiting[c] => from = "SOCKS5ConnectionRequest"
  BY <1>6, <1>9, Zenon DEF Moved, Orderly
<1>10. ASSUME NEW c \in Client, NEW from \in FlowState, NEW to \in FlowState, Moved(c, from, to),
              PhaseOf(to, awaiting[c]) = PhaseOf(from, awaiting[c])
       PROVE  UNCHANGED Abstract!vars
  <2>1. Phases' = Phases
    BY <1>1, <1>9, <1>10 DEF Phases
  <2>. QED BY <1>10, <2>1 DEF Moved, Phases, Abstract!vars
<1>11. ASSUME NEW c \in Client, Moved(c, "SOCKS5ClientHello", "SOCKS5ConnectionRequest")
       PROVE  UNCHANGED Abstract!vars
  <2>1. "SOCKS5ClientHello" \in FlowState /\ "SOCKS5ConnectionRequest" \in FlowState
    BY DEF FlowState, Flow
  <2>2. awaiting[c] = FALSE
    <3>1. ~awaiting[c]
      BY <1>11 DEF Moved, Orderly
    <3>. QED BY <1>2, <3>1, Zenon
  <2>3. PhaseOf("SOCKS5ClientHello", FALSE) = PhaseOf("SOCKS5ConnectionRequest", FALSE)
    BY PhaseValues, Zenon
  <2>. QED BY <1>10, <1>11, <2>1, <2>2, <2>3, Zenon
<1>12. ASSUME NEW c \in Client, Moved(c, "TLSClientHello", "TLSServerHello")
       PROVE  UNCHANGED Abstract!vars
  <2>1. "TLSClientHello" \in FlowState /\ "TLSServerHello" \in FlowState
    BY DEF FlowState, Flow
  <2>2. PhaseOf("TLSClientHello", awaiting[c]) = PhaseOf("TLSServerHello", awaiting[c])
    BY <1>2, PhaseValues, Zenon
  <2>. QED BY <1>10, <1>12, <2>1, <2>2, Zenon
<1>13. ASSUME NEW c \in Client, Answered(c)
       PROVE  Abstract!Answer(c)
  <2>1. Phases[c] = "connecting" /\ Phases' = [Phases EXCEPT ![c] = "handshaking"]
    <3>1. "SOCKS5ConnectionRequest" \in FlowState /\ "TLSClientHello" \in FlowState
      BY DEF FlowState, Flow
    <3>2. awaiting[c] = TRUE
      BY <1>2, <1>13, Zenon DEF Answered
    <3>3. /\ Phases[c] = PhaseOf("SOCKS5ConnectionRequest", TRUE)
          /\ Phases' = [Phases EXCEPT ![c] = PhaseOf("TLSClientHello", FALSE)]
      BY <1>1, <1>5, <1>13, <3>1, <3>2, Zenon DEF Answered
    <3>. QED BY <3>3, PhaseValues, Zenon
  <2>. QED BY <1>13, <2>1 DEF Answered, Phases, Abstract!Answer, Abstract!Advance
<1>14. ASSUME NEW c \in Client, Moved(c, "TLSServerHello", "TLSDefault")
       PROVE  Abstract!Relay(c)
  <2>1. Phases[c] = "handshaking" /\ Phases' = [Phases EXCEPT ![c] = "relaying"]
    <3>1. "TLSServerHello" \in FlowState /\ "TLSDefault" \in FlowState
      BY DEF FlowState, Flow
    <3>2. /\ Phases[c] = PhaseOf("TLSServerHello", awaiting[c])
          /\ Phases' = [Phases EXCEPT ![c] = PhaseOf("TLSDefault", awaiting[c])]
      BY <1>9, <1>14, <3>1, Zenon
    <3>. QED BY <1>2, <3>2, PhaseValues, Zenon
  <2>. QED BY <1>14, <2>1 DEF Moved, Phases, Abstract!Relay, Abstract!Advance
<1>15. ASSUME NEW c \in Client, Released(c)
       PROVE  Abstract!Release(c)
  <2>1. Phases[c] = "relaying" /\ Phases' = [Phases EXCEPT ![c] = "over"]
    <3>1. "TLSDefault" \in FlowState /\ "gone" \in FlowState
      BY DEF FlowState, Flow
    <3>2. /\ Phases[c] = PhaseOf("TLSDefault", awaiting[c])
          /\ Phases' = [Phases EXCEPT ![c] = PhaseOf("gone", awaiting[c])]
      BY <1>6, <1>15, <3>1, Zenon DEF Released
    <3>. QED BY <1>2, <3>2, PhaseValues, Zenon
  <2>. QED BY <1>15, <2>1 DEF Released, Phases, Abstract!Release, Abstract!Advance
<1>. QED BY <1>3, <1>7, <1>8, <1>11, <1>12, <1>13, <1>14, <1>15 DEF Effect, Abstract!Next

-----------------------------------------------------------------------------

\* Whatever the interleaving and whichever calls fail, every conversation goes
\* through the life of Lifecycle: in order, once, with descriptors of its own.
THEOREM LoopRefinesLifecycle == Spec => RefinesLifecycle
<1>1. Init => Orderly /\ Abstract!Init
  BY InitOrderly, InitMaps
<1>2. IInv /\ Orderly /\ [Next]_vars => Orderly' /\ [Abstract!Next]_(Abstract!vars)
  BY StepEffect, OrderlyPreserved, EffectMaps
<1>. QED BY <1>1, <1>2, Invariance, PTL DEF Spec, RefinesLifecycle, Abstract!Spec
=============================================================================
