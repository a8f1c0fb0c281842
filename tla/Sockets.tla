------------------------------- MODULE Sockets -------------------------------
(***************************************************************************)
(* One stream socket as the proxy sees it, and what SocketConnection makes *)
(* of recv and send.  Bytes are counted in chunks: one chunk is what one   *)
(* recv of the 2048-byte stack buffer takes (SocketConnection.cpp:14-17).  *)
(* There are no variables here: the operators take a socket and the        *)
(* thread's errno and return the outcome with the new socket and errno.    *)
(***************************************************************************)
EXTENDS Naturals

CONSTANTS
  MaxRx,   \* chunks the receive queue of one socket may hold (a model bound)
  Faults   \* the calls that may fail, and what peers may do, in this instance

FaultKinds == {"getaddrinfo", "epoll_ctl", "connect", "send", "reset", "refused"}

ASSUME MaxRxAssumption == MaxRx \in Nat \ {0}
ASSUME FaultsAssumption == Faults \subseteq FaultKinds

\* "failed": a reset, refused or shut down socket; its error is reported once.
Socket == [link : {"closed", "connecting", "connected", "failed"},
           rx : 0 .. MaxRx, eof : BOOLEAN, err : BOOLEAN]

\* errno is one cell for the whole thread; a call that succeeds leaves it alone.
Errno == {"EWOULDBLOCK", "other"}

ClosedSocket     == [link |-> "closed", rx |-> 0, eof |-> FALSE, err |-> FALSE]
ConnectingSocket == [ClosedSocket EXCEPT !.link = "connecting"]
DeadSocket       == [ClosedSocket EXCEPT !.link = "failed"]

\* What accept may return: the peer may have sent and even closed already.
AcceptedSocket == {s \in Socket : s.link = "connected" /\ ~s.err}

IsOpen(s) == s.link # "closed"

\* EPOLLIN: recv would not return EWOULDBLOCK.
Readable(s) == s.rx > 0 \/ s.eof \/ s.link = "failed"

\* EPOLLIN | EPOLLOUT | EPOLLERR of a settled socket.  A socket in SYN_SENT
\* reports nothing; an idle connected one is writable.
ReadyForServerEvents(s) == s.link \in {"connected", "failed"}

-----------------------------------------------------------------------------
(* recv: data before a pending error, end of file after both. *)

RecvResult == {"data", "zero", "error"}

Recv(s, errno) ==
  CASE s.rx > 0 -> [result |-> "data", sock |-> [s EXCEPT !.rx = @ - 1], errno |-> errno]
    [] s.rx = 0 /\ s.eof -> [result |-> "zero", sock |-> s, errno |-> errno]
    [] s.rx = 0 /\ ~s.eof /\ s.err ->
         [result |-> "error", sock |-> [s EXCEPT !.err = FALSE], errno |-> "other"]
    [] s.rx = 0 /\ ~s.eof /\ ~s.err /\ s.link = "failed" ->
         [result |-> "zero", sock |-> s, errno |-> errno]
    [] OTHER -> [result |-> "error", sock |-> s, errno |-> "EWOULDBLOCK"]

ReadStatus == {"Success", "DataTransferEnded", "Failed"}

\* For the mutation runs: "would block" ends the transfer as well.
EndsWhenEmpty(s, errno) ==
  LET r == Recv(s, errno) IN
  [ status |-> CASE r.result = "data" -> "Success"
                 [] r.result # "data" -> IF r.errno = "EWOULDBLOCK"
                                         THEN "DataTransferEnded" ELSE "Failed",
    sock  |-> r.sock,
    errno |-> r.errno ]

\* ReadData: recv of 0 is the end of the transfer only when errno, which recv
\* did not touch, happens to hold EWOULDBLOCK from an earlier call.
ReadData(s, errno) ==
  LET r == Recv(s, errno) IN
  [ status |-> CASE r.result = "data"  -> "Success"
                 [] r.result = "error" -> "Failed"
                 [] r.result = "zero"  -> IF r.errno = "EWOULDBLOCK"
                                          THEN "DataTransferEnded" ELSE "Failed",
    sock  |-> r.sock,
    errno |-> r.errno ]

-----------------------------------------------------------------------------
(* send: the set of outcomes.  A connected socket takes the data, or its    *)
(* send buffer is full ("send" in Faults); the count it returns is ignored. *)

SendFailed(s, errno) == [ok |-> FALSE, sock |-> s, errno |-> errno]

SendData(s, errno) ==
  CASE s.link = "connected" ->
         {[ok |-> TRUE, sock |-> s, errno |-> errno]} \cup
         (IF "send" \in Faults THEN {SendFailed(s, "EWOULDBLOCK")} ELSE {})
    [] s.link = "connecting" -> {SendFailed(s, "EWOULDBLOCK")}
    [] OTHER -> {SendFailed([s EXCEPT !.err = FALSE], "other")}
=============================================================================
