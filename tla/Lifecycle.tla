------------------------------- MODULE Lifecycle -------------------------------
(***************************************************************************)
(* What the event loop promises about conversations, without its map, its  *)
(* epoll registrations, its batches and its sockets: each conversation     *)
(* goes through its phases once and in order, takes its client's           *)
(* descriptor first and its server's later, only takes descriptors nobody  *)
(* holds, and gives both back together at its end.  ProxyLoop implements   *)
(* it (RefinesLifecycle there).                                            *)
(***************************************************************************)
CONSTANTS Client, Fd, NoFd   \* NoFd is none of Fd

VARIABLES
  phase,
  clientFd, serverFd,   \* the descriptors a conversation holds
  running               \* the process is there

vars == <<phase, clientFd, serverFd, running>>

Phase == {"new", "negotiating", "connecting", "handshaking", "relaying", "over"}

\* The phases in which a conversation has a server.
Served == {"connecting", "handshaking", "relaying"}

Init ==
  /\ phase = [c \in Client |-> "new"]
  /\ clientFd = [c \in Client |-> NoFd]
  /\ serverFd = [c \in Client |-> NoFd]
  /\ running = TRUE

Held == {clientFd[c] : c \in Client} \cup {serverFd[c] : c \in Client}

Advance(c, from, to) ==
  /\ running
  /\ phase[c] = from
  /\ phase' = [phase EXCEPT ![c] = to]

\* The process may end in the step that registers or unregisters descriptors.
Accept(c) ==
  /\ Advance(c, "new", "negotiating")
  /\ \E f \in Fd \ Held : clientFd' = [clientFd EXCEPT ![c] = f]
  /\ running' \in BOOLEAN
  /\ UNCHANGED serverFd

Connect(c) ==
  /\ Advance(c, "negotiating", "connecting")
  /\ \E f \in Fd \ Held : serverFd' = [serverFd EXCEPT ![c] = f]
  /\ UNCHANGED <<clientFd, running>>

Answer(c) ==
  /\ Advance(c, "connecting", "handshaking")
  /\ UNCHANGED <<clientFd, serverFd, running>>

Relay(c) ==
  /\ Advance(c, "handshaking", "relaying")
  /\ UNCHANGED <<clientFd, serverFd, running>>

Release(c) ==
  /\ Advance(c, "relaying", "over")
  /\ clientFd' = [clientFd EXCEPT ![c] = NoFd]
  /\ serverFd' = [serverFd EXCEPT ![c] = NoFd]
  /\ running' \in BOOLEAN

Stop ==
  /\ running /\ running' = FALSE
  /\ UNCHANGED <<phase, clientFd, serverFd>>

Next ==
  \/ \E c \in Client : Accept(c) \/ Connect(c) \/ Answer(c) \/ Relay(c) \/ Release(c)
  \/ Stop

Spec == Init /\ [][Next]_vars

-----------------------------------------------------------------------------
(* Properties. *)

TypeOK ==
  /\ phase \in [Client -> Phase]
  /\ clientFd \in [Client -> Fd \cup {NoFd}]
  /\ serverFd \in [Client -> Fd \cup {NoFd}]
  /\ running \in BOOLEAN

\* A conversation holds a client's descriptor exactly while it lives and a
\* server's exactly while it has a server, and no descriptor is held twice.
Exclusive ==
  /\ \A c \in Client :
       /\ clientFd[c] \in Fd <=> phase[c] \notin {"new", "over"}
       /\ serverFd[c] \in Fd <=> phase[c] \in Served
       /\ clientFd[c] = serverFd[c] => clientFd[c] = NoFd
  /\ \A c, d \in Client :
       c # d => {clientFd[c], serverFd[c]} \cap {clientFd[d], serverFd[d]} \subseteq {NoFd}
=============================================================================
