-------------------------------- MODULE Peers --------------------------------
(***************************************************************************)
(* What the flows of one conversation have in common: the two peers and    *)
(* the network between them and the proxy, the connections' buffers, and   *)
(* what read and send do.  The peers follow a script of flights, the       *)
(* network cuts each flight as it likes, and a transaction handles one     *)
(* read.  A read that returns nothing changes none of this (ProxyLoop has  *)
(* those, and the end of the conversation).                                *)
(***************************************************************************)
EXTENDS ByteStreams, SequencesExt, FiniteSetsExt

CONSTANTS
  Scripts,    \* the exchanges the peers may have, see script
  ReadSize    \* bytes one recv returns at most

ASSUME ReadSizeAssumption == ReadSize \in Nat \ {0}

Side == {"client", "server"}

\* What an exchange is made of, see script; no flight is longer than its stream.
ASSUME ScriptsAssumption ==
  \A sc \in Scripts :
    /\ \A s \in Side : sc[s] \in Bytes
    /\ sc.host \in Bytes
    /\ \A k \in DOMAIN sc.flights :
         LET f == sc.flights[k]
         IN /\ f.from \in Side /\ f.end \in 0 .. Len(sc[f.from])
            /\ f.reply \in Nat /\ f.content \in Nat

Other(s) == IF s = "client" THEN "server" ELSE "client"
SOCKS5Flow == {"SOCKS5ClientHello", "SOCKS5ConnectionRequest"}
TLSFlow == {"TLSClientHello", "TLSServerHello", "TLSDefault"}

VARIABLES
  script,     \* the exchange: what each peer sends, the flights it is cut into,
              \* where reads may end and what may happen to sends
  got,        \* how many bytes of each peer the proxy has read
  reported,   \* how many bytes of the client may have been there when epoll last
              \* reported it: edge-triggered, it does not report them again
  flow,       \* m_conversationFlow
  buffer,     \* Connection::m_buffer of each side
  replies,    \* the SOCKS5 bytes sent to the client
  sentTo      \* the TLS bytes sent to each peer

connections == <<script, got, reported, flow, buffer, replies, sentTo>>

ConnectionsInit ==
  /\ script \in Scripts
  /\ got = [s \in Side |-> 0]
  /\ reported = 0
  /\ flow = "SOCKS5ClientHello"
  /\ buffer = [s \in Side |-> <<>>]
  /\ replies = <<>>
  /\ sentTo = [s \in Side |-> <<>>]

-----------------------------------------------------------------------------
(* The peers.  A flight is what one of them sends in one go; it starts when  *)
(* the first "after" flights have arrived in full at the peers they are for, *)
(* and the client has had "reply" bytes of SOCKS5 replies.                   *)

Stream(s) == script[s]

Delivered(k) ==
  LET f == script.flights[k]
  IN Cardinality(ContentPlaces(sentTo[Other(f.from)])) >= f.content

Started(f) == Len(replies) >= f.reply /\ \A k \in 1 .. f.after : Delivered(k)

\* How many bytes of peer s are on their way to the proxy, or there.
Arrived(s) ==
  LET started == {f \in Range(script.flights) : f.from = s /\ Started(f)}
  IN IF started = {} THEN 0 ELSE Max({f.end : f \in started})

\* Where a read may end: the network cuts SOCKS5 anywhere, the hello flows at
\* record ends unless the script says "anywhere", and the relayed data anywhere
\* unless it says "records".
MayEnd(s, n) ==
  \/ flow \in SOCKS5Flow
  \/ script.cuts = "anywhere"
  \/ script.cuts = "hello" /\ flow = "TLSDefault"
  \/ n \in script.ends[s]

\* What one recv from s may return.
Chunks(s) ==
  LET last == Min({Arrived(s), got[s] + ReadSize})
  IN { SubSeq(Stream(s), got[s] + 1, n) : n \in {m \in got[s] + 1 .. last : MayEnd(s, m)} }

-----------------------------------------------------------------------------
(* What a transaction does with the connections. *)

\* A read that is not full leaves nothing there.  The server's hello flow reads the
\* server on an event of the client, too, and that event is gone.
ReportedAfter(s, chunk) ==
  IF s = "server" /\ flow # "TLSServerHello" THEN reported
  ELSE IF s = "client" /\ Len(chunk) < ReadSize THEN 0
  ELSE Arrived("client")

Read(s, chunk) ==
  /\ got' = [got EXCEPT ![s] = @ + Len(chunk)]
  /\ reported' = ReportedAfter(s, chunk)

\* epoll reports what can be read: the server as long as it has bytes, the client when
\* more of them arrive.  The client's hello flow reads the client on events of the
\* server, too, which is always writable.
IsReported(s) ==
  s = "client" => flow = "TLSClientHello" \/ Arrived("client") > reported

\* For the mutation runs: what is kept is lost.
LosesBuffer(s, d) == buffer' = [buffer EXCEPT ![s] = <<>>]
\* The transaction returns without clearing the buffer of s.
Keep(s, d) == buffer' = [buffer EXCEPT ![s] = d]

BuffersCleared == buffer' = [s \in Side |-> <<>>]

\* What the kernel takes of one send: all, or half of it when the script has short
\* writes.  The code does not look at the count.
Accepted(d) ==
  IF script.sends = "short" THEN {d, SubSeq(d, 1, (Len(d) + 1) \div 2)} ELSE {d}

Send(s, d) ==
  /\ \E taken \in Accepted(d) : sentTo' = [sentTo EXCEPT ![s] = @ \o taken]
  /\ UNCHANGED replies

Reply(d) ==
  /\ \E taken \in Accepted(d) : replies' = replies \o taken
  /\ UNCHANGED sentTo

NoSend == UNCHANGED <<sentTo, replies>>

\* send fails with EWOULDBLOCK: the socket's send buffer is full.
Refused == script.sends = "refused" /\ NoSend
=============================================================================
