-------------------------------- MODULE Capture --------------------------------
(***************************************************************************)
(* Capture mode: the packets the proxy invents for what it reads, as if it *)
(* were the server.  A conversation gets endpoints and a TCP handshake when *)
(* it is accepted; each read is a packet and its acknowledgment, each SOCKS *)
(* reply too, and the end of a stream is a FIN exchange.  Only the numbers  *)
(* and addresses of a packet are kept; the file is split by conversation.   *)
(* The flows appear as the stage they leave the conversation in.            *)
(***************************************************************************)
EXTENDS Integers, Sequences, FiniteSets, SequencesExt

CONSTANTS
  Conversation,
  SeqModulus, IpModulus, PortModulus,   \* 2^32, 2^32 and 2^16 in the code
  MaxBytes,    \* bytes each peer sends (a model bound)
  MaxRead,     \* bytes one read returns at most
  MaxEnds      \* reads that find the end of a peer's stream (a model bound)

ASSUME ModulusAssumption ==
  SeqModulus \in Nat \ {0, 1} /\ {IpModulus, PortModulus} \subseteq Nat \ {0}
ASSUME BoundsAssumption == {MaxBytes, MaxRead, MaxEnds} \subseteq Nat \ {0}

Side == {"client", "server"}
Other(s) == IF s = "client" THEN "server" ELSE "client"

VARIABLES
  pipelinesCount,
  count,      \* the value of pipelinesCount a conversation was created with
  stage,
  pcap,       \* m_clientPCAPData and m_serverPCAPData: their two numbers
  kept,       \* bytes in m_buffer of each connection
  got,        \* bytes read from each peer
  ends,       \* reads that found the end of a peer's stream
  log         \* the packets written for a conversation

vars == <<pipelinesCount, count, stage, pcap, kept, got, ends, log>>

Stage == {"new", "greeting", "request", "connecting", "clientHello", "serverHello",
          "relay", "over"}

\* The connections a flow reads; the relay reads the one that has the event.
Reads(s) ==
  CASE s \in {"greeting", "request", "clientHello"} -> {"client"}
    [] s = "serverHello" -> {"server"}
    [] s = "relay" -> Side
    [] OTHER -> {}

-----------------------------------------------------------------------------
(* PCAPGenerator. *)

GenerateNewPipelineEndpoints(n) ==
  [server |-> [ip |-> (185273099 + 11 * n) % IpModulus, port |-> 1080 % PortModulus],
   client |-> [ip |-> (370546198 + 11 * n) % IpModulus, port |-> (39510 + n) % PortModulus]]

\* A packet whose IP header says it is from one side; its TCP header may say
\* another.  first .. last are the bytes of the peer's stream it carries.
Packet(c, ip, tcp, flags, numbers, len, first, last) ==
  LET e == GenerateNewPipelineEndpoints(count'[c])
  IN [sip |-> e[ip].ip, dip |-> e[Other(ip)].ip,
      sport |-> e[tcp].port, dport |-> e[Other(tcp)].port,
      from |-> tcp, flags |-> flags, seq |-> numbers.seq, ack |-> numbers.ack,
      len |-> len, first |-> first, last |-> last]

Control(c, ip, tcp, flags, numbers) == Packet(c, ip, tcp, flags, numbers, 0, 1, 0)

\* The SYNACK has the server's address where its port belongs.
Generate3WayTCPHandshake(c) ==
  LET server == GenerateNewPipelineEndpoints(count'[c])["server"]
  IN << Control(c, "client", "client", "SYN", [seq |-> 0, ack |-> 0]),
        [Control(c, "server", "server", "SYNACK", [seq |-> 0, ack |-> 1])
           EXCEPT !.sport = server.ip % PortModulus],
        Control(c, "client", "client", "ACK", [seq |-> 1, ack |-> 1]) >>

\* The numbers of one conversation with the packets written so far.
Log(c) == [numbers |-> pcap[c], packets |-> log[c]]

\* For the mutation runs: the recipient's number stays, or nothing wraps around.
AdvanceSenderOnly(numbers, s, len) ==
  [numbers EXCEPT ![s].seq = (@ + len) % SeqModulus]
AdvanceUnbounded(numbers, s, len) ==
  [numbers EXCEPT ![s].seq = @ + len, ![Other(s)].ack = @ + len]
\* GenerateTCPHeader moves the sender's sequence number and the recipient's
\* acknowledgment number.
Advance(numbers, s, len) ==
  [numbers EXCEPT ![s].seq = (@ + len) % SeqModulus, ![Other(s)].ack = (@ + len) % SeqModulus]

\* CaptureData with Packet | ACK: len bytes from s, acknowledged by the other side.
CapturePacket(l, c, s, len, first, last) ==
  LET moved == Advance(l.numbers, s, len)
  IN [numbers |-> moved,
      packets |-> l.packets \o
        << Packet(c, s, s, "PSHACK", l.numbers[s], len, first, last),
           Control(c, Other(s), Other(s), "ACK", moved[Other(s)]) >>]

\* CaptureData with FINACK: the IP header is the other way round than the ports.
CaptureFinAck(l, c, s) ==
  [l EXCEPT !.packets = @ \o
     << Control(c, Other(s), s, "FIN", l.numbers[s]),
        Control(c, s, Other(s), "FINACK", l.numbers[Other(s)]),
        Control(c, Other(s), s, "ACK", l.numbers[s]) >>]

-----------------------------------------------------------------------------
(* SocketCapturingConversationManager and SocketCapturingConnection. *)

Both(v) == [s \in Side |-> v]

Init ==
  /\ pipelinesCount = 0
  /\ count = [c \in Conversation |-> 0]
  /\ stage = [c \in Conversation |-> "new"]
  /\ pcap = [c \in Conversation |-> Both([seq |-> 1, ack |-> 1])]
  /\ kept = [c \in Conversation |-> Both(0)]
  /\ got = [c \in Conversation |-> Both(0)]
  /\ ends = [c \in Conversation |-> Both(0)]
  /\ log = [c \in Conversation |-> <<>>]

\* For the mutation runs: every conversation gets the same endpoints.
SameEndpoints(n) == n
NextCount(n) == n + 1

AddNewPipeline(c) ==
  /\ stage[c] = "new"
  /\ pipelinesCount' = NextCount(pipelinesCount)
  /\ count' = [count EXCEPT ![c] = pipelinesCount]
  /\ stage' = [stage EXCEPT ![c] = "greeting"]
  /\ log' = [log EXCEPT ![c] = Generate3WayTCPHandshake(c)]
  /\ UNCHANGED <<pcap, kept, got, ends>>

Store(c, l) ==
  /\ pcap' = [pcap EXCEPT ![c] = l.numbers]
  /\ log' = [log EXCEPT ![c] = l.packets]

\* A SOCKS reply of n bytes that SendDataTo sent: a packet from the server.
Replied(l, c, n) == CapturePacket(l, c, "server", n, 1, 0)

\* What a flow makes of the read that l has recorded and k bytes it left in the
\* buffers: it waits for more, or goes on and clears them.
Waits(c, l, k) ==
  /\ Store(c, l)
  /\ kept' = [kept EXCEPT ![c] = k]
  /\ UNCHANGED stage

GoesOn(c, l, state) ==
  /\ Store(c, l)
  /\ kept' = [kept EXCEPT ![c] = Both(0)]
  /\ stage' = [stage EXCEPT ![c] = state]

Outcome(c, l, k) ==
  \/ Waits(c, l, k)
  \/ /\ stage[c] = "greeting" /\ k["client"] > 0
     /\ GoesOn(c, Replied(l, c, 2), "request")
  \/ /\ stage[c] = "request" /\ k["client"] > 0
     /\ Store(c, l) /\ kept' = [kept EXCEPT ![c] = k]
     /\ stage' = [stage EXCEPT ![c] = "connecting"]
  \/ /\ stage[c] = "clientHello"
     /\ \/ GoesOn(c, l, "clientHello")
        \/ k["client"] > 0 /\ GoesOn(c, l, "serverHello")
  \/ /\ stage[c] = "serverHello"
     /\ \/ GoesOn(c, l, "serverHello")
        \/ GoesOn(c, l, "relay")
        \* What a cut record lacked is taken before it waits, or fails to send.
        \/ \E j \in 0 .. k["server"] : Waits(c, l, [k EXCEPT !["server"] = j])
  \/ /\ stage[c] = "relay"
     /\ GoesOn(c, l, "relay")

\* For the mutation runs: what this read added is left out.
BufferBeforeRead(c, s, n) ==
  CapturePacket(Log(c), c, s, kept[c][s], got[c][s] - kept[c][s] + 1, got[c][s])
\* ReadData records the whole buffer, with what earlier reads left in it.
CaptureBuffer(c, s, n) ==
  CapturePacket(Log(c), c, s, kept[c][s] + n, got[c][s] - kept[c][s] + 1, got[c][s] + n)

ReadData(c, s) ==
  /\ s \in Reads(stage[c])
  /\ ends[c][s] = 0
  /\ \E n \in 1 .. MaxRead :
       /\ got[c][s] + n <= MaxBytes
       /\ got' = [got EXCEPT ![c][s] = @ + n]
       /\ UNCHANGED <<pipelinesCount, count, ends>>
       /\ Outcome(c, CaptureBuffer(c, s, n), [kept[c] EXCEPT ![s] = @ + n])

\* The end of a stream is recorded in every stage; only the relay ends with it.
ReadEnds(c, s) ==
  /\ s \in Reads(stage[c])
  /\ ends[c][s] < MaxEnds
  /\ ends' = [ends EXCEPT ![c][s] = @ + 1]
  /\ UNCHANGED <<pipelinesCount, count, got>>
  /\ LET l == CaptureFinAck(Log(c), c, s)
     IN \/ /\ stage[c] = "relay"
           /\ Store(c, l)
           /\ stage' = [stage EXCEPT ![c] = "over"]
           /\ UNCHANGED kept
        \/ /\ stage[c] # "relay"
           /\ Outcome(c, l, kept[c])

\* The reply to the connection request repeats the request.
SendReply(c) ==
  /\ stage[c] = "connecting"
  /\ UNCHANGED <<pipelinesCount, count, got, ends>>
  /\ GoesOn(c, Replied(Log(c), c, kept[c]["client"]), "clientHello")

Next == \E c \in Conversation :
          \/ AddNewPipeline(c)
          \/ SendReply(c)
          \/ \E s \in Side : ReadData(c, s) \/ ReadEnds(c, s)

Spec == Init /\ [][Next]_vars

-----------------------------------------------------------------------------
(* Properties. *)

TypeOK ==
  /\ pipelinesCount \in Nat /\ count \in [Conversation -> Nat]
  /\ stage \in [Conversation -> Stage]
  /\ pcap \in [Conversation ->
                 [Side -> [seq : 0 .. SeqModulus - 1, ack : 0 .. SeqModulus - 1]]]
  /\ kept \in [Conversation -> [Side -> 0 .. MaxBytes]]
  /\ got \in [Conversation -> [Side -> 0 .. MaxBytes]]
  /\ ends \in [Conversation -> [Side -> 0 .. MaxEnds]]

\* The number the next packet from the same side has to have.
SequenceAfter(p) ==
  (p.seq + p.len + (IF p.flags \in {"SYN", "SYNACK"} THEN 1 ELSE 0)) % SeqModulus

\* Packet j is the last one from its side before packet i.
LastFromItsSide(packets, j, i) ==
  \A k \in j + 1 .. i - 1 : packets[k].from # packets[j].from

Follows(packets) ==
  \A i \in 4 .. Len(packets) : \A j \in 1 .. i - 1 :
    LastFromItsSide(packets, j, i) =>
      SequenceAfter(packets[j]) =
        IF packets[i].from = packets[j].from THEN packets[i].seq ELSE packets[i].ack

\* A reader of the file can follow both directions of every conversation: each
\* packet after the handshake starts where the last one from the same side ended,
\* and acknowledges exactly what the other side had sent by then.
NumbersFollow == \A c \in Conversation : Follows(log[c])

\* Every byte that was read from a peer is in the file, in a packet from that peer,
\* whatever stage and however many pieces it came in.
NothingMissing ==
  \A c \in Conversation, s \in Side :
    LET P == {p \in Range(log[c]) : p.from = s}
    IN UNION {p.first .. p.last : p \in P} = 1 .. got[c][s]

Addresses(p) == {<<p.sip, p.sport>>, <<p.dip, p.dport>>}

\* No packet of one conversation has the two endpoints of a packet of another, so
\* that conversations can be told apart, though ports and addresses wrap around.
ConversationsApart ==
  \A c, d \in Conversation : c # d =>
    {Addresses(p) : p \in Range(log[c])} \cap {Addresses(p) : p \in Range(log[d])} = {}
=============================================================================
