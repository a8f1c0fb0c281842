------------------------ MODULE ConversationProofs -------------------------
(***************************************************************************)
(* Type correctness of a relayed conversation; whole records never end the *)
(* process and are relayed as such, the request of a polite client is      *)
(* served, and what a peer sends is relayed in order, or held.  For any    *)
(* scripts.                                                                *)
(***************************************************************************)
EXTENDS Conversation, TLSParserProofs, FiniteSetTheorems

-----------------------------------------------------------------------------
(* What a read returns. *)

\* The next bytes of s, up to its n-th one, which has arrived.
NextBytes(s, n, chunk) ==
  /\ n \in Nat /\ got[s] < n /\ n <= Len(Stream(s)) /\ n <= Arrived(s) /\ MayEnd(s, n)
  /\ chunk = SubSeq(Stream(s), got[s] + 1, n)

PeersOK ==
  /\ script \in Scripts
  /\ got \in [Side -> Nat] /\ \A s \in Side : got[s] <= Len(Stream(s))
  /\ reported \in 0 .. Len(Stream("client"))

\* The streams of both sides are bytes.
LEMMA StreamType ==
  ASSUME PeersOK, NEW s \in Side
  PROVE  Stream(s) \in Bytes /\ Len(Stream(s)) \in Nat /\ script.host \in Bytes
BY ScriptsAssumption, LengthType DEF PeersOK, Stream

\* What has arrived is the end of a flight that has started.
LEMMA ArrivedIs ==
  ASSUME PeersOK, NEW s \in Side
  PROVE  /\ Arrived(s) \in 0 .. Len(Stream(s))
         /\ \/ Arrived(s) = 0
            \/ \E k \in DOMAIN script.flights :
                 LET f == script.flights[k]
                 IN f.from = s /\ Started(f) /\ Arrived(s) = f.end
<1>. DEFINE started == {f \in Range(script.flights) : f.from = s /\ Started(f)}
            E == {f.end : f \in started}
            L == Len(Stream(s))
            T == {L - x : x \in E}
<1>1. L \in Nat
  BY StreamType
<1>2. \A f \in started : f.end \in 0 .. L
  BY ScriptsAssumption DEF PeersOK, Stream, Range
<1>3. Arrived(s) = IF started = {} THEN 0 ELSE Max(E)
  BY DEF Arrived
<1>. HIDE DEF started, L
<1>4. E \subseteq 0 .. L
  BY <1>2
<1>5. CASE started = {}
  <2>1. Arrived(s) = 0
    BY <1>3, <1>5
  <2>. QED BY <1>1, <2>1 DEF L
<1>6. CASE started # {}
  <2>1. E # {}
    BY <1>6
  <2>. HIDE DEF E
  <2>2. T \subseteq Nat /\ T # {}
    <3>1. \A x \in E : L - x \in Nat
      BY <1>1, <1>4
    <3>. QED BY <2>1, <3>1
  <2>3. PICK t \in T : \A y \in T : t <= y
    <3>. HIDE DEF T
    <3>. QED BY <2>2, LeastNatural
  <2>4. PICK m \in E : t = L - m
    OBVIOUS
  <2>5. ASSUME NEW x \in E PROVE m >= x
    <3>1. t <= L - x
      BY <2>3
    <3>2. x \in Nat /\ m \in Nat
      BY <1>1, <1>4
    <3>. QED BY <1>1, <2>4, <3>1, <3>2
  <2>6. Max(E) \in E
    BY <2>5 DEF Max
  <2>7. Arrived(s) \in E
    BY <1>3, <1>6, <2>6
  <2>8. PICK f \in started : Arrived(s) = f.end
    BY <2>7 DEF E
  <2>9. f \in Range(script.flights) /\ f.from = s /\ Started(f)
    BY DEF started
  <2>10. PICK k \in DOMAIN script.flights : f = script.flights[k]
    BY <2>9 DEF Range
  <2>. QED BY <1>4, <2>7, <2>8, <2>9, <2>10 DEF L
<1>. QED BY <1>5, <1>6

\* What a read returns is what the stream has next.
LEMMA ChunkIs ==
  ASSUME PeersOK, NEW s \in Side, NEW chunk \in Chunks(s)
  PROVE  \E n \in Nat : NextBytes(s, n, chunk)
<1>. DEFINE a == Arrived(s)
            b == got[s] + ReadSize
            last == Min({a, b})
<1>1. a \in Nat /\ b \in Nat /\ got[s] \in Nat /\ a <= Len(Stream(s)) /\ Len(Stream(s)) \in Nat
  BY ArrivedIs, StreamType, ReadSizeAssumption DEF PeersOK
<1>2. last <= a /\ last \in {a, b}
  <2>. HIDE DEF a, b
  <2>. QED BY <1>1 DEF Min
<1>3. PICK n \in got[s] + 1 .. last : MayEnd(s, n) /\ chunk = SubSeq(Stream(s), got[s] + 1, n)
  BY DEF Chunks
<1>. HIDE DEF a, b, last
<1>4. n \in Nat /\ got[s] < n /\ n <= a /\ n <= Len(Stream(s))
  BY <1>1, <1>2
<1>. QED BY <1>3, <1>4 DEF NextBytes, a

\* A read takes the next bytes of the stream and moves got behind them.
LEMMA ReadIs ==
  ASSUME PeersOK, NEW s \in Side, NEW n, NEW chunk, NextBytes(s, n, chunk)
  PROVE  /\ chunk \in Bytes /\ Len(chunk) = n - got[s]
         /\ Read(s, chunk) => got' = [got EXCEPT ![s] = n]
<1>1. got[s] \in Nat /\ n \in Nat /\ got[s] < n /\ Stream(s) \in Bytes /\ n <= Len(Stream(s))
  BY StreamType DEF NextBytes, PeersOK
<1>2. chunk \in Bytes /\ Len(chunk) = n - got[s]
  BY <1>1, PieceType DEF NextBytes
<1>3. got[s] + Len(chunk) = n
  BY <1>1, <1>2
<1>. QED BY <1>2, <1>3 DEF Read

\* Two pieces of a stream, one behind the other.
LEMMA PieceJoin ==
  ASSUME NEW d \in Bytes, NEW k \in Nat, NEW g \in Nat, NEW n \in Nat, k <= g, g <= n, n <= Len(d)
  PROVE  SubSeq(d, k + 1, g) \o SubSeq(d, g + 1, n) = SubSeq(d, k + 1, n)
<1>. DEFINE a == SubSeq(d, k + 1, g)
            b == SubSeq(d, g + 1, n)
            c == SubSeq(d, k + 1, n)
            ab == a \o b
<1>0. g <= Len(d) /\ k <= n
  BY LengthType
<1>1. a \in Bytes /\ Len(a) = g - k /\ \A i \in 1 .. g - k : a[i] = d[k + i]
  BY <1>0, PieceType
<1>2. b \in Bytes /\ Len(b) = n - g /\ \A i \in 1 .. n - g : b[i] = d[g + i]
  BY <1>0, PieceType
<1>3. c \in Bytes /\ Len(c) = n - k /\ \A i \in 1 .. n - k : c[i] = d[k + i]
  BY <1>0, PieceType
<1>. HIDE DEF a, b, c
<1>4. /\ ab \in Bytes /\ Len(ab) = Len(a) + Len(b)
      /\ \A i \in 1 .. Len(a) : ab[i] = a[i]
      /\ \A i \in 1 .. Len(b) : ab[Len(a) + i] = b[i]
  BY <1>1, <1>2, JoinType
<1>. HIDE DEF ab
<1>5. ASSUME NEW i \in 1 .. Len(c) PROVE ab[i] = c[i]
  <2>1. CASE i <= g - k
    BY <1>1, <1>3, <1>4, <2>1
  <2>2. CASE ~(i <= g - k)
    <3>. DEFINE j == i - (g - k)
    <3>1. j \in 1 .. n - g /\ (g - k) + j = i /\ g + j = k + i
      BY <1>3, <2>2
    <3>. HIDE DEF j
    <3>. QED BY <1>1, <1>2, <1>3, <1>4, <3>1
  <2>. QED BY <2>1, <2>2
<1>6. Len(ab) = Len(c)
  BY <1>1, <1>2, <1>3, <1>4
<1>7. ab = c
  BY <1>3, <1>4, <1>5, <1>6, SameBytes
<1>. QED BY <1>7 DEF ab, a, b, c

\* What a connection holds and what it reads next.
LEMMA HeldAndRead ==
  ASSUME PeersOK, NEW s \in Side, NEW n, NEW chunk, NextBytes(s, n, chunk),
         NEW k \in Nat, k <= got[s], buffer[s] = SubSeq(Stream(s), k + 1, got[s])
  PROVE  buffer[s] \o chunk = SubSeq(Stream(s), k + 1, n)
<1>1. Stream(s) \in Bytes /\ got[s] \in Nat /\ got[s] <= n /\ n \in Nat /\ n <= Len(Stream(s))
  BY StreamType DEF NextBytes, PeersOK
<1>2. SubSeq(Stream(s), k + 1, got[s]) \o SubSeq(Stream(s), got[s] + 1, n) = SubSeq(Stream(s), k + 1, n)
  BY <1>1, PieceJoin
<1>. QED BY <1>2 DEF NextBytes

\* The proxy holds what it has read of s behind its k-th byte.
HeldBehind(s, k) ==
  k \in Nat /\ k <= got[s] /\ buffer[s] = SubSeq(Stream(s), k + 1, got[s])

LEMMA HeldThenRead ==
  ASSUME PeersOK, NEW s \in Side, NEW n, NEW chunk, NextBytes(s, n, chunk),
         NEW k, HeldBehind(s, k)
  PROVE  buffer[s] \o chunk = SubSeq(Stream(s), k + 1, n)
  BY HeldAndRead DEF HeldBehind

-----------------------------------------------------------------------------
(* The types of the variables. *)

TInv ==
  /\ PeersOK
  /\ flow \in SOCKS5Flow \cup TLSFlow
  /\ buffer \in [Side -> Bytes]
  /\ sentTo \in [Side -> Bytes]
  /\ replies \in Bytes /\ host \in Bytes /\ payload \in Bytes
  /\ waiting \in BOOLEAN
  /\ expected \in Nat
  /\ crashed \in BOOLEAN

\* What a socket accepts is bytes, all that it is sent unless sends are short.
LEMMA AcceptedType ==
  ASSUME NEW d \in Bytes
  PROVE  Accepted(d) \subseteq Bytes /\ (script.sends # "short" => Accepted(d) = {d})
<1>. DEFINE n == (Len(d) + 1) \div 2
<1>1. Len(d) \in Nat
  BY LengthType
<1>2. n \in Nat /\ n <= Len(d)
  BY <1>1
<1>. HIDE DEF n
<1>3. SubSeq(d, 1, n) \in Bytes
  BY <1>2, TakeType
<1>. QED BY <1>3 DEF Accepted, n

\* What is sent is put behind what was sent.
LEMMA SendType ==
  ASSUME TInv, NEW s \in Side, NEW d \in Bytes, Send(s, d)
  PROVE  sentTo' \in [Side -> Bytes] /\ replies' = replies
<1>1. PICK taken \in Accepted(d) : sentTo' = [sentTo EXCEPT ![s] = @ \o taken]
  BY DEF Send
<1>2. taken \in Bytes /\ sentTo[s] \in Bytes
  BY AcceptedType DEF TInv
<1>3. sentTo[s] \o taken \in Bytes
  BY <1>2, JoinType
<1>. QED BY <1>1, <1>3 DEF TInv, Send

\* The replies are bytes.
LEMMA ReplyType ==
  ASSUME TInv, NEW d \in Bytes, Reply(d)
  PROVE  replies' \in Bytes /\ sentTo' = sentTo
<1>1. PICK taken \in Accepted(d) : replies' = replies \o taken
  BY DEF Reply
<1>2. taken \in Bytes /\ replies \in Bytes
  BY AcceptedType DEF TInv
<1>. QED BY <1>1, <1>2, JoinType DEF Reply

\* The buffers hold bytes.
LEMMA BufferType ==
  ASSUME TInv
  PROVE  /\ \A s \in Side : \A d \in Bytes : Keep(s, d) => buffer' \in [Side -> Bytes]
         /\ BuffersCleared => buffer' \in [Side -> Bytes]
BY EmptyIsBytes DEF TInv, Keep, BuffersCleared

\* A read keeps the types of what has been got.
LEMMA ReadType ==
  ASSUME TInv, NEW s \in Side, NEW chunk \in Chunks(s), Read(s, chunk), UNCHANGED script
  PROVE  PeersOK' /\ chunk \in Bytes /\ buffer[s] \o chunk \in Bytes
<1>1. PICK n \in Nat : NextBytes(s, n, chunk)
  BY ChunkIs DEF TInv
<1>2. chunk \in Bytes /\ got' = [got EXCEPT ![s] = n]
  BY <1>1, ReadIs DEF TInv
<1>3. PeersOK'
  <2>1. PeersOK /\ "client" \in Side /\ UNCHANGED Stream("client")
    BY DEF TInv, Side, Stream
  <2>2. Arrived("client") \in 0 .. Len(Stream("client")) /\ 0 \in 0 .. Len(Stream("client"))
    BY <2>1, ArrivedIs, StreamType
  <2>3. reported' \in {reported, 0, Arrived("client")}
    BY DEF Read, ReportedAfter
  <2>4. reported' \in 0 .. Len(Stream("client"))'
    BY <2>1, <2>2, <2>3 DEF PeersOK
  <2>. QED BY <1>1, <1>2, <2>4 DEF NextBytes, PeersOK, TInv, Stream
<1>4. buffer[s] \in Bytes
  BY DEF TInv
<1>. QED BY <1>2, <1>3, <1>4, JoinType

\* The types hold when the conversation is accepted.
LEMMA TInvInit == Init => TInv
<1>. SUFFICES ASSUME Init PROVE TInv
  OBVIOUS
<1>1. /\ script \in Scripts /\ got = [s \in Side |-> 0] /\ reported = 0
      /\ flow = "SOCKS5ClientHello"
  BY DEF Init, ConnectionsInit
<1>2. buffer = [s \in Side |-> <<>>] /\ replies = <<>> /\ sentTo = [s \in Side |-> <<>>] /\ host = <<>>
  BY DEF Init, ConnectionsInit
<1>3. payload = <<>> /\ waiting = FALSE /\ expected = 0 /\ crashed = FALSE
  BY DEF Init, RelayInit
<1>4. PeersOK
  <2>1. \A s \in Side : Len(Stream(s)) \in Nat
    BY <1>1, ScriptsAssumption, LengthType DEF Stream
  <2>. QED BY <1>1, <2>1 DEF PeersOK, Side
<1>5. buffer \in [Side -> Bytes] /\ sentTo \in [Side -> Bytes] /\ replies \in Bytes /\ host \in Bytes
  BY <1>2, EmptyIsBytes
<1>. QED BY <1>1, <1>3, <1>4, <1>5, EmptyIsBytes DEF TInv, SOCKS5Flow

\* SOCKS5ClientHelloTransmission keeps the types.
LEMMA ClientHelloTransmissionType ==
  ASSUME TInv, NEW chunk \in Chunks("client"), ClientHelloTransmission(chunk), UNCHANGED relay
  PROVE  TInv'
<1>. DEFINE received == buffer["client"] \o chunk
            reply == <<Socks(Version), Socks(NoAuthentication)>>
<1>0. "client" \in Side
  BY DEF Side
<1>1. PeersOK' /\ received \in Bytes
  BY <1>0, ReadType DEF ClientHelloTransmission
<1>2. reply \in Bytes
  <2>1. Socks(Version) \in Byte /\ Socks(NoAuthentication) \in Byte
    BY DEF Socks, Version, NoAuthentication, Byte, Origin
  <2>. QED BY <2>1 DEF Bytes
<1>3. UNCHANGED <<script, host, payload, waiting, expected, crashed>>
  BY DEF ClientHelloTransmission, relay
<1>. HIDE DEF received, reply
<1>4. /\ NoSend \/ Reply(reply) \/ Refused
      /\ Keep("client", received) \/ Keep("client", <<>>)
      /\ UNCHANGED flow \/ flow' = "SOCKS5ConnectionRequest"
  BY DEF ClientHelloTransmission, received, reply
<1>5. sentTo' \in [Side -> Bytes] /\ replies' \in Bytes
  BY <1>2, <1>4, ReplyType DEF NoSend, Refused, TInv
<1>6. buffer' \in [Side -> Bytes]
  BY <1>0, <1>1, <1>4, BufferType, EmptyIsBytes
<1>7. flow' \in SOCKS5Flow \cup TLSFlow
  BY <1>4 DEF TInv, SOCKS5Flow
<1>. QED BY <1>1, <1>3, <1>5, <1>6, <1>7 DEF TInv

\* The name of a request that is valid is bytes of it.
LEMMA ServerNameType ==
  ASSUME NEW d \in Bytes, IsValidConnectionRequestMessage(d)
  PROVE  TryConnectToTheServer(d) \in Bytes
<1>1. CASE GetDestinationAddressType(d) = DomainName
  <2>1. Len(d) \in Nat /\ Len(d) >= 5 /\ Len(d) = 4 + d[5].val + 2 + 1
    BY <1>1, LengthType
         DEF IsValidConnectionRequestMessage, HasRequestLength, DomainName, IPv4, IPv6
  <2>2. d[5].val \in Nat
    <3>1. d[5] \in Byte
      BY <2>1 DEF Bytes
    <3>. QED BY <3>1 DEF Byte
  <2>. DEFINE n == 5 + d[5].val
  <2>3. 5 \in Nat /\ n \in Nat /\ 5 <= n /\ n <= Len(d)
    BY <2>1, <2>2
  <2>. HIDE DEF n
  <2>4. SubSeq(d, 5 + 1, n) \in Bytes
    BY <2>3, PieceType
  <2>. QED BY <1>1, <2>4 DEF TryConnectToTheServer, GetDestinationAddress, n
<1>2. CASE GetDestinationAddressType(d) # DomainName
  BY <1>2, EmptyIsBytes DEF TryConnectToTheServer
<1>. QED BY <1>1, <1>2

\* SOCKS5ConnectionRequest keeps the types.
LEMMA ConnectionRequestType ==
  ASSUME TInv, NEW chunk \in Chunks("client"), ConnectionRequestTransmission(chunk),
         UNCHANGED relay
  PROVE  TInv'
<1>. DEFINE received == buffer["client"] \o chunk
<1>0. "client" \in Side
  BY DEF Side
<1>1. PeersOK' /\ received \in Bytes
  BY <1>0, ReadType DEF ConnectionRequestTransmission
<1>2. /\ UNCHANGED <<script, flow, payload, waiting, expected, crashed, sentTo, replies>>
      /\ Keep("client", received)
      /\ host' = IF IsValidConnectionRequestMessage(received)
                 THEN TryConnectToTheServer(received) ELSE <<>>
  BY DEF ConnectionRequestTransmission, relay, NoSend
<1>. HIDE DEF received
<1>3. host' \in Bytes
  BY <1>1, <1>2, ServerNameType, EmptyIsBytes
<1>4. buffer' \in [Side -> Bytes]
  BY <1>0, <1>1, <1>2, BufferType
<1>. QED BY <1>1, <1>2, <1>3, <1>4 DEF TInv

\* The reply to a request has its length and, from the fifth byte on, its bytes.
LEMMA RequestReplyIs ==
  ASSUME NEW d \in Bytes
  PROVE  /\ ConnectionRequestReplyOf(d) \in Bytes
         /\ Len(ConnectionRequestReplyOf(d)) = Len(d)
         /\ \A i \in 5 .. Len(d) : ConnectionRequestReplyOf(d)[i] = d[i]
<1>1. /\ Socks(Succeeded) \in Byte /\ Socks(0) \in Byte /\ Socks(DomainName) \in Byte
  BY DEF Socks, Succeeded, DomainName, Byte, Origin
<1>. DEFINE a == Socks(Succeeded)
            b == Socks(0)
            c == Socks(DomainName)
            q == [d EXCEPT ![2] = a, ![3] = b, ![4] = c]
<1>. HIDE DEF a, b, c
<1>2. d \in [1 .. Len(d) -> Byte] /\ Len(d) \in Nat /\ a \in Byte /\ b \in Byte /\ c \in Byte
  BY <1>1 DEF Bytes, a, b, c
<1>. DEFINE D == 1 .. Len(d)
            q2 == [d EXCEPT ![2] = a]
            q3 == [q2 EXCEPT ![3] = b]
<1>3. q \in [D -> Byte] /\ \A i \in 5 .. Len(d) : q[i] = d[i]
  <2>1. \A i \in 5 .. Len(d) : i \in D /\ i # 2 /\ i # 3 /\ i # 4
    BY <1>2
  <2>2. d \in [D -> Byte]
    BY <1>2
  <2>. HIDE DEF D
  <2>3. q2 \in [D -> Byte] /\ \A i \in D : i # 2 => q2[i] = d[i]
    BY <1>2, <2>2
  <2>. HIDE DEF q2
  <2>4. q3 \in [D -> Byte] /\ \A i \in D : i # 2 /\ i # 3 => q3[i] = d[i]
    BY <1>2, <2>3
  <2>. HIDE DEF q3
  <2>5. /\ [q3 EXCEPT ![4] = c] \in [D -> Byte]
        /\ \A i \in D : i # 2 /\ i # 3 /\ i # 4 => [q3 EXCEPT ![4] = c][i] = d[i]
    BY <1>2, <2>4
  <2>6. q = [q3 EXCEPT ![4] = c]
    BY DEF q2, q3
  <2>. QED BY <2>1, <2>5, <2>6
<1>4. ConnectionRequestReplyOf(d) = q
  BY DEF ConnectionRequestReplyOf, a, b, c
<1>. HIDE DEF q
<1>5. q \in Bytes /\ Len(q) = Len(d)
  BY <1>2, <1>3 DEF Bytes
<1>. QED BY <1>3, <1>4, <1>5

\* SOCKS5ConnectionRequestReply keeps the types.
LEMMA ConnectionRequestReplyType ==
  ASSUME TInv, ConnectionRequestReply, UNCHANGED relay
  PROVE  TInv'
<1>. DEFINE reply == ConnectionRequestReplyOf(buffer["client"])
<1>1. reply \in Bytes
  BY RequestReplyIs DEF TInv, Side
<1>2. UNCHANGED <<script, got, reported, host, payload, waiting, expected, crashed>>
  BY DEF ConnectionRequestReply, relay
<1>3. \/ Reply(reply) /\ BuffersCleared /\ flow' = "TLSClientHello"
      \/ Refused /\ UNCHANGED <<flow, buffer>>
  BY DEF ConnectionRequestReply
<1>. HIDE DEF reply
<1>4. sentTo' \in [Side -> Bytes] /\ replies' \in Bytes
  BY <1>1, <1>3, ReplyType DEF Refused, NoSend, TInv
<1>5. buffer' \in [Side -> Bytes] /\ flow' \in SOCKS5Flow \cup TLSFlow
  BY <1>3, BufferType DEF TInv, TLSFlow
<1>6. PeersOK'
  BY <1>2 DEF TInv, PeersOK, Stream
<1>. QED BY <1>2, <1>4, <1>5, <1>6 DEF TInv

\* What a TLS flow does to the variables of the connections has their types.
LEMMA RelayStepType ==
  ASSUME TInv, PeersOK', UNCHANGED host,
         NEW s \in Side, NEW d \in Bytes, Send(s, d) \/ NoSend,
         NEW t \in Side, NEW e \in Bytes, BuffersCleared \/ Keep(t, e) \/ UNCHANGED buffer,
         flow' \in TLSFlow \/ UNCHANGED flow,
         payload' \in Bytes, waiting' \in BOOLEAN, expected' \in Nat, crashed' \in BOOLEAN
  PROVE  TInv'
<1>1. sentTo' \in [Side -> Bytes] /\ replies' \in Bytes
  BY SendType DEF NoSend, TInv
<1>2. buffer' \in [Side -> Bytes]
  BY BufferType DEF TInv
<1>3. flow' \in SOCKS5Flow \cup TLSFlow /\ host' \in Bytes
  BY DEF TInv
<1>. QED BY <1>1, <1>2, <1>3 DEF TInv

\* What the hello flows generate has its type.
LEMMA ReframedType ==
  ASSUME NEW d \in Bytes
  PROVE  /\ ProcessEveryFullMessage[d].records \in Bytes
         /\ ProcessEveryFullMessage[d].rest \in Bytes
BY ProcessEveryFullMessageIs DEF Reframed

\* TLSReceivingClientHello keeps the types.
LEMMA ReceivingClientHelloType ==
  ASSUME TInv, NEW chunk \in Chunks("client"), TLSReceivingClientHello(chunk), UNCHANGED host
  PROVE  TInv'
<1>. DEFINE received == buffer["client"] \o chunk
            x == payload \o (IF waiting THEN buffer["server"] ELSE CopyEveryClientPayload[received])
            p == ProcessEveryFullMessage[x]
<1>0. "client" \in Side /\ "server" \in Side
  BY DEF Side
<1>1. PeersOK' /\ received \in Bytes
  BY <1>0, ReadType DEF TLSReceivingClientHello
<1>2. x \in Bytes
  <2>1. payload \in Bytes /\ buffer["server"] \in Bytes
    BY <1>0 DEF TInv
  <2>2. CopyEveryClientPayload[received] \in Bytes
    BY <1>1, CopyEveryClientPayloadIs
  <2>. QED BY <2>1, <2>2, JoinType
<1>. HIDE DEF x
<1>3. p.records \in Bytes /\ p.rest \in Bytes
  BY <1>2, ReframedType
<1>4. /\ payload' = p.rest
      /\ Send("server", p.records) \/ NoSend
      /\ BuffersCleared \/ Keep("client", received)
      /\ UNCHANGED flow \/ flow' = "TLSServerHello"
      /\ UNCHANGED waiting \/ waiting' = TRUE
      /\ UNCHANGED <<expected, crashed>>
  BY DEF TLSReceivingClientHello, Refused, x
<1>. HIDE DEF received, p
<1>5. /\ flow' \in TLSFlow \/ UNCHANGED flow
      /\ payload' \in Bytes /\ waiting' \in BOOLEAN /\ expected' \in Nat /\ crashed' \in BOOLEAN
  BY <1>3, <1>4 DEF TInv, TLSFlow
<1>. QED BY <1>0, <1>1, <1>3, <1>4, <1>5, RelayStepType

\* The rest of a record that was cut keeps the types.
LEMMA RestOfRecordType ==
  ASSUME TInv, NEW chunk \in Chunks("server"), RestOfRecord(chunk), UNCHANGED host
  PROVE  TInv'
<1>. DEFINE received == buffer["server"] \o chunk
<1>0. "server" \in Side
  BY DEF Side
<1>1. PeersOK' /\ received \in Bytes /\ Len(received) \in Nat
  BY <1>0, ReadType, LengthType DEF RestOfRecord
<1>2. /\ payload' = payload \o received /\ expected > Len(received)
      /\ expected' = expected - Len(received)
      /\ Keep("server", <<>>) /\ NoSend
      /\ UNCHANGED <<flow, waiting, crashed>>
  BY DEF RestOfRecord, StillExpected
<1>. HIDE DEF received
<1>3. payload' \in Bytes
  BY <1>1, <1>2, JoinType DEF TInv
<1>4. expected' \in Nat
  BY <1>1, <1>2 DEF TInv
<1>5. waiting' \in BOOLEAN /\ crashed' \in BOOLEAN
  BY <1>2 DEF TInv
<1>. QED BY <1>0, <1>1, <1>2, <1>3, <1>4, <1>5, EmptyIsBytes, RelayStepType

\* What TLSReceivingServerHello computes of a read.
LEMMA ServerHelloIs ==
  ASSUME TInv, NEW chunk \in Chunks("server"), TLSReceivingServerHello(chunk),
         NEW received, received = buffer["server"] \o chunk,
         NEW cut, cut = IF waiting THEN expected ELSE 0,
         NEW rest, rest = Drop(received, cut),
         NEW c, c = CopyEveryServerPayload[rest],
         NEW p, p = ProcessEveryFullMessage[payload \o SubSeq(received, 1, cut) \o c.data]
  PROVE  /\ PeersOK' /\ received \in Bytes /\ cut \in Nat /\ cut <= Len(received)
         /\ rest \in Bytes /\ c \in ServerPayload /\ p \in Reframed
<1>0. "server" \in Side
  BY DEF Side
<1>1. PeersOK' /\ received \in Bytes
  BY <1>0, ReadType DEF TLSReceivingServerHello
<1>2. cut \in Nat /\ cut <= Len(received)
  BY DEF TInv, TLSReceivingServerHello
<1>3. rest \in Bytes
  BY <1>1, <1>2, DropType
<1>4. c \in ServerPayload
  BY <1>3, CopyEveryServerPayloadIs
<1>5. payload \o SubSeq(received, 1, cut) \o c.data \in Bytes
  <2>1. SubSeq(received, 1, cut) \in Bytes
    BY <1>1, <1>2, TakeType
  <2>2. payload \in Bytes /\ c.data \in Bytes
    BY <1>4 DEF TInv, ServerPayload
  <2>3. payload \o SubSeq(received, 1, cut) \in Bytes
    BY <2>1, <2>2, JoinType
  <2>. QED BY <2>2, <2>3, JoinType
<1>6. p \in Reframed
  BY <1>5, ProcessEveryFullMessageIs
<1>. QED BY <1>1, <1>2, <1>3, <1>4, <1>6

\* And what it does with that.
ServerHelloDoes(received, rest, c, p) ==
  /\ crashed' = c.wraps
  /\ \/ /\ NoSend
        /\ \/ c.wraps /\ UNCHANGED <<flow, buffer, payload, waiting, expected>>
           \/ /\ ~c.wraps /\ Keep("server", rest)
              /\ payload' = p.rest /\ expected' = ExpectedAfter(c) /\ UNCHANGED <<flow, waiting>>
     \/ /\ ~c.wraps /\ Send("client", p.records \o c.ccs) /\ BuffersCleared
        /\ expected' = ExpectedAfter(c)
        /\ \/ p.rest # <<>> /\ payload' = p.rest /\ waiting' = TRUE /\ UNCHANGED flow
           \/ payload' = c.other /\ waiting' = FALSE /\ flow' = "TLSDefault"

\* One read of TLSReceivingServerHello, with its recursions named.
LEMMA ServerHelloStep ==
  ASSUME TInv, NEW chunk, TLSReceivingServerHello(chunk)
  PROVE  LET received == buffer["server"] \o chunk
             cut == IF waiting THEN expected ELSE 0
             rest == Drop(received, cut)
             c == CopyEveryServerPayload[rest]
             p == ProcessEveryFullMessage[payload \o SubSeq(received, 1, cut) \o c.data]
         IN ServerHelloDoes(received, rest, c, p)
BY DEF TLSReceivingServerHello, ServerHelloDoes, Refused, HeldForDefault

\* TLSReceivingServerHello keeps the types.
LEMMA ReceivingServerHelloType ==
  ASSUME TInv, NEW chunk \in Chunks("server"), TLSReceivingServerHello(chunk), UNCHANGED host
  PROVE  TInv'
<1>. DEFINE received == buffer["server"] \o chunk
            cut == IF waiting THEN expected ELSE 0
            rest == Drop(received, cut)
            c == CopyEveryServerPayload[rest]
            p == ProcessEveryFullMessage[payload \o SubSeq(received, 1, cut) \o c.data]
<1>0. "client" \in Side /\ "server" \in Side
  BY DEF Side
<1>1. ServerHelloDoes(received, rest, c, p)
  BY ServerHelloStep
<1>2. /\ PeersOK' /\ received \in Bytes /\ cut \in Nat /\ cut <= Len(received)
      /\ rest \in Bytes /\ c \in ServerPayload /\ p \in Reframed
  <2>. HIDE DEF received, cut, rest, c, p
  <2>. QED BY ServerHelloIs DEF received, cut, rest, c, p
<1>. HIDE DEF received, cut, rest, c, p
<1>3. /\ p.records \in Bytes /\ p.rest \in Bytes /\ c.ccs \in Bytes /\ c.other \in Bytes
      /\ c.missing \in Nat /\ c.wraps \in BOOLEAN
  BY <1>2 DEF Reframed, ServerPayload
<1>4. p.records \o c.ccs \in Bytes
  BY <1>3, JoinType
<1>5. ExpectedAfter(c) \in Nat
  BY <1>3 DEF ExpectedAfter, TInv
<1>6. /\ Send("client", p.records \o c.ccs) \/ NoSend
      /\ BuffersCleared \/ Keep("server", rest) \/ UNCHANGED buffer
      /\ flow' \in TLSFlow \/ UNCHANGED flow
      /\ payload' \in Bytes /\ waiting' \in BOOLEAN /\ expected' \in Nat /\ crashed' \in BOOLEAN
  BY <1>1, <1>3, <1>5 DEF ServerHelloDoes, TInv, TLSFlow
<1>. QED BY <1>0, <1>2, <1>4, <1>6, RelayStepType

\* TLSDefault keeps the types.
LEMMA DefaultType ==
  ASSUME TInv, NEW s \in Side, NEW chunk \in Chunks(s), TLSDefault(s, chunk), UNCHANGED host
  PROVE  TInv'
<1>. DEFINE received == buffer[s] \o chunk
            d == payload \o received
            r == ExtractAllValidRecords(d)
<1>0. Other(s) \in Side
  BY DEF Side, Other
<1>1. PeersOK' /\ received \in Bytes
  BY ReadType DEF TLSDefault
<1>2. d \in Bytes
  BY <1>1, JoinType DEF TInv
<1>. HIDE DEF d
<1>3. r.valid \in Bytes /\ r.rest \in Bytes
  BY <1>2, ExtractedIsWhole, DropType DEF ExtractAllValidRecords, Whole
<1>4. /\ payload' = r.rest
      /\ Send(Other(s), r.valid) \/ NoSend
      /\ BuffersCleared \/ Keep(s, received)
      /\ UNCHANGED <<flow, waiting, expected, crashed>>
  BY DEF TLSDefault, Refused, d
<1>. HIDE DEF r, received
<1>5. payload' \in Bytes /\ waiting' \in BOOLEAN /\ expected' \in Nat /\ crashed' \in BOOLEAN
  BY <1>3, <1>4 DEF TInv
<1>. QED BY <1>0, <1>1, <1>3, <1>4, <1>5, RelayStepType

\* Every step keeps the types.
LEMMA TInvStep == TInv /\ [Next]_vars => TInv'
<1>. SUFFICES ASSUME TInv, [Next]_vars PROVE TInv'
  OBVIOUS
<1>1. ASSUME NEW chunk \in Chunks("client"), ClientHelloTransmission(chunk), UNCHANGED relay
      PROVE  TInv'
  BY <1>1, ClientHelloTransmissionType
<1>2. ASSUME NEW chunk \in Chunks("client"), ConnectionRequestTransmission(chunk), UNCHANGED relay
      PROVE  TInv'
  BY <1>2, ConnectionRequestType
<1>3. ASSUME ConnectionRequestReply, UNCHANGED relay PROVE TInv'
  BY <1>3, ConnectionRequestReplyType
<1>4. ASSUME NEW chunk \in Chunks("client"), TLSReceivingClientHello(chunk), UNCHANGED host
      PROVE  TInv'
  BY <1>4, ReceivingClientHelloType
<1>5. ASSUME NEW chunk \in Chunks("server"), RestOfRecord(chunk), UNCHANGED host PROVE TInv'
  BY <1>5, RestOfRecordType
<1>6. ASSUME NEW chunk \in Chunks("server"), TLSReceivingServerHello(chunk), UNCHANGED host
      PROVE  TInv'
  BY <1>6, ReceivingServerHelloType
<1>7. ASSUME NEW s \in Side, NEW chunk \in Chunks(s), TLSDefault(s, chunk), UNCHANGED host
      PROVE  TInv'
  BY <1>7, DefaultType
<1>8. CASE UNCHANGED vars
  BY <1>8 DEF vars, connections, relay, TInv, PeersOK, Stream
<1>. QED BY <1>1, <1>2, <1>3, <1>4, <1>5, <1>6, <1>7, <1>8 DEF Next, Socks5Next, TLSNext

\* Every variable keeps its type, and no more is read than was sent.
THEOREM TypeCorrect == Spec => []TypeOK
<1>1. TInv => TypeOK
  BY DEF TInv, PeersOK, TypeOK
<1>. QED BY <1>1, TInvInit, TInvStep, PTL DEF Spec

-----------------------------------------------------------------------------
(* Records that are whole do no harm. *)

Starts(sc) == {0} \cup sc.ends["server"]

\* Until application data is relayed, the proxy holds what follows the k-th byte the
\* server has sent; the k-th byte and the last one it has read end records, and none of
\* them lacks anything.
HeldFrom(k) ==
  /\ k \in Starts(script) /\ k <= got["server"]
  /\ buffer["server"] = SubSeq(Stream("server"), k + 1, got["server"])

ServerCut ==
  /\ got["server"] \in Starts(script)
  /\ \E k \in Nat : HeldFrom(k)
  /\ expected = 0

WInv ==
  ServerSendsRecords(script) => ~crashed /\ (flow # "TLSDefault" => ServerCut)

\* The piece of a stream between a byte and itself is empty.
LEMMA NothingHeld ==
  ASSUME NEW d \in Bytes, NEW g \in Nat, g <= Len(d)
  PROVE  SubSeq(d, g + 1, g) = <<>>
<1>1. SubSeq(d, g + 1, g) \in Bytes /\ Len(SubSeq(d, g + 1, g)) = g - g
  BY PieceType
<1>. QED BY <1>1, LengthOfEmpty

\* Where reads of the server may start.
LEMMA StartsAre ==
  ASSUME PeersOK, ServerSendsRecords(script)
  PROVE  /\ Starts(script) \subseteq Nat /\ 0 \in Starts(script)
         /\ \A e \in Starts(script) : e <= Len(Stream("server"))
         /\ \A s \in Side, n \in Nat :
              MayEnd(s, n) /\ flow \in TLSFlow \ {"TLSDefault"} => n \in script.ends[s]
<1>1. Starts(script) \subseteq 0 .. Len(Stream("server"))
  BY DEF ServerSendsRecords, Starts, Stream
<1>2. Len(Stream("server")) \in Nat
  BY StreamType DEF Side
<1>3. ASSUME NEW s \in Side, NEW n \in Nat, MayEnd(s, n), flow \in TLSFlow \ {"TLSDefault"}
      PROVE  n \in script.ends[s]
  BY <1>3 DEF MayEnd, ServerSendsRecords, SOCKS5Flow, TLSFlow
<1>. QED BY <1>1, <1>2, <1>3 DEF Starts

\* What the server hello flow takes from the server's stream up to g.
LEMMA TakenFromStream ==
  ASSUME PeersOK, ServerSendsRecords(script), NEW e \in Starts(script),
         NEW g \in Starts(script), e <= g
  PROVE  Harmless(CopyEveryServerPayload[SubSeq(Stream("server"), e + 1, g)])
<1>. DEFINE d == Stream("server")
            S == Starts(script)
            next(x) == x + RecordHeader + d[x + RecordHeader].val
<1>1. d \in Bytes /\ S \subseteq Nat /\ g \in Nat /\ g <= Len(d) /\ e \in S
  BY StreamType, StartsAre DEF Side
<1>2. ASSUME NEW x \in S, x < g
      PROVE  /\ x + RecordHeader <= g /\ next(x) <= g /\ next(x) \in S
             /\ d[x + 1].val = ChangeCipherSpec => d[x + RecordHeader].val = 1
  BY <1>2 DEF ServerSendsRecords, Starts, Stream
<1>. HIDE DEF d, S
<1>3. Harmless(CopyEveryServerPayload[SubSeq(d, e + 1, g)])
  BY <1>1, <1>2, PieceIsHarmless
<1>. QED BY <1>3 DEF d

\* A step that reads nothing from the server.
LEMMA ServerCutKept ==
  ASSUME TInv, ServerCut,
         UNCHANGED <<script, expected>>, got'["server"] = got["server"],
         buffer'["server"] = buffer["server"] \/ buffer'["server"] = <<>>
  PROVE  ServerCut'
<1>. DEFINE g == got["server"]
<1>1. Stream("server") \in Bytes /\ g \in Nat /\ g <= Len(Stream("server")) /\ UNCHANGED Stream("server")
  BY StreamType DEF TInv, PeersOK, Side, Stream
<1>2. CASE buffer'["server"] = buffer["server"]
  BY <1>1, <1>2 DEF ServerCut, HeldFrom
<1>3. CASE buffer'["server"] = <<>>
  <2>1. buffer'["server"] = SubSeq(Stream("server"), g + 1, g)
    BY <1>1, <1>3, NothingHeld
  <2>2. HeldFrom(g)'
    BY <1>1, <2>1 DEF HeldFrom, ServerCut
  <2>. QED BY <1>1, <2>2 DEF ServerCut
<1>. QED BY <1>2, <1>3

\* A read from the server before application data is relayed.
LEMMA ServerReadIs ==
  ASSUME TInv, ServerSendsRecords(script), ServerCut, flow \in TLSFlow \ {"TLSDefault"},
         NEW chunk \in Chunks("server"), Read("server", chunk), UNCHANGED script
  PROVE  \E k, n \in Starts(script) :
           /\ k <= n /\ n <= Len(Stream("server")) /\ got'["server"] = n
           /\ buffer["server"] \o chunk = SubSeq(Stream("server"), k + 1, n)
<1>0. "server" \in Side /\ PeersOK
  BY DEF Side, TInv
<1>1. PICK n \in Nat : NextBytes("server", n, chunk)
  BY <1>0, ChunkIs
<1>2. got' = [got EXCEPT !["server"] = n]
  BY <1>0, <1>1, ReadIs
<1>3. PICK k \in Nat : HeldFrom(k)
  BY DEF ServerCut
<1>4. buffer["server"] \o chunk = SubSeq(Stream("server"), k + 1, n)
  BY <1>0, <1>1, <1>3, HeldAndRead DEF HeldFrom
<1>5. n \in Starts(script)
  BY <1>0, <1>1, StartsAre DEF NextBytes, Starts
<1>6. k <= n /\ got'["server"] = n /\ n <= Len(Stream("server"))
  BY <1>0, <1>1, <1>2, <1>3 DEF NextBytes, HeldFrom, PeersOK
<1>. QED BY <1>3, <1>4, <1>5, <1>6 DEF HeldFrom

\* No harm has been done when the conversation is accepted.
LEMMA NoHarmInit == TInv /\ Init => WInv
<1>. SUFFICES ASSUME TInv, Init PROVE ~crashed /\ ServerCut
  BY DEF WInv
<1>1. got = [s \in Side |-> 0] /\ buffer = [s \in Side |-> <<>>]
  BY DEF Init, ConnectionsInit
<1>2. expected = 0 /\ ~crashed
  BY DEF Init, RelayInit
<1>3. 0 \in Starts(script)
  BY DEF Starts
<1>4. Stream("server") \in Bytes /\ Len(Stream("server")) \in Nat
  BY StreamType DEF TInv, Side
<1>5. SubSeq(Stream("server"), 0 + 1, 0) = <<>>
  BY <1>4, NothingHeld
<1>6. HeldFrom(0)
  BY <1>1, <1>3, <1>5 DEF HeldFrom, Side
<1>. QED BY <1>1, <1>2, <1>3, <1>6 DEF ServerCut, Side

\* The SOCKS5 flows leave the server alone.
LEMMA Socks5LeavesServer ==
  ASSUME TInv, Socks5Next
  PROVE  /\ UNCHANGED <<script, sentTo>> /\ flow \in SOCKS5Flow
         /\ got'["server"] = got["server"]
         /\ buffer'["server"] = buffer["server"] \/ buffer'["server"] = <<>>
<1>0. got \in [Side -> Nat] /\ buffer \in [Side -> Bytes] /\ "server" \in Side /\ "client" # "server"
  BY DEF TInv, PeersOK, Side
<1>1. ASSUME NEW chunk, ClientHelloTransmission(chunk)
      PROVE  /\ UNCHANGED <<script, sentTo>> /\ flow \in SOCKS5Flow
             /\ got'["server"] = got["server"] /\ buffer'["server"] = buffer["server"]
  BY <1>0, <1>1 DEF ClientHelloTransmission, Read, Keep, Reply, NoSend, Refused, SOCKS5Flow
<1>2. ASSUME NEW chunk, ConnectionRequestTransmission(chunk)
      PROVE  /\ UNCHANGED <<script, sentTo>> /\ flow \in SOCKS5Flow
             /\ got'["server"] = got["server"] /\ buffer'["server"] = buffer["server"]
  BY <1>0, <1>2 DEF ConnectionRequestTransmission, Read, Keep, NoSend, SOCKS5Flow
<1>3. ASSUME ConnectionRequestReply
      PROVE  /\ UNCHANGED <<script, sentTo>> /\ flow \in SOCKS5Flow
             /\ got'["server"] = got["server"]
             /\ buffer'["server"] = buffer["server"] \/ buffer'["server"] = <<>>
  BY <1>0, <1>3 DEF ConnectionRequestReply, BuffersCleared, Reply, NoSend, Refused, SOCKS5Flow
<1>. QED BY <1>1, <1>2, <1>3 DEF Socks5Next

\* The client's hello flow reads nothing from the server.
LEMMA ClientHelloLeavesServer ==
  ASSUME TInv, NEW chunk, TLSReceivingClientHello(chunk)
  PROVE  /\ UNCHANGED <<script, expected, crashed>> /\ flow = "TLSClientHello"
         /\ got'["server"] = got["server"]
         /\ buffer'["server"] = buffer["server"] \/ buffer'["server"] = <<>>
<1>0. got \in [Side -> Nat] /\ buffer \in [Side -> Bytes] /\ "server" \in Side /\ "client" # "server"
  BY DEF TInv, PeersOK, Side
<1>1. /\ UNCHANGED <<script, expected, crashed>> /\ flow = "TLSClientHello"
      /\ Read("client", chunk)
      /\ BuffersCleared \/ Keep("client", buffer["client"] \o chunk)
  BY DEF TLSReceivingClientHello, Refused
<1>. QED BY <1>0, <1>1 DEF Read, Keep, BuffersCleared

\* Before application data, a step that reads nothing from the server does no harm.
LEMMA NoHarmWithoutRead ==
  ASSUME TInv, WInv, flow # "TLSDefault", UNCHANGED <<script, expected, crashed>>,
         got'["server"] = got["server"],
         buffer'["server"] = buffer["server"] \/ buffer'["server"] = <<>>
  PROVE  WInv'
<1>. SUFFICES ASSUME ServerSendsRecords(script)' PROVE ~crashed' /\ ServerCut'
  BY DEF WInv
<1>1. ~crashed /\ ServerCut
  BY DEF WInv
<1>. QED BY <1>1, ServerCutKept

\* Nothing is ever expected of a record that was cut.
LEMMA NothingExpected ==
  ASSUME TInv, WInv, ServerSendsRecords(script), NEW chunk \in Chunks("server")
  PROVE  ~RestOfRecord(chunk)
<1>. SUFFICES ASSUME RestOfRecord(chunk) PROVE FALSE
  OBVIOUS
<1>. DEFINE received == buffer["server"] \o chunk
<1>1. /\ Read("server", chunk) /\ expected > Len(received)
      /\ flow = "TLSServerHello" /\ UNCHANGED script
  BY DEF RestOfRecord
<1>2. received \in Bytes
  BY <1>1, ReadType DEF Side
<1>3. Len(received) \in Nat
  BY <1>2, LengthType
<1>. HIDE DEF received
<1>4. expected # 0
  BY <1>1, <1>3 DEF TInv
<1>. QED BY <1>1, <1>4 DEF WInv, ServerCut

\* What TLSReceivingServerHello reads of records, and what it takes of that.
LEMMA ServerRecordsAre ==
  ASSUME TInv, WInv, ServerSendsRecords(script),
         NEW chunk \in Chunks("server"), TLSReceivingServerHello(chunk),
         NEW received, received = buffer["server"] \o chunk,
         NEW c, c = CopyEveryServerPayload[received],
         NEW p, p = ProcessEveryFullMessage[payload \o c.data]
  PROVE  /\ received \in Bytes /\ c \in ServerPayload /\ p \in Reframed
         /\ ServerHelloDoes(received, received, c, p)
         /\ Harmless(c)
         /\ \E k, n \in Starts(script) :
              /\ k <= n /\ n <= Len(Stream("server")) /\ got'["server"] = n
              /\ received = SubSeq(Stream("server"), k + 1, n)
<1>. DEFINE cut == IF waiting THEN expected ELSE 0
            rest == Drop(received, cut)
            x == CopyEveryServerPayload[rest]
            q == ProcessEveryFullMessage[payload \o SubSeq(received, 1, cut) \o x.data]
<1>0. flow = "TLSServerHello" /\ Read("server", chunk) /\ UNCHANGED script
  BY DEF TLSReceivingServerHello
<1>1. ServerCut /\ ServerHelloDoes(received, rest, x, q)
  BY <1>0, ServerHelloStep DEF WInv
<1>2. cut = 0 /\ received \in Bytes /\ payload \in Bytes
  BY <1>0, <1>1, ReadType DEF ServerCut, Side, TInv
<1>3. rest = received
  BY <1>2, EmptyInFront
<1>4. payload \o SubSeq(received, 1, cut) = payload
  <2>1. SubSeq(received, 1, 0) = <<>>
    BY <1>2, TakeType, LengthOfEmpty
  <2>. QED BY <1>2, <2>1, EmptyInFront
<1>. HIDE DEF rest, cut
<1>5. x = c /\ q = p
  BY <1>3, <1>4
<1>. HIDE DEF x, q
<1>6. c \in ServerPayload
  BY <1>2, CopyEveryServerPayloadIs
<1>7. p \in Reframed
  <2>1. payload \o c.data \in Bytes
    BY <1>2, <1>6, JoinType DEF ServerPayload
  <2>. QED BY <2>1, ProcessEveryFullMessageIs
<1>8. PICK k \in Starts(script), n \in Starts(script) :
         /\ k <= n /\ n <= Len(Stream("server")) /\ got'["server"] = n
         /\ received = SubSeq(Stream("server"), k + 1, n)
  BY <1>0, <1>1, ServerReadIs DEF TLSFlow
<1>9. Harmless(c)
  BY <1>8, TakenFromStream DEF TInv
<1>10. ServerHelloDoes(received, received, c, p)
  BY <1>1, <1>3, <1>5
<1>. QED BY <1>2, <1>6, <1>7, <1>8, <1>9, <1>10

\* TLSReceivingServerHello waits for no part of a record and copies none.
LEMMA NoHarmServerHello ==
  ASSUME TInv, WInv, NEW chunk \in Chunks("server"), TLSReceivingServerHello(chunk)
  PROVE  WInv'
<1>. DEFINE received == buffer["server"] \o chunk
            c == CopyEveryServerPayload[received]
            p == ProcessEveryFullMessage[payload \o c.data]
            d == Stream("server")
<1>1. UNCHANGED <<script, d>> /\ flow = "TLSServerHello"
  BY DEF TLSReceivingServerHello, Stream
<1>. SUFFICES ASSUME ServerSendsRecords(script)' PROVE ~crashed' /\ ServerCut'
  BY DEF WInv
<1>2. /\ received \in Bytes /\ ServerHelloDoes(received, received, c, p) /\ Harmless(c)
      /\ \E k, n \in Starts(script) :
           /\ k <= n /\ n <= Len(d) /\ got'["server"] = n
           /\ received = SubSeq(d, k + 1, n)
  <2>1. ServerSendsRecords(script)
    BY <1>1
  <2>. HIDE DEF received, c, p
  <2>. QED BY <2>1, ServerRecordsAre DEF received, c, p
<1>3. PICK k \in Starts(script), n \in Starts(script) :
         /\ k <= n /\ n <= Len(d) /\ got'["server"] = n
         /\ received = SubSeq(d, k + 1, n)
  BY <1>2
<1>4. Starts(script) \subseteq Nat /\ d \in Bytes /\ expected = 0
  BY <1>1, StartsAre, StreamType DEF TInv, WInv, ServerCut, Side
<1>. HIDE DEF received, c, p, d
<1>5. ~crashed' /\ expected' = 0 /\ (buffer'["server"] = <<>> \/ buffer'["server"] = received)
  BY <1>2, <1>4 DEF ServerHelloDoes, Harmless, ExpectedAfter, Keep, BuffersCleared, TInv, Side
<1>6. \E j \in Nat : HeldFrom(j)'
  <2>1. CASE buffer'["server"] = <<>>
    <3>1. SubSeq(d, n + 1, n) = <<>>
      BY <1>3, <1>4, NothingHeld
    <3>2. HeldFrom(n)'
      BY <1>1, <1>3, <1>4, <2>1, <3>1 DEF HeldFrom, d
    <3>. QED BY <1>4, <3>2
  <2>2. CASE buffer'["server"] = received
    <3>1. HeldFrom(k)'
      BY <1>1, <1>3, <2>2 DEF HeldFrom, d
    <3>. QED BY <1>4, <3>1
  <2>. QED BY <1>5, <2>1, <2>2
<1>. QED BY <1>1, <1>3, <1>5, <1>6 DEF ServerCut

\* Every step leaves the process alive.
LEMMA NoHarmStep == TInv /\ WInv /\ [Next]_vars => WInv'
<1>. SUFFICES ASSUME TInv, WInv, [Next]_vars PROVE WInv'
  OBVIOUS
<1>1. ASSUME Socks5Next, UNCHANGED relay PROVE WInv'
  BY <1>1, Socks5LeavesServer, NoHarmWithoutRead DEF relay, SOCKS5Flow
<1>2. ASSUME NEW chunk \in Chunks("client"), TLSReceivingClientHello(chunk) PROVE WInv'
  BY <1>2, ClientHelloLeavesServer, NoHarmWithoutRead
<1>3. ASSUME NEW chunk \in Chunks("server"), RestOfRecord(chunk) PROVE WInv'
  BY <1>3, NothingExpected DEF RestOfRecord, WInv
<1>4. ASSUME NEW chunk \in Chunks("server"), TLSReceivingServerHello(chunk) PROVE WInv'
  BY <1>4, NoHarmServerHello
<1>5. ASSUME NEW s \in Side, NEW chunk \in Chunks(s), TLSDefault(s, chunk) PROVE WInv'
  BY <1>5 DEF TLSDefault, WInv
<1>6. CASE UNCHANGED vars
  BY <1>6 DEF vars, connections, relay, WInv, ServerCut, HeldFrom, Stream
<1>. QED BY <1>1, <1>2, <1>3, <1>4, <1>5, <1>6 DEF Next, TLSNext

\* The process survives any server that sends records, of whatever content, and any client,
\* if reads of the hello flows end with records: in whatever pieces the messages come and
\* whatever sends are refused.
THEOREM WholeRecordsDoNoHarm == Spec => []RecordsDoNoHarm
<1>1. WInv => RecordsDoNoHarm
  BY DEF WInv, RecordsDoNoHarm
<1>. QED BY <1>1, TInvInit, TInvStep, NoHarmInit, NoHarmStep, PTL DEF Spec

-----------------------------------------------------------------------------
(* What the relay sends. *)

\* The relay sends whole records, or nothing.
LEMMA DefaultSendsRecords ==
  ASSUME TInv, NEW s \in Side, NEW chunk \in Chunks(s), TLSDefault(s, chunk)
  PROVE  \E d \in Bytes : (NoSend \/ Send(Other(s), d)) /\ Whole(d)
<1>. DEFINE received == buffer[s] \o chunk
            x == payload \o received
            r == ExtractAllValidRecords(x)
<1>1. received \in Bytes
  BY ReadType DEF TLSDefault
<1>2. x \in Bytes
  BY <1>1, JoinType DEF TInv
<1>3. NoSend \/ Send(Other(s), r.valid)
  BY DEF TLSDefault, Refused
<1>. HIDE DEF x
<1>4. Whole(r.valid)
  BY <1>2, ExtractedIsWhole DEF ExtractAllValidRecords
<1>. HIDE DEF r
<1>5. r.valid \in Bytes
  BY <1>4 DEF Whole
<1>. QED BY <1>3, <1>4, <1>5

\* What is put behind a sequence is what follows its bytes.
LEMMA DropJoined ==
  ASSUME NEW a \in Bytes, NEW b \in Bytes
  PROVE  Drop(a \o b, Len(a)) = b
<1>. DEFINE c == a \o b
            d == Drop(c, Len(a))
<1>1. /\ c \in Bytes /\ Len(c) = Len(a) + Len(b)
      /\ \A i \in 1 .. Len(b) : c[Len(a) + i] = b[i]
      /\ Len(a) \in Nat /\ Len(b) \in Nat
  BY JoinType, LengthType
<1>. HIDE DEF c
<1>2. /\ d \in Bytes /\ Len(d) = IF Len(a) <= Len(c) THEN Len(c) - Len(a) ELSE 0
      /\ \A i \in 1 .. Len(d) : d[i] = c[Len(a) + i]
  BY <1>1, DropType
<1>. HIDE DEF d
<1>3. Len(d) = Len(b)
  BY <1>1, <1>2
<1>4. \A i \in 1 .. Len(b) : d[i] = b[i]
  BY <1>1, <1>2, <1>3
<1>5. d = b
  BY <1>2, <1>3, <1>4, SameBytes
<1>. QED BY <1>5 DEF c, d

\* What a step of the relay puts behind what it has sent is whole records.
LEMMA RelayStep ==
  ASSUME TInv, [Next]_vars, flow = "TLSDefault", script.sends # "short", NEW t \in Side
  PROVE  LET d == Drop(sentTo'[t], Len(sentTo[t])) IN ValidLength[d] = Len(d)
<1>1. \E d \in Bytes : sentTo'[t] = sentTo[t] \o d /\ Whole(d)
  <2>0. sentTo[t] \in Bytes /\ <<>> \in Bytes /\ sentTo[t] \o <<>> = sentTo[t]
    BY EmptyIsBytes, EmptyInFront DEF TInv
  <2>1. CASE sentTo' = sentTo
    BY <2>0, <2>1, EmptyIsWhole
  <2>2. ASSUME NEW s \in Side, NEW chunk \in Chunks(s), TLSDefault(s, chunk)
        PROVE  \E d \in Bytes : sentTo'[t] = sentTo[t] \o d /\ Whole(d)
    <3>1. PICK d \in Bytes : (NoSend \/ Send(Other(s), d)) /\ Whole(d)
      BY <2>2, DefaultSendsRecords
    <3>2. CASE NoSend
      BY <2>1, <3>2 DEF NoSend
    <3>3. CASE Send(Other(s), d)
      <4>1. Accepted(d) = {d}
        BY AcceptedType
      <4>2. sentTo' = [sentTo EXCEPT ![Other(s)] = @ \o d]
        BY <3>3, <4>1 DEF Send
      <4>3. sentTo'[t] = sentTo[t] \o d \/ sentTo'[t] = sentTo[t]
        BY <4>2 DEF TInv
      <4>. QED BY <2>0, <3>1, <4>3, EmptyIsWhole
    <3>. QED BY <3>1, <3>2, <3>3
  <2>3. \/ sentTo' = sentTo
        \/ \E s \in Side : \E chunk \in Chunks(s) : TLSDefault(s, chunk)
    BY DEF Next, vars, connections, Socks5Next, TLSNext, ClientHelloTransmission,
           ConnectionRequestTransmission, ConnectionRequestReply, TLSReceivingClientHello,
           RestOfRecord, TLSReceivingServerHello
  <2>. QED BY <2>1, <2>2, <2>3
<1>2. PICK d \in Bytes : sentTo'[t] = sentTo[t] \o d /\ Whole(d)
  BY <1>1
<1>3. Drop(sentTo'[t], Len(sentTo[t])) = d
  BY <1>2, DropJoined DEF TInv
<1>. QED BY <1>2, <1>3 DEF Whole

\* Whatever the peers send, however reads are cut and whatever the hello flows leave in
\* the buffers, the relay sends whole records at a time unless the kernel takes part of them.
THEOREM OnlyRecordsRelayed == Spec => RelaysRecords
<1>1. TInv /\ [Next]_vars =>
        [flow = "TLSDefault" /\ script.sends # "short" =>
           \A s \in Side :
             LET d == Drop(sentTo'[s], Len(sentTo[s])) IN ValidLength[d] = Len(d)]_vars
  BY RelayStep
<1>. QED BY <1>1, TInvInit, TInvStep, PTL DEF Spec, RelaysRecords

-----------------------------------------------------------------------------
(* The request of a polite client. *)

\* The client has sent no more than the proxy has asked for, and the proxy holds what
\* it has not used: the greeting up to its answer, then what follows the k-th byte, and
\* once a name is known, the request from its first byte to its last one.
HoldsGreeting(g) ==
  /\ host = <<>> /\ replies = <<>> /\ got["client"] <= g
  /\ buffer["client"] = SubSeq(Stream("client"), 0 + 1, got["client"])

HoldsRequest(g, r) ==
  /\ Len(replies) <= 2 /\ (script.sends # "short" => Len(replies) = 2)
  /\ got["client"] <= g + r
  /\ host \in {<<>>, script.host}
  /\ \E k \in 3 .. g :
       /\ k <= got["client"]
       /\ buffer["client"] = SubSeq(Stream("client"), k + 1, got["client"])
       /\ host # <<>> => k = g /\ got["client"] = g + r /\ Stream("client")[g + 4].val = DomainName

HasServed ==
  /\ host = script.host
  /\ script.sends # "short" => SubSeq(replies, 8, 7 + Len(script.host)) = script.host

SocksInv(g, r) ==
  /\ flow = "SOCKS5ClientHello" => HoldsGreeting(g)
  /\ flow = "SOCKS5ConnectionRequest" => HoldsRequest(g, r)
  /\ flow \in TLSFlow => HasServed

RInv ==
  \A g \in Nat, r \in Nat : g >= 3 /\ r >= 5 /\ PoliteClientOf(script, g, r) => SocksInv(g, r)

\* What a polite client sends before a reply ends where the proxy can tell.
LEMMA PoliteArrival ==
  ASSUME TInv, NEW g \in Nat, NEW r \in Nat, r >= 5, PoliteClientOf(script, g, r)
  PROVE  /\ Len(replies) < 2 => Arrived("client") <= g
         /\ Len(replies) < 2 + r => Arrived("client") <= g + r
<1>0. "client" \in Side /\ PeersOK /\ Len(replies) \in Nat
  BY LengthType DEF Side, TInv
<1>1. CASE Arrived("client") = 0
  BY <1>1
<1>2. CASE \E k \in DOMAIN script.flights :
             LET f == script.flights[k]
             IN f.from = "client" /\ Started(f) /\ Arrived("client") = f.end
  <2>1. PICK k \in DOMAIN script.flights :
             LET f == script.flights[k]
             IN f.from = "client" /\ Started(f) /\ Arrived("client") = f.end
    BY <1>2
  <2>. DEFINE f == script.flights[k]
  <2>2. f.from = "client" /\ Len(replies) >= f.reply /\ Arrived("client") = f.end
    BY <2>1 DEF Started
  <2>3. f.reply \in Nat
    BY <1>0, ScriptsAssumption DEF PeersOK
  <2>4. (f.reply < 2 => f.end <= g) /\ (f.reply < 2 + r => f.end <= g + r)
    BY <2>2 DEF PoliteClientOf
  <2>. HIDE DEF f
  <2>. QED BY <1>0, <2>2, <2>3, <2>4
<1>. QED BY <1>0, <1>1, <1>2, ArrivedIs

\* A socket accepts no more than it is sent, and all of it unless sends are short.
LEMMA AcceptedLength ==
  ASSUME NEW d \in Bytes, NEW taken \in Accepted(d)
  PROVE  /\ taken \in Bytes /\ Len(taken) \in Nat /\ Len(taken) <= Len(d)
         /\ script.sends # "short" => taken = d
<1>. DEFINE n == (Len(d) + 1) \div 2
<1>1. Len(d) \in Nat
  BY LengthType
<1>2. n \in Nat /\ n <= Len(d)
  BY <1>1
<1>. HIDE DEF n
<1>3. SubSeq(d, 1, n) \in Bytes /\ Len(SubSeq(d, 1, n)) = n
  BY <1>2, TakeType
<1>4. taken = d \/ taken = SubSeq(d, 1, n)
  BY DEF Accepted, n
<1>5. script.sends # "short" => taken = d
  BY DEF Accepted
<1>6. CASE taken = d
  BY <1>1, <1>5, <1>6
<1>7. CASE taken = SubSeq(d, 1, n)
  BY <1>1, <1>2, <1>3, <1>5, <1>7
<1>. QED BY <1>4, <1>6, <1>7

\* The bytes of the client that have been read, after a read.
LEMMA ClientReadIs ==
  ASSUME TInv, NEW chunk \in Chunks("client"), Read("client", chunk)
  PROVE  \E n \in Nat :
           /\ NextBytes("client", n, chunk) /\ n <= Arrived("client")
           /\ n <= Len(Stream("client")) /\ got["client"] <= n
           /\ got'["client"] = n
<1>0. "client" \in Side /\ PeersOK
  BY DEF Side, TInv
<1>1. PICK n \in Nat : NextBytes("client", n, chunk)
  BY <1>0, ChunkIs
<1>2. got' = [got EXCEPT !["client"] = n]
  BY <1>0, <1>1, ReadIs
<1>3. got'["client"] = n /\ got["client"] <= n
  BY <1>0, <1>1, <1>2 DEF PeersOK, NextBytes
<1>. QED BY <1>1, <1>3 DEF NextBytes

\* SOCKS5ClientHelloTransmission holds a polite client to its greeting.
LEMMA ServedGreeting ==
  ASSUME TInv, NEW g \in Nat, NEW r \in Nat, g >= 3, r >= 5, PoliteClientOf(script, g, r),
         SocksInv(g, r), NEW chunk \in Chunks("client"), ClientHelloTransmission(chunk)
  PROVE  SocksInv(g, r)'
<1>. DEFINE received == buffer["client"] \o chunk
            reply == <<Socks(Version), Socks(NoAuthentication)>>
            d == Stream("client")
<1>0. "client" \in Side /\ PeersOK /\ d \in Bytes
  BY StreamType DEF Side, TInv
<1>1. /\ flow = "SOCKS5ClientHello" /\ Read("client", chunk) /\ UNCHANGED <<script, host>>
      /\ HoldsGreeting(g)
  BY DEF ClientHelloTransmission, SocksInv
<1>2. PICK n \in Nat : /\ NextBytes("client", n, chunk) /\ n <= Arrived("client")
                       /\ n <= Len(d) /\ got["client"] <= n /\ got'["client"] = n
  BY <1>1, ClientReadIs
<1>3. n <= g
  <2>1. Len(replies) < 2
    BY <1>1 DEF HoldsGreeting
  <2>2. Arrived("client") <= g /\ Arrived("client") \in Nat
    BY <1>0, <2>1, PoliteArrival, ArrivedIs
  <2>. QED BY <1>2, <2>2
<1>4. received = SubSeq(d, 0 + 1, n)
  <2>1. got["client"] \in Nat /\ 0 <= got["client"]
    BY <1>0 DEF PeersOK
  <2>. QED BY <1>0, <1>1, <1>2, <2>1, HeldAndRead DEF HoldsGreeting
<1>5. /\ UNCHANGED d
      /\ buffer \in [Side -> Bytes]
  BY <1>1 DEF Stream, TInv
<1>6. CASE Keep("client", received) /\ NoSend /\ UNCHANGED flow
  <2>1. buffer'["client"] = SubSeq(d, 0 + 1, n)
    BY <1>0, <1>4, <1>5, <1>6 DEF Keep
  <2>2. HoldsGreeting(g)'
    BY <1>1, <1>2, <1>3, <1>5, <1>6, <2>1 DEF HoldsGreeting, NoSend
  <2>. QED BY <1>1, <1>6, <2>2 DEF SocksInv, TLSFlow
<1>7. CASE /\ IsValidClientHelloMessage(received) /\ Reply(reply)
           /\ Keep("client", <<>>) /\ flow' = "SOCKS5ConnectionRequest"
  <2>1. n >= 3
    <3>1. Len(received) = n - 0
      <4>. HIDE DEF received
      <4>. QED BY <1>0, <1>2, <1>4, PieceType
    <3>2. Len(received) >= 3
      BY <1>7 DEF IsValidClientHelloMessage
    <3>. QED BY <3>1, <3>2
  <2>2. reply \in Bytes /\ Len(reply) = 2
    <3>1. Socks(Version) \in Byte /\ Socks(NoAuthentication) \in Byte
      BY DEF Socks, Version, NoAuthentication, Byte, Origin
    <3>. QED BY <3>1 DEF Bytes
  <2>. HIDE DEF reply, received
  <2>3. PICK taken \in Accepted(reply) : replies' = replies \o taken
    BY <1>7 DEF Reply
  <2>4. /\ taken \in Bytes /\ Len(taken) \in Nat /\ Len(taken) <= 2
        /\ script.sends # "short" => Len(taken) = 2
    BY <2>2, AcceptedLength
  <2>5. replies' = taken
    BY <1>1, <2>3, <2>4 DEF HoldsGreeting, Bytes
  <2>6. buffer'["client"] = SubSeq(d, n + 1, n)
    <3>1. SubSeq(d, n + 1, n) = <<>>
      BY <1>0, <1>2, NothingHeld
    <3>. QED BY <1>0, <1>5, <1>7, <3>1 DEF Keep
  <2>7. n \in 3 .. g /\ n <= g + r /\ host' = <<>>
    BY <1>1, <1>3, <2>1 DEF HoldsGreeting
  <2>8. HoldsRequest(g, r)'
    <3>1. (Len(replies) <= 2 /\ (script.sends # "short" => Len(replies) = 2))'
      BY <1>1, <2>4, <2>5
    <3>2. \E k \in 3 .. g : k <= n /\ buffer'["client"] = SubSeq(d, k + 1, n)
      BY <2>6, <2>7
    <3>. QED BY <1>2, <1>5, <2>7, <3>1, <3>2 DEF HoldsRequest
  <2>. QED BY <1>7, <2>8 DEF SocksInv, TLSFlow
<1>. QED BY <1>6, <1>7 DEF ClientHelloTransmission, Refused

\* x is read behind the k-th byte of a client that sends a greeting of g bytes and a
\* request of r bytes.
ReadBehind(d, g, r, k, n, x) ==
  /\ d \in Bytes /\ g \in Nat /\ r \in Nat /\ g >= 3 /\ r >= 5 /\ g + r <= Len(d)
  /\ \A i \in 7 .. g + 3 : d[i].val # DomainName
  /\ d[g + 4].val = DomainName => r = 7 + d[g + 5].val
  /\ k \in 3 .. g /\ n \in Nat /\ k <= n /\ n <= g + r
  /\ x = SubSeq(d, k + 1, n)

\* The name of a request for one.
LEMMA NameOfRequest ==
  ASSUME NEW d, NEW g, NEW r, NEW k, NEW n, NEW x, ReadBehind(d, g, r, k, n, x),
         IsValidConnectionRequestMessage(x), GetDestinationAddressType(x) = DomainName
  PROVE  /\ k = g /\ n = g + r /\ d[g + 4].val = DomainName
         /\ GetDestinationAddress(x) = SubSeq(d, g + 6, g + 5 + d[g + 5].val)
<1>a. /\ d \in Bytes /\ g \in Nat /\ r \in Nat /\ g >= 3 /\ r >= 5 /\ g + r <= Len(d)
      /\ \A i \in 7 .. g + 3 : d[i].val # DomainName
      /\ d[g + 4].val = DomainName => r = 7 + d[g + 5].val
      /\ k \in 3 .. g /\ n \in Nat /\ k <= n /\ n <= g + r
      /\ x = SubSeq(d, k + 1, n)
  BY DEF ReadBehind
<1>. USE <1>a
<1>0. n <= Len(d) /\ k \in Nat /\ Len(d) \in Nat
  BY LengthType
<1>1. x \in Bytes /\ Len(x) = n - k /\ \A i \in 1 .. n - k : x[i] = d[k + i]
  BY <1>0, PieceType
<1>2. Len(x) >= 5 /\ Len(x) = 4 + x[5].val + 2 + 1 /\ x[4].val = DomainName
  BY <1>1 DEF IsValidConnectionRequestMessage, HasRequestLength, GetDestinationAddressType,
              DomainName, IPv4, IPv6
<1>3. 4 \in 1 .. n - k /\ 5 \in 1 .. n - k
  BY <1>0, <1>1, <1>2
<1>4. x[4] = d[k + 4] /\ x[5] = d[k + 5]
  BY <1>1, <1>3
<1>5. k = g
  <2>1. k + 4 \notin 7 .. g + 3
    BY <1>2, <1>4
  <2>. QED BY <1>0, <2>1
<1>6. d[g + 4].val = DomainName /\ r = 7 + d[g + 5].val
  BY <1>2, <1>4, <1>5
<1>7. d[g + 5].val \in Nat
  <2>1. d[g + 5] \in Byte
    BY <1>0 DEF Bytes
  <2>. QED BY <2>1 DEF Byte
<1>8. n = g + r
  <2>1. n - g = 4 + d[g + 5].val + 2 + 1
    BY <1>1, <1>2, <1>4, <1>5
  <2>. DEFINE v == d[g + 5].val
  <2>2. v \in Nat /\ n - g = 4 + v + 2 + 1 /\ r = 7 + v
    BY <1>6, <1>7, <2>1
  <2>. HIDE DEF v
  <2>. QED BY <2>2
<1>. DEFINE size == d[g + 5].val
            a == SubSeq(x, 5 + 1, 5 + size)
            b == SubSeq(d, (g + 5) + 1, g + 5 + size)
<1>9. size \in Nat /\ r = 7 + size
  BY <1>6, <1>7
<1>. HIDE DEF size
<1>10. a \in Bytes /\ Len(a) = (5 + size) - 5 /\ \A i \in 1 .. (5 + size) - 5 : a[i] = x[5 + i]
  <2>. DEFINE m == 5 + size
  <2>1. m \in Nat /\ 5 <= m /\ m <= Len(x) /\ 5 \in Nat
    BY <1>0, <1>1, <1>5, <1>8, <1>9
  <2>2. /\ SubSeq(x, 5 + 1, m) \in Bytes /\ Len(SubSeq(x, 5 + 1, m)) = m - 5
        /\ \A i \in 1 .. m - 5 : SubSeq(x, 5 + 1, m)[i] = x[5 + i]
    <3>. HIDE DEF m
    <3>. QED BY <1>1, <2>1, PieceType
  <2>. QED BY <2>2
<1>11. b \in Bytes /\ Len(b) = size /\ \A i \in 1 .. size : b[i] = d[(g + 5) + i]
  <2>. DEFINE e == g + 5
              m == g + 5 + size
  <2>1. m \in Nat /\ e \in Nat /\ e <= m /\ m <= Len(d) /\ m - e = size
    BY <1>0, <1>8, <1>9
  <2>2. /\ SubSeq(d, e + 1, m) \in Bytes /\ Len(SubSeq(d, e + 1, m)) = m - e
        /\ \A i \in 1 .. m - e : SubSeq(d, e + 1, m)[i] = d[e + i]
    <3>. HIDE DEF m, e
    <3>. QED BY <2>1, PieceType
  <2>. QED BY <2>1, <2>2
<1>. HIDE DEF a, b
<1>12. ASSUME NEW i \in 1 .. size PROVE a[i] = b[i]
  <2>1. 5 + i \in 1 .. n - k /\ k + (5 + i) = (g + 5) + i /\ i \in 1 .. (5 + size) - 5
    BY <1>0, <1>5, <1>8, <1>9
  <2>2. x[5 + i] = d[k + (5 + i)]
    BY <1>1, <2>1
  <2>. QED BY <1>10, <1>11, <2>1, <2>2
<1>13. a = b
  <2>1. Len(a) = Len(b) /\ Len(b) = size
    BY <1>9, <1>10, <1>11
  <2>. QED BY <1>10, <1>11, <1>12, <2>1, SameBytes
<1>14. GetDestinationAddress(x) = a
  <2>1. x[5].val = size
    BY <1>4, <1>5 DEF size
  <2>2. 5 + 1 = 6
    OBVIOUS
  <2>. QED BY <2>1, <2>2 DEF GetDestinationAddress, a
<1>15. b = SubSeq(d, g + 6, g + 5 + size)
  <2>1. (g + 5) + 1 = g + 6
    OBVIOUS
  <2>. QED BY <2>1 DEF b
<1>. QED BY <1>5, <1>6, <1>8, <1>13, <1>14, <1>15 DEF size

\* SOCKS5ConnectionRequestTransmission takes the request of a polite client as one.
LEMMA ServedRequest ==
  ASSUME TInv, NEW g \in Nat, NEW r \in Nat, g >= 3, r >= 5, PoliteClientOf(script, g, r),
         SocksInv(g, r), NEW chunk \in Chunks("client"), ConnectionRequestTransmission(chunk)
  PROVE  SocksInv(g, r)'
<1>. DEFINE received == buffer["client"] \o chunk
            d == Stream("client")
<1>0. "client" \in Side /\ PeersOK /\ d \in Bytes
  BY StreamType DEF Side, TInv
<1>1. /\ flow = "SOCKS5ConnectionRequest" /\ Read("client", chunk) /\ UNCHANGED <<script, flow, replies>>
      /\ host = <<>> /\ Keep("client", received)
      /\ host' = IF IsValidConnectionRequestMessage(received)
                 THEN TryConnectToTheServer(received) ELSE <<>>
      /\ HoldsRequest(g, r)
  BY DEF ConnectionRequestTransmission, SocksInv, NoSend
<1>2. PICK n \in Nat : /\ NextBytes("client", n, chunk) /\ n <= Arrived("client")
                       /\ n <= Len(d) /\ got["client"] <= n /\ got'["client"] = n
  BY <1>1, ClientReadIs
<1>3. n <= g + r
  <2>1. Len(replies) < 2 + r
    BY <1>1, LengthType DEF HoldsRequest, TInv
  <2>2. Arrived("client") <= g + r /\ Arrived("client") \in Nat
    BY <1>0, <2>1, PoliteArrival, ArrivedIs
  <2>. QED BY <1>2, <2>2
<1>4. PICK k \in 3 .. g :
        /\ k <= got["client"]
        /\ buffer["client"] = SubSeq(d, k + 1, got["client"])
  BY <1>1 DEF HoldsRequest
<1>5. k \in Nat /\ k <= n
  BY <1>0, <1>2, <1>4 DEF PeersOK
<1>6. received = SubSeq(d, k + 1, n)
  BY <1>0, <1>2, <1>4, <1>5, HeldAndRead
<1>7. UNCHANGED d /\ buffer'["client"] = SubSeq(d, k + 1, n)
  BY <1>0, <1>1, <1>6 DEF Stream, TInv, Keep
<1>8. /\ host' \in {<<>>, script.host}
      /\ host' # <<>> => k = g /\ n = g + r /\ d[g + 4].val = DomainName
  <2>1. CASE IsValidConnectionRequestMessage(received) /\ GetDestinationAddressType(received) = DomainName
    <3>1. /\ d = script.client
          /\ g + r <= Len(d) /\ \A i \in 7 .. g + 3 : d[i].val # DomainName
          /\ d[g + 4].val = DomainName =>
               r = 7 + d[g + 5].val /\ script.host = SubSeq(d, g + 6, g + 5 + d[g + 5].val)
      BY DEF PoliteClientOf, Stream
    <3>. HIDE DEF received, d
    <3>a. ReadBehind(d, g, r, k, n, received)
      BY <1>0, <1>3, <1>5, <1>6, <3>1 DEF ReadBehind
    <3>2. /\ k = g /\ n = g + r /\ d[g + 4].val = DomainName
          /\ GetDestinationAddress(received) = SubSeq(d, g + 6, g + 5 + d[g + 5].val)
      BY <2>1, <3>a, NameOfRequest
    <3>3. host' = GetDestinationAddress(received)
      BY <1>1, <2>1 DEF TryConnectToTheServer
    <3>. QED BY <3>1, <3>2, <3>3
  <2>2. CASE ~(IsValidConnectionRequestMessage(received) /\ GetDestinationAddressType(received) = DomainName)
    <3>1. host' = <<>>
      BY <1>1, <2>2 DEF TryConnectToTheServer
    <3>. QED BY <3>1
  <2>. QED BY <2>1, <2>2
<1>9. HoldsRequest(g, r)'
  BY <1>1, <1>2, <1>3, <1>4, <1>5, <1>7, <1>8 DEF HoldsRequest
<1>. QED BY <1>1, <1>9 DEF SocksInv, TLSFlow

\* SOCKS5ConnectionRequestReply answers the request of a polite client.
LEMMA ServedReply ==
  ASSUME TInv, NEW g \in Nat, NEW r \in Nat, g >= 3, r >= 5, PoliteClientOf(script, g, r),
         SocksInv(g, r), ConnectionRequestReply
  PROVE  SocksInv(g, r)'
<1>. DEFINE d == Stream("client")
            x == buffer["client"]
            reply == ConnectionRequestReplyOf(x)
<1>0. "client" \in Side /\ PeersOK /\ d \in Bytes /\ Len(d) \in Nat /\ script.host \in Bytes
  BY StreamType DEF Side, TInv
<1>1. /\ flow = "SOCKS5ConnectionRequest" /\ host # <<>> /\ UNCHANGED <<script, got, host>>
      /\ HoldsRequest(g, r)
      /\ \/ Reply(reply) /\ flow' = "TLSClientHello"
         \/ NoSend /\ UNCHANGED <<flow, buffer>>
  BY DEF ConnectionRequestReply, SocksInv, Refused
<1>2. CASE NoSend /\ UNCHANGED <<flow, buffer>>
  BY <1>1, <1>2 DEF SocksInv, HoldsRequest, NoSend, TLSFlow, Stream
<1>3. CASE Reply(reply) /\ flow' = "TLSClientHello"
  <2>1. /\ x = SubSeq(d, g + 1, g + r) /\ d[g + 4].val = DomainName /\ host = script.host
        /\ (script.sends # "short" => Len(replies) = 2)
    BY <1>1 DEF HoldsRequest
  <2>2. /\ g + r <= Len(d)
        /\ r = 7 + d[g + 5].val /\ script.host = SubSeq(d, g + 6, g + 5 + d[g + 5].val)
    BY <2>1 DEF PoliteClientOf, Stream
  <2>. DEFINE size == d[g + 5].val
              h == script.host
  <2>3. size \in Nat
    <3>1. d[g + 5] \in Byte
      BY <1>0, <2>2 DEF Bytes
    <3>. QED BY <3>1 DEF Byte
  <2>. HIDE DEF size
  <2>4. r = 7 + size
    BY <2>2 DEF size
  <2>5. h \in Bytes /\ Len(h) = size /\ \A i \in 1 .. size : h[i] = d[(g + 5) + i]
    <3>. DEFINE e == g + 5
                m == g + 5 + size
    <3>1. m \in Nat /\ e \in Nat /\ e <= m /\ m <= Len(d) /\ m - e = size /\ e + 1 = g + 6
      BY <1>0, <2>2, <2>3, <2>4
    <3>2. /\ SubSeq(d, e + 1, m) \in Bytes /\ Len(SubSeq(d, e + 1, m)) = m - e
          /\ \A i \in 1 .. m - e : SubSeq(d, e + 1, m)[i] = d[e + i]
      <4>. HIDE DEF m, e, d
      <4>. QED BY <1>0, <3>1, PieceType
    <3>3. h = SubSeq(d, e + 1, m)
      BY <2>2, <3>1 DEF size
    <3>. HIDE DEF h
    <3>. QED BY <3>1, <3>2, <3>3
  <2>6. x \in Bytes /\ Len(x) = r /\ \A i \in 1 .. r : x[i] = d[g + i]
    <3>. DEFINE m == g + r
    <3>1. m \in Nat /\ g <= m /\ m <= Len(d) /\ m - g = r
      BY <2>2
    <3>2. /\ SubSeq(d, g + 1, m) \in Bytes /\ Len(SubSeq(d, g + 1, m)) = m - g
          /\ \A i \in 1 .. m - g : SubSeq(d, g + 1, m)[i] = d[g + i]
      <4>. HIDE DEF m, d
      <4>. QED BY <1>0, <3>1, PieceType
    <3>. HIDE DEF x
    <3>. QED BY <2>1, <3>1, <3>2
  <2>. HIDE DEF x, d, h
  <2>7. reply \in Bytes /\ Len(reply) = r /\ \A i \in 5 .. r : reply[i] = x[i]
    BY <2>6, RequestReplyIs
  <2>. HIDE DEF reply
  <2>8. script.sends # "short" => SubSeq(replies', 8, 7 + Len(h)) = h
    <3>. SUFFICES ASSUME script.sends # "short" PROVE SubSeq(replies', 8, 7 + Len(h)) = h
      OBVIOUS
    <3>1. replies' = replies \o reply
      BY <1>3, <2>7, AcceptedType DEF Reply
    <3>2. Len(replies) = 2 /\ replies \in Bytes
      BY <2>1 DEF TInv
    <3>. DEFINE y == replies \o reply
    <3>3. y \in Bytes /\ Len(y) = 2 + r /\ \A i \in 1 .. r : y[2 + i] = reply[i]
      <4>1. /\ y \in Bytes /\ Len(y) = Len(replies) + Len(reply)
            /\ \A i \in 1 .. Len(reply) : y[Len(replies) + i] = reply[i]
        BY <2>7, <3>2, JoinType
      <4>. HIDE DEF y
      <4>. QED BY <2>7, <3>2, <4>1
    <3>. HIDE DEF y
    <3>. DEFINE m == 7 + size
                z == SubSeq(y, 7 + 1, m)
    <3>4. 7 \in Nat /\ m \in Nat /\ 7 <= m /\ m <= Len(y) /\ m - 7 = size
      BY <2>3, <2>4, <3>3
    <3>5. z \in Bytes /\ Len(z) = m - 7 /\ \A i \in 1 .. m - 7 : z[i] = y[7 + i]
      <4>. HIDE DEF m
      <4>. QED BY <3>3, <3>4, PieceType
    <3>6. ASSUME NEW i \in 1 .. size PROVE z[i] = h[i]
      <4>1. 5 + i \in 1 .. r /\ 5 + i \in 5 .. r /\ 2 + (5 + i) = 7 + i /\ g + (5 + i) = (g + 5) + i
        BY <2>3, <2>4
      <4>2. z[i] = y[7 + i]
        BY <3>4, <3>5
      <4>3. y[2 + (5 + i)] = reply[5 + i] /\ reply[5 + i] = x[5 + i] /\ x[5 + i] = d[g + (5 + i)]
        BY <2>6, <2>7, <3>3, <4>1
      <4>. HIDE DEF z
      <4>. QED BY <2>5, <4>1, <4>2, <4>3
    <3>7. z = h
      <4>. HIDE DEF z
      <4>1. Len(z) = Len(h) /\ Len(h) = size
        BY <2>5, <3>4, <3>5
      <4>. QED BY <2>5, <3>5, <3>6, <4>1, SameBytes
    <3>8. 7 + 1 = 8 /\ m = 7 + Len(h)
      BY <2>5
    <3>9. SubSeq(y, 8, 7 + Len(h)) = h
      BY <3>7, <3>8
    <3>. QED BY <3>1, <3>9 DEF y
  <2>9. HasServed'
    BY <1>1, <2>1, <2>8 DEF HasServed, h
  <2>. QED BY <1>3, <2>9 DEF SocksInv
<1>. QED BY <1>1, <1>2, <1>3

\* Nothing of the greeting has been read when the conversation is accepted.
LEMMA ServedInit == TInv /\ Init => RInv
<1>. SUFFICES ASSUME TInv, Init, NEW g \in Nat, NEW r \in Nat, g >= 3 PROVE SocksInv(g, r)
  BY DEF RInv
<1>1. /\ got = [s \in Side |-> 0] /\ buffer = [s \in Side |-> <<>>] /\ replies = <<>>
      /\ flow = "SOCKS5ClientHello" /\ host = <<>>
  BY DEF Init, ConnectionsInit
<1>2. Stream("client") \in Bytes /\ Len(Stream("client")) \in Nat
  BY StreamType DEF TInv, Side
<1>3. SubSeq(Stream("client"), 0 + 1, 0) = <<>>
  BY <1>2, NothingHeld
<1>4. HoldsGreeting(g)
  BY <1>1, <1>3 DEF HoldsGreeting, Side
<1>. QED BY <1>1, <1>4 DEF SocksInv, TLSFlow

\* The TLS flows leave the replies and the name alone, and never go back to SOCKS5.
LEMMA ServedTLS ==
  ASSUME TInv, NEW g, NEW r, SocksInv(g, r), TLSNext, UNCHANGED host
  PROVE  SocksInv(g, r)'
<1>1. flow \in TLSFlow /\ flow' \in TLSFlow /\ UNCHANGED <<script, replies>>
  <2>1. ASSUME NEW chunk, TLSReceivingClientHello(chunk)
        PROVE  flow \in TLSFlow /\ flow' \in TLSFlow /\ UNCHANGED <<script, replies>>
    BY <2>1 DEF TLSReceivingClientHello, Send, NoSend, Refused, TLSFlow
  <2>2. ASSUME NEW chunk, RestOfRecord(chunk)
        PROVE  flow \in TLSFlow /\ flow' \in TLSFlow /\ UNCHANGED <<script, replies>>
    BY <2>2 DEF RestOfRecord, NoSend, TLSFlow
  <2>3. ASSUME NEW chunk, TLSReceivingServerHello(chunk)
        PROVE  flow \in TLSFlow /\ flow' \in TLSFlow /\ UNCHANGED <<script, replies>>
    BY <2>3 DEF TLSReceivingServerHello, Send, NoSend, Refused, TLSFlow
  <2>4. ASSUME NEW s, NEW chunk, TLSDefault(s, chunk)
        PROVE  flow \in TLSFlow /\ flow' \in TLSFlow /\ UNCHANGED <<script, replies>>
    BY <2>4 DEF TLSDefault, Send, NoSend, Refused, TLSFlow
  <2>. QED BY <2>1, <2>2, <2>3, <2>4 DEF TLSNext
<1>. QED BY <1>1 DEF SocksInv, HasServed, TLSFlow

\* Every step serves a polite client.
LEMMA ServedStep == TInv /\ RInv /\ [Next]_vars => RInv'
<1>. SUFFICES ASSUME TInv, RInv, [Next]_vars, NEW g \in Nat, NEW r \in Nat, g >= 3, r >= 5,
                     PoliteClientOf(script, g, r)'
              PROVE  SocksInv(g, r)'
  BY DEF RInv
<1>1. UNCHANGED script
  BY DEF Next, vars, connections, Socks5Next, TLSNext, ClientHelloTransmission,
         ConnectionRequestTransmission, ConnectionRequestReply, TLSReceivingClientHello,
         RestOfRecord, TLSReceivingServerHello, TLSDefault
<1>2. PoliteClientOf(script, g, r) /\ SocksInv(g, r)
  BY <1>1 DEF RInv
<1>3. CASE UNCHANGED vars
  BY <1>2, <1>3 DEF vars, connections, SocksInv, HoldsGreeting, HoldsRequest, HasServed, Stream
<1>. QED BY <1>2, <1>3, ServedGreeting, ServedRequest, ServedReply, ServedTLS DEF Next, Socks5Next

\* The proxy connects to the name a polite client asked for and to no other, and repeats
\* it in its reply, however the network cuts greeting and request and whenever the
\* greeting is answered.
THEOREM PoliteRequestServed == Spec => [](PoliteClient(script) => RequestServed)
<1>1. TInv /\ RInv => (PoliteClient(script) => RequestServed)
  <2>. SUFFICES ASSUME TInv, RInv, PoliteClient(script) PROVE RequestServed
    OBVIOUS
  <2>1. PICK g \in 3 .. Len(script.client), r \in 5 .. Len(script.client) :
          PoliteClientOf(script, g, r)
    BY DEF PoliteClient
  <2>2. SocksInv(g, r)
    BY <2>1 DEF RInv
  <2>3. host \in {<<>>, script.host}
    BY <2>2 DEF SocksInv, HoldsGreeting, HoldsRequest, HasServed, TInv, SOCKS5Flow
  <2>4. Len(replies) > 2 /\ script.sends # "short" =>
          SubSeq(replies, 8, 7 + Len(script.host)) = script.host
    BY <2>2 DEF SocksInv, HoldsGreeting, HoldsRequest, HasServed, TInv, SOCKS5Flow
  <2>. QED BY <2>3, <2>4 DEF RequestServed
<1>. QED BY <1>1, TInvInit, TInvStep, ServedInit, ServedStep, PTL DEF Spec

-----------------------------------------------------------------------------
(* The order of what is relayed. *)

\* Where records of s end in the exchange.
EndsOf(g, r, s) == {IF s = "client" THEN g + r ELSE 0} \cup script.ends[s]

\* Between the places of E, s sends records.
StreamIn(E, s) ==
  /\ E \subseteq Nat
  /\ \A n \in E : n <= Len(Stream(s)) /\ RecordsFrom(Stream(s), E, n)

\* What the partner of s has got is drawn from the first k bytes of s, and has all their
\* content when the kernel takes all it is sent.
Relayed(s, k) ==
  /\ Draws(sentTo[Other(s)], SubSeq(Stream(s), 1, k))
  /\ script.sends = "all" => Carries(sentTo[Other(s)], SubSeq(Stream(s), 1, k))

Holds(s, k) ==
  /\ k <= got[s] /\ buffer[s] = SubSeq(Stream(s), k + 1, got[s])
  /\ Relayed(s, k)

\* The proxy holds what it has read of s and not relayed, from the end of a record to
\* the end of one.
KeepsRecords(E, s) == got[s] \in E /\ \E k \in E : Holds(s, k)

OrderInv(g, r) ==
  /\ payload = <<>> /\ waiting = FALSE /\ expected = 0 /\ crashed = FALSE
  /\ flow \in SOCKS5Flow =>
       /\ \A s \in Side : sentTo[s] = <<>>
       /\ got["server"] = 0 /\ buffer["server"] = <<>>
  /\ flow \in TLSFlow => \A s \in Side : KeepsRecords(EndsOf(g, r, s), s)
  /\ flow = "TLSClientHello" => sentTo["client"] = <<>> /\ buffer["server"] = <<>>
  /\ flow = "TLSServerHello" => sentTo["client"] = <<>>
  /\ flow \in {"TLSServerHello", "TLSDefault"} /\ script.sends = "all" =>
       \A s \in Side : buffer[s] = <<>>

OInv ==
  \A g, r, h, e \in Nat : g >= 3 /\ r >= 5 /\ CutAtRecordsOf(script, g, r, h, e) => OrderInv(g, r)

\* What CutAtRecordsOf says of a stream.
LEMMA EndsAre ==
  ASSUME PeersOK, NEW g \in Nat, NEW r \in Nat, NEW h, NEW e, CutAtRecordsOf(script, g, r, h, e),
         NEW s \in Side
  PROVE  /\ StreamIn(EndsOf(g, r, s), s)
         /\ (IF s = "client" THEN g + r ELSE 0) \in EndsOf(g, r, s)
         /\ \A b \in ContentOf(Stream(s)) : b.from = s
         /\ \A i \in ContentPlaces(Stream(s)) : (IF s = "client" THEN g + r ELSE 0) < i
         /\ \A n : MayEnd(s, n) /\ flow \in TLSFlow => n \in EndsOf(g, r, s)
<1>. DEFINE E == EndsOf(g, r, s)
            start == IF s = "client" THEN g + r ELSE 0
            d == Stream(s)
            next(k) == k + RecordHeader + d[k + RecordHeader].val
<1>1. d \in Bytes /\ Len(d) \in Nat /\ d = script[s]
  BY StreamType DEF Stream
<1>2. SendsRecords(script, s, start, E)
  BY DEF CutAtRecordsOf, Side, EndsOf
<1>3. E \subseteq 0 .. Len(d) /\ InOrder(d)
  BY <1>1, <1>2 DEF SendsRecords
<1>4. \A k \in E : \A n \in E :
          k < n => /\ k + RecordHeader < next(k) /\ next(k) <= n /\ next(k) \in E
                   /\ \A i \in 1 .. RecordHeader : k + i \notin ContentPlaces(d)
  <2>. HIDE DEF E, start
  <2>. QED BY <1>1, <1>2 DEF SendsRecords
<1>5. \A i \in ContentPlaces(d) : start < i /\ d[i].from = s
  <2>. HIDE DEF E, start
  <2>. QED BY <1>1, <1>2 DEF SendsRecords
<1>6. start \in E
  BY DEF EndsOf
<1>7. \A n : MayEnd(s, n) /\ flow \in TLSFlow => n \in E
  BY DEF MayEnd, CutAtRecordsOf, SOCKS5Flow, TLSFlow, EndsOf
<1>. HIDE DEF d, E
<1>8. StreamIn(E, s)
  <2>1. E \subseteq Nat /\ \A n \in E : n <= Len(d) /\ n \in Nat
    BY <1>1, <1>3
  <2>2. ASSUME NEW n \in E PROVE RecordsFrom(d, E, n)
    BY <1>1, <1>3, <1>4, <2>1 DEF RecordsFrom
  <2>. QED BY <2>1, <2>2 DEF StreamIn, d
<1>9. \A b \in ContentOf(d) : b.from = s
  BY <1>5 DEF ContentOf
<1>. QED BY <1>5, <1>6, <1>7, <1>8, <1>9 DEF d, E

\* A piece of such a stream.
LEMMA StreamPieces ==
  ASSUME PeersOK, NEW s \in Side, NEW E, StreamIn(E, s), NEW k \in E, NEW n \in E, k <= n
  PROVE  LET d == Stream(s)
         IN /\ d \in Bytes /\ k \in Nat /\ n \in Nat /\ n <= Len(d)
            /\ SubSeq(d, 1, k) \in Bytes /\ SubSeq(d, k + 1, n) \in Bytes /\ SubSeq(d, 1, n) \in Bytes
            /\ SubSeq(d, 1, k) \o SubSeq(d, k + 1, n) = SubSeq(d, 1, n)
            /\ InOrder(SubSeq(d, 1, n)) /\ InOrder(SubSeq(d, k + 1, n))
            /\ ContentOf(SubSeq(d, 1, n)) \subseteq ContentOf(d)
            /\ ContentOf(SubSeq(d, 1, n)) = ContentOf(SubSeq(d, 1, k)) \cup ContentOf(SubSeq(d, k + 1, n))
<1>. DEFINE d == Stream(s)
<1>1. d \in Bytes /\ k \in Nat /\ n \in Nat /\ n <= Len(d) /\ InOrder(d) /\ k <= Len(d)
  BY StreamType DEF StreamIn, RecordsFrom
<1>. HIDE DEF d
<1>2. SubSeq(d, 1, k) \in Bytes /\ SubSeq(d, 1, n) \in Bytes
  BY <1>1, TakeType
<1>3. SubSeq(d, k + 1, n) \in Bytes
  BY <1>1, PieceType
<1>4. SubSeq(d, 1, k) \o SubSeq(d, k + 1, n) = SubSeq(d, 1, n)
  <2>1. SubSeq(d, 0 + 1, k) \o SubSeq(d, k + 1, n) = SubSeq(d, 0 + 1, n)
    BY <1>1, PieceJoin
  <2>2. 0 + 1 = 1
    OBVIOUS
  <2>. QED BY <2>1, <2>2
<1>5. InOrder(SubSeq(d, 1, n)) /\ ContentOf(SubSeq(d, 1, n)) \subseteq ContentOf(d)
  <2>1. InOrder(SubSeq(d, 0 + 1, n)) /\ ContentOf(SubSeq(d, 0 + 1, n)) \subseteq ContentOf(d)
    BY <1>1, PieceInOrder
  <2>2. 0 + 1 = 1
    OBVIOUS
  <2>. QED BY <2>1, <2>2
<1>6. InOrder(SubSeq(d, k + 1, n))
  BY <1>1, PieceInOrder
<1>7. ContentOf(SubSeq(d, 1, n)) = ContentOf(SubSeq(d, 1, k)) \cup ContentOf(SubSeq(d, k + 1, n))
  <2>1. ContentOf(SubSeq(d, 1, k) \o SubSeq(d, k + 1, n))
          = ContentOf(SubSeq(d, 1, k)) \cup ContentOf(SubSeq(d, k + 1, n))
    BY <1>2, <1>3, ContentOfJoin
  <2>. QED BY <1>4, <2>1
<1>. QED BY <1>1, <1>2, <1>3, <1>4, <1>5, <1>6, <1>7 DEF d

\* What a socket takes is drawn from what it is sent.
LEMMA TakenContent ==
  ASSUME NEW d \in Bytes, InOrder(d), NEW taken \in Accepted(d)
  PROVE  /\ taken \in Bytes /\ Draws(taken, d)
         /\ script.sends = "all" => taken = d
<1>. DEFINE n == (Len(d) + 1) \div 2
<1>1. taken \in Bytes /\ (script.sends # "short" => taken = d)
  BY AcceptedLength
<1>2. Len(d) \in Nat
  BY LengthType
<1>3. n \in Nat /\ n <= Len(d)
  BY <1>2
<1>. HIDE DEF n
<1>4. Draws(SubSeq(d, 1, n), d)
  <2>1. InOrder(SubSeq(d, 0 + 1, n)) /\ ContentOf(SubSeq(d, 0 + 1, n)) \subseteq ContentOf(d)
    BY <1>3, PieceInOrder
  <2>2. 0 + 1 = 1
    OBVIOUS
  <2>3. InOrder(SubSeq(d, 1, n)) /\ ContentOf(SubSeq(d, 1, n)) \subseteq ContentOf(d)
    BY <2>1, <2>2
  <2>. QED BY <2>3 DEF Draws
<1>5. Draws(d, d)
  BY DEF Draws
<1>6. taken = d \/ taken = SubSeq(d, 1, n)
  BY DEF Accepted, n
<1>7. Draws(taken, d)
  BY <1>4, <1>5, <1>6
<1>8. script.sends = "all" => taken = d
  BY <1>1
<1>. QED BY <1>1, <1>7, <1>8

\* The bytes behind the k-th one up to the n-th one are relayed.
LEMMA RelaysMore ==
  ASSUME TInv, UNCHANGED script, NEW s \in Side, NEW E, StreamIn(E, s),
         NEW k \in E, NEW n \in E, k <= n, Relayed(s, k),
         NEW d \in Bytes, Carries(d, SubSeq(Stream(s), k + 1, n)), Send(Other(s), d)
  PROVE  Relayed(s, n)'
<1>. DEFINE x == SubSeq(Stream(s), 1, k)
            y == SubSeq(Stream(s), k + 1, n)
            z == SubSeq(Stream(s), 1, n)
            a == sentTo[Other(s)]
<1>0. Other(s) \in Side /\ PeersOK
  BY DEF TInv, Side, Other
<1>1. x \in Bytes /\ y \in Bytes /\ z \in Bytes /\ x \o y = z /\ InOrder(z)
  BY <1>0, StreamPieces
<1>2. UNCHANGED z
  BY DEF Stream
<1>3. PICK taken \in Accepted(d) : sentTo' = [sentTo EXCEPT ![Other(s)] = @ \o taken]
  BY DEF Send
<1>4. /\ taken \in Bytes /\ Draws(taken, d)
      /\ script.sends = "all" => taken = d
  BY TakenContent DEF Carries
<1>5. a \in Bytes /\ sentTo'[Other(s)] = a \o taken
  BY <1>0, <1>3 DEF TInv
<1>6. Draws(a, x) /\ (script.sends = "all" => Carries(a, x))
  BY DEF Relayed
<1>7. Draws(taken, y) /\ (script.sends = "all" => Carries(taken, y))
  BY <1>4 DEF Draws, Carries
<1>. HIDE DEF x, y, z, a
<1>8. Draws(a \o taken, z) /\ (script.sends = "all" => Carries(a \o taken, z))
  BY <1>1, <1>4, <1>5, <1>6, <1>7, DrawsJoin
<1>. QED BY <1>2, <1>5, <1>8 DEF Relayed, z

\* Nothing more of s is relayed; when the kernel takes all, nothing is passed over.
LEMMA RelaysNoMore ==
  ASSUME TInv, UNCHANGED script, NEW s \in Side, NEW E, StreamIn(E, s),
         NEW k \in E, NEW n \in E, k <= n, Relayed(s, k),
         script.sends # "all" \/ k = n, sentTo'[Other(s)] = sentTo[Other(s)]
  PROVE  Relayed(s, n)'
<1>. DEFINE x == SubSeq(Stream(s), 1, k)
            z == SubSeq(Stream(s), 1, n)
<1>0. PeersOK
  BY DEF TInv
<1>1. ContentOf(x) \subseteq ContentOf(z)
  BY <1>0, StreamPieces
<1>2. UNCHANGED z
  BY DEF Stream
<1>3. /\ Draws(sentTo[Other(s)], x)
      /\ script.sends = "all" => Carries(sentTo[Other(s)], x)
  BY DEF Relayed
<1>4. k = n => x = z
  OBVIOUS
<1>. HIDE DEF x, z
<1>5. /\ Draws(sentTo[Other(s)], z)
      /\ script.sends = "all" => Carries(sentTo[Other(s)], z)
  BY <1>1, <1>3, <1>4 DEF Draws
<1>. QED BY <1>2, <1>5 DEF Relayed, z

\* A step that does not read from s, and forgets what it held only where that may be.
LEMMA KeepsWithoutRead ==
  ASSUME TInv, UNCHANGED script, NEW s \in Side, NEW E, StreamIn(E, s), KeepsRecords(E, s),
         got'[s] = got[s], sentTo'[Other(s)] = sentTo[Other(s)],
         \/ buffer'[s] = buffer[s]
         \/ buffer'[s] = <<>> /\ (script.sends # "all" \/ buffer[s] = <<>>)
  PROVE  KeepsRecords(E, s)'
<1>. DEFINE n == got[s]
<1>0. PeersOK
  BY DEF TInv
<1>1. n \in E
  BY DEF KeepsRecords
<1>2. PICK k \in E : Holds(s, k)
  BY DEF KeepsRecords
<1>3. UNCHANGED Stream(s)
  BY DEF Stream
<1>4. k <= n /\ Stream(s) \in Bytes /\ k \in Nat /\ n \in Nat /\ n <= Len(Stream(s))
  BY <1>0, <1>1, <1>2, StreamPieces DEF Holds
<1>5. CASE buffer'[s] = buffer[s]
  <2>1. Relayed(s, k)'
    BY <1>2, <1>3 DEF Holds, Relayed
  <2>2. Holds(s, k)'
    BY <1>2, <1>3, <1>5, <2>1 DEF Holds
  <2>. QED BY <1>1, <2>2 DEF KeepsRecords
<1>6. CASE buffer'[s] = <<>> /\ (script.sends # "all" \/ buffer[s] = <<>>)
  <2>1. buffer[s] = <<>> => k = n
    <3>1. Len(SubSeq(Stream(s), k + 1, n)) = n - k
      BY <1>4, PieceType
    <3>2. Len(<<>>) = 0
      BY EmptyIsBytes, LengthOfEmpty
    <3>3. buffer[s] = SubSeq(Stream(s), k + 1, n)
      BY <1>2 DEF Holds
    <3>. HIDE DEF n
    <3>4. buffer[s] = <<>> => n - k = 0
      BY <3>1, <3>2, <3>3
    <3>. QED BY <1>4, <3>4
  <2>2. Relayed(s, n)'
    BY <1>1, <1>2, <1>4, <1>6, <2>1, RelaysNoMore DEF Holds
  <2>3. SubSeq(Stream(s), n + 1, n) = <<>>
    BY <1>4, NothingHeld
  <2>4. Holds(s, n)'
    BY <1>3, <1>4, <1>6, <2>2, <2>3 DEF Holds
  <2>. QED BY <1>1, <2>4 DEF KeepsRecords
<1>. QED BY <1>5, <1>6

\* A read from s that ends at a record takes the bytes behind the k-th one up to the n-th.
Takes(E, s, k, n, received) ==
  /\ k \in E /\ n \in E /\ k < n /\ n <= Arrived(s) /\ Holds(s, k)
  /\ got'[s] = n /\ received = SubSeq(Stream(s), k + 1, n)

\* So it does.
LEMMA ReadTakes ==
  ASSUME TInv, NEW s \in Side, NEW E, StreamIn(E, s), KeepsRecords(E, s),
         NEW chunk \in Chunks(s), Read(s, chunk), \A n : MayEnd(s, n) => n \in E
  PROVE  /\ \E k, n \in E : Takes(E, s, k, n, buffer[s] \o chunk)
         /\ \A t \in Side : t # s => got'[t] = got[t]
<1>0. PeersOK
  BY DEF TInv
<1>1. PICK n \in Nat : NextBytes(s, n, chunk)
  BY <1>0, ChunkIs
<1>2. got' = [got EXCEPT ![s] = n]
  BY <1>0, <1>1, ReadIs
<1>3. PICK k \in E : Holds(s, k)
  BY DEF KeepsRecords
<1>4. k \in Nat /\ k <= got[s] /\ got[s] \in Nat /\ got[s] < n /\ n \in E /\ n <= Arrived(s)
  BY <1>0, <1>1, <1>3 DEF StreamIn, Holds, NextBytes, PeersOK
<1>5. buffer[s] \o chunk = SubSeq(Stream(s), k + 1, n)
  BY <1>0, <1>1, <1>3, <1>4, HeldAndRead DEF Holds
<1>6. got'[s] = n /\ \A t \in Side : t # s => got'[t] = got[t]
  BY <1>0, <1>2 DEF PeersOK
<1>7. Takes(E, s, k, n, buffer[s] \o chunk)
  BY <1>3, <1>4, <1>5, <1>6 DEF Takes
<1>. QED BY <1>4, <1>6, <1>7

\* What is read is kept.
LEMMA KeepsWhatIsRead ==
  ASSUME TInv, UNCHANGED script, NEW s \in Side, NEW E, StreamIn(E, s),
         NEW k, NEW n, NEW d, Takes(E, s, k, n, d),
         buffer'[s] = d, sentTo'[Other(s)] = sentTo[Other(s)]
  PROVE  KeepsRecords(E, s)'
<1>1. UNCHANGED Stream(s)
  BY DEF Stream
<1>2. Relayed(s, k)'
  BY <1>1 DEF Takes, Holds, Relayed
<1>3. k \in Nat /\ n \in Nat /\ k <= n
  BY DEF Takes, StreamIn
<1>4. Holds(s, k)'
  BY <1>1, <1>2, <1>3 DEF Holds, Takes
<1>. QED BY <1>4 DEF KeepsRecords, Takes

\* What is read is relayed.
LEMMA RelaysWhatIsRead ==
  ASSUME TInv, UNCHANGED script, NEW s \in Side, NEW E, StreamIn(E, s),
         NEW k, NEW n, NEW d, Takes(E, s, k, n, d),
         NEW x \in Bytes, Carries(x, d), Send(Other(s), x), buffer'[s] = <<>>
  PROVE  KeepsRecords(E, s)'
<1>1. UNCHANGED Stream(s) /\ PeersOK
  BY DEF Stream, TInv
<1>2. k \in E /\ n \in E /\ k \in Nat /\ n \in Nat /\ k <= n /\ Relayed(s, k) /\ d = SubSeq(Stream(s), k + 1, n)
      /\ got'[s] = n
  BY DEF Takes, StreamIn, Holds
<1>3. Relayed(s, n)'
  BY <1>2, RelaysMore
<1>4. SubSeq(Stream(s), n + 1, n) = <<>>
  <2>1. Stream(s) \in Bytes /\ n <= Len(Stream(s))
    BY <1>1, <1>2, StreamPieces
  <2>. QED BY <1>2, <2>1, NothingHeld
<1>5. Holds(s, n)'
  BY <1>1, <1>2, <1>3, <1>4 DEF Holds
<1>. QED BY <1>2, <1>5 DEF KeepsRecords

\* What follows the hellos waits for the server's: until the client has got something of
\* it, nothing of that arrives.
LEMMA HelloArrival ==
  ASSUME PeersOK, NEW h \in Nat, NEW e \in Nat, HellosFirst(script, h, e),
         sentTo["client"] = <<>>, NEW s \in Side
  PROVE  Arrived(s) <= IF s = "client" THEN h ELSE e
<1>. DEFINE limit == IF s = "client" THEN h ELSE e
<1>1. CASE Arrived(s) = 0
  BY <1>1
<1>2. CASE \E k \in DOMAIN script.flights :
             LET f == script.flights[k] IN f.from = s /\ Started(f) /\ Arrived(s) = f.end
  <2>1. PICK k \in DOMAIN script.flights :
             LET f == script.flights[k] IN f.from = s /\ Started(f) /\ Arrived(s) = f.end
    BY <1>2
  <2>. DEFINE f == script.flights[k]
  <2>2. \/ f.end <= limit
        \/ \E j \in (1 .. f.after) \cap DOMAIN script.flights :
             script.flights[j].from = "server" /\ script.flights[j].content > 0
    BY <2>1 DEF HellosFirst
  <2>3. ASSUME NEW j \in (1 .. f.after) \cap DOMAIN script.flights,
               script.flights[j].from = "server", script.flights[j].content > 0
        PROVE  FALSE
    <3>1. Delivered(j)
      BY <2>1 DEF Started
    <3>2. Other("server") = "client"
      BY DEF Other
    <3>3. Cardinality(ContentPlaces(<<>>)) >= script.flights[j].content
      BY <2>3, <3>1, <3>2 DEF Delivered
    <3>4. Cardinality(ContentPlaces(<<>>)) = 0
      BY EmptyContent, FS_EmptySet
    <3>5. script.flights[j].content \in Nat
      BY ScriptsAssumption DEF PeersOK
    <3>. QED BY <2>3, <3>3, <3>4, <3>5
  <2>4. f.end <= limit
    BY <2>2, <2>3
  <2>. QED BY <2>1, <2>4
<1>. QED BY <1>1, <1>2, ArrivedIs

\* Nothing is relayed when the conversation is accepted.
LEMMA OrderInit == TInv /\ Init => OInv
<1>. SUFFICES ASSUME TInv, Init, NEW g \in Nat, NEW r \in Nat PROVE OrderInv(g, r)
  BY DEF OInv
<1>1. /\ payload = <<>> /\ waiting = FALSE /\ expected = 0 /\ crashed = FALSE
      /\ flow = "SOCKS5ClientHello"
      /\ \A s \in Side : sentTo[s] = <<>> /\ got[s] = 0 /\ buffer[s] = <<>>
  BY DEF Init, ConnectionsInit, RelayInit
<1>. QED BY <1>1 DEF OrderInv, SOCKS5Flow, TLSFlow, Side

\* The greeting and the request relay nothing.
LEMMA OrderSocks5 ==
  ASSUME TInv, NEW g \in Nat, NEW r \in Nat, OrderInv(g, r), UNCHANGED relay,
         NEW chunk, ClientHelloTransmission(chunk) \/ ConnectionRequestTransmission(chunk)
  PROVE  OrderInv(g, r)'
<1>1. /\ flow \in SOCKS5Flow /\ flow' \in SOCKS5Flow
      /\ UNCHANGED <<payload, waiting, expected, crashed, script, sentTo>>
      /\ Read("client", chunk) /\ \E d : Keep("client", d)
  BY DEF ClientHelloTransmission, ConnectionRequestTransmission, relay, Reply, NoSend, Refused,
         SOCKS5Flow
<1>2. got'["server"] = got["server"] /\ buffer'["server"] = buffer["server"]
  BY <1>1 DEF Read, Keep, TInv, PeersOK, Side
<1>. QED BY <1>1, <1>2 DEF OrderInv, SOCKS5Flow, TLSFlow

\* When the request is answered, greeting and request have been read and nothing else.
LEMMA OrderReply ==
  ASSUME TInv, NEW g \in Nat, NEW r \in Nat, g >= 3, r >= 5, NEW h, NEW e,
         CutAtRecordsOf(script, g, r, h, e), SocksInv(g, r),
         OrderInv(g, r), UNCHANGED relay, ConnectionRequestReply
  PROVE  OrderInv(g, r)'
<1>1. /\ flow = "SOCKS5ConnectionRequest" /\ host # <<>> /\ UNCHANGED <<script, got, sentTo>>
      /\ UNCHANGED <<payload, waiting, expected, crashed>>
      /\ \/ BuffersCleared /\ flow' = "TLSClientHello"
         \/ UNCHANGED <<flow, buffer>>
  BY DEF ConnectionRequestReply, Reply, Refused, NoSend, relay
<1>2. CASE UNCHANGED <<flow, buffer>>
  BY <1>1, <1>2 DEF OrderInv, SOCKS5Flow, TLSFlow
<1>3. CASE BuffersCleared /\ flow' = "TLSClientHello"
  <2>0. PeersOK /\ \A s \in Side : sentTo[s] = <<>> /\ buffer'[s] = <<>>
    BY <1>1, <1>3 DEF TInv, OrderInv, SOCKS5Flow, BuffersCleared
  <2>1. got["client"] = g + r /\ got["server"] = 0
    BY <1>1 DEF SocksInv, HoldsRequest, OrderInv, SOCKS5Flow
  <2>2. ASSUME NEW s \in Side PROVE KeepsRecords(EndsOf(g, r, s), s)'
    <3>. DEFINE E == EndsOf(g, r, s)
                k == IF s = "client" THEN g + r ELSE 0
                d == Stream(s)
                x == SubSeq(d, 1, k)
    <3>1. /\ StreamIn(E, s) /\ k \in E
          /\ \A i \in ContentPlaces(d) : k < i
      BY <2>0, EndsAre
    <3>2. got[s] = k
      BY <2>1 DEF Side
    <3>3. /\ d \in Bytes /\ k \in Nat /\ k <= Len(d) /\ x \in Bytes
          /\ UNCHANGED <<d, E, k>>
      <4>1. k \in Nat
        BY DEF Side
      <4>2. d \in Bytes /\ k <= Len(d)
        BY <2>0, <3>2, StreamType DEF PeersOK
      <4>. HIDE DEF k, d
      <4>3. x \in Bytes
        BY <4>1, <4>2, TakeType
      <4>4. UNCHANGED <<d, E, k>>
        BY <1>1 DEF d, Stream, EndsOf, k
      <4>. QED BY <4>1, <4>2, <4>3, <4>4
    <3>. HIDE DEF k, d, E
    <3>4. ContentOf(x) = {}
      <4>1. /\ Len(x) = k /\ \A i \in 1 .. k : x[i] = d[i]
        BY <3>3, TakeType
      <4>2. ASSUME NEW i \in ContentPlaces(x) PROVE FALSE
        <5>1. i \in 1 .. k /\ x[i] = d[i] /\ i \in DOMAIN d
          BY <3>3, <4>1 DEF ContentPlaces, Bytes
        <5>2. i \in ContentPlaces(d)
          BY <4>2, <5>1 DEF ContentPlaces
        <5>. QED BY <3>1, <3>3, <5>1, <5>2
      <4>. QED BY <3>3, <4>2, NoContent
    <3>5. sentTo[Other(s)] = <<>>
      BY <2>0 DEF Other, Side
    <3>6. Relayed(s, k)'
      <4>1. Draws(<<>>, x) /\ Carries(<<>>, x)
        BY <3>3, <3>4, EmptyContent DEF Carries
      <4>2. Draws(sentTo'[Other(s)], x') /\ Carries(sentTo'[Other(s)], x')
        <5>1. x' = x
          BY <3>3
        <5>. QED BY <1>1, <3>5, <4>1, <5>1
      <4>. QED BY <4>2 DEF Relayed, d
    <3>7. SubSeq(d, k + 1, k) = <<>>
      BY <3>3, NothingHeld
    <3>8. Holds(s, k)'
      <4>0. d' = d /\ k <= k /\ got' = got /\ buffer'[s] = <<>>
        BY <1>1, <2>0, <3>3
      <4>1. got'[s] = k /\ buffer'[s] = SubSeq(d', k + 1, k) /\ k <= k
        BY <3>2, <3>7, <4>0
      <4>. QED BY <3>6, <4>1 DEF Holds, d
    <3>. QED BY <1>1, <3>1, <3>2, <3>3, <3>8 DEF KeepsRecords, E
  <2>. QED BY <1>1, <1>3, <2>0, <2>2 DEF OrderInv, SOCKS5Flow, Side
<1>. QED BY <1>1, <1>2, <1>3

\* What the client's hello flow makes of the records it reads.
LEMMA HelloOfClient ==
  ASSUME PeersOK, NEW g \in Nat, NEW r \in Nat, NEW h \in Nat, NEW e \in Nat,
         CutAtRecordsOf(script, g, r, h, e), sentTo["client"] = <<>>,
         NEW k, NEW n, NEW d, Takes(EndsOf(g, r, "client"), "client", k, n, d)
  PROVE  LET p == ProcessEveryFullMessage[CopyEveryClientPayload[d]]
         IN p \in Reframed /\ p.rest = <<>> /\ IsClientHelloMessage(p.records) /\ Carries(p.records, d)
<1>. DEFINE E == EndsOf(g, r, "client")
            c == CopyEveryClientPayload[d]
            p == ProcessEveryFullMessage[c]
<1>0. "client" \in Side
  BY DEF Side
<1>1. /\ k \in E /\ n \in E /\ k < n /\ n <= Arrived("client")
      /\ d = SubSeq(script.client, k + 1, n) /\ d = SubSeq(Stream("client"), k + 1, n)
  BY DEF Takes, Stream
<1>2. E \subseteq Nat /\ RecordsFrom(Stream("client"), E, n) /\ StreamIn(E, "client")
  BY <1>0, <1>1, EndsAre DEF StreamIn
<1>3. n <= h
  <2>1. Arrived("client") <= h
    BY <1>0, HelloArrival DEF CutAtRecordsOf
  <2>2. Arrived("client") \in Nat
    BY <1>0, ArrivedIs
  <2>. QED BY <1>1, <1>2, <2>1, <2>2
<1>4. p.rest = <<>> /\ IsClientHelloMessage(p.records)
  <2>1. \A i, j \in E : i < j /\ j <= h =>
            LET q == ProcessEveryFullMessage[CopyEveryClientPayload[SubSeq(script.client, i + 1, j)]]
            IN q.rest = <<>> /\ IsClientHelloMessage(q.records)
    BY DEF CutAtRecordsOf, EndsOf
  <2>. HIDE DEF E
  <2>. QED BY <1>1, <1>3, <2>1
<1>5. Carries(c, d)
  <2>1. k <= n
    BY <1>1, <1>2
  <2>. HIDE DEF E
  <2>. QED BY <1>1, <1>2, <2>1, ClientPayloadContent
<1>6. c \in Bytes
  <2>1. d \in Bytes
    <3>1. /\ Stream("client") \in Bytes /\ n <= Len(Stream("client"))
          /\ k \in Nat /\ n \in Nat /\ k <= n
      BY <1>0, <1>1, <1>2, StreamType DEF StreamIn
    <3>. QED BY <1>1, <3>1, PieceType
  <2>. QED BY <2>1, CopyEveryClientPayloadIs
<1>. HIDE DEF c
<1>7. p \in Reframed
  BY <1>6, ProcessEveryFullMessageIs
<1>8. Carries(p.records, c)
  BY <1>4, <1>5, <1>6, ReframedContent DEF Carries
<1>9. Carries(p.records, d)
  BY <1>5, <1>8 DEF Carries
<1>. QED BY <1>4, <1>7, <1>9 DEF c

\* c copies all of the server's records d, with no message cut.
ServerRecordsRead(d, c) ==
  LET p == ProcessEveryFullMessage[c.data]
  IN /\ d \in Bytes /\ c \in ServerPayload /\ p \in Reframed /\ p.rest = <<>> /\ Carries(p.records, d)
     /\ c.ccs = <<>> /\ c.other = <<>> /\ c.missing = 0 /\ c.wraps = FALSE

\* What the server's hello flow makes of the records it reads.
LEMMA HelloOfServer ==
  ASSUME PeersOK, NEW g \in Nat, NEW r \in Nat, NEW h \in Nat, NEW e \in Nat,
         CutAtRecordsOf(script, g, r, h, e), sentTo["client"] = <<>>,
         NEW k, NEW n, NEW d, Takes(EndsOf(g, r, "server"), "server", k, n, d)
  PROVE  ServerRecordsRead(d, CopyEveryServerPayload[d])
<1>. DEFINE E == EndsOf(g, r, "server")
            c == CopyEveryServerPayload[d]
            p == ProcessEveryFullMessage[c.data]
<1>0. "server" \in Side /\ "server" # "client"
  BY DEF Side
<1>1. /\ k \in E /\ n \in E /\ k < n /\ n <= Arrived("server")
      /\ d = SubSeq(script.server, k + 1, n) /\ d = SubSeq(Stream("server"), k + 1, n)
  BY DEF Takes, Stream
<1>2. E \subseteq Nat /\ RecordsFrom(Stream("server"), E, n) /\ StreamIn(E, "server") /\ k <= n
  BY <1>0, <1>1, EndsAre DEF StreamIn
<1>3. n <= e
  <2>1. Arrived("server") <= e
    BY <1>0, HelloArrival DEF CutAtRecordsOf
  <2>2. Arrived("server") \in Nat
    BY <1>0, ArrivedIs
  <2>. QED BY <1>1, <1>2, <2>1, <2>2
<1>a. \A i, j \in E : i < j /\ j <= e =>
         /\ script.server[i + 1].val # ChangeCipherSpec
         /\ ProcessEveryFullMessage[CopyEveryServerPayload[SubSeq(script.server, i + 1, j)].data].rest = <<>>
  BY DEF CutAtRecordsOf, EndsOf
<1>. HIDE DEF E
<1>4. p.rest = <<>>
  BY <1>1, <1>3, <1>a
<1>5. Carries(c.data, d) /\ c.ccs = <<>> /\ c.other = <<>> /\ c.missing = 0 /\ c.wraps = FALSE
  <2>1. \A i \in E : i < n => Stream("server")[i + 1].val # ChangeCipherSpec
    BY <1>1, <1>3, <1>a DEF Stream
  <2>2. AllCopied(CopyEveryServerPayload[SubSeq(Stream("server"), k + 1, n)],
                  SubSeq(Stream("server"), k + 1, n))
    BY <1>1, <1>2, <2>1, ServerPayloadContent
  <2>. QED BY <1>1, <2>2 DEF AllCopied
<1>6. d \in Bytes /\ c \in ServerPayload
  <2>1. /\ Stream("server") \in Bytes /\ n <= Len(Stream("server"))
        /\ k \in Nat /\ n \in Nat
    BY <1>0, <1>1, <1>2, StreamType DEF StreamIn
  <2>2. d \in Bytes
    BY <1>1, <1>2, <2>1, PieceType
  <2>. QED BY <2>2, CopyEveryServerPayloadIs
<1>. HIDE DEF c
<1>7. p \in Reframed /\ c.data \in Bytes
  BY <1>6, ProcessEveryFullMessageIs DEF ServerPayload
<1>8. Carries(p.records, c.data)
  BY <1>4, <1>5, <1>7, ReframedContent DEF Carries
<1>9. Carries(p.records, d)
  BY <1>5, <1>8 DEF Carries
<1>. QED BY <1>4, <1>5, <1>6, <1>7, <1>9 DEF c, ServerRecordsRead

\* TLSReceivingClientHello when it has read ClientHellos that are complete.
LEMMA ClientHelloStep ==
  ASSUME NEW chunk, TLSReceivingClientHello(chunk), payload = <<>>, waiting = FALSE,
         NEW c \in Bytes, c = CopyEveryClientPayload[buffer["client"] \o chunk],
         NEW p, p = ProcessEveryFullMessage[c], p.rest = <<>>, IsClientHelloMessage(p.records)
  PROVE  /\ flow = "TLSClientHello" /\ Read("client", chunk)
         /\ payload' = <<>> /\ UNCHANGED <<script, waiting, expected, crashed>>
         /\ \/ Send("server", p.records) /\ BuffersCleared /\ flow' = "TLSServerHello"
            \/ NoSend /\ Keep("client", buffer["client"] \o chunk) /\ UNCHANGED flow
<1>. DEFINE received == buffer["client"] \o chunk
            x == payload \o (IF waiting THEN buffer["server"] ELSE CopyEveryClientPayload[received])
            q == ProcessEveryFullMessage[x]
<1>1. x = c
  BY EmptyInFront
<1>2. q = p
  BY <1>1
<1>. HIDE DEF x
<1>3. /\ flow = "TLSClientHello" /\ Read("client", chunk)
      /\ payload' = q.rest /\ UNCHANGED <<script, expected, crashed>>
      /\ \/ q.rest # <<>>
         \/ Send("server", q.records) /\ BuffersCleared /\ flow' = "TLSServerHello" /\ UNCHANGED waiting
         \/ NoSend /\ Keep("client", received) /\ UNCHANGED flow /\ UNCHANGED waiting
         \/ ~IsClientHelloMessage(q.records)
  BY DEF TLSReceivingClientHello, Refused, x
<1>. HIDE DEF q, received
<1>4. /\ flow = "TLSClientHello" /\ Read("client", chunk)
      /\ payload' = <<>> /\ UNCHANGED <<script, waiting, expected, crashed>>
      /\ \/ Send("server", p.records) /\ BuffersCleared /\ flow' = "TLSServerHello"
         \/ NoSend /\ Keep("client", received) /\ UNCHANGED flow
  BY <1>2, <1>3
<1>. QED BY <1>4 DEF received

\* The hello flow of the client relays ClientHellos in order.
LEMMA OrderClientHello ==
  ASSUME TInv, NEW g \in Nat, NEW r \in Nat, NEW h \in Nat, NEW e \in Nat,
         CutAtRecordsOf(script, g, r, h, e), OrderInv(g, r),
         NEW chunk \in Chunks("client"), TLSReceivingClientHello(chunk)
  PROVE  OrderInv(g, r)'
<1>. DEFINE received == buffer["client"] \o chunk
            c == CopyEveryClientPayload[received]
            p == ProcessEveryFullMessage[c]
            E(s) == EndsOf(g, r, s)
<1>0. "client" \in Side /\ "server" \in Side /\ PeersOK /\ Other("client") = "server" /\ Other("server") = "client"
      /\ "client" # "server"
  BY DEF Side, TInv, Other
<1>1. flow = "TLSClientHello" /\ Read("client", chunk)
  BY DEF TLSReceivingClientHello
<1>2. /\ payload = <<>> /\ waiting = FALSE /\ expected = 0 /\ crashed = FALSE
      /\ KeepsRecords(E("client"), "client") /\ KeepsRecords(E("server"), "server")
      /\ sentTo["client"] = <<>> /\ buffer["server"] = <<>>
  BY <1>0, <1>1 DEF OrderInv, TLSFlow
<1>3. \A s \in Side : StreamIn(E(s), s) /\ \A n : MayEnd(s, n) => n \in E(s)
  BY <1>0, <1>1, EndsAre DEF TLSFlow
<1>4. /\ \E k, n \in E("client") : Takes(E("client"), "client", k, n, received)
      /\ got'["server"] = got["server"]
  <2>. HIDE DEF E
  <2>. QED BY <1>0, <1>1, <1>2, <1>3, ReadTakes
<1>5. PICK k, n \in E("client") : Takes(E("client"), "client", k, n, received)
  BY <1>4
<1>6. p \in Reframed /\ p.rest = <<>> /\ IsClientHelloMessage(p.records) /\ Carries(p.records, received)
  <2>. HIDE DEF received
  <2>. QED BY <1>0, <1>2, <1>5, HelloOfClient
<1>7. received \in Bytes /\ c \in Bytes
  <2>1. received \in Bytes
    BY <1>0, <1>1, ReadType DEF TLSReceivingClientHello
  <2>. QED BY <2>1, CopyEveryClientPayloadIs
<1>8. /\ payload' = <<>> /\ UNCHANGED <<script, waiting, expected, crashed>>
      /\ \/ Send("server", p.records) /\ BuffersCleared /\ flow' = "TLSServerHello"
         \/ NoSend /\ Keep("client", received) /\ UNCHANGED flow
  <2>. HIDE DEF p, c
  <2>. QED BY <1>2, <1>6, <1>7, ClientHelloStep DEF p, c
<1>9. UNCHANGED <<E("client"), E("server")>>
  BY <1>8 DEF EndsOf
<1>. HIDE DEF p, c, received, E
<1>10. CASE Send("server", p.records) /\ BuffersCleared /\ flow' = "TLSServerHello"
  <2>1. /\ sentTo'["client"] = sentTo["client"] /\ buffer'["client"] = <<>> /\ buffer'["server"] = <<>>
    BY <1>0, <1>10 DEF Send, BuffersCleared, TInv
  <2>2. KeepsRecords(E("client"), "client")'
    <3>1. p.records \in Bytes
      BY <1>6 DEF Reframed
    <3>. DEFINE A == E("client")
    <3>2. StreamIn(A, "client") /\ Takes(A, "client", k, n, received) /\ UNCHANGED A
      BY <1>0, <1>3, <1>5, <1>9
    <3>. HIDE DEF A
    <3>3. KeepsRecords(A, "client")'
      BY <1>0, <1>6, <1>8, <1>10, <2>1, <3>1, <3>2, RelaysWhatIsRead
    <3>. QED BY <3>3 DEF A
  <2>3. KeepsRecords(E("server"), "server")'
    <3>. DEFINE A == E("server")
    <3>1. StreamIn(A, "server") /\ KeepsRecords(A, "server") /\ UNCHANGED A
      BY <1>0, <1>2, <1>3, <1>9
    <3>. HIDE DEF A
    <3>2. KeepsRecords(A, "server")'
      BY <1>0, <1>2, <1>4, <1>8, <2>1, <3>1, KeepsWithoutRead
    <3>. QED BY <3>2 DEF A
  <2>4. \A s \in Side : KeepsRecords(EndsOf(g, r, s), s)' /\ buffer'[s] = <<>>
    BY <2>1, <2>2, <2>3 DEF Side, E
  <2>. QED BY <1>2, <1>8, <1>10, <2>1, <2>4 DEF OrderInv, SOCKS5Flow
<1>11. CASE NoSend /\ Keep("client", received) /\ UNCHANGED flow
  <2>1. UNCHANGED sentTo /\ buffer'["client"] = received /\ buffer'["server"] = buffer["server"]
    BY <1>0, <1>11 DEF NoSend, Keep, TInv
  <2>2. KeepsRecords(E("client"), "client")'
    <3>. DEFINE A == E("client")
    <3>2. StreamIn(A, "client") /\ Takes(A, "client", k, n, received) /\ UNCHANGED A
      BY <1>0, <1>3, <1>5, <1>9
    <3>. HIDE DEF A
    <3>3. KeepsRecords(A, "client")'
      BY <1>0, <1>8, <2>1, <3>2, KeepsWhatIsRead
    <3>. QED BY <3>3 DEF A
  <2>3. KeepsRecords(E("server"), "server")'
    <3>. DEFINE A == E("server")
    <3>1. StreamIn(A, "server") /\ KeepsRecords(A, "server") /\ UNCHANGED A
      BY <1>0, <1>2, <1>3, <1>9
    <3>. HIDE DEF A
    <3>2. KeepsRecords(A, "server")'
      BY <1>0, <1>4, <1>8, <2>1, <3>1, KeepsWithoutRead
    <3>. QED BY <3>2 DEF A
  <2>4. \A s \in Side : KeepsRecords(EndsOf(g, r, s), s)'
    BY <2>2, <2>3 DEF Side, E
  <2>. QED BY <1>1, <1>2, <1>8, <1>11, <2>1, <2>4 DEF OrderInv, SOCKS5Flow
<1>. QED BY <1>8, <1>10, <1>11

\* TLSReceivingServerHello when it has read messages that are complete.
LEMMA ServerHelloOfRecords ==
  ASSUME NEW chunk, TLSReceivingServerHello(chunk), payload = <<>>, waiting = FALSE, expected = 0,
         NEW d \in Bytes, d = buffer["server"] \o chunk,
         NEW c \in ServerPayload, c = CopyEveryServerPayload[d],
         NEW p \in Reframed, p = ProcessEveryFullMessage[c.data], p.rest = <<>>,
         c.ccs = <<>>, c.other = <<>>, c.missing = 0, c.wraps = FALSE
  PROVE  /\ flow = "TLSServerHello" /\ Read("server", chunk)
         /\ payload' = <<>> /\ waiting' = FALSE /\ expected' = 0 /\ crashed' = FALSE /\ UNCHANGED script
         /\ \/ Send("client", p.records) /\ BuffersCleared /\ flow' = "TLSDefault"
            \/ Refused /\ Keep("server", d) /\ UNCHANGED flow
<1>. DEFINE received == buffer["server"] \o chunk
            cut == IF waiting THEN expected ELSE 0
            rest == Drop(received, cut)
            b == CopyEveryServerPayload[rest]
            x == payload \o SubSeq(received, 1, cut) \o b.data
            q == ProcessEveryFullMessage[x]
<1>1. cut = 0 /\ received = d /\ rest = d /\ b = c
  <2>1. cut = 0 /\ received = d
    OBVIOUS
  <2>. HIDE DEF cut, received
  <2>2. rest = d
    BY <2>1, EmptyInFront
  <2>. QED BY <2>1, <2>2
<1>2. x = c.data
  <2>1. SubSeq(received, 1, cut) = <<>>
    <3>1. SubSeq(d, 1, 0) \in Bytes /\ Len(SubSeq(d, 1, 0)) = 0
      BY TakeType, LengthType
    <3>. HIDE DEF cut, received
    <3>. QED BY <1>1, <3>1, LengthOfEmpty
  <2>2. <<>> \o <<>> = <<>>
    BY EmptyIsBytes, EmptyInFront
  <2>3. c.data \in Bytes
    BY DEF ServerPayload
  <2>4. <<>> \o c.data = c.data
    BY <2>3, EmptyInFront
  <2>. HIDE DEF cut, received, b
  <2>. QED BY <1>1, <2>1, <2>2, <2>4
<1>3. q = p
  BY <1>2
<1>. HIDE DEF x, b, rest, cut, received
<1>4. /\ flow = "TLSServerHello" /\ Read("server", chunk) /\ UNCHANGED script
      /\ crashed' = b.wraps
      /\ \/ b.wraps
         \/ /\ (q.rest # <<>> /\ q.records = <<>>) \/ Refused
            /\ Keep("server", rest) /\ payload' = q.rest
            /\ expected' = ExpectedAfter(b) /\ NoSend /\ UNCHANGED <<flow, waiting>>
         \/ q.rest # <<>>
         \/ /\ Send("client", q.records \o b.ccs) /\ BuffersCleared
            /\ payload' = b.other /\ waiting' = FALSE
            /\ expected' = ExpectedAfter(b) /\ flow' = "TLSDefault"
  BY DEF TLSReceivingServerHello, HeldForDefault, x, b, rest, cut, received
<1>5. ExpectedAfter(c) = 0
  BY DEF ExpectedAfter
<1>6. p.records \o c.ccs = p.records
  BY EmptyInFront DEF Reframed
<1>. HIDE DEF q
<1>. QED BY <1>1, <1>3, <1>4, <1>5, <1>6

\* The hello flow of the server relays the messages in order, and sets nothing aside.
LEMMA OrderServerHello ==
  ASSUME TInv, NEW g \in Nat, NEW r \in Nat, NEW h \in Nat, NEW e \in Nat,
         CutAtRecordsOf(script, g, r, h, e), OrderInv(g, r),
         NEW chunk \in Chunks("server"), TLSReceivingServerHello(chunk)
  PROVE  OrderInv(g, r)'
<1>. DEFINE received == buffer["server"] \o chunk
            c == CopyEveryServerPayload[received]
            p == ProcessEveryFullMessage[c.data]
            E(s) == EndsOf(g, r, s)
<1>0. "client" \in Side /\ "server" \in Side /\ PeersOK /\ Other("client") = "server" /\ Other("server") = "client"
      /\ "client" # "server"
  BY DEF Side, TInv, Other
<1>1. flow = "TLSServerHello" /\ Read("server", chunk)
  BY DEF TLSReceivingServerHello
<1>2. /\ payload = <<>> /\ waiting = FALSE /\ expected = 0 /\ crashed = FALSE
      /\ KeepsRecords(E("client"), "client") /\ KeepsRecords(E("server"), "server")
      /\ sentTo["client"] = <<>>
      /\ script.sends = "all" => buffer["client"] = <<>> /\ buffer["server"] = <<>>
  BY <1>0, <1>1 DEF OrderInv, TLSFlow
<1>3. \A s \in Side : StreamIn(E(s), s) /\ \A n : MayEnd(s, n) => n \in E(s)
  BY <1>0, <1>1, EndsAre DEF TLSFlow
<1>4. /\ \E k, n \in E("server") : Takes(E("server"), "server", k, n, received)
      /\ got'["client"] = got["client"]
  <2>. HIDE DEF E
  <2>. QED BY <1>0, <1>1, <1>2, <1>3, ReadTakes
<1>5. PICK k, n \in E("server") : Takes(E("server"), "server", k, n, received)
  BY <1>4
<1>6. /\ received \in Bytes /\ c \in ServerPayload /\ p \in Reframed /\ p.rest = <<>> /\ Carries(p.records, received)
      /\ c.ccs = <<>> /\ c.other = <<>> /\ c.missing = 0 /\ c.wraps = FALSE
  <2>1. ServerRecordsRead(received, CopyEveryServerPayload[received])
    <3>. DEFINE A == EndsOf(g, r, "server")
    <3>1. Takes(A, "server", k, n, received)
      BY <1>5
    <3>. HIDE DEF received
    <3>. QED BY <1>0, <1>2, <3>1, HelloOfServer
  <2>. HIDE DEF received
  <2>. QED BY <2>1 DEF ServerRecordsRead
<1>. HIDE DEF received, c, p
<1>7. /\ payload' = <<>> /\ waiting' = FALSE /\ expected' = 0 /\ crashed' = FALSE /\ UNCHANGED script
      /\ \/ Send("client", p.records) /\ BuffersCleared /\ flow' = "TLSDefault"
         \/ Refused /\ Keep("server", received) /\ UNCHANGED flow
  BY <1>2, <1>6, ServerHelloOfRecords DEF received, c, p
<1>8. UNCHANGED <<E("client"), E("server")>>
  BY <1>7 DEF EndsOf
<1>. HIDE DEF E
<1>9. CASE Send("client", p.records) /\ BuffersCleared /\ flow' = "TLSDefault"
  <2>1. /\ sentTo'["server"] = sentTo["server"] /\ buffer'["client"] = <<>> /\ buffer'["server"] = <<>>
    BY <1>0, <1>9 DEF Send, BuffersCleared, TInv
  <2>2. KeepsRecords(E("server"), "server")'
    <3>1. p.records \in Bytes
      BY <1>6 DEF Reframed
    <3>. DEFINE A == E("server")
    <3>2. StreamIn(A, "server") /\ Takes(A, "server", k, n, received) /\ UNCHANGED A
      BY <1>0, <1>3, <1>5, <1>8
    <3>. HIDE DEF A
    <3>3. KeepsRecords(A, "server")'
      BY <1>0, <1>6, <1>7, <1>9, <2>1, <3>1, <3>2, RelaysWhatIsRead
    <3>. QED BY <3>3 DEF A
  <2>3. KeepsRecords(E("client"), "client")'
    <3>. DEFINE A == E("client")
    <3>1. StreamIn(A, "client") /\ KeepsRecords(A, "client") /\ UNCHANGED A
      BY <1>0, <1>2, <1>3, <1>8
    <3>. HIDE DEF A
    <3>2. KeepsRecords(A, "client")'
      BY <1>0, <1>2, <1>4, <1>7, <2>1, <3>1, KeepsWithoutRead
    <3>. QED BY <3>2 DEF A
  <2>4. \A s \in Side : KeepsRecords(EndsOf(g, r, s), s)' /\ buffer'[s] = <<>>
    BY <2>1, <2>2, <2>3 DEF Side, E
  <2>. QED BY <1>7, <1>9, <2>4 DEF OrderInv, SOCKS5Flow
<1>10. CASE Refused /\ Keep("server", received) /\ UNCHANGED flow
  <2>1. /\ UNCHANGED sentTo /\ buffer'["server"] = received /\ buffer'["client"] = buffer["client"]
        /\ script.sends # "all"
    BY <1>0, <1>10 DEF Refused, NoSend, Keep, TInv
  <2>2. KeepsRecords(E("server"), "server")'
    <3>. DEFINE A == E("server")
    <3>2. StreamIn(A, "server") /\ Takes(A, "server", k, n, received) /\ UNCHANGED A
      BY <1>0, <1>3, <1>5, <1>8
    <3>. HIDE DEF A
    <3>3. KeepsRecords(A, "server")'
      BY <1>0, <1>7, <2>1, <3>2, KeepsWhatIsRead
    <3>. QED BY <3>3 DEF A
  <2>3. KeepsRecords(E("client"), "client")'
    <3>. DEFINE A == E("client")
    <3>1. StreamIn(A, "client") /\ KeepsRecords(A, "client") /\ UNCHANGED A
      BY <1>0, <1>2, <1>3, <1>8
    <3>. HIDE DEF A
    <3>2. KeepsRecords(A, "client")'
      BY <1>0, <1>4, <1>7, <2>1, <3>1, KeepsWithoutRead
    <3>. QED BY <3>2 DEF A
  <2>4. \A s \in Side : KeepsRecords(EndsOf(g, r, s), s)'
    BY <2>2, <2>3 DEF Side, E
  <2>. QED BY <1>1, <1>2, <1>7, <1>10, <2>1, <2>4 DEF OrderInv, SOCKS5Flow
<1>. QED BY <1>7, <1>9, <1>10

\* TLSDefault relays whole records as they are.
LEMMA OrderDefault ==
  ASSUME TInv, NEW g \in Nat, NEW r \in Nat, NEW h \in Nat, NEW e \in Nat,
         CutAtRecordsOf(script, g, r, h, e), OrderInv(g, r),
         NEW s \in Side, NEW chunk \in Chunks(s), TLSDefault(s, chunk)
  PROVE  OrderInv(g, r)'
<1>. DEFINE received == buffer[s] \o chunk
            E(t) == EndsOf(g, r, t)
            q == ExtractAllValidRecords(payload \o received)
<1>0. PeersOK /\ Other(s) \in Side /\ Other(Other(s)) = s /\ Other(s) # s /\ \A t \in Side : t = s \/ t = Other(s)
  BY DEF Side, TInv, Other
<1>1. flow = "TLSDefault" /\ Read(s, chunk)
  BY DEF TLSDefault
<1>2. /\ payload = <<>> /\ waiting = FALSE /\ expected = 0 /\ crashed = FALSE
      /\ KeepsRecords(E(s), s) /\ KeepsRecords(E(Other(s)), Other(s))
      /\ script.sends = "all" => \A t \in Side : buffer[t] = <<>>
  BY <1>0, <1>1 DEF OrderInv, TLSFlow
<1>3. \A t \in Side : StreamIn(E(t), t) /\ \A n : MayEnd(t, n) => n \in E(t)
  BY <1>0, <1>1, EndsAre DEF TLSFlow
<1>4. /\ \E k, n \in E(s) : Takes(E(s), s, k, n, received)
      /\ got'[Other(s)] = got[Other(s)]
  <2>. HIDE DEF E
  <2>. QED BY <1>0, <1>1, <1>2, <1>3, ReadTakes
<1>5. PICK k, n \in E(s) : Takes(E(s), s, k, n, received)
  BY <1>4
<1>6. received \in Bytes /\ Whole(received) /\ InOrder(received) /\ received # <<>>
  <2>. DEFINE A == E(s)
  <2>1. /\ StreamIn(A, s) /\ k \in A /\ n \in A /\ k < n /\ received = SubSeq(Stream(s), k + 1, n)
    BY <1>3, <1>5 DEF Takes
  <2>. HIDE DEF A, received
  <2>2. k \in Nat /\ n \in Nat /\ k <= n /\ RecordsFrom(Stream(s), A, n)
    BY <2>1 DEF StreamIn
  <2>3. Whole(received)
    BY <2>1, <2>2, PieceIsWhole
  <2>4. Stream(s) \in Bytes /\ n <= Len(Stream(s)) /\ InOrder(Stream(s))
    BY <2>2 DEF RecordsFrom
  <2>5. InOrder(received)
    <3>1. InOrder(SubSeq(Stream(s), k + 1, n))
      BY <2>2, <2>4, PieceInOrder
    <3>. QED BY <2>1, <3>1
  <2>6. received \in Bytes
    BY <2>3 DEF Whole
  <2>7. received # <<>>
    <3>1. Len(SubSeq(Stream(s), k + 1, n)) = n - k
      BY <2>2, <2>4, PieceType
    <3>2. Len(received) # 0
      BY <2>1, <2>2, <3>1
    <3>. QED BY <2>6, <3>2, LengthOfEmpty
  <2>. QED BY <2>3, <2>5, <2>6, <2>7
<1>. HIDE DEF received
<1>7. q.valid = received /\ q.rest = <<>>
  <2>1. payload \o received = received
    BY <1>2, <1>6, EmptyInFront
  <2>2. ValidLength[received] = Len(received) /\ Len(received) \in Nat
    BY <1>6, LengthType DEF Whole
  <2>3. SubSeq(received, 1, Len(received)) = received
    <3>. DEFINE m == Len(received)
    <3>1. /\ SubSeq(received, 1, m) \in Bytes /\ Len(SubSeq(received, 1, m)) = m
          /\ \A i \in 1 .. m : SubSeq(received, 1, m)[i] = received[i]
      BY <1>6, <2>2, TakeType
    <3>. QED BY <1>6, <3>1, SameBytes
  <2>4. Drop(received, Len(received)) = <<>>
    <3>1. Drop(received, Len(received)) \in Bytes /\ Len(Drop(received, Len(received))) = 0
      BY <1>6, <2>2, DropType
    <3>. QED BY <3>1, LengthOfEmpty
  <2>. QED BY <2>1, <2>2, <2>3, <2>4 DEF ExtractAllValidRecords
<1>8. /\ payload' = q.rest /\ UNCHANGED <<script, flow, waiting, expected, crashed>>
      /\ \/ q.valid = <<>>
         \/ Send(Other(s), q.valid) /\ BuffersCleared
         \/ Refused /\ Keep(s, received)
  BY DEF TLSDefault, received
<1>. HIDE DEF q
<1>9. /\ payload' = <<>> /\ UNCHANGED <<script, flow, waiting, expected, crashed>>
      /\ \/ Send(Other(s), received) /\ BuffersCleared
         \/ Refused /\ Keep(s, received)
  BY <1>6, <1>7, <1>8
<1>10. UNCHANGED <<E(s), E(Other(s))>>
  BY <1>9 DEF EndsOf
<1>. DEFINE A == E(s)
            B == E(Other(s))
<1>11. /\ StreamIn(A, s) /\ Takes(A, s, k, n, received) /\ UNCHANGED <<A, B>>
       /\ StreamIn(B, Other(s)) /\ KeepsRecords(B, Other(s))
  BY <1>0, <1>2, <1>3, <1>5, <1>10
<1>. HIDE DEF A, B, E
<1>12. CASE Send(Other(s), received) /\ BuffersCleared
  <2>1. /\ sentTo'[s] = sentTo[s] /\ buffer'[s] = <<>> /\ buffer'[Other(s)] = <<>>
    BY <1>0, <1>12 DEF Send, BuffersCleared, TInv
  <2>2. KeepsRecords(A, s)'
    <3>1. Carries(received, received)
      BY <1>6 DEF Carries
    <3>. QED BY <1>6, <1>9, <1>11, <1>12, <2>1, <3>1, RelaysWhatIsRead
  <2>3. KeepsRecords(B, Other(s))'
    BY <1>0, <1>2, <1>4, <1>9, <1>11, <2>1, KeepsWithoutRead
  <2>4. \A t \in Side : KeepsRecords(EndsOf(g, r, t), t)' /\ buffer'[t] = <<>>
    BY <1>0, <2>1, <2>2, <2>3 DEF E, A, B
  <2>. QED BY <1>1, <1>2, <1>9, <2>4 DEF OrderInv, SOCKS5Flow
<1>13. CASE Refused /\ Keep(s, received)
  <2>1. /\ UNCHANGED sentTo /\ buffer'[s] = received /\ buffer'[Other(s)] = buffer[Other(s)]
        /\ script.sends # "all"
    BY <1>0, <1>13 DEF Refused, NoSend, Keep, TInv
  <2>2. KeepsRecords(A, s)'
    BY <1>9, <1>11, <2>1, KeepsWhatIsRead
  <2>3. KeepsRecords(B, Other(s))'
    BY <1>0, <1>4, <1>9, <1>11, <2>1, KeepsWithoutRead
  <2>4. \A t \in Side : KeepsRecords(EndsOf(g, r, t), t)'
    BY <1>0, <2>2, <2>3 DEF E, A, B
  <2>. QED BY <1>1, <1>2, <1>9, <2>1, <2>4 DEF OrderInv, SOCKS5Flow
<1>. QED BY <1>9, <1>12, <1>13

\* Every step keeps the order.
LEMMA OrderStep == TInv /\ RInv /\ OInv /\ [Next]_vars => OInv'
<1>. SUFFICES ASSUME TInv, RInv, OInv, [Next]_vars,
                     NEW g \in Nat, NEW r \in Nat, NEW h \in Nat, NEW e \in Nat, g >= 3, r >= 5,
                     CutAtRecordsOf(script, g, r, h, e)'
              PROVE  OrderInv(g, r)'
  BY DEF OInv
<1>1. UNCHANGED script
  BY DEF Next, vars, connections, Socks5Next, TLSNext, ClientHelloTransmission,
         ConnectionRequestTransmission, ConnectionRequestReply, TLSReceivingClientHello,
         RestOfRecord, TLSReceivingServerHello, TLSDefault
<1>2. CutAtRecordsOf(script, g, r, h, e)
  BY <1>1
<1>3. OrderInv(g, r)
  BY <1>2 DEF OInv
<1>4. SocksInv(g, r)
  <2>1. PoliteClientOf(script, g, r)
    BY <1>2 DEF CutAtRecordsOf
  <2>. QED BY <2>1 DEF RInv
<1>5. ASSUME NEW chunk \in Chunks("client"),
             ClientHelloTransmission(chunk) \/ ConnectionRequestTransmission(chunk), UNCHANGED relay
      PROVE  OrderInv(g, r)'
  BY <1>3, <1>5, OrderSocks5
<1>6. ASSUME ConnectionRequestReply, UNCHANGED relay PROVE OrderInv(g, r)'
  BY <1>2, <1>3, <1>4, <1>6, OrderReply
<1>7. ASSUME NEW chunk \in Chunks("client"), TLSReceivingClientHello(chunk) PROVE OrderInv(g, r)'
  BY <1>2, <1>3, <1>7, OrderClientHello
<1>8. ASSUME NEW chunk \in Chunks("server"), RestOfRecord(chunk) PROVE OrderInv(g, r)'
  BY <1>3, <1>8 DEF RestOfRecord, OrderInv
<1>9. ASSUME NEW chunk \in Chunks("server"), TLSReceivingServerHello(chunk) PROVE OrderInv(g, r)'
  BY <1>2, <1>3, <1>9, OrderServerHello
<1>10. ASSUME NEW s \in Side, NEW chunk \in Chunks(s), TLSDefault(s, chunk) PROVE OrderInv(g, r)'
  BY <1>2, <1>3, <1>10, OrderDefault
<1>11. CASE UNCHANGED vars
  BY <1>3, <1>11 DEF vars, connections, relay, OrderInv, KeepsRecords, EndsOf, Holds, Relayed, Stream
<1>. QED BY <1>5, <1>6, <1>7, <1>8, <1>9, <1>10, <1>11 DEF Next, Socks5Next, TLSNext

\* What the exchange gives g, r, h and e.
LEMMA CutsOf ==
  ASSUME TInv, CutAtRecords(script)
  PROVE  \E g, r, h, e \in Nat : g >= 3 /\ r >= 5 /\ CutAtRecordsOf(script, g, r, h, e)
<1>1. PICK g \in 3 .. Len(script.client), r \in 5 .. Len(script.client),
           h \in script.ends["client"], e \in script.ends["server"] :
        CutAtRecordsOf(script, g, r, h, e)
  BY DEF CutAtRecords
<1>2. g \in Nat /\ r \in Nat /\ g >= 3 /\ r >= 5
  <2>1. Len(script.client) \in Nat
    BY StreamType DEF TInv, Side, Stream
  <2>. QED BY <2>1
<1>3. \A s \in Side : script.ends[s] \subseteq Nat
  <2>1. ASSUME NEW s \in Side PROVE script.ends[s] \subseteq EndsOf(g, r, s) /\ EndsOf(g, r, s) \subseteq Nat
    <3>1. StreamIn(EndsOf(g, r, s), s)
      BY <1>1, <1>2, EndsAre DEF TInv
    <3>. QED BY <3>1 DEF StreamIn, EndsOf
  <2>. QED BY <2>1
<1>4. h \in Nat /\ e \in Nat
  BY <1>3 DEF Side
<1>. QED BY <1>1, <1>2, <1>4

\* Each peer gets nothing but its partner's bytes, in order and once each, also when the
\* kernel takes part of a send or none of it, if reads end where records do.
THEOREM RelayedInOrder == Spec => [](CutAtRecords(script) => DeliveredInOrder)
<1>1. TInv /\ OInv => (CutAtRecords(script) => DeliveredInOrder)
  <2>. SUFFICES ASSUME TInv, OInv, CutAtRecords(script), NEW s \in Side
                PROVE  InOrder(sentTo[Other(s)]) /\ \A b \in ContentOf(sentTo[Other(s)]) : b.from = s
    BY DEF DeliveredInOrder
  <2>0. PeersOK /\ Other(s) \in Side
    BY DEF TInv, Side, Other
  <2>1. PICK g, r, h, e \in Nat : g >= 3 /\ r >= 5 /\ CutAtRecordsOf(script, g, r, h, e)
    BY CutsOf
  <2>2. OrderInv(g, r)
    BY <2>1 DEF OInv
  <2>3. CASE flow \in SOCKS5Flow
    <3>1. sentTo[Other(s)] = <<>>
      BY <2>0, <2>2, <2>3 DEF OrderInv
    <3>. QED BY <3>1, EmptyContent
  <2>4. CASE flow \in TLSFlow
    <3>. DEFINE A == EndsOf(g, r, s)
    <3>1. StreamIn(A, s) /\ KeepsRecords(A, s) /\ \A b \in ContentOf(Stream(s)) : b.from = s
      BY <2>0, <2>1, <2>2, <2>4, EndsAre DEF OrderInv
    <3>. HIDE DEF A
    <3>2. PICK k \in A : Relayed(s, k)
      BY <3>1 DEF KeepsRecords, Holds
    <3>3. k <= k
      BY <3>1 DEF StreamIn
    <3>4. ContentOf(SubSeq(Stream(s), 1, k)) \subseteq ContentOf(Stream(s))
      BY <2>0, <3>1, <3>3, StreamPieces
    <3>. QED BY <3>1, <3>2, <3>4 DEF Relayed, Draws
  <2>. QED BY <2>0, <2>3, <2>4 DEF TInv, PeersOK
<1>. QED BY <1>1, TInvInit, TInvStep, ServedInit, ServedStep, OrderInit, OrderStep, PTL DEF Spec

\* Nothing a peer sent is lost, doubled or reordered, if reads end where records do and
\* the kernel takes all it is sent: what its partner got and what the proxy holds is what
\* was read.
THEOREM ReadIsRelayedOrHeld ==
  Spec => [](CutAtRecords(script) /\ script.sends = "all" => ReadIsSentOrHeld)
<1>1. TInv /\ RInv /\ OInv => (CutAtRecords(script) /\ script.sends = "all" => ReadIsSentOrHeld)
  <2>. DEFINE Sent(s) == sentTo[Other(s)] \o OnlyOf(s, payload) \o buffer[s]
              Got(s) == SubSeq(Stream(s), 1, got[s])
  <2>. SUFFICES ASSUME TInv, RInv, OInv, CutAtRecords(script), script.sends = "all", NEW s \in Side
                PROVE  InOrder(Sent(s)) /\ ContentOf(Sent(s)) = ContentOf(Got(s))
    BY DEF ReadIsSentOrHeld
  <2>0. PeersOK /\ Other(s) \in Side
    BY DEF TInv, Side, Other
  <2>1. PICK g, r, h, e \in Nat : g >= 3 /\ r >= 5 /\ CutAtRecordsOf(script, g, r, h, e)
    BY CutsOf
  <2>2. OrderInv(g, r) /\ SocksInv(g, r)
    <3>1. PoliteClientOf(script, g, r)
      BY <2>1 DEF CutAtRecordsOf
    <3>. QED BY <2>1, <3>1 DEF OInv, RInv
  <2>. DEFINE a == sentTo[Other(s)]
              b == buffer[s]
              n == got[s]
              d == Stream(s)
  <2>3. Sent(s) = a \o b /\ a \in Bytes /\ b \in Bytes
    <3>1. OnlyOf(s, payload) = <<>>
      BY <2>2 DEF OrderInv, OnlyOf
    <3>2. a \in Bytes /\ b \in Bytes
      BY <2>0 DEF TInv
    <3>3. a \o <<>> = a
      BY <3>2, EmptyInFront
    <3>. QED BY <3>1, <3>2, <3>3
  <2>4. d \in Bytes /\ n \in Nat /\ n <= Len(d)
    BY <2>0, StreamType DEF PeersOK
  <2>. HIDE DEF Sent
  <2>5. CASE flow \in SOCKS5Flow
    <3>. DEFINE start == IF s = "client" THEN g + r ELSE 0
    <3>1. a = <<>> /\ \A i \in ContentPlaces(d) : start < i
      BY <2>0, <2>1, <2>2, <2>5, EndsAre DEF OrderInv
    <3>2. n <= start /\ \E k \in Nat : k <= n /\ b = SubSeq(d, k + 1, n)
      <4>1. CASE s = "client"
        BY <2>1, <2>2, <2>4, <2>5, <4>1 DEF SocksInv, HoldsGreeting, HoldsRequest, SOCKS5Flow
      <4>2. CASE s = "server"
        <5>1. n = 0 /\ b = <<>>
          BY <2>2, <2>5, <4>2 DEF OrderInv
        <5>2. SubSeq(d, 0 + 1, 0) = <<>>
          BY <2>4, NothingHeld
        <5>. QED BY <4>2, <5>1, <5>2
      <4>. QED BY <4>1, <4>2 DEF Side
    <3>3. PICK k \in Nat : k <= n /\ b = SubSeq(d, k + 1, n)
      BY <3>2
    <3>. HIDE DEF d, n, start, b, a
    <3>4. start \in Nat
      BY <2>1 DEF start
    <3>5. ASSUME NEW j \in Nat, j <= n
          PROVE  ContentOf(SubSeq(d, j + 1, n)) = {} /\ InOrder(SubSeq(d, j + 1, n))
      <4>. DEFINE x == SubSeq(d, j + 1, n)
      <4>1. x \in Bytes /\ Len(x) = n - j /\ \A i \in 1 .. n - j : x[i] = d[j + i]
        BY <2>4, <3>5, PieceType
      <4>. HIDE DEF x
      <4>2. ASSUME NEW i \in ContentPlaces(x) PROVE FALSE
        <5>1. i \in 1 .. n - j /\ x[i] = d[j + i]
          BY <4>1 DEF ContentPlaces, Bytes
        <5>2. j + i \in DOMAIN d /\ j + i <= n
          BY <2>4, <3>5, <5>1 DEF Bytes
        <5>3. j + i \in ContentPlaces(d)
          BY <4>2, <5>1, <5>2 DEF ContentPlaces
        <5>. QED BY <2>4, <3>1, <3>2, <3>4, <3>5, <5>1, <5>2, <5>3
      <4>3. ContentPlaces(x) = {}
        BY <4>2
      <4>. QED BY <4>1, <4>3, NoContent DEF x
    <3>6. ContentOf(SubSeq(d, 1, n)) = {}
      <4>1. ContentOf(SubSeq(d, 0 + 1, n)) = {}
        BY <2>4, <3>5
      <4>2. 0 + 1 = 1
        OBVIOUS
      <4>. QED BY <4>1, <4>2
    <3>7. Sent(s) = b
      BY <2>3, <3>1, EmptyInFront
    <3>. QED BY <3>3, <3>5, <3>6, <3>7 DEF d, n
  <2>6. CASE flow \in TLSFlow
    <3>. DEFINE A == EndsOf(g, r, s)
    <3>1. StreamIn(A, s) /\ KeepsRecords(A, s)
      BY <2>0, <2>1, <2>2, <2>6, EndsAre DEF OrderInv
    <3>. HIDE DEF A
    <3>2. PICK k \in A : Holds(s, k)
      BY <3>1 DEF KeepsRecords
    <3>3. n \in A /\ k <= n /\ b = SubSeq(d, k + 1, n) /\ Carries(a, SubSeq(d, 1, k))
      BY <3>1, <3>2 DEF KeepsRecords, Holds, Relayed
    <3>4. /\ SubSeq(d, 1, k) \in Bytes
          /\ SubSeq(d, 1, k) \o b = SubSeq(d, 1, n)
          /\ InOrder(SubSeq(d, 1, n)) /\ InOrder(b)
      <4>. HIDE DEF a, b, n
      <4>1. /\ SubSeq(d, 1, k) \in Bytes
            /\ SubSeq(d, 1, k) \o SubSeq(d, k + 1, n) = SubSeq(d, 1, n)
            /\ InOrder(SubSeq(d, 1, n)) /\ InOrder(SubSeq(d, k + 1, n))
        BY <2>0, <3>1, <3>3, StreamPieces
      <4>. QED BY <3>3, <4>1
    <3>5. Carries(b, b)
      BY <3>4 DEF Carries
    <3>. HIDE DEF a, b, d, n
    <3>6. Carries(a \o b, SubSeq(d, 1, n))
      BY <2>3, <3>3, <3>4, <3>5, DrawsJoin
    <3>. QED BY <2>3, <3>6 DEF Carries, d, n
  <2>. QED BY <2>0, <2>5, <2>6 DEF TInv, PeersOK
<1>. QED BY <1>1, TInvInit, TInvStep, ServedInit, ServedStep, OrderInit, OrderStep, PTL DEF Spec

-----------------------------------------------------------------------------
(* Whole records, when no message is cut or too long. *)

SentWhole == script.sends # "short" => \A s \in Side : Whole(sentTo[s])

\* Until the server's answer has been relayed, the flows keep what they have read from
\* the first record on, and nothing else.
HelloInv(g, r) ==
  /\ flow # "TLSDefault" =>
       /\ payload = <<>> /\ waiting = FALSE /\ sentTo["client"] = <<>>
       /\ buffer["server"] = SubSeq(Stream("server"), 0 + 1, got["server"])
  /\ flow \in SOCKS5Flow \cup {"TLSClientHello"} => got["server"] = 0
  /\ flow = "TLSClientHello" =>
       /\ g + r <= got["client"]
       /\ buffer["client"] = SubSeq(Stream("client"), g + r + 1, got["client"])
  /\ SentWhole

HInv ==
  \A g, r, h, e \in Nat :
    g >= 3 /\ r >= 5 /\ WholeMessagesOf(script, g, r, h, e) => HelloInv(g, r)

\* Whole records, sent behind whole records, leave whole records.
LEMMA SendWhole ==
  ASSUME TInv, SentWhole, UNCHANGED script,
         NEW s \in Side, NEW d, NoSend \/ (Send(s, d) /\ Whole(d))
  PROVE  SentWhole'
<1>1. CASE NoSend
  BY <1>1 DEF SentWhole, NoSend
<1>2. CASE Send(s, d) /\ Whole(d)
  <2>. SUFFICES ASSUME script.sends # "short" PROVE \A t \in Side : Whole(sentTo'[t])
    BY DEF SentWhole
  <2>1. d \in Bytes
    BY <1>2 DEF Whole
  <2>2. Accepted(d) = {d}
    BY <2>1, AcceptedType
  <2>3. sentTo' = [sentTo EXCEPT ![s] = @ \o d]
    BY <1>2, <2>2 DEF Send
  <2>4. Whole(sentTo[s] \o d)
    BY <1>2, WholeJoin DEF SentWhole
  <2>. QED BY <2>3, <2>4 DEF SentWhole, TInv
<1>. QED BY <1>1, <1>2

\* Nothing has been read when the conversation is accepted.
LEMMA HelloInit == TInv /\ Init => HInv
<1>. SUFFICES ASSUME TInv, Init, NEW g \in Nat, NEW r \in Nat PROVE HelloInv(g, r)
  BY DEF HInv
<1>1. /\ got = [s \in Side |-> 0] /\ buffer = [s \in Side |-> <<>>] /\ sentTo = [s \in Side |-> <<>>]
      /\ flow = "SOCKS5ClientHello" /\ payload = <<>> /\ waiting = FALSE
  BY DEF Init, ConnectionsInit, RelayInit
<1>2. Stream("server") \in Bytes /\ Len(Stream("server")) \in Nat
  BY StreamType DEF TInv, Side
<1>3. SubSeq(Stream("server"), 0 + 1, 0) = <<>>
  BY <1>2, NothingHeld
<1>4. SentWhole
  BY <1>1, EmptyIsWhole DEF SentWhole
<1>. QED BY <1>1, <1>3, <1>4 DEF HelloInv, Side

\* Greeting and request leave the server alone.
LEMMA HelloSocks5 ==
  ASSUME TInv, NEW g \in Nat, NEW r \in Nat, HelloInv(g, r), UNCHANGED relay,
         NEW chunk, ClientHelloTransmission(chunk) \/ ConnectionRequestTransmission(chunk)
  PROVE  HelloInv(g, r)'
<1>1. /\ flow \in SOCKS5Flow /\ flow' \in SOCKS5Flow
      /\ UNCHANGED <<payload, waiting, script, sentTo>>
      /\ Read("client", chunk) /\ \E d : Keep("client", d)
  BY DEF ClientHelloTransmission, ConnectionRequestTransmission, relay, Reply, NoSend, Refused,
         SOCKS5Flow
<1>2. got'["server"] = got["server"] /\ buffer'["server"] = buffer["server"]
  BY <1>1 DEF Read, Keep, TInv, PeersOK, Side
<1>. QED BY <1>1, <1>2 DEF HelloInv, SentWhole, SOCKS5Flow, Stream

\* When the request is answered, greeting and request have been read and nothing else.
LEMMA HelloReply ==
  ASSUME TInv, NEW g \in Nat, NEW r \in Nat, SocksInv(g, r), HelloInv(g, r),
         UNCHANGED relay, ConnectionRequestReply
  PROVE  HelloInv(g, r)'
<1>1. /\ flow = "SOCKS5ConnectionRequest" /\ host # <<>> /\ UNCHANGED <<script, got, sentTo>>
      /\ UNCHANGED <<payload, waiting>>
      /\ \/ BuffersCleared /\ flow' = "TLSClientHello"
         \/ UNCHANGED <<flow, buffer>>
  BY DEF ConnectionRequestReply, Reply, Refused, NoSend, relay
<1>2. CASE UNCHANGED <<flow, buffer>>
  BY <1>1, <1>2 DEF HelloInv, SentWhole, Stream
<1>3. CASE BuffersCleared /\ flow' = "TLSClientHello"
  <2>0. PeersOK /\ \A s \in Side : buffer'[s] = <<>>
    BY <1>3 DEF TInv, BuffersCleared
  <2>1. got["client"] = g + r /\ got["server"] = 0 /\ g + r \in Nat
    BY <1>1 DEF SocksInv, HoldsRequest, HelloInv, SOCKS5Flow
  <2>2. \A s \in Side : /\ Stream(s) \in Bytes /\ got[s] <= Len(Stream(s))
                        /\ UNCHANGED Stream(s)
    BY <1>1, <2>0, StreamType DEF PeersOK, Stream
  <2>3. SubSeq(Stream("client"), g + r + 1, g + r) = <<>>
    <3>. DEFINE n == g + r
    <3>1. n <= Len(Stream("client")) /\ Stream("client") \in Bytes /\ n \in Nat
      BY <2>1, <2>2 DEF Side
    <3>. HIDE DEF n
    <3>2. SubSeq(Stream("client"), n + 1, n) = <<>>
      BY <3>1, NothingHeld
    <3>. QED BY <3>2 DEF n
  <2>4. SubSeq(Stream("server"), 0 + 1, 0) = <<>>
    BY <2>1, <2>2, NothingHeld DEF Side
  <2>5. SentWhole'
    BY <1>1, <2>1 DEF HelloInv, SentWhole, SOCKS5Flow
  <2>6. payload' = <<>> /\ waiting' = FALSE /\ sentTo'["client"] = <<>>
    BY <1>1 DEF HelloInv, SOCKS5Flow
  <2>7. /\ got'["client"] = g + r /\ got'["server"] = 0
        /\ buffer'["client"] = SubSeq(Stream("client")', g + r + 1, got'["client"])
        /\ buffer'["server"] = SubSeq(Stream("server")', 0 + 1, got'["server"])
    <3>1. UNCHANGED <<Stream("client"), Stream("server"), got>>
      BY <1>1 DEF Stream
    <3>. QED BY <2>0, <2>1, <2>3, <2>4, <3>1 DEF Side
  <2>8. g + r <= got'["client"]
    BY <2>1, <2>7
  <2>. QED BY <1>3, <2>5, <2>6, <2>7, <2>8 DEF HelloInv, SOCKS5Flow
<1>. QED BY <1>1, <1>2, <1>3

\* The hello flow of the client sends its ClientHello in a record of its own.
LEMMA HelloClient ==
  ASSUME TInv, NEW g \in Nat, NEW r \in Nat, NEW h \in Nat, NEW e \in Nat,
         WholeMessagesOf(script, g, r, h, e), HelloInv(g, r),
         NEW chunk \in Chunks("client"), TLSReceivingClientHello(chunk)
  PROVE  HelloInv(g, r)'
<1>. DEFINE d == Stream("client")
            received == buffer["client"] \o chunk
            c == CopyEveryClientPayload[received]
            p == ProcessEveryFullMessage[c]
            k == g + r
<1>0. /\ "client" \in Side /\ "server" \in Side /\ PeersOK /\ d \in Bytes /\ d = script.client
      /\ ServerSendsRecords(script) /\ HellosFirst(script, h, e)
  BY StreamType DEF Side, TInv, WholeMessagesOf, Stream
<1>1. flow = "TLSClientHello" /\ Read("client", chunk) /\ UNCHANGED script
  BY DEF TLSReceivingClientHello
<1>2. /\ payload = <<>> /\ waiting = FALSE /\ sentTo["client"] = <<>> /\ SentWhole
      /\ got["server"] = 0 /\ buffer["server"] = SubSeq(Stream("server"), 0 + 1, 0)
      /\ k <= got["client"] /\ buffer["client"] = SubSeq(d, k + 1, got["client"]) /\ k \in Nat
  BY <1>1 DEF HelloInv
<1>3. PICK n \in Nat : /\ NextBytes("client", n, chunk) /\ n <= Arrived("client")
                       /\ got'["client"] = n /\ n <= Len(d)
  BY <1>1, ClientReadIs
<1>4. n \in script.ends["client"] /\ n <= h /\ k < n
  <2>1. Arrived("client") <= h /\ Arrived("client") \in Nat
    BY <1>0, <1>2, HelloArrival, ArrivedIs
  <2>2. got["client"] \in Nat /\ got["client"] < n /\ MayEnd("client", n)
    BY <1>0, <1>3 DEF NextBytes, PeersOK
  <2>3. n \in script.ends["client"]
    BY <1>0, <1>1, <2>2, StartsAre DEF TLSFlow
  <2>. HIDE DEF k
  <2>. QED BY <1>2, <1>3, <2>1, <2>2, <2>3
<1>5. received = SubSeq(d, k + 1, n)
  <2>1. HeldBehind("client", k)
    BY <1>2 DEF HeldBehind
  <2>. HIDE DEF k, c, p
  <2>2. buffer["client"] \o chunk = SubSeq(Stream("client"), k + 1, n)
    BY <1>0, <1>3, <2>1, HeldThenRead
  <2>. QED BY <2>2
<1>6. MessagesFit[c] /\ p.rest = <<>> /\ IsClientHelloMessage(p.records)
  <2>1. \A m \in script.ends["client"] :
           k < m /\ m <= h =>
             LET x == CopyEveryClientPayload[SubSeq(d, k + 1, m)]
                 q == ProcessEveryFullMessage[x]
             IN MessagesFit[x] /\ q.rest = <<>> /\ IsClientHelloMessage(q.records)
    BY <1>0 DEF WholeMessagesOf
  <2>. HIDE DEF d, k, received
  <2>. QED BY <1>4, <1>5, <2>1
<1>7. c \in Bytes
  <2>1. received \in Bytes
    BY <1>0, <1>1, ReadType
  <2>. HIDE DEF received
  <2>. QED BY <2>1, CopyEveryClientPayloadIs
<1>. HIDE DEF c, d, k
<1>8. Whole(p.records)
  BY <1>6, <1>7, ReframedIsWhole
<1>9. /\ payload' = <<>> /\ UNCHANGED waiting
      /\ \/ Send("server", p.records) /\ BuffersCleared /\ flow' = "TLSServerHello"
         \/ NoSend /\ Keep("client", received) /\ UNCHANGED flow
  BY <1>2, <1>6, <1>7, ClientHelloStep DEF c
<1>. HIDE DEF p, received
<1>10. SentWhole'
  BY <1>0, <1>1, <1>2, <1>8, <1>9, SendWhole
<1>11. /\ sentTo'["client"] = <<>> /\ got'["server"] = 0 /\ UNCHANGED <<Stream("server"), d>>
  BY <1>0, <1>1, <1>2, <1>9 DEF Send, NoSend, Read, TInv, PeersOK, Side, Stream, d
<1>12. SubSeq(Stream("server"), 0 + 1, 0) = <<>>
  <2>1. Stream("server") \in Bytes /\ Len(Stream("server")) \in Nat
    BY <1>0, StreamType
  <2>. QED BY <2>1, NothingHeld
<1>13. CASE BuffersCleared /\ flow' = "TLSServerHello"
  BY <1>0, <1>2, <1>9, <1>10, <1>11, <1>12, <1>13 DEF HelloInv, BuffersCleared, SOCKS5Flow
<1>14. CASE Keep("client", received) /\ UNCHANGED flow
  <2>1. buffer'["client"] = received /\ buffer'["server"] = buffer["server"]
    BY <1>0, <1>14 DEF Keep, TInv, Side
  <2>2. k <= n
    BY <1>2, <1>4
  <2>. QED BY <1>1, <1>2, <1>3, <1>5, <1>9, <1>10, <1>11, <1>14, <2>1, <2>2 DEF HelloInv, SOCKS5Flow, k, d
<1>. QED BY <1>9, <1>13, <1>14

\* The hello flow of the server sends each message in a record of its own.
LEMMA HelloServer ==
  ASSUME TInv, WInv, NEW g \in Nat, NEW r \in Nat, NEW h \in Nat, NEW e \in Nat,
         WholeMessagesOf(script, g, r, h, e), HelloInv(g, r),
         NEW chunk \in Chunks("server"), TLSReceivingServerHello(chunk)
  PROVE  HelloInv(g, r)'
<1>. DEFINE d == Stream("server")
            received == buffer["server"] \o chunk
            c == CopyEveryServerPayload[received]
            p == ProcessEveryFullMessage[payload \o c.data]
<1>0. /\ "client" \in Side /\ "server" \in Side /\ PeersOK /\ d \in Bytes /\ d = script.server
      /\ ServerSendsRecords(script) /\ HellosFirst(script, h, e)
  BY StreamType DEF Side, TInv, WholeMessagesOf, Stream
<1>1. flow = "TLSServerHello" /\ Read("server", chunk) /\ UNCHANGED <<script, d>>
  BY DEF TLSReceivingServerHello, Stream
<1>2. /\ payload = <<>> /\ waiting = FALSE /\ sentTo["client"] = <<>> /\ SentWhole
      /\ buffer["server"] = SubSeq(d, 0 + 1, got["server"])
  BY <1>1 DEF HelloInv
<1>3. /\ received \in Bytes /\ c \in ServerPayload /\ p \in Reframed /\ Harmless(c)
      /\ ServerHelloDoes(received, received, c, p)
  <2>. HIDE DEF received, c, p
  <2>. QED BY <1>0, ServerRecordsAre DEF received, c, p
<1>4. PICK n \in Nat : NextBytes("server", n, chunk)
  BY <1>0, ChunkIs
<1>5. got'["server"] = n
  BY <1>0, <1>1, <1>4, ReadIs DEF PeersOK
<1>6. n \in script.ends["server"] /\ 0 < n /\ n <= e
  <2>1. Arrived("server") <= e /\ Arrived("server") \in Nat
    <3>1. Arrived("server") <= IF "server" = "client" THEN h ELSE e
      BY <1>0, <1>2, HelloArrival
    <3>. QED BY <1>0, <3>1, ArrivedIs
  <2>2. got["server"] \in Nat /\ got["server"] < n /\ MayEnd("server", n) /\ n <= Arrived("server")
    BY <1>0, <1>4 DEF NextBytes, PeersOK
  <2>3. n \in script.ends["server"]
    BY <1>0, <1>1, <2>2, StartsAre DEF TLSFlow
  <2>. QED BY <2>1, <2>2, <2>3
<1>7. received = SubSeq(d, 0 + 1, n)
  <2>. DEFINE k == 0
  <2>1. HeldBehind("server", k)
    BY <1>0, <1>2 DEF HeldBehind, PeersOK
  <2>. HIDE DEF k, c, p
  <2>2. buffer["server"] \o chunk = SubSeq(Stream("server"), k + 1, n)
    BY <1>0, <1>4, <2>1, HeldThenRead
  <2>. QED BY <2>2 DEF k
<1>8. MessagesFit[c.data] /\ p.rest = <<>> /\ c.data \in Bytes
  <2>1. c.data \in Bytes
    BY <1>3 DEF ServerPayload
  <2>2. payload \o c.data = c.data
    BY <1>2, <2>1, EmptyInFront
  <2>3. \A m \in script.ends["server"] :
           0 < m /\ m <= e =>
             LET x == CopyEveryServerPayload[SubSeq(d, 1, m)].data
             IN MessagesFit[x] /\ ProcessEveryFullMessage[x].rest = <<>>
    BY <1>0 DEF WholeMessagesOf
  <2>4. received = SubSeq(d, 1, n)
    BY <1>7
  <2>. HIDE DEF d, received
  <2>. QED BY <1>6, <2>1, <2>2, <2>3, <2>4
<1>9. Whole(p.records \o c.ccs)
  <2>1. payload \o c.data = c.data
    BY <1>2, <1>8, EmptyInFront
  <2>2. Whole(p.records)
    <3>. HIDE DEF c
    <3>. QED BY <1>8, <2>1, ReframedIsWhole
  <2>. HIDE DEF c, p
  <2>. QED BY <1>3, <2>2, WholeJoin DEF Harmless
<1>. HIDE DEF received, c, p, d
<1>10. \/ NoSend /\ Keep("server", received) /\ payload' = <<>> /\ UNCHANGED <<flow, waiting>>
       \/ Send("client", p.records \o c.ccs) /\ flow' = "TLSDefault"
  BY <1>3, <1>8 DEF ServerHelloDoes, Harmless
<1>11. SentWhole'
  BY <1>0, <1>1, <1>2, <1>9, <1>10, SendWhole
<1>12. CASE NoSend /\ Keep("server", received) /\ payload' = <<>> /\ UNCHANGED <<flow, waiting>>
  <2>1. buffer'["server"] = received
    BY <1>0, <1>12 DEF Keep, TInv
  <2>. QED BY <1>1, <1>2, <1>5, <1>7, <1>11, <1>12, <2>1 DEF HelloInv, NoSend, SOCKS5Flow, d
<1>13. CASE flow' = "TLSDefault"
  BY <1>11, <1>13 DEF HelloInv, SOCKS5Flow
<1>. QED BY <1>10, <1>12, <1>13

\* The relay sends whole records.
LEMMA HelloDefault ==
  ASSUME TInv, NEW g \in Nat, NEW r \in Nat, HelloInv(g, r),
         NEW s \in Side, NEW chunk \in Chunks(s), TLSDefault(s, chunk)
  PROVE  HelloInv(g, r)'
<1>1. flow = "TLSDefault" /\ flow' = "TLSDefault" /\ UNCHANGED script /\ Other(s) \in Side
  BY DEF TLSDefault, Side, Other
<1>2. PICK d \in Bytes : (NoSend \/ Send(Other(s), d)) /\ Whole(d)
  BY DefaultSendsRecords
<1>3. SentWhole'
  BY <1>1, <1>2, SendWhole DEF HelloInv
<1>. QED BY <1>1, <1>3 DEF HelloInv, SOCKS5Flow

\* Every step keeps what was sent whole.
LEMMA HelloStep == TInv /\ WInv /\ RInv /\ HInv /\ [Next]_vars => HInv'
<1>. SUFFICES ASSUME TInv, WInv, RInv, HInv, [Next]_vars,
                     NEW g \in Nat, NEW r \in Nat, NEW h \in Nat, NEW e \in Nat, g >= 3, r >= 5,
                     WholeMessagesOf(script, g, r, h, e)'
              PROVE  HelloInv(g, r)'
  BY DEF HInv
<1>1. UNCHANGED script
  BY DEF Next, vars, connections, Socks5Next, TLSNext, ClientHelloTransmission,
         ConnectionRequestTransmission, ConnectionRequestReply, TLSReceivingClientHello,
         RestOfRecord, TLSReceivingServerHello, TLSDefault
<1>2. WholeMessagesOf(script, g, r, h, e)
  BY <1>1
<1>3. HelloInv(g, r)
  BY <1>2 DEF HInv
<1>4. SocksInv(g, r) /\ ServerSendsRecords(script)
  <2>1. PoliteClientOf(script, g, r) /\ ServerSendsRecords(script)
    BY <1>2 DEF WholeMessagesOf
  <2>. QED BY <2>1 DEF RInv
<1>5. ASSUME NEW chunk \in Chunks("client"),
             ClientHelloTransmission(chunk) \/ ConnectionRequestTransmission(chunk), UNCHANGED relay
      PROVE  HelloInv(g, r)'
  BY <1>3, <1>5, HelloSocks5
<1>6. ASSUME ConnectionRequestReply, UNCHANGED relay PROVE HelloInv(g, r)'
  BY <1>3, <1>4, <1>6, HelloReply
<1>7. ASSUME NEW chunk \in Chunks("client"), TLSReceivingClientHello(chunk) PROVE HelloInv(g, r)'
  BY <1>2, <1>3, <1>7, HelloClient
<1>8. ASSUME NEW chunk \in Chunks("server"), RestOfRecord(chunk) PROVE HelloInv(g, r)'
  BY <1>4, <1>8, NothingExpected
<1>9. ASSUME NEW chunk \in Chunks("server"), TLSReceivingServerHello(chunk) PROVE HelloInv(g, r)'
  BY <1>2, <1>3, <1>9, HelloServer
<1>10. ASSUME NEW s \in Side, NEW chunk \in Chunks(s), TLSDefault(s, chunk) PROVE HelloInv(g, r)'
  BY <1>3, <1>10, HelloDefault
<1>11. CASE UNCHANGED vars
  BY <1>3, <1>11 DEF vars, connections, relay, HelloInv, SentWhole, Stream
<1>. QED BY <1>5, <1>6, <1>7, <1>8, <1>9, <1>10, <1>11 DEF Next, Socks5Next, TLSNext

\* A server that sends records and a polite client, reads of the hello flows ending with
\* records: each peer gets whole records only, if no read of the hello flows ends within a
\* message and no message is longer than the length of a record can tell.
THEOREM OnlyWholeRecords == Spec => [](WholeMessages(script) => WholeRecords)
<1>1. TInv /\ HInv => (WholeMessages(script) => WholeRecords)
  <2>. SUFFICES ASSUME TInv, HInv, WholeMessages(script) PROVE WholeRecords
    OBVIOUS
  <2>1. PICK g \in 3 .. Len(script.client), r \in 5 .. Len(script.client),
             h \in script.ends["client"], e \in script.ends["server"] :
          WholeMessagesOf(script, g, r, h, e)
    BY DEF WholeMessages
  <2>2. Len(script.client) \in Nat /\ Len(script.server) \in Nat
    BY StreamType DEF TInv, Side, Stream
  <2>3. script.ends["client"] \subseteq Nat /\ script.ends["server"] \subseteq Nat
    BY <2>1, <2>2 DEF WholeMessagesOf, ServerSendsRecords
  <2>4. g \in Nat /\ r \in Nat /\ h \in Nat /\ e \in Nat /\ g >= 3 /\ r >= 5
    BY <2>2, <2>3
  <2>5. SentWhole
    BY <2>1, <2>4 DEF HInv, HelloInv
  <2>. QED BY <2>5 DEF SentWhole, Whole, WholeRecords
<1>. QED BY <1>1, TInvInit, TInvStep, NoHarmInit, NoHarmStep, ServedInit, ServedStep,
            HelloInit, HelloStep, PTL DEF Spec
=============================================================================
