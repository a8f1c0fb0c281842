----------------------- MODULE CapturePacketsProofs ------------------------
(***************************************************************************)
(* What the captured packets say, for any conversations and reads: their   *)
(* numbers follow from each other, and no two conversations share a pair   *)
(* of addresses.                                                           *)
(***************************************************************************)
EXTENDS CaptureProofs

-----------------------------------------------------------------------------
(* The numbers of the packets. *)

\* The numbers the proxy keeps are where the packets of each side ended.
Tip(packets, numbers) ==
  \A j \in 1 .. Len(packets) :
    LastFromItsSide(packets, j, Len(packets) + 1) =>
      SequenceAfter(packets[j]) = numbers[packets[j].from].seq

\* What one side sent is what the other acknowledges.
Paired(numbers) == \A s \in Side : numbers[s].seq = numbers[Other(s)].ack

Good(l) ==
  /\ l.numbers \in [Side -> Numbers]
  /\ l.packets \in Seq(Entry)
  /\ Len(l.packets) >= 3
  /\ Follows(l.packets)
  /\ Tip(l.packets, l.numbers)
  /\ Paired(l.numbers)

First == [seq |-> 1, ack |-> 1]

NInv ==
  \A c \in Conversation :
    IF stage[c] = "new" THEN pcap[c] = Both(First) /\ log[c] = <<>> ELSE Good(Log(c))

-----------------------------------------------------------------------------
(* Packets. *)

\* Numbers below their modulus are themselves, and 1 is one of them.
LEMMA NumbersPositive ==
  /\ SeqModulus \in Nat \ {0, 1} /\ 1 % SeqModulus = 1
  /\ \A a \in 0 .. SeqModulus - 1 : a % SeqModulus = a
<1>1. SeqModulus \in Nat \ {0, 1}
  BY ModulusAssumption
<1>2. \A b \in Nat \ {0} : \A a \in 0 .. b - 1 : a % b = a
  OBVIOUS
<1>3. 1 \in 0 .. SeqModulus - 1
  BY <1>1
<1>. QED BY <1>1, <1>2, <1>3

\* A packet with the numbers the proxy keeps for its side fits behind the others.
LEMMA OneMorePacket ==
  ASSUME NEW packets \in Seq(Entry), Len(packets) >= 3,
         NEW n \in [Side -> Numbers], NEW m \in [Side -> Numbers], NEW p \in Entry,
         Follows(packets), Tip(packets, n), Paired(n),
         p.seq = n[p.from].seq, p.ack = n[p.from].ack,
         m[p.from].seq = SequenceAfter(p), m[Other(p.from)].seq = n[Other(p.from)].seq
  PROVE  Follows(Append(packets, p)) /\ Tip(Append(packets, p), m)
<1>. DEFINE q == Append(packets, p)
            L == Len(packets)
<1>1. /\ L \in Nat /\ L >= 3 /\ Len(q) = L + 1 /\ q[L + 1] = p
      /\ \A i \in 1 .. L : q[i] = packets[i] /\ packets[i] \in Entry
  OBVIOUS
<1>2. p.from \in Side /\ \A i \in 1 .. L : packets[i].from \in Side
  BY <1>1 DEF Entry
<1>3. \A s, t \in Side : s # t => t = Other(s) /\ s = Other(t)
  BY DEF Side, Other
<1>. HIDE DEF q, L
<1>4. \A i \in 1 .. L + 1, j \in 1 .. L :
        j < i => (LastFromItsSide(q, j, i) <=> LastFromItsSide(packets, j, i))
  BY <1>1 DEF LastFromItsSide
<1>5. ASSUME NEW j \in 1 .. L, LastFromItsSide(packets, j, L + 1)
      PROVE  SequenceAfter(packets[j]) = n[packets[j].from].seq
  BY <1>5 DEF Tip, L
<1>6. ASSUME NEW i \in 4 .. L + 1, NEW j \in 1 .. i - 1, LastFromItsSide(q, j, i)
      PROVE  SequenceAfter(q[j]) = IF q[i].from = q[j].from THEN q[i].seq ELSE q[i].ack
  <2>1. j \in 1 .. L /\ j < i /\ q[j] = packets[j] /\ LastFromItsSide(packets, j, i)
    BY <1>1, <1>4, <1>6
  <2>2. CASE i <= L
    <3>1. i \in 4 .. L /\ q[i] = packets[i]
      BY <1>1, <2>2
    <3>. QED BY <2>1, <3>1 DEF Follows, L
  <2>3. CASE i = L + 1
    <3>1. SequenceAfter(q[j]) = n[packets[j].from].seq
      BY <1>5, <2>1, <2>3
    <3>2. q[i] = p
      BY <1>1, <2>3
    <3>3. CASE p.from = packets[j].from
      BY <2>1, <3>1, <3>2, <3>3
    <3>4. CASE p.from # packets[j].from
      <4>1. p.from = Other(packets[j].from) /\ packets[j].from \in Side
        BY <1>2, <1>3, <2>1, <3>4
      <4>2. n[packets[j].from].seq = n[p.from].ack
        BY <4>1 DEF Paired
      <4>. QED BY <2>1, <3>1, <3>2, <3>4, <4>2
    <3>. QED BY <3>3, <3>4
  <2>. QED BY <1>1, <2>2, <2>3
<1>7. Follows(q)
  BY <1>1, <1>6 DEF Follows
<1>8. ASSUME NEW j \in 1 .. L + 1, LastFromItsSide(q, j, L + 2)
      PROVE  SequenceAfter(q[j]) = m[q[j].from].seq
  <2>1. CASE j = L + 1
    BY <1>1, <2>1
  <2>2. CASE j \in 1 .. L
    <3>1. p.from # packets[j].from /\ LastFromItsSide(q, j, L + 1)
      BY <1>1, <1>8, <2>2 DEF LastFromItsSide
    <3>2. packets[j].from = Other(p.from)
      BY <1>2, <1>3, <2>2, <3>1
    <3>3. SequenceAfter(packets[j]) = n[packets[j].from].seq
      BY <1>1, <1>4, <1>5, <2>2, <3>1
    <3>. QED BY <1>1, <2>2, <3>2, <3>3
  <2>. QED BY <1>1, <2>1, <2>2
<1>9. Tip(q, m)
  BY <1>1, <1>8 DEF Tip
<1>. QED BY <1>7, <1>9 DEF q

\* Reads and replies: a packet moves the numbers of both sides, its acknowledgment none.
LEMMA CaptureIsGood ==
  ASSUME NEW l, Good(l), NEW c \in Conversation, count' \in [Conversation -> Nat],
         NEW s \in Side, NEW len \in Int, NEW first \in Int, NEW last \in Int
  PROVE  Good(CapturePacket(l, c, s, len, first, last))
<1>. DEFINE n == l.numbers
            moved == Advance(n, s, len)
            o == Other(s)
            p == Packet(c, s, s, "PSHACK", n[s], len, first, last)
            a == Control(c, o, o, "ACK", moved[o])
            r == CapturePacket(l, c, s, len, first, last)
<1>1. n \in [Side -> Numbers] /\ l.packets \in Seq(Entry) /\ Len(l.packets) >= 3
      /\ Follows(l.packets) /\ Tip(l.packets, n) /\ Paired(n)
  BY DEF Good
<1>2. o \in Side /\ o # s /\ Other(o) = s /\ (\A t \in Side : t = s \/ t = o)
  BY DEF Side, Other
<1>3. moved \in [Side -> Numbers]
  BY <1>1, AdvanceType
<1>. HIDE DEF n, o
<1>4. /\ moved[s].seq = (n[s].seq + len) % SeqModulus /\ moved[s].ack = n[s].ack
      /\ moved[o].ack = (n[o].ack + len) % SeqModulus /\ moved[o].seq = n[o].seq
  BY <1>1, <1>2 DEF Advance, Numbers, o
<1>. HIDE DEF moved
<1>5. Paired(moved)
  BY <1>1, <1>2, <1>4 DEF Paired, o
<1>6. /\ p \in Entry /\ p.from = s /\ p.seq = n[s].seq /\ p.ack = n[s].ack /\ p.len = len
      /\ p.flags = "PSHACK"
  BY <1>1, PacketType
<1>7. /\ a \in Entry /\ a.from = o /\ a.seq = moved[o].seq /\ a.ack = moved[o].ack /\ a.len = 0
      /\ a.flags = "ACK"
  BY <1>2, <1>3, ControlType DEF Flags
<1>8. r.numbers = moved /\ r.packets = l.packets \o <<p, a>>
  BY DEF CapturePacket, moved, n, o
<1>. HIDE DEF p, a, r
<1>9. r.packets = Append(Append(l.packets, p), a) /\ r.packets \in Seq(Entry)
      /\ Append(l.packets, p) \in Seq(Entry) /\ Len(Append(l.packets, p)) >= 3
      /\ Len(r.packets) >= 3
  BY <1>1, <1>6, <1>7, <1>8
<1>10. SequenceAfter(p) = moved[s].seq
  <2>1. n[s].seq + len + 0 = n[s].seq + len
    BY <1>1, ModulusAssumption DEF Numbers
  <2>. QED BY <1>4, <1>6, <2>1 DEF SequenceAfter
<1>11. SequenceAfter(a) = moved[o].seq
  <2>1. moved[o].seq \in 0 .. SeqModulus - 1
    BY <1>2, <1>3 DEF Numbers
  <2>2. moved[o].seq + 0 + 0 = moved[o].seq
    BY <2>1, NumbersPositive
  <2>. QED BY <1>7, <2>1, <2>2, NumbersPositive DEF SequenceAfter
<1>12. Follows(Append(l.packets, p)) /\ Tip(Append(l.packets, p), moved)
  BY <1>1, <1>3, <1>4, <1>6, <1>10, OneMorePacket DEF o
<1>13. Follows(r.packets) /\ Tip(r.packets, moved)
  BY <1>2, <1>3, <1>5, <1>7, <1>9, <1>11, <1>12, OneMorePacket
<1>. QED BY <1>3, <1>5, <1>8, <1>9, <1>13 DEF Good, r

\* The packets of a reply follow those before.
LEMMA RepliedIsGood ==
  ASSUME NEW l, Good(l), NEW c \in Conversation, count' \in [Conversation -> Nat], NEW n \in Int
  PROVE  Good(Replied(l, c, n))
<1>1. "server" \in Side /\ 1 \in Int /\ 0 \in Int
  BY DEF Side
<1>2. Good(CapturePacket(l, c, "server", n, 1, 0))
  BY <1>1, CaptureIsGood
<1>. QED BY <1>2 DEF Replied

\* The FIN exchange moves no number.
LEMMA FinAckIsGood ==
  ASSUME NEW l, Good(l), NEW c \in Conversation, count' \in [Conversation -> Nat],
         NEW s \in Side
  PROVE  Good(CaptureFinAck(l, c, s))
<1>. DEFINE n == l.numbers
            o == Other(s)
            x == Control(c, o, s, "FIN", n[s])
            y == Control(c, s, o, "FINACK", n[o])
            z == Control(c, o, s, "ACK", n[s])
            r == CaptureFinAck(l, c, s)
            A == Append(l.packets, x)
            B == Append(A, y)
<1>1. /\ n \in [Side -> Numbers] /\ l.packets \in Seq(Entry) /\ Len(l.packets) >= 3
      /\ Follows(l.packets) /\ Tip(l.packets, n) /\ Paired(n)
  BY DEF Good
<1>2. o \in Side /\ "FIN" \in Flags /\ "FINACK" \in Flags /\ "ACK" \in Flags
  BY DEF Side, Other, Flags
<1>. HIDE DEF n, o
<1>3. /\ x \in Entry /\ x.from = s /\ x.seq = n[s].seq /\ x.ack = n[s].ack /\ x.len = 0
      /\ x.flags = "FIN"
  BY <1>1, <1>2, ControlType
<1>4. /\ y \in Entry /\ y.from = o /\ y.seq = n[o].seq /\ y.ack = n[o].ack /\ y.len = 0
      /\ y.flags = "FINACK"
  BY <1>1, <1>2, ControlType
<1>5. /\ z \in Entry /\ z.from = s /\ z.seq = n[s].seq /\ z.ack = n[s].ack /\ z.len = 0
      /\ z.flags = "ACK"
  BY <1>1, <1>2, ControlType
<1>6. r.numbers = n /\ r.packets = l.packets \o <<x, y, z>>
  <2>1. r = [l EXCEPT !.packets = @ \o <<x, y, z>>]
    BY DEF CaptureFinAck, n, o
  <2>. QED BY <2>1 DEF n
<1>. HIDE DEF x, y, z, r
<1>7. A \in Seq(Entry) /\ B \in Seq(Entry) /\ Len(A) >= 3 /\ Len(B) >= 3
  BY <1>1, <1>3, <1>4
<1>8. r.packets = Append(B, z) /\ r.packets \in Seq(Entry) /\ Len(r.packets) >= 3
  BY <1>1, <1>3, <1>4, <1>5, <1>6
<1>. HIDE DEF A, B
<1>9. \A t \in Side : (n[t].seq + 0 + 0) % SeqModulus = n[t].seq
  <2>. TAKE t \in Side
  <2>1. n[t].seq \in 0 .. SeqModulus - 1
    BY <1>1 DEF Numbers
  <2>2. n[t].seq + 0 + 0 = n[t].seq
    BY <2>1, NumbersPositive
  <2>. QED BY <2>1, <2>2, NumbersPositive
<1>10. SequenceAfter(x) = n[s].seq /\ SequenceAfter(y) = n[o].seq /\ SequenceAfter(z) = n[s].seq
  BY <1>2, <1>3, <1>4, <1>5, <1>9 DEF SequenceAfter
<1>11. Follows(A) /\ Tip(A, n)
  BY <1>1, <1>3, <1>10, OneMorePacket DEF A
<1>12. Follows(B) /\ Tip(B, n)
  BY <1>1, <1>4, <1>7, <1>10, <1>11, OneMorePacket DEF B
<1>13. Follows(r.packets) /\ Tip(r.packets, n)
  BY <1>1, <1>5, <1>7, <1>8, <1>10, <1>12, OneMorePacket
<1>. QED BY <1>1, <1>6, <1>8, <1>13 DEF Good, r

-----------------------------------------------------------------------------
(* Steps. *)

\* A conversation that goes on with good packets disturbs no other one.
LEMMA GoodBecomes ==
  ASSUME CInv, NInv, NEW c \in Conversation, NEW m, NEW k, NEW state,
         Becomes(c, m, k, state), Good(m)
  PROVE  NInv'
<1>1. TypeOK /\ log \in [Conversation -> Seq(Entry)]
  BY DEF CInv
<1>2. /\ stage'[c] # "new" /\ pcap'[c] = m.numbers /\ log'[c] = m.packets
      /\ \A d \in Conversation \ {c} :
           stage'[d] = stage[d] /\ pcap'[d] = pcap[d] /\ log'[d] = log[d]
  BY <1>1 DEF Becomes, TypeOK
<1>3. Good([numbers |-> pcap'[c], packets |-> log'[c]])
  BY <1>2 DEF Good
<1>. QED BY <1>2, <1>3 DEF NInv, Log

\* A step that captures a good outcome keeps the numbers.
LEMMA GoodOutcome ==
  ASSUME CInv, NInv, NEW c \in Conversation, UNCHANGED count, NEW l, Good(l),
         NEW k \in [Side -> 0 .. MaxBytes], stage[c] # "new", Outcome(c, l, k)
  PROVE  NInv'
<1>1. l.numbers \in [Side -> Numbers] /\ l.packets \in Seq(Entry)
  BY DEF Good
<1>2. PICK m, kk, state :
        /\ Becomes(c, m, kk, state)
        /\ \A t \in Side : kk[t] <= k[t]
        /\ m = l \/ m = Replied(l, c, 2)
        /\ \A t \in Side, b \in Int : Carried(m.packets, t, b) <=> Carried(l.packets, t, b)
  BY <1>1, OutcomeBecomes
<1>3. count' \in [Conversation -> Nat] /\ 2 \in Int
  BY DEF CInv, TypeOK
<1>4. Good(Replied(l, c, 2))
  BY <1>3, RepliedIsGood
<1>. QED BY <1>2, <1>4, GoodBecomes

\* What a conversation that was accepted has is good.
LEMMA AcceptedIsGood ==
  ASSUME CInv, NInv, NEW c \in Conversation, stage[c] # "new", UNCHANGED count
  PROVE  Good(Log(c)) /\ count' \in [Conversation -> Nat]
BY DEF NInv, CInv, TypeOK

\* Reading keeps the numbers.
LEMMA ReadDataNumbers ==
  ASSUME CInv, NInv, NEW c \in Conversation, NEW s \in Side, ReadData(c, s)
  PROVE  NInv'
<1>1. PICK n \in 1 .. MaxRead :
        /\ got[c][s] + n <= MaxBytes
        /\ UNCHANGED count
        /\ Outcome(c, CaptureBuffer(c, s, n), [kept[c] EXCEPT ![s] = @ + n])
  BY DEF ReadData
<1>2. stage[c] # "new"
  BY DEF ReadData, Reads
<1>3. TypeOK /\ KeptIsRead
  BY DEF CInv
<1>4. /\ kept[c][s] \in Nat /\ got[c][s] \in Nat /\ n \in Nat /\ kept[c][s] <= got[c][s]
      /\ MaxBytes \in Nat
  BY <1>3, BoundsAssumption DEF TypeOK, KeptIsRead
<1>5. [kept[c] EXCEPT ![s] = @ + n] \in [Side -> 0 .. MaxBytes]
  BY <1>1, <1>3, <1>4 DEF TypeOK
<1>. DEFINE l == Log(c)
            x == kept[c][s] + n
            y == got[c][s] - kept[c][s] + 1
            z == got[c][s] + n
<1>6. x \in Int /\ y \in Int /\ z \in Int
  BY <1>4
<1>7. CaptureBuffer(c, s, n) = CapturePacket(l, c, s, x, y, z)
  BY DEF CaptureBuffer
<1>. HIDE DEF l, x, y, z
<1>8. Good(l) /\ count' \in [Conversation -> Nat]
  BY <1>1, <1>2, AcceptedIsGood DEF l
<1>9. Good(CapturePacket(l, c, s, x, y, z))
  BY <1>6, <1>8, CaptureIsGood
<1>. QED BY <1>1, <1>2, <1>5, <1>7, <1>9, GoodOutcome

\* The end of a stream keeps the numbers.
LEMMA ReadEndsNumbers ==
  ASSUME CInv, NInv, NEW c \in Conversation, NEW s \in Side, ReadEnds(c, s)
  PROVE  NInv'
<1>. DEFINE lg == Log(c)
            l == CaptureFinAck(lg, c, s)
<1>1. /\ UNCHANGED count
      /\ \/ /\ Store(c, l) /\ stage' = [stage EXCEPT ![c] = "over"] /\ UNCHANGED kept
         \/ Outcome(c, l, kept[c])
  BY DEF ReadEnds
<1>2. stage[c] # "new"
  BY DEF ReadEnds, Reads
<1>3. TypeOK /\ kept[c] \in [Side -> 0 .. MaxBytes]
  BY DEF CInv, TypeOK
<1>. HIDE DEF lg
<1>4. Good(lg) /\ count' \in [Conversation -> Nat]
  BY <1>1, <1>2, AcceptedIsGood DEF lg
<1>5. Good(l)
  BY <1>4, FinAckIsGood
<1>. HIDE DEF l
<1>6. CASE Store(c, l) /\ stage' = [stage EXCEPT ![c] = "over"] /\ UNCHANGED kept
  <2>1. kept' = [kept EXCEPT ![c] = kept[c]]
    BY <1>3, <1>6 DEF TypeOK
  <2>2. Becomes(c, l, kept[c], "over")
    BY <1>3, <1>5, <1>6, <2>1 DEF Store, Becomes, Stage, Good
  <2>. QED BY <1>5, <2>2, GoodBecomes
<1>7. CASE Outcome(c, l, kept[c])
  BY <1>1, <1>2, <1>3, <1>5, <1>7, GoodOutcome
<1>. QED BY <1>1, <1>6, <1>7 DEF l, lg

\* Replying keeps the numbers.
LEMMA SendReplyNumbers ==
  ASSUME CInv, NInv, NEW c \in Conversation, SendReply(c)
  PROVE  NInv'
<1>. DEFINE l == Log(c)
            n == kept[c]["client"]
            m == Replied(l, c, n)
<1>1. UNCHANGED count /\ stage[c] # "new" /\ GoesOn(c, m, "clientHello")
  BY DEF SendReply
<1>2. n \in Int
  BY BoundsAssumption DEF CInv, TypeOK, Side
<1>. HIDE DEF l, n
<1>3. Good(l) /\ count' \in [Conversation -> Nat]
  BY <1>1, AcceptedIsGood DEF l
<1>4. Good(m)
  BY <1>2, <1>3, RepliedIsGood
<1>. HIDE DEF m
<1>5. Becomes(c, m, Both(0), "clientHello")
  BY <1>1, <1>4, BoundsAssumption DEF GoesOn, Store, Becomes, Stage, Both, Good
<1>. QED BY <1>4, <1>5, GoodBecomes

\* After the handshake both sides have sent their SYN.
LEMMA AddNewPipelineNumbers ==
  ASSUME CInv, NInv, NEW c \in Conversation, AddNewPipeline(c)
  PROVE  NInv'
<1>. DEFINE h == Generate3WayTCPHandshake(c)
            l == [numbers |-> Both(First), packets |-> h]
<1>1. /\ stage[c] = "new"
      /\ count' = [count EXCEPT ![c] = pipelinesCount]
      /\ stage' = [stage EXCEPT ![c] = "greeting"]
      /\ log' = [log EXCEPT ![c] = h]
      /\ UNCHANGED pcap
  BY DEF AddNewPipeline
<1>2. TypeOK /\ log \in [Conversation -> Seq(Entry)] /\ pcap[c] = Both(First)
  BY <1>1 DEF CInv, NInv
<1>3. count' \in [Conversation -> Nat]
  BY <1>1, <1>2 DEF TypeOK
<1>4. h \in Seq(Entry) /\ (\A t \in Side, b \in Int : ~Carried(h, t, b))
  BY <1>3, HandshakeCarries
<1>5. /\ Len(h) = 3
      /\ h[2].from = "server" /\ SequenceAfter(h[2]) = 1
      /\ h[3].from = "client" /\ SequenceAfter(h[3]) = 1
      /\ h[1].from = "client"
  BY NumbersPositive
     DEF Generate3WayTCPHandshake, Control, Packet, SequenceAfter
<1>. HIDE DEF h
<1>6. Both(First) \in [Side -> Numbers] /\ Paired(Both(First))
  BY NumbersPositive, OtherSide DEF Both, First, Numbers, Paired
<1>7. Tip(h, Both(First))
  <2>. SUFFICES ASSUME NEW j \in 1 .. 3, LastFromItsSide(h, j, 4)
                PROVE  SequenceAfter(h[j]) = Both(First)[h[j].from].seq
    BY <1>5 DEF Tip
  <2>1. j # 1
    BY <1>5 DEF LastFromItsSide
  <2>. QED BY <1>5, <2>1 DEF Both, First, Side
<1>8. Good(l)
  <2>1. Follows(h)
    BY <1>5 DEF Follows
  <2>2. l.numbers = Both(First) /\ l.packets = h
    OBVIOUS
  <2>. HIDE DEF l
  <2>3. l.numbers \in [Side -> Numbers] /\ Paired(l.numbers)
    BY <1>6, <2>2
  <2>4. l.packets \in Seq(Entry) /\ Len(l.packets) >= 3
    <3>1. h \in Seq(Entry) /\ Len(h) = 3
      BY <1>4, <1>5, Zenon
    <3>2. Len(l.packets) = 3
      BY <2>2, <3>1, Zenon
    <3>. QED BY <2>2, <3>1, <3>2
  <2>5. Follows(l.packets) /\ Tip(l.packets, l.numbers)
    BY <1>7, <2>1, <2>2
  <2>. QED BY <2>3, <2>4, <2>5 DEF Good
<1>9. /\ stage'[c] # "new" /\ pcap'[c] = Both(First) /\ log'[c] = h
      /\ \A d \in Conversation \ {c} :
           stage'[d] = stage[d] /\ pcap'[d] = pcap[d] /\ log'[d] = log[d]
  BY <1>1, <1>2 DEF TypeOK
<1>. QED BY <1>8, <1>9 DEF NInv, Log

\* Each packet starts where the last one from its side ended and acknowledges all the
\* other side had sent, in every captured conversation.
THEOREM NumbersAreConsistent == Spec => []NumbersFollow
<1>1. Init => NInv
  BY DEF Init, NInv, Both, First
<1>2. CInv /\ NInv /\ [Next]_vars => NInv'
  <2>. SUFFICES ASSUME CInv, NInv, [Next]_vars PROVE NInv'
    OBVIOUS
  <2>1. CASE Next
    BY <2>1, AddNewPipelineNumbers, SendReplyNumbers, ReadDataNumbers, ReadEndsNumbers DEF Next
  <2>2. CASE UNCHANGED vars
    BY <2>2 DEF vars, NInv, Log
  <2>. QED BY <2>1, <2>2
<1>3. NInv => NumbersFollow
  <2>. SUFFICES ASSUME NInv, NEW c \in Conversation PROVE Follows(log[c])
    BY DEF NumbersFollow
  <2>1. CASE stage[c] = "new"
    BY <2>1 DEF NInv, Follows
  <2>2. CASE stage[c] # "new"
    BY <2>2 DEF NInv, Good, Log
  <2>. QED BY <2>1, <2>2
<1>. QED BY <1>1, <1>2, <1>3, CaptureInvariance, PTL DEF Spec

-----------------------------------------------------------------------------
(* The addresses of the pipelines. *)

\* The two addresses of the n-th pipeline, whichever is the source.
OfPipeline(p, n) ==
  LET e == GenerateNewPipelineEndpoints(n)
  IN {p.sip, p.dip} = {e["server"].ip, e["client"].ip}

Own(packets, n) == \A i \in DOMAIN packets : OfPipeline(packets[i], n)

\* Accepted conversations have counts of their own, and packets of their pipeline.
AInv ==
  /\ \A c \in Conversation :
       IF stage[c] = "new" THEN log[c] = <<>>
       ELSE count[c] < pipelinesCount /\ Own(log[c], count[c])
  /\ \A c, d \in Conversation :
       c # d /\ stage[c] # "new" /\ stage[d] # "new" => count[c] # count[d]

-----------------------------------------------------------------------------
(* Addresses. *)

\* What is different modulo IpModulus for the code's endpoints: the step from one
\* pipeline to the next, taken fewer than IpModulus times, and the two addresses.
AddressesGoRound ==
  /\ \A d \in Nat : 0 < d /\ d < IpModulus => (11 * d) % IpModulus # 0
  /\ (2 * 185273099) % IpModulus # 0

\* They are in the code, where addresses have 32 bits.
LEMMA Multiple ==
  ASSUME NEW k \in Nat \ {0}, NEW a \in Int, a % k = 0
  PROVE  \E q \in Int : a = k * q
BY SMTT(40)

\* Fewer than 2^32 steps of 11 never come back modulo 2^32, as 11 does not divide it.
LEMMA StepsOf32Bits ==
  ASSUME NEW k \in Nat, k = 4294967296, NEW d \in Nat, 0 < d, d < k
  PROVE  (11 * d) % k # 0
<1>. SUFFICES ASSUME (11 * d) % k = 0 PROVE FALSE
  BY SMT
<1>1. k \in Nat \ {0} /\ 11 * d \in Int
  BY SMT
<1>2. PICK q \in Int : 11 * d = k * q
  BY <1>1, Multiple, SMTT(40)
<1>3. 11 * d = 4294967296 * q
  BY <1>2, SMT
<1>4. 0 < q /\ q < 11
  BY <1>3, SMT
<1>. QED BY <1>3, <1>4, SMT

\* So it is for addresses of 32 bits.
LEMMA AddressesOf32Bits == IpModulus = 4294967296 => AddressesGoRound
<1>1. IpModulus \in Nat
  BY ModulusAssumption
<1>2. IpModulus = 4294967296 => (2 * 185273099) % IpModulus # 0
  BY SMT
<1>3. IpModulus = 4294967296 =>
        \A d \in Nat : 0 < d /\ d < IpModulus => (11 * d) % IpModulus # 0
  BY <1>1, StepsOf32Bits, SMT
<1>. QED BY <1>2, <1>3, SMT DEF AddressesGoRound

\* Equal remainders are a multiple apart.
LEMMA SameRemainder ==
  ASSUME NEW k \in Nat \ {0}, NEW a \in Int, NEW b \in Int, a % k = b % k
  PROVE  (a - b) % k = 0
BY SMTT(40)

\* Sums and opposites of multiples are multiples.
LEMMA SumOfMultiples ==
  ASSUME NEW k \in Nat \ {0}, NEW a \in Int, NEW b \in Int, a % k = 0, b % k = 0
  PROVE  (a + b) % k = 0 /\ (-a) % k = 0
<1>1. PICK q \in Int : a = k * q
  BY Multiple, Zenon
<1>2. PICK r \in Int : b = k * r
  BY Multiple, Zenon
<1>3. a + b = k * (q + r) /\ -a = k * (-q)
  BY <1>1, <1>2, SMTT(40)
<1>4. \A x \in Int : (k * x) % k = 0
  BY SMTT(40)
<1>. QED BY <1>3, <1>4, SMT

\* Two pipelines fewer than IpModulus apart have different addresses.
LEMMA PipelinesDiffer ==
  ASSUME AddressesGoRound, NEW m \in Nat, NEW n \in Nat, m < n, n - m < IpModulus,
         NEW p, NEW q, OfPipeline(p, m), OfPipeline(q, n)
  PROVE  {p.sip, p.dip} # {q.sip, q.dip}
<1>. DEFINE x == 185273099
            y == 370546198
            k == IpModulus
<1>1. x \in Int /\ y \in Int /\ y - x = x /\ 2 * 185273099 = 2 * x
  BY SMT
<1>2. k \in Nat \ {0}
  BY ModulusAssumption
<1>3. \A d \in Nat : 0 < d /\ d < k => (11 * d) % k # 0
  BY DEF AddressesGoRound
<1>4. (2 * x) % k # 0
  BY SMT DEF AddressesGoRound
<1>5. \A i \in Nat : /\ GenerateNewPipelineEndpoints(i)["server"].ip = (x + 11 * i) % k
                     /\ GenerateNewPipelineEndpoints(i)["client"].ip = (y + 11 * i) % k
  BY SMT DEF GenerateNewPipelineEndpoints
<1>. HIDE DEF x, y, k
<1>6. /\ {p.sip, p.dip} = {(x + 11 * m) % k, (y + 11 * m) % k}
      /\ {q.sip, q.dip} = {(x + 11 * n) % k, (y + 11 * n) % k}
  BY <1>5 DEF OfPipeline
<1>7. (x + 11 * m) % k # (x + 11 * n) % k
  <2>. SUFFICES ASSUME (x + 11 * m) % k = (x + 11 * n) % k PROVE FALSE
    OBVIOUS
  <2>. DEFINE a == x + 11 * n
              b == x + 11 * m
  <2>1. a \in Int /\ b \in Int /\ a - b = 11 * (n - m)
    BY <1>1
  <2>2. n - m \in Nat /\ 0 < n - m /\ n - m < k
    BY DEF k
  <2>. HIDE DEF a, b
  <2>3. a % k = b % k
    BY DEF a, b
  <2>4. (a - b) % k = 0
    BY <1>2, <2>1, <2>3, SameRemainder
  <2>. QED BY <1>3, <2>1, <2>2, <2>4
<1>8. ~((x + 11 * m) % k = (y + 11 * n) % k /\ (y + 11 * m) % k = (x + 11 * n) % k)
  <2>. SUFFICES ASSUME (x + 11 * m) % k = (y + 11 * n) % k,
                       (y + 11 * m) % k = (x + 11 * n) % k
                PROVE  FALSE
    OBVIOUS
  <2>. DEFINE a == y + 11 * n
              b == x + 11 * m
              c == y + 11 * m
              d == x + 11 * n
  <2>1. a \in Int /\ b \in Int /\ c \in Int /\ d \in Int /\ (a - b) + (c - d) = 2 * x
    BY <1>1
  <2>2. a % k = b % k /\ c % k = d % k
    OBVIOUS
  <2>. HIDE DEF a, b, c, d
  <2>3. (a - b) % k = 0 /\ (c - d) % k = 0
    BY <1>2, <2>1, <2>2, SameRemainder
  <2>. DEFINE u == a - b
              v == c - d
  <2>4. u \in Int /\ v \in Int /\ u + v = 2 * x
    BY <2>1
  <2>5. u % k = 0 /\ v % k = 0
    BY <2>3
  <2>. HIDE DEF u, v
  <2>6. (u + v) % k = 0
    BY <1>2, <2>4, <2>5, SumOfMultiples
  <2>. QED BY <1>4, <2>4, <2>6
<1>. QED BY <1>6, <1>7, <1>8

\* Equal endpoints have equal addresses.
LEMMA EndpointsHaveAddresses ==
  ASSUME NEW p, NEW q, Addresses(p) = Addresses(q)
  PROVE  {p.sip, p.dip} = {q.sip, q.dip}
<1>. DEFINE a == <<p.sip, p.sport>>
            b == <<p.dip, p.dport>>
            c == <<q.sip, q.sport>>
            d == <<q.dip, q.dport>>
<1>1. a[1] = p.sip /\ b[1] = p.dip /\ c[1] = q.sip /\ d[1] = q.dip
  OBVIOUS
<1>2. {a, b} = {c, d}
  BY DEF Addresses
<1>. HIDE DEF a, b, c, d
<1>. QED BY <1>1, <1>2

-----------------------------------------------------------------------------
(* Packets. *)

\* A control packet has the addresses of its pipeline.
LEMMA ControlIsOwn ==
  ASSUME NEW c \in Conversation, NEW ip \in Side, NEW tcp, NEW flags, NEW numbers
  PROVE  OfPipeline(Control(c, ip, tcp, flags, numbers), count'[c])
<1>. DEFINE e == GenerateNewPipelineEndpoints(count'[c])
            p == Control(c, ip, tcp, flags, numbers)
<1>. HIDE DEF e
<1>1. p.sip = e[ip].ip /\ p.dip = e[Other(ip)].ip
  BY DEF Control, Packet, e
<1>. HIDE DEF p
<1>2. {p.sip, p.dip} = {e["server"].ip, e["client"].ip}
  BY <1>1 DEF Side, Other
<1>. QED BY <1>2 DEF OfPipeline, p, e

\* A packet with data has the addresses of its pipeline.
LEMMA PacketIsOwn ==
  ASSUME NEW c \in Conversation, NEW s \in Side, NEW flags, NEW numbers,
         NEW len, NEW first, NEW last
  PROVE  OfPipeline(Packet(c, s, s, flags, numbers, len, first, last), count'[c])
<1>. DEFINE e == GenerateNewPipelineEndpoints(count'[c])
            p == Packet(c, s, s, flags, numbers, len, first, last)
<1>. HIDE DEF e
<1>1. p.sip = e[s].ip /\ p.dip = e[Other(s)].ip
  BY DEF Packet, e
<1>. HIDE DEF p
<1>2. {p.sip, p.dip} = {e["server"].ip, e["client"].ip}
  BY <1>1 DEF Side, Other
<1>. QED BY <1>2 DEF OfPipeline, p, e

\* Packets of a pipeline behind packets of the same pipeline.
LEMMA OwnConcat ==
  ASSUME NEW u \in Seq(Entry), NEW v \in Seq(Entry), NEW n, Own(u, n), Own(v, n)
  PROVE  Own(u \o v, n)
<1>. SUFFICES ASSUME NEW i \in DOMAIN (u \o v) PROVE OfPipeline((u \o v)[i], n)
  BY DEF Own
<1>1. CASE i \in DOMAIN u
  BY <1>1 DEF Own
<1>2. CASE i \notin DOMAIN u
  <2>1. i - Len(u) \in DOMAIN v /\ (u \o v)[i] = v[i - Len(u)]
    BY <1>2
  <2>. QED BY <2>1 DEF Own
<1>. QED BY <1>1, <1>2

\* What is captured for a read or a send has the addresses of its pipeline.
LEMMA CaptureIsOwn ==
  ASSUME NEW l, l.numbers \in [Side -> Numbers], l.packets \in Seq(Entry),
         NEW c \in Conversation, count' \in [Conversation -> Nat], NEW s \in Side,
         NEW len \in Int, NEW first \in Int, NEW last \in Int,
         Own(l.packets, count'[c])
  PROVE  Own(CapturePacket(l, c, s, len, first, last).packets, count'[c])
<1>. DEFINE n == l.numbers
            moved == Advance(n, s, len)
            o == Other(s)
            p == Packet(c, s, s, "PSHACK", n[s], len, first, last)
            a == Control(c, o, o, "ACK", moved[o])
            r == CapturePacket(l, c, s, len, first, last)
<1>1. o \in Side /\ "ACK" \in Flags
  BY OtherSide DEF Flags
<1>2. moved \in [Side -> Numbers] /\ n \in [Side -> Numbers]
  BY AdvanceType
<1>3. r.packets = l.packets \o <<p, a>>
  BY DEF CapturePacket
<1>. HIDE DEF moved, n, o
<1>4. p \in Entry /\ a \in Entry
  BY <1>1, <1>2, PacketType, ControlType
<1>5. OfPipeline(p, count'[c]) /\ OfPipeline(a, count'[c])
  BY <1>1, PacketIsOwn, ControlIsOwn
<1>. HIDE DEF p, a, r
<1>6. <<p, a>> \in Seq(Entry) /\ Own(<<p, a>>, count'[c])
  BY <1>4, <1>5 DEF Own
<1>7. Own(r.packets, count'[c])
  BY <1>3, <1>6, OwnConcat
<1>. QED BY <1>7 DEF r

\* Three control packets, the second with any port.
LEMMA ThreeAreOwn ==
  ASSUME NEW x \in Entry, NEW y \in Entry, NEW z \in Entry, NEW n,
         OfPipeline(x, n), OfPipeline(y, n), OfPipeline(z, n)
  PROVE  <<x, y, z>> \in Seq(Entry) /\ Own(<<x, y, z>>, n)
<1>1. DOMAIN <<x, y, z>> = 1 .. 3 /\ <<x, y, z>> \in Seq(Entry)
  OBVIOUS
<1>2. \A i \in 1 .. 3 : <<x, y, z>>[i] \in {x, y, z}
  OBVIOUS
<1>. QED BY <1>1, <1>2 DEF Own

\* What is captured for an end has the addresses of its pipeline.
LEMMA FinAckIsOwn ==
  ASSUME NEW l, l.numbers \in [Side -> Numbers], l.packets \in Seq(Entry),
         NEW c \in Conversation, count' \in [Conversation -> Nat], NEW s \in Side,
         Own(l.packets, count'[c])
  PROVE  Own(CaptureFinAck(l, c, s).packets, count'[c])
<1>. DEFINE n == l.numbers
            o == Other(s)
            x == Control(c, o, s, "FIN", n[s])
            y == Control(c, s, o, "FINACK", n[o])
            z == Control(c, o, s, "ACK", n[s])
            r == CaptureFinAck(l, c, s)
<1>1. /\ n \in [Side -> Numbers] /\ o \in Side
      /\ "FIN" \in Flags /\ "FINACK" \in Flags /\ "ACK" \in Flags
  BY OtherSide DEF Flags
<1>2. r.packets = l.packets \o <<x, y, z>>
  <2>1. r = [l EXCEPT !.packets = @ \o <<x, y, z>>]
    BY DEF CaptureFinAck
  <2>. HIDE DEF x, y, z, r
  <2>. QED BY <2>1
<1>. HIDE DEF n, o
<1>3. x \in Entry /\ y \in Entry /\ z \in Entry
  BY <1>1, ControlType
<1>4. OfPipeline(x, count'[c]) /\ OfPipeline(y, count'[c]) /\ OfPipeline(z, count'[c])
  BY <1>1, ControlIsOwn
<1>. HIDE DEF x, y, z, r
<1>5. <<x, y, z>> \in Seq(Entry) /\ Own(<<x, y, z>>, count'[c])
  BY <1>3, <1>4, ThreeAreOwn
<1>6. Own(r.packets, count'[c])
  BY <1>2, <1>5, OwnConcat
<1>. QED BY <1>6 DEF r

\* What is captured for a reply has the addresses of its pipeline.
LEMMA RepliedIsOwn ==
  ASSUME NEW l, l.numbers \in [Side -> Numbers], l.packets \in Seq(Entry),
         NEW c \in Conversation, count' \in [Conversation -> Nat], NEW n \in Int,
         Own(l.packets, count'[c])
  PROVE  Own(Replied(l, c, n).packets, count'[c])
<1>1. "server" \in Side /\ 1 \in Int /\ 0 \in Int
  BY DEF Side
<1>2. Own(CapturePacket(l, c, "server", n, 1, 0).packets, count'[c])
  BY <1>1, CaptureIsOwn
<1>. QED BY <1>2 DEF Replied

\* What is captured for a new pipeline has its addresses.
LEMMA HandshakeIsOwn ==
  ASSUME NEW c \in Conversation
  PROVE  Own(Generate3WayTCPHandshake(c), count'[c])
<1>. DEFINE n == count'[c]
            x == Control(c, "client", "client", "SYN", [seq |-> 0, ack |-> 0])
            y == Control(c, "server", "server", "SYNACK", [seq |-> 0, ack |-> 1])
            z == Control(c, "client", "client", "ACK", [seq |-> 1, ack |-> 1])
            port == GenerateNewPipelineEndpoints(n)["server"].ip % PortModulus
            w == [y EXCEPT !.sport = port]
<1>1. "client" \in Side /\ "server" \in Side
  BY DEF Side
<1>2. OfPipeline(x, n) /\ OfPipeline(y, n) /\ OfPipeline(z, n)
  BY <1>1, ControlIsOwn
<1>3. w.sip = y.sip /\ w.dip = y.dip
  <2>. HIDE DEF port
  <2>. QED BY DEF Control, Packet
<1>4. Generate3WayTCPHandshake(c) = <<x, w, z>>
  BY DEF Generate3WayTCPHandshake
<1>. HIDE DEF n, x, y, z, w
<1>5. OfPipeline(w, n)
  BY <1>2, <1>3 DEF OfPipeline
<1>6. DOMAIN <<x, w, z>> = 1 .. 3 /\ \A i \in 1 .. 3 : <<x, w, z>>[i] \in {x, w, z}
  OBVIOUS
<1>. QED BY <1>2, <1>4, <1>5, <1>6 DEF Own, n

-----------------------------------------------------------------------------
(* Steps. *)

\* A log that grows by packets of its pipeline keeps to them.
LEMMA OwnBecomes ==
  ASSUME CInv, AInv, NEW c \in Conversation, NEW m, NEW k, NEW state,
         UNCHANGED <<pipelinesCount, count>>, stage[c] # "new",
         Becomes(c, m, k, state), Own(m.packets, count[c])
  PROVE  AInv'
<1>1. TypeOK /\ log \in [Conversation -> Seq(Entry)]
  BY DEF CInv
<1>2. /\ stage'[c] # "new" /\ log'[c] = m.packets
      /\ \A d \in Conversation \ {c} : stage'[d] = stage[d] /\ log'[d] = log[d]
  BY <1>1 DEF Becomes, TypeOK
<1>. QED BY <1>2 DEF AInv

\* A step that captures an outcome keeps to the addresses of the pipeline.
LEMMA OwnOutcome ==
  ASSUME CInv, AInv, NEW c \in Conversation, UNCHANGED <<pipelinesCount, count>>, NEW l,
         l.numbers \in [Side -> Numbers], l.packets \in Seq(Entry), Own(l.packets, count[c]),
         NEW k \in [Side -> 0 .. MaxBytes], stage[c] # "new", Outcome(c, l, k)
  PROVE  AInv'
<1>1. PICK m, kk, state :
        /\ Becomes(c, m, kk, state)
        /\ \A t \in Side : kk[t] <= k[t]
        /\ m = l \/ m = Replied(l, c, 2)
        /\ \A t \in Side, b \in Int : Carried(m.packets, t, b) <=> Carried(l.packets, t, b)
  BY OutcomeBecomes
<1>2. count' \in [Conversation -> Nat] /\ count'[c] = count[c] /\ 2 \in Int
  BY DEF CInv, TypeOK
<1>3. Own(Replied(l, c, 2).packets, count[c])
  BY <1>2, RepliedIsOwn
<1>. QED BY <1>1, <1>3, OwnBecomes

\* What a conversation that was accepted has.
LEMMA AcceptedIsOwn ==
  ASSUME CInv, AInv, NEW c \in Conversation, stage[c] # "new", UNCHANGED count
  PROVE  /\ Log(c).numbers \in [Side -> Numbers] /\ Log(c).packets \in Seq(Entry)
         /\ Own(Log(c).packets, count'[c])
         /\ count' \in [Conversation -> Nat]
<1>1. TypeOK /\ log \in [Conversation -> Seq(Entry)]
  BY DEF CInv
<1>2. Log(c).numbers = pcap[c] /\ Log(c).packets = log[c]
  BY DEF Log
<1>. QED BY <1>1, <1>2 DEF AInv, TypeOK, Numbers

\* Reading keeps the conversations apart.
LEMMA ReadDataApart ==
  ASSUME CInv, AInv, NEW c \in Conversation, NEW s \in Side, ReadData(c, s)
  PROVE  AInv'
<1>1. PICK n \in 1 .. MaxRead :
        /\ got[c][s] + n <= MaxBytes
        /\ UNCHANGED <<pipelinesCount, count>>
        /\ Outcome(c, CaptureBuffer(c, s, n), [kept[c] EXCEPT ![s] = @ + n])
  BY DEF ReadData
<1>2. stage[c] # "new"
  BY DEF ReadData, Reads
<1>3. TypeOK /\ KeptIsRead
  BY DEF CInv
<1>4. /\ kept[c][s] \in Nat /\ got[c][s] \in Nat /\ n \in Nat /\ kept[c][s] <= got[c][s]
      /\ MaxBytes \in Nat
  BY <1>3, BoundsAssumption DEF TypeOK, KeptIsRead
<1>5. [kept[c] EXCEPT ![s] = @ + n] \in [Side -> 0 .. MaxBytes]
  BY <1>1, <1>3, <1>4 DEF TypeOK
<1>. DEFINE l == Log(c)
            x == kept[c][s] + n
            y == got[c][s] - kept[c][s] + 1
            z == got[c][s] + n
            m == CapturePacket(l, c, s, x, y, z)
<1>6. x \in Int /\ y \in Int /\ z \in Int
  BY <1>4
<1>7. CaptureBuffer(c, s, n) = m
  BY DEF CaptureBuffer
<1>. HIDE DEF l, x, y, z
<1>8. /\ l.numbers \in [Side -> Numbers] /\ l.packets \in Seq(Entry)
      /\ Own(l.packets, count'[c]) /\ count' \in [Conversation -> Nat]
  BY <1>1, <1>2, AcceptedIsOwn DEF l
<1>9. m.numbers \in [Side -> Numbers] /\ m.packets \in Seq(Entry)
  BY <1>6, <1>8, CaptureCarries
<1>10. Own(m.packets, count[c])
  BY <1>1, <1>6, <1>8, CaptureIsOwn
<1>. HIDE DEF m
<1>. QED BY <1>1, <1>2, <1>5, <1>7, <1>9, <1>10, OwnOutcome

\* The end of a stream keeps the conversations apart.
LEMMA ReadEndsApart ==
  ASSUME CInv, AInv, NEW c \in Conversation, NEW s \in Side, ReadEnds(c, s)
  PROVE  AInv'
<1>. DEFINE lg == Log(c)
            l == CaptureFinAck(lg, c, s)
<1>1. /\ UNCHANGED <<pipelinesCount, count>>
      /\ \/ /\ Store(c, l) /\ stage' = [stage EXCEPT ![c] = "over"] /\ UNCHANGED kept
         \/ Outcome(c, l, kept[c])
  BY DEF ReadEnds
<1>2. stage[c] # "new"
  BY DEF ReadEnds, Reads
<1>3. TypeOK /\ kept[c] \in [Side -> 0 .. MaxBytes]
  BY DEF CInv, TypeOK
<1>. HIDE DEF lg
<1>4. /\ lg.numbers \in [Side -> Numbers] /\ lg.packets \in Seq(Entry)
      /\ Own(lg.packets, count'[c]) /\ count' \in [Conversation -> Nat]
  BY <1>1, <1>2, AcceptedIsOwn DEF lg
<1>5. l.numbers \in [Side -> Numbers] /\ l.packets \in Seq(Entry)
  BY <1>4, FinAckCarries
<1>6. Own(l.packets, count[c])
  BY <1>1, <1>4, FinAckIsOwn
<1>. HIDE DEF l
<1>7. CASE Store(c, l) /\ stage' = [stage EXCEPT ![c] = "over"] /\ UNCHANGED kept
  <2>1. kept' = [kept EXCEPT ![c] = kept[c]]
    BY <1>3, <1>7 DEF TypeOK
  <2>2. Becomes(c, l, kept[c], "over")
    BY <1>3, <1>5, <1>7, <2>1 DEF Store, Becomes, Stage
  <2>. QED BY <1>1, <1>2, <1>6, <2>2, OwnBecomes
<1>8. CASE Outcome(c, l, kept[c])
  BY <1>1, <1>2, <1>3, <1>5, <1>6, <1>8, OwnOutcome
<1>. QED BY <1>1, <1>7, <1>8 DEF l, lg

\* Replying keeps the conversations apart.
LEMMA SendReplyApart ==
  ASSUME CInv, AInv, NEW c \in Conversation, SendReply(c)
  PROVE  AInv'
<1>. DEFINE l == Log(c)
            n == kept[c]["client"]
            m == Replied(l, c, n)
<1>1. UNCHANGED <<pipelinesCount, count>> /\ stage[c] # "new" /\ GoesOn(c, m, "clientHello")
  BY DEF SendReply
<1>2. n \in Int
  BY BoundsAssumption DEF CInv, TypeOK, Side
<1>. HIDE DEF l, n
<1>3. /\ l.numbers \in [Side -> Numbers] /\ l.packets \in Seq(Entry)
      /\ Own(l.packets, count'[c]) /\ count' \in [Conversation -> Nat]
  BY <1>1, AcceptedIsOwn DEF l
<1>4. m.numbers \in [Side -> Numbers] /\ m.packets \in Seq(Entry)
  BY <1>2, <1>3, RepliedCarries
<1>5. Own(m.packets, count[c])
  BY <1>1, <1>2, <1>3, RepliedIsOwn
<1>. HIDE DEF m
<1>6. Becomes(c, m, Both(0), "clientHello")
  BY <1>1, <1>4, BoundsAssumption DEF GoesOn, Store, Becomes, Stage, Both
<1>. QED BY <1>1, <1>5, <1>6, OwnBecomes

\* A new pipeline takes a count that no other one has.
LEMMA AddNewPipelineApart ==
  ASSUME CInv, AInv, NEW c \in Conversation, AddNewPipeline(c)
  PROVE  AInv'
<1>. DEFINE h == Generate3WayTCPHandshake(c)
<1>1. /\ stage[c] = "new"
      /\ pipelinesCount' = pipelinesCount + 1
      /\ count' = [count EXCEPT ![c] = pipelinesCount]
      /\ stage' = [stage EXCEPT ![c] = "greeting"]
      /\ log' = [log EXCEPT ![c] = h]
  BY DEF AddNewPipeline, NextCount
<1>2. Own(h, count'[c])
  BY HandshakeIsOwn
<1>. HIDE DEF h
<1>3. /\ pipelinesCount \in Nat /\ count \in [Conversation -> Nat]
      /\ stage \in [Conversation -> Stage] /\ log \in [Conversation -> Seq(Entry)]
  BY DEF CInv, TypeOK
<1>4. /\ stage'[c] # "new" /\ log'[c] = h /\ count'[c] = pipelinesCount
      /\ \A d \in Conversation \ {c} :
           stage'[d] = stage[d] /\ log'[d] = log[d] /\ count'[d] = count[d]
  BY <1>1, <1>3
<1>5. \A d \in Conversation : count[d] \in Nat
  BY <1>3
<1>. QED BY <1>1, <1>2, <1>3, <1>4, <1>5 DEF AInv

\* Packets of pipelines with different counts have different addresses.
LEMMA OwnIsApart ==
  ASSUME CInv, AInv, AddressesGoRound, pipelinesCount <= IpModulus
  PROVE  ConversationsApart
<1>. SUFFICES ASSUME NEW c \in Conversation, NEW d \in Conversation, c # d,
                     NEW p \in Range(log[c]), NEW q \in Range(log[d]),
                     Addresses(p) = Addresses(q)
              PROVE  FALSE
  BY Zenon DEF ConversationsApart
<1>1. PICK i \in DOMAIN log[c] : p = log[c][i]
  BY DEF Range
<1>2. PICK j \in DOMAIN log[d] : q = log[d][j]
  BY DEF Range
<1>3. stage[c] # "new" /\ stage[d] # "new"
  <2>1. DOMAIN <<>> = {}
    OBVIOUS
  <2>. QED BY <1>1, <1>2, <2>1 DEF AInv
<1>4. /\ count[c] \in Nat /\ count[d] \in Nat /\ pipelinesCount \in Nat /\ IpModulus \in Nat
      /\ count[c] # count[d] /\ count[c] < pipelinesCount /\ count[d] < pipelinesCount
  BY <1>3, ModulusAssumption DEF AInv, CInv, TypeOK
<1>5. OfPipeline(p, count[c]) /\ OfPipeline(q, count[d])
  BY <1>1, <1>2, <1>3 DEF AInv, Own
<1>6. {p.sip, p.dip} = {q.sip, q.dip}
  BY EndpointsHaveAddresses
<1>. DEFINE m == count[c]
            n == count[d]
<1>7. m \in Nat /\ n \in Nat /\ (m < n \/ n < m) /\ m - n < IpModulus /\ n - m < IpModulus
  BY <1>4
<1>8. OfPipeline(p, m) /\ OfPipeline(q, n)
  BY <1>5
<1>. HIDE DEF m, n
<1>. QED BY <1>6, <1>7, <1>8, PipelinesDiffer

\* Until as many conversations were accepted as there are addresses, no packet of one
\* has the two endpoints of a packet of another, if the addresses do not repeat before.
THEOREM ConversationsStayApart ==
  ASSUME AddressesGoRound
  PROVE  Spec => [](pipelinesCount <= IpModulus => ConversationsApart)
<1>1. Init => AInv
  BY DEF Init, AInv
<1>2. CInv /\ AInv /\ [Next]_vars => AInv'
  <2>. SUFFICES ASSUME CInv, AInv, [Next]_vars PROVE AInv'
    OBVIOUS
  <2>1. CASE Next
    BY <2>1, AddNewPipelineApart, SendReplyApart, ReadDataApart, ReadEndsApart DEF Next
  <2>2. CASE UNCHANGED vars
    BY <2>2 DEF vars, AInv, Own, OfPipeline
  <2>. QED BY <2>1, <2>2
<1>3. CInv /\ AInv => (pipelinesCount <= IpModulus => ConversationsApart)
  BY OwnIsApart
<1>. QED BY <1>1, <1>2, <1>3, CaptureInvariance, PTL DEF Spec

\* In the code addresses have 32 bits: the first 2^32 conversations are told apart.
COROLLARY CapturedConversationsApart ==
  ASSUME IpModulus = 4294967296
  PROVE  Spec => [](pipelinesCount <= IpModulus => ConversationsApart)
<1>1. AddressesGoRound
  BY AddressesOf32Bits, SMT
<1>. QED BY <1>1, ConversationsStayApart
=============================================================================
