---------------------------- MODULE CaptureProofs ----------------------------
(***************************************************************************)
(* What capture mode writes: every byte that was read is in the file, for  *)
(* any conversations, reads and stages, and for any width of the numbers.  *)
(***************************************************************************)
EXTENDS Capture, TLAPS

Numbers == [seq : 0 .. SeqModulus - 1, ack : 0 .. SeqModulus - 1]

Flags == {"SYN", "SYNACK", "ACK", "PSHACK", "FIN", "FINACK"}

Entry == [sip : Int, dip : Int, sport : Int, dport : Int, from : Side, flags : Flags,
          seq : Int, ack : Int, len : Int, first : Int, last : Int]

\* A packet of s carries byte b of its stream.
Carried(packets, s, b) ==
  \E i \in DOMAIN packets :
    packets[i].from = s /\ packets[i].first <= b /\ b <= packets[i].last

Recorded ==
  \A c \in Conversation, s \in Side, b \in Int :
    Carried(log[c], s, b) <=> 1 <= b /\ b <= got[c][s]

\* What is kept was read, and nothing is read before a conversation is accepted.
KeptIsRead ==
  \A c \in Conversation, s \in Side :
    /\ kept[c][s] <= got[c][s]
    /\ stage[c] = "new" => got[c][s] = 0

CInv ==
  /\ TypeOK
  /\ log \in [Conversation -> Seq(Entry)]
  /\ KeptIsRead
  /\ Recorded

-----------------------------------------------------------------------------
(* Packets. *)

LEMMA ModType == \A a \in Int, b \in Nat \ {0} : a % b \in 0 .. b - 1
OBVIOUS

LEMMA Endpoints ==
  ASSUME NEW n \in Nat, NEW s \in Side
  PROVE  /\ GenerateNewPipelineEndpoints(n)[s].ip \in Int
         /\ GenerateNewPipelineEndpoints(n)[s].port \in Int
<1>1. IpModulus \in Nat \ {0} /\ PortModulus \in Nat \ {0}
  BY ModulusAssumption
<1>2. \A a \in Int : a % IpModulus \in Int /\ a % PortModulus \in Int
  BY <1>1, ModType
<1>3. /\ (185273099 + 11 * n) \in Int /\ (370546198 + 11 * n) \in Int
      /\ 1080 \in Int /\ (39510 + n) \in Int
  OBVIOUS
<1>. QED BY <1>2, <1>3 DEF GenerateNewPipelineEndpoints, Side

LEMMA OtherSide == \A s \in Side : Other(s) \in Side /\ Other(s) # s
BY DEF Side, Other

\* The addresses in a packet of c: what they are is not the question here.
LEMMA Addressed ==
  ASSUME NEW c \in Conversation, count' \in [Conversation -> Nat], NEW s \in Side
  PROVE  LET e == GenerateNewPipelineEndpoints(count'[c])
         IN e[s].ip \in Int /\ e[s].port \in Int /\ e[Other(s)].ip \in Int /\ e[Other(s)].port \in Int
<1>1. count'[c] \in Nat /\ Other(s) \in Side
  BY OtherSide
<1>. QED BY <1>1, Endpoints

LEMMA PacketType ==
  ASSUME NEW c \in Conversation, count' \in [Conversation -> Nat],
         NEW s \in Side, NEW numbers \in Numbers,
         NEW len \in Int, NEW first \in Int, NEW last \in Int
  PROVE  LET p == Packet(c, s, s, "PSHACK", numbers, len, first, last)
         IN /\ p \in Entry /\ p.from = s /\ p.first = first /\ p.last = last
            /\ p.seq = numbers.seq /\ p.ack = numbers.ack /\ p.len = len /\ p.flags = "PSHACK"
<1>. DEFINE e == GenerateNewPipelineEndpoints(count'[c])
            p == Packet(c, s, s, "PSHACK", numbers, len, first, last)
<1>1. e[s].ip \in Int /\ e[s].port \in Int /\ e[Other(s)].ip \in Int /\ e[Other(s)].port \in Int
  BY Addressed
<1>2. p = [sip |-> e[s].ip, dip |-> e[Other(s)].ip,
           sport |-> e[s].port, dport |-> e[Other(s)].port,
           from |-> s, flags |-> "PSHACK", seq |-> numbers.seq, ack |-> numbers.ack,
           len |-> len, first |-> first, last |-> last]
  BY Zenon DEF Packet
<1>3. numbers.seq \in Int /\ numbers.ack \in Int /\ "PSHACK" \in Flags
  BY ModulusAssumption DEF Numbers, Flags
<1>. HIDE DEF e, p
<1>4. /\ p \in Entry /\ p.from = s /\ p.first = first /\ p.last = last
      /\ p.seq = numbers.seq /\ p.ack = numbers.ack /\ p.len = len /\ p.flags = "PSHACK"
  BY <1>1, <1>2, <1>3 DEF Entry
<1>. QED BY <1>4 DEF p

LEMMA ControlType ==
  ASSUME NEW c \in Conversation, count' \in [Conversation -> Nat],
         NEW ip \in Side, NEW tcp \in Side, NEW flags \in Flags, NEW numbers \in Numbers
  PROVE  LET p == Control(c, ip, tcp, flags, numbers)
         IN /\ p \in Entry /\ p.from = tcp /\ p.first = 1 /\ p.last = 0
            /\ p.seq = numbers.seq /\ p.ack = numbers.ack /\ p.len = 0 /\ p.flags = flags
<1>. DEFINE e == GenerateNewPipelineEndpoints(count'[c])
            p == Control(c, ip, tcp, flags, numbers)
<1>1. /\ e[ip].ip \in Int /\ e[Other(ip)].ip \in Int
      /\ e[tcp].port \in Int /\ e[Other(tcp)].port \in Int
  BY Addressed
<1>2. p = [sip |-> e[ip].ip, dip |-> e[Other(ip)].ip,
           sport |-> e[tcp].port, dport |-> e[Other(tcp)].port,
           from |-> tcp, flags |-> flags, seq |-> numbers.seq, ack |-> numbers.ack,
           len |-> 0, first |-> 1, last |-> 0]
  BY Zenon DEF Packet, Control
<1>3. numbers.seq \in Int /\ numbers.ack \in Int
  BY ModulusAssumption DEF Numbers
<1>. HIDE DEF e, p
<1>4. /\ p \in Entry /\ p.from = tcp /\ p.first = 1 /\ p.last = 0
      /\ p.seq = numbers.seq /\ p.ack = numbers.ack /\ p.len = 0 /\ p.flags = flags
  BY <1>1, <1>2, <1>3 DEF Entry
<1>. QED BY <1>4 DEF p

LEMMA AdvanceType ==
  ASSUME NEW n \in [Side -> Numbers], NEW s \in Side, NEW len \in Int
  PROVE  Advance(n, s, len) \in [Side -> Numbers]
<1>1. SeqModulus \in Nat \ {0}
  BY ModulusAssumption
<1>2. /\ (n[s].seq + len) % SeqModulus \in 0 .. SeqModulus - 1
      /\ (n[Other(s)].ack + len) % SeqModulus \in 0 .. SeqModulus - 1
  <2>1. n[s].seq + len \in Int /\ n[Other(s)].ack + len \in Int
    BY <1>1, OtherSide DEF Numbers
  <2>. QED BY <1>1, <2>1, ModType
<1>. QED BY <1>2, OtherSide DEF Advance, Numbers

\* Packets that are written behind others add what they carry themselves.
LEMMA CarriedConcat ==
  ASSUME NEW p \in Seq(Entry), NEW q \in Seq(Entry), NEW s, NEW b
  PROVE  Carried(p \o q, s, b) <=> Carried(p, s, b) \/ Carried(q, s, b)
<1>1. /\ Len(p \o q) = Len(p) + Len(q) /\ DOMAIN (p \o q) = 1 .. Len(p) + Len(q)
      /\ DOMAIN p = 1 .. Len(p) /\ DOMAIN q = 1 .. Len(q) /\ Len(p) \in Nat /\ Len(q) \in Nat
      /\ \A i \in 1 .. Len(p) : (p \o q)[i] = p[i]
      /\ \A i \in 1 .. Len(q) : (p \o q)[Len(p) + i] = q[i]
  OBVIOUS
<1>2. \A i \in 1 .. Len(p) + Len(q) :
        i \in 1 .. Len(p) \/ \E j \in 1 .. Len(q) : i = Len(p) + j
  <2>. TAKE i \in 1 .. Len(p) + Len(q)
  <2>1. i \in 1 .. Len(p) \/ (i - Len(p) \in 1 .. Len(q) /\ i = Len(p) + (i - Len(p)))
    BY <1>1
  <2>. QED BY <2>1
<1>3. \A j \in 1 .. Len(q) : Len(p) + j \in 1 .. Len(p) + Len(q)
  BY <1>1
<1>4. 1 .. Len(p) \subseteq 1 .. Len(p) + Len(q)
  BY <1>1
<1>. DEFINE On(x) == x.from = s /\ x.first <= b /\ b <= x.last
<1>5. /\ Carried(p \o q, s, b) <=> \E i \in 1 .. Len(p) + Len(q) : On((p \o q)[i])
      /\ Carried(p, s, b) <=> \E i \in 1 .. Len(p) : On(p[i])
      /\ Carried(q, s, b) <=> \E i \in 1 .. Len(q) : On(q[i])
  BY <1>1 DEF Carried
<1>. HIDE DEF On
<1>6. ASSUME Carried(p, s, b) PROVE Carried(p \o q, s, b)
  BY <1>1, <1>4, <1>5, <1>6
<1>7. ASSUME Carried(q, s, b) PROVE Carried(p \o q, s, b)
  <2>1. PICK j \in 1 .. Len(q) : On(q[j])
    BY <1>5, <1>7
  <2>. QED BY <1>1, <1>3, <1>5, <2>1
<1>8. ASSUME Carried(p \o q, s, b) PROVE Carried(p, s, b) \/ Carried(q, s, b)
  <2>1. PICK i \in 1 .. Len(p) + Len(q) : On((p \o q)[i])
    BY <1>5, <1>8
  <2>. QED BY <1>1, <1>2, <1>5, <2>1
<1>. QED BY <1>6, <1>7, <1>8

\* What the pair of packets CaptureData writes carries.
LEMMA CaptureCarries ==
  ASSUME NEW l, l.numbers \in [Side -> Numbers], l.packets \in Seq(Entry),
         NEW c \in Conversation, count' \in [Conversation -> Nat], NEW s \in Side,
         NEW len \in Int, NEW first \in Int, NEW last \in Int
  PROVE  LET m == CapturePacket(l, c, s, len, first, last)
         IN /\ m.numbers \in [Side -> Numbers]
            /\ m.packets \in Seq(Entry)
            /\ \A t \in Side, b \in Int :
                 Carried(m.packets, t, b) <=>
                   Carried(l.packets, t, b) \/ (t = s /\ first <= b /\ b <= last)
<1>. DEFINE moved == Advance(l.numbers, s, len)
            p == Packet(c, s, s, "PSHACK", l.numbers[s], len, first, last)
            a == Control(c, Other(s), Other(s), "ACK", moved[Other(s)])
            m == CapturePacket(l, c, s, len, first, last)
<1>1. moved \in [Side -> Numbers]
  BY AdvanceType
<1>. HIDE DEF moved
<1>2. "PSHACK" \in Flags /\ "ACK" \in Flags
  BY DEF Flags
<1>3. p \in Entry /\ p.from = s /\ p.first = first /\ p.last = last
  <2>1. l.numbers[s] \in Numbers
    OBVIOUS
  <2>. DEFINE n == l.numbers[s]
  <2>. HIDE DEF n
  <2>2. LET q == Packet(c, s, s, "PSHACK", n, len, first, last)
        IN q \in Entry /\ q.from = s /\ q.first = first /\ q.last = last
    BY <2>1, PacketType DEF n
  <2>. QED BY <2>2 DEF n
<1>4. a \in Entry /\ a.first = 1 /\ a.last = 0
  <2>1. moved[Other(s)] \in Numbers /\ Other(s) \in Side
    BY <1>1, OtherSide
  <2>. QED BY <1>2, <2>1, ControlType
<1>5. m.numbers = moved /\ m.packets = l.packets \o <<p, a>>
  BY DEF CapturePacket, moved
<1>. HIDE DEF p, a, m
<1>6. <<p, a>> \in Seq(Entry) /\ m.packets \in Seq(Entry)
  BY <1>3, <1>4, <1>5
<1>7. ASSUME NEW t \in Side, NEW b \in Int
      PROVE  Carried(<<p, a>>, t, b) <=> t = s /\ first <= b /\ b <= last
  BY <1>3, <1>4 DEF Carried
<1>8. ASSUME NEW t \in Side, NEW b \in Int
      PROVE  Carried(m.packets, t, b) <=>
               Carried(l.packets, t, b) \/ (t = s /\ first <= b /\ b <= last)
  <2>1. Carried(l.packets \o <<p, a>>, t, b) <=>
          Carried(l.packets, t, b) \/ Carried(<<p, a>>, t, b)
    BY <1>6, CarriedConcat
  <2>. QED BY <1>5, <1>7, <2>1
<1>. QED BY <1>1, <1>5, <1>6, <1>8 DEF m

\* Three packets without content carry nothing.
LEMMA EmptyCarry ==
  ASSUME NEW x \in Entry, NEW y \in Entry, NEW z \in Entry,
         x.first = 1, x.last = 0, y.first = 1, y.last = 0, z.first = 1, z.last = 0
  PROVE  /\ <<x, y, z>> \in Seq(Entry)
         /\ \A t \in Side, b \in Int : ~Carried(<<x, y, z>>, t, b)
<1>1. <<x, y, z>> \in Seq(Entry) /\ DOMAIN <<x, y, z>> = 1 .. 3
  OBVIOUS
<1>2. \A i \in 1 .. 3 : <<x, y, z>>[i].first = 1 /\ <<x, y, z>>[i].last = 0
  OBVIOUS
<1>. QED BY <1>1, <1>2 DEF Carried

LEMMA FinAckCarries ==
  ASSUME NEW l, l.numbers \in [Side -> Numbers], l.packets \in Seq(Entry),
         NEW c \in Conversation, count' \in [Conversation -> Nat], NEW s \in Side
  PROVE  LET m == CaptureFinAck(l, c, s)
         IN /\ m.numbers = l.numbers
            /\ m.packets \in Seq(Entry)
            /\ \A t \in Side, b \in Int : Carried(m.packets, t, b) <=> Carried(l.packets, t, b)
<1>. DEFINE x == Control(c, Other(s), s, "FIN", l.numbers[s])
            y == Control(c, s, Other(s), "FINACK", l.numbers[Other(s)])
            z == Control(c, Other(s), s, "ACK", l.numbers[s])
            m == CaptureFinAck(l, c, s)
<1>1. Other(s) \in Side
  BY OtherSide
<1>2. /\ \A t \in Side : l.numbers[t] \in Numbers
      /\ "FIN" \in Flags /\ "FINACK" \in Flags /\ "ACK" \in Flags
  BY DEF Flags
<1>3. /\ x \in Entry /\ y \in Entry /\ z \in Entry
      /\ x.first = 1 /\ x.last = 0 /\ y.first = 1 /\ y.last = 0 /\ z.first = 1 /\ z.last = 0
  BY <1>1, <1>2, ControlType
<1>4. m = [l EXCEPT !.packets = @ \o <<x, y, z>>]
  BY DEF CaptureFinAck
<1>. HIDE DEF x, y, z, m
<1>5. /\ <<x, y, z>> \in Seq(Entry)
      /\ \A t \in Side, b \in Int : ~Carried(<<x, y, z>>, t, b)
  BY <1>3, EmptyCarry
<1>6. m.numbers = l.numbers /\ m.packets = l.packets \o <<x, y, z>>
  BY <1>4
<1>7. m.packets \in Seq(Entry)
  BY <1>5, <1>6
<1>8. ASSUME NEW t \in Side, NEW b \in Int
      PROVE  Carried(m.packets, t, b) <=> Carried(l.packets, t, b)
  <2>1. Carried(l.packets \o <<x, y, z>>, t, b) <=>
          Carried(l.packets, t, b) \/ Carried(<<x, y, z>>, t, b)
    BY <1>5, CarriedConcat
  <2>. QED BY <1>5, <1>6, <2>1
<1>. QED BY <1>6, <1>7, <1>8 DEF m

\* A SOCKS reply carries no byte of a peer.
LEMMA RepliedCarries ==
  ASSUME NEW l, l.numbers \in [Side -> Numbers], l.packets \in Seq(Entry),
         NEW c \in Conversation, count' \in [Conversation -> Nat], NEW n \in Int
  PROVE  LET m == Replied(l, c, n)
         IN /\ m.numbers \in [Side -> Numbers]
            /\ m.packets \in Seq(Entry)
            /\ \A t \in Side, b \in Int : Carried(m.packets, t, b) <=> Carried(l.packets, t, b)
<1>1. "server" \in Side /\ 1 \in Int /\ 0 \in Int
  BY DEF Side
<1>. DEFINE m == CapturePacket(l, c, "server", n, 1, 0)
<1>2. /\ m.numbers \in [Side -> Numbers]
      /\ m.packets \in Seq(Entry)
      /\ \A t \in Side, b \in Int :
           Carried(m.packets, t, b) <=>
             Carried(l.packets, t, b) \/ (t = "server" /\ 1 <= b /\ b <= 0)
  BY <1>1, CaptureCarries
<1>. HIDE DEF m
<1>3. \A b \in Int : ~(1 <= b /\ b <= 0)
  OBVIOUS
<1>4. m = Replied(l, c, n)
  BY DEF m, Replied
<1>. QED BY <1>2, <1>3, <1>4

-----------------------------------------------------------------------------
(* Steps. *)

\* Conversation c has the numbers and packets of m afterwards, and k in its buffers.
Becomes(c, m, k, state) ==
  /\ m.numbers \in [Side -> Numbers] /\ m.packets \in Seq(Entry)
  /\ k \in [Side -> 0 .. MaxBytes]
  /\ state \in Stage \ {"new"}
  /\ pcap' = [pcap EXCEPT ![c] = m.numbers]
  /\ log' = [log EXCEPT ![c] = m.packets]
  /\ kept' = [kept EXCEPT ![c] = k]
  /\ stage' = [stage EXCEPT ![c] = state]

\* m carries of each stream what was read of it by the end of the step.
LEMMA BecomesPreserves ==
  ASSUME CInv, NEW c \in Conversation, NEW m, NEW k, NEW state, Becomes(c, m, k, state),
         UNCHANGED <<pipelinesCount, count>>,
         ends' \in [Conversation -> [Side -> 0 .. MaxEnds]],
         got' \in [Conversation -> [Side -> 0 .. MaxBytes]],
         \A d \in Conversation \ {c} : got'[d] = got[d],
         \A t \in Side : k[t] <= got'[c][t],
         \A t \in Side, b \in Int : Carried(m.packets, t, b) <=> 1 <= b /\ b <= got'[c][t]
  PROVE  CInv'
<1>. USE DEF CInv
<1>1. TypeOK'
  BY DEF TypeOK, Becomes, Numbers
<1>2. log' \in [Conversation -> Seq(Entry)]
  BY DEF Becomes
<1>3. /\ log'[c] = m.packets /\ kept'[c] = k /\ stage'[c] # "new"
      /\ \A d \in Conversation \ {c} :
           log'[d] = log[d] /\ kept'[d] = kept[d] /\ stage'[d] = stage[d]
  BY DEF TypeOK, Becomes
<1>4. KeptIsRead'
  BY <1>3 DEF KeptIsRead
<1>5. Recorded'
  BY <1>3 DEF Recorded
<1>. QED BY <1>1, <1>2, <1>4, <1>5

LEMMA OutcomeBecomes ==
  ASSUME CInv, NEW c \in Conversation, UNCHANGED count, NEW l,
         l.numbers \in [Side -> Numbers], l.packets \in Seq(Entry),
         NEW k \in [Side -> 0 .. MaxBytes], stage[c] # "new", Outcome(c, l, k)
  PROVE  \E m, kk, state :
           /\ Becomes(c, m, kk, state)
           /\ \A t \in Side : kk[t] <= k[t]
           /\ m = l \/ m = Replied(l, c, 2)
           /\ \A t \in Side, b \in Int : Carried(m.packets, t, b) <=> Carried(l.packets, t, b)
<1>1. count' \in [Conversation -> Nat] /\ TypeOK
  BY DEF CInv, TypeOK
<1>2. /\ Both(0) \in [Side -> 0 .. MaxBytes]
      /\ \A t \in Side : Both(0)[t] <= k[t] /\ k[t] <= k[t]
  BY BoundsAssumption DEF Both
<1>. DEFINE m == Replied(l, c, 2)
<1>3. /\ m.numbers \in [Side -> Numbers] /\ m.packets \in Seq(Entry)
      /\ \A t \in Side, b \in Int : Carried(m.packets, t, b) <=> Carried(l.packets, t, b)
  BY <1>1, RepliedCarries
<1>. HIDE DEF m
<1>4. stage = [stage EXCEPT ![c] = stage[c]] /\ stage[c] \in Stage \ {"new"}
  BY <1>1 DEF TypeOK
<1>5. CASE Waits(c, l, k)
  <2>1. Becomes(c, l, k, stage[c])
    BY <1>4, <1>5 DEF Waits, Store, Becomes
  <2>. QED BY <1>2, <2>1
<1>6. ASSUME NEW state \in Stage \ {"new"}, GoesOn(c, l, state)
      PROVE  Becomes(c, l, Both(0), state)
  BY <1>2, <1>6 DEF GoesOn, Store, Becomes
<1>7. CASE GoesOn(c, m, "request")
  <2>1. Becomes(c, m, Both(0), "request")
    BY <1>2, <1>3, <1>7 DEF GoesOn, Store, Becomes, Stage
  <2>. QED BY <1>2, <1>3, <2>1 DEF m
<1>8. CASE Store(c, l) /\ kept' = [kept EXCEPT ![c] = k]
             /\ stage' = [stage EXCEPT ![c] = "connecting"]
  <2>1. Becomes(c, l, k, "connecting")
    BY <1>8 DEF Store, Becomes, Stage
  <2>. QED BY <1>2, <2>1
<1>9. \A state \in {"clientHello", "serverHello", "relay"} : state \in Stage \ {"new"}
  BY DEF Stage
<1>10. CASE \E state \in {"clientHello", "serverHello", "relay"} : GoesOn(c, l, state)
  <2>1. PICK state \in {"clientHello", "serverHello", "relay"} : GoesOn(c, l, state)
    BY <1>10
  <2>2. Becomes(c, l, Both(0), state)
    BY <1>6, <1>9, <2>1
  <2>. QED BY <1>2, <2>2
<1>11. CASE \E j \in 0 .. k["server"] : Waits(c, l, [k EXCEPT !["server"] = j])
  <2>1. PICK j \in 0 .. k["server"] : Waits(c, l, [k EXCEPT !["server"] = j])
    BY <1>11
  <2>. DEFINE kk == [k EXCEPT !["server"] = j]
  <2>2. kk \in [Side -> 0 .. MaxBytes] /\ \A t \in Side : kk[t] <= k[t]
    BY BoundsAssumption DEF Side
  <2>3. Waits(c, l, kk)
    BY <2>1
  <2>. HIDE DEF kk
  <2>4. Becomes(c, l, kk, stage[c])
    BY <1>4, <2>2, <2>3 DEF Waits, Store, Becomes
  <2>. QED BY <2>2, <2>4
<1>. QED BY <1>5, <1>7, <1>8, <1>10, <1>11 DEF Outcome, m

LEMMA ReadDataPreserves ==
  ASSUME CInv, NEW c \in Conversation, NEW s \in Side, ReadData(c, s)
  PROVE  CInv'
<1>1. PICK n \in 1 .. MaxRead :
        /\ got[c][s] + n <= MaxBytes
        /\ got' = [got EXCEPT ![c][s] = @ + n]
        /\ UNCHANGED <<pipelinesCount, count, ends>>
        /\ Outcome(c, CaptureBuffer(c, s, n), [kept[c] EXCEPT ![s] = @ + n])
  BY DEF ReadData
<1>. DEFINE l == CaptureBuffer(c, s, n)
            k == [kept[c] EXCEPT ![s] = @ + n]
            g == got[c][s]
            h == kept[c][s]
<1>2. TypeOK /\ KeptIsRead /\ Recorded /\ log[c] \in Seq(Entry)
  BY DEF CInv
<1>3. stage[c] # "new"
  BY DEF ReadData, Reads
<1>4. MaxBytes \in Nat /\ MaxRead \in Nat /\ n \in Nat /\ n >= 1 /\ g \in Nat /\ h \in Nat /\ h <= g
  BY <1>2, BoundsAssumption DEF TypeOK, KeptIsRead
<1>5. /\ got' \in [Conversation -> [Side -> 0 .. MaxBytes]]
      /\ got'[c][s] = g + n
      /\ \A t \in Side \ {s} : got'[c][t] = got[c][t]
      /\ \A d \in Conversation \ {c} : got'[d] = got[d]
  BY <1>1, <1>2, <1>4 DEF TypeOK
<1>6. /\ k \in [Side -> 0 .. MaxBytes]
      /\ \A t \in Side : k[t] <= got'[c][t]
  BY <1>1, <1>2, <1>4, <1>5 DEF TypeOK, KeptIsRead
<1>7. /\ Log(c).numbers = pcap[c] /\ Log(c).packets = log[c]
      /\ pcap[c] \in [Side -> Numbers]
      /\ count' \in [Conversation -> Nat]
  BY <1>1, <1>2 DEF Log, TypeOK, Numbers
<1>8. /\ l.numbers \in [Side -> Numbers] /\ l.packets \in Seq(Entry)
      /\ \A t \in Side, b \in Int :
           Carried(l.packets, t, b) <=>
             Carried(log[c], t, b) \/ (t = s /\ g - h + 1 <= b /\ b <= g + n)
  <2>1. h + n \in Int /\ g - h + 1 \in Int /\ g + n \in Int
    BY <1>4
  <2>2. l = CapturePacket(Log(c), c, s, h + n, g - h + 1, g + n)
    BY DEF CaptureBuffer
  <2>. HIDE DEF l, g, h
  <2>. DEFINE lg == Log(c)
              x == h + n
              y == g - h + 1
              z == g + n
  <2>. HIDE DEF lg, x, y, z
  <2>3. /\ lg.numbers \in [Side -> Numbers] /\ lg.packets \in Seq(Entry)
        /\ x \in Int /\ y \in Int /\ z \in Int
    BY <1>2, <1>7, <2>1 DEF lg, x, y, z
  <2>4. LET m == CapturePacket(lg, c, s, x, y, z)
        IN /\ m.numbers \in [Side -> Numbers]
           /\ m.packets \in Seq(Entry)
           /\ \A t \in Side, b \in Int :
                Carried(m.packets, t, b) <=>
                  Carried(lg.packets, t, b) \/ (t = s /\ y <= b /\ b <= z)
    BY <1>7, <2>3, CaptureCarries
  <2>5. l = CapturePacket(lg, c, s, x, y, z)
    BY <2>2 DEF lg, x, y, z
  <2>6. lg.packets = log[c] /\ y = g - h + 1 /\ z = g + n
    BY <1>7 DEF lg, y, z
  <2>. QED BY <2>4, <2>5, <2>6
<1>9. Outcome(c, l, k) /\ UNCHANGED count
  BY <1>1
<1>. HIDE DEF l, k
<1>10. \A t \in Side, b \in Int : Carried(l.packets, t, b) <=> 1 <= b /\ b <= got'[c][t]
  <2>. TAKE t \in Side, b \in Int
  <2>1. Carried(log[c], t, b) <=> 1 <= b /\ b <= got[c][t]
    BY <1>2 DEF Recorded
  <2>. QED BY <1>4, <1>5, <1>8, <2>1
<1>11. PICK m, kk, state :
         /\ Becomes(c, m, kk, state)
         /\ \A t \in Side : kk[t] <= k[t]
         /\ m = l \/ m = Replied(l, c, 2)
         /\ \A t \in Side, b \in Int : Carried(m.packets, t, b) <=> Carried(l.packets, t, b)
  BY <1>3, <1>6, <1>8, <1>9, OutcomeBecomes
<1>12. \A t \in Side : kk[t] <= got'[c][t]
  <2>. TAKE t \in Side
  <2>1. kk[t] \in Int /\ k[t] \in Int /\ got'[c][t] \in Int
    BY <1>5, <1>6, <1>11 DEF Becomes
  <2>. QED BY <1>6, <1>11, <2>1
<1>13. ends' \in [Conversation -> [Side -> 0 .. MaxEnds]]
  BY <1>1, <1>2 DEF TypeOK
<1>. QED BY <1>1, <1>5, <1>10, <1>11, <1>12, <1>13, BecomesPreserves

LEMMA ReadEndsPreserves ==
  ASSUME CInv, NEW c \in Conversation, NEW s \in Side, ReadEnds(c, s)
  PROVE  CInv'
<1>. DEFINE l == CaptureFinAck(Log(c), c, s)
<1>1. /\ UNCHANGED <<pipelinesCount, count, got>>
      /\ ends[c][s] < MaxEnds /\ ends' = [ends EXCEPT ![c][s] = @ + 1]
      /\ \/ /\ Store(c, l) /\ stage' = [stage EXCEPT ![c] = "over"] /\ UNCHANGED kept
         \/ Outcome(c, l, kept[c])
  BY DEF ReadEnds
<1>2. TypeOK /\ KeptIsRead /\ Recorded /\ log[c] \in Seq(Entry)
  BY DEF CInv
<1>3. stage[c] # "new"
  BY DEF ReadEnds, Reads
<1>4. /\ ends' \in [Conversation -> [Side -> 0 .. MaxEnds]]
      /\ got' \in [Conversation -> [Side -> 0 .. MaxBytes]]
      /\ kept[c] \in [Side -> 0 .. MaxBytes]
  BY <1>1, <1>2, BoundsAssumption DEF TypeOK
<1>5. /\ Log(c).numbers \in [Side -> Numbers] /\ Log(c).packets = log[c]
      /\ count' \in [Conversation -> Nat]
  BY <1>1, <1>2 DEF Log, TypeOK, Numbers
<1>6. /\ l.numbers \in [Side -> Numbers] /\ l.packets \in Seq(Entry)
      /\ \A t \in Side, b \in Int : Carried(l.packets, t, b) <=> Carried(log[c], t, b)
  <2>. DEFINE lg == Log(c)
  <2>. HIDE DEF lg
  <2>1. lg.numbers \in [Side -> Numbers] /\ lg.packets = log[c] /\ lg.packets \in Seq(Entry)
    BY <1>2, <1>5 DEF lg
  <2>2. LET m == CaptureFinAck(lg, c, s)
        IN /\ m.numbers = lg.numbers
           /\ m.packets \in Seq(Entry)
           /\ \A t \in Side, b \in Int : Carried(m.packets, t, b) <=> Carried(lg.packets, t, b)
    BY <1>5, <2>1, FinAckCarries
  <2>3. l = CaptureFinAck(lg, c, s)
    BY DEF lg
  <2>. QED BY <2>1, <2>2, <2>3
<1>. HIDE DEF l
<1>7. \E m, kk, state :
        /\ Becomes(c, m, kk, state)
        /\ \A t \in Side : kk[t] <= kept[c][t]
        /\ \A t \in Side, b \in Int : Carried(m.packets, t, b) <=> Carried(l.packets, t, b)
  <2>1. CASE Store(c, l) /\ stage' = [stage EXCEPT ![c] = "over"] /\ UNCHANGED kept
    <3>1. kept' = [kept EXCEPT ![c] = kept[c]]
      BY <1>2, <2>1 DEF TypeOK
    <3>2. Becomes(c, l, kept[c], "over")
      BY <1>4, <1>6, <2>1, <3>1 DEF Store, Becomes, Stage
    <3>3. \A t \in Side : kept[c][t] <= kept[c][t]
      BY <1>4, BoundsAssumption
    <3>. QED BY <3>2, <3>3
  <2>2. CASE Outcome(c, l, kept[c])
    <3>1. \E m, kk, state :
            /\ Becomes(c, m, kk, state)
            /\ \A t \in Side : kk[t] <= kept[c][t]
            /\ m = l \/ m = Replied(l, c, 2)
            /\ \A t \in Side, b \in Int : Carried(m.packets, t, b) <=> Carried(l.packets, t, b)
      BY <1>1, <1>3, <1>4, <1>6, <2>2, OutcomeBecomes
    <3>. QED BY <3>1
  <2>. QED BY <1>1, <2>1, <2>2 DEF l
<1>8. PICK m, kk, state :
        /\ Becomes(c, m, kk, state)
        /\ \A t \in Side : kk[t] <= kept[c][t]
        /\ \A t \in Side, b \in Int : Carried(m.packets, t, b) <=> Carried(l.packets, t, b)
  BY <1>7
<1>9. \A t \in Side : kk[t] <= got'[c][t]
  <2>. TAKE t \in Side
  <2>1. kk[t] \in Int /\ kept[c][t] \in Int /\ got[c][t] \in Int
    BY <1>2, <1>8 DEF Becomes, TypeOK
  <2>. QED BY <1>1, <1>2, <1>8, <2>1 DEF KeptIsRead
<1>10. \A t \in Side, b \in Int : Carried(m.packets, t, b) <=> 1 <= b /\ b <= got'[c][t]
  BY <1>1, <1>2, <1>6, <1>8 DEF Recorded
<1>. QED BY <1>1, <1>4, <1>8, <1>9, <1>10, BecomesPreserves

LEMMA SendReplyPreserves ==
  ASSUME CInv, NEW c \in Conversation, SendReply(c)
  PROVE  CInv'
<1>. DEFINE m == Replied(Log(c), c, kept[c]["client"])
<1>1. /\ UNCHANGED <<pipelinesCount, count, got, ends>>
      /\ GoesOn(c, m, "clientHello")
  BY DEF SendReply
<1>2. TypeOK /\ KeptIsRead /\ Recorded /\ log[c] \in Seq(Entry)
  BY DEF CInv
<1>3. /\ Log(c).numbers \in [Side -> Numbers] /\ Log(c).packets = log[c]
      /\ count' \in [Conversation -> Nat]
  BY <1>1, <1>2 DEF Log, TypeOK, Numbers
<1>4. /\ m.numbers \in [Side -> Numbers] /\ m.packets \in Seq(Entry)
      /\ \A t \in Side, b \in Int : Carried(m.packets, t, b) <=> Carried(log[c], t, b)
  <2>. DEFINE lg == Log(c)
              n == kept[c]["client"]
  <2>1. n \in Int
    BY <1>2, BoundsAssumption DEF TypeOK, Side
  <2>. HIDE DEF lg, n
  <2>2. lg.numbers \in [Side -> Numbers] /\ lg.packets = log[c] /\ lg.packets \in Seq(Entry)
    BY <1>2, <1>3 DEF lg
  <2>3. LET r == Replied(lg, c, n)
        IN /\ r.numbers \in [Side -> Numbers]
           /\ r.packets \in Seq(Entry)
           /\ \A t \in Side, b \in Int : Carried(r.packets, t, b) <=> Carried(lg.packets, t, b)
    BY <1>3, <2>1, <2>2, RepliedCarries
  <2>4. m = Replied(lg, c, n)
    BY DEF lg, n
  <2>. QED BY <2>2, <2>3, <2>4
<1>. HIDE DEF m
<1>5. Becomes(c, m, Both(0), "clientHello")
  BY <1>1, <1>4, BoundsAssumption DEF GoesOn, Store, Becomes, Stage, Both
<1>6. /\ ends' \in [Conversation -> [Side -> 0 .. MaxEnds]]
      /\ got' \in [Conversation -> [Side -> 0 .. MaxBytes]]
      /\ \A t \in Side : Both(0)[t] <= got'[c][t]
  BY <1>1, <1>2 DEF TypeOK, Both
<1>7. \A t \in Side, b \in Int : Carried(m.packets, t, b) <=> 1 <= b /\ b <= got'[c][t]
  BY <1>1, <1>2, <1>4 DEF Recorded
<1>. QED BY <1>1, <1>5, <1>6, <1>7, BecomesPreserves

\* A handshake is three packets without content.
LEMMA HandshakeCarries ==
  ASSUME NEW c \in Conversation, count' \in [Conversation -> Nat]
  PROVE  /\ Generate3WayTCPHandshake(c) \in Seq(Entry)
         /\ \A t \in Side, b \in Int : ~Carried(Generate3WayTCPHandshake(c), t, b)
<1>. DEFINE zero == [seq |-> 0, ack |-> 0]
            half == [seq |-> 0, ack |-> 1]
            full == [seq |-> 1, ack |-> 1]
            port == GenerateNewPipelineEndpoints(count'[c])["server"].ip % PortModulus
            x == Control(c, "client", "client", "SYN", zero)
            y == Control(c, "server", "server", "SYNACK", half)
            z == Control(c, "client", "client", "ACK", full)
            w == [y EXCEPT !.sport = port]
<1>1. /\ "client" \in Side /\ "server" \in Side
      /\ "SYN" \in Flags /\ "SYNACK" \in Flags /\ "ACK" \in Flags
  BY DEF Side, Flags
<1>2. zero \in Numbers /\ half \in Numbers /\ full \in Numbers
  BY ModulusAssumption DEF Numbers
<1>3. port \in Int
  <2>1. count'[c] \in Nat
    OBVIOUS
  <2>2. GenerateNewPipelineEndpoints(count'[c])["server"].ip \in Int /\ PortModulus \in Nat \ {0}
    BY <1>1, <2>1, Endpoints, ModulusAssumption
  <2>3. PortModulus - 1 \in Int
    BY <2>2
  <2>. QED BY <2>2, <2>3, ModType
<1>. HIDE DEF zero, half, full, port
<1>4. /\ x \in Entry /\ y \in Entry /\ z \in Entry
      /\ x.first = 1 /\ x.last = 0 /\ y.first = 1 /\ y.last = 0 /\ z.first = 1 /\ z.last = 0
  BY <1>1, <1>2, ControlType
<1>. HIDE DEF x, y, z
<1>5. w \in Entry /\ w.first = 1 /\ w.last = 0
  BY <1>3, <1>4 DEF Entry
<1>6. Generate3WayTCPHandshake(c) = <<x, w, z>>
  BY DEF Generate3WayTCPHandshake, zero, half, full, port, x, y, z
<1>. HIDE DEF w
<1>. QED BY <1>4, <1>5, <1>6, EmptyCarry

LEMMA AddNewPipelinePreserves ==
  ASSUME CInv, NEW c \in Conversation, AddNewPipeline(c)
  PROVE  CInv'
<1>. DEFINE h == Generate3WayTCPHandshake(c)
<1>1. /\ stage[c] = "new"
      /\ pipelinesCount' = pipelinesCount + 1
      /\ count' = [count EXCEPT ![c] = pipelinesCount]
      /\ stage' = [stage EXCEPT ![c] = "greeting"]
      /\ log' = [log EXCEPT ![c] = h]
      /\ UNCHANGED <<pcap, kept, got, ends>>
  BY DEF AddNewPipeline, NextCount
<1>2. TypeOK /\ KeptIsRead /\ Recorded /\ log \in [Conversation -> Seq(Entry)]
  BY DEF CInv
<1>3. count' \in [Conversation -> Nat]
  BY <1>1, <1>2 DEF TypeOK
<1>4. h \in Seq(Entry) /\ \A t \in Side, b \in Int : ~Carried(h, t, b)
  BY <1>3, HandshakeCarries
<1>. HIDE DEF h
<1>5. TypeOK'
  BY <1>1, <1>2, <1>3 DEF TypeOK, Stage
<1>6. log' \in [Conversation -> Seq(Entry)] /\ log'[c] = h
  BY <1>1, <1>2, <1>4
<1>7. KeptIsRead'
  BY <1>1, <1>2 DEF TypeOK, KeptIsRead
<1>8. Recorded'
  <2>1. \A t \in Side : got'[c][t] = 0
    BY <1>1, <1>2 DEF KeptIsRead
  <2>2. \A d \in Conversation \ {c} : log'[d] = log[d] /\ got'[d] = got[d]
    BY <1>1, <1>2
  <2>3. \A b \in Int : ~(1 <= b /\ b <= 0)
    OBVIOUS
  <2>. QED BY <1>2, <1>4, <1>6, <2>1, <2>2, <2>3 DEF Recorded
<1>. QED BY <1>5, <1>6, <1>7, <1>8 DEF CInv

LEMMA InitCInv == Init => CInv
<1>. SUFFICES ASSUME Init PROVE CInv
  OBVIOUS
<1>1. TypeOK
  BY ModulusAssumption, BoundsAssumption DEF Init, TypeOK, Both, Stage
<1>2. log \in [Conversation -> Seq(Entry)] /\ \A c \in Conversation : log[c] = <<>>
  BY DEF Init
<1>3. \A c \in Conversation, s \in Side : got[c][s] = 0 /\ kept[c][s] = 0
  BY DEF Init, Both
<1>4. KeptIsRead
  BY <1>3 DEF KeptIsRead
<1>5. Recorded
  <2>1. \A s, b : ~Carried(<<>>, s, b)
    BY DEF Carried
  <2>2. \A b \in Int : ~(1 <= b /\ b <= 0)
    OBVIOUS
  <2>. QED BY <1>2, <1>3, <2>1, <2>2 DEF Recorded
<1>. QED BY <1>1, <1>2, <1>4, <1>5 DEF CInv

THEOREM CaptureInvariance == Spec => []CInv
<1>1. CInv /\ [Next]_vars => CInv'
  <2>. SUFFICES ASSUME CInv, [Next]_vars PROVE CInv'
    OBVIOUS
  <2>1. CASE Next
    BY <2>1, AddNewPipelinePreserves, SendReplyPreserves, ReadDataPreserves, ReadEndsPreserves
       DEF Next
  <2>2. CASE UNCHANGED vars
    BY <2>2 DEF vars, CInv, TypeOK, KeptIsRead, Recorded, Carried
  <2>. QED BY <2>1, <2>2
<1>. QED BY InitCInv, <1>1, PTL DEF Spec

\* The numbers stay in range and no counter passes its bound.
THEOREM CaptureTypeCorrect == Spec => []TypeOK
<1>1. CInv => TypeOK
  BY DEF CInv
<1>. QED BY <1>1, CaptureInvariance, PTL

\* Every byte that was read from a peer is in the file, in a packet from that peer,
\* and no packet carries a byte that was not read.
THEOREM NothingIsMissing == Spec => []NothingMissing
<1>1. CInv => NothingMissing
  <2>. SUFFICES ASSUME CInv, NEW c \in Conversation, NEW s \in Side
                PROVE  UNION {p.first .. p.last : p \in {q \in Range(log[c]) : q.from = s}}
                         = 1 .. got[c][s]
    BY DEF NothingMissing
  <2>. DEFINE P == {q \in Range(log[c]) : q.from = s}
              U == UNION {p.first .. p.last : p \in P}
  <2>1. /\ log[c] \in Seq(Entry) /\ got[c][s] \in Int
        /\ \A b \in Int : Carried(log[c], s, b) <=> 1 <= b /\ b <= got[c][s]
    BY BoundsAssumption DEF CInv, TypeOK, Recorded
  <2>2. \A i \in DOMAIN log[c] : log[c][i].first \in Int /\ log[c][i].last \in Int
    <3>. TAKE i \in DOMAIN log[c]
    <3>1. log[c][i] \in Entry
      BY <2>1
    <3>. QED BY <3>1 DEF Entry
  <2>3. ASSUME NEW b \in U PROVE b \in 1 .. got[c][s]
    <3>1. PICK p \in P : b \in p.first .. p.last
      OBVIOUS
    <3>2. PICK i \in DOMAIN log[c] : p = log[c][i] /\ log[c][i].from = s
      BY <3>1 DEF Range
    <3>3. b \in Int /\ log[c][i].first <= b /\ b <= log[c][i].last
      BY <2>2, <3>1, <3>2
    <3>4. Carried(log[c], s, b)
      BY <3>2, <3>3 DEF Carried
    <3>. QED BY <2>1, <3>3, <3>4
  <2>4. ASSUME NEW b \in 1 .. got[c][s] PROVE b \in U
    <3>1. b \in Int /\ 1 <= b /\ b <= got[c][s]
      BY <2>1
    <3>2. PICK i \in DOMAIN log[c] :
            log[c][i].from = s /\ log[c][i].first <= b /\ b <= log[c][i].last
      BY <2>1, <3>1 DEF Carried
    <3>3. log[c][i] \in P
      BY <3>2 DEF Range
    <3>4. b \in log[c][i].first .. log[c][i].last
      BY <2>2, <3>1, <3>2
    <3>. QED BY <3>3, <3>4
  <2>. QED BY <2>3, <2>4
<1>. QED BY <1>1, CaptureInvariance, PTL
=============================================================================
