-------------------------- MODULE TLSParserProofs --------------------------
(***************************************************************************)
(* What the recursions of TLSParser compute for every sequence of bytes,   *)
(* when what they produce is made of whole records, and when it has the    *)
(* content of what they are given, in its order.                           *)
(***************************************************************************)
EXTENDS TLSParser, WellFoundedInduction, TLAPS

\* Every set of naturals that is not empty has a least element.
LEMMA LeastNatural ==
  ASSUME NEW T, T \subseteq Nat, T # {}
  PROVE  \E x \in T : \A y \in T : x <= y
<1>. DEFINE R == OpToRel(<, Nat)
<1>1. IsWellFoundedOn(R, Nat)
  BY NatLessThanWellFounded
<1>. HIDE DEF R
<1>2. PICK x \in T : \A y \in T : <<y, x>> \notin R
  BY <1>1, WFMin
<1>3. ASSUME NEW y \in T PROVE x <= y
  <2>1. x \in Nat /\ y \in Nat
    OBVIOUS
  <2>2. <<y, x>> \in R <=> y < x
    BY <2>1 DEF R, OpToRel
  <2>. QED BY <1>2, <2>1, <2>2
<1>. QED BY <1>3

\* A recursion on D with results in V: arguments in stop have their results in base,
\* those of the others are made of the result for an argument of a smaller size.
IsRecursion(D, V, size, stop, base, next, step) ==
  /\ size \in [D -> Nat] /\ base \in [D -> V] /\ next \in [D -> D] /\ step \in [D -> [V -> V]]
  /\ \A d \in D : d \notin stop => size[next[d]] < size[d]

\* f obeys it, where the result it is made of is one.
Obeys(f, D, V, stop, base, next, step) ==
  \A d \in D :
    /\ d \in stop => f[d] = base[d]
    /\ d \notin stop /\ f[next[d]] \in V => f[d] = step[d][f[next[d]]]

\* There is one function that obeys it, and its results are in V.
LEMMA RecursionExists ==
  ASSUME NEW D, NEW V, NEW size, NEW stop, NEW base, NEW next, NEW step,
         IsRecursion(D, V, size, stop, base, next, step)
  PROVE  \E f \in [D -> V] :
           /\ Obeys(f, D, V, stop, base, next, step)
           /\ \A g : Obeys(g, D, V, stop, base, next, step) => \A d \in D : g[d] = f[d]
<1>. DEFINE Fol(f, n) == \A d \in D : size[d] <= n =>
                           f[d] = IF d \in stop THEN base[d] ELSE step[d][f[next[d]]]
            Up(f, n) == f \in [D -> V] /\ Fol(f, n)
            T == {n \in Nat : ~ \E f : Up(f, n)}
<1>a. /\ size \in [D -> Nat] /\ base \in [D -> V] /\ next \in [D -> D] /\ step \in [D -> [V -> V]]
      /\ \A d \in D : d \notin stop => size[next[d]] < size[d]
  BY DEF IsRecursion
<1>. USE <1>a
<1>0. ASSUME NEW f, NEW g, NEW n \in Nat, Up(f, n),
             Obeys(g, D, V, stop, base, next, step)
                 \/ Fol(g, n), NEW e \in D, size[e] <= n
      PROVE  f[e] = g[e]
  <2>. DEFINE W == {size[d] : d \in {c \in D : size[c] <= n /\ f[c] # g[c]}}
  <2>. SUFFICES ASSUME f[e] # g[e] PROVE FALSE
    OBVIOUS
  <2>1. W \subseteq Nat /\ W # {}
    <3>1. W \subseteq Nat
      OBVIOUS
    <3>2. size[e] \in W
      BY <1>0
    <3>. QED BY <3>1, <3>2
  <2>2. PICK x \in W : \A y \in W : x <= y
    <3>. HIDE DEF W
    <3>. QED BY <2>1, LeastNatural
  <2>3. PICK d \in D : size[d] <= n /\ f[d] # g[d] /\ size[d] = x
    OBVIOUS
  <2>4. d \notin stop
    BY <1>0, <2>3 DEF Obeys
  <2>5. next[d] \in D /\ size[next[d]] < size[d] /\ size[next[d]] \in Nat /\ size[d] \in Nat
    BY <2>4
  <2>6. size[next[d]] <= n /\ size[next[d]] \notin W
    <3>1. size[next[d]] < x
      BY <2>3, <2>5
    <3>. HIDE DEF W
    <3>. QED BY <2>2, <2>3, <2>5, <3>1
  <2>7. f[next[d]] = g[next[d]] /\ f[next[d]] \in V
    BY <1>0, <2>5, <2>6
  <2>8. f[d] = step[d][f[next[d]]]
    BY <1>0, <2>3, <2>4
  <2>9. g[d] = step[d][g[next[d]]]
    BY <1>0, <2>3, <2>4, <2>7 DEF Obeys
  <2>. QED BY <2>3, <2>7, <2>8, <2>9
<1>1. ASSUME NEW n \in Nat, NEW g \in [D -> V],
             \A d \in D : size[d] < n =>
               g[d] = IF d \in stop THEN base[d] ELSE step[d][g[next[d]]]
      PROVE  \E f : Up(f, n)
  <2>. DEFINE h == [d \in D |-> IF d \in stop THEN base[d] ELSE step[d][g[next[d]]]]
  <2>1. h \in [D -> V]
    OBVIOUS
  <2>2. ASSUME NEW d \in D, size[d] <= n
        PROVE  h[d] = IF d \in stop THEN base[d] ELSE step[d][h[next[d]]]
    <3>1. CASE d \in stop
      BY <3>1
    <3>2. CASE d \notin stop
      <4>1. next[d] \in D /\ size[next[d]] < n
        BY <2>2, <3>2
      <4>2. h[next[d]] = g[next[d]]
        BY <1>1, <4>1
      <4>. QED BY <3>2, <4>2
    <3>. QED BY <3>1, <3>2
  <2>3. Up(h, n)
    <3>. HIDE DEF h
    <3>. QED BY <2>1, <2>2
  <2>. HIDE DEF h, Up
  <2>. QED BY <2>3
<1>2. T = {}
  <2>. SUFFICES ASSUME T # {} PROVE FALSE
    OBVIOUS
  <2>1. T \subseteq Nat
    OBVIOUS
  <2>2. PICK m \in T : \A y \in T : m <= y
    <3>. HIDE DEF T
    <3>. QED BY <2>1, LeastNatural
  <2>3. CASE m = 0
    <3>1. \A d \in D : ~(size[d] < 0)
      OBVIOUS
    <3>2. base \in [D -> V] /\ \A d \in D : size[d] < m =>
               base[d] = IF d \in stop THEN base[d] ELSE step[d][base[next[d]]]
      BY <2>3, <3>1
    <3>3. m \in Nat
      OBVIOUS
    <3>. HIDE DEF Up
    <3>4. \E f : Up(f, m)
      BY <1>1, <3>2, <3>3
    <3>. QED BY <3>4
  <2>4. CASE m # 0
    <3>1. m - 1 \in Nat /\ m \in Nat /\ m - 1 \notin T
      <4>. HIDE DEF T
      <4>. QED BY <2>1, <2>2, <2>4
    <3>2. PICK g : Up(g, m - 1)
      BY <3>1
    <3>3. \A d \in D : size[d] < m => size[d] <= m - 1
      BY <3>1
    <3>4. g \in [D -> V] /\ \A d \in D : size[d] < m =>
               g[d] = IF d \in stop THEN base[d] ELSE step[d][g[next[d]]]
      BY <3>2, <3>3
    <3>. HIDE DEF Up
    <3>5. \E f : Up(f, m)
      BY <1>1, <3>1, <3>4
    <3>. QED BY <3>5
  <2>. QED BY <2>3, <2>4
<1>. DEFINE G == [n \in Nat |-> CHOOSE f : Up(f, n)]
            f == [d \in D |-> G[size[d]][d]]
<1>3. ASSUME NEW n \in Nat PROVE Up(G[n], n)
  <2>1. \E g : Up(g, n)
    BY <1>2
  <2>. HIDE DEF Up
  <2>. QED BY <2>1
<1>. HIDE DEF G, T
<1>4. f \in [D -> V]
  BY <1>3
<1>5. ASSUME NEW d \in D
      PROVE  f[d] = IF d \in stop THEN base[d] ELSE step[d][f[next[d]]]
  <2>. DEFINE n == size[d]
              m == size[next[d]]
  <2>1. n \in Nat /\ m \in Nat /\ next[d] \in D /\ Up(G[n], n) /\ Up(G[m], m)
    BY <1>3
  <2>2. G[n][d] = IF d \in stop THEN base[d] ELSE step[d][G[n][next[d]]]
    BY <2>1
  <2>3. CASE d \in stop
    BY <2>2, <2>3
  <2>4. CASE d \notin stop
    <3>1. m < n
      BY <2>4
    <3>2. Up(G[n], m) /\ Up(G[m], m)
      <4>. HIDE DEF m, n
      <4>1. \A k \in Nat : k <= m => k <= n
        BY <2>1, <3>1
      <4>. QED BY <2>1, <4>1
    <3>4. G[n][next[d]] = G[m][next[d]]
      <4>1. size[next[d]] <= m
        BY <2>1
      <4>. DEFINE a == G[n]
                  b == G[m]
                  e == next[d]
      <4>2. Up(a, m) /\ Fol(b, m) /\ e \in D /\ size[e] <= m /\ m \in Nat
        BY <2>1, <3>2, <4>1
      <4>. HIDE DEF m, n, a, b, e, Fol, Up
      <4>3. a[e] = b[e]
        BY <4>2, <1>0
      <4>. QED BY <4>3 DEF a, b, e
    <3>. QED BY <2>1, <2>2, <2>4, <3>4
  <2>. QED BY <2>3, <2>4
<1>. HIDE DEF f
<1>6. Obeys(f, D, V, stop, base, next, step)
  BY <1>4, <1>5 DEF Obeys
<1>7. ASSUME NEW g, Obeys(g, D, V, stop, base, next, step), NEW e \in D
      PROVE  g[e] = f[e]
  <2>. DEFINE n == size[e]
  <2>1. n \in Nat /\ size[e] <= n /\ Up(f, n)
    BY <1>4, <1>5
  <2>. HIDE DEF n, Up
  <2>. QED BY <1>0, <1>7, <2>1
<1>. QED BY <1>4, <1>6, <1>7

-----------------------------------------------------------------------------
(* Byte sequences. *)

\* What is left behind the first n bytes.
LEMMA DropType ==
  ASSUME NEW d \in Bytes, NEW n \in Nat
  PROVE  /\ Drop(d, n) \in Bytes
         /\ Len(Drop(d, n)) = IF n <= Len(d) THEN Len(d) - n ELSE 0
         /\ \A i \in 1 .. Len(Drop(d, n)) : Drop(d, n)[i] = d[n + i]
BY DEF Bytes, Drop

\* Copy returns n bytes, whatever there is to copy: those behind the end are junk.
LEMMA CopyType ==
  ASSUME NEW d \in Bytes, NEW i \in Nat \ {0}, NEW n \in Nat
  PROVE  /\ Copy(d, i, n) \in Bytes
         /\ Len(Copy(d, i, n)) = n
         /\ \A k \in 1 .. n : i + k - 1 <= Len(d) => Copy(d, i, n)[k] = d[i + k - 1]
<1>1. Junk \in Byte
  BY DEF Junk, Byte, Origin
<1>2. \A k \in 1 .. n : i + k - 1 <= Len(d) => d[i + k - 1] \in Byte
  BY DEF Bytes
<1>3. Copy(d, i, n) \in [1 .. n -> Byte]
  BY <1>1, <1>2 DEF Copy
<1>4. Copy(d, i, n) \in Bytes /\ Len(Copy(d, i, n)) = n
  BY <1>3 DEF Bytes
<1>. QED BY <1>4 DEF Copy

\* The sizes that headers state are those of their bytes, and 0 without a header.
LEMMA SizeType ==
  ASSUME NEW d \in Bytes
  PROVE  GetTLSRecordPayloadSize(d) \in Nat /\ GetTLSMessageSize(d) \in Nat
<1>1. ASSUME NEW i \in 1 .. Len(d) PROVE d[i].val \in Nat
  <2>1. d[i] \in Byte
    BY DEF Bytes
  <2>. QED BY <2>1 DEF Byte
<1>2. RecordHeader \in Nat /\ RecordHeader > 1 /\ MessageHeader \in Nat /\ MessageHeader > 1
  BY HeaderAssumption
<1>3. Len(d) \in Nat
  BY DEF Bytes
<1>. QED BY <1>1, <1>2, <1>3 DEF GetTLSRecordPayloadSize, GetTLSMessageSize

-----------------------------------------------------------------------------
(* The recursion of ValidLength. *)

RecordLength(d) == RecordHeader + GetTLSRecordPayloadSize(d)

\* A record that is not empty and complete is at the head of d.
HasRecord(d) == GetTLSRecordPayloadSize(d) # 0 /\ RecordLength(d) <= Len(d)

\* A record is never empty, whatever its header states.
LEMMA RecordLengthType ==
  ASSUME NEW d \in Bytes
  PROVE  RecordLength(d) \in Nat /\ RecordLength(d) > 1
BY SizeType, HeaderAssumption DEF RecordLength

\* ValidLength counts the bytes of the whole records at the head of d.
LEMMA ValidLengthIs ==
  /\ ValidLength \in [Bytes -> Nat]
  /\ \A d \in Bytes :
       ValidLength[d] = IF HasRecord(d) THEN RecordLength(d) + ValidLength[Drop(d, RecordLength(d))]
                        ELSE 0
<1>. DEFINE size == [d \in Bytes |-> Len(d)]
            stop == {d \in Bytes : ~HasRecord(d)}
            base == [d \in Bytes |-> 0]
            next == [d \in Bytes |-> Drop(d, RecordLength(d))]
            step == [d \in Bytes |-> [v \in Nat |-> RecordLength(d) + v]]
            Def(f, d) == IF HasRecord(d) THEN RecordLength(d) + f[Drop(d, RecordLength(d))] ELSE 0
<1>1. IsRecursion(Bytes, Nat, size, stop, base, next, step)
  <2>1. size \in [Bytes -> Nat] /\ base \in [Bytes -> Nat]
    BY DEF Bytes
  <2>2. next \in [Bytes -> Bytes]
    BY RecordLengthType, DropType
  <2>3. step \in [Bytes -> [Nat -> Nat]]
    BY RecordLengthType
  <2>4. ASSUME NEW d \in Bytes, d \notin stop PROVE size[next[d]] < size[d]
    <3>1. RecordLength(d) <= Len(d) /\ Len(d) \in Nat
      BY <2>4 DEF HasRecord, Bytes
    <3>. QED BY <3>1, RecordLengthType, DropType
  <2>. HIDE DEF size, stop, base, next, step
  <2>. QED BY <2>1, <2>2, <2>3, <2>4 DEF IsRecursion
<1>2. ASSUME NEW g
      PROVE  Obeys(g, Bytes, Nat, stop, base, next, step) <=>
               \A d \in Bytes :
                 \/ \/ HasRecord(d) /\ g[Drop(d, RecordLength(d))] \notin Nat
                 \/ g[d] = Def(g, d)
  BY DEF Obeys
<1>3. PICK f \in [Bytes -> Nat] :
        /\ Obeys(f, Bytes, Nat, stop, base, next, step)
        /\ \A g : Obeys(g, Bytes, Nat, stop, base, next, step) => \A d \in Bytes : g[d] = f[d]
  <2>. HIDE DEF size, stop, base, next, step
  <2>. QED BY <1>1, RecursionExists
<1>. HIDE DEF size, stop, base, next, step
<1>4. \A d \in Bytes : Drop(d, RecordLength(d)) \in Bytes
  BY RecordLengthType, DropType
<1>5. f = [d \in Bytes |-> Def(f, d)]
  BY <1>2, <1>3, <1>4
<1>6. ASSUME NEW g PROVE [d \in Bytes |-> Def(g, d)] =
        [d \in Bytes |->
          LET payload == GetTLSRecordPayloadSize(d)
              n == payload + RecordHeader
          IN IF payload = 0 \/ n > Len(d) THEN 0 ELSE n + g[Drop(d, n)]]
  <2>1. ASSUME NEW d \in Bytes
        PROVE  /\ GetTLSRecordPayloadSize(d) + RecordHeader = RecordLength(d)
               /\ RecordLength(d) > Len(d) <=> ~(RecordLength(d) <= Len(d))
    BY SizeType, RecordLengthType, HeaderAssumption DEF RecordLength, Bytes
  <2>. QED BY <2>1 DEF HasRecord
<1>7. ValidLength = [d \in Bytes |-> Def(ValidLength, d)]
  <2>. HIDE DEF Def
  <2>. QED BY <1>5, <1>6 DEF ValidLength
<1>. DEFINE v == ValidLength
<1>8. \A d \in Bytes : v[d] = Def(v, d)
  BY <1>7
<1>. HIDE DEF v
<1>9. \A d \in Bytes : v[d] = f[d]
  BY <1>2, <1>3, <1>8
<1>10. v \in [Bytes -> Nat]
  <2>1. v = [d \in Bytes |-> v[d]]
    BY <1>7 DEF v
  <2>. QED BY <1>9, <2>1
<1>. QED BY <1>8, <1>10 DEF v

-----------------------------------------------------------------------------
(* The recursions of the hello flows. *)

\* A length is a number.
LEMMA LengthType == ASSUME NEW d \in Bytes PROVE Len(d) \in Nat
BY DEF Bytes

\* No byte at all.
LEMMA EmptyIsBytes == <<>> \in Bytes
BY DEF Bytes

\* Only the empty sequence has no bytes.
LEMMA LengthOfEmpty == ASSUME NEW d \in Bytes PROVE d = <<>> <=> Len(d) = 0
BY DEF Bytes

\* Two sequences, one behind the other.
LEMMA JoinType ==
  ASSUME NEW c \in Bytes, NEW d \in Bytes
  PROVE  /\ c \o d \in Bytes
         /\ Len(c) \in Nat /\ Len(d) \in Nat /\ Len(c \o d) = Len(c) + Len(d)
         /\ \A i \in 1 .. Len(c) : (c \o d)[i] = c[i]
         /\ \A i \in 1 .. Len(d) : (c \o d)[Len(c) + i] = d[i]
BY DEF Bytes

\* CopyEveryClientPayload obeys its recursion, and returns bytes.
LEMMA CopyEveryClientPayloadIs ==
  /\ CopyEveryClientPayload \in [Bytes -> Bytes]
  /\ \A d \in Bytes : CopyEveryClientPayload[d] = IF d = <<>> THEN <<>>
                       ELSE IF GetTLSRecordPayloadSize(d) > Len(d) THEN Drop(d, RecordHeader)
                       ELSE Copy(d, RecordHeader + 1, GetTLSRecordPayloadSize(d))
                              \o CopyEveryClientPayload[Drop(d, RecordLength(d))]
<1>. DEFINE size == [d \in Bytes |-> Len(d)]
            stop == {d \in Bytes : d = <<>> \/ GetTLSRecordPayloadSize(d) > Len(d)}
            base == [d \in Bytes |-> IF d = <<>> THEN <<>> ELSE Drop(d, RecordHeader)]
            next == [d \in Bytes |-> Drop(d, RecordLength(d))]
            step == [d \in Bytes |-> [v \in Bytes |->
                       Copy(d, RecordHeader + 1, GetTLSRecordPayloadSize(d)) \o v]]
            Def(f, d) == IF d = <<>> THEN <<>>
                       ELSE IF GetTLSRecordPayloadSize(d) > Len(d) THEN Drop(d, RecordHeader)
                       ELSE Copy(d, RecordHeader + 1, GetTLSRecordPayloadSize(d))
                              \o f[Drop(d, RecordLength(d))]
<1>1. IsRecursion(Bytes, Bytes, size, stop, base, next, step)
  <2>0. size \in [Bytes -> Nat]
    BY DEF Bytes
  <2>1. base \in [Bytes -> Bytes]
    BY EmptyIsBytes, DropType, HeaderAssumption
  <2>2. next \in [Bytes -> Bytes]
    BY RecordLengthType, DropType
  <2>3. step \in [Bytes -> [Bytes -> Bytes]]
    <3>1. \A d \in Bytes : Copy(d, RecordHeader + 1, GetTLSRecordPayloadSize(d)) \in Bytes
      BY SizeType, CopyType, HeaderAssumption
    <3>. QED BY <3>1, JoinType
  <2>4. ASSUME NEW d \in Bytes, d \notin stop PROVE size[next[d]] < size[d]
    <3>1. Len(d) # 0 /\ Len(d) \in Nat
      BY <2>4, LengthOfEmpty DEF Bytes
    <3>. QED BY <3>1, RecordLengthType, DropType
  <2>. HIDE DEF size, stop, base, next, step
  <2>. QED BY <2>0, <2>1, <2>2, <2>3, <2>4 DEF IsRecursion
<1>2. ASSUME NEW g
      PROVE  Obeys(g, Bytes, Bytes, stop, base, next, step) <=>
               \A d \in Bytes :
                 \/ /\ ~(d = <<>> \/ GetTLSRecordPayloadSize(d) > Len(d))
                    /\ g[Drop(d, RecordLength(d))] \notin Bytes
                 \/ g[d] = Def(g, d)
  BY DEF Obeys
<1>3. PICK f \in [Bytes -> Bytes] :
        /\ Obeys(f, Bytes, Bytes, stop, base, next, step)
        /\ \A g : Obeys(g, Bytes, Bytes, stop, base, next, step) => \A d \in Bytes : g[d] = f[d]
  <2>. HIDE DEF size, stop, base, next, step
  <2>. QED BY <1>1, RecursionExists
<1>. HIDE DEF size, stop, base, next, step
<1>4. \A d \in Bytes : Drop(d, RecordLength(d)) \in Bytes
  BY RecordLengthType, DropType
<1>5. f = [d \in Bytes |-> Def(f, d)]
  BY <1>2, <1>3, <1>4
<1>6. ASSUME NEW g PROVE [d \in Bytes |-> Def(g, d)] =
        [d \in Bytes |->
          LET payload == GetTLSRecordPayloadSize(d) IN
          IF d = <<>> THEN <<>>
          ELSE IF payload > Len(d) THEN Drop(d, RecordHeader)
          ELSE Copy(d, RecordHeader + 1, payload)
                 \o g[Drop(d, RecordHeader + payload)]]
  BY DEF RecordLength
<1>7. CopyEveryClientPayload = [d \in Bytes |-> Def(CopyEveryClientPayload, d)]
  <2>. HIDE DEF Def
  <2>. QED BY <1>5, <1>6 DEF CopyEveryClientPayload
<1>. DEFINE v == CopyEveryClientPayload
<1>8. \A d \in Bytes : v[d] = Def(v, d)
  BY <1>7
<1>. HIDE DEF v
<1>9. \A d \in Bytes : v[d] = f[d]
  BY <1>2, <1>3, <1>8
<1>10. v \in [Bytes -> Bytes]
  <2>1. v = [d \in Bytes |-> v[d]]
    BY <1>7 DEF v
  <2>. QED BY <1>9, <2>1
<1>. QED BY <1>8, <1>10 DEF v

\* What CopyEveryServerPayload returns.
ServerPayload == [data : Bytes, ccs : Bytes, other : Bytes, missing : Nat, wraps : BOOLEAN]

\* What the server copies at a ChangeCipherSpec record has its type.
LEMMA CopyChangeCipherSpecType ==
  ASSUME NEW d \in Bytes
  PROVE  Nothing \in ServerPayload /\ CopyChangeCipherSpec(d) \in ServerPayload
<1>1. Copy(d, 1, ChangeCipherSpecSize) \in Bytes /\ Drop(d, ChangeCipherSpecSize) \in Bytes
  <2>1. ChangeCipherSpecSize \in Nat
    BY HeaderAssumption DEF ChangeCipherSpecSize
  <2>. QED BY <2>1, CopyType, DropType
<1>2. Nothing \in ServerPayload
  BY EmptyIsBytes DEF Nothing, ServerPayload
<1>3. (Len(d) < ChangeCipherSpecSize) \in BOOLEAN
  OBVIOUS
<1>. DEFINE c == Copy(d, 1, ChangeCipherSpecSize)
            o == Drop(d, ChangeCipherSpecSize)
            w == Len(d) < ChangeCipherSpecSize
<1>4. CopyChangeCipherSpec(d) = [Nothing EXCEPT !.ccs = c, !.other = o, !.wraps = w]
  BY DEF CopyChangeCipherSpec
<1>5. c \in Bytes /\ o \in Bytes /\ w \in BOOLEAN
  BY <1>1, <1>3
<1>. HIDE DEF c, o, w
<1>6. CopyChangeCipherSpec(d) \in ServerPayload
  BY <1>2, <1>4, <1>5 DEF ServerPayload
<1>. QED BY <1>2, <1>6

\* What the server copies of a record that is cut has its type.
LEMMA CopyCutRecordType ==
  ASSUME NEW d \in Bytes, GetTLSRecordPayloadSize(d) > Len(d)
  PROVE  CopyCutRecord(d, GetTLSRecordPayloadSize(d)) \in ServerPayload
<1>1. Drop(d, RecordHeader) \in Bytes
  BY DropType, HeaderAssumption
<1>2. GetTLSRecordPayloadSize(d) - (Len(d) - RecordHeader) \in Nat
  BY SizeType, HeaderAssumption DEF Bytes
<1>3. Nothing \in ServerPayload
  BY CopyChangeCipherSpecType
<1>. QED BY <1>1, <1>2, <1>3 DEF ServerPayload, CopyCutRecord

\* One more payload in front keeps the type.
LEMMA WithPayloadType ==
  ASSUME NEW p \in Bytes, NEW tail \in ServerPayload
  PROVE  WithPayload(p, tail) \in ServerPayload
BY JoinType DEF ServerPayload, WithPayload

\* CopyEveryServerPayload obeys its recursion, and has its type.
LEMMA CopyEveryServerPayloadIs ==
  /\ CopyEveryServerPayload \in [Bytes -> ServerPayload]
  /\ \A d \in Bytes : CopyEveryServerPayload[d] = IF d = <<>> THEN Nothing
              ELSE IF d[1].val = ChangeCipherSpec THEN CopyChangeCipherSpec(d)
              ELSE IF GetTLSRecordPayloadSize(d) > Len(d) THEN
                CopyCutRecord(d, GetTLSRecordPayloadSize(d))
              ELSE WithPayload(Copy(d, RecordHeader + 1, GetTLSRecordPayloadSize(d)),
                               CopyEveryServerPayload[Drop(d, RecordLength(d))])
<1>. DEFINE size == [d \in Bytes |-> Len(d)]
            stop == {d \in Bytes : \/ d = <<>> \/ d[1].val = ChangeCipherSpec
                                   \/ GetTLSRecordPayloadSize(d) > Len(d)}
            base == [d \in Bytes |->
                       IF d = <<>> THEN Nothing
                       ELSE IF d[1].val = ChangeCipherSpec THEN CopyChangeCipherSpec(d)
                       ELSE IF GetTLSRecordPayloadSize(d) > Len(d)
                            THEN CopyCutRecord(d, GetTLSRecordPayloadSize(d)) ELSE Nothing]
            next == [d \in Bytes |-> Drop(d, RecordLength(d))]
            step == [d \in Bytes |-> [v \in ServerPayload |->
                       WithPayload(Copy(d, RecordHeader + 1, GetTLSRecordPayloadSize(d)), v)]]
            Def(f, d) == IF d = <<>> THEN Nothing
              ELSE IF d[1].val = ChangeCipherSpec THEN CopyChangeCipherSpec(d)
              ELSE IF GetTLSRecordPayloadSize(d) > Len(d) THEN
                CopyCutRecord(d, GetTLSRecordPayloadSize(d))
              ELSE WithPayload(Copy(d, RecordHeader + 1, GetTLSRecordPayloadSize(d)),
                               f[Drop(d, RecordLength(d))])
<1>1. IsRecursion(Bytes, ServerPayload, size, stop, base, next, step)
  <2>0. size \in [Bytes -> Nat]
    BY DEF Bytes
  <2>1. base \in [Bytes -> ServerPayload]
    <3>1. ASSUME NEW d \in Bytes, GetTLSRecordPayloadSize(d) > Len(d)
          PROVE  CopyCutRecord(d, GetTLSRecordPayloadSize(d)) \in ServerPayload
      BY <3>1, CopyCutRecordType
    <3>2. \A d \in Bytes : GetTLSRecordPayloadSize(d) > Len(d) \/ ~(GetTLSRecordPayloadSize(d) > Len(d))
      OBVIOUS
    <3>3. ASSUME NEW d \in Bytes PROVE base[d] \in ServerPayload
      <4>1. CASE d = <<>>
        BY <4>1, CopyChangeCipherSpecType
      <4>2. CASE d # <<>> /\ d[1].val = ChangeCipherSpec
        BY <4>2, CopyChangeCipherSpecType
      <4>3. CASE d # <<>> /\ d[1].val # ChangeCipherSpec
        BY <3>1, <4>3, CopyChangeCipherSpecType
      <4>. QED BY <4>1, <4>2, <4>3
    <3>. QED BY <3>3
  <2>2. next \in [Bytes -> Bytes]
    BY RecordLengthType, DropType
  <2>3. step \in [Bytes -> [ServerPayload -> ServerPayload]]
    <3>1. \A d \in Bytes : Copy(d, RecordHeader + 1, GetTLSRecordPayloadSize(d)) \in Bytes
      BY SizeType, CopyType, HeaderAssumption
    <3>. QED BY <3>1, WithPayloadType
  <2>4. ASSUME NEW d \in Bytes, d \notin stop PROVE size[next[d]] < size[d]
    <3>1. Len(d) # 0 /\ Len(d) \in Nat
      BY <2>4, LengthOfEmpty DEF Bytes
    <3>. QED BY <3>1, RecordLengthType, DropType
  <2>. HIDE DEF size, stop, base, next, step
  <2>. QED BY <2>0, <2>1, <2>2, <2>3, <2>4 DEF IsRecursion
<1>2. ASSUME NEW g
      PROVE  Obeys(g, Bytes, ServerPayload, stop, base, next, step) <=>
               \A d \in Bytes :
                 \/ /\ ~(\/ d = <<>> \/ d[1].val = ChangeCipherSpec
                         \/ GetTLSRecordPayloadSize(d) > Len(d))
                    /\ g[Drop(d, RecordLength(d))] \notin ServerPayload
                 \/ g[d] = Def(g, d)
  BY DEF Obeys
<1>3. PICK f \in [Bytes -> ServerPayload] :
        /\ Obeys(f, Bytes, ServerPayload, stop, base, next, step)
        /\ \A g : Obeys(g, Bytes, ServerPayload, stop, base, next, step) => \A d \in Bytes : g[d] = f[d]
  <2>. HIDE DEF size, stop, base, next, step
  <2>. QED BY <1>1, RecursionExists
<1>. HIDE DEF size, stop, base, next, step
<1>4. \A d \in Bytes : Drop(d, RecordLength(d)) \in Bytes
  BY RecordLengthType, DropType
<1>5. f = [d \in Bytes |-> Def(f, d)]
  BY <1>2, <1>3, <1>4
<1>6. ASSUME NEW g PROVE [d \in Bytes |-> Def(g, d)] =
        [d \in Bytes |->
          LET payload == GetTLSRecordPayloadSize(d) IN
          IF d = <<>> THEN Nothing
          ELSE IF d[1].val = ChangeCipherSpec THEN CopyChangeCipherSpec(d)
          ELSE IF payload > Len(d) THEN CopyCutRecord(d, payload)
          ELSE WithPayload(Copy(d, RecordHeader + 1, payload),
                           g[Drop(d, RecordHeader + payload)])]
  BY DEF RecordLength
<1>7. CopyEveryServerPayload = [d \in Bytes |-> Def(CopyEveryServerPayload, d)]
  <2>. HIDE DEF Def
  <2>. QED BY <1>5, <1>6 DEF CopyEveryServerPayload
<1>. DEFINE v == CopyEveryServerPayload
<1>8. \A d \in Bytes : v[d] = Def(v, d)
  BY <1>7
<1>. HIDE DEF v
<1>9. \A d \in Bytes : v[d] = f[d]
  BY <1>2, <1>3, <1>8
<1>10. v \in [Bytes -> ServerPayload]
  <2>1. v = [d \in Bytes |-> v[d]]
    BY <1>7 DEF v
  <2>. QED BY <1>9, <2>1
<1>. QED BY <1>8, <1>10 DEF v

\* What ProcessEveryFullMessage returns.
Reframed == [records : Bytes, rest : Bytes]

MessageLength(d) == MessageHeader + GetTLSMessageSize(d)

\* A handshake message is never empty, whatever its header states.
LEMMA MessageLengthType ==
  ASSUME NEW d \in Bytes
  PROVE  MessageLength(d) \in Nat /\ MessageLength(d) > 1
BY SizeType, HeaderAssumption DEF MessageLength

\* The first n bytes.
LEMMA TakeType ==
  ASSUME NEW d \in Bytes, NEW n \in Nat, n <= Len(d)
  PROVE  /\ SubSeq(d, 1, n) \in Bytes
         /\ Len(SubSeq(d, 1, n)) = n
         /\ \A i \in 1 .. n : SubSeq(d, 1, n)[i] = d[i]
BY DEF Bytes

\* A length that fits stays what it is.
LEMMA NarrowedType ==
  ASSUME NEW n \in Nat
  PROVE  Narrowed(n) \in Nat /\ (n < SizeModulus => Narrowed(n) = n)
BY ModulusAssumption DEF Narrowed

\* The record that is generated for a message: a header that states its length, or what
\* fits of it, and the message.
LEMMA RecordBytesType ==
  ASSUME NEW type \in Nat, NEW p \in Bytes
  PROVE  /\ RecordBytes(type, p) \in Bytes
         /\ Len(RecordBytes(type, p)) = RecordHeader + Len(p)
         /\ RecordBytes(type, p)[1] = Header(type)
         /\ RecordBytes(type, p)[RecordHeader] = Header(Narrowed(Len(p)))
         /\ \A i \in 1 .. Len(p) : RecordBytes(type, p)[RecordHeader + i] = p[i]
<1>. DEFINE a == <<Header(type)>>
            b == [i \in 1 .. RecordHeader - 2 |-> Header(0)]
            c == <<Header(Narrowed(Len(p)))>>
<1>0. \A n \in Nat : Header(n) \in Byte
  BY DEF Header, Byte, Origin
<1>1. a \in Bytes /\ Len(a) = 1 /\ a[1] = Header(type)
  BY <1>0 DEF Bytes
<1>2. b \in Bytes /\ Len(b) = RecordHeader - 2
  BY <1>0, HeaderAssumption DEF Bytes
<1>3. c \in Bytes /\ Len(c) = 1 /\ c[1] = Header(Narrowed(Len(p)))
  <2>1. Header(Narrowed(Len(p))) \in Byte
    BY <1>0, NarrowedType DEF Bytes
  <2>. QED BY <2>1 DEF Bytes
<1>4. RecordBytes(type, p) = a \o b \o c \o p
  BY DEF RecordBytes
<1>. HIDE DEF a, b, c
<1>. DEFINE h == a \o b \o c
<1>5. h \in Bytes /\ Len(h) = RecordHeader /\ h[1] = Header(type) /\ h[RecordHeader] = Header(Narrowed(Len(p)))
  <2>. DEFINE ab == a \o b
  <2>1. ab \in Bytes /\ Len(ab) = RecordHeader - 1
    <3>1. ab \in Bytes /\ Len(ab) = Len(a) + Len(b)
      BY <1>1, <1>2, JoinType
    <3>. QED BY <1>1, <1>2, <3>1, HeaderAssumption
  <2>2. h = ab \o c
    BY DEF h, ab
  <2>3. 1 \in 1 .. Len(a) /\ 1 \in 1 .. Len(ab) /\ 1 \in 1 .. Len(c)
    BY <1>1, <1>3, <2>1, HeaderAssumption
  <2>4. ab[1] = Header(type)
    <3>1. \A i \in 1 .. Len(a) : (a \o b)[i] = a[i]
      BY <1>1, <1>2, JoinType
    <3>. QED BY <1>1, <2>3, <3>1
  <2>. HIDE DEF ab, h
  <2>5. h \in Bytes /\ Len(h) = RecordHeader
    <3>1. h \in Bytes /\ Len(h) = Len(ab) + Len(c)
      BY <1>3, <2>1, <2>2, JoinType
    <3>. QED BY <1>3, <2>1, <3>1, HeaderAssumption
  <2>6. h[1] = Header(type)
    <3>1. \A i \in 1 .. Len(ab) : h[i] = ab[i]
      BY <1>3, <2>1, <2>2, JoinType
    <3>. QED BY <2>3, <2>4, <3>1
  <2>7. h[RecordHeader] = Header(Narrowed(Len(p)))
    <3>1. \A i \in 1 .. Len(c) : h[Len(ab) + i] = c[i]
      BY <1>3, <2>1, <2>2, JoinType
    <3>2. Len(ab) + 1 = RecordHeader
      BY <2>1, HeaderAssumption
    <3>. QED BY <1>3, <2>3, <3>1, <3>2
  <2>. QED BY <2>5, <2>6, <2>7
<1>6. RecordBytes(type, p) = h \o p
  BY <1>4
<1>. HIDE DEF h
<1>7. h \o p \in Bytes /\ Len(h \o p) = RecordHeader + Len(p)
  BY <1>5, JoinType
<1>8. (h \o p)[1] = Header(type) /\ (h \o p)[RecordHeader] = Header(Narrowed(Len(p)))
  <2>1. 1 \in 1 .. Len(h) /\ RecordHeader \in 1 .. Len(h)
    BY <1>5, HeaderAssumption
  <2>2. \A i \in 1 .. Len(h) : (h \o p)[i] = h[i]
    BY <1>5, JoinType
  <2>. QED BY <1>5, <2>1, <2>2
<1>9. \A i \in 1 .. Len(p) : (h \o p)[RecordHeader + i] = p[i]
  BY <1>5, JoinType
<1>. QED BY <1>6, <1>7, <1>8, <1>9

\* One more record in front keeps the type.
LEMMA WithRecordType ==
  ASSUME NEW m \in Bytes, NEW tail \in Reframed
  PROVE  WithRecord(m, tail) \in Reframed
<1>1. RecordBytes(Handshake, m) \in Bytes
  BY RecordBytesType DEF Handshake
<1>. QED BY <1>1, JoinType DEF Reframed, WithRecord

\* ProcessEveryFullMessage obeys its recursion, and has its type.
LEMMA ProcessEveryFullMessageIs ==
  /\ ProcessEveryFullMessage \in [Bytes -> Reframed]
  /\ \A d \in Bytes :
       ProcessEveryFullMessage[d] =
         IF d = <<>> \/ MessageLength(d) > Len(d) THEN [records |-> <<>>, rest |-> d]
         ELSE WithRecord(SubSeq(d, 1, MessageLength(d)),
                         ProcessEveryFullMessage[Drop(d, MessageLength(d))])
<1>. DEFINE size == [d \in Bytes |-> Len(d)]
            stop == {d \in Bytes : d = <<>> \/ MessageLength(d) > Len(d)}
            base == [d \in Bytes |-> [records |-> <<>>, rest |-> d]]
            next == [d \in Bytes |-> Drop(d, MessageLength(d))]
            step == [d \in Bytes |-> [v \in Reframed |->
                                        IF MessageLength(d) > Len(d) THEN v
                                        ELSE WithRecord(SubSeq(d, 1, MessageLength(d)), v)]]
            Def(f, d) == IF d = <<>> \/ MessageLength(d) > Len(d) THEN [records |-> <<>>, rest |-> d]
              ELSE WithRecord(SubSeq(d, 1, MessageLength(d)), f[Drop(d, MessageLength(d))])
<1>1. IsRecursion(Bytes, Reframed, size, stop, base, next, step)
  <2>0. size \in [Bytes -> Nat]
    BY DEF Bytes
  <2>1. base \in [Bytes -> Reframed]
    BY EmptyIsBytes DEF Reframed
  <2>2. next \in [Bytes -> Bytes]
    BY MessageLengthType, DropType
  <2>3. step \in [Bytes -> [Reframed -> Reframed]]
    <3>1. ASSUME NEW d \in Bytes, ~(MessageLength(d) > Len(d))
          PROVE  SubSeq(d, 1, MessageLength(d)) \in Bytes
      BY <3>1, MessageLengthType, TakeType DEF Bytes
    <3>. QED BY <3>1, WithRecordType
  <2>4. ASSUME NEW d \in Bytes, d \notin stop PROVE size[next[d]] < size[d]
    <3>1. Len(d) # 0 /\ Len(d) \in Nat
      BY <2>4, LengthOfEmpty DEF Bytes
    <3>2. MessageLength(d) <= Len(d)
      BY <2>4, MessageLengthType, <3>1
    <3>. QED BY <3>1, <3>2, MessageLengthType, DropType
  <2>. HIDE DEF size, stop, base, next, step
  <2>. QED BY <2>0, <2>1, <2>2, <2>3, <2>4 DEF IsRecursion
<1>2. ASSUME NEW g
      PROVE  Obeys(g, Bytes, Reframed, stop, base, next, step) <=>
               \A d \in Bytes :
                 \/ ~(d = <<>> \/ MessageLength(d) > Len(d)) /\ g[Drop(d, MessageLength(d))] \notin Reframed
                 \/ g[d] = Def(g, d)
  BY DEF Obeys
<1>3. PICK f \in [Bytes -> Reframed] :
        /\ Obeys(f, Bytes, Reframed, stop, base, next, step)
        /\ \A g : Obeys(g, Bytes, Reframed, stop, base, next, step) => \A d \in Bytes : g[d] = f[d]
  <2>. HIDE DEF size, stop, base, next, step
  <2>. QED BY <1>1, RecursionExists
<1>. HIDE DEF size, stop, base, next, step
<1>4. \A d \in Bytes : Drop(d, MessageLength(d)) \in Bytes
  BY MessageLengthType, DropType
<1>5. f = [d \in Bytes |-> Def(f, d)]
  BY <1>2, <1>3, <1>4
<1>6. ASSUME NEW g PROVE [d \in Bytes |-> Def(g, d)] =
        [d \in Bytes |->
          LET n == MessageHeader + GetTLSMessageSize(d) IN
          IF d = <<>> \/ n > Len(d) THEN [records |-> <<>>, rest |-> d]
          ELSE WithRecord(SubSeq(d, 1, n), g[Drop(d, n)])]
  BY DEF MessageLength
<1>7. ProcessEveryFullMessage = [d \in Bytes |-> Def(ProcessEveryFullMessage, d)]
  <2>. HIDE DEF Def
  <2>. QED BY <1>5, <1>6 DEF ProcessEveryFullMessage
<1>. DEFINE v == ProcessEveryFullMessage
<1>8. \A d \in Bytes : v[d] = Def(v, d)
  BY <1>7
<1>. HIDE DEF v
<1>9. \A d \in Bytes : v[d] = f[d]
  BY <1>2, <1>3, <1>8
<1>10. v \in [Bytes -> Reframed]
  <2>1. v = [d \in Bytes |-> v[d]]
    BY <1>7 DEF v
  <2>. QED BY <1>9, <2>1
<1>. QED BY <1>8, <1>10 DEF v

\* MessagesFit obeys its recursion.
LEMMA MessagesFitIs ==
  \A d \in Bytes :
    MessagesFit[d] <=>
      \/ d = <<>> \/ MessageLength(d) > Len(d)
      \/ MessageLength(d) < SizeModulus /\ MessagesFit[Drop(d, MessageLength(d))]
<1>. DEFINE Ends(d) == d = <<>> \/ MessageLength(d) > Len(d)
            size == [d \in Bytes |-> Len(d)]
            stop == {d \in Bytes : Ends(d) \/ ~(MessageLength(d) < SizeModulus)}
            base == [d \in Bytes |-> Ends(d)]
            next == [d \in Bytes |-> Drop(d, MessageLength(d))]
            step == [d \in Bytes |-> [v \in BOOLEAN |-> v]]
            Def(f, d) == \/ Ends(d)
                         \/ MessageLength(d) < SizeModulus /\ f[Drop(d, MessageLength(d))]
<1>1. IsRecursion(Bytes, BOOLEAN, size, stop, base, next, step)
  <2>1. size \in [Bytes -> Nat]
    BY DEF Bytes
  <2>2. base \in [Bytes -> BOOLEAN]
    OBVIOUS
  <2>3. next \in [Bytes -> Bytes]
    BY MessageLengthType, DropType
  <2>4. step \in [Bytes -> [BOOLEAN -> BOOLEAN]]
    OBVIOUS
  <2>5. ASSUME NEW d \in Bytes, d \notin stop PROVE size[next[d]] < size[d]
    <3>1. Len(d) \in Nat /\ MessageLength(d) <= Len(d)
      BY <2>5, LengthType, MessageLengthType
    <3>. QED BY <3>1, MessageLengthType, DropType
  <2>. HIDE DEF size, stop, base, next, step
  <2>. QED BY <2>1, <2>2, <2>3, <2>4, <2>5 DEF IsRecursion
<1>2. PICK f \in [Bytes -> BOOLEAN] : Obeys(f, Bytes, BOOLEAN, stop, base, next, step)
  <2>. HIDE DEF size, stop, base, next, step
  <2>. QED BY <1>1, RecursionExists
<1>3. ASSUME NEW d \in Bytes PROVE f[d] = Def(f, d)
  <2>. DEFINE e == Drop(d, MessageLength(d))
  <2>1. e \in Bytes /\ f[d] \in BOOLEAN /\ f[e] \in BOOLEAN
    BY <1>2, MessageLengthType, DropType
  <2>2. d \in stop => f[d] = Ends(d)
    BY <1>2 DEF Obeys
  <2>3. d \notin stop => f[d] = f[e]
    <3>1. next[d] = e
      OBVIOUS
    <3>2. d \notin stop => f[d] = step[d][f[next[d]]]
      <4>. HIDE DEF stop, base, step
      <4>. QED BY <1>2, <2>1, <3>1 DEF Obeys
    <3>. QED BY <2>1, <3>1, <3>2
  <2>4. d \in stop <=> Ends(d) \/ ~(MessageLength(d) < SizeModulus)
    OBVIOUS
  <2>. HIDE DEF Ends, stop, e
  <2>5. f[d] <=> Ends(d) \/ (MessageLength(d) < SizeModulus /\ f[e])
    BY <2>1, <2>2, <2>3, <2>4
  <2>. QED BY <2>1, <2>5 DEF e
<1>. HIDE DEF size, stop, base, next, step
<1>4. f = [d \in Bytes |-> Def(f, d)]
  <2>. HIDE DEF Def
  <2>. QED BY <1>2, <1>3
<1>5. ASSUME NEW g PROVE [d \in Bytes |-> Def(g, d)] =
        [d \in Bytes |->
          LET n == MessageHeader + GetTLSMessageSize(d)
          IN d = <<>> \/ n > Len(d) \/ (n < SizeModulus /\ g[Drop(d, n)])]
  BY DEF MessageLength
<1>6. MessagesFit = [d \in Bytes |-> Def(MessagesFit, d)]
  <2>. HIDE DEF Def
  <2>. QED BY <1>4, <1>5 DEF MessagesFit
<1>. DEFINE v == MessagesFit
<1>7. \A d \in Bytes : v[d] = Def(v, d)
  BY <1>6
<1>. HIDE DEF v
<1>. QED BY <1>7 DEF v

-----------------------------------------------------------------------------
\* Induction over the length of byte sequences.
LEMMA BytesInduction ==
  ASSUME NEW P,
         \A d \in Bytes : (\A c \in Bytes : Len(c) < Len(d) => c \in P) => d \in P
  PROVE  \A d \in Bytes : d \in P
<1>. DEFINE W == {d \in Bytes : d \notin P}
            T == {Len(d) : d \in W}
<1>. SUFFICES ASSUME W # {} PROVE FALSE
  OBVIOUS
<1>1. T \subseteq Nat /\ T # {}
  <2>1. \A d \in W : Len(d) \in Nat
    BY LengthType
  <2>. HIDE DEF W
  <2>. QED BY <2>1
<1>2. PICK x \in T : \A y \in T : x <= y
  <2>. HIDE DEF T
  <2>. QED BY <1>1, LeastNatural
<1>3. PICK d \in W : Len(d) = x
  OBVIOUS
<1>4. ASSUME NEW c \in Bytes, Len(c) < Len(d) PROVE c \in P
  <2>1. Len(c) \in Nat /\ Len(d) \in Nat
    BY LengthType
  <2>2. Len(c) \notin T
    <3>. HIDE DEF T
    <3>. QED BY <1>2, <1>3, <1>4, <2>1
  <2>. QED BY <2>2
<1>. QED BY <1>3, <1>4

\* Sequences with the same length and the same elements.
LEMMA SameBytes ==
  ASSUME NEW c \in Bytes, NEW d \in Bytes, Len(c) = Len(d), \A i \in 1 .. Len(d) : c[i] = d[i]
  PROVE  c = d
BY DEF Bytes

\* d is made of whole records that are not empty.
Whole(d) == d \in Bytes /\ ValidLength[d] = Len(d)

\* No bytes are no records, which are whole.
LEMMA EmptyIsWhole == Whole(<<>>)
<1>1. ~HasRecord(<<>>)
  BY RecordLengthType, EmptyIsBytes DEF HasRecord
<1>. QED BY <1>1, EmptyIsBytes, ValidLengthIs DEF Whole

\* The record at the head of a sequence.
LEMMA FirstRecord ==
  ASSUME NEW a \in Bytes, HasRecord(a)
  PROVE  /\ RecordLength(a) \in 1 .. Len(a)
         /\ Len(a) \in Nat
         /\ RecordHeader \in 1 .. Len(a)
         /\ RecordLength(a) = RecordHeader + a[RecordHeader].val
         /\ Len(Drop(a, RecordLength(a))) = Len(a) - RecordLength(a)
         /\ Drop(a, RecordLength(a)) \in Bytes
         /\ ValidLength[a] = RecordLength(a) + ValidLength[Drop(a, RecordLength(a))]
<1>1. Len(a) \in Nat
  BY DEF Bytes
<1>2. RecordHeader \in Nat /\ RecordHeader > 1
  BY HeaderAssumption
<1>3. ~(Len(a) < RecordHeader) /\ RecordLength(a) <= Len(a)
  BY DEF HasRecord, GetTLSRecordPayloadSize
<1>4. RecordHeader \in 1 .. Len(a)
  BY <1>1, <1>2, <1>3
<1>5. RecordLength(a) = RecordHeader + a[RecordHeader].val
  BY <1>3 DEF RecordLength, GetTLSRecordPayloadSize
<1>6. RecordLength(a) \in 1 .. Len(a)
  BY <1>1, <1>3, RecordLengthType
<1>7. Drop(a, RecordLength(a)) \in Bytes /\ Len(Drop(a, RecordLength(a))) = Len(a) - RecordLength(a)
  BY <1>3, RecordLengthType, DropType
<1>8. ValidLength[a] = RecordLength(a) + ValidLength[Drop(a, RecordLength(a))]
  BY ValidLengthIs
<1>. QED BY <1>1, <1>4, <1>5, <1>6, <1>7, <1>8

\* The first record is the same, whatever follows.
LEMMA SameFirstRecord ==
  ASSUME NEW a \in Bytes, NEW b \in Bytes, HasRecord(a)
  PROVE  /\ HasRecord(a \o b)
         /\ RecordLength(a \o b) = RecordLength(a)
         /\ Drop(a \o b, RecordLength(a)) = Drop(a, RecordLength(a)) \o b
<1>. DEFINE n == RecordLength(a)
            ab == a \o b
<1>1. ab \in Bytes /\ Len(ab) = Len(a) + Len(b) /\ Len(a) \in Nat /\ Len(b) \in Nat
  BY JoinType
<1>2. \A i \in 1 .. Len(a) : ab[i] = a[i]
  BY JoinType
<1>3. RecordHeader \in 1 .. Len(a) /\ n \in 1 .. Len(a) /\ RecordHeader \in Nat
  BY FirstRecord, HeaderAssumption
<1>4. GetTLSRecordPayloadSize(ab) = GetTLSRecordPayloadSize(a)
  <2>1. ~(Len(ab) < RecordHeader) /\ ~(Len(a) < RecordHeader)
    BY <1>1, <1>3
  <2>2. ab[RecordHeader] = a[RecordHeader]
    BY <1>2, <1>3
  <2>. HIDE DEF ab
  <2>. QED BY <2>1, <2>2 DEF GetTLSRecordPayloadSize
<1>5. RecordLength(ab) = n
  BY <1>4 DEF RecordLength
<1>6. HasRecord(ab)
  BY <1>1, <1>3, <1>4, <1>5 DEF HasRecord
<1>. DEFINE x == Drop(ab, n)
            y == Drop(a, n)
<1>7. /\ x \in Bytes /\ Len(x) = Len(ab) - n
      /\ \A i \in 1 .. Len(x) : x[i] = ab[n + i]
  <2>1. n \in Nat /\ n <= Len(ab)
    BY <1>1, <1>3
  <2>. HIDE DEF ab, n
  <2>. QED BY <1>1, <2>1, DropType
<1>8. /\ y \in Bytes /\ Len(y) = Len(a) - n
      /\ \A i \in 1 .. Len(y) : y[i] = a[n + i]
  <2>1. n \in Nat /\ n <= Len(a)
    BY <1>1, <1>3
  <2>. HIDE DEF n
  <2>. QED BY <1>1, <2>1, DropType
<1>. DEFINE yb == y \o b
<1>9. /\ yb \in Bytes /\ Len(yb) = Len(y) + Len(b)
      /\ \A i \in 1 .. Len(y) : yb[i] = y[i]
      /\ \A i \in 1 .. Len(b) : yb[Len(y) + i] = b[i]
  <2>. HIDE DEF y
  <2>. QED BY <1>8, JoinType
<1>10. \A i \in 1 .. Len(b) : ab[Len(a) + i] = b[i]
  BY JoinType
<1>. HIDE DEF x, y, yb, ab, n
<1>11. ASSUME NEW i \in 1 .. Len(x) PROVE x[i] = yb[i]
  <2>1. CASE i <= Len(a) - n
    <3>1. i \in 1 .. Len(y) /\ n + i \in 1 .. Len(a)
      BY <1>1, <1>3, <1>8, <2>1
    <3>. QED BY <1>2, <1>7, <1>8, <1>9, <3>1
  <2>2. CASE ~(i <= Len(a) - n)
    <3>. DEFINE j == i - (Len(a) - n)
    <3>1. j \in 1 .. Len(b) /\ Len(a) + j = n + i /\ Len(y) + j = i
      BY <1>1, <1>3, <1>7, <1>8, <2>2
    <3>. HIDE DEF j
    <3>. QED BY <1>7, <1>9, <1>10, <3>1
  <2>. QED BY <2>1, <2>2
<1>12. x = yb
  <2>1. Len(x) = Len(yb)
    BY <1>1, <1>3, <1>7, <1>8, <1>9
  <2>. QED BY <1>7, <1>9, <1>11, <2>1, SameBytes
<1>. QED BY <1>5, <1>6, <1>12 DEF x, y, yb, ab, n

\* Behind whole records, ValidLength goes on with what follows them.
LEMMA WholeThenMore ==
  ASSUME NEW a \in Bytes, Whole(a), NEW b \in Bytes
  PROVE  ValidLength[a \o b] = Len(a) + ValidLength[b]
<1>. DEFINE P == {c \in Bytes : Whole(c) => ValidLength[c \o b] = Len(c) + ValidLength[b]}
<1>1. ASSUME NEW c \in Bytes, \A e \in Bytes : Len(e) < Len(c) => e \in P
      PROVE  c \in P
  <2>. SUFFICES ASSUME Whole(c) PROVE ValidLength[c \o b] = Len(c) + ValidLength[b]
    OBVIOUS
  <2>0. ValidLength[b] \in Nat /\ Len(c) \in Nat
    BY ValidLengthIs DEF Bytes
  <2>1. CASE ~HasRecord(c)
    <3>1. Len(c) = 0
      BY <2>1, ValidLengthIs DEF Whole
    <3>2. c \o b = b
      BY <3>1 DEF Bytes
    <3>. QED BY <2>0, <3>1, <3>2
  <2>2. CASE HasRecord(c)
    <3>. DEFINE n == RecordLength(c)
                e == Drop(c, n)
    <3>1. /\ n \in 1 .. Len(c) /\ e \in Bytes /\ Len(e) = Len(c) - n
          /\ ValidLength[c] = n + ValidLength[e]
      BY <2>2, FirstRecord
    <3>2. HasRecord(c \o b) /\ RecordLength(c \o b) = n /\ Drop(c \o b, n) = e \o b
      BY <2>2, SameFirstRecord
    <3>3. Whole(e) /\ Len(e) < Len(c) /\ ValidLength[e] \in Nat
      BY <2>0, <3>1, ValidLengthIs DEF Whole
    <3>4. ValidLength[e \o b] = Len(e) + ValidLength[b]
      BY <1>1, <3>1, <3>3
    <3>5. c \o b \in Bytes
      BY JoinType
    <3>. DEFINE cb == c \o b
    <3>6. ValidLength[cb] = n + ValidLength[e \o b]
      <4>1. cb \in Bytes /\ HasRecord(cb) /\ RecordLength(cb) = n /\ Drop(cb, n) = e \o b
        BY <3>2, <3>5
      <4>. HIDE DEF cb, n, e
      <4>. QED BY <4>1, ValidLengthIs
    <3>. HIDE DEF n, e
    <3>. QED BY <2>0, <3>1, <3>4, <3>6
  <2>. QED BY <2>1, <2>2
<1>2. a \in P
  <2>. HIDE DEF P
  <2>. QED BY <1>1, BytesInduction
<1>. QED BY <1>2

\* Whole records behind whole records are whole records.
LEMMA WholeJoin ==
  ASSUME NEW a, NEW b, Whole(a), Whole(b)
  PROVE  Whole(a \o b)
<1>1. a \in Bytes /\ b \in Bytes
  BY DEF Whole
<1>2. ValidLength[a \o b] = Len(a) + ValidLength[b]
  BY <1>1, WholeThenMore
<1>. QED BY <1>1, <1>2, JoinType DEF Whole

\* A record with a payload.
LEMMA RecordIsWhole ==
  ASSUME NEW r \in Bytes, Len(r) > RecordHeader, Len(r) = RecordHeader + r[RecordHeader].val
  PROVE  Whole(r)
<1>1. Len(r) \in Nat /\ RecordHeader \in Nat /\ RecordHeader > 1
  BY LengthType, HeaderAssumption
<1>2. GetTLSRecordPayloadSize(r) = r[RecordHeader].val /\ GetTLSRecordPayloadSize(r) \in Nat
  BY <1>1, SizeType DEF GetTLSRecordPayloadSize
<1>3. GetTLSRecordPayloadSize(r) # 0
  BY <1>1, <1>2
<1>4. RecordLength(r) = Len(r)
  BY <1>2 DEF RecordLength
<1>5. HasRecord(r)
  BY <1>1, <1>3, <1>4 DEF HasRecord
<1>6. /\ Len(Drop(r, Len(r))) = Len(r) - Len(r) /\ Drop(r, Len(r)) \in Bytes
      /\ ValidLength[r] = Len(r) + ValidLength[Drop(r, Len(r))]
  BY <1>4, <1>5, FirstRecord
<1>7. Drop(r, Len(r)) = <<>>
  BY <1>1, <1>6, LengthOfEmpty
<1>8. ValidLength[<<>>] = 0
  BY EmptyIsWhole DEF Whole
<1>. QED BY <1>1, <1>6, <1>7, <1>8 DEF Whole

\* The record that is generated for a message is whole when it can tell its length.
LEMMA RecordBytesAreWhole ==
  ASSUME NEW type \in Nat, NEW p \in Bytes, Len(p) > 0, Len(p) < SizeModulus
  PROVE  Whole(RecordBytes(type, p))
<1>. DEFINE r == RecordBytes(type, p)
<1>1. r \in Bytes /\ Len(r) = RecordHeader + Len(p) /\ r[RecordHeader] = Header(Narrowed(Len(p)))
  BY RecordBytesType
<1>2. r[RecordHeader].val = Len(p)
  BY <1>1, NarrowedType, LengthType DEF Header
<1>3. Len(p) \in Nat /\ RecordHeader \in Nat
  BY LengthType, HeaderAssumption
<1>. HIDE DEF r
<1>4. Whole(r)
  BY <1>1, <1>2, <1>3, RecordIsWhole
<1>. QED BY <1>4 DEF r

\* What the hello flows generate is made of whole records when no message is too long.
LEMMA ReframedIsWhole ==
  ASSUME NEW d \in Bytes, MessagesFit[d]
  PROVE  Whole(ProcessEveryFullMessage[d].records)
<1>. DEFINE P == {c \in Bytes : MessagesFit[c] => Whole(ProcessEveryFullMessage[c].records)}
<1>1. ASSUME NEW c \in Bytes, \A e \in Bytes : Len(e) < Len(c) => e \in P
      PROVE  c \in P
  <2>. SUFFICES ASSUME MessagesFit[c] PROVE Whole(ProcessEveryFullMessage[c].records)
    OBVIOUS
  <2>1. CASE c = <<>> \/ MessageLength(c) > Len(c)
    BY <2>1, ProcessEveryFullMessageIs, EmptyIsWhole
  <2>2. CASE ~(c = <<>> \/ MessageLength(c) > Len(c))
    <3>. DEFINE n == MessageLength(c)
                m == SubSeq(c, 1, n)
                e == Drop(c, n)
                tail == ProcessEveryFullMessage[e]
    <3>1. n \in Nat /\ n > 1 /\ n <= Len(c) /\ Len(c) \in Nat
      BY <2>2, MessageLengthType, LengthType
    <3>2. ProcessEveryFullMessage[c] = WithRecord(m, tail)
      BY <2>2, ProcessEveryFullMessageIs
    <3>8. n < SizeModulus /\ MessagesFit[e]
      BY <2>2, MessagesFitIs
    <3>. HIDE DEF n
    <3>3. m \in Bytes /\ Len(m) = n
      BY <3>1, TakeType
    <3>4. e \in Bytes /\ Len(e) < Len(c)
      BY <3>1, DropType
    <3>5. tail \in Reframed /\ Whole(tail.records)
      BY <1>1, <3>8, <3>4, ProcessEveryFullMessageIs
    <3>. HIDE DEF m, e, tail
    <3>6. WithRecord(m, tail).records = RecordBytes(Handshake, m) \o tail.records
      BY <3>5 DEF WithRecord, Reframed
    <3>7. Whole(RecordBytes(Handshake, m))
      BY <3>1, <3>8, <3>3, RecordBytesAreWhole DEF Handshake
    <3>. QED BY <3>2, <3>5, <3>6, <3>7, WholeJoin
  <2>. QED BY <2>1, <2>2
<1>2. d \in P
  <2>. HIDE DEF P
  <2>. QED BY <1>1, BytesInduction
<1>. QED BY <1>2

\* A sequence is its first bytes and the others.
LEMMA TakeAndDrop ==
  ASSUME NEW d \in Bytes, NEW n \in Nat, n <= Len(d)
  PROVE  SubSeq(d, 1, n) \o Drop(d, n) = d
<1>. DEFINE a == SubSeq(d, 1, n)
            b == Drop(d, n)
            ab == a \o b
<1>1. a \in Bytes /\ Len(a) = n /\ \A i \in 1 .. n : a[i] = d[i]
  BY TakeType
<1>2. /\ b \in Bytes /\ Len(b) = Len(d) - n /\ Len(d) \in Nat
      /\ \A i \in 1 .. Len(b) : b[i] = d[n + i]
  BY DropType, LengthType
<1>. HIDE DEF a, b
<1>3. /\ ab \in Bytes /\ Len(ab) = Len(a) + Len(b)
      /\ \A i \in 1 .. Len(a) : ab[i] = a[i]
      /\ \A i \in 1 .. Len(b) : ab[Len(a) + i] = b[i]
  BY <1>1, <1>2, JoinType
<1>. HIDE DEF ab
<1>4. Len(ab) = Len(d)
  BY <1>1, <1>2, <1>3
<1>5. ASSUME NEW i \in 1 .. Len(d) PROVE ab[i] = d[i]
  <2>1. CASE i <= n
    BY <1>1, <1>3, <2>1
  <2>2. CASE ~(i <= n)
    <3>. DEFINE j == i - n
    <3>1. j \in 1 .. Len(b) /\ n + j = i
      BY <1>2, <2>2
    <3>. HIDE DEF j
    <3>. QED BY <1>1, <1>2, <1>3, <3>1
  <2>. QED BY <2>1, <2>2
<1>6. ab = d
  BY <1>3, <1>4, <1>5, SameBytes
<1>. QED BY <1>6 DEF ab, a, b

\* What TLSDefault extracts is made of whole records.
LEMMA ExtractedIsWhole ==
  ASSUME NEW d \in Bytes
  PROVE  /\ ValidLength[d] \in Nat /\ ValidLength[d] <= Len(d)
         /\ Whole(SubSeq(d, 1, ValidLength[d]))
<1>. DEFINE Ok(c) == ValidLength[c] <= Len(c) /\ Whole(SubSeq(c, 1, ValidLength[c]))
            P == {c \in Bytes : Ok(c)}
<1>1. ASSUME NEW c \in Bytes, \A e \in Bytes : Len(e) < Len(c) => e \in P
      PROVE  c \in P
  <2>1. CASE ~HasRecord(c)
    <3>1. ValidLength[c] = 0
      BY <2>1, ValidLengthIs
    <3>2. SubSeq(c, 1, 0) = <<>>
      <4>1. SubSeq(c, 1, 0) \in Bytes /\ Len(SubSeq(c, 1, 0)) = 0
        BY LengthType, TakeType
      <4>. QED BY <4>1, LengthOfEmpty
    <3>3. Len(c) \in Nat
      BY LengthType
    <3>4. Whole(SubSeq(c, 1, ValidLength[c]))
      BY <3>1, <3>2, EmptyIsWhole
    <3>5. ValidLength[c] <= Len(c)
      BY <3>1, <3>3
    <3>. QED BY <3>4, <3>5
  <2>2. CASE HasRecord(c)
    <3>. DEFINE n == RecordLength(c)
                e == Drop(c, n)
                r == SubSeq(c, 1, n)
                v == ValidLength[e]
                w == SubSeq(e, 1, v)
    <3>1. /\ n \in 1 .. Len(c) /\ Len(c) \in Nat /\ e \in Bytes /\ Len(e) = Len(c) - n
          /\ ValidLength[c] = n + v
          /\ RecordHeader \in 1 .. Len(c) /\ n = RecordHeader + c[RecordHeader].val
      BY <2>2, FirstRecord
    <3>2. GetTLSRecordPayloadSize(c) # 0 /\ n = RecordHeader + GetTLSRecordPayloadSize(c)
      BY <2>2 DEF HasRecord, RecordLength
    <3>3. GetTLSRecordPayloadSize(c) \in Nat /\ RecordHeader \in Nat
      BY SizeType, HeaderAssumption
    <3>4. n \in Nat /\ n <= Len(c) /\ n > RecordHeader
      BY <3>1, <3>2, <3>3
    <3>5. r \in Bytes /\ Len(r) = n /\ \A i \in 1 .. n : r[i] = c[i]
      <4>. HIDE DEF n
      <4>. QED BY <3>4, TakeType
    <3>6. Len(e) < Len(c)
      BY <3>1, <3>4
    <3>7. Ok(e)
      <4>. HIDE DEF e, Ok
      <4>. QED BY <1>1, <3>1, <3>6
    <3>8. v \in Nat /\ v <= Len(e) /\ Whole(w)
      BY <3>1, <3>7, ValidLengthIs
    <3>9. Whole(r)
      <4>1. r[RecordHeader] = c[RecordHeader]
        BY <3>3, <3>4, <3>5, HeaderAssumption
      <4>. HIDE DEF n, r
      <4>. QED BY <3>1, <3>4, <3>5, <4>1, RecordIsWhole
    <3>10. SubSeq(c, 1, n + v) = r \o w
      <4>. DEFINE t == SubSeq(c, 1, n + v)
                  rw == r \o w
      <4>1. n + v \in Nat /\ n + v <= Len(c)
        BY <3>1, <3>4, <3>8
      <4>2. t \in Bytes /\ Len(t) = n + v /\ \A i \in 1 .. n + v : t[i] = c[i]
        <5>. HIDE DEF n, v
        <5>. QED BY <4>1, TakeType
      <4>3. w \in Bytes /\ Len(w) = v /\ \A i \in 1 .. v : w[i] = e[i]
        <5>. HIDE DEF e, v
        <5>. QED BY <3>1, <3>8, TakeType
      <4>4. \A i \in 1 .. Len(e) : e[i] = c[n + i]
        <5>. HIDE DEF n
        <5>. QED BY <3>4, DropType
      <4>. HIDE DEF t, r, w
      <4>5. /\ rw \in Bytes /\ Len(rw) = Len(r) + Len(w)
            /\ \A i \in 1 .. Len(r) : rw[i] = r[i]
            /\ \A i \in 1 .. Len(w) : rw[Len(r) + i] = w[i]
        BY <3>5, <4>3, JoinType
      <4>. HIDE DEF n, e, v, rw
      <4>6. ASSUME NEW i \in 1 .. Len(t) PROVE rw[i] = t[i]
        <5>1. CASE i <= n
          BY <3>4, <3>5, <3>8, <4>2, <4>5, <5>1
        <5>2. CASE ~(i <= n)
          <6>. DEFINE j == i - n
          <6>1. j \in 1 .. v /\ n + j = i
            BY <3>4, <3>8, <4>2, <5>2
          <6>2. j \in 1 .. Len(e)
            BY <3>1, <3>8, <6>1
          <6>. HIDE DEF j
          <6>3. rw[i] = w[j] /\ w[j] = e[j] /\ e[j] = c[i]
            BY <3>5, <4>3, <4>4, <4>5, <6>1, <6>2
          <6>. QED BY <4>2, <6>3
        <5>. QED BY <5>1, <5>2
      <4>7. Len(rw) = Len(t)
        BY <3>5, <4>2, <4>3, <4>5
      <4>8. rw = t
        BY <4>2, <4>5, <4>6, <4>7, SameBytes
      <4>. QED BY <4>8 DEF rw, t
    <3>11. Whole(r \o w)
      <4>. HIDE DEF r, w
      <4>. QED BY <3>8, <3>9, WholeJoin
    <3>12. ValidLength[c] <= Len(c)
      <4>. HIDE DEF n, v, e
      <4>. QED BY <3>1, <3>4, <3>8
    <3>. HIDE DEF n, v, e, r, w
    <3>. QED BY <3>1, <3>10, <3>11, <3>12
  <2>. QED BY <2>1, <2>2
<1>2. d \in P
  <2>. HIDE DEF P
  <2>. QED BY <1>1, BytesInduction
<1>. QED BY <1>2, ValidLengthIs

\* A piece of a stream, and what is left of it.
LEMMA PieceType ==
  ASSUME NEW d \in Bytes, NEW e \in Nat, NEW g \in Nat, e <= g, g <= Len(d)
  PROVE  /\ SubSeq(d, e + 1, g) \in Bytes
         /\ Len(SubSeq(d, e + 1, g)) = g - e
         /\ \A i \in 1 .. g - e : SubSeq(d, e + 1, g)[i] = d[e + i]
BY DEF Bytes

\* A piece of a stream without its first bytes is a later piece.
LEMMA PieceDrop ==
  ASSUME NEW d \in Bytes, NEW e \in Nat, NEW g \in Nat, g <= Len(d),
         NEW n \in Nat, e + n <= g
  PROVE  Drop(SubSeq(d, e + 1, g), n) = SubSeq(d, e + n + 1, g)
<1>. DEFINE p == SubSeq(d, e + 1, g)
            a == Drop(p, n)
            b == SubSeq(d, (e + n) + 1, g)
<1>1. p \in Bytes /\ Len(p) = g - e /\ \A i \in 1 .. g - e : p[i] = d[e + i]
  BY PieceType
<1>. HIDE DEF p
<1>2. a \in Bytes /\ Len(a) = g - e - n /\ \A i \in 1 .. Len(a) : a[i] = p[n + i]
  BY <1>1, DropType
<1>3. b \in Bytes /\ Len(b) = g - (e + n) /\ \A i \in 1 .. g - (e + n) : b[i] = d[(e + n) + i]
  <2>. DEFINE k == e + n
  <2>1. k \in Nat /\ k <= g
    OBVIOUS
  <2>2. SubSeq(d, k + 1, g) \in Bytes /\ Len(SubSeq(d, k + 1, g)) = g - k
        /\ \A i \in 1 .. g - k : SubSeq(d, k + 1, g)[i] = d[k + i]
    <3>. HIDE DEF k
    <3>. QED BY <2>1, PieceType
  <2>. QED BY <2>2
<1>. HIDE DEF a, b
<1>4. ASSUME NEW i \in 1 .. Len(b) PROVE a[i] = b[i]
  <2>1. i \in 1 .. Len(a) /\ n + i \in 1 .. g - e /\ e + (n + i) = (e + n) + i
    BY <1>2, <1>3
  <2>2. a[i] = d[e + (n + i)]
    BY <1>1, <1>2, <2>1
  <2>3. b[i] = d[(e + n) + i]
    BY <1>3
  <2>. QED BY <2>1, <2>2, <2>3
<1>5. a = b
  <2>1. Len(a) = Len(b)
    BY <1>2, <1>3
  <2>. QED BY <1>2, <1>3, <1>4, <2>1, SameBytes
<1>. QED BY <1>5 DEF a, b, p

-----------------------------------------------------------------------------
(* What the hello flow of the server takes of records that are whole. *)

\* No record is cut, no length wraps around and a ChangeCipherSpec record is whole.
Harmless(c) == c.missing = 0 /\ ~c.wraps /\ Whole(c.ccs)

\* A ChangeCipherSpec record with one byte of payload is copied whole.
LEMMA ChangeCipherSpecIsWhole ==
  ASSUME NEW d \in Bytes, NEW g \in Nat, g <= Len(d), NEW e \in Nat, e < g,
         d[e + 1].val = ChangeCipherSpec,
         e + RecordHeader < g, d[e + RecordHeader].val = 1
  PROVE  Harmless(CopyChangeCipherSpec(SubSeq(d, e + 1, g)))
<1>. DEFINE p == SubSeq(d, e + 1, g)
            n == RecordHeader + 1
            r == Copy(p, 1, n)
<1>1. p \in Bytes /\ Len(p) = g - e /\ \A i \in 1 .. g - e : p[i] = d[e + i]
  BY PieceType
<1>2. n \in Nat /\ RecordHeader \in Nat /\ RecordHeader > 1
  BY HeaderAssumption
<1>. HIDE DEF p
<1>3. /\ CopyChangeCipherSpec(p).wraps = (Len(p) < n)
      /\ CopyChangeCipherSpec(p).ccs = r
      /\ CopyChangeCipherSpec(p).missing = 0
  BY DEF CopyChangeCipherSpec, ChangeCipherSpecSize, Nothing
<1>4. Len(p) \in Nat /\ Len(p) >= n
  BY <1>1, <1>2
<1>5. r \in Bytes /\ Len(r) = n /\ \A k \in 1 .. n : k <= Len(p) => r[k] = p[k]
  <2>. HIDE DEF n
  <2>0. \A i \in Nat \ {0} : Copy(p, i, n) \in Bytes /\ Len(Copy(p, i, n)) = n
    BY <1>1, <1>2, CopyType
  <2>1. r \in Bytes /\ Len(r) = n
    BY <2>0
  <2>2. ASSUME NEW k \in 1 .. n, k <= Len(p) PROVE r[k] = p[k]
    <3>1. 1 + k - 1 = k
      BY <1>2
    <3>. QED BY <2>2, <3>1 DEF Copy
  <2>. QED BY <2>1, <2>2
<1>. HIDE DEF r
<1>6. r[RecordHeader] = d[e + RecordHeader]
  <2>1. RecordHeader \in 1 .. n /\ RecordHeader \in 1 .. g - e /\ RecordHeader <= Len(p)
    BY <1>1, <1>2, <1>4
  <2>. QED BY <1>1, <1>5, <2>1
<1>7. Len(r) > RecordHeader /\ Len(r) = RecordHeader + r[RecordHeader].val
  BY <1>2, <1>5, <1>6
<1>8. Whole(r) /\ ~(Len(p) < n)
  BY <1>2, <1>4, <1>5, <1>7, RecordIsWhole
<1>. QED BY <1>3, <1>8 DEF Harmless, p

\* The first record of a piece of a stream is the one that starts there.
LEMMA RecordLengthOfPiece ==
  ASSUME NEW d \in Bytes, NEW g \in Nat, g <= Len(d), NEW e \in Nat, e <= g
  PROVE  IF e + RecordHeader <= g
         THEN RecordLength(SubSeq(d, e + 1, g)) = RecordHeader + d[e + RecordHeader].val
         ELSE RecordLength(SubSeq(d, e + 1, g)) = RecordHeader
<1>. DEFINE p == SubSeq(d, e + 1, g)
<1>1. p \in Bytes /\ Len(p) = g - e /\ \A i \in 1 .. g - e : p[i] = d[e + i]
  BY PieceType
<1>. HIDE DEF p
<1>2. RecordHeader \in Nat /\ RecordHeader > 1
  BY HeaderAssumption
<1>3. CASE e + RecordHeader <= g
  <2>1. RecordHeader \in 1 .. g - e /\ ~(Len(p) < RecordHeader)
    BY <1>1, <1>2, <1>3
  <2>2. p[RecordHeader] = d[e + RecordHeader]
    BY <1>1, <2>1
  <2>3. RecordLength(p) = RecordHeader + d[e + RecordHeader].val
    BY <2>1, <2>2 DEF RecordLength, GetTLSRecordPayloadSize
  <2>. QED BY <1>3, <2>3 DEF p
<1>4. CASE ~(e + RecordHeader <= g)
  <2>1. Len(p) < RecordHeader
    BY <1>1, <1>2, <1>4
  <2>2. RecordLength(p) = RecordHeader
    BY <1>2, <2>1 DEF RecordLength, GetTLSRecordPayloadSize
  <2>. QED BY <1>4, <2>2 DEF p
<1>. QED BY <1>3, <1>4

\* From the start of a record on, up to the end of one, all that is taken is whole.
LEMMA PieceIsHarmless ==
  ASSUME NEW d \in Bytes, NEW g \in Nat, g <= Len(d), NEW S, S \subseteq Nat,
         \A e \in S : e < g => /\ e + RecordHeader <= g
                               /\ e + RecordHeader + d[e + RecordHeader].val <= g
                               /\ e + RecordHeader + d[e + RecordHeader].val \in S
                               /\ d[e + 1].val = ChangeCipherSpec => d[e + RecordHeader].val = 1,
         NEW e0 \in S, e0 <= g
  PROVE  Harmless(CopyEveryServerPayload[SubSeq(d, e0 + 1, g)])
<1>. DEFINE Piece(e) == SubSeq(d, e + 1, g)
            P == {p \in Bytes : \A e \in S : e <= g /\ p = Piece(e) =>
                                    Harmless(CopyEveryServerPayload[p])}
<1>1. ASSUME NEW p \in Bytes, \A q \in Bytes : Len(q) < Len(p) => q \in P
      PROVE  p \in P
  <2>. SUFFICES ASSUME NEW e \in S, e <= g, p = Piece(e)
                PROVE  Harmless(CopyEveryServerPayload[p])
    OBVIOUS
  <2>0. e \in Nat
    OBVIOUS
  <2>1. Len(p) = g - e /\ \A i \in 1 .. g - e : p[i] = d[e + i]
    BY <2>0, PieceType
  <2>2. CASE p = <<>>
    <3>1. CopyEveryServerPayload[p] = Nothing
      BY <2>2, CopyEveryServerPayloadIs
    <3>. QED BY <3>1, EmptyIsWhole DEF Nothing, Harmless
  <2>3. CASE p # <<>> /\ p[1].val = ChangeCipherSpec
    <3>1. CopyEveryServerPayload[p] = CopyChangeCipherSpec(p)
      BY <2>3, CopyEveryServerPayloadIs
    <3>2. e < g /\ d[e + 1].val = ChangeCipherSpec
      <4>1. Len(p) # 0
        BY <2>3, LengthOfEmpty
      <4>2. e < g /\ 1 \in 1 .. g - e
        BY <2>0, <2>1, <4>1
      <4>. QED BY <2>1, <2>3, <4>2
    <3>3. e + RecordHeader < g /\ d[e + RecordHeader].val = 1
      <4>1. d[e + RecordHeader].val = 1 /\ e + RecordHeader + d[e + RecordHeader].val <= g
        BY <3>2
      <4>. QED BY <2>0, <4>1, HeaderAssumption
    <3>. QED BY <2>0, <3>1, <3>2, <3>3, ChangeCipherSpecIsWhole
  <2>4. CASE p # <<>> /\ p[1].val # ChangeCipherSpec
    <3>. DEFINE m == GetTLSRecordPayloadSize(p)
                n == RecordLength(p)
                q == Drop(p, n)
                c == Copy(p, RecordHeader + 1, m)
                tail == CopyEveryServerPayload[q]
    <3>1. e < g
      <4>1. Len(p) # 0
        BY <2>4, LengthOfEmpty
      <4>. QED BY <2>0, <2>1, <4>1
    <3>2. /\ e + RecordHeader <= g
          /\ e + RecordHeader + d[e + RecordHeader].val <= g
          /\ e + RecordHeader + d[e + RecordHeader].val \in S
      BY <3>1
    <3>3. n = RecordHeader + d[e + RecordHeader].val
      BY <2>0, <3>2, RecordLengthOfPiece
    <3>4. n \in Nat /\ n > 1 /\ m \in Nat /\ n = RecordHeader + m /\ RecordHeader \in Nat
      BY RecordLengthType, SizeType, HeaderAssumption DEF RecordLength
    <3>5. e + n = e + RecordHeader + d[e + RecordHeader].val
      <4>1. d[e + RecordHeader].val = m
        <5>1. RecordHeader \in 1 .. g - e
          BY <2>0, <3>2, HeaderAssumption
        <5>2. p[RecordHeader] = d[e + RecordHeader] /\ ~(Len(p) < RecordHeader)
          BY <2>0, <2>1, <3>2, <3>4, <5>1
        <5>. QED BY <5>2 DEF GetTLSRecordPayloadSize
      <4>. HIDE DEF m, n
      <4>. QED BY <2>0, <3>4, <4>1
    <3>6. e + n <= g /\ e + n \in S /\ e + n \in Nat /\ n <= Len(p) /\ ~(m > Len(p))
      <4>. HIDE DEF m, n
      <4>1. e + n <= g /\ e + n \in S
        BY <3>2, <3>5
      <4>. QED BY <2>0, <2>1, <3>4, <4>1
    <3>7. CopyEveryServerPayload[p] = WithPayload(c, tail)
      BY <2>4, <3>6, CopyEveryServerPayloadIs
    <3>. HIDE DEF m, n
    <3>8. q \in Bytes /\ Len(q) < Len(p)
      <4>1. q \in Bytes /\ Len(q) = IF n <= Len(p) THEN Len(p) - n ELSE 0
        BY <3>4, DropType
      <4>. HIDE DEF q
      <4>. QED BY <2>0, <2>1, <3>4, <3>6, <4>1
    <3>9. q = Piece(e + n)
      BY <2>0, <3>4, <3>6, PieceDrop
    <3>10. q \in P /\ tail \in ServerPayload
      BY <1>1, <3>8, CopyEveryServerPayloadIs
    <3>11. Harmless(tail)
      <4>. HIDE DEF q
      <4>. QED BY <3>6, <3>9, <3>10
    <3>. HIDE DEF q, c, tail
    <3>. QED BY <3>7, <3>10, <3>11 DEF WithPayload, ServerPayload, Harmless
  <2>. QED BY <2>2, <2>3, <2>4
<1>2. SubSeq(d, e0 + 1, g) \in P
  <2>1. SubSeq(d, e0 + 1, g) \in Bytes
    BY PieceType
  <2>. HIDE DEF P
  <2>. QED BY <1>1, <2>1, BytesInduction
<1>. QED BY <1>2

-----------------------------------------------------------------------------
(* The content of what is copied. *)

\* c has the content of d, or a part of it, in its order.
Draws(c, d) == InOrder(c) /\ ContentOf(c) \subseteq ContentOf(d)
Carries(c, d) == InOrder(c) /\ ContentOf(c) = ContentOf(d)

\* The content of two sequences, one behind the other.
LEMMA ContentOfJoin ==
  ASSUME NEW c \in Bytes, NEW d \in Bytes
  PROVE  ContentOf(c \o d) = ContentOf(c) \cup ContentOf(d)
<1>. DEFINE x == c \o d
            Marked(b) == b.from \in {"client", "server", "junk"}
<1>1. /\ x \in Bytes /\ Len(c) \in Nat /\ Len(d) \in Nat /\ Len(x) = Len(c) + Len(d)
      /\ \A i \in 1 .. Len(c) : x[i] = c[i]
      /\ \A i \in 1 .. Len(d) : x[Len(c) + i] = d[i]
  BY JoinType
<1>. HIDE DEF x
<1>2. DOMAIN x = 1 .. Len(x) /\ DOMAIN c = 1 .. Len(c) /\ DOMAIN d = 1 .. Len(d)
  BY <1>1 DEF Bytes
<1>. HIDE DEF Marked
<1>3. ASSUME NEW a \in Bytes PROVE ContentOf(a) = {a[i] : i \in {j \in DOMAIN a : Marked(a[j])}}
  BY DEF ContentOf, ContentPlaces, Marked
<1>4. ASSUME NEW b \in ContentOf(x) PROVE b \in ContentOf(c) \cup ContentOf(d)
  <2>1. PICK i \in 1 .. Len(x) : b = x[i] /\ Marked(x[i])
    BY <1>1, <1>2, <1>3
  <2>2. CASE i <= Len(c)
    <3>1. i \in 1 .. Len(c)
      BY <1>1, <2>2
    <3>. QED BY <1>1, <1>2, <1>3, <2>1, <3>1
  <2>3. CASE ~(i <= Len(c))
    <3>. DEFINE j == i - Len(c)
    <3>1. j \in 1 .. Len(d) /\ Len(c) + j = i
      BY <1>1, <2>3
    <3>. HIDE DEF j
    <3>2. x[i] = d[j]
      BY <1>1, <3>1
    <3>. QED BY <1>2, <1>3, <2>1, <3>1, <3>2
  <2>. QED BY <2>2, <2>3
<1>5. ASSUME NEW b \in ContentOf(c) PROVE b \in ContentOf(x)
  <2>1. PICK i \in 1 .. Len(c) : b = c[i] /\ Marked(c[i])
    BY <1>2, <1>3
  <2>2. i \in 1 .. Len(x) /\ x[i] = c[i]
    BY <1>1
  <2>. QED BY <1>1, <1>2, <1>3, <2>1, <2>2
<1>6. ASSUME NEW b \in ContentOf(d) PROVE b \in ContentOf(x)
  <2>1. PICK i \in 1 .. Len(d) : b = d[i] /\ Marked(d[i])
    BY <1>2, <1>3
  <2>2. Len(c) + i \in 1 .. Len(x) /\ x[Len(c) + i] = d[i]
    BY <1>1
  <2>. QED BY <1>1, <1>2, <1>3, <2>1, <2>2
<1>. QED BY <1>4, <1>5, <1>6 DEF x

\* What precedes and what follows in a sequence that is in order is in order, and all
\* that precedes was sent before.
LEMMA OrderOfJoin ==
  ASSUME NEW c \in Bytes, NEW d \in Bytes
  PROVE  InOrder(c \o d) <=> /\ InOrder(c) /\ InOrder(d)
                             /\ \A a \in ContentOf(c) : \A b \in ContentOf(d) : a.at < b.at
<1>. DEFINE x == c \o d
            Marked(b) == b.from \in {"client", "server", "junk"}
            n == Len(c)
<1>1. /\ x \in Bytes /\ n \in Nat /\ Len(d) \in Nat /\ Len(x) = n + Len(d)
      /\ \A i \in 1 .. n : x[i] = c[i]
      /\ \A i \in 1 .. Len(d) : x[n + i] = d[i]
  BY JoinType
<1>. HIDE DEF x
<1>2. DOMAIN x = 1 .. Len(x) /\ DOMAIN c = 1 .. n /\ DOMAIN d = 1 .. Len(d)
  BY <1>1 DEF Bytes
<1>. HIDE DEF Marked, n
<1>3. ASSUME NEW a \in Bytes PROVE ContentPlaces(a) = {j \in DOMAIN a : Marked(a[j])}
  BY DEF ContentPlaces, Marked
<1>4. ASSUME NEW i \in ContentPlaces(c)
      PROVE  i \in ContentPlaces(x) /\ x[i] = c[i] /\ i \in 1 .. n
  BY <1>1, <1>2, <1>3
<1>5. ASSUME NEW i \in ContentPlaces(d)
      PROVE  n + i \in ContentPlaces(x) /\ x[n + i] = d[i] /\ i \in 1 .. Len(d)
  <2>1. i \in 1 .. Len(d) /\ Marked(d[i])
    BY <1>2, <1>3
  <2>2. n + i \in 1 .. Len(x) /\ x[n + i] = d[i]
    BY <1>1, <2>1
  <2>. QED BY <1>1, <1>2, <1>3, <2>1, <2>2
<1>6. ASSUME NEW i \in ContentPlaces(x)
      PROVE  \/ i \in ContentPlaces(c) /\ x[i] = c[i] /\ i <= n /\ i \in Nat
             \/ \E j \in ContentPlaces(d) : x[i] = d[j] /\ i = n + j /\ i > n /\ j \in Nat
  <2>1. i \in 1 .. Len(x) /\ Marked(x[i])
    BY <1>1, <1>2, <1>3
  <2>2. CASE i <= n
    BY <1>1, <1>2, <1>3, <2>1, <2>2
  <2>3. CASE ~(i <= n)
    <3>. DEFINE j == i - n
    <3>1. j \in 1 .. Len(d) /\ n + j = i /\ i > n /\ j \in Nat
      BY <1>1, <2>1, <2>3
    <3>. HIDE DEF j
    <3>2. x[i] = d[j]
      BY <1>1, <3>1
    <3>3. j \in ContentPlaces(d)
      BY <1>2, <1>3, <2>1, <3>1, <3>2
    <3>. QED BY <3>1, <3>2, <3>3
  <2>. QED BY <2>2, <2>3
<1>7. ASSUME InOrder(x)
      PROVE  /\ InOrder(c) /\ InOrder(d)
             /\ \A a \in ContentOf(c) : \A b \in ContentOf(d) : a.at < b.at
  <2>1. ASSUME NEW i \in ContentPlaces(c), NEW j \in ContentPlaces(c), i < j
        PROVE  c[i].at < c[j].at
    BY <1>4, <1>7, <2>1 DEF InOrder
  <2>2. ASSUME NEW i \in ContentPlaces(d), NEW j \in ContentPlaces(d), i < j
        PROVE  d[i].at < d[j].at
    <3>1. n + i \in ContentPlaces(x) /\ n + j \in ContentPlaces(x) /\ n + i < n + j
      BY <1>1, <1>5, <2>2
    <3>2. x[n + i].at < x[n + j].at
      BY <1>7, <3>1 DEF InOrder
    <3>. QED BY <1>5, <3>2
  <2>3. ASSUME NEW i \in ContentPlaces(c), NEW j \in ContentPlaces(d)
        PROVE  c[i].at < d[j].at
    <3>1. i \in ContentPlaces(x) /\ n + j \in ContentPlaces(x) /\ i < n + j
      BY <1>1, <1>4, <1>5
    <3>2. x[i].at < x[n + j].at
      BY <1>7, <3>1 DEF InOrder
    <3>. QED BY <1>4, <1>5, <3>2
  <2>. QED BY <2>1, <2>2, <2>3 DEF InOrder, ContentOf
<1>8. ASSUME InOrder(c), InOrder(d),
             \A a \in ContentOf(c) : \A b \in ContentOf(d) : a.at < b.at
      PROVE  InOrder(x)
  <2>. SUFFICES ASSUME NEW i \in ContentPlaces(x), NEW j \in ContentPlaces(x), i < j
                PROVE  x[i].at < x[j].at
    BY DEF InOrder
  <2>1. CASE i \in ContentPlaces(c) /\ x[i] = c[i] /\ j \in ContentPlaces(c) /\ x[j] = c[j]
    BY <1>8, <2>1 DEF InOrder
  <2>2. CASE /\ i \in ContentPlaces(c) /\ x[i] = c[i]
             /\ \E k \in ContentPlaces(d) : x[j] = d[k]
    <3>1. x[i] \in ContentOf(c) /\ x[j] \in ContentOf(d)
      BY <2>2 DEF ContentOf
    <3>. QED BY <1>8, <3>1
  <2>3. CASE /\ \E k \in ContentPlaces(d) : x[i] = d[k] /\ i = n + k /\ i > n /\ k \in Nat
             /\ \E k \in ContentPlaces(d) : x[j] = d[k] /\ j = n + k /\ j > n /\ k \in Nat
    <3>1. PICK k \in ContentPlaces(d) : x[i] = d[k] /\ i = n + k /\ k \in Nat
      BY <2>3
    <3>2. PICK l \in ContentPlaces(d) : x[j] = d[l] /\ j = n + l /\ l \in Nat
      BY <2>3
    <3>3. k < l
      BY <1>1, <3>1, <3>2
    <3>. QED BY <1>8, <3>1, <3>2, <3>3 DEF InOrder
  <2>4. CASE i > n /\ j <= n /\ i \in Nat /\ j \in Nat
    BY <1>1, <2>4
  <2>5. i \in Nat /\ j \in Nat
    BY <1>1, <1>2, <1>3
  <2>. QED BY <1>6, <2>1, <2>2, <2>3, <2>4, <2>5
<1>. QED BY <1>7, <1>8 DEF x

\* What is drawn from what precedes and what follows, one behind the other.
LEMMA DrawsJoin ==
  ASSUME NEW a \in Bytes, NEW b \in Bytes, NEW c \in Bytes, NEW d \in Bytes, InOrder(c \o d)
  PROVE  /\ Draws(a, c) /\ Draws(b, d) => Draws(a \o b, c \o d)
         /\ Carries(a, c) /\ Carries(b, d) => Carries(a \o b, c \o d)
<1>1. /\ ContentOf(a \o b) = ContentOf(a) \cup ContentOf(b)
      /\ ContentOf(c \o d) = ContentOf(c) \cup ContentOf(d)
  BY ContentOfJoin
<1>2. \A p \in ContentOf(c) : \A q \in ContentOf(d) : p.at < q.at
  BY OrderOfJoin
<1>3. ASSUME InOrder(a), InOrder(b), ContentOf(a) \subseteq ContentOf(c), ContentOf(b) \subseteq ContentOf(d)
      PROVE  InOrder(a \o b)
  <2>1. \A p \in ContentOf(a) : \A q \in ContentOf(b) : p.at < q.at
    BY <1>2, <1>3
  <2>. QED BY <1>3, <2>1, OrderOfJoin
<1>. QED BY <1>1, <1>3 DEF Draws, Carries

\* No bytes have no content.
LEMMA EmptyContent ==
  /\ ContentPlaces(<<>>) = {} /\ ContentOf(<<>>) = {} /\ InOrder(<<>>)
  /\ \A d \in Bytes : Draws(<<>>, d)
BY DEF ContentPlaces, ContentOf, InOrder, Draws

\* Bytes without content do not count.
LEMMA NoContent ==
  ASSUME NEW d \in Bytes, ContentPlaces(d) = {}
  PROVE  ContentOf(d) = {} /\ InOrder(d)
BY DEF ContentOf, InOrder

\* A piece of a sequence that is in order is in order.
LEMMA PieceInOrder ==
  ASSUME NEW d \in Bytes, InOrder(d), NEW k \in Nat, NEW g \in Nat, k <= g, g <= Len(d)
  PROVE  InOrder(SubSeq(d, k + 1, g)) /\ ContentOf(SubSeq(d, k + 1, g)) \subseteq ContentOf(d)
<1>. DEFINE p == SubSeq(d, k + 1, g)
<1>1. p \in Bytes /\ Len(p) = g - k /\ \A i \in 1 .. g - k : p[i] = d[k + i]
  BY PieceType
<1>. HIDE DEF p
<1>2. DOMAIN p = 1 .. g - k /\ DOMAIN d = 1 .. Len(d) /\ Len(d) \in Nat
  BY <1>1, LengthType DEF Bytes
<1>3. ASSUME NEW i \in ContentPlaces(p)
      PROVE  i \in Nat /\ k + i \in ContentPlaces(d) /\ p[i] = d[k + i]
  <2>1. i \in 1 .. g - k /\ k + i \in 1 .. Len(d)
    BY <1>2 DEF ContentPlaces
  <2>2. p[i] = d[k + i]
    BY <1>1, <2>1
  <2>. QED BY <1>2, <2>1, <2>2 DEF ContentPlaces
<1>4. InOrder(p)
  <2>. SUFFICES ASSUME NEW i \in ContentPlaces(p), NEW j \in ContentPlaces(p), i < j
                PROVE  p[i].at < p[j].at
    BY DEF InOrder
  <2>1. k + i < k + j
    BY <1>3
  <2>2. d[k + i].at < d[k + j].at
    BY <1>3, <2>1 DEF InOrder
  <2>. QED BY <1>3, <2>2
<1>5. ContentOf(p) \subseteq ContentOf(d)
  BY <1>3 DEF ContentOf
<1>. QED BY <1>4, <1>5 DEF p

\* Bytes without content in front of others.
LEMMA NoContentInFront ==
  ASSUME NEW c \in Bytes, NEW d \in Bytes, ContentOf(c) = {}, InOrder(c)
  PROVE  /\ c \o d \in Bytes /\ ContentOf(c \o d) = ContentOf(d)
         /\ InOrder(d) <=> InOrder(c \o d)
<1>1. c \o d \in Bytes
  BY JoinType
<1>2. ContentOf(c \o d) = ContentOf(d)
  <2>1. ContentOf(c \o d) = ContentOf(c) \cup ContentOf(d)
    BY ContentOfJoin
  <2>. QED BY <2>1
<1>3. InOrder(c \o d) <=> InOrder(d)
  BY OrderOfJoin
<1>. QED BY <1>1, <1>2, <1>3

\* The header the proxy puts in front of a message has no content.
LEMMA RecordContent ==
  ASSUME NEW m \in Bytes, InOrder(m)
  PROVE  RecordBytes(Handshake, m) \in Bytes /\ Carries(RecordBytes(Handshake, m), m)
<1>. DEFINE a == <<Header(Handshake)>>
            b == [i \in 1 .. RecordHeader - 2 |-> Header(0)]
            c == <<Header(Narrowed(Len(m)))>>
<1>0. \A n \in Nat : Header(n) \in Byte /\ Header(n).from = "header"
  BY DEF Header, Byte, Origin
<1>1. Handshake \in Nat /\ Len(m) \in Nat /\ RecordHeader - 2 \in Nat
  BY LengthType, HeaderAssumption DEF Handshake
<1>2. a \in Bytes /\ ContentPlaces(a) = {}
  <2>1. Header(Handshake) \in Byte /\ Header(Handshake).from = "header"
    BY <1>0, <1>1
  <2>. QED BY <2>1 DEF Bytes, ContentPlaces
<1>3. b \in Bytes /\ ContentPlaces(b) = {}
  BY <1>0, <1>1 DEF Bytes, ContentPlaces
<1>4. c \in Bytes /\ ContentPlaces(c) = {}
  <2>1. Header(Narrowed(Len(m))) \in Byte /\ Header(Narrowed(Len(m))).from = "header"
    BY <1>0, <1>1, NarrowedType
  <2>. QED BY <2>1 DEF Bytes, ContentPlaces
<1>5. RecordBytes(Handshake, m) = a \o b \o c \o m
  BY DEF RecordBytes
<1>. HIDE DEF a, b, c
<1>6. /\ ContentOf(a) = {} /\ ContentOf(b) = {} /\ ContentOf(c) = {}
      /\ InOrder(a) /\ InOrder(b) /\ InOrder(c)
  BY <1>2, <1>3, <1>4, NoContent
<1>7. a \o b \in Bytes /\ ContentOf(a \o b) = {} /\ InOrder(a \o b)
  BY <1>2, <1>3, <1>6, NoContentInFront
<1>. DEFINE ab == a \o b
            h == ab \o c
<1>8. h \in Bytes /\ ContentOf(h) = {} /\ InOrder(h)
  <2>. HIDE DEF ab
  <2>1. ab \in Bytes /\ ContentOf(ab) = {} /\ InOrder(ab)
    BY <1>7 DEF ab
  <2>. QED BY <1>4, <1>6, <2>1, NoContentInFront
<1>9. /\ a \o b \o c \o m \in Bytes /\ ContentOf(a \o b \o c \o m) = ContentOf(m)
      /\ InOrder(a \o b \o c \o m)
  <2>. HIDE DEF h
  <2>1. h \o m \in Bytes /\ ContentOf(h \o m) = ContentOf(m) /\ InOrder(h \o m)
    BY <1>8, NoContentInFront
  <2>. QED BY <2>1 DEF h
<1>. QED BY <1>5, <1>9 DEF Carries

\* The hello flows generate records with the content of the messages, when nothing is
\* left over.
LEMMA ReframedContent ==
  ASSUME NEW d \in Bytes, InOrder(d), ProcessEveryFullMessage[d].rest = <<>>
  PROVE  Carries(ProcessEveryFullMessage[d].records, d)
<1>. DEFINE P == {c \in Bytes : InOrder(c) /\ ProcessEveryFullMessage[c].rest = <<>> =>
                                   Carries(ProcessEveryFullMessage[c].records, c)}
<1>1. ASSUME NEW c \in Bytes, \A e \in Bytes : Len(e) < Len(c) => e \in P
      PROVE  c \in P
  <2>. SUFFICES ASSUME InOrder(c), ProcessEveryFullMessage[c].rest = <<>>
                PROVE  Carries(ProcessEveryFullMessage[c].records, c)
    OBVIOUS
  <2>1. CASE c = <<>> \/ MessageLength(c) > Len(c)
    <3>1. ProcessEveryFullMessage[c] = [records |-> <<>>, rest |-> c]
      BY <2>1, ProcessEveryFullMessageIs
    <3>2. c = <<>> /\ ProcessEveryFullMessage[c].records = <<>>
      BY <3>1
    <3>. QED BY <3>2, EmptyContent DEF Carries
  <2>2. CASE ~(c = <<>> \/ MessageLength(c) > Len(c))
    <3>. DEFINE n == MessageLength(c)
                m == SubSeq(c, 1, n)
                e == Drop(c, n)
                tail == ProcessEveryFullMessage[e]
    <3>1. n \in Nat /\ n > 1 /\ n <= Len(c) /\ Len(c) \in Nat
      BY <2>2, MessageLengthType, LengthType
    <3>2. ProcessEveryFullMessage[c] = WithRecord(m, tail)
      BY <2>2, ProcessEveryFullMessageIs
    <3>. HIDE DEF n
    <3>3. m \in Bytes
      BY <3>1, TakeType
    <3>4. e \in Bytes /\ Len(e) < Len(c)
      BY <3>1, DropType
    <3>5. c = m \o e
      BY <3>1, TakeAndDrop
    <3>6. tail \in Reframed /\ e \in P
      BY <1>1, <3>4, ProcessEveryFullMessageIs
    <3>. HIDE DEF m, e, tail
    <3>7. /\ WithRecord(m, tail).records = RecordBytes(Handshake, m) \o tail.records
          /\ WithRecord(m, tail).rest = tail.rest
          /\ tail.records \in Bytes
      BY <3>6 DEF WithRecord, Reframed
    <3>8. InOrder(m) /\ InOrder(e)
      BY <3>3, <3>4, <3>5, OrderOfJoin
    <3>9. Carries(tail.records, e)
      BY <3>2, <3>6, <3>7, <3>8 DEF tail
    <3>10. RecordBytes(Handshake, m) \in Bytes /\ Carries(RecordBytes(Handshake, m), m)
      BY <3>3, <3>8, RecordContent
    <3>11. Carries(RecordBytes(Handshake, m) \o tail.records, m \o e)
      BY <3>3, <3>4, <3>5, <3>7, <3>9, <3>10, DrawsJoin
    <3>. QED BY <3>2, <3>5, <3>7, <3>11
  <2>. QED BY <2>1, <2>2
<1>2. d \in P
  <2>. HIDE DEF P
  <2>. QED BY <1>1, BytesInduction
<1>. QED BY <1>2

\* The payload of a complete record has its content.
LEMMA PayloadContent ==
  ASSUME NEW p \in Bytes, InOrder(p), RecordLength(p) <= Len(p),
         \A i \in 1 .. RecordHeader : i \notin ContentPlaces(p),
         NEW b \in Bytes, Carries(b, Drop(p, RecordLength(p)))
  PROVE  Carries(Copy(p, RecordHeader + 1, GetTLSRecordPayloadSize(p)) \o b, p)
<1>. DEFINE m == GetTLSRecordPayloadSize(p)
            n == RecordLength(p)
            h == SubSeq(p, 1, RecordHeader)
            q == Drop(p, RecordHeader)
            y == SubSeq(q, 1, m)
            z == Drop(q, m)
            c == Copy(p, RecordHeader + 1, m)
            t == Drop(p, n)
<1>1. /\ m \in Nat /\ n \in Nat /\ n = RecordHeader + m /\ RecordHeader \in Nat /\ Len(p) \in Nat
      /\ n <= Len(p)
  BY RecordLengthType, SizeType, HeaderAssumption, LengthType DEF RecordLength
<1>. HIDE DEF m, n
<1>2. h \in Bytes /\ Len(h) = RecordHeader /\ \A i \in 1 .. RecordHeader : h[i] = p[i]
  BY <1>1, TakeType
<1>3. /\ q \in Bytes /\ Len(q) = Len(p) - RecordHeader
      /\ \A i \in 1 .. Len(q) : q[i] = p[RecordHeader + i]
  BY <1>1, DropType
<1>4. h \o q = p
  BY <1>1, TakeAndDrop
<1>. HIDE DEF h, q
<1>5. y \in Bytes /\ Len(y) = m /\ \A i \in 1 .. m : y[i] = q[i]
  BY <1>1, <1>3, TakeType
<1>6. z \in Bytes /\ Len(z) = Len(p) - n /\ \A i \in 1 .. Len(z) : z[i] = q[m + i]
  BY <1>1, <1>3, DropType
<1>7. y \o z = q
  BY <1>1, <1>3, TakeAndDrop
<1>8. /\ c \in Bytes /\ Len(c) = m
      /\ \A i \in 1 .. m : (RecordHeader + 1) + i - 1 <= Len(p) => c[i] = p[(RecordHeader + 1) + i - 1]
  <2>. DEFINE l == RecordHeader + 1
  <2>1. l \in Nat \ {0}
    BY <1>1
  <2>. HIDE DEF l
  <2>2. /\ Copy(p, l, m) \in Bytes /\ Len(Copy(p, l, m)) = m
        /\ \A i \in 1 .. m : l + i - 1 <= Len(p) => Copy(p, l, m)[i] = p[l + i - 1]
    BY <1>1, <2>1, CopyType
  <2>. QED BY <2>2 DEF l
<1>9. t \in Bytes /\ Len(t) = Len(p) - n /\ \A i \in 1 .. Len(t) : t[i] = p[n + i]
  BY <1>1, DropType
<1>. HIDE DEF y, z, c, t
<1>10. c = y
  <2>1. ASSUME NEW i \in 1 .. m PROVE c[i] = y[i]
    <3>1. /\ (RecordHeader + 1) + i - 1 = RecordHeader + i /\ RecordHeader + i <= Len(p)
          /\ i \in 1 .. Len(q)
      BY <1>1, <1>3
    <3>. QED BY <1>3, <1>5, <1>8, <3>1
  <2>. QED BY <1>5, <1>8, <2>1, SameBytes
<1>11. z = t
  <2>1. ASSUME NEW i \in 1 .. Len(t) PROVE z[i] = t[i]
    <3>1. m + i \in 1 .. Len(q) /\ RecordHeader + (m + i) = n + i /\ i \in 1 .. Len(z)
      BY <1>1, <1>3, <1>6, <1>9
    <3>. QED BY <1>3, <1>6, <1>9, <3>1
  <2>. QED BY <1>6, <1>9, <2>1, SameBytes
<1>12. ContentOf(h) = {} /\ InOrder(h)
  <2>1. ContentPlaces(h) = {}
    <3>1. DOMAIN h = 1 .. RecordHeader
      BY <1>2 DEF Bytes
    <3>2. ASSUME NEW i \in ContentPlaces(h) PROVE FALSE
      <4>1. i \in 1 .. RecordHeader /\ h[i] = p[i] /\ i \in DOMAIN p
        BY <1>1, <1>2, <3>1 DEF ContentPlaces, Bytes
      <4>. QED BY <4>1 DEF ContentPlaces
    <3>. QED BY <3>2
  <2>. QED BY <1>2, <2>1, NoContent
<1>13. InOrder(q) /\ ContentOf(p) = ContentOf(q)
  <2>1. ContentOf(h \o q) = ContentOf(q) /\ (InOrder(q) <=> InOrder(h \o q))
    BY <1>2, <1>3, <1>12, NoContentInFront
  <2>. QED BY <1>4, <2>1
<1>14. InOrder(y) /\ Carries(y, y)
  BY <1>5, <1>6, <1>7, <1>13, OrderOfJoin DEF Carries
<1>15. Carries(b, z)
  BY <1>11 DEF t, n
<1>16. Carries(y \o b, y \o z)
  BY <1>5, <1>6, <1>7, <1>13, <1>14, <1>15, DrawsJoin
<1>17. Carries(c \o b, p)
  BY <1>7, <1>10, <1>13, <1>16 DEF Carries
<1>. QED BY <1>17 DEF c, m

-----------------------------------------------------------------------------
(* Pieces of a stream between ends of records. *)

\* Induction over the places of S up to g, the last one first.
LEMMA BackwardInduction ==
  ASSUME NEW S, S \subseteq Nat, NEW g \in Nat, NEW Q,
         \A k \in S : k <= g /\ (\A j \in S : k < j /\ j <= g => j \in Q) => k \in Q
  PROVE  \A k \in S : k <= g => k \in Q
<1>. DEFINE W == {k \in S : k <= g /\ k \notin Q}
            T == {g - k : k \in W}
<1>. SUFFICES ASSUME W # {} PROVE FALSE
  OBVIOUS
<1>1. T \subseteq Nat /\ T # {}
  <2>1. ASSUME NEW k \in W PROVE g - k \in Nat
    <3>1. k \in S /\ k <= g
      OBVIOUS
    <3>2. k \in Nat
      BY <3>1
    <3>. HIDE DEF W
    <3>. QED BY <3>1, <3>2
  <2>2. PICK k : k \in W
    OBVIOUS
  <2>. HIDE DEF W
  <2>3. T \subseteq Nat
    BY <2>1
  <2>4. g - k \in T
    BY <2>2
  <2>. QED BY <2>3, <2>4
<1>2. PICK t \in T : \A y \in T : t <= y
  <2>. HIDE DEF T
  <2>. QED BY <1>1, LeastNatural
<1>3. PICK k \in W : t = g - k
  OBVIOUS
<1>4. ASSUME NEW j \in S, k < j, j <= g PROVE j \in Q
  <2>. SUFFICES ASSUME j \notin Q PROVE FALSE
    OBVIOUS
  <2>1. t <= g - j
    BY <1>2, <1>4
  <2>. QED BY <1>3, <1>4, <2>1
<1>. QED BY <1>3, <1>4

\* From each place of S before g a record starts that is not empty, has no content in
\* its header and ends at a place of S.
RecordsFrom(d, S, g) ==
  /\ d \in Bytes /\ InOrder(d) /\ S \subseteq Nat /\ g \in Nat /\ g <= Len(d)
  /\ \A k \in S : k < g => /\ k + RecordHeader < k + RecordHeader + d[k + RecordHeader].val
                           /\ k + RecordHeader + d[k + RecordHeader].val <= g
                           /\ k + RecordHeader + d[k + RecordHeader].val \in S
                           /\ \A i \in 1 .. RecordHeader : k + i \notin ContentPlaces(d)

\* The record at the head of p, which is the piece from k to g.
StartsWithRecord(d, S, g, k, p) ==
  /\ p \in Bytes /\ p # <<>> /\ InOrder(p) /\ p[1] = d[k + 1]
  /\ HasRecord(p) /\ ~(GetTLSRecordPayloadSize(p) > Len(p))
  /\ \A i \in 1 .. RecordHeader : i \notin ContentPlaces(p)
  /\ k + RecordLength(p) \in S /\ k + RecordLength(p) <= g /\ k < k + RecordLength(p)
  /\ Drop(p, RecordLength(p)) = SubSeq(d, (k + RecordLength(p)) + 1, g)

\* Such a piece starts with a record.
LEMMA RecordOfPiece ==
  ASSUME NEW d, NEW S, NEW g, RecordsFrom(d, S, g), NEW k \in S, k < g
  PROVE  StartsWithRecord(d, S, g, k, SubSeq(d, k + 1, g))
<1>. DEFINE p == SubSeq(d, k + 1, g)
            v == d[k + RecordHeader].val
            m == GetTLSRecordPayloadSize(p)
            n == RecordLength(p)
<1>1. /\ d \in Bytes /\ InOrder(d) /\ S \subseteq Nat /\ g \in Nat /\ g <= Len(d) /\ k \in Nat
      /\ k + RecordHeader < k + RecordHeader + v
      /\ k + RecordHeader + v <= g /\ k + RecordHeader + v \in S
      /\ \A i \in 1 .. RecordHeader : k + i \notin ContentPlaces(d)
      /\ RecordHeader \in Nat /\ RecordHeader > 1 /\ Len(d) \in Nat
  BY LengthType, HeaderAssumption DEF RecordsFrom
<1>2. p \in Bytes /\ Len(p) = g - k /\ \A i \in 1 .. g - k : p[i] = d[k + i]
  BY <1>1, PieceType
<1>. HIDE DEF p
<1>3. k + RecordHeader \in 1 .. Len(d) /\ v \in Nat
  <2>0. k + RecordHeader + v \in Nat
    BY <1>1
  <2>1. k + RecordHeader \in 1 .. Len(d)
    <3>. DEFINE w == k + RecordHeader + v
    <3>1. w \in Nat /\ k + RecordHeader < w /\ w <= g
      BY <1>1, <2>0
    <3>. HIDE DEF w
    <3>. QED BY <1>1, <3>1
  <2>2. d[k + RecordHeader] \in Byte
    BY <1>1, <2>1 DEF Bytes
  <2>. QED BY <2>1, <2>2 DEF Byte
<1>. HIDE DEF v
<1>4. v > 0 /\ k + RecordHeader <= g
  BY <1>1, <1>3
<1>5. RecordHeader \in 1 .. g - k /\ 1 \in 1 .. g - k /\ ~(Len(p) < RecordHeader)
  BY <1>1, <1>2, <1>4
<1>6. m = v
  BY <1>2, <1>5 DEF GetTLSRecordPayloadSize, v
<1>7. n = RecordHeader + v /\ n \in Nat
  BY <1>1, <1>3, <1>6 DEF RecordLength
<1>. HIDE DEF m, n
<1>8. k + n \in S /\ k + n <= g /\ k < k + n /\ n <= Len(p) /\ ~(m > Len(p)) /\ m # 0
  <2>1. k + n = k + RecordHeader + v
    BY <1>1, <1>3, <1>7
  <2>2. k + n \in S /\ k + n <= g
    BY <1>1, <2>1
  <2>. QED BY <1>1, <1>2, <1>3, <1>4, <1>6, <1>7, <2>2
<1>9. InOrder(p)
  <2>1. k <= g
    BY <1>1, <1>4
  <2>2. InOrder(SubSeq(d, k + 1, g))
    BY <1>1, <2>1, PieceInOrder
  <2>. QED BY <2>2 DEF p
<1>10. p # <<>>
  <2>1. k \in Nat /\ g \in Nat
    BY <1>1
  <2>2. Len(p) # 0
    BY <1>2, <1>5, <2>1
  <2>. QED BY <1>2, <2>2, LengthOfEmpty
<1>11. ASSUME NEW i \in 1 .. RecordHeader PROVE i \notin ContentPlaces(p)
  <2>1. i \in 1 .. g - k /\ k + i \in 1 .. Len(d)
    BY <1>1, <1>4
  <2>2. p[i] = d[k + i] /\ k + i \notin ContentPlaces(d) /\ k + i \in DOMAIN d
    BY <1>1, <1>2, <2>1 DEF Bytes
  <2>. QED BY <2>2 DEF ContentPlaces
<1>12. Drop(p, n) = SubSeq(d, (k + n) + 1, g)
  <2>0. d \in Bytes /\ k \in Nat /\ g \in Nat /\ g <= Len(d) /\ n \in Nat /\ k + n <= g
    BY <1>1, <1>7, <1>8
  <2>1. Drop(SubSeq(d, k + 1, g), n) = SubSeq(d, k + n + 1, g)
    BY <2>0, PieceDrop
  <2>2. p = SubSeq(d, k + 1, g)
    BY DEF p
  <2>3. Drop(p, n) = SubSeq(d, k + n + 1, g)
    BY <2>1, <2>2
  <2>. QED BY <2>3
<1>13. p[1] = d[k + 1]
  BY <1>2, <1>5
<1>14. HasRecord(p)
  BY <1>8 DEF HasRecord, m, n
<1>15. StartsWithRecord(d, S, g, k, p)
  BY <1>2, <1>8, <1>9, <1>10, <1>11, <1>12, <1>13, <1>14 DEF StartsWithRecord, m, n
<1>. QED BY <1>15 DEF p

\* Such a piece is made of whole records.
LEMMA PieceIsWhole ==
  ASSUME NEW d, NEW S, NEW g, RecordsFrom(d, S, g), NEW k0 \in S, k0 <= g
  PROVE  Whole(SubSeq(d, k0 + 1, g))
<1>. DEFINE Piece(k) == SubSeq(d, k + 1, g)
            Q == {k \in Nat : Whole(Piece(k))}
<1>0. d \in Bytes /\ S \subseteq Nat /\ g \in Nat /\ g <= Len(d)
  BY DEF RecordsFrom
<1>1. ASSUME NEW k \in S, k <= g, \A j \in S : k < j /\ j <= g => j \in Q
      PROVE  k \in Q
  <2>0. k \in Nat
    BY <1>0
  <2>1. CASE k = g
    <3>1. Piece(k) \in Bytes /\ Len(Piece(k)) = g - k
      BY <1>0, <2>0, <1>1, PieceType
    <3>2. Piece(k) = <<>>
      <4>. HIDE DEF Piece
      <4>. QED BY <1>0, <2>1, <3>1, LengthOfEmpty
    <3>. QED BY <2>0, <3>2, EmptyIsWhole
  <2>2. CASE k # g
    <3>. DEFINE p == Piece(k)
                n == RecordLength(p)
                q == Drop(p, n)
    <3>1. k < g
      BY <1>0, <1>1, <2>0, <2>2
    <3>2. /\ p \in Bytes /\ HasRecord(p)
          /\ k + n \in S /\ k + n <= g /\ k < k + n
          /\ q = Piece(k + n)
      <4>1. StartsWithRecord(d, S, g, k, p)
        BY <3>1, RecordOfPiece
      <4>. HIDE DEF p
      <4>. QED BY <3>1, <4>1 DEF StartsWithRecord
    <3>3. Whole(q)
      BY <1>1, <3>2
    <3>. HIDE DEF p, q
    <3>4. ValidLength[p] = n + ValidLength[q]
      BY <3>2, ValidLengthIs DEF q, n
    <3>5. n \in Nat /\ n <= Len(p) /\ Len(p) \in Nat
      BY <3>2, RecordLengthType, LengthType DEF HasRecord
    <3>6. Len(q) = Len(p) - n
      <4>. HIDE DEF n
      <4>. QED BY <3>2, <3>5, DropType DEF q
    <3>7. ValidLength[p] = Len(p)
      <4>. HIDE DEF n
      <4>. QED BY <3>3, <3>4, <3>5, <3>6 DEF Whole
    <3>. QED BY <2>0, <3>2, <3>7 DEF Whole, p
  <2>. QED BY <2>1, <2>2
<1>2. k0 \in Q
  <2>. HIDE DEF Q
  <2>. QED BY <1>0, <1>1, BackwardInduction
<1>. QED BY <1>2

\* What is copied of such a piece of a client has its content.
LEMMA ClientPayloadContent ==
  ASSUME NEW d, NEW S, NEW g, RecordsFrom(d, S, g), NEW k0 \in S, k0 <= g
  PROVE  Carries(CopyEveryClientPayload[SubSeq(d, k0 + 1, g)], SubSeq(d, k0 + 1, g))
<1>. DEFINE Piece(k) == SubSeq(d, k + 1, g)
            Q == {k \in Nat : Carries(CopyEveryClientPayload[Piece(k)], Piece(k))}
<1>0. d \in Bytes /\ S \subseteq Nat /\ g \in Nat /\ g <= Len(d)
  BY DEF RecordsFrom
<1>1. ASSUME NEW k \in S, k <= g, \A j \in S : k < j /\ j <= g => j \in Q
      PROVE  k \in Q
  <2>0. k \in Nat
    BY <1>0
  <2>1. CASE k = g
    <3>1. Piece(k) \in Bytes /\ Len(Piece(k)) = g - k
      BY <1>0, <2>0, <1>1, PieceType
    <3>2. Piece(k) = <<>>
      <4>. HIDE DEF Piece
      <4>. QED BY <1>0, <2>1, <3>1, LengthOfEmpty
    <3>3. CopyEveryClientPayload[<<>>] = <<>>
      BY CopyEveryClientPayloadIs, EmptyIsBytes
    <3>. QED BY <2>0, <3>2, <3>3, EmptyContent DEF Carries
  <2>2. CASE k # g
    <3>. DEFINE p == Piece(k)
                n == RecordLength(p)
                q == Drop(p, n)
                b == CopyEveryClientPayload[q]
    <3>1. k < g
      BY <1>0, <1>1, <2>0, <2>2
    <3>2. /\ p \in Bytes /\ HasRecord(p) /\ InOrder(p) /\ p # <<>>
          /\ ~(GetTLSRecordPayloadSize(p) > Len(p))
          /\ \A i \in 1 .. RecordHeader : i \notin ContentPlaces(p)
          /\ k + n \in S /\ k + n <= g /\ k < k + n
          /\ q = Piece(k + n)
      <4>1. StartsWithRecord(d, S, g, k, p)
        BY <3>1, RecordOfPiece
      <4>. HIDE DEF p
      <4>. QED BY <3>1, <4>1 DEF StartsWithRecord
    <3>3. Carries(b, q)
      BY <1>1, <3>2
    <3>4. q \in Bytes /\ b \in Bytes /\ n <= Len(p)
      BY <3>2, RecordLengthType, DropType, CopyEveryClientPayloadIs DEF HasRecord
    <3>. HIDE DEF p, b
    <3>5. Carries(Copy(p, RecordHeader + 1, GetTLSRecordPayloadSize(p)) \o b, p)
      BY <3>2, <3>3, <3>4, PayloadContent
    <3>6. CopyEveryClientPayload[p] = Copy(p, RecordHeader + 1, GetTLSRecordPayloadSize(p)) \o b
      BY <3>2, CopyEveryClientPayloadIs DEF b
    <3>7. Carries(CopyEveryClientPayload[p], p)
      BY <3>5, <3>6
    <3>. QED BY <2>0, <3>7 DEF p
  <2>. QED BY <2>1, <2>2
<1>2. k0 \in Q
  <2>. HIDE DEF Q
  <2>. QED BY <1>0, <1>1, BackwardInduction
<1>. QED BY <1>2

\* The content of d is copied, and nothing else is to be done with it.
AllCopied(c, d) ==
  /\ Carries(c.data, d)
  /\ c.ccs = <<>> /\ c.other = <<>> /\ c.missing = 0 /\ c.wraps = FALSE

\* What is copied of such a piece of a server without a ChangeCipherSpec record has its
\* content.
LEMMA ServerPayloadContent ==
  ASSUME NEW d, NEW S, NEW g, RecordsFrom(d, S, g), NEW k0 \in S, k0 <= g,
         \A k \in S : k < g => d[k + 1].val # ChangeCipherSpec
  PROVE  AllCopied(CopyEveryServerPayload[SubSeq(d, k0 + 1, g)], SubSeq(d, k0 + 1, g))
<1>. DEFINE Piece(k) == SubSeq(d, k + 1, g)
            Q == {k \in Nat : AllCopied(CopyEveryServerPayload[Piece(k)], Piece(k))}
<1>0. d \in Bytes /\ S \subseteq Nat /\ g \in Nat /\ g <= Len(d)
  BY DEF RecordsFrom
<1>1. ASSUME NEW k \in S, k <= g, \A j \in S : k < j /\ j <= g => j \in Q
      PROVE  k \in Q
  <2>0. k \in Nat
    BY <1>0
  <2>1. CASE k = g
    <3>1. Piece(k) \in Bytes /\ Len(Piece(k)) = g - k
      BY <1>0, <2>0, <1>1, PieceType
    <3>2. Piece(k) = <<>>
      <4>. HIDE DEF Piece
      <4>. QED BY <1>0, <2>1, <3>1, LengthOfEmpty
    <3>3. CopyEveryServerPayload[<<>>] = Nothing
      BY CopyEveryServerPayloadIs, EmptyIsBytes
    <3>4. AllCopied(Nothing, <<>>)
      BY EmptyContent DEF AllCopied, Carries, Nothing
    <3>. QED BY <2>0, <3>2, <3>3, <3>4
  <2>2. CASE k # g
    <3>. DEFINE p == Piece(k)
                n == RecordLength(p)
                q == Drop(p, n)
                tail == CopyEveryServerPayload[q]
                c == Copy(p, RecordHeader + 1, GetTLSRecordPayloadSize(p))
    <3>1. k < g
      BY <1>0, <1>1, <2>0, <2>2
    <3>2. /\ p \in Bytes /\ HasRecord(p) /\ InOrder(p) /\ p # <<>> /\ p[1].val # ChangeCipherSpec
          /\ ~(GetTLSRecordPayloadSize(p) > Len(p))
          /\ \A i \in 1 .. RecordHeader : i \notin ContentPlaces(p)
          /\ k + n \in S /\ k + n <= g /\ k < k + n
          /\ q = Piece(k + n)
      <4>1. StartsWithRecord(d, S, g, k, p)
        BY <3>1, RecordOfPiece
      <4>. HIDE DEF p
      <4>. QED BY <3>1, <4>1 DEF StartsWithRecord
    <3>3. AllCopied(tail, q)
      BY <1>1, <3>2
    <3>4. q \in Bytes /\ tail \in ServerPayload /\ n <= Len(p)
      BY <3>2, RecordLengthType, DropType, CopyEveryServerPayloadIs DEF HasRecord
    <3>. HIDE DEF p, tail
    <3>5. Carries(c \o tail.data, p)
      BY <3>2, <3>3, <3>4, PayloadContent DEF AllCopied, ServerPayload
    <3>6. CopyEveryServerPayload[p] = WithPayload(c, tail)
      BY <3>2, CopyEveryServerPayloadIs DEF tail
    <3>. HIDE DEF c, q
    <3>7. /\ WithPayload(c, tail).data = c \o tail.data /\ WithPayload(c, tail).ccs = tail.ccs
          /\ WithPayload(c, tail).other = tail.other /\ WithPayload(c, tail).missing = tail.missing
          /\ WithPayload(c, tail).wraps = tail.wraps
      BY <3>4 DEF WithPayload, ServerPayload
    <3>8. AllCopied(CopyEveryServerPayload[p], p)
      BY <3>3, <3>5, <3>6, <3>7 DEF AllCopied
    <3>. QED BY <2>0, <3>8 DEF p
  <2>. QED BY <2>1, <2>2
<1>2. k0 \in Q
  <2>. HIDE DEF Q
  <2>. QED BY <1>0, <1>1, BackwardInduction
<1>. QED BY <1>2

\* No bytes in front of others, and none dropped.
LEMMA EmptyInFront ==
  ASSUME NEW d \in Bytes
  PROVE  <<>> \o d = d /\ d \o <<>> = d /\ Drop(d, 0) = d
<1>1. <<>> \o d \in Bytes /\ Len(<<>> \o d) = Len(d) /\ \A i \in 1 .. Len(d) : (<<>> \o d)[i] = d[i]
  <2>. DEFINE c == <<>>
              x == c \o d
  <2>1. c \in Bytes /\ Len(c) = 0
    BY EmptyIsBytes, LengthOfEmpty
  <2>. HIDE DEF c
  <2>2. /\ x \in Bytes /\ Len(d) \in Nat /\ Len(x) = Len(c) + Len(d)
        /\ \A i \in 1 .. Len(d) : x[Len(c) + i] = d[i]
    BY <2>1, JoinType
  <2>. HIDE DEF x
  <2>3. Len(x) = Len(d) /\ \A i \in 1 .. Len(d) : x[i] = d[i]
    BY <2>1, <2>2
  <2>. QED BY <2>2, <2>3 DEF x, c
<1>2. d \o <<>> \in Bytes /\ Len(d \o <<>>) = Len(d) /\ \A i \in 1 .. Len(d) : (d \o <<>>)[i] = d[i]
  <2>. DEFINE c == <<>>
              x == d \o c
  <2>1. c \in Bytes /\ Len(c) = 0
    BY EmptyIsBytes, LengthOfEmpty
  <2>. HIDE DEF c
  <2>2. /\ x \in Bytes /\ Len(d) \in Nat /\ Len(x) = Len(d) + Len(c)
        /\ \A i \in 1 .. Len(d) : x[i] = d[i]
    BY <2>1, JoinType
  <2>. HIDE DEF x
  <2>3. Len(x) = Len(d)
    BY <2>1, <2>2
  <2>. QED BY <2>2, <2>3 DEF x, c
<1>3. Drop(d, 0) \in Bytes /\ Len(Drop(d, 0)) = Len(d) /\ \A i \in 1 .. Len(d) : Drop(d, 0)[i] = d[i]
  <2>1. /\ Drop(d, 0) \in Bytes /\ Len(d) \in Nat
        /\ Len(Drop(d, 0)) = IF 0 <= Len(d) THEN Len(d) - 0 ELSE 0
        /\ \A i \in 1 .. Len(Drop(d, 0)) : Drop(d, 0)[i] = d[0 + i]
    BY DropType, LengthType
  <2>. QED BY <2>1
<1>. QED BY <1>1, <1>2, <1>3, SameBytes
=============================================================================
