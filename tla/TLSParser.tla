------------------------------ MODULE TLSParser ------------------------------
(***************************************************************************)
(* The TLS parser of the proxy as operators on byte sequences: cutting     *)
(* whole records off a buffer, collecting the payload of handshake records *)
(* and re-framing every complete handshake message in a record of its own. *)
(* Header sizes are parameters: the first byte of a header is the type and *)
(* its last byte the length of what follows, so that every header can be   *)
(* cut anywhere.                                                           *)
(***************************************************************************)
EXTENDS ByteStreams

CONSTANTS
  RecordHeader,    \* HeaderSize::TLS_RECORD
  MessageHeader,   \* HeaderSize::TLS_MESSAGE
  SizeModulus      \* the 16 bits of a record's length

ASSUME HeaderAssumption == RecordHeader \in Nat \ {0, 1} /\ MessageHeader \in Nat \ {0, 1}
ASSUME ModulusAssumption == SizeModulus \in Nat \ {0}

\* ContentType and HandshakeMessageType.
ChangeCipherSpec == 20
Handshake == 22
ApplicationData == 23
ClientHello == 1

Header(v) == [val |-> v, from |-> "header", at |-> 0]

\* For the mutation runs: the largest length does not fit.
NarrowedBelow(n) == n % (SizeModulus - 1)
\* static_cast<uint16_t>: a handshake message's length has 24 bits.
Narrowed(n) == n % SizeModulus

RecordBytes(type, payload) ==
  <<Header(type)>> \o [i \in 1 .. RecordHeader - 2 |-> Header(0)]
    \o <<Header(Narrowed(Len(payload)))>> \o payload

\* GetTLSRecordPayloadSize: 0 while the header is incomplete.
GetTLSRecordPayloadSize(d) == IF Len(d) < RecordHeader THEN 0 ELSE d[RecordHeader].val

\* GetTLSMessageSize: whatever it reads of an incomplete header, the message is
\* longer than what there is.
GetTLSMessageSize(d) == IF Len(d) < MessageHeader THEN 0 ELSE d[MessageHeader].val

-----------------------------------------------------------------------------
(* TLSDefault: the records that are complete. *)

\* How many bytes at the head of d are complete records that are not empty.
ValidLength[d \in Bytes] ==
  LET payload == GetTLSRecordPayloadSize(d)
      n == payload + RecordHeader
  IN IF payload = 0 \/ n > Len(d) THEN 0 ELSE n + ValidLength[Drop(d, n)]

\* For the mutation runs: what is extracted stays; what is incomplete is sent at
\* once.
KeepsAll(d) == [valid |-> SubSeq(d, 1, ValidLength[d]), rest |-> d]
WaitsForNothing(d) == [valid |-> d, rest |-> <<>>]

\* What is not a complete record stays, an empty record and all behind it too.
ExtractAllValidRecords(d) ==
  LET n == ValidLength[d] IN [valid |-> SubSeq(d, 1, n), rest |-> Drop(d, n)]

-----------------------------------------------------------------------------
(* The hello flows: the payload of records, then messages. *)

\* CopyEveryRecordPayloadToMessageBuffer for a client.  The test compares the
\* payload size with what is left, header included: when the record lacks no
\* more than a header's length, bytes that are not there are copied.
CopyEveryClientPayload[d \in Bytes] ==
  LET payload == GetTLSRecordPayloadSize(d) IN
  IF d = <<>> THEN <<>>
  ELSE IF payload > Len(d) THEN Drop(d, RecordHeader)
  ELSE Copy(d, RecordHeader + 1, payload)
         \o CopyEveryClientPayload[Drop(d, RecordHeader + payload)]

\* What a server's records bring: handshake payload, the ChangeCipherSpec record, what
\* is set aside behind it, how many bytes a cut record still lacks, and whether a
\* length wraps around.
Nothing == [data |-> <<>>, ccs |-> <<>>, other |-> <<>>, missing |-> 0, wraps |-> FALSE]

\* For the mutation runs: one byte more than the record has.
TwoByteMessage == RecordHeader + 2
\* HeaderSize::TLS_RECORD + CHANGE_CHIPERSPEC_MESSAGE_SIZE.
ChangeCipherSpecSize == RecordHeader + 1

\* A ChangeCipherSpec record that is cut makes the length of what follows it wrap
\* around, and the copy of 2^32 bytes ends the process.
CopyChangeCipherSpec(d) ==
  LET n == ChangeCipherSpecSize
  IN [Nothing EXCEPT !.ccs = Copy(d, 1, n), !.other = Drop(d, n), !.wraps = Len(d) < n]

\* The payload of a record that is cut, and what it lacks.
CopyCutRecord(d, payload) ==
  [Nothing EXCEPT !.data = Drop(d, RecordHeader),
                  !.missing = payload - (Len(d) - RecordHeader)]

\* What the records behind the first bring, with its payload in front.
WithPayload(p, tail) == [tail EXCEPT !.data = p \o @]

\* The same for a server, up to a ChangeCipherSpec record: what follows it is set
\* aside.
CopyEveryServerPayload[d \in Bytes] ==
  LET payload == GetTLSRecordPayloadSize(d) IN
  IF d = <<>> THEN Nothing
  ELSE IF d[1].val = ChangeCipherSpec THEN CopyChangeCipherSpec(d)
  ELSE IF payload > Len(d) THEN CopyCutRecord(d, payload)
  ELSE WithPayload(Copy(d, RecordHeader + 1, payload),
                   CopyEveryServerPayload[Drop(d, RecordHeader + payload)])

\* The record that is generated for a message, in front of those of the next ones.
WithRecord(message, tail) ==
  [tail EXCEPT !.records = RecordBytes(Handshake, message) \o @]

\* ProcessEveryFullMessagAndGenerateRecords: a record per complete message.
ProcessEveryFullMessage[d \in Bytes] ==
  LET n == MessageHeader + GetTLSMessageSize(d) IN
  IF d = <<>> \/ n > Len(d) THEN [records |-> <<>>, rest |-> d]
  ELSE WithRecord(SubSeq(d, 1, n), ProcessEveryFullMessage[Drop(d, n)])

\* A record can tell the length of every complete message in d.
MessagesFit[d \in Bytes] ==
  LET n == MessageHeader + GetTLSMessageSize(d)
  IN d = <<>> \/ n > Len(d) \/ (n < SizeModulus /\ MessagesFit[Drop(d, n)])

IsClientHelloMessage(d) ==
  /\ Len(d) > RecordHeader
  /\ d[1].val = Handshake /\ d[RecordHeader + 1].val = ClientHello
=============================================================================
