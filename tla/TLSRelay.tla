------------------------------- MODULE TLSRelay -------------------------------
(***************************************************************************)
(* The three TLS flows on bytes: the two connection buffers and the one    *)
(* payload buffer both directions share.                                   *)
(***************************************************************************)
EXTENDS Peers, TLSParser

VARIABLES
  payload,    \* TLSPayloadBuffer::m_data
  waiting,    \* Optdata().waitingForData
  expected,   \* Optdata().expectedBytesInTheNextPacket
  crashed     \* the process has died in a copy

relay == <<payload, waiting, expected, crashed>>

RelayInit ==
  /\ payload = <<>>
  /\ waiting = FALSE
  /\ expected = 0
  /\ crashed = FALSE

\* GetDomainNameFromTLSPacket finds a name in an intact ClientHello; in a damaged
\* one it may or may not.
DomainNameFound(d) ==
  IF IsPrefix(Content(d), Content(Stream("client"))) THEN {TRUE} ELSE BOOLEAN

\* The proxy waits for a ClientHello.  While a message is incomplete the client's
\* buffer is kept as well as its payload; and once waitingForData is set, it is the
\* server's buffer that is taken for the rest of the hello.
TLSReceivingClientHello(chunk) ==
  /\ ~crashed /\ flow = "TLSClientHello"
  /\ Read("client", chunk)
  /\ LET received == buffer["client"] \o chunk
         p == ProcessEveryFullMessage[
                payload \o (IF waiting THEN buffer["server"]
                            ELSE CopyEveryClientPayload[received])]
         hello == IsClientHelloMessage(p.records)
     IN /\ payload' = p.rest
        /\ \/ /\ p.rest # <<>> /\ p.records = <<>>            \* WaitingForData
              /\ Keep("client", received)
              /\ NoSend
              /\ UNCHANGED <<flow, waiting>>
           \/ /\ p.rest # <<>> /\ p.records # <<>>   \* GeneratedRecordsAndWaitForData
              /\ hello
              /\ \/ Send("server", p.records) /\ BuffersCleared /\ waiting' = TRUE
                 \/ Refused /\ Keep("client", received) /\ UNCHANGED waiting
              /\ UNCHANGED flow
           \/ /\ p.rest = <<>> /\ hello /\ TRUE \in DomainNameFound(p.records)
              /\ \/ Send("server", p.records) /\ BuffersCleared /\ flow' = "TLSServerHello"
                 \/ Refused /\ Keep("client", received) /\ UNCHANGED flow
              /\ UNCHANGED waiting
           \/ /\ p.rest = <<>> /\ hello /\ FALSE \in DomainNameFound(p.records)
              /\ Keep("client", received)
              /\ NoSend
              /\ UNCHANGED <<flow, waiting>>
           \/ /\ p.rest = <<>> \/ p.records # <<>>
              /\ ~hello
              /\ BuffersCleared
              /\ NoSend
              /\ UNCHANGED <<flow, waiting>>
  /\ UNCHANGED <<script, expected, crashed>>

\* For the mutation runs: the difference the wrong way round.
MoreThanExpected(n) == n - expected
\* What is still missing of a cut record after n more bytes.
StillExpected(n) == expected - n

\* A read that is shorter than the rest of a record that was cut.
RestOfRecord(chunk) ==
  /\ ~crashed /\ flow = "TLSServerHello"
  /\ LET received == buffer["server"] \o chunk
     IN /\ waiting /\ expected > Len(received)
        /\ payload' = payload \o received
        /\ expected' = StillExpected(Len(received))
  /\ Read("server", chunk)
  /\ Keep("server", <<>>)
  /\ NoSend
  /\ UNCHANGED <<script, flow, waiting, crashed>>

\* For the mutation runs: the records behind ChangeCipherSpec are lost.
DropsOtherRecords(other) == <<>>
\* What is set aside for TLSDefault.
HeldForDefault(other) == other

\* expectedBytesInTheNextPacket is written only for a record that is cut.
ExpectedAfter(c) == IF c.missing > 0 THEN c.missing ELSE expected

\* The proxy relays handshake messages of the server until none is incomplete.
TLSReceivingServerHello(chunk) ==
  /\ ~crashed /\ flow = "TLSServerHello"
  /\ Read("server", chunk)
  /\ LET received == buffer["server"] \o chunk
         cut == IF waiting THEN expected ELSE 0
         rest == Drop(received, cut)
         c == CopyEveryServerPayload[rest]
         p == ProcessEveryFullMessage[payload \o SubSeq(received, 1, cut) \o c.data]
     IN /\ cut <= Len(received)
        /\ crashed' = c.wraps
        /\ \/ /\ c.wraps
              /\ NoSend
              /\ UNCHANGED <<flow, buffer, payload, waiting, expected>>
           \/ /\ ~c.wraps
              /\ \/ p.rest # <<>> /\ p.records = <<>>           \* WaitingForData
                 \/ Refused
              /\ Keep("server", rest)
              /\ payload' = p.rest
              /\ expected' = ExpectedAfter(c)
              /\ NoSend
              /\ UNCHANGED <<flow, waiting>>
           \/ /\ ~c.wraps /\ p.rest # <<>> /\ p.records # <<>>
              /\ Send("client", p.records \o c.ccs)   \* GeneratedRecordsAndWaitForData
              /\ BuffersCleared
              /\ payload' = p.rest
              /\ waiting' = TRUE
              /\ expected' = ExpectedAfter(c)
              /\ UNCHANGED flow
           \/ /\ ~c.wraps /\ p.rest = <<>>
              /\ Send("client", p.records \o c.ccs)
              /\ BuffersCleared
              /\ payload' = HeldForDefault(c.other)
              /\ waiting' = FALSE
              /\ expected' = ExpectedAfter(c)
              /\ flow' = "TLSDefault"
  /\ UNCHANGED script

\* Whole records of the side with the event go to the other one; the payload buffer
\* keeps what is not whole, whichever side it came from.  When the send fails, the
\* read stays in the connection's buffer and is processed again with the next one.
TLSDefault(s, chunk) ==
  /\ ~crashed /\ flow = "TLSDefault"
  /\ Read(s, chunk)
  /\ LET received == buffer[s] \o chunk
         r == ExtractAllValidRecords(payload \o received)
     IN /\ payload' = r.rest
        /\ \/ r.valid = <<>> /\ NoSend /\ BuffersCleared
           \/ r.valid # <<>> /\ Send(Other(s), r.valid) /\ BuffersCleared
           \/ r.valid # <<>> /\ Refused /\ Keep(s, received)
  /\ UNCHANGED <<script, flow, waiting, expected, crashed>>

TLSNext ==
  \/ \E chunk \in Chunks("client") : TLSReceivingClientHello(chunk)
  \/ \E chunk \in Chunks("server") : RestOfRecord(chunk) \/ TLSReceivingServerHello(chunk)
  \/ \E s \in Side : \E chunk \in Chunks(s) : TLSDefault(s, chunk)
=============================================================================
