---------------------------- MODULE MCConversation ----------------------------
(* Exchanges for TLC, with the code's header sizes and short payloads. *)
EXTENDS Conversation

\* Bytes the parser does not look at while records are whole; when they are cut it may
\* take them for types and lengths, so they are such.
Filling(n) == [i \in 1 .. n |-> <<ChangeCipherSpec, 1, Handshake, 0, ApplicationData>>[(i % 5) + 1]]

Message(type, n) ==
  <<type>> \o [i \in 1 .. MessageHeader - 2 |-> 0] \o <<n>> \o Filling(n)
Record(type, vals) == <<type>> \o [i \in 1 .. RecordHeader - 2 |-> 3] \o <<Len(vals)>> \o vals

\* The bytes of a record with their origin; "at" grows along the peer's stream.
Flight(side, number, records, after) ==
  LET Tagged(r, k) ==
        [i \in 1 .. Len(r) |->
           IF i <= RecordHeader THEN Header(r[i])
           ELSE [val |-> r[i], from |-> side, at |-> 1000 * number + 100 * k + i]]
  IN [from |-> side, after |-> after,
      bytes |-> FlattenSeq([k \in 1 .. Len(records) |-> Tagged(records[k], k)])]

\* The SOCKS5 part: a greeting with the methods, then a request for a name of one byte
\* or for an IPv4 address.
SocksBytes(vals) == [i \in 1 .. Len(vals) |-> Socks(vals[i])]
Greeting(methods) == SocksBytes(<<Version, Len(methods)>> \o methods)
Name == <<7>>
NameRequest == SocksBytes(<<Version, 1, 0, DomainName, 1>> \o Name \o <<1, 187>>)
AddressRequest == SocksBytes(<<Version, 1, 0, IPv4, 9, 9, 9, 9, 1, 187>>)

RecordEnds[d \in Bytes, offset \in Nat] ==
  IF Len(d) < RecordHeader THEN {}
  ELSE LET n == RecordHeader + GetTLSRecordPayloadSize(d)
       IN {offset + n} \cup RecordEnds[Drop(d, n), offset + n]

\* An exchange: SOCKS5, then the flights.  A polite client waits for each reply, a
\* hasty one sends greeting, request and hello at once.
Exchange(greeting, request, polite, flights, cuts, sends) ==
  LET Wire(s, k) ==
        FlattenSeq([i \in 1 .. k |-> IF flights[i].from = s THEN flights[i].bytes ELSE <<>>])
      socks == Len(greeting) + Len(request)
      Offset(s) == IF s = "client" THEN socks ELSE 0
      Socks5Flight(end, reply) ==
        [from |-> "client", after |-> 0, reply |-> IF polite THEN reply ELSE 0,
         end |-> end, content |-> 0]
      TLSFlight(k) ==
        LET f == flights[k]
            w == Wire(f.from, k)
        IN [from |-> f.from, after |-> IF f.after = 0 THEN 0 ELSE f.after + 2,
            reply |-> IF polite THEN 2 + Len(request) ELSE 0,
            end |-> Len(w) + Offset(f.from), content |-> Len(Content(w))]
      client == Wire("client", Len(flights))
      server == Wire("server", Len(flights))
  IN [client |-> greeting \o request \o client,
      server |-> server,
      host |-> SocksBytes(Name),
      flights |-> <<Socks5Flight(Len(greeting), 0), Socks5Flight(socks, 2)>>
                    \o [k \in 1 .. Len(flights) |-> TLSFlight(k)],
      ends |-> [s \in Side |-> IF s = "client" THEN RecordEnds[client, socks]
                               ELSE RecordEnds[server, 0]],
      cuts |-> cuts, sends |-> sends]

Polite(flights, cuts, sends) ==
  Exchange(Greeting(<<NoAuthentication>>), NameRequest, TRUE, flights, cuts, sends)

Hello == <<Record(Handshake, Message(ClientHello, 3))>>
CCS == Record(ChangeCipherSpec, <<1>>)
Data(n) == Record(ApplicationData, Filling(n))

\* TLS 1.2: the server's messages in one record, in one each, or one of them in two.
Certificate == Message(11, 5)
Done == Message(14, 0)
OneRecord == <<Record(Handshake, Message(2, 1) \o Certificate \o Done)>>
TwoRecords == <<Record(Handshake, Message(2, 1)), Record(Handshake, Certificate \o Done)>>
Straddling ==
  << Record(Handshake, Message(2, 1) \o SubSeq(Certificate, 1, MessageHeader + 1)),
     Record(Handshake, Drop(Certificate, MessageHeader + 1) \o Done) >>
ServerHellos == {OneRecord, TwoRecords, Straddling}

\* The longest message a record can tell the length of.
LongestMessage == <<Record(Handshake, Message(2, SizeModulus - 1 - MessageHeader))>>

Flights12(hello) ==
  << Flight("client", 1, Hello, 0),
     Flight("server", 2, hello, 1),
     Flight("client", 3, <<Record(Handshake, Message(16, 1)), CCS, Data(2)>>, 2),
     Flight("server", 4, <<CCS, Data(2)>>, 3),
     Flight("client", 5, <<Data(1), Data(3)>>, 4),
     Flight("server", 6, <<Data(2), Data(1), Data(2)>>, 5) >>

\* TLS 1.3: all that follows ServerHello is encrypted, in n records.
Flights13(n) ==
  << Flight("client", 1, Hello, 0),
     Flight("server", 2, <<Record(Handshake, Message(2, 1)), CCS>> \o [i \in 1 .. n |-> Data(2)], 1),
     Flight("client", 3, <<CCS, Data(2)>>, 2),
     Flight("server", 4, <<Data(3), Data(1), Data(2)>>, 3) >>

\* The peers' application data does not take turns.
FlightsBothWays ==
  << Flight("client", 1, Hello, 0),
     Flight("server", 2, <<Record(Handshake, Message(2, 1) \o Done)>>, 1),
     Flight("client", 3, <<Data(2)>>, 2),
     Flight("server", 4, <<Data(2)>>, 2) >>

\* The client sends n records at once.
FlightsUpload(n) ==
  << Flight("client", 1, Hello, 0),
     Flight("server", 2, OneRecord, 1),
     Flight("client", 3, [i \in 1 .. n |-> Data(6)], 2),
     Flight("server", 4, <<Data(2)>>, 3) >>

\* The client sends before its hello is answered, and again later.
FlightsEarly ==
  << Flight("client", 1, Hello, 0),
     Flight("client", 2, <<Data(2)>>, 1),
     Flight("server", 3, OneRecord, 1),
     Flight("client", 4, <<Data(1)>>, 3),
     Flight("server", 5, <<Data(2)>>, 4) >>

\* Full duplex: both send while the other does, flight after flight.
FlightsDuplex ==
  << Flight("client", 1, Hello, 0),
     Flight("server", 2, <<Record(Handshake, Message(2, 1)), Record(Handshake, Done)>>, 1),
     Flight("client", 3, <<CCS, Data(2), Data(1)>>, 2),
     Flight("server", 4, <<CCS, Data(2), Data(1)>>, 2),
     Flight("client", 5, <<Data(3), Data(1), Data(2)>>, 3),
     Flight("server", 6, <<Data(1), Data(3), Data(2)>>, 4) >>

\* An empty record among the others.
FlightsEmptyRecord ==
  << Flight("client", 1, Hello, 0),
     Flight("server", 2, <<Record(Handshake, Message(2, 1) \o Done)>>, 1),
     Flight("client", 3, <<Data(1), Data(0), Data(1)>>, 2) >>

\* Whole records reach the hello flows; TLSDefault gets any pieces.
Turns12 == { Polite(Flights12(h), "hello", "all") : h \in ServerHellos \cup {LongestMessage} }
LongFlight13 == { Polite(Flights13(n), "hello", "all") : n \in {3, 5} }   \* longer than one read
Refusals == { Polite(Flights12(h), "records", "refused") : h \in {OneRecord, TwoRecords} }
ShortWrites ==
  { Polite(Flights12(OneRecord), "hello", "short"), Polite(Flights13(3), "records", "short") }
Duplex == { Polite(FlightsDuplex, "records", sends) : sends \in {"all", "short"} }
Uploads == { Polite(FlightsUpload(n), "hello", "all") : n \in {3, 5} }   \* one is too long
Early == { Polite(SubSeq(FlightsEarly, 1, k), "hello", "all") : k \in {3, 5} }
Records == Turns12 \cup LongFlight13 \cup Refusals \cup ShortWrites \cup Duplex \cup Uploads
             \cup Early

ShortFlight13 == { Polite(Flights13(1), "hello", "all") }                 \* one read takes it
HelloOnly == { Polite(SubSeq(Flights13(1), 1, 1), "anywhere", "all") }

\* Everything is cut anywhere.
ServerFlight(hello) == SubSeq(Flights12(hello), 1, 2)
CutFlights ==
  { Polite(f, "anywhere", "all") :
      f \in {ServerFlight(h) : h \in ServerHellos}
             \cup {SubSeq(Flights13(1), 1, 3), FlightsBothWays, FlightsEmptyRecord} }
CutRefusals ==
  { Polite(f, "anywhere", "refused") :
      f \in {ServerFlight(OneRecord), ServerFlight(TwoRecords),
             FlightsBothWays, FlightsEmptyRecord} }
CutSocks ==
  { Exchange(Greeting(methods), request, polite, SubSeq(Flights13(1), 1, 1), "anywhere", sends) :
      methods \in {<<NoAuthentication>>, <<2, NoAuthentication>>, <<NoAcceptableMethod, 1, 2>>},
      request \in {NameRequest, AddressRequest}, polite \in BOOLEAN,
      sends \in {"all", "refused"} }
Cuts == CutFlights \cup CutRefusals \cup CutSocks

\* What the theorems' hypotheses are about is here: clients that are not hasty, servers
\* that send records, messages that do not straddle them, and reads that end with records.
ASSUME ExchangesAssumption ==
  /\ \A sc \in Scripts : (\E f \in Range(sc.flights) : f.reply > 0) => PoliteClient(sc)
  /\ \A sc \in Records : ServerSendsRecords(sc)
  /\ \A sc \in Records \ ({Polite(Flights12(Straddling), "hello", "all")} \cup Early) :
       WholeMessages(sc)
  /\ \A sc \in Refusals \cup Duplex : CutAtRecords(sc)
=============================================================================
