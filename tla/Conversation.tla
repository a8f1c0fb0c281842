---------------------------- MODULE Conversation ----------------------------
(***************************************************************************)
(* The bytes of one conversation from the SOCKS5 greeting to the last      *)
(* record: the SOCKS5 flows and the TLS flows, one after the other on the  *)
(* same two connections.  Every flow hands its successor the buffers as it *)
(* leaves them.                                                            *)
(***************************************************************************)
EXTENDS TLSRelay, Socks5Flows

vars == <<connections, relay, host>>

Init == ConnectionsInit /\ RelayInit /\ host = <<>>

Next ==
  \/ Socks5Next /\ UNCHANGED relay
  \/ TLSNext /\ UNCHANGED host

Spec == Init /\ [][Next]_vars

\* What epoll reports is read sooner or later, and a request that is known is answered.
ReadReported ==
  /\ Next
  /\ \A s \in Side : got'[s] # got[s] => IsReported(s)

FairSpec == Spec /\ WF_vars(ReadReported)

-----------------------------------------------------------------------------
(* Properties. *)

\* Every variable keeps its type; the count of bytes that are still expected of a
\* cut record never gets negative.
TypeOK ==
  /\ script \in Scripts
  /\ \A s \in Side : got[s] \in 0 .. Len(Stream(s))
  /\ reported \in 0 .. Len(Stream("client"))
  /\ flow \in SOCKS5Flow \cup TLSFlow
  /\ \A s \in Side : buffer[s] \in Bytes /\ sentTo[s] \in Bytes
  /\ replies \in Bytes /\ host \in Bytes
  /\ payload \in Bytes
  /\ waiting \in BOOLEAN
  /\ expected \in Nat
  /\ crashed \in BOOLEAN

\* d without the content of other peers than s.
OnlyOf(s, d) == [i \in DOMAIN d |-> IF d[i].from = s THEN d[i] ELSE Header(0)]

\* Nothing a peer sent is lost, doubled, reordered or sent back to it: what its
\* partner got, followed by what the proxy holds, is what was read from it; also
\* when sends are refused, as long as the peers take turns and no record is cut.
\* What a short write did not take is lost.
ReadIsSentOrHeld ==
  script.sends # "short" =>
    \A s \in Side :
      LET d == sentTo[Other(s)] \o OnlyOf(s, payload) \o buffer[s]
      IN InOrder(d) /\ ContentOf(d) = ContentOf(SubSeq(Stream(s), 1, got[s]))

\* Whatever the kernel takes of each send, a peer gets nothing but its partner's
\* bytes, in their order and once each.
DeliveredInOrder ==
  \A s \in Side :
    LET d == sentTo[Other(s)] IN InOrder(d) /\ \A b \in ContentOf(d) : b.from = s

\* The server of sc sends records, those of type ChangeCipherSpec with one byte in them,
\* and what the hello flows read ends with records.
ServerSendsRecords(sc) ==
  LET d == sc.server
      ends == {0} \cup sc.ends["server"]
      next(e) == e + RecordHeader + d[e + RecordHeader].val
  IN /\ sc.cuts # "anywhere"
     /\ ends \subseteq 0 .. Len(d)
     /\ \A e \in ends : \A g \in ends :
          e < g => /\ e + RecordHeader <= g /\ next(e) <= g /\ next(e) \in ends
                   /\ d[e + 1].val = ChangeCipherSpec => d[e + RecordHeader].val = 1

\* Records that are whole when they are read never end the process, in whatever pieces
\* the messages in them come and whatever is refused in between.
RecordsDoNoHarm == ServerSendsRecords(script) => ~crashed

\* Each peer gets whole records only, so it can parse all it has at any time.
WholeRecords ==
  script.sends # "short" => \A s \in Side : ValidLength[sentTo[s]] = Len(sentTo[s])

\* What the relay sends at a time is whole records, though both directions share the
\* buffer for what is incomplete and whatever pieces the hello flows left in it.
RelaysRecords ==
  [][ flow = "TLSDefault" /\ script.sends # "short" =>
        \A s \in Side :
          LET d == Drop(sentTo'[s], Len(sentTo[s])) IN ValidLength[d] = Len(d) ]_vars

\* The client of sc sends a greeting of g bytes, a request of r bytes when it has had
\* the reply to the greeting, and TLS when it has had the reply to the request.
PoliteClientOf(sc, g, r) ==
  LET d == sc.client
      size == d[g + 5].val
  IN /\ g + r <= Len(d)
     /\ \A k \in DOMAIN sc.flights :
          LET f == sc.flights[k]
          IN f.from = "client" => /\ f.reply < 2 => f.end <= g
                                  /\ f.reply < 2 + r => f.end <= g + r
     \* The greeting may be answered before its end: no byte behind makes a request for a
     \* name of what is left of it.
     /\ \A i \in 7 .. g + 3 : d[i].val # DomainName
     /\ d[g + 4].val = DomainName => r = 7 + size /\ sc.host = SubSeq(d, g + 6, g + 5 + size)

PoliteClient(sc) ==
  \E g \in 3 .. Len(sc.client), r \in 5 .. Len(sc.client) : PoliteClientOf(sc, g, r)

\* From its start on, all that peer s of sc sends is records that are not empty, whose
\* headers are no content; ends has their ends.
SendsRecords(sc, s, start, ends) ==
  LET d == sc[s]
      next(k) == k + RecordHeader + d[k + RecordHeader].val
  IN /\ ends \subseteq 0 .. Len(d)
     /\ \A k \in ends : \A n \in ends :
          k < n => /\ k + RecordHeader < next(k) /\ next(k) <= n /\ next(k) \in ends
                   /\ \A i \in 1 .. RecordHeader : k + i \notin ContentPlaces(d)
     /\ \A i \in ContentPlaces(d) : start < i /\ d[i].from = s
     /\ InOrder(d)

\* The ClientHello of sc ends at the h-th byte of the client and what answers it at the
\* e-th one of the server: what follows waits until the client has some of that.
HellosFirst(sc, h, e) ==
  \A k \in DOMAIN sc.flights :
    LET f == sc.flights[k]
    IN \/ f.end <= IF f.from = "client" THEN h ELSE e
       \/ \E j \in (1 .. f.after) \cap DOMAIN sc.flights :
            sc.flights[j].from = "server" /\ sc.flights[j].content > 0

\* Up to there, wherever a read ends, the client's records are a ClientHello, the server's
\* records up to a ChangeCipherSpec record have no part of a message, and no message is
\* longer than a record can tell.
WholeMessagesOf(sc, g, r, h, e) ==
  /\ PoliteClientOf(sc, g, r)
  /\ ServerSendsRecords(sc)
  /\ HellosFirst(sc, h, e)
  /\ sc.ends["client"] \subseteq 0 .. Len(sc.client)
  /\ \A n \in sc.ends["client"] :
       g + r < n /\ n <= h =>
         LET d == CopyEveryClientPayload[SubSeq(sc.client, g + r + 1, n)]
             p == ProcessEveryFullMessage[d]
         IN MessagesFit[d] /\ p.rest = <<>> /\ IsClientHelloMessage(p.records)
  /\ \A n \in sc.ends["server"] :
       0 < n /\ n <= e =>
         LET d == CopyEveryServerPayload[SubSeq(sc.server, 1, n)].data
         IN MessagesFit[d] /\ ProcessEveryFullMessage[d].rest = <<>>

WholeMessages(sc) ==
  \E g \in 3 .. Len(sc.client), r \in 5 .. Len(sc.client),
     h \in sc.ends["client"], e \in sc.ends["server"] : WholeMessagesOf(sc, g, r, h, e)

\* In sc reads end where records do; records up to the end of the hellos have no part of
\* a message, and none is a ChangeCipherSpec record.
CutAtRecordsOf(sc, g, r, h, e) ==
  LET ends(s) == {IF s = "client" THEN g + r ELSE 0} \cup sc.ends[s]
  IN /\ PoliteClientOf(sc, g, r)
     /\ sc.cuts = "records"
     /\ SendsRecords(sc, "client", g + r, ends("client"))
     /\ SendsRecords(sc, "server", 0, ends("server"))
     /\ HellosFirst(sc, h, e)
     /\ \A k, n \in ends("client") :
          k < n /\ n <= h =>
            LET p == ProcessEveryFullMessage[CopyEveryClientPayload[SubSeq(sc.client, k + 1, n)]]
            IN p.rest = <<>> /\ IsClientHelloMessage(p.records)
     /\ \A k, n \in ends("server") :
          k < n /\ n <= e =>
            /\ sc.server[k + 1].val # ChangeCipherSpec
            /\ ProcessEveryFullMessage[CopyEveryServerPayload[SubSeq(sc.server, k + 1, n)].data].rest
                 = <<>>

CutAtRecords(sc) ==
  \E g \in 3 .. Len(sc.client), r \in 5 .. Len(sc.client),
     h \in sc.ends["client"], e \in sc.ends["server"] : CutAtRecordsOf(sc, g, r, h, e)

\* However greeting and request were cut into reads, the proxy connects to the name
\* the client asked for and to no other, and its reply repeats that name.
RequestServed ==
  /\ host \in {<<>>, script.host}
  /\ Len(replies) > 2 /\ script.sends # "short" =>
       SubSeq(replies, 8, 7 + Len(script.host)) = script.host

\* One read takes each flight of the client.
OneReadEach(sc) ==
  \A k \in DOMAIN sc.flights :
    LET f == sc.flights[k]
        before == {sc.flights[j].end : j \in {i \in 1 .. k - 1 : sc.flights[i].from = "client"}}
    IN f.from = "client" => f.end - Max({0} \cup before) <= ReadSize

\* The client sends nothing between its hello and what answers it.
AnswerFirst(sc) ==
  LET speaks(s) == {k \in DOMAIN sc.flights : sc.flights[k].from = s /\ sc.flights[k].content > 0}
  IN \A i, k \in speaks("client") :
       i < k => \E j \in speaks("server") : j <= sc.flights[k].after

Complete == \A s \in Side : Len(Content(sentTo[Other(s)])) = Len(Content(Stream(s)))

\* The client has sent what epoll does not report until it sends more.
Unreported == got["client"] < Arrived("client") /\ ~IsReported("client")

\* The exchange ends: each flight gets through, though each waits for others, reports
\* are not repeated and a flight of the server takes any number of reads.  What stays
\* behind is at most what a full read left of a longer flight of the client, or what
\* came when the server's hello flow took its report.
ExchangeCompletes ==
  script.sends = "all" =>
    <>[]( \/ Complete
          \/ Unreported /\ ~(OneReadEach(script) /\ AnswerFirst(script)) )

-----------------------------------------------------------------------------
(* What the documents say and the code does not do. *)

\* The server gets the ClientHello the client sent, however it was cut.
HelloReachesServer ==
  IsPrefix(Content(sentTo["server"]), Content(Stream("client")))

\* Records set aside at the end of the handshake are processed as application data.
SetAsideIsProcessed ==
  (script.sends = "all" /\ flow = "TLSDefault" /\ ValidLength[payload] > 0)
    ~> (ValidLength[payload] = 0)
=============================================================================
