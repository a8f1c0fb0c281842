# A TLA+ model of proxytcp

proxytcp is a single-threaded SOCKS5 proxy for TLS traffic.  It accepts clients,
speaks SOCKS5 with each, connects to the server the client names, re-frames the
TLS handshake record by record, and then relays whole TLS records in both
directions.  In capture mode it also writes what it relays to a PCAP file as if
it had been seen on the wire.  This directory models the program, checks the
models with TLC and proves theorems about the event loop, the bytes of a relayed
conversation, the startup and the capture file with TLAPS.

Paths below are relative to the repository; `src/` without a prefix is the
repository's own source directory (in `PROJECT.json` it is `src/src/`).

## 1. Inventory

| Component | State | Operations | Talks to |
|---|---|---|---|
| `CommandLineOptions` | `m_port`, `m_executionMode` (both uninitialised), `m_outputFilePath` | the `getopt_long` loop; three getters | `main` |
| `Application`, `main` | the connection manager | choose the manager, run it | manager |
| `SocketConnectionManager` | epoll instance, event array of one `epoll_wait` | `EpollAdd`, `EpollRemove`, `EpollWait`, accept, dispatch, release | kernel, conversation manager, pipelines |
| `SocketConversationManager` | map from descriptor to pipeline (two entries per pipeline) | add, link, find, erase | loop, request flow |
| `ConversationPipeline` | client and server connection, flow object, payload buffer | `PerformTransaction`, init of the connections | flow |
| SOCKS5 flows | `m_connetionState` | greeting, connection request, reply | sockets, epoll, map |
| TLS flows | nothing of their own; use the payload buffer | client hello, server hello, relay | both connections |
| `BreakConnection` | nothing | returned by the relay flow to end a conversation | pipeline |
| `PayloadBuffer`, `TLSPayloadBuffer` | held bytes, `waitingForData`, `expectedBytesInTheNextPacket` | one per pipeline, shared by both directions | TLS flows |
| `Connection`, `SocketConnection` | descriptor, receive buffer | read, send, close in the destructor; relies on `errno` | kernel |
| TLS parsing | none | record and message framing, domain name | TLS flows |
| SOCKS5 parsing | none | validity of greeting and request, address | SOCKS5 flows |
| `ByteStream` | vector and used bytes | insert, erase, clear, resize | everything |
| Capture mode | PCAP file, sequence and acknowledgment numbers per conversation | records each read and send | connections, generator |
| `PCAPGenerator` | count of pipelines, default endpoints | packets, handshakes, endpoints | capture |
| PCAP files | a stream | open, write, flush, read | capture |

Behaviours that are hard, and the properties that make each component correct:

- **Batches.**  One `epoll_wait` returns many events; handling one may release
  a conversation another one belongs to, and descriptor numbers are reused at
  once.  The map, the registrations and the open descriptors must agree all the
  time (`MapCoherent`, `EpollCoherent`, `NoOrphan`), a release must stay with its
  own conversation (`ReleaseIsIsolated`), and the bookkeeping may not end the
  process by itself (`StopsForCause`).
- **Life of a conversation.**  Through all of that, each conversation goes through
  its phases once and in order and gives both descriptors back at its end
  (`RefinesLifecycle`).
- **Edges and levels.**  Clients are registered edge-triggered, servers by
  level, and each event reads at most 2048 bytes (`HandshakeInputRead`,
  `ServerDrained`, `ExchangeCompletes`).
- **`errno` as state.**  The end of a stream is recognised by a stale `errno`
  (`EndsOnlyAtEndOfStream`).
- **Non-blocking connect.**  A connect settles later, or fails, while the client
  may send at any time (`ConnectAnswered`, `ServerReady`).
- **SOCKS5 in pieces.**  Greeting, request and hello are cut, or come together;
  the flows hand their buffers on (`RequestServed`, `ExchangeCompletes`).
- **Framing.**  The network cuts a TLS stream anywhere; messages straddle
  records; a message may be longer than a record can tell (`ReadIsSentOrHeld`,
  `WholeRecords`, `RecordsDoNoHarm`, `ExchangeCompletes`).
- **A shared payload buffer.**  Both directions complete their records in it, after
  whatever the hello flows left there (`RelaysRecords`).
- **Sends that fail or fall short.**  Nothing may be doubled or reordered by the
  retry, nor misdirected (`ReadIsSentOrHeld`, `DeliveredInOrder`).
- **Invented packets.**  Capture mode numbers packets the network never carried;
  reads come in any pieces and buffers keep what was recorded before
  (`NumbersFollow`, `NothingMissing`, `ConversationsApart`).
- **Waiting on each other.**  Peers that take turns must never wait for bytes
  the proxy holds; the code does not keep that promise (`SetAsideIsProcessed`).
- **Option order.**  Members start uninitialised and a case falls through
  (`LastPortIsServed`, `CaptureHasItsFile`, `NoServiceWithoutMode`).

`PROJECT.json` lists every hazard with its line and the properties about it.

## 2. Modules

| Module | Models |
|---|---|
| `Sockets` | one non-blocking socket, `recv`, `send`, and `SocketConnection::ReadData`/`SendData` on top of them; no variables |
| `ProxyLoop` | the epoll loop, the map, the pipelines and the control of all five flows, with the kernel and the peers as the environment |
| `Lifecycle` | the abstract specification `ProxyLoop` implements: phases of conversations and the descriptors they hold |
| `MCProxyLoop` | instances of `ProxyLoop` |
| `ProxyLoopProofs` | what reads and sends return; the inductive invariant of the loop |
| `ProxyLoopTheorems` | orphans, releases, ends of conversations and of the process; the loop implements `Lifecycle` |
| `LifecycleProofs` | what `Lifecycle` alone guarantees |
| `ByteStreams` | a `ByteStream` as the sequence of its used bytes, each with its origin |
| `Socks5Parser` | validity and lengths of greetings and requests, on bytes |
| `TLSParser` | framing of records and messages as recursive functions on bytes |
| `Peers` | two peers that follow a script of flights, the network that cuts them, the connections' buffers, `send` and what it may do |
| `Socks5Flows` | greeting, request and reply on bytes; extends `Peers` |
| `TLSRelay` | the three TLS flows and the shared payload buffer; extends `Peers` |
| `Conversation` | both together: one conversation's bytes from the greeting to the last record |
| `MCConversation` | exchanges for `Conversation` |
| `TLSParserProofs` | what the recursions of `TLSParser` compute for every input, when it is made of whole records and when it has the content of the input in its order |
| `ConversationProofs` | types, whole records, the request of a polite client and the order of what is relayed, for any scripts |
| `Startup`, `MCStartup` | argv to the loop: options, choice of the manager, capture file, listening socket |
| `StartupProofs` | which port, file and mode a serving process has, for any argv |
| `Capture`, `MCCapture` | the packets capture mode writes: endpoints, handshake, numbers, FIN exchange |
| `CaptureProofs`, `CapturePacketsProofs` | every byte read is in the capture file, the numbers follow and conversations stay apart, for any reads |

Two views of a conversation.  `ProxyLoop` has many conversations, every failing
call and every interleaving, and treats what bytes say as a choice.
`Conversation` has one conversation and its bytes, and treats everything else as
settled.  Both model the same flows, whole transaction by whole transaction.

### ProxyLoop

One step of the model is one of: `epoll_wait` returning a batch, the loop
handling one event of the batch (a whole `PerformTransaction`, and for the end
of a conversation also what `FindPipelineAndPerformTransaction` does after it),
or something in the environment.  This is the granularity at which the thread
and the rest of the world really interleave: within a transaction every call is
non-blocking, and a segment that arrives in the middle of one is either seen by
its `recv` or not, which is the same as arriving before or after.

| Variable | Code |
|---|---|
| `status` | the error `ProcessConnections` returned, or "running" |
| `batch` | `events[sockfdID ..]`, unordered: `epoll_wait` promises no order |
| `pipelines` | `SocketConversationManager::pipelines` |
| `flow`, `awaiting` | `m_conversationFlow`, `m_connetionState` |
| `clientFd`, `serverFd` | descriptors of the two connections |
| `held` | bytes of a handshake wait in a buffer |
| `sock`, `epoll`, `edge`, `errno`, `backlog` | the kernel |

A descriptor is the lowest one that is free, as POSIX requires, so reuse happens
as soon as it can.  What bytes say is a choice: with bytes to parse, a flow may
find a valid message or not.  With no bytes at all it may not find one in the
SOCKS5 flows and in the ClientHello flow; in the ServerHello flow, no bytes do
count as a complete handshake, as in the code.  The order of the two
`ErasePipeline` and `EpollRemove` calls is not visible outside the step.

### Lifecycle

A conversation is new, negotiating, connecting, handshaking, relaying or over,
and holds up to two descriptors.  There is no map, no epoll, no batch and no
socket in it.  `PhaseOf` in `ProxyLoop` gives the phase a flow and its
`m_connetionState` stand for: the two hello flows are both "handshaking", and
`running` is `status = "running"`.  Each promise is one a change to the loop
could break without any single line looking wrong: a phase that is skipped or
entered twice, a descriptor taken although another conversation has it, one that
is kept after the end, a step after the process has stopped.  The process may
stop at any step that registers or unregisters something, and only at those or
by itself.

### Peers, Socks5Flows, TLSRelay and Conversation

A byte carries the value the parser reads and where it came from: the place in
the stream of one of the peers, a record header (which the proxy rewrites), a
SOCKS5 message, or memory behind the used part of a buffer.  The model therefore
knows for each byte the proxy sends whose it is.  Header lengths are constants; a
TLS header keeps its type in its first byte and the payload's length in its last,
and real header lengths (5 and 4) are used where reads are long, 2 and 2 where
every cut is explored.  The length field is one value, so that a length split
between its two bytes is not distinguished.  The 16 bits of a record's length are
`SizeModulus`: a message's length has 24 bits, and the code narrows it when it writes
the record (`Narrowed`).

The peers follow a `script`: a sequence of flights, each sent when the flights it
waits for have arrived and the client has had its SOCKS5 replies; the two streams;
and two things the network and the kernel may do:

- `cuts`: "hello" lets reads of the hello flows end at record boundaries only and
  all others anywhere; "records" holds the relay to record boundaries as well;
  "anywhere" cuts everything.  SOCKS5 messages are cut anywhere in every script.
- `sends`: "all" are taken; any may be "refused" (`EWOULDBLOCK`), after which the
  code leaves what it did to its buffers as it is; or any may be "short", of which
  the code sees nothing.

Client descriptors are edge-triggered and one event is one `recv`.  `reported` keeps
how much of the client's stream epoll has reported for good: after a full read nothing
more is reported until more arrives (`IsReported`), and the server's hello flow, which
reads the server whichever descriptor has the event, takes the client's reports without
reading it (`ReportedAfter`).  A step may always be taken; only fairness depends on it.

An action is one transaction: the read, the parsing, the sends and what becomes
of the buffers.  A transaction whose read returns nothing changes none of this.
The reply to a request needs no read: any event of either descriptor brings it.

Details of the code are kept because they decide the outcome: a greeting is
valid as soon as one of its listed methods is acceptable, and the method loop
reads behind what was received; an address that is no domain name is neither
answered nor dropped; the test of a record's size against what is left
*including* the header; the copy of a buffer that is kept (a second copy of the
same bytes); the wrap-around of a length when a ChangeCipherSpec record is cut, or
when a byte of the payload is taken for one (`crashed`); what is cleared, and what is not, when a send is refused.

### Startup

An argument is an option, its text, and the number `strtol` reads at its start.
The two uninitialised members may hold anything in `Leftover` and `Mode`.  `NoPath`
is the empty path, which cannot be opened; `PortRange` is the range of the 16-bit
type `GetChosenPort` narrows to.

### Capture

A conversation is the stage its flow is in, its count in the generator, its two
pairs of numbers (`m_clientPCAPData`, `m_serverPCAPData`), the bytes kept in
each connection's buffer and the packets written for it (`log`, the part of the
file that is about it).  A step is a read together with what the flow does with
it: it waits and keeps the buffer (in the server's hello flow perhaps without the bytes
it had been waiting for, which it has erased), or clears it and goes on.  The parser's verdict
is a choice; what each stage reads, when it replies and when it clears are the
code's.  A read that fails records nothing and is no step.  The bytes of a packet
are a range of the peer's stream, so a byte can be seen to be recorded twice: that
happens when a buffer is kept, and is why `NothingMissing` asks for every byte and
not for every byte once.  An end of stream adds no sequence number, in the code as
in the model.

## 3. Runs

All runs use `CHECK_DEADLOCK FALSE`: the process may end with an error, every
client may have been served, an exchange may be complete.

| Run | Bounds | Shows |
|---|---|---|
| `LoopSafety` | 2 clients, 4 descriptors, 1 chunk per queue, no failing call, symmetric clients | type, map, epoll, server and leak invariants; causes of a stop; release and end properties |
| `LoopFaults` | 2 clients, 3 descriptors, batches of 2, every fault | the invariants that hold whatever fails; the loop implements `Lifecycle` |
| `LoopLiveness` | 1 client, 2 descriptors, 2 chunks, resets and refusals | answers, reads and draining |
| `RelayRecords` | whole conversations: TLS 1.2 with the server's messages in three framings and with the longest message a record can tell, TLS 1.3 with flights of 3 and 5 records, uploads of 3 and 5 records, a client that sends before it is answered, full duplex; refused and short sends; `ReadSize` 36, `SizeModulus` 32 | content and order of everything relayed, whole records, and completion |
| `RelayCuts` | greetings with one to three methods, requests for a name and for an address, polite and hasty clients; server flights, short exchanges, two-way exchanges, an empty record; every cut, refused sends; payload bytes that read as types and lengths | the host connected to, counters, and what the relay sends |
| `StartupOptions` | every vector of up to three of ten options | port, file and mode served |
| `CapturePackets` | 2 conversations, 3 bytes per peer, reads of up to 2, numbers modulo 8, addresses modulo 16, ports modulo 1 | the recorded numbers, content and endpoints |
| `LoopKeepsServing`, `LoopRefusal`, `RelayHello`, `RelaySetAside`, `StartupUsage` | as above | five places where the code and its documentation disagree (section 6) |

Why the bounds suffice for what they are used for.  Two clients are enough for
one conversation's release to meet another's events or its accept; four
descriptors let both have a server, three make one of them run out.  One chunk
distinguishes an empty queue from one with data; two chunks show a read that
leaves data behind.  A batch of two of three ready descriptors shows events
left for the next call.  The third flight onwards in `RelayRecords` has several
records per read and a read per part of a record; `ReadSize` 36 is longer than
a hello and shorter than the TLS 1.3 flight, so that a flight takes one read or
several; of the two uploads one fits a read and the other does not.  `SizeModulus` 32
is one more than the longest record of `LongestMessage`, so that a length narrowed by one
too much is seen.  Hello reads end at record boundaries in `RelayRecords`, because the
handshake flows do not survive other cuts (`RelayHello`); `RelayCuts` has
them all and checks what still holds.  There the parser takes bytes of the payload for
headers, so payloads are made of bytes that matter as such (`Filling`): the types of
ChangeCipherSpec, handshake and application data, and the lengths 0 and 1.  The hello
flows do send pieces that are no records then; `RelaysRecords` is about the relay, which
inherits whatever they leave in the payload buffer.  Refusals are combined with reads of whole
records in `RelayRecords`, where nothing may be lost or doubled, and with every cut
in `RelayCuts`.  A short write takes half of what it is given: one that ends inside a
record and one that ends inside a reply both occur.  Greetings of two and three
methods let the acceptable one come after the place where a read ends.  In `CapturePackets` three bytes are enough
for one in each SOCKS message and one after them, a read of two with a kept byte
takes the server's numbers past 8, and with ports modulo 1 only the addresses, which
wrap around between the two conversations, tell them apart.

Fairness.  `FairSpec` of `ProxyLoop` is weak fairness of the loop as a whole
(the thread runs while it has events; nothing is assumed about which event of a
batch comes first, and a batch is finite) and of each connect being settled
(the kernel's timeout).  Peers owe nothing.  `FairSpec` of `Conversation` is weak
fairness of `ReadReported`, which is no more than epoll gives: a server's bytes are
read as long as there are any, because its registration is level-triggered; a client's
are read when they arrive, once, by one `recv` of `ReadSize`; the client's hello flow
reads the client on the server's events, too, of which `EPOLLOUT` keeps coming.  What a
full read leaves of the client's bytes is owed nothing until the client sends again.
Peers send their flights because the exchange is the protocol they follow.
`ExchangeCompletes` and `SetAsideIsProcessed` speak only of scripts whose sends are
taken.  `ExchangeCompletes` therefore has a second way to end: the client has sent
bytes that epoll does not report, in an exchange that has a flight longer than one read
(`OneReadEach`) or one that comes before the server's answer (`AnswerFirst`).  TLC finds
both kinds of stall if either exception is dropped.

Each property has a mutant: a named variant of one definition ("For the
mutation runs") that breaks it.

## 4. Proofs

For any finite or infinite set of clients and descriptors, any batch size, any
queue bound and any set of faults:

| Theorem | Statement |
|---|---|
| `ProxyLoopProofs!TypeCorrect` | `Spec => []TypeOK` |
| `ProxyLoopProofs!MapIsCoherent` | `Spec => []MapCoherent` |
| `ProxyLoopProofs!EpollIsCoherent` | `Spec => []EpollCoherent` |
| `ProxyLoopProofs!ServerIsReady` | `Spec => []ServerReady` |
| `ProxyLoopTheorems!NothingIsOrphaned` | `Spec => []NoOrphan` |
| `ProxyLoopTheorems!LoopStopsForCause` | `Spec => []StopsForCause` |
| `ProxyLoopTheorems!ReleasesAreIsolated` | `Spec => ReleaseIsIsolated` |
| `ProxyLoopTheorems!EndsAtEndOfStream` | `Spec => EndsOnlyAtEndOfStream` |
| `ProxyLoopTheorems!LoopRefinesLifecycle` | `Spec => RefinesLifecycle` |
| `LifecycleProofs!HoldsExclusively` | `Spec => []Exclusive` of `Lifecycle` |

For any set of scripts, any header lengths, read size and width of a record's length:

| Theorem | Statement |
|---|---|
| `ConversationProofs!TypeCorrect` | `Spec => []TypeOK` |
| `ConversationProofs!WholeRecordsDoNoHarm` | `Spec => []RecordsDoNoHarm` |
| `ConversationProofs!OnlyRecordsRelayed` | `Spec => RelaysRecords` |
| `ConversationProofs!OnlyWholeRecords` | `Spec => [](WholeMessages(script) => WholeRecords)` |
| `ConversationProofs!PoliteRequestServed` | `Spec => [](PoliteClient(script) => RequestServed)` |
| `ConversationProofs!RelayedInOrder` | `Spec => [](CutAtRecords(script) => DeliveredInOrder)` |
| `ConversationProofs!ReadIsRelayedOrHeld` | `Spec => [](CutAtRecords(script) /\ script.sends = "all" => ReadIsSentOrHeld)` |

For argument vectors of any length, any leftover values, any unopenable paths and
any failing step of the prologue:

| Theorem | Statement |
|---|---|
| `StartupProofs!LastPortWins` | `Spec => []LastPortIsServed` |
| `StartupProofs!CaptureWritesItsFile` | `Spec => []CaptureHasItsFile` |
| `StartupProofs!ServingNeedsAMode` | `Spec => []NoServiceWithoutMode` |

For any conversations, any number and size of reads and any width of the numbers:

| Theorem | Statement |
|---|---|
| `CaptureProofs!CaptureTypeCorrect` | `Spec => []TypeOK` |
| `CaptureProofs!NothingIsMissing` | `Spec => []NothingMissing` |
| `CapturePacketsProofs!NumbersAreConsistent` | `Spec => []NumbersFollow` |
| `CapturePacketsProofs!ConversationsStayApart` | `AddressesGoRound` entails `Spec => [](pipelinesCount <= IpModulus => ConversationsApart)` |
| `CapturePacketsProofs!CapturedConversationsApart` | the same for `IpModulus = 4294967296`, without the assumption |

The only assumptions are those the modules state about their constants: in
`ProxyLoop`, descriptors are naturals and the listener is not one of them, `Null`
is not a client, queues and batches hold at least one, faults are of the known
kinds; in `Startup`, an argument has an option, a text and a natural number, and
the empty path cannot be opened; in `Capture`, the moduli and bounds are positive and
sequence numbers can count to one; in the conversation, a header has a type and a
size, the modulus of lengths is positive, and a script is made of two streams of bytes, a name and flights that end
within their stream (`ScriptsAssumption`).  `HoldsExclusively` assumes that `NoFd` is
no descriptor.

**The invariant of the loop.**  None of the first four is inductive alone.
`IInv` adds three facts.  `FreshClients`: a client that is in the backlog or has
not arrived, or whose conversation is over, owns no descriptor.  Without it an
accept could hand a second pair of descriptors to an old conversation.
`RegisteredIsOpen`: epoll watches open descriptors only, so the lowest *free*
descriptor cannot be one that is still watched.  `Watched`: the registration half
of `EpollCoherent`.  The proof goes action by action; the lemmas at the
head of the module have what `ReadData` and `SendData` return, and the action lemmas
cite them.  The central
step is the release, where the two descriptors of a conversation must be shown to
belong to no other one; it follows from `MapCoherent`, since the map is a
function.

**Stops and orphans.**  `SInv` is `NoOrphan`, `StopsForCause` and
`UnmappedAfterRelease`: an event that waits and has no pipeline means that a
conversation has ended, because the event had a pipeline when `epoll_wait`
returned it.  Every step is either *tame* (it closes nothing, unmaps nothing,
maps what it opens, stops the process only for a cause) or it is a release, and
`SInv` is preserved by both kinds.  `ReleaseIsIsolated` follows from the same
split, and `EndsOnlyAtEndOfStream` from `EndedMeansDrained`, which says what a
`recv` must have seen for the stale `errno` to be read as the end.

**The refinement.**  `Orderly` adds to `IInv` that a conversation that does not
live holds nothing, and that only the request flow waits for a connect.
`StepEffect` shows that each step of the loop has one of eight effects on the
conversations (nothing, accepted, connected, and so on), with the descriptor it
takes belonging to no live conversation; `EffectMaps` shows that each effect is a
step of `Lifecycle` or a stutter.  `HoldsExclusively` is proved of `Lifecycle`
alone, so it holds of whatever implements it.

**The startup.**  `StInv` says that the fields hold what the last option of
each kind said, that kinds which occur have a last option, and how far the process
is.  One more option is the last of its kinds and leaves the others theirs
(`OneMore`); at the end `LastOf` is that last one (`TheLast`).

**The capture file.**  `CInv` adds two facts to the type.  `KeptIsRead`: a buffer
never keeps more than was read, so that a read which records the whole buffer starts
no later than where the packets before it ended.  `Recorded`: byte *b* of a peer is
in some packet from it exactly if it was read.  Packets are only appended, so what
they carry adds up (`CarriedConcat`), and acknowledgments, replies and the two
handshakes carry nothing.

`NumbersFollow` compares each packet with the last one before it from either side,
so that no sum over the file is needed.  `Good` makes it inductive: the numbers the
proxy keeps are where the last packet of each side ended (`Tip`), and what one side
sent is what the other acknowledges (`Paired`).  `OneMorePacket` is the step all
packets have in common; a read, a reply and a FIN exchange are two or three of them.

**Apart in the file.**  `AInv` says that accepted conversations have counts of
their own, below the number of pipelines, and that every packet has the two
addresses its pipeline was given.  Addresses go up by 11 from one pipeline to the
next, so two conversations fewer than `IpModulus` apart have the same pair only if a
multiple of 11 comes back to 0 too early, or if one pair is the other one the wrong
way round.  `AddressesGoRound` excludes the first by what it says and the second
because the two addresses of a pipeline differ by a fixed number whose double is not
0.  For the code's 32 bits, `AddressesOf32Bits` proves it: 11 does not divide 2^32.
After 2^32 conversations the addresses do repeat, so the bound in the theorem is the
program's own.

**Recursions over bytes.**  `ValidLength`, `CopyEveryClientPayload`,
`CopyEveryServerPayload` and `ProcessEveryFullMessage` are recursive functions, and
nothing is known of a recursive definition until a function is shown to satisfy it.
`RecursionExists` shows it once for recursions that make their argument shorter: take
the values up to a length, and extend them by one length at a time.  The least length
where something fails (`LeastNatural`, from the well-foundedness of `<`) takes the
place of an induction rule, and `BytesInduction` is the same for byte sequences, with a
set where the rule has a predicate.  `ValidLengthIs` and the lemmas like it then give
the four recursions as equations for every input.

**Whole records.**  `Whole(d)` says that `d` is made of complete records that are not
empty.  Such sequences can be joined (`WholeJoin`), and what the relay extracts is whole
whatever the input (`ExtractedIsWhole`); that is `RelaysRecords`, which needs no
hypothesis.  What the hello flows send has two other sources.  One is the records they
generate: a message of 24-bit length gets a record of 16-bit length, so these are whole
if every complete message fits (`MessagesFit`, `ReframedIsWhole`).  The other is the
ChangeCipherSpec record, which the code copies with a length of 6 without looking at its
header, and which ends the process when it is not all there.

`ServerSendsRecords(script)` takes care of the second: reads of the hello flows end
where records do, and a record of that type has one byte in it.  It says nothing of what
is in the other records, and that is what `RecordsDoNoHarm` is about: messages may be of
any length, straddle records and come in any number of reads, with sends refused in
between.  `WInv` follows the place: `HeldFrom` says that the buffer of the server holds
its stream from the start of a record, `ServerCut` that no bytes are expected.

`WholeMessages(script)` takes care of the first: wherever a read of the hello flows ends,
the client's bytes are a complete ClientHello, the server's records up to a
ChangeCipherSpec record hold no part of a message, and no message is longer than a
record can tell.  The hypothesis is about the handshake alone.  `HelloInv` says that until
the server's answer has been relayed the two buffers hold the streams from the first
record on and the payload buffer nothing, so that what the flows parse is what the
hypothesis is about; `SentWhole` is the property itself, in terms of `Whole`.  The
hypothesis is needed: a hello of the client that is cut is copied twice, and so is a
record of the server that brings only part of a message, after which what is taken for a
message may have any length; and a message over 65531 bytes gets a record that is not
whole.  A record that ends one message and begins the next is handled well
(`Straddling`), which is only model-checked.

**The request.**  `PoliteClient(script)` says that the greeting ends somewhere, the
request behind it, and that the client waits: it sends no byte of the request before a
reply, and no byte of its hello before the whole reply to the request.  A greeting may
be answered before its end, so it also asks that no byte in the place of an address
type in the rest of the greeting reads as the type of a name; otherwise that rest and
the request are one valid request for another name.  The client's messages are cut
anywhere.  `SocksInv` says what the buffer of the client holds in each phase:
`HoldsGreeting`, then `HoldsRequest` from some byte on, which is the request from its
first to its last byte once a name is known.  What a client sends ahead may be taken
for a request if its bytes happen to read as one, so some such hypothesis is needed;
TLC checks `RequestServed` with hasty clients whose bytes do not.

**In order.**  `CutAtRecords(script)` says which exchanges the theorems about the order
are for.  The client is polite; from their start on, the streams are records that are not
empty, and a read may end where one does; and the handshake fits its records: up to the
end of the ClientHello and of the server's answer, what is between two places where reads
may end is whole messages, with no ChangeCipherSpec record where a read may start.
Neither peer sends more before the server's answer has got through.  None of this is there
to ease the proof.  A cut inside a record of the handshake makes the client flow copy
its input twice; what comes with a ChangeCipherSpec record is set aside and held back;
a cut in application data leaves part of a record in the payload buffer both directions
share.  In each of these cases the order is either lost, which section 6 lists, or depends
on the peers taking turns.  Everything else is left free: the SOCKS5 messages are cut
anywhere, a read takes any number of records, both peers send application data at once,
and sends may be refused or taken in part.

Order is a matter of sets here, so that sequences need not be counted along:
`InOrder(d)` says that the content of `d` has the positions it was sent from in
increasing order, `Draws(c, d)` that `c` is in order and has no content but that of `d`,
`Carries(c, d)` that it has all of it.  Both can be joined (`DrawsJoin`).  From the
equations of the recursions follow that what the hello flows generate carries what they
are given if nothing of it is left over (`ReframedContent`, `ClientPayloadContent`,
`ServerPayloadContent`), and that a piece of a stream between two ends of records is a
sequence of whole records (`PieceIsWhole`), which `TLSDefault` sends as it is.
`OrderInv` then has, for each peer, a place *k* at the end of a record (`KeepsRecords`):
the buffer holds the peer's stream from *k* to where it has been read, and the partner's
bytes are drawn from what is before *k*, or carry it when the kernel takes every send.
Its other parts say why the flows do not get in each other's way: the shared payload
buffer stays empty, no bytes are expected, and the client gets nothing before the
server's answer is complete.  When sends may be refused the buffer of one side is cleared by the
next event of the other, so *k* moves on without anything being sent; the order is kept
and bytes are lost, which is why `ReadIsRelayedOrHeld` is for sends that succeed.

The hypotheses are those of exchanges that are run.  Every script whose client is not
hasty satisfies `PoliteClient`; those of `RelayRecords` all satisfy `ServerSendsRecords`,
all but `Straddling` and `Early` also `WholeMessages`, and those with refused sends or
with both peers sending at once (`Refusals`, `Duplex`) `CutAtRecords`: TLC evaluates
`ExchangesAssumption` of `MCConversation` in each run.  `AddressesGoRound` holds of the
modulus of `CapturePackets`.

Model-checked only: liveness (`ConnectAnswered`, `HandshakeInputRead`,
`ServerDrained`, `ExchangeCompletes`, `SetAsideIsProcessed`), which is beyond the
prover; `WholeRecords` for messages that straddle records and for a client that sends
before it is answered; `DeliveredInOrder` and `ReadIsSentOrHeld` for exchanges outside `CutAtRecords`
(records set aside, relayed data that is cut anywhere while the peers take turns); and
that nothing is lost by refused sends between peers that take turns, which needs in the
invariant that at most one peer's bytes are under way.

## 5. Not modelled

- How a `ByteStream` grows: its vector, its capacity and the copies when it is
  resized.  Every `Erase` in the code is bounded by a test before it, and the
  vector's size decides nothing outside the class.
- `GetClientAuthenticationMethod`, which nothing calls, and the port and the
  numeric addresses `GetDestinationAddressAndPort` extracts, which nothing uses.
- Lengths, timestamps and layout of captured packets; a record longer than the
  16-bit length of an IPv4 header.  Reading PCAP files, which no mode does.
- Signal handlers, which only exit; output to the console.
- `epoll_wait` interrupted by a signal; `fcntl` failing on an accepted socket.
- The end of a stream in `Conversation`; `ProxyLoop` has it.

## 6. Where the code and its documentation disagree

1. *`KeepsServing`.*  An event without a pipeline ends the process.  With both
   descriptors of a conversation in one batch, which level-triggered `EPOLLOUT`
   makes the usual case when a client closes, the second event is such a one.
   The regression scripts run several downloads through one process.
2. *`RefusalNotAnswered`.*  `IsConnectionSucceed` looks for `EWOULDBLOCK` in
   `SO_ERROR`, where it never is, so a refusal is answered "Succeeded".
3. *`HelloReachesServer`.*  A ClientHello in two reads is copied twice.
4. *`SetAsideIsProcessed`.*  Records that come with ChangeCipherSpec are held
   until new data arrives.
5. *`UsageOrderIsServed`.*  `--output` falls through into `--port`.

Further behaviours were seen and have no run, since no document states
the contrary plainly:

- The SYNACK of the invented handshake has the server's address as its source
  port, and its FIN exchange has the IP addresses the other way round than the
  ports.
- The reply may be sent while the connect is still in progress.
- A server flight cut inside a record reaches the client damaged; a byte of its payload
  that reads as ChangeCipherSpec makes the proxy send a piece that is no record, or ends
  the process.
- A handshake message of more than 65531 bytes gets a record whose length is what is left
  of the message's in 16 bits.
- A flight of the client that is longer than one read of 2048 bytes waits, after a full
  read, until the client sends again: its descriptor is edge-triggered.  A client that
  sends before the server has answered its hello waits as well, since the server's hello
  flow takes the event.
- Part of a record of one peer is completed with bytes of the other when both
  send at once; and after a refused send the records that wait in one side's
  buffer are cleared by the next event of the other side.
- After a short write the rest of the data is lost.
- A greeting that is cut after its third byte is answered, and its other methods
  become the start of the request, which then never gets valid.
- The greeting is answered "no authentication" whichever acceptable method was
  offered.
- A request for an IPv4 or IPv6 address is never answered, and the port a client
  asks for is ignored: every connection goes to the port of "https".
- A client that leaves before the relay has begun is never released.

## 7. Plan

Done: `Sockets`, `ProxyLoop`, `Lifecycle` with the refinement and its proof;
the safety theorems of the loop; `TLSParser`, `Socks5Parser` and the conversation
on bytes with failing and short sends, with the theorems about its types, whole
records and when they do no harm, requests and the order of what is relayed; `Startup` and `Capture` with their theorems.  Next, in this
order:

1. `ReadIsSentOrHeld` with refused sends and `DeliveredInOrder` with relayed data that
   is cut anywhere, both for peers that take turns: `OrderInv` with the part of a record
   in the payload buffer, and with the fact that only one peer has bytes under way.
2. A refinement of `Conversation` by a pair of byte queues, for peers that take
   turns.
3. The life cycle with the reasons a conversation ends for, so that what
   `EndsOnlyAtEndOfStream` says becomes part of the abstract specification.
