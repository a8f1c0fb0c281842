----------------------------- MODULE Socks5Flows -----------------------------
(***************************************************************************)
(* The two SOCKS5 flows on bytes: the greeting, the connection request and *)
(* the replies to them.  Resolving a name and connecting succeed here;     *)
(* ProxyLoop has what happens when they do not.                            *)
(***************************************************************************)
EXTENDS Peers, Socks5Parser

VARIABLE host   \* the name TryConnectToTheServer got; <<>> before

Socks(v) == [val |-> v, from |-> "socks", at |-> 0]

\* ClientHelloTransmission.
ClientHelloTransmission(chunk) ==
  /\ flow = "SOCKS5ClientHello"
  /\ Read("client", chunk)
  /\ LET received == buffer["client"] \o chunk
     IN \/ /\ ~IsValidClientHelloMessage(received)
           /\ NoSend
           /\ Keep("client", received)
           /\ UNCHANGED flow
        \/ /\ IsValidClientHelloMessage(received)
           /\ \/ /\ Reply(<<Socks(Version), Socks(NoAuthentication)>>)
                 /\ Keep("client", <<>>)
                 /\ flow' = "SOCKS5ConnectionRequest"
              \/ /\ Refused
                 /\ Keep("client", received)
                 /\ UNCHANGED flow
  /\ UNCHANGED <<script, host>>

\* The name a socket is created for: only domain names are connected to.
TryConnectToTheServer(d) ==
  IF GetDestinationAddressType(d) = DomainName THEN GetDestinationAddress(d) ELSE <<>>

\* ConnectionRequestTransmission, NotConnected: whatever the client asks for that is
\* no domain name, it is told nothing.
ConnectionRequestTransmission(chunk) ==
  /\ flow = "SOCKS5ConnectionRequest" /\ host = <<>>
  /\ Read("client", chunk)
  /\ LET received == buffer["client"] \o chunk
     IN /\ Keep("client", received)
        /\ host' = IF IsValidConnectionRequestMessage(received)
                   THEN TryConnectToTheServer(received) ELSE <<>>
  /\ NoSend
  /\ UNCHANGED <<script, flow>>

\* GenerateConnectionRequestReply: the request with three bytes overwritten.
ConnectionRequestReplyOf(d) ==
  [d EXCEPT ![2] = Socks(Succeeded), ![3] = Socks(0), ![4] = Socks(DomainName)]

\* ConnectionRequestTransmission, WaitingForResponse.
ConnectionRequestReply ==
  /\ flow = "SOCKS5ConnectionRequest" /\ host # <<>>
  /\ GetConnectionRequestLength(buffer["client"]) # -1
  /\ \/ /\ Reply(ConnectionRequestReplyOf(buffer["client"]))
        /\ BuffersCleared
        /\ flow' = "TLSClientHello"
     \/ /\ Refused
        /\ UNCHANGED <<flow, buffer>>
  /\ UNCHANGED <<script, got, reported, host>>

Socks5Next ==
  \/ \E chunk \in Chunks("client") :
       ClientHelloTransmission(chunk) \/ ConnectionRequestTransmission(chunk)
  \/ ConnectionRequestReply
=============================================================================
