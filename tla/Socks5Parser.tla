----------------------------- MODULE Socks5Parser -----------------------------
(***************************************************************************)
(* The SOCKS5 parser as operators on byte sequences.                       *)
(***************************************************************************)
EXTENDS ByteStreams

Version == 5
NoAuthentication == 0
NoAcceptableMethod == 255
Succeeded == 0
IPv4 == 1
DomainName == 3
IPv6 == 4

\* The loop over the methods may pass the end of what was received; the vector
\* behind it holds zeros, which count as a method.
IsValidClientHelloMessage(d) ==
  /\ Len(d) >= 3
  /\ d[1].val = Version /\ d[2].val > 0
  /\ \E i \in 3 .. d[2].val + 2 : i <= Len(d) => d[i].val # NoAcceptableMethod

GetDestinationAddressType(d) == IF Len(d) >= 4 THEN d[4].val ELSE 0

\* For the mutation runs: more bytes than the request has are no obstacle.
AtLeastRequestLength(d, n) == Len(d) >= n
HasRequestLength(d, n) == Len(d) = n

\* Version, command and port are not looked at.
IsValidConnectionRequestMessage(d) ==
  LET type == GetDestinationAddressType(d)
  IN \/ type = IPv4 /\ HasRequestLength(d, 4 + 4 + 2)
     \/ type = DomainName /\ Len(d) >= 5 /\ HasRequestLength(d, 4 + d[5].val + 2 + 1)
     \/ type = IPv6 /\ HasRequestLength(d, 4 + 16 + 2)

\* The same tests once more.
GetConnectionRequestLength(d) == IF IsValidConnectionRequestMessage(d) THEN Len(d) ELSE -1

\* For the mutation runs: the offset of the length byte is taken for the name's.
NameFromLengthByte(d) == SubSeq(d, 5, 4 + d[5].val)
\* GetDestinationAddressAndPort for a domain name.
GetDestinationAddress(d) == SubSeq(d, 6, 5 + d[5].val)
=============================================================================
