----------------------------- MODULE ByteStreams -----------------------------
(***************************************************************************)
(* A ByteStream as the sequence of its used bytes: Insert appends, Clear   *)
(* leaves the empty sequence.  A byte keeps its origin.                    *)
(***************************************************************************)
EXTENDS Integers, Sequences

\* val is what the parsers see; "client" and "server" bytes are payload, numbered
\* by their place in what that peer sends; record headers and SOCKS5 messages have
\* no number, because the proxy writes its own; "junk" is memory behind the used
\* bytes of a buffer.
Origin == {"client", "server", "header", "socks", "junk"}
Byte == [val : Nat, from : Origin, at : Nat]
Bytes == Seq(Byte)

Junk == [val |-> 0, from |-> "junk", at |-> 0]

\* Erase of the first n bytes.
Drop(d, n) == SubSeq(d, n + 1, Len(d))

\* n bytes from place i on, whether the buffer has them or not.
Copy(d, i, n) == [k \in 1 .. n |-> IF i + k - 1 <= Len(d) THEN d[i + k - 1] ELSE Junk]

\* The bytes with a number, and junk where such bytes should be: their places, their set
\* and their sequence.
ContentPlaces(d) == {i \in DOMAIN d : d[i].from \in {"client", "server", "junk"}}
ContentOf(d) == {d[i] : i \in ContentPlaces(d)}
Content(d) == SelectSeq(d, LAMBDA b : b.from \in {"client", "server", "junk"})

\* They come in the order they were sent in, and none comes twice.
InOrder(d) == \A i, j \in ContentPlaces(d) : i < j => d[i].at < d[j].at
=============================================================================
