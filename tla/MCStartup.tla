------------------------------ MODULE MCStartup ------------------------------
(* Argument vectors for TLC: up to three options, in every order. *)
EXTENDS Startup

ModeArg(m) == [option |-> "mode", text |-> m, number |-> 0]
PortArg(n) == [option |-> "port", text |-> "a number", number |-> n]
OutputArg(p, n) == [option |-> "output", text |-> p, number |-> n]

Args ==
  { ModeArg(m) : m \in {"default", "capture", "replay", "invalidmode"} }
    \cup { PortArg(n) : n \in {1080, 443, 70000} }
    \cup { OutputArg("meme.pcap", 0), OutputArg("8080.pcap", 8080), OutputArg("missing/x", 0) }

UpToThree == UNION { [1 .. n -> Args] : n \in 0 .. 3 }
Bad == {"", "missing/x"}
=============================================================================
