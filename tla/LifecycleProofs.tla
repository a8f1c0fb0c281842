--------------------------- MODULE LifecycleProofs ---------------------------
(* The life cycle alone keeps the descriptors of conversations apart. *)
EXTENDS Lifecycle, TLAPS

LInv == TypeOK /\ Exclusive

LEMMA InitLInv ==
  ASSUME NoFd \notin Fd, Init
  PROVE  LInv
<1>1. TypeOK
  BY Zenon DEF Init, TypeOK, Phase
<1>2. \A c \in Client : phase[c] = "new" /\ clientFd[c] = NoFd /\ serverFd[c] = NoFd
  BY DEF Init
<1>. QED BY <1>1, <1>2 DEF LInv, Exclusive, Served

\* A conversation that advances with a descriptor nobody holds, or none, leaves the
\* others apart from it.
LEMMA NextLInv ==
  ASSUME NoFd \notin Fd, LInv, [Next]_vars
  PROVE  LInv'
<1>. USE DEF LInv
<1>1. ASSUME NEW c \in Client, Accept(c) PROVE LInv'
  <2>1. PICK f \in Fd \ Held : clientFd' = [clientFd EXCEPT ![c] = f]
    BY <1>1 DEF Accept
  <2>2. \A d \in Client : clientFd[d] # f /\ serverFd[d] # f
    BY DEF Held
  <2>3. /\ phase[c] = "new" /\ phase' = [phase EXCEPT ![c] = "negotiating"]
        /\ running' \in BOOLEAN /\ UNCHANGED serverFd
    BY <1>1 DEF Accept, Advance
  <2>4. TypeOK'
    BY <2>1, <2>3 DEF TypeOK, Phase
  <2>. QED BY <2>1, <2>2, <2>3, <2>4 DEF TypeOK, Exclusive, Served
<1>2. ASSUME NEW c \in Client, Connect(c) PROVE LInv'
  <2>1. PICK g \in Fd \ Held : serverFd' = [serverFd EXCEPT ![c] = g]
    BY <1>2 DEF Connect
  <2>2. \A d \in Client : clientFd[d] # g /\ serverFd[d] # g
    BY DEF Held
  <2>3. /\ phase[c] = "negotiating" /\ phase' = [phase EXCEPT ![c] = "connecting"]
        /\ UNCHANGED <<clientFd, running>>
    BY <1>2 DEF Connect, Advance
  <2>4. TypeOK'
    BY <2>1, <2>3 DEF TypeOK, Phase
  <2>. QED BY <2>1, <2>2, <2>3, <2>4 DEF TypeOK, Exclusive, Served
<1>3. ASSUME NEW c \in Client, Answer(c) \/ Relay(c) PROVE LInv'
  <2>1. /\ \/ phase[c] = "connecting" /\ phase' = [phase EXCEPT ![c] = "handshaking"]
           \/ phase[c] = "handshaking" /\ phase' = [phase EXCEPT ![c] = "relaying"]
        /\ UNCHANGED <<clientFd, serverFd, running>>
    BY <1>3 DEF Answer, Relay, Advance
  <2>2. TypeOK'
    BY <2>1 DEF TypeOK, Phase
  <2>. QED BY <2>1, <2>2 DEF TypeOK, Exclusive, Served
<1>4. ASSUME NEW c \in Client, Release(c) PROVE LInv'
  <2>1. /\ phase[c] = "relaying" /\ phase' = [phase EXCEPT ![c] = "over"]
        /\ clientFd' = [clientFd EXCEPT ![c] = NoFd]
        /\ serverFd' = [serverFd EXCEPT ![c] = NoFd]
        /\ running' \in BOOLEAN
    BY <1>4 DEF Release, Advance
  <2>2. TypeOK'
    BY <2>1 DEF TypeOK, Phase
  <2>. QED BY <2>1, <2>2 DEF TypeOK, Exclusive, Served
<1>5. CASE Stop \/ UNCHANGED vars
  BY <1>5 DEF Stop, vars, TypeOK, Exclusive
<1>. QED BY <1>1, <1>2, <1>3, <1>4, <1>5 DEF Next

\* A conversation holds a client's descriptor exactly while it lives, a server's
\* exactly while it has a server, and no descriptor is held twice.
THEOREM HoldsExclusively ==
  ASSUME NoFd \notin Fd
  PROVE  Spec => []Exclusive
<1>1. LInv => Exclusive
  BY DEF LInv
<1>2. Init => LInv
  BY InitLInv
<1>3. LInv /\ [Next]_vars => LInv'
  BY NextLInv
<1>. QED BY <1>1, <1>2, <1>3, PTL DEF Spec
=============================================================================
