---------------------------- MODULE StartupProofs ----------------------------
(***************************************************************************)
(* What a process that serves was told, for argument vectors of any length, *)
(* any paths that cannot be opened and any failing step of the prologue.    *)
(***************************************************************************)
EXTENDS Startup, TLAPS

Kinds == SUBSET {"mode", "port", "output"}

\* Among the first n options, i is the last one of these kinds.
IsLast(i, K, n) ==
  /\ i \in 1 .. n /\ argv[i].option \in K
  /\ \A j \in 1 .. n : argv[j].option \in K => j <= i

Taken == next - 1

\* The options that were taken have a last one of each kind that occurs.
LastExists ==
  \A K \in Kinds : (\E i \in 1 .. Taken : argv[i].option \in K) => \E i \in 1 .. Taken : IsLast(i, K, Taken)

\* The fields hold what the last option said.
FieldsFollow ==
  /\ \A i \in 1 .. Taken : IsLast(i, {"port", "output"}, Taken) /\ phase # "exited" => port = argv[i].number
  /\ \A i \in 1 .. Taken : IsLast(i, {"output"}, Taken) /\ phase # "exited" => output = argv[i].text
  /\ \A i \in 1 .. Taken : IsLast(i, {"mode"}, Taken) /\ phase # "exited" => mode = argv[i].text
  /\ (\A i \in 1 .. Taken : argv[i].option # "output") => output = NoPath
  /\ phase # "exited" =>
       \A i \in 1 .. Taken : argv[i].option = "mode" => argv[i].text \in ModeText

\* How far the process is and what it has by then.
Progress ==
  /\ argv \in Seq(Argument)
  /\ next \in 1 .. Len(argv) + 1
  /\ phase \in {"options", "prologue", "serving", "exited"}
  /\ phase = "options" => manager = None /\ pcapfile = None
  /\ phase \in {"prologue", "serving"} =>
       /\ next = Len(argv) + 1
       /\ \/ manager = "SocketConnectionManager" /\ pcapfile = None /\ mode = "default"
          \/ /\ manager = "SocketCapturingConnectionManager" /\ mode = "capture"
             /\ pcapfile = output /\ output \notin Unopenable
  /\ phase = "serving" => listening = port % PortRange

StInv == LastExists /\ FieldsFollow /\ Progress

LEMMA InitStInv == Init => StInv
<1>. SUFFICES ASSUME Init PROVE StInv
  OBVIOUS
<1>1. /\ argv \in Argv /\ next = 1 /\ output = NoPath /\ phase = "options"
      /\ manager = None /\ pcapfile = None
  BY DEF Init
<1>2. argv \in Seq(Argument)
  BY <1>1, ArgvAssumption
<1>3. \A i \in 1 .. Taken : FALSE
  BY <1>1 DEF Taken
<1>4. LastExists
  BY <1>3 DEF LastExists
<1>5. FieldsFollow
  BY <1>1, <1>3 DEF FieldsFollow
<1>6. Progress
  BY <1>1, <1>2 DEF Progress
<1>. QED BY <1>4, <1>5, <1>6 DEF StInv

\* One more option: it is the last of its kinds, and the others keep theirs.
LEMMA OneMore ==
  ASSUME StInv, CommandLineOption
  PROVE  /\ next \in 1 .. Len(argv) /\ Taken = next - 1 /\ Taken' = next
         /\ argv[next] \in Argument
         /\ \A K \in Kinds :
              /\ argv[next].option \in K => \A i \in 1 .. next : IsLast(i, K, next) <=> i = next
              /\ argv[next].option \notin K =>
                   \A i \in 1 .. next : IsLast(i, K, next) <=> i \in 1 .. Taken /\ IsLast(i, K, Taken)
<1>1. /\ next \in 1 .. Len(argv) /\ Taken = next - 1 /\ Taken' = next
      /\ argv[next] \in Argument
  BY DEF StInv, Progress, CommandLineOption, Taken
<1>2. ASSUME NEW K \in Kinds, argv[next].option \in K, NEW i \in 1 .. next
      PROVE  IsLast(i, K, next) <=> i = next
  BY <1>1, <1>2 DEF IsLast
<1>3. ASSUME NEW K \in Kinds, argv[next].option \notin K, NEW i \in 1 .. next
      PROVE  IsLast(i, K, next) <=> i \in 1 .. Taken /\ IsLast(i, K, Taken)
  BY <1>1, <1>3 DEF IsLast
<1>. QED BY <1>1, <1>2, <1>3

LEMMA OptionPreserves ==
  ASSUME StInv, CommandLineOption
  PROVE  StInv'
<1>. DEFINE a == argv[next]
<1>1. /\ next \in 1 .. Len(argv) /\ Taken = next - 1 /\ Taken' = next
      /\ a \in Argument
      /\ \A K \in Kinds :
           /\ a.option \in K => \A i \in 1 .. next : IsLast(i, K, next) <=> i = next
           /\ a.option \notin K =>
                \A i \in 1 .. next : IsLast(i, K, next) <=> i \in 1 .. Taken /\ IsLast(i, K, Taken)
  BY OneMore
<1>2. /\ phase = "options" /\ next' = next + 1 /\ UNCHANGED <<argv, manager, pcapfile, listening>>
      /\ phase' \in {phase, "exited"}
  BY DEF CommandLineOption, ModeOption, PortOption, OutputOption, Exit
<1>3. \A i, K : IsLast(i, K, Taken)' <=> IsLast(i, K, next)
  BY <1>1, <1>2 DEF IsLast
<1>. HIDE DEF a
<1>4. LastExists'
  <2>. SUFFICES ASSUME NEW K \in Kinds, NEW k \in 1 .. next, argv[k].option \in K
                PROVE  \E i \in 1 .. next : IsLast(i, K, next)
    BY <1>1, <1>2, <1>3 DEF LastExists, a
  <2>1. CASE a.option \in K
    BY <1>1, <2>1
  <2>2. CASE a.option \notin K
    <3>1. k \in 1 .. Taken
      BY <1>1, <2>2 DEF a
    <3>2. PICK i \in 1 .. Taken : IsLast(i, K, Taken)
      BY <3>1 DEF StInv, LastExists
    <3>. QED BY <1>1, <2>2, <3>2
  <2>. QED BY <2>1, <2>2
<1>5. Progress'
  BY <1>1, <1>2 DEF StInv, Progress
<1>6. \A i \in 1 .. next : i # next => i \in 1 .. Taken
  BY <1>1
<1>7. /\ {"port", "output"} \in Kinds /\ {"output"} \in Kinds /\ {"mode"} \in Kinds
  BY DEF Kinds
<1>8. FieldsFollow /\ next \in 1 .. next
  BY <1>1 DEF StInv
<1>9. FieldsFollow' <=>
        /\ \A i \in 1 .. next : IsLast(i, {"port", "output"}, next) /\ phase' # "exited" => port' = argv[i].number
        /\ \A i \in 1 .. next : IsLast(i, {"output"}, next) /\ phase' # "exited" => output' = argv[i].text
        /\ \A i \in 1 .. next : IsLast(i, {"mode"}, next) /\ phase' # "exited" => mode' = argv[i].text
        /\ (\A i \in 1 .. next : argv[i].option # "output") => output' = NoPath
        /\ phase' # "exited" =>
             \A i \in 1 .. next : argv[i].option = "mode" => argv[i].text \in ModeText
  BY <1>1, <1>2, <1>3 DEF FieldsFollow
<1>10. ASSUME a.option = "mode", ModeOption(a) PROVE FieldsFollow'
  BY <1>1, <1>2, <1>6, <1>7, <1>8, <1>9, <1>10 DEF FieldsFollow, ModeOption, Exit, options, a
<1>11. ASSUME a.option = "port", PortOption(a) PROVE FieldsFollow'
  BY <1>1, <1>2, <1>6, <1>7, <1>8, <1>9, <1>11 DEF FieldsFollow, PortOption, a
<1>12. ASSUME a.option = "output", OutputOption(a) PROVE FieldsFollow'
  BY <1>1, <1>2, <1>6, <1>7, <1>8, <1>9, <1>12 DEF FieldsFollow, OutputOption, a
<1>13. FieldsFollow'
  BY <1>10, <1>11, <1>12 DEF CommandLineOption, a
<1>. QED BY <1>4, <1>5, <1>13 DEF StInv

\* The steps after the options leave the fields as they are.
LEMMA LaterPreserves ==
  ASSUME StInv, InitConnectionManager \/ Prologue \/ UNCHANGED vars
  PROVE  StInv'
<1>1. /\ UNCHANGED <<argv, next, port, mode, output>>
      /\ phase' # "exited" => phase # "exited"
  BY DEF StInv, Progress, InitConnectionManager, Prologue, vars, options
<1>2. Taken' = Taken /\ \A i, K, n : IsLast(i, K, n)' <=> IsLast(i, K, n)
  BY <1>1 DEF Taken, IsLast
<1>3. LastExists'
  BY <1>1, <1>2 DEF StInv, LastExists
<1>4. FieldsFollow'
  BY <1>1, <1>2 DEF StInv, FieldsFollow
<1>5. Progress'
  <2>1. CASE InitConnectionManager
    BY <1>1, <2>1 DEF StInv, Progress, InitConnectionManager, Opens, Exit
  <2>2. CASE Prologue
    BY <1>1, <2>2 DEF StInv, Progress, Prologue, Exit
  <2>3. CASE UNCHANGED vars
    BY <2>3 DEF StInv, Progress, vars, options
  <2>. QED BY <2>1, <2>2, <2>3
<1>. QED BY <1>3, <1>4, <1>5 DEF StInv

THEOREM StartupInvariance == Spec => []StInv
<1>1. StInv /\ [Next]_vars => StInv'
  BY OptionPreserves, LaterPreserves DEF Next
<1>. QED BY InitStInv, <1>1, PTL DEF Spec

\* The last option of its kinds is the one the properties speak of.
LEMMA TheLast ==
  ASSUME NEW K \in Kinds, NEW i, next = Len(argv) + 1, argv \in Seq(Argument),
         IsLast(i, K, Taken)
  PROVE  LastOf({j \in 1 .. Len(argv) : argv[j].option \in K}) = i
<1>. DEFINE S == {j \in 1 .. Len(argv) : argv[j].option \in K}
<1>1. Taken = Len(argv)
  BY DEF Taken
<1>2. i \in S /\ i \in Nat /\ \A j \in S : j <= i
  BY <1>1 DEF IsLast
<1>3. \A k \in S : k \in Nat
  OBVIOUS
<1>4. \A k \in S : (\A j \in S : j <= k) => k = i
  BY <1>2, <1>3
<1>. HIDE DEF S
<1>5. LastOf(S) = i
  BY <1>2, <1>4 DEF LastOf
<1>. QED BY <1>5 DEF S

\* A --port that no --output follows is the port the process listens on: the fall
\* through of the output case is the only way it is overridden.
THEOREM LastPortWins == Spec => []LastPortIsServed
<1>1. StInv => LastPortIsServed
  <2>. DEFINE S == Given("port") \cup Given("output")
              K == {"port", "output"}
  <2>. SUFFICES ASSUME StInv, phase = "serving", S # {}, argv[LastOf(S)].option = "port",
                       argv[LastOf(S)].number < PortRange
                PROVE  listening = argv[LastOf(S)].number
    BY DEF LastPortIsServed
  <2>1. next = Len(argv) + 1 /\ argv \in Seq(Argument) /\ listening = port % PortRange
    BY DEF StInv, Progress
  <2>2. K \in Kinds
    BY DEF Kinds
  <2>3. S = {j \in 1 .. Len(argv) : argv[j].option \in K}
    BY DEF Given
  <2>4. PICK i \in 1 .. Taken : IsLast(i, K, Taken)
    BY <2>1, <2>2, <2>3 DEF StInv, LastExists, Taken
  <2>5. LastOf(S) = i
    BY <2>1, <2>2, <2>3, <2>4, TheLast
  <2>6. port = argv[i].number
    BY <2>4 DEF StInv, FieldsFollow
  <2>7. argv[i] \in Argument
    BY <2>1, <2>4 DEF Taken
  <2>. HIDE DEF S
  <2>8. argv[i].number \in Nat /\ argv[i].number < PortRange
    BY <2>5, <2>7 DEF Argument
  <2>9. \A n \in Nat : n < PortRange => n % PortRange = n
    BY DEF PortRange
  <2>. QED BY <2>1, <2>5, <2>6, <2>8, <2>9
<1>. QED BY <1>1, StartupInvariance, PTL

\* A capturing process serves with the last file named and a forwarding one touches none.
THEOREM CaptureWritesItsFile == Spec => []CaptureHasItsFile
<1>1. StInv => CaptureHasItsFile
  <2>. DEFINE S == Given("output")
  <2>. SUFFICES ASSUME StInv, phase = "serving"
                PROVE  CaptureHasItsFile
    BY DEF CaptureHasItsFile
  <2>1. next = Len(argv) + 1 /\ argv \in Seq(Argument)
    BY DEF StInv, Progress
  <2>2. CASE manager = "SocketConnectionManager" /\ pcapfile = None
    BY <2>2 DEF CaptureHasItsFile
  <2>3. CASE /\ manager = "SocketCapturingConnectionManager"
             /\ pcapfile = output /\ output \notin Unopenable
    <3>1. output # NoPath
      BY <2>3, UnopenableAssumption
    <3>2. PICK k \in 1 .. Taken : argv[k].option = "output"
      BY <3>1 DEF StInv, FieldsFollow
    <3>3. S = {j \in 1 .. Len(argv) : argv[j].option \in {"output"}} /\ {"output"} \in Kinds
      BY DEF Given, Kinds
    <3>4. PICK i \in 1 .. Taken : IsLast(i, {"output"}, Taken)
      BY <3>2, <3>3 DEF StInv, LastExists
    <3>5. LastOf(S) = i
      BY <2>1, <3>3, <3>4, TheLast
    <3>6. k \in S
      BY <2>1, <3>2, <3>3 DEF Taken
    <3>7. output = argv[i].text
      BY <3>4 DEF StInv, FieldsFollow
    <3>. QED BY <2>3, <3>5, <3>6, <3>7 DEF CaptureHasItsFile
  <2>. QED BY <2>2, <2>3 DEF StInv, Progress
<1>. QED BY <1>1, StartupInvariance, PTL

\* A vector with an unknown mode, or whose last mode is replay, never serves.
THEOREM ServingNeedsAMode == Spec => []NoServiceWithoutMode
<1>1. StInv => NoServiceWithoutMode
  <2>. DEFINE S == Given("mode")
  <2>. SUFFICES ASSUME StInv, phase = "serving"
                PROVE  /\ \A i \in S : argv[i].text \in ModeText
                       /\ S # {} => argv[LastOf(S)].text # "replay"
    BY DEF NoServiceWithoutMode
  <2>1. next = Len(argv) + 1 /\ argv \in Seq(Argument) /\ mode \in {"default", "capture"}
    BY DEF StInv, Progress
  <2>2. Taken = Len(argv)
    BY <2>1 DEF Taken
  <2>3. S = {j \in 1 .. Len(argv) : argv[j].option \in {"mode"}} /\ {"mode"} \in Kinds
    BY DEF Given, Kinds
  <2>4. \A i \in S : argv[i].text \in ModeText
    BY <2>2 DEF StInv, FieldsFollow, Given
  <2>5. ASSUME S # {} PROVE argv[LastOf(S)].text # "replay"
    <3>1. PICK i \in 1 .. Taken : IsLast(i, {"mode"}, Taken)
      BY <2>2, <2>3, <2>5 DEF StInv, LastExists
    <3>2. LastOf(S) = i
      BY <2>1, <2>3, <3>1, TheLast
    <3>3. mode = argv[i].text
      BY <3>1 DEF StInv, FieldsFollow
    <3>. QED BY <2>1, <3>2, <3>3
  <2>. QED BY <2>4, <2>5
<1>. QED BY <1>1, StartupInvariance, PTL
=============================================================================
