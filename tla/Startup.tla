-------------------------------- MODULE Startup --------------------------------
(***************************************************************************)
(* From argv to the epoll loop: CommandLineOptions, main, Application and  *)
(* the prologue of ProcessConnections.  An argument is an option with its  *)
(* text and the number strtol reads at the start of that text.             *)
(***************************************************************************)
EXTENDS Integers, Sequences

CONSTANTS
  Argv,       \* the argument vectors of this instance
  Leftover,   \* numbers an uninitialised m_port may hold
  Unopenable, \* paths that cannot be opened for writing; "" is one
  BootFaults  \* steps of the prologue that may fail

ModeText == {"default", "capture", "replay"}
\* What m_executionMode may hold: a mode, or some other byte it was never set to.
Mode == ModeText \cup {"unset"}

\* What one option of the command line says.
Argument == [option : {"mode", "port", "output"}, text : STRING, number : Nat]

\* m_outputFilePath before any --output.
NoPath == ""

\* The ports of the 16-bit type GetChosenPort returns.
PortRange == 65536

PrologueSteps == {"socket", "bind", "listen", "epoll_create", "epoll_ctl"}
ASSUME BootFaultsAssumption == BootFaults \subseteq PrologueSteps
ASSUME UnopenableAssumption == NoPath \in Unopenable
ASSUME LeftoverAssumption == Leftover \subseteq 0 .. PortRange
ASSUME ArgvAssumption == \A a \in Argv : a \in Seq(Argument)

VARIABLES
  argv,       \* the whole vector
  next,       \* optind: the option getopt_long returns next
  port, mode, output,    \* m_port, m_executionMode, m_outputFilePath
  phase,
  manager,    \* Application::m_connectionManager
  pcapfile,   \* the capture file that is open and holds its global header
  listening   \* the port of the listening socket; 0 is one the kernel chose

options == <<port, mode, output>>
vars == <<argv, next, options, phase, manager, pcapfile, listening>>

None == "none"
NoPort == -1

Init ==
  /\ argv \in Argv
  /\ next = 1
  /\ port \in Leftover /\ mode \in Mode /\ output = NoPath
  /\ phase = "options"
  /\ manager = None /\ pcapfile = None /\ listening = NoPort

Exit == phase' = "exited"

\* For the mutation runs: an unknown mode only warns.
ModeOptionWarns(a) ==
  /\ mode' = IF a.text \in ModeText THEN a.text ELSE mode
  /\ UNCHANGED <<phase, port, output>>

ModeOption(a) ==
  \/ /\ a.text \in ModeText
     /\ mode' = a.text
     /\ UNCHANGED <<phase, port, output>>
  \/ /\ a.text \notin ModeText
     /\ Exit
     /\ UNCHANGED options

\* For the mutation runs: a second --port is ignored.
FirstPortOnly(a) ==
  /\ port' = IF \E i \in 1 .. next - 1 : argv[i].option = "port" THEN port ELSE a.number
  /\ UNCHANGED <<phase, mode, output>>
\* Numbers stay below 2^31 here, so m_port's 32 bits hold them.
PortOption(a) ==
  /\ port' = a.number
  /\ UNCHANGED <<phase, mode, output>>

\* The case has no break: the path is read as a port as well.
OutputOption(a) ==
  /\ output' = a.text
  /\ port' = a.number
  /\ UNCHANGED <<phase, mode>>

CommandLineOption ==
  /\ phase = "options" /\ next <= Len(argv)
  /\ LET a == argv[next]
     IN \/ a.option = "mode" /\ ModeOption(a)
        \/ a.option = "port" /\ PortOption(a)
        \/ a.option = "output" /\ OutputOption(a)
  /\ next' = next + 1
  /\ UNCHANGED <<argv, manager, pcapfile, listening>>

\* For the mutation runs: the file is taken to be open.
NeverFails(path) == TRUE
\* OpenPCAPFile empties the file, or ends the process.
Opens(path) == path \notin Unopenable

InitConnectionManager ==
  /\ phase = "options" /\ next > Len(argv)
  /\ \/ /\ mode = "default"
        /\ manager' = "SocketConnectionManager"
        /\ phase' = "prologue"
        /\ UNCHANGED pcapfile
     \/ /\ mode = "capture" /\ Opens(output)
        /\ manager' = "SocketCapturingConnectionManager"
        /\ pcapfile' = output
        /\ phase' = "prologue"
     \/ /\ mode = "capture" /\ ~Opens(output)
        /\ Exit /\ UNCHANGED <<manager, pcapfile>>
     \/ /\ mode \in {"replay", "unset"}      \* NoAvailableModeChosen
        /\ Exit /\ UNCHANGED <<manager, pcapfile>>
  /\ UNCHANGED <<argv, next, options, listening>>

\* ProcessConnections up to its loop; GetChosenPort narrows to 16 bits.
Prologue ==
  /\ phase = "prologue"
  /\ \/ /\ listening' = port % PortRange
        /\ phase' = "serving"
     \/ /\ BootFaults # {}
        /\ Exit /\ UNCHANGED listening
  /\ UNCHANGED <<argv, next, options, manager, pcapfile>>

Next == CommandLineOption \/ InitConnectionManager \/ Prologue

Spec == Init /\ [][Next]_vars
FairSpec == Spec /\ WF_vars(Next)

-----------------------------------------------------------------------------
(* Properties. *)

Given(option) == {i \in 1 .. Len(argv) : argv[i].option = option}
LastOf(S) == CHOOSE i \in S : \A j \in S : j <= i

\* A --port that no --output follows is the port the process listens on, whatever
\* came before it; only numbers of 16 bits are ports.
LastPortIsServed ==
  LET S == Given("port") \cup Given("output")
      a == argv[LastOf(S)]
  IN (phase = "serving" /\ S # {} /\ a.option = "port" /\ a.number < PortRange)
       => listening = a.number

\* A capturing process that serves has a file, the last one named, and a forwarding
\* one has touched none.
CaptureHasItsFile ==
  phase = "serving" =>
    IF manager = "SocketCapturingConnectionManager"
    THEN Given("output") # {} /\ pcapfile = argv[LastOf(Given("output"))].text
    ELSE pcapfile = None

\* A vector with an unknown mode, or whose last mode is replay, never serves.
NoServiceWithoutMode ==
  phase = "serving" =>
    /\ \A i \in Given("mode") : argv[i].text \in ModeText
    /\ Given("mode") # {} => argv[LastOf(Given("mode"))].text # "replay"

-----------------------------------------------------------------------------
(* What the documents say and the code does not do. *)

\* The options may be given in the order of the usage line: mode, port, output.
UsageOrderIsServed ==
  (phase = "serving" /\ [i \in 1 .. Len(argv) |-> argv[i].option] = <<"mode", "port", "output">>)
    => listening = argv[2].number
================================================================================
