----------------------------- MODULE MCConsoles -----------------------------
(***************************************************************************)
(* The consoles, one of them at a time: the terminal of the SSH program    *)
(* ("terminal", of SshTerminal), the read-evaluate-print loop of the SDK   *)
(* build ("sdk", of SdkRepl) and the one without the SDK ("bare", of       *)
(* BareRepl).  The console is chosen at the start; the variables of the    *)
(* others stay as they are then.                                           *)
(***************************************************************************)
EXTENDS SshTerminal
CONSTANTS
  SdkCols, Capacity, MaxArgs, RawKeys,        \* of SdkRepl
  LineCap, Scripts, ExitLines,                \* of BareRepl
  KBD_ADDR, KBD_REG_KEY, I2C_FIFO_SIZE,       \* of I2cKeyboard
  Outputs, Banner, TooMany, SdkPrompt, BarePrompt \* texts of both
VARIABLES machine,
  console, repl_line, entered, arguments,
  typed, port, screen, bare_line, keys, running

Csi(params, final) == <<27, 91>> \o params \o <<final>>
\* a [ LF BS HT; ESC 7, ESC 8, ESC c, ESC (B
\* ]0 BEL, ]a ESC \
MCPlain == {<<97>>, <<91>>, <<10>>, <<8>>, <<9>>, <<27, 55>>, <<27, 56>>, <<27, 99>>,
            <<27, 40, 66>>, <<27, 93, 48, 7>>, <<27, 93, 97, 27, 92>>}
\* K, 1K, J, 1J, 2J, 31m, 38;5;9m, 2B, 99B (no int holds 99), 2C, s, u, ?1h
MCControls == {Csi(<<>>, 75), Csi(<<49>>, 75), Csi(<<>>, 74), Csi(<<49>>, 74),
               Csi(<<50>>, 74), Csi(<<51, 49>>, 109), Csi(<<51, 56, 59, 53, 59, 57>>, 109),
               Csi(<<50>>, 66), Csi(<<57, 57>>, 66), Csi(<<50>>, 67), Csi(<<>>, 115),
               Csi(<<>>, 117), Csi(<<63, 49>>, 104), Csi(<<59, 59, 59, 49, 59, 49, 50>>, 72)}
\* Every parameter string of up to two bytes out of 1, 9, a separator and ?.
MCPositions == {Csi(p, 72) : p \in UNION {[1 .. n -> {49, 57, 59, 63}] : n \in 0 .. 2}}
MCTokens == MCPlain \cup MCControls \cup MCPositions
\* LF [ x ] LF
MCLogLine == <<10, 91, 120, 93, 10>>

\* The output of the solver, and texts of the programs.
MCOutputs == {<<49, 10>>, <<50, 51, 52, 53>>}
MCBanner == <<80, 10>>
MCTooMany == <<101, 10>>
MCSdkPrompt == <<62, 32>>
MCBarePrompt == <<62>>
MCExitLines == {<<113>>}

\* A key and how a script writes it: a, \b and \n, in every order; and the
\* others after one or two: \r \t \\ \q \x04 \x7F q, \xb and \x without their
\* digits, and a single \ at the end.
Typed(text, key) == [text |-> text, key |-> key]
Frequent == {Typed(<<97>>, 97), Typed(<<92, 98>>, 8), Typed(<<92, 110>>, 10)}
Escapes == {Typed(<<92, 114>>, 13), Typed(<<92, 116>>, 9), Typed(<<92, 92>>, 92),
            Typed(<<92, 113>>, 113), Typed(<<92, 120, 48, 52>>, 4),
            Typed(<<92, 120, 55, 70>>, 127), Typed(<<113>>, 113)}
Endings == {<<Typed(<<92, 120, 98>>, 11), Typed(<<92, 110>>, 10)>>,
            <<Typed(<<92, 120>>, 120), Typed(<<113>>, 113)>>, <<Typed(<<92>>, 92)>>, <<>>}
MCScripts == {<<>>} \cup [1 .. 7 -> Frequent]
             \cup {s \o e : s \in [1 .. 2 -> Frequent \cup Escapes], e \in Endings}

Sdk == INSTANCE SdkRepl WITH Cols <- SdkCols, Prompt <- SdkPrompt
Bare == INSTANCE BareRepl WITH tokens <- typed, line <- bare_line, Prompt <- BarePrompt

ASSUME ConsolesAssumption == Sdk!ReplAssumption /\ Bare!BareAssumption /\ Bare!KeyboardAssumption

sdkVars == <<console, repl_line, entered, arguments>>
bareVars == <<typed, port, screen, bare_line, keys, running>>

ConsolesInit == /\ machine \in {"terminal", "sdk", "bare"}
                /\ Init /\ Sdk!ReplInit
                /\ Bare!BareInit /\ (machine # "bare" => typed = <<>>)
ConsolesNext ==
  /\ \/ machine = "terminal" /\ Next /\ UNCHANGED <<sdkVars, bareVars>>
     \/ machine = "sdk" /\ Sdk!ReplNext /\ UNCHANGED <<vars, bareVars>>
     \/ machine = "bare" /\ Bare!BareNext /\ UNCHANGED <<vars, sdkVars>>
  /\ UNCHANGED machine
ConsolesSpec == ConsolesInit /\ [][ConsolesNext]_<<machine, vars, sdkVars, bareVars>>

\* The LCD shows the prompt and the line that the solver will get, whatever is
\* typed, erased and scrolled, with the console of the SDK build, which has a
\* buffer, and with the other, which has none; and the arguments made of the
\* line are words of it, in their order: SdkRepl, BareRepl.
LineShown == Sdk!SdkScreenIsText /\ Sdk!ArgumentsAreWords /\ Bare!BareScreenIsText

\* The keys of the script are read once and in order: BareRepl and I2cKeyboard.
KeysOfScript == Bare!KeysOfScript

\* What is entered at the prompt (platform_rp2040.c:87: "enter an expression or
\* solve options") reaches the solver, with every word of it: SdkRepl.
ArgumentsKept == Sdk!ArgumentsKept
=============================================================================
