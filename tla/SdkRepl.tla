------------------------------- MODULE SdkRepl -------------------------------
(***************************************************************************)
(* The read-evaluate-print loop of the solver in the SDK build: the line   *)
(* editor of src/picocalc/sdk/platform_rp2040.c on the console of          *)
(* src/picocalc/sdk/picocalc_io.c, a text buffer that is mirrored on the   *)
(* LCD and scrolls.  The solver itself is external: it writes some output. *)
(*                                                                         *)
(* Characters are their codes.  A position is a number from 1 in the       *)
(* buffer of the line, and the end of a string is a 0 in it.               *)
(***************************************************************************)
EXTENDS Integers, Sequences, SequencesExt

CONSTANTS
  Rows, Cols,   \* PICOCALC_CONSOLE_ROWS, PICOCALC_CONSOLE_COLS
  Capacity,     \* SOLVE_REPL_LINE_CAPACITY
  MaxArgs,      \* SOLVE_REPL_MAX_ARGS
  RawKeys,      \* what read_i2c_kbd and the USB terminal report
  Outputs,      \* what solve_main may write
  Banner, Prompt, TooMany \* texts

Printable == 32 .. 126
\* The texts have no carriage return but the one that repl_write sends before a
\* line feed: after one the cells behind the cursor would not be blank.
ReplAssumption ==
  /\ {Rows, Cols, Capacity, MaxArgs} \subseteq Nat \ {0}
  /\ Outputs \cup {Banner, TooMany} \subseteq Seq(0 .. 255 \ {13})
  /\ Prompt \in Seq(Printable)

VARIABLES
  console,      \* g_console with row and column, and what the LCD shows
  repl_line,    \* the first length characters of g_repl_line
  entered,      \* history, until the next key: the line entered
  arguments     \* and what solve_main was called with
replVars == <<console, repl_line, entered, arguments>>

Space == 32
BlankRow == [col \in 0 .. Cols - 1 |-> Space]
BlankCells == [row \in 0 .. Rows - 1 |-> BlankRow]

-----------------------------------------------------------------------------
(* picocalc_io.c                                                            *)

console_draw_row(s, row) == [s EXCEPT !.lcd[row] = s.cells[row]]
console_redraw(s) == [s EXCEPT !.lcd = s.cells]

\* a row further down, or all rows one up
next_row(s) ==
  IF s.row + 1 < Rows THEN [s EXCEPT !.row = @ + 1, !.col = 0]
  ELSE [s EXCEPT !.col = 0,
          !.cells = [row \in DOMAIN @ |-> IF row + 1 < Rows THEN @[row + 1] ELSE BlankRow]]
console_newline(s) ==
  IF s.row + 1 < Rows THEN next_row(s)
  ELSE console_redraw(next_row(s))

console_backspace(s) ==
  LET erase(row, col) ==
        console_draw_row([s EXCEPT !.row = row, !.col = col, !.cells[row][col] = Space], row)
  IN IF s.col > 0 THEN erase(s.row, s.col - 1)
     ELSE IF s.row > 0 THEN erase(s.row - 1, Cols - 1)
     ELSE s

console_putchar(s, ch) ==
  CASE ch = 13 -> [s EXCEPT !.col = 0]
    [] ch = 10 -> console_newline(s)
    [] ch = 8 -> console_backspace(s)
    [] ch \in 32 .. 126 ->
         LET at == IF s.col >= Cols THEN console_newline(s) ELSE s
         IN [at EXCEPT !.cells[at.row][at.col] = ch, !.lcd[at.row][at.col] = ch, !.col = @ + 1]
    [] OTHER -> s

picocalc_solve_getchar(raw) ==
  CASE raw \in 65 .. 90 -> raw + 32
    [] raw \in {8, 212} -> 8
    [] raw = 177 -> 27
    [] OTHER -> raw

-----------------------------------------------------------------------------
(* platform_rp2040.c                                                        *)

\* solve_platform_write: a line feed is sent as carriage return and line feed
repl_write(s, text) ==
  FoldLeft(LAMBDA t, ch : console_putchar(IF ch = 10 THEN console_putchar(t, 13) ELSE t, ch), s, text)

Upto(buffer, from, stops) == \* the first position of one of stops
  CHOOSE i \in from .. Len(buffer) :
    buffer[i] \in stops /\ \A j \in from .. i - 1 : buffer[j] \notin stops
AfterBlanks(buffer, from) ==
  CHOOSE i \in from .. Len(buffer) :
    buffer[i] # Space /\ \A j \in from .. i - 1 : buffer[j] = Space

\* One argument: it is moved to p.write in the buffer it is read from.
NextArgument(p) ==
  LET start == AfterBlanks(p.buffer, p.read)
      quoted == p.buffer[start] \in {34, 39}
      from == IF quoted THEN start + 1 ELSE start
      end == Upto(p.buffer, from, IF quoted THEN {0, p.buffer[start]} ELSE {0, Space})
      moved == [i \in DOMAIN p.buffer |->
                  IF i \in p.write .. p.write + (end - from) - 1
                  THEN p.buffer[from + i - p.write]
                  ELSE IF i = p.write + (end - from) THEN 0 ELSE p.buffer[i]]
  IN IF p.buffer[p.read] = 0 \/ p.buffer[start] = 0 \/ p.failed THEN p
     ELSE IF Len(p.argv) + 1 >= MaxArgs THEN [p EXCEPT !.failed = TRUE]
     ELSE [p EXCEPT !.argv = Append(@, p.write), !.buffer = moved,
                    !.read = IF quoted /\ p.buffer[end] # 0 THEN end + 1 ELSE end,
                    !.write = @ + (end - from) + 1]

\* argv without the program's name, and what it points at in the end
repl_split_args(text) ==
  LET split == FoldLeft(LAMBDA p, n : NextArgument(p),
                        [buffer |-> Append(text, 0), read |-> 1, write |-> 1,
                         argv |-> <<>>, failed |-> FALSE],
                        Append(text, 0))
      string(at) == SubSeq(split.buffer, at, Upto(split.buffer, at, {0}) - 1)
  IN [failed |-> split.failed, argv |-> [i \in DOMAIN split.argv |-> string(split.argv[i])]]

repl_run_line(s) ==
  LET split == repl_split_args(repl_line)
  IN CASE split.failed ->
            console' = repl_write(s, TooMany \o Prompt) /\ arguments' = <<>>
       [] ~split.failed /\ split.argv = <<>> ->
            console' = repl_write(s, Prompt) /\ arguments' = <<>>
       [] OTHER -> \E output \in Outputs :
            console' = repl_write(s, output \o Prompt) /\ arguments' = split.argv

ReplInit ==
  /\ console = repl_write([cells |-> BlankCells, lcd |-> BlankCells, row |-> 0, col |-> 0],
                          Banner \o Prompt)
  /\ repl_line = <<>> /\ arguments = <<>> /\ entered = <<>>

Enter(ch) ==
  /\ ch \in {10, 13}
  /\ repl_run_line(repl_write(console, <<10>>))
  /\ repl_line' = <<>> /\ entered' = <<repl_line>>

Erased == <<8, 32, 8>>
Erase(ch) ==
  /\ ch \in {8, 127}
  /\ repl_line # <<>>
  /\ repl_line' = Front(repl_line) /\ console' = repl_write(console, Erased)
  /\ entered' = <<>> /\ arguments' = <<>>

Echoed_Always(ch) == console' = repl_write(console, <<ch>>)
Echoed(ch) ==
  IF Len(repl_line) + 1 < Capacity THEN console' = repl_write(console, <<ch>>)
  ELSE UNCHANGED console
Type(ch) ==
  /\ ch \in 32 .. 126
  /\ repl_line' = IF Len(repl_line) + 1 < Capacity THEN Append(repl_line, ch) ELSE repl_line
  /\ Echoed(ch)
  /\ entered' = <<>> /\ arguments' = <<>>

ReplNext ==
  \E raw \in RawKeys :
    LET ch == picocalc_solve_getchar(raw) IN Enter(ch) \/ Erase(ch) \/ Type(ch)
ReplSpec == ReplInit /\ [][ReplNext]_replVars

-----------------------------------------------------------------------------
(* Properties                                                               *)

\* Whatever is typed, erased and scrolled, the user sees what the solver will
\* get: the LCD shows g_console, the cells before the cursor are the end of
\* prompt and line (all of it, or what has not scrolled away), and from the
\* cursor on everything is blank.  Of console_putchar and the loop of main.
SdkScreenIsText ==
  LET text == Prompt \o repl_line
      cursor == console.row * Cols + console.col
      shown == IF cursor < Len(text) THEN cursor ELSE Len(text)
      Cell(n) == console.cells[n \div Cols][n % Cols]
  IN /\ console.lcd = console.cells
     /\ \A n \in 1 .. shown : Cell(cursor - n) = text[Len(text) + 1 - n]
     /\ \A n \in cursor .. Rows * Cols - 1 : Cell(n) = Space

\* What the solver is given are words of the line as they were typed, from the
\* first one on.  (That it is given all of them is the next property.)  Of
\* repl_split_args, which moves the words inside the buffer it reads.
WordStarts(text) ==
  {i \in DOMAIN text : text[i] # Space /\ (i = 1 \/ text[i - 1] = Space)}
Words(text) ==
  LET Start(n) == CHOOSE i \in WordStarts(text) : Cardinality({j \in WordStarts(text) : j <= i}) = n
  IN [n \in 1 .. Cardinality(WordStarts(text)) |->
        SubSeq(text, Start(n), Upto(Append(text, Space), Start(n), {Space}) - 1)]
Plain(text) == \A i \in DOMAIN text : text[i] \notin {34, 39}
ArgumentsAreWords ==
  \A text \in ToSet(entered) :
    Plain(text) => IsPrefix(arguments, Words(text))

\* Every word of the line is an argument (platform_rp2040.c:87 tells the user
\* to "enter an expression or solve options", and these are several words).
ArgumentsKept ==
  \A text \in ToSet(entered) :
    Plain(text) /\ Len(Words(text)) < MaxArgs => Len(arguments) = Len(Words(text))
=============================================================================
