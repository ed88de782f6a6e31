------------------------------ MODULE BareRepl ------------------------------
(***************************************************************************)
(* The solver's program without the SDK: src/picocalc/bare/solve_repl.c    *)
(* with keys that come from the keyboard of I2cKeyboard through            *)
(* solve_repl_bare_input.c.  Its console has no buffer: a character is     *)
(* drawn on the LCD, and below the last row the screen is cleared.         *)
(* The solver itself is external: it writes some output.                   *)
(***************************************************************************)
EXTENDS I2cKeyboard, SequencesExt

CONSTANTS
  Rows, Cols,   \* REPL_ROWS, REPL_COLS
  LineCap,      \* REPL_LINE_CAP
  Scripts,      \* what may be typed: sequences of tokens [text, key]
  Outputs,      \* what solve_main may write
  Banner, Prompt, \* texts
  ExitLines     \* "exit" and "quit"

Printable == 32 .. 126
\* How a script writes a key, if next is the character after it (0: none): as
\* it is, by \ and a character, by \x and up to two digits, or, at the end, a \.
Writes(text, key, next) ==
  LET value == [i \in DOMAIN text |-> HexValue(text[i])]
      escape == Len(text) > 1 /\ text[1] = Backslash
      hex == escape /\ text[2] = 120
  IN \/ Len(text) = 1 /\ key = text[1] /\ (key = Backslash => next = 0)
     \/ Len(text) = 2 /\ escape /\ ~hex /\ key = Escape(text[2])
     \/ Len(text) = 2 /\ hex /\ key = 120 /\ HexValue(next) < 0
     \/ Len(text) = 3 /\ hex /\ key = value[3] /\ key >= 0 /\ HexValue(next) < 0
     \/ Len(text) = 4 /\ hex /\ value[3] >= 0 /\ value[4] >= 0 /\ key = 16 * value[3] + value[4]
NextChar(script, n) == IF n < Len(script) THEN script[n + 1].text[1] ELSE 0
IsScript(script) ==
  /\ script \in Seq([text : Seq(1 .. 255) \ {<<>>}, key : Nat])
  /\ \A n \in DOMAIN script : Writes(script[n].text, script[n].key, NextChar(script, n))

\* The texts have no carriage return: after one the cells behind the cursor
\* would not be blank.
BareAssumption ==
  /\ {Rows, Cols, LineCap} \subseteq Nat \ {0}
  /\ Outputs \cup {Banner} \subseteq Seq(0 .. 255 \ {13})
  /\ Prompt \in Seq(Printable)
  /\ \A script \in Scripts : IsScript(script)

VARIABLES
  tokens,       \* history: what the script stands for
  port,         \* the I2C port and the script
  screen,       \* what the LCD shows, g_repl_row and g_repl_col
  line,         \* the first line_length characters of line
  keys,         \* history: keys read
  running       \* FALSE when bare_main has left its loop
bareVars == <<tokens, port, screen, line, keys, running>>

Space == 32
Blank == [row \in 0 .. Rows - 1 |-> [col \in 0 .. Cols - 1 |-> Space]]

repl_draw_cell(s, row, col, ch) == [s EXCEPT !.cells[row][col] = ch]

repl_console_newline_NoClear(s) ==
  [s EXCEPT !.col = 0, !.row = IF @ + 1 >= Rows THEN 0 ELSE @ + 1]
repl_console_newline(s) ==
  IF s.row + 1 >= Rows THEN [cells |-> Blank, row |-> 0, col |-> 0]
  ELSE [s EXCEPT !.col = 0, !.row = @ + 1]

repl_console_putchar(s, ch) ==
  CASE ch = 13 -> [s EXCEPT !.col = 0]
    [] ch = 10 -> repl_console_newline(s)
    [] ch \in 32 .. 126 ->
         LET at == IF s.col >= Cols THEN repl_console_newline(s) ELSE s
         IN [repl_draw_cell(at, at.row, at.col, ch) EXCEPT !.col = @ + 1]
    [] OTHER -> s

repl_console_backspace(s) ==
  LET erase(row, col) == repl_draw_cell([s EXCEPT !.row = row, !.col = col], row, col, Space)
  IN IF s.col > 0 THEN erase(s.row, s.col - 1)
     ELSE IF s.row > 0 THEN erase(s.row - 1, Cols - 1)
     ELSE s

solve_platform_write(s, text) == FoldLeft(repl_console_putchar, s, text)

-----------------------------------------------------------------------------
(* bare_main                                                                *)

BareInit ==
  /\ tokens \in Scripts
  /\ port = NewPort(FlattenSeq([i \in DOMAIN tokens |-> tokens[i].text]))
  /\ screen = solve_platform_write([cells |-> Blank, row |-> 0, col |-> 0], Banner \o Prompt)
  /\ line = <<>> /\ keys = <<>> /\ running = TRUE

\* solve_repl_read_key: the loop over an empty keyboard
ReadKey(read) ==
  /\ running /\ read.key # NoKey
  /\ port' = read.port /\ keys' = Append(keys, read.key)
  /\ UNCHANGED tokens

\* key 4, or an exit line
Leave(key) ==
  \/ key = 4 /\ running' = FALSE /\ UNCHANGED <<screen, line>>
  \/ /\ key \in {10, 13} /\ line \in ExitLines
     /\ screen' = repl_console_newline(screen) /\ running' = FALSE /\ UNCHANGED line

Enter(key) ==
  /\ key \in {10, 13} /\ line \notin ExitLines
  /\ \E output \in IF line = <<>> THEN {<<>>} ELSE Outputs :
       screen' = solve_platform_write(repl_console_newline(screen), output \o Prompt)
  /\ line' = <<>> /\ UNCHANGED running

Erase(key) ==
  /\ key \in {8, 127}
  /\ IF line = <<>> THEN UNCHANGED <<screen, line>>
     ELSE line' = Front(line) /\ screen' = repl_console_backspace(screen)
  /\ UNCHANGED running

Type(key) ==
  /\ key \in 32 .. 126
  /\ IF Len(line) + 1 < LineCap
     THEN line' = Append(line, key) /\ screen' = repl_console_putchar(screen, key)
     ELSE UNCHANGED <<screen, line>>
  /\ UNCHANGED running

Ignore(key) == key \notin {4, 8, 10, 13} \cup 32 .. 127 /\ UNCHANGED <<screen, line, running>>

BareNext ==
  LET read == picocalc_kbd_read_key(port)
  IN ReadKey(read) /\ (\/ Leave(read.key) \/ Enter(read.key) \/ Erase(read.key)
                       \/ Type(read.key) \/ Ignore(read.key))
BareSpec == BareInit /\ [][BareNext]_bareVars

-----------------------------------------------------------------------------
(* Properties                                                               *)

\* The program reads the keys of the script, each once and in order, and while
\* it runs the next read finds the next key or none: the two bytes of a report
\* belong together, whatever escape the key is written with.  Of the driver and
\* of next_script_key and the report in the emulator.
KeysOfScript ==
  /\ keys = [i \in DOMAIN keys |-> tokens[i].key]
  /\ running => picocalc_kbd_read_key(port).key
                = IF Len(keys) < Len(tokens) THEN tokens[Len(keys) + 1].key ELSE NoKey

\* The user sees what the solver will get: the cells before the cursor are the
\* end of prompt and line (all of it, or what the last clear has left), and from
\* the cursor on everything is blank.  Of bare_main and its console.
BareScreenIsText ==
  LET text == Prompt \o line
      cursor == screen.row * Cols + screen.col
      shown == IF cursor < Len(text) THEN cursor ELSE Len(text)
      Cell(n) == screen.cells[n \div Cols][n % Cols]
  IN running => /\ \A n \in 1 .. shown : Cell(cursor - n) = text[Len(text) + 1 - n]
                /\ \A n \in cursor .. Rows * Cols - 1 : Cell(n) = Space
=============================================================================
