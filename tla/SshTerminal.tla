---------------------------- MODULE SshTerminal ----------------------------
(***************************************************************************)
(* The terminal of the SSH program (src/ssh.c): the screen of cells, the   *)
(* rows to be drawn again, the parser of escape sequences, and the LCD.    *)
(*                                                                         *)
(* The remote program sends text and escape sequences (Tokens), which      *)
(* reach picow_ssh_write_console cut into pieces at any byte.  Between two *)
(* pieces the platform may write a line of its own about the TCP           *)
(* connection (platform_log_tcp_debug) through the same parser.            *)
(*                                                                         *)
(* Bytes are numbers, as the parser compares them with ranges.  Colours    *)
(* are names; one given by its components is "direct".                     *)
(***************************************************************************)
EXTENDS Integers, Sequences, FiniteSets, SequencesExt

CONSTANTS
  Rows, Cols,   \* TERM_ROWS and COLS
  TabStop,      \* columns from one tab stop to the next
  CsiSize,      \* sizeof g_ansi_csi
  MaxParams,    \* length of params in ansi_process_csi
  IntHalf,      \* 2^31: int goes from -IntHalf to IntHalf - 1
  Tokens,       \* what the remote program may send, each a sequence of bytes
  LogLine,      \* the platform's line, a sequence of bytes
  MaxTokens,    \* bound: tokens sent in a session
  MaxLogs       \* bound: lines the platform writes in a session

RowSet == 0 .. Rows - 1
ColSet == 0 .. Cols - 1
Byte == 0 .. 255
BEL == 7
BS == 8
HT == 9
LF == 10
CR == 13
ESC == 27
DEL == 127
Blank == 32
Digits == 48 .. 57
Colon == 58
Semicolon == 59
Question == 63
Bracket == 91
Backslash == 92
BracketClose == 93
Finals == 64 .. 126
CharsetBytes == {40, 41, 42, 43}

\* What a token may be: a byte of text or control, ESC and a byte, a character
\* set, a control sequence, an operating system command ended by BEL or ESC \.
TextByte(t) == Len(t) = 1 /\ t[1] # ESC
EscapeAndByte(t) ==
  Len(t) = 2 /\ t[1] = ESC /\ t[2] \notin CharsetBytes \cup {Bracket, BracketClose, ESC}
CharacterSet(t) == Len(t) = 3 /\ t[1] = ESC /\ t[2] \in CharsetBytes /\ t[3] # ESC
Control(t) ==
  /\ Len(t) > 2 /\ t[1] = ESC /\ t[2] = Bracket /\ t[Len(t)] \in Finals
  /\ \A i \in 3 .. Len(t) - 1 : t[i] \in 32 .. 63
CommandToBel(t) ==
  /\ Len(t) > 2 /\ t[1] = ESC /\ t[2] = BracketClose /\ t[Len(t)] = BEL
  /\ \A i \in 3 .. Len(t) - 1 : t[i] \notin {BEL, ESC}
CommandToEsc(t) ==
  /\ Len(t) > 3 /\ t[1] = ESC /\ t[2] = BracketClose
  /\ t[Len(t) - 1] = ESC /\ t[Len(t)] = Backslash
  /\ \A i \in 3 .. Len(t) - 2 : t[i] \notin {BEL, ESC}
IsToken(t) == \/ TextByte(t) \/ EscapeAndByte(t) \/ CharacterSet(t)
              \/ Control(t) \/ CommandToBel(t) \/ CommandToEsc(t)

ASSUME TermAssumption ==
  /\ Rows \in Nat \ {0} /\ Cols \in Nat \ {0} /\ TabStop \in Nat \ {0}
  /\ Cols % TabStop = 0
  /\ CsiSize \in Nat \ {0} /\ MaxParams \in Nat \ {0} /\ IntHalf \in Nat \ {0}
  /\ MaxTokens \in Nat /\ MaxLogs \in Nat
  /\ \A t \in Tokens : t \in Seq(Byte) /\ IsToken(t)
  /\ LogLine \in Seq(Byte) /\ LogLine # <<>> /\ LogLine[1] = LF
  /\ \A i \in 1 .. Len(LogLine) : LogLine[i] \notin {ESC, BEL}

VARIABLES
  term,         \* the g_term_ variables: cells (chars, fg and bg together),
                \*   dirty, row, col, saved_row, saved_col, attr (current colours)
  ansi_state,   \* 0 .. 5 in the code: "ground", "esc", "csi", "osc", "osc_esc", "charset"
  csi,          \* the bytes in g_ansi_csi
  lcd,          \* what each row of the LCD shows
  phase,        \* of main: "boot", "session" or "ended"
  writing,      \* inside picow_ssh_write_console
  token, pos,   \* the token under way and how many of its bytes are written
  logpos,       \* of the line under way, or 0
  sent, logs,   \* tokens and lines begun
  interrupted   \* the platform's line came inside the token under way

parser == <<ansi_state, csi>>
remote == <<token, pos, sent>>
line == <<logpos, logs>>
vars == <<term, parser, lcd, phase, writing, remote, line, interrupted>>

Default == [fg |-> "litegray", bg |-> "black"]
Cell(ch, attr) == [ch |-> ch, fg |-> attr.fg, bg |-> attr.bg]
\* Byte 0 stands for the text of a line that the program shows on its own.
ProgramLine == [c \in ColSet |-> Cell(0, Default)]

Init ==
  /\ term = [cells |-> [r \in RowSet |-> [c \in ColSet |-> Cell(0, Default)]],
             dirty |-> {}, row |-> 0, col |-> 0, saved_row |-> 0, saved_col |-> 0,
             attr |-> Default]
  /\ ansi_state = "ground" /\ csi = <<>>
  /\ lcd = [r \in RowSet |-> [c \in ColSet |-> Cell(Blank, Default)]]
  /\ phase = "boot" /\ writing = FALSE
  /\ token = <<>> /\ pos = 0 /\ logpos = 0 /\ sent = 0 /\ logs = 0
  /\ interrupted = FALSE

-----------------------------------------------------------------------------
(* Cells                                                                    *)

term_clamp(value, max) ==
  IF value \in 0 .. max - 1 THEN value ELSE IF value < 0 THEN 0 ELSE max - 1

\* The columns from .. to of each row of rows.
term_clear_cells(s, rows, from, to) ==
  IF (from .. to) \cap ColSet = {} THEN s
  ELSE [s EXCEPT !.cells = [r \in RowSet |-> IF r \notin rows THEN @[r] ELSE
          [c \in ColSet |-> IF c \in from .. to THEN Cell(Blank, s.attr) ELSE @[r][c]]],
                 !.dirty = @ \cup rows]

term_clear_screen(s) ==
  [term_clear_cells(s, RowSet, 0, Cols - 1) EXCEPT !.row = 0, !.col = 0]

term_scroll_up_LastRowOnly(s) ==
  term_clear_cells([s EXCEPT !.cells = [r \in RowSet |-> IF r + 1 \in RowSet THEN @[r + 1] ELSE @[r]]],
                   {Rows - 1}, 0, Cols - 1)
term_scroll_up(s) ==
  term_clear_cells([s EXCEPT !.cells = [r \in RowSet |-> IF r + 1 \in RowSet THEN @[r + 1] ELSE @[r]],
                             !.dirty = RowSet],
                   {Rows - 1}, 0, Cols - 1)

term_newline(s) ==
  IF s.row + 1 >= Rows THEN term_scroll_up([s EXCEPT !.col = 0])
  ELSE [s EXCEPT !.row = @ + 1, !.col = 0]

SetCell(s, col, ch) ==
  [s EXCEPT !.cells = [r \in RowSet |-> IF r # s.row THEN @[r] ELSE
                         [c \in ColSet |-> IF c = col THEN Cell(ch, s.attr) ELSE @[r][c]]],
            !.dirty = @ \cup {s.row}]

term_backspace(s) ==
  IF s.col = 0 THEN s ELSE [SetCell(s, s.col - 1, Blank) EXCEPT !.col = s.col - 1]

\* After the last column the cursor waits: the next character wraps.
Wrapped(s) == IF s.col >= Cols THEN term_newline(s) ELSE s
PutGlyph(s, ch) ==
  LET t == Wrapped(s) IN [SetCell(t, t.col, ch) EXCEPT !.col = t.col + 1]
\* Blanks up to the next tab stop, at least one.
NextStop(col) ==
  CHOOSE c \in col + 1 .. Cols :
    c % TabStop = 0 /\ \A d \in col + 1 .. Cols : d % TabStop = 0 => c <= d
Tab(s) ==
  LET t == Wrapped(s)
      stop == NextStop(t.col)
  IN  [term_clear_cells(t, {t.row}, t.col, stop - 1) EXCEPT !.col = stop]

term_putchar_plain(s, ch) ==
  CASE ch = CR -> [s EXCEPT !.col = 0]
    [] ch = LF -> term_newline(s)
    [] ch \in {BS, DEL} -> term_backspace(s)
    [] ch = HT -> Tab(s)
    [] ch \in 32 .. 126 -> PutGlyph(s, ch)
    [] OTHER -> s

term_draw_row(shown, s, rows) == [r \in RowSet |-> IF r \in rows THEN s.cells[r] ELSE shown[r]]

-----------------------------------------------------------------------------
(* Control sequences                                                        *)

\* Overflow of int is undefined in C; what the build does is to wrap round.
Int32(x) == ((x + IntHalf) % (2 * IntHalf)) - IntHalf

ParamByte_KeepsValue(acc, ch) ==
  IF Len(acc.params) >= MaxParams THEN acc
  ELSE IF ch \in Digits THEN [acc EXCEPT !.value = Int32(@ * 10 + ch - 48), !.saw_digit = TRUE]
  ELSE IF ch \in {Colon, Semicolon}
       THEN [acc EXCEPT !.params = Append(@, IF acc.saw_digit THEN acc.value ELSE -1),
                        !.saw_digit = FALSE]
  ELSE acc
ParamByte(acc, ch) ==
  IF Len(acc.params) >= MaxParams THEN acc
  ELSE IF ch \in Digits THEN [acc EXCEPT !.value = Int32(@ * 10 + ch - 48), !.saw_digit = TRUE]
  ELSE IF ch \in {Colon, Semicolon}
       THEN [params |-> Append(acc.params, IF acc.saw_digit THEN acc.value ELSE -1),
             value |-> 0, saw_digit |-> FALSE]
  ELSE acc
Private(buf) == buf # <<>> /\ buf[1] = Question
\* A separator after the last byte ends the last parameter.
ansi_parse_params(buf) ==
  FoldLeft(ParamByte, [params |-> <<>>, value |-> 0, saw_digit |-> FALSE],
           Append(IF Private(buf) THEN Tail(buf) ELSE buf, Semicolon)).params

Palette == <<"black", "red", "green", "yellow", "blue", "magenta", "cyan", "litegray",
             "gray", "red", "green", "yellow", "cerulean", "lilac", "cyan", "white">>
ansi_color_16(code) == Palette[code + 1]

SgrSimple(attr, p) ==
  CASE p = 0 -> Default
    [] p = 1 /\ attr.fg = "litegray" -> [attr EXCEPT !.fg = "white"]
    [] p = 22 /\ attr.fg = "white" -> [attr EXCEPT !.fg = "litegray"]
    [] p \in 30 .. 37 -> [attr EXCEPT !.fg = ansi_color_16(p - 30)]
    [] p = 39 -> [attr EXCEPT !.fg = "litegray"]
    [] p \in 40 .. 47 -> [attr EXCEPT !.bg = ansi_color_16(p - 40)]
    [] p = 49 -> [attr EXCEPT !.bg = "black"]
    [] p \in 90 .. 97 -> [attr EXCEPT !.fg = ansi_color_16(p - 90 + 8)]
    [] p \in 100 .. 107 -> [attr EXCEPT !.bg = ansi_color_16(p - 100 + 8)]
    [] OTHER -> attr
SetColor(attr, p, color) ==
  IF p = 38 THEN [attr EXCEPT !.fg = color] ELSE [attr EXCEPT !.bg = color]

\* 38 and 48 take the two or four parameters after them, if there are as many.
ansi_apply_sgr(attr, params) ==
  LET count == Len(params)
      Step(acc, i) ==
        IF acc.skip > 0 THEN [acc EXCEPT !.skip = @ - 1]
        ELSE IF params[i] \in {38, 48} /\ i + 2 <= count /\ params[i + 1] = 5
        THEN [attr |-> SetColor(acc.attr, params[i], ansi_color_16(params[i + 2] % 16)), skip |-> 2]
        ELSE IF params[i] \in {38, 48} /\ i + 4 <= count /\ params[i + 1] = 2
        THEN [attr |-> SetColor(acc.attr, params[i], "direct"), skip |-> 4]
        ELSE [acc EXCEPT !.attr = SgrSimple(@, IF params[i] < 0 THEN 0 ELSE params[i])]
  IN  FoldLeft(Step, [attr |-> attr, skip |-> 0], [i \in 1 .. count |-> i]).attr

\* K clears within the cursor's row, J also the rows above or below it.
EraseLine(s, first) ==
  CASE first = 1 -> term_clear_cells(s, {s.row}, 0, s.col)
    [] first = 2 -> term_clear_cells(s, {s.row}, 0, Cols - 1)
    [] OTHER -> term_clear_cells(s, {s.row}, s.col, Cols - 1)
EraseDisplay(s, first) ==
  CASE first \in {2, 3} -> term_clear_screen(s)
    [] first = 1 -> term_clear_cells(term_clear_cells(s, 0 .. s.row - 1, 0, Cols - 1),
                                     {s.row}, 0, s.col)
    [] OTHER -> term_clear_cells(term_clear_cells(s, {s.row}, s.col, Cols - 1),
                                 s.row + 1 .. Rows - 1, 0, Cols - 1)

Save(s) == [s EXCEPT !.saved_row = s.row, !.saved_col = s.col]
Restore(s) == [s EXCEPT !.row = s.saved_row, !.col = s.saved_col]

\* The final byte by its ASCII code.
ansi_process_csi(s, buf, final) ==
  LET params == ansi_parse_params(buf)
      count == Len(params)
      first == IF count > 0 /\ params[1] >= 0 THEN params[1] ELSE 0
      amount == IF first = 0 THEN 1 ELSE first
      Position(k) == IF count >= k /\ params[k] > 0 THEN params[k] - 1 ELSE 0
  IN  CASE Private(buf) /\ final \in {104, 108} -> s                      \* h l
        [] final = 109 -> [s EXCEPT !.attr = ansi_apply_sgr(@, params)]    \* m
        [] final = 75 -> EraseLine(s, first)                               \* K
        [] final = 74 -> EraseDisplay(s, first)                            \* J
        [] final \in {72, 102} -> [s EXCEPT !.row = term_clamp(Position(1), Rows),
                                            !.col = term_clamp(Position(2), Cols)]
        [] final = 65 -> [s EXCEPT !.row = term_clamp(Int32(@ - amount), Rows)]
        [] final = 66 -> [s EXCEPT !.row = term_clamp(Int32(@ + amount), Rows)]
        [] final = 67 -> [s EXCEPT !.col = term_clamp(Int32(@ + amount), Cols)]
        [] final = 68 -> [s EXCEPT !.col = term_clamp(Int32(@ - amount), Cols)]
        [] final = 71 -> [s EXCEPT !.col = term_clamp(amount - 1, Cols)]
        [] final = 115 -> Save(s)
        [] final = 117 -> Restore(s)
        [] OTHER -> s

-----------------------------------------------------------------------------
(* console_putchar, by the state of the parser                              *)

Ground(ch) ==
  /\ ansi_state = "ground"
  /\ IF ch = ESC THEN ansi_state' = "esc" /\ UNCHANGED term
     ELSE term' = term_putchar_plain(term, ch) /\ UNCHANGED ansi_state
  /\ UNCHANGED csi

AfterEsc(ch) ==
  CASE ch = Bracket -> "csi" [] ch = BracketClose -> "osc"
    [] ch \in CharsetBytes -> "charset" [] OTHER -> "ground"
Escape(ch) ==
  /\ ansi_state = "esc" /\ ansi_state' = AfterEsc(ch)
  /\ csi' = IF ch = Bracket THEN <<>> ELSE csi
  /\ term' = CASE ch = 99 -> term_clear_screen([term EXCEPT !.attr = Default])   \* c
               [] ch = 55 -> Save(term)                                          \* 7
               [] ch = 56 -> Restore(term)                                       \* 8
               [] OTHER -> term

\* What does not fit the buffer is dropped; the sequence still ends where it ends.
ControlSequence(ch) ==
  /\ ansi_state = "csi"
  /\ IF ch \in Finals
     THEN /\ term' = ansi_process_csi(term, csi, ch)
          /\ ansi_state' = "ground" /\ UNCHANGED csi
     ELSE /\ csi' = IF Len(csi) + 1 < CsiSize THEN Append(csi, ch) ELSE csi
          /\ UNCHANGED <<term, ansi_state>>

SystemCommand_EndsAtEsc(ch) ==
  /\ ansi_state = "osc"
  /\ ansi_state' = IF ch \in {BEL, ESC} THEN "ground" ELSE "osc"
  /\ UNCHANGED <<term, csi>>
SystemCommand_NoStringTerminator(ch) ==
  /\ ansi_state = "osc"
  /\ ansi_state' = IF ch = BEL THEN "ground" ELSE "osc"
  /\ UNCHANGED <<term, csi>>
SystemCommand(ch) ==
  /\ ansi_state = "osc"
  /\ ansi_state' = CASE ch = BEL -> "ground" [] ch = ESC -> "osc_esc" [] OTHER -> "osc"
  /\ UNCHANGED <<term, csi>>

SkipByte ==
  /\ ansi_state \in {"osc_esc", "charset"} /\ ansi_state' = "ground"
  /\ UNCHANGED <<term, csi>>

console_putchar(ch) ==
  Ground(ch) \/ Escape(ch) \/ ControlSequence(ch) \/ SystemCommand(ch) \/ SkipByte

-----------------------------------------------------------------------------
(* The program                                                              *)

\* A line that does not go through the cells: progress of the network before
\* the session, the outcome after it.
screen_line(row) ==
  /\ phase \in {"boot", "ended"}
  /\ lcd' = [lcd EXCEPT ![row] = ProgramLine]
  /\ UNCHANGED <<term, parser, phase, writing, remote, line, interrupted>>

terminal_init ==
  /\ phase = "boot" /\ phase' = "session"
  /\ LET s == term_clear_screen([term EXCEPT !.attr = Default])
     IN  /\ lcd' = term_draw_row(lcd, s, s.dirty)
         /\ term' = [s EXCEPT !.dirty = {}]
  /\ UNCHANGED <<parser, writing, remote, line, interrupted>>

RemoteSends(t) ==
  /\ phase = "session" /\ token = <<>> /\ logpos = 0 /\ sent < MaxTokens
  /\ token' = t /\ sent' = sent + 1 /\ interrupted' = FALSE
  /\ UNCHANGED <<term, parser, lcd, phase, writing, pos, line>>

\* The next byte of the output of the remote program.
OutputByte ==
  /\ token # <<>> /\ logpos = 0 /\ phase = "session"
  /\ console_putchar(token[pos + 1]) /\ writing' = TRUE
  /\ IF pos + 1 = Len(token) THEN token' = <<>> /\ pos' = 0
     ELSE pos' = pos + 1 /\ UNCHANGED token
  /\ UNCHANGED <<lcd, phase, sent, line, interrupted>>

\* The platform reports a failed or short read or write.
LogByte ==
  /\ phase = "session"
  /\ logpos > 0 \/ (~writing /\ logs < MaxLogs)
  /\ logpos < Len(LogLine)
  /\ console_putchar(LogLine[logpos + 1]) /\ writing' = TRUE
  /\ logpos' = logpos + 1
  /\ logs' = IF logpos = 0 THEN logs + 1 ELSE logs
  /\ interrupted' = (interrupted \/ pos > 0)
  /\ UNCHANGED <<lcd, phase, remote>>

\* The end of picow_ssh_write_console; the line of the platform is one call.
term_flush_dirty ==
  /\ writing /\ logpos \in {0, Len(LogLine)}
  /\ lcd' = term_draw_row(lcd, term, term.dirty)
  /\ term' = [term EXCEPT !.dirty = {}]
  /\ writing' = FALSE /\ logpos' = 0
  /\ UNCHANGED <<parser, phase, remote, logs, interrupted>>

SessionEnds ==
  /\ phase = "session" /\ ~writing /\ phase' = "ended"
  /\ UNCHANGED <<term, parser, lcd, writing, remote, line, interrupted>>

Next ==
  \/ \E row \in RowSet : screen_line(row)
  \/ terminal_init \/ (\E t \in Tokens : RemoteSends(t)) \/ OutputByte \/ LogByte
  \/ term_flush_dirty \/ SessionEnds

Spec == Init /\ [][Next]_vars

-----------------------------------------------------------------------------
(* Properties                                                               *)

\* The cursor and the saved one, which index the arrays of cells, and the
\* length of g_ansi_csi, which needs room for a terminating 0.
CursorInBounds ==
  /\ term.row \in RowSet /\ term.col \in 0 .. Cols
  /\ term.saved_row \in RowSet /\ term.saved_col \in 0 .. Cols
  /\ term.dirty \subseteq RowSet
  /\ csi \in Seq(Byte) /\ Len(csi) < CsiSize

Colors == {Palette[i] : i \in 1 .. Len(Palette)} \cup {"direct"}
Cells == [RowSet -> [ColSet -> [ch : {0} \cup 32 .. 126, fg : Colors, bg : Colors]]]
TermTypeOK ==
  /\ CursorInBounds
  /\ term.cells \in Cells /\ lcd \in Cells /\ term.attr \in [fg : Colors, bg : Colors]
  /\ ansi_state \in {"ground", "esc", "csi", "osc", "osc_esc", "charset"}
  /\ phase \in {"boot", "session", "ended"}
  /\ writing \in BOOLEAN /\ interrupted \in BOOLEAN
  /\ token \in Tokens \cup {<<>>} /\ pos \in 0 .. Len(token)
  /\ logpos \in 0 .. Len(LogLine) /\ sent \in 0 .. MaxTokens /\ logs \in 0 .. MaxLogs

\* Whenever the terminal has finished a write the LCD shows its cells, although
\* only the rows marked dirty are drawn.
ScreenShown == phase = "session" /\ ~writing => lcd = term.cells

\* Wherever the output is cut, no byte of an escape sequence is taken for text
\* and no text for a part of one (unless a line of the platform came between).
InStep ==
  token # <<>> /\ ~interrupted => (ansi_state = "ground" <=> pos = 0)

\* A line of the platform inside an escape sequence does no lasting harm: at the
\* end of the token the parser is ready for text again.
Resynchronised == token = <<>> => ansi_state = "ground"

\* The parameters of a control sequence are the numbers between its separators,
\* the first MaxParams of them; an empty one is -1.
Body(buf) == IF Private(buf) THEN Tail(buf) ELSE buf
Separators(b) == {i \in 1 .. Len(b) : b[i] \in {Colon, Semicolon}}
Field(b, k) == {i \in 1 .. Len(b) : b[i] \in Digits
                  /\ Cardinality({j \in Separators(b) : j < i}) = k - 1}
PowerOfTen[k \in Nat] == IF k = 0 THEN 1 ELSE 10 * PowerOfTen[k - 1]
\* Each digit by its place, which is how many of the field come after it.
Weight(b, F, i) == (b[i] - 48) * PowerOfTen[Cardinality({j \in F : j > i})]
Number(b, F) ==
  MapThenFoldSet(LAMBDA x, y : x + y, 0, LAMBDA i : Weight(b, F, i), LAMBDA S : Max(S), F)
ParamsRight ==
  LET b == Body(csi)
      count == Cardinality(Separators(b)) + 1
  IN  ansi_parse_params(csi) =
        [k \in 1 .. (IF count < MaxParams THEN count ELSE MaxParams) |->
           IF Field(b, k) = {} THEN -1 ELSE Int32(Number(b, Field(b, k)))]
=============================================================================
