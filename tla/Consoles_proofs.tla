-------------------------- MODULE Consoles_proofs ---------------------------
(***************************************************************************)
(* Proofs about SshTerminal for every size of the screen and of the        *)
(* buffers, every set of tokens and every line of the platform.            *)
(***************************************************************************)
EXTENDS MCConsoles, FiniteSetTheorems, SequenceTheorems, WellFoundedInduction, NaturalsInduction, TLAPS

(***************************************************************************)
(* The screen.  IsTerm says which fields a terminal has and keeps the      *)
(* cursor in bounds; of the cells only their rows matter.  Shows says that *)
(* rows not marked dirty are on the LCD.                                   *)
(***************************************************************************)
IsTerm(s) ==
  /\ s \in [cells : {s.cells}, dirty : SUBSET RowSet, row : RowSet, col : 0 .. Cols,
            saved_row : RowSet, saved_col : 0 .. Cols, attr : {s.attr}]
  /\ s.cells = [r \in RowSet |-> s.cells[r]]
Shows(shown, s) == \A r \in RowSet : r \in s.dirty \/ shown[r] = s.cells[r]
OK(s, shown) == IsTerm(s) /\ Shows(shown, s)

LEMMA ClearOK ==
  ASSUME NEW s, NEW shown, OK(s, shown), NEW rows \in SUBSET RowSet, NEW from, NEW to
  PROVE  /\ OK(term_clear_cells(s, rows, from, to), shown)
         /\ term_clear_cells(s, rows, from, to).row = s.row
         /\ term_clear_cells(s, rows, from, to).col = s.col
         /\ term_clear_cells(s, rows, from, to).attr = s.attr
<1>1. CASE (from .. to) \cap ColSet = {}
  BY <1>1 DEF term_clear_cells
<1>2. CASE (from .. to) \cap ColSet # {}
  <2> DEFINE cells == [r \in RowSet |-> IF r \notin rows THEN s.cells[r] ELSE
          [c \in ColSet |-> IF c \in from .. to THEN Cell(Blank, s.attr) ELSE s.cells[r][c]]]
             t == [s EXCEPT !.cells = cells, !.dirty = @ \cup rows]
  <2>1. term_clear_cells(s, rows, from, to) = t
    BY <1>2 DEF term_clear_cells
  <2>2. cells = [r \in RowSet |-> cells[r]]
    OBVIOUS
  <2>3. \A r \in RowSet : r \in rows \/ cells[r] = s.cells[r]
    OBVIOUS
  <2> HIDE DEF cells
  <2>4. t.cells = cells /\ t.dirty = s.dirty \cup rows
    BY DEF OK, IsTerm
  <2>5. IsTerm(t)
    BY <2>2, <2>4 DEF OK, IsTerm
  <2>6. Shows(shown, t)
    BY <2>3, <2>4 DEF OK, Shows
  <2>7. t.row = s.row /\ t.col = s.col /\ t.attr = s.attr
    BY DEF OK, IsTerm
  <2> QED BY <2>1, <2>5, <2>6, <2>7 DEF OK
<1> QED BY <1>1, <1>2

\* Moving the cursor, saving it and changing the colours leaves the cells alone.
LEMMA MoveOK ==
  ASSUME NEW s, NEW shown, OK(s, shown), NEW row \in RowSet, NEW col \in 0 .. Cols
  PROVE  OK([s EXCEPT !.row = row, !.col = col], shown)
BY DEF OK, IsTerm, Shows

LEMMA ColOK ==
  ASSUME NEW s, NEW shown, OK(s, shown), NEW col \in 0 .. Cols
  PROVE  OK([s EXCEPT !.col = col], shown)
BY DEF OK, IsTerm, Shows

LEMMA RowOK ==
  ASSUME NEW s, NEW shown, OK(s, shown), NEW row \in RowSet
  PROVE  OK([s EXCEPT !.row = row], shown)
BY DEF OK, IsTerm, Shows

LEMMA AttrOK ==
  ASSUME NEW s, NEW shown, OK(s, shown), NEW attr
  PROVE  OK([s EXCEPT !.attr = attr], shown)
BY DEF OK, IsTerm, Shows

LEMMA SaveOK ==
  ASSUME NEW s, NEW shown, OK(s, shown)
  PROVE  OK(Save(s), shown) /\ OK(Restore(s), shown)
BY DEF OK, IsTerm, Shows, Save, Restore

LEMMA SizeFacts ==
  /\ Rows \in Nat /\ Rows > 0 /\ Cols \in Nat /\ Cols > 0
  /\ 0 \in RowSet /\ Rows - 1 \in RowSet /\ 0 \in 0 .. Cols
BY TermAssumption DEF RowSet

LEMMA ClearScreenOK ==
  ASSUME NEW s, NEW shown, OK(s, shown)
  PROVE  OK(term_clear_screen(s), shown)
<1>1. OK(term_clear_cells(s, RowSet, 0, Cols - 1), shown)
  BY ClearOK
<1> QED BY <1>1, MoveOK, SizeFacts DEF term_clear_screen

\* Scrolling changes every row, and marks every row.
LEMMA ScrollOK ==
  ASSUME NEW s, NEW shown, OK(s, shown)
  PROVE  /\ OK(term_scroll_up(s), shown)
         /\ term_scroll_up(s).row = s.row /\ term_scroll_up(s).col = s.col
<1> DEFINE cells == [r \in RowSet |-> IF r + 1 \in RowSet THEN s.cells[r + 1] ELSE s.cells[r]]
           t == [s EXCEPT !.cells = cells, !.dirty = RowSet]
<1>1. term_scroll_up(s) = term_clear_cells(t, {Rows - 1}, 0, Cols - 1)
  BY DEF term_scroll_up
<1>2. cells = [r \in RowSet |-> cells[r]]
  OBVIOUS
<1> HIDE DEF cells
<1>3. IsTerm(t) /\ t.dirty = RowSet /\ t.row = s.row /\ t.col = s.col
  BY <1>2 DEF OK, IsTerm
<1>4. OK(t, shown)
  BY <1>3 DEF OK, Shows
<1> HIDE DEF t
<1> QED BY <1>1, <1>3, <1>4, ClearOK, SizeFacts

LEMMA NewlineOK ==
  ASSUME NEW s, NEW shown, OK(s, shown)
  PROVE  OK(term_newline(s), shown) /\ term_newline(s).col = 0
<1>1. CASE s.row + 1 >= Rows
  <2>1. OK([s EXCEPT !.col = 0], shown) /\ [s EXCEPT !.col = 0].col = 0
    BY ColOK, SizeFacts DEF OK, IsTerm
  <2> QED BY <1>1, <2>1, ScrollOK DEF term_newline
<1>2. CASE ~(s.row + 1 >= Rows)
  <2>1. s.row + 1 \in RowSet
    BY <1>2, SizeFacts DEF OK, IsTerm, RowSet
  <2>2. OK([s EXCEPT !.row = s.row + 1, !.col = 0], shown)
    BY <2>1, MoveOK, SizeFacts
  <2> QED BY <1>2, <2>2 DEF term_newline, OK, IsTerm
<1> QED BY <1>1, <1>2

LEMMA SetCellOK ==
  ASSUME NEW s, NEW shown, OK(s, shown), NEW col, NEW ch
  PROVE  OK(SetCell(s, col, ch), shown)
<1> DEFINE cells == [r \in RowSet |-> IF r # s.row THEN s.cells[r] ELSE
                      [c \in ColSet |-> IF c = col THEN Cell(ch, s.attr) ELSE s.cells[r][c]]]
           t == [s EXCEPT !.cells = cells, !.dirty = @ \cup {s.row}]
<1>1. SetCell(s, col, ch) = t
  BY DEF SetCell
<1>2. cells = [r \in RowSet |-> cells[r]]
  OBVIOUS
<1>3. \A r \in RowSet : r = s.row \/ cells[r] = s.cells[r]
  OBVIOUS
<1> HIDE DEF cells
<1>4. IsTerm(t) /\ t.cells = cells /\ t.dirty = s.dirty \cup {s.row}
  BY <1>2 DEF OK, IsTerm
<1>5. Shows(shown, t)
  BY <1>3, <1>4 DEF OK, Shows
<1> QED BY <1>1, <1>4, <1>5 DEF OK

LEMMA WrappedOK ==
  ASSUME NEW s, NEW shown, OK(s, shown)
  PROVE  OK(Wrapped(s), shown) /\ Wrapped(s).col \in ColSet
<1>1. CASE s.col >= Cols
  BY <1>1, NewlineOK, SizeFacts DEF Wrapped, ColSet
<1>2. CASE ~(s.col >= Cols)
  BY <1>2, SizeFacts DEF Wrapped, OK, IsTerm, ColSet
<1> QED BY <1>1, <1>2

\* There is a tab stop, as Cols is a multiple of TabStop.
LEMMA TabStopOK ==
  ASSUME NEW col \in ColSet
  PROVE  NextStop(col) \in 0 .. Cols
<1> DEFINE S == {c \in col + 1 .. Cols : c % TabStop = 0}
           R == {p \in Nat \X Nat : p[1] < p[2]}
<1>1. col \in Nat /\ Cols \in Nat /\ col < Cols
  BY TermAssumption DEF ColSet
<1>2. S \subseteq Nat /\ Cols \in S
  BY <1>1, TermAssumption
<1>3. IsWellFoundedOn(R, Nat)
  BY NatLessThanWellFounded DEF OpToRel
<1>4. \E c \in S : \A d \in S : <<d, c>> \notin R
  <2> HIDE DEF S, R
  <2> QED BY <1>2, <1>3, WFMin
<1>5. ASSUME NEW c \in S, NEW d \in S, <<d, c>> \notin R PROVE c <= d
  <2>1. <<d, c>> \in Nat \X Nat /\ c \in Nat /\ d \in Nat
    BY <1>2
  <2>2. ~(d < c)
    BY <1>5, <2>1
  <2> QED BY <2>1, <2>2
<1>6. NextStop(col) \in S
  BY <1>4, <1>5 DEF NextStop
<1> QED BY <1>1, <1>6

LEMMA PlainOK ==
  ASSUME NEW s, NEW shown, OK(s, shown), NEW ch
  PROVE  OK(term_putchar_plain(s, ch), shown)
<1>1. OK([s EXCEPT !.col = 0], shown)
  BY ColOK, SizeFacts
<1>2. OK(term_newline(s), shown)
  BY NewlineOK
<1>3. OK(term_backspace(s), shown)
  <2>1. CASE s.col = 0
    BY <2>1 DEF term_backspace
  <2>2. CASE s.col # 0
    <3>1. s.col - 1 \in 0 .. Cols
      BY <2>2, SizeFacts DEF OK, IsTerm
    <3>2. OK(SetCell(s, s.col - 1, Blank), shown)
      BY SetCellOK
    <3> QED BY <2>2, <3>1, <3>2, ColOK DEF term_backspace
  <2> QED BY <2>1, <2>2
<1>4. OK(PutGlyph(s, ch), shown)
  <2> DEFINE t == Wrapped(s)
  <2>1. OK(t, shown) /\ t.col \in ColSet
    BY WrappedOK
  <2> HIDE DEF t
  <2>2. t.col + 1 \in 0 .. Cols
    BY <2>1, SizeFacts DEF ColSet
  <2>3. OK(SetCell(t, t.col, ch), shown)
    BY <2>1, SetCellOK
  <2>4. OK([SetCell(t, t.col, ch) EXCEPT !.col = t.col + 1], shown)
    BY <2>2, <2>3, ColOK
  <2> QED BY <2>4 DEF PutGlyph, t
<1>5. OK(Tab(s), shown)
  <2> DEFINE t == Wrapped(s)
             stop == NextStop(t.col)
             u == term_clear_cells(t, {t.row}, t.col, stop - 1)
  <2>1. OK(t, shown) /\ t.col \in ColSet
    BY WrappedOK
  <2>2. stop \in 0 .. Cols
    BY <2>1, TabStopOK
  <2>3. {t.row} \in SUBSET RowSet
    BY <2>1 DEF OK, IsTerm
  <2>4. Tab(s) = [u EXCEPT !.col = stop]
    BY DEF Tab
  <2>5. OK(u, shown)
    <3> HIDE DEF t, stop
    <3> QED BY <2>1, <2>3, ClearOK
  <2> HIDE DEF stop, u
  <2>6. OK([u EXCEPT !.col = stop], shown)
    BY <2>2, <2>5, ColOK
  <2> QED BY <2>4, <2>6
<1> QED BY <1>1, <1>2, <1>3, <1>4, <1>5 DEF term_putchar_plain

LEMMA ClampOK ==
  ASSUME NEW value, NEW max \in Nat, max > 0
  PROVE  term_clamp(value, max) \in 0 .. max - 1
BY DEF term_clamp

\* Above and below the row of the cursor, and the row itself.
LEMMA RowParts ==
  ASSUME NEW row \in RowSet
  PROVE  /\ 0 .. row - 1 \in SUBSET RowSet /\ {row} \in SUBSET RowSet
         /\ row + 1 .. Rows - 1 \in SUBSET RowSet
BY SizeFacts DEF RowSet

LEMMA EraseOK ==
  ASSUME NEW s, NEW shown, OK(s, shown), NEW first
  PROVE  OK(EraseLine(s, first), shown) /\ OK(EraseDisplay(s, first), shown)
<1>1. s.row \in RowSet
  BY DEF OK, IsTerm
<1>2. OK(EraseLine(s, first), shown)
  BY <1>1, RowParts, ClearOK DEF EraseLine
<1>3. OK(term_clear_cells(term_clear_cells(s, 0 .. s.row - 1, 0, Cols - 1),
                          {s.row}, 0, s.col), shown)
  BY <1>1, RowParts, ClearOK
<1>4. OK(term_clear_cells(term_clear_cells(s, {s.row}, s.col, Cols - 1),
                          s.row + 1 .. Rows - 1, 0, Cols - 1), shown)
  BY <1>1, RowParts, ClearOK
<1>5. OK(EraseDisplay(s, first), shown)
  BY <1>3, <1>4, ClearScreenOK DEF EraseDisplay
<1> QED BY <1>2, <1>5

\* Whatever the parameters, and whatever becomes of an int that overflows, the
\* cursor is clamped.
LEMMA CsiOK ==
  ASSUME NEW s, NEW shown, OK(s, shown), NEW buf, NEW final
  PROVE  OK(ansi_process_csi(s, buf, final), shown)
<1>1. ASSUME NEW v PROVE term_clamp(v, Rows) \in RowSet /\ term_clamp(v, Cols) \in 0 .. Cols
  <2>1. term_clamp(v, Rows) \in 0 .. Rows - 1 /\ term_clamp(v, Cols) \in 0 .. Cols - 1
    BY SizeFacts, ClampOK
  <2> QED BY <2>1, SizeFacts DEF RowSet
<1>2. ASSUME NEW v, NEW w PROVE OK([s EXCEPT !.row = term_clamp(v, Rows),
                                             !.col = term_clamp(w, Cols)], shown)
  BY <1>1, MoveOK
<1>3. ASSUME NEW v PROVE /\ OK([s EXCEPT !.row = term_clamp(v, Rows)], shown)
                         /\ OK([s EXCEPT !.col = term_clamp(v, Cols)], shown)
  BY <1>1, RowOK, ColOK
<1>4. ASSUME NEW attr PROVE OK([s EXCEPT !.attr = attr], shown)
  BY AttrOK
<1>5. ASSUME NEW first PROVE OK(EraseLine(s, first), shown) /\ OK(EraseDisplay(s, first), shown)
  BY EraseOK
<1>6. OK(Save(s), shown) /\ OK(Restore(s), shown)
  BY SaveOK
<1> DEFINE params == ansi_parse_params(buf)
           count == Len(params)
           first == IF count > 0 /\ params[1] >= 0 THEN params[1] ELSE 0
           amount == IF first = 0 THEN 1 ELSE first
           Position(k) == IF count >= k /\ params[k] > 0 THEN params[k] - 1 ELSE 0
<1>7. OK([s EXCEPT !.attr = ansi_apply_sgr(s.attr, params)], shown)
  BY <1>4
<1>8. OK([s EXCEPT !.row = term_clamp(Position(1), Rows),
                   !.col = term_clamp(Position(2), Cols)], shown)
  BY <1>2
<1>9. /\ OK([s EXCEPT !.row = term_clamp(Int32(s.row - amount), Rows)], shown)
      /\ OK([s EXCEPT !.row = term_clamp(Int32(s.row + amount), Rows)], shown)
      /\ OK([s EXCEPT !.col = term_clamp(Int32(s.col + amount), Cols)], shown)
      /\ OK([s EXCEPT !.col = term_clamp(Int32(s.col - amount), Cols)], shown)
      /\ OK([s EXCEPT !.col = term_clamp(amount - 1, Cols)], shown)
  BY <1>3
<1>10. OK(EraseLine(s, first), shown) /\ OK(EraseDisplay(s, first), shown)
  BY <1>5
<1> QED BY <1>6, <1>7, <1>8, <1>9, <1>10 DEF ansi_process_csi

-----------------------------------------------------------------------------
(***************************************************************************)
(* One byte.                                                               *)
(***************************************************************************)
States == {"ground", "esc", "csi", "osc", "osc_esc", "charset"}
BufferOK(buf) == buf \in Seq(Byte) /\ Len(buf) < CsiSize

NextState(st, ch) ==
  CASE st = "ground" -> IF ch = ESC THEN "esc" ELSE "ground"
    [] st = "esc" -> AfterEsc(ch)
    [] st = "csi" -> IF ch \in Finals THEN "ground" ELSE "csi"
    [] st = "osc" -> IF ch = BEL THEN "ground" ELSE IF ch = ESC THEN "osc_esc" ELSE "osc"
    [] OTHER -> "ground"

LEMMA ByteState ==
  ASSUME NEW ch, console_putchar(ch), ansi_state \in States
  PROVE  ansi_state' = NextState(ansi_state, ch) /\ ansi_state' \in States
<1> USE DEF States, NextState
<1>1. CASE Ground(ch)
  BY <1>1 DEF Ground
<1>2. CASE Escape(ch)
  BY <1>2 DEF Escape, AfterEsc
<1>3. CASE ControlSequence(ch)
  BY <1>3 DEF ControlSequence
<1>4. CASE SystemCommand(ch)
  <2>1. BEL # ESC
    BY DEF BEL, ESC
  <2> QED BY <1>4, <2>1 DEF SystemCommand
<1>5. CASE SkipByte
  BY <1>5 DEF SkipByte
<1> QED BY <1>1, <1>2, <1>3, <1>4, <1>5 DEF console_putchar

LEMMA ByteScreen ==
  ASSUME NEW ch \in Byte, console_putchar(ch), NEW shown, OK(term, shown), BufferOK(csi)
  PROVE  OK(term', shown) /\ BufferOK(csi')
<1>1. CASE Ground(ch)
  BY <1>1, PlainOK DEF Ground
<1>2. CASE Escape(ch)
  <2>1. BufferOK(<<>>)
    BY TermAssumption DEF BufferOK
  <2>2. BufferOK(csi')
    BY <1>2, <2>1 DEF Escape
  <2>3. OK(term_clear_screen([term EXCEPT !.attr = Default]), shown)
    BY AttrOK, ClearScreenOK
  <2>4. OK(term', shown)
    BY <1>2, <2>3, SaveOK DEF Escape
  <2> QED BY <2>2, <2>4
<1>3. CASE ControlSequence(ch)
  <2>1. CASE ch \in Finals
    BY <1>3, <2>1, CsiOK DEF ControlSequence
  <2>2. CASE ch \notin Finals
    <3>1. CASE Len(csi) + 1 < CsiSize
      <4>1. csi' = Append(csi, ch) /\ term' = term
        BY <1>3, <2>2, <3>1 DEF ControlSequence
      <4>2. BufferOK(csi')
        BY <3>1, <4>1, TermAssumption DEF BufferOK
      <4> QED BY <4>1, <4>2
    <3>2. CASE ~(Len(csi) + 1 < CsiSize)
      BY <1>3, <2>2, <3>2 DEF ControlSequence
    <3> QED BY <3>1, <3>2
  <2> QED BY <2>1, <2>2
<1>4. CASE SystemCommand(ch)
  BY <1>4 DEF SystemCommand
<1>5. CASE SkipByte
  BY <1>5 DEF SkipByte
<1> QED BY <1>1, <1>2, <1>3, <1>4, <1>5 DEF console_putchar

-----------------------------------------------------------------------------
(***************************************************************************)
(* The tokens.                                                             *)
(***************************************************************************)
LEMMA CodeFacts ==
  /\ BEL # ESC /\ Backslash # ESC /\ Bracket # ESC /\ BracketClose # ESC
  /\ Bracket # BracketClose /\ Bracket \notin CharsetBytes
  /\ BracketClose \notin CharsetBytes /\ ESC \notin CharsetBytes /\ ESC \notin Finals
  /\ \A b \in 32 .. 63 : b \notin Finals /\ b # ESC
  /\ AfterEsc(Bracket) = "csi" /\ AfterEsc(BracketClose) = "osc"
  /\ AfterEsc(Backslash) = "ground" /\ AfterEsc(LF) = "ground" /\ LF # ESC
BY DEF BEL, ESC, LF, Backslash, Bracket, BracketClose, CharsetBytes, Finals, AfterEsc

LEMMA Kinds ==
  ASSUME NEW t \in Tokens
  PROVE  /\ t \in Seq(Byte) /\ Len(t) \in Nat
         /\ \/ TextByte(t) \/ EscapeAndByte(t) \/ CharacterSet(t)
            \/ Control(t) \/ CommandToBel(t) \/ CommandToEsc(t)
<1>1. t \in Seq(Byte) /\ IsToken(t)
  BY TermAssumption
<1> QED BY <1>1 DEF IsToken

\* A token is not empty and does not end in ESC; one of several bytes begins
\* with it.
LEMMA TokenEnds ==
  ASSUME NEW t \in Tokens
  PROVE  /\ Len(t) \in Nat /\ Len(t) > 0 /\ t # <<>>
         /\ \A i \in 1 .. Len(t) : t[i] \in Byte
         /\ t[Len(t)] # ESC
         /\ Len(t) > 1 => t[1] = ESC
<1>1. t \in Seq(Byte) /\ Len(t) \in Nat
  BY Kinds
<1> DEFINE Ends == Len(t) > 0 /\ t[Len(t)] # ESC /\ (Len(t) > 1 => t[1] = ESC)
<1>2. Ends
  <2>1. CASE TextByte(t)
    BY <2>1 DEF TextByte
  <2>2. CASE EscapeAndByte(t)
    BY <2>2 DEF EscapeAndByte
  <2>3. CASE CharacterSet(t)
    BY <2>3 DEF CharacterSet
  <2>4. CASE Control(t)
    <3>1. Len(t) > 2 /\ t[1] = ESC /\ t[Len(t)] \in Finals
      BY <2>4 DEF Control
    <3>2. t[Len(t)] # ESC
      BY <3>1, CodeFacts
    <3> QED BY <1>1, <3>1, <3>2
  <2>5. CASE CommandToBel(t)
    BY <2>5, CodeFacts DEF CommandToBel
  <2>6. CASE CommandToEsc(t)
    BY <2>6, CodeFacts DEF CommandToEsc
  <2> QED BY <2>1, <2>2, <2>3, <2>4, <2>5, <2>6, Kinds
<1>4. t # <<>> /\ \A i \in 1 .. Len(t) : t[i] \in Byte
  BY <1>1, <1>2
<1> QED BY <1>1, <1>2, <1>4

\* An ESC after the first byte is the last but one, of an operating system
\* command ended by ESC \.
LEMMA InnerEsc ==
  ASSUME NEW t \in Tokens, NEW p \in 2 .. Len(t) - 1, t[p] = ESC
  PROVE  p + 1 = Len(t) /\ t[p + 1] = Backslash
<1>1. Len(t) \in Nat /\ Len(t) > 2 /\ p \in Nat
  BY Kinds
<1>2. CASE CharacterSet(t)
  <2>1. p = 2
    BY <1>1, <1>2 DEF CharacterSet
  <2> QED BY <1>2, <2>1, CodeFacts DEF CharacterSet
<1>3. CASE Control(t)
  <2>1. p # 2
    BY <1>3, CodeFacts DEF Control
  <2>2. p \in 3 .. Len(t) - 1
    BY <1>1, <2>1
  <2> QED BY <1>3, <2>2, CodeFacts DEF Control
<1>4. CASE CommandToBel(t)
  <2>1. p # 2
    BY <1>4, CodeFacts DEF CommandToBel
  <2>2. p \in 3 .. Len(t) - 1
    BY <1>1, <2>1
  <2> QED BY <1>4, <2>2 DEF CommandToBel
<1>5. CASE CommandToEsc(t)
  <2>1. p # 2
    BY <1>5, CodeFacts DEF CommandToEsc
  <2>2. p \notin 3 .. Len(t) - 2
    BY <1>5 DEF CommandToEsc
  <2>3. p + 1 = Len(t)
    BY <1>1, <2>1, <2>2
  <2> QED BY <1>5, <2>3 DEF CommandToEsc
<1>6. CASE TextByte(t)
  BY <1>1, <1>6 DEF TextByte
<1>7. CASE EscapeAndByte(t)
  BY <1>1, <1>7 DEF EscapeAndByte
<1> QED BY <1>2, <1>3, <1>4, <1>5, <1>6, <1>7, Kinds

\* Where the parser stands after p bytes of a token that nothing interrupted.
Expected(t, p, st) ==
  \/ p = 0 /\ st = "ground"
  \/ p = 1 /\ st = "esc"
  \/ p > 1 /\ Control(t) /\ st = "csi"
  \/ p > 1 /\ (CommandToBel(t) \/ CommandToEsc(t)) /\ t[p] # ESC /\ st = "osc"
  \/ p > 1 /\ t[p] = ESC /\ st = "osc_esc"
  \/ p = 2 /\ CharacterSet(t) /\ st = "charset"

\* One more byte leads to where the parser should stand next.
LEMMA ExpectedStep ==
  ASSUME NEW t \in Tokens, NEW p \in 0 .. Len(t) - 1, NEW st \in States, Expected(t, p, st)
  PROVE  IF p + 1 = Len(t) THEN NextState(st, t[p + 1]) = "ground"
         ELSE Expected(t, p + 1, NextState(st, t[p + 1]))
<1> DEFINE next == NextState(st, t[p + 1])
<1>1. Len(t) \in Nat /\ p \in Nat /\ p < Len(t)
  BY Kinds
<1>2. CASE p = 0
  <2>1. st = "ground"
    BY <1>2 DEF Expected
  <2>2. t[1] # ESC => Len(t) = 1
    BY <1>1, <1>2, TokenEnds, SMTT(20)
  <2>3. Len(t) = 1 => t[1] # ESC
    BY TokenEnds
  <2>4. next = IF t[1] = ESC THEN "esc" ELSE "ground"
    BY <1>2, <2>1 DEF NextState
  <2>5. Expected(t, 1, "esc")
    BY DEF Expected
  <2> QED BY <1>2, <2>2, <2>3, <2>4, <2>5
<1>3. CASE p = 1
  <2>1. st = "esc"
    BY <1>3 DEF Expected
  <2>2. next = AfterEsc(t[2])
    BY <1>3, <2>1 DEF NextState
  <2>3. CASE EscapeAndByte(t)
    <3>1. AfterEsc(t[2]) = "ground" /\ Len(t) = 2
      BY <2>3 DEF EscapeAndByte, AfterEsc
    <3> QED BY <1>3, <2>2, <3>1
  <2>4. CASE CharacterSet(t)
    <3>1. AfterEsc(t[2]) = "charset" /\ Len(t) = 3
      BY <2>4, CodeFacts DEF CharacterSet, AfterEsc
    <3>2. Expected(t, 2, "charset")
      BY <2>4 DEF Expected
    <3> QED BY <1>3, <2>2, <3>1, <3>2
  <2>5. CASE Control(t)
    <3>1. t[2] = Bracket /\ Len(t) > 2
      BY <2>5 DEF Control
    <3>2. Expected(t, 2, "csi")
      BY <2>5 DEF Expected
    <3>3. AfterEsc(t[2]) = "csi"
      BY <3>1, CodeFacts
    <3>4. p + 1 = 2
      BY <1>3
    <3>5. ASSUME Len(t) = 2 PROVE FALSE
      BY <3>1, <3>5
    <3> QED BY <2>2, <3>2, <3>3, <3>4, <3>5
  <2>6. CASE CommandToBel(t) \/ CommandToEsc(t)
    <3>1. t[2] = BracketClose /\ Len(t) > 2
      BY <1>1, <2>6 DEF CommandToBel, CommandToEsc
    <3>2. AfterEsc(t[2]) = "osc" /\ t[2] # ESC
      BY <3>1, CodeFacts DEF AfterEsc
    <3>3. Expected(t, 2, "osc")
      BY <2>6, <3>2 DEF Expected
    <3> QED BY <1>1, <1>3, <2>2, <3>1, <3>2, <3>3
  <2>7. CASE TextByte(t)
    BY <1>1, <1>3, <2>7 DEF TextByte
  <2> QED BY <2>3, <2>4, <2>5, <2>6, <2>7, Kinds
<1>4. CASE p > 1 /\ st = "csi"
  <2>1. Control(t)
    BY <1>1, <1>4 DEF Expected
  <2>2. CASE p + 1 = Len(t)
    BY <1>4, <2>1, <2>2 DEF Control, NextState
  <2>3. CASE p + 1 # Len(t)
    <3>1. p + 1 \in 3 .. Len(t) - 1 /\ p + 1 > 1
      BY <1>1, <1>4, <2>3
    <3>2. t[p + 1] \notin Finals
      BY <2>1, <3>1, CodeFacts DEF Control
    <3>3. next = "csi"
      BY <1>4, <3>2 DEF NextState
    <3> QED BY <2>1, <2>3, <3>1, <3>3 DEF Expected
  <2> QED BY <2>2, <2>3
<1>5. CASE p > 1 /\ st = "osc"
  <2>1. (CommandToBel(t) \/ CommandToEsc(t)) /\ t[p] # ESC
    BY <1>1, <1>5 DEF Expected
  <2>2. next = IF t[p + 1] = BEL THEN "ground" ELSE IF t[p + 1] = ESC THEN "osc_esc" ELSE "osc"
    BY <1>5 DEF NextState
  <2>3. CASE p + 1 = Len(t)
    <3>1. t[Len(t) - 1] # ESC
      BY <1>1, <2>1, <2>3
    <3>2. t[Len(t)] = BEL
      BY <2>1, <3>1 DEF CommandToBel, CommandToEsc
    <3> QED BY <2>2, <2>3, <3>2
  <2>4. CASE p + 1 # Len(t)
    <3>1. p + 1 \in 3 .. Len(t) - 1 /\ p + 1 > 1
      BY <1>1, <1>5, <2>4
    <3>2. t[p + 1] # BEL
      <4>1. CASE CommandToBel(t)
        BY <3>1, <4>1 DEF CommandToBel
      <4>2. CASE CommandToEsc(t)
        <5>1. p + 1 \in 3 .. Len(t) - 2 \/ p + 1 = Len(t) - 1
          BY <1>1, <3>1
        <5> QED BY <4>2, <5>1, CodeFacts DEF CommandToEsc
      <4> QED BY <2>1, <4>1, <4>2
    <3>3. next = IF t[p + 1] = ESC THEN "osc_esc" ELSE "osc"
      BY <2>2, <3>2
    <3> QED BY <2>1, <2>4, <3>1, <3>3 DEF Expected
  <2> QED BY <2>3, <2>4
<1>6. CASE p > 1 /\ st = "osc_esc"
  <2>1. t[p] = ESC
    BY <1>1, <1>6 DEF Expected
  <2>2. p + 1 = Len(t)
    BY <1>1, <1>6, <2>1, InnerEsc
  <2> QED BY <1>6, <2>2 DEF NextState
<1>7. CASE p > 1 /\ st = "charset"
  <2>1. p = 2 /\ CharacterSet(t)
    BY <1>1, <1>7 DEF Expected
  <2>2. p + 1 = Len(t)
    BY <2>1 DEF CharacterSet
  <2> QED BY <1>7, <2>2 DEF NextState
<1>8. p > 1 => st \in {"csi", "osc", "osc_esc", "charset"}
  BY <1>1 DEF Expected
<1> QED BY <1>1, <1>2, <1>3, <1>4, <1>5, <1>6, <1>7, <1>8

-----------------------------------------------------------------------------
(***************************************************************************)
(* The invariants.                                                         *)
(***************************************************************************)
RemoteInv ==
  /\ token \in Tokens \cup {<<>>} /\ logpos \in 0 .. Len(LogLine)
  /\ token = <<>> => pos = 0
  /\ token # <<>> => pos \in 0 .. Len(token) - 1

ScreenInv ==
  /\ IsTerm(term) /\ BufferOK(csi) /\ lcd = [r \in RowSet |-> lcd[r]]
  /\ phase \in {"boot", "session", "ended"}
  /\ phase # "session" => ~writing
  /\ phase = "session" => Shows(lcd, term) /\ (writing \/ term.dirty = {})

\* An interrupted sequence leaves the parser where it should stand, or ready for
\* text; then the ESC inside of an operating system command begins a sequence of
\* two bytes.
Standing ==
  \/ Expected(token, pos, ansi_state)
  \/ interrupted /\ pos > 0 /\ ansi_state = "ground"
  \/ interrupted /\ pos > 1 /\ token[pos] = ESC /\ ansi_state = "esc"
ParserInv ==
  /\ ansi_state \in States
  /\ token = <<>> => ansi_state = "ground"
  /\ token # <<>> => Standing
  /\ logpos > 0 => /\ ansi_state \in {"ground", "csi", "osc"}
                   /\ pos > 0 => interrupted
Inv == RemoteInv /\ ScreenInv /\ ParserInv

LEMMA InitInv == Init => Inv
<1> SUFFICES ASSUME Init PROVE Inv
  OBVIOUS
<1>1. LogLine \in Seq(Byte) /\ Len(LogLine) \in Nat
  BY TermAssumption
<1>2. RemoteInv
  BY <1>1 DEF Init, RemoteInv
<1>3. IsTerm(term)
  BY SizeFacts DEF Init, IsTerm
<1>4. BufferOK(csi)
  BY TermAssumption DEF Init, BufferOK
<1>5. ScreenInv
  BY <1>3, <1>4 DEF Init, ScreenInv
<1>6. ParserInv
  BY DEF Init, ParserInv, States
<1> QED BY <1>2, <1>5, <1>6 DEF Inv

\* Bytes come from the alphabet, also those of the platform's line, which holds
\* neither ESC nor BEL and begins a new line.
LEMMA LineBytes ==
  ASSUME NEW i \in 1 .. Len(LogLine)
  PROVE  LogLine[i] \in Byte /\ LogLine[i] # ESC /\ LogLine[i] # BEL /\ (i = 1 => LogLine[i] = LF)
BY TermAssumption

LEMMA OutputKeeps ==
  ASSUME Inv, OutputByte
  PROVE  Inv'
<1> DEFINE ch == token[pos + 1]
<1>1. /\ token \in Tokens /\ token # <<>> /\ logpos = 0 /\ phase = "session"
      /\ console_putchar(ch) /\ writing' = TRUE
      /\ pos \in 0 .. Len(token) - 1 /\ UNCHANGED <<lcd, phase, logpos, interrupted>>
      /\ ansi_state \in States /\ Standing
      /\ Len(LogLine) \in Nat
  BY TermAssumption DEF Inv, RemoteInv, ParserInv, OutputByte, line
<1>2. Len(token) \in Nat /\ pos \in Nat /\ pos + 1 \in 1 .. Len(token) /\ ch \in Byte
  <2>1. Len(token) \in Nat /\ pos \in Nat /\ pos + 1 \in 1 .. Len(token)
    BY <1>1, TokenEnds
  <2> QED BY <1>1, <2>1, TokenEnds
<1>3. IF pos + 1 = Len(token) THEN token' = <<>> /\ pos' = 0
      ELSE pos' = pos + 1 /\ token' = token
  BY DEF OutputByte
<1>4. ansi_state' = NextState(ansi_state, ch) /\ ansi_state' \in States
  BY <1>1, ByteState
<1>5. RemoteInv'
  BY <1>1, <1>2, <1>3 DEF RemoteInv
<1>6. ScreenInv'
  <2>1. OK(term, lcd) /\ BufferOK(csi)
    BY <1>1 DEF Inv, ScreenInv, OK
  <2>2. OK(term', lcd) /\ BufferOK(csi')
    BY <1>1, <1>2, <2>1, ByteScreen
  <2>3. OK(term', lcd')
    BY <1>1, <2>2
  <2> QED BY <1>1, <2>2, <2>3 DEF Inv, ScreenInv, OK, IsTerm, Shows
<1>7. ParserInv'
  <2>1. CASE pos + 1 = Len(token)
    <3>1. NextState(ansi_state, ch) = "ground"
      <4>1. CASE Expected(token, pos, ansi_state)
        BY <1>1, <2>1, <4>1, ExpectedStep
      <4>2. CASE interrupted /\ pos > 0 /\ ansi_state = "ground"
        BY <1>1, <2>1, <4>2, TokenEnds DEF NextState
      <4>3. CASE interrupted /\ pos > 1 /\ token[pos] = ESC /\ ansi_state = "esc"
        <5>1. ch = Backslash
          BY <1>1, <1>2, <4>3, InnerEsc
        <5> QED BY <4>3, <5>1, CodeFacts DEF NextState
      <4> QED BY <1>1, <4>1, <4>2, <4>3 DEF Standing
    <3> QED BY <1>1, <1>3, <1>4, <2>1, <3>1 DEF ParserInv
  <2>2. CASE pos + 1 # Len(token)
    <3>1. \/ Expected(token, pos + 1, ansi_state')
          \/ interrupted /\ pos + 1 > 0 /\ ansi_state' = "ground"
          \/ interrupted /\ pos + 1 > 1 /\ token[pos + 1] = ESC /\ ansi_state' = "esc"
      <4>1. CASE Expected(token, pos, ansi_state)
        BY <1>1, <1>4, <2>2, <4>1, ExpectedStep
      <4>2. CASE interrupted /\ pos > 0 /\ ansi_state = "ground"
        BY <1>2, <1>4, <4>2 DEF NextState
      <4>3. CASE interrupted /\ pos > 1 /\ token[pos] = ESC /\ ansi_state = "esc"
        BY <1>1, <1>2, <2>2, <4>3, InnerEsc
      <4> QED BY <1>1, <4>1, <4>2, <4>3 DEF Standing
    <3>2. Standing'
      BY <1>1, <1>3, <2>2, <3>1 DEF Standing, Expected
    <3> QED BY <1>1, <1>3, <1>4, <2>2, <3>2 DEF ParserInv
  <2> QED BY <2>1, <2>2
<1> QED BY <1>5, <1>6, <1>7 DEF Inv

LEMMA LogKeeps ==
  ASSUME Inv, LogByte
  PROVE  Inv'
<1> DEFINE ch == LogLine[logpos + 1]
<1>1. /\ phase = "session" /\ logpos \in 0 .. Len(LogLine) /\ logpos < Len(LogLine)
      /\ console_putchar(ch) /\ writing' = TRUE /\ logpos' = logpos + 1
      /\ interrupted' = (interrupted \/ pos > 0)
      /\ UNCHANGED <<lcd, phase, token, pos>>
      /\ ansi_state \in States /\ Len(LogLine) \in Nat
  BY TermAssumption DEF Inv, RemoteInv, ParserInv, LogByte, remote
<1>2. /\ logpos \in Nat /\ logpos + 1 \in 1 .. Len(LogLine)
      /\ ch \in Byte /\ ch # ESC /\ ch # BEL /\ (logpos = 0 => ch = LF)
  <2>1. logpos \in Nat /\ logpos + 1 \in 1 .. Len(LogLine)
    BY <1>1
  <2>2. ch \in Byte /\ ch # ESC /\ ch # BEL /\ (logpos + 1 = 1 => ch = LF)
    BY <2>1, LineBytes
  <2> QED BY <2>1, <2>2
<1>3. ansi_state' = NextState(ansi_state, ch) /\ ansi_state' \in States
  BY <1>1, ByteState
<1>4. RemoteInv'
  BY <1>1, <1>2 DEF Inv, RemoteInv
<1>5. ScreenInv'
  <2>1. OK(term, lcd) /\ BufferOK(csi)
    BY <1>1 DEF Inv, ScreenInv, OK
  <2>2. OK(term', lcd) /\ BufferOK(csi')
    BY <1>1, <1>2, <2>1, ByteScreen
  <2>3. OK(term', lcd')
    BY <1>1, <2>2
  <2> QED BY <1>1, <2>2, <2>3 DEF Inv, ScreenInv, OK, IsTerm, Shows
<1>6. ParserInv'
  <2>1. \/ ansi_state' = "ground"
        \/ ansi_state \in {"csi", "osc"} /\ ansi_state' = ansi_state
    <3>1. CASE ansi_state = "esc"
      <4>1. logpos = 0
        BY <1>2, <3>1 DEF Inv, ParserInv
      <4> QED BY <1>2, <1>3, <3>1, <4>1, CodeFacts DEF NextState
    <3>2. CASE ansi_state # "esc"
      BY <1>1, <1>2, <1>3, <3>2 DEF NextState, States
    <3> QED BY <3>1, <3>2
  <2>2. CASE token = <<>>
    <3>1. ansi_state' = "ground" /\ pos = 0
      BY <2>1, <2>2 DEF Inv, ParserInv, RemoteInv
    <3> QED BY <1>1, <1>2, <1>3, <2>2, <3>1 DEF ParserInv
  <2>3. CASE token # <<>>
    <3>1. Standing /\ pos \in 0 .. Len(token) - 1 /\ Len(token) \in Nat
      BY <2>3, TokenEnds DEF Inv, ParserInv, RemoteInv
    <3>2. pos = 0 => ansi_state = "ground"
      BY <3>1 DEF Standing, Expected
    <3>3. Standing'
      <4>1. CASE pos = 0
        <5>1. ansi_state' = "ground" /\ pos' = 0
          BY <1>1, <2>1, <3>2, <4>1
        <5> QED BY <5>1 DEF Standing, Expected
      <4>2. CASE pos > 0
        <5>1. CASE ansi_state' = "ground"
          BY <1>1, <4>2, <5>1 DEF Standing
        <5>2. CASE ansi_state \in {"csi", "osc"} /\ ansi_state' = ansi_state
          <6>1. Expected(token, pos, ansi_state)
            BY <3>1, <5>2 DEF Standing
          <6> QED BY <1>1, <5>2, <6>1 DEF Standing, Expected
        <5> QED BY <2>1, <5>1, <5>2
      <4> QED BY <3>1, <4>1, <4>2
    <3> QED BY <1>1, <1>3, <2>1, <2>3, <3>3 DEF ParserInv
  <2> QED BY <2>2, <2>3
<1> QED BY <1>4, <1>5, <1>6 DEF Inv

LEMMA SendKeeps ==
  ASSUME Inv, NEW t \in Tokens, RemoteSends(t)
  PROVE  Inv'
<1>1. token = <<>> /\ pos = 0 /\ logpos = 0 /\ token' = t /\ interrupted' = FALSE
  BY DEF Inv, RemoteInv, RemoteSends
<1>2. UNCHANGED <<term, ansi_state, csi, lcd, phase, writing, pos, logpos>>
  BY DEF RemoteSends, parser, line
<1>3. t # <<>> /\ 0 \in 0 .. Len(t) - 1
  BY TokenEnds
<1>4. RemoteInv'
  BY <1>1, <1>2, <1>3 DEF Inv, RemoteInv
<1>5. ScreenInv'
  BY <1>2 DEF Inv, ScreenInv, IsTerm, BufferOK, Shows
<1>6. Expected(t, 0, "ground")
  BY DEF Expected
<1>7. ansi_state = "ground"
  BY <1>1 DEF Inv, ParserInv
<1>8. Standing'
  BY <1>1, <1>2, <1>6, <1>7 DEF Standing, Expected
<1>9. ParserInv'
  BY <1>1, <1>2, <1>7, <1>8 DEF Inv, ParserInv
<1> QED BY <1>4, <1>5, <1>9 DEF Inv

\* Drawing the rows marked dirty brings the whole LCD up to date.
LEMMA DrawShows ==
  ASSUME NEW s, NEW shown, NEW d \in SUBSET RowSet, IsTerm(s),
         \A r \in RowSet : r \in d \/ shown[r] = s.cells[r]
  PROVE  /\ IsTerm([s EXCEPT !.dirty = {}])
         /\ Shows(term_draw_row(shown, s, d), [s EXCEPT !.dirty = {}])
         /\ [s EXCEPT !.dirty = {}].dirty = {}
         /\ term_draw_row(shown, s, d) = [r \in RowSet |-> term_draw_row(shown, s, d)[r]]
<1>1. IsTerm([s EXCEPT !.dirty = {}])
  BY DEF IsTerm
<1>2. [s EXCEPT !.dirty = {}].cells = s.cells /\ [s EXCEPT !.dirty = {}].dirty = {}
  BY DEF IsTerm
<1>3. \A r \in RowSet : term_draw_row(shown, s, d)[r] = s.cells[r]
  BY DEF term_draw_row
<1>4. term_draw_row(shown, s, d) = [r \in RowSet |-> term_draw_row(shown, s, d)[r]]
  BY DEF term_draw_row
<1> QED BY <1>1, <1>2, <1>3, <1>4 DEF Shows

LEMMA FlushKeeps ==
  ASSUME Inv, term_flush_dirty
  PROVE  Inv'
<1>1. /\ phase = "session" /\ UNCHANGED <<ansi_state, csi, phase, token, pos, interrupted>>
      /\ writing' = FALSE /\ logpos' = 0
  BY DEF Inv, ScreenInv, term_flush_dirty, parser, remote
<1>2. IsTerm(term) /\ Shows(lcd, term) /\ term.dirty \in SUBSET RowSet
  BY <1>1 DEF Inv, ScreenInv, IsTerm
<1>3. /\ IsTerm(term') /\ Shows(lcd', term') /\ term'.dirty = {}
      /\ lcd' = [r \in RowSet |-> lcd'[r]]
  BY <1>2, DrawShows DEF term_flush_dirty, Shows
<1>4. ScreenInv'
  BY <1>1, <1>3 DEF Inv, ScreenInv, IsTerm, Shows, BufferOK
<1>5. RemoteInv'
  BY <1>1, TermAssumption DEF Inv, RemoteInv
<1>6. ParserInv'
  BY <1>1 DEF Inv, ParserInv, Standing, Expected
<1> QED BY <1>4, <1>5, <1>6 DEF Inv

LEMMA InitKeeps ==
  ASSUME Inv, terminal_init
  PROVE  Inv'
<1> DEFINE s == term_clear_screen([term EXCEPT !.attr = Default])
<1>1. /\ phase' = "session" /\ UNCHANGED <<ansi_state, csi, writing, token, pos, logpos, interrupted>>
      /\ lcd' = term_draw_row(lcd, s, s.dirty) /\ term' = [s EXCEPT !.dirty = {}]
  BY DEF terminal_init, parser, remote, line
\* Nothing is assumed of the LCD: the cleared screen is shown as if rows of it
\* had been current.
<1>2. IsTerm(s) /\ s.dirty = RowSet
  <2> DEFINE u == [term EXCEPT !.attr = Default]
  <2>1. IsTerm(u)
    BY DEF Inv, ScreenInv, IsTerm
  <2>2. OK(u, u.cells)
    BY <2>1 DEF OK, Shows
  <2>3. OK(s, u.cells)
    BY <2>2, ClearScreenOK
  <2>4. 0 \in 0 .. Cols - 1 /\ 0 \in ColSet
    BY SizeFacts, SMT DEF ColSet
  <2>5. (0 .. Cols - 1) \cap ColSet # {}
    BY <2>4, Zenon
  <2>6. s.dirty = RowSet
    BY <2>1, <2>5 DEF term_clear_screen, term_clear_cells, IsTerm
  <2> QED BY <2>3, <2>6 DEF OK
<1> HIDE DEF s
<1>3. /\ IsTerm(term') /\ Shows(lcd', term') /\ term'.dirty = {}
      /\ lcd' = [r \in RowSet |-> lcd'[r]]
  BY <1>1, <1>2, DrawShows
<1>4. ScreenInv'
  BY <1>1, <1>3 DEF Inv, ScreenInv, IsTerm, Shows, BufferOK
<1>5. RemoteInv' /\ ParserInv'
  BY <1>1 DEF Inv, RemoteInv, ParserInv, Standing, Expected
<1> QED BY <1>4, <1>5 DEF Inv

LEMMA ProgramKeeps ==
  ASSUME Inv, (\E row \in RowSet : screen_line(row)) \/ SessionEnds \/ UNCHANGED vars
  PROVE  Inv'
<1>1. UNCHANGED <<term, ansi_state, csi, writing, token, pos, logpos, interrupted>>
  BY DEF screen_line, SessionEnds, vars, parser, remote, line
<1>2. RemoteInv' /\ ParserInv'
  BY <1>1 DEF Inv, RemoteInv, ParserInv, Standing, Expected
<1>3. ScreenInv'
  <2>1. CASE \E row \in RowSet : screen_line(row)
    BY <1>1, <2>1 DEF Inv, ScreenInv, IsTerm, BufferOK, screen_line
  <2>2. CASE SessionEnds
    BY <1>1, <2>2 DEF Inv, ScreenInv, IsTerm, BufferOK, SessionEnds
  <2>3. CASE UNCHANGED vars
    BY <1>1, <2>3 DEF Inv, ScreenInv, IsTerm, BufferOK, Shows, vars
  <2> QED BY <2>1, <2>2, <2>3
<1> QED BY <1>2, <1>3 DEF Inv

\* The inductive invariant: where the cursor, the dirty rows and the parser must
\* stand after every byte.
THEOREM TermInvariance == Spec => []Inv
<1>1. Inv /\ [Next]_vars => Inv'
  <2> SUFFICES ASSUME Inv, [Next]_vars PROVE Inv'
    OBVIOUS
  <2> QED BY OutputKeeps, LogKeeps, SendKeeps, FlushKeeps, InitKeeps, ProgramKeeps DEF Next
<1> QED BY <1>1, InitInv, PTL DEF Spec

\* The cursor and the buffer of the parser stay in bounds, for every size of the
\* screen and whatever parameters come: the writes to the arrays of cells and to
\* g_ansi_csi in console_putchar are to elements they have.
THEOREM InBounds == Spec => []CursorInBounds
<1>1. Inv => CursorInBounds
  BY DEF Inv, ScreenInv, IsTerm, BufferOK, CursorInBounds
<1> QED BY <1>1, TermInvariance, PTL

\* After every write the LCD shows the cells, although only the rows marked
\* dirty were drawn.
THEOREM Shown == Spec => []ScreenShown
<1>1. Inv => ScreenShown
  <2> SUFFICES ASSUME Inv, phase = "session", ~writing PROVE lcd = term.cells
    BY DEF ScreenShown
  <2>1. \A r \in RowSet : lcd[r] = term.cells[r]
    BY DEF Inv, ScreenInv, Shows
  <2>2. lcd = [r \in RowSet |-> lcd[r]] /\ term.cells = [r \in RowSet |-> term.cells[r]]
    BY DEF Inv, ScreenInv, IsTerm
  <2>3. [r \in RowSet |-> lcd[r]] = [r \in RowSet |-> term.cells[r]]
    BY <2>1
  <2> QED BY <2>2, <2>3
<1> QED BY <1>1, TermInvariance, PTL

\* Wherever output is cut, the parser never takes a byte of a sequence for text.
THEOREM NeverOutOfStep == Spec => []InStep
<1>1. Inv => InStep
  BY DEF Inv, ParserInv, RemoteInv, Standing, Expected, InStep
<1> QED BY <1>1, TermInvariance, PTL

\* A line of the platform inside a sequence does not last beyond it.
THEOREM BackInStep == Spec => []Resynchronised
<1>1. Inv => Resynchronised
  BY DEF Inv, ParserInv, Resynchronised
<1> QED BY <1>1, TermInvariance, PTL

-----------------------------------------------------------------------------
(***************************************************************************)
(* Induction up to a number, in a form that needs no operator: a set of    *)
(* numbers that has 0 and with a number the next one has them all.         *)
(***************************************************************************)
LEMMA NatLeast ==
  ASSUME NEW S \in SUBSET Nat, S # {}
  PROVE  \E i \in S : \A j \in S : i <= j
<1> DEFINE Rel == {p \in Nat \X Nat : p[1] < p[2]}
<1>1. IsWellFoundedOn(Rel, Nat)
  BY NatLessThanWellFounded DEF OpToRel
<1>2. \E i \in S : \A j \in S : <<j, i>> \notin Rel
  <2> HIDE DEF Rel
  <2> QED
    BY <1>1, WFMin
<1>3. ASSUME NEW i \in S, NEW j \in S, <<j, i>> \notin Rel PROVE i <= j
  <2>1. <<j, i>> \in Nat \X Nat /\ i \in Nat /\ j \in Nat
    OBVIOUS
  <2>2. ~(j < i)
    BY <1>3, <2>1
  <2> QED
    BY <2>1, <2>2
<1> QED
  BY <1>2, <1>3

Steps(S, n) == \A k \in 0 .. n - 1 : k \in S => k + 1 \in S

LEMMA UpTo ==
  ASSUME NEW n \in Nat, NEW S, 0 \in S, Steps(S, n)
  PROVE  \A k \in 0 .. n : k \in S
<1> DEFINE Bad == (0 .. n) \ S
<1> SUFFICES ASSUME Bad # {} PROVE FALSE
  OBVIOUS
<1>1. PICK k \in Bad : \A j \in Bad : k <= j
  <2>1. Bad \in SUBSET Nat
    OBVIOUS
  <2> HIDE DEF Bad
  <2> QED
    BY <2>1, NatLeast
<1>2. k \in 1 .. n /\ k - 1 \in 0 .. n - 1 /\ k - 1 \notin Bad
  BY <1>1
<1>3. k - 1 \in S
  BY <1>2
<1> QED
  BY <1>1, <1>2, <1>3 DEF Steps

(***************************************************************************)
(* A fold over a sequence, by a function g of what there is and the next   *)
(* element: the recursive definition of FoldLeft has a solution.           *)
(***************************************************************************)
Folds(F, base, g, text) ==
  \A S \in SUBSET DOMAIN text :
    F[S] = IF S = {} THEN base ELSE g[<<F[S \ {Max(S)}], text[Max(S)]>>]

LEMMA FoldExists ==
  ASSUME NEW A, NEW C, NEW g \in [A \X C -> A], NEW base \in A, NEW text \in Seq(C)
  PROVE  \E F \in [SUBSET DOMAIN text -> A] : Folds(F, base, g, text)
<1> DEFINE Solves(F, k) == \A S \in SUBSET (1 .. k) :
             F[S] = IF S = {} THEN base ELSE g[<<F[S \ {Max(S)}], text[Max(S)]>>]
           Good == {k \in 0 .. Len(text) : \E F \in [SUBSET (1 .. k) -> A] : Solves(F, k)}
<1>0. Len(text) \in Nat /\ DOMAIN text = 1 .. Len(text)
  BY LenProperties
<1>1. 0 \in Good
  <2> DEFINE F == [S \in SUBSET (1 .. 0) |-> base]
  <2>1. F \in [SUBSET (1 .. 0) -> A] /\ Solves(F, 0)
    OBVIOUS
  <2>2. 0 \in 0 .. Len(text)
    BY <1>0
  <2> HIDE DEF F, Solves
  <2> QED
    BY <2>1, <2>2, Zenon
<1>2. ASSUME NEW k \in 0 .. Len(text) - 1, k \in Good PROVE k + 1 \in Good
  <2>1. PICK F \in [SUBSET (1 .. k) -> A] : Solves(F, k)
    BY <1>2
  <2> DEFINE G == [S \in SUBSET (1 .. k + 1) |->
                     IF k + 1 \in S THEN g[<<F[S \ {k + 1}], text[k + 1]>>] ELSE F[S]]
  <2>2. text[k + 1] \in C
    BY ElementOfSeq
  <2>3. ASSUME NEW S \in SUBSET (1 .. k + 1)
        PROVE  /\ k + 1 \notin S => S \in SUBSET (1 .. k)
               /\ k + 1 \in S => S \ {k + 1} \in SUBSET (1 .. k) /\ Max(S) = k + 1
    <3>1. CASE k + 1 \in S
      <4>1. \A y \in S : k + 1 >= y
        OBVIOUS
      <4>2. \A x \in S : (\A y \in S : x >= y) => x = k + 1
        BY <3>1
      <4>3. \A x : x \in S /\ (\A y \in S : x >= y) <=> x = k + 1
        BY <3>1, <4>1, <4>2
      <4>4. Max(S) = k + 1
        BY <4>3, Zenon DEF Max
      <4> QED
        BY <3>1, <4>4
    <3> QED
      BY <3>1
  <2>4. G \in [SUBSET (1 .. k + 1) -> A]
    BY <2>2, <2>3
  <2>5. ASSUME NEW S \in SUBSET (1 .. k + 1), S # {}
        PROVE  G[S] = g[<<G[S \ {Max(S)}], text[Max(S)]>>]
    <3>1. CASE k + 1 \in S
      BY <3>1, <2>3
    <3>2. CASE k + 1 \notin S
      <4>1. S \in SUBSET (1 .. k) /\ S \ {Max(S)} \in SUBSET (1 .. k)
        BY <3>2, <2>3
      <4>2. G[S] = F[S] /\ G[S \ {Max(S)}] = F[S \ {Max(S)}]
        BY <4>1, <3>2
      <4> QED
        BY <4>1, <4>2, <2>1, <2>5
    <3> QED
      BY <3>1, <3>2
  <2>6. G[{}] = base
    BY <2>1
  <2>7. Solves(G, k + 1)
    BY <2>5, <2>6
  <2> HIDE DEF G, Solves
  <2> QED
    BY <1>0, <2>4, <2>7
<1>3. Len(text) \in Good
  <2> HIDE DEF Good
  <2> QED
    BY <1>0, <1>1, <1>2, UpTo DEF Steps
<1> QED
  BY <1>0, <1>3 DEF Folds

-----------------------------------------------------------------------------
(***************************************************************************)
(* A grid of cells of Rows rows of w columns, seen as one row of numbered  *)
(* cells: what drawing, scrolling and clearing do to it.                   *)
(***************************************************************************)
Grid(w) == [0 .. Rows - 1 -> [0 .. w - 1 -> Int]]
Flat(cells, w, n) == cells[n \div w][n % w]
Cursor(s, w) == s.row * w + s.col

LEMMA Numbered ==
  ASSUME NEW w \in Nat \ {0}, NEW n \in Nat
  PROVE  /\ n \div w \in Nat /\ n % w \in 0 .. w - 1
         /\ n = (n \div w) * w + (n % w)
<1>1. n \div w \in Int /\ n % w \in 0 .. w - 1 /\ n = (n \div w) * w + (n % w)
  OBVIOUS
<1>2. n \div w >= 0
  OBVIOUS
<1> QED
  BY <1>1, <1>2

LEMMA Multiple ==
  ASSUME NEW w \in Nat, NEW q \in Nat, NEW d \in Nat
  PROVE  /\ q * w \in Nat
         /\ (q + 1) * w = q * w + w
         /\ (q + d) * w = q * w + d * w
         /\ d > 0 => d * w >= w
<1>1. q * w \in Nat /\ (q + 1) * w = q * w + w /\ (q + d) * w = q * w + d * w
  OBVIOUS
<1>2. d > 0 => d * w >= w
  <2> SUFFICES ASSUME d > 0 PROVE d * w >= w
    OBVIOUS
  <2>1. d - 1 \in Nat /\ d = (d - 1) + 1
    OBVIOUS
  <2> DEFINE e == d - 1
  <2>2. e \in Nat /\ d = e + 1
    BY <2>1
  <2> HIDE DEF e
  <2>3. (e + 1) * w = e * w + w /\ e * w \in Nat
    BY <2>2
  <2> QED
    BY <2>2, <2>3
<1> QED
  BY <1>1, <1>2

\* The place of a cell from its number, and the number from its place.
LEMMA Places ==
  ASSUME NEW w \in Nat \ {0}, NEW q \in Nat, NEW r \in 0 .. w - 1
  PROVE  (q * w + r) \div w = q /\ (q * w + r) % w = r
OBVIOUS

LEMMA InGrid ==
  ASSUME NEW w \in Nat \ {0}, NEW n \in 0 .. Rows * w - 1
  PROVE  n \div w \in 0 .. Rows - 1 /\ n % w \in 0 .. w - 1 /\ n \in Nat
<1>1. Rows \in Nat \ {0} /\ Rows * w \in Nat /\ n \in Nat
  BY TermAssumption, Multiple
<1> DEFINE p == n \div w
           m == n % w
<1>2. p \in Nat /\ m \in 0 .. w - 1 /\ n = p * w + m
  BY <1>1, Numbered
<1> HIDE DEF p, m
<1>3. ~(p >= Rows)
  <2> SUFFICES ASSUME p >= Rows PROVE FALSE
    OBVIOUS
  <2>1. p - Rows \in Nat /\ p = Rows + (p - Rows)
    BY <1>1, <1>2
  <2>2. p * w = Rows * w + (p - Rows) * w /\ (p - Rows) * w \in Nat
    BY <2>1, <1>1, Multiple
  <2>3. p * w \in Nat
    BY <1>2, Multiple
  <2> QED
    BY <1>1, <1>2, <2>2, <2>3
<1> QED
  BY <1>1, <1>2, <1>3 DEF p, m

LEMMA RowBounds ==
  ASSUME NEW w \in Nat \ {0}, NEW row \in 0 .. Rows - 1
  PROVE  /\ row * w \in Nat /\ Rows * w \in Nat
         /\ (row + 1) * w = row * w + w /\ row * w + w <= Rows * w
         /\ row + 1 = Rows => row * w + w = Rows * w
<1>1. Rows \in Nat \ {0} /\ row \in Nat
  BY TermAssumption
<1>2. row * w \in Nat /\ Rows * w \in Nat /\ (row + 1) * w = row * w + w
  BY <1>1, Multiple
<1>3. Rows - (row + 1) \in Nat /\ Rows = (row + 1) + (Rows - (row + 1)) /\ row + 1 \in Nat
  BY <1>1
<1>4. Rows * w = (row + 1) * w + (Rows - (row + 1)) * w
  BY <1>3, Multiple
<1>5. (Rows - (row + 1)) * w \in Nat
  BY <1>3, Multiple
<1> QED
  BY <1>2, <1>4, <1>5

OneCell(next, cells, w, row, col, ch) ==
  \A p \in 0 .. Rows - 1, m \in 0 .. w - 1 :
    next[p][m] = IF p = row /\ m = col THEN ch ELSE cells[p][m]
OnePlace(next, cells, w, at, ch) ==
  \A n \in 0 .. Rows * w - 1 : Flat(next, w, n) = IF n = at THEN ch ELSE Flat(cells, w, n)

LEMMA FlatPut ==
  ASSUME NEW w \in Nat \ {0}, NEW cells \in Grid(w), NEW row \in 0 .. Rows - 1,
         NEW col \in 0 .. w - 1, NEW ch \in Int,
         NEW next, OneCell(next, cells, w, row, col, ch)
  PROVE  OnePlace(next, cells, w, row * w + col, ch)
<1>0. row \in Nat
  BY TermAssumption
<1>2. ASSUME NEW n \in 0 .. Rows * w - 1
      PROVE  Flat(next, w, n)
             = IF n = row * w + col THEN ch ELSE Flat(cells, w, n)
  <2> DEFINE p == n \div w
             m == n % w
  <2>1. p \in 0 .. Rows - 1 /\ m \in 0 .. w - 1 /\ n = p * w + m
    <3>1. n \in Nat
      BY InGrid
    <3> QED
      BY <3>1, InGrid, Numbered
  <2>2. n = row * w + col => p = row /\ m = col
    <3>1. (row * w + col) \div w = row /\ (row * w + col) % w = col
      BY <1>0, Places
    <3> QED
      BY <3>1
  <2>3. Flat(next, w, n) = next[p][m]
        /\ Flat(cells, w, n) = cells[p][m]
    BY DEF Flat
  <2> HIDE DEF p, m
  <2>4. next[p][m]
        = IF p = row /\ m = col THEN ch ELSE cells[p][m]
    BY <2>1 DEF OneCell
  <2>5. p = row /\ m = col => n = row * w + col
    BY <2>1
  <2> QED
    BY <2>2, <2>3, <2>4, <2>5
<1> QED
  BY <1>2 DEF OnePlace

RowsUp(next, cells, blank) ==
  next = [row \in 0 .. Rows - 1 |-> IF row + 1 < Rows THEN cells[row + 1] ELSE blank]
PlacesUp(next, cells, w, blank) ==
  /\ \A n \in 0 .. Rows * w - 1 : n + w < Rows * w => Flat(next, w, n) = Flat(cells, w, n + w)
  /\ \A n \in 0 .. Rows * w - 1 : n + w >= Rows * w => Flat(next, w, n) = blank[n % w]

LEMMA FlatScroll ==
  ASSUME NEW w \in Nat \ {0}, NEW cells \in Grid(w), NEW blank \in [0 .. w - 1 -> Int],
         NEW next, RowsUp(next, cells, blank)
  PROVE  next \in Grid(w) /\ PlacesUp(next, cells, w, blank)
<1>1. next \in Grid(w)
  BY TermAssumption DEF Grid, RowsUp
<1>2. ASSUME NEW n \in 0 .. Rows * w - 1
      PROVE  /\ n + w < Rows * w => Flat(next, w, n) = Flat(cells, w, n + w)
             /\ n + w >= Rows * w => Flat(next, w, n) = blank[n % w]
  <2> DEFINE p == n \div w
             m == n % w
  <2>1. p \in 0 .. Rows - 1 /\ m \in 0 .. w - 1 /\ n = p * w + m
    <3>1. n \in Nat
      BY InGrid
    <3> QED
      BY <3>1, InGrid, Numbered
  <2>2. Flat(next, w, n) = next[p][m] /\ blank[n % w] = blank[m]
    BY DEF Flat
  <2> HIDE DEF p, m
  <2>3. /\ p * w \in Nat /\ Rows * w \in Nat /\ (p + 1) * w = p * w + w
        /\ p * w + w <= Rows * w /\ (p + 1 = Rows => p * w + w = Rows * w)
    BY <2>1, RowBounds
  <2>4. CASE p + 1 = Rows
    <3>1. ~(n + w < Rows * w)
      BY <2>1, <2>3, <2>4
    <3>2. next[p] = blank
      BY <2>1, <2>4, TermAssumption DEF RowsUp
    <3> QED
      BY <2>2, <3>1, <3>2
  <2>5. CASE p + 1 < Rows
    <3>1. p + 1 \in 0 .. Rows - 1 /\ p + 1 \in Nat
      BY <2>1, <2>5, TermAssumption
    <3>2. (p + 1) * w + w <= Rows * w
      BY <3>1, RowBounds
    <3>3. ~(n + w >= Rows * w) /\ n + w = (p + 1) * w + m
      BY <2>1, <2>3, <3>2
    <3>4. ((p + 1) * w + m) \div w = p + 1 /\ ((p + 1) * w + m) % w = m
      BY <2>1, <3>1, Places
    <3>5. Flat(cells, w, n + w) = cells[p + 1][m]
      BY <3>3, <3>4 DEF Flat
    <3>6. next[p] = cells[p + 1]
      BY <2>1, <2>5 DEF RowsUp
    <3> QED
      BY <2>2, <3>3, <3>5, <3>6
  <2> QED
    BY <2>1, <2>4, <2>5, TermAssumption
<1> QED
  BY <1>1, <1>2 DEF PlacesUp

(***************************************************************************)
(* What a console shows: the cells from the cursor on are blank (Clear),   *)
(* and those before it are the end of a text (Ends).                       *)
(***************************************************************************)
Clear(cells, w, cursor) ==
  \A n \in 0 .. Rows * w - 1 : n >= cursor => Flat(cells, w, n) = Blank
Ends(cells, w, cursor, text) ==
  \A k \in 1 .. Len(text) : k <= cursor => Flat(cells, w, cursor - k) = text[Len(text) + 1 - k]
Screen(s, w) == s.cells \in Grid(w) /\ s.row \in 0 .. Rows - 1 /\ s.col \in 0 .. w
Tidy(s, w, text) == /\ Screen(s, w)
                    /\ Clear(s.cells, w, Cursor(s, w))
                    /\ Ends(s.cells, w, Cursor(s, w), text)

LEMMA CursorRange ==
  ASSUME NEW w \in Nat \ {0}, NEW s, Screen(s, w)
  PROVE  /\ Cursor(s, w) \in 0 .. Rows * w /\ Rows * w \in Nat
         /\ s.col < w => Cursor(s, w) \in 0 .. Rows * w - 1
         /\ s.row * w \in Nat /\ Cursor(s, w) = s.row * w + s.col
<1>1. s.row * w \in Nat /\ Rows * w \in Nat /\ s.row * w + w <= Rows * w
  BY RowBounds DEF Screen
<1> QED
  BY <1>1 DEF Screen, Cursor

\* A character drawn at the cursor.
LEMMA Drawn ==
  ASSUME NEW w \in Nat \ {0}, NEW s, NEW text \in Seq(Int), Tidy(s, w, text), s.col < w,
         NEW ch \in Int,
         NEW t, t.cells = [s.cells EXCEPT ![s.row][s.col] = ch], t.row = s.row, t.col = s.col + 1
  PROVE  Tidy(t, w, Append(text, ch))
<1>1. Screen(s, w) /\ s.cells \in Grid(w) /\ s.row \in 0 .. Rows - 1 /\ s.col \in 0 .. w - 1
  BY DEF Tidy, Screen
<1>2. /\ Cursor(s, w) \in 0 .. Rows * w - 1 /\ Rows * w \in Nat
      /\ s.row * w \in Nat /\ Cursor(s, w) = s.row * w + s.col
  BY <1>1, CursorRange
<1>3. /\ t.cells \in Grid(w)
      /\ \A n \in 0 .. Rows * w - 1 : Flat(t.cells, w, n)
           = IF n = Cursor(s, w) THEN ch ELSE Flat(s.cells, w, n)
  <2> DEFINE cells == s.cells
             row == s.row
             col == s.col
             next == t.cells
  <2>1. cells \in Grid(w) /\ row \in 0 .. Rows - 1 /\ col \in 0 .. w - 1
        /\ next = [cells EXCEPT ![row][col] = ch] /\ Cursor(s, w) = row * w + col
    BY <1>1, <1>2
  <2> HIDE DEF cells, row, col, next
  <2>2. next \in Grid(w) /\ OneCell(next, cells, w, row, col, ch)
    BY <2>1 DEF Grid, OneCell
  <2>3. OnePlace(next, cells, w, row * w + col, ch)
    BY <2>1, <2>2, FlatPut
  <2> QED
    BY <2>1, <2>2, <2>3 DEF cells, next, OnePlace
<1>4. Cursor(t, w) = Cursor(s, w) + 1
  BY <1>1, <1>2 DEF Cursor
<1>5. Screen(t, w)
  BY <1>1, <1>3 DEF Screen
<1>6. Clear(t.cells, w, Cursor(t, w))
  BY <1>2, <1>3, <1>4, SMTT(20) DEF Tidy, Clear
<1>7. Ends(t.cells, w, Cursor(t, w), Append(text, ch))
  <2> DEFINE more == Append(text, ch)
             at == Cursor(s, w)
             len == Len(text)
  <2>1. len \in Nat /\ Len(more) = len + 1 /\ more[len + 1] = ch
        /\ \A i \in 1 .. len : more[i] = text[i]
    BY AppendProperties, LenProperties
  <2>2. at \in 0 .. Rows * w - 1
    BY <1>2
  <2>3. ASSUME NEW k \in 1 .. len + 1, k <= at + 1
        PROVE  Flat(t.cells, w, at + 1 - k) = more[len + 2 - k]
    <3>1. CASE k = 1
      <4>1. at + 1 - k = at /\ len + 2 - k = len + 1
        BY <2>1, <2>2, <3>1
      <4> HIDE DEF at, more
      <4> QED
        BY <1>3, <2>1, <2>2, <4>1 DEF at
    <3>2. CASE k # 1
      <4> DEFINE j == k - 1
      <4>1. j \in 1 .. len /\ j <= at /\ at + 1 - k = at - j /\ len + 2 - k = len + 1 - j
            /\ at - j \in 0 .. Rows * w - 1 /\ at - j # at /\ len + 1 - j \in 1 .. len
        BY <2>1, <2>2, <2>3, <3>2, <1>2
      <4>2. Flat(s.cells, w, at - j) = text[len + 1 - j]
        <5> HIDE DEF j
        <5> QED
          BY <4>1 DEF Tidy, Ends
      <4> HIDE DEF at, more, j, len
      <4>3. Flat(t.cells, w, at - j) = Flat(s.cells, w, at - j)
        BY <1>3, <4>1 DEF at
      <4>4. more[len + 1 - j] = text[len + 1 - j]
        BY <2>1, <4>1
      <4> QED
        BY <4>1, <4>2, <4>3, <4>4
    <3> QED
      BY <3>1, <3>2
  <2> HIDE DEF more
  <2>4. \A k \in 1 .. Len(more) : k <= Cursor(t, w) =>
          Flat(t.cells, w, Cursor(t, w) - k) = more[Len(more) + 1 - k]
    <3> SUFFICES ASSUME NEW k \in 1 .. Len(more), k <= Cursor(t, w)
                 PROVE  Flat(t.cells, w, Cursor(t, w) - k) = more[Len(more) + 1 - k]
      OBVIOUS
    <3>1. Cursor(t, w) = at + 1
      BY <1>4
    <3> HIDE DEF at, len
    <3>2. k \in 1 .. len + 1 /\ k <= at + 1 /\ Len(more) + 1 - k = len + 2 - k
          /\ Cursor(t, w) - k = at + 1 - k
      BY <2>1, <2>2, <3>1
    <3> QED
      BY <2>3, <3>2
  <2> QED
    BY <2>4 DEF Ends, more
<1> QED
  BY <1>5, <1>6, <1>7 DEF Tidy

LEMMA BlankInt == Blank \in Int
BY DEF Blank

\* Nothing is always shown.
LEMMA EndsNothing == ASSUME NEW cells, NEW w, NEW cursor PROVE Ends(cells, w, cursor, <<>>)
BY DEF Ends

\* A new row below the cursor: the cells and what is in them stay.
LEMMA NextRow ==
  ASSUME NEW w \in Nat \ {0}, NEW s, NEW text, Tidy(s, w, text), s.row + 1 < Rows,
         NEW t, t.cells = s.cells, t.row = s.row + 1, t.col = 0
  PROVE  Tidy(t, w, <<>>) /\ (s.col = w => Tidy(t, w, text))
<1>1. Screen(s, w) /\ s.row \in Nat /\ Rows \in Nat
  BY TermAssumption DEF Tidy, Screen
<1>2. /\ Cursor(s, w) \in Nat /\ s.row * w \in Nat /\ Cursor(s, w) = s.row * w + s.col
      /\ (s.row + 1) * w = s.row * w + w
  BY <1>1, CursorRange, RowBounds DEF Screen
<1>3. Cursor(t, w) = s.row * w + w
  BY <1>2 DEF Cursor
<1>4. Screen(t, w)
  BY <1>1 DEF Screen
<1>5. Clear(t.cells, w, Cursor(t, w))
  <2>1. Cursor(t, w) >= Cursor(s, w)
    BY <1>1, <1>2, <1>3 DEF Screen
  <2>2. Cursor(s, w) \in Int /\ Cursor(t, w) \in Int /\ \A n \in 0 .. Rows * w - 1 : n \in Int
    BY <1>2, <1>3
  <2> QED
    BY <2>1, <2>2 DEF Tidy, Clear
<1>6. s.col = w => Ends(t.cells, w, Cursor(t, w), text)
  <2>1. s.col = w => Cursor(t, w) = Cursor(s, w)
    BY <1>2, <1>3
  <2> QED
    BY <2>1 DEF Tidy
<1> QED
  BY <1>4, <1>5, <1>6, EndsNothing DEF Tidy

\* From the last row the cells move up.
LEMMA Scrolled ==
  ASSUME NEW w \in Nat \ {0}, NEW s, NEW text \in Seq(Int), Tidy(s, w, text), s.row + 1 = Rows,
         NEW blank, blank = [col \in 0 .. w - 1 |-> Blank],
         NEW t, RowsUp(t.cells, s.cells, blank), t.row = s.row, t.col = 0
  PROVE  Tidy(t, w, <<>>) /\ (s.col = w => Tidy(t, w, text))
<1>1. Screen(s, w) /\ s.cells \in Grid(w) /\ s.row \in 0 .. Rows - 1 /\ blank \in [0 .. w - 1 -> Int]
  BY DEF Tidy, Screen, Blank
<1>2. /\ Cursor(s, w) \in Nat /\ s.row * w \in Nat /\ Cursor(s, w) = s.row * w + s.col
      /\ Rows * w \in Nat /\ s.row * w + w = Rows * w
  <2>1. Cursor(s, w) \in 0 .. Rows * w /\ s.row * w \in Nat /\ Cursor(s, w) = s.row * w + s.col
        /\ Rows * w \in Nat
    BY <1>1, CursorRange
  <2>2. s.row + 1 = Rows => s.row * w + w = Rows * w
    BY <1>1, RowBounds
  <2> QED
    BY <2>1, <2>2
<1>3. Cursor(t, w) = s.row * w
  BY <1>2 DEF Cursor
<1>4. t.cells \in Grid(w) /\ PlacesUp(t.cells, s.cells, w, blank)
  BY <1>1, FlatScroll
<1>5. Screen(t, w)
  BY <1>1, <1>4 DEF Screen
<1>6. Clear(t.cells, w, Cursor(t, w))
  <2>1. ASSUME NEW n \in 0 .. Rows * w - 1, n >= Cursor(t, w) PROVE Flat(t.cells, w, n) = Blank
    <3>1. n + w >= Rows * w
      BY <1>2, <1>3, <2>1
    <3>2. n % w \in 0 .. w - 1
      BY InGrid
    <3>3. blank[n % w] = Blank
      BY <3>2
    <3> QED
      BY <1>4, <3>1, <3>3 DEF PlacesUp
  <2> QED
    BY <2>1 DEF Clear
<1>7. ASSUME s.col = w PROVE Ends(t.cells, w, Cursor(t, w), text)
  <2>1. Cursor(s, w) = Cursor(t, w) + w /\ Cursor(s, w) = Rows * w
    BY <1>2, <1>3, <1>7
  <2>2. ASSUME NEW k \in 1 .. Len(text), k <= Cursor(t, w)
        PROVE  Flat(t.cells, w, Cursor(t, w) - k) = text[Len(text) + 1 - k]
    <3>1. /\ Cursor(t, w) - k \in 0 .. Rows * w - 1 /\ Cursor(t, w) - k + w < Rows * w
          /\ (Cursor(t, w) - k) + w = Cursor(s, w) - k /\ k <= Cursor(s, w)
      <4>1. Len(text) \in Nat /\ k \in Nat /\ k > 0
        BY LenProperties
      <4> QED
        BY <4>1, <1>2, <1>3, <2>1, <2>2
    <3>2. Flat(t.cells, w, Cursor(t, w) - k) = Flat(s.cells, w, Cursor(s, w) - k)
      BY <1>4, <3>1 DEF PlacesUp
    <3>3. Flat(s.cells, w, Cursor(s, w) - k) = text[Len(text) + 1 - k]
      BY <3>1 DEF Tidy, Ends
    <3> QED
      BY <3>2, <3>3
  <2> QED
    BY <2>2 DEF Ends
<1> QED
  BY <1>5, <1>6, <1>7, EndsNothing DEF Tidy

\* A cleared screen shows nothing of any text.
LEMMA Cleared ==
  ASSUME NEW w \in Nat \ {0}, NEW text \in Seq(Int),
         NEW t, t.cells = [row \in 0 .. Rows - 1 |-> [col \in 0 .. w - 1 |-> Blank]],
         t.row = 0, t.col = 0
  PROVE  Tidy(t, w, text)
<1>1. Rows \in Nat \ {0}
  BY TermAssumption
<1>2. Screen(t, w)
  BY <1>1 DEF Screen, Grid, Blank
<1>3. Cursor(t, w) = 0
  BY DEF Cursor
<1>4. Clear(t.cells, w, 0)
  <2>1. ASSUME NEW n \in 0 .. Rows * w - 1 PROVE Flat(t.cells, w, n) = Blank
    <3>1. n \div w \in 0 .. Rows - 1 /\ n % w \in 0 .. w - 1
      BY InGrid
    <3> QED
      BY <3>1 DEF Flat
  <2> QED
    BY <2>1 DEF Clear
<1>5. Ends(t.cells, w, 0, text)
  BY LenProperties DEF Ends
<1> QED
  BY <1>2, <1>3, <1>4, <1>5 DEF Tidy

\* The cursor back by one, over a blank; at the first cell it stays.
LEMMA WentBack ==
  ASSUME NEW w \in Nat \ {0}, NEW s, NEW text \in Seq(Int), NEW last \in Int,
         Tidy(s, w, Append(text, last)),
         NEW t, t.row \in 0 .. Rows - 1, t.col \in 0 .. w - 1, t.row * w + t.col = Cursor(s, w) - 1,
         t.cells = [s.cells EXCEPT ![t.row][t.col] = Blank]
  PROVE  Tidy(t, w, text)
<1>1. Screen(s, w) /\ s.cells \in Grid(w)
  BY DEF Tidy, Screen
<1>2. Cursor(s, w) \in 0 .. Rows * w /\ Rows * w \in Nat /\ Cursor(t, w) = Cursor(s, w) - 1
  BY <1>1, CursorRange DEF Cursor
<1>3. t.cells \in Grid(w) /\ OnePlace(t.cells, s.cells, w, Cursor(t, w), Blank)
  <2> DEFINE cells == s.cells
             row == t.row
             col == t.col
             next == t.cells
  <2>1. cells \in Grid(w) /\ row \in 0 .. Rows - 1 /\ col \in 0 .. w - 1
        /\ next = [cells EXCEPT ![row][col] = Blank] /\ Cursor(t, w) = row * w + col
    BY <1>1 DEF Cursor
  <2> HIDE DEF cells, row, col, next
  <2>2. next \in Grid(w) /\ OneCell(next, cells, w, row, col, Blank)
    BY <2>1, BlankInt DEF Grid, OneCell
  <2>3. OnePlace(next, cells, w, row * w + col, Blank)
    BY <2>1, <2>2, BlankInt, FlatPut
  <2> QED
    BY <2>1, <2>2, <2>3 DEF cells, next
<1>4. Screen(t, w)
  BY <1>3 DEF Screen
<1>5. Clear(t.cells, w, Cursor(t, w))
  <2>1. ASSUME NEW n \in 0 .. Rows * w - 1, n >= Cursor(t, w) PROVE Flat(t.cells, w, n) = Blank
    <3>1. n = Cursor(t, w) \/ n >= Cursor(s, w)
      BY <1>2, <2>1
    <3> QED
      BY <1>3, <3>1 DEF OnePlace, Tidy, Clear
  <2> QED
    BY <2>1 DEF Clear
<1>6. Ends(t.cells, w, Cursor(t, w), text)
  <2> DEFINE more == Append(text, last)
             len == Len(text)
  <2>1. len \in Nat /\ Len(more) = len + 1 /\ \A i \in 1 .. len : more[i] = text[i]
    BY AppendProperties, LenProperties
  <2>2. ASSUME NEW k \in 1 .. len, k <= Cursor(t, w)
        PROVE  Flat(t.cells, w, Cursor(t, w) - k) = text[len + 1 - k]
    <3> DEFINE j == k + 1
    <3>1. /\ j \in 1 .. len + 1 /\ j <= Cursor(s, w) /\ Cursor(t, w) - k = Cursor(s, w) - j
          /\ len + 1 - k = len + 2 - j /\ len + 1 - k \in 1 .. len
          /\ Cursor(t, w) - k \in 0 .. Rows * w - 1 /\ Cursor(t, w) - k # Cursor(t, w)
          /\ Len(more) + 1 - j = len + 1 - k
      <4> DEFINE c == Cursor(s, w)
                 d == Cursor(t, w)
                 m == Rows * w
      <4>1. c \in 0 .. m /\ m \in Nat /\ d = c - 1 /\ k \in 1 .. len /\ k <= d /\ len \in Nat
            /\ Len(more) = len + 1
        BY <1>2, <2>1, <2>2
      <4> HIDE DEF more, len, c, d, m
      <4>2. /\ j \in 1 .. len + 1 /\ j <= c /\ d - k = c - j
            /\ len + 1 - k = len + 2 - j /\ len + 1 - k \in 1 .. len
            /\ d - k \in 0 .. m - 1 /\ d - k # d /\ Len(more) + 1 - j = len + 1 - k
        BY <4>1, SMTT(20)
      <4> QED
        BY <4>2 DEF c, d, m
    <3> HIDE DEF j, more
    <3>2. Flat(s.cells, w, Cursor(s, w) - j) = more[Len(more) + 1 - j]
      BY <2>1, <3>1 DEF Tidy, Ends, more
    <3>3. Flat(t.cells, w, Cursor(t, w) - k) = Flat(s.cells, w, Cursor(t, w) - k)
      BY <1>3, <3>1 DEF OnePlace
    <3>4. more[len + 1 - k] = text[len + 1 - k]
      BY <2>1, <3>1
    <3> HIDE DEF len
    <3> QED
      BY <3>1, <3>2, <3>3, <3>4
  <2> QED
    BY <2>2 DEF Ends
<1> QED
  BY <1>4, <1>5, <1>6 DEF Tidy

\* At the first cell nothing is shown before the cursor.
LEMMA AtStart ==
  ASSUME NEW w \in Nat \ {0}, NEW s, NEW text \in Seq(Int), NEW other,
         Tidy(s, w, other), s.row = 0, s.col = 0
  PROVE  Tidy(s, w, text)
<1>1. Cursor(s, w) = 0
  BY DEF Cursor
<1>2. Ends(s.cells, w, 0, text)
  BY LenProperties DEF Ends
<1> QED
  BY <1>1, <1>2 DEF Tidy

\* One column back, or the last column of the row above.
LEMMA OneBack ==
  ASSUME NEW w \in Nat \ {0}, NEW s, Screen(s, w)
  PROVE  /\ s.col > 0 => s.row * w + (s.col - 1) = Cursor(s, w) - 1
         /\ s.col = 0 /\ s.row > 0 => (s.row - 1) * w + (w - 1) = Cursor(s, w) - 1
<1>1. s.row * w \in Nat /\ Cursor(s, w) = s.row * w + s.col /\ s.row \in Nat /\ s.col \in Nat
  BY CursorRange, TermAssumption DEF Screen
<1>2. s.row > 0 => s.row * w = (s.row - 1) * w + w
  <2> SUFFICES ASSUME s.row > 0 PROVE s.row * w = (s.row - 1) * w + w
    OBVIOUS
  <2> DEFINE q == s.row - 1
  <2>1. q \in Nat /\ s.row = q + 1
    BY <1>1
  <2> HIDE DEF q
  <2>2. (q + 1) * w = q * w + w
    BY <2>1, Multiple
  <2> QED
    BY <2>1, <2>2 DEF q
<1>3. (s.row - 1) * w \in Int
  BY <1>1
<1> QED
  BY <1>1, <1>2, <1>3

-----------------------------------------------------------------------------
(***************************************************************************)
(* The console of the program without the SDK.                             *)
(***************************************************************************)
Text == Seq(0 .. 255 \ {13})
BareScreens == [cells : Grid(Cols), row : 0 .. Rows - 1, col : 0 .. Cols]

Redrawn(t, s, cells, row, col) == t = [s EXCEPT !.cells = cells, !.row = row, !.col = col]

LEMMA BareRecord ==
  ASSUME NEW t, NEW s \in BareScreens, NEW cells \in Grid(Cols), NEW row \in 0 .. Rows - 1, NEW col \in 0 .. Cols,
         Redrawn(t, s, cells, row, col)
  PROVE  t \in BareScreens /\ t.cells = cells /\ t.row = row /\ t.col = col
<1> DEFINE grid == Grid(Cols)
           rows == 0 .. Rows - 1
           cols == 0 .. Cols
<1>1. s \in [cells : grid, row : rows, col : cols] /\ cells \in grid /\ row \in rows /\ col \in cols
  BY DEF BareScreens
<1> HIDE DEF grid, rows, cols
<1>2. t \in [cells : grid, row : rows, col : cols]
  BY <1>1 DEF Redrawn
<1>3. t.cells = cells /\ t.row = row /\ t.col = col
  BY <1>1 DEF Redrawn
<1> QED
  BY <1>2, <1>3 DEF BareScreens, grid, rows, cols

LEMMA BareNewline ==
  ASSUME NEW s \in BareScreens, NEW text \in Seq(Int), Tidy(s, Cols, text)
  PROVE  /\ Bare!repl_console_newline(s) \in BareScreens
         /\ Tidy(Bare!repl_console_newline(s), Cols, <<>>)
         /\ s.col = Cols => Tidy(Bare!repl_console_newline(s), Cols, text)
         /\ Bare!repl_console_newline(s).col = 0
<1> DEFINE t == Bare!repl_console_newline(s)
<1>1. s.row \in 0 .. Rows - 1 /\ Rows \in Nat \ {0} /\ Cols \in Nat \ {0} /\ s.cells \in Grid(Cols)
  BY TermAssumption DEF BareScreens
<1>2. CASE s.row + 1 >= Rows
  <2>1. t = [cells |-> Bare!Blank, row |-> 0, col |-> 0]
    BY <1>2 DEF Bare!repl_console_newline
  <2>2. Bare!Blank = [row \in 0 .. Rows - 1 |-> [col \in 0 .. Cols - 1 |-> Blank]]
    BY DEF Bare!Blank, Bare!Space, Blank
  <2>3. Bare!Blank \in Grid(Cols)
    BY <2>2, BlankInt DEF Grid
  <2>4. t \in BareScreens
    BY <1>1, <2>1, <2>3 DEF BareScreens
  <2>5. t.cells = Bare!Blank /\ t.row = 0 /\ t.col = 0
    BY <2>1
  <2>6. Tidy(t, Cols, text)
    BY <1>1, <2>2, <2>5, Cleared
  <2> HIDE DEF t
  <2>7. Tidy(t, Cols, <<>>)
    BY <2>6, EndsNothing DEF Tidy
  <2> QED
    BY <2>4, <2>5, <2>6, <2>7 DEF t
<1>3. CASE s.row + 1 < Rows
  <2>1. t = [s EXCEPT !.col = 0, !.row = s.row + 1]
    BY <1>1, <1>3 DEF Bare!repl_console_newline, BareScreens
  <2>2. Redrawn(t, s, s.cells, s.row + 1, 0)
    BY <2>1 DEF BareScreens, Redrawn
  <2>a. s.row + 1 \in 0 .. Rows - 1 /\ 0 \in 0 .. Cols
    BY <1>1, <1>3
  <2> HIDE DEF t
  <2>3. t \in BareScreens /\ t.cells = s.cells /\ t.row = s.row + 1 /\ t.col = 0
    BY <1>1, <2>2, <2>a, BareRecord
  <2> HIDE DEF t
  <2>4. Tidy(t, Cols, <<>>) /\ (s.col = Cols => Tidy(t, Cols, text))
    BY <1>1, <1>3, <2>3, NextRow
  <2> QED
    BY <2>3, <2>4 DEF t
<1> QED
  BY <1>1, <1>2, <1>3

LEMMA BarePut ==
  ASSUME NEW s \in BareScreens, NEW text \in Seq(Int), Tidy(s, Cols, text), NEW ch \in 0 .. 255 \ {13}
  PROVE  /\ Bare!repl_console_putchar(s, ch) \in BareScreens
         /\ Tidy(Bare!repl_console_putchar(s, ch), Cols, <<>>)
         /\ ch \in 32 .. 126 => Tidy(Bare!repl_console_putchar(s, ch), Cols, Append(text, ch))
<1> DEFINE t == Bare!repl_console_putchar(s, ch)
<1>1. Rows \in Nat \ {0} /\ Cols \in Nat \ {0} /\ ch \in Int
  BY TermAssumption
<1>2. CASE ch = 10
  <2>1. t = Bare!repl_console_newline(s)
    BY <1>2 DEF Bare!repl_console_putchar
  <2> QED
    BY <1>2, <2>1, BareNewline
<1>3. CASE ch \in 32 .. 126
  <2> DEFINE at == IF s.col >= Cols THEN Bare!repl_console_newline(s) ELSE s
             next == [at.cells EXCEPT ![at.row][at.col] = ch]
  <2>1. at \in BareScreens /\ Tidy(at, Cols, text) /\ at.col < Cols
    <3>1. s.col \in 0 .. Cols
      BY DEF BareScreens
    <3>2. CASE s.col >= Cols
      <4>1. s.col = Cols /\ at = Bare!repl_console_newline(s)
        BY <1>1, <3>1, <3>2
      <4> QED
        BY <1>1, <4>1, BareNewline
    <3>3. CASE ~(s.col >= Cols)
      BY <1>1, <3>1, <3>3
    <3> QED
      BY <3>2, <3>3
  <2>2. t = [Bare!repl_draw_cell(at, at.row, at.col, ch) EXCEPT !.col = @ + 1]
    BY <1>3 DEF Bare!repl_console_putchar
  <2> HIDE DEF at
  <2>3. at.row \in 0 .. Rows - 1 /\ at.col \in 0 .. Cols - 1 /\ at.cells \in Grid(Cols)
    BY <1>1, <2>1 DEF BareScreens
  <2>4. next \in Grid(Cols)
    BY <1>1, <2>3 DEF Grid
  <2>5. Redrawn(t, at, next, at.row, at.col + 1)
    BY <2>1, <2>2 DEF Bare!repl_draw_cell, BareScreens, Redrawn
  <2>a. at.col + 1 \in 0 .. Cols
    BY <1>1, <2>3
  <2> HIDE DEF next, t
  <2>6. t.cells = next /\ t.row = at.row /\ t.col = at.col + 1 /\ t \in BareScreens
    BY <2>1, <2>3, <2>4, <2>5, <2>a, BareRecord
  <2>7. Tidy(t, Cols, Append(text, ch))
    BY <1>1, <2>1, <2>6, Drawn DEF next
  <2>8. Tidy(t, Cols, <<>>)
    BY <2>7, EndsNothing DEF Tidy
  <2> QED
    BY <2>6, <2>7, <2>8 DEF t
<1>4. CASE ch # 10 /\ ch \notin 32 .. 126
  <2>1. t = s
    BY <1>4 DEF Bare!repl_console_putchar
  <2>2. Tidy(s, Cols, <<>>)
    BY EndsNothing DEF Tidy
  <2> QED
    BY <1>4, <2>1, <2>2
<1> QED
  BY <1>2, <1>3, <1>4

LEMMA BareBack ==
  ASSUME NEW s \in BareScreens, NEW text \in Seq(Int), NEW last \in Int,
         Tidy(s, Cols, Append(text, last))
  PROVE  /\ Bare!repl_console_backspace(s) \in BareScreens
         /\ Tidy(Bare!repl_console_backspace(s), Cols, text)
<1> DEFINE t == Bare!repl_console_backspace(s)
<1>1. Rows \in Nat \ {0} /\ Cols \in Nat \ {0}
  BY TermAssumption
<1>2. s.row \in 0 .. Rows - 1 /\ s.col \in 0 .. Cols /\ s.cells \in Grid(Cols) /\ Screen(s, Cols)
  BY DEF BareScreens, Screen
<1>3. ASSUME NEW row \in 0 .. Rows - 1, NEW col \in 0 .. Cols - 1,
             row * Cols + col = Cursor(s, Cols) - 1,
             t = Bare!repl_draw_cell([s EXCEPT !.row = row, !.col = col], row, col, Blank)
      PROVE  t \in BareScreens /\ Tidy(t, Cols, text)
  <2> DEFINE next == [s.cells EXCEPT ![row][col] = Blank]
  <2>1. next \in Grid(Cols)
    BY <1>2, BlankInt DEF Grid
  <2>2. Redrawn(t, s, next, row, col)
    BY <1>3 DEF Bare!repl_draw_cell, BareScreens, Redrawn
  <2>a. col \in 0 .. Cols
    BY <1>1
  <2> HIDE DEF next, t
  <2>3. t.cells = next /\ t.row = row /\ t.col = col /\ t \in BareScreens
    BY <2>1, <2>2, <2>a, BareRecord
  <2>4. Tidy(t, Cols, text)
    BY <1>1, <1>3, <2>3, WentBack DEF next
  <2> QED
    BY <2>3, <2>4
<1>4. Bare!Space = Blank
  BY DEF Bare!Space, Blank
<1>5. CASE s.col > 0
  <2>1. t = Bare!repl_draw_cell([s EXCEPT !.row = s.row, !.col = s.col - 1], s.row, s.col - 1, Blank)
    BY <1>4, <1>5 DEF Bare!repl_console_backspace
  <2>2. s.col - 1 \in 0 .. Cols - 1 /\ s.row * Cols + (s.col - 1) = Cursor(s, Cols) - 1
    BY <1>1, <1>2, <1>5, OneBack
  <2> HIDE DEF t
  <2> QED
    BY <1>2, <1>3, <2>1, <2>2 DEF t
<1>6. CASE s.col = 0 /\ s.row > 0
  <2>1. t = Bare!repl_draw_cell([s EXCEPT !.row = s.row - 1, !.col = Cols - 1], s.row - 1, Cols - 1, Blank)
    BY <1>4, <1>6 DEF Bare!repl_console_backspace
  <2>2. /\ s.row - 1 \in 0 .. Rows - 1 /\ Cols - 1 \in 0 .. Cols - 1
        /\ (s.row - 1) * Cols + (Cols - 1) = Cursor(s, Cols) - 1
    BY <1>1, <1>2, <1>6, OneBack
  <2> HIDE DEF t
  <2> QED
    BY <1>3, <2>1, <2>2 DEF t
<1>7. CASE s.col = 0 /\ s.row = 0
  <2>1. t = s
    BY <1>7 DEF Bare!repl_console_backspace
  <2> QED
    BY <1>1, <1>7, <2>1, AtStart
<1> QED
  BY <1>1, <1>2, <1>5, <1>6, <1>7

LEMMA LastIn ==
  ASSUME NEW n \in Nat, NEW S \in SUBSET (1 .. n), S # {}
  PROVE  Max(S) \in S
<1> DEFINE T == {n - i : i \in S}
<1>1. T \in SUBSET Nat /\ T # {}
  <2>1. \A i \in S : n - i \in Nat
    OBVIOUS
  <2> QED
    BY <2>1
<1>2. PICK m \in T : \A j \in T : m <= j
  <2> HIDE DEF T
  <2> QED
    BY <1>1, NatLeast
<1>3. PICK i \in S : m = n - i
  BY <1>2
<1>4. \A j \in S : i >= j
  <2> SUFFICES ASSUME NEW j \in S PROVE i >= j
    OBVIOUS
  <2>1. n - j \in T
    OBVIOUS
  <2>2. n - i <= n - j
    BY <1>2, <1>3, <2>1
  <2> QED
    BY <2>2
<1> QED
  BY <1>4, Zenon DEF Max

\* The elements of a sequence are folded in in their order.
LEMMA LastOf ==
  ASSUME NEW k \in Nat \ {0}
  PROVE  Max(1 .. k) = k /\ (1 .. k) \ {Max(1 .. k)} = 1 .. k - 1 /\ 1 .. k # {}
<1>1. \A x : x \in 1 .. k /\ (\A y \in 1 .. k : x >= y) <=> x = k
  OBVIOUS
<1>2. Max(1 .. k) = k
  BY <1>1, Zenon DEF Max
<1>3. (1 .. k) \ {k} = 1 .. k - 1 /\ k \in 1 .. k
  OBVIOUS
<1> QED
  BY <1>2, <1>3

\* The screens on the way from a screen to what a text makes of it.
Orderly == {s \in BareScreens : Tidy(s, Cols, <<>>)}

LEMMA BareWritten ==
  ASSUME NEW s \in Orderly, NEW text \in Text
  PROVE  \E h : /\ h[0] = s /\ h[Len(text)] = Bare!solve_platform_write(s, text)
                /\ \A k \in 1 .. Len(text) : h[k] = Bare!repl_console_putchar(h[k - 1], text[k])
<1> DEFINE Ch == 0 .. 255 \ {13}
           g == [p \in Orderly \X Ch |-> Bare!repl_console_putchar(p[1], p[2])]
           Eq(F) == F = [S \in SUBSET DOMAIN text |->
                           IF S = {} THEN s ELSE Bare!repl_console_putchar(F[S \ {Max(S)}], text[Max(S)])]
           Z == CHOOSE F : Eq(F)
<1>0. Len(text) \in Nat /\ DOMAIN text = 1 .. Len(text) /\ text \in Seq(Ch)
  BY LenProperties DEF Text
<1>1. Bare!solve_platform_write(s, text) = Z[DOMAIN text]
  BY DEF Bare!solve_platform_write, Bare!FoldLeft, Bare!MapThenFoldSet, Bare!Max, Max
<1>2. ASSUME NEW a \in Orderly, NEW c \in Ch PROVE Bare!repl_console_putchar(a, c) \in Orderly
  BY BarePut, EmptySeq DEF Orderly
<1>3. g \in [Orderly \X Ch -> Orderly]
  BY <1>2
<1>4. PICK F \in [SUBSET DOMAIN text -> Orderly] : Folds(F, s, g, text)
  <2> HIDE DEF g, Ch
  <2> QED
    BY <1>0, <1>3, FoldExists
<1>5. ASSUME NEW S \in SUBSET DOMAIN text, S # {}
      PROVE  g[<<F[S \ {Max(S)}], text[Max(S)]>>] = Bare!repl_console_putchar(F[S \ {Max(S)}], text[Max(S)])
  <2>1. Max(S) \in S
    BY <1>0, <1>5, LastIn
  <2>2. text[Max(S)] \in Ch /\ S \ {Max(S)} \in SUBSET DOMAIN text
    BY <1>0, <2>1, ElementOfSeq
  <2>3. F[S \ {Max(S)}] \in Orderly
    BY <2>2
  <2> QED
    BY <2>2, <2>3
<1>6. Eq(F)
  <2>1. F = [S \in SUBSET DOMAIN text |-> F[S]]
    OBVIOUS
  <2> QED
    BY <1>4, <1>5, <2>1 DEF Folds
<1>7. Eq(Z)
  <2> HIDE DEF Eq
  <2> QED
    BY <1>6, Zenon
<1> HIDE DEF Z, g, Ch
<1> DEFINE h == [k \in 0 .. Len(text) |-> Z[1 .. k]]
<1>8. h[0] = s
  BY <1>0, <1>7
<1>9. ASSUME NEW k \in 1 .. Len(text) PROVE h[k] = Bare!repl_console_putchar(h[k - 1], text[k])
  <2>1. Max(1 .. k) = k /\ (1 .. k) \ {Max(1 .. k)} = 1 .. k - 1 /\ 1 .. k # {}
    BY <1>0, LastOf
  <2>2. 1 .. k \in SUBSET DOMAIN text
    BY <1>0
  <2>3. Z[1 .. k] = Bare!repl_console_putchar(Z[1 .. k - 1], text[k])
    BY <1>7, <2>1, <2>2
  <2> QED
    BY <1>0, <2>3
<1>10. h[Len(text)] = Z[DOMAIN text]
  BY <1>0
<1> HIDE DEF h
<1> QED
  BY <1>1, <1>8, <1>9, <1>10

\* The first elements of a text, one more at a time.
LEMMA PrefixGrows ==
  ASSUME NEW text \in Seq(Int), NEW j \in 0 .. Len(text) - 1
  PROVE  SubSeq(text, 1, j + 1) = Append(SubSeq(text, 1, j), text[j + 1])
         /\ SubSeq(text, 1, j) \in Seq(Int)
<1>1. Len(text) \in Nat
  BY LenProperties
<1>2. SubSeq(text, 1, j) \in Seq(Int) /\ Len(SubSeq(text, 1, j)) = j
      /\ \A i \in 1 .. j : SubSeq(text, 1, j)[i] = text[i]
  BY <1>1, SubSeqProperties
<1>3. SubSeq(text, 1, j + 1) \in Seq(Int) /\ Len(SubSeq(text, 1, j + 1)) = j + 1
      /\ \A i \in 1 .. j + 1 : SubSeq(text, 1, j + 1)[i] = text[i]
  BY <1>1, SubSeqProperties
<1>4. text[j + 1] \in Int
  BY <1>1, ElementOfSeq
<1> DEFINE a == SubSeq(text, 1, j + 1)
           b == SubSeq(text, 1, j)
<1> HIDE DEF a, b
<1>5. a = Append(b, text[j + 1])
  <2>1. Append(b, text[j + 1]) \in Seq(Int) /\ Len(Append(b, text[j + 1])) = j + 1
        /\ Append(b, text[j + 1])[j + 1] = text[j + 1]
        /\ \A i \in 1 .. j : Append(b, text[j + 1])[i] = b[i]
    BY <1>2, <1>4, AppendProperties DEF b
  <2>2. \A i \in 1 .. j + 1 : a[i] = Append(b, text[j + 1])[i]
    BY <1>2, <1>3, <2>1 DEF a, b
  <2> QED
    BY <1>3, <2>1, <2>2, SeqEqual DEF a
<1> QED
  BY <1>2, <1>5 DEF a, b

LEMMA Printables ==
  ASSUME NEW text \in Seq(32 .. 126)
  PROVE  text \in Text /\ text \in Seq(Int)
<1> DEFINE A == 32 .. 126
           B == 0 .. 255 \ {13}
<1>1. A \subseteq B /\ A \subseteq Int /\ text \in Seq(A)
  OBVIOUS
<1> HIDE DEF A, B
<1>2. text \in Seq(B) /\ text \in Seq(Int)
  BY <1>1, SeqMonotonic
<1> QED
  BY <1>2 DEF Text, B

\* A text and a prompt after it.
LEMMA Joined ==
  ASSUME NEW text \in Text, NEW prompt \in Seq(32 .. 126)
  PROVE  LET all == text \o prompt
             n == Len(text)
             m == Len(prompt)
         IN  /\ n \in Nat /\ m \in Nat /\ Len(all) = n + m /\ all \in Text
             /\ \A k \in 1 .. n : all[k] = text[k]
             /\ \A k \in 1 .. m : all[n + k] = prompt[k]
<1> DEFINE all == text \o prompt
           n == Len(text)
           m == Len(prompt)
<1>1. prompt \in Text
  BY Printables
<1>2. all \in Text /\ Len(all) = n + m
  BY <1>1, ConcatProperties DEF Text
<1>3. ASSUME NEW k \in 1 .. n PROVE all[k] = text[k]
  BY <1>1, ConcatProperties, LenProperties DEF Text
<1>4. ASSUME NEW k \in 1 .. m PROVE all[n + k] = prompt[k]
  <2>1. n \in Nat /\ m \in Nat /\ n + k \in 1 .. n + m /\ ~(n + k <= n) /\ n + k - n = k
    BY LenProperties
  <2> QED
    BY <1>1, <2>1, ConcatProperties DEF Text
<1> QED
  BY <1>2, <1>3, <1>4, LenProperties

\* A prompt after any text is shown.
LEMMA BarePrompted ==
  ASSUME NEW s \in Orderly, NEW text \in Text, NEW prompt \in Seq(32 .. 126)
  PROVE  /\ Bare!solve_platform_write(s, text \o prompt) \in BareScreens
         /\ Tidy(Bare!solve_platform_write(s, text \o prompt), Cols, prompt)
<1> DEFINE all == text \o prompt
           n == Len(text)
           m == Len(prompt)
<1>1. /\ n \in Nat /\ m \in Nat /\ Len(all) = n + m /\ all \in Text
      /\ \A k \in 1 .. n : all[k] = text[k]
      /\ \A k \in 1 .. m : all[n + k] = prompt[k]
  BY Joined
<1> HIDE DEF all, n, m
<1>2. PICK h : /\ h[0] = s /\ h[n + m] = Bare!solve_platform_write(s, all)
               /\ \A k \in 1 .. n + m : h[k] = Bare!repl_console_putchar(h[k - 1], all[k])
  <2>1. \E h : /\ h[0] = s /\ h[Len(all)] = Bare!solve_platform_write(s, all)
               /\ \A k \in 1 .. Len(all) : h[k] = Bare!repl_console_putchar(h[k - 1], all[k])
    BY <1>1, BareWritten
  <2> QED
    BY <1>1, <2>1, Zenon
<1>3. \A k \in 1 .. n + m : all[k] \in 0 .. 255 \ {13}
  BY <1>1, ElementOfSeq DEF Text
<1>4. h[n] \in Orderly
  <2> DEFINE S == {k \in 0 .. n : h[k] \in Orderly}
  <2>1. 0 \in S
    BY <1>1, <1>2
  <2>2. ASSUME NEW k \in 0 .. n - 1, k \in S PROVE k + 1 \in S
    <3>1. k + 1 \in 1 .. n + m /\ k + 1 - 1 = k /\ k + 1 \in 0 .. n /\ k \in Nat
      BY <1>1
    <3>2. h[k + 1] = Bare!repl_console_putchar(h[k], all[k + 1]) /\ all[k + 1] \in 0 .. 255 \ {13}
      BY <1>2, <1>3, <3>1
    <3>3. h[k] \in Orderly
      BY <2>2
    <3>4. h[k + 1] \in Orderly
      BY <3>2, <3>3, BarePut, EmptySeq DEF Orderly
    <3> QED
      BY <3>1, <3>4
  <2> HIDE DEF S
  <2>3. Steps(S, n)
    BY <2>2 DEF Steps
  <2>4. n \in S
    BY <1>1, <2>1, <2>3, UpTo
  <2> QED
    BY <2>4 DEF S
<1>5. h[n + m] \in BareScreens /\ Tidy(h[n + m], Cols, prompt)
  <2> DEFINE shown(j) == SubSeq(prompt, 1, j)
             S == {j \in 0 .. m : h[n + j] \in BareScreens /\ Tidy(h[n + j], Cols, shown(j))}
  <2>1. 0 \in S
    <3>1. shown(0) = <<>> /\ 0 \in 0 .. m /\ n + 0 = n
      BY <1>1, SubSeqEmpty
    <3> HIDE DEF shown
    <3> QED
      BY <1>4, <3>1 DEF Orderly
  <2>2. ASSUME NEW j \in 0 .. m - 1, j \in S PROVE j + 1 \in S
    <3> DEFINE at == n + j
    <3>1. /\ at \in Nat /\ at + 1 \in 1 .. n + m /\ (at + 1) - 1 = at /\ j + 1 \in 1 .. m /\ j + 1 \in 0 .. m
          /\ n + (j + 1) = at + 1
      BY <1>1
    <3>2. h[at + 1] = Bare!repl_console_putchar(h[at], all[at + 1])
          /\ all[at + 1] \in 0 .. 255 \ {13}
      <4> HIDE DEF at
      <4> QED
        BY <1>2, <1>3, <3>1
    <3>3. all[at + 1] = prompt[j + 1] /\ prompt[j + 1] \in 32 .. 126
      <4>1. all[n + (j + 1)] = prompt[j + 1]
        BY <1>1, <3>1
      <4>2. prompt[j + 1] \in 32 .. 126
        BY <3>1, ElementOfSeq DEF m
      <4> HIDE DEF at
      <4> QED
        BY <3>1, <4>1, <4>2
    <3>4. shown(j + 1) = Append(shown(j), prompt[j + 1]) /\ shown(j) \in Seq(Int)
      <4>2. prompt \in Seq(Int)
        BY Printables
      <4> QED
        BY <1>1, <3>1, <4>2, PrefixGrows DEF m
    <3> HIDE DEF shown
    <3>5. h[at + 1] \in BareScreens /\ Tidy(h[at + 1], Cols, shown(j + 1))
      <4>1. h[at] \in BareScreens /\ Tidy(h[at], Cols, shown(j))
        BY <2>2
      <4> HIDE DEF at
      <4> QED
        BY <3>2, <3>3, <3>4, <4>1, BarePut
    <3> QED
      BY <3>1, <3>5
  <2>3. m \in S
    <3> HIDE DEF S
    <3>1. Steps(S, m)
      BY <2>2 DEF Steps
    <3> QED
      BY <1>1, <2>1, <3>1, UpTo
  <2>4. shown(m) = prompt
    BY <1>1, SubSeqFull DEF m
  <2> QED
    BY <2>3, <2>4
<1> QED
  BY <1>2, <1>5 DEF all

\* One more character after the prompt and the line, and one less.
LEMMA LongerLine ==
  ASSUME NEW prompt \in Seq(32 .. 126), NEW typing \in Seq(32 .. 126), NEW ch \in 32 .. 126
  PROVE  /\ prompt \o Append(typing, ch) = Append(prompt \o typing, ch)
         /\ prompt \o typing \in Seq(Int) /\ Append(typing, ch) \in Seq(32 .. 126)
<1> DEFINE C == 32 .. 126
<1>1. prompt \in Seq(C) /\ typing \in Seq(C) /\ ch \in C
  OBVIOUS
<1>2. prompt \o typing \in Seq(C)
  <2> HIDE DEF C
  <2> QED
    BY <1>1, ConcatProperties
<1>3. prompt \o typing \in Seq(Int)
  BY <1>2, Printables
<1> HIDE DEF C
<1>4. <<ch>> \in Seq(C) /\ Append(typing, ch) \in Seq(C) /\ Append(typing, ch) = typing \o <<ch>>
      /\ Append(prompt \o typing, ch) = (prompt \o typing) \o <<ch>>
  BY <1>1, <1>2, AppendProperties, AppendIsConcat
<1>5. prompt \o (typing \o <<ch>>) = (prompt \o typing) \o <<ch>>
  BY <1>1, <1>4, ConcatAssociative
<1> QED
  BY <1>3, <1>4, <1>5 DEF C

LEMMA ShorterLine ==
  ASSUME NEW typing \in Seq(32 .. 126), typing # <<>>
  PROVE  \E last \in 32 .. 126 : /\ typing = Append(Bare!Front(typing), last) /\ Bare!Front(typing) \in Seq(32 .. 126)
<1> DEFINE C == 32 .. 126
           n == Len(typing)
           front == SubSeq(typing, 1, n - 1)
<1>1. typing \in Seq(C) /\ n \in Nat \ {0} /\ \A i \in 1 .. n : typing[i] \in C
  BY EmptySeq, LenProperties, ElementOfSeq
<1> HIDE DEF C
<1>2. front \in Seq(C) /\ Len(front) = n - 1 /\ \A i \in 1 .. n - 1 : front[i] = typing[i]
  <2> HIDE DEF n
  <2>1. n - 1 \in Int /\ \A i \in 1 .. n - 1 : typing[i] \in C
    BY <1>1
  <2>2. /\ front \in Seq(C) /\ Len(front) = IF 1 <= n - 1 THEN n - 1 - 1 + 1 ELSE 0
        /\ \A i \in 1 .. n - 1 - 1 + 1 : front[i] = typing[1 + i - 1]
    BY <2>1, SubSeqProperties
  <2>3. \A i \in 1 .. n - 1 : i \in 1 .. n - 1 - 1 + 1 /\ 1 + i - 1 = i
    BY <1>1
  <2> HIDE DEF front
  <2> QED
    BY <1>1, <2>2, <2>3
<1> HIDE DEF front
<1>3. Append(front, typing[n]) \in Seq(C) /\ Len(Append(front, typing[n])) = n
      /\ \A i \in 1 .. n : Append(front, typing[n])[i] = typing[i]
  <2>1. typing[n] \in C /\ n - 1 \in Nat
    BY <1>1
  <2>2. /\ Append(front, typing[n]) \in Seq(C) /\ Len(Append(front, typing[n])) = Len(front) + 1
        /\ \A i \in 1 .. Len(front) : Append(front, typing[n])[i] = front[i]
        /\ Append(front, typing[n])[Len(front) + 1] = typing[n]
    BY <1>2, <2>1, AppendProperties
  <2> HIDE DEF n
  <2> QED
    BY <1>1, <1>2, <2>2
<1>4. typing = Append(front, typing[n])
  BY <1>1, <1>3, SeqEqual
<1>5. Bare!Front(typing) = front
  BY DEF Bare!Front, front
<1>6. typing[n] \in C
  BY <1>1
<1> HIDE DEF n
<1> QED
  BY <1>2, <1>4, <1>5, <1>6 DEF C

BareInv ==
  running => /\ screen \in BareScreens /\ bare_line \in Seq(32 .. 126)
             /\ Tidy(screen, Cols, BarePrompt \o bare_line)

\* What the texts are, from the assumption.
LEMMA BareTexts ==
  /\ BarePrompt \in Seq(32 .. 126) /\ Banner \in Text /\ <<>> \in Text
  /\ \A output \in Outputs : output \in Text
BY ConsolesAssumption, EmptySeq DEF Bare!BareAssumption, Bare!Printable, Text

LEMMA BareStarts == Bare!BareInit => BareInv
<1> SUFFICES ASSUME Bare!BareInit PROVE BareInv
  OBVIOUS
<1> DEFINE s == [cells |-> Bare!Blank, row |-> 0, col |-> 0]
<1>1. screen = Bare!solve_platform_write(s, Banner \o BarePrompt) /\ bare_line = <<>>
  BY DEF Bare!BareInit
<1>2. Bare!Blank = [row \in 0 .. Rows - 1 |-> [col \in 0 .. Cols - 1 |-> Blank]]
  BY DEF Bare!Blank, Bare!Space, Blank
<1>3. Bare!Blank \in Grid(Cols) /\ 0 \in 0 .. Rows - 1 /\ 0 \in 0 .. Cols /\ Cols \in Nat \ {0}
  BY <1>2, BlankInt, TermAssumption DEF Grid
<1>4. s \in BareScreens
  BY <1>3 DEF BareScreens
<1>5. s.cells = Bare!Blank /\ s.row = 0 /\ s.col = 0
  OBVIOUS
<1> HIDE DEF s
<1>6. Tidy(s, Cols, <<>>)
  BY <1>2, <1>3, <1>5, Cleared, EmptySeq
<1>7. s \in Orderly
  BY <1>4, <1>6 DEF Orderly
<1>8. screen \in BareScreens /\ Tidy(screen, Cols, BarePrompt)
  BY <1>1, <1>7, BareTexts, BarePrompted
<1>9. BarePrompt \o bare_line = BarePrompt /\ bare_line \in Seq(32 .. 126)
  BY <1>1, BareTexts, ConcatEmptySeq, EmptySeq
<1> QED
  BY <1>8, <1>9 DEF BareInv

LEMMA BareKeeps == BareInv /\ Bare!BareNext => BareInv'
<1> SUFFICES ASSUME BareInv, Bare!BareNext PROVE BareInv'
  OBVIOUS
<1> DEFINE key == Bare!picocalc_kbd_read_key(port).key
           text == BarePrompt \o bare_line
<1>1. /\ running /\ screen \in BareScreens /\ bare_line \in Seq(32 .. 126) /\ Tidy(screen, Cols, text)
      /\ (Bare!Leave(key) \/ Bare!Enter(key) \/ Bare!Erase(key) \/ Bare!Type(key) \/ Bare!Ignore(key))
  BY DEF Bare!BareNext, Bare!ReadKey, BareInv
<1>2. BarePrompt \in Seq(32 .. 126) /\ text \in Seq(Int)
  <2>1. 32 \in 32 .. 126
    OBVIOUS
  <2> QED
    BY <1>1, <2>1, BareTexts, LongerLine
<1> HIDE DEF key
<1>3. CASE Bare!Leave(key)
  BY <1>3 DEF Bare!Leave, BareInv
<1>4. CASE Bare!Enter(key)
  <2>1. PICK output \in Text :
           screen' = Bare!solve_platform_write(Bare!repl_console_newline(screen), output \o BarePrompt)
    BY <1>4, BareTexts DEF Bare!Enter
  <2>2. Bare!repl_console_newline(screen) \in Orderly
    BY <1>1, <1>2, BareNewline DEF Orderly
  <2>3. screen' \in BareScreens /\ Tidy(screen', Cols, BarePrompt)
    BY <1>2, <2>1, <2>2, BarePrompted
  <2>4. bare_line' = <<>> /\ BarePrompt \o <<>> = BarePrompt /\ <<>> \in Seq(32 .. 126)
    BY <1>2, <1>4, ConcatEmptySeq, EmptySeq DEF Bare!Enter
  <2> QED
    BY <2>3, <2>4 DEF BareInv, BareScreens, Tidy, Screen, Clear, Ends, Cursor, Grid, Flat
<1>5. CASE Bare!Erase(key)
  <2>1. CASE bare_line = <<>>
    BY <1>1, <1>5, <2>1 DEF Bare!Erase, BareInv, BareScreens, Tidy, Screen, Clear, Ends, Cursor, Grid, Flat
  <2>2. CASE bare_line # <<>>
    <3> DEFINE front == Bare!Front(bare_line)
    <3>1. bare_line' = front /\ screen' = Bare!repl_console_backspace(screen)
      BY <1>5, <2>2 DEF Bare!Erase
    <3>2. PICK last \in 32 .. 126 : bare_line = Append(front, last) /\ front \in Seq(32 .. 126)
      BY <1>1, <2>2, ShorterLine
    <3> HIDE DEF front
    <3>3. /\ text = Append(BarePrompt \o front, last) /\ BarePrompt \o front \in Seq(Int) /\ last \in Int
      BY <1>2, <3>2, LongerLine
    <3>4. screen' \in BareScreens /\ Tidy(screen', Cols, BarePrompt \o front)
      <4> HIDE DEF text
      <4> QED
        BY <1>1, <3>1, <3>3, BareBack
    <3> QED
      BY <3>1, <3>2, <3>4 DEF BareInv, BareScreens, Tidy, Screen, Clear, Ends, Cursor, Grid, Flat
  <2> QED
    BY <2>1, <2>2
<1>6. CASE Bare!Type(key)
  <2>1. CASE Len(bare_line) + 1 < LineCap
    <3>1. key \in 32 .. 126 /\ bare_line' = Append(bare_line, key)
          /\ screen' = Bare!repl_console_putchar(screen, key)
      BY <1>6, <2>1 DEF Bare!Type
    <3>2. /\ BarePrompt \o Append(bare_line, key) = Append(text, key)
          /\ Append(bare_line, key) \in Seq(32 .. 126)
      BY <1>1, <1>2, <3>1, LongerLine
    <3>3. key \in 0 .. 255 \ {13}
      BY <3>1
    <3>4. screen' \in BareScreens /\ Tidy(screen', Cols, Append(text, key))
      <4> HIDE DEF text
      <4> QED
        BY <1>1, <1>2, <3>1, <3>3, BarePut
    <3> QED
      BY <3>1, <3>2, <3>4 DEF BareInv, BareScreens, Tidy, Screen, Clear, Ends, Cursor, Grid, Flat
  <2>2. CASE ~(Len(bare_line) + 1 < LineCap)
    BY <1>1, <1>6, <2>2 DEF Bare!Type, BareInv, BareScreens, Tidy, Screen, Clear, Ends, Cursor, Grid, Flat
  <2> QED
    BY <2>1, <2>2
<1>7. CASE Bare!Ignore(key)
  BY <1>1, <1>7 DEF Bare!Ignore, BareInv, BareScreens, Tidy, Screen, Clear, Ends, Cursor, Grid, Flat
<1> QED
  BY <1>1, <1>3, <1>4, <1>5, <1>6, <1>7

LEMMA BareShows == BareInv => Bare!BareScreenIsText
<1> SUFFICES ASSUME BareInv, running PROVE Bare!BareScreenIsText
  BY DEF Bare!BareScreenIsText
<1> DEFINE text == BarePrompt \o bare_line
           cursor == screen.row * Cols + screen.col
           CellAt(n) == screen.cells[n \div Cols][n % Cols]
<1>1. /\ screen \in BareScreens /\ bare_line \in Seq(32 .. 126) /\ Tidy(screen, Cols, text)
      /\ Cols \in Nat \ {0}
  BY TermAssumption DEF BareInv
<1>2. cursor = Cursor(screen, Cols) /\ \A n : CellAt(n) = Flat(screen.cells, Cols, n)
  BY DEF Cursor, Flat
<1>3. cursor \in Nat /\ Len(text) \in Nat
  <2>1. cursor \in Nat
    BY <1>1, <1>2, CursorRange DEF Tidy
  <2>2. text \in Seq(Int)
    BY <1>1, BareTexts, LongerLine
  <2> HIDE DEF text
  <2> QED
    BY <2>1, <2>2, LenProperties
<1> HIDE DEF text, cursor, CellAt
<1>4. ASSUME NEW n \in 1 .. IF cursor < Len(text) THEN cursor ELSE Len(text)
      PROVE  CellAt(cursor - n) = text[Len(text) + 1 - n]
  <2>1. n \in 1 .. Len(text) /\ n <= cursor
    BY <1>3
  <2> QED
    BY <1>1, <1>2, <2>1 DEF Tidy, Ends
<1>5. ASSUME NEW n \in cursor .. Rows * Cols - 1 PROVE CellAt(n) = Bare!Space
  <2>1. n \in 0 .. Rows * Cols - 1 /\ n >= cursor
    BY <1>3
  <2> QED
    BY <1>1, <1>2, <2>1 DEF Tidy, Clear, Bare!Space, Blank
<1> QED
  BY <1>4, <1>5 DEF Bare!BareScreenIsText, text, cursor, CellAt

-----------------------------------------------------------------------------
(***************************************************************************)
(* The console of the SDK build: the LCD shows the same cells.             *)
(***************************************************************************)
SdkGrids == [cells : Grid(SdkCols), lcd : Grid(SdkCols), row : 0 .. Rows - 1, col : 0 .. SdkCols]
SdkScreens == {s \in SdkGrids : s.lcd = s.cells}
Repainted(t, s, cells, row, col) ==
  t = [s EXCEPT !.cells = cells, !.lcd = cells, !.row = row, !.col = col]
\* A character as solve_platform_write sends it.
SdkPutchar(s, ch) == Sdk!console_putchar(IF ch = 10 THEN Sdk!console_putchar(s, 13) ELSE s, ch)

LEMMA SdkSizes == Rows \in Nat \ {0} /\ SdkCols \in Nat \ {0}
BY TermAssumption, ConsolesAssumption DEF Sdk!ReplAssumption

LEMMA SdkRecord ==
  ASSUME NEW t, NEW s \in SdkScreens, NEW cells \in Grid(SdkCols), NEW row \in 0 .. Rows - 1,
         NEW col \in 0 .. SdkCols, Repainted(t, s, cells, row, col)
  PROVE  t \in SdkScreens /\ t.cells = cells /\ t.row = row /\ t.col = col
<1> DEFINE grid == Grid(SdkCols)
           rows == 0 .. Rows - 1
           cols == 0 .. SdkCols
<1>1. s \in [cells : grid, lcd : grid, row : rows, col : cols]
      /\ cells \in grid /\ row \in rows /\ col \in cols
  BY DEF SdkScreens, SdkGrids
<1> HIDE DEF grid, rows, cols
<1>2. t \in [cells : grid, lcd : grid, row : rows, col : cols]
  BY <1>1 DEF Repainted
<1>3. t.cells = cells /\ t.lcd = cells /\ t.row = row /\ t.col = col
  BY <1>1 DEF Repainted
<1> QED
  BY <1>2, <1>3 DEF SdkScreens, SdkGrids, grid, rows, cols

LEMMA SdkFields ==
  ASSUME NEW s \in SdkScreens
  PROVE  /\ s \in SdkGrids /\ s.lcd = s.cells /\ s.cells \in Grid(SdkCols)
         /\ s.row \in 0 .. Rows - 1 /\ s.col \in 0 .. SdkCols /\ Screen(s, SdkCols)
BY DEF SdkScreens, SdkGrids, Screen

LEMMA SdkNewline ==
  ASSUME NEW s \in SdkScreens, NEW text \in Seq(Int), Tidy(s, SdkCols, text)
  PROVE  /\ Sdk!console_newline(s) \in SdkScreens
         /\ Tidy(Sdk!console_newline(s), SdkCols, <<>>)
         /\ s.col = SdkCols => Tidy(Sdk!console_newline(s), SdkCols, text)
         /\ Sdk!console_newline(s).col = 0
<1> DEFINE t == Sdk!console_newline(s)
<1>1. /\ s \in SdkGrids /\ s.lcd = s.cells /\ s.cells \in Grid(SdkCols)
      /\ s.row \in 0 .. Rows - 1 /\ s.col \in 0 .. SdkCols
      /\ Rows \in Nat \ {0} /\ SdkCols \in Nat \ {0} /\ 0 \in 0 .. SdkCols
  BY SdkFields, SdkSizes
<1>2. CASE s.row + 1 < Rows
  <2>1. t = [s EXCEPT !.row = s.row + 1, !.col = 0]
    BY <1>1, <1>2 DEF Sdk!console_newline, Sdk!next_row, SdkGrids
  <2>2. Repainted(t, s, s.cells, s.row + 1, 0)
    BY <1>1, <2>1 DEF SdkGrids, Repainted
  <2>3. s.row + 1 \in 0 .. Rows - 1
    BY <1>1, <1>2
  <2> HIDE DEF t
  <2>4. t \in SdkScreens /\ t.cells = s.cells /\ t.row = s.row + 1 /\ t.col = 0
    BY <1>1, <2>2, <2>3, SdkRecord
  <2>5. Tidy(t, SdkCols, <<>>) /\ (s.col = SdkCols => Tidy(t, SdkCols, text))
    BY <1>1, <1>2, <2>4, NextRow
  <2> QED
    BY <2>4, <2>5 DEF t
<1>3. CASE s.row + 1 = Rows
  <2> DEFINE blank == [col \in 0 .. SdkCols - 1 |-> Blank]
             up == [row \in 0 .. Rows - 1 |-> IF row + 1 < Rows THEN s.cells[row + 1] ELSE blank]
  <2>1. Sdk!BlankRow = blank /\ DOMAIN s.cells = 0 .. Rows - 1
    BY <1>1 DEF Sdk!BlankRow, Sdk!Space, Blank, Grid
  <2>2. blank \in [0 .. SdkCols - 1 -> Int] /\ RowsUp(up, s.cells, blank)
    BY BlankInt DEF RowsUp
  <2>3. Sdk!next_row(s) = [s EXCEPT !.col = 0, !.cells = up]
    BY <1>1, <1>3, <2>1 DEF Sdk!next_row, SdkGrids
  <2> HIDE DEF up, blank
  <2>4. up \in Grid(SdkCols)
    BY <1>1, <2>2, FlatScroll
  <2>5. Repainted(t, s, up, s.row, 0)
    <3>1. t = [Sdk!next_row(s) EXCEPT !.lcd = Sdk!next_row(s).cells]
      BY <1>1, <1>3 DEF Sdk!console_newline, Sdk!console_redraw
    <3> HIDE DEF t
    <3> QED
      BY <1>1, <2>3, <3>1 DEF SdkGrids, Repainted
  <2> HIDE DEF t
  <2>6. t \in SdkScreens /\ t.cells = up /\ t.row = s.row /\ t.col = 0
    BY <1>1, <2>4, <2>5, SdkRecord
  <2>7. Tidy(t, SdkCols, <<>>) /\ (s.col = SdkCols => Tidy(t, SdkCols, text))
    BY <1>1, <1>3, <2>2, <2>6, Scrolled DEF blank
  <2> QED
    BY <2>6, <2>7 DEF t
<1> QED
  BY <1>1, <1>2, <1>3

\* What is behind the cursor is the end of some text.
LEMMA SomeLast ==
  ASSUME NEW w \in Nat \ {0}, NEW s, Tidy(s, w, <<>>)
  PROVE  \E last \in Int : Tidy(s, w, Append(<<>>, last))
<1>1. Cursor(s, w) \in 0 .. Rows * w /\ Rows * w \in Nat /\ s.cells \in Grid(w)
  BY CursorRange DEF Tidy, Screen
<1> DEFINE last == IF Cursor(s, w) = 0 THEN 0 ELSE Flat(s.cells, w, Cursor(s, w) - 1)
<1>2. last \in Int
  <2>1. ASSUME Cursor(s, w) # 0 PROVE Flat(s.cells, w, Cursor(s, w) - 1) \in Int
    <3> DEFINE n == Cursor(s, w) - 1
    <3>1. n \in 0 .. Rows * w - 1
      BY <1>1, <2>1
    <3> HIDE DEF n
    <3>2. n \div w \in 0 .. Rows - 1 /\ n % w \in 0 .. w - 1
      BY <3>1, InGrid
    <3>3. Flat(s.cells, w, n) \in Int
      BY <1>1, <3>2 DEF Flat, Grid
    <3> QED
      BY <3>3 DEF n
  <2> QED
    BY <2>1
<1>3. Ends(s.cells, w, Cursor(s, w), Append(<<>>, last))
  <2>1. Append(<<>>, last) = <<last>>
    OBVIOUS
  <2>2. Len(<<last>>) = 1 /\ <<last>>[1] = last
    OBVIOUS
  <2>3. ASSUME NEW k \in 1 .. 1, k <= Cursor(s, w)
        PROVE  Flat(s.cells, w, Cursor(s, w) - k) = <<last>>[1 + 1 - k]
    <3>1. k = 1 /\ 1 + 1 - k = 1 /\ Cursor(s, w) # 0
      BY <1>1, <2>3
    <3> QED
      BY <2>2, <3>1
  <2> HIDE DEF last
  <2> QED
    BY <2>1, <2>2, <2>3 DEF Ends
<1> QED
  BY <1>2, <1>3 DEF Tidy

LEMMA SdkBack ==
  ASSUME NEW s \in SdkScreens, NEW text \in Seq(Int), NEW last \in Int,
         Tidy(s, SdkCols, Append(text, last))
  PROVE  /\ Sdk!console_backspace(s) \in SdkScreens
         /\ Tidy(Sdk!console_backspace(s), SdkCols, text)
<1> DEFINE t == Sdk!console_backspace(s)
<1>1. Rows \in Nat \ {0} /\ SdkCols \in Nat \ {0}
  BY SdkSizes
<1>2. /\ s \in SdkGrids /\ s.lcd = s.cells /\ s.cells \in Grid(SdkCols)
      /\ s.row \in 0 .. Rows - 1 /\ s.col \in 0 .. SdkCols /\ Screen(s, SdkCols)
  BY SdkFields
<1> DEFINE erased(row, col) ==
             Sdk!console_draw_row([s EXCEPT !.row = row, !.col = col, !.cells[row][col] = Blank], row)
<1>3. ASSUME NEW row \in 0 .. Rows - 1, NEW col \in 0 .. SdkCols - 1,
             row * SdkCols + col = Cursor(s, SdkCols) - 1, t = erased(row, col)
      PROVE  t \in SdkScreens /\ Tidy(t, SdkCols, text)
  <2> DEFINE next == [s.cells EXCEPT ![row][col] = Blank]
  <2>1. next \in Grid(SdkCols)
    BY <1>2, BlankInt DEF Grid
  <2>2. [s.cells EXCEPT ![row] = next[row]] = next
    BY <1>2 DEF Grid
  <2>3. [s EXCEPT !.row = row, !.col = col, !.cells[row][col] = Blank]
        = [s EXCEPT !.row = row, !.col = col, !.cells = next]
    BY <1>2 DEF SdkGrids
  <2> HIDE DEF next
  <2>4. t = [[s EXCEPT !.row = row, !.col = col, !.cells = next] EXCEPT !.lcd[row] = next[row]]
    BY <1>2, <1>3, <2>3 DEF Sdk!console_draw_row, SdkGrids
  <2> HIDE DEF t
  <2>5. t = [s EXCEPT !.row = row, !.col = col, !.cells = next, !.lcd = [s.lcd EXCEPT ![row] = next[row]]]
    BY <1>2, <2>4 DEF SdkGrids
  <2>6. Repainted(t, s, next, row, col)
    BY <1>2, <2>2, <2>5 DEF SdkGrids, Repainted
  <2>7. col \in 0 .. SdkCols
    BY <1>1
  <2>8. t.cells = next /\ t.row = row /\ t.col = col /\ t \in SdkScreens
    BY <2>1, <2>6, <2>7, SdkRecord
  <2>9. Tidy(t, SdkCols, text)
    BY <1>1, <1>3, <2>8, WentBack DEF next
  <2> QED
    BY <2>8, <2>9
<1>4. Sdk!Space = Blank
  BY DEF Sdk!Space, Blank
<1>5. CASE s.col > 0
  <2>1. t = erased(s.row, s.col - 1)
    BY <1>4, <1>5 DEF Sdk!console_backspace
  <2>2. s.col - 1 \in 0 .. SdkCols - 1 /\ s.row * SdkCols + (s.col - 1) = Cursor(s, SdkCols) - 1
    BY <1>1, <1>2, <1>5, OneBack
  <2> HIDE DEF t, erased
  <2> QED
    BY <1>2, <1>3, <2>1, <2>2 DEF t
<1>6. CASE s.col = 0 /\ s.row > 0
  <2>1. t = erased(s.row - 1, SdkCols - 1)
    BY <1>4, <1>6 DEF Sdk!console_backspace
  <2>2. /\ s.row - 1 \in 0 .. Rows - 1 /\ SdkCols - 1 \in 0 .. SdkCols - 1
        /\ (s.row - 1) * SdkCols + (SdkCols - 1) = Cursor(s, SdkCols) - 1
    BY <1>1, <1>2, <1>6, OneBack
  <2> HIDE DEF t, erased
  <2> QED
    BY <1>3, <2>1, <2>2 DEF t
<1>7. CASE s.col = 0 /\ s.row = 0
  <2>1. t = s
    BY <1>7 DEF Sdk!console_backspace
  <2> QED
    BY <1>1, <1>7, <2>1, AtStart
<1> QED
  BY <1>1, <1>2, <1>5, <1>6, <1>7

LEMMA SdkPut ==
  ASSUME NEW s \in SdkScreens, NEW text \in Seq(Int), Tidy(s, SdkCols, text), NEW ch \in 32 .. 126
  PROVE  /\ SdkPutchar(s, ch) \in SdkScreens
         /\ Tidy(SdkPutchar(s, ch), SdkCols, Append(text, ch))
<1> DEFINE t == SdkPutchar(s, ch)
           at == IF s.col >= SdkCols THEN Sdk!console_newline(s) ELSE s
           next == [at.cells EXCEPT ![at.row][at.col] = ch]
<1>1. Rows \in Nat \ {0} /\ SdkCols \in Nat \ {0} /\ ch \in Int /\ ch # 10 /\ ch # 13 /\ ch # 8
  BY SdkSizes
<1>2. at \in SdkScreens /\ Tidy(at, SdkCols, text) /\ at.col < SdkCols
  <2>1. s.col \in 0 .. SdkCols
    BY SdkFields
  <2>2. CASE s.col >= SdkCols
    <3>1. s.col = SdkCols /\ at = Sdk!console_newline(s)
      BY <1>1, <2>1, <2>2
    <3> QED
      BY <1>1, <3>1, SdkNewline
  <2>3. CASE ~(s.col >= SdkCols)
    BY <1>1, <2>1, <2>3
  <2> QED
    BY <2>2, <2>3
<1>3. t = [at EXCEPT !.cells[at.row][at.col] = ch, !.lcd[at.row][at.col] = ch, !.col = @ + 1]
  BY <1>1 DEF SdkPutchar, Sdk!console_putchar
<1> HIDE DEF at
<1>4. /\ at \in SdkGrids /\ at.lcd = at.cells /\ at.cells \in Grid(SdkCols)
      /\ at.row \in 0 .. Rows - 1 /\ at.col \in 0 .. SdkCols
  BY <1>2, SdkFields
<1>5. at.col \in 0 .. SdkCols - 1 /\ at.col + 1 \in 0 .. SdkCols
  BY <1>1, <1>2, <1>4
<1>6. next \in Grid(SdkCols)
  BY <1>1, <1>4, <1>5 DEF Grid
<1>7. Repainted(t, at, next, at.row, at.col + 1)
  BY <1>3, <1>4 DEF SdkGrids, Repainted
<1> HIDE DEF next, t
<1>8. t.cells = next /\ t.row = at.row /\ t.col = at.col + 1 /\ t \in SdkScreens
  BY <1>2, <1>4, <1>5, <1>6, <1>7, SdkRecord
<1>9. Tidy(t, SdkCols, Append(text, ch))
  BY <1>1, <1>2, <1>8, Drawn DEF next
<1> QED
  BY <1>8, <1>9 DEF t

SdkOrderly == {s \in SdkScreens : Tidy(s, SdkCols, <<>>)}

\* Any character but a carriage return of its own.
LEMMA SdkAny ==
  ASSUME NEW s \in SdkOrderly, NEW ch \in 0 .. 255 \ {13}
  PROVE  SdkPutchar(s, ch) \in SdkOrderly
<1> DEFINE t == SdkPutchar(s, ch)
<1>1. s \in SdkScreens /\ Tidy(s, SdkCols, <<>>) /\ <<>> \in Seq(Int) /\ SdkCols \in Nat \ {0}
  BY SdkSizes, EmptySeq DEF SdkOrderly
<1>2. CASE ch = 10
  <2> DEFINE back == [s EXCEPT !.col = 0]
  <2>1. t = Sdk!console_newline(back)
    BY <1>2 DEF SdkPutchar, Sdk!console_putchar
  <2>2. Sdk!console_newline(back) = Sdk!console_newline(s)
    BY <1>1, SdkFields DEF Sdk!console_newline, Sdk!next_row, Sdk!console_redraw, SdkGrids
  <2> QED
    BY <1>1, <2>1, <2>2, SdkNewline DEF SdkOrderly
<1>3. CASE ch = 8
  <2>1. t = Sdk!console_backspace(s)
    BY <1>3 DEF SdkPutchar, Sdk!console_putchar
  <2>2. PICK last \in Int : Tidy(s, SdkCols, Append(<<>>, last))
    BY <1>1, SomeLast
  <2> QED
    BY <1>1, <2>1, <2>2, SdkBack DEF SdkOrderly
<1>4. CASE ch \in 32 .. 126
  <2>1. t \in SdkScreens /\ Tidy(t, SdkCols, Append(<<>>, ch))
    BY <1>1, <1>4, SdkPut
  <2> HIDE DEF t
  <2>2. Tidy(t, SdkCols, <<>>)
    BY <2>1, EndsNothing DEF Tidy
  <2> QED
    BY <2>1, <2>2 DEF SdkOrderly, t
<1>5. CASE ch # 10 /\ ch # 8 /\ ch \notin 32 .. 126
  <2>1. t = s
    BY <1>5 DEF SdkPutchar, Sdk!console_putchar
  <2> QED
    BY <2>1
<1> QED
  BY <1>2, <1>3, <1>4, <1>5

\* The screens on the way from a screen to what a text makes of it.
LEMMA SdkWritten ==
  ASSUME NEW s \in SdkOrderly, NEW text \in Text
  PROVE  \E h : /\ h[0] = s /\ h[Len(text)] = Sdk!repl_write(s, text)
                /\ \A k \in 1 .. Len(text) : h[k] = SdkPutchar(h[k - 1], text[k])
<1> DEFINE Ch == 0 .. 255 \ {13}
           g == [p \in SdkOrderly \X Ch |-> SdkPutchar(p[1], p[2])]
           Eq(F) == F = [S \in SUBSET DOMAIN text |->
                           IF S = {} THEN s ELSE SdkPutchar(F[S \ {Max(S)}], text[Max(S)])]
           Z == CHOOSE F : Eq(F)
<1>0. Len(text) \in Nat /\ DOMAIN text = 1 .. Len(text) /\ text \in Seq(Ch)
  BY LenProperties DEF Text
<1>1. Sdk!repl_write(s, text) = Z[DOMAIN text]
  BY DEF Sdk!repl_write, Sdk!FoldLeft, Sdk!MapThenFoldSet, Sdk!Max, Max, SdkPutchar
<1>2. ASSUME NEW a \in SdkOrderly, NEW c \in Ch PROVE SdkPutchar(a, c) \in SdkOrderly
  BY SdkAny
<1>3. g \in [SdkOrderly \X Ch -> SdkOrderly]
  BY <1>2
<1>4. PICK F \in [SUBSET DOMAIN text -> SdkOrderly] : Folds(F, s, g, text)
  <2> HIDE DEF g, Ch
  <2> QED
    BY <1>0, <1>3, FoldExists
<1>5. ASSUME NEW S \in SUBSET DOMAIN text, S # {}
      PROVE  g[<<F[S \ {Max(S)}], text[Max(S)]>>] = SdkPutchar(F[S \ {Max(S)}], text[Max(S)])
  <2>1. Max(S) \in S
    BY <1>0, <1>5, LastIn
  <2>2. text[Max(S)] \in Ch /\ S \ {Max(S)} \in SUBSET DOMAIN text
    BY <1>0, <2>1, ElementOfSeq
  <2>3. F[S \ {Max(S)}] \in SdkOrderly
    BY <2>2
  <2> QED
    BY <2>2, <2>3
<1>6. Eq(F)
  <2>1. F = [S \in SUBSET DOMAIN text |-> F[S]]
    OBVIOUS
  <2> QED
    BY <1>4, <1>5, <2>1 DEF Folds
<1>7. Eq(Z)
  <2> HIDE DEF Eq
  <2> QED
    BY <1>6, Zenon
<1> HIDE DEF Z, g, Ch
<1> DEFINE h == [k \in 0 .. Len(text) |-> Z[1 .. k]]
<1>8. h[0] = s
  BY <1>0, <1>7
<1>9. ASSUME NEW k \in 1 .. Len(text) PROVE h[k] = SdkPutchar(h[k - 1], text[k])
  <2>1. Max(1 .. k) = k /\ (1 .. k) \ {Max(1 .. k)} = 1 .. k - 1 /\ 1 .. k # {}
    BY <1>0, LastOf
  <2>2. 1 .. k \in SUBSET DOMAIN text
    BY <1>0
  <2>3. Z[1 .. k] = SdkPutchar(Z[1 .. k - 1], text[k])
    BY <1>7, <2>1, <2>2
  <2> QED
    BY <1>0, <2>3
<1>10. h[Len(text)] = Z[DOMAIN text]
  BY <1>0
<1> HIDE DEF h
<1> QED
  BY <1>1, <1>8, <1>9, <1>10

\* A prompt after any text is shown.
LEMMA SdkPrompted ==
  ASSUME NEW s \in SdkOrderly, NEW text \in Text, NEW prompt \in Seq(32 .. 126)
  PROVE  /\ Sdk!repl_write(s, text \o prompt) \in SdkScreens
         /\ Tidy(Sdk!repl_write(s, text \o prompt), SdkCols, prompt)
<1> DEFINE all == text \o prompt
           n == Len(text)
           m == Len(prompt)
<1>1. /\ n \in Nat /\ m \in Nat /\ Len(all) = n + m /\ all \in Text
      /\ \A k \in 1 .. n : all[k] = text[k]
      /\ \A k \in 1 .. m : all[n + k] = prompt[k]
  BY Joined
<1> HIDE DEF all, n, m
<1>2. PICK h : /\ h[0] = s /\ h[n + m] = Sdk!repl_write(s, all)
               /\ \A k \in 1 .. n + m : h[k] = SdkPutchar(h[k - 1], all[k])
  <2>1. \E h : /\ h[0] = s /\ h[Len(all)] = Sdk!repl_write(s, all)
               /\ \A k \in 1 .. Len(all) : h[k] = SdkPutchar(h[k - 1], all[k])
    BY <1>1, SdkWritten
  <2> QED
    BY <1>1, <2>1, Zenon
<1>3. \A k \in 1 .. n + m : all[k] \in 0 .. 255 \ {13}
  BY <1>1, ElementOfSeq DEF Text
<1>4. h[n] \in SdkOrderly
  <2> DEFINE S == {k \in 0 .. n : h[k] \in SdkOrderly}
  <2>1. 0 \in S
    BY <1>1, <1>2
  <2>2. ASSUME NEW k \in 0 .. n - 1, k \in S PROVE k + 1 \in S
    <3>1. k + 1 \in 1 .. n + m /\ k + 1 - 1 = k /\ k + 1 \in 0 .. n /\ k \in Nat
      BY <1>1
    <3>2. h[k + 1] = SdkPutchar(h[k], all[k + 1]) /\ all[k + 1] \in 0 .. 255 \ {13}
      BY <1>2, <1>3, <3>1
    <3>3. h[k] \in SdkOrderly
      BY <2>2
    <3>4. h[k + 1] \in SdkOrderly
      BY <3>2, <3>3, SdkAny
    <3> QED
      BY <3>1, <3>4
  <2> HIDE DEF S
  <2>3. Steps(S, n)
    BY <2>2 DEF Steps
  <2>4. n \in S
    BY <1>1, <2>1, <2>3, UpTo
  <2> QED
    BY <2>4 DEF S
<1>5. h[n + m] \in SdkScreens /\ Tidy(h[n + m], SdkCols, prompt)
  <2> DEFINE shown(j) == SubSeq(prompt, 1, j)
             S == {j \in 0 .. m : h[n + j] \in SdkScreens /\ Tidy(h[n + j], SdkCols, shown(j))}
  <2>1. 0 \in S
    <3>1. shown(0) = <<>> /\ 0 \in 0 .. m /\ n + 0 = n
      BY <1>1, SubSeqEmpty
    <3> HIDE DEF shown
    <3> QED
      BY <1>4, <3>1 DEF SdkOrderly
  <2>2. ASSUME NEW j \in 0 .. m - 1, j \in S PROVE j + 1 \in S
    <3> DEFINE at == n + j
    <3>1. /\ at \in Nat /\ at + 1 \in 1 .. n + m /\ (at + 1) - 1 = at /\ j + 1 \in 1 .. m /\ j + 1 \in 0 .. m
          /\ n + (j + 1) = at + 1
      BY <1>1
    <3>2. h[at + 1] = SdkPutchar(h[at], all[at + 1])
      <4> HIDE DEF at
      <4> QED
        BY <1>2, <3>1
    <3>3. all[at + 1] = prompt[j + 1] /\ prompt[j + 1] \in 32 .. 126
      <4>1. all[n + (j + 1)] = prompt[j + 1]
        BY <1>1, <3>1
      <4>2. prompt[j + 1] \in 32 .. 126
        BY <3>1, ElementOfSeq DEF m
      <4> HIDE DEF at
      <4> QED
        BY <3>1, <4>1, <4>2
    <3>4. shown(j + 1) = Append(shown(j), prompt[j + 1]) /\ shown(j) \in Seq(Int)
      <4>2. prompt \in Seq(Int)
        BY Printables
      <4> QED
        BY <1>1, <3>1, <4>2, PrefixGrows DEF m
    <3> HIDE DEF shown
    <3>5. h[at + 1] \in SdkScreens /\ Tidy(h[at + 1], SdkCols, shown(j + 1))
      <4>1. h[at] \in SdkScreens /\ Tidy(h[at], SdkCols, shown(j))
        BY <2>2
      <4> HIDE DEF at
      <4> QED
        BY <3>2, <3>3, <3>4, <4>1, SdkPut
    <3> QED
      BY <3>1, <3>5
  <2>3. m \in S
    <3> HIDE DEF S
    <3>1. Steps(S, m)
      BY <2>2 DEF Steps
    <3> QED
      BY <1>1, <2>1, <3>1, UpTo
  <2>4. shown(m) = prompt
    BY <1>1, SubSeqFull DEF m
  <2> QED
    BY <2>3, <2>4
<1> QED
  BY <1>2, <1>5 DEF all

\* One character echoed.
LEMMA SdkEchoed ==
  ASSUME NEW s \in SdkScreens, NEW text \in Seq(Int), Tidy(s, SdkCols, text), NEW ch \in 32 .. 126
  PROVE  /\ Sdk!repl_write(s, <<ch>>) \in SdkScreens
         /\ Tidy(Sdk!repl_write(s, <<ch>>), SdkCols, Append(text, ch))
<1>1. s \in SdkOrderly
  BY EndsNothing DEF SdkOrderly, Tidy
<1>2. <<ch>> \in Text /\ Len(<<ch>>) = 1 /\ <<ch>>[1] = ch
  <2> DEFINE C == 0 .. 255 \ {13}
  <2>1. ch \in C
    OBVIOUS
  <2> HIDE DEF C
  <2>2. <<ch>> \in Seq(C)
    BY <2>1
  <2> QED
    BY <2>2 DEF Text, C
<1> DEFINE w == <<ch>>
<1> HIDE DEF w
<1>3. PICK h : /\ h[0] = s /\ h[Len(w)] = Sdk!repl_write(s, w)
               /\ \A k \in 1 .. Len(w) : h[k] = SdkPutchar(h[k - 1], w[k])
  BY <1>1, <1>2, SdkWritten DEF w
<1>4. h[1] = SdkPutchar(s, ch) /\ h[1] = Sdk!repl_write(s, w)
  BY <1>2, <1>3 DEF w
<1>5. SdkPutchar(s, ch) \in SdkScreens /\ Tidy(SdkPutchar(s, ch), SdkCols, Append(text, ch))
  BY SdkPut
<1> QED
  BY <1>4, <1>5 DEF w

\* Backspace, a blank and backspace again take the last character away.
LEMMA SdkErased ==
  ASSUME NEW s \in SdkScreens, NEW text \in Seq(Int), NEW last \in Int,
         Tidy(s, SdkCols, Append(text, last))
  PROVE  /\ Sdk!repl_write(s, Sdk!Erased) \in SdkScreens
         /\ Tidy(Sdk!repl_write(s, Sdk!Erased), SdkCols, text)
<1>1. s \in SdkOrderly
  BY EndsNothing DEF SdkOrderly, Tidy
<1> DEFINE w == <<8, 32, 8>>
<1>2. w \in Text /\ Len(w) = 3 /\ w[1] = 8 /\ w[2] = 32 /\ w[3] = 8
  <2> DEFINE C == 0 .. 255 \ {13}
  <2>1. 8 \in C /\ 32 \in C
    OBVIOUS
  <2> HIDE DEF C
  <2>2. w \in Seq(C)
    BY <2>1
  <2> QED
    BY <2>2 DEF Text, C
<1>3. Sdk!Erased = w
  BY DEF Sdk!Erased
<1> HIDE DEF w
<1>4. PICK h : /\ h[0] = s /\ h[Len(w)] = Sdk!repl_write(s, w)
               /\ \A k \in 1 .. Len(w) : h[k] = SdkPutchar(h[k - 1], w[k])
  BY <1>1, <1>2, SdkWritten
<1>5. /\ h[1] = SdkPutchar(s, 8) /\ h[2] = SdkPutchar(h[1], 32) /\ h[3] = SdkPutchar(h[2], 8)
      /\ h[3] = Sdk!repl_write(s, w)
  BY <1>2, <1>4
<1>6. \A a : SdkPutchar(a, 8) = Sdk!console_backspace(a)
  BY DEF SdkPutchar, Sdk!console_putchar
<1>7. h[1] \in SdkScreens /\ Tidy(h[1], SdkCols, text)
  BY <1>5, <1>6, SdkBack
<1>8. h[2] \in SdkScreens /\ Tidy(h[2], SdkCols, Append(text, 32))
  <2>1. 32 \in 32 .. 126
    OBVIOUS
  <2> QED
    BY <1>5, <1>7, <2>1, SdkPut
<1>9. h[3] \in SdkScreens /\ Tidy(h[3], SdkCols, text)
  BY <1>5, <1>6, <1>8, SdkBack
<1> QED
  BY <1>3, <1>5, <1>9

SdkShown(s, text) == s \in SdkScreens /\ Tidy(s, SdkCols, text)
SdkInv == repl_line \in Seq(32 .. 126) /\ SdkShown(console, SdkPrompt \o repl_line)

LEMMA SdkTexts ==
  /\ SdkPrompt \in Seq(32 .. 126) /\ Banner \in Text /\ TooMany \in Text /\ <<>> \in Text
  /\ \A output \in Outputs : output \in Text
BY ConsolesAssumption, EmptySeq DEF Sdk!ReplAssumption, Sdk!Printable, Text

LEMMA SdkStarts == Sdk!ReplInit => SdkInv
<1> SUFFICES ASSUME Sdk!ReplInit PROVE SdkInv
  OBVIOUS
<1> DEFINE s == [cells |-> Sdk!BlankCells, lcd |-> Sdk!BlankCells, row |-> 0, col |-> 0]
<1>1. console = Sdk!repl_write(s, Banner \o SdkPrompt) /\ repl_line = <<>>
  BY DEF Sdk!ReplInit
<1>2. Sdk!BlankCells = [row \in 0 .. Rows - 1 |-> [col \in 0 .. SdkCols - 1 |-> Blank]]
  BY DEF Sdk!BlankCells, Sdk!BlankRow, Sdk!Space, Blank
<1>3. Sdk!BlankCells \in Grid(SdkCols) /\ 0 \in 0 .. Rows - 1 /\ 0 \in 0 .. SdkCols
      /\ SdkCols \in Nat \ {0}
  BY <1>2, BlankInt, SdkSizes DEF Grid
<1>4. s \in SdkScreens
  BY <1>3 DEF SdkScreens, SdkGrids
<1>5. s.cells = Sdk!BlankCells /\ s.row = 0 /\ s.col = 0
  OBVIOUS
<1> HIDE DEF s
<1>6. Tidy(s, SdkCols, <<>>)
  BY <1>2, <1>3, <1>5, Cleared, EmptySeq
<1>7. s \in SdkOrderly
  BY <1>4, <1>6 DEF SdkOrderly
<1>8. SdkShown(console, SdkPrompt)
  BY <1>1, <1>7, SdkTexts, SdkPrompted DEF SdkShown
<1>9. SdkPrompt \o repl_line = SdkPrompt /\ repl_line \in Seq(32 .. 126)
  BY <1>1, SdkTexts, ConcatEmptySeq, EmptySeq
<1> QED
  BY <1>8, <1>9 DEF SdkInv

LEMMA SdkKeeps == SdkInv /\ Sdk!ReplNext => SdkInv'
<1> SUFFICES ASSUME SdkInv, NEW ch, Sdk!Enter(ch) \/ Sdk!Erase(ch) \/ Sdk!Type(ch) PROVE SdkInv'
  BY DEF Sdk!ReplNext
<1> DEFINE text == SdkPrompt \o repl_line
<1>1. repl_line \in Seq(32 .. 126) /\ console \in SdkScreens /\ Tidy(console, SdkCols, text)
  BY DEF SdkInv, SdkShown
<1>2. SdkPrompt \in Seq(32 .. 126) /\ text \in Seq(Int)
  <2>1. 32 \in 32 .. 126
    OBVIOUS
  <2> QED
    BY <1>1, <2>1, SdkTexts, LongerLine
<1>3. CASE Sdk!Enter(ch)
  <2> DEFINE s == Sdk!repl_write(console, <<10>>)
  <2>1. s \in SdkOrderly
    <3>1. console \in SdkOrderly
      BY <1>1, EndsNothing DEF SdkOrderly, Tidy
    <3>2. <<10>> \in Text /\ <<>> \in Seq(32 .. 126) /\ <<10>> \o <<>> = <<10>>
      <4> DEFINE C == 0 .. 255 \ {13}
      <4>1. 10 \in C
        OBVIOUS
      <4> HIDE DEF C
      <4>2. <<10>> \in Seq(C)
        BY <4>1
      <4> QED
        BY <4>2, EmptySeq, ConcatEmptySeq DEF Text, C
    <3>3. Sdk!repl_write(console, <<10>> \o <<>>) \in SdkScreens
          /\ Tidy(Sdk!repl_write(console, <<10>> \o <<>>), SdkCols, <<>>)
      <4> DEFINE feed == <<10>>
      <4> HIDE DEF feed
      <4> QED
        BY <3>1, <3>2, SdkPrompted DEF feed
    <3> QED
      BY <3>2, <3>3 DEF SdkOrderly
  <2> HIDE DEF s
  <2>2. \E output \in Text : console' = Sdk!repl_write(s, output \o SdkPrompt)
    <3>1. <<>> \o SdkPrompt = SdkPrompt
      BY <1>2, ConcatEmptySeq
    <3>2. \/ console' = Sdk!repl_write(s, TooMany \o SdkPrompt)
          \/ console' = Sdk!repl_write(s, SdkPrompt)
          \/ \E output \in Outputs : console' = Sdk!repl_write(s, output \o SdkPrompt)
      BY <1>3 DEF Sdk!Enter, Sdk!repl_run_line, s
    <3> QED
      BY <3>1, <3>2, SdkTexts
  <2>3. SdkShown(console', SdkPrompt)
    BY <1>2, <2>1, <2>2, SdkPrompted DEF SdkShown
  <2>4. repl_line' = <<>> /\ SdkPrompt \o <<>> = SdkPrompt /\ <<>> \in Seq(32 .. 126)
    BY <1>2, <1>3, ConcatEmptySeq, EmptySeq DEF Sdk!Enter
  <2> QED
    BY <2>3, <2>4 DEF SdkInv
<1>4. CASE Sdk!Erase(ch)
  <2> DEFINE front == Bare!Front(repl_line)
  <2>1. repl_line # <<>> /\ repl_line' = front /\ console' = Sdk!repl_write(console, Sdk!Erased)
    BY <1>4 DEF Sdk!Erase, Sdk!Front, Bare!Front
  <2>2. PICK last \in 32 .. 126 : repl_line = Append(front, last) /\ front \in Seq(32 .. 126)
    BY <1>1, <2>1, ShorterLine
  <2> HIDE DEF front
  <2>3. /\ text = Append(SdkPrompt \o front, last) /\ SdkPrompt \o front \in Seq(Int) /\ last \in Int
    BY <1>2, <2>2, LongerLine
  <2>4. SdkShown(console', SdkPrompt \o front)
    <3> HIDE DEF text
    <3> QED
      BY <1>1, <2>1, <2>3, SdkErased DEF SdkShown
  <2> QED
    BY <2>1, <2>2, <2>4 DEF SdkInv
<1>5. CASE Sdk!Type(ch)
  <2>1. CASE Len(repl_line) + 1 < Capacity
    <3>1. ch \in 32 .. 126 /\ repl_line' = Append(repl_line, ch)
          /\ console' = Sdk!repl_write(console, <<ch>>)
      BY <1>5, <2>1 DEF Sdk!Type, Sdk!Echoed
    <3>2. /\ SdkPrompt \o Append(repl_line, ch) = Append(text, ch)
          /\ Append(repl_line, ch) \in Seq(32 .. 126)
      BY <1>1, <1>2, <3>1, LongerLine
    <3>3. SdkShown(console', Append(text, ch))
      <4> HIDE DEF text
      <4> QED
        BY <1>1, <1>2, <3>1, SdkEchoed DEF SdkShown
    <3> QED
      BY <3>1, <3>2, <3>3 DEF SdkInv
  <2>2. CASE ~(Len(repl_line) + 1 < Capacity)
    <3>1. repl_line' = repl_line /\ console' = console
      BY <1>5, <2>2 DEF Sdk!Type, Sdk!Echoed
    <3> QED
      BY <3>1 DEF SdkInv
  <2> QED
    BY <2>1, <2>2
<1> QED
  BY <1>3, <1>4, <1>5

LEMMA SdkShows == SdkInv => Sdk!SdkScreenIsText
<1> SUFFICES ASSUME SdkInv PROVE Sdk!SdkScreenIsText
  OBVIOUS
<1> DEFINE text == SdkPrompt \o repl_line
           cursor == console.row * SdkCols + console.col
           CellAt(n) == console.cells[n \div SdkCols][n % SdkCols]
<1>1. /\ console \in SdkScreens /\ repl_line \in Seq(32 .. 126) /\ Tidy(console, SdkCols, text)
      /\ SdkCols \in Nat \ {0} /\ console.lcd = console.cells
  BY SdkSizes, SdkFields DEF SdkInv, SdkShown
<1>2. cursor = Cursor(console, SdkCols) /\ \A n : CellAt(n) = Flat(console.cells, SdkCols, n)
  BY DEF Cursor, Flat
<1>3. cursor \in Nat /\ Len(text) \in Nat
  <2>1. cursor \in Nat
    BY <1>1, <1>2, CursorRange DEF Tidy
  <2>2. text \in Seq(Int)
    <3>1. 32 \in 32 .. 126
      OBVIOUS
    <3> QED
      BY <1>1, <3>1, SdkTexts, LongerLine
  <2> HIDE DEF text
  <2> QED
    BY <2>1, <2>2, LenProperties
<1> HIDE DEF text, cursor, CellAt
<1>4. ASSUME NEW n \in 1 .. IF cursor < Len(text) THEN cursor ELSE Len(text)
      PROVE  CellAt(cursor - n) = text[Len(text) + 1 - n]
  <2>1. n \in 1 .. Len(text) /\ n <= cursor
    BY <1>3
  <2> QED
    BY <1>1, <1>2, <2>1 DEF Tidy, Ends
<1>5. ASSUME NEW n \in cursor .. Rows * SdkCols - 1 PROVE CellAt(n) = Sdk!Space
  <2>1. n \in 0 .. Rows * SdkCols - 1 /\ n >= cursor
    BY <1>3
  <2> QED
    BY <1>1, <1>2, <2>1 DEF Tidy, Clear, Sdk!Space, Blank
<1> QED
  BY <1>1, <1>4, <1>5 DEF Sdk!SdkScreenIsText, text, cursor, CellAt

-----------------------------------------------------------------------------
(***************************************************************************)
(* The arguments of a line.  While the line is split, the arguments so far *)
(* are its first words, each stored below p.write, and behind p.read the   *)
(* buffer is still the line, unless the end of an argument was written     *)
(* over the blank there: then nothing more is read.                        *)
(***************************************************************************)
LEMMA SdkCardinality == ASSUME NEW S PROVE Sdk!Cardinality(S) = Cardinality(S)
BY DEF Sdk!Cardinality, Cardinality

\* The first of the positions in a set.
LEMMA FirstOf ==
  ASSUME NEW from \in Nat, NEW to \in Nat, NEW S, \E i \in from .. to : i \in S
  PROVE  \E e \in from .. to : e \in S /\ \A j \in from .. e - 1 : j \notin S
<1> DEFINE T == {i \in from .. to : i \in S}
<1>1. T \in SUBSET Nat /\ T # {}
  OBVIOUS
<1>2. PICK e \in T : \A j \in T : e <= j
  <2> HIDE DEF T
  <2> QED
    BY <1>1, NatLeast
<1>3. ASSUME NEW j \in from .. e - 1 PROVE j \notin S
  <2> SUFFICES ASSUME j \in S PROVE FALSE
    OBVIOUS
  <2>1. e \in from .. to /\ j \in Int /\ j < e
    OBVIOUS
  <2>2. j \in T
    BY <2>1
  <2> HIDE DEF T
  <2>3. e <= j
    BY <1>2, <2>2
  <2> QED
    BY <2>1, <2>3
<1> QED
  BY <1>2, <1>3

First(buffer, from, stops, e) ==
  /\ e \in from .. Len(buffer) /\ buffer[e] \in stops
  /\ \A j \in from .. e - 1 : buffer[j] \notin stops

LEMMA UptoIs ==
  ASSUME NEW buffer, Len(buffer) \in Nat, NEW from \in Nat, NEW stops, NEW e, First(buffer, from, stops, e)
  PROVE  Sdk!Upto(buffer, from, stops) = e
<1> DEFINE P(i) == buffer[i] \in stops /\ \A j \in from .. i - 1 : buffer[j] \notin stops
<1>1. e \in from .. Len(buffer) /\ P(e)
  BY DEF First
<1>2. ASSUME NEW i \in from .. Len(buffer), P(i) PROVE i = e
  <2>1. i \in Int /\ e \in Int /\ i >= from /\ e >= from
    BY <1>1
  <2>2. ~(i < e)
    <3> SUFFICES ASSUME i < e PROVE FALSE
      OBVIOUS
    <3>1. i \in from .. e - 1
      BY <2>1
    <3> QED
      BY <1>1, <1>2, <3>1
  <2>3. ~(e < i)
    <3> SUFFICES ASSUME e < i PROVE FALSE
      OBVIOUS
    <3>1. e \in from .. i - 1
      BY <2>1
    <3> QED
      BY <1>1, <1>2, <3>1
  <2> QED
    BY <2>1, <2>2, <2>3
<1>3. \A i : (i \in from .. Len(buffer) /\ P(i)) <=> i = e
  <2> HIDE DEF P
  <2> QED
    BY <1>1, <1>2
<1> QED
  BY <1>3, Zenon DEF Sdk!Upto

LEMMA FirstExists ==
  ASSUME NEW buffer, Len(buffer) \in Nat, NEW from \in Nat, NEW stops,
         \E i \in from .. Len(buffer) : buffer[i] \in stops
  PROVE  \E e : First(buffer, from, stops, e)
<1> DEFINE S == {i \in from .. Len(buffer) : buffer[i] \in stops}
<1>1. \E i \in from .. Len(buffer) : i \in S
  OBVIOUS
<1>2. \E e \in from .. Len(buffer) : e \in S /\ \A j \in from .. e - 1 : j \notin S
  <2> HIDE DEF S
  <2> QED
    BY <1>1, FirstOf
<1>3. PICK e \in from .. Len(buffer) : e \in S /\ \A j \in from .. e - 1 : j \notin S
  BY <1>2
<1>4. ASSUME NEW j \in from .. e - 1 PROVE buffer[j] \notin stops
  BY <1>3
<1> QED
  BY <1>3, <1>4 DEF First

\* The first position that is no blank.
LEMMA AfterBlanksIs ==
  ASSUME NEW buffer, Len(buffer) \in Nat, NEW from \in Nat, NEW e \in from .. Len(buffer),
         buffer[e] # 32, \A j \in from .. e - 1 : buffer[j] = 32
  PROVE  Sdk!AfterBlanks(buffer, from) = e
<1> DEFINE P(i) == buffer[i] # 32 /\ \A j \in from .. i - 1 : buffer[j] = 32
<1>1. ASSUME NEW i \in from .. Len(buffer), P(i) PROVE i = e
  <2>1. i \in Int /\ e \in Int /\ i >= from /\ e >= from
    OBVIOUS
  <2>2. ~(i < e)
    <3> SUFFICES ASSUME i < e PROVE FALSE
      OBVIOUS
    <3>1. i \in from .. e - 1
      BY <2>1
    <3> QED
      BY <1>1, <3>1
  <2>3. ~(e < i)
    <3> SUFFICES ASSUME e < i PROVE FALSE
      OBVIOUS
    <3>1. e \in from .. i - 1
      BY <2>1
    <3> QED
      BY <1>1, <3>1
  <2> QED
    BY <2>1, <2>2, <2>3
<1>2. \A i : (i \in from .. Len(buffer) /\ P(i)) <=> i = e
  <2>1. P(e)
    OBVIOUS
  <2> HIDE DEF P
  <2> QED
    BY <1>1, <2>1
<1> QED
  BY <1>2, Zenon DEF Sdk!AfterBlanks, Sdk!Space

Starts(text) == {i \in DOMAIN text : text[i] # 32 /\ (i = 1 \/ text[i - 1] = 32)}
IsWord(text, s, e) ==
  /\ s \in Starts(text) /\ e \in s + 1 .. Len(text) + 1
  /\ \A i \in s .. e - 1 : text[i] # 32
  /\ e = Len(text) + 1 \/ text[e] = 32
\* The words that start before a position, and up to one.
Before(text, at) == {j \in Starts(text) : j < at}
UpToStart(text, s) == {j \in Starts(text) : j <= s}

LEMMA StartsFinite ==
  ASSUME NEW text \in Seq(Int)
  PROVE  /\ Starts(text) \in SUBSET (1 .. Len(text)) /\ IsFiniteSet(Starts(text))
         /\ \A S \in SUBSET Starts(text) : IsFiniteSet(S) /\ Cardinality(S) \in Nat
                                           /\ Cardinality(S) <= Cardinality(Starts(text))
         /\ Cardinality(Starts(text)) \in Nat /\ Len(text) \in Nat
<1>1. Len(text) \in Nat /\ Starts(text) \in SUBSET (1 .. Len(text))
  BY LenProperties DEF Starts
<1>2. IsFiniteSet(1 .. Len(text))
  BY <1>1, FS_Interval
<1>3. IsFiniteSet(Starts(text))
  BY <1>1, <1>2, FS_Subset
<1>4. ASSUME NEW S \in SUBSET Starts(text)
      PROVE  IsFiniteSet(S) /\ Cardinality(S) \in Nat /\ Cardinality(S) <= Cardinality(Starts(text))
  BY <1>3, FS_Subset, FS_CardinalityType
<1> QED
  BY <1>1, <1>3, <1>4, FS_CardinalityType

\* The next word is counted.
LEMMA OneMoreWord ==
  ASSUME NEW text \in Seq(Int), NEW s, NEW e, IsWord(text, s, e), NEW at \in 1 .. s,
         \A j \in at .. s - 1 : text[j] = 32
  PROVE  /\ Before(text, e) = UpToStart(text, s)
         /\ Cardinality(UpToStart(text, s)) = Cardinality(Before(text, at)) + 1
<1>1. s \in Starts(text) /\ s \in 1 .. Len(text) /\ e \in s + 1 .. Len(text) + 1 /\ Len(text) \in Nat
      /\ \A i \in s .. e - 1 : text[i] # 32
  BY StartsFinite DEF IsWord
<1>2. ASSUME NEW j \in Starts(text), j < e, ~(j <= s) PROVE FALSE
  <2>1. j \in 1 .. Len(text) /\ j # 1 /\ j - 1 \in s .. e - 1
    BY <1>1, <1>2, StartsFinite
  <2>2. text[j - 1] = 32
    BY <2>1 DEF Starts
  <2> QED
    BY <1>1, <2>1, <2>2
<1>3. Before(text, e) = UpToStart(text, s)
  <2>1. \A j \in Starts(text) : j \in Int /\ (j <= s => j < e)
    BY <1>1, StartsFinite
  <2> QED
    BY <1>2, <2>1 DEF Before, UpToStart
<1>4. UpToStart(text, s) = Before(text, at) \cup {s}
  <2>1. ASSUME NEW j \in Starts(text), j <= s, ~(j < at) PROVE j = s
    <3>1. j \in Int /\ (j # s => j \in at .. s - 1)
      BY <1>1, <2>1, StartsFinite
    <3> QED
      BY <3>1 DEF Starts
  <2>2. \A j \in Starts(text) : j < at => j <= s
    BY <1>1, StartsFinite
  <2>3. s <= s
    BY <1>1
  <2> QED
    BY <1>1, <2>1, <2>2, <2>3 DEF Before, UpToStart
<1>5. s \notin Before(text, at)
  BY <1>1 DEF Before
<1>6. IsFiniteSet(Before(text, at))
  BY StartsFinite DEF Before
<1>7. Cardinality(Before(text, at) \cup {s}) = Cardinality(Before(text, at)) + 1
  BY <1>5, <1>6, FS_AddElement
<1> QED
  BY <1>3, <1>4, <1>7

\* A word is found in the list of the words at its number.
LEMMA WordAt ==
  ASSUME NEW text \in Seq(Int), NEW s, NEW e, IsWord(text, s, e), NEW n,
         Cardinality(UpToStart(text, s)) = n
  PROVE  /\ n \in 1 .. Cardinality(Starts(text))
         /\ Len(Sdk!Words(text)) = Cardinality(Starts(text))
         /\ Sdk!Words(text)[n] = SubSeq(text, s, e - 1)
<1>1. s \in Starts(text) /\ s \in 1 .. Len(text) /\ e \in s + 1 .. Len(text) + 1 /\ Len(text) \in Nat
  BY StartsFinite DEF IsWord
<1>2. Sdk!WordStarts(text) = Starts(text)
  BY DEF Sdk!WordStarts, Sdk!Space, Starts
<1>3. \A i : {j \in Starts(text) : j <= i} = UpToStart(text, i)
  BY DEF UpToStart
<1>4. n \in 1 .. Cardinality(Starts(text))
  <2>1. UpToStart(text, s) \in SUBSET Starts(text) /\ s \in UpToStart(text, s)
    BY <1>1 DEF UpToStart
  <2>2. IsFiniteSet(UpToStart(text, s)) /\ n \in Nat /\ n <= Cardinality(Starts(text))
    BY <2>1, StartsFinite
  <2>3. n # 0
    BY <2>1, <2>2, FS_EmptySet
  <2> QED
    BY <2>2, <2>3, StartsFinite
<1>5. ASSUME NEW i \in Starts(text), Cardinality(UpToStart(text, i)) = n PROVE i = s
  <2>1. \A a, b \in Starts(text) : a < b => Cardinality(UpToStart(text, a)) # Cardinality(UpToStart(text, b))
    <3> SUFFICES ASSUME NEW a \in Starts(text), NEW b \in Starts(text), a < b,
                        Cardinality(UpToStart(text, a)) = Cardinality(UpToStart(text, b))
                 PROVE  FALSE
      OBVIOUS
    <3>1. a \in Int /\ b \in Int /\ \A j \in Starts(text) : j \in Int
      BY StartsFinite
    <3>2. UpToStart(text, a) \in SUBSET UpToStart(text, b)
      <4>1. \A j \in Starts(text) : j <= a => j <= b
        BY <3>1
      <4> QED
        BY <4>1 DEF UpToStart
    <3>3. IsFiniteSet(UpToStart(text, b))
      BY StartsFinite DEF UpToStart
    <3>4. UpToStart(text, a) = UpToStart(text, b)
      BY <3>2, <3>3, FS_Subset
    <3>5. b \in UpToStart(text, b) /\ b \notin UpToStart(text, a)
      BY <3>1 DEF UpToStart
    <3> QED
      BY <3>4, <3>5
  <2>2. i \in Int /\ s \in Int
    BY <1>1, StartsFinite
  <2> QED
    BY <1>1, <1>5, <2>1, <2>2
<1> DEFINE starts == Sdk!WordStarts(text)
           Start(k) == CHOOSE i \in starts : Sdk!Cardinality({j \in starts : j <= i}) = k
<1>6. Start(n) = s
  <2>1. \A i : Sdk!Cardinality({j \in starts : j <= i}) = Cardinality(UpToStart(text, i))
    BY <1>2, <1>3, SdkCardinality
  <2>2. \A i : (i \in starts /\ Sdk!Cardinality({j \in starts : j <= i}) = n) <=> i = s
    BY <1>1, <1>2, <1>5, <2>1
  <2> HIDE DEF starts
  <2> QED
    BY <2>2, Zenon
<1>7. Sdk!Upto(Append(text, 32), s, {32}) = e
  <2> DEFINE ended == Append(text, 32)
  <2>1. Len(ended) = Len(text) + 1 /\ ended[Len(text) + 1] = 32
        /\ \A i \in 1 .. Len(text) : ended[i] = text[i]
    BY AppendProperties
  <2> HIDE DEF ended
  <2>2. First(ended, s, {32}, e)
    <3>1. e \in s .. Len(ended) /\ ended[e] = 32
      BY <1>1, <2>1 DEF IsWord
    <3>2. \A j \in s .. e - 1 : j \in 1 .. Len(text) /\ text[j] # 32
      BY <1>1 DEF IsWord
    <3> QED
      BY <2>1, <3>1, <3>2 DEF First
  <2>3. Len(ended) \in Nat /\ s \in Nat
    BY <1>1, <2>1
  <2>4. Sdk!Upto(ended, s, {32}) = e
    BY <2>2, <2>3, UptoIs
  <2> QED
    BY <2>4 DEF ended
<1>8. Sdk!Words(text) = [k \in 1 .. Sdk!Cardinality(starts) |->
                           SubSeq(text, Start(k), Sdk!Upto(Append(text, 32), Start(k), {32}) - 1)]
  BY DEF Sdk!Words, Sdk!Space
<1>9. Sdk!Cardinality(starts) = Cardinality(Starts(text))
  BY <1>2, SdkCardinality
<1> HIDE DEF Start, starts
<1>10. Sdk!Words(text)[n] = SubSeq(text, s, e - 1)
  BY <1>4, <1>6, <1>7, <1>8, <1>9
<1>11. Len(Sdk!Words(text)) = Cardinality(Starts(text))
  BY <1>8, <1>9, StartsFinite
<1> QED
  BY <1>4, <1>10, <1>11

\* A word that is stored: below write, and ended by a 0.
Stored(buffer, write, at, text, s, e) ==
  /\ at \in Nat \ {0} /\ at + (e - s) < write
  /\ \A i \in 0 .. e - s - 1 : buffer[at + i] = text[s + i]
  /\ buffer[at + (e - s)] = 0
KeptWord(text, buffer, write, at, n) ==
  \E s, e : /\ IsWord(text, s, e) /\ Cardinality(UpToStart(text, s)) = n
            /\ Stored(buffer, write, at, text, s, e)
Unread(text, buffer, read, write) ==
  write <= read /\ \A i \in read .. Len(text) + 1 : buffer[i] = Append(text, 0)[i]
Splits(text, buffer, read, write, argv) ==
  /\ buffer \in Seq(Int) /\ Len(buffer) = Len(text) + 1
  /\ read \in 1 .. Len(text) + 1 /\ write \in 1 .. Len(text) + 2
  /\ argv \in Seq(Nat)
  /\ read = 1 \/ read = Len(text) + 1 \/ text[read] = 32
  /\ Cardinality(Before(text, read)) = Len(argv)
  /\ buffer[read] = 0 \/ Unread(text, buffer, read, write)
  /\ \A k \in 1 .. Len(argv) : KeptWord(text, buffer, write, argv[k], k)

\* The next word is from start to end - 1.
NextWord(text, read, start, end) ==
  /\ start \in read .. Len(text) /\ IsWord(text, start, end)
  /\ \A j \in read .. start - 1 : text[j] = 32
MovedWord(next, buffer, write, start, end) ==
  next = [i \in DOMAIN buffer |->
            IF i \in write .. write + (end - start) - 1 THEN buffer[start + i - write]
            ELSE IF i = write + (end - start) THEN 0 ELSE buffer[i]]

LEMMA LineEnded ==
  ASSUME NEW text \in Seq(32 .. 126)
  PROVE  /\ Len(text) \in Nat /\ Len(Append(text, 0)) = Len(text) + 1 /\ Append(text, 0) \in Seq(Int)
         /\ Append(text, 0)[Len(text) + 1] = 0 /\ text \in Seq(Int)
         /\ \A i \in 1 .. Len(text) : Append(text, 0)[i] = text[i] /\ text[i] \in 32 .. 126
<1>1. text \in Seq(Int)
  BY Printables
<1>2. \A i \in 1 .. Len(text) : text[i] \in 32 .. 126
  BY ElementOfSeq
<1> QED
  BY <1>1, <1>2, AppendProperties, LenProperties

LEMMA FindsNext ==
  ASSUME NEW text \in Seq(32 .. 126), NEW buffer, NEW read, NEW write, NEW argv,
         Splits(text, buffer, read, write, argv), buffer[read] # 0,
         buffer[Sdk!AfterBlanks(buffer, read)] # 0
  PROVE  \E start, end :
           /\ NextWord(text, read, start, end) /\ Unread(text, buffer, read, write)
           /\ Sdk!AfterBlanks(buffer, read) = start /\ buffer[start] = text[start]
           /\ Sdk!Upto(buffer, start, {0, 32}) = end
<1> DEFINE closed == Append(text, 0)
           n == Len(text)
<1>1. /\ n \in Nat /\ Len(closed) = n + 1 /\ closed[n + 1] = 0
      /\ \A i \in 1 .. n : closed[i] = text[i] /\ text[i] \in 32 .. 126
  BY LineEnded
<1>2. /\ Len(buffer) = n + 1 /\ read \in 1 .. n + 1 /\ Unread(text, buffer, read, write)
      /\ \A i \in read .. n + 1 : buffer[i] = closed[i]
  BY DEF Splits, Unread
<1>3. read = 1 \/ read = n + 1 \/ text[read] = 32
  BY DEF Splits
<1> HIDE DEF closed, n
<1>4. PICK start \in read .. n + 1 : buffer[start] # 32 /\ \A j \in read .. start - 1 : buffer[j] = 32
  <2> DEFINE S == {i \in read .. n + 1 : buffer[i] # 32}
  <2>1. read \in Nat /\ n + 1 \in Nat /\ n + 1 \in read .. n + 1 /\ buffer[n + 1] = 0
    BY <1>1, <1>2
  <2>2. \E i \in read .. n + 1 : i \in S
    BY <2>1
  <2>3. \E e \in read .. n + 1 : e \in S /\ \A j \in read .. e - 1 : j \notin S
    <3> HIDE DEF S
    <3> QED
      BY <2>1, <2>2, FirstOf
  <2>4. PICK e \in read .. n + 1 : e \in S /\ \A j \in read .. e - 1 : j \notin S
    BY <2>3
  <2>5. ASSUME NEW j \in read .. e - 1 PROVE buffer[j] = 32
    <3>1. j \in read .. n + 1
      BY <1>1, <1>2, <2>4
    <3> QED
      BY <2>4, <3>1
  <2> QED
    BY <2>4, <2>5
<1>5. Sdk!AfterBlanks(buffer, read) = start
  <2>1. read \in Nat /\ Len(buffer) \in Nat /\ start \in read .. Len(buffer)
    BY <1>1, <1>2
  <2> QED
    BY <1>4, <2>1, AfterBlanksIs
<1>6. buffer[start] # 0
  BY <1>5
<1>7. start \in read .. n /\ buffer[start] = text[start] /\ text[start] # 32
      /\ \A j \in read .. start - 1 : text[j] = 32
  <2>1. start # n + 1
    BY <1>1, <1>2, <1>6
  <2>2. start \in read .. n /\ start \in 1 .. n /\ start \in read .. n + 1
    BY <1>1, <1>2, <2>1
  <2>3. buffer[start] = text[start]
    BY <1>1, <1>2, <2>2
  <2>4. ASSUME NEW j \in read .. start - 1 PROVE text[j] = 32
    <3>1. j \in 1 .. n /\ j \in read .. n + 1
      BY <1>1, <1>2, <2>2
    <3> QED
      BY <1>1, <1>2, <1>4, <3>1
  <2> QED
    BY <1>4, <2>2, <2>3, <2>4
<1>8. PICK end : First(buffer, start, {0, 32}, end)
  <2>1. n + 1 \in start .. Len(buffer) /\ buffer[n + 1] = 0 /\ start \in Nat /\ Len(buffer) \in Nat
    BY <1>1, <1>2, <1>7
  <2>2. \E i \in start .. Len(buffer) : buffer[i] \in {0, 32}
    BY <2>1
  <2> QED
    BY <2>1, <2>2, FirstExists
<1>9. Sdk!Upto(buffer, start, {0, 32}) = end
  BY <1>1, <1>2, <1>7, <1>8, UptoIs
<1>10. IsWord(text, start, end)
  <2>1. end \in start .. n + 1 /\ buffer[end] \in {0, 32} /\ \A j \in start .. end - 1 : buffer[j] \notin {0, 32}
    BY <1>2, <1>8 DEF First
  <2>2. buffer[start] \notin {0, 32}
    BY <1>4, <1>6
  <2>3. end \in start + 1 .. n + 1
    BY <1>1, <1>2, <1>7, <2>1, <2>2
  <2>4. ASSUME NEW i \in start .. end - 1 PROVE text[i] # 32
    <3>1. i \in 1 .. n /\ i \in read .. n + 1
      BY <1>1, <1>2, <1>7, <2>3
    <3> QED
      BY <1>1, <1>2, <2>1, <3>1
  <2>5. end = n + 1 \/ text[end] = 32
    <3>1. CASE end # n + 1
      <4>1. end \in 1 .. n /\ end \in read .. n + 1
        BY <1>1, <1>2, <1>7, <2>3, <3>1
      <4>2. buffer[end] = closed[end] /\ closed[end] = text[end]
        BY <1>1, <1>2, <4>1
      <4>3. text[end] \in 32 .. 126
        BY <1>1, <4>1
      <4>4. text[end] # 0
        <5>1. \A ch \in 32 .. 126 : ch # 0
          OBVIOUS
        <5> QED
          BY <4>3, <5>1
      <4> QED
        BY <2>1, <4>2, <4>4
    <3> QED
      BY <3>1
  <2>6. start \in Starts(text)
    <3>1. start = 1 \/ text[start - 1] = 32
      <4>1. CASE start = read
        BY <1>1, <1>2, <1>3, <1>7, <4>1
      <4>2. CASE start # read
        <5>1. start - 1 \in read .. start - 1
          BY <1>1, <1>2, <1>7, <4>2
        <5> QED
          BY <1>7, <5>1
      <4> QED
        BY <4>1, <4>2
    <3>2. start \in DOMAIN text
      BY <1>1, <1>2, <1>7, LenProperties DEF n
    <3> QED
      BY <1>7, <3>1, <3>2 DEF Starts
  <2> QED
    BY <2>3, <2>4, <2>5, <2>6 DEF IsWord, n
<1>11. NextWord(text, read, start, end)
  BY <1>7, <1>10 DEF NextWord, n
<1> QED
  BY <1>2, <1>5, <1>7, <1>9, <1>11

\* A word is moved down to write and becomes an argument.
LEMMA TakesWord ==
  ASSUME NEW text \in Seq(32 .. 126), NEW buffer, NEW read, NEW write, NEW argv,
         Splits(text, buffer, read, write, argv), Unread(text, buffer, read, write),
         NEW start, NEW end, NextWord(text, read, start, end),
         NEW next, MovedWord(next, buffer, write, start, end)
  PROVE  Splits(text, next, end, write + (end - start) + 1, Append(argv, write))
<1> DEFINE closed == Append(text, 0)
           n == Len(text)
           len == end - start
           after == write + len + 1
           args == Append(argv, write)
           c == Len(argv)
<1>1. /\ n \in Nat /\ Len(closed) = n + 1 /\ text \in Seq(Int)
      /\ \A i \in 1 .. n : closed[i] = text[i]
  BY LineEnded
<1>2. /\ buffer \in Seq(Int) /\ Len(buffer) = n + 1 /\ DOMAIN buffer = 1 .. n + 1
      /\ read \in 1 .. n + 1 /\ write \in 1 .. n + 2 /\ argv \in Seq(Nat) /\ c \in Nat
  BY LenProperties DEF Splits
<1>3. /\ start \in read .. n /\ end \in start + 1 .. n + 1 /\ IsWord(text, start, end)
      /\ \A j \in read .. start - 1 : text[j] = 32
      /\ (end = n + 1 \/ text[end] = 32)
  BY DEF NextWord, IsWord
<1>4. write <= read /\ \A i \in read .. n + 1 : buffer[i] = closed[i]
  BY DEF Unread
<1> HIDE DEF closed, n, c
<1>5. /\ len \in Nat \ {0} /\ write \in Nat \ {0} /\ write + len \in 1 .. n + 1 /\ write + len <= end
      /\ start \in Nat /\ end \in Nat
  BY <1>1, <1>2, <1>3, <1>4
<1>6. next = [i \in 1 .. n + 1 |->
               IF i \in write .. write + len - 1 THEN buffer[start + i - write]
               ELSE IF i = write + len THEN 0 ELSE buffer[i]]
  BY <1>2 DEF MovedWord
<1> HIDE DEF len
<1>7. ASSUME NEW i \in 0 .. len - 1 PROVE next[write + i] = text[start + i]
  <2>1. write + i \in 1 .. n + 1 /\ write + i \in write .. write + len - 1
        /\ start + (write + i) - write = start + i
    BY <1>1, <1>5
  <2>2. start + i \in 1 .. n /\ start + i \in read .. n + 1
    BY <1>1, <1>2, <1>3, <1>5 DEF len
  <2>3. next[write + i] = buffer[start + (write + i) - write]
    BY <1>6, <2>1
  <2> QED
    BY <1>1, <1>4, <2>1, <2>2, <2>3
<1>8. next[write + len] = 0
  BY <1>5, <1>6
<1>9. \A i \in 1 .. n + 1 : i < write \/ i > write + len => next[i] = buffer[i]
  <2> SUFFICES ASSUME NEW i \in 1 .. n + 1, i < write \/ i > write + len PROVE next[i] = buffer[i]
    OBVIOUS
  <2>1. i \notin write .. write + len - 1 /\ i # write + len
    BY <1>5
  <2> QED
    BY <1>6, <2>1
<1>10. next \in Seq(Int) /\ Len(next) = n + 1
  <2>1. \A i \in 1 .. n + 1 : next[i] \in Int
    <3> SUFFICES ASSUME NEW i \in 1 .. n + 1 PROVE next[i] \in Int
      OBVIOUS
    <3>1. \A j \in 1 .. n + 1 : buffer[j] \in Int
      BY <1>2, ElementOfSeq
    <3>2. CASE i \in write .. write + len - 1
      <4>1. start + i - write \in 1 .. n + 1
        BY <1>1, <1>2, <1>3, <1>5, <3>2 DEF len
      <4> QED
        BY <1>6, <3>1, <3>2, <4>1
    <3>3. CASE i \notin write .. write + len - 1
      BY <1>6, <3>1, <3>3
    <3> QED
      BY <3>2, <3>3
  <2>2. next = [i \in 1 .. n + 1 |-> next[i]]
    BY <1>6
  <2>3. n + 1 \in Nat /\ next \in [1 .. n + 1 -> Int]
    BY <1>1, <2>1, <2>2
  <2> QED
    BY <2>3
<1>11. end \in 1 .. n + 1 /\ after \in 1 .. n + 2 /\ (end = 1 \/ end = n + 1 \/ text[end] = 32)
  BY <1>1, <1>2, <1>3, <1>5
<1>12. args \in Seq(Nat) /\ Len(args) = c + 1 /\ args[c + 1] = write /\ \A k \in 1 .. c : args[k] = argv[k]
  BY <1>2, <1>5, AppendProperties DEF c
<1>13. /\ Cardinality(Before(text, end)) = c + 1 /\ Cardinality(UpToStart(text, start)) = c + 1
  <2>1. read \in 1 .. start
    BY <1>1, <1>2, <1>3
  <2>2. /\ Before(text, end) = UpToStart(text, start)
        /\ Cardinality(UpToStart(text, start)) = Cardinality(Before(text, read)) + 1
    BY <1>1, <1>3, <2>1, OneMoreWord
  <2>3. Cardinality(Before(text, read)) = c
    BY DEF Splits, c
  <2> QED
    BY <2>2, <2>3
<1>14. next[end] = 0 \/ Unread(text, next, end, after)
  <2>1. CASE write + len = end
    BY <1>8, <2>1
  <2>2. CASE write + len # end
    <3>1. write + len < end /\ after <= end
      BY <1>5, <2>2
    <3>2. ASSUME NEW i \in end .. n + 1 PROVE next[i] = closed[i]
      <4>1. i \in 1 .. n + 1 /\ i > write + len /\ i \in read .. n + 1
        BY <1>1, <1>2, <1>3, <1>5, <3>1
      <4> QED
        BY <1>4, <1>9, <4>1
    <3> QED
      BY <3>1, <3>2 DEF Unread, closed, n
  <2> QED
    BY <2>1, <2>2
<1>15. ASSUME NEW k \in 1 .. c PROVE KeptWord(text, next, after, args[k], k)
  <2>1. KeptWord(text, buffer, write, argv[k], k)
    BY DEF Splits, c
  <2>2. PICK s, e : /\ IsWord(text, s, e) /\ Cardinality(UpToStart(text, s)) = k
                    /\ Stored(buffer, write, argv[k], text, s, e)
    BY <2>1 DEF KeptWord
  <2> DEFINE at == argv[k]
             size == e - s
  <2>3. s \in Nat /\ e \in Nat /\ s < e
    BY <1>1, <2>2, StartsFinite DEF IsWord
  <2>4. /\ at \in Nat \ {0} /\ at + size < write /\ \A i \in 0 .. size - 1 : buffer[at + i] = text[s + i]
        /\ buffer[at + size] = 0 /\ size \in Nat
    BY <2>2, <2>3 DEF Stored
  <2> HIDE DEF at, size
  <2>5. ASSUME NEW i \in 0 .. size PROVE next[at + i] = buffer[at + i]
    <3>1. at + i \in 1 .. n + 1 /\ at + i < write
      BY <1>1, <1>2, <2>4
    <3> QED
      BY <1>9, <3>1
  <2>6. at + size < after
    BY <1>5, <2>4
  <2>7. ASSUME NEW i \in 0 .. size - 1 PROVE next[at + i] = text[s + i]
    <3>1. i \in 0 .. size
      BY <2>4
    <3> QED
      BY <2>4, <2>5, <3>1
  <2>8. next[at + size] = 0
    <3>1. size \in 0 .. size
      BY <2>4
    <3> QED
      BY <2>4, <2>5, <3>1
  <2>9. Stored(next, after, at, text, s, e)
    BY <2>4, <2>6, <2>7, <2>8 DEF Stored, size
  <2> QED
    BY <1>12, <2>2, <2>9 DEF KeptWord, at
<1>16. KeptWord(text, next, after, args[c + 1], c + 1)
  <2>1. Stored(next, after, write, text, start, end)
    <3>1. write + len < after
      BY <1>5
    <3> QED
      BY <1>5, <1>7, <1>8, <3>1 DEF Stored, len
  <2> QED
    BY <1>3, <1>12, <1>13, <2>1 DEF KeptWord
<1>17. \A k \in 1 .. c + 1 : KeptWord(text, next, after, args[k], k)
  <2> HIDE DEF args, after
  <2>1. \A k \in 1 .. c + 1 : k \in 1 .. c \/ k = c + 1
    BY <1>2
  <2> QED
    BY <1>15, <1>16, <2>1
<1> HIDE DEF args, after
<1>18. Splits(text, next, end, after, args)
  BY <1>10, <1>11, <1>12, <1>13, <1>14, <1>17 DEF Splits, n
<1> QED
  BY <1>18 DEF args, after, len

SplitStates(text) ==
  {p \in [buffer : Seq(Int), read : Nat, write : Nat, argv : Seq(Nat), failed : BOOLEAN] :
     Splits(text, p.buffer, p.read, p.write, p.argv)}
NoQuotes(text) == \A i \in DOMAIN text : text[i] \notin {34, 39}

LEMMA NextKeeps ==
  ASSUME NEW text \in Seq(32 .. 126), NoQuotes(text), NEW p \in SplitStates(text)
  PROVE  Sdk!NextArgument(p) \in SplitStates(text)
<1> DEFINE t == Sdk!NextArgument(p)
           n == Len(text)
           Rec == [buffer : Seq(Int), read : Nat, write : Nat, argv : Seq(Nat), failed : BOOLEAN]
           begin == Sdk!AfterBlanks(p.buffer, p.read)
<1>1. p \in Rec /\ Splits(text, p.buffer, p.read, p.write, p.argv)
  BY DEF SplitStates
<1>2. CASE p.buffer[p.read] = 0 \/ p.buffer[begin] = 0 \/ p.failed
  <2>1. t = p
    BY <1>2 DEF Sdk!NextArgument
  <2> QED
    BY <2>1
<1>3. CASE ~(p.buffer[p.read] = 0 \/ p.buffer[begin] = 0 \/ p.failed)
  <2>1. CASE Len(p.argv) + 1 >= MaxArgs
    <3>1. t = [p EXCEPT !.failed = TRUE]
      BY <1>3, <2>1 DEF Sdk!NextArgument
    <3> HIDE DEF t
    <3>2. t \in Rec /\ t.buffer = p.buffer /\ t.read = p.read /\ t.write = p.write /\ t.argv = p.argv
      BY <1>1, <3>1
    <3> QED
      BY <1>1, <3>2 DEF SplitStates, t
  <2>2. CASE ~(Len(p.argv) + 1 >= MaxArgs)
    <3>1. PICK start, end :
             /\ NextWord(text, p.read, start, end) /\ Unread(text, p.buffer, p.read, p.write)
             /\ begin = start /\ p.buffer[start] = text[start]
             /\ Sdk!Upto(p.buffer, start, {0, 32}) = end
      <4>1. p.buffer[p.read] # 0 /\ p.buffer[begin] # 0
        BY <1>3
      <4> QED
        BY <1>1, <4>1, FindsNext
    <3>2. start \in 1 .. n /\ end \in Nat /\ end \in start + 1 .. n + 1 /\ n \in Nat
      BY <3>1, <1>1, LineEnded DEF NextWord, IsWord, Splits
    <3>3. p.buffer[start] \notin {34, 39}
      BY <3>1, <3>2, LenProperties DEF NoQuotes
    <3> DEFINE moved == [i \in DOMAIN p.buffer |->
                  IF i \in p.write .. p.write + (end - start) - 1 THEN p.buffer[start + i - p.write]
                  ELSE IF i = p.write + (end - start) THEN 0 ELSE p.buffer[i]]
               after == p.write + (end - start) + 1
    <3>4. t = [p EXCEPT !.argv = Append(p.argv, p.write), !.buffer = moved, !.read = end, !.write = after]
      <4>1. t = [p EXCEPT !.argv = Append(@, p.write), !.buffer = moved, !.read = end,
                          !.write = @ + (end - start) + 1]
        BY <1>3, <2>2, <3>1, <3>3 DEF Sdk!NextArgument, Sdk!Space
      <4> HIDE DEF t, moved
      <4> QED
        BY <1>1, <4>1
    <3>5. MovedWord(moved, p.buffer, p.write, start, end)
      BY DEF MovedWord
    <3> HIDE DEF moved, t, after, begin, n
    <3>6. Splits(text, moved, end, after, Append(p.argv, p.write))
      BY <1>1, <3>1, <3>5, TakesWord DEF after
    <3>7. moved \in Seq(Int) /\ end \in Nat /\ after \in Nat /\ Append(p.argv, p.write) \in Seq(Nat)
      BY <3>2, <3>6, LineEnded DEF Splits
    <3>8. /\ t \in Rec /\ t.buffer = moved /\ t.read = end /\ t.write = after
          /\ t.argv = Append(p.argv, p.write)
      BY <1>1, <3>4, <3>7
    <3> QED
      BY <3>6, <3>8 DEF SplitStates, t
  <2> QED
    BY <2>1, <2>2
<1> QED
  BY <1>2, <1>3

SplitStart(text) == [buffer |-> Append(text, 0), read |-> 1, write |-> 1, argv |-> <<>>, failed |-> FALSE]

LEMMA SplitStarts ==
  ASSUME NEW text \in Seq(32 .. 126)
  PROVE  SplitStart(text) \in SplitStates(text)
<1> DEFINE closed == Append(text, 0)
<1>1. closed \in Seq(Int) /\ Len(closed) = Len(text) + 1 /\ Len(text) \in Nat /\ text \in Seq(Int)
  BY LineEnded
<1>2. Unread(text, closed, 1, 1)
  BY DEF Unread
<1>3. Cardinality(Before(text, 1)) = 0
  <2>1. Before(text, 1) = {}
    BY <1>1, StartsFinite DEF Before
  <2> QED
    BY <2>1, FS_EmptySet
<1>4. <<>> \in Seq(Nat) /\ Len(<<>>) = 0
  BY EmptySeq
<1> HIDE DEF closed
<1>5. Splits(text, closed, 1, 1, <<>>)
  BY <1>1, <1>2, <1>3, <1>4 DEF Splits
<1> DEFINE p == [buffer |-> closed, read |-> 1, write |-> 1, argv |-> <<>>, failed |-> FALSE]
<1>6. p.buffer = closed /\ p.read = 1 /\ p.write = 1 /\ p.argv = <<>>
      /\ p \in [buffer : Seq(Int), read : Nat, write : Nat, argv : Seq(Nat), failed : BOOLEAN]
  BY <1>1, <1>4
<1>7. SplitStart(text) = p
  BY DEF SplitStart, closed
<1> HIDE DEF p
<1> QED
  BY <1>5, <1>6, <1>7 DEF SplitStates

\* What is left when the line is split.
SplitEnd(text) == Sdk!FoldLeft(LAMBDA p, n : Sdk!NextArgument(p), SplitStart(text), Append(text, 0))

LEMMA SplitEnds ==
  ASSUME NEW text \in Seq(32 .. 126), NoQuotes(text)
  PROVE  SplitEnd(text) \in SplitStates(text)
<1> DEFINE closed == Append(text, 0)
           A == SplitStates(text)
           s == SplitStart(text)
           g == [q \in A \X Int |-> Sdk!NextArgument(q[1])]
           Eq(F) == F = [S \in SUBSET DOMAIN closed |-> IF S = {} THEN s ELSE Sdk!NextArgument(F[S \ {Max(S)}])]
           Z == CHOOSE F : Eq(F)
<1>0. Len(closed) \in Nat /\ DOMAIN closed = 1 .. Len(closed) /\ closed \in Seq(Int)
  BY LineEnded, LenProperties
<1>1. SplitEnd(text) = Z[DOMAIN closed]
  BY DEF SplitEnd, Sdk!FoldLeft, Sdk!MapThenFoldSet, Sdk!Max, Max
<1>2. s \in A /\ \A a \in A : Sdk!NextArgument(a) \in A
  BY SplitStarts, NextKeeps
<1> HIDE DEF A, s, closed
<1>3. g \in [A \X Int -> A]
  BY <1>2
<1>4. PICK F \in [SUBSET DOMAIN closed -> A] : Folds(F, s, g, closed)
  <2> HIDE DEF g
  <2> QED
    BY <1>0, <1>2, <1>3, FoldExists
<1>5. ASSUME NEW S \in SUBSET DOMAIN closed, S # {}
      PROVE  g[<<F[S \ {Max(S)}], closed[Max(S)]>>] = Sdk!NextArgument(F[S \ {Max(S)}])
  <2>1. Max(S) \in S
    BY <1>0, <1>5, LastIn
  <2>2. closed[Max(S)] \in Int /\ S \ {Max(S)} \in SUBSET DOMAIN closed
    BY <1>0, <2>1, ElementOfSeq
  <2>3. F[S \ {Max(S)}] \in A
    BY <2>2
  <2> QED
    BY <2>2, <2>3
<1>6. Eq(F)
  <2>1. F = [S \in SUBSET DOMAIN closed |-> F[S]]
    OBVIOUS
  <2> QED
    BY <1>4, <1>5, <2>1 DEF Folds
<1>7. Eq(Z)
  <2> HIDE DEF Eq
  <2> QED
    BY <1>6, Zenon
<1> HIDE DEF Z, g
<1> DEFINE T == {k \in 0 .. Len(closed) : Z[1 .. k] \in A}
<1>8. 0 \in T
  <2>1. 1 .. 0 = {}
    OBVIOUS
  <2> QED
    BY <1>0, <1>2, <1>7, <2>1
<1>9. ASSUME NEW k \in 0 .. Len(closed) - 1, k \in T PROVE k + 1 \in T
  <2>1. k + 1 \in Nat \ {0} /\ k + 1 \in 0 .. Len(closed) /\ (k + 1) - 1 = k
    BY <1>0
  <2>2. Max(1 .. k + 1) = k + 1 /\ (1 .. k + 1) \ {Max(1 .. k + 1)} = 1 .. (k + 1) - 1 /\ 1 .. k + 1 # {}
    BY <2>1, LastOf
  <2>3. 1 .. k + 1 \in SUBSET DOMAIN closed
    BY <1>0
  <2>4. Z[1 .. k + 1] = Sdk!NextArgument(Z[1 .. k])
    BY <1>7, <2>1, <2>2, <2>3
  <2> QED
    BY <1>2, <1>9, <2>1, <2>4
<1> HIDE DEF T
<1>10. Steps(T, Len(closed))
  BY <1>9 DEF Steps
<1>11. Len(closed) \in T
  BY <1>0, <1>8, <1>10, UpTo
<1> QED
  BY <1>0, <1>1, <1>11 DEF T, A

\* A stored word is read back.
LEMMA ReadsBack ==
  ASSUME NEW text \in Seq(32 .. 126), NEW buffer \in Seq(Int), NEW write \in 1 .. Len(buffer) + 1,
         NEW at, NEW s, NEW e, IsWord(text, s, e), Stored(buffer, write, at, text, s, e)
  PROVE  /\ SubSeq(buffer, at, Sdk!Upto(buffer, at, {0}) - 1) = SubSeq(text, s, e - 1)
         /\ SubSeq(text, s, e - 1) \in Seq(Int)
<1> DEFINE n == Len(text)
           len == e - s
<1>1. n \in Nat /\ text \in Seq(Int) /\ Len(buffer) \in Nat /\ \A i \in 1 .. n : text[i] \in 32 .. 126
  BY LineEnded, LenProperties
<1>2. s \in 1 .. n /\ e \in s + 1 .. n + 1
  BY <1>1, StartsFinite DEF IsWord
<1>3. /\ at \in Nat \ {0} /\ at + len < write /\ \A i \in 0 .. len - 1 : buffer[at + i] = text[s + i]
      /\ buffer[at + len] = 0 /\ len \in Nat \ {0}
  BY <1>1, <1>2 DEF Stored
<1>4. /\ \A i \in 0 .. len - 1 : s + i \in 1 .. n
      /\ at + len \in at .. Len(buffer)
  BY <1>1, <1>2, <1>3, SMTT(20)
<1> HIDE DEF len, n
<1>5. First(buffer, at, {0}, at + len)
  <2>1. ASSUME NEW j \in at .. at + len - 1 PROVE buffer[j] \notin {0}
    <3>1. j - at \in 0 .. len - 1 /\ at + (j - at) = j
      BY <1>3
    <3>2. buffer[j] = text[s + (j - at)] /\ text[s + (j - at)] \in 32 .. 126
      BY <1>1, <1>3, <1>4, <3>1
    <3>3. \A ch \in 32 .. 126 : ch # 0
      OBVIOUS
    <3> QED
      BY <3>2, <3>3
  <2> QED
    BY <1>3, <1>4, <2>1 DEF First
<1>6. Sdk!Upto(buffer, at, {0}) = at + len
  BY <1>1, <1>3, <1>5, UptoIs
<1> DEFINE a == SubSeq(buffer, at, at + len - 1)
           b == SubSeq(text, s, e - 1)
<1>7. a \in Seq(Int) /\ Len(a) = len /\ \A i \in 1 .. len : a[i] = buffer[at + i - 1]
  <2>1. \A i \in at .. at + len - 1 : buffer[i] \in Int
    <3>1. \A i \in at .. at + len - 1 : i \in 1 .. Len(buffer)
      BY <1>1, <1>3, <1>4
    <3> QED
      BY <3>1, ElementOfSeq
  <2>2. at \in Int /\ at + len - 1 \in Int /\ at <= at + len - 1 /\ (at + len - 1) - at + 1 = len
    BY <1>3
  <2> QED
    BY <2>1, <2>2, SubSeqProperties
<1>8. b \in Seq(Int) /\ Len(b) = len /\ \A i \in 1 .. len : b[i] = text[s + i - 1]
  <2>1. \A i \in s .. e - 1 : text[i] \in Int
    <3>1. \A i \in s .. e - 1 : i \in 1 .. Len(text)
      BY <1>1, <1>2 DEF n
    <3> QED
      BY <1>1, <3>1, ElementOfSeq
  <2>2. s \in Int /\ e - 1 \in Int /\ s <= e - 1 /\ (e - 1) - s + 1 = len
    BY <1>1, <1>2 DEF len
  <2> QED
    BY <2>1, <2>2, SubSeqProperties
<1> HIDE DEF a, b
<1>9. \A i \in 1 .. len : a[i] = b[i]
  <2> SUFFICES ASSUME NEW i \in 1 .. len PROVE a[i] = b[i]
    OBVIOUS
  <2>1. i - 1 \in 0 .. len - 1 /\ at + i - 1 = at + (i - 1) /\ s + i - 1 = s + (i - 1)
    BY <1>1, <1>2, <1>3
  <2>2. buffer[at + (i - 1)] = text[s + (i - 1)]
    BY <1>3, <2>1
  <2> QED
    BY <1>7, <1>8, <2>1, <2>2
<1>10. a = b
  BY <1>7, <1>8, <1>9, SeqEqual
<1>11. SubSeq(buffer, at, Sdk!Upto(buffer, at, {0}) - 1) = a
  <2>1. (at + len) - 1 = at + len - 1
    BY <1>3
  <2> QED
    BY <1>6, <2>1 DEF a
<1>12. SubSeq(text, s, e - 1) = b
  BY DEF b
<1> QED
  BY <1>8, <1>10, <1>11, <1>12

\* The arguments are the first words of the line.
LEMMA SplitRight ==
  ASSUME NEW text \in Seq(32 .. 126), Sdk!Plain(text)
  PROVE  Sdk!IsPrefix(Sdk!repl_split_args(text).argv, Sdk!Words(text)) /\ Sdk!IsPrefix(<<>>, Sdk!Words(text))
<1> DEFINE split == SplitEnd(text)
           string(at) == SubSeq(split.buffer, at, Sdk!Upto(split.buffer, at, {0}) - 1)
           a == [i \in DOMAIN split.argv |-> string(split.argv[i])]
           W == Sdk!Words(text)
           c == Len(split.argv)
           all == Cardinality(Starts(text))
<1>1. Sdk!repl_split_args(text).argv = a
  BY DEF Sdk!repl_split_args, SplitEnd, SplitStart
<1>2. split \in SplitStates(text)
  BY SplitEnds DEF Sdk!Plain, NoQuotes
<1> HIDE DEF split
<1>3. /\ Splits(text, split.buffer, split.read, split.write, split.argv)
      /\ split.buffer \in Seq(Int) /\ Len(split.buffer) = Len(text) + 1
      /\ split.write \in 1 .. Len(split.buffer) + 1 /\ split.argv \in Seq(Nat)
      /\ c \in Nat /\ DOMAIN split.argv = 1 .. c /\ Len(text) \in Nat
  BY <1>2, LenProperties DEF SplitStates, Splits
<1>4. Len(W) = all /\ all \in Nat /\ c <= all
  <2>1. text \in Seq(Int)
    BY Printables
  <2>2. Sdk!WordStarts(text) = Starts(text)
    BY DEF Sdk!WordStarts, Sdk!Space, Starts
  <2>3. Sdk!Cardinality(Sdk!WordStarts(text)) = all /\ all \in Nat
    BY <2>1, <2>2, SdkCardinality, StartsFinite
  <2>4. Len(W) = all
    BY <2>3 DEF Sdk!Words
  <2>5. Cardinality(Before(text, split.read)) = c
    BY <1>3 DEF Splits
  <2>6. Before(text, split.read) \in SUBSET Starts(text)
    BY DEF Before
  <2> QED
    BY <2>1, <2>3, <2>4, <2>5, <2>6, StartsFinite
<1>5. ASSUME NEW k \in 1 .. c PROVE a[k] = W[k] /\ a[k] \in Seq(Int)
  <2>1. KeptWord(text, split.buffer, split.write, split.argv[k], k)
    BY <1>3 DEF Splits
  <2>2. PICK s, e : /\ IsWord(text, s, e) /\ Cardinality(UpToStart(text, s)) = k
                    /\ Stored(split.buffer, split.write, split.argv[k], text, s, e)
    BY <2>1 DEF KeptWord
  <2>3. string(split.argv[k]) = SubSeq(text, s, e - 1) /\ SubSeq(text, s, e - 1) \in Seq(Int)
    BY <1>3, <2>2, ReadsBack
  <2>4. W[k] = SubSeq(text, s, e - 1)
    <3>1. text \in Seq(Int)
      BY Printables
    <3> HIDE DEF W
    <3> QED
      BY <2>2, <3>1, WordAt DEF W
  <2> HIDE DEF string, W
  <2>5. a[k] = string(split.argv[k])
    BY <1>3
  <2> QED
    BY <2>3, <2>4, <2>5
<1>6. a \in Seq(Seq(Int)) /\ Len(a) = c
  <2> HIDE DEF string
  <2>1. a = [k \in 1 .. c |-> string(split.argv[k])]
    BY <1>3
  <2> HIDE DEF a
  <2>2. a \in [1 .. c -> Seq(Int)]
    <3>1. \A k \in 1 .. c : a[k] \in Seq(Int)
      BY <1>5
    <3>2. a = [k \in 1 .. c |-> a[k]]
      BY <2>1
    <3> QED
      BY <3>1, <3>2
  <2> DEFINE X == Seq(Int)
  <2>3. c \in Nat /\ a \in [1 .. c -> X]
    BY <1>3, <2>2
  <2> HIDE DEF X, c
  <2>4. a \in Seq(X) /\ Len(a) = c
    BY <2>3
  <2> QED
    BY <2>4 DEF X, c
<1> HIDE DEF a, W, c, all
<1> DEFINE V == Seq(Int)
<1>7. \A k \in 1 .. c : a[k] = W[k] /\ a[k] \in V /\ W[k] \in V
  BY <1>5
<1> HIDE DEF V
<1>8. SubSeq(a, 1, c) = SubSeq(W, 1, c)
  <2>1. /\ SubSeq(a, 1, c) \in Seq(V) /\ Len(SubSeq(a, 1, c)) = IF 1 <= c THEN c - 1 + 1 ELSE 0
        /\ \A i \in 1 .. c - 1 + 1 : SubSeq(a, 1, c)[i] = a[1 + i - 1]
    BY <1>3, <1>7, SubSeqProperties DEF c
  <2>2. /\ SubSeq(W, 1, c) \in Seq(V) /\ Len(SubSeq(W, 1, c)) = IF 1 <= c THEN c - 1 + 1 ELSE 0
        /\ \A i \in 1 .. c - 1 + 1 : SubSeq(W, 1, c)[i] = W[1 + i - 1]
    BY <1>3, <1>7, SubSeqProperties DEF c
  <2>3. Len(SubSeq(a, 1, c)) = Len(SubSeq(W, 1, c)) /\ Len(SubSeq(a, 1, c)) = c
    BY <1>3, <2>1, <2>2 DEF c
  <2>4. \A i \in 1 .. c : SubSeq(a, 1, c)[i] = SubSeq(W, 1, c)[i]
    <3> SUFFICES ASSUME NEW i \in 1 .. c PROVE SubSeq(a, 1, c)[i] = SubSeq(W, 1, c)[i]
      OBVIOUS
    <3>1. i \in 1 .. c - 1 + 1 /\ 1 + i - 1 = i
      BY <1>3 DEF c
    <3> QED
      BY <1>7, <2>1, <2>2, <3>1
  <2> QED
    BY <2>1, <2>2, <2>3, <2>4, SeqEqual
<1>9. Sdk!IsPrefix(a, W)
  BY <1>4, <1>6, <1>8 DEF Sdk!IsPrefix
<1>10. Sdk!IsPrefix(<<>>, W)
  <2>1. SubSeq(<<>>, 1, 0) = <<>> /\ SubSeq(W, 1, 0) = <<>>
    BY SubSeqEmpty
  <2>2. Len(<<>>) = 0
    OBVIOUS
  <2> QED
    BY <1>4, <2>1, <2>2 DEF Sdk!IsPrefix
<1> QED
  BY <1>1, <1>9, <1>10 DEF W

ArgsInv == Sdk!ArgumentsAreWords

LEMMA ArgsStart == Sdk!ReplInit => ArgsInv
<1> SUFFICES ASSUME Sdk!ReplInit PROVE ArgsInv
  OBVIOUS
<1>1. entered = <<>>
  BY DEF Sdk!ReplInit
<1>2. Sdk!ToSet(<<>>) = {}
  BY DEF Sdk!ToSet
<1> QED
  BY <1>1, <1>2 DEF ArgsInv, Sdk!ArgumentsAreWords

LEMMA ArgsKeep == SdkInv /\ Sdk!ReplNext => ArgsInv'
<1> SUFFICES ASSUME SdkInv, NEW ch, Sdk!Enter(ch) \/ Sdk!Erase(ch) \/ Sdk!Type(ch) PROVE ArgsInv'
  BY DEF Sdk!ReplNext
<1>1. CASE Sdk!Enter(ch)
  <2>1. entered' = <<repl_line>> /\ repl_line \in Seq(32 .. 126)
    BY <1>1 DEF Sdk!Enter, SdkInv
  <2>2. arguments' = <<>> \/ arguments' = Sdk!repl_split_args(repl_line).argv
    BY <1>1 DEF Sdk!Enter, Sdk!repl_run_line
  <2>3. Sdk!ToSet(<<repl_line>>) = {repl_line}
    BY DEF Sdk!ToSet
  <2>4. Sdk!Plain(repl_line) => Sdk!IsPrefix(arguments', Sdk!Words(repl_line))
    BY <2>1, <2>2, SplitRight
  <2> QED
    BY <2>1, <2>3, <2>4 DEF ArgsInv, Sdk!ArgumentsAreWords
<1>2. CASE Sdk!Erase(ch) \/ Sdk!Type(ch)
  <2>1. entered' = <<>>
    BY <1>2 DEF Sdk!Erase, Sdk!Type
  <2>2. Sdk!ToSet(<<>>) = {}
    BY DEF Sdk!ToSet
  <2> QED
    BY <2>1, <2>2 DEF ArgsInv, Sdk!ArgumentsAreWords
<1> QED
  BY <1>1, <1>2

LinesInv == SdkInv /\ ArgsInv /\ BareInv

LEMMA LinesInvariance == ConsolesSpec => []LinesInv
<1>1. ConsolesInit => LinesInv
  BY SdkStarts, ArgsStart, BareStarts DEF ConsolesInit, LinesInv
<1>2. LinesInv /\ [ConsolesNext]_<<machine, vars, sdkVars, bareVars>> => LinesInv'
  <2> SUFFICES ASSUME LinesInv, [ConsolesNext]_<<machine, vars, sdkVars, bareVars>> PROVE LinesInv'
    OBVIOUS
  <2>1. ASSUME UNCHANGED sdkVars PROVE SdkInv' /\ ArgsInv'
    <3>1. console' = console /\ repl_line' = repl_line /\ entered' = entered /\ arguments' = arguments
      BY <2>1 DEF sdkVars
    <3> QED
      BY <3>1 DEF LinesInv, SdkInv, ArgsInv, Sdk!ArgumentsAreWords
  <2>2. ASSUME UNCHANGED bareVars PROVE BareInv'
    <3>1. screen' = screen /\ bare_line' = bare_line /\ running' = running
      BY <2>2 DEF bareVars
    <3> QED
      BY <3>1 DEF LinesInv, BareInv, BareScreens, Tidy, Screen, Clear, Ends, Cursor, Grid, Flat
  <2>3. ASSUME Sdk!ReplNext PROVE SdkInv' /\ ArgsInv'
    BY <2>3, SdkKeeps, ArgsKeep DEF LinesInv
  <2>4. ASSUME Bare!BareNext PROVE BareInv'
    BY <2>4, BareKeeps DEF LinesInv
  <2> QED
    BY <2>1, <2>2, <2>3, <2>4 DEF ConsolesNext, LinesInv
<1> QED
  BY <1>1, <1>2, PTL DEF ConsolesSpec

\* Whatever is typed, erased and scrolled, both consoles show the prompt and the
\* line, and what the SDK build makes of a line are its first words, in their
\* order.  Of console_putchar, repl_console_putchar and repl_split_args.
THEOREM LineIsShown == ConsolesSpec => []LineShown
<1>1. LinesInv => LineShown
  BY SdkShows, BareShows DEF LinesInv, ArgsInv, LineShown
<1> QED BY <1>1, LinesInvariance, PTL


-----------------------------------------------------------------------------
(* The keys of a script.  A call of the keyboard driver is a register       *)
(* written and two bytes read, which the port answers from the script.      *)

IsPort(p) == DOMAIN p = {"script", "at", "tar", "selected_reg", "key_report_index",
                         "key_report_key", "rx", "abrt", "stop_det"}

KeyboardSize == I2C_FIFO_SIZE \in Nat \ {0}

LEMMA Selects ==
  ASSUME NEW p, IsPort(p)
  PROVE  LET q == Bare!i2c_write_byte(p, KBD_ADDR, KBD_REG_KEY)
         IN /\ IsPort(q) /\ q.script = p.script /\ q.at = p.at /\ q.rx = p.rx
            /\ q.tar = KBD_ADDR /\ q.selected_reg = KBD_REG_KEY /\ q.key_report_index = 0
<1> DEFINE p1 == [p EXCEPT !.tar = KBD_ADDR]
           p2 == Bare!SelectRegister(p1, KBD_REG_KEY)
           p3 == [p2 EXCEPT !.stop_det = @ \/ "stop" \in {"stop"}]
           q == Bare!i2c_wait_stop(p3)
<1>1. IsPort(p1) /\ p1.script = p.script /\ p1.at = p.at /\ p1.rx = p.rx /\ p1.tar = KBD_ADDR
  BY DEF IsPort
<1> HIDE DEF p1
<1>2. /\ IsPort(p2) /\ p2.script = p.script /\ p2.at = p.at /\ p2.rx = p.rx /\ p2.tar = KBD_ADDR
      /\ p2.selected_reg = KBD_REG_KEY /\ p2.key_report_index = 0
  BY <1>1 DEF IsPort, Bare!SelectRegister
<1> HIDE DEF p2
<1>3. /\ IsPort(p3) /\ p3.script = p.script /\ p3.at = p.at /\ p3.rx = p.rx /\ p3.tar = KBD_ADDR
      /\ p3.selected_reg = KBD_REG_KEY /\ p3.key_report_index = 0
  BY <1>2 DEF IsPort
<1>4. Bare!i2c_data_cmd(p1, KBD_REG_KEY, {"stop"}) = p3
  BY <1>1 DEF Bare!i2c_data_cmd, p2
<1> HIDE DEF p3
<1>5. /\ IsPort(q) /\ q.script = p.script /\ q.at = p.at /\ q.rx = p.rx
      /\ q.tar = KBD_ADDR /\ q.selected_reg = KBD_REG_KEY /\ q.key_report_index = 0
  BY <1>3 DEF IsPort, Bare!i2c_wait_stop
<1>6. Bare!i2c_write_byte(p, KBD_ADDR, KBD_REG_KEY) = q
  BY <1>4 DEF Bare!i2c_write_byte, p1
<1> QED
  BY <1>5, <1>6

\* A register read for the first byte of a report, and for the second.
LEMMA ReadsFirst ==
  ASSUME KeyboardSize, NEW p, IsPort(p), p.rx = <<>>, p.tar = KBD_ADDR,
         p.selected_reg = KBD_REG_KEY, p.key_report_index = 0,
         NEW key, NEW after, Bare!next_script_key(p.script, p.at) = [key |-> key, next |-> after]
  PROVE  LET q == Bare!key_report(p)
         IN /\ IsPort(q) /\ q.script = p.script /\ q.at = after /\ q.tar = KBD_ADDR
            /\ q.selected_reg = KBD_REG_KEY /\ q.key_report_index = 1 /\ q.key_report_key = key
            /\ q.rx = <<IF key >= 0 THEN 1 ELSE 0>>
<1> DEFINE p1 == [p EXCEPT !.at = after, !.key_report_key = key, !.key_report_index = 1]
           byte == IF key >= 0 THEN 1 ELSE 0
           q == [p1 EXCEPT !.rx = Append(@, byte)]
<1>1. /\ IsPort(p1) /\ p1.script = p.script /\ p1.at = after /\ p1.tar = KBD_ADDR /\ p1.rx = <<>>
      /\ p1.selected_reg = KBD_REG_KEY /\ p1.key_report_index = 1 /\ p1.key_report_key = key
  BY DEF IsPort
<1>2. Bare!key_report(p) = Bare!i2c_rx_push(p1, byte)
  BY DEF Bare!key_report
<1> HIDE DEF p1, byte
<1>3. Bare!i2c_rx_push(p1, byte) = q
  <2>1. Len(p1.rx) < I2C_FIFO_SIZE
    BY <1>1, EmptySeq DEF KeyboardSize
  <2> QED
    BY <2>1 DEF Bare!i2c_rx_push
<1>4. /\ IsPort(q) /\ q.script = p.script /\ q.at = after /\ q.tar = KBD_ADDR /\ q.rx = Append(<<>>, byte)
      /\ q.selected_reg = KBD_REG_KEY /\ q.key_report_index = 1 /\ q.key_report_key = key
  BY <1>1 DEF IsPort
<1>5. Append(<<>>, byte) = <<byte>>
  OBVIOUS
<1> HIDE DEF q
<1> QED
  BY <1>2, <1>3, <1>4, <1>5 DEF byte

LEMMA ReadsSecond ==
  ASSUME KeyboardSize, NEW p, IsPort(p), p.rx = <<>>, p.tar = KBD_ADDR,
         p.selected_reg = KBD_REG_KEY, p.key_report_index = 1
  PROVE  LET q == Bare!key_report(p)
         IN /\ IsPort(q) /\ q.script = p.script /\ q.at = p.at
            /\ q.rx = <<IF p.key_report_key >= 0 THEN p.key_report_key ELSE 0>>
<1> DEFINE p1 == [p EXCEPT !.key_report_index = 0]
           byte == IF p.key_report_key >= 0 THEN p.key_report_key ELSE 0
           q == [p1 EXCEPT !.rx = Append(@, byte)]
<1>1. IsPort(p1) /\ p1.script = p.script /\ p1.at = p.at /\ p1.rx = <<>>
  BY DEF IsPort
<1>2. Bare!key_report(p) = Bare!i2c_rx_push(p1, byte)
  BY DEF Bare!key_report
<1> HIDE DEF p1, byte
<1>3. Bare!i2c_rx_push(p1, byte) = q
  <2>1. Len(p1.rx) < I2C_FIFO_SIZE
    BY <1>1, EmptySeq DEF KeyboardSize
  <2> QED
    BY <2>1 DEF Bare!i2c_rx_push
<1>4. IsPort(q) /\ q.script = p.script /\ q.at = p.at /\ q.rx = Append(<<>>, byte)
  BY <1>1 DEF IsPort
<1>5. Append(<<>>, byte) = <<byte>>
  OBVIOUS
<1> HIDE DEF q
<1> QED
  BY <1>2, <1>3, <1>4, <1>5 DEF byte

\* A call of the driver gets the next key of the script, or none.
LEMMA GetsKey ==
  ASSUME KeyboardSize, NEW p, IsPort(p), p.rx = <<>>, NEW key \in Int, NEW after,
         Bare!next_script_key(p.script, p.at) = [key |-> key, next |-> after]
  PROVE  LET read == Bare!picocalc_kbd_read_key(p)
         IN /\ read.key = IF key >= 0 THEN key ELSE Bare!NoKey
            /\ IsPort(read.port) /\ read.port.script = p.script /\ read.port.rx = <<>>
            /\ read.port.at = after
<1> DEFINE p0 == Bare!i2c_write_byte(p, KBD_ADDR, KBD_REG_KEY)
           p1 == [p0 EXCEPT !.tar = KBD_ADDR]
           p2 == Bare!key_report(p1)
           one == [p2 EXCEPT !.stop_det = @ \/ "stop" \in {"read"}]
           p3 == [one EXCEPT !.rx = Tail(@)]
           p4 == Bare!key_report(p3)
           two == [p4 EXCEPT !.stop_det = @ \/ "stop" \in {"read", "stop"}]
           q == Bare!i2c_wait_stop([two EXCEPT !.rx = Tail(@)])
<1>1. /\ IsPort(p0) /\ p0.script = p.script /\ p0.at = p.at /\ p0.rx = <<>>
      /\ p0.tar = KBD_ADDR /\ p0.selected_reg = KBD_REG_KEY /\ p0.key_report_index = 0
  BY Selects
<1> HIDE DEF p0
<1>2. /\ IsPort(p1) /\ p1.script = p.script /\ p1.at = p.at /\ p1.rx = <<>>
      /\ p1.tar = KBD_ADDR /\ p1.selected_reg = KBD_REG_KEY /\ p1.key_report_index = 0
  BY <1>1 DEF IsPort
<1> HIDE DEF p1
<1>3. /\ IsPort(p2) /\ p2.script = p.script /\ p2.at = after /\ p2.tar = KBD_ADDR
      /\ p2.selected_reg = KBD_REG_KEY /\ p2.key_report_index = 1 /\ p2.key_report_key = key
      /\ p2.rx = <<IF key >= 0 THEN 1 ELSE 0>>
  BY <1>2, ReadsFirst
<1> HIDE DEF p2
<1>4. /\ IsPort(one) /\ one.script = p.script /\ one.at = after /\ one.tar = KBD_ADDR
      /\ one.selected_reg = KBD_REG_KEY /\ one.key_report_index = 1 /\ one.key_report_key = key
      /\ one.rx = <<IF key >= 0 THEN 1 ELSE 0>>
  BY <1>3 DEF IsPort
<1>5. Bare!i2c_data_cmd([p0 EXCEPT !.tar = KBD_ADDR], 0, {"read"}) = one
  BY DEF Bare!i2c_data_cmd, p2, p1
<1> HIDE DEF one
<1>6. Tail(one.rx) = <<>> /\ one.rx[1] = IF key >= 0 THEN 1 ELSE 0
  BY <1>4
<1>7. /\ IsPort(p3) /\ p3.script = p.script /\ p3.at = after /\ p3.tar = KBD_ADDR
      /\ p3.selected_reg = KBD_REG_KEY /\ p3.key_report_index = 1 /\ p3.key_report_key = key
      /\ p3.rx = <<>>
  BY <1>4, <1>6 DEF IsPort
<1> HIDE DEF p3
<1>9. /\ IsPort(p4) /\ p4.script = p.script /\ p4.at = after
      /\ p4.rx = <<IF key >= 0 THEN key ELSE 0>>
  BY <1>7, ReadsSecond
<1>10. Bare!i2c_data_cmd(p3, 0, {"read", "stop"}) = two
  BY DEF Bare!i2c_data_cmd, p4
<1> HIDE DEF p4
<1>11. IsPort(two) /\ two.script = p.script /\ two.at = after /\ two.rx = <<IF key >= 0 THEN key ELSE 0>>
  BY <1>9 DEF IsPort
<1> HIDE DEF two
<1>12. Tail(two.rx) = <<>> /\ two.rx[1] = IF key >= 0 THEN key ELSE 0
  BY <1>11
<1>13. IsPort(q) /\ q.script = p.script /\ q.at = after /\ q.rx = <<>>
  BY <1>11, <1>12 DEF IsPort, Bare!i2c_wait_stop
<1>14. Bare!i2c_read(p0, KBD_ADDR) = [bytes |-> <<one.rx[1], two.rx[1]>>, port |-> q]
  BY <1>5, <1>10 DEF Bare!i2c_read, p3
<1> HIDE DEF q
<1>15. /\ Bare!picocalc_kbd_read_key(p).key = IF one.rx[1] = 1 THEN two.rx[1] ELSE Bare!NoKey
       /\ Bare!picocalc_kbd_read_key(p).port = q
  BY <1>14 DEF Bare!picocalc_kbd_read_key, p0
<1> QED
  BY <1>6, <1>12, <1>13, <1>15

\* The characters of a key, and the one behind them, are read as that key.
Chars == 1 .. 255
Spelled(script, at, text, next) ==
  /\ \A j \in 1 .. Len(text) : Bare!Char(script, at + j - 1) = text[j]
  /\ Bare!Char(script, at + Len(text)) = next
Text4(text, n) == /\ n = Len(text) /\ DOMAIN text = 1 .. n
                  /\ \A j \in 1 .. n : text[j] \in 1 .. 255
ReadAs(script, at, n, key, next) ==
  \E after \in Nat :
     /\ Bare!next_script_key(script, at) = [key |-> key, next |-> after]
     /\ after = at + n \/ (next = 0 /\ after = at + n + 1)
LEMMA ReadsSpelled ==
  ASSUME NEW script, NEW at \in Nat, NEW text, NEW n \in 1 .. 4, Text4(text, n), NEW key \in Nat,
         NEW next \in 0 .. 255, Bare!Writes(text, key, next), Spelled(script, at, text, next)
  PROVE  ReadAs(script, at, n, key, next)
<1> USE DEF ReadAs
<1>1. \A j \in 1 .. n : text[j] \in 1 .. 255
  BY DEF Text4
<1>2. \A j \in 1 .. n : Bare!Char(script, at + j - 1) = text[j]
  BY DEF Spelled, Text4
<1>3. Bare!Char(script, at + n) = next
  BY DEF Spelled, Text4
<1>4. Len(text) = n /\ DOMAIN text = 1 .. n
  BY DEF Text4
<1>5. CASE n = 1
  <2>1. key = text[1] /\ (key = 92 => next = 0)
    BY <1>4, <1>5 DEF Bare!Writes, Bare!Backslash
  <2>2. Bare!Char(script, at) = key /\ Bare!Char(script, at + 1) = next /\ key # 0
    <3>1. 1 \in 1 .. n /\ at + 1 - 1 = at
      BY <1>5
    <3>2. Bare!Char(script, at + 1 - 1) = text[1] /\ text[1] \in 1 .. 255
      BY <1>1, <1>2, <3>1
    <3> QED
      BY <1>3, <1>5, <2>1, <3>1, <3>2
  <2>3. CASE key = 92
    <3>1. Bare!next_script_key(script, at) = [key |-> key, next |-> at + 2]
      BY <2>1, <2>2, <2>3 DEF Bare!next_script_key, Bare!Backslash
    <3> QED
      BY <1>5, <2>1, <2>3, <3>1
  <2>4. CASE key # 92
    <3>1. Bare!next_script_key(script, at) = [key |-> key, next |-> at + 1]
      BY <2>1, <2>2, <2>4 DEF Bare!next_script_key, Bare!Backslash
    <3> WITNESS at + 1 \in Nat
    <3>9. at + 1 = at + n
      BY <1>5
    <3> QED
      BY <3>1, <3>9
  <2> QED
    BY <2>3, <2>4
<1>6. CASE n # 1
  <2>1. text[1] = 92 /\ Bare!Char(script, at) = 92
    BY <1>1, <1>2, <1>4, <1>6 DEF Bare!Writes, Bare!Backslash
  <2>2. Bare!Char(script, at + 1) = text[2] /\ text[2] \in 1 .. 255
    BY <1>1, <1>2, <1>4, <1>6
  <2>3. CASE n = 2 /\ text[2] # 120
    <3>1. key = Bare!Escape(text[2])
      BY <1>4, <2>1, <2>3 DEF Bare!Writes, Bare!Backslash
    <3> DEFINE ch == Bare!Char(script, at)
               escaped == Bare!Char(script, at + 1)
    <3>3. ch = 92 /\ ch # 0 /\ escaped # 0 /\ escaped # 120 /\ key = Bare!Escape(escaped)
      BY <2>1, <2>2, <2>3, <3>1
    <3>2. Bare!next_script_key(script, at) = [key |-> key, next |-> at + 2]
      <4> HIDE DEF ch, escaped
      <4> QED
        BY <3>3 DEF Bare!next_script_key, Bare!Backslash, ch, escaped
    <3> WITNESS at + 2 \in Nat
    <3>9. at + 2 = at + n
      BY <2>3
    <3> QED
      BY <3>2, <3>9
  <2>4. CASE text[2] = 120
    <3> DEFINE high == Bare!HexValue(Bare!Char(script, at + 2))
               low == Bare!HexValue(Bare!Char(script, at + 3))
    <3>1. Bare!next_script_key(script, at) =
            IF high < 0 THEN [key |-> 120, next |-> at + 2]
            ELSE IF low < 0 THEN [key |-> high, next |-> at + 3]
            ELSE [key |-> 16 * high + low, next |-> at + 4]
      BY <2>1, <2>2, <2>4 DEF Bare!next_script_key, Bare!Backslash
    <3> HIDE DEF high, low
    <3>2. CASE n = 2
      <4>1. key = 120 /\ high < 0
        BY <1>3, <1>4, <2>1, <2>4, <3>2 DEF Bare!Writes, high, Bare!Backslash
      <4>2. Bare!next_script_key(script, at) = [key |-> key, next |-> at + 2]
        BY <3>1, <4>1
      <4> WITNESS at + 2 \in Nat
      <4>9. at + 2 = at + n
        BY <3>2
      <4> QED
        BY <4>2, <4>9
    <3>3. CASE n = 3
      <4>1. key = Bare!HexValue(text[3]) /\ Bare!HexValue(next) < 0
        BY <1>4, <2>1, <2>4, <3>3 DEF Bare!Writes, Bare!Backslash
      <4>2. high = key /\ low < 0
        BY <1>2, <1>3, <3>3, <4>1 DEF high, low
      <4>3. Bare!next_script_key(script, at) = [key |-> key, next |-> at + 3]
        BY <3>1, <4>2
      <4> WITNESS at + 3 \in Nat
      <4>9. at + 3 = at + n
        BY <3>3
      <4> QED
        BY <4>3, <4>9
    <3>4. CASE n = 4
      <4> DEFINE a == Bare!HexValue(text[3])
                 b == Bare!HexValue(text[4])
      <4>0. text[3] \in Int /\ text[4] \in Int
        BY <1>1, <3>4
      <4>1. key = 16 * a + b /\ a >= 0 /\ b >= 0
        BY <1>4, <2>1, <2>4, <3>4 DEF Bare!Writes, Bare!Backslash
      <4>2. high = a /\ low = b
        BY <1>2, <3>4 DEF high, low
      <4>3. a \in Int /\ b \in Int
        BY <4>0 DEF Bare!HexValue
      <4> HIDE DEF a, b
      <4>4. Bare!next_script_key(script, at) = [key |-> key, next |-> at + 4]
        BY <3>1, <4>1, <4>2, <4>3
      <4> WITNESS at + 4 \in Nat
      <4>9. at + 4 = at + n
        BY <3>4
      <4> QED
        BY <4>4, <4>9
    <3> QED
      BY <1>4, <1>6, <3>2, <3>3, <3>4
  <2>5. n > 2 => text[2] = 120
    BY <1>1, <1>4, <2>1 DEF Bare!Writes, Bare!Backslash
  <2> QED
    BY <1>4, <1>6, <2>3, <2>4, <2>5
<1> QED
  BY <1>5, <1>6

\* F holds the texts joined so far, and what FlattenSeq makes of them at last.
Joins(F, texts, C) ==
  /\ F[0] = <<>> /\ F[Len(texts)] = Bare!FlattenSeq(texts)
  /\ \A i \in 0 .. Len(texts) : F[i] \in Seq(C)
  /\ \A i \in 1 .. Len(texts) : F[i] = F[i - 1] \o texts[i]

LEMMA TextsJoined ==
  ASSUME NEW C, NEW texts \in Seq(Seq(C))
  PROVE  \E F : Joins(F, texts, C)
<1> DEFINE A == Seq(C)
           n == Len(texts)
           g == [q \in A \X A |-> q[1] \o q[2]]
<1>1. texts \in Seq(A) /\ n \in Nat /\ DOMAIN texts = 1 .. n
  BY LenProperties
<1>2. <<>> \in A /\ \A a, b \in A : a \o b \in A /\ <<>> \o a = a
  BY EmptySeq, ConcatProperties, ConcatEmptySeq
<1>3. \A i \in 1 .. n : texts[i] \in A
  BY <1>1, ElementOfSeq
<1> HIDE DEF A, n
<1>4. g \in [A \X A -> A]
  BY <1>2
<1>5. PICK F0 \in [SUBSET DOMAIN texts -> A] : Folds(F0, <<>>, g, texts)
  <2> HIDE DEF g
  <2> QED
    BY <1>1, <1>2, <1>4, FoldExists
<1> DEFINE G == [i \in 0 .. n |-> F0[1 .. i]]
<1>6. G[0] = <<>> /\ \A i \in 0 .. n : G[i] \in A
  <2>1. 1 .. 0 = {} /\ 0 \in 0 .. n /\ {} \in SUBSET DOMAIN texts
    BY <1>1
  <2>2. \A i \in 0 .. n : 1 .. i \in SUBSET DOMAIN texts
    BY <1>1
  <2> QED
    BY <1>5, <2>1, <2>2 DEF Folds
<1>7. ASSUME NEW i \in 1 .. n PROVE G[i] = G[i - 1] \o texts[i]
  <2>1. i \in Nat \ {0} /\ i \in 0 .. n /\ i - 1 \in 0 .. n /\ 1 .. i \in SUBSET DOMAIN texts
    BY <1>1
  <2>2. Max(1 .. i) = i /\ (1 .. i) \ {Max(1 .. i)} = 1 .. i - 1 /\ 1 .. i # {}
    BY <2>1, LastOf
  <2>3. F0[1 .. i] = g[<<F0[1 .. i - 1], texts[i]>>]
    BY <1>5, <2>1, <2>2 DEF Folds
  <2>4. F0[1 .. i] = G[i] /\ F0[1 .. i - 1] = G[i - 1] /\ G[i - 1] \in A /\ texts[i] \in A
    BY <1>3, <1>6, <2>1
  <2> HIDE DEF G
  <2> QED
    BY <2>3, <2>4
<1> HIDE DEF G
<1>8. G[n] = Bare!FlattenSeq(texts)
  <2>1. CASE n = 0
    <3>1. texts = <<>>
      BY <1>1, <2>1, EmptySeq DEF n
    <3> QED
      BY <1>6, <2>1, <3>1 DEF Bare!FlattenSeq, n
  <2>2. CASE n # 0
    <3> DEFINE Eq(f) == f = [i \in 1 .. n |-> IF i = 1 THEN texts[i] ELSE f[i - 1] \o texts[i]]
               Z == CHOOSE f : Eq(f)
               H == [i \in 1 .. n |-> G[i]]
    <3>1. Bare!FlattenSeq(texts) = Z[n]
      BY <2>2 DEF Bare!FlattenSeq, n
    <3>2. ASSUME NEW i \in 1 .. n PROVE G[i] = IF i = 1 THEN texts[i] ELSE H[i - 1] \o texts[i]
      <4>1. CASE i = 1
        <5>1. i - 1 = 0 /\ texts[i] \in A
          BY <1>3, <4>1
        <5>2. G[i] = <<>> \o texts[i]
          BY <1>6, <1>7, <5>1
        <5> QED
          BY <1>2, <4>1, <5>1, <5>2
      <4>2. CASE i # 1
        <5>1. i - 1 \in 1 .. n
          BY <1>1, <4>2
        <5> QED
          BY <1>7, <4>2, <5>1
      <4> QED
        BY <4>1, <4>2
    <3>3. Eq(H)
      BY <3>2
    <3>4. Eq(Z)
      <4> HIDE DEF Eq
      <4> QED
        BY <3>3, Zenon
    <3> HIDE DEF Z, H
    <3> DEFINE T == {k \in 0 .. n : k = 0 \/ Z[k] = G[k]}
    <3>5. ASSUME NEW k \in 0 .. n - 1, k \in T PROVE k + 1 \in T
      <4>1. k + 1 \in 1 .. n /\ (k + 1) - 1 = k /\ k + 1 \in 0 .. n
        BY <1>1
      <4>2. Z[k + 1] = IF k + 1 = 1 THEN texts[k + 1] ELSE Z[k] \o texts[k + 1]
        BY <3>4, <4>1
      <4>3. G[k + 1] = G[k] \o texts[k + 1]
        BY <1>7, <4>1
      <4>4. CASE k = 0
        <5>1. Z[k + 1] = texts[k + 1] /\ G[k + 1] = <<>> \o texts[k + 1] /\ texts[k + 1] \in A
          <6>1. k + 1 = 1
            BY <4>4
          <6> QED
            BY <1>3, <1>6, <4>1, <4>2, <4>3, <4>4, <6>1
        <5> QED
          BY <1>2, <4>1, <5>1
      <4>5. CASE k # 0
        <5>1. Z[k + 1] = Z[k] \o texts[k + 1]
          <6>1. k + 1 # 1
            BY <1>1, <4>5
          <6> QED
            BY <4>2, <6>1
        <5> QED
          BY <3>5, <4>1, <4>3, <4>5, <5>1
      <4> QED
        BY <4>4, <4>5
    <3>6. 0 \in T
      BY <1>1
    <3> HIDE DEF T
    <3>7. n \in T
      <4>1. Steps(T, n)
        BY <3>5 DEF Steps
      <4> QED
        BY <1>1, <3>6, <4>1, UpTo
    <3> QED
      BY <2>2, <3>1, <3>7 DEF T
  <2> QED
    BY <2>1, <2>2
<1>9. Joins(G, texts, C)
  BY <1>6, <1>7, <1>8 DEF Joins, A, n
<1> QED
  BY <1>9

\* One part more.
LEMMA Appended ==
  ASSUME NEW C, NEW a \in Seq(C), NEW b \in Seq(C)
  PROVE  /\ Len(a) \in Nat /\ Len(b) \in Nat /\ Len(a \o b) = Len(a) + Len(b)
         /\ \A m \in 1 .. Len(a) : (a \o b)[m] = a[m]
         /\ \A m \in 1 .. Len(b) : (a \o b)[Len(a) + m] = b[m]
<1> DEFINE l == Len(a)
           r == Len(b)
           c == a \o b
<1>1. l \in Nat /\ r \in Nat
  BY LenProperties
<1>2. Len(c) = l + r /\ \A m \in 1 .. l + r : c[m] = IF m <= l THEN a[m] ELSE b[m - l]
  BY ConcatProperties
<1> HIDE DEF l, r, c
<1>3. ASSUME NEW m \in 1 .. l PROVE c[m] = a[m]
  <2>1. m \in 1 .. l + r /\ m <= l
    BY <1>1
  <2> QED
    BY <1>2, <2>1
<1>4. ASSUME NEW m \in 1 .. r PROVE c[l + m] = b[m]
  <2>1. l + m \in 1 .. l + r /\ ~(l + m <= l) /\ (l + m) - l = m
    BY <1>1
  <2> QED
    BY <1>2, <2>1
<1> QED
  BY <1>1, <1>2, <1>3, <1>4 DEF l, r, c

Grows(F, texts, k) ==
  /\ Len(F[k - 1]) \in Nat /\ Len(texts[k]) \in Nat
  /\ Len(F[k]) = Len(F[k - 1]) + Len(texts[k])
  /\ \A m \in 1 .. Len(F[k - 1]) : F[k][m] = F[k - 1][m]
  /\ \A m \in 1 .. Len(texts[k]) : F[k][Len(F[k - 1]) + m] = texts[k][m]
LEMMA JoinStep ==
  ASSUME NEW C, NEW texts \in Seq(Seq(C)), NEW F, Joins(F, texts, C), NEW k \in 1 .. Len(texts)
  PROVE  Grows(F, texts, k)
<1>1. k - 1 \in 0 .. Len(texts)
  BY LenProperties
<1>2. F[k - 1] \in Seq(C) /\ F[k] = F[k - 1] \o texts[k]
  BY <1>1 DEF Joins
<1>3. texts[k] \in Seq(C)
  <2> DEFINE A == Seq(C)
  <2>1. texts \in Seq(A)
    OBVIOUS
  <2> HIDE DEF A
  <2>2. texts[k] \in A
    BY <2>1, ElementOfSeq
  <2> QED
    BY <2>2 DEF A
<1> DEFINE a == F[k - 1]
           b == texts[k]
<1>4. a \in Seq(C) /\ b \in Seq(C) /\ F[k] = a \o b
  BY <1>2, <1>3
<1> HIDE DEF a, b
<1>5. /\ Len(a) \in Nat /\ Len(b) \in Nat /\ Len(F[k]) = Len(a) + Len(b)
      /\ \A m \in 1 .. Len(a) : F[k][m] = a[m]
      /\ \A m \in 1 .. Len(b) : F[k][Len(a) + m] = b[m]
  BY <1>4, Appended
<1> QED
  BY <1>5 DEF Grows, a, b

\* A part joined early is the beginning of one joined later.
Prefixed(F, i, j) == Len(F[i]) <= Len(F[j]) /\ \A m \in 1 .. Len(F[i]) : F[j][m] = F[i][m]
LEMMA Begins ==
  ASSUME NEW C, NEW texts \in Seq(Seq(C)), NEW F, Joins(F, texts, C),
         NEW i \in 0 .. Len(texts), NEW j \in i .. Len(texts)
  PROVE  Prefixed(F, i, j)
<1> DEFINE n == Len(texts)
           L(k) == Len(F[k])
           T == {d \in 0 .. n - i : L(i) <= L(i + d) /\ \A m \in 1 .. L(i) : F[i + d][m] = F[i][m]}
<1>1. n \in Nat /\ \A k \in 0 .. n : L(k) \in Nat
  BY LenProperties DEF Joins
<1>2. i \in 0 .. n /\ j \in i .. n
  OBVIOUS
<1>3. ASSUME NEW k \in 1 .. n
      PROVE  /\ L(k) = L(k - 1) + Len(texts[k]) /\ Len(texts[k]) \in Nat
             /\ \A m \in 1 .. L(k - 1) : F[k][m] = F[k - 1][m]
  <2>1. k \in 1 .. Len(texts)
    OBVIOUS
  <2>2. Grows(F, texts, k)
    BY <2>1, JoinStep
  <2> QED
    BY <2>1, <2>2 DEF Grows
<1> HIDE DEF n, L
<1>4. 0 \in T
  <2>1. i + 0 = i /\ 0 \in 0 .. n - i
    BY <1>1, <1>2
  <2> QED
    BY <1>1, <1>2, <2>1
<1>5. ASSUME NEW d \in 0 .. n - i - 1, d \in T PROVE d + 1 \in T
  <2>1. i + (d + 1) \in 1 .. n /\ i + (d + 1) - 1 = i + d /\ i + d \in 0 .. n /\ d + 1 \in 0 .. n - i
    BY <1>1, <1>2
  <2>2. /\ L(i + (d + 1)) = L(i + d) + Len(texts[i + (d + 1)]) /\ Len(texts[i + (d + 1)]) \in Nat
        /\ \A m \in 1 .. L(i + d) : F[i + (d + 1)][m] = F[i + d][m]
    BY <1>3, <2>1
  <2>3. L(i) <= L(i + d) /\ (\A m \in 1 .. L(i) : F[i + d][m] = F[i][m]) /\ L(i) \in Nat /\ L(i + d) \in Nat
    BY <1>1, <1>2, <1>5, <2>1
  <2>4. L(i) <= L(i + (d + 1)) /\ \A m \in 1 .. L(i) : m \in 1 .. L(i + d)
    BY <2>2, <2>3
  <2> QED
    BY <2>1, <2>2, <2>3, <2>4
<1> HIDE DEF T
<1>6. j - i \in 0 .. n - i /\ n - i \in Nat /\ i + (j - i) = j
  BY <1>1, <1>2
<1>7. \A d \in 0 .. n - i : d \in T
  <2>1. Steps(T, n - i)
    BY <1>5 DEF Steps
  <2> QED
    BY <1>4, <1>6, <2>1, UpTo
<1> QED
  BY <1>6, <1>7 DEF Prefixed, T, L

\* The texts of a script's keys.
Texts(script) == [i \in DOMAIN script |-> script[i].text]
LEMMA TextsOK ==
  ASSUME NEW script, Bare!IsScript(script)
  PROVE  /\ Len(script) \in Nat /\ DOMAIN script = 1 .. Len(script)
         /\ Texts(script) \in Seq(Seq(Chars)) /\ Len(Texts(script)) = Len(script)
         /\ \A k \in 1 .. Len(script) :
              LET text == script[k].text
              IN /\ Texts(script)[k] = text /\ text \in Seq(Chars) /\ text # <<>> /\ script[k].key \in Nat
                 /\ Bare!Writes(text, script[k].key, Bare!NextChar(script, k))
<1> DEFINE Keys == [text : Seq(Chars) \ {<<>>}, key : Nat]
           n == Len(script)
           t == [i \in 1 .. n |-> script[i].text]
           S == Seq(Chars)
<1>1. script \in Seq(Keys)
  BY DEF Bare!IsScript, Chars
<1> HIDE DEF Keys
<1>2. n \in Nat /\ DOMAIN script = 1 .. n /\ \A k \in 1 .. n : script[k] \in Keys
  BY <1>1, LenProperties, ElementOfSeq
<1>3. \A k \in 1 .. n : script[k].text \in S /\ script[k].text # <<>> /\ script[k].key \in Nat
  BY <1>2 DEF Keys
<1>4. \A k \in 1 .. n : Bare!Writes(script[k].text, script[k].key, Bare!NextChar(script, k))
  BY <1>2 DEF Bare!IsScript
<1> HIDE DEF n, S
<1>5. t \in [1 .. n -> S] /\ \A k \in 1 .. n : t[k] = script[k].text
  BY <1>3
<1>6. t \in Seq(S) /\ Len(t) = n
  BY <1>2, <1>5, IsASeq
<1>7. Texts(script) = t
  BY <1>2 DEF Texts
<1> QED
  BY <1>2, <1>3, <1>4, <1>5, <1>6, <1>7 DEF n, S

\* What stands in the script where key k begins.
LEMMA KeyStands ==
  ASSUME NEW script, Bare!IsScript(script), NEW F, Joins(F, Texts(script), Chars),
         NEW k \in 1 .. Len(script)
  PROVE  LET text == script[k].text
             next == Bare!NextChar(script, k)
         IN /\ Len(F[k - 1]) \in Nat /\ Len(F[k]) = Len(F[k - 1]) + Len(text)
            /\ Len(text) \in 1 .. 4 /\ Text4(text, Len(text))
            /\ next \in 0 .. 255 /\ (next = 0 => k = Len(script))
            /\ Spelled(F[Len(script)], Len(F[k - 1]) + 1, text, next)
<1> DEFINE n == Len(script)
           text(i) == script[i].text
           L(i) == Len(F[i])
           whole == F[n]
<1>1. n \in Nat /\ Texts(script) \in Seq(Seq(Chars)) /\ Len(Texts(script)) = n /\ k \in 1 .. n
  BY TextsOK
<1>2. ASSUME NEW i \in 1 .. n
      PROVE  /\ Texts(script)[i] = text(i) /\ text(i) \in Seq(Chars) /\ text(i) # <<>>
             /\ Bare!Writes(text(i), script[i].key, Bare!NextChar(script, i))
  BY TextsOK
<1>3. ASSUME NEW i \in 1 .. n
      PROVE  /\ L(i - 1) \in Nat /\ Len(text(i)) \in Nat /\ L(i) = L(i - 1) + Len(text(i))
             /\ \A m \in 1 .. Len(text(i)) : F[i][L(i - 1) + m] = text(i)[m]
  <2> DEFINE T == Texts(script)
  <2>1. T \in Seq(Seq(Chars)) /\ Joins(F, T, Chars) /\ i \in 1 .. Len(T) /\ T[i] = text(i)
    BY <1>1, <1>2
  <2> HIDE DEF T
  <2>2. Grows(F, T, i)
    BY <2>1, JoinStep
  <2> QED
    BY <2>1, <2>2 DEF Grows
<1>4. ASSUME NEW i \in 1 .. n
      PROVE  L(i) <= L(n) /\ \A m \in 1 .. L(i) : whole[m] = F[i][m]
  <2> DEFINE T == Texts(script)
  <2>1. T \in Seq(Seq(Chars)) /\ Joins(F, T, Chars) /\ i \in 0 .. Len(T) /\ n \in i .. Len(T)
    BY <1>1
  <2> HIDE DEF T
  <2>2. Prefixed(F, i, n)
    <3> HIDE DEF n
    <3> QED
      BY <2>1, Begins
  <2> QED
    BY <2>2 DEF Prefixed
<1>5. ASSUME NEW i \in 1 .. n
      PROVE  /\ DOMAIN text(i) = 1 .. Len(text(i)) /\ Len(text(i)) # 0
             /\ \A m \in 1 .. Len(text(i)) : text(i)[m] \in 1 .. 255
  <2>1. text(i) \in Seq(Chars) /\ text(i) # <<>>
    BY <1>2
  <2>2. DOMAIN text(i) = 1 .. Len(text(i)) /\ \A m \in 1 .. Len(text(i)) : text(i)[m] \in Chars
    BY <2>1, LenProperties, ElementOfSeq
  <2>3. Len(text(i)) # 0
    BY <2>1, EmptySeq
  <2> QED
    BY <2>2, <2>3 DEF Chars
<1>6. DOMAIN whole = 1 .. L(n)
  <2>1. whole \in Seq(Chars)
    BY <1>1 DEF Joins
  <2> QED
    BY <2>1, LenProperties
<1>7. Len(text(k)) \in 1 .. 4
  <2>1. Len(text(k)) \in {1, 2, 3, 4}
    <3> DEFINE key == script[k].key
               next == Bare!NextChar(script, k)
               t == text(k)
    <3>1. Bare!Writes(t, key, next)
      BY <1>1, <1>2
    <3> HIDE DEF t, key, next
    <3>2. Len(t) \in {1, 2, 3, 4}
      BY <3>1 DEF Bare!Writes
    <3> QED
      BY <3>2 DEF t
  <2> QED
    BY <2>1
<1>8. Text4(text(k), Len(text(k)))
  BY <1>1, <1>5 DEF Text4
<1> DEFINE at == L(k - 1) + 1
           l == Len(text(k))
           next == Bare!NextChar(script, k)
<1>9. L(k - 1) \in Nat /\ l \in Nat /\ L(k) = L(k - 1) + l /\ L(k) <= L(n)
  BY <1>1, <1>3, <1>4
<1>10. ASSUME NEW i \in 1 .. n, NEW m \in 1 .. Len(text(i))
       PROVE  Bare!Char(whole, L(i - 1) + m) = text(i)[m]
  <2>1. L(i - 1) \in Nat /\ Len(text(i)) \in Nat /\ L(i) = L(i - 1) + Len(text(i)) /\ L(i) <= L(n)
    BY <1>3, <1>4
  <2>2. F[i][L(i - 1) + m] = text(i)[m]
    BY <1>3
  <2> HIDE DEF text, L, whole
  <2>4. L(n) \in Nat
    BY <1>1, <1>4, <1>9, LenProperties DEF L, Joins
  <2>3. L(i - 1) + m \in 1 .. L(i) /\ L(i - 1) + m \in 1 .. L(n)
    BY <2>1, <2>4
  <2> QED
    BY <1>4, <1>6, <2>2, <2>3 DEF Bare!Char
<1> HIDE DEF n, text, L, whole
<1>11. \A j \in 1 .. l : Bare!Char(whole, at + j - 1) = text(k)[j]
  <2> SUFFICES ASSUME NEW j \in 1 .. l PROVE Bare!Char(whole, at + j - 1) = text(k)[j]
    OBVIOUS
  <2>1. at + j - 1 = L(k - 1) + j
    BY <1>9
  <2>2. Bare!Char(whole, L(k - 1) + j) = text(k)[j]
    BY <1>1, <1>10
  <2> QED
    BY <2>1, <2>2
<1>12. next \in 0 .. 255 /\ (next = 0 => k = n) /\ Bare!Char(whole, at + l) = next
  <2>1. CASE k = n
    <3>1. next = 0
      BY <1>1, <2>1 DEF Bare!NextChar, n
    <3>2. at + l = L(n) + 1 /\ L(n) \in Nat
      BY <1>9, <2>1
    <3>3. at + l \notin 1 .. L(n)
      BY <3>2
    <3> QED
      BY <1>6, <2>1, <3>1, <3>3 DEF Bare!Char
  <2>2. CASE k # n
    <3>1. k < n /\ k + 1 \in 1 .. n /\ (k + 1) - 1 = k
      BY <1>1, <2>2
    <3>2. next = text(k + 1)[1]
      BY <3>1 DEF Bare!NextChar, text, n
    <3>3. 1 \in 1 .. Len(text(k + 1))
      BY <1>3, <1>5, <3>1
    <3>4. Bare!Char(whole, L(k) + 1) = text(k + 1)[1] /\ text(k + 1)[1] \in 1 .. 255
      BY <1>5, <1>10, <3>1, <3>3
    <3>5. at + l = L(k) + 1
      BY <1>9
    <3>6. next \in 1 .. 255 /\ Bare!Char(whole, at + l) = next
      BY <3>2, <3>4, <3>5
    <3> HIDE DEF next, at, l
    <3> QED
      BY <2>2, <3>6
  <2> QED
    BY <2>1, <2>2
<1>13. Spelled(whole, at, text(k), next)
  BY <1>11, <1>12 DEF Spelled, l
<1> QED
  BY <1>7, <1>8, <1>9, <1>12, <1>13 DEF n, text, L, whole

\* The port has come to the text of key m + 1, or behind the last.
PortAt(p, F, m, n) ==
  /\ IsPort(p) /\ p.rx = <<>> /\ p.script = F[n] /\ p.at \in Nat /\ m \in 0 .. n
  /\ p.at = Len(F[m]) + 1 \/ (m = n /\ p.at > Len(F[n]))

LEMMA ReadsNext ==
  ASSUME KeyboardSize, NEW script, Bare!IsScript(script), NEW F, Joins(F, Texts(script), Chars),
         NEW m \in Nat, m < Len(script), NEW p, PortAt(p, F, m, Len(script))
  PROVE  LET read == Bare!picocalc_kbd_read_key(p)
         IN /\ read.key = script[m + 1].key /\ read.key \in Nat
            /\ PortAt(read.port, F, m + 1, Len(script))
<1> DEFINE n == Len(script)
           k == m + 1
           text == script[k].text
           l == Len(text)
           key == script[k].key
           next == Bare!NextChar(script, k)
           read == Bare!picocalc_kbd_read_key(p)
<1>1. n \in Nat /\ k \in 1 .. n /\ k - 1 = m /\ k \in Nat
  BY TextsOK
<1>2. key \in Nat /\ Bare!Writes(text, key, next)
  <2> DEFINE K == k
  <2>1. K \in 1 .. Len(script) /\ K = m + 1
    BY <1>1
  <2> HIDE DEF K
  <2>2. script[K].key \in Nat /\ Bare!Writes(script[K].text, script[K].key, Bare!NextChar(script, K))
    BY <2>1, TextsOK
  <2> QED
    BY <2>1, <2>2
<1>3. /\ Len(F[m]) \in Nat /\ Len(F[k]) = Len(F[m]) + l /\ l \in 1 .. 4 /\ Text4(text, l)
      /\ next \in 0 .. 255 /\ (next = 0 => k = n) /\ Spelled(F[n], Len(F[m]) + 1, text, next)
  <2> DEFINE K == k
  <2>1. K \in 1 .. Len(script) /\ K = m + 1 /\ K - 1 = m
    BY <1>1
  <2> HIDE DEF K
  <2>2. /\ Len(F[K - 1]) \in Nat /\ Len(F[K]) = Len(F[K - 1]) + Len(script[K].text)
        /\ Len(script[K].text) \in 1 .. 4 /\ Text4(script[K].text, Len(script[K].text))
        /\ Bare!NextChar(script, K) \in 0 .. 255 /\ (Bare!NextChar(script, K) = 0 => K = Len(script))
        /\ Spelled(F[Len(script)], Len(F[K - 1]) + 1, script[K].text, Bare!NextChar(script, K))
    BY <2>1, KeyStands
  <2> QED
    BY <2>1, <2>2
<1>4. IsPort(p) /\ p.rx = <<>> /\ p.script = F[n] /\ p.at = Len(F[m]) + 1 /\ p.at \in Nat
  BY <1>1 DEF PortAt
<1> HIDE DEF n, k, text, l, key, next
<1>5. Spelled(p.script, p.at, text, next)
  BY <1>3, <1>4
<1>6. PICK after \in Nat :
        /\ Bare!next_script_key(p.script, p.at) = [key |-> key, next |-> after]
        /\ after = p.at + l \/ (next = 0 /\ after = p.at + l + 1)
  <2> DEFINE s == p.script
             a == p.at
  <2>1. /\ a \in Nat /\ l \in 1 .. 4 /\ Text4(text, l) /\ key \in Nat /\ next \in 0 .. 255
        /\ Bare!Writes(text, key, next) /\ Spelled(s, a, text, next)
    BY <1>2, <1>3, <1>4, <1>5
  <2> HIDE DEF s, a
  <2>2. ReadAs(s, a, l, key, next)
    BY <2>1, ReadsSpelled
  <2> QED
    BY <2>2 DEF ReadAs, s, a
<1>7. /\ read.key = key /\ IsPort(read.port) /\ read.port.script = p.script /\ read.port.rx = <<>>
      /\ read.port.at = after
  <2>1. key \in Int /\ key >= 0
    BY <1>2
  <2>2. read.key = IF key >= 0 THEN key ELSE Bare!NoKey
    BY <1>4, <1>6, <2>1, GetsKey
  <2>3. /\ IsPort(read.port) /\ read.port.script = p.script /\ read.port.rx = <<>>
        /\ read.port.at = after
    BY <1>4, <1>6, <2>1, GetsKey
  <2> QED
    BY <2>1, <2>2, <2>3
<1> HIDE DEF read
<1>8. read.port.at = Len(F[k]) + 1 \/ (k = n /\ read.port.at > Len(F[n]))
  BY <1>1, <1>3, <1>4, <1>6, <1>7
<1>9. PortAt(read.port, F, k, n)
  BY <1>1, <1>4, <1>6, <1>7, <1>8 DEF PortAt
<1> QED
  BY <1>2, <1>7, <1>9 DEF read, n, k, key

LEMMA ReadsNone ==
  ASSUME KeyboardSize, NEW script, Bare!IsScript(script), NEW F, Joins(F, Texts(script), Chars),
         NEW p, PortAt(p, F, Len(script), Len(script))
  PROVE  Bare!picocalc_kbd_read_key(p).key = Bare!NoKey
<1> DEFINE n == Len(script)
           read == Bare!picocalc_kbd_read_key(p)
<1>1. n \in Nat /\ Len(Texts(script)) = n
  BY TextsOK
<1>2. DOMAIN F[n] = 1 .. Len(F[n])
  <2>1. F[n] \in Seq(Chars)
    BY <1>1 DEF Joins
  <2> QED
    BY <2>1, LenProperties
<1>3. IsPort(p) /\ p.rx = <<>> /\ p.script = F[n] /\ p.at \in Nat /\ p.at > Len(F[n])
  <2>1. Len(F[n]) \in Nat
    BY <1>1, LenProperties DEF Joins
  <2> QED
    BY <2>1 DEF PortAt
<1> HIDE DEF n
<1>4. Bare!Char(p.script, p.at) = 0
  <2>1. p.at \notin 1 .. Len(F[n])
    BY <1>3
  <2> QED
    BY <1>2, <1>3, <2>1 DEF Bare!Char
<1>5. Bare!next_script_key(p.script, p.at) = [key |-> Bare!NoKey, next |-> p.at]
  BY <1>4 DEF Bare!next_script_key, Bare!Backslash
<1>6. read.key = IF Bare!NoKey >= 0 THEN Bare!NoKey ELSE Bare!NoKey
  <2>1. Bare!NoKey \in Int
    BY DEF Bare!NoKey
  <2> QED
    BY <1>3, <1>5, <2>1, GetsKey
<1> QED
  BY <1>6

\* Every key read so far is a key of the script, and the port has come to the next.
KeysAt(F) ==
  /\ Joins(F, Texts(typed), Chars)
  /\ keys \in Seq(Nat) /\ \A i \in 1 .. Len(keys) : keys[i] = typed[i].key
  /\ PortAt(port, F, Len(keys), Len(typed))
KeysInv == Bare!IsScript(typed) /\ \E F : KeysAt(F)

LEMMA KeysFromInv ==
  ASSUME KeyboardSize, KeysInv
  PROVE  KeysOfScript
<1> PICK F : KeysAt(F)
  BY DEF KeysInv
<1> DEFINE m == Len(keys)
           n == Len(typed)
           read == Bare!picocalc_kbd_read_key(port)
<1>1. Bare!IsScript(typed) /\ Joins(F, Texts(typed), Chars) /\ PortAt(port, F, m, n)
  BY DEF KeysInv, KeysAt
<1>2. n \in Nat /\ m \in 0 .. n
  BY <1>1, TextsOK DEF PortAt
<1>3. keys = [i \in DOMAIN keys |-> typed[i].key]
  <2>1. keys \in [1 .. m -> Nat] /\ DOMAIN keys = 1 .. m /\ \A i \in 1 .. m : keys[i] = typed[i].key
    BY LenProperties DEF KeysAt
  <2> QED
    BY <2>1
<1>4. read.key = IF m < n THEN typed[m + 1].key ELSE Bare!NoKey
  <2>1. CASE m < n
    <3>1. read.key = typed[m + 1].key
      BY <1>1, <1>2, <2>1, ReadsNext
    <3> QED
      BY <2>1, <3>1
  <2>2. CASE ~(m < n)
    <3>1. m = n
      BY <1>2, <2>2
    <3>2. read.key = Bare!NoKey
      BY <1>1, <3>1, ReadsNone
    <3> QED
      BY <2>2, <3>2
  <2> QED
    BY <2>1, <2>2
<1> QED
  BY <1>3, <1>4 DEF KeysOfScript, Bare!KeysOfScript

LEMMA SizeOfKeyboard == KeyboardSize
BY ConsolesAssumption DEF KeyboardSize, Bare!KeyboardAssumption

LEMMA KeysStart == ConsolesInit => KeysInv
<1> SUFFICES ASSUME ConsolesInit PROVE KeysInv
  OBVIOUS
<1> DEFINE texts == [i \in DOMAIN typed |-> typed[i].text]
<1>1. typed \in Scripts /\ port = Bare!NewPort(Bare!FlattenSeq(texts)) /\ keys = <<>>
  BY DEF ConsolesInit, Bare!BareInit
<1>2. Bare!IsScript(typed)
  BY <1>1, ConsolesAssumption DEF Bare!BareAssumption
<1>3. texts = Texts(typed)
  BY DEF Texts
<1>4. /\ Texts(typed) \in Seq(Seq(Chars)) /\ Len(Texts(typed)) = Len(typed)
      /\ Len(typed) \in Nat
  BY <1>2, TextsOK
<1>5. PICK F : Joins(F, Texts(typed), Chars)
  BY <1>4, TextsJoined
<1> HIDE DEF texts
<1>6. F[0] = <<>> /\ F[Len(typed)] = Bare!FlattenSeq(Texts(typed))
  BY <1>4, <1>5 DEF Joins
<1>7. PortAt(port, F, 0, Len(typed))
  <2>1. IsPort(port) /\ port.rx = <<>> /\ port.script = F[Len(typed)] /\ port.at = 1
    BY <1>1, <1>3, <1>6 DEF Bare!NewPort, IsPort
  <2>2. port.at = Len(F[0]) + 1 /\ 0 \in 0 .. Len(typed)
    BY <1>4, <1>6, <2>1, EmptySeq
  <2> QED
    BY <2>1, <2>2 DEF PortAt
<1>8. KeysAt(F)
  <2>1. Len(keys) = 0 /\ keys \in Seq(Nat)
    BY <1>1, EmptySeq
  <2> QED
    BY <1>5, <1>7, <2>1 DEF KeysAt
<1> QED
  BY <1>2, <1>8 DEF KeysInv

LEMMA KeysKept == KeysInv /\ Bare!BareNext => KeysInv'
<1> SUFFICES ASSUME KeysInv, Bare!BareNext PROVE KeysInv'
  OBVIOUS
<1> PICK F : KeysAt(F)
  BY DEF KeysInv
<1> DEFINE m == Len(keys)
           n == Len(typed)
           read == Bare!picocalc_kbd_read_key(port)
<1>1. read.key # Bare!NoKey /\ port' = read.port /\ keys' = Append(keys, read.key) /\ typed' = typed
  BY DEF Bare!BareNext, Bare!ReadKey
<1>2. /\ Bare!IsScript(typed) /\ Joins(F, Texts(typed), Chars) /\ PortAt(port, F, m, n)
      /\ keys \in Seq(Nat) /\ \A i \in 1 .. m : keys[i] = typed[i].key
  BY DEF KeysInv, KeysAt
<1>3. n \in Nat /\ m \in 0 .. n /\ m \in Nat
  BY <1>2, TextsOK DEF PortAt
<1>4. m < n
  <2>1. m = n => read.key = Bare!NoKey
    BY <1>2, ReadsNone, SizeOfKeyboard
  <2> QED
    BY <1>1, <1>3, <2>1
<1>5. read.key = typed[m + 1].key /\ read.key \in Nat /\ PortAt(read.port, F, m + 1, n)
  BY <1>2, <1>3, <1>4, ReadsNext, SizeOfKeyboard
<1> HIDE DEF read, n
<1>6. /\ keys' \in Seq(Nat) /\ Len(keys') = m + 1 /\ keys'[m + 1] = read.key
      /\ \A i \in 1 .. m : keys'[i] = keys[i]
  BY <1>1, <1>2, <1>5, AppendProperties
<1>7. \A i \in 1 .. m + 1 : keys'[i] = typed[i].key
  <2> HIDE DEF m
  <2> SUFFICES ASSUME NEW i \in 1 .. m + 1 PROVE keys'[i] = typed[i].key
    OBVIOUS
  <2>1. i = m + 1 \/ i \in 1 .. m
    BY <1>3
  <2> QED
    BY <1>2, <1>5, <1>6, <2>1
<1>8. KeysAt(F)'
  <2> DEFINE k == m + 1
  <2>1. Len(keys') = k /\ PortAt(port', F, k, Len(typed)) /\ \A i \in 1 .. k : keys'[i] = typed[i].key
    BY <1>1, <1>5, <1>6, <1>7 DEF n
  <2> HIDE DEF k
  <2>2. PortAt(port', F, Len(keys'), Len(typed'))
    BY <1>1, <2>1
  <2>3. \A i \in 1 .. Len(keys') : keys'[i] = typed'[i].key
    BY <1>1, <2>1
  <2> QED
    BY <1>1, <1>2, <1>6, <2>2, <2>3 DEF KeysAt, PortAt, IsPort, Texts
<1> QED
  BY <1>1, <1>2, <1>8 DEF KeysInv, Bare!IsScript, Bare!NextChar

\* The program reads the keys of the script, each once and in order, in whatever
\* way a key is written.  Of picocalc_kbd_read_key and next_script_key.
THEOREM KeysAreRead == ConsolesSpec => []KeysOfScript
<1>1. ConsolesInit => KeysInv
  BY KeysStart
<1>2. KeysInv /\ [ConsolesNext]_<<machine, vars, sdkVars, bareVars>> => KeysInv'
  <2> SUFFICES ASSUME KeysInv, [ConsolesNext]_<<machine, vars, sdkVars, bareVars>> PROVE KeysInv'
    OBVIOUS
  <2>1. CASE UNCHANGED bareVars
    <3>1. typed' = typed /\ port' = port /\ keys' = keys
      BY <2>1 DEF bareVars
    <3> QED
      BY <3>1 DEF KeysInv, KeysAt, PortAt, IsPort, Texts, Bare!IsScript, Bare!NextChar
  <2>2. CASE Bare!BareNext
    BY <2>2, KeysKept
  <2> QED
    BY <2>1, <2>2 DEF ConsolesNext
<1>3. KeysInv => KeysOfScript
  BY KeysFromInv, SizeOfKeyboard
<1> QED
  BY <1>1, <1>2, <1>3, PTL DEF ConsolesSpec

-----------------------------------------------------------------------------
(***************************************************************************)
(* The parameters of a control sequence.  The parser reads a number from   *)
(* its first digit, wrapping round at each; ParamsRight weighs every digit *)
(* by its place.                                                           *)
(***************************************************************************)
Powers(f, n) == f \in [0 .. n -> Nat] /\ f[0] = 1 /\ \A k \in 1 .. n : f[k] = 10 * f[k - 1]

LEMMA PowersExist ==
  ASSUME NEW n \in Nat
  PROVE  \E f : Powers(f, n)
<1> DEFINE T == {k \in Nat : \E f : Powers(f, k)}
<1>1. 0 \in T
  <2> DEFINE f == [k \in 0 .. 0 |-> 1]
  <2>1. Powers(f, 0)
    BY DEF Powers
  <2> HIDE DEF f
  <2> QED
    BY <2>1
<1>2. ASSUME NEW k \in 0 .. n - 1, k \in T PROVE k + 1 \in T
  <2>1. PICK f : Powers(f, k)
    BY <1>2
  <2> DEFINE g == [i \in 0 .. k + 1 |-> IF i = k + 1 THEN 10 * f[k] ELSE f[i]]
  <2>2. g \in [0 .. k + 1 -> Nat] /\ g[0] = 1
    BY <2>1 DEF Powers
  <2>3. \A i \in 1 .. k + 1 : g[i] = 10 * g[i - 1]
    BY <2>1 DEF Powers
  <2>4. Powers(g, k + 1)
    BY <2>2, <2>3 DEF Powers
  <2> HIDE DEF g
  <2> QED
    BY <2>4
<1>3. \A k \in 0 .. n : k \in T
  <2> HIDE DEF T
  <2> QED
    BY <1>1, <1>2, UpTo DEF Steps
<1> QED
  BY <1>3

LEMMA PowersAgree ==
  ASSUME NEW n \in Nat, NEW m \in Nat, n <= m, NEW f, NEW g, Powers(f, n), Powers(g, m)
  PROVE  \A k \in 0 .. n : f[k] = g[k]
<1> DEFINE T == {k \in Nat : f[k] = g[k]}
<1>1. 0 \in T
  BY DEF Powers
<1>2. ASSUME NEW k \in 0 .. n - 1, k \in T PROVE k + 1 \in T
  <2>1. k + 1 \in 1 .. n /\ k + 1 \in 1 .. m /\ (k + 1) - 1 = k
    OBVIOUS
  <2>2. f[k + 1] = 10 * f[k] /\ g[k + 1] = 10 * g[k]
    BY <2>1 DEF Powers
  <2> QED
    BY <1>2, <2>2
<1>3. \A k \in 0 .. n : k \in T
  <2> HIDE DEF T
  <2> QED
    BY <1>1, <1>2, UpTo DEF Steps
<1> QED
  BY <1>3

LEMMA PowersOfTen ==
  /\ PowerOfTen \in [Nat -> Nat] /\ PowerOfTen[0] = 1
  /\ \A k \in Nat : PowerOfTen[k + 1] = 10 * PowerOfTen[k]
<1> DEFINE Eq(F) == F = [k \in Nat |-> IF k = 0 THEN 1 ELSE 10 * F[k - 1]]
           P(n) == CHOOSE f : Powers(f, n)
           G == [k \in Nat |-> P(k)[k]]
<1>1. \A n \in Nat : Powers(P(n), n)
  BY PowersExist
<1> HIDE DEF P
<1>2. G[0] = 1 /\ \A k \in Nat : G[k] = P(k)[k] /\ G[k] \in Nat
  BY <1>1 DEF Powers
<1>3. ASSUME NEW k \in Nat \ {0} PROVE G[k] = 10 * G[k - 1]
  <2>1. k - 1 \in Nat /\ k - 1 <= k /\ k \in 1 .. k /\ k - 1 \in 0 .. k - 1
    OBVIOUS
  <2>2. Powers(P(k), k) /\ Powers(P(k - 1), k - 1)
    BY <1>1, <2>1
  <2>3. P(k - 1)[k - 1] = P(k)[k - 1]
    BY <2>1, <2>2, PowersAgree
  <2>4. P(k)[k] = 10 * P(k)[k - 1]
    BY <2>1, <2>2 DEF Powers
  <2> QED
    BY <2>1, <2>3, <2>4
<1>4. Eq(G)
  <2>1. G = [k \in Nat |-> G[k]]
    OBVIOUS
  <2> QED
    BY <1>2, <1>3, <2>1
<1>5. Eq(PowerOfTen)
  <2>1. PowerOfTen = CHOOSE F : Eq(F)
    BY DEF PowerOfTen
  <2> HIDE DEF Eq, G
  <2> QED
    BY <1>4, <2>1
<1> HIDE DEF G
<1> DEFINE T == {k \in Nat : PowerOfTen[k] = G[k]}
<1>6. \A n \in Nat : n \in T
  <2> SUFFICES ASSUME NEW n \in Nat PROVE n \in T
    OBVIOUS
  <2>1. 0 \in T
    BY <1>2, <1>5
  <2>2. ASSUME NEW k \in 0 .. n - 1, k \in T PROVE k + 1 \in T
    <3>1. k + 1 \in Nat \ {0} /\ (k + 1) - 1 = k /\ k \in Nat
      OBVIOUS
    <3>2. G[k + 1] = 10 * G[k] /\ PowerOfTen[k + 1] = 10 * PowerOfTen[k]
      BY <1>3, <1>5, <3>1
    <3> QED
      BY <2>2, <3>1, <3>2
  <2> HIDE DEF T
  <2>3. Steps(T, n)
    BY <2>2 DEF Steps
  <2> QED
    BY <2>1, <2>3, UpTo
<1>7. \A k \in Nat : PowerOfTen[k] \in Nat
  BY <1>2, <1>6
<1>8. PowerOfTen = [k \in Nat |-> PowerOfTen[k]]
  BY <1>5
<1>9. ASSUME NEW k \in Nat PROVE PowerOfTen[k + 1] = 10 * PowerOfTen[k]
  <2>1. k + 1 \in Nat /\ k + 1 # 0 /\ (k + 1) - 1 = k
    OBVIOUS
  <2> QED
    BY <1>5, <2>1
<1> QED
  BY <1>5, <1>7, <1>8, <1>9

\* The sum over the digits at D, taken from the last one.
Sums(Z, b, F, D) ==
  \A S \in SUBSET D : Z[S] = IF S = {} THEN 0 ELSE Weight(b, F, Max(S)) + Z[S \ {Max(S)}]

LEMMA ByteIsNumber == \A x \in Byte : x \in Int
  BY DEF Byte

LEMMA WeightIs ==
  ASSUME NEW b \in Seq(Byte), NEW F \in SUBSET (1 .. Len(b)), NEW i \in 1 .. Len(b)
  PROVE  /\ Cardinality({j \in F : j > i}) \in Nat
         /\ Weight(b, F, i) \in Int
<1>1. Len(b) \in Nat /\ b[i] \in Int
  <2>1. Len(b) \in Nat /\ b[i] \in Byte
    BY LenProperties, ElementOfSeq
  <2> QED
    BY <2>1, ByteIsNumber
<1>2. IsFiniteSet(1 .. Len(b))
  BY <1>1, FS_Interval
<1>3. IsFiniteSet({j \in F : j > i})
  <2>1. {j \in F : j > i} \in SUBSET (1 .. Len(b))
    OBVIOUS
  <2> QED
    BY <1>2, <2>1, FS_Subset
<1>4. Cardinality({j \in F : j > i}) \in Nat
  BY <1>3, FS_CardinalityType
<1>5. PowerOfTen[Cardinality({j \in F : j > i})] \in Nat
  BY <1>4, PowersOfTen
<1> QED
  BY <1>1, <1>4, <1>5 DEF Weight

LEMMA NumberIs ==
  ASSUME NEW b \in Seq(Byte), NEW F \in SUBSET (1 .. Len(b))
  PROVE  \E Z : Sums(Z, b, F, F) /\ Z[F] = Number(b, F)
<1> DEFINE text == [i \in 1 .. Len(b) |-> Weight(b, F, i)]
           g == [p \in Int \X Int |-> p[2] + p[1]]
           Eq(Y) == Y = [S \in SUBSET F |->
                           IF S = {} THEN 0 ELSE Weight(b, F, Max(S)) + Y[S \ {Max(S)}]]
           Z == CHOOSE Y : Eq(Y)
<1>1. Number(b, F) = Z[F]
  BY DEF Number, MapThenFoldSet
<1>2. Len(b) \in Nat /\ DOMAIN text = 1 .. Len(b) /\ text \in Seq(Int)
  <2>1. Len(b) \in Nat
    BY LenProperties
  <2>2. text \in [1 .. Len(b) -> Int]
    BY WeightIs
  <2> QED
    BY <2>1, <2>2
<1>3. g \in [Int \X Int -> Int]
  OBVIOUS
<1>4. PICK Y \in [SUBSET DOMAIN text -> Int] : Folds(Y, 0, g, text)
  <2>1. 0 \in Int
    OBVIOUS
  <2> HIDE DEF g, text
  <2> QED
    BY <1>2, <1>3, <2>1, FoldExists
<1> DEFINE X == [S \in SUBSET F |-> Y[S]]
<1>5. \A S \in SUBSET F : S \in SUBSET DOMAIN text
  BY <1>2
<1>6. X \in [SUBSET F -> Int]
  BY <1>5
<1>7. ASSUME NEW S \in SUBSET F
      PROVE  X[S] = IF S = {} THEN 0 ELSE Weight(b, F, Max(S)) + X[S \ {Max(S)}]
  <2>1. CASE S = {}
    BY <1>4, <1>5, <2>1 DEF Folds
  <2>2. CASE S # {}
    <3>1. Max(S) \in S
      BY <1>2, <2>2, LastIn
    <3>2. S \ {Max(S)} \in SUBSET F /\ Max(S) \in 1 .. Len(b)
      BY <3>1
    <3>3. Y[S] = g[<<Y[S \ {Max(S)}], text[Max(S)]>>]
      BY <1>4, <1>5, <2>2 DEF Folds
    <3>4. Y[S \ {Max(S)}] \in Int /\ text[Max(S)] = Weight(b, F, Max(S)) /\ Weight(b, F, Max(S)) \in Int
      BY <1>5, <3>2, WeightIs
    <3>5. Y[S] = Weight(b, F, Max(S)) + Y[S \ {Max(S)}]
      BY <3>3, <3>4
    <3> QED
      BY <2>2, <3>2, <3>5
  <2> QED
    BY <2>1, <2>2
<1> HIDE DEF X
<1>8. Eq(X)
  <2>1. X = [S \in SUBSET F |-> X[S]]
    BY <1>6
  <2> QED
    BY <1>7, <2>1
<1>9. Eq(Z)
  <2> HIDE DEF Eq
  <2> QED
    BY <1>8
<1>10. Sums(Z, b, F, F)
  <2> HIDE DEF Z
  <2> QED
    BY <1>9 DEF Sums
<1> HIDE DEF Z
<1> QED
  BY <1>1, <1>10

UpToPlace(F, k) == F \cap (1 .. k)
PlaceSums(Z, b, F, n) ==
  /\ Z[UpToPlace(F, 0)] = 0
  /\ \A k \in 1 .. n : Z[UpToPlace(F, k)] =
       IF k \in F THEN Weight(b, F, k) + Z[UpToPlace(F, k - 1)] ELSE Z[UpToPlace(F, k - 1)]

LEMMA SumGrows ==
  ASSUME NEW n \in Nat, NEW F \in SUBSET (1 .. n), NEW b, NEW Z, Sums(Z, b, F, F)
  PROVE  PlaceSums(Z, b, F, n)
<1>1. Z[UpToPlace(F, 0)] = 0
  <2>1. UpToPlace(F, 0) = {} /\ {} \in SUBSET F
    BY DEF UpToPlace
  <2> QED
    BY <2>1 DEF Sums
<1>2. ASSUME NEW k \in 1 .. n, k \in F
      PROVE  Z[UpToPlace(F, k)] = Weight(b, F, k) + Z[UpToPlace(F, k - 1)]
  <2> DEFINE S == UpToPlace(F, k)
  <2>1. \A x : x \in S /\ (\A y \in S : x >= y) <=> x = k
    BY <1>2 DEF UpToPlace
  <2>2. Max(S) = k
    BY <2>1, Zenon DEF Max
  <2>3. S \in SUBSET F /\ S # {} /\ S \ {k} = UpToPlace(F, k - 1)
    BY <1>2 DEF UpToPlace
  <2> HIDE DEF S
  <2>4. Z[S] = Weight(b, F, Max(S)) + Z[S \ {Max(S)}]
    BY <2>3 DEF Sums
  <2> QED
    BY <2>2, <2>3, <2>4 DEF S
<1>3. ASSUME NEW k \in 1 .. n, k \notin F
      PROVE  UpToPlace(F, k) = UpToPlace(F, k - 1)
  BY <1>3 DEF UpToPlace
<1> QED
  BY <1>1, <1>2, <1>3 DEF PlaceSums

\* One more digit at the end: the others count ten times as much.
LEMMA DigitAdded ==
  ASSUME NEW b \in Seq(Byte), NEW m \in 1 .. Len(b), NEW F \in SUBSET (1 .. m - 1)
  PROVE  /\ Number(b, F) \in Int
         /\ Number(b, F \cup {m}) = 10 * Number(b, F) + (b[m] - 48)
<1> DEFINE G == F \cup {m}
<1>0. /\ Len(b) \in Nat /\ m - 1 \in Nat /\ m \in Nat /\ F \in SUBSET (1 .. Len(b))
      /\ G \in SUBSET (1 .. m) /\ G \in SUBSET (1 .. Len(b)) /\ b[m] \in Int
  <2>1. Len(b) \in Nat
    BY LenProperties
  <2>2. b[m] \in Byte
    BY ElementOfSeq
  <2> QED
    BY <2>1, <2>2, ByteIsNumber
<1>1. PICK X : Sums(X, b, F, F) /\ X[F] = Number(b, F)
  BY <1>0, NumberIs
<1>2. PICK Y : Sums(Y, b, G, G) /\ Y[G] = Number(b, G)
  BY <1>0, NumberIs
<1>3. ASSUME NEW k \in F
      PROVE  Weight(b, F, k) \in Int /\ Weight(b, G, k) = 10 * Weight(b, F, k)
  <2> DEFINE after == {j \in F : j > k}
  <2>1. {j \in G : j > k} = after \cup {m} /\ m \notin after /\ k \in 1 .. Len(b)
    BY <1>0
  <2>2. IsFiniteSet(after)
    <3>1. after \in SUBSET (1 .. Len(b))
      BY <1>0
    <3>2. IsFiniteSet(1 .. Len(b))
      BY <1>0, FS_Interval
    <3> QED
      BY <3>1, <3>2, FS_Subset
  <2>3. Cardinality(after) \in Nat
    BY <2>2, FS_CardinalityType
  <2>4. Cardinality(after \cup {m}) = Cardinality(after) + 1
    BY <2>1, <2>2, FS_AddElement
  <2> DEFINE c == Cardinality(after)
             t == PowerOfTen[c]
             d == b[k] - 48
  <2>5. t \in Nat /\ PowerOfTen[c + 1] = 10 * t
    BY <2>3, PowersOfTen
  <2>6. d \in Int
    <3>1. b[k] \in Byte
      BY <2>1, ElementOfSeq
    <3> QED
      BY <3>1, ByteIsNumber
  <2>7. Weight(b, F, k) = d * t /\ Weight(b, G, k) = d * PowerOfTen[c + 1]
    <3>1. {j \in F : j > k} = after
      OBVIOUS
    <3> HIDE DEF after
    <3> QED
      BY <2>1, <2>4, <3>1 DEF Weight
  <2> HIDE DEF after, c, t, d
  <2>8. d * (10 * t) = 10 * (d * t) /\ d * t \in Int
    BY <2>5, <2>6
  <2> QED
    BY <2>5, <2>7, <2>8
<1>4. Weight(b, G, m) = b[m] - 48
  <2>1. {j \in G : j > m} = {}
    <3>1. \A j \in 1 .. m : ~(j > m)
      BY <1>0
    <3>2. G \in SUBSET (1 .. m)
      BY <1>0
    <3> HIDE DEF G
    <3> QED
      BY <3>1, <3>2
  <2>2. Cardinality({}) = 0
    BY FS_EmptySet
  <2> HIDE DEF G
  <2>3. Weight(b, G, m) = (b[m] - 48) * 1
    BY <2>1, <2>2, PowersOfTen DEF Weight
  <2> QED
    BY <1>0, <2>3
<1> HIDE DEF G
<1>11. PlaceSums(X, b, F, m - 1) /\ PlaceSums(Y, b, G, m)
  BY <1>0, <1>1, <1>2, SumGrows
<1> DEFINE T == {k \in Nat : X[UpToPlace(F, k)] \in Int /\ Y[UpToPlace(G, k)] = 10 * X[UpToPlace(F, k)]}
<1>5. 0 \in T
  <2>1. X[UpToPlace(F, 0)] = 0 /\ Y[UpToPlace(G, 0)] = 0
    BY <1>11 DEF PlaceSums
  <2> QED
    BY <2>1
<1>6. ASSUME NEW k \in 0 .. m - 2, k \in T PROVE k + 1 \in T
  <2> DEFINE i == k + 1
  <2>1. i \in 1 .. m - 1 /\ i \in 1 .. m /\ i - 1 = k /\ i \in Nat
    <3>1. m \in Nat /\ m - 1 \in Nat
      BY <1>0
    <3> HIDE DEF T
    <3> QED
      BY <3>1
  <2> HIDE DEF i
  <2>7. i \in G <=> i \in F
    BY <1>0, <2>1 DEF G
  <2>2. X[UpToPlace(F, i)] = IF i \in F THEN Weight(b, F, i) + X[UpToPlace(F, i - 1)] ELSE X[UpToPlace(F, i - 1)]
    BY <1>11, <2>1 DEF PlaceSums
  <2>3. Y[UpToPlace(G, i)] = IF i \in G THEN Weight(b, G, i) + Y[UpToPlace(G, i - 1)] ELSE Y[UpToPlace(G, i - 1)]
    BY <1>11, <2>1 DEF PlaceSums
  <2>4. X[UpToPlace(F, k)] \in Int /\ Y[UpToPlace(G, k)] = 10 * X[UpToPlace(F, k)]
    BY <1>6
  <2> DEFINE x == X[UpToPlace(F, k)]
             w == Weight(b, F, i)
  <2>5. CASE i \in F
    <3>1. w \in Int /\ Weight(b, G, i) = 10 * w
      BY <1>3, <2>5
    <3>2. X[UpToPlace(F, i)] = w + x /\ Y[UpToPlace(G, i)] = 10 * w + 10 * x /\ x \in Int
      BY <2>1, <2>2, <2>3, <2>4, <2>5, <2>7, <3>1
    <3> HIDE DEF x, w
    <3>3. w + x \in Int /\ 10 * w + 10 * x = 10 * (w + x)
      BY <3>1, <3>2
    <3>4. i \in T
      BY <2>1, <3>2, <3>3
    <3> QED
      BY <3>4 DEF i
  <2>6. CASE i \notin F
    <3>1. i \in T
      BY <2>1, <2>2, <2>3, <2>4, <2>6, <2>7
    <3> QED
      BY <3>1 DEF i
  <2> QED
    BY <2>5, <2>6
<1>7. m - 1 \in T
  <2> HIDE DEF T
  <2>1. Steps(T, m - 1)
    BY <1>6 DEF Steps
  <2> QED
    BY <1>0, <1>5, <2>1, UpTo
<1>8. UpToPlace(F, m - 1) = F /\ UpToPlace(G, m - 1) = F /\ UpToPlace(G, m) = G /\ m \in G
  <2>1. UpToPlace(F, m - 1) = F
    BY DEF UpToPlace
  <2>2. UpToPlace(G, m - 1) = F
    <3>1. m \in Nat /\ m \notin 1 .. m - 1
      BY <1>0
    <3> QED
      BY <3>1 DEF G, UpToPlace
  <2>3. UpToPlace(G, m) = G
    BY <1>0 DEF UpToPlace
  <2> QED
    BY <2>1, <2>2, <2>3 DEF G
<1>9. Y[UpToPlace(G, m)] = Weight(b, G, m) + Y[UpToPlace(G, m - 1)]
  <2>1. m \in 1 .. m
    BY <1>0
  <2> QED
    BY <1>8, <1>11, <2>1 DEF PlaceSums
<1>10. X[F] \in Int /\ Y[UpToPlace(G, m - 1)] = 10 * X[F]
  BY <1>7, <1>8
<1>12. Number(b, G) = (b[m] - 48) + 10 * Number(b, F) /\ Number(b, F) \in Int
  BY <1>1, <1>2, <1>4, <1>8, <1>9, <1>10
<1> QED
  BY <1>0, <1>12 DEF G

LEMMA NoDigits ==
  ASSUME NEW b \in Seq(Byte)
  PROVE  Number(b, {}) = 0
<1>1. PICK X : Sums(X, b, {}, {}) /\ X[{}] = Number(b, {})
  BY NumberIs
<1> QED
  BY <1>1 DEF Sums

\* Wrapping round at every digit or once at the end is the same.
LEMMA WholeTurns ==
  ASSUME NEW w \in Nat \ {0}, NEW y \in Int, NEW q \in Int
  PROVE  (y - w * q) % w = y % w
<1> DEFINE a == y % w
           d == y \div w
           z == y - w * q
           c == z % w
           e == z \div w
           p == d - q - e
<1>1. a \in 0 .. w - 1 /\ d \in Int /\ y = w * d + a
  OBVIOUS
<1>2. z \in Int
  OBVIOUS
<1> HIDE DEF z
<1>3. c \in 0 .. w - 1 /\ e \in Int /\ z = w * e + c
  BY <1>2
<1> HIDE DEF a, d, c, e
<1>4. w * e + c = w * d + a - w * q
  BY <1>1, <1>3 DEF z
<1>5. p \in Int /\ w * p = c - a
  <2>1. w * p = w * d - w * q - w * e /\ w * d \in Int /\ w * q \in Int /\ w * e \in Int
    BY <1>1, <1>3
  <2> QED
    BY <1>1, <1>3, <1>4, <2>1
<1> HIDE DEF p
<1>6. p >= 1 => w * p >= w
  <2> SUFFICES ASSUME p >= 1 PROVE w * p >= w
    OBVIOUS
  <2>1. p - 1 \in Nat /\ w * (p - 1) = w * p - w /\ w * p \in Int
    BY <1>5
  <2>2. w * (p - 1) >= 0
    BY <2>1
  <2> QED
    BY <2>1, <2>2
<1>7. p <= -1 => w * p <= -w
  <2> SUFFICES ASSUME p <= -1 PROVE w * p <= -w
    OBVIOUS
  <2>1. -1 - p \in Nat /\ w * (-1 - p) = -w - w * p /\ w * p \in Int
    BY <1>5
  <2>2. w * (-1 - p) >= 0
    BY <2>1
  <2> QED
    BY <2>1, <2>2
<1>8. p = 0
  BY <1>1, <1>3, <1>5, <1>6, <1>7
<1>9. c = a
  BY <1>1, <1>3, <1>5, <1>8
<1> QED
  BY <1>9 DEF c, a, z

LEMMA WrapsOnce ==
  ASSUME NEW x \in Int, NEW d \in Int
  PROVE  /\ Int32(x) \in Int /\ Int32(0) = 0
         /\ Int32(Int32(x) * 10 + d) = Int32(10 * x + d)
<1> DEFINE H == IntHalf
           w == 2 * IntHalf
           q == (x + H) \div w
<1>1. H \in Nat \ {0} /\ w \in Nat \ {0} /\ H < w
  BY TermAssumption
<1>2. (x + H) % w \in 0 .. w - 1 /\ q \in Int /\ x + H = w * q + ((x + H) % w)
  BY <1>1
<1>3. Int32(x) = x - w * q
  <2>1. Int32(x) = ((x + H) % w) - H
    BY DEF Int32
  <2>2. w * q \in Int
    BY <1>1, <1>2
  <2> HIDE DEF w, q, H
  <2> QED
    BY <1>1, <1>2, <2>1, <2>2
<1>4. Int32(0) = 0
  <2>1. (0 + H) % w = H
    BY <1>1
  <2> QED
    BY <1>1, <2>1 DEF Int32
<1> HIDE DEF q
<1> DEFINE y == 10 * x + d + H
<1>5. y \in Int /\ 10 * q \in Int
  BY <1>1, <1>2
<1>6. Int32(x) * 10 + d + H = y - w * (10 * q) /\ Int32(x) \in Int
  <2>1. w * q \in Int /\ w * (10 * q) = 10 * (w * q)
    BY <1>1, <1>2
  <2> HIDE DEF w
  <2> QED
    BY <1>1, <1>3, <2>1
<1>7. (y - w * (10 * q)) % w = y % w
  <2> HIDE DEF y, w
  <2> QED
    BY <1>1, <1>5, WholeTurns
<1>8. Int32(Int32(x) * 10 + d) = ((Int32(x) * 10 + d + H) % w) - H /\ Int32(10 * x + d) = (y % w) - H
  BY DEF Int32
<1> HIDE DEF y, w, H
<1> QED
  BY <1>4, <1>6, <1>7, <1>8

\* How many separators come before j.
Earlier(b, j) == {i \in Separators(b) : i < j}
Passed(b, j) == Cardinality(Earlier(b, j))

LEMMA PassedCounts ==
  ASSUME NEW b \in Seq(Byte)
  PROVE  /\ \A j \in 1 .. Len(b) + 1 : Passed(b, j) \in Nat
         /\ Passed(b, 1) = 0
         /\ \A j \in 1 .. Len(b) : Passed(b, j + 1) = IF j \in Separators(b) THEN Passed(b, j) + 1 ELSE Passed(b, j)
         /\ \A i, j \in 1 .. Len(b) + 1 : i <= j => Passed(b, i) <= Passed(b, j)
         /\ Passed(b, Len(b) + 1) = Cardinality(Separators(b))
<1>0. Len(b) \in Nat /\ IsFiniteSet(1 .. Len(b)) /\ Separators(b) \in SUBSET (1 .. Len(b))
  <2>1. Len(b) \in Nat
    BY LenProperties
  <2>2. IsFiniteSet(1 .. Len(b))
    BY <2>1, FS_Interval
  <2> QED
    BY <2>1, <2>2 DEF Separators
<1>1. \A j : IsFiniteSet(Earlier(b, j)) /\ Passed(b, j) \in Nat
  <2> SUFFICES ASSUME NEW j PROVE IsFiniteSet(Earlier(b, j)) /\ Passed(b, j) \in Nat
    OBVIOUS
  <2>1. Earlier(b, j) \in SUBSET (1 .. Len(b))
    BY <1>0 DEF Earlier
  <2>2. IsFiniteSet(Earlier(b, j))
    BY <1>0, <2>1, FS_Subset
  <2> QED
    BY <2>2, FS_CardinalityType DEF Passed
<1>2. Passed(b, 1) = 0
  <2>1. Earlier(b, 1) = {}
    BY <1>0 DEF Earlier
  <2> QED
    BY <2>1, FS_EmptySet DEF Passed
<1>3. ASSUME NEW j \in 1 .. Len(b)
      PROVE  Passed(b, j + 1) = IF j \in Separators(b) THEN Passed(b, j) + 1 ELSE Passed(b, j)
  <2>0. \A i \in 1 .. Len(b) : i < j + 1 <=> i < j \/ i = j
    BY <1>0
  <2>1. CASE j \in Separators(b)
    <3>1. Earlier(b, j + 1) = Earlier(b, j) \cup {j}
      BY <1>0, <2>0, <2>1 DEF Earlier
    <3>2. j \notin Earlier(b, j)
      BY <1>0 DEF Earlier
    <3> QED
      BY <1>1, <2>1, <3>1, <3>2, FS_AddElement DEF Passed
  <2>2. CASE j \notin Separators(b)
    <3>1. Earlier(b, j + 1) = Earlier(b, j)
      BY <1>0, <2>0, <2>2 DEF Earlier
    <3> QED
      BY <2>2, <3>1 DEF Passed
  <2> QED
    BY <2>1, <2>2
<1>4. ASSUME NEW i \in 1 .. Len(b) + 1, NEW j \in 1 .. Len(b) + 1, i <= j PROVE Passed(b, i) <= Passed(b, j)
  <2>1. \A k \in 1 .. Len(b) : k < i => k < j
    BY <1>0, <1>4
  <2>2. Earlier(b, i) \in SUBSET Earlier(b, j)
    BY <1>0, <2>1 DEF Earlier
  <2> QED
    BY <1>1, <2>2, FS_Subset DEF Passed
<1>5. Passed(b, Len(b) + 1) = Cardinality(Separators(b))
  <2>1. \A k \in 1 .. Len(b) : k < Len(b) + 1
    BY <1>0
  <2>2. Earlier(b, Len(b) + 1) = Separators(b)
    BY <1>0, <2>1 DEF Earlier
  <2> QED
    BY <2>2 DEF Passed
<1> QED
  BY <1>1, <1>2, <1>3, <1>4, <1>5

\* What the parser knows before byte j of b: the parameters that are complete,
\* and of the one under way the digits read so far.
Read(b, j) == {i \in Field(b, Passed(b, j) + 1) : i < j}
Param(b, k) == IF Field(b, k) = {} THEN -1 ELSE Int32(Number(b, Field(b, k)))
ParamStates == [params : Seq(Int), value : Int, saw_digit : BOOLEAN]
Parses(b, acc, j) ==
  /\ acc \in ParamStates
  /\ \A k \in 1 .. Len(acc.params) : acc.params[k] = Param(b, k)
  /\ Passed(b, j) >= MaxParams => Len(acc.params) = MaxParams
  /\ Passed(b, j) < MaxParams =>
       /\ Len(acc.params) = Passed(b, j) /\ acc.value = Int32(Number(b, Read(b, j)))
       /\ acc.saw_digit = (Read(b, j) # {})

LEMMA Fields ==
  ASSUME NEW b \in Seq(Byte), NEW k
  PROVE  /\ Field(b, k) = {i \in 1 .. Len(b) : b[i] \in Digits /\ Passed(b, i) = k - 1}
         /\ Field(b, k) \in SUBSET (1 .. Len(b))
BY DEF Field, Passed, Earlier

LEMMA ReadGrows ==
  ASSUME NEW b \in Seq(Byte), NEW j \in 1 .. Len(b)
  PROVE  /\ Passed(b, j) \in Nat /\ Read(b, j) \in SUBSET (1 .. j - 1)
         /\ b[j] \in Digits => /\ Passed(b, j + 1) = Passed(b, j)
                               /\ Read(b, j + 1) = Read(b, j) \cup {j}
         /\ j \in Separators(b) => /\ Passed(b, j + 1) = Passed(b, j) + 1
                                   /\ Read(b, j + 1) = {}
                                   /\ Read(b, j) = Field(b, Passed(b, j) + 1)
         /\ b[j] \notin Digits /\ j \notin Separators(b) =>
              Passed(b, j + 1) = Passed(b, j) /\ Read(b, j + 1) = Read(b, j)
<1> DEFINE n == Len(b)
           p == Passed(b, j)
           r == Passed(b, j + 1)
<1>0. n \in Nat /\ j \in Nat /\ j + 1 \in 1 .. n + 1 /\ \A i \in 1 .. n : i \in 1 .. n + 1
  <2>1. n \in Nat /\ j \in 1 .. n
    BY LenProperties
  <2> HIDE DEF n
  <2> QED
    BY <2>1
<1>1. p \in Nat /\ r \in Nat /\ r = IF j \in Separators(b) THEN p + 1 ELSE p
  BY <1>0, PassedCounts
<1>2. \A i \in 1 .. n : /\ Passed(b, i) \in Nat /\ (i < j + 1 <=> i < j \/ i = j)
                        /\ (i <= j => Passed(b, i) <= p) /\ (~(i <= j) => Passed(b, i) >= r)
  <2> SUFFICES ASSUME NEW i \in 1 .. n
               PROVE  /\ Passed(b, i) \in Nat /\ (i < j + 1 <=> i < j \/ i = j)
                      /\ (i <= j => Passed(b, i) <= p) /\ (~(i <= j) => Passed(b, i) >= r)
    OBVIOUS
  <2>1. Passed(b, i) \in Nat /\ (i <= j => Passed(b, i) <= p)
    BY <1>0, PassedCounts
  <2>2. ~(i <= j) => j + 1 <= i
    BY <1>0
  <2>3. ~(i <= j) => r <= Passed(b, i)
    BY <1>0, <2>2, PassedCounts
  <2>4. i < j + 1 <=> i < j \/ i = j
    BY <1>0
  <2> QED
    BY <1>1, <2>1, <2>3, <2>4
<1>3. /\ Read(b, j) = {i \in 1 .. n : b[i] \in Digits /\ Passed(b, i) = p /\ i < j}
      /\ Read(b, j + 1) = {i \in 1 .. n : b[i] \in Digits /\ Passed(b, i) = r /\ i < j + 1}
      /\ Field(b, p + 1) = {i \in 1 .. n : b[i] \in Digits /\ Passed(b, i) = p}
  <2>1. (p + 1) - 1 = p /\ (r + 1) - 1 = r
    BY <1>1
  <2>2. /\ Field(b, p + 1) = {i \in 1 .. n : b[i] \in Digits /\ Passed(b, i) = (p + 1) - 1}
        /\ Field(b, r + 1) = {i \in 1 .. n : b[i] \in Digits /\ Passed(b, i) = (r + 1) - 1}
    BY Fields
  <2>3. /\ Read(b, j) = {i \in Field(b, p + 1) : i < j}
        /\ Read(b, j + 1) = {i \in Field(b, r + 1) : i < j + 1}
    BY DEF Read
  <2> HIDE DEF n, p, r
  <2> QED
    BY <2>1, <2>2, <2>3
<1>4. j \in 1 .. n /\ (j \in Separators(b) => b[j] \notin Digits)
  BY DEF Separators, Digits, Colon, Semicolon
<1> HIDE DEF n, p, r
<1>5. Read(b, j) \in SUBSET (1 .. j - 1)
  <2>1. \A i \in 1 .. n : i < j => i \in 1 .. j - 1
    BY <1>0
  <2> QED
    BY <1>3, <2>1
<1>6. CASE b[j] \in Digits
  <2>1. r = p /\ j \notin Separators(b)
    BY <1>1, <1>4, <1>6
  <2>2. Read(b, j + 1) = Read(b, j) \cup {j}
    BY <1>2, <1>3, <1>4, <1>6, <2>1 DEF p
  <2> QED
    BY <1>1, <1>5, <1>6, <2>1, <2>2 DEF p, r
<1>7. CASE j \in Separators(b)
  <2>1. r = p + 1 /\ b[j] \notin Digits
    BY <1>1, <1>4, <1>7
  <2>2. \A i \in 1 .. n : i < j + 1 => Passed(b, i) # r
    <3>1. \A i \in 1 .. n : i < j + 1 => i <= j
      BY <1>0
    <3>2. \A i \in 1 .. n : i < j + 1 => Passed(b, i) <= p /\ Passed(b, i) \in Nat
      BY <1>2, <3>1
    <3> QED
      BY <1>1, <2>1, <3>2
  <2>3. \A i \in 1 .. n : Passed(b, i) = p => i <= j
    BY <1>1, <1>2, <2>1
  <2>4. \A i \in 1 .. n : i <= j => i < j \/ i = j
    BY <1>0
  <2>5. Read(b, j + 1) = {}
    BY <1>3, <2>2
  <2>6. Read(b, j) = Field(b, p + 1)
    BY <1>3, <2>1, <2>3, <2>4
  <2> QED
    BY <1>1, <1>5, <2>1, <2>5, <2>6 DEF p, r
<1>8. CASE b[j] \notin Digits /\ j \notin Separators(b)
  <2>1. r = p
    BY <1>1, <1>8
  <2>2. Read(b, j + 1) = Read(b, j)
    BY <1>2, <1>3, <1>4, <1>8, <2>1
  <2> QED
    BY <1>1, <1>5, <1>8, <2>1, <2>2 DEF p, r
<1> QED
  BY <1>6, <1>7, <1>8

LEMMA ParamTyped ==
  ASSUME NEW acc \in ParamStates, NEW ch \in Byte
  PROVE  ParamByte(acc, ch) \in ParamStates
<1> DEFINE v == Int32(acc.value * 10 + ch - 48)
           x == IF acc.saw_digit THEN acc.value ELSE -1
<1>1. acc.params \in Seq(Int) /\ acc.value \in Int /\ acc.saw_digit \in BOOLEAN
      /\ acc = [params |-> acc.params, value |-> acc.value, saw_digit |-> acc.saw_digit]
  BY DEF ParamStates
<1>2. ch \in Int
  BY ByteIsNumber
<1>3. v \in Int
  <2>1. acc.value * 10 + ch - 48 \in Int
    BY <1>1, <1>2
  <2> QED
    BY <2>1, WrapsOnce
<1>4. x \in Int /\ Append(acc.params, x) \in Seq(Int)
  <2>1. x \in Int
    BY <1>1
  <2> HIDE DEF x
  <2> QED
    BY <1>1, <2>1, AppendProperties
<1> HIDE DEF v, x
<1>5. [acc EXCEPT !.value = v, !.saw_digit = TRUE] \in ParamStates
  BY <1>1, <1>3 DEF ParamStates
<1>6. [params |-> Append(acc.params, x), value |-> 0, saw_digit |-> FALSE] \in ParamStates
  BY <1>4 DEF ParamStates
<1> QED
  BY <1>5, <1>6 DEF ParamByte, v, x

LEMMA ParamRead ==
  ASSUME NEW b \in Seq(Byte), NEW j \in 1 .. Len(b), NEW acc, Parses(b, acc, j)
  PROVE  Parses(b, ParamByte(acc, b[j]), j + 1)
<1> DEFINE p == Passed(b, j)
           F == Read(b, j)
           ch == b[j]
           new == ParamByte(acc, ch)
<1>0. ch \in Byte /\ acc \in ParamStates /\ new \in ParamStates
  BY ElementOfSeq, ParamTyped DEF Parses
<1>1. acc.params \in Seq(Int) /\ Len(acc.params) \in Nat /\ acc.value \in Int /\ ch \in Int
      /\ acc = [params |-> acc.params, value |-> acc.value, saw_digit |-> acc.saw_digit]
  BY <1>0, ByteIsNumber, LenProperties DEF ParamStates
<1>2. MaxParams \in Nat \ {0}
  BY TermAssumption
<1>3. p \in Nat /\ F \in SUBSET (1 .. j - 1)
  BY ReadGrows
<1>4. j \in Separators(b) <=> ch \in {Colon, Semicolon}
  BY DEF Separators
<1>5. Passed(b, j + 1) \in {p, p + 1}
  BY ReadGrows, PassedCounts
<1>6. CASE p >= MaxParams
  <2>1. Len(acc.params) = MaxParams
    BY <1>6 DEF Parses
  <2>2. new = acc
    BY <1>2, <2>1 DEF ParamByte
  <2>3. Passed(b, j + 1) >= MaxParams
    BY <1>2, <1>3, <1>5, <1>6
  <2>4. ~(Passed(b, j + 1) < MaxParams)
    BY <1>2, <1>3, <1>5, <2>3
  <2> HIDE DEF new, p
  <2> QED
    BY <2>1, <2>2, <2>3, <2>4 DEF Parses, new
<1>7. CASE p < MaxParams
  <2>1. /\ Len(acc.params) = p /\ acc.value = Int32(Number(b, F)) /\ acc.saw_digit = (F # {})
        /\ \A k \in 1 .. p : acc.params[k] = Param(b, k)
    BY <1>7 DEF Parses
  <2>2. ~(Len(acc.params) >= MaxParams)
    BY <1>2, <1>3, <1>7, <2>1
  <2>3. CASE ch \in Digits
    <3> DEFINE v == Int32(acc.value * 10 + ch - 48)
    <3>1. new = [params |-> acc.params, value |-> v, saw_digit |-> TRUE]
      BY <1>1, <2>2, <2>3 DEF ParamByte
    <3>2. Passed(b, j + 1) = p /\ Read(b, j + 1) = F \cup {j}
      BY <2>3, ReadGrows
    <3>3. Number(b, F) \in Int /\ Number(b, F \cup {j}) = 10 * Number(b, F) + (ch - 48)
      BY <1>3, DigitAdded
    <3>4. v = Int32(Number(b, F \cup {j}))
      <4> DEFINE x == Number(b, F)
      <4>1. ch - 48 \in Int /\ x \in Int
        BY <1>1, <3>3
      <4> HIDE DEF x, ch
      <4>2. Int32(Int32(x) * 10 + (ch - 48)) = Int32(10 * x + (ch - 48)) /\ Int32(x) \in Int
        BY <4>1, WrapsOnce
      <4>3. acc.value = Int32(x) /\ Number(b, F \cup {j}) = 10 * x + (ch - 48)
        BY <2>1, <3>3 DEF x
      <4>4. Int32(x) * 10 + ch - 48 = Int32(x) * 10 + (ch - 48)
        BY <1>1, <4>2
      <4> QED
        BY <4>2, <4>3, <4>4
    <3> HIDE DEF v, new, p, F
    <3>5. ~(Passed(b, j + 1) >= MaxParams)
      BY <1>2, <1>3, <1>7, <3>2
    <3>6. new.params = acc.params /\ new.value = v /\ new.saw_digit = TRUE /\ F \cup {j} # {}
      BY <3>1
    <3> QED
      BY <1>0, <2>1, <3>2, <3>4, <3>5, <3>6 DEF Parses, new
  <2>4. CASE ch \in {Colon, Semicolon}
    <3> DEFINE x == IF acc.saw_digit THEN acc.value ELSE -1
               s == Append(acc.params, x)
    <3>0. ch \notin Digits
      BY <2>4 DEF Colon, Semicolon, Digits
    <3>1. new = [params |-> s, value |-> 0, saw_digit |-> FALSE]
      BY <2>2, <2>4, <3>0 DEF ParamByte
    <3>2. Passed(b, j + 1) = p + 1 /\ Read(b, j + 1) = {} /\ F = Field(b, p + 1)
      BY <1>4, <2>4, ReadGrows
    <3>3. x = Param(b, p + 1)
      BY <2>1, <3>2 DEF Param
    <3>4. x \in Int
      BY <1>1
    <3> HIDE DEF x, p, F, new
    <3>5. Len(s) = p + 1 /\ \A k \in 1 .. p + 1 : s[k] = Param(b, k)
      <4>1. Len(s) = p + 1 /\ s[p + 1] = x /\ \A k \in 1 .. p : s[k] = acc.params[k]
        BY <1>1, <2>1, <3>4, AppendProperties
      <4>2. \A k \in 1 .. p + 1 : k \in 1 .. p \/ k = p + 1
        BY <1>3
      <4> HIDE DEF s
      <4> QED
        BY <2>1, <3>3, <4>1, <4>2
    <3> HIDE DEF s
    <3>6. new.params = s /\ new.value = 0 /\ new.saw_digit = FALSE
      BY <3>1
    <3>7. 0 = Int32(Number(b, {}))
      BY NoDigits, WrapsOnce
    <3>8. p + 1 >= MaxParams => p + 1 = MaxParams
      BY <1>2, <1>3, <1>7
    <3> QED
      BY <1>0, <3>2, <3>5, <3>6, <3>7, <3>8 DEF Parses, new
  <2>5. CASE ch \notin Digits /\ ch \notin {Colon, Semicolon}
    <3>1. new = acc
      BY <2>2, <2>5 DEF ParamByte
    <3>2. Passed(b, j + 1) = p /\ Read(b, j + 1) = F
      BY <1>4, <2>5, ReadGrows
    <3> HIDE DEF new, p, F
    <3>3. ~(p >= MaxParams)
      BY <1>2, <1>3, <1>7
    <3> QED
      BY <1>0, <2>1, <3>1, <3>2, <3>3 DEF Parses, new
  <2> QED
    BY <2>3, <2>4, <2>5
<1> QED
  BY <1>2, <1>3, <1>6, <1>7


LEMMA BodyOfBytes ==
  ASSUME NEW buf, buf \in Seq(Byte)
  PROVE  Body(buf) \in Seq(Byte)
<1>1. CASE Private(buf)
  <2>1. buf # <<>>
    BY <1>1 DEF Private
  <2>2. Tail(buf) \in Seq(Byte)
    BY <2>1, HeadTailProperties
  <2> QED
    BY <1>1, <2>2 DEF Body
<1>2. CASE ~Private(buf)
  BY <1>2 DEF Body
<1> QED
  BY <1>1, <1>2

\* The separator after the last byte completes the last parameter.
LEMMA ParamsEnd ==
  ASSUME NEW b \in Seq(Byte), NEW acc, Parses(b, acc, Len(b) + 1),
         NEW count, count = Cardinality(Separators(b)) + 1
  PROVE  ParamByte(acc, Semicolon).params =
           [k \in 1 .. (IF count < MaxParams THEN count ELSE MaxParams) |-> Param(b, k)]
<1> DEFINE n == Len(b)
           p == Passed(b, n + 1)
           s == ParamByte(acc, Semicolon).params
           m == IF count < MaxParams THEN count ELSE MaxParams
<1>1. n \in Nat /\ n + 1 \in 1 .. n + 1
  <2>1. n \in Nat
    BY LenProperties
  <2> HIDE DEF n
  <2> QED
    BY <2>1
<1>2. p \in Nat /\ count = p + 1 /\ MaxParams \in Nat \ {0}
  BY <1>1, PassedCounts, TermAssumption
<1>3. acc.params \in Seq(Int) /\ Len(acc.params) \in Nat /\ acc.value \in Int /\ acc \in ParamStates
      /\ \A k \in 1 .. Len(acc.params) : acc.params[k] = Param(b, k)
  <2>1. acc \in ParamStates
    BY DEF Parses
  <2> QED
    BY <2>1, LenProperties DEF Parses, ParamStates
<1>4. Read(b, n + 1) = Field(b, p + 1)
  <2>1. Field(b, p + 1) \in SUBSET (1 .. n)
    BY Fields
  <2>2. \A i \in 1 .. n : i < n + 1
    BY <1>1
  <2> QED
    BY <2>1, <2>2 DEF Read
<1>5. s \in Seq(Int) /\ Len(s) = m /\ \A k \in 1 .. m : s[k] = Param(b, k)
  <2>1. CASE p >= MaxParams
    <3>1. Len(acc.params) = MaxParams
      BY <2>1 DEF Parses
    <3>2. s = acc.params
      BY <1>2, <3>1 DEF ParamByte
    <3>3. m = MaxParams
      BY <1>2, <2>1
    <3> HIDE DEF s, m
    <3> QED
      BY <1>3, <3>1, <3>2, <3>3
  <2>2. CASE p < MaxParams
    <3> DEFINE x == IF acc.saw_digit THEN acc.value ELSE -1
    <3>1. /\ Len(acc.params) = p /\ acc.value = Int32(Number(b, Read(b, n + 1)))
          /\ acc.saw_digit = (Read(b, n + 1) # {})
      BY <2>2 DEF Parses
    <3>2. x = Param(b, p + 1)
      BY <1>4, <3>1 DEF Param
    <3>3. x \in Int
      BY <1>3
    <3>4. s = Append(acc.params, x)
      <4>1. ~(Len(acc.params) >= MaxParams)
        BY <1>2, <2>2, <3>1
      <4>2. Semicolon \notin Digits
        BY DEF Semicolon, Digits
      <4> QED
        BY <4>1, <4>2 DEF ParamByte
    <3>5. m = p + 1
      BY <1>2, <2>2
    <3> HIDE DEF x, p, s, m
    <3>6. s \in Seq(Int) /\ Len(s) = p + 1 /\ s[p + 1] = x /\ \A k \in 1 .. p : s[k] = acc.params[k]
      BY <1>3, <3>1, <3>3, <3>4, AppendProperties
    <3>7. \A k \in 1 .. p + 1 : k \in 1 .. p \/ k = p + 1
      BY <1>2
    <3> QED
      BY <1>3, <3>1, <3>2, <3>5, <3>6, <3>7
  <2> QED
    BY <1>2, <2>1, <2>2
<1> HIDE DEF s, m, n
<1>6. s = [k \in 1 .. m |-> s[k]]
  BY <1>5
<1>7. [k \in 1 .. m |-> s[k]] = [k \in 1 .. m |-> Param(b, k)]
  BY <1>5
<1> QED
  BY <1>6, <1>7 DEF s, m

LEMMA ParamsParsed ==
  ASSUME NEW buf, buf \in Seq(Byte)
  PROVE  \E h : /\ h[0] = [params |-> <<>>, value |-> 0, saw_digit |-> FALSE]
                /\ ansi_parse_params(buf) = h[Len(Body(buf)) + 1].params
                /\ \A k \in 1 .. Len(Body(buf)) : h[k] = ParamByte(h[k - 1], Body(buf)[k])
                /\ h[Len(Body(buf)) + 1] = ParamByte(h[Len(Body(buf))], Semicolon)
<1> DEFINE b == Body(buf)
           n == Len(b)
           text == Append(b, Semicolon)
           base == [params |-> <<>>, value |-> 0, saw_digit |-> FALSE]
           g == [q \in ParamStates \X Byte |-> ParamByte(q[1], q[2])]
           Eq(F) == F = [S \in SUBSET DOMAIN text |->
                           IF S = {} THEN base ELSE ParamByte(F[S \ {Max(S)}], text[Max(S)])]
           Z == CHOOSE F : Eq(F)
<1>0. b \in Seq(Byte)
  BY BodyOfBytes
<1>1. Semicolon \in Byte /\ base \in ParamStates
  <2>1. <<>> \in Seq(Int)
    BY EmptySeq
  <2> QED
    BY <2>1 DEF Semicolon, Byte, ParamStates
<1>2. ansi_parse_params(buf) = Z[DOMAIN text].params
  BY DEF ansi_parse_params, Body, FoldLeft, MapThenFoldSet, Max
<1> HIDE DEF b
<1>3. /\ n \in Nat /\ text \in Seq(Byte) /\ Len(text) = n + 1 /\ DOMAIN text = 1 .. n + 1
      /\ text[n + 1] = Semicolon /\ \A k \in 1 .. n : text[k] = b[k]
  <2>1. /\ text \in Seq(Byte) /\ Len(text) = n + 1
        /\ text[n + 1] = Semicolon /\ \A k \in 1 .. n : text[k] = b[k]
    BY <1>0, <1>1, AppendProperties
  <2> HIDE DEF text
  <2> QED
    BY <1>0, <2>1, LenProperties
<1>4. g \in [ParamStates \X Byte -> ParamStates]
  BY ParamTyped
<1> HIDE DEF text, base, n
<1>5. PICK F \in [SUBSET DOMAIN text -> ParamStates] : Folds(F, base, g, text)
  <2> HIDE DEF g
  <2> QED
    BY <1>1, <1>3, <1>4, FoldExists
<1>6. ASSUME NEW S \in SUBSET DOMAIN text, S # {}
      PROVE  g[<<F[S \ {Max(S)}], text[Max(S)]>>] = ParamByte(F[S \ {Max(S)}], text[Max(S)])
  <2>1. Max(S) \in S
    <3>1. n + 1 \in Nat /\ S \in SUBSET (1 .. n + 1)
      BY <1>3
    <3> QED
      BY <1>6, <3>1, LastIn
  <2>2. text[Max(S)] \in Byte /\ S \ {Max(S)} \in SUBSET DOMAIN text
    BY <1>3, <2>1, ElementOfSeq
  <2>3. F[S \ {Max(S)}] \in ParamStates
    BY <2>2
  <2> QED
    BY <2>2, <2>3
<1>7. Eq(F)
  <2>1. F = [S \in SUBSET DOMAIN text |-> F[S]]
    OBVIOUS
  <2> QED
    BY <1>5, <1>6, <2>1 DEF Folds
<1>8. Eq(Z)
  <2> HIDE DEF Eq
  <2> QED
    BY <1>7, Zenon
<1> HIDE DEF Z, g
<1> DEFINE h == [k \in 0 .. n + 1 |-> Z[1 .. k]]
<1>9. h[0] = base
  <2>1. 1 .. 0 = {} /\ 0 \in 0 .. n + 1
    BY <1>3
  <2> QED
    BY <1>8, <2>1
<1>10. ASSUME NEW k \in 1 .. n + 1 PROVE h[k] = ParamByte(h[k - 1], text[k])
  <2>1. k \in Nat \ {0} /\ k - 1 \in 0 .. n + 1 /\ k \in 0 .. n + 1
    BY <1>3
  <2>2. Max(1 .. k) = k /\ (1 .. k) \ {Max(1 .. k)} = 1 .. k - 1 /\ 1 .. k # {}
    BY <2>1, LastOf
  <2>3. 1 .. k \in SUBSET DOMAIN text
    BY <1>3
  <2>4. Z[1 .. k] = ParamByte(Z[1 .. k - 1], text[k])
    BY <1>8, <2>2, <2>3
  <2> QED
    BY <2>1, <2>4
<1>11. h[n + 1] = Z[DOMAIN text]
  BY <1>3
<1> HIDE DEF h
<1>12. h[n + 1] = ParamByte(h[n], Semicolon)
  <2>1. n + 1 \in 1 .. n + 1 /\ (n + 1) - 1 = n
    BY <1>3
  <2> QED
    BY <1>3, <1>10, <2>1
<1>13. \A k \in 1 .. n : h[k] = ParamByte(h[k - 1], b[k])
  <2>1. \A k \in 1 .. n : k \in 1 .. n + 1
    BY <1>3
  <2> QED
    BY <1>3, <1>10, <2>1
<1> WITNESS h
<1> QED
  BY <1>2, <1>9, <1>11, <1>12, <1>13 DEF n, b, base

\* ParamsRight is about the buffer of the parser alone: it holds for every
\* sequence of bytes, also for one that no final byte ends.
LEMMA ParamsAreNumbers ==
  ASSUME csi \in Seq(Byte)
  PROVE  ParamsRight
<1> DEFINE b == Body(csi)
           n == Len(b)
           count == Cardinality(Separators(b)) + 1
<1>1. b \in Seq(Byte)
  BY BodyOfBytes
<1>2. PICK h : /\ h[0] = [params |-> <<>>, value |-> 0, saw_digit |-> FALSE]
               /\ ansi_parse_params(csi) = h[n + 1].params
               /\ \A k \in 1 .. n : h[k] = ParamByte(h[k - 1], b[k])
               /\ h[n + 1] = ParamByte(h[n], Semicolon)
  BY ParamsParsed
<1> HIDE DEF b
<1>3. n \in Nat /\ MaxParams \in Nat \ {0}
  BY <1>1, LenProperties, TermAssumption
<1> DEFINE T == {k \in 0 .. n : Parses(b, h[k], k + 1)}
<1>4. 0 \in T
  <2>1. <<>> \in Seq(Int) /\ Len(<<>>) = 0
    BY EmptySeq
  <2>2. h[0] \in ParamStates /\ h[0].params = <<>> /\ h[0].value = 0 /\ h[0].saw_digit = FALSE
    BY <1>2, <2>1 DEF ParamStates
  <2>3. Passed(b, 1) = 0
    BY <1>1, PassedCounts
  <2>4. Read(b, 1) = {}
    <3>1. Field(b, Passed(b, 1) + 1) \in SUBSET (1 .. n)
      BY <1>1, Fields
    <3>2. \A i \in 1 .. n : ~(i < 1)
      BY <1>3
    <3> QED
      BY <3>1, <3>2 DEF Read
  <2>5. 0 = Int32(Number(b, {}))
    BY <1>1, NoDigits, WrapsOnce
  <2>6. ~(0 >= MaxParams)
    BY <1>3
  <2>7. Len(h[0].params) = 0 /\ \A k \in 1 .. Len(h[0].params) : h[0].params[k] = Param(b, k)
    BY <2>1, <2>2
  <2>8. h[0].value = Int32(Number(b, Read(b, 1))) /\ h[0].saw_digit = (Read(b, 1) # {})
    BY <2>2, <2>4, <2>5, Zenon
  <2>9. Parses(b, h[0], 1)
    BY <2>2, <2>3, <2>6, <2>7, <2>8, Zenon DEF Parses
  <2> QED
    BY <1>3, <2>9
<1>5. ASSUME NEW k \in 0 .. n - 1, k \in T PROVE k + 1 \in T
  <2>1. k + 1 \in 1 .. n /\ (k + 1) - 1 = k /\ k + 1 \in 0 .. n
    BY <1>3
  <2>2. Parses(b, h[k], k + 1)
    BY <1>5
  <2>3. h[k + 1] = ParamByte(h[k], b[k + 1])
    BY <1>2, <2>1
  <2>4. Parses(b, h[k + 1], (k + 1) + 1)
    BY <1>1, <2>1, <2>2, <2>3, ParamRead
  <2> QED
    BY <2>1, <2>4
<1>6. n \in T
  <2> HIDE DEF T
  <2>1. Steps(T, n)
    BY <1>5 DEF Steps
  <2> QED
    BY <1>3, <1>4, <2>1, UpTo
<1>7. Parses(b, h[n], n + 1)
  BY <1>6
<1>8. ansi_parse_params(csi) =
        [k \in 1 .. (IF count < MaxParams THEN count ELSE MaxParams) |-> Param(b, k)]
  BY <1>1, <1>2, <1>7, ParamsEnd
<1> QED
  BY <1>8 DEF ParamsRight, Param, b

\* The parameters that ansi_process_csi takes from the buffer are the numbers
\* between the separators, as int keeps them, whatever bytes come, however the
\* output is cut and wherever a line of the platform comes in between.
THEOREM ParamsAreRight == Spec => []ParamsRight
<1>1. Inv => ParamsRight
  <2>1. Inv => csi \in Seq(Byte)
    BY DEF Inv, ScreenInv, BufferOK
  <2> QED
    BY <2>1, ParamsAreNumbers
<1> QED
  BY <1>1, TermInvariance, PTL
=============================================================================
