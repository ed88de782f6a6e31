----------------------------- MODULE LcdScreen -----------------------------
(***************************************************************************)
(* The picture that the drawing calls ask for, as the simulator on the     *)
(* host (src/host/sim/picocalc_lcd_sim.c) draws it: what any other         *)
(* implementation of picocalc_lcd_bare.h shows when a call returns.        *)
(***************************************************************************)
EXTENDS Integers, Sequences, SequencesExt

CONSTANTS
  Calls,            \* the drawing calls that a program makes
  Width, Height,    \* LCD_WIDTH, LCD_HEIGHT
  CellW, CellH,     \* PICOCALC_FONT_CELL_W, PICOCALC_FONT_CELL_H
  Alpha             \* picocalc_font_alpha: Alpha[ch][row][col]

Colours == [1 .. 3 -> 0 .. 255]
TextCalls == [op : {"puts"}, x : Int, y : Int, text : Seq(DOMAIN Alpha),
              fg : Colours, bg : Colours, scale : Int]
ASSUME ScreenAssumption ==
  /\ {Width, Height, CellW, CellH} \subseteq Nat
  /\ \A ch \in DOMAIN Alpha : Alpha[ch] \in [0 .. CellH - 1 -> [0 .. CellW - 1 -> Nat]]
  /\ \A c \in Calls :
       \/ c.op \in {"clear", "fill"} /\ c.rgb \in Colours
          /\ (c.op = "fill" => {c.x1, c.y1, c.x2, c.y2} \subseteq Int)
       \/ c.op \in {"blit", "dma"} /\ {c.x, c.y, c.width, c.height} \subseteq Int
          /\ (c.width > 0 /\ c.height > 0 => c.rgb \in [1 .. c.width * c.height -> Colours])
       \/ c \in TextCalls

Pixels == (0 .. Width - 1) \X (0 .. Height - 1)
Black == <<0, 0, 0>>

\* The pixels outside the display are not drawn.
sim_fill_rect(f, x1, y1, x2, y2, rgb) ==
  [p \in Pixels |-> IF p[1] \in x1 .. x2 /\ p[2] \in y1 .. y2 THEN rgb ELSE f[p]]

sim_blend_channel(fg, bg, alpha) == (bg * (15 - alpha) + fg * alpha + 7) \div 15
sim_blend_color(fg, bg, alpha) ==
  IF alpha = 0 THEN bg ELSE IF alpha >= 15 THEN fg
  ELSE [i \in 1 .. 3 |-> sim_blend_channel(fg[i], bg[i], alpha)]

\* The squares of a glyph lie side by side: a pixel is in one of them at most.
sim_draw_char(f, x, y, ch, fg, bg, scale) ==
  LET cell == sim_fill_rect(f, x, y, x + CellW * scale - 1, y + CellH * scale - 1, bg)
      Squares(p) ==
        {s \in (0 .. CellH - 1) \X (0 .. CellW - 1) :
           /\ Alpha[ch][s[1]][s[2]] # 0
           /\ p[1] - (x + s[2] * scale) \in 0 .. scale - 1
           /\ p[2] - (y + s[1] * scale) \in 0 .. scale - 1}
  IN  [p \in Pixels |->
         IF Squares(p) = {} THEN cell[p]
         ELSE LET s == CHOOSE s \in Squares(p) : TRUE
              IN  sim_blend_color(fg, bg, Alpha[ch][s[1]][s[2]])]

AtLeastOne(scale) == IF scale < 1 THEN 1 ELSE scale
picocalc_lcd_puts_scale(f, c) ==
  LET scale == AtLeastOne(c.scale)
  IN  FoldLeftDomain(LAMBDA g, i :
        sim_draw_char(g, c.x + (i - 1) * CellW * scale, c.y, c.text[i], c.fg, c.bg, scale),
        f, c.text)

\* The simulator has no blit: this is the header's promise, with the driver's limits.
Accepted(c) ==
  /\ c.width > 0 /\ c.height > 0 /\ c.x >= 0 /\ c.y >= 0
  /\ c.x + c.width <= Width /\ c.y + c.height <= Height
picocalc_lcd_blit_rgb(f, c) ==
  [p \in Pixels |->
     IF Accepted(c) /\ p[1] - c.x \in 0 .. c.width - 1 /\ p[2] - c.y \in 0 .. c.height - 1
     THEN c.rgb[(p[2] - c.y) * c.width + p[1] - c.x + 1] ELSE f[p]]

Draw(f, c) ==
  CASE c.op = "clear" -> sim_fill_rect(f, 0, 0, Width - 1, Height - 1, c.rgb)
    [] c.op = "fill" -> sim_fill_rect(f, c.x1, c.y1, c.x2, c.y2, c.rgb)
    [] c.op \in {"blit", "dma"} -> picocalc_lcd_blit_rgb(f, c)
    [] c.op = "puts" -> picocalc_lcd_puts_scale(f, c)

VARIABLES
  shown,     \* what the display shows
  wanted     \* what the calls have asked for

ScreenInit == shown = [p \in Pixels |-> Black] /\ wanted = shown

Call == shown = wanted /\ (\E c \in Calls : wanted' = Draw(wanted, c)) /\ UNCHANGED shown
Paint ==
  /\ \E p \in Pixels : shown[p] # wanted[p] /\ shown' = [shown EXCEPT ![p] = wanted[p]]
  /\ UNCHANGED wanted

ScreenNext == Call \/ Paint
\* A call draws what it was asked for, pixel by pixel, and nothing else; the
\* next one starts when it is done.
ScreenSteps == ScreenInit /\ [][ScreenNext]_<<shown, wanted>>
ScreenSpec == ScreenSteps /\ WF_<<shown, wanted>>(Paint)
=============================================================================
