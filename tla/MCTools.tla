------------------------------ MODULE MCTools ------------------------------
(***************************************************************************)
(* The tools that make and show an image, one of them at a time: the       *)
(* linker ("linker", of PicoLink), the display with its driver ("display", *)
(* of LcdLink) and a video from the encoder to the player ("video", of     *)
(* VideoStream).  The tool is chosen at the start; the variables of the    *)
(* others stay as they are then.                                           *)
(***************************************************************************)
EXTENDS MCPicoLink, LcdLink, VideoStream, TLC
VARIABLE tool

White == <<255, 250, 245>>
Red == <<200, 10, 20>>
Blue == <<1, 2, 3>>
Fill(x1, y1, x2, y2, rgb) == [op |-> "fill", x1 |-> x1, y1 |-> y1, x2 |-> x2, y2 |-> y2, rgb |-> rgb]
Blit(op, x, y, w, h) == [op |-> op, x |-> x, y |-> y, width |-> w, height |-> h,
                         rgb |-> [i \in 1 .. w * h |-> <<i, 2 * i, 3 * i>>]]
Puts(x, y, text, scale) ==
  [op |-> "puts", x |-> x, y |-> y, text |-> text, fg |-> White, bg |-> Red, scale |-> scale]
MCAlpha == [a |-> (0 :> (0 :> 15 @@ 1 :> 0) @@ 1 :> (0 :> 7 @@ 1 :> 15)),
            b |-> (0 :> (0 :> 0 @@ 1 :> 0) @@ 1 :> (0 :> 0 @@ 1 :> 8))]
MCCalls ==
  {[op |-> "clear", rgb |-> Blue], Fill(2, 1, 1, 2, Red), Fill(5, 0, 6, 1, Red), Fill(4, 2, 4, 2, Red)}
    \cup {Fill(x, y, x + 1, y + 1, Red) : x \in {-1, 1, 3, 4}, y \in {-1, 1, 2}}
    \cup {Blit(op, x, 1, w, h) : op \in {"blit", "dma"}, x \in {-1, 0, 3, 4}, w \in {1, 2}, h \in {0, 2}}
    \cup {Puts(x, y, <<"b", "a">>, s) : x \in {-1, 0, 1, 3}, y \in {-1, 0, 2}, s \in {0, 1, 2}}

\* Frames of four tiles, one below the other, each of 4 by 2 pixels.
Frame(tiles) == [p \in 0 .. 31 |-> tiles[p \div 8][p % 8]]
Bits(n) == [i \in 0 .. 7 |-> (n \div 2^i) % 2]
\* many tiles in the last place, and frames of few patterns
MCFrames ==
  {Frame([t \in 0 .. 3 |-> Bits(IF t = 3 THEN n ELSE 0)]) : n \in {k * 13 % 256 : k \in 0 .. 24}}
  \cup {Frame([t \in 0 .. 3 |-> Bits(IF t % 2 = 0 THEN n ELSE m)]) : n, m \in {0, 90, 15, 255}}
\* black, a colour next to it, white and red
Colors == <<<<0, 0, 0>>, <<40, 0, 70>>, <<250, 250, 250>>, <<200, 30, 0>>>>
Pattern(a, b, c) == [i \in 0 .. 7 |-> Colors[IF i < 5 THEN a ELSE IF i < 7 THEN b ELSE c]]
MCColorFrames ==
  {Frame([t \in 0 .. 3 |-> IF t \in {0, 2} THEN Pattern(2, 1, 1) ELSE Pattern(a, b, c)]) :
     a \in {1, 3}, b \in {1, 2, 4}, c \in {2, 3, 4}}
  \cup {Frame([t \in 0 .. 3 |-> Pattern(3, 3, a)]) : a \in 1 .. 4}

ASSUME LzssAssumption /\ TileAssumption /\ VideoAssumption

toolVars == <<tool, vars, linkVars, videoVars>>

NoFiles == [objects |-> <<Start, BadFile>>, archives |-> <<>>, gc |-> FALSE, reach |-> FALSE, map |-> FALSE]

ToolsInit == /\ tool \in {"linker", "display", "video"}
             /\ Init /\ (tool # "linker" => input = NoFiles)
             /\ LinkInit
             /\ VideoInit /\ (tool # "video" => kind = "PCV3")
Linker == tool = "linker" /\ Next /\ UNCHANGED <<tool, linkVars, videoVars>>
Display(A) == tool = "display" /\ A /\ UNCHANGED <<tool, vars, videoVars>>
Video == tool = "video" /\ VideoNext /\ UNCHANGED <<tool, vars, linkVars>>
ToolsNext == Linker \/ Display(LinkNext) \/ Video
\* The fairness of LinkSpec: the processor runs, and time passes.
ToolsSpec ==
  /\ ToolsInit /\ [][ToolsNext]_toolVars
  /\ WF_toolVars(Display(Driver)) /\ WF_toolVars(Display(Time)) /\ WF_toolVars(Display(Tick))
=============================================================================
