----------------------------- MODULE VideoStream -----------------------------
(***************************************************************************)
(* A video from the frames on the host to the display: an encoder writes   *)
(* the stream frame by frame, each compressed where that is shorter; the   *)
(* stream is linked into the player's image; the player decodes one frame  *)
(* after the other and draws the tiles named in it; and on the host the    *)
(* analyzer reads the stream of one-bit frames without decoding the tiles. *)
(*                                                                         *)
(* A number of two bytes in the stream (a frame's size) is one element     *)
(* here, and the waiting for the time of the next frame is left out.       *)
(***************************************************************************)
EXTENDS TileCodec
CONSTANTS Frames,        \* frames of one bit to a pixel an encoder may be given
          ColorFrames,   \* frames of colours it may be given
          Count,         \* frames of a video
          MinChanged,    \* --min-changed-pixels
          FrameMax       \* VIDEO_FRAME_MAX and the like (16384)
\* a frame all of whose tiles have changed fits, also in colour
VideoAssumption ==
  /\ Frames \subseteq [FramePixels -> {0, 1}]
  /\ ColorFrames \subseteq [FramePixels -> [1 .. 3 -> 0 .. 255]]
  /\ {Count, MinChanged, FrameMax} \subseteq Nat
  /\ TileCount * (3 + 2 + TileBytes) <= FrameMax
VARIABLES
  kind,     \* "PCV3" or "PCVC", the magic of the stream
  source,   \* the frames given to the encoder so far
  known,    \* previous: what the encoder takes the display to show
  stream,   \* the frames written, each as it is stored
  stats,    \* the encoder's statistics
  stage,    \* "encode", "play", "analyze" or "over"
  player,   \* the player's frame, display and sums
  report    \* the analyzer's statistics
videoVars == <<kind, source, known, stream, stats, stage, player, report>>

NoStats == [bytes |-> 14, tiles |-> 0, worst |-> 0, worstTiles |-> 0]
BlackFrame == [p \in FramePixels |-> 0]
BlackColors == [p \in FramePixels |-> <<0, 0, 0>>]
VideoInit ==
  /\ kind \in {"PCV3", "PCVC"}
  /\ source = <<>> /\ stream = <<>> /\ stats = NoStats /\ stage = "encode"
  /\ known = IF kind = "PCV3" THEN BlackFrame ELSE BlackColors
  /\ player = [next |-> 1, bits |-> BlackFrame, ok |-> TRUE, tiles |-> 0, payload |-> 0,
               lcd |-> IF kind = "PCV3" THEN BlackFrame ELSE BlackColors]
  /\ report = NoStats

\* a frame as it is stored: compressed only where that saves two bytes more
\* than it costs
Smaller(bytes, compressed) ==
  IF Len(compressed) + 2 < Len(bytes)
  THEN [compressed |-> TRUE, raw |-> Len(bytes), data |-> compressed]
  ELSE [compressed |-> FALSE, raw |-> Len(bytes), data |-> bytes]
Stored(bytes) == Smaller(bytes, lzss_compress(bytes))
HeadBytes(frame) == IF frame.compressed THEN 4 ELSE 2
StoredBytes(frame) == Len(frame.data) + HeadBytes(frame)
Counted(sums, frame, tiles) ==
  [bytes |-> sums.bytes + StoredBytes(frame), tiles |-> sums.tiles + tiles,
   worst |-> Max({sums.worst, StoredBytes(frame) - 2}),
   worstTiles |-> Max({sums.worstTiles, tiles})]
WriteFrame(current, shown, frame, tiles) ==
  /\ source' = Append(source, current) /\ known' = shown
  /\ stream' = Append(stream, frame) /\ stats' = Counted(stats, frame, tiles)
  /\ UNCHANGED <<kind, stage, player, report>>
EncodeFrame(current) ==
  /\ kind = "PCV3" /\ stage = "encode" /\ Len(source) < Count
  /\ \E code \in {encode_frame(current, known)} :
       /\ Len(code.bytes) <= FrameMax
       /\ WriteFrame(current, current, Stored(code.bytes), code.changed)
EncodeColors(current) ==
  /\ kind = "PCVC" /\ stage = "encode" /\ Len(source) < Count
  /\ \E code \in {color_encode_frame(current, known, MinChanged)} :
       WriteFrame(current, code.shown, Stored(code.bytes), code.changed)
EncodeNext == (\E f \in Frames : EncodeFrame(f)) \/ (\E f \in ColorFrames : EncodeColors(f))
Written == /\ stage = "encode" /\ Len(source) = Count
           /\ stage' = "play"
           /\ UNCHANGED <<kind, source, known, stream, stats, player, report>>

(***************************************************************************)
(* The player's loop over the commands of a frame; a reason to give up is  *)
(* ok = FALSE.                                                             *)
(***************************************************************************)
Payload(frame) ==
  IF ~frame.compressed THEN [ok |-> kind = "PCVC" => frame.raw <= FrameMax, out |-> frame.data]
  ELSE IF frame.raw > FrameMax THEN [ok |-> FALSE, out |-> <<>>]
  ELSE lzss_decompress(frame.data, frame.raw)
GivesUp(s) == [s EXCEPT !.ok = FALSE]
Drawn(s, tile, decoded) ==
  [ok |-> TRUE, bits |-> Put(s.bits, tile, decoded.tile), lcd |-> Put(s.lcd, tile, decoded.tile),
   pos |-> decoded.pos, next |-> tile + 1, tiles |-> s.tiles + 1]
PlayTile(s, data, c) ==
  IF CutShort(c.mode, data, c.pos) THEN GivesUp(s)
  ELSE Drawn(s, c.tile, DecodeTile(TileOf(s.bits, c.tile), c.mode, data, c.pos))
PlayColorTile(s, data, c) ==
  IF c.mode \notin {MODE_SOLID, MODE_PAIR} \/ c.pos + ColorBytes(c.mode) > Len(data) THEN GivesUp(s)
  ELSE [ok |-> TRUE, bits |-> s.bits, lcd |-> Put(s.lcd, c.tile, ColorTile(c.mode, data, c.pos)),
        pos |-> c.pos + ColorBytes(c.mode), next |-> c.tile + 1, tiles |-> s.tiles + 1]
Obey(s, data, c) ==
  IF ~c.ok \/ c.tile >= TileCount THEN GivesUp(s)
  ELSE IF kind = "PCV3" THEN PlayTile(s, data, c) ELSE PlayColorTile(s, data, c)
Play(data) ==
  LET Step[k \in 0 .. Len(data)] ==
        IF k = 0 THEN [ok |-> TRUE, bits |-> player.bits, lcd |-> player.lcd, pos |-> 0, next |-> 0,
                       tiles |-> 0]
        ELSE LET s == Step[k - 1]
             IN IF ~s.ok \/ s.pos >= Len(data) THEN s
                ELSE Obey(s, data, Command(data, s.pos, s.next))
  IN Step[Len(data)]
PlayedTo(end, frame) ==
  [next |-> player.next + 1, bits |-> end.bits, ok |-> end.ok, tiles |-> player.tiles + end.tiles,
   payload |-> player.payload + StoredBytes(frame), lcd |-> end.lcd]
PlayFrame ==
  /\ stage = "play" /\ player.ok /\ player.next <= Len(stream)
  /\ \E payload \in {Payload(stream[player.next])} :
       player' = IF ~payload.ok THEN [player EXCEPT !.ok = FALSE]
                 ELSE PlayedTo(Play(payload.out), stream[player.next])
  /\ UNCHANGED <<kind, source, known, stream, stats, stage, report>>
Played ==
  /\ stage = "play" /\ (~player.ok \/ player.next > Len(stream))
  /\ stage' = IF kind = "PCV3" THEN "analyze" ELSE "over"
  /\ UNCHANGED <<kind, source, known, stream, stats, player, report>>

(***************************************************************************)
(* The analyzer steps over what a command brings with it and dies at the   *)
(* first that makes no sense.                                              *)
(***************************************************************************)
PayloadLength_RoundedDown(mode, length) == IF mode = XOR_NIBS1 THEN length \div 2 ELSE length
PayloadLength(mode, length) == IF mode = XOR_NIBS1 THEN (length + 1) \div 2 ELSE length
Skipped(mode, data, pos) ==
  CASE mode \in {SOLID0, SOLID1} -> [ok |-> TRUE, pos |-> pos]
    [] mode \in {RAW1, XOR_RAW1} -> [ok |-> pos + TileBytes <= Len(data), pos |-> pos + TileBytes]
    [] OTHER ->
       IF pos >= Len(data) THEN [ok |-> FALSE, pos |-> pos]
       ELSE [ok |-> /\ mode \in {XOR_BITS1, XOR_NIBS1} => ByteAt(data, pos) <= TilePixels
                    /\ pos + 1 + PayloadLength(mode, ByteAt(data, pos)) <= Len(data),
             pos |-> pos + 1 + PayloadLength(mode, ByteAt(data, pos))]
Stepped(s, data, c, skipped) ==
  IF ~c.ok \/ c.tile >= TileCount \/ ~skipped.ok THEN GivesUp(s)
  ELSE [ok |-> TRUE, pos |-> skipped.pos, next |-> c.tile + 1, tiles |-> s.tiles + 1]
StepOver(s, data, c) == Stepped(s, data, c, Skipped(c.mode, data, c.pos))
Parsed(data) ==
  LET Step[k \in 0 .. Len(data)] ==
        IF k = 0 THEN [ok |-> TRUE, pos |-> 0, next |-> 0, tiles |-> 0]
        ELSE LET s == Step[k - 1]
             IN IF ~s.ok \/ s.pos >= Len(data) THEN s
                ELSE StepOver(s, data, Command(data, s.pos, s.next))
  IN Step[Len(data)]
Died == [NoStats EXCEPT !.bytes = -1]
Analyze ==
  LET Upto[n \in 0 .. Len(stream)] ==
        IF n = 0 THEN NoStats
        ELSE LET payload == Payload(stream[n])
                 parsed == Parsed(payload.out)
             IN IF Upto[n - 1] = Died \/ stream[n].raw > FrameMax \/ ~payload.ok \/ ~parsed.ok \/ parsed.pos # Len(payload.out)
                THEN Died ELSE Counted(Upto[n - 1], stream[n], parsed.tiles)
  IN /\ stage = "analyze" /\ stage' = "over" /\ report' = Upto[Len(stream)]
     /\ UNCHANGED <<kind, source, known, stream, stats, player>>
VideoNext == EncodeNext \/ Written \/ PlayFrame \/ Played \/ Analyze
VideoSpec == VideoInit /\ [][VideoNext]_videoVars
-----------------------------------------------------------------------------
\* colours as the encoder compares them
As565(color) == <<color[1] \div 8, color[2] \div 4, color[3] \div 8>>
Differing(frame, t) ==
  Cardinality({i \in 0 .. TilePixels - 1 :
                 As565(player.lcd[PixelOf(t, i)]) # Rendered(TileOf(frame, t))[i]})
(***************************************************************************)
(* After each frame the display shows that frame, although only the tiles  *)
(* that changed were sent, each in the encoding that happened to be the    *)
(* shortest, as a difference to what the encoder took the display to show, *)
(* and through the compression.  In colour a tile may lag behind the two   *)
(* colours the encoder chose for it by fewer than MinChanged pixels.       *)
(***************************************************************************)
FramesShown ==
  /\ player.ok
  /\ player.next > 1 =>
       LET frame == source[player.next - 1]
       IN IF kind = "PCV3" THEN player.lcd = frame
          ELSE \A t \in Tiles :
                 Differing(frame, t) = 0 \/ Differing(frame, t) < MinChanged

(***************************************************************************)
(* The encoder, the player and the analyzer agree on how many tiles and    *)
(* bytes a stream has and on its worst frame: each counts on its own, and  *)
(* the analyzer reads the commands with a parser of its own.               *)
(***************************************************************************)
TotalsAgree ==
  stage = "over" => /\ player.tiles = stats.tiles /\ player.payload = stats.bytes - 14
                    /\ kind = "PCV3" => report = stats

\* After each frame the display shows that frame, and the encoder, the player
\* and the analyzer agree on what the stream holds.
ShowsEveryFrame == FramesShown /\ TotalsAgree
=============================================================================
