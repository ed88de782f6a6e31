------------------------------ MODULE TileCodec ------------------------------
(***************************************************************************)
(* The tiles of the two video formats: the encoders in src/src/host/tools/ *)
(* (video_tile_codec.c for one bit to a pixel, color_tile_probe.c for two  *)
(* colours to a tile) and the decoders of the players in                   *)
(* src/src/picocalc/bare/ (video_player.c, color_video_player.c).          *)
(*                                                                         *)
(* A frame is a function from pixels, row by row, to values.  Bytes are    *)
(* numbers; the constants say how much fits into each of their fields.     *)
(***************************************************************************)
EXTENDS Lzss
CONSTANTS TileW, TileH,    \* 16, 8
          TilesX, TilesY,  \* 20, 30
          Octet,           \* bits to a byte (8)
          Delta,           \* the delta that says that an absolute index follows (31)
          RunMax,          \* the longest run of a token (127)
          GapMax           \* the largest gap of a nibble (15)
TileAssumption == /\ {TileW, TileH, TilesX, TilesY, Octet, Delta, RunMax, GapMax}
                              \subseteq Nat \ {0}
                         /\ TileW % Octet = 0

TileCount == TilesX * TilesY
Tiles == 0 .. TileCount - 1
TilePixels == TileW * TileH
TileBytes == TilePixels \div Octet
Pow2[k \in Nat] == IF k = 0 THEN 1 ELSE 2 * Pow2[k - 1]
ByteValues == Pow2[Octet]
FramePixels == 0 .. TileCount * TilePixels - 1
\* the pixel of the frame that is pixel i of a tile
PixelOf(t, i) == ((t \div TilesX) * TileH + i \div TileW) * (TilesX * TileW)
                 + (t % TilesX) * TileW + (i % TileW)
TileOf(frame, t) == [i \in 0 .. TilePixels - 1 |-> frame[PixelOf(t, i)]]
\* a frame with one tile replaced
TileAt(p) == (p \div (TilesX * TileW * TileH)) * TilesX + (p % (TilesX * TileW)) \div TileW
PlaceIn(p) == ((p \div (TilesX * TileW)) % TileH) * TileW + (p % TileW)
Put(frame, t, tile) == [p \in FramePixels |-> IF TileAt(p) = t THEN tile[PlaceIn(p)] ELSE frame[p]]

get_bit(bytes, i) == (bytes[i \div Octet + 1] \div Pow2[Octet - 1 - (i % Octet)]) % 2
Packed(tile) ==
  [b \in 1 .. TileBytes |->
     LET Sum[i \in 0 .. Octet] ==
           IF i = 0 THEN 0 ELSE 2 * Sum[i - 1] + tile[(b - 1) * Octet + i - 1]
     IN Sum[Octet]]
Xor(a, b) == [i \in DOMAIN a |-> (a[i] + b[i]) % 2]

(***************************************************************************)
(* Commands.  A tile further than Delta from the last one, or before it,   *)
(* is named by its index in two bytes.                                     *)
(***************************************************************************)
emit_tile_command(tile, mode, next) ==
  IF tile >= next /\ tile - next < Delta THEN <<mode * (Delta + 1) + (tile - next)>>
  ELSE <<mode * (Delta + 1) + Delta, tile % ByteValues, tile \div ByteValues>>
\* what a reader at pos makes of a command: its mode, its tile, where it ends
Command(data, pos, next) ==
  LET delta == ByteAt(data, pos) % (Delta + 1)
      far == delta = Delta
  IN [ok |-> ~far \/ pos + 3 <= Len(data),
      mode |-> ByteAt(data, pos) \div (Delta + 1),
      tile |-> IF ~far THEN next + delta
               ELSE IF pos + 3 <= Len(data)
               THEN ByteAt(data, pos + 1) + ByteAt(data, pos + 2) * ByteValues ELSE 0,
      pos |-> pos + (IF far THEN 3 ELSE 1)]

XOR_NIBS1 == 0
SOLID0 == 1
SOLID1 == 2
RAW1 == 3
RLE1 == 4
XOR_RAW1 == 5
XOR_RLE1 == 6
XOR_BITS1 == 7

(***************************************************************************)
(* One bit to a pixel: the encodings of a tile.                            *)
(***************************************************************************)
Solid(tile, value) == \A i \in DOMAIN tile : tile[i] = value
Token(run, bit) == run + bit * (RunMax + 1)
RunLength(tile, pos) ==
  Max({n \in 1 .. Min({RunMax, TilePixels - pos}) : \A i \in 0 .. n - 1 : tile[pos + i] = tile[pos]})
encode_tile_rle(tile) ==
  LET Step[k \in 0 .. TilePixels] ==
        IF k = 0 THEN [pos |-> 0, out |-> <<>>]
        ELSE LET s == Step[k - 1]
                 run == RunLength(tile, s.pos)
             IN IF s.pos = TilePixels THEN s
                ELSE [pos |-> s.pos + run, out |-> Append(s.out, Token(run, tile[s.pos]))]
  IN Step[TilePixels].out
Ones(tile) ==
  LET Upto[i \in 0 .. TilePixels] ==
        IF i = 0 THEN <<>>
        ELSE IF tile[i - 1] = 1 THEN Append(Upto[i - 1], i - 1) ELSE Upto[i - 1]
  IN Upto[TilePixels]
encode_xor_bits(tile) == <<Len(Ones(tile))>> \o Ones(tile)
Gaps(tile) == [k \in DOMAIN Ones(tile) |->
                 IF k = 1 THEN Ones(tile)[1] ELSE Ones(tile)[k] - Ones(tile)[k - 1] - 1]
\* nothing when a gap does not fit
encode_xor_nibbles(tile) ==
  LET gaps == Gaps(tile)
      n == Len(gaps)
  IN IF \E k \in 1 .. n : gaps[k] > GapMax THEN <<>>
     ELSE <<n>> \o [b \in 1 .. (n + 1) \div 2 |->
            gaps[2 * b - 1] * (GapMax + 1) + (IF 2 * b <= n THEN gaps[2 * b] ELSE 0)]

\* the shortest of them; a tile that would be as long as its bytes is raw
Shortest(tile, change, rle, xrle, bits, nibs) ==
  LET of(mode, bytes) == [mode |-> mode, bytes |-> bytes]
  IN CASE Solid(tile, 0) -> of(SOLID0, <<>>)
       [] Solid(tile, 1) -> of(SOLID1, <<>>)
       [] OTHER ->
          IF /\ nibs # <<>> /\ Len(nibs) < Len(bits) /\ Len(nibs) <= Len(xrle)
             /\ Len(nibs) <= Len(rle) /\ Len(nibs) < TileBytes
          THEN of(XOR_NIBS1, nibs)
          ELSE IF Len(bits) <= Len(xrle) /\ Len(bits) <= Len(rle) /\ Len(bits) < TileBytes
          THEN of(XOR_BITS1, bits)
          ELSE IF Len(xrle) < Len(rle) /\ Len(xrle) + 1 < TileBytes
          THEN of(XOR_RLE1, <<Len(xrle)>> \o xrle)
          ELSE IF Len(rle) + 1 < TileBytes THEN of(RLE1, <<Len(rle)>> \o rle)
          ELSE IF Len(bits) < TileBytes THEN of(XOR_RAW1, Packed(change))
          ELSE of(RAW1, Packed(tile))
Changed(tile, change) ==
  Shortest(tile, change, encode_tile_rle(tile), encode_tile_rle(change),
           encode_xor_bits(change), encode_xor_nibbles(change))
Encoding(tile, old) == Changed(tile, Xor(tile, old))
\* the bytes of a frame and how many tiles changed
Emitted(before, tile, code) ==
  [bytes |-> before.bytes \o emit_tile_command(tile, code.mode, before.next) \o code.bytes,
   next |-> tile + 1, changed |-> before.changed + 1]
encode_frame(current, previous) ==
  LET Upto[t \in 0 .. TileCount] ==
        IF t = 0 THEN [bytes |-> <<>>, next |-> 0, changed |-> 0]
        ELSE IF TileOf(current, t - 1) = TileOf(previous, t - 1) THEN Upto[t - 1]
        ELSE Emitted(Upto[t - 1], t - 1, Encoding(TileOf(current, t - 1), TileOf(previous, t - 1)))
  IN Upto[TileCount]

(***************************************************************************)
(* The player.  Decoded is a tile and where its bytes end, in the frame's  *)
(* data of which the encoding starts at pos; a tile that is cut short ends *)
(* the frame with what was decoded of it so far.                           *)
(***************************************************************************)
Decoded(tile, pos) == [tile |-> tile, pos |-> pos]
Flip(tile, i) == [tile EXCEPT ![i] = 1 - @]
\* the runs of the tokens, over the pixels of a tile
Runs(data, first, count, tile) ==
  LET Upto[k \in 0 .. count] ==
        IF k = 0 THEN Decoded(tile, 0)
        ELSE LET before == Upto[k - 1]
                 run == ByteAt(data, first + k - 1) % (RunMax + 1)
                 on == ByteAt(data, first + k - 1) \div (RunMax + 1)
             IN Decoded([i \in DOMAIN tile |->
                           IF i \in before.pos .. before.pos + run - 1 THEN on ELSE before.tile[i]],
                        Min({before.pos + run, TilePixels}))
  IN Upto[count].tile
BlackTile == [i \in 0 .. TilePixels - 1 |-> 0]
RunCount(data, pos) == Min({ByteAt(data, pos), Len(data) - pos - 1})
set_tile_rle(tile, data, pos) ==
  IF pos >= Len(data) THEN Decoded(tile, Len(data))
  ELSE Decoded(Runs(data, pos + 1, RunCount(data, pos), tile), pos + 1 + RunCount(data, pos))
xor_tile_rle(tile, data, pos) ==
  IF pos >= Len(data) THEN Decoded(tile, Len(data))
  ELSE Decoded(Xor(tile, Runs(data, pos + 1, RunCount(data, pos), BlackTile)),
               pos + 1 + RunCount(data, pos))
\* flips pixel after pixel until one lies outside
Flipped(tile, places) ==
  LET outside == {k \in DOMAIN places : places[k] >= TilePixels}
      good == IF outside = {} THEN Len(places) ELSE Min(outside) - 1
      Upto[k \in 0 .. good] == IF k = 0 THEN tile ELSE Flip(Upto[k - 1], places[k])
  IN [tile |-> Upto[good], whole |-> outside = {}]
xor_tile_bits(tile, data, pos) ==
  IF pos >= Len(data) \/ pos + 1 + ByteAt(data, pos) > Len(data) THEN Decoded(tile, Len(data))
  ELSE LET end == pos + 1 + ByteAt(data, pos)
           result == Flipped(tile, SubSeq(data, pos + 2, end))
       IN Decoded(result.tile, IF result.whole THEN end ELSE Len(data))
\* the place of a pixel is one further than the last, and the gap
Places_NotOneFurther(gaps) ==
  LET Place[k \in 0 .. Len(gaps)] == IF k = 0 THEN 0 ELSE Place[k - 1] + gaps[k]
  IN [k \in DOMAIN gaps |-> Place[k]]
Places(gaps) ==
  LET Place[k \in 0 .. Len(gaps)] == IF k = 0 THEN -1 ELSE Place[k - 1] + gaps[k] + 1
  IN [k \in DOMAIN gaps |-> Place[k]]
xor_tile_nibbles(tile, data, pos) ==
  IF pos >= Len(data) \/ pos + 1 + (ByteAt(data, pos) + 1) \div 2 > Len(data)
  THEN Decoded(tile, Len(data))
  ELSE LET gap(k) == LET byte == ByteAt(data, pos + 1 + (k - 1) \div 2)
                     IN IF k % 2 = 1 THEN byte \div (GapMax + 1) ELSE byte % (GapMax + 1)
           result == Flipped(tile, Places([k \in 1 .. ByteAt(data, pos) |-> gap(k)]))
       IN Decoded(result.tile, IF result.whole THEN pos + 1 + (ByteAt(data, pos) + 1) \div 2
                               ELSE Len(data))
RawBytes(data, pos) == SubSeq(data, pos + 1, pos + TileBytes)
RawTile(data, pos) == [i \in 0 .. TilePixels - 1 |-> get_bit(RawBytes(data, pos), i)]
DecodeTile(tile, mode, data, pos) ==
  CASE mode = SOLID0 -> Decoded(BlackTile, pos)
    [] mode = SOLID1 -> Decoded([i \in DOMAIN tile |-> 1], pos)
    [] mode = RAW1 -> Decoded(RawTile(data, pos), pos + TileBytes)
    [] mode = XOR_RAW1 -> Decoded(Xor(tile, RawTile(data, pos)), pos + TileBytes)
    [] mode = RLE1 -> set_tile_rle(tile, data, pos)
    [] mode = XOR_RLE1 -> xor_tile_rle(tile, data, pos)
    [] mode = XOR_BITS1 -> xor_tile_bits(tile, data, pos)
    [] mode = XOR_NIBS1 -> xor_tile_nibbles(tile, data, pos)
CutShort(mode, data, pos) == mode \in {RAW1, XOR_RAW1} /\ pos + TileBytes > Len(data)

(***************************************************************************)
(* Two colours to a tile.  A colour is its red, green and blue; the stream *)
(* names one of the 256 of rgb332.                                         *)
(***************************************************************************)
quant_rgb332(c) == (c[1] \div 32) * 32 + (c[2] \div 32) * 4 + c[3] \div 64
rgb332(index) ==
  LET r == index \div 32
      g == (index \div 4) % 8
      b == index % 4
  IN <<r * 36 + r \div 2, g * 36 + g \div 2, b * 85>>
rgb332_to_rgb565(index) ==
  LET c == rgb332(index) IN <<c[1] \div 8, c[2] \div 4, c[3] \div 8>>
color_distance(c, index) ==
  LET p == rgb332(index)
      d == [k \in 1 .. 3 |-> c[k] - p[k]]
  IN d[1] * d[1] * 3 + d[2] * d[2] * 4 + d[3] * d[3] * 2
\* the first and the second colour of a tile, as the scan over its histogram
\* from the lowest colour there to the highest leaves them: both start at 0
Histogram(tile, c) == Cardinality({i \in DOMAIN tile : quant_rgb332(tile[i]) = c})
Scanned(tile, top, c) ==
  IF Histogram(tile, c) > Histogram(tile, top[1]) THEN <<c, top[1]>>
  ELSE IF c # top[1] /\ Histogram(tile, c) > Histogram(tile, top[2]) THEN <<top[1], c>>
  ELSE top
TopColors(tile) ==
  LET Scan[k \in 0 .. TilePixels] ==
        IF k = 0 THEN [top |-> <<0, 0>>, left |-> {quant_rgb332(tile[i]) : i \in DOMAIN tile}]
        ELSE LET s == Scan[k - 1]
             IN IF s.left = {} THEN s
                ELSE [top |-> Scanned(tile, s.top, Min(s.left)), left |-> s.left \ {Min(s.left)}]
      top == Scan[TilePixels].top
  IN IF Histogram(tile, top[2]) = 0 THEN <<top[1], top[1]>> ELSE top
\* which of the two a pixel takes, and whether its bit of the mask is set
Second(c, top) == color_distance(c, top[2]) < color_distance(c, top[1])
Chosen(c, top) == IF Second(c, top) THEN top[2] ELSE top[1]
Rendered(tile) ==
  LET top == TopColors(tile) IN [i \in DOMAIN tile |-> rgb332_to_rgb565(Chosen(tile[i], top))]
MODE_SOLID == 1
MODE_PAIR == 2
ColorEncoding(tile) ==
  LET top == TopColors(tile)
      mask == [i \in DOMAIN tile |-> IF Chosen(tile[i], top) = top[2] THEN 1 ELSE 0]
  IN IF top[1] = top[2] THEN [mode |-> MODE_SOLID, bytes |-> <<top[1]>>]
     ELSE [mode |-> MODE_PAIR, bytes |-> top \o Packed(mask)]
\* a tile of which fewer than min pixels would change is left as it is;
\* previous becomes what the stream shows
color_encode_frame(current, previous, min) ==
  LET Upto[t \in 0 .. TileCount] ==
        IF t = 0 THEN [bytes |-> <<>>, next |-> 0, changed |-> 0, shown |-> previous]
        ELSE LET before == Upto[t - 1]
                 tile == TileOf(current, t - 1)
                 old == TileOf(previous, t - 1)
                 new == Rendered(tile)
                 code == ColorEncoding(tile)
             IN IF Cardinality({i \in DOMAIN new : new[i] # old[i]}) < min THEN before
                ELSE [bytes |-> before.bytes \o emit_tile_command(t - 1, code.mode, before.next)
                                \o code.bytes,
                      next |-> t, changed |-> before.changed + 1,
                      shown |-> Put(before.shown, t - 1, new)]
  IN Upto[TileCount]
ColorBytes(mode) == IF mode = MODE_SOLID THEN 1 ELSE 2 + TileBytes
ColorTile(mode, data, pos) ==
  IF mode = MODE_SOLID THEN [i \in 0 .. TilePixels - 1 |-> rgb332(ByteAt(data, pos))]
  ELSE [i \in 0 .. TilePixels - 1 |->
          rgb332(ByteAt(data, pos + (IF get_bit(RawBytes(data, pos + 2), i) = 1 THEN 1 ELSE 0)))]
=============================================================================
