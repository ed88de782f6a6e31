-------------------------------- MODULE Lzss --------------------------------
(***************************************************************************)
(* The compression of a frame of the video streams: items of up to Group   *)
(* per byte of flags, each a byte as it is or a copy of bytes already      *)
(* there.  lzss_compress is the same in both encoders                      *)
(* (src/src/host/tools/video_tile_codec.c, color_tile_probe.c), and        *)
(* lzss_decompress in both players and in the analyzer.                    *)
(*                                                                         *)
(* The chains head[], prev[] hold every earlier position once, the latest  *)
(* first; a chain is here the set of the positions with one hash.          *)
(***************************************************************************)
EXTENDS Integers, Sequences, FiniteSets, FiniteSetsExt
CONSTANTS Group,     \* items to a byte of flags (8)
          OffLow,    \* values of the byte that holds the low part of an offset (256)
          OffHigh,   \* values of its high part (16)
          Nibble,    \* a length from which another byte follows (15)
          Extra,     \* the largest value of that byte (255)
          Chain,     \* candidates looked at (128, 96)
          Hashes     \* 4096
LzssAssumption == {Group, OffLow, OffHigh, Nibble, Extra, Chain, Hashes} \subseteq Nat \ {0}

MinMatch == 3
Window == OffLow * OffHigh
MaxMatch == MinMatch + Nibble + Extra
ByteAt(data, pos) == data[pos + 1]

\* any hash would do: which candidates it finds decides how well a frame is
\* compressed, never what is in it
lz_hash(data, pos) == (16 * ByteAt(data, pos) + 4 * ByteAt(data, pos + 1) + ByteAt(data, pos + 2)) % Hashes
Chained(data, pos) == {q \in 0 .. pos - 1 : lz_hash(data, q) = lz_hash(data, pos)}
Candidates(data, pos) ==
  {q \in Chained(data, pos) : /\ pos - q <= Window
                              /\ Cardinality({r \in Chained(data, pos) : r > q}) < Chain}
MatchLength(data, pos, q) ==
  Max({0} \cup {n \in 1 .. Min({MaxMatch, Len(data) - pos}) :
                  \A i \in 0 .. n - 1 : ByteAt(data, q + i) = ByteAt(data, pos + i)})
\* the longest match, the nearest of them; a length below MinMatch for none
Best(data, pos) ==
  IF pos + MinMatch > Len(data) \/ Candidates(data, pos) = {} THEN [length |-> 0, from |-> pos]
  ELSE LET length == Max({MatchLength(data, pos, q) : q \in Candidates(data, pos)})
       IN [length |-> length,
           from |-> Max({q \in Candidates(data, pos) : MatchLength(data, pos, q) = length})]

CopyBytes(length, offset) ==
  LET low == (offset - 1) % OffLow
      high == (offset - 1) \div OffLow
  IN IF length >= MinMatch + Nibble
     THEN <<low, Nibble * OffHigh + high, length - (MinMatch + Nibble)>>
     ELSE <<low, (length - MinMatch) * OffHigh + high>>
\* the item at pos: a copy, or a byte as it is
Coded(data, pos) ==
  LET best == Best(data, pos)
  IN IF best.length >= MinMatch
     THEN [flag |-> 1, bytes |-> CopyBytes(best.length, pos - best.from), length |-> best.length]
     ELSE [flag |-> 0, bytes |-> <<ByteAt(data, pos)>>, length |-> 1]
\* a group is open while count items of it are there; weight is the next one's
\* bit in its byte of flags
Opened == [pos |-> 0, out |-> <<>>, flags |-> 0, weight |-> 1, held |-> <<>>, count |-> 0]
Added(e, item) ==
  [pos |-> e.pos + item.length, out |-> e.out, flags |-> e.flags + item.flag * e.weight,
   weight |-> 2 * e.weight, held |-> e.held \o item.bytes, count |-> e.count + 1]
Closed(e) ==
  [pos |-> e.pos, out |-> e.out \o (<<e.flags>> \o e.held), flags |-> 0, weight |-> 1,
   held |-> <<>>, count |-> 0]
Extended(e, data) ==
  LET added == Added(e, Coded(data, e.pos))
  IN IF added.count = Group \/ added.pos = Len(data) THEN Closed(added) ELSE added
lzss_compress(data) ==
  LET Step[k \in 0 .. Len(data)] ==
        IF k = 0 THEN Opened
        ELSE LET e == Step[k - 1]
             IN IF e.pos = Len(data) THEN e ELSE Extended(e, data)
  IN Step[Len(data)].out

(***************************************************************************)
(* Decompression, an item at a time: left counts the flags still to be     *)
(* used of the last byte of flags.                                         *)
(***************************************************************************)
Broken(s) == [s EXCEPT !.ok = FALSE]
Taken(pos, out, flags, left) ==
  [pos |-> pos, out |-> out, flags |-> flags, left |-> left, ok |-> TRUE]
Repeated(out, offset, length, size) ==
  LET Byte[i \in 1 .. Len(out) + length] == IF i <= Len(out) THEN out[i] ELSE Byte[i - offset]
  IN [i \in 1 .. Min({Len(out) + length, size}) |-> Byte[i]]
Item(s, input, size) ==
  IF s.flags % 2 = 0
  THEN IF s.pos >= Len(input) THEN Broken(s)
       ELSE Taken(s.pos + 1, Append(s.out, ByteAt(input, s.pos)), s.flags \div 2, s.left - 1)
  ELSE IF s.pos + 2 > Len(input) THEN Broken(s)
  ELSE LET b0 == ByteAt(input, s.pos)
           b1 == ByteAt(input, s.pos + 1)
           offset == (b1 % OffHigh) * OffLow + b0 + 1
           long == b1 \div OffHigh = Nibble
       IN IF long /\ s.pos + 2 >= Len(input) THEN Broken(s)
          ELSE LET length == IF long THEN MinMatch + Nibble + ByteAt(input, s.pos + 2)
                             ELSE b1 \div OffHigh + MinMatch
               IN IF offset > Len(s.out) THEN Broken(s)
                  ELSE Taken(s.pos + (IF long THEN 3 ELSE 2), Repeated(s.out, offset, length, size),
                             s.flags \div 2, s.left - 1)
lzss_decompress(input, size) ==
  LET Step[i \in 0 .. 2 * Len(input)] ==
        IF i = 0 THEN Taken(0, <<>>, 0, 0)
        ELSE LET s == Step[i - 1]
             IN IF ~s.ok \/ Len(s.out) = size THEN s
                ELSE IF s.left > 0 THEN Item(s, input, size)
                ELSE IF s.pos >= Len(input) THEN s
                ELSE Taken(s.pos + 1, s.out, ByteAt(input, s.pos), Group)
      end == Step[2 * Len(input)]
  IN [ok |-> end.ok /\ end.pos = Len(input) /\ Len(end.out) = size, out |-> end.out]
=============================================================================
