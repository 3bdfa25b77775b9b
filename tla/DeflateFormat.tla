---------------------------- MODULE DeflateFormat ----------------------------
(***************************************************************************)
(* What a compressor writes: the format of gzip and deflate, from its      *)
(* definition (canonical codes, length and distance symbols in closed      *)
(* form), to hold the decompressor against.                                *)
(*                                                                         *)
(* A block is [coding, tokens]; a token is <<byte>> or <<length, distance>>. *)
(***************************************************************************)
EXTENDS Integers, Sequences, SequencesExt, FiniteSetsExt, TLC

\* Numbers go out least significant bit first, codes most significant first.
Number(v, n) == [i \in 1 .. n |-> (v \div 2^(i - 1)) % 2]

\* The code of symbol y: after every shorter code, and those of its length for
\* smaller symbols. lengths maps the symbols that have a code to its length.
CodeOf(lengths, y) ==
    LET before == {z \in DOMAIN lengths: \/ lengths[z] < lengths[y]
                                         \/ lengths[z] = lengths[y] /\ z < y}
        code   == FoldSet(LAMBDA z, sum: sum + 2^(lengths[y] - lengths[z]), 0, before)
    IN  Reverse(Number(code, lengths[y]))

\* The symbol, the number of extra bits and the smallest value of a length
LengthBaseOf(c) == IF c <= 264 THEN c - 254 ELSE 3 + (4 + ((c - 265) % 4)) * 2^((c - 261) \div 4)
LengthSymbol(n) == IF n = 258 THEN 285 ELSE Max({c \in 257 .. 284: LengthBaseOf(c) <= n})
LengthExtra(n) ==
    LET c == LengthSymbol(n)
    IN  IF c \in 265 .. 284 THEN Number(n - LengthBaseOf(c), (c - 261) \div 4) ELSE <<>>

DistBaseOf(c) == IF c <= 3 THEN c + 1 ELSE 1 + (2 + (c % 2)) * 2^((c - 2) \div 2)
DistSymbol(n) == Max({c \in 0 .. 29: DistBaseOf(c) <= n})
DistExtra(n) ==
    LET c == DistSymbol(n)
    IN  IF c <= 3 THEN <<>> ELSE Number(n - DistBaseOf(c), (c - 2) \div 2)

-----------------------------------------------------------------------------
(* Codings: the fixed one, one with a single distance, and one with the     *)
(* repetitions of code lengths.                                             *)

Lits(coding) ==
    CASE coding = "one distance" -> (0 :> 2 @@ 1 :> 2 @@ 256 :> 2 @@ 257 :> 3 @@ 258 :> 3)
      [] coding = "repeats" ->
            (0 :> 3 @@ 1 :> 3 @@ 2 :> 3 @@ 3 :> 3 @@ 256 :> 2 @@ 257 :> 3 @@ 265 :> 3)
      [] OTHER -> [y \in 0 .. 287 |-> CASE y <= 143 -> 8 [] y \in 144 .. 255 -> 9
                                        [] y \in 256 .. 279 -> 7 [] OTHER -> 8]

Dists(coding) ==
    CASE coding = "one distance" -> (0 :> 1)
      [] coding = "repeats" -> (0 :> 1 @@ 4 :> 1)
      [] OTHER -> [y \in 0 .. 31 |-> 5]

\* The lengths of the two codes above, as symbols with the value of their extra
\* bits, and what a dynamic block says before them.
Announced(coding) ==
    IF coding = "one distance"
    THEN <<<<2, 0>>, <<2, 0>>, <<18, 127>>, <<18, 105>>, <<2, 0>>, <<3, 0>>, <<3, 0>>, <<1, 0>>>>
    ELSE <<<<3, 0>>, <<16, 0>>, <<18, 127>>, <<18, 103>>, <<2, 0>>, <<3, 0>>, <<17, 4>>,
           <<3, 0>>, <<1, 0>>, <<17, 0>>, <<1, 0>>>>

ClenLengths == (1 :> 3 @@ 2 :> 3 @@ 3 :> 3 @@ 16 :> 3 @@ 17 :> 2 @@ 18 :> 2)
ClenOrder == <<16, 17, 18, 0, 8, 7, 9, 6, 10, 5, 11, 4, 12, 3, 13, 2, 14, 1>>
ExtraBits(y) == CASE y = 16 -> 2 [] y = 17 -> 3 [] y = 18 -> 7 [] OTHER -> 0

DynamicHeader(coding) ==
    (IF coding = "one distance" THEN Number(2, 5) \o Number(0, 5)
     ELSE Number(9, 5) \o Number(4, 5))
        \o Number(Len(ClenOrder) - 4, 4)
        \o FlattenSeq([i \in DOMAIN ClenOrder |->
               Number(IF ClenOrder[i] \in DOMAIN ClenLengths THEN ClenLengths[ClenOrder[i]] ELSE 0, 3)])
        \o FlattenSeq([i \in DOMAIN Announced(coding) |->
               CodeOf(ClenLengths, Announced(coding)[i][1])
                   \o Number(Announced(coding)[i][2], ExtraBits(Announced(coding)[i][1]))])

TokenBits(coding, t) ==
    IF Len(t) = 1 THEN CodeOf(Lits(coding), t[1])
    ELSE CodeOf(Lits(coding), LengthSymbol(t[1])) \o LengthExtra(t[1])
             \o CodeOf(Dists(coding), DistSymbol(t[2])) \o DistExtra(t[2])

\* A block after the bits before it: a stored one starts on a whole byte.
BlockBits(before, block, final) ==
    LET type == CASE block.coding = "stored" -> 0 [] block.coding = "fixed" -> 1 [] OTHER -> 2
        head == before \o Number(IF final THEN 1 ELSE 0, 1) \o Number(type, 2)
        pad  == [i \in 1 .. ((8 - (Len(head) % 8)) % 8) |-> 0]
        n    == Len(block.tokens)
        Coded == FlattenSeq([i \in 1 .. n |-> TokenBits(block.coding, block.tokens[i])])
                     \o CodeOf(Lits(block.coding), 256)
    IN  CASE type = 0 -> head \o pad \o Number(n, 16) \o Number(65535 - n, 16)
                             \o FlattenSeq([i \in 1 .. n |-> Number(block.tokens[i][1], 8)])
          [] type = 1 -> head \o Coded
          [] OTHER -> head \o DynamicHeader(block.coding) \o Coded

Deflated(blocks) ==
    LET bits == FoldLeft(LAMBDA b, i: BlockBits(b, blocks[i], i = Len(blocks)), <<>>,
                         [i \in DOMAIN blocks |-> i])
        At(p) == IF p <= Len(bits) THEN bits[p] ELSE 0
    IN  [k \in 1 .. ((Len(bits) + 7) \div 8) |->
            FoldLeft(LAMBDA v, i: v + At(8 * (k - 1) + i) * 2^(i - 1), 0, <<1, 2, 3, 4, 5, 6, 7, 8>>)]

\* With the optional fields that flags announces: 2 a checksum of the header, 4 an
\* extra field, 8 a name, 16 a comment. The trailer is not looked at.
Gzipped(blocks, flags) ==
    LET On(b) == (flags \div b) % 2 = 1
    IN  <<31, 139, 8, flags, 0, 0, 0, 0, 0, 3>>
            \o (IF On(4) THEN <<2, 0, 9, 0>> ELSE <<>>)
            \o (IF On(8) THEN <<7, 7, 0>> ELSE <<>>)
            \o (IF On(16) THEN <<5, 0>> ELSE <<>>)
            \o (IF On(2) THEN <<1, 2>> ELSE <<>>)
            \o Deflated(blocks) \o [i \in 1 .. 8 |-> 77]

-----------------------------------------------------------------------------
(* What the blocks stand for: a match repeats what is distance bytes back.  *)

Tokens(blocks) == FlattenSeq([i \in DOMAIN blocks |-> blocks[i].tokens])

Expand(out, t) ==
    IF Len(t) = 1 THEN out \o t
    ELSE out \o [k \in 1 .. t[1] |-> out[Len(out) - t[2] + 1 + ((k - 1) % t[2])]]

\* Every match is about bytes that are there.
Meaningful(blocks) ==
    \A i \in DOMAIN Tokens(blocks):
        Len(Tokens(blocks)[i]) = 2 =>
            Tokens(blocks)[i][2] <=
                FoldLeft(LAMBDA n, t: n + IF Len(t) = 1 THEN 1 ELSE t[1], 0,
                         SubSeq(Tokens(blocks), 1, i - 1))

Expansion(blocks) == FoldLeft(Expand, <<>>, Tokens(blocks))
=============================================================================
