------------------------------ MODULE Inflate ------------------------------
(***************************************************************************)
(* The decompressor stage 2 of the boot loader goes through: gzip and      *)
(* deflate as decompressor/gzip reads them, as functions from a sequence   *)
(* of bytes to the bytes they stand for.                                   *)
(*                                                                         *)
(* The reader's state is [pos, over, out, ok]: bits read, whether it read  *)
(* past the end, the bytes written, and whether no error was returned. The *)
(* program's tag and bitcount hold the bits of the byte that pos is in.    *)
(***************************************************************************)
EXTENDS Integers, Sequences, SequencesExt

Start == [pos |-> 0, over |-> FALSE, out |-> <<>>, ok |-> TRUE]
Fail(s) == [s EXCEPT !.ok = FALSE]

\* tinf_refill: past the end the bits are zero, and remembered as an overflow.
Bit(src, p) ==
    IF p \div 8 < Len(src) THEN (src[p \div 8 + 1] \div 2^(p % 8)) % 2 ELSE 0

Skip(src, s, n) ==
    [s EXCEPT !.pos = @ + n, !.over = @ \/ s.pos + n > 8 * Len(src)]

\* tinf_getbits and tinf_getbits_base, least significant bit first
Bits(src, s, n, base) ==
    base + FoldLeft(LAMBDA v, i: v + Bit(src, s.pos + i - 1) * 2^(i - 1), 0,
                    [i \in 1 .. n |-> i])

-----------------------------------------------------------------------------
(* Trees: how many codes each length has, and the symbols in code order *)

Symbols(lengths, l) ==
    SelectSeq([i \in DOMAIN lengths |-> i - 1], LAMBDA y: lengths[y + 1] = l)

InCodeOrder(lengths) ==
    FlattenSeq([l \in 1 .. 15 |-> Symbols(lengths, l)])

\* tinf_build_tree: with a single code, a second one is added that stands for no
\* symbol.
Tree(lengths) ==
    LET symbols == InCodeOrder(lengths)
        counts  == [l \in 0 .. 15 |-> IF l = 0 THEN 0 ELSE Len(Symbols(lengths, l))]
        max     == FoldLeft(LAMBDA a, y: IF y > a THEN y ELSE a, -1, symbols)
    IN  IF Len(symbols) = 1
        THEN [counts |-> [counts EXCEPT ![1] = 2], symbols |-> Append(symbols, max + 1),
              max |-> max]
        ELSE [counts |-> counts, symbols |-> symbols, max |-> max]

\* The codes left at each length, one more than the longest: none may be missing
\* on the way, and with more than one code none left over at the end.
IsTree(lengths) ==
    LET count[l \in 0 .. 15] == IF l = 0 THEN 0 ELSE Len(Symbols(lengths, l))
        available[l \in 0 .. 16] ==
            IF l = 0 THEN 1 ELSE 2 * (available[l - 1] - count[l - 1])
        codes == Len(InCodeOrder(lengths))
    IN  /\ \A l \in 0 .. 15: count[l] <= available[l]
        /\ codes > 1 => available[16] = 0
        /\ codes = 1 => count[1] = 1

FixedLengths ==
    [i \in 1 .. 288 |-> CASE i <= 144 -> 8 [] i \in 145 .. 256 -> 9
                          [] i \in 257 .. 280 -> 7 [] OTHER -> 8]

\* tinf_build_fixed_trees: filled in as they come out of the lengths, but for the
\* greatest symbol, which leaves out the two that mean nothing.
FixedLiterals == [Tree(FixedLengths) EXCEPT !.max = 285]
FixedDistances ==
    [counts |-> [l \in 0 .. 15 |-> IF l = 5 THEN 32 ELSE 0],
     symbols |-> [i \in 1 .. 32 |-> i - 1], max |-> 29]

\* tinf_decode_symbol: a bit longer, until the code is one of that length
RECURSIVE Walk(_, _, _, _, _, _)
Walk(src, t, s, len, base, offs) ==
    LET o == 2 * offs + Bit(src, s.pos)
        n == Skip(src, s, 1)
    IN  IF o < t.counts[len] THEN [symbol |-> t.symbols[base + o + 1], next |-> n]
        ELSE Walk(src, t, n, len + 1, base + t.counts[len], o - t.counts[len])

Decode(src, s, t) == Walk(src, t, s, 1, 0, 0)

-----------------------------------------------------------------------------
(* Blocks *)

LengthBits == <<0, 0, 0, 0, 0, 0, 0, 0, 1, 1, 1, 1, 2, 2, 2, 2, 3, 3, 3, 3,
                4, 4, 4, 4, 5, 5, 5, 5, 0, 127>>
LengthBase == <<3, 4, 5, 6, 7, 8, 9, 10, 11, 13, 15, 17, 19, 23, 27, 31, 35, 43, 51, 59,
                67, 83, 99, 115, 131, 163, 195, 227, 258, 0>>
DistBits == [i \in 1 .. 30 |-> IF i <= 2 THEN 0 ELSE (i - 3) \div 2]
DistBase[i \in 1 .. 30] == IF i = 1 THEN 1 ELSE DistBase[i - 1] + 2^DistBits[i - 1]

\* Byte by byte, so that a match may run into what it has just written
RECURSIVE Copy(_, _, _)
Copy(out, length, offs) ==
    IF length = 0 THEN out
    ELSE Copy(Append(out, out[Len(out) + 1 - offs]), length - 1, offs)

\* tinf_inflate_block_data, after the distance symbol d of a match
CopyBack(src, dt, length, d) ==
    LET offs == Bits(src, d.next, DistBits[d.symbol + 1], DistBase[d.symbol + 1])
    IN  IF d.symbol > dt.max \/ d.symbol > 29 \/ offs > Len(d.next.out) THEN Fail(d.next)
        ELSE [Skip(src, d.next, DistBits[d.symbol + 1])
                 EXCEPT !.out = Copy(d.next.out, length, offs)]

\* the same, from a length symbol on: n is after the symbol
Match(src, lt, dt, symbol, n) ==
    IF symbol > lt.max \/ symbol - 257 > 28 \/ dt.max = -1 THEN Fail(n)
    ELSE CopyBack(src, dt, Bits(src, n, LengthBits[symbol - 256], LengthBase[symbol - 256]),
                  Decode(src, Skip(src, n, LengthBits[symbol - 256]), dt))

\* tinf_inflate_block_data: symbol after symbol, d the next one
RECURSIVE Data(_, _, _, _)
RECURSIVE Symbol(_, _, _, _)
Data(src, s, lt, dt) == IF s.ok THEN Symbol(src, Decode(src, s, lt), lt, dt) ELSE s
Symbol(src, d, lt, dt) ==
    CASE d.next.over -> Fail(d.next)
      [] ~ d.next.over /\ d.symbol < 256 ->
             Data(src, [d.next EXCEPT !.out = Append(@, d.symbol)], lt, dt)
      [] ~ d.next.over /\ d.symbol = 256 -> d.next
      [] OTHER -> Data(src, Match(src, lt, dt, d.symbol, d.next), lt, dt)

\* tinf_inflate_uncompressed_block: from the next whole byte on. The length and
\* its complement are read as single bytes, and compared as numbers of 16 bits.
Stored(src, s) ==
    LET at     == (s.pos + 7) \div 8
        length == src[at + 1]
    IN  IF \/ Len(src) - at < 4
           \/ length # 65535 - src[at + 3]
           \/ Len(src) - (at + 4) < length
        THEN Fail(s)
        ELSE [s EXCEPT !.pos = 8 * (at + 4 + length),
                       !.out = @ \o SubSeq(src, at + 5, at + 4 + length)]

\* tinf_decode_trees: the code lengths from what is read so far, up to num
Order == <<16, 17, 18, 0, 8, 7, 9, 6, 10, 5, 11, 4, 12, 3, 13, 2, 14, 1, 15>>

\* Mutant: the long run of zeros starts where the short one does.
RepeatShort(symbol) ==
    CASE symbol = 16 -> [bits |-> 2, base |-> 3]
      [] symbol = 17 -> [bits |-> 3, base |-> 3]
      [] symbol = 18 -> [bits |-> 7, base |-> 3]
      [] OTHER -> [bits |-> 0, base |-> 1]

\* How often a symbol of the code lengths repeats: base and extra bits
Repeat(symbol) ==
    CASE symbol = 16 -> [bits |-> 2, base |-> 3]
      [] symbol = 17 -> [bits |-> 3, base |-> 3]
      [] symbol = 18 -> [bits |-> 7, base |-> 11]
      [] OTHER -> [bits |-> 0, base |-> 1]

RECURSIVE Lengths(_, _, _, _, _)
RECURSIVE Longer(_, _, _, _, _)
Lengths(src, s, t, num, lengths) ==
    IF Len(lengths) = num THEN [next |-> s, lengths |-> lengths]
    ELSE Longer(src, Decode(src, s, t), t, num, lengths)
Longer(src, d, t, num, lengths) ==
    LET n == Bits(src, d.next, Repeat(d.symbol).bits, Repeat(d.symbol).base)
        l == CASE d.symbol = 16 /\ lengths # <<>> -> Last(lengths)
               [] d.symbol \in {17, 18} -> 0
               [] OTHER -> d.symbol
    IN  IF \/ d.symbol > t.max
           \/ d.symbol = 16 /\ lengths = <<>>
           \/ n > num - Len(lengths)
        THEN [next |-> Fail(d.next), lengths |-> lengths]
        ELSE Lengths(src, Skip(src, d.next, Repeat(d.symbol).bits), t, num,
                     lengths \o [i \in 1 .. n |-> l])

\* The block itself, with the trees for its two alphabets, if the lengths read for
\* them make trees
WithTrees(src, next, lits, dists) ==
    IF ~ next.ok THEN next
    ELSE IF lits[257] = 0 \/ ~ IsTree(lits) \/ ~ IsTree(dists) THEN Fail(next)
    ELSE Data(src, next, Tree(lits), Tree(dists))

Split(src, read, hlit) ==
    WithTrees(src, read.next, SubSeq(read.lengths, 1, hlit),
              SubSeq(read.lengths, hlit + 1, Len(read.lengths)))

AfterLengths(src, s, hlit, hdist, clen) ==
    IF hlit > 286 \/ hdist > 30 \/ ~ IsTree(clen) THEN Fail(s)
    ELSE IF \A y \in DOMAIN clen: clen[y] = 0 THEN Fail(s)
    ELSE Split(src, Lengths(src, s, Tree(clen), hlit + hdist, <<>>), hlit)

\* tinf_inflate_dynamic_block
Dynamic(src, s) ==
    LET hclen == Bits(src, Skip(src, s, 10), 4, 4)
        first == Skip(src, s, 14)
        At(y) == CHOOSE i \in 1 .. 19: Order[i] = y - 1
    IN  AfterLengths(src, Skip(src, first, 3 * hclen), Bits(src, s, 5, 257), Bits(src, Skip(src, s, 5), 5, 1),
            [y \in 1 .. 19 |-> IF At(y) <= hclen THEN Bits(src, Skip(src, first, 3 * (At(y) - 1)), 3, 0) ELSE 0])

\* tinf_uncompress: block after block, to the final one
OneBlock(src, type, n) ==
    CASE type = 0 -> Stored(src, n)
      [] type = 1 -> Data(src, n, FixedLiterals, FixedDistances)
      [] type = 2 -> Dynamic(src, n)
      [] OTHER -> Fail(n)

RECURSIVE Blocks(_, _)
RECURSIVE Further(_, _, _)
Blocks(src, s) ==
    Further(src, Bits(src, s, 1, 0), OneBlock(src, Bits(src, Skip(src, s, 1), 2, 0), Skip(src, s, 3)))
Further(src, final, after) ==
    IF ~ after.ok \/ final = 1 THEN after ELSE Blocks(src, after)

Uncompress(src) ==
    LET s == Blocks(src, Start) IN IF s.over THEN Fail(s) ELSE s

-----------------------------------------------------------------------------
(* tinf_gzip_uncompress. A header is the ten bytes, with its flags as a set, *)
(* and the optional fields the flags announce.                              *)

\* Just after the string that starts at byte p (counted from zero), if it ends
RECURSIVE AfterString(_, _)
AfterString(src, p) ==
    IF p >= Len(src) THEN -1 ELSE IF src[p + 1] = 0 THEN p + 1 ELSE AfterString(src, p + 1)

Flag(src, b) == (src[4] \div b) % 2 = 1

\* Where the deflate data starts, or -1. The length of the extra field is read
\* from its first byte.
DataStart(src) ==
    LET extra   == IF Flag(src, 4)
                   THEN IF src[11] > Len(src) - 12 THEN -1 ELSE 12 + src[11]
                   ELSE 10
        name    == IF Flag(src, 8) /\ extra # -1 THEN AfterString(src, extra) ELSE extra
        comment == IF Flag(src, 16) /\ name # -1 THEN AfterString(src, name) ELSE name
    IN  IF Flag(src, 2) /\ comment # -1 THEN comment + 2 ELSE comment

Gunzip(src) ==
    IF \/ Len(src) < 18
       \/ <<src[1], src[2], src[3]>> # <<31, 139, 8>>
       \/ src[4] \div 32 # 0
       \/ DataStart(src) = -1
       \/ Len(src) - DataStart(src) < 8
    THEN Fail(Start)
    ELSE Uncompress(SubSeq(src, DataStart(src) + 1, Len(src) - 8))
=============================================================================
