------------------------------- MODULE BitBlt -------------------------------
(* BITBLT and COLORBLT: a rectangle of pixels of one bit each, or a pattern *)
(* brick, combined pixel by pixel into another rectangle.                   *)
(*                                                                          *)
(* A pixel address is the number of its bit in memory: the word and the     *)
(* pixel of the C++ Address in one number, so that Bump is an addition.     *)
EXTENDS Machine
LOCAL INSTANCE SequencesExt

CONSTANTS
    BltTables,    \* the argument tables an operand can point to
    TableAlign,   \* argument tables lie at multiples of it: 16 in the machine
    Display       \* the words of display memory

(* The argument table: addresses, pixels per line of source (negative when  *)
(* it is read upward) and destination, size, flags, and the brick's size.   *)
DstFunc == {"src", "srcIfDstLE1", "srcIf0", "srcIfDstNot0", "srcIfNot0", "srcIfDst0",
            "pixelXor", "srcXorDst"} \cup {"null", "and", "or", "xor"}
ColorBltTable ==
    [dst : Nat, dstPpl : Int, src : Nat, srcPpl : Int, width : Nat, height : Nat,
     backward : BOOLEAN, srcDisplay : BOOLEAN, dstDisplay : BOOLEAN, pattern : BOOLEAN,
     complement : BOOLEAN, dstFunc : DstFunc, unpacked : BOOLEAN, yOffset : Nat,
     widthMinusOne : Nat, heightMinusOne : Nat]
ASSUME BltAssumption ==
    /\ TableAlign \in Nat \ {0} /\ Display \subseteq Nat
    /\ \A i \in DOMAIN BltTables : BltTables[i] \in ColorBltTable

(* The words of the table lie in one page, being aligned: one Fetch finds   *)
(* them all.  BITBLT's functions and flags in terms of COLORBLT's.          *)
FetchBltTable(m, ptr) ==
    LET f == FetchMds(m, ptr)
    IN IF Stopped(m) THEN m ELSE IF ptr % TableAlign # 0 THEN Stop(m, "ERROR") ELSE f
FromBitBlt(t) ==
    [t EXCEPT !.unpacked = TRUE,
              !.srcDisplay = t.src \div WordBits \in Display,
              !.dstDisplay = t.dst \div WordBits \in Display,
              !.dstFunc = CASE @ = "null" -> "src" [] @ = "and" -> "srcIfDstNot0"
                            [] @ = "or" -> "srcIfDst0" [] @ = "xor" -> "srcXorDst"]

(* display words are kept with their bytes swapped *)
Shown(w, display) == IF display THEN RightByte(w) * Byte + LeftByte(w) ELSE w
Shift(a) == WordBits - 1 - (a % WordBits)

(* A cache of one word: the address last read, the address last asked for   *)
(* with Store, and the word.  b[c] is the source's or the destination's.    *)
NoWord == [read |-> 0, write |-> 0, word |-> 0]
Cached(b, c, m, w, write) ==
    [b EXCEPT !.m = m, ![c] = [read |-> w, write |-> write, word |-> m.v]]
CacheRead(b, c, w) ==
    IF Stopped(b.m) THEN b
    ELSE IF w = b[c].read THEN [b EXCEPT !.m.v = b[c].word]
    ELSE Cached(b, c, Fetch(b.m, w), w, 0)
CacheWrite(b, w) ==
    IF Stopped(b.m) THEN b
    ELSE IF w = b.d.write THEN [b EXCEPT !.m.v = b.d.word]
    ELSE Cached(b, "d", Store(b.m, w), w, w)

PixelOf(b, a, display, unpacked) ==
    LET w == IF unpacked /\ b.m.v # 0 THEN W - 1 ELSE b.m.v
    IN IF Stopped(b.m) THEN b ELSE [b EXCEPT !.m.v = Bit(Shown(w, display), Shift(a))]
ReadPixel(b, c, a, display, unpacked) ==
    PixelOf(CacheRead(b, c, a \div WordBits), a, display, unpacked)
PutWord(b, w, word) ==
    IF Stopped(b.m) THEN b ELSE [b EXCEPT !.m = Put(@, w, word), !.d.word = word]
PutPixel(b, a, display, new) ==
    LET old == Shown(b.m.v, display)
        bit == Bit(old, Shift(a))
    IN PutWord(b, a \div WordBits, Shown(old + (new[bit] - bit) * 2 ^ Shift(a), display))
(* the pixel at a becomes new[what it was] *)
WritePixel(b, a, display, new) ==
    PutPixel(CacheWrite(b, a \div WordBits), a, display, new)

(* source pixel p and destination pixel d combined *)
Function_mono(t, p, d) ==
    LET s == IF t.complement THEN 1 - p ELSE p
    IN CASE t.dstFunc = "src" -> s
         [] t.dstFunc \in {"srcIfDstLE1", "srcIf0", "srcIfDstNot0"} -> d * s
         [] t.dstFunc \in {"srcIfNot0", "srcIfDst0"} -> IF d + s = 0 THEN 0 ELSE 1
         [] t.dstFunc \in {"pixelXor", "srcXorDst"} -> (d + s) % 2

(* a brick of one word is a constant, of which some need no source at all *)
Kind(t, word) ==
    LET plain == ~t.complement
    IN CASE ~t.pattern -> "bit"
         [] t.pattern /\ (t.heightMinusOne # 0 \/ t.widthMinusOne # 0) -> "pat"
         [] OTHER -> CASE plain /\ word = 0 /\ t.dstFunc = "src" -> "pat_0000_src"
                       [] plain /\ word = W - 1 /\ t.dstFunc = "src" -> "pat_ffff_src"
                       [] plain /\ word = W - 1 /\ t.dstFunc = "srcXorDst" -> "pat_ffff_xor"
                       [] OTHER -> "pat_word"
(* what the constructors refuse; sizes above 32767 are beyond the tables *)
Refused(t, kind) ==
    IF kind = "bit" THEN t.srcPpl < 0 \/ t.dstPpl < 0
    ELSE \/ t.dstPpl <= 0 \/ t.widthMinusOne # 0 \/ t.backward
         \/ kind # "pat" /\ t.yOffset # 0
         \/ kind = "pat_word" /\ t.src % WordBits # 0

(* the source pixel of column i *)
Source(b, t, kind, word, i) ==
    LET gray == (t.widthMinusOne + 1) * WordBits
        pixel == b.src % WordBits
    IN CASE kind = "bit" -> ReadPixel(b, "s", b.src + i, t.srcDisplay, FALSE)
         [] kind = "pat" -> ReadPixel(b, "s", b.src - pixel + ((i + pixel) % gray),
                                      t.srcDisplay, t.unpacked)
         [] OTHER -> [b EXCEPT !.m.v = Bit(word, Shift(i))]
WriteAt(b, t, i, new) == WritePixel(b, b.dst + i, t.dstDisplay, new)
Always(pixel) == [x \in 0 .. 1 |-> pixel]
WriteV(b, t, i, p) == WriteAt(b, t, i, Always(Function_mono(t, p, b.m.v)))
Combine(b, t, i) == WriteV(ReadPixel(b, "d", b.dst + i, t.dstDisplay, FALSE), t, i, b.m.v)
BitBltItem(b, t, kind, word, i) ==
    CASE kind = "pat_0000_src" -> WriteAt(b, t, i, Always(0))
      [] kind = "pat_ffff_src" -> WriteAt(b, t, i, Always(1))
      [] kind = "pat_ffff_xor" -> WriteAt(b, t, i, [x \in 0 .. 1 |-> 1 - x])
      [] OTHER -> Combine(Source(b, t, kind, word, i), t, i)

(* on to the next line *)
NextLine(b, t, kind, line) ==
    LET way == IF t.backward THEN -1 ELSE 1
        gray == (t.widthMinusOne + 1) * WordBits
        source == CASE kind = "bit" -> way * t.srcPpl
                    [] kind = "pat" ->
                        IF line % (t.heightMinusOne + 1) = t.heightMinusOne - t.yOffset
                        THEN -gray * t.heightMinusOne ELSE gray
                    [] OTHER -> 0
    IN [b EXCEPT !.src = @ + source, !.dst = @ + way * t.dstPpl]

\* Mutant: the columns go left to right always.
BitBltLineForward(b, t, kind, word, line) ==
    NextLine(FoldLeft(LAMBDA x, i : BitBltItem(x, t, kind, word, i), b,
                      [i \in 1 .. t.width |-> i - 1]), t, kind, line)

(* one line, left to right or right to left *)
BitBltLine(b, t, kind, word, line) ==
    NextLine(FoldLeft(LAMBDA x, i : BitBltItem(x, t, kind, word, i), b,
                      [i \in 1 .. t.width |-> IF t.backward THEN t.width - i ELSE i - 1]),
             t, kind, line)

Lines(m, t, kind, word) ==
    IF Stopped(m) THEN m
    ELSE IF Refused(t, kind) THEN Stop(m, "ERROR")
    ELSE FoldLeft(LAMBDA b, line : BitBltLine(b, t, kind, word, line),
                  [m |-> m, s |-> NoWord, d |-> NoWord, src |-> t.src, dst |-> t.dst],
                  [l \in 1 .. t.height |-> l - 1]).m
Process(m, t) ==
    LET first == IF Kind(t, 1) \in {"bit", "pat"} THEN m ELSE Fetch(m, t.src \div WordBits)
        word == IF t.unpacked /\ first.v # 0 THEN W - 1 ELSE first.v
    IN Lines(first, t, Kind(t, word), word)

Blt(m, t) ==
    LET p == Pop(m) IN IF m.sp # 1 THEN Stop(m, "ERROR") ELSE Process(FetchBltTable(p, p.v), t)
E_COLORBLT(m, i) == Blt(m, BltTables[i])
E_BITBLT(m, i) == Blt(m, FromBitBlt(BltTables[i]))
=============================================================================
