------------------------------ MODULE Machine ------------------------------
(* What an opcode sees of the processor: the evaluation stack, the program  *)
(* counter and paged memory, kept in one record m so that an opcode is a    *)
(* chain of operators, each taking the machine the previous one left.       *)
(*                                                                          *)
(* Every operator leaves the value it read in m.v.  Once m.stop is not      *)
(* "run" (a page fault, a trap, an ERROR) the rest of the chain does        *)
(* nothing: the C++ code throws Abort at that point.                        *)
EXTENDS Integers, Sequences
LOCAL INSTANCE FiniteSetsExt

CONSTANTS
    WordBits,     \* bits of a word: 16 in the machine
    PageSize,     \* words of a page: 256 in the machine
    StackDepth,   \* cells of the evaluation stack: 14 in the machine
    MemSize,      \* words of virtual memory
    MDS, CB, GF, LF  \* main data space, code base, global and local frame

W == 2 ^ WordBits               \* values of a word
WW == W * W                     \* values of a long word
Byte == 2 ^ (WordBits \div 2)   \* values of a byte
Nibble == 2 ^ (WordBits \div 4) \* values of a nibble
Word == 0 .. W - 1

ASSUME MachineAssumption ==
    /\ WordBits % 4 = 0 /\ PageSize \in Nat \ {0} /\ StackDepth \in Nat \ {0}
    /\ MemSize % PageSize = 0 /\ {MDS, CB, GF} \subseteq 0 .. MemSize - 1
    /\ LF \in Word

Address == 0 .. MemSize - 1
PageOf(a) == a \div PageSize
Pages == {PageOf(a) : a \in Address}

Registers == {"PSB", "MDS", "WP", "WDC", "PTC", "XTS", "MP", "IT"}

MachineType ==
    [stack : [0 .. StackDepth - 1 -> Word], sp : 0 .. StackDepth,
     savedSP : 0 .. StackDepth, pc : Word, savedPC : Word,
     mem : [Address -> Word], present : SUBSET Pages, dirty : SUBSET Pages,
     brk : 0 .. 1, reg : [Registers -> Word], stop : STRING, page : Int, v : Int]

Stopped(m) == m.stop # "run"
Stop(m, why) == IF Stopped(m) THEN m ELSE [m EXCEPT !.stop = why]
StopIf(m, bad, why) == IF bad THEN Stop(m, why) ELSE m
(* next, unless the machine has stopped or bad stops it for the reason why *)
Unless(m, bad, why, next) ==
    IF Stopped(m) THEN m ELSE IF bad THEN [m EXCEPT !.stop = why] ELSE next

---------------------------------------------------------------------------
(* words *)
Low(x) == x % W
High(x) == (x \div W) % W
Long(low, high) == low + W * high
LeftByte(w) == w \div Byte
RightByte(w) == w % Byte
LeftNibble(b) == b \div Nibble
RightNibble(b) == b % Nibble
Signed(x, n) == IF x % n < n \div 2 THEN x % n ELSE (x % n) - n
Int16(w) == Signed(w, W)
Int32(x) == Signed(x, WW)
SignExtend(b) == Signed(b, Byte)
Bit(x, i) == (x \div 2 ^ i) % 2
(* n bits of x and y combined one by one *)
Bitwise(op(_, _), x, y, n) ==
    MapThenSumSet(LAMBDA i : op(Bit(x, i), Bit(y, i)) * 2 ^ i, 0 .. n - 1)
And(x, y, n) == Bitwise(LAMBDA a, b : a * b, x, y, n)
Ior(x, y, n) == Bitwise(LAMBDA a, b : IF a + b = 0 THEN 0 ELSE 1, x, y, n)
Xor(x, y, n) == Bitwise(LAMBDA a, b : (a + b) % 2, x, y, n)

---------------------------------------------------------------------------
(* the evaluation stack *)
Pop(m) == Unless(m, m.sp = 0, "StackError",
                 [m EXCEPT !.sp = @ - 1, !.v = m.stack[m.sp - 1]])
PopLong(m) == Unless(m, m.sp <= 1, "StackError",
    [m EXCEPT !.sp = @ - 2, !.v = Long(m.stack[m.sp - 2], m.stack[m.sp - 1])])
Push(m, x) == Unless(m, m.sp = StackDepth, "StackError",
                     [m EXCEPT !.stack[m.sp] = x % W, !.sp = @ + 1])
PushLong(m, x) == Unless(m, m.sp >= StackDepth - 1, "StackError",
    [m EXCEPT !.stack = [@ EXCEPT ![m.sp] = Low(x), ![m.sp + 1] = High(x)],
              !.sp = @ + 2])
Push2(m, x) == Push(Push(m, Low(x)), High(x))
(* what was just read is pushed *)
PushV(m) == Push(m, m.v)
Push2V(m) == Push2(m, m.v)
PushLongV(m) == PushLong(m, m.v)
Recover(m) == Unless(m, m.sp = StackDepth, "StackError", [m EXCEPT !.sp = @ + 1])
Discard(m) == Unless(m, m.sp = 0, "StackError", [m EXCEPT !.sp = @ - 1])
(* SP++ n times, unchecked: the cells were popped in the same opcode *)
Unpop(m, n) == IF Stopped(m) THEN m ELSE [m EXCEPT !.sp = @ + n]
(* the cell d below the top is replaced in place *)
SetCell(m, d, x) == Unless(m, m.sp < d, "StackError", [m EXCEPT !.stack[m.sp - d] = x % W])

---------------------------------------------------------------------------
(* virtual memory; an address is taken as the code computes it *)
TouchWord(m, a, write) ==
    IF Stopped(m) THEN m
    ELSE IF PageOf(a) \notin m.present THEN [m EXCEPT !.stop = "PageFault", !.page = PageOf(a)]
    ELSE [m EXCEPT !.v = m.mem[a], !.dirty = IF write THEN @ \cup {PageOf(a)} ELSE @]
Touch(m, a, write) == TouchWord(m, a % WW, write)
Fetch(m, a) == Touch(m, a, FALSE)
Store(m, a) == Touch(m, a, TRUE)
(* *p = x, p being what Fetch or Store returned for a *)
Put(m, a, x) == IF Stopped(m) THEN m ELSE [m EXCEPT !.mem[a % WW] = x % W]
PutV(m, a) == Put(m, a, m.v)
PopTo(m, a) == PutV(Pop(m), a)

LengthenPointer(p) == MDS + (p % W)
FetchMds(m, p) == Fetch(m, LengthenPointer(p))
StoreMds(m, p) == Store(m, LengthenPointer(p))

(* both words at a, low word first, delivered as a long word *)
WithLow(m, low) == IF Stopped(m) THEN m ELSE [m EXCEPT !.v = Long(low, @)]
AndHigh(m, b, write) == WithLow(Touch(m, b, write), m.v)
Both(m, a, b, write) == AndHigh(Touch(m, a, write), b, write)
Fetch2(m, a) == Both(m, a, a + 1, FALSE)
Store2(m, a) == Both(m, a, a + 1, TRUE)
(* a POINTER wraps at the end of the main data space *)
FetchMds2(m, p) == Both(m, LengthenPointer(p), LengthenPointer(p + 1), FALSE)
StoreMds2(m, p) == Both(m, LengthenPointer(p), LengthenPointer(p + 1), TRUE)
ReadDbl(m, a) == Fetch2(m, a)
(* the long pointer is formed first: ReadDblMds runs past the end instead *)
ReadDblMds(m, p) == Fetch2(m, LengthenPointer(p))

ReadCode(m, offset) == Fetch(m, CB + (offset % W))
(* the byte of the word just read *)
ByteOf(m, left) == IF Stopped(m) THEN m
                   ELSE [m EXCEPT !.v = IF left THEN LeftByte(@) ELSE RightByte(@)]
PutByte(m, a, left, data) ==
    Put(m, a, IF left THEN data * Byte + RightByte(m.v) ELSE LeftByte(m.v) * Byte + data)
Advance(m, n) == IF Stopped(m) THEN m ELSE [m EXCEPT !.pc = (@ + n) % W]

GetCodeByte(m) == Advance(ByteOf(ReadCode(m, m.pc \div 2), m.pc % 2 = 0), 1)
(* a word at an odd pc: the inner bytes of two words *)
Straddling(m) == IF Stopped(m) THEN m
                 ELSE [m EXCEPT !.v = RightByte(Low(@)) * Byte + LeftByte(High(@))]
GetCodeWord(m) ==
    Advance(IF m.pc % 2 = 1 THEN Straddling(Fetch2(m, CB + m.pc \div 2))
                            ELSE Fetch(m, CB + m.pc \div 2), 2)

FetchByte(m, ptr, offset) == ByteOf(Fetch(m, ptr + offset \div 2), offset % 2 = 0)
StoreByte(m, ptr, offset, data) ==
    PutByte(Store(m, ptr + offset \div 2), ptr + offset \div 2, offset % 2 = 0, data)

(* a field spec is a byte: pos, the first bit, and size, its bits less one *)
Pos(spec) == LeftNibble(spec)
Width(spec) == RightNibble(spec) + 1
FieldOk(spec) == Pos(spec) + Width(spec) <= WordBits
FieldUnit(spec) == 2 ^ (WordBits - Pos(spec) - Width(spec))
ReadField(source, spec) == (source \div FieldUnit(spec)) % 2 ^ Width(spec)
\* Mutant: the data is not cut to the field.
WriteFieldUncut(dest, spec, data) == dest + FieldUnit(spec) * (data - ReadField(dest, spec))
WriteField(dest, spec, data) ==
    dest + FieldUnit(spec) * ((data % 2 ^ Width(spec)) - ReadField(dest, spec))

(* the overhead of a global frame is the two words before it; the control  *)
(* links of a module go down from there, or from the code                  *)
LinkAt(m, offset) == ReadDbl(m, (IF m.v % 2 = 1 THEN CB ELSE GF - 2) - (offset + 1) * 2)
FetchLink(m, offset) == LinkAt(Fetch(m, GF - 1), offset)
===========================================================================
