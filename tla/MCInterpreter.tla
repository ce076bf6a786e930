--------------------------- MODULE MCInterpreter ---------------------------
(* Inputs for Interpreter: words of 4 bits, pages of 4 words.  Memory holds *)
(* the links of the module and its global frame (pages 2 to 4), a main data *)
(* space of 16 words (pages 4 to 7) with the local frame in its middle, and *)
(* the code (pages 8 and 9).  Operands are chosen so that a double word or  *)
(* a block lies inside a page, across two pages and at the end of a page.   *)
EXTENDS Interpreter

(* long pointers are found in the links (8, 10, 28, 30), in the frames      *)
(* (14, 15; 22, 23) and in the table of runs (34 and on)                    *)
MCMem == [a \in Address |->
    CASE a \in {9, 11, 15, 23, 29, 31} -> 1
      [] a \in {16, 24} -> 2
      \* bricks: all zeros, all ones
      [] a = 4 -> 0 [] a = 5 -> W - 1
      [] a = 8 -> 11 [] a = 10 -> 14 [] a = 14 -> 7 [] a = 22 -> 11
      [] a = 28 -> 3 [] a = 30 -> 10
      \* runs: pages 2 to 3, 5 to 5, 8 to 11
      [] a \in 36 .. 47 -> <<2, 0, 2, 0, 5, 0, 1, 0, 8, 0, 4, 0>>[a - 35]
      [] OTHER -> (a * 7 + a \div 4) % W]
MCReg == [r \in Registers |-> IF r = "WDC" THEN 3 ELSE 5]

(* every way to run an opcode with these operands: at an even pc with the   *)
(* operand in one word, and at the end of a page of code                    *)
Sc(ops, form, args, stks) ==
    [op : ops, form : {form}, arg : args, stk : stks, below : {0}, pc : {1, 6},
     links : {4}, brk : {"no"}]
None == {<<>>}
One(S) == {<<a>> : a \in S}
Two(S, T) == {<<a, b>> : a \in S, b \in T}

Ptr == {3, 6, 11}                      \* into the main data space
LongPtr == {<<5, 0>>, <<7, 1>>, <<11, 1>>}
PtrTop(S) == {<<p>> : p \in S}
Cat(A, B) == {a \o b : a \in A, b \in B}
Val == One({0, 6, 15})
Data2 == {<<9, 2>>}

FrameOps ==
    Sc({"LL", "LLD", "LG", "LGD"}, "n", {0, 1}, None)
    \cup Sc({"LL", "LLD", "LG", "LGD"}, "B", {1, 3}, None)
    \cup Sc({"SL", "PL", "SG"}, "B", {0, 2}, Val)
    \cup Sc({"SLD", "PLD", "SGD"}, "B", {0, 1}, Data2)
    \cup Sc({"AL0IB"}, "B", {3}, None)

PointerOps ==
    Sc({"R", "RD"}, "B", {0, 2}, One(Ptr))
    \cup Sc({"ROB"}, "B", {1}, One(Ptr))
    \cup Sc({"RL", "RDL"}, "B", {0, 2}, LongPtr)
    \cup Sc({"W"}, "B", {0, 1}, Cat(Val, One(Ptr)))
    \cup Sc({"WOB"}, "B", {1}, Cat(Val, One(Ptr)))
    \cup Sc({"WD"}, "B", {0, 1}, Cat(Data2, One(Ptr)))
    \cup Sc({"WL"}, "B", {0, 1}, Cat(Val, LongPtr))
    \cup Sc({"WDL"}, "B", {0, 1}, Cat(Data2, LongPtr))
    \cup Sc({"PS"}, "B", {0, 1}, Cat(One(Ptr), Val))
    \cup Sc({"PSL"}, "B", {1}, Cat(LongPtr, Val))
    \cup Sc({"PSD"}, "B", {0, 1}, Cat(One(Ptr), Data2))
    \cup Sc({"PSDL"}, "B", {1}, Cat(LongPtr, Data2))
    \cup Sc({"RLI", "RLIL", "RLDI", "RLDIL", "RGI", "RGIL"}, "B", {0, 1, 3}, None)
    \cup Sc({"WLI", "WLIL"}, "B", {0, 1}, Val)
    \cup Sc({"WLDIL"}, "B", {0, 1}, Data2)
    \cup {[x EXCEPT !.links = l] : l \in {4, 5},
            x \in Sc({"LLK", "RKI", "RKDI"}, "B", {0, 1}, None)}
    \cup Sc({"LK"}, "B", {1}, {<<>>})

StringAndFieldOps ==
    Sc({"RS"}, "B", {0, 1}, Two(Ptr, {0, 3}))
    \cup Sc({"RLS"}, "B", {1}, Cat(LongPtr, One({0, 3})))
    \cup Sc({"WS"}, "B", {0, 1}, Cat(Val, Two(Ptr, {0, 3})))
    \cup Sc({"WLS"}, "B", {1}, Cat(Val, Cat(LongPtr, One({0, 3}))))
    \cup Sc({"R0F"}, "B", 0 .. 3, One(Ptr)) \cup Sc({"RF"}, "W", {1, 7, 14}, One(Ptr))
    \cup Sc({"RL0F"}, "B", 0 .. 3, LongPtr) \cup Sc({"RLF"}, "W", {7}, LongPtr)
    \cup Sc({"RLFS"}, "n", {0}, Cat(LongPtr, One({7, 14})))
    \cup Sc({"RLIPF", "RLILPF"}, "W", {1, 7, 14}, None)
    \cup Sc({"W0F"}, "B", 0 .. 3, Cat(Val, One({6})))
    \cup Sc({"WF"}, "W", {7, 14}, Cat(Val, One(Ptr)))
    \cup Sc({"WS0F", "PS0F"}, "B", 0 .. 3, Cat(One({6}), Val))
    \cup Sc({"PSF"}, "W", {7, 14}, Cat(One(Ptr), Val))
    \cup Sc({"WL0F"}, "B", {1, 2}, Cat(Val, LongPtr))
    \cup Sc({"WLF"}, "W", {7, 14}, Cat(Val, LongPtr))
    \cup Sc({"PSLF"}, "W", {7, 14}, Cat(LongPtr, Val))
    \cup Sc({"WLFS"}, "n", {0}, Cat(Cat(Val, LongPtr), One({7, 14})))
    \cup Sc({"RCFS"}, "n", {0}, Two({1, 3}, {5, 11}))
    \cup Sc({"RC"}, "B", {0, 2}, One({1, 3}))

AnyWord == {0, 1, 7, 8, 15}
AnyLong == {<<0, 0>>, <<1, 0>>, <<15, 7>>, <<0, 8>>, <<15, 15>>, <<3, 1>>}
JumpOps ==
    Sc({"J"}, "n", {2, 8}, None) \cup Sc({"JB", "CATCH"}, "B", {1, 2}, None)
    \cup Sc({"JW"}, "W", {2, 9}, None)
    \cup Sc({"JEP", "JNEP"}, "B", {1, 2}, One({0, 1}))
    \cup Sc({"JEBB", "JNEBB"}, "W", {6, 9}, One({1, 2}))
    \cup Sc({"JEB", "JNEB", "JLB", "JGEB", "JGB", "JLEB", "JULB", "JUGEB", "JUGB", "JULEB"},
            "B", {2}, Two({1, 8, 15}, {1, 8}))
    \cup Sc({"JZ", "JNZ"}, "n", {3}, One({0, 2}))
    \cup Sc({"JZB", "JNZB"}, "B", {2}, One({0, 2}))
    \cup Sc({"JDEB", "JDNEB"}, "B", {2}, Cat({<<1, 0>>}, AnyLong))
    \cup Sc({"JIB", "JIW"}, "W", {4, 5}, Two({0, 1, 3}, {0, 3}))
    \cup Sc({"JS"}, "n", {0}, One({3}))

StackOps ==
    Sc({"REC", "REC2"}, "n", {0}, {<<1>>})
    \cup Sc({"DIS", "DUP", "NEG", "INC", "DEC", "DBL", "TRPL", "LINT", "A306"}, "n", {0}, One(AnyWord))
    \cup Sc({"DIS2", "EXCH", "EXDIS", "AND", "IOR", "XOR", "ADD", "SUB", "MUL"}, "n", {0},
            Two(AnyWord, AnyWord))
    \cup Sc({"DINC", "DDBL", "DDUP"}, "n", {0}, AnyLong)
    \cup Sc({"DEXCH", "DADD", "DSUB", "DMUL", "DAND", "DIOR", "DXOR", "DCMP", "UDCMP"}, "n", {0},
            Cat(AnyLong, AnyLong))
    \cup Sc({"ADC"}, "n", {0}, Cat(AnyLong, One(AnyWord)))
    \cup Sc({"ACD"}, "n", {0}, Cat(One(AnyWord), AnyLong))
    \cup Sc({"ADDSB", "SHIFTSB"}, "B", {1, 2}, One(AnyWord))
    \cup Sc({"SHIFT", "ROTATE"}, "n", {0}, Two({6, 9}, Word))
    \cup Sc({"DSHIFT"}, "n", {0}, Cat({<<3, 9>>}, One(Word)))
    \cup Sc({"UDIV", "SDIV"}, "n", {0}, Two(AnyWord \cup {5}, {0, 2, 3, 15}))
    \cup Sc({"LUDIV"}, "n", {0}, Cat(AnyLong, One({0, 1, 2, 8, 15})))
    \cup Sc({"SDDIV", "UDDIV"}, "n", {0}, Cat(AnyLong, AnyLong))
    \cup Sc({"BNDCK"}, "n", {0}, Two({2, 5}, {2, 3})) \cup Sc({"NILCK"}, "n", {0}, One({0, 3}))
    \cup Sc({"BNDCKL"}, "n", {0}, Cat(AnyLong, {<<1, 0>>, <<15, 15>>}))
    \cup Sc({"NILCKL"}, "n", {0}, AnyLong)
    \cup Sc({"LI"}, "B", {2}, None) \cup Sc({"LI"}, "W", {9}, None)
    \cup Sc({"LI", "LID0", "RESRVD", "NOOP", "VERSION", "A305"}, "n", {0}, None)
    \cup Sc({"LINB", "LIHB", "LA", "GA", "LGA"}, "B", {2}, None)
    \cup Sc({"LA", "GA", "LGA", "DESC"}, "W", {9}, None) \cup Sc({"LP"}, "n", {0}, One({0, 3}))
    \cup Sc({"DSK"}, "B", {0, 2}, {<<1, 2, 3>>}) \cup Sc({"LSK"}, "B", {0, 2}, {<<7>>})
    \cup Sc({"A214"}, "n", {0}, {<<1, 2, 3, 4, 5, 6>>})
    \cup Sc({"DI", "EI", "WRIT", "RRPSB", "RRMDS", "RRWP", "RRWDC", "RRPTC", "RRIT", "RRXTS"},
            "n", {0}, None)
    \cup Sc({"WRPSB", "WRMDS", "WRWP", "WRWDC", "WRPTC", "WRXTS", "WRMP"}, "n", {0}, One({6, 9}))
    \cup Sc({"VMFIND"}, "n", {0}, {<<p, 0, 0, 2, 12>> : p \in 0 .. 12})
    \cup Sc({"mop", "esc"}, "n", {0}, None)

Counts == {0, 1, 3, 6}
BlockOps ==
    Sc({"BLT"}, "n", {0}, {<<p, n, q>> : p \in {0, 2, 5}, n \in Counts, q \in {1, 4, 7}})
    \cup Sc({"BLTC"}, "n", {0}, {<<p, n, q>> : p \in {1, 4}, n \in Counts, q \in {1, 4, 7}})
    \cup Sc({"BLTL", "BLTLR", "BLEL"}, "n", {0},
            {<<p, 1, n, q, 1>> : p \in {1, 3, 4}, n \in Counts, q \in {3, 6}})
    \cup Sc({"BLTCL", "BLECL"}, "n", {0}, {<<p, n, q, 1>> : p \in {1, 3}, n \in Counts, q \in {2, 7}})
    \cup Sc({"CKSUM"}, "n", {0}, {<<c, n, p, 1>> : c \in {0, 11}, n \in 0 .. 3, p \in {0, 1, 6}})
ByteOps ==
    Sc({"BYTBLT", "BYTBLTR"}, "n", {0},
       {<<q, 1, do, n, p, 1, so>> : q \in {2, 3}, do \in {0, 1}, n \in {0, 1, 5}, p \in {1, 3},
                                    so \in {1}})

(* Rectangles of 5 by 2 pixels: the destination crosses from page 4 to 5,   *)
(* or lies in the display (page 6); the source is elsewhere, overlaps the   *)
(* destination on either side, or is a brick of one or two words.  Each is  *)
(* combined with every function.                                            *)
BitFuncs == {"null", "and", "or", "xor"}
Funcs == <<"null", "and", "or", "xor", "src", "srcIfDstLE1", "srcIf0", "srcIfDstNot0",
           "srcIfNot0", "srcIfDst0", "pixelXor", "srcXorDst">>
Rect(dst, src, ppl, back) ==
    [dst |-> dst, src |-> src, dstPpl |-> 8, srcPpl |-> ppl, width |-> 5, height |-> 2,
     backward |-> back, srcDisplay |-> src >= 96, dstDisplay |-> dst >= 96,
     complement |-> FALSE, dstFunc |-> "null", pattern |-> FALSE, unpacked |-> FALSE,
     yOffset |-> 0, widthMinusOne |-> 0, heightMinusOne |-> 0]
Brick(dst, src, height, yOffset, unpacked) ==
    [Rect(dst, src, 8, FALSE) EXCEPT
        !.pattern = TRUE, !.heightMinusOne = height - 1, !.yOffset = yOffset,
        !.unpacked = unpacked]
Rects ==
    <<Rect(77, 50, 6, FALSE), Rect(97, 50, 8, FALSE), Rect(77, 98, 8, FALSE),
      Rect(97, 99, 8, FALSE), Rect(85, 50, 6, TRUE), Rect(77, 76, 8, TRUE),
      Rect(77, 78, 8, FALSE), Rect(77, 85, 8, FALSE), Rect(85, 76, 8, TRUE),
      Rect(77, 76, 8, FALSE), Rect(77, 50, -8, FALSE),
      Brick(77, 16, 1, 0, FALSE), Brick(77, 20, 1, 0, FALSE), Brick(77, 24, 1, 0, FALSE),
      Brick(97, 24, 1, 0, TRUE), Brick(97, 20, 1, 0, FALSE), Brick(97, 16, 1, 0, FALSE),
      Brick(77, 24, 2, 0, FALSE), Brick(77, 28, 2, 1, FALSE), Brick(97, 18, 2, 0, TRUE),
      Brick(77, 26, 2, 0, FALSE), Brick(77, 26, 1, 0, FALSE), Brick(77, 24, 1, 1, FALSE),
      [Brick(77, 24, 2, 0, FALSE) EXCEPT !.widthMinusOne = 1],
      [Brick(77, 24, 2, 0, FALSE) EXCEPT !.backward = TRUE]>>
MCTables ==
    [i \in 0 .. 24 * Len(Rects) - 1 |->
        [Rects[i \div 24 + 1] EXCEPT !.dstFunc = Funcs[(i % 12) + 1],
                                     !.complement = i % 24 >= 12]]
BltScenarios ==
    {x \in Sc({"BITBLT", "COLORBLT"}, "n", DOMAIN MCTables, {<<12>>}) :
        x.op = "BITBLT" <=> MCTables[x.arg].dstFunc \in BitFuncs}
    \cup Sc({"BITBLT", "COLORBLT"}, "n", {1}, {<<13>>, <<12, 12>>})

(* the same opcodes with too few operands, on a full stack, and under BRK *)
Short(S) == {[x EXCEPT !.stk = Tail(@)] : x \in {y \in S : Len(y.stk) > 0}}
Full(S) == {[x EXCEPT !.below = StackDepth - Len(x.stk)] : x \in S}
Broken(S) == {[x EXCEPT !.brk = b] : x \in S, b \in {"set", "clear"}}
Sample(S) == {x \in S : x.pc = 6}

MCScenarios ==
    LET all == FrameOps \cup PointerOps \cup StringAndFieldOps \cup JumpOps \cup StackOps
               \cup BlockOps \cup ByteOps
    IN all \cup Sample(Short(all)) \cup Sample(Full(FrameOps \cup PointerOps \cup StackOps))
       \cup Sample(Broken(FrameOps)) \cup Sample(BltScenarios)
============================================================================
