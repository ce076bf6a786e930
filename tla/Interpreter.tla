----------------------------- MODULE Interpreter -----------------------------
(* One opcode, executed until it is done.  Each attempt may find a page     *)
(* out: the opcode faults where it first touches the page, the stack        *)
(* pointer and the program counter go back to what they were at its start,  *)
(* and it runs again once the system has brought the page in.  An attempt   *)
(* stops at the first absent page it touches, so that one absent page an    *)
(* attempt gives all the ways in which an opcode can be interrupted.        *)
EXTENDS Instructions, FiniteSets

CONSTANTS
    Scenarios,     \* the opcodes to run, with their operands
    InitialMem,    \* memory before the opcode's own bytes are placed in it
    StackRest,     \* what lies in the cells of the stack that hold no operand
    InitialReg,    \* the registers before the opcode
    MaxFaults      \* bound: page faults of one opcode

VARIABLES
    s,       \* the scenario: the opcode and the state it starts in
    m,       \* the machine
    faults   \* how often the opcode has faulted

vars == <<s, m, faults>>

(* an operand byte b at byte offset i of the code *)
PlaceByte(mem, i, b) ==
    LET a == CB + i \div 2
    IN [mem EXCEPT ![a] = IF i % 2 = 0 THEN b * Byte + RightByte(@)
                                       ELSE LeftByte(@) * Byte + b]
Place(mem, sc) ==
    LET i == sc.pc + 1 + (IF Escaped(sc.op) THEN 1 ELSE 0)
    IN CASE sc.form = "n" -> mem
         [] sc.form = "B" -> PlaceByte(mem, i, sc.arg)
         [] sc.form = "W" -> PlaceByte(PlaceByte(mem, i, LeftByte(sc.arg)), i + 1,
                                       RightByte(sc.arg))

(* sc.below cells are taken already; sc.links says where control links are *)
Start(sc) ==
    [stack |-> [i \in 0 .. StackDepth - 1 |->
                   IF i \in sc.below .. sc.below + Len(sc.stk) - 1
                   THEN sc.stk[i - sc.below + 1] ELSE StackRest],
     sp |-> sc.below + Len(sc.stk), savedSP |-> 0, pc |-> sc.pc, savedPC |-> 0,
     mem |-> Place([InitialMem EXCEPT ![GF - 1] = sc.links], sc),
     present |-> Pages, dirty |-> {}, brk |-> IF sc.brk = "set" THEN 1 ELSE 0,
     reg |-> InitialReg, stop |-> "ready", page |-> -1, v |-> 0]

Attempt(x, sc, out) ==
    Execute([x EXCEPT !.present = Pages \ out, !.stop = "run"],
            sc.brk # "no", sc.op, sc.form, sc.arg)
Outcome(x) == [x EXCEPT !.present = Pages, !.stop = IF @ = "run" THEN "done" ELSE @]

Init ==
    /\ s \in Scenarios
    /\ m = Start(s)
    /\ faults = 0

(* the main loop executes the opcode, with at most one page out *)
Run1(out) ==
    /\ m.stop = "ready"
    /\ m' = Outcome(Attempt(m, s, out))
    /\ UNCHANGED <<s, faults>>
Step == \E out \in {{}} \cup {{p} : p \in Pages} : (out = {} \/ faults < MaxFaults) /\ Run1(out)

(* Abort after a page fault: the process gives up the processor with the   *)
(* stack as it is, and is resumed at the opcode when the page is there     *)
Restart ==
    /\ m.stop = "PageFault" /\ m.page \in Pages
    /\ m' = [m EXCEPT !.sp = m.savedSP, !.pc = m.savedPC, !.stop = "ready"]
    /\ faults' = faults + 1
    /\ UNCHANGED s

Next == Step \/ Restart
Spec == Init /\ [][Next]_vars

---------------------------------------------------------------------------
(* the machine is what the C++ variables can hold *)
TypeOK == m \in MachineType /\ faults \in 0 .. MaxFaults

Ended == m.stop \notin {"ready", "PageFault"}
Undisturbed == Outcome(Attempt(Start(s), s, {}))
Used(x) == [i \in 0 .. x.sp - 1 |-> x.stack[i]]
Observable(x) == <<Used(x), x.pc, x.mem, x.reg, x.brk, x.stop>>

---------------------------------------------------------------------------
(* the pixels of a BITBLT, in lines and columns, and their addresses *)
BltOps == {"BITBLT", "COLORBLT"}
Table(sc) == IF sc.op = "BITBLT" THEN FromBitBlt(BltTables[sc.arg]) ELSE BltTables[sc.arg]
Grid(t) == (0 .. t.height - 1) \X (0 .. t.width - 1)
Ahead(t, n) == IF t.backward THEN -n ELSE n
To(t, p) == t.dst + Ahead(t, p[1] * t.dstPpl) + p[2]
From(t, p) ==
    IF ~t.pattern THEN t.src + Ahead(t, p[1] * t.srcPpl) + p[2]
    ELSE LET l == (t.yOffset + p[1]) % (t.heightMinusOne + 1)
         IN (t.src \div WordBits - t.yOffset + l) * WordBits + ((t.src + p[2]) % WordBits)
Before(t, p, q) == p[1] < q[1] \/ (p[1] = q[1] /\ Ahead(t, p[2]) < Ahead(t, q[2]))
Disjoint(t) == \A p, q \in Grid(t) : From(t, p) # To(t, q)
(* no pixel is written before it is read as a source *)
ReadsFirst(t) == \A p, q \in Grid(t) : From(t, p) = To(t, q) => ~Before(t, q, p)
(* BITBLT keeps no record of how far it came: what was done once is done    *)
(* again, which xor and overlapping rectangles do not bear                  *)
Repeatable(sc) ==
    sc.op \in BltOps =>
        Disjoint(Table(sc)) /\ Table(sc).dstFunc \notin {"pixelXor", "srcXorDst"}

(* An opcode that page faults interrupted, however often and wherever, ends *)
(* as if every page had been there: each opcode touches the pages it needs  *)
(* before it changes the stack or memory, or keeps its operands current.    *)
Transparent == Ended /\ Repeatable(s) => Observable(m) = Observable(Undisturbed)

(* A trap that the opcode raises, other than StackError, finds its operands *)
(* on the stack and memory as it was, so that the handler sees them.        *)
TrapsPrecise ==
    m.stop \in {"BoundsTrap", "PointerTrap", "DivZeroTrap", "DivCheckTrap", "BreakTrap",
                "OpcodeTrap", "EscOpcodeTrap", "InterruptError"} =>
        /\ m.mem = Start(s).mem
        /\ \A i \in 0 .. m.savedSP - 1 : m.stack[i] = Start(s).stack[i]

(* SGD and WOB store through a word they asked for with Fetch *)
StoresByFetch == {"SGD", "WOB"}
(* Every page whose words an opcode changed is marked dirty in the map, so  *)
(* that the system writes it out before it takes the page for another use.  *)
WrittenIsDirty ==
    s.op \notin StoresByFetch =>
        {PageOf(a) : a \in {b \in Address : m.mem[b] # Start(s).mem[b]}} \subseteq m.dirty

---------------------------------------------------------------------------
(* the load opcode that reads what a store opcode wrote: which stack cells *)
(* of the store held the address, and which the value                      *)
Load(op, addr, val) == [op |-> op, addr |-> addr, val |-> val]
LoadOf ==
    [SL |-> Load("LL", <<>>, <<1>>), PL |-> Load("LL", <<>>, <<1>>),
     SLD |-> Load("LLD", <<>>, <<1, 2>>), PLD |-> Load("LLD", <<>>, <<1, 2>>),
     SG |-> Load("LG", <<>>, <<1>>), SGD |-> Load("LGD", <<>>, <<1, 2>>),
     W |-> Load("R", <<2>>, <<1>>), WL |-> Load("RL", <<2, 3>>, <<1>>),
     WD |-> Load("RD", <<3>>, <<1, 2>>), WDL |-> Load("RDL", <<3, 4>>, <<1, 2>>),
     PS |-> Load("R", <<1>>, <<2>>), PSL |-> Load("RL", <<1, 2>>, <<3>>),
     PSD |-> Load("RD", <<1>>, <<2, 3>>), PSDL |-> Load("RDL", <<1, 2>>, <<3, 4>>),
     WOB |-> Load("ROB", <<2>>, <<1>>), WLI |-> Load("RLI", <<>>, <<1>>),
     WLIL |-> Load("RLIL", <<>>, <<1>>), WLDIL |-> Load("RLDIL", <<>>, <<1, 2>>),
     WS |-> Load("RS", <<2, 3>>, <<1>>), WLS |-> Load("RLS", <<2, 3, 4>>, <<1>>),
     W0F |-> Load("R0F", <<2>>, <<1>>), WF |-> Load("RF", <<2>>, <<1>>),
     WS0F |-> Load("R0F", <<1>>, <<2>>), PS0F |-> Load("R0F", <<1>>, <<2>>),
     PSF |-> Load("RF", <<1>>, <<2>>), WL0F |-> Load("RL0F", <<2, 3>>, <<1>>),
     WLF |-> Load("RLF", <<2, 3>>, <<1>>), PSLF |-> Load("RLF", <<1, 2>>, <<3>>),
     WLFS |-> Load("RLFS", <<2, 3, 4>>, <<1>>),
     WRWP |-> Load("RRWP", <<>>, <<1>>), WRWDC |-> Load("RRWDC", <<>>, <<1>>),
     WRPTC |-> Load("RRPTC", <<>>, <<1>>), WRXTS |-> Load("RRXTS", <<>>, <<1>>),
     WRMDS |-> Load("RRMDS", <<>>, <<1>>)]
Cells2(sc, ix) == [i \in 1 .. Len(ix) |-> sc.stk[ix[i]]]
(* the bits of a word that a store writes *)
Spec0(sc) == IF sc.op \in {"WF", "PSF", "WLF", "PSLF"} THEN RightByte(sc.arg)
             ELSE IF sc.op = "WLFS" THEN RightByte(sc.stk[4]) ELSE sc.arg
FieldStores == {"W0F", "WF", "WS0F", "PS0F", "PSF", "WL0F", "WLF", "PSLF", "WLFS"}
Stored(sc, v) == IF sc.op \in FieldStores THEN v % 2 ^ Width(Spec0(sc))
                 ELSE IF sc.op \in {"WS", "WLS"} THEN v % Byte ELSE v
Changed == {a \in Address : m.mem[a] # Start(s).mem[a]}

(* What a store opcode wrote, the load opcode with the same operands reads; *)
(* it changed no more words than it stores, and in a field store no bit     *)
(* outside the field.                                                       *)
ReadBack ==
    m.stop = "done" /\ s.op \in DOMAIN LoadOf =>
        LET l == LoadOf[s.op]
            sc == [s EXCEPT !.op = l.op, !.stk = Cells2(s, l.addr), !.below = 0, !.brk = "no"]
        IN \E r \in {Attempt([Start(sc) EXCEPT !.mem = m.mem, !.reg = m.reg], sc, {})} :
           /\ r.sp = Len(l.val)
           /\ \A i \in 1 .. Len(l.val) : r.stack[i - 1] = Stored(s, s.stk[l.val[i]])
           /\ Cardinality(Changed) <= Len(l.val)
           /\ s.op \in FieldStores =>
                  \A a \in Changed, i \in 0 .. WordBits - 1 :
                      Bit(m.mem[a], i) # Bit(Start(s).mem[a], i) =>
                          WordBits - 1 - i \in Pos(Spec0(s)) .. Pos(Spec0(s)) + Width(Spec0(s)) - 1

(* Division gives the quotient rounded toward zero, and leaves the          *)
(* remainder in the cells above the stack, where REC finds it.              *)
Exact(j, k, q, r, n) ==
    /\ (q * k + r - j) % n = 0
    /\ Abs(r) < Abs(k) /\ (r # 0 => Sign(r) = Sign(j))
DivisionExact ==
    m.stop = "done" =>
        LET at(i) == m.stack[s.below + i]
            long(i) == Long(at(i), at(i + 1))
            arg(i) == Long(s.stk[i], s.stk[i + 1])
        IN /\ s.op = "UDIV" => Exact(s.stk[1], s.stk[2], at(0), at(1), WW)
           /\ s.op = "LUDIV" => Exact(arg(1), s.stk[3], at(0), at(1), WW * W)
           /\ s.op = "UDDIV" => Exact(arg(1), arg(3), long(0), long(2), WW * WW)
           /\ s.op = "SDIV" => Exact(Int16(s.stk[1]), Int16(s.stk[2]), Int16(at(0)), Int16(at(1)), W)
           /\ s.op = "SDDIV" => Exact(Int32(arg(1)), Int32(arg(3)), Int32(long(0)), Int32(long(2)), WW)

(* VMFIND finds the run that holds the page, or the place where a run for   *)
(* it would go.                                                             *)
FindExact ==
    m.stop = "done" /\ s.op = "VMFIND" =>
        LET page == Long(s.stk[1], s.stk[2])
            word(i) == Long(m.mem[i], m.mem[i + 1])
            base == Long(s.stk[3], s.stk[4])
            runs == 1 .. s.stk[5] \div RunSize
            first(i) == word(base + i * RunSize)
            holds(i) == first(i) <= page /\ page < first(i) + word(base + i * RunSize + 2)
            found == m.stack[s.below]
            run == m.stack[s.below + 1]
            before == Cardinality({i \in runs : first(i) <= page})
        IN IF \E i \in runs : holds(i)
           THEN found = 1 /\ holds(run \div RunSize) /\ run % RunSize = 0
           ELSE found = 0 /\ run = (before + 1) * RunSize

(* The opcodes on single words and fields compute what they are to, also     *)
(* when a page fault or a trap came between.                                 *)
ScalarsExact == TypeOK /\ ReadBack /\ DivisionExact /\ FindExact

---------------------------------------------------------------------------
(* what a block transfer is to do, as one assignment per unit: the unit i   *)
(* of the source may itself have been written before it is read             *)
BlockRef(mem(_), from, to, n, down) ==
    LET f[i \in 0 .. n - 1] ==
            LET j == from + i - to
            IN IF (~down /\ j \in 0 .. i - 1) \/ (down /\ j \in i + 1 .. n - 1)
               THEN f[j] ELSE mem(from + i)
    IN f
Layout == [BLT |-> <<"mds", "mds">>, BLTC |-> <<"code", "mds">>, BLTL |-> <<"long", "long">>,
           BLTCL |-> <<"code", "long">>, BLTLR |-> <<"long", "long">>,
           BLEL |-> <<"long", "long">>, BLECL |-> <<"code", "long">>]
BytesOf(mem, i) == IF i % 2 = 0 THEN LeftByte(mem[i \div 2]) ELSE RightByte(mem[i \div 2])

(* A block opcode moves or compares the whole block and nothing else, also  *)
(* when source and destination overlap and when it was interrupted.         *)
BlockExact ==
    LET old(a) == Start(s).mem[a]
        oldByte(i) == BytesOf(Start(s).mem, i)
        words ==
            LET S == Layout[s.op][1]
                n == s.stk[Cells(S) + 1]
                at(S2, i) == Base(S2) + (IF Cells(S2) = 2 THEN Long(s.stk[i], s.stk[i + 1])
                                                         ELSE s.stk[i])
            IN [n |-> n, from |-> at(S, 1), to |-> at(Layout[s.op][2], Cells(S) + 2)]
        bytes == [n |-> s.stk[4], to |-> 2 * Long(s.stk[1], s.stk[2]) + s.stk[3],
                  from |-> 2 * Long(s.stk[5], s.stk[6]) + s.stk[7]]
    IN m.stop = "done" =>
       /\ s.op \in {"BLT", "BLTC", "BLTL", "BLTCL", "BLTLR"} =>
            LET b == words
                f == BlockRef(old, b.from, b.to, b.n, s.op = "BLTLR")
            IN \A a \in Address : m.mem[a] = IF a \in b.to .. b.to + b.n - 1 THEN f[a - b.to]
                                                                         ELSE old(a)
       /\ s.op \in {"BLEL", "BLECL"} =>
            m.stack[0] = IF \A i \in 0 .. words.n - 1 : old(words.from + i) = old(words.to + i)
                         THEN 1 ELSE 0
       /\ s.op \in {"BYTBLT", "BYTBLTR"} =>
            LET b == bytes
                f == BlockRef(oldByte, b.from, b.to, b.n, s.op = "BYTBLTR")
            IN \A i \in 0 .. 2 * MemSize - 1 :
                   BytesOf(m.mem, i) = IF i \in b.to .. b.to + b.n - 1 THEN f[i - b.to]
                                                                   ELSE oldByte(i)

---------------------------------------------------------------------------
(* what the names of the functions say, for source pixel x and destination d *)
Wanted(f, x, d) ==
    CASE f = "src" -> x
      [] f \in {"srcIfDstLE1", "srcIfDstNot0"} -> IF d = 0 THEN 0 ELSE x
      [] f = "srcIf0" -> IF x = 0 THEN 0 ELSE d
      [] f = "srcIfNot0" -> IF x = 1 THEN 1 ELSE d
      [] f = "srcIfDst0" -> IF d = 0 THEN x ELSE d
      [] f \in {"pixelXor", "srcXorDst"} -> IF x = d THEN 0 ELSE 1
PixelAt(mem, a, display) == Bit(Shown(mem[a \div WordBits], display), Shift(a))
SourceAt(t, p) ==
    LET a == From(t, p)
        x == IF t.unpacked /\ t.pattern
             THEN IF Start(s).mem[a \div WordBits] = 0 THEN 0 ELSE 1
             ELSE PixelAt(Start(s).mem, a, t.srcDisplay)
    IN IF t.complement THEN 1 - x ELSE x

(* BITBLT combines every source pixel, as it was, with its destination and  *)
(* changes no other pixel, whichever of its loops does it, also where the   *)
(* rectangles overlap, if the direction is the one that reads first.        *)
BltExact ==
    m.stop = "done" /\ s.op \in BltOps /\ (faults = 0 \/ Repeatable(s)) =>
        LET t == Table(s)
            pixel == [a \in {To(t, p) : p \in Grid(t)} |->
                         CHOOSE p \in Grid(t) : To(t, p) = a]
            old(a) == PixelAt(Start(s).mem, a, t.dstDisplay)
        IN ReadsFirst(t) =>
            \A a \in 0 .. MemSize * WordBits - 1 :
                PixelAt(m.mem, a, t.dstDisplay) =
                    IF a \in DOMAIN pixel
                    THEN Wanted(t.dstFunc, SourceAt(t, pixel[a]), old(a)) ELSE old(a)

(* Block opcodes, whichever of their loops, restarts and directions they     *)
(* take, do what one assignment per word, byte or pixel says.                *)
BlocksExact == BlockExact /\ BltExact
===========================================================================
