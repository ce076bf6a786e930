---------------------------- MODULE StackOpcodes ----------------------------
(* The opcodes that work on the evaluation stack alone: jumps, arithmetic, *)
(* checks, immediates and registers; and VMFIND, which searches a table.   *)
EXTENDS Machine

CONSTANTS
    MaxWDC,    \* limit of the wakeup disable counter
    RunSize,   \* words of an entry of the table of runs, and of its one pad entry
    PsbSize,   \* words of a process state block
    VpSize     \* pages of virtual memory the configuration allows

(* jumps: taken or not, pc counts from the opcode and not from its operand *)
Jump(m, taken, disp) ==
    IF Stopped(m) \/ ~taken THEN m ELSE [m EXCEPT !.pc = (m.savedPC + disp) % W]
E_J(m, disp) == Jump(m, TRUE, disp)
E_JUE(m, u, disp) == LET d == Pop(m) IN Jump(d, d.v = u, disp)
E_JUNE(m, u, disp) == LET d == Pop(m) IN Jump(d, d.v # u, disp)
JumpIf(m, disp, op(_, _)) == LET v == Pop(m)  u == Pop(v) IN Jump(u, op(u.v, v.v), disp)
E_JEB(m, disp) == JumpIf(m, disp, LAMBDA u, v : u = v)
E_JNE(m, disp) == JumpIf(m, disp, LAMBDA u, v : u # v)
E_JL(m, disp) == JumpIf(m, disp, LAMBDA u, v : Int16(u) < Int16(v))
E_JGE(m, disp) == JumpIf(m, disp, LAMBDA u, v : Int16(u) >= Int16(v))
E_JG(m, disp) == JumpIf(m, disp, LAMBDA u, v : Int16(u) > Int16(v))
E_JLE(m, disp) == JumpIf(m, disp, LAMBDA u, v : Int16(u) <= Int16(v))
E_JUL(m, disp) == JumpIf(m, disp, LAMBDA u, v : u < v)
E_JUGE(m, disp) == JumpIf(m, disp, LAMBDA u, v : u >= v)
E_JUG(m, disp) == JumpIf(m, disp, LAMBDA u, v : u > v)
E_JULE(m, disp) == JumpIf(m, disp, LAMBDA u, v : u <= v)
E_JZ(m, disp) == E_JUE(m, 0, disp)
E_JNZ(m, disp) == E_JUNE(m, 0, disp)
E_JDE(m, disp) == LET v == PopLong(m)  u == PopLong(v) IN Jump(u, u.v = v.v, disp)
E_JDNE(m, disp) == LET v == PopLong(m)  u == PopLong(v) IN Jump(u, u.v # v.v, disp)
(* indexed jumps: the displacements are bytes or words of a table in code *)
JumpV(m) == Jump(m, TRUE, m.v)
E_JIB(m, table) ==
    LET limit == Pop(m)  index == Pop(limit)
    IN IF index.v < limit.v THEN JumpV(ByteOf(ReadCode(index, table + index.v \div 2), index.v % 2 = 0))
       ELSE index
E_JIW(m, table) ==
    LET limit == Pop(m)  index == Pop(limit)
    IN IF index.v < limit.v THEN JumpV(ReadCode(index, table + index.v)) ELSE index
E_JS(m) == LET p == Pop(m) IN IF Stopped(p) THEN p ELSE [p EXCEPT !.pc = p.v]

(* the stack *)
E_REC2(m) == Recover(Recover(m))
E_DIS2(m) == Discard(Discard(m))
E_EXCH(m) == LET v == Pop(m)  u == Pop(v) IN Push(Push(u, v.v), u.v)
E_DEXCH(m) == LET v == PopLong(m)  u == PopLong(v) IN PushLong(PushLong(u, v.v), u.v)
E_DUP(m) == LET u == Pop(m) IN Push(Push(u, u.v), u.v)
E_DDUP(m) == LET u == PopLong(m) IN PushLong(PushLong(u, u.v), u.v)
E_EXDIS(m) == LET u == Pop(m) IN Push(Pop(u), u.v)

(* arithmetic, some of it in the stack cell itself *)
Cell(m, d) == m.stack[m.sp - d]
E_NEG(m) == SetCell(m, 1, -Cell(m, 1))
E_INC(m) == SetCell(m, 1, Cell(m, 1) + 1)
E_DEC(m) == SetCell(m, 1, Cell(m, 1) - 1)
E_DBL(m) == SetCell(m, 1, Cell(m, 1) * 2)
E_TRPL(m) == SetCell(m, 1, Cell(m, 1) * 3)
E_DINC(m) ==
    LET low == SetCell(m, 2, Cell(m, 2) + 1)
    IN IF Stopped(low) \/ Cell(low, 2) # 0 THEN low ELSE SetCell(low, 1, Cell(low, 1) + 1)
E_ADDS(m, arg) == LET i == Pop(m) IN Push(i, i.v + arg)
Dyadic(m, op(_, _)) == LET v == Pop(m)  u == Pop(v) IN Push(u, op(u.v, v.v))
DyadicLong(m, op(_, _)) ==
    LET v == PopLong(m)  u == PopLong(v) IN PushLong(u, op(u.v, v.v) % WW)
E_ADD(m) == Dyadic(m, LAMBDA u, v : u + v)
E_SUB(m) == Dyadic(m, LAMBDA u, v : u - v)
E_AND(m) == Dyadic(m, LAMBDA u, v : And(u, v, WordBits))
E_IOR(m) == Dyadic(m, LAMBDA u, v : Ior(u, v, WordBits))
E_XOR(m) == Dyadic(m, LAMBDA u, v : Xor(u, v, WordBits))
E_DDBL(m) == LET u == PopLong(m) IN PushLong(u, (u.v * 2) % WW)
E_DADD(m) == DyadicLong(m, LAMBDA u, v : u + v)
E_DSUB(m) == DyadicLong(m, LAMBDA u, v : u - v)
E_DMUL(m) == DyadicLong(m, LAMBDA u, v : u * v)
E_DAND(m) == DyadicLong(m, LAMBDA u, v : And(u, v, 2 * WordBits))
E_DIOR(m) == DyadicLong(m, LAMBDA u, v : Ior(u, v, 2 * WordBits))
E_DXOR(m) == DyadicLong(m, LAMBDA u, v : Xor(u, v, 2 * WordBits))
E_ADC(m) == LET t == Pop(m)  s == PopLong(t) IN PushLong(s, (s.v + t.v) % WW)
E_ACD(m) == LET t == PopLong(m)  s == Pop(t) IN PushLong(s, (s.v + t.v) % WW)
(* the high word of a product stays in the cell above the stack, for REC *)
E_MUL(m) ==
    LET t == Pop(m)  s == Pop(t)  p == PushLong(s, s.v * t.v) IN Unpop(p, -1)
Compare(u, v) == IF u = v THEN 0 ELSE IF u > v THEN 1 ELSE -1
E_DCMP(m) == LET k == PopLong(m)  j == PopLong(k) IN Push(j, Compare(Int32(j.v), Int32(k.v)))
E_UDCMP(m) == LET t == PopLong(m)  s == PopLong(t) IN Push(s, Compare(s.v, t.v))
E_LINT(m) == LET i == Pop(m) IN Push(Push(i, i.v), IF Int16(i.v) < 0 THEN W - 1 ELSE 0)

(* division: the quotient, with the remainder in the cell above; C++ rounds *)
(* toward zero, and INT32_MIN / -1 has no defined result                   *)
Abs(x) == IF x < 0 THEN -x ELSE x
Sign(x) == IF x < 0 THEN -1 ELSE 1
Quotient(j, k) == Sign(j) * Sign(k) * (Abs(j) \div Abs(k))
Remainder(j, k) == j - k * Quotient(j, k)
E_UDIV(m) ==
    LET t == Pop(m)  s == Pop(t)  d == Unless(s, t.v = 0, "DivZeroTrap", s)
    IN Discard(Push(Push(d, s.v \div t.v), s.v % t.v))
\* Mutant: the quotient is pushed before it is known to fit.
E_LUDIVLate(m) ==
    LET t == Pop(m)
        s == PopLong(t)
        z == Unless(s, t.v = 0, "DivZeroTrap", s)
        q == Push(z, s.v \div t.v)
    IN Discard(Push(Unless(q, t.v <= High(s.v), "DivCheckTrap", q), s.v % t.v))
E_LUDIV(m) ==
    LET t == Pop(m)
        s == PopLong(t)
        z == Unless(s, t.v = 0, "DivZeroTrap", s)
        d == Unless(z, t.v <= High(s.v), "DivCheckTrap", z)
    IN Discard(Push(Push(d, s.v \div t.v), s.v % t.v))
E_SDIV(m) ==
    LET k == Pop(m)  j == Pop(k)  d == Unless(j, k.v = 0, "DivZeroTrap", j)
    IN Discard(Push(Push(d, Quotient(Int16(j.v), Int16(k.v))),
                    Remainder(Int16(j.v), Int16(k.v))))
E_SDDIV(m) ==
    LET k == PopLong(m)  j == PopLong(k)
        z == Unless(j, k.v = 0, "DivZeroTrap", j)
        d == Unless(z, j.v = WW \div 2 /\ k.v = WW - 1, "undefined", z)
    IN E_DIS2(PushLong(PushLong(d, Quotient(Int32(j.v), Int32(k.v)) % WW),
                       Remainder(Int32(j.v), Int32(k.v)) % WW))
E_UDDIV(m) ==
    LET t == PopLong(m)  s == PopLong(t)  d == Unless(s, t.v = 0, "DivZeroTrap", s)
    IN E_DIS2(PushLong(PushLong(d, s.v \div t.v), s.v % t.v))

(* shifts: a positive count goes left *)
ShiftBits(x, count, n) ==
    IF count >= n \/ count <= -n THEN 0
    ELSE IF count >= 0 THEN (x * 2 ^ count) % 2 ^ n ELSE x \div 2 ^ (-count)
RotateBits(x, count) ==
    LET left == IF count >= 0 THEN count % WordBits
                ELSE WordBits - (IF count <= -WordBits THEN (-count) % WordBits ELSE -count)
        t == x * 2 ^ left
    IN (t % W) + ((t \div W) % W)
E_SHIFT(m, count) == LET u == Pop(m) IN Push(u, ShiftBits(u.v, count, WordBits))
E_DSHIFT(m) ==
    LET c == Pop(m)  u == PopLong(c) IN PushLong(u, ShiftBits(u.v, Int16(c.v), 2 * WordBits))
E_ROTATE(m) == LET c == Pop(m)  u == Pop(c) IN Push(u, RotateBits(u.v, Int16(c.v)) % W)

(* checks: the operand is on the stack again when the trap is raised *)
E_BNDCK(m) ==
    LET range == Pop(m)  index == Pop(range)  r == Unpop(index, 1)
    IN Unless(r, range.v <= index.v, "BoundsTrap", r)
E_BNDCKL(m) ==
    LET range == PopLong(m)  index == PopLong(range)  r == Unpop(index, 2)
    IN Unless(r, range.v <= index.v, "BoundsTrap", r)
E_NILCK(m) == LET p == Pop(m)  r == Unpop(p, 1) IN Unless(r, p.v = 0, "PointerTrap", r)
E_NILCKL(m) == LET p == PopLong(m)  r == Unpop(p, 2) IN Unless(r, p.v = 0, "PointerTrap", r)

(* immediates and addresses *)
E_LI(m, x) == Push(m, x)
E_LID0(m) == PushLong(m, 0)
E_LA(m, arg) == Push(m, LF + arg)
E_GA(m, arg) == Push(m, GF + arg)
E_LGA(m, arg) == PushLong(m, GF + arg)
E_LP(m) == LET p == Pop(m) IN PushLong(p, IF p.v = 0 THEN 0 ELSE LengthenPointer(p.v))
E_DESC(m, gfi, arg) == Push(Push(m, Ior(gfi, 3, WordBits)), arg)

(* registers; the wakeup disable counter counts from 0 to its limit *)
Write(m, r, x) == IF Stopped(m) THEN m ELSE [m EXCEPT !.reg[r] = x % W]
E_WR(m, r) ==
    LET x == Pop(m) IN Write(x, r, IF r = "PSB" THEN x.v \div PsbSize ELSE x.v)
E_RR(m, r) == Push(m, IF r = "PSB" THEN m.reg[r] * PsbSize ELSE m.reg[r])
(* VERSION pushes a constant; 214 and 306 are dummies that pop and push 0 *)
E_VERSION(m) == Push(Push(m, 1), 1)
E_214(m) == Push(PopLong(PopLong(PopLong(m))), 0)
E_306(m) == Push(Pop(m), 0)
E_WRIT(m) == Stop(m, "ERROR")
E_DI(m) == Unless(m, m.reg["WDC"] = MaxWDC, "InterruptError", Write(m, "WDC", m.reg["WDC"] + 1))
E_EI(m) == Unless(m, m.reg["WDC"] = 0, "InterruptError", Write(m, "WDC", m.reg["WDC"] - 1))

---------------------------------------------------------------------------
(* VMFIND: binary search of a table of runs sorted by their first page.    *)
(* Entry 0 of the table is padding; low and high are CARDINALs, and high   *)
(* wraps when it goes below 0.                                             *)
RunAt(base, i) == base + i * RunSize
Found(m, pRun) == Push(Push(m, 1), pRun)
Missed(m, pRun) == Push(Push(m, 0), pRun)
(* not the first page of a run: in the run high, or after it *)
InRun(m, first, page, high) ==
    IF page < first + m.v THEN Found(m, high * RunSize) ELSE Missed(m, high * RunSize + RunSize)
Counted(m, page, base, high) == InRun(ReadDbl(m, RunAt(base, high) + 2), m.v, page, high)
NotExact(m, page, base, low, high) ==
    IF low = 1 THEN Missed(m, RunSize)
    ELSE Counted(ReadDbl(m, RunAt(base, high)), page, base, high)
Search(m, page, base, runs) ==
    LET find[low \in Word, high \in Word] ==
            LET i == (low + high) \div 2
                Probe(first) ==
                    LET low2 == IF first.v < page THEN i + 1 ELSE low
                        high2 == IF page < first.v THEN (i - 1) % W ELSE high
                    IN IF Stopped(first) THEN first
                       ELSE IF page = first.v THEN Found(first, i * RunSize)
                       ELSE IF high2 < low2 THEN NotExact(first, page, base, low2, high2)
                       ELSE find[low2, high2]
            IN Probe(ReadDbl(m, RunAt(base, i)))
    IN find[1, runs]
E_VMFIND(m) ==
    LET top == Pop(m)
        base == PopLong(top)
        page == PopLong(base)
    IN Search(Unless(page, VpSize <= page.v, "ERROR", page), page.v, base.v, top.v \div RunSize)
===========================================================================
