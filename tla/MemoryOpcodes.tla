--------------------------- MODULE MemoryOpcodes ---------------------------
(* The opcodes that load from and store into local frames, global frames,  *)
(* records, strings and fields.  One operator per family: E_R stands for   *)
(* R0, R1 and RB.  arg is the operand, implied by the opcode or fetched    *)
(* from the code; a is an operand byte that holds two nibbles.             *)
EXTENDS Machine

Left(a) == LeftNibble(a)
Right(a) == RightNibble(a)

(* the operand just popped or read is a pointer: the word or words at an   *)
(* offset from it                                                          *)
FetchV(m, offset) == Fetch(m, m.v + offset)
Fetch2V(m, offset) == Fetch2(m, m.v + offset)
FetchMdsV(m, offset) == FetchMds(m, m.v + offset)
FetchMds2V(m, offset) == FetchMds2(m, m.v + offset)
(* the top of the stack stored at a, two words at a and b *)
StorePop(m, a) == PopTo(Store(m, a), a)
StorePop2(m, a, b) == PopTo(PopTo(Both(m, a, b, TRUE), b), a)
StorePopMds(m, p) == StorePop(m, LengthenPointer(p))
StorePopMds2(m, p) == StorePop2(m, LengthenPointer(p), LengthenPointer(p + 1))
StoreWord(m, a, x) == Put(Store(m, a), a, x)
StoreWords(m, a, b, x, y) == Put(Put(Both(m, a, b, TRUE), b, y), a, x)

(* local frame *)
E_LL(m, arg) == PushV(FetchMds(m, LF + arg))
E_LLD(m, arg) == Push2V(FetchMds2(m, LF + arg))
E_SL(m, arg) == StorePopMds(m, LF + arg)
E_SLD(m, arg) == StorePopMds2(m, LF + arg)
E_PL(m, arg) == Unpop(E_SL(m, arg), 1)
E_PLD(m, arg) == Unpop(E_SLD(m, arg), 2)
PushSum(m, x) == Push(m, m.v + x)
E_AL0I(m, arg) == PushSum(FetchMds(m, LF), arg)

(* global frame; SGD asks for its words with Fetch and stores through them *)
E_LG(m, arg) == PushV(Fetch(m, GF + arg))
E_LGD(m, arg) == Push2V(Fetch2(m, GF + arg))
E_SGByFetch(m, arg) == PopTo(Fetch(m, GF + arg), GF + arg)  \* Mutant
E_SG(m, arg) == StorePop(m, GF + arg)
E_SGD(m, arg) == PopTo(PopTo(Fetch2(m, GF + arg), GF + arg + 1), GF + arg)

(* through a pointer on the stack *)
E_R(m, arg) == PushV(FetchMdsV(Pop(m), arg))
E_RL(m, arg) == PushV(FetchV(PopLong(m), arg))
E_RD(m, arg) == Push2V(FetchMds2V(Pop(m), arg))
E_RDL(m, arg) == Push2V(Fetch2V(PopLong(m), arg))
E_W(m, arg) == LET p == Pop(m) IN StorePopMds(p, p.v + arg)
E_WL(m, arg) == LET p == PopLong(m) IN StorePop(p, p.v + arg)
E_WD(m, arg) == LET p == Pop(m) IN StorePopMds2(p, p.v + arg)
E_WDL(m, arg) == LET p == PopLong(m) IN StorePop2(p, p.v + arg, p.v + arg + 1)
E_PS(m, arg) ==
    LET u == Pop(m)  p == Pop(u) IN Unpop(StoreWord(p, LengthenPointer(p.v + arg), u.v), 1)
E_PSL(m, arg) == LET u == Pop(m)  p == PopLong(u) IN Unpop(StoreWord(p, p.v + arg, u.v), 2)
E_PSD(m, arg) ==
    LET v == Pop(m)  u == Pop(v)  p == Pop(u)
    IN Unpop(StoreWords(p, LengthenPointer(p.v + arg), LengthenPointer(p.v + arg + 1), u.v, v.v), 1)
E_PSDL(m, arg) ==
    LET v == Pop(m)  u == Pop(v)  p == PopLong(u)
    IN Unpop(StoreWords(p, p.v + arg, p.v + arg + 1, u.v, v.v), 2)
E_ROB(m, arg) == PushV(FetchMdsV(Pop(m), -arg))
(* WOB too stores through a word it asked for with Fetch *)
E_WOB(m, arg) ==
    LET p == Pop(m) IN PopTo(FetchMds(p, p.v - arg), LengthenPointer(p.v - arg))

(* through a pointer in a frame *)
E_RLI(m, a) == PushV(FetchMdsV(FetchMds(m, LF + Left(a)), Right(a)))
E_RLIL(m, a) == PushV(FetchV(ReadDblMds(m, LF + Left(a)), Right(a)))
E_RLDI(m, a) == Push2V(FetchMds2V(FetchMds(m, LF + Left(a)), Right(a)))
E_RLDIL(m, a) == Push2V(Fetch2V(ReadDblMds(m, LF + Left(a)), Right(a)))
E_RGI(m, a) == PushV(FetchMdsV(Fetch(m, GF + Left(a)), Right(a)))
E_RGIL(m, a) == PushV(FetchV(ReadDbl(m, GF + Left(a)), Right(a)))
StoreMdsV(m, offset) == StorePopMds(m, m.v + offset)
StoreV(m, offset) == StorePop(m, m.v + offset)
Store2V(m, offset) == StorePop2(m, m.v + offset, m.v + offset + 1)
E_WLI(m, a) == StoreMdsV(FetchMds(m, LF + Left(a)), Right(a))
E_WLIL(m, a) == StoreV(ReadDblMds(m, LF + Left(a)), Right(a))
E_WLDIL(m, a) == Store2V(ReadDblMds(m, LF + Left(a)), Right(a))

(* strings *)
E_RS(m, arg) ==
    LET i == Pop(m)  p == Pop(i) IN PushV(FetchByte(p, LengthenPointer(p.v), arg + i.v))
E_RLS(m, arg) == LET i == Pop(m)  p == PopLong(i) IN PushV(FetchByte(p, p.v, arg + i.v))
E_WS(m, arg) ==
    LET i == Pop(m)  p == Pop(i)  d == Pop(p)
    IN StoreByte(d, LengthenPointer(p.v), arg + i.v, RightByte(d.v))
E_WLS(m, arg) ==
    LET i == Pop(m)  p == PopLong(i)  d == Pop(p)
    IN StoreByte(d, p.v, arg + i.v, RightByte(d.v))

(* fields: spec is the field inside the word the pointer and offset name *)
PushField(m, spec) == Push(Unless(m, ~FieldOk(spec), "ERROR", m), ReadField(m.v, spec))
PutField(m, a, spec, data) ==
    Unless(m, ~FieldOk(spec), "ERROR", Put(m, a, WriteField(m.v, spec, data)))
E_RF(m, offset, spec) == PushField(FetchMdsV(Pop(m), offset), spec)
E_RLF(m, offset, spec) == PushField(FetchV(PopLong(m), offset), spec)
E_RLFS(m) == LET d == Pop(m) IN E_RLF(d, LeftByte(d.v), RightByte(d.v))
E_RLIPF(m, a, spec) == PushField(FetchMdsV(FetchMds(m, LF + Left(a)), Right(a)), spec)
E_RLILPF(m, a, spec) == PushField(FetchV(ReadDblMds(m, LF + Left(a)), Right(a)), spec)
E_RCFS(m) ==
    LET d == Pop(m)  o == Pop(d)
    IN PushField(ReadCode(o, o.v + LeftByte(d.v)), RightByte(d.v))
E_RC(m, arg) == LET o == Pop(m) IN PushV(ReadCode(o, o.v + arg))
E_WF(m, offset, spec) ==
    LET p == Pop(m)  d == Pop(p)  a == LengthenPointer(p.v + offset)
    IN PutField(Store(d, a), a, spec, d.v)
E_WSF(m, offset, spec) ==
    LET d == Pop(m)  p == Pop(d)  a == LengthenPointer(p.v + offset)
    IN PutField(Store(p, a), a, spec, d.v)
E_PSF(m, offset, spec) == Unpop(E_WSF(m, offset, spec), 1)
E_WLF(m, offset, spec) ==
    LET p == PopLong(m)  d == Pop(p) IN PutField(Store(d, p.v + offset), p.v + offset, spec, d.v)
E_WLFS(m) == LET d == Pop(m) IN E_WLF(d, LeftByte(d.v), RightByte(d.v))
E_PSLF(m, offset, spec) ==
    LET d == Pop(m)  p == PopLong(d)
    IN Unpop(PutField(Store(p, p.v + offset), p.v + offset, spec, d.v), 2)

(* control links *)
E_LLK(m, arg) == PushLongV(FetchLink(m, arg))
E_RKI(m, arg) == PushV(FetchV(FetchLink(m, arg), 0))
E_RKDI(m, arg) == Push2V(Fetch2V(FetchLink(m, arg), 0))
E_LK(m, arg) == LET l == Pop(Recover(m)) IN StoreWord(l, LengthenPointer(LF), l.v - arg)

(* the evaluation stack in a state vector: the cells, then a word that     *)
(* holds the break byte and the stack pointer                              *)
SetStack(m, sp, brk) ==
    IF Stopped(m) THEN m ELSE [m EXCEPT !.sp = sp, !.savedSP = sp, !.brk = brk]
SaveStack(m, state) ==
    LET cell[i \in 0 .. StackDepth] ==
            IF i = 0 THEN m ELSE StoreWord(cell[i - 1], state + i - 1, m.stack[i - 1])
    IN SetStack(StoreWord(cell[StackDepth], state + StackDepth, m.brk * 8 + m.sp), 0, 0)
LoadCell(m, i) == IF Stopped(m) THEN m ELSE [m EXCEPT !.stack[i] = m.v]
LoadCells(m, state) ==
    LET cell[i \in 0 .. StackDepth] ==
            IF i = 0 THEN m ELSE LoadCell(Fetch(cell[i - 1], state + i - 1), i - 1)
    IN SetStack(cell[StackDepth], m.v % 8, m.v \div 8)
LoadStack(m, state) == LoadCells(Fetch(m, state + StackDepth), state)
E_DSK(m, arg) == SaveStack(m, LengthenPointer(LF + arg))
E_LSK(m, arg) == LoadStack(m, LengthenPointer(LF + arg))
===========================================================================
