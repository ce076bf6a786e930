---------------------------- MODULE Instructions ----------------------------
(* The dispatch tables: what each opcode runs.  An opcode is named by its  *)
(* family, so R0, R1 and RB are all "R"; its operand arg is implied by the *)
(* opcode or has been fetched from the code.                               *)
EXTENDS MemoryOpcodes, StackOpcodes, BlockOpcodes, BitBlt

(* 000 - 077: local and global frames *)
Mop0 == {"LL", "LLD", "SL", "SLD", "PL", "PLD", "LG", "LGD", "SG", "BNDCK"}
Frames(m, op, arg) ==
    CASE op = "LL" -> E_LL(m, arg)
      [] op = "LLD" -> E_LLD(m, arg)
      [] op = "SL" -> E_SL(m, arg)
      [] op = "SLD" -> E_SLD(m, arg)
      [] op = "PL" -> E_PL(m, arg)
      [] op = "PLD" -> E_PLD(m, arg)
      [] op = "LG" -> E_LG(m, arg)
      [] op = "LGD" -> E_LGD(m, arg)
      [] op = "SG" -> E_SG(m, arg)
      [] op = "BNDCK" -> E_BNDCK(m)

(* 0100 - 0174: through pointers; the operand of a field opcode is a byte  *)
(* that holds the spec (0F) or a word with an offset before it (F)         *)
Mop1 == {"R", "RL", "RD", "RDL", "W", "PS", "WL", "PSL", "WD", "PSD", "WDL", "PSDL",
         "RLI", "RLIL", "RLDI", "RLDIL", "RGI", "RGIL", "WLI", "WLIL", "WLDIL",
         "RS", "RLS", "WS", "WLS", "R0F", "RF", "RL0F", "RLF", "RLFS", "RLIPF",
         "RLILPF", "W0F", "WF", "PSF", "PS0F", "WS0F", "WL0F", "WLF", "PSLF", "WLFS",
         "SGD", "LLK", "RKI", "RKDI", "LK", "SHIFT", "SHIFTSB"}
Pointers(m, op, arg) ==
    CASE op = "R" -> E_R(m, arg)
      [] op = "RL" -> E_RL(m, arg)
      [] op = "RD" -> E_RD(m, arg)
      [] op = "RDL" -> E_RDL(m, arg)
      [] op = "W" -> E_W(m, arg)
      [] op = "PS" -> E_PS(m, arg)
      [] op = "WL" -> E_WL(m, arg)
      [] op = "PSL" -> E_PSL(m, arg)
      [] op = "WD" -> E_WD(m, arg)
      [] op = "PSD" -> E_PSD(m, arg)
      [] op = "WDL" -> E_WDL(m, arg)
      [] op = "PSDL" -> E_PSDL(m, arg)
      [] op = "RLI" -> E_RLI(m, arg)
      [] op = "RLIL" -> E_RLIL(m, arg)
      [] op = "RLDI" -> E_RLDI(m, arg)
      [] op = "RLDIL" -> E_RLDIL(m, arg)
      [] op = "RGI" -> E_RGI(m, arg)
      [] op = "RGIL" -> E_RGIL(m, arg)
      [] op = "WLI" -> E_WLI(m, arg)
      [] op = "WLIL" -> E_WLIL(m, arg)
      [] op = "WLDIL" -> E_WLDIL(m, arg)
      [] op = "RS" -> E_RS(m, arg)
      [] op = "RLS" -> E_RLS(m, arg)
      [] op = "WS" -> E_WS(m, arg)
      [] op = "WLS" -> E_WLS(m, arg)
      [] op = "R0F" -> E_RF(m, 0, arg)
      [] op = "RF" -> E_RF(m, LeftByte(arg), RightByte(arg))
      [] op = "RL0F" -> E_RLF(m, 0, arg)
      [] op = "RLF" -> E_RLF(m, LeftByte(arg), RightByte(arg))
      [] op = "RLFS" -> E_RLFS(m)
      [] op = "RLIPF" -> E_RLIPF(m, LeftByte(arg), RightByte(arg))
      [] op = "RLILPF" -> E_RLILPF(m, LeftByte(arg), RightByte(arg))
      [] op = "W0F" -> E_WF(m, 0, arg)
      [] op = "WF" -> E_WF(m, LeftByte(arg), RightByte(arg))
      [] op = "PSF" -> E_PSF(m, LeftByte(arg), RightByte(arg))
      [] op = "PS0F" -> E_PSF(m, 0, arg)
      [] op = "WS0F" -> E_WSF(m, 0, arg)
      [] op = "WL0F" -> E_WLF(m, 0, arg)
      [] op = "WLF" -> E_WLF(m, LeftByte(arg), RightByte(arg))
      [] op = "PSLF" -> E_PSLF(m, LeftByte(arg), RightByte(arg))
      [] op = "WLFS" -> E_WLFS(m)
      [] op = "SGD" -> E_SGD(m, arg)
      [] op = "LLK" -> E_LLK(m, arg)
      [] op = "RKI" -> E_RKI(m, arg)
      [] op = "RKDI" -> E_RKDI(m, arg)
      [] op = "LK" -> E_LK(m, arg)
      [] op = "SHIFT" -> LET c == Pop(m) IN E_SHIFT(c, Int16(c.v))
      [] op = "SHIFTSB" -> E_SHIFT(m, SignExtend(arg))

(* 0200 - 0241: jumps.  A pair operand holds a value and a displacement    *)
(* less 4; JEBB and JNEBB have a value byte and a displacement byte        *)
Mop2Jump == {"CATCH", "J", "JB", "JW", "JEP", "JNEP", "JEBB", "JNEBB", "JEB", "JNEB",
             "JLB", "JGEB", "JGB", "JLEB", "JULB", "JUGEB", "JUGB", "JULEB", "JZ", "JNZ",
             "JZB", "JNZB", "JDEB", "JDNEB", "JIB", "JIW"}
Jumps(m, op, arg) ==
    CASE op = "CATCH" -> m
      [] op = "J" -> E_J(m, arg)
      [] op = "JB" -> E_J(m, SignExtend(arg))
      [] op = "JW" -> E_J(m, Int16(arg))
      [] op = "JEP" -> E_JUE(m, LeftNibble(arg), SignExtend((RightNibble(arg) + 4) % Byte))
      [] op = "JNEP" -> E_JUNE(m, LeftNibble(arg), SignExtend((RightNibble(arg) + 4) % Byte))
      [] op = "JEBB" -> E_JUE(m, LeftByte(arg), SignExtend(RightByte(arg)))
      [] op = "JNEBB" -> E_JUNE(m, LeftByte(arg), SignExtend(RightByte(arg)))
      [] op = "JEB" -> E_JEB(m, SignExtend(arg))
      [] op = "JNEB" -> E_JNE(m, SignExtend(arg))
      [] op = "JLB" -> E_JL(m, SignExtend(arg))
      [] op = "JGEB" -> E_JGE(m, SignExtend(arg))
      [] op = "JGB" -> E_JG(m, SignExtend(arg))
      [] op = "JLEB" -> E_JLE(m, SignExtend(arg))
      [] op = "JULB" -> E_JUL(m, SignExtend(arg))
      [] op = "JUGEB" -> E_JUGE(m, SignExtend(arg))
      [] op = "JUGB" -> E_JUG(m, SignExtend(arg))
      [] op = "JULEB" -> E_JULE(m, SignExtend(arg))
      [] op = "JZ" -> E_JZ(m, arg)
      [] op = "JNZ" -> E_JNZ(m, arg)
      [] op = "JZB" -> E_JZ(m, SignExtend(arg))
      [] op = "JNZB" -> E_JNZ(m, SignExtend(arg))
      [] op = "JDEB" -> E_JDE(m, SignExtend(arg))
      [] op = "JDNEB" -> E_JDNE(m, SignExtend(arg))
      [] op = "JIB" -> E_JIB(m, arg)
      [] op = "JIW" -> E_JIW(m, arg)

(* 0242 - 0277: the stack and arithmetic *)
Mop2Stack == {"REC", "REC2", "DIS", "DIS2", "EXCH", "DEXCH", "DUP", "DDUP", "EXDIS",
              "NEG", "INC", "DEC", "DINC", "DBL", "DDBL", "TRPL", "AND", "IOR", "ADDSB",
              "ADD", "SUB", "DADD", "DSUB", "ADC", "ACD", "AL0IB", "MUL", "DCMP", "UDCMP",
              "VMFIND"}
Stack(m, op, arg) ==
    CASE op = "REC" -> Recover(m)
      [] op = "REC2" -> E_REC2(m)
      [] op = "DIS" -> Discard(m)
      [] op = "DIS2" -> E_DIS2(m)
      [] op = "EXCH" -> E_EXCH(m)
      [] op = "DEXCH" -> E_DEXCH(m)
      [] op = "DUP" -> E_DUP(m)
      [] op = "DDUP" -> E_DDUP(m)
      [] op = "EXDIS" -> E_EXDIS(m)
      [] op = "NEG" -> E_NEG(m)
      [] op = "INC" -> E_INC(m)
      [] op = "DEC" -> E_DEC(m)
      [] op = "DINC" -> E_DINC(m)
      [] op = "DBL" -> E_DBL(m)
      [] op = "DDBL" -> E_DDBL(m)
      [] op = "TRPL" -> E_TRPL(m)
      [] op = "AND" -> E_AND(m)
      [] op = "IOR" -> E_IOR(m)
      [] op = "ADDSB" -> E_ADDS(m, SignExtend(arg))
      [] op = "ADD" -> E_ADD(m)
      [] op = "SUB" -> E_SUB(m)
      [] op = "DADD" -> E_DADD(m)
      [] op = "DSUB" -> E_DSUB(m)
      [] op = "ADC" -> E_ADC(m)
      [] op = "ACD" -> E_ACD(m)
      [] op = "AL0IB" -> E_AL0I(m, arg)
      [] op = "MUL" -> E_MUL(m)
      [] op = "DCMP" -> E_DCMP(m)
      [] op = "UDCMP" -> E_UDCMP(m)
      [] op = "VMFIND" -> E_VMFIND(m)

(* 0300 - 0376: immediates, addresses, block transfers.  LI's operand is   *)
(* implied, a byte or a word; LINB and LIHB place a byte in a word         *)
Mop3 == {"LI", "LINB", "LIHB", "LID0", "LA", "GA", "LGA", "LP", "DESC", "BLT", "BLTL",
         "BLTC", "BLTCL", "RESRVD", "NOOP"}
Immediates(m, op, arg) ==
    CASE op = "LI" -> E_LI(m, arg)
      [] op = "LINB" -> E_LI(m, (Byte - 1) * Byte + arg)
      [] op = "LIHB" -> E_LI(m, arg * Byte)
      [] op = "LID0" -> E_LID0(m)
      [] op = "LA" -> E_LA(m, arg)
      [] op = "GA" -> E_GA(m, arg)
      [] op = "LGA" -> E_LGA(m, arg)
      [] op = "LP" -> E_LP(m)
      [] op = "DESC" -> E_DESC(m, 4, arg)
      [] op = "BLT" -> E_BLT(m)
      [] op = "BLTL" -> E_BLTL(m)
      [] op = "BLTC" -> E_BLTC(m)
      [] op = "BLTCL" -> E_BLTCL(m)
      [] op \in {"RESRVD", "NOOP"} -> Stop(m, "ERROR")

(* opcodes of two bytes *)
Esc == {"DI", "EI", "XOR", "DAND", "DIOR", "DXOR", "ROTATE", "DSHIFT", "LINT", "JS",
        "RCFS", "RC", "UDIV", "LUDIV", "ROB", "WOB", "DSK", "LSK", "BNDCKL", "NILCK",
        "NILCKL", "BLTLR", "BLEL", "BLECL", "CKSUM", "BYTBLT", "BYTBLTR", "VERSION",
        "BITBLT", "COLORBLT", "DMUL", "SDIV", "SDDIV", "UDDIV", "WRIT", "A214", "A305", "A306"}
(* WRPSB to RRXTS: the register's name follows WR or RR *)
RegisterOps == {"WRPSB", "WRMDS", "WRWP", "WRWDC", "WRPTC", "WRXTS", "WRMP",
                "RRPSB", "RRMDS", "RRWP", "RRWDC", "RRPTC", "RRIT", "RRXTS"}
RegisterOp(m, op) ==
    LET r == CHOOSE r \in Registers : op \in {"WR" \o r, "RR" \o r}
    IN IF op = "WR" \o r THEN E_WR(m, r)
       ELSE IF r = "IT" THEN PushLong(m, m.reg[r]) ELSE E_RR(m, r)
Escapes(m, op, arg) ==
    CASE op = "DI" -> E_DI(m)
      [] op = "EI" -> E_EI(m)
      [] op = "XOR" -> E_XOR(m)
      [] op = "DAND" -> E_DAND(m)
      [] op = "DIOR" -> E_DIOR(m)
      [] op = "DXOR" -> E_DXOR(m)
      [] op = "ROTATE" -> E_ROTATE(m)
      [] op = "DSHIFT" -> E_DSHIFT(m)
      [] op = "LINT" -> E_LINT(m)
      [] op = "JS" -> E_JS(m)
      [] op = "RCFS" -> E_RCFS(m)
      [] op = "RC" -> E_RC(m, arg)
      [] op = "UDIV" -> E_UDIV(m)
      [] op = "LUDIV" -> E_LUDIV(m)
      [] op = "ROB" -> E_ROB(m, arg)
      [] op = "WOB" -> E_WOB(m, arg)
      [] op = "DSK" -> E_DSK(m, arg)
      [] op = "LSK" -> E_LSK(m, arg)
      [] op = "BNDCKL" -> E_BNDCKL(m)
      [] op = "NILCK" -> E_NILCK(m)
      [] op = "NILCKL" -> E_NILCKL(m)
      [] op = "BLTLR" -> E_BLTLR(m)
      [] op = "BLEL" -> E_BLEL(m)
      [] op = "BLECL" -> E_BLECL(m)
      [] op = "CKSUM" -> E_CKSUM(m)
      [] op = "BYTBLT" -> E_BYTBLT(m)
      [] op = "BYTBLTR" -> E_BYTBLTR(m)
      [] op = "BITBLT" -> E_BITBLT(m, arg)
      [] op = "COLORBLT" -> E_COLORBLT(m, arg)
      [] op = "DMUL" -> E_DMUL(m)
      [] op = "SDIV" -> E_SDIV(m)
      [] op = "SDDIV" -> E_SDDIV(m)
      [] op = "UDDIV" -> E_UDDIV(m)
      [] op = "WRIT" -> E_WRIT(m)
      [] op = "VERSION" -> E_VERSION(m)
      [] op = "A214" -> E_214(m)
      [] op = "A305" -> m
      [] op = "A306" -> E_306(m)

(* a byte no opcode is registered for *)
OpcodeTrap(m, op) == Stop(m, IF op = "mop" THEN "OpcodeTrap" ELSE "EscOpcodeTrap")

Escaped(op) == op \in Esc \/ op = "esc" \/ op \in RegisterOps

(* the operand: implied, or the next byte or word of code *)
Operand(m, form, arg) ==
    CASE form = "n" -> IF Stopped(m) THEN m ELSE [m EXCEPT !.v = arg]
      [] form = "B" -> GetCodeByte(m)
      [] form = "W" -> GetCodeWord(m)

Perform(m, op) ==
    IF Stopped(m) THEN m
    ELSE IF op \in Mop0 THEN Frames(m, op, m.v)
    ELSE IF op \in Mop1 THEN Pointers(m, op, m.v)
    ELSE IF op \in Mop2Jump THEN Jumps(m, op, m.v)
    ELSE IF op \in Mop2Stack THEN Stack(m, op, m.v)
    ELSE IF op \in Mop3 THEN Immediates(m, op, m.v)
    ELSE IF op \in Esc THEN Escapes(m, op, m.v)
    ELSE IF op \in RegisterOps THEN RegisterOp(m, op)
    ELSE OpcodeTrap(m, op)
Dispatch(m, op, form, arg) ==
    Perform(Operand(IF Escaped(op) THEN GetCodeByte(m) ELSE m, form, arg), op)

(* BRK runs the opcode the break byte holds, and clears the byte after it *)
ClearBreak(m) == IF Stopped(m) THEN m ELSE [m EXCEPT !.brk = 0]
E_BRK(m, op, form, arg) ==
    ClearBreak(Dispatch(Unless(m, m.brk = 0, "BreakTrap", m), op, form, arg))

(* one instruction: the byte fetched is the opcode's, or BRK's *)
Fetched(m, brk, op, form, arg) ==
    IF brk THEN E_BRK(m, op, form, arg) ELSE Dispatch(m, op, form, arg)
Execute(m, brk, op, form, arg) ==
    Fetched(GetCodeByte([m EXCEPT !.savedPC = m.pc, !.savedSP = m.sp]), brk, op, form, arg)
===========================================================================
