---------------------------- MODULE BlockOpcodes ----------------------------
(* Block transfers and comparisons.  They move the words of one page run   *)
(* at a time and then put the operands of what is left back on the stack,  *)
(* so that a page fault restarts the opcode where it stopped.              *)
EXTENDS Machine
LOCAL INSTANCE FiniteSetsExt

(* where an operand points: a POINTER into the main data space, an offset  *)
(* into the code, or a LONG POINTER                                        *)
Base(space) == CASE space = "mds" -> MDS [] space = "code" -> CB [] space = "long" -> 0
PopPtr(m, space) == IF space = "long" THEN PopLong(m) ELSE Pop(m)
PushPtr(m, space, p) == IF space = "long" THEN PushLong(m, p % WW) ELSE Push(m, p)
Cells(space) == IF space = "long" THEN 2 ELSE 1

(* n words copied one after the other, upward or downward *)
RECURSIVE Words(_, _, _, _, _)
Words(mem, s, d, n, step) ==
    IF n = 0 THEN mem
    ELSE Words([mem EXCEPT ![d] = mem[s]], s + step, d + step, n - 1, step)

(* words from a to the end of its page, or back to its start *)
ToPageEnd(a, how) == IF how = "down" THEN (a % PageSize) + 1 ELSE PageSize - (a % PageSize)

(* BLT, BLTR and BLE: one run of words at s and d, once both are there *)
RunOf(m, s, d, run, count, how) ==
    LET differ == \E i \in 0 .. run - 1 : m.mem[s + i] # m.mem[d + i]
    IN [m |-> IF Stopped(m) \/ how = "compare" THEN m
              ELSE [m EXCEPT !.mem = Words(@, s, d, run, IF how = "up" THEN 1 ELSE -1)],
        run |-> run,
        end |-> run = count \/ (how = "compare" /\ ~Stopped(m) /\ differ),
        equal |-> ~Stopped(m) /\ ~differ]
Run(m, s, d, count, how) ==
    RunOf(Touch(Fetch(m, s), d, how # "compare"), s, d,
          Min({count, ToPageEnd(s, how), ToPageEnd(d, how)}), count, how)

OperandsForgotten(m, S, D, source, count, dest) == m  \* Mutant

(* the operands of the rest go back to the cells they came from *)
Operands(m, S, D, source, count, dest) ==
    Unpop(PushPtr(Push(PushPtr(m, S, source), count), D, dest),
          -(Cells(S) + 1 + Cells(D)))

RECURSIVE Loop(_, _, _, _, _, _, _, _, _)
GoOn(r, S, D, how, s, d, source, count, dest) ==
    LET by == IF how = "down" THEN 0 ELSE r.run
        step == IF how = "down" THEN -r.run ELSE r.run
    IN IF Stopped(r.m) THEN r.m
       ELSE IF r.end THEN IF how = "compare" THEN Push(r.m, IF r.equal THEN 1 ELSE 0) ELSE r.m
       ELSE Loop(Operands(r.m, S, D, source + by, count - r.run, dest + by), S, D, how,
                 s + step, d + step, source + by, count - r.run, dest + by)
Loop(m, S, D, how, s, d, source, count, dest) ==
    GoOn(Run(m, s, d, count, how), S, D, how, s, d, source, count, dest)

Whole(m, S, D, how, source, count, dest) ==
    LET last == IF how = "down" THEN count - 1 ELSE 0
    IN IF Stopped(m) THEN m
       ELSE IF count = 0 THEN IF how = "compare" THEN Push(m, 1) ELSE m
       ELSE Loop(m, S, D, how, Base(S) + source + last, Base(D) + dest + last,
                 source, count, dest)
Block(m, S, D, how) ==
    LET dest == PopPtr(m, D)
        count == Pop(dest)
        source == PopPtr(count, S)
    IN Whole(source, S, D, how, source.v, count.v, dest.v)

E_BLT(m) == Block(m, "mds", "mds", "up")
E_BLTL(m) == Block(m, "long", "long", "up")
E_BLTC(m) == Block(m, "code", "mds", "up")
E_BLTCL(m) == Block(m, "code", "long", "up")
E_BLTLR(m) == Block(m, "long", "long", "down")
E_BLEL(m) == Block(m, "long", "long", "compare")
E_BLECL(m) == Block(m, "code", "long", "compare")

(* one's complement sum, rotated left by one at each word *)
Checksum(chksum, data) ==
    LET sum == (chksum + data) % W
        t == IF sum < chksum THEN (sum + 1) % W ELSE sum
    IN (t * 2 + (IF t >= W \div 2 THEN 1 ELSE 0)) % W
RECURSIVE ChecksumOf(_, _, _, _)
ChecksumOf(mem, a, n, chksum) ==
    IF n = 0 THEN chksum ELSE ChecksumOf(mem, a + 1, n - 1, Checksum(chksum, mem[a]))

(* the source is fetched once: past its page the words read are those of   *)
(* whatever real page comes next                                           *)
PushSumOf(m, a, n, chksum) ==
    LET sum == ChecksumOf(m.mem, a, n, chksum)
    IN IF Stopped(m) THEN m ELSE Push(m, IF sum = W - 1 THEN 0 ELSE sum)
E_CKSUM(m) ==
    LET source == PopLong(m)
        count == Pop(source)
        cksum == Pop(count)
        past == count.v > ToPageEnd(source.v, "up")
    IN PushSumOf(StopIf(Fetch(cksum, source.v), past, "undefined"), source.v, count.v, cksum.v)

(* bytes are moved one by one, with the operands pushed and popped again *)
ByteOperands(m) ==
    LET so == Pop(m)  sb == PopLong(so)  n == Pop(sb)  do == Pop(n)  db == PopLong(do)
    IN [m |-> db, so |-> so.v, sb |-> sb.v, n |-> n.v, do |-> do.v, db |-> db.v]
PushBytes(m, o, by) ==
    Push(PushLong(Push(Push(PushLong(m, o.db), o.do + by), o.n - 1), o.sb), o.so + by)
StoreByteV(m, ptr, offset) == StoreByte(m, ptr, offset, m.v)
MoveByte(o, at) ==
    StoreByteV(FetchByte(o.m, o.sb, o.so + at), o.db, o.do + at)
RECURSIVE E_BYTBLT(_), E_BYTBLTR(_)
BytesUp(o) ==
    IF Stopped(o.m) \/ o.n = 0 THEN o.m ELSE E_BYTBLT(PushBytes(MoveByte(o, 0), o, 1))
BytesDown(o) ==
    IF Stopped(o.m) \/ o.n = 0 THEN o.m
    ELSE E_BYTBLTR(PushBytes(MoveByte(o, o.n - 1), o, 0))
E_BYTBLT(m) == BytesUp(ByteOperands(m))
E_BYTBLTR(m) == BytesDown(ByteOperands(m))
===========================================================================
