-------------------------- MODULE ControlTransfer --------------------------
(* Control transfers of one process: frames taken from the allocation       *)
(* vector, XFER in all its kinds, traps and their handlers, coroutines      *)
(* through ports; any page may be out when an opcode touches it, a frame    *)
(* list may be empty, and the process then leaves the processor and comes   *)
(* back through XFER.                                                       *)
(*                                                                          *)
(* c is the processor and the memory it works on.  As in Machine, the rest  *)
(* of an opcode does nothing once c.stop is not "run".  A frame lies in one *)
(* page, its overhead with it; a long word on the stack takes one cell.     *)
EXTENDS Integers, Sequences, FiniteSets

CONSTANTS
    Frames, Ports, Cells, Modules, Fsi, Nil,
    Code,          \* [Modules -> [pc -> instruction]]
    FirstPC,       \* the header of a code segment lies below it
    StackDepth, MaxWDC,
    Handler,       \* system data: the link of each trap
    TrapXfers,     \* the modules that ask for xfer traps
    InitCell, BoundCell,  \* the link in each indirect cell, before and after binding
    InitFrame, InitAV, InitPort, Root, InitXTS, Spare,
    MaxFaults, MaxEvents  \* bounds: page faults and preemptions; code taken out

Trapped == {"BoundsTrap", "CodeTrap", "UnboundTrap", "XferTrap", "OpcodeTrap", "InterruptError"}
Frame(f) == [kind |-> "frame", to |-> f]
Indirect(p) == [kind |-> "indirect", to |-> p]
(* a procedure: its module, its first byte, and how the link names them *)
Proc(kind, mod, pc) == [kind |-> kind, mod |-> mod, pc |-> pc]
Item(tag, to) == [tag |-> tag, to |-> to]
Items == [tag : {"frame", "empty", "indirect"}, to : Frames \cup Fsi \cup {Nil}]
Page(what, of) == <<what, of>>
Pages == {"av", "gft", "sd"} \X {Nil} \cup {"frame"} \X Frames \cup {"port"} \X Ports
         \cup {"code", "global"} \X Modules \cup {"cell"} \X Cells

ASSUME TransferAssumption ==
    /\ Root \in Frames /\ Spare \subseteq Frames /\ Nil \notin Frames \cup Ports
    /\ FirstPC \in Nat \ {0} /\ StackDepth \in Nat \ {0}
    /\ InitAV \in [Fsi -> Items] /\ DOMAIN InitFrame = Frames
    /\ \A f \in Frames : DOMAIN InitFrame[f] = {"fsi", "ret", "global", "pc", "local0"}
    /\ DOMAIN InitPort = Ports /\ \A p \in Ports : DOMAIN InitPort[p] = {"in", "out"}

VARIABLES
    c,       \* the processor, and frames, allocation vector and ports
    away,    \* FALSE, or what the process left the processor for
    faults,  \* page faults so far
    events,  \* times the system took code away
    spare    \* frames the system has not given out yet

vars == <<c, away, faults, events, spare>>

Stopped(x) == x.stop # "run"
Unless(x, bad, why) == IF ~Stopped(x) /\ bad THEN [x EXCEPT !.stop = why] ELSE x
Touch(x, what, of) == Unless(x, Page(what, of) \in x.out, "PageFault")
(* first x, then the rest of the opcode *)
Do(x, Rest(_)) == IF Stopped(x) THEN x ELSE Rest(x)
ValidContext(pc) == FirstPC <= pc

Push(x, v) ==
    Do(Unless(x, x.sp = StackDepth, "ERROR"),
       LAMBDA ok : [ok EXCEPT !.stack[ok.sp] = v, !.sp = @ + 1])
Pop(x) ==
    Do(Unless(x, x.sp = 0, "ERROR"),
       LAMBDA ok : [ok EXCEPT !.v = ok.stack[ok.sp - 1], !.sp = @ - 1])
Recover(x) ==
    Do(Unless(x, x.sp = StackDepth, "ERROR"), LAMBDA ok : [ok EXCEPT !.sp = @ + 1])
SetFrame(x, f, field, value) ==
    Do(Touch(x, "frame", f), LAMBDA in : [in EXCEPT !.frame[f][field] = value])
GetFrame(x, f, field) ==
    Do(Touch(x, "frame", f), LAMBDA in : [in EXCEPT !.v = in.frame[f][field]])
SetPort(x, p, field, value) ==
    Do(Touch(x, "port", p), LAMBDA in : [in EXCEPT !.port[p][field] = value])

---------------------------------------------------------------------------
(* 9.2.2 frame allocation.  The list of a size runs from the vector through *)
(* free frames, and ends empty or in the list of another size.              *)
FreeList(av, frame, s) ==
    LET from[n \in 0 .. Cardinality(Frames)] ==
            [item \in Items |->
                IF item.tag # "frame" \/ n = 0 THEN << >>
                ELSE <<item.to>> \o from[n - 1][frame[item.to].local0]]
    IN from[Cardinality(Frames)][av[s]]
FreeIn(av, frame) ==
    UNION {LET l == FreeList(av, frame, s) IN {l[n] : n \in DOMAIN l} : s \in Fsi}
ListEnd ==
    [s \in Fsi |-> LET l == FreeList(InitAV, InitFrame, s)
                   IN IF l = << >> THEN InitAV[s] ELSE InitFrame[l[Len(l)]].local0]
(* item n of the list of size s that runs through the frames of l *)
ItemAt(s, l, n) == IF n \in DOMAIN l THEN Item("frame", l[n]) ELSE ListEnd[s]
(* The list of each size s runs through the frames of free[s], each of that *)
(* size, on no other list, and once on this one, and ends as it always did. *)
Threaded(av, frame, free) ==
    /\ \A s \in Fsi :
           /\ av[s] = ItemAt(s, free[s], 1)
           /\ \A n \in DOMAIN free[s] :
                  LET f == frame[free[s][n]]
                  IN f.fsi = s /\ f.local0 = ItemAt(s, free[s], n + 1)
    /\ \A s, t \in Fsi : \A m \in DOMAIN free[s], n \in DOMAIN free[t] :
           free[s][m] = free[t][n] => s = t /\ m = n
FreeLists(av, frame) == [s \in Fsi |-> FreeList(av, frame, s)]

(* What the system leaves: lists that are lists, each of which ends, empty  *)
(* or in that of a larger size, and frames in use or to be given out.       *)
LeftSound ==
    /\ IsFiniteSet(Frames) /\ Fsi = 0 .. Cardinality(Fsi) - 1 /\ IsFiniteSet(Fsi)
    /\ \A f \in Frames : InitFrame[f].fsi \in Fsi
    /\ FreeLists(InitAV, InitFrame) \in [Fsi -> Seq(Frames)]
    /\ Threaded(InitAV, InitFrame, FreeLists(InitAV, InitFrame))
    /\ FreeIn(InitAV, InitFrame) \subseteq Frames \ (Spare \cup {Root})
    /\ Root \notin Spare
    /\ \A s \in Fsi : /\ ListEnd[s] \in Items /\ ListEnd[s].tag \in {"empty", "indirect"}
                      /\ ListEnd[s].tag = "indirect" => ListEnd[s].to \in Fsi /\ ListEnd[s].to > s
ASSUME FrameAssumption == LeftSound

Slot(av, fsi) ==
    LET follow[i \in Fsi] == IF av[i].tag = "indirect" THEN follow[av[i].to] ELSE i
    IN follow[fsi]
AllocSlot(x, s) ==
    Do(Unless(Touch(x, "av", Nil), x.av[s].tag = "empty", "FrameFault"),
       LAMBDA e : Do(GetFrame(e, e.av[s].to, "local0"),
                     LAMBDA next : [next EXCEPT !.av[s] = next.v, !.v = next.av[s].to]))
Alloc(x, fsi) == AllocSlot([x EXCEPT !.need = fsi], Slot(x.av, fsi))
\* Mutant: the list is changed before the frame is linked to the rest of it.
FreeSwapped(x, f) ==
    Do(Touch(GetFrame(x, f, "fsi"), "av", Nil),
       LAMBDA a : SetFrame([a EXCEPT !.av[a.v] = Item("frame", f)], f, "local0", Item("frame", f)))
Free(x, f) ==
    Do(Touch(GetFrame(x, f, "fsi"), "av", Nil),
       LAMBDA a : Do(SetFrame(a, f, "local0", a.av[a.v]),
                     LAMBDA s : [s EXCEPT !.av[s.v] = Item("frame", f)]))

---------------------------------------------------------------------------
(* 9.3 XFER.  The new context is collected in to, and committed at the end; *)
(* gf, the module whose GF and CB are loaded, changes before.               *)
\* Mutant: what is loaded is taken to be the running module's.
LoadGlobalsUnlessSame(x, mod) ==
    Unless(Do(Touch(x, "gft", Nil), LAMBDA t : IF mod = t.gfi THEN t ELSE [t EXCEPT !.gf = mod]),
           mod \in x.swapped, "CodeTrap")
LoadGlobals(x, mod) ==
    Unless(Do(Touch(x, "gft", Nil), LAMBDA t : [t EXCEPT !.gf = mod]),
           mod \in x.swapped, "CodeTrap")

(* a frame, left in v, for the procedure that starts at pc; src called it *)
FrameFor(x, mod, pc, gfi, src) ==
    Do(Touch(x, "code", mod),
       LAMBDA e : Do(Alloc(e, Code[mod][pc].fsi),
                     LAMBDA f : SetFrame(SetFrame(f, f.v, "global", gfi), f.v, "ret", src)))
ToProcedure(x, p, src) ==
    LET old == IF p.kind = "old" THEN Touch(x, "global", p.mod) ELSE x
        loaded == LoadGlobals(Unless(old, p.mod = Nil, "UnboundTrap"), p.mod)
    IN Do(Unless(loaded, p.pc = 0, "UnboundTrap"),
          LAMBDA g : Do(FrameFor(g, p.mod, p.pc, p.mod, src),
                        LAMBDA f : [f EXCEPT !.to = [lf |-> f.v, gfi |-> p.mod, pc |-> p.pc + 1]]))
(* a trap sets the return link of the frame, and disables interrupts *)
ByTrap(x, f, src) ==
    Do(Unless(SetFrame(x, f, "ret", src), x.wdc = MaxWDC, "InterruptError"),
       LAMBDA r : [r EXCEPT !.wdc = @ + 1])
ToFrame(x, f, src, type) ==
    Do(Unless(x, f = Nil, "ERROR"),
       LAMBDA e : Do(GetFrame(e, f, "global"),
       LAMBDA g : Do(GetFrame(LoadGlobals(g, g.v), f, "pc"),
       LAMBDA l : Do(Unless(l, l.v = 0, "UnboundTrap"),
       LAMBDA ok : Do(IF type = "trap" THEN ByTrap(ok, f, src) ELSE ok,
       LAMBDA d : [d EXCEPT !.to = [lf |-> f, gfi |-> g.v, pc |-> d.v]])))))

CheckForXferTraps(x) ==
    IF Stopped(x) THEN x
    ELSE IF x.xts % 2 = 0 THEN [x EXCEPT !.xts = @ \div 2]
    ELSE Do(Touch(x, "global", x.gf),
            LAMBDA w : IF w.gf \notin TrapXfers THEN w
                       ELSE [w EXCEPT !.xts = @ \div 2, !.stop = "XferTrap"])

(* the link an indirect one leads to, and the touch of where it is *)
Resolved(x, dst) ==
    CASE dst.kind # "indirect" -> dst
      [] dst.kind = "indirect" /\ dst.to \in Cells -> x.cell[dst.to]
      [] OTHER -> Frame(x.port[dst.to].in)
Followed(x, dst, type) ==
    IF dst.kind # "indirect" THEN x
    ELSE Touch(Unless(x, type = "trap", "ERROR"),
               IF dst.to \in Cells THEN "cell" ELSE "port", dst.to)
Activate(x, n, src, type) ==
    IF n.kind = "frame" THEN ToFrame(x, n.to, src, type) ELSE ToProcedure(x, n, src)
(* left above the stack for the code that takes over *)
Announce(x, dst, src) ==
    IF dst.kind # "indirect" THEN x
    ELSE Do(Push(Push(x, dst.to), src.to), LAMBDA p : [p EXCEPT !.sp = @ - 2])
Release(x, free) == IF free THEN Free(x, x.lf) ELSE x
Commit(x) ==
    Do(x, LAMBDA f : CheckForXferTraps([f EXCEPT !.lf = f.to.lf, !.gfi = f.to.gfi, !.pc = f.to.pc]))
XFER(x, dst, src, type, free) ==
    Commit(Release(Announce(Activate(Followed(x, dst, type), Resolved(x, dst), src, type),
                            dst, src), free))

SavePCOfOpcode(x) == SetFrame(x, x.lf, "pc", x.savedPC)  \* Mutant
SavePC(x) == SetFrame(x, x.lf, "pc", x.pc)
CallWithoutPC(x, dst) == XFER(x, dst, Frame(x.lf), "call", FALSE)  \* Mutant
Call(x, dst) == XFER(SavePC(x), dst, Frame(x.lf), "call", FALSE)

(* 9.5.2 traps: back to the start of the opcode, then to the handler *)
SaveContext(x) == IF ValidContext(x.pc) THEN SavePC(x) ELSE x
Rewind(x) == [x EXCEPT !.pc = x.savedPC, !.sp = x.savedSP]
Trap(x, name, param) ==
    Do(Touch([x EXCEPT !.stop = "run"], "sd", Nil),
       LAMBDA h : Do(XFER(SaveContext(Rewind(h)), Handler[name], Frame(h.lf), "trap", FALSE),
       LAMBDA t : IF name \in {"BoundsTrap", "InterruptError"} THEN t
                  ELSE SetFrame(t, t.lf, "local0", param)))

---------------------------------------------------------------------------
(* the opcodes; i is the instruction, its operand fetched *)
E_EFC(x, i) ==
    Do(Touch(Touch(x, "global", x.gf), IF i.incode THEN "code" ELSE "global", x.gf),
       LAMBDA l : Call(l, i.link))
E_KFCB(x, i) == Do(Touch(x, "sd", Nil), LAMBDA l : Call(l, i.link))
E_SFC(x) == Do(Pop(x), LAMBDA l : Call(l, l.v))
E_LFC(x, i) ==
    Do(Unless(SavePC(x), i.pc = 0, "UnboundTrap"),
       LAMBDA u : Do(FrameFor(u, u.gf, i.pc, u.gfi, Frame(u.lf)),
                     LAMBDA f : CheckForXferTraps([f EXCEPT !.lf = f.v, !.pc = i.pc + 1])))
E_RET(x) ==
    Do(GetFrame(x, x.lf, "ret"), LAMBDA r : XFER(r, r.v, Frame(Nil), "return", TRUE))
E_AF(x) == Do(Pop(x), LAMBDA s : Do(Alloc(s, s.v), LAMBDA f : Push(f, f.v)))
E_FF(x) == Do(Pop(x), LAMBDA f : Free(f, f.v))
\* Mutant: the port stays pending.
E_PIPending(x) ==
    Do(Pop(Recover(Recover(x))),
       LAMBDA src : Do(Pop(src),
       LAMBDA port : IF src.v = Nil THEN port ELSE SetPort(port, port.v, "out", Indirect(src.v))))
E_PI(x) ==
    Do(Pop(Recover(Recover(x))),
       LAMBDA src : Do(Pop(src),
       LAMBDA port : Do(SetPort(port, port.v, "in", Nil),
       LAMBDA in : IF src.v = Nil THEN in ELSE SetPort(in, in.v, "out", Indirect(src.v)))))
E_PO(x) ==
    Do(Pop(Pop(x)),
       LAMBDA port : Do(SetPort(SavePC(port), port.v, "in", x.lf),
       LAMBDA in : XFER(in, in.port[in.v].out, Indirect(in.v), "port", FALSE)))
(* the transfer descriptor, in the frame, returns to whom was trapped *)
Descriptor(x) == GetFrame(SavePC(x), x.lf, "ret")
E_XF(x) == Do(Descriptor(x), LAMBDA d : XFER(d, d.v, Frame(Nil), "xfer", TRUE))
(* every fault and trap of XE ends as an ERROR *)
Enabled(x) ==
    IF Stopped(x) THEN [x EXCEPT !.stop = "ERROR"] ELSE [x EXCEPT !.wdc = @ - 1]
\* Mutant: the frame is freed, as XF does.
TransferredAndFreed(x) == Do(x, LAMBDA d : XFER(d, d.v, Frame(Nil), "xfer", TRUE))
Transferred(x) == Do(x, LAMBDA d : XFER(d, d.v, Frame(Nil), "xfer", FALSE))
E_XE(x) == Enabled(Do(Transferred(Descriptor(x)), LAMBDA t : Unless(t, t.wdc = 0, "InterruptError")))

(* other opcodes of the programs *)
Other(x, i) ==
    CASE i.op = "LI" -> Push(x, i.value)
      [] i.op = "JB" -> [x EXCEPT !.pc = i.pc]
      [] i.op = "BNDCK" -> Unless(x, x.bad, "BoundsTrap")
      \* what the handlers do to let the opcode go on
      [] i.op = "REPAIR" -> [x EXCEPT !.bad = FALSE, !.swapped = {}, !.cell = BoundCell]
      [] OTHER -> Unless(x, TRUE, "OpcodeTrap")

Opcode(x, i) ==
    CASE i.op = "EFC" -> E_EFC(x, i)
      [] i.op = "LFC" -> E_LFC(x, i)
      [] i.op = "SFC" -> E_SFC(x)
      [] i.op = "KFCB" -> E_KFCB(x, i)
      [] i.op = "RET" -> E_RET(x)
      [] i.op = "AF" -> E_AF(x)
      [] i.op = "FF" -> E_FF(x)
      [] i.op = "PI" -> E_PI(x)
      [] i.op \in {"PO", "POR"} -> E_PO(x)
      [] i.op = "XE" -> E_XE(x)
      [] i.op = "XF" -> E_XF(x)
      [] OTHER -> Other(x, i)

(* the trap an opcode or a transfer has raised *)
Trapping(x) == IF x.stop \in Trapped THEN Trap(x, x.stop, x.gf) ELSE x
Fetched(x) == Opcode([x EXCEPT !.pc = @ + 1], Code[x.gf][x.pc])
Execute(x) ==
    Trapping(Do(Touch([x EXCEPT !.savedPC = x.pc, !.savedSP = x.sp], "code", x.gf), Fetched))

---------------------------------------------------------------------------
Nowhere == [lf |-> Nil, gfi |-> Nil, pc |-> 0]
NotAway == [why |-> "no", fsi |-> Nil, stack |-> <<>>, sp |-> 0, frame |-> Nil]
Init ==
    /\ \E xts \in InitXTS :
         c = [lf |-> Root, gfi |-> InitFrame[Root].global, gf |-> InitFrame[Root].global,
            pc |-> InitFrame[Root].pc, savedPC |-> 0, sp |-> 0, savedSP |-> 0,
            stack |-> [i \in 0 .. StackDepth - 1 |-> Nil], frame |-> InitFrame, av |-> InitAV,
            port |-> InitPort, cell |-> InitCell, xts |-> xts, wdc |-> 0, swapped |-> {},
            bad |-> TRUE, out |-> {}, stop |-> "run", need |-> Nil, v |-> Nil, to |-> Nowhere]
    /\ away = NotAway /\ faults = 0 /\ events = 0 /\ spare = Spare

(* Pages may be out one at a time.  Global frames are in while XTS is odd,  *)
(* since XFER touches them after it has committed the transfer.             *)
MayBeOut ==
    {{}} \cup IF faults = MaxFaults THEN {}
              ELSE {{p} : p \in {q \in Pages : ~(q[1] = "global" /\ c.xts % 2 = 1)}}

(* SaveProcess and SaveStack: all cells of the stack are saved; then the   *)
(* stack is empty, and the other processes use it                           *)
SaveProcess(x) == SaveContext(Rewind([x EXCEPT !.stop = "run", !.out = {}]))
Clean(x) == [x EXCEPT !.out = {}, !.v = Nil, !.need = Nil, !.to = Nowhere]
Leave(x, why) ==
    LET s == SaveProcess(x)
    IN /\ away' = [why |-> why, fsi |-> x.need, stack |-> s.stack, sp |-> s.sp, frame |-> s.lf]
       /\ c' = [Clean(s) EXCEPT !.sp = 0, !.savedSP = 0, !.pc = 0, !.savedPC = 0,
                                !.stack = [i \in DOMAIN @ |-> "used"]]
(* a page fault or frame fault undoes the opcode as far as PC and SP go *)
Finish(x) ==
    /\ IF x.stop \in {"PageFault", "FrameFault"} THEN Leave(x, x.stop)
       ELSE c' = [Clean(x) EXCEPT !.savedPC = 0, !.savedSP = 0] /\ away' = NotAway
    /\ faults' = IF x.stop = "PageFault" THEN faults + 1 ELSE faults

Running == away.why = "no" /\ c.stop = "run"
Current == Code[c.gf][c.pc]
(* The main loop executes the next opcode.  The page of the running frame   *)
(* is in (SaveProcess writes to it), and XE, which turns every fault into   *)
(* an ERROR, is run with all pages in.                                      *)
Run ==
    /\ Running
    /\ \E out \in MayBeOut :
           /\ Page("frame", c.lf) \notin out
           /\ Current.op = "XE" => out = {}
           /\ Finish(Execute([c EXCEPT !.out = out]))
    /\ UNCHANGED <<events, spare>>

(* an interrupt or the end of the time slice, between two opcodes *)
Preempt ==
    /\ Running /\ c.wdc = 0 /\ faults < MaxFaults
    /\ Leave([c EXCEPT !.savedPC = c.pc, !.savedSP = c.sp], "preempted")
    /\ faults' = faults + 1
    /\ UNCHANGED <<events, spare>>

(* LoadProcess, then XFER to the frame, in an opcode of another process: a  *)
(* fault saves the process again, its pc untouched since PC is 0            *)
Resume ==
    /\ away.why \notin {"no", "FrameFault"}
    /\ \E out \in MayBeOut :
           LET l == [c EXCEPT !.stack = away.stack, !.sp = away.sp, !.savedSP = away.sp,
                              !.pc = 0, !.savedPC = 0, !.lf = away.frame, !.out = out]
           IN Finish(Trapping(XFER(l, Frame(away.frame), Frame(Nil), "processSwitch", FALSE)))
    /\ UNCHANGED <<events, spare>>

(* the system answers a frame fault: a frame of that size joins the list *)
FrameFaultHandler ==
    /\ away.why = "FrameFault"
    /\ \E f \in spare :
           LET s == Slot(c.av, away.fsi)
           IN /\ c' = [c EXCEPT !.frame[f].local0 = c.av[s], !.frame[f].fsi = s,
                                !.av[s] = Item("frame", f)]
              /\ spare' = spare \ {f}
    /\ away' = [away EXCEPT !.why = "answered", !.fsi = Nil]
    /\ UNCHANGED <<faults, events>>

(* the system, for which another process has to run, takes away the code   *)
(* of a module that is neither running nor a trap handler's; or the operand *)
(* of BNDCK goes out of bounds                                              *)
HandlerModules ==
    {IF h.kind = "frame" THEN InitFrame[h.to].global ELSE h.mod :
        h \in {Handler[n] : n \in Trapped}}
CodeOut ==
    /\ events < MaxEvents /\ c.wdc = 0
    /\ \/ \E mod \in Modules \ HandlerModules :
              /\ Running => mod # c.gf
              /\ c' = [c EXCEPT !.swapped = @ \cup {mod}]
       \/ c' = [c EXCEPT !.bad = TRUE]
    /\ events' = events + 1
    /\ UNCHANGED <<away, faults, spare>>

Next == Run \/ Preempt \/ Resume \/ FrameFaultHandler \/ CodeOut
(* The main loop executes opcodes while there is one, the scheduler resumes *)
(* the process, the system answers a frame fault: weak fairness, with the   *)
(* guard of each action in the place of ENABLED.                            *)
Fairness ==
    /\ []<>~Running \/ []<><<Run>>_vars
    /\ []<>(away.why \in {"no", "FrameFault"}) \/ []<><<Resume>>_vars
    /\ []<>(away.why # "FrameFault") \/ []<><<FrameFaultHandler>>_vars
Spec == Init /\ [][Next]_vars /\ Fairness

---------------------------------------------------------------------------
FreeFrames == FreeIn(c.av, c.frame)
Busy == Frames \ (FreeFrames \cup spare)

(* Control transfer keeps the promise of Activations: each call, return,    *)
(* trap and coroutine transfer happens once, whatever faults interrupt it.  *)
Promise == INSTANCE Activations WITH
    PCs <- (UNION {DOMAIN Code[m] : m \in Modules}) \cup {0},
    busy <- Busy, top <- c.lf,
    caller <- [f \in Frames |-> IF f \in Busy THEN c.frame[f].ret.to ELSE Nil],
    at <- [f \in Frames |-> IF f \notin Busy THEN 0
                            ELSE IF f = c.lf /\ away.why = "no" THEN c.pc ELSE c.frame[f].pc]
ImplementsActivations == Promise!Spec

TypeOK ==
    /\ c.lf \in Frames /\ c.gf \in Modules /\ c.gfi \in Modules
    /\ c.sp \in 0 .. StackDepth /\ c.savedSP \in 0 .. StackDepth /\ c.wdc \in 0 .. MaxWDC
    /\ c.swapped \subseteq Modules /\ c.stop = "run" /\ spare \subseteq Spare
    /\ faults \in 0 .. MaxFaults /\ events \in 0 .. MaxEvents

(* A link leads to an activation, or to where a procedure starts.           *)
Leads(link) ==
    LET n == Resolved(c, link)
    IN /\ link.kind = "indirect" => link.to \in Cells \cup Ports
       /\ IF n.kind = "frame" THEN n.to \in Busy \cup {Nil}
          ELSE n.mod # Nil /\ n.pc # 0 => Code[n.mod][n.pc].fsi \in Fsi
(* A frame in use is not given back while a trap handler waits in it.       *)
HandlerFrames == {Handler[n].to : n \in {m \in Trapped : Handler[m].kind = "frame"}}
Leavable(f) == f \in Busy \ HandlerFrames
(* What compiled programs keep to: they transfer along links that lead      *)
(* somewhere, take frames of sizes there are, free what they have taken     *)
(* from there, and do not return to the activation that returns.            *)
Proper ==
    /\ \A n \in Trapped : Handler[n].kind # "indirect" /\ Leads(Handler[n])
    /\ Running =>
        LET op == Current.op
            ret == c.frame[c.lf].ret
            top == Pop(c)
            second == Pop(top)
        IN /\ op \in {"EFC", "KFCB"} => Leads(Current.link)
           /\ op = "LFC" /\ Current.pc # 0 => Code[c.gf][Current.pc].fsi \in Fsi
           /\ op = "SFC" /\ ~Stopped(top) => Leads(top.v)
           /\ op \in {"RET", "XF", "XE"} => Leads(ret)
           /\ op \in {"RET", "XF"} =>
                  Leavable(c.lf) /\ (Resolved(c, ret).kind = "frame" => Resolved(c, ret).to # c.lf)
           /\ op \in {"PO", "POR"} /\ ~Stopped(second) =>
                  second.v \in Ports /\ Leads(c.port[second.v].out)
           /\ op = "AF" /\ ~Stopped(top) => top.v \in Fsi
           /\ op = "FF" /\ ~Stopped(top) => top.v # c.lf /\ Leavable(top.v)

(* The frame lists stay lists, whatever calls, returns, traps and faults    *)
(* interrupt each other: no frame is on two of them or twice on one, each   *)
(* is on the list of its own size, and the list still ends as it did, empty *)
(* or in the list of a larger size; the running frame is on none.           *)
FramesSound ==
    /\ Threaded(c.av, c.frame, FreeLists(c.av, c.frame))
    /\ c.lf \notin FreeFrames \cup spare

(* Whenever an opcode is about to run, the global frame and the code base   *)
(* are those of the running frame, whatever traps and faults came between.  *)
GlobalsCoherent == Running => c.gf = c.gfi /\ c.gf = c.frame[c.lf].global

(* A port is pending on an activation only while that one waits for it: it  *)
(* is not on a free list, and when it runs it is at the transfer out or at  *)
(* the opcode that takes the transfer in.                                   *)
Pending ==
    \A p \in Ports :
        LET f == c.port[p].in
        IN f # Nil => /\ f \in Busy
                      /\ Running /\ c.lf = f => Current.op \in {"PO", "POR", "PI"}
(* No link dangles and no port waits for one that has gone on, whichever    *)
(* traps, faults and coroutine transfers come between the opcode that       *)
(* stores a link and the one that follows it; no opcode ends in an ERROR,   *)
(* nor in a trap or fault it should not have.                               *)
LinksLive == TypeOK /\ Proper /\ Pending

(* However deep the calls and however many traps, coroutine transfers and   *)
(* faults, the first activation gets the processor again and again.         *)
RootRunsAgain == []<>(Running /\ c.lf = Root /\ c.pc = InitFrame[Root].pc)
============================================================================
