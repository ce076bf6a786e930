----------------------- MODULE ControlTransferProofs -----------------------
(***************************************************************************)
(* For any number of frames, sizes, modules and ports, and every program    *)
(* that keeps to Proper: the frame lists stay lists, and what is loaded is  *)
(* the module of the running frame.                                         *)
(*                                                                          *)
(* The argument.  Each step of an opcode either keeps what is loaded (Same) *)
(* or loads what the context it then commits names (Loaded), so each opcode *)
(* ends Coherent or stopped.  Each step either leaves the lists alone       *)
(* (Calm), takes the first frame of one (Gives), or puts a frame that is on *)
(* none of them on one (FreeClear).  The frames that must not be there are  *)
(* the running one, those of the trap handlers and those the system has not *)
(* given out (Holds); what a link leads to is not there by Proper, and what *)
(* an opcode itself took is not, whatever page fault, frame fault or trap   *)
(* ends it.  FreeListIs: what FreeList reads is what the frames thread.     *)
(***************************************************************************)
EXTENDS ControlTransfer, SequenceTheorems, FiniteSetTheorems, WellFoundedInduction, TLAPS

(* The fields of c, of a frame; Whole: x has them all. *)
Registers == {"lf", "gfi", "gf", "pc", "savedPC", "sp", "savedSP", "stack", "frame", "av", "port",
              "cell", "xts", "wdc", "swapped", "bad", "out", "stop", "need", "v", "to"}
Fields == {"fsi", "ret", "global", "pc", "local0"}
Whole(x) ==
    /\ DOMAIN x = Registers
    /\ DOMAIN x.frame = Frames
    /\ \A f \in Frames : DOMAIN x.frame[f] = Fields
    /\ DOMAIN x.port = Ports
    /\ \A p \in Ports : DOMAIN x.port[p] = {"in", "out"}

(* x has the context of z, its module, and the modules of all frames. *)
Same(z, x) ==
    /\ Whole(x)
    /\ x.lf = z.lf /\ x.gf = z.gf /\ x.gfi = z.gfi /\ x.to = z.to
    /\ \A f \in Frames : x.frame[f].global = z.frame[f].global
    /\ Stopped(z) => Stopped(x)

(* A stop keeps what is loaded and committed. *)
LEMMA UnlessSame ==
    ASSUME NEW z, NEW x, Same(z, x), NEW bad, NEW why PROVE Same(z, Unless(x, bad, why))
BY DEF Whole, Same, Unless, Registers, Stopped

(* A fault keeps it. *)
LEMMA TouchSame ==
    ASSUME NEW z, NEW x, Same(z, x), NEW what, NEW of PROVE Same(z, Touch(x, what, of))
BY UnlessSame DEF Touch

(* Push keeps it. *)
LEMMA PushSame == ASSUME NEW z, NEW x, Same(z, x), NEW v PROVE Same(z, Push(x, v))
BY DEF Whole, Same, Unless, Registers, Stopped, Push, Do

(* Pop keeps it. *)
LEMMA PopSame == ASSUME NEW z, NEW x, Same(z, x) PROVE Same(z, Pop(x))
BY DEF Whole, Same, Unless, Registers, Stopped, Pop, Do

(* Recover keeps it. *)
LEMMA RecoverSame == ASSUME NEW z, NEW x, Same(z, x) PROVE Same(z, Recover(x))
BY DEF Whole, Same, Unless, Registers, Stopped, Recover, Do

(* Reading a frame keeps it. *)
LEMMA GetFrameSame ==
    ASSUME NEW z, NEW x, Same(z, x), NEW f, NEW field PROVE Same(z, GetFrame(x, f, field))
<1> DEFINE y == Touch(x, "frame", f)
<1>1. Same(z, y) BY TouchSame
<1> HIDE DEF y
<1> QED BY <1>1 DEF GetFrame, y, Do, Same, Whole, Registers, Stopped

(* Writing a frame keeps it, but for the global link. *)
LEMMA SetFrameSame ==
    ASSUME NEW z, NEW x, Same(z, x), NEW f, NEW field, field # "global", NEW value
    PROVE  Same(z, SetFrame(x, f, field, value))
<1> DEFINE y == Touch(x, "frame", f)
<1>1. Same(z, y) BY TouchSame
<1> HIDE DEF y
<1> QED BY <1>1 DEF SetFrame, y, Do, Same, Whole, Registers, Stopped, Fields

(* Writing a port keeps it. *)
LEMMA SetPortSame ==
    ASSUME NEW z, NEW x, Same(z, x), NEW p, NEW field, NEW value
    PROVE  Same(z, SetPort(x, p, field, value))
<1> DEFINE y == Touch(x, "port", p)
<1>1. Same(z, y) BY TouchSame
<1> HIDE DEF y
<1> QED BY <1>1 DEF SetPort, y, Do, Same, Whole, Registers, Stopped

(* Taking a frame keeps it: neither LF nor GF is touched. *)
LEMMA AllocSame ==
    ASSUME NEW z, NEW x, Same(z, x), NEW fsi PROVE Same(z, Alloc(x, fsi))
<1> DEFINE s == Slot(x.av, fsi)
           n == [x EXCEPT !.need = fsi]
           t == Touch(n, "av", Nil)
           e == Unless(t, n.av[s].tag = "empty", "FrameFault")
           g == GetFrame(e, e.av[s].to, "local0")
<1>1. Same(z, n) BY DEF Same, Whole, Registers, Stopped
<1>2. Alloc(x, fsi) = Do(e, LAMBDA y : Do(g, LAMBDA next : [next EXCEPT !.av[s] = next.v, !.v = next.av[s].to]))
  BY DEF Alloc, AllocSlot, e, t, g, n, s, Do
<1> HIDE DEF n, s
<1>3. Same(z, t) BY <1>1, TouchSame
<1> HIDE DEF t
<1>4. Same(z, e) BY <1>3, UnlessSame
<1> HIDE DEF e
<1>5. Same(z, g) BY <1>4, GetFrameSame
<1> HIDE DEF g
<1> QED BY <1>2, <1>4, <1>5 DEF Do, Same, Whole, Registers, Stopped

(* Freeing a frame keeps it. *)
LEMMA FreeSame == ASSUME NEW z, NEW x, Same(z, x), NEW f PROVE Same(z, Free(x, f))
<1> DEFINE g == GetFrame(x, f, "fsi")
           a == Touch(g, "av", Nil)
           s == SetFrame(a, f, "local0", a.av[a.v])
<1>1. Free(x, f) = Do(a, LAMBDA y : Do(s, LAMBDA t : [t EXCEPT !.av[t.v] = Item("frame", f)]))
  BY DEF Free, a, s, g, Do
<1>2. Same(z, g) BY GetFrameSame
<1> HIDE DEF g
<1>3. Same(z, a) BY <1>2, TouchSame
<1> HIDE DEF a
<1>4. Same(z, s) BY <1>3, SetFrameSame
<1> HIDE DEF s
<1> QED BY <1>1, <1>3, <1>4 DEF Do, Same, Whole, Registers, Stopped

(* The test for xfer traps keeps it, trap or not. *)
LEMMA CheckSame == ASSUME NEW z, NEW x, Same(z, x) PROVE Same(z, CheckForXferTraps(x))
<1> DEFINE w == Touch(x, "global", x.gf)
<1>1. Same(z, w) BY TouchSame
<1> HIDE DEF w
<1> QED BY <1>1 DEF CheckForXferTraps, w, Do, Same, Whole, Registers, Stopped

(* what is loaded is what the new context names *)
Loaded(y) ==
    /\ Whole(y)
    /\ ~Stopped(y) => /\ y.to.gfi = y.gf
                      /\ y.to.lf \in Frames => y.frame[y.to.lf].global = y.gf
Coherent(y) == y.gf = y.gfi /\ y.gf = y.frame[y.lf].global
Ends(y) == Whole(y) /\ (~Stopped(y) /\ y.lf \in Frames => Coherent(y))

(* LoadGlobals loads the module, or stops. *)
LEMMA LoadGlobalsLoads ==
    ASSUME NEW x, Whole(x), NEW mod
    PROVE  LET y == LoadGlobals(x, mod)
           IN Whole(y) /\ y.frame = x.frame /\ (~Stopped(y) => y.gf = mod /\ ~Stopped(x))
<1> DEFINE t == Touch(x, "gft", Nil)
<1>1. Whole(t) /\ t.frame = x.frame /\ (Stopped(x) => Stopped(t))
  BY DEF Touch, Unless, Stopped, Whole, Registers, Stopped
<1> HIDE DEF t
<1> DEFINE g == Do(t, LAMBDA y : [y EXCEPT !.gf = mod])
<1>3. Whole(g) /\ g.frame = x.frame /\ (~Stopped(g) => g.gf = mod /\ ~Stopped(x))
  BY <1>1 DEF Do, Whole, Registers, Stopped
<1> HIDE DEF g
<1>4. LoadGlobals(x, mod) = Unless(g, mod \in x.swapped, "CodeTrap") BY DEF LoadGlobals, g, t
<1> QED BY <1>3, <1>4 DEF Unless, Whole, Registers, Stopped

(* Writing the global link of a frame. *)
LEMMA SetFrameGlobal ==
    ASSUME NEW x, Whole(x), NEW f, NEW value
    PROVE  LET y == SetFrame(x, f, "global", value)
           IN /\ Whole(y) /\ y.lf = x.lf /\ y.gf = x.gf /\ y.gfi = x.gfi /\ y.v = x.v
              /\ ~Stopped(y) /\ f \in Frames => y.frame[f].global = value
<1> DEFINE y == Touch(x, "frame", f)
<1>1. /\ Whole(y) /\ y.lf = x.lf /\ y.gf = x.gf /\ y.gfi = x.gfi /\ y.v = x.v
      /\ Stopped(x) => Stopped(y)
  BY DEF Touch, Unless, Whole, Registers, Stopped
<1> HIDE DEF y
<1> QED BY <1>1 DEF SetFrame, y, Do, Whole, Registers, Fields, Stopped

(* Writing a frame keeps v. *)
LEMMA SetFrameV ==
    ASSUME NEW x, Whole(x), NEW f, NEW field, NEW value
    PROVE  SetFrame(x, f, field, value).v = x.v /\ (Stopped(x) => SetFrame(x, f, field, value) = x)
BY DEF SetFrame, Touch, Unless, Do, Whole, Registers, Stopped

NewFor(x, y, gfi) ==
    /\ Whole(y) /\ y.lf = x.lf /\ y.gf = x.gf /\ y.gfi = x.gfi
    /\ ~Stopped(y) /\ y.v \in Frames => y.frame[y.v].global = gfi
    /\ Stopped(x) => Stopped(y)

(* A new frame has the global link it is made with. *)
LEMMA FrameForNew ==
    ASSUME NEW x, Whole(x), NEW mod, NEW pc, NEW gfi, NEW src
    PROVE  NewFor(x, FrameFor(x, mod, pc, gfi, src), gfi)
<1> DEFINE e == Touch(x, "code", mod)
           f == Alloc(e, Code[mod][pc].fsi)
           g == SetFrame(f, f.v, "global", gfi)
           r == SetFrame(g, f.v, "ret", src)
<1>1. Same(x, x) BY DEF Same
<1>2. FrameFor(x, mod, pc, gfi, src) = IF Stopped(e) THEN e ELSE IF Stopped(f) THEN f ELSE r
  BY DEF FrameFor, e, f, g, r, Do
<1>3. Same(x, e) BY <1>1, TouchSame
<1>4. Stopped(x) => Stopped(e) BY DEF Touch, Unless, Stopped
<1> HIDE DEF e
<1>5. Same(x, f) BY <1>3, AllocSame
<1> HIDE DEF f
<1>6. /\ Whole(g) /\ g.lf = f.lf /\ g.gf = f.gf /\ g.gfi = f.gfi /\ g.v = f.v
      /\ ~Stopped(g) /\ f.v \in Frames => g.frame[f.v].global = gfi
  BY <1>5, SetFrameGlobal DEF Same
<1> HIDE DEF g
<1>7. Same(g, g) BY <1>6 DEF Same
<1>8. Same(g, r) /\ r.v = g.v /\ (Stopped(g) => r = g) BY <1>7, <1>6, SetFrameSame, SetFrameV
<1> HIDE DEF r
<1> QED BY <1>2, <1>3, <1>4, <1>5, <1>6, <1>8 DEF Same, NewFor

(* A transfer to a procedure loads its module. *)
LEMMA ToProcedureLoads ==
    ASSUME NEW x, Whole(x), NEW p, NEW src PROVE Loaded(ToProcedure(x, p, src))
<1> DEFINE old == IF p.kind = "old" THEN Touch(x, "global", p.mod) ELSE x
           u == Unless(old, p.mod = Nil, "UnboundTrap")
           l == LoadGlobals(u, p.mod)
           g == Unless(l, p.pc = 0, "UnboundTrap")
           f == FrameFor(g, p.mod, p.pc, p.mod, src)
<1>1. Same(x, x) BY DEF Same
<1>2. ToProcedure(x, p, src) =
        Do(g, LAMBDA y : Do(f, LAMBDA t : [t EXCEPT !.to = [lf |-> t.v, gfi |-> p.mod, pc |-> p.pc + 1]]))
  BY DEF ToProcedure, Do, old, u, l, g, f
<1>3. Same(x, old) BY <1>1, TouchSame
<1> HIDE DEF old
<1>4. Same(x, u) BY <1>3, UnlessSame
<1> HIDE DEF u
<1>5. Whole(l) /\ (~Stopped(l) => l.gf = p.mod) BY <1>4, LoadGlobalsLoads DEF Same
<1> HIDE DEF l
<1>6. Same(l, l) BY <1>5 DEF Same
<1>7. Same(l, g) BY <1>6, UnlessSame
<1> HIDE DEF g
<1>8. /\ Whole(f) /\ f.gf = g.gf /\ (Stopped(g) => Stopped(f))
      /\ ~Stopped(f) /\ f.v \in Frames => f.frame[f.v].global = p.mod
  <2>1. Whole(g) BY <1>7 DEF Same
  <2>2. NewFor(g, f, p.mod) BY <2>1, FrameForNew
  <2> QED BY <2>2 DEF NewFor
<1> HIDE DEF f
<1> QED BY <1>2, <1>5, <1>7, <1>8 DEF Do, Loaded, Same, Whole, Registers, Stopped

(* A transfer by a trap writes a return link, no more. *)
LEMMA ByTrapSame ==
    ASSUME NEW z, NEW x, Same(z, x), NEW f, NEW src PROVE Same(z, ByTrap(x, f, src))
<1> DEFINE s == SetFrame(x, f, "ret", src)
           u == Unless(s, x.wdc = MaxWDC, "InterruptError")
<1>1. Same(z, s) BY SetFrameSame
<1> HIDE DEF s
<1>2. Same(z, u) BY <1>1, UnlessSame
<1> HIDE DEF u
<1> QED BY <1>2 DEF ByTrap, s, u, Do, Same, Whole, Registers, Stopped

(* Reading a frame leaves what it holds in v. *)
LEMMA GetFrameV ==
    ASSUME NEW x, Whole(x), NEW f, NEW field, ~Stopped(GetFrame(x, f, field))
    PROVE  GetFrame(x, f, field).v = x.frame[f][field]
BY DEF GetFrame, Touch, Unless, Do, Whole, Registers, Stopped

(* A transfer to a frame loads the module of the frame. *)
LEMMA ToFrameLoads ==
    ASSUME NEW x, Whole(x), NEW f, NEW src, NEW type PROVE Loaded(ToFrame(x, f, src, type))
<1> DEFINE e == Unless(x, f = Nil, "ERROR")
           g == GetFrame(e, f, "global")
           m == LoadGlobals(g, g.v)
           l == GetFrame(m, f, "pc")
           ok == Unless(l, l.v = 0, "UnboundTrap")
           d == IF type = "trap" THEN ByTrap(ok, f, src) ELSE ok
           t == [d EXCEPT !.to = [lf |-> f, gfi |-> g.v, pc |-> d.v]]
<1>1. Same(x, x) BY DEF Same
<1>2. ToFrame(x, f, src, type) =
        IF Stopped(e) THEN e ELSE IF Stopped(g) THEN g ELSE IF Stopped(l) THEN l
        ELSE IF Stopped(ok) THEN ok ELSE IF Stopped(d) THEN d ELSE t
  BY DEF ToFrame, Do, e, g, m, l, ok, d, t
<1>3. Same(x, e) BY <1>1, UnlessSame
<1> HIDE DEF e
<1>4. Same(x, g) BY <1>3, GetFrameSame
<1>5. ~Stopped(g) => g.v = e.frame[f]["global"] BY <1>3, GetFrameV DEF Same
<1> HIDE DEF g
<1>6. Whole(m) /\ m.frame = g.frame /\ (~Stopped(m) => m.gf = g.v) BY <1>4, LoadGlobalsLoads DEF Same
<1> HIDE DEF m
<1>7. Same(m, m) BY <1>6 DEF Same
<1>8. Same(m, l) BY <1>7, GetFrameSame
<1> HIDE DEF l
<1>9. Same(m, ok) BY <1>8, UnlessSame
<1> HIDE DEF ok
<1>10. Same(m, d) BY <1>9, ByTrapSame
<1> HIDE DEF d
<1>11. ASSUME ~Stopped(g), ~Stopped(d) PROVE Loaded(t)
  <2>1. Whole(t) /\ t.to = [lf |-> f, gfi |-> g.v, pc |-> d.v] /\ t.frame = d.frame /\ t.gf = d.gf
    BY <1>10 DEF Same, Whole, Registers
  <2>2. d.gf = g.v BY <1>6, <1>10, <1>11 DEF Same
  <2>3. ASSUME f \in Frames PROVE t.frame[f].global = g.v
    <3>1. d.frame[f].global = g.frame[f].global BY <1>6, <1>10, <2>3 DEF Same
    <3>2. g.frame[f].global = e.frame[f].global BY <1>3, <1>4, <2>3 DEF Same
    <3> QED BY <3>1, <3>2, <2>1, <1>5, <1>11
  <2> QED BY <2>1, <2>2, <2>3 DEF Loaded
<1> HIDE DEF t
<1> QED BY <1>2, <1>3, <1>4, <1>8, <1>9, <1>10, <1>11 DEF Loaded, Same

(* To follow a link changes nothing that is loaded. *)
LEMMA FollowedSame ==
    ASSUME NEW z, NEW x, Same(z, x), NEW dst, NEW type PROVE Same(z, Followed(x, dst, type))
BY UnlessSame, TouchSame DEF Followed

(* Nor do the words left above the stack. *)
LEMMA AnnounceSame ==
    ASSUME NEW z, NEW x, Same(z, x), NEW dst, NEW src PROVE Same(z, Announce(x, dst, src))
<1> DEFINE a == Push(x, dst.to)
           b == Push(a, src.to)
<1>1. Same(z, a) BY PushSame
<1> HIDE DEF a
<1>2. Same(z, b) BY <1>1, PushSame
<1> HIDE DEF b
<1> QED BY <1>2 DEF Announce, a, b, Do, Same, Whole, Registers, Stopped

(* A transfer that has loaded a context commits a coherent one. *)
LEMMA CommitEnds == ASSUME NEW x, Loaded(x) PROVE Ends(Commit(x))
<1> DEFINE y == [x EXCEPT !.lf = x.to.lf, !.gfi = x.to.gfi, !.pc = x.to.pc]
           w == CheckForXferTraps(y)
<1>1. Commit(x) = IF Stopped(x) THEN x ELSE w BY DEF Commit, Do, w, y
<1>2. Whole(y) /\ y.lf = x.to.lf /\ y.gfi = x.to.gfi /\ y.gf = x.gf /\ y.frame = x.frame
  BY DEF Loaded, Whole, Registers
<1> HIDE DEF y
<1>3. Same(y, w) BY <1>2, CheckSame DEF Same
<1> HIDE DEF w
<1> QED BY <1>1, <1>2, <1>3 DEF Loaded, Same, Ends, Coherent

(* Every kind of XFER ends coherent, or stopped. *)
LEMMA XFEREnds ==
    ASSUME NEW x, Whole(x), NEW dst, NEW src, NEW type, NEW free
    PROVE  Ends(XFER(x, dst, src, type, free))
<1> DEFINE n == Resolved(x, dst)
           a == Followed(x, dst, type)
           b == Activate(a, n, src, type)
           d == Announce(b, dst, src)
           e == Release(d, free)
<1>1. Same(x, x) BY DEF Same
<1>2. XFER(x, dst, src, type, free) = Commit(e) BY DEF XFER, n, a, b, d, e
<1> HIDE DEF n
<1>3. Whole(a) BY <1>1, FollowedSame DEF Same
<1> HIDE DEF a
<1>4. Loaded(b) BY <1>3, ToFrameLoads, ToProcedureLoads DEF Activate, b
<1> HIDE DEF b
<1>5. Same(b, b) BY <1>4 DEF Same, Loaded
<1>6. Same(b, d) BY <1>5, AnnounceSame
<1> HIDE DEF d
<1>7. Same(b, e) BY <1>6, FreeSame DEF Release
<1> HIDE DEF e
<1>8. Loaded(e) BY <1>4, <1>7 DEF Loaded, Same
<1> QED BY <1>2, <1>8, CommitEnds

(* What keeps registers and global links keeps coherence. *)
LEMMA EndsSame == ASSUME NEW z, Ends(z), NEW x, Same(z, x) PROVE Ends(x)
BY DEF Ends, Same, Coherent

(* Saving the PC keeps what is loaded. *)
LEMMA SavePCSame == ASSUME NEW z, NEW x, Same(z, x) PROVE Same(z, SavePC(x))
BY SetFrameSame DEF SavePC

(* A call ends coherent. *)
LEMMA CallEnds == ASSUME NEW x, Whole(x), NEW dst PROVE Ends(Call(x, dst))
<1>1. Same(x, SavePC(x)) BY SavePCSame DEF Same
<1>2. Whole(SavePC(x)) BY <1>1 DEF Same
<1> QED BY <1>2, XFEREnds DEF Call

(* A trap ends coherent, in its handler or stopped. *)
LEMMA TrapEnds ==
    ASSUME NEW x, Whole(x), NEW name, NEW param PROVE Ends(Trap(x, name, param))
<1> DEFINE r == [x EXCEPT !.stop = "run"]
           h == Touch(r, "sd", Nil)
           w == Rewind(h)
           s == SaveContext(w)
           t == XFER(s, Handler[name], Frame(h.lf), "trap", FALSE)
           l == SetFrame(t, t.lf, "local0", param)
<1>1. Trap(x, name, param) = IF Stopped(h) THEN h ELSE IF Stopped(t) THEN t
                             ELSE IF name \in {"BoundsTrap", "InterruptError"} THEN t ELSE l
  BY DEF Trap, Do, h, r, w, s, t, l
<1>2. Same(r, r) BY DEF Same, Whole, Registers
<1> HIDE DEF r
<1>3. Same(r, h) BY <1>2, TouchSame
<1> HIDE DEF h
<1>4. Same(h, w) BY <1>3 DEF Rewind, Same, Whole, Registers, Stopped
<1> HIDE DEF w
<1>5. Same(h, s) BY <1>4, SavePCSame DEF SaveContext
<1> HIDE DEF s
<1>6. Ends(t) BY <1>5, XFEREnds DEF Same
<1> HIDE DEF t
<1>7. Same(t, t) BY <1>6 DEF Ends, Same
<1>8. Same(t, l) BY <1>7, SetFrameSame
<1>9. Ends(l) BY <1>6, <1>8, EndsSame
<1> QED BY <1>1, <1>3, <1>6, <1>9 DEF Ends, Same

(* at the start of an opcode *)
Ready(x) == Whole(x) /\ x.gf = x.gfi /\ (x.lf \in Frames => x.gf = x.frame[x.lf].global)

(* The start of an opcode is the start of what follows. *)
LEMMA ReadySame == ASSUME NEW x, Ready(x), NEW y, Same(x, y) PROVE Ready(y) /\ Ends(y)
BY DEF Ready, Same, Ends, Coherent

(* EFC and its sisters end coherent. *)
LEMMA E_EFCEnds == ASSUME NEW x, Ready(x), NEW i PROVE Ends(E_EFC(x, i))
<1> DEFINE g == Touch(x, "global", x.gf)
           l == Touch(g, IF i.incode THEN "code" ELSE "global", x.gf)
<1>1. Same(x, g) BY TouchSame DEF Ready, Same
<1> HIDE DEF g
<1>2. Same(x, l) BY <1>1, TouchSame
<1>3. E_EFC(x, i) = IF Stopped(l) THEN l ELSE Call(l, i.link) BY DEF E_EFC, l, g, Do
<1> HIDE DEF l
<1> QED BY <1>2, <1>3, ReadySame, CallEnds DEF Ready

(* KFCB ends coherent. *)
LEMMA E_KFCBEnds == ASSUME NEW x, Ready(x), NEW i PROVE Ends(E_KFCB(x, i))
<1> DEFINE l == Touch(x, "sd", Nil)
<1>1. Same(x, l) BY TouchSame DEF Ready, Same
<1>2. E_KFCB(x, i) = IF Stopped(l) THEN l ELSE Call(l, i.link) BY DEF E_KFCB, l, Do
<1> HIDE DEF l
<1> QED BY <1>1, <1>2, ReadySame, CallEnds DEF Ready

(* SFC ends coherent. *)
LEMMA E_SFCEnds == ASSUME NEW x, Ready(x) PROVE Ends(E_SFC(x))
<1> DEFINE l == Pop(x)
<1>1. Same(x, l) BY PopSame DEF Ready, Same
<1>2. E_SFC(x) = IF Stopped(l) THEN l ELSE Call(l, l.v) BY DEF E_SFC, l, Do
<1> HIDE DEF l
<1> QED BY <1>1, <1>2, ReadySame, CallEnds DEF Ready

(* LFC ends coherent: it keeps the module, and gives the frame that. *)
LEMMA E_LFCEnds == ASSUME NEW x, Ready(x), NEW i PROVE Ends(E_LFC(x, i))
<1> DEFINE s == SavePC(x)
           u == Unless(s, i.pc = 0, "UnboundTrap")
           f == FrameFor(u, u.gf, i.pc, u.gfi, Frame(u.lf))
           n == [f EXCEPT !.lf = f.v, !.pc = i.pc + 1]
           w == CheckForXferTraps(n)
<1>1. E_LFC(x, i) = IF Stopped(u) THEN u ELSE IF Stopped(f) THEN f ELSE w
  BY DEF E_LFC, s, u, f, n, w, Do
<1>2. Same(x, s) BY SavePCSame DEF Ready, Same
<1> HIDE DEF s
<1>3. Same(x, u) BY <1>2, UnlessSame
<1> HIDE DEF u
<1>4. Ready(u) BY <1>3, ReadySame
<1>11. NewFor(u, f, u.gfi) BY <1>4, FrameForNew DEF Ready
<1> HIDE DEF f
<1>5. /\ Whole(f) /\ f.gf = u.gf /\ f.gfi = u.gfi /\ (Stopped(u) => Stopped(f))
      /\ ~Stopped(f) /\ f.v \in Frames => f.frame[f.v].global = u.gfi
  BY <1>11 DEF NewFor
<1>6. Ends(f) \/ ~Stopped(f) BY <1>5 DEF Ends
<1>7. Ends(n) /\ (Stopped(f) => Stopped(n)) BY <1>4, <1>5 DEF Ends, Coherent, Ready, Whole, Registers, Stopped
<1> HIDE DEF n
<1>8. Same(n, n) BY <1>7 DEF Ends, Same
<1>9. Same(n, w) BY <1>8, CheckSame
<1>10. Ends(w) BY <1>7, <1>9, EndsSame
<1> QED BY <1>1, <1>3, <1>6, <1>10, ReadySame

(* RET ends coherent. *)
LEMMA E_RETEnds == ASSUME NEW x, Ready(x) PROVE Ends(E_RET(x))
<1> DEFINE r == GetFrame(x, x.lf, "ret")
<1>1. Same(x, r) BY GetFrameSame DEF Ready, Same
<1>2. E_RET(x) = IF Stopped(r) THEN r ELSE XFER(r, r.v, Frame(Nil), "return", TRUE)
  BY DEF E_RET, r, Do
<1> HIDE DEF r
<1> QED BY <1>1, <1>2, ReadySame, XFEREnds DEF Ready

(* AF ends coherent. *)
LEMMA E_AFEnds == ASSUME NEW x, Ready(x) PROVE Ends(E_AF(x))
<1> DEFINE s == Pop(x)
           f == Alloc(s, s.v)
           p == Push(f, f.v)
<1>1. E_AF(x) = IF Stopped(s) THEN s ELSE IF Stopped(f) THEN f ELSE p
  BY DEF E_AF, Do, s, f, p
<1>2. Same(x, s) BY PopSame DEF Ready, Same
<1> HIDE DEF s
<1>3. Same(x, f) BY <1>2, AllocSame
<1> HIDE DEF f
<1>4. Same(x, p) BY <1>3, PushSame
<1> QED BY <1>1, <1>2, <1>3, <1>4, ReadySame

(* FF ends coherent. *)
LEMMA E_FFEnds == ASSUME NEW x, Ready(x) PROVE Ends(E_FF(x))
<1> DEFINE f == Pop(x)
<1>1. E_FF(x) = IF Stopped(f) THEN f ELSE Free(f, f.v) BY DEF E_FF, f, Do
<1>2. Same(x, f) BY PopSame DEF Ready, Same
<1> HIDE DEF f
<1>3. Same(x, Free(f, f.v)) BY <1>2, FreeSame
<1> QED BY <1>1, <1>2, <1>3, ReadySame

(* PI ends coherent. *)
LEMMA E_PIEnds == ASSUME NEW x, Ready(x) PROVE Ends(E_PI(x))
<1> DEFINE a == Recover(x)
           b == Recover(a)
           src == Pop(b)
           port == Pop(src)
           in == SetPort(port, port.v, "in", Nil)
           out == SetPort(in, in.v, "out", Indirect(src.v))
<1>1. E_PI(x) = IF Stopped(src) THEN src ELSE IF Stopped(port) THEN port
                ELSE IF Stopped(in) THEN in ELSE IF src.v = Nil THEN in ELSE out
  BY DEF E_PI, Do, a, b, src, port, in, out
<1>2. Same(x, a) BY RecoverSame DEF Ready, Same
<1> HIDE DEF a
<1>3. Same(x, b) BY <1>2, RecoverSame
<1> HIDE DEF b
<1>4. Same(x, src) BY <1>3, PopSame
<1> HIDE DEF src
<1>5. Same(x, port) BY <1>4, PopSame
<1> HIDE DEF port
<1>6. Same(x, in) BY <1>5, SetPortSame
<1> HIDE DEF in
<1>7. Same(x, out) BY <1>6, SetPortSame
<1> HIDE DEF out
<1> QED BY <1>1, <1>4, <1>5, <1>6, <1>7, ReadySame

(* PO and POR end coherent. *)
LEMMA E_POEnds == ASSUME NEW x, Ready(x) PROVE Ends(E_PO(x))
<1> DEFINE src == Pop(x)
           port == Pop(src)
           s == SavePC(port)
           in == SetPort(s, port.v, "in", x.lf)
<1>1. E_PO(x) = IF Stopped(port) THEN port ELSE IF Stopped(in) THEN in
                ELSE XFER(in, in.port[in.v].out, Indirect(in.v), "port", FALSE)
  BY DEF E_PO, Do, src, port, s, in
<1>2. Same(x, src) BY PopSame DEF Ready, Same
<1> HIDE DEF src
<1>3. Same(x, port) BY <1>2, PopSame
<1> HIDE DEF port
<1>4. Same(x, s) BY <1>3, SavePCSame
<1> HIDE DEF s
<1>5. Same(x, in) BY <1>4, SetPortSame
<1> HIDE DEF in
<1> QED BY <1>1, <1>3, <1>5, ReadySame, XFEREnds DEF Ready

(* To read the transfer descriptor keeps what is loaded. *)
LEMMA DescriptorSame == ASSUME NEW z, NEW x, Same(z, x) PROVE Same(z, Descriptor(x))
BY SavePCSame, GetFrameSame DEF Descriptor

(* XF ends coherent. *)
LEMMA E_XFEnds == ASSUME NEW x, Ready(x) PROVE Ends(E_XF(x))
<1> DEFINE d == Descriptor(x)
<1>1. Same(x, d) BY DescriptorSame DEF Ready, Same
<1>2. E_XF(x) = IF Stopped(d) THEN d ELSE XFER(d, d.v, Frame(Nil), "xfer", TRUE)
  BY DEF E_XF, d, Do
<1> HIDE DEF d
<1> QED BY <1>1, <1>2, ReadySame, XFEREnds DEF Ready

(* XE ends coherent, or as an ERROR. *)
LEMMA E_XEEnds == ASSUME NEW x, Ready(x) PROVE Ends(E_XE(x))
<1> DEFINE d == Descriptor(x)
           t == Transferred(d)
           u == Unless(t, t.wdc = 0, "InterruptError")
<1>1. Same(x, d) BY DescriptorSame DEF Ready, Same
<1>2. E_XE(x) = Enabled(IF Stopped(t) THEN t ELSE u) BY DEF E_XE, d, t, u, Do
<1> HIDE DEF d
<1>3. Ends(t) BY <1>1, ReadySame, XFEREnds DEF Ready, Transferred, Do
<1> HIDE DEF t
<1>4. Same(t, t) BY <1>3 DEF Ends, Same
<1>5. Same(t, u) BY <1>4, UnlessSame
<1>6. Ends(u) BY <1>3, <1>5, EndsSame
<1> HIDE DEF u
<1> QED BY <1>2, <1>3, <1>6 DEF Enabled, Ends, Coherent, Whole, Registers, Stopped

(* The other opcodes leave the context alone. *)
LEMMA OtherEnds == ASSUME NEW x, Ready(x), NEW i PROVE Ends(Other(x, i))
<1>1. Same(x, x) BY DEF Same, Ready
<1>2. Ends(Push(x, i.value)) BY <1>1, PushSame, ReadySame
<1>3. Ends([x EXCEPT !.pc = i.pc]) BY <1>1, ReadySame DEF Same, Whole, Registers, Stopped
<1>4. Ends(Unless(x, x.bad, "BoundsTrap")) BY <1>1, UnlessSame, ReadySame
<1>5. Ends([x EXCEPT !.bad = FALSE, !.swapped = {}, !.cell = BoundCell])
  BY <1>1, ReadySame DEF Same, Whole, Registers, Stopped
<1>6. Ends(Unless(x, TRUE, "OpcodeTrap")) BY <1>1, UnlessSame, ReadySame
<1> QED BY <1>2, <1>3, <1>4, <1>5, <1>6 DEF Other

(* Every opcode ends coherent, or stopped. *)
LEMMA OpcodeEnds == ASSUME NEW x, Ready(x), NEW i PROVE Ends(Opcode(x, i))
BY E_EFCEnds, E_LFCEnds, E_SFCEnds, E_KFCBEnds, E_RETEnds, E_AFEnds, E_FFEnds, E_PIEnds, E_POEnds,
   E_XEEnds, E_XFEnds, OtherEnds DEF Opcode

(* With its trap it still does. *)
LEMMA TrappingEnds == ASSUME NEW x, Ends(x) PROVE Ends(Trapping(x))
BY TrapEnds DEF Trapping, Ends

(* So does the fetch and all that follows. *)
LEMMA ExecuteEnds == ASSUME NEW x, Ready(x) PROVE Ends(Execute(x))
<1> DEFINE s == [x EXCEPT !.savedPC = x.pc, !.savedSP = x.sp]
           t == Touch(s, "code", x.gf)
           n == [t EXCEPT !.pc = @ + 1]
           f == Opcode(n, Code[t.gf][t.pc])
           d == IF Stopped(t) THEN t ELSE f
<1>1. Execute(x) = Trapping(d) BY DEF Execute, s, t, n, f, d, Do, Fetched
<1>2. Same(x, s) BY DEF Ready, Same, Whole, Registers, Stopped
<1> HIDE DEF s
<1>3. Same(x, t) BY <1>2, TouchSame
<1> HIDE DEF t
<1>4. Same(x, n) BY <1>3 DEF Same, Whole, Registers, Stopped
<1> HIDE DEF n
<1>5. Ends(f) BY <1>4, ReadySame, OpcodeEnds
<1>6. Ends(d) BY <1>3, <1>5, ReadySame
<1> QED BY <1>1, <1>6, TrappingEnds

---------------------------------------------------------------------------
(* Clean changes scratch registers. *)
LEMMA CleanWhole ==
    ASSUME NEW x, Whole(x)
    PROVE  /\ Whole(Clean(x)) /\ Clean(x).stop = x.stop /\ Clean(x).lf = x.lf
           /\ Clean(x).gf = x.gf /\ Clean(x).gfi = x.gfi /\ Clean(x).frame = x.frame
BY DEF Clean, Whole, Registers

(* A process that leaves the processor leaves it whole. *)
LEMMA LeaveWhole ==
    ASSUME NEW x, Whole(x), NEW why, why # "no", Leave(x, why) PROVE Whole(c') /\ away'.why # "no"
<1> DEFINE r == Rewind([x EXCEPT !.stop = "run", !.out = {}])
           s == SaveContext(r)
           w == Clean(s)
<1>1. Whole(r) BY DEF Rewind, Whole, Registers
<1> HIDE DEF r
<1>2. Whole(s) BY <1>1, SavePCSame DEF SaveContext, Same
<1>3. s = SaveProcess(x) BY DEF SaveProcess, s, r
<1> HIDE DEF s
<1>4. Whole(w) BY <1>2, CleanWhole
<1>5. c' = [w EXCEPT !.sp = 0, !.savedSP = 0, !.pc = 0, !.savedPC = 0,
                     !.stack = [i \in DOMAIN @ |-> "used"]] /\ away'.why = why
  BY <1>3 DEF Leave, w
<1> HIDE DEF w
<1> QED BY <1>4, <1>5 DEF Whole, Registers

(* Whatever an opcode ended in, what is stored is coherent. *)
LEMMA FinishCoherent ==
    ASSUME NEW x, Ends(x), Finish(x), (c.lf \in Frames)'
    PROVE  Whole(c') /\ GlobalsCoherent'
<1>1. CASE x.stop \in {"PageFault", "FrameFault"}
  <2>1. Whole(c') /\ away'.why # "no" BY <1>1, LeaveWhole DEF Finish, Ends
  <2> QED BY <2>1 DEF GlobalsCoherent, Running
<1>2. CASE x.stop \notin {"PageFault", "FrameFault"}
  <2> DEFINE w == Clean(x)
  <2>1. /\ Whole(w) /\ w.stop = x.stop /\ w.lf = x.lf /\ w.gf = x.gf /\ w.gfi = x.gfi
        /\ w.frame = x.frame
    BY CleanWhole DEF Ends
  <2>2. c' = [w EXCEPT !.savedPC = 0, !.savedSP = 0] BY <1>2 DEF Finish
  <2> HIDE DEF w
  <2>3. /\ Whole(c') /\ c'.stop = x.stop /\ c'.lf = x.lf /\ c'.gf = x.gf /\ c'.gfi = x.gfi
        /\ c'.frame = x.frame
    BY <2>1, <2>2 DEF Whole, Registers
  <2> QED BY <2>3 DEF Ends, GlobalsCoherent, Running, Coherent, Stopped
<1> QED BY <1>1, <1>2

Registered == Whole(c) /\ GlobalsCoherent

(* At the start the root runs, its module loaded. *)
LEMMA InitRegistered == Init => Registered
BY TransferAssumption DEF Init, Registered, Whole, Registers, Fields, GlobalsCoherent, Running

(* Every step keeps what runs coherent. *)
LEMMA StepRegistered ==
    ASSUME c.lf \in Frames, (c.lf \in Frames)', Registered, [Next]_vars PROVE Registered'
<1>1. CASE Run
  <2>1. PICK out : Finish(Execute([c EXCEPT !.out = out])) BY <1>1 DEF Run
  <2> DEFINE x == [c EXCEPT !.out = out]
  <2>2. Ready(x) BY <1>1 DEF Registered, GlobalsCoherent, Ready, Whole, Registers, Run
  <2> QED BY <2>1, <2>2, ExecuteEnds, FinishCoherent DEF Registered
<1>2. CASE Preempt
  <2> DEFINE x == [c EXCEPT !.savedPC = c.pc, !.savedSP = c.sp]
  <2>1. Whole(x) BY DEF Registered, Whole, Registers
  <2>2. Whole(c') /\ away'.why # "no" BY <1>2, <2>1, LeaveWhole DEF Preempt
  <2> QED BY <2>2 DEF Registered, GlobalsCoherent, Running
<1>3. CASE Resume
  <2>1. PICK out :
            LET l == [c EXCEPT !.stack = away.stack, !.sp = away.sp, !.savedSP = away.sp,
                               !.pc = 0, !.savedPC = 0, !.lf = away.frame, !.out = out]
            IN Finish(Trapping(XFER(l, Frame(away.frame), Frame(Nil), "processSwitch", FALSE)))
    BY <1>3 DEF Resume
  <2> DEFINE l == [c EXCEPT !.stack = away.stack, !.sp = away.sp, !.savedSP = away.sp,
                            !.pc = 0, !.savedPC = 0, !.lf = away.frame, !.out = out]
             x == XFER(l, Frame(away.frame), Frame(Nil), "processSwitch", FALSE)
  <2>2. Whole(l) BY DEF Registered, Whole, Registers
  <2>3. Finish(Trapping(x)) BY <2>1
  <2> HIDE DEF l
  <2>4. Ends(Trapping(x)) BY <2>2, XFEREnds, TrappingEnds
  <2> QED BY <2>3, <2>4, FinishCoherent DEF Registered
<1>4. CASE FrameFaultHandler
  <2>1. Whole(c') /\ away'.why # "no"
    BY <1>4 DEF FrameFaultHandler, Registered, Whole, Registers, Fields
  <2> QED BY <2>1 DEF Registered, GlobalsCoherent, Running
<1>5. CASE CodeOut
  <2>1. /\ Whole(c') /\ c'.stop = c.stop /\ c'.lf = c.lf /\ c'.gf = c.gf /\ c'.gfi = c.gfi
        /\ c'.frame = c.frame /\ away' = away
    BY <1>5 DEF CodeOut, Registered, Whole, Registers
  <2> QED BY <2>1 DEF Registered, GlobalsCoherent, Running
<1>6. CASE UNCHANGED vars BY <1>6 DEF vars, Registered, GlobalsCoherent, Running
<1> QED BY <1>1, <1>2, <1>3, <1>4, <1>5, <1>6 DEF Next

---------------------------------------------------------------------------

(* The lists run through q, past the frames of B. *)
Through(av, frame, q, B) ==
    /\ q \in [Fsi -> Seq(Frames)] /\ Threaded(av, frame, q)
    /\ \A s \in Fsi : \A n \in DOMAIN q[s] : q[s][n] \notin B

(* The machine x has lists, and they keep clear of the frames of B; a frame  *)
(* fault asks for a size there is.                                           *)
Clear(x, B) ==
    /\ Whole(x) /\ DOMAIN x.av = Fsi
    /\ \A f \in Frames : x.frame[f].fsi \in Fsi
    /\ x.stop = "FrameFault" => x.need \in Fsi
    /\ \E q : Through(x.av, x.frame, q, B)

(* From z to x nothing happens to lists, LF and the new context.             *)
Calm(z, x) ==
    /\ Whole(x) /\ x.av = z.av
    /\ \A f \in Frames : x.frame[f].fsi = z.frame[f].fsi /\ x.frame[f].local0 = z.frame[f].local0
    /\ x.stop = "FrameFault" => z.stop = "FrameFault" /\ x.need = z.need
    /\ Stopped(z) => Stopped(x)
    /\ x.lf = z.lf /\ x.to = z.to

(* Lists clear of B are clear of a part of it. *)
LEMMA ClearLess == ASSUME NEW x, NEW B, Clear(x, B), NEW C, C \subseteq B PROVE Clear(x, C)
BY DEF Clear, Through

(* The lists see no other field of a frame than size and first local. *)
LEMMA ThroughFrames ==
    ASSUME NEW av, NEW fr, NEW q, NEW B, Through(av, fr, q, B), NEW gr,
           \A f \in Frames : gr[f].fsi = fr[f].fsi /\ gr[f].local0 = fr[f].local0
    PROVE  Through(av, gr, q, B)
BY DEF Through, Threaded

(* Calm steps keep the lists where they are. *)
LEMMA ClearCalm == ASSUME NEW z, NEW B, Clear(z, B), NEW x, Calm(z, x) PROVE Clear(x, B)
<1>1. PICK q : Through(z.av, z.frame, q, B) BY DEF Clear
<1>2. Through(x.av, x.frame, q, B) BY <1>1, ThroughFrames DEF Calm
<1> QED BY <1>2 DEF Clear, Calm

(* A stop is calm, unless it is a frame fault. *)
LEMMA UnlessCalm ==
    ASSUME NEW z, NEW x, Calm(z, x), NEW bad, NEW why, why # "FrameFault"
    PROVE  Calm(z, Unless(x, bad, why))
BY DEF Whole, Calm, Unless, Registers, Stopped

(* A page fault is calm. *)
LEMMA TouchCalm ==
    ASSUME NEW z, NEW x, Calm(z, x), NEW what, NEW of PROVE Calm(z, Touch(x, what, of))
BY UnlessCalm DEF Touch

(* Push is calm. *)
LEMMA PushCalm == ASSUME NEW z, NEW x, Calm(z, x), NEW v PROVE Calm(z, Push(x, v))
BY DEF Whole, Calm, Unless, Registers, Push, Do, Stopped

(* Pop is calm. *)
LEMMA PopCalm == ASSUME NEW z, NEW x, Calm(z, x) PROVE Calm(z, Pop(x))
BY DEF Whole, Calm, Unless, Registers, Pop, Do, Stopped

(* Recover is calm. *)
LEMMA RecoverCalm == ASSUME NEW z, NEW x, Calm(z, x) PROVE Calm(z, Recover(x))
BY DEF Whole, Calm, Unless, Registers, Recover, Do, Stopped

(* Reading a frame is calm. *)
LEMMA GetFrameCalm ==
    ASSUME NEW z, NEW x, Calm(z, x), NEW f, NEW field PROVE Calm(z, GetFrame(x, f, field))
<1> DEFINE y == Touch(x, "frame", f)
<1>1. Calm(z, y) BY TouchCalm
<1> HIDE DEF y
<1> QED BY <1>1 DEF GetFrame, y, Do, Calm, Whole, Registers, Stopped

(* Writing a frame is calm, but for size and first local. *)
LEMMA SetFrameCalm ==
    ASSUME NEW z, NEW x, Calm(z, x), NEW f, NEW field, field \notin {"fsi", "local0"}, NEW value
    PROVE  Calm(z, SetFrame(x, f, field, value))
<1> DEFINE y == Touch(x, "frame", f)
<1>1. Calm(z, y) BY TouchCalm
<1> HIDE DEF y
<1> QED BY <1>1 DEF SetFrame, y, Do, Calm, Whole, Registers, Fields, Stopped

(* Writing a port is calm. *)
LEMMA SetPortCalm ==
    ASSUME NEW z, NEW x, Calm(z, x), NEW p, NEW field, NEW value
    PROVE  Calm(z, SetPort(x, p, field, value))
<1> DEFINE y == Touch(x, "port", p)
<1>1. Calm(z, y) BY TouchCalm
<1> HIDE DEF y
<1> QED BY <1>1 DEF SetPort, y, Do, Calm, Whole, Registers, Stopped

(* Saving the PC is calm. *)
LEMMA SavePCCalm == ASSUME NEW z, NEW x, Calm(z, x) PROVE Calm(z, SavePC(x))
BY SetFrameCalm DEF SavePC

(* Reading the transfer descriptor is calm. *)
LEMMA DescriptorCalm == ASSUME NEW z, NEW x, Calm(z, x) PROVE Calm(z, Descriptor(x))
BY SavePCCalm, GetFrameCalm DEF Descriptor

(* A transfer by a trap is calm. *)
LEMMA ByTrapCalm ==
    ASSUME NEW z, NEW x, Calm(z, x), NEW f, NEW src PROVE Calm(z, ByTrap(x, f, src))
<1> DEFINE s == SetFrame(x, f, "ret", src)
           u == Unless(s, x.wdc = MaxWDC, "InterruptError")
<1>1. Calm(z, s) BY SetFrameCalm
<1> HIDE DEF s
<1>2. Calm(z, u) BY <1>1, UnlessCalm
<1> HIDE DEF u
<1> QED BY <1>2 DEF ByTrap, s, u, Do, Calm, Whole, Registers, Stopped

(* To follow a link is calm. *)
LEMMA FollowedCalm ==
    ASSUME NEW z, NEW x, Calm(z, x), NEW dst, NEW type PROVE Calm(z, Followed(x, dst, type))
BY UnlessCalm, TouchCalm DEF Followed

(* The words above the stack are calm. *)
LEMMA AnnounceCalm ==
    ASSUME NEW z, NEW x, Calm(z, x), NEW dst, NEW src PROVE Calm(z, Announce(x, dst, src))
<1> DEFINE a == Push(x, dst.to)
           b == Push(a, src.to)
<1>1. Calm(z, a) BY PushCalm
<1> HIDE DEF a
<1>2. Calm(z, b) BY <1>1, PushCalm
<1> HIDE DEF b
<1> QED BY <1>2 DEF Announce, a, b, Do, Calm, Whole, Registers, Stopped

(* Loading a module is calm. *)
LEMMA LoadGlobalsCalm ==
    ASSUME NEW z, NEW x, Calm(z, x), NEW mod PROVE Calm(z, LoadGlobals(x, mod))
<1> DEFINE t == Touch(x, "gft", Nil)
           g == Do(t, LAMBDA y : [y EXCEPT !.gf = mod])
<1>1. Calm(z, t) BY TouchCalm
<1> HIDE DEF t
<1>2. Calm(z, g) BY <1>1 DEF Do, Calm, Whole, Registers, Stopped
<1>3. LoadGlobals(x, mod) = Unless(g, mod \in x.swapped, "CodeTrap") BY DEF LoadGlobals, g, t
<1> HIDE DEF g
<1> QED BY <1>2, <1>3, UnlessCalm

(* The test for xfer traps is calm. *)
LEMMA CheckCalm == ASSUME NEW z, NEW x, Calm(z, x) PROVE Calm(z, CheckForXferTraps(x))
<1> DEFINE w == Touch(x, "global", x.gf)
<1>1. Calm(z, w) BY TouchCalm
<1> HIDE DEF w
<1> QED BY <1>1 DEF CheckForXferTraps, w, Do, Calm, Whole, Registers, Stopped

---------------------------------------------------------------------------
(* Induction along an interval, from the well-foundedness of finite sets. *)
LEMMA IntervalInduction ==
  ASSUME NEW n \in Nat, NEW T \in SUBSET (0 .. n), 0 \in T,
         \A k \in 0 .. n - 1 : k \in T => k + 1 \in T
  PROVE  T = 0 .. n
<1> SUFFICES ASSUME NEW j \in 0 .. n, j \notin T PROVE FALSE
  OBVIOUS
<1> DEFINE Missed == {U \in SUBSET (0 .. n) : \E k \in 0 .. n : U = 0 .. k /\ k \notin T}
           Less == StrictSubsetOrdering(0 .. n)
<1>1. IsWellFoundedOn(Less, SUBSET (0 .. n))
  <2>1. IsFiniteSet(0 .. n)
    BY FS_Interval
  <2>2. QED
    BY <2>1, FS_StrictSubsetOrderingWellFounded, FS_FiniteSubsetsOfFinite
<1>2. 0 .. j \in Missed
  OBVIOUS
<1>3. PICK U \in Missed : \A V \in Missed : <<V, U>> \notin Less
  <2> HIDE DEF Less
  <2>1. Missed \subseteq SUBSET (0 .. n)
    OBVIOUS
  <2> HIDE DEF Missed
  <2>2. QED
    BY <1>1, <1>2, <2>1, WFMin
<1>4. PICK k \in 0 .. n : U = 0 .. k /\ k \notin T
  OBVIOUS
<1>5. k # 0 /\ k - 1 \in 0 .. n - 1 /\ k - 1 \notin T
  BY <1>4
<1>6. 0 .. k - 1 \in Missed
  BY <1>5
<1>7. <<0 .. k - 1, U>> \in Less
  BY <1>4, <1>5 DEF StrictSubsetOrdering
<1>8. QED
  BY <1>3, <1>6, <1>7

(* the first frame of a list is taken from it *)
Takes(av, fr, q, B, s, f) ==
    /\ f \in Frames \ B
    /\ Through([av EXCEPT ![s] = fr[f].local0], fr, [q EXCEPT ![s] = Tail(@)], B \cup {f})

(* A list without its first frame is still a list, and that frame on none. *)
LEMMA Taken ==
    ASSUME NEW av, DOMAIN av = Fsi, NEW fr, NEW q, NEW B, Through(av, fr, q, B),
           NEW s \in Fsi, av[s].tag = "frame"
    PROVE  Takes(av, fr, q, B, s, av[s].to)
<1> DEFINE f == av[s].to
           r == [q EXCEPT ![s] = Tail(@)]
           bv == [av EXCEPT ![s] = fr[f].local0]
<1>1. q[s] # << >> /\ f = q[s][1] /\ q[s] \in Seq(Frames) /\ 1 \in DOMAIN q[s]
  <2>1. ListEnd[s].tag # "frame" BY FrameAssumption DEF LeftSound
  <2>2. av[s] = ItemAt(s, q[s], 1) /\ q[s] \in Seq(Frames) BY DEF Through, Threaded
  <2>3. 1 \in DOMAIN q[s] /\ f = q[s][1] BY <2>1, <2>2 DEF ItemAt, Item
  <2> QED BY <2>2, <2>3
<1>2. r \in [Fsi -> Seq(Frames)] BY <1>1 DEF Through
<1>3. \A n \in DOMAIN Tail(q[s]) : n + 1 \in DOMAIN q[s] /\ Tail(q[s])[n] = q[s][n + 1]
  BY <1>1
<1>4. \A n \in Nat : n \in DOMAIN Tail(q[s]) <=> n # 0 /\ n + 1 \in DOMAIN q[s]
  BY <1>1
<1>5. \A t \in Fsi \ {s} : r[t] = q[t] BY DEF Through
<1>6. r[s] = Tail(q[s]) BY DEF Through
<1>7. \A n \in DOMAIN r[s] : n \in Nat BY <1>1, <1>6
<1>8. bv[s] = fr[f].local0 /\ \A t \in Fsi \ {s} : bv[t] = av[t] OBVIOUS
<1>9. f \in Frames \ B BY <1>1 DEF Through
<1>10. fr[f].local0 = ItemAt(s, q[s], 2) BY <1>1 DEF Through, Threaded
<1>11. ASSUME NEW n \in Nat \ {0} PROVE ItemAt(s, r[s], n) = ItemAt(s, q[s], n + 1)
  <2>1. CASE n \in DOMAIN r[s]
    <3>1. n + 1 \in DOMAIN q[s] /\ r[s][n] = q[s][n + 1] BY <2>1, <1>3, <1>6
    <3> QED BY <2>1, <3>1 DEF ItemAt
  <2>2. CASE n \notin DOMAIN r[s]
    <3>1. n + 1 \notin DOMAIN q[s] BY <2>2, <1>4, <1>6
    <3> QED BY <2>2, <3>1 DEF ItemAt
  <2> QED BY <2>1, <2>2
<1> HIDE DEF r, bv
<1>12. ASSUME NEW t \in Fsi PROVE bv[t] = ItemAt(t, r[t], 1)
  <2>1. CASE t = s BY <2>1, <1>8, <1>10, <1>11
  <2>2. CASE t # s BY <2>2, <1>5, <1>8 DEF Through, Threaded
  <2> QED BY <2>1, <2>2
<1>13. ASSUME NEW t \in Fsi, NEW n \in DOMAIN r[t]
       PROVE  fr[r[t][n]].fsi = t /\ fr[r[t][n]].local0 = ItemAt(t, r[t], n + 1)
  <2>1. CASE t = s
    <3>1. n \in Nat /\ n + 1 \in DOMAIN q[s] /\ r[s][n] = q[s][n + 1] /\ n # 0
      BY <2>1, <1>3, <1>4, <1>6, <1>7
    <3>2. ItemAt(s, r[s], n + 1) = ItemAt(s, q[s], n + 1 + 1) BY <3>1, <1>11
    <3> QED BY <2>1, <3>1, <3>2 DEF Through, Threaded
  <2>2. CASE t # s BY <2>2, <1>5 DEF Through, Threaded
  <2> QED BY <2>1, <2>2
<1>14. \A t \in Fsi : \A n \in DOMAIN r[t] :
          \E m \in DOMAIN q[t] : r[t][n] = q[t][m] /\ m = IF t = s THEN n + 1 ELSE n
  BY <1>3, <1>5, <1>6
<1>18. \A t, u \in Fsi : \A i \in DOMAIN q[t], j \in DOMAIN q[u] : q[t][i] = q[u][j] => t = u /\ i = j
  BY DEF Through, Threaded
<1>15. ASSUME NEW t \in Fsi, NEW u \in Fsi, NEW m \in DOMAIN r[t], NEW n \in DOMAIN r[u],
             r[t][m] = r[u][n]
       PROVE  t = u /\ m = n
  <2>1. PICK i \in DOMAIN q[t] : r[t][m] = q[t][i] /\ i = IF t = s THEN m + 1 ELSE m BY <1>14
  <2>2. PICK j \in DOMAIN q[u] : r[u][n] = q[u][j] /\ j = IF u = s THEN n + 1 ELSE n BY <1>14
  <2>3. q[t][i] = q[u][j] BY <1>15, <2>1, <2>2
  <2>4. t = u /\ i = j BY <1>18, <2>3
  <2> QED BY <2>1, <2>2, <2>4, <1>7
<1>16. ASSUME NEW t \in Fsi, NEW n \in DOMAIN r[t] PROVE r[t][n] \notin B \cup {f}
  <2>1. PICK i \in DOMAIN q[t] : r[t][n] = q[t][i] /\ i = IF t = s THEN n + 1 ELSE n BY <1>14
  <2>2. q[t][i] \notin B BY DEF Through
  <2>3. ASSUME q[t][i] = f PROVE FALSE
    <3>1. t = s /\ i = 1 BY <2>3, <1>1 DEF Through, Threaded
    <3>2. n \in Nat /\ n # 0 BY <3>1, <1>4, <1>6, <1>7
    <3> QED BY <3>1, <3>2, <2>1
  <2> QED BY <2>1, <2>2, <2>3
<1>17. Threaded(bv, fr, r) BY <1>12, <1>13, <1>15 DEF Threaded
<1> QED BY <1>2, <1>9, <1>16, <1>17 DEF Through, r, bv, Takes

(* a frame on no list becomes the first of one *)
LEMMA Given ==
    ASSUME NEW av, DOMAIN av = Fsi, NEW fr, DOMAIN fr = Frames, NEW q, NEW B, NEW f \in B, f \in Frames,
           Through(av, fr, q, B), NEW s \in Fsi,
           NEW gr, gr[f].local0 = av[s], gr[f].fsi = s, \A g \in Frames \ {f} : gr[g] = fr[g]
    PROVE  Through([av EXCEPT ![s] = Item("frame", f)], gr, [q EXCEPT ![s] = <<f>> \o @], B \ {f})
<1> DEFINE r == [q EXCEPT ![s] = <<f>> \o @]
           bv == [av EXCEPT ![s] = Item("frame", f)]
<1>1. q[s] \in Seq(Frames) /\ q \in [Fsi -> Seq(Frames)] BY DEF Through
<1>2. r \in [Fsi -> Seq(Frames)] BY <1>1
<1>3. r[s] = <<f>> \o q[s] /\ \A t \in Fsi \ {s} : r[t] = q[t] BY <1>1
<1>4. bv[s] = Item("frame", f) /\ \A t \in Fsi \ {s} : bv[t] = av[t] OBVIOUS
<1>5. /\ 1 \in DOMAIN r[s] /\ r[s][1] = f
      /\ \A n \in Nat \ {0} : n + 1 \in DOMAIN r[s] <=> n \in DOMAIN q[s]
      /\ \A n \in DOMAIN q[s] : n \in Nat \ {0} /\ r[s][n + 1] = q[s][n]
      /\ \A n \in DOMAIN r[s] : n \in Nat /\ (n # 1 => n - 1 \in DOMAIN q[s] /\ r[s][n] = q[s][n - 1])
  <2>1. /\ Len(q[s]) \in Nat
        /\ DOMAIN r[s] = 1 .. Len(q[s]) + 1 /\ DOMAIN q[s] = 1 .. Len(q[s])
    BY <1>1, <1>3
  <2>2. \A n \in 1 .. Len(q[s]) + 1 : r[s][n] = IF n = 1 THEN f ELSE q[s][n - 1]
    BY <1>1, <1>3
  <2> HIDE DEF r
  <2>3. 1 \in DOMAIN r[s] /\ r[s][1] = f BY <2>1, <2>2
  <2>4. \A n \in Nat \ {0} : n + 1 \in DOMAIN r[s] <=> n \in DOMAIN q[s] BY <2>1
  <2>5. ASSUME NEW n \in DOMAIN q[s] PROVE n \in Nat \ {0} /\ r[s][n + 1] = q[s][n]
    <3>1. n \in Nat \ {0} /\ n + 1 \in 1 .. Len(q[s]) + 1 /\ n + 1 - 1 = n BY <2>1
    <3> QED BY <2>2, <3>1
  <2>6. ASSUME NEW n \in DOMAIN r[s]
        PROVE  n \in Nat /\ (n # 1 => n - 1 \in DOMAIN q[s] /\ r[s][n] = q[s][n - 1])
    BY <2>1, <2>2
  <2> QED BY <2>3, <2>4, <2>5, <2>6
<1> HIDE DEF r, bv
<1>6. \A t \in Fsi : \A n \in DOMAIN q[t] : q[t][n] \in Frames \ {f} BY DEF Through
<1>7. ASSUME NEW n \in Nat \ {0} PROVE ItemAt(s, r[s], n + 1) = ItemAt(s, q[s], n)
  <2>1. CASE n \in DOMAIN q[s]
    <3>1. n + 1 \in DOMAIN r[s] BY <2>1, <1>5
    <3>2. r[s][n + 1] = q[s][n] BY <2>1, <1>5
    <3> QED BY <2>1, <3>1, <3>2 DEF ItemAt
  <2>2. CASE n \notin DOMAIN q[s]
    <3>1. n + 1 \notin DOMAIN r[s] BY <2>2, <1>5
    <3> QED BY <2>2, <3>1 DEF ItemAt
  <2> QED BY <2>1, <2>2
<1>8. ASSUME NEW t \in Fsi PROVE bv[t] = ItemAt(t, r[t], 1)
  <2>1. CASE t = s BY <2>1, <1>4, <1>5 DEF ItemAt
  <2>2. CASE t # s BY <2>2, <1>3, <1>4 DEF Through, Threaded
  <2> QED BY <2>1, <2>2
<1>9. ASSUME NEW t \in Fsi, NEW n \in DOMAIN q[t]
      PROVE gr[q[t][n]].fsi = t /\ gr[q[t][n]].local0 = ItemAt(t, q[t], n + 1)
  BY <1>6 DEF Through, Threaded
<1>10. ASSUME NEW t \in Fsi, NEW n \in DOMAIN r[t]
       PROVE  gr[r[t][n]].fsi = t /\ gr[r[t][n]].local0 = ItemAt(t, r[t], n + 1)
  <2>1. CASE t = s /\ n = 1
    <3>1. av[s] = ItemAt(s, q[s], 1) BY DEF Through, Threaded
    <3>2. ItemAt(s, r[s], 1 + 1) = ItemAt(s, q[s], 1) BY <1>7
    <3> QED BY <2>1, <1>5, <3>1, <3>2
  <2>2. CASE t = s /\ n # 1
    <3>1. n - 1 \in DOMAIN q[s] /\ r[s][n] = q[s][n - 1] /\ n - 1 \in Nat \ {0} /\ n \in Nat \ {0}
      BY <2>2, <1>5
    <3>2. ItemAt(s, r[s], n + 1) = ItemAt(s, q[s], n) BY <3>1, <1>7
    <3>3. n = n - 1 + 1 BY <3>1
    <3> QED BY <2>2, <3>1, <3>2, <3>3, <1>9
  <2>3. CASE t # s BY <2>3, <1>3, <1>9
  <2> QED BY <2>1, <2>2, <2>3
<1>11. \A t \in Fsi : \A n \in DOMAIN r[t] :
          \/ t = s /\ n = 1 /\ r[t][n] = f
          \/ \E m \in DOMAIN q[t] : r[t][n] = q[t][m] /\ n = IF t = s THEN m + 1 ELSE m
  <2>1. ASSUME NEW n \in DOMAIN r[s], n # 1
        PROVE  \E m \in DOMAIN q[s] : r[s][n] = q[s][m] /\ n = m + 1
    <3>1. n \in Nat /\ n - 1 \in DOMAIN q[s] /\ r[s][n] = q[s][n - 1] BY <1>5, <2>1
    <3>2. n = n - 1 + 1 BY <3>1
    <3> QED BY <3>1, <3>2
  <2>2. ASSUME NEW t \in Fsi \ {s}, NEW n \in DOMAIN r[t]
        PROVE  \E m \in DOMAIN q[t] : r[t][n] = q[t][m] /\ n = m
    BY <1>3
  <2>3. r[s][1] = f BY <1>5
  <2> QED BY <2>1, <2>2, <2>3
<1>12. \A t, u \in Fsi : \A i \in DOMAIN q[t], j \in DOMAIN q[u] : q[t][i] = q[u][j] => t = u /\ i = j
  BY DEF Through, Threaded
<1>13. ASSUME NEW t \in Fsi, NEW u \in Fsi, NEW m \in DOMAIN r[t], NEW n \in DOMAIN r[u],
             r[t][m] = r[u][n]
       PROVE  t = u /\ m = n
  BY <1>6, <1>11, <1>12, <1>13
<1>14. ASSUME NEW t \in Fsi, NEW n \in DOMAIN r[t] PROVE r[t][n] \notin B \ {f}
  BY <1>11 DEF Through
<1>15. Threaded(bv, gr, r) BY <1>8, <1>10, <1>13 DEF Threaded
<1> QED BY <1>2, <1>14, <1>15 DEF Through, r, bv

(* the head of the list that Alloc takes from is a frame, or it is empty *)
LEMMA SlotEnds ==
    ASSUME NEW av, NEW fr, NEW q, NEW B, Through(av, fr, q, B), NEW fsi \in Fsi
    PROVE  Slot(av, fsi) \in Fsi /\ av[Slot(av, fsi)].tag # "indirect"
<1> DEFINE top == Cardinality(Fsi) - 1
           Is(g, k) == /\ g = [i \in top - k .. top |-> IF av[i].tag = "indirect" THEN g[av[i].to] ELSE i]
                       /\ \A i \in top - k .. top : g[i] \in Fsi /\ av[g[i]].tag # "indirect"
           Ks == {k \in 0 .. top : \E g : Is(g, k)}
           follow == CHOOSE g : g = [i \in Fsi |-> IF av[i].tag = "indirect" THEN g[av[i].to] ELSE i]
<1>1. top \in Nat /\ Fsi = 0 .. top
  BY FrameAssumption, FS_CardinalityType DEF LeftSound
<1>2. \A i \in Fsi : av[i].tag = "indirect" => av[i].to \in Fsi /\ av[i].to > i
  <2> SUFFICES ASSUME NEW i \in Fsi, av[i].tag = "indirect" PROVE av[i].to \in Fsi /\ av[i].to > i
    OBVIOUS
  <2>1. av[i] = ItemAt(i, q[i], 1) BY DEF Through, Threaded
  <2>2. av[i] = ListEnd[i] BY <2>1 DEF ItemAt, Item
  <2> QED BY <2>2, FrameAssumption DEF LeftSound
<1> HIDE DEF top
<1>3. 0 \in Ks
  <2>1. Is([i \in top - 0 .. top |-> i], 0)
    BY <1>1, <1>2
  <2> HIDE DEF Is
  <2> QED BY <1>1, <2>1
<1>4. ASSUME NEW k \in 0 .. top - 1, k \in Ks PROVE k + 1 \in Ks
  <2>1. PICK g : Is(g, k) BY <1>4
  <2> DEFINE j == top - (k + 1)
             h == [i \in j .. top |-> IF i = j THEN IF av[j].tag = "indirect" THEN g[av[j].to] ELSE j
                                      ELSE g[i]]
  <2>2. j \in Fsi /\ j + 1 = top - k /\ \A i \in j .. top : i = j \/ i \in top - k .. top BY <1>1
  <2>3. ASSUME NEW i \in j .. top
        PROVE /\ h[i] = IF av[i].tag = "indirect" THEN h[av[i].to] ELSE i
              /\ h[i] \in Fsi /\ av[h[i]].tag # "indirect"
    <3>1. CASE i = j
      <4>1. av[j].tag = "indirect" => av[j].to \in top - k .. top /\ av[j].to # j
        BY <1>1, <1>2, <2>2
      <4>2. h[j] = IF av[j].tag = "indirect" THEN g[av[j].to] ELSE j BY <2>2, <3>1
      <4>3. av[j].tag = "indirect" => h[av[j].to] = g[av[j].to]
        BY <1>1, <2>2, <4>1
      <4> HIDE DEF h, j
      <4> QED BY <2>1, <2>2, <3>1, <4>1, <4>2, <4>3
    <3>2. CASE i # j
      <4>1. i \in top - k .. top /\ i \in Fsi BY <1>1, <2>2, <3>2
      <4>2. av[i].tag = "indirect" => av[i].to \in top - k .. top /\ av[i].to # j /\ av[i].to \in j .. top
        BY <1>1, <1>2, <2>2, <4>1
      <4>3. h[i] = g[i] /\ (av[i].tag = "indirect" => h[av[i].to] = g[av[i].to])
        BY <3>2, <4>2
      <4> HIDE DEF h, j
      <4> QED BY <2>1, <4>1, <4>2, <4>3
    <3> QED BY <3>1, <3>2
  <2>4. Is(h, k + 1)
    <3>1. h = [i \in j .. top |-> IF av[i].tag = "indirect" THEN h[av[i].to] ELSE i] BY <2>3
    <3> HIDE DEF h
    <3> QED BY <3>1, <2>3
  <2> HIDE DEF Is, h
  <2> QED BY <1>1, <2>4
<1>5. top \in Ks
  <2> HIDE DEF Is
  <2>1. Ks \in SUBSET (0 .. top) OBVIOUS
  <2> HIDE DEF Ks
  <2>2. Ks = 0 .. top BY <1>1, <1>3, <1>4, <2>1, IntervalInduction
  <2> QED BY <1>1, <2>2
<1>6. PICK g : Is(g, top) BY <1>5
<1>7. top - top .. top = Fsi BY <1>1
<1>8. follow = [i \in Fsi |-> IF av[i].tag = "indirect" THEN follow[av[i].to] ELSE i] BY <1>6, <1>7
<1> HIDE DEF follow
<1> DEFINE Good == {k \in 0 .. top : \A i \in top - k .. top :
                                      follow[i] \in Fsi /\ av[follow[i]].tag # "indirect"}
<1>9. 0 \in Good BY <1>1, <1>2, <1>8
<1>10. ASSUME NEW k \in 0 .. top - 1, k \in Good PROVE k + 1 \in Good
  <2>1. ASSUME NEW i \in top - (k + 1) .. top, i \notin top - k .. top
        PROVE follow[i] \in Fsi /\ av[follow[i]].tag # "indirect"
    <3>1. i = top - (k + 1) /\ i \in Fsi BY <1>1, <2>1
    <3>2. follow[i] = IF av[i].tag = "indirect" THEN follow[av[i].to] ELSE i BY <1>8, <3>1
    <3>3. av[i].tag = "indirect" => av[i].to \in top - k .. top BY <1>1, <1>2, <3>1
    <3> QED BY <1>10, <3>1, <3>2, <3>3
  <2> QED BY <1>1, <1>10, <2>1
<1>11. Good = 0 .. top
  <2>1. Good \in SUBSET (0 .. top) OBVIOUS
  <2> HIDE DEF Good
  <2> QED BY <1>1, <1>9, <1>10, <2>1, IntervalInduction
<1>12. top \in Good BY <1>1, <1>11
<1> QED BY <1>7, <1>12 DEF Slot, follow

---------------------------------------------------------------------------
(* a frame, left in v, that was not of B *)
Gives(y, B) == Clear(y, B) /\ (~Stopped(y) => y.v \in Frames \ B /\ Clear(y, B \cup {y.v}))

(* Nothing at all is calm. *)
LEMMA CalmItself == ASSUME NEW x, NEW B, Clear(x, B) PROVE Calm(x, x)
BY DEF Calm, Clear

(* Alloc takes a frame off the lists, or stops and changes none. *)
LEMMA AllocGives ==
    ASSUME NEW x, NEW B, Clear(x, B), NEW fsi \in Fsi PROVE Gives(Alloc(x, fsi), B)
<1> DEFINE s == Slot(x.av, fsi)
           n == [x EXCEPT !.need = fsi]
           t == Touch(n, "av", Nil)
           e == Unless(t, n.av[s].tag = "empty", "FrameFault")
           f == x.av[s].to
           g == GetFrame(e, e.av[s].to, "local0")
           y == [g EXCEPT !.av[s] = g.v, !.v = g.av[s].to]
<1>1. Alloc(x, fsi) = IF Stopped(e) THEN e ELSE IF Stopped(g) THEN g ELSE y
  BY DEF Alloc, AllocSlot, e, t, g, n, s, Do, y
<1>2. PICK q : Through(x.av, x.frame, q, B) BY DEF Clear
<1>3. s \in Fsi /\ x.av[s].tag # "indirect" BY <1>2, SlotEnds
<1>4. /\ Whole(e) /\ e.av = x.av /\ e.frame = x.frame /\ e.need = fsi
      /\ ~Stopped(e) => x.av[s].tag # "empty"
  BY DEF Clear, Unless, Touch, Whole, Registers, Stopped
<1> HIDE DEF e, s
<1>5. Clear(e, B) BY <1>2, <1>4 DEF Clear
<1>6. Calm(e, g) BY <1>5, CalmItself, GetFrameCalm
<1>7. Clear(g, B) BY <1>5, <1>6, ClearCalm
<1>8. ASSUME ~Stopped(e), ~Stopped(g) PROVE y.v \in Frames \ B /\ Clear(y, B \cup {y.v})
  <2>1. x.av[s].tag = "frame"
    <3>1. x.av[s] = ItemAt(s, q[s], 1) BY <1>2, <1>3 DEF Through, Threaded
    <3> QED BY <3>1, <1>3, <1>4, <1>8, FrameAssumption DEF ItemAt, Item, LeftSound
  <2>2. g.v = x.frame[f].local0 BY <1>4, <1>8, GetFrameV
  <2>3. Through(x.av, g.frame, q, B) BY <1>2, <1>4, <1>6, ThroughFrames DEF Calm
  <2> DEFINE r == [q EXCEPT ![s] = Tail(@)]
             bv == [x.av EXCEPT ![s] = g.frame[f].local0]
  <2>4. f \in Frames \ B /\ Through(bv, g.frame, r, B \cup {f})
    <3>1. DOMAIN x.av = Fsi BY DEF Clear
    <3>2. Takes(x.av, g.frame, q, B, s, f) BY <1>3, <2>1, <2>3, <3>1, Taken
    <3> QED BY <3>2 DEF Takes
  <2>5. g.frame[f].local0 = x.frame[f].local0 BY <1>4, <1>6, <2>4 DEF Calm
  <2>6. /\ Whole(y) /\ y.av = bv /\ y.v = f /\ y.frame = g.frame /\ y.stop = g.stop /\ y.need = g.need
        /\ DOMAIN y.av = Fsi
    BY <1>4, <1>6, <2>2, <2>5 DEF Calm, Whole, Registers, Clear
  <2> HIDE DEF y, bv, r
  <2> QED BY <1>7, <2>4, <2>6 DEF Clear
<1>9. Stopped(y) => Stopped(g) BY <1>6 DEF Stopped, Calm, Whole, Registers
<1> HIDE DEF y, g
<1> QED BY <1>1, <1>5, <1>7, <1>8, <1>9, ClearLess DEF Gives

Sets(x, f, field, value, y) ==
    /\ Whole(y) /\ y.av = x.av /\ y.v = x.v /\ y.need = x.need /\ y.lf = x.lf
    /\ y.stop = "FrameFault" => x.stop = "FrameFault"
    /\ y.frame = IF Stopped(y) THEN x.frame ELSE [x.frame EXCEPT ![f][field] = value]

(* What writing a frame does, page fault or not. *)
LEMMA SetFrameSets ==
    ASSUME NEW x, Whole(x), NEW f, NEW field, NEW value
    PROVE  Sets(x, f, field, value, SetFrame(x, f, field, value))
BY DEF Sets, SetFrame, Do, Touch, Unless, Whole, Registers, Fields, Stopped

(* The first local of a frame on no list is free for any use. *)
LEMMA Local0Clear ==
    ASSUME NEW x, NEW B, Clear(x, B), NEW f \in B, f \in Frames, NEW value
    PROVE  Clear(SetFrame(x, f, "local0", value), B)
<1> DEFINE y == SetFrame(x, f, "local0", value)
<1>1. PICK q : Through(x.av, x.frame, q, B) BY DEF Clear
<1>2. /\ Whole(y) /\ y.av = x.av /\ y.need = x.need /\ (y.stop = "FrameFault" => x.stop = "FrameFault")
      /\ y.frame = IF Stopped(y) THEN x.frame ELSE [x.frame EXCEPT ![f]["local0"] = value]
  <2>1. Sets(x, f, "local0", value, y) BY SetFrameSets DEF Clear
  <2> HIDE DEF y
  <2> QED BY <2>1 DEF Sets
<1> HIDE DEF y
<1>3. /\ \A g \in Frames : y.frame[g].fsi = x.frame[g].fsi
      /\ \A g \in Frames \ {f} : y.frame[g].local0 = x.frame[g].local0
  BY <1>2 DEF Clear, Whole, Fields
<1>4. \A s \in Fsi : \A n \in DOMAIN q[s] : q[s][n] \in Frames /\ q[s][n] # f
  BY <1>1 DEF Through
<1>5. Threaded(y.av, y.frame, q) BY <1>1, <1>2, <1>3, <1>4 DEF Through, Threaded
<1>6. Through(y.av, y.frame, q, B) BY <1>1, <1>5 DEF Through
<1>7. DOMAIN y.av = Fsi /\ (y.stop = "FrameFault" => y.need \in Fsi) BY <1>2 DEF Clear
<1>8. ASSUME NEW g \in Frames PROVE y.frame[g].fsi \in Fsi
  <2>1. x.frame[g].fsi \in Fsi BY DEF Clear
  <2> QED BY <1>3, <2>1
<1>9. Clear(y, B) BY <1>2, <1>6, <1>7, <1>8 DEF Clear
<1> QED BY <1>9 DEF y

(* Free puts a frame on the list of its size, or stops and changes none. *)
LEMMA FreeClear ==
    ASSUME NEW x, NEW B, Clear(x, B), NEW f \in B, f \in Frames
    PROVE  Clear(Free(x, f), B \ {f}) /\ (Stopped(Free(x, f)) => Clear(Free(x, f), B))
<1> DEFINE g == GetFrame(x, f, "fsi")
           a == Touch(g, "av", Nil)
           s == SetFrame(a, f, "local0", a.av[a.v])
           z == [s EXCEPT !.av[s.v] = Item("frame", f)]
<1>1. Free(x, f) = IF Stopped(a) THEN a ELSE IF Stopped(s) THEN s ELSE z
  BY DEF Free, a, s, g, Do, z
<1>2. Calm(x, g) BY CalmItself, GetFrameCalm
<1>3. ~Stopped(g) => g.v = x.frame[f].fsi BY GetFrameV DEF Clear
<1> HIDE DEF g
<1>4. Calm(x, a) BY <1>2, TouchCalm
<1>5. ~Stopped(a) => a.v = x.frame[f].fsi
  BY <1>2, <1>3 DEF Touch, Unless, Stopped, Calm, Whole, Registers
<1> HIDE DEF a
<1>6. Clear(a, B) BY <1>4, ClearCalm
<1>7. Clear(s, B) BY <1>6, Local0Clear
<1>8. /\ Whole(s) /\ s.av = a.av /\ s.v = a.v
      /\ s.frame = IF Stopped(s) THEN a.frame ELSE [a.frame EXCEPT ![f]["local0"] = a.av[a.v]]
  <2>1. Sets(a, f, "local0", a.av[a.v], s) BY <1>6, SetFrameSets DEF Clear
  <2> HIDE DEF s
  <2> QED BY <2>1 DEF Sets
<1> HIDE DEF s
<1>9. ASSUME ~Stopped(a), ~Stopped(s) PROVE Clear(z, B \ {f}) /\ ~Stopped(z)
  <2>1. PICK q : Through(a.av, a.frame, q, B) BY <1>6 DEF Clear
  <2>2. a.v \in Fsi /\ a.v = a.frame[f].fsi BY <1>4, <1>5, <1>9 DEF Clear, Calm
  <2>3. /\ s.frame[f].local0 = a.av[a.v] /\ s.frame[f].fsi = a.v
        /\ \A h \in Frames \ {f} : s.frame[h] = a.frame[h]
    BY <1>6, <1>8, <1>9, <2>2 DEF Clear, Whole, Fields
  <2> DEFINE av == [a.av EXCEPT ![a.v] = Item("frame", f)]
             r == [q EXCEPT ![a.v] = <<f>> \o @]
  <2>4. DOMAIN a.av = Fsi /\ DOMAIN a.frame = Frames BY <1>6 DEF Clear, Whole
  <2>5. Through(av, s.frame, r, B \ {f}) BY <2>1, <2>2, <2>3, <2>4, Given
  <2>6. /\ Whole(z) /\ z.av = av /\ z.frame = s.frame /\ z.stop = s.stop /\ z.need = s.need
        /\ DOMAIN z.av = Fsi
    BY <1>8, <2>4 DEF Whole, Registers
  <2> HIDE DEF z, av, r
  <2> QED BY <1>7, <1>9, <2>5, <2>6 DEF Clear, Stopped
<1> HIDE DEF z
<1> QED BY <1>1, <1>6, <1>7, <1>9, ClearLess

(* So does the frame made for a procedure come off the lists. *)
LEMMA FrameForGives ==
    ASSUME NEW x, NEW B, Clear(x, B), NEW mod, NEW pc, Code[mod][pc].fsi \in Fsi, NEW gfi, NEW src
    PROVE  Gives(FrameFor(x, mod, pc, gfi, src), B)
<1> DEFINE e == Touch(x, "code", mod)
           f == Alloc(e, Code[mod][pc].fsi)
           g == SetFrame(f, f.v, "global", gfi)
           r == SetFrame(g, f.v, "ret", src)
<1>1. FrameFor(x, mod, pc, gfi, src) = IF Stopped(e) THEN e ELSE IF Stopped(f) THEN f ELSE r
  BY DEF FrameFor, e, f, g, r, Do
<1>2. Calm(x, e) BY CalmItself, TouchCalm
<1> HIDE DEF e
<1>3. Clear(e, B) BY <1>2, ClearCalm
<1>4. Gives(f, B) BY <1>3, AllocGives
<1> HIDE DEF f
<1>5. Calm(f, f) BY <1>4, CalmItself DEF Gives
<1>6. Calm(f, g) BY <1>5, SetFrameCalm
<1>9. g.v = f.v BY <1>5, SetFrameV DEF Calm
<1> HIDE DEF g
<1>7. Calm(f, r) BY <1>6, SetFrameCalm
<1>10. r.v = f.v BY <1>6, <1>9, SetFrameV DEF Calm
<1> HIDE DEF r
<1>8. Gives(r, B) BY <1>4, <1>7, <1>10, ClearCalm DEF Gives, Calm
<1> QED BY <1>1, <1>3, <1>4, <1>8 DEF Gives

---------------------------------------------------------------------------
(* link n leads to a frame of B that is not spare, or to a procedure *)
LeadsIn(n, B) ==
    IF n.kind = "frame" THEN n.to = Nil \/ n.to \in (B \cap Frames) \ spare
    ELSE n.mod # Nil /\ n.pc # 0 => Code[n.mod][n.pc].fsi \in Fsi

(* the transfer is to the frame n names, or to a new one *)
Arrives(x, y, n, B) ==
    /\ Clear(y, B) /\ y.lf = x.lf
    /\ ~Stopped(y) => /\ y.to.lf \in Frames /\ Clear(y, B \cup {y.to.lf})
                      /\ IF n.kind = "frame" THEN y.to.lf = n.to /\ n.to # Nil ELSE y.to.lf \notin B

(* A transfer to a procedure arrives in a frame on no list. *)
LEMMA ToProcedureArrives ==
    ASSUME NEW x, NEW B, Clear(x, B), NEW p, p.kind # "frame", LeadsIn(p, B), NEW src
    PROVE  Arrives(x, ToProcedure(x, p, src), p, B)
<1> DEFINE old == IF p.kind = "old" THEN Touch(x, "global", p.mod) ELSE x
           u == Unless(old, p.mod = Nil, "UnboundTrap")
           l == LoadGlobals(u, p.mod)
           g == Unless(l, p.pc = 0, "UnboundTrap")
           f == FrameFor(g, p.mod, p.pc, p.mod, src)
           t == [f EXCEPT !.to = [lf |-> f.v, gfi |-> p.mod, pc |-> p.pc + 1]]
<1>1. ToProcedure(x, p, src) = IF Stopped(g) THEN g ELSE IF Stopped(f) THEN f ELSE t
  BY DEF ToProcedure, Do, old, u, l, g, f, t
<1>2. Calm(x, old) BY CalmItself, TouchCalm
<1> HIDE DEF old
<1>3. Calm(x, u) BY <1>2, UnlessCalm
<1>4. ~Stopped(u) => p.mod # Nil BY DEF Unless, Stopped, u
<1> HIDE DEF u
<1>15. Calm(u, u) BY <1>3 DEF Calm
<1>5. Calm(x, l) /\ Calm(u, l) BY <1>3, <1>15, LoadGlobalsCalm
<1> HIDE DEF l
<1>6. Calm(x, g) /\ Calm(u, g) BY <1>5, UnlessCalm
<1>7. ~Stopped(g) => p.pc # 0
  <2>1. "UnboundTrap" # "run" OBVIOUS
  <2>2. l.stop # "run" => Stopped(g) BY DEF Unless, Stopped
  <2>3. ASSUME l.stop = "run", p.pc = 0 PROVE Stopped(g)
    BY <1>5, <2>3 DEF Unless, Stopped, Calm, Whole, Registers
  <2> QED BY <2>2, <2>3
<1> HIDE DEF g
<1>8. Clear(g, B) BY <1>6, ClearCalm
<1>9. g.lf = x.lf BY <1>6 DEF Calm
<1>10. ASSUME ~Stopped(g) PROVE Gives(f, B) /\ f.lf = x.lf
  <2>1. Code[p.mod][p.pc].fsi \in Fsi BY <1>4, <1>6, <1>7, <1>10 DEF Calm, LeadsIn
  <2>2. NewFor(g, f, p.mod) BY <1>8, FrameForNew DEF Clear
  <2>3. Gives(f, B) BY <1>8, <2>1, FrameForGives
  <2> QED BY <1>9, <2>2, <2>3 DEF NewFor
<1> HIDE DEF f
<1>11. ASSUME ~Stopped(g), ~Stopped(f) PROVE Arrives(x, t, p, B)
  <2>1. Whole(f) BY <1>10, <1>11 DEF Gives, Clear
  <2>2. Calm(f, [t EXCEPT !.to = f.to]) /\ t.to.lf = f.v /\ t.lf = f.lf /\ Whole(t) /\ t.av = f.av
        /\ t.frame = f.frame /\ t.stop = f.stop /\ t.need = f.need
    BY <2>1 DEF Calm, Whole, Registers, Stopped
  <2> HIDE DEF t
  <2>3. Clear(t, B) /\ Clear(t, B \cup {f.v}) /\ f.v \in Frames \ B
    BY <1>10, <1>11, <2>2 DEF Gives, Clear
  <2> QED BY <1>10, <1>11, <2>2, <2>3 DEF Arrives
<1> HIDE DEF t
<1>12. CASE Stopped(g) BY <1>1, <1>8, <1>9, <1>12 DEF Arrives
<1>13. CASE ~Stopped(g) /\ Stopped(f) BY <1>1, <1>10, <1>13 DEF Arrives, Gives
<1>14. CASE ~Stopped(g) /\ ~Stopped(f) BY <1>1, <1>11, <1>14
<1> QED BY <1>12, <1>13, <1>14

(* A transfer to a frame arrives there. *)
LEMMA ToFrameArrives ==
    ASSUME NEW x, NEW B, Clear(x, B), NEW n, n.kind = "frame", LeadsIn(n, B), NEW src, NEW type
    PROVE  Arrives(x, ToFrame(x, n.to, src, type), n, B)
<1> DEFINE f == n.to
           e == Unless(x, f = Nil, "ERROR")
           g == GetFrame(e, f, "global")
           m == LoadGlobals(g, g.v)
           l == GetFrame(m, f, "pc")
           ok == Unless(l, l.v = 0, "UnboundTrap")
           d == IF type = "trap" THEN ByTrap(ok, f, src) ELSE ok
           t == [d EXCEPT !.to = [lf |-> f, gfi |-> g.v, pc |-> d.v]]
<1>1. ToFrame(x, f, src, type) =
        IF Stopped(e) THEN e ELSE IF Stopped(g) THEN g ELSE IF Stopped(l) THEN l
        ELSE IF Stopped(ok) THEN ok ELSE IF Stopped(d) THEN d ELSE t
  BY DEF ToFrame, Do, e, g, m, l, ok, d, t
<1>2. Calm(x, e) BY CalmItself, UnlessCalm
<1>3. ~Stopped(e) => f # Nil
  <2>1. f = Nil => Stopped(e) BY DEF Unless, Stopped, Clear, Whole, Registers
  <2> QED BY <2>1
<1> HIDE DEF e
<1>4. Calm(x, g) BY <1>2, GetFrameCalm
<1> HIDE DEF g
<1>5. Calm(x, m) BY <1>4, LoadGlobalsCalm
<1> HIDE DEF m
<1>6. Calm(x, l) BY <1>5, GetFrameCalm
<1> HIDE DEF l
<1>7. Calm(x, ok) BY <1>6, UnlessCalm
<1> HIDE DEF ok
<1>8. Calm(x, d) BY <1>7, ByTrapCalm
<1> HIDE DEF d
<1>9. ASSUME ~Stopped(e) PROVE Arrives(x, t, n, B)
  <2>1. f \in B \cap Frames BY <1>3, <1>9 DEF LeadsIn
  <2>2. Clear(d, B) BY <1>8, ClearCalm
  <2>3. t.to.lf = f /\ t.lf = d.lf /\ Whole(t) /\ t.av = d.av /\ t.frame = d.frame /\ t.stop = d.stop
        /\ t.need = d.need
    BY <1>8 DEF Calm, Whole, Registers
  <2> HIDE DEF t
  <2>4. Clear(t, B) BY <2>2, <2>3 DEF Clear
  <2>5. B \cup {f} = B /\ f # Nil BY <2>1, <1>3, <1>9
  <2>6. t.lf = x.lf BY <1>8, <2>3 DEF Calm
  <2> QED BY <2>1, <2>3, <2>4, <2>5, <2>6 DEF Arrives
<1>10. \A y : Stopped(y) /\ Calm(x, y) => Arrives(x, y, n, B)
  BY ClearCalm DEF Arrives, Calm
<1> HIDE DEF t
<1> QED BY <1>1, <1>2, <1>4, <1>6, <1>7, <1>8, <1>9, <1>10

(* the frames that stay in use, whoever returns *)
Keeps == spare \cup HandlerFrames
Holds(x) == x.lf \in Frames \ spare /\ Clear(x, Keeps \cup {x.lf})

(* Calm steps keep the running frame and the kept ones off the lists. *)
LEMMA HoldsSame ==
    ASSUME NEW x, Holds(x), NEW y, Calm(x, y) PROVE Holds(y)
BY ClearCalm DEF Holds, Calm

(* The new frame, on no list, becomes the running one. *)
LEMMA CommitHolds ==
    ASSUME NEW x, ~Stopped(x), x.to.lf \in Frames \ spare, Clear(x, Keeps \cup {x.to.lf})
    PROVE  Holds(Commit(x))
<1> DEFINE y == [x EXCEPT !.lf = x.to.lf, !.gfi = x.to.gfi, !.pc = x.to.pc]
           w == CheckForXferTraps(y)
<1>1. Commit(x) = w BY DEF Commit, Do, w, y
<1>2. Whole(y) /\ y.lf = x.to.lf /\ y.frame = x.frame /\ y.av = x.av /\ y.stop = x.stop /\ y.need = x.need
  BY DEF Clear, Whole, Registers
<1> HIDE DEF y
<1>3. Clear(y, Keeps \cup {y.lf}) BY <1>2 DEF Clear
<1>4. Holds(y) BY <1>2, <1>3 DEF Holds
<1>5. Calm(y, w) BY <1>3, CalmItself, CheckCalm
<1> QED BY <1>1, <1>4, <1>5, HoldsSame

(* An XFER along a link that leads on, that may free the frame it leaves. *)
LEMMA XFERHolds ==
    ASSUME NEW x, NEW B, Clear(x, B), Keeps \subseteq B, x.lf \in (B \cap Frames) \ spare,
           NEW dst, LeadsIn(Resolved(x, dst), B), NEW src, NEW type, NEW free \in BOOLEAN,
           free => x.lf \notin Keeps /\ (Resolved(x, dst).kind = "frame" => Resolved(x, dst).to # x.lf)
    PROVE  Holds(XFER(x, dst, src, type, free))
<1> DEFINE n == Resolved(x, dst)
           a == Followed(x, dst, type)
           b == Activate(a, n, src, type)
           d == Announce(b, dst, src)
           e == Release(d, free)
<1>1. XFER(x, dst, src, type, free) = Commit(e) BY DEF XFER, n, a, b, d, e
<1> HIDE DEF n
<1>2. Calm(x, a) BY CalmItself, FollowedCalm
<1> HIDE DEF a
<1>3. Clear(a, B) /\ a.lf = x.lf BY <1>2, ClearCalm DEF Calm
<1>4. Arrives(a, b, n, B)
  <2>1. LeadsIn(n, B) BY DEF n
  <2> QED BY <1>3, <2>1, ToFrameArrives, ToProcedureArrives DEF Activate, b
<1> HIDE DEF b
<1>5. Calm(b, d) BY <1>4, CalmItself, AnnounceCalm DEF Arrives
<1> HIDE DEF d
<1>6. Clear(d, B) /\ d.lf = x.lf /\ d.to = b.to /\ (Stopped(b) => Stopped(d))
  BY <1>3, <1>4, <1>5, ClearCalm DEF Arrives, Calm
<1>7. ASSUME ~Stopped(d)
      PROVE  /\ d.to.lf \in Frames \ spare /\ Clear(d, B \cup {d.to.lf})
             /\ free => d.to.lf # x.lf
  <2>1. d.to.lf \in Frames /\ Clear(b, B \cup {d.to.lf}) BY <1>4, <1>6, <1>7 DEF Arrives
  <2>2. Clear(d, B \cup {d.to.lf}) BY <1>5, <2>1, ClearCalm
  <2>3. CASE n.kind = "frame"
    <3>1. d.to.lf = n.to /\ n.to # Nil BY <1>4, <1>6, <1>7, <2>3 DEF Arrives
    <3>2. n.to \notin spare BY <2>3, <3>1 DEF LeadsIn, n
    <3>3. free => n.to # x.lf BY <2>3 DEF n
    <3> QED BY <2>1, <2>2, <3>1, <3>2, <3>3
  <2>4. CASE n.kind # "frame"
    <3>1. d.to.lf \notin B BY <1>4, <1>6, <1>7, <2>4 DEF Arrives
    <3> QED BY <2>1, <2>2, <3>1 DEF Keeps
  <2> QED BY <2>3, <2>4
<1>8. CASE ~free
  <2>1. e = d BY <1>8 DEF Release
  <2>2. Stopped(d) => Holds(Commit(d)) BY <1>6, ClearLess DEF Commit, Do, Holds
  <2>3. ASSUME ~Stopped(d) PROVE Clear(d, Keeps \cup {d.to.lf})
    BY <1>7, <2>3, ClearLess
  <2> QED BY <1>1, <1>7, <2>1, <2>2, <2>3, CommitHolds
<1>9. CASE free
  <2>1. e = Free(d, x.lf) BY <1>6, <1>9 DEF Release
  <2> HIDE DEF e
  <2>2. Same(d, d) BY <1>6 DEF Same, Clear
  <2>3. Same(d, e) BY <2>1, <2>2, FreeSame
  <2>4. CASE Stopped(e)
    <3>1. Clear(e, B) BY <1>6, <2>1, <2>4, FreeClear
    <3>2. e.lf = x.lf BY <1>6, <2>3 DEF Same
    <3>3. Clear(e, Keeps \cup {x.lf}) BY <3>1, ClearLess
    <3> QED BY <1>1, <2>4, <3>2, <3>3 DEF Commit, Do, Holds
  <2>5. CASE ~Stopped(e)
    <3>1. ~Stopped(d) /\ e.to = d.to BY <2>3, <2>5 DEF Same
    <3>2. Clear(e, (B \cup {d.to.lf}) \ {x.lf}) BY <1>7, <2>1, <3>1, FreeClear
    <3>3. Keeps \cup {d.to.lf} \subseteq (B \cup {d.to.lf}) \ {x.lf} BY <1>7, <1>9, <3>1
    <3>4. Clear(e, Keeps \cup {e.to.lf}) BY <3>1, <3>2, <3>3, ClearLess
    <3> QED BY <1>1, <1>7, <2>5, <3>1, <3>4, CommitHolds
  <2> QED BY <2>4, <2>5
<1> QED BY <1>8, <1>9

HandlersLead == \A n \in Trapped : Handler[n].kind # "indirect" /\ LeadsIn(Handler[n], Keeps)

(* To go back to the start of an opcode is calm. *)
LEMMA RewindCalm == ASSUME NEW z, NEW x, Calm(z, x) PROVE Calm(z, Rewind(x))
BY DEF Rewind, Calm, Whole, Registers, Stopped

(* A trap: its handler is off the lists, or gets a frame from them. *)
LEMMA TrapHolds ==
    ASSUME NEW x, Holds(x), HandlersLead, NEW name \in Trapped, NEW param
    PROVE  Holds(Trap(x, name, param))
<1> DEFINE r == [x EXCEPT !.stop = "run"]
           h == Touch(r, "sd", Nil)
           w == Rewind(h)
           s == SaveContext(w)
           t == XFER(s, Handler[name], Frame(h.lf), "trap", FALSE)
           l == SetFrame(t, t.lf, "local0", param)
<1>1. Trap(x, name, param) = IF Stopped(h) THEN h ELSE IF Stopped(t) THEN t
                             ELSE IF name \in {"BoundsTrap", "InterruptError"} THEN t ELSE l
  BY DEF Trap, Do, h, r, w, s, t, l
<1>2. /\ Whole(r) /\ r.av = x.av /\ r.frame = x.frame /\ r.lf = x.lf /\ r.stop = "run"
  BY DEF Holds, Clear, Whole, Registers
<1> HIDE DEF r
<1>3. Holds(r) BY <1>2 DEF Holds, Clear
<1>4. Calm(r, h) BY <1>3, CalmItself, TouchCalm DEF Holds
<1> HIDE DEF h
<1>5. Calm(r, w) BY <1>4, RewindCalm
<1> HIDE DEF w
<1>6. Calm(r, s) BY <1>5, SavePCCalm DEF SaveContext
<1> HIDE DEF s
<1>7. Holds(h) /\ Holds(s) BY <1>3, <1>4, <1>6, HoldsSame
<1>8. Holds(t)
  <2> DEFINE B == Keeps \cup {s.lf}
  <2>1. Resolved(s, Handler[name]) = Handler[name] BY DEF HandlersLead, Resolved
  <2>2. LeadsIn(Resolved(s, Handler[name]), B) BY <2>1 DEF HandlersLead, LeadsIn
  <2>3. Clear(s, B) /\ Keeps \subseteq B /\ s.lf \in (B \cap Frames) \ spare BY <1>7 DEF Holds
  <2> HIDE DEF B
  <2> QED BY <2>2, <2>3, XFERHolds
<1> HIDE DEF t
<1>9. Holds(l)
  <2>1. Clear(l, Keeps \cup {t.lf}) BY <1>8, Local0Clear DEF Holds
  <2>2. Sets(t, t.lf, "local0", param, l) BY <1>8, SetFrameSets DEF Holds, Clear
  <2> HIDE DEF l
  <2> QED BY <1>8, <2>1, <2>2 DEF Holds, Sets
<1> HIDE DEF l
<1> QED BY <1>1, <1>7, <1>8, <1>9

(* A trap, if there is one. *)
LEMMA TrappingHolds == ASSUME NEW x, Holds(x), HandlersLead PROVE Holds(Trapping(x))
BY TrapHolds DEF Trapping

(* the start of an opcode, when the frames of B are in use *)
Begun(x, B) == Clear(x, B) /\ Keeps \subseteq B /\ x.lf \in (B \cap Frames) \ spare
Linked(z, x) == x.port = z.port /\ x.cell = z.cell

(* The start of an opcode, with fewer frames in use. *)
LEMMA BegunHolds == ASSUME NEW x, NEW B, Begun(x, B) PROVE Holds(x) /\ Calm(x, x)
BY ClearLess, CalmItself DEF Begun, Holds

(* Calm steps keep the start of an opcode. *)
LEMMA BegunCalm == ASSUME NEW x, NEW B, Begun(x, B), NEW y, Calm(x, y) PROVE Begun(y, B) /\ Holds(y)
<1>1. Begun(y, B) BY ClearCalm DEF Begun, Calm
<1> QED BY <1>1, BegunHolds

(* Links lead where they led while cells and ports stay. *)
LEMMA LinkedResolved ==
    ASSUME NEW x, NEW y, Linked(x, y), NEW dst PROVE Resolved(y, dst) = Resolved(x, dst)
BY DEF Linked, Resolved

(* A page fault moves no link. *)
LEMMA TouchLinked ==
    ASSUME NEW z, NEW x, Linked(z, x), Whole(x), NEW what, NEW of PROVE Linked(z, Touch(x, what, of))
BY DEF Linked, Touch, Unless, Whole, Registers

(* Pop moves no link. *)
LEMMA PopLinked ==
    ASSUME NEW x, Whole(x) PROVE Linked(x, Pop(x))
BY DEF Linked, Pop, Unless, Whole, Registers, Do

(* Reading a frame moves no link. *)
LEMMA GetFrameLinked ==
    ASSUME NEW z, NEW x, Linked(z, x), Whole(x), NEW f, NEW field PROVE Linked(z, GetFrame(x, f, field))
BY DEF Linked, GetFrame, Touch, Unless, Whole, Registers, Do

(* Saving the PC moves no link. *)
LEMMA SavePCLinked ==
    ASSUME NEW z, NEW x, Linked(z, x), Whole(x) PROVE Linked(z, SavePC(x))
BY DEF Linked, SavePC, SetFrame, Touch, Unless, Whole, Registers, Do

(* An XFER that frees no frame. *)
LEMMA XFERBegun ==
    ASSUME NEW x, NEW B, Begun(x, B), NEW dst, LeadsIn(Resolved(x, dst), B), NEW src, NEW type
    PROVE  Holds(XFER(x, dst, src, type, FALSE))
BY XFERHolds DEF Begun

(* A call along a link that leads on. *)
LEMMA CallHolds ==
    ASSUME NEW x, NEW B, Begun(x, B), NEW dst, LeadsIn(Resolved(x, dst), B)
    PROVE  Holds(Call(x, dst))
<1>1. Calm(x, SavePC(x)) BY BegunHolds, SavePCCalm
<1>2. Linked(x, SavePC(x)) BY SavePCLinked DEF Linked, Begun, Clear
<1>3. Begun(SavePC(x), B) BY <1>1, BegunCalm
<1>4. LeadsIn(Resolved(SavePC(x), dst), B) BY <1>2, LinkedResolved
<1> QED BY <1>3, <1>4, XFERBegun DEF Call

(* EFC and its sisters keep the lists. *)
LEMMA E_EFCHolds ==
    ASSUME NEW x, NEW B, Begun(x, B), NEW i, LeadsIn(Resolved(x, i.link), B) PROVE Holds(E_EFC(x, i))
<1> DEFINE g == Touch(x, "global", x.gf)
           l == Touch(g, IF i.incode THEN "code" ELSE "global", x.gf)
<1>1. Calm(x, g) BY BegunHolds, TouchCalm
<1>2. Linked(x, g) BY TouchLinked DEF Linked, Begun, Clear
<1> HIDE DEF g
<1>3. Calm(x, l) BY <1>1, TouchCalm
<1>4. Linked(x, l) BY <1>1, <1>2, TouchLinked DEF Calm
<1>5. E_EFC(x, i) = IF Stopped(l) THEN l ELSE Call(l, i.link) BY DEF E_EFC, l, g, Do
<1> HIDE DEF l
<1>6. Begun(l, B) /\ Holds(l) BY <1>3, BegunCalm
<1>7. LeadsIn(Resolved(l, i.link), B) BY <1>4, LinkedResolved
<1> QED BY <1>5, <1>6, <1>7, CallHolds

(* KFCB keeps the lists. *)
LEMMA E_KFCBHolds ==
    ASSUME NEW x, NEW B, Begun(x, B), NEW i, LeadsIn(Resolved(x, i.link), B) PROVE Holds(E_KFCB(x, i))
<1> DEFINE l == Touch(x, "sd", Nil)
<1>1. Calm(x, l) BY BegunHolds, TouchCalm
<1>2. Linked(x, l) BY TouchLinked DEF Linked, Begun, Clear
<1>3. E_KFCB(x, i) = IF Stopped(l) THEN l ELSE Call(l, i.link) BY DEF E_KFCB, l, Do
<1> HIDE DEF l
<1>4. Begun(l, B) /\ Holds(l) BY <1>1, BegunCalm
<1>5. LeadsIn(Resolved(l, i.link), B) BY <1>2, LinkedResolved
<1> QED BY <1>3, <1>4, <1>5, CallHolds

(* SFC keeps the lists. *)
LEMMA E_SFCHolds ==
    ASSUME NEW x, NEW B, Begun(x, B), ~Stopped(Pop(x)) => LeadsIn(Resolved(x, Pop(x).v), B)
    PROVE  Holds(E_SFC(x))
<1> DEFINE l == Pop(x)
<1>1. Calm(x, l) BY BegunHolds, PopCalm
<1>2. Linked(x, l) BY PopLinked DEF Begun, Clear
<1>3. E_SFC(x) = IF Stopped(l) THEN l ELSE Call(l, l.v) BY DEF E_SFC, l, Do
<1>4. ~Stopped(l) => LeadsIn(Resolved(x, l.v), B) OBVIOUS
<1> HIDE DEF l
<1>5. Begun(l, B) /\ Holds(l) BY <1>1, BegunCalm
<1>6. ~Stopped(l) => LeadsIn(Resolved(l, l.v), B) BY <1>2, <1>4, LinkedResolved
<1> QED BY <1>3, <1>5, <1>6, CallHolds

(* LFC keeps the lists. *)
LEMMA E_LFCHolds ==
    ASSUME NEW x, NEW B, Begun(x, B), NEW i, i.pc # 0 => Code[x.gf][i.pc].fsi \in Fsi
    PROVE  Holds(E_LFC(x, i))
<1> DEFINE s == SavePC(x)
           u == Unless(s, i.pc = 0, "UnboundTrap")
           f == FrameFor(u, u.gf, i.pc, u.gfi, Frame(u.lf))
           n == [f EXCEPT !.lf = f.v, !.pc = i.pc + 1]
           w == CheckForXferTraps(n)
<1>1. E_LFC(x, i) = IF Stopped(u) THEN u ELSE IF Stopped(f) THEN f ELSE w
  BY DEF E_LFC, s, u, f, n, w, Do
<1>2. Calm(x, s) /\ Same(x, s)
  <2>1. Calm(x, s) BY BegunHolds, SavePCCalm
  <2>2. Same(x, x) BY DEF Same, Begun, Clear
  <2>3. Same(x, s) BY <2>2, SavePCSame
  <2> QED BY <2>1, <2>3
<1> HIDE DEF s
<1>3. Calm(x, u) BY <1>2, UnlessCalm
<1>4. Same(x, u) BY <1>2, UnlessSame
<1>5. ~Stopped(u) => i.pc # 0
  BY <1>2 DEF Unless, Stopped, Calm, Whole, Registers
<1> HIDE DEF u
<1>6. Begun(u, B) /\ Holds(u) BY <1>3, BegunCalm
<1>7. ASSUME ~Stopped(u) PROVE Gives(f, B) /\ f.lf = u.lf
  <2>1. Code[u.gf][i.pc].fsi \in Fsi BY <1>4, <1>5, <1>7 DEF Same
  <2>2. NewFor(u, f, u.gfi) BY <1>6, FrameForNew DEF Begun, Clear
  <2>3. Gives(f, B) BY <1>6, <2>1, FrameForGives DEF Begun
  <2> QED BY <2>2, <2>3 DEF NewFor
<1> HIDE DEF f
<1>8. ASSUME ~Stopped(u), Stopped(f) PROVE Holds(f)
  BY <1>6, <1>7, <1>8, ClearLess DEF Gives, Holds, Begun
<1>9. ASSUME ~Stopped(u), ~Stopped(f) PROVE Holds(w)
  <2>1. f.v \in Frames \ spare /\ Clear(f, Keeps \cup {f.v})
    BY <1>6, <1>7, <1>9, ClearLess DEF Gives, Begun, Keeps
  <2>2. /\ Whole(n) /\ n.lf = f.v /\ n.av = f.av /\ n.frame = f.frame /\ n.stop = f.stop
        /\ n.need = f.need
    BY <2>1 DEF Clear, Whole, Registers
  <2> HIDE DEF n
  <2>3. Clear(n, Keeps \cup {n.lf}) BY <2>1, <2>2 DEF Clear
  <2>4. Holds(n) BY <2>1, <2>2, <2>3 DEF Holds
  <2>5. Calm(n, w) BY <2>3, CalmItself, CheckCalm
  <2> QED BY <2>4, <2>5, HoldsSame
<1> HIDE DEF w
<1> QED BY <1>1, <1>6, <1>8, <1>9

(* the link in frame f leads on, and the running activation can go away *)
Returns(x, link, B) ==
    /\ LeadsIn(Resolved(x, link), B)
    /\ x.lf \notin Keeps /\ (Resolved(x, link).kind = "frame" => Resolved(x, link).to # x.lf)

(* RET keeps the lists: it frees the running frame, on none of them. *)
LEMMA E_RETHolds ==
    ASSUME NEW x, NEW B, Begun(x, B), Returns(x, x.frame[x.lf].ret, B) PROVE Holds(E_RET(x))
<1> DEFINE r == GetFrame(x, x.lf, "ret")
<1>1. Calm(x, r) BY BegunHolds, GetFrameCalm
<1>2. Linked(x, r) BY GetFrameLinked DEF Linked, Begun, Clear
<1>3. ~Stopped(r) => r.v = x.frame[x.lf].ret BY GetFrameV DEF Begun, Clear
<1>4. E_RET(x) = IF Stopped(r) THEN r ELSE XFER(r, r.v, Frame(Nil), "return", TRUE)
  BY DEF E_RET, r, Do
<1> HIDE DEF r
<1>5. Begun(r, B) /\ Holds(r) BY <1>1, BegunCalm
<1>6. ASSUME ~Stopped(r) PROVE Holds(XFER(r, r.v, Frame(Nil), "return", TRUE))
  <2>1. Resolved(r, r.v) = Resolved(x, x.frame[x.lf].ret) BY <1>2, <1>3, <1>6, LinkedResolved
  <2>2. r.lf = x.lf BY <1>1 DEF Calm
  <2>3. /\ LeadsIn(Resolved(r, r.v), B) /\ r.lf \notin Keeps
        /\ Resolved(r, r.v).kind = "frame" => Resolved(r, r.v).to # r.lf
    BY <2>1, <2>2 DEF Returns
  <2> QED BY <1>5, <2>3, XFERHolds DEF Begun
<1> QED BY <1>4, <1>5, <1>6

(* The transfer descriptor is in the return link. *)
LEMMA SavePCRet ==
    ASSUME NEW x, Whole(x), x.lf \in Frames, NEW d, d = Descriptor(x), ~Stopped(d)
    PROVE  d.v = x.frame[x.lf].ret
<1> DEFINE s == SavePC(x)
<1>1. Whole(s) /\ s.lf = x.lf /\ s.frame[x.lf].ret = x.frame[x.lf].ret
  BY DEF SavePC, SetFrame, Do, Touch, Unless, Whole, Registers, Fields
<1> HIDE DEF s
<1> QED BY <1>1, GetFrameV DEF Descriptor, s

(* Reading it moves no link. *)
LEMMA DescriptorLinked == ASSUME NEW x, Whole(x) PROVE Linked(x, Descriptor(x))
<1>1. Linked(x, SavePC(x)) BY SavePCLinked DEF Linked
<1>2. Same(x, SavePC(x)) BY SavePCSame DEF Same
<1> QED BY <1>1, <1>2, GetFrameLinked DEF Descriptor, Same

(* XF keeps the lists; it too frees the running frame. *)
LEMMA E_XFHolds ==
    ASSUME NEW x, NEW B, Begun(x, B), Returns(x, x.frame[x.lf].ret, B) PROVE Holds(E_XF(x))
<1> DEFINE r == Descriptor(x)
<1>1. Calm(x, r) BY BegunHolds, DescriptorCalm
<1>2. Linked(x, r) BY DescriptorLinked DEF Begun, Clear
<1>3. ~Stopped(r) => r.v = x.frame[x.lf].ret BY SavePCRet DEF Begun, Clear
<1>4. E_XF(x) = IF Stopped(r) THEN r ELSE XFER(r, r.v, Frame(Nil), "xfer", TRUE)
  BY DEF E_XF, r, Do
<1> HIDE DEF r
<1>5. Begun(r, B) /\ Holds(r) BY <1>1, BegunCalm
<1>6. ASSUME ~Stopped(r) PROVE Holds(XFER(r, r.v, Frame(Nil), "xfer", TRUE))
  <2>1. Resolved(r, r.v) = Resolved(x, x.frame[x.lf].ret) BY <1>2, <1>3, <1>6, LinkedResolved
  <2>2. r.lf = x.lf BY <1>1 DEF Calm
  <2>3. /\ LeadsIn(Resolved(r, r.v), B) /\ r.lf \notin Keeps
        /\ Resolved(r, r.v).kind = "frame" => Resolved(r, r.v).to # r.lf
    BY <2>1, <2>2 DEF Returns
  <2> QED BY <1>5, <2>3, XFERHolds DEF Begun
<1> QED BY <1>4, <1>5, <1>6

(* XE keeps the lists. *)
LEMMA E_XEHolds ==
    ASSUME NEW x, NEW B, Begun(x, B), LeadsIn(Resolved(x, x.frame[x.lf].ret), B) PROVE Holds(E_XE(x))
<1> DEFINE d == Descriptor(x)
           t == Transferred(d)
           u == Unless(t, t.wdc = 0, "InterruptError")
           w == IF Stopped(t) THEN t ELSE u
<1>1. Calm(x, d) BY BegunHolds, DescriptorCalm
<1>2. Linked(x, d) BY DescriptorLinked DEF Begun, Clear
<1>3. ~Stopped(d) => d.v = x.frame[x.lf].ret BY SavePCRet DEF Begun, Clear
<1>4. E_XE(x) = Enabled(w) BY DEF E_XE, d, t, u, w, Do
<1> HIDE DEF d
<1>5. Begun(d, B) /\ Holds(d) BY <1>1, BegunCalm
<1>6. Holds(t)
  <2>1. ASSUME ~Stopped(d) PROVE LeadsIn(Resolved(d, d.v), B)
    BY <1>2, <1>3, <2>1, LinkedResolved
  <2> QED BY <1>5, <2>1, XFERBegun DEF Transferred, Do
<1> HIDE DEF t
<1>7. Calm(t, u) BY <1>6, CalmItself, UnlessCalm DEF Holds
<1>8. Holds(w) BY <1>6, <1>7, HoldsSame
<1> HIDE DEF w
<1>9. Calm(w, w) BY <1>8, CalmItself DEF Holds
<1>10. Calm(w, Enabled(w))
  <2>1. Calm(w, [w EXCEPT !.wdc = @ - 1]) BY <1>9 DEF Calm, Whole, Registers, Stopped
  <2>2. Stopped(w) => Calm(w, [w EXCEPT !.stop = "ERROR"]) BY <1>9 DEF Calm, Whole, Registers, Stopped
  <2> QED BY <2>1, <2>2 DEF Enabled
<1> QED BY <1>4, <1>8, <1>10, HoldsSame

(* AF keeps the lists. *)
LEMMA E_AFHolds ==
    ASSUME NEW x, NEW B, Begun(x, B), ~Stopped(Pop(x)) => Pop(x).v \in Fsi PROVE Holds(E_AF(x))
<1> DEFINE s == Pop(x)
           f == Alloc(s, s.v)
           p == Push(f, f.v)
<1>1. E_AF(x) = IF Stopped(s) THEN s ELSE IF Stopped(f) THEN f ELSE p
  BY DEF E_AF, Do, s, f, p
<1>2. Calm(x, s) BY BegunHolds, PopCalm
<1>3. ~Stopped(s) => s.v \in Fsi OBVIOUS
<1> HIDE DEF s
<1>4. Begun(s, B) /\ Holds(s) BY <1>2, BegunCalm
<1>5. ASSUME ~Stopped(s) PROVE Begun(f, B)
  <2>1. Gives(f, B) BY <1>3, <1>4, <1>5, AllocGives DEF Begun
  <2>2. Same(s, s) BY <1>4 DEF Same, Begun, Clear
  <2>3. Same(s, f) BY <2>2, AllocSame
  <2> HIDE DEF f
  <2> QED BY <1>4, <2>1, <2>3 DEF Gives, Begun, Same
<1> HIDE DEF f
<1>6. ASSUME ~Stopped(s) PROVE Holds(f) /\ Holds(p)
  <2>1. Holds(f) /\ Calm(f, f) BY <1>5, <1>6, BegunHolds
  <2>2. Calm(f, p) BY <2>1, PushCalm
  <2> QED BY <2>1, <2>2, HoldsSame
<1> QED BY <1>1, <1>4, <1>6

(* FF keeps the lists when the frame it is given is on none. *)
LEMMA E_FFHolds ==
    ASSUME NEW x, NEW B, Begun(x, B),
           ~Stopped(Pop(x)) => Pop(x).v \in (B \cap Frames) \ (Keeps \cup {x.lf})
    PROVE  Holds(E_FF(x))
<1> DEFINE s == Pop(x)
           f == Free(s, s.v)
<1>1. E_FF(x) = IF Stopped(s) THEN s ELSE f BY DEF E_FF, Do, s, f
<1>2. Calm(x, s) BY BegunHolds, PopCalm
<1>3. ~Stopped(s) => s.v \in (B \cap Frames) \ (Keeps \cup {x.lf}) OBVIOUS
<1> HIDE DEF s
<1>4. Begun(s, B) /\ Holds(s) BY <1>2, BegunCalm
<1>5. ASSUME ~Stopped(s) PROVE Holds(f)
  <2>1. Clear(f, B \ {s.v}) BY <1>3, <1>4, <1>5, FreeClear DEF Begun
  <2>2. Same(s, s) BY <1>4 DEF Same, Begun, Clear
  <2>3. Same(s, f) BY <2>2, FreeSame
  <2> HIDE DEF f
  <2>4. f.lf = x.lf /\ f.lf \in (B \cap Frames) \ spare BY <1>2, <1>4, <2>3 DEF Same, Calm, Begun
  <2>5. Keeps \cup {f.lf} \subseteq B \ {s.v} BY <1>3, <1>4, <1>5, <2>4 DEF Begun
  <2>6. Clear(f, Keeps \cup {f.lf}) BY <2>1, <2>5, ClearLess
  <2> QED BY <2>4, <2>6 DEF Holds
<1> QED BY <1>1, <1>4, <1>5

(* PI touches no list. *)
LEMMA E_PIHolds == ASSUME NEW x, NEW B, Begun(x, B) PROVE Holds(E_PI(x))
<1> DEFINE a == Recover(x)
           b == Recover(a)
           src == Pop(b)
           port == Pop(src)
           in == SetPort(port, port.v, "in", Nil)
           out == SetPort(in, in.v, "out", Indirect(src.v))
<1>1. E_PI(x) = IF Stopped(src) THEN src ELSE IF Stopped(port) THEN port
                ELSE IF Stopped(in) THEN in ELSE IF src.v = Nil THEN in ELSE out
  BY DEF E_PI, Do, a, b, src, port, in, out
<1>2. Calm(x, a) BY BegunHolds, RecoverCalm
<1> HIDE DEF a
<1>3. Calm(x, b) BY <1>2, RecoverCalm
<1> HIDE DEF b
<1>4. Calm(x, src) BY <1>3, PopCalm
<1> HIDE DEF src
<1>5. Calm(x, port) BY <1>4, PopCalm
<1> HIDE DEF port
<1>6. Calm(x, in) BY <1>5, SetPortCalm
<1> HIDE DEF in
<1>7. Calm(x, out) BY <1>6, SetPortCalm
<1> HIDE DEF out
<1> QED BY <1>1, <1>4, <1>5, <1>6, <1>7, BegunCalm

POLeads(x, p, B) ==
    /\ p \in Ports /\ LeadsIn(Resolved(x, x.port[p].out), B)
    /\ x.port[p].out.kind = "indirect" => x.port[p].out.to \in Cells \cup Ports

(* PO keeps the lists; its port may lead back to the running frame. *)
LEMMA E_POHolds ==
    ASSUME NEW x, NEW B, Begun(x, B),
           ~Stopped(Pop(Pop(x))) => POLeads(x, Pop(Pop(x)).v, B)
    PROVE  Holds(E_PO(x))
<1> DEFINE src == Pop(x)
           port == Pop(src)
           s == SavePC(port)
           in == SetPort(s, port.v, "in", x.lf)
           link == in.port[in.v].out
<1>1. E_PO(x) = IF Stopped(port) THEN port ELSE IF Stopped(in) THEN in
                ELSE XFER(in, link, Indirect(in.v), "port", FALSE)
  BY DEF E_PO, Do, src, port, s, in, link
<1>2. Calm(x, src) /\ Linked(x, src) BY BegunHolds, PopCalm, PopLinked DEF Calm
<1>3. ~Stopped(port) => POLeads(x, port.v, B) OBVIOUS
<1> HIDE DEF src
<1>4. Calm(x, port) BY <1>2, PopCalm
<1>5. Linked(x, port) BY <1>2, PopLinked DEF Linked, Calm
<1> HIDE DEF port
<1>6. Calm(x, s) BY <1>4, SavePCCalm
<1>7. Linked(x, s) BY <1>4, <1>5, SavePCLinked DEF Calm
<1>8. s.v = port.v BY <1>4, SetFrameV DEF SavePC, Calm
<1> HIDE DEF s
<1>9. Calm(x, in) BY <1>6, SetPortCalm
<1>10. ~Stopped(in) => /\ in.port = [s.port EXCEPT ![port.v]["in"] = x.lf] /\ in.cell = s.cell
                       /\ in.v = s.v /\ ~Stopped(s)
  BY <1>6 DEF SetPort, Do, Touch, Unless, Calm, Whole, Registers, Stopped
<1> HIDE DEF in
<1>11. Begun(in, B) /\ Holds(in) /\ Holds(port) BY <1>4, <1>9, BegunCalm
<1>12. ASSUME ~Stopped(port), ~Stopped(in) PROVE LeadsIn(Resolved(in, link), B)
  <2>1. POLeads(x, port.v, B) BY <1>3, <1>12
  <2>2. s.port = x.port /\ s.cell = x.cell /\ in.v = port.v /\ in.cell = x.cell
    BY <1>7, <1>8, <1>10, <1>12 DEF Linked
  <2>3. /\ DOMAIN x.port = Ports
        /\ \A p \in Ports : DOMAIN x.port[p] = {"in", "out"}
    BY DEF Begun, Clear, Whole
  <2>4. in.port = [x.port EXCEPT ![port.v]["in"] = x.lf] BY <1>10, <1>12, <2>2
  <2>5. link = x.port[port.v].out BY <2>1, <2>2, <2>3, <2>4 DEF POLeads
  <2>6. link.kind = "indirect" => link.to \in Cells \cup Ports BY <2>1, <2>5 DEF POLeads
  <2> HIDE DEF link
  <2>7. \/ Resolved(in, link) = Resolved(x, link)
        \/ Resolved(in, link) = Frame(x.lf)
    <3>1. CASE link.kind # "indirect" BY <3>1 DEF Resolved
    <3>2. CASE link.kind = "indirect" /\ link.to \in Cells BY <2>2, <3>2 DEF Resolved
    <3>3. CASE link.kind = "indirect" /\ link.to \notin Cells
      <4>1. link.to \in Ports BY <2>6, <3>3
      <4>2. in.port[link.to].in = x.port[link.to].in \/ in.port[link.to].in = x.lf
        BY <2>3, <2>4, <4>1
      <4>3. /\ Resolved(in, link) = Frame(in.port[link.to].in)
            /\ Resolved(x, link) = Frame(x.port[link.to].in)
        BY <3>3 DEF Resolved
      <4> QED BY <4>2, <4>3
    <3> QED BY <3>1, <3>2, <3>3
  <2>8. LeadsIn(Frame(x.lf), B) BY DEF LeadsIn, Begun, Frame
  <2>9. LeadsIn(Resolved(x, link), B) BY <2>1, <2>5 DEF POLeads
  <2> QED BY <2>7, <2>8, <2>9
<1> HIDE DEF link
<1> QED BY <1>1, <1>11, <1>12, XFERBegun

(* The other opcodes touch no list. *)
LEMMA OtherHolds == ASSUME NEW x, NEW B, Begun(x, B), NEW i PROVE Holds(Other(x, i))
<1>1. Calm(x, x) BY BegunHolds
<1>2. Holds(Push(x, i.value)) BY <1>1, PushCalm, BegunCalm
<1>3. Holds([x EXCEPT !.pc = i.pc]) BY <1>1, BegunCalm DEF Calm, Whole, Registers, Stopped
<1>4. Holds(Unless(x, x.bad, "BoundsTrap")) BY <1>1, UnlessCalm, BegunCalm
<1>5. Holds([x EXCEPT !.bad = FALSE, !.swapped = {}, !.cell = BoundCell])
  BY <1>1, BegunCalm DEF Calm, Whole, Registers, Stopped
<1>6. Holds(Unless(x, TRUE, "OpcodeTrap")) BY <1>1, UnlessCalm, BegunCalm
<1> QED BY <1>2, <1>3, <1>4, <1>5, <1>6 DEF Other

(* what Proper says of the opcode i that runs on x, when the frames of B are in use *)
OpcodeOK(x, i, B) ==
    LET top == Pop(x)
        second == Pop(top)
        ret == x.frame[x.lf].ret
    IN /\ i.op \in {"EFC", "KFCB"} => LeadsIn(Resolved(x, i.link), B)
       /\ i.op = "LFC" /\ i.pc # 0 => Code[x.gf][i.pc].fsi \in Fsi
       /\ i.op = "SFC" /\ ~Stopped(top) => LeadsIn(Resolved(x, top.v), B)
       /\ i.op = "XE" => LeadsIn(Resolved(x, ret), B)
       /\ i.op \in {"RET", "XF"} => Returns(x, ret, B)
       /\ i.op \in {"PO", "POR"} /\ ~Stopped(second) => POLeads(x, second.v, B)
       /\ i.op = "AF" /\ ~Stopped(top) => top.v \in Fsi
       /\ i.op = "FF" /\ ~Stopped(top) => top.v \in (B \cap Frames) \ (Keeps \cup {x.lf})

(* Every opcode of a proper program keeps the lists. *)
LEMMA OpcodeHolds ==
    ASSUME NEW x, NEW B, Begun(x, B), NEW i, OpcodeOK(x, i, B) PROVE Holds(Opcode(x, i))
<1>1. CASE i.op = "EFC" BY <1>1, E_EFCHolds DEF Opcode, OpcodeOK
<1>2. CASE i.op = "LFC" BY <1>2, E_LFCHolds DEF Opcode, OpcodeOK
<1>3. CASE i.op = "SFC" BY <1>3, E_SFCHolds DEF Opcode, OpcodeOK
<1>4. CASE i.op = "KFCB" BY <1>4, E_KFCBHolds DEF Opcode, OpcodeOK
<1>5. CASE i.op = "RET" BY <1>5, E_RETHolds DEF Opcode, OpcodeOK
<1>6. CASE i.op = "AF" BY <1>6, E_AFHolds DEF Opcode, OpcodeOK
<1>7. CASE i.op = "FF" BY <1>7, E_FFHolds DEF Opcode, OpcodeOK
<1>8. CASE i.op = "PI" BY <1>8, E_PIHolds DEF Opcode
<1>9. CASE i.op \in {"PO", "POR"} BY <1>9, E_POHolds DEF Opcode, OpcodeOK
<1>10. CASE i.op = "XE" BY <1>10, E_XEHolds DEF Opcode, OpcodeOK
<1>11. CASE i.op = "XF" BY <1>11, E_XFHolds DEF Opcode, OpcodeOK
<1>12. CASE i.op \notin {"EFC", "LFC", "SFC", "KFCB", "RET", "AF", "FF", "PI", "PO", "POR", "XE", "XF"}
  BY <1>12, OtherHolds DEF Opcode
<1> QED BY <1>1, <1>2, <1>3, <1>4, <1>5, <1>6, <1>7, <1>8, <1>9, <1>10, <1>11, <1>12

(* to an opcode x looks as z *)
Alike(z, x) ==
    /\ Whole(x) /\ Whole(z) /\ Linked(z, x)
    /\ x.stack = z.stack /\ x.sp = z.sp /\ x.frame = z.frame /\ x.gf = z.gf /\ x.lf = z.lf
    /\ x.stop = z.stop
Pops(z, x) == Alike(Pop(z), Pop(x)) /\ (~Stopped(Pop(z)) => Pop(x).v = Pop(z).v)

(* Machines an opcode cannot tell apart pop the same. *)
LEMMA PopAlike == ASSUME NEW z, NEW x, Alike(z, x) PROVE Pops(z, x)
BY DEF Pops, Alike, Linked, Pop, Do, Unless, Stopped, Whole, Registers

(* So what holds of an opcode on one holds on the other. *)
LEMMA OpcodeOKAlike ==
    ASSUME NEW z, NEW x, Alike(z, x), NEW i, NEW B, OpcodeOK(z, i, B) PROVE OpcodeOK(x, i, B)
<1>1. Pops(z, x) BY PopAlike
<1>2. Pops(Pop(z), Pop(x)) BY <1>1, PopAlike DEF Pops
<1>3. \A dst : Resolved(x, dst) = Resolved(z, dst) BY LinkedResolved DEF Alike
<1>4. /\ x.frame = z.frame /\ x.lf = z.lf /\ x.gf = z.gf /\ x.port = z.port
      /\ Stopped(Pop(x)) = Stopped(Pop(z)) /\ (~Stopped(Pop(z)) => Pop(x).v = Pop(z).v)
      /\ Stopped(Pop(Pop(x))) = Stopped(Pop(Pop(z)))
      /\ ~Stopped(Pop(Pop(z))) => Pop(Pop(x)).v = Pop(Pop(z)).v
  BY <1>1, <1>2 DEF Pops, Alike, Linked, Stopped
<1> DEFINE top == Pop(x)
           second == Pop(top)
           ret == x.frame[x.lf].ret
<1>5. i.op \in {"EFC", "KFCB"} => LeadsIn(Resolved(x, i.link), B) BY <1>3 DEF OpcodeOK
<1>6. i.op = "LFC" /\ i.pc # 0 => Code[x.gf][i.pc].fsi \in Fsi BY <1>4 DEF OpcodeOK
<1>7. i.op = "SFC" /\ ~Stopped(top) => LeadsIn(Resolved(x, top.v), B) BY <1>3, <1>4 DEF OpcodeOK
<1>8. i.op = "XE" => LeadsIn(Resolved(x, ret), B) BY <1>3, <1>4 DEF OpcodeOK
<1>9. i.op \in {"RET", "XF"} => Returns(x, ret, B) BY <1>3, <1>4 DEF OpcodeOK, Returns
<1>10. i.op \in {"PO", "POR"} /\ ~Stopped(second) => POLeads(x, second.v, B)
  BY <1>3, <1>4 DEF OpcodeOK, POLeads
<1>11. i.op = "AF" /\ ~Stopped(top) => top.v \in Fsi BY <1>4 DEF OpcodeOK
<1>12. i.op = "FF" /\ ~Stopped(top) => top.v \in (B \cap Frames) \ (Keeps \cup {x.lf})
  BY <1>4 DEF OpcodeOK
<1> QED BY <1>5, <1>6, <1>7, <1>8, <1>9, <1>10, <1>11, <1>12 DEF OpcodeOK

(* The fetch, the opcode and its trap keep the lists. *)
LEMMA ExecuteHolds ==
    ASSUME NEW x, NEW B, Begun(x, B), ~Stopped(x), HandlersLead, OpcodeOK(x, Code[x.gf][x.pc], B)
    PROVE  Holds(Execute(x))
<1> DEFINE s == [x EXCEPT !.savedPC = x.pc, !.savedSP = x.sp]
           t == Touch(s, "code", x.gf)
           n == [t EXCEPT !.pc = @ + 1]
           i == Code[t.gf][t.pc]
           f == Opcode(n, i)
           d == IF Stopped(t) THEN t ELSE f
<1>1. Execute(x) = Trapping(d) BY DEF Execute, s, t, n, f, i, d, Do, Fetched
<1>2. Whole(x) BY DEF Begun, Clear
<1>3. Calm(x, s) /\ Alike(x, s) /\ s.pc = x.pc
  BY <1>2 DEF Calm, Alike, Linked, Whole, Registers, Stopped
<1> HIDE DEF s
<1>4. Calm(x, t) BY <1>3, TouchCalm
<1>5. ~Stopped(t) => Alike(x, t) /\ t.pc = x.pc
  BY <1>3 DEF Touch, Unless, Stopped, Alike, Linked, Whole, Registers
<1> HIDE DEF t
<1>6. Begun(t, B) /\ Holds(t) BY <1>4, BegunCalm
<1>7. Calm(x, n) BY <1>4 DEF Calm, Whole, Registers, Stopped
<1>8. ~Stopped(t) => Alike(x, n) BY <1>5 DEF Alike, Linked, Whole, Registers, Stopped
<1> HIDE DEF n
<1>9. Begun(n, B) BY <1>7, BegunCalm
<1>10. ASSUME ~Stopped(t) PROVE Holds(f)
  <2>1. i = Code[x.gf][x.pc] BY <1>5, <1>10 DEF Alike
  <2> HIDE DEF i
  <2>2. OpcodeOK(n, i, B) BY <1>8, <1>10, <2>1, OpcodeOKAlike
  <2> QED BY <1>9, <2>2, OpcodeHolds
<1>11. Holds(d) BY <1>6, <1>10
<1> HIDE DEF d
<1> QED BY <1>1, <1>11, TrappingHolds

---------------------------------------------------------------------------
(* A list read from the vector is the one the frames are threaded on. *)
LEMMA Shorter ==
    ASSUME NEW l \in Seq(Frames), \A m, n \in DOMAIN l : l[m] = l[n] => m = n
    PROVE  Len(l) <= Cardinality(Frames) /\ Cardinality(Frames) \in Nat
<1> DEFINE D == 1 .. Len(l)
<1>1. IsFiniteSet(Frames) BY FrameAssumption DEF LeftSound
<1>2. IsFiniteSet(D) /\ Cardinality(D) = Len(l)
  <2>1. Len(l) \in Nat /\ 1 \in Int /\ Len(l) \in Int OBVIOUS
  <2>2. IsFiniteSet(D) /\ Cardinality(D) = IF 1 > Len(l) THEN 0 ELSE Len(l) - 1 + 1
    BY <2>1, FS_Interval
  <2> QED BY <2>1, <2>2
<1>3. l \in Injection(D, Frames) BY DEF Injection, IsInjective
<1>4. Cardinality(D) <= Cardinality(Frames) BY <1>1, <1>2, <1>3, FS_Injection
<1> QED BY <1>1, <1>2, <1>4, FS_CardinalityType

(* from[n][item]: the frames that item n steps before the end leads through *)
Reads(g, k, frame) ==
    g = [n \in 0 .. k |-> [item \in Items |->
            IF item.tag # "frame" \/ n = 0 THEN << >>
            ELSE <<item.to>> \o g[n - 1][frame[item.to].local0]]]

(* The recursion of FreeList has a solution. *)
LEMMA ReadsExists ==
    ASSUME NEW k \in Nat, NEW frame PROVE \E g : Reads(g, k, frame)
<1> DEFINE Ks == {j \in 0 .. k : \E g : Reads(g, j, frame)}
<1>1. 0 \in Ks
  <2>1. Reads([n \in 0 .. 0 |-> [item \in Items |-> << >>]], 0, frame) BY DEF Reads
  <2> QED BY <2>1
<1>2. ASSUME NEW j \in 0 .. k - 1, j \in Ks PROVE j + 1 \in Ks
  <2>1. PICK g : Reads(g, j, frame) BY <1>2
  <2> DEFINE h == [n \in 0 .. j + 1 |-> IF n \in 0 .. j THEN g[n]
                     ELSE [item \in Items |-> IF item.tag # "frame" THEN << >>
                                              ELSE <<item.to>> \o g[j][frame[item.to].local0]]]
             step == [n \in 0 .. j + 1 |-> [item \in Items |->
                        IF item.tag # "frame" \/ n = 0 THEN << >>
                        ELSE <<item.to>> \o h[n - 1][frame[item.to].local0]]]
  <2>2. \A n \in 0 .. j : h[n] = g[n] OBVIOUS
  <2>3. h[j + 1] = [item \in Items |-> IF item.tag # "frame" THEN << >>
                                       ELSE <<item.to>> \o g[j][frame[item.to].local0]]
    OBVIOUS
  <2>4. DOMAIN h = 0 .. j + 1 /\ h = [n \in 0 .. j + 1 |-> h[n]] OBVIOUS
  <2>5. \A n \in 0 .. j : g[n] = [item \in Items |->
            IF item.tag # "frame" \/ n = 0 THEN << >>
            ELSE <<item.to>> \o g[n - 1][frame[item.to].local0]]
    BY <2>1 DEF Reads
  <2> HIDE DEF h
  <2>6. ASSUME NEW n \in 0 .. j + 1 PROVE h[n] = step[n]
    <3>1. CASE n = j + 1
      <4>1. n # 0 /\ n - 1 = j /\ j \in 0 .. j BY <3>1
      <4>2. h[n - 1] = g[j] BY <2>2, <4>1
      <4> QED BY <2>3, <3>1, <4>1, <4>2
    <3>2. CASE n \in 0 .. j
      <4>1. n # 0 => n - 1 \in 0 .. j BY <3>2
      <4>2. n # 0 => h[n - 1] = g[n - 1] BY <2>2, <4>1
      <4> QED BY <2>2, <2>5, <3>2, <4>2
    <3> QED BY <3>1, <3>2
  <2>7. Reads(h, j + 1, frame) BY <2>4, <2>6 DEF Reads
  <2> QED BY <2>7
<1>3. Ks = 0 .. k
  <2>1. Ks \in SUBSET (0 .. k) OBVIOUS
  <2> HIDE DEF Ks
  <2> QED BY <1>1, <1>2, <2>1, IntervalInduction
<1> QED BY <1>3

(* From item m the list of size s reads its frames from the m-th on. *)
LEMMA ReadsList ==
    ASSUME NEW av, NEW fr, NEW q, NEW B, Through(av, fr, q, B), NEW s \in Fsi,
           NEW K \in Nat, NEW g, Reads(g, K, fr), Len(q[s]) <= K
    PROVE  g[K][av[s]] = q[s]
<1> DEFINE l == q[s]
           N == Len(l)
           (* item m of the list leads through the rest of it *)
           Rest(n, m) == /\ g[n][ItemAt(s, l, m)] \in Seq(Frames)
                         /\ Len(g[n][ItemAt(s, l, m)]) = N - m + 1
                         /\ \A j \in 1 .. N - m + 1 : g[n][ItemAt(s, l, m)][j] = l[m + j - 1]
           Ns == {n \in 0 .. K : \A m \in 1 .. N + 1 : N - m + 1 <= n => Rest(n, m)}
<1>1. l \in Seq(Frames) /\ N \in Nat /\ DOMAIN l = 1 .. N BY DEF Through
<1>2. ASSUME NEW m \in 1 .. N + 1 PROVE ItemAt(s, l, m) \in Items
  <2>1. CASE m \in 1 .. N
    <3>1. l[m] \in Frames BY <1>1, <2>1
    <3> QED BY <1>1, <2>1, <3>1 DEF ItemAt, Item, Items
  <2>2. CASE m \notin 1 .. N BY <1>1, <2>2, FrameAssumption DEF ItemAt, LeftSound
  <2> QED BY <2>1, <2>2
<1>3. ItemAt(s, l, N + 1).tag # "frame"
  <2>1. N + 1 \notin DOMAIN l BY <1>1
  <2> QED BY <2>1, FrameAssumption DEF ItemAt, LeftSound
<1>4. ASSUME NEW n \in 0 .. K PROVE Rest(n, N + 1)
  <2>1. g[n][ItemAt(s, l, N + 1)] = << >>
    <3>1. ItemAt(s, l, N + 1) \in Items BY <1>1, <1>2
    <3> QED BY <1>3, <3>1 DEF Reads
  <2> QED BY <1>1, <2>1
<1>5. 0 \in Ns
  <2>1. ASSUME NEW m \in 1 .. N + 1, N - m + 1 <= 0 PROVE Rest(0, m)
    <3>1. m = N + 1 BY <1>1, <2>1
    <3> HIDE DEF Rest
    <3> QED BY <1>4, <3>1
  <2> HIDE DEF Rest
  <2> QED BY <2>1
<1>6. ASSUME NEW n \in 0 .. K - 1, n \in Ns PROVE n + 1 \in Ns
  <2>1. ASSUME NEW m \in 1 .. N + 1, N - m + 1 <= n + 1 PROVE Rest(n + 1, m)
    <3>1. CASE m = N + 1
      <4> HIDE DEF Rest
      <4> QED BY <1>4, <3>1
    <3>2. CASE m # N + 1
      <4>1. m \in 1 .. N /\ m + 1 \in 1 .. N + 1 /\ N - (m + 1) + 1 <= n BY <1>1, <2>1, <3>2
      <4>2. Rest(n, m + 1)
        <5> HIDE DEF Rest
        <5> QED BY <1>6, <4>1
      <4>3. ItemAt(s, l, m) = Item("frame", l[m]) /\ l[m] \in Frames
        BY <1>1, <4>1 DEF ItemAt
      <4>4. fr[l[m]].local0 = ItemAt(s, l, m + 1) BY <1>1, <4>1 DEF Through, Threaded
      <4> DEFINE t == g[n][ItemAt(s, l, m + 1)]
      <4>5. g[n + 1][ItemAt(s, l, m)] = <<l[m]>> \o t
        <5>1. ItemAt(s, l, m) \in Items BY <1>2
        <5>2. n + 1 \in 0 .. K /\ n + 1 # 0 /\ n + 1 - 1 = n OBVIOUS
        <5>3. \A i \in Items : g[n + 1][i] = IF i.tag # "frame" THEN << >>
                                             ELSE <<i.to>> \o g[n][fr[i.to].local0]
          <6>1. \A p \in 0 .. K : g[p] = [i \in Items |->
                    IF i.tag # "frame" \/ p = 0 THEN << >> ELSE <<i.to>> \o g[p - 1][fr[i.to].local0]]
            BY DEF Reads
          <6>2. g[n + 1] = [i \in Items |->
                    IF i.tag # "frame" \/ n + 1 = 0 THEN << >>
                    ELSE <<i.to>> \o g[n + 1 - 1][fr[i.to].local0]]
            BY <5>2, <6>1
          <6> HIDE DEF Reads
          <6> QED BY <5>2, <6>2
        <5> QED BY <5>1, <5>3, <4>3, <4>4 DEF Item
      <4>6. t \in Seq(Frames) /\ Len(t) = N - m /\ \A j \in 1 .. N - m : t[j] = l[m + j]
        <5>1. N - (m + 1) + 1 = N - m BY <1>1, <4>1
        <5>2. \A j \in 1 .. N - m : m + 1 + j - 1 = m + j BY <1>1, <4>1
        <5> QED BY <4>2, <5>1, <5>2
      <4> DEFINE u == <<l[m]>> \o t
      <4> HIDE DEF t
      <4>7. u \in Seq(Frames) /\ Len(u) = N - m + 1
        <5>1. <<l[m]>> \in Seq(Frames) /\ Len(<<l[m]>>) = 1 BY <4>3
        <5>2. u \in Seq(Frames) /\ Len(u) = 1 + Len(t) BY <4>6, <5>1, ConcatProperties
        <5> QED BY <1>1, <4>1, <4>6, <5>2
      <4>8. ASSUME NEW j \in 1 .. N - m + 1 PROVE u[j] = l[m + j - 1]
        <5>1. CASE j = 1
          <6>1. u[1] = l[m] BY <4>3, <4>6
          <6>2. m + 1 - 1 = m BY <4>1
          <6> QED BY <5>1, <6>1, <6>2
        <5>2. CASE j # 1
          <6>1. j - 1 \in 1 .. N - m /\ m + (j - 1) = m + j - 1 BY <1>1, <4>1, <5>2
          <6>2. u[j] = t[j - 1] BY <1>1, <4>1, <4>3, <4>6, <5>2
          <6> QED BY <4>6, <6>1, <6>2
        <5> QED BY <5>1, <5>2
      <4> HIDE DEF u
      <4>9. g[n + 1][ItemAt(s, l, m)] = u BY <4>5 DEF u
      <4> QED BY <4>7, <4>8, <4>9
    <3> QED BY <3>1, <3>2
  <2> HIDE DEF Rest
  <2> QED BY <2>1
<1>7. K \in Ns
  <2>1. Ns \in SUBSET (0 .. K) OBVIOUS
  <2> HIDE DEF Ns
  <2>2. Ns = 0 .. K BY <1>5, <1>6, <2>1, IntervalInduction
  <2> QED BY <2>2
<1>8. Rest(K, 1)
  <2>1. 1 \in 1 .. N + 1 /\ N - 1 + 1 <= K BY <1>1
  <2> HIDE DEF Rest
  <2> QED BY <1>7, <2>1
<1>9. av[s] = ItemAt(s, l, 1) BY DEF Through, Threaded
<1> DEFINE r == g[K][av[s]]
<1>10. r \in Seq(Frames) /\ Len(r) = N /\ \A j \in 1 .. N : r[j] = l[j]
  <2>1. N - 1 + 1 = N /\ \A j \in 1 .. N : 1 + j - 1 = j BY <1>1
  <2> QED BY <1>8, <1>9, <2>1
<1> HIDE DEF r
<1>11. r = l BY <1>1, <1>10, SeqEqual
<1> QED BY <1>11 DEF r

(* What FreeList reads is what the frames are threaded on. *)
LEMMA FreeListIs ==
    ASSUME NEW av, NEW fr, NEW q, NEW B, Through(av, fr, q, B)
    PROVE  FreeLists(av, fr) = q
<1> DEFINE K == Cardinality(Frames)
           from == CHOOSE g : g = [n \in 0 .. K |-> [item \in Items |->
                       IF item.tag # "frame" \/ n = 0 THEN << >>
                       ELSE <<item.to>> \o g[n - 1][fr[item.to].local0]]]
<1>1. ASSUME NEW s \in Fsi PROVE FreeList(av, fr, s) = q[s]
  <2>1. q[s] \in Seq(Frames) BY DEF Through
  <2>2. Len(q[s]) <= K /\ K \in Nat BY <2>1, Shorter DEF Through, Threaded
  <2>3. \E g : Reads(g, K, fr) BY <2>2, ReadsExists
  <2>4. Reads(from, K, fr) BY <2>3 DEF Reads
  <2>5. FreeList(av, fr, s) = from[K][av[s]] BY DEF FreeList
  <2> HIDE DEF from, K
  <2> QED BY <2>2, <2>4, <2>5, ReadsList
<1> QED BY <1>1 DEF FreeLists, Through

---------------------------------------------------------------------------
(* The invariant: the frames in use, to be given out or of the handlers are *)
(* on no list; a process that is away comes back to the frame it left.      *)
HeapInv ==
    /\ Holds(c) /\ spare \subseteq Frames
    /\ away.why # "no" => away.frame = c.lf
    /\ away.why = "FrameFault" => away.fsi \in Fsi

(* The invariant is as strong as FramesSound. *)
LEMMA HoldsSound == HeapInv => FramesSound
<1> SUFFICES ASSUME HeapInv PROVE FramesSound
  OBVIOUS
<1>1. PICK q : Through(c.av, c.frame, q, Keeps \cup {c.lf}) BY DEF HeapInv, Holds, Clear
<1>2. FreeLists(c.av, c.frame) = q BY <1>1, FreeListIs
<1>3. \A s \in Fsi : FreeList(c.av, c.frame, s) = q[s] BY <1>2 DEF FreeLists
<1>4. c.lf \notin FreeFrames BY <1>1, <1>3 DEF FreeFrames, FreeIn, Through
<1>5. c.lf \notin spare BY DEF HeapInv, Holds
<1> QED BY <1>1, <1>2, <1>4, <1>5 DEF FramesSound, Through

(* the frames on no list, and those that must not be *)
OffLists == (Frames \cup Keeps) \ FreeFrames

(* Every frame not on a list may be in use. *)
LEMMA HoldsBegun == ASSUME HeapInv PROVE Begun(c, OffLists)
<1>1. PICK q : Through(c.av, c.frame, q, Keeps \cup {c.lf}) BY DEF HeapInv, Holds, Clear
<1>2. \A s \in Fsi : FreeList(c.av, c.frame, s) = q[s] BY <1>1, FreeListIs DEF FreeLists
<1>3. \A f : f \in FreeFrames <=> \E s \in Fsi : \E n \in DOMAIN q[s] : f = q[s][n]
  BY <1>2 DEF FreeFrames, FreeIn
<1>4. Through(c.av, c.frame, q, OffLists) BY <1>1, <1>3 DEF Through, OffLists
<1>5. Clear(c, OffLists) BY <1>4 DEF HeapInv, Holds, Clear
<1>6. Keeps \cup {c.lf} \subseteq OffLists
  <2>1. \A f \in FreeFrames : f \notin Keeps \cup {c.lf} BY <1>1, <1>3 DEF Through
  <2>2. c.lf \in Frames BY DEF HeapInv, Holds
  <2> QED BY <2>1, <2>2 DEF OffLists
<1> QED BY <1>5, <1>6 DEF Begun, HeapInv, Holds

(* A link that leads on does not lead to the lists. *)
LEMMA LeadsLeadsIn == ASSUME NEW link, Leads(link) PROVE LeadsIn(Resolved(c, link), OffLists)
BY DEF Leads, LeadsIn, OffLists, Busy

(* Nor does the link of a trap handler. *)
LEMMA ProperHandlers == ASSUME Proper PROVE HandlersLead
<1> SUFFICES ASSUME NEW n \in Trapped PROVE Handler[n].kind # "indirect" /\ LeadsIn(Handler[n], Keeps)
  BY DEF HandlersLead
<1>1. Handler[n].kind # "indirect" /\ Leads(Handler[n]) BY DEF Proper
<1>2. Resolved(c, Handler[n]) = Handler[n] BY <1>1 DEF Resolved
<1>3. CASE Handler[n].kind = "frame"
  <2>1. Handler[n].to \in HandlerFrames BY <1>3 DEF HandlerFrames
  <2>2. Handler[n].to \in Busy \cup {Nil} BY <1>1, <1>2, <1>3 DEF Leads
  <2> QED BY <1>1, <1>3, <2>1, <2>2 DEF LeadsIn, Keeps, Busy
<1>4. CASE Handler[n].kind # "frame" BY <1>1, <1>2, <1>4 DEF Leads, LeadsIn
<1> QED BY <1>1, <1>3, <1>4

(* The next opcode of a proper program. *)
LEMMA ProperOpcode == ASSUME Proper, Running PROVE OpcodeOK(c, Code[c.gf][c.pc], OffLists)
<1> DEFINE i == Code[c.gf][c.pc]
           top == Pop(c)
           second == Pop(top)
           ret == c.frame[c.lf].ret
<1>1. i = Current BY DEF Current
<1>2. \A f : Leavable(f) => f \in (OffLists \cap Frames) \ Keeps
  BY DEF Leavable, OffLists, Busy, Keeps
<1>3. i.op \in {"EFC", "KFCB"} => LeadsIn(Resolved(c, i.link), OffLists)
  BY <1>1, LeadsLeadsIn DEF Proper
<1>4. i.op = "LFC" /\ i.pc # 0 => Code[c.gf][i.pc].fsi \in Fsi BY <1>1 DEF Proper
<1>5. i.op = "SFC" /\ ~Stopped(top) => LeadsIn(Resolved(c, top.v), OffLists)
  BY <1>1, LeadsLeadsIn DEF Proper
<1>6. i.op = "XE" => LeadsIn(Resolved(c, ret), OffLists) BY <1>1, LeadsLeadsIn DEF Proper
<1>7. i.op \in {"RET", "XF"} => Returns(c, ret, OffLists)
  BY <1>1, <1>2, LeadsLeadsIn DEF Proper, Returns
<1>8. i.op \in {"PO", "POR"} /\ ~Stopped(second) => POLeads(c, second.v, OffLists)
  <2>1. ASSUME i.op \in {"PO", "POR"}, ~Stopped(second)
        PROVE  second.v \in Ports /\ Leads(c.port[second.v].out)
    BY <1>1, <2>1 DEF Proper
  <2> HIDE DEF second
  <2> QED BY <2>1, LeadsLeadsIn DEF POLeads, Leads
<1>9. i.op = "AF" /\ ~Stopped(top) => top.v \in Fsi BY <1>1 DEF Proper
<1>10. i.op = "FF" /\ ~Stopped(top) => top.v \in (OffLists \cap Frames) \ (Keeps \cup {c.lf})
  BY <1>1, <1>2 DEF Proper
<1> QED BY <1>3, <1>4, <1>5, <1>6, <1>7, <1>8, <1>9, <1>10 DEF OpcodeOK

(* The lists the system leaves. *)
LEMMA InitHeap == ASSUME Init, Proper PROVE HeapInv
<1>1. /\ c.lf = Root /\ c.frame = InitFrame /\ c.av = InitAV /\ c.port = InitPort /\ c.stop = "run"
      /\ DOMAIN c = Registers /\ spare = Spare /\ away.why = "no"
  BY DEF Init, Registers, NotAway
<1>2. Whole(c) BY <1>1, TransferAssumption DEF Whole, Fields
<1> DEFINE q == FreeLists(InitAV, InitFrame)
<1>3. \A s \in Fsi : \A n \in DOMAIN q[s] : q[s][n] \in FreeIn(InitAV, InitFrame)
  BY DEF FreeLists, FreeIn
<1>4. FreeFrames = FreeIn(InitAV, InitFrame) BY <1>1 DEF FreeFrames
<1>5. \A f \in HandlerFrames : f \notin FreeFrames
  <2> SUFFICES ASSUME NEW n \in Trapped, Handler[n].kind = "frame" PROVE Handler[n].to \notin FreeFrames
    BY DEF HandlerFrames
  <2>1. Leads(Handler[n]) BY DEF Proper
  <2>2. Handler[n].to \in Busy \cup {Nil} BY <2>1 DEF Leads, Resolved
  <2>3. FreeFrames \subseteq Frames BY <1>4, FrameAssumption DEF LeftSound
  <2> QED BY <2>2, <2>3, TransferAssumption DEF Busy
<1>6. \A f \in Keeps \cup {Root} : f \notin FreeIn(InitAV, InitFrame)
  BY <1>1, <1>4, <1>5, FrameAssumption DEF LeftSound, Keeps
<1>7. q \in [Fsi -> Seq(Frames)] BY FrameAssumption DEF LeftSound
<1>8. Through(InitAV, InitFrame, q, Keeps \cup {Root})
  BY <1>3, <1>6, <1>7, FrameAssumption DEF LeftSound, Through
<1>9. Clear(c, Keeps \cup {c.lf})
  BY <1>1, <1>2, <1>8, FrameAssumption, TransferAssumption DEF Clear, LeftSound
<1> QED BY <1>1, <1>9, FrameAssumption, TransferAssumption DEF HeapInv, Holds, LeftSound

(* Clean forgets the size of the frame that was not there, after a fault. *)
LEMMA CleanHolds == ASSUME NEW x, Holds(x) PROVE Holds(Clean(x)) \/ x.stop = "FrameFault"
<1> SUFFICES ASSUME x.stop # "FrameFault" PROVE Holds(Clean(x))
  OBVIOUS
<1>1. PICK q : Through(x.av, x.frame, q, Keeps \cup {x.lf}) BY DEF Holds, Clear
<1> DEFINE y == Clean(x)
<1>2. /\ Whole(y) /\ y.av = x.av /\ y.frame = x.frame /\ y.lf = x.lf /\ y.stop = x.stop
  BY DEF Clean, Holds, Clear, Whole, Registers
<1> HIDE DEF y
<1>3. Holds(y) BY <1>1, <1>2 DEF Holds, Clear
<1> QED BY <1>3 DEF y

(* A process that leaves the processor leaves the lists as they are. *)
LEMMA LeaveHolds ==
    ASSUME NEW x, Holds(x), NEW why, why = "FrameFault" => x.stop = "FrameFault", why # "no",
           Leave(x, why), spare \subseteq Frames, spare' = spare
    PROVE  HeapInv'
<1> DEFINE r == [x EXCEPT !.stop = "run", !.out = {}]
           w == Rewind(r)
           s == SaveContext(w)
           n == Clean(s)
           d == [n EXCEPT !.sp = 0, !.savedSP = 0, !.pc = 0, !.savedPC = 0,
                          !.stack = [i \in DOMAIN @ |-> "used"]]
<1>1. s = SaveProcess(x) BY DEF SaveProcess, s, w, r
<1>2. /\ Whole(r) /\ r.av = x.av /\ r.frame = x.frame /\ r.lf = x.lf /\ r.stop = "run"
  BY DEF Holds, Clear, Whole, Registers
<1> HIDE DEF r
<1>3. Holds(r) BY <1>2 DEF Holds, Clear
<1>4. Calm(r, r) BY <1>3, CalmItself DEF Holds
<1>5. Calm(r, w) BY <1>4, RewindCalm
<1> HIDE DEF w
<1>6. Calm(r, s) BY <1>5, SavePCCalm DEF SaveContext
<1> HIDE DEF s
<1>7. Holds(s) /\ s.stop # "FrameFault" /\ s.lf = x.lf BY <1>2, <1>3, <1>6, HoldsSame DEF Calm
<1>8. Holds(n) BY <1>7, CleanHolds
<1>9. n.lf = x.lf BY <1>6, <1>7, CleanWhole DEF Calm
<1>10. c' = d
  <2>1. c' = [Clean(s) EXCEPT !.sp = 0, !.savedSP = 0, !.pc = 0, !.savedPC = 0,
                             !.stack = [i \in DOMAIN @ |-> "used"]]
    BY <1>1 DEF Leave
  <2> QED BY <2>1
<1> HIDE DEF n
<1>11. Calm(n, d) /\ d.lf = n.lf BY <1>8 DEF Holds, Clear, Calm, Whole, Registers, Stopped
<1> HIDE DEF d
<1>12. Holds(c') /\ c'.lf = x.lf BY <1>8, <1>9, <1>10, <1>11, HoldsSame
<1>13. away'.why = why /\ away'.fsi = x.need /\ away'.frame = x.lf BY <1>1, <1>7 DEF Leave
<1>14. Keeps' = Keeps BY DEF Keeps, HandlerFrames
<1>15. Holds(c)' BY <1>12, <1>14 DEF Holds, Clear, Through, Whole
<1>16. why = "FrameFault" => x.need \in Fsi BY DEF Holds, Clear
<1> QED BY <1>12, <1>13, <1>15, <1>16 DEF HeapInv

(* Whatever an opcode ended in, the lists are as it left them. *)
LEMMA FinishHolds ==
    ASSUME NEW x, Holds(x), Finish(x), spare \subseteq Frames, spare' = spare PROVE HeapInv'
<1>1. CASE x.stop \in {"PageFault", "FrameFault"} BY <1>1, LeaveHolds DEF Finish
<1>2. CASE x.stop \notin {"PageFault", "FrameFault"}
  <2> DEFINE n == Clean(x)
             d == [n EXCEPT !.savedPC = 0, !.savedSP = 0]
  <2>1. Holds(n) BY <1>2, CleanHolds
  <2>2. c' = d /\ away' = NotAway BY <1>2 DEF Finish
  <2> HIDE DEF n
  <2>3. Calm(n, d) BY <2>1 DEF Holds, Clear, Calm, Whole, Registers, Stopped
  <2>4. Holds(c') BY <2>1, <2>2, <2>3, HoldsSame
  <2>5. Keeps' = Keeps BY DEF Keeps, HandlerFrames
  <2>6. Holds(c)' BY <2>4, <2>5 DEF Holds, Clear, Through, Whole
  <2> QED BY <2>2, <2>6 DEF HeapInv, NotAway
<1> QED BY <1>1, <1>2

(* An opcode keeps the invariant. *)
LEMMA RunHeap == ASSUME HeapInv, Proper, Run PROVE HeapInv'
<1>1. PICK out : Finish(Execute([c EXCEPT !.out = out])) BY DEF Run
<1> DEFINE x == [c EXCEPT !.out = out]
<1>2. Begun(c, OffLists) /\ OpcodeOK(c, Code[c.gf][c.pc], OffLists) BY HoldsBegun, ProperOpcode DEF Run
<1>3. Calm(c, x) /\ Alike(c, x) /\ x.pc = c.pc /\ x.stop = "run"
  BY <1>2 DEF Begun, Clear, Calm, Alike, Linked, Whole, Registers, Stopped, Run, Running
<1>4. Finish(Execute(x)) BY <1>1
<1> HIDE DEF x
<1>5. Begun(x, OffLists) BY <1>2, <1>3, BegunCalm
<1>6. OpcodeOK(x, Code[x.gf][x.pc], OffLists)
  <2>1. Code[x.gf][x.pc] = Code[c.gf][c.pc] BY <1>3 DEF Alike
  <2>2. OpcodeOK(x, Code[c.gf][c.pc], OffLists) BY <1>2, <1>3, OpcodeOKAlike
  <2> QED BY <2>1, <2>2
<1>7. Holds(Execute(x)) BY <1>3, <1>5, <1>6, ProperHandlers, ExecuteHolds DEF Stopped
<1> QED BY <1>4, <1>7, FinishHolds DEF Run, HeapInv

(* So does the return to the processor, to the frame that was left. *)
LEMMA ResumeHeap == ASSUME HeapInv, Proper, Resume PROVE HeapInv'
<1>1. PICK out :
          LET l == [c EXCEPT !.stack = away.stack, !.sp = away.sp, !.savedSP = away.sp,
                             !.pc = 0, !.savedPC = 0, !.lf = away.frame, !.out = out]
          IN Finish(Trapping(XFER(l, Frame(away.frame), Frame(Nil), "processSwitch", FALSE)))
  BY DEF Resume
<1> DEFINE l == [c EXCEPT !.stack = away.stack, !.sp = away.sp, !.savedSP = away.sp,
                          !.pc = 0, !.savedPC = 0, !.lf = away.frame, !.out = out]
           t == XFER(l, Frame(away.frame), Frame(Nil), "processSwitch", FALSE)
<1>2. Finish(Trapping(t)) BY <1>1
<1>3. away.frame = c.lf /\ Holds(c) BY DEF Resume, HeapInv
<1>4. Calm(c, l) BY <1>3 DEF Holds, Clear, Calm, Whole, Registers, Stopped
<1> HIDE DEF l
<1>5. Holds(l) /\ l.lf = c.lf BY <1>3, <1>4, HoldsSame DEF Calm
<1>6. Begun(l, Keeps \cup {l.lf}) BY <1>5 DEF Holds, Begun
<1>7. LeadsIn(Resolved(l, Frame(away.frame)), Keeps \cup {l.lf})
  BY <1>3, <1>5 DEF Resolved, Frame, LeadsIn, Holds
<1>8. Holds(t) BY <1>6, <1>7, XFERBegun
<1> HIDE DEF t
<1>9. Holds(Trapping(t)) BY <1>8, ProperHandlers, TrappingHolds
<1> QED BY <1>2, <1>9, FinishHolds DEF Resume, HeapInv

(* So does a preemption. *)
LEMMA PreemptHeap == ASSUME HeapInv, Preempt PROVE HeapInv'
<1> DEFINE x == [c EXCEPT !.savedPC = c.pc, !.savedSP = c.sp]
<1>1. Calm(c, x) BY DEF HeapInv, Holds, Clear, Calm, Whole, Registers, Stopped
<1>2. Leave(x, "preempted") BY DEF Preempt
<1> HIDE DEF x
<1>3. Holds(x) BY <1>1, HoldsSame DEF HeapInv
<1> QED BY <1>2, <1>3, LeaveHolds DEF Preempt, HeapInv

(* A frame not given out before joins a list. *)
LEMMA FaultHandlerHeap == ASSUME HeapInv, Proper, FrameFaultHandler PROVE HeapInv'
<1> DEFINE s == Slot(c.av, away.fsi)
<1>1. PICK f \in spare : /\ c' = [c EXCEPT !.frame[f].local0 = c.av[s], !.frame[f].fsi = s,
                                          !.av[s] = Item("frame", f)]
                         /\ spare' = spare \ {f}
  BY DEF FrameFaultHandler
<1> DEFINE B == Keeps \cup {c.lf}
<1>2. PICK q : Through(c.av, c.frame, q, B) BY DEF HeapInv, Holds, Clear
<1>3. s \in Fsi BY <1>2, SlotEnds DEF HeapInv, FrameFaultHandler
<1> HIDE DEF s
<1>4. f \in B /\ f \in Frames /\ f # c.lf BY DEF HeapInv, Holds, Keeps
<1>5. f \notin HandlerFrames
  <2> SUFFICES ASSUME NEW n \in Trapped, Handler[n].kind = "frame" PROVE Handler[n].to # f
    BY DEF HandlerFrames
  <2>1. Leads(Handler[n]) BY DEF Proper
  <2>2. Handler[n].to \in Busy \cup {Nil} BY <2>1 DEF Leads, Resolved
  <2> QED BY <2>2, <1>4, TransferAssumption DEF Busy
<1>6. Whole(c) /\ DOMAIN c.av = Fsi BY DEF HeapInv, Holds, Clear
<1>7. /\ Whole(c') /\ c'.lf = c.lf /\ c'.stop = c.stop /\ c'.need = c.need
      /\ c'.av = [c.av EXCEPT ![s] = Item("frame", f)]
      /\ c'.frame[f].local0 = c.av[s] /\ c'.frame[f].fsi = s
      /\ \A g \in Frames \ {f} : c'.frame[g] = c.frame[g]
  BY <1>1, <1>4, <1>6 DEF Whole, Registers, Fields
<1> DEFINE r == [q EXCEPT ![s] = <<f>> \o @]
<1>8. Through(c'.av, c'.frame, r, B \ {f})
  <2>1. DOMAIN c.frame = Frames BY <1>6 DEF Whole
  <2> HIDE DEF B, r
  <2>2. Through([c.av EXCEPT ![s] = Item("frame", f)], c'.frame, [q EXCEPT ![s] = <<f>> \o @], B \ {f})
    BY <1>2, <1>3, <1>4, <1>6, <1>7, <2>1, Given
  <2> QED BY <2>2, <1>7 DEF r
<1> HIDE DEF r
<1>9. Keeps' = (spare \ {f}) \cup HandlerFrames BY <1>1 DEF Keeps, HandlerFrames
<1>10. Keeps' \cup {c.lf} \subseteq B \ {f} BY <1>4, <1>5, <1>9 DEF Keeps
<1>11. \E p : Through(c'.av, c'.frame, p, Keeps' \cup {c'.lf})
  BY <1>7, <1>8, <1>10 DEF Through
<1>12. /\ DOMAIN c'.av = Fsi /\ (c'.stop = "FrameFault" => c'.need \in Fsi)
  BY <1>6, <1>7 DEF HeapInv, Holds, Clear
<1>13. ASSUME NEW g \in Frames PROVE c'.frame[g].fsi \in Fsi
  BY <1>3, <1>7 DEF HeapInv, Holds, Clear
<1>14. Holds(c)'
  <2>1. c'.lf \in Frames \ spare' BY <1>1, <1>7 DEF HeapInv, Holds
  <2> QED BY <2>1, <1>7, <1>11, <1>12, <1>13 DEF Holds, Clear, Through, Whole
<1>15. spare' \subseteq Frames BY <1>1 DEF HeapInv
<1>16. away'.why # "FrameFault" /\ away'.frame = c'.lf
  BY <1>7 DEF FrameFaultHandler, HeapInv
<1> QED BY <1>14, <1>15, <1>16 DEF HeapInv

(* Code that is taken away is on no list. *)
LEMMA CodeOutHeap == ASSUME HeapInv, CodeOut PROVE HeapInv'
<1>1. Calm(c, c')
  BY DEF CodeOut, HeapInv, Holds, Clear, Calm, Whole, Registers, Stopped
<1>2. Holds(c') /\ c'.lf = c.lf BY <1>1, HoldsSame DEF HeapInv, Calm
<1>3. Keeps' = Keeps /\ spare' = spare /\ away' = away BY DEF Keeps, HandlerFrames, CodeOut
<1>4. Holds(c)' BY <1>2, <1>3 DEF Holds, Clear, Through, Whole
<1> QED BY <1>2, <1>3, <1>4 DEF HeapInv

(* Every step keeps the invariant. *)
LEMMA StepHeap == ASSUME HeapInv, Proper, [Next]_vars PROVE HeapInv'
<1>1. CASE UNCHANGED vars
  BY <1>1 DEF vars, HeapInv, Holds, Keeps, HandlerFrames, Clear, Through, Whole
<1> QED BY <1>1, RunHeap, PreemptHeap, ResumeHeap, FaultHandlerHeap, CodeOutHeap DEF Next

(* The frame lists stay lists, and the running frame is on none, whatever    *)
(* traps, page faults and frame faults interrupt XFER, Alloc and Free, while *)
(* the programs keep to Proper.                                              *)
THEOREM FramesAlwaysSound == Spec /\ []Proper => []FramesSound
<1>1. Init /\ Proper => HeapInv BY InitHeap
<1>2. HeapInv /\ Proper /\ [Next]_vars => HeapInv' BY StepHeap
<1>3. HeapInv => FramesSound BY HoldsSound
<1> QED BY <1>1, <1>2, <1>3, PTL DEF Spec

(* Whenever an opcode is about to run, GF and CB are those of the running    *)
(* frame, whatever XFER, trap or resumption brought it there, while the      *)
(* programs keep to Proper.                                                  *)
THEOREM GlobalsAlwaysCoherent == Spec /\ []Proper => []GlobalsCoherent
<1> DEFINE I == Registered /\ HeapInv
<1>1. Init /\ Proper => I BY InitRegistered, InitHeap
<1>2. I /\ Proper /\ [Next]_vars => I'
  <2>1. HeapInv => c.lf \in Frames BY DEF HeapInv, Holds
  <2>2. HeapInv' => (c.lf \in Frames)' BY DEF HeapInv, Holds
  <2> QED BY <2>1, <2>2, StepHeap, StepRegistered
<1>3. I => GlobalsCoherent BY DEF Registered
<1> QED BY <1>1, <1>2, <1>3, PTL DEF Spec
=============================================================================
