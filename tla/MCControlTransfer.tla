------------------------- MODULE MCControlTransfer -------------------------
(* A main program in module A that calls into B, calls a procedure of its   *)
(* own directly and through an indirect link, takes and frees a frame, and  *)
(* exchanges control with a coroutine in B; trap handlers in H, one of them *)
(* an activation that waits for its trap, two of them procedures.           *)
EXTENDS ControlTransfer

CONSTANTS fMain, fCo, fTrap, free0, free1, s1, s2, P, Q, X, A, B, H

I(op) == [op |-> op]
LI(value) == [op |-> "LI", value |-> value]
Enter(fsi) == [op |-> "entry", fsi |-> fsi]
JB(pc) == [op |-> "JB", pc |-> pc]

MCCode ==
    [mod \in Modules |->
        CASE mod = A ->
               [pc \in 4 .. 22 |->
                  CASE pc = 4 -> [op |-> "EFC", incode |-> TRUE, link |-> Proc("new", B, 4)]
                    [] pc = 5 -> [op |-> "LFC", pc |-> 18]
                    [] pc = 6 -> LI(0) [] pc = 7 -> I("AF") [] pc = 8 -> I("FF")
                    [] pc = 9 -> LI(P) [] pc = 10 -> LI(Nil) [] pc = 11 -> I("PO")
                    [] pc = 12 -> I("PI") [] pc = 13 -> I("BNDCK")
                    [] pc = 14 -> LI(Indirect(X)) [] pc = 15 -> I("SFC") [] pc = 16 -> JB(4)
                    [] pc = 18 -> Enter(0) [] pc = 19 -> I("RET")
                    [] OTHER -> I("none")]
          [] mod = B ->
               [pc \in 4 .. 16 |->
                  CASE pc = 4 -> Enter(1)
                    [] pc = 5 -> [op |-> "KFCB", link |-> Proc("old", B, 8)]
                    [] pc = 6 -> I("RET")
                    [] pc = 8 -> Enter(0) [] pc = 9 -> I("RET")
                    [] pc = 12 -> LI(Q) [] pc = 13 -> LI(Nil) [] pc = 14 -> I("POR")
                    [] pc = 15 -> I("PI") [] pc = 16 -> JB(12)
                    [] OTHER -> I("none")]
          [] mod = H ->
               [pc \in 4 .. 14 |->
                  CASE pc = 4 -> Enter(0) [] pc = 5 -> I("REPAIR") [] pc = 6 -> I("XF")
                    [] pc = 8 -> Enter(0) [] pc = 9 -> I("REPAIR") [] pc = 10 -> I("RET")
                    [] pc = 12 -> I("REPAIR") [] pc = 13 -> I("XE") [] pc = 14 -> JB(12)
                    [] OTHER -> I("none")]]

MCHandler ==
    [n \in Trapped |-> IF n = "BoundsTrap" THEN Frame(fTrap)
                       ELSE Proc("new", H, IF n = "CodeTrap" THEN 4 ELSE 8)]

NewFrame == [fsi |-> 0, ret |-> Frame(Nil), global |-> A, pc |-> 0, local0 |-> Item("empty", Nil)]
(* the list of size 0 holds free0, and goes on in that of size 1 with free1 *)
MCFrame ==
    [f \in Frames |->
        CASE f = fMain -> [NewFrame EXCEPT !.pc = 4]
          [] f = fCo -> [NewFrame EXCEPT !.global = B, !.pc = 15]
          [] f = fTrap -> [NewFrame EXCEPT !.global = H, !.pc = 12]
          [] f = free0 -> [NewFrame EXCEPT !.local0 = Item("indirect", 1)]
          [] f = free1 -> [NewFrame EXCEPT !.fsi = 1]
          [] OTHER -> NewFrame]
MCAV == [i \in Fsi |-> Item("frame", IF i = 0 THEN free0 ELSE free1)]
MCPort == [p \in Ports |-> IF p = P THEN [in |-> Nil, out |-> Indirect(Q)]
                                    ELSE [in |-> fCo, out |-> Indirect(P)]]
Unbound == [x \in Cells |-> Proc("new", A, 0)]
Bound == [x \in Cells |-> Proc("old", A, 18)]
============================================================================
