------------------------- MODULE ProcessRefinement --------------------------
(***************************************************************************)
(* The process opcodes, with their rings, stale tails and cleanup links,    *)
(* implement the monitors and conditions of MesaMonitors.                   *)
(***************************************************************************)
EXTENDS ProcessScheduler

(* The place of a process that is at x in its protocol and waits or not.     *)
PlaceOf(x, waits) ==
  CASE x.at = "out"               -> <<"out">>
    [] x.at \in {"enter", "in"}   -> <<x.at, x.m>>
    [] x.at = "reenter" /\ waits  -> <<"wait", x.c>>
    [] OTHER                      -> <<"reenter", x.c>>

Place == [p \in Psb |-> PlaceOf(pc[p], pda.waiting[p])]
Ahead == [p \in Psb |-> AheadOf(pda, p)]

Abstract == INSTANCE MesaMonitors WITH
  Process <- Psb, Monitor <- Monitors, Condition <- Conditions,
  AbortableCondition <- Abortable, Level <- Priority,
  place    <- Place,
  ahead    <- Ahead,
  wakeup   <- pda.wakeup,
  abort    <- pda.abort,
  priority <- pda.pri

(* Every behaviour of the process opcodes is one of Mesa monitors: waiters   *)
(* wake in priority order, first come first served within a priority, no    *)
(* notification is lost or wakes two, and a timeout takes out just its own   *)
(* process.                                                                 *)
ImplementsMesaMonitors == Abstract!MSpec
=============================================================================
