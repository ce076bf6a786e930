----------------------------- MODULE TimedWaits -----------------------------
(***************************************************************************)
(* ProcessScheduler with a history variable that counts, for each timed     *)
(* wait, the ticks it has left.  PTC is a 16 bit counter that wraps and      *)
(* skips 0, and so does the deadline MW computes from it.                   *)
(***************************************************************************)
EXTENDS ProcessScheduler

VARIABLE left   \* the ticks a timed wait has left, NoTimer without one

tvars == <<vars, left>>
NoTimer == Ticks

TInit == Init /\ left = [p \in Psb |-> NoTimer]

(* The running process executed MW with timeout t. *)
Begun(t) == [left EXCEPT ![PSB] = IF pda'.waiting[PSB] /\ t # 0 THEN t ELSE NoTimer]

(* n ticks, none or one, passed; the count ends at 0. *)
Counted(n) == [p \in Psb |-> IF left[p] = NoTimer \/ ~ pda'.waiting[p] THEN NoTimer
                             ELSE IF left[p] = 0 THEN 0 ELSE left[p] - n]

(* The steps that timed waits depend on: REQ, SPP and faults take no part,   *)
(* and an interrupt comes between ticks, so that the end of a wait at a tick *)
(* is a timeout.                                                            *)
TNext ==
  \/ \E c \in Conditions, t \in WaitTicks : E_MW(c, t) /\ left' = Begun(t)
  \/ Preempt({}, TRUE) /\ left' = Counted(1)
  \/ /\ \/ \E wakeups \in SUBSET DOMAIN InterruptConditions : Preempt(wakeups, FALSE)
        \/ \E m \in Monitors : E_ME(m) \/ E_MX(m)
        \/ \E c \in Conditions : E_MR(c) \/ E_NC(c) \/ E_BC(c)
        \/ \E p \in Psb : Abort(p)
     /\ left' = Counted(0)

TSpec == TInit /\ [][TNext]_tvars

-----------------------------------------------------------------------------
(* A wait of t ticks is over after t ticks, also when PTC wraps meanwhile:   *)
(* no process that still waits has used them up.                            *)
NoWaitTooLong == \A p \in Psb : left[p] > 0

(* A wait ends by timeout at its last tick or, as when PTC skipped 0         *)
(* meanwhile, at the last but one; never earlier, and never without timer.  *)
NoWaitTooShort ==
  [][\A p \in Psb :
       (PTC' # PTC /\ pda.waiting[p] /\ ~ pda'.waiting[p]) => left[p] \in {1, 2}]_tvars
=============================================================================
