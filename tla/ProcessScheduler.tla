-------------------------- MODULE ProcessScheduler --------------------------
(***************************************************************************)
(* The process machinery of the emulated machine: one processor executes    *)
(* the process opcodes of src/opcode/Opcode_process.cpp for the process in  *)
(* register PSB; between two opcodes run_processor (src/mesa/processor.cpp) *)
(* may serve interrupts and a timer tick, and an opcode may fault instead   *)
(* of completing.                                                           *)
(*                                                                          *)
(* What a process executes is compiled Mesa code, which is not in the       *)
(* repository.  pc says where it is in the protocol the opcodes are made    *)
(* for: ME until it succeeds; then MX, or MW followed by MR until that      *)
(* succeeds.                                                                *)
(***************************************************************************)
EXTENDS ProcessQueues

CONSTANTS
  MonitorOf,            \* the monitor that protects each condition
  Enters,               \* the monitors each process may enter
  InterruptConditions,  \* sequence: the condition of each interrupt level
  FaultConditions,      \* function: fault queue -> its condition
  WaitTicks,            \* the timeouts passed to MW, 0 for none
  Ticks,                \* number of values of PTC (65536 in the code)
  SettablePriorities    \* the arguments of SPP

ASSUME ProgramAssumption ==
  /\ MonitorOf \in [Conditions -> Monitors]
  /\ Enters \in [Psb -> SUBSET Monitors]
  /\ InterruptConditions \in Seq(Conditions)
  /\ \A i, j \in DOMAIN InterruptConditions :
       InterruptConditions[i] = InterruptConditions[j] => i = j
  /\ DOMAIN FaultConditions \subseteq PlainQueues
  /\ \A q \in DOMAIN FaultConditions : FaultConditions[q] \in Conditions
  /\ Ticks \in Nat \ {0, 1} /\ WaitTicks \subseteq 0 .. Ticks - 1
  /\ SettablePriorities \subseteq Priority

VARIABLES
  pda,   \* the process data area, see ProcessQueues
  PTC,   \* the register PTC, the process timeout counter
  pc     \* where each process is in its protocol

vars == <<pda, PTC, pc>>

None == "none"
Pools == PlainQueues \ DOMAIN FaultConditions

(* Outside every monitor; to execute ME on m; in monitor m; to execute MR   *)
(* on m and c.                                                              *)
Outside       == [at |-> "out",     m |-> None, c |-> None]
Entering(m)   == [at |-> "enter",   m |-> m,    c |-> None]
Inside(m)     == [at |-> "in",      m |-> m,    c |-> None]
Reentering(c) == [at |-> "reenter", m |-> MonitorOf[c], c |-> c]

PcType == {Outside} \cup {Entering(m) : m \in Monitors}
            \cup {Inside(m) : m \in Monitors} \cup {Reentering(c) : c \in Conditions}

TypeOK ==
  /\ pda \in PdaType
  /\ PTC \in 0 .. Ticks - 1
  /\ pc \in [Psb -> PcType]

-----------------------------------------------------------------------------
CONSTANTS InitPriority,   \* the priority of each process at the start
          InitState       \* the free state vectors of each priority at the start

ASSUME InitAssumption ==
  /\ InitPriority \in [Psb -> Priority]
  /\ \A p, q \in Psb : p < q => InitPriority[p] >= InitPriority[q]
  /\ InitState \in [Priority -> Seq(StateVectors)]
  /\ 1 \in Permanent \/ InitState[InitPriority[1]] # << >>   \* Runnable: it was dispatched

(* The free lists link the state vectors themselves: each is on one, once.   *)
ASSUME InitStateAssumption ==
  /\ IsFiniteSet(StateVectors)
  /\ \A sv \in StateVectors :
       \E pri \in Priority : \E i \in DOMAIN InitState[pri] : InitState[pri][i] = sv
  /\ \A k, l \in Priority : \A i \in DOMAIN InitState[k], j \in DOMAIN InitState[l] :
       InitState[k][i] = InitState[l][j] => k = l /\ i = j

(* All processes ready and the first of them just dispatched, as after the  *)
(* first Reschedule.                                                        *)
Init ==
  /\ pda = [next      |-> [p \in Psb |-> IF p = NPsb THEN 1 ELSE p + 1],
            pri       |-> InitPriority,
            preempted |-> [p \in Psb |-> FALSE],
            failed    |-> [p \in Psb |-> FALSE],
            waiting   |-> [p \in Psb |-> FALSE],
            abort     |-> [p \in Psb |-> FALSE],
            cleanup   |-> [p \in Psb |-> Null],
            timeout   |-> [p \in Psb |-> 0],
            context   |-> [p \in Psb |-> Frame],
            tail      |-> [q \in Queues |-> IF q = Ready THEN NPsb ELSE Null],
            locked    |-> [m \in Monitors |-> FALSE],
            wakeup    |-> [c \in Conditions |-> FALSE],
            state     |-> InitState,
            PSB       |-> 1,
            running   |-> TRUE]
  /\ PTC = 0
  /\ pc = [p \in Psb |-> Outside]

-----------------------------------------------------------------------------
PSB == pda.PSB

E_ME(m) ==
  /\ pda.running
  /\ \/ pc[PSB] = Entering(m)
     \/ pc[PSB] = Outside /\ m \in Enters[PSB]
  /\ IF ~ pda.locked[m]
     THEN /\ pda' = [pda EXCEPT !.locked[m] = TRUE]
          /\ pc' = [pc EXCEPT ![PSB] = Inside(m)]           \* Push(1)
     ELSE /\ pda' = EnterFailed(pda, m)
          /\ pc' = [pc EXCEPT ![PSB] = Entering(m)]
  /\ UNCHANGED PTC

E_MX(m) ==
  /\ pda.running
  /\ pc[PSB] = Inside(m)
  /\ pda' = IF HasQueue(pda, m) THEN Reschedule(Exit(pda, m), FALSE) ELSE Exit(pda, m)
  /\ pc' = [pc EXCEPT ![PSB] = Outside]
  /\ UNCHANGED PTC

(* Mutant: a deadline of 0 is kept, which means no timeout. *)
DeadlineMayBeZero(t) == IF t = 0 THEN 0 ELSE (PTC + t) % Ticks

(* The value of PTC at which a wait of t ticks ends: 16 bit arithmetic, and *)
(* neither 0 (no timeout) nor a value PTC skips.                            *)
Deadline(t) == IF t = 0 THEN 0 ELSE LET sum == (PTC + t) % Ticks
                                    IN  IF sum = 0 THEN 1 ELSE sum

Aborted(p, c) == pda.abort[p] /\ c \in Abortable

(* Mutant: a stored wakeup is cleared, but the process sleeps all the same. *)
WaitDespiteWakeup(c, t) ==
  LET exited == Exit(CleanupCondition(pda, c), MonitorOf[c])
      asleep == Requeue([exited EXCEPT !.timeout[PSB] = Deadline(t), !.wakeup[c] = FALSE,
                                       !.waiting[PSB] = TRUE], Ready, c, PSB)
  IN  /\ pda.running
      /\ pc[PSB] = Inside(MonitorOf[c])
      /\ pda' = Reschedule(asleep, FALSE)
      /\ pc' = [pc EXCEPT ![PSB] = Reentering(c)]
      /\ UNCHANGED PTC

E_MW(c, t) ==
  LET m      == MonitorOf[c]
      exited == Exit(CleanupCondition(pda, c), m)
      woken  == [exited EXCEPT !.wakeup[c] = FALSE]
      asleep == Requeue([exited EXCEPT !.timeout[PSB] = Deadline(t),
                                       !.waiting[PSB] = TRUE], Ready, c, PSB)
  IN  /\ pda.running
      /\ pc[PSB] = Inside(m)
      /\ IF Aborted(PSB, c) \/ exited.wakeup[c]
         THEN LET next == IF Aborted(PSB, c) THEN exited ELSE woken
              IN  pda' = IF HasQueue(pda, m) THEN Reschedule(next, FALSE) ELSE next
         ELSE pda' = Reschedule(asleep, FALSE)
      /\ pc' = [pc EXCEPT ![PSB] = Reentering(c)]
      /\ UNCHANGED PTC

(* ProcessTrap leaves the monitor alone.  The trap handler of the emulated  *)
(* system, which is external, clears abort and enters the monitor to raise  *)
(* the signal inside it.                                                    *)
E_MR(c) ==
  LET m    == MonitorOf[c]
      left == [CleanupCondition(pda, c) EXCEPT !.cleanup[PSB] = Null]
  IN  /\ pda.running
      /\ pc[PSB] = Reentering(c)
      /\ \/ /\ pda.locked[m]
            /\ pda' = EnterFailed(pda, m)
            /\ UNCHANGED pc
         \/ /\ ~ pda.locked[m] /\ Aborted(PSB, c)
            /\ pda' = [left EXCEPT !.abort[PSB] = FALSE]
            /\ pc' = [pc EXCEPT ![PSB] = Entering(m)]
         \/ /\ ~ pda.locked[m] /\ ~ Aborted(PSB, c)
            /\ pda' = [left EXCEPT !.locked[m] = TRUE]
            /\ pc' = [pc EXCEPT ![PSB] = Inside(m)]         \* Push(1)
      /\ UNCHANGED PTC

E_NC(c) ==
  LET d1 == CleanupCondition(pda, c)
  IN  /\ pda.running
      /\ pc[PSB] = Inside(MonitorOf[c])
      /\ pda' = IF HasQueue(d1, c) THEN Reschedule(WakeHead(d1, c), FALSE) ELSE d1
      /\ UNCHANGED <<PTC, pc>>

E_BC(c) ==
  LET d1 == CleanupCondition(pda, c)
  IN  /\ pda.running
      /\ pc[PSB] = Inside(MonitorOf[c])
      /\ pda' = IF HasQueue(d1, c) THEN Reschedule(WakeAll(d1, c), FALSE) ELSE d1
      /\ UNCHANGED <<PTC, pc>>

(* The system's uses of REQ: a process parks itself in a pool or makes a    *)
(* process of a pool ready; a fault handler, inside the monitor of the      *)
(* fault, resumes a faulted process.                                        *)
E_REQ(src, dst, p) ==
  /\ pda.running
  /\ \/ src = Ready /\ dst \in Pools /\ p = PSB /\ pc[PSB] = Outside
     \/ src \in Pools /\ dst = Ready /\ p \in Ring(pda, src)
     \/ /\ src \in DOMAIN FaultConditions /\ dst = Ready /\ p \in Ring(pda, src)
        /\ pc[PSB] = Inside(MonitorOf[FaultConditions[src]])
  /\ pda' = Reschedule(Requeue(pda, src, dst, p), FALSE)
  /\ UNCHANGED <<PTC, pc>>

(* The system's way to abort a process that waits on an abortable condition *)
(* (external, except for REQ with a nil source).                            *)
Abort(p) ==
  /\ pda.running
  /\ pc[p].at = "reenter" /\ ~ pda.abort[p]
  /\ LET flagged == [pda EXCEPT !.abort[p] = TRUE]
         asleep  == [flagged EXCEPT !.waiting[p] = FALSE, !.timeout[p] = 0]
     IN  pda' = IF pda.waiting[p] /\ pc[p].c \in Abortable
                THEN Reschedule(Requeue(asleep, Nil, Ready, p), FALSE)
                ELSE flagged
  /\ UNCHANGED <<PTC, pc>>

E_SPP(pri) ==
  /\ pda.running
  /\ pda' = Reschedule(Requeue([pda EXCEPT !.pri[PSB] = pri], Ready, Ready, PSB), FALSE)
  /\ UNCHANGED <<PTC, pc>>

(* The running process faults before its opcode changed anything. *)
FaultStep(q) ==
  /\ pda.running
  /\ pda' = Fault(pda, q, FaultConditions[q])
  /\ UNCHANGED <<PTC, pc>>

(* PTC++, and once more when it became 0. *)
NextPTC == IF PTC = Ticks - 1 THEN 1 ELSE PTC + 1

(* Mutant: only a timeout reschedules. *)
PreemptOnTimeout(wakeups, tick) ==
  LET d1  == Interrupt(pda, InterruptConditions, wakeups)
      ptc == IF tick THEN NextPTC ELSE PTC
      d2  == IF tick THEN TimeoutScan(d1, ptc) ELSE d1
  IN  /\ wakeups # {} \/ tick
      /\ pda' = IF tick /\ Expired(d1, ptc) # {} THEN Reschedule(d2, TRUE) ELSE d2
      /\ PTC' = ptc
      /\ UNCHANGED pc

(* The reschedule block of run_processor: pending interrupts, then a tick,  *)
(* then at most one Reschedule.                                             *)
Preempt(wakeups, tick) ==
  LET d1        == Interrupt(pda, InterruptConditions, wakeups)
      ptc       == IF tick THEN NextPTC ELSE PTC
      d2        == IF tick THEN TimeoutScan(d1, ptc) ELSE d1
      interrupt == \E i \in wakeups : Waiters(pda, InterruptConditions[i])
      timeout   == tick /\ Expired(d1, ptc) # {}
  IN  /\ wakeups # {} \/ tick
      /\ pda' = IF interrupt \/ timeout THEN Reschedule(d2, TRUE) ELSE d2
      /\ PTC' = ptc
      /\ UNCHANGED pc

Next ==
  \/ \E m \in Monitors : E_ME(m) \/ E_MX(m)
  \/ \E c \in Conditions : E_MR(c) \/ E_NC(c) \/ E_BC(c)
  \/ \E c \in Conditions, t \in WaitTicks : E_MW(c, t)
  \/ \E src, dst \in {Ready} \cup PlainQueues, p \in Psb : E_REQ(src, dst, p)
  \/ \E p \in Psb : Abort(p)
  \/ \E pri \in SettablePriorities : E_SPP(pri)
  \/ \E q \in DOMAIN FaultConditions : FaultStep(q)
  \/ \E wakeups \in SUBSET DOMAIN InterruptConditions, tick \in BOOLEAN :
       Preempt(wakeups, tick)

Spec == Init /\ [][Next]_vars

-----------------------------------------------------------------------------
(* The processes on queue q once the cleanup links are followed. *)
LiveRing(q) == Ring(IF q \in Conditions THEN CleanupCondition(pda, q) ELSE pda, q)
LiveTail(q) == (IF q \in Conditions THEN CleanupCondition(pda, q) ELSE pda).tail[q]

(* No process is lost and none is on two queues, however Requeue, timeouts  *)
(* and lazy cleanup of conditions interleave; the running one is ready.     *)
QueuesPartition ==
  /\ \A p \in Psb : Cardinality({q \in Queues : p \in LiveRing(q)}) = 1
  /\ pda.running => PSB \in Ring(pda, Ready)

(* Every queue is in priority order from head to tail, also after SPP and   *)
(* after processes left a condition by timeout.                             *)
RingsSorted ==
  \A q \in Queues : \A p \in LiveRing(q) \ {LiveTail(q)} :
    pda.pri[p] >= pda.pri[pda.next[p]]

(* The queues are a partition of the processes into ordered rings whatever   *)
(* stale tails and links a timeout, an abort or a fault leaves behind.       *)
QueuesSound == TypeOK /\ QueuesPartition /\ RingsSorted

(* A monitor is locked when, and only when, exactly one process is inside.  *)
MutualExclusion ==
  \A m \in Monitors :
    Cardinality({p \in Psb : pc[p] = Inside(m)}) = IF pda.locked[m] THEN 1 ELSE 0

(* Exit unlocks and readies only the head of the entry queue; whoever then  *)
(* takes the lock must ready the next.  An unlocked monitor with processes  *)
(* on its queue has some other process on the way in.                       *)
NoStrandedEntry ==
  \A m \in Monitors :
    (~ pda.locked[m] /\ HasQueue(pda, m)) =>
      \E p \in Psb \ Ring(pda, m) : pc[p].m = m /\ pc[p].at # "in" /\ ~ pda.waiting[p]

(* The waiting bit and the timeout say what the rings say: a process has    *)
(* them exactly while it is on the condition it will reenter from.          *)
WaitingConsistent ==
  \A p \in Psb :
    /\ pda.waiting[p] <=> \E c \in Conditions : p \in LiveRing(c)
    /\ pda.waiting[p] => pc[p].at = "reenter" /\ p \in LiveRing(pc[p].c)
    /\ pda.timeout[p] # 0 => pda.waiting[p]

(* The failed bit, which makes LoadProcess push a 0, is set only for a       *)
(* process that must still learn that its ME or MR failed.                   *)
FailedWhileRetrying ==
  \A p \in Psb : pda.failed[p] => /\ pc[p].at \in {"enter", "reenter"}
                                  /\ ~ pda.waiting[p]
                                  /\ ~ (pda.running /\ p = PSB)

(* What a process is to be told, that its wait is over or that it failed to  *)
(* enter, is still owed to it, through any timeout, abort and preemption.    *)
PendingConsistent == WaitingConsistent /\ FailedWhileRetrying

(* The wakeup-waiting bit of a condition never stands beside a process that *)
(* waits on it: that process would sleep through the interrupt.             *)
NoWaiterBesideWakeup ==
  \A c \in Conditions : pda.wakeup[c] => LiveRing(c) = {}

(* The processor never runs a process, or idles, while a ready process of   *)
(* higher priority could run.                                               *)
HighestPriorityRuns ==
  \A p \in Ring(pda, Ready) :
    Runnable(pda, p) => pda.running /\ pda.pri[p] <= pda.pri[PSB]

(* Whenever a process runs it can be preempted: AllocState never meets its  *)
(* ERROR, because Reschedule skips processes without a free state vector.   *)
PreemptionPossible ==
  pda.running /\ PSB \notin Permanent => ~ EmptyState(pda, pda.pri[PSB])

(* No state vector leaks, is on two lists, or is shared by two suspended    *)
(* processes, and each comes back to the priority it was taken from.        *)
Suspended == {p \in Psb \ Permanent : pda.preempted[p] /\ ~ (pda.running /\ p = PSB)}
StateVectorsConserved ==
  /\ \A sv \in StateVectors :
       Cardinality({p \in Suspended : pda.context[p] = sv})
         + Cardinality({x \in Priority \X (1 .. Cardinality(StateVectors)) :
                          x[2] \in DOMAIN pda.state[x[1]] /\ pda.state[x[1]][x[2]] = sv}) = 1
  /\ \A pri \in Priority :
       Len(pda.state[pri]) + Cardinality({p \in Suspended : pda.pri[p] = pri})
         = Len(InitState[pri])

(* An interrupt or fault notification that found no waiter is consumed only *)
(* by a wait on that condition that then does not sleep.                    *)
WakeupOnlyConsumedByWait ==
  [][\A c \in Conditions : pda.wakeup[c] /\ ~ pda'.wakeup[c] =>
       /\ pc[PSB] = Inside(MonitorOf[c]) /\ pc'[PSB] = Reentering(c)
       /\ ~ pda'.waiting[PSB]]_vars
=============================================================================
