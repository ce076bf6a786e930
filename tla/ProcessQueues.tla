--------------------------- MODULE ProcessQueues ---------------------------
(***************************************************************************)
(* The data structures of src/opcode/Opcode_process.cpp and the procedures  *)
(* that change them.  Everything lives in one record d, the process data    *)
(* area (PDA) with the monitors and conditions it points into; a procedure  *)
(* of the code is an operator that maps a PDA to the PDA it leaves behind.  *)
(*                                                                          *)
(* A queue is a ring: tail[q] is the last process, its successor next[tail] *)
(* the head.  A process that times out leaves its ring without the ring's   *)
(* tail being told (Dequeue with a nil source); its cleanup link leads the  *)
(* next user of the condition (CleanupCondition) to what is left.           *)
(***************************************************************************)
EXTENDS Integers, Sequences, FiniteSets

CONSTANTS
  NPsb,            \* number of process state blocks (PDA.count)
  NPri,            \* number of priorities (Priority_SIZE, 8 in the code)
  Monitors,        \* monitor locks
  Conditions,      \* condition variables, those of interrupts and faults included
  PlainQueues,     \* queues with neither lock nor wakeup bit: fault queues, pools
  Ready,           \* the ready queue
  Permanent,       \* processes that own a state vector (link.permanent)
  StateVectors,    \* the state vectors of the allocation table
  Abortable        \* conditions with the abortable bit

Null == 0                       \* PsbNull
Nil  == "nil"                   \* a nil queue handle
Frame == "frame"                \* a context that is a local frame
Psb == 1 .. NPsb
Priority == 0 .. NPri - 1
Queues == {Ready} \cup Monitors \cup Conditions \cup PlainQueues

ASSUME SizesAssumption == NPsb \in Nat \ {0} /\ NPri \in Nat \ {0}
ASSUME QueuesAssumption ==
  /\ Monitors \cap Conditions = {} /\ Monitors \cap PlainQueues = {}
  /\ Conditions \cap PlainQueues = {}
  /\ Ready \notin Monitors \cup Conditions \cup PlainQueues
  /\ Nil \notin Queues
ASSUME ProcessAssumption ==
  /\ Permanent \subseteq Psb /\ Abortable \subseteq Conditions
  /\ Frame \notin StateVectors

(* The type of a process data area. *)
PdaType ==
  [next      : [Psb -> Psb],                \* link.next
   pri       : [Psb -> Priority],           \* link.priority
   preempted : [Psb -> BOOLEAN],            \* link.preempted
   failed    : [Psb -> BOOLEAN],            \* link.failed
   waiting   : [Psb -> BOOLEAN],            \* flags.waiting
   abort     : [Psb -> BOOLEAN],            \* flags.abort
   cleanup   : [Psb -> Psb \cup {Null}],    \* flags.cleanup
   timeout   : [Psb -> Nat],                \* timeout, 0 is none
   context   : [Psb -> StateVectors \cup {Frame}],
   tail      : [Queues -> Psb \cup {Null}],
   locked    : [Monitors -> BOOLEAN],
   wakeup    : [Conditions -> BOOLEAN],
   state     : [Priority -> Seq(StateVectors)],   \* the free lists PDA.state
   PSB       : Psb,                         \* the register PSB
   running   : BOOLEAN]                     \* the register running

-----------------------------------------------------------------------------
(* Walks along links. *)

(* What a walk along the links f meets from p on, until a null link. *)
Reach(f, p) ==
  {x \in Psb : \A S \in SUBSET Psb :
                 (p \in S /\ \A y \in S : f[y] \in S \cup {Null}) => x \in S}

(* The processes of the ring that tail[q] points into. *)
Ring(d, q) == IF d.tail[q] = Null THEN {} ELSE Reach(d.next, d.tail[q])

HeadOf(d, q) == d.next[d.tail[q]]

(* The part of queue q from its head to p. *)
Prefix(d, q, p) == Reach([d.next EXCEPT ![p] = Null], HeadOf(d, q))

(* The process whose link leads to p.  The links are a permutation of the   *)
(* processes, so the walk of the code ends at this one and no other.        *)
Pred(d, p) == CHOOSE x \in Psb : d.next[x] = p

-----------------------------------------------------------------------------
(* 10.3.1 Queuing procedures *)

(* Mutant: the tail of the queue forgotten. *)
DequeueKeepTail(d, src, psb) ==
  LET nx == d.next[psb]
  IN  IF nx = psb THEN IF src = Nil THEN [d EXCEPT !.cleanup[psb] = nx]
                       ELSE [d EXCEPT !.tail[src] = Null]
      ELSE [d EXCEPT !.next[Pred(d, psb)] = nx]

Dequeue(d, src, psb) ==
  LET nx    == d.next[psb]
      alone == nx = psb
      prev  == IF alone THEN Null ELSE Pred(d, psb)
      d1    == IF alone THEN d ELSE [d EXCEPT !.next[prev] = nx]
  IN  IF src = Nil THEN [d1 EXCEPT !.cleanup[psb] = nx]
      ELSE [d1 EXCEPT !.tail[src] = IF @ = psb THEN prev ELSE @]

(* The last process of ring dst that psb must not overtake, when psb is not *)
(* to become the tail.                                                      *)
Before(d, dst, psb) ==
  CHOOSE x \in Ring(d, dst) :
    /\ x = d.tail[dst] \/ d.pri[x] >= d.pri[psb]
    /\ d.pri[d.next[x]] < d.pri[psb]

Enqueue(d, dst, psb) ==
  LET tail == d.tail[dst]
      last == d.pri[psb] <= d.pri[tail]
      prev == IF last THEN tail ELSE Before(d, dst, psb)
  IN  IF tail = Null
      THEN [d EXCEPT !.next[psb] = psb, !.tail[dst] = psb]
      ELSE [d EXCEPT !.next[psb] = d.next[prev], !.next[prev] = psb,
                     !.tail[dst] = IF last THEN psb ELSE tail]

Requeue(d, src, dst, psb) == Enqueue(Dequeue(d, src, psb), dst, psb)

-----------------------------------------------------------------------------
(* 10.4.2 Saving and loading process state; 10.4.1 the scheduler *)

EmptyState(d, pri) == d.state[pri] = << >>

(* SaveProcess with AllocState inlined: a preempted process gets a state    *)
(* vector of its priority, any other leaves only its frame behind.          *)
SaveProcess(d, preemption) ==
  LET p    == d.PSB
      pool == d.state[d.pri[p]]
      d1   == [d EXCEPT !.preempted[p] = preemption]
  IN  IF p \in Permanent THEN d1
      ELSE IF preemption
      THEN [d1 EXCEPT !.context[p] = Head(pool), !.state[d.pri[p]] = Tail(pool)]
      ELSE [d1 EXCEPT !.context[p] = Frame]

(* Mutant: the state vector is not freed. *)
LoadNoFree(d, p) == IF d.preempted[p] THEN d ELSE [d EXCEPT !.failed[p] = FALSE]

(* LoadProcess with FreeState inlined; a failed monitor entry is reported   *)
(* to the process by Push(0), after which failed is clear again.            *)
LoadProcess(d, p) ==
  IF ~ d.preempted[p] THEN [d EXCEPT !.failed[p] = FALSE]
  ELSE IF p \in Permanent THEN d
  ELSE [d EXCEPT !.state[d.pri[p]] = <<d.context[p]>> \o @]

(* Mutant: EmptyState not asked. *)
RunnableAlways(d, p) == p \in Ring(d, Ready)

Runnable(d, p) == p \in Permanent \/ d.preempted[p] \/ ~ EmptyState(d, d.pri[p])

(* The ready processes no runnable process is in front of: one or none. *)
FirstRunnable(d) ==
  {p \in Ring(d, Ready) : /\ Runnable(d, p)
                          /\ \A x \in Prefix(d, Ready, p) \ {p} : ~ Runnable(d, x)}

(* Where no process can run the code waits for an interrupt, or, if they are *)
(* disabled, traps with a RescheduleError (line 250).  That trap is left out:*)
(* the emulated system keeps interrupts enabled when it executes an opcode   *)
(* that may leave no process to run.                                         *)
Reschedule(d, preemption) ==
  LET d1    == IF d.running THEN SaveProcess(d, preemption) ELSE d
      first == FirstRunnable(d1)
      p     == CHOOSE x \in first : TRUE
  IN  IF first = {} THEN [d1 EXCEPT !.running = FALSE]      \* BusyWait
      ELSE [LoadProcess(d1, p) EXCEPT !.PSB = p, !.running = TRUE]

-----------------------------------------------------------------------------
(* 10.2 Monitor entry and exit, notify; 10.3.2 cleanup links *)

EnterFailed(d, m) ==
  Reschedule(Requeue([d EXCEPT !.failed[d.PSB] = TRUE], Ready, m, d.PSB), FALSE)

(* Exit returns whether it made a process ready: HasQueue of the PDA before. *)
HasQueue(d, q) == d.tail[q] # Null
(* Mutants: the lock is handed over instead of released; the entry queue is  *)
(* forgotten.                                                               *)
ExitHandOver(d, m) ==
  IF d.tail[m] = Null THEN [d EXCEPT !.locked[m] = FALSE]
  ELSE Requeue(d, m, Ready, HeadOf(d, m))

ExitNoRequeue(d, m) == [d EXCEPT !.locked[m] = FALSE]

Exit(d, m) ==
  LET d1 == [d EXCEPT !.locked[m] = FALSE]
  IN  IF HasQueue(d, m) THEN Requeue(d1, m, Ready, HeadOf(d1, m)) ELSE d1

(* Mutant: the timeout of a notified process stays. *)
WakeKeepTimeout(d, c) ==
  LET h == HeadOf(d, c) IN Requeue([d EXCEPT !.waiting[h] = FALSE], c, Ready, h)

WakeHead(d, c) ==
  LET h == HeadOf(d, c)
  IN  Requeue([d EXCEPT !.waiting[h] = FALSE, !.timeout[h] = 0], c, Ready, h)

(* Mutant: the first live process becomes the tail, not its predecessor. *)
CleanupToHead(d, c) ==
  LET tail == d.tail[c]
      end  == CHOOSE x \in Reach(d.cleanup, tail) : d.cleanup[x] \in {x, Null}
  IN  IF tail = Null THEN d
      ELSE IF d.cleanup[end] = end
      THEN [d EXCEPT !.wakeup[c] = FALSE, !.tail[c] = Null]
      ELSE [d EXCEPT !.tail[c] = end]

(* Follows the cleanup links from the tail of c.  They end at a process that *)
(* left last (its cleanup link leads to itself) or at one that still waits,  *)
(* which becomes the head.                                                   *)
CleanupCondition(d, c) ==
  LET tail == d.tail[c]
      end  == CHOOSE x \in Reach(d.cleanup, tail) : d.cleanup[x] \in {x, Null}
  IN  IF tail = Null THEN d
      ELSE IF d.cleanup[tail] = Null THEN d
      ELSE IF d.cleanup[end] = end
      THEN [d EXCEPT !.wakeup[c] = FALSE, !.tail[c] = Null]
      ELSE [d EXCEPT !.tail[c] = Pred(d, end)]

(* NotifyWakeup returns whether it woke a process: HasQueue after cleanup. *)
Waiters(d, c) == HasQueue(CleanupCondition(d, c), c)
(* Mutant: the wakeup bit set also when a process was woken. *)
NotifyAndKeep(d, c) ==
  LET d1 == [CleanupCondition(d, c) EXCEPT !.wakeup[c] = TRUE]
  IN  IF HasQueue(d1, c) THEN WakeHead(d1, c) ELSE d1

NotifyWakeup(d, c) ==
  LET d1 == CleanupCondition(d, c)
  IN  IF HasQueue(d1, c) THEN WakeHead(d1, c) ELSE [d1 EXCEPT !.wakeup[c] = TRUE]

(* The loop of E_BC. *)
WakeAll(d, c) ==
  LET woken[k \in 0 .. NPsb] ==
        IF k = 0 THEN d
        ELSE IF HasQueue(woken[k-1], c) THEN WakeHead(woken[k-1], c)
        ELSE woken[k-1]
  IN  woken[NPsb]

-----------------------------------------------------------------------------
(* 10.4.4.2 Interrupts and 10.4.5 timeouts *)

(* Interrupt: the levels of wakeups, in the order of the sequence of their  *)
(* conditions.                                                              *)
Interrupt(d, conds, wakeups) ==
  LET done[k \in 0 .. Len(conds)] ==
        IF k = 0 THEN d
        ELSE IF k \in wakeups THEN NotifyWakeup(done[k-1], conds[k])
        ELSE done[k-1]
  IN  done[Len(conds)]

Expired(d, ptc) == {p \in Psb : d.timeout[p] # 0 /\ d.timeout[p] = ptc}

(* Mutant: a deadline compared with <=. *)
ScanEarly(d, ptc) ==
  LET scan[k \in 0 .. NPsb] ==
        IF k = 0 THEN d
        ELSE IF scan[k-1].timeout[k] # 0 /\ scan[k-1].timeout[k] <= ptc
        THEN Requeue([scan[k-1] EXCEPT !.waiting[k] = FALSE, !.timeout[k] = 0],
                     Nil, Ready, k)
        ELSE scan[k-1]
  IN  scan[NPsb]

TimeoutScan(d, ptc) ==
  LET scan[k \in 0 .. NPsb] ==
        IF k = 0 THEN d
        ELSE IF k \in Expired(scan[k-1], ptc)
        THEN Requeue([scan[k-1] EXCEPT !.waiting[k] = FALSE, !.timeout[k] = 0],
                     Nil, Ready, k)
        ELSE scan[k-1]
  IN  scan[NPsb]

(* 10.4.3 Faults.  The instruction restarts when the process runs again. *)
Fault(d, faultQueue, faultCondition) ==
  Reschedule(NotifyWakeup(Requeue(d, Ready, faultQueue, d.PSB), faultCondition), TRUE)

(* The processes ahead of p on the condition it waits on, as the next user  *)
(* of the condition will find them.                                         *)
AheadOf(d, p) ==
  UNION {Prefix(CleanupCondition(d, c), c, p) \ {p} :
           c \in {x \in Conditions : p \in Ring(CleanupCondition(d, x), x)}}
=============================================================================
