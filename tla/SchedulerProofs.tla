-------------------------- MODULE SchedulerProofs ---------------------------
(***************************************************************************)
(* For any number of processes, monitors, conditions, priorities, interrupt *)
(* levels and state vectors: monitors exclude, the running process can      *)
(* always be preempted, and no state vector is lost or held twice.          *)
(*                                                                          *)
(* The argument.  Whatever the queuing procedures do to rings, links and    *)
(* wakeup bits, they leave alone the locks, the priorities and what belongs *)
(* to saved processes (Moved).  Reschedule, whichever process it picks,     *)
(* leaves a state vector of that process's priority free (Ran).  Only ME    *)
(* and MR lock a monitor, and only an unlocked one; only Exit, called by MX *)
(* and MW from inside it, unlocks it.  A state vector is on the free list   *)
(* of its priority or with the one saved process that holds it (Kept).      *)
(* The second part, from RInv on, is about the rings: see there.            *)
(***************************************************************************)
EXTENDS ProcessScheduler, QueueProofs

(* PDA d is PDA s with processes moved between queues, no more. *)
Moved(s, d) ==
  /\ {"locked", "PSB", "running", "preempted", "pri", "context", "state"} \subseteq DOMAIN d
  /\ d.locked = s.locked
  /\ d.PSB = s.PSB /\ d.running = s.running
  /\ d.preempted = s.preempted /\ d.pri = s.pri
  /\ d.context = s.context /\ d.state = s.state

-----------------------------------------------------------------------------
(* Frame lemmas: what the procedures of ProcessQueues leave alone. *)

(* Dequeue changes links and tails. *)
LEMMA MovedDequeue ==
  ASSUME NEW s, NEW d, Moved(s, d), NEW src, NEW psb
  PROVE  Moved(s, Dequeue(d, src, psb))
  BY DEF Moved, Dequeue

(* Enqueue changes links and tails. *)
LEMMA MovedEnqueue ==
  ASSUME NEW s, NEW d, Moved(s, d), NEW dst, NEW psb
  PROVE  Moved(s, Enqueue(d, dst, psb))
  BY DEF Moved, Enqueue

(* Requeue is a Dequeue and an Enqueue. *)
LEMMA MovedRequeue ==
  ASSUME NEW s, NEW d, Moved(s, d), NEW src, NEW dst, NEW psb
  PROVE  Moved(s, Requeue(d, src, dst, psb))
  BY MovedDequeue, MovedEnqueue DEF Requeue

(* Waking the head of a condition clears its wait and moves it. *)
LEMMA MovedWakeHead ==
  ASSUME NEW s, NEW d, Moved(s, d), NEW c
  PROVE  Moved(s, WakeHead(d, c))
<1> DEFINE h == HeadOf(d, c)
           d1 == [d EXCEPT !.waiting[h] = FALSE, !.timeout[h] = 0]
<1>1. Moved(s, d1)
  BY DEF Moved
<1>2. WakeHead(d, c) = Requeue(d1, c, Ready, h)
  BY DEF WakeHead
<1>3. QED
  BY <1>1, <1>2, MovedRequeue

(* CleanupCondition changes tails, links and a wakeup bit. *)
LEMMA MovedCleanup ==
  ASSUME NEW s, NEW d, Moved(s, d), NEW c
  PROVE  Moved(s, CleanupCondition(d, c))
  BY DEF Moved, CleanupCondition

(* NotifyWakeup wakes a process or sets the wakeup bit. *)
LEMMA MovedNotify ==
  ASSUME NEW s, NEW d, Moved(s, d), NEW c
  PROVE  Moved(s, NotifyWakeup(d, c))
<1> DEFINE d1 == CleanupCondition(d, c)
<1>1. Moved(s, d1)
  BY MovedCleanup
<1>2. Moved(s, [d1 EXCEPT !.wakeup[c] = TRUE])
  BY <1>1 DEF Moved
<1>3. QED
  BY <1>1, <1>2, MovedWakeHead DEF NotifyWakeup

(* Exit unlocks its monitor and no other. *)
LEMMA ExitUnlocks ==
  ASSUME NEW s, NEW d, Moved(s, d), "locked" \in DOMAIN s, NEW m
  PROVE  Moved([s EXCEPT !.locked[m] = FALSE], Exit(d, m))
<1> DEFINE d1 == [d EXCEPT !.locked[m] = FALSE]
<1>1. Moved([s EXCEPT !.locked[m] = FALSE], d1)
  BY DEF Moved
<1>2. QED
  BY <1>1, MovedRequeue DEF Exit

(* The loop of E_BC only moves processes. *)
LEMMA MovedWakeAll ==
  ASSUME NEW s, NEW d, Moved(s, d), NEW c
  PROVE  Moved(s, WakeAll(d, c))
<1>1. PICK run : WakeAllRun(run, d, c)
  BY WakeAllRuns
<1> DEFINE Kept == {k \in 0 .. NPsb : Moved(s, run[k])}
<1>2. NPsb \in Nat
  BY SizesAssumption
<1>3. 0 \in Kept
  BY <1>1, <1>2 DEF WakeAllRun
<1>4. ASSUME NEW k \in 0 .. NPsb - 1, k \in Kept PROVE k + 1 \in Kept
  <2>1. k + 1 \in 0 .. NPsb
    BY <1>2
  <2>2. run[k + 1] \in {WakeHead(run[k], c), run[k]}
    BY <1>1 DEF WakeAllRun
  <2>3. QED
    BY <1>4, <2>1, <2>2, MovedWakeHead
<1>5. Kept \in SUBSET (0 .. NPsb)
  OBVIOUS
<1> HIDE DEF Kept
<1>6. NPsb \in Kept
  BY <1>2, <1>3, <1>4, <1>5, IntervalInduction
<1>7. QED
  BY <1>1, <1>6 DEF Kept, WakeAllRun

(* The loop of Interrupt, over its levels. *)
LEMMA MovedInterrupt ==
  ASSUME NEW s, NEW d, Moved(s, d), NEW conds \in Seq(Conditions), NEW wakeups
  PROVE  Moved(s, Interrupt(d, conds, wakeups))
<1>1. PICK run : InterruptRun(run, d, conds, wakeups)
  BY InterruptRuns
<1> DEFINE Kept == {k \in 0 .. Len(conds) : Moved(s, run[k])}
<1>2. Len(conds) \in Nat
  BY SizesAssumption
<1>3. 0 \in Kept
  BY <1>1, <1>2 DEF InterruptRun
<1>4. ASSUME NEW k \in 0 .. Len(conds) - 1, k \in Kept PROVE k + 1 \in Kept
  <2>1. k + 1 \in 0 .. Len(conds)
    BY <1>2
  <2>2. run[k + 1] \in {NotifyWakeup(run[k], conds[k + 1]), run[k]}
    BY <1>1 DEF InterruptRun
  <2>3. QED
    BY <1>4, <2>1, <2>2, MovedNotify
<1>5. Kept \in SUBSET (0 .. Len(conds))
  OBVIOUS
<1> HIDE DEF Kept
<1>6. Len(conds) \in Kept
  BY <1>2, <1>3, <1>4, <1>5, IntervalInduction
<1>7. QED
  BY <1>1, <1>6 DEF Kept, InterruptRun

(* The loop of TimeoutScan, over all processes. *)
LEMMA MovedTimeoutScan ==
  ASSUME NEW s, NEW d, Moved(s, d), NEW ptc
  PROVE  Moved(s, TimeoutScan(d, ptc))
<1>1. PICK run : ScanRun(run, d, ptc)
  BY ScanRuns
<1> DEFINE Kept == {k \in 0 .. NPsb : Moved(s, run[k])}
<1>2. NPsb \in Nat
  BY SizesAssumption
<1>3. 0 \in Kept
  <2>1. run[0] = d /\ 0 \in 0 .. NPsb
    BY <1>1, <1>2 DEF ScanRun
  <2>2. QED
    BY <2>1
<1>4. ASSUME NEW k \in 0 .. NPsb - 1, k \in Kept PROVE k + 1 \in Kept
  <2> DEFINE r == [run[k] EXCEPT !.waiting[k + 1] = FALSE, !.timeout[k + 1] = 0]
  <2>1. k + 1 \in 0 .. NPsb
    BY <1>2
  <2>2. run[k + 1] \in {Requeue(r, Nil, Ready, k + 1), run[k]}
    BY <1>1 DEF ScanRun, ScanStep
  <2>3. Moved(s, run[k]) /\ Moved(s, r)
    BY <1>4 DEF Moved
  <2> HIDE DEF r
  <2>4. QED
    BY <2>1, <2>2, <2>3, MovedRequeue
<1>5. Kept \in SUBSET (0 .. NPsb)
  OBVIOUS
<1> HIDE DEF Kept
<1>6. NPsb \in Kept
  BY <1>2, <1>3, <1>4, <1>5, IntervalInduction
<1>7. QED
  BY <1>1, <1>6 DEF Kept, ScanRun

-----------------------------------------------------------------------------
(* Saving and loading processes. *)

(* The types of what a saved process consists of.  A preempted process that  *)
(* owns no state vector holds one.                                          *)
Typed(d) ==
  /\ {"locked", "PSB", "running", "preempted", "pri", "context", "state"} \subseteq DOMAIN d
  /\ d.locked \in [Monitors -> BOOLEAN]
  /\ d.PSB \in Psb /\ d.running \in BOOLEAN
  /\ d.preempted \in [Psb -> BOOLEAN] /\ d.pri \in [Psb -> Priority]
  /\ d.context \in [Psb -> StateVectors \cup {Frame}]
  /\ d.state \in [Priority -> Seq(StateVectors)]
  /\ \A p \in Psb \ Permanent :
       d.preempted[p] /\ ~ (d.running /\ p = d.PSB) => d.context[p] \in StateVectors

Preemptible(d) ==
  d.running /\ d.PSB \notin Permanent => ~ EmptyState(d, d.pri[d.PSB])

(* The types and the free state vector survive moves. *)
LEMMA MovedTyped ==
  ASSUME NEW s, NEW d, Moved(s, d), Typed(s)
  PROVE  Typed(d) /\ (Preemptible(s) => Preemptible(d))
  BY DEF Moved, Typed, Preemptible, EmptyState

(* PDA e is PDA s after moves and, perhaps, a change of the running process. *)
Ran(s, e) == Typed(e) /\ Preemptible(e) /\ e.locked = s.locked

(* Save, with a state vector to save to if one is needed. *)
LEMMA SaveTyped ==
  ASSUME NEW d, Typed(d), d.running, NEW preemption \in BOOLEAN,
         preemption => Preemptible(d)
  PROVE  /\ Typed([SaveProcess(d, preemption) EXCEPT !.running = FALSE])
         /\ "running" \in DOMAIN SaveProcess(d, preemption)
         /\ SaveProcess(d, preemption).locked = d.locked
<1> DEFINE p == d.PSB
           d1 == [d EXCEPT !.preempted[p] = preemption]
           e == SaveProcess(d, preemption)
<1>1. p \in Psb /\ d.pri[p] \in Priority
  BY DEF Typed
<1>2. CASE p \in Permanent
  BY <1>1, <1>2 DEF Typed, SaveProcess
<1>3. CASE p \notin Permanent /\ preemption
  <2> DEFINE pool == d.state[d.pri[p]]
  <2>1. pool \in Seq(StateVectors) /\ pool # << >>
    BY <1>1, <1>3 DEF Typed, Preemptible, EmptyState
  <2>2. Head(pool) \in StateVectors /\ Tail(pool) \in Seq(StateVectors)
    BY <2>1
  <2>3. e = [d1 EXCEPT !.context[p] = Head(pool), !.state[d.pri[p]] = Tail(pool)]
    BY <1>3 DEF SaveProcess
  <2> HIDE DEF pool
  <2>4. /\ e.context = [d.context EXCEPT ![p] = Head(pool)]
        /\ e.state = [d.state EXCEPT ![d.pri[p]] = Tail(pool)]
        /\ e.preempted = [d.preempted EXCEPT ![p] = TRUE]
        /\ DOMAIN e = DOMAIN d
        /\ e.locked = d.locked /\ e.PSB = d.PSB /\ e.pri = d.pri
    BY <1>3, <2>3 DEF Typed
  <2> HIDE DEF e
  <2> DEFINE idle == [e EXCEPT !.running = FALSE]
  <2>5. /\ DOMAIN idle = DOMAIN d /\ idle.running = FALSE
        /\ idle.context = e.context /\ idle.state = e.state /\ idle.preempted = e.preempted
        /\ idle.locked = d.locked /\ idle.PSB = d.PSB /\ idle.pri = d.pri
    BY <2>4 DEF Typed
  <2> HIDE DEF idle
  <2>6. /\ e.context \in [Psb -> StateVectors \cup {Frame}]
        /\ e.preempted \in [Psb -> BOOLEAN]
    BY <1>1, <2>2, <2>4 DEF Typed
  <2>7. e.state \in [Priority -> Seq(StateVectors)]
    BY <1>1, <2>2, <2>4 DEF Typed
  <2>8. \A q \in Psb \ Permanent : e.preempted[q] => e.context[q] \in StateVectors
    BY <1>1, <2>2, <2>4 DEF Typed
  <2>9. Typed(idle)
    BY <2>5, <2>6, <2>7, <2>8 DEF Typed
  <2>10. QED
    BY <2>4, <2>9 DEF e, idle, Typed
<1>4. CASE p \notin Permanent /\ ~ preemption
  <2>1. e = [d1 EXCEPT !.context[p] = Frame]
    BY <1>4 DEF SaveProcess
  <2>2. /\ e.context = [d.context EXCEPT ![p] = Frame]
        /\ e.preempted = [d.preempted EXCEPT ![p] = FALSE]
        /\ DOMAIN e = DOMAIN d /\ e.state = d.state
        /\ e.locked = d.locked /\ e.PSB = d.PSB /\ e.pri = d.pri
    BY <1>4, <2>1 DEF Typed
  <2> HIDE DEF e
  <2> DEFINE idle == [e EXCEPT !.running = FALSE]
  <2>3. /\ DOMAIN idle = DOMAIN d /\ idle.running = FALSE
        /\ idle.context = e.context /\ idle.state = d.state /\ idle.preempted = e.preempted
        /\ idle.locked = d.locked /\ idle.PSB = d.PSB /\ idle.pri = d.pri
    BY <2>2 DEF Typed
  <2> HIDE DEF idle
  <2>4. /\ e.context \in [Psb -> StateVectors \cup {Frame}]
        /\ e.preempted \in [Psb -> BOOLEAN]
    BY <1>1, <2>2 DEF Typed
  <2>5. \A q \in Psb \ Permanent : e.preempted[q] => e.context[q] \in StateVectors
    BY <1>1, <2>2 DEF Typed
  <2>6. Typed(idle)
    BY <2>3, <2>4, <2>5 DEF Typed
  <2>7. QED
    BY <2>2, <2>6 DEF e, idle, Typed
<1>5. QED
  BY <1>2, <1>3, <1>4

(* Load of a runnable process: a preempted one frees its state vector, any   *)
(* other was chosen because one is free.                                    *)
LEMMA LoadRan ==
  ASSUME NEW d, Typed([d EXCEPT !.running = FALSE]), "running" \in DOMAIN d,
         NEW p \in Psb, Runnable(d, p)
  PROVE  Ran(d, [LoadProcess(d, p) EXCEPT !.PSB = p, !.running = TRUE])
<1> DEFINE e == [LoadProcess(d, p) EXCEPT !.PSB = p, !.running = TRUE]
           idle == [d EXCEPT !.running = FALSE]
<1>1. /\ DOMAIN idle = DOMAIN d /\ idle.running = FALSE
      /\ idle.locked = d.locked /\ idle.preempted = d.preempted /\ idle.pri = d.pri
      /\ idle.context = d.context /\ idle.state = d.state /\ idle.PSB = d.PSB
  BY DEF Typed
<1>2. Typed(idle)
  OBVIOUS
<1> HIDE DEF idle
<1>3. CASE ~ d.preempted[p] \/ p \in Permanent
  <2>1. /\ DOMAIN e = DOMAIN d /\ e.running = TRUE /\ e.PSB = p
        /\ e.locked = d.locked /\ e.preempted = d.preempted /\ e.pri = d.pri
        /\ e.context = d.context /\ e.state = d.state
    BY <1>1, <1>2, <1>3 DEF Typed, LoadProcess
  <2>2. p \notin Permanent => d.state[d.pri[p]] # << >>
    BY <1>3 DEF Runnable, EmptyState
  <2> HIDE DEF e
  <2>3. Ran(d, e)
    BY <1>1, <1>2, <2>1, <2>2 DEF Typed, Ran, Preemptible, EmptyState
  <2>4. QED
    BY <2>3 DEF e
<1>4. CASE d.preempted[p] /\ p \notin Permanent
  <2> DEFINE freed == <<d.context[p]>> \o d.state[d.pri[p]]
  <2>1. d.context[p] \in StateVectors /\ d.pri[p] \in Priority
    BY <1>1, <1>2, <1>4 DEF Typed
  <2>2. freed \in Seq(StateVectors) /\ freed # << >>
    <3>1. d.state[d.pri[p]] \in Seq(StateVectors) /\ <<d.context[p]>> \in Seq(StateVectors)
      BY <1>1, <1>2, <2>1 DEF Typed
    <3>2. Len(freed) = 1 + Len(d.state[d.pri[p]]) /\ freed \in Seq(StateVectors)
      BY <3>1
    <3>3. QED
      BY <3>1, <3>2
  <2>3. /\ DOMAIN e = DOMAIN d /\ e.running = TRUE /\ e.PSB = p
        /\ e.locked = d.locked /\ e.preempted = d.preempted /\ e.pri = d.pri
        /\ e.context = d.context /\ e.state = [d.state EXCEPT ![d.pri[p]] = freed]
    BY <1>1, <1>2, <1>4 DEF Typed, LoadProcess
  <2> HIDE DEF e, freed
  <2>4. e.state \in [Priority -> Seq(StateVectors)] /\ e.state[d.pri[p]] # << >>
    BY <1>1, <1>2, <2>1, <2>2, <2>3 DEF Typed
  <2>5. Typed(e)
    BY <1>1, <1>2, <2>3, <2>4 DEF Typed
  <2>6. Ran(d, e)
    BY <2>3, <2>4, <2>5 DEF Ran, Preemptible, EmptyState
  <2>7. QED
    BY <2>6 DEF e
<1>5. QED
  BY <1>3, <1>4

(* Reschedule after moves: whichever process it picks, it can be preempted.  *)
LEMMA RescheduleRan ==
  ASSUME NEW s, NEW d, Moved(s, d), Typed(s), NEW preemption \in BOOLEAN,
         preemption => Preemptible(s)
  PROVE  Ran(s, Reschedule(d, preemption))
<1> DEFINE d1 == IF d.running THEN SaveProcess(d, preemption) ELSE d
           idle == [d1 EXCEPT !.running = FALSE]
           first == FirstRunnable(d1)
           p == CHOOSE x \in first : TRUE
<1>1. Typed(d) /\ (preemption => Preemptible(d)) /\ d.locked = s.locked
  BY MovedTyped DEF Moved
<1>2. Typed(idle) /\ "running" \in DOMAIN d1 /\ d1.locked = d.locked
  <2>1. CASE d.running
    BY <1>1, <2>1, SaveTyped
  <2>2. CASE ~ d.running
    <3>1. d1 = d
      BY <2>2
    <3>2. QED
      BY <1>1, <2>2, <3>1 DEF Typed
  <2>3. QED
    BY <2>1, <2>2
<1>3. Reschedule(d, preemption) =
        IF first = {} THEN idle
        ELSE [LoadProcess(d1, p) EXCEPT !.PSB = p, !.running = TRUE]
  BY DEF Reschedule
<1> HIDE DEF d1
<1>4. CASE first = {}
  <2>1. idle.running = FALSE /\ idle.locked = d1.locked
    BY <1>2 DEF Typed
  <2>2. QED
    BY <1>1, <1>2, <1>3, <1>4, <2>1 DEF Ran, Preemptible
<1>5. CASE first # {}
  <2>1. p \in Psb /\ Runnable(d1, p)
    BY <1>5 DEF FirstRunnable, Ring, Reach
  <2> HIDE DEF p
  <2>2. Ran(d1, [LoadProcess(d1, p) EXCEPT !.PSB = p, !.running = TRUE])
    BY <1>2, <2>1, LoadRan
  <2>3. QED
    BY <1>1, <1>2, <1>3, <1>5, <2>2 DEF Ran
<1>6. QED
  BY <1>4, <1>5

(* Moves alone let nothing go wrong. *)
LEMMA MovedRan ==
  ASSUME NEW s, NEW d, Moved(s, d), Typed(s), Preemptible(s)
  PROVE  Ran(s, d)
  BY MovedTyped DEF Ran, Moved

-----------------------------------------------------------------------------
(* The inductive invariant: saved processes have what they need, and where   *)
(* processes are agrees with which monitors are locked.                      *)

Within(m) == {p \in Psb : pc[p] = Inside(m)}

IInv ==
  /\ Typed(pda) /\ Preemptible(pda)
  /\ pc \in [Psb -> PcType]
  /\ \A m \in Monitors : IF pda.locked[m] THEN \E p \in Psb : Within(m) = {p}
                          ELSE Within(m) = {}

(* A process is inside one monitor at most. *)
LEMMA Places ==
  /\ \A m, n : Inside(m) = Inside(n) => m = n
  /\ \A m, n : Outside # Inside(n) /\ Entering(m) # Inside(n) /\ Reentering(m) # Inside(n)
  BY DEF Inside, Outside, Entering, Reentering

(* The initial state satisfies the invariant. *)
LEMMA InitIInv == Init => IInv
<1> SUFFICES ASSUME Init PROVE IInv
  OBVIOUS
<1>1. /\ {"locked", "PSB", "running", "preempted", "pri", "context", "state"} \subseteq DOMAIN pda
      /\ pda.locked = [m \in Monitors |-> FALSE]
      /\ pda.PSB = 1 /\ pda.running = TRUE
      /\ pda.preempted = [p \in Psb |-> FALSE] /\ pda.pri = InitPriority
      /\ pda.context = [p \in Psb |-> Frame] /\ pda.state = InitState
  BY DEF Init
<1>2. pc = [p \in Psb |-> Outside]
  BY DEF Init
<1>3. 1 \in Psb
  BY SizesAssumption DEF Psb
<1>4. Typed(pda) /\ Preemptible(pda)
  <2>1. \A p \in Psb : ~ pda.preempted[p]
    BY <1>1
  <2>2. /\ pda.locked \in [Monitors -> BOOLEAN] /\ pda.preempted \in [Psb -> BOOLEAN]
        /\ pda.context \in [Psb -> StateVectors \cup {Frame}]
    BY <1>1
  <2>3. pda.pri \in [Psb -> Priority] /\ pda.state \in [Priority -> Seq(StateVectors)]
    BY <1>1, InitAssumption
  <2>4. Typed(pda)
    BY <1>1, <1>3, <2>1, <2>2, <2>3 DEF Typed
  <2>5. Preemptible(pda)
    BY <1>1, InitAssumption DEF Preemptible, EmptyState
  <2>6. QED
    BY <2>4, <2>5
<1>5. \A m \in Monitors : Within(m) = {} /\ ~ pda.locked[m]
  BY <1>1, <1>2, Places DEF Within
<1>6. QED
  BY <1>2, <1>4, <1>5 DEF IInv, PcType

(* A step that neither locks, unlocks, enters nor leaves. *)
LEMMA KeepLocks ==
  ASSUME IInv, NEW s, Ran(s, pda'), s.locked = pda.locked, pc' \in [Psb -> PcType],
         \A p \in Psb, m \in Monitors : pc'[p] = Inside(m) <=> pc[p] = Inside(m)
  PROVE  IInv'
<1>1. Typed(pda') /\ Preemptible(pda') /\ pda'.locked = pda.locked
  BY DEF Ran
<1>2. \A m \in Monitors : Within(m)' = Within(m)
  BY DEF Within, Inside
<1>3. QED
  BY <1>1, <1>2 DEF IInv

(* The running process locks m and is then inside. *)
LEMMA TakeLock ==
  ASSUME NEW m \in Monitors, IInv, ~ pda.locked[m], NEW s, Ran(s, pda'),
         s.locked = [pda.locked EXCEPT ![m] = TRUE],
         \A n \in Monitors : pc[PSB] # Inside(n),
         pc' = [pc EXCEPT ![PSB] = Inside(m)]
  PROVE  IInv'
<1>1. /\ pda'.locked = [pda.locked EXCEPT ![m] = TRUE] /\ PSB \in Psb
      /\ pda.locked \in [Monitors -> BOOLEAN]
  BY DEF Ran, IInv, Typed, PSB
<1>2. pc' \in [Psb -> PcType]
  BY <1>1 DEF IInv, PcType
<1>3. Within(m)' = {PSB}
  BY <1>1 DEF IInv, Within, Inside
<1>4. \A n \in Monitors \ {m} : Within(n)' = Within(n)
  BY <1>1, Places DEF IInv, Within, Inside
<1>5. QED
  BY <1>1, <1>2, <1>3, <1>4 DEF IInv, Ran

(* The running process is inside m, unlocks it and leaves for place x. *)
LEMMA FreeLock ==
  ASSUME NEW m \in Monitors, NEW x \in PcType, IInv, pc[PSB] = Inside(m),
         NEW s, Ran(s, pda'), s.locked = [pda.locked EXCEPT ![m] = FALSE],
         \A n \in Monitors : x # Inside(n),
         pc' = [pc EXCEPT ![PSB] = x]
  PROVE  IInv'
<1>1. /\ pda'.locked = [pda.locked EXCEPT ![m] = FALSE] /\ PSB \in Psb
      /\ pda.locked \in [Monitors -> BOOLEAN]
  BY DEF Ran, IInv, Typed, PSB
<1>2. pc' \in [Psb -> PcType]
  BY <1>1 DEF IInv
<1>3. PSB \in Within(m)
  BY <1>1 DEF Within
<1>4. Within(m) = {PSB}
  BY <1>3 DEF IInv
<1>5. Within(m)' = {}
  BY <1>1, <1>4 DEF IInv, Within, Inside
<1>6. \A n \in Monitors \ {m} : Within(n)' = Within(n)
  BY <1>1, Places DEF IInv, Within, Inside
<1>7. QED
  BY <1>1, <1>2, <1>5, <1>6 DEF IInv, Ran

-----------------------------------------------------------------------------
(* One lemma per operation. *)

(* What the operations start from. *)
LEMMA Start ==
  ASSUME IInv
  PROVE  /\ Typed(pda) /\ Preemptible(pda) /\ Moved(pda, pda)
         /\ PSB \in Psb /\ pc \in [Psb -> PcType] /\ "locked" \in DOMAIN pda
  BY DEF IInv, Typed, Moved, PSB

(* Locking or unlocking a monitor disturbs nothing else. *)
LEMMA WithLock ==
  ASSUME IInv, NEW m, NEW b \in BOOLEAN
  PROVE  LET s == [pda EXCEPT !.locked[m] = b]
         IN  /\ Typed(s) /\ Preemptible(s) /\ Moved(s, s)
             /\ s.locked = [pda.locked EXCEPT ![m] = b]
<1> DEFINE s == [pda EXCEPT !.locked[m] = b]
<1>1. /\ DOMAIN s = DOMAIN pda /\ s.locked = [pda.locked EXCEPT ![m] = b]
      /\ s.PSB = pda.PSB /\ s.running = pda.running
      /\ s.preempted = pda.preempted /\ s.pri = pda.pri
      /\ s.context = pda.context /\ s.state = pda.state
  BY Start DEF Typed
<1> HIDE DEF s
<1>2. s.locked \in [Monitors -> BOOLEAN]
  BY <1>1, Start DEF Typed
<1>3. Typed(s) /\ Preemptible(s) /\ Moved(s, s)
  BY <1>1, <1>2, Start DEF Typed, Preemptible, EmptyState, Moved
<1>4. QED
  BY <1>1, <1>3 DEF s

(* EnterFailed queues the process and runs another. *)
LEMMA EnterFailedRan == ASSUME IInv, NEW m PROVE Ran(pda, EnterFailed(pda, m))
<1>1. Moved(pda, [pda EXCEPT !.failed[pda.PSB] = TRUE])
  BY Start DEF Moved
<1>2. QED
  BY <1>1, Start, MovedRequeue, RescheduleRan DEF EnterFailed

(* ME locks an unlocked monitor for a process outside it, or queues the process. *)
LEMMA StepME == ASSUME IInv, NEW m \in Monitors, E_ME(m) PROVE IInv'
<1>1. \A n \in Monitors : pc[PSB] # Inside(n)
  BY Places DEF E_ME
<1>2. CASE ~ pda.locked[m]
  <2> DEFINE s == [pda EXCEPT !.locked[m] = TRUE]
  <2>1. Ran(s, s) /\ s.locked = [pda.locked EXCEPT ![m] = TRUE]
    BY WithLock, MovedRan
  <2>2. pda' = s /\ pc' = [pc EXCEPT ![PSB] = Inside(m)]
    BY <1>2 DEF E_ME
  <2> HIDE DEF s
  <2>3. QED
    BY <1>1, <1>2, <2>1, <2>2, TakeLock
<1>3. CASE pda.locked[m]
  <2>1. pda' = EnterFailed(pda, m) /\ pc' = [pc EXCEPT ![PSB] = Entering(m)]
    BY <1>3 DEF E_ME
  <2>2. Ran(pda, pda')
    BY <2>1, EnterFailedRan
  <2>3. pc' \in [Psb -> PcType]
    BY <2>1, Start DEF PcType
  <2>4. ASSUME NEW p \in Psb, NEW n \in Monitors
        PROVE  pc'[p] = Inside(n) <=> pc[p] = Inside(n)
    BY <1>1, <2>1, Start, Places
  <2>5. QED
    BY <2>2, <2>3, <2>4, KeepLocks
<1>4. QED
  BY <1>2, <1>3

(* MX unlocks the monitor the process is inside. *)
LEMMA StepMX == ASSUME IInv, NEW m \in Monitors, E_MX(m) PROVE IInv'
<1> DEFINE s == [pda EXCEPT !.locked[m] = FALSE]
<1>1. Typed(s) /\ Preemptible(s) /\ s.locked = [pda.locked EXCEPT ![m] = FALSE]
  BY WithLock
<1>2. Moved(s, Exit(pda, m))
  BY Start, ExitUnlocks
<1>3. pda' \in {Exit(pda, m), Reschedule(Exit(pda, m), FALSE)}
  BY DEF E_MX
<1> HIDE DEF s
<1>4. Ran(s, pda')
  BY <1>1, <1>2, <1>3, MovedRan, RescheduleRan
<1>5. Outside \in PcType /\ \A n \in Monitors : Outside # Inside(n)
  BY Places DEF PcType
<1>6. QED
  BY <1>1, <1>4, <1>5, FreeLock DEF E_MX

(* MW unlocks the monitor of its condition, whether or not it then sleeps. *)
LEMMA StepMW ==
  ASSUME IInv, NEW c \in Conditions, NEW t, E_MW(c, t)
  PROVE  IInv'
<1> DEFINE m == MonitorOf[c]
           s == [pda EXCEPT !.locked[m] = FALSE]
           exited == Exit(CleanupCondition(pda, c), m)
           woken == [exited EXCEPT !.wakeup[c] = FALSE]
           asleep == [exited EXCEPT !.timeout[PSB] = Deadline(t), !.waiting[PSB] = TRUE]
<1>1. m \in Monitors
  BY ProgramAssumption
<1>2. Typed(s) /\ Preemptible(s) /\ s.locked = [pda.locked EXCEPT ![m] = FALSE]
  BY WithLock
<1>3. Moved(s, exited)
  BY Start, MovedCleanup, ExitUnlocks
<1>4. pda' \in {exited, woken, Reschedule(exited, FALSE), Reschedule(woken, FALSE),
                Reschedule(Requeue(asleep, Ready, c, PSB), FALSE)}
  BY DEF E_MW
<1> HIDE DEF m, s, exited
<1>5. Moved(s, woken) /\ Moved(s, asleep)
  BY <1>3 DEF Moved
<1> HIDE DEF woken, asleep
<1>6. Ran(s, pda')
  BY <1>2, <1>3, <1>4, <1>5, MovedRequeue, MovedRan, RescheduleRan
<1>7. Reentering(c) \in PcType /\ \A n \in Monitors : Reentering(c) # Inside(n)
  BY Places DEF PcType
<1>8. pc[PSB] = Inside(m) /\ pc' = [pc EXCEPT ![PSB] = Reentering(c)]
  BY DEF E_MW, m
<1>9. QED
  BY <1>1, <1>2, <1>6, <1>7, <1>8, FreeLock

(* MR locks the monitor again, queues the process, or traps on an abort. *)
LEMMA StepMR == ASSUME IInv, NEW c \in Conditions, E_MR(c) PROVE IInv'
<1> DEFINE m == MonitorOf[c]
           s == [pda EXCEPT !.locked[m] = TRUE]
           left == [CleanupCondition(pda, c) EXCEPT !.cleanup[PSB] = Null]
<1>1. m \in Monitors
  BY ProgramAssumption
<1>2. pc[PSB] = Reentering(c) /\ \A n \in Monitors : pc[PSB] # Inside(n)
  BY Places DEF E_MR
<1>3. Moved(pda, CleanupCondition(pda, c))
  BY Start, MovedCleanup
<1>4. Moved(pda, left)
  BY <1>3 DEF Moved
<1>5. CASE pda' = EnterFailed(pda, m) /\ UNCHANGED pc
  BY <1>5, Start, EnterFailedRan, KeepLocks
<1>6. CASE pda' = [left EXCEPT !.abort[PSB] = FALSE] /\ pc' = [pc EXCEPT ![PSB] = Entering(m)]
  <2>1. Moved(pda, pda')
    BY <1>4, <1>6 DEF Moved
  <2>2. pc' \in [Psb -> PcType]
    BY <1>1, <1>6, Start DEF PcType
  <2>3. ASSUME NEW p \in Psb, NEW n \in Monitors
        PROVE  pc'[p] = Inside(n) <=> pc[p] = Inside(n)
    BY <1>2, <1>6, Start, Places
  <2>4. QED
    BY <2>1, <2>2, <2>3, Start, MovedRan, KeepLocks
<1>7. CASE /\ ~ pda.locked[m] /\ pda' = [left EXCEPT !.locked[m] = TRUE]
           /\ pc' = [pc EXCEPT ![PSB] = Inside(m)]
  <2>1. Moved(s, pda')
    BY <1>4, <1>7, Start DEF Moved
  <2>2. Typed(s) /\ Preemptible(s) /\ s.locked = [pda.locked EXCEPT ![m] = TRUE]
    BY WithLock
  <2> HIDE DEF s
  <2>3. QED
    BY <1>1, <1>2, <1>7, <2>1, <2>2, MovedRan, TakeLock
<1>8. QED
  BY <1>5, <1>6, <1>7 DEF E_MR

(* The other operations move processes between queues and change no pc. *)
LEMMA StepMoves ==
  ASSUME IInv,
         \/ \E c \in Conditions : E_NC(c) \/ E_BC(c)
         \/ \E src, dst \in {Ready} \cup PlainQueues, p \in Psb : E_REQ(src, dst, p)
         \/ \E p \in Psb : Abort(p)
         \/ \E pri \in SettablePriorities : E_SPP(pri)
         \/ \E q \in DOMAIN FaultConditions : FaultStep(q)
         \/ \E wakeups \in SUBSET DOMAIN InterruptConditions, tick \in BOOLEAN :
              Preempt(wakeups, tick)
  PROVE  IInv'
<1> DEFINE Goal == UNCHANGED pc /\ \E s : s.locked = pda.locked /\ Ran(s, pda')
<1> SUFFICES Goal
  BY Start, KeepLocks
<1>1. ASSUME NEW c \in Conditions, E_NC(c) \/ E_BC(c) PROVE Goal
  <2>1. Moved(pda, CleanupCondition(pda, c))
    BY Start, MovedCleanup
  <2>2. /\ Moved(pda, WakeHead(CleanupCondition(pda, c), c))
        /\ Moved(pda, WakeAll(CleanupCondition(pda, c), c))
    BY <2>1, MovedWakeHead, MovedWakeAll
  <2>3. QED
    BY <1>1, <2>1, <2>2, Start, MovedRan, RescheduleRan DEF E_NC, E_BC
<1>2. ASSUME NEW src, NEW dst, NEW p, E_REQ(src, dst, p) PROVE Goal
  <2>1. Moved(pda, Requeue(pda, src, dst, p))
    BY Start, MovedRequeue
  <2>2. QED
    BY <1>2, <2>1, Start, RescheduleRan DEF E_REQ
<1>3. ASSUME NEW p \in Psb, Abort(p) PROVE Goal
  <2> DEFINE flagged == [pda EXCEPT !.abort[p] = TRUE]
             asleep == [flagged EXCEPT !.waiting[p] = FALSE, !.timeout[p] = 0]
  <2>1. Moved(pda, flagged) /\ Moved(pda, asleep)
    BY Start DEF Moved
  <2>2. pda' \in {flagged, Reschedule(Requeue(asleep, Nil, Ready, p), FALSE)} /\ UNCHANGED pc
    BY <1>3 DEF Abort
  <2> HIDE DEF flagged, asleep
  <2>3. QED
    BY <2>1, <2>2, Start, MovedRequeue, MovedRan, RescheduleRan
<1>4. ASSUME NEW pri \in SettablePriorities, E_SPP(pri) PROVE Goal
  <2> DEFINE s == [pda EXCEPT !.pri[PSB] = pri]
  <2>1. /\ DOMAIN s = DOMAIN pda /\ s.locked = pda.locked
        /\ s.PSB = pda.PSB /\ s.running = pda.running
        /\ s.preempted = pda.preempted /\ s.pri = [pda.pri EXCEPT ![PSB] = pri]
        /\ s.context = pda.context /\ s.state = pda.state
    BY Start DEF Typed
  <2>2. pda' = Reschedule(Requeue(s, Ready, Ready, PSB), FALSE) /\ UNCHANGED pc
    BY <1>4 DEF E_SPP
  <2> HIDE DEF s
  <2>3. s.pri \in [Psb -> Priority]
    BY <2>1, Start, ProgramAssumption DEF Typed
  <2>4. Typed(s) /\ Moved(s, s)
    BY <2>1, <2>3, Start DEF Typed, Moved
  <2>5. QED
    BY <2>1, <2>2, <2>4, MovedRequeue, RescheduleRan
<1>5. ASSUME NEW q, FaultStep(q) PROVE Goal
  <2> DEFINE c == FaultConditions[q]
  <2>1. Moved(pda, NotifyWakeup(Requeue(pda, Ready, q, PSB), c))
    BY Start, MovedRequeue, MovedNotify
  <2>2. pda' = Reschedule(NotifyWakeup(Requeue(pda, Ready, q, PSB), c), TRUE) /\ UNCHANGED pc
    BY <1>5 DEF FaultStep, Fault, PSB
  <2>3. QED
    BY <2>1, <2>2, Start, RescheduleRan
<1>6. ASSUME NEW wakeups, NEW tick, Preempt(wakeups, tick) PROVE Goal
  <2> DEFINE d1 == Interrupt(pda, InterruptConditions, wakeups)
             d2 == TimeoutScan(d1, NextPTC)
  <2>1. Moved(pda, d1)
    BY Start, ProgramAssumption, MovedInterrupt
  <2>2. Moved(pda, d2)
    BY <2>1, MovedTimeoutScan
  <2>3. pda' \in {d1, d2, Reschedule(d1, TRUE), Reschedule(d2, TRUE)} /\ UNCHANGED pc
    BY <1>6 DEF Preempt
  <2> HIDE DEF d1, d2
  <2>4. QED
    BY <2>1, <2>2, <2>3, Start, MovedRan, RescheduleRan
<1> HIDE DEF Goal
<1>7. QED
  BY <1>1, <1>2, <1>3, <1>4, <1>5, <1>6

(* Every step keeps the invariant. *)
LEMMA StepIInv == IInv /\ [Next]_vars => IInv'
<1> SUFFICES ASSUME IInv, [Next]_vars PROVE IInv'
  OBVIOUS
<1>1. CASE \E m \in Monitors : E_ME(m)
  BY <1>1, StepME
<1>2. CASE \E m \in Monitors : E_MX(m)
  BY <1>2, StepMX
<1>3. CASE \E c \in Conditions : E_MR(c)
  BY <1>3, StepMR
<1>4. CASE \E c \in Conditions, t \in WaitTicks : E_MW(c, t)
  BY <1>4, StepMW
<1>5. CASE UNCHANGED vars
  BY <1>5, Start, MovedRan, KeepLocks DEF vars
<1>6. QED
  BY <1>1, <1>2, <1>3, <1>4, <1>5, StepMoves DEF Next

(* A monitor is locked when, and only when, exactly one process is inside:  *)
(* no interleaving of monitor entries, waits, notifies, timeouts, aborts,    *)
(* faults, interrupts and priority changes lets two in.                     *)
THEOREM MonitorsExclude == Spec => []MutualExclusion
<1>1. IInv => MutualExclusion
  <2> SUFFICES ASSUME IInv, NEW m \in Monitors
               PROVE  Cardinality(Within(m)) = IF pda.locked[m] THEN 1 ELSE 0
    BY DEF MutualExclusion, Within
  <2>1. CASE pda.locked[m]
    <3>1. PICK p \in Psb : Within(m) = {p}
      BY <2>1 DEF IInv
    <3>2. QED
      BY <2>1, <3>1, FS_Singleton
  <2>2. CASE ~ pda.locked[m]
    BY <2>2, FS_EmptySet DEF IInv
  <2>3. QED
    BY <2>1, <2>2
<1>2. QED
  BY InitIInv, StepIInv, <1>1, PTL DEF Spec

(* AllocState never meets its ERROR: whenever a process runs that owns no    *)
(* state vector, one of its priority is free, although faults and           *)
(* preemptions take them and SPP changes which pool a process draws from.    *)
THEOREM AlwaysPreemptible == Spec => []PreemptionPossible
<1>1. IInv => PreemptionPossible
  BY DEF IInv, Preemptible, PreemptionPossible, PSB
<1>2. QED
  BY InitIInv, StepIInv, <1>1, PTL DEF Spec

-----------------------------------------------------------------------------
(* State vectors.                                                           *)

(* The suspended processes S hold state vectors of their own, as context     *)
(* says, and the free lists hold the others, each once; what a priority      *)
(* lacks of its vectors, its suspended processes hold.                      *)
Unshared(S, context, state) ==
  /\ \A p, r \in S : context[p] = context[r] => p = r
  /\ \A p \in S, k \in Priority : \A i \in 1 .. Len(state[k]) : state[k][i] # context[p]
  /\ \A k, l \in Priority : \A i \in 1 .. Len(state[k]), j \in 1 .. Len(state[l]) :
       state[k][i] = state[l][j] => k = l /\ i = j

Found(S, context, state) ==
  \A sv \in StateVectors :
    \/ \E p \in S : context[p] = sv
    \/ \E k \in Priority : \E i \in 1 .. Len(state[k]) : state[k][i] = sv

Lacks(S, pri, state) ==
  \A k \in Priority :
    Len(state[k]) + Cardinality({p \in S : pri[p] = k}) = Len(InitState[k])

Conserved(S, context, pri, state) ==
  Unshared(S, context, state) /\ Found(S, context, state) /\ Lacks(S, pri, state)

(* Only what the processes of S hold matters. *)
LEMMA ConservedSame ==
  ASSUME NEW S, NEW c1, NEW c2, NEW p1, NEW p2, NEW state, Conserved(S, c1, p1, state),
         \A p \in S : c2[p] = c1[p] /\ p2[p] = p1[p]
  PROVE  Conserved(S, c2, p2, state)
<1>1. \A k \in Priority : {p \in S : p2[p] = k} = {p \in S : p1[p] = k}
  OBVIOUS
<1>2. Lacks(S, p2, state)
  BY <1>1 DEF Conserved, Lacks
<1>3. QED
  BY <1>2 DEF Conserved, Unshared, Found

(* AllocState: a process takes the first vector of its priority. *)
LEMMA TakeVector ==
  ASSUME NEW S \in SUBSET Psb, NEW context \in [Psb -> StateVectors \cup {Frame}],
         NEW pri \in [Psb -> Priority], NEW state \in [Priority -> Seq(StateVectors)],
         Conserved(S, context, pri, state), NEW p \in Psb \ S, state[pri[p]] # << >>
  PROVE  Conserved(S \cup {p}, [context EXCEPT ![p] = Head(state[pri[p]])], pri,
                   [state EXCEPT ![pri[p]] = Tail(@)])
<1> DEFINE k0 == pri[p]
           pool == state[k0]
           S2 == S \cup {p}
           c2 == [context EXCEPT ![p] = Head(pool)]
           s2 == [state EXCEPT ![k0] = Tail(pool)]
<1>1. /\ k0 \in Priority /\ pool \in Seq(StateVectors) /\ Len(pool) \in Nat \ {0}
      /\ Head(pool) = pool[1] /\ Len(Tail(pool)) = Len(pool) - 1
      /\ \A i \in 1 .. Len(pool) - 1 : Tail(pool)[i] = pool[i + 1]
  OBVIOUS
<1>2. /\ s2[k0] = Tail(pool) /\ state[k0] = pool /\ \A k \in Priority \ {k0} : s2[k] = state[k]
      /\ c2[p] = pool[1] /\ \A r \in S : c2[r] = context[r]
  BY <1>1
<1> HIDE DEF c2, s2, pool, k0
<1> DEFINE J(k, i) == IF k = k0 THEN i + 1 ELSE i
<1>3. ASSUME NEW k \in Priority, NEW i \in 1 .. Len(s2[k])
      PROVE  J(k, i) \in 1 .. Len(state[k]) /\ s2[k][i] = state[k][J(k, i)]
             /\ (k = k0 => J(k, i) # 1)
  <2>1. CASE k = k0
    <3>1. i \in 1 .. Len(pool) - 1 /\ s2[k][i] = Tail(pool)[i]
      BY <1>1, <1>2, <1>3, <2>1
    <3>2. Tail(pool)[i] = pool[i + 1] /\ i + 1 \in 1 .. Len(pool) /\ i + 1 # 1
      BY <1>1, <3>1
    <3>3. QED
      BY <1>2, <2>1, <3>1, <3>2
  <2>2. CASE k # k0
    BY <1>2, <1>3, <2>2
  <2>3. QED
    BY <2>1, <2>2
<1>4. ASSUME NEW k \in Priority, NEW j \in 1 .. Len(state[k]), ~ (k = k0 /\ j = 1)
      PROVE  \E i \in 1 .. Len(s2[k]) : s2[k][i] = state[k][j]
  <2>1. CASE k = k0
    <3>1. j \in 1 .. Len(pool) /\ j # 1
      BY <1>2, <1>4, <2>1
    <3>2. j - 1 \in 1 .. Len(pool) - 1 /\ (j - 1) + 1 = j
      BY <1>1, <3>1
    <3>3. j - 1 \in 1 .. Len(s2[k]) /\ s2[k][j - 1] = Tail(pool)[j - 1]
      BY <1>1, <1>2, <2>1, <3>2
    <3>4. Tail(pool)[j - 1] = state[k][j]
      BY <1>1, <1>2, <2>1, <3>2
    <3>5. QED
      BY <3>3, <3>4
  <2>2. CASE k # k0
    BY <1>2, <1>4, <2>2
  <2>3. QED
    BY <2>1, <2>2
<1>5. 1 \in 1 .. Len(state[k0]) /\ c2[p] = state[k0][1]
  BY <1>1, <1>2 DEF pool
<1>6. Unshared(S2, c2, s2)
  <2>1. \A r \in S : c2[r] # c2[p]
    BY <1>1, <1>2, <1>5 DEF Conserved, Unshared
  <2>2. \A q, r \in S2 : c2[q] = c2[r] => q = r
    BY <1>2, <2>1 DEF Conserved, Unshared
  <2>3. ASSUME NEW q \in S2, NEW k \in Priority, NEW i \in 1 .. Len(s2[k]) PROVE s2[k][i] # c2[q]
    <3>1. J(k, i) \in 1 .. Len(state[k]) /\ s2[k][i] = state[k][J(k, i)]
          /\ (k = k0 => J(k, i) # 1)
      BY <1>3, <2>3
    <3> HIDE DEF J
    <3>2. CASE q = p
      BY <1>1, <1>5, <3>1, <3>2 DEF Conserved, Unshared
    <3>3. CASE q # p
      BY <1>2, <2>3, <3>1, <3>3 DEF Conserved, Unshared
    <3>4. QED
      BY <3>2, <3>3
  <2>4. ASSUME NEW k \in Priority, NEW l \in Priority, NEW i \in 1 .. Len(s2[k]),
               NEW j \in 1 .. Len(s2[l]), s2[k][i] = s2[l][j]
        PROVE  k = l /\ i = j
    <3>1. J(k, i) \in 1 .. Len(state[k]) /\ J(l, j) \in 1 .. Len(state[l])
          /\ state[k][J(k, i)] = state[l][J(l, j)]
      BY <1>3, <2>4
    <3>2. k = l /\ J(k, i) = J(l, j)
      <4> HIDE DEF J
      <4>1. QED
        BY <3>1 DEF Conserved, Unshared
    <3>3. QED
      BY <2>4, <3>2
  <2>5. QED
    BY <2>2, <2>3, <2>4 DEF Unshared
<1>7. Found(S2, c2, s2)
  <2>1. SUFFICES ASSUME NEW sv \in StateVectors
                 PROVE  \/ \E r \in S2 : c2[r] = sv
                        \/ \E k \in Priority : \E i \in 1 .. Len(s2[k]) : s2[k][i] = sv
    BY DEF Found
  <2>2. CASE \E r \in S : context[r] = sv
    BY <1>2, <2>2
  <2>3. ASSUME NEW k \in Priority, NEW j \in 1 .. Len(state[k]), state[k][j] = sv
        PROVE  \/ \E r \in S2 : c2[r] = sv
               \/ \E i \in 1 .. Len(s2[k]) : s2[k][i] = sv
    BY <1>4, <1>5, <2>3
  <2>4. QED
    BY <2>2, <2>3 DEF Conserved, Found
<1>8. Lacks(S2, pri, s2)
  <2>1. SUFFICES ASSUME NEW k \in Priority
                 PROVE  Len(s2[k]) + Cardinality({r \in S2 : pri[r] = k}) = Len(InitState[k])
    BY DEF Lacks
  <2> DEFINE R == {r \in S : pri[r] = k}
             R2 == {r \in S2 : pri[r] = k}
  <2>2. IsFiniteSet(R) /\ Cardinality(R) \in Nat /\ p \notin R
    <3>1. IsFiniteSet(Psb)
      BY FS_Interval, SizesAssumption DEF Psb
    <3>2. R \in SUBSET Psb
      OBVIOUS
    <3>3. QED
      BY <3>1, <3>2, FS_Subset, FS_CardinalityType
  <2>3. Len(state[k]) + Cardinality(R) = Len(InitState[k])
    BY DEF Conserved, Lacks
  <2>4. CASE k = k0
    <3>1. R2 = R \cup {p}
      BY <2>4 DEF k0
    <3>2. Cardinality(R2) = Cardinality(R) + 1
      BY <2>2, <3>1, FS_AddElement
    <3> HIDE DEF R, R2
    <3>3. Len(s2[k]) = Len(state[k]) - 1 /\ Len(state[k]) \in Nat
      BY <1>1, <1>2, <2>4 DEF pool
    <3>4. QED
      BY <2>2, <2>3, <3>2, <3>3 DEF R2
  <2>5. CASE k # k0
    <3>1. R2 = R
      BY <2>5 DEF k0
    <3> HIDE DEF R, R2
    <3>2. QED
      BY <1>2, <2>3, <2>5, <3>1 DEF R2
  <2>6. QED
    BY <2>4, <2>5
<1>9. QED
  BY <1>6, <1>7, <1>8 DEF Conserved, c2, s2, pool, k0

(* FreeState: a process gives its vector back to its priority. *)
LEMMA GiveVector ==
  ASSUME NEW S \in SUBSET Psb, NEW context \in [Psb -> StateVectors \cup {Frame}],
         NEW pri \in [Psb -> Priority], NEW state \in [Priority -> Seq(StateVectors)],
         Conserved(S, context, pri, state), NEW p \in S, context[p] \in StateVectors
  PROVE  Conserved(S \ {p}, context, pri, [state EXCEPT ![pri[p]] = <<context[p]>> \o @])
<1> DEFINE k0 == pri[p]
           pool == state[k0]
           more == <<context[p]>> \o pool
           S2 == S \ {p}
           s2 == [state EXCEPT ![k0] = more]
<1>1. /\ k0 \in Priority /\ pool \in Seq(StateVectors) /\ Len(pool) \in Nat
      /\ Len(more) = Len(pool) + 1 /\ more[1] = context[p]
      /\ \A i \in 1 .. Len(pool) : more[i + 1] = pool[i]
  OBVIOUS
<1>2. /\ s2[k0] = more /\ state[k0] = pool /\ \A k \in Priority \ {k0} : s2[k] = state[k]
  BY <1>1
<1> HIDE DEF s2, pool, k0, more
<1>3. ASSUME NEW k \in Priority, NEW i \in 1 .. Len(s2[k]), ~ (k = k0 /\ i = 1)
      PROVE  \E j \in 1 .. Len(state[k]) : s2[k][i] = state[k][j] /\ (IF k = k0 THEN i = j + 1 ELSE i = j)
  <2>1. CASE k = k0
    <3>1. i \in 1 .. Len(more) /\ i # 1
      BY <1>2, <1>3, <2>1
    <3>2. i - 1 \in 1 .. Len(pool) /\ (i - 1) + 1 = i
      BY <1>1, <3>1
    <3>3. more[i] = pool[i - 1]
      BY <1>1, <3>2
    <3>4. QED
      BY <1>2, <2>1, <3>2, <3>3
  <2>2. CASE k # k0
    BY <1>2, <1>3, <2>2
  <2>3. QED
    BY <2>1, <2>2
<1>4. ASSUME NEW k \in Priority, NEW j \in 1 .. Len(state[k])
      PROVE  \E i \in 1 .. Len(s2[k]) : s2[k][i] = state[k][j]
  <2>1. CASE k = k0
    <3>1. j \in 1 .. Len(pool) /\ j + 1 \in 1 .. Len(more)
      BY <1>1, <1>2, <1>4, <2>1
    <3>2. more[j + 1] = pool[j]
      BY <1>1, <3>1
    <3>3. QED
      BY <1>2, <2>1, <3>1, <3>2
  <2>2. CASE k # k0
    BY <1>2, <1>4, <2>2
  <2>3. QED
    BY <2>1, <2>2
<1>5. 1 \in 1 .. Len(s2[k0]) /\ s2[k0][1] = context[p]
  BY <1>1, <1>2
<1>6. Unshared(S2, context, s2)
  <2>1. \A q, r \in S2 : context[q] = context[r] => q = r
    BY DEF Conserved, Unshared
  <2>2. ASSUME NEW q \in S2, NEW k \in Priority, NEW i \in 1 .. Len(s2[k])
        PROVE  s2[k][i] # context[q]
    <3>1. CASE k = k0 /\ i = 1
      BY <1>5, <2>2, <3>1 DEF Conserved, Unshared
    <3>2. CASE ~ (k = k0 /\ i = 1)
      BY <1>3, <2>2, <3>2 DEF Conserved, Unshared
    <3>3. QED
      BY <3>1, <3>2
  <2>3. ASSUME NEW k \in Priority, NEW l \in Priority, NEW i \in 1 .. Len(s2[k]),
               NEW j \in 1 .. Len(s2[l]), s2[k][i] = s2[l][j]
        PROVE  k = l /\ i = j
    <3>1. CASE k = k0 /\ i = 1
      <4>1. l = k0 /\ j = 1
        <5>1. SUFFICES ASSUME ~ (l = k0 /\ j = 1) PROVE FALSE
          OBVIOUS
        <5>2. PICK y \in 1 .. Len(state[l]) : s2[l][j] = state[l][y]
          BY <1>3, <2>3, <5>1
        <5>3. QED
          BY <1>5, <2>3, <3>1, <5>2 DEF Conserved, Unshared
      <4>2. QED
        BY <3>1, <4>1
    <3>2. CASE l = k0 /\ j = 1
      <4>1. k = k0 /\ i = 1
        <5>1. SUFFICES ASSUME ~ (k = k0 /\ i = 1) PROVE FALSE
          OBVIOUS
        <5>2. PICK y \in 1 .. Len(state[k]) : s2[k][i] = state[k][y]
          BY <1>3, <2>3, <5>1
        <5>3. QED
          BY <1>5, <2>3, <3>2, <5>2 DEF Conserved, Unshared
      <4>2. QED
        BY <3>2, <4>1
    <3>3. CASE ~ (k = k0 /\ i = 1) /\ ~ (l = k0 /\ j = 1)
      <4>1. PICK x \in 1 .. Len(state[k]) :
              s2[k][i] = state[k][x] /\ (IF k = k0 THEN i = x + 1 ELSE i = x)
        BY <1>3, <2>3, <3>3
      <4>2. PICK y \in 1 .. Len(state[l]) :
              s2[l][j] = state[l][y] /\ (IF l = k0 THEN j = y + 1 ELSE j = y)
        BY <1>3, <2>3, <3>3
      <4>3. k = l /\ x = y
        <5>1. state[k][x] = state[l][y]
          BY <2>3, <4>1, <4>2
        <5>2. QED
          BY <5>1 DEF Conserved, Unshared
      <4>4. QED
        BY <4>1, <4>2, <4>3
    <3>4. QED
      BY <3>1, <3>2, <3>3
  <2>4. QED
    BY <2>1, <2>2, <2>3 DEF Unshared
<1>7. Found(S2, context, s2)
  <2>1. SUFFICES ASSUME NEW sv \in StateVectors
                 PROVE  \/ \E r \in S2 : context[r] = sv
                        \/ \E k \in Priority : \E i \in 1 .. Len(s2[k]) : s2[k][i] = sv
    BY DEF Found
  <2>2. CASE context[p] = sv
    BY <1>1, <1>5, <2>2
  <2>3. CASE \E r \in S \ {p} : context[r] = sv
    BY <2>3
  <2>4. ASSUME NEW k \in Priority, NEW j \in 1 .. Len(state[k]), state[k][j] = sv
        PROVE  \E i \in 1 .. Len(s2[k]) : s2[k][i] = sv
    BY <1>4, <2>4
  <2>5. QED
    BY <2>2, <2>3, <2>4 DEF Conserved, Found
<1>8. Lacks(S2, pri, s2)
  <2>1. SUFFICES ASSUME NEW k \in Priority
                 PROVE  Len(s2[k]) + Cardinality({r \in S2 : pri[r] = k}) = Len(InitState[k])
    BY DEF Lacks
  <2> DEFINE R == {r \in S : pri[r] = k}
             R2 == {r \in S2 : pri[r] = k}
  <2>2. IsFiniteSet(R) /\ Cardinality(R) \in Nat
    <3>1. IsFiniteSet(Psb)
      BY FS_Interval, SizesAssumption DEF Psb
    <3>2. R \in SUBSET Psb
      OBVIOUS
    <3>3. QED
      BY <3>1, <3>2, FS_Subset, FS_CardinalityType
  <2>3. Len(state[k]) + Cardinality(R) = Len(InitState[k])
    BY DEF Conserved, Lacks
  <2>4. CASE k = k0
    <3>1. R2 = R \ {p} /\ p \in R
      BY <2>4 DEF k0
    <3> HIDE DEF R, R2
    <3>2. Cardinality(R2) = Cardinality(R) - 1
      BY <2>2, <3>1, FS_RemoveElement
    <3>3. Len(s2[k]) = Len(state[k]) + 1 /\ Len(state[k]) \in Nat
      BY <1>1, <1>2, <2>4
    <3>4. QED
      BY <2>2, <2>3, <3>2, <3>3 DEF R2
  <2>5. CASE k # k0
    <3>1. R2 = R
      BY <2>5 DEF k0
    <3> HIDE DEF R, R2
    <3>2. QED
      BY <1>2, <2>3, <2>5, <3>1 DEF R2
  <2>6. QED
    BY <2>4, <2>5
<1>9. QED
  BY <1>6, <1>7, <1>8 DEF Conserved, s2, pool, k0, more

(* The processes of PDA d that hold a state vector. *)
Holders(d) == {p \in Psb \ Permanent : d.preempted[p] /\ ~ (d.running /\ p = d.PSB)}

Kept(d) == Conserved(Holders(d), d.context, d.pri, d.state)

(* What the queuing procedures do moves no state vector. *)
LEMMA KeptMoved == ASSUME NEW s, NEW d, Moved(s, d), Kept(s) PROVE Kept(d)
  BY DEF Moved, Kept, Holders

(* Saving the running process takes a vector exactly if it then holds one. *)
LEMMA SaveKeeps ==
  ASSUME NEW d, Typed(d), d.running, Kept(d), NEW preemption \in BOOLEAN,
         preemption => Preemptible(d)
  PROVE  Kept([SaveProcess(d, preemption) EXCEPT !.running = FALSE])
<1> DEFINE p == d.PSB
           d1 == [d EXCEPT !.preempted[p] = preemption]
           e == [SaveProcess(d, preemption) EXCEPT !.running = FALSE]
           S == Holders(d)
<1>1. /\ p \in Psb /\ d.pri[p] \in Priority /\ p \notin S /\ S \in SUBSET Psb
      /\ d.context \in [Psb -> StateVectors \cup {Frame}] /\ d.pri \in [Psb -> Priority]
      /\ d.state \in [Priority -> Seq(StateVectors)] /\ d.preempted \in [Psb -> BOOLEAN]
  BY DEF Typed, Holders
<1>2. Conserved(S, d.context, d.pri, d.state)
  BY DEF Kept
<1>3. CASE p \in Permanent
  <2>1. /\ e.running = FALSE /\ e.preempted = [d.preempted EXCEPT ![p] = preemption]
        /\ e.context = d.context /\ e.pri = d.pri /\ e.state = d.state
    BY <1>3 DEF Typed, SaveProcess
  <2> HIDE DEF e, p
  <2>2. Holders(e) = S
    BY <1>1, <1>3, <2>1 DEF Holders, p
  <2>3. QED
    BY <1>2, <2>1, <2>2 DEF Kept, e
<1>4. CASE p \notin Permanent /\ preemption
  <2>1. /\ e.running = FALSE /\ e.preempted = [d.preempted EXCEPT ![p] = TRUE]
        /\ e.context = [d.context EXCEPT ![p] = Head(d.state[d.pri[p]])] /\ e.pri = d.pri
        /\ e.state = [d.state EXCEPT ![d.pri[p]] = Tail(@)]
    BY <1>4 DEF Typed, SaveProcess
  <2>2. d.state[d.pri[p]] # << >>
    BY <1>4 DEF Preemptible, EmptyState
  <2> HIDE DEF e, p
  <2>3. Holders(e) = S \cup {p}
    BY <1>1, <1>4, <2>1 DEF Holders, p
  <2> HIDE DEF S
  <2> DEFINE context == d.context
             pri == d.pri
             state == d.state
  <2>4. /\ S \in SUBSET Psb /\ context \in [Psb -> StateVectors \cup {Frame}]
        /\ pri \in [Psb -> Priority] /\ state \in [Priority -> Seq(StateVectors)]
        /\ p \in Psb \ S /\ Conserved(S, context, pri, state) /\ state[pri[p]] # << >>
    BY <1>1, <1>2, <2>2
  <2> HIDE DEF context, pri, state
  <2>5. Conserved(S \cup {p}, [context EXCEPT ![p] = Head(state[pri[p]])], pri,
                  [state EXCEPT ![pri[p]] = Tail(@)])
    BY <2>4, TakeVector
  <2>6. QED
    BY <2>1, <2>3, <2>5 DEF Kept, e, context, pri, state
<1>5. CASE p \notin Permanent /\ ~ preemption
  <2>1. /\ e.running = FALSE /\ e.preempted = [d.preempted EXCEPT ![p] = FALSE]
        /\ e.context = [d.context EXCEPT ![p] = Frame] /\ e.pri = d.pri
        /\ e.state = d.state
    BY <1>5 DEF Typed, SaveProcess
  <2> HIDE DEF e, p
  <2>2. Holders(e) = S
    BY <1>1, <1>5, <2>1 DEF Holders, p
  <2>3. \A q \in S : e.context[q] = d.context[q] /\ d.pri[q] = d.pri[q]
    BY <1>1, <2>1
  <2> HIDE DEF S
  <2>4. Conserved(S, e.context, d.pri, d.state)
    BY <1>2, <2>3, ConservedSame
  <2>5. QED
    BY <2>1, <2>2, <2>4 DEF Kept, e
<1>6. QED
  BY <1>3, <1>4, <1>5

(* Loading a process gives back the vector it holds. *)
LEMMA LoadKeeps ==
  ASSUME NEW d, NEW idle, idle = [d EXCEPT !.running = FALSE], Typed(idle), Kept(idle),
         "running" \in DOMAIN d, NEW p \in Psb
  PROVE  Kept([LoadProcess(d, p) EXCEPT !.PSB = p, !.running = TRUE])
<1> DEFINE e == [LoadProcess(d, p) EXCEPT !.PSB = p, !.running = TRUE]
           S == Holders(idle)
<1>1. /\ DOMAIN idle = DOMAIN d /\ idle.running = FALSE
      /\ idle.preempted = d.preempted /\ idle.pri = d.pri
      /\ idle.context = d.context /\ idle.state = d.state
  BY DEF Typed
<1>2. /\ DOMAIN d = DOMAIN idle
      /\ {"locked", "PSB", "running", "preempted", "pri", "context", "state"} \subseteq DOMAIN d
      /\ d.context \in [Psb -> StateVectors \cup {Frame}] /\ d.pri \in [Psb -> Priority]
      /\ d.state \in [Priority -> Seq(StateVectors)]
      /\ S = {q \in Psb \ Permanent : d.preempted[q]}
      /\ \A q \in S : d.context[q] \in StateVectors
  BY <1>1 DEF Typed, Holders
<1>3. Conserved(S, d.context, d.pri, d.state) /\ S \in SUBSET Psb
  BY <1>1, <1>2 DEF Kept
<1>4. CASE ~ d.preempted[p] \/ p \in Permanent
  <2>1. /\ e.running = TRUE /\ e.PSB = p /\ e.preempted = d.preempted /\ e.pri = d.pri
        /\ e.context = d.context /\ e.state = d.state
    BY <1>2, <1>4 DEF LoadProcess
  <2> HIDE DEF e
  <2>2. Holders(e) = S
    BY <1>2, <1>4, <2>1 DEF Holders
  <2>3. QED
    BY <1>3, <2>1, <2>2 DEF Kept, e
<1>5. CASE d.preempted[p] /\ p \notin Permanent
  <2>1. /\ e.running = TRUE /\ e.PSB = p /\ e.preempted = d.preempted /\ e.pri = d.pri
        /\ e.context = d.context
        /\ e.state = [d.state EXCEPT ![d.pri[p]] = <<d.context[p]>> \o @]
    BY <1>2, <1>5 DEF LoadProcess
  <2> HIDE DEF e
  <2>2. Holders(e) = S \ {p} /\ p \in S
    BY <1>2, <1>5, <2>1 DEF Holders
  <2>3. d.context[p] \in StateVectors
    BY <1>2, <2>2
  <2> HIDE DEF S
  <2> DEFINE context == d.context
             pri == d.pri
             state == d.state
  <2>4. /\ S \in SUBSET Psb /\ context \in [Psb -> StateVectors \cup {Frame}]
        /\ pri \in [Psb -> Priority] /\ state \in [Priority -> Seq(StateVectors)]
        /\ p \in S /\ Conserved(S, context, pri, state) /\ context[p] \in StateVectors
    BY <1>2, <1>3, <2>2, <2>3
  <2> HIDE DEF context, pri, state
  <2>5. Conserved(S \ {p}, context, pri, [state EXCEPT ![pri[p]] = <<context[p]>> \o @])
    BY <2>4, GiveVector
  <2>6. QED
    BY <2>1, <2>2, <2>5 DEF Kept, e, context, pri, state
<1>6. QED
  BY <1>4, <1>5

(* Reschedule after moves neither leaks nor shares a state vector.          *)
LEMMA RescheduleKeepsVectors ==
  ASSUME NEW d, Typed(d), Kept(d), NEW preemption \in BOOLEAN, preemption => Preemptible(d)
  PROVE  Kept(Reschedule(d, preemption))
<1> DEFINE d1 == IF d.running THEN SaveProcess(d, preemption) ELSE d
           idle == [d1 EXCEPT !.running = FALSE]
           first == FirstRunnable(d1)
           p == CHOOSE x \in first : TRUE
<1>1. Typed(idle) /\ Kept(idle) /\ "running" \in DOMAIN d1
  <2>1. CASE d.running
    BY <2>1, SaveTyped, SaveKeeps
  <2>2. CASE ~ d.running
    <3>1. d1 = d /\ "running" \in DOMAIN d
      BY <2>2 DEF Typed
    <3>2. /\ DOMAIN idle = DOMAIN d /\ idle.running = FALSE /\ idle.PSB = d.PSB
          /\ idle.locked = d.locked /\ idle.preempted = d.preempted /\ idle.pri = d.pri
          /\ idle.context = d.context /\ idle.state = d.state
      BY <3>1 DEF Typed
    <3> HIDE DEF idle, d1
    <3>3. Typed(idle) /\ Holders(idle) = Holders(d)
      BY <2>2, <3>2 DEF Typed, Holders
    <3>4. QED
      BY <3>1, <3>2, <3>3 DEF Kept
  <2>3. QED
    BY <2>1, <2>2
<1>2. Reschedule(d, preemption) =
        IF first = {} THEN idle
        ELSE [LoadProcess(d1, p) EXCEPT !.PSB = p, !.running = TRUE]
  BY DEF Reschedule
<1> HIDE DEF d1
<1>3. CASE first = {}
  BY <1>1, <1>2, <1>3
<1>4. CASE first # {}
  <2>1. p \in Psb
    BY <1>4 DEF FirstRunnable, Ring, Reach
  <2> HIDE DEF p
  <2>2. idle = [d1 EXCEPT !.running = FALSE]
    OBVIOUS
  <2> HIDE DEF idle
  <2>3. Kept([LoadProcess(d1, p) EXCEPT !.PSB = p, !.running = TRUE])
    BY <1>1, <2>1, <2>2, LoadKeeps
  <2>4. QED
    BY <1>2, <1>4, <2>3
<1>5. QED
  BY <1>3, <1>4

(* Moves, and then perhaps a Reschedule. *)
LEMMA ThenKept ==
  ASSUME NEW s, Typed(s), Kept(s), NEW d, Moved(s, d), NEW preemption \in BOOLEAN,
         preemption => Preemptible(s), NEW e \in {d, Reschedule(d, preemption)}
  PROVE  Kept(e)
<1>1. Typed(d) /\ Kept(d) /\ (preemption => Preemptible(d))
  BY MovedTyped, KeptMoved
<1>2. QED
  BY <1>1, RescheduleKeepsVectors

(* The locks of the monitors are nobody's state vector. *)
LEMMA LockKept ==
  ASSUME IInv, Kept(pda), NEW m, NEW b \in BOOLEAN
  PROVE  Kept([pda EXCEPT !.locked[m] = b])
<1> DEFINE s == [pda EXCEPT !.locked[m] = b]
<1>1. /\ s.PSB = pda.PSB /\ s.running = pda.running
      /\ s.preempted = pda.preempted /\ s.pri = pda.pri
      /\ s.context = pda.context /\ s.state = pda.state
  BY Start DEF Typed
<1> HIDE DEF s
<1>2. Kept(s)
  BY <1>1 DEF Kept, Holders
<1>3. QED
  BY <1>2 DEF s

(* ME, MX and MW lock or unlock, move processes and may run another. *)
LEMMA VectorsMonitor ==
  ASSUME IInv, Kept(pda),
         \/ \E m \in Monitors : E_ME(m) \/ E_MX(m)
         \/ \E c \in Conditions, t \in WaitTicks : E_MW(c, t)
  PROVE  Kept(pda')
<1>1. ASSUME NEW m \in Monitors, E_ME(m) PROVE Kept(pda')
  <2>1. CASE ~ pda.locked[m]
    <3>1. pda' = [pda EXCEPT !.locked[m] = TRUE]
      BY <1>1, <2>1 DEF E_ME
    <3>2. QED
      BY <3>1, LockKept
  <2>2. CASE pda.locked[m]
    <3>1. Moved(pda, [pda EXCEPT !.failed[pda.PSB] = TRUE])
      BY Start DEF Moved
    <3>2. Moved(pda, Requeue([pda EXCEPT !.failed[pda.PSB] = TRUE], Ready, m, pda.PSB))
      BY <3>1, MovedRequeue
    <3>3. pda' = Reschedule(Requeue([pda EXCEPT !.failed[pda.PSB] = TRUE], Ready, m, pda.PSB), FALSE)
      BY <1>1, <2>2 DEF E_ME, EnterFailed
    <3>4. QED
      BY <3>2, <3>3, Start, ThenKept
  <2>3. QED
    BY <2>1, <2>2
<1>2. ASSUME NEW m \in Monitors, E_MX(m) PROVE Kept(pda')
  <2> DEFINE s == [pda EXCEPT !.locked[m] = FALSE]
  <2>1. Typed(s) /\ Kept(s) /\ Moved(s, Exit(pda, m))
    BY WithLock, LockKept, Start, ExitUnlocks
  <2>2. pda' \in {Exit(pda, m), Reschedule(Exit(pda, m), FALSE)}
    BY <1>2 DEF E_MX
  <2> HIDE DEF s
  <2>3. QED
    BY <2>1, <2>2, ThenKept
<1>3. ASSUME NEW c \in Conditions, NEW t \in WaitTicks, E_MW(c, t) PROVE Kept(pda')
  <2> DEFINE m == MonitorOf[c]
             s == [pda EXCEPT !.locked[m] = FALSE]
             exited == Exit(CleanupCondition(pda, c), m)
             woken == [exited EXCEPT !.wakeup[c] = FALSE]
             asleep == [exited EXCEPT !.timeout[PSB] = Deadline(t), !.waiting[PSB] = TRUE]
  <2>1. Typed(s) /\ Kept(s)
    BY WithLock, LockKept
  <2>2. Moved(s, exited)
    BY Start, MovedCleanup, ExitUnlocks
  <2>3. pda' \in {exited, woken, Reschedule(exited, FALSE), Reschedule(woken, FALSE),
                  Reschedule(Requeue(asleep, Ready, c, PSB), FALSE)}
    BY <1>3 DEF E_MW
  <2> HIDE DEF m, s, exited
  <2>4. Moved(s, woken) /\ Moved(s, asleep)
    BY <2>2 DEF Moved
  <2> HIDE DEF woken, asleep
  <2>5. Moved(s, Requeue(asleep, Ready, c, PSB))
    BY <2>4, MovedRequeue
  <2>6. QED
    BY <2>1, <2>2, <2>3, <2>4, <2>5, ThenKept
<1>4. QED
  BY <1>1, <1>2, <1>3

(* MR locks, queues the process or traps. *)
LEMMA VectorsMR == ASSUME IInv, Kept(pda), NEW c \in Conditions, E_MR(c) PROVE Kept(pda')
<1> DEFINE m == MonitorOf[c]
           s == [pda EXCEPT !.locked[m] = TRUE]
           left == [CleanupCondition(pda, c) EXCEPT !.cleanup[PSB] = Null]
<1>1. Moved(pda, CleanupCondition(pda, c))
  BY Start, MovedCleanup
<1>2. Moved(pda, left)
  BY <1>1 DEF Moved
<1>3. CASE pda' = EnterFailed(pda, m)
  <2>1. Moved(pda, [pda EXCEPT !.failed[pda.PSB] = TRUE])
    BY Start DEF Moved
  <2>2. Moved(pda, Requeue([pda EXCEPT !.failed[pda.PSB] = TRUE], Ready, m, pda.PSB))
    BY <2>1, MovedRequeue
  <2>3. pda' = Reschedule(Requeue([pda EXCEPT !.failed[pda.PSB] = TRUE], Ready, m, pda.PSB), FALSE)
    BY <1>3 DEF EnterFailed
  <2>4. QED
    BY <2>2, <2>3, Start, ThenKept
<1>4. CASE pda' = [left EXCEPT !.abort[PSB] = FALSE]
  <2>1. Moved(pda, pda')
    BY <1>2, <1>4 DEF Moved
  <2>2. QED
    BY <2>1, KeptMoved
<1>5. CASE pda' = [left EXCEPT !.locked[m] = TRUE]
  <2>1. Moved(s, pda')
    BY <1>2, <1>5, Start DEF Moved
  <2>2. Kept(s)
    BY LockKept
  <2> HIDE DEF s
  <2>3. QED
    BY <2>1, <2>2, KeptMoved
<1>6. QED
  BY <1>3, <1>4, <1>5 DEF E_MR

(* SPP changes the pool that only the running process draws from. *)
LEMMA VectorsSPP ==
  ASSUME IInv, Kept(pda), NEW pri \in SettablePriorities, E_SPP(pri)
  PROVE  Kept(pda')
<1> DEFINE s == [pda EXCEPT !.pri[PSB] = pri]
<1>1. /\ DOMAIN s = DOMAIN pda /\ s.locked = pda.locked
      /\ s.PSB = pda.PSB /\ s.running = pda.running
      /\ s.preempted = pda.preempted /\ s.pri = [pda.pri EXCEPT ![PSB] = pri]
      /\ s.context = pda.context /\ s.state = pda.state
  BY Start DEF Typed
<1>2. pda' = Reschedule(Requeue(s, Ready, Ready, PSB), FALSE) /\ pda.running
  BY DEF E_SPP
<1> HIDE DEF s
<1>3. s.pri \in [Psb -> Priority]
  BY <1>1, Start, ProgramAssumption DEF Typed
<1>4. Typed(s) /\ Moved(s, s)
  BY <1>1, <1>3, Start DEF Typed, Moved
<1>5. Holders(s) = Holders(pda) /\ PSB \notin Holders(pda) /\ Holders(pda) \in SUBSET Psb
  BY <1>1, <1>2 DEF Holders, PSB
<1>6. \A p \in Holders(pda) : s.context[p] = pda.context[p] /\ s.pri[p] = pda.pri[p]
  BY <1>1, <1>5, Start DEF Typed
<1>7. Conserved(Holders(pda), pda.context, pda.pri, pda.state)
  BY DEF Kept
<1>8. Conserved(Holders(pda), s.context, s.pri, pda.state)
  BY <1>6, <1>7, ConservedSame
<1>9. Kept(s)
  BY <1>1, <1>5, <1>8 DEF Kept
<1>10. Moved(s, Requeue(s, Ready, Ready, PSB))
  BY <1>4, MovedRequeue
<1>11. QED
  BY <1>2, <1>4, <1>9, <1>10, ThenKept

(* The other operations move processes and may run another, preempting only *)
(* where it is possible.                                                    *)
LEMMA VectorsMoves ==
  ASSUME IInv, Kept(pda),
         \/ \E c \in Conditions : E_NC(c) \/ E_BC(c)
         \/ \E src, dst \in {Ready} \cup PlainQueues, p \in Psb : E_REQ(src, dst, p)
         \/ \E p \in Psb : Abort(p)
         \/ \E q \in DOMAIN FaultConditions : FaultStep(q)
         \/ \E wakeups \in SUBSET DOMAIN InterruptConditions, tick \in BOOLEAN :
              Preempt(wakeups, tick)
  PROVE  Kept(pda')
<1>1. ASSUME NEW c \in Conditions, E_NC(c) \/ E_BC(c) PROVE Kept(pda')
  <2> DEFINE d1 == CleanupCondition(pda, c)
  <2>1. Moved(pda, d1)
    BY Start, MovedCleanup
  <2>2. Moved(pda, WakeHead(d1, c)) /\ Moved(pda, WakeAll(d1, c))
    BY <2>1, MovedWakeHead, MovedWakeAll
  <2>3. pda' \in {d1, Reschedule(WakeHead(d1, c), FALSE), Reschedule(WakeAll(d1, c), FALSE)}
    BY <1>1 DEF E_NC, E_BC
  <2> HIDE DEF d1
  <2>4. QED
    BY <2>1, <2>2, <2>3, Start, ThenKept
<1>2. ASSUME NEW src, NEW dst, NEW p, E_REQ(src, dst, p) PROVE Kept(pda')
  <2>1. Moved(pda, Requeue(pda, src, dst, p))
    BY Start, MovedRequeue
  <2>2. pda' = Reschedule(Requeue(pda, src, dst, p), FALSE)
    BY <1>2 DEF E_REQ
  <2>3. QED
    BY <2>1, <2>2, Start, ThenKept
<1>3. ASSUME NEW p \in Psb, Abort(p) PROVE Kept(pda')
  <2> DEFINE flagged == [pda EXCEPT !.abort[p] = TRUE]
             asleep == [flagged EXCEPT !.waiting[p] = FALSE, !.timeout[p] = 0]
  <2>1. Moved(pda, flagged) /\ Moved(pda, asleep)
    BY Start DEF Moved
  <2>2. pda' \in {flagged, Reschedule(Requeue(asleep, Nil, Ready, p), FALSE)}
    BY <1>3 DEF Abort
  <2> HIDE DEF flagged, asleep
  <2>3. Moved(pda, Requeue(asleep, Nil, Ready, p))
    BY <2>1, MovedRequeue
  <2>4. QED
    BY <2>1, <2>2, <2>3, Start, ThenKept
<1>4. ASSUME NEW q, FaultStep(q) PROVE Kept(pda')
  <2> DEFINE c == FaultConditions[q]
  <2>1. Moved(pda, NotifyWakeup(Requeue(pda, Ready, q, PSB), c))
    BY Start, MovedRequeue, MovedNotify
  <2>2. pda' = Reschedule(NotifyWakeup(Requeue(pda, Ready, q, PSB), c), TRUE)
    BY <1>4 DEF FaultStep, Fault, PSB
  <2>3. QED
    BY <2>1, <2>2, Start, ThenKept
<1>5. ASSUME NEW wakeups, NEW tick, Preempt(wakeups, tick) PROVE Kept(pda')
  <2> DEFINE d1 == Interrupt(pda, InterruptConditions, wakeups)
             d2 == TimeoutScan(d1, NextPTC)
  <2>1. Moved(pda, d1)
    BY Start, ProgramAssumption, MovedInterrupt
  <2>2. Moved(pda, d2)
    BY <2>1, MovedTimeoutScan
  <2>3. pda' \in {d1, d2, Reschedule(d1, TRUE), Reschedule(d2, TRUE)}
    BY <1>5 DEF Preempt
  <2> HIDE DEF d1, d2
  <2>4. QED
    BY <2>1, <2>2, <2>3, Start, ThenKept
<1>6. QED
  BY <1>1, <1>2, <1>3, <1>4, <1>5

(* The inductive invariant of state vectors. *)
VInv == IInv /\ Kept(pda)

(* Every step conserves the state vectors. *)
LEMMA StepVInv == VInv /\ [Next]_vars => VInv'
<1> SUFFICES ASSUME VInv, [Next]_vars PROVE Kept(pda')
  BY StepIInv DEF VInv
<1>1. CASE UNCHANGED vars
  BY <1>1 DEF VInv, vars
<1>2. QED
  BY <1>1, VectorsMonitor, VectorsMR, VectorsSPP, VectorsMoves DEF VInv, Next

(* They are all free at the start. *)
LEMMA InitVInv == Init => VInv
<1> SUFFICES ASSUME Init PROVE Kept(pda)
  BY InitIInv DEF VInv
<1>1. /\ pda.preempted = [p \in Psb |-> FALSE] /\ pda.state = InitState
  BY DEF Init
<1>2. Holders(pda) = {}
  BY <1>1 DEF Holders
<1>3. \A k \in Priority : InitState[k] \in Seq(StateVectors)
                          /\ DOMAIN InitState[k] = 1 .. Len(InitState[k])
  BY InitAssumption
<1>4. Unshared({}, pda.context, InitState) /\ Found({}, pda.context, InitState)
  BY <1>3, InitStateAssumption DEF Unshared, Found
<1>5. Lacks({}, pda.pri, InitState)
  <2>1. SUFFICES ASSUME NEW k \in Priority
                 PROVE  Len(InitState[k]) + Cardinality({p \in {} : pda.pri[p] = k})
                          = Len(InitState[k])
    BY DEF Lacks
  <2>2. {p \in {} : pda.pri[p] = k} = {} /\ Cardinality({}) = 0 /\ Len(InitState[k]) \in Nat
    BY <1>3, FS_EmptySet
  <2> QED
    BY <2>2
<1>6. QED
  BY <1>1, <1>2, <1>4, <1>5 DEF Kept, Conserved

(* No state vector leaks, is on two lists, or is shared by two suspended    *)
(* processes, and each comes back to the priority it was taken from: the    *)
(* AllocState of SaveProcess and the FreeState of LoadProcess match, through *)
(* faults, preemptions, aborts and changes of priority.                     *)
THEOREM StateVectorsAlwaysConserved == Spec => []StateVectorsConserved
<1>1. VInv => StateVectorsConserved
  <2> SUFFICES ASSUME VInv PROVE StateVectorsConserved
    OBVIOUS
  <2> DEFINE S == Holders(pda)
             N == Cardinality(StateVectors)
             st == pda.state
  <2>1. /\ Typed(pda) /\ Unshared(S, pda.context, st) /\ Found(S, pda.context, st)
        /\ Lacks(S, pda.pri, st) /\ Suspended = S
    BY DEF VInv, IInv, Kept, Conserved, Suspended, Holders, PSB
  <2>2. \A k \in Priority : /\ st[k] \in Seq(StateVectors) /\ Len(st[k]) \in Nat
                            /\ DOMAIN st[k] = 1 .. Len(st[k])
    BY <2>1 DEF Typed
  <2>3. N \in Nat
    BY InitStateAssumption, FS_CardinalityType
  <2>4. ASSUME NEW k \in Priority PROVE Len(st[k]) <= N
    <3> DEFINE f == st[k]
               X == 1 .. Len(f)
    <3>1. f \in [X -> StateVectors] /\ IsFiniteSet(X) /\ Cardinality(X) = Len(f)
      <4>1. f \in [X -> StateVectors] /\ Len(f) \in Nat
        BY <2>2
      <4>2. 1 \in Int /\ Len(f) \in Int
        BY <4>1
      <4> HIDE DEF f
      <4>3. /\ IsFiniteSet(1 .. Len(f))
            /\ Cardinality(1 .. Len(f)) = IF 1 > Len(f) THEN 0 ELSE Len(f) - 1 + 1
        BY <4>2, FS_Interval
      <4>4. QED
        BY <4>1, <4>3
    <3>2. \A i, j \in X : f[i] = f[j] => i = j
      BY <2>1 DEF Unshared
    <3>3. f \in Injection(X, StateVectors)
      BY <3>1, <3>2 DEF Injection, IsInjective
    <3>4. Cardinality(X) <= N
      BY <3>3, InitStateAssumption, FS_Injection DEF ExistsInjection
    <3>5. QED
      BY <3>1, <3>4
  <2>5. ASSUME NEW sv \in StateVectors
        PROVE  Cardinality({p \in Suspended : pda.context[p] = sv})
                 + Cardinality({x \in Priority \X (1 .. N) :
                                  x[2] \in DOMAIN st[x[1]] /\ st[x[1]][x[2]] = sv}) = 1
    <3> DEFINE H == {p \in S : pda.context[p] = sv}
               L == {x \in Priority \X (1 .. N) : x[2] \in DOMAIN st[x[1]] /\ st[x[1]][x[2]] = sv}
    <3>1. CASE \E p \in S : pda.context[p] = sv
      <4>1. PICK p \in S : pda.context[p] = sv
        BY <3>1
      <4>2. H = {p}
        BY <2>1, <4>1 DEF Unshared
      <4>3. L = {}
        BY <2>1, <2>2, <4>1 DEF Unshared
      <4> HIDE DEF H, L
      <4>4. Cardinality(H) = 1 /\ Cardinality(L) = 0
        BY <4>2, <4>3, FS_Singleton, FS_EmptySet
      <4>5. QED
        BY <2>1, <4>4 DEF H, L
    <3>2. CASE ~ \E p \in S : pda.context[p] = sv
      <4>1. PICK k \in Priority : \E i \in 1 .. Len(st[k]) : st[k][i] = sv
        BY <2>1, <3>2 DEF Found
      <4>2. PICK i \in 1 .. Len(st[k]) : st[k][i] = sv
        BY <4>1
      <4>3. i \in 1 .. N
        BY <2>2, <2>3, <2>4
      <4>4. H = {}
        BY <3>2
      <4>5. L = {<<k, i>>}
        <5>1. <<k, i>> \in L
          BY <2>2, <4>2, <4>3
        <5>2. ASSUME NEW x \in L PROVE x = <<k, i>>
          <6>1. /\ x = <<x[1], x[2]>> /\ x[1] \in Priority /\ x[2] \in 1 .. Len(st[x[1]])
                /\ st[x[1]][x[2]] = sv
            BY <2>2
          <6>2. x[1] = k /\ x[2] = i
            BY <2>1, <4>2, <6>1 DEF Unshared
          <6>3. QED
            BY <6>1, <6>2
        <5>3. QED
          BY <5>1, <5>2
      <4> HIDE DEF H, L
      <4>6. Cardinality(H) = 0 /\ Cardinality(L) = 1
        BY <4>4, <4>5, FS_Singleton, FS_EmptySet
      <4>7. QED
        BY <2>1, <4>6 DEF H, L
    <3>3. QED
      BY <3>1, <3>2
  <2>6. \A k \in Priority :
          Len(st[k]) + Cardinality({p \in Suspended : pda.pri[p] = k}) = Len(InitState[k])
    BY <2>1 DEF Lacks
  <2>7. QED
    BY <2>5, <2>6 DEF StateVectorsConserved
<1>2. QED
  BY InitVInv, StepVInv, <1>1, PTL DEF Spec

-----------------------------------------------------------------------------
(***************************************************************************)
(* For any number of processes, monitors, conditions, priorities, interrupt *)
(* levels and timers: the rings are a partition of the processes in order   *)
(* of priority, nothing owed to a process is forgotten, and the ready       *)
(* process of highest priority runs.                                        *)
(*                                                                          *)
(* The argument.  RInv says that some h places the processes on queues such *)
(* that the queues are Settled (QueueProofs), the choice of Reschedule is   *)
(* still the best (Scheduled), what is owed to a saved process is owed to   *)
(* one that was not preempted (Owed), and every process is where the        *)
(* instruction it retries says (Protocol).  Each step of the scheduler is a *)
(* chain of procedures: QueueProofs carries Settled along the chain, and    *)
(* the lemmas here carry the rest; Reschedule ends it.                      *)
(***************************************************************************)

-----------------------------------------------------------------------------
(* Reschedule. *)

(* A settled PDA stays settled while what queues and marks consist of stays. *)
LEMMA SettledSame ==
  ASSUME NEW d, NEW h, NEW w, Settled(d, h, w), NEW e, IsPda(e),
         \A n \in {"next", "pri", "cleanup", "tail", "waiting", "timeout", "wakeup"} : e[n] = d[n]
  PROVE  Settled(e, h, w)
<1>1. DOMAIN e = Fields
  BY DEF IsPda
<1>2. /\ e.next = d.next /\ e.pri = d.pri /\ e.cleanup = d.cleanup /\ e.tail = d.tail
      /\ e.waiting = d.waiting /\ e.timeout = d.timeout /\ e.wakeup = d.wakeup
  OBVIOUS
<1>3. Orderly(e, h, w)
  BY <1>1, <1>2, OrderlySame DEF Settled
<1>4. QED
  BY <1>2, <1>3 DEF Settled, Marked, Stored

(* What Reschedule may change. *)
Registers == {"preempted", "failed", "context", "state", "PSB", "running"}

(* The running process is ready, and no other ready process that could run   *)
(* has a higher priority.                                                   *)
Scheduled(d, h) ==
  /\ d.running => h[d.PSB] = Ready
  /\ \A p \in Members(h, Ready) : Runnable(d, p) => d.running /\ d.pri[p] <= d.pri[d.PSB]

(* A process that failed to enter learns of it when it is loaded, for it was *)
(* not preempted.                                                           *)
Owed(d) ==
  /\ d.failed \in [Psb -> BOOLEAN]
  /\ \A p \in Psb : d.failed[p] => ~ d.preempted[p] /\ ~ (d.running /\ p = d.PSB)

(* The same while the running process is about to be saved. *)
OwedOnSave(d, h, preemption) ==
  /\ d.failed \in [Psb -> BOOLEAN]
  /\ \A p \in Psb : d.failed[p] => IF d.running /\ p = d.PSB THEN ~ preemption /\ h[p] # Ready
                                   ELSE ~ d.preempted[p]

(* Saving the running process. *)
Saved(d, preemption) == IF d.running THEN SaveProcess(d, preemption) ELSE d

(* Saving the running process touches what is saved of it and no queue. *)
LEMMA SavedFields ==
  ASSUME NEW d, IsPda(d), Typed(d), NEW preemption \in BOOLEAN, preemption => Preemptible(d)
  PROVE  LET e == Saved(d, preemption)
         IN  /\ IsPda(e) /\ \A n \in Fields \ {"preempted", "context", "state"} : e[n] = d[n]
             /\ e.preempted = IF d.running THEN [d.preempted EXCEPT ![d.PSB] = preemption]
                              ELSE d.preempted
             /\ Typed([e EXCEPT !.running = FALSE])
<1> DEFINE e == Saved(d, preemption)
<1>1. CASE ~ d.running
  <2>1. e = d
    BY <1>1 DEF Saved
  <2>2. [e EXCEPT !.running = FALSE] = d
    BY <1>1, <2>1 DEF Typed, IsPda, Fields
  <2>3. QED
    BY <1>1, <2>1, <2>2
<1>2. CASE d.running
  <2>1. e = SaveProcess(d, preemption)
    BY <1>2 DEF Saved
  <2>2. IsPda(e)
    BY <2>1 DEF IsPda, SaveProcess, Fields
  <2>3. /\ \A n \in Fields \ {"preempted", "context", "state"} : e[n] = d[n]
        /\ e.preempted = [d.preempted EXCEPT ![d.PSB] = preemption]
    BY <2>1 DEF IsPda, SaveProcess, Fields
  <2>4. Typed([e EXCEPT !.running = FALSE])
    BY <1>2, <2>1, SaveTyped
  <2>5. QED
    BY <1>2, <2>2, <2>3, <2>4
<1>3. QED
  BY <1>1, <1>2

(* Loading a process. *)
Loaded(d, p) == [LoadProcess(d, p) EXCEPT !.PSB = p, !.running = TRUE]

IsLoaded(d, p, e) ==
  /\ IsPda(e) /\ e.PSB = p /\ e.running = TRUE
  /\ \A n \in Fields \ {"failed", "state", "PSB", "running"} : e[n] = d[n]
  /\ e.failed = IF d.preempted[p] THEN d.failed ELSE [d.failed EXCEPT ![p] = FALSE]
  /\ e.state = IF d.preempted[p] /\ p \notin Permanent
               THEN [d.state EXCEPT ![d.pri[p]] = <<d.context[p]>> \o @] ELSE d.state

(* Loading a process touches its context and the state vectors, and clears   *)
(* the failed bit of a process that was not preempted.                       *)
LEMMA LoadedFields ==
  ASSUME NEW d, IsPda(d), NEW p
  PROVE  IsLoaded(d, p, Loaded(d, p))
<1> DEFINE e == Loaded(d, p)
<1>1. CASE ~ d.preempted[p]
  <2>1. e = [d EXCEPT !.failed[p] = FALSE, !.PSB = p, !.running = TRUE]
    BY <1>1 DEF Loaded, LoadProcess
  <2>2. QED
    BY <1>1, <2>1 DEF IsLoaded, IsPda, Fields
<1>2. CASE d.preempted[p] /\ p \in Permanent
  <2>1. e = [d EXCEPT !.PSB = p, !.running = TRUE]
    BY <1>2 DEF Loaded, LoadProcess
  <2>2. QED
    BY <1>2, <2>1 DEF IsLoaded, IsPda, Fields
<1>3. CASE d.preempted[p] /\ p \notin Permanent
  <2> DEFINE freed == [d.state EXCEPT ![d.pri[p]] = <<d.context[p]>> \o @]
  <2>1. e = [d EXCEPT !.state = freed, !.PSB = p, !.running = TRUE]
    BY <1>3 DEF Loaded, LoadProcess
  <2>2. e.state = freed
    BY <2>1 DEF IsPda, Fields
  <2> HIDE DEF freed
  <2>3. /\ IsPda(e) /\ e.PSB = p /\ e.running = TRUE
        /\ \A n \in Fields \ {"failed", "state", "PSB", "running"} : e[n] = d[n]
        /\ e.failed = d.failed
    BY <2>1 DEF IsPda, Fields
  <2>4. QED
    BY <1>3, <2>2, <2>3 DEF freed, IsLoaded
<1>4. QED
  BY <1>1, <1>2, <1>3

(* Reschedule leaves the queues alone, runs a process that no other outranks, *)
(* and forgets no failed entry but that of the process it loads.            *)
LEMMA RescheduleSettles ==
  ASSUME NEW d, NEW h, NEW w, Settled(d, h, w), Typed(d),
         NEW preemption \in BOOLEAN, preemption => Preemptible(d), OwedOnSave(d, h, preemption)
  PROVE  LET e == Reschedule(d, preemption)
         IN  /\ Settled(e, h, w) /\ Scheduled(e, h) /\ Owed(e)
             /\ \A n \in Fields \ Registers : e[n] = d[n]
             /\ \A p \in Psb : e.failed[p] => d.failed[p]
<1> DEFINE e == Reschedule(d, preemption)
           d1 == Saved(d, preemption)
           first == FirstRunnable(d1)
           p == CHOOSE x \in first : TRUE
           idle == [d1 EXCEPT !.running = FALSE]
<1>1. /\ IsPda(d1) /\ \A n \in Fields \ {"preempted", "context", "state"} : d1[n] = d[n]
      /\ d1.preempted = IF d.running THEN [d.preempted EXCEPT ![d.PSB] = preemption]
                        ELSE d.preempted
      /\ Typed(idle)
  BY SavedFields DEF Settled
<1>2. e = IF first = {} THEN idle ELSE Loaded(d1, p)
  BY DEF Reschedule, Saved, Loaded
<1>3. d.PSB \in Psb /\ d.preempted \in [Psb -> BOOLEAN] /\ d.running \in BOOLEAN
  BY DEF Typed
<1> HIDE DEF d1, e
<1>4. Settled(d1, h, w)
  BY <1>1, SettledSame DEF Fields
<1>5. d1.failed = d.failed /\ d1.pri = d.pri /\ d1.PSB = d.PSB /\ d1.running = d.running
  BY <1>1 DEF Fields
<1>6. \A x \in Psb : d1.failed[x] => ~ d1.preempted[x] /\ (d.running /\ x = d.PSB => h[x] # Ready)
  <2>1. SUFFICES ASSUME NEW x \in Psb, d.failed[x]
                 PROVE  ~ d1.preempted[x] /\ (d.running /\ x = d.PSB => h[x] # Ready)
    BY <1>5
  <2>2. CASE d.running /\ x = d.PSB
    BY <1>1, <1>3, <2>1, <2>2 DEF OwedOnSave
  <2>3. CASE ~ (d.running /\ x = d.PSB)
    BY <1>1, <1>3, <2>1, <2>3 DEF OwedOnSave
  <2>4. QED
    BY <2>2, <2>3
<1>7. CASE first = {}
  <2>1. e = idle
    BY <1>2, <1>7
  <2>2. IsPda(e) /\ e.running = FALSE /\ \A n \in Fields \ {"running"} : e[n] = d1[n]
    BY <1>1, <2>1 DEF IsPda, Fields
  <2>3. Settled(e, h, w)
    BY <1>4, <2>2, SettledSame DEF Fields
  <2>4. /\ e.failed = d.failed /\ e.preempted = d1.preempted
        /\ e.state = d1.state /\ e.pri = d1.pri
    BY <1>5, <2>2 DEF Fields
  <2>5. Scheduled(e, h)
    <3>1. ASSUME NEW x \in Members(h, Ready) PROVE ~ Runnable(e, x)
      <4>1. ~ Runnable(d1, x)
        BY <1>4, <1>7, FirstOfNone DEF Settled
      <4>2. QED
        BY <2>4, <4>1 DEF Runnable, EmptyState
    <3>2. QED
      BY <2>2, <3>1 DEF Scheduled
  <2>6. Owed(e)
    BY <1>5, <1>6, <2>2, <2>4 DEF Owed, OwedOnSave
  <2>7. \A n \in Fields \ Registers : e[n] = d[n]
    BY <1>1, <2>2 DEF Registers
  <2>8. QED
    BY <2>3, <2>4, <2>5, <2>6, <2>7 DEF e
<1>8. CASE first # {}
  <2>1. p \in first
    BY <1>8
  <2> HIDE DEF p
  <2>2. /\ p \in Members(h, Ready) /\ Runnable(d1, p)
        /\ \A x \in Members(h, Ready) : Runnable(d1, x) => d1.pri[x] <= d1.pri[p]
    BY <1>4, <2>1, FirstIsHighest DEF Settled
  <2>3. e = Loaded(d1, p)
    BY <1>2, <1>8
  <2>4. /\ IsPda(e) /\ e.PSB = p /\ e.running = TRUE
        /\ \A n \in Fields \ {"failed", "state", "PSB", "running"} : e[n] = d1[n]
        /\ e.failed = IF d1.preempted[p] THEN d1.failed ELSE [d1.failed EXCEPT ![p] = FALSE]
        /\ e.state = IF d1.preempted[p] /\ p \notin Permanent
                     THEN [d1.state EXCEPT ![d1.pri[p]] = <<d1.context[p]>> \o @] ELSE d1.state
    <3>1. IsLoaded(d1, p, e)
      BY <1>1, <2>3, LoadedFields
    <3>2. QED
      BY <3>1 DEF IsLoaded
  <2>5. Settled(e, h, w)
    BY <1>4, <2>4, SettledSame DEF Fields
  <2>6. p \in Psb /\ h[p] = Ready /\ e.preempted = d1.preempted /\ e.pri = d1.pri
    BY <2>2, <2>4 DEF Members, Fields
  <2>7. d1.state \in [Priority -> Seq(StateVectors)] /\ d1.pri \in [Psb -> Priority]
    BY <1>1 DEF Typed, IsPda, Fields
  <2>8. Scheduled(e, h)
    <3>1. ASSUME NEW x \in Members(h, Ready), Runnable(e, x) PROVE d1.pri[x] <= d1.pri[p]
      <4>1. x \in Psb /\ d1.pri[x] \in Priority
        BY <2>7 DEF Members
      <4>2. CASE d1.pri[x] = d1.pri[p]
        BY <4>1, <4>2, SizesAssumption DEF Priority
      <4>3. CASE d1.pri[x] # d1.pri[p]
        <5>1. e.state[d1.pri[x]] = d1.state[d1.pri[x]]
          BY <2>4, <2>7, <4>1, <4>3
        <5>2. Runnable(d1, x)
          BY <2>6, <3>1, <5>1 DEF Runnable, EmptyState
        <5>3. QED
          BY <2>2, <5>2
      <4>4. QED
        BY <4>2, <4>3
    <3>2. QED
      BY <2>4, <2>6, <3>1 DEF Scheduled
  <2>9. Owed(e) /\ \A x \in Psb : e.failed[x] => d.failed[x]
    <3>1. d1.failed \in [Psb -> BOOLEAN]
      BY <1>5 DEF OwedOnSave
    <3>2. e.failed \in [Psb -> BOOLEAN] /\ \A x \in Psb : e.failed[x] => d1.failed[x]
      BY <2>4, <3>1
    <3>3. ASSUME NEW x \in Psb, e.failed[x] PROVE ~ e.preempted[x] /\ x # p
      <4>1. ~ d1.preempted[x]
        BY <1>6, <3>2, <3>3
      <4>2. x # p
        BY <2>4, <2>6, <3>1, <3>3, <4>1
      <4>3. QED
        BY <2>6, <4>1, <4>2
    <3>4. QED
      BY <1>5, <2>4, <3>2, <3>3 DEF Owed
  <2>10. \A n \in Fields \ Registers : e[n] = d[n]
    BY <1>1, <2>4 DEF Registers
  <2>11. QED
    BY <2>5, <2>8, <2>9, <2>10 DEF e
<1>9. QED
  BY <1>7, <1>8

-----------------------------------------------------------------------------
(* The inductive invariant.  Some assignment h of the processes to the       *)
(* queues explains the process data area, and agrees with where the         *)
(* processes are in their protocol.                                         *)

(* The condition that each process waits on or returns from. *)
Target(q) == [p \in Psb |-> IF q[p].at = "reenter" THEN q[p].c ELSE Nil]

(* Process p is on its way into m. *)
Coming(q, p, m) == q[p].at \in {"enter", "reenter"} /\ q[p].m = m

(* What the queues of PDA d say of the processes at places q. *)
Protocol(d, h, q) ==
  /\ d.abort \in [Psb -> BOOLEAN]
  /\ \A p \in Psb : d.failed[p] => q[p].at \in {"enter", "reenter"} /\ h[p] \notin Conditions
  /\ \A p \in Psb : h[p] \in Monitors => Coming(q, p, h[p])
  /\ \A m \in Monitors :
       ~ d.locked[m] /\ Members(h, m) # {} =>
         \E p \in Psb : h[p] # m /\ h[p] \notin Conditions /\ Coming(q, p, m)

Placed(h) ==
  /\ Settled(pda, h, Target(pc)) /\ Scheduled(pda, h) /\ Owed(pda)
  /\ Protocol(pda, h, pc)

RInv == IInv /\ PTC \in 0 .. Ticks - 1 /\ \E h \in [Psb -> Queues] : Placed(h)

(* The queues of different kinds are different. *)
LEMMA Kinds ==
  /\ Ready \in Queues /\ Ready \notin Conditions /\ Ready \notin Monitors
  /\ Monitors \subseteq Queues /\ Conditions \subseteq Queues /\ PlainQueues \subseteq Queues
  /\ \A q \in PlainQueues : q \notin Conditions /\ q \notin Monitors
  /\ \A m \in Monitors : m \notin Conditions
  /\ Nil \notin Queues
  BY QueuesAssumption DEF Queues

(* One process p changes its place, its queue, or what it is told. *)
LEMMA ProtocolStep ==
  ASSUME NEW d, NEW h, NEW q, Protocol(d, h, q), NEW p \in Psb, NEW e, NEW h2, NEW q2,
         \A y \in Psb \ {p} : h2[y] = h[y] /\ q2[y] = q[y] /\ (e.failed[y] => d.failed[y]),
         e.abort \in [Psb -> BOOLEAN],
         e.failed[p] => q2[p].at \in {"enter", "reenter"} /\ h2[p] \notin Conditions,
         h2[p] \in Monitors => Coming(q2, p, h2[p]) /\ e.locked[h2[p]],
         \A n \in Monitors : ~ e.locked[n] =>
            ~ d.locked[n] /\ (Coming(q, p, n) => Coming(q2, p, n) /\ h2[p] \notin Conditions)
  PROVE  Protocol(e, h2, q2)
<1>1. ASSUME NEW y \in Psb, e.failed[y]
      PROVE  q2[y].at \in {"enter", "reenter"} /\ h2[y] \notin Conditions
  <2>1. CASE y = p
    BY <1>1, <2>1
  <2>2. CASE y # p
    BY <1>1, <2>2 DEF Protocol
  <2>3. QED
    BY <2>1, <2>2
<1>2. ASSUME NEW y \in Psb, h2[y] \in Monitors PROVE Coming(q2, y, h2[y])
  <2>1. CASE y = p
    BY <1>2, <2>1
  <2>2. CASE y # p
    BY <1>2, <2>2 DEF Protocol, Coming
  <2>3. QED
    BY <2>1, <2>2
<1>3. ASSUME NEW n \in Monitors, ~ e.locked[n], Members(h2, n) # {}
      PROVE  \E z \in Psb : h2[z] # n /\ h2[z] \notin Conditions /\ Coming(q2, z, n)
  <2>1. PICK y \in Psb : h2[y] = n
    BY <1>3 DEF Members
  <2>2. h2[p] # n
    BY <1>3
  <2>3. y \in Members(h, n)
    BY <2>1, <2>2 DEF Members
  <2>4. PICK z \in Psb : h[z] # n /\ h[z] \notin Conditions /\ Coming(q, z, n)
    BY <1>3, <2>3 DEF Protocol
  <2>5. CASE z = p
    BY <1>3, <2>2, <2>4, <2>5
  <2>6. CASE z # p
    BY <2>4, <2>6 DEF Coming
  <2>7. QED
    BY <2>5, <2>6
<1>4. QED
  BY <1>1, <1>2, <1>3 DEF Protocol

(* Wakes and timeouts disturb nobody on the way into a monitor. *)
LEMMA ProtocolWoken ==
  ASSUME NEW d, NEW h, NEW q, Protocol(d, h, q), NEW e, NEW h2, Woken(d, h, e, h2)
  PROVE  Protocol(e, h2, q)
<1>1. e.abort = d.abort /\ e.failed = d.failed /\ e.locked = d.locked
  BY DEF Woken, Fields
<1>2. \A y \in Psb : h2[y] = h[y] \/ (h[y] \in Conditions /\ h2[y] = Ready)
  BY DEF Woken
<1>3. \A m \in Monitors : Members(h2, m) \subseteq Members(h, m)
  BY <1>2, Kinds DEF Members
<1>4. \A y \in Psb : h[y] \notin Conditions => h2[y] = h[y]
  BY <1>2
<1>5. \A y \in Psb : h2[y] \in Monitors => h2[y] = h[y]
  BY <1>2, Kinds
<1>6. ASSUME NEW y \in Psb, d.failed[y]
      PROVE  q[y].at \in {"enter", "reenter"} /\ h2[y] \notin Conditions
  BY <1>4, <1>6 DEF Protocol
<1>7. ASSUME NEW m \in Monitors, ~ d.locked[m], Members(h2, m) # {}
      PROVE  \E z \in Psb : h2[z] # m /\ h2[z] \notin Conditions /\ Coming(q, z, m)
  <2>1. Members(h, m) # {}
    BY <1>3, <1>7
  <2>2. PICK z \in Psb : h[z] # m /\ h[z] \notin Conditions /\ Coming(q, z, m)
    BY <1>7, <2>1 DEF Protocol
  <2>3. QED
    BY <1>4, <2>2
<1>8. QED
  BY <1>1, <1>5, <1>6, <1>7 DEF Protocol

(* Exit makes the first process of the monitor ready, which is on its way in. *)
LEMMA ProtocolExit ==
  ASSUME NEW d, NEW h, NEW q, Protocol(d, h, q), "locked" \in DOMAIN d, NEW m \in Monitors,
         NEW e, NEW h2, ExitsTo(d, h, m, e, h2), h \in [Psb -> Queues],
         d.locked \in [Monitors -> BOOLEAN]
  PROVE  Protocol(e, h2, q)
<1>1. /\ e.abort = d.abort /\ e.failed = d.failed
      /\ \A n \in Monitors \ {m} : e.locked[n] = d.locked[n]
  BY DEF ExitsTo, Fields
<1>2. CASE Members(h, m) = {}
  <2>1. h2 = h
    BY <1>2 DEF ExitsTo
  <2>2. QED
    BY <1>1, <1>2, <2>1 DEF Protocol
<1>3. CASE Members(h, m) # {}
  <2>1. PICK p \in Members(h, m) : h2 = [h EXCEPT ![p] = Ready]
    BY <1>3 DEF ExitsTo
  <2>2. p \in Psb /\ h[p] = m /\ Coming(q, p, m) /\ h2[p] = Ready
    BY <2>1 DEF Members, Protocol
  <2>3. \A y \in Psb \ {p} : h2[y] = h[y]
    BY <2>1
  <2>4. \A y \in Psb : d.failed[y] => q[y].at \in {"enter", "reenter"} /\ h2[y] \notin Conditions
    BY <2>2, <2>3, Kinds DEF Protocol
  <2>5. \A y \in Psb : h2[y] \in Monitors => Coming(q, y, h2[y])
    BY <2>2, <2>3, Kinds DEF Protocol
  <2>6. ASSUME NEW n \in Monitors, ~ e.locked[n], Members(h2, n) # {}
        PROVE  \E z \in Psb : h2[z] # n /\ h2[z] \notin Conditions /\ Coming(q, z, n)
    <3>1. CASE n = m
      BY <2>2, <3>1, Kinds
    <3>2. CASE n # m
      <4>1. Members(h, n) # {}
        BY <2>2, <2>3, <2>6, Kinds DEF Members
      <4>2. PICK z \in Psb : h[z] # n /\ h[z] \notin Conditions /\ Coming(q, z, n)
        BY <1>1, <2>6, <3>2, <4>1 DEF Protocol
      <4>3. h2[z] # n /\ h2[z] \notin Conditions
        BY <2>2, <2>3, <4>2, Kinds
      <4>4. QED
        BY <4>2, <4>3
    <3>3. QED
      BY <3>1, <3>2
  <2>7. QED
    BY <1>1, <2>4, <2>5, <2>6 DEF Protocol
<1>4. QED
  BY <1>2, <1>3

-----------------------------------------------------------------------------
(* How a step ends. *)

(* With a Reschedule. *)
LEMMA ByReschedule ==
  ASSUME IInv', PTC' \in 0 .. Ticks - 1, NEW h \in [Psb -> Queues], NEW d,
         Settled(d, h, Target(pc')), Typed(d), NEW preemption \in BOOLEAN,
         preemption => Preemptible(d), OwedOnSave(d, h, preemption), Protocol(d, h, pc'),
         pda' = Reschedule(d, preemption)
  PROVE  RInv'
<1>1. /\ Settled(pda', h, Target(pc')) /\ Scheduled(pda', h) /\ Owed(pda')
      /\ \A n \in Fields \ Registers : pda'[n] = d[n]
      /\ \A p \in Psb : pda'.failed[p] => d.failed[p]
  BY RescheduleSettles
<1>2. pda'.abort = d.abort /\ pda'.locked = d.locked
  BY <1>1 DEF Fields, Registers
<1>3. Protocol(pda', h, pc')
  BY <1>1, <1>2 DEF Protocol
<1>4. QED
  BY <1>1, <1>3 DEF RInv, Placed

(* Or with the same process running. *)
LEMMA ByStay ==
  ASSUME IInv', PTC' \in 0 .. Ticks - 1, NEW h \in [Psb -> Queues],
         Settled(pda', h, Target(pc')), Protocol(pda', h, pc'),
         Scheduled(pda, h), Owed(pda),
         \A n \in {"pri", "preempted", "failed", "state", "PSB", "running"} : pda'[n] = pda[n]
  PROVE  RInv'
<1>1. /\ pda'.pri = pda.pri /\ pda'.preempted = pda.preempted /\ pda'.failed = pda.failed
      /\ pda'.state = pda.state /\ pda'.PSB = pda.PSB /\ pda'.running = pda.running
  OBVIOUS
<1>2. Scheduled(pda', h) /\ Owed(pda')
  BY <1>1 DEF Scheduled, Owed, Runnable, EmptyState
<1>3. QED
  BY <1>2 DEF RInv, Placed

(* What a step starts from. *)
LEMMA Begin ==
  ASSUME RInv
  PROVE  /\ IInv /\ PTC \in 0 .. Ticks - 1
         /\ \E h \in [Psb -> Queues] :
              /\ Settled(pda, h, Target(pc)) /\ Scheduled(pda, h) /\ Owed(pda)
              /\ Protocol(pda, h, pc)
  BY DEF RInv, Placed

(* What is owed between instructions is owed when the running process is     *)
(* about to be saved.                                                        *)
LEMMA OwedSaves == ASSUME NEW d, Owed(d), NEW h, NEW b PROVE OwedOnSave(d, h, b)
  BY DEF Owed, OwedOnSave

(* The wait target of the others stays when the running process moves on. *)
LEMMA TargetStep ==
  ASSUME NEW q \in [Psb -> PcType], NEW p \in Psb, NEW x,
         IF q[p].at = "reenter" THEN x = q[p] ELSE x.at # "reenter"
  PROVE  Target([q EXCEPT ![p] = x]) = Target(q)
  BY DEF Target

(* ME and MR on a locked monitor. *)
LEMMA StepEnterFailed ==
  ASSUME RInv, IInv', NEW m \in Monitors, pda.running, pda.locked[m],
         pda' = EnterFailed(pda, m), PTC' = PTC, Target(pc') = Target(pc),
         Coming(pc', PSB, m), \A n \in Monitors : Coming(pc, PSB, n) => n = m,
         \A y \in Psb \ {PSB} : pc'[y] = pc[y]
  PROVE  RInv'
<1> DEFINE d0 == [pda EXCEPT !.failed[PSB] = TRUE]
           d == Requeue(d0, Ready, m, PSB)
<1>1. PICK h \in [Psb -> Queues] : /\ Settled(pda, h, Target(pc)) /\ Scheduled(pda, h)
                                   /\ Owed(pda) /\ Protocol(pda, h, pc)
  BY Begin
<1>2. PSB \in Psb /\ h[PSB] = Ready /\ Typed(pda)
  BY <1>1 DEF Scheduled, RInv, IInv, Typed, PSB
<1> DEFINE h2 == [h EXCEPT ![PSB] = m]
<1>3. /\ IsPda(d0) /\ \A n \in Fields \ {"failed"} : d0[n] = pda[n]
      /\ d0.failed = [pda.failed EXCEPT ![PSB] = TRUE]
  BY <1>1 DEF Settled, IsPda, Fields
<1>4. pda' = Reschedule(d, FALSE)
  BY DEF EnterFailed, PSB
<1>5. Moved(pda, d)
  <2>1. Moved(pda, d0)
    BY <1>3, Start DEF RInv, Moved, Fields, IsPda
  <2>2. QED
    BY <2>1, MovedRequeue
<1> HIDE DEF d0
<1>6. Settled(d0, h, Target(pc))
  BY <1>1, <1>3, SettledSame DEF Fields
<1>7. Marked(d0, h2)
  BY <1>2, <1>6, Kinds DEF Settled, Marked
<1>8. Settled(d, h2, Target(pc)) /\ Relinked(d0, d)
  <2>1. m \in Queues /\ m \notin Conditions /\ Ready \notin Conditions
    BY Kinds
  <2>2. IsPda(d0) /\ Orderly(d0, h, Target(pc)) /\ Stored(d0)
    BY <1>6 DEF Settled
  <2>3. d = Requeue(d0, h[PSB], m, PSB)
    BY <1>2
  <2> HIDE DEF d
  <2>4. QED
    BY <1>2, <1>7, <2>1, <2>2, <2>3, MoveTold
<1> HIDE DEF d
<1>9. /\ d.failed = d0.failed /\ d.preempted = pda.preempted /\ d.running = pda.running
      /\ d.PSB = PSB /\ d.locked = pda.locked /\ d.abort = pda.abort
  BY <1>3, <1>8 DEF Relinked, Fields, PSB
<1>10. /\ d.failed \in [Psb -> BOOLEAN] /\ h2[PSB] = m /\ h2 \in [Psb -> Queues]
       /\ \A y \in Psb \ {PSB} : d.failed[y] = pda.failed[y] /\ h2[y] = h[y]
  BY <1>1, <1>2, <1>3, <1>9, Kinds DEF Owed
<1> HIDE DEF h2
<1>11. OwedOnSave(d, h2, FALSE)
  <2>1. ASSUME NEW p \in Psb, d.failed[p]
        PROVE  IF d.running /\ p = d.PSB THEN ~ FALSE /\ h2[p] # Ready ELSE ~ d.preempted[p]
    <3>1. CASE p = PSB
      BY <1>9, <1>10, <3>1, Kinds
    <3>2. CASE p # PSB
      BY <1>1, <1>9, <1>10, <2>1, <3>2 DEF Owed
    <3>3. QED
      BY <3>1, <3>2
  <2>2. QED
    BY <1>10, <2>1 DEF OwedOnSave
<1>12. Protocol(d, h2, pc')
  <2>1. d.abort \in [Psb -> BOOLEAN]
    BY <1>1, <1>9 DEF Protocol
  <2>2. pc'[PSB].at \in {"enter", "reenter"} /\ h2[PSB] \notin Conditions
    BY <1>10, Kinds DEF Coming
  <2>3. Coming(pc', PSB, h2[PSB]) /\ d.locked[h2[PSB]]
    BY <1>9, <1>10
  <2>4. ASSUME NEW n \in Monitors, ~ d.locked[n]
        PROVE  ~ pda.locked[n] /\ ~ Coming(pc, PSB, n)
    BY <1>9, <2>4
  <2>5. \A y \in Psb \ {PSB} : h2[y] = h[y] /\ pc'[y] = pc[y] /\ (d.failed[y] => pda.failed[y])
    BY <1>10
  <2>6. QED
    BY <1>1, <1>2, <2>1, <2>2, <2>3, <2>4, <2>5, ProtocolStep
<1>13. Typed(d)
  BY <1>2, <1>5, MovedTyped
<1>14. QED
  BY <1>4, <1>8, <1>10, <1>11, <1>12, <1>13, Begin, ByReschedule

(* ME. *)
LEMMA RStepME == ASSUME RInv, IInv', NEW m \in Monitors, E_ME(m) PROVE RInv'
<1>1. PICK h \in [Psb -> Queues] : /\ Settled(pda, h, Target(pc)) /\ Scheduled(pda, h)
                                   /\ Owed(pda) /\ Protocol(pda, h, pc)
  BY Begin
<1>2. /\ pda.running /\ PSB \in Psb /\ h[PSB] = Ready /\ PTC' = PTC /\ PTC \in 0 .. Ticks - 1
      /\ pc \in [Psb -> PcType] /\ pda.locked \in [Monitors -> BOOLEAN]
  BY <1>1 DEF Scheduled, RInv, IInv, Typed, PSB, E_ME
<1>3. pc[PSB].at # "reenter" /\ \A n \in Monitors : Coming(pc, PSB, n) => n = m
  BY DEF E_ME, Entering, Outside, Coming
<1>4. CASE pda.locked[m]
  <2>1. pda' = EnterFailed(pda, m) /\ pc' = [pc EXCEPT ![PSB] = Entering(m)]
    BY <1>4 DEF E_ME
  <2>2. Target(pc') = Target(pc)
    BY <1>2, <1>3, <2>1, TargetStep DEF Entering
  <2>3. Coming(pc', PSB, m) /\ \A y \in Psb \ {PSB} : pc'[y] = pc[y]
    BY <1>2, <2>1 DEF Coming, Entering
  <2>4. QED
    BY <1>2, <1>3, <1>4, <2>1, <2>2, <2>3, StepEnterFailed
<1>5. CASE ~ pda.locked[m]
  <2>1. pda' = [pda EXCEPT !.locked[m] = TRUE] /\ pc' = [pc EXCEPT ![PSB] = Inside(m)]
    BY <1>5 DEF E_ME
  <2>2. Target(pc') = Target(pc)
    BY <1>2, <1>3, <2>1, TargetStep DEF Inside
  <2>3. /\ IsPda(pda') /\ \A n \in Fields \ {"locked"} : pda'[n] = pda[n]
        /\ pda'.locked = [pda.locked EXCEPT ![m] = TRUE]
    BY <1>1, <2>1 DEF Settled, IsPda, Fields
  <2>4. pda'.failed = pda.failed /\ pda'.abort = pda.abort
    BY <2>3 DEF Fields
  <2>5. Settled(pda', h, Target(pc'))
    BY <1>1, <2>2, <2>3, SettledSame DEF Fields
  <2>6. Protocol(pda', h, pc')
    <3>1. pda'.abort \in [Psb -> BOOLEAN] /\ ~ pda'.failed[PSB] /\ h[PSB] \notin Monitors
      BY <1>1, <1>2, <2>4, Kinds DEF Protocol, Owed, PSB
    <3>2. ASSUME NEW n \in Monitors, ~ pda'.locked[n]
          PROVE  ~ pda.locked[n] /\ ~ Coming(pc, PSB, n)
      BY <1>2, <1>3, <2>3, <3>2
    <3>3. \A y \in Psb \ {PSB} : pc'[y] = pc[y] /\ (pda'.failed[y] => pda.failed[y])
      BY <2>1, <2>4
    <3>4. QED
      BY <1>1, <1>2, <3>1, <3>2, <3>3, ProtocolStep
  <2>7. QED
    BY <1>1, <1>2, <2>3, <2>5, <2>6, ByStay DEF Fields
<1>6. QED
  BY <1>4, <1>5

(* Leaving a monitor: MX and MW. *)
LEMMA LeaveProtocol ==
  ASSUME NEW d, NEW h, NEW q, Protocol(d, h, q), NEW p \in Psb,
         q[p].at \notin {"enter", "reenter"}, NEW e, NEW h2, NEW q2,
         e.failed = d.failed, e.abort = d.abort, e.locked = d.locked,
         \A y \in Psb \ {p} : h2[y] = h[y] /\ q2[y] = q[y], h2[p] \notin Monitors
  PROVE  Protocol(e, h2, q2)
<1>1. ~ e.failed[p] /\ e.abort \in [Psb -> BOOLEAN] /\ \A n \in Monitors : ~ Coming(q, p, n)
  BY DEF Protocol, Coming
<1>2. QED
  BY <1>1, ProtocolStep

(* Exit, whoever calls it, on PDA d, which is pda but for its tails. *)
Exited(h, m, d, e, h2) ==
  /\ h2 \in [Psb -> Queues] /\ h2[PSB] = Ready
  /\ Settled(e, h2, Target(pc)) /\ Protocol(e, h2, pc)
  /\ \A c \in Conditions : ~ Stale(d, c) => ~ Stale(e, c)
  /\ \A c \in Conditions : Members(h2, c) = Members(h, c)
  /\ \A n \in Fields \ {"next", "tail", "cleanup", "locked"} : e[n] = pda[n]
  /\ ~ HasQueue(pda, m) => h2 = h
  /\ Typed(e) /\ Preemptible(e)

(* Exit by the running process: the queues, and what the processes on them   *)
(* are on their way to.                                                      *)
LEMMA RExit ==
  ASSUME IInv, NEW m \in Monitors, NEW h \in [Psb -> Queues], h[PSB] = Ready,
         Settled(pda, h, Target(pc)), Protocol(pda, h, pc),
         NEW d, Settled(d, h, Target(pc)), \A n \in Fields \ {"tail"} : d[n] = pda[n]
  PROVE  \E h2 : Exited(h, m, d, Exit(d, m), h2)
<1> DEFINE e == Exit(d, m)
<1>1. PICK h2 : Settled(e, h2, Target(pc)) /\ ExitsTo(d, h, m, e, h2)
  BY SettledExit
<1>2. /\ d.locked = pda.locked /\ d.abort = pda.abort /\ d.failed = pda.failed
      /\ d.PSB = pda.PSB /\ d.running = pda.running /\ d.preempted = pda.preempted
      /\ d.pri = pda.pri /\ d.context = pda.context /\ d.state = pda.state /\ DOMAIN d = Fields
  BY DEF Fields, Settled, IsPda
<1>3. Moved(pda, d) /\ "locked" \in DOMAIN d /\ d.locked \in [Monitors -> BOOLEAN]
  BY <1>2, Start DEF Moved, Fields, Typed
<1>4. Typed(e) /\ Preemptible(e)
  <2> DEFINE s == [pda EXCEPT !.locked[m] = FALSE]
  <2>1. Typed(s) /\ Preemptible(s)
    BY WithLock
  <2>2. Moved(s, e)
    BY <1>3, Start, ExitUnlocks
  <2>3. QED
    BY <2>1, <2>2, MovedTyped
<1>5. Protocol(e, h2, pc)
  <2>1. Protocol(d, h, pc)
    BY <1>2 DEF Protocol
  <2>2. QED
    BY <1>1, <1>3, <2>1, ProtocolExit
<1>6. \A n \in Fields \ {"next", "tail", "cleanup", "locked"} : e[n] = pda[n]
  BY <1>1 DEF ExitsTo
<1>7. HasQueue(pda, m) <=> Members(h, m) # {}
  BY SettledExit
<1>8. ~ HasQueue(pda, m) => h2 = h
  BY <1>1, <1>7 DEF ExitsTo
<1>9. h2[PSB] = Ready /\ h2 \in [Psb -> Queues]
  <2>1. PSB \in Psb /\ h2 \in [Psb -> Queues]
    BY <1>1, Start DEF Settled
  <2>2. QED
    BY <1>1, <2>1 DEF ExitsTo, Members
<1>10. \A c \in Conditions : ~ Stale(d, c) => ~ Stale(e, c)
  BY <1>1 DEF ExitsTo
<1>11. ASSUME NEW c \in Conditions PROVE Members(h2, c) = Members(h, c)
  <2>1. c # m /\ c # Ready
    BY Kinds
  <2>2. h2 = h \/ \E p \in Members(h, m) : h2 = [h EXCEPT ![p] = Ready]
    BY <1>1 DEF ExitsTo
  <2>3. QED
    BY <2>1, <2>2 DEF Members
<1>12. QED
  BY <1>1, <1>4, <1>5, <1>6, <1>8, <1>9, <1>10, <1>11 DEF Exited

(* What the opcodes start from: a process runs. *)
LEMMA BeginRun ==
  ASSUME RInv, pda.running
  PROVE  /\ IInv /\ PTC \in 0 .. Ticks - 1 /\ PSB \in Psb /\ pc \in [Psb -> PcType]
         /\ Typed(pda) /\ Preemptible(pda) /\ Moved(pda, pda)
         /\ \E h \in [Psb -> Queues] :
              /\ Settled(pda, h, Target(pc)) /\ Scheduled(pda, h) /\ Owed(pda)
              /\ Protocol(pda, h, pc) /\ h[PSB] = Ready
  BY Begin, Start DEF Scheduled, PSB

(* MX. *)
LEMMA RStepMX == ASSUME RInv, IInv', NEW m \in Monitors, E_MX(m) PROVE RInv'
<1> DEFINE e == Exit(pda, m)
<1>1. /\ pda.running /\ pc[PSB] = Inside(m) /\ pc' = [pc EXCEPT ![PSB] = Outside] /\ PTC' = PTC
      /\ pda' = IF HasQueue(pda, m) THEN Reschedule(e, FALSE) ELSE e
  BY DEF E_MX
<1>2. PICK h \in [Psb -> Queues] :
        /\ Settled(pda, h, Target(pc)) /\ Scheduled(pda, h) /\ Owed(pda)
        /\ Protocol(pda, h, pc) /\ h[PSB] = Ready
  BY <1>1, BeginRun
<1>3. IInv /\ PTC \in 0 .. Ticks - 1 /\ PSB \in Psb /\ pc \in [Psb -> PcType]
  BY <1>1, BeginRun
<1>4. PICK h2 : Exited(h, m, pda, e, h2)
  BY <1>2, <1>3, RExit
<1> HIDE DEF e
<1>5. /\ h2 \in [Psb -> Queues] /\ h2[PSB] = Ready
      /\ Settled(e, h2, Target(pc)) /\ Protocol(e, h2, pc)
      /\ \A n \in Fields \ {"next", "tail", "cleanup", "locked"} : e[n] = pda[n]
      /\ ~ HasQueue(pda, m) => h2 = h
      /\ Typed(e)
  BY <1>4 DEF Exited
<1>6. Target(pc') = Target(pc)
  <2>1. pc[PSB].at # "reenter" /\ Outside.at # "reenter"
    BY <1>1 DEF Inside, Outside
  <2>2. QED
    BY <1>1, <1>3, <2>1, TargetStep
<1>7. Protocol(e, h2, pc')
  <2>1. pc[PSB].at \notin {"enter", "reenter"} /\ h2[PSB] \notin Monitors
    BY <1>1, <1>5, Kinds DEF Inside
  <2>2. \A y \in Psb \ {PSB} : h2[y] = h2[y] /\ pc'[y] = pc[y]
    BY <1>1, <1>3
  <2>3. QED
    BY <1>3, <1>5, <2>1, <2>2, LeaveProtocol
<1>8. Owed(e)
  BY <1>2, <1>5 DEF Owed, Fields
<1>9. CASE HasQueue(pda, m)
  BY <1>1, <1>3, <1>5, <1>6, <1>7, <1>8, <1>9, OwedSaves, ByReschedule
<1>10. CASE ~ HasQueue(pda, m)
  <2>1. pda' = e /\ h2 = h
    BY <1>1, <1>5, <1>10
  <2>2. QED
    BY <1>1, <1>2, <1>3, <1>5, <1>6, <1>7, <2>1, ByStay DEF Fields
<1>11. QED
  BY <1>9, <1>10

(* MW leaves the monitor for the condition, whether or not it then sleeps. *)
LEMMA LeaveForCondition ==
  ASSUME IInv, NEW c \in Conditions, pc[PSB] = Inside(MonitorOf[c]),
         pc' = [pc EXCEPT ![PSB] = Reentering(c)],
         NEW e, NEW h, Settled(e, h, Target(pc)), Protocol(e, h, pc), h[PSB] = Ready
  PROVE  /\ Settled(e, h, Target(pc')) /\ Protocol(e, h, pc')
         /\ Target(pc')[PSB] = c /\ e.cleanup[PSB] = Null
<1>1. PSB \in Psb /\ pc \in [Psb -> PcType]
  BY Start
<1>2. /\ Target(pc)[PSB] = Nil /\ Target(pc')[PSB] = c
      /\ \A y \in Psb \ {PSB} : Target(pc')[y] = Target(pc)[y]
  BY <1>1 DEF Target, Inside, Reentering
<1>3. PICK T \in [Queues -> Psb \cup {Null}] : Rings(e, h, Target(pc), T)
  BY DEF Settled, Orderly
<1>4. e.cleanup[PSB] = Null
  BY <1>1, <1>2, <1>3, Kinds DEF Rings
<1>5. Target(pc)[PSB] \notin Conditions /\ h[PSB] \notin Conditions /\ Orderly(e, h, Target(pc))
  BY <1>2, Kinds DEF Settled
<1>6. Orderly(e, h, Target(pc'))
  BY <1>1, <1>2, <1>4, <1>5, OrderlyTarget
<1>7. Settled(e, h, Target(pc'))
  BY <1>6 DEF Settled
<1>8. Protocol(e, h, pc')
  <2>1. pc[PSB].at \notin {"enter", "reenter"} /\ h[PSB] \notin Monitors
    BY Kinds DEF Inside
  <2>2. \A y \in Psb \ {PSB} : h[y] = h[y] /\ pc'[y] = pc[y]
    BY <1>1
  <2>3. QED
    BY <1>1, <2>1, <2>2, LeaveProtocol
<1>9. QED
  BY <1>2, <1>4, <1>7, <1>8

(* MW. *)
LEMMA RStepMW ==
  ASSUME RInv, IInv', NEW c \in Conditions, NEW t \in WaitTicks, E_MW(c, t)
  PROVE  RInv'
<1> DEFINE m == MonitorOf[c]
           d == CleanupCondition(pda, c)
           e == Exit(d, m)
           woken == [e EXCEPT !.wakeup[c] = FALSE]
           asleep == [e EXCEPT !.timeout[PSB] = Deadline(t), !.waiting[PSB] = TRUE]
           v == Target(pc')
<1>1. /\ pda.running /\ pc[PSB] = Inside(m) /\ pc' = [pc EXCEPT ![PSB] = Reentering(c)]
      /\ PTC' = PTC
      /\ IF Aborted(PSB, c) \/ e.wakeup[c]
         THEN \E next \in {e, woken} :
                pda' = IF HasQueue(pda, m) THEN Reschedule(next, FALSE) ELSE next
         ELSE pda' = Reschedule(Requeue(asleep, Ready, c, PSB), FALSE)
  BY DEF E_MW
<1>2. PICK h \in [Psb -> Queues] :
        /\ Settled(pda, h, Target(pc)) /\ Scheduled(pda, h) /\ Owed(pda)
        /\ Protocol(pda, h, pc) /\ h[PSB] = Ready
  BY <1>1, BeginRun
<1>3. /\ IInv /\ PTC \in 0 .. Ticks - 1 /\ PSB \in Psb /\ pc \in [Psb -> PcType]
      /\ m \in Monitors /\ Deadline(t) \in Nat
  <2>1. t \in Nat /\ PTC \in Nat /\ Ticks \in Nat \ {0}
    BY <1>1, BeginRun, ProgramAssumption
  <2>2. Deadline(t) \in Nat
    BY <2>1 DEF Deadline
  <2>3. QED
    BY <1>1, <2>2, BeginRun, ProgramAssumption
<1>4. /\ Settled(d, h, Target(pc)) /\ ~ Stale(d, c)
      /\ \A n \in Fields \ {"tail"} : d[n] = pda[n]
  BY <1>2, SettledCleanup
<1>5. PICK h2 : Exited(h, m, d, e, h2)
  BY <1>2, <1>3, <1>4, RExit
<1> HIDE DEF d, e, m
<1>6. /\ h2 \in [Psb -> Queues] /\ h2[PSB] = Ready
      /\ Settled(e, h2, Target(pc)) /\ Protocol(e, h2, pc) /\ ~ Stale(e, c)
      /\ \A n \in Fields \ {"next", "tail", "cleanup", "locked"} : e[n] = pda[n]
      /\ ~ HasQueue(pda, m) => h2 = h
      /\ Typed(e)
  BY <1>4, <1>5 DEF Exited
<1>7. /\ Settled(e, h2, v) /\ Protocol(e, h2, pc') /\ v[PSB] = c /\ e.cleanup[PSB] = Null
  BY <1>1, <1>3, <1>6, LeaveForCondition DEF m
<1>8. Owed(e)
  BY <1>2, <1>6 DEF Owed, Fields
<1>9. /\ IsPda(e) /\ Orderly(e, h2, v) /\ Marked(e, h2) /\ Stored(e) /\ Moved(e, e)
  BY <1>6, <1>7 DEF Settled, Typed, Moved
<1> HIDE DEF v
<1>10. CASE Aborted(PSB, c) \/ e.wakeup[c]
  <2>1. PICK next \in {e, woken} :
          pda' = IF HasQueue(pda, m) THEN Reschedule(next, FALSE) ELSE next
    BY <1>1, <1>10
  <2>2. /\ IsPda(next) /\ \A n \in Fields \ {"wakeup"} : next[n] = e[n]
        /\ next.wakeup \in {e.wakeup, [e.wakeup EXCEPT ![c] = FALSE]}
    BY <1>9, <2>1 DEF IsPda, Fields
  <2>3. Moved(e, next)
    <3>1. \A n \in Fields \ {"wakeup"} : n \in DOMAIN next
      BY <2>2 DEF IsPda
    <3>2. QED
      BY <2>2, <3>1 DEF Moved, Fields
  <2>4. Typed(next)
    BY <1>6, <2>3, MovedTyped
  <2>5. /\ next.next = e.next /\ next.pri = e.pri /\ next.cleanup = e.cleanup
        /\ next.tail = e.tail /\ next.waiting = e.waiting /\ next.timeout = e.timeout
        /\ next.abort = e.abort /\ next.failed = e.failed /\ next.locked = e.locked
        /\ next.preempted = e.preempted /\ next.running = e.running /\ next.PSB = e.PSB
        /\ DOMAIN next = Fields
    BY <2>2 DEF Fields, IsPda
  <2>6. Settled(next, h2, v)
    <3>1. Orderly(next, h2, v)
      BY <1>9, <2>5, OrderlySame
    <3>2. Stored(next)
      <4>1. e.wakeup \in [Conditions -> BOOLEAN] /\ \A x \in Conditions : e.wakeup[x] => e.tail[x] = Null
        BY <1>9 DEF Stored
      <4>2. /\ next.wakeup \in [Conditions -> BOOLEAN]
            /\ \A x \in Conditions : next.wakeup[x] => e.wakeup[x]
        BY <2>2, <4>1
      <4>3. next.tail = e.tail
        BY <2>5
      <4>4. QED
        BY <4>1, <4>2, <4>3 DEF Stored
    <3>3. QED
      BY <1>6, <1>9, <2>2, <2>5, <3>1, <3>2 DEF Settled, Marked
  <2>7. Protocol(next, h2, pc') /\ Owed(next)
    BY <1>7, <1>8, <2>5 DEF Protocol, Owed
  <2>8. CASE HasQueue(pda, m)
    BY <1>1, <1>3, <1>6, <2>1, <2>4, <2>6, <2>7, <2>8, OwedSaves, ByReschedule DEF v
  <2>9. CASE ~ HasQueue(pda, m)
    <3>1. pda' = next /\ h2 = h
      BY <1>6, <2>1, <2>9
    <3>2. \A n \in {"pri", "preempted", "failed", "state", "PSB", "running"} : pda'[n] = pda[n]
      BY <1>6, <2>2, <3>1 DEF Fields
    <3>3. QED
      BY <1>1, <1>2, <1>3, <2>6, <2>7, <3>1, <3>2, ByStay DEF v
  <2>10. QED
    BY <2>8, <2>9
<1>11. CASE ~ (Aborted(PSB, c) \/ e.wakeup[c])
  <2> DEFINE g == Requeue(asleep, h2[PSB], c, PSB)
             h3 == [h2 EXCEPT ![PSB] = c]
  <2>1. pda' = Reschedule(g, FALSE)
    BY <1>1, <1>6, <1>11
  <2>2. /\ IsPda(asleep) /\ \A n \in Fields \ {"timeout", "waiting"} : asleep[n] = e[n]
        /\ asleep.timeout = [e.timeout EXCEPT ![PSB] = Deadline(t)]
        /\ asleep.waiting = [e.waiting EXCEPT ![PSB] = TRUE]
    BY <1>9 DEF IsPda, Fields
  <2> HIDE DEF asleep
  <2>3. /\ asleep.next = e.next /\ asleep.pri = e.pri /\ asleep.cleanup = e.cleanup
        /\ asleep.tail = e.tail /\ asleep.wakeup = e.wakeup /\ DOMAIN asleep = Fields
    BY <2>2 DEF Fields, IsPda
  <2>4. Orderly(asleep, h2, v) /\ Stored(asleep) /\ ~ Stale(asleep, c) /\ asleep.cleanup[PSB] = Null
    BY <1>6, <1>7, <1>9, <2>3, OrderlySame DEF Stored, Stale
  <2>5. Marked(asleep, h3)
    BY <1>3, <1>6, <1>9, <2>2, Kinds DEF Marked
  <2>6. ~ asleep.wakeup[c] /\ c \in Queues /\ h2[PSB] \notin Conditions
    BY <1>6, <1>11, <2>3, Kinds
  <2>7. Moved(e, g)
    <3>1. Moved(e, asleep)
      BY <2>2 DEF Moved, Fields, IsPda
    <3>2. QED
      BY <3>1, MovedRequeue
  <2>8. Settled(g, h3, v) /\ Relinked(asleep, g)
    <3> HIDE DEF g, h3
    <3>1. c \in Conditions => ~ Stale(asleep, c) /\ asleep.cleanup[PSB] = Null /\ v[PSB] = c
                              /\ ~ asleep.wakeup[c]
      BY <1>7, <2>4, <2>6
    <3>2. h2[PSB] \in Conditions => ~ Stale(asleep, h2[PSB])
      BY <2>6
    <3>3. QED
      BY <1>3, <1>6, <2>2, <2>4, <2>5, <2>6, <3>1, <3>2, MoveTold DEF g, h3
  <2> HIDE DEF g
  <2>9. Typed(g)
    BY <1>6, <2>7, MovedTyped
  <2>10. /\ g.failed = e.failed /\ g.abort = e.abort /\ g.locked = e.locked
         /\ g.preempted = e.preempted /\ g.running = e.running /\ g.PSB = e.PSB
    BY <2>2, <2>8 DEF Relinked, Fields
  <2>11. Owed(g)
    BY <1>8, <2>10 DEF Owed
  <2>12. Protocol(g, h3, pc')
    <3>1. pc[PSB].at \notin {"enter", "reenter"} /\ h3[PSB] \notin Monitors
      BY <1>1, <1>3, <1>6, Kinds DEF Inside
    <3>2. \A y \in Psb \ {PSB} : h3[y] = h2[y] /\ pc'[y] = pc[y]
      BY <1>1, <1>3
    <3> HIDE DEF h3
    <3>3. QED
      BY <1>3, <1>6, <2>10, <3>1, <3>2, LeaveProtocol
  <2>13. h3 \in [Psb -> Queues]
    BY <1>6, Kinds
  <2> HIDE DEF h3
  <2>14. QED
    BY <1>1, <1>3, <2>1, <2>8, <2>9, <2>11, <2>12, <2>13, OwedSaves, ByReschedule DEF v
<1>12. QED
  BY <1>10, <1>11

(* MR. *)
LEMMA RStepMR == ASSUME RInv, IInv', NEW c \in Conditions, E_MR(c) PROVE RInv'
<1> DEFINE m == MonitorOf[c]
           d == CleanupCondition(pda, c)
           left == [d EXCEPT !.cleanup[PSB] = Null]
           v == Target(pc')
<1>1. /\ pda.running /\ pc[PSB] = Reentering(c) /\ PTC' = PTC
      /\ \/ pda.locked[m] /\ pda' = EnterFailed(pda, m) /\ pc' = pc
         \/ /\ ~ pda.locked[m] /\ pda' = [left EXCEPT !.abort[PSB] = FALSE]
            /\ pc' = [pc EXCEPT ![PSB] = Entering(m)]
         \/ /\ ~ pda.locked[m] /\ pda' = [left EXCEPT !.locked[m] = TRUE]
            /\ pc' = [pc EXCEPT ![PSB] = Inside(m)]
  BY DEF E_MR
<1>2. PICK h \in [Psb -> Queues] :
        /\ Settled(pda, h, Target(pc)) /\ Scheduled(pda, h) /\ Owed(pda)
        /\ Protocol(pda, h, pc) /\ h[PSB] = Ready
  BY <1>1, BeginRun
<1>3. /\ IInv /\ PTC \in 0 .. Ticks - 1 /\ PSB \in Psb /\ pc \in [Psb -> PcType]
      /\ m \in Monitors /\ pda.locked \in [Monitors -> BOOLEAN]
  BY <1>1, BeginRun, ProgramAssumption DEF Typed
<1>4. Coming(pc, PSB, m) /\ \A n \in Monitors : Coming(pc, PSB, n) => n = m
  BY <1>1 DEF Coming, Reentering
<1>5. CASE pda.locked[m] /\ pda' = EnterFailed(pda, m) /\ pc' = pc
  <2>1. Target(pc') = Target(pc) /\ Coming(pc', PSB, m)
    BY <1>4, <1>5 DEF Coming
  <2>2. \A y \in Psb \ {PSB} : pc'[y] = pc[y]
    BY <1>5
  <2> HIDE DEF m
  <2>3. QED
    BY <1>1, <1>3, <1>4, <1>5, <2>1, <2>2, StepEnterFailed
<1>6. CASE /\ ~ pda.locked[m]
           /\ \/ /\ pda' = [left EXCEPT !.abort[PSB] = FALSE]
                 /\ pc' = [pc EXCEPT ![PSB] = Entering(m)]
              \/ /\ pda' = [left EXCEPT !.locked[m] = TRUE]
                 /\ pc' = [pc EXCEPT ![PSB] = Inside(m)]
  <2>1. /\ Settled(d, h, Target(pc)) /\ ~ Stale(d, c)
        /\ \A n \in Fields \ {"tail"} : d[n] = pda[n]
    BY <1>2, SettledCleanup
  <2>2. IsPda(d) /\ DOMAIN d = Fields /\ d.cleanup \in [Psb -> Psb \cup {Null}]
    BY <2>1, SettledFields DEF Settled
  <2> HIDE DEF d
  <2>3. /\ IsPda(pda') /\ \A n \in Fields \ {"cleanup", "abort", "locked"} : pda'[n] = d[n]
        /\ pda'.cleanup = [d.cleanup EXCEPT ![PSB] = Null]
        /\ pda'.abort \in {d.abort, [d.abort EXCEPT ![PSB] = FALSE]}
        /\ pda'.locked \in {d.locked, [d.locked EXCEPT ![m] = TRUE]}
        /\ pc'[PSB] = Entering(m) \/ pda'.locked = [d.locked EXCEPT ![m] = TRUE]
    <3>1. CASE /\ pda' = [left EXCEPT !.abort[PSB] = FALSE]
               /\ pc' = [pc EXCEPT ![PSB] = Entering(m)]
      <4>1. pc'[PSB] = Entering(m)
        BY <1>3, <3>1
      <4>2. QED
        BY <2>2, <3>1, <4>1 DEF IsPda, Fields
    <3>2. CASE pda' = [left EXCEPT !.locked[m] = TRUE]
      BY <2>2, <3>2 DEF IsPda, Fields
    <3>3. QED
      BY <1>6, <3>1, <3>2
  <2>4. /\ pda'.next = d.next /\ pda'.pri = d.pri /\ pda'.tail = d.tail
        /\ pda'.waiting = d.waiting /\ pda'.timeout = d.timeout /\ pda'.wakeup = d.wakeup
        /\ DOMAIN pda' = Fields /\ pda'.failed = pda.failed
        /\ d.abort = pda.abort /\ d.locked = pda.locked
    BY <2>1, <2>3 DEF Fields, IsPda
  <2>5. /\ Target(pc)[PSB] = c /\ h[PSB] \notin Conditions
        /\ \A y \in Psb \ {PSB} : v[y] = Target(pc)[y] /\ pc'[y] = pc[y]
        /\ v[PSB] = Nil
    <3>1. Target(pc)[PSB] = c
      BY <1>1, <1>3 DEF Target, Reentering
    <3>2. /\ \A y \in Psb \ {PSB} : pc'[y] = pc[y]
          /\ pc'[PSB].at # "reenter"
      BY <1>3, <1>6 DEF Entering, Inside
    <3>3. QED
      BY <1>2, <1>3, <3>1, <3>2, Kinds DEF Target
  <2>6. Orderly(d, h, Target(pc)) /\ Marked(d, h) /\ Stored(d)
    BY <2>1 DEF Settled
  <2> DEFINE w == Target(pc)
  <2>7. Orderly(pda', h, w)
    <3>1. w[PSB] \in Conditions => ~ Stale(d, w[PSB])
      BY <2>1, <2>5
    <3> HIDE DEF w
    <3>2. Orderly(d, h, w)
      BY <2>6 DEF w
    <3>3. /\ PSB \in Psb /\ h[PSB] \notin Conditions /\ DOMAIN pda' = Fields
          /\ pda'.next = d.next /\ pda'.pri = d.pri /\ pda'.tail = d.tail
          /\ pda'.cleanup = [d.cleanup EXCEPT ![PSB] = Null]
      BY <1>3, <2>3, <2>4, <2>5
    <3>4. QED
      BY <3>1, <3>2, <3>3, OrderlyForget
  <2>8. pda'.cleanup[PSB] = Null /\ ~ Stale(pda', c)
    BY <1>3, <2>1, <2>2, <2>3, <2>4 DEF Stale
  <2>9. Orderly(pda', h, v)
    <3>1. w[PSB] \in Conditions => ~ Stale(pda', w[PSB])
      BY <2>5, <2>8
    <3>2. \A y \in Psb \ {PSB} : v[y] = w[y]
      BY <2>5
    <3> HIDE DEF v, w
    <3>3. QED
      BY <1>3, <2>5, <2>7, <2>8, <3>1, <3>2, OrderlyTarget
  <2>10. Settled(pda', h, v)
    BY <1>2, <2>3, <2>4, <2>6, <2>9 DEF Settled, Marked, Stored
  <2>11. Protocol(pda', h, pc')
    <3>1. pda'.abort \in [Psb -> BOOLEAN]
      <4>1. d.abort \in [Psb -> BOOLEAN]
        BY <1>2, <2>4 DEF Protocol
      <4>2. QED
        BY <1>3, <2>3, <4>1
    <3>2. ~ pda'.failed[PSB] /\ h[PSB] \notin Monitors
      BY <1>1, <1>2, <1>3, <2>4, Kinds DEF Owed, PSB
    <3>3. ASSUME NEW n \in Monitors, ~ pda'.locked[n]
          PROVE  /\ ~ pda.locked[n]
                 /\ Coming(pc, PSB, n) => Coming(pc', PSB, n)
      <4>1. ~ pda.locked[n]
        BY <1>3, <2>3, <2>4, <3>3
      <4>2. CASE n = m
        <5>1. pc'[PSB] = Entering(m)
          BY <1>3, <2>3, <2>4, <3>3, <4>2
        <5>2. QED
          BY <4>1, <4>2, <5>1 DEF Coming, Entering
      <4>3. CASE n # m
        BY <1>4, <4>1, <4>3
      <4>4. QED
        BY <4>2, <4>3
    <3>4. \A y \in Psb \ {PSB} : pc'[y] = pc[y] /\ (pda'.failed[y] => pda.failed[y])
      BY <2>4, <2>5
    <3> HIDE DEF m
    <3>5. QED
      BY <1>2, <1>3, <2>5, <3>1, <3>2, <3>3, <3>4, ProtocolStep
  <2>12. \A n \in {"pri", "preempted", "failed", "state", "PSB", "running"} : pda'[n] = pda[n]
    BY <2>1, <2>3 DEF Fields
  <2>13. QED
    BY <1>1, <1>2, <1>3, <2>10, <2>11, <2>12, ByStay
<1>7. QED
  BY <1>1, <1>5, <1>6

(* Wakes, timeouts and aborts, with a Reschedule after them. *)
LEMMA ByWoken ==
  ASSUME IInv, IInv', PTC' \in 0 .. Ticks - 1, pc' = pc,
         NEW h, Owed(pda), Protocol(pda, h, pc),
         NEW d, NEW h2, Settled(d, h2, Target(pc)), Woken(pda, h, d, h2), Moved(pda, d),
         NEW preemption \in BOOLEAN, pda' = Reschedule(d, preemption)
  PROVE  RInv'
<1>1. Typed(d) /\ Preemptible(d)
  BY Start, MovedTyped
<1>2. Protocol(d, h2, pc)
  BY ProtocolWoken
<1>3. Owed(d)
  <2>1. /\ d.failed = pda.failed /\ d.preempted = pda.preempted
        /\ d.running = pda.running /\ d.PSB = pda.PSB
    BY DEF Woken, Fields
  <2>2. QED
    BY <2>1 DEF Owed
<1>4. OwedOnSave(d, h2, preemption) /\ h2 \in [Psb -> Queues]
  BY <1>3, OwedSaves DEF Settled
<1>5. Settled(d, h2, Target(pc')) /\ Protocol(d, h2, pc')
  BY <1>2
<1>6. QED
  BY <1>1, <1>4, <1>5, ByReschedule

(* Wakes, timeouts and aborts that leave every process on its queue. *)
LEMMA ByQuiet ==
  ASSUME IInv', PTC' \in 0 .. Ticks - 1, pc' = pc,
         NEW h, Scheduled(pda, h), Owed(pda), Protocol(pda, h, pc),
         Settled(pda', h, Target(pc)), Woken(pda, h, pda', h)
  PROVE  RInv'
<1>1. Protocol(pda', h, pc') /\ Settled(pda', h, Target(pc'))
  BY ProtocolWoken
<1>2. h \in [Psb -> Queues]
  BY DEF Settled
<1>3. \A n \in {"pri", "preempted", "failed", "state", "PSB", "running"} : pda'[n] = pda[n]
  BY DEF Woken, Fields
<1>4. QED
  BY <1>1, <1>2, <1>3, ByStay

(* NC and BC. *)
LEMMA RStepNC ==
  ASSUME RInv, IInv', NEW c \in Conditions, E_NC(c) \/ E_BC(c)
  PROVE  RInv'
<1> DEFINE d == CleanupCondition(pda, c)
<1>1. /\ pda.running /\ PTC' = PTC /\ pc' = pc
      /\ \E e \in {WakeHead(d, c), WakeAll(d, c)} :
           pda' = IF HasQueue(d, c) THEN Reschedule(e, FALSE) ELSE d
  BY DEF E_NC, E_BC
<1>2. PICK h \in [Psb -> Queues] :
        /\ Settled(pda, h, Target(pc)) /\ Scheduled(pda, h) /\ Owed(pda)
        /\ Protocol(pda, h, pc) /\ h[PSB] = Ready
  BY <1>1, BeginRun
<1>3. IInv /\ PTC' \in 0 .. Ticks - 1 /\ Moved(pda, pda)
  BY <1>1, BeginRun
<1>4. Settled(d, h, Target(pc)) /\ Woken(pda, h, d, h) /\ ~ Stale(d, c)
  BY <1>2, SettledCleanup
<1>5. Moved(pda, d)
  BY <1>3, MovedCleanup
<1>6. CASE ~ HasQueue(d, c)
  <2>1. pda' = d
    BY <1>1, <1>6
  <2>2. QED
    BY <1>1, <1>2, <1>3, <1>4, <2>1, ByQuiet
<1>7. CASE HasQueue(d, c) /\ pda' = Reschedule(WakeHead(d, c), FALSE)
  <2> DEFINE e == WakeHead(d, c)
             h2 == [h EXCEPT ![HeadOf(d, c)] = Ready]
  <2>1. Settled(e, h2, Target(pc)) /\ Woken(d, h, e, h2)
    BY <1>4, <1>7, SettledWake
  <2>2. Moved(pda, e)
    BY <1>5, MovedWakeHead
  <2> HIDE DEF d, h2, e
  <2>3. Woken(pda, h, e, h2)
    BY <1>4, <2>1, WokenOn
  <2>4. QED
    BY <1>1, <1>2, <1>3, <1>7, <2>1, <2>2, <2>3, ByWoken DEF e
<1>8. CASE HasQueue(d, c) /\ pda' = Reschedule(WakeAll(d, c), FALSE)
  <2> DEFINE e == WakeAll(d, c)
  <2>1. PICK h2 : Settled(e, h2, Target(pc)) /\ Woken(d, h, e, h2)
    BY <1>4, SettledWakeAll
  <2>2. Moved(pda, e)
    BY <1>5, MovedWakeAll
  <2> HIDE DEF d, e
  <2>3. Woken(pda, h, e, h2)
    BY <1>4, <2>1, WokenOn
  <2>4. QED
    BY <1>1, <1>2, <1>3, <1>8, <2>1, <2>2, <2>3, ByWoken DEF e
<1>9. QED
  BY <1>1, <1>6, <1>7, <1>8

(* Abort. *)
LEMMA RStepAbort == ASSUME RInv, IInv', NEW p \in Psb, Abort(p) PROVE RInv'
<1> DEFINE flagged == [pda EXCEPT !.abort[p] = TRUE]
           asleep == [flagged EXCEPT !.waiting[p] = FALSE, !.timeout[p] = 0]
<1>1. /\ pda.running /\ PTC' = PTC /\ pc' = pc
      /\ \/ pda.waiting[p] /\ pda' = Reschedule(Requeue(asleep, Nil, Ready, p), FALSE)
         \/ pda' = flagged
  BY DEF Abort
<1>2. PICK h \in [Psb -> Queues] :
        /\ Settled(pda, h, Target(pc)) /\ Scheduled(pda, h) /\ Owed(pda)
        /\ Protocol(pda, h, pc) /\ h[PSB] = Ready
  BY <1>1, BeginRun
<1>3. IInv /\ PTC' \in 0 .. Ticks - 1 /\ Moved(pda, pda)
  BY <1>1, BeginRun
<1>4. /\ IsPda(flagged) /\ \A n \in Fields \ {"abort"} : flagged[n] = pda[n]
      /\ flagged.abort = [pda.abort EXCEPT ![p] = TRUE]
  BY <1>2 DEF Settled, IsPda, Fields
<1>5. Settled(flagged, h, Target(pc))
  BY <1>2, <1>4, SettledSame DEF Fields
<1>6. Moved(pda, flagged) /\ Moved(pda, asleep)
  BY <1>3 DEF Moved
<1> DEFINE e == Requeue(asleep, Nil, Ready, p)
<1>7. Protocol(flagged, h, pc)
  <2>1. /\ flagged.abort \in [Psb -> BOOLEAN] /\ flagged.failed = pda.failed
        /\ flagged.locked = pda.locked
    BY <1>2, <1>4 DEF Fields, Protocol
  <2> HIDE DEF flagged
  <2>2. QED
    BY <1>2, <2>1 DEF Protocol
<1>8. CASE pda' = flagged
  <2>1. \A n \in {"pri", "preempted", "failed", "state", "PSB", "running"} : pda'[n] = pda[n]
    BY <1>4, <1>8 DEF Fields
  <2>2. Settled(pda', h, Target(pc')) /\ Protocol(pda', h, pc')
    BY <1>1, <1>5, <1>7, <1>8
  <2> HIDE DEF flagged
  <2>3. QED
    BY <1>2, <1>3, <2>1, <2>2, ByStay
<1>9. CASE pda.waiting[p] /\ pda' = Reschedule(e, FALSE)
  <2> DEFINE h2 == [h EXCEPT ![p] = Ready]
  <2>1. h[p] \in Conditions
    BY <1>2, <1>9 DEF Settled, Marked
  <2>2. Settled(e, h2, Target(pc)) /\ Woken(flagged, h, e, h2)
    <3> HIDE DEF flagged
    <3>1. QED
      BY <1>5, <2>1, SettledLeave
  <2>3. Moved(pda, e)
    BY <1>6, MovedRequeue
  <2>4. Typed(e)
    BY <1>3, <2>3, Start, MovedTyped
  <2>5. flagged.failed = pda.failed /\ flagged.preempted = pda.preempted
    BY <1>4 DEF Fields
  <2>6. e.failed = flagged.failed /\ e.preempted = flagged.preempted
    BY <2>2 DEF Woken, Fields
  <2>7. e.running = pda.running /\ e.PSB = pda.PSB
    BY <2>3 DEF Moved
  <2> HIDE DEF flagged, e, h2
  <2>8. Owed(e)
    BY <1>2, <2>5, <2>6, <2>7 DEF Owed
  <2>9. Protocol(e, h2, pc)
    BY <1>7, <2>2, ProtocolWoken
  <2>10. h2 \in [Psb -> Queues] /\ OwedOnSave(e, h2, FALSE)
    BY <2>2, <2>8, OwedSaves DEF Settled
  <2>11. Settled(e, h2, Target(pc')) /\ Protocol(e, h2, pc')
    BY <1>1, <2>2, <2>9
  <2>12. QED
    BY <1>3, <1>9, <2>4, <2>10, <2>11, ByReschedule
<1>10. QED
  BY <1>1, <1>8, <1>9

(* A step that moves processes between queues, with a Reschedule after it. *)
LEMMA ByMoved ==
  ASSUME IInv, IInv', PTC' \in 0 .. Ticks - 1, pc' = pc, Owed(pda),
         NEW d, NEW h, Settled(d, h, Target(pc)), Protocol(d, h, pc), Moved(pda, d),
         d.failed = pda.failed,
         NEW preemption \in BOOLEAN, pda' = Reschedule(d, preemption)
  PROVE  RInv'
<1>1. Typed(d) /\ Preemptible(d)
  BY Start, MovedTyped
<1>2. d.running = pda.running /\ d.PSB = pda.PSB /\ d.preempted = pda.preempted
  BY DEF Moved
<1>3. Owed(d)
  BY <1>2 DEF Owed
<1>4. OwedOnSave(d, h, preemption) /\ h \in [Psb -> Queues]
  BY <1>3, OwedSaves DEF Settled
<1>5. Settled(d, h, Target(pc')) /\ Protocol(d, h, pc')
  OBVIOUS
<1>6. QED
  BY <1>1, <1>4, <1>5, ByReschedule

(* A ready or parked process goes to a pool, a fault queue, or ready. *)
Parked(h, d, p, dst, e) ==
  /\ Settled(e, [h EXCEPT ![p] = dst], Target(pc))
  /\ Protocol(e, [h EXCEPT ![p] = dst], pc)
  /\ Moved(d, e) /\ e.failed = d.failed

(* Moving a process between the ready list and queues outside monitors and   *)
(* conditions disturbs no other process.                                     *)
LEMMA Park ==
  ASSUME NEW h, Settled(pda, h, Target(pc)), Protocol(pda, h, pc), IInv,
         NEW p \in Psb, NEW dst \in {Ready} \cup PlainQueues, h[p] \in {Ready} \cup PlainQueues
  PROVE  Parked(h, pda, p, dst, Requeue(pda, h[p], dst, p))
<1> DEFINE e == Requeue(pda, h[p], dst, p)
           h2 == [h EXCEPT ![p] = dst]
<1>1. /\ dst \in Queues /\ dst \notin Conditions /\ dst \notin Monitors
      /\ h[p] \notin Conditions /\ h[p] \notin Monitors
  BY Kinds
<1>2. IsPda(pda) /\ Orderly(pda, h, Target(pc)) /\ Marked(pda, h) /\ Stored(pda)
      /\ h \in [Psb -> Queues]
  BY DEF Settled
<1>3. Marked(pda, h2)
  BY <1>1, <1>2 DEF Marked
<1>4. Settled(e, h2, Target(pc)) /\ Relinked(pda, e)
  BY <1>1, <1>2, <1>3, MoveTold
<1>5. Moved(pda, e)
  BY Start, MovedRequeue
<1>6. e.failed = pda.failed /\ e.abort = pda.abort /\ e.locked = pda.locked
  BY <1>4 DEF Relinked, Fields
<1>7. h2[p] = dst /\ \A y \in Psb \ {p} : h2[y] = h[y]
  BY <1>2
<1> HIDE DEF e, h2
<1>8. Protocol(e, h2, pc)
  <2>1. /\ e.abort \in [Psb -> BOOLEAN]
        /\ e.failed[p] => pc[p].at \in {"enter", "reenter"} /\ h2[p] \notin Conditions
    BY <1>1, <1>6, <1>7 DEF Protocol
  <2>2. \A y \in Psb \ {p} : h2[y] = h[y] /\ pc[y] = pc[y] /\ (e.failed[y] => pda.failed[y])
    BY <1>6, <1>7
  <2>3. h2[p] \notin Monitors /\ h2[p] \notin Conditions
    BY <1>1, <1>7
  <2>4. QED
    BY <1>6, <2>1, <2>2, <2>3, ProtocolStep
<1>9. QED
  BY <1>4, <1>5, <1>6, <1>8 DEF Parked, e, h2

(* REQ finds the process on the queue it names. *)
LEMMA Requested ==
  ASSUME NEW h, NEW w, Settled(pda, h, w), h[PSB] = Ready,
         NEW src \in {Ready} \cup PlainQueues, NEW p \in Psb,
         (src = Ready /\ p = PSB) \/ p \in Ring(pda, src)
  PROVE  h[p] = src
<1>1. PICK T \in [Queues -> Psb \cup {Null}] : Rings(pda, h, w, T)
  BY DEF Settled, Orderly
<1>2. Ring(pda, src) = Members(h, src)
  BY <1>1, Kinds, FreshRing
<1>3. QED
  BY <1>2 DEF Members

(* REQ. *)
LEMMA RStepREQ ==
  ASSUME RInv, IInv', NEW src \in {Ready} \cup PlainQueues, NEW dst \in {Ready} \cup PlainQueues,
         NEW p \in Psb, E_REQ(src, dst, p)
  PROVE  RInv'
<1>1. /\ pda.running /\ PTC' = PTC /\ pc' = pc
      /\ \/ src = Ready /\ p = PSB
         \/ p \in Ring(pda, src)
      /\ pda' = Reschedule(Requeue(pda, src, dst, p), FALSE)
  BY DEF E_REQ
<1>2. PICK h \in [Psb -> Queues] :
        /\ Settled(pda, h, Target(pc)) /\ Scheduled(pda, h) /\ Owed(pda)
        /\ Protocol(pda, h, pc) /\ h[PSB] = Ready
  BY <1>1, BeginRun
<1>3. IInv /\ PTC' \in 0 .. Ticks - 1
  BY <1>1, BeginRun
<1>4. h[p] = src
  BY <1>1, <1>2, Requested
<1> DEFINE e == Requeue(pda, src, dst, p)
           h2 == [h EXCEPT ![p] = dst]
<1>5. /\ Settled(e, h2, Target(pc)) /\ Protocol(e, h2, pc)
      /\ Moved(pda, e) /\ e.failed = pda.failed
  <2>1. Parked(h, pda, p, dst, Requeue(pda, h[p], dst, p))
    BY <1>2, <1>3, <1>4, Park
  <2>2. QED
    BY <1>4, <2>1 DEF Parked
<1>6. pda' = Reschedule(e, FALSE)
  BY <1>1
<1> HIDE DEF e, h2
<1>7. QED
  BY <1>1, <1>2, <1>3, <1>5, <1>6, ByMoved

(* A fault. *)
LEMMA RStepFault ==
  ASSUME RInv, IInv', NEW q \in DOMAIN FaultConditions, FaultStep(q)
  PROVE  RInv'
<1> DEFINE e == Requeue(pda, Ready, q, PSB)
           g == NotifyWakeup(e, FaultConditions[q])
<1>1. pda.running /\ PTC' = PTC /\ pc' = pc /\ pda' = Reschedule(g, TRUE)
  BY DEF FaultStep, Fault, PSB
<1>2. PICK h \in [Psb -> Queues] :
        /\ Settled(pda, h, Target(pc)) /\ Scheduled(pda, h) /\ Owed(pda)
        /\ Protocol(pda, h, pc) /\ h[PSB] = Ready
  BY <1>1, BeginRun
<1>3. /\ IInv /\ PTC' \in 0 .. Ticks - 1 /\ PSB \in Psb
      /\ q \in PlainQueues /\ FaultConditions[q] \in Conditions
  BY <1>1, BeginRun, ProgramAssumption
<1> DEFINE h1 == [h EXCEPT ![PSB] = q]
<1>4. /\ Settled(e, h1, Target(pc)) /\ Protocol(e, h1, pc)
      /\ Moved(pda, e) /\ e.failed = pda.failed
  <2>1. Parked(h, pda, PSB, q, Requeue(pda, h[PSB], q, PSB))
    BY <1>2, <1>3, Park
  <2>2. QED
    BY <1>2, <2>1 DEF Parked
<1>5. Moved(pda, g)
  BY <1>4, MovedNotify
<1> HIDE DEF e, h1
<1>6. PICK h2 : Settled(g, h2, Target(pc)) /\ Woken(e, h1, g, h2)
  BY <1>3, <1>4, SettledNotify
<1>7. g.failed = pda.failed
  BY <1>4, <1>6 DEF Woken, Fields
<1> HIDE DEF g
<1>8. Protocol(g, h2, pc)
  BY <1>4, <1>6, ProtocolWoken
<1>9. QED
  BY <1>1, <1>2, <1>3, <1>5, <1>6, <1>7, <1>8, ByMoved

(* SPP. *)
LEMMA RStepSPP == ASSUME RInv, IInv', NEW k \in SettablePriorities, E_SPP(k) PROVE RInv'
<1> DEFINE s == [pda EXCEPT !.pri[PSB] = k]
           e == Requeue(s, Ready, Ready, PSB)
<1>1. pda.running /\ PTC' = PTC /\ pc' = pc /\ pda' = Reschedule(e, FALSE)
  BY DEF E_SPP
<1>2. PICK h \in [Psb -> Queues] :
        /\ Settled(pda, h, Target(pc)) /\ Scheduled(pda, h) /\ Owed(pda)
        /\ Protocol(pda, h, pc) /\ h[PSB] = Ready
  BY <1>1, BeginRun
<1>3. IInv /\ PTC' \in 0 .. Ticks - 1 /\ PSB \in Psb /\ k \in Priority /\ Typed(pda)
  BY <1>1, BeginRun, ProgramAssumption
<1>4. Settled(e, h, Target(pc)) /\ Relinked(s, e) /\ IsPda(s)
  BY <1>2, <1>3, SettledRank
<1>5. /\ \A n \in Fields \ {"pri"} : s[n] = pda[n]
      /\ s.pri = [pda.pri EXCEPT ![PSB] = k]
  BY <1>2 DEF Settled, IsPda, Fields
<1>6. Typed(s) /\ Moved(s, s)
  <2>1. /\ s.locked = pda.locked /\ s.PSB = pda.PSB /\ s.running = pda.running
        /\ s.preempted = pda.preempted /\ s.context = pda.context /\ s.state = pda.state
        /\ DOMAIN s = Fields
    BY <1>4, <1>5 DEF Fields, IsPda
  <2>2. s.pri \in [Psb -> Priority]
    BY <1>3, <1>5 DEF Typed
  <2> HIDE DEF s
  <2>3. {"locked", "PSB", "running", "preempted", "pri", "context", "state"} \subseteq DOMAIN s
    BY <2>1 DEF Fields
  <2>4. QED
    BY <1>3, <2>1, <2>2, <2>3 DEF Typed, Moved
<1>7. Typed(e)
  BY <1>6, MovedRequeue, MovedTyped
<1>8. /\ e.failed = pda.failed /\ e.preempted = pda.preempted /\ e.running = pda.running
      /\ e.PSB = pda.PSB /\ e.abort = pda.abort /\ e.locked = pda.locked
  BY <1>4, <1>5 DEF Relinked, Fields
<1> HIDE DEF s, e
<1>9. Owed(e) /\ Protocol(e, h, pc')
  BY <1>1, <1>2, <1>8 DEF Owed, Protocol
<1>10. Settled(e, h, Target(pc'))
  BY <1>1, <1>4
<1>11. QED
  BY <1>1, <1>2, <1>3, <1>7, <1>9, <1>10, OwedSaves, ByReschedule

(* Interrupts and a timer tick. *)
LEMMA RStepPreempt ==
  ASSUME RInv, IInv', NEW wakeups \in SUBSET DOMAIN InterruptConditions, NEW tick \in BOOLEAN,
         Preempt(wakeups, tick)
  PROVE  RInv'
<1> DEFINE d1 == Interrupt(pda, InterruptConditions, wakeups)
           ptc == IF tick THEN NextPTC ELSE PTC
           d2 == IF tick THEN TimeoutScan(d1, ptc) ELSE d1
           interrupt == \E i \in wakeups : Waiters(pda, InterruptConditions[i])
           timeout == tick /\ Expired(d1, ptc) # {}
<1>1. /\ PTC' = ptc /\ pc' = pc
      /\ pda' = IF interrupt \/ timeout THEN Reschedule(d2, TRUE) ELSE d2
  BY DEF Preempt
<1>2. PICK h \in [Psb -> Queues] :
        /\ Settled(pda, h, Target(pc)) /\ Scheduled(pda, h) /\ Owed(pda)
        /\ Protocol(pda, h, pc)
  BY Begin
<1>3. IInv /\ PTC' \in 0 .. Ticks - 1 /\ Moved(pda, pda)
  BY <1>1, Begin, Start, ProgramAssumption DEF NextPTC
<1>4. PICK h1 : /\ Settled(d1, h1, Target(pc)) /\ Woken(pda, h, d1, h1)
                /\ (\A i \in wakeups : Members(h, InterruptConditions[i]) = {}) => h1 = h
  <2>1. /\ InterruptConditions \in Seq(Conditions)
        /\ \A i, j \in DOMAIN InterruptConditions :
             InterruptConditions[i] = InterruptConditions[j] => i = j
    BY ProgramAssumption
  <2>2. Settled(pda, h, Target(pc))
    BY <1>2
  <2>3. \E h1 : Interrupted(pda, h, Target(pc), InterruptConditions, wakeups, d1, h1)
    BY <2>1, <2>2, SettledInterrupt
  <2>4. QED
    BY <2>3 DEF Interrupted
<1>5. Moved(pda, d1)
  BY <1>3, ProgramAssumption, MovedInterrupt
<1> HIDE DEF d1, ptc
<1>6. PICK h2 : /\ Settled(d2, h2, Target(pc)) /\ Woken(pda, h, d2, h2) /\ Moved(pda, d2)
                /\ ~ timeout => h2 = h1
  <2>1. CASE tick
    <3> DEFINE h3 == ScanHomes(d1, h1, ptc)
    <3>1. Settled(d2, h3, Target(pc)) /\ Woken(d1, h1, d2, h3)
      <4>1. Settled(d1, h1, Target(pc))
        BY <1>4
      <4>2. d2 = TimeoutScan(d1, ptc)
        BY <2>1
      <4> HIDE DEF d2
      <4>3. QED
        BY <4>1, <4>2, SettledScan
    <3>2. Moved(pda, d2)
      BY <1>5, <2>1, MovedTimeoutScan
    <3>3. ~ timeout => h3 = h1
      BY <1>4, <2>1 DEF Settled, ScanHomes
    <3> HIDE DEF d2, h3, timeout
    <3>4. Woken(pda, h, d2, h3)
      BY <1>4, <3>1, WokenOn
    <3>5. QED
      BY <3>1, <3>2, <3>3, <3>4
  <2>2. CASE ~ tick
    BY <1>4, <1>5, <2>2
  <2>3. QED
    BY <2>1, <2>2
<1>7. ~ interrupt => \A i \in wakeups : Members(h, InterruptConditions[i]) = {}
  <2>1. SUFFICES ASSUME ~ interrupt, NEW i \in wakeups
                 PROVE  Members(h, InterruptConditions[i]) = {}
    OBVIOUS
  <2>2. InterruptConditions[i] \in Conditions
    BY ProgramAssumption
  <2>3. ~ HasQueue(CleanupCondition(pda, InterruptConditions[i]), InterruptConditions[i])
    BY <2>1 DEF Waiters
  <2>4. QED
    BY <1>2, <2>2, <2>3, SettledCleanup
<1> HIDE DEF d2, interrupt, timeout
<1>8. CASE interrupt \/ timeout
  BY <1>1, <1>2, <1>3, <1>6, <1>8, ByWoken
<1>9. CASE ~ (interrupt \/ timeout)
  <2>1. h2 = h /\ pda' = d2
    BY <1>1, <1>4, <1>6, <1>7, <1>9
  <2>2. QED
    BY <1>1, <1>2, <1>3, <1>6, <2>1, ByQuiet
<1>10. QED
  BY <1>8, <1>9

(* Nothing changes. *)
LEMMA RStepStutter == ASSUME RInv, IInv', UNCHANGED vars PROVE RInv'
<1>1. PTC' \in 0 .. Ticks - 1 /\ \E h \in [Psb -> Queues] : Placed(h)'
  BY DEF RInv, Placed, vars
<1>2. QED
  BY <1>1 DEF RInv

(* Every step keeps the invariant. *)
LEMMA StepRInv == RInv /\ [Next]_vars => RInv'
<1> SUFFICES ASSUME RInv, [Next]_vars PROVE RInv'
  OBVIOUS
<1>1. IInv'
  BY StepIInv DEF RInv
<1>2. CASE \E m \in Monitors : E_ME(m) \/ E_MX(m)
  BY <1>1, <1>2, RStepME, RStepMX
<1>3. CASE \E c \in Conditions : E_MR(c) \/ E_NC(c) \/ E_BC(c)
  BY <1>1, <1>3, RStepMR, RStepNC
<1>4. CASE \E c \in Conditions, t \in WaitTicks : E_MW(c, t)
  BY <1>1, <1>4, RStepMW
<1>5. CASE \E src, dst \in {Ready} \cup PlainQueues, p \in Psb : E_REQ(src, dst, p)
  BY <1>1, <1>5, RStepREQ
<1>6. CASE \E p \in Psb : Abort(p)
  BY <1>1, <1>6, RStepAbort
<1>7. CASE \E pri \in SettablePriorities : E_SPP(pri)
  BY <1>1, <1>7, RStepSPP
<1>8. CASE \E q \in DOMAIN FaultConditions : FaultStep(q)
  BY <1>1, <1>8, RStepFault
<1>9. CASE \E wakeups \in SUBSET DOMAIN InterruptConditions, tick \in BOOLEAN :
             Preempt(wakeups, tick)
  BY <1>1, <1>9, RStepPreempt
<1>10. CASE UNCHANGED vars
  BY <1>1, <1>10, RStepStutter
<1>11. QED
  BY <1>2, <1>3, <1>4, <1>5, <1>6, <1>7, <1>8, <1>9, <1>10 DEF Next

(* At the start the processes are one ring, the ready queue. *)
LEMMA InitCycle ==
  ASSUME NEW f, f = [p \in Psb |-> IF p = NPsb THEN 1 ELSE p + 1]
  PROVE  Cycle(f, Psb)
<1>1. NPsb \in Nat \ {0} /\ Psb = 1 .. NPsb
  BY SizesAssumption DEF Psb
<1>2. (\A x \in Psb : f[x] \in Psb) /\ (\A x, y \in Psb : f[x] = f[y] => x = y)
  BY <1>1
<1>3. ASSUME NEW A \in SUBSET Psb, A # {}, \A x \in A : f[x] \in A
      PROVE  A = Psb
  <2>1. PICK a \in A : TRUE
    BY <1>3
  <2>2. a \in Nat /\ a <= NPsb /\ NPsb - a \in Nat /\ NPsb - 1 \in Nat
    BY <1>1, <2>1
  <2> DEFINE Up == {k \in 0 .. NPsb - a : a + k \in A}
             Down == {k \in 0 .. NPsb - 1 : k + 1 \in A}
  <2>3. NPsb \in A
    <3>1. 0 \in Up /\ Up \in SUBSET (0 .. NPsb - a)
      BY <2>1, <2>2
    <3>2. ASSUME NEW k \in 0 .. (NPsb - a) - 1, k \in Up PROVE k + 1 \in Up
      <4>1. a + k \in A /\ f[a + k] = a + (k + 1) /\ k + 1 \in 0 .. NPsb - a
        BY <1>1, <2>2, <3>2
      <4>2. QED
        BY <1>3, <4>1
    <3> HIDE DEF Up
    <3>3. Up = 0 .. NPsb - a
      BY <2>2, <3>1, <3>2, IntervalInduction
    <3>4. NPsb - a \in Up
      BY <2>2, <3>3
    <3>5. a + (NPsb - a) \in A
      BY <3>4 DEF Up
    <3>6. QED
      BY <1>1, <2>2, <3>5
  <2>4. Down = 0 .. NPsb - 1
    <3>1. f[NPsb] = 1
      BY <1>1
    <3>2. 1 \in A
      BY <1>3, <2>3, <3>1
    <3>3. 0 \in Down /\ Down \in SUBSET (0 .. NPsb - 1)
      BY <2>2, <3>2
    <3>4. ASSUME NEW k \in 0 .. (NPsb - 1) - 1, k \in Down PROVE k + 1 \in Down
      <4>1. k + 1 \in A /\ f[k + 1] = (k + 1) + 1 /\ k + 1 \in 0 .. NPsb - 1
        BY <1>1, <3>4
      <4>2. QED
        BY <1>3, <4>1
    <3> HIDE DEF Down
    <3>5. QED
      BY <2>2, <3>3, <3>4, IntervalInduction
  <2>5. ASSUME NEW x \in Psb PROVE x \in A
    <3>1. x - 1 \in 0 .. NPsb - 1 /\ (x - 1) + 1 = x
      BY <1>1
    <3> HIDE DEF Down
    <3>2. x - 1 \in Down
      BY <2>4, <3>1
    <3>3. (x - 1) + 1 \in A
      BY <3>2 DEF Down
    <3>4. QED
      BY <3>1, <3>3
  <2>6. QED
    BY <2>5
<1>4. QED
  BY <1>2, <1>3 DEF Cycle

(* The initial state satisfies the invariant. *)
LEMMA InitRInv == Init => RInv
<1> SUFFICES ASSUME Init PROVE RInv
  OBVIOUS
<1> DEFINE h == [p \in Psb |-> Ready]
           T == [q \in Queues |-> IF q = Ready THEN NPsb ELSE Null]
           w == Target(pc)
<1>1. /\ DOMAIN pda = Fields /\ IsPda(pda)
      /\ pda.next = [p \in Psb |-> IF p = NPsb THEN 1 ELSE p + 1]
      /\ pda.pri = InitPriority /\ pda.state = InitState
      /\ pda.preempted = [p \in Psb |-> FALSE] /\ pda.failed = [p \in Psb |-> FALSE]
      /\ pda.waiting = [p \in Psb |-> FALSE] /\ pda.abort = [p \in Psb |-> FALSE]
      /\ pda.cleanup = [p \in Psb |-> Null] /\ pda.timeout = [p \in Psb |-> 0]
      /\ pda.tail = T /\ pda.wakeup = [c \in Conditions |-> FALSE]
      /\ pda.PSB = 1 /\ pda.running = TRUE
  BY DEF Init, Fields, IsPda
<1>2. /\ PTC = 0 /\ pc = [p \in Psb |-> Outside]
      /\ NPsb \in Nat \ {0} /\ Psb = 1 .. NPsb /\ 1 \in Psb /\ NPsb \in Psb /\ Ticks \in Nat \ {0}
  BY SizesAssumption, ProgramAssumption DEF Init, Psb
<1>3. w = [p \in Psb |-> Nil]
  BY <1>2 DEF Target, Outside
<1>4. Members(h, Ready) = Psb /\ \A q \in Queues \ {Ready} : Members(h, q) = {}
  BY DEF Members
<1>5. RingsTyped(pda, h, T)
  <2>1. pda.next \in [Psb -> Psb]
    BY <1>1, <1>2
  <2>2. pda.pri \in [Psb -> Priority] /\ pda.cleanup \in [Psb -> Psb \cup {Null}]
    BY <1>1, InitAssumption
  <2>3. T \in [Queues -> Psb \cup {Null}] /\ h \in [Psb -> Queues \cup {Nil}]
    BY <1>2, Kinds
  <2> HIDE DEF T, h
  <2>4. QED
    BY <1>1, <2>1, <2>2, <2>3 DEF RingsTyped
<1>6. \A q \in Queues : Queue(pda.next, pda.pri, Members(h, q), T[q])
  <2>1. Queue(pda.next, pda.pri, Psb, NPsb)
    <3>1. Cycle(pda.next, Psb)
      BY <1>1, InitCycle
    <3>2. ASSUME NEW x \in Psb \ {NPsb} PROVE pda.pri[x] >= pda.pri[pda.next[x]]
      <4>1. pda.next[x] = x + 1 /\ x + 1 \in Psb /\ x < x + 1
        BY <1>1, <1>2
      <4>2. QED
        BY <1>1, <4>1, InitAssumption
    <3>3. QED
      BY <1>2, <3>1, <3>2 DEF Queue
  <2>2. ASSUME NEW q \in Queues \ {Ready} PROVE Queue(pda.next, pda.pri, Members(h, q), T[q])
    BY <1>4, QueueEmpty
  <2>3. QED
    BY <1>4, <2>1, <2>2, Kinds
<1>7. \A c \in Conditions : pda.tail[c] = Null /\ ~ Stale(pda, c)
  BY <1>1, Kinds DEF Stale
<1>8. Rings(pda, h, w, T)
  <2>1. \A q \in Queues : pda.tail[q] = T[q]
    BY <1>1
  <2> HIDE DEF h, T, w
  <2>2. \A c \in Conditions : TailFinds(pda, c, Members(h, c), T[c])
    BY <2>1, Kinds DEF TailFinds
  <2>3. \A p \in Psb : h[p] \notin Conditions /\ pda.cleanup[p] = Null
    BY <1>1, Kinds DEF h
  <2>4. QED
    BY <1>5, <1>6, <1>7, <2>1, <2>2, <2>3 DEF Rings
<1>9. Settled(pda, h, w)
  <2>1. T \in [Queues -> Psb \cup {Null}]
    BY <1>2
  <2> HIDE DEF T
  <2>2. Orderly(pda, h, w)
    BY <1>8, <2>1 DEF Orderly
  <2>3. Marked(pda, h)
    BY <1>1, Kinds DEF Marked
  <2>4. Stored(pda) /\ h \in [Psb -> Queues]
    BY <1>1, Kinds DEF Stored
  <2>5. QED
    BY <1>1, <2>2, <2>3, <2>4 DEF Settled
<1>10. Scheduled(pda, h)
  <2>1. ASSUME NEW p \in Psb PROVE pda.pri[p] <= pda.pri[1]
    <3>1. CASE p = 1
      BY <1>1, <1>2, <3>1, InitAssumption, SizesAssumption DEF Priority
    <3>2. CASE p # 1
      <4>1. 1 < p
        BY <1>2, <3>2
      <4>2. InitPriority[1] >= InitPriority[p]
        BY <1>2, <4>1, InitAssumption
      <4>3. InitPriority[1] \in Int /\ InitPriority[p] \in Int
        BY <1>2, InitAssumption, SizesAssumption DEF Priority
      <4>4. QED
        BY <1>1, <4>2, <4>3
    <3>3. QED
      BY <3>1, <3>2
  <2>2. QED
    BY <1>1, <1>2, <2>1 DEF Scheduled, Members
<1>11. Owed(pda)
  BY <1>1 DEF Owed
<1>12. Protocol(pda, h, pc)
  <2>1. \A m \in Monitors : m # Ready /\ Members(h, m) = {}
    BY <1>4, Kinds
  <2>2. QED
    BY <1>1, <2>1, Kinds DEF Protocol
<1> HIDE DEF h, w
<1>13. h \in [Psb -> Queues]
  BY <1>9 DEF Settled
<1>14. Placed(h)
  BY <1>9, <1>10, <1>11, <1>12 DEF Placed, w
<1>15. QED
  BY <1>2, <1>13, <1>14, InitIInv DEF RInv

(* RInv is an invariant. *)
LEMMA AlwaysRInv == Spec => []RInv
  BY InitRInv, StepRInv, PTL DEF Spec

-----------------------------------------------------------------------------
(* What the invariant says of the queues that the code sees. *)

(* Once its cleanup links are followed, queue q holds the processes h says, *)
(* and its last process is T[q].                                            *)
Seen(h, T) ==
  /\ Rings(pda, h, Target(pc), T)
  /\ \A q \in Queues : LiveRing(q) = Members(h, q) /\ LiveTail(q) = T[q]
  /\ \A q \in Queues \ Conditions : Ring(pda, q) = Members(h, q)
  /\ \A m \in Monitors : HasQueue(pda, m) <=> Members(h, m) # {}

(* What the runs read off the links, a ring and its live tail, is the        *)
(* members of the queue and its last.                                        *)
LEMMA SeesRings ==
  ASSUME NEW h \in [Psb -> Queues], NEW T, Rings(pda, h, Target(pc), T)
  PROVE  Seen(h, T)
<1>1. ASSUME NEW q \in Queues \ Conditions
      PROVE  Ring(pda, q) = Members(h, q) /\ pda.tail[q] = T[q]
  BY <1>1, FreshRing, FreshTail
<1>2. ASSUME NEW c \in Conditions
      PROVE  LiveRing(c) = Members(h, c) /\ LiveTail(c) = T[c]
  <2> DEFINE e == CleanupCondition(pda, c)
  <2>1. Rings(e, h, Target(pc), T) /\ e.tail[c] = T[c] /\ ~ Stale(e, c)
    BY CleanupRings
  <2> HIDE DEF e
  <2>2. Ring(e, c) = Members(h, c)
    BY <2>1, FreshRing, Kinds
  <2>3. QED
    BY <2>1, <2>2 DEF LiveRing, LiveTail, e
<1>3. \A q \in Queues : LiveRing(q) = Members(h, q) /\ LiveTail(q) = T[q]
  BY <1>1, <1>2 DEF LiveRing, LiveTail
<1>4. ASSUME NEW m \in Monitors PROVE HasQueue(pda, m) <=> Members(h, m) # {}
  <2>1. pda.tail[m] = T[m] /\ Queue(pda.next, pda.pri, Members(h, m), T[m])
    BY <1>1, Kinds DEF Rings
  <2>2. Members(h, m) \subseteq Psb
    BY DEF Members
  <2>3. QED
    BY <2>1, <2>2, NullNoPsb DEF Queue, HasQueue
<1>5. QED
  BY <1>1, <1>3, <1>4 DEF Seen

(* So it is in every state of the invariant. *)
LEMMA RInvSees ==
  ASSUME RInv
  PROVE  \E h \in [Psb -> Queues], T \in [Queues -> Psb \cup {Null}] : Placed(h) /\ Seen(h, T)
<1>1. PICK h \in [Psb -> Queues] : Placed(h)
  BY DEF RInv
<1>2. PICK T \in [Queues -> Psb \cup {Null}] : Rings(pda, h, Target(pc), T)
  BY <1>1 DEF Placed, Settled, Orderly
<1>3. Seen(h, T)
  BY <1>2, SeesRings
<1>4. QED
  BY <1>1, <1>3

(* The types. *)
LEMMA RInvType == ASSUME RInv PROVE TypeOK
<1>1. PICK h \in [Psb -> Queues] : Placed(h)
  BY DEF RInv
<1>2. /\ IsPda(pda) /\ Marked(pda, h) /\ Stored(pda) /\ Owed(pda)
      /\ pda.next \in [Psb -> Psb] /\ pda.pri \in [Psb -> Priority]
      /\ pda.cleanup \in [Psb -> Psb \cup {Null}] /\ pda.tail \in [Queues -> Psb \cup {Null}]
      /\ pda.abort \in [Psb -> BOOLEAN]
  BY <1>1, SettledFields DEF Placed, Settled, Protocol
<1>3. /\ pda.locked \in [Monitors -> BOOLEAN] /\ pda.PSB \in Psb /\ pda.running \in BOOLEAN
      /\ pda.preempted \in [Psb -> BOOLEAN] /\ pda.state \in [Priority -> Seq(StateVectors)]
      /\ pda.context \in [Psb -> StateVectors \cup {Frame}]
  BY DEF RInv, IInv, Typed
<1>4. /\ pda.waiting \in [Psb -> BOOLEAN] /\ pda.timeout \in [Psb -> Nat]
      /\ pda.wakeup \in [Conditions -> BOOLEAN] /\ pda.failed \in [Psb -> BOOLEAN]
  BY <1>2 DEF Marked, Stored, Owed
<1>5. pda \in PdaType
  BY <1>2, <1>3, <1>4 DEF PdaType, IsPda, Fields
<1>6. QED
  BY <1>5 DEF TypeOK, RInv, IInv

(* The queues partition the processes into rings in priority order, whatever *)
(* stale tails and links timeouts, aborts and faults leave behind.           *)
LEMMA RInvQueues == ASSUME RInv PROVE QueuesSound
<1>1. PICK h \in [Psb -> Queues], T \in [Queues -> Psb \cup {Null}] : Placed(h) /\ Seen(h, T)
  BY RInvSees
<1>2. ASSUME NEW p \in Psb PROVE Cardinality({q \in Queues : p \in LiveRing(q)}) = 1
  <2>1. {q \in Queues : p \in LiveRing(q)} = {h[p]}
    BY <1>1 DEF Seen, Members
  <2>2. QED
    BY <2>1, FS_Singleton
<1>3. pda.running => PSB \in Ring(pda, Ready)
  <2>1. PSB \in Psb
    BY Start DEF RInv
  <2>2. QED
    BY <1>1, <2>1, Kinds DEF Placed, Scheduled, Seen, Members, PSB
<1>4. ASSUME NEW q \in Queues, NEW p \in LiveRing(q) \ {LiveTail(q)}
      PROVE  pda.pri[p] >= pda.pri[pda.next[p]]
  <2>1. p \in Members(h, q) \ {T[q]} /\ Queue(pda.next, pda.pri, Members(h, q), T[q])
    BY <1>1 DEF Seen, Rings
  <2>2. QED
    BY <2>1 DEF Queue
<1>5. QED
  BY <1>2, <1>3, <1>4, RInvType DEF QueuesSound, QueuesPartition, RingsSorted

(* Every process is on exactly one ring, every ring is closed and in         *)
(* priority order from head to tail: whatever stale tails and cleanup links  *)
(* timeouts, aborts and faults leave behind, and whichever procedure of      *)
(* ProcessorThread and Opcode_process moves a process next.                  *)
THEOREM QueuesAlwaysSound == Spec => []QueuesSound
<1>1. RInv => QueuesSound
  BY RInvQueues
<1>2. QED
  BY <1>1, AlwaysRInv, PTL

(* What is owed to a process, the end of its wait or a failed entry, is owed *)
(* as long as it is not told.                                               *)
LEMMA RInvPending == ASSUME RInv PROVE PendingConsistent
<1>1. PICK h \in [Psb -> Queues], T \in [Queues -> Psb \cup {Null}] : Placed(h) /\ Seen(h, T)
  BY RInvSees
<1>2. Marked(pda, h) /\ Owed(pda) /\ Protocol(pda, h, pc)
  BY <1>1 DEF Placed, Settled
<1>3. ASSUME NEW p \in Psb
      PROVE  /\ pda.waiting[p] <=> \E c \in Conditions : p \in LiveRing(c)
             /\ pda.waiting[p] => pc[p].at = "reenter" /\ p \in LiveRing(pc[p].c)
             /\ pda.timeout[p] # 0 => pda.waiting[p]
  <2>1. pda.waiting[p] <=> h[p] \in Conditions
    BY <1>2 DEF Marked
  <2>2. \A q \in Queues : p \in LiveRing(q) <=> h[p] = q
    BY <1>1 DEF Seen, Members
  <2>3. h[p] \in Conditions => Target(pc)[p] = h[p]
    BY <1>1 DEF Seen, Rings
  <2>4. h[p] \in Conditions => pc[p].at = "reenter" /\ pc[p].c = h[p]
    BY <2>3, Kinds DEF Target
  <2>5. QED
    BY <1>2, <2>1, <2>2, <2>4, Kinds DEF Marked
<1>4. FailedWhileRetrying
  BY <1>2 DEF FailedWhileRetrying, Protocol, Owed, Marked, PSB
<1>5. QED
  BY <1>3, <1>4 DEF PendingConsistent, WaitingConsistent

(* The end of a wait and a failed entry are owed to the process until it is  *)
(* told: waiting bits and timeouts agree with the rings, and only a process  *)
(* that retries ME or MR, and does not run, is marked failed.                *)
THEOREM PendingAlwaysConsistent == Spec => []PendingConsistent
<1>1. RInv => PendingConsistent
  BY RInvPending
<1>2. QED
  BY <1>1, AlwaysRInv, PTL

(* The entry queue of an unlocked monitor has a process on its way in that   *)
(* will make the next one ready.                                            *)
LEMMA RInvEntry == ASSUME RInv PROVE NoStrandedEntry
<1>1. PICK h \in [Psb -> Queues], T \in [Queues -> Psb \cup {Null}] : Placed(h) /\ Seen(h, T)
  BY RInvSees
<1>2. SUFFICES ASSUME NEW m \in Monitors, ~ pda.locked[m], HasQueue(pda, m)
               PROVE  \E p \in Psb \ Ring(pda, m) :
                        pc[p].m = m /\ pc[p].at # "in" /\ ~ pda.waiting[p]
  BY DEF NoStrandedEntry
<1>3. Members(h, m) # {}
  BY <1>1, <1>2 DEF Seen
<1>4. PICK p \in Psb : h[p] # m /\ h[p] \notin Conditions /\ Coming(pc, p, m)
  BY <1>1, <1>2, <1>3 DEF Placed, Protocol
<1>5. p \notin Ring(pda, m)
  BY <1>1, <1>4, Kinds DEF Seen, Members
<1>6. ~ pda.waiting[p]
  BY <1>1, <1>4 DEF Placed, Settled, Marked
<1>7. QED
  BY <1>4, <1>5, <1>6 DEF Coming

(* When a monitor with an entry queue is unlocked, some other process is on  *)
(* its way in, whose exit will ready the next: Exit readies one process      *)
(* only.                                                                     *)
THEOREM EntryNeverStranded == Spec => []NoStrandedEntry
<1>1. RInv => NoStrandedEntry
  BY RInvEntry
<1>2. QED
  BY <1>1, AlwaysRInv, PTL

(* No process waits on a condition whose wakeup bit is set. *)
LEMMA RInvWakeup == ASSUME RInv PROVE NoWaiterBesideWakeup
<1>1. PICK h \in [Psb -> Queues], T \in [Queues -> Psb \cup {Null}] : Placed(h) /\ Seen(h, T)
  BY RInvSees
<1>2. SUFFICES ASSUME NEW c \in Conditions, pda.wakeup[c] PROVE LiveRing(c) = {}
  BY DEF NoWaiterBesideWakeup
<1>3. pda.tail[c] = Null /\ ~ Stale(pda, c)
  BY <1>1, <1>2 DEF Placed, Settled, Stored, Stale
<1>4. Queue(pda.next, pda.pri, Members(h, c), Null)
  <2>1. T[c] = Null
    BY <1>1, <1>3, Kinds, FreshTail DEF Seen
  <2>2. QED
    BY <1>1, <2>1, Kinds DEF Seen, Rings
<1>5. Members(h, c) \subseteq Psb
  BY DEF Members
<1>6. Members(h, c) = {}
  BY <1>4, <1>5, NullNoPsb DEF Queue
<1>7. QED
  BY <1>1, <1>6, Kinds DEF Seen

(* A notification kept for the next wait is never kept beside a process that *)
(* already waits: NotifyWakeup would have woken it.                          *)
THEOREM WakeupNeverBesideWaiter == Spec => []NoWaiterBesideWakeup
<1>1. RInv => NoWaiterBesideWakeup
  BY RInvWakeup
<1>2. QED
  BY <1>1, AlwaysRInv, PTL

(* No ready process that could run has a higher priority than the running    *)
(* one, and the processor does not idle beside one.                          *)
LEMMA RInvPriority == ASSUME RInv PROVE HighestPriorityRuns
<1>1. PICK h \in [Psb -> Queues], T \in [Queues -> Psb \cup {Null}] : Placed(h) /\ Seen(h, T)
  BY RInvSees
<1>2. Ring(pda, Ready) = Members(h, Ready)
  BY <1>1, Kinds DEF Seen
<1>3. QED
  BY <1>1, <1>2 DEF Placed, Scheduled, HighestPriorityRuns, PSB

(* After every step the running process has the highest priority of those    *)
(* ready that have, or need no, state vector; the processor idles only if    *)
(* there is none.                                                            *)
THEOREM HighestPriorityAlwaysRuns == Spec => []HighestPriorityRuns
<1>1. RInv => HighestPriorityRuns
  BY RInvPriority
<1>2. QED
  BY <1>1, AlwaysRInv, PTL

-----------------------------------------------------------------------------
(* Wakeup bits. *)

(* No wakeup bit is cleared. *)
KeepsWakeups(d, e) == \A c \in Conditions : d.wakeup[c] => e.wakeup[c]

(* Reschedule leaves wakeup and waiting bits alone. *)
LEMMA RescheduleKeeps ==
  ASSUME NEW d, DOMAIN d = Fields, NEW b
  PROVE  LET e == Reschedule(d, b) IN e.wakeup = d.wakeup /\ e.waiting = d.waiting
<1> DEFINE d1 == IF d.running THEN SaveProcess(d, b) ELSE d
           first == FirstRunnable(d1)
           p == CHOOSE x \in first : TRUE
           e == Reschedule(d, b)
<1>1. e = IF first = {} THEN [d1 EXCEPT !.running = FALSE]
          ELSE [LoadProcess(d1, p) EXCEPT !.PSB = p, !.running = TRUE]
  BY DEF Reschedule
<1>2. DOMAIN d1 = Fields /\ d1.wakeup = d.wakeup /\ d1.waiting = d.waiting
  BY DEF SaveProcess, Fields
<1> HIDE DEF d1, first
<1>3. /\ DOMAIN LoadProcess(d1, p) = Fields
      /\ LoadProcess(d1, p).wakeup = d.wakeup /\ LoadProcess(d1, p).waiting = d.waiting
  <2> HIDE DEF p
  <2>1. QED
    BY <1>2 DEF LoadProcess, Fields
<1> HIDE DEF p, e
<1>4. QED
  BY <1>1, <1>2, <1>3 DEF e, Fields

(* So does Requeue. *)
LEMMA RequeueKeeps ==
  ASSUME NEW d, DOMAIN d = Fields, NEW src, NEW dst, NEW p
  PROVE  LET e == Requeue(d, src, dst, p)
         IN  DOMAIN e = Fields /\ e.wakeup = d.wakeup /\ e.waiting = d.waiting
<1> DEFINE d1 == Dequeue(d, src, p)
<1>1. Relinked(d, d1)
  BY DequeueRelinks
<1>2. Relinked(d1, Enqueue(d1, dst, p))
  BY <1>1, EnqueueRelinks DEF Relinked
<1> HIDE DEF d1
<1>3. Relinked(d, Enqueue(d1, dst, p))
  BY <1>1, <1>2 DEF Relinked
<1>4. QED
  BY <1>3 DEF Relinked, Fields, Requeue, d1

(* A step that ends with a Reschedule of d keeps the wakeup bits d keeps. *)
LEMMA ThenReschedule ==
  ASSUME NEW d, DOMAIN d = Fields, KeepsWakeups(pda, d), NEW b, pda' = Reschedule(d, b)
  PROVE  KeepsWakeups(pda, pda')
  BY RescheduleKeeps DEF KeepsWakeups

(* EnterFailed keeps them. *)
LEMMA EnterFailedKeeps ==
  ASSUME DOMAIN pda = Fields, NEW m, pda' = EnterFailed(pda, m)
  PROVE  KeepsWakeups(pda, pda')
<1> DEFINE s == [pda EXCEPT !.failed[pda.PSB] = TRUE]
           e == Requeue(s, Ready, m, pda.PSB)
<1>1. DOMAIN s = Fields /\ s.wakeup = pda.wakeup
  BY DEF Fields
<1>2. pda' = Reschedule(e, FALSE)
  BY DEF EnterFailed
<1> HIDE DEF s
<1>3. DOMAIN e = Fields /\ e.wakeup = s.wakeup
  BY <1>1, RequeueKeeps
<1> HIDE DEF e
<1>4. KeepsWakeups(pda, e)
  BY <1>1, <1>3 DEF KeepsWakeups
<1>5. QED
  BY <1>2, <1>3, <1>4, ThenReschedule

(* Only a wait consumes a wakeup. *)
LEMMA WakeupME ==
  ASSUME RInv, NEW m \in Monitors, E_ME(m) \/ E_MX(m)
  PROVE  KeepsWakeups(pda, pda')
<1>1. PICK h \in [Psb -> Queues] : Settled(pda, h, Target(pc))
  BY Begin
<1>2. DOMAIN pda = Fields
  BY <1>1, SettledFields
<1>3. ASSUME pda' = EnterFailed(pda, m) PROVE KeepsWakeups(pda, pda')
  BY <1>2, <1>3, EnterFailedKeeps
<1>4. CASE E_ME(m)
  <2>1. pda' = EnterFailed(pda, m) \/ pda' = [pda EXCEPT !.locked[m] = TRUE]
    BY <1>4 DEF E_ME
  <2>2. QED
    BY <1>2, <1>3, <2>1 DEF KeepsWakeups, Fields
<1>5. CASE E_MX(m)
  <2> DEFINE e == Exit(pda, m)
  <2>1. pda' \in {e, Reschedule(e, FALSE)}
    BY <1>5 DEF E_MX
  <2>2. PICK h2 : Settled(e, h2, Target(pc)) /\ ExitsTo(pda, h, m, e, h2)
    BY <1>1, SettledExit
  <2>3. DOMAIN e = Fields
    BY <2>2, SettledFields
  <2> HIDE DEF e
  <2>4. KeepsWakeups(pda, e)
    BY <2>2 DEF ExitsTo, Fields, KeepsWakeups
  <2>5. QED
    BY <2>1, <2>3, <2>4, ThenReschedule
<1>6. QED
  BY <1>4, <1>5

(* MR, NC and BC clear no wakeup bit. *)
LEMMA WakeupMR ==
  ASSUME RInv, NEW c \in Conditions, E_MR(c) \/ E_NC(c) \/ E_BC(c)
  PROVE  KeepsWakeups(pda, pda')
<1> DEFINE d == CleanupCondition(pda, c)
<1>1. PICK h \in [Psb -> Queues] : Settled(pda, h, Target(pc))
  BY Begin
<1>2. /\ Settled(d, h, Target(pc)) /\ ~ Stale(d, c) /\ d.wakeup = pda.wakeup
      /\ DOMAIN pda = Fields /\ DOMAIN d = Fields
  <2>1. /\ Settled(d, h, Target(pc)) /\ ~ Stale(d, c)
        /\ \A n \in Fields \ {"tail"} : d[n] = pda[n]
    BY <1>1, SettledCleanup
  <2> HIDE DEF d
  <2>2. QED
    BY <1>1, <2>1, SettledFields DEF Fields
<1>3. CASE E_MR(c)
  <2> DEFINE left == [d EXCEPT !.cleanup[PSB] = Null]
             m == MonitorOf[c]
  <2>1. pda' \in {EnterFailed(pda, m), [left EXCEPT !.abort[PSB] = FALSE],
                  [left EXCEPT !.locked[m] = TRUE]}
    BY <1>3 DEF E_MR
  <2>2. CASE pda' = EnterFailed(pda, m)
    BY <1>2, <2>2, EnterFailedKeeps
  <2>3. CASE pda' \in {[left EXCEPT !.abort[PSB] = FALSE], [left EXCEPT !.locked[m] = TRUE]}
    <3> HIDE DEF d
    <3>1. pda'.wakeup = d.wakeup
      BY <1>2, <2>3 DEF Fields
    <3>2. QED
      BY <1>2, <3>1 DEF KeepsWakeups
  <2>4. QED
    BY <2>1, <2>2, <2>3
<1>4. CASE E_NC(c) \/ E_BC(c)
  <2>1. \/ pda' = d
        \/ HasQueue(d, c) /\ pda' \in {Reschedule(WakeHead(d, c), FALSE),
                                       Reschedule(WakeAll(d, c), FALSE)}
    BY <1>4 DEF E_NC, E_BC
  <2>2. HasQueue(d, c) => /\ DOMAIN WakeHead(d, c) = Fields
                          /\ KeepsWakeups(d, WakeHead(d, c))
    <3> DEFINE e == WakeHead(d, c)
               h2 == [h EXCEPT ![HeadOf(d, c)] = Ready]
    <3>1. SUFFICES ASSUME HasQueue(d, c) PROVE DOMAIN e = Fields /\ KeepsWakeups(d, e)
      OBVIOUS
    <3>2. Settled(e, h2, Target(pc)) /\ Woken(d, h, e, h2)
      BY <1>2, <3>1, SettledWake
    <3> HIDE DEF d, e, h2
    <3>3. QED
      BY <3>2, SettledFields DEF Woken, KeepsWakeups
  <2>3. DOMAIN WakeAll(d, c) = Fields /\ KeepsWakeups(d, WakeAll(d, c))
    <3>1. PICK h2 : Settled(WakeAll(d, c), h2, Target(pc)) /\ Woken(d, h, WakeAll(d, c), h2)
      BY <1>2, SettledWakeAll
    <3>2. QED
      BY <3>1, SettledFields DEF Woken, KeepsWakeups
  <2> HIDE DEF d
  <2>4. QED
    BY <1>2, <2>1, <2>2, <2>3, ThenReschedule DEF KeepsWakeups
<1>5. QED
  BY <1>3, <1>4

(* Nor do REQ, an abort, SPP and faults. *)
LEMMA WakeupMoves ==
  ASSUME RInv,
         \/ \E src, dst \in {Ready} \cup PlainQueues, p \in Psb : E_REQ(src, dst, p)
         \/ \E p \in Psb : Abort(p)
         \/ \E pri \in SettablePriorities : E_SPP(pri)
         \/ \E q \in DOMAIN FaultConditions : FaultStep(q)
  PROVE  KeepsWakeups(pda, pda')
<1>1. PICK h \in [Psb -> Queues] :
        /\ Settled(pda, h, Target(pc)) /\ Scheduled(pda, h) /\ Protocol(pda, h, pc)
  BY Begin
<1>2. DOMAIN pda = Fields /\ IInv /\ PSB \in Psb
  BY <1>1, SettledFields, Start DEF RInv
<1>3. ASSUME NEW src, NEW dst, NEW p, E_REQ(src, dst, p) PROVE KeepsWakeups(pda, pda')
  <2> DEFINE e == Requeue(pda, src, dst, p)
  <2>1. DOMAIN e = Fields /\ e.wakeup = pda.wakeup
    BY <1>2, RequeueKeeps
  <2>2. pda' = Reschedule(e, FALSE)
    BY <1>3 DEF E_REQ
  <2> HIDE DEF e
  <2>3. QED
    BY <2>1, <2>2, ThenReschedule DEF KeepsWakeups
<1>4. ASSUME NEW p \in Psb, Abort(p) PROVE KeepsWakeups(pda, pda')
  <2> DEFINE flagged == [pda EXCEPT !.abort[p] = TRUE]
             asleep == [flagged EXCEPT !.waiting[p] = FALSE, !.timeout[p] = 0]
             e == Requeue(asleep, Nil, Ready, p)
  <2>1. /\ DOMAIN asleep = Fields /\ asleep.wakeup = pda.wakeup
        /\ flagged.wakeup = pda.wakeup
    BY <1>2 DEF Fields
  <2>2. pda' = flagged \/ pda' = Reschedule(e, FALSE)
    BY <1>4 DEF Abort
  <2> HIDE DEF asleep, flagged
  <2>3. DOMAIN e = Fields /\ e.wakeup = asleep.wakeup
    BY <2>1, RequeueKeeps
  <2> HIDE DEF e
  <2>4. QED
    BY <2>1, <2>2, <2>3, ThenReschedule DEF KeepsWakeups
<1>5. ASSUME NEW k, E_SPP(k) PROVE KeepsWakeups(pda, pda')
  <2> DEFINE s == [pda EXCEPT !.pri[PSB] = k]
             e == Requeue(s, Ready, Ready, PSB)
  <2>1. DOMAIN s = Fields /\ s.wakeup = pda.wakeup
    BY <1>2 DEF Fields
  <2>2. pda' = Reschedule(e, FALSE)
    BY <1>5 DEF E_SPP
  <2> HIDE DEF s
  <2>3. DOMAIN e = Fields /\ e.wakeup = s.wakeup
    BY <2>1, RequeueKeeps
  <2> HIDE DEF e
  <2>4. QED
    BY <2>1, <2>2, <2>3, ThenReschedule DEF KeepsWakeups
<1>6. ASSUME NEW q \in DOMAIN FaultConditions, FaultStep(q) PROVE KeepsWakeups(pda, pda')
  <2> DEFINE e == Requeue(pda, Ready, q, PSB)
             h1 == [h EXCEPT ![PSB] = q]
             c == FaultConditions[q]
             g == NotifyWakeup(e, c)
  <2>1. q \in PlainQueues /\ c \in Conditions /\ h[PSB] = Ready /\ pda.running
    BY <1>1, <1>2, <1>6, ProgramAssumption DEF FaultStep, Scheduled, PSB
  <2>2. pda' = Reschedule(g, TRUE)
    BY <1>6 DEF FaultStep, Fault, PSB
  <2>3. Settled(e, h1, Target(pc))
    <3>1. Parked(h, pda, PSB, q, Requeue(pda, h[PSB], q, PSB))
      BY <1>1, <1>2, <2>1, Park
    <3>2. QED
      BY <2>1, <3>1 DEF Parked
  <2>4. e.wakeup = pda.wakeup
    BY <1>2, RequeueKeeps
  <2> HIDE DEF e, h1, c
  <2>5. PICK h2 : Settled(g, h2, Target(pc)) /\ Woken(e, h1, g, h2)
    BY <2>1, <2>3, SettledNotify
  <2> HIDE DEF g
  <2>6. DOMAIN g = Fields /\ KeepsWakeups(pda, g)
    BY <2>4, <2>5, SettledFields DEF Woken, KeepsWakeups
  <2>7. QED
    BY <2>2, <2>6, ThenReschedule
<1>7. QED
  BY <1>3, <1>4, <1>5, <1>6

(* Nor do interrupts, the timeout scan and the Reschedule after them. *)
LEMMA WakeupPreempt ==
  ASSUME RInv, NEW wakeups, NEW tick \in BOOLEAN, Preempt(wakeups, tick)
  PROVE  KeepsWakeups(pda, pda')
<1> DEFINE d1 == Interrupt(pda, InterruptConditions, wakeups)
           ptc == IF tick THEN NextPTC ELSE PTC
           d2 == IF tick THEN TimeoutScan(d1, ptc) ELSE d1
<1>1. pda' \in {d2, Reschedule(d2, TRUE)}
  BY DEF Preempt
<1>2. PICK h \in [Psb -> Queues] : Settled(pda, h, Target(pc))
  BY Begin
<1>3. PICK h1 : Settled(d1, h1, Target(pc)) /\ Woken(pda, h, d1, h1)
  <2>1. /\ InterruptConditions \in Seq(Conditions)
        /\ \A i, j \in DOMAIN InterruptConditions :
             InterruptConditions[i] = InterruptConditions[j] => i = j
    BY ProgramAssumption
  <2> HIDE DEF d1
  <2>2. \E h1 : Interrupted(pda, h, Target(pc), InterruptConditions, wakeups, d1, h1)
    BY <1>2, <2>1, SettledInterrupt DEF d1
  <2>3. QED
    BY <2>2 DEF Interrupted
<1> HIDE DEF d1, ptc
<1>4. \E h2 : Settled(d2, h2, Target(pc)) /\ Woken(d1, h1, d2, h2)
  <2>1. CASE tick
    <3>1. d2 = TimeoutScan(d1, ptc)
      BY <2>1
    <3> HIDE DEF d2
    <3>2. QED
      BY <1>3, <3>1, SettledScan
  <2>2. CASE ~ tick
    BY <1>3, <2>2, WokenSame
  <2>3. QED
    BY <2>1, <2>2
<1> HIDE DEF d2
<1>5. DOMAIN d2 = Fields /\ KeepsWakeups(pda, d2)
  BY <1>3, <1>4, SettledFields DEF Woken, KeepsWakeups
<1>6. QED
  BY <1>1, <1>5, ThenReschedule

(* MW consumes a wakeup only of the condition it waits on, and only if it    *)
(* does not sleep.                                                          *)
LEMMA WakeupMW ==
  ASSUME RInv, NEW c \in Conditions, NEW t, E_MW(c, t)
  PROVE  \A x \in Conditions : pda.wakeup[x] /\ ~ pda'.wakeup[x] =>
           /\ pc[PSB] = Inside(MonitorOf[x]) /\ pc'[PSB] = Reentering(x)
           /\ ~ pda'.waiting[PSB]
<1> DEFINE m == MonitorOf[c]
           d == CleanupCondition(pda, c)
           e == Exit(d, m)
           woken == [e EXCEPT !.wakeup[c] = FALSE]
           asleep == [e EXCEPT !.timeout[PSB] = Deadline(t), !.waiting[PSB] = TRUE]
           g == Requeue(asleep, Ready, c, PSB)
<1>1. /\ pda.running /\ pc[PSB] = Inside(m) /\ pc' = [pc EXCEPT ![PSB] = Reentering(c)]
      /\ \/ \E next \in {e, woken} : pda' \in {next, Reschedule(next, FALSE)}
         \/ pda' = Reschedule(g, FALSE)
  BY DEF E_MW
<1>2. PICK h \in [Psb -> Queues] :
        /\ Settled(pda, h, Target(pc)) /\ Protocol(pda, h, pc) /\ h[PSB] = Ready
  BY <1>1, BeginRun
<1>3. /\ IInv /\ PSB \in Psb /\ pc \in [Psb -> PcType] /\ m \in Monitors
  BY <1>1, BeginRun, ProgramAssumption
<1>4. Settled(d, h, Target(pc)) /\ \A n \in Fields \ {"tail"} : d[n] = pda[n]
  BY <1>2, SettledCleanup
<1>5. PICK h2 : Exited(h, m, d, e, h2)
  BY <1>2, <1>3, <1>4, RExit
<1> HIDE DEF d, e
<1>6. DOMAIN e = Fields /\ e.wakeup = pda.wakeup /\ ~ e.waiting[PSB]
      /\ e.wakeup \in [Conditions -> BOOLEAN]
  <2>1. /\ Settled(e, h2, Target(pc)) /\ h2[PSB] = Ready
        /\ \A n \in Fields \ {"next", "tail", "cleanup", "locked"} : e[n] = pda[n]
    BY <1>5 DEF Exited
  <2>2. ~ e.waiting[PSB] /\ e.wakeup \in [Conditions -> BOOLEAN]
    BY <1>3, <2>1, Kinds DEF Settled, Marked, Stored
  <2>3. QED
    BY <2>1, <2>2, SettledFields DEF Fields
<1>7. CASE pda' = Reschedule(g, FALSE)
  <2>1. DOMAIN asleep = Fields /\ asleep.wakeup = e.wakeup
    BY <1>6 DEF Fields
  <2> HIDE DEF asleep
  <2>2. DOMAIN g = Fields /\ g.wakeup = asleep.wakeup
    BY <2>1, RequeueKeeps
  <2> HIDE DEF g
  <2>3. pda'.wakeup = g.wakeup
    BY <1>7, <2>2, RescheduleKeeps
  <2>4. QED
    BY <1>6, <2>1, <2>2, <2>3
<1>8. ASSUME NEW next \in {e, woken}, pda' \in {next, Reschedule(next, FALSE)}
      PROVE  /\ ~ pda'.waiting[PSB]
             /\ \A x \in Conditions \ {c} : pda.wakeup[x] => pda'.wakeup[x]
  <2>1. DOMAIN next = Fields /\ next.waiting = e.waiting
    BY <1>6, <1>8 DEF Fields
  <2>2. next.wakeup \in {e.wakeup, [e.wakeup EXCEPT ![c] = FALSE]}
    BY <1>6, <1>8 DEF Fields
  <2> HIDE DEF woken
  <2>3. pda'.waiting = next.waiting /\ pda'.wakeup = next.wakeup
    BY ZenonT(30), <1>8, <2>1, RescheduleKeeps
  <2>4. QED
    BY <1>6, <2>1, <2>2, <2>3
<1>9. pc'[PSB] = Reentering(c)
  BY <1>1, <1>3
<1> HIDE DEF g, woken
<1>10. QED
  BY <1>1, <1>7, <1>8, <1>9 DEF m

(* An interrupt or fault notification that found no waiter is never lost:    *)
(* only a wait on its condition that then does not sleep consumes it.        *)
THEOREM WakeupsNeverLost == Spec => WakeupOnlyConsumedByWait
<1> DEFINE Consumed == \A c \in Conditions : pda.wakeup[c] /\ ~ pda'.wakeup[c] =>
                         /\ pc[PSB] = Inside(MonitorOf[c]) /\ pc'[PSB] = Reentering(c)
                         /\ ~ pda'.waiting[PSB]
<1>1. RInv /\ [Next]_vars => [Consumed]_vars
  <2> SUFFICES ASSUME RInv, Next PROVE Consumed
    OBVIOUS
  <2>1. CASE \E c \in Conditions, t \in WaitTicks : E_MW(c, t)
    BY <2>1, WakeupMW
  <2>2. KeepsWakeups(pda, pda') => Consumed
    BY DEF KeepsWakeups
  <2> HIDE DEF Consumed
  <2>3. CASE \E m \in Monitors : E_ME(m) \/ E_MX(m)
    BY <2>2, <2>3, WakeupME
  <2>4. CASE \E c \in Conditions : E_MR(c) \/ E_NC(c) \/ E_BC(c)
    BY <2>2, <2>4, WakeupMR
  <2>5. CASE \E wakeups \in SUBSET DOMAIN InterruptConditions, tick \in BOOLEAN :
               Preempt(wakeups, tick)
    BY <2>2, <2>5, WakeupPreempt
  <2>6. QED
    BY <2>1, <2>2, <2>3, <2>4, <2>5, WakeupMoves DEF Next
<1>2. QED
  BY <1>1, AlwaysRInv, PTL DEF Spec, WakeupOnlyConsumedByWait
=============================================================================
