-------------------------- MODULE TimedWaitProofs ---------------------------
(***************************************************************************)
(* For any number of processes, timers and values of PTC: a timed wait ends *)
(* neither late nor early, although PTC and the deadlines wrap and skip 0.  *)
(*                                                                          *)
(* The argument.  The deadline of a wait is Distance ticks ahead of PTC,    *)
(* around its circle without 0; the ticks a wait has left are as many, or   *)
(* one more if 0 is skipped on the way.  A tick brings both one closer, or  *)
(* ends the wait; no other step moves PTC, and none but MW starts a timer.  *)
(***************************************************************************)
EXTENDS TimedWaits, SchedulerProofs

(* The timers of a PDA. *)
Timers(d) ==
  /\ {"timeout", "waiting"} \subseteq DOMAIN d
  /\ d.timeout \in [Psb -> Nat] /\ d.waiting \in [Psb -> BOOLEAN]

(* From PDA s to PDA d no timer starts: each goes on or is over. *)
Rests(s, d) ==
  /\ Timers(d)
  /\ \A p \in Psb : \/ d.timeout[p] = s.timeout[p] /\ d.waiting[p] = s.waiting[p]
                    \/ d.timeout[p] = 0 /\ d.waiting[p] = FALSE

(* PDA d has the timers of PDA s. *)
SameTimers(s, d) ==
  {"timeout", "waiting"} \subseteq DOMAIN d /\ d.timeout = s.timeout /\ d.waiting = s.waiting

(* Timers that are the same rest. *)
LEMMA SameRests ==
  ASSUME NEW s, NEW d, Timers(s), SameTimers(s, d)
  PROVE  Rests(s, d)
  BY DEF Timers, SameTimers, Rests

(* What happens after rest is judged from the start. *)
LEMMA RestsOn ==
  ASSUME NEW s, NEW d, NEW e, Rests(s, d), Rests(d, e) \/ SameTimers(d, e)
  PROVE  Rests(s, e)
  BY DEF Rests, SameTimers, Timers

(* The queuing procedures change links and tails. *)
LEMMA RequeueTimers ==
  ASSUME NEW s, NEW d, SameTimers(s, d), NEW src, NEW dst, NEW p
  PROVE  SameTimers(s, Requeue(d, src, dst, p))
<1>1. SameTimers(s, Dequeue(d, src, p))
  BY DEF SameTimers, Dequeue
<1>2. QED
  BY <1>1 DEF SameTimers, Requeue, Enqueue

(* CleanupCondition changes tails and a wakeup bit. *)
LEMMA CleanupTimers ==
  ASSUME NEW s, NEW d, SameTimers(s, d), NEW c
  PROVE  SameTimers(s, CleanupCondition(d, c))
  BY DEF SameTimers, CleanupCondition

(* Exit unlocks and moves the head of the entry queue. *)
LEMMA ExitTimers ==
  ASSUME NEW s, NEW d, SameTimers(s, d), NEW m
  PROVE  SameTimers(s, Exit(d, m))
<1> DEFINE d1 == [d EXCEPT !.locked[m] = FALSE]
<1>1. SameTimers(s, d1)
  BY DEF SameTimers
<1>2. QED
  BY <1>1, RequeueTimers DEF Exit

(* Saving and loading processes leaves the timers alone. *)
LEMMA RescheduleTimers ==
  ASSUME NEW s, NEW d, SameTimers(s, d), NEW preemption
  PROVE  SameTimers(s, Reschedule(d, preemption))
<1> DEFINE d1 == IF d.running THEN SaveProcess(d, preemption) ELSE d
           first == FirstRunnable(d1)
           p == CHOOSE x \in first : TRUE
<1>1. SameTimers(s, d1)
  BY DEF SameTimers, SaveProcess
<1>2. Reschedule(d, preemption) =
        IF first = {} THEN [d1 EXCEPT !.running = FALSE]
        ELSE [LoadProcess(d1, p) EXCEPT !.PSB = p, !.running = TRUE]
  BY DEF Reschedule
<1> HIDE DEF d1
<1>3. SameTimers(s, LoadProcess(d1, p))
  BY <1>1 DEF SameTimers, LoadProcess
<1> HIDE DEF p
<1>4. QED
  BY <1>1, <1>2, <1>3 DEF SameTimers

(* A process whose wait is over is moved, its timer cleared. *)
LEMMA WakeRests ==
  ASSUME NEW s, NEW d, Rests(s, d), NEW src, NEW dst, NEW p,
         NEW e, e = [d EXCEPT !.waiting[p] = FALSE, !.timeout[p] = 0]
  PROVE  Rests(s, e) /\ Rests(s, Requeue(e, src, dst, p))
<1>1. /\ {"timeout", "waiting"} \subseteq DOMAIN e
      /\ e.timeout = [d.timeout EXCEPT ![p] = 0] /\ e.waiting = [d.waiting EXCEPT ![p] = FALSE]
  BY DEF Rests, Timers
<1>2. Rests(s, e)
  BY <1>1 DEF Rests, Timers
<1>3. SameTimers(e, e)
  BY <1>1 DEF SameTimers
<1>4. QED
  BY <1>2, <1>3, RequeueTimers, RestsOn

(* Waking the head of a condition. *)
LEMMA WakeHeadRests ==
  ASSUME NEW s, NEW d, Rests(s, d), NEW c
  PROVE  Rests(s, WakeHead(d, c))
  BY WakeRests DEF WakeHead

(* NotifyWakeup wakes at most one process. *)
LEMMA NotifyRests ==
  ASSUME NEW s, NEW d, Rests(s, d), NEW c
  PROVE  Rests(s, NotifyWakeup(d, c))
<1> DEFINE d1 == CleanupCondition(d, c)
<1>1. SameTimers(d, d)
  BY DEF Rests, Timers, SameTimers
<1>2. SameTimers(d, d1)
  BY <1>1, CleanupTimers
<1> HIDE DEF d1
<1>3. SameTimers(d, [d1 EXCEPT !.wakeup[c] = TRUE])
  BY <1>2 DEF SameTimers
<1>4. Rests(s, d1) /\ Rests(s, [d1 EXCEPT !.wakeup[c] = TRUE])
  BY <1>2, <1>3, RestsOn
<1>5. Rests(s, WakeHead(d1, c))
  BY <1>4, WakeHeadRests
<1>6. NotifyWakeup(d, c) = IF HasQueue(d1, c) THEN WakeHead(d1, c)
                           ELSE [d1 EXCEPT !.wakeup[c] = TRUE]
  BY DEF NotifyWakeup, d1
<1>7. QED
  BY <1>4, <1>5, <1>6

(* The loop of E_BC. *)
LEMMA WakeAllRests ==
  ASSUME NEW s, NEW d, Rests(s, d), NEW c
  PROVE  Rests(s, WakeAll(d, c))
<1>1. PICK run : WakeAllRun(run, d, c)
  BY WakeAllRuns
<1> DEFINE Good == {k \in 0 .. NPsb : Rests(s, run[k])}
<1>2. NPsb \in Nat
  BY SizesAssumption
<1>3. 0 \in Good
  BY <1>1, <1>2 DEF WakeAllRun
<1>4. ASSUME NEW k \in 0 .. NPsb - 1, k \in Good PROVE k + 1 \in Good
  <2>1. k + 1 \in 0 .. NPsb
    BY <1>2
  <2>2. run[k + 1] \in {WakeHead(run[k], c), run[k]}
    BY <1>1 DEF WakeAllRun
  <2>3. QED
    BY <1>4, <2>1, <2>2, WakeHeadRests
<1>5. Good \in SUBSET (0 .. NPsb)
  OBVIOUS
<1> HIDE DEF Good
<1>6. NPsb \in Good
  BY <1>2, <1>3, <1>4, <1>5, IntervalInduction
<1>7. QED
  BY <1>1, <1>6 DEF Good, WakeAllRun

(* The loop of Interrupt; without levels it does nothing. *)
LEMMA InterruptRests ==
  ASSUME NEW s, NEW d, Rests(s, d), NEW conds \in Seq(Conditions), NEW wakeups
  PROVE  /\ Rests(s, Interrupt(d, conds, wakeups))
         /\ wakeups = {} => Interrupt(d, conds, wakeups) = d
<1>1. PICK run : InterruptRun(run, d, conds, wakeups)
  BY InterruptRuns
<1> DEFINE Good == {k \in 0 .. Len(conds) : Rests(s, run[k]) /\ (wakeups = {} => run[k] = d)}
<1>2. Len(conds) \in Nat
  BY SizesAssumption
<1>3. 0 \in Good
  BY <1>1, <1>2 DEF InterruptRun
<1>4. ASSUME NEW k \in 0 .. Len(conds) - 1, k \in Good PROVE k + 1 \in Good
  <2>1. k + 1 \in 0 .. Len(conds)
    BY <1>2
  <2>2. run[k + 1] = IF k + 1 \in wakeups THEN NotifyWakeup(run[k], conds[k + 1]) ELSE run[k]
    BY <1>1 DEF InterruptRun
  <2>3. QED
    BY <1>4, <2>1, <2>2, NotifyRests
<1>5. Good \in SUBSET (0 .. Len(conds))
  OBVIOUS
<1> HIDE DEF Good
<1>6. Len(conds) \in Good
  BY <1>2, <1>3, <1>4, <1>5, IntervalInduction
<1>7. QED
  BY <1>1, <1>6 DEF Good, InterruptRun

(* The scan of the timeouts ends the waits that expire at ptc, no others.    *)
ScannedAt(s, d, ptc) ==
  /\ Timers(d)
  /\ \A p \in Psb : IF p \in Expired(s, ptc) THEN d.timeout[p] = 0 /\ d.waiting[p] = FALSE
                    ELSE d.timeout[p] = s.timeout[p] /\ d.waiting[p] = s.waiting[p]

(* TimeoutScan ends the waits whose deadline is now and no others. *)
LEMMA ScanEnds ==
  ASSUME NEW s, Timers(s), NEW ptc
  PROVE  ScannedAt(s, TimeoutScan(s, ptc), ptc)
<1>1. PICK run : ScanRun(run, s, ptc)
  BY ScanRuns
<1> DEFINE Sofar(d, k) ==
             /\ Timers(d)
             /\ \A p \in Psb : IF p <= k /\ p \in Expired(s, ptc)
                               THEN d.timeout[p] = 0 /\ d.waiting[p] = FALSE
                               ELSE d.timeout[p] = s.timeout[p] /\ d.waiting[p] = s.waiting[p]
           Good == {k \in 0 .. NPsb : Sofar(run[k], k)}
<1>2. NPsb \in Nat /\ Psb = 1 .. NPsb
  BY SizesAssumption DEF Psb
<1>3. 0 \in Good
  <2>1. Sofar(s, 0)
    BY <1>2
  <2>2. QED
    BY <1>1, <1>2, <2>1 DEF ScanRun
<1>4. ASSUME NEW k \in 0 .. NPsb - 1, k \in Good PROVE k + 1 \in Good
  <2> DEFINE d == run[k]
             r == [d EXCEPT !.waiting[k + 1] = FALSE, !.timeout[k + 1] = 0]
             e == run[k + 1]
  <2>1. k + 1 \in 0 .. NPsb /\ k + 1 \in Psb
    BY <1>2
  <2>2. e = IF k + 1 \in Expired(d, ptc) THEN Requeue(r, Nil, Ready, k + 1) ELSE d
    BY <1>1 DEF ScanRun, ScanStep
  <2>3. Sofar(d, k)
    BY <1>4
  <2>4. d.timeout[k + 1] = s.timeout[k + 1] /\ (k + 1 \in Expired(d, ptc) <=> k + 1 \in Expired(s, ptc))
    BY <1>2, <2>1, <2>3 DEF Expired
  <2>5. \A p \in Psb : p <= k + 1 <=> p <= k \/ p = k + 1
    BY <1>2
  <2>6. CASE k + 1 \in Expired(s, ptc)
    <3>1. /\ {"timeout", "waiting"} \subseteq DOMAIN r
          /\ r.timeout = [d.timeout EXCEPT ![k + 1] = 0]
          /\ r.waiting = [d.waiting EXCEPT ![k + 1] = FALSE]
      BY <2>3 DEF Timers
    <3>2. SameTimers(r, r)
      BY <3>1 DEF SameTimers
    <3>3. e = Requeue(r, Nil, Ready, k + 1)
      BY <2>2, <2>4, <2>6
    <3> HIDE DEF e, r
    <3>4. SameTimers(r, e)
      BY <3>2, <3>3, RequeueTimers
    <3> HIDE DEF d
    <3>5. Timers(e)
      BY <2>1, <2>3, <3>1, <3>4 DEF SameTimers, Timers
    <3>6. e.timeout[k + 1] = 0 /\ e.waiting[k + 1] = FALSE
      BY <2>1, <2>3, <3>1, <3>4 DEF SameTimers, Timers
    <3>7. \A p \in Psb \ {k + 1} : e.timeout[p] = d.timeout[p] /\ e.waiting[p] = d.waiting[p]
      BY <2>1, <2>3, <3>1, <3>4 DEF SameTimers, Timers
    <3>8. Sofar(e, k + 1)
      BY <2>3, <2>5, <2>6, <3>5, <3>6, <3>7
    <3>9. QED
      BY <2>1, <3>8 DEF e
  <2>7. CASE k + 1 \notin Expired(s, ptc)
    <3>1. e = d
      BY <2>2, <2>4, <2>7
    <3> HIDE DEF e, d
    <3>2. Sofar(e, k + 1)
      BY <2>3, <2>5, <2>7, <3>1
    <3>3. QED
      BY <2>1, <3>2 DEF e
  <2>8. QED
    BY <2>6, <2>7
<1>5. Good \in SUBSET (0 .. NPsb)
  OBVIOUS
<1> HIDE DEF Good
<1>6. NPsb \in Good
  BY <1>2, <1>3, <1>4, <1>5, IntervalInduction
<1>7. QED
  BY <1>1, <1>2, <1>6 DEF Good, ScanRun, ScannedAt, Expired

-----------------------------------------------------------------------------
(* The circle of PTC. *)

(* The ticks from ptc to the next time that PTC is deadline. *)
Distance(ptc, deadline) ==
  IF deadline > ptc THEN deadline - ptc ELSE Ticks - 1 - ptc + deadline

(* A sum that wraps once. *)
LEMMA WrapsOnce ==
  ASSUME NEW n \in Nat \ {0}, NEW s \in 0 .. 2 * n - 1
  PROVE  s % n = IF s < n THEN s ELSE s - n
<1>1. CASE s < n
  BY <1>1
<1>2. CASE s >= n
  <2>1. s - n \in 0 .. n - 1 /\ s = 1 * n + (s - n)
    BY <1>2
  <2>2. QED
    BY <1>2, <2>1, Z3
<1>3. QED
  BY <1>1, <1>2

(* The deadline that MW computes is as far away as its timeout, or one tick   *)
(* nearer where the sum passes 0.                                           *)
LEMMA DeadlineAhead ==
  ASSUME PTC \in 0 .. Ticks - 1, NEW t \in 1 .. Ticks - 1
  PROVE  /\ Deadline(t) \in 1 .. Ticks - 1
         /\ t \in {Distance(PTC, Deadline(t)), Distance(PTC, Deadline(t)) + 1}
<1>1. Ticks \in Nat \ {0, 1}
  BY ProgramAssumption
<1> DEFINE sum == PTC + t
           n == Ticks
<1>2. sum \in 0 .. 2 * n - 1 /\ n \in Nat \ {0}
  BY <1>1
<1> HIDE DEF sum, n
<1>3. sum % n = IF sum < n THEN sum ELSE sum - n
  BY <1>2, WrapsOnce
<1> USE DEF sum, n
<1>4. Deadline(t) = IF PTC + t < Ticks THEN PTC + t
                    ELSE IF PTC + t = Ticks THEN 1 ELSE PTC + t - Ticks
  BY <1>1, <1>3 DEF Deadline
<1>5. QED
  BY <1>1, <1>4 DEF Distance

(* A tick brings every deadline but that of now one closer. *)
LEMMA TickNearer ==
  ASSUME PTC \in 0 .. Ticks - 1, NEW deadline \in 1 .. Ticks - 1
  PROVE  /\ NextPTC \in 1 .. Ticks - 1
         /\ Distance(PTC, deadline) >= 1
         /\ IF deadline = NextPTC THEN Distance(PTC, deadline) = 1
            ELSE Distance(NextPTC, deadline) = Distance(PTC, deadline) - 1
  BY ProgramAssumption DEF Distance, NextPTC

-----------------------------------------------------------------------------
(* The inductive invariant. *)

(* The history variable agrees with the deadline of process p. *)
OnTime(p) ==
  IF pda.timeout[p] = 0 THEN left[p] = NoTimer
  ELSE /\ pda.timeout[p] \in 1 .. Ticks - 1 /\ left[p] \in 1 .. Ticks - 1
       /\ left[p] \in {Distance(PTC, pda.timeout[p]), Distance(PTC, pda.timeout[p]) + 1}

TInv == RInv /\ left \in [Psb -> 0 .. Ticks] /\ \A p \in Psb : OnTime(p)

(* What a step starts from. *)
LEMMA TimerStart ==
  ASSUME RInv
  PROVE  /\ Timers(pda) /\ SameTimers(pda, pda) /\ Rests(pda, pda)
         /\ PTC \in 0 .. Ticks - 1 /\ PSB \in Psb
         /\ \A p \in Psb : pda.timeout[p] # 0 => pda.waiting[p]
         /\ \A p \in Psb : pda.waiting[p] => pc[p].at = "reenter"
<1>1. pda \in PdaType /\ PTC \in 0 .. Ticks - 1
  BY RInvType DEF TypeOK
<1>2. {"timeout", "waiting"} \subseteq DOMAIN pda
      /\ pda.timeout \in [Psb -> Nat] /\ pda.waiting \in [Psb -> BOOLEAN] /\ PSB \in Psb
  BY <1>1 DEF PdaType, PSB
<1>3. Timers(pda) /\ SameTimers(pda, pda)
  BY <1>2 DEF Timers, SameTimers
<1>4. Rests(pda, pda)
  BY <1>3, SameRests
<1>5. QED
  BY <1>1, <1>2, <1>3, <1>4, RInvPending DEF PendingConsistent, WaitingConsistent

(* The steps of TNext are steps of the scheduler. *)
LEMMA TNextIsNext == [TNext]_tvars => [Next]_vars
  BY DEF TNext, Next, tvars, vars

(* Steps other than MW and ticks start no timer. *)
LEMMA QuietRests ==
  ASSUME RInv,
         \/ \E wakeups \in SUBSET DOMAIN InterruptConditions : Preempt(wakeups, FALSE)
         \/ \E m \in Monitors : E_ME(m) \/ E_MX(m)
         \/ \E c \in Conditions : E_MR(c) \/ E_NC(c) \/ E_BC(c)
         \/ \E p \in Psb : Abort(p)
  PROVE  Rests(pda, pda') /\ PTC' = PTC
<1>1. ASSUME NEW wakeups, Preempt(wakeups, FALSE) PROVE Rests(pda, pda') /\ PTC' = PTC
  <2> DEFINE d1 == Interrupt(pda, InterruptConditions, wakeups)
  <2>1. Rests(pda, d1)
    BY TimerStart, ProgramAssumption, InterruptRests
  <2>2. pda' \in {d1, Reschedule(d1, TRUE)} /\ PTC' = PTC
    BY <1>1 DEF Preempt
  <2> HIDE DEF d1
  <2>3. SameTimers(d1, d1)
    BY <2>1 DEF Rests, Timers, SameTimers
  <2>4. QED
    BY <2>1, <2>2, <2>3, RescheduleTimers, RestsOn
<1>2. ASSUME NEW m, E_ME(m) \/ E_MX(m) PROVE Rests(pda, pda') /\ PTC' = PTC
  <2> DEFINE d1 == [pda EXCEPT !.locked[m] = TRUE]
             d2 == [pda EXCEPT !.failed[pda.PSB] = TRUE]
             d3 == Requeue(d2, Ready, m, pda.PSB)
             d4 == Exit(pda, m)
  <2>1. SameTimers(pda, d1) /\ SameTimers(pda, d2) /\ SameTimers(pda, d4)
    <3>1. SameTimers(pda, d1) /\ SameTimers(pda, d2)
      BY TimerStart DEF SameTimers
    <3>2. QED
      BY <3>1, TimerStart, ExitTimers
  <2>2. pda' \in {d1, Reschedule(d3, FALSE), d4, Reschedule(d4, FALSE)} /\ PTC' = PTC
    BY <1>2 DEF E_ME, E_MX, EnterFailed
  <2> HIDE DEF d1, d2, d4
  <2>3. SameTimers(pda, d3)
    BY <2>1, RequeueTimers
  <2> HIDE DEF d3
  <2>4. QED
    BY <2>1, <2>2, <2>3, TimerStart, RescheduleTimers, SameRests
<1>3. ASSUME NEW c, E_MR(c) PROVE Rests(pda, pda') /\ PTC' = PTC
  <2> DEFINE m == MonitorOf[c]
             d2 == [pda EXCEPT !.failed[pda.PSB] = TRUE]
             d3 == Requeue(d2, Ready, m, pda.PSB)
             left1 == [CleanupCondition(pda, c) EXCEPT !.cleanup[PSB] = Null]
             d4 == [left1 EXCEPT !.abort[PSB] = FALSE]
             d5 == [left1 EXCEPT !.locked[m] = TRUE]
  <2>1. SameTimers(pda, CleanupCondition(pda, c)) /\ SameTimers(pda, d2)
    <3>1. SameTimers(pda, d2)
      BY TimerStart DEF SameTimers
    <3>2. QED
      BY <3>1, TimerStart, CleanupTimers
  <2>2. SameTimers(pda, d4) /\ SameTimers(pda, d5)
    BY <2>1 DEF SameTimers
  <2>3. pda' \in {Reschedule(d3, FALSE), d4, d5} /\ PTC' = PTC
    BY <1>3 DEF E_MR, EnterFailed
  <2> HIDE DEF d2, d4, d5, m
  <2>4. SameTimers(pda, d3)
    BY <2>1, RequeueTimers
  <2> HIDE DEF d3
  <2>5. QED
    BY <2>2, <2>3, <2>4, TimerStart, RescheduleTimers, SameRests
<1>4. ASSUME NEW c, E_NC(c) \/ E_BC(c) PROVE Rests(pda, pda') /\ PTC' = PTC
  <2> DEFINE d1 == CleanupCondition(pda, c)
             d2 == WakeHead(d1, c)
             d3 == WakeAll(d1, c)
  <2>1. Rests(pda, d1)
    BY TimerStart, CleanupTimers, SameRests
  <2>2. pda' \in {d1, Reschedule(d2, FALSE), Reschedule(d3, FALSE)} /\ PTC' = PTC
    BY <1>4 DEF E_NC, E_BC
  <2> HIDE DEF d1
  <2>3. Rests(pda, d2) /\ Rests(pda, d3)
    BY <2>1, WakeHeadRests, WakeAllRests
  <2> HIDE DEF d2, d3
  <2>4. SameTimers(d2, d2) /\ SameTimers(d3, d3)
    BY <2>3 DEF Rests, Timers, SameTimers
  <2>5. SameTimers(d2, Reschedule(d2, FALSE)) /\ SameTimers(d3, Reschedule(d3, FALSE))
    BY <2>4, RescheduleTimers
  <2>6. QED
    BY <2>1, <2>2, <2>3, <2>5, RestsOn
<1>5. ASSUME NEW p, Abort(p) PROVE Rests(pda, pda') /\ PTC' = PTC
  <2> DEFINE flagged == [pda EXCEPT !.abort[p] = TRUE]
             asleep == [flagged EXCEPT !.waiting[p] = FALSE, !.timeout[p] = 0]
             d1 == Requeue(asleep, Nil, Ready, p)
  <2>1. pda' \in {flagged, Reschedule(d1, FALSE)} /\ PTC' = PTC
    BY <1>5 DEF Abort
  <2>2. SameTimers(pda, flagged)
    BY TimerStart DEF SameTimers
  <2> HIDE DEF flagged
  <2>3. Rests(pda, flagged)
    BY <2>2, TimerStart, SameRests
  <2>4. asleep = [flagged EXCEPT !.waiting[p] = FALSE, !.timeout[p] = 0]
    OBVIOUS
  <2> HIDE DEF asleep
  <2>5. Rests(pda, d1)
    BY <2>3, <2>4, WakeRests
  <2> HIDE DEF d1
  <2>6. SameTimers(d1, d1)
    BY <2>5 DEF Rests, Timers, SameTimers
  <2>7. QED
    BY <2>1, <2>3, <2>5, <2>6, RescheduleTimers, RestsOn
<1>6. QED
  BY <1>1, <1>2, <1>3, <1>4, <1>5

(* A tick ends the waits whose deadline it is. *)
LEMMA TickScans ==
  ASSUME RInv, Preempt({}, TRUE)
  PROVE  ScannedAt(pda, pda', NextPTC) /\ PTC' = NextPTC
<1> DEFINE d1 == Interrupt(pda, InterruptConditions, {})
           d2 == TimeoutScan(pda, NextPTC)
<1>1. d1 = pda
  BY TimerStart, ProgramAssumption, InterruptRests
<1>2. ScannedAt(pda, d2, NextPTC)
  BY TimerStart, ScanEnds
<1>3. pda' \in {d2, Reschedule(d2, TRUE)} /\ PTC' = NextPTC
  BY <1>1 DEF Preempt
<1> HIDE DEF d1, d2
<1>4. SameTimers(d2, d2)
  BY <1>2 DEF ScannedAt, Timers, SameTimers
<1>5. SameTimers(d2, Reschedule(d2, TRUE))
  BY <1>4, RescheduleTimers
<1>6. SameTimers(d2, pda')
  BY <1>3, <1>4, <1>5
<1>7. QED
  BY <1>2, <1>3, <1>6 DEF ScannedAt, Timers, SameTimers

(* MW sets the timer of the running process, which has none, or leaves it. *)
LEMMA WaitTimes ==
  ASSUME RInv, NEW c \in Conditions, NEW t \in WaitTicks, E_MW(c, t)
  PROVE  /\ PTC' = PTC /\ ~ pda.waiting[PSB]
         /\ \/ SameTimers(pda, pda')
            \/ /\ pda'.timeout = [pda.timeout EXCEPT ![PSB] = Deadline(t)]
               /\ pda'.waiting = [pda.waiting EXCEPT ![PSB] = TRUE]
<1> DEFINE m == MonitorOf[c]
           exited == Exit(CleanupCondition(pda, c), m)
           woken == [exited EXCEPT !.wakeup[c] = FALSE]
           asleep == [exited EXCEPT !.timeout[PSB] = Deadline(t), !.waiting[PSB] = TRUE]
           queued == Requeue(asleep, Ready, c, PSB)
<1>1. pda' \in {exited, woken, Reschedule(exited, FALSE), Reschedule(woken, FALSE),
                Reschedule(queued, FALSE)}
      /\ PTC' = PTC /\ pc[PSB] = Inside(m)
  BY DEF E_MW
<1>2. ~ pda.waiting[PSB]
  BY <1>1, TimerStart DEF Inside
<1> HIDE DEF m
<1>3. SameTimers(pda, exited)
  BY TimerStart, CleanupTimers, ExitTimers DEF m
<1> HIDE DEF exited
<1>4. SameTimers(pda, woken)
  BY <1>3 DEF SameTimers
<1>5. /\ {"timeout", "waiting"} \subseteq DOMAIN asleep
      /\ asleep.timeout = [pda.timeout EXCEPT ![PSB] = Deadline(t)]
      /\ asleep.waiting = [pda.waiting EXCEPT ![PSB] = TRUE]
  BY <1>3 DEF SameTimers
<1> HIDE DEF asleep, woken
<1>6. SameTimers(asleep, asleep)
  BY <1>5 DEF SameTimers
<1>7. SameTimers(asleep, queued)
  BY <1>6, RequeueTimers
<1> HIDE DEF queued
<1>8. /\ SameTimers(pda, Reschedule(exited, FALSE)) /\ SameTimers(pda, Reschedule(woken, FALSE))
      /\ SameTimers(asleep, Reschedule(queued, FALSE))
  BY <1>3, <1>4, <1>7, RescheduleTimers
<1>9. SameTimers(pda, pda') \/ SameTimers(asleep, pda')
  BY <1>1, <1>3, <1>4, <1>8
<1>10. QED
  BY <1>1, <1>2, <1>5, <1>9 DEF SameTimers

(* Every step keeps the history variable and the deadlines in agreement. *)
LEMMA StepTInv == TInv /\ [TNext]_tvars => TInv'
<1> SUFFICES ASSUME TInv, [TNext]_tvars PROVE TInv'
  OBVIOUS
<1>1. RInv /\ RInv'
  BY TNextIsNext, StepRInv DEF TInv
<1>2. /\ Timers(pda) /\ PTC \in 0 .. Ticks - 1 /\ PSB \in Psb
      /\ \A p \in Psb : pda.timeout[p] # 0 => pda.waiting[p]
  BY <1>1, TimerStart
<1>3. Ticks \in Nat \ {0, 1} /\ WaitTicks \subseteq 0 .. Ticks - 1
  BY ProgramAssumption
<1>4. left \in [Psb -> 0 .. Ticks] /\ \A p \in Psb : OnTime(p)
  BY DEF TInv
<1>5. ASSUME NEW c \in Conditions, NEW t \in WaitTicks, E_MW(c, t), left' = Begun(t) PROVE TInv'
  <2>1. /\ PTC' = PTC /\ ~ pda.waiting[PSB]
        /\ \/ SameTimers(pda, pda')
           \/ /\ pda'.timeout = [pda.timeout EXCEPT ![PSB] = Deadline(t)]
              /\ pda'.waiting = [pda.waiting EXCEPT ![PSB] = TRUE]
    BY <1>1, <1>5, WaitTimes
  <2>2. left' = [left EXCEPT ![PSB] = IF pda'.waiting[PSB] /\ t # 0 THEN t ELSE NoTimer]
    BY <1>5 DEF Begun
  <2>3. left' \in [Psb -> 0 .. Ticks]
    <3>1. (IF pda'.waiting[PSB] /\ t # 0 THEN t ELSE NoTimer) \in 0 .. Ticks
      BY <1>3, <1>5 DEF NoTimer
    <3>2. QED
      BY <1>4, <2>2, <3>1
  <2>4. ASSUME NEW p \in Psb, p # PSB PROVE OnTime(p)'
    BY <1>2, <1>4, <2>1, <2>2, <2>4 DEF OnTime, SameTimers, Timers
  <2>5. ASSUME NEW q \in Psb, q = PSB PROVE OnTime(q)'
    <3>1. CASE SameTimers(pda, pda')
      <4>1. pda.timeout[q] = 0 /\ pda'.timeout[q] = 0 /\ ~ pda'.waiting[q] /\ left'[q] = NoTimer
        BY <1>2, <1>4, <2>1, <2>2, <2>5, <3>1 DEF SameTimers, OnTime
      <4>2. QED
        BY <4>1 DEF OnTime
    <3>2. CASE /\ pda'.timeout = [pda.timeout EXCEPT ![PSB] = Deadline(t)]
               /\ pda'.waiting = [pda.waiting EXCEPT ![PSB] = TRUE]
      <4>1. pda'.timeout[q] = Deadline(t) /\ left'[q] = IF t # 0 THEN t ELSE NoTimer
        BY <1>2, <1>4, <2>2, <2>5, <3>2 DEF Timers
      <4>2. CASE t = 0
        BY <4>1, <4>2 DEF OnTime, Deadline
      <4>3. CASE t # 0
        <5>1. t \in 1 .. Ticks - 1
          BY <1>3, <4>3
        <5>2. /\ Deadline(t) \in 1 .. Ticks - 1
              /\ t \in {Distance(PTC, Deadline(t)), Distance(PTC, Deadline(t)) + 1}
          BY <1>2, <5>1, DeadlineAhead
        <5> DEFINE D == Deadline(t)
        <5>3. PTC' = PTC /\ pda'.timeout[q] = D /\ left'[q] = t /\ D # 0
          BY <2>1, <4>1, <4>3, <5>2
        <5> HIDE DEF D
        <5>4. QED
          BY <5>1, <5>2, <5>3 DEF OnTime, D
      <4>4. QED
        BY <4>2, <4>3
    <3>3. QED
      BY <2>1, <3>1, <3>2
  <2>6. QED
    BY <1>1, <2>3, <2>4, <2>5 DEF TInv
<1>6. ASSUME NEW n \in {0, 1}, left' = Counted(n) PROVE left' \in [Psb -> 0 .. Ticks]
  BY <1>3, <1>4, <1>6 DEF Counted, NoTimer
<1>7. CASE Preempt({}, TRUE) /\ left' = Counted(1)
  <2>1. ScannedAt(pda, pda', NextPTC) /\ PTC' = NextPTC
    BY <1>1, <1>7, TickScans
  <2>2. ASSUME NEW p \in Psb PROVE OnTime(p)'
    <3>1. left'[p] = IF left[p] = NoTimer \/ ~ pda'.waiting[p] THEN NoTimer
                     ELSE IF left[p] = 0 THEN 0 ELSE left[p] - 1
      BY <1>7 DEF Counted
    <3>2. CASE p \in Expired(pda, NextPTC)
      BY <2>1, <3>1, <3>2 DEF OnTime, ScannedAt
    <3>3. CASE p \notin Expired(pda, NextPTC) /\ pda.timeout[p] = 0
      BY <1>4, <2>1, <3>1, <3>3 DEF OnTime, ScannedAt
    <3>4. CASE p \notin Expired(pda, NextPTC) /\ pda.timeout[p] # 0
      <4> DEFINE D == pda.timeout[p]
                 L == left[p]
      <4>1. pda'.timeout[p] = D /\ pda'.waiting[p] /\ D # NextPTC /\ D # 0
        BY <1>2, <2>1, <3>4 DEF ScannedAt, Expired
      <4>2. /\ D \in 1 .. Ticks - 1 /\ L \in 1 .. Ticks - 1
            /\ L \in {Distance(PTC, D), Distance(PTC, D) + 1}
        BY <1>4, <3>4 DEF OnTime
      <4> HIDE DEF D, L
      <4>3. /\ NextPTC \in 1 .. Ticks - 1 /\ Distance(PTC, D) >= 1
            /\ Distance(NextPTC, D) = Distance(PTC, D) - 1
        BY <1>2, <4>1, <4>2, TickNearer
      <4>4. Distance(NextPTC, D) >= 1
        BY <1>3, <4>2, <4>3 DEF Distance
      <4>5. Distance(PTC, D) \in Int /\ L # NoTimer /\ L # 0
        BY <1>2, <1>3, <4>2 DEF Distance, NoTimer
      <4>6. left'[p] = L - 1
        BY <3>1, <4>1, <4>5 DEF L
      <4>7. L - 1 \in 1 .. Ticks - 1 /\ L - 1 \in {Distance(NextPTC, D), Distance(NextPTC, D) + 1}
        BY <1>3, <4>2, <4>3, <4>4, <4>5
      <4>8. QED
        BY <2>1, <4>1, <4>2, <4>6, <4>7 DEF OnTime
    <3>5. QED
      BY <3>2, <3>3, <3>4
  <2>3. QED
    BY <1>1, <1>6, <1>7, <2>2 DEF TInv
<1>8. CASE /\ \/ \E wakeups \in SUBSET DOMAIN InterruptConditions : Preempt(wakeups, FALSE)
              \/ \E m \in Monitors : E_ME(m) \/ E_MX(m)
              \/ \E c \in Conditions : E_MR(c) \/ E_NC(c) \/ E_BC(c)
              \/ \E p \in Psb : Abort(p)
           /\ left' = Counted(0)
  <2>1. Rests(pda, pda') /\ PTC' = PTC
    BY <1>1, <1>8, QuietRests
  <2>2. ASSUME NEW p \in Psb PROVE OnTime(p)'
    <3>1. left'[p] = IF left[p] = NoTimer \/ ~ pda'.waiting[p] THEN NoTimer
                     ELSE IF left[p] = 0 THEN 0 ELSE left[p] - 0
      BY <1>8 DEF Counted
    <3>2. \/ pda'.timeout[p] = pda.timeout[p] /\ pda'.waiting[p] = pda.waiting[p]
          \/ pda'.timeout[p] = 0 /\ pda'.waiting[p] = FALSE
      BY <2>1 DEF Rests
    <3>3. CASE pda.timeout[p] = 0
      BY <1>4, <3>1, <3>2, <3>3 DEF OnTime
    <3>4. CASE pda'.timeout[p] = 0 /\ pda'.waiting[p] = FALSE
      BY <3>1, <3>4 DEF OnTime
    <3>5. CASE pda.timeout[p] # 0 /\ pda'.timeout[p] = pda.timeout[p] /\ pda'.waiting[p] = pda.waiting[p]
      <4>1. left'[p] = left[p]
        BY <1>2, <1>3, <1>4, <3>1, <3>5 DEF OnTime, NoTimer
      <4>2. QED
        BY <1>4, <2>1, <3>5, <4>1 DEF OnTime
    <3>6. QED
      BY <3>2, <3>3, <3>4, <3>5
  <2>3. QED
    BY <1>1, <1>6, <1>8, <2>2 DEF TInv
<1>9. CASE UNCHANGED tvars
  <2>1. UNCHANGED <<pda, PTC, left>>
    BY <1>9 DEF tvars, vars
  <2>2. \A p \in Psb : OnTime(p)'
    BY <1>4, <2>1 DEF OnTime
  <2>3. QED
    BY <1>1, <1>4, <2>1, <2>2 DEF TInv
<1>10. QED
  BY <1>5, <1>7, <1>8, <1>9 DEF TNext

(* No timer runs at the start. *)
LEMMA InitTInv == TInit => TInv
<1> SUFFICES ASSUME TInit PROVE TInv
  OBVIOUS
<1>1. RInv
  BY InitRInv DEF TInit
<1>2. pda.timeout = [p \in Psb |-> 0] /\ left = [p \in Psb |-> NoTimer]
  BY DEF TInit, Init
<1>3. left \in [Psb -> 0 .. Ticks] /\ \A p \in Psb : OnTime(p)
  BY <1>2, ProgramAssumption DEF NoTimer, OnTime
<1>4. QED
  BY <1>1, <1>3 DEF TInv

(* A wait of t ticks is over after t ticks: no process that still waits has  *)
(* used them up, also when PTC wraps meanwhile.                             *)
THEOREM WaitsNeverTooLong == TSpec => []NoWaitTooLong
<1>1. TInv => NoWaitTooLong
  BY ProgramAssumption DEF TInv, OnTime, NoWaitTooLong, NoTimer
<1>2. QED
  BY InitTInv, StepTInv, <1>1, PTL DEF TSpec

(* A wait ends by timeout at its last tick or, as when PTC skipped 0         *)
(* meanwhile, at the last but one; never earlier, and never without timer.  *)
THEOREM WaitsNeverTooShort == TSpec => NoWaitTooShort
<1> DEFINE OnlyInTime == \A p \in Psb : (PTC' # PTC /\ pda.waiting[p] /\ ~ pda'.waiting[p]) => left[p] \in {1, 2}
<1>1. TInv /\ [TNext]_tvars => OnlyInTime
  <2> SUFFICES ASSUME TInv, [TNext]_tvars, NEW p \in Psb,
                      PTC' # PTC, pda.waiting[p], ~ pda'.waiting[p]
               PROVE  left[p] \in {1, 2}
    OBVIOUS
  <2>1. RInv /\ OnTime(p) /\ PTC \in 0 .. Ticks - 1
    BY TimerStart DEF TInv
  <2>2. Preempt({}, TRUE)
    <3>1. ASSUME NEW c \in Conditions, NEW t, E_MW(c, t) PROVE FALSE
      BY <3>1 DEF E_MW
    <3>2. QED
      BY <2>1, <3>1, QuietRests DEF TNext, tvars, vars
  <2>3. ScannedAt(pda, pda', NextPTC)
    BY <2>1, <2>2, TickScans
  <2>4. pda.timeout[p] # 0 /\ pda.timeout[p] = NextPTC
    BY <2>3 DEF ScannedAt, Expired
  <2>5. Distance(PTC, pda.timeout[p]) = 1
    BY <2>1, <2>4, TickNearer DEF OnTime
  <2>6. QED
    BY <2>1, <2>4, <2>5 DEF OnTime
<1>2. QED
  BY InitTInv, StepTInv, <1>1, PTL DEF TSpec, NoWaitTooShort
=============================================================================
