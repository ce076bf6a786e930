-------------------------- MODULE RefinementProofs --------------------------
(***************************************************************************)
(* For any number of processes, monitors, conditions, priorities, interrupt *)
(* levels and timers: the process opcodes implement Mesa monitors.          *)
(***************************************************************************)
EXTENDS SchedulerProofs, ProcessRefinement

(* What MesaMonitors sees of a process data area is the same in d and e. *)
SeenSame(d, e) ==
  /\ e.waiting = d.waiting /\ e.wakeup = d.wakeup /\ e.abort = d.abort /\ e.pri = d.pri
  /\ Order(e) = Order(d)

(* MesaMonitors sees the order of the waiters. *)
LEMMA SeenOrder == Ahead = Order(pda) /\ Ahead' = Order(pda')
  BY DEF Ahead, Order

(* What two steps in a row do not show, both do not show. *)
LEMMA SeenOn ==
  ASSUME NEW d, NEW e, NEW g, SeenSame(d, e), SeenSame(e, g)
  PROVE  SeenSame(d, g)
  BY DEF SeenSame

(* A step that changes nothing MesaMonitors sees stutters. *)
LEMMA Unseen ==
  ASSUME SeenSame(pda, pda'), pc' = pc
  PROVE  UNCHANGED Abstract!mvars
<1>1. Place' = Place
  BY DEF Place, PlaceOf, SeenSame
<1>2. QED
  BY <1>1, SeenOrder DEF SeenSame, Abstract!mvars

(* Reschedule is no business of the monitors: it changes registers.         *)
LEMMA RescheduleUnseen ==
  ASSUME NEW d, DOMAIN d = Fields, NEW b
  PROVE  SeenSame(d, Reschedule(d, b))
<1> DEFINE d1 == IF d.running THEN SaveProcess(d, b) ELSE d
           first == FirstRunnable(d1)
           p == CHOOSE x \in first : TRUE
           e == Reschedule(d, b)
           Same == {"next", "cleanup", "tail", "waiting", "wakeup", "abort", "pri"}
<1>1. e = IF first = {} THEN [d1 EXCEPT !.running = FALSE]
          ELSE [LoadProcess(d1, p) EXCEPT !.PSB = p, !.running = TRUE]
  BY DEF Reschedule
<1>2. DOMAIN d1 = Fields /\ \A n \in Same : d1[n] = d[n]
  BY DEF SaveProcess, Fields
<1> HIDE DEF d1, first
<1>3. DOMAIN LoadProcess(d1, p) = Fields /\ \A n \in Same : LoadProcess(d1, p)[n] = d[n]
  <2> HIDE DEF p
  <2>1. QED
    BY <1>2 DEF LoadProcess, Fields
<1> HIDE DEF p, e
<1>4. DOMAIN e = Fields /\ \A n \in Same : e[n] = d[n]
  BY <1>1, <1>2, <1>3 DEF Fields
<1>5. Order(e) = Order(d)
  BY <1>4, OrderFields
<1>6. QED
  BY <1>4, <1>5 DEF SeenSame, e

(* A step that may end in a Reschedule. *)
LEMMA ThenUnseen ==
  ASSUME NEW d, DOMAIN d = Fields, NEW b, NEW e \in {d, Reschedule(d, b)}
  PROVE  SeenSame(d, e)
  BY RescheduleUnseen DEF SeenSame

(* Where a process is. *)
LEMMA Whereabouts ==
  ASSUME NEW waits
  PROVE  /\ PlaceOf(Outside, waits) = <<"out">>
         /\ \A m : PlaceOf(Entering(m), waits) = <<"enter", m>>
         /\ \A m : PlaceOf(Inside(m), waits) = <<"in", m>>
         /\ \A c : PlaceOf(Reentering(c), waits) =
                     IF waits THEN <<"wait", c>> ELSE <<"reenter", c>>
  BY DEF PlaceOf, Outside, Entering, Inside, Reentering

(* A process goes from one place to another. *)
LEMMA PlaceStep ==
  ASSUME pc \in [Psb -> PcType], NEW p \in Psb, NEW x, pc' = [pc EXCEPT ![p] = x],
         \A y \in Psb \ {p} : pda'.waiting[y] = pda.waiting[y]
  PROVE  Place' = [Place EXCEPT ![p] = PlaceOf(x, pda'.waiting[p])]
<1>1. pc'[p] = x /\ \A y \in Psb \ {p} : pc'[y] = pc[y]
  OBVIOUS
<1>2. QED
  BY <1>1 DEF Place

(* The monitors and conditions of MesaMonitors, seen from the process data area. *)
Matched(h) ==
  /\ \A p \in Psb : pda.waiting[p] <=> h[p] \in Conditions
  /\ \A p \in Psb : h[p] \in Conditions => pc[p] = Reentering(h[p])
  /\ \A p \in Psb : h[p] \in Conditions => Place[p] = <<"wait", h[p]>>
  /\ \A p \in Psb : \A c : Place[p] = <<"wait", c>> => c \in Conditions /\ h[p] = c
  /\ \A p \in Psb, m \in Monitors : Place[p] = <<"in", m>> <=> pc[p] = Inside(m)

(* What the queues say of the waiters is what MesaMonitors says of them.     *)
LEMMA Matches ==
  ASSUME pc \in [Psb -> PcType], NEW h, Settled(pda, h, Target(pc))
  PROVE  Matched(h)
<1>1. PICK T \in [Queues -> Psb \cup {Null}] : Rings(pda, h, Target(pc), T)
  BY DEF Settled, Orderly
<1>2. \A p \in Psb : pda.waiting[p] <=> h[p] \in Conditions
  BY DEF Settled, Marked
<1>3. ASSUME NEW p \in Psb, h[p] \in Conditions PROVE pc[p] = Reentering(h[p])
  <2>1. Target(pc)[p] = h[p] /\ h[p] # Nil
    BY <1>1, <1>3, Kinds DEF Rings
  <2>2. pc[p].at = "reenter" /\ pc[p].c = h[p]
    BY <2>1 DEF Target
  <2>3. QED
    BY <2>2 DEF PcType, Outside, Entering, Inside, Reentering
<1>4. ASSUME NEW p \in Psb, h[p] \in Conditions PROVE Place[p] = <<"wait", h[p]>>
  BY <1>2, <1>3, <1>4, Whereabouts DEF Place
<1>5. ASSUME NEW p \in Psb, NEW c, Place[p] = <<"wait", c>> PROVE c \in Conditions /\ h[p] = c
  <2>1. pda.waiting[p]
    BY <1>5 DEF Place, PlaceOf, PcType, Outside, Entering, Inside, Reentering
  <2>2. QED
    BY <1>2, <1>4, <1>5, <2>1
<1>6. ASSUME NEW p \in Psb, NEW m \in Monitors PROVE Place[p] = <<"in", m>> <=> pc[p] = Inside(m)
  BY DEF Place, PlaceOf, PcType, Outside, Entering, Inside, Reentering
<1>7. QED
  BY <1>2, <1>3, <1>4, <1>5, <1>6 DEF Matched

(* Who waits on a condition, and who is first. *)
LEMMA MatchedWaiters ==
  ASSUME NEW h, Matched(h), NEW c \in Conditions
  PROVE  /\ Abstract!Waiting(c) = Members(h, c)
         /\ Abstract!First(c) = Foremost(pda, h, c)
<1>1. Abstract!Waiting(c) = Members(h, c)
  BY DEF Matched, Members, Abstract!Waiting
<1>2. QED
  BY <1>1, SeenOrder DEF Abstract!First, Foremost

(* A monitor is free when it is not locked. *)
LEMMA MatchedFree ==
  ASSUME IInv, NEW h, Matched(h), NEW m \in Monitors
  PROVE  Abstract!Free(m) <=> ~ pda.locked[m]
  BY DEF IInv, Within, Matched, Abstract!Free

(* What every step of a running process starts from. *)
LEMMA BeginMatched ==
  ASSUME RInv
  PROVE  /\ IInv /\ pc \in [Psb -> PcType] /\ DOMAIN pda = Fields
         /\ \E h \in [Psb -> Queues] :
              /\ Settled(pda, h, Target(pc)) /\ Scheduled(pda, h) /\ Protocol(pda, h, pc)
              /\ Matched(h)
<1>1. pc \in [Psb -> PcType]
  BY Begin DEF IInv
<1>2. QED
  BY <1>1, Begin, Matches, SettledFields

(* A process goes from one queue to another, neither of them a condition.   *)
LEMMA RequeueUnseen ==
  ASSUME NEW d, DOMAIN d = Fields, NEW h \in [Psb -> Queues], NEW w, Orderly(d, h, w),
         NEW p \in Psb, h[p] \notin Conditions, NEW q \in Queues \ Conditions
  PROVE  LET e == Requeue(d, h[p], q, p) IN DOMAIN e = Fields /\ SeenSame(d, e)
<1> DEFINE e == Requeue(d, h[p], q, p)
<1>1. Relinked(d, e) /\ Order(e) = OrderMoved(d, h, q, p)
  BY RequeueTold
<1> HIDE DEF e
<1>2. Order(e) = Order(d)
  <2> DEFINE X == {p}
  <2>1. X \in SUBSET Psb /\ \A y \in X : h[y] \notin Conditions
    OBVIOUS
  <2>2. Order(e) = Gone(Order(d), X)
    BY <1>1 DEF OrderMoved
  <2> HIDE DEF X
  <2>3. QED
    BY <2>1, <2>2, GoneNone
<1>3. QED
  BY <1>1, <1>2 DEF Relinked, SeenSame, Fields, e

(* A process that fails to enter a monitor is where it was. *)
LEMMA EnterFailedUnseen ==
  ASSUME RInv, pda.running, NEW m \in Monitors
  PROVE  SeenSame(pda, EnterFailed(pda, m))
<1> DEFINE s == [pda EXCEPT !.failed[PSB] = TRUE]
           e == Requeue(s, Ready, m, PSB)
<1>1. PICK h \in [Psb -> Queues] : Settled(pda, h, Target(pc)) /\ h[PSB] = Ready
  BY BeginRun
<1>2. PSB \in Psb /\ m \in Queues \ Conditions /\ h[PSB] \notin Conditions
  BY <1>1, BeginRun, Kinds
<1>3. /\ DOMAIN s = Fields /\ IsPda(s)
      /\ \A n \in {"next", "pri", "cleanup", "tail", "waiting", "timeout", "wakeup", "abort"} :
           s[n] = pda[n]
  BY <1>1 DEF Settled, IsPda, Fields
<1> HIDE DEF s
<1>4. Orderly(s, h, Target(pc)) /\ SeenSame(pda, s)
  <2>1. Orderly(pda, h, Target(pc))
    BY <1>1 DEF Settled
  <2>2. /\ s.next = pda.next /\ s.pri = pda.pri /\ s.cleanup = pda.cleanup /\ s.tail = pda.tail
        /\ s.waiting = pda.waiting /\ s.wakeup = pda.wakeup /\ s.abort = pda.abort
    BY <1>3
  <2>3. QED
    BY <1>3, <2>1, <2>2, OrderlySame DEF SeenSame
<1>5. DOMAIN e = Fields /\ SeenSame(s, e)
  BY <1>1, <1>2, <1>3, <1>4, RequeueUnseen
<1>6. EnterFailed(pda, m) = Reschedule(e, FALSE)
  BY DEF EnterFailed, PSB, s
<1> HIDE DEF e
<1>7. SeenSame(e, EnterFailed(pda, m))
  BY <1>5, <1>6, RescheduleUnseen
<1>8. QED
  BY <1>4, <1>5, <1>7, SeenOn

(* Monitor entry. *)
LEMMA ImplementsME ==
  ASSUME RInv, NEW m \in Monitors, E_ME(m)
  PROVE  [Abstract!MNext]_(Abstract!mvars)
<1>1. PICK h \in [Psb -> Queues] : Settled(pda, h, Target(pc)) /\ Matched(h)
  BY BeginMatched
<1>2. IInv /\ PSB \in Psb /\ pc \in [Psb -> PcType] /\ DOMAIN pda = Fields
  BY BeginRun, BeginMatched DEF E_ME
<1>3. pc[PSB] \in {Outside, Entering(m)}
  BY DEF E_ME
<1>4. Place[PSB] \in {<<"out">>, <<"enter", m>>}
  BY <1>2, <1>3, Whereabouts DEF Place
<1>5. CASE pda.locked[m]
  <2>1. pda' = EnterFailed(pda, m) /\ pc' = [pc EXCEPT ![PSB] = Entering(m)]
    BY <1>5 DEF E_ME
  <2>2. SeenSame(pda, pda')
    BY <2>1, EnterFailedUnseen DEF E_ME
  <2>3. CASE pc[PSB] = Entering(m)
    <3>1. pc' = pc
      BY <1>2, <2>1, <2>3
    <3>2. QED
      BY <2>2, <3>1, Unseen
  <2>4. CASE pc[PSB] = Outside
    <3>1. pda'.waiting = pda.waiting
      BY <2>2 DEF SeenSame
    <3>2. Place' = [Place EXCEPT ![PSB] = <<"enter", m>>]
      <4>1. Place' = [Place EXCEPT ![PSB] = PlaceOf(Entering(m), pda'.waiting[PSB])]
        BY <1>2, <2>1, <3>1, PlaceStep
      <4>2. QED
        BY <4>1, Whereabouts
    <3>3. Place[PSB] = <<"out">> /\ ~ Abstract!Free(m)
      BY <1>1, <1>2, <1>5, <2>4, MatchedFree, Whereabouts DEF Place
    <3>4. Abstract!Try(PSB, m)
      BY <2>2, <3>2, <3>3, SeenOrder DEF Abstract!Try, SeenSame
    <3>5. QED
      BY <1>2, <3>4 DEF Abstract!MNext
  <2>5. QED
    BY <1>3, <2>3, <2>4
<1>6. CASE ~ pda.locked[m]
  <2>1. pda' = [pda EXCEPT !.locked[m] = TRUE] /\ pc' = [pc EXCEPT ![PSB] = Inside(m)]
    BY <1>6 DEF E_ME
  <2>2. SeenSame(pda, pda')
    <3>1. DOMAIN pda' = Fields /\ \A n \in Fields \ {"locked"} : pda'[n] = pda[n]
      BY <1>2, <2>1 DEF Fields
    <3>2. Order(pda') = Order(pda)
      BY <1>2, <3>1, OrderFields DEF Fields
    <3>3. QED
      BY <3>1, <3>2 DEF SeenSame, Fields
  <2>3. pda'.waiting = pda.waiting
    BY <2>2 DEF SeenSame
  <2>4. Place' = [Place EXCEPT ![PSB] = <<"in", m>>]
    <3>1. Place' = [Place EXCEPT ![PSB] = PlaceOf(Inside(m), pda'.waiting[PSB])]
      BY <1>2, <2>1, <2>3, PlaceStep
    <3>2. QED
      BY <3>1, Whereabouts
  <2>5. Place[PSB][1] # "reenter" /\ Abstract!Free(m)
    BY <1>1, <1>2, <1>4, <1>6, MatchedFree
  <2>6. Abstract!Enter(PSB, m)
    BY <1>4, <2>2, <2>4, <2>5, SeenOrder DEF Abstract!Enter, SeenSame
  <2>7. QED
    BY <1>2, <2>6 DEF Abstract!MNext
<1>7. QED
  BY <1>5, <1>6

(* Exit moves the first process of the entry queue, which goes on retrying. *)
LEMMA ExitUnseen ==
  ASSUME NEW d, NEW h, NEW w, Settled(d, h, w), NEW m \in Monitors
  PROVE  DOMAIN Exit(d, m) = Fields /\ SeenSame(d, Exit(d, m))
<1>1. PICK h2 : Settled(Exit(d, m), h2, w) /\ ExitsTo(d, h, m, Exit(d, m), h2)
  BY SettledExit
<1>2. QED
  BY <1>1, SettledFields DEF ExitsTo, SeenSame, Fields

(* Monitor exit. *)
LEMMA ImplementsMX ==
  ASSUME RInv, NEW m \in Monitors, E_MX(m)
  PROVE  [Abstract!MNext]_(Abstract!mvars)
<1> DEFINE e == Exit(pda, m)
<1>1. /\ pda.running /\ pc[PSB] = Inside(m) /\ pc' = [pc EXCEPT ![PSB] = Outside]
      /\ pda' \in {e, Reschedule(e, FALSE)}
  BY DEF E_MX
<1>2. PICK h \in [Psb -> Queues] : Settled(pda, h, Target(pc)) /\ Matched(h)
  BY BeginMatched
<1>3. PSB \in Psb /\ pc \in [Psb -> PcType]
  BY <1>1, BeginRun
<1>4. DOMAIN e = Fields /\ SeenSame(pda, e)
  BY <1>2, ExitUnseen
<1> HIDE DEF e
<1>5. SeenSame(pda, pda')
  <2>1. SeenSame(e, pda')
    BY <1>1, <1>4, ThenUnseen
  <2>2. QED
    BY <1>4, <2>1, SeenOn
<1>6. Place' = [Place EXCEPT ![PSB] = <<"out">>]
  <2>1. pda'.waiting = pda.waiting
    BY <1>5 DEF SeenSame
  <2>2. Place' = [Place EXCEPT ![PSB] = PlaceOf(Outside, pda'.waiting[PSB])]
    BY <1>1, <1>3, <2>1, PlaceStep
  <2>3. QED
    BY <2>2, Whereabouts
<1>7. Place[PSB] = <<"in", m>>
  BY <1>1, <1>2, <1>3 DEF Matched
<1>8. Abstract!Leave(PSB, m)
  BY <1>5, <1>6, <1>7, SeenOrder DEF Abstract!Leave, SeenSame
<1>9. QED
  BY <1>3, <1>8 DEF Abstract!MNext

(* The wakeup bits once those of bell are set. *)
WithBell(d, bell) == [c \in Conditions |-> d.wakeup[c] \/ c \in bell]

(* The processes that leave their conditions are those that MesaMonitors     *)
(* awakens.                                                                  *)
LEMMA Awakens ==
  ASSUME pc \in [Psb -> PcType], pc' = pc, NEW h \in [Psb -> Queues], Matched(h),
         NEW s, Order(s) = Order(pda),
         NEW d, NEW h2, NEW w, Settled(d, h2, w), Woken(s, h, d, h2), SeenSame(d, pda'),
         NEW bell, d.wakeup = WithBell(pda, bell)
  PROVE  Abstract!Awaken(Movers(h, h2), bell) /\ pda'.abort = s.abort /\ pda'.pri = s.pri
<1> DEFINE go == Movers(h, h2)
<1>1. \A p \in Psb : pda'.waiting[p] <=> h2[p] \in Conditions
  BY DEF Settled, Marked, SeenSame
<1>2. ASSUME NEW p \in Psb
      PROVE  Place'[p] = IF p \in go THEN <<"reenter", Place[p][2]>> ELSE Place[p]
  <2>1. CASE p \in go
    <3>1. h[p] \in Conditions /\ h2[p] = Ready
      BY <2>1 DEF Movers, Woken
    <3>2. pc'[p] = Reentering(h[p]) /\ Place[p] = <<"wait", h[p]>> /\ ~ pda'.waiting[p]
      BY <1>1, <3>1, Kinds DEF Matched
    <3>3. Place'[p] = <<"reenter", h[p]>>
      BY <3>1, <3>2, Whereabouts DEF Place
    <3>4. QED
      BY <2>1, <3>2, <3>3
  <2>2. CASE p \notin go
    <3>1. h2[p] = h[p]
      BY <2>2 DEF Movers
    <3>2. pda'.waiting[p] <=> pda.waiting[p]
      BY <1>1, <3>1 DEF Matched
    <3>3. PlaceOf(pc[p], pda'.waiting[p]) = PlaceOf(pc[p], pda.waiting[p])
      BY <3>2 DEF PlaceOf
    <3>4. QED
      BY <2>2, <3>3 DEF Place
  <2>3. QED
    BY <2>1, <2>2
<1>3. Place' = [p \in Psb |-> IF p \in go THEN <<"reenter", Place[p][2]>> ELSE Place[p]]
  BY <1>2 DEF Place
<1>4. Ahead' = [p \in Psb |-> IF p \in go THEN {} ELSE Ahead[p] \ go]
  <2>1. Ahead' = Gone(Ahead, go)
    BY SeenOrder DEF Woken, SeenSame
  <2>2. QED
    BY <2>1 DEF Gone
<1>5. pda'.wakeup = [c \in Conditions |-> pda.wakeup[c] \/ c \in bell]
  BY Zenon DEF SeenSame, WithBell
<1>6. pda'.abort = s.abort /\ pda'.pri = s.pri
  BY DEF Woken, SeenSame, Fields
<1> HIDE DEF go
<1>7. Abstract!Awaken(go, bell)
  BY <1>3, <1>4, <1>5, Zenon DEF Abstract!Awaken
<1>8. QED
  BY <1>6, <1>7 DEF go

(* What the wakeup bits of a process data area have to be for that. *)
LEMMA BellHeard ==
  ASSUME NEW d, NEW f \in [Conditions -> BOOLEAN], NEW bell,
         \A c \in Conditions : f[c] <=> d.wakeup[c] \/ c \in bell
  PROVE  f = WithBell(d, bell)
<1> DEFINE g == WithBell(d, bell)
<1>1. ASSUME NEW c \in Conditions PROVE g[c] = f[c]
  <2>1. g[c] = (d.wakeup[c] \/ c \in bell)
    BY Zenon DEF WithBell
  <2>2. f[c] \in BOOLEAN /\ (f[c] <=> d.wakeup[c] \/ c \in bell)
    OBVIOUS
  <2>3. ASSUME NEW x, NEW y, NEW a \in BOOLEAN, a <=> x \/ y PROVE a = (x \/ y)
    BY <2>3
  <2>4. f[c] = (d.wakeup[c] \/ c \in bell)
    BY <2>2, <2>3, Zenon
  <2> HIDE DEF g
  <2>5. QED
    BY <2>1, <2>4, Zenon
<1>2. g = [c \in Conditions |-> g[c]]
  BY Zenon DEF WithBell
<1> HIDE DEF g
<1>3. f = g
  BY <1>1, <1>2
<1>4. QED
  BY <1>3 DEF g

(* No bell is heard. *)
LEMMA NoBell ==
  ASSUME NEW d, d.wakeup \in [Conditions -> BOOLEAN]
  PROVE  WithBell(d, {}) = d.wakeup
  BY BellHeard

(* Following the cleanup links of a condition. *)
LEMMA CleanupUnseen ==
  ASSUME NEW d, NEW h, NEW w, Settled(d, h, w), NEW c \in Conditions
  PROVE  LET e == CleanupCondition(d, c)
         IN  DOMAIN e = Fields /\ SeenSame(d, e) /\ Woken(d, h, e, h)
<1> DEFINE e == CleanupCondition(d, c)
<1>1. /\ Settled(e, h, w) /\ Woken(d, h, e, h)
      /\ \A n \in Fields \ {"tail"} : e[n] = d[n]
  BY SettledCleanup
<1> HIDE DEF e
<1>2. Order(e) = Order(d)
  <2>1. Movers(h, h) = {}
    BY DEF Movers
  <2>2. Order(e) = Gone(Order(d), {})
    BY <1>1, <2>1 DEF Woken
  <2>3. QED
    BY <2>2 DEF Gone, Order
<1>3. QED
  BY <1>1, <1>2, SettledFields DEF SeenSame, Fields, e

(* Notify and broadcast. *)
LEMMA ImplementsNC ==
  ASSUME RInv, NEW c \in Conditions, E_NC(c) \/ E_BC(c)
  PROVE  [Abstract!MNext]_(Abstract!mvars)
<1> DEFINE d == CleanupCondition(pda, c)
           w == Target(pc)
<1>1. /\ pc' = pc
      /\ \E e \in {WakeHead(d, c), WakeAll(d, c)} :
           pda' = IF HasQueue(d, c) THEN Reschedule(e, FALSE) ELSE d
  BY DEF E_NC, E_BC
<1>2. PICK h \in [Psb -> Queues] : Settled(pda, h, w) /\ Matched(h)
  BY BeginMatched
<1>3. pc \in [Psb -> PcType]
  BY BeginMatched
<1>4. /\ Settled(d, h, w) /\ ~ Stale(d, c)
      /\ Woken(pda, h, d, h) /\ SeenSame(pda, d)
  BY <1>2, SettledCleanup, CleanupUnseen
<1>5. Abstract!Waiting(c) = Members(h, c) /\ Abstract!First(c) = Foremost(d, h, c)
  BY <1>2, <1>4, MatchedWaiters DEF Foremost, SeenSame
<1>6. HasQueue(d, c) <=> Members(h, c) # {}
  BY <1>4, FreshHead
<1> HIDE DEF w
<1>7. CASE ~ HasQueue(d, c)
  BY <1>1, <1>4, <1>7, Unseen
<1>8. ASSUME NEW e, NEW h2, Settled(e, h2, w), Woken(d, h, e, h2), e.wakeup = d.wakeup,
             HasQueue(d, c), pda' = Reschedule(e, FALSE),
             Movers(h, h2) \in {Foremost(d, h, c), Members(h, c)}
      PROVE  Abstract!Notify(c)
  <2> HIDE DEF d
  <2>1. Woken(pda, h, e, h2)
    BY <1>4, <1>8, WokenOn
  <2>2. e.wakeup = WithBell(pda, {})
    <3>1. pda.wakeup \in [Conditions -> BOOLEAN] /\ e.wakeup = pda.wakeup
      BY <1>2, <1>4, <1>8 DEF Settled, Stored, SeenSame
    <3>2. QED
      BY <3>1, NoBell, Zenon
  <2>3. SeenSame(e, pda')
    BY <1>8, RescheduleUnseen, SettledFields
  <2>4. Abstract!Awaken(Movers(h, h2), {}) /\ pda'.abort = pda.abort /\ pda'.pri = pda.pri
    BY <1>1, <1>2, <1>3, <1>8, <2>1, <2>2, <2>3, Awakens
  <2>5. QED
    BY <1>5, <1>6, <1>8, <2>4, Zenon DEF Abstract!Notify
<1>9. CASE HasQueue(d, c) /\ pda' = Reschedule(WakeHead(d, c), FALSE)
  <2> DEFINE p == HeadOf(d, c)
             e == WakeHead(d, c)
             h2 == [h EXCEPT ![p] = Ready]
  <2>1. /\ p \in Psb /\ h[p] = c /\ Settled(e, h2, w) /\ Woken(d, h, e, h2)
        /\ e.wakeup = d.wakeup
    BY <1>4, <1>9, SettledWake
  <2>2. Movers(h, h2) = {p}
    BY <2>1, MoverOne, Kinds
  <2>3. Foremost(d, h, c) = {p}
    BY <1>4, <1>9, FreshHead
  <2> HIDE DEF e, h2, p
  <2>4. Abstract!Notify(c)
    BY <1>8, <1>9, <2>1, <2>2, <2>3 DEF e
  <2>5. QED
    BY <2>4 DEF Abstract!MNext
<1>10. CASE HasQueue(d, c) /\ pda' = Reschedule(WakeAll(d, c), FALSE)
  <2> DEFINE e == WakeAll(d, c)
  <2>1. PICK h2 : /\ Settled(e, h2, w) /\ Woken(d, h, e, h2)
                  /\ e.wakeup = d.wakeup /\ Movers(h, h2) = Members(h, c)
    BY <1>4, SettledWakeAll
  <2> HIDE DEF e
  <2>2. Abstract!Notify(c)
    BY <1>8, <1>10, <2>1 DEF e
  <2>3. QED
    BY <2>2 DEF Abstract!MNext
<1>11. QED
  BY <1>1, <1>7, <1>9, <1>10

(* REQ. *)
LEMMA ImplementsREQ ==
  ASSUME RInv, NEW src \in {Ready} \cup PlainQueues, NEW dst \in {Ready} \cup PlainQueues,
         NEW p \in Psb, E_REQ(src, dst, p)
  PROVE  [Abstract!MNext]_(Abstract!mvars)
<1> DEFINE e == Requeue(pda, src, dst, p)
<1>1. /\ pda.running /\ pc' = pc /\ pda' = Reschedule(e, FALSE)
      /\ (src = Ready /\ p = PSB) \/ p \in Ring(pda, src)
  BY DEF E_REQ
<1>2. PICK h \in [Psb -> Queues] : Settled(pda, h, Target(pc)) /\ h[PSB] = Ready
  BY <1>1, BeginRun
<1>3. h[p] = src
  BY <1>1, <1>2, Requested
<1>4. /\ Orderly(pda, h, Target(pc)) /\ DOMAIN pda = Fields
      /\ h[p] \notin Conditions /\ dst \in Queues \ Conditions
  BY <1>2, <1>3, SettledFields, Kinds DEF Settled
<1>5. DOMAIN e = Fields /\ SeenSame(pda, e)
  BY <1>3, <1>4, RequeueUnseen
<1> HIDE DEF e
<1>6. SeenSame(e, pda')
  BY <1>1, <1>5, RescheduleUnseen
<1>7. SeenSame(pda, pda')
  BY <1>5, <1>6, SeenOn
<1>8. QED
  BY <1>1, <1>7, Unseen

(* Abort. *)
LEMMA ImplementsAbort ==
  ASSUME RInv, NEW p \in Psb, Abort(p)
  PROVE  [Abstract!MNext]_(Abstract!mvars)
<1> DEFINE flagged == [pda EXCEPT !.abort[p] = TRUE]
           asleep == [flagged EXCEPT !.waiting[p] = FALSE, !.timeout[p] = 0]
           e == Requeue(asleep, Nil, Ready, p)
           c == pc[p].c
<1>1. /\ pc' = pc /\ pc[p].at = "reenter" /\ ~ pda.abort[p]
      /\ pda' = IF pda.waiting[p] /\ c \in Abortable THEN Reschedule(e, FALSE) ELSE flagged
  BY DEF Abort
<1>2. PICK h \in [Psb -> Queues] :
        Settled(pda, h, Target(pc)) /\ Protocol(pda, h, pc) /\ Matched(h)
  BY BeginMatched
<1>3. pc \in [Psb -> PcType] /\ DOMAIN pda = Fields
  BY BeginMatched
<1>4. /\ IsPda(flagged) /\ \A n \in Fields \ {"abort"} : flagged[n] = pda[n]
      /\ flagged.abort = [pda.abort EXCEPT ![p] = TRUE]
  BY <1>2 DEF Settled, IsPda, Fields
<1>5. /\ flagged.wakeup = pda.wakeup /\ flagged.waiting = pda.waiting /\ flagged.pri = pda.pri
      /\ Order(flagged) = Order(pda)
  <2>1. DOMAIN flagged = Fields /\ \A n \in Fields \ {"abort"} : flagged[n] = pda[n]
    BY <1>4 DEF IsPda
  <2> HIDE DEF flagged
  <2>2. Order(flagged) = Order(pda)
    BY <1>3, <2>1, OrderFields DEF Fields
  <2>3. QED
    BY <2>1, <2>2 DEF Fields
<1>6. Settled(flagged, h, Target(pc))
  BY <1>2, <1>4, SettledSame DEF Fields
<1>7. Place[p] = IF pda.waiting[p] THEN <<"wait", c>> ELSE <<"reenter", c>>
  BY <1>1 DEF Place, PlaceOf
<1> HIDE DEF c
<1>8. CASE pda.waiting[p] /\ c \in Abortable
  <2> DEFINE h2 == [h EXCEPT ![p] = Ready]
  <2>1. h[p] \in Conditions
    BY <1>2, <1>8 DEF Matched
  <2>2. pda' = Reschedule(e, FALSE)
    BY <1>1, <1>8
  <2>3. Settled(e, h2, Target(pc)) /\ Woken(flagged, h, e, h2) /\ e.wakeup = flagged.wakeup
    <3> HIDE DEF flagged
    <3>1. QED
      BY <1>6, <2>1, SettledLeave
  <2>4. Movers(h, h2) = {p}
    BY <2>1, Kinds, MoverOne
  <2> HIDE DEF e, h2, flagged
  <2>5. e.wakeup = WithBell(pda, {})
    BY <1>2, <1>5, <2>3, NoBell DEF Settled, Stored
  <2>6. SeenSame(e, pda')
    BY <2>2, <2>3, SettledFields, RescheduleUnseen
  <2>7. /\ Abstract!Awaken({p}, {})
        /\ pda'.abort = flagged.abort /\ pda'.pri = flagged.pri
    <3>1. pc' = pc /\ Matched(h) /\ Order(flagged) = Order(pda)
      BY <1>1, <1>2, <1>5
    <3>2. /\ Abstract!Awaken(Movers(h, h2), {})
          /\ pda'.abort = flagged.abort /\ pda'.pri = flagged.pri
      BY <1>3, <2>3, <2>5, <2>6, <3>1, Awakens
    <3>3. QED
      BY <2>4, <3>2
  <2>8. Place[p][1] = "wait" /\ Place[p][2] \in Abortable
    BY <1>7, <1>8
  <2>9. Abstract!AbortProcess(p)
    BY <1>1, <1>4, <1>5, <2>7, <2>8, Zenon DEF Abstract!AbortProcess
  <2>10. QED
    BY <2>9 DEF Abstract!MNext
<1>9. CASE ~ (pda.waiting[p] /\ c \in Abortable)
  <2>1. pda' = flagged
    BY <1>1, <1>9
  <2>2. Place' = Place /\ Ahead' = Ahead
    <3>1. pda'.waiting = pda.waiting
      BY <1>5, <2>1
    <3>2. Place' = Place
      BY <1>1, <3>1 DEF Place, PlaceOf
    <3>3. Order(pda') = Order(pda)
      BY <1>5, <2>1
    <3>4. QED
      BY <3>2, <3>3, SeenOrder
  <2>3. /\ Place[p][1] \in {"wait", "reenter"}
        /\ ~ (Place[p][1] = "wait" /\ Place[p][2] \in Abortable)
    BY <1>7, <1>9
  <2> HIDE DEF flagged
  <2>4. Abstract!AbortProcess(p)
    BY <1>1, <1>4, <1>5, <2>1, <2>2, <2>3 DEF Abstract!AbortProcess
  <2>5. QED
    BY <2>4 DEF Abstract!MNext
<1>10. QED
  BY <1>8, <1>9

(* SPP. *)
LEMMA ImplementsSPP ==
  ASSUME RInv, NEW k \in SettablePriorities, E_SPP(k)
  PROVE  [Abstract!MNext]_(Abstract!mvars)
<1> DEFINE s == [pda EXCEPT !.pri[PSB] = k]
           e == Requeue(s, Ready, Ready, PSB)
<1>1. pda.running /\ pc' = pc /\ pda' = Reschedule(e, FALSE)
  BY DEF E_SPP
<1>2. PICK h \in [Psb -> Queues] : Settled(pda, h, Target(pc)) /\ h[PSB] = Ready
  BY <1>1, BeginRun
<1>3. PSB \in Psb /\ pc \in [Psb -> PcType] /\ k \in Priority
  BY <1>1, BeginRun, ProgramAssumption
<1>4. /\ Settled(e, h, Target(pc)) /\ Relinked(s, e) /\ IsPda(s)
      /\ Order(e) = Order(pda)
  BY <1>2, <1>3, SettledRank
<1>5. (\A n \in Fields \ {"pri"} : s[n] = pda[n]) /\ s.pri = [pda.pri EXCEPT ![PSB] = k]
  BY <1>2 DEF Settled, IsPda, Fields
<1> HIDE DEF s, e
<1>6. /\ e.waiting = pda.waiting /\ e.wakeup = pda.wakeup /\ e.abort = pda.abort
      /\ e.pri = [pda.pri EXCEPT ![PSB] = k]
  BY <1>4, <1>5 DEF Relinked, Fields
<1>7. SeenSame(e, pda')
  BY <1>1, <1>4, SettledFields, RescheduleUnseen
<1>8. Place' = Place /\ Ahead' = Ahead
  <2>1. pda'.waiting = pda.waiting /\ Order(pda') = Order(pda)
    BY <1>4, <1>6, <1>7 DEF SeenSame
  <2>2. Place' = Place
    BY <1>1, <2>1 DEF Place, PlaceOf
  <2>3. QED
    BY <2>1, <2>2, SeenOrder
<1>9. Place[PSB][1] # "wait"
  <2>1. ~ pda.waiting[PSB]
    BY <1>2, <1>3, Kinds DEF Settled, Marked
  <2>2. QED
    BY <1>3, <2>1 DEF Place, PlaceOf, PcType, Outside, Entering, Inside, Reentering
<1>10. Abstract!SetPriority(PSB, k)
  BY <1>6, <1>7, <1>8, <1>9 DEF Abstract!SetPriority, SeenSame
<1>11. QED
  BY <1>3, <1>10 DEF Abstract!MNext

(* A process that waits on no condition goes to another queue. *)
LEMMA MatchedMove ==
  ASSUME NEW h \in [Psb -> Queues], Matched(h), NEW p \in Psb, h[p] \notin Conditions,
         NEW q \in Queues \ Conditions
  PROVE  Matched([h EXCEPT ![p] = q])
<1> DEFINE h2 == [h EXCEPT ![p] = q]
<1>1. \A x \in Psb : h2[x] = h[x] \/ (h2[x] \notin Conditions /\ h[x] \notin Conditions)
  OBVIOUS
<1> HIDE DEF h2
<1>2. Matched(h2)
  BY <1>1 DEF Matched
<1>3. QED
  BY <1>2 DEF h2

(* A fault: an instant at which one bell rings. *)
LEMMA ImplementsFault ==
  ASSUME RInv, NEW q \in DOMAIN FaultConditions, FaultStep(q)
  PROVE  [Abstract!MNext]_(Abstract!mvars)
<1> DEFINE w == Target(pc)
           c == FaultConditions[q]
           e == Requeue(pda, Ready, q, PSB)
           g == NotifyWakeup(e, c)
<1>1. pda.running /\ pc' = pc /\ pda' = Reschedule(g, TRUE)
  BY DEF FaultStep, Fault, PSB
<1>2. PICK h \in [Psb -> Queues] :
        Settled(pda, h, w) /\ Protocol(pda, h, pc) /\ h[PSB] = Ready
  BY <1>1, BeginRun
<1>3. /\ IInv /\ PSB \in Psb /\ pc \in [Psb -> PcType]
      /\ c \in Conditions /\ q \in PlainQueues
  BY <1>1, BeginRun, ProgramAssumption
<1> DEFINE h1 == [h EXCEPT ![PSB] = q]
<1>4. Settled(e, h1, w)
  <2>1. Parked(h, pda, PSB, q, Requeue(pda, h[PSB], q, PSB))
    BY <1>2, <1>3, Park
  <2>2. QED
    BY <1>2, <2>1 DEF Parked
<1>5. SeenSame(pda, e)
  <2>1. /\ Orderly(pda, h, w) /\ DOMAIN pda = Fields
        /\ h[PSB] \notin Conditions /\ q \in Queues \ Conditions
    BY <1>2, <1>3, SettledFields, Kinds DEF Settled
  <2> HIDE DEF w
  <2>2. QED
    BY <1>2, <1>3, <2>1, RequeueUnseen
<1>6. h1 \in [Psb -> Queues] /\ Matched(h1)
  BY <1>2, <1>3, Kinds, Matches, MatchedMove
<1> HIDE DEF w, c, e, h1
<1>7. PICK h2 : /\ Settled(g, h2, w) /\ Woken(e, h1, g, h2)
                /\ Notified(e, h1, c, g, h2)
  BY <1>3, <1>4, SettledNotify
<1> HIDE DEF g
<1> DEFINE bell == {x \in {c} : Abstract!Waiting(x) = {}}
<1>8. Abstract!Waiting(c) = Members(h1, c) /\ Abstract!First(c) = Movers(h1, h2)
  BY <1>3, <1>5, <1>6, <1>7, MatchedWaiters DEF Notified, Foremost, SeenSame
<1>9. g.wakeup = WithBell(pda, bell)
  <2>1. \A b : (b = c /\ Members(h1, c) = {}) <=> b \in bell
    BY <1>8
  <2>2. g.wakeup = [b \in Conditions |-> pda.wakeup[b] \/ (b = c /\ Members(h1, c) = {})]
    BY <1>5, <1>7, Zenon DEF Notified, SeenSame
  <2> HIDE DEF bell
  <2>3. \A b \in Conditions : g.wakeup[b] <=> pda.wakeup[b] \/ b \in bell
    BY <2>1, <2>2, Zenon
  <2>4. g.wakeup \in [Conditions -> BOOLEAN]
    BY <1>7 DEF Settled, Stored
  <2>5. QED
    BY <2>3, <2>4, BellHeard
<1>10. SeenSame(g, pda')
  BY <1>1, <1>7, SettledFields, RescheduleUnseen
<1> HIDE DEF bell
<1>11. /\ Abstract!Awaken(Movers(h1, h2), bell)
       /\ pda'.abort = e.abort /\ pda'.pri = e.pri
  <2>1. pc' = pc /\ Order(e) = Order(pda)
    BY <1>1, <1>5 DEF SeenSame
  <2>2. QED
    BY <1>3, <1>6, <1>7, <1>9, <1>10, <2>1, Awakens
<1>12. Abstract!Instant({c}, {})
  <2>1. (UNION {Abstract!First(x) : x \in {c}}) \cup {} = Movers(h1, h2)
    BY <1>8
  <2>2. pda'.abort = pda.abort /\ pda'.pri = pda.pri
    BY <1>5, <1>11 DEF SeenSame
  <2>3. QED
    BY <1>11, <2>1, <2>2, Zenon DEF Abstract!Instant, bell
<1>13. QED
  BY <1>3, <1>12 DEF Abstract!MNext

(* Monitor reentry. *)
LEMMA ImplementsMR ==
  ASSUME RInv, NEW c \in Conditions, E_MR(c)
  PROVE  [Abstract!MNext]_(Abstract!mvars)
<1> DEFINE m == MonitorOf[c]
           w == Target(pc)
           d == CleanupCondition(pda, c)
           left == [d EXCEPT !.cleanup[PSB] = Null]
<1>1. pda.running /\ pc[PSB] = Reentering(c)
  BY DEF E_MR
<1>2. PICK h \in [Psb -> Queues] : Settled(pda, h, w) /\ h[PSB] = Ready
  BY <1>1, BeginRun
<1>3. /\ IInv /\ PSB \in Psb /\ pc \in [Psb -> PcType] /\ DOMAIN pda = Fields
      /\ m \in Monitors /\ Matched(h)
  BY <1>1, <1>2, BeginRun, BeginMatched, Matches, ProgramAssumption
<1>4. Place[PSB] = <<"reenter", c>>
  <2>1. ~ pda.waiting[PSB]
    BY <1>2, <1>3, Kinds DEF Matched
  <2>2. QED
    BY <1>1, <1>3, <2>1, Whereabouts DEF Place
<1>5. Abstract!Free(m) <=> ~ pda.locked[m]
  BY <1>3, MatchedFree
<1>6. /\ Settled(d, h, w) /\ ~ Stale(d, c) /\ SeenSame(pda, d)
      /\ d.cleanup \in [Psb -> Psb \cup {Null}] /\ DOMAIN d = Fields
  BY <1>2, SettledCleanup, SettledFields, CleanupUnseen
<1>7. ASSUME NEW e, DOMAIN e = Fields, NEW n \in {"abort", "locked"},
             \A f \in Fields \ {n} : e[f] = left[f]
      PROVE  /\ e.waiting = pda.waiting /\ e.wakeup = pda.wakeup /\ e.pri = pda.pri
             /\ n # "abort" => e.abort = pda.abort
             /\ Order(e) = Order(pda)
  <2>1. \A f \in Fields \ {"cleanup", n} : e[f] = d[f]
    BY <1>6, <1>7 DEF Fields
  <2>2. e.cleanup = [d.cleanup EXCEPT ![PSB] = Null]
    BY <1>6, <1>7 DEF Fields
  <2> HIDE DEF d, left
  <2>3. e.next = d.next /\ e.pri = d.pri /\ e.tail = d.tail
    BY <2>1 DEF Fields
  <2>4. w[PSB] = c /\ h[PSB] \notin Conditions /\ Orderly(d, h, w)
    BY <1>1, <1>2, <1>3, <1>6, Kinds DEF Target, Reentering, Settled
  <2>5. Order(e) = Order(d)
    <3> HIDE DEF w
    <3>1. QED
      BY <1>3, <1>6, <1>7, <2>2, <2>3, <2>4, OrderlyForget
  <2>6. QED
    BY <1>6, <1>7, <2>1, <2>5 DEF SeenSame, Fields
<1>8. CASE pda.locked[m] /\ pda' = EnterFailed(pda, m) /\ pc' = pc
  BY <1>1, <1>3, <1>8, EnterFailedUnseen, Unseen
<1>9. CASE /\ ~ pda.locked[m] /\ Aborted(PSB, c) /\ pda' = [left EXCEPT !.abort[PSB] = FALSE]
           /\ pc' = [pc EXCEPT ![PSB] = Entering(m)]
  <2>1. /\ DOMAIN pda' = Fields /\ \A f \in Fields \ {"abort"} : pda'[f] = left[f]
        /\ pda'.abort = [d.abort EXCEPT ![PSB] = FALSE]
    <3> HIDE DEF d
    <3>1. QED
      BY <1>6, <1>9 DEF Fields
  <2> HIDE DEF left, d, m
  <2>2. /\ pda'.waiting = pda.waiting /\ pda'.wakeup = pda.wakeup /\ pda'.pri = pda.pri
        /\ Order(pda') = Order(pda)
    BY <1>7, <2>1
  <2>3. Place' = [Place EXCEPT ![PSB] = <<"enter", m>>]
    <3>1. Place' = [Place EXCEPT ![PSB] = PlaceOf(Entering(m), pda'.waiting[PSB])]
      BY <1>3, <1>9, <2>2, PlaceStep
    <3>2. QED
      BY <3>1, Whereabouts
  <2>4. pda'.abort = [pda.abort EXCEPT ![PSB] = FALSE]
    BY <1>6, <2>1 DEF SeenSame
  <2>5. Abstract!Raise(PSB, c)
    BY <1>4, <1>5, <1>9, <2>2, <2>3, <2>4, SeenOrder
       DEF Abstract!Raise, Abstract!ToBeAborted, Aborted, m
  <2>6. QED
    BY <1>3, <2>5 DEF Abstract!MNext
<1>10. CASE /\ ~ pda.locked[m] /\ ~ Aborted(PSB, c) /\ pda' = [left EXCEPT !.locked[m] = TRUE]
            /\ pc' = [pc EXCEPT ![PSB] = Inside(m)]
  <2>1. DOMAIN pda' = Fields /\ \A f \in Fields \ {"locked"} : pda'[f] = left[f]
    <3> HIDE DEF d
    <3>1. QED
      BY <1>6, <1>10 DEF Fields
  <2> HIDE DEF left, d, m
  <2>2. /\ pda'.waiting = pda.waiting /\ pda'.wakeup = pda.wakeup /\ pda'.pri = pda.pri
        /\ pda'.abort = pda.abort /\ Order(pda') = Order(pda)
    BY <1>7, <2>1
  <2>3. Place' = [Place EXCEPT ![PSB] = <<"in", m>>]
    <3>1. Place' = [Place EXCEPT ![PSB] = PlaceOf(Inside(m), pda'.waiting[PSB])]
      BY <1>3, <1>10, <2>2, PlaceStep
    <3>2. QED
      BY <3>1, Whereabouts
  <2>4. /\ Place[PSB] \in {<<"reenter", x>> : x \in {y \in Conditions : MonitorOf[y] = m}}
        /\ ~ (pda.abort[PSB] /\ Place[PSB][2] \in Abortable)
    BY <1>4, <1>10 DEF m, Aborted
  <2>5. Abstract!Enter(PSB, m)
    BY <1>5, <1>10, <2>2, <2>3, <2>4, SeenOrder DEF Abstract!Enter, Abstract!ToBeAborted
  <2>6. QED
    BY <1>3, <2>5 DEF Abstract!MNext
<1>11. QED
  BY <1>8, <1>9, <1>10 DEF E_MR

(* A wait. *)
LEMMA ImplementsMW ==
  ASSUME RInv, NEW c \in Conditions, NEW t \in WaitTicks, E_MW(c, t)
  PROVE  [Abstract!MNext]_(Abstract!mvars)
<1> DEFINE m == MonitorOf[c]
           d == CleanupCondition(pda, c)
           e == Exit(d, m)
           woken == [e EXCEPT !.wakeup[c] = FALSE]
           asleep == [e EXCEPT !.timeout[PSB] = Deadline(t), !.waiting[PSB] = TRUE]
           v == Target(pc')
<1>1. /\ pda.running /\ pc[PSB] = Inside(m) /\ pc' = [pc EXCEPT ![PSB] = Reentering(c)]
      /\ IF Aborted(PSB, c) \/ e.wakeup[c]
         THEN LET next == IF Aborted(PSB, c) THEN e ELSE woken
              IN  pda' \in {next, Reschedule(next, FALSE)}
         ELSE pda' = Reschedule(Requeue(asleep, Ready, c, PSB), FALSE)
  BY DEF E_MW
<1>2. PICK h \in [Psb -> Queues] :
        Settled(pda, h, Target(pc)) /\ Protocol(pda, h, pc) /\ h[PSB] = Ready
  BY <1>1, BeginRun
<1>3. IInv /\ PSB \in Psb /\ pc \in [Psb -> PcType] /\ m \in Monitors /\ Matched(h)
  BY <1>1, <1>2, BeginRun, Matches, ProgramAssumption
<1>4. /\ Settled(d, h, Target(pc)) /\ ~ Stale(d, c)
      /\ (\A n \in Fields \ {"tail"} : d[n] = pda[n]) /\ SeenSame(pda, d)
  BY <1>2, SettledCleanup, CleanupUnseen
<1>5. PICK h2 : Exited(h, m, d, e, h2)
  BY <1>2, <1>3, <1>4, RExit
<1>6. SeenSame(d, e) /\ DOMAIN e = Fields
  BY <1>3, <1>4, ExitUnseen
<1> HIDE DEF d, e, m
<1>7. SeenSame(pda, e)
  BY <1>4, <1>6, SeenOn
<1>8. /\ h2 \in [Psb -> Queues] /\ h2[PSB] = Ready /\ Members(h2, c) = Members(h, c)
      /\ Settled(e, h2, Target(pc)) /\ Protocol(e, h2, pc) /\ ~ Stale(e, c)
  BY <1>4, <1>5 DEF Exited
<1>9. Settled(e, h2, v) /\ v[PSB] = c /\ e.cleanup[PSB] = Null
  BY <1>1, <1>3, <1>8, LeaveForCondition DEF m
<1> HIDE DEF v
<1>10. /\ pda.wakeup \in [Conditions -> BOOLEAN]
       /\ \A p \in Psb : pda.waiting[p] <=> h[p] \in Conditions
  BY <1>2 DEF Settled, Stored, Marked
<1>11. Place[PSB] = <<"in", m>> /\ ~ pda.waiting[PSB]
  BY <1>1, <1>2, <1>3, <1>10, Kinds DEF Matched
<1>12. Aborted(PSB, c) <=> Abstract!ToBeAborted(PSB, c)
  BY DEF Aborted, Abstract!ToBeAborted
<1>13. CASE Aborted(PSB, c) \/ e.wakeup[c]
  <2> DEFINE next == IF Aborted(PSB, c) THEN e ELSE woken
  <2>1. pda' \in {next, Reschedule(next, FALSE)}
    BY <1>1, <1>13
  <2>2. /\ DOMAIN next = Fields /\ \A n \in Fields \ {"wakeup"} : next[n] = e[n]
        /\ next.wakeup = IF Aborted(PSB, c) THEN e.wakeup ELSE [e.wakeup EXCEPT ![c] = FALSE]
    BY <1>6 DEF Fields
  <2> HIDE DEF next
  <2>3. Order(next) = Order(e)
    BY <1>6, <2>2, OrderFields DEF Fields
  <2>4. SeenSame(next, pda')
    <3>1. DOMAIN next = Fields
      BY <2>2
    <3>2. QED
      BY <2>1, <3>1, ThenUnseen
  <2>5. /\ pda'.waiting = pda.waiting /\ pda'.abort = pda.abort /\ pda'.pri = pda.pri
        /\ pda'.wakeup = next.wakeup /\ Order(pda') = Order(pda)
    BY <1>7, <2>2, <2>3, <2>4 DEF SeenSame, Fields
  <2>6. Place' = [Place EXCEPT ![PSB] = <<"reenter", c>>]
    <3>1. Place' = [Place EXCEPT ![PSB] = PlaceOf(Reentering(c), pda'.waiting[PSB])]
      BY <1>1, <1>3, <2>5, PlaceStep
    <3>2. ~ pda'.waiting[PSB]
      BY <1>11, <2>5
    <3>3. QED
      BY <3>1, <3>2, Whereabouts
  <2>7. pda'.wakeup = [pda.wakeup EXCEPT ![c] = @ /\ Abstract!ToBeAborted(PSB, c)]
    <3> DEFINE x == pda.wakeup[c] /\ Abstract!ToBeAborted(PSB, c)
    <3>1. e.wakeup = pda.wakeup
      BY <1>7 DEF SeenSame
    <3>2. CASE Aborted(PSB, c)
      <4>1. x = pda.wakeup[c]
        BY <1>10, <1>12, <3>2
      <4> HIDE DEF x
      <4>2. pda'.wakeup = [pda.wakeup EXCEPT ![c] = x]
        BY <1>10, <2>2, <2>5, <3>1, <3>2, <4>1
      <4>3. QED
        BY <4>2, Zenon DEF x
    <3>3. CASE ~ Aborted(PSB, c)
      <4>1. x = FALSE
        BY <1>12, <3>3
      <4> HIDE DEF x
      <4>2. pda'.wakeup = [pda.wakeup EXCEPT ![c] = x]
        BY <2>2, <2>5, <3>1, <3>3, <4>1
      <4>3. QED
        BY <4>2, Zenon DEF x
    <3>4. QED
      BY <3>2, <3>3
  <2>8. Abstract!ToBeAborted(PSB, c) \/ pda.wakeup[c]
    BY <1>7, <1>12, <1>13 DEF SeenSame
  <2>9. Ahead' = Ahead
    BY <2>5, SeenOrder
  <2>10. Abstract!Wait(PSB, c)
    BY <1>11, <2>5, <2>6, <2>7, <2>8, <2>9, Zenon DEF Abstract!Wait, m
  <2>11. QED
    BY <1>3, <2>10 DEF Abstract!MNext
<1>14. CASE ~ (Aborted(PSB, c) \/ e.wakeup[c])
  <2> DEFINE g == Requeue(asleep, h2[PSB], c, PSB)
  <2>1. pda' = Reschedule(g, FALSE)
    BY <1>1, <1>8, <1>14
  <2>2. /\ DOMAIN asleep = Fields /\ \A n \in Fields \ {"timeout", "waiting"} : asleep[n] = e[n]
        /\ asleep.waiting = [e.waiting EXCEPT ![PSB] = TRUE]
    BY <1>6 DEF Fields
  <2> HIDE DEF asleep
  <2>3. /\ asleep.next = e.next /\ asleep.pri = e.pri /\ asleep.cleanup = e.cleanup
        /\ asleep.tail = e.tail /\ asleep.wakeup = e.wakeup /\ asleep.abort = e.abort
    BY <2>2 DEF Fields
  <2>4. Orderly(asleep, h2, v) /\ Order(asleep) = Order(e)
    <3>1. Orderly(e, h2, v)
      BY <1>9 DEF Settled
    <3>2. QED
      BY <2>2, <2>3, <3>1, OrderlySame
  <2>5. ~ Stale(asleep, c) /\ asleep.cleanup[PSB] = Null
    BY <1>8, <1>9, <2>3 DEF Stale
  <2>6. Relinked(asleep, g) /\ Order(g) = OrderMoved(asleep, h2, c, PSB)
    <3> HIDE DEF g
    <3>1. h2[PSB] \in Conditions => ~ Stale(asleep, h2[PSB])
      BY <1>8, Kinds
    <3>2. c \in Queues
      BY Kinds
    <3>3. QED
      BY <1>3, <1>8, <1>9, <2>4, <2>5, <3>1, <3>2, RequeueTold DEF g
  <2> HIDE DEF g
  <2>7. /\ g.waiting = [pda.waiting EXCEPT ![PSB] = TRUE] /\ g.wakeup = pda.wakeup
        /\ g.abort = pda.abort /\ g.pri = pda.pri /\ DOMAIN g = Fields
    BY <1>7, <2>2, <2>3, <2>6 DEF Relinked, SeenSame, Fields
  <2>8. Order(g) = Behind(Order(pda), pda.pri, Members(h, c), PSB)
    <3> DEFINE X == {PSB}
    <3>1. X \in SUBSET Psb /\ \A y \in X : h[y] \notin Conditions
      BY <1>2, <1>3, Kinds
    <3>2. Order(g) = Behind(Gone(Order(asleep), X), asleep.pri, Members(h2, c) \ X, PSB)
      BY <2>6 DEF OrderMoved
    <3>3. Members(h2, c) \ X = Members(h, c)
      BY <1>8, Kinds DEF Members
    <3> HIDE DEF X
    <3>4. Gone(Order(pda), X) = Order(pda)
      BY <1>2, <3>1, GoneNone DEF Settled
    <3>5. Order(asleep) = Order(pda) /\ asleep.pri = pda.pri
      BY <1>7, <2>3, <2>4 DEF SeenSame
    <3>6. QED
      BY <3>2, <3>3, <3>4, <3>5
  <2>9. SeenSame(g, pda')
    BY <2>1, <2>7, RescheduleUnseen
  <2>10. Place' = [Place EXCEPT ![PSB] = <<"wait", c>>]
    <3>1. /\ \A y \in Psb \ {PSB} : pda'.waiting[y] = pda.waiting[y]
          /\ pda'.waiting[PSB]
      <4>1. pda.waiting \in [Psb -> BOOLEAN]
        BY <1>2 DEF Settled, Marked
      <4>2. QED
        BY <1>3, <2>7, <2>9, <4>1 DEF SeenSame
    <3>2. Place' = [Place EXCEPT ![PSB] = PlaceOf(Reentering(c), pda'.waiting[PSB])]
      BY <1>1, <1>3, <3>1, PlaceStep
    <3>3. QED
      BY <3>1, <3>2, Whereabouts
  <2>11. Ahead' = Abstract!Joined(Abstract!Waiting(c), PSB)
    <3>1. Abstract!Waiting(c) = Members(h, c)
      BY <1>3, MatchedWaiters
    <3>2. Ahead' = Behind(Ahead, pda.pri, Members(h, c), PSB)
      BY <2>8, <2>9, SeenOrder DEF SeenSame
    <3>3. QED
      BY <3>1, <3>2 DEF Behind, Abstract!Joined
  <2>12. ~ Abstract!ToBeAborted(PSB, c) /\ ~ pda.wakeup[c]
    BY <1>7, <1>12, <1>14 DEF SeenSame
  <2>13. pda'.wakeup = pda.wakeup /\ pda'.abort = pda.abort /\ pda'.pri = pda.pri
    BY <2>7, <2>9 DEF SeenSame
  <2>14. Abstract!Wait(PSB, c)
    BY <1>11, <2>10, <2>11, <2>12, <2>13, Zenon DEF Abstract!Wait, m
  <2>15. QED
    BY <1>3, <2>14 DEF Abstract!MNext
<1>15. QED
  BY <1>13, <1>14

(* Interrupts and a timer tick. *)
LEMMA ImplementsPreempt ==
  ASSUME RInv, NEW wakeups \in SUBSET DOMAIN InterruptConditions, NEW tick \in BOOLEAN,
         Preempt(wakeups, tick)
  PROVE  [Abstract!MNext]_(Abstract!mvars)
<1> DEFINE w == Target(pc)
           conds == InterruptConditions
           rung == Rung(conds, wakeups)
           d1 == Interrupt(pda, conds, wakeups)
           ptc == IF tick THEN NextPTC ELSE PTC
           d2 == IF tick THEN TimeoutScan(d1, ptc) ELSE d1
<1>1. pc' = pc /\ pda' \in {d2, Reschedule(d2, TRUE)}
  BY DEF Preempt
<1>2. PICK h \in [Psb -> Queues] : Settled(pda, h, w) /\ Matched(h)
  BY BeginMatched
<1>3. pc \in [Psb -> PcType] /\ rung \subseteq Conditions
  <2>1. conds \in Seq(Conditions)
    BY ProgramAssumption
  <2>2. \A i \in 1 .. Len(conds) : conds[i] \in Conditions
    BY <2>1
  <2>3. QED
    BY <2>2, BeginMatched DEF Rung
<1>4. PICK h1 : Interrupted(pda, h, w, conds, wakeups, d1, h1)
  <2>1. /\ conds \in Seq(Conditions)
        /\ \A i, j \in DOMAIN conds : conds[i] = conds[j] => i = j
    BY ProgramAssumption
  <2>2. QED
    BY <1>2, <2>1, SettledInterrupt
<1>5. /\ Settled(d1, h1, w) /\ Woken(pda, h, d1, h1) /\ d1.wakeup = Belled(pda, h, rung)
      /\ Movers(h, h1) = UNION {Foremost(pda, h, c) : c \in rung}
  BY <1>4 DEF Interrupted
<1> HIDE DEF w, d1, ptc, rung, conds
<1>6. PICK h2 : Settled(d2, h2, w) /\ Woken(d1, h1, d2, h2) /\ d2.wakeup = d1.wakeup
  <2>1. CASE tick
    <3>1. d2 = TimeoutScan(d1, ptc)
      BY <2>1
    <3> HIDE DEF d2
    <3>2. QED
      BY <1>5, <3>1, SettledScan
  <2>2. CASE ~ tick
    BY <1>5, <2>2, WokenSame
  <2>3. QED
    BY <2>1, <2>2
<1> HIDE DEF d2
<1> DEFINE late == Movers(h1, h2)
           bell == {c \in rung : Abstract!Waiting(c) = {}}
<1>7. Woken(pda, h, d2, h2) /\ Movers(h, h2) = Movers(h, h1) \cup late
  BY <1>5, <1>6, WokenOn, WokenMovers
<1>8. late \subseteq UNION {Abstract!Waiting(c) : c \in Conditions}
  <2>1. ASSUME NEW p \in late PROVE p \in Psb /\ h[p] \in Conditions
    <3>1. p \in Psb /\ h1[p] \in Conditions
      BY <1>6 DEF Movers, Woken
    <3>2. QED
      BY <1>5, <3>1, Kinds DEF Woken
  <2>2. ASSUME NEW p \in late PROVE p \in Abstract!Waiting(h[p])
    BY <1>2, <2>1, MatchedWaiters DEF Members
  <2>3. QED
    BY <2>1, <2>2
<1>9. Movers(h, h1) = UNION {Abstract!First(c) : c \in rung}
  <2>1. \A c \in rung : Abstract!First(c) = Foremost(pda, h, c)
    BY <1>2, <1>3, MatchedWaiters
  <2>2. QED
    BY <1>5, <2>1
<1>10. d2.wakeup = WithBell(pda, bell)
  <2>1. \A c \in Conditions : c \in bell <=> c \in rung /\ Members(h, c) = {}
    BY <1>2, MatchedWaiters
  <2> HIDE DEF bell
  <2>2. d2.wakeup = [c \in Conditions |-> pda.wakeup[c] \/ (c \in rung /\ Members(h, c) = {})]
    BY <1>5, <1>6, Zenon DEF Belled
  <2>3. \A c \in Conditions : d2.wakeup[c] <=> pda.wakeup[c] \/ c \in bell
    BY <2>1, <2>2, Zenon
  <2>4. d2.wakeup \in [Conditions -> BOOLEAN]
    BY <1>6 DEF Settled, Stored
  <2>5. QED
    BY <2>3, <2>4, BellHeard
<1>11. SeenSame(d2, pda')
  BY <1>1, <1>6, SettledFields, ThenUnseen
<1> HIDE DEF bell, late
<1>12. /\ Abstract!Awaken(Movers(h, h2), bell)
       /\ pda'.abort = pda.abort /\ pda'.pri = pda.pri
  BY <1>1, <1>2, <1>3, <1>6, <1>7, <1>10, <1>11, Awakens
<1>13. Abstract!Instant(rung, late)
  <2> DEFINE firsts == UNION {Abstract!First(c) : c \in rung}
  <2>1. Movers(h, h1) = firsts
    BY <1>9
  <2> HIDE DEF firsts
  <2>2. Abstract!Awaken(firsts \cup late, bell)
    BY <1>7, <1>12, <2>1
  <2>3. QED
    BY <1>8, <1>12, <2>2, Zenon DEF Abstract!Instant, bell, firsts
<1>14. rung \in SUBSET Conditions /\ late \in SUBSET Psb
  BY <1>3 DEF late, Movers
<1>15. QED
  BY <1>13, <1>14 DEF Abstract!MNext

-----------------------------------------------------------------------------
(* Every step of the process opcodes is one of MesaMonitors, or none.       *)
LEMMA StepImplements == RInv /\ [Next]_vars => [Abstract!MNext]_(Abstract!mvars)
<1> SUFFICES ASSUME RInv, [Next]_vars PROVE [Abstract!MNext]_(Abstract!mvars)
  OBVIOUS
<1>1. CASE UNCHANGED vars
  BY <1>1 DEF vars, Abstract!mvars, Place, Ahead, PlaceOf
<1>2. ASSUME NEW m \in Monitors, E_ME(m) \/ E_MX(m)
      PROVE  [Abstract!MNext]_(Abstract!mvars)
  BY <1>2, ImplementsME, ImplementsMX
<1>3. ASSUME NEW c \in Conditions, E_MR(c) \/ E_NC(c) \/ E_BC(c)
      PROVE  [Abstract!MNext]_(Abstract!mvars)
  BY <1>3, ImplementsMR, ImplementsNC
<1>4. ASSUME NEW c \in Conditions, NEW t \in WaitTicks, E_MW(c, t)
      PROVE  [Abstract!MNext]_(Abstract!mvars)
  BY <1>4, ImplementsMW
<1>5. ASSUME NEW src \in {Ready} \cup PlainQueues, NEW dst \in {Ready} \cup PlainQueues,
             NEW p \in Psb, E_REQ(src, dst, p)
      PROVE  [Abstract!MNext]_(Abstract!mvars)
  BY <1>5, ImplementsREQ
<1>6. ASSUME NEW p \in Psb, Abort(p) PROVE [Abstract!MNext]_(Abstract!mvars)
  BY <1>6, ImplementsAbort
<1>7. ASSUME NEW k \in SettablePriorities, E_SPP(k) PROVE [Abstract!MNext]_(Abstract!mvars)
  BY <1>7, ImplementsSPP
<1>8. ASSUME NEW q \in DOMAIN FaultConditions, FaultStep(q)
      PROVE  [Abstract!MNext]_(Abstract!mvars)
  BY <1>8, ImplementsFault
<1>9. ASSUME NEW wakeups \in SUBSET DOMAIN InterruptConditions, NEW tick \in BOOLEAN,
             Preempt(wakeups, tick)
      PROVE  [Abstract!MNext]_(Abstract!mvars)
  BY <1>9, ImplementsPreempt
<1>10. QED
  BY <1>1, <1>2, <1>3, <1>4, <1>5, <1>6, <1>7, <1>8, <1>9 DEF Next

(* At the start every process is out, and nobody waits. *)
LEMMA InitImplements == Init => Abstract!MInit
<1> SUFFICES ASSUME Init PROVE Abstract!MInit
  OBVIOUS
<1>1. PICK h \in [Psb -> Queues] : Settled(pda, h, Target(pc)) /\ Matched(h)
  BY InitRInv, BeginMatched
<1>2. /\ pc = [p \in Psb |-> Outside] /\ pda.waiting = [p \in Psb |-> FALSE]
      /\ pda.wakeup = [c \in Conditions |-> FALSE] /\ pda.abort = [p \in Psb |-> FALSE]
      /\ pda.pri \in [Psb -> Priority]
  BY InitAssumption DEF Init
<1>3. Place = [p \in Psb |-> <<"out">>]
  BY <1>2 DEF Place, PlaceOf, Outside
<1>4. Ahead = [p \in Psb |-> {}]
  <2>1. PICK T \in [Queues -> Psb \cup {Null}] : Rings(pda, h, Target(pc), T)
    BY <1>1 DEF Settled, Orderly
  <2>2. \A p \in Psb : h[p] \notin Conditions
    BY <1>1, <1>2 DEF Matched
  <2>3. \A p \in Psb : Order(pda)[p] = {}
    BY <2>1, <2>2, LinedOrder DEF Lined
  <2>4. QED
    BY <2>3, SeenOrder DEF Order
<1>5. QED
  BY <1>2, <1>3, <1>4, Zenon DEF Abstract!MInit

(* Every behaviour of the process opcodes is one of the monitors and         *)
(* conditions of MesaMonitors: at most one process in a monitor, waiters in  *)
(* order of priority and then of arrival, no notification lost or heard      *)
(* twice, and a timeout or an abort that takes out just its own process.     *)
THEOREM OpcodesImplementMonitors == Spec => ImplementsMesaMonitors
<1>1. Init => Abstract!MInit
  BY InitImplements
<1>2. RInv /\ [Next]_vars => [Abstract!MNext]_(Abstract!mvars)
  BY StepImplements
<1>3. QED
  BY <1>1, <1>2, AlwaysRInv, PTL DEF Spec, ImplementsMesaMonitors, Abstract!MSpec
=============================================================================
