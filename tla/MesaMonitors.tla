---------------------------- MODULE MesaMonitors ----------------------------
(***************************************************************************)
(* What the process opcodes promise a Mesa program, without rings, links,   *)
(* scheduling or faults: monitors with at most one process inside, and      *)
(* conditions whose waiters are woken in order of priority and, within a    *)
(* priority, of arrival.  Notified, timed out and aborted processes have to *)
(* enter the monitor again before they go on.                               *)
(***************************************************************************)
EXTENDS Integers

CONSTANTS Process, Monitor, Condition, MonitorOf, AbortableCondition, Level

VARIABLES
  place,     \* where each process is: <<"out">>, <<"enter", m>>, <<"in", m>>,
             \* <<"wait", c>> or <<"reenter", c>>
  ahead,     \* the processes that wait on the same condition ahead of each
  wakeup,    \* a notification that found no waiter
  abort,     \* the process is to be aborted
  priority

mvars == <<place, ahead, wakeup, abort, priority>>

MInit ==
  /\ place = [p \in Process |-> <<"out">>]
  /\ ahead = [p \in Process |-> {}]
  /\ wakeup = [c \in Condition |-> FALSE]
  /\ abort = [p \in Process |-> FALSE]
  /\ priority \in [Process -> Level]

Free(m) == \A p \in Process : place[p] # <<"in", m>>
ToBeAborted(p, c) == abort[p] /\ c \in AbortableCondition

Waiting(c) == {p \in Process : place[p] = <<"wait", c>>}
First(c)   == {p \in Waiting(c) : ahead[p] = {}}

(* Process p joins queue: behind those of its priority or a higher one.     *)
Joined(queue, p) ==
  [x \in Process |-> IF x = p THEN {y \in queue : priority[y] >= priority[p]}
                     ELSE IF x \in queue /\ priority[x] < priority[p] THEN ahead[x] \cup {p}
                     ELSE ahead[x]]

Try(p, m) ==           \* the monitor is locked: p has to try again
  /\ place[p] = <<"out">> /\ ~ Free(m)
  /\ place' = [place EXCEPT ![p] = <<"enter", m>>]
  /\ UNCHANGED <<ahead, wakeup, abort, priority>>

Enter(p, m) ==
  /\ place[p] \in {<<"out">>, <<"enter", m>>} \cup
                  {<<"reenter", c>> : c \in {x \in Condition : MonitorOf[x] = m}}
  /\ place[p][1] = "reenter" => ~ ToBeAborted(p, place[p][2])
  /\ Free(m)
  /\ place' = [place EXCEPT ![p] = <<"in", m>>]
  /\ UNCHANGED <<ahead, wakeup, abort, priority>>

Raise(p, c) ==         \* p raises the abort signal, inside the monitor
  /\ place[p] = <<"reenter", c>> /\ ToBeAborted(p, c)
  /\ Free(MonitorOf[c])
  /\ place' = [place EXCEPT ![p] = <<"enter", MonitorOf[c]>>]
  /\ abort' = [abort EXCEPT ![p] = FALSE]
  /\ UNCHANGED <<ahead, wakeup, priority>>

Leave(p, m) ==
  /\ place[p] = <<"in", m>>
  /\ place' = [place EXCEPT ![p] = <<"out">>]
  /\ UNCHANGED <<ahead, wakeup, abort, priority>>

Wait(p, c) ==
  /\ place[p] = <<"in", MonitorOf[c]>>
  /\ \/ /\ ~ ToBeAborted(p, c) /\ ~ wakeup[c]
        /\ place' = [place EXCEPT ![p] = <<"wait", c>>]
        /\ ahead' = Joined(Waiting(c), p)
        /\ UNCHANGED wakeup
     \/ /\ ToBeAborted(p, c) \/ wakeup[c]
        /\ place' = [place EXCEPT ![p] = <<"reenter", c>>]
        /\ wakeup' = [wakeup EXCEPT ![c] = @ /\ ToBeAborted(p, c)]
        /\ UNCHANGED ahead
  /\ UNCHANGED <<abort, priority>>

(* The processes go stop waiting, and the bits of bell, conditions nobody   *)
(* waited on, are set: what a notify, a broadcast, or the interrupts, faults *)
(* and timeouts of one instant do.                                          *)
Awaken(go, bell) ==
  /\ place' = [p \in Process |-> IF p \in go THEN <<"reenter", place[p][2]>> ELSE place[p]]
  /\ ahead' = [p \in Process |-> IF p \in go THEN {} ELSE ahead[p] \ go]
  /\ wakeup' = [c \in Condition |-> wakeup[c] \/ c \in bell]

Notify(c) ==
  /\ Waiting(c) # {}
  /\ \E go \in {First(c), Waiting(c)} : Awaken(go, {})
  /\ UNCHANGED <<abort, priority>>

(* Interrupts ring any conditions; each wakes the first waiter, or is kept. *)
(* Then any timed waits may end.                                            *)
Instant(rung, timedOut) ==
  /\ timedOut \subseteq UNION {Waiting(c) : c \in Condition}
  /\ Awaken((UNION {First(c) : c \in rung}) \cup timedOut, {c \in rung : Waiting(c) = {}})
  /\ UNCHANGED <<abort, priority>>

AbortProcess(p) ==
  /\ ~ abort[p] /\ place[p][1] \in {"wait", "reenter"}
  /\ abort' = [abort EXCEPT ![p] = TRUE]
  /\ IF place[p][1] = "wait" /\ place[p][2] \in AbortableCondition
     THEN Awaken({p}, {})
     ELSE UNCHANGED <<place, ahead, wakeup>>
  /\ UNCHANGED priority

SetPriority(p, level) ==
  /\ place[p][1] # "wait"
  /\ priority' = [priority EXCEPT ![p] = level]
  /\ UNCHANGED <<place, ahead, wakeup, abort>>

MNext ==
  \/ \E p \in Process, m \in Monitor : Try(p, m) \/ Enter(p, m) \/ Leave(p, m)
  \/ \E p \in Process, c \in Condition : Raise(p, c) \/ Wait(p, c)
  \/ \E c \in Condition : Notify(c)
  \/ \E rung \in SUBSET Condition, timedOut \in SUBSET Process : Instant(rung, timedOut)
  \/ \E p \in Process : AbortProcess(p) \/ \E level \in Level : SetPriority(p, level)

MSpec == MInit /\ [][MNext]_mvars
=============================================================================
