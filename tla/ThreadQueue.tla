---------------------------- MODULE ThreadQueue -----------------------------
(***************************************************************************)
(* ThreadQueueProcessor of src/util/ThreadQueue.h: a thread (run) that      *)
(* processes the items other threads push.  Except while it sleeps, run     *)
(* keeps the mutex, also throughout process, which a module that extends    *)
(* this one supplies: it starts at worker = "process" and ends at "pop".    *)
(***************************************************************************)
EXTENDS Naturals, Sequences

VARIABLES
  queue,        \* the oldest item first
  stopThread,
  worker        \* where run is

Unlocked == {"start", "clear", "lock", "sleep", "done"}
Locked   == worker \notin Unlocked

QueueInit == queue = << >> /\ stopThread = FALSE /\ worker = "start"

(* Callers keep the mutex for one step only.  The notification of push is a *)
(* wakeup that the sleep's timeout of a second allows at any time anyway.   *)
Push(item) == ~ Locked /\ queue' = Append(queue, item)

Clear == ~ Locked /\ queue' = << >>

(* run: what it does before it takes the mutex. *)
RunStart ==
  \/ /\ worker = "start" /\ worker' = "clear"
     /\ stopThread' = FALSE
     /\ UNCHANGED queue
  \/ /\ worker = "clear" /\ worker' = "lock"
     /\ queue' = << >>
     /\ UNCHANGED stopThread

(* Mutant: the sleep has no timeout and the notification is missed. *)
RunLockOnce ==
  /\ worker = "lock" /\ worker' = "top"
  /\ UNCHANGED <<queue, stopThread>>

(* It takes the mutex, at first and after each sleep. *)
RunLock ==
  /\ worker \in {"lock", "sleep"} /\ worker' = "top"
  /\ UNCHANGED <<queue, stopThread>>

(* Mutant: stopThread is looked at only before an item is processed. *)
RunTopItem ==
  /\ worker = "top"
  /\ worker' = IF queue = << >> THEN "sleep" ELSE IF stopThread THEN "done" ELSE "process"
  /\ UNCHANGED <<queue, stopThread>>

(* The top of its loops. *)
RunTop ==
  /\ worker = "top"
  /\ worker' = IF stopThread THEN "done" ELSE IF queue = << >> THEN "sleep" ELSE "process"
  /\ UNCHANGED <<queue, stopThread>>

(* Mutant: the newest item is popped. *)
RunPopNewest ==
  /\ worker = "pop" /\ worker' = "top"
  /\ queue' = SubSeq(queue, 1, Len(queue) - 1)
  /\ UNCHANGED stopThread

RunPop ==
  /\ worker = "pop" /\ worker' = "top"
  /\ queue' = Tail(queue)
  /\ UNCHANGED stopThread
=============================================================================
