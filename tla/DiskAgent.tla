----------------------------- MODULE DiskAgent ------------------------------
(***************************************************************************)
(* The disk agent (src/agent/AgentDisk.cpp): the emulated disk driver puts  *)
(* requests (IOCBs) in a chain and calls the agent, which pushes them on    *)
(* the queue of its I/O thread; that moves the pages, writes the outcome    *)
(* into the IOCB and interrupts.  The call runs in the processor's thread,  *)
(* so the emulated machine waits while the call waits for the mutex.        *)
(*                                                                          *)
(* The driver is not in the repository.  It uses an IOCB again once it saw  *)
(* its outcome, on an interrupt, or once the agent was stopped and started. *)
(* IOCBs are resident, so Call does not fault.                              *)
(***************************************************************************)
EXTENDS ThreadQueue, FiniteSets

CONSTANTS
  IOCBs,      \* the request blocks of the driver
  MaxPages    \* the largest page count of a request

VARIABLES
  call,          \* where the processor is in Call, or "off" when it has left
  chain,         \* the IOCBs that Call has yet to push
  agentStopped,  \* in the FCB
  status,        \* in each IOCB; "free" when the driver has no use for it
  pageCount,     \* in each IOCB
  index,         \* i, in process
  interrupt,     \* the agent's interrupt is pending
  asked,         \* history: the page count when the driver filled the IOCB
  moved          \* history: how many of these pages were moved

driver == <<call, chain, agentStopped>>
iocb   == <<status, pageCount, asked, moved>>
qvars  == <<queue, stopThread, worker>>
vars   == <<driver, iocb, qvars, index, interrupt>>

TypeOK ==
  /\ queue \in Seq(IOCBs) /\ chain \in Seq(IOCBs)
  /\ stopThread \in BOOLEAN /\ agentStopped \in BOOLEAN /\ interrupt \in BOOLEAN
  /\ worker \in Unlocked \cup {"top", "process", "move", "count", "status", "notify", "pop"}
  /\ call \in {"idle", "clear", "push", "off"}
  /\ status \in [IOCBs -> {"free", "inProgress", "completed"}]
  /\ pageCount \in [IOCBs -> 0 .. MaxPages] /\ asked \in [IOCBs -> 0 .. MaxPages]
  /\ moved \in [IOCBs -> Nat] /\ index \in 0 .. MaxPages

Init ==
  /\ QueueInit
  /\ call = "idle" /\ chain = << >> /\ agentStopped = TRUE
  /\ status = [i \in IOCBs |-> "free"]
  /\ pageCount = [i \in IOCBs |-> 0]
  /\ index = 0 /\ interrupt = FALSE
  /\ asked = [i \in IOCBs |-> 0] /\ moved = [i \in IOCBs |-> 0]

-----------------------------------------------------------------------------
(* The driver and Call, in the processor's thread. *)

Elements(s) == {s[k] : k \in DOMAIN s}
Chains(S) == {s \in UNION {[1 .. n -> S] : n \in 0 .. Cardinality(S)} :
                \A j, k \in DOMAIN s : s[j] = s[k] => j = k}

(* The driver fills free IOCBs and calls, to start the agent too if it is   *)
(* stopped: Call then clears the queue first.                               *)
Request(s, counts) ==
  /\ call = "idle"
  /\ \A i \in Elements(s) : status[i] = "free"
  /\ chain' = s
  /\ status' = [i \in IOCBs |-> IF i \in Elements(s) THEN "inProgress" ELSE status[i]]
  /\ pageCount' = [i \in IOCBs |-> IF i \in Elements(s) THEN counts[i] ELSE pageCount[i]]
  /\ asked' = [i \in IOCBs |-> IF i \in Elements(s) THEN counts[i] ELSE asked[i]]
  /\ moved' = [i \in IOCBs |-> IF i \in Elements(s) THEN 0 ELSE moved[i]]
  /\ call' = IF agentStopped THEN "clear" ELSE IF s = << >> THEN "idle" ELSE "push"
  /\ UNCHANGED <<qvars, index, interrupt, agentStopped>>

(* Call starts the agent; the driver takes back the requests from before.   *)
Start ==
  /\ call = "clear" /\ Clear
  /\ agentStopped' = FALSE
  /\ call' = IF chain = << >> THEN "idle" ELSE "push"
  /\ status' = [i \in IOCBs |-> IF status[i] = "inProgress" /\ i \notin Elements(chain)
                                THEN "free" ELSE status[i]]
  /\ UNCHANGED <<stopThread, worker, chain, pageCount, asked, moved, index, interrupt>>

PushNext ==
  /\ call = "push" /\ Push(Head(chain))
  /\ chain' = Tail(chain)
  /\ call' = IF Tail(chain) = << >> THEN "idle" ELSE "push"
  /\ UNCHANGED <<stopThread, worker, agentStopped, iocb, index, interrupt>>

(* The driver sets stopAgent and calls. *)
StopAgent ==
  /\ call = "idle" /\ ~ agentStopped
  /\ agentStopped' = TRUE
  /\ UNCHANGED <<call, chain, iocb, qvars, index, interrupt>>

(* On an interrupt the driver frees what is completed. *)
OnInterrupt ==
  /\ call = "idle" /\ interrupt
  /\ interrupt' = FALSE
  /\ status' = [i \in IOCBs |-> IF status[i] = "completed" THEN "free" ELSE status[i]]
  /\ UNCHANGED <<driver, pageCount, asked, moved, qvars, index>>

(* run_processor leaves its loop and stops the I/O thread. *)
Leave ==
  /\ call = "idle" /\ call' = "off"
  /\ stopThread' = TRUE
  /\ UNCHANGED <<chain, agentStopped, iocb, queue, worker, index, interrupt>>

-----------------------------------------------------------------------------
(* process, in the I/O thread *)
Item == Head(queue)

Begin ==
  /\ worker = "process" /\ worker' = "move"
  /\ index' = 0
  /\ UNCHANGED <<driver, iocb, queue, stopThread, interrupt>>

Move ==          \* one page is read, written or verified
  /\ worker = "move" /\ index < pageCount[Item]
  /\ index' = index + 1
  /\ moved' = [moved EXCEPT ![Item] = @ + 1]
  /\ UNCHANGED <<driver, status, pageCount, asked, qvars, interrupt>>

MoveDone ==
  /\ worker = "move" /\ index >= pageCount[Item]
  /\ worker' = "count"
  /\ UNCHANGED <<driver, iocb, queue, stopThread, index, interrupt>>

(* Mutant: the status is written before the page count. *)
StatusFirst ==
  /\ \/ /\ worker = "count" /\ worker' = "status"
        /\ status' = [status EXCEPT ![Item] = "completed"]
        /\ UNCHANGED pageCount
     \/ /\ worker = "status" /\ worker' = "notify"
        /\ pageCount' = [pageCount EXCEPT ![Item] = 0]
        /\ UNCHANGED status
  /\ UNCHANGED <<driver, asked, moved, queue, stopThread, index, interrupt>>

(* pageCount is cleared, then status is written. *)
Outcome ==
  /\ \/ /\ worker = "count" /\ worker' = "status"
        /\ pageCount' = [pageCount EXCEPT ![Item] = 0]
        /\ UNCHANGED status
     \/ /\ worker = "status" /\ worker' = "notify"
        /\ status' = [status EXCEPT ![Item] = "completed"]
        /\ UNCHANGED pageCount
  /\ UNCHANGED <<driver, asked, moved, queue, stopThread, index, interrupt>>

(* Mutant: an interrupt only for the last of several requests. *)
NotifyLast ==
  /\ worker = "notify" /\ worker' = "pop"
  /\ interrupt' = (interrupt \/ Len(queue) = 1)
  /\ UNCHANGED <<driver, iocb, queue, stopThread, index>>

Notify ==
  /\ worker = "notify" /\ worker' = "pop"
  /\ interrupt' = TRUE
  /\ UNCHANGED <<driver, iocb, queue, stopThread, index>>

Process == Begin \/ Move \/ MoveDone \/ Outcome \/ Notify

Run == (RunStart \/ RunLock \/ RunTop \/ RunPop) /\ UNCHANGED <<driver, iocb, index, interrupt>>

Next ==
  \/ \E s \in Chains(IOCBs) : \E counts \in [Elements(s) -> 1 .. MaxPages] : Request(s, counts)
  \/ Start \/ PushNext \/ StopAgent \/ OnInterrupt \/ Leave
  \/ Process
  \/ Run

(* The I/O thread goes on, and the processor's thread gets the mutex, which *)
(* is free again and again for up to a second.                              *)
Spec ==
  /\ Init /\ [][Next]_vars
  /\ WF_vars(Process) /\ WF_vars(Run) /\ SF_vars(Start) /\ SF_vars(PushNext)

-----------------------------------------------------------------------------
(* The I/O thread works only for requests in progress: not for an IOCB that  *)
(* the driver got back on a restart, and for none twice.  The one it is done *)
(* with stays queued until it is popped, and may already be in use again.    *)
RequestsExact ==
  /\ TypeOK
  /\ \A j, k \in DOMAIN queue : queue[j] = queue[k] => j = k
  /\ \A j \in DOMAIN queue :
       status[queue[j]] = "inProgress" \/ (j = 1 /\ worker \in {"notify", "pop"})
  /\ worker \notin {"notify", "pop"} => Elements(queue) \cap Elements(chain) = {}

(* A completed request moved all its pages, and each once, although the      *)
(* driver may fill the IOCB anew as soon as it sees its status.              *)
AllPagesMoved == \A i \in IOCBs : status[i] = "completed" => moved[i] = asked[i]

(* No completion goes unseen: until the driver saw it an interrupt is        *)
(* pending or about to be.                                                   *)
OutcomesNotified ==
  \A i \in IOCBs : status[i] = "completed" =>
    interrupt \/ (worker = "notify" /\ Item = i)

(* A request leaves the queue completed or taken back by the driver; it is   *)
(* lost only where the thread starts late, with run's own clear.  One that   *)
(* is popped in progress has been filled anew and is still to be pushed.     *)
Queued(i)      == i \in Elements(queue)
LeavesQueue(i) == Queued(i) /\ ~ Queued(i)' /\ worker # "clear"
MayLeave(i)    == status'[i] = "inProgress" => worker = "pop" /\ i \in Elements(chain)
=============================================================================
