---------------------------- MODULE NetworkAgent ----------------------------
(***************************************************************************)
(* The network agent (src/agent/AgentNetwork.cpp).  The emulated Ethernet   *)
(* driver hands it chains of requests to receive and to transmit; Call      *)
(* pushes them on the queues of two threads.  The transmit thread is a      *)
(* ThreadQueue.  The receive thread has a loop of its own: it polls the     *)
(* network for up to a second, without its mutex, and gives a packet to the *)
(* oldest request, or drops it.                                             *)
(*                                                                          *)
(* The emulated driver is not in the repository.  It uses an IOCB again     *)
(* once it saw its outcome, and leaves it to the agent until then, also     *)
(* while the agent is stopped; Call does not take requests back on a stop.  *)
(* An ERROR in one of the threads ends the program and is left out.         *)
(***************************************************************************)
EXTENDS ThreadQueue, FiniteSets

CONSTANTS
  Receives,      \* the IOCBs for packets to receive
  Transmits,     \* the IOCBs for packets to transmit
  BufferLength,  \* the size of a receive buffer
  Lengths,       \* the lengths of packets
  MaxPackets     \* bound: packets that arrive

IOCBs == Receives \cup Transmits

VARIABLES
  call,        \* where the processor is in Call, or "off" when it has left
  rchain,      \* the receive requests Call has yet to push
  tchain,      \* the transmit requests Call has yet to push
  stopped,     \* receiveStopped and transmitStopped of the FCB
  iocb,        \* the request blocks
  rqueue,      \* the receive thread's queue, the oldest request first
  rstop,       \* its stopThread
  receiver,    \* where it is
  span,        \* the packet it holds
  kernel,      \* packets the system keeps for the program
  readBuffer,  \* packets read from it
  arrived,     \* how many packets came
  interrupt    \* the interrupts that are pending

driver  == <<call, rchain, tchain, stopped>>
receive == <<rqueue, rstop, receiver, span, kernel, readBuffer, arrived>>
qvars   == <<queue, stopThread, worker>>
vars    == <<driver, iocb, receive, qvars, interrupt>>

(* An IOCB: packet is the number of the packet in its buffer, 0 for none;   *)
(* of a transmit request, how often its packet was sent.                    *)
Status   == {"free", "inProgress", "completedOK", "packetTooLong"}
IOCBType == [status : Status, actualLength : Lengths \cup {0}, packet : 0 .. MaxPackets]
Packet   == [number : 1 .. MaxPackets, length : Lengths]
NoPacket == [number |-> 0, length |-> 0]

Holds    == {"copy", "length", "status", "notify", "pop"}   \* receive's mutex is held

TypeOK ==
  /\ call \in {"idle", "receive", "transmit", "off"} /\ stopped \in BOOLEAN
  /\ rchain \in Seq(Receives) /\ tchain \in Seq(Transmits)
  /\ iocb \in [IOCBs -> IOCBType]
  /\ rqueue \in Seq(Receives) /\ queue \in Seq(Transmits)
  /\ stopThread \in BOOLEAN /\ rstop \in BOOLEAN
  /\ worker \in Unlocked \cup {"top", "process", "status", "notify", "pop"}
  /\ receiver \in Holds \cup {"start", "top", "receive", "lock", "done"}
  /\ span \in Packet \cup {NoPacket} /\ kernel \in Seq(Packet) /\ readBuffer \in Seq(Packet)
  /\ arrived \in 0 .. MaxPackets /\ interrupt \subseteq {"receive", "transmit"}

Init ==
  /\ QueueInit
  /\ call = "idle" /\ rchain = << >> /\ tchain = << >> /\ stopped = TRUE
  /\ iocb = [i \in IOCBs |-> [status |-> "free", actualLength |-> 0, packet |-> 0]]
  /\ rqueue = << >> /\ rstop = FALSE /\ receiver = "start" /\ span = NoPacket
  /\ kernel = << >> /\ readBuffer = << >> /\ arrived = 0
  /\ interrupt = {}

-----------------------------------------------------------------------------
(* The driver and Call, in the processor's thread. *)

Elements(s) == {s[k] : k \in DOMAIN s}
Chains(S) == {s \in UNION {[1 .. n -> S] : n \in 0 .. Cardinality(S)} :
                \A j, k \in DOMAIN s : s[j] = s[k] => j = k}

(* Where Call is while it has rs and ts to push. *)
CallAt(rs, ts) == IF rs # << >> THEN "receive" ELSE IF ts # << >> THEN "transmit" ELSE "idle"

(* The driver fills free IOCBs and calls, which also starts the agent. *)
Request(rs, ts) ==
  /\ call = "idle"
  /\ \A i \in Elements(rs) \cup Elements(ts) : iocb[i].status = "free"
  /\ rchain' = rs /\ tchain' = ts
  /\ iocb' = [i \in IOCBs |-> IF i \in Elements(rs) \cup Elements(ts)
                              THEN [status |-> "inProgress", actualLength |-> 0, packet |-> 0]
                              ELSE iocb[i]]
  /\ stopped' = FALSE
  /\ call' = CallAt(rs, ts)
  /\ UNCHANGED <<receive, qvars, interrupt>>

(* Call with stopAgent set does nothing but say that it is stopped. *)
StopAgent ==
  /\ call = "idle" /\ stopped' = TRUE
  /\ UNCHANGED <<call, rchain, tchain, iocb, receive, qvars, interrupt>>

PushReceive ==
  /\ call = "receive" /\ receiver \notin Holds
  /\ rqueue' = Append(rqueue, Head(rchain))
  /\ rchain' = Tail(rchain) /\ call' = CallAt(rchain', tchain)
  /\ UNCHANGED <<tchain, stopped, iocb, rstop, receiver, span, kernel, readBuffer, arrived,
                 qvars, interrupt>>

PushTransmit ==
  /\ call = "transmit" /\ Push(Head(tchain))
  /\ tchain' = Tail(tchain) /\ call' = CallAt(rchain, tchain')
  /\ UNCHANGED <<rchain, stopped, iocb, receive, stopThread, worker, interrupt>>

(* On an interrupt the driver looks through its requests of that kind. *)
OnInterrupt(kind) ==
  /\ call = "idle" /\ kind \in interrupt
  /\ interrupt' = interrupt \ {kind}
  /\ LET S == IF kind = "receive" THEN Receives ELSE Transmits
     IN  iocb' = [i \in IOCBs |-> IF i \in S /\ iocb[i].status # "inProgress"
                                  THEN [iocb[i] EXCEPT !.status = "free"] ELSE iocb[i]]
  /\ UNCHANGED <<driver, receive, qvars>>

(* run_processor leaves its loop and stops both threads. *)
Leave ==
  /\ call = "idle" /\ call' = "off"
  /\ rstop' = TRUE /\ stopThread' = TRUE
  /\ UNCHANGED <<rchain, tchain, stopped, iocb, rqueue, receiver, span, kernel, readBuffer,
                 arrived, queue, worker, interrupt>>

-----------------------------------------------------------------------------
(* A packet comes from the network. *)
Arrive(length) ==
  /\ arrived < MaxPackets
  /\ arrived' = arrived + 1
  /\ kernel' = Append(kernel, [number |-> arrived', length |-> length])
  /\ UNCHANGED <<driver, iocb, rqueue, rstop, receiver, span, readBuffer, qvars, interrupt>>

(* The receive thread, run. *)
Receiving(from, to) == receiver = from /\ receiver' = to

ReceiveStart ==
  /\ Receiving("start", "top")
  /\ rstop' = FALSE
  /\ UNCHANGED <<driver, iocb, rqueue, span, kernel, readBuffer, arrived, qvars, interrupt>>

ReceiveTop ==
  /\ Receiving("top", IF rstop THEN "done" ELSE "receive")
  /\ UNCHANGED <<driver, iocb, rqueue, rstop, span, kernel, readBuffer, arrived, qvars, interrupt>>

(* Mutants: the newest packet of the buffer first; what is left of the       *)
(* buffer when the next packet is asked for is dropped.                      *)
BPFReceiveNewest ==
  LET packets == IF readBuffer = << >> THEN kernel ELSE readBuffer
  IN  /\ IF packets = << >>
         THEN Receiving("receive", "top") /\ UNCHANGED <<readBuffer, span>>
         ELSE /\ Receiving("receive", "lock")
              /\ span' = packets[Len(packets)]
              /\ readBuffer' = SubSeq(packets, 1, Len(packets) - 1)
      /\ kernel' = IF readBuffer = << >> THEN << >> ELSE kernel
      /\ UNCHANGED <<driver, iocb, rqueue, rstop, arrived, qvars, interrupt>>
BPFReceiveFlush ==
  /\ IF kernel = << >>
     THEN Receiving("receive", "top") /\ readBuffer' = << >> /\ UNCHANGED span
     ELSE Receiving("receive", "lock") /\ span' = Head(kernel) /\ readBuffer' = Tail(kernel)
  /\ kernel' = << >>
  /\ UNCHANGED <<driver, iocb, rqueue, rstop, arrived, qvars, interrupt>>

(* BPF::receive: the oldest packet read; without one, all that the system   *)
(* has are read; without one when a second has passed, nothing.             *)
BPFReceive ==
  LET packets == IF readBuffer = << >> THEN kernel ELSE readBuffer
  IN  /\ IF packets = << >>
         THEN Receiving("receive", "top") /\ UNCHANGED <<readBuffer, span>>
         ELSE /\ Receiving("receive", "lock")
              /\ span' = Head(packets) /\ readBuffer' = Tail(packets)
      /\ kernel' = IF readBuffer = << >> THEN << >> ELSE kernel
      /\ UNCHANGED <<driver, iocb, rqueue, rstop, arrived, qvars, interrupt>>

(* It has the mutex; a packet nobody asked for is dropped. *)
ReceiveLock ==
  /\ Receiving("lock", IF rqueue = << >> THEN "top" ELSE "copy")
  /\ span' = IF rqueue = << >> THEN NoPacket ELSE span
  /\ UNCHANGED <<driver, iocb, rqueue, rstop, kernel, readBuffer, arrived, qvars, interrupt>>

(* process: a packet shorter than the buffer is copied; its length is told   *)
(* before the status.                                                       *)
Wanted == Head(rqueue)
Copy ==
  /\ receiver = "copy"
  /\ \/ /\ span.length < BufferLength
        /\ receiver' = "length"
        /\ iocb' = [iocb EXCEPT ![Wanted].packet = span.number]
     \/ /\ span.length >= BufferLength
        /\ receiver' = "notify"
        /\ iocb' = [iocb EXCEPT ![Wanted].status = "packetTooLong"]
  /\ UNCHANGED <<driver, rqueue, rstop, span, kernel, readBuffer, arrived, qvars, interrupt>>
Complete ==
  /\ \/ /\ Receiving("length", "status")
        /\ iocb' = [iocb EXCEPT ![Wanted].actualLength = span.length]
     \/ /\ Receiving("status", "notify")
        /\ iocb' = [iocb EXCEPT ![Wanted].status = "completedOK"]
  /\ UNCHANGED <<driver, rqueue, rstop, span, kernel, readBuffer, arrived, qvars, interrupt>>
ReceiveNotify ==
  /\ Receiving("notify", "pop")
  /\ interrupt' = interrupt \cup {"receive"}
  /\ UNCHANGED <<driver, iocb, rqueue, rstop, span, kernel, readBuffer, arrived, qvars>>
(* Mutant: the newest request is popped. *)
ReceivePopNewest ==
  /\ Receiving("pop", "top")
  /\ rqueue' = SubSeq(rqueue, 1, Len(rqueue) - 1) /\ span' = NoPacket
  /\ UNCHANGED <<driver, iocb, rstop, kernel, readBuffer, arrived, qvars, interrupt>>
ReceivePop ==
  /\ Receiving("pop", "top")
  /\ rqueue' = Tail(rqueue) /\ span' = NoPacket
  /\ UNCHANGED <<driver, iocb, rstop, kernel, readBuffer, arrived, qvars, interrupt>>

ReceiveRun ==
  \/ ReceiveStart \/ ReceiveTop \/ BPFReceive \/ ReceiveLock
  \/ Copy \/ Complete \/ ReceiveNotify \/ ReceivePop

-----------------------------------------------------------------------------
(* The transmit thread's process: send the packet, tell, interrupt. *)
Sending(from, to) == worker = from /\ worker' = to
Transmit ==
  /\ \/ /\ Sending("process", "status")
        /\ iocb' = [iocb EXCEPT ![Head(queue)].packet = @ + 1]
        /\ UNCHANGED interrupt
     \/ /\ Sending("status", "notify")
        /\ iocb' = [iocb EXCEPT ![Head(queue)].status = "completedOK"]
        /\ UNCHANGED interrupt
     \/ /\ Sending("notify", "pop")
        /\ interrupt' = interrupt \cup {"transmit"}
        /\ UNCHANGED iocb
  /\ UNCHANGED <<driver, receive, queue, stopThread>>

Run == (RunStart \/ RunLock \/ RunTop \/ RunPop) /\ UNCHANGED <<driver, iocb, receive, interrupt>>

Next ==
  \/ \E rs \in Chains(Receives), ts \in Chains(Transmits) : Request(rs, ts)
  \/ StopAgent \/ PushReceive \/ PushTransmit \/ Leave
  \/ \E kind \in {"receive", "transmit"} : OnInterrupt(kind)
  \/ \E length \in Lengths : Arrive(length)
  \/ ReceiveRun
  \/ Transmit \/ Run

(* Both threads go on.  They leave their mutexes again and again for up to  *)
(* a second, and the processor's thread then gets them.                     *)
Fairness ==
  /\ WF_vars(ReceiveRun) /\ WF_vars(Transmit) /\ WF_vars(Run)
  /\ SF_vars(PushReceive) /\ SF_vars(PushTransmit)

Spec == Init /\ [][Next]_vars /\ Fairness

-----------------------------------------------------------------------------
(* Both threads work only for requests in progress, for each once, and in   *)
(* the order of the calls.  The one a thread is done with stays queued      *)
(* until it is popped, and may already be in use again.  A transmit request *)
(* that is completed was sent, and once.                                    *)
Exact(q, chain, told) ==
  /\ \A j, k \in DOMAIN q : q[j] = q[k] => j = k
  /\ \A j \in DOMAIN q : iocb[q[j]].status = "inProgress" \/ (j = 1 /\ told)
  /\ ~ told => Elements(q) \cap Elements(chain) = {}
RequestsExact ==
  /\ TypeOK
  /\ Exact(rqueue, rchain, receiver \in {"notify", "pop"})
  /\ Exact(queue, tchain, worker \in {"notify", "pop"})
  /\ \A i \in Transmits : iocb[i].status = "completedOK" => iocb[i].packet = 1

(* A completed receive request has one whole packet and its true length,    *)
(* no two have the same one, and packets are delivered as they came: those  *)
(* still on the way are newer than any that a request has.                  *)
OnTheWay == Elements(kernel) \cup Elements(readBuffer)
            \cup (IF receiver \in {"lock", "copy"} THEN {span} ELSE {})
PacketsIntact ==
  /\ \A i \in Receives :
       iocb[i].status = "completedOK" =>
         iocb[i].packet # 0 /\ iocb[i].actualLength \in 1 .. BufferLength - 1
  /\ \A i, j \in Receives : iocb[i].packet = iocb[j].packet => i = j \/ iocb[i].packet = 0
  /\ \A i \in Receives, p \in OnTheWay : iocb[i].packet < p.number

(* No outcome goes unseen: until the driver saw it, the interrupt of its     *)
(* kind is pending or about to be, also when both threads end a request at   *)
(* the same time or the interrupt of an earlier one is still pending.        *)
OutcomesNotified ==
  \A i \in IOCBs : iocb[i].status \in {"completedOK", "packetTooLong"} =>
    IF i \in Receives THEN "receive" \in interrupt \/ (receiver = "notify" /\ Wanted = i)
    ELSE "transmit" \in interrupt \/ (worker = "notify" /\ Head(queue) = i)

(* A packet that could be delivered: it is here while a request is queued.  *)
Deliverable == OnTheWay # {} /\ rqueue # << >>
=============================================================================
