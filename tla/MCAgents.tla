------------------------------ MODULE MCAgents ------------------------------
(***************************************************************************)
(* The agents that transfer data, for model checking.  They have no state   *)
(* in common, so that one of them is explored at a time: agent says which,  *)
(* and the variables of the others are at rest.                             *)
(***************************************************************************)
EXTENDS Naturals, Sequences, FiniteSets

CONSTANTS
  DiskIOCBs, MaxPages,                                       \* of DiskAgent
  Receives, Transmits, BufferLength, Lengths, MaxPackets,    \* of NetworkAgent
  Heads, SectorsPerTrack, Cylinders, DataPages,              \* of FloppyAgent
  FloppyRequests, MaxChain,
  FileWords, PageWords, AnswerWords                          \* of StreamAgent

ASSUME AgentsAssumption ==
  /\ IsFiniteSet(DiskIOCBs) /\ MaxPages \in Nat
  /\ IsFiniteSet(Receives \cup Transmits) /\ Receives \cap Transmits = {}
  /\ BufferLength \in Nat \ {0} /\ Lengths \subseteq Nat \ {0} /\ MaxPackets \in Nat \ {0}
  /\ {Heads, SectorsPerTrack, Cylinders, FileWords, PageWords} \subseteq Nat \ {0}
  /\ DataPages \subseteq Nat \ {0} /\ MaxChain \in Nat /\ AnswerWords \in 1 .. PageWords

(* What the driver asks of the floppy: transfers that pass on to the other   *)
(* head and to the next cylinder, tracks of both heads, a track of another   *)
(* size than the drive's, which the request may say, and nothing at all.     *)
Operation(f, c, h, s, p, inc, n) ==
  [function |-> f, address |-> [cylinder |-> c, head |-> h, sector |-> s],
   dataPtr |-> p, incrementDataPointer |-> inc, count |-> n,
   sectorsPerTrack |-> SectorsPerTrack, status |-> "inProgress"]
MCFloppyRequests ==
  {Operation("nop", 0, 0, 1, 1, FALSE, 0)}
  \cup {Operation("formatTrack", 0, 1, 1, 1, FALSE, n) : n \in {1, 2}}
  \cup {[Operation("formatTrack", 0, 1, 1, 1, FALSE, 1) EXCEPT
           !.sectorsPerTrack = SectorsPerTrack + 1]}
  \cup {r \in {Operation(f, 0, h, SectorsPerTrack, p, inc, n) :
                 f \in {"readSector", "writeSector"}, h \in {0, 1}, p \in DataPages,
                 inc \in BOOLEAN, n \in {1, 2}} :
           /\ r.incrementDataPointer => r.dataPtr + r.count - 1 \in DataPages
           /\ r.function = "writeSector" /\ r.count > 1 => r.incrementDataPointer}

VARIABLES
  agent,                            \* which of them
  call, interrupt, agentStopped,    \* of the one that is explored
  queue, stopThread, worker,        \* of the disk agent or the network agent
  chain, index, asked,              \* of the disk agent or the floppy agent
  status, pageCount, moved,
  rchain, tchain, iocb, rqueue, rstop, receiver, span, kernel, readBuffer, arrived,
  at, held, resident,
  fcb, mesaGet, pos, got, ended

common   == <<call, interrupt, agentStopped>>
thread   == <<queue, stopThread, worker>>
requests == <<chain, index, asked>>
disk     == <<status, pageCount, moved>>
network  == <<rchain, tchain, iocb, rqueue, rstop, receiver, span, kernel, readBuffer, arrived>>
floppy   == <<at, held, resident>>
stream   == <<fcb, mesaGet, pos, got, ended>>
vars     == <<agent, common, thread, requests, disk, network, floppy, stream>>

D == INSTANCE DiskAgent WITH IOCBs <- DiskIOCBs
N == INSTANCE NetworkAgent WITH stopped <- agentStopped
F == INSTANCE FloppyAgent WITH Requests <- FloppyRequests
S == INSTANCE StreamAgent

ASSUME FloppyAssumption == \A r \in FloppyRequests : F!Within(r)

ThreadAtRest   == queue = << >> /\ stopThread = FALSE /\ worker = "done"
RequestsAtRest == chain = 0 /\ index = 0 /\ asked = 0
DiskAtRest     == status = 0 /\ pageCount = 0 /\ moved = 0
NetworkAtRest ==
  /\ rchain = 0 /\ tchain = 0 /\ iocb = 0 /\ rqueue = 0 /\ rstop = FALSE
  /\ receiver = "done" /\ span = 0 /\ kernel = 0 /\ readBuffer = 0 /\ arrived = 0
FloppyAtRest == at = 0 /\ held = 0 /\ resident = 0
StreamAtRest == fcb = 0 /\ mesaGet = 0 /\ pos = 0 /\ got = 0 /\ ended = 0

Init ==
  \/ /\ agent = "disk" /\ D!Init
     /\ NetworkAtRest /\ FloppyAtRest /\ StreamAtRest
  \/ /\ agent = "network" /\ N!Init
     /\ RequestsAtRest /\ DiskAtRest /\ FloppyAtRest /\ StreamAtRest
  \/ /\ agent = "floppy" /\ F!Init
     /\ ThreadAtRest /\ DiskAtRest /\ NetworkAtRest /\ StreamAtRest
  \/ /\ agent = "stream" /\ S!Init
     /\ ThreadAtRest /\ RequestsAtRest /\ DiskAtRest /\ NetworkAtRest /\ FloppyAtRest

OfDisk(A) ==
  agent = "disk" /\ A /\ UNCHANGED <<agent, network, floppy, stream>>
OfNetwork(A) ==
  agent = "network" /\ A /\ UNCHANGED <<agent, requests, disk, floppy, stream>>
OfFloppy(A) ==
  agent = "floppy" /\ A /\ UNCHANGED <<agent, thread, disk, network, stream>>
OfStream(A) ==
  agent = "stream" /\ A /\ UNCHANGED <<agent, thread, requests, disk, network, floppy>>

Next == OfDisk(D!Next) \/ OfNetwork(N!Next) \/ OfFloppy(F!Next) \/ OfStream(S!Next)

(* The fairness of the agents: an action of one never becomes enabled in a   *)
(* behaviour of another, so that each condition on a disjunction is one on   *)
(* the action of the agent that is explored.                                 *)
Fairness ==
  /\ WF_vars(OfDisk(D!Process) \/ OfNetwork(N!Transmit) \/ OfFloppy(F!Call) \/ OfStream(S!Call))
  /\ WF_vars(OfDisk(D!Run) \/ OfNetwork(N!Run))
  /\ WF_vars(OfNetwork(N!ReceiveRun))
  /\ SF_vars(OfDisk(D!Start) \/ OfNetwork(N!PushReceive))
  /\ SF_vars(OfDisk(D!PushNext) \/ OfNetwork(N!PushTransmit))

Spec == Init /\ [][Next]_vars /\ Fairness

-----------------------------------------------------------------------------
Disk    == agent = "disk"
Network == agent = "network"

(* The threads of both agents work only for requests in progress, and for    *)
(* each once, also where the driver took requests back on a restart; a       *)
(* transmit request that is completed was sent, and once.                    *)
RequestsExact == (Disk => D!RequestsExact) /\ (Network => N!RequestsExact)

(* No outcome goes unseen by the emulated driver: until it saw it, the       *)
(* interrupt is pending or about to be.                                      *)
OutcomesNotified == (Disk => D!OutcomesNotified) /\ (Network => N!OutcomesNotified)

(* A completed disk request moved all its pages, and each once, although the *)
(* driver may fill the IOCB anew as soon as it sees its status.              *)
AllPagesMoved == Disk => D!AllPagesMoved

(* A completed receive request has one whole packet and its true length, no  *)
(* two have the same one, and packets are delivered as they came.            *)
PacketsIntact == Network => N!PacketsIntact

(* Without a thread of their own: a chain of floppy requests moves what they *)
(* promise, in their order, each once and nothing else, also where a fault   *)
(* makes Call start it again; and the boot stream hands out its file from    *)
(* the first word to the last, whatever comes between.                       *)
TransfersExact ==
  (agent = "floppy" => F!ChainExact) /\ (agent = "stream" => S!FileDelivered)

(* A disk request leaves the queue completed or taken back by the driver; it *)
(* is lost only where the thread starts late, with run's own clear.          *)
NotForgotten ==
  [][Disk => \A i \in DiskIOCBs : D!LeavesQueue(i) => D!MayLeave(i)]_vars

(* A queued disk request is completed or taken back, unless the thread stops.*)
RequestsServed ==
  \A i \in DiskIOCBs : (Disk /\ D!Queued(i)) ~> (~ D!Queued(i) \/ stopThread)

(* A packet that is here while a request is queued is not dropped: it, or    *)
(* one before it, ends a request, however the pushes of Call compete for the *)
(* mutex; only a stop lets both be.                                          *)
PacketDelivered == (Network /\ N!Deliverable) ~> (receiver = "pop" \/ rstop)

(* Call comes back, however many requests are queued before the mutex is     *)
(* free, and where pages are absent, so the emulated machine goes on; and a  *)
(* stop ends each I/O thread, in the middle of its queue or asleep, unless   *)
(* it comes before its start.                                                *)
ThreadsYield ==
  /\ (call \in {"clear", "push", "receive", "transmit", "floppy", "stream"}) ~> (call = "idle")
  /\ (Network /\ rstop /\ receiver # "start") ~> (receiver = "done")
  /\ (stopThread /\ worker # "start") ~> (worker = "done")
=============================================================================
