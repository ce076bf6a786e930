# Verification of the Mesa processor emulator

TLA+ modules, TLC runs and TLAPS proofs for the emulator in `src/src`: a Mesa
processor (PrincOps) whose instructions run in one host thread, with agents
for disk, network and the other devices in threads of their own, a virtual
memory, and tools that read and list compiled Mesa definitions.
Paths below are relative to `src/src`.

## The system

| Component | State | Operations | Interacts with | What makes it correct |
|---|---|---|---|---|
| Process scheduler, `opcode/Opcode_process.cpp` | process data area: process state blocks, rings of the ready queue, monitors, conditions, fault queues; free state vectors; registers PSB, running, PTC | ME MX MW MR NC BC REQ SPP, faults, Interrupt, TimeoutScan, Reschedule | called by opcodes and by `run_processor`; notified by agents through interrupts | mutual exclusion; every process on one queue; queues in priority order; no lost wakeup; no wait that never ends; the best runnable process runs; state vectors are conserved |
| Processor loop, `mesa/processor.cpp` | stopThread, interruptFlag, timeoutFlag, WP, WDC, running | `run_processor`, `run_timer`, `notifyInterrupt`, `stop`; watchdog | threads of all agents; started and joined by `guam::boot` | no interrupt is lost; each is served; a stop ends all threads |
| Memory map and page cache, `mesa/memory.{cpp,h}`, SM SMF GMF of `opcode/OpcodeEsc.cpp` | page map, real memory, direct mapped cache of map entries | fetch, store, SM, SMF, GMF, mapDisplay | every opcode; agents through `peek` | the cache is invisible |
| Control transfer, `opcode/Opcode_control.cpp` | allocation vector, frames, ports, LF GF CB PC | Alloc, Free, XFER, calls, returns, coroutines, traps | faults go to the scheduler, traps to handlers in the system | no frame is lost or used twice; each transfer happens once whatever interrupts it |
| Simple opcodes, `opcode/OpcodeMop*.cpp`, `OpcodeEsc.cpp`, `Opcode_special.cpp` | stack, registers | one function per opcode, found in a dispatch table | memory | right values; a restart after a fault does not show |
| Block transfers and BITBLT, `opcode/Opcode_block.cpp`, `Opcode_bitblt.cpp` | operands on the stack; caches of a word | BLT, BLTL, ..., CKSUM, BYTBLT, BITBLT, COLORBLT | memory, may fault in the middle | the restarted opcode does just what is left |
| Thread queue, `util/ThreadQueue.h` | deque, mutex, stopThread per element type | push, run, stop, clear | used by disk and network | everything pushed is processed, in order |
| Disk agent, `agent/AgentDisk.cpp` | FCB, DCBs, IOCB chain in emulated memory; an I/O thread | Call, process | memory, thread queue, interrupts | each request is completed once, then an interrupt |
| Network agent, `agent/AgentNetwork.cpp`, `util/{BPF,ByteBuffer}.h` | FCB, receive and transmit queues, read buffer; two threads | Call, receive and transmit threads | as disk | each packet fills one buffer of a live request |
| Readers of compiled files, `bcdFile/` | tables of records, sets of unresolved indices | read a BCD and its symbol segment, resolve indices | used by the tools | every index names the record it was compiled to name |
| Lister, `showType/` | the symbols still to print | print each declaration of a module | the readers | what is printed reads as the source |
| Emulator lifecycle, `mesa/guam.cpp` | the threads, configuration | boot, stop | starts and joins all threads | threads end, a second boot works as the first |
| Floppy agent, `agent/AgentFloppy.cpp` | FCB, DCB, IOCB chain | Call, in the processor's thread | memory, which may fault in the middle; `util/DiskFile.cpp`; interrupts | a chain moves the sectors it names, once and in order, however often Call starts again |
| Stream agent, `agent/AgentStream.cpp`, `agent/Stream*.cpp` | FCB, IOCB, position in the boot file | Call, in the processor's thread; a handler per command and stream | memory, interrupts | a stream is handed out from its start to its end without gaps |
| Other agents | FCBs, copies of host registers | Call, in the processor's thread | memory, the host | a reply to each request |

What is hard: process queues are changed lazily (a timed out process leaves its
ring without the ring's tail being told, and the cleanup links it leaves are
followed by whoever uses the condition next), in any interleaving of opcodes,
faults, interrupts and timeouts; host threads share flags of
which some are tested without the mutex; the cache remembers flags and real
pages that other operations change behind it; every opcode may be interrupted by
a page fault at any word it touches and runs again from its start, on what it
left; a transfer of control takes frames, saves and loads registers and may
trap, all in one opcode; a record of a compiled file has no length of its own.
`PROJECT.json` lists these hazards, each at its line, with the properties aimed at it.

## Modules

| Module | Models | Correspondence |
|---|---|---|
| `ProcessQueues` | queuing procedures, state vectors, Reschedule, notify, cleanup, Interrupt, TimeoutScan, Fault | one operator per procedure of `Opcode_process.cpp`, from the process data area before to the one after; a walk of the code along links is the set it reaches |
| `ProcessScheduler` | the process opcodes, faults, and the block of `run_processor` that serves interrupts and ticks | one action per opcode; `pc` is where a process is in the protocol of compiled Mesa code |
| `MesaMonitors` | what the opcodes promise a program: monitors and conditions without rings, links, timers or a processor | abstract specification |
| `ProcessRefinement` | refinement mapping from `ProcessScheduler` to `MesaMonitors` | who waits ahead of whom is the order of the ring as the next user of the condition will find it |
| `TimedWaits` | `ProcessScheduler` with a history variable: ticks left of each timed wait | to compare the wrapping 16 bit deadline with real time |
| `ProcessorLoop` | `run_processor`, `run_timer`, `notifyInterrupt`, the watchdog's stop, boot | one action per statement another thread can see |
| `VirtualMemory` | the memory map without a cache | abstract specification |
| `PageCache` | fetch and store through the cache; initialize, mapDisplay, SM, SMF, GMF | one action per operation and outcome |
| `Machine` | stack, program counter, paged memory, fields and long words | a record, and operators from the record before to the one after; each does nothing once an exception is on its way |
| `MemoryOpcodes`, `StackOpcodes`, `BlockOpcodes`, `BitBlt` | what each opcode does | one operator `E_...` per opcode or family of opcodes that differ in their operand only |
| `Instructions` | the dispatch tables | from an opcode and its operand to its operator |
| `Interpreter` | an opcode executed, page faults and restarts, until it is done; what it should have done | `Run1` is one turn of the main loop, `Restart` the handling of its Abort |
| `ControlTransfer` | Alloc, Free, XFER with its kinds of link, calls, returns, ports, traps and faults; the opcodes that use them; the program they run | `Run` is one opcode with the traps it meets; the others are what the scheduler and the system do in between |
| `Activations` | what control transfer promises: activations called, left, resumed | abstract specification |
| `ThreadQueue` | `ThreadQueueProcessor`: push, clear, run | callers hold the mutex for one step; `run` from its wakeup to its next sleep |
| `DiskAgent` | `AgentDisk::Call` and `IOThread::process`, with `ThreadQueue` | one action per push and per statement of `process` the driver can see |
| `NetworkAgent` | `AgentNetwork::Call`, the receive thread with its poll and its read buffer, the transmit thread on `ThreadQueue` | as `DiskAgent`; the receive thread as its loop goes |
| `FloppyAgent` | `AgentFloppy::Call` with every function, and its restart after a fault | one action per sector moved, per request completed |
| `StreamAgent` | `AgentStream::Call` and the commands of the streams | one action per handler that does more than refuse |
| `SymbolFile` | reading the tables of a BCD and of its symbols, registering and resolving indices | one action per record read, per table resolved |
| `ShowType` | printing a module's symbols | one action per outer symbol; one recursive operator per procedure of `ShowType.cpp` |
| `MCProcessScheduler`, `MCTimedWaits`, `MCPageCache`, `MCInterpreter`, `MCControlTransfer`, `MCAgents`, `MCShowType` | values of constants for TLC: the inputs of opcodes, the program that transfers control, the source files | `MCAgents` puts the four agents into one state space, of which a behaviour has one |
| `QueueProofs`, `SchedulerProofs`, `RefinementProofs`, `TimedWaitProofs`, `AgentProofs`, `ControlTransferProofs`, `ProcessorLoopProofs`, `PageCacheProofs` | theorems | see Proofs |

Operators below the comment "Mutant" are plausible mistakes in the operator that
follows; with such an operator in its place TLC finds the property violated
that `PROJECT.json` pairs with it.

External, modelled from how the code is used: the Mesa programs that execute
the opcodes (they enter a monitor, and leave it or wait in it, in the order the
opcodes are made for); the system's Process.Abort (which uses REQ with a nil
source); the handlers of traps and frame faults; fault handlers that resume
a faulted process with REQ from inside the fault's monitor; the disk and
Ethernet drivers, which use a request block again once they saw its status; the
floppy and stream drivers, which use one when Call is back; the network; the Mesa compiler, which wrote the files that are read.

### Abstractions

* Scheduler: an opcode is one step, since a single thread executes it
  and the structures it touches are resident; addresses, words and frames are model values; `pda`
  holds the monitors and conditions too, which the code reaches by pointers.
  Timeouts are natural numbers below `Ticks`, the number of values of PTC. The system has interrupts enabled when it
  executes an opcode that may leave no process to run; else Reschedule would trap with RescheduleError (`opcode/Opcode_process.cpp:250`).
* Processor loop: an opcode does anything the loop can tell apart: it nests or leaves DI, writes WDC or WP
  (WRWDC, WRWP) with any value, leaves no process to run, arms a device, stops the emulator or ends in an error. A level of WP without a device
  is one whose device was never armed.
* Page cache: a page holds one word.
* Machine: words have 4 bits and pages 4 words, so that bytes are pairs of bits and
  all carries, signs, field ends and page ends occur with few values. A pixel address is the
  number of its bit. The caches of code and stack pages that only save time are not state.
* Control transfer: a link is a value of its kind rather than a coded long word; a long word
  takes one cell of the stack; a frame with its overhead and its locals lies in one page, and that of the
  running activation is present; a global frame is present while XFER traps are
  being asked for; indirect links have one level. The system does not take code out while
  wakeups are disabled. ControlTrap and StackError stop the emulator (`DEBUG_STOP_AT_...`), and
  no program here meets them. Resumption after a fault is inside a `try`, as
  `mesa/processor.cpp:203` has it for all but the first transfer after boot.
* Agents: the contents of pages and packets are identities (which page, which packet, how long). An ERROR in an
  I/O thread, or in a stream that does not know a command, ends the program and is left out. A word of the boot file is its
  number; states of connections, and what the driver puts for StreamCopyPaste to log, are left out.
* Compiled files: a record is the fields its words hold, its length what the reader makes of its tags.
  `Declared` in `MCShowType` is the length by the Mesa declarations that the
  source quotes in comments, independent of the reader's. What is printed is tokens, without layout.

## Runs

| Run | What it shows | Bounds |
|---|---|---|
| `scheduler` | `QueuesSound`: every process on one queue, rings sorted by priority; `PendingConsistent`: waiting bits, timeouts and `failed` bits agree with rings; mutual exclusion; no process stranded on an open monitor; no waiter beside a kept wakeup, which only a wait that does not sleep consumes; the best runnable process runs and can be preempted; state vectors are conserved | 3 processes of which 1 permanent, 2 priorities, 1 monitor; 1 abortable condition that is also an interrupt level's and that of the page fault queue; a pool; 1 state vector per priority so that they do run out; PTC of 2 values of which 0 is skipped, waits of 0 and 1 tick |
| `timeouts` | a wait of t ticks never lasts longer and ends no earlier than its last tick but one; the opcodes implement `MesaMonitors` | 3 processes; PTC of 4 values of which 0 is skipped, so that it wraps within every behaviour; waits of 0, 1 and 3 ticks, the last a whole turn, abort, an interrupt; no REQ, SPP or faults |
| `page_cache` | coherence; the cached memory implements `VirtualMemory` | 3 virtual and 2 real pages on 1 slot, 2 words, flags without protection, one display page; programs that keep off page 0 |
| `loop` | an interrupt a device posted stays in WP, with a flag on its way, until it is served or the program overwrites WP; whatever bit of WP has a flag on its way is served; WDC stays a word; a stop ends processor and timer | 2 devices, DI nests to 2, WDC is a word of 4 values, 2 boots |
| `interpreter` | an opcode that faults interrupt ends as if nothing had happened (`Transparent`); its traps find operands and memory untouched; each page it wrote is marked dirty; loads read what stores wrote, divisions, VMFIND, blocks and bitmaps are what reference definitions say | every opcode of the tables, operands inside a page, across two and at a page's end; 2 faults for each, one absent page an attempt |
| `transfers` | no link dangles and no port pends on one that does not wait, whatever comes between the opcode that stores it and the one that follows it (`LinksLive`); free lists stay lists, with frames of their size, and the running frame is on none; global frame and code base are the running frame's; control transfer implements `Activations`; the first activation runs again for ever | 7 frames of 2 sizes of which 2 are spare, 3 modules, 2 ports, 1 indirect link; a program with every kind of call, return and transfer and handlers of every kind; 2 page faults, code taken out once; XTS initially 0 and 2, but no module that asks for xfer traps |
| `agents` | the threads work only for requests in progress, each once, also across stop and start; a disk request completed moved all its pages though its block may be filled anew at once; packets are delivered whole, once and in order; no outcome goes unseen; nothing is forgotten; a chain of floppy requests moves what it promises across faults, and the boot stream delivers its file (`TransfersExact`); requests are served, packets delivered, Call returns and a stop ends the threads | disk: 2 request blocks of up to 2 pages; network: 2 requests to receive, 1 to transmit, 2 packets of lengths 1 and 2, buffers of 2; floppy: one chain of up to 2 requests of up to 2 sectors or tracks, on 2 cylinders, 2 heads and 2 sectors, 2 data pages, either absent; stream: a file of 5 words, buffers of 2 |
| `symbols` | every index names the record it was compiled to, and reading goes wrong only after a BITS record; what is printed is the source, but for numbers below 0, and a listing hangs only where the source names an enumerator that is not the first of its type | 9 source files with each kind of type, default and table; enumerations used for values and bounds, numbers below 0, a BITS type |
| `page_zero`, `write_protect`, `timer_after_error`, `second_boot` | the four disagreements below | as the passing runs of their modules, with 2 cache slots |

Three processes are the fewest that make a ring with a first, an inner and a
last member, that leave two stale cleanup links in a row, and that let one
process overtake another between Exit and the entrant's next ME; two priorities
order them. One slot makes all pages share; the theorem `Coherence` covers any number.

An attempt of an opcode stops at the first absent page it touches, so one absent page per attempt
gives every way to interrupt it, and two faults give an interrupted restart. The operand sets
of `MCInterpreter` put a double word or a block inside a page, across a page boundary and
at its end, the opcode at the start of a page and at its end, and values at 0, in the middle and at
the sign bit and the maximum of a word.

In `transfers` the program loops: it calls into another module and is called from
there, calls locally, through a procedure descriptor and an indirect link that
is bound by a trap, takes a frame and frees it, does a port transfer to a coroutine and back, traps
on bounds. The list of frames of one size leads to the next size, so that the second of two calls meets
both. Any of its opcodes may fault on any page it touches.

In `agents` the agents are explored one at a time, since they share no state. A third
request block, or a third packet, adds none of the races the hazards name: they
are between one block filled anew and one behind it in the queue. Of two floppy requests the second faults after the
first is done, a transfer of two sectors passes a head or a cylinder, and both use the same pages, so that a request run
twice, or out of order, shows. A file of two buffers and a half has a first, a full and a last short buffer, and
a connection may be made anew between any two.

`NPsb`, `NPri`, `Ticks`, `WaitTicks`, `VPSize`, `RPSize`, `NSlots`, `MaxDisable`, `MaxWord`, `Boots`, `MaxFaults`, `MaxEvents`,
`MaxPages`, `MaxPackets` and `MaxChain` are the bounds; the code's values are 1024 process blocks at most, 8 priorities, 65536 values of PTC and
7 for the nesting of DI and 65535 for the largest word. No run constrains states beyond these constants. Deadlock is checked, except where
the system ends: the emulator can stop (`loop`), the four runs of disagreements end at what they show, one opcode is done
(`interpreter`), a listing is (`symbols`), the threads of an agent have stopped (`agents`).

### Disagreements

* `page_zero`: a cleared cache entry has `vpno` 0 and a null page, and so passes
  for the entry of page 0 (`mesa/memory.h:182`).
* `write_protect`: `store` looks at the entry's number only; a page loaded by
  `fetch` is stored into although protected (`mesa/memory.h:200`).
* `timer_after_error`: after ErrorError `run_processor` leaves `stopThread`
  unset, the timer thread runs on and boot never returns (`mesa/processor.cpp:239`).
* `second_boot`: `stopThread` is reset by `run_processor`, not before the threads
  start; the timer of a second boot may leave at once (`mesa/processor.cpp:155`).

`ImplementsVirtualMemory` is therefore stated for programs that meet neither of the
first two, by the constants `Accessed` and `FlagsSet`, and `loop` for opcodes
that raise no ErrorError; safety there holds with errors as well (see the proofs).

### What the properties except

The models do what the code does in the following places too, which a reader of the code would take for
mistakes; they are exceptions to the properties and not runs (a comment that says otherwise is named):

* SGD and WOB store through a pointer they got with Fetch: the page may not be marked dirty (`WrittenIsDirty` excepts them).
* BITBLT after a fault starts from the beginning: with a function that reads the destination, or overlapping rectangles,
  lines are combined twice. `Transparent` takes only rectangles of `Repeatable`.
* FromBitBlt marks gray patterns as unpacked; a cached source word is stale once the destination wrote it
  (`BlocksExact` is stated for disjoint or read-first rectangles).
* BLT with short pointers does not wrap at the end of the main data space, CKSUM runs past its page, SDDIV of the
  least number by -1 overflows, VMFIND of an empty table underflows: no scenario does this.
* In XFER the test for an xfer trap comes after the new frame is taken and LF is set, and `transfers` lets no module ask for that trap; XFER with an indirect
  link pushes two words after it took a frame; XE turns any fault of its transfer into an ERROR; a fault on the running frame's page in
  SaveProcess is an ERROR; the first transfer after boot is outside any `try`. The abstractions above keep off these.
* A packet that exactly fits its buffer is reported as too long. `PacketsIntact` takes that report as an outcome.
  A stop does not take receive requests back.
* Writing several floppy sectors without `incrementDataPointer` writes the first of them each time (`agent/AgentFloppy.cpp:204`),
  and tracks are formatted from the sector of the address, which the comment at `mesa/Pilot.h:1871` says is ignored. A page fault
  after the first sector of a request restarts it where it is but with its full count, and so moves sectors past its end. The driver of
  `FloppyAgent` asks for none of these, and only the first page of a request may be absent.
* StreamWWC and StreamCopyPaste note a connection as made and answer that it failed; StreamPCFA and StreamTCP answer a read with an error.
* `ThreadQueue::run` resets `stopThread` and clears its queue when it starts, without the mutex. The model lets it start as late
  as it likes, so a stop or a request that came before is lost as in the code; `NotForgotten` and `ThreadsYield`
  except just this, which takes a host that does not schedule the thread between its start and the first request.
* In the lister: `context.defaultPublic` is restored from itself, a TRANSFER's
  tag of arrays and the `code` of a REF are compared with the wrong constants, LITERAL lists print as LOOPHOLE;
  in the reader: the tag of a nested body is read from one bit of two.
* Three more in the sources of `symbols`, which its properties state as exceptions. A BITS record is read as 2 words (`bcdFile/SERecord.h:388`) where
  its declaration has 3 (`bcdFile/SERecord.h:140`): `TablesExact` says that nothing but this makes the reader take a word for what it is not.
  `putEnum` never goes on to the next enumerator (`showType/ShowType.cpp:338`), so that any value but the first of an enumeration, dense or sparse, hangs the lister, and
  numbers are printed through an unsigned parameter (`showType/ShowType.cpp:396`), so that -5 comes out as 65531, also where the format is "INTEGER or
  subrange with base < 0" (`showType/ShowType.h:103`): `RoundTrip` says that it hangs only where the source names such an enumerator, and that no other
  number changes.
* The sources of `MCShowType` have no CHARACTER or procedure constant, and public symbols only, outside a PRIVATE record.
* WRWP drops bits that devices post between the program's read of WP and its write, and sets bits no flag goes with; `NoLostInterrupt` is about
  what devices posted and the program did not overwrite, `InterruptServed` about bits with a flag on its way. DI above its limit, where only
  WRWDC can put WDC, counts on and wraps to 0 (`mesa/Variable.h:140`).

## Fairness

* `ProcessorLoop`: weak fairness of the processor thread, the timer thread and a device thread
  that is inside `notifyInterrupt`: the host schedules its threads, every wait has a
  timeout of a second, and the mutex is held for a few statements only. Devices may stop posting.
  Strong fairness of an opcode that enables interrupts, however they were disabled (EI that leaves the last DI, DI that
  wraps, or WRWDC): the emulated system enables interrupts again, which is its contract with the
  processor (otherwise no interrupt can be promised).
* `ControlTransfer`: weak fairness of executing an opcode, of resuming the process and of the
  system's frame fault handler, each written with its guard. Preemption, page faults and code swapping are not fair;
  the bounds end them.
* Agents: weak fairness of the I/O threads, strong fairness of the processor's
  thread getting their mutex in Call, since the mutex is free for up to a second again and again, and weak
  fairness of Call in the floppy and stream agents, which take no mutex.
  The drivers need not do anything, and the network need not deliver.
* `TimedWaits` has no liveness property: `NoWaitTooLong` bounds every wait by ticks, and `run_timer` makes them.
* The refinements of `MesaMonitors`, `VirtualMemory` and `Activations` are safety only.

## Proofs

All theorems hold for every value of the constants that meets the named
assumptions of the modules: sizes positive, kinds of queue disjoint, constants of
their types, in `FrameAssumption` that the frame lists the system leaves when it starts the program are lists (their frames of their
size, on one list only; a list ends empty or leads to that of a larger size), in `FloppyAssumption` that the driver's requests stay on the disk and in its pages, and, in `InitStateAssumption`, that the lists of free state vectors
hold each vector once, as the system builds them before it starts the processor. TLC
evaluates those assumptions in each run.

**`QueueProofs`** has the lemmas about the procedures of `ProcessQueues`: what each does to the
queues of any number of processes. A queue is one cycle of links in
priority order with a tail; `h` says which queue each process is on; `Rings` says that links and tails are
what `h` says, except that a condition may be *stale*: a process left it that Dequeue was not
told the queue of (a timeout, an abort), so its tail has to be followed along
`cleanup` links to one that is still there. `CleanupCondition` ends that.
The walks of the code are sets closed under links, and a cycle is a set none of whose proper
non-empty subsets is closed, so that reachability needs no induction.

**`SchedulerProofs`, the rings.** The inductive invariant is `RInv`: `IInv` below, and some `h` exists such that the
queues are `Settled` (`Rings`, and the waiting bits, timeouts and stored wakeups agree with `h`),
the choice of the last Reschedule is still the best (`Scheduled`), a process that failed to enter was
not preempted since (`Owed`), and each process is on a queue that fits the
instruction it retries, with somebody on the way to every unlocked monitor with an entry queue (`Protocol`).
It is what makes the five invariants of the run inductive together: order and partition need that the stale links
lead where their processes wait, that a failed entry is still owed needs who was preempted, and all need the partition.
From it: `QueuesAlwaysSound`, `PendingAlwaysConsistent`, `EntryNeverStranded`, `WakeupNeverBesideWaiter`,
`HighestPriorityAlwaysRuns`, and the action property `WakeupsNeverLost`.

**`RefinementProofs`.** `OpcodesImplementMonitors`: `Spec => ImplementsMesaMonitors`, for any number of processes,
monitors, conditions, priorities, interrupt levels and timers. The processes ahead of a waiter are those a walk along the ring, from
the first one to it, meets. From `RInv` it follows (`Matched`) that exactly the processes on a condition's queue are the abstract waiters, and that
the first of them is the abstract one. What each queuing procedure does to that order is proved in `QueueProofs` with
what it does to the queues: Dequeue takes one process out of everyone's view and leaves the rest in order; Enqueue puts it behind
those of its priority or a higher one and ahead of the others; CleanupCondition changes nobody's order. That needs more than rings that are sorted,
namely that the tail CleanupCondition finds is the last of those that still wait. `SeenSame` is what no monitor program can tell apart:
Reschedule, state vectors, ready, fault and entry queues are stutters. Each action is then one lemma (`ImplementsME`, ...); the
turn of the main loop is the hardest, where several interrupts and timeouts in one step wake the first waiter of each condition that rings, and
then those whose time is over (`Awakens`, with `Woken` of the loops).

**`SchedulerProofs`, monitors and state vectors.** `MonitorsExclude`: `Spec => []MutualExclusion`, and
`AlwaysPreemptible`: `Spec => []PreemptionPossible`. `MutualExclusion` is nearly
inductive, but the step of MX and MW needs that the process which
unlocks is the one inside, for which `IInv` says of each monitor that `locked` holds
exactly when one process is inside, that `pc` is typed and that `PSB` is a
process. `PreemptionPossible` needs that `state` is a function of lists and that a
suspended process that was preempted owns a state vector, since LoadProcess puts it
back before the process runs. Both need that
nothing else disturbs them: the `Moved` lemmas say that all queuing procedures,
and by induction over the loops of Interrupt, TimeoutScan and broadcast those
too, leave locks, priorities and state vectors alone, so no fact about rings is needed.
`StateVectorsAlwaysConserved` adds to it that a vector is on the free list of its priority or held by one
saved process (`VInv`), and counts. The loops are
recursive functions; `IntervalInduction` does their induction with a least
counterexample, as a set of naturals, because the library's induction theorems
take an operator as parameter.

**`TimedWaitProofs`.** `WaitsNeverTooLong` and `WaitsNeverTooShort`, for any size of PTC. `TInv` says that the
deadline of a timed wait is as far ahead of PTC, around a circle that leaves out 0 for deadlines but not for
PTC, as the wait has ticks left, or one more where 0 is skipped; it rests on `RInv`, since
only a process on a condition has a deadline.

**`AgentProofs`.** For any number of requests, pages and packets. `DiskInv` and `NetInv` say of every request block
where it is (chain of Call, queue, with the thread, with the driver) and what was done to it by then, and of every
packet whether it is ahead of those delivered. From them: `RequestsAlwaysExact`, `PagesAlwaysMoved`,
`OutcomesAlwaysNotified`, `PacketsAlwaysIntact` and the action property `NeverForgotten`. The properties alone are not inductive:
that the popped request is the one at the head needs that run cleared nothing in between, that a status
is seen needs where the interrupt is. `TransfersAlwaysExact` covers the other two agents. Of the boot stream, `StreamInv`:
the buffer holds the words of the file that come after those the driver has. Of the floppy agent, `FloppyInv`: some request of the
chain is as far as Call ever came; those before it are done and have a count of 0, so that Call passes over them when a fault made it start
again; those after it are untouched; and the disk and the pages hold what the requests before it promise together with the
sectors it has moved. It needs that addresses and sector numbers are inverse to each other for any number of heads, cylinders and
sectors, that a page several sectors go to has the last, and of the driver (`FloppyAssumption`, that requests are `Within` the disk and the
data pages, and the exceptions above) that no fault comes in the middle of a request. What the first n requests promise is a recursive function; that it has a value is
proved by `IntervalInduction`, a least counterexample as in `QueueProofs`.

**`ControlTransferProofs`.** For any number of frames, sizes, modules, ports and instructions. What a program can do to its own
frames no processor prevents, so both theorems have a hypothesis, `[]Proper`: links lead to activations or procedures, AF asks for sizes
there are, FF and RET give back frames in use, none that a trap handler waits in, and no activation returns to itself. `Proper` is
a conjunct of `LinksLive`, an invariant of the run: the program there keeps to it across every trap and fault, so the
hypothesis is met. `FramesAlwaysSound`: `Spec /\ []Proper => []FramesSound`. The invariant, `HeapInv`, says that some lists
run through the frames (`Through`), past the running frame, those not given out and those of the handlers (`Holds`), and that a process that
is away comes back to the frame it left. In an opcode the lists also run past
all frames in use at its start (`Begun`); a step takes the first frame of a list (`Taken`), puts one that is on none first (`Given`) or
leaves them alone (`Calm`). The hard part is that each can stop halfway: Alloc that has found a frame and cannot read its link, Free that
has not yet linked its frame, XFER that took a frame and then meets a trap, which takes another, or a fault. `FreeListIs` says that
the list `FreeList` reads is the one the frames are threaded on, and `SlotEnds` that the walk of Alloc to larger sizes ends; both by `IntervalInduction`.
`GlobalsAlwaysCoherent`: `Spec /\ []Proper => []GlobalsCoherent`. Every way through XFER loads the
module that the context it commits names (`Loaded`), or stops before it commits; a trap reloads, and a process that left
the processor comes back through XFER.

**`ProcessorLoopProofs`.** `TypeCorrect` and `InterruptsKept`:
`Spec => []NoLostInterrupt`, for any devices, depth of DI and size of words, and a program that writes WP and WDC. The history variable `posted` says which
bits of WP devices set and nobody served or overwrote since. The invariant adds that a taken interrupt flag is still
to be served (`taken.interrupt` only at the places between taking and serving),
and that before the first reset no device has posted, since Reset clears the flags.

**`PageCacheProofs`.** `TypeCorrect`; `Coherence`: every cache entry agrees with
the map, for every number of pages and slots; `CacheInvisible`: under the two
restrictions on programs above the cached memory implements the uncached one, with
coherence and `NoneProtected` as invariant, each step mapped to a step of `VirtualMemory`.

Model-checked only:

* Liveness (`InterruptServed`, `StopHonoured`, `RequestsServed`, `PacketDelivered`, `ThreadsYield`, `RootRunsAgain`): out of
  the prover's reach.
* The opcodes (`Transparent`, `TrapsPrecise`, `WrittenIsDirty`, `ScalarsExact`, `BlocksExact`), the readers of compiled files (`TablesExact`) and
  the lister (`RoundTrip`): what a recursive computation yields for all data needs an induction over data.
* `LinksLive` and `ImplementsActivations`: which activation a link or a port names at a time is up to the program that
  stores it, and the run's program is one; a proof would need a description of all compiled programs.

## Not modelled, and the plan

Not modelled: statistics, logging and tracing; the Tcl and headless
front ends; the image tools, which are programs of their own around file formats; configuration and file
attachment at boot; the agents that
copy registers of the host (keyboard, mouse, beep, display, processor); STOPEMULATOR; CALLAGENT as an opcode (what it calls
is `Call` of the agents' modules). Faults in the middle of a process opcode are not modelled, as the process data
area is resident. The variants of MonoBlt that `getInstance` never chooses and of block
transfers without `USE_FAST_BLT` are not built or not reached.

Done, in this order: scheduler and its abstraction; timed waits; page
cache and its abstraction; processor loop; thread queue and disk agent; proofs of the
first, third and fourth; network agent; all opcodes with restart; control transfer and its abstraction; symbol files and lister; floppy and stream agents;
proofs of the scheduler's rings and state vectors, of timed waits and of the agents; of the refinement of `MesaMonitors`; of
frame lists and globals in control transfer.

To come:

1. Proofs: that control transfer implements `Activations`, given a description of what compilers emit around ports and links.
2. Boot with the agents' threads in place of the processor's and timer's alone.
