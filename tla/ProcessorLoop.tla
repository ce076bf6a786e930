--------------------------- MODULE ProcessorLoop ----------------------------
(***************************************************************************)
(* The threads that drive the emulated processor (src/mesa/processor.cpp):  *)
(* run_processor, the timer thread run_timer, the devices' threads that     *)
(* call notifyInterrupt, and whoever stops the emulator.  guam::boot starts *)
(* the first two, joins them, and may be called again.                      *)
(*                                                                          *)
(* What opcodes do is chosen freely, WP and WDC written by the program       *)
(* included; of the scheduler only whether a process runs and whether an     *)
(* interrupt or a timeout made one ready is seen here.                       *)
(***************************************************************************)
EXTENDS Integers

CONSTANTS
  Devices,     \* the devices, each with its interrupt selector
  MaxDisable,  \* how deep DI nests (cWDC, 7 in the code)
  MaxWord,     \* the largest CARD16, which WDC is
  Boots,       \* how often guam::boot is called
  MayFail      \* whether an opcode may end in ErrorError

ASSUME LoopAssumption ==
  /\ MaxDisable \in Nat \ {0} /\ MaxWord \in Nat /\ MaxDisable <= MaxWord
  /\ Boots \in Nat \ {0} /\ MayFail \in BOOLEAN

VARIABLES
  loop,            \* where run_processor is
  stopThread,
  running,
  WDC,             \* the wakeup disable counter
  WP,              \* the wakeup pending register: the devices with a bit set
  posted,          \* history: the bits of WP that a device set and that were
                   \* neither served nor overwritten by the program since
  interruptFlag,
  timeoutFlag,
  taken,           \* interruptFlagCopy and timeoutFlagCopy
  timer,           \* where run_timer is
  poster,          \* where each device is in notifyInterrupt
  armed,           \* the devices the emulated system gave a selector
  boots            \* how often boot was called

vars == <<loop, stopThread, running, WDC, WP, posted, interruptFlag, timeoutFlag,
          taken, timer, poster, armed, boots>>
proc    == <<loop, running, WDC, taken, armed>>
pending == <<WP, posted>>
flags   == <<pending, interruptFlag, timeoutFlag>>
threads == <<timer, poster, boots>>

LoopPlaces == {"start", "reset", "check", "reschedule", "timeout", "serve",
               "execute", "wait", "sleep", "exit", "done"}

TypeOK ==
  /\ loop \in LoopPlaces
  /\ stopThread \in BOOLEAN /\ running \in BOOLEAN
  /\ WDC \in 0 .. MaxWord
  /\ WP \subseteq Devices /\ posted \subseteq Devices /\ armed \subseteq Devices
  /\ interruptFlag \in BOOLEAN /\ timeoutFlag \in BOOLEAN
  /\ taken \in [interrupt : BOOLEAN, timeout : BOOLEAN]
  /\ timer \in {"check", "sleep", "done"}
  /\ poster \in [Devices -> {"idle", "flag"}]
  /\ boots \in 1 .. Boots

NoneTaken == [interrupt |-> FALSE, timeout |-> FALSE]
InterruptsEnabled == WDC = 0

Init ==
  /\ loop = "start" /\ stopThread = FALSE /\ running = TRUE
  /\ WDC = 1 /\ WP = {} /\ posted = {}
  /\ interruptFlag = FALSE /\ timeoutFlag = FALSE /\ taken = NoneTaken
  /\ timer = "check"
  /\ poster = [d \in Devices |-> "idle"]
  /\ armed = {}
  /\ boots = 1

-----------------------------------------------------------------------------
(* run_processor *)

Start ==          \* stopThread = false, then the XFER to the boot link
  /\ loop = "start" /\ loop' = "reset"
  /\ stopThread' = FALSE
  /\ UNCHANGED <<running, WDC, taken, armed, flags, threads>>

Reset ==
  /\ loop = "reset" /\ loop' = "check"
  /\ interruptFlag' = FALSE /\ timeoutFlag' = FALSE
  /\ UNCHANGED <<stopThread, running, WDC, taken, armed, pending, threads>>

(* Between any two opcodes, after each Reschedule and after each wait. *)
Check ==
  /\ loop = "check"
  /\ loop' = IF (timeoutFlag \/ interruptFlag) /\ InterruptsEnabled THEN "reschedule"
             ELSE IF running THEN "execute" ELSE "wait"
  /\ UNCHANGED <<stopThread, running, WDC, taken, armed, flags, threads>>

(* Mutant: the wait loop does not look at stopThread. *)
StopNotSeenWaiting ==
  /\ loop \in {"reschedule", "execute"} /\ stopThread
  /\ loop' = "exit"
  /\ UNCHANGED <<stopThread, running, WDC, taken, armed, flags, threads>>

(* Each label of run_processor first looks at stopThread. *)
StopSeen ==
  /\ loop \in {"reschedule", "execute", "wait"} /\ stopThread
  /\ loop' = "exit"
  /\ UNCHANGED <<stopThread, running, WDC, taken, armed, flags, threads>>

TakeInterruptFlag ==
  /\ loop = "reschedule" /\ ~ stopThread
  /\ loop' = "timeout"
  /\ taken' = [taken EXCEPT !.interrupt = interruptFlag]
  /\ interruptFlag' = FALSE
  /\ UNCHANGED <<stopThread, running, WDC, armed, pending, timeoutFlag, threads>>

TakeTimeoutFlag ==
  /\ loop = "timeout" /\ loop' = "serve"
  /\ taken' = [taken EXCEPT !.timeout = timeoutFlag]
  /\ timeoutFlag' = FALSE
  /\ UNCHANGED <<stopThread, running, WDC, armed, pending, interruptFlag, threads>>

(* Interrupt takes all of WP. *)
TakeWP == WP' = {} /\ posted' = {}

(* Mutant: interruptFlag is cleared once its interrupts are served. *)
ServeThenClear ==
  /\ loop = "serve" /\ loop' = "check"
  /\ IF taken.interrupt THEN TakeWP ELSE UNCHANGED pending
  /\ running' \in BOOLEAN
  /\ taken' = NoneTaken
  /\ interruptFlag' = FALSE
  /\ UNCHANGED <<stopThread, WDC, armed, timeoutFlag, threads>>

(* Interrupt and TimeoutScan may make a process ready, and then Reschedule  *)
(* runs, or does not find, one.                                             *)
Serve ==
  /\ loop = "serve" /\ loop' = "check"
  /\ IF taken.interrupt THEN TakeWP ELSE UNCHANGED pending
  /\ \E requeued \in BOOLEAN :
       /\ requeued => (taken.interrupt /\ WP # {}) \/ taken.timeout
       /\ IF requeued THEN running' \in BOOLEAN ELSE UNCHANGED running
  /\ taken' = NoneTaken
  /\ UNCHANGED <<stopThread, WDC, armed, interruptFlag, timeoutFlag, threads>>

(* Mutant: EI without InterruptError, on an int. *)
EIUnchecked == WDC' = WDC - 1

(* At 0 an InterruptError. *)
EI == WDC # 0 /\ WDC' = WDC - 1

(* An InterruptError at MaxDisable only: above it, where WRWDC may have put  *)
(* it, the CARD16 goes on and wraps to 0.                                    *)
DI == WDC # MaxDisable /\ WDC' = IF WDC = MaxWord THEN 0 ELSE WDC + 1

(* The program may write any value. *)
WRWDC == WDC' \in 0 .. MaxWord

(* WRWP: every bit is what the program says, and interruptFlag stays.        *)
WRWP(bits) == WP' = bits /\ posted' = posted \cap bits

(* One opcode: any; EI, DI or WRWDC; WRWP; one that leaves no process to     *)
(* run, an error with interrupts disabled; one that arms a device;           *)
(* STOPEMULATOR, or MP reaching a number to stop at; one that is an error.   *)
Execute ==
  /\ loop = "execute" /\ ~ stopThread
  /\ \/ loop' = "check" /\ UNCHANGED <<running, WDC, armed, stopThread, pending>>
     \/ /\ loop' = "check"
        /\ EI \/ DI \/ WRWDC
        /\ UNCHANGED <<running, armed, stopThread, pending>>
     \/ /\ loop' = "check"
        /\ \E bits \in SUBSET Devices : WRWP(bits)
        /\ UNCHANGED <<running, WDC, armed, stopThread>>
     \/ /\ loop' = "check" /\ InterruptsEnabled
        /\ running' = FALSE
        /\ UNCHANGED <<WDC, armed, stopThread, pending>>
     \/ /\ loop' = "check"
        /\ \E d \in Devices : armed' = armed \cup {d}
        /\ UNCHANGED <<running, WDC, stopThread, pending>>
     \/ /\ loop' = "check"
        /\ stopThread' = TRUE
        /\ UNCHANGED <<running, WDC, armed, pending>>
     \/ /\ MayFail
        /\ loop' = "exit"
        /\ UNCHANGED <<running, WDC, armed, stopThread, pending>>
  /\ UNCHANGED <<taken, interruptFlag, timeoutFlag, threads>>

Wait ==
  /\ loop = "wait" /\ ~ stopThread
  /\ loop' = "sleep"
  /\ UNCHANGED <<stopThread, running, WDC, taken, armed, flags, threads>>

(* Mutant: a wait without timeout. *)
WaitForNotify ==
  /\ loop = "sleep" /\ stopThread /\ loop' = "check"
  /\ UNCHANGED <<stopThread, running, WDC, taken, armed, flags, threads>>

(* wait_for is over after a second, notified or not. *)
WaitOver ==
  /\ loop = "sleep" /\ loop' = "check"
  /\ UNCHANGED <<stopThread, running, WDC, taken, armed, flags, threads>>

(* The watchdog is removed and the device threads are told to stop. *)
Exit ==
  /\ loop = "exit" /\ loop' = "done"
  /\ UNCHANGED <<stopThread, running, WDC, taken, armed, flags, threads>>

Processor == Start \/ Reset \/ Check \/ StopSeen \/ TakeInterruptFlag \/ TakeTimeoutFlag
               \/ Serve \/ Execute \/ Wait \/ WaitOver \/ Exit

-----------------------------------------------------------------------------
(* run_timer; under the mutex a flag is set and the processor, if it sleeps, *)
(* is notified.                                                             *)

Notified == IF loop = "sleep" THEN "check" ELSE loop

TimerCheck ==
  /\ timer = "check"
  /\ timer' = IF stopThread THEN "done" ELSE "sleep"
  /\ UNCHANGED <<proc, flags, stopThread, poster, boots>>

TimerTick ==
  /\ timer = "sleep" /\ timer' = "check"
  /\ timeoutFlag' = TRUE
  /\ loop' = Notified
  /\ UNCHANGED <<stopThread, running, WDC, taken, armed, pending, interruptFlag, poster, boots>>

(* notifyInterrupt *)
PostWP(d) ==
  /\ d \in armed /\ poster[d] = "idle"
  /\ WP' = WP \cup {d} /\ posted' = posted \cup {d}
  /\ poster' = [poster EXCEPT ![d] = "flag"]
  /\ UNCHANGED <<proc, stopThread, interruptFlag, timeoutFlag, timer, boots>>

PostFlag(d) ==
  /\ poster[d] = "flag"
  /\ interruptFlag' = TRUE
  /\ loop' = Notified
  /\ poster' = [poster EXCEPT ![d] = "idle"]
  /\ UNCHANGED <<stopThread, running, WDC, taken, armed, pending, timeoutFlag, timer, boots>>

(* The watchdog, which run_processor inserts after it reset stopThread and  *)
(* removes when it leaves, stops an emulator that does not reschedule.      *)
WatchdogStop ==
  /\ loop \notin {"start", "reset", "done"}
  /\ stopThread' = TRUE
  /\ UNCHANGED <<proc, flags, threads>>

(* boot has joined its threads and is called again: the registers are those *)
(* variable::initialize and agent::initialize leave, stopThread and the two *)
(* flags are what they were.                                                *)
BootAgain ==
  /\ boots < Boots /\ boots' = boots + 1
  /\ loop = "done" /\ timer = "done" /\ \A d \in Devices : poster[d] = "idle"
  /\ loop' = "start" /\ timer' = "check"
  /\ running' = TRUE /\ WDC' = 1 /\ armed' = {} /\ taken' = NoneTaken
  /\ WP' = {} /\ posted' = {}
  /\ UNCHANGED <<stopThread, interruptFlag, timeoutFlag, poster>>

Next ==
  \/ Start \/ Reset \/ Check \/ StopSeen \/ TakeInterruptFlag \/ TakeTimeoutFlag
  \/ Serve \/ Execute \/ Wait \/ WaitOver \/ Exit
  \/ TimerCheck \/ TimerTick
  \/ \E d \in Devices : PostWP(d) \/ PostFlag(d)
  \/ WatchdogStop
  \/ BootAgain

(* Threads go on; the emulated system, in whatever way it disabled           *)
(* interrupts, enables them again: it leaves its critical sections.          *)
EnableInterrupts == Execute /\ WDC # 0 /\ WDC' = 0
Fairness ==
  /\ WF_vars(Processor)
  /\ SF_vars(EnableInterrupts)
  /\ WF_vars(TimerCheck) /\ WF_vars(TimerTick)
  /\ \A d \in Devices : WF_vars(PostFlag(d))

Spec == Init /\ [][Next]_vars /\ Fairness

-----------------------------------------------------------------------------
(* An interrupt that a device posted stays in WP until it is served, unless  *)
(* the program itself overwrites WP, and has its flag on the way to the      *)
(* processor: the flag is set, or was just taken, or the device is about to  *)
(* set it.  Otherwise it would wait for the next interrupt of another device,*)
(* as a bit does that the program set with WRWP.                             *)
NoLostInterrupt ==
  \A d \in posted : d \in WP /\ (interruptFlag \/ taken.interrupt \/ poster[d] = "flag")

(* A flag of any device is on its way. *)
OnItsWay == interruptFlag \/ taken.interrupt \/ \E e \in Devices : poster[e] = "flag"

(* Once a flag is on its way every interrupt in WP is served, also one posted*)
(* between the check of the flags and the wait, whose notification wakes     *)
(* nobody, one posted while interrupts are disabled, and one the program set *)
(* with WRWP; it leaves WP otherwise only if the program overwrites it.  The *)
(* emulator may stop instead.                                                *)
InterruptServed ==
  \A d \in Devices : (d \in WP /\ OnItsWay) ~> (d \notin WP \/ stopThread)

(* A stop request, once run_processor is past its start, ends the processor  *)
(* and the timer, whatever they are doing, so that boot returns.             *)
StopHonoured ==
  (stopThread /\ loop # "start") ~> (loop = "done" /\ timer = "done")

(* "stop relevant thread" (processor.cpp:250): when run_processor has left,   *)
(* the timer thread, which boot joins too, leaves as well.                   *)
TimerStops == loop = "done" ~> timer = "done"

(* "1 tick = 40 milliseconds" (Constant.h:58): while the processor executes, *)
(* a tick comes.                                                             *)
TicksCome == loop = "execute" ~> (timeoutFlag \/ loop = "done")
=============================================================================
