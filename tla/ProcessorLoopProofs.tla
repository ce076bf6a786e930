------------------------ MODULE ProcessorLoopProofs -------------------------
(***************************************************************************)
(* No interrupt request is lost between the devices' threads and the        *)
(* processor thread, for any number of devices and boots: NoLostInterrupt   *)
(* of ProcessorLoop, proved from an inductive invariant.                    *)
(***************************************************************************)
EXTENDS ProcessorLoop, TLAPS

(* A flag that was taken is acted upon before the next check of the flags.  *)
TakenIsServed == taken.interrupt => loop \in {"timeout", "serve"}

(* Until run_processor has reset the flags no device can post: the system    *)
(* that arms devices does not run yet.                                      *)
QuietAtStart ==
  loop \in {"start", "reset"} =>
    /\ armed = {} /\ posted = {}
    /\ \A d \in Devices : poster[d] = "idle"

IInv == TypeOK /\ NoLostInterrupt /\ TakenIsServed /\ QuietAtStart

(* The initial state satisfies the invariant. *)
LEMMA InitIInv == Init => IInv
<1> SUFFICES ASSUME Init PROVE IInv
    OBVIOUS
<1>1. TypeOK
  <2>1. WDC \in 0 .. MaxWord /\ boots \in 1 .. Boots
    BY LoopAssumption DEF Init
  <2>2. taken \in [interrupt : BOOLEAN, timeout : BOOLEAN]
    BY DEF Init, NoneTaken
  <2>3. poster \in [Devices -> {"idle", "flag"}]
    BY DEF Init
  <2>4. QED
    BY <2>1, <2>2, <2>3 DEF Init, TypeOK, LoopPlaces
<1>2. ~ taken.interrupt
  BY DEF Init, NoneTaken
<1>3. NoLostInterrupt /\ TakenIsServed /\ QuietAtStart
  BY <1>2 DEF Init, NoLostInterrupt, TakenIsServed, QuietAtStart
<1>4. QED
  BY <1>1, <1>3 DEF IInv

(* Every step keeps the types. *)
LEMMA StepTypes == TypeOK /\ [Next]_vars => TypeOK'
<1> SUFFICES ASSUME TypeOK, [Next]_vars PROVE TypeOK'
    OBVIOUS
<1> USE LoopAssumption DEF TypeOK, LoopPlaces
<1>1. CASE Start     BY <1>1 DEF Start, flags, pending, threads
<1>2. CASE Reset     BY <1>2 DEF Reset, pending, threads
<1>3. CASE Check     BY <1>3 DEF Check, flags, pending, threads
<1>4. CASE StopSeen  BY <1>4 DEF StopSeen, flags, pending, threads
<1>5. CASE TakeInterruptFlag  BY <1>5 DEF TakeInterruptFlag, pending, threads
<1>6. CASE TakeTimeoutFlag    BY <1>6 DEF TakeTimeoutFlag, pending, threads
<1>7. CASE Serve     BY <1>7 DEF Serve, TakeWP, pending, threads, NoneTaken
<1>8. CASE Execute
  <2>1. WDC' \in 0 .. MaxWord
    BY <1>8 DEF Execute, EI, DI, WRWDC
  <2>2. WP' \subseteq Devices /\ posted' \subseteq Devices
    BY <1>8 DEF Execute, WRWP, pending
  <2>3. armed' \subseteq Devices
    BY <1>8 DEF Execute
  <2>4. loop' \in LoopPlaces /\ stopThread' \in BOOLEAN /\ running' \in BOOLEAN
    BY <1>8 DEF Execute
  <2>5. UNCHANGED <<taken, interruptFlag, timeoutFlag, timer, poster, boots>>
    BY <1>8 DEF Execute, threads
  <2>6. QED
    BY <2>1, <2>2, <2>3, <2>4, <2>5
<1>9. CASE Wait      BY <1>9 DEF Wait, flags, pending, threads
<1>10. CASE WaitOver BY <1>10 DEF WaitOver, flags, pending, threads
<1>11. CASE Exit     BY <1>11 DEF Exit, flags, pending, threads
<1>12. CASE TimerCheck  BY <1>12 DEF TimerCheck, proc, flags, pending
<1>13. CASE TimerTick   BY <1>13 DEF TimerTick, Notified, pending
<1>14. CASE \E d \in Devices : PostWP(d)    BY <1>14 DEF PostWP, proc
<1>15. CASE \E d \in Devices : PostFlag(d)  BY <1>15 DEF PostFlag, Notified, pending
<1>16. CASE WatchdogStop  BY <1>16 DEF WatchdogStop, proc, flags, pending, threads
<1>17. CASE BootAgain     BY <1>17 DEF BootAgain, NoneTaken
<1>18. CASE UNCHANGED vars  BY <1>18 DEF vars
<1>19. QED
  BY <1>1, <1>2, <1>3, <1>4, <1>5, <1>6, <1>7, <1>8, <1>9, <1>10, <1>11, <1>12,
     <1>13, <1>14, <1>15, <1>16, <1>17, <1>18 DEF Next

(* Every step keeps the invariant.  The steps that matter are those that     *)
(* take interruptFlag or WP away: TakeInterruptFlag leaves its value in      *)
(* taken, Serve empties WP and posted when it was set, WRWP takes out of     *)
(* posted what it takes out of WP; a device that posts between them is at    *)
(* "flag" and will set the flag again.                                      *)
LEMMA StepIInv == IInv /\ [Next]_vars => IInv'
<1> SUFFICES ASSUME IInv, [Next]_vars PROVE IInv'
    OBVIOUS
<1>t. TypeOK'
  BY StepTypes DEF IInv
<1> SUFFICES (NoLostInterrupt /\ TakenIsServed /\ QuietAtStart)'
  BY <1>t DEF IInv
<1> USE DEF IInv, TypeOK, NoLostInterrupt, TakenIsServed, QuietAtStart
<1>1. CASE Start     BY <1>1 DEF Start, flags, pending, threads
<1>2. CASE Reset     BY <1>2 DEF Reset, pending, threads
<1>3. CASE Check     BY <1>3 DEF Check, flags, pending, threads
<1>4. CASE StopSeen  BY <1>4 DEF StopSeen, flags, pending, threads
<1>5. CASE TakeInterruptFlag
  <2>1. ~ taken.interrupt /\ taken'.interrupt = interruptFlag
    BY <1>5 DEF TakeInterruptFlag
  <2>2. QED
    BY <1>5, <2>1 DEF TakeInterruptFlag, pending, threads
<1>6. CASE TakeTimeoutFlag
  <2>1. taken'.interrupt = taken.interrupt
    BY <1>6 DEF TakeTimeoutFlag
  <2>2. QED
    BY <1>6, <2>1 DEF TakeTimeoutFlag, pending, threads
<1>7. CASE Serve     BY <1>7 DEF Serve, TakeWP, pending, threads, NoneTaken
<1>8. CASE Execute   BY <1>8 DEF Execute, WRWP, pending, threads
<1>9. CASE Wait      BY <1>9 DEF Wait, flags, pending, threads
<1>10. CASE WaitOver BY <1>10 DEF WaitOver, flags, pending, threads
<1>11. CASE Exit     BY <1>11 DEF Exit, flags, pending, threads
<1>12. CASE TimerCheck  BY <1>12 DEF TimerCheck, proc, flags, pending
<1>13. CASE TimerTick   BY <1>13 DEF TimerTick, Notified, pending
<1>14. CASE \E d \in Devices : PostWP(d)    BY <1>14 DEF PostWP, proc
<1>15. CASE \E d \in Devices : PostFlag(d)  BY <1>15 DEF PostFlag, Notified, pending
<1>16. CASE WatchdogStop  BY <1>16 DEF WatchdogStop, proc, flags, pending, threads
<1>17. CASE BootAgain     BY <1>17 DEF BootAgain, NoneTaken
<1>18. CASE UNCHANGED vars  BY <1>18 DEF vars
<1>19. QED
  BY <1>1, <1>2, <1>3, <1>4, <1>5, <1>6, <1>7, <1>8, <1>9, <1>10, <1>11, <1>12,
     <1>13, <1>14, <1>15, <1>16, <1>17, <1>18 DEF Next

(* The registers, flags and threads keep their types; in particular WDC stays *)
(* a CARD16 however EI and DI nest, also above cWDC, where only WRWDC puts it *)
(* and DI no longer stops.                                                   *)
THEOREM TypeCorrect == Spec => []TypeOK
<1>1. IInv => TypeOK
  BY DEF IInv
<1>2. QED
  BY InitIInv, StepIInv, <1>1, PTL DEF Spec

(* An interrupt that a device posted always is in WP and has its flag on the *)
(* way to the processor, in every interleaving of notifyInterrupt with       *)
(* run_processor, over any number of boots, whatever the program writes to   *)
(* WP and WDC: only WRWP itself takes a posted bit away unserved.            *)
THEOREM InterruptsKept == Spec => []NoLostInterrupt
<1>1. IInv => NoLostInterrupt
  BY DEF IInv
<1>2. QED
  BY InitIInv, StepIInv, <1>1, PTL DEF Spec
=============================================================================
