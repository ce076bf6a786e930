---------------------------- MODULE Activations ----------------------------
(* What control transfer promises the compiled code: activations of        *)
(* procedures, one of them running, each of the others to be resumed where  *)
(* it stopped.  A transfer happens at once or not at all; faults, restarts  *)
(* and the order in which frames are taken from their lists do not show.    *)
EXTENDS Integers

CONSTANTS Frames, Ports, Nil, PCs

VARIABLES
    busy,    \* the frames in use
    top,     \* the frame of the running activation
    caller,  \* where each activation returns to
    at       \* the instruction at which each activation resumes

vars == <<busy, top, caller, at>>
Links == Frames \cup Ports \cup {Nil}

TypeOK ==
    /\ busy \subseteq Frames /\ top \in busy
    /\ caller \in [Frames -> Links] /\ at \in [Frames -> PCs]

Init ==
    /\ TypeOK
    /\ \A f \in Frames \ busy : caller[f] = Nil /\ at[f] = 0

(* the running activation goes on to its next instruction, or jumps *)
Step ==
    /\ UNCHANGED <<busy, top, caller>>
    /\ at' \in [Frames -> PCs] /\ \A f \in Frames \ {top} : at'[f] = at[f]

(* a frame is taken for a procedure, which starts at some entry; the caller *)
(* is to resume at back                                                     *)
Enter(back) ==
    \E f \in Frames \ busy :
        /\ top' = f /\ busy' = busy \cup {f}
        /\ caller' = [caller EXCEPT ![f] = top]
        /\ at'[f] \in PCs \ {0} /\ at' = [at EXCEPT ![top] = back, ![f] = at'[f]]
(* a call resumes after the instruction, a trap at the instruction *)
Call == Enter(at[top] + 1)
Trap == Enter(at[top])

(* a trap whose handler is an activation that waits for it *)
TrapTo ==
    \E f \in busy \ {top} :
        /\ top' = f
        /\ caller' = [caller EXCEPT ![f] = top]
        /\ UNCHANGED <<busy, at>>

Return ==
    /\ caller[top] \in busy \ {top}
    /\ top' = caller[top] /\ busy' = busy \ {top}
    /\ caller' = [caller EXCEPT ![top] = Nil]
    /\ at' = [at EXCEPT ![top] = 0]

(* to another activation, which resumes; this one stays *)
Transfer ==
    /\ top' \in busy \ {top}
    /\ at' = [at EXCEPT ![top] = @ + 1]
    /\ UNCHANGED <<busy, caller>>

(* a frame taken or given back for the program's own use *)
Take ==
    /\ top' = top
    /\ \E f \in Frames \ busy :
           /\ busy' = busy \cup {f}
           /\ caller' = [caller EXCEPT ![f] = caller'[f]]
           /\ at' = [at EXCEPT ![f] = at'[f], ![top] = @ + 1]
Give ==
    /\ top' = top
    /\ \E f \in busy \ {top} :
           /\ busy' = busy \ {f}
           /\ caller' = [caller EXCEPT ![f] = Nil]
           /\ at' = [at EXCEPT ![f] = 0, ![top] = @ + 1]

Next == Step \/ Call \/ Trap \/ TrapTo \/ Return \/ Transfer \/ Take \/ Give
Spec == Init /\ [][Next]_vars
============================================================================
