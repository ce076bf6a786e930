------------------------- MODULE MCProcessScheduler -------------------------
(* A small instance of ProcessScheduler: values for its function constants. *)
EXTENDS ProcessScheduler

OneMonitor == [c \in Conditions |-> "m"]
EnterAll   == [p \in Psb |-> Monitors]

(* One interrupt level and the page faults, both on condition c. *)
LevelOnC   == <<"c">>
PageFaults == [q \in {"pageFaults"} |-> "c"]

(* Priorities and state vectors. *)
Pri_100 == <<1, 0, 0>>
OneEach == [pri \in Priority |-> IF pri = 0 THEN <<"s1">> ELSE <<"s2">>]
=============================================================================
