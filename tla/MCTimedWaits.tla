---------------------------- MODULE MCTimedWaits ----------------------------
(* A small instance of TimedWaits: values for its function constants. *)
EXTENDS TimedWaits, ProcessRefinement

OneMonitor == [c \in Conditions |-> "m"]
EnterAll   == [p \in Psb |-> Monitors]
LevelOnC   == <<"c">>
NoFaults   == [q \in {} |-> "c"]
Pri_100    == <<1, 0, 0>>
OneEach    == [pri \in Priority |-> IF pri = 0 THEN <<"s1">> ELSE <<"s2">>]
=============================================================================
