---------------------------- MODULE QueueProofs ----------------------------
(***************************************************************************)
(* For any number of processes, monitors, conditions and other queues: what *)
(* the procedures of the process queues do to the queues.                   *)
(*                                                                          *)
(* The argument.  A queue is a set of processes linked in one cycle and a   *)
(* tail (Queue).  Home h says which queue each process is on, and Rings     *)
(* that the links and tails are what h says, with the two lags the code     *)
(* allows: a condition's tail may be stale, and lead by cleanup links to a  *)
(* live one, after a process left it that Dequeue was not told the queue    *)
(* of.  CleanupCondition ends the lag.  Every procedure takes Rings for h   *)
(* to Rings for the h it means; walks are least sets closed under links     *)
(* (Reach), so that no step of these proofs is an induction over a walk.    *)
(* Settled adds the marks of waiting processes and the stored wakeups.      *)
(***************************************************************************)
EXTENDS ProcessQueues, FiniteSetTheorems, WellFoundedInduction, TLAPS

(* A process is never null. *)
LEMMA NullNoPsb == Null \notin Psb
  BY SizesAssumption DEF Null, Psb

-----------------------------------------------------------------------------
(* Walks along links: Reach is the least set that is closed under them. *)

(* A walk reaches the process it starts from. *)
LEMMA ReachStart == ASSUME NEW f, NEW p \in Psb PROVE p \in Reach(f, p)
  BY DEF Reach

(* It goes on to the next one. *)
LEMMA ReachStep ==
  ASSUME NEW f, NEW p, NEW x \in Reach(f, p), f[x] \in Psb
  PROVE  f[x] \in Reach(f, p)
  BY NullNoPsb DEF Reach

(* It never leaves a set that the links do not leave. *)
LEMMA ReachLeast ==
  ASSUME NEW f, NEW p, NEW A \in SUBSET Psb, p \in A, \A x \in A : f[x] \in A \cup {Null}
  PROVE  Reach(f, p) \subseteq A
  BY DEF Reach

(* A walk sees only the links on its way. *)
LEMMA ReachSame ==
  ASSUME NEW f \in [Psb -> Psb \cup {Null}], NEW g, NEW p \in Psb,
         \A x \in Reach(f, p) : g[x] = f[x]
  PROVE  Reach(g, p) = Reach(f, p)
<1> DEFINE A == Reach(f, p)
           B == Reach(g, p) \cap A
<1>1. A \in SUBSET Psb /\ B \in SUBSET Psb
  BY DEF Reach
<1>2. p \in A /\ p \in B
  BY ReachStart
<1>3. ASSUME NEW x \in A PROVE f[x] \in A \cup {Null}
  BY <1>1, <1>3, ReachStep
<1>4. Reach(g, p) \subseteq A
  BY <1>1, <1>2, <1>3, ReachLeast
<1>5. ASSUME NEW x \in B PROVE f[x] \in B \cup {Null}
  BY <1>1, <1>3, <1>5, ReachStep
<1>6. Reach(f, p) \subseteq B
  BY <1>1, <1>2, <1>5, ReachLeast
<1>7. QED
  BY <1>4, <1>6

-----------------------------------------------------------------------------
(* The processes S are one cycle of the links f. *)
Cycle(f, S) ==
  /\ \A x \in S : f[x] \in S
  /\ \A x, y \in S : f[x] = f[y] => x = y
  /\ \A A \in SUBSET S : A # {} /\ (\A x \in A : f[x] \in A) => A = S

(* A walk around a cycle meets all of it. *)
LEMMA CycleReach ==
  ASSUME NEW f, NEW S \in SUBSET Psb, Cycle(f, S), NEW p \in S
  PROVE  Reach(f, p) = S
<1>1. Reach(f, p) \subseteq S
  BY ReachLeast DEF Cycle
<1>2. Reach(f, p) # {}
  BY ReachStart
<1>3. \A x \in Reach(f, p) : f[x] \in Reach(f, p)
  BY <1>1, ReachStep DEF Cycle
<1>4. QED
  BY <1>1, <1>2, <1>3 DEF Cycle

(* Every process of a cycle has a predecessor in it. *)
LEMMA CyclePred ==
  ASSUME NEW f, NEW S, Cycle(f, S), NEW p \in S
  PROVE  \E x \in S : f[x] = p
<1> SUFFICES ASSUME \A x \in S : f[x] # p PROVE FALSE
  OBVIOUS
<1>1. f[p] \in S \ {p}
  BY DEF Cycle
<1>2. S \ {p} = S
  BY <1>1 DEF Cycle
<1>3. QED
  BY <1>2

(* A cycle of links is one of all links that agree with it there. *)
LEMMA CycleSame ==
  ASSUME NEW f, NEW g, NEW S, Cycle(f, S), \A x \in S : g[x] = f[x]
  PROVE  Cycle(g, S)
  BY DEF Cycle

(* One process whose link leads to itself. *)
LEMMA CycleSingle ==
  ASSUME NEW f, NEW p, f[p] = p
  PROVE  Cycle(f, {p})
  BY DEF Cycle

(* A cycle through a process linked to itself is that process. *)
LEMMA CycleOne ==
  ASSUME NEW f, NEW S, Cycle(f, S), NEW p \in S, f[p] = p
  PROVE  S = {p}
<1> DEFINE A == {p}
<1>1. A \in SUBSET S /\ A # {} /\ \A x \in A : f[x] \in A
  OBVIOUS
<1> HIDE DEF A
<1>2. A = S
  BY <1>1 DEF Cycle
<1>3. QED
  BY <1>2 DEF A

(* Taking p out, when it is not alone. *)
LEMMA CycleRemove ==
  ASSUME NEW f \in [Psb -> Psb], NEW S \in SUBSET Psb, Cycle(f, S),
         NEW p \in S, NEW x \in S, f[x] = p, f[p] # p
  PROVE  Cycle([f EXCEPT ![x] = f[p]], S \ {p})
<1> DEFINE g == [f EXCEPT ![x] = f[p]]
           R == S \ {p}
<1>1. x # p /\ f[p] \in R /\ x \in R
  BY DEF Cycle
<1>2. g[x] = f[p] /\ \A y \in S \ {x} : g[y] = f[y]
  OBVIOUS
<1> HIDE DEF g
<1>3. ASSUME NEW y \in R, y # x PROVE f[y] \in R
  BY <1>3 DEF Cycle
<1>4. \A y \in R : g[y] \in R
  BY <1>1, <1>2, <1>3
<1>5. ASSUME NEW y \in R, NEW z \in R, g[y] = g[z] PROVE y = z
  BY <1>1, <1>2, <1>5 DEF Cycle
<1>6. ASSUME NEW A \in SUBSET R, A # {}, \A y \in A : g[y] \in A PROVE A = R
  <2>1. CASE x \in A
    <3>1. \A y \in A \cup {p} : f[y] \in A \cup {p}
      BY <1>1, <1>2, <1>6, <2>1
    <3>2. A \cup {p} \in SUBSET S /\ A \cup {p} # {}
      OBVIOUS
    <3>3. A \cup {p} = S
      BY <3>1, <3>2 DEF Cycle
    <3>4. QED
      BY <3>3
  <2>2. CASE x \notin A
    <3>1. \A y \in A : f[y] \in A
      BY <1>2, <1>6, <2>2
    <3>2. A = S
      BY <1>6, <3>1 DEF Cycle
    <3>3. QED
      BY <2>2, <3>2
  <2>3. QED
    BY <2>1, <2>2
<1>7. QED
  BY <1>4, <1>5, <1>6 DEF Cycle, g

(* Putting p in after x. *)
LEMMA CycleInsert ==
  ASSUME NEW f \in [Psb -> Psb], NEW S \in SUBSET Psb, Cycle(f, S),
         NEW p \in Psb \ S, NEW x \in S
  PROVE  Cycle([f EXCEPT ![p] = f[x], ![x] = p], S \cup {p})
<1> DEFINE g == [f EXCEPT ![p] = f[x], ![x] = p]
           R == S \cup {p}
<1>1. x # p /\ f[x] \in S
  BY DEF Cycle
<1>2. g[x] = p /\ g[p] = f[x] /\ \A y \in S \ {x} : g[y] = f[y]
  BY <1>1
<1> HIDE DEF g
<1>3. \A y \in R : g[y] \in R
  BY <1>2 DEF Cycle
<1>4. ASSUME NEW y \in R, NEW z \in R, g[y] = g[z] PROVE y = z
  BY <1>1, <1>2, <1>4 DEF Cycle
<1>5. ASSUME NEW A \in SUBSET R, A # {}, \A y \in A : g[y] \in A PROVE A = R
  <2>1. A \ {p} # {}
    BY <1>1, <1>2, <1>5
  <2>2. \A y \in A \ {p} : f[y] \in A \ {p}
    BY <1>1, <1>2, <1>5 DEF Cycle
  <2>3. A \ {p} = S
    BY <2>1, <2>2 DEF Cycle
  <2>4. QED
    BY <1>2, <1>5, <2>3
<1>6. QED
  BY <1>3, <1>4, <1>5 DEF Cycle, g

(* The part of a ring from its head to p: it has the head, p, and with each  *)
(* process before p the one that follows.                                   *)
LEMMA PrefixWalk ==
  ASSUME NEW f \in [Psb -> Psb], NEW S \in SUBSET Psb, Cycle(f, S), NEW a \in S, NEW p \in S
  PROVE  LET P == Reach([f EXCEPT ![p] = Null], a)
         IN  /\ P \subseteq S /\ a \in P /\ p \in P
             /\ \A y \in P \ {p} : f[y] \in P
<1> DEFINE g == [f EXCEPT ![p] = Null]
           P == Reach(g, a)
<1>1. \A x \in S : f[x] \in S
  BY DEF Cycle
<1>2. ASSUME NEW x \in S PROVE g[x] \in {f[x], Null}
  OBVIOUS
<1>3. P \subseteq S
  BY <1>1, <1>2, ReachLeast
<1>4. a \in P
  BY ReachStart
<1>5. ASSUME NEW y \in P \ {p} PROVE f[y] \in P
  <2>1. y \in S /\ f[y] \in S
    BY <1>1, <1>3, <1>5
  <2>2. f[y] \in Psb /\ f[y] # Null
    BY <2>1, NullNoPsb
  <2>3. g[y] = f[y]
    BY <1>5, <2>1
  <2>4. QED
    BY <1>5, <2>2, <2>3, ReachStep
<1>6. p \in P
  <2>1. SUFFICES ASSUME p \notin P PROVE FALSE
    OBVIOUS
  <2>2. P \in SUBSET S /\ P # {} /\ \A x \in P : f[x] \in P
    BY <1>3, <1>4, <1>5, <2>1
  <2> HIDE DEF P
  <2>3. P = S
    BY <2>2 DEF Cycle
  <2>4. QED
    BY <2>1, <2>3
<1>7. QED
  BY <1>3, <1>4, <1>5, <1>6
-----------------------------------------------------------------------------
(* A queue: its processes S are a cycle of links, in priority order from the *)
(* successor of its last process t around to t.                              *)
Queue(f, pri, S, t) ==
  /\ IF S = {} THEN t = Null ELSE t \in S
  /\ Cycle(f, S)
  /\ \A x \in S \ {t} : pri[x] >= pri[f[x]]

(* A queue stays one while links and priorities of its processes stay. *)
LEMMA QueueSame ==
  ASSUME NEW f, NEW g, NEW pri, NEW pri2, NEW S, NEW t, Queue(f, pri, S, t),
         \A x \in S : g[x] = f[x] /\ pri2[x] = pri[x]
  PROVE  Queue(g, pri2, S, t)
<1>1. Cycle(g, S)
  BY CycleSame DEF Queue
<1>2. \A x \in S : f[x] \in S
  BY DEF Queue, Cycle
<1>3. QED
  BY <1>1, <1>2 DEF Queue

(* The empty queue, and the queue of one. *)
LEMMA QueueEmpty == ASSUME NEW f, NEW pri PROVE Queue(f, pri, {}, Null)
  BY DEF Queue, Cycle

(* A process linked to itself is a queue of one. *)
LEMMA QueueSingle == ASSUME NEW f, NEW pri, NEW p, f[p] = p PROVE Queue(f, pri, {p}, p)
  BY CycleSingle DEF Queue

(* Taking p out leaves an ordered queue; if p was last, its predecessor is. *)
LEMMA QueueRemove ==
  ASSUME NEW f \in [Psb -> Psb], NEW pri \in [Psb -> Priority], NEW S \in SUBSET Psb,
         NEW t, Queue(f, pri, S, t), NEW p \in S, NEW x \in S, f[x] = p, f[p] # p
  PROVE  Queue([f EXCEPT ![x] = f[p]], pri, S \ {p}, IF t = p THEN x ELSE t)
<1> DEFINE g == [f EXCEPT ![x] = f[p]]
           R == S \ {p}
           u == IF t = p THEN x ELSE t
<1>1. Cycle(f, S) /\ t \in S /\ x # p
  BY DEF Queue
<1>2. Cycle(g, R)
  BY <1>1, CycleRemove
<1>3. u \in R /\ f[p] \in R
  BY <1>1 DEF Cycle
<1>4. ASSUME NEW y \in R \ {u} PROVE pri[y] >= pri[g[y]]
  <2>1. \A z \in S : pri[z] \in Int /\ f[z] \in S
    BY <1>1 DEF Priority, Cycle
  <2>2. CASE y # x
    BY <1>4, <2>2 DEF Queue
  <2>3. CASE y = x
    <3>1. y # t /\ p # t
      BY <1>4, <2>3
    <3>2. pri[y] >= pri[p] /\ pri[p] >= pri[f[p]]
      BY <1>4, <2>3, <3>1 DEF Queue
    <3>3. QED
      BY <1>3, <2>1, <2>3, <3>2
  <2>4. QED
    BY <2>2, <2>3
<1>5. QED
  BY <1>2, <1>3, <1>4 DEF Queue

(* Putting p in at the end, or after x where it keeps the order. *)
LEMMA QueueInsert ==
  ASSUME NEW f \in [Psb -> Psb], NEW pri \in [Psb -> Priority], NEW S \in SUBSET Psb,
         NEW t, Queue(f, pri, S, t), NEW p \in Psb \ S, NEW x \in S, NEW last \in BOOLEAN,
         last => x = t /\ pri[p] <= pri[t],
         ~ last => (x = t \/ pri[x] >= pri[p]) /\ pri[f[x]] < pri[p]
  PROVE  Queue([f EXCEPT ![p] = f[x], ![x] = p], pri, S \cup {p}, IF last THEN p ELSE t)
<1> DEFINE g == [f EXCEPT ![p] = f[x], ![x] = p]
           R == S \cup {p}
           u == IF last THEN p ELSE t
<1>1. Cycle(f, S) /\ t \in S /\ x # p
  BY DEF Queue
<1>2. Cycle(g, R)
  BY <1>1, CycleInsert
<1>3. g[x] = p /\ g[p] = f[x] /\ \A y \in S \ {x} : g[y] = f[y]
  BY <1>1
<1> HIDE DEF g
<1>4. u \in R
  BY <1>1
<1>5. ASSUME NEW y \in R \ {u} PROVE pri[y] >= pri[g[y]]
  <2>1. pri[p] \in Int /\ \A z \in S : pri[z] \in Int /\ f[z] \in S
    BY <1>1 DEF Priority, Cycle
  <2>2. CASE y # x /\ y # p
    <3>1. y # t
      BY <1>1, <1>5, <2>2 DEF Queue
    <3>2. QED
      BY <1>3, <1>5, <2>2, <3>1 DEF Queue
  <2>3. CASE y = x
    BY <1>1, <1>3, <1>5, <2>1, <2>3
  <2>4. CASE y = p
    BY <1>1, <1>3, <1>5, <2>1, <2>4
  <2>5. QED
    BY <2>2, <2>3, <2>4
<1>6. QED
  BY <1>2, <1>4, <1>5 DEF Queue, g

(* When p may not be last, there is a place for it. *)
LEMMA QueuePlace ==
  ASSUME NEW f \in [Psb -> Psb], NEW pri \in [Psb -> Priority], NEW S \in SUBSET Psb,
         NEW t, Queue(f, pri, S, t), S # {}, NEW p \in Psb, pri[p] > pri[t]
  PROVE  \E x \in S : (x = t \/ pri[x] >= pri[p]) /\ pri[f[x]] < pri[p]
<1> SUFFICES ASSUME \A x \in S : (x = t \/ pri[x] >= pri[p]) => ~ pri[f[x]] < pri[p]
             PROVE  FALSE
  OBVIOUS
<1> DEFINE A == {x \in S : pri[x] >= pri[p]}
<1>1. Cycle(f, S) /\ t \in S
  BY DEF Queue
<1>2. pri[p] \in Int /\ \A x \in S : pri[x] \in Int /\ f[x] \in S
  BY <1>1 DEF Priority, Cycle
<1>3. f[t] \in A
  BY <1>1, <1>2
<1>4. \A x \in A : f[x] \in A
  BY <1>2
<1>5. A \in SUBSET S
  OBVIOUS
<1> HIDE DEF A
<1>6. A = S
  BY <1>1, <1>3, <1>4, <1>5 DEF Cycle
<1>7. t \notin A
  BY <1>1, <1>2 DEF A
<1>8. QED
  BY <1>1, <1>6, <1>7
-----------------------------------------------------------------------------
(* A line: A says which processes of the queue S, whose last is t, are ahead *)
(* of each: none of its head, and of every other those ahead of the one in   *)
(* front of it, and that one.                                                *)
Line(A, f, S, t) ==
  S # {} => A[f[t]] = {} /\ \A x \in S \ {t} : A[f[x]] = A[x] \cup {x}

(* What holds of the head, and of the next when it holds of one, holds of    *)
(* the whole queue.                                                          *)
LEMMA LineWhole ==
  ASSUME NEW f, NEW S, NEW t \in S, Cycle(f, S), NEW X \in SUBSET S,
         f[t] \in X, \A x \in X \ {t} : f[x] \in X
  PROVE  X = S
<1>1. X # {} /\ \A x \in X : f[x] \in X
  OBVIOUS
<1>2. QED
  BY <1>1 DEF Cycle

(* A queue has one line. *)
LEMMA LineUnique ==
  ASSUME NEW f, NEW S, NEW t \in S, Cycle(f, S), NEW A, NEW B,
         Line(A, f, S, t), Line(B, f, S, t)
  PROVE  \A x \in S : A[x] = B[x]
<1> DEFINE X == {x \in S : A[x] = B[x]}
<1>1. f[t] \in X /\ \A x \in X \ {t} : f[x] \in X
  <2>1. S # {} /\ \A x \in S : f[x] \in S
    BY DEF Cycle
  <2>2. /\ A[f[t]] = {} /\ \A x \in S \ {t} : A[f[x]] = A[x] \cup {x}
        /\ B[f[t]] = {} /\ \A x \in S \ {t} : B[f[x]] = B[x] \cup {x}
    BY <2>1 DEF Line
  <2>3. f[t] \in X
    BY <2>1, <2>2
  <2>4. ASSUME NEW x \in X \ {t} PROVE f[x] \in X
    <3>1. A[f[x]] = A[x] \cup {x} /\ B[f[x]] = B[x] \cup {x} /\ A[x] = B[x] /\ f[x] \in S
      BY <2>1, <2>2, <2>4
    <3>2. A[f[x]] = B[f[x]]
      BY <3>1, Zenon
    <3>3. QED
      BY <3>1, <3>2
  <2>5. QED
    BY <2>3, <2>4
<1>2. X \in SUBSET S
  OBVIOUS
<1> HIDE DEF X
<1>3. X = S
  BY <1>1, <1>2, LineWhole
<1>4. QED
  BY <1>3 DEF X

(* Those ahead of a process are of its queue. *)
LEMMA LineWithin ==
  ASSUME NEW f, NEW S, NEW t \in S, Cycle(f, S), NEW A, Line(A, f, S, t)
  PROVE  \A y \in S : A[y] \subseteq S
<1> DEFINE X == {y \in S : A[y] \subseteq S}
<1>1. f[t] \in X /\ \A x \in X \ {t} : f[x] \in X
  BY DEF Line, Cycle
<1>2. X \in SUBSET S
  OBVIOUS
<1> HIDE DEF X
<1>3. X = S
  BY <1>1, <1>2, LineWhole
<1>4. QED
  BY <1>3 DEF X

(* The one behind a process ahead of y is ahead of y, or y. *)
LEMMA LineClosed ==
  ASSUME NEW f, NEW S, NEW t \in S, Cycle(f, S), NEW A, Line(A, f, S, t)
  PROVE  \A y \in S : \A z \in A[y] : f[z] \in A[y] \cup {y}
<1> DEFINE X == {y \in S : \A z \in A[y] : f[z] \in A[y] \cup {y}}
<1>1. f[t] \in X /\ \A x \in X \ {t} : f[x] \in X
  BY DEF Line, Cycle
<1>2. X \in SUBSET S
  OBVIOUS
<1> HIDE DEF X
<1>3. X = S
  BY <1>1, <1>2, LineWhole
<1>4. QED
  BY <1>3 DEF X

(* The head is ahead of every other. *)
LEMMA LineHead ==
  ASSUME NEW f, NEW S, NEW t \in S, Cycle(f, S), NEW A, Line(A, f, S, t)
  PROVE  \A y \in S : y = f[t] \/ f[t] \in A[y]
<1> DEFINE X == {y \in S : y = f[t] \/ f[t] \in A[y]}
<1>1. f[t] \in X /\ \A x \in X \ {t} : f[x] \in X
  BY DEF Line, Cycle
<1>2. X \in SUBSET S
  OBVIOUS
<1> HIDE DEF X
<1>3. X = S
  BY <1>1, <1>2, LineWhole
<1>4. QED
  BY <1>3 DEF X

(* All others are ahead of the last. *)
LEMMA LineAll ==
  ASSUME NEW f, NEW S, NEW t \in S, Cycle(f, S), NEW A, Line(A, f, S, t)
  PROVE  A[t] \cup {t} = S
<1> DEFINE X == A[t] \cup {t}
<1>1. X \in SUBSET S
  BY LineWithin
<1>2. f[t] \in X
  BY LineHead
<1>3. \A x \in X : f[x] \in X
  BY <1>2, LineClosed
<1>4. X # {}
  OBVIOUS
<1>5. QED
  BY <1>1, <1>3, <1>4 DEF Cycle

(* A line is in order of priority. *)
LEMMA LineOrder ==
  ASSUME NEW f, NEW pri \in [Psb -> Priority], NEW S \in SUBSET Psb, NEW t \in S,
         Queue(f, pri, S, t), NEW A, Line(A, f, S, t)
  PROVE  \A y \in S : \A z \in A[y] : pri[z] >= pri[y]
<1> DEFINE X == {y \in S : \A z \in A[y] : pri[z] >= pri[y]}
<1>1. Cycle(f, S) /\ \A z \in S : pri[z] \in Int /\ f[z] \in S
  BY DEF Queue, Cycle, Priority
<1>2. \A y \in S : A[y] \subseteq S
  BY <1>1, LineWithin
<1>3. f[t] \in X
  BY <1>1 DEF Line
<1>4. ASSUME NEW x \in X \ {t} PROVE f[x] \in X
  <2>1. A[f[x]] = A[x] \cup {x} /\ pri[x] >= pri[f[x]]
    BY <1>4 DEF Line, Queue
  <2>2. ASSUME NEW z \in A[f[x]] PROVE pri[z] >= pri[f[x]]
    <3>1. pri[z] \in Int /\ pri[x] \in Int /\ pri[f[x]] \in Int /\ (z = x \/ pri[z] >= pri[x])
      BY <1>1, <1>2, <1>4, <2>1, <2>2
    <3>2. QED
      BY <2>1, <3>1
  <2>3. QED
    BY <1>1, <1>4, <2>2
<1>5. X \in SUBSET S
  OBVIOUS
<1> HIDE DEF X
<1>6. X = S
  BY <1>1, <1>3, <1>4, <1>5, LineWhole
<1>7. QED
  BY <1>6 DEF X

(* A line is one of all links and lines that agree with it on its queue. *)
LEMMA LineSame ==
  ASSUME NEW f, NEW g, NEW S, NEW t, S # {} => t \in S, Cycle(f, S), NEW A, NEW B,
         Line(A, f, S, t), \A x \in S : g[x] = f[x] /\ B[x] = A[x]
  PROVE  Line(B, g, S, t)
  BY DEF Line, Cycle

(* What becomes of the processes ahead when those of X leave, and when p     *)
(* joins the queue S: behind those of its priority or a higher one.          *)
Gone(A, X) == [y \in Psb |-> IF y \in X THEN {} ELSE A[y] \ X]
Behind(A, pri, S, p) ==
  [y \in Psb |-> IF y = p THEN {z \in S : pri[z] >= pri[p]}
                 ELSE IF y \in S /\ pri[y] < pri[p] THEN A[y] \cup {p} ELSE A[y]]

(* Taking p out of a queue takes it out of its line. *)
LEMMA LineRemove ==
  ASSUME NEW f \in [Psb -> Psb], NEW S \in SUBSET Psb, NEW t \in S, Cycle(f, S),
         NEW A, Line(A, f, S, t), NEW p \in S, NEW x \in S, f[x] = p, f[p] # p
  PROVE  Line(Gone(A, {p}), [f EXCEPT ![x] = f[p]], S \ {p}, IF t = p THEN x ELSE t)
<1> DEFINE g == [f EXCEPT ![x] = f[p]]
           B == Gone(A, {p})
           R == S \ {p}
           u == IF t = p THEN x ELSE t
<1>1. x # p /\ f[p] \in R /\ x \in R /\ u \in R
  BY DEF Cycle
<1>2. g[x] = f[p] /\ \A y \in S \ {x} : g[y] = f[y]
  OBVIOUS
<1>3. \A y \in R : B[y] = A[y] \ {p}
  BY DEF Gone
<1>4. A[f[t]] = {} /\ \A y \in S \ {t} : A[f[y]] = A[y] \cup {y}
  BY DEF Line
<1>5. \A y \in S : f[y] \in S /\ (y # x => f[y] # p)
  BY DEF Cycle
<1> HIDE DEF g, B
<1>6. B[g[u]] = {}
  <2>1. CASE t = p
    BY <1>1, <1>2, <1>3, <1>4, <2>1
  <2>2. CASE t # p /\ t = x
    <3>1. A[p] = {} /\ A[f[p]] = A[p] \cup {p}
      BY <1>4, <2>2
    <3>2. B[f[p]] = {}
      BY <1>1, <1>3, <3>1
    <3>3. QED
      BY <1>2, <2>2, <3>2
  <2>3. CASE t # p /\ t # x
    <3>1. g[u] = f[t] /\ f[t] \in R
      BY <1>2, <1>5, <2>3
    <3>2. QED
      BY <1>3, <1>4, <3>1
  <2>4. QED
    BY <2>1, <2>2, <2>3
<1>7. ASSUME NEW y \in R \ {u} PROVE B[g[y]] = B[y] \cup {y}
  <2>1. CASE y = x
    <3>1. t # p /\ x # t
      BY <1>7, <2>1
    <3>2. A[p] = A[x] \cup {x} /\ A[f[p]] = A[p] \cup {p}
      BY <1>4, <3>1
    <3>3. B[f[p]] = A[f[p]] \ {p} /\ B[x] = A[x] \ {p}
      BY <1>1, <1>3
    <3>4. B[f[p]] = B[x] \cup {x}
      BY <1>1, <3>2, <3>3
    <3>5. QED
      BY <1>2, <2>1, <3>4
  <2>2. CASE y # x
    <3>1. g[y] = f[y] /\ f[y] \in R /\ y # t /\ y # p
      BY <1>2, <1>5, <1>7, <2>2
    <3>2. A[f[y]] = A[y] \cup {y}
      BY <1>4, <1>7, <3>1
    <3>3. B[f[y]] = A[f[y]] \ {p} /\ B[y] = A[y] \ {p}
      BY <1>3, <1>7, <3>1
    <3>4. B[f[y]] = B[y] \cup {y}
      BY <3>1, <3>2, <3>3
    <3>5. QED
      BY <3>1, <3>4
  <2>3. QED
    BY <2>1, <2>2
<1>8. QED
  BY <1>6, <1>7 DEF Line, g, B

(* Putting p in at the end, or after x where it keeps the order, puts it     *)
(* behind those of its priority or a higher one.                             *)
LEMMA LineInsert ==
  ASSUME NEW f \in [Psb -> Psb], NEW pri \in [Psb -> Priority], NEW S \in SUBSET Psb,
         NEW t \in S, Queue(f, pri, S, t), NEW A, Line(A, f, S, t),
         NEW p \in Psb \ S, NEW x \in S, NEW last \in BOOLEAN,
         last => x = t /\ pri[p] <= pri[t],
         ~ last => (x = t \/ pri[x] >= pri[p]) /\ pri[f[x]] < pri[p]
  PROVE  Line(Behind(A, pri, S, p), [f EXCEPT ![p] = f[x], ![x] = p], S \cup {p},
              IF last THEN p ELSE t)
<1> DEFINE g == [f EXCEPT ![p] = f[x], ![x] = p]
           B == Behind(A, pri, S, p)
           u == IF last THEN p ELSE t
<1>1. x # p /\ Cycle(f, S)
  BY DEF Queue
<1>2. g[x] = p /\ g[p] = f[x] /\ \A y \in S \ {x} : g[y] = f[y]
  BY <1>1
<1>3. /\ B[p] = {z \in S : pri[z] >= pri[p]}
      /\ \A y \in S : B[y] = IF pri[y] < pri[p] THEN A[y] \cup {p} ELSE A[y]
  BY DEF Behind
<1>4. A[f[t]] = {} /\ \A y \in S \ {t} : A[f[y]] = A[y] \cup {y}
  BY DEF Line
<1>5. \A y \in S : f[y] \in S /\ A[y] \subseteq S
  BY <1>1, LineWithin DEF Cycle
<1>6. pri[p] \in Int /\ \A y \in S : pri[y] \in Int
  BY DEF Priority
<1>7. \A y \in S : \A z \in A[y] : pri[z] >= pri[y]
  BY LineOrder
<1>8. \A y \in S : y = f[t] \/ f[t] \in A[y]
  BY <1>1, LineHead
<1>9. A[t] \cup {t} = S
  BY <1>1, LineAll
<1>10. \A y \in S : \A z \in A[y] : f[z] \in A[y] \cup {y}
  BY <1>1, LineClosed
<1>11. \A y \in S \ {t} : pri[y] >= pri[f[y]]
  BY DEF Queue
<1> HIDE DEF g, B
<1>12. CASE last
  <2>1. \A y \in S : pri[y] >= pri[t]
    BY <1>6, <1>7, <1>9
  <2>2. \A y \in S : pri[y] >= pri[p]
    BY <1>6, <1>12, <2>1
  <2>3. B[p] = S /\ \A y \in S : B[y] = A[y]
    <3>1. \A y \in S : ~ pri[y] < pri[p]
      BY <1>6, <2>2
    <3>2. {z \in S : pri[z] >= pri[p]} = S
      BY <2>2
    <3>3. QED
      BY <1>3, <3>1, <3>2
  <2>4. B[g[u]] = {}
    BY <1>2, <1>4, <1>5, <1>12, <2>3
  <2>5. ASSUME NEW y \in (S \cup {p}) \ {u} PROVE B[g[y]] = B[y] \cup {y}
    <3>1. y \in S
      BY <1>12, <2>5
    <3>2. CASE y = t
      BY <1>2, <1>9, <1>12, <2>3, <3>2
    <3>3. CASE y # t
      <4>1. g[y] = f[y] /\ f[y] \in S /\ A[f[y]] = A[y] \cup {y}
        BY <1>2, <1>4, <1>5, <1>12, <3>1, <3>3
      <4>2. B[f[y]] = A[f[y]] /\ B[y] = A[y]
        BY <2>3, <3>1, <4>1
      <4>3. QED
        BY <4>1, <4>2, Zenon
    <3>4. QED
      BY <3>2, <3>3
  <2>6. QED
    BY <2>4, <2>5 DEF Line, g, B
<1>13. CASE ~ last /\ x = t
  <2>1. \A y \in S : pri[y] < pri[p]
    <3>1. ASSUME NEW y \in S PROVE pri[f[t]] >= pri[y]
      <4>1. y = f[t] \/ f[t] \in A[y]
        BY <1>8
      <4>2. QED
        BY <1>5, <1>6, <1>7, <4>1
    <3>2. pri[f[t]] < pri[p] /\ f[t] \in S
      BY <1>5, <1>13
    <3>3. QED
      BY <1>6, <3>1, <3>2
  <2>2. B[p] = {} /\ \A y \in S : B[y] = A[y] \cup {p}
    <3>1. \A y \in S : ~ pri[y] >= pri[p]
      BY <1>6, <2>1
    <3>2. {z \in S : pri[z] >= pri[p]} = {}
      BY <3>1
    <3>3. QED
      BY <1>3, <2>1, <3>2
  <2>3. B[g[u]] = {}
    BY <1>2, <1>13, <2>2
  <2>4. ASSUME NEW y \in (S \cup {p}) \ {u} PROVE B[g[y]] = B[y] \cup {y}
    <3>1. CASE y = p
      <4>1. g[y] = f[t] /\ f[t] \in S
        BY <1>2, <1>5, <1>13, <3>1
      <4>2. B[f[t]] = {p}
        BY <1>4, <2>2, <4>1
      <4>3. QED
        BY <2>2, <3>1, <4>1, <4>2
    <3>2. CASE y # p
      <4>1. y \in S \ {t}
        BY <1>13, <2>4, <3>2
      <4>2. g[y] = f[y] /\ f[y] \in S /\ A[f[y]] = A[y] \cup {y}
        BY <1>2, <1>4, <1>5, <1>13, <4>1
      <4>3. B[f[y]] = A[f[y]] \cup {p} /\ B[y] = A[y] \cup {p}
        BY <2>2, <4>1, <4>2
      <4>4. B[f[y]] = B[y] \cup {y}
        BY <4>2, <4>3
      <4>5. QED
        BY <4>2, <4>4
    <3>3. QED
      BY <3>1, <3>2
  <2>5. QED
    BY <1>13, <2>3, <2>4 DEF Line, g, B
<1>14. CASE ~ last /\ x # t
  <2>1. pri[x] >= pri[p] /\ pri[f[x]] < pri[p] /\ A[f[x]] = A[x] \cup {x} /\ f[x] \in S
    BY <1>4, <1>5, <1>14
  <2>2. ASSUME NEW y \in S PROVE pri[y] >= pri[p] <=> y \in A[f[x]]
    <3>1. ASSUME y \in A[f[x]] PROVE pri[y] >= pri[p]
      <4>1. y = x \/ pri[y] >= pri[x]
        BY <1>7, <2>1, <3>1
      <4>2. QED
        BY <1>6, <2>1, <4>1
    <3> DEFINE X == {z \in S : z \in A[f[x]] \/ pri[z] <= pri[f[x]]}
    <3>2. f[t] \in X
      BY <1>5, <1>6, <1>8, <2>1
    <3>3. ASSUME NEW z \in X \ {t} PROVE f[z] \in X
      <4>1. f[z] \in S
        BY <1>5
      <4>2. CASE z \in A[f[x]]
        <5>1. f[z] \in A[f[x]] \cup {f[x]}
          BY <1>10, <2>1, <4>2
        <5>2. QED
          BY <1>6, <4>1, <5>1
      <4>3. CASE pri[z] <= pri[f[x]]
        BY <1>6, <1>11, <2>1, <4>1, <4>3
      <4>4. QED
        BY <4>2, <4>3
    <3>4. X \in SUBSET S
      OBVIOUS
    <3> HIDE DEF X
    <3>5. X = S
      BY <1>1, <3>2, <3>3, <3>4, LineWhole
    <3>6. y \in A[f[x]] \/ pri[y] <= pri[f[x]]
      BY <3>5 DEF X
    <3>7. QED
      BY <1>6, <2>1, <3>1, <3>6
  <2>3. B[p] = A[f[x]]
    BY <1>3, <1>5, <2>1, <2>2
  <2>4. \A y \in S : B[y] = IF y \in A[f[x]] THEN A[y] ELSE A[y] \cup {p}
    BY <1>3, <1>6, <2>2
  <2>5. f[x] \notin A[f[x]]
    BY <1>6, <2>1, <2>2
  <2>6. B[g[u]] = {}
    <3>1. g[u] = f[t] /\ f[t] \in S
      BY <1>2, <1>5, <1>14
    <3>2. f[t] # f[x]
      BY <1>1, <1>14 DEF Cycle
    <3>3. f[t] \in A[f[x]]
      BY <1>8, <2>1, <3>2
    <3>4. QED
      BY <1>4, <2>4, <3>1, <3>3
  <2>7. ASSUME NEW y \in (S \cup {p}) \ {u} PROVE B[g[y]] = B[y] \cup {y}
    <3>1. CASE y = p
      <4>1. g[y] = f[x] /\ B[f[x]] = A[f[x]] \cup {p}
        BY <1>2, <2>1, <2>4, <2>5, <3>1
      <4>2. QED
        BY <2>3, <3>1, <4>1
    <3>2. CASE y = x
      <4>1. g[y] = p /\ B[x] = A[x]
        BY <1>2, <2>1, <2>4, <3>2
      <4>2. QED
        BY <2>1, <2>3, <3>2, <4>1
    <3>3. CASE y # p /\ y # x
      <4>1. y \in S \ {t} /\ g[y] = f[y] /\ f[y] \in S /\ A[f[y]] = A[y] \cup {y}
        BY <1>2, <1>4, <1>5, <1>14, <2>7, <3>3
      <4>2. y \in A[f[x]] => f[y] \in A[f[x]]
        <5>1. f[y] # f[x]
          BY <1>1, <3>3, <4>1 DEF Cycle
        <5>2. QED
          BY <1>10, <2>1, <5>1
      <4>3. f[y] \in A[f[x]] => y \in A[f[x]]
        BY <1>6, <1>11, <2>2, <4>1
      <4>4. B[f[y]] = B[y] \cup {y}
        BY <2>4, <4>1, <4>2, <4>3
      <4>5. QED
        BY <4>1, <4>4
    <3>4. QED
      BY <3>1, <3>2, <3>3
  <2>8. QED
    BY <1>14, <2>6, <2>7 DEF Line, g, B
<1>15. QED
  BY <1>12, <1>13, <1>14

(* A queue of one has nobody ahead of anybody. *)
LEMMA LineSingle ==
  ASSUME NEW A, NEW pri, NEW p \in Psb, NEW g, g[p] = p
  PROVE  Line(Behind(A, pri, {}, p), g, {p}, p)
  BY DEF Line, Behind

-----------------------------------------------------------------------------
(* The walk along cleanup links from x ends at e, and nowhere else. *)
Leads(f, x, e) ==
  /\ e \in Reach(f, x) /\ f[e] \in {e, Null}
  /\ \A y \in Reach(f, x) : f[y] \in {y, Null} => y = e

(* A process that still waits ends the walk that starts at it. *)
LEMMA LeadsSelf ==
  ASSUME NEW f, NEW p \in Psb, f[p] \in {p, Null}
  PROVE  Leads(f, p, p) /\ Reach(f, p) = {p}
<1>1. {p} \in SUBSET Psb
  OBVIOUS
<1>2. Reach(f, p) \subseteq {p}
  BY <1>1, ReachLeast
<1>3. QED
  BY <1>2, ReachStart DEF Leads

(* The walks from the head of a queue make its line. *)
LEMMA LineWalk ==
  ASSUME NEW f \in [Psb -> Psb], NEW S \in SUBSET Psb, NEW t \in S, Cycle(f, S),
         NEW A, \A x \in S : A[x] = Reach([f EXCEPT ![x] = Null], f[t]) \ {x}
  PROVE  Line(A, f, S, t)
<1> DEFINE a == f[t]
           P(x) == Reach([f EXCEPT ![x] = Null], a)
<1>1. a \in S /\ a \in Psb /\ \A x \in S : f[x] \in S
  BY DEF Cycle
<1>2. ASSUME NEW x \in S
      PROVE  P(x) \subseteq S /\ a \in P(x) /\ x \in P(x) /\ \A y \in P(x) \ {x} : f[y] \in P(x)
  BY <1>1, <1>2, PrefixWalk
<1>3. A[a] = {}
  <2> DEFINE g == [f EXCEPT ![a] = Null]
  <2>1. g[a] = Null
    BY <1>1
  <2> HIDE DEF g
  <2>2. Reach(g, a) = {a}
    BY <1>1, <2>1, LeadsSelf
  <2>3. QED
    BY <1>1, <2>2 DEF g
<1>4. ASSUME NEW x \in S \ {t} PROVE A[f[x]] = A[x] \cup {x}
  <2> DEFINE g == [f EXCEPT ![x] = Null]
             k == [f EXCEPT ![f[x]] = Null]
             Q == P(x) \ {f[x]}
             U == P(f[x]) \ {f[x]}
             W == P(x) \cup {f[x]}
  <2>1. f[x] \in S /\ f[x] # a /\ x \in S
    BY <1>1, <1>4 DEF Cycle
  <2>2. \A y \in S \ {x} : f[y] # f[x] /\ g[y] = f[y]
    BY <1>4 DEF Cycle
  <2>3. g[x] = Null /\ k[f[x]] = Null /\ \A y \in S \ {f[x]} : k[y] = f[y]
    BY <2>1
  <2>4. /\ P(x) \subseteq S /\ a \in P(x) /\ x \in P(x) /\ \A y \in P(x) \ {x} : f[y] \in P(x)
        /\ P(f[x]) \subseteq S /\ a \in P(f[x]) /\ f[x] \in P(f[x])
        /\ \A y \in P(f[x]) \ {f[x]} : f[y] \in P(f[x])
    BY <1>2, <2>1
  <2>5. P(x) = Reach(g, a) /\ P(f[x]) = Reach(k, a)
    OBVIOUS
  <2> HIDE DEF P, g, k
  <2>6. P(x) \subseteq Q
    <3>1. Q \in SUBSET Psb /\ a \in Q /\ \A y \in Q : g[y] \in Q \cup {Null}
      BY <2>1, <2>2, <2>3, <2>4
    <3> HIDE DEF Q
    <3>2. QED
      BY <2>5, <3>1, ReachLeast
  <2>7. P(x) \subseteq U
    <3>1. U \in SUBSET Psb /\ a \in U /\ \A y \in U : g[y] \in U \cup {Null}
      BY <2>1, <2>2, <2>3, <2>4
    <3> HIDE DEF U
    <3>2. QED
      BY <2>5, <3>1, ReachLeast
  <2>8. P(f[x]) \subseteq W
    <3>1. W \in SUBSET Psb /\ a \in W /\ \A y \in W : k[y] \in W \cup {Null}
      BY <2>1, <2>3, <2>4
    <3> HIDE DEF W
    <3>2. QED
      BY <2>5, <3>1, ReachLeast
  <2>9. P(f[x]) \ {f[x]} = P(x) /\ x \in P(x)
    BY <2>4, <2>6, <2>7, <2>8
  <2>10. A[f[x]] = P(f[x]) \ {f[x]} /\ A[x] = P(x) \ {x}
    BY <2>1 DEF P
  <2>11. QED
    BY <2>9, <2>10
<1>5. QED
  BY <1>3, <1>4 DEF Line

(* When p, which waited, gets a cleanup link v: a walk that does not meet p  *)
(* stays, one that ended at p still ends there if p was alone, and at v     *)
(* otherwise.                                                               *)
LEMMA LeadsPast ==
  ASSUME NEW f \in [Psb -> Psb \cup {Null}], NEW p \in Psb, NEW v \in Psb,
         NEW a \in Psb, NEW e, Leads(f, a, e), p \notin Reach(f, a)
  PROVE  LET g == [f EXCEPT ![p] = v]
         IN  Leads(g, a, e) /\ Reach(g, a) = Reach(f, a) /\ g[e] = f[e]
<1> DEFINE g == [f EXCEPT ![p] = v]
<1>1. \A x \in Reach(f, a) : g[x] = f[x]
  BY DEF Reach
<1>2. Reach(g, a) = Reach(f, a)
  BY <1>1, ReachSame
<1>3. QED
  BY <1>1, <1>2 DEF Leads

(* A walk that ends at p ends at v once p is linked to v. *)
LEMMA LeadsOn ==
  ASSUME NEW f \in [Psb -> Psb \cup {Null}], NEW p \in Psb, NEW v \in Psb,
         NEW a \in Psb, Leads(f, a, p), f[p] = Null, v # p => f[v] = Null
  PROVE  LET g == [f EXCEPT ![p] = v]
         IN  Leads(g, a, v) /\ Reach(g, a) = Reach(f, a) \cup {v}
<1> DEFINE g == [f EXCEPT ![p] = v]
           A == Reach(f, a)
           B == Reach(g, a)
<1>1. g[p] = v /\ \A x \in Psb \ {p} : g[x] = f[x]
  OBVIOUS
<1> HIDE DEF g
<1>2. A \in SUBSET Psb /\ B \in SUBSET Psb /\ a \in A /\ p \in A /\ a \in B
  BY ReachStart DEF Reach, Leads
<1>3. \A x \in B : f[x] \in B \cup {Null}
  BY <1>1, <1>2, ReachStep
<1>4. A \subseteq B
  BY <1>2, <1>3, ReachLeast
<1>5. v \in B
  BY <1>1, <1>2, <1>4, ReachStep
<1>6. \A x \in A : f[x] \in A \cup {Null}
  BY <1>2, ReachStep
<1>7. \A x \in A \cup {v} : g[x] \in A \cup {v} \cup {Null}
  BY <1>1, <1>2, <1>6
<1>8. B \subseteq A \cup {v}
  <2>1. A \cup {v} \in SUBSET Psb
    BY <1>2
  <2>2. QED
    BY <1>2, <1>7, <2>1, ReachLeast
<1>9. B = A \cup {v}
  BY <1>4, <1>5, <1>8
<1>10. g[v] \in {v, Null}
  BY <1>1
<1>11. ASSUME NEW y \in B, g[y] \in {y, Null} PROVE y = v
  BY <1>1, <1>2, <1>9, <1>11, NullNoPsb DEF Leads
<1>12. QED
  BY <1>5, <1>9, <1>10, <1>11 DEF Leads, g

-----------------------------------------------------------------------------
(* The queues of a PDA d.  h says on which queue each process is, Nil for    *)
(* one that a procedure holds between two queues; w which condition it      *)
(* waits on or returns from; T which process is the last of each queue.     *)

Fields == {"next", "pri", "preempted", "failed", "waiting", "abort", "cleanup", "timeout",
           "context", "tail", "locked", "wakeup", "state", "PSB", "running"}

Members(h, q) == {p \in Psb : h[p] = q}

(* The tail of condition c has left it, and nobody was told. *)
Stale(d, c) == d.tail[c] # Null /\ d.cleanup[d.tail[c]] # Null

(* The tail of c is its last process t, or from it the cleanup links lead to *)
(* the first of the processes S that still wait, or to one that left last.  *)
TailFinds(d, c, S, t) ==
  \/ d.tail[c] = t
  \/ /\ Stale(d, c)
     /\ \E e \in Psb : /\ Leads(d.cleanup, d.tail[c], e)
                       /\ IF d.cleanup[e] = Null THEN S # {} /\ e = d.next[t] ELSE S = {}

RingsTyped(d, h, T) ==
  /\ DOMAIN d = Fields
  /\ d.next \in [Psb -> Psb] /\ d.pri \in [Psb -> Priority]
  /\ d.cleanup \in [Psb -> Psb \cup {Null}] /\ d.tail \in [Queues -> Psb \cup {Null}]
  /\ h \in [Psb -> Queues \cup {Nil}]
  /\ T \in [Queues -> Psb \cup {Null}]

Rings(d, h, w, T) ==
  /\ RingsTyped(d, h, T)
  /\ \A q \in Queues : Queue(d.next, d.pri, Members(h, q), T[q])
  /\ \A q \in Queues \ Conditions : d.tail[q] = T[q]
  /\ \A c \in Conditions : TailFinds(d, c, Members(h, c), T[c])
  /\ \A c \in Conditions : Stale(d, c) => \A x \in Reach(d.cleanup, d.tail[c]) : w[x] = c
  /\ \A p \in Psb : h[p] \in Conditions => d.cleanup[p] = Null /\ w[p] = h[p]
  /\ \A p \in Psb : d.cleanup[p] # Null => w[p] \in Conditions

Orderly(d, h, w) == \E T \in [Queues -> Psb \cup {Null}] : Rings(d, h, w, T)

(* The tail of a condition that is not stale is its last process. *)
LEMMA FreshTail ==
  ASSUME NEW d, NEW h, NEW w, NEW T, Rings(d, h, w, T), NEW q \in Queues,
         q \in Conditions => ~ Stale(d, q)
  PROVE  d.tail[q] = T[q]
  BY DEF Rings, TailFinds

(* And then its ring is the queue. *)
LEMMA FreshRing ==
  ASSUME NEW d, NEW h, NEW w, NEW T, Rings(d, h, w, T), NEW q \in Queues,
         q \in Conditions => ~ Stale(d, q)
  PROVE  Ring(d, q) = Members(h, q)
<1>1. d.tail[q] = T[q] /\ Queue(d.next, d.pri, Members(h, q), T[q])
  BY FreshTail DEF Rings
<1>2. Members(h, q) \in SUBSET Psb
  BY DEF Members
<1>3. CASE Members(h, q) = {}
  BY <1>1, <1>3 DEF Queue, Ring
<1>4. CASE Members(h, q) # {}
  BY <1>1, <1>2, <1>4, CycleReach, NullNoPsb DEF Queue, Ring
<1>5. QED
  BY <1>3, <1>4

-----------------------------------------------------------------------------
(* PDA e is PDA d but for the links, tails and cleanup links. *)
Relinked(d, e) ==
  /\ DOMAIN e = DOMAIN d
  /\ \A n \in Fields \ {"next", "tail", "cleanup"} : e[n] = d[n]

(* Empty queues stay empty, but for q. *)
EmptyStays(d, e, q) == \A r \in Queues \ {q} : d.tail[r] = Null => e.tail[r] = Null

(* Dequeue changes links, tails and cleanup links only. *)
LEMMA DequeueRelinks ==
  ASSUME NEW d, DOMAIN d = Fields, NEW src, NEW p
  PROVE  Relinked(d, Dequeue(d, src, p))
  BY DEF Relinked, Dequeue, Fields

(* So does Enqueue. *)
LEMMA EnqueueRelinks ==
  ASSUME NEW d, DOMAIN d = Fields, NEW dst, NEW p
  PROVE  Relinked(d, Enqueue(d, dst, p))
  BY DEF Relinked, Enqueue, Fields

(* What Dequeue does to links, tails and cleanup links, once the process     *)
(* before p is found.                                                       *)
LEMMA DequeueFinds ==
  ASSUME NEW d, NEW h, NEW w, NEW T, Rings(d, h, w, T), \A y \in Psb : h[y] # Nil,
         NEW p \in Psb
  PROVE  /\ Pred(d, p) \in Members(h, h[p]) /\ d.next[Pred(d, p)] = p
         /\ d.next[p] \in Members(h, h[p])
         /\ d.next[p] = p => Members(h, h[p]) = {p}
<1>1. \A y \in Psb : h[y] \in Queues /\ y \in Members(h, h[y])
  BY DEF Rings, RingsTyped, Members
<1>2. \A q \in Queues : Cycle(d.next, Members(h, q))
  BY DEF Rings, Queue
<1>3. Cycle(d.next, Members(h, h[p])) /\ p \in Members(h, h[p])
  BY <1>1, <1>2
<1>4. PICK x \in Members(h, h[p]) : d.next[x] = p
  BY <1>3, CyclePred
<1>5. x \in Psb
  BY DEF Members
<1>6. Pred(d, p) \in Psb /\ d.next[Pred(d, p)] = p
  BY <1>4, <1>5 DEF Pred
<1>7. p \in Members(h, h[Pred(d, p)])
  BY <1>1, <1>2, <1>6 DEF Cycle
<1>8. Pred(d, p) \in Members(h, h[p])
  BY <1>6, <1>7 DEF Members
<1>9. d.next[p] \in Members(h, h[p])
  BY <1>3 DEF Cycle
<1>10. ASSUME d.next[p] = p PROVE Members(h, h[p]) = {p}
  <2>1. QED
    BY <1>3, <1>10, CycleOne
<1>11. QED
  BY <1>6, <1>8, <1>9, <1>10


(* The queues after Dequeue: p is out, all others are as they were. *)
TailWithout(d, T, q, p) ==
  [T EXCEPT ![q] = IF d.next[p] = p THEN Null ELSE IF T[q] = p THEN Pred(d, p) ELSE T[q]]

(* PDA e is PDA d with p out of the ring of its queue. *)
Unhooked(d, h, T, p, e) ==
  LET h2 == [h EXCEPT ![p] = Nil]
      T2 == TailWithout(d, T, h[p], p)
  IN  /\ T2 \in [Queues -> Psb \cup {Null}]
      /\ e.next \in [Psb -> Psb]
      /\ Members(h2, h[p]) = Members(h, h[p]) \ {p}
      /\ \A q \in Queues \ {h[p]} : Members(h2, q) = Members(h, q)
      /\ \A y \in Psb \ Members(h, h[p]) : e.next[y] = d.next[y]
      /\ e.next = IF d.next[p] = p THEN d.next
                  ELSE [d.next EXCEPT ![Pred(d, p)] = d.next[p]]
      /\ \A q \in Queues : Queue(e.next, e.pri, Members(h2, q), T2[q])

(* Dequeue takes p out of its ring and leaves every other ring as it was;    *)
(* the tail follows, when p was last and when it was alone.                  *)
LEMMA DequeueQueues ==
  ASSUME NEW d, NEW h, NEW w, NEW T, Rings(d, h, w, T), \A y \in Psb : h[y] # Nil,
         NEW p \in Psb, NEW src
  PROVE  Unhooked(d, h, T, p, Dequeue(d, src, p))
<1> DEFINE e  == Dequeue(d, src, p)
           q == h[p]
           h2 == [h EXCEPT ![p] = Nil]
           T2 == TailWithout(d, T, q, p)
           x == Pred(d, p)
           S == Members(h, q)
<1>1. RingsTyped(d, h, T) /\ q \in Queues /\ p \in S /\ S \in SUBSET Psb
  BY DEF Rings, RingsTyped, Members
<1>2. /\ x \in S /\ d.next[x] = p /\ d.next[p] \in S
      /\ d.next[p] = p => S = {p}
  BY DequeueFinds
<1>3. e.pri = d.pri
  BY <1>1, DequeueRelinks DEF RingsTyped, Relinked, Fields
<1>4. e.next = IF d.next[p] = p THEN d.next ELSE [d.next EXCEPT ![x] = d.next[p]]
  BY <1>1 DEF RingsTyped, Dequeue, Fields
<1> HIDE DEF e, x
<1>5. Members(h2, q) = S \ {p} /\ \A r \in Queues \ {q} : Members(h2, r) = Members(h, r)
  BY <1>1, QueuesAssumption DEF Members, RingsTyped
<1>6. \A y \in Psb \ S : e.next[y] = d.next[y]
  BY <1>1, <1>2, <1>4 DEF RingsTyped
<1>7. e.next \in [Psb -> Psb]
  BY <1>1, <1>2, <1>4 DEF RingsTyped
<1>8. T2 = [T EXCEPT ![q] = IF d.next[p] = p THEN Null ELSE IF T[q] = p THEN x ELSE T[q]]
  BY DEF TailWithout, x
<1> HIDE DEF T2
<1>9. T2 \in [Queues -> Psb \cup {Null}]
  BY <1>1, <1>2, <1>8 DEF RingsTyped
<1>10. \A r \in Queues : Queue(d.next, d.pri, Members(h, r), T[r])
  BY DEF Rings
<1>11. ASSUME NEW r \in Queues \ {q} PROVE Queue(e.next, e.pri, Members(h2, r), T2[r])
  <2>1. T2[r] = T[r] /\ Members(h2, r) = Members(h, r)
    BY <1>1, <1>5, <1>8, <1>11 DEF RingsTyped
  <2>2. \A y \in Members(h, r) : e.next[y] = d.next[y]
    BY <1>6 DEF Members
  <2>3. QED
    BY <1>3, <1>10, <2>1, <2>2, QueueSame
<1>12. Queue(e.next, e.pri, Members(h2, q), T2[q])
  <2>1. CASE d.next[p] = p
    <3>1. Members(h2, q) = {} /\ T2[q] = Null
      BY <1>1, <1>2, <1>5, <1>8, <2>1 DEF RingsTyped
    <3>2. QED
      BY <3>1, QueueEmpty
  <2>2. CASE d.next[p] # p
    <3>1. T2[q] = IF T[q] = p THEN x ELSE T[q]
      BY <1>1, <1>8, <2>2 DEF RingsTyped
    <3>2. /\ d.next \in [Psb -> Psb] /\ d.pri \in [Psb -> Priority]
          /\ Queue(d.next, d.pri, S, T[q])
      BY <1>1, <1>10 DEF RingsTyped
    <3> HIDE DEF S, q
    <3>3. Queue([d.next EXCEPT ![x] = d.next[p]], d.pri, S \ {p},
                IF T[q] = p THEN x ELSE T[q])
      BY <1>1, <1>2, <2>2, <3>2, QueueRemove
    <3>4. QED
      BY <1>3, <1>4, <1>5, <2>2, <3>1, <3>3
  <2>3. QED
    BY <2>1, <2>2
<1>13. QED
  BY <1>4, <1>5, <1>6, <1>7, <1>9, <1>11, <1>12 DEF Unhooked, e, T2, x

(* Dequeue from a queue it is told. *)
LEMMA DequeueTold ==
  ASSUME NEW d, NEW h, NEW w, NEW T, Rings(d, h, w, T), \A y \in Psb : h[y] # Nil,
         NEW p \in Psb, h[p] \in Conditions => ~ Stale(d, h[p])
  PROVE  LET e == Dequeue(d, h[p], p)
         IN  /\ Rings(e, [h EXCEPT ![p] = Nil], w, TailWithout(d, T, h[p], p))
             /\ e.cleanup = d.cleanup
             /\ \A c \in Conditions : ~ Stale(d, c) => ~ Stale(e, c)
<1> DEFINE q == h[p]
           e == Dequeue(d, q, p)
           h2 == [h EXCEPT ![p] = Nil]
           T2 == TailWithout(d, T, q, p)
           x == Pred(d, p)
           S == Members(h, q)
<1>1. /\ RingsTyped(d, h, T) /\ q \in Queues /\ q # Nil /\ p \in S /\ S \in SUBSET Psb
      /\ d.tail[q] = T[q]
  <2>1. /\ RingsTyped(d, h, T) /\ q \in Queues /\ q # Nil /\ p \in S /\ S \in SUBSET Psb
    BY DEF Rings, RingsTyped, Members
  <2>2. QED
    BY <2>1, FreshTail
<1>2. x \in S /\ (d.next[p] = p => S = {p})
  BY DequeueFinds
<1>3. /\ T2 \in [Queues -> Psb \cup {Null}]
      /\ e.next \in [Psb -> Psb]
      /\ Members(h2, q) = S \ {p}
      /\ \A r \in Queues \ {q} : Members(h2, r) = Members(h, r)
      /\ \A y \in Psb \ S : e.next[y] = d.next[y]
      /\ e.next = IF d.next[p] = p THEN d.next ELSE [d.next EXCEPT ![x] = d.next[p]]
      /\ \A r \in Queues : Queue(e.next, e.pri, Members(h2, r), T2[r])
  BY DequeueQueues DEF Unhooked
<1>4. /\ DOMAIN e = Fields /\ e.pri = d.pri
      /\ e.cleanup = d.cleanup
      /\ e.tail = [d.tail EXCEPT ![q] =
                     IF @ = p THEN IF d.next[p] = p THEN Null ELSE x ELSE @]
  BY <1>1 DEF RingsTyped, Dequeue, Fields
<1>5. T2 = [T EXCEPT ![q] = IF d.next[p] = p THEN Null ELSE IF T[q] = p THEN x ELSE T[q]]
  BY DEF TailWithout
<1>6. d.next[p] = p => T[q] = p
  BY <1>1, <1>2 DEF Rings, Queue
<1> HIDE DEF e, x, T2
<1>7. e.tail[q] = T2[q] /\ \A r \in Queues \ {q} : e.tail[r] = d.tail[r] /\ T2[r] = T[r]
  BY <1>1, <1>4, <1>5, <1>6 DEF RingsTyped
<1>8. e.tail \in [Queues -> Psb \cup {Null}] /\ h2 \in [Psb -> Queues \cup {Nil}]
  BY <1>1, <1>2, <1>4 DEF RingsTyped
<1>9. RingsTyped(e, h2, T2)
  BY <1>1, <1>3, <1>4, <1>8 DEF RingsTyped
<1>10. \A c \in Conditions \ {q} : Stale(e, c) <=> Stale(d, c)
  BY <1>4, <1>7 DEF Stale, Queues
<1>11. ASSUME q \in Conditions PROVE ~ Stale(e, q)
  <2>1. T2[q] = Null \/ T2[q] \in Members(h2, q)
    BY <1>1, <1>3 DEF Queue
  <2>2. \A y \in S : d.cleanup[y] = Null
    BY <1>11 DEF Rings, Members
  <2>3. QED
    BY <1>3, <1>4, <1>7, <2>1, <2>2 DEF Stale
<1>12. ASSUME NEW c \in Conditions PROVE TailFinds(e, c, Members(h2, c), T2[c])
  <2>1. CASE c = q
    BY <1>7, <2>1 DEF TailFinds
  <2>2. CASE c # q
    <3>1. c \in Queues \ {q} /\ TailFinds(d, c, Members(h, c), T[c])
      BY <2>2 DEF Rings, Queues
    <3>2. Members(h, c) # {} => T[c] \in Psb \ S
      BY <2>2, <3>1 DEF Members, Rings, Queue
    <3>3. Members(h, c) # {} => e.next[T[c]] = d.next[T[c]]
      BY <1>3, <3>2
    <3>4. /\ e.tail[c] = d.tail[c] /\ T2[c] = T[c] /\ Members(h2, c) = Members(h, c)
          /\ Stale(e, c) <=> Stale(d, c)
      BY <1>3, <1>7, <1>10, <2>2, <3>1
    <3>5. QED
      BY <1>4, <3>1, <3>3, <3>4 DEF TailFinds
  <2>3. QED
    BY <2>1, <2>2
<1>13. ASSUME NEW c \in Conditions, Stale(e, c)
       PROVE  \A y \in Reach(e.cleanup, e.tail[c]) : w[y] = c
  <2>1. c # q /\ c \in Queues
    BY <1>11, <1>13 DEF Queues
  <2>2. QED
    BY <1>4, <1>7, <1>10, <1>13, <2>1 DEF Rings
<1>14. \A y \in Psb : h2[y] \in Conditions => e.cleanup[y] = Null /\ w[y] = h2[y]
  BY <1>1, <1>4, QueuesAssumption DEF Rings, RingsTyped, Queues
<1>15. \A r \in Queues \ Conditions : e.tail[r] = T2[r]
  BY <1>7 DEF Rings
<1>16. \A y \in Psb : e.cleanup[y] # Null => w[y] \in Conditions
  BY <1>4 DEF Rings
<1>17. Rings(e, h2, w, T2)
  BY <1>3, <1>9, <1>12, <1>13, <1>14, <1>15, <1>16 DEF Rings
<1>18. QED
  BY <1>4, <1>10, <1>11, <1>17 DEF e, T2

(* Dequeue from a condition that is not told. *)
LEMMA DequeueUntold ==
  ASSUME NEW d, NEW h, NEW w, NEW T, Rings(d, h, w, T), \A y \in Psb : h[y] # Nil,
         NEW p \in Psb, h[p] \in Conditions
  PROVE  LET e == Dequeue(d, Nil, p)
         IN  /\ Rings(e, [h EXCEPT ![p] = Nil], w, TailWithout(d, T, h[p], p))
             /\ e.cleanup = [d.cleanup EXCEPT ![p] = d.next[p]]
             /\ \A c \in Conditions \ {h[p]} : ~ Stale(d, c) => ~ Stale(e, c)
<1> DEFINE q == h[p]
           e == Dequeue(d, Nil, p)
           h2 == [h EXCEPT ![p] = Nil]
           T2 == TailWithout(d, T, q, p)
           x == Pred(d, p)
           S == Members(h, q)
           v == d.next[p]
           f == d.cleanup
           g == [f EXCEPT ![p] = v]
<1>1. RingsTyped(d, h, T) /\ q \in Queues /\ p \in S /\ S \in SUBSET Psb
  BY DEF Rings, RingsTyped, Members
<1>2. x \in S /\ d.next[x] = p /\ v \in S /\ (v = p => S = {p})
  BY DequeueFinds
<1>3. /\ T2 \in [Queues -> Psb \cup {Null}]
      /\ e.next \in [Psb -> Psb]
      /\ Members(h2, q) = S \ {p}
      /\ \A r \in Queues \ {q} : Members(h2, r) = Members(h, r)
      /\ \A y \in Psb \ S : e.next[y] = d.next[y]
      /\ e.next = IF v = p THEN d.next ELSE [d.next EXCEPT ![x] = v]
      /\ \A r \in Queues : Queue(e.next, e.pri, Members(h2, r), T2[r])
  BY DequeueQueues DEF Unhooked
<1>4. DOMAIN e = Fields /\ e.pri = d.pri /\ e.tail = d.tail /\ e.cleanup = g
  BY <1>1 DEF RingsTyped, Dequeue, Fields
<1>5. T2 = [T EXCEPT ![q] = IF v = p THEN Null ELSE IF T[q] = p THEN x ELSE T[q]]
  BY DEF TailWithout
<1> HIDE DEF e, T2
<1>6. \A y \in S : f[y] = Null /\ w[y] = q
  BY DEF Rings, Members
<1>7. /\ f \in [Psb -> Psb \cup {Null}] /\ v \in Psb /\ x \in Psb
      /\ g[p] = v /\ v # Null /\ (v # p => f[v] = Null) /\ \A y \in Psb \ {p} : g[y] = f[y]
  BY <1>1, <1>2, <1>6, NullNoPsb DEF RingsTyped
<1> HIDE DEF g
<1>8. \A y \in Psb : g[y] \in Psb \cup {Null}
  BY <1>7
<1>9. RingsTyped(e, h2, T2)
  <2>1. g \in [Psb -> Psb \cup {Null}]
    BY <1>7 DEF g
  <2>2. h2 \in [Psb -> Queues \cup {Nil}]
    BY <1>1 DEF RingsTyped
  <2>3. QED
    BY <1>1, <1>3, <1>4, <2>1, <2>2 DEF RingsTyped
<1>10. ASSUME NEW c \in Conditions \ {q}
       PROVE  /\ Stale(e, c) <=> Stale(d, c)
              /\ TailFinds(e, c, Members(h2, c), T2[c])
              /\ Stale(e, c) => \A y \in Reach(e.cleanup, e.tail[c]) : w[y] = c
  <2>1. c \in Queues \ {q} /\ TailFinds(d, c, Members(h, c), T[c])
    BY DEF Rings, Queues
  <2>2. T2[c] = T[c] /\ Members(h2, c) = Members(h, c)
    BY <1>1, <1>3, <1>5, <2>1 DEF RingsTyped
  <2>3. IF Members(h, c) = {} THEN T[c] = Null ELSE T[c] \in Members(h, c) /\ T[c] \in Psb \ S
    BY <2>1 DEF Members, Rings, Queue
  <2>4. CASE d.tail[c] = T[c]
    <3>1. T[c] # p /\ (T[c] # Null => T[c] \in Psb /\ f[T[c]] = Null)
      BY <1>1, <2>3, NullNoPsb DEF Members, Rings
    <3>2. ~ Stale(e, c) /\ ~ Stale(d, c)
      BY <1>4, <1>7, <2>4, <3>1 DEF Stale
    <3>3. QED
      BY <1>4, <2>2, <2>4, <3>2 DEF TailFinds
  <2>5. CASE d.tail[c] # T[c]
    <3> DEFINE a == d.tail[c]
    <3>1. Stale(d, c) /\ a \in Psb
      BY <1>1, <2>1, <2>5 DEF TailFinds, RingsTyped, Stale
    <3>2. \A y \in Reach(f, a) : w[y] = c
      BY <3>1 DEF Rings
    <3>3. p \notin Reach(f, a)
      BY <1>1, <1>6, <3>2
    <3>4. PICK z \in Psb : /\ Leads(f, a, z)
                           /\ IF f[z] = Null THEN Members(h, c) # {} /\ z = d.next[T[c]]
                              ELSE Members(h, c) = {}
      BY <2>1, <2>5 DEF TailFinds
    <3>5. Leads(g, a, z) /\ Reach(g, a) = Reach(f, a) /\ g[z] = f[z]
      BY <1>7, <3>1, <3>3, <3>4, LeadsPast DEF g
    <3>6. Stale(e, c)
      BY <1>4, <1>7, <3>1, <3>3, ReachStart DEF Stale
    <3>7. Members(h, c) # {} => e.next[T[c]] = d.next[T[c]]
      BY <1>3, <2>3
    <3>8. TailFinds(e, c, Members(h2, c), T2[c])
      BY <1>4, <2>2, <3>4, <3>5, <3>6, <3>7 DEF TailFinds
    <3>9. QED
      BY <1>4, <3>1, <3>2, <3>5, <3>6, <3>8
  <2>6. QED
    BY <2>4, <2>5
<1>11. TailFinds(e, q, Members(h2, q), T2[q])
       /\ (Stale(e, q) => \A y \in Reach(e.cleanup, e.tail[q]) : w[y] = q)
  <2> DEFINE a == d.tail[q]
  <2>1. T[q] \in S /\ TailFinds(d, q, S, T[q]) /\ \A y, z \in S : d.next[y] = d.next[z] => y = z
    BY <1>1 DEF Rings, Queue, Cycle
  <2>2. T2[q] = IF v = p THEN Null ELSE IF T[q] = p THEN x ELSE T[q]
    BY <1>1, <1>5 DEF RingsTyped
  <2>3. a \in Psb
    BY <1>1, <2>1, NullNoPsb DEF TailFinds, Stale, RingsTyped
  <2>4. CASE Leads(f, a, p)
    <3>1. Leads(g, a, v) /\ Reach(g, a) = Reach(f, a) \cup {v}
      BY SMTT(30), <1>7, <2>3, <2>4, <1>1, <1>6, LeadsOn DEF g
    <3>2. a # p => f[a] # Null
      BY <2>3, <2>4, ReachStart DEF Leads
    <3>3. Stale(e, q)
      BY <1>4, <1>7, <2>3, <3>2, NullNoPsb DEF Stale
    <3>4. ASSUME NEW y \in Reach(g, a) PROVE w[y] = q
      <4>1. CASE Stale(d, q)
        BY <1>2, <1>6, <3>1, <4>1 DEF Rings
      <4>2. CASE ~ Stale(d, q)
        <5>1. a = p
          BY <2>3, <3>2, <4>2, NullNoPsb DEF Stale
        <5>2. Reach(f, a) = {p}
          BY <1>1, <1>6, <5>1, LeadsSelf
        <5>3. QED
          BY <1>1, <1>2, <1>6, <3>1, <5>2
      <4>3. QED
        BY <4>1, <4>2
    <3>5. ASSUME v # p PROVE v = e.next[T2[q]] /\ v \in S \ {p} /\ g[v] = Null
      <4>1. g[v] = Null /\ v \in S \ {p}
        BY <1>2, <1>7, <3>5
      <4>2. CASE T[q] = p
        BY <1>2, <1>3, <1>7, <2>2, <3>5, <4>1, <4>2, <1>1 DEF RingsTyped
      <4>3. CASE T[q] # p
        <5>1. d.tail[q] # T[q]
          BY <1>1, <1>6, <2>1, <3>2, <4>3
        <5>2. PICK z \in Psb : Leads(f, a, z) /\ (f[z] = Null => z = d.next[T[q]])
          BY <2>1, <5>1 DEF TailFinds
        <5>3. z = p
          BY <1>1, <1>6, <2>4, <5>2 DEF Leads
        <5>4. T[q] = x
          BY <1>1, <1>2, <1>6, <2>1, <5>2, <5>3
        <5>5. QED
          BY <1>1, <1>3, <1>7, <2>2, <3>5, <4>1, <4>3, <5>4 DEF RingsTyped
      <4>4. QED
        BY <4>2, <4>3, <4>1
    <3>6. v = p => Members(h2, q) = {} /\ g[v] # Null
      BY <1>2, <1>3, <1>7
    <3>7. TailFinds(e, q, Members(h2, q), T2[q])
      BY <1>3, <1>4, <1>7, <3>1, <3>3, <3>5, <3>6 DEF TailFinds
    <3>8. QED
      BY <1>4, <3>4, <3>7
  <2>5. CASE p \notin Reach(f, a)
    <3>1. a # p /\ g[a] = f[a]
      BY <1>7, <2>3, <2>5, ReachStart
    <3>2. CASE a = T[q]
      <4>1. v # p /\ T2[q] = T[q]
        BY <1>2, <2>1, <2>2, <3>1, <3>2
      <4>2. ~ Stale(e, q)
        BY <1>4, <1>6, <2>1, <3>1, <3>2 DEF Stale
      <4>3. QED
        BY <1>4, <3>2, <4>1, <4>2 DEF TailFinds
    <3>3. CASE a # T[q]
      <4>1. PICK z \in Psb : Leads(f, a, z) /\ f[z] = Null /\ z = d.next[T[q]]
        BY <1>1, <2>1, <3>3 DEF TailFinds
      <4>2. z # p
        BY <2>5, <4>1 DEF Leads
      <4>3. v # p
        BY <1>2, <2>1, <4>1, <4>2
      <4>4. z = e.next[T2[q]]
        BY <1>1, <1>2, <1>3, <1>7, <2>1, <2>2, <4>1, <4>2, <4>3 DEF RingsTyped
      <4>5. Leads(g, a, z) /\ Reach(g, a) = Reach(f, a) /\ g[z] = f[z]
        BY <1>7, <2>3, <2>5, <4>1, LeadsPast DEF g
      <4>6. Stale(d, q) /\ Stale(e, q)
        BY <1>4, <2>1, <3>1, <3>3 DEF TailFinds, Stale
      <4>7. v \in Members(h2, q)
        BY <1>2, <1>3, <4>3
      <4>8. TailFinds(e, q, Members(h2, q), T2[q])
        BY <1>4, <4>1, <4>4, <4>5, <4>6, <4>7 DEF TailFinds
      <4>9. \A y \in Reach(g, a) : w[y] = q
        BY <4>5, <4>6 DEF Rings
      <4>10. QED
        BY <1>4, <4>8, <4>9
    <3>4. QED
      BY <3>2, <3>3
  <2>6. Leads(f, a, p) \/ p \notin Reach(f, a)
    <3>1. CASE a = T[q]
      BY <1>6, <2>1, <2>3, <3>1, LeadsSelf
    <3>2. CASE a # T[q]
      BY <1>1, <1>6, <2>1, <3>2 DEF TailFinds, Leads
    <3>3. QED
      BY <3>1, <3>2
  <2>7. QED
    BY <2>4, <2>5, <2>6
<1>12. \A y \in Psb : h2[y] \in Conditions => e.cleanup[y] = Null /\ w[y] = h2[y]
  BY <1>1, <1>4, <1>7, QueuesAssumption DEF Rings, RingsTyped, Queues
<1>13. \A y \in Psb : e.cleanup[y] # Null => w[y] \in Conditions
  BY <1>1, <1>4, <1>6, <1>7 DEF Rings
<1>14. ASSUME NEW r \in Queues \ Conditions PROVE e.tail[r] = T2[r]
  BY <1>1, <1>4, <1>5 DEF Rings, RingsTyped
<1>15. Rings(e, h2, w, T2)
  BY <1>3, <1>9, <1>10, <1>11, <1>12, <1>13, <1>14 DEF Rings
<1>16. QED
  BY <1>4, <1>10, <1>15 DEF e, T2, g

(* Where p may go after x, in a queue that ends with t: at the end, or where *)
(* it keeps the order.                                                       *)
Spot(f, pri, t, p, x, last) ==
  /\ last => x = t /\ pri[p] <= pri[t]
  /\ ~ last => (x = t \/ pri[x] >= pri[p]) /\ pri[f[x]] < pri[p]

(* PDA e has p on queue q, which had the processes S and ended with t in d.  *)
PlacedIn(d, e, S, t, p, q) ==
  \/ S = {} /\ e.next = [d.next EXCEPT ![p] = p] /\ e.tail[q] = p
  \/ \E x \in S, last \in BOOLEAN :
       /\ Spot(d.next, d.pri, t, p, x, last)
       /\ e.next = [d.next EXCEPT ![p] = d.next[x], ![x] = p]
       /\ e.tail[q] = IF last THEN p ELSE t

(* And it is d but for that. *)
Hooked(d, h, T, p, q, e) ==
  LET S == Members(h, q)
  IN  /\ e.next \in [Psb -> Psb]
      /\ e.tail \in [Queues -> Psb \cup {Null}]
      /\ \A y \in Psb \ (S \cup {p}) : e.next[y] = d.next[y]
      /\ \A r \in Queues \ {q} : e.tail[r] = d.tail[r]
      /\ Queue(e.next, d.pri, S \cup {p}, e.tail[q])
      /\ PlacedIn(d, e, S, T[q], p, q)

(* Where Enqueue puts p: the queue with it is again in order. *)
LEMMA EnqueuePlaces ==
  ASSUME NEW d, NEW h, NEW w, NEW T, Rings(d, h, w, T), NEW p \in Psb, h[p] = Nil,
         NEW q \in Queues, q \in Conditions => ~ Stale(d, q)
  PROVE  Hooked(d, h, T, p, q, Enqueue(d, q, p))
<1> DEFINE e == Enqueue(d, q, p)
           S == Members(h, q)
           t == T[q]
           last == d.pri[p] <= d.pri[t]
           x == IF last THEN t ELSE Before(d, q, p)
<1>1. /\ RingsTyped(d, h, T) /\ S \in SUBSET Psb /\ p \in Psb \ S
      /\ d.tail[q] = t /\ Queue(d.next, d.pri, S, t) /\ Ring(d, q) = S
  <2>1. RingsTyped(d, h, T) /\ S \in SUBSET Psb /\ p \in Psb \ S
    BY QueuesAssumption DEF Rings, RingsTyped, Members
  <2>2. Queue(d.next, d.pri, S, t)
    BY DEF Rings
  <2>3. QED
    BY <2>1, <2>2, FreshTail, FreshRing
<1>2. CASE t = Null
  <2>1. S = {}
    BY <1>1, <1>2, NullNoPsb DEF Queue
  <2>2. /\ e.next = [d.next EXCEPT ![p] = p] /\ e.tail = [d.tail EXCEPT ![q] = p]
    BY <1>1, <1>2 DEF RingsTyped, Enqueue, Fields
  <2> HIDE DEF e, S
  <2>3. e.next[p] = p /\ e.tail[q] = p
    BY <1>1, <2>2 DEF RingsTyped
  <2>4. Queue(e.next, d.pri, {p}, p)
    BY <2>3, QueueSingle
  <2>5. PlacedIn(d, e, S, T[q], p, q)
    BY <2>1, <2>2, <2>3 DEF PlacedIn
  <2>6. QED
    BY <1>1, <2>1, <2>2, <2>3, <2>4, <2>5 DEF Hooked, RingsTyped, e, S
<1>3. CASE t # Null
  <2>1. t \in S /\ S # {}
    BY <1>1, <1>3 DEF Queue
  <2>2. /\ last \in BOOLEAN /\ x \in S /\ (last => x = t /\ d.pri[p] <= d.pri[t])
        /\ ~ last => (x = t \/ d.pri[x] >= d.pri[p]) /\ d.pri[d.next[x]] < d.pri[p]
    <3>1. CASE last
      BY <2>1, <3>1
    <3>2. CASE ~ last
      <4>1. d.pri[p] > d.pri[t]
        BY <1>1, <2>1, <3>2 DEF RingsTyped, Priority
      <4>2. \E y \in S : (y = t \/ d.pri[y] >= d.pri[p]) /\ d.pri[d.next[y]] < d.pri[p]
        BY <1>1, <2>1, <4>1, QueuePlace DEF RingsTyped
      <4>3. QED
        BY <1>1, <3>2, <4>2 DEF Before
    <3>3. QED
      BY <3>1, <3>2
  <2>3. /\ e.next = [d.next EXCEPT ![p] = d.next[x], ![x] = p]
        /\ e.tail = [d.tail EXCEPT ![q] = IF last THEN p ELSE t]
    BY <1>1, <1>3 DEF RingsTyped, Enqueue, Fields
  <2> HIDE DEF e, S, x, last, t
  <2>4. Queue([d.next EXCEPT ![p] = d.next[x], ![x] = p], d.pri, S \cup {p},
              IF last THEN p ELSE t)
    BY <1>1, <2>2, QueueInsert DEF RingsTyped
  <2>5. e.tail[q] = IF last THEN p ELSE t
    BY <1>1, <2>3 DEF RingsTyped
  <2>6. Queue(e.next, d.pri, S \cup {p}, e.tail[q])
    BY <2>3, <2>4, <2>5
  <2>7. d.next[x] \in Psb /\ t \in Psb /\ x \in Psb
    BY <1>1, <2>1, <2>2 DEF RingsTyped
  <2>8. PlacedIn(d, e, S, t, p, q)
    BY <2>2, <2>3, <2>5 DEF PlacedIn, Spot
  <2>9. QED
    BY <1>1, <2>2, <2>3, <2>6, <2>7, <2>8 DEF Hooked, RingsTyped, e, S, t
<1>4. QED
  BY <1>2, <1>3

(* Enqueue: the queue gains p, no other changes. *)
LEMMA EnqueueRings ==
  ASSUME NEW d, NEW h, NEW w, NEW T, Rings(d, h, w, T), NEW p \in Psb, h[p] = Nil,
         NEW q \in Queues,
         q \in Conditions => ~ Stale(d, q) /\ d.cleanup[p] = Null /\ w[p] = q
  PROVE  LET e == Enqueue(d, q, p)
         IN  /\ Rings(e, [h EXCEPT ![p] = q], w, [T EXCEPT ![q] = e.tail[q]])
             /\ e.cleanup = d.cleanup
             /\ \A c \in Conditions : ~ Stale(d, c) => ~ Stale(e, c)
             /\ \A r \in Queues \ {q} : e.tail[r] = d.tail[r]
<1> DEFINE e == Enqueue(d, q, p)
           S == Members(h, q)
           h2 == [h EXCEPT ![p] = q]
           T2 == [T EXCEPT ![q] = e.tail[q]]
<1>1. /\ RingsTyped(d, h, T) /\ S \in SUBSET Psb /\ p \in Psb \ S
      /\ \A r \in Queues : p \notin Members(h, r)
  BY QueuesAssumption DEF Rings, RingsTyped, Members
<1>2. /\ e.next \in [Psb -> Psb]
      /\ e.tail \in [Queues -> Psb \cup {Null}]
      /\ \A y \in Psb \ (S \cup {p}) : e.next[y] = d.next[y]
      /\ \A r \in Queues \ {q} : e.tail[r] = d.tail[r]
      /\ Queue(e.next, d.pri, S \cup {p}, e.tail[q])
  <2>1. Hooked(d, h, T, p, q, e)
    BY EnqueuePlaces
  <2> HIDE DEF e
  <2>2. QED
    BY <2>1 DEF Hooked
<1>3. DOMAIN e = Fields /\ e.pri = d.pri /\ e.cleanup = d.cleanup
  BY <1>1 DEF RingsTyped, Enqueue, Fields
<1> HIDE DEF e
<1>4. /\ Members(h2, q) = S \cup {p}
      /\ \A r \in Queues \ {q} : Members(h2, r) = Members(h, r)
  BY <1>1, QueuesAssumption DEF Members, RingsTyped
<1>5. T2[q] = e.tail[q] /\ \A r \in Queues \ {q} : T2[r] = T[r]
  BY <1>1 DEF RingsTyped
<1>6. RingsTyped(e, h2, T2)
  BY <1>1, <1>2, <1>3 DEF RingsTyped
<1> HIDE DEF T2
<1>7. ASSUME NEW r \in Queues PROVE Queue(e.next, e.pri, Members(h2, r), T2[r])
  <2>1. CASE r = q
    BY <1>2, <1>3, <1>4, <1>5, <2>1
  <2>2. CASE r # q
    <3>1. \A y \in Members(h, r) : e.next[y] = d.next[y]
      BY <1>1, <1>2, <2>2 DEF Members
    <3>2. Queue(d.next, d.pri, Members(h, r), T[r])
      BY DEF Rings
    <3>3. Queue(e.next, d.pri, Members(h, r), T[r])
      BY <3>1, <3>2, QueueSame
    <3>4. QED
      BY <1>3, <1>4, <1>5, <2>2, <3>3
  <2>3. QED
    BY <2>1, <2>2
<1>8. \A c \in Conditions \ {q} : Stale(e, c) <=> Stale(d, c)
  BY <1>2, <1>3 DEF Stale, Queues
<1>9. ASSUME q \in Conditions PROVE ~ Stale(e, q)
  <2>1. e.tail[q] \in S \cup {p}
    BY <1>2 DEF Queue
  <2>2. QED
    BY <1>3, <1>9, <2>1 DEF Stale, Rings, Members
<1>10. ASSUME NEW c \in Conditions PROVE TailFinds(e, c, Members(h2, c), T2[c])
  <2>1. CASE c = q
    BY <1>5, <2>1 DEF TailFinds
  <2>2. CASE c # q
    <3>1. c \in Queues \ {q} /\ TailFinds(d, c, Members(h, c), T[c])
      BY <2>2 DEF Rings, Queues
    <3>2. Members(h, c) # {} => T[c] \in Psb \ (S \cup {p})
      <4>1. Queue(d.next, d.pri, Members(h, c), T[c])
        BY <3>1 DEF Rings
      <4>2. Members(h, c) # {} => T[c] \in Members(h, c)
        BY <4>1 DEF Queue
      <4>3. Members(h, c) \subseteq Psb \ (S \cup {p})
        BY <1>1, <2>2, <3>1 DEF Members
      <4>4. QED
        BY <4>2, <4>3
    <3>3. Members(h, c) # {} => e.next[T[c]] = d.next[T[c]]
      BY <1>2, <3>2
    <3>4. /\ e.tail[c] = d.tail[c] /\ T2[c] = T[c] /\ Members(h2, c) = Members(h, c)
          /\ Stale(e, c) <=> Stale(d, c)
      BY <1>2, <1>4, <1>5, <1>8, <2>2, <3>1
    <3>5. QED
      BY <1>3, <3>1, <3>3, <3>4 DEF TailFinds
  <2>3. QED
    BY <2>1, <2>2
<1>11. ASSUME NEW c \in Conditions, Stale(e, c)
       PROVE  \A y \in Reach(e.cleanup, e.tail[c]) : w[y] = c
  <2>1. c # q /\ c \in Queues
    BY <1>9, <1>11 DEF Queues
  <2>2. QED
    BY <1>2, <1>3, <1>8, <1>11, <2>1 DEF Rings
<1>12. \A y \in Psb : h2[y] \in Conditions => e.cleanup[y] = Null /\ w[y] = h2[y]
  BY <1>1, <1>3 DEF Rings, RingsTyped
<1>13. \A r \in Queues \ Conditions : e.tail[r] = T2[r]
  BY <1>2, <1>5 DEF Rings
<1>14. \A y \in Psb : e.cleanup[y] # Null => w[y] \in Conditions
  BY <1>3 DEF Rings
<1>15. Rings(e, h2, w, T2)
  BY <1>6, <1>7, <1>10, <1>11, <1>12, <1>13, <1>14 DEF Rings
<1>16. QED
  BY <1>2, <1>3, <1>8, <1>9, <1>15 DEF e, T2

(* CleanupCondition finds the tail, and changes nothing else. *)
LEMMA CleanupRings ==
  ASSUME NEW d, NEW h \in [Psb -> Queues], NEW w, NEW T, Rings(d, h, w, T),
         NEW c \in Conditions
  PROVE  LET e == CleanupCondition(d, c)
         IN  /\ Rings(e, h, w, T) /\ e.tail[c] = T[c] /\ ~ Stale(e, c)
             /\ DOMAIN e = DOMAIN d
             /\ \A n \in Fields \ {"tail", "wakeup"} : e[n] = d[n]
             /\ \A q \in Queues \ {c} : e.tail[q] = d.tail[q]
             /\ ~ Stale(d, c) => e = d
             /\ Stale(d, c) => e.wakeup \in {d.wakeup, [d.wakeup EXCEPT ![c] = FALSE]}
<1> DEFINE e == CleanupCondition(d, c)
           a == d.tail[c]
           S == Members(h, c)
           f == d.cleanup
           z == CHOOSE x \in Reach(f, a) : f[x] \in {x, Null}
<1>1. RingsTyped(d, h, T) /\ c \in Queues /\ S \in SUBSET Psb
  BY DEF Rings, Members, Queues
<1>2. CASE ~ Stale(d, c)
  <2>1. e = d /\ d.tail[c] = T[c]
    BY <1>1, <1>2, FreshTail DEF Stale, CleanupCondition
  <2>2. QED
    BY <1>2, <2>1
<1>3. CASE Stale(d, c)
  <2>1. a \in Psb /\ f[a] # Null
    BY <1>1, <1>3 DEF Stale, RingsTyped
  <2>2. Queue(d.next, d.pri, S, T[c]) /\ TailFinds(d, c, S, T[c])
    BY <1>1 DEF Rings
  <2>3. a # T[c]
    BY <2>1, <2>2, NullNoPsb DEF Queue, Rings, Members
  <2>4. PICK y \in Psb : /\ Leads(f, a, y)
                         /\ IF f[y] = Null THEN S # {} /\ y = d.next[T[c]] ELSE S = {}
    BY <2>2, <2>3 DEF TailFinds
  <2>5. z = y
    BY <2>4 DEF Leads
  <2>6. e = IF f[y] = y THEN [d EXCEPT !.wakeup[c] = FALSE, !.tail[c] = Null]
            ELSE [d EXCEPT !.tail[c] = Pred(d, y)]
    <3>1. e = IF f[z] = z THEN [d EXCEPT !.wakeup[c] = FALSE, !.tail[c] = Null]
              ELSE [d EXCEPT !.tail[c] = Pred(d, z)]
      BY <1>3 DEF Stale, CleanupCondition
    <3>2. QED
      BY <2>5, <3>1
  <2>7. f[y] = y => T[c] = Null
    BY <2>2, <2>4, NullNoPsb DEF Queue
  <2>8. f[y] # y => Pred(d, y) = T[c]
    <3>1. SUFFICES ASSUME f[y] # y PROVE Pred(d, y) = T[c]
      OBVIOUS
    <3>2. T[c] \in S /\ y = d.next[T[c]] /\ Cycle(d.next, S)
      BY <2>2, <2>4, <3>1 DEF Leads, Queue
    <3>3. y \in S
      BY <3>2 DEF Cycle
    <3>4. h[y] = c /\ \A x \in Psb : h[x] # Nil
      BY <3>3, QueuesAssumption DEF Members
    <3>5. Pred(d, y) \in S /\ d.next[Pred(d, y)] = y
      BY <3>4, DequeueFinds
    <3>6. QED
      BY <3>2, <3>5 DEF Cycle
  <2> HIDE DEF z, e
  <2>9. /\ DOMAIN e = DOMAIN d /\ e.tail = [d.tail EXCEPT ![c] = T[c]]
        /\ \A n \in Fields \ {"tail", "wakeup"} : e[n] = d[n]
        /\ e.wakeup \in {d.wakeup, [d.wakeup EXCEPT ![c] = FALSE]}
    BY <1>1, <2>6, <2>7, <2>8 DEF RingsTyped, Fields
  <2>10. e.tail[c] = T[c] /\ \A q \in Queues \ {c} : e.tail[q] = d.tail[q]
    BY <1>1, <2>9 DEF RingsTyped
  <2>11. e.next = d.next /\ e.pri = d.pri /\ e.cleanup = f /\ e.tail \in [Queues -> Psb \cup {Null}]
    BY <1>1, <2>9 DEF RingsTyped, Fields
  <2>12. ~ Stale(e, c)
    BY <1>1, <2>2, <2>10, <2>11 DEF Stale, Queue, Rings, Members
  <2>13. \A b \in Conditions \ {c} : Stale(e, b) <=> Stale(d, b)
    BY <2>10, <2>11 DEF Stale, Queues
  <2>14. RingsTyped(e, h, T)
    BY <1>1, <2>9, <2>11 DEF RingsTyped
  <2>15. ASSUME NEW b \in Conditions PROVE TailFinds(e, b, Members(h, b), T[b])
    <3>1. CASE b = c
      BY <2>10, <3>1 DEF TailFinds
    <3>2. CASE b # c
      BY <2>10, <2>11, <2>13, <3>2 DEF TailFinds, Rings, Queues
    <3>3. QED
      BY <3>1, <3>2
  <2>16. ASSUME NEW b \in Conditions, Stale(e, b)
         PROVE  \A x \in Reach(e.cleanup, e.tail[b]) : w[x] = b
    BY <2>10, <2>11, <2>12, <2>13, <2>16 DEF Rings, Queues
  <2>17. \A q \in Queues \ Conditions : e.tail[q] = T[q]
    BY <2>10 DEF Rings
  <2>18. Rings(e, h, w, T)
    BY <2>11, <2>14, <2>15, <2>16, <2>17 DEF Rings
  <2>19. QED
    BY <1>3, <2>9, <2>10, <2>12, <2>18 DEF e
<1>4. QED
  BY <1>2, <1>3

-----------------------------------------------------------------------------
(* The order of the waiters.  Order says, as the state tells it, which       *)
(* processes are ahead of each on the condition it waits on; Lined what that *)
(* means for the queues.                                                     *)
Order(d) == [p \in Psb |-> AheadOf(d, p)]

Lined(A, f, h, T) ==
  /\ A \in [Psb -> SUBSET Psb]
  /\ \A c \in Conditions : Line(A, f, Members(h, c), T[c])
  /\ \A p \in Psb : h[p] \notin Conditions => A[p] = {}

(* The order that the state tells is that of the queues. *)
LEMMA LinedOrder ==
  ASSUME NEW d, NEW h \in [Psb -> Queues], NEW w, NEW T, Rings(d, h, w, T)
  PROVE  Lined(Order(d), d.next, h, T)
<1> DEFINE A == Order(d)
<1>1. ASSUME NEW c \in Conditions
      PROVE  /\ Ring(CleanupCondition(d, c), c) = Members(h, c)
             /\ \A p \in Psb : Prefix(CleanupCondition(d, c), c, p)
                               = Reach([d.next EXCEPT ![p] = Null], d.next[T[c]])
  <2> DEFINE e == CleanupCondition(d, c)
  <2>1. Rings(e, h, w, T) /\ e.tail[c] = T[c] /\ ~ Stale(e, c) /\ e.next = d.next
    BY CleanupRings DEF Fields
  <2> HIDE DEF e
  <2>2. Ring(e, c) = Members(h, c)
    BY <2>1, FreshRing DEF Queues
  <2>3. QED
    BY <2>1, <2>2 DEF e, Prefix, HeadOf
<1>2. ASSUME NEW p \in Psb, h[p] \notin Conditions PROVE A[p] = {}
  BY <1>1, <1>2 DEF Order, AheadOf, Members
<1>3. ASSUME NEW c \in Conditions, NEW p \in Members(h, c)
      PROVE  A[p] = Reach([d.next EXCEPT ![p] = Null], d.next[T[c]]) \ {p}
  <2>1. p \in Psb /\ h[p] = c
    BY <1>3 DEF Members
  <2>2. {x \in Conditions : p \in Ring(CleanupCondition(d, x), x)} = {c}
    BY <1>1, <2>1 DEF Members
  <2>3. A[p] = Prefix(CleanupCondition(d, c), c, p) \ {p}
    BY <2>1, <2>2 DEF Order, AheadOf
  <2>4. QED
    BY <1>1, <2>1, <2>3
<1> HIDE DEF A
<1>4. ASSUME NEW c \in Conditions PROVE Line(A, d.next, Members(h, c), T[c])
  <2>1. /\ Queue(d.next, d.pri, Members(h, c), T[c]) /\ Members(h, c) \in SUBSET Psb
        /\ d.next \in [Psb -> Psb]
    BY DEF Rings, RingsTyped, Queues, Members
  <2>2. CASE Members(h, c) = {}
    BY <2>2 DEF Line
  <2>3. CASE Members(h, c) # {}
    BY <1>3, <2>1, <2>3, LineWalk DEF Queue
  <2>4. QED
    BY <2>2, <2>3
<1>5. A \in [Psb -> SUBSET Psb]
  <2>1. ASSUME NEW p \in Psb PROVE A[p] \in SUBSET Psb
    BY <1>2, <1>3 DEF Reach, Members
  <2>2. QED
    BY <2>1 DEF A, Order
<1>6. QED
  BY <1>2, <1>4, <1>5 DEF Lined, A

(* And there is no other. *)
LEMMA LinedUnique ==
  ASSUME NEW d, NEW h, NEW w, NEW T, Rings(d, h, w, T),
         NEW A, Lined(A, d.next, h, T), NEW B, Lined(B, d.next, h, T)
  PROVE  A = B
<1>1. ASSUME NEW p \in Psb PROVE A[p] = B[p]
  <2>1. CASE h[p] \notin Conditions
    BY <2>1 DEF Lined
  <2>2. CASE h[p] \in Conditions
    <3> DEFINE c == h[p]
               S == Members(h, c)
    <3>1. /\ Line(A, d.next, S, T[c]) /\ Line(B, d.next, S, T[c])
          /\ Queue(d.next, d.pri, S, T[c]) /\ p \in S
      BY <2>2 DEF Lined, Rings, Queues, Members
    <3> HIDE DEF S, c
    <3>2. QED
      BY <3>1, LineUnique DEF Queue
  <2>3. QED
    BY <2>1, <2>2
<1>2. A \in [Psb -> SUBSET Psb] /\ B \in [Psb -> SUBSET Psb]
  BY DEF Lined
<1>3. QED
  BY <1>1, <1>2

(* Each process is ahead of others only on its own condition. *)
LEMMA LinedWithin ==
  ASSUME NEW d, NEW h, NEW w, NEW T, Rings(d, h, w, T), NEW A, Lined(A, d.next, h, T),
         NEW p \in Psb, NEW y \in A[p]
  PROVE  h[p] \in Conditions /\ y \in Psb /\ h[y] = h[p]
<1>1. h[p] \in Conditions
  BY DEF Lined
<1>2. Line(A, d.next, Members(h, h[p]), T[h[p]]) /\ p \in Members(h, h[p])
  BY <1>1 DEF Lined, Members
<1>3. Queue(d.next, d.pri, Members(h, h[p]), T[h[p]])
  BY <1>1 DEF Rings, Queues
<1>4. A[p] \subseteq Members(h, h[p])
  BY <1>2, <1>3, LineWithin DEF Queue
<1>5. QED
  BY <1>1, <1>4 DEF Members

(* PDAs with the same queues have the same order. *)
LEMMA OrderSame ==
  ASSUME NEW d, NEW e, NEW h \in [Psb -> Queues], NEW w, NEW v, NEW T,
         Rings(d, h, w, T), Rings(e, h, v, T), e.next = d.next
  PROVE  Order(e) = Order(d)
<1>1. Lined(Order(d), d.next, h, T) /\ Lined(Order(e), d.next, h, T)
  BY LinedOrder
<1>2. QED
  BY <1>1, LinedUnique

(* So have PDAs whose links, tails and cleanup links are the same. *)
LEMMA OrderFields ==
  ASSUME NEW d, NEW e, DOMAIN d = Fields, DOMAIN e = Fields,
         e.next = d.next, e.cleanup = d.cleanup, e.tail = d.tail
  PROVE  Order(e) = Order(d)
<1>1. ASSUME NEW c \in Conditions
      PROVE  /\ CleanupCondition(e, c).next = CleanupCondition(d, c).next
             /\ CleanupCondition(e, c).tail = CleanupCondition(d, c).tail
  BY DEF CleanupCondition, Pred, Fields
<1>2. ASSUME NEW c \in Conditions
      PROVE  /\ Ring(CleanupCondition(e, c), c) = Ring(CleanupCondition(d, c), c)
             /\ \A p \in Psb : Prefix(CleanupCondition(e, c), c, p)
                              = Prefix(CleanupCondition(d, c), c, p)
  BY <1>1 DEF Ring, Prefix, HeadOf
<1>3. ASSUME NEW p \in Psb PROVE AheadOf(e, p) = AheadOf(d, p)
  BY <1>2 DEF AheadOf
<1>4. QED
  BY <1>3 DEF Order

(* Nobody is ahead of others, or behind them, who is on no condition. *)
LEMMA GoneNone ==
  ASSUME NEW d, NEW h \in [Psb -> Queues], NEW w, Orderly(d, h, w),
         NEW X \in SUBSET Psb, \A p \in X : h[p] \notin Conditions
  PROVE  Gone(Order(d), X) = Order(d)
<1>1. PICK T \in [Queues -> Psb \cup {Null}] : Rings(d, h, w, T)
  BY DEF Orderly
<1>2. Lined(Order(d), d.next, h, T)
  BY <1>1, LinedOrder
<1> DEFINE A == Order(d)
<1>3. A \in [Psb -> SUBSET Psb] /\ \A y \in Psb : h[y] \notin Conditions => A[y] = {}
  BY <1>2 DEF Lined
<1>4. \A y \in Psb : \A x \in A[y] : h[x] \in Conditions
  BY <1>1, <1>2, LinedWithin
<1> HIDE DEF A
<1>5. Gone(A, X) = A
  BY <1>3, <1>4 DEF Gone
<1>6. QED
  BY <1>5 DEF A

(* Taking some out and then others takes all of them out. *)
LEMMA GoneTwice ==
  ASSUME NEW A, NEW X \in SUBSET Psb, NEW Y \in SUBSET Psb
  PROVE  Gone(Gone(A, X), Y) = Gone(A, X \cup Y)
<1>1. ASSUME NEW y \in Psb PROVE Gone(Gone(A, X), Y)[y] = Gone(A, X \cup Y)[y]
  BY DEF Gone
<1>2. QED
  BY <1>1, Zenon DEF Gone

(* Dequeue takes p out of the order. *)
LEMMA DequeueLined ==
  ASSUME NEW d, NEW h \in [Psb -> Queues], NEW w, NEW T, Rings(d, h, w, T), NEW p \in Psb,
         NEW src, NEW A, Lined(A, d.next, h, T)
  PROVE  Lined(Gone(A, {p}), Dequeue(d, src, p).next, [h EXCEPT ![p] = Nil],
               TailWithout(d, T, h[p], p))
<1> DEFINE q == h[p]
           g == Dequeue(d, src, p).next
           h2 == [h EXCEPT ![p] = Nil]
           T2 == TailWithout(d, T, q, p)
           B == Gone(A, {p})
           S == Members(h, q)
           x == Pred(d, p)
<1>1. /\ q \in Queues /\ \A y \in Psb : h[y] # Nil
      /\ p \in S /\ S \in SUBSET Psb /\ RingsTyped(d, h, T)
  BY QueuesAssumption DEF Rings, Members
<1>2. /\ Members(h2, q) = S \ {p}
      /\ \A r \in Queues \ {q} : Members(h2, r) = Members(h, r)
      /\ \A y \in Psb \ S : g[y] = d.next[y]
      /\ g = IF d.next[p] = p THEN d.next ELSE [d.next EXCEPT ![x] = d.next[p]]
  <2>1. \A y \in Psb : h[y] # Nil
    BY <1>1
  <2>2. Unhooked(d, h, T, p, Dequeue(d, src, p))
    BY <2>1, DequeueQueues
  <2>3. QED
    BY <2>2 DEF Unhooked
<1>3. x \in S /\ d.next[x] = p /\ d.next[p] \in S /\ (d.next[p] = p => S = {p})
  BY <1>1, DequeueFinds
<1>4. T2 = [T EXCEPT ![q] = IF d.next[p] = p THEN Null ELSE IF T[q] = p THEN x ELSE T[q]]
  BY DEF TailWithout
<1>5. \A r \in Queues : Queue(d.next, d.pri, Members(h, r), T[r])
  BY DEF Rings
<1>6. \A y \in Psb \ S : B[y] = A[y]
  <2>1. ASSUME NEW y \in Psb \ S PROVE p \notin A[y]
    BY <1>1, <2>1, LinedWithin DEF Members
  <2>2. QED
    BY <1>1, <2>1 DEF Gone
<1> HIDE DEF g, T2, B
<1>7. ASSUME NEW c \in Conditions \ {q} PROVE Line(B, g, Members(h2, c), T2[c])
  <2>1. c \in Queues \ {q} /\ Members(h2, c) = Members(h, c) /\ T2[c] = T[c]
    BY <1>1, <1>2, <1>4, <1>7 DEF Queues, RingsTyped
  <2>2. \A y \in Members(h, c) : g[y] = d.next[y] /\ B[y] = A[y]
    BY <1>2, <1>6, <2>1 DEF Members
  <2>3. Line(A, d.next, Members(h, c), T[c]) /\ Queue(d.next, d.pri, Members(h, c), T[c])
    BY <1>5, <2>1 DEF Lined
  <2>4. Line(B, g, Members(h, c), T[c])
    BY <2>2, <2>3, LineSame DEF Queue
  <2>5. QED
    BY <2>1, <2>4
<1>8. ASSUME q \in Conditions PROVE Line(B, g, Members(h2, q), T2[q])
  <2>1. CASE d.next[p] = p
    BY <1>2, <1>3, <2>1 DEF Line
  <2>2. CASE d.next[p] # p
    <3>1. T2[q] = IF T[q] = p THEN x ELSE T[q]
      BY <1>1, <1>4, <2>2 DEF RingsTyped
    <3>2. /\ d.next \in [Psb -> Psb] /\ Line(A, d.next, S, T[q]) /\ T[q] \in S
          /\ Cycle(d.next, S)
      BY <1>1, <1>5, <1>8 DEF Lined, RingsTyped, Queue
    <3> HIDE DEF S, q, x
    <3>3. Line(Gone(A, {p}), [d.next EXCEPT ![x] = d.next[p]], S \ {p},
               IF T[q] = p THEN x ELSE T[q])
      BY <1>1, <1>3, <2>2, <3>2, LineRemove
    <3>4. QED
      BY <1>2, <2>2, <3>1, <3>3 DEF B
  <2>3. QED
    BY <2>1, <2>2
<1>9. ASSUME NEW y \in Psb, h2[y] \notin Conditions PROVE B[y] = {}
  <2>1. CASE y = p
    BY <2>1 DEF B, Gone
  <2>2. CASE y # p
    BY <1>9, <2>2 DEF B, Gone, Lined
  <2>3. QED
    BY <2>1, <2>2
<1>10. B \in [Psb -> SUBSET Psb]
  BY DEF B, Gone, Lined
<1>11. QED
  BY <1>7, <1>8, <1>9, <1>10 DEF Lined, B, g, T2

(* Enqueue puts p where it belongs in the order, if it goes to a condition.  *)
LEMMA EnqueueLined ==
  ASSUME NEW d, NEW h, NEW w, NEW T, Rings(d, h, w, T), NEW p \in Psb, h[p] = Nil,
         NEW q \in Queues, q \in Conditions => ~ Stale(d, q), NEW A, Lined(A, d.next, h, T)
  PROVE  LET e == Enqueue(d, q, p)
         IN  Lined(IF q \in Conditions THEN Behind(A, d.pri, Members(h, q), p) ELSE A,
                   e.next, [h EXCEPT ![p] = q], [T EXCEPT ![q] = e.tail[q]])
<1> DEFINE e == Enqueue(d, q, p)
           S == Members(h, q)
           h2 == [h EXCEPT ![p] = q]
           T2 == [T EXCEPT ![q] = e.tail[q]]
           B == IF q \in Conditions THEN Behind(A, d.pri, S, p) ELSE A
<1>1. /\ RingsTyped(d, h, T) /\ S \in SUBSET Psb /\ p \in Psb \ S
      /\ \A r \in Queues : p \notin Members(h, r) /\ Members(h, r) \in SUBSET Psb
  BY QueuesAssumption DEF Rings, RingsTyped, Members
<1>2. /\ \A y \in Psb \ (S \cup {p}) : e.next[y] = d.next[y]
      /\ PlacedIn(d, e, S, T[q], p, q)
  <2>1. Hooked(d, h, T, p, q, Enqueue(d, q, p))
    BY EnqueuePlaces
  <2>2. QED
    BY <2>1 DEF Hooked
<1> HIDE DEF e
<1>3. /\ Members(h2, q) = S \cup {p}
      /\ \A r \in Queues \ {q} : Members(h2, r) = Members(h, r)
  BY <1>1, QueuesAssumption DEF Members, RingsTyped
<1>4. T2[q] = e.tail[q] /\ \A r \in Queues \ {q} : T2[r] = T[r]
  BY <1>1 DEF RingsTyped
<1>5. \A r \in Queues : Queue(d.next, d.pri, Members(h, r), T[r])
  BY DEF Rings
<1>6. A \in [Psb -> SUBSET Psb]
  BY DEF Lined
<1>7. B \in [Psb -> SUBSET Psb]
  <2>1. Behind(A, d.pri, S, p) \in [Psb -> SUBSET Psb]
    BY <1>1, <1>6 DEF Behind
  <2>2. QED
    BY <1>6, <2>1
<1>8. \A y \in Psb \ (S \cup {p}) : B[y] = A[y]
  BY DEF Behind
<1> HIDE DEF T2, B
<1>9. ASSUME NEW c \in Conditions \ {q} PROVE Line(B, e.next, Members(h2, c), T2[c])
  <2>1. c \in Queues \ {q} /\ Members(h2, c) = Members(h, c) /\ T2[c] = T[c]
    BY <1>3, <1>4, <1>9 DEF Queues
  <2>2. \A y \in Members(h, c) : e.next[y] = d.next[y] /\ B[y] = A[y]
    BY <1>1, <1>2, <1>8, <2>1 DEF Members
  <2>3. Line(A, d.next, Members(h, c), T[c]) /\ Queue(d.next, d.pri, Members(h, c), T[c])
    BY <1>5, <2>1 DEF Lined
  <2>4. Line(B, e.next, Members(h, c), T[c])
    BY <2>2, <2>3, LineSame DEF Queue
  <2>5. QED
    BY <2>1, <2>4
<1>10. ASSUME q \in Conditions PROVE Line(B, e.next, Members(h2, q), T2[q])
  <2>1. B = Behind(A, d.pri, S, p) /\ Queue(d.next, d.pri, S, T[q]) /\ Line(A, d.next, S, T[q])
    BY <1>5, <1>10 DEF B, Lined
  <2>2. CASE S = {} /\ e.next = [d.next EXCEPT ![p] = p] /\ e.tail[q] = p
    <3>1. e.next[p] = p /\ S = {}
      BY <1>1, <2>2 DEF RingsTyped
    <3> HIDE DEF S
    <3>2. Line(Behind(A, d.pri, {}, p), e.next, {p}, p)
      BY <3>1, LineSingle
    <3>3. QED
      BY <1>3, <1>4, <2>1, <2>2, <3>1, <3>2
  <2>3. ASSUME NEW x \in S, NEW last \in BOOLEAN, S # {}, Spot(d.next, d.pri, T[q], p, x, last),
               e.next = [d.next EXCEPT ![p] = d.next[x], ![x] = p],
               e.tail[q] = IF last THEN p ELSE T[q]
        PROVE  Line(B, e.next, Members(h2, q), T2[q])
    <3> DEFINE f == d.next
               t == T[q]
               pri == d.pri
    <3>1. /\ f \in [Psb -> Psb] /\ pri \in [Psb -> Priority] /\ t \in S
          /\ Queue(f, pri, S, t) /\ Line(A, f, S, t)
          /\ last => x = t /\ pri[p] <= pri[t]
          /\ ~ last => (x = t \/ pri[x] >= pri[p]) /\ pri[f[x]] < pri[p]
      BY <1>1, <2>1, <2>3 DEF RingsTyped, Queue, Spot
    <3> HIDE DEF f, t, pri, S
    <3>2. Line(Behind(A, pri, S, p), [f EXCEPT ![p] = f[x], ![x] = p], S \cup {p},
               IF last THEN p ELSE t)
      BY <1>1, <2>3, <3>1, LineInsert
    <3>3. QED
      BY <1>3, <1>4, <2>1, <2>3, <3>2 DEF f, t, pri
  <2>4. QED
    BY <1>2, <2>2, <2>3 DEF PlacedIn
<1>11. ASSUME NEW y \in Psb, h2[y] \notin Conditions PROVE B[y] = {}
  <2>1. CASE y = p
    <3>1. q \notin Conditions /\ h[p] \notin Conditions
      BY <1>1, <1>11, <2>1, QueuesAssumption DEF RingsTyped, Queues
    <3>2. QED
      BY <2>1, <3>1 DEF Lined, B
  <2>2. CASE y # p
    <3>1. h2[y] = h[y]
      BY <2>2
    <3>2. A[y] = {} /\ (q \in Conditions => y \notin S)
      BY <1>11, <3>1 DEF Lined, Members
    <3>3. QED
      BY <2>2, <3>2 DEF B, Behind
  <2>3. QED
    BY <2>1, <2>2
<1>12. QED
  BY <1>7, <1>9, <1>10, <1>11 DEF Lined, B, T2, e

(* What a move of p to queue q makes of the order of PDA d. *)
OrderMoved(d, h, q, p) ==
  IF q \in Conditions THEN Behind(Gone(Order(d), {p}), d.pri, Members(h, q) \ {p}, p)
  ELSE Gone(Order(d), {p})

(* Both steps of a move leave the queues in order. *)
Movable(d, h, w, T, src, q, p) ==
  LET e1 == Dequeue(d, src, p)
      h1 == [h EXCEPT ![p] = Nil]
      T1 == TailWithout(d, T, h[p], p)
      e  == Enqueue(e1, q, p)
  IN  /\ Rings(d, h, w, T) /\ Rings(e1, h1, w, T1) /\ e1.pri = d.pri
      /\ q \in Conditions => ~ Stale(e1, q)
      /\ Rings(e, [h1 EXCEPT ![p] = q], w, [T1 EXCEPT ![q] = e.tail[q]])

(* The order after a move. *)
LEMMA RequeueOrder ==
  ASSUME NEW d, NEW h \in [Psb -> Queues], NEW w, NEW T, NEW p \in Psb,
         NEW src, NEW q \in Queues, Movable(d, h, w, T, src, q, p)
  PROVE  Order(Requeue(d, src, q, p)) = OrderMoved(d, h, q, p)
<1> DEFINE e1 == Dequeue(d, src, p)
           h1 == [h EXCEPT ![p] = Nil]
           T1 == TailWithout(d, T, h[p], p)
           e  == Enqueue(e1, q, p)
<1>a. e = Requeue(d, src, q, p)
  BY DEF Requeue
<1>b. /\ Rings(d, h, w, T) /\ Rings(e1, h1, w, T1) /\ e1.pri = d.pri
      /\ q \in Conditions => ~ Stale(e1, q)
      /\ Rings(e, [h1 EXCEPT ![p] = q], w, [T1 EXCEPT ![q] = e.tail[q]])
  BY DEF Movable
<1>c. /\ e1 = Dequeue(d, src, p) /\ h1 = [h EXCEPT ![p] = Nil]
      /\ T1 = TailWithout(d, T, h[p], p) /\ e = Enqueue(e1, q, p)
  OBVIOUS
<1> HIDE DEF e, e1, h1, T1
<1> DEFINE A == Order(d)
           h2 == [h1 EXCEPT ![p] = q]
           T2 == [T1 EXCEPT ![q] = e.tail[q]]
           B == IF q \in Conditions THEN Behind(Gone(A, {p}), e1.pri, Members(h1, q), p)
                ELSE Gone(A, {p})
<1>1. Lined(A, d.next, h, T)
  BY <1>b, LinedOrder
<1> HIDE DEF A
<1>2. Lined(Gone(A, {p}), e1.next, h1, T1)
  BY <1>1, <1>b, <1>c, DequeueLined
<1>3. h1[p] = Nil
  BY <1>c
<1>4. Lined(B, e.next, h2, T2)
  BY <1>2, <1>3, <1>b, <1>c, EnqueueLined
<1>5. h2 \in [Psb -> Queues]
  BY <1>c
<1>6. Lined(Order(e), e.next, h2, T2)
  BY <1>5, <1>b, LinedOrder
<1>7. Order(e) = B
  <2> HIDE DEF B, h2, T2
  <2>1. Rings(e, h2, w, T2)
    BY <1>b DEF h2, T2
  <2>2. QED
    BY <1>4, <1>6, <2>1, LinedUnique
<1>8. Members(h1, q) = Members(h, q) \ {p}
  BY <1>c, QueuesAssumption DEF Members
<1>9. QED
  BY <1>7, <1>8, <1>a, <1>b DEF OrderMoved, A

(* Requeue of a process whose queue is told, and of one that leaves a        *)
(* condition that is not.                                                   *)
LEMMA RequeueTold ==
  ASSUME NEW d, NEW h \in [Psb -> Queues], NEW w, Orderly(d, h, w), NEW p \in Psb,
         h[p] \in Conditions => ~ Stale(d, h[p]),
         NEW q \in Queues,
         q \in Conditions => ~ Stale(d, q) /\ d.cleanup[p] = Null /\ w[p] = q
  PROVE  LET e == Requeue(d, h[p], q, p)
         IN  /\ Orderly(e, [h EXCEPT ![p] = q], w) /\ Relinked(d, e)
             /\ \A c \in Conditions : ~ Stale(d, c) => ~ Stale(e, c)
             /\ EmptyStays(d, e, q) /\ Order(e) = OrderMoved(d, h, q, p)
<1> DEFINE e1 == Dequeue(d, h[p], p)
           e  == Enqueue(e1, q, p)
           h1 == [h EXCEPT ![p] = Nil]
           h2 == [h EXCEPT ![p] = q]
<1>1. PICK T \in [Queues -> Psb \cup {Null}] : Rings(d, h, w, T)
  BY DEF Orderly
<1>2. \A y \in Psb : h[y] # Nil
  BY QueuesAssumption
<1> DEFINE T1 == TailWithout(d, T, h[p], p)
<1>3. Rings(e1, h1, w, T1)
  BY <1>1, <1>2, DequeueTold
<1>4. /\ e1.cleanup = d.cleanup
      /\ \A c \in Conditions : ~ Stale(d, c) => ~ Stale(e1, c)
  BY <1>1, <1>2, DequeueTold
<1>5. h1[p] = Nil
  OBVIOUS
<1>6. [h1 EXCEPT ![p] = q] = h2
  OBVIOUS
<1>7. \A r \in Queues : d.tail[r] = Null => e1.tail[r] = Null
  BY <1>1, NullNoPsb DEF Rings, RingsTyped, Dequeue, Fields
<1>8. DOMAIN d = Fields /\ DOMAIN e1 = Fields
  BY <1>1, <1>3 DEF Rings, RingsTyped
<1>9. Relinked(d, e1) /\ Relinked(e1, e)
  BY <1>8, DequeueRelinks, EnqueueRelinks
<1> HIDE DEF e1, h1, T1
<1>10. q \in Conditions => ~ Stale(e1, q) /\ e1.cleanup[p] = Null /\ w[p] = q
  BY <1>4
<1>11. /\ Rings(e, [h1 EXCEPT ![p] = q], w, [T1 EXCEPT ![q] = e.tail[q]])
       /\ e.cleanup = e1.cleanup
       /\ \A c \in Conditions : ~ Stale(e1, c) => ~ Stale(e, c)
       /\ \A r \in Queues \ {q} : e.tail[r] = e1.tail[r]
  BY <1>3, <1>5, <1>10, EnqueueRings
<1> HIDE DEF e, h2
<1>12. Orderly(e, h2, w)
  BY <1>6, <1>11 DEF Orderly, Rings, RingsTyped
<1>13. Relinked(d, e)
  BY <1>9 DEF Relinked
<1>14. e = Requeue(d, h[p], q, p)
  BY DEF Requeue, e, e1
<1>15. e1.pri = d.pri
  BY <1>9 DEF Relinked, Fields
<1>16. Order(e) = OrderMoved(d, h, q, p)
  <2>1. Movable(d, h, w, T, h[p], q, p)
    BY <1>1, <1>3, <1>10, <1>11, <1>15, Zenon DEF Movable, e1, h1, T1, e
  <2>2. QED
    BY <1>14, <2>1, RequeueOrder
<1>17. QED
  BY <1>4, <1>7, <1>11, <1>12, <1>13, <1>14, <1>16 DEF h2, EmptyStays

(* Requeue with no source, as a timeout or an abort calls it, takes the      *)
(* process out of a condition whose tail then goes stale, and puts it on a   *)
(* queue that is no condition.                                               *)
LEMMA RequeueUntold ==
  ASSUME NEW d, NEW h \in [Psb -> Queues], NEW w, Orderly(d, h, w), NEW p \in Psb,
         h[p] \in Conditions, NEW q \in Queues \ Conditions
  PROVE  LET e == Requeue(d, Nil, q, p)
         IN  /\ Orderly(e, [h EXCEPT ![p] = q], w) /\ Relinked(d, e)
             /\ EmptyStays(d, e, q) /\ Order(e) = OrderMoved(d, h, q, p)
<1> DEFINE e1 == Dequeue(d, Nil, p)
           e  == Enqueue(e1, q, p)
           h1 == [h EXCEPT ![p] = Nil]
           h2 == [h EXCEPT ![p] = q]
<1>1. PICK T \in [Queues -> Psb \cup {Null}] : Rings(d, h, w, T)
  BY DEF Orderly
<1>2. \A y \in Psb : h[y] # Nil
  BY QueuesAssumption
<1> DEFINE T1 == TailWithout(d, T, h[p], p)
<1>3. Rings(e1, h1, w, T1)
  BY <1>1, <1>2, DequeueUntold
<1>4. h1[p] = Nil
  OBVIOUS
<1>5. [h1 EXCEPT ![p] = q] = h2
  OBVIOUS
<1>6. e1.tail = d.tail
  BY <1>1 DEF Rings, RingsTyped, Dequeue, Fields
<1>7. DOMAIN d = Fields /\ DOMAIN e1 = Fields
  BY <1>1, <1>3 DEF Rings, RingsTyped
<1>8. Relinked(d, e1) /\ Relinked(e1, e)
  BY <1>7, DequeueRelinks, EnqueueRelinks
<1> HIDE DEF e1, h1, T1
<1>9. q \in Queues /\ q \notin Conditions
  OBVIOUS
<1>10. /\ Rings(e, [h1 EXCEPT ![p] = q], w, [T1 EXCEPT ![q] = e.tail[q]])
       /\ e.cleanup = e1.cleanup
       /\ \A c \in Conditions : ~ Stale(e1, c) => ~ Stale(e, c)
       /\ \A r \in Queues \ {q} : e.tail[r] = e1.tail[r]
  BY <1>3, <1>4, <1>9, EnqueueRings
<1> HIDE DEF e, h2
<1>11. Orderly(e, h2, w)
  BY <1>5, <1>10 DEF Orderly, Rings, RingsTyped
<1>12. Relinked(d, e)
  BY <1>8 DEF Relinked
<1>13. e = Requeue(d, Nil, q, p)
  BY DEF Requeue, e, e1
<1>14. e1.pri = d.pri
  BY <1>8 DEF Relinked, Fields
<1>15. Order(e) = OrderMoved(d, h, q, p)
  <2>1. Movable(d, h, w, T, Nil, q, p)
    BY <1>1, <1>3, <1>9, <1>10, <1>14, Zenon DEF Movable, e1, h1, T1, e
  <2>2. QED
    BY <1>13, <2>1, RequeueOrder
<1>16. QED
  BY <1>6, <1>10, <1>11, <1>12, <1>13, <1>15 DEF h2, EmptyStays

-----------------------------------------------------------------------------
(* The loops of E_BC, Interrupt and TimeoutScan: each has a value, reached   *)
(* from d in as many rounds as there are processes or levels.               *)

(* Induction along an interval, from the well-foundedness of finite sets. *)
LEMMA IntervalInduction ==
  ASSUME NEW n \in Nat, NEW T \in SUBSET (0 .. n), 0 \in T,
         \A k \in 0 .. n - 1 : k \in T => k + 1 \in T
  PROVE  T = 0 .. n
<1> SUFFICES ASSUME NEW j \in 0 .. n, j \notin T PROVE FALSE
  OBVIOUS
<1> DEFINE Missed == {S \in SUBSET (0 .. n) : \E k \in 0 .. n : S = 0 .. k /\ k \notin T}
           Less == StrictSubsetOrdering(0 .. n)
<1>1. IsWellFoundedOn(Less, SUBSET (0 .. n))
  <2>1. IsFiniteSet(0 .. n)
    BY FS_Interval
  <2>2. QED
    BY <2>1, FS_StrictSubsetOrderingWellFounded, FS_FiniteSubsetsOfFinite
<1>2. 0 .. j \in Missed
  OBVIOUS
<1>3. PICK S \in Missed : \A U \in Missed : <<U, S>> \notin Less
  <2> HIDE DEF Less
  <2>1. Missed \subseteq SUBSET (0 .. n)
    OBVIOUS
  <2> HIDE DEF Missed
  <2>2. QED
    BY <1>1, <1>2, <2>1, WFMin
<1>4. PICK k \in 0 .. n : S = 0 .. k /\ k \notin T
  OBVIOUS
<1>5. k # 0 /\ k - 1 \in 0 .. n - 1 /\ k - 1 \notin T
  BY <1>4
<1>6. 0 .. k - 1 \in Missed
  BY <1>5
<1>7. <<0 .. k - 1, S>> \in Less
  BY <1>4, <1>5 DEF StrictSubsetOrdering
<1>8. QED
  BY <1>3, <1>6, <1>7

(* The loop of E_BC. *)
WakeAllRun(run, d, c) ==
  /\ run[0] = d /\ WakeAll(d, c) = run[NPsb]
  /\ \A k \in 0 .. NPsb - 1 : run[k + 1] = IF HasQueue(run[k], c) THEN WakeHead(run[k], c) ELSE run[k]

(* It has a value. *)
LEMMA WakeAllRuns ==
  ASSUME NEW d, NEW c
  PROVE  \E run : WakeAllRun(run, d, c)
<1> DEFINE Step(e, k) == IF HasQueue(e, c) THEN WakeHead(e, c) ELSE e
           IsRun(f, n) == f = [k \in 0 .. n |-> IF k = 0 THEN d ELSE Step(f[k-1], k)]
           Runs == {n \in 0 .. NPsb : \E f : IsRun(f, n)}
           run == CHOOSE f : IsRun(f, NPsb)
<1>1. NPsb \in Nat
  BY SizesAssumption
<1>2. WakeAll(d, c) = run[NPsb]
  BY DEF WakeAll
<1>3. \A e, k : Step(e, k) = IF HasQueue(e, c) THEN WakeHead(e, c) ELSE e
  OBVIOUS
<1> HIDE DEF Step
<1>4. Runs = 0 .. NPsb
  <2>1. 0 \in Runs
    <3>1. IsRun([k \in 0 .. 0 |-> d], 0)
      OBVIOUS
    <3> HIDE DEF IsRun
    <3>2. QED
      BY <1>1, <3>1
  <2>2. ASSUME NEW n \in 0 .. NPsb - 1, n \in Runs PROVE n + 1 \in Runs
    <3>1. PICK f : IsRun(f, n)
      BY <2>2
    <3> DEFINE g == [k \in 0 .. n + 1 |-> IF k <= n THEN f[k] ELSE Step(f[n], n + 1)]
    <3>2. ASSUME NEW k \in 0 .. n + 1
          PROVE  g[k] = IF k = 0 THEN d ELSE Step(g[k-1], k)
      BY <1>1, <3>1
    <3>3. IsRun(g, n + 1)
      BY <3>2
    <3> HIDE DEF IsRun, g
    <3>4. QED
      BY <1>1, <3>3
  <2>3. QED
    <3> HIDE DEF IsRun
    <3>1. Runs \in SUBSET (0 .. NPsb)
      OBVIOUS
    <3> HIDE DEF Runs
    <3>2. QED
      BY <1>1, <2>1, <2>2, <3>1, IntervalInduction
<1>5. IsRun(run, NPsb)
  <2> HIDE DEF IsRun
  <2>1. QED
    BY <1>1, <1>4
<1>6. \A k \in 0 .. NPsb : run[k] = IF k = 0 THEN d ELSE Step(run[k-1], k)
  <2> HIDE DEF run
  <2>1. QED
    BY <1>5
<1> HIDE DEF run
<1>7. run[0] = d
  BY <1>1, <1>6
<1>8. ASSUME NEW k \in 0 .. NPsb - 1 PROVE run[k + 1] = Step(run[k], k + 1)
  <2>1. k + 1 \in 0 .. NPsb /\ k + 1 # 0 /\ (k + 1) - 1 = k
    BY <1>1
  <2>2. QED
    BY <1>6, <2>1
<1>9. QED
  BY <1>2, <1>3, <1>7, <1>8 DEF WakeAllRun

(* The loop of Interrupt. *)
InterruptRun(run, d, conds, wakeups) ==
  /\ run[0] = d /\ Interrupt(d, conds, wakeups) = run[Len(conds)]
  /\ \A k \in 0 .. Len(conds) - 1 : run[k + 1] = IF k + 1 \in wakeups THEN NotifyWakeup(run[k], conds[k + 1])
                                             ELSE run[k]

(* It has a value. *)
LEMMA InterruptRuns ==
  ASSUME NEW d, NEW conds \in Seq(Conditions), NEW wakeups
  PROVE  \E run : InterruptRun(run, d, conds, wakeups)
<1> DEFINE Step(e, k) == IF k \in wakeups THEN NotifyWakeup(e, conds[k]) ELSE e
           IsRun(f, n) == f = [k \in 0 .. n |-> IF k = 0 THEN d ELSE Step(f[k-1], k)]
           Runs == {n \in 0 .. Len(conds) : \E f : IsRun(f, n)}
           run == CHOOSE f : IsRun(f, Len(conds))
<1>1. Len(conds) \in Nat
  BY SizesAssumption
<1>2. Interrupt(d, conds, wakeups) = run[Len(conds)]
  BY DEF Interrupt
<1>3. \A e, k : Step(e, k) = IF k \in wakeups THEN NotifyWakeup(e, conds[k]) ELSE e
  OBVIOUS
<1> HIDE DEF Step
<1>4. Runs = 0 .. Len(conds)
  <2>1. 0 \in Runs
    <3>1. IsRun([k \in 0 .. 0 |-> d], 0)
      OBVIOUS
    <3> HIDE DEF IsRun
    <3>2. QED
      BY <1>1, <3>1
  <2>2. ASSUME NEW n \in 0 .. Len(conds) - 1, n \in Runs PROVE n + 1 \in Runs
    <3>1. PICK f : IsRun(f, n)
      BY <2>2
    <3> DEFINE g == [k \in 0 .. n + 1 |-> IF k <= n THEN f[k] ELSE Step(f[n], n + 1)]
    <3>2. ASSUME NEW k \in 0 .. n + 1
          PROVE  g[k] = IF k = 0 THEN d ELSE Step(g[k-1], k)
      BY <1>1, <3>1
    <3>3. IsRun(g, n + 1)
      BY <3>2
    <3> HIDE DEF IsRun, g
    <3>4. QED
      BY <1>1, <3>3
  <2>3. QED
    <3> HIDE DEF IsRun
    <3>1. Runs \in SUBSET (0 .. Len(conds))
      OBVIOUS
    <3> HIDE DEF Runs
    <3>2. QED
      BY <1>1, <2>1, <2>2, <3>1, IntervalInduction
<1>5. IsRun(run, Len(conds))
  <2> HIDE DEF IsRun
  <2>1. QED
    BY <1>1, <1>4
<1>6. \A k \in 0 .. Len(conds) : run[k] = IF k = 0 THEN d ELSE Step(run[k-1], k)
  <2> HIDE DEF run
  <2>1. QED
    BY <1>5
<1> HIDE DEF run
<1>7. run[0] = d
  BY <1>1, <1>6
<1>8. ASSUME NEW k \in 0 .. Len(conds) - 1 PROVE run[k + 1] = Step(run[k], k + 1)
  <2>1. k + 1 \in 0 .. Len(conds) /\ k + 1 # 0 /\ (k + 1) - 1 = k
    BY <1>1
  <2>2. QED
    BY <1>6, <2>1
<1>9. QED
  BY <1>2, <1>3, <1>7, <1>8 DEF InterruptRun

(* The loop of TimeoutScan. *)
ScanStep(e, k, ptc) ==
  IF k \in Expired(e, ptc)
  THEN Requeue([e EXCEPT !.waiting[k] = FALSE, !.timeout[k] = 0], Nil, Ready, k)
  ELSE e

ScanRun(run, d, ptc) ==
  /\ run[0] = d /\ TimeoutScan(d, ptc) = run[NPsb]
  /\ \A k \in 0 .. NPsb - 1 : run[k + 1] = ScanStep(run[k], k + 1, ptc)

(* It has a value. *)
LEMMA ScanRuns ==
  ASSUME NEW d, NEW ptc
  PROVE  \E run : ScanRun(run, d, ptc)
<1> DEFINE Step(e, k) == ScanStep(e, k, ptc)
           IsRun(f, n) == f = [k \in 0 .. n |-> IF k = 0 THEN d ELSE Step(f[k-1], k)]
           Runs == {n \in 0 .. NPsb : \E f : IsRun(f, n)}
           run == CHOOSE f : IsRun(f, NPsb)
<1>1. NPsb \in Nat
  BY SizesAssumption
<1>2. TimeoutScan(d, ptc) = run[NPsb]
  BY DEF TimeoutScan, ScanStep
<1>3. \A e, k : Step(e, k) = ScanStep(e, k, ptc)
  OBVIOUS
<1> HIDE DEF Step
<1>4. Runs = 0 .. NPsb
  <2>1. 0 \in Runs
    <3>1. IsRun([k \in 0 .. 0 |-> d], 0)
      OBVIOUS
    <3> HIDE DEF IsRun
    <3>2. QED
      BY <1>1, <3>1
  <2>2. ASSUME NEW n \in 0 .. NPsb - 1, n \in Runs PROVE n + 1 \in Runs
    <3>1. PICK f : IsRun(f, n)
      BY <2>2
    <3> DEFINE g == [k \in 0 .. n + 1 |-> IF k <= n THEN f[k] ELSE Step(f[n], n + 1)]
    <3>2. ASSUME NEW k \in 0 .. n + 1
          PROVE  g[k] = IF k = 0 THEN d ELSE Step(g[k-1], k)
      BY <1>1, <3>1
    <3>3. IsRun(g, n + 1)
      BY <3>2
    <3> HIDE DEF IsRun, g
    <3>4. QED
      BY <1>1, <3>3
  <2>3. QED
    <3> HIDE DEF IsRun
    <3>1. Runs \in SUBSET (0 .. NPsb)
      OBVIOUS
    <3> HIDE DEF Runs
    <3>2. QED
      BY <1>1, <2>1, <2>2, <3>1, IntervalInduction
<1>5. IsRun(run, NPsb)
  <2> HIDE DEF IsRun
  <2>1. QED
    BY <1>1, <1>4
<1>6. \A k \in 0 .. NPsb : run[k] = IF k = 0 THEN d ELSE Step(run[k-1], k)
  <2> HIDE DEF run
  <2>1. QED
    BY <1>5
<1> HIDE DEF run
<1>7. run[0] = d
  BY <1>1, <1>6
<1>8. ASSUME NEW k \in 0 .. NPsb - 1 PROVE run[k + 1] = Step(run[k], k + 1)
  <2>1. k + 1 \in 0 .. NPsb /\ k + 1 # 0 /\ (k + 1) - 1 = k
    BY <1>1
  <2>2. QED
    BY <1>6, <2>1
<1>9. QED
  BY <1>2, <1>3, <1>7, <1>8 DEF ScanRun


-----------------------------------------------------------------------------
(* A settled PDA: no procedure is at work on it. *)

IsPda(d) == d = [n \in Fields |-> d[n]]

(* The waiting bits and timeouts say what the queues say. *)
Marked(d, h) ==
  /\ d.waiting \in [Psb -> BOOLEAN] /\ d.timeout \in [Psb -> Nat]
  /\ \A p \in Psb : d.waiting[p] <=> h[p] \in Conditions
  /\ \A p \in Psb : d.timeout[p] # 0 => d.waiting[p]

(* A stored wakeup is for a condition that has no process, nor seems to.     *)
Stored(d) ==
  /\ d.wakeup \in [Conditions -> BOOLEAN]
  /\ \A c \in Conditions : d.wakeup[c] => d.tail[c] = Null

Settled(d, h, w) ==
  /\ IsPda(d) /\ h \in [Psb -> Queues]
  /\ Orderly(d, h, w) /\ Marked(d, h) /\ Stored(d)

(* Who is on another queue in h2 than in h. *)
Movers(h, h2) == {p \in Psb : h2[p] # h[p]}

(* Between d and e, notifies and timeouts made some waiting processes ready. *)
Woken(d, h, e, h2) ==
  /\ \A n \in Fields \ {"next", "tail", "cleanup", "waiting", "timeout", "wakeup"} : e[n] = d[n]
  /\ \A p \in Psb : \/ h2[p] = h[p] /\ e.timeout[p] = d.timeout[p]
                    \/ h[p] \in Conditions /\ h2[p] = Ready
  /\ \A c \in Conditions : d.wakeup[c] => e.wakeup[c]
  /\ Order(e) = Gone(Order(d), Movers(h, h2))

(* Nothing woken is a way of waking. *)
LEMMA WokenSame == ASSUME NEW d, NEW h PROVE Woken(d, h, d, h)
<1>1. Gone(Order(d), Movers(h, h)) = Order(d)
  BY DEF Gone, Movers, Order
<1>2. QED
  BY <1>1 DEF Woken

(* Those who move in two wakings are those of the first and of the second. *)
LEMMA WokenMovers ==
  ASSUME NEW d, NEW h, NEW e, NEW h1, NEW g, NEW h2, Woken(d, h, e, h1), Woken(e, h1, g, h2)
  PROVE  Movers(h, h2) = Movers(h, h1) \cup Movers(h1, h2)
  BY QueuesAssumption DEF Woken, Movers

(* Waking some and then others is waking them all. *)
LEMMA WokenOn ==
  ASSUME NEW d, NEW h, NEW e, NEW h1, NEW g, NEW h2, Woken(d, h, e, h1), Woken(e, h1, g, h2)
  PROVE  Woken(d, h, g, h2)
<1>1. Ready \notin Conditions
  BY QueuesAssumption
<1>2. ASSUME NEW p \in Psb
      PROVE  \/ h2[p] = h[p] /\ g.timeout[p] = d.timeout[p]
             \/ h[p] \in Conditions /\ h2[p] = Ready
  BY <1>1 DEF Woken
<1>3. Movers(h, h2) = Movers(h, h1) \cup Movers(h1, h2)
  BY WokenMovers
<1>4. Order(g) = Gone(Order(d), Movers(h, h2))
  <2>1. Movers(h, h1) \in SUBSET Psb /\ Movers(h1, h2) \in SUBSET Psb
    BY DEF Movers
  <2>2. Order(g) = Gone(Gone(Order(d), Movers(h, h1)), Movers(h1, h2))
    BY DEF Woken
  <2>3. QED
    BY <1>3, <2>1, <2>2, GoneTwice
<1>5. QED
  BY <1>2, <1>4 DEF Woken

(* One process that moves is gone. *)
LEMMA MoverOne ==
  ASSUME NEW h \in [Psb -> Queues], NEW p \in Psb, NEW q, h[p] # q
  PROVE  Movers(h, [h EXCEPT ![p] = q]) = {p}
  BY DEF Movers

(* The procedures that move processes leave a PDA. *)
LEMMA PdaRequeue ==
  ASSUME NEW d, IsPda(d), NEW src, NEW dst, NEW p
  PROVE  IsPda(Requeue(d, src, dst, p))
<1>1. IsPda(Dequeue(d, src, p))
  BY ZenonT(30) DEF IsPda, Dequeue, Fields
<1>2. ASSUME NEW e, IsPda(e) PROVE IsPda(Enqueue(e, dst, p))
  BY <1>2 DEF IsPda, Enqueue, Fields
<1>3. QED
  BY <1>1, <1>2 DEF Requeue

(* CleanupCondition leaves a PDA. *)
LEMMA PdaCleanup ==
  ASSUME NEW d, IsPda(d), NEW c
  PROVE  IsPda(CleanupCondition(d, c))
<1>1. ASSUME NEW x, NEW y
      PROVE  IsPda([d EXCEPT !.tail[c] = x]) /\ IsPda([d EXCEPT !.wakeup[c] = y, !.tail[c] = x])
  BY DEF IsPda, Fields
<1>2. QED
  BY <1>1 DEF CleanupCondition

(* The queues are where links, tails and cleanup links say. *)
LEMMA OrderlySame ==
  ASSUME NEW d, NEW h, NEW w, Orderly(d, h, w), NEW e, DOMAIN e = Fields,
         e.next = d.next, e.pri = d.pri, e.cleanup = d.cleanup, e.tail = d.tail
  PROVE  Orderly(e, h, w) /\ Order(e) = Order(d)
<1>1. PICK T \in [Queues -> Psb \cup {Null}] : Rings(d, h, w, T)
  BY DEF Orderly
<1>2. Rings(e, h, w, T)
  BY <1>1 DEF Rings, RingsTyped, TailFinds, Stale
<1>3. Order(e) = Order(d)
  BY <1>1, OrderFields DEF Rings, RingsTyped
<1>4. QED
  BY <1>2, <1>3 DEF Orderly

(* A move of p whose marks were set for where it goes settles it. *)
LEMMA MoveTold ==
  ASSUME NEW d, NEW h \in [Psb -> Queues], NEW w, IsPda(d), Orderly(d, h, w), NEW p \in Psb,
         h[p] \in Conditions => ~ Stale(d, h[p]),
         NEW q \in Queues,
         q \in Conditions => ~ Stale(d, q) /\ d.cleanup[p] = Null /\ w[p] = q /\ ~ d.wakeup[q],
         Marked(d, [h EXCEPT ![p] = q]), Stored(d)
  PROVE  LET e == Requeue(d, h[p], q, p)
         IN  /\ Settled(e, [h EXCEPT ![p] = q], w) /\ Relinked(d, e)
             /\ \A c \in Conditions : ~ Stale(d, c) => ~ Stale(e, c)
             /\ Order(e) = OrderMoved(d, h, q, p)
<1> DEFINE e == Requeue(d, h[p], q, p)
           h2 == [h EXCEPT ![p] = q]
<1>0. q \in Conditions => ~ Stale(d, q) /\ d.cleanup[p] = Null /\ w[p] = q
  OBVIOUS
<1>1. /\ Orderly(e, h2, w) /\ Relinked(d, e)
      /\ \A c \in Conditions : ~ Stale(d, c) => ~ Stale(e, c)
      /\ EmptyStays(d, e, q) /\ Order(e) = OrderMoved(d, h, q, p)
  BY <1>0, RequeueTold
<1>2. IsPda(e)
  BY PdaRequeue
<1>3. Marked(e, h2)
  BY <1>1 DEF Marked, Relinked, Fields
<1>4. Stored(e)
  BY <1>1 DEF Stored, Relinked, Fields, Queues, EmptyStays
<1>5. h2 \in [Psb -> Queues]
  OBVIOUS
<1>6. QED
  BY <1>1, <1>2, <1>3, <1>4, <1>5 DEF Settled

(* A process that a timeout or an abort takes off its condition is ready,    *)
(* and the queues and their marks are settled again.                         *)
LEMMA MoveUntold ==
  ASSUME NEW d, NEW h \in [Psb -> Queues], NEW w, IsPda(d), Orderly(d, h, w), NEW p \in Psb,
         h[p] \in Conditions, Marked(d, [h EXCEPT ![p] = Ready]), Stored(d)
  PROVE  LET e == Requeue(d, Nil, Ready, p)
         IN  /\ Settled(e, [h EXCEPT ![p] = Ready], w) /\ Relinked(d, e)
             /\ Order(e) = Gone(Order(d), {p})
<1> DEFINE e == Requeue(d, Nil, Ready, p)
           h2 == [h EXCEPT ![p] = Ready]
<1>0. Ready \in Queues \ Conditions
  BY QueuesAssumption DEF Queues
<1>1. /\ Orderly(e, h2, w) /\ Relinked(d, e)
      /\ EmptyStays(d, e, Ready) /\ Order(e) = OrderMoved(d, h, Ready, p)
  BY <1>0, RequeueUntold
<1>a. Order(e) = Gone(Order(d), {p})
  BY <1>0, <1>1 DEF OrderMoved
<1>2. IsPda(e)
  BY PdaRequeue
<1>3. Marked(e, h2)
  BY <1>1 DEF Marked, Relinked, Fields
<1>4. Stored(e)
  BY <1>0, <1>1 DEF Stored, Relinked, Fields, Queues, EmptyStays
<1>5. h2 \in [Psb -> Queues]
  BY <1>0
<1>6. QED
  BY <1>a, <1>1, <1>2, <1>3, <1>4, <1>5 DEF Settled

(* What the procedures of a settled PDA start from. *)
LEMMA SettledFields ==
  ASSUME NEW d, NEW h, NEW w, Settled(d, h, w)
  PROVE  /\ DOMAIN d = Fields /\ d.next \in [Psb -> Psb] /\ d.pri \in [Psb -> Priority]
         /\ d.cleanup \in [Psb -> Psb \cup {Null}] /\ d.tail \in [Queues -> Psb \cup {Null}]
  BY DEF Settled, Orderly, Rings, RingsTyped

(* CleanupCondition forgets what left, and moves nobody. *)
LEMMA SettledCleanup ==
  ASSUME NEW d, NEW h, NEW w, Settled(d, h, w), NEW c \in Conditions
  PROVE  LET e == CleanupCondition(d, c)
         IN  /\ Settled(e, h, w) /\ Woken(d, h, e, h) /\ ~ Stale(e, c)
             /\ HasQueue(e, c) <=> Members(h, c) # {}
             /\ \A n \in Fields \ {"tail"} : e[n] = d[n]
<1> DEFINE e == CleanupCondition(d, c)
<1>1. PICK T \in [Queues -> Psb \cup {Null}] : Rings(d, h, w, T)
  BY DEF Settled, Orderly
<1>2. /\ Rings(e, h, w, T) /\ e.tail[c] = T[c] /\ ~ Stale(e, c)
      /\ DOMAIN e = DOMAIN d
      /\ \A n \in Fields \ {"tail", "wakeup"} : e[n] = d[n]
      /\ \A q \in Queues \ {c} : e.tail[q] = d.tail[q]
      /\ ~ Stale(d, c) => e = d
      /\ Stale(d, c) => e.wakeup \in {d.wakeup, [d.wakeup EXCEPT ![c] = FALSE]}
  BY <1>1, CleanupRings DEF Settled
<1>3. e.wakeup = d.wakeup
  <2>1. d.wakeup \in [Conditions -> BOOLEAN] /\ (Stale(d, c) => d.wakeup[c] = FALSE)
    BY DEF Settled, Stored, Stale
  <2>2. Stale(d, c) => [d.wakeup EXCEPT ![c] = FALSE] = d.wakeup
    BY <2>1
  <2>3. QED
    BY <1>2, <2>2
<1>4. IsPda(e)
  BY PdaCleanup DEF Settled
<1>5. HasQueue(e, c) <=> Members(h, c) # {}
  <2>1. IF Members(h, c) = {} THEN T[c] = Null ELSE T[c] \in Members(h, c)
    BY <1>1 DEF Rings, Queue, Queues
  <2>2. T[c] \in Members(h, c) => T[c] # Null
    BY NullNoPsb DEF Members
  <2> HIDE DEF e
  <2>3. QED
    BY <1>2, <2>1, <2>2 DEF HasQueue
<1>6. \A n \in Fields \ {"tail"} : e[n] = d[n]
  BY <1>2, <1>3
<1> HIDE DEF e
<1>7. Stored(e)
  <2>1. ASSUME NEW b \in Conditions, e.wakeup[b] PROVE e.tail[b] = Null
    <3>1. d.wakeup[b] /\ d.tail[b] = Null
      BY <1>3, <2>1 DEF Settled, Stored
    <3>2. b \in Queues
      BY DEF Queues
    <3>3. CASE b = c
      <4>1. ~ Stale(d, c)
        BY <3>1, <3>3 DEF Stale
      <4>2. QED
        BY <1>2, <3>1, <4>1
    <3>4. QED
      BY <1>2, <3>1, <3>2, <3>3
  <2>2. QED
    BY <1>3, <2>1 DEF Settled, Stored
<1>8. Marked(e, h)
  BY <1>6 DEF Settled, Marked, Fields
<1>9. Settled(e, h, w)
  BY <1>2, <1>4, <1>7, <1>8 DEF Settled, Orderly, Rings, RingsTyped
<1>10. Order(e) = Order(d)
  BY <1>1, <1>2, <1>6, OrderSame DEF Settled, Fields
<1>11. Woken(d, h, e, h)
  BY <1>6, <1>10, WokenSame DEF Woken, Fields
<1>12. QED
  BY <1>2, <1>5, <1>6, <1>9, <1>11 DEF e


(* The processes of condition c that no other is ahead of. *)
Foremost(d, h, c) == {p \in Members(h, c) : Order(d)[p] = {}}

(* A condition that is not stale has a queue when processes are on it, and   *)
(* its head is the one that no other is ahead of.                           *)
LEMMA FreshHead ==
  ASSUME NEW d, NEW h, NEW w, Settled(d, h, w), NEW c \in Conditions, ~ Stale(d, c)
  PROVE  /\ HasQueue(d, c) <=> Members(h, c) # {}
         /\ HasQueue(d, c) => Foremost(d, h, c) = {HeadOf(d, c)}
<1>1. PICK T \in [Queues -> Psb \cup {Null}] : Rings(d, h, w, T)
  BY DEF Settled, Orderly
<1>2. c \in Queues
  BY DEF Queues
<1>3. d.tail[c] = T[c] /\ Queue(d.next, d.pri, Members(h, c), T[c])
  BY <1>1, <1>2, FreshTail DEF Rings
<1>4. HasQueue(d, c) <=> Members(h, c) # {}
  BY <1>3, NullNoPsb DEF HasQueue, Queue, Members
<1>5. ASSUME HasQueue(d, c) PROVE Foremost(d, h, c) = {HeadOf(d, c)}
  <2> DEFINE S == Members(h, c)
             A == Order(d)
  <2>1. T[c] \in S /\ Cycle(d.next, S) /\ HeadOf(d, c) = d.next[T[c]]
    BY <1>3, <1>4, <1>5 DEF Queue, HeadOf
  <2>2. Line(A, d.next, S, T[c])
    BY <1>1, LinedOrder DEF Settled, Lined
  <2> HIDE DEF S, A
  <2>3. \A y \in S : y = d.next[T[c]] \/ d.next[T[c]] \in A[y]
    BY <2>1, <2>2, LineHead
  <2>4. A[d.next[T[c]]] = {} /\ d.next[T[c]] \in S
    BY <2>1, <2>2 DEF Line, Cycle
  <2>5. {p \in S : A[p] = {}} = {HeadOf(d, c)}
    BY <2>1, <2>3, <2>4
  <2>6. QED
    BY <2>5 DEF Foremost, S, A
<1>6. QED
  BY <1>4, <1>5

(* Waking the head of a condition settles it on the ready queue. *)
LEMMA SettledWake ==
  ASSUME NEW d, NEW h, NEW w, Settled(d, h, w), NEW c \in Conditions, ~ Stale(d, c),
         HasQueue(d, c)
  PROVE  LET p == HeadOf(d, c)
             e == WakeHead(d, c)
             h2 == [h EXCEPT ![p] = Ready]
         IN  /\ p \in Psb /\ h[p] = c
             /\ Settled(e, h2, w) /\ Woken(d, h, e, h2) /\ ~ Stale(e, c)
             /\ e.wakeup = d.wakeup
<1> DEFINE p == HeadOf(d, c)
           e == WakeHead(d, c)
           h2 == [h EXCEPT ![p] = Ready]
           d1 == [d EXCEPT !.waiting[p] = FALSE, !.timeout[p] = 0]
<1>1. PICK T \in [Queues -> Psb \cup {Null}] : Rings(d, h, w, T)
  BY DEF Settled, Orderly
<1>2. c \in Queues /\ Ready \in Queues /\ Ready \notin Conditions
  BY QueuesAssumption DEF Queues
<1>3. T[c] # Null /\ d.tail[c] = T[c] /\ Queue(d.next, d.pri, Members(h, c), T[c])
  BY <1>1, <1>2, FreshTail DEF HasQueue, Rings
<1>4. p \in Members(h, c)
  BY <1>3 DEF Queue, Cycle, HeadOf
<1>5. p \in Psb /\ h[p] = c /\ e = Requeue(d1, h[p], Ready, p)
  BY <1>4 DEF Members, WakeHead
<1>6. IsPda(d) /\ h \in [Psb -> Queues] /\ Orderly(d, h, w) /\ Marked(d, h) /\ Stored(d)
  BY DEF Settled
<1>7. /\ IsPda(d1) /\ DOMAIN d1 = Fields
      /\ \A n \in Fields \ {"waiting", "timeout"} : d1[n] = d[n]
      /\ d1.waiting = [d.waiting EXCEPT ![p] = FALSE]
      /\ d1.timeout = [d.timeout EXCEPT ![p] = 0]
  BY <1>6 DEF IsPda, Fields
<1> HIDE DEF p, e, d1
<1>8. /\ d1.next = d.next /\ d1.pri = d.pri /\ d1.cleanup = d.cleanup /\ d1.tail = d.tail
      /\ d1.wakeup = d.wakeup
  BY <1>7 DEF Fields
<1>9. Orderly(d1, h, w) /\ Order(d1) = Order(d)
  BY <1>6, <1>7, <1>8, OrderlySame
<1>10. Marked(d1, h2)
  BY <1>2, <1>5, <1>6, <1>7 DEF Marked
<1>11. Stored(d1) /\ ~ Stale(d1, h[p])
  BY <1>5, <1>6, <1>8 DEF Stored, Stale
<1>12. /\ Settled(e, h2, w) /\ Relinked(d1, e)
       /\ \A b \in Conditions : ~ Stale(d1, b) => ~ Stale(e, b)
       /\ Order(e) = OrderMoved(d1, h, Ready, p)
  <2> DEFINE g == Requeue(d1, h[p], Ready, p)
  <2>1. /\ Settled(g, [h EXCEPT ![p] = Ready], w) /\ Relinked(d1, g)
        /\ \A b \in Conditions : ~ Stale(d1, b) => ~ Stale(g, b)
        /\ Order(g) = OrderMoved(d1, h, Ready, p)
    <3>1. /\ h \in [Psb -> Queues] /\ IsPda(d1) /\ Orderly(d1, h, w) /\ p \in Psb
          /\ h[p] \in Conditions => ~ Stale(d1, h[p])
          /\ Ready \in Queues /\ Ready \notin Conditions
          /\ Marked(d1, [h EXCEPT ![p] = Ready]) /\ Stored(d1)
      BY <1>2, <1>5, <1>6, <1>7, <1>9, <1>10, <1>11
    <3> HIDE DEF h2
    <3>2. QED
      BY <3>1, MoveTold
  <2> HIDE DEF g
  <2>2. QED
    BY <1>5, <2>1 DEF g
<1>13. /\ \A n \in Fields \ {"next", "tail", "cleanup", "waiting", "timeout"} : e[n] = d[n]
       /\ e.timeout = d1.timeout /\ e.wakeup = d.wakeup
  BY <1>7, <1>8, <1>12 DEF Relinked, Fields
<1>14. \A y \in Psb : \/ h2[y] = h[y] /\ e.timeout[y] = d.timeout[y]
                      \/ h[y] \in Conditions /\ h2[y] = Ready
  BY <1>5, <1>6, <1>7, <1>13 DEF Marked
<1>15. Order(e) = Gone(Order(d), {p}) /\ Movers(h, h2) = {p}
  BY <1>2, <1>5, <1>6, <1>9, <1>12, MoverOne DEF OrderMoved
<1>16. Woken(d, h, e, h2)
  BY <1>13, <1>14, <1>15 DEF Woken
<1>17. QED
  BY <1>5, <1>11, <1>12, <1>13, <1>16 DEF p, e

(* What a notification of condition c makes of PDA d: the foremost process   *)
(* of c is woken, or the notification is stored.                            *)
Notified(d, h, c, e, h2) ==
  /\ Movers(h, h2) = Foremost(d, h, c)
  /\ e.wakeup = [b \in Conditions |-> d.wakeup[b] \/ (b = c /\ Members(h, c) = {})]

(* NotifyWakeup wakes one process of the condition, or nobody: then none is  *)
(* on it, and the wakeup is stored.                                         *)
LEMMA SettledNotify ==
  ASSUME NEW d, NEW h, NEW w, Settled(d, h, w), NEW c \in Conditions
  PROVE  \E h2 : /\ Settled(NotifyWakeup(d, c), h2, w) /\ Woken(d, h, NotifyWakeup(d, c), h2)
                 /\ Members(h, c) = {} => h2 = h
                 /\ Notified(d, h, c, NotifyWakeup(d, c), h2)
<1> DEFINE d1 == CleanupCondition(d, c)
           e == NotifyWakeup(d, c)
<1>1. /\ Settled(d1, h, w) /\ Woken(d, h, d1, h) /\ ~ Stale(d1, c)
      /\ HasQueue(d1, c) <=> Members(h, c) # {}
      /\ d1.wakeup = d.wakeup
  BY SettledCleanup DEF Fields
<1>a. Order(d1) = Order(d)
  <2>1. Order(d1) = Gone(Order(d), {})
    BY <1>1 DEF Woken, Movers
  <2>2. QED
    BY <2>1 DEF Gone, Order
<1>b. d.wakeup \in [Conditions -> BOOLEAN] /\ h \in [Psb -> Queues] /\ Ready \notin Conditions
  BY QueuesAssumption DEF Settled, Stored
<1>2. CASE HasQueue(d1, c)
  <2>1. e = WakeHead(d1, c)
    BY <1>2 DEF NotifyWakeup
  <2> HIDE DEF d1, e
  <2> DEFINE h2 == [h EXCEPT ![HeadOf(d1, c)] = Ready]
  <2>2. /\ Settled(e, h2, w) /\ Woken(d1, h, e, h2) /\ e.wakeup = d1.wakeup
        /\ HeadOf(d1, c) \in Psb /\ h[HeadOf(d1, c)] = c
    BY <1>1, <1>2, <2>1, SettledWake
  <2>a. Foremost(d, h, c) = {HeadOf(d1, c)}
    BY <1>1, <1>2, <1>a, FreshHead DEF Foremost
  <2>b. Movers(h, h2) = Foremost(d, h, c)
    BY <1>b, <2>2, <2>a, MoverOne
  <2>c. e.wakeup = [b \in Conditions |-> d.wakeup[b] \/ (b = c /\ Members(h, c) = {})]
    BY <1>1, <1>2, <1>b, <2>2
  <2> HIDE DEF h2
  <2>3. Woken(d, h, e, h2)
    BY <1>1, <2>2, WokenOn
  <2>4. QED
    BY <1>1, <1>2, <2>2, <2>3, <2>b, <2>c DEF Notified, e
<1>3. CASE ~ HasQueue(d1, c)
  <2>1. e = [d1 EXCEPT !.wakeup[c] = TRUE]
    BY <1>3 DEF NotifyWakeup
  <2> HIDE DEF d1, e
  <2>2. IsPda(d1) /\ h \in [Psb -> Queues] /\ Orderly(d1, h, w) /\ Marked(d1, h) /\ Stored(d1)
    BY <1>1 DEF Settled
  <2>3. /\ IsPda(e) /\ DOMAIN e = Fields
        /\ \A n \in Fields \ {"wakeup"} : e[n] = d1[n]
        /\ e.wakeup = [d1.wakeup EXCEPT ![c] = TRUE]
    BY <2>1, <2>2 DEF IsPda, Fields
  <2>4. Orderly(e, h, w) /\ Marked(e, h)
    <3>1. /\ e.next = d1.next /\ e.pri = d1.pri /\ e.cleanup = d1.cleanup /\ e.tail = d1.tail
          /\ e.waiting = d1.waiting /\ e.timeout = d1.timeout
      BY <2>3 DEF Fields
    <3>2. QED
      BY <2>2, <2>3, <3>1, OrderlySame DEF Marked
  <2>5. Stored(e)
    BY <1>3, <2>2, <2>3 DEF Stored, HasQueue, Fields
  <2>a. Order(e) = Order(d1)
    <3>1. DOMAIN d1 = Fields
      BY <2>2 DEF IsPda
    <3>2. QED
      BY <2>3, <3>1, OrderFields DEF Fields
  <2>6. Woken(d1, h, e, h)
    <3>1. Woken(d1, h, d1, h)
      BY WokenSame
    <3>2. QED
      BY <2>2, <2>3, <2>a, <3>1 DEF Woken, Fields, Stored
  <2>7. Settled(e, h, w) /\ Woken(d, h, e, h)
    BY <1>1, <2>2, <2>3, <2>4, <2>5, <2>6, WokenOn DEF Settled
  <2>8. Movers(h, h) = Foremost(d, h, c)
    BY <1>1, <1>3 DEF Movers, Foremost
  <2>9. e.wakeup = [b \in Conditions |-> d.wakeup[b] \/ (b = c /\ Members(h, c) = {})]
    <3>1. Members(h, c) = {}
      BY <1>1, <1>3
    <3>2. DOMAIN d.wakeup = Conditions
      BY <1>b
    <3>3. \A b \in Conditions : e.wakeup[b] = (d.wakeup[b] \/ (b = c /\ Members(h, c) = {}))
      <4>1. ASSUME NEW b \in Conditions, b # c PROVE e.wakeup[b] = d.wakeup[b]
        BY <1>1, <1>b, <2>3, <4>1
      <4>2. e.wakeup[c] = TRUE
        BY <1>1, <1>b, <2>3
      <4>3. \A b \in Conditions : d.wakeup[b] \in BOOLEAN
        BY <1>b
      <4>4. QED
        BY <3>1, <4>1, <4>2, <4>3, Zenon
    <3>4. e.wakeup = [b \in Conditions |-> e.wakeup[b]]
      BY <1>1, <1>b, <2>3
    <3>5. QED
      BY <3>3, <3>4, Zenon
  <2>10. QED
    BY <2>7, <2>8, <2>9 DEF Notified, e
<1>4. QED
  BY <1>2, <1>3

(* Once every process of c is woken, and no other, those woken are those of  *)
(* c; there are no more of them than rounds.                                *)
LEMMA FewMembers ==
  ASSUME NEW h, NEW c
  PROVE  /\ IsFiniteSet(Members(h, c)) /\ Cardinality(Members(h, c)) <= NPsb
         /\ Cardinality(Members(h, c)) \in Nat
<1>1. IsFiniteSet(Psb) /\ Cardinality(Psb) = NPsb
  <2>1. 1 \in Int /\ NPsb \in Int /\ NPsb >= 1
    BY SizesAssumption
  <2>2. IsFiniteSet(1 .. NPsb) /\ Cardinality(1 .. NPsb) = NPsb - 1 + 1
    BY <2>1, FS_Interval
  <2>3. QED
    BY <2>1, <2>2 DEF Psb
<1>2. Members(h, c) \in SUBSET Psb
  BY DEF Members
<1>3. QED
  BY <1>1, <1>2, FS_Subset, FS_CardinalityType

(* E_BC wakes the processes of its condition one after the other, until all  *)
(* are woken.                                                               *)
LEMMA SettledWakeAll ==
  ASSUME NEW d, NEW h, NEW w, Settled(d, h, w), NEW c \in Conditions, ~ Stale(d, c)
  PROVE  \E h2 : /\ Settled(WakeAll(d, c), h2, w) /\ Woken(d, h, WakeAll(d, c), h2)
                 /\ WakeAll(d, c).wakeup = d.wakeup /\ Movers(h, h2) = Members(h, c)
<1>0. PICK run : WakeAllRun(run, d, c)
  BY WakeAllRuns
<1>1. /\ run[0] = d /\ WakeAll(d, c) = run[NPsb]
      /\ \A k \in 0 .. NPsb - 1 :
           run[k + 1] = IF HasQueue(run[k], c) THEN WakeHead(run[k], c) ELSE run[k]
  BY <1>0 DEF WakeAllRun
<1> DEFINE Fine(e, k, h2) ==
             /\ Settled(e, h2, w) /\ Woken(d, h, e, h2) /\ ~ Stale(e, c)
             /\ e.wakeup = d.wakeup /\ Movers(h, h2) \subseteq Members(h, c)
             /\ Cardinality(Members(h2, c)) <= NPsb - k
           Kept == {k \in 0 .. NPsb : \E h2 : Fine(run[k], k, h2)}
<1>2. NPsb \in Nat
  BY SizesAssumption
<1>3. 0 \in Kept
  <2>1. Movers(h, h) = {} /\ Cardinality(Members(h, c)) <= NPsb - 0
    BY <1>2, FewMembers DEF Movers
  <2>2. QED
    BY <1>1, <1>2, <2>1, WokenSame
<1>4. ASSUME NEW k \in 0 .. NPsb - 1, k \in Kept PROVE k + 1 \in Kept
  <2>1. PICK h1 : Fine(run[k], k, h1)
    BY <1>4
  <2>2. k + 1 \in 0 .. NPsb
    BY <1>2
  <2>3. CASE HasQueue(run[k], c)
    <3> DEFINE p == HeadOf(run[k], c)
               h2 == [h1 EXCEPT ![p] = Ready]
    <3>1. run[k + 1] = WakeHead(run[k], c)
      BY <1>1, <2>3
    <3>2. /\ Settled(run[k + 1], h2, w) /\ Woken(run[k], h1, run[k + 1], h2)
          /\ ~ Stale(run[k + 1], c) /\ run[k + 1].wakeup = run[k].wakeup
          /\ p \in Psb /\ h1[p] = c
      BY <2>1, <2>3, <3>1, SettledWake
    <3> HIDE DEF p
    <3>3. Woken(d, h, run[k + 1], h2)
      <4> HIDE DEF h2
      <4>1. QED
        BY <2>1, <3>2, WokenOn
    <3>4. h1 \in [Psb -> Queues] /\ Ready # c
      BY <2>1, QueuesAssumption DEF Settled
    <3>5. Members(h2, c) = Members(h1, c) \ {p} /\ p \in Members(h1, c)
      BY <3>2, <3>4 DEF Members
    <3>6. Movers(h, h2) \subseteq Members(h, c)
      <4>1. Movers(h, h2) \subseteq Movers(h, h1) \cup {p}
        BY <3>2, <3>4 DEF Movers
      <4>2. p \in Movers(h, h1) \/ h[p] = c
        BY <3>2 DEF Movers
      <4>3. QED
        BY <2>1, <3>2, <4>1, <4>2 DEF Members
    <3>7. Cardinality(Members(h2, c)) <= NPsb - (k + 1)
      <4>1. Cardinality(Members(h1, c) \ {p}) = Cardinality(Members(h1, c)) - 1
        BY <3>5, FewMembers, FS_RemoveElement
      <4>2. Cardinality(Members(h1, c)) \in Nat /\ Cardinality(Members(h1, c)) <= NPsb - k
        BY <2>1, FewMembers
      <4>3. Cardinality(Members(h2, c)) = Cardinality(Members(h1, c)) - 1
        BY <3>5, <4>1, Zenon
      <4>4. \A n \in Nat : n <= NPsb - k => n - 1 <= NPsb - (k + 1)
        BY <1>2
      <4>5. QED
        BY <4>2, <4>3, <4>4
    <3>8. Fine(run[k + 1], k + 1, h2)
      BY <2>1, <3>2, <3>3, <3>6, <3>7
    <3> HIDE DEF Fine, h2
    <3>9. QED
      BY <2>2, <3>8
  <2>4. CASE ~ HasQueue(run[k], c)
    <3>1. run[k + 1] = run[k]
      BY <1>1, <2>4
    <3>2. Cardinality(Members(h1, c)) <= NPsb - (k + 1)
      <4>1. Members(h1, c) = {}
        BY <2>1, <2>4, FreshHead
      <4>2. Cardinality({}) = 0
        BY FS_EmptySet
      <4>3. QED
        BY <1>2, <4>1, <4>2
    <3>3. Fine(run[k + 1], k + 1, h1)
      BY <2>1, <3>1, <3>2
    <3> HIDE DEF Fine
    <3>4. QED
      BY <2>2, <3>3
  <2>5. QED
    BY <2>3, <2>4
<1>5. Kept \in SUBSET (0 .. NPsb)
  OBVIOUS
<1>6. PICK h2 : Fine(run[NPsb], NPsb, h2)
  <2> HIDE DEF Kept
  <2>1. Kept = 0 .. NPsb
    BY <1>2, <1>3, <1>4, <1>5, IntervalInduction
  <2>2. NPsb \in Kept
    BY <1>2, <2>1
  <2>3. QED
    BY <2>2 DEF Kept
<1>7. Members(h2, c) = {}
  <2>1. Cardinality(Members(h2, c)) = 0
    BY <1>2, <1>6, FewMembers
  <2>2. QED
    BY <2>1, FewMembers, FS_EmptySet
<1>8. Movers(h, h2) = Members(h, c)
  BY <1>6, <1>7 DEF Movers, Members
<1>9. QED
  BY <1>1, <1>6, <1>8

(* The conditions that interrupts of the levels wakeups ring. *)
Rung(conds, wakeups) == {conds[i] : i \in wakeups \cap (1 .. Len(conds))}

(* The wakeup bits once all conditions of C rang, those of h with nobody on  *)
(* them to keep it.                                                         *)
Belled(d, h, C) ==
  [c \in Conditions |-> d.wakeup[c] \/ (c \in C /\ Members(h, c) = {})]

(* What interrupts make of PDA d: the foremost process of each condition that *)
(* rings is woken, and no process moves unless one waits for them.          *)
Interrupted(d, h, w, conds, wakeups, e, h2) ==
  /\ Settled(e, h2, w) /\ Woken(d, h, e, h2)
  /\ (\A i \in wakeups : Members(h, conds[i]) = {}) => h2 = h
  /\ Movers(h, h2) = UNION {Foremost(d, h, c) : c \in Rung(conds, wakeups)}
  /\ e.wakeup = Belled(d, h, Rung(conds, wakeups))

(* After interrupts of other conditions, a condition has the processes that  *)
(* it had, and the same one is foremost.                                    *)
LEMMA StillForemost ==
  ASSUME NEW d, NEW h, NEW w, Settled(d, h, w), NEW e, NEW h1, Woken(d, h, e, h1),
         NEW c \in Conditions, \A p \in Movers(h, h1) : h[p] # c
  PROVE  Members(h1, c) = Members(h, c) /\ Foremost(e, h1, c) = Foremost(d, h, c)
<1>1. Members(h1, c) = Members(h, c)
  BY QueuesAssumption DEF Members, Movers, Woken
<1>2. PICK T \in [Queues -> Psb \cup {Null}] : Rings(d, h, w, T)
  BY DEF Settled, Orderly
<1>3. Lined(Order(d), d.next, h, T)
  BY <1>2, LinedOrder DEF Settled
<1> DEFINE A == Order(d)
<1>4. \A p \in Members(h, c) : \A y \in A[p] : h[y] = c
  BY <1>2, <1>3, LinedWithin DEF Members
<1>5. Order(e) = Gone(A, Movers(h, h1))
  BY DEF Woken
<1> HIDE DEF A
<1>6. \A p \in Members(h, c) : Gone(A, Movers(h, h1))[p] = A[p]
  BY <1>4 DEF Gone, Members
<1>7. QED
  BY <1>1, <1>5, <1>6 DEF Foremost, A

(* Interrupt notifies the conditions of its levels.                          *)
LEMMA SettledInterrupt ==
  ASSUME NEW d, NEW h, NEW w, Settled(d, h, w), NEW conds \in Seq(Conditions), NEW wakeups,
         \A i, j \in DOMAIN conds : conds[i] = conds[j] => i = j
  PROVE  \E h2 : Interrupted(d, h, w, conds, wakeups, Interrupt(d, conds, wakeups), h2)
<1>0. PICK run : InterruptRun(run, d, conds, wakeups)
  BY InterruptRuns
<1>1. /\ run[0] = d /\ Interrupt(d, conds, wakeups) = run[Len(conds)]
      /\ \A k \in 0 .. Len(conds) - 1 :
           run[k + 1] = IF k + 1 \in wakeups THEN NotifyWakeup(run[k], conds[k + 1]) ELSE run[k]
  BY <1>0 DEF InterruptRun
<1> DEFINE Rang(k) == {conds[i] : i \in wakeups \cap (1 .. k)}
           Quiet == \A i \in wakeups : Members(h, conds[i]) = {}
           Fine(e, k, h2) ==
             /\ Settled(e, h2, w) /\ Woken(d, h, e, h2) /\ (Quiet => h2 = h)
             /\ Movers(h, h2) = UNION {Foremost(d, h, c) : c \in Rang(k)}
             /\ e.wakeup = Belled(d, h, Rang(k))
           Kept == {k \in 0 .. Len(conds) : \E h2 : Fine(run[k], k, h2)}
<1>2. Len(conds) \in Nat /\ DOMAIN conds = 1 .. Len(conds)
  OBVIOUS
<1>3. 0 \in Kept
  <2>1. Rang(0) = {}
    OBVIOUS
  <2>2. Movers(h, h) = {}
    BY DEF Movers
  <2>3. d.wakeup = Belled(d, h, {})
    <3>1. d.wakeup \in [Conditions -> BOOLEAN]
      BY DEF Settled, Stored
    <3>2. d.wakeup = [c \in Conditions |-> d.wakeup[c]] /\ \A c \in Conditions : d.wakeup[c] \in BOOLEAN
      BY <3>1
    <3>3. \A c \in Conditions : (d.wakeup[c] \/ (c \in {} /\ Members(h, c) = {})) = d.wakeup[c]
      BY <3>2, Zenon
    <3>4. QED
      BY <3>2, <3>3, Zenon DEF Belled
  <2>4. Fine(d, 0, h)
    BY <2>1, <2>2, <2>3, WokenSame
  <2> HIDE DEF Fine
  <2>5. QED
    BY <1>1, <1>2, <2>4
<1>4. ASSUME NEW k \in 0 .. Len(conds) - 1, k \in Kept PROVE k + 1 \in Kept
  <2>1. PICK h1 : Fine(run[k], k, h1)
    BY <1>4
  <2>2. k + 1 \in 0 .. Len(conds) /\ k + 1 \in 1 .. Len(conds)
    BY <1>2
  <2>3. CASE k + 1 \in wakeups
    <3> DEFINE c == conds[k + 1]
    <3>1. run[k + 1] = NotifyWakeup(run[k], c)
      BY <1>1, <2>3
    <3>2. c \in Conditions
      BY <2>2
    <3>3. Rang(k + 1) = Rang(k) \cup {c} /\ c \notin Rang(k)
      <4>1. \A i \in 1 .. k + 1 : i \in 1 .. k \/ i = k + 1
        BY <1>2
      <4>2. \A i \in 1 .. k : i \in 1 .. k + 1 /\ i \in 1 .. Len(conds) /\ i # k + 1
        BY <1>2
      <4>3. c \notin Rang(k)
        BY <1>2, <2>2, <4>2
      <4>4. k + 1 \in 1 .. k + 1
        BY <1>2
      <4>5. QED
        BY <2>3, <4>1, <4>2, <4>3, <4>4
    <3> HIDE DEF Rang, c
    <3>4. \A p \in Movers(h, h1) : h[p] # c
      BY <2>1, <3>3 DEF Foremost, Members
    <3>5. Members(h1, c) = Members(h, c) /\ Foremost(run[k], h1, c) = Foremost(d, h, c)
      BY <2>1, <3>2, <3>4, StillForemost
    <3>6. PICK h2 : /\ Settled(run[k + 1], h2, w) /\ Woken(run[k], h1, run[k + 1], h2)
                    /\ Members(h1, c) = {} => h2 = h1
                    /\ Notified(run[k], h1, c, run[k + 1], h2)
      BY <2>1, <3>1, <3>2, SettledNotify
    <3>7. Woken(d, h, run[k + 1], h2)
      BY <2>1, <3>6, WokenOn
    <3>8. Quiet => h2 = h
      BY <2>1, <2>3, <3>6 DEF c
    <3>9. Movers(h, h2) = UNION {Foremost(d, h, b) : b \in Rang(k + 1)}
      <4>1. Movers(h, h2) = Movers(h, h1) \cup Movers(h1, h2)
        BY <2>1, <3>6, WokenMovers
      <4>2. Movers(h1, h2) = Foremost(d, h, c)
        BY <3>5, <3>6 DEF Notified
      <4>3. QED
        BY <2>1, <3>3, <4>1, <4>2
    <3>10. run[k + 1].wakeup = Belled(d, h, Rang(k + 1))
      <4>1. run[k + 1].wakeup =
              [b \in Conditions |-> run[k].wakeup[b] \/ (b = c /\ Members(h, c) = {})]
        BY <3>5, <3>6 DEF Notified
      <4>2. \A b \in Conditions :
              run[k].wakeup[b] = (d.wakeup[b] \/ (b \in Rang(k) /\ Members(h, b) = {}))
        BY <2>1, Zenon DEF Belled
      <4>3. \A b : b \in Rang(k + 1) <=> b \in Rang(k) \/ b = c
        BY <3>3
      <4>4. \A b \in Conditions :
              (run[k].wakeup[b] \/ (b = c /\ Members(h, c) = {}))
                = (d.wakeup[b] \/ (b \in Rang(k + 1) /\ Members(h, b) = {}))
        BY <4>2, <4>3, Zenon
      <4>5. QED
        BY <4>1, <4>4, Zenon DEF Belled
    <3>11. Fine(run[k + 1], k + 1, h2)
      BY <3>6, <3>7, <3>8, <3>9, <3>10
    <3> HIDE DEF Fine
    <3>12. QED
      BY <2>2, <3>11
  <2>4. CASE k + 1 \notin wakeups
    <3>1. run[k + 1] = run[k]
      BY <1>1, <2>4
    <3>2. Rang(k + 1) = Rang(k)
      <4>1. \A i \in wakeups : i \in 1 .. k + 1 <=> i \in 1 .. k
        BY <1>2, <2>4
      <4>2. QED
        BY <4>1
    <3> HIDE DEF Rang
    <3>3. Fine(run[k + 1], k + 1, h1)
      BY <2>1, <3>1, <3>2
    <3> HIDE DEF Fine
    <3>4. QED
      BY <2>2, <3>3
  <2>5. QED
    BY <2>3, <2>4
<1>5. Kept \in SUBSET (0 .. Len(conds))
  OBVIOUS
<1>6. PICK h2 : Fine(run[Len(conds)], Len(conds), h2)
  <2> HIDE DEF Kept
  <2>1. Kept = 0 .. Len(conds)
    BY <1>2, <1>3, <1>4, <1>5, IntervalInduction
  <2>2. Len(conds) \in Kept
    BY <1>2, <2>1
  <2>3. QED
    BY <2>2 DEF Kept
<1>7. Rang(Len(conds)) = Rung(conds, wakeups)
  BY DEF Rung
<1> HIDE DEF Rang
<1>8. QED
  BY <1>1, <1>6, <1>7 DEF Interrupted


(* A timeout makes a waiting process ready, untold to its condition. *)
LEMMA SettledLeave ==
  ASSUME NEW d, NEW h, NEW w, Settled(d, h, w), NEW p \in Psb, h[p] \in Conditions
  PROVE  LET e == Requeue([d EXCEPT !.waiting[p] = FALSE, !.timeout[p] = 0], Nil, Ready, p)
             h2 == [h EXCEPT ![p] = Ready]
         IN  /\ Settled(e, h2, w) /\ Woken(d, h, e, h2)
             /\ e.timeout = [d.timeout EXCEPT ![p] = 0] /\ e.wakeup = d.wakeup
<1> DEFINE d1 == [d EXCEPT !.waiting[p] = FALSE, !.timeout[p] = 0]
           e == Requeue(d1, Nil, Ready, p)
           h2 == [h EXCEPT ![p] = Ready]
<1>1. IsPda(d) /\ h \in [Psb -> Queues] /\ Orderly(d, h, w) /\ Marked(d, h) /\ Stored(d)
  BY DEF Settled
<1>2. Ready \notin Conditions
  BY QueuesAssumption
<1>3. /\ IsPda(d1) /\ DOMAIN d1 = Fields
      /\ \A n \in Fields \ {"waiting", "timeout"} : d1[n] = d[n]
      /\ d1.waiting = [d.waiting EXCEPT ![p] = FALSE]
      /\ d1.timeout = [d.timeout EXCEPT ![p] = 0]
  BY <1>1 DEF IsPda, Fields
<1> HIDE DEF e, d1
<1>4. /\ d1.next = d.next /\ d1.pri = d.pri /\ d1.cleanup = d.cleanup /\ d1.tail = d.tail
      /\ d1.wakeup = d.wakeup
  BY <1>3 DEF Fields
<1>5. Orderly(d1, h, w) /\ Order(d1) = Order(d)
  BY <1>1, <1>3, <1>4, OrderlySame
<1>6. Marked(d1, h2)
  BY <1>1, <1>2, <1>3 DEF Marked
<1>7. Stored(d1)
  BY <1>1, <1>4 DEF Stored
<1>8. Settled(e, h2, w) /\ Relinked(d1, e) /\ Order(e) = Gone(Order(d1), {p})
  BY <1>1, <1>3, <1>5, <1>6, <1>7, MoveUntold DEF e
<1>9. /\ \A n \in Fields \ {"next", "tail", "cleanup", "waiting", "timeout"} : e[n] = d[n]
      /\ e.timeout = d1.timeout /\ e.wakeup = d.wakeup
  BY <1>3, <1>4, <1>8 DEF Relinked, Fields
<1>10. \A y \in Psb : \/ h2[y] = h[y] /\ e.timeout[y] = d.timeout[y]
                      \/ h[y] \in Conditions /\ h2[y] = Ready
  BY <1>1, <1>3, <1>9 DEF Marked
<1>11. Order(e) = Gone(Order(d), {p}) /\ Movers(h, h2) = {p}
  BY <1>1, <1>2, <1>5, <1>8, MoverOne
<1>12. Woken(d, h, e, h2)
  BY <1>9, <1>10, <1>11 DEF Woken
<1>13. QED
  BY <1>3, <1>8, <1>9, <1>12 DEF e, d1

(* The queues of the processes once those whose wait ends at ptc are ready. *)
ScanHomes(d, h, ptc) == [p \in Psb |-> IF p \in Expired(d, ptc) THEN Ready ELSE h[p]]

(* TimeoutScan makes the processes ready whose wait ends at ptc. *)
LEMMA SettledScan ==
  ASSUME NEW d, NEW h, NEW w, Settled(d, h, w), NEW ptc
  PROVE  LET e == TimeoutScan(d, ptc)
             h2 == ScanHomes(d, h, ptc)
         IN  /\ Settled(e, h2, w) /\ Woken(d, h, e, h2) /\ e.wakeup = d.wakeup
             /\ e.timeout = [p \in Psb |-> IF p \in Expired(d, ptc) THEN 0 ELSE d.timeout[p]]
<1> DEFINE H(k) == [p \in Psb |-> IF p <= k /\ p \in Expired(d, ptc) THEN Ready ELSE h[p]]
           M(k) == [p \in Psb |-> IF p <= k /\ p \in Expired(d, ptc) THEN 0 ELSE d.timeout[p]]
           Good(e, k) == /\ Settled(e, H(k), w) /\ Woken(d, h, e, H(k)) /\ e.timeout = M(k)
                         /\ e.wakeup = d.wakeup
<1>0. PICK run : ScanRun(run, d, ptc)
  BY ScanRuns
<1> DEFINE Kept == {k \in 0 .. NPsb : Good(run[k], k)}
<1>1. /\ run[0] = d /\ TimeoutScan(d, ptc) = run[NPsb]
      /\ \A k \in 0 .. NPsb - 1 :
           run[k + 1] = ScanStep(run[k], k + 1, ptc)
  BY <1>0 DEF ScanRun
<1>2. NPsb \in Nat /\ Psb = 1 .. NPsb
  BY SizesAssumption DEF Psb
<1>3. h \in [Psb -> Queues] /\ Marked(d, h)
  BY DEF Settled
<1>4. 0 \in Kept
  <2>1. H(0) = h /\ M(0) = d.timeout
    <3>1. d.timeout \in [Psb -> Nat]
      BY <1>3 DEF Marked
    <3>2. \A p \in Psb : ~ (p <= 0)
      BY <1>2
    <3>3. H(0) = [p \in Psb |-> h[p]] /\ M(0) = [p \in Psb |-> d.timeout[p]]
      BY <3>2
    <3>4. QED
      BY <1>3, <3>1, <3>3
  <2> HIDE DEF H, M
  <2>2. /\ Settled(run[0], H(0), w) /\ Woken(d, h, run[0], H(0)) /\ run[0].timeout = M(0)
        /\ run[0].wakeup = d.wakeup
    BY <1>1, <2>1, WokenSame
  <2>3. QED
    BY <1>2, <2>2
<1>5. ASSUME NEW k \in 0 .. NPsb - 1, k \in Kept PROVE k + 1 \in Kept
  <2>1. k + 1 \in Psb /\ k + 1 \in 0 .. NPsb /\ \A p \in Psb : p <= k + 1 <=> p <= k \/ p = k + 1
    BY <1>2
  <2>2. k + 1 \in Expired(run[k], ptc) <=> k + 1 \in Expired(d, ptc)
    <3>1. run[k].timeout[k + 1] = d.timeout[k + 1]
      BY <1>2, <1>5, <2>1
    <3>2. QED
      BY <2>1, <3>1 DEF Expired
  <2>3. CASE k + 1 \in Expired(d, ptc)
    <3>1. run[k + 1] = Requeue([run[k] EXCEPT !.waiting[k + 1] = FALSE, !.timeout[k + 1] = 0],
                               Nil, Ready, k + 1)
      BY <1>1, <2>2, <2>3 DEF ScanStep
    <3>2. H(k)[k + 1] \in Conditions
      BY <1>2, <1>3, <2>1, <2>3 DEF Expired, Marked
    <3>3. H(k + 1) = [H(k) EXCEPT ![k + 1] = Ready] /\ M(k + 1) = [M(k) EXCEPT ![k + 1] = 0]
      BY <1>2, <2>1, <2>3
    <3>4. /\ Settled(run[k], H(k), w) /\ Woken(d, h, run[k], H(k)) /\ run[k].timeout = M(k)
          /\ run[k].wakeup = d.wakeup
      BY <1>5
    <3> HIDE DEF H, M
    <3>5. /\ Settled(run[k + 1], H(k + 1), w)
          /\ Woken(run[k], H(k), run[k + 1], H(k + 1))
          /\ run[k + 1].timeout = [run[k].timeout EXCEPT ![k + 1] = 0]
          /\ run[k + 1].wakeup = run[k].wakeup
      <4> DEFINE r == run[k]
                 p == k + 1
                 h1 == H(k)
      <4>1. Settled(r, h1, w) /\ p \in Psb /\ h1[p] \in Conditions
        BY <2>1, <3>2, <3>4
      <4>2. run[k + 1] = Requeue([r EXCEPT !.waiting[p] = FALSE, !.timeout[p] = 0], Nil, Ready, p)
        BY <3>1
      <4>3. H(k + 1) = [h1 EXCEPT ![p] = Ready]
        BY <3>3
      <4> HIDE DEF r, p, h1
      <4> DEFINE g == Requeue([r EXCEPT !.waiting[p] = FALSE, !.timeout[p] = 0], Nil, Ready, p)
                 h2 == [h1 EXCEPT ![p] = Ready]
      <4>4. /\ Settled(g, h2, w) /\ Woken(r, h1, g, h2) /\ g.timeout = [r.timeout EXCEPT ![p] = 0]
            /\ g.wakeup = r.wakeup
        BY <4>1, SettledLeave
      <4> HIDE DEF g, h2
      <4>5. QED
        BY <4>2, <4>3, <4>4 DEF g, h2, r, p, h1
    <3>6. Woken(d, h, run[k + 1], H(k + 1))
      BY <3>4, <3>5, WokenOn
    <3>7. QED
      BY <2>1, <3>3, <3>4, <3>5, <3>6
  <2>4. CASE k + 1 \notin Expired(d, ptc)
    <3>1. H(k + 1) = H(k) /\ M(k + 1) = M(k)
      BY <1>2, <2>1, <2>4
    <3> HIDE DEF H, M
    <3>2. QED
      BY <1>1, <1>5, <2>1, <2>2, <2>4, <3>1 DEF ScanStep
  <2>5. QED
    BY <2>3, <2>4
<1>6. Kept \in SUBSET (0 .. NPsb)
  OBVIOUS
<1>7. Good(run[NPsb], NPsb)
  <2> HIDE DEF Kept
  <2>1. Kept = 0 .. NPsb
    BY <1>2, <1>4, <1>5, <1>6, IntervalInduction
  <2>2. NPsb \in Kept
    BY <1>2, <2>1
  <2> HIDE DEF Good
  <2>3. QED
    BY <2>2 DEF Kept
<1>8. /\ H(NPsb) = ScanHomes(d, h, ptc)
      /\ M(NPsb) = [p \in Psb |-> IF p \in Expired(d, ptc) THEN 0 ELSE d.timeout[p]]
  BY <1>2 DEF ScanHomes
<1> HIDE DEF H, M
<1>9. QED
  BY <1>1, <1>7, <1>8

(* Exit unlocks its monitor, and makes the first process of its queue ready. *)
ExitsTo(d, h, m, e, h2) ==
  /\ \A n \in Fields \ {"next", "tail", "cleanup", "locked"} : e[n] = d[n]
  /\ e.locked = [d.locked EXCEPT ![m] = FALSE]
  /\ IF Members(h, m) = {} THEN h2 = h
     ELSE \E p \in Members(h, m) : h2 = [h EXCEPT ![p] = Ready]
  /\ \A c \in Conditions : ~ Stale(d, c) => ~ Stale(e, c)
  /\ Order(e) = Order(d)

(* Exit unlocks the monitor and makes the first of its entry queue ready. *)
LEMMA SettledExit ==
  ASSUME NEW d, NEW h, NEW w, Settled(d, h, w), NEW m \in Monitors
  PROVE  /\ HasQueue(d, m) <=> Members(h, m) # {}
         /\ \E h2 : Settled(Exit(d, m), h2, w) /\ ExitsTo(d, h, m, Exit(d, m), h2)
<1> DEFINE d1 == [d EXCEPT !.locked[m] = FALSE]
           e == Exit(d, m)
<1>1. PICK T \in [Queues -> Psb \cup {Null}] : Rings(d, h, w, T)
  BY DEF Settled, Orderly
<1>2. m \in Queues /\ m \notin Conditions /\ Ready \in Queues /\ Ready \notin Conditions
  BY QueuesAssumption DEF Queues
<1>3. d.tail[m] = T[m] /\ Queue(d.next, d.pri, Members(h, m), T[m])
  BY <1>1, <1>2 DEF Rings
<1>4. HasQueue(d, m) <=> Members(h, m) # {}
  BY <1>3, NullNoPsb DEF HasQueue, Queue, Members
<1>5. IsPda(d) /\ h \in [Psb -> Queues] /\ Orderly(d, h, w) /\ Marked(d, h) /\ Stored(d)
  BY DEF Settled
<1>6. /\ IsPda(d1) /\ DOMAIN d1 = Fields
      /\ \A n \in Fields \ {"locked"} : d1[n] = d[n]
      /\ d1.locked = [d.locked EXCEPT ![m] = FALSE]
  BY <1>5 DEF IsPda, Fields
<1>7. e = IF HasQueue(d, m) THEN Requeue(d1, m, Ready, HeadOf(d1, m)) ELSE d1
  BY DEF Exit
<1> HIDE DEF d1, e
<1>8. /\ d1.next = d.next /\ d1.pri = d.pri /\ d1.cleanup = d.cleanup /\ d1.tail = d.tail
      /\ d1.wakeup = d.wakeup /\ d1.waiting = d.waiting /\ d1.timeout = d.timeout
  BY <1>6 DEF Fields
<1>9. Orderly(d1, h, w) /\ Marked(d1, h) /\ Stored(d1) /\ Order(d1) = Order(d)
  BY <1>5, <1>6, <1>8, OrderlySame DEF Marked, Stored
<1>10. \A c \in Conditions : Stale(d1, c) <=> Stale(d, c)
  BY <1>8 DEF Stale
<1>11. CASE Members(h, m) = {}
  BY <1>4, <1>5, <1>6, <1>7, <1>9, <1>10, <1>11 DEF Settled, e, ExitsTo
<1>12. CASE Members(h, m) # {}
  <2> DEFINE p == HeadOf(d1, m)
             h2 == [h EXCEPT ![p] = Ready]
  <2>1. p \in Members(h, m)
    BY <1>3, <1>8, <1>12 DEF Queue, Cycle, HeadOf
  <2>2. p \in Psb /\ h[p] = m /\ e = Requeue(d1, h[p], Ready, p)
    BY <1>4, <1>7, <1>12, <2>1 DEF Members
  <2> HIDE DEF p
  <2>3. Marked(d1, h2)
    BY <1>2, <1>5, <1>9, <2>2 DEF Marked
  <2>4. h[p] \in Conditions => ~ Stale(d1, h[p])
    BY <1>2, <2>2
  <2>5. /\ Settled(e, h2, w) /\ Relinked(d1, e)
        /\ \A c \in Conditions : ~ Stale(d1, c) => ~ Stale(e, c)
        /\ Order(e) = OrderMoved(d1, h, Ready, p)
    <3> DEFINE g == Requeue(d1, h[p], Ready, p)
    <3>1. /\ Settled(g, [h EXCEPT ![p] = Ready], w) /\ Relinked(d1, g)
          /\ \A c \in Conditions : ~ Stale(d1, c) => ~ Stale(g, c)
          /\ Order(g) = OrderMoved(d1, h, Ready, p)
      BY <1>2, <1>5, <1>6, <1>9, <2>2, <2>3, <2>4, MoveTold
    <3> HIDE DEF g
    <3>2. QED
      BY <2>2, <3>1 DEF g
  <2>a. Order(e) = Order(d)
    <3>1. Order(e) = Gone(Order(d1), {p})
      BY <1>2, <2>5 DEF OrderMoved
    <3>2. Gone(Order(d1), {p}) = Order(d1)
      <4>1. {p} \in SUBSET Psb /\ \A x \in {p} : h[x] \notin Conditions
        BY <1>2, <2>2
      <4>2. QED
        BY <1>5, <1>9, <4>1, GoneNone
    <3>3. QED
      BY <1>9, <3>1, <3>2
  <2>6. ExitsTo(d, h, m, e, h2)
    <3>1. /\ \A n \in Fields \ {"next", "tail", "cleanup", "locked"} : e[n] = d[n]
          /\ e.locked = [d.locked EXCEPT ![m] = FALSE]
      BY <1>6, <2>5 DEF Relinked, Fields
    <3>2. QED
      BY <1>10, <1>12, <2>1, <2>5, <2>a, <3>1 DEF ExitsTo
  <2>7. QED
    BY <1>4, <1>12, <2>5, <2>6 DEF e
<1>13. QED
  BY <1>11, <1>12

(* A process that changes its priority is taken from the ready queue and put *)
(* back where it belongs.                                                   *)
LEMMA SettledRank ==
  ASSUME NEW d, NEW h, NEW w, Settled(d, h, w), NEW p \in Psb, h[p] = Ready, NEW k \in Priority
  PROVE  LET d1 == [d EXCEPT !.pri[p] = k]
             e == Requeue(d1, Ready, Ready, p)
         IN  Settled(e, h, w) /\ Relinked(d1, e) /\ IsPda(d1) /\ Order(e) = Order(d)
<1> DEFINE d1 == [d EXCEPT !.pri[p] = k]
           g0 == Dequeue(d, Ready, p)
           g == Dequeue(d1, Ready, p)
           e == Enqueue(g, Ready, p)
           h1 == [h EXCEPT ![p] = Nil]
           A == Order(d)
<1>1. IsPda(d) /\ h \in [Psb -> Queues] /\ Orderly(d, h, w) /\ Marked(d, h) /\ Stored(d)
  BY DEF Settled
<1>2. PICK T \in [Queues -> Psb \cup {Null}] : Rings(d, h, w, T)
  BY <1>1 DEF Orderly
<1>3. Ready \in Queues /\ Ready \notin Conditions /\ \A y \in Psb : h[y] # Nil
  BY <1>1, QueuesAssumption DEF Queues
<1> DEFINE T1 == TailWithout(d, T, h[p], p)
<1>4. Rings(g0, h1, w, T1) /\ Lined(Gone(A, {p}), g0.next, h1, T1)
  <2>1. Rings(Dequeue(d, h[p], p), [h EXCEPT ![p] = Nil], w, TailWithout(d, T, h[p], p))
    BY <1>2, <1>3, DequeueTold
  <2>2. Lined(A, d.next, h, T)
    BY <1>1, <1>2, LinedOrder
  <2>3. Lined(Gone(A, {p}), Dequeue(d, Ready, p).next, [h EXCEPT ![p] = Nil],
              TailWithout(d, T, h[p], p))
    BY <1>1, <1>2, <2>2, DequeueLined
  <2>4. QED
    BY <2>1, <2>3
<1>a. Gone(A, {p}) = A
  <2>1. {p} \in SUBSET Psb /\ \A x \in {p} : h[x] \notin Conditions
    BY <1>3
  <2>2. QED
    BY <1>1, <2>1, GoneNone
<1> HIDE DEF T1, A
<1>5. /\ IsPda(d1) /\ \A n \in Fields \ {"pri"} : d1[n] = d[n]
      /\ d1.pri = [d.pri EXCEPT ![p] = k]
  BY <1>1 DEF IsPda, Fields
<1>6. d1.next = d.next /\ d1.tail = d.tail /\ d1.cleanup = d.cleanup /\ Pred(d1, p) = Pred(d, p)
  BY <1>5 DEF Fields, Pred
<1>7. DOMAIN d = Fields /\ DOMAIN d1 = Fields /\ DOMAIN g0 = Fields
  BY <1>1, <1>4, <1>5 DEF IsPda, Rings, RingsTyped
<1>8. Relinked(d1, g) /\ Relinked(g, e) /\ Relinked(d, g0)
  <2>1. Relinked(d1, g) /\ DOMAIN g = Fields
    BY <1>7, DequeueRelinks DEF Relinked
  <2>2. QED
    BY <1>7, <2>1, DequeueRelinks, EnqueueRelinks
<1>9. g.next = g0.next /\ g.tail = g0.tail /\ g.cleanup = g0.cleanup
  <2> HIDE DEF d1
  <2>1. ASSUME NEW x, NEW n \in {"next", "tail", "cleanup"}
        PROVE  /\ [d1 EXCEPT !.next[x] = d1.next[p]][n] = [d EXCEPT !.next[x] = d.next[p]][n]
               /\ [d1 EXCEPT !.next[x] = d1.next[p]].tail = d.tail
               /\ [d EXCEPT !.next[x] = d.next[p]].tail = d.tail
    BY <1>6, <1>7 DEF Fields
  <2>2. QED
    BY <1>6, <1>7, QueuesAssumption DEF Dequeue, Fields, Queues
<1>10. g.pri = [d.pri EXCEPT ![p] = k] /\ g0.pri = d.pri
  BY <1>5, <1>8 DEF Relinked, Fields
<1>11. \A c \in Conditions : g0.tail[c] = d.tail[c]
  BY <1>2, <1>3 DEF Dequeue, Rings, RingsTyped, Fields, Queues
<1> HIDE DEF d1, g0, g, e
<1>12. Rings(g, h1, w, T1)
  <2>1. RingsTyped(g, h1, T1)
    <3>1. RingsTyped(g0, h1, T1) /\ d.pri \in [Psb -> Priority]
      BY <1>2, <1>4 DEF Rings, RingsTyped
    <3>2. g.pri \in [Psb -> Priority] /\ DOMAIN g = Fields
      BY <1>7, <1>8, <1>10, <3>1 DEF Relinked
    <3>3. QED
      BY <1>9, <3>1, <3>2 DEF RingsTyped
  <2>2. ASSUME NEW q \in Queues PROVE Queue(g.next, g.pri, Members(h1, q), T1[q])
    <3>1. Queue(g0.next, g0.pri, Members(h1, q), T1[q])
      BY <1>4 DEF Rings
    <3>2. p \notin Members(h1, q)
      BY <1>1, QueuesAssumption DEF Members
    <3>3. \A x \in Members(h1, q) : g0.next[x] \in Members(h1, q)
      BY <3>1 DEF Queue, Cycle
    <3>4. \A x \in Members(h1, q) : g.pri[x] = g0.pri[x]
      BY <1>2, <1>10, <3>2 DEF Members, Rings, RingsTyped
    <3>5. QED
      BY <1>9, <3>1, <3>3, <3>4 DEF Queue
  <2>3. ASSUME NEW c \in Conditions PROVE TailFinds(g, c, Members(h1, c), T1[c])
    <3>1. TailFinds(g0, c, Members(h1, c), T1[c])
      BY <1>4 DEF Rings
    <3>2. Stale(g, c) <=> Stale(g0, c)
      BY <1>9 DEF Stale
    <3>3. QED
      BY <1>9, <3>1, <3>2 DEF TailFinds
  <2>4. QED
    BY <1>4, <1>9, <2>1, <2>2, <2>3 DEF Rings, Stale
<1>13. h1[p] = Nil /\ [h1 EXCEPT ![p] = Ready] = h
  BY <1>1
<1> HIDE DEF h1
<1>14. /\ Rings(e, h, w, [T1 EXCEPT ![Ready] = e.tail[Ready]])
       /\ \A r \in Queues \ {Ready} : e.tail[r] = g.tail[r]
  BY <1>3, <1>12, <1>13, EnqueueRings DEF e
<1>b. Order(e) = A
  <2> DEFINE T2 == [T1 EXCEPT ![Ready] = e.tail[Ready]]
  <2>1. Lined(A, g.next, h1, T1)
    BY <1>4, <1>9, <1>a
  <2>2. Lined(A, Enqueue(g, Ready, p).next, [h1 EXCEPT ![p] = Ready],
              [T1 EXCEPT ![Ready] = Enqueue(g, Ready, p).tail[Ready]])
    BY <1>3, <1>12, <1>13, <2>1, EnqueueLined
  <2>3. Lined(A, e.next, h, T2)
    BY <1>13, <2>2 DEF e
  <2> HIDE DEF T2
  <2>4. Rings(e, h, w, T2)
    BY <1>14 DEF T2
  <2>5. Lined(Order(e), e.next, h, T2)
    BY <1>1, <2>4, LinedOrder
  <2>6. QED
    BY <2>3, <2>4, <2>5, LinedUnique
<1>15. Orderly(e, h, w)
  BY <1>14 DEF Orderly, Rings, RingsTyped
<1>16. Relinked(d1, e)
  BY <1>8 DEF Relinked
<1>17. e = Requeue(d1, Ready, Ready, p)
  BY DEF Requeue, e, g
<1>18. IsPda(e)
  BY <1>5, <1>17, PdaRequeue
<1>19. e.waiting = d.waiting /\ e.timeout = d.timeout /\ e.wakeup = d.wakeup
  BY <1>5, <1>16 DEF Relinked, Fields
<1>20. Stored(e)
  BY <1>1, <1>3, <1>9, <1>11, <1>14, <1>19 DEF Stored, Queues
<1>21. Settled(e, h, w)
  BY <1>1, <1>15, <1>18, <1>19, <1>20 DEF Settled, Marked
<1>22. QED
  BY <1>5, <1>16, <1>17, <1>21, <1>b DEF d1, A

-----------------------------------------------------------------------------
(* What a process that runs may change about its waits. *)

(* It may go to wait on another condition, unless the queue of the one it    *)
(* returns from still seems to end with it.                                 *)
LEMMA OrderlyTarget ==
  ASSUME NEW d, NEW h, NEW w, Orderly(d, h, w), NEW p \in Psb, h[p] \notin Conditions,
         d.cleanup[p] = Null, w[p] \in Conditions => ~ Stale(d, w[p]),
         NEW v, \A x \in Psb \ {p} : v[x] = w[x]
  PROVE  Orderly(d, h, v)
<1>1. PICK T \in [Queues -> Psb \cup {Null}] : Rings(d, h, w, T)
  BY DEF Orderly
<1>2. ASSUME NEW c \in Conditions, Stale(d, c), NEW x \in Reach(d.cleanup, d.tail[c])
      PROVE  v[x] = c
  <2>1. w[x] = c
    BY <1>1, <1>2 DEF Rings
  <2>2. x # p /\ x \in Psb
    BY <1>2, <2>1 DEF Reach
  <2>3. QED
    BY <2>1, <2>2
<1>3. \A x \in Psb : h[x] \in Conditions => d.cleanup[x] = Null /\ v[x] = h[x]
  BY <1>1 DEF Rings
<1>4. \A x \in Psb : d.cleanup[x] # Null => v[x] \in Conditions
  BY <1>1 DEF Rings
<1>5. Rings(d, h, v, T)
  BY <1>1, <1>2, <1>3, <1>4 DEF Rings
<1>6. QED
  BY <1>5 DEF Orderly

(* Its cleanup link is forgotten once nobody needs to follow it. *)
LEMMA OrderlyForget ==
  ASSUME NEW d, NEW h, NEW w, Orderly(d, h, w), NEW p \in Psb, h[p] \notin Conditions,
         w[p] \in Conditions => ~ Stale(d, w[p]),
         NEW e, DOMAIN e = Fields, e.next = d.next, e.pri = d.pri, e.tail = d.tail,
         e.cleanup = [d.cleanup EXCEPT ![p] = Null]
  PROVE  Orderly(e, h, w) /\ (h \in [Psb -> Queues] => Order(e) = Order(d))
<1>1. PICK T \in [Queues -> Psb \cup {Null}] : Rings(d, h, w, T)
  BY DEF Orderly
<1>2. /\ d.cleanup \in [Psb -> Psb \cup {Null}] /\ d.tail \in [Queues -> Psb \cup {Null}]
      /\ Conditions \subseteq Queues
  BY <1>1 DEF Rings, RingsTyped, Queues
<1>3. ASSUME NEW c \in Conditions, Stale(d, c)
      PROVE  /\ d.tail[c] \in Psb /\ p \notin Reach(d.cleanup, d.tail[c])
             /\ Reach(e.cleanup, d.tail[c]) = Reach(d.cleanup, d.tail[c])
             /\ \A x \in Reach(d.cleanup, d.tail[c]) : e.cleanup[x] = d.cleanup[x]
  <2>1. d.tail[c] \in Psb
    BY <1>2, <1>3 DEF Stale
  <2>2. p \notin Reach(d.cleanup, d.tail[c])
    BY <1>1, <1>3 DEF Rings
  <2>3. \A x \in Reach(d.cleanup, d.tail[c]) : e.cleanup[x] = d.cleanup[x]
    BY <1>2, <2>2 DEF Reach
  <2>4. Reach(e.cleanup, d.tail[c]) = Reach(d.cleanup, d.tail[c])
    <3> DEFINE f == d.cleanup
               g == e.cleanup
               a == d.tail[c]
    <3>1. f \in [Psb -> Psb \cup {Null}] /\ a \in Psb /\ \A x \in Reach(f, a) : g[x] = f[x]
      BY <1>2, <2>1, <2>3
    <3> HIDE DEF f, g, a
    <3>2. Reach(g, a) = Reach(f, a)
      BY <3>1, ReachSame
    <3>3. QED
      BY <3>2 DEF f, g, a
  <2>5. QED
    BY <2>1, <2>2, <2>3, <2>4
<1>4. ASSUME NEW c \in Conditions PROVE Stale(e, c) <=> Stale(d, c)
  <2>1. CASE Stale(d, c)
    <3>1. d.tail[c] \in Reach(d.cleanup, d.tail[c])
      BY <1>3, <2>1, ReachStart
    <3>2. QED
      BY <1>3, <2>1, <3>1 DEF Stale
  <2>2. CASE ~ Stale(d, c)
    BY <1>2, <2>2, NullNoPsb DEF Stale
  <2>3. QED
    BY <2>1, <2>2
<1>5. ASSUME NEW c \in Conditions PROVE TailFinds(e, c, Members(h, c), T[c])
  <2>1. CASE d.tail[c] = T[c]
    BY <2>1 DEF TailFinds
  <2>2. CASE d.tail[c] # T[c]
    <3>1. /\ Stale(d, c)
          /\ \E y \in Psb : /\ Leads(d.cleanup, d.tail[c], y)
                            /\ IF d.cleanup[y] = Null
                               THEN Members(h, c) # {} /\ y = d.next[T[c]] ELSE Members(h, c) = {}
      BY <1>1, <2>2 DEF Rings, TailFinds
    <3>2. PICK y \in Psb : /\ Leads(d.cleanup, d.tail[c], y)
                           /\ IF d.cleanup[y] = Null
                              THEN Members(h, c) # {} /\ y = d.next[T[c]] ELSE Members(h, c) = {}
      BY <3>1
    <3>3. y \in Reach(d.cleanup, d.tail[c])
      BY <3>2 DEF Leads
    <3>4. e.cleanup[y] = d.cleanup[y] /\ Leads(e.cleanup, d.tail[c], y)
      BY <1>3, <3>1, <3>2, <3>3 DEF Leads
    <3>5. QED
      BY <1>4, <3>1, <3>2, <3>4 DEF TailFinds
  <2>3. QED
    BY <2>1, <2>2
<1>6. ASSUME NEW c \in Conditions, Stale(e, c)
      PROVE  \A x \in Reach(e.cleanup, e.tail[c]) : w[x] = c
  BY <1>1, <1>3, <1>4, <1>6 DEF Rings
<1>7. /\ \A x \in Psb : h[x] \in Conditions => e.cleanup[x] = Null /\ w[x] = h[x]
      /\ \A x \in Psb : e.cleanup[x] # Null => w[x] \in Conditions
  BY <1>1, <1>2 DEF Rings
<1>8. RingsTyped(e, h, T)
  BY <1>1 DEF Rings, RingsTyped
<1>9. Rings(e, h, w, T)
  BY <1>1, <1>5, <1>6, <1>7, <1>8 DEF Rings
<1>10. h \in [Psb -> Queues] => Order(e) = Order(d)
  BY <1>1, <1>9, OrderSame
<1>11. QED
  BY <1>9, <1>10 DEF Orderly


-----------------------------------------------------------------------------
(* The scheduler's choice. *)

(* No ready process that could run has a higher priority than the first one. *)
LEMMA FirstIsHighest ==
  ASSUME NEW d, NEW h, NEW w, Orderly(d, h, w), NEW p \in FirstRunnable(d)
  PROVE  /\ p \in Members(h, Ready) /\ Runnable(d, p)
         /\ \A x \in Members(h, Ready) : Runnable(d, x) => d.pri[x] <= d.pri[p]
<1> DEFINE S == Members(h, Ready)
           f == d.next
           t == d.tail[Ready]
           P == Prefix(d, Ready, p)
           A == {x \in S : x \in P \/ d.pri[x] <= d.pri[p]}
<1>1. PICK T \in [Queues -> Psb \cup {Null}] : Rings(d, h, w, T)
  BY DEF Orderly
<1>2. Ready \in Queues /\ Ready \notin Conditions
  BY QueuesAssumption DEF Queues
<1>3. Ring(d, Ready) = S /\ t = T[Ready] /\ Queue(f, d.pri, S, t)
  BY <1>1, <1>2, FreshRing, FreshTail DEF Rings
<1>4. p \in S /\ Runnable(d, p) /\ \A x \in P \ {p} : ~ Runnable(d, x)
  BY <1>3 DEF FirstRunnable
<1>5. /\ t \in S /\ Cycle(f, S) /\ f \in [Psb -> Psb] /\ S \in SUBSET Psb
      /\ d.pri \in [Psb -> Priority] /\ \A x \in S \ {t} : d.pri[x] >= d.pri[f[x]]
  BY <1>1, <1>3, <1>4 DEF Queue, Rings, RingsTyped, Members
<1>6. f[t] \in S /\ \A x \in S : f[x] \in S
  BY <1>5 DEF Cycle
<1>7. P = Reach([f EXCEPT ![p] = Null], f[t])
  BY DEF Prefix, HeadOf
<1> HIDE DEF S, f, t, P
<1>8. P \subseteq S /\ f[t] \in P /\ p \in P /\ \A y \in P \ {p} : f[y] \in P
  BY <1>4, <1>5, <1>6, <1>7, PrefixWalk
<1>9. \A x \in S : d.pri[x] \in Int
  BY <1>5, SizesAssumption DEF Priority
<1>10. ASSUME NEW y \in A PROVE f[y] \in A
  <2>1. y \in S /\ f[y] \in S
    BY <1>6, <1>10
  <2>2. CASE y = t
    BY <1>6, <1>8, <2>2
  <2>3. CASE y # t /\ y \in P \ {p}
    BY <1>8, <2>1, <2>3
  <2>4. CASE y # t /\ y \notin P \ {p}
    <3>1. d.pri[y] <= d.pri[p] /\ d.pri[y] >= d.pri[f[y]]
      BY <1>5, <1>9, <1>10, <2>1, <2>4
    <3>2. d.pri[f[y]] <= d.pri[p]
      BY <1>4, <1>9, <2>1, <3>1
    <3>3. QED
      BY <2>1, <3>2
  <2>5. QED
    BY <2>2, <2>3, <2>4
<1>11. A = S
  <2>1. A \in SUBSET S /\ A # {}
    BY <1>6, <1>8
  <2> HIDE DEF A
  <2>2. QED
    BY <1>5, <1>10, <2>1 DEF Cycle
<1>12. ASSUME NEW x \in S, Runnable(d, x) PROVE d.pri[x] <= d.pri[p]
  <2>1. x \in P \/ d.pri[x] <= d.pri[p]
    BY <1>11
  <2>2. x = p => d.pri[x] <= d.pri[p]
    BY <1>9
  <2>3. QED
    BY <1>4, <1>12, <2>1, <2>2
<1>13. QED
  BY <1>4, <1>12 DEF S

(* When there is no first one, no ready process could run. *)
LEMMA FirstOfNone ==
  ASSUME NEW d, NEW h, NEW w, Orderly(d, h, w), FirstRunnable(d) = {},
         NEW p \in Members(h, Ready)
  PROVE  ~ Runnable(d, p)
<1> DEFINE S == Members(h, Ready)
           f == d.next
           a == f[d.tail[Ready]]
           P(x) == Prefix(d, Ready, x)
           A == {x \in S : \A y \in P(x) : ~ Runnable(d, y)}
<1>1. PICK T \in [Queues -> Psb \cup {Null}] : Rings(d, h, w, T)
  BY DEF Orderly
<1>2. Ready \in Queues /\ Ready \notin Conditions
  BY QueuesAssumption DEF Queues
<1>3. Ring(d, Ready) = S /\ d.tail[Ready] = T[Ready] /\ Queue(f, d.pri, S, T[Ready])
  BY <1>1, <1>2, FreshRing, FreshTail DEF Rings
<1>4. d.tail[Ready] \in S /\ Cycle(f, S) /\ f \in [Psb -> Psb] /\ S \in SUBSET Psb
  BY <1>1, <1>3 DEF Queue, Rings, RingsTyped, Members
<1>5. a \in S /\ \A x \in S : f[x] \in S
  BY <1>4 DEF Cycle
<1>6. \A x \in S : P(x) = Reach([f EXCEPT ![x] = Null], a)
  BY DEF Prefix, HeadOf
<1>7. \A x \in S : Runnable(d, x) => \E y \in P(x) \ {x} : Runnable(d, y)
  BY <1>3 DEF FirstRunnable
<1> HIDE DEF S, f, a, P
<1>8. ASSUME NEW x \in S
      PROVE  P(x) \subseteq S /\ a \in P(x) /\ x \in P(x) /\ \A y \in P(x) \ {x} : f[y] \in P(x)
  <2> DEFINE Q == Reach([f EXCEPT ![x] = Null], a)
  <2>1. Q \subseteq S /\ a \in Q /\ x \in Q /\ \A y \in Q \ {x} : f[y] \in Q
    BY <1>4, <1>5, PrefixWalk
  <2>2. P(x) = Q
    BY <1>6
  <2> HIDE DEF Q
  <2>3. QED
    BY <2>1, <2>2
<1>9. a \in A
  <2>1. [f EXCEPT ![a] = Null][a] = Null /\ a \in Psb
    BY <1>4, <1>5
  <2>2. P(a) = {a}
    BY <1>5, <1>6, <2>1, LeadsSelf
  <2>3. QED
    BY <1>5, <1>7, <2>2
<1>10. ASSUME NEW y \in A PROVE f[y] \in A
  <2> DEFINE z == f[y]
             g == [f EXCEPT ![z] = Null]
             B == P(y) \cup {z}
  <2>1. y \in S /\ z \in S /\ z \in Psb
    BY <1>4, <1>5, <1>10
  <2>2. B \in SUBSET Psb /\ a \in B
    BY <1>4, <1>8, <2>1
  <2>3. ASSUME NEW x \in B PROVE g[x] \in B \cup {Null}
    <3>1. x \in Psb
      BY <2>2, <2>3
    <3>2. CASE x = z
      BY <1>4, <3>1, <3>2
    <3>3. CASE x # z /\ x = y
      BY <1>4, <3>1, <3>3
    <3>4. CASE x # z /\ x # y
      BY <1>4, <1>8, <2>1, <2>3, <3>1, <3>4
    <3>5. QED
      BY <3>2, <3>3, <3>4
  <2>4. P(z) \subseteq B
    <3>1. P(z) = Reach(g, a)
      BY <1>6, <2>1
    <3> HIDE DEF B, g, z
    <3>2. QED
      BY <2>2, <2>3, <3>1, ReachLeast
  <2>5. \A x \in P(z) \ {z} : ~ Runnable(d, x)
    BY <1>10, <2>4
  <2>6. ~ Runnable(d, z)
    BY <1>7, <2>1, <2>5
  <2>7. QED
    BY <2>1, <2>5, <2>6
<1>11. A = S
  <2>1. A \in SUBSET S /\ A # {}
    BY <1>9
  <2> HIDE DEF A
  <2>2. QED
    BY <1>4, <1>10, <2>1 DEF Cycle
<1>12. p \in S
  BY DEF S
<1>13. QED
  BY <1>8, <1>11, <1>12
=============================================================================
