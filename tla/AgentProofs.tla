---------------------------- MODULE AgentProofs -----------------------------
(***************************************************************************)
(* For any number of requests, pages, packets and words: what the agents'    *)
(* threads do with the requests of the driver.                              *)
(*                                                                          *)
(* The argument.  DiskInv and NetInv say, for every request, where it is    *)
(* (on the driver's chain, in the queue, with a thread, answered) and what  *)
(* has been done to it by then: the pages moved, the packet copied, the     *)
(* status written, the interrupt still to come.  A request is in one place  *)
(* at a time, and queues change at their ends only.  StreamInv says that    *)
(* the driver has the first words of the boot file, and its buffer the next.*)
(* FloppyInv says how far Call ever came in its chain: what is before that  *)
(* is done, and is passed over when Call starts again.                      *)
(***************************************************************************)
EXTENDS MCAgents, SequenceTheorems, FiniteSetTheorems, WellFoundedInduction, TLAPS

-----------------------------------------------------------------------------
(* Queues and chains. *)

Elems(s) == {s[k] : k \in DOMAIN s}
Distinct(s) == \A j, k \in DOMAIN s : s[j] = s[k] => j = k

(* The rest of a queue without what is at its head. *)
LEMMA TailOf ==
  ASSUME NEW X, NEW s \in Seq(X), s # << >>
  PROVE  /\ Tail(s) \in Seq(X) /\ Head(s) \in X /\ Head(s) = s[1] /\ 1 \in DOMAIN s
         /\ DOMAIN Tail(s) = 1 .. Len(s) - 1 /\ DOMAIN s = 1 .. Len(s)
         /\ Len(Tail(s)) = Len(s) - 1 /\ Len(s) \in Nat \ {0}
         /\ \A k \in 1 .. Len(s) - 1 : Tail(s)[k] = s[k + 1] /\ k + 1 \in DOMAIN s /\ k + 1 # 1
         /\ \A k \in DOMAIN s : k # 1 => k - 1 \in DOMAIN Tail(s) /\ Tail(s)[k - 1] = s[k]
<1>1. /\ Tail(s) \in Seq(X) /\ Head(s) \in X /\ Head(s) = s[1]
      /\ DOMAIN s = 1 .. Len(s) /\ Len(Tail(s)) = Len(s) - 1 /\ Len(s) \in Nat \ {0}
      /\ \A k \in 1 .. Len(s) - 1 : Tail(s)[k] = s[k + 1]
  OBVIOUS
<1>2. DOMAIN Tail(s) = 1 .. Len(s) - 1 /\ 1 \in DOMAIN s
  BY <1>1
<1>3. \A k \in 1 .. Len(s) - 1 : k + 1 \in DOMAIN s /\ k + 1 # 1
  BY <1>1
<1>4. ASSUME NEW k \in DOMAIN s, k # 1
      PROVE  k - 1 \in DOMAIN Tail(s) /\ Tail(s)[k - 1] = s[k]
  <2>1. k - 1 \in 1 .. Len(s) - 1 /\ (k - 1) + 1 = k
    BY <1>1, <1>4
  <2>2. QED
    BY <1>1, <1>2, <2>1
<1>5. QED
  BY <1>1, <1>2, <1>3, <1>4

(* It has the same elements but that one, if there are no two alike. *)
LEMMA TailElems ==
  ASSUME NEW X, NEW s \in Seq(X), s # << >>
  PROVE  /\ Elems(s) = {Head(s)} \cup Elems(Tail(s))
         /\ Distinct(s) => Distinct(Tail(s)) /\ Head(s) \notin Elems(Tail(s))
<1>1. /\ Tail(s) \in Seq(X) /\ Head(s) \in X /\ Head(s) = s[1] /\ 1 \in DOMAIN s
      /\ DOMAIN Tail(s) = 1 .. Len(s) - 1 /\ DOMAIN s = 1 .. Len(s)
      /\ Len(Tail(s)) = Len(s) - 1 /\ Len(s) \in Nat \ {0}
      /\ \A k \in 1 .. Len(s) - 1 : Tail(s)[k] = s[k + 1] /\ k + 1 \in DOMAIN s /\ k + 1 # 1
      /\ \A k \in DOMAIN s : k # 1 => k - 1 \in DOMAIN Tail(s) /\ Tail(s)[k - 1] = s[k]
  BY TailOf
<1>2. Elems(s) \subseteq {Head(s)} \cup Elems(Tail(s))
  <2>1. SUFFICES ASSUME NEW k \in DOMAIN s, k # 1 PROVE s[k] \in Elems(Tail(s))
    BY <1>1 DEF Elems
  <2>2. k - 1 \in DOMAIN Tail(s) /\ Tail(s)[k - 1] = s[k]
    BY <1>1, <2>1
  <2>3. QED
    BY <2>2 DEF Elems
<1>3. {Head(s)} \cup Elems(Tail(s)) \subseteq Elems(s)
  BY <1>1 DEF Elems
<1>4. ASSUME Distinct(s) PROVE Distinct(Tail(s))
  <2>1. SUFFICES ASSUME NEW j \in DOMAIN Tail(s), NEW k \in DOMAIN Tail(s), Tail(s)[j] = Tail(s)[k]
                 PROVE  j = k
    BY DEF Distinct
  <2>2. j + 1 = k + 1
    BY <1>1, <1>4, <2>1 DEF Distinct
  <2>3. QED
    BY <1>1, <2>2
<1>5. ASSUME Distinct(s) PROVE Head(s) \notin Elems(Tail(s))
  BY <1>1, <1>5 DEF Distinct, Elems
<1>6. QED
  BY <1>2, <1>3, <1>4, <1>5

(* A queue with one more at its end. *)
LEMMA AppendElems ==
  ASSUME NEW X, NEW s \in Seq(X), NEW x \in X
  PROVE  /\ Append(s, x) \in Seq(X) /\ Append(s, x) # << >>
         /\ Elems(Append(s, x)) = Elems(s) \cup {x}
         /\ Distinct(s) /\ x \notin Elems(s) => Distinct(Append(s, x))
         /\ s # << >> => Head(Append(s, x)) = Head(s) /\ Tail(Append(s, x)) = Append(Tail(s), x)
<1> DEFINE a == Append(s, x)
<1>1. /\ a \in Seq(X) /\ Len(a) = Len(s) + 1 /\ Len(s) \in Nat /\ a[Len(s) + 1] = x
      /\ \A k \in 1 .. Len(s) : a[k] = s[k]
      /\ DOMAIN a = 1 .. Len(s) + 1 /\ DOMAIN s = 1 .. Len(s)
  OBVIOUS
<1>2. a # << >>
  BY <1>1
<1>3. DOMAIN a = DOMAIN s \cup {Len(s) + 1} /\ Len(s) + 1 \notin DOMAIN s
  BY <1>1
<1>4. s # << >> => Head(a) = Head(s) /\ Tail(a) = Append(Tail(s), x)
  OBVIOUS
<1> HIDE DEF a
<1>5. Elems(a) = Elems(s) \cup {x}
  BY <1>1, <1>3 DEF Elems
<1>6. Distinct(s) /\ x \notin Elems(s) => Distinct(a)
  BY <1>1, <1>3 DEF Distinct, Elems
<1>7. QED
  BY <1>1, <1>2, <1>4, <1>5, <1>6 DEF a

(* A chain of requests of the driver. *)
LEMMA NoElems == ASSUME NEW X PROVE << >> \in Seq(X) /\ Elems(<< >>) = {} /\ Distinct(<< >>)
  BY DEF Elems, Distinct

-----------------------------------------------------------------------------
(* The disk agent. *)

(* A request that is still to be begun. *)
Fresh(i) == status[i] = "inProgress" /\ moved[i] = 0 /\ pageCount[i] = asked[i]

Told == worker \in {"notify", "pop"}

(* Where the call and the thread are in their work on the requests. *)
DiskPlaces ==
  /\ Distinct(queue) /\ Distinct(chain)
  /\ worker \in {"process", "move", "count", "status", "notify", "pop"} => queue # << >>
  /\ call \in {"idle", "off"} => chain = << >>
  /\ call = "push" => chain # << >>
  /\ ~ Told => Elems(queue) \cap Elems(chain) = {}
  /\ Told => Elems(queue) \cap Elems(chain) \subseteq {Head(queue)}

(* What has been done for each request. *)
DiskWork ==
  /\ \A i \in Elems(chain) : Fresh(i)
  /\ \A i \in Elems(queue) :
       Fresh(i) \/ (i = Head(queue) /\ worker \in {"move", "count", "status", "notify", "pop"})
  /\ worker = "move" => /\ status[Head(queue)] = "inProgress" /\ index = moved[Head(queue)]
                        /\ index <= pageCount[Head(queue)]
                        /\ pageCount[Head(queue)] = asked[Head(queue)]
  /\ worker \in {"count", "status"} =>
       status[Head(queue)] = "inProgress" /\ moved[Head(queue)] = asked[Head(queue)]
  /\ Told /\ status[Head(queue)] = "inProgress" => Head(queue) \in Elems(chain)
  /\ \A i \in DiskIOCBs : status[i] = "completed" =>
       /\ moved[i] = asked[i]
       /\ interrupt \/ (worker = "notify" /\ Head(queue) = i)

DiskInv == D!TypeOK /\ DiskPlaces /\ DiskWork

(* The types of the sequences. *)
LEMMA DiskTypes ==
  ASSUME D!TypeOK
  PROVE  /\ queue \in Seq(DiskIOCBs) /\ chain \in Seq(DiskIOCBs)
         /\ Elems(queue) \subseteq DiskIOCBs /\ Elems(chain) \subseteq DiskIOCBs
         /\ queue # << >> => Head(queue) \in Elems(queue)
         /\ MaxPages \in Nat
<1>1. queue \in Seq(DiskIOCBs) /\ chain \in Seq(DiskIOCBs)
  BY DEF D!TypeOK
<1>2. Elems(queue) \subseteq DiskIOCBs /\ Elems(chain) \subseteq DiskIOCBs
  BY <1>1 DEF Elems
<1>3. queue # << >> => Head(queue) \in Elems(queue)
  BY <1>1, TailElems
<1>4. QED
  BY <1>1, <1>2, <1>3, AgentsAssumption

(* The steps of process leave the queue and the chain alone. *)
LEMMA DiskProcess == ASSUME DiskInv, D!Process PROVE DiskInv'
<1>1. /\ UNCHANGED <<queue, chain, call, agentStopped, stopThread, asked>>
      /\ Elems(queue)' = Elems(queue) /\ Elems(chain)' = Elems(chain)
  BY DEF D!Process, D!Begin, D!Move, D!MoveDone, D!Outcome, D!Notify, D!driver, D!iocb, D!qvars, Elems
<1>2. /\ queue \in Seq(DiskIOCBs) /\ chain \in Seq(DiskIOCBs)
      /\ Elems(queue) \subseteq DiskIOCBs /\ Elems(chain) \subseteq DiskIOCBs
      /\ queue # << >> => Head(queue) \in Elems(queue)
      /\ MaxPages \in Nat
  BY DiskTypes DEF DiskInv
<1>3. CASE D!Begin
  <2>1. D!TypeOK'
    BY <1>1, <1>2, <1>3 DEF DiskInv, D!TypeOK, D!Begin, D!iocb, D!Unlocked
  <2>2. DiskPlaces'
    BY <1>1, <1>2, <1>3 DEF DiskInv, DiskPlaces, Told, D!Begin, Distinct
  <2>3. DiskWork'
    BY <1>1, <1>2, <1>3 DEF DiskInv, D!TypeOK, DiskPlaces, DiskWork, Told, Fresh, D!Begin, D!iocb
  <2>4. QED
    BY <2>1, <2>2, <2>3 DEF DiskInv
<1>4. CASE D!Move
  <2>1. D!TypeOK'
    <3>1. /\ Head(queue) \in DiskIOCBs /\ index \in Nat /\ index < pageCount[Head(queue)]
          /\ pageCount[Head(queue)] \in 0 .. MaxPages /\ index' = index + 1
          /\ moved' = [moved EXCEPT ![Head(queue)] = @ + 1]
          /\ moved \in [DiskIOCBs -> Nat]
      BY <1>2, <1>4 DEF DiskInv, DiskPlaces, D!TypeOK, D!Move, D!Item
    <3>2. index' \in 0 .. MaxPages /\ moved' \in [DiskIOCBs -> Nat]
      BY <1>2, <3>1
    <3>3. QED
      BY <1>1, <1>2, <1>4, <3>2 DEF DiskInv, D!TypeOK, D!Move, D!qvars
  <2>2. DiskPlaces'
    BY <1>1, <1>2, <1>4 DEF DiskInv, DiskPlaces, Told, D!Move, D!Item, D!qvars, Distinct
  <2>3. DiskWork'
    BY SMTT(30), <1>1, <1>2, <1>4 DEF DiskInv, D!TypeOK, DiskPlaces, DiskWork, Told, Fresh, D!Move, D!Item, D!qvars
  <2>4. QED
    BY <2>1, <2>2, <2>3 DEF DiskInv
<1>5. CASE D!MoveDone
  <2>1. D!TypeOK'
    BY <1>1, <1>2, <1>5 DEF DiskInv, D!TypeOK, D!MoveDone, D!Item, D!iocb
  <2>2. DiskPlaces'
    BY <1>1, <1>2, <1>5 DEF DiskInv, DiskPlaces, Told, D!MoveDone, Distinct
  <2>3. DiskWork'
    BY <1>1, <1>2, <1>5 DEF DiskInv, D!TypeOK, DiskPlaces, DiskWork, Told, Fresh, D!MoveDone, D!Item, D!iocb
  <2>4. QED
    BY <2>1, <2>2, <2>3 DEF DiskInv
<1>6. CASE D!Outcome
  <2>1. Head(queue) \in DiskIOCBs /\ worker \in {"count", "status"}
        /\ status[Head(queue)] = "inProgress" /\ moved[Head(queue)] = asked[Head(queue)]
    BY <1>2, <1>6 DEF DiskInv, DiskPlaces, DiskWork, D!Outcome
  <2>2. CASE /\ worker = "count" /\ worker' = "status"
             /\ pageCount' = [pageCount EXCEPT ![D!Item] = 0] /\ UNCHANGED status
    <3>1. D!TypeOK'
      BY <1>1, <1>2, <1>6, <2>1, <2>2 DEF DiskInv, D!TypeOK, D!Outcome, D!Item
    <3>2. DiskPlaces'
      BY <1>1, <1>2, <2>2 DEF DiskInv, DiskPlaces, Told, Distinct
    <3>3. \A i \in Elems(queue) \cup Elems(chain) : i # Head(queue) => Fresh(i)' \/ ~ Fresh(i)
      BY <1>1, <1>2, <1>6, <2>2 DEF DiskInv, D!TypeOK, Fresh, D!Outcome, D!Item
    <3>4. Head(queue) \notin Elems(chain)
      BY <1>2, <2>2 DEF DiskInv, DiskPlaces, Told
    <3>5. QED
      BY <1>1, <1>2, <1>6, <2>1, <2>2, <3>1, <3>2, <3>3, <3>4
         DEF DiskInv, DiskPlaces, DiskWork, Told, D!Outcome, D!Item
  <2>3. CASE /\ worker = "status" /\ worker' = "notify"
             /\ status' = [status EXCEPT ![D!Item] = "completed"] /\ UNCHANGED pageCount
    <3>1. D!TypeOK'
      BY <1>1, <1>2, <1>6, <2>1, <2>3 DEF DiskInv, D!TypeOK, D!Outcome, D!Item
    <3>2. DiskPlaces'
      BY <1>1, <1>2, <2>3 DEF DiskInv, DiskPlaces, Told, Distinct
    <3>3. \A i \in Elems(queue) \cup Elems(chain) : i # Head(queue) => Fresh(i)' \/ ~ Fresh(i)
      BY <1>1, <1>2, <1>6, <2>3 DEF DiskInv, D!TypeOK, Fresh, D!Outcome, D!Item
    <3>4. Head(queue) \notin Elems(chain)
      BY <1>2, <2>3 DEF DiskInv, DiskPlaces, Told
    <3>5. /\ status'[Head(queue)] = "completed"
          /\ \A i \in DiskIOCBs : i # Head(queue) => status'[i] = status[i]
          /\ UNCHANGED <<moved, asked, interrupt>>
      BY <1>6, <2>1, <2>3 DEF DiskInv, D!TypeOK, D!Outcome, D!Item
    <3>6. QED
      BY <1>1, <1>2, <2>1, <2>3, <3>1, <3>2, <3>3, <3>4, <3>5
         DEF DiskInv, DiskPlaces, DiskWork, Told
  <2>4. QED
    BY <1>6, <2>2, <2>3 DEF D!Outcome
<1>7. CASE D!Notify
  <2>1. D!TypeOK'
    BY <1>1, <1>2, <1>7 DEF DiskInv, D!TypeOK, D!Notify, D!iocb
  <2>2. DiskPlaces'
    BY <1>1, <1>2, <1>7 DEF DiskInv, DiskPlaces, Told, D!Notify, Distinct
  <2>3. DiskWork'
    BY <1>1, <1>2, <1>7 DEF DiskInv, D!TypeOK, DiskPlaces, DiskWork, Told, Fresh, D!Notify, D!iocb
  <2>4. QED
    BY <2>1, <2>2, <2>3 DEF DiskInv
<1>8. QED
  BY <1>3, <1>4, <1>5, <1>6, <1>7 DEF D!Process

(* The driver makes a chain of free requests. *)
LEMMA DiskRequest ==
  ASSUME DiskInv, NEW s \in D!Chains(DiskIOCBs), NEW counts \in [D!Elements(s) -> 1 .. MaxPages],
         D!Request(s, counts)
  PROVE  DiskInv'
<1>1. s \in Seq(DiskIOCBs) /\ Distinct(s)
  BY DEF D!Chains, Distinct
<1>2. D!Elements(s) = Elems(s) /\ Elems(s) \subseteq DiskIOCBs
  BY <1>1 DEF D!Elements, Elems
<1>3. /\ queue \in Seq(DiskIOCBs) /\ chain = << >> /\ MaxPages \in Nat
      /\ Elems(queue) \subseteq DiskIOCBs /\ (queue # << >> => Head(queue) \in Elems(queue))
  BY DiskTypes DEF DiskInv, DiskPlaces, D!Request
<1>4. /\ call = "idle" /\ chain' = s /\ UNCHANGED <<queue, stopThread, worker, index, interrupt, agentStopped>>
      /\ \A i \in Elems(s) : status[i] = "free"
      /\ status' = [i \in DiskIOCBs |-> IF i \in Elems(s) THEN "inProgress" ELSE status[i]]
      /\ pageCount' = [i \in DiskIOCBs |-> IF i \in Elems(s) THEN counts[i] ELSE pageCount[i]]
      /\ asked' = [i \in DiskIOCBs |-> IF i \in Elems(s) THEN counts[i] ELSE asked[i]]
      /\ moved' = [i \in DiskIOCBs |-> IF i \in Elems(s) THEN 0 ELSE moved[i]]
      /\ call' = IF agentStopped THEN "clear" ELSE IF s = << >> THEN "idle" ELSE "push"
  BY <1>2 DEF D!Request, D!qvars
<1>5. \A i \in Elems(s) : counts[i] \in 1 .. MaxPages
  BY <1>2
<1>6. D!TypeOK'
  <2>1. \A i \in Elems(s) : counts[i] \in 0 .. MaxPages
    BY <1>3, <1>5
  <2>2. pageCount' \in [DiskIOCBs -> 0 .. MaxPages] /\ asked' \in [DiskIOCBs -> 0 .. MaxPages]
    BY <1>4, <2>1 DEF DiskInv, D!TypeOK
  <2>3. /\ moved' \in [DiskIOCBs -> Nat]
        /\ status' \in [DiskIOCBs -> {"free", "inProgress", "completed"}]
        /\ call' \in {"idle", "clear", "push", "off"}
    BY <1>4 DEF DiskInv, D!TypeOK
  <2>4. QED
    BY <1>1, <1>4, <2>2, <2>3 DEF DiskInv, D!TypeOK
<1>7. Elems(queue)' = Elems(queue) /\ Elems(chain)' = Elems(s)
  BY <1>4 DEF Elems
<1>8. \A i \in Elems(queue) : status[i] = "inProgress" \/ (i = Head(queue) /\ Told)
  BY DEF DiskInv, DiskWork, Fresh, Told
<1>9. DiskPlaces'
  <2>1. Distinct(chain)' /\ Distinct(queue)'
    BY <1>1, <1>4 DEF DiskInv, DiskPlaces, Distinct
  <2>2. Elems(queue) \cap Elems(s) \subseteq (IF Told THEN {Head(queue)} ELSE {})
    BY <1>4, <1>8
  <2>3. QED
    BY <1>4, <1>7, <2>1, <2>2 DEF DiskInv, DiskPlaces, Told
<1>10. \A i \in DiskIOCBs : /\ i \in Elems(s) => Fresh(i)'
                            /\ i \notin Elems(s) => /\ status'[i] = status[i] /\ moved'[i] = moved[i]
                                                    /\ asked'[i] = asked[i] /\ pageCount'[i] = pageCount[i]
  BY <1>2, <1>4 DEF Fresh
<1>11. DiskWork'
  <2>1. ASSUME NEW i \in Elems(queue)
        PROVE  /\ Fresh(i)' \/ (i = Head(queue) /\ worker \in {"move", "count", "status", "notify", "pop"})
               /\ i \in Elems(s) => i = Head(queue) /\ Told
    <3>1. i \in Elems(s) => i = Head(queue) /\ Told
      BY <1>4, <1>8
    <3>2. i \notin Elems(s) => (Fresh(i)' <=> Fresh(i))
      BY <1>3, <1>10, <2>1 DEF Fresh
    <3>3. QED
      BY <3>1, <3>2 DEF DiskInv, DiskWork, Told
  <2>2. worker \in {"move", "count", "status"} =>
          /\ Head(queue) \in DiskIOCBs
          /\ status'[Head(queue)] = status[Head(queue)] /\ moved'[Head(queue)] = moved[Head(queue)]
          /\ asked'[Head(queue)] = asked[Head(queue)] /\ pageCount'[Head(queue)] = pageCount[Head(queue)]
    <3>1. SUFFICES ASSUME worker \in {"move", "count", "status"}
                   PROVE  Head(queue) \in DiskIOCBs /\ Head(queue) \notin Elems(s)
      BY <1>10
    <3>2. Head(queue) \in Elems(queue) /\ ~ Told
      BY <1>3, <3>1 DEF DiskInv, DiskPlaces, Told
    <3>3. QED
      BY <1>3, <2>1, <3>2
  <2>3. Told => Head(queue) \in DiskIOCBs
    BY <1>3 DEF DiskInv, DiskPlaces, Told
  <2>4. Told /\ status'[Head(queue)] = "inProgress" => Head(queue) \in Elems(s)
    <3>1. Head(queue) \notin Elems(chain)
      BY <1>3, NoElems
    <3>2. QED
      BY <1>3, <1>10, <2>3, <3>1 DEF DiskInv, DiskWork
  <2>5. \A i \in DiskIOCBs : status'[i] = "completed" =>
          i \notin Elems(s) /\ status[i] = "completed"
          /\ moved'[i] = moved[i] /\ asked'[i] = asked[i]
    BY <1>10 DEF Fresh
  <2>6. worker = "move" => /\ status'[Head(queue)] = "inProgress" /\ index = moved'[Head(queue)]
                           /\ index <= pageCount'[Head(queue)]
                           /\ pageCount'[Head(queue)] = asked'[Head(queue)]
    BY <2>2 DEF DiskInv, DiskWork
  <2>7. worker \in {"count", "status"} =>
          status'[Head(queue)] = "inProgress" /\ moved'[Head(queue)] = asked'[Head(queue)]
    BY <2>2 DEF DiskInv, DiskWork
  <2>8. \A i \in DiskIOCBs : status'[i] = "completed" =>
          moved'[i] = asked'[i] /\ (interrupt \/ (worker = "notify" /\ Head(queue) = i))
    BY <2>5 DEF DiskInv, DiskWork
  <2>9. /\ queue' = queue /\ worker' = worker /\ index' = index /\ interrupt' = interrupt
        /\ Told' <=> Told
    BY <1>4 DEF Told
  <2>10. \A i \in Elems(s) : Fresh(i)'
    BY <1>2, <1>10
  <2> HIDE DEF Told
  <2>11. QED
    BY <1>7, <2>1, <2>4, <2>6, <2>7, <2>8, <2>9, <2>10 DEF DiskWork
<1>12. QED
  BY <1>6, <1>9, <1>11 DEF DiskInv

(* Call starts the agent, clears the queue and takes requests back. *)
LEMMA DiskStart == ASSUME DiskInv, D!Start PROVE DiskInv'
<1>1. /\ queue' = << >> /\ worker \in {"start", "clear", "lock", "sleep", "done"}
      /\ UNCHANGED <<stopThread, worker, chain, pageCount, asked, moved, index, interrupt>>
      /\ agentStopped' = FALSE /\ call' = IF chain = << >> THEN "idle" ELSE "push"
      /\ status' = [i \in DiskIOCBs |-> IF status[i] = "inProgress" /\ i \notin Elems(chain)
                                        THEN "free" ELSE status[i]]
  BY DEF D!Start, D!Clear, D!Locked, D!Unlocked, D!Elements, Elems
<1>2. /\ chain \in Seq(DiskIOCBs) /\ Elems(chain) \subseteq DiskIOCBs
  BY DiskTypes DEF DiskInv
<1>3. << >> \in Seq(DiskIOCBs) /\ Elems(<< >>) = {} /\ Distinct(<< >>)
  BY NoElems
<1>4. Elems(queue)' = {} /\ Elems(chain)' = Elems(chain)
  BY <1>1, <1>3 DEF Elems
<1>5. D!TypeOK'
  BY <1>1, <1>3 DEF DiskInv, D!TypeOK
<1>6. DiskPlaces'
  BY <1>1, <1>3, <1>4 DEF DiskInv, DiskPlaces, Told, Distinct
<1>7. \A i \in Elems(chain) : Fresh(i)'
  BY <1>1, <1>2 DEF DiskInv, DiskWork, Fresh
<1>8. DiskWork'
  BY <1>1, <1>4, <1>7 DEF DiskInv, DiskWork, Told
<1>9. QED
  BY <1>5, <1>6, <1>8 DEF DiskInv

(* Call pushes the next request. *)
LEMMA DiskPushNext == ASSUME DiskInv, D!PushNext PROVE DiskInv'
<1> DEFINE x == Head(chain)
<1>1. /\ queue' = Append(queue, x) /\ worker \in {"start", "clear", "lock", "sleep", "done"}
      /\ chain' = Tail(chain) /\ call' = IF Tail(chain) = << >> THEN "idle" ELSE "push"
      /\ UNCHANGED <<stopThread, worker, agentStopped, status, pageCount, asked, moved, index, interrupt>>
      /\ call = "push"
  BY DEF D!PushNext, D!Push, D!Locked, D!Unlocked, D!iocb
<1>2. /\ queue \in Seq(DiskIOCBs) /\ chain \in Seq(DiskIOCBs) /\ chain # << >>
      /\ Elems(queue) \subseteq DiskIOCBs /\ Elems(chain) \subseteq DiskIOCBs
      /\ queue # << >> => Head(queue) \in Elems(queue)
      /\ Distinct(queue) /\ Distinct(chain) /\ Elems(queue) \cap Elems(chain) = {}
  BY <1>1, DiskTypes DEF DiskInv, DiskPlaces, Told
<1>3. /\ x \in DiskIOCBs /\ Tail(chain) \in Seq(DiskIOCBs)
      /\ Elems(chain) = {x} \cup Elems(Tail(chain)) /\ Distinct(Tail(chain)) /\ x \notin Elems(Tail(chain))
  <2>1. x \in DiskIOCBs /\ Tail(chain) \in Seq(DiskIOCBs)
    BY <1>2, TailOf
  <2>2. QED
    BY <1>2, <2>1, TailElems
<1>4. /\ Append(queue, x) \in Seq(DiskIOCBs) /\ Append(queue, x) # << >>
      /\ Elems(Append(queue, x)) = Elems(queue) \cup {x} /\ Distinct(Append(queue, x))
      /\ queue # << >> => Head(Append(queue, x)) = Head(queue)
  BY <1>2, <1>3, AppendElems
<1> HIDE DEF x
<1>5. /\ Elems(queue)' = Elems(queue) \cup {x} /\ Elems(chain)' = Elems(Tail(chain))
      /\ Distinct(queue)' /\ Distinct(chain)'
  BY SMTT(30), <1>1, <1>3, <1>4 DEF Elems, Distinct
<1>6. D!TypeOK'
  BY <1>1, <1>3, <1>4 DEF DiskInv, D!TypeOK
<1>7. DiskPlaces'
  BY <1>1, <1>2, <1>3, <1>4, <1>5 DEF DiskInv, DiskPlaces, Told
<1>8. \A i \in DiskIOCBs : Fresh(i)' <=> Fresh(i)
  BY <1>1 DEF Fresh
<1>9. DiskWork'
  BY <1>1, <1>2, <1>3, <1>5, <1>8 DEF DiskInv, DiskWork, Told
<1>10. QED
  BY <1>6, <1>7, <1>9 DEF DiskInv

(* The driver stops the agent, looks at outcomes, or leaves. *)
LEMMA DiskDriver ==
  ASSUME DiskInv, D!StopAgent \/ D!OnInterrupt \/ D!Leave
  PROVE  DiskInv'
<1>1. /\ UNCHANGED <<queue, worker, chain, index, pageCount, asked, moved>>
      /\ call = "idle" /\ chain = << >> /\ call' \in {"idle", "off"}
      /\ stopThread' \in {stopThread, TRUE} /\ agentStopped' \in {agentStopped, TRUE}
      /\ \/ UNCHANGED <<status, interrupt>>
         \/ /\ interrupt' = FALSE
            /\ status' = [i \in DiskIOCBs |-> IF status[i] = "completed" THEN "free" ELSE status[i]]
  BY DEF D!StopAgent, D!OnInterrupt, D!Leave, D!driver, D!iocb, D!qvars, DiskInv, DiskPlaces
<1>2. /\ queue \in Seq(DiskIOCBs) /\ Elems(queue) \subseteq DiskIOCBs
      /\ queue # << >> => Head(queue) \in Elems(queue)
  BY DiskTypes DEF DiskInv
<1>3. Elems(queue)' = Elems(queue) /\ Elems(chain)' = Elems(chain) /\ Elems(chain) = {}
  BY <1>1, NoElems DEF Elems
<1>4. D!TypeOK'
  BY <1>1 DEF DiskInv, D!TypeOK
<1>5. DiskPlaces'
  BY <1>1, <1>3 DEF DiskInv, DiskPlaces, Told, Distinct
<1>6. DiskWork'
  BY SMTT(30), <1>1, <1>2, <1>3 DEF DiskInv, D!TypeOK, DiskPlaces, DiskWork, Told, Fresh
<1>7. QED
  BY <1>4, <1>5, <1>6 DEF DiskInv

(* The loop of the thread. *)
LEMMA DiskRun == ASSUME DiskInv, D!Run PROVE DiskInv'
<1>1. UNCHANGED <<call, chain, agentStopped, status, pageCount, asked, moved, index, interrupt>>
  BY DEF D!Run, D!driver, D!iocb
<1>2. /\ queue \in Seq(DiskIOCBs) /\ Elems(queue) \subseteq DiskIOCBs
      /\ Elems(chain)' = Elems(chain) /\ Elems(chain) \subseteq DiskIOCBs
      /\ queue # << >> => Head(queue) \in Elems(queue)
  BY <1>1, DiskTypes DEF DiskInv, Elems
<1>3. \A i \in DiskIOCBs : Fresh(i)' <=> Fresh(i)
  BY <1>1 DEF Fresh
<1>4. << >> \in Seq(DiskIOCBs) /\ Elems(<< >>) = {} /\ Distinct(<< >>)
  BY NoElems
<1>5. CASE UNCHANGED queue /\ (D!RunStart \/ D!RunLock \/ D!RunTop)
  <2>1. /\ worker \in {"start", "clear", "lock", "sleep", "top"}
        /\ worker' \in {"clear", "lock", "top", "done", "sleep", "process"}
        /\ worker' = "process" => queue # << >>
        /\ stopThread' \in BOOLEAN
    BY <1>5 DEF D!RunStart, D!RunLock, D!RunTop, DiskInv, D!TypeOK
  <2>2. Elems(queue)' = Elems(queue)
    BY <1>5 DEF Elems
  <2>3. D!TypeOK'
    BY <1>1, <1>5, <2>1 DEF DiskInv, D!TypeOK, D!Unlocked
  <2>4. DiskPlaces'
    BY <1>1, <1>2, <1>5, <2>1, <2>2 DEF DiskInv, DiskPlaces, Told, Distinct
  <2>5. DiskWork'
    BY <1>1, <1>2, <1>3, <1>5, <2>1, <2>2 DEF DiskInv, DiskWork, Told
  <2>6. QED
    BY <2>3, <2>4, <2>5 DEF DiskInv
<1>6. CASE worker = "clear" /\ worker' = "lock" /\ queue' = << >> /\ UNCHANGED stopThread
  <2>1. Elems(queue)' = {} /\ Distinct(queue)'
    BY <1>4, <1>6 DEF Elems, Distinct
  <2>2. D!TypeOK'
    BY <1>1, <1>4, <1>6 DEF DiskInv, D!TypeOK, D!Unlocked
  <2>3. DiskPlaces'
    BY <1>1, <1>2, <1>6, <2>1 DEF DiskInv, DiskPlaces, Told, Distinct
  <2>4. DiskWork'
    BY <1>1, <1>2, <1>3, <1>6, <2>1 DEF DiskInv, DiskWork, Told
  <2>5. QED
    BY <2>2, <2>3, <2>4 DEF DiskInv
<1>7. CASE D!RunPop
  <2>1. worker = "pop" /\ worker' = "top" /\ queue' = Tail(queue) /\ UNCHANGED stopThread /\ queue # << >>
        /\ Distinct(queue)
    BY <1>7 DEF D!RunPop, DiskInv, DiskPlaces
  <2>2. /\ Tail(queue) \in Seq(DiskIOCBs) /\ Elems(queue) = {Head(queue)} \cup Elems(Tail(queue))
        /\ Distinct(Tail(queue)) /\ Head(queue) \notin Elems(Tail(queue))
    <3>1. Tail(queue) \in Seq(DiskIOCBs)
      BY <1>2, <2>1, TailOf
    <3>2. QED
      BY <1>2, <2>1, <3>1, TailElems
  <2>3. Elems(queue)' = Elems(Tail(queue)) /\ Distinct(queue)'
    BY <2>1, <2>2 DEF Elems, Distinct
  <2>4. D!TypeOK'
    BY <1>1, <2>1, <2>2 DEF DiskInv, D!TypeOK, D!Unlocked
  <2>5. DiskPlaces'
    BY <1>1, <1>2, <2>1, <2>2, <2>3 DEF DiskInv, DiskPlaces, Told, Distinct
  <2>6. DiskWork'
    BY <1>1, <1>2, <1>3, <2>1, <2>2, <2>3 DEF DiskInv, DiskWork, Told
  <2>7. QED
    BY <2>4, <2>5, <2>6 DEF DiskInv
<1>8. QED
  BY <1>5, <1>6, <1>7 DEF D!Run, D!RunStart, D!RunLock, D!RunTop

-----------------------------------------------------------------------------
(* The network agent. *)

RTold == receiver \in {"notify", "pop"}

(* The receive requests: where they are, what is known of each. *)
NetReceive ==
  /\ Distinct(rqueue) /\ Distinct(rchain)
  /\ receiver \in N!Holds => rqueue # << >>
  /\ Elems(rqueue) \cap Elems(rchain) \subseteq (IF RTold THEN {Head(rqueue)} ELSE {})
  /\ \A i \in Elems(rchain) : iocb[i].status = "inProgress"
  /\ \A i \in Elems(rqueue) :
       iocb[i].status = "inProgress" \/ (i = Head(rqueue) /\ RTold)
  /\ \A i \in Receives : iocb[i].status \in {"completedOK", "packetTooLong"} =>
       "receive" \in interrupt \/ (receiver = "notify" /\ Head(rqueue) = i)
  /\ \A i \in Receives : iocb[i].status = "completedOK" =>
       iocb[i].packet # 0 /\ iocb[i].actualLength \in 1 .. BufferLength - 1
  /\ receiver \in {"length", "status"} =>
       span.length \in 1 .. BufferLength - 1 /\ iocb[Head(rqueue)].packet # 0
  /\ receiver = "status" => iocb[Head(rqueue)].actualLength = span.length

(* The transmit requests. *)
NetTransmit ==
  /\ Distinct(queue) /\ Distinct(tchain)
  /\ worker \in {"process", "status", "notify", "pop"} => queue # << >>
  /\ Elems(queue) \cap Elems(tchain) \subseteq (IF Told THEN {Head(queue)} ELSE {})
  /\ \A i \in Elems(tchain) : iocb[i].status = "inProgress" /\ iocb[i].packet = 0
  /\ \A i \in Elems(queue) :
       \/ iocb[i].status = "inProgress" /\ iocb[i].packet = 0
       \/ i = Head(queue) /\ worker \in {"status", "notify", "pop"}
  /\ worker = "status" => iocb[Head(queue)].status = "inProgress" /\ iocb[Head(queue)].packet = 1
  /\ \A i \in Transmits : iocb[i].status # "packetTooLong"
                          /\ (iocb[i].status = "completedOK" => iocb[i].packet = 1)
  /\ \A i \in Transmits : iocb[i].status = "completedOK" =>
       "transmit" \in interrupt \/ (worker = "notify" /\ Head(queue) = i)

(* The packets are numbered as they came, and are received in that order.   *)
Rising(s) == \A j, k \in DOMAIN s : j < k => s[j].number < s[k].number
Coming == Elems(readBuffer) \cup Elems(kernel)
NetPackets ==
  /\ receiver \in {"lock", "copy", "length", "status"} => span \in N!Packet
  /\ Rising(readBuffer) /\ Rising(kernel)
  /\ \A p \in Elems(readBuffer), r \in Elems(kernel) : p.number < r.number
  /\ \A p \in Coming : p.number <= arrived
  /\ receiver \in {"lock", "copy"} =>
       span.number <= arrived /\ \A p \in Coming : span.number < p.number
  /\ \A i \in Receives :
       /\ iocb[i].packet <= arrived
       /\ \A p \in Coming : iocb[i].packet < p.number
       /\ receiver \in {"lock", "copy"} => iocb[i].packet < span.number
  /\ \A i, j \in Receives : iocb[i].packet = iocb[j].packet => i = j \/ iocb[i].packet = 0

NetCall ==
  /\ call \in {"idle", "off"} => rchain = << >> /\ tchain = << >>
  /\ call = "receive" => rchain # << >>
  /\ call = "transmit" => rchain = << >> /\ tchain # << >>

NetInv == N!TypeOK /\ NetReceive /\ NetTransmit /\ NetPackets /\ NetCall

(* The types of the sequences. *)
LEMMA NetTypes ==
  ASSUME N!TypeOK
  PROVE  /\ rqueue \in Seq(Receives) /\ rchain \in Seq(Receives)
         /\ queue \in Seq(Transmits) /\ tchain \in Seq(Transmits)
         /\ kernel \in Seq(N!Packet) /\ readBuffer \in Seq(N!Packet)
         /\ Elems(rqueue) \subseteq Receives /\ Elems(rchain) \subseteq Receives
         /\ Elems(queue) \subseteq Transmits /\ Elems(tchain) \subseteq Transmits
         /\ (rqueue # << >> => Head(rqueue) \in Elems(rqueue))
         /\ (queue # << >> => Head(queue) \in Elems(queue))
         /\ Elems(kernel) \subseteq N!Packet /\ Elems(readBuffer) \subseteq N!Packet
         /\ Receives \cap Transmits = {}
<1>1. /\ rqueue \in Seq(Receives) /\ rchain \in Seq(Receives)
      /\ queue \in Seq(Transmits) /\ tchain \in Seq(Transmits)
      /\ kernel \in Seq(N!Packet) /\ readBuffer \in Seq(N!Packet)
  BY DEF N!TypeOK
<1>2. /\ Elems(rqueue) \subseteq Receives /\ Elems(rchain) \subseteq Receives
      /\ Elems(queue) \subseteq Transmits /\ Elems(tchain) \subseteq Transmits
      /\ Elems(kernel) \subseteq N!Packet /\ Elems(readBuffer) \subseteq N!Packet
  BY <1>1 DEF Elems
<1>3. /\ (rqueue # << >> => Head(rqueue) \in Elems(rqueue))
      /\ (queue # << >> => Head(queue) \in Elems(queue))
  BY <1>1, TailElems
<1>4. QED
  BY <1>1, <1>2, <1>3, AgentsAssumption

(* Steps that let the receive requests be. *)
LEMMA KeepReceive ==
  ASSUME NetReceive, N!TypeOK, UNCHANGED <<rqueue, rchain, receiver, span>>,
         \A i \in Receives : iocb'[i] = iocb[i],
         "receive" \in interrupt => "receive" \in interrupt'
  PROVE  NetReceive'
<1>1. Elems(rqueue)' = Elems(rqueue) /\ Elems(rchain)' = Elems(rchain) /\ (RTold' <=> RTold)
      /\ Distinct(rqueue)' /\ Distinct(rchain)'
  BY DEF Elems, RTold, Distinct, NetReceive
<1>2. /\ Elems(rqueue) \subseteq Receives /\ Elems(rchain) \subseteq Receives
      /\ (rqueue # << >> => Head(rqueue) \in Receives)
  BY NetTypes
<1>3. receiver \in {"length", "status"} => receiver \in N!Holds
  BY DEF N!Holds
<1>4. QED
  BY <1>1, <1>2, <1>3 DEF NetReceive, N!Holds

(* Steps that let the transmit requests be. *)
LEMMA KeepTransmit ==
  ASSUME NetTransmit, N!TypeOK, UNCHANGED <<queue, tchain, worker>>,
         \A i \in Transmits : iocb'[i] = iocb[i],
         "transmit" \in interrupt => "transmit" \in interrupt'
  PROVE  NetTransmit'
<1>1. Elems(queue)' = Elems(queue) /\ Elems(tchain)' = Elems(tchain) /\ (Told' <=> Told)
      /\ Distinct(queue)' /\ Distinct(tchain)'
  BY DEF Elems, Told, Distinct, NetTransmit
<1>2. /\ Elems(queue) \subseteq Transmits /\ Elems(tchain) \subseteq Transmits
      /\ (queue # << >> => Head(queue) \in Transmits)
  BY NetTypes
<1>3. QED
  BY <1>1, <1>2 DEF NetTransmit

(* Steps that let the packets be, and fill no request with one. *)
LEMMA KeepPackets ==
  ASSUME NetPackets, N!TypeOK, UNCHANGED <<receiver, span, kernel, readBuffer, arrived>>,
         \A i \in Receives : iocb'[i].packet \in {iocb[i].packet, 0}
  PROVE  NetPackets'
<1>1. /\ Coming' = Coming /\ Elems(readBuffer)' = Elems(readBuffer) /\ Elems(kernel)' = Elems(kernel)
      /\ Rising(readBuffer)' /\ Rising(kernel)'
  BY DEF Coming, Elems, Rising, NetPackets
<1>2. /\ kernel \in Seq(N!Packet) /\ readBuffer \in Seq(N!Packet) /\ arrived \in Nat
  BY NetTypes, AgentsAssumption DEF N!TypeOK
<1>3. \A p \in Coming : p.number \in Nat /\ 0 < p.number
  BY NetTypes, AgentsAssumption DEF Coming, N!Packet
<1>4. receiver \in {"lock", "copy"} => span.number \in Nat /\ 0 < span.number
  BY AgentsAssumption DEF NetPackets, N!Packet
<1>5. \A i \in Receives : /\ iocb'[i].packet <= arrived
                          /\ \A p \in Coming : iocb'[i].packet < p.number
                          /\ receiver \in {"lock", "copy"} => iocb'[i].packet < span.number
  BY <1>2, <1>3, <1>4 DEF NetPackets
<1>6. \A i, j \in Receives : iocb'[i].packet = iocb'[j].packet => i = j \/ iocb'[i].packet = 0
  BY DEF NetPackets
<1>7. QED
  BY <1>1, <1>5, <1>6 DEF NetPackets

(* The packet at the head of a rising sequence is older than the others.     *)
LEMMA RisingTail ==
  ASSUME NEW X, NEW s \in Seq(X), s # << >>, Rising(s)
  PROVE  /\ Rising(Tail(s)) /\ Head(s) \in X
         /\ \A p \in Elems(Tail(s)) : Head(s).number < p.number
         /\ Elems(s) = {Head(s)} \cup Elems(Tail(s)) /\ Tail(s) \in Seq(X)
<1>1. /\ Tail(s) \in Seq(X) /\ Head(s) \in X /\ Head(s) = s[1] /\ 1 \in DOMAIN s
      /\ DOMAIN Tail(s) = 1 .. Len(s) - 1 /\ DOMAIN s = 1 .. Len(s) /\ Len(s) \in Nat \ {0}
      /\ \A k \in 1 .. Len(s) - 1 : Tail(s)[k] = s[k + 1] /\ k + 1 \in DOMAIN s /\ k + 1 # 1
  BY TailOf
<1>2. Elems(s) = {Head(s)} \cup Elems(Tail(s))
  BY TailElems
<1>3. ASSUME NEW j \in DOMAIN Tail(s), NEW k \in DOMAIN Tail(s), j < k
      PROVE  Tail(s)[j].number < Tail(s)[k].number
  <2>1. j + 1 < k + 1 /\ j + 1 \in DOMAIN s /\ k + 1 \in DOMAIN s
    BY <1>1, <1>3
  <2>2. QED
    BY <1>1, <1>3, <2>1 DEF Rising
<1>4. ASSUME NEW k \in DOMAIN Tail(s) PROVE Head(s).number < Tail(s)[k].number
  <2>1. 1 < k + 1 /\ k + 1 \in DOMAIN s
    BY <1>1, <1>4
  <2>2. QED
    BY <1>1, <1>4, <2>1 DEF Rising
<1>5. QED
  BY <1>1, <1>2, <1>3, <1>4 DEF Rising, Elems

(* A packet arrives. *)
LEMMA NetArrive == ASSUME NetInv, NEW length \in Lengths, N!Arrive(length) PROVE NetInv'
<1> DEFINE x == [number |-> arrived + 1, length |-> length]
<1>1. /\ arrived < MaxPackets /\ arrived' = arrived + 1 /\ kernel' = Append(kernel, x)
      /\ UNCHANGED <<call, rchain, tchain, agentStopped, iocb, rqueue, rstop, receiver, span,
                     readBuffer, queue, stopThread, worker, interrupt>>
  BY DEF N!Arrive, N!driver, N!qvars
<1>2. /\ kernel \in Seq(N!Packet) /\ arrived \in Nat /\ arrived + 1 \in 1 .. MaxPackets
      /\ MaxPackets \in Nat
  BY <1>1, AgentsAssumption DEF NetInv, N!TypeOK
<1>3. x \in N!Packet /\ x.number = arrived + 1
  BY <1>2 DEF N!Packet
<1> HIDE DEF x
<1>4. /\ Append(kernel, x) \in Seq(N!Packet) /\ Elems(Append(kernel, x)) = Elems(kernel) \cup {x}
  BY <1>2, <1>3, AppendElems
<1>5. Rising(Append(kernel, x))
  <2>1. SUFFICES ASSUME NEW j \in DOMAIN Append(kernel, x), NEW k \in DOMAIN Append(kernel, x), j < k
                 PROVE  Append(kernel, x)[j].number < Append(kernel, x)[k].number
    BY DEF Rising
  <2>2. /\ DOMAIN kernel = 1 .. Len(kernel) /\ Len(kernel) \in Nat
        /\ DOMAIN Append(kernel, x) = 1 .. Len(kernel) + 1
        /\ \A i \in 1 .. Len(kernel) : Append(kernel, x)[i] = kernel[i]
        /\ Append(kernel, x)[Len(kernel) + 1] = x
    BY <1>2, <1>3
  <2>3. j \in 1 .. Len(kernel)
    BY <2>1, <2>2
  <2>4. CASE k \in 1 .. Len(kernel)
    BY <2>1, <2>2, <2>3, <2>4 DEF NetInv, NetPackets, Rising
  <2>5. CASE k = Len(kernel) + 1
    <3>1. kernel[j] \in Elems(kernel) /\ kernel[j] \in N!Packet
      BY <1>2, <2>2, <2>3 DEF Elems
    <3>2. kernel[j].number <= arrived /\ kernel[j].number \in Nat
      BY <3>1 DEF NetInv, NetPackets, Coming, N!Packet
    <3>3. QED
      BY <1>2, <1>3, <2>2, <2>3, <2>5, <3>2
  <2>6. QED
    BY <2>1, <2>2, <2>4, <2>5
<1>6. N!TypeOK'
  BY <1>1, <1>2, <1>4 DEF NetInv, N!TypeOK
<1>7. NetReceive' /\ NetTransmit'
  BY <1>1, KeepReceive, KeepTransmit DEF NetInv
<1>8. NetPackets'
  <2>1. /\ Elems(readBuffer)' = Elems(readBuffer) /\ Elems(kernel)' = Elems(kernel) \cup {x}
        /\ Coming' = Coming \cup {x} /\ Rising(readBuffer)' /\ Rising(kernel)'
    BY <1>1, <1>4, <1>5 DEF NetInv, NetPackets, Elems, Coming, Rising
  <2>2. /\ \A p \in Coming : p.number \in Nat /\ p.number <= arrived
        /\ receiver \in {"lock", "copy"} => span.number \in Nat /\ span.number <= arrived
        /\ \A i \in Receives : iocb[i].packet \in Nat /\ iocb[i].packet <= arrived
    BY SMTT(30), NetTypes, AgentsAssumption
       DEF NetInv, NetPackets, Coming, N!Packet, N!TypeOK, N!IOCBs, N!IOCBType
  <2>3. \A p \in Elems(readBuffer), r \in Elems(kernel)' : p.number < r.number
    BY <1>2, <1>3, <2>1, <2>2 DEF NetInv, NetPackets, Coming
  <2>4. \A p \in Coming' : p.number <= arrived + 1
    BY <1>2, <1>3, <2>1, <2>2
  <2>5. receiver \in {"lock", "copy"} =>
          span.number <= arrived + 1 /\ \A p \in Coming' : span.number < p.number
    BY <1>2, <1>3, <2>1, <2>2 DEF NetInv, NetPackets
  <2>6. \A i \in Receives :
          /\ iocb[i].packet <= arrived + 1
          /\ \A p \in Coming' : iocb[i].packet < p.number
    BY <1>2, <1>3, <2>1, <2>2 DEF NetInv, NetPackets
  <2>7. QED
    BY <1>1, <2>1, <2>3, <2>4, <2>5, <2>6 DEF NetInv, NetPackets
<1>9. NetCall'
  BY <1>1 DEF NetInv, NetCall
<1>10. QED
  BY <1>6, <1>7, <1>8, <1>9 DEF NetInv

(* The receive thread reads the oldest packet. *)
LEMMA NetBPF == ASSUME NetInv, N!BPFReceive PROVE NetInv'
<1> DEFINE packets == IF readBuffer = << >> THEN kernel ELSE readBuffer
<1>1. /\ receiver = "receive"
      /\ UNCHANGED <<call, rchain, tchain, agentStopped, iocb, rqueue, rstop, arrived,
                     queue, stopThread, worker, interrupt>>
      /\ kernel' = IF readBuffer = << >> THEN << >> ELSE kernel
      /\ \/ packets = << >> /\ receiver' = "top" /\ UNCHANGED <<readBuffer, span>>
         \/ /\ packets # << >> /\ receiver' = "lock"
            /\ span' = Head(packets) /\ readBuffer' = Tail(packets)
  BY DEF N!BPFReceive, N!Receiving, N!driver, N!qvars
<1>2. /\ kernel \in Seq(N!Packet) /\ readBuffer \in Seq(N!Packet) /\ packets \in Seq(N!Packet)
      /\ Elems(kernel) \subseteq N!Packet /\ Elems(readBuffer) \subseteq N!Packet
      /\ arrived \in Nat
  BY NetTypes, AgentsAssumption DEF NetInv, N!TypeOK
<1>3. << >> \in Seq(N!Packet) /\ Elems(<< >>) = {} /\ Rising(<< >>)
  BY NoElems DEF Rising
<1>4. NetTransmit' /\ NetCall'
  <2>1. NetTransmit'
    BY <1>1, KeepTransmit DEF NetInv
  <2>2. QED
    BY <1>1, <2>1 DEF NetInv, NetCall
<1>5. NetReceive'
  BY <1>1 DEF NetInv, NetReceive, RTold, N!Holds, Elems, Distinct
<1>6. CASE packets = << >>
  <2>1. kernel = << >> /\ readBuffer = << >> /\ kernel' = << >> /\ readBuffer' = << >>
        /\ receiver' = "top" /\ UNCHANGED span
    BY <1>1, <1>6
  <2>2. N!TypeOK'
    BY <1>1, <1>3, <2>1 DEF NetInv, N!TypeOK
  <2>3. Coming' = {} /\ Elems(kernel)' = {} /\ Elems(readBuffer)' = {}
        /\ Rising(kernel)' /\ Rising(readBuffer)'
    BY <1>3, <2>1 DEF Coming, Elems, Rising
  <2>4. NetPackets'
    BY <1>1, <2>1, <2>3 DEF NetInv, NetPackets
  <2>5. QED
    BY <1>4, <1>5, <2>2, <2>4 DEF NetInv
<1>7. CASE packets # << >>
  <2> DEFINE x == Head(packets)
             rest == Tail(packets)
             kernel2 == IF readBuffer = << >> THEN << >> ELSE kernel
  <2>1. receiver' = "lock" /\ span' = x /\ readBuffer' = rest /\ kernel' = kernel2
    BY <1>1, <1>7
  <2>2. Rising(packets)
    BY DEF NetInv, NetPackets
  <2>3. /\ Rising(rest) /\ x \in N!Packet /\ rest \in Seq(N!Packet)
        /\ \A p \in Elems(rest) : x.number < p.number
        /\ Elems(packets) = {x} \cup Elems(rest)
    <3> HIDE DEF packets
    <3>1. QED
      BY <1>2, <1>7, <2>2, RisingTail
  <2>4. /\ kernel2 \in Seq(N!Packet) /\ Rising(kernel2)
        /\ \A p \in Elems(packets), r \in Elems(kernel2) : p.number < r.number
        /\ Elems(packets) \cup Elems(kernel2) = Coming
    <3>1. CASE readBuffer = << >>
      BY <1>3, <3>1 DEF Coming
    <3>2. CASE readBuffer # << >>
      BY <1>2, <3>2 DEF NetInv, NetPackets, Coming
    <3>3. QED
      BY <3>1, <3>2
  <2> HIDE DEF x, rest, kernel2, packets
  <2>5. N!TypeOK'
    BY <1>1, <2>1, <2>3, <2>4 DEF NetInv, N!TypeOK, N!Holds
  <2>6. /\ Coming' = Elems(rest) \cup Elems(kernel2) /\ Elems(kernel)' = Elems(kernel2)
        /\ Elems(readBuffer)' = Elems(rest) /\ Rising(kernel)' /\ Rising(readBuffer)'
        /\ x \in Coming /\ Coming' \subseteq Coming
    BY <2>1, <2>3, <2>4 DEF Coming, Elems, Rising
  <2>7. \A p \in Coming' : x.number < p.number
    BY <2>3, <2>4, <2>6
  <2>8. \A p \in Elems(readBuffer)', r \in Elems(kernel)' : p.number < r.number
    BY <2>3, <2>4, <2>6
  <2>9. NetPackets'
    BY <1>1, <2>1, <2>3, <2>6, <2>7, <2>8 DEF NetInv, NetPackets
  <2>10. QED
    BY <1>4, <1>5, <2>5, <2>9 DEF NetInv
<1>8. QED
  BY <1>6, <1>7

(* Steps that let the packets on the way be. *)
LEMMA KeepComing ==
  ASSUME NetPackets, UNCHANGED <<kernel, readBuffer, arrived, iocb>>,
         receiver' \in {"lock", "copy", "length", "status"} =>
           span' = span /\ receiver \in {"lock", "copy", "length", "status"},
         receiver' \in {"lock", "copy"} => receiver \in {"lock", "copy"}
  PROVE  NetPackets'
<1>1. /\ Coming' = Coming /\ Elems(readBuffer)' = Elems(readBuffer) /\ Elems(kernel)' = Elems(kernel)
      /\ Rising(readBuffer)' /\ Rising(kernel)'
  BY DEF Coming, Elems, Rising, NetPackets
<1>2. QED
  BY <1>1 DEF NetPackets

(* The receive thread starts, goes to the top of its loop, takes its mutex  *)
(* and notifies.                                                            *)
LEMMA NetReceiver ==
  ASSUME NetInv, N!ReceiveStart \/ N!ReceiveTop \/ N!ReceiveLock \/ N!ReceiveNotify
  PROVE  NetInv'
<1>1. /\ UNCHANGED <<call, rchain, tchain, agentStopped, iocb, rqueue, kernel, readBuffer, arrived,
                     queue, stopThread, worker>>
      /\ interrupt' \in {interrupt, interrupt \cup {"receive"}}
      /\ rstop' \in {rstop, FALSE} /\ span' \in {span, N!NoPacket}
      /\ \/ /\ receiver \in {"start", "top", "lock"} /\ receiver' \in {"top", "done", "receive"}
            /\ interrupt' = interrupt
         \/ /\ receiver = "lock" /\ receiver' = "copy" /\ rqueue # << >>
            /\ UNCHANGED <<interrupt, span>>
         \/ receiver = "notify" /\ receiver' = "pop" /\ interrupt' = interrupt \cup {"receive"}
  BY DEF N!ReceiveStart, N!ReceiveTop, N!ReceiveLock, N!ReceiveNotify, N!Receiving, N!driver, N!qvars
<1>2. N!TypeOK'
  <2>1. /\ span' \in N!Packet \cup {N!NoPacket} /\ interrupt' \subseteq {"receive", "transmit"}
        /\ rstop' \in BOOLEAN
    BY <1>1 DEF NetInv, N!TypeOK
  <2>2. receiver' \in N!Holds \cup {"start", "top", "receive", "lock", "done"}
    BY <1>1 DEF N!Holds
  <2>3. QED
    BY <1>1, <2>1, <2>2 DEF NetInv, N!TypeOK
<1>3. NetTransmit' /\ NetCall'
  <2>1. NetTransmit'
    BY <1>1, KeepTransmit DEF NetInv
  <2>2. QED
    BY <1>1, <2>1 DEF NetInv, NetCall
<1>4. NetPackets'
  BY <1>1, KeepComing DEF NetInv
<1>5. NetReceive'
  <2>1. Elems(rqueue)' = Elems(rqueue) /\ Elems(rchain)' = Elems(rchain)
        /\ Distinct(rqueue)' /\ Distinct(rchain)'
    BY <1>1 DEF NetInv, NetReceive, Elems, Distinct
  <2>2. QED
    BY <1>1, <2>1 DEF NetInv, NetReceive, RTold, N!Holds
<1>6. QED
  BY <1>2, <1>3, <1>4, <1>5 DEF NetInv

(* It works on the request at the head of its queue, which is in progress.  *)
Working(to, r) ==
  /\ iocb' = [iocb EXCEPT ![Head(rqueue)] = r]
  /\ receiver' = to
  /\ UNCHANGED <<call, rchain, tchain, agentStopped, rqueue, rstop, span, kernel, readBuffer,
                 arrived, queue, stopThread, worker, interrupt>>

(* One piece of work of the receive thread: what it has settled about the    *)
(* request at the head stays so.                                             *)
LEMMA NetWork ==
  ASSUME NetInv, NEW to, NEW r \in N!IOCBType, Working(to, r),
         receiver \in {"copy", "length", "status"}, to \in {"length", "status", "notify"},
         r.packet = iocb[Head(rqueue)].packet
           \/ (receiver = "copy" /\ r.packet = span.number),
         to # "notify" => r.status = iocb[Head(rqueue)].status
                          /\ span.length \in 1 .. BufferLength - 1 /\ r.packet # 0,
         to \in {"status"} => r.actualLength = span.length,
         to = "notify" => \/ r.status = "packetTooLong"
                          \/ /\ r.status = "completedOK" /\ r.packet # 0
                             /\ r.actualLength \in 1 .. BufferLength - 1,
         to = "length" => receiver = "copy"
  PROVE  NetInv'
<1> DEFINE w == Head(rqueue)
<1>1. /\ rqueue # << >> /\ w \in Receives /\ w \in Elems(rqueue) /\ ~ RTold
      /\ Elems(rqueue) \subseteq Receives /\ Elems(rchain) \subseteq Receives
      /\ Receives \cap Transmits = {} /\ w \notin Elems(rchain)
      /\ iocb[w].status = "inProgress"
  BY NetTypes DEF NetInv, NetReceive, RTold, N!Holds
<1>2. /\ iocb \in [Receives \cup Transmits -> N!IOCBType] /\ arrived \in Nat /\ span \in N!Packet
  <2>1. iocb \in [Receives \cup Transmits -> N!IOCBType] /\ arrived \in 0 .. MaxPackets
    BY DEF NetInv, N!TypeOK, N!IOCBs
  <2>2. span \in N!Packet
    BY DEF NetInv, NetPackets
  <2>3. QED
    BY <2>1, <2>2, AgentsAssumption
<1>3. /\ iocb'[w] = r /\ iocb' \in [Receives \cup Transmits -> N!IOCBType]
      /\ \A i \in Receives \cup Transmits : i # w => iocb'[i] = iocb[i]
  BY <1>1, <1>2 DEF Working
<1>4. N!TypeOK'
  BY <1>3 DEF NetInv, N!TypeOK, N!IOCBs, N!Holds, Working
<1> HIDE DEF w
<1>5. NetTransmit' /\ NetCall'
  <2>1. \A i \in Transmits : iocb'[i] = iocb[i]
    BY <1>1, <1>3
  <2>2. NetTransmit'
    BY <2>1, KeepTransmit DEF NetInv, Working
  <2>3. QED
    BY <2>2 DEF NetInv, NetCall, Working
<1>6. NetPackets'
  <2>1. /\ Coming' = Coming /\ Elems(readBuffer)' = Elems(readBuffer) /\ Elems(kernel)' = Elems(kernel)
        /\ Rising(readBuffer)' /\ Rising(kernel)'
    BY DEF Coming, Elems, Rising, NetInv, NetPackets, Working
  <2>2. CASE r.packet = iocb[w].packet
    <3>1. \A i \in Receives : iocb'[i].packet = iocb[i].packet
      BY <1>3, <2>2
    <3>2. QED
      BY <2>1, <3>1 DEF NetInv, NetPackets, Working
  <2>3. CASE receiver = "copy" /\ r.packet = span.number
    <3>1. /\ \A i \in Receives : iocb[i].packet < span.number /\ iocb[i].packet \in Nat
          /\ span.number \in Nat /\ span.number <= arrived
          /\ \A p \in Coming : span.number < p.number
      BY <1>2, <2>3 DEF NetInv, NetPackets, N!Packet, N!IOCBType
    <3>2. \A i \in Receives : iocb'[i].packet <= arrived /\ \A p \in Coming : iocb'[i].packet < p.number
      BY <1>1, <1>3, <2>3, <3>1 DEF NetInv, NetPackets
    <3>3. \A i, j \in Receives : iocb'[i].packet = iocb'[j].packet => i = j \/ iocb'[i].packet = 0
      <4>1. \A i \in Receives : i # w => iocb'[i].packet # iocb'[w].packet
        BY <1>1, <1>3, <2>3, <3>1
      <4>2. QED
        BY <1>1, <1>3, <4>1 DEF NetInv, NetPackets
    <3>4. QED
      BY <2>1, <2>3, <3>2, <3>3 DEF NetInv, NetPackets, Working
  <2>4. QED
    BY <2>2, <2>3 DEF w
<1>7. NetReceive'
  <2>1. /\ Elems(rqueue)' = Elems(rqueue) /\ Elems(rchain)' = Elems(rchain)
        /\ Distinct(rqueue)' /\ Distinct(rchain)' /\ Head(rqueue)' = w /\ receiver' = to
        /\ UNCHANGED <<rqueue, span, interrupt>>
    BY DEF NetInv, NetReceive, Elems, Distinct, Working, w
  <2>2. Elems(rqueue) \cap Elems(rchain) = {}
    BY <1>1 DEF NetInv, NetReceive
  <2>3. \A i \in Elems(rchain) : iocb'[i].status = "inProgress"
    BY <1>1, <1>3 DEF NetInv, NetReceive
  <2>4. \A i \in Elems(rqueue) : iocb'[i].status = "inProgress" \/ (i = w /\ to = "notify")
    BY <1>1, <1>3 DEF NetInv, NetReceive, w
  <2>5. \A i \in Receives : iocb'[i].status \in {"completedOK", "packetTooLong"} =>
          "receive" \in interrupt \/ (to = "notify" /\ w = i)
    BY <1>1, <1>3 DEF NetInv, NetReceive, w
  <2>6. \A i \in Receives : iocb'[i].status = "completedOK" =>
          iocb'[i].packet # 0 /\ iocb'[i].actualLength \in 1 .. BufferLength - 1
    BY <1>1, <1>3 DEF NetInv, NetReceive, w
  <2>7. to \in {"length", "status"} =>
          span.length \in 1 .. BufferLength - 1 /\ iocb'[w].packet # 0
    BY <1>3
  <2>8. to = "status" => iocb'[w].actualLength = span.length
    BY <1>3
  <2>9. rqueue' # << >> /\ (RTold' <=> to = "notify")
    BY <1>1, <2>1 DEF RTold
  <2>10. QED
    BY <2>1, <2>2, <2>3, <2>4, <2>5, <2>6, <2>7, <2>8, <2>9 DEF NetReceive
<1>8. QED
  BY <1>4, <1>5, <1>6, <1>7 DEF NetInv

(* It copies a packet, or finds that it is too long; it tells the outcome.  *)
LEMMA NetCopy == ASSUME NetInv, N!Copy \/ N!Complete PROVE NetInv'
<1> DEFINE w == Head(rqueue)
<1>1. /\ receiver \in {"copy", "length", "status"} /\ w \in Receives /\ span \in N!Packet
      /\ iocb[w] \in N!IOCBType /\ iocb \in [N!IOCBs -> N!IOCBType] /\ w \in N!IOCBs
      /\ iocb[w].status = "inProgress"
  <2>1. receiver \in {"copy", "length", "status"}
    BY DEF N!Copy, N!Complete, N!Receiving
  <2>2. w \in Elems(rqueue) /\ w \in Receives
    BY <2>1, NetTypes DEF NetInv, NetReceive, N!Holds
  <2>3. QED
    BY <2>1, <2>2 DEF NetInv, N!TypeOK, NetPackets, NetReceive, RTold, N!IOCBs
<1>2. /\ span.length \in Lengths /\ span.length \in Nat \ {0} /\ span.number \in 1 .. MaxPackets
      /\ BufferLength \in Nat \ {0} /\ MaxPackets \in Nat
  BY <1>1, AgentsAssumption DEF N!Packet
<1>3. span.number \in 0 .. MaxPackets /\ span.number # 0
  BY <1>2
<1>4. CASE /\ N!Copy /\ span.length < BufferLength /\ receiver' = "length"
           /\ iocb' = [iocb EXCEPT ![w].packet = span.number]
  <2> DEFINE r == [iocb[w] EXCEPT !.packet = span.number]
  <2>1. /\ r \in N!IOCBType /\ r.packet = span.number /\ r.status = iocb[w].status
    BY <1>1, <1>3 DEF N!IOCBType
  <2>2. iocb' = [iocb EXCEPT ![w] = r]
    BY <1>1, <1>4
  <2> HIDE DEF r
  <2>3. Working("length", r) /\ receiver = "copy"
    BY <1>4, <2>2 DEF Working, N!Copy, N!driver, N!qvars
  <2>4. span.length \in 1 .. BufferLength - 1
    BY <1>2, <1>4
  <2>5. QED
    BY <1>3, <2>1, <2>3, <2>4, NetWork
<1>5. CASE /\ N!Copy /\ receiver' = "notify"
           /\ iocb' = [iocb EXCEPT ![w].status = "packetTooLong"]
  <2> DEFINE r == [iocb[w] EXCEPT !.status = "packetTooLong"]
  <2>1. /\ r \in N!IOCBType /\ r.packet = iocb[w].packet /\ r.status = "packetTooLong"
    BY <1>1 DEF N!IOCBType, N!Status
  <2>2. iocb' = [iocb EXCEPT ![w] = r]
    BY <1>1, <1>5
  <2> HIDE DEF r
  <2>3. Working("notify", r) /\ receiver = "copy"
    BY <1>5, <2>2 DEF Working, N!Copy, N!driver, N!qvars
  <2>4. QED
    BY <2>1, <2>3, NetWork
<1>6. CASE N!Complete /\ receiver = "length"
  <2> DEFINE r == [iocb[w] EXCEPT !.actualLength = span.length]
  <2>1. /\ r \in N!IOCBType /\ r.packet = iocb[w].packet /\ r.status = iocb[w].status
        /\ r.actualLength = span.length
    BY <1>1, <1>2 DEF N!IOCBType
  <2>2. iocb' = [iocb EXCEPT ![w] = r]
    BY <1>1, <1>6 DEF N!Complete, N!Receiving, N!Wanted
  <2>3. span.length \in 1 .. BufferLength - 1 /\ iocb[w].packet # 0
    BY <1>6 DEF NetInv, NetReceive
  <2> HIDE DEF r
  <2>4. Working("status", r)
    BY <1>6, <2>2 DEF Working, N!Complete, N!Receiving, N!driver, N!qvars
  <2>5. QED
    BY <1>6, <2>1, <2>3, <2>4, NetWork
<1>7. CASE N!Complete /\ receiver = "status"
  <2> DEFINE r == [iocb[w] EXCEPT !.status = "completedOK"]
  <2>1. /\ r \in N!IOCBType /\ r.packet = iocb[w].packet /\ r.status = "completedOK"
        /\ r.actualLength = iocb[w].actualLength
    BY <1>1 DEF N!IOCBType, N!Status
  <2>2. iocb' = [iocb EXCEPT ![w] = r]
    BY <1>1, <1>7 DEF N!Complete, N!Receiving, N!Wanted
  <2>3. iocb[w].actualLength \in 1 .. BufferLength - 1 /\ iocb[w].packet # 0
    BY <1>7 DEF NetInv, NetReceive
  <2> HIDE DEF r
  <2>4. Working("notify", r)
    BY <1>7, <2>2 DEF Working, N!Complete, N!Receiving, N!driver, N!qvars
  <2>5. QED
    BY <1>7, <2>1, <2>3, <2>4, NetWork
<1>8. QED
  BY <1>4, <1>5, <1>6, <1>7 DEF N!Copy, N!Complete, N!Receiving, N!Wanted

(* The request it is done with leaves the queue. *)
LEMMA NetReceivePop == ASSUME NetInv, N!ReceivePop PROVE NetInv'
<1>1. /\ receiver = "pop" /\ receiver' = "top" /\ rqueue' = Tail(rqueue) /\ span' = N!NoPacket
      /\ UNCHANGED <<call, rchain, tchain, agentStopped, iocb, rstop, kernel, readBuffer, arrived,
                     queue, stopThread, worker, interrupt>>
  BY DEF N!ReceivePop, N!Receiving, N!driver, N!qvars
<1>2. rqueue \in Seq(Receives) /\ rqueue # << >> /\ Distinct(rqueue)
  BY <1>1, NetTypes DEF NetInv, NetReceive, N!Holds
<1>3. /\ Tail(rqueue) \in Seq(Receives) /\ Elems(rqueue) = {Head(rqueue)} \cup Elems(Tail(rqueue))
      /\ Distinct(Tail(rqueue)) /\ Head(rqueue) \notin Elems(Tail(rqueue))
  <2>1. Tail(rqueue) \in Seq(Receives)
    BY <1>2, TailOf
  <2>2. QED
    BY <1>2, <2>1, TailElems
<1>4. N!TypeOK'
  BY <1>1, <1>3 DEF NetInv, N!TypeOK
<1>5. NetTransmit' /\ NetCall'
  <2>1. NetTransmit'
    BY <1>1, KeepTransmit DEF NetInv
  <2>2. QED
    BY <1>1, <2>1 DEF NetInv, NetCall
<1>6. NetPackets'
  BY <1>1, KeepComing DEF NetInv
<1>7. NetReceive'
  <2>1. Elems(rqueue)' = Elems(Tail(rqueue)) /\ Elems(rchain)' = Elems(rchain)
        /\ Distinct(rqueue)' /\ Distinct(rchain)'
    BY <1>1, <1>3 DEF NetInv, NetReceive, Elems, Distinct
  <2>2. QED
    BY <1>1, <1>3, <2>1 DEF NetInv, NetReceive, RTold, N!Holds
<1>8. QED
  BY <1>4, <1>5, <1>6, <1>7 DEF NetInv

(* Call pushes the next receive request. *)
LEMMA NetPushReceive == ASSUME NetInv, N!PushReceive PROVE NetInv'
<1> DEFINE x == Head(rchain)
<1>1. /\ call = "receive" /\ receiver \notin N!Holds
      /\ rqueue' = Append(rqueue, x) /\ rchain' = Tail(rchain)
      /\ call' = N!CallAt(rchain', tchain)
      /\ UNCHANGED <<tchain, agentStopped, iocb, rstop, receiver, span, kernel, readBuffer, arrived,
                     queue, stopThread, worker, interrupt>>
  BY DEF N!PushReceive, N!qvars
<1>2. /\ rqueue \in Seq(Receives) /\ rchain \in Seq(Receives) /\ rchain # << >>
      /\ Elems(rqueue) \subseteq Receives /\ Elems(rchain) \subseteq Receives
      /\ (rqueue # << >> => Head(rqueue) \in Elems(rqueue))
      /\ Distinct(rqueue) /\ Distinct(rchain) /\ ~ RTold /\ Elems(rqueue) \cap Elems(rchain) = {}
  BY <1>1, NetTypes DEF NetInv, NetReceive, NetCall, N!Holds, RTold
<1>3. /\ x \in Receives /\ Tail(rchain) \in Seq(Receives)
      /\ Elems(rchain) = {x} \cup Elems(Tail(rchain)) /\ Distinct(Tail(rchain))
      /\ x \notin Elems(Tail(rchain))
  <2>1. x \in Receives /\ Tail(rchain) \in Seq(Receives)
    BY <1>2, TailOf
  <2>2. QED
    BY <1>2, <2>1, TailElems
<1>4. /\ Append(rqueue, x) \in Seq(Receives) /\ Append(rqueue, x) # << >>
      /\ Elems(Append(rqueue, x)) = Elems(rqueue) \cup {x} /\ Distinct(Append(rqueue, x))
      /\ rqueue # << >> => Head(Append(rqueue, x)) = Head(rqueue)
  BY <1>2, <1>3, AppendElems
<1> HIDE DEF x
<1>5. call' \in {"idle", "receive", "transmit", "off"} /\ NetCall'
  BY <1>1 DEF N!CallAt, NetInv, NetCall
<1>6. N!TypeOK'
  BY <1>1, <1>3, <1>4, <1>5 DEF NetInv, N!TypeOK
<1>7. NetTransmit' /\ NetPackets'
  BY <1>1, KeepTransmit, KeepPackets DEF NetInv
<1>8. NetReceive'
  <2>1. /\ Elems(rqueue)' = Elems(rqueue) \cup {x} /\ Elems(rchain)' = Elems(Tail(rchain))
        /\ Distinct(rqueue)' /\ Distinct(rchain)' /\ (RTold' <=> RTold)
    <3>1. rqueue' = Append(rqueue, x) /\ rchain' = Tail(rchain) /\ receiver' = receiver
      BY <1>1
    <3>2. /\ Elems(rqueue)' = Elems(Append(rqueue, x)) /\ Elems(rchain)' = Elems(Tail(rchain))
          /\ Distinct(rqueue)' = Distinct(Append(rqueue, x))
          /\ Distinct(rchain)' = Distinct(Tail(rchain))
      BY <3>1 DEF Elems, Distinct
    <3>3. RTold' <=> RTold
      BY <3>1 DEF RTold
    <3>4. QED
      BY <1>3, <1>4, <3>2, <3>3
  <2>2. Elems(rqueue)' \cap Elems(rchain)' = {}
    BY <1>2, <1>3, <2>1
  <2>3. QED
    BY <1>1, <1>2, <1>3, <2>1, <2>2 DEF NetInv, NetReceive, N!Holds, RTold
<1>9. QED
  BY <1>5, <1>6, <1>7, <1>8 DEF NetInv

(* Call pushes the next transmit request. *)
LEMMA NetPushTransmit == ASSUME NetInv, N!PushTransmit PROVE NetInv'
<1> DEFINE x == Head(tchain)
<1>1. /\ call = "transmit" /\ worker \in {"start", "clear", "lock", "sleep", "done"}
      /\ queue' = Append(queue, x) /\ tchain' = Tail(tchain)
      /\ call' = N!CallAt(rchain, tchain')
      /\ UNCHANGED <<rchain, agentStopped, iocb, rqueue, rstop, receiver, span, kernel, readBuffer,
                     arrived, stopThread, worker, interrupt>>
  BY DEF N!PushTransmit, N!Push, N!Locked, N!Unlocked, N!receive
<1>2. /\ queue \in Seq(Transmits) /\ tchain \in Seq(Transmits) /\ tchain # << >>
      /\ Elems(queue) \subseteq Transmits /\ Elems(tchain) \subseteq Transmits
      /\ (queue # << >> => Head(queue) \in Elems(queue))
      /\ Distinct(queue) /\ Distinct(tchain) /\ ~ Told /\ Elems(queue) \cap Elems(tchain) = {}
  BY <1>1, NetTypes DEF NetInv, NetTransmit, NetCall, Told
<1>3. /\ x \in Transmits /\ Tail(tchain) \in Seq(Transmits)
      /\ Elems(tchain) = {x} \cup Elems(Tail(tchain)) /\ Distinct(Tail(tchain))
      /\ x \notin Elems(Tail(tchain))
  <2>1. x \in Transmits /\ Tail(tchain) \in Seq(Transmits)
    BY <1>2, TailOf
  <2>2. QED
    BY <1>2, <2>1, TailElems
<1>4. /\ Append(queue, x) \in Seq(Transmits) /\ Append(queue, x) # << >>
      /\ Elems(Append(queue, x)) = Elems(queue) \cup {x} /\ Distinct(Append(queue, x))
      /\ queue # << >> => Head(Append(queue, x)) = Head(queue)
  BY <1>2, <1>3, AppendElems
<1> HIDE DEF x
<1>5. call' \in {"idle", "receive", "transmit", "off"} /\ NetCall'
  BY <1>1 DEF N!CallAt, NetInv, NetCall
<1>6. N!TypeOK'
  BY <1>1, <1>3, <1>4, <1>5 DEF NetInv, N!TypeOK
<1>7. NetReceive' /\ NetPackets'
  BY <1>1, KeepReceive, KeepPackets DEF NetInv
<1>8. NetTransmit'
  <2>1. /\ Elems(queue)' = Elems(queue) \cup {x} /\ Elems(tchain)' = Elems(Tail(tchain))
        /\ Distinct(queue)' /\ Distinct(tchain)' /\ (Told' <=> Told)
    <3>1. Elems(queue)' = Elems(queue) \cup {x} /\ Distinct(queue)'
      BY <1>1, <1>4 DEF Elems, Distinct
    <3>2. Elems(tchain)' = Elems(Tail(tchain)) /\ Distinct(tchain)'
      BY <1>1, <1>3 DEF Elems, Distinct
    <3>3. QED
      BY <1>1, <3>1, <3>2 DEF Told
  <2>2. Elems(queue)' \cap Elems(tchain)' = {}
    BY <1>2, <1>3, <2>1
  <2>3. QED
    BY <1>1, <1>2, <1>3, <2>1, <2>2 DEF NetInv, NetTransmit, Told
<1>9. QED
  BY <1>5, <1>6, <1>7, <1>8 DEF NetInv

(* The driver makes chains of free requests. *)
LEMMA NetRequest ==
  ASSUME NetInv, NEW rs \in N!Chains(Receives), NEW ts \in N!Chains(Transmits), N!Request(rs, ts)
  PROVE  NetInv'
<1> DEFINE filled == Elems(rs) \cup Elems(ts)
           r0 == [status |-> "inProgress", actualLength |-> 0, packet |-> 0]
<1>1. /\ rs \in Seq(Receives) /\ Distinct(rs) /\ ts \in Seq(Transmits) /\ Distinct(ts)
  BY DEF N!Chains, Distinct
<1>2. /\ N!Elements(rs) = Elems(rs) /\ Elems(rs) \subseteq Receives
      /\ N!Elements(ts) = Elems(ts) /\ Elems(ts) \subseteq Transmits
  BY <1>1 DEF N!Elements, Elems
<1>3. /\ call = "idle" /\ rchain' = rs /\ tchain' = ts /\ agentStopped' = FALSE
      /\ call' = N!CallAt(rs, ts)
      /\ UNCHANGED <<rqueue, rstop, receiver, span, kernel, readBuffer, arrived,
                     queue, stopThread, worker, interrupt>>
      /\ \A i \in filled : iocb[i].status = "free"
      /\ iocb' = [i \in N!IOCBs |-> IF i \in filled THEN r0 ELSE iocb[i]]
  BY <1>2 DEF N!Request, N!receive, N!qvars
<1>4. /\ \A i \in filled : i \in N!IOCBs /\ iocb'[i] = r0
      /\ \A i \in N!IOCBs : i \notin filled => iocb'[i] = iocb[i]
      /\ filled \subseteq N!IOCBs /\ N!IOCBs = Receives \cup Transmits
      /\ r0.status = "inProgress" /\ r0.packet = 0 /\ r0.actualLength = 0
  BY <1>2, <1>3 DEF N!IOCBs
<1>5. /\ r0 \in N!IOCBType /\ iocb \in [N!IOCBs -> N!IOCBType]
  BY AgentsAssumption DEF N!IOCBType, N!Status, NetInv, N!TypeOK
<1> HIDE DEF r0, filled
<1>6. iocb' \in [N!IOCBs -> N!IOCBType]
  BY <1>3, <1>5
<1>7. /\ Elems(rqueue) \subseteq Receives /\ Elems(queue) \subseteq Transmits
      /\ Receives \cap Transmits = {}
      /\ (rqueue # << >> => Head(rqueue) \in Elems(rqueue))
      /\ (queue # << >> => Head(queue) \in Elems(queue))
  BY NetTypes DEF NetInv
<1>8. call' \in {"idle", "receive", "transmit", "off"} /\ NetCall'
  BY <1>3 DEF N!CallAt, NetInv, NetCall
<1>9. N!TypeOK'
  BY <1>1, <1>3, <1>6, <1>8 DEF NetInv, N!TypeOK
<1>10. NetPackets'
  <2>1. \A i \in Receives : iocb'[i].packet \in {iocb[i].packet, 0}
    BY <1>4
  <2>2. QED
    BY <1>3, <2>1, KeepPackets DEF NetInv
<1>11. /\ \A i \in Elems(rs) : iocb[i].status = "free" /\ iocb'[i] = r0
       /\ \A i \in Receives : i \notin Elems(rs) => iocb'[i] = iocb[i]
       /\ \A i \in Elems(ts) : iocb[i].status = "free" /\ iocb'[i] = r0
       /\ \A i \in Transmits : i \notin Elems(ts) => iocb'[i] = iocb[i]
  BY <1>2, <1>3, <1>4, <1>7 DEF filled
<1>12. NetReceive'
  <2>1. /\ Elems(rqueue)' = Elems(rqueue) /\ Elems(rchain)' = Elems(rs)
        /\ Distinct(rqueue)' /\ Distinct(rchain)' /\ (RTold' <=> RTold)
    BY <1>1, <1>3 DEF Elems, Distinct, RTold, NetInv, NetReceive
  <2>2. \A i \in Elems(rqueue) : i \in Elems(rs) => i = Head(rqueue) /\ RTold
    BY <1>11 DEF NetInv, NetReceive
  <2>3. \A i \in Elems(rs) : iocb'[i].status = "inProgress"
    BY <1>4, <1>11
  <2>4. \A i \in Elems(rqueue) : iocb'[i].status = "inProgress" \/ (i = Head(rqueue) /\ RTold)
    BY <1>7, <1>11, <2>3 DEF NetInv, NetReceive
  <2>5. \A i \in Receives : iocb'[i].status \in {"completedOK", "packetTooLong"} => iocb'[i] = iocb[i]
    BY <1>4, <1>11
  <2>6. receiver \in {"length", "status"} =>
          ~ RTold /\ rqueue # << >> /\ iocb'[Head(rqueue)] = iocb[Head(rqueue)]
    BY <1>7, <1>11, <2>2 DEF NetInv, NetReceive, RTold, N!Holds
  <2> HIDE DEF RTold
  <2>7. Elems(rqueue)' \cap Elems(rchain)' \subseteq (IF RTold' THEN {Head(rqueue)'} ELSE {})
    BY <1>3, <2>1, <2>2
  <2>8. \A i \in Receives : iocb'[i].status \in {"completedOK", "packetTooLong"} =>
          "receive" \in interrupt \/ (receiver = "notify" /\ Head(rqueue) = i)
    BY <2>5 DEF NetInv, NetReceive
  <2>9. \A i \in Receives : iocb'[i].status = "completedOK" =>
          iocb'[i].packet # 0 /\ iocb'[i].actualLength \in 1 .. BufferLength - 1
    BY <2>5 DEF NetInv, NetReceive
  <2>10. receiver \in {"length", "status"} =>
          /\ span.length \in 1 .. BufferLength - 1 /\ iocb'[Head(rqueue)].packet # 0
          /\ (receiver = "status" => iocb'[Head(rqueue)].actualLength = span.length)
    BY <2>6 DEF NetInv, NetReceive
  <2>11. receiver \in N!Holds => rqueue # << >>
    BY DEF NetInv, NetReceive
  <2>12. QED
    BY <1>3, <2>1, <2>3, <2>4, <2>7, <2>8, <2>9, <2>10, <2>11 DEF NetReceive
<1>13. NetTransmit'
  <2>1. /\ Elems(queue)' = Elems(queue) /\ Elems(tchain)' = Elems(ts)
        /\ Distinct(queue)' /\ Distinct(tchain)' /\ (Told' <=> Told)
    BY <1>1, <1>3 DEF Elems, Distinct, Told, NetInv, NetTransmit
  <2>2. \A i \in Elems(queue) : i \in Elems(ts) => i = Head(queue) /\ Told
    BY <1>11 DEF NetInv, NetTransmit, Told
  <2>3. \A i \in Elems(ts) : iocb'[i].status = "inProgress" /\ iocb'[i].packet = 0
    BY <1>4, <1>11
  <2>4. \A i \in Elems(queue) : \/ iocb'[i].status = "inProgress" /\ iocb'[i].packet = 0
                                \/ i = Head(queue) /\ worker \in {"status", "notify", "pop"}
    BY <1>7, <1>11, <2>3 DEF NetInv, NetTransmit
  <2>5. \A i \in Transmits : iocb'[i] = iocb[i] \/ iocb'[i].status = "inProgress"
    BY <1>4, <1>11
  <2>6. worker = "status" => ~ Told /\ queue # << >> /\ iocb'[Head(queue)] = iocb[Head(queue)]
    BY <1>7, <1>11, <2>2 DEF NetInv, NetTransmit, Told
  <2> HIDE DEF Told
  <2>7. Elems(queue)' \cap Elems(tchain)' \subseteq (IF Told' THEN {Head(queue)'} ELSE {})
    BY <1>3, <2>1, <2>2
  <2>8. \A i \in Transmits : /\ iocb'[i].status # "packetTooLong"
                             /\ iocb'[i].status = "completedOK" => iocb'[i].packet = 1
                             /\ iocb'[i].status = "completedOK" =>
                                  "transmit" \in interrupt \/ (worker = "notify" /\ Head(queue) = i)
    BY <2>5 DEF NetInv, NetTransmit
  <2>9. worker = "status" => iocb'[Head(queue)].status = "inProgress" /\ iocb'[Head(queue)].packet = 1
    BY <2>6 DEF NetInv, NetTransmit
  <2>10. worker \in {"process", "status", "notify", "pop"} => queue # << >>
    BY DEF NetInv, NetTransmit
  <2>11. QED
    BY <1>3, <2>1, <2>3, <2>4, <2>7, <2>8, <2>9, <2>10 DEF NetTransmit
<1>14. QED
  BY <1>8, <1>9, <1>10, <1>12, <1>13 DEF NetInv

(* The driver stops the agent, looks at outcomes of a kind, or leaves. *)
LEMMA NetDriver ==
  ASSUME NetInv, N!StopAgent \/ N!Leave \/ \E kind \in {"receive", "transmit"} : N!OnInterrupt(kind)
  PROVE  NetInv'
<1>1. CASE N!StopAgent \/ N!Leave
  <2>1. /\ UNCHANGED <<rchain, tchain, iocb, rqueue, receiver, span, kernel, readBuffer, arrived,
                       queue, worker, interrupt>>
        /\ call = "idle" /\ call' \in {"idle", "off"}
        /\ rstop' \in {rstop, TRUE} /\ stopThread' \in {stopThread, TRUE}
        /\ agentStopped' \in {agentStopped, TRUE}
    BY <1>1 DEF N!StopAgent, N!Leave, N!receive, N!qvars
  <2>2. N!TypeOK' /\ NetCall'
    <3>1. rstop' \in BOOLEAN /\ stopThread' \in BOOLEAN /\ agentStopped' \in BOOLEAN
      BY <2>1 DEF NetInv, N!TypeOK
    <3>2. QED
      BY <2>1, <3>1 DEF NetInv, N!TypeOK, NetCall
  <2>3. NetReceive' /\ NetTransmit' /\ NetPackets'
    BY <2>1, KeepReceive, KeepTransmit, KeepPackets DEF NetInv
  <2>4. QED
    BY <2>2, <2>3 DEF NetInv
<1>2. ASSUME NEW kind \in {"receive", "transmit"}, N!OnInterrupt(kind)
      PROVE  NetInv'
  <2> DEFINE mine == IF kind = "receive" THEN Receives ELSE Transmits
  <2>1. /\ UNCHANGED <<call, rchain, tchain, agentStopped, rqueue, rstop, receiver, span, kernel,
                       readBuffer, arrived, queue, stopThread, worker>>
        /\ call = "idle" /\ interrupt' = interrupt \ {kind}
        /\ iocb' = [i \in N!IOCBs |-> IF i \in mine /\ iocb[i].status # "inProgress"
                                      THEN [iocb[i] EXCEPT !.status = "free"] ELSE iocb[i]]
    BY <1>2 DEF N!OnInterrupt, N!driver, N!receive, N!qvars
  <2>2. /\ iocb \in [N!IOCBs -> N!IOCBType] /\ N!IOCBs = Receives \cup Transmits
        /\ Receives \cap Transmits = {}
    BY AgentsAssumption DEF NetInv, N!TypeOK, N!IOCBs
  <2>3. \A i \in N!IOCBs : [iocb[i] EXCEPT !.status = "free"] \in N!IOCBType
                           /\ [iocb[i] EXCEPT !.status = "free"].status = "free"
                           /\ [iocb[i] EXCEPT !.status = "free"].packet = iocb[i].packet
                           /\ [iocb[i] EXCEPT !.status = "free"].actualLength = iocb[i].actualLength
    BY <2>2 DEF N!IOCBType, N!Status
  <2>4. iocb' \in [N!IOCBs -> N!IOCBType]
    BY <2>1, <2>2, <2>3
  <2>5. \A i \in N!IOCBs :
          /\ iocb'[i].packet = iocb[i].packet /\ iocb'[i].actualLength = iocb[i].actualLength
          /\ iocb'[i].status = IF i \in mine /\ iocb[i].status # "inProgress" THEN "free"
                               ELSE iocb[i].status
          /\ i \notin mine => iocb'[i] = iocb[i]
    BY <2>1, <2>3
  <2> HIDE DEF mine
  <2>6. N!TypeOK' /\ NetCall'
    BY <2>1, <2>4 DEF NetInv, N!TypeOK, NetCall
  <2>7. NetPackets'
    BY <2>1, <2>2, <2>5, KeepPackets DEF NetInv
  <2>8. CASE kind = "receive"
    <3>1. mine = Receives
      BY <2>8 DEF mine
    <3>2. NetTransmit'
      BY <2>1, <2>2, <2>5, <2>8, <3>1, KeepTransmit DEF NetInv
    <3>3. NetReceive'
      <4>1. /\ Elems(rqueue)' = Elems(rqueue) /\ Elems(rchain)' = Elems(rchain)
            /\ Distinct(rqueue)' /\ Distinct(rchain)' /\ (RTold' <=> RTold)
            /\ Elems(rqueue) \subseteq Receives /\ Elems(rchain) \subseteq Receives
            /\ (rqueue # << >> => Head(rqueue) \in Elems(rqueue))
        BY <2>1, NetTypes DEF Elems, Distinct, RTold, NetInv, NetReceive
      <4>2. \A i \in Receives :
              /\ iocb'[i].packet = iocb[i].packet /\ iocb'[i].actualLength = iocb[i].actualLength
              /\ iocb'[i].status \notin {"completedOK", "packetTooLong"}
              /\ (iocb[i].status = "inProgress" => iocb'[i].status = "inProgress")
        BY <2>2, <2>5, <3>1 DEF N!IOCBType, N!Status
      <4>3. receiver \in {"length", "status"} => receiver \in N!Holds
        BY DEF N!Holds
      <4>4. QED
        BY <2>1, <4>1, <4>2, <4>3 DEF NetInv, NetReceive
    <3>4. QED
      BY <2>6, <2>7, <3>2, <3>3 DEF NetInv
  <2>9. CASE kind = "transmit"
    <3>1. mine = Transmits
      BY <2>9 DEF mine
    <3>2. NetReceive'
      BY <2>1, <2>2, <2>5, <2>9, <3>1, KeepReceive DEF NetInv
    <3>3. NetTransmit'
      <4>1. /\ Elems(queue)' = Elems(queue) /\ Elems(tchain)' = Elems(tchain)
            /\ Distinct(queue)' /\ Distinct(tchain)' /\ (Told' <=> Told)
            /\ Elems(queue) \subseteq Transmits /\ Elems(tchain) \subseteq Transmits
            /\ (queue # << >> => Head(queue) \in Elems(queue))
        BY <2>1, NetTypes DEF Elems, Distinct, Told, NetInv, NetTransmit
      <4>2. \A i \in Transmits :
              /\ iocb'[i].packet = iocb[i].packet
              /\ iocb'[i].status \notin {"completedOK", "packetTooLong"}
              /\ (iocb[i].status = "inProgress" => iocb'[i].status = "inProgress")
        BY <2>2, <2>5, <3>1 DEF N!IOCBType, N!Status
      <4>3. QED
        BY <2>1, <4>1, <4>2 DEF NetInv, NetTransmit
    <3>4. QED
      BY <2>6, <2>7, <3>2, <3>3 DEF NetInv
  <2>10. QED
    BY <2>8, <2>9
<1>3. QED
  BY <1>1, <1>2

(* The transmit thread sends a packet and tells the outcome. *)
LEMMA NetTransmitStep == ASSUME NetInv, N!Transmit PROVE NetInv'
<1> DEFINE w == Head(queue)
<1>1. /\ UNCHANGED <<call, rchain, tchain, agentStopped, rqueue, rstop, receiver, span, kernel,
                     readBuffer, arrived, queue, stopThread>>
      /\ \/ /\ worker = "process" /\ worker' = "status" /\ UNCHANGED interrupt
            /\ iocb' = [iocb EXCEPT ![w].packet = @ + 1]
         \/ /\ worker = "status" /\ worker' = "notify" /\ UNCHANGED interrupt
            /\ iocb' = [iocb EXCEPT ![w].status = "completedOK"]
         \/ /\ worker = "notify" /\ worker' = "pop" /\ UNCHANGED iocb
            /\ interrupt' = interrupt \cup {"transmit"}
  BY DEF N!Transmit, N!Sending, N!driver, N!receive
<1>2. /\ w \in Transmits /\ w \in Elems(queue) /\ iocb \in [N!IOCBs -> N!IOCBType] /\ w \in N!IOCBs
      /\ N!IOCBs = Receives \cup Transmits /\ Receives \cap Transmits = {}
      /\ Elems(queue) \subseteq Transmits /\ Elems(tchain) \subseteq Transmits
  BY <1>1, NetTypes, AgentsAssumption DEF NetInv, NetTransmit, N!TypeOK, N!IOCBs
<1>3. iocb[w] \in N!IOCBType
  BY <1>2
<1> HIDE DEF w
<1>4. /\ Elems(queue)' = Elems(queue) /\ Elems(tchain)' = Elems(tchain)
      /\ Distinct(queue)' /\ Distinct(tchain)' /\ Head(queue)' = w
  BY <1>1 DEF Elems, Distinct, NetInv, NetTransmit, w
<1>5. ASSUME iocb' \in [N!IOCBs -> N!IOCBType], \A i \in N!IOCBs : i # w => iocb'[i] = iocb[i],
             worker' \in {"status", "notify", "pop"}, NetTransmit',
             interrupt' \in {interrupt, interrupt \cup {"transmit"}}
      PROVE  NetInv'
  <2>1. \A i \in Receives : iocb'[i] = iocb[i]
    BY <1>2, <1>5
  <2>2. NetReceive'
    BY <1>1, <1>5, <2>1, KeepReceive DEF NetInv
  <2>3. NetPackets'
    BY <1>1, <2>1, KeepPackets DEF NetInv
  <2>4. NetCall'
    BY <1>1 DEF NetInv, NetCall
  <2>5. N!TypeOK'
    <3>1. interrupt' \subseteq {"receive", "transmit"}
      BY <1>5 DEF NetInv, N!TypeOK
    <3>2. QED
      BY <1>1, <1>5, <3>1 DEF NetInv, N!TypeOK
  <2>6. QED
    BY <1>5, <2>2, <2>3, <2>4, <2>5 DEF NetInv
<1>6. CASE /\ worker = "process" /\ worker' = "status" /\ UNCHANGED interrupt
           /\ iocb' = [iocb EXCEPT ![w].packet = @ + 1]
  <2> DEFINE r == [iocb[w] EXCEPT !.packet = @ + 1]
  <2>1. /\ iocb[w].status = "inProgress" /\ iocb[w].packet = 0 /\ ~ Told
        /\ Elems(queue) \cap Elems(tchain) = {}
    BY <1>2, <1>6 DEF NetInv, NetTransmit, Told, w
  <2>2. r \in N!IOCBType /\ r.status = "inProgress" /\ r.packet = 1
    <3>1. 0 + 1 \in 0 .. MaxPackets
      BY AgentsAssumption
    <3>2. QED
      BY <1>3, <2>1, <3>1 DEF N!IOCBType
  <2>3. iocb' = [iocb EXCEPT ![w] = r]
    BY <1>2, <1>6
  <2> HIDE DEF r
  <2>4. /\ iocb' \in [N!IOCBs -> N!IOCBType] /\ iocb'[w] = r
        /\ \A i \in N!IOCBs : i # w => iocb'[i] = iocb[i]
    BY <1>2, <2>2, <2>3
  <2>5. ~ Told' /\ w \notin Elems(tchain)
    BY <1>2, <1>6, <2>1 DEF Told
  <2>6. NetTransmit'
    BY <1>1, <1>2, <1>4, <1>6, <2>1, <2>2, <2>4, <2>5 DEF NetInv, NetTransmit, Told, w
  <2>7. QED
    BY <1>5, <1>6, <2>4, <2>6
<1>7. CASE /\ worker = "status" /\ worker' = "notify" /\ UNCHANGED interrupt
           /\ iocb' = [iocb EXCEPT ![w].status = "completedOK"]
  <2> DEFINE r == [iocb[w] EXCEPT !.status = "completedOK"]
  <2>1. /\ iocb[w].status = "inProgress" /\ iocb[w].packet = 1 /\ ~ Told
        /\ Elems(queue) \cap Elems(tchain) = {}
    BY <1>2, <1>7 DEF NetInv, NetTransmit, Told, w
  <2>2. r \in N!IOCBType /\ r.status = "completedOK" /\ r.packet = 1
    BY <1>3, <2>1 DEF N!IOCBType, N!Status
  <2>3. iocb' = [iocb EXCEPT ![w] = r]
    BY <1>2, <1>7
  <2> HIDE DEF r
  <2>4. /\ iocb' \in [N!IOCBs -> N!IOCBType] /\ iocb'[w] = r
        /\ \A i \in N!IOCBs : i # w => iocb'[i] = iocb[i]
    BY <1>2, <2>2, <2>3
  <2>5. w \notin Elems(tchain)
    BY <1>2, <2>1
  <2>6. NetTransmit'
    BY <1>1, <1>2, <1>4, <1>7, <2>1, <2>2, <2>4, <2>5 DEF NetInv, NetTransmit, Told, w
  <2>7. QED
    BY <1>5, <1>7, <2>4, <2>6
<1>8. CASE /\ worker = "notify" /\ worker' = "pop" /\ UNCHANGED iocb
           /\ interrupt' = interrupt \cup {"transmit"}
  <2>1. NetTransmit'
    BY <1>1, <1>2, <1>4, <1>8 DEF NetInv, NetTransmit, Told, w
  <2>2. QED
    BY <1>2, <1>5, <1>8, <2>1
<1>9. QED
  BY <1>1, <1>6, <1>7, <1>8

(* The loop of the transmit thread. *)
LEMMA NetRun == ASSUME NetInv, N!Run PROVE NetInv'
<1>1. UNCHANGED <<call, rchain, tchain, agentStopped, iocb, rqueue, rstop, receiver, span, kernel,
                  readBuffer, arrived, interrupt>>
  BY DEF N!Run, N!driver, N!receive
<1>2. NetReceive' /\ NetPackets' /\ NetCall'
  <2>1. NetReceive' /\ NetPackets'
    BY <1>1, KeepReceive, KeepPackets DEF NetInv
  <2>2. QED
    BY <1>1, <2>1 DEF NetInv, NetCall
<1>3. /\ queue \in Seq(Transmits) /\ Elems(queue) \subseteq Transmits
      /\ Elems(tchain)' = Elems(tchain) /\ Distinct(tchain)'
      /\ (queue # << >> => Head(queue) \in Elems(queue))
  BY <1>1, NetTypes DEF NetInv, NetTransmit, Elems, Distinct
<1>4. << >> \in Seq(Transmits) /\ Elems(<< >>) = {} /\ Distinct(<< >>)
  BY NoElems
<1>5. CASE UNCHANGED queue /\ (N!RunStart \/ N!RunLock \/ N!RunTop)
  <2>1. /\ worker \in {"start", "clear", "lock", "sleep", "top"}
        /\ worker' \in {"clear", "lock", "top", "done", "sleep", "process"}
        /\ worker' = "process" => queue # << >>
        /\ stopThread' \in BOOLEAN
    BY <1>5 DEF N!RunStart, N!RunLock, N!RunTop, NetInv, N!TypeOK
  <2>2. Elems(queue)' = Elems(queue) /\ Distinct(queue)'
    BY <1>5 DEF Elems, Distinct, NetInv, NetTransmit
  <2>3. N!TypeOK'
    BY <1>1, <1>5, <2>1 DEF NetInv, N!TypeOK, N!Unlocked
  <2>4. NetTransmit'
    BY <1>1, <1>3, <1>5, <2>1, <2>2 DEF NetInv, NetTransmit, Told
  <2>5. QED
    BY <1>2, <2>3, <2>4 DEF NetInv
<1>6. CASE worker = "clear" /\ worker' = "lock" /\ queue' = << >> /\ UNCHANGED stopThread
  <2>1. Elems(queue)' = {} /\ Distinct(queue)'
    BY <1>4, <1>6 DEF Elems, Distinct
  <2>2. N!TypeOK'
    BY <1>1, <1>4, <1>6 DEF NetInv, N!TypeOK, N!Unlocked
  <2>3. NetTransmit'
    BY <1>1, <1>3, <1>6, <2>1 DEF NetInv, NetTransmit, Told
  <2>4. QED
    BY <1>2, <2>2, <2>3 DEF NetInv
<1>7. CASE N!RunPop
  <2>1. worker = "pop" /\ worker' = "top" /\ queue' = Tail(queue) /\ UNCHANGED stopThread /\ queue # << >>
        /\ Distinct(queue)
    BY <1>7 DEF N!RunPop, NetInv, NetTransmit
  <2>2. /\ Tail(queue) \in Seq(Transmits) /\ Elems(queue) = {Head(queue)} \cup Elems(Tail(queue))
        /\ Distinct(Tail(queue)) /\ Head(queue) \notin Elems(Tail(queue))
    <3>1. Tail(queue) \in Seq(Transmits)
      BY <1>3, <2>1, TailOf
    <3>2. QED
      BY <1>3, <2>1, <3>1, TailElems
  <2>3. Elems(queue)' = Elems(Tail(queue)) /\ Distinct(queue)'
    BY <2>1, <2>2 DEF Elems, Distinct
  <2>4. N!TypeOK'
    BY <1>1, <2>1, <2>2 DEF NetInv, N!TypeOK, N!Unlocked
  <2>5. NetTransmit'
    BY <1>1, <1>3, <2>1, <2>2, <2>3 DEF NetInv, NetTransmit, Told
  <2>6. QED
    BY <1>2, <2>4, <2>5 DEF NetInv
<1>8. QED
  BY <1>5, <1>6, <1>7 DEF N!Run, N!RunStart, N!RunLock, N!RunTop

(* At first nothing is asked for. *)
LEMMA DiskFirst == ASSUME D!Init PROVE DiskInv
<1>1. << >> \in Seq(DiskIOCBs) /\ Elems(<< >>) = {} /\ Distinct(<< >>)
  BY NoElems
<1>2. D!TypeOK
  <2>1. /\ queue = << >> /\ chain = << >> /\ stopThread = FALSE /\ worker = "start" /\ call = "idle"
        /\ agentStopped = TRUE /\ interrupt = FALSE /\ index = 0
        /\ status = [i \in DiskIOCBs |-> "free"] /\ pageCount = [i \in DiskIOCBs |-> 0]
        /\ asked = [i \in DiskIOCBs |-> 0] /\ moved = [i \in DiskIOCBs |-> 0]
    BY DEF D!Init, D!QueueInit
  <2>2. 0 \in 0 .. MaxPages /\ 0 \in Nat
    BY AgentsAssumption
  <2>3. QED
    BY <1>1, <2>1, <2>2 DEF D!TypeOK, D!Unlocked
<1>3. DiskPlaces /\ DiskWork
  BY <1>1 DEF D!Init, D!QueueInit, DiskPlaces, DiskWork, Told
<1>4. QED
  BY <1>2, <1>3 DEF DiskInv

(* Before the first request the invariant of the network agent holds. *)
LEMMA NetFirst == ASSUME N!Init PROVE NetInv
<1>1. /\ << >> \in Seq(Receives) /\ << >> \in Seq(Transmits) /\ << >> \in Seq(N!Packet)
      /\ Elems(<< >>) = {} /\ Distinct(<< >>) /\ Rising(<< >>)
  BY NoElems DEF Rising
<1>2. /\ rqueue = << >> /\ rchain = << >> /\ queue = << >> /\ tchain = << >>
      /\ kernel = << >> /\ readBuffer = << >> /\ arrived = 0 /\ receiver = "start" /\ worker = "start"
      /\ interrupt = {} /\ call = "idle" /\ span = N!NoPacket
      /\ \A i \in N!IOCBs : iocb[i].status = "free" /\ iocb[i].packet = 0 /\ iocb[i] \in N!IOCBType
      /\ iocb \in [N!IOCBs -> N!IOCBType]
      /\ 0 \in 0 .. MaxPackets
  BY AgentsAssumption DEF N!Init, N!QueueInit, N!IOCBType, N!Status
<1>3. N!TypeOK
  BY <1>1, <1>2, AgentsAssumption DEF N!Init, N!QueueInit, N!TypeOK, N!Unlocked
<1>4. NetReceive /\ NetTransmit /\ NetPackets /\ NetCall
  BY <1>1, <1>2 DEF NetReceive, NetTransmit, NetPackets, NetCall, RTold, Told, N!Holds, Coming, N!IOCBs
<1>5. QED
  BY <1>3, <1>4 DEF NetInv

-----------------------------------------------------------------------------
(* The agents together: what a step of one leaves alone. *)
AgentsInv == (Disk => DiskInv) /\ (Network => NetInv)

(* At first nothing is asked of either agent.                                *)
LEMMA AgentsFirst == Init => AgentsInv
BY DiskFirst, NetFirst DEF Init, AgentsInv, Disk, Network

(* Every step keeps what is known of the agents; one of the driver, of a     *)
(* thread or of Call is a case each.                                         *)
LEMMA AgentsStep == AgentsInv /\ [Next]_vars => AgentsInv'
<1>1. SUFFICES ASSUME AgentsInv, [Next]_vars PROVE AgentsInv'
  OBVIOUS
<1>2. ASSUME Disk, D!Next, agent' = agent PROVE AgentsInv'
  <2>1. DiskInv
    BY <1>1, <1>2 DEF AgentsInv
  <2>2. DiskInv'
    BY <1>2, <2>1, DiskRequest, DiskStart, DiskPushNext, DiskDriver, DiskProcess, DiskRun DEF D!Next
  <2>3. QED
    BY <1>2, <2>2 DEF AgentsInv, Disk, Network
<1>3. ASSUME Network, N!Next, agent' = agent PROVE AgentsInv'
  <2>1. NetInv
    BY <1>1, <1>3 DEF AgentsInv
  <2>2. NetInv'
    <3>1. CASE N!ReceiveRun
      BY <2>1, <3>1, NetReceiver, NetBPF, NetCopy, NetReceivePop DEF N!ReceiveRun
    <3>2. CASE ~ N!ReceiveRun
      BY <1>3, <2>1, <3>2, NetRequest, NetDriver, NetPushReceive, NetPushTransmit, NetArrive,
         NetTransmitStep, NetRun DEF N!Next
    <3>3. QED
      BY <3>1, <3>2
  <2>3. QED
    BY <1>3, <2>2 DEF AgentsInv, Disk, Network
<1>4. CASE OfDisk(D!Next)
  BY <1>2, <1>4 DEF OfDisk, Disk
<1>5. CASE OfNetwork(N!Next)
  BY <1>3, <1>5 DEF OfNetwork, Network
<1>6. CASE OfFloppy(F!Next) \/ OfStream(S!Next)
  BY <1>6 DEF OfFloppy, OfStream, AgentsInv, Disk, Network
<1>7. CASE UNCHANGED vars
  <2>1. /\ UNCHANGED <<agent, call, interrupt, agentStopped, queue, stopThread, worker, chain, index,
                       asked, status, pageCount, moved>>
        /\ UNCHANGED <<rchain, tchain, iocb, rqueue, rstop, receiver, span, kernel, readBuffer, arrived>>
    BY <1>7 DEF vars, common, thread, requests, disk, network
  <2>2. DiskInv => DiskInv'
    <3>1. D!TypeOK => D!TypeOK'
      BY <2>1 DEF D!TypeOK
    <3>2. Elems(queue)' = Elems(queue) /\ Elems(chain)' = Elems(chain) /\ (Told' <=> Told)
          /\ (Distinct(queue) => Distinct(queue)') /\ (Distinct(chain) => Distinct(chain)')
      BY <2>1 DEF Elems, Told, Distinct
    <3>3. DiskPlaces => DiskPlaces'
      BY <2>1, <3>2 DEF DiskPlaces
    <3>4. DiskWork => DiskWork'
      BY <2>1, <3>2 DEF DiskWork, Fresh
    <3>5. QED
      BY <3>1, <3>3, <3>4 DEF DiskInv
  <2>3. NetInv => NetInv'
    <3>1. N!TypeOK => N!TypeOK'
      BY <2>1 DEF N!TypeOK
    <3>2. SUFFICES ASSUME NetInv PROVE NetReceive' /\ NetTransmit' /\ NetPackets' /\ NetCall'
      BY <3>1 DEF NetInv
    <3>3. NetReceive' /\ NetTransmit' /\ NetPackets'
      BY <2>1, <3>2, KeepReceive, KeepTransmit, KeepPackets DEF NetInv
    <3>4. QED
      BY <2>1, <3>2, <3>3 DEF NetInv, NetCall
  <2>4. QED
    BY <1>1, <2>1, <2>2, <2>3 DEF AgentsInv, Disk, Network
<1>8. QED
  BY <1>1, <1>4, <1>5, <1>6, <1>7 DEF Next

(* In every state the program reaches it holds.                              *)
LEMMA AgentsAlways == Spec => []AgentsInv
BY AgentsFirst, AgentsStep, PTL DEF Spec

(* The element at a place of a queue without two alike is at its head        *)
(* exactly where the place is the first.                                     *)
LEMMA AtHead ==
  ASSUME NEW X, NEW s \in Seq(X), Distinct(s), NEW j \in DOMAIN s
  PROVE  s # << >> /\ s[j] \in Elems(s) /\ (s[j] = Head(s) <=> j = 1)
<1>1. s # << >> /\ 1 \in DOMAIN s /\ Head(s) = s[1]
  OBVIOUS
<1>2. QED
  BY <1>1 DEF Distinct, Elems

(* What is known of the disk agent says what its properties say.             *)
LEMMA DiskProperties ==
  ASSUME DiskInv
  PROVE  D!RequestsExact /\ D!AllPagesMoved /\ D!OutcomesNotified
<1>1. /\ queue \in Seq(DiskIOCBs) /\ D!Elements(queue) = Elems(queue) /\ D!Elements(chain) = Elems(chain)
  BY DiskTypes DEF DiskInv, D!Elements, Elems
<1>2. ASSUME NEW j \in DOMAIN queue
      PROVE  status[queue[j]] = "inProgress" \/ (j = 1 /\ worker \in {"notify", "pop"})
  <2>1. queue # << >> /\ queue[j] \in Elems(queue) /\ (queue[j] = Head(queue) <=> j = 1)
    BY <1>1, AtHead DEF DiskInv, DiskPlaces
  <2>2. QED
    BY <2>1 DEF DiskInv, DiskWork, Fresh
<1>3. D!RequestsExact
  <2>1. \A j, k \in DOMAIN queue : queue[j] = queue[k] => j = k
    BY DEF DiskInv, DiskPlaces, Distinct
  <2>2. worker \notin {"notify", "pop"} => D!Elements(queue) \cap D!Elements(chain) = {}
    BY <1>1 DEF DiskInv, DiskPlaces, Told
  <2>3. QED
    BY <1>2, <2>1, <2>2 DEF DiskInv, D!RequestsExact
<1>4. D!AllPagesMoved /\ D!OutcomesNotified
  BY DEF DiskInv, DiskWork, D!AllPagesMoved, D!OutcomesNotified, D!Item
<1>5. QED
  BY <1>3, <1>4

(* What is known of the network agent says what its properties say.          *)
LEMMA NetProperties ==
  ASSUME NetInv
  PROVE  N!RequestsExact /\ N!PacketsIntact /\ N!OutcomesNotified
<1>1. /\ rqueue \in Seq(Receives) /\ queue \in Seq(Transmits)
      /\ N!Elements(queue) = Elems(queue) /\ N!Elements(tchain) = Elems(tchain)
      /\ N!Elements(rqueue) = Elems(rqueue) /\ N!Elements(rchain) = Elems(rchain)
      /\ N!Elements(kernel) = Elems(kernel) /\ N!Elements(readBuffer) = Elems(readBuffer)
      /\ Receives \cap Transmits = {}
  BY NetTypes DEF NetInv, N!Elements, Elems
<1>2. N!Exact(rqueue, rchain, receiver \in {"notify", "pop"})
  <2>1. ASSUME NEW j \in DOMAIN rqueue
        PROVE  iocb[rqueue[j]].status = "inProgress" \/ (j = 1 /\ receiver \in {"notify", "pop"})
    <3>1. rqueue # << >> /\ rqueue[j] \in Elems(rqueue) /\ (rqueue[j] = Head(rqueue) <=> j = 1)
      BY <1>1, AtHead DEF NetInv, NetReceive
    <3>2. QED
      BY <3>1 DEF NetInv, NetReceive, RTold
  <2>2. receiver \notin {"notify", "pop"} => N!Elements(rqueue) \cap N!Elements(rchain) = {}
    BY <1>1 DEF NetInv, NetReceive, RTold
  <2>3. \A j, k \in DOMAIN rqueue : rqueue[j] = rqueue[k] => j = k
    BY DEF NetInv, NetReceive, Distinct
  <2>4. QED
    BY <2>1, <2>2, <2>3 DEF N!Exact
<1>3. N!Exact(queue, tchain, worker \in {"notify", "pop"})
  <2>1. ASSUME NEW j \in DOMAIN queue
        PROVE  iocb[queue[j]].status = "inProgress" \/ (j = 1 /\ worker \in {"notify", "pop"})
    <3>1. queue # << >> /\ queue[j] \in Elems(queue) /\ (queue[j] = Head(queue) <=> j = 1)
      BY <1>1, AtHead DEF NetInv, NetTransmit
    <3>2. QED
      BY <3>1 DEF NetInv, NetTransmit
  <2>2. worker \notin {"notify", "pop"} => N!Elements(queue) \cap N!Elements(tchain) = {}
    BY <1>1 DEF NetInv, NetTransmit, Told
  <2>3. \A j, k \in DOMAIN queue : queue[j] = queue[k] => j = k
    BY DEF NetInv, NetTransmit, Distinct
  <2>4. QED
    BY <2>1, <2>2, <2>3 DEF N!Exact
<1>4. N!RequestsExact
  BY <1>2, <1>3 DEF NetInv, NetTransmit, N!RequestsExact
<1>5. N!OutcomesNotified
  BY <1>1 DEF NetInv, NetReceive, NetTransmit, N!OutcomesNotified, N!IOCBs, N!Wanted
<1>6. N!PacketsIntact
  <2>1. \A i \in Receives, p \in N!OnTheWay : iocb[i].packet < p.number
    BY <1>1 DEF N!OnTheWay, NetInv, NetPackets, Coming
  <2>2. QED
    BY <2>1 DEF N!PacketsIntact, NetInv, NetReceive, NetPackets
<1>7. QED
  BY <1>4, <1>5, <1>6

(* ThreadQueue.h, AgentDisk.cpp and AgentNetwork.cpp: whatever the driver    *)
(* asks, and whenever the agent is stopped and started, the threads work     *)
(* only for requests in progress, for each once, and one that is told to be  *)
(* sent was sent once.                                                       *)
THEOREM RequestsAlwaysExact == Spec => []RequestsExact
<1>1. AgentsInv => RequestsExact
  BY DiskProperties, NetProperties DEF AgentsInv, RequestsExact
<1>2. QED
  BY <1>1, AgentsAlways, PTL

(* AgentDisk.cpp: a completed request has had every page moved, each once.   *)
THEOREM PagesAlwaysMoved == Spec => []AllPagesMoved
<1>1. AgentsInv => AllPagesMoved
  BY DiskProperties DEF AgentsInv, AllPagesMoved
<1>2. QED
  BY <1>1, AgentsAlways, PTL

(* No outcome in an IOCB is without an interrupt that is pending or about to *)
(* be, for any number of requests of either kind.                            *)
THEOREM OutcomesAlwaysNotified == Spec => []OutcomesNotified
<1>1. AgentsInv => OutcomesNotified
  BY DiskProperties, NetProperties DEF AgentsInv, OutcomesNotified
<1>2. QED
  BY <1>1, AgentsAlways, PTL

(* AgentNetwork.cpp and BPF.cpp: packets reach the requests whole, with      *)
(* their length, at most one each, and in the order in which they came, for  *)
(* any number of packets and receive requests.                               *)
THEOREM PacketsAlwaysIntact == Spec => []PacketsIntact
<1>1. AgentsInv => PacketsIntact
  BY NetProperties DEF AgentsInv, PacketsIntact
<1>2. QED
  BY <1>1, AgentsAlways, PTL

(* A step that takes a request from the disk agent's queue.                  *)
LEMMA DiskLeaving ==
  ASSUME DiskInv, D!Next, NEW i \in DiskIOCBs, D!LeavesQueue(i) PROVE D!MayLeave(i)
<1>1. /\ D!Elements(queue) = Elems(queue) /\ D!Elements(queue)' = Elems(queue)'
      /\ D!Elements(chain) = Elems(chain)
  BY DEF D!Elements, Elems
<1>2. i \in Elems(queue) /\ i \notin Elems(queue)' /\ worker # "clear"
  BY <1>1 DEF D!LeavesQueue, D!Queued
<1>3. /\ queue \in Seq(DiskIOCBs) /\ chain \in Seq(DiskIOCBs) /\ (chain # << >> => Head(chain) \in DiskIOCBs)
  <2>1. queue \in Seq(DiskIOCBs) /\ chain \in Seq(DiskIOCBs)
    BY DiskTypes DEF DiskInv
  <2>2. QED
    BY <2>1, TailOf
<1>4. queue' # queue
  BY <1>2 DEF Elems
<1>5. CASE D!Start
  <2>1. /\ ~ Told
        /\ status' = [j \in DiskIOCBs |-> IF status[j] = "inProgress" /\ j \notin Elems(chain)
                                          THEN "free" ELSE status[j]]
    BY <1>1, <1>5 DEF D!Start, D!Clear, D!Locked, D!Unlocked, Told
  <2>2. i \notin Elems(chain)
    BY <1>2, <2>1 DEF DiskInv, DiskPlaces
  <2>3. QED
    BY <2>1, <2>2 DEF D!MayLeave
<1>6. CASE D!PushNext
  <2>1. queue' = Append(queue, Head(chain)) /\ chain # << >>
    BY <1>6 DEF D!PushNext, D!Push, DiskInv, DiskPlaces
  <2>2. Elems(Append(queue, Head(chain))) = Elems(queue) \cup {Head(chain)}
    BY <1>3, <2>1, AppendElems
  <2>3. Elems(queue)' = Elems(Append(queue, Head(chain)))
    BY <2>1 DEF Elems
  <2>4. QED
    BY <1>2, <2>2, <2>3
<1>7. CASE D!Run
  <2>1. worker = "pop" /\ queue' = Tail(queue) /\ UNCHANGED status
    BY <1>2, <1>4, <1>7 DEF D!Run, D!RunStart, D!RunLock, D!RunTop, D!RunPop, D!iocb
  <2>2. queue # << >>
    BY <2>1 DEF DiskInv, DiskPlaces
  <2>3. Elems(queue) = {Head(queue)} \cup Elems(Tail(queue)) /\ Elems(queue)' = Elems(Tail(queue))
    <3>1. Elems(queue)' = Elems(Tail(queue))
      BY <2>1 DEF Elems
    <3>2. QED
      BY <1>3, <2>2, <3>1, TailElems
  <2>4. i = Head(queue)
    BY <1>2, <2>3
  <2>5. QED
    BY <1>1, <2>1, <2>4 DEF DiskInv, DiskWork, Told, D!MayLeave
<1>8. QED
  BY <1>4, <1>5, <1>6, <1>7
     DEF D!Next, D!Request, D!StopAgent, D!OnInterrupt, D!Leave, D!Process, D!Begin, D!Move, D!MoveDone,
         D!Outcome, D!Notify, D!qvars

(* No disk request is lost: it leaves the queue completed or taken back by   *)
(* the driver, apart from what run clears when it starts.                    *)
THEOREM NeverForgotten == Spec => NotForgotten
<1>1. AgentsInv /\ [Next]_vars =>
        [Disk => \A i \in DiskIOCBs : D!LeavesQueue(i) => D!MayLeave(i)]_vars
  <2>1. SUFFICES ASSUME AgentsInv, Next, Disk, NEW i \in DiskIOCBs, D!LeavesQueue(i)
                 PROVE  D!MayLeave(i)
    OBVIOUS
  <2>2. D!Next
    BY <2>1 DEF Next, OfDisk, OfNetwork, OfFloppy, OfStream, Disk
  <2>3. DiskInv
    BY <2>1 DEF AgentsInv
  <2>4. QED
    BY <2>1, <2>2, <2>3, DiskLeaving
<1>2. QED
  BY <1>1, AgentsAlways, PTL DEF Spec, NotForgotten

-----------------------------------------------------------------------------
(* The boot stream. *)

(* What the driver has yet to take is the file's next words; all that went   *)
(* out before, it has.                                                       *)
Connecting == call = "stream" /\ fcb.server = "boot" /\ fcb.headCommand = "connect"
ToTake     == call = "idle" /\ fcb.server = "boot" /\ S!Filled
StreamInv ==
  /\ S!TypeOK
  /\ got = [k \in 1 .. Len(got) |-> k]
  /\ call = "stream" => ~ S!Filled
  /\ Connecting => got = << >> /\ ended = FALSE
  /\ ToTake => /\ pos = Len(got) + mesaGet.wordsWritten
               /\ mesaGet.endStream <=> pos = FileWords
               /\ \A k \in 1 .. mesaGet.wordsWritten : mesaGet.buffer[k] = Len(got) + k
  /\ ~ Connecting /\ ~ ToTake => Len(got) = pos /\ (ended <=> pos = FileWords)

(* What the types of the stream's variables say.                             *)
LEMMA StreamTypes ==
  ASSUME S!TypeOK
  PROVE  /\ FileWords \in Nat \ {0} /\ PageWords \in Nat \ {0} /\ AnswerWords \in 1 .. PageWords
         /\ pos \in 0 .. FileWords /\ pos \in Nat /\ mesaGet.wordsWritten \in 0 .. PageWords
         /\ mesaGet.wordsWritten \in Nat /\ mesaGet.wordsWritten <= PageWords
         /\ mesaGet.buffer \in [1 .. PageWords -> 0 .. FileWords] /\ mesaGet.endStream \in BOOLEAN
         /\ mesaGet \in S!TransferRec /\ fcb \in S!FCB /\ interrupt \in BOOLEAN
         /\ got \in Seq(0 .. FileWords) /\ got \in Seq(Nat) /\ Len(got) \in Nat
<1>1. FileWords \in Nat \ {0} /\ PageWords \in Nat \ {0} /\ AnswerWords \in 1 .. PageWords
  BY AgentsAssumption
<1>2. /\ mesaGet \in S!TransferRec /\ fcb \in S!FCB /\ interrupt \in BOOLEAN /\ pos \in 0 .. FileWords
      /\ got \in Seq(0 .. FileWords)
  BY DEF S!TypeOK, S!Words
<1>3. /\ mesaGet.wordsWritten \in 0 .. PageWords /\ mesaGet.endStream \in BOOLEAN
      /\ mesaGet.buffer \in [1 .. PageWords -> 0 .. FileWords]
  BY <1>2 DEF S!TransferRec, S!Words
<1>4. mesaGet.wordsWritten \in Nat /\ mesaGet.wordsWritten <= PageWords /\ pos \in Nat
  BY <1>1, <1>2, <1>3
<1>5. Len(got) \in Nat /\ got \in Seq(Nat)
  BY <1>1, <1>2
<1>6. QED
  BY <1>1, <1>2, <1>3, <1>4, <1>5

(* The first elements of a sequence.                                         *)
LEMMA FirstOf ==
  ASSUME NEW X, NEW s \in Seq(X), NEW n \in Nat, n <= Len(s)
  PROVE  /\ SubSeq(s, 1, n) \in Seq(X) /\ Len(SubSeq(s, 1, n)) = n
         /\ \A k \in 1 .. n : SubSeq(s, 1, n)[k] = s[k]
<1>1. 1 \in Int /\ n \in Int /\ Len(s) \in Nat /\ n - 1 + 1 = n
  OBVIOUS
<1>2. \A k \in 1 .. n : k \in 1 .. Len(s) /\ 1 + k - 1 = k
  BY <1>1
<1>3. \A k \in 1 .. n : s[k] \in X
  BY <1>2
<1>4. /\ Len(SubSeq(s, 1, n)) = n /\ DOMAIN SubSeq(s, 1, n) = 1 .. n
      /\ \A k \in 1 .. n : SubSeq(s, 1, n)[k] = s[k]
  BY <1>1, <1>2
<1>5. SubSeq(s, 1, n) \in Seq(X)
  BY <1>1, <1>2, SubSeqProperties
<1>6. QED
  BY <1>4, <1>5

(* The numbers from 1 on, and those that follow them.                        *)
LEMMA Counting ==
  ASSUME NEW X, NEW s \in Seq(X), NEW n \in Nat, Len(s) = n, s = [k \in 1 .. n |-> k],
         NEW m \in Nat, NEW t \in Seq(X), Len(t) = m, \A k \in 1 .. m : t[k] = n + k
  PROVE  s \o t = [k \in 1 .. Len(s \o t) |-> k] /\ Len(s \o t) = n + m
<1>1. /\ s \o t \in Seq(X) /\ Len(s \o t) = n + m
      /\ \A k \in 1 .. n + m : (s \o t)[k] = IF k <= n THEN s[k] ELSE t[k - n]
  OBVIOUS
<1>2. ASSUME NEW k \in 1 .. n + m PROVE (s \o t)[k] = k
  <2>1. CASE k <= n
    <3>1. k \in 1 .. n
      BY <1>2, <2>1
    <3>2. s[k] = k
      BY <3>1
    <3>3. QED
      BY <1>1, <2>1, <3>2
  <2>2. CASE ~ (k <= n)
    <3>1. k - n \in 1 .. m /\ n + (k - n) = k
      BY <1>2, <2>2
    <3>2. t[k - n] = k
      BY <3>1
    <3>3. QED
      BY <1>1, <2>2, <3>2
  <2>3. QED
    BY <2>1, <2>2
<1>3. QED
  BY <1>1, <1>2

(* The driver asks for something, takes what came, or stops the agent.       *)
LEMMA StreamDriver ==
  ASSUME StreamInv,
         \/ \E s \in S!Servers, c \in S!Commands, locked, told, there \in BOOLEAN :
              S!Ask(s, c, locked, told, there)
         \/ S!Take \/ S!StopAgent
  PROVE  StreamInv'
<1>1. /\ FileWords \in Nat \ {0} /\ PageWords \in Nat \ {0}
      /\ pos \in Nat /\ mesaGet.wordsWritten \in Nat /\ mesaGet.wordsWritten <= PageWords
      /\ mesaGet.buffer \in [1 .. PageWords -> 0 .. FileWords] /\ mesaGet.endStream \in BOOLEAN
      /\ mesaGet \in S!TransferRec /\ fcb \in S!FCB
      /\ got \in Seq(0 .. FileWords) /\ got \in Seq(Nat) /\ Len(got) \in Nat
  BY StreamTypes DEF StreamInv
<1>2. ASSUME NEW s \in S!Servers, NEW c \in S!Commands, NEW locked \in BOOLEAN,
             NEW told \in BOOLEAN, NEW there \in BOOLEAN, S!Ask(s, c, locked, told, there)
      PROVE  StreamInv'
  <2>1. /\ call = "idle" /\ ~ S!Filled /\ call' = "stream" /\ pos' = pos /\ interrupt' = interrupt
        /\ agentStopped' = FALSE
        /\ fcb' = [fcb EXCEPT !.server = s, !.headCommand = c]
        /\ mesaGet' = [mesaGet EXCEPT !.writeLockedByMesa = locked, !.interruptMesa = told,
                                      !.present = there]
        /\ IF s = "boot" /\ c = "connect" THEN got' = << >> /\ ended' = FALSE
                                          ELSE got' = got /\ ended' = ended
    BY <1>2 DEF S!Ask, S!known
  <2>2. fcb' \in S!FCB /\ fcb'.server = s /\ fcb'.headCommand = c
    BY <2>1 DEF StreamInv, S!TypeOK, S!FCB
  <2>3. /\ mesaGet' \in S!TransferRec /\ mesaGet'.wordsWritten = mesaGet.wordsWritten
        /\ mesaGet'.endStream = mesaGet.endStream
    BY <2>1 DEF StreamInv, S!TypeOK, S!TransferRec
  <2>4. S!TypeOK' /\ got' = [k \in 1 .. Len(got') |-> k]
    <3>1. CASE s = "boot" /\ c = "connect"
      <4>1. got' = << >> /\ ended' = FALSE /\ << >> \in Seq(S!Words) /\ Len(<< >>) = 0
        BY <2>1, <3>1
      <4>2. << >> = [k \in 1 .. 0 |-> k]
        OBVIOUS
      <4>3. S!TypeOK'
        BY <2>1, <2>2, <2>3, <4>1 DEF StreamInv, S!TypeOK
      <4>4. QED
        BY <4>1, <4>2, <4>3
    <3>2. CASE ~ (s = "boot" /\ c = "connect")
      BY <2>1, <2>2, <2>3, <3>2 DEF StreamInv, S!TypeOK
    <3>3. QED
      BY <3>1, <3>2
  <2>5. ~ S!Filled' /\ ~ ToTake' /\ (Connecting' <=> s = "boot" /\ c = "connect")
        /\ ~ ToTake /\ ~ Connecting
    BY <2>1, <2>2, <2>3 DEF S!Filled, ToTake, Connecting
  <2>6. QED
    BY <2>1, <2>4, <2>5 DEF StreamInv
<1>3. CASE S!Take
  <2> DEFINE w == mesaGet.wordsWritten
             t == SubSeq(mesaGet.buffer, 1, w)
  <2>1. /\ call = "idle" /\ S!Filled /\ UNCHANGED <<call, agentStopped, fcb, pos>> /\ interrupt' = FALSE
        /\ mesaGet' = [mesaGet EXCEPT !.wordsWritten = 0, !.endStream = FALSE]
        /\ IF fcb.server = "boot" THEN got' = got \o t /\ ended' = mesaGet.endStream
                                  ELSE got' = got /\ ended' = ended
    BY <1>3 DEF S!Take, S!known
  <2>2. /\ mesaGet' \in S!TransferRec /\ mesaGet'.wordsWritten = 0 /\ mesaGet'.endStream = FALSE
    <3>1. 0 \in 0 .. PageWords
      BY <1>1
    <3>2. QED
      BY <1>1, <2>1, <3>1 DEF S!TransferRec
  <2>3. t \in Seq(0 .. FileWords) /\ Len(t) = w /\ \A k \in 1 .. w : t[k] = mesaGet.buffer[k]
    <3> DEFINE all == mesaGet.buffer
    <3>1. all \in Seq(0 .. FileWords) /\ Len(all) = PageWords
      BY <1>1
    <3>2. w \in Nat /\ w <= PageWords
      BY <1>1
    <3> HIDE DEF w, all
    <3>3. /\ SubSeq(all, 1, w) \in Seq(0 .. FileWords) /\ Len(SubSeq(all, 1, w)) = w
          /\ \A k \in 1 .. w : SubSeq(all, 1, w)[k] = all[k]
      BY <3>1, <3>2, FirstOf
    <3>4. QED
      BY <3>3 DEF all
  <2>4. ~ S!Filled' /\ ~ ToTake' /\ ~ Connecting' /\ (ToTake <=> fcb.server = "boot") /\ ~ Connecting
    BY <2>1, <2>2 DEF S!Filled, ToTake, Connecting
  <2>5. CASE fcb.server = "boot"
    <3>1. /\ pos = Len(got) + w /\ (mesaGet.endStream <=> pos = FileWords)
          /\ \A k \in 1 .. w : t[k] = Len(got) + k
      BY <2>3, <2>4, <2>5 DEF StreamInv
    <3>2. w \in Nat /\ got = [k \in 1 .. Len(got) |-> k]
      BY <1>1 DEF StreamInv
    <3> HIDE DEF w, t
    <3> DEFINE n == Len(got)
    <3>3. /\ got \in Seq(0 .. FileWords) /\ t \in Seq(0 .. FileWords) /\ n \in Nat /\ w \in Nat
          /\ Len(got) = n /\ Len(t) = w /\ got = [k \in 1 .. n |-> k]
          /\ \A k \in 1 .. w : t[k] = n + k
      BY <1>1, <2>3, <3>1, <3>2
    <3> HIDE DEF n
    <3>4. got \o t = [k \in 1 .. Len(got \o t) |-> k] /\ Len(got \o t) = n + w
      BY SMTT(30), <3>3, Counting
    <3>5. got \o t = [k \in 1 .. Len(got \o t) |-> k] /\ Len(got \o t) = Len(got) + w
      BY <3>3, <3>4
    <3>6. got \o t \in Seq(0 .. FileWords) /\ mesaGet.endStream \in BOOLEAN
      BY <1>1, <2>3
    <3>7. S!TypeOK'
      BY <2>1, <2>2, <2>5, <3>6 DEF StreamInv, S!TypeOK, S!Words
    <3>8. QED
      BY <2>1, <2>4, <2>5, <3>1, <3>5, <3>7 DEF StreamInv
  <2>6. CASE fcb.server # "boot"
    <3>1. S!TypeOK'
      BY <2>1, <2>2, <2>6 DEF StreamInv, S!TypeOK
    <3>2. QED
      BY <2>1, <2>4, <2>6, <3>1 DEF StreamInv
  <2>7. QED
    BY <2>5, <2>6
<1>4. CASE S!StopAgent
  <2>1. UNCHANGED <<call, interrupt, fcb, mesaGet, pos, got, ended>> /\ agentStopped' = TRUE
    BY <1>4 DEF S!StopAgent, S!known
  <2>2. S!TypeOK'
    BY <2>1 DEF StreamInv, S!TypeOK
  <2>3. QED
    BY <2>1, <2>2 DEF StreamInv, S!Filled, Connecting, ToTake
<1>5. QED
  BY <1>2, <1>3, <1>4

(* What Fill leaves in the transfer record.                                  *)
LEMMA StreamFill ==
  ASSUME StreamInv, call = "stream", NEW words, NEW n \in 0 .. PageWords, words \in Seq(0 .. FileWords),
         Len(words) = n, NEW last \in BOOLEAN, S!Fill(words, last)
  PROVE  /\ mesaGet' \in S!TransferRec /\ mesaGet'.wordsWritten = n /\ mesaGet'.endStream = last
         /\ \A k \in 1 .. n : mesaGet'.buffer[k] = words[k]
         /\ call' = "idle" /\ fcb' \in S!FCB /\ fcb'.server = fcb.server /\ fcb'.headCommand = fcb.headCommand
         /\ interrupt' \in BOOLEAN /\ UNCHANGED <<agentStopped, got, ended>>
<1>1. /\ PageWords \in Nat \ {0} /\ DOMAIN words = 1 .. n /\ mesaGet \in S!TransferRec
      /\ mesaGet.endStream = FALSE /\ fcb \in S!FCB /\ n \in Nat /\ n <= PageWords
      /\ interrupt \in BOOLEAN
  <2>1. n \in Nat /\ n <= PageWords /\ PageWords \in Nat \ {0}
    BY StreamTypes DEF StreamInv
  <2>2. DOMAIN words = 1 .. n
    OBVIOUS
  <2>3. mesaGet \in S!TransferRec /\ fcb \in S!FCB /\ interrupt \in BOOLEAN /\ mesaGet.endStream \in BOOLEAN
    BY StreamTypes DEF StreamInv
  <2>4. QED
    BY <2>1, <2>2, <2>3 DEF StreamInv, S!Filled
<1> DEFINE b == [k \in 1 .. PageWords |-> IF k \in DOMAIN words THEN words[k] ELSE mesaGet.buffer[k]]
<1>2. /\ mesaGet' = [mesaGet EXCEPT !.buffer = b, !.wordsWritten = n, !.endStream = last]
      /\ call' = "idle" /\ fcb' = [fcb EXCEPT !.headResult = "completed"]
      /\ interrupt' = (interrupt \/ mesaGet.interruptMesa) /\ UNCHANGED <<agentStopped, got, ended>>
  BY <1>1 DEF S!Fill, S!Answer, S!known
<1>3. b \in [1 .. PageWords -> 0 .. FileWords] /\ \A k \in 1 .. n : b[k] = words[k]
  <2>1. \A k \in 1 .. PageWords : mesaGet.buffer[k] \in 0 .. FileWords
    BY <1>1 DEF S!TransferRec, S!Words
  <2>2. \A k \in 1 .. n : words[k] \in 0 .. FileWords /\ k \in 1 .. PageWords
    <3>1. \A k \in 1 .. n : words[k] \in 0 .. FileWords
      BY ElementOfSeq
    <3>2. QED
      BY <1>1, <3>1
  <2>3. QED
    BY <1>1, <2>1, <2>2
<1> HIDE DEF b
<1>4. /\ mesaGet' \in S!TransferRec /\ mesaGet'.wordsWritten = n /\ mesaGet'.endStream = last
      /\ mesaGet'.buffer = b
  BY <1>1, <1>2, <1>3 DEF S!TransferRec, S!Words
<1>5. fcb' \in S!FCB /\ fcb'.server = fcb.server /\ fcb'.headCommand = fcb.headCommand
  BY <1>1, <1>2 DEF S!FCB
<1>6. interrupt' \in BOOLEAN
  BY <1>1, <1>2
<1>7. QED
  BY <1>2, <1>3, <1>4, <1>5, <1>6

(* Call gives the command to a stream.                                       *)
LEMMA StreamCall == ASSUME StreamInv, S!Call PROVE StreamInv'
<1>1. /\ FileWords \in Nat \ {0} /\ PageWords \in Nat \ {0} /\ AnswerWords \in 1 .. PageWords
      /\ pos \in 0 .. FileWords /\ call = "stream" /\ fcb \in S!FCB
      /\ got \in Seq(0 .. FileWords) /\ Len(got) \in Nat
      /\ ~ S!Filled /\ ~ ToTake /\ mesaGet \in S!TransferRec
  <2>1. call = "stream"
    BY DEF S!Call, S!Refuse, S!Idle, S!Connect, S!Locked, S!Fault, S!BootWrite, S!WWCWrite, S!Serve
  <2>2. ~ S!Filled /\ ~ ToTake
    BY <2>1 DEF StreamInv, ToTake
  <2>3. QED
    BY <2>1, <2>2, StreamTypes DEF StreamInv
<1>2. CASE S!Refuse \/ S!Idle \/ S!Locked
  <2>1. /\ UNCHANGED <<interrupt, mesaGet, pos, agentStopped, got, ended>> /\ call' = "idle"
        /\ \E r \in {"completed", "inProgress", "error"} : fcb' = [fcb EXCEPT !.headResult = r]
        /\ ~ Connecting
    BY <1>2 DEF S!Refuse, S!Idle, S!Locked, S!Answer, S!Serve, S!Servers, S!known, Connecting
  <2>2. fcb' \in S!FCB /\ S!TypeOK'
    BY <1>1, <2>1 DEF StreamInv, S!TypeOK, S!FCB
  <2>3. ~ S!Filled' /\ ~ ToTake' /\ ~ Connecting'
    BY <1>1, <2>1 DEF S!Filled, ToTake, Connecting
  <2>4. QED
    BY <1>1, <2>1, <2>2, <2>3 DEF StreamInv
<1>3. CASE S!Connect
  <2>1. /\ UNCHANGED <<interrupt, mesaGet, agentStopped, got, ended>> /\ call' = "idle" /\ pos' = 0
        /\ fcb' = [fcb EXCEPT !.headResult = "completed"] /\ Connecting
    BY <1>1, <1>3 DEF S!Connect, S!Answer, S!Serve, S!known, Connecting
  <2>2. fcb' \in S!FCB /\ S!TypeOK'
    BY <1>1, <2>1 DEF StreamInv, S!TypeOK, S!FCB
  <2>3. ~ S!Filled' /\ ~ ToTake' /\ ~ Connecting'
    BY <1>1, <2>1 DEF S!Filled, ToTake, Connecting
  <2>4. got = << >> /\ ended = FALSE /\ Len(got) = 0
    BY <2>1 DEF StreamInv
  <2>5. QED
    BY <1>1, <2>1, <2>2, <2>3, <2>4 DEF StreamInv
<1>4. CASE S!Fault
  <2>1. /\ UNCHANGED <<call, interrupt, agentStopped, fcb, pos, got, ended>>
        /\ mesaGet' = [mesaGet EXCEPT !.present = TRUE]
    BY <1>4 DEF S!Fault, S!known
  <2>2. mesaGet' \in S!TransferRec /\ mesaGet'.wordsWritten = mesaGet.wordsWritten
        /\ mesaGet'.endStream = mesaGet.endStream
    BY <1>1, <2>1 DEF S!TransferRec
  <2>3. S!TypeOK'
    BY <2>1, <2>2 DEF StreamInv, S!TypeOK
  <2>4. ~ S!Filled' /\ ~ ToTake' /\ (Connecting' <=> Connecting)
    BY <1>1, <2>1, <2>2 DEF S!Filled, ToTake, Connecting
  <2>5. QED
    BY <1>1, <2>1, <2>3, <2>4 DEF StreamInv
<1>5. CASE S!BootWrite
  <2> DEFINE size == IF FileWords < pos + PageWords THEN FileWords - pos ELSE PageWords
             words == [k \in 1 .. size |-> pos + k]
  <2>1. /\ size \in 0 .. PageWords /\ pos + size \in 0 .. FileWords /\ size \in Nat
    BY <1>1
  <2>2. pos' = pos + size /\ S!Fill(words, pos + size = FileWords) /\ fcb.server = "boot"
        /\ fcb.headCommand = "write"
    BY <1>5 DEF S!BootWrite, S!Serve
  <2> HIDE DEF size
  <2>3. words \in Seq(0 .. FileWords) /\ Len(words) = size /\ \A k \in 1 .. size : words[k] = pos + k
    <3>1. \A k \in 1 .. size : pos + k \in 0 .. FileWords
      BY <1>1, <2>1
    <3>2. QED
      BY <2>1, <3>1
  <2> HIDE DEF words
  <2>4. (pos + size = FileWords) \in BOOLEAN
    OBVIOUS
  <2>5. /\ mesaGet' \in S!TransferRec /\ mesaGet'.wordsWritten = size
        /\ mesaGet'.endStream = (pos + size = FileWords)
        /\ \A k \in 1 .. size : mesaGet'.buffer[k] = words[k]
        /\ call' = "idle" /\ fcb' \in S!FCB /\ fcb'.server = fcb.server /\ fcb'.headCommand = fcb.headCommand
        /\ interrupt' \in BOOLEAN /\ UNCHANGED <<agentStopped, got, ended>>
    BY <1>1, <2>1, <2>2, <2>3, <2>4, StreamFill
  <2>6. Len(got) = pos /\ (ended <=> pos = FileWords) /\ ~ Connecting
    BY <1>1, <2>2 DEF StreamInv, Connecting
  <2>7. S!TypeOK'
    BY <2>1, <2>2, <2>5 DEF StreamInv, S!TypeOK
  <2>8. ~ Connecting' /\ (ToTake' <=> S!Filled') /\ (S!Filled' <=> size > 0 \/ pos + size = FileWords)
    BY <2>2, <2>5 DEF Connecting, ToTake, S!Filled
  <2>9. CASE size > 0 \/ pos + size = FileWords
    <3>1. /\ pos' = Len(got') + mesaGet'.wordsWritten /\ (mesaGet'.endStream <=> pos' = FileWords)
          /\ \A k \in 1 .. mesaGet'.wordsWritten : mesaGet'.buffer[k] = Len(got') + k
      BY <2>2, <2>3, <2>5, <2>6
    <3>2. QED
      BY <2>5, <2>7, <2>8, <2>9, <3>1 DEF StreamInv
  <2>10. CASE ~ (size > 0 \/ pos + size = FileWords)
    <3>1. size = 0 /\ pos' = pos
      BY <1>1, <2>1, <2>2, <2>10
    <3>2. QED
      BY <2>5, <2>6, <2>7, <2>8, <2>10, <3>1 DEF StreamInv
  <2>11. QED
    BY <2>9, <2>10
<1>6. CASE S!WWCWrite
  <2> DEFINE words == [k \in 1 .. AnswerWords |-> 0]
  <2>1. S!Fill(words, FALSE) /\ fcb.server = "windows" /\ pos' = pos
    BY <1>6 DEF S!WWCWrite, S!Serve
  <2>2. words \in Seq(0 .. FileWords) /\ Len(words) = AnswerWords /\ AnswerWords \in 0 .. PageWords
    BY <1>1
  <2> HIDE DEF words
  <2>3. /\ mesaGet' \in S!TransferRec
        /\ call' = "idle" /\ fcb' \in S!FCB /\ fcb'.server = fcb.server
        /\ interrupt' \in BOOLEAN /\ UNCHANGED <<agentStopped, got, ended>>
    BY <1>1, <2>1, <2>2, StreamFill
  <2>4. S!TypeOK'
    BY <2>1, <2>3 DEF StreamInv, S!TypeOK
  <2>5. ~ Connecting' /\ ~ ToTake' /\ ~ Connecting
    BY <2>1, <2>3 DEF Connecting, ToTake
  <2>6. QED
    BY <1>1, <2>1, <2>3, <2>4, <2>5 DEF StreamInv
<1>7. QED
  BY <1>2, <1>3, <1>4, <1>5, <1>6 DEF S!Call

(* At first the file is at its beginning.                                    *)
LEMMA StreamFirst == ASSUME S!Init PROVE StreamInv
<1>1. /\ FileWords \in Nat \ {0} /\ PageWords \in Nat \ {0} /\ 0 \in 0 .. PageWords
      /\ 0 \in 0 .. FileWords /\ << >> \in Seq(0 .. FileWords) /\ Len(<< >>) = 0
  BY AgentsAssumption
<1>2. S!TypeOK
  BY <1>1 DEF S!Init, S!TypeOK, S!FCB, S!TransferRec, S!Servers, S!Commands, S!Words
<1>3. << >> = [k \in 1 .. 0 |-> k]
  OBVIOUS
<1>4. QED
  BY <1>1, <1>2, <1>3 DEF S!Init, StreamInv, Connecting, ToTake, S!Filled

(* StreamInv holds of the stream agent throughout.                          *)
LEMMA StreamAlways == Init /\ [][Next]_vars => [](agent = "stream" => StreamInv)
<1>1. Init => (agent = "stream" => StreamInv)
  BY StreamFirst DEF Init
<1>2. (agent = "stream" => StreamInv) /\ [Next]_vars => (agent = "stream" => StreamInv)'
  <2>1. SUFFICES ASSUME agent = "stream" => StreamInv, [Next]_vars, agent' = "stream"
                 PROVE  StreamInv'
    OBVIOUS
  <2>2. CASE OfStream(S!Next)
    BY <2>1, <2>2, StreamDriver, StreamCall DEF OfStream, S!Next
  <2>3. CASE UNCHANGED vars
    <3>1. UNCHANGED <<agent, call, interrupt, agentStopped, fcb, mesaGet, pos, got, ended>>
      BY <2>3 DEF vars, common, stream
    <3>2. QED
      BY <2>1, <3>1 DEF StreamInv, S!TypeOK, S!Filled, Connecting, ToTake
  <2>4. QED
    BY <2>1, <2>2, <2>3 DEF Next, OfDisk, OfNetwork, OfFloppy
<1>3. QED
  BY <1>1, <1>2, PTL

-----------------------------------------------------------------------------
(* The floppy agent: sectors and addresses, what requests promise, and what  *)
(* became of each of the chain.                                             *)

(* Division of naturals. *)
LEMMA Division ==
  ASSUME NEW a \in Nat, NEW b \in Nat \ {0}
  PROVE  a \div b \in Nat /\ a % b \in 0 .. b - 1 /\ a = b * (a \div b) + (a % b)
OBVIOUS

(* Which integers have quotient q. *)
LEMMA Quotient ==
  ASSUME NEW a \in Int, NEW b \in Nat \ {0}, NEW q \in Int
  PROVE  a \div b = q <=> b * q <= a /\ a < b * q + b
OBVIOUS

(* Products of naturals are monotonic. *)
LEMMA TimesLess ==
  ASSUME NEW a \in Nat, NEW b \in Nat, NEW c \in Nat, a <= b
  PROVE  c * a <= c * b
OBVIOUS

(* A multiple below zero is below by the factor at least. *)
LEMMA TimesNegative ==
  ASSUME NEW a \in Int, NEW b \in Nat, a < 0
  PROVE  b * a + b <= 0
OBVIOUS

(* The sizes of the disk. *)
LEMMA FloppySizes ==
  /\ Heads \in Nat \ {0} /\ SectorsPerTrack \in Nat \ {0} /\ Cylinders \in Nat \ {0}
  /\ F!Count \in Nat \ {0} /\ DataPages \subseteq Nat \ {0}
<1>1. Heads \in Nat \ {0} /\ SectorsPerTrack \in Nat \ {0} /\ Cylinders \in Nat \ {0}
      /\ DataPages \subseteq Nat \ {0}
  BY AgentsAssumption
<1>2. QED
  BY <1>1 DEF F!Count

(* An address is that of a sector, counted from 1. *)
LEMMA SectorOf ==
  ASSUME NEW a \in F!DiskAddress
  PROVE  F!diskAddressToSector(a) \in Nat \ {0}
<1>1. a.cylinder \in Nat /\ a.head \in Nat /\ a.sector \in Nat \ {0}
  BY FloppySizes DEF F!DiskAddress
<1>2. a.head + Heads * a.cylinder \in Nat
  BY <1>1, FloppySizes
<1>3. SectorsPerTrack * (a.head + Heads * a.cylinder) \in Nat
  BY <1>2, FloppySizes
<1>4. QED
  BY <1>1, <1>3 DEF F!diskAddressToSector

(* The address of a sector, or of the one after the last, is that sector's. *)
LEMMA AddressOf ==
  ASSUME NEW s \in 1 .. F!Count + 1
  PROVE  /\ F!sectorToDiskAddress(s) \in F!DiskAddress
         /\ F!diskAddressToSector(F!sectorToDiskAddress(s)) = s
<1> DEFINE track == (s - 1) \div SectorsPerTrack
           rest == (s - 1) % SectorsPerTrack
           cylinder == track \div Heads
           head == track % Heads
<1>1. s - 1 \in Nat /\ s \in Nat /\ s - 1 <= F!Count
  BY FloppySizes
<1>2. /\ track \in Nat /\ rest \in 0 .. SectorsPerTrack - 1
      /\ s - 1 = SectorsPerTrack * track + rest
  BY <1>1, Division, FloppySizes
<1>3. cylinder \in Nat /\ head \in 0 .. Heads - 1 /\ track = Heads * cylinder + head
  BY <1>2, Division, FloppySizes
<1> HIDE DEF track, rest, cylinder, head
<1>4. cylinder <= Cylinders
  <2>1. SUFFICES ASSUME Cylinders + 1 <= cylinder PROVE FALSE
    BY <1>3, FloppySizes
  <2>2. Heads * (Cylinders + 1) <= Heads * cylinder
    BY <1>3, <2>1, FloppySizes, TimesLess
  <2>3. Heads * Cylinders + Heads <= track
    BY <1>2, <1>3, <2>2, FloppySizes
  <2>4. SectorsPerTrack * (Heads * Cylinders + Heads) <= SectorsPerTrack * track
    <3>1. Heads * Cylinders + Heads \in Nat
      BY FloppySizes
    <3>2. QED
      BY <1>2, <2>3, <3>1, FloppySizes, TimesLess
  <2>5. F!Count + SectorsPerTrack * Heads = SectorsPerTrack * (Heads * Cylinders + Heads)
    BY FloppySizes DEF F!Count
  <2>6. SectorsPerTrack * Heads \in Nat \ {0} /\ SectorsPerTrack * track \in Nat
    BY <1>2, FloppySizes
  <2>7. QED
    BY <1>1, <1>2, <2>4, <2>5, <2>6, FloppySizes
<1>5. F!sectorToDiskAddress(s) = [cylinder |-> cylinder, head |-> head, sector |-> rest + 1]
  BY DEF F!sectorToDiskAddress, cylinder, head, rest, track
<1>6. rest + 1 \in 1 .. SectorsPerTrack
  BY <1>2, FloppySizes
<1>7. QED
  BY <1>1, <1>2, <1>3, <1>4, <1>5, <1>6, FloppySizes DEF F!DiskAddress, F!diskAddressToSector
-----------------------------------------------------------------------------
(* The loops of E_BC, Interrupt and TimeoutScan: each has a value, reached   *)
(* from d in as many rounds as there are processes or levels.               *)

(* Induction along an interval, from the well-foundedness of finite sets. *)
LEMMA IntervalInduction ==
  ASSUME NEW n \in Nat, NEW T \in SUBSET (0 .. n), 0 \in T,
         \A k \in 0 .. n - 1 : k \in T => k + 1 \in T
  PROVE  T = 0 .. n
<1> SUFFICES ASSUME NEW j \in 0 .. n, j \notin T PROVE FALSE
  OBVIOUS
<1> DEFINE Missed == {U \in SUBSET (0 .. n) : \E k \in 0 .. n : U = 0 .. k /\ k \notin T}
           Less == StrictSubsetOrdering(0 .. n)
<1>1. IsWellFoundedOn(Less, SUBSET (0 .. n))
  <2>1. IsFiniteSet(0 .. n)
    BY FS_Interval
  <2>2. QED
    BY <2>1, FS_StrictSubsetOrderingWellFounded, FS_FiniteSubsetsOfFinite
<1>2. 0 .. j \in Missed
  OBVIOUS
<1>3. PICK U \in Missed : \A V \in Missed : <<V, U>> \notin Less
  <2> HIDE DEF Less
  <2>1. Missed \subseteq SUBSET (0 .. n)
    OBVIOUS
  <2> HIDE DEF Missed
  <2>2. QED
    BY <1>1, <1>2, <2>1, WFMin
<1>4. PICK k \in 0 .. n : U = 0 .. k /\ k \notin T
  OBVIOUS
<1>5. k # 0 /\ k - 1 \in 0 .. n - 1 /\ k - 1 \notin T
  BY <1>4
<1>6. 0 .. k - 1 \in Missed
  BY <1>5
<1>7. <<0 .. k - 1, U>> \in Less
  BY <1>4, <1>5 DEF StrictSubsetOrdering
<1>8. QED
  BY <1>3, <1>6, <1>7

(* What a chain promises has a value, request by request. *)
LEMMA AfterRuns ==
  ASSUME NEW new, Len(new) \in Nat
  PROVE  /\ F!After(new)[0] = F!AtFirst
         /\ \A n \in 0 .. Len(new) - 1 :
              F!After(new)[n + 1] = F!Promised(F!After(new)[n], new[n + 1])
<1> DEFINE last == Len(new)
           Step(b, n) == F!Promised(b, new[n])
           IsRun(f, n) == f = [k \in 0 .. n |-> IF k = 0 THEN F!AtFirst ELSE Step(f[k - 1], k)]
           Runs == {n \in 0 .. last : \E f : IsRun(f, n)}
           run == CHOOSE f : IsRun(f, last)
<1>1. F!After(new) = run
  BY DEF F!After
<1>2. \A b, n : Step(b, n) = F!Promised(b, new[n])
  OBVIOUS
<1>3. last \in Nat
  OBVIOUS
<1> HIDE DEF Step, last
<1>4. Runs = 0 .. last
  <2>1. 0 \in Runs
    <3>1. IsRun([k \in 0 .. 0 |-> F!AtFirst], 0)
      OBVIOUS
    <3> HIDE DEF IsRun
    <3>2. QED
      BY <1>3, <3>1
  <2>2. ASSUME NEW n \in 0 .. last - 1, n \in Runs PROVE n + 1 \in Runs
    <3>1. PICK f : IsRun(f, n)
      BY <2>2
    <3> DEFINE g == [k \in 0 .. n + 1 |-> IF k <= n THEN f[k] ELSE Step(f[n], n + 1)]
    <3>2. ASSUME NEW k \in 0 .. n + 1
          PROVE  g[k] = IF k = 0 THEN F!AtFirst ELSE Step(g[k - 1], k)
      BY <1>3, <3>1
    <3>3. IsRun(g, n + 1)
      BY <3>2
    <3> HIDE DEF IsRun, g
    <3>4. QED
      BY <1>3, <3>3
  <2> HIDE DEF IsRun
  <2>3. Runs \in SUBSET (0 .. last)
    OBVIOUS
  <2> HIDE DEF Runs
  <2>4. QED
    BY <1>3, <2>1, <2>2, <2>3, IntervalInduction
<1>5. IsRun(run, last)
  <2> HIDE DEF IsRun
  <2>1. QED
    BY <1>3, <1>4
<1>6. \A k \in 0 .. last : run[k] = IF k = 0 THEN F!AtFirst ELSE Step(run[k - 1], k)
  <2> HIDE DEF run
  <2>1. QED
    BY <1>5
<1> HIDE DEF run
<1>7. QED
  <2>1. run[0] = F!AtFirst
    BY <1>3, <1>6
  <2>2. ASSUME NEW n \in 0 .. last - 1 PROVE run[n + 1] = Step(run[n], n + 1)
    BY <1>3, <1>6
  <2>3. QED
    BY <1>1, <1>2, <2>1, <2>2 DEF last

(* What request r promises of its first i sectors. *)
Upto(b, r, i) == F!Promised(b, [r EXCEPT !.count = i])
First(r) == F!diskAddressToSector(r.address)

(* Nothing is moved at first, and all of it at the end. *)
LEMMA UptoEnds ==
  ASSUME NEW b \in F!Storage, NEW r \in F!IOCBType
  PROVE  /\ Upto(b, r, 0) = b
         /\ Upto(b, r, r.count) = F!Promised(b, r)
<1>1. [r EXCEPT !.count = r.count] = r
  BY DEF F!IOCBType
<1>2. Upto(b, r, r.count) = F!Promised(b, r)
  BY <1>1 DEF Upto
<1> DEFINE q == [r EXCEPT !.count = 0]
<1>3. q.count = 0 /\ q.function = r.function /\ 0 .. q.count - 1 = {}
  BY DEF F!IOCBType
<1> HIDE DEF q
<1>4. b.pages = [p \in DataPages |-> b.pages[p]] /\ b.sectors = [s \in F!Sectors |-> b.sectors[s]]
      /\ b = [b EXCEPT !.pages = b.pages] /\ b = [b EXCEPT !.sectors = b.sectors]
  BY DEF F!Storage
<1>5. F!Promised(b, q) = b
  BY <1>3, <1>4 DEF F!Promised
<1>6. QED
  BY <1>2, <1>5 DEF Upto, q

(* Reading one sector more: its page has it, whatever it had. *)
LEMMA ReadMore ==
  ASSUME NEW b \in F!Storage, NEW r \in F!IOCBType, r.function = "readSector",
         NEW i \in Nat, F!Page(r, i) \in DataPages
  PROVE  LET u == Upto(b, r, i)
         IN  Upto(b, r, i + 1) = [u EXCEPT !.pages[F!Page(r, i)] = u.sectors[First(r) + i]]
<1> DEFINE q == [r EXCEPT !.count = i]
           q1 == [r EXCEPT !.count = i + 1]
           P == F!Page(r, i)
           first == First(r)
           Into(p) == {k \in 0 .. i - 1 : F!Page(r, k) = p}
           Into1(p) == {k \in 0 .. i : F!Page(r, k) = p}
           V(p) == IF Into(p) = {} THEN b.pages[p] ELSE b.sectors[first + F!Max(Into(p))]
           V1(p) == IF Into1(p) = {} THEN b.pages[p] ELSE b.sectors[first + F!Max(Into1(p))]
<1>1. /\ q.function = "readSector" /\ q.count = i /\ q.address = r.address
      /\ \A k : F!Page(q, k) = F!Page(r, k)
  BY DEF F!IOCBType, F!Page
<1>2. /\ q1.function = "readSector" /\ q1.count = i + 1 /\ q1.address = r.address
      /\ \A k : F!Page(q1, k) = F!Page(r, k) /\ (i + 1) - 1 = i
  BY DEF F!IOCBType, F!Page
<1> HIDE DEF q, q1
<1>3. Upto(b, r, i) = [b EXCEPT !.pages = [p \in DataPages |-> V(p)]]
  <2>1. \A p : {k \in 0 .. q.count - 1 : F!Page(q, k) = p} = Into(p)
    BY <1>1
  <2> HIDE DEF Into
  <2>2. QED
    <3>1. q.function = "readSector" /\ q.address = r.address
      BY <1>1
    <3>2. F!Promised(b, q) =
            [b EXCEPT !.pages = [p \in DataPages |->
               IF {k \in 0 .. q.count - 1 : F!Page(q, k) = p} = {} THEN b.pages[p]
               ELSE b.sectors[first + F!Max({k \in 0 .. q.count - 1 : F!Page(q, k) = p})]]]
      BY <3>1 DEF F!Promised, First
    <3>3. QED
      BY <2>1, <3>2 DEF Upto, q
<1>4. Upto(b, r, i + 1) = [b EXCEPT !.pages = [p \in DataPages |-> V1(p)]]
  <2>1. \A p : {k \in 0 .. q1.count - 1 : F!Page(q1, k) = p} = Into1(p)
    BY <1>2
  <2> HIDE DEF Into1
  <2>2. QED
    <3>1. q1.function = "readSector" /\ q1.address = r.address
      BY <1>2
    <3>2. F!Promised(b, q1) =
            [b EXCEPT !.pages = [p \in DataPages |->
               IF {k \in 0 .. q1.count - 1 : F!Page(q1, k) = p} = {} THEN b.pages[p]
               ELSE b.sectors[first + F!Max({k \in 0 .. q1.count - 1 : F!Page(q1, k) = p})]]]
      BY <3>1 DEF F!Promised, First
    <3>3. QED
      BY <2>1, <3>2 DEF Upto, q1
<1>5. V1(P) = b.sectors[first + i]
  <2>1. i \in Into1(P) /\ \A k \in Into1(P) : k \in Nat /\ k <= i
    OBVIOUS
  <2> HIDE DEF Into1
  <2>2. F!Max(Into1(P)) = i
    BY <2>1 DEF F!Max
  <2>3. QED
    BY <2>1, <2>2
<1>6. ASSUME NEW p \in DataPages, p # P PROVE V1(p) = V(p)
  <2>1. Into1(p) = Into(p)
    BY <1>6
  <2> HIDE DEF Into, Into1
  <2>2. QED
    BY <2>1
<1> HIDE DEF V, V1, P, first
<1>7. [p \in DataPages |-> V1(p)] = [[p \in DataPages |-> V(p)] EXCEPT ![P] = b.sectors[first + i]]
  BY <1>5, <1>6
<1>8. QED
  BY <1>3, <1>4, <1>7 DEF F!Storage, P, first

(* Writing one sector more. *)
LEMMA WriteMore ==
  ASSUME NEW b \in F!Storage, NEW r \in F!IOCBType, r.function = "writeSector",
         NEW i \in Nat, First(r) + i \in F!Sectors
  PROVE  LET u == Upto(b, r, i)
         IN  Upto(b, r, i + 1) = [u EXCEPT !.sectors[First(r) + i] = u.pages[F!Page(r, i)]]
<1> DEFINE q == [r EXCEPT !.count = i]
           q1 == [r EXCEPT !.count = i + 1]
           first == First(r)
           V(s) == IF s - first \in 0 .. i - 1 THEN b.pages[F!Page(r, s - first)] ELSE b.sectors[s]
           V1(s) == IF s - first \in 0 .. i THEN b.pages[F!Page(r, s - first)] ELSE b.sectors[s]
<1>1. /\ q.function = "writeSector" /\ q.count = i /\ q.address = r.address
      /\ \A k : F!Page(q, k) = F!Page(r, k)
  BY DEF F!IOCBType, F!Page
<1>2. /\ q1.function = "writeSector" /\ q1.count = i + 1 /\ q1.address = r.address
      /\ \A k : F!Page(q1, k) = F!Page(r, k) /\ (i + 1) - 1 = i
  BY DEF F!IOCBType, F!Page
<1> HIDE DEF q, q1
<1>3. Upto(b, r, i) = [b EXCEPT !.sectors = [s \in F!Sectors |-> V(s)]]
  BY <1>1 DEF Upto, F!Promised, First, q
<1>4. Upto(b, r, i + 1) = [b EXCEPT !.sectors = [s \in F!Sectors |-> V1(s)]]
  BY <1>2 DEF Upto, F!Promised, First, q1
<1>5. first \in Nat
  BY SectorOf DEF F!IOCBType, First
<1>6. F!Sectors \subseteq Nat
  BY DEF F!Sectors
<1> HIDE DEF first
<1>7. V1(first + i) = b.pages[F!Page(r, i)]
  BY <1>5
<1>8. ASSUME NEW s \in F!Sectors, s # first + i PROVE V1(s) = V(s)
  BY <1>5, <1>6, <1>8
<1> HIDE DEF V, V1
<1>9. [s \in F!Sectors |-> V1(s)] =
        [[s \in F!Sectors |-> V(s)] EXCEPT ![first + i] = b.pages[F!Page(r, i)]]
  BY <1>7, <1>8
<1>10. QED
  BY <1>3, <1>4, <1>9 DEF F!Storage, first

(* Zeroing the sectors of the tracks, from the first sector on. *)
LEMMA FormatAll ==
  ASSUME NEW b \in F!Storage, NEW r \in F!IOCBType, r.function = "formatTrack"
  PROVE  LET zero == First(r) .. First(r) + r.count * r.sectorsPerTrack - 1
         IN  F!Promised(b, r) =
               [b EXCEPT !.sectors = [s \in F!Sectors |-> IF s \in zero THEN 0 ELSE @[s]]]
<1> DEFINE first == First(r)
           n == r.count
           per == r.sectorsPerTrack
           zero == first .. first + n * per - 1
<1>1. first \in Nat /\ n \in Nat /\ per \in Nat \ {0} /\ F!Sectors \subseteq Nat
  BY SectorOf DEF F!IOCBType, First, F!Sectors
<1>2. F!Promised(b, r) =
        [b EXCEPT !.sectors = [s \in F!Sectors |->
            IF (s - first) \div per \in 0 .. n - 1 THEN 0 ELSE b.sectors[s]]]
  BY DEF F!Promised, First
<1> HIDE DEF first, n, per
<1>3. ASSUME NEW s \in F!Sectors
      PROVE  (s - first) \div per \in 0 .. n - 1 <=> s \in zero
  <2> DEFINE q == (s - first) \div per
  <2>1. s \in Nat /\ s - first \in Int /\ per \in Nat \ {0}
    BY <1>1
  <2>2. q \in Int
    BY <2>1
  <2>3. per * q <= s - first /\ s - first < per * q + per
    BY <2>1, <2>2, Quotient
  <2> HIDE DEF q
  <2>4. n * per \in Nat
    BY <1>1, <2>1
  <2>5. CASE q < 0
    <3>1. per * q + per <= 0
      BY <2>1, <2>2, <2>5, TimesNegative
    <3>2. s - first < 0
      BY <2>1, <2>2, <2>3, <3>1
    <3>3. s \notin zero
      BY <1>1, <2>1, <2>4, <3>2
    <3>4. QED
      BY <1>1, <2>5, <3>3 DEF q
  <2>6. CASE q \in 0 .. n - 1
    <3>1. per * (q + 1) <= per * n /\ 0 <= per * q
      BY <1>1, <2>1, <2>6, TimesLess
    <3>2. s - first < n * per /\ 0 <= s - first
      BY <1>1, <2>1, <2>2, <2>3, <3>1
    <3>3. s \in zero
      BY <1>1, <2>1, <2>4, <3>2
    <3>4. QED
      BY <2>6, <3>3 DEF q
  <2>7. CASE n <= q
    <3>1. per * n <= per * q
      BY <1>1, <2>1, <2>2, <2>7, TimesLess
    <3>2. n * per <= s - first
      BY <1>1, <2>1, <2>2, <2>3, <3>1
    <3>3. s \notin zero
      BY <1>1, <2>1, <2>4, <3>2
    <3>4. QED
      BY <1>1, <2>2, <2>7, <3>3 DEF q
  <2>8. QED
    BY <1>1, <2>2, <2>5, <2>6, <2>7
<1> HIDE DEF zero
<1>4. QED
  <2>1. [s \in F!Sectors |-> IF (s - first) \div per \in 0 .. n - 1 THEN 0 ELSE b.sectors[s]]
          = [s \in F!Sectors |-> IF s \in zero THEN 0 ELSE b.sectors[s]]
    BY <1>3
  <2>2. F!Promised(b, r) =
          [b EXCEPT !.sectors = [s \in F!Sectors |-> IF s \in zero THEN 0 ELSE b.sectors[s]]]
    BY <1>2, <2>1
  <2>3. QED
    BY <2>2 DEF zero, first, n, per, F!Storage

(* Request k of the chain is done. *)
Done(k) ==
  /\ chain[k].function = asked[k].function /\ chain[k].status = "goodCompletion"
  /\ chain[k].function # "nop" => chain[k].count = 0
  /\ asked[k].function = "readSector" => First(chain[k]) = First(asked[k]) + asked[k].count

(* Request r, c by now, has moved i sectors, those before it led to b, it to now. *)
Partly(r, c, i, b, now, in) ==
  /\ i \in 0 .. r.count /\ (i > 0 => r.function \in {"readSector", "writeSector"})
  /\ c.function = r.function /\ c.count = r.count /\ c.sectorsPerTrack = r.sectorsPerTrack
  /\ c.incrementDataPointer = r.incrementDataPointer /\ c.dataPtr = F!Page(r, i)
  /\ First(c) = First(r) + (IF r.function = "readSector" \/ r.incrementDataPointer THEN i ELSE 0)
  /\ i > 0 => r.dataPtr \in in
  /\ b \in F!Storage /\ now = Upto(b, r, i)

(* Requests before m are done, and those after it untouched. *)
FloppyAt(m) ==
  /\ \A k \in 1 .. m - 1 : Done(k)
  /\ \A k \in m + 1 .. Len(asked) : chain[k] = asked[k]
  /\ m > Len(asked) => call = "idle" /\ held = F!After(asked)[m - 1]
  /\ m <= Len(asked) =>
       /\ call = "floppy" /\ at \in 1 .. m /\ (at < m => index = 0)
       /\ Partly(asked[m], chain[m], IF at = m THEN index ELSE 0, F!After(asked)[m - 1], held, resident)

FloppyInv ==
  /\ F!TypeOK
  /\ asked \in Seq(FloppyRequests) /\ Len(chain) = Len(asked)
  /\ asked = << >> => call = "idle" /\ held = F!AtFirst
  /\ asked # << >> => \E m \in 1 .. Len(asked) + 1 : FloppyAt(m)
  /\ \A k \in DOMAIN asked : F!Later(asked[k]) \cap DataPages \subseteq resident

(* What Call finds. *)
LEMMA FloppyFacts ==
  ASSUME FloppyInv, call = "floppy"
  PROVE  /\ asked # << >> /\ Len(asked) \in Nat /\ DOMAIN asked = 1 .. Len(asked)
         /\ chain \in [1 .. Len(asked) -> F!IOCBType] /\ Len(chain) = Len(asked)
         /\ index \in Nat /\ held \in F!Storage /\ resident \subseteq DataPages
         /\ \A k \in 1 .. Len(asked) : F!Within(asked[k]) /\ asked[k] \in F!IOCBType
         /\ \E m \in 1 .. Len(asked) : FloppyAt(m)
<1>1. asked # << >> /\ Len(asked) \in Nat /\ DOMAIN asked = 1 .. Len(asked)
  BY DEF FloppyInv
<1>2. chain \in [1 .. Len(asked) -> F!IOCBType]
  BY DEF FloppyInv, F!TypeOK
<1>3. \A k \in 1 .. Len(asked) : F!Within(asked[k]) /\ asked[k] \in F!IOCBType
  <2>1. \A k \in 1 .. Len(asked) : asked[k] \in FloppyRequests
    BY <1>1 DEF FloppyInv
  <2>2. QED
    BY <2>1, FloppyAssumption DEF F!Within
<1>4. PICK m \in 1 .. Len(asked) + 1 : FloppyAt(m)
  BY <1>1 DEF FloppyInv
<1>5. m \in 1 .. Len(asked)
  BY <1>1, <1>4 DEF FloppyAt
<1>6. QED
  BY <1>1, <1>2, <1>3, <1>4, <1>5 DEF FloppyInv, F!TypeOK

(* While it moves sectors it is at the request that is under way. *)
LEMMA FloppyMoves ==
  ASSUME FloppyInv, F!Doing({"readSector", "writeSector"}), index < F!Current.count
  PROVE  /\ at \in 1 .. Len(asked) /\ FloppyAt(at) /\ call = "floppy"
         /\ Partly(asked[at], chain[at], index, F!After(asked)[at - 1], held, resident)
         /\ asked[at].function \in {"readSector", "writeSector"}
         /\ index < asked[at].count /\ index \in Nat /\ asked[at].count \in Nat
<1>1. call = "floppy" /\ chain[at].function \in {"readSector", "writeSector"} /\ index < chain[at].count
  BY DEF F!Doing, F!Current
<1>2. PICK m \in 1 .. Len(asked) : FloppyAt(m)
  BY <1>1, FloppyFacts
<1>3. Len(asked) \in Nat /\ index \in Nat /\ m <= Len(asked) /\ asked[m] \in F!IOCBType
  BY <1>1, <1>2, FloppyFacts
<1>4. /\ at \in 1 .. m /\ (at < m => index = 0) /\ \A k \in 1 .. m - 1 : Done(k)
      /\ Partly(asked[m], chain[m], IF at = m THEN index ELSE 0, F!After(asked)[m - 1], held, resident)
  BY <1>2, <1>3 DEF FloppyAt
<1>5. at = m
  <2>1. SUFFICES ASSUME at < m PROVE FALSE
    BY <1>3, <1>4
  <2>2. Done(at) /\ index = 0
    BY <1>3, <1>4, <2>1
  <2>3. QED
    BY <1>1, <2>2 DEF Done
<1>6. QED
  BY <1>1, <1>2, <1>3, <1>4, <1>5 DEF Partly, F!IOCBType

(* A step that moves a sector. *)
LEMMA FloppyMoved ==
  ASSUME FloppyInv, F!Doing({"readSector", "writeSector"}), index < F!Current.count,
         F!Current.dataPtr \in resident,
         NEW c \in F!IOCBType, chain' = [chain EXCEPT ![at] = c],
         held' \in F!Storage, index' = index + 1,
         UNCHANGED <<call, interrupt, agentStopped, asked, at, resident>>,
         Partly(asked[at], c, index + 1, F!After(asked)[at - 1], held', resident)
  PROVE  FloppyInv'
<1>1. /\ Len(asked) \in Nat /\ DOMAIN asked = 1 .. Len(asked)
      /\ chain \in [1 .. Len(asked) -> F!IOCBType] /\ asked # << >>
  BY FloppyFacts DEF F!Doing
<1>2. at \in 1 .. Len(asked) /\ FloppyAt(at) /\ index \in Nat /\ call = "floppy"
  BY FloppyMoves
<1>3. /\ chain' \in [1 .. Len(asked) -> F!IOCBType] /\ chain'[at] = c
      /\ \A k \in 1 .. Len(asked) : k # at => chain'[k] = chain[k]
  BY <1>1, <1>2
<1>4. chain' \in Seq(F!IOCBType) /\ Len(chain') = Len(asked)
  BY <1>1, <1>3
<1>5. F!TypeOK'
  BY <1>2, <1>4 DEF FloppyInv, F!TypeOK
<1>6. FloppyAt(at)'
  <2>1. \A k \in 1 .. at - 1 : Done(k)'
    BY <1>1, <1>2, <1>3 DEF FloppyAt, Done
  <2>2. \A k \in at + 1 .. Len(asked) : chain'[k] = asked[k]
    BY <1>1, <1>2, <1>3 DEF FloppyAt
  <2>3. at <= Len(asked) /\ at \in 1 .. at
    BY <1>1, <1>2
  <2>4. Partly(asked[at], chain[at], index, F!After(asked)[at - 1], held, resident)'
    BY <1>3
  <2>5. QED
    BY <1>2, <2>1, <2>2, <2>3, <2>4 DEF FloppyAt
<1>7. QED
  BY <1>1, <1>2, <1>4, <1>5, <1>6 DEF FloppyInv

(* The request after a sector. *)
LEMMA AdvancedTo ==
  ASSUME NEW c \in F!IOCBType, NEW pointer \in BOOLEAN, NEW address \in BOOLEAN,
         address => First(c) <= F!Count
  PROVE  LET e == F!Advanced(c, pointer, address)
         IN  /\ e \in F!IOCBType /\ e.function = c.function /\ e.count = c.count
             /\ e.incrementDataPointer = c.incrementDataPointer
             /\ e.sectorsPerTrack = c.sectorsPerTrack
             /\ e.dataPtr = (IF pointer THEN c.dataPtr + 1 ELSE c.dataPtr)
             /\ First(e) = (IF address THEN First(c) + 1 ELSE First(c))
<1> DEFINE to == IF address THEN F!sectorToDiskAddress(First(c) + 1) ELSE c.address
           ptr == IF pointer THEN c.dataPtr + 1 ELSE c.dataPtr
           e == F!Advanced(c, pointer, address)
<1>1. e = [c EXCEPT !.dataPtr = ptr, !.address = to]
  BY DEF F!Advanced, First
<1>2. First(c) \in Nat \ {0} /\ c.address \in F!DiskAddress
  BY SectorOf DEF First, F!IOCBType
<1>3. /\ to \in F!DiskAddress
      /\ F!diskAddressToSector(to) = (IF address THEN First(c) + 1 ELSE First(c))
  <2>1. CASE address
    <3>1. First(c) + 1 \in 1 .. F!Count + 1
      BY <1>2, <2>1, FloppySizes
    <3>2. QED
      BY <2>1, <3>1, AddressOf
  <2>2. CASE ~ address
    BY <1>2, <2>2 DEF First
  <2>3. QED
    BY <2>1, <2>2
<1>4. ptr \in Nat
  BY DEF F!IOCBType
<1> HIDE DEF to, ptr, e
<1>5. /\ e \in F!IOCBType /\ e.function = c.function /\ e.count = c.count
      /\ e.incrementDataPointer = c.incrementDataPointer
      /\ e.sectorsPerTrack = c.sectorsPerTrack /\ e.dataPtr = ptr /\ e.address = to
  BY <1>1, <1>3, <1>4 DEF F!IOCBType
<1>6. QED
  BY <1>3, <1>5 DEF First, ptr, e

(* Where a transfer is. *)
LEMMA FloppyWhere ==
  ASSUME FloppyInv, F!Doing({"readSector", "writeSector"}), index < F!Current.count,
         F!Current.dataPtr \in resident
  PROVE  LET r == asked[at]
             c == chain[at]
             b == F!After(asked)[at - 1]
         IN  /\ r \in F!IOCBType /\ F!Within(r) /\ c \in F!IOCBType /\ c.function = r.function
             /\ Partly(r, c, index, b, held, resident) /\ b \in F!Storage /\ held = Upto(b, r, index)
             /\ index \in Nat /\ index + 1 \in 0 .. r.count
             /\ F!Page(r, index) \in DataPages /\ c.dataPtr = F!Page(r, index)
             /\ First(r) + index \in F!Sectors /\ First(r) + index <= F!Count
             /\ First(r) \in Nat
             /\ (r.function = "writeSector" /\ index # 0 => r.incrementDataPointer)
             /\ First(c) = First(r) + index
             /\ r.dataPtr \in resident
<1> DEFINE r == asked[at]
           c == chain[at]
           b == F!After(asked)[at - 1]
<1>1. /\ at \in 1 .. Len(asked) /\ Partly(r, c, index, b, held, resident)
      /\ r.function \in {"readSector", "writeSector"}
      /\ index < r.count /\ index \in Nat /\ r.count \in Nat /\ call = "floppy"
  BY FloppyMoves
<1>2. r \in F!IOCBType /\ F!Within(r) /\ c \in F!IOCBType
  BY <1>1, FloppyFacts
<1> HIDE DEF r, c, b
<1>3. First(r) \in Nat \ {0}
  BY <1>2, SectorOf DEF First, F!IOCBType
<1>4. index \in 0 .. r.count - 1 /\ index + 1 \in 0 .. r.count
  BY <1>1
<1>5. First(r) + r.count - 1 <= F!Count /\ F!Page(r, index) \in DataPages
  BY <1>1, <1>2, <1>4 DEF F!Within, First
<1>6. First(r) + index \in F!Sectors /\ First(r) + index <= F!Count
  BY <1>1, <1>3, <1>4, <1>5, FloppySizes DEF F!Sectors
<1>7. r.function = "writeSector" /\ index # 0 => r.incrementDataPointer
  BY <1>1, <1>2, <1>4 DEF F!Within
<1>8. First(c) = First(r) + index
  BY <1>1, <1>3, <1>7 DEF Partly
<1>9. r.dataPtr \in resident
  <2>1. CASE index = 0
    <3>1. c.dataPtr = r.dataPtr
      BY <1>1, <1>2, <2>1 DEF Partly, F!Page, F!IOCBType
    <3>2. QED
      BY <3>1 DEF F!Current, c
  <2>2. CASE index # 0
    BY <1>1, <2>2 DEF Partly
  <2>3. QED
    BY <2>1, <2>2
<1>10. QED
  BY <1>1, <1>2, <1>3, <1>4, <1>5, <1>6, <1>7, <1>8, <1>9 DEF Partly, r, c, b

(* A sector read. *)
LEMMA FloppyRead == ASSUME FloppyInv, F!Read PROVE FloppyInv'
<1> DEFINE r == asked[at]
           c == chain[at]
           b == F!After(asked)[at - 1]
           e == F!Advanced(c, c.incrementDataPointer, TRUE)
<1>1. /\ F!Doing({"readSector", "writeSector"}) /\ index < F!Current.count
      /\ F!Current.dataPtr \in resident /\ c.function = "readSector"
      /\ chain' = [chain EXCEPT ![at] = F!Advanced(@, @.incrementDataPointer, TRUE)]
      /\ held' = [held EXCEPT !.pages[c.dataPtr] = held.sectors[First(c)]]
      /\ index' = index + 1 /\ UNCHANGED <<call, interrupt, agentStopped, asked, at, resident>>
  BY DEF F!Read, F!Moving, F!Doing, F!Current, F!CurrentSector, First
<1>2. /\ r \in F!IOCBType /\ F!Within(r) /\ c \in F!IOCBType /\ c.function = r.function
      /\ Partly(r, c, index, b, held, resident) /\ b \in F!Storage /\ held = Upto(b, r, index)
      /\ index \in Nat /\ index + 1 \in 0 .. r.count
      /\ F!Page(r, index) \in DataPages /\ c.dataPtr = F!Page(r, index)
      /\ First(r) + index \in F!Sectors /\ First(r) + index <= F!Count /\ First(r) \in Nat
      /\ First(c) = First(r) + index /\ r.dataPtr \in resident
  BY <1>1, FloppyWhere
<1>3. at \in 1 .. Len(asked) /\ call = "floppy" /\ chain \in [1 .. Len(asked) -> F!IOCBType]
  BY <1>1, FloppyMoves, FloppyFacts
<1>4. chain' = [chain EXCEPT ![at] = e]
  BY <1>1, <1>3
<1> HIDE DEF r, c, b
<1>5. /\ e \in F!IOCBType /\ e.function = c.function /\ e.count = c.count
      /\ e.incrementDataPointer = c.incrementDataPointer
      /\ e.sectorsPerTrack = c.sectorsPerTrack
      /\ e.dataPtr = (IF c.incrementDataPointer THEN c.dataPtr + 1 ELSE c.dataPtr)
      /\ First(e) = First(c) + 1
  <2>1. c.incrementDataPointer \in BOOLEAN
    BY <1>2 DEF F!IOCBType
  <2>2. QED
    BY <1>2, <2>1, AdvancedTo
<1> HIDE DEF e
<1>6. held' = Upto(b, r, index + 1)
  <2>1. held' = [Upto(b, r, index) EXCEPT !.pages[F!Page(r, index)] = Upto(b, r, index).sectors[First(r) + index]]
    BY <1>1, <1>2
  <2>2. QED
    BY <1>1, <1>2, <2>1, ReadMore
<1>7. held' \in F!Storage
  <2>1. held \in F!Storage
    BY <1>3, FloppyFacts
  <2>2. held.sectors[First(c)] \in F!Contents
    BY <1>2, <2>1 DEF F!Storage
  <2>3. QED
    BY <1>1, <2>1, <2>2 DEF F!Storage
<1>8. Partly(r, e, index + 1, b, held', resident)
  <2>1. F!Page(r, index + 1) = IF r.incrementDataPointer THEN F!Page(r, index) + 1 ELSE F!Page(r, index)
    BY <1>2 DEF F!Page, F!IOCBType
  <2>2. index + 1 > 0 /\ r.function = "readSector"
    BY <1>1, <1>2
  <2>3. First(e) = First(r) + (index + 1)
    BY <1>2, <1>5
  <2>4. QED
    BY <1>2, <1>5, <1>6, <2>1, <2>2, <2>3 DEF Partly
<1>9. QED
  BY <1>1, <1>4, <1>5, <1>7, <1>8, FloppyMoved DEF r, b

(* A sector written. *)
LEMMA FloppyWrite == ASSUME FloppyInv, F!Write PROVE FloppyInv'
<1> DEFINE r == asked[at]
           c == chain[at]
           b == F!After(asked)[at - 1]
           e == F!Advanced(c, c.incrementDataPointer, c.incrementDataPointer)
<1>1. /\ F!Doing({"readSector", "writeSector"}) /\ index < F!Current.count
      /\ F!Current.dataPtr \in resident /\ c.function = "writeSector"
      /\ chain' = [chain EXCEPT ![at] =
                     F!Advanced(@, @.incrementDataPointer, @.incrementDataPointer)]
      /\ held' = [held EXCEPT !.sectors[First(c)] = held.pages[c.dataPtr]]
      /\ index' = index + 1 /\ UNCHANGED <<call, interrupt, agentStopped, asked, at, resident>>
  BY DEF F!Write, F!Moving, F!Doing, F!Current, F!CurrentSector, First
<1>2. /\ r \in F!IOCBType /\ F!Within(r) /\ c \in F!IOCBType /\ c.function = r.function
      /\ Partly(r, c, index, b, held, resident) /\ b \in F!Storage /\ held = Upto(b, r, index)
      /\ index \in Nat /\ index + 1 \in 0 .. r.count
      /\ F!Page(r, index) \in DataPages /\ c.dataPtr = F!Page(r, index)
      /\ First(r) + index \in F!Sectors /\ First(r) + index <= F!Count /\ First(r) \in Nat
      /\ First(c) = First(r) + index /\ r.dataPtr \in resident
      /\ (index # 0 => r.incrementDataPointer)
  BY <1>1, FloppyWhere
<1>3. at \in 1 .. Len(asked) /\ call = "floppy" /\ chain \in [1 .. Len(asked) -> F!IOCBType]
  BY <1>1, FloppyMoves, FloppyFacts
<1>4. chain' = [chain EXCEPT ![at] = e]
  BY <1>1, <1>3
<1> HIDE DEF r, c, b
<1>5. /\ e \in F!IOCBType /\ e.function = c.function /\ e.count = c.count
      /\ e.incrementDataPointer = c.incrementDataPointer
      /\ e.sectorsPerTrack = c.sectorsPerTrack
      /\ e.dataPtr = (IF c.incrementDataPointer THEN c.dataPtr + 1 ELSE c.dataPtr)
      /\ First(e) = (IF c.incrementDataPointer THEN First(c) + 1 ELSE First(c))
  <2>1. c.incrementDataPointer \in BOOLEAN
    BY <1>2 DEF F!IOCBType
  <2>2. QED
    BY <1>2, <2>1, AdvancedTo
<1> HIDE DEF e
<1>6. held' = Upto(b, r, index + 1)
  <2>1. held' = [Upto(b, r, index) EXCEPT !.sectors[First(r) + index] = Upto(b, r, index).pages[F!Page(r, index)]]
    BY <1>1, <1>2
  <2>2. QED
    BY <1>1, <1>2, <2>1, WriteMore
<1>7. held' \in F!Storage
  <2>1. held \in F!Storage
    BY <1>3, FloppyFacts
  <2>2. held.pages[c.dataPtr] \in F!Contents
    BY <1>2, <2>1 DEF F!Storage
  <2>3. QED
    BY <1>1, <2>1, <2>2 DEF F!Storage
<1>8. Partly(r, e, index + 1, b, held', resident)
  <2>1. F!Page(r, index + 1) = IF r.incrementDataPointer THEN F!Page(r, index) + 1 ELSE F!Page(r, index)
    BY <1>2 DEF F!Page, F!IOCBType
  <2>2. index + 1 > 0 /\ r.function = "writeSector"
    BY <1>1, <1>2
  <2>3. First(e) = First(r) + (IF r.incrementDataPointer THEN index + 1 ELSE 0)
    BY <1>2, <1>5 DEF Partly
  <2>4. QED
    BY <1>2, <1>5, <1>6, <2>1, <2>2, <2>3 DEF Partly
<1>9. QED
  BY <1>1, <1>4, <1>5, <1>7, <1>8, FloppyMoved DEF r, b

(* A fault finds a request before its first sector, and changes none. *)
LEMMA FloppyFault == ASSUME FloppyInv, F!Fault PROVE FloppyInv'
<1> DEFINE r == asked[at]
           c == chain[at]
           b == F!After(asked)[at - 1]
<1>1. /\ F!Doing({"readSector", "writeSector"}) /\ index < F!Current.count
      /\ c.dataPtr \notin resident /\ resident' = resident \cup {c.dataPtr}
      /\ at' = 1 /\ index' = 0 /\ UNCHANGED <<call, interrupt, agentStopped, chain, asked, held>>
  BY DEF F!Fault, F!Current, F!requests
<1>2. /\ at \in 1 .. Len(asked) /\ FloppyAt(at) /\ call = "floppy"
      /\ Partly(r, c, index, b, held, resident) /\ r.function \in {"readSector", "writeSector"}
      /\ index < r.count /\ index \in Nat /\ r.count \in Nat
  BY <1>1, FloppyMoves
<1>3. /\ Len(asked) \in Nat /\ r \in F!IOCBType /\ F!Within(r) /\ asked # << >>
      /\ \A k \in DOMAIN asked : F!Later(asked[k]) \cap DataPages \subseteq resident
      /\ DOMAIN asked = 1 .. Len(asked)
  BY <1>2, FloppyFacts DEF FloppyInv
<1>4. index = 0
  <2>1. SUFFICES ASSUME index > 0 PROVE c.dataPtr \in resident
    BY <1>1, <1>2
  <2>2. c.dataPtr = F!Page(r, index) /\ r.dataPtr \in resident
    BY <1>2, <2>1 DEF Partly
  <2>3. CASE r.incrementDataPointer
    <3>1. F!Page(r, index) \in F!Later(r)
      BY <1>2, <1>3, <2>1, <2>3 DEF F!Page, F!Later, F!IOCBType
    <3>2. F!Page(r, index) \in DataPages
      BY <1>2, <1>3 DEF F!Within
    <3>3. QED
      BY <1>2, <1>3, <2>2, <3>1, <3>2
  <2>4. CASE ~ r.incrementDataPointer
    BY <1>3, <2>2, <2>4 DEF F!Page, F!IOCBType
  <2>5. QED
    BY <2>3, <2>4
<1>5. resident' \subseteq DataPages
  <2>1. F!Page(r, 0) \in DataPages
    BY <1>2, <1>3, <1>4 DEF F!Within
  <2>2. c.dataPtr = F!Page(r, 0)
    BY <1>2, <1>4 DEF Partly
  <2>3. QED
    BY <1>1, <2>1, <2>2 DEF FloppyInv, F!TypeOK
<1>6. F!TypeOK'
  BY <1>1, <1>5 DEF FloppyInv, F!TypeOK
<1>7. Partly(r, c, 0, b, held, resident')
  BY <1>2, <1>4 DEF Partly
<1>8. ASSUME NEW m, m = at PROVE FloppyAt(m)'
  <2>1. /\ \A k \in 1 .. m - 1 : Done(k)
        /\ \A k \in m + 1 .. Len(asked) : chain[k] = asked[k]
    BY <1>2, <1>8 DEF FloppyAt
  <2>2. \A k \in 1 .. m - 1 : Done(k)'
    BY <1>1, <2>1 DEF Done
  <2>3. m <= Len(asked) /\ 1 \in 1 .. m /\ m \in Nat
    BY <1>2, <1>3, <1>8
  <2>4. Partly(asked[m], chain[m], 0, F!After(asked)[m - 1], held, resident')
    BY <1>7, <1>8
  <2>5. QED
    BY <1>1, <1>2, <1>3, <2>1, <2>2, <2>3, <2>4 DEF FloppyAt
<1>9. QED
  <2>1. \A k \in DOMAIN asked : F!Later(asked[k]) \cap DataPages \subseteq resident'
    BY <1>1, <1>3
  <2>2. \E m \in 1 .. Len(asked) + 1 : FloppyAt(m)'
    BY <1>2, <1>3, <1>8
  <2>3. QED
    BY <1>1, <1>3, <1>6, <2>1, <2>2 DEF FloppyInv

(* The request Call is at is done, for the first time or again. *)
LEMMA FloppyCompleted ==
  ASSUME FloppyInv, call = "floppy",
         NEW c \in F!IOCBType, chain' = [chain EXCEPT ![at] = c],
         c.function = chain[at].function, c.address = chain[at].address,
         c.status = "goodCompletion", c.function # "nop" => c.count = 0,
         F!Advance, held' \in F!Storage, UNCHANGED <<agentStopped, asked, resident>>,
         chain[at].count = 0 \/ chain[at].function = "nop" => held' = held,
         ASSUME FloppyAt(at), asked[at] \in F!IOCBType,
                Partly(asked[at], chain[at], index, F!After(asked)[at - 1], held, resident)
         PROVE  /\ held' = F!Promised(F!After(asked)[at - 1], asked[at])
                /\ asked[at].function = "readSector" => index = asked[at].count
  PROVE  FloppyInv'
<1>1. PICK m \in 1 .. Len(asked) : FloppyAt(m)
  BY FloppyFacts
<1>2. /\ Len(asked) \in Nat /\ DOMAIN asked = 1 .. Len(asked) /\ asked # << >>
      /\ chain \in [1 .. Len(asked) -> F!IOCBType] /\ Len(chain) = Len(asked)
      /\ index \in Nat /\ resident \subseteq DataPages
      /\ \A k \in 1 .. Len(asked) : F!Within(asked[k]) /\ asked[k] \in F!IOCBType
  BY FloppyFacts
<1>3. /\ m <= Len(asked) /\ at \in 1 .. m /\ (at < m => index = 0) /\ \A k \in 1 .. m - 1 : Done(k)
      /\ Partly(asked[m], chain[m], IF at = m THEN index ELSE 0, F!After(asked)[m - 1], held, resident)
      /\ \A k \in m + 1 .. Len(asked) : chain[k] = asked[k]
  BY <1>1, <1>2 DEF FloppyAt
<1>4. /\ chain' \in [1 .. Len(asked) -> F!IOCBType] /\ chain'[at] = c
      /\ \A k \in 1 .. Len(asked) : k # at => chain'[k] = chain[k]
  BY <1>1, <1>2, <1>3
<1>5. chain' \in Seq(F!IOCBType) /\ Len(chain') = Len(asked)
  BY <1>2, <1>4
<1>6. /\ index' = 0 /\ interrupt' \in BOOLEAN /\ asked' = asked
      /\ IF at < Len(asked) THEN at' = at + 1 /\ call' = call ELSE call' = "idle" /\ at' = at
  BY <1>2 DEF F!Advance, FloppyInv, F!TypeOK
<1>7. F!TypeOK'
  BY <1>2, <1>3, <1>5, <1>6 DEF FloppyInv, F!TypeOK
<1>8. \A k \in DOMAIN asked : F!Later(asked[k]) \cap DataPages \subseteq resident
  BY DEF FloppyInv
<1>9. CASE at < m
  <2>1. Done(at) /\ at \in 1 .. m - 1
    BY <1>2, <1>3, <1>9
  <2>2. held' = held
    BY <2>1 DEF Done
  <2>3. \A k \in 1 .. m - 1 : Done(k)'
    BY <1>2, <1>3, <1>4, <1>6, <2>1 DEF Done, First
  <2>4. at' = at + 1 /\ call' = "floppy" /\ at + 1 \in 1 .. m
    BY <1>1, <1>2, <1>3, <1>6, <1>9
  <2>5. chain'[m] = chain[m] /\ \A k \in m + 1 .. Len(asked) : chain'[k] = asked[k]
    BY <1>2, <1>3, <1>4, <1>9
  <2>6. Partly(asked[m], chain'[m], 0, F!After(asked)[m - 1], held', resident)
    BY <1>3, <1>9, <2>2, <2>5
  <2>7. FloppyAt(m)'
    BY <1>2, <1>3, <1>6, <2>3, <2>4, <2>5, <2>6 DEF FloppyAt
  <2>8. QED
    BY <1>1, <1>2, <1>5, <1>6, <1>7, <1>8, <2>7 DEF FloppyInv
<1>10. CASE at = m
  <2> DEFINE r == asked[m]
             b == F!After(asked)[m - 1]
  <2>1. held' = F!Promised(b, r) /\ (r.function = "readSector" => index = r.count)
    BY <1>1, <1>2, <1>3, <1>10
  <2>2. F!After(asked)[m] = F!Promised(b, r)
    <3>1. m - 1 \in 0 .. Len(asked) - 1 /\ (m - 1) + 1 = m
      BY <1>1, <1>2
    <3>2. QED
      BY <1>2, <3>1, AfterRuns
  <2>3. \A k \in 1 .. m : Done(k)'
    <3>1. ASSUME NEW k \in 1 .. m - 1 PROVE Done(k)'
      BY <1>1, <1>2, <1>3, <1>4, <1>6, <1>10 DEF Done
    <3>2. Done(m)'
      <4>1. c.function = r.function
        BY <1>3, <1>10 DEF Partly
      <4>2. r.function = "readSector" => First(c) = First(r) + r.count
        BY <1>3, <1>10, <2>1 DEF Partly, First
      <4>3. QED
        BY <1>4, <1>6, <1>10, <4>1, <4>2 DEF Done
    <3>3. QED
      BY <1>1, <1>2, <3>1, <3>2
  <2>4. (m + 1) - 1 = m /\ m + 1 \in 1 .. Len(asked) + 1
    BY <1>1, <1>2
  <2>5. CASE m < Len(asked)
    <3>1. at' = m + 1 /\ call' = "floppy" /\ m + 1 \in 1 .. Len(asked)
      BY <1>1, <1>2, <1>6, <1>10, <2>5
    <3>2. /\ chain'[m + 1] = asked[m + 1]
          /\ \A k \in (m + 1) + 1 .. Len(asked) : chain'[k] = asked[k]
      BY <1>1, <1>2, <1>3, <1>4, <1>10, <3>1
    <3> DEFINE q == asked[m + 1]
    <3>3. q \in F!IOCBType
      BY <1>2, <3>1
    <3> HIDE DEF q
    <3>4. /\ Upto(held', q, 0) = held' /\ First(q) \in Nat /\ 0 \in 0 .. q.count
          /\ F!Page(q, 0) = q.dataPtr
      BY <3>3, UptoEnds, SectorOf DEF First, F!IOCBType, F!Page
    <3>5. Partly(q, q, 0, held', held', resident)
      BY <3>4 DEF Partly
    <3>6. Partly(asked[m + 1], chain'[m + 1], 0, F!After(asked)[(m + 1) - 1], held', resident)
      BY <2>1, <2>2, <2>4, <3>2, <3>5 DEF q
    <3>7. \A k \in 1 .. (m + 1) - 1 : Done(k)'
      BY <2>3, <2>4
    <3>8. FloppyAt(m + 1)'
      BY <1>2, <1>6, <3>1, <3>2, <3>6, <3>7 DEF FloppyAt
    <3>9. QED
      BY <1>2, <1>5, <1>6, <1>7, <1>8, <2>4, <3>8 DEF FloppyInv
  <2>6. CASE m = Len(asked)
    <3>1. call' = "idle"
      BY <1>2, <1>6, <1>10, <2>6
    <3>2. \A k \in 1 .. (m + 1) - 1 : Done(k)'
      BY <2>3, <2>4
    <3>3. FloppyAt(m + 1)'
      BY <1>2, <1>6, <2>1, <2>2, <2>4, <2>6, <3>1, <3>2 DEF FloppyAt
    <3>4. QED
      BY <1>2, <1>5, <1>6, <1>7, <1>8, <2>4, <3>3 DEF FloppyInv
  <2>7. m < Len(asked) \/ m = Len(asked)
    <3>1. m \in Int /\ m <= Len(asked) /\ Len(asked) \in Int
      BY <1>1, <1>2
    <3>2. QED
      BY <3>1
  <2>8. QED
    BY <2>5, <2>6, <2>7
<1>11. QED
  BY <1>2, <1>3, <1>9, <1>10

(* The end of a transfer, or of nothing. *)
LEMMA FloppyComplete == ASSUME FloppyInv, F!Complete PROVE FloppyInv'
<1> DEFINE d == IF chain[at].function = "nop" THEN [chain[at] EXCEPT !.status = "goodCompletion"]
                ELSE [chain[at] EXCEPT !.count = 0, !.status = "goodCompletion"]
<1>1. /\ call = "floppy" /\ F!Advance /\ UNCHANGED <<agentStopped, asked, held, resident>>
      /\ chain[at].function # "nop" =>
           chain[at].function \in {"readSector", "writeSector"} /\ index >= chain[at].count
      /\ \/ /\ chain[at].function = "nop"
            /\ chain' = [chain EXCEPT ![at].status = "goodCompletion"]
         \/ /\ chain[at].function # "nop"
            /\ chain' = [chain EXCEPT ![at].count = 0, ![at].status = "goodCompletion"]
  <2>1. F!Advance /\ UNCHANGED <<agentStopped, asked, held, resident>>
    BY DEF F!Complete, F!data
  <2>2. CASE F!Doing({"nop"}) /\ chain' = [chain EXCEPT ![at].status = "goodCompletion"]
    BY <2>1, <2>2 DEF F!Doing, F!Current
  <2>3. CASE /\ F!Doing({"readSector", "writeSector"}) /\ index >= F!Current.count
             /\ chain' = [chain EXCEPT ![at].count = 0, ![at].status = "goodCompletion"]
    BY <2>1, <2>3 DEF F!Doing, F!Current
  <2>4. QED
    BY <2>2, <2>3 DEF F!Complete
<1>2. PICK m \in 1 .. Len(asked) : FloppyAt(m)
  BY <1>1, FloppyFacts
<1>3. /\ at \in 1 .. Len(asked) /\ chain \in [1 .. Len(asked) -> F!IOCBType]
      /\ held \in F!Storage /\ \A k \in 1 .. Len(asked) : asked[k] \in F!IOCBType
  <2>1. Len(asked) \in Nat /\ at \in 1 .. m
    BY <1>1, <1>2, FloppyFacts DEF FloppyAt
  <2>2. QED
    BY <1>1, <1>2, <2>1, FloppyFacts
<1>4. chain[at] \in F!IOCBType
  BY <1>3
<1>5. /\ d \in F!IOCBType /\ d.function = chain[at].function /\ d.address = chain[at].address
      /\ d.status = "goodCompletion" /\ (d.function # "nop" => d.count = 0)
  BY <1>4 DEF F!IOCBType
<1>6. chain' = [chain EXCEPT ![at] = d]
  BY <1>1, <1>3
<1> HIDE DEF d
<1>7. ASSUME FloppyAt(at), asked[at] \in F!IOCBType,
             Partly(asked[at], chain[at], index, F!After(asked)[at - 1], held, resident)
      PROVE  /\ held' = F!Promised(F!After(asked)[at - 1], asked[at])
             /\ asked[at].function = "readSector" => index = asked[at].count
  <2> DEFINE r == asked[at]
             b == F!After(asked)[at - 1]
  <2>1. /\ b \in F!Storage /\ held = Upto(b, r, index) /\ index \in 0 .. r.count /\ r.count \in Nat
        /\ chain[at].count = r.count /\ chain[at].function = r.function
        /\ chain[at].sectorsPerTrack = r.sectorsPerTrack
        /\ (index > 0 => r.function \in {"readSector", "writeSector"})
    BY <1>7 DEF Partly, F!IOCBType
  <2>2. Upto(b, r, r.count) = F!Promised(b, r) /\ Upto(b, r, 0) = b
    BY <1>7, <2>1, UptoEnds
  <2>3. CASE r.function = "nop"
    <3>1. index = 0
      BY <2>1, <2>3
    <3>2. F!Promised(b, r) = b
      BY <2>3 DEF F!Promised
    <3>3. QED
      BY <1>1, <2>1, <2>2, <2>3, <3>1, <3>2
  <2>4. CASE r.function # "nop"
    BY <1>1, <2>1, <2>2, <2>4
  <2>5. QED
    BY <2>3, <2>4
<1>8. QED
  BY <1>1, <1>3, <1>5, <1>6, <1>7, FloppyCompleted

(* Tracks formatted; again, when Call starts again, with a count of 0. *)
LEMMA FloppyFormat == ASSUME FloppyInv, F!Format PROVE FloppyInv'
<1> DEFINE d == [chain[at] EXCEPT !.count = 0, !.status = "goodCompletion"]
           zero == First(chain[at])
                     .. First(chain[at]) + chain[at].count * chain[at].sectorsPerTrack - 1
<1>1. /\ call = "floppy" /\ F!Advance /\ UNCHANGED <<agentStopped, asked, resident>>
      /\ chain[at].function = "formatTrack"
      /\ chain' = [chain EXCEPT ![at].count = 0, ![at].status = "goodCompletion"]
      /\ held' = [held EXCEPT !.sectors = [s \in F!Sectors |-> IF s \in zero THEN 0 ELSE @[s]]]
  BY DEF F!Format, F!Doing, F!Current, F!CurrentSector, First
<1>2. PICK m \in 1 .. Len(asked) : FloppyAt(m)
  BY <1>1, FloppyFacts
<1>3. /\ at \in 1 .. Len(asked) /\ chain \in [1 .. Len(asked) -> F!IOCBType]
      /\ held \in F!Storage /\ \A k \in 1 .. Len(asked) : asked[k] \in F!IOCBType
  <2>1. Len(asked) \in Nat /\ at \in 1 .. m
    BY <1>1, <1>2, FloppyFacts DEF FloppyAt
  <2>2. QED
    BY <1>1, <1>2, <2>1, FloppyFacts
<1>4. chain[at] \in F!IOCBType
  BY <1>3
<1>5. /\ d \in F!IOCBType /\ d.function = chain[at].function /\ d.address = chain[at].address
      /\ d.status = "goodCompletion" /\ (d.function # "nop" => d.count = 0)
  BY <1>4 DEF F!IOCBType
<1>6. chain' = [chain EXCEPT ![at] = d]
  BY <1>1, <1>3
<1> HIDE DEF d
<1>7. held' = [held EXCEPT !.sectors = [s \in F!Sectors |-> IF s \in zero THEN 0 ELSE held.sectors[s]]]
  BY <1>1, <1>3 DEF F!Storage
<1>8. held' \in F!Storage
  <2> HIDE DEF zero
  <2>1. \A s \in F!Sectors : (IF s \in zero THEN 0 ELSE held.sectors[s]) \in F!Contents
    BY <1>3 DEF F!Storage, F!Contents
  <2>2. QED
    BY <1>3, <1>7, <2>1 DEF F!Storage
<1>9. ASSUME chain[at].count = 0 PROVE held' = held
  <2>1. First(chain[at]) \in Nat /\ chain[at].sectorsPerTrack \in Nat
    BY <1>4, SectorOf DEF First, F!IOCBType
  <2>2. zero = {}
    BY <1>9, <2>1
  <2> HIDE DEF zero
  <2>3. [s \in F!Sectors |-> IF s \in zero THEN 0 ELSE held.sectors[s]] = held.sectors
    BY <1>3, <2>2 DEF F!Storage
  <2>4. QED
    BY <1>3, <1>7, <2>3 DEF F!Storage
<1>10. ASSUME FloppyAt(at), asked[at] \in F!IOCBType,
              Partly(asked[at], chain[at], index, F!After(asked)[at - 1], held, resident)
       PROVE  /\ held' = F!Promised(F!After(asked)[at - 1], asked[at])
              /\ asked[at].function = "readSector" => index = asked[at].count
  <2> DEFINE r == asked[at]
             b == F!After(asked)[at - 1]
  <2>1. /\ b \in F!Storage /\ held = Upto(b, r, index) /\ index \in 0 .. r.count /\ r.count \in Nat
        /\ chain[at].count = r.count /\ chain[at].function = r.function
        /\ chain[at].sectorsPerTrack = r.sectorsPerTrack
        /\ (index > 0 => r.function \in {"readSector", "writeSector"})
    BY <1>10 DEF Partly, F!IOCBType
  <2>2. index = 0 /\ r.function = "formatTrack"
    BY <1>1, <2>1
  <2>3. First(chain[at]) = First(r)
    <3>1. First(r) \in Nat
      BY <1>10, SectorOf DEF First, F!IOCBType
    <3>2. QED
      BY <1>10, <2>2, <3>1 DEF Partly
  <2>4. Upto(b, r, 0) = b
    BY <1>10, <2>1, UptoEnds
  <2>5. held = b
    BY <2>1, <2>2, <2>4
  <2>6. F!Promised(b, r) = [b EXCEPT !.sectors = [s \in F!Sectors |-> IF s \in zero THEN 0 ELSE @[s]]]
    BY <1>10, <2>1, <2>2, <2>3, FormatAll
  <2>7. QED
    BY <1>1, <2>2, <2>5, <2>6
<1>11. QED
  BY <1>1, <1>3, <1>5, <1>6, <1>8, <1>9, <1>10, FloppyCompleted

(* The driver's chain is its own before Call. *)
LEMMA FloppyRequest == ASSUME FloppyInv, F!Request PROVE FloppyInv'
<1>1. /\ call = "idle" /\ asked = << >> /\ agentStopped' = FALSE /\ at' = 1 /\ index' = 0
      /\ UNCHANGED <<interrupt, held>>
  BY DEF F!Request
<1> DEFINE Made(new, absent) ==
             /\ \A k \in DOMAIN new : absent \cap F!Later(new[k]) = {}
             /\ asked' = new /\ chain' = new /\ resident' = DataPages \ absent
             /\ call' = IF new = << >> THEN "idle" ELSE "floppy"
<1>0. PICK new \in F!BoundedSeq(FloppyRequests, MaxChain) : \E absent : Made(new, absent)
  BY DEF F!Request
<1>2. PICK absent : Made(new, absent)
  BY <1>0
<1>3. new \in Seq(FloppyRequests) /\ Len(new) \in Nat /\ DOMAIN new = 1 .. Len(new)
  <2>1. MaxChain \in Nat
    BY AgentsAssumption
  <2>2. QED
    BY <1>2, <2>1 DEF F!BoundedSeq, F!SeqOf
<1>4. \A k \in 1 .. Len(new) : new[k] \in F!IOCBType /\ F!Within(new[k])
  BY <1>3, FloppyAssumption DEF F!Within
<1>5. new \in Seq(F!IOCBType)
  BY <1>3, <1>4
<1>6. held = F!AtFirst /\ held \in F!Storage
  BY <1>1 DEF FloppyInv, F!TypeOK
<1>7. F!TypeOK'
  BY <1>1, <1>2, <1>5 DEF FloppyInv, F!TypeOK
<1>8. \A k \in DOMAIN new : F!Later(new[k]) \cap DataPages \subseteq DataPages \ absent
  BY <1>2
<1>9. new # << >> => FloppyAt(1)'
  <2>1. SUFFICES ASSUME new # << >> PROVE FloppyAt(1)'
    OBVIOUS
  <2>2. 1 \in 1 .. Len(new) /\ 1 <= Len(new) /\ call' = "floppy"
    BY <1>2, <1>3, <2>1
  <2> DEFINE q == new[1]
  <2>3. q \in F!IOCBType
    BY <1>4, <2>2
  <2> HIDE DEF q
  <2>4. /\ Upto(held, q, 0) = held /\ First(q) \in Nat /\ 0 \in 0 .. q.count
        /\ F!Page(q, 0) = q.dataPtr
    BY <1>6, <2>3, UptoEnds, SectorOf DEF First, F!IOCBType, F!Page
  <2>5. Partly(q, q, 0, held, held', resident')
    BY <1>1, <1>6, <2>4 DEF Partly
  <2>6. F!After(new)[0] = held
    BY <1>3, <1>6, AfterRuns
  <2>7. QED
    BY <1>1, <1>2, <1>3, <2>2, <2>5, <2>6 DEF FloppyAt, q
<1>10. QED
  <2>1. new # << >> => 1 \in 1 .. Len(new) + 1
    BY <1>3
  <2>2. new = << >> => call' = "idle" /\ held' = F!AtFirst
    BY <1>1, <1>2, <1>6
  <2>3. QED
    BY <1>2, <1>3, <1>7, <1>8, <1>9, <2>1, <2>2 DEF FloppyInv

(* A stop moves nothing. *)
LEMMA FloppyStop == ASSUME FloppyInv, F!StopAgent PROVE FloppyInv'
<1>1. agentStopped' = TRUE
      /\ UNCHANGED <<call, interrupt, chain, asked, at, index, held, resident>>
  BY DEF F!StopAgent, F!requests, F!data
<1>2. \A m : FloppyAt(m) => FloppyAt(m)'
  BY <1>1 DEF FloppyAt, Done
<1>3. QED
  BY <1>1, <1>2 DEF FloppyInv, F!TypeOK

(* At first nothing is asked. *)
LEMMA FloppyFirst == ASSUME F!Init PROVE FloppyInv
<1>1. /\ call = "idle" /\ interrupt = FALSE /\ agentStopped = TRUE
      /\ chain = << >> /\ asked = << >> /\ at = 1 /\ index = 0
      /\ held = F!AtFirst /\ resident = DataPages
  BY DEF F!Init
<1>2. F!AtFirst \in F!Storage
  BY DEF F!AtFirst, F!Storage, F!Contents
<1>3. << >> \in Seq(F!IOCBType) /\ << >> \in Seq(FloppyRequests) /\ DOMAIN << >> = {}
  OBVIOUS
<1>4. QED
  BY <1>1, <1>2, <1>3 DEF FloppyInv, F!TypeOK

(* When Call is back the last request is done. *)
LEMMA FloppyExact == FloppyInv => F!ChainExact
<1> SUFFICES ASSUME FloppyInv, F!Finished
             PROVE  /\ held = F!After(asked)[Len(asked)]
                    /\ \A k \in DOMAIN asked : Done(k)
  BY DEF F!ChainExact, FloppyInv, Done, First
<1>1. PICK m \in 1 .. Len(asked) + 1 : FloppyAt(m)
  BY DEF FloppyInv, F!Finished
<1>2. call = "idle" /\ Len(asked) \in Nat /\ DOMAIN asked = 1 .. Len(asked)
  BY DEF FloppyInv, F!Finished
<1>3. m = Len(asked) + 1 /\ m - 1 = Len(asked) /\ m > Len(asked)
  BY <1>1, <1>2 DEF FloppyAt
<1>4. QED
  BY <1>1, <1>2, <1>3 DEF FloppyAt

(* FloppyInv holds of the floppy agent throughout.                          *)
LEMMA FloppyAlways == Init /\ [][Next]_vars => [](agent = "floppy" => FloppyInv)
<1>1. Init => (agent = "floppy" => FloppyInv)
  BY FloppyFirst DEF Init
<1>2. (agent = "floppy" => FloppyInv) /\ [Next]_vars => (agent = "floppy" => FloppyInv)'
  <2>1. SUFFICES ASSUME agent = "floppy" => FloppyInv, [Next]_vars, agent' = "floppy"
                 PROVE  FloppyInv'
    OBVIOUS
  <2>2. CASE OfFloppy(F!Next)
    BY <2>1, <2>2, FloppyRequest, FloppyStop, FloppyRead, FloppyWrite, FloppyFault, FloppyFormat,
       FloppyComplete DEF OfFloppy, F!Next, F!Call
  <2>3. CASE UNCHANGED vars
    <3>1. UNCHANGED <<agent, call, interrupt, agentStopped, chain, index, asked, at, held, resident>>
      BY <2>3 DEF vars, common, requests, floppy
    <3>2. \A m : FloppyAt(m) => FloppyAt(m)'
      BY <3>1 DEF FloppyAt, Done
    <3>3. QED
      BY <2>1, <3>1, <3>2 DEF FloppyInv, F!TypeOK
  <2>4. QED
    BY <2>1, <2>2, <2>3 DEF Next, OfDisk, OfNetwork, OfStream
<1>3. QED
  BY <1>1, <1>2, PTL

(* AgentFloppy.cpp: a chain of requests of any length, on a disk of any      *)
(* shape, moves what it promises when Call is back, each request once and in *)
(* order, however many faults made Call start again; and StreamBoot.cpp:     *)
(* since it connected the driver has the boot file from its first word on,   *)
(* without gaps, and is told the end exactly when it has all of it, for any  *)
(* size of the file and of the buffer.                                       *)
THEOREM TransfersAlwaysExact == Spec => []TransfersExact
<1>1. StreamInv => S!FileDelivered
  BY DEF StreamInv, S!FileDelivered, Connecting, ToTake
<1>2. (agent = "stream" => StreamInv) /\ (agent = "floppy" => FloppyInv) => TransfersExact
  BY <1>1, FloppyExact DEF TransfersExact
<1>3. QED
  BY <1>2, StreamAlways, FloppyAlways, PTL DEF Spec
=============================================================================
