---------------------------- MODULE FloppyAgent -----------------------------
(***************************************************************************)
(* The floppy agent (src/agent/AgentFloppy.cpp): Call goes through a chain  *)
(* of requests in the processor's thread, sector by sector.  A page fault   *)
(* leaves Call where it is, and CALLAGENT is executed again: the chain then *)
(* starts from its head, with what the first time changed in the requests.  *)
(*                                                                          *)
(* The driver is not in the repository.  A data page may be absent when it  *)
(* calls, but not one that a request reaches after its first sector, which  *)
(* would restart it in the middle; writes of several sectors increment the  *)
(* data pointer, and tracks are formatted from their first sector.  Else    *)
(* the code departs from the description of its operations.                 *)
(***************************************************************************)
EXTENDS Integers, FiniteSetsExt, SequencesExt

CONSTANTS
  Heads, SectorsPerTrack, Cylinders,  \* of the DCB
  DataPages,                          \* the numbers of pages for data
  Requests,                           \* what the driver may ask
  MaxChain                            \* bound: requests in a chain

Count   == Heads * SectorsPerTrack * Cylinders
Sectors == 1 .. Count

VARIABLES
  call,           \* where the processor is in Call
  interrupt,      \* the agent's interrupt is pending
  agentStopped,   \* in the FCB
  chain,          \* the requests, as Call left them
  at,             \* the request Call is at
  index,          \* i, of its loop over sectors
  held,           \* what each sector of the disk and each data page holds
  resident,       \* the data pages that are mapped
  asked           \* history: the chain as the driver made it

requests == <<chain, asked>>
data     == <<held, resident>>
vars     == <<call, interrupt, agentStopped, requests, at, index, data>>

-----------------------------------------------------------------------------
(* Sectors count from 1, through the heads of a cylinder. *)
DiskAddress == [cylinder : 0 .. Cylinders, head : 0 .. Heads - 1, sector : 1 .. SectorsPerTrack]

diskAddressToSector(address) ==
  address.sector + SectorsPerTrack * (address.head + Heads * address.cylinder)

sectorToDiskAddress(sector) ==
  LET track == (sector - 1) \div SectorsPerTrack
  IN  [cylinder |-> track \div Heads, head |-> track % Heads,
       sector |-> ((sector - 1) % SectorsPerTrack) + 1]

(* What sectors and pages hold is what held it at first; 0 is zeroes. *)
Contents == {0} \cup Sectors \cup {Count + p : p \in DataPages}
Storage  == [sectors : [Sectors -> Contents], pages : [DataPages -> Contents]]
AtFirst  == [sectors |-> [s \in Sectors |-> s], pages |-> [p \in DataPages |-> Count + p]]

Functions == {"nop", "readSector", "writeSector", "formatTrack"}
IOCBType  == [function : Functions, address : DiskAddress, dataPtr : Nat,
              incrementDataPointer : BOOLEAN, count : Nat, sectorsPerTrack : Nat \ {0},
              status : {"inProgress", "goodCompletion"}]
TypeOK ==
  /\ call \in {"idle", "floppy"} /\ interrupt \in BOOLEAN /\ agentStopped \in BOOLEAN
  /\ at \in Nat /\ index \in Nat
  /\ chain \in Seq(IOCBType)
  /\ held \in Storage
  /\ resident \subseteq DataPages

Init ==
  /\ call = "idle" /\ interrupt = FALSE /\ agentStopped = TRUE
  /\ chain = << >> /\ asked = << >> /\ at = 1 /\ index = 0
  /\ held = AtFirst
  /\ resident = DataPages

-----------------------------------------------------------------------------
(* The page for sector k of a request, and those after its first sector. *)
Page(request, k) == request.dataPtr + (IF request.incrementDataPointer THEN k ELSE 0)
Later(request) ==
  IF request.incrementDataPointer
  THEN request.dataPtr + 1 .. request.dataPtr + request.count - 1 ELSE {}

(* A request that stays on the disk and in the data pages. *)
Within(request) ==
  LET first == diskAddressToSector(request.address)
  IN  /\ request \in IOCBType /\ request.status = "inProgress"
      /\ request.function \in {"readSector", "writeSector"} =>
           /\ first + request.count - 1 <= Count
           /\ \A k \in 0 .. request.count - 1 : Page(request, k) \in DataPages
      /\ request.function = "writeSector" /\ request.count > 1 => request.incrementDataPointer
      /\ request.function = "formatTrack" => first + request.count * request.sectorsPerTrack - 1 <= Count

(* The driver makes a chain and calls, which starts the agent. *)
Request ==
  /\ call = "idle" /\ asked = << >>
  /\ \E new \in BoundedSeq(Requests, MaxChain) :
     \E absent \in SUBSET {new[k].dataPtr : k \in DOMAIN new} :
       /\ \A k \in DOMAIN new : absent \cap Later(new[k]) = {}
       /\ asked' = new /\ chain' = new
       /\ resident' = DataPages \ absent
       /\ call' = IF new = << >> THEN "idle" ELSE "floppy"
  /\ agentStopped' = FALSE /\ at' = 1 /\ index' = 0
  /\ UNCHANGED <<interrupt, held>>

(* Call with stopAgent set does nothing but say that it is stopped. *)
StopAgent ==
  /\ call = "idle" /\ agentStopped' = TRUE
  /\ UNCHANGED <<call, interrupt, requests, at, index, data>>

Current       == chain[at]
CurrentSector == diskAddressToSector(Current.address)
Doing(fs)     == call = "floppy" /\ Current.function \in fs
Moving(f)     == Doing({f}) /\ index < Current.count /\ Current.dataPtr \in resident

(* The request after a sector: the data pointer, and the address. *)
Advanced(request, pointer, address) ==
  [request EXCEPT !.dataPtr = IF pointer THEN @ + 1 ELSE @,
                  !.address = IF address
                              THEN sectorToDiskAddress(diskAddressToSector(@) + 1) ELSE @]

Read ==
  /\ Moving("readSector")
  /\ held' = [held EXCEPT !.pages[Current.dataPtr] = held.sectors[CurrentSector]]
  /\ chain' = [chain EXCEPT ![at] = Advanced(@, @.incrementDataPointer, TRUE)]
  /\ index' = index + 1
  /\ UNCHANGED <<call, interrupt, agentStopped, asked, at, resident>>

Write ==
  /\ Moving("writeSector")
  /\ held' = [held EXCEPT !.sectors[CurrentSector] = held.pages[Current.dataPtr]]
  /\ chain' = [chain EXCEPT ![at] =
                 Advanced(@, @.incrementDataPointer, @.incrementDataPointer)]
  /\ index' = index + 1
  /\ UNCHANGED <<call, interrupt, agentStopped, asked, at, resident>>

(* The emulated system brings the page in, and Call starts again. *)
Fault ==
  /\ Doing({"readSector", "writeSector"})
  /\ index < Current.count /\ Current.dataPtr \notin resident
  /\ resident' = resident \cup {Current.dataPtr}
  /\ at' = 1 /\ index' = 0
  /\ UNCHANGED <<call, interrupt, agentStopped, requests, held>>

(* On to the next request; the interrupt comes after the last one. *)
Advance ==
  /\ index' = 0
  /\ IF at < Len(chain) THEN at' = at + 1 /\ UNCHANGED <<call, interrupt>>
                        ELSE call' = "idle" /\ interrupt' = TRUE /\ UNCHANGED at

(* Count tracks are zeroed, of as many sectors as the request says.          *)
Format ==
  /\ Doing({"formatTrack"})
  /\ LET zero == CurrentSector .. CurrentSector + Current.count * Current.sectorsPerTrack - 1
     IN  held' = [held EXCEPT !.sectors = [s \in Sectors |-> IF s \in zero THEN 0 ELSE @[s]]]
  /\ chain' = [chain EXCEPT ![at].count = 0, ![at].status = "goodCompletion"]
  /\ Advance
  /\ UNCHANGED <<agentStopped, asked, resident>>

(* Mutant: the count is left as it was. *)
CompleteCounted ==
  /\ \/ Doing({"nop"})
     \/ Doing({"readSector", "writeSector"}) /\ index >= Current.count
  /\ chain' = [chain EXCEPT ![at].status = "goodCompletion"]
  /\ Advance
  /\ UNCHANGED <<agentStopped, asked, data>>

Complete ==
  /\ \/ Doing({"nop"}) /\ chain' = [chain EXCEPT ![at].status = "goodCompletion"]
     \/ /\ Doing({"readSector", "writeSector"}) /\ index >= Current.count
        /\ chain' = [chain EXCEPT ![at].count = 0, ![at].status = "goodCompletion"]
  /\ Advance
  /\ UNCHANGED <<agentStopped, asked, data>>

Call == Read \/ Write \/ Fault \/ Format \/ Complete

Next ==
  \/ Request \/ StopAgent
  \/ Call

Spec == Init /\ [][Next]_vars /\ WF_vars(Call)

-----------------------------------------------------------------------------
(* What an operation promises (FloppyDiskFace.Operation in Pilot.h): count   *)
(* sectors from its address on go to, or come from, the page of the data    *)
(* pointer and, where it increments, the ones after it; or count tracks are *)
(* formatted.  A page that several sectors go to has the last of them.      *)
Promised(before, request) ==
  LET first   == diskAddressToSector(request.address)
      Parts   == 0 .. request.count - 1
      Into(p) == {k \in Parts : Page(request, k) = p}
  IN  CASE request.function = "readSector" ->
             [before EXCEPT !.pages = [p \in DataPages |->
                IF Into(p) = {} THEN before.pages[p] ELSE before.sectors[first + Max(Into(p))]]]
        [] request.function = "writeSector" ->
             [before EXCEPT !.sectors = [s \in Sectors |->
                IF s - first \in Parts THEN before.pages[Page(request, s - first)]
                ELSE before.sectors[s]]]
        [] request.function = "formatTrack" ->
             [before EXCEPT !.sectors = [s \in Sectors |->
                IF (s - first) \div request.sectorsPerTrack \in Parts THEN 0 ELSE before.sectors[s]]]
        [] OTHER -> before

(* What the first n requests of a chain promise together, for each n. *)
After(new) ==
  LET after[n \in 0 .. Len(new)] == IF n = 0 THEN AtFirst ELSE Promised(after[n - 1], new[n])
  IN  after

(* A chain, when Call ends, moved what its requests promise, in their order, *)
(* each once and nothing else, also where a fault made Call start again; and *)
(* a read leads to the address after its last sector.                       *)
Finished == call = "idle" /\ asked # << >>
ChainExact ==
  /\ TypeOK
  /\ Finished =>
       /\ held = After(asked)[Len(asked)]
       /\ \A k \in DOMAIN asked :
            /\ chain[k].status = "goodCompletion"
            /\ asked[k].function = "readSector" =>
                 diskAddressToSector(chain[k].address)
                   = diskAddressToSector(asked[k].address) + asked[k].count
=============================================================================
