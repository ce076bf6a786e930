----------------------------- MODULE PageCache ------------------------------
(***************************************************************************)
(* The virtual memory of src/mesa/memory.cpp with its direct mapped page    *)
(* cache (memory.h): fetch and store consult the map of a page only when    *)
(* the cache entry of its slot is another page's, and touch its flags only  *)
(* when the entry says they may be clear.  The map opcodes SM, SMF and GMF  *)
(* (src/opcode/OpcodeEsc.cpp) and mapDisplay change maps behind the cache.   *)
(***************************************************************************)
EXTENDS VirtualMemory

CONSTANTS
  NSlots,        \* number of cache entries (N_ENTRY)
  IoRegionPage,  \* the argument of initialize
  FirstBlock,    \* 256 in the code: the pages that initialize permutes
  DisplayPages,  \* the argument of reserveDisplayPage
  Accessed,      \* the virtual pages that programs access
  FlagsSet       \* the map flags that programs pass to SM and SMF

Slots == 0 .. NSlots - 1
hash(vp) == vp % NSlots

ASSUME CacheAssumption ==
  /\ NSlots \in Nat \ {0} /\ \A vp \in VPages : hash(vp) \in Slots
  /\ IoRegionPage \in 0 .. FirstBlock /\ FirstBlock \in 0 .. RPSize
  /\ DisplayPages \in 0 .. RPSize - FirstBlock
  /\ Accessed \subseteq VPages /\ FlagsSet \subseteq Flags

VARIABLE entry   \* the cache

cvars == <<maps, memory, result, entry>>

NoPage  == -1    \* the null page pointer
Entry   == [vpno : VPages, flagFetch : BOOLEAN, flagStore : BOOLEAN,
            page : RPages \cup {NoPage}]
Cleared == [vpno |-> 0, flagFetch |-> FALSE, flagStore |-> FALSE, page |-> NoPage]

Results == {Got(w) : w \in Words} \cup {Told(m) : m \in MapType}
             \cup {Done, PageFault, WriteProtectFault, NullPointer}

TypeOK ==
  /\ maps \in [VPages -> MapType]
  /\ memory \in [RPages -> Words]
  /\ entry \in [Slots -> Entry]
  /\ result \in Results

-----------------------------------------------------------------------------
Clear  == [referenced |-> FALSE, dirty |-> FALSE, protect |-> FALSE]
Vacant == [referenced |-> FALSE, dirty |-> TRUE, protect |-> TRUE]

MapTo(rp, mf) == WithFlags([rp |-> rp], mf)

(* Mutant: the pages below the io region are numbered on downwards. *)
RealPageOfOne(vp) == IF vp >= FirstBlock THEN vp ELSE vp - IoRegionPage

(* The real pages in the order initialize hands them out. *)
FirstRealPage(vp) ==
  IF vp >= FirstBlock THEN vp
  ELSE IF vp >= IoRegionPage THEN vp - IoRegionPage ELSE FirstBlock - IoRegionPage + vp

DisplayStart == RPSize - DisplayPages

(* initialize, then reserveDisplayPage. *)
Init ==
  /\ maps = [vp \in VPages |-> IF vp < DisplayStart THEN MapTo(FirstRealPage(vp), Clear)
                               ELSE MapTo(0, Vacant)]
  /\ memory \in [RPages -> Words]
  /\ entry = [s \in Slots |-> Cleared]
  /\ result = Done

(* A null pointer was dereferenced and the emulator crashed. *)
Alive == result # NullPointer

fetchSetup(vp) ==
  /\ maps' = [maps EXCEPT ![vp].referenced = TRUE]
  /\ entry' = [entry EXCEPT ![hash(vp)] =
                 [vpno |-> vp, flagFetch |-> TRUE, flagStore |-> FALSE, page |-> maps[vp].rp]]

fetchMaintainFlag(vp) ==
  /\ maps' = [maps EXCEPT ![vp].referenced = TRUE]
  /\ entry' = [entry EXCEPT ![hash(vp)].flagFetch = TRUE]

storeSetup(vp) ==
  /\ maps' = [maps EXCEPT ![vp].referenced = TRUE, ![vp].dirty = TRUE]
  /\ entry' = [entry EXCEPT ![hash(vp)] =
                 [vpno |-> vp, flagFetch |-> TRUE, flagStore |-> TRUE, page |-> maps[vp].rp]]

(* Mutant: the dirty flag is left for a later miss. *)
storeMaintainReferenced(vp) ==
  /\ maps' = [maps EXCEPT ![vp].referenced = TRUE]
  /\ entry' = [entry EXCEPT ![hash(vp)].flagFetch = TRUE, ![hash(vp)].flagStore = TRUE]

storeMaintainFlag(vp) ==
  /\ maps' = [maps EXCEPT ![vp].referenced = TRUE, ![vp].dirty = TRUE]
  /\ entry' = [entry EXCEPT ![hash(vp)].flagFetch = TRUE, ![hash(vp)].flagStore = TRUE]

(* The page an access of vp reads or writes: the one its entry has then. *)
Page(vp) == IF entry[hash(vp)].vpno = vp THEN entry[hash(vp)].page ELSE maps[vp].rp

Cached(vp) == entry[hash(vp)].vpno = vp

FetchFaults(vp) ==
  /\ Alive /\ ~ Cached(vp) /\ IsVacant(maps[vp])
  /\ result' = PageFault
  /\ UNCHANGED <<maps, memory, entry>>

Fetch(vp) ==
  /\ Alive
  /\ \/ ~ Cached(vp) /\ ~ IsVacant(maps[vp]) /\ fetchSetup(vp)
     \/ Cached(vp) /\ ~ entry[hash(vp)].flagFetch /\ fetchMaintainFlag(vp)
     \/ Cached(vp) /\ entry[hash(vp)].flagFetch /\ UNCHANGED <<maps, entry>>
  /\ result' = IF Page(vp) = NoPage THEN NullPointer ELSE Got(memory[Page(vp)])
  /\ UNCHANGED memory

StoreFaults(vp) ==
  /\ Alive /\ ~ Cached(vp) /\ maps[vp].protect
  /\ result' = IF IsVacant(maps[vp]) THEN PageFault ELSE WriteProtectFault
  /\ UNCHANGED <<maps, memory, entry>>

Store(vp, w) ==
  /\ Alive
  /\ \/ ~ Cached(vp) /\ ~ maps[vp].protect /\ storeSetup(vp)
     \/ Cached(vp) /\ ~ entry[hash(vp)].flagStore /\ storeMaintainFlag(vp)
     \/ Cached(vp) /\ entry[hash(vp)].flagStore /\ UNCHANGED <<maps, entry>>
  /\ IF Page(vp) = NoPage
     THEN result' = NullPointer /\ UNCHANGED memory
     ELSE result' = Done /\ memory' = [memory EXCEPT ![Page(vp)] = w]

(* Mutant: the entry loses its page but not its number. *)
invalidateKeepNumber(vp) ==
  [entry EXCEPT ![hash(vp)] = IF @.vpno = vp THEN [Cleared EXCEPT !.vpno = vp] ELSE @]

(* invalidate: an entry of page vp is voided. *)
invalidate(vp) == [entry EXCEPT ![hash(vp)] = IF @.vpno = vp THEN Cleared ELSE @]

WriteMap(vp, map) ==
  /\ maps' = [maps EXCEPT ![vp] = Shown(map)]
  /\ entry' = invalidate(vp)
  /\ UNCHANGED memory

SM(vp, map) == Alive /\ WriteMap(vp, map) /\ result' = Done

SMF(vp, mf) ==
  /\ Alive
  /\ result' = Told(Shown(maps[vp]))
  /\ IF IsVacant(maps[vp]) THEN UNCHANGED <<maps, memory, entry>>
     ELSE WriteMap(vp, WithFlags(maps[vp], mf))

GMF(vp) ==
  /\ Alive
  /\ result' = Told(Shown(maps[vp]))
  /\ UNCHANGED <<maps, memory, entry>>

(* mapDisplay(vp, display.rp, DisplayPages): WriteMap for each page. *)
MapDisplay(vp) ==
  LET vps == vp .. vp + DisplayPages - 1
  IN  /\ Alive
      /\ vps \subseteq VPages
      /\ maps' = [v \in VPages |->
                    IF v \in vps THEN MapTo(FirstRealPage(DisplayStart) + (v - vp), Clear)
                    ELSE maps[v]]
      /\ entry' = [s \in Slots |->
                     IF \E v \in vps : hash(v) = s /\ entry[s].vpno = v THEN Cleared
                     ELSE entry[s]]
      /\ result' = Done
      /\ UNCHANGED memory

Next ==
  \/ \E vp \in Accessed : FetchFaults(vp) \/ Fetch(vp) \/ StoreFaults(vp)
  \/ \E vp \in Accessed, w \in Words : Store(vp, w)
  \/ \E vp \in VPages, mf \in FlagsSet, rp \in RPages : SM(vp, MapTo(rp, mf))
  \/ \E vp \in VPages, mf \in FlagsSet : SMF(vp, mf)
  \/ \E vp \in VPages : GMF(vp) \/ MapDisplay(vp)

Spec == Init /\ [][Next]_cvars

-----------------------------------------------------------------------------
(* An entry agrees with the map of its page, although SM, SMF and mapDisplay *)
(* change maps and several pages share a slot: it has that page's real page, *)
(* and where it says the flags are set, they are.                            *)
CacheCoherent ==
  \A s \in Slots :
    LET e   == entry[s]
        map == maps[e.vpno]
    IN  IF e.page = NoPage THEN e.vpno = 0
        ELSE /\ hash(e.vpno) = s
             /\ e.page = map.rp /\ ~ IsVacant(map)
             /\ e.flagFetch /\ map.referenced
             /\ e.flagStore => map.dirty

(* With the cache, every access reads, writes, faults and marks exactly as   *)
(* it would without.                                                         *)
ImplementsVirtualMemory == VSpec

(* FetchPage and StorePage assert that the page they hand out is not null.   *)
NeverNullPointer == result # NullPointer

(* StorePage raises WriteProtectFault for a page with the protect flag: real *)
(* memory changes only through a virtual page that is not protected.         *)
ProtectedPagesKept ==
  [][\A rp \in RPages :
       memory'[rp] # memory[rp] =>
         \E vp \in Accessed : maps[vp].rp = rp /\ ~ maps[vp].protect]_cvars
=============================================================================
