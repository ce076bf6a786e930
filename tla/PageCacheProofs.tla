-------------------------- MODULE PageCacheProofs ---------------------------
(***************************************************************************)
(* Proofs about PageCache, for any number of pages, cache entries and map   *)
(* flags: its types, the coherence of the cache and, for programs that keep *)
(* off page 0 and protect no page, that the cache is invisible.             *)
(***************************************************************************)
EXTENDS PageCache, TLAPS

(* The flags of map entries. *)
LEMMA FlagTypes ==
  /\ Clear \in Flags /\ Vacant \in Flags /\ IsVacant(Vacant) /\ ~ IsVacant(Clear)
  /\ \A map \in MapType : Shown(map) \in MapType
  /\ \A rp \in RPages, mf \in Flags : MapTo(rp, mf) \in MapType
  /\ \A map \in MapType, mf \in Flags : WithFlags(map, mf) \in MapType
  BY SizeAssumption DEF Clear, Vacant, Flags, IsVacant, MapType, Shown, MapTo, WithFlags, RPages

(* initialize and reserveDisplayPage give real pages that exist. *)
LEMMA RealPages ==
  /\ \A vp \in VPages : vp < DisplayStart => FirstRealPage(vp) \in RPages
  /\ \A i \in 0 .. DisplayPages - 1 : FirstRealPage(DisplayStart) + i \in RPages
  /\ 0 \in RPages /\ 0 \in VPages
  BY SizeAssumption, CacheAssumption DEF FirstRealPage, DisplayStart, VPages, RPages

(* The first state is typed. *)
LEMMA InitTypes == Init => TypeOK
<1> SUFFICES ASSUME Init PROVE TypeOK
  OBVIOUS
<1>1. maps \in [VPages -> MapType]
  BY FlagTypes, RealPages DEF Init
<1>2. entry \in [Slots -> Entry]
  BY RealPages DEF Init, Entry, Cleared
<1> QED
  BY <1>1, <1>2 DEF Init, TypeOK, Results

(* The page an access goes to is a real page, or none for a cleared entry. *)
LEMMA PageType ==
  ASSUME TypeOK, NEW vp \in VPages
  PROVE  /\ hash(vp) \in Slots
         /\ Page(vp) \in RPages \cup {NoPage}
         /\ ~ Cached(vp) => Page(vp) \in RPages
  BY CacheAssumption DEF TypeOK, Page, Cached, Entry, MapType

(* Every operation keeps the types. *)
LEMMA StepTypes == TypeOK /\ [Next]_cvars => TypeOK'
<1> SUFFICES ASSUME TypeOK, [Next]_cvars PROVE TypeOK'
  OBVIOUS
<1> USE DEF TypeOK
<1> DEFINE Referenced(vp) == [maps EXCEPT ![vp].referenced = TRUE]
           Marked(vp) == [maps EXCEPT ![vp].referenced = TRUE, ![vp].dirty = TRUE]
<1>1. \A vp \in VPages : Referenced(vp) \in [VPages -> MapType]
                      /\ Marked(vp) \in [VPages -> MapType]
  BY DEF MapType
<1>0. \A s \in Slots :
        /\ \A e \in Entry : [entry EXCEPT ![s] = e] \in [Slots -> Entry]
        /\ [entry EXCEPT ![s].flagFetch = TRUE] \in [Slots -> Entry]
        /\ [entry EXCEPT ![s].flagFetch = TRUE, ![s].flagStore = TRUE] \in [Slots -> Entry]
  BY DEF Entry
<1>2. ASSUME NEW vp \in VPages, FetchFaults(vp) \/ StoreFaults(vp) \/ GMF(vp)
      PROVE  TypeOK'
  BY <1>2, FlagTypes DEF FetchFaults, StoreFaults, GMF, Results
<1>3. ASSUME NEW vp \in VPages, Fetch(vp) PROVE TypeOK'
  <2>1. maps' \in [VPages -> MapType]
    BY <1>1, <1>3 DEF Fetch, fetchSetup, fetchMaintainFlag
  <2>2. entry' \in [Slots -> Entry]
    <3>1. hash(vp) \in Slots /\ maps[vp].rp \in RPages
      BY PageType DEF MapType
    <3>2. \A fetch, store \in BOOLEAN :
            [vpno |-> vp, flagFetch |-> fetch, flagStore |-> store, page |-> maps[vp].rp] \in Entry
      BY <3>1 DEF Entry
    <3> QED BY ZenonT(30), <1>0, <1>3, <3>1, <3>2 DEF Fetch, fetchSetup, fetchMaintainFlag
  <2>3. result' \in Results
    BY <1>3, PageType DEF Fetch, Results
  <2> QED BY <2>1, <2>2, <2>3, <1>3 DEF Fetch
<1>4. ASSUME NEW vp \in VPages, NEW w \in Words, Store(vp, w) PROVE TypeOK'
  <2>1. maps' \in [VPages -> MapType]
    BY <1>1, <1>4 DEF Store, storeSetup, storeMaintainFlag
  <2>2. entry' \in [Slots -> Entry]
    <3>1. hash(vp) \in Slots /\ maps[vp].rp \in RPages
      BY PageType DEF MapType
    <3>2. \A fetch, store \in BOOLEAN :
            [vpno |-> vp, flagFetch |-> fetch, flagStore |-> store, page |-> maps[vp].rp] \in Entry
      BY <3>1 DEF Entry
    <3> QED BY <1>0, <1>4, <3>1, <3>2 DEF Store, storeSetup, storeMaintainFlag
  <2>3. result' \in Results /\ memory' \in [RPages -> Words]
    BY <1>4, PageType DEF Store, Results
  <2> QED BY <2>1, <2>2, <2>3
<1>5. ASSUME NEW vp \in VPages, NEW map \in MapType, WriteMap(vp, map)
      PROVE  maps' \in [VPages -> MapType] /\ entry' \in [Slots -> Entry]
  BY <1>5, FlagTypes, RealPages DEF WriteMap, invalidate, Entry, Cleared
<1>6. ASSUME NEW vp \in VPages, NEW mf \in FlagsSet, NEW rp \in RPages, SM(vp, MapTo(rp, mf))
      PROVE  TypeOK'
  BY <1>5, <1>6, FlagTypes, CacheAssumption DEF SM, WriteMap, Results
<1>7. ASSUME NEW vp \in VPages, NEW mf \in FlagsSet, SMF(vp, mf) PROVE TypeOK'
  BY <1>5, <1>7, FlagTypes, CacheAssumption DEF SMF, WriteMap, Results
<1>8. ASSUME NEW vp \in VPages, MapDisplay(vp) PROVE TypeOK'
  <2>1. \A v \in vp .. vp + DisplayPages - 1 :
          MapTo(FirstRealPage(DisplayStart) + (v - vp), Clear) \in MapType
    BY FlagTypes, RealPages, CacheAssumption, SizeAssumption DEF VPages
  <2>2. maps' \in [VPages -> MapType]
    BY <1>8, <2>1 DEF MapDisplay
  <2>3. entry' \in [Slots -> Entry]
    BY <1>8, RealPages DEF MapDisplay, Entry, Cleared
  <2> QED BY <1>8, <2>2, <2>3 DEF MapDisplay, Results
<1>9. CASE UNCHANGED cvars
  BY <1>9 DEF cvars
<1> QED
  BY <1>2, <1>3, <1>4, <1>6, <1>7, <1>8, <1>9, CacheAssumption DEF Next

(* Every state has its type: in particular no access reaches a real page     *)
(* that does not exist, whatever SM and mapDisplay are told.                 *)
THEOREM TypeCorrect == Spec => []TypeOK
  BY InitTypes, StepTypes, PTL DEF Spec

-----------------------------------------------------------------------------
(* The coherence of one entry with a map. *)
Coherent(e, s, m) ==
  IF e.page = NoPage THEN e.vpno = 0
  ELSE /\ hash(e.vpno) = s
       /\ e.page = m[e.vpno].rp /\ ~ IsVacant(m[e.vpno])
       /\ e.flagFetch /\ m[e.vpno].referenced
       /\ e.flagStore => m[e.vpno].dirty

(* The invariant, entry by entry. *)
LEMMA CoherentEach == CacheCoherent <=> \A s \in Slots : Coherent(entry[s], s, maps)
  BY DEF CacheCoherent, Coherent

(* A change of the map of vp leaves the entries of other slots coherent, and *)
(* those of its slot that are another page's.                                *)
LEMMA OtherEntries ==
  ASSUME TypeOK, CacheCoherent, NEW vp \in VPages, NEW m,
         \A v \in VPages : v # vp => m[v] = maps[v],
         NEW s \in Slots, s # hash(vp) \/ entry[s].vpno # vp
  PROVE  Coherent(entry[s], s, m)
<1>1. entry[s] \in Entry /\ Coherent(entry[s], s, maps)
  BY CoherentEach DEF TypeOK
<1>2. CASE entry[s].page = NoPage
  BY <1>1, <1>2 DEF Coherent
<1>3. CASE entry[s].page # NoPage
  BY <1>1, <1>3 DEF Coherent, Entry
<1> QED BY <1>2, <1>3

(* Cleared entries agree with every map. *)
LEMMA InitCoherent == Init => CacheCoherent
  BY DEF Init, CacheCoherent, Cleared

(* WriteMap voids the one entry that could disagree with the new map. *)
LEMMA WriteMapCoherent ==
  ASSUME TypeOK, CacheCoherent, NEW vp \in VPages, NEW map \in MapType, WriteMap(vp, map)
  PROVE  CacheCoherent'
<1>1. ASSUME NEW s \in Slots PROVE Coherent(entry'[s], s, maps')
  <2>1. \A v \in VPages : v # vp => maps'[v] = maps[v]
    BY DEF WriteMap, TypeOK
  <2>2. CASE s = hash(vp) /\ entry[s].vpno = vp
    <3>1. entry'[s] = Cleared
      BY <2>2 DEF WriteMap, invalidate, TypeOK
    <3> QED BY <3>1 DEF Cleared, Coherent
  <2>3. CASE s # hash(vp) \/ entry[s].vpno # vp
    <3>1. entry'[s] = entry[s]
      BY <2>3 DEF WriteMap, invalidate, TypeOK
    <3> QED BY <2>1, <2>3, <3>1, OtherEntries
  <2> QED BY <2>2, <2>3
<1> QED BY <1>1 DEF CacheCoherent, Coherent

(* An access of vp: its entry becomes e, its map m, other entries and maps   *)
(* stay.                                                                     *)
LEMMA AccessCoherent ==
  ASSUME TypeOK, CacheCoherent, NEW vp \in VPages, NEW e, NEW m,
         maps' = [maps EXCEPT ![vp] = m], entry' = [entry EXCEPT ![hash(vp)] = e],
         e.vpno = vp, e.page = NoPage => vp = 0,
         e.page # NoPage => /\ e.page = m.rp /\ ~ IsVacant(m)
                            /\ e.flagFetch /\ m.referenced /\ (e.flagStore => m.dirty)
  PROVE  CacheCoherent'
<1>1. maps'[vp] = m /\ hash(vp) \in Slots /\ entry'[hash(vp)] = e
      /\ \A v \in VPages : v # vp => maps'[v] = maps[v]
  BY PageType DEF TypeOK
<1>2. ASSUME NEW s \in Slots PROVE Coherent(entry'[s], s, maps')
  <2>1. CASE s = hash(vp)
    BY <1>1, <2>1 DEF Coherent
  <2>2. CASE s # hash(vp)
    <3>1. entry'[s] = entry[s]
      BY <2>2 DEF TypeOK
    <3> QED BY <1>1, <2>2, <3>1, OtherEntries
  <2> QED BY <2>1, <2>2
<1> QED BY <1>2 DEF CacheCoherent, Coherent

(* Every operation keeps every entry in agreement with the map of its page. *)
LEMMA StepCoherent == TypeOK /\ CacheCoherent /\ [Next]_cvars => CacheCoherent'
<1> SUFFICES ASSUME TypeOK, CacheCoherent, [Next]_cvars PROVE CacheCoherent'
  OBVIOUS
<1>0. ASSUME UNCHANGED <<maps, entry>> PROVE CacheCoherent'
  BY <1>0 DEF CacheCoherent
<1>1. ASSUME NEW vp \in VPages, FetchFaults(vp) \/ StoreFaults(vp) \/ GMF(vp)
      PROVE  CacheCoherent'
  BY <1>0, <1>1 DEF FetchFaults, StoreFaults, GMF
<1>2. ASSUME NEW vp \in VPages
      PROVE  /\ hash(vp) \in Slots /\ entry[hash(vp)] \in Entry /\ maps[vp] \in MapType
             /\ Coherent(entry[hash(vp)], hash(vp), maps)
  BY <1>2, PageType, CoherentEach DEF TypeOK
<1>3. ASSUME NEW vp \in VPages, Fetch(vp) PROVE CacheCoherent'
  <2> DEFINE m == [maps[vp] EXCEPT !.referenced = TRUE]
             new == [vpno |-> vp, flagFetch |-> TRUE, flagStore |-> FALSE, page |-> maps[vp].rp]
             kept == [entry[hash(vp)] EXCEPT !.flagFetch = TRUE]
  <2>0. m.rp = maps[vp].rp /\ m.referenced /\ ~ IsVacant(m)
    BY <1>2 DEF MapType, IsVacant
  <2>1. CASE ~ Cached(vp) /\ ~ IsVacant(maps[vp]) /\ fetchSetup(vp)
    <3>1. maps' = [maps EXCEPT ![vp] = m] /\ entry' = [entry EXCEPT ![hash(vp)] = new]
      BY <2>1 DEF fetchSetup, TypeOK
    <3>2. new.page # NoPage
      BY <1>2, SizeAssumption DEF MapType, RPages, NoPage
    <3>3. new.vpno = vp /\ new.page = m.rp /\ new.flagFetch /\ ~ new.flagStore
      BY <2>0
    <3> HIDE DEF m, new
    <3> QED BY <2>0, <3>1, <3>2, <3>3, AccessCoherent
  <2>2. CASE Cached(vp) /\ ~ entry[hash(vp)].flagFetch /\ fetchMaintainFlag(vp)
    <3>1. maps' = [maps EXCEPT ![vp] = m] /\ entry' = [entry EXCEPT ![hash(vp)] = kept]
      BY <2>2 DEF fetchMaintainFlag, TypeOK
    <3>2. kept.vpno = vp /\ kept.page = NoPage /\ vp = 0
      BY <1>2, <2>2 DEF Cached, Entry, Coherent
    <3> QED BY <3>1, <3>2, AccessCoherent
  <2>3. CASE UNCHANGED <<maps, entry>>
    BY <1>0, <2>3
  <2> QED BY <1>3, <2>1, <2>2, <2>3 DEF Fetch
<1>4. ASSUME NEW vp \in VPages, NEW w \in Words, Store(vp, w) PROVE CacheCoherent'
  <2> DEFINE m == [maps[vp] EXCEPT !.referenced = TRUE, !.dirty = TRUE]
             new == [vpno |-> vp, flagFetch |-> TRUE, flagStore |-> TRUE, page |-> maps[vp].rp]
             kept == [entry[hash(vp)] EXCEPT !.flagFetch = TRUE, !.flagStore = TRUE]
  <2>0. m.rp = maps[vp].rp /\ m.referenced /\ m.dirty /\ ~ IsVacant(m)
    BY <1>2 DEF MapType, IsVacant
  <2>1. CASE ~ Cached(vp) /\ ~ maps[vp].protect /\ storeSetup(vp)
    <3>1. maps' = [maps EXCEPT ![vp] = m] /\ entry' = [entry EXCEPT ![hash(vp)] = new]
      BY <2>1 DEF storeSetup, TypeOK
    <3>2. new.page # NoPage
      BY <1>2, SizeAssumption DEF MapType, RPages, NoPage
    <3>3. new.vpno = vp /\ new.page = m.rp /\ new.flagFetch /\ new.flagStore
      BY <2>0
    <3> HIDE DEF m, new
    <3> QED BY <2>0, <3>1, <3>2, <3>3, AccessCoherent
  <2>2. CASE Cached(vp) /\ ~ entry[hash(vp)].flagStore /\ storeMaintainFlag(vp)
    <3>1. maps' = [maps EXCEPT ![vp] = m] /\ entry' = [entry EXCEPT ![hash(vp)] = kept]
      BY <2>2 DEF storeMaintainFlag, TypeOK
    <3>2. kept.vpno = vp /\ kept.flagFetch /\ kept.page = entry[hash(vp)].page
      BY <1>2, <2>2 DEF Cached, Entry
    <3>3. /\ kept.page = NoPage => vp = 0
          /\ kept.page # NoPage => kept.page = m.rp
      BY <1>2, <2>0, <2>2, <3>2 DEF Cached, Coherent
    <3> QED BY <2>0, <3>1, <3>2, <3>3, AccessCoherent
  <2>3. CASE UNCHANGED <<maps, entry>>
    BY <1>0, <2>3
  <2> QED BY <1>4, <2>1, <2>2, <2>3 DEF Store
<1>5. ASSUME NEW vp \in VPages, NEW mf \in FlagsSet, NEW rp \in RPages, SM(vp, MapTo(rp, mf))
      PROVE  CacheCoherent'
  BY <1>5, WriteMapCoherent, FlagTypes, CacheAssumption DEF SM
<1>6. ASSUME NEW vp \in VPages, NEW mf \in FlagsSet, SMF(vp, mf) PROVE CacheCoherent'
  BY <1>0, <1>2, <1>6, WriteMapCoherent, FlagTypes, CacheAssumption DEF SMF
<1>7. ASSUME NEW vp \in VPages, MapDisplay(vp) PROVE CacheCoherent'
  <2> DEFINE vps == vp .. vp + DisplayPages - 1
  <2>1. ASSUME NEW s \in Slots PROVE Coherent(entry'[s], s, maps')
    <3>0. entry[s] \in Entry /\ Coherent(entry[s], s, maps)
      BY CoherentEach DEF TypeOK
    <3>1. CASE \E v \in vps : hash(v) = s /\ entry[s].vpno = v
      <4>1. entry'[s] = Cleared
        BY <1>7, <3>1 DEF MapDisplay
      <4> QED BY <4>1 DEF Cleared, Coherent
    <3>2. CASE ~ \E v \in vps : hash(v) = s /\ entry[s].vpno = v
      <4>1. entry'[s] = entry[s]
        BY <1>7, <3>2 DEF MapDisplay
      <4>2. CASE entry[s].page = NoPage
        BY <3>0, <4>1, <4>2 DEF Coherent
      <4>3. CASE entry[s].page # NoPage
        <5>1. entry[s].vpno \in VPages \ vps
          BY <3>0, <3>2, <4>3 DEF Coherent, Entry
        <5>2. maps'[entry[s].vpno] = maps[entry[s].vpno]
          BY <1>7, <5>1 DEF MapDisplay
        <5> QED BY <3>0, <4>1, <4>3, <5>2 DEF Coherent
      <4> QED BY <4>2, <4>3
    <3> QED BY <3>1, <3>2
  <2> QED BY <2>1 DEF CacheCoherent, Coherent
<1>8. CASE UNCHANGED cvars
  BY <1>0, <1>8 DEF cvars
<1> QED
  BY <1>1, <1>3, <1>4, <1>5, <1>6, <1>7, <1>8, CacheAssumption DEF Next

(* The cache never hands out a stale real page, and never believes flags set *)
(* that SM, SMF or mapDisplay cleared, for any number of pages and slots.    *)
THEOREM Coherence == Spec => []CacheCoherent
  BY TypeCorrect, InitCoherent, StepCoherent, PTL DEF Spec

-----------------------------------------------------------------------------
(* Programs that keep off page 0 and protect no page but vacant ones. *)
Restrained == 0 \notin Accessed /\ \A mf \in FlagsSet : mf.protect => IsVacant(mf)

NoneProtected == \A vp \in VPages : maps[vp].protect => IsVacant(maps[vp])

(* initialize leaves no page protected but the vacant ones. *)
LEMMA InitUnprotected == Init => NoneProtected
  BY DEF Init, NoneProtected, MapTo, WithFlags, Clear, Vacant, IsVacant

(* What an access finds in a coherent cache. *)
LEMMA AccessFinds ==
  ASSUME TypeOK, CacheCoherent, NEW vp \in VPages, vp # 0
  PROVE  /\ maps[vp] \in MapType /\ maps[vp].rp \in RPages /\ maps[vp].rp # NoPage
         /\ Page(vp) = maps[vp].rp
         /\ Cached(vp) => /\ ~ IsVacant(maps[vp]) /\ maps[vp].referenced
                          /\ entry[hash(vp)].flagFetch
                          /\ entry[hash(vp)].flagStore => maps[vp].dirty
<1>1. maps[vp] \in MapType /\ maps[vp].rp \in RPages /\ maps[vp].rp # NoPage
  BY SizeAssumption DEF TypeOK, MapType, RPages, NoPage
<1>2. Coherent(entry[hash(vp)], hash(vp), maps)
  BY PageType, CoherentEach
<1> QED BY <1>1, <1>2 DEF Coherent, Page, Cached

(* Flags that are set are not changed by setting them again: why a hit may skip it. *)
LEMMA SetTwice ==
  ASSUME TypeOK, NEW vp \in VPages, maps[vp].referenced
  PROVE  /\ [maps EXCEPT ![vp].referenced = TRUE] = maps
         /\ maps[vp].dirty => [maps EXCEPT ![vp].referenced = TRUE, ![vp].dirty = TRUE] = maps
  BY DEF TypeOK, MapType

(* Programs that protect no page leave none protected. *)
LEMMA StepUnprotected ==
  TypeOK /\ CacheCoherent /\ NoneProtected /\ Restrained /\ [Next]_cvars => NoneProtected'
<1> SUFFICES ASSUME TypeOK, CacheCoherent, NoneProtected, Restrained, [Next]_cvars
             PROVE  NoneProtected'
  OBVIOUS
<1>1. ASSUME UNCHANGED maps PROVE NoneProtected'
  BY <1>1 DEF NoneProtected
<1>2. ASSUME NEW vp \in VPages, NEW m,
             \A v \in VPages : v # vp => maps'[v] = maps[v],
             maps'[vp] = m, m.protect => IsVacant(m)
      PROVE  NoneProtected'
  BY <1>2 DEF NoneProtected
<1>3. ASSUME NEW vp \in Accessed, Fetch(vp) PROVE NoneProtected'
  <2>1. vp \in VPages /\ vp # 0 BY CacheAssumption DEF Restrained
  <2>2. ~ maps[vp].protect
    BY <1>3, <2>1, AccessFinds DEF Fetch, NoneProtected
  <2>3. UNCHANGED maps \/ maps' = [maps EXCEPT ![vp].referenced = TRUE]
    BY <1>3 DEF Fetch, fetchSetup, fetchMaintainFlag
  <2> QED BY <2>1, <2>2, <2>3, <1>1, <1>2 DEF TypeOK, MapType
<1>4. ASSUME NEW vp \in Accessed, NEW w \in Words, Store(vp, w) PROVE NoneProtected'
  <2>1. vp \in VPages /\ vp # 0 BY CacheAssumption DEF Restrained
  <2>2. ~ maps[vp].protect
    BY <1>4, <2>1, AccessFinds DEF Store, NoneProtected
  <2>3. UNCHANGED maps \/ maps' = [maps EXCEPT ![vp].referenced = TRUE, ![vp].dirty = TRUE]
    BY <1>4 DEF Store, storeSetup, storeMaintainFlag
  <2> QED BY <2>1, <2>2, <2>3, <1>1, <1>2 DEF TypeOK, MapType
<1>5. ASSUME NEW vp \in VPages, NEW map \in MapType, map.protect => IsVacant(map),
             WriteMap(vp, map)
      PROVE  NoneProtected'
  <2>1. Shown(map).protect => IsVacant(Shown(map))
    BY <1>5 DEF Shown, IsVacant, MapType
  <2>2. maps'[vp] = Shown(map) /\ \A v \in VPages : v # vp => maps'[v] = maps[v]
    BY <1>5 DEF WriteMap, TypeOK
  <2> QED BY <2>1, <2>2, <1>2
<1>6. ASSUME NEW map \in MapType, NEW mf \in FlagsSet
      PROVE  WithFlags(map, mf) \in MapType /\ (WithFlags(map, mf).protect => IsVacant(WithFlags(map, mf)))
  BY FlagTypes, CacheAssumption DEF WithFlags, IsVacant, Restrained
<1>7. ASSUME NEW vp \in VPages, NEW mf \in FlagsSet, NEW rp \in RPages, SM(vp, MapTo(rp, mf))
      PROVE  NoneProtected'
  <2>1. MapTo(rp, mf) \in MapType /\ (MapTo(rp, mf).protect => IsVacant(MapTo(rp, mf)))
    BY FlagTypes, CacheAssumption DEF MapTo, WithFlags, IsVacant, Restrained
  <2> QED BY <1>5, <1>7, <2>1 DEF SM
<1>8. ASSUME NEW vp \in VPages, NEW mf \in FlagsSet, SMF(vp, mf) PROVE NoneProtected'
  BY <1>1, <1>5, <1>6, <1>8 DEF SMF, TypeOK
<1>9. ASSUME NEW vp \in VPages, MapDisplay(vp) PROVE NoneProtected'
  BY <1>9 DEF MapDisplay, NoneProtected, MapTo, WithFlags, Clear, IsVacant
<1>10. ASSUME NEW vp \in VPages, FetchFaults(vp) \/ StoreFaults(vp) \/ GMF(vp)
       PROVE  NoneProtected'
  BY <1>1, <1>10 DEF FetchFaults, StoreFaults, GMF
<1>11. CASE UNCHANGED cvars
  BY <1>1, <1>11 DEF cvars
<1> QED
  BY <1>3, <1>4, <1>7, <1>8, <1>9, <1>10, <1>11, CacheAssumption DEF Next

(* What initialize leaves is an initial state of the uncached memory. *)
LEMMA InitRefines == Init => VInit
<1> SUFFICES ASSUME Init PROVE VInit
  OBVIOUS
<1>1. maps \in [VPages -> MapType]
  BY InitTypes DEF TypeOK
<1>2. ASSUME NEW vp \in VPages PROVE maps[vp] = Shown(maps[vp])
  BY <1>2 DEF Init, Shown, IsVacant, MapTo, WithFlags, Clear, Vacant
<1> QED BY <1>1, <1>2 DEF Init, VInit

(* Every step of the cached memory is a step of the memory without cache.    *)
LEMMA StepRefines ==
  TypeOK /\ CacheCoherent /\ NoneProtected /\ Restrained /\ [Next]_cvars
    => [VNext]_<<maps, memory, result>>
<1> SUFFICES ASSUME TypeOK, CacheCoherent, NoneProtected, Restrained, [Next]_cvars
             PROVE  [VNext]_<<maps, memory, result>>
  OBVIOUS
<1>0. \A vp \in Accessed : vp \in VPages /\ vp # 0
  BY CacheAssumption DEF Restrained
<1>1. ASSUME NEW vp \in Accessed, FetchFaults(vp) PROVE VFetch(vp)
  BY <1>1 DEF FetchFaults, VFetch
<1>2. ASSUME NEW vp \in Accessed, Fetch(vp) PROVE VFetch(vp)
  <2>1. result' = Got(memory[maps[vp].rp]) /\ ~ IsVacant(maps[vp])
    BY <1>0, <1>2, AccessFinds DEF Fetch
  <2>2. maps' = [maps EXCEPT ![vp].referenced = TRUE]
    <3>1. CASE ~ Cached(vp)
      BY <1>2, <3>1 DEF Fetch, fetchSetup
    <3>2. CASE Cached(vp)
      BY <1>0, <1>2, <3>2, AccessFinds, SetTwice DEF Fetch, fetchMaintainFlag
    <3> QED BY <3>1, <3>2
  <2> QED BY <1>2, <2>1, <2>2 DEF Fetch, VFetch
<1>3. ASSUME NEW vp \in Accessed, NEW w \in Words, Store(vp, w) PROVE VStore(vp, w)
  <2>1. /\ ~ IsVacant(maps[vp]) /\ ~ maps[vp].protect
        /\ result' = Done /\ memory' = [memory EXCEPT ![maps[vp].rp] = w]
    <3>1. ~ IsVacant(maps[vp]) /\ ~ maps[vp].protect
      BY <1>0, <1>3, AccessFinds DEF Store, NoneProtected, IsVacant
    <3> QED BY <1>0, <1>3, <3>1, AccessFinds DEF Store
  <2>2. maps' = [maps EXCEPT ![vp].referenced = TRUE, ![vp].dirty = TRUE]
    <3>1. CASE ~ Cached(vp)
      BY <1>3, <3>1 DEF Store, storeSetup
    <3>2. CASE Cached(vp) /\ ~ entry[hash(vp)].flagStore
      BY <1>3, <3>2 DEF Store, storeMaintainFlag
    <3>3. CASE Cached(vp) /\ entry[hash(vp)].flagStore
      <4>1. maps[vp].referenced /\ maps[vp].dirty /\ vp \in VPages
        BY <1>0, <3>3, AccessFinds
      <4>2. maps' = maps
        BY <1>3, <3>3 DEF Store
      <4> QED BY <4>1, <4>2, SetTwice
    <3> QED BY <3>1, <3>2, <3>3
  <2> QED BY <2>1, <2>2 DEF VStore
<1>4. ASSUME NEW vp \in Accessed, StoreFaults(vp) PROVE \E w \in Words : VStore(vp, w)
  <2>1. memory[0] \in Words
    BY RealPages DEF TypeOK
  <2>2. VStore(vp, memory[0])
    BY <1>4 DEF StoreFaults, VStore
  <2> QED BY <2>1, <2>2
<1>5. ASSUME NEW vp \in VPages, NEW mf \in FlagsSet, NEW rp \in RPages, SM(vp, MapTo(rp, mf))
      PROVE  VNext
  <2> DEFINE vps == {vp}
             new == [v \in vps |-> MapTo(rp, mf)]
  <2>1. new \in [vps -> MapType] /\ vps \in SUBSET VPages
    BY FlagTypes, CacheAssumption
  <2>2. maps' = [v \in VPages |-> IF v \in vps THEN Shown(new[v]) ELSE maps[v]]
    BY <1>5 DEF SM, WriteMap, TypeOK
  <2>3. VWriteMaps(vps, new)
    BY <1>5, <2>2 DEF SM, WriteMap, VWriteMaps
  <2> HIDE DEF vps, new
  <2> QED BY <2>1, <2>3 DEF VNext
<1>6. ASSUME NEW vp \in VPages, NEW mf \in FlagsSet, SMF(vp, mf) PROVE VSetFlags(vp, mf)
  BY <1>6 DEF SMF, WriteMap, VSetFlags
<1>7. ASSUME NEW vp \in VPages, GMF(vp) PROVE VGetFlags(vp)
  BY <1>7 DEF GMF, VGetFlags
<1>8. ASSUME NEW vp \in VPages, MapDisplay(vp) PROVE VNext
  <2> DEFINE vps == vp .. vp + DisplayPages - 1
             new == [v \in vps |-> MapTo(FirstRealPage(DisplayStart) + (v - vp), Clear)]
  <2>1. new \in [vps -> MapType] /\ vps \in SUBSET VPages
    <3>1. ASSUME NEW v \in vps PROVE FirstRealPage(DisplayStart) + (v - vp) \in RPages
      BY <3>1, RealPages, CacheAssumption, SizeAssumption DEF VPages
    <3> QED BY <1>8, <3>1, FlagTypes DEF MapDisplay
  <2>2. \A v \in vps : Shown(new[v]) = new[v]
    BY DEF Shown, IsVacant, MapTo, WithFlags, Clear
  <2>3. VWriteMaps(vps, new)
    BY <1>8, <2>2 DEF MapDisplay, VWriteMaps
  <2> HIDE DEF vps, new
  <2> QED BY <2>1, <2>3 DEF VNext
<1>9. CASE UNCHANGED cvars
  BY <1>9 DEF cvars
<1>10. ASSUME NEW vp \in Accessed, NEW w \in Words, VStore(vp, w)
       PROVE  VNext
  BY <1>0, <1>10 DEF VNext
<1>11. ASSUME NEW vp \in Accessed, VFetch(vp) PROVE VNext
  BY <1>0, <1>11 DEF VNext
<1>12. ASSUME NEW vp \in VPages, NEW mf \in Flags, VSetFlags(vp, mf) \/ VGetFlags(vp)
       PROVE  VNext
  BY <1>12 DEF VNext
<1>13. Clear \in Flags /\ FlagsSet \subseteq Flags
  BY FlagTypes, CacheAssumption
<1> QED
  BY <1>1, <1>2, <1>3, <1>4, <1>5, <1>6, <1>7, <1>8, <1>9, <1>10, <1>11, <1>12, <1>13
     DEF Next

(* For such programs the cache is invisible: each access reads, writes,      *)
(* faults and marks the map exactly as FetchPage and StorePage alone would.  *)
THEOREM CacheInvisible == ASSUME Restrained PROVE Spec => ImplementsVirtualMemory
<1>1. Spec => [](TypeOK /\ CacheCoherent)
  BY TypeCorrect, Coherence, PTL
<1>2. TypeOK /\ CacheCoherent /\ NoneProtected /\ [Next]_cvars => NoneProtected'
  BY StepUnprotected
<1>3. TypeOK /\ CacheCoherent /\ NoneProtected /\ [Next]_cvars
        => [VNext]_<<maps, memory, result>>
  BY StepRefines
<1> QED
  BY <1>1, <1>2, <1>3, InitUnprotected, InitRefines, PTL
     DEF Spec, ImplementsVirtualMemory, VSpec
=============================================================================
