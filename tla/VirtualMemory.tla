--------------------------- MODULE VirtualMemory ---------------------------
(***************************************************************************)
(* What src/mesa/memory.cpp promises the emulated machine, without its page *)
(* cache: each virtual page has map flags and a real page; every access     *)
(* checks the flags and updates them.                                       *)
(***************************************************************************)
EXTENDS Integers

CONSTANTS
  VPSize,     \* number of virtual pages (config.vpSize)
  RPSize,     \* number of real pages (config.rpSize)
  Words       \* what a page can hold

ASSUME SizeAssumption == VPSize \in Nat /\ RPSize \in 1 .. VPSize

VPages == 0 .. VPSize - 1
RPages == 0 .. RPSize - 1

VARIABLES
  maps,       \* the map entry of each virtual page
  memory,     \* the contents of each real page
  result      \* what the last operation gave

Flags   == [referenced : BOOLEAN, dirty : BOOLEAN, protect : BOOLEAN]
MapType == [referenced : BOOLEAN, dirty : BOOLEAN, protect : BOOLEAN, rp : RPages]

IsVacant(mf) == mf.protect /\ mf.dirty /\ ~ mf.referenced

(* ReadMap, WriteMap and SM show real page 0 behind a vacant one. *)
Shown(map) == IF IsVacant(map) THEN [map EXCEPT !.rp = 0] ELSE map

WithFlags(map, mf) == [referenced |-> mf.referenced, dirty |-> mf.dirty,
                       protect |-> mf.protect, rp |-> map.rp]

Got(w)   == [kind |-> "word", word |-> w]
Told(map) == [kind |-> "map", map |-> map]
Only(k)  == [kind |-> k]
Done              == Only("done")
PageFault         == Only("PageFault")
WriteProtectFault == Only("WriteProtectFault")
NullPointer       == Only("NullPointer")     \* never given here, see PageCache

VInit ==
  /\ maps \in [VPages -> {m \in MapType : m = Shown(m)}]
  /\ memory \in [RPages -> Words]
  /\ result = Done

VFetch(vp) ==
  /\ IF IsVacant(maps[vp])
     THEN /\ result' = PageFault
          /\ UNCHANGED maps
     ELSE /\ result' = Got(memory[maps[vp].rp])
          /\ maps' = [maps EXCEPT ![vp].referenced = TRUE]
  /\ UNCHANGED memory

VStore(vp, w) ==
  IF IsVacant(maps[vp]) \/ maps[vp].protect
  THEN /\ result' = IF IsVacant(maps[vp]) THEN PageFault ELSE WriteProtectFault
       /\ UNCHANGED <<maps, memory>>
  ELSE /\ result' = Done
       /\ maps' = [maps EXCEPT ![vp].referenced = TRUE, ![vp].dirty = TRUE]
       /\ memory' = [memory EXCEPT ![maps[vp].rp] = w]

(* The pages vps get new map entries, one or all pages of the display. *)
VWriteMaps(vps, new) ==
  /\ maps' = [vp \in VPages |-> IF vp \in vps THEN Shown(new[vp]) ELSE maps[vp]]
  /\ result' = Done
  /\ UNCHANGED memory

VGetFlags(vp) ==
  /\ result' = Told(Shown(maps[vp]))
  /\ UNCHANGED <<maps, memory>>

VSetFlags(vp, mf) ==
  /\ result' = Told(Shown(maps[vp]))
  /\ maps' = IF IsVacant(maps[vp]) THEN maps
             ELSE [maps EXCEPT ![vp] = Shown(WithFlags(@, mf))]
  /\ UNCHANGED memory

VNext ==
  \/ \E vp \in VPages :
       \/ VFetch(vp) \/ VGetFlags(vp)
       \/ \E w \in Words : VStore(vp, w)
       \/ \E mf \in Flags : VSetFlags(vp, mf)
  \/ \E vps \in SUBSET VPages : \E new \in [vps -> MapType] : VWriteMaps(vps, new)

VSpec == VInit /\ [][VNext]_<<maps, memory, result>>
=============================================================================
