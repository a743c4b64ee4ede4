-------------------------- MODULE DeviceSync_proofs --------------------------
(***************************************************************************)
(* Proofs about DeviceSync, for all sets of devices and addresses, any       *)
(* number of events, and calls that fail.                                    *)
(*                                                                          *)
(* TypeCorrect needs Shape, which says what the sets of a running sync have *)
(* to do with the list.  The two dictionaries agree (MapAgrees), for devices *)
(* with addresses of their own, in two cases: AloneMapAgrees is about a      *)
(* bridge no device joins through, with any number of sessions, and          *)
(* JoinedMapAgrees about one with joins, where Sessions orders every object  *)
(* of a device and HeldOld says what a join still holds.  RoutedAreListed    *)
(* and StayingListedIsRouted relate the list to the RAN's routing table.     *)
(***************************************************************************)
EXTENDS DeviceSync, TLAPS

-----------------------------------------------------------------------------
(* The inductive invariant of type correctness *)

\* What the running sync knows of a device it also has: a pulled object, and a
\* listed one to compare with or to update, which is not one to remove.
ScanShape ==
    \A d \in Dev :
        /\ found[d] \in {"pulled", "new", "updated"} => pulled[d] \in Device
        /\ found[d] \in {"pulled", "updated"} => local[d] \in Device /\ d \notin gone

\* Devices are removed, added and updated only when the scan is over.
PhaseShape ==
    /\ phase # "apply" => gone = {} /\ call = None
    /\ phase = "apply" => \A d \in Dev : found[d] \notin {"todo", "pulled"}

\* The call in flight is about a device the sync is adding or updating.
CallShape ==
    call # None =>
        /\ call.op = "insert" => found[call.dev] = "new"
        /\ call.op = "update" => found[call.dev] = "updated"

Shape == ScanShape /\ PhaseShape /\ CallShape

IInv == TypeOK /\ Shape

LEMMA InitInvariant == Init => IInv
  BY ParametersAssumption, DistinctAssumption
  DEF Init, IInv, TypeOK, Shape, ScanShape, PhaseShape, CallShape, Found, Device, Call

\* Neither TTI, nor the sync, nor a join leaves the invariant.
LEMMA NextInvariant == IInv /\ [Next]_vars => IInv'
<1> SUFFICES ASSUME IInv, [Next]_vars PROVE IInv'
  OBVIOUS
<1> USE DEF IInv, TypeOK, Shape, ScanShape, PhaseShape, CallShape
<1>1. CASE ListDevices
  BY <1>1 DEF ListDevices, Found, Call, tti, syncing
<1>2. CASE EndScan
  BY <1>2 DEF EndScan, Found, Call, tti, syncing
<1>3. CASE Finish
  BY <1>3 DEF Finish, Found, Call, tti, syncing, EndSync
<1>4. CASE ScanFails
  BY <1>4 DEF ScanFails, Found, Call, tti, syncing, EndSync, Event
<1>5. ASSUME NEW d \in Dev, Pull(d) PROVE IInv'
  <2>1. TypeOK'
    BY <1>5 DEF Pull, Found, Device, Call, tti, syncing
  <2>2. Shape'
    BY <1>5 DEF Pull, Found, Device, Call, tti, syncing
  <2> QED
    BY <2>1, <2>2
<1>6. ASSUME NEW d \in Dev, Compare(d) PROVE IInv'
  <2>1. TypeOK'
    <3>1. local' = local \/ local' = [local EXCEPT ![d].at = pulled[d].at]
      BY <1>6 DEF Compare
    <3>2. local[d] \in Device /\ pulled[d] \in Device
      BY <1>6 DEF Compare
    <3>3. local' \in [Dev -> Device \cup {None}]
      BY <3>1, <3>2 DEF Device
    <3> QED
      BY <1>6, <3>3 DEF Compare, Found, Call, tti
  <2>2. Shape'
    BY <1>6 DEF Compare, Found, Device, Call, tti, syncing
  <2> QED
    BY <2>1, <2>2
<1>7. ASSUME NEW d \in Dev, RemoveLocal(d) PROVE IInv'
  <2>1. TypeOK'
    BY <1>7 DEF RemoveLocal, Found, Call, tti, syncing, Kept, EndSync, Unmapped
  <2>2. Shape'
    BY <1>7 DEF RemoveLocal, Found, Call, tti, syncing, Kept, EndSync, Unmapped
  <2> QED
    BY <2>1, <2>2
<1>8. ASSUME NEW d \in Dev, RanDelete(d) PROVE IInv'
  <2>1. TypeOK'
    BY <1>8 DEF RanDelete, Found, Call, tti, syncing
  <2>2. Shape'
    BY <1>8 DEF RanDelete, Found, Call, tti, syncing
  <2> QED
    BY <2>1, <2>2
<1>9. ASSUME NEW d \in Dev, RanInsert(d) PROVE IInv'
  <2>1. TypeOK'
    BY <1>9 DEF RanInsert, Found, Device, Call, tti, syncing, MayAdd
  <2>2. Shape'
    BY <1>9 DEF RanInsert, Found, Device, Call, tti, syncing, MayAdd
  <2> QED
    BY <2>1, <2>2
<1>10. ASSUME NEW d \in Dev, AddLocal(d) PROVE IInv'
  <2>1. TypeOK'
    BY <1>10 DEF AddLocal, Found, Call, tti, syncing, SetDevice, Kept, Mapped
  <2>2. Shape'
    BY <1>10 DEF AddLocal, Found, Call, tti, syncing, SetDevice, Kept, Mapped
  <2> QED
    BY <2>1, <2>2
<1>11. ASSUME NEW d \in Dev, RanUpdate(d) PROVE IInv'
  <2>1. TypeOK'
    BY <1>11 DEF RanUpdate, Found, Device, Call, tti, syncing, MayUpdate, MayAdd
  <2>2. Shape'
    BY <1>11 DEF RanUpdate, Found, Device, Call, tti, syncing, MayUpdate, MayAdd
  <2> QED
    BY <2>1, <2>2
<1>12. ASSUME NEW d \in Dev, UpdateLocal(d) PROVE IInv'
  <2>1. TypeOK'
    <3>1. CASE SetDevice(d, addrMap) /\ UNCHANGED <<phase, gone>>
      BY <1>12, <3>1 DEF UpdateLocal, SetDevice, Kept, Mapped, Found, Call, tti
    <3>2. CASE SetDevice(d, Unmapped(local[d].addr)) /\ UNCHANGED <<phase, gone>>
      BY <1>12, <3>2 DEF UpdateLocal, SetDevice, Kept, Mapped, Unmapped, Found, Call, tti
    <3>3. CASE EndSync /\ UNCHANGED <<local, addrMap, held>>
      BY <1>12, <3>3 DEF UpdateLocal, EndSync, Found, Call, tti
    <3> QED
      BY <1>12, <3>1, <3>2, <3>3 DEF UpdateLocal
  <2>2. Shape'
    BY <1>12
    DEF UpdateLocal, Found, Call, tti, syncing, SetDevice, Kept, Mapped, Unmapped, EndSync
  <2> QED
    BY <2>1, <2>2
<1>13. ASSUME NEW d \in Dev, CallRefused(d) PROVE IInv'
  <2>1. TypeOK'
    BY <1>13 DEF CallRefused, Found, Call, tti, syncing, EndSync, Event
  <2>2. Shape'
    BY <1>13 DEF CallRefused, Found, Call, tti, syncing, EndSync, Event
  <2> QED
    BY <2>1, <2>2
<1>14. ASSUME NEW d \in Dev, AnswerLost(d) PROVE IInv'
  <2>1. TypeOK'
    BY <1>14 DEF AnswerLost, Found, Call, tti, syncing, EndSync, Event
  <2>2. Shape'
    BY <1>14 DEF AnswerLost, Found, Call, tti, syncing, EndSync, Event
  <2> QED
    BY <2>1, <2>2
<1>15. ASSUME NEW d \in Dev, JoinRequest(d) PROVE IInv'
  <2>1. TypeOK'
    BY <1>15 DEF JoinRequest, Found, Call, tti, syncing
  <2>2. Shape'
    BY <1>15 DEF JoinRequest, Found, Call, tti, syncing
  <2> QED
    BY <2>1, <2>2
<1>16. ASSUME NEW d \in Dev, JoinAccept(d) PROVE IInv'
  <2>1. TypeOK'
    BY <1>16 DEF JoinAccept, Found, Call, tti, syncing
  <2>2. Shape'
    BY <1>16 DEF JoinAccept, Found, Call, tti, syncing
  <2> QED
    BY <2>1, <2>2
<1>17. ASSUME NEW d \in Dev, JoinUnchanged(d) PROVE IInv'
  <2>1. TypeOK'
    BY <1>17 DEF JoinUnchanged, Found, Call, tti, syncing, EndJoin
  <2>2. Shape'
    BY <1>17 DEF JoinUnchanged, Found, Call, tti, syncing, EndJoin
  <2> QED
    BY <2>1, <2>2
<1>18. ASSUME NEW d \in Dev, JoinTellsRan(d) PROVE IInv'
  <2>1. TypeOK'
    BY <1>18 DEF JoinTellsRan, Found, Device, Call, tti, syncing, Joining
  <2>2. Shape'
    BY <1>18 DEF JoinTellsRan, Found, Device, Call, tti, syncing, Joining
  <2> QED
    BY <2>1, <2>2
<1>19. ASSUME NEW d \in Dev, JoinLocal(d) PROVE IInv'
  <2>1. TypeOK'
    <3>1. join.rec \in Device
      BY <1>19 DEF JoinLocal, Joining
    <3>2. local' \in [Dev -> Device \cup {None}]
      BY <1>19, <3>1 DEF JoinLocal
    <3>3. addrMap' \in [Addr \cup {Empty} -> Dev \cup {None}]
      BY <1>19 DEF JoinLocal, Mapped, Unmapped
    <3> QED
      BY <1>19, <3>2, <3>3 DEF JoinLocal, EndJoin, tti, syncing
  <2>2. Shape'
    BY <1>19 DEF JoinLocal, Found, Call, tti, syncing, EndJoin, Mapped, Unmapped, Joining
  <2> QED
    BY <2>1, <2>2
<1>20. ASSUME NEW d \in Dev, JoinFails(d) PROVE IInv'
  <2>1. TypeOK'
    BY <1>20 DEF JoinFails, Found, Call, tti, syncing, EndJoin, Event
  <2>2. Shape'
    BY <1>20 DEF JoinFails, Found, Call, tti, syncing, EndJoin, Event
  <2> QED
    BY <2>1, <2>2
<1>21. ASSUME NEW d \in Dev, NewSession(d) PROVE IInv'
  <2>1. TypeOK'
    <3>1. PICK a \in MayGet[d] :
             remote' = [remote EXCEPT ![d] = [addr |-> a, key |-> @.key + 1, at |-> events + 1]]
      BY <1>21 DEF NewSession
    <3>2. a \in Addr \cup {Empty}
      BY ParametersAssumption
    <3>3. remote' \in [Dev -> Device]
      BY <3>1, <3>2 DEF Device
    <3> QED
      BY <1>21, <3>3 DEF NewSession, Event, syncing
  <2>2. Shape'
    BY <1>21 DEF NewSession, Found, Call, tti, syncing, Event
  <2> QED
    BY <2>1, <2>2
<1>22. ASSUME NEW d \in Dev, Touch(d) PROVE IInv'
  <2>1. TypeOK'
    BY <1>22 DEF Touch, Found, Device, Call, tti, syncing, Event
  <2>2. Shape'
    BY <1>22 DEF Touch, Found, Device, Call, tti, syncing, Event
  <2> QED
    BY <2>1, <2>2
<1>23. ASSUME NEW d \in Dev, Tag(d) PROVE IInv'
  <2>1. TypeOK'
    BY <1>23 DEF Tag, Found, Call, tti, syncing, Event
  <2>2. Shape'
    BY <1>23 DEF Tag, Found, Call, tti, syncing, Event
  <2> QED
    BY <2>1, <2>2
<1>24. CASE UNCHANGED vars
  BY <1>24 DEF vars
<1> QED
  BY <1>1, <1>2, <1>3, <1>4, <1>5, <1>6, <1>7, <1>8, <1>9, <1>10, <1>11, <1>12, <1>13,
     <1>14, <1>15, <1>16, <1>17, <1>18, <1>19, <1>20, <1>21, <1>22, <1>23, <1>24
  DEF Next, Sync, Join

\* The state types: Spec keeps every variable within its type.
THEOREM TypeCorrect == Spec => []TypeOK
<1>1. IInv => TypeOK
  BY DEF IInv
<1> QED
  BY <1>1, InitInvariant, NextInvariant, PTL DEF Spec

-----------------------------------------------------------------------------
(* The two dictionaries, step by step *)

\* No two devices may ever get the same address.
Apart == \A d, e \in Dev : d # e => MayGet[d] \cap MayGet[e] \subseteq {Empty}

\* Wherever a session of d is on its way, its address is one of d's own.
OwnAddress ==
    \A d \in Dev :
        /\ remote[d].addr \in MayGet[d]
        /\ local[d] # None => local[d].addr \in MayGet[d]
        /\ pulled[d] # None => pulled[d].addr \in MayGet[d]

NewIsUnlisted == \A d \in Dev : found[d] = "new" => local[d] = None

\* A device is removed from the list once.
GoneIsListed ==
    \A d \in gone : local[d] \in Device \/ call = [op |-> "delete", dev |-> d]

\* A device leaves the list and its address the map.
LEMMA RemovalAgrees ==
    ASSUME IInv, MapAgrees, NEW d \in Dev, local[d] # None,
           local' = [local EXCEPT ![d] = None],
           addrMap' = Unmapped(local[d].addr)
    PROVE  MapAgrees'
<1> SUFFICES ASSUME NEW a \in Addr, NEW e \in Dev
             PROVE  addrMap'[a] = e <=> (local'[e] # None /\ local'[e].addr = a)
  BY DEF MapAgrees
<1> QED
  BY DistinctAssumption DEF IInv, TypeOK, MapAgrees, Unmapped, Device

\* An object takes its place in the list, and its address in a map from which
\* the old address, if there was another one, is gone.
LEMMA PlacementAgrees ==
    ASSUME Apart, IInv, OwnAddress, MapAgrees, NEW d \in Dev,
           NEW rec \in Device, rec.addr \in MayGet[d],
           NEW map \in [Addr \cup {Empty} -> Dev \cup {None}],
           \A a \in Addr : map[a] = IF local[d] # None /\ local[d].addr = a /\ rec.addr # a
                                    THEN None ELSE addrMap[a],
           local' = [local EXCEPT ![d] = rec],
           addrMap' = Mapped(map, d, rec)
    PROVE  MapAgrees'
<1> SUFFICES ASSUME NEW a \in Addr, NEW e \in Dev
             PROVE  addrMap'[a] = e <=> (local'[e] # None /\ local'[e].addr = a)
  BY DEF MapAgrees
<1>1. addrMap'[a] = IF a = rec.addr THEN d ELSE map[a]
  BY DistinctAssumption DEF Mapped, Device
<1>2. local'[e] = IF e = d THEN rec ELSE local[e]
  BY DEF IInv, TypeOK
<1>3. rec # None
  BY DistinctAssumption
<1>4. CASE e = d
  BY <1>1, <1>2, <1>3, <1>4, DistinctAssumption DEF MapAgrees
<1>5. CASE e # d
  <2>1. a = rec.addr => ~(local[e] # None /\ local[e].addr = a)
    BY <1>3, <1>5, DistinctAssumption DEF Apart, OwnAddress
  <2>2. local[d] # None /\ local[d].addr = a
          => ~(local[e] # None /\ local[e].addr = a)
    BY <1>5 DEF MapAgrees
  <2> QED
    BY <1>1, <1>2, <1>5, <2>1, <2>2, DistinctAssumption DEF MapAgrees
<1> QED
  BY <1>4, <1>5

\* A device to remove is there and its address in the map: no KeyError.
LEMMA RemovalPops ==
    ASSUME IInv, GoneIsListed, MapAgrees, NEW d \in Dev, RemoveLocal(d)
    PROVE  /\ local[d] \in Device /\ local[d] # None
           /\ local' = [local EXCEPT ![d] = None] /\ held' = Kept(d)
           /\ addrMap' = Unmapped(local[d].addr)
           /\ call = None /\ call' = [op |-> "delete", dev |-> d]
           /\ UNCHANGED <<tti, ran, phase, found, pulled, gone, join>>
<1>1. local[d] \in Device /\ local[d] # None /\ call = None
  BY DistinctAssumption DEF RemoveLocal, GoneIsListed, Call
<1>2. local[d].addr = Empty \/ Poppable(local[d].addr)
  BY <1>1, DistinctAssumption DEF MapAgrees, Poppable, Device
<1> QED
  BY <1>1, <1>2 DEF RemoveLocal

\* What Compare leaves of the list: the same devices with the same sessions.
LEMMA CompareKeeps ==
    ASSUME IInv, NEW d \in Dev, Compare(d)
    PROVE  /\ local[d] \in Device /\ local[d] # None /\ pulled[d] \in Device
           /\ local' \in [Dev -> Device \cup {None}]
           /\ \A e \in Dev : /\ local'[e] # None <=> local[e] # None
                             /\ local[e] # None => /\ local'[e].addr = local[e].addr
                                                   /\ local'[e].key = local[e].key
           /\ local' = local \/ local' = [local EXCEPT ![d] = pulled[d]]
<1>1. local[d] \in Device /\ local[d] # None /\ pulled[d] \in Device
  BY DistinctAssumption DEF Compare, IInv, Shape, ScanShape
<1>2. CASE UNCHANGED local
  BY <1>1, <1>2 DEF IInv, TypeOK
<1>3. CASE Same(local[d], pulled[d]) /\ local' = [local EXCEPT ![d].at = pulled[d].at]
  <2>1. [local[d] EXCEPT !.at = pulled[d].at] = pulled[d]
    BY <1>1, <1>3 DEF Same, Device
  <2>2. local' = [local EXCEPT ![d] = pulled[d]]
    BY <1>3, <2>1
  <2>3. \A e \in Dev : local'[e] = IF e = d THEN pulled[d] ELSE local[e]
    BY <2>2 DEF IInv, TypeOK
  <2>4. local' \in [Dev -> Device \cup {None}]
    BY <1>1, <2>2 DEF IInv, TypeOK
  <2>5. pulled[d] # None
    BY <1>1, DistinctAssumption
  <2>6. pulled[d].addr = local[d].addr /\ pulled[d].key = local[d].key
    BY <1>3 DEF Same
  <2> HIDE DEF Compare
  <2> QED
    BY <1>1, <2>2, <2>3, <2>4, <2>5, <2>6
<1> QED
  BY <1>2, <1>3 DEF Compare

\* What set_dev does for a new and for an updated device.
LEMMA AddFacts ==
    ASSUME IInv, NEW d \in Dev, AddLocal(d)
    PROVE  /\ found[d] = "new" /\ pulled[d] \in Device /\ pulled[d] # None
           /\ call = [op |-> "insert", dev |-> d]
           /\ SetDevice(d, addrMap) /\ UNCHANGED <<tti, ran, phase, gone, join, events>>
BY DistinctAssumption DEF AddLocal, IInv, Shape, ScanShape, CallShape, Call

LEMMA UpdateFacts ==
    ASSUME IInv, NEW d \in Dev, UpdateLocal(d)
    PROVE  /\ found[d] = "updated" /\ local[d] \in Device /\ local[d] # None
           /\ pulled[d] \in Device /\ pulled[d] # None
           /\ UNCHANGED <<tti, ran, join, events>>
           /\ \/ call = [op |-> "update", dev |-> d]
              \/ call = None /\ gone = {}
           /\ \/ EndSync /\ UNCHANGED <<local, addrMap, held>>
              \/ \E map \in [Addr \cup {Empty} -> Dev \cup {None}] :
                    /\ SetDevice(d, map) /\ UNCHANGED <<phase, gone>>
                    /\ \A a \in Addr : map[a] = IF local[d] # None /\ local[d].addr = a
                                                   /\ pulled[d].addr # a
                                                THEN None ELSE addrMap[a]
<1>1. /\ found[d] = "updated" /\ local[d] \in Device /\ local[d] # None
      /\ pulled[d] \in Device /\ pulled[d] # None
      /\ UNCHANGED <<tti, ran, join, events>>
      /\ \/ call = [op |-> "update", dev |-> d]
         \/ call = None /\ gone = {}
  BY DistinctAssumption
  DEF UpdateLocal, MayUpdate, MayAdd, IInv, Shape, ScanShape, CallShape, Call
<1>2. addrMap \in [Addr \cup {Empty} -> Dev \cup {None}]
  BY DEF IInv, TypeOK
<1>3. Unmapped(local[d].addr) \in [Addr \cup {Empty} -> Dev \cup {None}]
  BY <1>2 DEF Unmapped
<1>4. local[d].addr # pulled[d].addr =>
        \A a \in Addr : Unmapped(local[d].addr)[a] =
            IF local[d] # None /\ local[d].addr = a /\ pulled[d].addr # a
            THEN None ELSE addrMap[a]
  BY <1>1, <1>2 DEF Unmapped
<1> QED
  BY <1>1, <1>2, <1>3, <1>4 DEF UpdateLocal

\* No step but one of a join can part the two dictionaries.
LEMMA MapStep ==
    ASSUME Apart, IInv, OwnAddress, NewIsUnlisted, GoneIsListed, MapAgrees,
           [Next]_vars, \A d \in Dev : ~JoinLocal(d)
    PROVE  MapAgrees'
<1>1. ASSUME NEW d \in Dev, Compare(d)
      PROVE  MapAgrees'
  BY <1>1, CompareKeeps DEF Compare, MapAgrees
<1>2. ASSUME NEW d \in Dev, RemoveLocal(d)
      PROVE  MapAgrees'
  BY <1>2, RemovalPops, RemovalAgrees
<1>3. ASSUME NEW d \in Dev, AddLocal(d)
      PROVE  MapAgrees'
  <2>1. local[d] = None
    BY <1>3, AddFacts DEF NewIsUnlisted
  <2>2. addrMap \in [Addr \cup {Empty} -> Dev \cup {None}]
    BY DEF IInv, TypeOK
  <2>3. /\ pulled[d] \in Device /\ pulled[d].addr \in MayGet[d]
        /\ local' = [local EXCEPT ![d] = pulled[d]]
        /\ addrMap' = Mapped(addrMap, d, pulled[d])
    BY <1>3, AddFacts DEF SetDevice, OwnAddress
  <2>4. \A a \in Addr : addrMap[a] = IF local[d] # None /\ local[d].addr = a
                                         /\ pulled[d].addr # a
                                      THEN None ELSE addrMap[a]
    BY <2>1
  <2> QED
    BY <1>3, <2>2, <2>3, <2>4, PlacementAgrees
<1>4. ASSUME NEW d \in Dev, UpdateLocal(d)
      PROVE  MapAgrees'
  <2>1. CASE EndSync /\ UNCHANGED <<local, addrMap, held>>
    BY <2>1 DEF MapAgrees
  <2>2. ASSUME NEW map \in [Addr \cup {Empty} -> Dev \cup {None}], SetDevice(d, map),
               \A a \in Addr : map[a] = IF local[d] # None /\ local[d].addr = a
                                           /\ pulled[d].addr # a
                                        THEN None ELSE addrMap[a]
        PROVE  MapAgrees'
    <3>1. /\ pulled[d] \in Device /\ pulled[d].addr \in MayGet[d]
          /\ local' = [local EXCEPT ![d] = pulled[d]]
          /\ addrMap' = Mapped(map, d, pulled[d])
      BY <1>4, <2>2, UpdateFacts DEF SetDevice, OwnAddress
    <3> QED
      BY <1>4, <2>2, <3>1, PlacementAgrees
  <2> QED
    BY <1>4, <2>1, <2>2, UpdateFacts
<1>5. CASE ListDevices \/ EndScan \/ Finish \/ ScanFails \/ UNCHANGED vars
  BY <1>5 DEF ListDevices, EndScan, Finish, ScanFails, vars, MapAgrees
<1>6. ASSUME NEW d \in Dev, Pull(d) \/ RanDelete(d) \/ RanInsert(d) \/ RanUpdate(d)
                            \/ CallRefused(d) \/ AnswerLost(d)
      PROVE  MapAgrees'
  BY <1>6 DEF Pull, RanDelete, RanInsert, RanUpdate, CallRefused, AnswerLost, MapAgrees
<1>7. ASSUME NEW d \in Dev, JoinRequest(d) \/ JoinAccept(d) \/ JoinUnchanged(d)
                            \/ JoinTellsRan(d) \/ JoinFails(d)
      PROVE  MapAgrees'
  BY <1>7 DEF JoinRequest, JoinAccept, JoinUnchanged, JoinTellsRan, JoinFails, MapAgrees
<1>8. ASSUME NEW d \in Dev, NewSession(d) \/ Touch(d) \/ Tag(d)
      PROVE  MapAgrees'
  BY <1>8 DEF NewSession, Touch, Tag, MapAgrees
<1> QED
  BY <1>1, <1>2, <1>3, <1>4, <1>5, <1>6, <1>7, <1>8 DEF Next, Sync, Join

LEMMA GoneStep ==
    ASSUME IInv, GoneIsListed, MapAgrees, [Next]_vars
    PROVE  GoneIsListed'
<1>1. IInv'
  BY NextInvariant
<1> USE DEF GoneIsListed
<1>2. CASE ListDevices
  BY <1>1, <1>2 DEF ListDevices, IInv, Shape, PhaseShape
<1>3. CASE EndScan
  BY <1>3 DEF EndScan, IInv, TypeOK
<1>4. CASE Finish \/ ScanFails
  BY <1>4 DEF Finish, ScanFails, EndSync
<1>5. ASSUME NEW d \in Dev, Compare(d)
      PROVE  GoneIsListed'
  BY <1>5, CompareKeeps DEF Compare, IInv, TypeOK
<1>6. ASSUME NEW d \in Dev, RemoveLocal(d)
      PROVE  GoneIsListed'
  BY <1>6, RemovalPops, DistinctAssumption DEF IInv, TypeOK, Call
<1>7. ASSUME NEW d \in Dev, AddLocal(d)
      PROVE  GoneIsListed'
  BY <1>7, AddFacts DEF SetDevice, IInv, TypeOK
<1>8. ASSUME NEW d \in Dev, UpdateLocal(d)
      PROVE  GoneIsListed'
  <2>1. CASE EndSync
    BY <2>1 DEF EndSync
  <2>2. ASSUME NEW map, SetDevice(d, map), UNCHANGED gone
        PROVE  GoneIsListed'
    <3>1. \A e \in Dev : call # [op |-> "delete", dev |-> e] \/ gone = {}
      BY <1>8, UpdateFacts
    <3>2. \A e \in Dev : local'[e] = IF e = d THEN pulled[d] ELSE local[e]
      BY <2>2 DEF SetDevice, IInv, TypeOK
    <3>3. pulled[d] \in Device
      BY <1>8, UpdateFacts
    <3> QED
      BY <2>2, <3>1, <3>2, <3>3 DEF IInv, TypeOK
  <2> QED
    BY <1>8, <2>1, <2>2, UpdateFacts
<1>9. ASSUME NEW d \in Dev, JoinLocal(d)
      PROVE  GoneIsListed'
  <2>1. join.rec \in Device
    BY <1>9 DEF JoinLocal, Joining, IInv, TypeOK
  <2> QED
    BY <1>9, <2>1 DEF JoinLocal, IInv, TypeOK, syncing
<1>10. ASSUME NEW d \in Dev, Pull(d) \/ RanDelete(d) \/ RanInsert(d) \/ RanUpdate(d)
                             \/ CallRefused(d) \/ AnswerLost(d)
       PROVE  GoneIsListed'
  BY <1>10, DistinctAssumption DEF Pull, RanDelete, RanInsert, RanUpdate, MayAdd, MayUpdate,
       CallRefused, AnswerLost, EndSync, Call, IInv, TypeOK
<1>11. ASSUME NEW d \in Dev, JoinRequest(d) \/ JoinAccept(d) \/ JoinUnchanged(d)
                             \/ JoinTellsRan(d) \/ JoinFails(d)
       PROVE  GoneIsListed'
  BY <1>11 DEF JoinRequest, JoinAccept, JoinUnchanged, JoinTellsRan, JoinFails, syncing
<1>12. ASSUME NEW d \in Dev, NewSession(d) \/ Touch(d) \/ Tag(d)
       PROVE  GoneIsListed'
  BY <1>12 DEF NewSession, Touch, Tag, syncing
<1>13. CASE UNCHANGED vars
  BY <1>13 DEF vars, syncing
<1> QED
  BY <1>2, <1>3, <1>4, <1>5, <1>6, <1>7, <1>8, <1>9, <1>10, <1>11, <1>12, <1>13
  DEF Next, Sync, Join

-----------------------------------------------------------------------------
(* The address map of a bridge that no device joins through *)

Alone == ~Joins /\ Apart

NoJoin == join = None /\ \A d \in Dev : held[d] = None

AInv == IInv /\ NoJoin /\ OwnAddress /\ NewIsUnlisted /\ GoneIsListed /\ MapAgrees

LEMMA AloneInit == ASSUME Alone PROVE Init => AInv
  BY InitInvariant, DistinctAssumption
  DEF Init, AInv, NoJoin, OwnAddress, NewIsUnlisted, GoneIsListed, MapAgrees

LEMMA AloneStep ==
    ASSUME Alone, AInv, [Next]_vars
    PROVE  NoJoin' /\ OwnAddress' /\ NewIsUnlisted'
<1>0. IInv /\ IInv' /\ GoneIsListed /\ MapAgrees
  BY NextInvariant DEF AInv
<1> USE DEF AInv, NoJoin, OwnAddress, NewIsUnlisted
<1>1. ASSUME NEW d \in Dev
      PROVE  ~(JoinRequest(d) \/ JoinAccept(d) \/ Join(d) \/ JoinFails(d))
  BY DEF Alone, JoinRequest, JoinAccept, Join, JoinUnchanged, JoinTellsRan, JoinLocal,
         JoinFails, Joining
<1> DEFINE P == NoJoin' /\ OwnAddress' /\ NewIsUnlisted'
<1>2. CASE ListDevices \/ EndScan \/ Finish \/ ScanFails
  BY <1>2 DEF ListDevices, EndScan, Finish, ScanFails, EndSync, tti
<1>3. ASSUME NEW d \in Dev, Pull(d)
      PROVE  P
  BY <1>0, <1>3 DEF Pull, IInv, TypeOK, tti
<1>4. ASSUME NEW d \in Dev, Compare(d)
      PROVE  P
  BY <1>0, <1>4, CompareKeeps DEF Compare, IInv, TypeOK, tti
<1>5. ASSUME NEW d \in Dev, RemoveLocal(d)
      PROVE  P
  BY <1>0, <1>5, RemovalPops, DistinctAssumption DEF Kept, IInv, TypeOK, tti
<1>6. ASSUME NEW d \in Dev, RanDelete(d) \/ RanInsert(d) \/ RanUpdate(d)
                            \/ CallRefused(d) \/ AnswerLost(d)
      PROVE  P
  BY <1>6 DEF RanDelete, RanInsert, RanUpdate, CallRefused, AnswerLost, EndSync, tti
<1>7. ASSUME NEW d \in Dev, NEW map, SetDevice(d, map), UNCHANGED <<tti, join>>,
             pulled[d] # None
      PROVE  P
  BY <1>0, <1>7, DistinctAssumption DEF SetDevice, Kept, IInv, TypeOK, tti
<1>8. ASSUME NEW d \in Dev, AddLocal(d)
      PROVE  P
  BY <1>0, <1>7, <1>8, AddFacts
<1>9. ASSUME NEW d \in Dev, UpdateLocal(d)
      PROVE  P
  <2>1. CASE EndSync /\ UNCHANGED <<local, addrMap, held>>
    BY <1>9, <2>1 DEF UpdateLocal, EndSync, tti
  <2> QED
    BY <1>0, <1>7, <1>9, <2>1, UpdateFacts
<1>10. ASSUME NEW d \in Dev, NewSession(d)
       PROVE  P
  <2>1. PICK a \in MayGet[d] :
           remote' = [remote EXCEPT ![d] = [addr |-> a, key |-> @.key + 1, at |-> events + 1]]
    BY <1>10 DEF NewSession
  <2>2. \A e \in Dev : remote'[e].addr \in MayGet[e]
    BY <1>0, <2>1 DEF IInv, TypeOK
  <2> QED
    BY <1>10, <2>2 DEF NewSession, syncing
<1>11. ASSUME NEW d \in Dev, Touch(d)
       PROVE  P
  <2>1. \A e \in Dev : remote'[e].addr = remote[e].addr
    BY <1>0, <1>11 DEF Touch, IInv, TypeOK, Device
  <2> QED
    BY <1>11, <2>1 DEF Touch, syncing
<1>12. ASSUME NEW d \in Dev, Tag(d)
       PROVE  P
  BY <1>12 DEF Tag, syncing
<1>13. CASE UNCHANGED vars
  BY <1>13 DEF vars, tti, syncing
<1> QED
  BY <1>1, <1>2, <1>3, <1>4, <1>5, <1>6, <1>8, <1>9, <1>10, <1>11, <1>12, <1>13
  DEF Next, Sync

LEMMA AloneNext == ASSUME Alone PROVE AInv /\ [Next]_vars => AInv'
<1> SUFFICES ASSUME AInv, [Next]_vars PROVE AInv'
  OBVIOUS
<1>1. \A d \in Dev : ~JoinLocal(d)
  BY DEF AInv, NoJoin, JoinLocal, Joining
<1> QED
  BY <1>1, NextInvariant, GoneStep, MapStep, AloneStep DEF AInv, Alone

\* MapAgrees, on which the lookup of an uplink's device by its address rests:
\* an address leads to a device exactly when the listed device has it, across
\* every await of the sync and after every call that raises.
THEOREM AloneMapAgrees == ASSUME Alone PROVE Spec => []MapAgrees
<1>1. AInv => MapAgrees
  BY DEF AInv
<1> QED
  BY <1>1, AloneInit, AloneNext, PTL DEF Spec
-----------------------------------------------------------------------------
(* A list whose devices stay *)

\* With no tag ever removed, what is listed or on its way into the list is
\* tagged, and the sync finds nothing to remove: it never calls delete, and a
\* join, which needs a listed device, never lists one again.
Stays ==
    /\ gone = {} /\ (call # None => call.op # "delete")
    /\ \A d \in Dev :
          /\ local[d] # None => d \in tagged /\ ran[d] # None
          /\ held[d] # None \/ Joining(d) => local[d] # None
          /\ found[d] # "unlisted" => d \in tagged
          /\ found[d] = "new" => local[d] = None
          /\ phase # "idle" /\ local[d] # None => found[d] # "unlisted"
          /\ call = [op |-> "insert", dev |-> d] => ran[d] # None

SInv == IInv /\ Stays

LEMMA StaysInit == Init => SInv
<1> SUFFICES ASSUME Init PROVE SInv
  OBVIOUS
<1>1. \A d \in Dev : /\ local[d] = None /\ held[d] = None /\ found[d] = "unlisted"
                     /\ None # [op |-> "insert", dev |-> d]
  BY DistinctAssumption DEF Init, Call
<1> QED BY <1>1, InitInvariant DEF Init, SInv, Stays, Joining

LEMMA StaysNext == ASSUME "remove" \notin Tags PROVE SInv /\ [Next]_vars => SInv'
<1> SUFFICES ASSUME SInv, [Next]_vars PROVE Stays'
  BY NextInvariant DEF SInv
<1>0. IInv /\ Stays /\ None \notin Call /\ None \notin Device /\ None \notin Addr \cup {Empty}
      /\ Listed # None /\ \A d \in Dev : None # [op |-> "insert", dev |-> d]
  BY DistinctAssumption DEF SInv, Call
<1> USE DEF Stays, Joining
<1>1. CASE ListDevices
  BY <1>0, <1>1 DEF ListDevices, IInv, TypeOK, tti
<1>2. CASE EndScan
  <2>1. ASSUME NEW d \in Dev, local[d] # None
        PROVE  found[d] \in {"synced", "updated"}
    BY <1>0, <1>2, <2>1 DEF EndScan, IInv, TypeOK, Found
  <2> QED BY <1>0, <1>2, <2>1 DEF EndScan, tti
<1>3. CASE Finish \/ ScanFails
  BY <1>0, <1>3 DEF Finish, ScanFails, EndSync, tti
<1>4. ASSUME NEW d \in Dev, Pull(d) PROVE Stays'
  BY <1>0, <1>4 DEF Pull, IInv, TypeOK, tti
<1>5. ASSUME NEW d \in Dev, Compare(d) PROVE Stays'
  <2>1. local' = local \/ local' = [local EXCEPT ![d].at = pulled[d].at]
    BY <1>5 DEF Compare
  <2>2. local[d] \in Device /\ pulled[d] \in Device
    BY <1>0, <1>5 DEF Compare, IInv, Shape, ScanShape
  <2>3. local[d] # None /\ \A e \in Dev : local'[e] # None <=> local[e] # None
    BY <1>0, <2>1, <2>2 DEF IInv, TypeOK, Device
  <2> QED BY <1>0, <1>5, <2>3 DEF Compare, IInv, TypeOK, tti
<1>6. ASSUME NEW d \in Dev PROVE ~RemoveLocal(d) /\ ~RanDelete(d)
  BY <1>0 DEF RemoveLocal, RanDelete, Call
<1>7. ASSUME NEW d \in Dev, RanInsert(d) PROVE Stays'
  <2>1. pulled[d].addr # None
    BY <1>0, <1>7 DEF RanInsert, IInv, Shape, ScanShape, Device
  <2> QED BY <1>0, <1>7, <2>1 DEF RanInsert, IInv, TypeOK, tti
<1>8. ASSUME NEW d \in Dev, AddLocal(d) \/ (UpdateLocal(d) /\ call' = None /\ found'[d] = "synced")
      PROVE  pulled[d] \in Device
  BY <1>0, <1>8 DEF AddLocal, UpdateLocal, IInv, Shape, ScanShape, CallShape, Call
<1>9. ASSUME NEW d \in Dev, NEW map, SetDevice(d, map), UNCHANGED <<tti, ran, phase, gone, join>>,
             found[d] \in {"new", "updated"}, pulled[d] \in Device, ran[d] # None
      PROVE  Stays'
  <2>1. \A e \in Dev : local'[e] = IF e = d THEN pulled[d] ELSE local[e]
    BY <1>0, <1>9 DEF SetDevice, IInv, TypeOK
  <2>2. \A e \in Dev : held'[e] # None => held[e] # None
    BY <1>0, <1>9 DEF SetDevice, Kept, IInv, TypeOK
  <2> QED BY <1>0, <1>9, <2>1, <2>2 DEF SetDevice, IInv, TypeOK, tti
<1>10. ASSUME NEW d \in Dev, AddLocal(d) PROVE Stays'
  <2>1. found[d] = "new" /\ ran[d] # None /\ pulled[d] \in Device
    BY <1>0, <1>8, <1>10 DEF AddLocal, IInv, Shape, CallShape, Call
  <2> QED BY <1>9, <1>10, <2>1 DEF AddLocal
<1>11. ASSUME NEW d \in Dev, RanUpdate(d) PROVE Stays'
  <2>1. pulled[d].addr # None
    BY <1>0, <1>11 DEF RanUpdate, IInv, Shape, ScanShape, Device
  <2> QED BY <1>0, <1>11, <2>1 DEF RanUpdate, IInv, TypeOK, tti
<1>12. ASSUME NEW d \in Dev, UpdateLocal(d) PROVE Stays'
  <2>1. /\ found[d] = "updated" /\ local[d] \in Device /\ pulled[d] \in Device
        /\ ran[d] # None
    BY <1>0, <1>12 DEF UpdateLocal, IInv, Shape, ScanShape, CallShape, Call
  <2>2. CASE EndSync /\ UNCHANGED <<local, addrMap, held>>
    BY <1>0, <1>12, <2>2 DEF UpdateLocal, EndSync, tti
  <2>3. CASE \E map : SetDevice(d, map) /\ UNCHANGED <<phase, gone>>
    BY <1>9, <1>12, <2>1, <2>3 DEF UpdateLocal
  <2> QED BY <1>12, <2>2, <2>3 DEF UpdateLocal
<1>13. ASSUME NEW d \in Dev, CallRefused(d) \/ AnswerLost(d) PROVE Stays'
  BY <1>0, <1>13 DEF CallRefused, AnswerLost, EndSync, tti
<1>14. ASSUME NEW d \in Dev, JoinRequest(d) \/ JoinAccept(d) PROVE Stays'
  BY <1>0, <1>14 DEF JoinRequest, JoinAccept, IInv, TypeOK, tti, syncing
<1>15. ASSUME NEW d \in Dev, JoinUnchanged(d) \/ JoinFails(d) PROVE Stays'
  BY <1>0, <1>15 DEF JoinUnchanged, JoinFails, EndJoin, IInv, TypeOK, tti, syncing
<1>16. ASSUME NEW d \in Dev, JoinTellsRan(d) PROVE Stays'
  <2>1. join.rec.addr # None /\ join # None /\ join'.dev = join.dev
    BY <1>0, <1>16 DEF JoinTellsRan, IInv, TypeOK, Device
  <2> QED BY <1>0, <1>16, <2>1 DEF JoinTellsRan, IInv, TypeOK, tti, syncing
<1>17. ASSUME NEW d \in Dev, JoinLocal(d) PROVE Stays'
  <2>1. local[d] # None /\ join.rec \in Device
    BY <1>0, <1>17 DEF JoinLocal, IInv, TypeOK
  <2>2. \A e \in Dev : local'[e] # None <=> local[e] # None
    BY <1>0, <1>17, <2>1 DEF JoinLocal, IInv, TypeOK
  <2> QED BY <1>0, <1>17, <2>2 DEF JoinLocal, EndJoin, IInv, TypeOK, tti, syncing
<1>18. ASSUME NEW d \in Dev, NewSession(d) \/ Touch(d) \/ Tag(d) PROVE Stays'
  BY <1>0, <1>18 DEF NewSession, Touch, Tag, syncing
<1>19. CASE UNCHANGED vars
  BY <1>0, <1>19 DEF vars
<1> QED BY <1>1, <1>2, <1>3, <1>4, <1>5, <1>6, <1>7, <1>10, <1>11, <1>12, <1>13, <1>14, <1>15,
           <1>16, <1>17, <1>18, <1>19 DEF Next, Sync, Join

\* While devices do not leave, one is listed only after the RAN took it, whatever
\* calls fail and however joins cross the sync.
THEOREM StayingListedIsRouted ==
    ASSUME "remove" \notin Tags PROVE Spec => []ListedIsRouted
<1>1. SInv => ListedIsRouted
  BY DEF SInv, Stays, ListedIsRouted
<1> QED BY <1>1, StaysInit, StaysNext, PTL DEF Spec
-----------------------------------------------------------------------------
(* Joins across a running sync *)

\* What the sync takes for new is not in the list, and no join is about it.
Fresh ==
    \A d \in Dev : found[d] = "new" => local[d] = None /\ held[d] = None /\ ~Joining(d)

\* With no tag ever set again, a device that left the list while a join holds it
\* is not tagged, and no sync finds it.
Leaves ==
    \A d \in Dev :
        /\ Joining(d) => held[d] # None
        /\ held[d] = Listed => local[d] # None
        /\ phase # "idle" /\ found[d] = "unlisted" => d \notin tagged
        /\ d \in gone => found[d] = "unlisted"
        /\ phase = "idle" => found[d] = "unlisted"
        /\ local[d] = None /\ held[d] # None => d \notin tagged /\ found[d] = "unlisted"

LInv == IInv /\ Fresh /\ Leaves

LEMMA LeavesInit == Init => LInv
<1> SUFFICES ASSUME Init PROVE LInv
  OBVIOUS
<1>1. \A d \in Dev : local[d] = None /\ held[d] = None /\ found[d] = "unlisted"
                     /\ None # Listed
  BY DistinctAssumption DEF Init
<1>2. join = None /\ phase = "idle" /\ gone = {}
  BY DEF Init
<1> QED BY <1>1, <1>2, InitInvariant DEF LInv, Fresh, Leaves, Joining

LEMMA LeavesNext == ASSUME "set" \notin Tags PROVE LInv /\ [Next]_vars => LInv'
<1> SUFFICES ASSUME LInv, [Next]_vars PROVE Fresh' /\ Leaves'
  BY NextInvariant DEF LInv
<1>0. IInv /\ Fresh /\ Leaves /\ Listed # None /\ None \notin Device
  BY DistinctAssumption DEF LInv
<1> DEFINE P == Fresh' /\ Leaves'
<1> USE DEF Fresh, Leaves, Joining
<1>1. CASE ListDevices
  BY <1>0, <1>1 DEF ListDevices, IInv, TypeOK, Shape, PhaseShape, tti
<1>2. CASE EndScan
  BY <1>0, <1>2 DEF EndScan, IInv, TypeOK, Found, tti
<1>3. CASE Finish \/ ScanFails
  BY <1>0, <1>3 DEF Finish, ScanFails, EndSync, IInv, Shape, PhaseShape, tti
<1>4. ASSUME NEW d \in Dev, Pull(d) PROVE P
  BY <1>0, <1>4 DEF Pull, IInv, TypeOK, tti
<1>5. ASSUME NEW d \in Dev, Compare(d) PROVE P
  BY <1>0, <1>5, CompareKeeps DEF Compare, IInv, TypeOK, tti
<1>6. ASSUME NEW d \in Dev, RemoveLocal(d) PROVE P
  <2>1. /\ d \in gone /\ phase = "apply" /\ UNCHANGED <<tti, ran, join, events>>
        /\ found[d] = "unlisted" /\ d \notin tagged
    BY <1>0, <1>6 DEF RemoveLocal
  <2>2. \A e \in Dev : local'[e] = IF e = d THEN None ELSE local[e]
    BY <1>0, <1>6 DEF RemoveLocal, IInv, TypeOK
  <2>3. \A e \in Dev : held'[e] = IF e = d /\ held[d] = Listed THEN local[d] ELSE held[e]
    BY <1>0, <1>6 DEF RemoveLocal, Kept, IInv, TypeOK
  <2>4. held[d] = Listed => local[d] # None /\ local[d] # Listed
    BY <1>0, DistinctAssumption DEF IInv, TypeOK
  <2>5. UNCHANGED <<phase, found, gone>> \/ EndSync
    BY <1>6 DEF RemoveLocal
  <2> QED BY <1>0, <2>1, <2>2, <2>3, <2>4, <2>5 DEF EndSync, tti
<1>7. ASSUME NEW d \in Dev, RanDelete(d) \/ RanInsert(d) \/ RanUpdate(d) PROVE P
  BY <1>0, <1>7 DEF RanDelete, RanInsert, RanUpdate, tti
<1>8. ASSUME NEW d \in Dev, NEW map, SetDevice(d, map), UNCHANGED <<tti, phase, gone, join>>,
             found[d] \in {"new", "updated"}, pulled[d] # None,
             held[d] = Listed => local[d] # None
      PROVE  P
  <2>1. \A e \in Dev : local'[e] = IF e = d THEN pulled[d] ELSE local[e]
    BY <1>0, <1>8 DEF SetDevice, IInv, TypeOK
  <2>2. \A e \in Dev : held'[e] = IF e = d /\ held[d] = Listed THEN local[d] ELSE held[e]
    BY <1>0, <1>8 DEF SetDevice, Kept, IInv, TypeOK
  <2>3. \A e \in Dev : found'[e] = IF e = d THEN "synced" ELSE found[e]
    BY <1>0, <1>8 DEF SetDevice, IInv, TypeOK
  <2>4. local[d] # Listed
    BY <1>0, DistinctAssumption DEF IInv, TypeOK
  <2> QED BY <1>0, <1>8, <2>1, <2>2, <2>3, <2>4 DEF tti
<1>9. ASSUME NEW d \in Dev, AddLocal(d) PROVE P
  BY <1>0, <1>8, <1>9, AddFacts
<1>10. ASSUME NEW d \in Dev, UpdateLocal(d) PROVE P
  <2>1. CASE EndSync /\ UNCHANGED <<local, addrMap, held>>
    BY <1>0, <1>10, <2>1, UpdateFacts DEF EndSync, tti
  <2> QED BY <1>0, <1>8, <1>10, <2>1, UpdateFacts
<1>11. ASSUME NEW d \in Dev, CallRefused(d) \/ AnswerLost(d) PROVE P
  BY <1>0, <1>11 DEF CallRefused, AnswerLost, EndSync, tti
<1>12. ASSUME NEW d \in Dev, JoinRequest(d) \/ JoinAccept(d) PROVE P
  BY <1>0, <1>12 DEF JoinRequest, JoinAccept, IInv, TypeOK, tti, syncing
<1>13. ASSUME NEW d \in Dev, JoinUnchanged(d) \/ JoinFails(d) PROVE P
  BY <1>0, <1>13 DEF JoinUnchanged, JoinFails, EndJoin, IInv, TypeOK, tti, syncing
<1>14. ASSUME NEW d \in Dev, JoinTellsRan(d) PROVE P
  <2>1. join # None /\ join'.dev = join.dev
    BY <1>0, <1>14 DEF JoinTellsRan, IInv, TypeOK
  <2> QED BY <1>0, <1>14, <2>1 DEF JoinTellsRan, tti, syncing
<1>15. ASSUME NEW d \in Dev, JoinLocal(d) PROVE P
  <2>1. join.rec \in Device /\ join.dev = d
    BY <1>0, <1>15 DEF JoinLocal, IInv, TypeOK
  <2>2. \A e \in Dev : local[e] # None => local'[e] # None
    BY <1>0, <1>15, <2>1 DEF JoinLocal, IInv, TypeOK
  <2>3. \A e \in Dev : e # d => local'[e] = local[e]
    BY <1>0, <1>15 DEF JoinLocal, IInv, TypeOK
  <2>4. held'[d] = None /\ join' = None /\ \A e \in Dev : e # d => held'[e] = held[e]
    BY <1>0, <1>15 DEF JoinLocal, EndJoin, IInv, TypeOK
  <2>5. found[d] # "new"
    BY <1>0, <1>15, <2>1 DEF JoinLocal
  <2> QED BY <1>0, <1>15, <2>1, <2>2, <2>3, <2>4, <2>5 DEF JoinLocal, tti, syncing
<1>16. ASSUME NEW d \in Dev, NewSession(d) \/ Touch(d) \/ Tag(d) PROVE P
  <2>1. tagged' \subseteq tagged
    BY <1>16 DEF NewSession, Touch, Tag
  <2> QED BY <1>0, <1>16, <2>1 DEF NewSession, Touch, Tag, syncing
<1>17. CASE UNCHANGED vars
  BY <1>0, <1>17 DEF vars, tti, syncing
<1> QED BY <1>1, <1>2, <1>3, <1>4, <1>5, <1>6, <1>7, <1>9, <1>10, <1>11, <1>12, <1>13, <1>14,
           <1>15, <1>16, <1>17 DEF Next, Sync, Join

LEMMA FreshAlways == ASSUME ~({"set", "remove"} \subseteq Tags) PROVE Spec => []Fresh
<1>1. CASE "remove" \notin Tags
  <2>1. SInv => Fresh
    BY DEF SInv, Stays, Fresh
  <2> QED BY <1>1, <2>1, StaysInit, StaysNext, PTL DEF Spec
<1>2. CASE "set" \notin Tags
  <2>1. LInv => Fresh
    BY DEF LInv
  <2> QED BY <1>2, <2>1, LeavesInit, LeavesNext, PTL DEF Spec
<1> QED BY <1>1, <1>2
\* The sessions of d the bridge has objects of, beside the one at TTI.
Known(d, r) ==
    \/ r = remote[d]
    \/ local[d] # None /\ r = local[d]
    \/ pulled[d] # None /\ r = pulled[d]
    \/ held[d] \notin {Listed, None} /\ r = held[d]
    \/ Joining(d) /\ r = join.rec

\* A later session has a later time, and one session one address.
Sessions ==
    \A d \in Dev :
        /\ remote[d].key <= MaxKey
        /\ \A r \in Device : Known(d, r) =>
              r.key <= remote[d].key /\ r.at <= events /\ r.addr \in MayGet[d]
        /\ \A r, s \in Device : Known(d, r) /\ Known(d, s) =>
              /\ r.key = s.key => r.addr = s.addr
              /\ r.key < s.key => r.at < s.at

\* With one new session at most: what replaces a listed object is of that session,
\* so that a join whose object was replaced finds its session listed already.
HeldOldAt(d) ==
    /\ found[d] = "updated" => pulled[d].key = 1
    /\ local[d] # None /\ held[d] \notin {Listed, None} => local[d].key = 1
    /\ held[d] = Listed => local[d] # None
    /\ Joining(d) =>
          /\ held[d] # None /\ HeldContent(d).key <= join.rec.key
          /\ join.stage = "told" => HeldContent(d).key < join.rec.key

HeldOld == \A d \in Dev : HeldOldAt(d)

JInv == IInv /\ Sessions /\ HeldOld /\ GoneIsListed /\ MapAgrees

\* Every known session is a Device.
LEMMA KnownType ==
    ASSUME IInv, NEW d \in Dev
    PROVE  /\ remote[d] \in Device
           /\ local[d] # None => local[d] \in Device
           /\ pulled[d] # None => pulled[d] \in Device
           /\ held[d] \notin {Listed, None} => held[d] \in Device
           /\ Joining(d) => join.rec \in Device /\ join.dev = d /\ join.stage \in {"pulled", "told"}
BY DEF IInv, TypeOK, Joining

LEMMA JoinedInit == Init => JInv
<1> SUFFICES ASSUME Init PROVE JInv
  OBVIOUS
<1>1. \A d \in Dev : /\ local[d] = None /\ held[d] = None /\ found[d] = "unlisted"
                     /\ pulled[d] = None /\ None # Listed
  BY DistinctAssumption DEF Init
<1>2. join = None /\ gone = {} /\ events = 0
  BY DEF Init
<1>3. PICK a \in [Dev -> Addr \cup {Empty}] :
         /\ \A d \in Dev : a[d] \in MayGet[d]
         /\ remote = [d \in Dev |-> [addr |-> a[d], key |-> 0, at |-> 0]]
  BY DEF Init
<1>4. \A d \in Dev : remote[d].addr \in MayGet[d] /\ remote[d].key = 0 /\ remote[d].at = 0
  BY <1>3
<1>5. \A d \in Dev : \A r : Known(d, r) => r = remote[d]
  BY <1>1, <1>2 DEF Known, Joining
<1>6. Sessions
  BY <1>2, <1>4, <1>5, ParametersAssumption DEF Sessions
<1>7. HeldOld /\ GoneIsListed
  BY <1>1, <1>2 DEF HeldOld, HeldOldAt, GoneIsListed, Joining
<1>8. MapAgrees
  BY DistinctAssumption DEF Init, MapAgrees
<1> QED BY <1>6, <1>7, <1>8, InitInvariant DEF JInv

\* Two known sessions of a device with different keys.
LEMMA KeysDiffer ==
    ASSUME IInv, Sessions, MaxKey <= 1, NEW d \in Dev, NEW r \in Device, NEW s \in Device,
           Known(d, r), Known(d, s), ~Same(r, s)
    PROVE  \/ r.key = 0 /\ s.key = 1 /\ r.at < s.at
           \/ s.key = 0 /\ r.key = 1 /\ s.at < r.at
<1>1. /\ r.key = s.key => r.addr = s.addr
      /\ r.key < s.key => r.at < s.at
      /\ s.key < r.key => s.at < r.at
      /\ r.key <= remote[d].key /\ s.key <= remote[d].key /\ remote[d].key <= MaxKey
  BY DEF Sessions
<1>2. r.key \in Nat /\ s.key \in Nat /\ remote[d].key \in Nat
  BY KnownType DEF Device
<1>3. r.key # s.key
  BY <1>1 DEF Same
<1> QED BY <1>1, <1>2, <1>3, ParametersAssumption

\* No step of the bridge makes up a session.
LEMMA KnownStep ==
    ASSUME IInv, [Next]_vars, remote' = remote, NEW d \in Dev, NEW r, Known(d, r)'
    PROVE  Known(d, r)
<1>1. ASSUME NEW e \in Dev, local' = [local EXCEPT ![e] = pulled[e]], pulled[e] # None,
             held' = Kept(e), join' = join, pulled' = [pulled EXCEPT ![e] = None], local[e] # Listed
      PROVE  Known(d, r)
  BY <1>1, DistinctAssumption DEF Known, Kept, Joining, IInv, TypeOK
<1>2. ASSUME NEW e \in Dev, AddLocal(e)
      PROVE  Known(d, r)
  <2>1. local[e] # Listed
    BY DistinctAssumption DEF IInv, TypeOK
  <2> QED BY <1>1, <1>2, <2>1, AddFacts DEF SetDevice
<1>3. ASSUME NEW e \in Dev, UpdateLocal(e)
      PROVE  Known(d, r)
  <2>1. local[e] # Listed
    BY DistinctAssumption DEF IInv, TypeOK
  <2>2. CASE EndSync /\ UNCHANGED <<local, addrMap, held>>
    BY <1>3, <2>2 DEF UpdateLocal, EndSync, Known, Joining
  <2> QED BY <1>1, <1>3, <2>1, <2>2, UpdateFacts DEF SetDevice
<1>4. ASSUME NEW e \in Dev, Compare(e)
      PROVE  Known(d, r)
  <2>1. pulled[e] # None
    BY <1>4, CompareKeeps, DistinctAssumption
  <2>2. /\ held' = held /\ join' = join
        /\ pulled' = pulled \/ pulled' = [pulled EXCEPT ![e] = None]
        /\ local' = local \/ local' = [local EXCEPT ![e] = pulled[e]]
    BY <1>4, CompareKeeps DEF Compare
  <2> QED BY <2>1, <2>2 DEF Known, Joining, IInv, TypeOK
<1>5. ASSUME NEW e \in Dev, RemoveLocal(e)
      PROVE  Known(d, r)
  <2>1. \A f \in Dev : local'[f] = IF f = e THEN None ELSE local[f]
    BY <1>5 DEF RemoveLocal, IInv, TypeOK
  <2>2. \A f \in Dev : held'[f] = IF f = e /\ held[e] = Listed THEN local[e] ELSE held[f]
    BY <1>5 DEF RemoveLocal, Kept, IInv, TypeOK
  <2>3. pulled'[d] = pulled[d] \/ pulled'[d] = None
    BY <1>5 DEF RemoveLocal, EndSync
  <2>4. join' = join
    BY <1>5 DEF RemoveLocal
  <2> QED BY <2>1, <2>2, <2>3, <2>4 DEF Known, Joining
<1>6. ASSUME NEW e \in Dev, Pull(e)
      PROVE  Known(d, r)
  BY <1>6 DEF Pull, Known, Joining, IInv, TypeOK
<1>7. ASSUME NEW e \in Dev, JoinLocal(e)
      PROVE  Known(d, r)
  <2>1. \A f \in Dev : local'[f] = local[f] \/ (f = e /\ local'[f] = join.rec)
    BY <1>7 DEF JoinLocal, IInv, TypeOK
  <2>2. /\ Joining(e) /\ join' = None /\ pulled' = pulled
        /\ \A f \in Dev : held'[f] = held[f] \/ held'[f] = None
    BY <1>7 DEF JoinLocal, EndJoin, IInv, TypeOK, syncing
  <2> QED BY <2>1, <2>2 DEF Known, Joining
<1>8. ASSUME NEW e \in Dev, JoinAccept(e)
      PROVE  Known(d, r)
  BY <1>8 DEF JoinAccept, Known, Joining, syncing
<1>9. ASSUME NEW e \in Dev, JoinTellsRan(e)
      PROVE  Known(d, r)
  <2>1. join' # None => join'.dev = join.dev /\ join'.rec = join.rec /\ join # None
    BY <1>9 DEF JoinTellsRan, IInv, TypeOK, Joining
  <2> QED BY <1>9, <2>1 DEF JoinTellsRan, Known, Joining, syncing
<1>10. ASSUME NEW e \in Dev, JoinRequest(e) \/ JoinUnchanged(e) \/ JoinFails(e)
       PROVE  Known(d, r)
  BY <1>10 DEF JoinRequest, JoinUnchanged, JoinFails, EndJoin, Known, Joining, syncing, IInv, TypeOK
<1>11. CASE ListDevices \/ EndScan \/ Finish \/ ScanFails \/ UNCHANGED vars
  BY <1>11 DEF ListDevices, EndScan, Finish, ScanFails, EndSync, vars, syncing, Known, Joining
<1>12. ASSUME NEW e \in Dev, RanDelete(e) \/ RanInsert(e) \/ RanUpdate(e)
                             \/ CallRefused(e) \/ AnswerLost(e)
       PROVE  Known(d, r)
  BY <1>12 DEF RanDelete, RanInsert, RanUpdate, CallRefused, AnswerLost, EndSync, Known, Joining
<1>13. ASSUME NEW e \in Dev, NewSession(e) \/ Touch(e) \/ Tag(e)
       PROVE  Known(d, r)
  BY <1>13 DEF NewSession, Touch, Tag, Known, Joining, syncing
<1> QED BY <1>2, <1>3, <1>4, <1>5, <1>6, <1>7, <1>8, <1>9, <1>10, <1>11, <1>12, <1>13
        DEF Next, Sync, Join

LEMMA SessionsStep ==
    ASSUME IInv, Sessions, [Next]_vars
    PROVE  Sessions'
<1>1. events \in Nat /\ events' \in Nat /\ events' >= events
  <2>1. events' = events \/ events' = events + 1
    BY DEF Next, Sync, Join, ListDevices, EndScan, Finish, ScanFails, Pull, Compare, RemoveLocal,
       RanDelete, RanInsert, AddLocal, RanUpdate, UpdateLocal, JoinRequest, JoinAccept,
       JoinUnchanged, JoinTellsRan, JoinLocal, JoinFails, CallRefused, AnswerLost, NewSession,
       Touch, Tag, Event, vars
  <2> QED BY <2>1 DEF IInv, TypeOK
<1>2. \A d \in Dev : \A r \in Device : r.key \in Nat /\ r.at \in Nat
  BY DEF Device
<1>3. CASE remote' = remote
  BY <1>1, <1>2, <1>3, KnownStep DEF Sessions
<1>4. ASSUME NEW e \in Dev, NEW new \in Device, remote' = [remote EXCEPT ![e] = new],
             UNCHANGED <<local, pulled, held, join>>, events' = events + 1,
             new.at = events + 1, new.addr \in MayGet[e], new.key <= MaxKey,
             \/ new.key = remote[e].key + 1
             \/ new.key = remote[e].key /\ new.addr = remote[e].addr
      PROVE  Sessions'
  <2>1. remote[e] \in Device /\ \A d \in Dev : remote'[d] = IF d = e THEN new ELSE remote[d]
    BY <1>4 DEF IInv, TypeOK
  <2>2. ASSUME NEW d \in Dev, NEW r, Known(d, r)'
        PROVE  Known(d, r) \/ (d = e /\ r = new)
    BY <1>4, <2>1, <2>2 DEF Known, Joining
  <2>3. ASSUME NEW d \in Dev, d # e
        PROVE  /\ remote'[d].key <= MaxKey
               /\ \A r \in Device : Known(d, r)' =>
                     r.key <= remote'[d].key /\ r.at <= events' /\ r.addr \in MayGet[d]
               /\ \A r, s \in Device : Known(d, r)' /\ Known(d, s)' =>
                     /\ r.key = s.key => r.addr = s.addr
                     /\ r.key < s.key => r.at < s.at
    BY <1>1, <1>2, <2>1, <2>2, <2>3 DEF Sessions
  <2>4. ASSUME NEW r \in Device, Known(e, r)
        PROVE  /\ r.key <= new.key /\ r.at < new.at /\ r.at <= events'
               /\ r.addr \in MayGet[e]
               /\ (r.key = new.key => r.addr = new.addr)
    <3>1. e \in Dev
      BY <1>4
    <3>2. r.key <= remote[e].key /\ r.at <= events /\ r.addr \in MayGet[e]
      BY <2>4, <3>1 DEF Sessions
    <3>3. Known(e, remote[e])
      BY DEF Known
    <3>4. r.key = remote[e].key => r.addr = remote[e].addr
      BY <2>1, <2>4, <3>1, <3>3 DEF Sessions
    <3>5. r.key \in Nat /\ r.at \in Nat /\ remote[e].key \in Nat
      BY <1>2, <2>1, <2>4, <3>1
    <3> QED BY <1>1, <1>4, <3>2, <3>4, <3>5
  <2>5. \A r \in Device : Known(e, r)' => Known(e, r) \/ r = new
    <3>1. e \in Dev
      BY <1>4
    <3> QED BY <2>2, <3>1
  <2>6. remote'[e] = new /\ new.key \in Nat /\ new.at \in Nat /\ new \in Device
        /\ new.key <= MaxKey /\ new.at <= events' /\ new.addr \in MayGet[e]
    BY <1>1, <1>2, <1>4, <2>1
  <2>7. /\ remote'[e].key <= MaxKey
        /\ \A r \in Device : Known(e, r)' =>
              r.key <= remote'[e].key /\ r.at <= events' /\ r.addr \in MayGet[e]
    BY <2>4, <2>5, <2>6
  <2>8. ASSUME NEW r \in Device, NEW s \in Device, Known(e, r)', Known(e, s)'
        PROVE  /\ (r.key = s.key => r.addr = s.addr)
               /\ (r.key < s.key => r.at < s.at)
    <3>1. e \in Dev /\ r.key \in Nat /\ s.key \in Nat /\ r.at \in Nat /\ s.at \in Nat
      BY <1>2, <1>4, <2>8
    <3>2. (Known(e, r) \/ r = new) /\ (Known(e, s) \/ s = new)
      BY <2>5, <2>8
    <3>3. CASE Known(e, r) /\ Known(e, s)
      BY <2>8, <3>1, <3>3 DEF Sessions
    <3>4. CASE r = new /\ s = new
      BY <3>1, <3>4
    <3>5. CASE r = new /\ Known(e, s)
      <4>1. s.key <= new.key /\ (s.key = new.key => s.addr = new.addr)
        BY <2>4, <2>8, <3>5
      <4> QED BY <3>1, <3>5, <4>1
    <3>6. CASE Known(e, r) /\ s = new
      <4>1. r.at < new.at /\ (r.key = new.key => r.addr = new.addr)
        BY <2>4, <2>8, <3>6
      <4> QED BY <3>1, <3>6, <4>1
    <3> QED BY <3>2, <3>3, <3>4, <3>5, <3>6
  <2> QED BY <2>3, <2>7, <2>8 DEF Sessions
<1>5. ASSUME NEW d \in Dev, NewSession(d)
      PROVE  Sessions'
  <2>1. PICK a \in MayGet[d] :
           remote' = [remote EXCEPT ![d] = [addr |-> a, key |-> remote[d].key + 1, at |-> events + 1]]
    BY <1>5 DEF NewSession, IInv, TypeOK
  <2>2. a \in Addr \cup {Empty} /\ remote[d].key \in Nat /\ MaxKey \in Nat
    BY ParametersAssumption, KnownType DEF Device
  <2>3. [addr |-> a, key |-> remote[d].key + 1, at |-> events + 1] \in Device
    BY <1>1, <2>2 DEF Device
  <2>4. /\ UNCHANGED <<local, pulled, held, join>> /\ events' = events + 1
        /\ remote[d].key + 1 <= MaxKey
    BY <1>5, <2>2 DEF NewSession, Event, syncing
  <2> QED BY <1>4, <2>1, <2>3, <2>4
<1>6. ASSUME NEW d \in Dev, Touch(d)
      PROVE  Sessions'
  <2> DEFINE new == [remote[d] EXCEPT !.at = events + 1]
  <2>1. remote[d] \in Device /\ Known(d, remote[d])
    BY KnownType DEF Known
  <2>2. /\ new \in Device /\ new.at = events + 1
        /\ new.key = remote[d].key /\ new.addr = remote[d].addr
    BY <1>1, <2>1 DEF Device
  <2>3. remote[d].addr \in MayGet[d] /\ remote[d].key <= MaxKey
    BY <2>1 DEF Sessions
  <2>4. /\ UNCHANGED <<local, pulled, held, join>> /\ events' = events + 1
        /\ remote' = [remote EXCEPT ![d] = new]
    BY <1>6 DEF Touch, Event, syncing
  <2> HIDE DEF new
  <2> QED BY <1>4, <2>2, <2>3, <2>4
<1>7. \/ remote' = remote
      \/ \E d \in Dev : NewSession(d) \/ Touch(d)
  BY DEF Next, Sync, Join, ListDevices, EndScan, Finish, ScanFails, Pull, Compare, RemoveLocal,
     RanDelete, RanInsert, AddLocal, RanUpdate, UpdateLocal, JoinRequest, JoinAccept,
     JoinUnchanged, JoinTellsRan, JoinLocal, JoinFails, CallRefused, AnswerLost,
     Tag, tti, vars
<1> QED BY <1>3, <1>5, <1>6, <1>7

\* What a step leaves alone of a device keeps its part of HeldOld.
LEMMA HeldOldKept ==
    ASSUME HeldOld, NEW e \in Dev, local'[e] = local[e], held'[e] = held[e],
           found'[e] = "updated" => found[e] = "updated" /\ pulled'[e] = pulled[e],
           Joining(e)' => Joining(e) /\ join' = join
    PROVE  HeldOldAt(e)'
BY DEF HeldOld, HeldOldAt, HeldContent

\* The same for a device whose object was replaced by one of the new session.
LEMMA HeldOldReplaced ==
    ASSUME IInv, HeldOld, NEW e \in Dev, found'[e] # "updated", UNCHANGED join,
           held'[e] = IF held[e] = Listed THEN local[e] ELSE held[e],
           local'[e] = None \/ local'[e].key = 1
    PROVE  HeldOldAt(e)'
<1>1. held[e] = Listed => local[e] \in Device /\ local[e] # Listed /\ local[e] # None
  BY DistinctAssumption DEF HeldOld, HeldOldAt, IInv, TypeOK
<1>2. HeldContent(e)' = HeldContent(e)
  BY <1>1 DEF HeldContent
<1> QED BY <1>1, <1>2 DEF HeldOld, HeldOldAt, Joining

LEMMA HeldOldStep ==
    ASSUME JInv, Fresh, MaxKey <= 1, [Next]_vars
    PROVE  HeldOld'
<1> IInv /\ Sessions /\ HeldOld /\ GoneIsListed /\ MapAgrees
  BY DEF JInv
<1>0. Listed # None /\ None \notin Device /\ Listed \notin Device
  BY DistinctAssumption
<1>1. CASE ListDevices \/ EndScan \/ Finish \/ ScanFails \/ UNCHANGED vars
  <2>1. ASSUME NEW e \in Dev PROVE HeldOldAt(e)'
    BY <1>1, <2>1, HeldOldKept
    DEF ListDevices, EndScan, Finish, ScanFails, EndSync, vars, syncing, Joining
  <2> QED BY <2>1 DEF HeldOld
<1>2. ASSUME NEW d \in Dev, RanDelete(d) \/ RanInsert(d) \/ RanUpdate(d)
                            \/ CallRefused(d) \/ AnswerLost(d)
      PROVE  HeldOld'
  <2>1. ASSUME NEW e \in Dev PROVE HeldOldAt(e)'
    BY <1>2, <2>1, HeldOldKept
    DEF RanDelete, RanInsert, RanUpdate, CallRefused, AnswerLost, EndSync, Joining
  <2> QED BY <2>1 DEF HeldOld
<1>3. ASSUME NEW d \in Dev, NewSession(d) \/ Touch(d) \/ Tag(d)
      PROVE  HeldOld'
  <2>1. ASSUME NEW e \in Dev PROVE HeldOldAt(e)'
    BY <1>3, <2>1, HeldOldKept DEF NewSession, Touch, Tag, syncing, Joining
  <2> QED BY <2>1 DEF HeldOld
<1>4. ASSUME NEW d \in Dev, Pull(d)
      PROVE  HeldOld'
  <2>1. ASSUME NEW e \in Dev PROVE HeldOldAt(e)'
    <3>1. found'[e] = "updated" => found[e] = "updated" /\ pulled'[e] = pulled[e]
      BY <1>4, <2>1 DEF Pull, IInv, TypeOK
    <3> QED BY <1>4, <2>1, <3>1, HeldOldKept DEF Pull, Joining
  <2> QED BY <2>1 DEF HeldOld
<1>5. ASSUME NEW d \in Dev, Compare(d)
      PROVE  HeldOld'
  <2>1. /\ UNCHANGED <<held, join>> /\ local[d] \in Device /\ pulled[d] \in Device
        /\ \A e \in Dev : /\ local'[e] # None <=> local[e] # None
                          /\ local[e] # None => local'[e].key = local[e].key
        /\ \A e \in Dev \ {d} : found'[e] = found[e] /\ pulled'[e] = pulled[e]
    BY <1>5, CompareKeeps DEF Compare, IInv, TypeOK
  <2>2. found'[d] = "updated" => pulled'[d].key = 1
    <3>1. SUFFICES ASSUME found'[d] = "updated" PROVE pulled'[d].key = 1
      OBVIOUS
    <3>2. /\ local[d].at < pulled[d].at /\ ~Same(local[d], pulled[d]) /\ pulled' = pulled
      BY <1>5, <3>1 DEF Compare, IInv, TypeOK
    <3>3. Known(d, local[d]) /\ Known(d, pulled[d])
      BY <1>0, <2>1 DEF Known
    <3>4. local[d].at \in Nat /\ pulled[d].at \in Nat
      BY <2>1 DEF Device
    <3>5. \/ local[d].key = 0 /\ pulled[d].key = 1 /\ local[d].at < pulled[d].at
          \/ pulled[d].key = 0 /\ local[d].key = 1 /\ pulled[d].at < local[d].at
      BY <2>1, <3>2, <3>3, KeysDiffer
    <3> QED BY <3>2, <3>4, <3>5
  <2>3. ASSUME NEW e \in Dev PROVE HeldOldAt(e)'
    <3>1. HeldOldAt(e)
      BY <2>3 DEF HeldOld
    <3>2. held[e] # None => HeldContent(e)'.key = HeldContent(e).key
      BY <2>1, <2>3, <3>1 DEF HeldContent, HeldOldAt
    <3>3. found'[e] = "updated" => pulled'[e].key = 1
      BY <2>1, <2>2, <2>3, <3>1 DEF HeldOldAt
    <3>4. Joining(e)' <=> Joining(e)
      BY <2>1 DEF Joining
    <3> QED BY <2>1, <2>3, <3>1, <3>2, <3>3, <3>4 DEF HeldOldAt
  <2> QED BY <2>3 DEF HeldOld
<1>6. ASSUME NEW d \in Dev, RemoveLocal(d)
      PROVE  HeldOld'
  <2>1. /\ local' = [local EXCEPT ![d] = None] /\ held' = Kept(d)
        /\ UNCHANGED <<phase, found, pulled, gone, join>>
    BY <1>6, RemovalPops
  <2>2. ASSUME NEW e \in Dev PROVE HeldOldAt(e)'
    <3>1. CASE e # d
      BY <2>1, <2>2, <3>1, HeldOldKept DEF Kept, IInv, TypeOK, Joining
    <3>2. CASE e = d
      <4>1. found[d] # "updated"
        BY <1>6 DEF RemoveLocal, IInv, Shape, ScanShape
      <4> QED BY <1>6, <2>1, <2>2, <3>2, <4>1, HeldOldReplaced DEF Kept, IInv, TypeOK
    <3> QED BY <3>1, <3>2
  <2> QED BY <2>2 DEF HeldOld
<1>7. ASSUME NEW d \in Dev, NEW map, SetDevice(d, map), UNCHANGED join,
             \/ found[d] = "updated"
             \/ local[d] = None /\ held[d] = None /\ ~Joining(d)
      PROVE  HeldOld'
  <2>1. ASSUME NEW e \in Dev \ {d} PROVE HeldOldAt(e)'
    BY <1>7, <2>1, HeldOldKept DEF SetDevice, Kept, IInv, TypeOK, Joining
  <2>2. /\ local'[d] = pulled[d] /\ found'[d] = "synced"
        /\ held'[d] = IF held[d] = Listed THEN local[d] ELSE held[d]
    BY <1>7 DEF SetDevice, Kept, IInv, TypeOK
  <2>3. CASE found[d] = "updated"
    <3>1. local'[d].key = 1
      BY <2>2, <2>3 DEF HeldOld, HeldOldAt
    <3> QED BY <1>7, <2>1, <2>2, <3>1, HeldOldReplaced DEF HeldOld
  <2>4. CASE local[d] = None /\ held[d] = None /\ ~Joining(d)
    <3>1. HeldOldAt(d)'
      BY <1>0, <1>7, <2>2, <2>4 DEF HeldOldAt, Joining
    <3> QED BY <2>1, <3>1 DEF HeldOld
  <2> QED BY <1>7, <2>3, <2>4
<1>8. ASSUME NEW d \in Dev, AddLocal(d)
      PROVE  HeldOld'
  <2>1. SetDevice(d, addrMap) /\ join' = join /\ found[d] = "new"
    BY <1>8, AddFacts
  <2>2. local[d] = None /\ held[d] = None /\ ~Joining(d)
    BY <2>1 DEF Fresh
  <2> QED BY <1>7, <2>1, <2>2
<1>9. ASSUME NEW d \in Dev, UpdateLocal(d)
      PROVE  HeldOld'
  <2>1. CASE EndSync /\ UNCHANGED <<local, addrMap, held>>
    <3>1. ASSUME NEW e \in Dev PROVE HeldOldAt(e)'
      BY <1>9, <2>1, <3>1, UpdateFacts, HeldOldKept DEF EndSync, Joining
    <3> QED BY <3>1 DEF HeldOld
  <2>2. CASE \E map : SetDevice(d, map)
    <3>1. PICK map : SetDevice(d, map)
      BY <2>2
    <3>2. found[d] = "updated" /\ join' = join
      BY <1>9, UpdateFacts
    <3> QED BY <1>7, <3>1, <3>2
  <2> QED BY <1>9, <2>1, <2>2, UpdateFacts
<1>10. ASSUME NEW d \in Dev, JoinRequest(d)
       PROVE  HeldOld'
  <2>1. ASSUME NEW e \in Dev \ {d} PROVE HeldOldAt(e)'
    BY <1>10, <2>1, HeldOldKept DEF JoinRequest, IInv, TypeOK, syncing, Joining
  <2>2. HeldOldAt(d)'
    <3>1. held'[d] = Listed /\ local'[d] # None /\ ~Joining(d)' /\ UNCHANGED <<found, pulled>>
      BY <1>10 DEF JoinRequest, IInv, TypeOK, syncing, Joining
    <3> QED BY <3>1 DEF HeldOld, HeldOldAt
  <2> QED BY <2>1, <2>2 DEF HeldOld
<1>11. ASSUME NEW d \in Dev, JoinAccept(d)
       PROVE  HeldOld'
  <2>1. ASSUME NEW e \in Dev \ {d} PROVE HeldOldAt(e)'
    BY <1>11, <2>1, HeldOldKept DEF JoinAccept, syncing, Joining
  <2>2. HeldContent(d) \in Device /\ Known(d, HeldContent(d))
    BY <1>0, <1>11 DEF JoinAccept, HeldContent, HeldOld, HeldOldAt, Known, IInv, TypeOK
  <2>3. HeldContent(d).key <= remote[d].key
    BY <2>2 DEF Sessions
  <2>4. /\ join'.rec = remote[d] /\ join'.stage = "pulled" /\ held[d] # None
        /\ UNCHANGED <<local, held, found, pulled>>
    BY <1>11 DEF JoinAccept, syncing
  <2>5. HeldContent(d)' = HeldContent(d)
    BY <2>4 DEF HeldContent
  <2>6. HeldOldAt(d)'
    BY <2>3, <2>4, <2>5 DEF HeldOld, HeldOldAt
  <2> QED BY <2>1, <2>6 DEF HeldOld
<1>12. ASSUME NEW d \in Dev, JoinTellsRan(d)
       PROVE  HeldOld'
  <2>1. /\ Joining(d) /\ join.rec \in Device /\ join.dev = d
        /\ join'.rec = join.rec /\ join'.dev = d
        /\ HeldContent(d).addr # join.rec.addr
        /\ UNCHANGED <<local, held, found, pulled>>
    BY <1>0, <1>12, DistinctAssumption DEF JoinTellsRan, TellsRan, IInv, TypeOK, Joining, syncing
  <2>2. ASSUME NEW e \in Dev \ {d} PROVE HeldOldAt(e)'
    BY <2>1, <2>2, HeldOldKept DEF Joining
  <2>3. HeldContent(d) \in Device /\ Known(d, HeldContent(d)) /\ Known(d, join.rec)
    BY <1>0, <2>1 DEF HeldContent, HeldOld, HeldOldAt, Known, IInv, TypeOK
  <2>4. HeldContent(d).key \in Nat /\ join.rec.key \in Nat
    BY <2>1, <2>3 DEF Device
  <2>5. HeldContent(d).key < join.rec.key
    <3>1. HeldContent(d).key <= join.rec.key
      BY <2>1 DEF HeldOld, HeldOldAt
    <3>2. HeldContent(d).key # join.rec.key
      BY <2>1, <2>3 DEF Sessions
    <3> QED BY <2>4, <3>1, <3>2
  <2>6. HeldContent(d)' = HeldContent(d)
    BY <2>1 DEF HeldContent
  <2>7. HeldOldAt(d)'
    BY <2>1, <2>4, <2>5, <2>6 DEF HeldOld, HeldOldAt
  <2> QED BY <2>2, <2>7 DEF HeldOld
<1>13. ASSUME NEW d \in Dev, EndJoin(d), Joining(d), UNCHANGED syncing,
              \A e \in Dev \ {d} : local'[e] = local[e]
       PROVE  HeldOld'
  <2>1. ASSUME NEW e \in Dev \ {d} PROVE HeldOldAt(e)'
    BY <1>13, <2>1, HeldOldKept DEF EndJoin, IInv, TypeOK, syncing, Joining
  <2>2. held'[d] = None /\ join' = None /\ UNCHANGED <<found, pulled>>
    BY <1>13 DEF EndJoin, IInv, TypeOK, syncing
  <2>3. HeldOldAt(d)'
    BY <1>0, <2>2 DEF HeldOld, HeldOldAt, Joining
  <2> QED BY <2>1, <2>3 DEF HeldOld
<1>14. ASSUME NEW d \in Dev, JoinUnchanged(d) \/ JoinLocal(d) \/ JoinFails(d)
       PROVE  HeldOld'
  <2>1. \A e \in Dev \ {d} : local'[e] = local[e]
    BY <1>14 DEF JoinUnchanged, JoinLocal, JoinFails, IInv, TypeOK
  <2> QED BY <1>13, <1>14, <2>1 DEF JoinUnchanged, JoinLocal, JoinFails
<1> QED BY <1>1, <1>2, <1>3, <1>4, <1>5, <1>6, <1>8, <1>9, <1>10, <1>11, <1>12, <1>14
        DEF Next, Sync, Join

\* With at most one new session a device, a JoinAccept leaves the dictionaries in
\* agreement, whether the join's object is the listed one, was replaced, or left.
LEMMA JoinLocalAgrees ==
    ASSUME Apart, MaxKey <= 1, JInv, Fresh, NEW d \in Dev, JoinLocal(d)
    PROVE  MapAgrees'
<1>1. IInv /\ Sessions /\ HeldOld /\ MapAgrees /\ Listed # None /\ None \notin Device
  BY DistinctAssumption DEF JInv
<1>2. Joining(d) /\ join.rec \in Device /\ Known(d, join.rec) /\ held[d] # None
  BY <1>1 DEF JoinLocal, Joining, Known, IInv, TypeOK, HeldOld, HeldOldAt
<1>3. OwnAddress /\ join.rec.addr \in MayGet[d]
  BY <1>1, <1>2, KnownType DEF OwnAddress, Sessions, Known
<1>4. addrMap \in [Addr \cup {Empty} -> Dev \cup {None}]
  BY <1>1 DEF IInv, TypeOK
<1>5. CASE local[d] = None
  <2>1. local' = [local EXCEPT ![d] = join.rec] /\ addrMap' = Mapped(addrMap, d, join.rec)
    BY <1>5 DEF JoinLocal
  <2>2. \A a \in Addr : addrMap[a] = IF local[d] # None /\ local[d].addr = a
                                         /\ join.rec.addr # a
                                      THEN None ELSE addrMap[a]
    BY <1>5
  <2> QED BY <1>1, <1>2, <1>3, <1>4, <2>1, <2>2, PlacementAgrees
<1>6. CASE local[d] # None /\ held[d] = Listed
  <2>1. local' = [local EXCEPT ![d] = join.rec]
    BY <1>6 DEF JoinLocal
  <2>2. CASE local[d].addr = join.rec.addr
    <3>1. addrMap' = addrMap
      BY <1>6, <2>2 DEF JoinLocal
    <3>2. \A e \in Dev : local'[e] = IF e = d THEN join.rec ELSE local[e]
      BY <1>1, <2>1 DEF IInv, TypeOK
    <3> QED BY <1>1, <1>2, <1>6, <2>2, <3>1, <3>2 DEF MapAgrees
  <2>3. CASE local[d].addr # join.rec.addr
    <3>1. addrMap' = Mapped(Unmapped(local[d].addr), d, join.rec)
      BY <1>6, <2>3 DEF JoinLocal
    <3>2. Unmapped(local[d].addr) \in [Addr \cup {Empty} -> Dev \cup {None}]
      BY <1>4 DEF Unmapped
    <3>3. \A a \in Addr : Unmapped(local[d].addr)[a] =
             IF local[d] # None /\ local[d].addr = a /\ join.rec.addr # a
             THEN None ELSE addrMap[a]
      BY <1>4, <1>6, <2>3 DEF Unmapped
    <3> QED BY <1>1, <1>2, <1>3, <2>1, <3>1, <3>2, <3>3, PlacementAgrees
  <2> QED BY <2>2, <2>3
<1>7. CASE local[d] # None /\ held[d] # Listed
  <2>1. local[d] \in Device /\ held[d] \in Device /\ Known(d, local[d])
    BY <1>1, <1>2, <1>7, KnownType DEF Known
  <2>2. local[d].key = 1 /\ HeldContent(d) = held[d] /\ held[d].key <= join.rec.key
    BY <1>1, <1>2, <1>7 DEF HeldOld, HeldOldAt, HeldContent
  <2>3. join.rec.key <= 1 /\ join.rec.key \in Nat /\ held[d].key \in Nat
    <3>1. join.rec.key <= remote[d].key /\ remote[d].key <= MaxKey
      BY <1>1, <1>2 DEF Sessions
    <3>2. join.rec.key \in Nat /\ held[d].key \in Nat /\ remote[d].key \in Nat
      BY <1>1, <1>2, <2>1, KnownType DEF Device
    <3> QED BY <3>1, <3>2, ParametersAssumption
  <2>4. Known(d, held[d]) /\ ~(held[d].key = join.rec.key)
    <3>1. Known(d, held[d])
      BY <1>2, <1>7 DEF Known
    <3>2. CASE join.stage = "told"
      BY <1>1, <1>2, <2>2, <2>3, <3>1, <3>2 DEF HeldOld, HeldOldAt
    <3>3. CASE ~Same(HeldContent(d), join.rec)
      BY <1>1, <1>2, <2>1, <2>2, <3>1, <3>3 DEF Same, Sessions
    <3> QED BY <3>1, <3>2, <3>3 DEF JoinLocal
  <2>5. join.rec.key = 1
    BY <2>2, <2>3, <2>4
  <2>6. local[d].addr = join.rec.addr
    BY <1>1, <1>2, <2>1, <2>2, <2>5 DEF Sessions
  <2>7. UNCHANGED <<local, addrMap>>
    BY <1>7, <2>6 DEF JoinLocal
  <2> QED BY <1>1, <2>7 DEF MapAgrees
<1> QED BY <1>5, <1>6, <1>7

LEMMA JoinedNext ==
    ASSUME Apart, MaxKey <= 1, JInv, Fresh, [Next]_vars
    PROVE  JInv'
<1>1. IInv /\ Sessions /\ HeldOld /\ GoneIsListed /\ MapAgrees
  BY DEF JInv
<1>2. OwnAddress /\ NewIsUnlisted
  BY <1>1, KnownType DEF OwnAddress, Sessions, Known, NewIsUnlisted, Fresh
<1>3. MapAgrees'
  <2>1. CASE \A d \in Dev : ~JoinLocal(d)
    BY <1>1, <1>2, <2>1, MapStep
  <2>2. CASE \E d \in Dev : JoinLocal(d)
    BY <2>2, JoinLocalAgrees
  <2> QED BY <2>1, <2>2
<1>4. IInv'
  BY <1>1, NextInvariant
<1>5. GoneIsListed' /\ Sessions' /\ HeldOld'
  BY <1>1, GoneStep, SessionsStep, HeldOldStep
<1> QED BY <1>3, <1>4, <1>5 DEF JInv

\* Devices join through the bridge: at most one new session each, and none both
\* leaves and comes back.
JoinedOnce == Apart /\ MaxKey <= 1 /\ ~({"set", "remove"} \subseteq Tags)

LEMMA JoinedAlways == ASSUME JoinedOnce PROVE Spec => []JInv
<1>1. Spec => []Fresh
  BY FreshAlways DEF JoinedOnce
<1>2. JInv /\ Fresh /\ [Next]_vars => JInv'
  BY JoinedNext DEF JoinedOnce
<1> QED BY <1>1, <1>2, JoinedInit, PTL DEF Spec

\* MapAgrees across the joins as well: however a JoinAccept crosses the awaits of
\* a sync, an address leads to a device exactly when the listed device has it.
THEOREM JoinedMapAgrees == ASSUME JoinedOnce PROVE Spec => []MapAgrees
<1>1. JInv => MapAgrees
  BY DEF JInv
<1> QED BY <1>1, JoinedAlways, PTL

-----------------------------------------------------------------------------
(* What the RAN routes is listed *)

\* A step keeps RoutedIsListed where no device leaves the list unnoticed.
LEMMA RoutedKept ==
    ASSUME RoutedIsListed,
           \A e \in Dev : ran[e] = None => ran'[e] = None,
           \A e \in Dev : local[e] # None => local'[e] # None,
           call' = call \/ \A e \in Dev : call # None /\ call.dev = e => local'[e] # None
    PROVE  RoutedIsListed'
BY DEF RoutedIsListed

LEMMA RoutedStep ==
    ASSUME {"insert", "delete"} \cap Fails = {},
           IInv, GoneIsListed, MapAgrees, RoutedIsListed, [Next]_vars
    PROVE  RoutedIsListed'
<1>1. ASSUME NEW d \in Dev, RemoveLocal(d)
      PROVE  RoutedIsListed'
  <2>1. /\ call = None /\ call' # None /\ call'.dev = d /\ ran' = ran
        /\ \A e \in Dev \ {d} : local'[e] = local[e]
    BY <1>1, RemovalPops, DistinctAssumption DEF IInv, TypeOK, Call
  <2> QED BY <2>1 DEF RoutedIsListed
<1>2. ASSUME NEW d \in Dev, RanDelete(d)
      PROVE  RoutedIsListed'
  <2>1. /\ call.dev = d /\ local' = local
        /\ \A e \in Dev : ran'[e] = IF e = d THEN None ELSE ran[e]
    BY <1>2 DEF RanDelete, IInv, TypeOK
  <2> QED BY <2>1 DEF RoutedIsListed
<1>3. ASSUME NEW d \in Dev, RanInsert(d)
      PROVE  RoutedIsListed'
  <2>1. /\ call = None /\ call' # None /\ call'.dev = d /\ local' = local
        /\ \A e \in Dev \ {d} : ran'[e] = ran[e]
    BY <1>3, DistinctAssumption DEF RanInsert, MayAdd, IInv, TypeOK, Call
  <2> QED BY <2>1 DEF RoutedIsListed
<1>4. ASSUME NEW d \in Dev, AddLocal(d)
      PROVE  RoutedIsListed'
  <2>1. /\ call.dev = d /\ ran' = ran
        /\ \A e \in Dev : local'[e] = IF e = d THEN pulled[d] ELSE local[e]
    BY <1>4, AddFacts DEF SetDevice, IInv, TypeOK
  <2> QED BY <1>4, <2>1, AddFacts, RoutedKept
<1>5. ASSUME NEW d \in Dev, RanUpdate(d)
      PROVE  RoutedIsListed'
  <2>1. /\ call = None /\ local' = local
        /\ \A e \in Dev : ran[e] = None => ran'[e] = None
    BY <1>5 DEF RanUpdate, MayUpdate, MayAdd, IInv, TypeOK
  <2> QED BY <2>1, RoutedKept
<1>6. ASSUME NEW d \in Dev, UpdateLocal(d)
      PROVE  RoutedIsListed'
  <2>1. /\ ran' = ran /\ call # None => call.dev = d
        /\ local[d] # None /\ pulled[d] # None
    BY <1>6, UpdateFacts
  <2>2. \A e \in Dev : local[e] # None => local'[e] # None
    BY <1>6, <2>1, UpdateFacts DEF SetDevice, IInv, TypeOK
  <2> QED BY <1>6, <2>1, <2>2, UpdateFacts, RoutedKept
<1>7. ASSUME NEW d \in Dev, CallRefused(d)
      PROVE  RoutedIsListed'
  <2>1. call = None /\ UNCHANGED <<ran, local>>
    BY <1>7 DEF CallRefused, MayUpdate, MayAdd
  <2> QED BY <2>1, RoutedKept
<1>8. ASSUME NEW d \in Dev, AnswerLost(d)
      PROVE  RoutedIsListed'
  <2>1. call # None /\ call.dev = d /\ call.op = "update" /\ UNCHANGED <<ran, local>>
    BY <1>8 DEF AnswerLost, IInv, TypeOK, Call
  <2>2. local[d] # None
    BY <2>1, DistinctAssumption DEF IInv, Shape, ScanShape, CallShape
  <2> QED BY <2>1, <2>2, RoutedKept
<1>9. CASE ScanFails \/ Finish
  <2>1. call = None /\ UNCHANGED <<ran, local>>
    BY <1>9 DEF ScanFails, Finish, MayUpdate, MayAdd, IInv, Shape, PhaseShape
  <2> QED BY <2>1, RoutedKept
<1>10. ASSUME NEW d \in Dev, Compare(d)
       PROVE  RoutedIsListed'
  BY <1>10, CompareKeeps, RoutedKept DEF Compare
<1>11. ASSUME NEW d \in Dev, JoinTellsRan(d)
       PROVE  RoutedIsListed'
  <2>1. \A e \in Dev : ran[e] = None => ran'[e] = None
    BY <1>11 DEF JoinTellsRan, IInv, TypeOK
  <2> QED BY <1>11, <2>1, RoutedKept DEF JoinTellsRan, syncing
<1>12. ASSUME NEW d \in Dev, JoinLocal(d)
       PROVE  RoutedIsListed'
  <2>1. join.rec \in Device /\ join.rec # None
    BY <1>12, DistinctAssumption DEF JoinLocal, Joining, IInv, TypeOK
  <2>2. \A e \in Dev : local[e] # None => local'[e] # None
    BY <1>12, <2>1 DEF JoinLocal, IInv, TypeOK
  <2> QED BY <1>12, <2>2, RoutedKept DEF JoinLocal, syncing
<1>13. ASSUME NEW d \in Dev, JoinRequest(d) \/ JoinAccept(d) \/ JoinUnchanged(d) \/ JoinFails(d)
       PROVE  RoutedIsListed'
  BY <1>13 DEF JoinRequest, JoinAccept, JoinUnchanged, JoinFails, syncing, RoutedIsListed
<1>14. ASSUME NEW d \in Dev, Pull(d) \/ NewSession(d) \/ Touch(d) \/ Tag(d)
       PROVE  RoutedIsListed'
  BY <1>14 DEF Pull, NewSession, Touch, Tag, syncing, RoutedIsListed
<1>15. CASE ListDevices \/ EndScan \/ UNCHANGED vars
  BY <1>15 DEF ListDevices, EndScan, vars, RoutedIsListed
<1> QED BY <1>1, <1>2, <1>3, <1>4, <1>5, <1>6, <1>7, <1>8, <1>9, <1>10, <1>11, <1>12, <1>13,
           <1>14, <1>15 DEF Next, Sync, Join

\* A removed device does not linger in the RAN: while the answers of inserts and
\* deletes arrive, the RAN routes only what is listed or what the sync is at.
THEOREM RoutedAreListed ==
    ASSUME Alone \/ JoinedOnce, {"insert", "delete"} \cap Fails = {}
    PROVE  Spec => []RoutedIsListed
<1>1. Spec => [](IInv /\ GoneIsListed /\ MapAgrees)
  <2>1. CASE Alone
    <3>1. AInv => IInv /\ GoneIsListed /\ MapAgrees
      BY DEF AInv
    <3> QED BY <2>1, <3>1, AloneInit, AloneNext, PTL DEF Spec
  <2>2. CASE JoinedOnce
    <3>1. JInv => IInv /\ GoneIsListed /\ MapAgrees
      BY DEF JInv
    <3> QED BY <2>2, <3>1, JoinedAlways, PTL
  <2> QED BY <2>1, <2>2
<1>2. Init => RoutedIsListed
  BY DEF Init, RoutedIsListed
<1>3. (IInv /\ GoneIsListed /\ MapAgrees) /\ RoutedIsListed /\ [Next]_vars => RoutedIsListed'
  BY RoutedStep
<1> QED BY <1>1, <1>2, <1>3, PTL DEF Spec
=============================================================================
