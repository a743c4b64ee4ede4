---------------------- MODULE ApplicationSync_proofs ----------------------
(***************************************************************************)
(* Theorems about ApplicationSync, for every set of applications and        *)
(* devices and every page size: what is listed is routed, what is routed    *)
(* and not listed has a known cause, and so has every removal, which rests  *)
(* on the pages of a list that stays the same holding all of it.            *)
(***************************************************************************)
EXTENDS ApplicationSync, FiniteSetTheorems, TLAPS

\* Only the p first pages of a list of p items hold anything.
LEMMA PagesBounded ==
    ASSUME NEW all, IsFiniteSet(all), all \subseteq Int, NEW p \in Nat, Page(all, p + 1) # {}
    PROVE  p + 1 <= Cardinality(all)
<1>1. PICK x \in all : Cardinality({y \in all : y < x}) \div PageSize = (p + 1) - 1
  BY Zenon DEF Page
<1> DEFINE before == {y \in all : y < x}
<1>2. IsFiniteSet(all \ {x}) /\ Cardinality(all \ {x}) = Cardinality(all) - 1
  BY FS_RemoveElement
<1>3. before \subseteq all \ {x}
  OBVIOUS
<1>4. IsFiniteSet(before) /\ Cardinality(before) <= Cardinality(all \ {x})
  BY <1>2, <1>3, FS_Subset
<1>5. Cardinality(before) \in Nat /\ Cardinality(all) \in Nat
  BY <1>4, FS_CardinalityType
<1>6. ASSUME NEW c \in Nat, NEW k \in Nat \ {0}, c \div k = p
      PROVE  p <= c
  BY <1>6
<1> QED
  BY <1>1, <1>2, <1>4, <1>5, <1>6, ApplicationAssumption

-----------------------------------------------------------------------------
\* The type invariant (TypeOK) holds of every instance.
THEOREM TypeCorrect == Spec => []TypeOK
<1> USE DEF TypeOK, TtiTypeOK, ListsTypeOK, WalkTypeOK
<1>0. Cardinality(App) \in Nat /\ Cardinality(Dev) \in Nat
  BY ApplicationAssumption, FS_CardinalityType
<1>1. Init => TypeOK
  <2> SUFFICES ASSUME Init PROVE TypeOK
    OBVIOUS
  <2>1. TtiTypeOK /\ ListsTypeOK
    BY ApplicationAssumption DEF Init
  <2>2. WalkTypeOK
    BY <1>0 DEF Init
  <2> QED
    BY <2>1, <2>2, Zenon DEF Init
<1>2. TypeOK /\ [Next]_vars => TypeOK'
  <2> SUFFICES ASSUME TypeOK, [Next]_vars PROVE TypeOK'
    OBVIOUS
  <2> USE <1>0, ApplicationAssumption DEF Event, walk, tti, apply, Call
  <2>1. CASE UNCHANGED vars
    <3>11. TtiTypeOK' /\ ListsTypeOK'
      BY <2>1 DEF vars
    <3>12. WalkTypeOK'
      BY <2>1 DEF vars
    <3>13. (changed \in BOOLEAN)'
      BY <2>1, Zenon DEF vars
    <3> QED
      BY <3>11, <3>12, <3>13, Zenon
  <2>2. ASSUME NEW a \in App, Created(a) PROVE TypeOK'
    <3>11. TtiTypeOK' /\ ListsTypeOK'
      BY <2>2 DEF Created
    <3>12. WalkTypeOK'
      BY <2>2 DEF Created
    <3>13. (changed \in BOOLEAN)'
      BY <2>2, Zenon DEF Created
    <3> QED
      BY <3>11, <3>12, <3>13, Zenon
  <2>3. ASSUME NEW a \in App, Deleted(a) PROVE TypeOK'
    <3>11. TtiTypeOK' /\ ListsTypeOK'
      BY <2>3 DEF Deleted
    <3>12. WalkTypeOK'
      BY <2>3 DEF Deleted
    <3>13. (changed \in BOOLEAN)'
      BY <2>3, Zenon DEF Deleted
    <3> QED
      BY <3>11, <3>12, <3>13, Zenon
  <2>4. ASSUME NEW d \in Dev, DeviceDeleted(d) PROVE TypeOK'
    <3>11. TtiTypeOK' /\ ListsTypeOK'
      BY <2>4 DEF DeviceDeleted
    <3>12. WalkTypeOK'
      BY <2>4 DEF DeviceDeleted
    <3>13. (changed \in BOOLEAN)'
      BY <2>4, Zenon DEF DeviceDeleted
    <3> QED
      BY <3>11, <3>12, <3>13, Zenon
  <2>5. ASSUME NEW d \in Dev, NEW a \in App, DeviceCreated(d, a) PROVE TypeOK'
    <3>11. TtiTypeOK' /\ ListsTypeOK'
      BY <2>5 DEF DeviceCreated
    <3>12. WalkTypeOK'
      BY <2>5 DEF DeviceCreated
    <3>13. (changed \in BOOLEAN)'
      BY <2>5, Zenon DEF DeviceCreated
    <3> QED
      BY <3>11, <3>12, <3>13, Zenon
  <2>6. CASE Begin
    <3>11. TtiTypeOK' /\ ListsTypeOK'
      BY <2>6 DEF Begin
    <3>12. WalkTypeOK'
      BY <2>6 DEF Begin
    <3>13. (changed \in BOOLEAN)'
      BY <2>6, Zenon DEF Begin
    <3> QED
      BY <3>11, <3>12, <3>13, Zenon
  <2>7. CASE AskApplications
    <3>1. IsFiniteSet(apps) /\ Cardinality(apps) <= Cardinality(App) /\ apps \subseteq Int
      BY FS_Subset
    <3>2. Page(apps, page + 1) \subseteq App
      BY DEF Page
    <3>3. page + 1 <= Cardinality(apps) /\ Cardinality(apps) \in Nat
      <4>1. page \in Nat /\ Page(apps, page + 1) # {}
        BY <2>7 DEF AskApplications
      <4> QED
        BY <4>1, <3>1, PagesBounded, FS_CardinalityType
    <3>11. TtiTypeOK' /\ ListsTypeOK'
      BY <2>7, <3>1, <3>2, <3>3 DEF AskApplications
    <3>12. WalkTypeOK'
      BY <2>7, <3>1, <3>2, <3>3 DEF AskApplications
    <3>13. (changed \in BOOLEAN)'
      BY <2>7, Zenon DEF AskApplications
    <3> QED
      BY <3>11, <3>12, <3>13, Zenon
  <2>8. CASE Prune
    <3>1. UNION {listed[a] : a \in App \ seen} \subseteq Dev
      OBVIOUS
    <3>2. (listed \in [App -> SUBSET Dev])'
      BY <2>8 DEF Prune
    <3>11. TtiTypeOK' /\ ListsTypeOK'
      BY <2>8, <3>1, <3>2 DEF Prune
    <3>12. WalkTypeOK'
      BY <2>8 DEF Prune
    <3>13. (changed \in BOOLEAN)'
      BY <2>8, Zenon DEF Prune
    <3> QED
      BY <3>11, <3>12, <3>13, Zenon
  <2>9. CASE AskDevices
    <3>1. IsFiniteSet(Members(cur)) /\ Cardinality(Members(cur)) <= Cardinality(Dev)
      BY FS_Subset DEF Members
    <3>2. Page(Members(cur), devPage + 1) \subseteq Dev /\ Members(cur) \subseteq Int
      BY DEF Page, Members
    <3>3. devPage + 1 <= Cardinality(Members(cur)) /\ Cardinality(Members(cur)) \in Nat
      <4>1. devPage \in Nat /\ Page(Members(cur), devPage + 1) # {}
        BY <2>9 DEF AskDevices
      <4> QED
        BY <4>1, <3>1, <3>2, PagesBounded, FS_CardinalityType
    <3>11. TtiTypeOK' /\ ListsTypeOK'
      BY <2>9, <3>1, <3>2, <3>3 DEF AskDevices
    <3>12. WalkTypeOK'
      BY <2>9, <3>1, <3>2, <3>3 DEF AskDevices
    <3>13. (changed \in BOOLEAN)'
      BY <2>9, Zenon DEF AskDevices
    <3> QED
      BY <3>11, <3>12, <3>13, Zenon
  <2>10. CASE Compare
    <3>1. cur \in App /\ listed[cur] \subseteq Dev
      BY <2>10 DEF Compare
    <3>11. TtiTypeOK' /\ ListsTypeOK'
      BY <2>10 DEF Compare
    <3>2. (removing \subseteq Dev /\ adding \subseteq Dev)'
      BY <2>10, <3>1 DEF Compare
    <3>3. /\ phase' = "apply" /\ devPage' = 0 /\ found' = {}
          /\ UNCHANGED <<page, batch, seen, cur, pulls, call>>
      BY <2>10 DEF Compare
    <3>12. WalkTypeOK'
      BY <3>2, <3>3
    <3>13. (changed \in BOOLEAN)'
      BY <2>10, Zenon DEF Compare
    <3> QED
      BY <3>11, <3>12, <3>13, Zenon
  <2>11. CASE ApplicationDone
    <3>11. TtiTypeOK' /\ ListsTypeOK'
      BY <2>11 DEF ApplicationDone
    <3>12. WalkTypeOK'
      BY <2>11 DEF ApplicationDone
    <3>13. (changed \in BOOLEAN)'
      BY <2>11, Zenon DEF ApplicationDone
    <3> QED
      BY <3>11, <3>12, <3>13, Zenon
  <2>12. CASE Gone
    <3>11. TtiTypeOK' /\ ListsTypeOK'
      BY <2>12 DEF Gone, GiveUp
    <3>12. WalkTypeOK'
      BY <2>12 DEF Gone, GiveUp
    <3>13. (changed \in BOOLEAN)'
      BY <2>12, Zenon DEF Gone, GiveUp
    <3> QED
      BY <3>11, <3>12, <3>13, Zenon
  <2>13. ASSUME NEW a \in App, Visit(a) PROVE TypeOK'
    <3>11. TtiTypeOK' /\ ListsTypeOK'
      BY <2>13 DEF Visit
    <3>12. WalkTypeOK'
      BY <2>13 DEF Visit
    <3>13. (changed \in BOOLEAN)'
      BY <2>13, Zenon DEF Visit
    <3> QED
      BY <3>11, <3>12, <3>13, Zenon
  <2>14. ASSUME NEW d \in Dev, Pull(d) PROVE TypeOK'
    <3>11. TtiTypeOK' /\ ListsTypeOK'
      BY <2>14 DEF Pull
    <3>12. WalkTypeOK'
      BY <2>14 DEF Pull
    <3>13. (changed \in BOOLEAN)'
      BY <2>14, Zenon DEF Pull
    <3> QED
      BY <3>11, <3>12, <3>13, Zenon
  <2>15. ASSUME NEW d \in Dev, RemoveLocal(d) PROVE TypeOK'
    <3>11. TtiTypeOK' /\ ListsTypeOK'
      BY <2>15 DEF RemoveLocal
    <3>12. WalkTypeOK'
      BY <2>15 DEF RemoveLocal
    <3>13. (changed \in BOOLEAN)'
      BY <2>15, Zenon DEF RemoveLocal
    <3> QED
      BY <3>11, <3>12, <3>13, Zenon
  <2>16. ASSUME NEW d \in Dev, RanDelete(d) PROVE TypeOK'
    <3>11. TtiTypeOK' /\ ListsTypeOK'
      BY <2>16 DEF RanDelete
    <3>12. WalkTypeOK'
      BY <2>16 DEF RanDelete
    <3>13. (changed \in BOOLEAN)'
      BY <2>16, Zenon DEF RanDelete
    <3> QED
      BY <3>11, <3>12, <3>13, Zenon
  <2>20. ASSUME NEW d \in Dev, RanInsert(d) PROVE TypeOK'
    <3>11. TtiTypeOK' /\ ListsTypeOK'
      BY <2>20 DEF RanInsert
    <3>12. WalkTypeOK'
      BY <2>20 DEF RanInsert
    <3>13. (changed \in BOOLEAN)'
      BY <2>20, Zenon DEF RanInsert
    <3> QED
      BY <3>11, <3>12, <3>13, Zenon
  <2>21. ASSUME NEW d \in Dev, AddLocal(d) PROVE TypeOK'
    <3>11. TtiTypeOK' /\ ListsTypeOK'
      BY <2>21 DEF AddLocal
    <3>12. WalkTypeOK'
      BY <2>21 DEF AddLocal
    <3>13. (changed \in BOOLEAN)'
      BY <2>21, Zenon DEF AddLocal
    <3> QED
      BY <3>11, <3>12, <3>13, Zenon
  <2>17. CASE TtiFails
    <3>11. TtiTypeOK' /\ ListsTypeOK'
      BY <2>17 DEF TtiFails, GiveUp
    <3>12. WalkTypeOK'
      BY <2>17 DEF TtiFails, GiveUp
    <3>13. (changed \in BOOLEAN)'
      BY <2>17, Zenon DEF TtiFails, GiveUp
    <3> QED
      BY <3>11, <3>12, <3>13, Zenon
  <2>18. ASSUME NEW d \in Dev, RemoveFails(d) PROVE TypeOK'
    <3>1. TtiTypeOK'
      BY <2>18 DEF RemoveFails, GiveUp
    <3>2. routed' \in {routed, routed \ {d}} /\ listed' = listed
      BY <2>18 DEF RemoveFails
    <3>3. orphan' \subseteq routed'
      BY <2>18 DEF RemoveFails
    <3>4. (routed \subseteq Dev /\ orphan \subseteq Dev)'
      BY <3>2, <3>3
    <3>5. (listed \in [App -> SUBSET Dev])'
      BY <3>2
    <3>11. TtiTypeOK' /\ ListsTypeOK'
      BY <3>1, <3>4, <3>5
    <3>12. WalkTypeOK'
      BY <2>18 DEF RemoveFails, GiveUp
    <3>13. (changed \in BOOLEAN)'
      BY <2>18, Zenon DEF RemoveFails, GiveUp
    <3> QED
      BY <3>11, <3>12, <3>13, Zenon
  <2>19. ASSUME NEW d \in Dev, AddFails(d) PROVE TypeOK'
    <3>1. TtiTypeOK'
      BY <2>19 DEF AddFails, GiveUp
    <3>2. orphan' \subseteq orphan \cup {d} /\ UNCHANGED <<routed, listed>>
      BY <2>19 DEF AddFails
    <3>11. TtiTypeOK' /\ ListsTypeOK'
      BY <3>1, <3>2
    <3>12. WalkTypeOK'
      BY <2>19 DEF AddFails, GiveUp
    <3>13. (changed \in BOOLEAN)'
      BY <2>19, Zenon DEF AddFails, GiveUp
    <3> QED
      BY <3>11, <3>12, <3>13, Zenon
  <2> QED
    BY <2>1, <2>2, <2>3, <2>4, <2>5, <2>6, <2>7, <2>8, <2>9, <2>10, <2>11, <2>12, <2>13, <2>14, <2>15, <2>16, <2>17, <2>18, <2>19, <2>20, <2>21, Zenon
       DEF Next, Environment, SyncStep, Failure
<1> QED
  BY <1>1, <1>2, PTL DEF Spec
-----------------------------------------------------------------------------
(* The inductive invariant behind ListedIsRouted: whatever a sync has in    *)
(* its hands of a device was found in an application the device was in.     *)

HomeKnown == \A d \in Dev : home[d] \in App => home[d] \in homes[d]

ListsOwn == \A a \in App : \A d \in listed[a] : a \in homes[d]

WalkOwn == \A d \in found \cup adding \cup removing : cur \in App /\ cur \in homes[d]

WalkShape ==
    /\ phase = "devices" \/ found = {}
    /\ phase = "apply" \/ (adding = {} /\ removing = {})
    /\ phase \in {"devices", "apply"} => cur \in App

\* What is being deleted has left the list, what is being inserted the RAN has.
CallShape ==
    call # None =>
        /\ phase = "apply" /\ cur \in homes[call.dev]
        /\ call.op = "delete" => call.dev \notin listed[cur]
        /\ call.op = "insert" => call.dev \in routed

IInv ==
    /\ HomeKnown /\ ListsOwn /\ WalkOwn /\ WalkShape /\ CallShape
    /\ ListedIsRouted /\ LeftoversExplained

\* A step that drops no list's device keeps ListedIsRouted ...
LEMMA ListedKept ==
    ASSUME TypeOK, ListedIsRouted, listed' = listed, routed \subseteq routed',
           \A d \in Dev : homes[d] \subseteq homes'[d]
    PROVE  ListedIsRouted'
<1> SUFFICES ASSUME NEW a \in App, NEW d \in listed[a], d \notin routed'
             PROVE  Moved(d)'
  BY DEF ListedIsRouted
<1>1. d \in Dev
  BY DEF TypeOK, ListsTypeOK
<1>2. PICK b, c \in homes[d] : b # c
  BY DEF ListedIsRouted, Moved
<1> QED BY <1>1, <1>2 DEF Moved

\* ... and one that touches neither list, table nor call keeps LeftoversExplained.
LEMMA LeftoversKept ==
    ASSUME LeftoversExplained, UNCHANGED <<routed, listed, orphan, call>>
    PROVE  LeftoversExplained'
BY DEF LeftoversExplained

\* The inductive invariant holds of every reachable state.
LEMMA IInvHolds == Spec => []IInv
<1> USE DEF IInv
<1>1. Init => IInv
  <2> SUFFICES ASSUME Init PROVE IInv
    OBVIOUS
  <2>1. HomeKnown /\ WalkOwn /\ WalkShape /\ CallShape
    BY ApplicationAssumption DEF Init, HomeKnown, WalkOwn, WalkShape, CallShape
  <2>2. \A a \in App : listed[a] = {}
    BY DEF Init
  <2> QED
    BY <2>1, <2>2 DEF Init, ListsOwn, ListedIsRouted, LeftoversExplained
<1>2. TypeOK /\ IInv /\ [Next]_vars => IInv'
  <2> SUFFICES ASSUME TypeOK, IInv, [Next]_vars PROVE IInv'
    OBVIOUS
  <2> USE ApplicationAssumption DEF Event, walk, tti, apply, Call, TypeOK, TtiTypeOK, ListsTypeOK, WalkTypeOK
  <2>1. CASE UNCHANGED vars
    <3>1. HomeKnown'
      BY <2>1 DEF vars, HomeKnown
    <3>2. ListsOwn'
      BY <2>1 DEF vars, ListsOwn, WalkOwn
    <3>3. WalkOwn' /\ WalkShape'
      BY <2>1 DEF vars, WalkOwn, WalkShape
    <3>4. ListedIsRouted'
      <4>1. listed' = listed /\ routed \subseteq routed' /\ \A d \in Dev : homes[d] \subseteq homes'[d]
        BY <2>1 DEF vars
      <4> QED BY <4>1, ListedKept
    <3>5. LeftoversExplained'
      <4>1. UNCHANGED <<routed, listed, orphan, call>>
        BY <2>1 DEF vars
      <4> QED BY <4>1, LeftoversKept
    <3>6. CallShape'
      BY <2>1 DEF vars, CallShape, WalkShape
    <3> QED
      BY <3>1, <3>2, <3>3, <3>4, <3>5, <3>6
  <2>2. ASSUME NEW a \in App, Created(a) PROVE IInv'
    <3>1. HomeKnown'
      BY <2>2 DEF Created, HomeKnown
    <3>2. ListsOwn'
      BY <2>2 DEF Created, ListsOwn, WalkOwn
    <3>3. WalkOwn' /\ WalkShape'
      BY <2>2 DEF Created, WalkOwn, WalkShape
    <3>4. ListedIsRouted'
      <4>1. listed' = listed /\ routed \subseteq routed' /\ \A d \in Dev : homes[d] \subseteq homes'[d]
        BY <2>2 DEF Created
      <4> QED BY <4>1, ListedKept
    <3>5. LeftoversExplained'
      <4>1. UNCHANGED <<routed, listed, orphan, call>>
        BY <2>2 DEF Created
      <4> QED BY <4>1, LeftoversKept
    <3>6. CallShape'
      BY <2>2 DEF Created, CallShape, WalkShape
    <3> QED
      BY <3>1, <3>2, <3>3, <3>4, <3>5, <3>6
  <2>3. ASSUME NEW a \in App, Deleted(a) PROVE IInv'
    <3>1. HomeKnown'
      BY <2>3 DEF Deleted, HomeKnown
    <3>2. ListsOwn'
      BY <2>3 DEF Deleted, ListsOwn, WalkOwn
    <3>3. WalkOwn' /\ WalkShape'
      BY <2>3 DEF Deleted, WalkOwn, WalkShape
    <3>4. ListedIsRouted'
      <4>1. listed' = listed /\ routed \subseteq routed' /\ \A d \in Dev : homes[d] \subseteq homes'[d]
        BY <2>3 DEF Deleted
      <4> QED BY <4>1, ListedKept
    <3>5. LeftoversExplained'
      <4>1. UNCHANGED <<routed, listed, orphan, call>>
        BY <2>3 DEF Deleted
      <4> QED BY <4>1, LeftoversKept
    <3>6. CallShape'
      BY <2>3 DEF Deleted, CallShape, WalkShape
    <3> QED
      BY <3>1, <3>2, <3>3, <3>4, <3>5, <3>6
  <2>4. ASSUME NEW e \in Dev, DeviceDeleted(e) PROVE IInv'
    <3>1. HomeKnown'
      BY <2>4 DEF DeviceDeleted, HomeKnown
    <3>2. ListsOwn'
      BY <2>4 DEF DeviceDeleted, ListsOwn, WalkOwn
    <3>3. WalkOwn' /\ WalkShape'
      BY <2>4 DEF DeviceDeleted, WalkOwn, WalkShape
    <3>4. ListedIsRouted'
      <4>1. listed' = listed /\ routed \subseteq routed' /\ \A d \in Dev : homes[d] \subseteq homes'[d]
        BY <2>4 DEF DeviceDeleted
      <4> QED BY <4>1, ListedKept
    <3>5. LeftoversExplained'
      <4>1. UNCHANGED <<routed, listed, orphan, call>>
        BY <2>4 DEF DeviceDeleted
      <4> QED BY <4>1, LeftoversKept
    <3>6. CallShape'
      BY <2>4 DEF DeviceDeleted, CallShape, WalkShape
    <3> QED
      BY <3>1, <3>2, <3>3, <3>4, <3>5, <3>6
  <2>5. ASSUME NEW e \in Dev, NEW a \in App, DeviceCreated(e, a) PROVE IInv'
    <3>1. HomeKnown'
      BY <2>5 DEF DeviceCreated, HomeKnown
    <3>2. ListsOwn'
      BY <2>5 DEF DeviceCreated, ListsOwn, WalkOwn
    <3>3. WalkOwn' /\ WalkShape'
      BY <2>5 DEF DeviceCreated, WalkOwn, WalkShape
    <3>4. ListedIsRouted'
      <4>1. listed' = listed /\ routed \subseteq routed' /\ \A d \in Dev : homes[d] \subseteq homes'[d]
        BY <2>5 DEF DeviceCreated
      <4> QED BY <4>1, ListedKept
    <3>5. LeftoversExplained'
      <4>1. UNCHANGED <<routed, listed, orphan, call>>
        BY <2>5 DEF DeviceCreated
      <4> QED BY <4>1, LeftoversKept
    <3>6. CallShape'
      BY <2>5 DEF DeviceCreated, CallShape, WalkShape
    <3> QED
      BY <3>1, <3>2, <3>3, <3>4, <3>5, <3>6
  <2>6. CASE Begin
    <3>1. HomeKnown'
      BY <2>6 DEF Begin, HomeKnown
    <3>2. ListsOwn'
      BY <2>6 DEF Begin, ListsOwn, WalkOwn
    <3>3. WalkOwn' /\ WalkShape'
      BY <2>6 DEF Begin, WalkOwn, WalkShape
    <3>4. ListedIsRouted'
      <4>1. listed' = listed /\ routed \subseteq routed' /\ \A d \in Dev : homes[d] \subseteq homes'[d]
        BY <2>6 DEF Begin
      <4> QED BY <4>1, ListedKept
    <3>5. LeftoversExplained'
      <4>1. UNCHANGED <<routed, listed, orphan, call>>
        BY <2>6 DEF Begin
      <4> QED BY <4>1, LeftoversKept
    <3>6. CallShape'
      BY <2>6 DEF Begin, CallShape, WalkShape
    <3> QED
      BY <3>1, <3>2, <3>3, <3>4, <3>5, <3>6
  <2>7. CASE AskApplications
    <3>1. HomeKnown'
      BY <2>7 DEF AskApplications, HomeKnown
    <3>2. ListsOwn'
      BY <2>7 DEF AskApplications, ListsOwn, WalkOwn
    <3>3. WalkOwn' /\ WalkShape'
      BY <2>7 DEF AskApplications, WalkOwn, WalkShape
    <3>4. ListedIsRouted'
      <4>1. listed' = listed /\ routed \subseteq routed' /\ \A d \in Dev : homes[d] \subseteq homes'[d]
        BY <2>7 DEF AskApplications
      <4> QED BY <4>1, ListedKept
    <3>5. LeftoversExplained'
      <4>1. UNCHANGED <<routed, listed, orphan, call>>
        BY <2>7 DEF AskApplications
      <4> QED BY <4>1, LeftoversKept
    <3>6. CallShape'
      BY <2>7 DEF AskApplications, CallShape, WalkShape
    <3> QED
      BY <3>1, <3>2, <3>3, <3>4, <3>5, <3>6
  <2>8. CASE Prune
    <3>1. HomeKnown'
      BY <2>8 DEF Prune, HomeKnown
    <3>2. ListsOwn'
      BY <2>8 DEF Prune, ListsOwn, WalkOwn
    <3>3. WalkOwn' /\ WalkShape'
      BY <2>8 DEF Prune, WalkOwn, WalkShape
    <3>4. ListedIsRouted'
      BY <2>8 DEF Prune, ListedIsRouted, Moved
    <3>5. LeftoversExplained'
      BY <2>8 DEF Prune, LeftoversExplained
    <3>6. CallShape'
      BY <2>8 DEF Prune, CallShape, WalkShape
    <3> QED
      BY <3>1, <3>2, <3>3, <3>4, <3>5, <3>6
  <2>9. CASE AskDevices
    <3>1. HomeKnown'
      BY <2>9 DEF AskDevices, HomeKnown
    <3>2. ListsOwn'
      BY <2>9 DEF AskDevices, ListsOwn, WalkOwn
    <3>3. WalkOwn' /\ WalkShape'
      BY <2>9 DEF AskDevices, WalkOwn, WalkShape
    <3>4. ListedIsRouted'
      <4>1. listed' = listed /\ routed \subseteq routed' /\ \A d \in Dev : homes[d] \subseteq homes'[d]
        BY <2>9 DEF AskDevices
      <4> QED BY <4>1, ListedKept
    <3>5. LeftoversExplained'
      <4>1. UNCHANGED <<routed, listed, orphan, call>>
        BY <2>9 DEF AskDevices
      <4> QED BY <4>1, LeftoversKept
    <3>6. CallShape'
      BY <2>9 DEF AskDevices, CallShape, WalkShape
    <3> QED
      BY <3>1, <3>2, <3>3, <3>4, <3>5, <3>6
  <2>10. CASE Compare
    <3>1. HomeKnown'
      BY <2>10 DEF Compare, HomeKnown
    <3>2. ListsOwn'
      BY <2>10 DEF Compare, ListsOwn, WalkOwn
    <3>3. WalkOwn' /\ WalkShape'
      <4>1. cur \in App /\ cur' = cur /\ found' = {} /\ homes' = homes /\ phase' = "apply"
        BY <2>10 DEF Compare, WalkShape
      <4>2. removing' \subseteq listed[cur] /\ adding' \subseteq found
        BY <2>10 DEF Compare
      <4> QED
        BY <4>1, <4>2 DEF WalkOwn, WalkShape, ListsOwn
    <3>4. ListedIsRouted'
      <4>1. listed' = listed /\ routed \subseteq routed' /\ \A d \in Dev : homes[d] \subseteq homes'[d]
        BY <2>10 DEF Compare
      <4> QED BY <4>1, ListedKept
    <3>5. LeftoversExplained'
      <4>1. UNCHANGED <<routed, listed, orphan, call>>
        BY <2>10 DEF Compare
      <4> QED BY <4>1, LeftoversKept
    <3>6. CallShape'
      BY <2>10 DEF Compare, CallShape, WalkShape
    <3> QED
      BY <3>1, <3>2, <3>3, <3>4, <3>5, <3>6
  <2>11. CASE ApplicationDone
    <3>1. HomeKnown'
      BY <2>11 DEF ApplicationDone, HomeKnown
    <3>2. ListsOwn'
      BY <2>11 DEF ApplicationDone, ListsOwn, WalkOwn
    <3>3. WalkOwn' /\ WalkShape'
      BY <2>11 DEF ApplicationDone, WalkOwn, WalkShape
    <3>4. ListedIsRouted'
      <4>1. listed' = listed /\ routed \subseteq routed' /\ \A d \in Dev : homes[d] \subseteq homes'[d]
        BY <2>11 DEF ApplicationDone
      <4> QED BY <4>1, ListedKept
    <3>5. LeftoversExplained'
      <4>1. UNCHANGED <<routed, listed, orphan, call>>
        BY <2>11 DEF ApplicationDone
      <4> QED BY <4>1, LeftoversKept
    <3>6. CallShape'
      BY <2>11 DEF ApplicationDone, CallShape, WalkShape
    <3> QED
      BY <3>1, <3>2, <3>3, <3>4, <3>5, <3>6
  <2>12. CASE Gone
    <3>1. HomeKnown'
      BY <2>12 DEF Gone, GiveUp, HomeKnown
    <3>2. ListsOwn'
      BY <2>12 DEF Gone, GiveUp, ListsOwn, WalkOwn
    <3>3. WalkOwn' /\ WalkShape'
      BY <2>12 DEF Gone, GiveUp, WalkOwn, WalkShape
    <3>4. ListedIsRouted'
      <4>1. listed' = listed /\ routed \subseteq routed' /\ \A d \in Dev : homes[d] \subseteq homes'[d]
        BY <2>12 DEF Gone, GiveUp
      <4> QED BY <4>1, ListedKept
    <3>5. LeftoversExplained'
      <4>1. UNCHANGED <<routed, listed, orphan, call>>
        BY <2>12 DEF Gone, GiveUp, CallShape
      <4> QED BY <4>1, LeftoversKept
    <3>6. CallShape'
      BY <2>12 DEF Gone, GiveUp, CallShape, WalkShape
    <3> QED
      BY <3>1, <3>2, <3>3, <3>4, <3>5, <3>6
  <2>13. ASSUME NEW a \in App, Visit(a) PROVE IInv'
    <3>1. HomeKnown'
      BY <2>13 DEF Visit, HomeKnown
    <3>2. ListsOwn'
      BY <2>13 DEF Visit, ListsOwn, WalkOwn
    <3>3. WalkOwn' /\ WalkShape'
      BY <2>13 DEF Visit, WalkOwn, WalkShape
    <3>4. ListedIsRouted'
      <4>1. listed' = listed /\ routed \subseteq routed' /\ \A d \in Dev : homes[d] \subseteq homes'[d]
        BY <2>13 DEF Visit
      <4> QED BY <4>1, ListedKept
    <3>5. LeftoversExplained'
      <4>1. UNCHANGED <<routed, listed, orphan, call>>
        BY <2>13 DEF Visit
      <4> QED BY <4>1, LeftoversKept
    <3>6. CallShape'
      BY <2>13 DEF Visit, CallShape, WalkShape
    <3> QED
      BY <3>1, <3>2, <3>3, <3>4, <3>5, <3>6
  <2>14. ASSUME NEW e \in Dev, Pull(e) PROVE IInv'
    <3>1. HomeKnown'
      BY <2>14 DEF Pull, HomeKnown
    <3>2. ListsOwn'
      BY <2>14 DEF Pull, ListsOwn, WalkOwn
    <3>3. WalkOwn' /\ WalkShape'
      BY <2>14 DEF Pull, WalkOwn, WalkShape, HomeKnown
    <3>4. ListedIsRouted'
      <4>1. listed' = listed /\ routed \subseteq routed' /\ \A d \in Dev : homes[d] \subseteq homes'[d]
        BY <2>14 DEF Pull
      <4> QED BY <4>1, ListedKept
    <3>5. LeftoversExplained'
      <4>1. UNCHANGED <<routed, listed, orphan, call>>
        BY <2>14 DEF Pull
      <4> QED BY <4>1, LeftoversKept
    <3>6. CallShape'
      BY <2>14 DEF Pull, CallShape, WalkShape
    <3> QED
      BY <3>1, <3>2, <3>3, <3>4, <3>5, <3>6
  <2>15. ASSUME NEW e \in Dev, RemoveLocal(e) PROVE IInv'
    <3>1. HomeKnown'
      BY <2>15 DEF RemoveLocal, HomeKnown
    <3>2. ListsOwn'
      BY <2>15 DEF RemoveLocal, ListsOwn, WalkOwn, CallShape
    <3>3. WalkOwn' /\ WalkShape'
      BY <2>15 DEF RemoveLocal, WalkOwn, WalkShape
    <3>4. ListedIsRouted'
      BY <2>15 DEF RemoveLocal, ListedIsRouted, Moved, ListsOwn, WalkOwn, CallShape
    <3>5. LeftoversExplained'
      <4>1. /\ call = None /\ call' # None /\ call'.dev = e /\ UNCHANGED <<routed, orphan>>
            /\ \A a \in App : listed[a] \subseteq listed'[a] \cup {e}
        BY <2>15 DEF RemoveLocal
      <4> QED BY <4>1, Zenon DEF LeftoversExplained
    <3>6. CallShape'
      BY <2>15 DEF RemoveLocal, CallShape, WalkOwn, WalkShape
    <3> QED
      BY <3>1, <3>2, <3>3, <3>4, <3>5, <3>6
  <2>16. ASSUME NEW e \in Dev, RanDelete(e) PROVE IInv'
    <3>1. HomeKnown'
      BY <2>16 DEF RanDelete, HomeKnown
    <3>2. ListsOwn'
      BY <2>16 DEF RanDelete, ListsOwn, WalkOwn, CallShape
    <3>3. WalkOwn' /\ WalkShape'
      BY <2>16 DEF RanDelete, WalkOwn, WalkShape
    <3>4. ListedIsRouted'
      BY <2>16 DEF RanDelete, ListedIsRouted, Moved, ListsOwn, WalkOwn, CallShape
    <3>5. LeftoversExplained'
      BY <2>16 DEF RanDelete, LeftoversExplained
    <3>6. CallShape'
      BY <2>16 DEF RanDelete, CallShape, WalkOwn, WalkShape
    <3> QED
      BY <3>1, <3>2, <3>3, <3>4, <3>5, <3>6
  <2>20. ASSUME NEW e \in Dev, RanInsert(e) PROVE IInv'
    <3>1. HomeKnown'
      BY <2>20 DEF RanInsert, HomeKnown
    <3>2. ListsOwn'
      BY <2>20 DEF RanInsert, ListsOwn, WalkOwn, CallShape
    <3>3. WalkOwn' /\ WalkShape'
      BY <2>20 DEF RanInsert, WalkOwn, WalkShape
    <3>4. ListedIsRouted'
      <4>1. listed' = listed /\ routed \subseteq routed' /\ \A d \in Dev : homes[d] \subseteq homes'[d]
        BY <2>20 DEF RanInsert
      <4> QED BY <4>1, ListedKept
    <3>5. LeftoversExplained'
      BY <2>20 DEF RanInsert, LeftoversExplained
    <3>6. CallShape'
      BY <2>20 DEF RanInsert, CallShape, WalkOwn, WalkShape
    <3> QED
      BY <3>1, <3>2, <3>3, <3>4, <3>5, <3>6
  <2>21. ASSUME NEW e \in Dev, AddLocal(e) PROVE IInv'
    <3>1. HomeKnown'
      BY <2>21 DEF AddLocal, HomeKnown
    <3>2. ListsOwn'
      BY <2>21 DEF AddLocal, ListsOwn, WalkOwn, CallShape
    <3>3. WalkOwn' /\ WalkShape'
      BY <2>21 DEF AddLocal, WalkOwn, WalkShape
    <3>4. ListedIsRouted'
      BY <2>21 DEF AddLocal, ListedIsRouted, Moved, ListsOwn, WalkOwn, CallShape
    <3>5. LeftoversExplained'
      <4>1. /\ call # None /\ call.dev = e /\ routed' = routed /\ orphan \subseteq orphan' \cup {e}
            /\ \A a \in App : listed[a] \subseteq listed'[a]
        BY <2>21 DEF AddLocal
      <4>2. cur \in App /\ e \in listed'[cur]
        BY <2>21 DEF AddLocal, CallShape, WalkShape
      <4> QED BY <4>1, <4>2 DEF LeftoversExplained
    <3>6. CallShape'
      BY <2>21 DEF AddLocal, CallShape, WalkOwn, WalkShape
    <3> QED
      BY <3>1, <3>2, <3>3, <3>4, <3>5, <3>6
  <2>17. CASE TtiFails
    <3>1. HomeKnown'
      BY <2>17 DEF TtiFails, GiveUp, HomeKnown
    <3>2. ListsOwn'
      BY <2>17 DEF TtiFails, GiveUp, ListsOwn, WalkOwn
    <3>3. WalkOwn' /\ WalkShape'
      BY <2>17 DEF TtiFails, GiveUp, WalkOwn, WalkShape
    <3>4. ListedIsRouted'
      <4>1. listed' = listed /\ routed \subseteq routed' /\ \A d \in Dev : homes[d] \subseteq homes'[d]
        BY <2>17 DEF TtiFails, GiveUp
      <4> QED BY <4>1, ListedKept
    <3>5. LeftoversExplained'
      <4>1. UNCHANGED <<routed, listed, orphan, call>>
        BY <2>17 DEF TtiFails, GiveUp, CallShape
      <4> QED BY <4>1, LeftoversKept
    <3>6. CallShape'
      BY <2>17 DEF TtiFails, GiveUp, CallShape, WalkShape
    <3> QED
      BY <3>1, <3>2, <3>3, <3>4, <3>5, <3>6
  <2>18. ASSUME NEW e \in Dev, RemoveFails(e) PROVE IInv'
    <3>1. HomeKnown'
      BY <2>18 DEF RemoveFails, GiveUp, HomeKnown
    <3>2. ListsOwn'
      BY <2>18 DEF RemoveFails, GiveUp, ListsOwn, WalkOwn
    <3>3. WalkOwn' /\ WalkShape'
      BY <2>18 DEF RemoveFails, GiveUp, WalkOwn, WalkShape
    <3>4. ListedIsRouted'
      <4>1. call = Call("delete", e) /\ cur \in App
        BY <2>18 DEF RemoveFails, CallShape, WalkShape
      <4>2. call # None /\ call.dev = e /\ call.op = "delete"
        BY <4>1
      <4>3. cur \in homes[e] /\ e \notin listed[cur]
        BY <4>2 DEF CallShape
      <4>4. routed \ {e} \subseteq routed' /\ listed' = listed /\ homes' = homes
        BY <2>18 DEF RemoveFails, GiveUp
      <4>5. ASSUME NEW a \in App, e \in listed[a] PROVE Moved(e)
        BY <4>1, <4>3, <4>5 DEF ListsOwn, Moved
      <4> QED BY <4>4, <4>5 DEF ListedIsRouted, Moved
    <3>5. LeftoversExplained'
      BY <2>18 DEF RemoveFails, GiveUp, LeftoversExplained
    <3>6. CallShape'
      BY <2>18 DEF RemoveFails, GiveUp, CallShape, WalkShape
    <3> QED
      BY <3>1, <3>2, <3>3, <3>4, <3>5, <3>6
  <2>19. ASSUME NEW e \in Dev, AddFails(e) PROVE IInv'
    <3>1. HomeKnown'
      BY <2>19 DEF AddFails, GiveUp, HomeKnown
    <3>2. ListsOwn'
      BY <2>19 DEF AddFails, GiveUp, ListsOwn, WalkOwn
    <3>3. WalkOwn' /\ WalkShape'
      BY <2>19 DEF AddFails, GiveUp, WalkOwn, WalkShape
    <3>4. ListedIsRouted'
      <4>1. listed' = listed /\ routed \subseteq routed' /\ \A d \in Dev : homes[d] \subseteq homes'[d]
        BY <2>19 DEF AddFails, GiveUp
      <4> QED BY <4>1, ListedKept
    <3>5. LeftoversExplained'
      BY <2>19 DEF AddFails, GiveUp, LeftoversExplained
    <3>6. CallShape'
      BY <2>19 DEF AddFails, GiveUp, CallShape, WalkShape
    <3> QED
      BY <3>1, <3>2, <3>3, <3>4, <3>5, <3>6
  <2> QED
    BY <2>1, <2>2, <2>3, <2>4, <2>5, <2>6, <2>7, <2>8, <2>9, <2>10, <2>11, <2>12, <2>13, <2>14, <2>15, <2>16, <2>17, <2>18, <2>19, <2>20, <2>21, Zenon
       DEF Next, Environment, SyncStep, Failure
<1> QED
  BY <1>1, <1>2, TypeCorrect, PTL DEF Spec

\* For every set of applications and devices and every order of events: a listed
\* device is routed, unless it moved (ListedIsRouted).
THEOREM ListedStayRouted == Spec => []ListedIsRouted
BY IInvHolds, PTL DEF IInv

\* What is routed but not listed is what the sync is at, or was left by a dropped list, a
\* delete that raised, or an insert that took effect and raised (LeftoversExplained).
THEOREM LeftoversAreKnown == Spec => []LeftoversExplained
BY IInvHolds, PTL DEF IInv

-----------------------------------------------------------------------------
(* Pages without a change miss nothing                                      *)

\* How many items come before x: what its page depends on.
Rank(all, x) == Cardinality({y \in all : y < x})

\* No item comes after all the others and itself.
LEMMA RankBounded ==
    ASSUME NEW all, IsFiniteSet(all), all \subseteq Int, NEW x \in all
    PROVE  Cardinality(all) \in Nat /\ Rank(all, x) \in 0 .. Cardinality(all) - 1
<1> DEFINE before == {y \in all : y < x}
<1>1. IsFiniteSet(all \ {x}) /\ Cardinality(all \ {x}) = Cardinality(all) - 1
  BY FS_RemoveElement
<1>2. before \subseteq all \ {x}
  OBVIOUS
<1>3. IsFiniteSet(before) /\ Cardinality(before) <= Cardinality(all \ {x})
  BY <1>1, <1>2, FS_Subset
<1>4. Cardinality(before) \in Nat /\ Cardinality(all) \in Nat
  BY <1>3, FS_CardinalityType
<1> QED BY <1>1, <1>3, <1>4 DEF Rank

\* Two items have different ranks.
LEMMA RankRises ==
    ASSUME NEW all, IsFiniteSet(all), all \subseteq Int, NEW x \in all, NEW y \in all, x < y
    PROVE  Rank(all, x) # Rank(all, y)
<1> DEFINE to(z) == {w \in all : w < z}
<1>1. IsFiniteSet(to(y))
  BY FS_Subset
<1>2. to(x) \in SUBSET to(y) /\ x \in to(y) /\ x \notin to(x)
  <2>1. \A w \in all : w < x => w < y
    <3>1. \A u, v, w \in Int : u < v /\ v < w => u < w
      OBVIOUS
    <3> QED BY <3>1
  <2>2. ~(x < x)
    OBVIOUS
  <2> QED BY <2>1, <2>2
<1>3. Cardinality(to(y)) = Cardinality(to(x)) => to(y) = to(x)
  BY <1>1, <1>2, FS_Subset
<1> QED BY <1>2, <1>3 DEF Rank

\* Every rank below the number of items is some item's: n items with n - 1 ranks
\* would not fit.
LEMMA RankTaken ==
    ASSUME NEW all, IsFiniteSet(all), all \subseteq Int, NEW r \in 0 .. Cardinality(all) - 1
    PROVE  \E y \in all : Rank(all, y) = r
<1> SUFFICES ASSUME \A y \in all : Rank(all, y) # r PROVE FALSE
  OBVIOUS
<1> DEFINE n == Cardinality(all)
           ranks == (0 .. n - 1) \ {r}
           f == [x \in all |-> Rank(all, x)]
<1>1. n \in Nat
  BY FS_CardinalityType
<1>2. IsFiniteSet(0 .. n - 1) /\ Cardinality(0 .. n - 1) = n
  BY <1>1, FS_Interval
<1>3. IsFiniteSet(ranks) /\ Cardinality(ranks) = n - 1
  BY <1>2, FS_RemoveElement
<1>4. f \in [all -> ranks]
  BY RankBounded
<1>5. \A x, y \in all : x # y => f[x] # f[y]
  <2> SUFFICES ASSUME NEW x \in all, NEW y \in all, x # y PROVE f[x] # f[y]
    OBVIOUS
  <2>1. x < y \/ y < x
    OBVIOUS
  <2> QED BY <2>1, RankRises
<1> HIDE DEF f, ranks, n
<1>6. \E x, y \in all : x # y /\ f[x] = f[y]
  <2>1. Cardinality(ranks) < Cardinality(all)
    BY <1>1, <1>3 DEF n
  <2> QED BY <1>3, <1>4, <2>1, FS_PigeonHole
<1> QED BY <1>5, <1>6

\* Once a page is empty, so are all after it: the pages before it held every item,
\* and _paginate (api.py), which stops there, misses none of what stays.
THEOREM EmptyPageIsLast ==
    ASSUME NEW all, IsFiniteSet(all), all \subseteq Int, NEW p \in Nat, Page(all, p + 1) = {}
    PROVE  \A x \in all : Rank(all, x) \div PageSize < p
<1> SUFFICES ASSUME NEW x \in all, ~(Rank(all, x) \div PageSize < p) PROVE FALSE
  OBVIOUS
<1>1. Rank(all, x) \in 0 .. Cardinality(all) - 1 /\ Cardinality(all) \in Nat
  BY RankBounded
<1>2. ASSUME NEW k \in Nat \ {0}, NEW r \in Nat, ~(r \div k < p)
      PROVE  k * p \in Nat /\ k * p <= r /\ (k * p) \div k = p
  BY <1>2
<1>3. /\ PageSize * p \in Nat /\ PageSize * p <= Rank(all, x)
      /\ (PageSize * p) \div PageSize = p
  BY <1>1, <1>2, ApplicationAssumption
<1>4. PageSize * p \in 0 .. Cardinality(all) - 1
  BY <1>1, <1>3
<1>5. PICK y \in all : Rank(all, y) = PageSize * p
  BY <1>4, RankTaken
<1>6. Rank(all, y) \div PageSize = (p + 1) - 1
  BY <1>3, <1>5
<1> QED BY <1>6 DEF Page, Rank

-----------------------------------------------------------------------------
(* The inductive invariant behind DropsHaveCause: while TTI stays as it is, *)
(* what is on the pages asked for is found or about to be pulled.           *)

Walked ==
    changed = FALSE =>
        /\ phase = "devices" =>
              \A d \in Members(cur) :
                 Rank(Members(cur), d) \div PageSize < devPage => d \in found \cup pulls
        /\ phase = "apply" => \A d \in removing : home[d] # cur
        /\ call # None /\ call.op = "delete" => home[call.dev] # cur

LEMMA WalkedInit == Init => Walked
  BY DEF Init, Walked

LEMMA WalkedNext == ASSUME TypeOK, IInv, Walked, [Next]_vars PROVE Walked'
<1>1. \A a : IsFiniteSet(Members(a)) /\ Members(a) \subseteq Int
  BY ApplicationAssumption, FS_Subset DEF Members
<1>2. devPage \in Nat /\ PageSize \in Nat \ {0}
  BY ApplicationAssumption DEF TypeOK, WalkTypeOK
<1>3. CASE Environment
  <2>1. changed' = TRUE
    BY <1>3 DEF Environment, Created, Deleted, DeviceCreated, DeviceDeleted
  <2> QED BY <2>1 DEF Walked
<1>4. CASE Begin \/ AskApplications \/ Prune \/ ApplicationDone
  <2>1. call = None /\ call' = None /\ phase' # "devices" /\ phase' # "apply"
    BY <1>4 DEF Begin, AskApplications, Prune, ApplicationDone, apply, IInv, CallShape
  <2> QED BY <2>1 DEF Walked
<1>5. CASE Gone \/ TtiFails \/ \E d \in Dev : RemoveFails(d) \/ AddFails(d)
  BY <1>5 DEF Gone, TtiFails, RemoveFails, AddFails, GiveUp, Walked
<1>6. ASSUME NEW a \in App, Visit(a)
      PROVE  Walked'
  <2>1. \A d \in Members(a) : ~(Rank(Members(a), d) \div PageSize < 0)
    <3> SUFFICES ASSUME NEW d \in Members(a)
                 PROVE  ~(Rank(Members(a), d) \div PageSize < 0)
      OBVIOUS
    <3>1. Rank(Members(a), d) \in Nat
      BY <1>1, RankBounded
    <3> QED BY <1>2, <3>1
  <2>2. /\ phase' = "devices" /\ cur' = a /\ devPage' = 0
        /\ Members(cur)' = Members(a) /\ call' = None
    BY <1>6 DEF Visit, Members, tti, apply, IInv, CallShape
  <2> QED BY <2>1, <2>2 DEF Walked, Rank
<1>7. CASE AskDevices
  <2>1. ASSUME NEW d \in Members(cur), Rank(Members(cur), d) \div PageSize < devPage + 1,
               changed = FALSE
        PROVE  d \in found \cup Page(Members(cur), devPage + 1)
    <3>1. Rank(Members(cur), d) \in Nat
      BY <1>1, <2>1, RankBounded
    <3>2. \/ Rank(Members(cur), d) \div PageSize < devPage
          \/ Rank(Members(cur), d) \div PageSize = (devPage + 1) - 1
      BY <1>2, <2>1, <3>1
    <3>3. CASE Rank(Members(cur), d) \div PageSize < devPage
      BY <1>7, <2>1, <3>3 DEF AskDevices, Walked
    <3>4. CASE Rank(Members(cur), d) \div PageSize = (devPage + 1) - 1
      BY <2>1, <3>4 DEF Page, Rank
    <3> QED BY <3>2, <3>3, <3>4
  <2>2. /\ phase' = "devices" /\ devPage' = devPage + 1 /\ changed' = changed
        /\ pulls' = Page(Members(cur), devPage + 1) /\ UNCHANGED <<cur, home, found>>
        /\ call' = None
    BY <1>7 DEF AskDevices, tti, apply, IInv, CallShape
  <2> QED BY <2>1, <2>2 DEF Walked, Members, Rank
<1>8. ASSUME NEW d \in Dev, Pull(d)
      PROVE  Walked'
  <2>1. /\ UNCHANGED <<phase, devPage, changed, cur, home>> /\ phase = "devices"
        /\ found' \cup pulls' = found \cup pulls /\ call' = None
    BY <1>8 DEF Pull, tti, apply, IInv, CallShape
  <2> QED BY <2>1 DEF Walked, Members, Rank
<1>9. CASE Compare
  <2>1. \A d \in Members(cur) : Rank(Members(cur), d) \div PageSize < devPage
    BY <1>1, <1>2, <1>9, EmptyPageIsLast DEF Compare
  <2>2. changed = FALSE => Members(cur) \subseteq found
    BY <1>9, <2>1 DEF Compare, Walked
  <2>3. /\ phase' = "apply" /\ removing' = listed[cur] \ found
        /\ UNCHANGED <<changed, cur, home>> /\ call' = None
    BY <1>9 DEF Compare, tti, IInv, CallShape
  <2>4. changed = FALSE => \A d \in removing' : home[d] # cur
    <3>1. listed[cur] \subseteq Dev
      BY <1>9 DEF Compare, IInv, WalkShape, TypeOK, ListsTypeOK
    <3> QED BY <2>2, <2>3, <3>1 DEF Members
  <2> QED BY <2>3, <2>4 DEF Walked
<1>10. ASSUME NEW d \in Dev, RemoveLocal(d) \/ RanDelete(d) \/ RanInsert(d) \/ AddLocal(d)
       PROVE  Walked'
  <2>1. /\ phase = "apply" /\ removing' \subseteq removing
        /\ UNCHANGED <<phase, changed, cur, home>>
    BY <1>10, ApplicationAssumption
       DEF RemoveLocal, RanDelete, RanInsert, AddLocal, tti, walk, IInv, CallShape, Call
  <2>2. call' = None \/ call' = Call("insert", d) \/ (call' = Call("delete", d) /\ d \in removing)
    BY <1>10 DEF RemoveLocal, RanDelete, RanInsert, AddLocal
  <2> QED BY <2>1, <2>2 DEF Walked, Call
<1>11. CASE UNCHANGED vars
  <2>1. UNCHANGED <<phase, changed, cur, home, devPage, found, pulls, removing, call>>
    BY <1>11 DEF vars, tti, walk, apply
  <2> QED BY <2>1 DEF Walked, Members, Rank
<1> QED BY <1>3, <1>4, <1>5, <1>6, <1>7, <1>8, <1>9, <1>10, <1>11
        DEF Next, SyncStep, Failure

\* A sync during which TTI stays as it is removes from the RAN only devices that
\* left their application, whatever the page size (DropsHaveCause).
THEOREM DropsAreCaused == Spec => DropsHaveCause
<1>1. TypeOK /\ Walked /\ [Next]_vars
        => [\A d \in routed \ routed' : home[d] # cur \/ changed]_vars
  <2> SUFFICES ASSUME TypeOK, Walked, Next, NEW d \in routed \ routed'
               PROVE  home[d] # cur \/ changed
    OBVIOUS
  <2>1. routed' # routed
    OBVIOUS
  <2>2. PICK e \in Dev : RanDelete(e) \/ RemoveFails(e)
    BY <2>1 DEF Next, Environment, SyncStep, Failure, Created, Deleted, DeviceCreated,
       DeviceDeleted, Begin, AskApplications, Prune, AskDevices, Compare, ApplicationDone, Gone,
       GiveUp, Visit, Pull, RemoveLocal, RanInsert, AddLocal, TtiFails, AddFails
  <2>3. d = e /\ call = Call("delete", e)
    BY <2>2 DEF RanDelete, RemoveFails
  <2>4. changed \in BOOLEAN
    BY DEF TypeOK
  <2> QED BY <2>3, <2>4, ApplicationAssumption DEF Walked, Call
<1>2. TypeOK /\ IInv /\ Walked /\ [Next]_vars => Walked'
  BY WalkedNext
<1> QED BY <1>1, <1>2, TypeCorrect, IInvHolds, WalkedInit, PTL DEF Spec, DropsHaveCause
=============================================================================
