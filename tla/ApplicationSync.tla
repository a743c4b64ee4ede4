-------------------------- MODULE ApplicationSync --------------------------
(***************************************************************************)
(* MultiApplicationDeviceList.sync_from_remote (devices.py), called again   *)
(* and again by Periodic (utils.py): it walks the pages of the applications *)
(* and, in each, the pages of its devices, while both change in TTI, and    *)
(* brings the application's list and the RAN's routing table in line.       *)
(* Addresses, keys and tags are left to DeviceSync: here a device is listed *)
(* and routed, or not.                                                      *)
(***************************************************************************)
EXTENDS FiniteSets, Integers

CONSTANTS
    App, Dev,   \* identifiers: numbers, as TTI lists them in a fixed order
    PageSize,   \* items on a page (20 in the code)
    None,
    MaxEvents   \* bound: changes in TTI and failed calls in one behaviour

ASSUME ApplicationAssumption ==
    /\ App \subseteq Int /\ Dev \subseteq Int /\ IsFiniteSet(App) /\ IsFiniteSet(Dev)
    /\ PageSize \in Nat \ {0} /\ MaxEvents \in Nat
    /\ None \notin App \cup [op : {"insert", "delete"}, dev : Dev]

VARIABLES
    apps,       \* TTI: the applications
    home,       \* TTI: the application of each device, or None
    homes,      \* every application a device was ever in
    routed,     \* the RAN's routing table
    listed,     \* listed[a]: the devices of _applications[a]; {}: no such list
    phase,      \* where the sync is
    page, batch, seen,      \* the applications' pages, the rest of the last, those visited
    cur,                    \* the application being synced
    devPage, pulls, found,  \* the pages of its devices, the rest of the last, those pulled
    removing, adding,       \* what the sync of cur has left to apply
    call,       \* the call to the RAN the sync awaits, or None
    orphan,     \* routed devices a dropped list, a delete that raised, or an insert
                \* that the RAN took before it raised has left behind
    changed,    \* TTI changed since the sync began
    events

tti == <<apps, home, homes>>

walk == <<page, batch, seen, cur, devPage, pulls, found>>

apply == <<removing, adding, call>>

vars == <<tti, routed, listed, phase, walk, apply, orphan, changed, events>>

Call(op, d) == [op |-> op, dev |-> d]

Members(a) == {d \in Dev : home[d] = a}

TtiTypeOK ==
    /\ apps \subseteq App
    /\ home \in [Dev -> App \cup {None}]
    /\ homes \in [Dev -> SUBSET App]
    /\ events \in 0 .. MaxEvents

ListsTypeOK ==
    /\ routed \subseteq Dev /\ orphan \subseteq Dev
    /\ listed \in [App -> SUBSET Dev]

WalkTypeOK ==
    /\ phase \in {"idle", "apps", "devices", "apply"}
    /\ page \in 0 .. Cardinality(App) /\ batch \subseteq App /\ seen \subseteq App
    /\ cur \in App \cup {None}
    /\ devPage \in 0 .. Cardinality(Dev) /\ pulls \subseteq Dev /\ found \subseteq Dev
    /\ removing \subseteq Dev /\ adding \subseteq Dev
    /\ call \in [op : {"insert", "delete"}, dev : Dev] \cup {None}

TypeOK == TtiTypeOK /\ ListsTypeOK /\ WalkTypeOK /\ changed \in BOOLEAN

\* main empties the routing table before the first sync.
Init ==
    /\ apps = {} /\ home = [d \in Dev |-> None] /\ homes = [d \in Dev |-> {}]
    /\ routed = {} /\ listed = [a \in App |-> {}]
    /\ phase = "idle" /\ page = 0 /\ batch = {} /\ seen = {} /\ cur = None
    /\ devPage = 0 /\ pulls = {} /\ found = {} /\ removing = {} /\ adding = {} /\ call = None
    /\ orphan = {} /\ changed = FALSE /\ events = 0

-----------------------------------------------------------------------------
(* TTI.                                                                     *)

Event == events < MaxEvents /\ events' = events + 1

Created(a) ==
    /\ Event /\ changed' = TRUE
    /\ a \notin apps /\ apps' = apps \cup {a}
    /\ UNCHANGED <<home, homes, routed, listed, phase, walk, apply, orphan>>

\* Its devices go with it.
Deleted(a) ==
    /\ Event /\ changed' = TRUE
    /\ a \in apps /\ apps' = apps \ {a}
    /\ home' = [d \in Dev |-> IF home[d] = a THEN None ELSE home[d]]
    /\ UNCHANGED <<homes, routed, listed, phase, walk, apply, orphan>>

DeviceCreated(d, a) ==
    /\ Event /\ changed' = TRUE
    /\ a \in apps /\ home[d] = None
    /\ home' = [home EXCEPT ![d] = a]
    /\ homes' = [homes EXCEPT ![d] = @ \cup {a}]
    /\ UNCHANGED <<apps, routed, listed, phase, walk, apply, orphan>>

DeviceDeleted(d) ==
    /\ Event /\ changed' = TRUE
    /\ home[d] # None
    /\ home' = [home EXCEPT ![d] = None]
    /\ UNCHANGED <<apps, homes, routed, listed, phase, walk, apply, orphan>>

-----------------------------------------------------------------------------
(* The sync.                                                                *)

\* Seeded bug: the page number is not passed on.
SamePage(all, p) == {x \in all : Cardinality({y \in all : y < x}) < PageSize}

\* Seeded bug: only the first page is asked for.
FirstPageOnly(all, p) == {x \in all : p = 1 /\ Cardinality({y \in all : y < x}) < PageSize}

\* _paginate: the p-th page of what there is now.
Page(all, p) == {x \in all : Cardinality({y \in all : y < x}) \div PageSize = p - 1}

Begin ==
    /\ phase = "idle"
    /\ phase' = "apps" /\ changed' = FALSE
    /\ page' = 0 /\ batch' = {} /\ seen' = {}
    /\ UNCHANGED <<tti, routed, listed, cur, devPage, pulls, found, apply, orphan, events>>

AskApplications ==
    /\ phase = "apps" /\ batch = {}
    /\ Page(apps, page + 1) # {}
    /\ batch' = Page(apps, page + 1) /\ page' = page + 1
    /\ UNCHANGED <<tti, routed, listed, phase, seen, cur, devPage, pulls, found,
                   apply, orphan, changed, events>>

\* After the last page: the lists of the applications that did not come up are
\* dropped.  Nobody tells the RAN.
Prune ==
    /\ phase = "apps" /\ batch = {} /\ Page(apps, page + 1) = {}
    /\ listed' = [a \in App |-> IF a \in seen THEN listed[a] ELSE {}]
    /\ orphan' = orphan \cup (routed \cap UNION {listed[a] : a \in App \ seen})
    /\ phase' = "idle" /\ page' = 0 /\ batch' = {} /\ seen' = {}
    /\ UNCHANGED <<tti, routed, cur, devPage, pulls, found, apply, changed, events>>

\* Seeded bug: an application that has its list already is not noted.
VisitUnnoted(a) ==
    /\ phase = "apps" /\ a \in batch
    /\ batch' = batch \ {a} /\ seen' = IF listed[a] = {} THEN seen \cup {a} ELSE seen
    /\ phase' = "devices" /\ cur' = a /\ devPage' = 0 /\ pulls' = {} /\ found' = {}
    /\ UNCHANGED <<tti, routed, listed, page, apply, orphan, changed, events>>

Visit(a) ==
    /\ phase = "apps" /\ a \in batch
    /\ batch' = batch \ {a} /\ seen' = seen \cup {a}
    /\ phase' = "devices" /\ cur' = a /\ devPage' = 0 /\ pulls' = {} /\ found' = {}
    /\ UNCHANGED <<tti, routed, listed, page, apply, orphan, changed, events>>

AskDevices ==
    /\ phase = "devices" /\ pulls = {} /\ cur \in apps
    /\ Page(Members(cur), devPage + 1) # {}
    /\ pulls' = Page(Members(cur), devPage + 1) /\ devPage' = devPage + 1
    /\ UNCHANGED <<tti, routed, listed, phase, page, batch, seen, cur, found,
                   apply, orphan, changed, events>>

\* _pull_device_from_remote
Pull(d) ==
    /\ phase = "devices" /\ d \in pulls /\ home[d] = cur
    /\ pulls' = pulls \ {d} /\ found' = found \cup {d}
    /\ UNCHANGED <<tti, routed, listed, phase, page, batch, seen, cur, devPage,
                   apply, orphan, changed, events>>

Compare ==
    /\ phase = "devices" /\ pulls = {} /\ cur \in apps
    /\ Page(Members(cur), devPage + 1) = {}
    /\ phase' = "apply"
    /\ removing' = listed[cur] \ found /\ adding' = found \ listed[cur]
    /\ devPage' = 0 /\ found' = {}
    /\ UNCHANGED <<tti, routed, listed, page, batch, seen, cur, pulls, call, orphan, changed, events>>

\* The entry is popped before the RAN is told.
RemoveLocal(d) ==
    /\ phase = "apply" /\ call = None /\ d \in removing
    /\ removing' = removing \ {d}
    /\ listed' = [listed EXCEPT ![cur] = @ \ {d}]
    /\ call' = Call("delete", d)
    /\ UNCHANGED <<tti, routed, phase, walk, adding, orphan, changed, events>>

\* Seeded bug: the RAN is not told.
RanNotTold(d) ==
    /\ call = Call("delete", d) /\ call' = None
    /\ UNCHANGED <<tti, routed, listed, phase, walk, removing, adding, orphan, changed, events>>

RanDelete(d) ==
    /\ call = Call("delete", d) /\ call' = None
    /\ routed' = routed \ {d} /\ orphan' = orphan \ {d}
    /\ UNCHANGED <<tti, listed, phase, walk, removing, adding, changed, events>>

\* The RAN takes the insert; that of a device it has is turned into an update.
RanInsert(d) ==
    /\ phase = "apply" /\ call = None /\ removing = {} /\ d \in adding
    /\ routed' = routed \cup {d}
    /\ call' = Call("insert", d)
    /\ UNCHANGED <<tti, listed, phase, walk, removing, adding, orphan, changed, events>>

\* Its answer arrives: set_dev.
AddLocal(d) ==
    /\ call = Call("insert", d) /\ call' = None
    /\ adding' = adding \ {d}
    /\ listed' = [listed EXCEPT ![cur] = @ \cup {d}]
    /\ orphan' = orphan \ {d}
    /\ UNCHANGED <<tti, routed, phase, walk, removing, changed, events>>

ApplicationDone ==
    /\ phase = "apply" /\ removing = {} /\ adding = {} /\ call = None
    /\ phase' = "apps" /\ cur' = None
    /\ UNCHANGED <<tti, routed, listed, page, batch, seen, devPage, pulls, found,
                   apply, orphan, changed, events>>

-----------------------------------------------------------------------------
(* Failures: the exception ends the sync, Periodic logs it and calls again. *)

GiveUp ==
    /\ phase' = "idle"
    /\ page' = 0 /\ batch' = {} /\ seen' = {} /\ cur' = None
    /\ devPage' = 0 /\ pulls' = {} /\ found' = {} /\ removing' = {} /\ adding' = {} /\ call' = None
    /\ UNCHANGED <<tti, changed>>

\* The application or the device asked for is gone.
Gone ==
    /\ phase = "devices"
    /\ cur \notin apps \/ \E d \in pulls : home[d] # cur
    /\ GiveUp
    /\ UNCHANGED <<routed, listed, orphan, events>>

\* A call to TTI fails.
TtiFails ==
    /\ phase \in {"apps", "devices"}
    /\ Event /\ GiveUp
    /\ UNCHANGED <<routed, listed, orphan>>

\* A delete raises, before or after it took effect; the entry is popped already.
RemoveFails(d) ==
    /\ call = Call("delete", d)
    /\ routed' \in {routed, routed \ {d}}
    /\ orphan' = routed' \cap (orphan \cup {d})
    /\ Event /\ GiveUp
    /\ UNCHANGED listed

\* Seeded bug: a device is listed before the RAN has accepted it.
AddFailsListed(d) ==
    /\ phase = "apply" /\ call = None /\ removing = {} /\ d \in adding
    /\ listed' = [listed EXCEPT ![cur] = @ \cup {d}]
    /\ Event /\ GiveUp
    /\ UNCHANGED <<routed, orphan>>

\* An insert raises: the RAN never got it, or took it and its answer was lost.
AddFails(d) ==
    /\ \/ phase = "apply" /\ call = None /\ removing = {} /\ d \in adding /\ UNCHANGED orphan
       \/ call = Call("insert", d) /\ orphan' = orphan \cup {d}
    /\ Event /\ GiveUp
    /\ UNCHANGED <<routed, listed>>

-----------------------------------------------------------------------------
Environment ==
    \/ \E a \in App : Created(a) \/ Deleted(a)
    \/ \E d \in Dev : DeviceDeleted(d) \/ \E a \in App : DeviceCreated(d, a)

SyncStep ==
    \/ Begin \/ AskApplications \/ Prune \/ AskDevices \/ Compare \/ ApplicationDone \/ Gone
    \/ \E a \in App : Visit(a)
    \/ \E d \in Dev : Pull(d) \/ RemoveLocal(d) \/ RanDelete(d) \/ RanInsert(d) \/ AddLocal(d)

Failure == TtiFails \/ \E d \in Dev : RemoveFails(d) \/ AddFails(d)

Next == Environment \/ SyncStep \/ Failure

Spec == Init /\ [][Next]_vars

\* Periodic calls the sync again and again, until the stop.
FairSpec == Spec /\ WF_vars(SyncStep)

-----------------------------------------------------------------------------
\* The application of d changed: it was deleted in one and created in another.
Moved(d) == \E a, b \in homes[d] : a # b

\* A device on an application's list is in the RAN's routing table, however the sync
\* was interrupted (devices.py sync_from_remote).  Not so for a device that moved: the
\* list it left may be synced after the one it came to, and removes it from the RAN.
ListedIsRouted ==
    \A a \in App : \A d \in listed[a] : d \in routed \/ Moved(d)

\* What is routed but on no list is what the sync is at, or was left behind in one of
\* three ways: its list was dropped with its application, its delete raised, or its insert
\* raised after the RAN took it (devices.py, both sync_from_remote; ran_hook.py).  All
\* other interruptions leave nothing that the next sync does not see, and a device that
\* is listed again is no leftover any more.
LeftoversExplained ==
    \A d \in routed :
        d \in orphan \/ (\E a \in App : d \in listed[a]) \/ (call # None /\ call.dev = d)

\* A sync during which TTI stays as it is removes from the RAN only devices that have
\* left the application.  When TTI changes in between, the pages shift, a device may be
\* skipped, and it is out of the RAN until the next sync (api.py _paginate).
DropsHaveCause ==
    [][\A d \in routed \ routed' : home[d] # cur \/ changed]_vars

\* Once TTI stays as it is and calls succeed, every list is that of its application
\* and all its devices are routed, except those that moved.
Converges ==
    <>[](\A a \in App : listed[a] = Members(a) /\ \A d \in Members(a) : d \in routed \/ Moved(d))
=============================================================================
