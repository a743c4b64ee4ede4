----------------------------- MODULE DeviceSync -----------------------------
(***************************************************************************)
(* The device list of one TTI application and its copy in the RAN:          *)
(* ApplicationDeviceList (devices.py), which a periodic task synchronises    *)
(* with TTI and a JoinAccept updates for one device, and RanSyncHook         *)
(* (ran_hook.py), which tells the RAN's routing table.                      *)
(*                                                                          *)
(* Both tasks read the list, await a call of TTI or of the RAN, and change  *)
(* the list after it: an action is one stretch between two awaits.  A call  *)
(* takes effect at the RAN in one action and its answer is handled in       *)
(* another.                                                                 *)
(*                                                                          *)
(* Operators marked "Seeded bug" are not part of the model: put in place of *)
(* the definition below them they show that a property can fail.            *)
(***************************************************************************)
EXTENDS Integers, FiniteSets

CONSTANTS
    Dev,        \* devices, by their EUI
    Addr,       \* device addresses
    Empty,      \* the empty dev_addr (b"") of a device without a session
    None,       \* absent
    Listed,     \* a reference to the object that is in the list
    MayGet,     \* MayGet[d]: the addresses, or Empty, TTI may give to d
    MaxKey,     \* bound: new sessions of a device
    MaxEvents,  \* bound: changes at TTI and failing calls
    Tags,       \* the bridge's tag may be set on a device, or removed: "set", "remove"
    Joins,      \* devices join through the bridge
    Fails       \* calls that may raise: "list", "insert", "update", "delete", "join"

\* The content of a Device object: its address, keys and updated_at.
Device == [addr : Addr \cup {Empty}, key : Nat, at : Nat]

\* A call of the RAN that the sync awaits.
Call == [op : {"delete", "insert", "update"}, dev : Dev]

ASSUME DistinctAssumption ==
    /\ Empty \notin Addr \cup {None}
    /\ None \notin Addr \cup Dev \cup Device \cup Call
    /\ Listed \notin Device \cup {None}

ASSUME ParametersAssumption ==
    /\ MayGet \in [Dev -> SUBSET (Addr \cup {Empty})]
    /\ MaxKey \in Nat /\ MaxEvents \in Nat
    /\ Tags \subseteq {"set", "remove"}
    /\ Joins \in BOOLEAN
    /\ Fails \subseteq {"list", "insert", "update", "delete", "join"}

VARIABLES
    tagged,     \* devices TTI lists with the bridge's tag
    remote,     \* remote[d]: session and update time of d at TTI
    ran,        \* ran[d]: address of d in the RAN's routing table, or None
    local,      \* _dev_eui_to_device: the content of each listed object
    addrMap,    \* _dev_addr_to_dev_eui
    held,       \* held[d]: the Device object the join request of d cached
    phase,      \* of the periodic sync
    found,      \* found[d]: what the running sync knows of d
    pulled,     \* pulled[d]: the device the running sync pulled for d
    gone,       \* removed_devices of the running sync that are still to do
    call,       \* the call of the RAN the sync awaits
    join,       \* the JoinAccept at work: [dev, rec, stage]
    events      \* changes and failures so far; it also gives updated_at

vars == <<tagged, remote, ran, local, addrMap, held,
          phase, found, pulled, gone, call, join, events>>

tti == <<tagged, remote>>
syncing == <<phase, found, pulled, gone, call>>

Found == {"unlisted",   \* not in the list TTI sent
          "todo",       \* listed, not looked at yet
          "pulled",     \* in the local list, pulled, not compared yet
          "new", "updated",
          "synced"}     \* unchanged, or in the local list by now

TypeOK ==
    /\ tagged \subseteq Dev
    /\ remote \in [Dev -> Device]
    /\ ran \in [Dev -> Addr \cup {Empty, None}]
    /\ local \in [Dev -> Device \cup {None}]
    /\ addrMap \in [Addr \cup {Empty} -> Dev \cup {None}]
    /\ held \in [Dev -> Device \cup {Listed, None}]
    /\ phase \in {"idle", "scan", "apply"}
    /\ found \in [Dev -> Found]
    /\ pulled \in [Dev -> Device \cup {None}]
    /\ gone \subseteq Dev
    /\ call \in Call \cup {None}
    /\ join \in [dev : Dev, rec : Device, stage : {"pulled", "told"}] \cup {None}
    /\ events \in Nat

\* A first list was synchronised into an empty RAN before anything else runs;
\* starting from the empty list includes that.
Init ==
    /\ tagged \in SUBSET Dev
    /\ \E a \in [Dev -> Addr \cup {Empty}] :
          /\ \A d \in Dev : a[d] \in MayGet[d]
          /\ \A d, e \in Dev : d # e /\ a[d] = a[e] => a[d] = Empty
          /\ remote = [d \in Dev |-> [addr |-> a[d], key |-> 0, at |-> 0]]
    /\ ran = [d \in Dev |-> None]
    /\ local = [d \in Dev |-> None]
    /\ addrMap = [a \in Addr \cup {Empty} |-> None]
    /\ held = [d \in Dev |-> None]
    /\ phase = "idle"
    /\ found = [d \in Dev |-> "unlisted"]
    /\ pulled = [d \in Dev |-> None]
    /\ gone = {}
    /\ call = None
    /\ join = None
    /\ events = 0

-----------------------------------------------------------------------------
(* TTI, whose console and network server change devices at any time *)

Event == events < MaxEvents /\ events' = events + 1

\* A session begins, through a join or at the console. An address is not in
\* use by two devices.
NewSession(d) ==
    /\ Event
    /\ remote[d].key < MaxKey
    /\ \E a \in MayGet[d] :
          /\ a = Empty \/ \A e \in Dev \ {d} : remote[e].addr # a
          /\ remote' = [remote EXCEPT ![d] = [addr |-> a, key |-> @.key + 1, at |-> events + 1]]
    /\ UNCHANGED <<tagged, ran, local, addrMap, held, syncing, join>>

\* Any other write of the network server advances updated_at.
Touch(d) ==
    /\ Event
    /\ remote' = [remote EXCEPT ![d].at = events + 1]
    /\ UNCHANGED <<tagged, ran, local, addrMap, held, syncing, join>>

Tag(d) ==
    /\ Event
    /\ \/ "set" \in Tags /\ d \notin tagged /\ tagged' = tagged \cup {d}
       \/ "remove" \in Tags /\ d \in tagged /\ tagged' = tagged \ {d}
    /\ UNCHANGED <<remote, ran, local, addrMap, held, syncing, join>>

-----------------------------------------------------------------------------
(* Helpers of the list *)

\* Seeded bug: devices with the same address are taken for the same.
SameAddress(r, s) == r.addr = s.addr

\* Device.__eq__ looks at address, identifiers and keys.
Same(r, s) == r.addr = s.addr /\ r.key = s.key

\* Seeded bug: the old address is left in the map.
LeftMapped(a) == addrMap

\* The map without address a.
Unmapped(a) == [addrMap EXCEPT ![a] = None]

\* Seeded bug: the map leads to the address instead of the EUI.
MappedToAddress(map, d, r) ==
    IF r.addr = Empty THEN map ELSE [map EXCEPT ![r.addr] = r.addr]

\* The map with d at its address, unless that is empty.
Mapped(map, d, r) == IF r.addr = Empty THEN map ELSE [map EXCEPT ![r.addr] = d]

\* dict.pop without a default raises KeyError for a missing key.
Poppable(a) == addrMap[a] # None

\* A held reference to an object that leaves the list keeps the object.
Kept(d) == IF held[d] = Listed THEN [held EXCEPT ![d] = local[d]] ELSE held

\* The hook calls the RAN's update only for a new, nonempty address.
TellsRan(old, new) == old # new /\ new # Empty

-----------------------------------------------------------------------------
(* The periodic task: ApplicationDeviceList.sync_from_remote *)

\* The sync returns or raises: its sets are gone, the list stays as it is.
EndSync ==
    /\ phase' = "idle"
    /\ found' = [d \in Dev |-> "unlisted"]
    /\ pulled' = [d \in Dev |-> None]
    /\ gone' = {}
    /\ call' = None

\* A page of the list answers.
ListDevices ==
    /\ phase = "idle"
    /\ phase' = "scan"
    /\ found' = [d \in Dev |-> IF d \in tagged THEN "todo" ELSE "unlisted"]
    /\ UNCHANGED <<tti, ran, local, addrMap, held, pulled, gone, call, join, events>>

\* The current device is looked up, then the pull is awaited.
Pull(d) ==
    /\ found[d] = "todo"
    /\ \A e \in Dev : found[e] # "pulled"
    /\ pulled' = [pulled EXCEPT ![d] = remote[d]]
    /\ found' = [found EXCEPT ![d] = IF local[d] = None THEN "new" ELSE "pulled"]
    /\ UNCHANGED <<tti, ran, local, addrMap, held, phase, gone, call, join, events>>

\* A device that changed in nothing but updated_at counts as unchanged.
Compare(d) ==
    /\ found[d] = "pulled"
    /\ \/ /\ local[d].at >= pulled[d].at
          /\ found' = [found EXCEPT ![d] = "synced"]
          /\ pulled' = [pulled EXCEPT ![d] = None]
          /\ UNCHANGED local
       \/ /\ local[d].at < pulled[d].at
          /\ Same(local[d], pulled[d])
          /\ found' = [found EXCEPT ![d] = "synced"]
          /\ pulled' = [pulled EXCEPT ![d] = None]
          /\ local' = [local EXCEPT ![d].at = pulled[d].at]
       \/ /\ local[d].at < pulled[d].at
          /\ ~Same(local[d], pulled[d])
          /\ found' = [found EXCEPT ![d] = "updated"]
          /\ UNCHANGED <<local, pulled>>
    /\ UNCHANGED <<tti, ran, addrMap, held, phase, gone, call, join, events>>

\* The list is at its end: what is in the local list but was neither found
\* unchanged nor updated is to be removed.
EndScan ==
    /\ phase = "scan"
    /\ \A d \in Dev : found[d] \notin {"todo", "pulled"}
    /\ phase' = "apply"
    /\ gone' = {d \in Dev : local[d] # None /\ found[d] \notin {"synced", "updated"}}
    /\ UNCHANGED <<tti, ran, local, addrMap, held, found, pulled, call, join, events>>

\* The list or a pull raises, also because a device was deleted meanwhile.
ScanFails ==
    /\ "list" \in Fails
    /\ Event
    /\ phase = "scan"
    /\ EndSync
    /\ UNCHANGED <<tti, ran, local, addrMap, held, join>>

\* Removed devices come first, then new ones, then updated ones.
MayAdd == phase = "apply" /\ call = None /\ gone = {}
MayUpdate == MayAdd /\ \A d \in Dev : found[d] # "new"

\* A removed device leaves the list and the map, then the RAN is told.
RemoveLocal(d) ==
    /\ phase = "apply" /\ call = None
    /\ d \in gone
    /\ local' = [local EXCEPT ![d] = None]
    /\ held' = Kept(d)
    /\ \/ /\ local[d].addr = Empty \/ Poppable(local[d].addr)
          /\ addrMap' = Unmapped(local[d].addr)
          /\ call' = [op |-> "delete", dev |-> d]
          /\ UNCHANGED <<phase, found, pulled, gone>>
       \/ /\ local[d].addr # Empty /\ ~Poppable(local[d].addr)
          /\ EndSync
          /\ UNCHANGED addrMap
    /\ UNCHANGED <<tti, ran, join, events>>

\* Seeded bug: the hook skips the removed device.
RanKeeps(d) ==
    /\ call = [op |-> "delete", dev |-> d]
    /\ gone' = gone \ {d}
    /\ call' = None
    /\ UNCHANGED <<tti, ran, local, addrMap, held, phase, found, pulled, join, events>>

RanDelete(d) ==
    /\ call = [op |-> "delete", dev |-> d]
    /\ ran' = [ran EXCEPT ![d] = None]
    /\ gone' = gone \ {d}
    /\ call' = None
    /\ UNCHANGED <<tti, local, addrMap, held, phase, found, pulled, join, events>>

\* The RAN takes a new device, or already has it and updates its address.
RanInsert(d) ==
    /\ MayAdd
    /\ found[d] = "new"
    /\ ran' = [ran EXCEPT ![d] = IF @ = None \/ pulled[d].addr # Empty THEN pulled[d].addr ELSE @]
    /\ call' = [op |-> "insert", dev |-> d]
    /\ UNCHANGED <<tti, local, addrMap, held, phase, found, pulled, gone, join, events>>

\* set_dev: the pulled object takes the place of the listed one.
SetDevice(d, map) ==
    /\ local' = [local EXCEPT ![d] = pulled[d]]
    /\ addrMap' = Mapped(map, d, pulled[d])
    /\ held' = Kept(d)
    /\ found' = [found EXCEPT ![d] = "synced"]
    /\ pulled' = [pulled EXCEPT ![d] = None]
    /\ call' = None

AddLocal(d) ==
    /\ call = [op |-> "insert", dev |-> d]
    /\ SetDevice(d, addrMap)
    /\ UNCHANGED <<tti, ran, phase, gone, join, events>>

\* The hook compares with what the listed object holds now. The RAN ignores
\* or refuses an update of a device it does not have.
RanUpdate(d) ==
    /\ MayUpdate
    /\ found[d] = "updated"
    /\ TellsRan(local[d].addr, pulled[d].addr)
    /\ ran' = [ran EXCEPT ![d] = IF @ = None THEN None ELSE pulled[d].addr]
    /\ call' = [op |-> "update", dev |-> d]
    /\ UNCHANGED <<tti, local, addrMap, held, phase, found, pulled, gone, join, events>>

\* The old address leaves the map, unless it stays the same; b"" is not None,
\* so that the empty address is popped as well, and is never there.
UpdateLocal(d) ==
    /\ \/ call = [op |-> "update", dev |-> d]
       \/ MayUpdate /\ found[d] = "updated" /\ ~TellsRan(local[d].addr, pulled[d].addr)
    /\ \/ /\ local[d].addr = pulled[d].addr
          /\ SetDevice(d, addrMap)
          /\ UNCHANGED <<phase, gone>>
       \/ /\ local[d].addr # pulled[d].addr
          /\ Poppable(local[d].addr)
          /\ SetDevice(d, Unmapped(local[d].addr))
          /\ UNCHANGED <<phase, gone>>
       \/ /\ local[d].addr # pulled[d].addr
          /\ ~Poppable(local[d].addr)
          /\ EndSync
          /\ UNCHANGED <<local, addrMap, held>>
    /\ UNCHANGED <<tti, ran, join, events>>

\* Seeded bug: the hook logs an insert that raises, and set_dev follows.
RefusalLogged(d) ==
    /\ Event
    /\ "insert" \in Fails /\ MayAdd /\ found[d] = "new"
    /\ call' = [op |-> "insert", dev |-> d]
    /\ UNCHANGED <<tti, ran, local, addrMap, held, phase, found, pulled, gone, join>>

\* A call of the RAN raises without having taken effect.
CallRefused(d) ==
    /\ Event
    /\ \/ "delete" \in Fails /\ call = [op |-> "delete", dev |-> d]
       \/ "insert" \in Fails /\ MayAdd /\ found[d] = "new"
       \/ /\ "update" \in Fails /\ MayUpdate /\ found[d] = "updated"
          /\ TellsRan(local[d].addr, pulled[d].addr)
    /\ EndSync
    /\ UNCHANGED <<tti, ran, local, addrMap, held, join>>

\* The call took effect, but its answer is lost.
AnswerLost(d) ==
    /\ Event
    /\ call # None /\ call.dev = d /\ call.op \in Fails
    /\ ran' = IF call.op = "delete" THEN [ran EXCEPT ![d] = None] ELSE ran
    /\ EndSync
    /\ UNCHANGED <<tti, local, addrMap, held, join>>

Finish ==
    /\ MayUpdate
    /\ \A d \in Dev : found[d] # "updated"
    /\ EndSync
    /\ UNCHANGED <<tti, ran, local, addrMap, held, join, events>>

-----------------------------------------------------------------------------
(* A join: TTITrafficRouter handles one downlink after the other *)

Joining(d) == join # None /\ join.dev = d

\* A join request keeps the listed object for its JoinAccept. (Bound: one
\* join of a device at a time.)
JoinRequest(d) ==
    /\ Joins
    /\ ~Joining(d)
    /\ local[d] # None
    /\ held' = [held EXCEPT ![d] = Listed]
    /\ UNCHANGED <<tti, ran, local, addrMap, syncing, join, events>>

HeldContent(d) == IF held[d] = Listed THEN local[d] ELSE held[d]

\* The JoinAccept comes: Device.sync_from_remote pulls the device.
JoinAccept(d) ==
    /\ join = None
    /\ held[d] # None
    /\ join' = [dev |-> d, rec |-> remote[d], stage |-> "pulled"]
    /\ UNCHANGED <<tti, ran, local, addrMap, held, syncing, events>>

EndJoin(d) == join' = None /\ held' = [held EXCEPT ![d] = None]

JoinUnchanged(d) ==
    /\ Joining(d) /\ join.stage = "pulled"
    /\ Same(HeldContent(d), join.rec)
    /\ EndJoin(d)
    /\ UNCHANGED <<tti, ran, local, addrMap, syncing, events>>

JoinTellsRan(d) ==
    /\ Joining(d) /\ join.stage = "pulled"
    /\ TellsRan(HeldContent(d).addr, join.rec.addr)
    /\ ran' = [ran EXCEPT ![d] = IF @ = None THEN None ELSE join.rec.addr]
    /\ join' = [join EXCEPT !.stage = "told"]
    /\ UNCHANGED <<tti, local, addrMap, held, syncing, events>>

\* _update_local_device, then the update of the held object in place.
JoinLocal(d) ==
    /\ Joining(d)
    /\ \/ join.stage = "told"
       \/ /\ join.stage = "pulled"
          /\ ~Same(HeldContent(d), join.rec)
          /\ ~TellsRan(HeldContent(d).addr, join.rec.addr)
    /\ \/ /\ local[d] = None
          /\ local' = [local EXCEPT ![d] = join.rec]
          /\ addrMap' = Mapped(addrMap, d, join.rec)
       \/ /\ local[d] # None
          /\ addrMap' = IF local[d].addr = join.rec.addr THEN addrMap
                        ELSE Mapped(Unmapped(local[d].addr), d, join.rec)
          /\ local' = IF held[d] = Listed THEN [local EXCEPT ![d] = join.rec] ELSE local
    /\ EndJoin(d)
    /\ UNCHANGED <<tti, ran, syncing, events>>

\* The pull or the RAN raises; the downlink loop logs it.
JoinFails(d) ==
    /\ "join" \in Fails
    /\ Event
    /\ Joining(d)
    /\ EndJoin(d)
    /\ UNCHANGED <<tti, ran, local, addrMap, syncing>>

-----------------------------------------------------------------------------

Sync ==
    \/ ListDevices
    \/ EndScan
    \/ Finish
    \/ \E d \in Dev :
          \/ Pull(d)
          \/ Compare(d)
          \/ RemoveLocal(d)
          \/ RanDelete(d)
          \/ RanInsert(d)
          \/ AddLocal(d)
          \/ RanUpdate(d)
          \/ UpdateLocal(d)

Join(d) ==
    \/ JoinUnchanged(d)
    \/ JoinTellsRan(d)
    \/ JoinLocal(d)

Next ==
    \/ Sync
    \/ ScanFails
    \/ \E d \in Dev :
          \/ JoinRequest(d)
          \/ JoinAccept(d)
          \/ Join(d)
          \/ JoinFails(d)
          \/ CallRefused(d)
          \/ AnswerLost(d)
          \/ NewSession(d)
          \/ Touch(d)
          \/ Tag(d)

Spec == Init /\ [][Next]_vars

\* The periodic task calls the sync for ever; calls answer or raise.
FairSpec == Spec /\ WF_vars(Sync) /\ \A d \in Dev : WF_vars(Join(d))

-----------------------------------------------------------------------------
(* Safety *)

\* The two dictionaries agree: an address leads to a device exactly when the
\* listed device has it. Uplinks find their device by address, and the sync
\* and the join update the dictionaries across each other's awaits. It needs
\* addresses of their own and at most one new session per device (MaxKey 1).
MapAgrees ==
    \A a \in Addr, d \in Dev :
        addrMap[a] = d <=> (local[d] # None /\ local[d].addr = a)

\* The RAN routes a device to the bridge only while the bridge lists it, or is
\* adding or removing it: a removed device does not linger in the RAN. It
\* needs inserts and deletes whose answers arrive.
RoutedIsListed ==
    \A d \in Dev : ran[d] # None => local[d] # None \/ (call # None /\ call.dev = d)

\* A device is listed only after the RAN took it, whatever calls fail. It
\* needs devices that do not leave: a late JoinAccept lists a removed device.
ListedIsRouted == \A d \in Dev : local[d] # None => ran[d] # None

-----------------------------------------------------------------------------
(* Liveness *)

Synced(d) ==
    IF d \in tagged
    THEN /\ local[d] # None
         /\ local[d].addr = remote[d].addr /\ local[d].key = remote[d].key
         /\ remote[d].addr # Empty => ran[d] = remote[d].addr /\ addrMap[remote[d].addr] = d
    ELSE local[d] = None /\ ran[d] = None

\* README.md:55 "fetch device list from the TTI and sync it with Everynet RAN
\* Routing": once TTI rests and calls answer again, the list, the address map
\* and the RAN all come to what TTI has.
Converges == <>[](\A d \in Dev : Synced(d))

-----------------------------------------------------------------------------
(* A claim of the source that the code does not keep *)

\* devices.py:290 "This method adds device changes into local state": after a
\* JoinAccept was handled, the listed device is the one that was pulled.
JoinReachesList == [][\A d \in Dev : JoinLocal(d) => Same(local'[d], join.rec)]_vars
=============================================================================
