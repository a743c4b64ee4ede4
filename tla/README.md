# A TLA+ model of the TTI / Everynet RAN bridge

The bridge (`src/main.py`, Python 3.10, asyncio) connects two LoRaWAN systems.
To The Things Stack (TTI) it looks like one gateway, over MQTT; to Everynet's
RAN Routing it looks like a network operator, over two streaming connections
(upstream and downstream) and a routing table. Paths below are relative to the
repository.

## 1. Inventory

| Component | State | Operations | Talks to |
| --- | --- | --- | --- |
| `RanTrafficRouter`, upstream (`lib/traffic/ran.py`) | `upstream`, the cache payload -> transaction, `_mic_tries_count`, the queue of uplinks | `_handle_upstream_message`, `handle_upstream_ack_or_reject`, `_run_upstream_loop`, `run` | RAN upstream connection; queue to the pipeline |
| `UplinkAckSync` (`ran.py`) | ack cache, `_waiters` | `set_ack`, `get_ack`, `make_ack_waiter`, `__loop_pass` each 0.1 s | futures awaited by the submitters |
| `Pool` (`async_pool.py`) | semaphore, tasks | `add` (blocks when full), done callback | holds the submitters and the workers of the pipelines |
| `PipelineNode`, `Pipeline`, `TrafficManager` (`manager.py`) | queues, pools | take an item, start a worker, put its result in the next queue, drain at the stop | calls the two routers |
| `TTITrafficRouter.handle_upstream` (`tti.py`) | correlation id -> device | find the device, check the MIC, publish the uplink, ack or reject | device list, MQTT |
| `TTITrafficRouter`, downstream (`tti.py`) | extra correlation ids, the queue of downlinks | translate a scheduled downlink, find its device, sync it on a JoinAccept; publish results | MQTT, device list, queue to the pipeline |
| `GatewayClockScheduler` (`tti.py`) | `_clock`, tmst per uplink | `schedule_uplink_tmst`, `calculate_downlink_tmst` | - |
| `RanTrafficRouter`, downstream (`ran.py`) | `downstream`, transaction -> correlation id | send a downlink, handle its result | RAN downstream connection |
| `Cache` (`lib/cache.py`) | values and expiry times | `set` (cleans one), `get`, `pop` | used by both routers |
| `ApplicationDeviceList`, `MultiApplicationDeviceList` (`lib/tti/devices.py`) | devices by EUI, EUI by address | `sync_from_remote` every 20 s, `_update_local_device` on a join, lookups | TTI API, update hook |
| `RanSyncHook` (`lib/ran_hook.py`) | - (the RAN's routing table) | insert, update, delete | RAN routing table |
| `MQTTClient` (`lib/mqtt.py`) | client, `_connected`, listeners | connect, reconnect, publish, listen, stop | TTI's MQTT broker |
| `main`, `Periodic` (`main.py`, `lib/utils.py`) | tasks, `stop_event` | start, wait for the first task to end, grace period, cancel | everything |
| `TTIApi`, models, health check, settings, logging, GPS time | none worth a variable | I/O and conversions | - |

### What is hard, and what makes it correct

Everything runs in one thread. A task is interrupted only at an `await` that
suspends, and that is where the trouble is: state read before it and used after
it, two tasks in the same dictionary, a timeout that races the answer.

* **Uplinks.** The RAN sends a payload without its MIC and a list of candidate
  MICs. All candidates are tried concurrently; their results share one counter,
  a transaction id found again by payload, and the ack cache. The same payload
  heard by several gateways arrives several times. Correct means: only a MIC
  that verifies is acked, and only after the uplink was published; a genuine
  message is not rejected because other candidates failed; each message and
  each duplicate gets its answer, once; no slot of a pool leaks and a full pool
  does not stop the loop for good.
* **Devices.** The periodic sync and the sync of a join interleave at every
  call of the TTI API or of the RAN. Correct means: the address map and the
  devices agree, the list converges to TTI's and the RAN's table to the list.
* **Downlinks.** A delay is computed from two readings of a virtual clock
  modulo 2^32; a downlink uses up its uplink's reading; results come back by
  transaction id. Correct means: the delay is the one TTI meant, and a result
  is reported for the downlink it belongs to, once.
* **Connections and the stop.** Connections break and are made again, with
  whatever state was left behind. `main` ends with the first of its tasks, and
  each of the others is given its share of 20 s and then cancelled, wherever it
  is. Correct means: the process starts only with a connection, comes back after
  it lost one, and ends after a stop, without cutting off a message.
* **Several applications.** The sync asks for applications and devices page by
  page while both change. Correct means: what is on a list is routed; what stays
  in TTI is not removed; what is routed without being listed is known to be.

`PROJECT.json` lists the hazards one by one, each at its line, with the
properties that cover it.

## 2. Modules and plan

In order of importance; each module is parameterised by CONSTANTS, has one
action per uninterrupted stretch of a handler, and has no RECURSIVE operator.
The MC modules give the constants of a run their values.

| Module | Models | Builds on | Runs | Theorems |
| --- | --- | --- | --- | --- |
| `UpstreamRouter` | upstream half of `ran.py`, stage 1 of `tti.py`, `manager.py`, pool, ack sync | implements `UplinkContract` | 3 + 2 claims | type correctness, implements `UplinkContract`, pool accounting, one answer per duplicate; when entries outlive their candidates, that results keep their transaction, the try count, no wrong MICFailed, one ack |
| `DeviceSync` | one list of `devices.py`, `ran_hook.py` | - | 2 + 2 claims | type correctness; the two dictionaries agree, with and without joins; what is listed is routed, what is routed is listed |
| `Downlink` | downstream half of both routers | `GatewayClock`, `TtlCache`; implements `DownlinkContract` | 1 | type correctness, implements `DownlinkContract`, the delay, the device, one request per uplink, one ack per downlink, an ack names its downlink; what `set` keeps in a cache, and in which order; the delay across an overflow |
| `Bridge` | `main.py`: set-up, tasks, shutdown | `MqttClient`, `RanClient`, `Pipeline`, each with `StopEvent` | 1 | type correctness, starts only connected, hears downlinks, abandons no handler |
| `ApplicationSync` | the lists of all applications of `devices.py`, the pages of `api.py` | - | 1 | type correctness, what is listed is routed, leftovers are explained, drops have a cause; an empty page is past the last one |

Every safety invariant, action property and refinement that a run checks has a
theorem; liveness stays with TLC (section 8).

## 3. `UpstreamRouter`

### State

| Variable | Code |
| --- | --- |
| `upstream` | `self.upstream` is set |
| `payload[t]` | which payload the RAN's message `t` carries; the MD5 of the payload is the correlation id, so payloads stand for correlation ids |
| `corrTx`, `acks` | the two TTL caches `_upstream_corr_id_to_transaction_id` and `_ack_sync._cache` |
| `tries` | `_mic_tries_count` |
| `cand[t][m]`, `target[t][m]` | where candidate `m` of message `t` is: queued, publishing, a result on its way to stage 2 (the reject reason or "solved"), suspended in the send of an answer to `target`, finished |
| `dup[t]`, `reply[t]` | where the handling of a duplicate is: its future (`blocked`, `waiting`, `expired`, `orphan` are in `_waiters`), its submitter, the loop suspended for it; the MIC it is to be answered with |
| `slots` | the semaphore of `_ack_submitters_pool` |
| `ackLoop` | the `UplinkAckSync.run` task is alive |
| `published`, `sent` | what TTI and the RAN have received (the environment's view) |

### Actions

`ReceiveNew`, `ReceiveMalformed`, `ReceiveSolved` and `ReceivePending` are the
paths of `_handle_upstream_message`; `Unblock` and `Replied` are what it does
after its two suspensions. `Refuse`, `StartPublish`, `Published`,
`PublishFails` are stage 1; `IgnoreResult`, `HandleAck`, `HandleLastTry`,
`CountTry`, `HandleRefusal`, `Answered`, `SendFails` are stage 2, cut at its
sends. `LoopPass` is one pass of the ack loop; `Timeout`, `Discard`,
`SubmitAck`, `SubmitReject`, `GiveUp` are a submitter and its future's
callbacks. `Disconnect` and `Reconnect` are the loops of `run`. `Quiescent`
stutters when all messages have been handled, so that TLC's deadlock check
means something: the bridge never stops with work left.

### Abstractions

* A device and its key are reduced to which MICs verify (`Genuine`) and to what
  stage 1 finds (`Situation`): a listed or unlisted device, one a sync adds or
  removes meanwhile, a join without `app_key`, an unsupported or unparsable
  frame. A challenge is any nonempty set of MICs; transaction ids are not zero
  (`ran.py:203` treats 0 as missing).
* Time is abstract. The 20 s timeout may fire whenever a future waits. An entry
  of a cache may expire whenever no candidate of its payload is in flight, or at
  any time when `Slow` (a publish and two queues may take longer than 60 s).
  `Cache.set` drops at most one expired entry; which one is expired is chosen
  freely.
* `make_ack_waiter` is one step with the parking: the lock of `UplinkAckSync` is
  held only across a pass, which does not suspend.
* A pass that dies on a cancelled future has resolved any subset of the others
  (the iteration order of a set of futures is not defined).
* The send of a submitter is one step; it succeeds, or fails (`GiveUp`).
* The pools of the pipeline's workers are unbounded here: 128 and 64 workers
  only delay.

### Properties and runs

| Run | Instance | Shows |
| --- | --- | --- |
| `upstream_contract` | 3 messages, 2 payloads with different genuine MICs, `PoolSize` 1, `Faulty`, `Slow` | `TypeOK`; `ImplementsContract` (refinement of `UplinkContract`); `PoolAccounting`; `OneAnswerPerDuplicate` |
| `upstream_verdict` | one payload whose device comes and goes, one unsupported; `PoolSize` 2, `Faulty`, not `Slow` | `ResultsKeepTheirTransaction`, `TriesCountOutstanding`, `MICFailedMeansNoneGenuine`, `AtMostOneAck` |
| `upstream_faults` | a listed device and a malformed payload, `Faulty`, fair | `EveryMessageAnswered`, `DuplicatesSettle`, `LoopResumes` |
| `upstream_timeout_claim` | both listed, no faults | `TimeoutMeansUnsolved` is **violated**, see below |
| `upstream_last_try_claim` | joins without `app_key` | `LastTryAnswers` is **violated**, see below |

Three messages are enough for an original, a duplicate that holds the only slot
and a duplicate that blocks the loop, or for an eviction by another payload and
a second registration. Two MICs give a challenge with a wrong and a genuine
candidate, in both orders, and with `EachItsOwn` two payloads whose acks must not
be exchanged. Messages are symmetric in the safety runs; the liveness runs use
no symmetry.

`EveryMessageAnswered` is about the faults of others: a message may stay without
an answer only if one of its own publications or sends failed or found no
connection (`OwnStepFailed`), or its payload does not parse. The contract is
instantiated with the variables it shares, `Contract == INSTANCE UplinkContract
WITH payload <- payload, ...`: its `payload`, `published` and `sent` are the
environment's view of the router's.

**Fairness** (`FairSpec`). Weak fairness for each duplicate's task, each
candidate's task in both stages, the ack loop and the reconnect: asyncio runs
every task that is ready, a publish has a 10 s and a duplicate a 20 s timeout,
and `run` reconnects for ever. Weak fairness of `Duplicate(t)` is enough for
`Unblock` because the semaphore is first in, first out and only one task (the
loop) ever waits for it. Nothing makes messages, faults or evictions happen.

**Seeded bugs.** An operator commented "Seeded bug" is a mutation of the
definition below it and is used by no action: `PROJECT.json` names, for each
property, the one that breaks it.

### What the code does not keep

* `ran.py:82`: when a duplicate's timeout has cancelled its future and the
  callback that discards it has not run yet, a pass of the ack loop that finds
  the ack calls `set_result` on the cancelled future. `InvalidStateError` ends
  `UplinkAckSync.run`; `run` awaits that task only at the stop. From then on
  duplicates that are parked are rejected after 20 s although the ack is cached
  (a duplicate that arrives when the ack is cached is still answered).
* `ran.py:250`: an `InternalError` result takes one try off and never answers, so
  a join request of a device without `app_key` gets no answer at all.

## 4. `DeviceSync`

### State

| Variable | Code |
| --- | --- |
| `tagged`, `remote[d]` | what TTI has: the devices with the bridge's tag, and the session of each (address, a number for the keys, `updated_at`) |
| `ran[d]` | the address the RAN's routing table has for the device |
| `local[d]`, `addrMap` | `_dev_eui_to_device` and `_dev_addr_to_dev_eui` |
| `held[d]` | the `Device` object that the join request kept for its JoinAccept (`tti.py:311`): `Listed` while it is the listed object, its content once a sync has replaced it in the list |
| `phase`, `found[d]`, `pulled[d]`, `gone`, `call` | the running `sync_from_remote`: where it is, its sets of devices, the objects it pulled, the call of the RAN it awaits |
| `join` | the `Device.sync_from_remote` at work for a JoinAccept |
| `events` | changes and failures so far; its value is the next `updated_at` |

### Actions

`ListDevices`, `Pull`, `Compare` and `EndScan` are the scan of
`sync_from_remote`; `RemoveLocal` and `RanDelete`, `RanInsert` and `AddLocal`,
`RanUpdate` and `UpdateLocal` its three loops, each cut at the call of the RAN
(the list changes before the delete, and after the insert and the update).
`JoinRequest`, `JoinAccept`, `JoinUnchanged`, `JoinTellsRan`, `JoinLocal` are the
join: the object is kept, pulled again, compared, told to the RAN, and put into
the list by `_update_local_device`. `ScanFails`, `CallRefused`, `AnswerLost` and
`JoinFails` are calls that raise: the sync or the join ends where it is, and
the periodic task calls the sync again. `NewSession`, `Touch` and `Tag` are
what happens at TTI.

Abstractions: keys are a number; EUIs, frame counters and names do not change.
An address is never `None` (`dev_addr` is a protobuf field, `devices.py:145`).
The list is read at once, so that a device tagged or untagged during the scan is
seen in the next one. The RAN refuses or ignores an update of a device it does not
have, and takes an insert of one it has as an update (`ran_hook.py:57`). One
application (for several see section 7); a join of a device ends before its next one begins.

### Properties and runs

| Run | Instance | Shows |
| --- | --- | --- |
| `devices_converge` | 2 devices, one of which may change its address; devices come; list, insert, update and join may fail; fair | `TypeOK`, `ListedIsRouted`, `Converges` |
| `devices_leave` | the same, devices leave; list, update and join may fail | `MapAgrees`, `RoutedIsListed` |
| `devices_converge_claim` | devices may have no session, no joins, no failures | `Converges` is **violated** |
| `devices_join_claim` | two new sessions per device | `JoinReachesList` is **violated** |

Two devices are enough for one being removed or added while the other joins.
Three events are a removal or a new tag, a new session and one failure, in any
order, each possibly in the middle of a sync.

**Fairness** (`FairSpec`): weak fairness of the sync as a whole and of each
join. `Periodic.run` calls the sync for ever and catches what it raises; each
call of TTI or the RAN answers or raises. A failure is an event and events are
bounded, so that calls answer in the end; nothing makes a device change.

### What the code does not keep

* `devices.py:279`: a device that has no session is pulled with `dev_addr`
  `b""`. `set_dev` keeps the empty address out of the map, but the update of
  such a device pops it: `b"" is not None`. The sync raises `KeyError` after it
  told the RAN and before it changed the list, and so does every sync after it,
  which leaves out all updates that follow. A JoinAccept through the bridge
  repairs it, a session that begins at another gateway does not.
* `devices.py:301`: for a device in the list `_update_local_device` changes the
  address map only. When a periodic sync has replaced the listed object since
  the join request, the JoinAccept updates the old object, and the listed one
  keeps the old address and keys. If the session changes again the next sync pops
  an address that is not in the map and raises, for ever as above.

The properties that hold need what their comments say; outside it the code
reaches these states, each found by TLC when the bound was widened:

* `MapAgrees` fails after a second new session of a device (the case above), or
  when a tag is removed and set again while a JoinAccept is awaited. It also
  fails when two devices exchange addresses between two syncs: the second
  update pops the entry the first has just written.
* `ListedIsRouted` fails when a device leaves while its JoinAccept is awaited:
  `_update_local_device` lists it again (`devices.py:292`), the RAN does not have it.
* A delete that raises is not repeated, since the device has left the list: it
  stays in the RAN's table (`delete` is not in `Fails` of any run).
* When the answer to an update of the RAN is lost and the device returns to its
  old address before the next sync, the sync sees no change and the RAN keeps the
  address in between.

## 5. `Downlink`, `GatewayClock`, `TtlCache`

`TtlCache` has `lib/cache.py` as operators on a sequence of entries, in the
order of the two dictionaries: `Lookup`, `Popped`, `Stored`, where `Stored`
first drops the oldest entry if its time has passed (`Cache.clean` leaves its
loop after the first). `GatewayClock` has the arithmetic of
`GatewayClockScheduler` modulo `Timer` and the bounds of a delay.

| Variable | Code |
| --- | --- |
| `now`, `clock` | `time()` in coarse ticks, `_clock` |
| `scheduled`, `deviceOf`, `extras`, `track` | the four caches: tmst by correlation id, device by correlation id, the ids an ack names, correlation id by RAN transaction |
| `uplink[u]`, `order[d]` | what TTI got, and what it asked for in return |
| `inbox`, `stage[d]`, `request[d]` | the MQTT listener's queue; how far the downlink got; what is to be sent |
| `report[d]`, `results[d]`, `names[d]` | the RAN's result on its way to TTI, and whose ids its ack names |

`Publish` is what `handle_upstream` leaves for downlinks. `Refuse`,
`TranslateJoinAccept`, `TranslateAnswer`, `TranslateByAddress` are the paths of
`_process_downlink`; a JoinAccept suspends the loop (`Synced`). `StartSend` is
`_handle_downlink`, which tracks the downlink before it looks for a connection;
`ReceiveResult` and `SendTxAck` are the way back. TTI may answer an uplink twice,
late, or send downlinks of its own; the RAN may repeat a result or send none.

The run `downlink` has two uplinks of two payloads (one a join request; the same
payload may come twice), two downlinks, and a clock of 14 with steps of 4 and
seconds of 2, whose third value is the last before it overflows. The lifetimes
0, 2 and 1 with times up to 3 keep the code's order (30 s < 60 s < 100 s), so that each
cache can lose an entry while the others still have theirs; `TtlAssumption` keeps
the one relation that matters, a device is kept as long as its timestamp.

`DownlinkContract` is what the server and the RAN can rely on, with four variables:
the uplinks, what was `asked` for, what was `sent`, what was `acked`. Only what was
asked for is sent, once and for a device; of several answers to an uplink only one
is, to the device the uplink came from, after the delay meant; only what was sent is
acked, once. Translation, expiry, syncs and repeated results are stutters or nothing.
`ImplementsContract` maps `asked` to the orders that have arrived, with the delay in
seconds (`AskedView`), and `sent` to the requests handed to the connection
(`SentView`). `NoneAssumption` keeps `None` apart from what it stands for.

`ImplementsContract`, `AckNamesItsDownlink` and `DownlinksSettle` are temporal; fairness is that of the event loop for every
step of a downlink, whose calls to TTI and publications end or time out.

Abstractions: the delays the server asks for are below the RAN's 16 s, its own
limit (`DelaysAssumption`); a run ends before the clock has gone round
(`WithinATurn`), which takes 286 uplinks in the code, with entries that live
30 s: a busier gateway than that is outside the model. Class B and C downlinks
carry a GPS time or none, so they have no delay. The device list's answer by
address is any device or none. Radio settings and payloads are data.

Two things the code leaves open show in the model: a downlink that finds no
connection is dropped without a result for TTI (`ran.py:181`), and the first of
several answers takes the timestamp even when it is then refused (`tti.py:82`).

## 6. `Bridge`: `main` and its tasks

`Bridge` composes `MqttClient` (`MQTTClient.run` and its disconnect task),
`RanClient` (`RanTrafficRouter.run` and its close task) and `Pipeline` (the
upstream pipeline of `manager.py` with its pools), each over the event of
`StopEvent`, with `main`, the TTI router's loop, the health check server and the
periodic tasks.

| Variable | Code |
| --- | --- |
| `main`, `settled`, `awaited`, `cancelling` | where `main` is; the shutdown's loop over `pending` |
| `mqtt`, `connected`, `failed`, `exception`, `closer`, `link`, `subscribed` | the MQTT client's loop, its two events and its exception, its disconnect task; which client it is and whether the broker has its subscription |
| `ran`, `ranCloser` | the RAN client's loop and its close task |
| `manager`, `node`, `item`, `free` | the manager's task, the two nodes, where each message is, the pools' semaphores |
| `tti`, `simple`, `stop`, `trouble` | the other tasks, the stop event, what the behaviour is about |

`WaitOver` and `Check` are the two halves of `wait_for_connection`, between
which the client may go on; `SetUpStep`, `SetUpFails`, `StartTasks` the set-up;
`FirstCompleted`, `AwaitNext`, `AwaitEnds`, `ShareOver`, `Bye` the shutdown.
`Cancel` says what a cancellation does to each task wherever it is. Before the
stop the manager only waits for it, and cancelling it leaves its nodes running
(`manager.py:73`); from the stop on it reaches them through `gather`, and through
`Pool.join` the handlers of a node that is there, but not those of a looping one.
(The pass of the event loop in which the stop has come and the manager has not yet
woken is not a state: a cancellation in it does what one just before the stop
does.) A RAN client that is waiting for a loop it cancelled itself swallows its
cancellation (`ran.py:417`).

The run `bridge` has no periodic tasks (they are like the health check server
without its failure; the theorems have any number) and one message at a time in
each pool of one, put again and again. `Troubles` is a bound: a behaviour is about
messages and a set-up that fails, or a broker that comes and goes, or RAN
connections and a health check server that fail; without it the state space is
beyond TLC. The stop may come at any moment of each. The safety properties are
proved for every `Troubles`, in particular all at once.

**Fairness**: the event loop runs every task that can go on; waits have an end;
the broker accepts a connection if asked again and again (strong fairness of
`Connect`, since a connection may be refused in between). Nothing makes the stop,
a failure or a message happen. A handler ends: its calls have timeouts.

What the code does here that a reader may not expect:

* A later MQTT client is not subscribed to downlinks (`mqtt.py:221`, `tti.py:448`):
  `HearsDownlinks` is about the first client only.
* When a failed task, not a stop, begins the shutdown, nobody sets `stop_event`:
  the other tasks run out their shares and are cancelled, and a RAN client that
  swallows its cancellation is awaited for as long as it runs.
  `StopEnds` is about stops.
* `main` does not await a task that raised before the shutdown; one that raises
  during it ends the process with its exception and skips the tasks left.
* A candidate's result put in the second queue after the second node has ended
  is read by nobody. No handler is cut off in the middle, unless the manager had to
  be cancelled (`NoHandlerAbandoned`).
* After a stop `main` may go on with its set-up without ever having had a connection
  (`mqtt.py:126`), but it does not start its tasks (`StartsOnlyConnected`): the
  initial status needs one.
* `README.md` of the repository documents `BRIDGE_DEVICES_REFRESH_PERIOD` (300 s);
  `main.py:106` syncs every 20 s whatever it is.

## 7. `ApplicationSync`

`MultiApplicationDeviceList.sync_from_remote` with the pages of `api.py` and
`Periodic` around it. `apps` and `home` are what TTI has, `listed[a]` is
`_applications[a]`, `routed` the RAN's table; `page`, `batch`, `seen`, `cur`,
`devPage`, `pulls`, `found`, `removing`, `adding` are the locals of the two
nested syncs and of `_paginate`, `call` is the delete or insert that the sync
awaits. `orphan`, `homes`, `changed` remember what the properties speak of.
`AskApplications`, `Visit`, `AskDevices`, `Pull`, `Compare`, `ApplicationDone`,
`Prune` go through a sync call by call. A removal pops the entry (`RemoveLocal`) and
then awaits the RAN (`RanDelete`); an insert is taken by the RAN (`RanInsert`) and
listed when its answer is there (`AddLocal`). `Gone`, `TtiFails`, `RemoveFails`,
`AddFails` end the sync with an exception, after which `Periodic` begins again: a
delete or an insert raises with or without having taken effect. Addresses, sessions
and tags are left to `DeviceSync`.

The run `app_sync` has two applications, three devices, pages of one item (20 in
the code) and seven events. Three devices give a device on a later page that
shifts when one on an earlier page goes; seven events are enough to create both
applications with devices, to move or delete them during a sync, and to have calls
fail; the run also passes with pages of two. Fairness is weak fairness of the
sync: `Periodic` calls it until the stop. An application that stays listed with
no device and one that has no list are the same here.

The code keeps less than one may wish, and the properties say how much less:
the devices of a deleted application stay routed, as does one whose delete raised,
and one whose insert took effect and raised and that was deleted in TTI before the
next sync could list it (`LeftoversExplained`, `orphan`); a device that moved between applications
may be taken out of the RAN by the list it left, and no later sync notices
(`Moved` in `ListedIsRouted` and `Converges`); a sync that TTI changes under may
skip a device that is there and remove it until the next sync (`changed` in
`DropsHaveCause`).

## 8. Proofs

`UpstreamRouter_proofs` (TLAPS) proves for all values of the constants that
satisfy the two assumptions of `UpstreamRouter` (finite sets of messages and
MICs, a positive pool size, `None` distinct from everything else):

* `TypeCorrect`: `Spec => []TypeOK`;
* `RouterImplementsContract`: `Spec => ImplementsContract`.

The contract speaks of published MICs and sent answers; the type invariant
alone does not say where the MIC of an ack comes from. The inductive invariant
`IInv` follows a MIC along its path: a candidate that is publishing verifies
(`CandPath`); a result "solved", an ack being sent, a cached ack (`CachePath`)
and a resolved future (`DupPath`) carry published MICs of the same payload; the
transaction a result is sent to has that payload. `InitInvariant` and
`NextInvariant` prove it inductive, one step per action; `StepRefines` maps each
step to a step of the contract or to a stutter, from three lemmas about the
contract's actions.

Two more theorems of that module need no condition either:

* `PoolAccounted`: `Spec => []PoolAccounting`. Each step of a duplicate takes a
  slot (`SlotTaken`), gives one back (`SlotReturned`) or moves among the states
  with a slot or those without (`SlotsKept`).
* `DuplicatesAnsweredOnce`: `Spec => []OneAnswerPerDuplicate`. Candidates are
  answered to originals only, since a transaction is registered when its payload
  is seen first (`SendsToOriginals`), and a duplicate on its way has no answer
  yet (`NotYetAnswered`).

`UpstreamVerdict_proofs` proves the properties of `upstream_verdict`, with and
without faults, from `~Slow`: no entry expires while a candidate of its payload
is in flight. Without it a late result is counted and answered for another
transaction, and they fail.

* `ResultsKept` (`ResultsKeepTheirTransaction`) is where `~Slow` is used, for the
  entry a reception may drop (`ReceptionKeepsResults`); the others rest on it.
* `TriesCounted` (`TriesCountOutstanding`): only `CountTry` takes a candidate off
  the outstanding ones, and it decrements the count of its own transaction.
* `NoWrongMICFailed` (`MICFailedMeansNoneGenuine`): at the last try one candidate
  is outstanding, so all others were counted (`LastTryIsAlone`), and what was
  counted as a failed MIC is not genuine (`FailuresTrue`).
* `AckedOnce` (`AtMostOneAck`): an ack to an original is of a candidate that is
  through and genuine, no two of the same one (`AcksAreDone`).

`DeviceSync_proofs` proves for every set of devices and addresses, any bounds on
sessions and events and any choice of calls that may fail:

* `TypeCorrect`: `Spec => []TypeOK`, from `Shape`: a device that is being
  compared, added or updated has a pulled object and, unless it is new, a listed
  one; nothing is removed or called before the scan is over.
* `AloneMapAgrees`: `Alone => (Spec => []MapAgrees)`. `Alone` says that no device
  joins through the bridge and that no two devices can ever get the same address
  (`Apart`); sessions are not bounded here, and a sync that raises `KeyError` does
  not matter: it does so before it changes the list. `AInv` adds to the type
  invariant that an address on its way to the list belongs to its device
  (`OwnAddress`), that a device found new is still not listed when it is added
  (`NewIsUnlisted`, what a join breaks) and that a device is removed once.
  `RemovalAgrees` and `PlacementAgrees` are the two changes of the list.
* `JoinedMapAgrees`: the same with joins, from `JoinedOnce`: `Apart`, one new
  session per device, and devices that do not both lose their tag and get it back.
  `Sessions` orders all objects the bridge may have of a device, wherever they are,
  by session and `updated_at`; `HeldOld` says that what replaced a held object is
  of the new session, so that a join whose object was replaced finds its session
  listed already and changes nothing; `Fresh`, which rests on `Leaves`, that what
  the sync takes for new has no join. The bound is tight: with a second session TLC
  violates `MapAgrees` (section 4), and so it does with a tag removed and set again.
* `RoutedAreListed`: `RoutedIsListed` in both cases above, while the answers of
  inserts and deletes arrive; an update or a pull may fail at any time.
* `StayingListedIsRouted`: `ListedIsRouted` for any number of sessions, joins and
  failures of any call, while no device loses its tag. `Stays` says that the sync
  then never removes a device nor calls delete, and that a join is always about a
  listed device; a device that leaves during its join does break it (section 4).

`TtlCache_proofs` and `GatewayClock_proofs` are about operators.
`StoredEntries`: a `set` adds its entry, keeps every other whose time has not
passed and adds nothing else, for any cache. `StoredBefore`: it keeps the order of
what stays and puts the new entry last, so that the oldest is first, where
`Cache.clean` looks. `DelayAcrossOverflow` and
`OtherWindowRefused`: the delay comes out as meant for every `Timer` and every
timestamp, and an answer that belongs to an earlier uplink than the one it is
compared with has a delay out of bounds. From its assumptions on the constants
(`ClockAssumption`, `WindowAssumption`: a window is at most a second longer than
the clock's step, and the clock longer than both) and `TtlAssumption` these
carry `Downlink_proofs`:

* `TypeCorrect`, `DelaysRight`, `RequestsOnce`, `AcksOnce`:
  `Spec => []` of `TypeOK`, `DelayAsMeant`, `OneRequestPerUplink`,
  `OneAckPerDownlink`. The inductive invariant says that the clock is ahead of
  every timestamp by whole steps and less than a turn (`ClockAhead`), that a
  cached timestamp is that of the latest forwarding of its payload and is
  in the cache once (`LatestScheduled`, `ScheduledOnce`), that what waits in the
  queue has arrived and answers an uplink that was published (`InboxArrived`,
  `OrdersReal`), that an accepted downlink's timestamp is no longer cached
  (`TakenOnce`) and that a tracked transaction has had no result
  (`TrackedUnanswered`).
* `DevicesOutlive`, `DevicesRight`: `DeviceOutlivesTimestamp` and `DeviceAsMeant`.
  That the device is kept longer is not enough: `clean` drops the oldest entry
  only, and never looks at one behind it. `Shadowed` says that each cached timestamp
  has a device set at the same moment, and that what is older among the timestamps
  is older among the devices: whatever expires in front of a device has expired in
  front of its timestamp before. `DevicesReal` and `DeviceKept` follow the device
  from its key to the request.
* `AcksNameTheirDownlink`: `Spec => AckNamesItsDownlink`, an action property, from
  `NamesReal`: the ids kept under a key, and those an ack named, are those of a
  downlink with that key.
* `DownlinkImplementsContract`: `Spec => ImplementsContract`. The invariant above
  gives the delay, the device, the first answer (`TakenOnce`) and the first result;
  `Ready` adds that what is under way to the RAN has a device and was accepted.
  `PublishRefines`, `ArriveRefines`, `SendRefines` and `ResultRefines` map the steps
  the server or the RAN sees to the contract's, and by `ViewsKept` all others stutter.

`Bridge_proofs` proves, for every set of messages, pool size, set of periodic
tasks and combination of troubles, `TypeCorrect`, `StartsConnected`,
`DownlinksHeard` and `HandlersFinish` (`StartsOnlyConnected`, `HearsDownlinks`,
`NoHandlerAbandoned`). `MqttInv` ties the MQTT client's events and exception to
where it is; `PoolInv` says that a pool's free slots and its running handlers
make up its limit (type correctness of `free` rests on it) and that a node that
ended has no handlers; `ByeInv` that the last thing `main` says waits for the
manager; `MainInv` that `main` went past the check with a connection or after a
stop, and started its tasks only with one. The periodic tasks are assumed to be other
tasks than the five `main` always has and the health check server
(`BridgeAssumption`). The second stage is where the pool argument matters: it
may end while the first one still passes results on, which then stay queued.

`ApplicationSync_proofs` proves `TypeCorrect`, `ListedStayRouted` and
`LeftoversAreKnown` for every set of applications and devices, any page size and
any number of events. `HomeKnown`, `ListsOwn` and `WalkOwn` say that whatever is
listed, found or about to be applied was in that application once, from which a
removal by one application leaves the others' devices alone unless they moved;
`WalkShape` says which locals are in use in which phase, and `CallShape` what is true
of the device of an awaited call: one being deleted has left the list, one being
inserted is routed. `PagesBounded` bounds
the page numbers by the number of items.

`DropsAreCaused` proves the action property `DropsHaveCause`: a sync takes a device
out of the RAN only if it left the application, or TTI changed under the sync.
`EmptyPageIsLast` says that no item is on an empty page or behind it, for pages of
any size: every rank below the number of items is some item's (`RankTaken`, by the
pigeonhole principle), so a page can only be empty past them all.
`Walked` is the loop's invariant: while nothing changed, what is on the pages asked
for so far is found or about to be pulled, and what is to be removed has left.

Only model-checked: all liveness, since fairness and ENABLED are beyond the
proof system: `EveryMessageAnswered`, `DuplicatesSettle`, `LoopResumes`, `Converges`
of both lists, `DownlinksSettle`, `StopEnds`, `Reconnects`, `ItemsPass`. The four claims that are
violated are counterexamples TLC finds and have nothing to prove.

## 9. Not modelled

* `contracts/sdk_builder.py` is a build script; `settings.py`, `environs.py`,
  `logging_conf.py` and `gps_time.py` read the environment, format logs and
  convert times: no state.
* The gRPC requests and the records of `lib/tti/api.py` and `models.py`: I/O and
  data. Their failures are actions.
* The dispatch of MQTT messages to listeners (`mqtt.py:242`): one listener, one
  topic; the queue is `inbox` of `Downlink`.
* The delay of `Periodic` (`utils.py:33`), interval - 2^n after n failures in a
  row, which is zero from the fifth on: delays have no length in the models.
* The legacy sync (`devices.py:198`), `Cache.reset_ttl`, `unsubscribe` and the
  multicast code of `ran_hook.py` are never called; the lookups across several
  lists have no state of their own.
