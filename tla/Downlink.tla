------------------------------ MODULE Downlink ------------------------------
(***************************************************************************)
(* The downlink half of the bridge: TTITrafficRouter translates what the    *)
(* network server sends (tti.py), the downstream pipeline hands it to       *)
(* RanTrafficRouter, which sends it to the RAN (ran.py); the RAN's results  *)
(* go back the same way and become transmission acknowledgments.            *)
(*                                                                          *)
(* Four TTL caches tie the steps together: the timestamp and the device of  *)
(* each uplink, the ids to name in an ack, and the downlink of each RAN     *)
(* transaction.  A payload's hash is the key of the first three: the same   *)
(* payload forwarded twice shares them.                                     *)
(***************************************************************************)
EXTENDS GatewayClock, TtlCache, FiniteSets

CONSTANTS
    None,
    Uplink,         \* forwarded uplinks
    Corr,           \* their payloads' hashes, the correlation ids
    Device,
    Sender,         \* Sender[c]: the device whose key verified payload c
    Joins,          \* the payloads that are join requests
    Downlink,       \* downlink messages; the id of one that answers no uplink,
                    \* and its RAN transaction, go by its name
    Delays,         \* delays the network server asks for
    ScheduledTtl, DeviceTtl, AckTtl,    \* 30 s, 100 s and 60 s in the code
    Earlier,        \* how many timestamps the clock may have given out before
    MaxNow          \* bound: how far time goes

ASSUME DownlinkAssumption ==
    /\ Sender \in [Corr -> Device] /\ Joins \subseteq Corr
    /\ None \notin (Int \cup Downlink \cup Device \cup [payload : Corr, tmst : Tmst])
    /\ Corr \cap Downlink = {}
    /\ {ScheduledTtl, DeviceTtl, AckTtl, MaxNow} \subseteq Nat /\ Earlier \subseteq Nat

\* The server's receive windows open within the longest delay the RAN takes.
ASSUME DelaysAssumption ==
    \A delay \in Delays : delay \in Nat /\ delay < MaxSeconds * Second

\* An uplink's device is kept at least as long as its timestamp.
ASSUME TtlAssumption == ScheduledTtl <= DeviceTtl

VARIABLES
    now,        \* time(), in coarse ticks
    clock,      \* GatewayClockScheduler._clock
    scheduled,  \* GatewayClockScheduler._scheduled, by correlation id
    deviceOf,   \* _correlation_id_to_device
    extras,     \* _tti_extra_corr_ids: the downlink whose ids the ack for a key names
    track,      \* _downstream_transaction_id_to_corr_id
    uplink,     \* uplink[u]: payload and timestamp it was published with
    inbox,      \* the MQTT listener's queue of downlinks
    order,      \* order[d]: what the server asked for
    stage,      \* stage[d]: how far downlink d got
    request,    \* request[d]: device and delay to send it with, from translation
    report,     \* report[d]: how far the RAN's result for d got
    results,    \* results[d]: how many results of d were passed on
    names       \* names[d]: the downlink whose ids the ack of d names

vars == <<now, clock, scheduled, deviceOf, extras, track, uplink, inbox, order,
          stage, request, report, results, names>>

\* malformed: no usable correlation id, settings not scheduled, or no LoRa.
Order == [kind : {"classA"}, payload : Corr, tmst : Tmst, delay : Nat]
            \cup [kind : {"classBC", "malformed"}]

\* sent: handed to the connection; the send may still raise, and the RAN have got it.
Stage == {"none", "arrived", "refused", "syncing", "dropped", "queued", "sent"}

\* delay None: class B and C downlinks carry a GPS time or go out at once.
Request == [device : Device \cup {None}, delay : Nat \cup {None}]

ASSUME NoneAssumption == None \notin Order \cup Request

TypeOK ==
    /\ now \in Nat
    /\ clock \in Tmst
    /\ IsCache(scheduled, Corr, Tmst)
    /\ IsCache(deviceOf, Corr, Device)
    /\ IsCache(extras, Corr \cup Downlink, Downlink)
    /\ IsCache(track, Downlink, Corr \cup Downlink)
    /\ uplink \in [Uplink -> [payload : Corr, tmst : Tmst] \cup {None}]
    /\ inbox \in Seq(Downlink)
    /\ order \in [Downlink -> Order]
    /\ stage \in [Downlink -> Stage]
    /\ request \in [Downlink -> Request]
    /\ report \in [Downlink -> {"none", "queued", "done"}]
    /\ results \in [Downlink -> Nat]
    /\ names \in [Downlink -> Downlink \cup {None}]

\* The run is looked at from a moment when every cache is empty.
Init ==
    /\ now = 0
    /\ clock \in {(n * Interval) % Timer : n \in Earlier}
    /\ scheduled = <<>> /\ deviceOf = <<>> /\ extras = <<>> /\ track = <<>>
    /\ uplink = [u \in Uplink |-> None]
    /\ inbox = <<>>
    /\ order = [d \in Downlink |-> [kind |-> "malformed"]]
    /\ stage = [d \in Downlink |-> "none"]
    /\ request = [d \in Downlink |-> [device |-> None, delay |-> None]]
    /\ report = [d \in Downlink |-> "none"]
    /\ results = [d \in Downlink |-> 0]
    /\ names = [d \in Downlink |-> None]

Tick ==
    /\ now < MaxNow
    /\ now' = now + 1
    /\ UNCHANGED <<clock, scheduled, deviceOf, extras, track, uplink, inbox, order,
                   stage, request, report, results, names>>

-----------------------------------------------------------------------------
(* Uplinks, as far as downlinks depend on them.                             *)

\* Bound: the run ends before the clock has gone round (286 uplinks).
WithinATurn ==
    \A u \in Uplink : uplink[u] # None =>
        Ahead(uplink[u].tmst, clock) + Interval <= Timer - MaxSeconds * Second

\* Seeded bug: the two caches' lifetimes swapped.
PublishTtlsSwapped(u, c) ==
    /\ uplink[u] = None
    /\ WithinATurn
    /\ deviceOf' = Stored(deviceOf, c, Sender[c], now, ScheduledTtl)
    /\ scheduled' = Stored(scheduled, c, clock, now, DeviceTtl)
    /\ uplink' = [uplink EXCEPT ![u] = [payload |-> c, tmst |-> clock]]
    /\ clock' = NextTmst(clock)
    /\ UNCHANGED <<now, extras, track, inbox, order, stage, request,
                   report, results, names>>

\* _handle_uplink and _handle_join_request after the MIC check, up to the
\* await in _send_uplink; whether the publication works changes nothing here.
\* A payload may come again: later, or at once with another MIC that verifies.
Publish(u, c) ==
    /\ uplink[u] = None
    /\ WithinATurn
    /\ deviceOf' = Stored(deviceOf, c, Sender[c], now, DeviceTtl)
    /\ scheduled' = Stored(scheduled, c, clock, now, ScheduledTtl)
    /\ uplink' = [uplink EXCEPT ![u] = [payload |-> c, tmst |-> clock]]
    /\ clock' = NextTmst(clock)
    /\ UNCHANGED <<now, extras, track, inbox, order, stage, request,
                   report, results, names>>

-----------------------------------------------------------------------------
(* The network server.                                                      *)

Arrive(d, o) ==
    /\ stage[d] = "none"
    /\ order' = [order EXCEPT ![d] = o]
    /\ stage' = [stage EXCEPT ![d] = "arrived"]
    /\ inbox' = Append(inbox, d)
    /\ UNCHANGED <<now, clock, scheduled, deviceOf, extras, track, uplink, request,
                   report, results, names>>

\* It may answer an uplink more than once, and answer late.
AnswerUplink(d) ==
    \E u \in Uplink, delay \in Delays :
        /\ uplink[u] # None
        /\ Arrive(d, [kind |-> "classA", payload |-> uplink[u].payload,
                      tmst |-> uplink[u].tmst, delay |-> delay])

SendUnasked(d) == \E kind \in {"classBC", "malformed"} : Arrive(d, [kind |-> kind])

-----------------------------------------------------------------------------
(* _process_downlink: one downlink at a time.                               *)

\* _extract_correlation_id
CorrId(d) == IF order[d].kind = "classA" THEN order[d].payload ELSE d

\* The delay of a class A downlink in seconds, None when the timestamp of its
\* uplink is not tracked (any more).
Delay(d) ==
    LET uplinkTmst == Lookup(scheduled, order[d].payload, None)
    IN  IF uplinkTmst = None THEN None
        ELSE Seconds(RealTmst(uplinkTmst, AnswerTmst(order[d].tmst, order[d].delay)))

\* _create_ran_downlink does not raise.
Accepted(d) ==
    \/ order[d].kind = "classBC"
    \/ order[d].kind = "classA" /\ Delay(d) # None /\ InBounds(Delay(d))

\* Seeded bug: what a device sync raises ends the run loop.
IdleUntilRaise == \A d \in Downlink : stage[d] \notin {"syncing", "dropped"}

\* The run loop is not suspended in a join accept's device sync.
Idle == \A d \in Downlink : stage[d] # "syncing"

\* Seeded bug: the timestamp is looked up and kept.
TakeKeepsTimestamp(d) ==
    /\ Idle
    /\ inbox # <<>> /\ d = Head(inbox)
    /\ inbox' = Tail(inbox)
    /\ UNCHANGED <<now, clock, scheduled, track, uplink, order, report, results, names>>

\* A class A downlink takes its uplink's timestamp, accepted or not.
Take(d) ==
    /\ Idle
    /\ inbox # <<>> /\ d = Head(inbox)
    /\ inbox' = Tail(inbox)
    /\ scheduled' = IF order[d].kind = "classA"
                    THEN Popped(scheduled, CorrId(d)) ELSE scheduled
    /\ UNCHANGED <<now, clock, track, uplink, order, report, results, names>>

Refuse(d) ==
    /\ Take(d)
    /\ ~Accepted(d)
    /\ stage' = [stage EXCEPT ![d] = "refused"]
    /\ UNCHANGED <<deviceOf, extras, request>>

\* _create_ran_downlink, and the ids its ack is to name.
Translate(d, device, next) ==
    /\ Take(d)
    /\ Accepted(d)
    /\ extras' = Stored(extras, CorrId(d), d, now, AckTtl)
    /\ request' = [request EXCEPT ![d] =
                     [device |-> device,
                      delay |-> IF order[d].kind = "classA" THEN Delay(d) ELSE None]]
    /\ stage' = [stage EXCEPT ![d] = next]

\* Seeded bug: the device looked up by RAN transaction.
CachedByTransaction(d) == Lookup(deviceOf, d, None)

Cached(d) == Lookup(deviceOf, CorrId(d), None)

\* _fetch_downlink_device_context, one action per branch.
TranslateJoinAccept(d) ==
    /\ CorrId(d) \in Joins
    /\ Translate(d, Cached(d), IF Cached(d) = None THEN "dropped" ELSE "syncing")
    /\ UNCHANGED deviceOf

TranslateAnswer(d) ==
    /\ CorrId(d) \notin Joins
    /\ Cached(d) # None
    /\ Translate(d, Cached(d), "queued")
    /\ deviceOf' = Popped(deviceOf, CorrId(d))

\* Seeded bug: a downlink without a device is queued like one with.
QueuedWithoutDevice(d) ==
    /\ CorrId(d) \notin Joins
    /\ Cached(d) = None
    /\ \E found \in Device \cup {None} : Translate(d, found, "queued")
    /\ UNCHANGED deviceOf

\* By its address; found is what the device list knows under that address.
TranslateByAddress(d) ==
    /\ CorrId(d) \notin Joins
    /\ Cached(d) = None
    /\ \E found \in Device \cup {None} :
          Translate(d, found, IF found = None THEN "dropped" ELSE "queued")
    /\ UNCHANGED deviceOf

\* device.sync_from_remote returns or raises; run() logs what was raised.
Synced(d) ==
    /\ stage[d] = "syncing"
    /\ \E next \in {"queued", "dropped"} : stage' = [stage EXCEPT ![d] = next]
    /\ UNCHANGED <<now, clock, scheduled, deviceOf, extras, track, uplink, inbox,
                   order, request, report, results, names>>

-----------------------------------------------------------------------------
(* RanTrafficRouter, downstream.                                            *)

\* _handle_downlink: tracked first, then dropped if self.downstream is None.
StartSend(d) ==
    /\ stage[d] = "queued"
    /\ track' = Stored(track, d, CorrId(d), now, AckTtl)
    /\ \E next \in {"sent", "dropped"} : stage' = [stage EXCEPT ![d] = next]
    /\ UNCHANGED <<now, clock, scheduled, deviceOf, extras, uplink, inbox, order,
                   request, report, results, names>>

\* Seeded bug: the transaction stays tracked.
ReceiveResultAgain(d) ==
    /\ stage[d] = "sent"
    /\ d \in Keys(track)
    /\ report' = [report EXCEPT ![d] = "queued"]
    /\ results' = [results EXCEPT ![d] = @ + 1]
    /\ UNCHANGED <<now, clock, scheduled, deviceOf, extras, track, uplink, inbox,
                   order, stage, request, names>>

\* _handle_downstream_result_message.  The RAN may send a result more than once,
\* or none; one of an unknown transaction changes nothing.
ReceiveResult(d) ==
    /\ stage[d] = "sent"
    /\ d \in Keys(track)
    /\ track' = Popped(track, d)
    /\ report' = [report EXCEPT ![d] = "queued"]
    /\ results' = [results EXCEPT ![d] = @ + 1]
    /\ UNCHANGED <<now, clock, scheduled, deviceOf, extras, uplink, inbox, order,
                   stage, request, names>>

-----------------------------------------------------------------------------
(* TTITrafficRouter.handle_downstream_result.                               *)

\* _send_tx_ack; whether the publication that follows works changes nothing.
SendTxAck(d) ==
    /\ report[d] = "queued"
    /\ report' = [report EXCEPT ![d] = "done"]
    /\ names' = [names EXCEPT ![d] = Lookup(extras, CorrId(d), None)]
    /\ extras' = Popped(extras, CorrId(d))
    /\ UNCHANGED <<now, clock, scheduled, deviceOf, track, uplink, inbox, order,
                   stage, request, results>>

-----------------------------------------------------------------------------
Process(d) ==
    \/ Refuse(d) \/ TranslateJoinAccept(d) \/ TranslateAnswer(d)
    \/ TranslateByAddress(d) \/ Synced(d)

Next ==
    \/ Tick
    \/ \E u \in Uplink, c \in Corr : Publish(u, c)
    \/ \E d \in Downlink : AnswerUplink(d) \/ SendUnasked(d) \/ ReceiveResult(d)
    \/ \E d \in Downlink : Process(d) \/ StartSend(d) \/ SendTxAck(d)

Spec == Init /\ [][Next]_vars

\* The event loop runs every ready task; gRPC calls, sends and publications end.
Fairness ==
    \A d \in Downlink :
        WF_vars(Process(d)) /\ WF_vars(StartSend(d)) /\ WF_vars(SendTxAck(d))

FairSpec == Spec /\ Fairness

-----------------------------------------------------------------------------
(* Properties.                                                              *)

Requested(d) == stage[d] = "sent"

(***************************************************************************)
(* What goes to the RAN for a class A downlink is the delay the server      *)
(* meant, counted from the uplink it answers: across overflows of the clock *)
(* (calculate_downlink_tmst), and when the same payload was forwarded again *)
(* before the answer came.                                                  *)
(***************************************************************************)
DelayAsMeant ==
    \A d \in Downlink : Requested(d) /\ order[d].kind = "classA" =>
        request[d].delay = Seconds(order[d].delay)

\* It is sent to the device whose uplink it answers, never to whichever device
\* the list has under the payload's address meanwhile.
DeviceAsMeant ==
    \A d \in Downlink : Requested(d) /\ order[d].kind = "classA" =>
        request[d].device = Sender[order[d].payload]

(***************************************************************************)
(* The comment in _fetch_downlink_device_context calls a join accept        *)
(* without its device unreachable: whatever the two caches' expiry drops,   *)
(* an uplink whose timestamp is known has its device known too.             *)
(***************************************************************************)
DeviceOutlivesTimestamp == Keys(scheduled) \subseteq Keys(deviceOf)

\* However often the server answers one forwarding of an uplink, at most one
\* answer is sent: the first takes the timestamp.
OneRequestPerUplink ==
    \A d, e \in Downlink :
        /\ Requested(d) /\ order[d].kind = "classA"
        /\ Requested(e) /\ order[e].kind = "classA"
        /\ order[d].tmst = order[e].tmst
        => d = e

\* A result the RAN repeats is not acknowledged to the server twice.
OneAckPerDownlink == \A d \in Downlink : results[d] <= 1

AloneWithItsId(d) == \A e \in Downlink \ {d} : stage[e] # "none" => CorrId(e) # CorrId(d)

(***************************************************************************)
(* The ack of a downlink names the ids the server gave that downlink and no *)
(* other, as long as no second downlink has its correlation id; the ids are *)
(* kept until the ack takes them or 60 s have passed.                       *)
(***************************************************************************)
AckNamesItsDownlink ==
    [][\A d \in Downlink : AloneWithItsId(d) =>
         /\ names'[d] \in {d, None}
         /\ CorrId(d) \in Keys(extras) \ Keys(extras') =>
               \/ report'[d] = "done" /\ names'[d] = d
               \/ now > extras[Position(extras, CorrId(d))].until]_vars

\* What the server asked for with d, its delay in the RAN's seconds.
Asked(d) ==
    IF order[d].kind = "classA"
    THEN [kind |-> "classA", payload |-> order[d].payload, tmst |-> order[d].tmst,
          delay |-> Seconds(order[d].delay)]
    ELSE order[d]

AskedView == [d \in Downlink |-> IF stage[d] = "none" THEN None ELSE Asked(d)]

SentView == [d \in Downlink |-> IF stage[d] = "sent" THEN request[d] ELSE None]

(***************************************************************************)
(* The downlink half, seen from the network server and from the RAN: every  *)
(* request has a device and comes from a downlink that was translated, an   *)
(* answer's is the first to its uplink and as the server meant it, and a    *)
(* result is passed on once and only of what was sent.                      *)
(***************************************************************************)
Contract ==
    INSTANCE DownlinkContract WITH asked <- AskedView, sent <- SentView, acked <- results

ImplementsContract == Contract!Spec

\* Every downlink that arrives is refused, dropped or sent: one that raises or
\* waits for a device sync does not stop the loop for those behind it.
DownlinksSettle ==
    \A d \in Downlink : stage[d] = "arrived" ~> stage[d] \in {"refused", "dropped", "sent"}
=============================================================================
