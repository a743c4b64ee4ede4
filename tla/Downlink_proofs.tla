--------------------------- MODULE Downlink_proofs ---------------------------
(***************************************************************************)
(* For every number of uplinks and downlinks, every clock within            *)
(* ClockAssumption and WindowAssumption, and devices kept at least as long  *)
(* as timestamps: type correctness, every safety property of Downlink, and  *)
(* that it implements DownlinkContract.                                    *)
(***************************************************************************)
EXTENDS Downlink, TtlCache_proofs, GatewayClock_proofs

Turn == Timer - MaxSeconds * Second

\* t is the timestamp v, or was given out before v and within a turn.
NotAfter(t, v) == t = v \/ (Interval <= Ahead(t, v) /\ Ahead(t, v) <= Turn)

Heard(c, t) == \E u \in Uplink : uplink[u] # None /\ uplink[u].payload = c /\ uplink[u].tmst = t

\* The clock is past every timestamp it gave out, and has not gone round.
ClockAhead ==
    \A u \in Uplink : uplink[u] # None =>
        Interval <= Ahead(uplink[u].tmst, clock) /\ Ahead(uplink[u].tmst, clock) <= Turn

\* The timestamp kept for a payload is the one of its latest publication.
LatestScheduled ==
    \A i \in DOMAIN scheduled, u \in Uplink :
        uplink[u] # None /\ uplink[u].payload = scheduled[i].key =>
            NotAfter(uplink[u].tmst, scheduled[i].value)

\* What is kept was published, and no timestamp twice.
ScheduledOnce ==
    /\ \A i \in DOMAIN scheduled : Heard(scheduled[i].key, scheduled[i].value)
    /\ \A i, j \in DOMAIN scheduled : scheduled[i].value = scheduled[j].value => i = j

\* What waits in the queue waits once, and was not looked at before.
InboxArrived ==
    /\ \A i \in DOMAIN inbox : stage[inbox[i]] = "arrived"
    /\ \A i, j \in DOMAIN inbox : inbox[i] = inbox[j] => i = j

\* The server answers what was published, within the longest delay.
OrdersReal ==
    \A d \in Downlink : order[d].kind = "classA" =>
        /\ Heard(order[d].payload, order[d].tmst)
        /\ order[d].delay < MaxSeconds * Second

Translated(d) == stage[d] \in {"syncing", "queued", "sent"} /\ order[d].kind = "classA"

DelayKept == \A d \in Downlink : Translated(d) => request[d].delay = Seconds(order[d].delay)

\* A timestamp is taken by one downlink, and is not in the cache afterwards.
TakenOnce ==
    \A d \in Downlink : Translated(d) =>
        /\ \A i \in DOMAIN scheduled : scheduled[i].value # order[d].tmst
        /\ \A e \in Downlink : Translated(e) /\ order[e].tmst = order[d].tmst => d = e

\* No result was passed on for what is tracked, or was not sent yet.
TrackedUnanswered ==
    \A d \in Downlink :
        /\ results[d] <= 1
        /\ d \in Keys(track) => results[d] = 0
        /\ stage[d] \notin {"sent", "dropped"} => d \notin Keys(track) /\ results[d] = 0

\* Each timestamp kept has its device kept beside it, set at the same moment,
\* and what is older among the timestamps is older among the devices.
Shadowed ==
    /\ \A i \in DOMAIN scheduled : \E x \in DOMAIN deviceOf :
          /\ deviceOf[x].key = scheduled[i].key
          /\ deviceOf[x].until = scheduled[i].until + (DeviceTtl - ScheduledTtl)
    /\ \A a, b : Before(scheduled, a, b) => Before(deviceOf, a, b)

DevicesReal == \A i \in DOMAIN deviceOf : deviceOf[i].value = Sender[deviceOf[i].key]

DeviceKept == \A d \in Downlink : Translated(d) => request[d].device = Sender[order[d].payload]

\* The ids kept for a key, and those an ack named, are a downlink's with that key.
NamesReal ==
    /\ \A i \in DOMAIN extras :
          stage[extras[i].value] # "none" /\ CorrId(extras[i].value) = extras[i].key
    /\ \A d \in Downlink :
          /\ report[d] # "none" \/ names[d] # None => stage[d] # "none"
          /\ names[d] # None => stage[names[d]] # "none" /\ CorrId(names[d]) = CorrId(d)

IInv ==
    /\ TypeOK /\ ClockAhead /\ LatestScheduled /\ ScheduledOnce /\ InboxArrived
    /\ OrdersReal /\ DelayKept /\ TakenOnce /\ TrackedUnanswered
    /\ Shadowed /\ DevicesReal /\ DeviceKept /\ NamesReal

ClassA == [kind : {"classA"}, payload : Corr, tmst : Tmst, delay : Nat]

LEMMA OrderOfClassA ==
    ASSUME NEW o \in Order, o.kind = "classA"
    PROVE  o \in ClassA
<1>1. CASE o \in ClassA
  BY <1>1
<1>2. CASE o \in [kind : {"classBC", "malformed"}]
  BY <1>2
<1> QED BY <1>1, <1>2 DEF Order, ClassA

LEMMA CorrIdType ==
    ASSUME TypeOK, NEW d \in Downlink
    PROVE  /\ CorrId(d) \in Corr \cup Downlink
           /\ order[d].kind = "classA" =>
                 /\ CorrId(d) = order[d].payload /\ order[d] \in ClassA
                 /\ order[d].payload \in Corr /\ order[d].tmst \in Tmst /\ order[d].delay \in Nat
<1>1. order[d] \in Order
  BY DEF TypeOK
<1>2. ASSUME order[d].kind = "classA"
      PROVE  /\ CorrId(d) = order[d].payload /\ order[d] \in ClassA
             /\ order[d].payload \in Corr /\ order[d].tmst \in Tmst /\ order[d].delay \in Nat
  <2>1. order[d] \in ClassA
    BY <1>1, <1>2, OrderOfClassA
  <2> QED BY <1>2, <2>1 DEF CorrId, ClassA
<1>3. order[d].kind # "classA" => CorrId(d) = d
  BY DEF CorrId
<1> QED BY <1>2, <1>3

LEMMA LookupType ==
    ASSUME NEW K, NEW V, NEW c, IsCache(c, K, V), NEW k, NEW default
    PROVE  \/ Lookup(c, k, default) = default
           \/ \E i \in DOMAIN c : c[i].key = k /\ Lookup(c, k, default) = c[i].value
                                 /\ c[i].value \in V
<1>1. CASE k \notin Keys(c)
  BY <1>1 DEF Lookup
<1>2. CASE k \in Keys(c)
  <2>1. PICK i \in DOMAIN c : c[i].key = k
    BY <1>2 DEF Keys
  <2>2. Lookup(c, k, default) = c[i].value
    BY <2>1, LookupFinds
  <2>3. c \in Seq(Entry(K, V)) /\ i \in 1 .. Len(c)
    BY LenProperties DEF IsCache
  <2>4. c[i] \in Entry(K, V)
    BY <2>3, ElementOfSeq
  <2> QED BY <2>1, <2>2, <2>4 DEF Entry
<1> QED BY <1>1, <1>2

\* An accepted class A downlink answers the upshot of the latest publication:
\* its timestamp is the cached one and the delay is the server's.
LEMMA AcceptedDelay ==
    ASSUME TypeOK, LatestScheduled, OrdersReal, NEW d \in Downlink,
           order[d].kind = "classA", Accepted(d)
    PROVE  /\ Delay(d) = Seconds(order[d].delay) /\ Delay(d) \in Nat
           /\ \E i \in DOMAIN scheduled :
                 scheduled[i].key = order[d].payload /\ scheduled[i].value = order[d].tmst
<1> DEFINE t == order[d].tmst
           c == order[d].payload
           x == order[d].delay
           v == Lookup(scheduled, c, None)
<1>1. t \in Tmst /\ c \in Corr /\ x \in Nat
  BY CorrIdType
<1>2. Delay(d) # None /\ InBounds(Delay(d))
  BY DEF Accepted
<1>3. v # None /\ Delay(d) = Seconds(RealTmst(v, AnswerTmst(t, x)))
  BY <1>2 DEF Delay
<1>4. PICK i \in DOMAIN scheduled : scheduled[i].key = c /\ v = scheduled[i].value /\ v \in Tmst
  <2>1. IsCache(scheduled, Corr, Tmst)
    BY DEF TypeOK
  <2> QED BY <1>3, <2>1, LookupType
<1> HIDE DEF v
<1>5. x < MaxSeconds * Second /\ Heard(c, t)
  BY DEF OrdersReal
<1>6. NotAfter(t, v)
  <2>1. PICK u \in Uplink : uplink[u] # None /\ uplink[u].payload = c /\ uplink[u].tmst = t
    BY <1>5 DEF Heard
  <2> QED BY <1>4, <2>1 DEF LatestScheduled
<1>7. t = v
  <2> SUFFICES ASSUME t # v PROVE FALSE
    OBVIOUS
  <2>1. Interval <= Ahead(t, v) /\ Ahead(t, v) <= Timer - MaxSeconds * Second
    BY <1>6 DEF NotAfter, Turn
  <2>2. ~InBounds(Seconds(RealTmst(v, AnswerTmst(t, x))))
    BY <1>1, <1>4, <1>5, <2>1, OtherWindowRefused
  <2> QED BY <1>2, <1>3, <2>2
<1>8. x \in Tmst
  BY <1>1, <1>5, ClockNumbers DEF Tmst
<1>9. RealTmst(v, AnswerTmst(t, x)) = IF x = 0 THEN Timer ELSE x
  BY <1>4, <1>7, <1>8, DelayAcrossOverflow
<1>10. x # 0
  <2> SUFFICES ASSUME x = 0 PROVE FALSE
    OBVIOUS
  <2>1. Timer \in Nat /\ Timer >= MaxSeconds * Second
    BY ClockNumbers DEF Tmst
  <2>2. Seconds(Timer) \in Nat /\ Seconds(Timer) >= MaxSeconds
    BY <2>1, SecondsBounds
  <2>3. InBounds(Seconds(Timer))
    BY <1>2, <1>3, <1>9
  <2> QED BY <2>2, <2>3, ClockAssumption DEF InBounds
<1>11. Delay(d) = Seconds(x)
  BY <1>3, <1>9, <1>10
<1>12. Seconds(x) \in Nat
  BY <1>1, SecondsBounds
<1> QED BY <1>4, <1>7, <1>11, <1>12

LEMMA StoredType ==
    ASSUME NEW K, NEW V, NEW c, IsCache(c, K, V),
           NEW k \in K, NEW v \in V, NEW t \in Int, NEW ttl \in Int
    PROVE  IsCache(Stored(c, k, v, t, ttl), K, V)
BY StoredEntries

LEMMA PoppedType ==
    ASSUME NEW K, NEW V, NEW c, IsCache(c, K, V), NEW k
    PROVE  IsCache(Popped(c, k), K, V)
BY PoppedEntries

LEMMA DelayType ==
    ASSUME TypeOK, NEW d \in Downlink, order[d].kind = "classA", Accepted(d)
    PROVE  Delay(d) \in Nat
<1> DEFINE v == Lookup(scheduled, order[d].payload, None)
<1>1. Delay(d) # None
  BY DEF Accepted
<1>2. v # None /\ Delay(d) = Seconds(RealTmst(v, AnswerTmst(order[d].tmst, order[d].delay)))
  BY <1>1 DEF Delay
<1>3. v \in Tmst
  <2>1. IsCache(scheduled, Corr, Tmst)
    BY DEF TypeOK
  <2> QED BY <1>2, <2>1, LookupType
<1> HIDE DEF v
<1>4. order[d].tmst \in Tmst /\ order[d].delay \in Nat
  BY CorrIdType
<1>5. AnswerTmst(order[d].tmst, order[d].delay) \in Tmst
  BY <1>4, ClockNumbers DEF AnswerTmst, Tmst
<1>6. RealTmst(v, AnswerTmst(order[d].tmst, order[d].delay)) \in Nat
  BY <1>3, <1>5, ClockNumbers DEF RealTmst, Tmst
<1> QED BY <1>2, <1>6, SecondsBounds

LEMMA InboxStep ==
    ASSUME TypeOK
    PROVE  /\ \A d \in Downlink : Append(inbox, d) \in Seq(Downlink)
           /\ inbox # <<>> => Tail(inbox) \in Seq(Downlink)
BY AppendProperties, HeadTailProperties DEF TypeOK

\* The clock and the caches of every step stay well formed.
LEMMA TypeStep ==
    ASSUME TypeOK, [Next]_vars
    PROVE  TypeOK'
<1> USE DownlinkAssumption DEF TypeOK
<1>1. CASE UNCHANGED vars
  BY <1>1 DEF vars
<1>2. CASE Tick
  BY <1>2 DEF Tick
<1>3. ASSUME NEW u \in Uplink, NEW c \in Corr, Publish(u, c)
      PROVE  TypeOK'
  <2>1. IsCache(Stored(deviceOf, c, Sender[c], now, DeviceTtl), Corr, Device)
    BY StoredType
  <2>2. IsCache(Stored(scheduled, c, clock, now, ScheduledTtl), Corr, Tmst)
    BY StoredType
  <2>3. NextTmst(clock) \in Tmst
    BY ClockNumbers DEF NextTmst, Tmst
  <2>4. uplink' \in [Uplink -> [payload : Corr, tmst : Tmst] \cup {None}]
    BY <1>3 DEF Publish
  <2> QED BY <1>3, <2>1, <2>2, <2>3, <2>4 DEF Publish
<1>4. ASSUME NEW d \in Downlink, NEW o \in Order, Arrive(d, o)
      PROVE  TypeOK'
  <2>1. inbox' \in Seq(Downlink)
    BY <1>4, InboxStep DEF Arrive
  <2>2. stage' \in [Downlink -> Stage]
    BY <1>4 DEF Arrive, Stage
  <2>3. order' \in [Downlink -> Order]
    BY <1>4 DEF Arrive
  <2>4. UNCHANGED <<now, clock, scheduled, deviceOf, extras, track, uplink, request,
                    report, results, names>>
    BY <1>4 DEF Arrive
  <2> QED BY <2>1, <2>2, <2>3, <2>4
<1>5. ASSUME NEW d \in Downlink, AnswerUplink(d) \/ SendUnasked(d)
      PROVE  \E o \in Order : Arrive(d, o)
  <2>1. CASE AnswerUplink(d)
    <3>1. PICK u \in Uplink, delay \in Delays : uplink[u] # None /\
            Arrive(d, [kind |-> "classA", payload |-> uplink[u].payload,
                       tmst |-> uplink[u].tmst, delay |-> delay])
      BY <2>1 DEF AnswerUplink
    <3>2. uplink[u].payload \in Corr /\ uplink[u].tmst \in Tmst /\ delay \in Nat
      BY <3>1, DelaysAssumption
    <3>3. [kind |-> "classA", payload |-> uplink[u].payload,
           tmst |-> uplink[u].tmst, delay |-> delay] \in Order
      BY <3>2 DEF Order
    <3> QED BY <3>1, <3>3
  <2>2. CASE SendUnasked(d)
    BY <2>2 DEF SendUnasked, Order
  <2> QED BY <1>5, <2>1, <2>2
<1>6. ASSUME NEW d \in Downlink, Take(d)
      PROVE  /\ IsCache(scheduled', Corr, Tmst) /\ inbox' \in Seq(Downlink)
             /\ UNCHANGED <<now, clock, track, uplink, order, report, results, names>>
  <2>1. IsCache(Popped(scheduled, CorrId(d)), Corr, Tmst)
    BY PoppedType
  <2> QED BY <1>6, <2>1, InboxStep DEF Take
<1>7. ASSUME NEW d \in Downlink, Refuse(d)
      PROVE  TypeOK'
  <2>1. stage' \in [Downlink -> Stage]
    BY <1>7 DEF Refuse, Stage
  <2>2. UNCHANGED <<deviceOf, extras, request>>
    BY <1>7 DEF Refuse
  <2>3. Take(d)
    BY <1>7 DEF Refuse
  <2> QED BY <1>6, <2>1, <2>2, <2>3
<1>8. ASSUME NEW d \in Downlink, NEW device \in Device \cup {None},
             NEW next \in Stage, Translate(d, device, next)
      PROVE  /\ IsCache(scheduled', Corr, Tmst) /\ inbox' \in Seq(Downlink)
             /\ UNCHANGED <<now, clock, track, uplink, order, report, results, names>>
             /\ IsCache(extras', Corr \cup Downlink, Downlink)
             /\ stage' \in [Downlink -> Stage] /\ request' \in [Downlink -> Request]
  <2>1. Take(d) /\ Accepted(d)
    BY <1>8 DEF Translate
  <2>2. IsCache(Stored(extras, CorrId(d), d, now, AckTtl), Corr \cup Downlink, Downlink)
    <3>1. /\ CorrId(d) \in Corr \cup Downlink /\ now \in Int /\ AckTtl \in Int
          /\ IsCache(extras, Corr \cup Downlink, Downlink)
      BY CorrIdType
    <3> QED BY <3>1, StoredType
  <2>3. (IF order[d].kind = "classA" THEN Delay(d) ELSE None) \in Nat \cup {None}
    BY <2>1, DelayType
  <2>4. request' \in [Downlink -> Request]
    BY <1>8, <2>3 DEF Translate, Request
  <2>5. stage' \in [Downlink -> Stage]
    BY <1>8 DEF Translate
  <2>6. extras' = Stored(extras, CorrId(d), d, now, AckTtl)
    BY <1>8 DEF Translate
  <2> QED BY <1>6, <2>1, <2>2, <2>4, <2>5, <2>6
<1>9. ASSUME NEW d \in Downlink
      PROVE  Cached(d) \in Device \cup {None}
  BY LookupType DEF Cached
<1>10. ASSUME NEW d \in Downlink, TranslateJoinAccept(d)
       PROVE  TypeOK'
  <2>1. \E next \in Stage : Translate(d, Cached(d), next)
    BY <1>10 DEF TranslateJoinAccept, Stage
  <2>2. UNCHANGED deviceOf
    BY <1>10 DEF TranslateJoinAccept
  <2> QED BY <1>8, <1>9, <2>1, <2>2
<1>11. ASSUME NEW d \in Downlink, TranslateAnswer(d)
       PROVE  TypeOK'
  <2>1. \E next \in Stage : Translate(d, Cached(d), next)
    BY <1>11 DEF TranslateAnswer, Stage
  <2>2. IsCache(deviceOf', Corr, Device)
    BY <1>11, PoppedType DEF TranslateAnswer
  <2> QED BY <1>8, <1>9, <2>1, <2>2
<1>12. ASSUME NEW d \in Downlink, TranslateByAddress(d)
       PROVE  TypeOK'
  <2>1. \E found \in Device \cup {None}, next \in Stage : Translate(d, found, next)
    BY <1>12 DEF TranslateByAddress, Stage
  <2>2. UNCHANGED deviceOf
    BY <1>12 DEF TranslateByAddress
  <2> QED BY <1>8, <2>1, <2>2
<1>13. ASSUME NEW d \in Downlink, Synced(d)
       PROVE  TypeOK'
  BY <1>13 DEF Synced, Stage
<1>14. ASSUME NEW d \in Downlink, StartSend(d)
       PROVE  TypeOK'
  <2>1. IsCache(Stored(track, d, CorrId(d), now, AckTtl), Downlink, Corr \cup Downlink)
    <3>1. /\ CorrId(d) \in Corr \cup Downlink /\ now \in Int /\ AckTtl \in Int
          /\ IsCache(track, Downlink, Corr \cup Downlink)
      BY CorrIdType
    <3> QED BY <3>1, StoredType
  <2>2. stage' \in [Downlink -> Stage]
    BY <1>14 DEF StartSend, Stage
  <2> QED BY <1>14, <2>1, <2>2 DEF StartSend
<1>15. ASSUME NEW d \in Downlink, ReceiveResult(d)
       PROVE  TypeOK'
  <2>1. IsCache(Popped(track, d), Downlink, Corr \cup Downlink)
    BY PoppedType
  <2> QED BY <1>15, <2>1 DEF ReceiveResult
<1>16. ASSUME NEW d \in Downlink, SendTxAck(d)
       PROVE  TypeOK'
  <2>1. IsCache(Popped(extras, CorrId(d)), Corr \cup Downlink, Downlink)
    BY PoppedType
  <2>2. Lookup(extras, CorrId(d), None) \in Downlink \cup {None}
    BY LookupType
  <2> QED BY <1>16, <2>1, <2>2 DEF SendTxAck
<1> QED BY <1>1, <1>2, <1>3, <1>4, <1>5, <1>7, <1>10, <1>11, <1>12, <1>13, <1>14,
           <1>15, <1>16 DEF Next, Process

LEMMA InitInv == Init => IInv
<1> SUFFICES ASSUME Init PROVE IInv
  OBVIOUS
<1> USE DownlinkAssumption DEF Init
<1>1. DOMAIN scheduled = {} /\ DOMAIN track = {} /\ DOMAIN inbox = {}
  OBVIOUS
<1>2. ASSUME NEW K, NEW V
      PROVE  IsCache(<<>>, K, V)
  BY DEF IsCache
<1>3. clock \in Tmst
  BY ClockNumbers DEF Tmst
<1>4. \A d \in Downlink : order[d] \in Order /\ order[d].kind # "classA"
  BY DEF Order
<1>5. order \in [Downlink -> Order]
  BY <1>4
<1>6. request \in [Downlink -> Request]
  BY DEF Request
<1>7. TypeOK
  BY <1>2, <1>3, <1>5, <1>6 DEF TypeOK, Stage
<1>8. ClockAhead /\ LatestScheduled /\ ScheduledOnce /\ InboxArrived
  BY <1>1 DEF ClockAhead, LatestScheduled, ScheduledOnce, InboxArrived
<1>9. OrdersReal /\ DelayKept /\ TakenOnce
  BY <1>4 DEF OrdersReal, DelayKept, TakenOnce, Translated
<1>10. TrackedUnanswered
  BY <1>1 DEF TrackedUnanswered, Keys
<1>11. Shadowed /\ DevicesReal /\ DeviceKept /\ NamesReal
  BY <1>1, <1>4 DEF Shadowed, DevicesReal, DeviceKept, NamesReal, Translated, Before
<1> QED BY <1>7, <1>8, <1>9, <1>10, <1>11 DEF IInv

\* A step that gives out no timestamp, takes none, and brings no downlink.
Quiet ==
    /\ UNCHANGED <<clock, scheduled, deviceOf, uplink, order, request, inbox>>
    /\ \A d \in Downlink :
          /\ Translated(d)' => Translated(d)
          /\ stage[d] = "arrived" => stage'[d] = "arrived"
          /\ stage[d] \in {"sent", "dropped"} => stage'[d] = stage[d]

\* A step that takes d from the queue.
Taken(d) ==
    Refuse(d) \/ TranslateJoinAccept(d) \/ TranslateAnswer(d) \/ TranslateByAddress(d)

\* The three branches of _fetch_downlink_device_context all translate d.
LEMMA BranchesTranslate ==
    ASSUME TypeOK, NEW d \in Downlink, Taken(d)
    PROVE  \/ Refuse(d)
           \/ \E device \in Device \cup {None}, next \in Stage \ {"none"} :
                 Translate(d, device, next)
<1>1. IsCache(deviceOf, Corr, Device)
  BY DEF TypeOK
<1>2. Cached(d) \in Device \cup {None}
  BY <1>1, LookupType DEF Cached
<1>3. CASE TranslateJoinAccept(d)
  BY <1>2, <1>3 DEF TranslateJoinAccept, Stage
<1>4. CASE TranslateAnswer(d)
  BY <1>2, <1>4 DEF TranslateAnswer, Stage
<1>5. CASE TranslateByAddress(d)
  BY <1>5 DEF TranslateByAddress, Stage
<1> QED BY <1>3, <1>4, <1>5 DEF Taken

LEMMA KindsOfStep ==
    ASSUME TypeOK, [Next]_vars
    PROVE  \/ \E u \in Uplink, c \in Corr : Publish(u, c)
           \/ \E d \in Downlink : AnswerUplink(d) \/ SendUnasked(d) \/ Taken(d)
           \/ Quiet
<1>1. CASE UNCHANGED vars \/ Tick
  BY <1>1 DEF vars, Tick, Quiet, Translated
<1>2. ASSUME NEW d \in Downlink, Synced(d)
      PROVE  Quiet
  <2>1. PICK next \in {"queued", "dropped"} : stage' = [stage EXCEPT ![d] = next]
    BY <1>2 DEF Synced
  <2>2. stage[d] = "syncing" /\ UNCHANGED <<clock, scheduled, deviceOf, uplink, order, request, inbox>>
    BY <1>2 DEF Synced
  <2>3. \A e \in Downlink : stage'[e] = IF e = d THEN next ELSE stage[e]
    BY <2>1 DEF TypeOK
  <2> QED BY <2>2, <2>3 DEF Quiet, Translated
<1>3. ASSUME NEW d \in Downlink, StartSend(d)
      PROVE  Quiet
  <2>1. PICK next \in {"sent", "dropped"} : stage' = [stage EXCEPT ![d] = next]
    BY <1>3 DEF StartSend
  <2>2. stage[d] = "queued" /\ UNCHANGED <<clock, scheduled, deviceOf, uplink, order, request, inbox>>
    BY <1>3 DEF StartSend
  <2>3. \A e \in Downlink : stage'[e] = IF e = d THEN next ELSE stage[e]
    BY <2>1 DEF TypeOK
  <2> QED BY <2>2, <2>3 DEF Quiet, Translated
<1>4. ASSUME NEW d \in Downlink, ReceiveResult(d) \/ SendTxAck(d)
      PROVE  Quiet
  BY <1>4 DEF ReceiveResult, SendTxAck, Quiet, Translated
<1> QED BY <1>1, <1>2, <1>3, <1>4 DEF Next, Process, Taken

\* What publication does, entry by entry.
LEMMA PublishFacts ==
    ASSUME TypeOK, NEW u \in Uplink, NEW c \in Corr, Publish(u, c)
    PROVE  /\ uplink[u] = None /\ uplink'[u] # None
           /\ uplink'[u].payload = c /\ uplink'[u].tmst = clock
           /\ \A w \in Uplink : w # u => uplink'[w] = uplink[w]
           /\ \A w \in Uplink : uplink[w] # None => uplink'[w] = uplink[w]
           /\ \A k, t : Heard(k, t) => Heard(k, t)'
           /\ \A i \in DOMAIN scheduled' :
                 \/ scheduled'[i].key = c /\ scheduled'[i].value = clock
                 \/ \E j \in DOMAIN scheduled : scheduled'[i] = scheduled[j] /\ scheduled[j].key # c
<1> USE DownlinkAssumption
<1>1. uplink[u] = None /\ uplink' = [uplink EXCEPT ![u] = [payload |-> c, tmst |-> clock]]
  BY DEF Publish
<1>2. [payload |-> c, tmst |-> clock] \in [payload : Corr, tmst : Tmst]
  BY DEF TypeOK
<1>3. \A w \in Uplink : uplink'[w] = IF w = u THEN [payload |-> c, tmst |-> clock] ELSE uplink[w]
  BY <1>1 DEF TypeOK
<1>4. uplink'[u] # None /\ uplink'[u].payload = c /\ uplink'[u].tmst = clock
  BY <1>2, <1>3
<1>5. \A w \in Uplink : uplink[w] # None => uplink'[w] = uplink[w]
  BY <1>1, <1>3
<1>6. \A k, t : Heard(k, t) => Heard(k, t)'
  BY <1>5 DEF Heard
<1>7. ASSUME NEW i \in DOMAIN scheduled'
      PROVE  \/ scheduled'[i].key = c /\ scheduled'[i].value = clock
             \/ \E j \in DOMAIN scheduled : scheduled'[i] = scheduled[j] /\ scheduled[j].key # c
  <2>1. scheduled' = Stored(scheduled, c, clock, now, ScheduledTtl)
    BY DEF Publish
  <2>2. IsCache(scheduled, Corr, Tmst) /\ clock \in Tmst /\ now \in Int /\ ScheduledTtl \in Int
    BY DEF TypeOK
  <2>3. \A x \in DOMAIN Stored(scheduled, c, clock, now, ScheduledTtl) :
          \/ Stored(scheduled, c, clock, now, ScheduledTtl)[x]
                = [key |-> c, value |-> clock, until |-> now + ScheduledTtl]
          \/ \E j \in DOMAIN scheduled :
                Stored(scheduled, c, clock, now, ScheduledTtl)[x] = scheduled[j] /\ scheduled[j].key # c
    BY <2>2, StoredEntries
  <2> QED BY <1>7, <2>1, <2>3
<1> QED BY <1>1, <1>3, <1>4, <1>5, <1>6, <1>7

\* The queue loses its head, the cache the head's entry at most.
LEMMA TakeFacts ==
    ASSUME TypeOK, NEW d \in Downlink, Take(d)
    PROVE  /\ UNCHANGED <<clock, track, uplink, order, results>>
           /\ inbox # <<>> /\ d = inbox[1] /\ 1 \in DOMAIN inbox
           /\ \A i \in DOMAIN inbox' : i \in Nat /\ i # 0 /\ i + 1 \in DOMAIN inbox /\ inbox'[i] = inbox[i + 1]
           /\ \A i \in DOMAIN scheduled' : \E j \in DOMAIN scheduled :
                 /\ scheduled'[i] = scheduled[j]
                 /\ order[d].kind = "classA" => scheduled[j].key # CorrId(d)
           /\ \A i, j \in DOMAIN scheduled' : scheduled'[i].key = scheduled'[j].key => i = j
<1>1. UNCHANGED <<clock, track, uplink, order, results>>
  BY DEF Take
<1>2. inbox # <<>> /\ d = Head(inbox) /\ inbox' = Tail(inbox) /\ inbox \in Seq(Downlink)
  BY DEF Take, TypeOK
<1>3. /\ d = inbox[1] /\ Len(inbox) \in Nat /\ Len(inbox) # 0 /\ DOMAIN inbox = 1 .. Len(inbox)
      /\ Len(inbox') = Len(inbox) - 1 /\ inbox' \in Seq(Downlink)
      /\ \A i \in 1 .. Len(inbox') : inbox'[i] = inbox[i + 1]
  BY <1>2, HeadTailProperties, LenProperties, EmptySeq
<1>4. DOMAIN inbox' = 1 .. Len(inbox')
  BY <1>3, LenProperties
<1>5. IsCache(scheduled, Corr, Tmst)
  BY DEF TypeOK
<1>6. /\ IsCache(Popped(scheduled, CorrId(d)), Corr, Tmst)
      /\ \A i \in DOMAIN Popped(scheduled, CorrId(d)) : \E j \in DOMAIN scheduled :
            Popped(scheduled, CorrId(d))[i] = scheduled[j] /\ scheduled[j].key # CorrId(d)
  BY <1>5, PoppedEntries
<1>7. CASE order[d].kind = "classA"
  <2>1. scheduled' = Popped(scheduled, CorrId(d))
    BY <1>7 DEF Take
  <2> QED BY <1>1, <1>2, <1>3, <1>4, <1>6, <2>1 DEF IsCache
<1>8. CASE order[d].kind # "classA"
  <2>1. scheduled' = scheduled
    BY <1>8 DEF Take
  <2> QED BY <1>1, <1>2, <1>3, <1>4, <1>5, <1>8, <2>1 DEF IsCache
<1> QED BY <1>7, <1>8

\* What the translation of d changes.
LEMMA TakenFacts ==
    ASSUME TypeOK, NEW d \in Downlink, Taken(d)
    PROVE  /\ Take(d)
           /\ \A e \in Downlink : e # d => stage'[e] = stage[e] /\ request'[e] = request[e]
           /\ Translated(d)' => Accepted(d) /\ request'[d].delay = Delay(d)
<1>1. CASE Refuse(d)
  BY <1>1 DEF Refuse, TypeOK, Translated, Stage
<1>2. ASSUME NEW device \in Device \cup {None}, NEW next \in Stage, Translate(d, device, next)
      PROVE  /\ Take(d) /\ Accepted(d) /\ order' = order
             /\ \A e \in Downlink : e # d => stage'[e] = stage[e] /\ request'[e] = request[e]
             /\ order[d].kind = "classA" => request'[d].delay = Delay(d)
  <2>1. Take(d) /\ Accepted(d) /\ order' = order
    BY <1>2 DEF Translate, Take
  <2>2. stage' = [stage EXCEPT ![d] = next]
    BY <1>2 DEF Translate
  <2> DEFINE x == IF order[d].kind = "classA" THEN Delay(d) ELSE None
  <2>3. request' = [request EXCEPT ![d] = [device |-> device, delay |-> x]]
    BY <1>2 DEF Translate
  <2>4. order[d].kind = "classA" => x = Delay(d)
    OBVIOUS
  <2> HIDE DEF x
  <2> QED BY <2>1, <2>2, <2>3, <2>4 DEF TypeOK
<1> QED BY <1>1, <1>2, BranchesTranslate DEF Translated

\* Nothing published has the timestamp the clock gives out next.
LEMMA ClockNotHeard ==
    ASSUME TypeOK, ClockAhead, NEW k, NEW t, Heard(k, t)
    PROVE  t # clock
<1>1. PICK u \in Uplink : uplink[u] # None /\ uplink[u].tmst = t
  BY DEF Heard
<1>2. Interval <= Ahead(t, clock)
  BY <1>1 DEF ClockAhead
<1>3. clock \in Nat
  BY ClockNumbers DEF TypeOK, Tmst
<1>4. Ahead(clock, clock) = 0
  BY <1>3 DEF Ahead
<1> QED BY <1>2, <1>4, ClockAssumption

LEMMA ClockAheadStep ==
    ASSUME IInv, TypeOK', [Next]_vars
    PROVE  ClockAhead'
<1> USE DEF IInv
<1>1. ASSUME NEW u \in Uplink, NEW c \in Corr, Publish(u, c)
      PROVE  ClockAhead'
  <2> SUFFICES ASSUME NEW w \in Uplink, uplink'[w] # None
               PROVE  Interval <= Ahead(uplink'[w].tmst, clock') /\ Ahead(uplink'[w].tmst, clock') <= Turn
    BY DEF ClockAhead
  <2>1. clock' = NextTmst(clock) /\ WithinATurn /\ clock \in Tmst
    BY <1>1 DEF Publish, TypeOK
  <2>2. Interval \in Nat /\ MaxSeconds * Second \in Nat \ {0} /\ Timer \in Nat
        /\ Interval + MaxSeconds * Second <= Timer /\ clock \in Nat
    BY <2>1, ClockNumbers DEF Tmst
  <2>3. CASE w = u
    <3>1. uplink'[u].tmst = clock
      BY <1>1, PublishFacts
    <3>2. Ahead(clock, clock) = 0
      BY <2>2 DEF Ahead
    <3>3. Ahead(clock, clock') = Interval
      BY <2>1, <2>2, <3>2, AheadGrows
    <3> QED BY <2>2, <2>3, <3>1, <3>3 DEF Turn
  <2>4. CASE w # u
    <3>1. uplink'[w] = uplink[w]
      BY <1>1, <2>4, PublishFacts
    <3> DEFINE t == uplink[w].tmst
    <3>2. t \in Tmst
      BY <3>1 DEF TypeOK
    <3>3. Interval <= Ahead(t, clock) /\ Ahead(t, clock) + Interval <= Timer - MaxSeconds * Second
      BY <2>1, <3>1 DEF ClockAhead, WithinATurn
    <3>4. Ahead(t, clock) \in Int
      BY <2>2, <3>2 DEF Ahead, Tmst
    <3>5. Ahead(t, clock) + Interval < Timer
      BY <2>2, <3>3, <3>4
    <3> HIDE DEF t
    <3>6. Ahead(t, clock') = Ahead(t, clock) + Interval
      BY <2>1, <3>2, <3>5, AheadGrows
    <3> QED BY <2>2, <3>1, <3>3, <3>4, <3>6 DEF Turn, t
  <2> QED BY <2>3, <2>4
<1>2. ASSUME NEW d \in Downlink, AnswerUplink(d) \/ SendUnasked(d) \/ Taken(d)
      PROVE  UNCHANGED <<clock, uplink>>
  BY <1>2, TakenFacts, TakeFacts DEF AnswerUplink, SendUnasked, Arrive
<1>3. ASSUME UNCHANGED <<clock, uplink>>
      PROVE  ClockAhead'
  BY <1>3 DEF ClockAhead, Ahead
<1> QED BY <1>1, <1>2, <1>3, KindsOfStep DEF Quiet

LEMMA ScheduledStep ==
    ASSUME IInv, TypeOK', [Next]_vars
    PROVE  LatestScheduled' /\ ScheduledOnce'
<1> USE DEF IInv
<1>1. ASSUME NEW u \in Uplink, NEW c \in Corr, Publish(u, c)
      PROVE  LatestScheduled' /\ ScheduledOnce'
  <2>0. /\ uplink'[u] # None /\ uplink'[u].payload = c /\ uplink'[u].tmst = clock
        /\ \A w \in Uplink : w # u => uplink'[w] = uplink[w]
        /\ \A w \in Uplink : uplink[w] # None => uplink'[w] = uplink[w]
        /\ \A i \in DOMAIN scheduled' :
              \/ scheduled'[i].key = c /\ scheduled'[i].value = clock
              \/ \E j \in DOMAIN scheduled : scheduled'[i] = scheduled[j] /\ scheduled[j].key # c
    BY <1>1, PublishFacts
  <2>1. ASSUME NEW i \in DOMAIN scheduled', NEW w \in Uplink,
               uplink'[w] # None, uplink'[w].payload = scheduled'[i].key
        PROVE  NotAfter(uplink'[w].tmst, scheduled'[i].value)
    <3>1. CASE w = u
      <4>1. scheduled'[i].value = clock
        BY <2>0, <2>1, <3>1
      <4> QED BY <2>0, <3>1, <4>1 DEF NotAfter
    <3>2. CASE w # u
      <4>1. uplink'[w] = uplink[w]
        BY <2>0, <3>2
      <4>2. CASE scheduled'[i].value = clock
        BY <2>1, <4>1, <4>2 DEF ClockAhead, NotAfter
      <4>3. CASE \E j \in DOMAIN scheduled : scheduled'[i] = scheduled[j]
        BY <2>1, <4>1, <4>3 DEF LatestScheduled
      <4> QED BY <2>0, <4>2, <4>3
    <3> QED BY <3>1, <3>2
  <2>2. ASSUME NEW i \in DOMAIN scheduled'
        PROVE  \E w \in Uplink : /\ uplink'[w] # None /\ uplink'[w].payload = scheduled'[i].key
                                 /\ uplink'[w].tmst = scheduled'[i].value
    <3>1. CASE scheduled'[i].key = c /\ scheduled'[i].value = clock
      BY <2>0, <3>1
    <3>2. CASE \E j \in DOMAIN scheduled : scheduled'[i] = scheduled[j]
      BY <2>0, <3>2 DEF ScheduledOnce, Heard
    <3> QED BY <2>0, <3>1, <3>2
  <2>4. ASSUME NEW i \in DOMAIN scheduled', NEW j \in DOMAIN scheduled',
               scheduled'[i].value = scheduled'[j].value
        PROVE  i = j
    <3>1. \A x \in DOMAIN scheduled : scheduled[x].value # clock
      BY ClockNotHeard DEF ScheduledOnce
    <3>2. scheduled'[i].key = scheduled'[j].key
      BY <2>0, <2>4, <3>1 DEF ScheduledOnce
    <3> QED BY <3>2 DEF TypeOK, IsCache
  <2> QED BY <2>1, <2>2, <2>4 DEF LatestScheduled, ScheduledOnce, Heard
<1>2. ASSUME NEW d \in Downlink, Taken(d)
      PROVE  LatestScheduled' /\ ScheduledOnce'
  <2>1. Take(d)
    BY <1>2, TakenFacts
  <2>2. /\ uplink' = uplink
        /\ \A i \in DOMAIN scheduled' : \E j \in DOMAIN scheduled : scheduled'[i] = scheduled[j]
        /\ \A i, j \in DOMAIN scheduled' : scheduled'[i].key = scheduled'[j].key => i = j
    BY <2>1, TakeFacts
  <2>3. LatestScheduled'
    BY <2>2 DEF LatestScheduled
  <2> QED BY <2>2, <2>3 DEF ScheduledOnce, Heard
<1>3. ASSUME NEW d \in Downlink, AnswerUplink(d) \/ SendUnasked(d)
      PROVE  UNCHANGED <<scheduled, uplink>>
  BY <1>3 DEF AnswerUplink, SendUnasked, Arrive
<1>4. ASSUME UNCHANGED <<scheduled, uplink>>
      PROVE  LatestScheduled' /\ ScheduledOnce'
  BY <1>4 DEF LatestScheduled, ScheduledOnce, Heard
<1> QED BY <1>1, <1>2, <1>3, <1>4, KindsOfStep DEF Quiet

\* What a downlink that comes in changes; its order answers what was published.
LEMMA ArriveFacts ==
    ASSUME TypeOK, NEW d \in Downlink, AnswerUplink(d) \/ SendUnasked(d)
    PROVE  /\ UNCHANGED <<clock, scheduled, deviceOf, uplink, request, track, results>>
           /\ stage[d] = "none" /\ stage'[d] = "arrived" /\ inbox' = Append(inbox, d)
           /\ \A e \in Downlink : e # d => stage'[e] = stage[e] /\ order'[e] = order[e]
           /\ order'[d].kind = "classA" =>
                 /\ Heard(order'[d].payload, order'[d].tmst)
                 /\ order'[d].delay < MaxSeconds * Second
<1>1. ASSUME NEW o, Arrive(d, o)
      PROVE  /\ UNCHANGED <<clock, scheduled, deviceOf, uplink, request, track, results>>
             /\ stage[d] = "none" /\ stage'[d] = "arrived" /\ inbox' = Append(inbox, d)
             /\ \A e \in Downlink : e # d => stage'[e] = stage[e] /\ order'[e] = order[e]
             /\ order'[d] = o
  BY <1>1 DEF Arrive, TypeOK
<1>2. CASE AnswerUplink(d)
  <2>1. PICK u \in Uplink, delay \in Delays : uplink[u] # None /\
          Arrive(d, [kind |-> "classA", payload |-> uplink[u].payload,
                     tmst |-> uplink[u].tmst, delay |-> delay])
    BY <1>2 DEF AnswerUplink
  <2>2. Heard(uplink[u].payload, uplink[u].tmst) /\ delay < MaxSeconds * Second
    BY <2>1, DelaysAssumption DEF Heard
  <2> QED BY <1>1, <2>1, <2>2
<1>3. CASE SendUnasked(d)
  <2>1. PICK kind \in {"classBC", "malformed"} : Arrive(d, [kind |-> kind])
    BY <1>3 DEF SendUnasked
  <2> QED BY <1>1, <2>1
<1> QED BY <1>2, <1>3

LEMMA InboxArrivedStep ==
    ASSUME IInv, [Next]_vars
    PROVE  InboxArrived'
<1> USE DEF IInv
<1>1. inbox \in Seq(Downlink) /\ \A i \in DOMAIN inbox : inbox[i] \in Downlink
  BY ElementOfSeq, LenProperties DEF TypeOK
<1>2. ASSUME NEW d \in Downlink, AnswerUplink(d) \/ SendUnasked(d)
      PROVE  InboxArrived'
  <2>1. /\ stage[d] = "none" /\ stage'[d] = "arrived" /\ inbox' = Append(inbox, d)
        /\ \A e \in Downlink : e # d => stage'[e] = stage[e]
    BY <1>2, ArriveFacts
  <2>2. /\ DOMAIN inbox = 1 .. Len(inbox) /\ DOMAIN inbox' = 1 .. (Len(inbox) + 1)
        /\ Len(inbox) \in Nat /\ inbox'[Len(inbox) + 1] = d
        /\ \A i \in 1 .. Len(inbox) : inbox'[i] = inbox[i]
    BY <1>1, <2>1, AppendProperties, LenProperties
  <2>3. \A i \in DOMAIN inbox' : i \in DOMAIN inbox \/ i = Len(inbox) + 1
    BY <2>2
  <2>4. \A i \in DOMAIN inbox : inbox'[i] = inbox[i] /\ inbox[i] # d /\ stage'[inbox[i]] = "arrived"
    BY <1>1, <2>1, <2>2 DEF InboxArrived
  <2> QED BY <2>1, <2>2, <2>3, <2>4 DEF InboxArrived
<1>3. ASSUME NEW d \in Downlink, Taken(d)
      PROVE  InboxArrived'
  <2>1. /\ Take(d)
        /\ \A e \in Downlink : e # d => stage'[e] = stage[e]
    BY <1>3, TakenFacts
  <2>2. /\ d = inbox[1] /\ 1 \in DOMAIN inbox
        /\ \A i \in DOMAIN inbox' : i \in Nat /\ i # 0 /\ i + 1 \in DOMAIN inbox /\ inbox'[i] = inbox[i + 1]
    BY <2>1, TakeFacts
  <2>3. \A i \in DOMAIN inbox' : i + 1 # 1 /\ inbox'[i] # d
    BY <2>2 DEF InboxArrived
  <2>4. \A i \in DOMAIN inbox' : stage'[inbox'[i]] = "arrived"
    BY <1>1, <2>1, <2>2, <2>3 DEF InboxArrived
  <2>5. \A i, j \in DOMAIN inbox' : inbox'[i] = inbox'[j] => i + 1 = j + 1
    BY <2>2 DEF InboxArrived
  <2>6. \A i, j \in DOMAIN inbox' : i + 1 = j + 1 => i = j
    BY <2>2
  <2> QED BY <2>4, <2>5, <2>6 DEF InboxArrived
<1>4. ASSUME inbox' = inbox, \A d \in Downlink : stage[d] = "arrived" => stage'[d] = "arrived"
      PROVE  InboxArrived'
  BY <1>1, <1>4 DEF InboxArrived
<1> QED BY <1>2, <1>3, <1>4, KindsOfStep DEF Quiet, Publish

LEMMA OrdersRealStep ==
    ASSUME IInv, [Next]_vars
    PROVE  OrdersReal'
<1> USE DEF IInv
<1>1. ASSUME NEW u \in Uplink, NEW c \in Corr, Publish(u, c)
      PROVE  OrdersReal'
  <2>1. \A w \in Uplink : uplink[w] # None => uplink'[w] = uplink[w]
    BY <1>1, PublishFacts
  <2>2. order' = order
    BY <1>1 DEF Publish
  <2> QED BY <2>1, <2>2 DEF OrdersReal, Heard
<1>2. ASSUME NEW d \in Downlink, AnswerUplink(d) \/ SendUnasked(d)
      PROVE  OrdersReal'
  <2>1. /\ uplink' = uplink
        /\ \A e \in Downlink : e # d => order'[e] = order[e]
        /\ order'[d].kind = "classA" =>
              /\ Heard(order'[d].payload, order'[d].tmst)
              /\ order'[d].delay < MaxSeconds * Second
    BY <1>2, ArriveFacts
  <2> QED BY <2>1 DEF OrdersReal, Heard
<1>3. ASSUME NEW d \in Downlink, Taken(d)
      PROVE  UNCHANGED <<order, uplink>>
  BY <1>3, TakenFacts, TakeFacts
<1>4. ASSUME UNCHANGED <<order, uplink>>
      PROVE  OrdersReal'
  BY <1>4 DEF OrdersReal, Heard
<1> QED BY <1>1, <1>2, <1>3, <1>4, KindsOfStep DEF Quiet

\* The delay of each answer, and that its timestamp is gone from the cache.
LEMMA TranslatedStep ==
    ASSUME IInv, [Next]_vars
    PROVE  DelayKept' /\ TakenOnce'
<1> USE DEF IInv
<1>1. ASSUME NEW u \in Uplink, NEW c \in Corr, Publish(u, c)
      PROVE  DelayKept' /\ TakenOnce'
  <2>1. UNCHANGED <<order, stage, request>>
    BY <1>1 DEF Publish
  <2>2. \A d \in Downlink : Translated(d) => order[d].tmst # clock
    BY ClockNotHeard DEF OrdersReal, Translated
  <2>3. \A i \in DOMAIN scheduled' :
           scheduled'[i].value = clock \/ \E j \in DOMAIN scheduled : scheduled'[i] = scheduled[j]
    BY <1>1, PublishFacts
  <2> QED BY <2>1, <2>2, <2>3 DEF DelayKept, TakenOnce, Translated
<1>2. ASSUME NEW d \in Downlink, AnswerUplink(d) \/ SendUnasked(d)
      PROVE  DelayKept' /\ TakenOnce'
  <2>1. /\ UNCHANGED <<scheduled, request>> /\ stage'[d] = "arrived"
        /\ \A e \in Downlink : e # d => stage'[e] = stage[e] /\ order'[e] = order[e]
    BY <1>2, ArriveFacts
  <2> QED BY <2>1 DEF DelayKept, TakenOnce, Translated
<1>3. ASSUME NEW d \in Downlink, Taken(d)
      PROVE  DelayKept' /\ TakenOnce'
  <2>1. /\ Take(d)
        /\ \A e \in Downlink : e # d => stage'[e] = stage[e] /\ request'[e] = request[e]
        /\ Translated(d)' => Accepted(d) /\ request'[d].delay = Delay(d)
    BY <1>3, TakenFacts
  <2>2. /\ order' = order
        /\ \A i \in DOMAIN scheduled' : \E j \in DOMAIN scheduled :
              /\ scheduled'[i] = scheduled[j]
              /\ order[d].kind = "classA" => scheduled[j].key # CorrId(d)
    BY <2>1, TakeFacts
  <2>3. ASSUME Translated(d)'
        PROVE  /\ request'[d].delay = Seconds(order[d].delay)
               /\ \A i \in DOMAIN scheduled' : scheduled'[i].value # order[d].tmst
               /\ \A e \in Downlink : Translated(e) => order[e].tmst # order[d].tmst
    <3>1. order[d].kind = "classA" /\ Accepted(d) /\ CorrId(d) = order[d].payload
      BY <2>1, <2>2, <2>3 DEF Translated, CorrId
    <3>2. Delay(d) = Seconds(order[d].delay)
      BY <3>1, AcceptedDelay
    <3>3. PICK k \in DOMAIN scheduled :
             scheduled[k].key = order[d].payload /\ scheduled[k].value = order[d].tmst
      BY <3>1, AcceptedDelay
    <3>4. \A i \in DOMAIN scheduled' : scheduled'[i].value # order[d].tmst
      BY <2>2, <3>1, <3>3 DEF ScheduledOnce
    <3>5. \A e \in Downlink : Translated(e) => order[e].tmst # order[d].tmst
      BY <3>3 DEF TakenOnce
    <3> QED BY <2>1, <2>3, <3>2, <3>4, <3>5
  <2>4. \A e \in Downlink : e # d => (Translated(e)' <=> Translated(e))
    BY <2>1, <2>2 DEF Translated
  <2>5. DelayKept'
    BY <2>1, <2>2, <2>3, <2>4 DEF DelayKept
  <2>6. ASSUME NEW e \in Downlink, Translated(e)'
        PROVE  /\ \A i \in DOMAIN scheduled' : scheduled'[i].value # order[e].tmst
               /\ \A f \in Downlink : Translated(f)' /\ order[f].tmst = order[e].tmst => e = f
    BY <2>2, <2>3, <2>4, <2>6 DEF TakenOnce
  <2> QED BY <2>2, <2>5, <2>6 DEF TakenOnce
<1>4. CASE Quiet
  BY <1>4 DEF Quiet, DelayKept, TakenOnce
<1> QED BY <1>1, <1>2, <1>3, <1>4, KindsOfStep

LEMMA TrackedStep ==
    ASSUME IInv, [Next]_vars
    PROVE  TrackedUnanswered'
<1> USE DEF IInv
<1>1. CASE UNCHANGED vars \/ Tick \/ \E u \in Uplink, c \in Corr : Publish(u, c)
  BY <1>1 DEF vars, Tick, Publish, TrackedUnanswered
<1>2. ASSUME NEW d \in Downlink, AnswerUplink(d) \/ SendUnasked(d)
      PROVE  TrackedUnanswered'
  <2>1. /\ UNCHANGED <<track, results>> /\ stage[d] = "none" /\ stage'[d] = "arrived"
        /\ \A e \in Downlink : e # d => stage'[e] = stage[e]
    BY <1>2, ArriveFacts
  <2> QED BY <2>1 DEF TrackedUnanswered
<1>3. ASSUME NEW d \in Downlink, Taken(d)
      PROVE  TrackedUnanswered'
  <2>1. /\ Take(d)
        /\ \A e \in Downlink : e # d => stage'[e] = stage[e]
    BY <1>3, TakenFacts
  <2>2. UNCHANGED <<track, results>> /\ d = inbox[1] /\ 1 \in DOMAIN inbox
    BY <2>1, TakeFacts
  <2>3. stage[d] = "arrived"
    BY <2>2 DEF InboxArrived
  <2> QED BY <2>1, <2>2, <2>3 DEF TrackedUnanswered
<1>4. ASSUME NEW d \in Downlink, Synced(d)
      PROVE  TrackedUnanswered'
  <2>1. PICK next \in {"queued", "dropped"} : stage' = [stage EXCEPT ![d] = next]
    BY <1>4 DEF Synced
  <2>2. stage[d] = "syncing" /\ UNCHANGED <<track, results>>
    BY <1>4 DEF Synced
  <2>3. \A e \in Downlink : stage'[e] = IF e = d THEN next ELSE stage[e]
    BY <2>1 DEF TypeOK
  <2> QED BY <2>2, <2>3 DEF TrackedUnanswered
<1>5. ASSUME NEW d \in Downlink, StartSend(d)
      PROVE  TrackedUnanswered'
  <2>1. PICK next \in {"sent", "dropped"} : stage' = [stage EXCEPT ![d] = next]
    BY <1>5 DEF StartSend
  <2>2. /\ stage[d] = "queued" /\ results' = results
        /\ track' = Stored(track, d, CorrId(d), now, AckTtl)
    BY <1>5 DEF StartSend
  <2>3. \A e \in Downlink : stage'[e] = IF e = d THEN next ELSE stage[e]
    BY <2>1 DEF TypeOK
  <2>4. Keys(track') \subseteq Keys(track) \cup {d}
    <3>1. /\ CorrId(d) \in Corr \cup Downlink /\ now \in Int /\ AckTtl \in Int
          /\ IsCache(track, Downlink, Corr \cup Downlink)
      BY CorrIdType, DownlinkAssumption DEF TypeOK
    <3>2. \A i \in DOMAIN track' : track'[i].key = d \/ \E j \in DOMAIN track : track'[i] = track[j]
      BY <2>2, <3>1, StoredEntries
    <3> QED BY <3>2 DEF Keys
  <2> QED BY <2>2, <2>3, <2>4 DEF TrackedUnanswered
<1>6. ASSUME NEW d \in Downlink, ReceiveResult(d)
      PROVE  TrackedUnanswered'
  <2>1. /\ stage[d] = "sent" /\ d \in Keys(track) /\ stage' = stage
        /\ track' = Popped(track, d) /\ results' = [results EXCEPT ![d] = @ + 1]
    BY <1>6 DEF ReceiveResult
  <2>2. Keys(track') \subseteq Keys(track) \ {d}
    <3>1. IsCache(track, Downlink, Corr \cup Downlink)
      BY DEF TypeOK
    <3>2. \A i \in DOMAIN track' : \E j \in DOMAIN track : track'[i] = track[j] /\ track[j].key # d
      BY <2>1, <3>1, PoppedEntries
    <3> QED BY <3>2 DEF Keys
  <2>3. \A e \in Downlink : results'[e] = IF e = d THEN results[d] + 1 ELSE results[e]
    BY <2>1 DEF TypeOK
  <2> QED BY <2>1, <2>2, <2>3 DEF TrackedUnanswered
<1>7. ASSUME NEW d \in Downlink, SendTxAck(d)
      PROVE  TrackedUnanswered'
  BY <1>7 DEF SendTxAck, TrackedUnanswered
<1> QED BY <1>1, <1>2, <1>3, <1>4, <1>5, <1>6, <1>7 DEF Next, Process, Taken

\* The entry a publication writes is dated the same way in both caches, and what
\* cleaning drops from the devices it drops from the timestamps.
LEMMA PublishShadows ==
    ASSUME TypeOK, Shadowed, NEW u \in Uplink, NEW c \in Corr, Publish(u, c)
    PROVE  Shadowed'
<1> USE DownlinkAssumption
<1> DEFINE s == Stored(scheduled, c, clock, now, ScheduledTtl)
           v == Stored(deviceOf, c, Sender[c], now, DeviceTtl)
           keptS == {x \in Keys(scheduled) : x # c /\ ~Expired(scheduled, x, now)}
           keptV == {x \in Keys(deviceOf) : x # c /\ ~Expired(deviceOf, x, now)}
           es == [key |-> c, value |-> clock, until |-> now + ScheduledTtl]
           ev == [key |-> c, value |-> Sender[c], until |-> now + DeviceTtl]
           older == DeviceTtl - ScheduledTtl
<1>1. scheduled' = s /\ deviceOf' = v
  BY DEF Publish
<1>2. /\ IsCache(scheduled, Corr, Tmst) /\ IsCache(deviceOf, Corr, Device)
      /\ clock \in Tmst /\ Sender[c] \in Device /\ now \in Int
      /\ ScheduledTtl \in Int /\ DeviceTtl \in Int
  BY DEF TypeOK
<1>3. /\ IsCache(s, Corr, Tmst) /\ Keys(s) = keptS \cup {c}
      /\ \A a, b : Before(s, a, b) <=> a \in keptS /\ (b = c \/ (b # c /\ Before(scheduled, a, b)))
  BY <1>2, StoredBefore, StoredEntries
<1>4. /\ Keys(v) = keptV \cup {c}
      /\ \A a, b : Before(v, a, b) <=> a \in keptV /\ (b = c \/ (b # c /\ Before(deviceOf, a, b)))
  BY <1>2, StoredBefore
<1>5. /\ \A i \in DOMAIN s : s[i] = es \/ \E j \in DOMAIN scheduled : s[i] = scheduled[j] /\ scheduled[j].key # c
      /\ \E i \in DOMAIN v : v[i] = ev
      /\ \A i \in DOMAIN v : v[i] = ev \/ \E j \in DOMAIN deviceOf : v[i] = deviceOf[j] /\ deviceOf[j].key # c
  BY <1>2, StoredEntries
<1> HIDE DEF s, v
<1>6. \A i \in DOMAIN scheduled : scheduled[i].until \in Int
  BY <1>2, EntryType
<1>7. keptS \subseteq keptV
  <2> SUFFICES ASSUME NEW k \in keptS PROVE k \in keptV
    OBVIOUS
  <2>1. PICK i \in DOMAIN scheduled : scheduled[i].key = k
    BY DEF Keys
  <2>2. PICK x \in DOMAIN deviceOf : deviceOf[x].key = k /\ deviceOf[x].until = scheduled[i].until + older
    BY <2>1 DEF Shadowed
  <2>3. k \in Keys(deviceOf) /\ k # c
    BY <2>2 DEF Keys
  <2>4. ASSUME Expired(deviceOf, k, now) PROVE FALSE
    <3>1. deviceOf # <<>> /\ deviceOf[1].key = k /\ now > deviceOf[1].until
      BY <2>4 DEF Expired
    <3>2. x = 1
      BY <1>2, <2>2, <3>1, FirstInDomain DEF IsCache
    <3>3. now > scheduled[i].until
      BY <1>2, <1>6, <2>2, <3>1, <3>2, TtlAssumption
    <3>4. i # 1
      <4>1. scheduled # <<>>
        BY <1>2, FirstInDomain
      <4> QED BY <2>1, <3>3, <4>1 DEF Expired
    <3>5. Before(scheduled, scheduled[1].key, k)
      BY <1>2, <2>1, <3>4, FirstInDomain DEF Before
    <3>6. Before(deviceOf, scheduled[1].key, k)
      BY <3>5 DEF Shadowed
    <3> QED BY <1>2, <3>1, <3>6, BeforeFirst
  <2> QED BY <2>3, <2>4
<1>8. ASSUME NEW i \in DOMAIN s
      PROVE  \E x \in DOMAIN v : v[x].key = s[i].key /\ v[x].until = s[i].until + older
  <2>1. CASE s[i] = es
    <3>1. now + DeviceTtl = (now + ScheduledTtl) + older
      BY <1>2
    <3> QED BY <1>5, <2>1, <3>1
  <2>2. CASE s[i] # es
    <3>1. PICK j \in DOMAIN scheduled : s[i] = scheduled[j] /\ scheduled[j].key # c
      BY <1>5, <2>2
    <3>2. s[i].key \in keptV
      BY <1>3, <1>7, <3>1 DEF Keys
    <3>3. PICK x \in DOMAIN v : v[x].key = s[i].key
      BY <1>4, <3>2 DEF Keys
    <3>4. PICK y \in DOMAIN deviceOf : v[x] = deviceOf[y]
      BY <1>5, <3>1, <3>3
    <3>5. PICK z \in DOMAIN deviceOf : /\ deviceOf[z].key = s[i].key
                                       /\ deviceOf[z].until = s[i].until + older
      BY <3>1 DEF Shadowed
    <3>6. y = z
      BY <1>2, <3>3, <3>4, <3>5 DEF IsCache
    <3> QED BY <3>3, <3>4, <3>5, <3>6
  <2> QED BY <2>1, <2>2
<1>9. \A a, b : Before(s, a, b) => Before(v, a, b)
  BY <1>3, <1>4, <1>7 DEF Shadowed
<1> QED BY <1>1, <1>8, <1>9 DEF Shadowed

\* What is popped from the devices is popped from the timestamps.
LEMMA PopShadows ==
    ASSUME TypeOK, Shadowed, NEW k,
           scheduled' = Popped(scheduled, k),
           deviceOf' = deviceOf \/ deviceOf' = Popped(deviceOf, k)
    PROVE  Shadowed'
<1>1. IsCache(scheduled, Corr, Tmst) /\ IsCache(deviceOf, Corr, Device)
  BY DEF TypeOK
<1>2. /\ \A i \in DOMAIN scheduled' : \E j \in DOMAIN scheduled :
            scheduled'[i] = scheduled[j] /\ scheduled[j].key # k
      /\ \A a, b : Before(scheduled', a, b) <=> Before(scheduled, a, b) /\ a # k /\ b # k
  BY <1>1, PoppedEntries, PoppedBefore
<1>3. /\ \A j \in DOMAIN deviceOf : deviceOf[j].key # k =>
            \E i \in DOMAIN deviceOf' : deviceOf'[i] = deviceOf[j]
      /\ \A a, b : Before(deviceOf, a, b) /\ a # k /\ b # k => Before(deviceOf', a, b)
  BY <1>1, PoppedEntries, PoppedBefore
<1>4. ASSUME NEW i \in DOMAIN scheduled'
      PROVE  \E x \in DOMAIN deviceOf' :
                /\ deviceOf'[x].key = scheduled'[i].key
                /\ deviceOf'[x].until = scheduled'[i].until + (DeviceTtl - ScheduledTtl)
  BY <1>2, <1>3 DEF Shadowed
<1> QED BY <1>2, <1>3, <1>4 DEF Shadowed

\* A known device comes from the cache: of d's answer, or of nothing.
LEMMA TakenDevice ==
    ASSUME IInv, NEW d \in Downlink, Taken(d)
    PROVE  /\ deviceOf' = deviceOf \/
                 (order[d].kind = "classA" /\ deviceOf' = Popped(deviceOf, CorrId(d)))
           /\ Translated(d)' => request'[d].device = Sender[order[d].payload]
<1> USE DEF IInv
<1>1. IsCache(deviceOf, Corr, Device)
  BY DEF TypeOK
<1>2. order[d].kind # "classA" => CorrId(d) = d /\ CorrId(d) \notin Corr
  BY DownlinkAssumption DEF CorrId
<1>3. ASSUME TranslateAnswer(d)
      PROVE  order[d].kind = "classA"
  <2>1. CorrId(d) \in Keys(deviceOf)
    BY <1>3 DEF TranslateAnswer, Cached, Lookup
  <2>2. CorrId(d) \in Corr
    BY <1>1, <2>1, KeysType
  <2> QED BY <1>2, <2>2
<1>4. ASSUME order[d].kind = "classA", Accepted(d)
      PROVE  Cached(d) = Sender[order[d].payload] /\ Cached(d) # None
  <2>1. PICK i \in DOMAIN scheduled : scheduled[i].key = order[d].payload
    BY <1>4, AcceptedDelay
  <2>2. PICK x \in DOMAIN deviceOf : deviceOf[x].key = order[d].payload
    BY <2>1 DEF Shadowed
  <2>3. Cached(d) = deviceOf[x].value
    BY <1>1, <1>4, <2>2, LookupFinds DEF Cached, CorrId
  <2>4. deviceOf[x].value \in Device
    BY <1>1, EntryType
  <2> QED BY <2>2, <2>3, <2>4, DownlinkAssumption DEF DevicesReal
<1>5. ASSUME NEW device, NEW next, Translate(d, device, next), order[d].kind = "classA"
      PROVE  /\ request'[d].device = device
             /\ Cached(d) = Sender[order[d].payload] /\ Cached(d) # None
  <2> DEFINE x == IF order[d].kind = "classA" THEN Delay(d) ELSE None
  <2>1. request' = [request EXCEPT ![d] = [device |-> device, delay |-> x]] /\ Accepted(d)
    BY <1>5 DEF Translate
  <2> HIDE DEF x
  <2> QED BY <1>4, <1>5, <2>1 DEF TypeOK
<1>6. Translated(d)' => order[d].kind = "classA" /\ stage'[d] # "refused"
  BY DEF Translated, Taken, Refuse, Translate, Take, TranslateJoinAccept, TranslateAnswer, TranslateByAddress
<1>7. CASE Refuse(d)
  BY <1>6, <1>7 DEF Refuse, TypeOK, Translated
<1>8. CASE TranslateJoinAccept(d)
  BY <1>5, <1>6, <1>8 DEF TranslateJoinAccept
<1>9. CASE TranslateAnswer(d)
  BY <1>3, <1>5, <1>6, <1>9 DEF TranslateAnswer
<1>10. CASE TranslateByAddress(d)
  BY <1>5, <1>6, <1>10 DEF TranslateByAddress
<1> QED BY <1>7, <1>8, <1>9, <1>10 DEF Taken

LEMMA ShadowedStep ==
    ASSUME IInv, [Next]_vars
    PROVE  Shadowed'
<1> USE DEF IInv
<1>1. ASSUME NEW u \in Uplink, NEW c \in Corr, Publish(u, c)
      PROVE  Shadowed'
  BY <1>1, PublishShadows
<1>2. ASSUME NEW d \in Downlink, Taken(d)
      PROVE  Shadowed'
  <2>1. Take(d)
    BY <1>2, TakenFacts
  <2>2. CASE order[d].kind = "classA"
    <3>1. scheduled' = Popped(scheduled, CorrId(d))
      BY <2>1, <2>2 DEF Take
    <3> QED BY <1>2, <3>1, TakenDevice, PopShadows
  <2>3. CASE order[d].kind # "classA"
    <3>1. scheduled' = scheduled /\ deviceOf' = deviceOf
      BY <1>2, <2>1, <2>3, TakenDevice DEF Take
    <3> QED BY <3>1 DEF Shadowed
  <2> QED BY <2>2, <2>3
<1>3. ASSUME NEW d \in Downlink, AnswerUplink(d) \/ SendUnasked(d)
      PROVE  UNCHANGED <<scheduled, deviceOf>>
  BY <1>3, ArriveFacts
<1>4. ASSUME UNCHANGED <<scheduled, deviceOf>>
      PROVE  Shadowed'
  BY <1>4 DEF Shadowed
<1> QED BY <1>1, <1>2, <1>3, <1>4, KindsOfStep DEF Quiet

\* The device of each answer is its payload's.
LEMMA DeviceStep ==
    ASSUME IInv, [Next]_vars
    PROVE  DevicesReal' /\ DeviceKept'
<1> USE DEF IInv
<1>0. IsCache(deviceOf, Corr, Device)
  BY DEF TypeOK
<1>1. ASSUME NEW u \in Uplink, NEW c \in Corr, Publish(u, c)
      PROVE  DevicesReal' /\ DeviceKept'
  <2>1. Sender[c] \in Device /\ now \in Int /\ DeviceTtl \in Int
    BY DownlinkAssumption DEF TypeOK
  <2>2. /\ deviceOf' = Stored(deviceOf, c, Sender[c], now, DeviceTtl)
        /\ UNCHANGED <<order, stage, request>>
    BY <1>1 DEF Publish
  <2>3. \A i \in DOMAIN deviceOf' :
           \/ deviceOf'[i].key = c /\ deviceOf'[i].value = Sender[c]
           \/ \E j \in DOMAIN deviceOf : deviceOf'[i] = deviceOf[j]
    BY <1>0, <2>1, <2>2, StoredEntries
  <2> QED BY <2>2, <2>3 DEF DevicesReal, DeviceKept, Translated
<1>2. ASSUME NEW d \in Downlink, Taken(d)
      PROVE  DevicesReal' /\ DeviceKept'
  <2>1. /\ Take(d)
        /\ \A e \in Downlink : e # d => stage'[e] = stage[e] /\ request'[e] = request[e]
    BY <1>2, TakenFacts
  <2>2. \A i \in DOMAIN deviceOf' : \E j \in DOMAIN deviceOf : deviceOf'[i] = deviceOf[j]
    BY <1>0, <1>2, TakenDevice, PoppedEntries
  <2>3. Translated(d)' => request'[d].device = Sender[order[d].payload]
    BY <1>2, TakenDevice
  <2> QED BY <2>1, <2>2, <2>3 DEF DevicesReal, DeviceKept, Translated, Take
<1>3. ASSUME NEW d \in Downlink, AnswerUplink(d) \/ SendUnasked(d)
      PROVE  DevicesReal' /\ DeviceKept'
  <2>1. /\ UNCHANGED <<deviceOf, request>> /\ stage'[d] = "arrived"
        /\ \A e \in Downlink : e # d => stage'[e] = stage[e] /\ order'[e] = order[e]
    BY <1>3, ArriveFacts
  <2> QED BY <2>1 DEF DevicesReal, DeviceKept, Translated
<1>4. CASE Quiet
  BY <1>4 DEF Quiet, DevicesReal, DeviceKept
<1> QED BY <1>1, <1>2, <1>3, <1>4, KindsOfStep

\* What has arrived keeps its order and never becomes unarrived.
LEMMA Arrived ==
    ASSUME TypeOK, [Next]_vars, NEW d \in Downlink, stage[d] # "none"
    PROVE  stage'[d] # "none" /\ order'[d] = order[d] /\ CorrId(d)' = CorrId(d)
<1>1. stage'[d] # "none" /\ order'[d] = order[d]
  <2>1. CASE UNCHANGED vars \/ Tick \/ \E u \in Uplink, c \in Corr : Publish(u, c)
    BY <2>1 DEF vars, Tick, Publish
  <2>2. ASSUME NEW e \in Downlink, AnswerUplink(e) \/ SendUnasked(e)
        PROVE  stage'[d] # "none" /\ order'[d] = order[d]
    BY <2>2, ArriveFacts
  <2>3. ASSUME NEW e \in Downlink, Taken(e)
        PROVE  stage'[d] # "none" /\ order'[d] = order[d]
    <3>1. CASE Refuse(e)
      BY <3>1 DEF Refuse, Take, TypeOK
    <3>2. ASSUME NEW device, NEW next \in Stage \ {"none"}, Translate(e, device, next)
          PROVE  stage'[d] # "none" /\ order'[d] = order[d]
      BY <3>2 DEF Translate, Take, TypeOK
    <3> QED BY <2>3, <3>1, <3>2, BranchesTranslate
  <2>4. ASSUME NEW e \in Downlink, Synced(e) \/ StartSend(e) \/ ReceiveResult(e) \/ SendTxAck(e)
        PROVE  stage'[d] # "none" /\ order'[d] = order[d]
    BY <2>4 DEF Synced, StartSend, ReceiveResult, SendTxAck, TypeOK
  <2> QED BY <2>1, <2>2, <2>3, <2>4 DEF Next, Process, Taken
<1> QED BY <1>1 DEF CorrId

\* Whose ids are kept: those of the downlink just translated are added under its
\* key, an expired first entry may go, an ack takes those of its key.
LEMMA ExtrasFacts ==
    ASSUME TypeOK, [Next]_vars
    PROVE  \/ extras' = extras /\ names' = names
           \/ \E d \in Downlink :
                 /\ extras' = Stored(extras, CorrId(d), d, now, AckTtl)
                 /\ stage'[d] # "none" /\ CorrId(d)' = CorrId(d)
                 /\ UNCHANGED <<names, report>>
           \/ \E d \in Downlink :
                 /\ SendTxAck(d)
                 /\ extras' = Popped(extras, CorrId(d)) /\ UNCHANGED <<stage, order>>
                 /\ names'[d] = Lookup(extras, CorrId(d), None)
                 /\ report[d] = "queued" /\ report'[d] = "done"
                 /\ \A e \in Downlink : e # d => names'[e] = names[e] /\ report'[e] = report[e]
<1>1. CASE UNCHANGED vars \/ Tick \/ \E u \in Uplink, c \in Corr : Publish(u, c)
  BY <1>1 DEF vars, Tick, Publish
<1>2. ASSUME NEW d \in Downlink, AnswerUplink(d) \/ SendUnasked(d)
      PROVE  extras' = extras /\ names' = names
  BY <1>2 DEF AnswerUplink, SendUnasked, Arrive
<1>3. CASE \E d \in Downlink : Refuse(d)
  BY <1>3 DEF Refuse, Take
<1>4. ASSUME NEW d \in Downlink, NEW device, NEW next \in Stage \ {"none"}, Translate(d, device, next)
      PROVE  /\ extras' = Stored(extras, CorrId(d), d, now, AckTtl)
             /\ stage'[d] # "none" /\ CorrId(d)' = CorrId(d)
             /\ UNCHANGED <<names, report>>
  BY <1>4 DEF Translate, Take, TypeOK, CorrId
<1>5. ASSUME NEW d \in Downlink, Taken(d)
      PROVE  \/ \E e \in Downlink : Refuse(e)
             \/ \E device \in Device \cup {None}, next \in Stage \ {"none"} :
                   Translate(d, device, next)
  BY <1>5, BranchesTranslate
<1>6. ASSUME NEW d \in Downlink, Synced(d) \/ StartSend(d) \/ ReceiveResult(d)
      PROVE  extras' = extras /\ names' = names
  BY <1>6 DEF Synced, StartSend, ReceiveResult
<1>7. ASSUME NEW d \in Downlink, SendTxAck(d)
      PROVE  /\ extras' = Popped(extras, CorrId(d)) /\ UNCHANGED <<stage, order>>
             /\ names'[d] = Lookup(extras, CorrId(d), None)
             /\ report[d] = "queued" /\ report'[d] = "done"
             /\ \A e \in Downlink : e # d => names'[e] = names[e] /\ report'[e] = report[e]
  BY <1>7 DEF SendTxAck, TypeOK
<1> QED BY <1>1, <1>2, <1>3, <1>4, <1>5, <1>6, <1>7 DEF Next, Process, Taken

\* What a report needs: the downlink was sent.
LEMMA ReportFacts ==
    ASSUME TypeOK, [Next]_vars, NEW d \in Downlink, report'[d] # "none"
    PROVE  report[d] # "none" \/ stage[d] # "none"
<1>1. CASE UNCHANGED vars \/ Tick \/ \E u \in Uplink, c \in Corr : Publish(u, c)
  BY <1>1 DEF vars, Tick, Publish
<1>2. ASSUME NEW e \in Downlink, AnswerUplink(e) \/ SendUnasked(e)
      PROVE  report' = report
  BY <1>2 DEF AnswerUplink, SendUnasked, Arrive
<1>3. ASSUME NEW e \in Downlink, Process(e) \/ StartSend(e)
      PROVE  report' = report
  BY <1>3 DEF Process, Refuse, TranslateJoinAccept, TranslateAnswer, TranslateByAddress,
              Translate, Take, Synced, StartSend
<1>4. ASSUME NEW e \in Downlink, ReceiveResult(e) \/ SendTxAck(e)
      PROVE  report[d] # "none" \/ stage[d] # "none"
  BY <1>4 DEF ReceiveResult, SendTxAck, TypeOK
<1> QED BY <1>1, <1>2, <1>3, <1>4 DEF Next

\* What the ack of d finds under its key: the ids of a downlink with that key.
LEMMA FoundNames ==
    ASSUME TypeOK, NamesReal, NEW d \in Downlink,
           Lookup(extras, CorrId(d), None) # None
    PROVE  LET x == Lookup(extras, CorrId(d), None)
           IN  x \in Downlink /\ stage[x] # "none" /\ CorrId(x) = CorrId(d)
<1>1. IsCache(extras, Corr \cup Downlink, Downlink)
  BY DEF TypeOK
<1>2. PICK i \in DOMAIN extras : /\ extras[i].key = CorrId(d)
                                 /\ Lookup(extras, CorrId(d), None) = extras[i].value
                                 /\ extras[i].value \in Downlink
  BY <1>1, LookupType
<1> QED BY <1>2 DEF NamesReal

\* The correlation id after a step.
NextId(x) == IF order'[x].kind = "classA" THEN order'[x].payload ELSE x

LEMMA NamesStep ==
    ASSUME IInv, [Next]_vars
    PROVE  NamesReal'
<1> USE DEF IInv
<1>1. IsCache(extras, Corr \cup Downlink, Downlink)
  BY DEF TypeOK
<1>2. \A i \in DOMAIN extras : extras[i].value \in Downlink
  BY <1>1, EntryType
<1>3. \A d \in Downlink : names[d] \in Downlink \cup {None}
  BY DEF TypeOK
<1>4. \A d \in Downlink : stage[d] # "none" => stage'[d] # "none" /\ NextId(d) = CorrId(d)
  BY Arrived DEF CorrId, NextId
<1>5. ASSUME NEW i \in DOMAIN extras'
      PROVE  stage'[extras'[i].value] # "none" /\ NextId(extras'[i].value) = extras'[i].key
  <2>1. CASE extras' = extras
    BY <1>2, <1>4, <2>1 DEF NamesReal
  <2>2. ASSUME NEW d \in Downlink, extras' = Stored(extras, CorrId(d), d, now, AckTtl),
               stage'[d] # "none", NextId(d) = CorrId(d)
        PROVE  stage'[extras'[i].value] # "none" /\ NextId(extras'[i].value) = extras'[i].key
    <3>1. CorrId(d) \in Corr \cup Downlink /\ now \in Int /\ AckTtl \in Int
      BY CorrIdType, DownlinkAssumption DEF TypeOK
    <3>2. \/ extras'[i].key = CorrId(d) /\ extras'[i].value = d
          \/ \E j \in DOMAIN extras : extras'[i] = extras[j]
      BY <1>1, <2>2, <3>1, StoredEntries
    <3>3. CASE \E j \in DOMAIN extras : extras'[i] = extras[j]
      BY <1>2, <1>4, <3>3 DEF NamesReal
    <3> QED BY <2>2, <3>2, <3>3
  <2>3. ASSUME NEW d \in Downlink, extras' = Popped(extras, CorrId(d))
        PROVE  stage'[extras'[i].value] # "none" /\ NextId(extras'[i].value) = extras'[i].key
    <3>1. \E j \in DOMAIN extras : extras'[i] = extras[j]
      BY <1>1, <2>3, PoppedEntries
    <3> QED BY <1>2, <1>4, <3>1 DEF NamesReal
  <2> QED BY <2>1, <2>2, <2>3, ExtrasFacts DEF CorrId, NextId
<1>6. ASSUME NEW d \in Downlink, report'[d] # "none"
      PROVE  stage'[d] # "none"
  BY <1>4, <1>6, ReportFacts DEF NamesReal
<1>7. ASSUME NEW d \in Downlink, names[d] # None
      PROVE  stage'[d] # "none" /\ stage'[names[d]] # "none" /\ NextId(names[d]) = NextId(d)
  BY <1>3, <1>4, <1>7 DEF NamesReal
<1>8. ASSUME NEW d \in Downlink, names'[d] # None
      PROVE  stage'[d] # "none" /\ stage'[names'[d]] # "none" /\ NextId(names'[d]) = NextId(d)
  <2>1. CASE names'[d] = names[d]
    BY <1>7, <1>8, <2>1
  <2>2. CASE names'[d] # names[d]
    <3>1. names'[d] = Lookup(extras, CorrId(d), None) /\ report[d] = "queued"
      BY <2>2, ExtrasFacts
    <3>2. names'[d] \in Downlink /\ stage[names'[d]] # "none" /\ CorrId(names'[d]) = CorrId(d)
      BY <1>8, <3>1, FoundNames
    <3>3. stage[d] # "none"
      BY <3>1 DEF NamesReal
    <3> QED BY <1>4, <3>2, <3>3
  <2> QED BY <2>1, <2>2
<1> QED BY <1>5, <1>6, <1>8 DEF NamesReal, CorrId, NextId

\* A key leaves the ids' cache because an ack for it took it, or expired first.
LEMMA LostKey ==
    ASSUME IInv, [Next]_vars, NEW k \in Keys(extras) \ Keys(extras')
    PROVE  \/ now > extras[Position(extras, k)].until
           \/ \E d \in Downlink :
                 /\ CorrId(d) = k /\ stage[d] # "none"
                 /\ report'[d] = "done" /\ names'[d] = Lookup(extras, k, None)
<1> USE DEF IInv
<1>1. IsCache(extras, Corr \cup Downlink, Downlink)
  BY DEF TypeOK
<1>2. PICK i \in DOMAIN extras : extras[i].key = k
  BY DEF Keys
<1>3. Position(extras, k) = i
  BY <1>1, <1>2 DEF Position, IsCache
<1>4. extras[i].until \in Int /\ now \in Int
  BY <1>1, EntryType DEF TypeOK
<1>5. \A x \in DOMAIN extras' : extras'[x].key # k
  BY DEF Keys
<1>6. ASSUME NEW d \in Downlink, extras' = Stored(extras, CorrId(d), d, now, AckTtl)
      PROVE  now > extras[i].until
  <2>1. CorrId(d) \in Corr \cup Downlink /\ AckTtl \in Int
    BY CorrIdType, DownlinkAssumption
  <2>2. /\ \E x \in DOMAIN extras' : extras'[x].key = CorrId(d)
        /\ extras[i].key # CorrId(d) /\ now <= extras[i].until =>
              \E x \in DOMAIN extras' : extras'[x] = extras[i]
    BY <1>1, <1>4, <1>6, <2>1, StoredEntries
  <2> QED BY <1>2, <1>4, <1>5, <2>2
<1>7. ASSUME NEW d \in Downlink, extras' = Popped(extras, CorrId(d)), report[d] = "queued"
      PROVE  CorrId(d) = k /\ stage[d] # "none"
  <2>1. extras[i].key # CorrId(d) => \E x \in DOMAIN extras' : extras'[x] = extras[i]
    BY <1>1, <1>7, PoppedEntries
  <2> QED BY <1>2, <1>5, <1>7, <2>1 DEF NamesReal
<1> QED BY <1>3, <1>6, <1>7, ExtrasFacts

LEMMA Invariance == Spec => []IInv
<1>1. Init => IInv
  BY InitInv
<1>2. IInv /\ [Next]_vars => IInv'
  BY TypeStep, ClockAheadStep, ScheduledStep, InboxArrivedStep, OrdersRealStep,
     TranslatedStep, TrackedStep, ShadowedStep, DeviceStep, NamesStep DEF IInv
<1> QED BY <1>1, <1>2, PTL DEF Spec

\* The caches, the queue and the clock are always well formed.
THEOREM TypeCorrect == Spec => []TypeOK
<1>1. IInv => TypeOK
  BY DEF IInv
<1> QED BY <1>1, Invariance, PTL

\* What goes to the RAN for an answer is the delay the server meant.
THEOREM DelaysRight == Spec => []DelayAsMeant
<1>1. IInv => DelayAsMeant
  BY DEF IInv, DelayKept, Translated, DelayAsMeant, Requested
<1> QED BY <1>1, Invariance, PTL

\* One forwarding of an uplink leads to at most one request.
THEOREM RequestsOnce == Spec => []OneRequestPerUplink
<1>1. IInv => OneRequestPerUplink
  BY DEF IInv, TakenOnce, Translated, OneRequestPerUplink, Requested
<1> QED BY <1>1, Invariance, PTL

\* At most one result of a downlink is passed on to be acknowledged.
THEOREM AcksOnce == Spec => []OneAckPerDownlink
<1>1. IInv => OneAckPerDownlink
  BY DEF IInv, TrackedUnanswered, OneAckPerDownlink
<1> QED BY <1>1, Invariance, PTL
\* What is known of an uplink's timestamp is known of its device: no answer finds
\* the one and not the other, whatever expires and whatever is forwarded twice.
THEOREM DevicesOutlive == Spec => []DeviceOutlivesTimestamp
<1>1. IInv => DeviceOutlivesTimestamp
  BY DEF IInv, Shadowed, DeviceOutlivesTimestamp, Keys
<1> QED BY <1>1, Invariance, PTL

\* An answer goes to the device whose uplink it answers.
THEOREM DevicesRight == Spec => []DeviceAsMeant
<1>1. IInv => DeviceAsMeant
  BY DEF IInv, DeviceKept, Translated, DeviceAsMeant, Requested
<1> QED BY <1>1, Invariance, PTL
\* The ack of a downlink alone with its key names that downlink or, after 60 s, none.
THEOREM AcksNameTheirDownlink == Spec => AckNamesItsDownlink
<1> DEFINE Fine(d) ==
      AloneWithItsId(d) =>
         /\ names'[d] \in {d, None}
         /\ CorrId(d) \in Keys(extras) \ Keys(extras') =>
               \/ report'[d] = "done" /\ names'[d] = d
               \/ now > extras[Position(extras, CorrId(d))].until
<1>1. ASSUME IInv, [Next]_vars, NEW d \in Downlink
      PROVE  Fine(d)
  <2> SUFFICES ASSUME AloneWithItsId(d)
               PROVE  /\ names'[d] \in {d, None}
                      /\ CorrId(d) \in Keys(extras) \ Keys(extras') =>
                            \/ report'[d] = "done" /\ names'[d] = d
                            \/ now > extras[Position(extras, CorrId(d))].until
    OBVIOUS
  <2>1. TypeOK /\ NamesReal
    BY <1>1 DEF IInv
  <2>2. \A e \in Downlink : stage[e] # "none" /\ CorrId(e) = CorrId(d) => e = d
    BY DEF AloneWithItsId
  <2>3. Lookup(extras, CorrId(d), None) \in {d, None}
    BY <2>1, <2>2, FoundNames
  <2>4. names[d] \in {d, None}
    BY <2>1, <2>2 DEF NamesReal, TypeOK
  <2>5. names'[d] \in {d, None}
    BY <1>1, <2>1, <2>3, <2>4, ExtrasFacts
  <2>6. ASSUME CorrId(d) \in Keys(extras) \ Keys(extras'),
               ~(now > extras[Position(extras, CorrId(d))].until)
        PROVE  report'[d] = "done" /\ names'[d] = d
    <3>1. PICK e \in Downlink :
             /\ CorrId(e) = CorrId(d) /\ stage[e] # "none"
             /\ report'[e] = "done" /\ names'[e] = Lookup(extras, CorrId(d), None)
      BY <1>1, <2>6, LostKey
    <3>2. e = d
      BY <2>2, <3>1
    <3>3. Lookup(extras, CorrId(d), None) # None
      <4>1. IsCache(extras, Corr \cup Downlink, Downlink)
        BY <2>1 DEF TypeOK
      <4>2. PICK i \in DOMAIN extras : extras[i].key = CorrId(d)
        BY <2>6 DEF Keys
      <4>3. Lookup(extras, CorrId(d), None) \in Downlink
        BY <4>1, <4>2, LookupFinds, EntryType
      <4> QED BY <4>3, DownlinkAssumption
    <3> QED BY <2>3, <3>1, <3>2, <3>3
  <2> QED BY <2>5, <2>6
<1>2. IInv /\ [Next]_vars => [\A d \in Downlink : Fine(d)]_vars
  BY <1>1
<1>3. Spec => [][\A d \in Downlink : Fine(d)]_vars
  <2> HIDE DEF Fine
  <2> QED BY <1>2, Invariance, PTL DEF Spec
<1> QED BY <1>3 DEF AckNamesItsDownlink

-----------------------------------------------------------------------------
(* Downlink implements DownlinkContract                                     *)

UnderWay(d) == stage[d] \in {"syncing", "queued", "sent"}

\* What is under way to the RAN has a device and was translated.
Ready ==
    \A d \in Downlink : UnderWay(d) =>
        /\ request[d].device \in Device
        /\ order[d].kind \in {"classA", "classBC"}
        /\ order[d].kind = "classBC" => request[d].delay = None

\* A branch of _fetch_downlink_device_context that finds no device drops d.
LEMMA TakenReady ==
    ASSUME TypeOK, NEW d \in Downlink, Taken(d)
    PROVE  /\ stage'[d] \in {"refused", "dropped", "syncing", "queued"}
           /\ UnderWay(d)' =>
                 /\ request'[d].device \in Device
                 /\ order[d].kind \in {"classA", "classBC"}
                 /\ order[d].kind = "classBC" => request'[d].delay = None
<1>1. CASE Refuse(d)
  <2>1. stage'[d] = "refused"
    BY <1>1 DEF Refuse, TypeOK
  <2> QED BY <2>1 DEF UnderWay
<1>2. ASSUME NEW device \in Device \cup {None}, NEW next \in {"dropped", "syncing", "queued"},
             device = None => next = "dropped", Translate(d, device, next)
      PROVE  /\ stage'[d] \in {"refused", "dropped", "syncing", "queued"}
             /\ UnderWay(d)' =>
                   /\ request'[d].device \in Device
                   /\ order[d].kind \in {"classA", "classBC"}
                   /\ order[d].kind = "classBC" => request'[d].delay = None
  <2>1. stage'[d] = next
    BY <1>2 DEF Translate, TypeOK
  <2> DEFINE x == IF order[d].kind = "classA" THEN Delay(d) ELSE None
  <2>2. request' = [request EXCEPT ![d] = [device |-> device, delay |-> x]]
    BY <1>2 DEF Translate
  <2>3. order[d].kind = "classBC" => x = None
    OBVIOUS
  <2> HIDE DEF x
  <2>4. request'[d].device = device /\ request'[d].delay = x
    BY <2>2 DEF TypeOK
  <2>5. order[d].kind \in {"classA", "classBC"}
    BY <1>2 DEF Translate, Accepted
  <2> QED BY <1>2, <2>1, <2>3, <2>4, <2>5 DEF UnderWay
<1>3. Cached(d) \in Device \cup {None}
  BY LookupType DEF Cached, TypeOK
<1>4. CASE TranslateJoinAccept(d) \/ TranslateAnswer(d)
  BY <1>2, <1>3, <1>4 DEF TranslateJoinAccept, TranslateAnswer
<1>5. CASE TranslateByAddress(d)
  BY <1>2, <1>5 DEF TranslateByAddress
<1> QED BY <1>1, <1>4, <1>5 DEF Taken

LEMMA ReadyStep == ASSUME TypeOK, Ready, [Next]_vars PROVE Ready'
<1>1. CASE UNCHANGED vars \/ Tick \/ \E u \in Uplink, c \in Corr : Publish(u, c)
  BY <1>1 DEF vars, Tick, Publish, Ready, UnderWay
<1>2. ASSUME NEW d \in Downlink, AnswerUplink(d) \/ SendUnasked(d)
      PROVE  Ready'
  <2>1. /\ request' = request /\ stage'[d] = "arrived"
        /\ \A e \in Downlink : e # d => stage'[e] = stage[e] /\ order'[e] = order[e]
    BY <1>2, ArriveFacts
  <2> QED BY <2>1 DEF Ready, UnderWay
<1>3. ASSUME NEW d \in Downlink, Taken(d)
      PROVE  Ready'
  <2>1. /\ order' = order
        /\ \A e \in Downlink : e # d => stage'[e] = stage[e] /\ request'[e] = request[e]
    BY <1>3, TakenFacts DEF Take
  <2> QED BY <1>3, <2>1, TakenReady DEF Ready, UnderWay
<1>4. ASSUME NEW d \in Downlink, Synced(d) \/ StartSend(d)
      PROVE  Ready'
  <2>1. /\ UNCHANGED <<order, request>> /\ UnderWay(d)
        /\ \A e \in Downlink : e # d => stage'[e] = stage[e]
    BY <1>4 DEF Synced, StartSend, UnderWay, TypeOK
  <2> QED BY <2>1 DEF Ready, UnderWay
<1>5. ASSUME NEW d \in Downlink, ReceiveResult(d) \/ SendTxAck(d)
      PROVE  Ready'
  BY <1>5 DEF ReceiveResult, SendTxAck, Ready, UnderWay
<1> QED BY <1>1, <1>2, <1>3, <1>4, <1>5 DEF Next, Process, Taken

\* Steps that neither receive a downlink nor send one leave what the server and
\* the RAN see.
LEMMA ViewsKept ==
    ASSUME order' = order,
           \A d \in Downlink : (stage'[d] = "none") <=> (stage[d] = "none"),
           \A d \in Downlink : (stage'[d] = "sent") <=> (stage[d] = "sent"),
           \A d \in Downlink : stage[d] = "sent" => request'[d] = request[d]
    PROVE  UNCHANGED <<AskedView, SentView>>
<1>1. AskedView' = AskedView
  <2>1. \A d \in Downlink : Asked(d)' = Asked(d)
    BY DEF Asked
  <2>2. \A d \in Downlink : (IF stage[d] = "none" THEN None ELSE Asked(d))'
                            = (IF stage[d] = "none" THEN None ELSE Asked(d))
    BY <2>1
  <2> QED BY <2>2 DEF AskedView
<1>2. SentView' = SentView
  <2>1. \A d \in Downlink : (IF stage[d] = "sent" THEN request[d] ELSE None)'
                            = (IF stage[d] = "sent" THEN request[d] ELSE None)
    OBVIOUS
  <2> QED BY <2>1 DEF SentView
<1> QED BY <1>1, <1>2

LEMMA ViewTypes ==
    ASSUME TypeOK, NEW d \in Downlink, stage[d] # "none"
    PROVE  /\ AskedView[d] # None /\ AskedView[d].kind = order[d].kind
           /\ order[d].kind = "classA" =>
                 /\ AskedView[d].payload = order[d].payload /\ AskedView[d].tmst = order[d].tmst
                 /\ AskedView[d].delay = Seconds(order[d].delay)
           /\ request[d] # None
<1>1. request[d] # None /\ order[d] # None
  BY NoneAssumption DEF TypeOK
<1>2. CASE order[d].kind = "classA"
  <2>1. Asked(d) \in Order
    <3>1. order[d].payload \in Corr /\ order[d].tmst \in Tmst /\ order[d].delay \in Nat
      BY <1>2, CorrIdType
    <3>2. Seconds(order[d].delay) \in Nat
      BY <3>1, ClockAssumption DEF Seconds
    <3> QED BY <1>2, <3>1, <3>2 DEF Asked, Order
  <2> QED BY <1>1, <1>2, <2>1, NoneAssumption DEF AskedView, Asked
<1>3. CASE order[d].kind # "classA"
  BY <1>1, <1>3 DEF AskedView, Asked
<1> QED BY <1>2, <1>3

\* An uplink's timestamp is a new one.
LEMMA PublishRefines ==
    ASSUME IInv, NEW u \in Uplink, NEW c \in Corr, Publish(u, c)
    PROVE  Contract!Publish(u)
<1>1. /\ uplink[u] = None /\ uplink'[u] # None /\ uplink'[u].tmst = clock
      /\ \A w \in Uplink : w # u => uplink'[w] = uplink[w]
  BY PublishFacts DEF IInv
<1>2. \A v \in Uplink : uplink[v] # None => uplink[v].tmst # clock
  BY ClockNotHeard DEF IInv, Heard
<1>3. uplink' = [uplink EXCEPT ![u] = uplink'[u]]
  <2>1. uplink \in [Uplink -> [payload : Corr, tmst : Tmst] \cup {None}]
    BY DEF IInv, TypeOK
  <2>2. uplink' = [uplink EXCEPT ![u] = [payload |-> c, tmst |-> clock]]
    BY DEF Publish
  <2> QED BY <2>1, <2>2
<1>4. UNCHANGED <<AskedView, SentView, results>>
  <2>1. UNCHANGED <<order, stage, request, results>>
    BY DEF Publish
  <2> QED BY <2>1, ViewsKept
<1> QED BY <1>1, <1>2, <1>3, <1>4 DEF Contract!Publish

LEMMA ArriveRefines ==
    ASSUME TypeOK, TypeOK', NEW d \in Downlink, AnswerUplink(d) \/ SendUnasked(d)
    PROVE  Contract!Ask(d)
<1>1. /\ UNCHANGED <<request, uplink, results>> /\ stage[d] = "none" /\ stage'[d] = "arrived"
      /\ \A e \in Downlink : e # d => stage'[e] = stage[e] /\ order'[e] = order[e]
  BY ArriveFacts DEF AnswerUplink, SendUnasked, Arrive
<1>2. AskedView[d] = None
  BY <1>1 DEF AskedView
<1>3. AskedView'[d] # None
  <2>1. order'[d] # None
    BY NoneAssumption DEF TypeOK
  <2>2. CASE order'[d].kind = "classA"
    <3>1. Asked(d)' \in Order
      <4>1. order'[d] \in ClassA
        BY <2>2, OrderOfClassA DEF TypeOK
      <4>2. order'[d].payload \in Corr /\ order'[d].tmst \in Tmst /\ order'[d].delay \in Nat
        BY <4>1 DEF ClassA
      <4>3. Seconds(order'[d].delay) \in Nat
        BY <4>2, ClockAssumption DEF Seconds
      <4> QED BY <2>2, <4>2, <4>3 DEF Asked, Order
    <3> QED BY <1>1, <3>1, NoneAssumption DEF AskedView
  <2>3. CASE order'[d].kind # "classA"
    BY <1>1, <2>1, <2>3 DEF AskedView, Asked
  <2> QED BY <2>2, <2>3
<1>4. \A e \in Downlink : e # d => AskedView'[e] = AskedView[e]
  BY <1>1 DEF AskedView, Asked
<1>5. AskedView' = [AskedView EXCEPT ![d] = AskedView'[d]]
  BY <1>4 DEF AskedView
<1>6. SentView' = SentView
  BY <1>1 DEF SentView
<1> QED BY <1>1, <1>2, <1>3, <1>5, <1>6 DEF Contract!Ask

\* What is handed to the connection is as the server meant it.
LEMMA SendRefines ==
    ASSUME IInv, Ready, NEW d \in Downlink, StartSend(d), stage'[d] = "sent"
    PROVE  Contract!SendAnswer(d) \/ \E device \in Device : Contract!SendUnasked(d, device)
<1>1. TypeOK /\ DelayKept /\ DeviceKept /\ TakenOnce
  BY DEF IInv
<1>2. /\ stage[d] = "queued" /\ UNCHANGED <<uplink, order, request, results>>
      /\ \A e \in Downlink : e # d => stage'[e] = stage[e]
  BY <1>1 DEF StartSend, TypeOK
<1>3. /\ request[d].device \in Device /\ order[d].kind \in {"classA", "classBC"}
      /\ order[d].kind = "classBC" => request[d].delay = None
  BY <1>2 DEF Ready, UnderWay
<1>4. AskedView' = AskedView
  BY <1>2 DEF AskedView, Asked
<1>5. SentView[d] = None /\ SentView' = [SentView EXCEPT ![d] = request[d]]
  BY <1>2 DEF SentView
<1>6. request[d] = [device |-> request[d].device, delay |-> request[d].delay]
  BY <1>1 DEF TypeOK, Request
<1>7. /\ AskedView[d] # None /\ AskedView[d].kind = order[d].kind
      /\ order[d].kind = "classA" =>
            /\ AskedView[d].payload = order[d].payload /\ AskedView[d].tmst = order[d].tmst
            /\ AskedView[d].delay = Seconds(order[d].delay)
  BY <1>1, <1>2, ViewTypes
<1>8. CASE order[d].kind = "classA"
  <2>1. Translated(d)
    BY <1>2, <1>8 DEF Translated
  <2>2. /\ request[d].delay = AskedView[d].delay
        /\ request[d].device = Sender[AskedView[d].payload]
    BY <1>1, <1>7, <1>8, <2>1 DEF DelayKept, DeviceKept
  <2>3. ASSUME NEW e \in Downlink, SentView[e] # None, AskedView[e].kind = "classA"
        PROVE  AskedView[e].tmst # AskedView[d].tmst
    <3>1. stage[e] = "sent" /\ e # d
      BY <1>2, <2>3 DEF SentView
    <3>2. order[e].kind = "classA" /\ AskedView[e].tmst = order[e].tmst
      BY <1>1, <2>3, <3>1, ViewTypes
    <3>3. Translated(e)
      BY <3>1, <3>2 DEF Translated
    <3> QED BY <1>1, <1>7, <1>8, <2>1, <3>1, <3>2, <3>3 DEF TakenOnce
  <2>4. Contract!FirstAnswer(d)
    BY <2>3 DEF Contract!FirstAnswer
  <2>5. SentView' = [SentView EXCEPT ![d] = [device |-> Sender[AskedView[d].payload],
                                            delay |-> AskedView[d].delay]]
    BY <1>5, <1>6, <2>2
  <2> QED BY <1>2, <1>4, <1>5, <1>7, <1>8, <2>4, <2>5 DEF Contract!SendAnswer
<1>9. CASE order[d].kind = "classBC"
  <2>1. SentView' = [SentView EXCEPT ![d] = [device |-> request[d].device, delay |-> None]]
    BY <1>3, <1>5, <1>6, <1>9
  <2>2. Contract!SendUnasked(d, request[d].device)
    BY <1>2, <1>4, <1>5, <1>7, <1>9, <2>1 DEF Contract!SendUnasked
  <2> QED BY <1>3, <2>2
<1> QED BY <1>3, <1>8, <1>9

LEMMA ResultRefines ==
    ASSUME IInv, NEW d \in Downlink, ReceiveResult(d)
    PROVE  Contract!Acknowledge(d)
<1>1. /\ stage[d] = "sent" /\ d \in Keys(track) /\ UNCHANGED <<stage, order, request, uplink>>
      /\ results' = [results EXCEPT ![d] = @ + 1]
  BY DEF ReceiveResult
<1>2. results[d] = 0
  BY <1>1 DEF IInv, TrackedUnanswered
<1>3. results' = [results EXCEPT ![d] = 1]
  <2>1. results[d] + 1 = 1
    BY <1>2
  <2>2. results' = [results EXCEPT ![d] = results[d] + 1]
    BY <1>1
  <2> QED BY <2>1, <2>2
<1>4. SentView[d] # None
  BY <1>1, ViewTypes DEF SentView, IInv
<1>5. UNCHANGED <<AskedView, SentView>>
  BY <1>1, ViewsKept
<1> QED BY <1>1, <1>2, <1>3, <1>4, <1>5 DEF Contract!Acknowledge

LEMMA StepRefines == ASSUME IInv, Ready, [Next]_vars PROVE [Contract!Next]_(Contract!vars)
<1>0. TypeOK /\ InboxArrived /\ TypeOK'
  BY TypeStep DEF IInv
<1>1. CASE UNCHANGED vars \/ Tick
  <2>1. UNCHANGED <<order, stage, request, uplink, results>>
    BY <1>1 DEF vars, Tick
  <2>2. UNCHANGED <<AskedView, SentView>>
    BY <2>1, ViewsKept
  <2> QED BY <2>1, <2>2 DEF Contract!vars
<1>2. ASSUME NEW u \in Uplink, NEW c \in Corr, Publish(u, c)
      PROVE  Contract!Next
  BY <1>2, PublishRefines DEF Contract!Next
<1>3. ASSUME NEW d \in Downlink, AnswerUplink(d) \/ SendUnasked(d)
      PROVE  Contract!Next
  BY <1>0, <1>3, ArriveRefines DEF Contract!Next
<1>4. ASSUME NEW d \in Downlink, Taken(d)
      PROVE  UNCHANGED Contract!vars
  <2>1. /\ Take(d)
        /\ \A e \in Downlink : e # d => stage'[e] = stage[e] /\ request'[e] = request[e]
    BY <1>0, <1>4, TakenFacts
  <2>2. UNCHANGED <<uplink, order, results>> /\ d = inbox[1] /\ 1 \in DOMAIN inbox
    BY <1>0, <2>1, TakeFacts
  <2>3. stage[d] = "arrived"
    BY <1>0, <2>2 DEF InboxArrived
  <2>4. stage'[d] \notin {"none", "sent"}
    BY <1>0, <1>4, TakenReady
  <2>5. \A e \in Downlink : /\ (stage'[e] = "none") <=> (stage[e] = "none")
                            /\ (stage'[e] = "sent") <=> (stage[e] = "sent")
                            /\ stage[e] = "sent" => request'[e] = request[e]
    BY <2>1, <2>3, <2>4
  <2>6. UNCHANGED <<AskedView, SentView>>
    BY <2>2, <2>5, ViewsKept
  <2> QED BY <2>2, <2>6 DEF Contract!vars
<1>5. ASSUME NEW d \in Downlink, Synced(d) \/ StartSend(d), stage'[d] # "sent"
      PROVE  UNCHANGED Contract!vars
  <2>1. /\ UNCHANGED <<order, request, uplink, results>> /\ stage[d] \in {"syncing", "queued"}
        /\ stage'[d] \in {"queued", "dropped"}
        /\ \A e \in Downlink : e # d => stage'[e] = stage[e]
    BY <1>0, <1>5 DEF Synced, StartSend, TypeOK
  <2>2. UNCHANGED <<AskedView, SentView>>
    BY <2>1, ViewsKept
  <2> QED BY <2>1, <2>2 DEF Contract!vars
<1>6. ASSUME NEW d \in Downlink, Synced(d) \/ StartSend(d), stage'[d] = "sent"
      PROVE  Contract!Next
  <2>1. StartSend(d)
    BY <1>0, <1>6 DEF Synced, TypeOK
  <2> QED BY <1>6, <2>1, SendRefines DEF Contract!Next
<1>7. ASSUME NEW d \in Downlink, ReceiveResult(d)
      PROVE  Contract!Next
  BY <1>7, ResultRefines DEF Contract!Next
<1>8. ASSUME NEW d \in Downlink, SendTxAck(d)
      PROVE  UNCHANGED Contract!vars
  <2>1. UNCHANGED <<order, stage, request, uplink, results>>
    BY <1>8 DEF SendTxAck
  <2>2. UNCHANGED <<AskedView, SentView>>
    BY <2>1, ViewsKept
  <2> QED BY <2>1, <2>2 DEF Contract!vars
<1> QED BY <1>1, <1>2, <1>3, <1>4, <1>5, <1>6, <1>7, <1>8 DEF Next, Process, Taken

\* The downlink half keeps its promise to the network server and to the RAN: every
\* step is one of the contract or changes nothing they see.
THEOREM DownlinkImplementsContract == Spec => ImplementsContract
<1>1. Init => Contract!Init
  <2> SUFFICES ASSUME Init PROVE Contract!Init
    OBVIOUS
  <2>1. /\ uplink = [u \in Uplink |-> None] /\ stage = [d \in Downlink |-> "none"]
        /\ results = [d \in Downlink |-> 0]
    BY DEF Init
  <2>2. AskedView = [d \in Downlink |-> None] /\ SentView = [d \in Downlink |-> None]
    BY <2>1 DEF AskedView, SentView
  <2> QED BY <2>1, <2>2 DEF Contract!Init
<1>2. Init => Ready
  BY DEF Init, Ready, UnderWay
<1>3. IInv /\ Ready /\ [Next]_vars => Ready'
  BY ReadyStep DEF IInv
<1>4. IInv /\ Ready /\ [Next]_vars => [Contract!Next]_(Contract!vars)
  BY StepRefines
<1> QED BY <1>1, <1>2, <1>3, <1>4, Invariance, PTL DEF Spec, ImplementsContract, Contract!Spec
=============================================================================
