--------------------------- MODULE Bridge_proofs ---------------------------
(* Theorems about Bridge: first what each part keeps to itself, then what   *)
(* holds of their composition, for every number of messages and tasks.      *)
EXTENDS Bridge, FiniteSetTheorems, TLAPS

-----------------------------------------------------------------------------
(* The MQTT client.                                                         *)

MqttAction == Connect \/ MqttFails \/ DisconnectFails \/ MqttStep \/ MqttCancelled

\* What the flags and the state of run say about the links there were.
MqttInv ==
    /\ connected => link # "never"
    /\ failed => exception
    /\ mqtt = "listening" => link # "never"
    /\ mqtt \in {"connecting", "sleeping"} => link # "first"

\* The client starts well.
LEMMA MqttStartsTyped == MqttInit => MqttTypeOK /\ MqttInv
BY Zenon DEF MqttInit, MqttTypeOK, MqttInv

\* Every action of the client keeps its types.
LEMMA MqttKeepsTypes ==
    ASSUME MqttTypeOK, MqttAction
    PROVE  MqttTypeOK'
<1> USE DEF MqttTypeOK
<1>1. CASE Connect
  BY <1>1, Zenon DEF Connect
<1>2. CASE MqttFails
  BY <1>2, Zenon DEF MqttFails, LinkDown, AfterError
<1>3. CASE DisconnectFails
  BY <1>3, Zenon DEF DisconnectFails
<1>4. CASE Retry
  BY <1>4, Zenon DEF Retry
<1>5. CASE CloserWakes
  BY <1>5, Zenon DEF CloserWakes
<1>6. CASE Disconnect
  BY <1>6, Zenon DEF Disconnect, LinkDown, AfterError
<1>7. CASE MqttEnds
  BY <1>7, Zenon DEF MqttEnds
<1>8. CASE MqttCancelled
  BY <1>8, Zenon DEF MqttCancelled
<1> QED
  BY <1>1, <1>2, <1>3, <1>4, <1>5, <1>6, <1>7, <1>8 DEF MqttAction, MqttStep

\* And what its flags say about the links.
LEMMA MqttKeepsInv ==
    ASSUME MqttTypeOK, MqttInv, MqttAction
    PROVE  MqttInv'
<1> USE DEF MqttTypeOK, MqttInv
<1>1. CASE Connect
  BY <1>1, Zenon DEF Connect
<1>2. CASE MqttFails
  BY <1>2, Zenon DEF MqttFails, LinkDown, AfterError
<1>3. CASE DisconnectFails
  BY <1>3, Zenon DEF DisconnectFails
<1>4. CASE Retry
  BY <1>4, Zenon DEF Retry
<1>5. CASE CloserWakes
  BY <1>5, Zenon DEF CloserWakes
<1>6. CASE Disconnect
  BY <1>6, Zenon DEF Disconnect, LinkDown, AfterError
<1>7. CASE MqttEnds
  BY <1>7, Zenon DEF MqttEnds
<1>8. CASE MqttCancelled
  BY <1>8, Zenon DEF MqttCancelled
<1> QED
  BY <1>1, <1>2, <1>3, <1>4, <1>5, <1>6, <1>7, <1>8 DEF MqttAction, MqttStep
-----------------------------------------------------------------------------
(* The RAN client.                                                          *)

RanAction == RanLoopEnds \/ RanLoopClosed \/ RanRaises \/ RanStep \/ RanCancelled

\* Every action of the RAN client keeps its types.
LEMMA RanKeepsTypes ==
    ASSUME RanTypeOK, RanAction
    PROVE  RanTypeOK'
BY DEF RanTypeOK, RanAction, RanLoopEnds, RanLoopClosed, RanRaises, RanStep, RanReaped,
       RanRetry, RanCloserWakes, RanEnds, RanCancelled

-----------------------------------------------------------------------------
(* The pipeline.                                                            *)

\* The semaphore of a pool counts its handlers, and a node that ended by itself has
\* none.
PoolInv ==
    \A n \in Nodes :
        /\ free[n] + Cardinality(Busy(n)) = PoolLimit
        /\ node[n] = "ended" => Busy(n) = {}

\* A pool holds finitely many handlers.
LEMMA BusyFinite ==
    \A n \in Nodes : IsFiniteSet(Busy(n)) /\ Cardinality(Busy(n)) \in Nat
BY PipelineAssumption, FS_Subset, FS_CardinalityType DEF Busy

\* The pools start empty.
LEMMA PipeStartsTyped == PipeInit => PipeTypeOK /\ PoolInv
<1> SUFFICES ASSUME PipeInit PROVE PipeTypeOK /\ PoolInv
  OBVIOUS
<1>1. PipeTypeOK
  BY PipelineAssumption DEF PipeInit, PipeTypeOK
<1>2. \A n \in Nodes : Busy(n) = {} /\ free[n] = PoolLimit
  BY DEF PipeInit, Busy, Running, Nodes
<1>3. PoolInv
  BY <1>2, FS_EmptySet, PipelineAssumption DEF PoolInv
<1> QED
  BY <1>1, <1>3

\* A new message is in no pool.
LEMMA PutKeeps ==
    ASSUME PipeTypeOK, PoolInv, NEW i \in Item, Put(i)
    PROVE  PipeTypeOK' /\ PoolInv'
<1>1. PipeTypeOK'
  BY DEF PipeTypeOK, Put, Move
<1>2. \A n \in Nodes : Busy(n)' = Busy(n)
  BY DEF Busy, Running, Nodes, PipeTypeOK, Put, Move
<1>3. PoolInv'
  BY <1>2 DEF PoolInv, Put
<1> QED
  BY <1>1, <1>3

\* A started handler takes its slot.
LEMMA StartKeeps ==
    ASSUME PipeTypeOK, PoolInv, NEW i \in Item, NEW n \in Nodes, StartHandler(n, i)
    PROVE  PipeTypeOK' /\ PoolInv'
<1>0. /\ UNCHANGED <<manager, node>> /\ item' = [item EXCEPT ![i] = Running[n]]
      /\ free' = [free EXCEPT ![n] = @ - 1] /\ free[n] > 0
      /\ node[n] = "looping" /\ item[i] = Queued[n]
  BY DEF StartHandler, Move
<1>1. PipeTypeOK'
  <2>1. (manager \in {"new", "running", "cancelled"})'
    BY <1>0, Zenon DEF PipeTypeOK
  <2>2. (node \in [Nodes -> {"new", "looping", "joining", "ended", "cancelled"}])'
    BY <1>0, Zenon DEF PipeTypeOK
  <2>3. (item \in [Item -> {"queued1", "running1", "queued2", "running2", "out"}])'
    BY <1>0 DEF PipeTypeOK, Running, Nodes
  <2>4. (free \in [Nodes -> 0 .. PoolLimit])'
    BY <1>0, PipelineAssumption DEF PipeTypeOK
  <2> QED
    BY <2>1, <2>2, <2>3, <2>4 DEF PipeTypeOK
<1>2. Busy(n)' = Busy(n) \cup {i} /\ i \notin Busy(n)
  BY <1>0 DEF Busy, Running, Queued, Nodes, PipeTypeOK
<1>3. \A m \in Nodes \ {n} : Busy(m)' = Busy(m)
  BY <1>0 DEF Busy, Running, Queued, Nodes, PipeTypeOK
<1>4. Cardinality(Busy(n)') = Cardinality(Busy(n)) + 1
  BY <1>2, BusyFinite, FS_AddElement
<1>5. ASSUME NEW m \in Nodes
      PROVE  /\ free'[m] + Cardinality(Busy(m)') = PoolLimit
             /\ node'[m] = "ended" => Busy(m)' = {}
  <2>1. CASE m = n
    BY <1>0, <1>4, <2>1, BusyFinite, PipelineAssumption DEF PoolInv, PipeTypeOK
  <2>2. CASE m # n
    BY <1>0, <1>3, <2>2 DEF PoolInv, PipeTypeOK
  <2> QED
    BY <2>1, <2>2
<1> QED
  BY <1>1, <1>5 DEF PoolInv

\* A handler that ends, or raises, gives its slot back.
LEMMA HandlerKeeps ==
    ASSUME PipeTypeOK, PoolInv, NEW i \in Item, NEW n \in Nodes, HandlerEnds(n, i)
    PROVE  PipeTypeOK' /\ PoolInv'
<1>0. /\ UNCHANGED <<manager, node>> /\ item[i] = Running[n]
      /\ free' = [free EXCEPT ![n] = @ + 1]
      /\ \/ item' = [item EXCEPT ![i] = "queued2"]
         \/ item' = [item EXCEPT ![i] = "out"]
  BY DEF HandlerEnds, Move, Release
<1>2. Busy(n)' = Busy(n) \ {i} /\ i \in Busy(n)
  BY <1>0 DEF Busy, Running, Nodes, PipeTypeOK
<1>3. \A m \in Nodes \ {n} : Busy(m)' = Busy(m)
  BY <1>0 DEF Busy, Running, Nodes, PipeTypeOK
<1>4. Cardinality(Busy(n)') = Cardinality(Busy(n)) - 1
  BY <1>2, BusyFinite, FS_RemoveElement
<1>5. IsFiniteSet(Busy(n)') /\ Cardinality(Busy(n)') \in Nat
  BY <1>2, BusyFinite, FS_RemoveElement, FS_CardinalityType
<1>6. free'[n] + Cardinality(Busy(n)') = PoolLimit /\ free'[n] \in 0 .. PoolLimit
  BY <1>0, <1>4, <1>5, BusyFinite, PipelineAssumption DEF PoolInv, PipeTypeOK
<1>1. PipeTypeOK'
  <2>1. (manager \in {"new", "running", "cancelled"})'
    BY <1>0, Zenon DEF PipeTypeOK
  <2>2. (node \in [Nodes -> {"new", "looping", "joining", "ended", "cancelled"}])'
    BY <1>0, Zenon DEF PipeTypeOK
  <2>3. (item \in [Item -> {"queued1", "running1", "queued2", "running2", "out"}])'
    BY <1>0 DEF PipeTypeOK
  <2>4. (free \in [Nodes -> 0 .. PoolLimit])'
    BY <1>0, <1>6, PipelineAssumption DEF PipeTypeOK
  <2> QED
    BY <2>1, <2>2, <2>3, <2>4 DEF PipeTypeOK
<1>7. ASSUME NEW m \in Nodes
      PROVE  /\ free'[m] + Cardinality(Busy(m)') = PoolLimit
             /\ node'[m] = "ended" => Busy(m)' = {}
  <2>1. CASE m = n
    BY <1>0, <1>2, <1>6, <2>1 DEF PoolInv
  <2>2. CASE m # n
    BY <1>0, <1>3, <2>2 DEF PoolInv, PipeTypeOK
  <2> QED
    BY <2>1, <2>2
<1> QED
  BY <1>1, <1>7 DEF PoolInv

\* A node ends by itself only with an empty pool.
LEMMA EndKeeps ==
    ASSUME PipeTypeOK, PoolInv, NEW n \in Nodes, LeaveLoop(n) \/ Joined(n)
    PROVE  PipeTypeOK' /\ PoolInv'
<1>1. PipeTypeOK'
  BY DEF PipeTypeOK, LeaveLoop, Joined, AfterLoop
<1>2. \A m \in Nodes : Busy(m)' = Busy(m)
  BY DEF Busy, LeaveLoop, Joined
<1>3. PoolInv'
  BY <1>2 DEF PoolInv, PipeTypeOK, LeaveLoop, Joined, AfterLoop
<1> QED
  BY <1>1, <1>3

\* Cancelling the manager releases the slots of the handlers it reaches.
LEMMA CancelKeeps ==
    ASSUME PipeTypeOK, PoolInv, ManagerCancelled
    PROVE  PipeTypeOK' /\ PoolInv'
<1> DEFINE Reached(n) == stop /\ node[n] # "ended"
           Passed(n) == IF Reached(n) /\ node[n] = "joining" THEN Busy(n) ELSE {}
<1>0. /\ manager' = "cancelled"
      /\ node' = [n \in Nodes |-> IF Reached(n) THEN "cancelled" ELSE node[n]]
      /\ item' = [i \in Item |-> IF \E n \in Nodes : i \in Passed(n) THEN "out" ELSE item[i]]
      /\ free' = [n \in Nodes |-> free[n] + Cardinality(Passed(n))]
  BY DEF ManagerCancelled
<1>1. \A n \in Nodes : Busy(n)' = Busy(n) \ Passed(n)
  BY <1>0 DEF Busy, Running, Nodes, PipeTypeOK
<1>2. ASSUME NEW n \in Nodes
      PROVE  /\ free'[n] + Cardinality(Busy(n)') = PoolLimit
             /\ free'[n] \in 0 .. PoolLimit
             /\ node'[n] = "ended" => Busy(n)' = {}
  <2>1. CASE Reached(n) /\ node[n] = "joining"
    <3>1. Busy(n)' = {} /\ Cardinality(Busy(n)') = 0
      BY <1>1, <2>1, FS_EmptySet
    <3>2. free'[n] = free[n] + Cardinality(Busy(n))
      BY <1>0, <2>1
    <3> QED
      BY <3>1, <3>2, BusyFinite, PipelineAssumption DEF PoolInv, PipeTypeOK
  <2>2. CASE ~(Reached(n) /\ node[n] = "joining")
    <3>1. Busy(n)' = Busy(n)
      BY <1>1, <2>2
    <3>2. free'[n] = free[n]
      BY <1>0, <2>2, FS_EmptySet DEF PipeTypeOK
    <3> QED
      BY <1>0, <3>1, <3>2 DEF PoolInv, PipeTypeOK
  <2> QED
    BY <2>1, <2>2
<1>3. PipeTypeOK'
  <2>1. (node \in [Nodes -> {"new", "looping", "joining", "ended", "cancelled"}])'
    BY <1>0 DEF PipeTypeOK
  <2>2. (item \in [Item -> {"queued1", "running1", "queued2", "running2", "out"}])'
    BY <1>0 DEF PipeTypeOK
  <2>3. (free \in [Nodes -> 0 .. PoolLimit])'
    BY <1>0, <1>2
  <2>4. (manager \in {"new", "running", "cancelled"})'
    BY <1>0
  <2> QED
    BY <2>1, <2>2, <2>3, <2>4 DEF PipeTypeOK
<1> QED
  BY <1>2, <1>3 DEF PoolInv

-----------------------------------------------------------------------------
(* The composition.  An action of one part leaves the others alone.         *)

\* Why main and the TTI router rely on a connection that was there.
MainInv ==
    /\ main = "checking" => exception \/ link # "never" \/ stop
    /\ tti = "listening" => link # "never"
    /\ StartsOnlyConnected
    /\ HearsDownlinks

IInv == TypeOK /\ MqttInv /\ PoolInv /\ MainInv

\* What leaves the client's variables alone leaves its invariants alone.
LEMMA MqttUntouched ==
    ASSUME MqttTypeOK, MqttInv, UNCHANGED mqttVars PROVE MqttTypeOK' /\ MqttInv'
BY Zenon DEF MqttTypeOK, MqttInv, mqttVars

\* The same for the RAN client.
LEMMA RanUntouched == ASSUME RanTypeOK, UNCHANGED ranVars PROVE RanTypeOK'
BY DEF RanTypeOK, ranVars

\* The same for the pipeline.
LEMMA PipeUntouched ==
    ASSUME PipeTypeOK, PoolInv, UNCHANGED pipeVars PROVE PipeTypeOK' /\ PoolInv'
<1>1. \A n \in Nodes : Busy(n)' = Busy(n)
  BY DEF Busy, pipeVars
<1> QED
  BY <1>1 DEF PipeTypeOK, PoolInv, pipeVars

\* The initial states satisfy the invariant.
LEMMA InitHolds == Init => IInv
<1> SUFFICES ASSUME Init PROVE IInv
  OBVIOUS
<1>1. MqttTypeOK /\ MqttInv /\ PipeTypeOK /\ PoolInv
  BY MqttStartsTyped, PipeStartsTyped DEF Init
<1>2. RanTypeOK
  BY DEF Init, RanInit, RanTypeOK
<1>3. MainTypeOK
  BY DEF Init, MainTypeOK
<1>4. stop \in BOOLEAN /\ cancelling \in BOOLEAN
  BY Zenon DEF Init
<1>5. MainInv
  BY DEF Init, MainInv, StartsOnlyConnected, HearsDownlinks, SetUp
<1> QED
  BY <1>1, <1>2, <1>3, <1>4, <1>5 DEF IInv, TypeOK

\* So does every step: one part acts, the others are untouched.
LEMMA StepHolds == IInv /\ [Next]_vars => IInv'
<1> SUFFICES ASSUME IInv, [Next]_vars PROVE IInv'
  OBVIOUS
<1> USE DEF IInv, TypeOK, env, mainVars
<1>1. CASE UNCHANGED vars
  <2>1. UNCHANGED mqttVars
    BY <1>1 DEF vars
  <2>2. MqttTypeOK' /\ MqttInv'
    BY <2>1, MqttUntouched
  <2>3. RanTypeOK'
    BY <1>1, RanUntouched DEF vars
  <2>4. PipeTypeOK' /\ PoolInv'
    BY <1>1, PipeUntouched DEF vars
  <2>5. MainTypeOK'
    BY <1>1 DEF vars, MainTypeOK, Simple, Over, SetUp
  <2>6. (stop \in BOOLEAN /\ cancelling \in BOOLEAN)'
    BY <1>1, Zenon DEF vars
  <2>7. MainInv'
    BY <1>1, Zenon DEF vars, MainInv, StartsOnlyConnected, HearsDownlinks, SetUp, MainTypeOK, mqttVars, MqttInv
  <2> QED
    BY <2>2, <2>3, <2>4, <2>5, <2>6, <2>7
<1>2. CASE Signal
  <2>1. UNCHANGED mqttVars
    BY <1>2 DEF Signal, StopAll
  <2>2. MqttTypeOK' /\ MqttInv'
    BY <2>1, MqttUntouched
  <2>3. RanTypeOK'
    BY <1>2, RanUntouched DEF Signal, StopAll
  <2>4. PipeTypeOK' /\ PoolInv'
    BY <1>2, PipeUntouched DEF Signal, StopAll
  <2>5. MainTypeOK'
    BY <1>2 DEF Signal, StopAll, MainTypeOK, Simple, Over, SetUp
  <2>6. (stop \in BOOLEAN /\ cancelling \in BOOLEAN)'
    BY <1>2, Zenon DEF Signal, StopAll
  <2>7. MainInv'
    BY <1>2, Zenon DEF Signal, StopAll, MainInv, StartsOnlyConnected, HearsDownlinks, SetUp, MainTypeOK, mqttVars, MqttInv
  <2> QED
    BY <2>2, <2>3, <2>4, <2>5, <2>6, <2>7
<1>3. CASE Mqtt(MqttFails \/ DisconnectFails)
  <2>1. MqttAction
    BY <1>3 DEF Mqtt, MqttAction
  <2>2. MqttTypeOK' /\ MqttInv'
    BY <2>1, MqttKeepsTypes, MqttKeepsInv
  <2>3. RanTypeOK'
    BY <1>3, RanUntouched DEF Mqtt
  <2>4. PipeTypeOK' /\ PoolInv'
    BY <1>3, PipeUntouched DEF Mqtt
  <2>5. MainTypeOK'
    BY <1>3 DEF Mqtt, MainTypeOK, Simple, Over, SetUp
  <2>6. (stop \in BOOLEAN /\ cancelling \in BOOLEAN)'
    BY <1>3, Zenon DEF Mqtt
  <2>7. MainInv'
    BY <1>3, Zenon DEF Mqtt, MainInv, StartsOnlyConnected, HearsDownlinks, SetUp, MainTypeOK, MqttInv, MqttTypeOK, MqttStep, Retry, CloserWakes, Disconnect, DisconnectFails, MqttEnds, Connect, MqttFails, LinkDown, AfterError, mqttVars
  <2> QED
    BY <2>2, <2>3, <2>4, <2>5, <2>6, <2>7
<1>4. CASE Ran(RanLoopEnds \/ RanRaises)
  <2>1. UNCHANGED mqttVars
    BY <1>4 DEF Ran
  <2>2. MqttTypeOK' /\ MqttInv'
    BY <2>1, MqttUntouched
  <2>3. RanTypeOK'
    <3>1. RanAction
      BY <1>4 DEF Ran, RanAction
    <3> QED
      BY <3>1, RanKeepsTypes
  <2>4. PipeTypeOK' /\ PoolInv'
    BY <1>4, PipeUntouched DEF Ran
  <2>5. MainTypeOK'
    BY <1>4 DEF Ran, MainTypeOK, Simple, Over, SetUp
  <2>6. (stop \in BOOLEAN /\ cancelling \in BOOLEAN)'
    BY <1>4, Zenon DEF Ran
  <2>7. MainInv'
    BY <1>4, Zenon DEF Ran, MainInv, StartsOnlyConnected, HearsDownlinks, SetUp, MainTypeOK, mqttVars, MqttInv
  <2> QED
    BY <2>2, <2>3, <2>4, <2>5, <2>6, <2>7
<1>5. CASE HealthFails
  <2>1. UNCHANGED mqttVars
    BY <1>5 DEF HealthFails
  <2>2. MqttTypeOK' /\ MqttInv'
    BY <2>1, MqttUntouched
  <2>3. RanTypeOK'
    BY <1>5, RanUntouched DEF HealthFails
  <2>4. PipeTypeOK' /\ PoolInv'
    BY <1>5, PipeUntouched DEF HealthFails
  <2>5. MainTypeOK'
    BY <1>5 DEF HealthFails, MainTypeOK, Simple, Over, SetUp
  <2>6. (stop \in BOOLEAN /\ cancelling \in BOOLEAN)'
    BY <1>5, Zenon DEF HealthFails
  <2>7. MainInv'
    BY <1>5, Zenon DEF HealthFails, MainInv, StartsOnlyConnected, HearsDownlinks, SetUp, MainTypeOK, mqttVars, MqttInv
  <2> QED
    BY <2>2, <2>3, <2>4, <2>5, <2>6, <2>7
<1>6. CASE Mqtt(Connect \/ MqttGoesOn)
  <2>1. MqttAction
    BY <1>6 DEF Mqtt, MqttGoesOn, MqttAction
  <2>2. MqttTypeOK' /\ MqttInv'
    BY <2>1, MqttKeepsTypes, MqttKeepsInv
  <2>3. RanTypeOK'
    BY <1>6, RanUntouched DEF Mqtt, MqttGoesOn
  <2>4. PipeTypeOK' /\ PoolInv'
    BY <1>6, PipeUntouched DEF Mqtt, MqttGoesOn
  <2>5. MainTypeOK'
    BY <1>6 DEF Mqtt, MqttGoesOn, MainTypeOK, Simple, Over, SetUp
  <2>6. (stop \in BOOLEAN /\ cancelling \in BOOLEAN)'
    BY <1>6, Zenon DEF Mqtt, MqttGoesOn
  <2>7. MainInv'
    BY <1>6, Zenon DEF Mqtt, MqttGoesOn, MainInv, StartsOnlyConnected, HearsDownlinks, SetUp, MainTypeOK, MqttInv, MqttTypeOK, MqttStep, Retry, CloserWakes, Disconnect, DisconnectFails, MqttEnds, Connect, MqttFails, LinkDown, AfterError, mqttVars
  <2> QED
    BY <2>2, <2>3, <2>4, <2>5, <2>6, <2>7
<1>7. CASE Ran(RanLoopClosed \/ RanStep)
  <2>1. UNCHANGED mqttVars
    BY <1>7 DEF Ran
  <2>2. MqttTypeOK' /\ MqttInv'
    BY <2>1, MqttUntouched
  <2>3. RanTypeOK'
    <3>1. RanAction
      BY <1>7 DEF Ran, RanAction
    <3> QED
      BY <3>1, RanKeepsTypes
  <2>4. PipeTypeOK' /\ PoolInv'
    BY <1>7, PipeUntouched DEF Ran
  <2>5. MainTypeOK'
    BY <1>7 DEF Ran, MainTypeOK, Simple, Over, SetUp
  <2>6. (stop \in BOOLEAN /\ cancelling \in BOOLEAN)'
    BY <1>7, Zenon DEF Ran
  <2>7. MainInv'
    BY <1>7, Zenon DEF Ran, MainInv, StartsOnlyConnected, HearsDownlinks, SetUp, MainTypeOK, mqttVars, MqttInv
  <2> QED
    BY <2>2, <2>3, <2>4, <2>5, <2>6, <2>7
<1>8. ASSUME NEW i \in Item, Pipe(Put(i)) PROVE IInv'
  <2>1. UNCHANGED mqttVars
    BY <1>8 DEF Pipe
  <2>2. MqttTypeOK' /\ MqttInv'
    BY <2>1, MqttUntouched
  <2>3. RanTypeOK'
    BY <1>8, RanUntouched DEF Pipe
  <2>4. PipeTypeOK' /\ PoolInv'
    BY <1>8, PutKeeps DEF Pipe
  <2>5. MainTypeOK'
    BY <1>8 DEF Pipe, MainTypeOK, Simple, Over, SetUp
  <2>6. (stop \in BOOLEAN /\ cancelling \in BOOLEAN)'
    BY <1>8, Zenon DEF Pipe
  <2>7. MainInv'
    BY <1>8, Zenon DEF Pipe, MainInv, StartsOnlyConnected, HearsDownlinks, SetUp, MainTypeOK, mqttVars, MqttInv
  <2> QED
    BY <2>2, <2>3, <2>4, <2>5, <2>6, <2>7
<1>9. ASSUME NEW n \in Nodes, Pipe(NodeStep(n)) PROVE IInv'
  <2>1. UNCHANGED mqttVars
    BY <1>9 DEF Pipe, NodeStep
  <2>2. MqttTypeOK' /\ MqttInv'
    BY <2>1, MqttUntouched
  <2>3. RanTypeOK'
    BY <1>9, RanUntouched DEF Pipe, NodeStep
  <2>4. PipeTypeOK' /\ PoolInv'
    BY <1>9, StartKeeps, HandlerKeeps, EndKeeps DEF Pipe, NodeStep
  <2>5. MainTypeOK'
    BY <1>9 DEF Pipe, NodeStep, MainTypeOK, Simple, Over, SetUp
  <2>6. (stop \in BOOLEAN /\ cancelling \in BOOLEAN)'
    BY <1>9, Zenon DEF Pipe, NodeStep
  <2>7. MainInv'
    BY <1>9, Zenon DEF Pipe, NodeStep, MainInv, StartsOnlyConnected, HearsDownlinks, SetUp, MainTypeOK, mqttVars, MqttInv
  <2> QED
    BY <2>2, <2>3, <2>4, <2>5, <2>6, <2>7
<1>10. CASE Subscribe /\ UNCHANGED <<env, ranVars, pipeVars, simple, mainVars>>
  <2>2. MqttTypeOK' /\ MqttInv'
    BY <1>10, Zenon DEF Subscribe, MqttTypeOK, MqttInv
  <2>3. RanTypeOK'
    BY <1>10, RanUntouched DEF Subscribe
  <2>4. PipeTypeOK' /\ PoolInv'
    BY <1>10, PipeUntouched DEF Subscribe
  <2>5. MainTypeOK'
    BY <1>10 DEF Subscribe, MainTypeOK, Simple, Over, SetUp
  <2>6. (stop \in BOOLEAN /\ cancelling \in BOOLEAN)'
    BY <1>10, Zenon DEF Subscribe
  <2>7. MainInv'
    <3>1. /\ main' = main /\ stop' = stop /\ link' = link /\ exception' = exception
          /\ mqtt' = mqtt
      BY <1>10, Zenon DEF Subscribe
    <3>2. CASE mqtt = "listening" /\ tti' = "listening" /\ subscribed' = TRUE
      BY <3>1, <3>2, Zenon DEF MainInv, StartsOnlyConnected, HearsDownlinks, MqttInv
    <3>3. CASE tti' = "raised"
      BY <3>1, <3>3, Zenon DEF MainInv, StartsOnlyConnected, HearsDownlinks
    <3> QED
      BY <1>10, <3>2, <3>3, Zenon DEF Subscribe
  <2> QED
    BY <2>2, <2>3, <2>4, <2>5, <2>6, <2>7
<1>11. CASE TtiEnds
  <2>1. UNCHANGED mqttVars
    BY <1>11 DEF TtiEnds
  <2>2. MqttTypeOK' /\ MqttInv'
    BY <2>1, MqttUntouched
  <2>3. RanTypeOK'
    BY <1>11, RanUntouched DEF TtiEnds
  <2>4. PipeTypeOK' /\ PoolInv'
    BY <1>11, PipeUntouched DEF TtiEnds
  <2>5. MainTypeOK'
    BY <1>11 DEF TtiEnds, MainTypeOK, Simple, Over, SetUp
  <2>6. (stop \in BOOLEAN /\ cancelling \in BOOLEAN)'
    BY <1>11, Zenon DEF TtiEnds
  <2>7. MainInv'
    BY <1>11, Zenon DEF TtiEnds, MainInv, StartsOnlyConnected, HearsDownlinks, SetUp, MainTypeOK, mqttVars, MqttInv
  <2> QED
    BY <2>2, <2>3, <2>4, <2>5, <2>6, <2>7
<1>12. ASSUME NEW t \in Simple, SimpleEnds(t) PROVE IInv'
  <2>1. UNCHANGED mqttVars
    BY <1>12 DEF SimpleEnds
  <2>2. MqttTypeOK' /\ MqttInv'
    BY <2>1, MqttUntouched
  <2>3. RanTypeOK'
    BY <1>12, RanUntouched DEF SimpleEnds
  <2>4. PipeTypeOK' /\ PoolInv'
    BY <1>12, PipeUntouched DEF SimpleEnds
  <2>5. MainTypeOK'
    BY <1>12 DEF SimpleEnds, MainTypeOK, Simple, Over, SetUp
  <2>6. (stop \in BOOLEAN /\ cancelling \in BOOLEAN)'
    BY <1>12, Zenon DEF SimpleEnds
  <2>7. MainInv'
    BY <1>12, Zenon DEF SimpleEnds, MainInv, StartsOnlyConnected, HearsDownlinks, SetUp, MainTypeOK, mqttVars, MqttInv
  <2> QED
    BY <2>2, <2>3, <2>4, <2>5, <2>6, <2>7
<1>13. CASE WaitOver
  <2>1. UNCHANGED mqttVars
    BY <1>13 DEF WaitOver
  <2>2. MqttTypeOK' /\ MqttInv'
    BY <2>1, MqttUntouched
  <2>3. RanTypeOK'
    BY <1>13, RanUntouched DEF WaitOver
  <2>4. PipeTypeOK' /\ PoolInv'
    BY <1>13, PipeUntouched DEF WaitOver
  <2>5. MainTypeOK'
    BY <1>13 DEF WaitOver, MainTypeOK, Simple, Over, SetUp
  <2>6. (stop \in BOOLEAN /\ cancelling \in BOOLEAN)'
    BY <1>13, Zenon DEF WaitOver
  <2>7. MainInv'
    BY <1>13, Zenon DEF WaitOver, MainInv, StartsOnlyConnected, HearsDownlinks, SetUp, MainTypeOK, mqttVars, MqttInv
  <2> QED
    BY <2>2, <2>3, <2>4, <2>5, <2>6, <2>7
<1>14. CASE Check
  <2>1. UNCHANGED mqttVars
    BY <1>14 DEF Check, Checked
  <2>2. MqttTypeOK' /\ MqttInv'
    BY <2>1, MqttUntouched
  <2>3. RanTypeOK'
    BY <1>14, RanUntouched DEF Check, Checked
  <2>4. PipeTypeOK' /\ PoolInv'
    BY <1>14, PipeUntouched DEF Check, Checked
  <2>5. MainTypeOK'
    BY <1>14 DEF Check, Checked, MainTypeOK, Simple, Over, SetUp
  <2>6. (stop \in BOOLEAN /\ cancelling \in BOOLEAN)'
    BY <1>14, Zenon DEF Check, Checked
  <2>7. MainInv'
    BY <1>14, Zenon DEF Check, Checked, MainInv, StartsOnlyConnected, HearsDownlinks, SetUp, MainTypeOK, mqttVars, MqttInv
  <2> QED
    BY <2>2, <2>3, <2>4, <2>5, <2>6, <2>7
<1>15. CASE SetUpFails
  <2>1. UNCHANGED mqttVars
    BY <1>15 DEF SetUpFails
  <2>2. MqttTypeOK' /\ MqttInv'
    BY <2>1, MqttUntouched
  <2>3. RanTypeOK'
    BY <1>15, RanUntouched DEF SetUpFails
  <2>4. PipeTypeOK' /\ PoolInv'
    BY <1>15, PipeUntouched DEF SetUpFails
  <2>5. MainTypeOK'
    BY <1>15 DEF SetUpFails, MainTypeOK, Simple, Over, SetUp
  <2>6. (stop \in BOOLEAN /\ cancelling \in BOOLEAN)'
    BY <1>15, Zenon DEF SetUpFails
  <2>7. MainInv'
    BY <1>15, Zenon DEF SetUpFails, MainInv, StartsOnlyConnected, HearsDownlinks, SetUp, MainTypeOK, mqttVars, MqttInv
  <2> QED
    BY <2>2, <2>3, <2>4, <2>5, <2>6, <2>7
<1>16. CASE SetUpStep
  <2>1. UNCHANGED mqttVars
    BY <1>16 DEF SetUpStep
  <2>2. MqttTypeOK' /\ MqttInv'
    BY <2>1, MqttUntouched
  <2>3. RanTypeOK'
    BY <1>16, RanUntouched DEF SetUpStep
  <2>4. PipeTypeOK' /\ PoolInv'
    BY <1>16, PipeUntouched DEF SetUpStep
  <2>5. MainTypeOK'
    BY <1>16 DEF SetUpStep, MainTypeOK, Simple, Over, SetUp
  <2>6. (stop \in BOOLEAN /\ cancelling \in BOOLEAN)'
    BY <1>16, Zenon DEF SetUpStep
  <2>7. MainInv'
    BY <1>16, Zenon DEF SetUpStep, MainInv, StartsOnlyConnected, HearsDownlinks, SetUp, MainTypeOK, mqttVars, MqttInv
  <2> QED
    BY <2>2, <2>3, <2>4, <2>5, <2>6, <2>7
<1>17. CASE StartTasks
  <2>1. UNCHANGED mqttVars
    BY <1>17 DEF StartTasks
  <2>2. MqttTypeOK' /\ MqttInv'
    BY <2>1, MqttUntouched
  <2>3. RanTypeOK'
    BY <1>17 DEF StartTasks, RanTypeOK
  <2>4. PipeTypeOK' /\ PoolInv'
    <3>1. \A n \in Nodes : Busy(n)' = Busy(n)
      BY <1>17 DEF StartTasks, Busy
    <3> QED
      BY <1>17, <3>1 DEF StartTasks, PipeTypeOK, PoolInv
  <2>5. MainTypeOK'
    BY <1>17 DEF StartTasks, MainTypeOK, Simple, Over, SetUp
  <2>6. (stop \in BOOLEAN /\ cancelling \in BOOLEAN)'
    BY <1>17, Zenon DEF StartTasks
  <2>7. MainInv'
    BY <1>17, Zenon DEF StartTasks, MainInv, StartsOnlyConnected, HearsDownlinks, SetUp, MainTypeOK, mqttVars, MqttInv
  <2> QED
    BY <2>2, <2>3, <2>4, <2>5, <2>6, <2>7
<1>18. CASE FirstCompleted
  <2>1. UNCHANGED mqttVars
    BY <1>18 DEF FirstCompleted
  <2>2. MqttTypeOK' /\ MqttInv'
    BY <2>1, MqttUntouched
  <2>3. RanTypeOK'
    BY <1>18, RanUntouched DEF FirstCompleted
  <2>4. PipeTypeOK' /\ PoolInv'
    BY <1>18, PipeUntouched DEF FirstCompleted
  <2>5. MainTypeOK'
    BY <1>18 DEF FirstCompleted, MainTypeOK, Simple, Over, SetUp
  <2>6. (stop \in BOOLEAN /\ cancelling \in BOOLEAN)'
    BY <1>18, Zenon DEF FirstCompleted
  <2>7. MainInv'
    BY <1>18, Zenon DEF FirstCompleted, MainInv, StartsOnlyConnected, HearsDownlinks, SetUp, MainTypeOK, mqttVars, MqttInv
  <2> QED
    BY <2>2, <2>3, <2>4, <2>5, <2>6, <2>7
<1>19. CASE AwaitNext
  <2>1. UNCHANGED mqttVars
    BY <1>19 DEF AwaitNext, Left
  <2>2. MqttTypeOK' /\ MqttInv'
    BY <2>1, MqttUntouched
  <2>3. RanTypeOK'
    BY <1>19, RanUntouched DEF AwaitNext, Left
  <2>4. PipeTypeOK' /\ PoolInv'
    BY <1>19, PipeUntouched DEF AwaitNext, Left
  <2>5. MainTypeOK'
    BY <1>19 DEF AwaitNext, Left, MainTypeOK, Simple, Over, SetUp
  <2>6. (stop \in BOOLEAN /\ cancelling \in BOOLEAN)'
    BY <1>19, Zenon DEF AwaitNext, Left
  <2>7. MainInv'
    BY <1>19, Zenon DEF AwaitNext, Left, MainInv, StartsOnlyConnected, HearsDownlinks, SetUp, MainTypeOK, mqttVars, MqttInv
  <2> QED
    BY <2>2, <2>3, <2>4, <2>5, <2>6, <2>7
<1>20. CASE AwaitEnds
  <2>1. UNCHANGED mqttVars
    BY <1>20 DEF AwaitEnds
  <2>2. MqttTypeOK' /\ MqttInv'
    BY <2>1, MqttUntouched
  <2>3. RanTypeOK'
    BY <1>20, RanUntouched DEF AwaitEnds
  <2>4. PipeTypeOK' /\ PoolInv'
    BY <1>20, PipeUntouched DEF AwaitEnds
  <2>5. MainTypeOK'
    BY <1>20 DEF AwaitEnds, MainTypeOK, Simple, Over, SetUp
  <2>6. (stop \in BOOLEAN /\ cancelling \in BOOLEAN)'
    BY <1>20, Zenon DEF AwaitEnds
  <2>7. MainInv'
    BY <1>20, Zenon DEF AwaitEnds, MainInv, StartsOnlyConnected, HearsDownlinks, SetUp, MainTypeOK, mqttVars, MqttInv
  <2> QED
    BY <2>2, <2>3, <2>4, <2>5, <2>6, <2>7
<1>21. CASE ShareOver
  <2>2. MqttTypeOK' /\ MqttInv'
    BY <1>21, MqttUntouched, MqttKeepsTypes, MqttKeepsInv DEF ShareOver, Cancelled, Cancel, MqttAction
  <2>3. RanTypeOK'
    BY <1>21, RanUntouched, RanKeepsTypes DEF ShareOver, Cancelled, Cancel, RanAction
  <2>4. PipeTypeOK' /\ PoolInv'
    BY <1>21, PipeUntouched, CancelKeeps DEF ShareOver, Cancelled, Cancel
  <2>5. MainTypeOK'
    BY <1>21 DEF ShareOver, Cancelled, Cancel, MainTypeOK, Simple, Over, SetUp
  <2>6. (stop \in BOOLEAN /\ cancelling \in BOOLEAN)'
    BY <1>21, Zenon DEF ShareOver, Cancelled, Cancel
  <2>7. MainInv'
    <3>1. main' = main /\ stop' = stop /\ link' = link /\ exception' = exception
      BY <1>21, Zenon DEF ShareOver, Cancelled, Cancel, MqttCancelled, mqttVars
    <3>2. tti' = tti \/ tti' = "ended"
      BY <1>21, Zenon DEF ShareOver, Cancelled, Cancel
    <3>3. (mqtt' = mqtt /\ subscribed' = subscribed) \/ mqtt' = "ended"
      BY <1>21, Zenon DEF ShareOver, Cancelled, Cancel, MqttCancelled, mqttVars
    <3> QED
      BY <3>1, <3>2, <3>3, Zenon DEF MainInv, StartsOnlyConnected, HearsDownlinks
  <2> QED
    BY <2>2, <2>3, <2>4, <2>5, <2>6, <2>7
<1>22. CASE Bye
  <2>1. UNCHANGED mqttVars
    BY <1>22 DEF Bye
  <2>2. MqttTypeOK' /\ MqttInv'
    BY <2>1, MqttUntouched
  <2>3. RanTypeOK'
    BY <1>22, RanUntouched DEF Bye
  <2>4. PipeTypeOK' /\ PoolInv'
    BY <1>22, PipeUntouched DEF Bye
  <2>5. MainTypeOK'
    BY <1>22 DEF Bye, MainTypeOK, Simple, Over, SetUp
  <2>6. (stop \in BOOLEAN /\ cancelling \in BOOLEAN)'
    BY <1>22, Zenon DEF Bye
  <2>7. MainInv'
    BY <1>22, Zenon DEF Bye, MainInv, StartsOnlyConnected, HearsDownlinks, SetUp, MainTypeOK, mqttVars, MqttInv
  <2> QED
    BY <2>2, <2>3, <2>4, <2>5, <2>6, <2>7
<1> QED
  BY <1>1, <1>2, <1>3, <1>4, <1>5, <1>6, <1>7, <1>8, <1>9, <1>10, <1>11, <1>12, <1>13, <1>14, <1>15, <1>16, <1>17, <1>18, <1>19, <1>20, <1>21, <1>22, Zenon
     DEF Next, Faults, Work, TtiStep, MainStep

\* The inductive invariant.
LEMMA IInvHolds == Spec => []IInv
BY InitHolds, StepHolds, PTL DEF Spec

\* The type invariant of the composition (TypeOK), with the pools within their limits.
THEOREM TypeCorrect == Spec => []TypeOK
BY IInvHolds, PTL DEF IInv

\* main goes on only with an MQTT client that was connected (StartsOnlyConnected).
THEOREM StartsConnected == Spec => []StartsOnlyConnected
BY IInvHolds, PTL DEF IInv, MainInv

\* A listening TTI router is subscribed while the first client lasts (HearsDownlinks).
THEOREM DownlinksHeard == Spec => []HearsDownlinks
BY IInvHolds, PTL DEF IInv, MainInv

\* main ends with "Bye!" only when the manager is done.
ByeInv == "manager" \notin settled /\ (main = "bye" => ManagerDone)

\* It does so from the start and in every step.
LEMMA ByeHolds == Spec => []ByeInv
<1>1. Init => ByeInv
  BY DEF Init, ByeInv
<1>2. ByeInv /\ [Next]_vars => ByeInv'
  <2> SUFFICES ASSUME ByeInv, [Next]_vars PROVE ByeInv'
    OBVIOUS
  <2>1. ~Raised("manager")
    BY BridgeAssumption DEF Raised, Simple
  <2>2. CASE UNCHANGED vars
    BY <2>2 DEF ByeInv, vars, mainVars, pipeVars, ManagerDone
  <2>3. CASE Bye
    <3>1. main = "shutdown" /\ Left = {} /\ settled' = settled /\ UNCHANGED <<manager, node>>
      BY <2>3 DEF Bye, pipeVars
    <3>2. Done("manager")
      BY <3>1 DEF Left, ByeInv, Task
    <3>3. ManagerDone
      BY <2>1, <3>2, BridgeAssumption DEF Done, Raised, Simple
    <3> QED
      BY <3>1, <3>3 DEF ByeInv, ManagerDone
  <2>4. CASE FirstCompleted
    BY <2>1, <2>4 DEF FirstCompleted, ByeInv
  <2>0. Next => main # "bye"
    BY DEF Next, Over
  <2>5. CASE ShareOver /\ Next
    <3>1. main' = main /\ settled' \in {settled, settled \cup {"stop"}}
      BY <2>5 DEF ShareOver, env
    <3> QED
      BY <2>0, <2>5, <3>1 DEF ByeInv
  <2>6. CASE Next /\ (\/ WaitOver \/ Check \/ SetUpFails \/ SetUpStep \/ StartTasks
                     \/ AwaitNext \/ AwaitEnds)
    <3>1. settled' = settled
      BY <2>6 DEF WaitOver, Check, SetUpFails, SetUpStep, StartTasks, AwaitNext, AwaitEnds
    <3>2. main' # "bye"
      BY <2>0, <2>6 DEF WaitOver, Check, SetUpFails, SetUpStep, StartTasks, AwaitNext, AwaitEnds
    <3> QED
      BY <3>1, <3>2 DEF ByeInv
  <2>7. CASE Next /\ UNCHANGED mainVars
    BY <2>0, <2>7 DEF mainVars, ByeInv
  <2> QED
    BY <2>2, <2>3, <2>4, <2>5, <2>6, <2>7
       DEF Next, Faults, Work, MainStep, Signal, Mqtt, Ran, Pipe, HealthFails, TtiStep, TtiEnds,
           SimpleEnds
<1> QED
  BY <1>1, <1>2, PTL DEF Spec

\* No handler is abandoned when the manager was not cancelled (NoHandlerAbandoned).
THEOREM HandlersFinish == Spec => []NoHandlerAbandoned
<1>1. IInv /\ ByeInv => NoHandlerAbandoned
  BY DEF IInv, PoolInv, ByeInv, ManagerDone, NoHandlerAbandoned
<1> QED
  BY <1>1, IInvHolds, ByeHolds, PTL
=============================================================================
