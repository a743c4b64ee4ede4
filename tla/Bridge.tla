------------------------------- MODULE Bridge -------------------------------
(***************************************************************************)
(* main (main.py): the set-up, the tasks, and the shutdown when the first   *)
(* of them ends: each task left is awaited for its share of 20 s, then      *)
(* cancelled.  It composes the MQTT client, the RAN client and the upstream *)
(* pipeline with the TTI router and the simpler tasks.                      *)
(***************************************************************************)
EXTENDS MqttClient, RanClient, Pipeline

CONSTANTS
    None,
    Periodic,   \* the periodic tasks
    Troubles    \* bound: what may go wrong or arrive in one behaviour

AnyTrouble == {"setup", "mqtt", "ran", "health", "messages"}

ASSUME BridgeAssumption ==
    /\ Troubles \subseteq SUBSET AnyTrouble
    /\ Periodic \cap {"mqtt", "ran", "manager", "tti", "stop", "health"} = {}

VARIABLES
    main,       \* where main is
    tti,        \* where TTITrafficRouter.run is
    simple,     \* simple[t]: the periodic tasks and the health check server
    settled,    \* tasks the shutdown need not await
    awaited,    \* the task it awaits
    cancelling, \* that task's share is over, and it was cancelled
    trouble     \* the member of Troubles this behaviour is about

mainVars == <<main, settled, awaited, cancelling>>

env == <<trouble, stop>>

vars == <<env, mqttVars, ranVars, pipeVars, tti, simple, mainVars>>

Simple == Periodic \cup {"health"}

Task == {"mqtt", "ran", "manager", "tti", "stop"} \cup Simple

SetUp == {"ranConnect", "cleanup", "firstSync", "initialStatus"}

\* The process is over: "Bye!", an exception out of main, or no MQTT in 15 s.
Over == {"bye", "raised", "gaveUp"}

MainTypeOK ==
    /\ main \in {"waiting", "checking", "running", "shutdown"} \cup SetUp \cup Over
    /\ tti \in {"new", "subscribing", "listening", "ended", "raised"}
    /\ simple \in [Simple -> {"new", "running", "ended", "raised"}]
    /\ settled \subseteq Task /\ awaited \in Task \cup {None}
    /\ trouble \in Troubles

TypeOK ==
    /\ MqttTypeOK /\ RanTypeOK /\ PipeTypeOK
    /\ MainTypeOK
    /\ stop \in BOOLEAN /\ cancelling \in BOOLEAN

Init ==
    /\ stop = FALSE
    /\ MqttInit /\ RanInit /\ PipeInit
    /\ tti = "new" /\ simple = [t \in Simple |-> "new"]
    /\ main = "waiting" /\ settled = {} /\ awaited = None /\ cancelling = FALSE
    /\ trouble \in Troubles

-----------------------------------------------------------------------------
(* Set-up.                                                                  *)

\* wait_for_connection is woken by one of the two events, or by its timeout.
WaitOver ==
    /\ main = "waiting"
    /\ \/ (connected \/ failed) /\ main' = "checking"
       \/ main' = "gaveUp"
    /\ UNCHANGED <<env, mqttVars, ranVars, pipeVars, tti, simple, settled, awaited, cancelling>>

\* Seeded bug: the exception of the first attempt is not looked at.
CheckedNothing == TRUE

\* By now the client may have cleared what woke main (after a stop).
Checked == ~exception

Check ==
    /\ main = "checking"
    /\ main' = IF Checked THEN "ranConnect" ELSE "raised"
    /\ UNCHANGED <<env, mqttVars, ranVars, pipeVars, tti, simple, settled, awaited, cancelling>>

\* A step of the set-up raises, as does the initial status without a connection.
SetUpFails ==
    /\ main \in SetUp
    /\ "setup" \in trouble \/ (main = "initialStatus" /\ mqtt # "listening")
    /\ main' = "raised"
    /\ UNCHANGED <<env, mqttVars, ranVars, pipeVars, tti, simple, settled, awaited, cancelling>>

SetUpStep ==
    /\ \/ main = "ranConnect" /\ main' = "cleanup"
       \/ main = "cleanup" /\ main' = "firstSync"
       \/ main = "firstSync" /\ main' = "initialStatus"
    /\ UNCHANGED <<env, mqttVars, ranVars, pipeVars, tti, simple, settled, awaited, cancelling>>

\* After the initial status all tasks are created.
StartTasks ==
    /\ main = "initialStatus" /\ mqtt = "listening"
    /\ main' = "running"
    /\ ran' = "up" /\ manager' = "running" /\ node' = [n \in Nodes |-> "looping"]
    /\ tti' = "subscribing" /\ simple' = [t \in Simple |-> "running"]
    /\ UNCHANGED <<env, mqttVars, ranCloser, item, free, settled, awaited, cancelling>>

-----------------------------------------------------------------------------
(* The tasks.                                                               *)

\* Seeded bug: a failed subscription is not noticed.
SubscribeUnnoticed ==
    /\ tti = "subscribing"
    /\ tti' = "listening"
    /\ subscribed' \in {FALSE, mqtt = "listening"}
    /\ UNCHANGED <<mqtt, connected, failed, exception, closer, link>>

\* TTITrafficRouter.run subscribes once.
Subscribe ==
    /\ tti = "subscribing"
    /\ \/ mqtt = "listening" /\ tti' = "listening" /\ subscribed' = TRUE
       \/ ("mqtt" \in trouble \/ mqtt # "listening") /\ tti' = "raised" /\ UNCHANGED subscribed
    /\ UNCHANGED <<mqtt, connected, failed, exception, closer, link>>

TtiEnds ==
    /\ stop /\ tti = "listening"
    /\ tti' = "ended"
    /\ UNCHANGED <<env, mqttVars, ranVars, pipeVars, simple, mainVars>>

TtiStep == TtiEnds \/ (Subscribe /\ UNCHANGED <<env, ranVars, pipeVars, simple, mainVars>>)

SimpleEnds(t) ==
    /\ stop
    /\ simple[t] = "running"
    /\ simple' = [simple EXCEPT ![t] = "ended"]
    /\ UNCHANGED <<env, mqttVars, ranVars, pipeVars, tti, mainVars>>

\* The health check server cannot bind its port.
HealthFails ==
    /\ "health" \in trouble /\ simple["health"] = "running"
    /\ simple' = [simple EXCEPT !["health"] = "raised"]
    /\ UNCHANGED <<env, mqttVars, ranVars, pipeVars, tti, mainVars>>

\* The wait between attempts is 2 s or more: without a stop it does not end before
\* main has looked at the result of the first one.
MqttGoesOn == (mqtt = "sleeping" /\ main \in {"waiting", "checking"} => stop) /\ MqttStep

Mqtt(A) == A /\ UNCHANGED <<env, ranVars, pipeVars, tti, simple, mainVars>>

Ran(A) == A /\ UNCHANGED <<env, mqttVars, pipeVars, tti, simple, mainVars>>

Pipe(A) == A /\ UNCHANGED <<env, mqttVars, ranVars, tti, simple, mainVars>>

Signal == StopAll /\ UNCHANGED <<trouble, mqttVars, ranVars, pipeVars, tti, simple, mainVars>>

-----------------------------------------------------------------------------
(* Shutdown.                                                                *)

Raised(t) ==
    \/ t = "ran" /\ ran = "raised"
    \/ t = "tti" /\ tti = "raised"
    \/ t \in Simple /\ simple[t] = "raised"

Done(t) ==
    \/ Raised(t)
    \/ t = "mqtt" /\ mqtt = "ended"
    \/ t = "ran" /\ ran = "ended"
    \/ t = "manager" /\ ManagerDone
    \/ t = "tti" /\ tti = "ended"
    \/ t = "stop" /\ stop
    \/ t \in Simple /\ simple[t] = "ended"

\* asyncio.wait returns.  Nobody sets stop if it is not set.
FirstCompleted ==
    /\ main = "running"
    /\ \E t \in Task : Done(t)
    /\ main' = "shutdown"
    /\ settled' = {t \in Task : Raised(t)}
    /\ UNCHANGED <<env, mqttVars, ranVars, pipeVars, tti, simple, awaited, cancelling>>

\* The pending tasks whose turn is to come, without those that are done: wait_for
\* returns at once for them.
Left == {t \in Task \ settled : ~Done(t) \/ Raised(t)}

AwaitNext ==
    /\ main = "shutdown" /\ awaited = None
    /\ awaited' \in Left
    /\ UNCHANGED <<env, mqttVars, ranVars, pipeVars, tti, simple, main, settled, cancelling>>

\* wait_for returns once the task is done, cancelled or not, and passes on what
\* the task raised.
AwaitEnds ==
    /\ awaited # None /\ Done(awaited)
    /\ main' = IF Raised(awaited) THEN "raised" ELSE main
    /\ awaited' = None /\ cancelling' = FALSE
    /\ UNCHANGED <<env, mqttVars, ranVars, pipeVars, tti, simple, settled>>

\* What a cancellation does to each task.
Cancel(t) ==
    /\ IF t = "mqtt" THEN MqttCancelled ELSE UNCHANGED mqttVars
    /\ IF t = "ran" THEN RanCancelled ELSE UNCHANGED ranVars
    /\ IF t = "manager" THEN ManagerCancelled ELSE UNCHANGED pipeVars
    /\ tti' = IF t = "tti" THEN "ended" ELSE tti
    /\ simple' = [s \in Simple |-> IF s = t THEN "ended" ELSE simple[s]]

\* Seeded bug: the task is not cancelled, only given up.
CancelNothing(t) == UNCHANGED <<mqttVars, ranVars, pipeVars, tti, simple>>

Cancelled(t) == Cancel(t)

\* The task's share of the 20 s is over.  "stop" is only a wait, gone at once.
ShareOver ==
    /\ awaited # None /\ ~Done(awaited) /\ ~cancelling
    /\ Cancelled(awaited)
    /\ cancelling' = (awaited # "stop")
    /\ awaited' = IF awaited = "stop" THEN None ELSE awaited
    /\ settled' = IF awaited = "stop" THEN settled \cup {"stop"} ELSE settled
    /\ UNCHANGED <<env, main>>

\* Every task is done: the loops that cancel and await once more find nothing.
Bye ==
    /\ main = "shutdown" /\ awaited = None /\ Left = {}
    /\ main' = "bye"
    /\ UNCHANGED <<env, mqttVars, ranVars, pipeVars, tti, simple, settled, awaited, cancelling>>

MainStep ==
    \/ WaitOver \/ Check \/ SetUpFails \/ SetUpStep \/ StartTasks
    \/ FirstCompleted \/ AwaitNext \/ AwaitEnds \/ ShareOver \/ Bye

-----------------------------------------------------------------------------
Faults ==
    \/ Signal
    \/ "mqtt" \in trouble /\ Mqtt(MqttFails \/ DisconnectFails)
    \/ "ran" \in trouble /\ Ran(RanLoopEnds \/ RanRaises)
    \/ HealthFails

Work ==
    \/ Mqtt(Connect \/ MqttGoesOn)
    \/ Ran(RanLoopClosed \/ RanStep)
    \/ \E i \in Item : "messages" \in trouble /\ ran = "up" /\ Pipe(Put(i))
    \/ \E n \in Nodes : Pipe(NodeStep(n))
    \/ TtiStep
    \/ \E t \in Simple : SimpleEnds(t)
    \/ MainStep

\* The event loop stops with main.
Next == main \notin Over /\ (Faults \/ Work)

Spec == Init /\ [][Next]_vars

\* The event loop runs every task that can go on; the broker accepts a connection
\* again and again, however often it fails in between.
Fairness ==
    /\ WF_vars(main \notin Over /\ MainStep)
    /\ WF_vars(main \notin Over /\ Mqtt(MqttGoesOn))
    /\ SF_vars(main \notin Over /\ Mqtt(Connect))
    /\ WF_vars(main \notin Over /\ Ran(RanLoopClosed \/ RanStep))
    /\ WF_vars(main \notin Over /\ (TtiStep \/ \E t \in Simple : SimpleEnds(t)))
    /\ \A n \in Nodes : WF_vars(main \notin Over /\ Pipe(LeaveLoop(n) \/ Joined(n)))
    /\ \A i \in Item : WF_vars(main \notin Over /\ \E n \in Nodes : Pipe(StartHandler(n, i) \/ HandlerEnds(n, i)))

FairSpec == Spec /\ Fairness

-----------------------------------------------------------------------------
(* Safety.                                                                  *)

\* main goes on to the RAN and the devices only with an MQTT client that was
\* connected (mqtt.py wait_for_connection), or after a stop, when the new client may
\* have cleared the failure of the old one; but then it does not get beyond the set-up:
\* no task is started without a connection (main.py).
StartsOnlyConnected ==
    /\ main \in SetUp => link # "never" \/ stop
    /\ main \in {"running", "shutdown", "bye"} => link # "never"

\* While the first MQTT client lasts, a TTI router that listens for downlinks is
\* subscribed to them (tti.py run, mqtt.py subscribe).  A later client is not.
HearsDownlinks ==
    tti = "listening" /\ mqtt = "listening" /\ link = "first" => subscribed

\* When the process is over after a shutdown that did not have to cancel the manager,
\* both stages of the pipeline have ended and no handler was left in the middle of a
\* message (manager.py PipelineNode.run, async_pool.py join, main.py), whatever the two
\* stages still handed to each other while they ended.
NoHandlerAbandoned ==
    main = "bye" /\ manager # "cancelled" =>
        \A n \in Nodes : node[n] = "ended" /\ Busy(n) = {}

-----------------------------------------------------------------------------
(* Liveness.                                                                *)

\* A stop signal ends the process, whatever the set-up, the connections and the
\* handlers are doing when it comes (main.py).
StopEnds == stop ~> main \in Over

\* As long as main runs its tasks, the MQTT client is connected again and again,
\* however often the connection is lost (mqtt.py run).
Reconnects == []<>(mqtt = "listening" \/ stop \/ main # "running")

\* A candidate that was received is handled by both stages, or raises in one, as long
\* as main runs its tasks, however many others raised before (manager.py
\* _handle_item, async_pool.py _task_done_callback).
ItemsPass ==
    \A i \in Item : item[i] = "queued1" ~> item[i] = "out" \/ stop \/ main # "running"
=============================================================================
