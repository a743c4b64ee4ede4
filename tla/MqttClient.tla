----------------------------- MODULE MqttClient -----------------------------
(***************************************************************************)
(* MQTTClient.run (mqtt.py): connect, listen until an error, wait, connect  *)
(* with a new client.  A second task disconnects the client at the stop, if *)
(* it is connected at that moment.  The waits between attempts (doubled up  *)
(* to 900 s) have no length here.                                           *)
(***************************************************************************)
EXTENDS StopEvent

VARIABLES
    mqtt,           \* where run is
    connected,      \* _connected
    failed,         \* _connection_failed
    exception,      \* _exception is not None
    closer,         \* where disconnect_on_stop is
    link,           \* whether the broker was ever reached, and by which client
    subscribed      \* the broker has the subscription of the current client

mqttVars == <<mqtt, connected, failed, exception, closer, link, subscribed>>

MqttTypeOK ==
    /\ mqtt \in {"connecting", "listening", "sleeping", "closing", "ended"}
    /\ {connected, failed, exception, subscribed} \subseteq BOOLEAN
    /\ closer \in {"waiting", "closing", "done"}
    /\ link \in {"never", "first", "later"}

MqttInit ==
    /\ mqtt = "connecting" /\ closer = "waiting" /\ link = "never"
    /\ connected = FALSE /\ failed = FALSE /\ exception = FALSE /\ subscribed = FALSE

\* _subscribe_worker enters its contexts.
Connect ==
    /\ mqtt = "connecting"
    /\ mqtt' = "listening"
    /\ connected' = TRUE
    /\ link' = IF link = "never" THEN "first" ELSE link
    /\ UNCHANGED <<failed, exception, closer, subscribed>>

\* Seeded bug: an error ends the loop, stop or not.
AfterErrorBreak == "closing"

AfterError == IF stop THEN "closing" ELSE "sleeping"

\* _subscribe_worker raises MqttError; its client is gone, and what it subscribed to.
LinkDown ==
    /\ mqtt' = AfterError
    /\ connected' = FALSE /\ failed' = TRUE /\ exception' = TRUE
    /\ link' = IF link = "first" THEN "later" ELSE link
    /\ subscribed' = FALSE

\* The connection is refused, or breaks.
MqttFails ==
    /\ mqtt \in {"connecting", "listening"}
    /\ LinkDown
    /\ UNCHANGED closer

\* The wait is over, or cut short by the stop: _create_client.
Retry ==
    /\ mqtt = "sleeping"
    /\ mqtt' = IF stop THEN "closing" ELSE "connecting"
    /\ connected' = FALSE /\ failed' = FALSE /\ exception' = FALSE
    /\ UNCHANGED <<closer, link, subscribed>>

\* disconnect_on_stop: nothing to do for a client that is not connected (yet).
CloserWakes ==
    /\ stop
    /\ closer = "waiting"
    /\ closer' = IF connected THEN "closing" ELSE "done"
    /\ UNCHANGED <<mqtt, connected, failed, exception, link, subscribed>>

\* The client disconnects, which the listening loop sees as an error.
Disconnect ==
    /\ closer = "closing"
    /\ closer' = "done"
    /\ IF mqtt = "listening" THEN LinkDown
       ELSE UNCHANGED <<mqtt, connected, failed, exception, link, subscribed>>

\* disconnect raises: the loop goes on listening.
DisconnectFails ==
    /\ closer = "closing"
    /\ closer' = "done"
    /\ UNCHANGED <<mqtt, connected, failed, exception, link, subscribed>>

MqttEnds ==
    /\ mqtt = "closing"
    /\ closer = "done"
    /\ mqtt' = "ended"
    /\ UNCHANGED <<connected, failed, exception, closer, link, subscribed>>

\* The task is cancelled, wherever it is.
MqttCancelled ==
    /\ mqtt' = "ended"
    /\ subscribed' = FALSE
    /\ UNCHANGED <<connected, failed, exception, closer, link>>

MqttStep == Retry \/ CloserWakes \/ Disconnect \/ MqttEnds
=============================================================================
