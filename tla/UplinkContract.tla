--------------------------- MODULE UplinkContract ---------------------------
(***************************************************************************)
(* What the bridge promises the RAN about uplinks, whatever happens inside: *)
(* a message is acknowledged only with a MIC that the device's key          *)
(* verifies, and only once the uplink carrying that MIC has been handed to  *)
(* the network server.  UpstreamRouter implements it.                       *)
(***************************************************************************)
EXTENDS Sequences

CONSTANTS
    Tx,         \* transaction ids the RAN gives its upstream messages
    Corr,       \* payloads without MIC; their hash is the correlation id
    Mic,        \* MIC candidates of the challenges
    None,       \* no value
    Genuine     \* Genuine[c]: the MICs that verify for payload c

VARIABLES
    payload,    \* payload[t]: the payload of message t, None until it arrives
    published,  \* published[c]: the MICs with which c reached the network server
    sent        \* sent[t]: the answers the RAN was sent for message t

vars == <<payload, published, sent>>

Ack(m) == [verdict |-> "ack", mic |-> m]

Reject(code) == [verdict |-> code, mic |-> None]

Codes == {"MICFailed", "Other"}

Init ==
    /\ payload = [t \in Tx |-> None]
    /\ published = [c \in Corr |-> {}]
    /\ sent = [t \in Tx |-> <<>>]

Arrive(t, c) ==
    /\ payload[t] = None
    /\ payload' = [payload EXCEPT ![t] = c]
    /\ UNCHANGED <<published, sent>>

Publish(c, m) ==
    /\ m \in Genuine[c]
    /\ published' = [published EXCEPT ![c] = @ \cup {m}]
    /\ UNCHANGED <<payload, sent>>

Acknowledge(t, m) ==
    /\ payload[t] \in Corr
    /\ m \in published[payload[t]]
    /\ sent' = [sent EXCEPT ![t] = Append(@, Ack(m))]
    /\ UNCHANGED <<payload, published>>

Refuse(t, code) ==
    /\ payload[t] \in Corr
    /\ sent' = [sent EXCEPT ![t] = Append(@, Reject(code))]
    /\ UNCHANGED <<payload, published>>

Next ==
    \/ \E t \in Tx, c \in Corr : Arrive(t, c)
    \/ \E c \in Corr, m \in Mic : Publish(c, m)
    \/ \E t \in Tx, m \in Mic : Acknowledge(t, m)
    \/ \E t \in Tx, code \in Codes : Refuse(t, code)

Spec == Init /\ [][Next]_vars
=============================================================================
