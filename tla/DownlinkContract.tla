-------------------------- MODULE DownlinkContract --------------------------
(***************************************************************************)
(* What the bridge promises about downlinks, whatever expires, repeats or   *)
(* raises inside: only what the network server asked for goes to the RAN,   *)
(* always for a device and once; an answer to an uplink goes to the device  *)
(* the uplink came from, after the delay the server meant, and only the     *)
(* first of several answers does; the server hears of one result of a       *)
(* downlink, and only of one that was sent.  Downlink implements it.        *)
(***************************************************************************)
EXTENDS Naturals

CONSTANTS
    Uplink,     \* forwarded uplinks
    Device,
    Sender,     \* Sender[c]: the device a payload c came from
    Downlink,   \* downlinks
    None        \* no value

VARIABLES
    uplink,     \* uplink[u]: payload and timestamp it reached the server with, or None
    asked,      \* asked[d]: None until the server sends d; then its kind and, of an
                \* answer, the uplink's payload and timestamp, and the delay in seconds
    sent,       \* sent[d]: device and delay of the request to the RAN, or None
    acked       \* acked[d]: how many results of d the server was told of

vars == <<uplink, asked, sent, acked>>

Init ==
    /\ uplink = [u \in Uplink |-> None]
    /\ asked = [d \in Downlink |-> None]
    /\ sent = [d \in Downlink |-> None]
    /\ acked = [d \in Downlink |-> 0]

\* Two uplinks never have the same timestamp.
Publish(u) ==
    /\ uplink[u] = None
    /\ uplink'[u] # None
    /\ \A v \in Uplink : uplink[v] # None => uplink[v].tmst # uplink'[u].tmst
    /\ uplink' = [uplink EXCEPT ![u] = uplink'[u]]
    /\ UNCHANGED <<asked, sent, acked>>

Ask(d) ==
    /\ asked[d] = None
    /\ asked'[d] # None
    /\ asked' = [asked EXCEPT ![d] = asked'[d]]
    /\ UNCHANGED <<uplink, sent, acked>>

\* Nothing was sent yet that answers the same uplink.
FirstAnswer(d) ==
    \A e \in Downlink :
        sent[e] # None /\ asked[e].kind = "classA" => asked[e].tmst # asked[d].tmst

SendAnswer(d) ==
    /\ asked[d] # None /\ asked[d].kind = "classA"
    /\ sent[d] = None
    /\ FirstAnswer(d)
    /\ sent' = [sent EXCEPT ![d] = [device |-> Sender[asked[d].payload], delay |-> asked[d].delay]]
    /\ UNCHANGED <<uplink, asked, acked>>

SendUnasked(d, device) ==
    /\ asked[d] # None /\ asked[d].kind = "classBC"
    /\ sent[d] = None
    /\ sent' = [sent EXCEPT ![d] = [device |-> device, delay |-> None]]
    /\ UNCHANGED <<uplink, asked, acked>>

Acknowledge(d) ==
    /\ sent[d] # None
    /\ acked[d] = 0
    /\ acked' = [acked EXCEPT ![d] = 1]
    /\ UNCHANGED <<uplink, asked, sent>>

Next ==
    \/ \E u \in Uplink : Publish(u)
    \/ \E d \in Downlink : Ask(d) \/ SendAnswer(d) \/ Acknowledge(d)
    \/ \E d \in Downlink, device \in Device : SendUnasked(d, device)

Spec == Init /\ [][Next]_vars
=============================================================================
