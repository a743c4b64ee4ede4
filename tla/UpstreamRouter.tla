--------------------------- MODULE UpstreamRouter ---------------------------
(***************************************************************************)
(* The uplink half of the bridge: RanTrafficRouter's upstream side with its *)
(* UplinkAckSync and submitter Pool (ran.py), the two pipeline stages       *)
(* (manager.py) and TTITrafficRouter.handle_upstream (tti.py).              *)
(*                                                                          *)
(* The RAN sends a payload without its MIC and a list of candidate MICs.    *)
(* The bridge tries every candidate concurrently against the device's key;  *)
(* the genuine one is forwarded to the network server and acked.  The same  *)
(* payload heard again is a duplicate: it is answered from the ack cache or *)
(* parked until a 0.1 s loop finds the ack, for at most 20 s.               *)
(*                                                                          *)
(* asyncio runs each task without interruption between two awaits: an       *)
(* action is one such stretch, and an await that may suspend splits a       *)
(* handler in two actions.                                                  *)
(*                                                                          *)
(* Operators marked "Seeded bug" are not part of the model: put in place of *)
(* the definition below them they show that a property can fail.            *)
(***************************************************************************)
EXTENDS Integers, Sequences, FiniteSets

CONSTANTS
    Tx,         \* transaction ids of the RAN's upstream messages (non-zero)
    Corr,       \* payloads without MIC; their hash is the correlation id
    Mic,        \* MIC candidates of the challenges
    None,       \* Python's None and absent entries
    Genuine,    \* Genuine[c]: the MICs that verify for payload c
    Situation,  \* Situation[c]: what handle_upstream finds out about payload c
    PoolSize,   \* size of _ack_submitters_pool (64 in the code)
    Faulty,     \* connections may break, sends and publishes may raise
    Slow        \* a candidate may outlive the 60 s TTL of its cache entries

Situations == {"listed",       \* the device is in the local list throughout
               "unlisted",     \* it is in no list
               "changing",     \* a device sync may add or remove it meanwhile
               "keyless",      \* a join request of a device with no app_key
               "unsupported",  \* neither a join request nor a data uplink
               "malformed"}    \* PHYPayload.parse raises

ASSUME NoneAssumption ==
    None \notin (Tx \cup Corr \cup Mic \cup Int)

ASSUME ConstantsAssumption ==
    /\ IsFiniteSet(Tx) /\ IsFiniteSet(Mic)
    /\ Genuine \in [Corr -> SUBSET Mic]
    /\ Situation \in [Corr -> Situations]
    /\ PoolSize \in Nat \ {0}
    /\ Faulty \in BOOLEAN
    /\ Slow \in BOOLEAN

VARIABLES
    upstream,   \* self.upstream is a connection (otherwise None)
    payload,    \* payload[t]: the payload of message t, None until it arrives
    corrTx,     \* _upstream_corr_id_to_transaction_id
    tries,      \* _mic_tries_count
    acks,       \* _ack_sync._cache, the MIC of each cached ack
    cand,       \* cand[t][m]: where candidate m of message t is in the pipeline
    target,     \* target[t][m]: the transaction its second stage is answering
    dup,        \* dup[t]: where duplicate t is, with its future and submitter
    reply,      \* reply[t]: MIC of the ack duplicate t is to be answered with
    slots,      \* value of the submitter pool's semaphore
    ackLoop,    \* whether the UplinkAckSync.run task is alive
    published,  \* published[c]: MICs with which c was published to the server
    sent        \* sent[t]: the answers sent to the RAN for message t

vars == <<upstream, payload, corrTx, tries, acks, cand, target,
          dup, reply, slots, ackLoop, published, sent>>

\* Refusals of the first stage, in the order of UplinkRejectReason.
Refusal == {"DeviceNotFound", "MicChallengeFail", "InternalError", "NotSupported"}

\* The second stage suspended in send_upstream_ack or send_upstream_reject.
Sending == {"sendAck", "sendMICFailed", "sendOther"}

CandState == {"none", "queued", "publishing", "solved", "counted", "done", "lost"}
                \cup Refusal \cup Sending

\* The duplicate's future is unresolved or cancelled, and in the set _waiters.
InWaiters == {"blocked", "waiting", "expired", "orphan"}

\* A submitter task holds a slot of the pool.
HoldsSlot == {"waiting", "expired", "timedOut", "solved"}

\* The upstream loop is suspended in the handling of this duplicate.
InLoop == {"replying", "blocked", "blockedSolved"}

DupState == {"none", "done", "dropped"} \cup InWaiters \cup HoldsSlot \cup InLoop

Ack(m) == [verdict |-> "ack", mic |-> m]

Reject(code) == [verdict |-> code, mic |-> None]

Answer == {Ack(m) : m \in Mic} \cup {Reject("MICFailed"), Reject("Other")}

TypeOK ==
    /\ upstream \in BOOLEAN
    /\ payload \in [Tx -> Corr \cup {None}]
    /\ corrTx \in [Corr -> Tx \cup {None}]
    /\ tries \in [Corr -> Int \cup {None}]
    /\ acks \in [Corr -> Mic \cup {None}]
    /\ cand \in [Tx -> [Mic -> CandState]]
    /\ target \in [Tx -> [Mic -> Tx \cup {None}]]
    /\ dup \in [Tx -> DupState]
    /\ reply \in [Tx -> Mic \cup {None}]
    /\ slots \in Nat
    /\ ackLoop \in {"running", "dead"}
    /\ published \in [Corr -> SUBSET Mic]
    /\ sent \in [Tx -> Seq(Answer)]

Init ==
    /\ upstream = FALSE
    /\ payload = [t \in Tx |-> None]
    /\ corrTx = [c \in Corr |-> None]
    /\ tries = [c \in Corr |-> None]
    /\ acks = [c \in Corr |-> None]
    /\ cand = [t \in Tx |-> [m \in Mic |-> "none"]]
    /\ target = [t \in Tx |-> [m \in Mic |-> None]]
    /\ dup = [t \in Tx |-> "none"]
    /\ reply = [t \in Tx |-> None]
    /\ slots = PoolSize
    /\ ackLoop = "running"
    /\ published = [c \in Corr |-> {}]
    /\ sent = [t \in Tx |-> <<>>]

-----------------------------------------------------------------------------
(* Time and the TTL caches *)

InFlight == {"queued", "publishing", "solved"} \cup Refusal \cup Sending

\* Seeded bug: a TTL shorter than the handling of a message.
ShortLived(c) == TRUE

\* Entries live 60 s: an entry outlives every candidate of its payload unless
\* the pipeline is Slow.
MayExpire(c) ==
    Slow \/ \A t \in Tx : payload[t] = c => \A m \in Mic : cand[t][m] \notin InFlight

\* Seeded bug: clean drops the oldest entry without looking at its age.
StoredNoClock(cache, c, value) ==
    {[cache EXCEPT ![old] = None, ![c] = value] : old \in Corr}

\* Cache.set first drops at most one expired entry, then writes its own.
Stored(cache, c, value) ==
    {[cache EXCEPT ![c] = value]} \cup
    {[cache EXCEPT ![old] = None, ![c] = value] : old \in {o \in Corr : MayExpire(o)}}

-----------------------------------------------------------------------------
(* The upstream loop: _handle_upstream_message *)

\* The payload is registered: the message is a duplicate.
Known(c) == corrTx[c] # None

\* Seeded bug: a payload counts as new until its ack is cached.
NotSolved(c) == acks[c] = None

FirstSight(c) == ~Known(c)

\* Seeded bug: the pool has no limit.
NoLimit == TRUE

SlotFree == slots > 0

LoopIdle == upstream /\ \A t \in Tx : dup[t] \notin InLoop

\* First sight of a payload: register it and queue an Uplink per candidate.
ReceiveNew(t, c, challenge) ==
    /\ LoopIdle
    /\ payload[t] = None
    /\ FirstSight(c)
    /\ Situation[c] # "malformed"
    /\ payload' = [payload EXCEPT ![t] = c]
    /\ corrTx' \in Stored(corrTx, c, t)
    /\ tries' = [tries EXCEPT ![c] = Cardinality(challenge)]
    /\ cand' = [cand EXCEPT ![t] =
                   [m \in Mic |-> IF m \in challenge THEN "queued" ELSE "none"]]
    /\ UNCHANGED <<upstream, acks, target, dup, reply, slots, ackLoop, published, sent>>

\* A payload that does not parse is registered before the parser raises in
\* the loop, which ends the connection.
ReceiveMalformed(t, c, challenge) ==
    /\ LoopIdle
    /\ payload[t] = None
    /\ FirstSight(c)
    /\ Situation[c] = "malformed"
    /\ payload' = [payload EXCEPT ![t] = c]
    /\ corrTx' \in Stored(corrTx, c, t)
    /\ tries' = [tries EXCEPT ![c] = Cardinality(challenge)]
    /\ upstream' = FALSE
    /\ UNCHANGED <<acks, cand, target, dup, reply, slots, ackLoop, published, sent>>

\* A duplicate whose ack is cached: the loop itself awaits the send.
ReceiveSolved(t, c) ==
    /\ LoopIdle
    /\ payload[t] = None
    /\ Known(c)
    /\ acks[c] # None
    /\ payload' = [payload EXCEPT ![t] = c]
    /\ dup' = [dup EXCEPT ![t] = "replying"]
    /\ reply' = [reply EXCEPT ![t] = acks[c]]
    /\ UNCHANGED <<upstream, corrTx, tries, acks, cand, target, slots, ackLoop,
                   published, sent>>

\* A duplicate with no ack yet: a future joins _waiters, and a submitter
\* starts when the pool has a slot; when it has none the loop blocks.
ReceivePending(t, c) ==
    /\ LoopIdle
    /\ payload[t] = None
    /\ Known(c)
    /\ acks[c] = None
    /\ payload' = [payload EXCEPT ![t] = c]
    /\ \/ /\ SlotFree
          /\ slots' = slots - 1
          /\ dup' = [dup EXCEPT ![t] = "waiting"]
       \/ /\ ~SlotFree
          /\ dup' = [dup EXCEPT ![t] = "blocked"]
          /\ UNCHANGED slots
    /\ UNCHANGED <<upstream, corrTx, tries, acks, cand, target, reply, ackLoop,
                   published, sent>>

\* The semaphore wakes the loop, which starts the submitter and moves on.
Unblock(t) ==
    /\ SlotFree
    /\ slots' = slots - 1
    /\ \/ dup[t] = "blocked" /\ dup' = [dup EXCEPT ![t] = "waiting"]
       \/ dup[t] = "blockedSolved" /\ dup' = [dup EXCEPT ![t] = "solved"]
    /\ UNCHANGED <<upstream, payload, corrTx, tries, acks, cand, target, reply,
                   ackLoop, published, sent>>

\* Seeded bug: no return after the cached ack, the duplicate is parked as well.
RepliedAndParked(t) ==
    /\ dup[t] = "replying"
    /\ dup' = [dup EXCEPT ![t] = "blocked"]
    /\ sent' = [sent EXCEPT ![t] = Append(@, Ack(reply[t]))]
    /\ UNCHANGED <<upstream, payload, corrTx, tries, acks, cand, target, reply,
                   slots, ackLoop, published>>

\* The loop's own send returns (one that raises ends the connection).
Replied(t) ==
    /\ dup[t] = "replying"
    /\ dup' = [dup EXCEPT ![t] = "done"]
    /\ sent' = [sent EXCEPT ![t] = Append(@, Ack(reply[t]))]
    /\ UNCHANGED <<upstream, payload, corrTx, tries, acks, cand, target, reply,
                   slots, ackLoop, published>>

\* The connection ends: the upstream loop is cancelled wherever it is. A
\* future whose submitter was never started stays in _waiters.
Disconnect ==
    /\ Faulty
    /\ upstream
    /\ upstream' = FALSE
    /\ dup' = [t \in Tx |-> CASE dup[t] = "blocked" -> "orphan"
                              [] dup[t] \in {"blockedSolved", "replying"} -> "dropped"
                              [] OTHER -> dup[t]]
    /\ UNCHANGED <<payload, corrTx, tries, acks, cand, target, reply, slots,
                   ackLoop, published, sent>>

Reconnect ==
    /\ ~upstream
    /\ upstream' = TRUE
    /\ UNCHANGED <<payload, corrTx, tries, acks, cand, target, dup, reply, slots,
                   ackLoop, published, sent>>

-----------------------------------------------------------------------------
(* First stage: TTITrafficRouter.handle_upstream *)

\* Seeded bug: the MIC is not checked.
FindsDevice(c, m) == Situation[c] \in {"listed", "changing"}

\* The device is found and its key verifies the candidate.
Verifies(c, m) == Situation[c] \in {"listed", "changing"} /\ m \in Genuine[c]

\* The reasons handle_upstream may refuse candidate m of payload c with.
Refusals(c, m) ==
    CASE Situation[c] = "unsupported" -> {"NotSupported"}
      [] Situation[c] = "unlisted" -> {"DeviceNotFound"}
      [] Situation[c] = "keyless" -> {"InternalError"}
      [] OTHER -> (IF Situation[c] = "changing" THEN {"DeviceNotFound"} ELSE {})
                    \cup (IF m \in Genuine[c] THEN {} ELSE {"MicChallengeFail"})

Refuse(t, m) ==
    /\ cand[t][m] = "queued"
    /\ \E reason \in Refusals(payload[t], m) :
          cand' = [cand EXCEPT ![t][m] = reason]
    /\ UNCHANGED <<upstream, payload, corrTx, tries, acks, target, dup, reply,
                   slots, ackLoop, published, sent>>

StartPublish(t, m) ==
    /\ cand[t][m] = "queued"
    /\ Verifies(payload[t], m)
    /\ cand' = [cand EXCEPT ![t][m] = "publishing"]
    /\ UNCHANGED <<upstream, payload, corrTx, tries, acks, target, dup, reply,
                   slots, ackLoop, published, sent>>

Published(t, m) ==
    /\ cand[t][m] = "publishing"
    /\ cand' = [cand EXCEPT ![t][m] = "solved"]
    /\ published' = [published EXCEPT ![payload[t]] = @ \cup {m}]
    /\ UNCHANGED <<upstream, payload, corrTx, tries, acks, target, dup, reply,
                   slots, ackLoop, sent>>

\* publish raises, perhaps after the message went out: PipelineNode logs the
\* exception and the candidate has no result.
PublishFails(t, m) ==
    /\ Faulty
    /\ cand[t][m] = "publishing"
    /\ cand' = [cand EXCEPT ![t][m] = "lost"]
    /\ published' \in {published, [published EXCEPT ![payload[t]] = @ \cup {m}]}
    /\ UNCHANGED <<upstream, payload, corrTx, tries, acks, target, dup, reply,
                   slots, ackLoop, sent>>

-----------------------------------------------------------------------------
(* Second stage: RanTrafficRouter.handle_upstream_ack_or_reject *)

\* The handler goes on only with a try count and a transaction for the payload.
Tracked(c) == tries[c] # None /\ Known(c)

\* Seeded bug: the count is compared before the current try is taken off.
LastButOne(c) == tries[c] <= 2

\* Seeded bug: waits for a count that the last candidate never sees.
NoTryLeft(c) == tries[c] = 0

IsLastTry(c) == tries[c] = 1

\* Start answering the tracked transaction; with no connection,
\* self.upstream is None and the handler raises.
StartSend(t, m, state) ==
    IF upstream
    THEN /\ cand' = [cand EXCEPT ![t][m] = state]
         /\ target' = [target EXCEPT ![t][m] = corrTx[payload[t]]]
    ELSE /\ cand' = [cand EXCEPT ![t][m] = "lost"]
         /\ UNCHANGED target

IgnoreResult(t, m) ==
    /\ cand[t][m] \in Refusal \cup {"solved"}
    /\ ~Tracked(payload[t])
    /\ cand' = [cand EXCEPT ![t][m] = "done"]
    /\ UNCHANGED <<upstream, payload, corrTx, tries, acks, target, dup, reply,
                   slots, ackLoop, published, sent>>

HandleAck(t, m) ==
    /\ cand[t][m] = "solved"
    /\ Tracked(payload[t])
    /\ acks' \in Stored(acks, payload[t], m)
    /\ StartSend(t, m, "sendAck")
    /\ UNCHANGED <<upstream, payload, corrTx, tries, dup, reply, slots, ackLoop,
                   published, sent>>

HandleLastTry(t, m) ==
    /\ cand[t][m] = "MicChallengeFail"
    /\ Tracked(payload[t])
    /\ IsLastTry(payload[t])
    /\ StartSend(t, m, "sendMICFailed")
    /\ UNCHANGED <<upstream, payload, corrTx, tries, acks, dup, reply, slots, ackLoop,
                   published, sent>>

\* A failed try that is not the last, or any internal error, is only counted.
CountTry(t, m) ==
    /\ \/ cand[t][m] = "MicChallengeFail" /\ ~IsLastTry(payload[t])
       \/ cand[t][m] = "InternalError"
    /\ Tracked(payload[t])
    /\ tries' = [tries EXCEPT ![payload[t]] = @ - 1]
    /\ cand' = [cand EXCEPT ![t][m] = "counted"]
    /\ UNCHANGED <<upstream, payload, corrTx, acks, target, dup, reply, slots, ackLoop,
                   published, sent>>

HandleRefusal(t, m) ==
    /\ cand[t][m] \in {"DeviceNotFound", "NotSupported"}
    /\ Tracked(payload[t])
    /\ StartSend(t, m, "sendOther")
    /\ UNCHANGED <<upstream, payload, corrTx, tries, acks, dup, reply, slots, ackLoop,
                   published, sent>>

AnswerOf(t, m) ==
    CASE cand[t][m] = "sendAck" -> Ack(m)
      [] cand[t][m] = "sendMICFailed" -> Reject("MICFailed")
      [] OTHER -> Reject("Other")

\* The send returns, and whatever count the payload has now is deleted (a
\* KeyError, if it has none, only ends the task).
Answered(t, m) ==
    /\ cand[t][m] \in Sending
    /\ sent' = [sent EXCEPT ![target[t][m]] = Append(@, AnswerOf(t, m))]
    /\ tries' = [tries EXCEPT ![payload[t]] = None]
    /\ cand' = [cand EXCEPT ![t][m] = "done"]
    /\ target' = [target EXCEPT ![t][m] = None]
    /\ UNCHANGED <<upstream, payload, corrTx, acks, dup, reply, slots, ackLoop, published>>

\* The send raises: the count stays.
SendFails(t, m) ==
    /\ Faulty
    /\ cand[t][m] \in Sending
    /\ cand' = [cand EXCEPT ![t][m] = "lost"]
    /\ target' = [target EXCEPT ![t][m] = None]
    /\ UNCHANGED <<upstream, payload, corrTx, tries, acks, dup, reply, slots, ackLoop,
                   published, sent>>

-----------------------------------------------------------------------------
(* Duplicates: UplinkAckSync and _submit_ack_when_available *)

\* The futures of _waiters for whose payload an ack is cached.
Resolvable == {t \in Tx : dup[t] \in InWaiters /\ acks[payload[t]] # None}

Resolve(R) ==
    /\ dup' = [t \in Tx |-> IF t \notin R THEN dup[t]
                            ELSE CASE dup[t] = "waiting" -> "solved"
                                   [] dup[t] = "blocked" -> "blockedSolved"
                                   [] OTHER -> "dropped"]
    /\ reply' = [t \in Tx |-> IF t \in R THEN acks[payload[t]] ELSE reply[t]]

\* One pass of the 0.1 s loop resolves every future it can. set_result on a
\* cancelled future that is not yet discarded raises InvalidStateError: the
\* pass stops where it is and the task of the loop is over.
LoopPass ==
    /\ ackLoop = "running"
    /\ Resolvable # {}
    /\ LET cancelled == {t \in Resolvable : dup[t] = "expired"} IN
          \/ /\ cancelled = {}
             /\ Resolve(Resolvable)
             /\ UNCHANGED ackLoop
          \/ /\ cancelled # {}
             /\ \E R \in SUBSET (Resolvable \ cancelled) : Resolve(R)
             /\ ackLoop' = "dead"
    /\ UNCHANGED <<upstream, payload, corrTx, tries, acks, cand, target, slots,
                   published, sent>>

\* Seeded bug: the future is awaited without a timeout.
NoTimeout(t) == FALSE

\* 20 s are over: wait_for cancels the future, whose callbacks run later.
Timeout(t) ==
    /\ dup[t] = "waiting"
    /\ dup' = [dup EXCEPT ![t] = "expired"]
    /\ UNCHANGED <<upstream, payload, corrTx, tries, acks, cand, target, reply, slots,
                   ackLoop, published, sent>>

\* The done callback discards the future from _waiters.
Discard(t) ==
    /\ dup[t] = "expired"
    /\ dup' = [dup EXCEPT ![t] = "timedOut"]
    /\ UNCHANGED <<upstream, payload, corrTx, tries, acks, cand, target, reply, slots,
                   ackLoop, published, sent>>

\* Seeded bug: the slot of a finished submitter is not returned.
KeepSlot(t, state) ==
    /\ dup' = [dup EXCEPT ![t] = state]
    /\ UNCHANGED slots

\* A submitter ends: its slot returns to the pool.
Release(t, state) ==
    /\ dup' = [dup EXCEPT ![t] = state]
    /\ slots' = slots + 1

SubmitAck(t) ==
    /\ dup[t] = "solved"
    /\ upstream
    /\ Release(t, "done")
    /\ sent' = [sent EXCEPT ![t] = Append(@, Ack(reply[t]))]
    /\ UNCHANGED <<upstream, payload, corrTx, tries, acks, cand, target, reply,
                   ackLoop, published>>

SubmitReject(t) ==
    /\ dup[t] = "timedOut"
    /\ upstream
    /\ Release(t, "done")
    /\ sent' = [sent EXCEPT ![t] = Append(@, Reject("MICFailed"))]
    /\ UNCHANGED <<upstream, payload, corrTx, tries, acks, cand, target, reply,
                   ackLoop, published>>

\* No connection, or the send raises: the duplicate goes unanswered.
GiveUp(t) ==
    /\ dup[t] \in {"solved", "timedOut"}
    /\ Faulty \/ ~upstream
    /\ Release(t, "dropped")
    /\ UNCHANGED <<upstream, payload, corrTx, tries, acks, cand, target, reply,
                   ackLoop, published, sent>>

-----------------------------------------------------------------------------

Receive(t) ==
    \/ \E c \in Corr :
          \/ ReceiveSolved(t, c)
          \/ ReceivePending(t, c)
          \/ \E challenge \in SUBSET Mic \ {{}} :
                \/ ReceiveNew(t, c, challenge)
                \/ ReceiveMalformed(t, c, challenge)

FirstStage(t, m) ==
    \/ Refuse(t, m)
    \/ StartPublish(t, m)
    \/ Published(t, m)
    \/ PublishFails(t, m)

SecondStage(t, m) ==
    \/ IgnoreResult(t, m)
    \/ HandleAck(t, m)
    \/ HandleLastTry(t, m)
    \/ CountTry(t, m)
    \/ HandleRefusal(t, m)
    \/ Answered(t, m)
    \/ SendFails(t, m)

Duplicate(t) ==
    \/ Unblock(t)
    \/ Replied(t)
    \/ Timeout(t)
    \/ Discard(t)
    \/ SubmitAck(t)
    \/ SubmitReject(t)
    \/ GiveUp(t)

\* Every message has arrived and all work on it is over: the bridge idles.
Quiescent ==
    /\ upstream
    /\ \A t \in Tx :
          /\ payload[t] # None
          /\ dup[t] \in {"none", "done", "dropped", "orphan"}
          /\ \A m \in Mic : cand[t][m] \notin InFlight
    /\ UNCHANGED vars

Next ==
    \/ \E t \in Tx : Receive(t) \/ Duplicate(t)
    \/ \E t \in Tx, m \in Mic : FirstStage(t, m) \/ SecondStage(t, m)
    \/ LoopPass
    \/ Disconnect
    \/ Reconnect
    \/ Quiescent

Spec == Init /\ [][Next]_vars

\* asyncio runs every ready task; sends, publishes and timers end; run()
\* reconnects for ever.  Nothing makes a fault or a message happen.
Fairness ==
    /\ \A t \in Tx : WF_vars(Duplicate(t))
    /\ \A t \in Tx, m \in Mic : WF_vars(FirstStage(t, m)) /\ WF_vars(SecondStage(t, m))
    /\ WF_vars(LoopPass)
    /\ WF_vars(Reconnect)

FairSpec == Spec /\ Fairness

-----------------------------------------------------------------------------
(* Safety *)

\* The bridge, seen from the RAN and from the network server: whatever the
\* interleaving, the faults and the evictions, an ack sent for a message (or
\* its duplicate, from the cache or from the parked future) carries a MIC that
\* verifies for that message's payload and was already published.
Contract == INSTANCE UplinkContract WITH payload <- payload, published <- published, sent <- sent

ImplementsContract == Contract!Spec

\* Every slot of the submitter pool is free or held by one live submitter:
\* timeouts, lost connections and raised exceptions leak none.
PoolAccounting ==
    slots + Cardinality({t \in Tx : dup[t] \in HoldsSlot}) = PoolSize

\* A duplicate gets at most one answer, although its timeout races the pass
\* that resolves its future.
OneAnswerPerDuplicate ==
    \A t \in Tx : dup[t] # "none" => Len(sent[t]) <= 1

\* The message a payload was first seen in, as opposed to its duplicates.
Original(t) == payload[t] # None /\ dup[t] = "none"

\* A result in the pipeline belongs to the transaction its payload is
\* registered with, so that it is counted and answered there.  It needs
\* entries that outlive their candidates (~Slow).
ResultsKeepTheirTransaction ==
    \A t \in Tx, m \in Mic :
        /\ cand[t][m] \in InFlight => corrTx[payload[t]] = t
        /\ cand[t][m] \in Sending => target[t][m] = t

\* The try count of a payload is the number of candidates of its transaction
\* that have not been counted as failed: concurrent results, refusals and
\* failed sends neither lose nor repeat a decrement.
TriesCountOutstanding ==
    \A t \in Tx :
        Original(t) /\ corrTx[payload[t]] = t /\ tries[payload[t]] # None
            /\ Situation[payload[t]] # "malformed"
        => tries[payload[t]] =
              Cardinality({m \in Mic : cand[t][m] \notin {"none", "counted"}})

\* A message whose challenge holds a genuine MIC is never rejected with
\* MICFailed, in whatever order the concurrent candidates report.
MICFailedMeansNoneGenuine ==
    \A t \in Tx :
        Original(t) /\ (\E i \in DOMAIN sent[t] : sent[t][i] = Reject("MICFailed"))
        => \A m \in Mic : cand[t][m] # "none" => m \notin Genuine[payload[t]]

\* A payload with one genuine MIC is acked at most once per transaction.
AtMostOneAck ==
    \A t \in Tx :
        payload[t] # None /\ Cardinality(Genuine[payload[t]]) <= 1
        => Cardinality({i \in DOMAIN sent[t] : sent[t][i].verdict = "ack"}) <= 1

-----------------------------------------------------------------------------
(* Liveness *)

\* A publication or a send of message t itself failed, or found no connection.
OwnStepFailed(t) ==
    dup[t] \in {"dropped", "orphan"} \/ \E m \in Mic : cand[t][m] = "lost"

\* Every message is answered, original or duplicate, unless one of its own steps
\* failed: the faults of other messages, a full pool and a dead ack loop cost it
\* nothing.  (Not so if its device lacks the key or its payload does not parse.)
EveryMessageAnswered ==
    \A t \in Tx :
        payload[t] # None ~>
            \/ sent[t] # <<>> \/ OwnStepFailed(t)
            \/ Original(t) /\ Situation[payload[t]] = "malformed"

\* With faults as well, a duplicate's wait ends, even after the ack loop died:
\* it is answered or given up; at worst its future is abandoned by a cancelled
\* loop.
DuplicatesSettle ==
    \A t \in Tx : dup[t] # "none" ~> dup[t] \in {"done", "dropped", "orphan"}

\* A full submitter pool blocks the upstream loop only for a while: when the
\* loop waits for a slot or for its own send, it gets to the next message.
LoopResumes == []<>(\A t \in Tx : dup[t] \notin InLoop)

-----------------------------------------------------------------------------
(* Claims of the source that the code does not keep *)

\* ran.py:267 logs "No solved mic challenge for upstream duplicate found after
\* waiting" for a duplicate it rejects after 20 s: no ack is cached then, except
\* one the running ack loop is about to hand out in its next 0.1 s pass.
TimeoutMeansUnsolved ==
    [][\A t \in Tx : dup[t] = "waiting" /\ dup'[t] = "expired"
                        => acks[payload[t]] = None \/ ackLoop = "running"]_vars

\* ran.py:226 "Means this mic-challenge try is last try": when no try is left,
\* the message has been answered.
LastTryAnswers ==
    \A t \in Tx :
        Original(t) /\ Situation[payload[t]] # "malformed"
            /\ (\A m \in Mic : cand[t][m] \in {"none", "counted"})
        => sent[t] # <<>>
=============================================================================
