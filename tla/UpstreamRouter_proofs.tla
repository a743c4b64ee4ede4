----------------------- MODULE UpstreamRouter_proofs -----------------------
(* Proofs about UpstreamRouter, for every value of its constants.           *)
EXTENDS UpstreamRouter, TLAPS, FiniteSetTheorems

(***************************************************************************)
(* The inductive invariant: where a MIC may be found on its way from the    *)
(* challenge to the RAN.  It verifies before it is published, and it is     *)
(* published before it is in a result, in the ack cache, in a resolved      *)
(* future or in the send of an answer.                                      *)
(***************************************************************************)
CandPath ==
    \A t \in Tx, m \in Mic :
        /\ cand[t][m] # "none" => payload[t] \in Corr
        /\ cand[t][m] = "publishing" => m \in Genuine[payload[t]]
        /\ cand[t][m] \in {"solved", "sendAck"} => m \in published[payload[t]]
        /\ cand[t][m] \in Sending =>
              target[t][m] \in Tx /\ payload[target[t][m]] = payload[t]

CachePath ==
    \A c \in Corr :
        /\ corrTx[c] # None => payload[corrTx[c]] = c
        /\ acks[c] # None => acks[c] \in published[c]

DupPath ==
    \A t \in Tx :
        /\ dup[t] # "none" => payload[t] \in Corr
        /\ dup[t] \in {"replying", "solved", "blockedSolved"} =>
              reply[t] \in published[payload[t]]

IInv == TypeOK /\ CandPath /\ CachePath /\ DupPath

LEMMA CandStates ==
    /\ {"none", "queued", "publishing", "solved", "counted", "done", "lost"} \subseteq CandState
    /\ Refusal \subseteq CandState
    /\ Sending \subseteq CandState
  BY DEF CandState

LEMMA DupStates ==
    {"none", "done", "dropped", "blocked", "waiting", "expired", "orphan", "timedOut",
     "solved", "replying", "blockedSolved"} = DupState
  BY DEF DupState, InWaiters, HoldsSlot, InLoop

LEMMA Answers ==
    /\ \A m \in Mic : Ack(m) \in Answer
    /\ Reject("MICFailed") \in Answer
    /\ Reject("Other") \in Answer
  BY DEF Answer

LEMMA InitInvariant == Init => IInv
<1> SUFFICES ASSUME Init PROVE IInv
  OBVIOUS
<1>1. TypeOK
  <2>1. PoolSize \in Nat /\ <<>> \in Seq(Answer)
    BY ConstantsAssumption
  <2>2. "none" \in CandState /\ "none" \in DupState
    BY CandStates, DupStates
  <2> QED
    BY <2>1, <2>2 DEF Init, TypeOK
<1>2. CandPath
  BY DEF Init, CandPath, Sending
<1>3. CachePath
  BY DEF Init, CachePath
<1>4. DupPath
  BY DEF Init, DupPath
<1> QED
  BY <1>1, <1>2, <1>3, <1>4 DEF IInv

LEMMA NextInvariant == IInv /\ [Next]_vars => IInv'
<1> SUFFICES ASSUME IInv, [Next]_vars PROVE IInv'
  OBVIOUS
<1> USE DEF IInv
<1>1. ASSUME NEW t \in Tx, NEW c \in Corr, NEW challenge \in SUBSET Mic,
            ReceiveNew(t, c, challenge)
     PROVE  IInv'
  <2> USE <1>1 DEF ReceiveNew
  <2>5. Cardinality(challenge) \in Int
    BY ConstantsAssumption, FS_CardinalityType, FS_Subset
  <2>6. /\ corrTx' \in [Corr -> Tx \cup {None}]
        /\ corrTx'[c] = t
        /\ \A k \in Corr \ {c} : corrTx'[k] = corrTx[k] \/ corrTx'[k] = None
    BY DEF TypeOK, Stored
  <2>1. TypeOK'
    BY <2>5, <2>6, CandStates DEF TypeOK
  <2>2. CandPath'
    BY NoneAssumption DEF TypeOK, CandPath, Sending
  <2>3. CachePath'
    BY <2>6, NoneAssumption DEF TypeOK, CachePath
  <2>4. DupPath'
    BY NoneAssumption DEF TypeOK, DupPath
  <2> QED
    BY <2>1, <2>2, <2>3, <2>4
<1>2. ASSUME NEW t \in Tx, NEW c \in Corr, NEW challenge \in SUBSET Mic,
            ReceiveMalformed(t, c, challenge)
     PROVE  IInv'
  <2> USE <1>2 DEF ReceiveMalformed
  <2>5. Cardinality(challenge) \in Int
    BY ConstantsAssumption, FS_CardinalityType, FS_Subset
  <2>6. /\ corrTx' \in [Corr -> Tx \cup {None}]
        /\ corrTx'[c] = t
        /\ \A k \in Corr \ {c} : corrTx'[k] = corrTx[k] \/ corrTx'[k] = None
    BY DEF TypeOK, Stored
  <2>7. /\ payload'[t] = c
        /\ \A u \in Tx : payload[u] # None => payload'[u] = payload[u]
        /\ UNCHANGED <<acks, published>>
    BY DEF TypeOK
  <2>1. TypeOK'
    BY <2>5, <2>6 DEF TypeOK
  <2>2. CandPath'
    BY NoneAssumption DEF TypeOK, CandPath, Sending
  <2>3. CachePath'
    <3> HIDE <1>2
    <3> QED
      BY <2>6, <2>7, NoneAssumption DEF TypeOK, CachePath
  <2>4. DupPath'
    BY NoneAssumption DEF TypeOK, DupPath
  <2> QED
    BY <2>1, <2>2, <2>3, <2>4
<1>3. ASSUME NEW t \in Tx, NEW c \in Corr, ReceiveSolved(t, c)
     PROVE  IInv'
  <2> USE <1>3 DEF ReceiveSolved
  <2>1. TypeOK'
    BY DupStates DEF TypeOK
  <2>2. CandPath'
    BY NoneAssumption DEF TypeOK, CandPath, Sending
  <2>3. CachePath'
    BY NoneAssumption DEF TypeOK, CachePath
  <2>4. DupPath'
    BY NoneAssumption DEF TypeOK, CachePath, DupPath, Known
  <2> QED
    BY <2>1, <2>2, <2>3, <2>4
<1>4. ASSUME NEW t \in Tx, NEW c \in Corr, ReceivePending(t, c)
     PROVE  IInv'
  <2> USE <1>4 DEF ReceivePending
  <2>1. TypeOK'
    <3>1. slots' \in Nat
      BY DEF TypeOK, SlotFree
    <3>2. dup' \in [Tx -> DupState]
      BY DupStates DEF TypeOK
    <3> QED
      BY <3>1, <3>2 DEF TypeOK
  <2>2. CandPath'
    BY NoneAssumption DEF TypeOK, CandPath, Sending
  <2>3. CachePath'
    BY NoneAssumption DEF TypeOK, CachePath
  <2>4. DupPath'
    BY NoneAssumption DEF TypeOK, CachePath, DupPath, Known
  <2> QED
    BY <2>1, <2>2, <2>3, <2>4
<1>5. ASSUME NEW t \in Tx, Unblock(t)
     PROVE  IInv'
  <2> USE <1>5 DEF Unblock
  <2>1. TypeOK'
    <3>1. slots' \in Nat
      BY DEF TypeOK, SlotFree
    <3>2. dup' \in [Tx -> DupState]
      BY DupStates DEF TypeOK
    <3> QED
      BY <3>1, <3>2 DEF TypeOK
  <2>2. CandPath'
    BY DEF CandPath
  <2>3. CachePath'
    BY DEF CachePath
  <2>4. DupPath'
    BY DEF TypeOK, DupPath
  <2> QED
    BY <2>1, <2>2, <2>3, <2>4
<1>6. ASSUME NEW t \in Tx, Replied(t)
     PROVE  IInv'
  <2> USE <1>6 DEF Replied
  <2>1. TypeOK'
    <3>1. Ack(reply[t]) \in Answer
      BY Answers DEF TypeOK, DupPath
    <3>2. sent' \in [Tx -> Seq(Answer)]
      BY <3>1 DEF TypeOK
    <3> QED
      BY <3>2, DupStates DEF TypeOK
  <2>2. CandPath'
    BY DEF CandPath
  <2>3. CachePath'
    BY DEF CachePath
  <2>4. DupPath'
    BY DEF TypeOK, DupPath
  <2> QED
    BY <2>1, <2>2, <2>3, <2>4
<1>7. ASSUME Disconnect
     PROVE  IInv'
  <2> USE <1>7 DEF Disconnect
  <2>1. TypeOK'
    BY DupStates DEF TypeOK
  <2>2. CandPath'
    BY DEF CandPath
  <2>3. CachePath'
    BY DEF CachePath
  <2>4. DupPath'
    BY DEF TypeOK, DupPath
  <2> QED
    BY <2>1, <2>2, <2>3, <2>4
<1>8. ASSUME Reconnect
     PROVE  IInv'
  <2> USE <1>8 DEF Reconnect
  <2>1. TypeOK'
    BY DEF TypeOK
  <2>2. CandPath'
    BY DEF CandPath
  <2>3. CachePath'
    BY DEF CachePath
  <2>4. DupPath'
    BY DEF DupPath
  <2> QED
    BY <2>1, <2>2, <2>3, <2>4
<1>9. ASSUME NEW t \in Tx, NEW m \in Mic, Refuse(t, m)
     PROVE  IInv'
  <2> USE <1>9 DEF Refuse
  <2>1. TypeOK'
    BY CandStates DEF TypeOK, Refusals, Refusal
  <2>2. CandPath'
    BY DEF TypeOK, CandPath, Sending, Refusals
  <2>3. CachePath'
    BY DEF CachePath
  <2>4. DupPath'
    BY DEF DupPath
  <2> QED
    BY <2>1, <2>2, <2>3, <2>4
<1>10. ASSUME NEW t \in Tx, NEW m \in Mic, StartPublish(t, m)
     PROVE  IInv'
  <2> USE <1>10 DEF StartPublish
  <2>1. TypeOK'
    BY CandStates DEF TypeOK
  <2>2. CandPath'
    BY DEF TypeOK, CandPath, Sending, Verifies
  <2>3. CachePath'
    BY DEF CachePath
  <2>4. DupPath'
    BY DEF DupPath
  <2> QED
    BY <2>1, <2>2, <2>3, <2>4
<1>11. ASSUME NEW t \in Tx, NEW m \in Mic, Published(t, m)
     PROVE  IInv'
  <2> USE <1>11 DEF Published
  <2>5. \A u \in Tx, k \in Mic :
           cand'[u][k] = IF u = t /\ k = m THEN "solved" ELSE cand[u][k]
    BY DEF TypeOK
  <2>6. /\ published' \in [Corr -> SUBSET Mic]
        /\ \A c \in Corr : published[c] \subseteq published'[c]
        /\ m \in published'[payload[t]]
    BY DEF TypeOK, CandPath
  <2>1. TypeOK'
    BY <2>6, CandStates DEF TypeOK
  <2>2. CandPath'
    BY <2>5, <2>6 DEF CandPath, Sending
  <2>3. CachePath'
    BY <2>6 DEF TypeOK, CachePath
  <2>4. DupPath'
    BY <2>6 DEF TypeOK, DupPath
  <2> QED
    BY <2>1, <2>2, <2>3, <2>4
<1>12. ASSUME NEW t \in Tx, NEW m \in Mic, PublishFails(t, m)
     PROVE  IInv'
  <2> USE <1>12 DEF PublishFails
  <2>5. \A u \in Tx, k \in Mic :
           cand'[u][k] = IF u = t /\ k = m THEN "lost" ELSE cand[u][k]
    BY DEF TypeOK
  <2>6. /\ published' \in [Corr -> SUBSET Mic]
        /\ \A c \in Corr : published[c] \subseteq published'[c]
    <3>1. CASE published' = published
      BY <3>1 DEF TypeOK
    <3>2. CASE published' = [published EXCEPT ![payload[t]] = @ \cup {m}]
      BY <3>2 DEF TypeOK, CandPath
    <3> QED
      BY <3>1, <3>2
  <2>1. TypeOK'
    BY <2>6, CandStates DEF TypeOK
  <2>2. CandPath'
    BY <2>5, <2>6 DEF CandPath, Sending
  <2>3. CachePath'
    BY <2>6 DEF TypeOK, CachePath
  <2>4. DupPath'
    BY <2>6 DEF TypeOK, DupPath
  <2> QED
    BY <2>1, <2>2, <2>3, <2>4
<1>13. ASSUME NEW t \in Tx, NEW m \in Mic, IgnoreResult(t, m)
     PROVE  IInv'
  <2> USE <1>13 DEF IgnoreResult
  <2>5. \A u \in Tx, k \in Mic :
           cand'[u][k] = IF u = t /\ k = m THEN "done" ELSE cand[u][k]
    BY DEF TypeOK
  <2>1. TypeOK'
    BY CandStates DEF TypeOK
  <2>2. CandPath'
    BY <2>5 DEF CandPath, Sending, Refusal
  <2>3. CachePath'
    BY DEF CachePath
  <2>4. DupPath'
    BY DEF DupPath
  <2> QED
    BY <2>1, <2>2, <2>3, <2>4
<1>14. ASSUME NEW t \in Tx, NEW m \in Mic, HandleAck(t, m)
     PROVE  IInv'
  <2> USE <1>14 DEF HandleAck
  <2>5. /\ payload[t] \in Corr
        /\ m \in published[payload[t]]
        /\ corrTx[payload[t]] \in Tx
        /\ payload[corrTx[payload[t]]] = payload[t]
    BY DEF TypeOK, CandPath, CachePath, Tracked, Known
  <2>6. /\ acks' \in [Corr -> Mic \cup {None}]
        /\ acks'[payload[t]] = m
        /\ \A k \in Corr \ {payload[t]} : acks'[k] = acks[k] \/ acks'[k] = None
    BY <2>5 DEF TypeOK, Stored
  <2>7. /\ cand' \in [Tx -> [Mic -> CandState]]
        /\ target' \in [Tx -> [Mic -> Tx \cup {None}]]
    <3>1. {"sendAck", "lost"} \subseteq CandState
      BY CandStates DEF Sending
    <3>2. \/ /\ cand' = [cand EXCEPT ![t][m] = "sendAck"]
             /\ target' = [target EXCEPT ![t][m] = corrTx[payload[t]]]
          \/ /\ cand' = [cand EXCEPT ![t][m] = "lost"]
             /\ target' = target
      BY Zenon DEF StartSend
    <3> HIDE <1>14
    <3>3. CASE /\ cand' = [cand EXCEPT ![t][m] = "sendAck"]
               /\ target' = [target EXCEPT ![t][m] = corrTx[payload[t]]]
      <4>1. cand' \in [Tx -> [Mic -> CandState]]
        BY <3>1, <3>3 DEF TypeOK
      <4>2. target' \in [Tx -> [Mic -> Tx \cup {None}]]
        BY <2>5, <3>3 DEF TypeOK
      <4> QED
        BY <4>1, <4>2
    <3>4. CASE cand' = [cand EXCEPT ![t][m] = "lost"] /\ target' = target
      BY <3>1, <3>4 DEF TypeOK
    <3> QED
      BY <3>2, <3>3, <3>4
  <2>8. \A u \in Tx, k \in Mic :
           IF u = t /\ k = m
           THEN \/ cand'[u][k] = "sendAck" /\ target'[u][k] = corrTx[payload[t]]
                \/ cand'[u][k] = "lost"
           ELSE cand'[u][k] = cand[u][k] /\ target'[u][k] = target[u][k]
    BY DEF TypeOK, StartSend
  <2>1. TypeOK'
    BY <2>6, <2>7 DEF TypeOK
  <2>2. CandPath'
    BY <2>5, <2>8 DEF CandPath, Sending
  <2>3. CachePath'
    BY <2>5, <2>6 DEF TypeOK, CachePath
  <2>4. DupPath'
    BY DEF DupPath
  <2> QED
    BY <2>1, <2>2, <2>3, <2>4
<1>15. ASSUME NEW t \in Tx, NEW m \in Mic, HandleLastTry(t, m)
     PROVE  IInv'
  <2> USE <1>15 DEF HandleLastTry
  <2>5. /\ payload[t] \in Corr
        /\ corrTx[payload[t]] \in Tx
        /\ payload[corrTx[payload[t]]] = payload[t]
    BY DEF TypeOK, CandPath, CachePath, Tracked, Known
  <2>7. /\ cand' \in [Tx -> [Mic -> CandState]]
        /\ target' \in [Tx -> [Mic -> Tx \cup {None}]]
    <3>1. {"sendMICFailed", "lost"} \subseteq CandState
      BY CandStates DEF Sending
    <3>2. \/ /\ cand' = [cand EXCEPT ![t][m] = "sendMICFailed"]
             /\ target' = [target EXCEPT ![t][m] = corrTx[payload[t]]]
          \/ /\ cand' = [cand EXCEPT ![t][m] = "lost"]
             /\ target' = target
      BY Zenon DEF StartSend
    <3> HIDE <1>15
    <3>3. CASE /\ cand' = [cand EXCEPT ![t][m] = "sendMICFailed"]
               /\ target' = [target EXCEPT ![t][m] = corrTx[payload[t]]]
      <4>1. cand' \in [Tx -> [Mic -> CandState]]
        BY <3>1, <3>3 DEF TypeOK
      <4>2. target' \in [Tx -> [Mic -> Tx \cup {None}]]
        BY <2>5, <3>3 DEF TypeOK
      <4> QED
        BY <4>1, <4>2
    <3>4. CASE cand' = [cand EXCEPT ![t][m] = "lost"] /\ target' = target
      BY <3>1, <3>4 DEF TypeOK
    <3> QED
      BY <3>2, <3>3, <3>4
  <2>8. \A u \in Tx, k \in Mic :
           IF u = t /\ k = m
           THEN \/ cand'[u][k] = "sendMICFailed" /\ target'[u][k] = corrTx[payload[t]]
                \/ cand'[u][k] = "lost"
           ELSE cand'[u][k] = cand[u][k] /\ target'[u][k] = target[u][k]
    BY DEF TypeOK, StartSend
  <2>1. TypeOK'
    BY <2>7 DEF TypeOK
  <2>2. CandPath'
    BY <2>5, <2>8 DEF CandPath, Sending
  <2>3. CachePath'
    BY DEF CachePath
  <2>4. DupPath'
    BY DEF DupPath
  <2> QED
    BY <2>1, <2>2, <2>3, <2>4
<1>16. ASSUME NEW t \in Tx, NEW m \in Mic, HandleRefusal(t, m)
     PROVE  IInv'
  <2> USE <1>16 DEF HandleRefusal
  <2>5. /\ payload[t] \in Corr
        /\ corrTx[payload[t]] \in Tx
        /\ payload[corrTx[payload[t]]] = payload[t]
    BY DEF TypeOK, CandPath, CachePath, Tracked, Known
  <2>7. /\ cand' \in [Tx -> [Mic -> CandState]]
        /\ target' \in [Tx -> [Mic -> Tx \cup {None}]]
    <3>1. {"sendOther", "lost"} \subseteq CandState
      BY CandStates DEF Sending
    <3>2. \/ /\ cand' = [cand EXCEPT ![t][m] = "sendOther"]
             /\ target' = [target EXCEPT ![t][m] = corrTx[payload[t]]]
          \/ /\ cand' = [cand EXCEPT ![t][m] = "lost"]
             /\ target' = target
      BY Zenon DEF StartSend
    <3> HIDE <1>16
    <3>3. CASE /\ cand' = [cand EXCEPT ![t][m] = "sendOther"]
               /\ target' = [target EXCEPT ![t][m] = corrTx[payload[t]]]
      <4>1. cand' \in [Tx -> [Mic -> CandState]]
        BY <3>1, <3>3 DEF TypeOK
      <4>2. target' \in [Tx -> [Mic -> Tx \cup {None}]]
        BY <2>5, <3>3 DEF TypeOK
      <4> QED
        BY <4>1, <4>2
    <3>4. CASE cand' = [cand EXCEPT ![t][m] = "lost"] /\ target' = target
      BY <3>1, <3>4 DEF TypeOK
    <3> QED
      BY <3>2, <3>3, <3>4
  <2>8. \A u \in Tx, k \in Mic :
           IF u = t /\ k = m
           THEN \/ cand'[u][k] = "sendOther" /\ target'[u][k] = corrTx[payload[t]]
                \/ cand'[u][k] = "lost"
           ELSE cand'[u][k] = cand[u][k] /\ target'[u][k] = target[u][k]
    BY DEF TypeOK, StartSend
  <2>1. TypeOK'
    BY <2>7 DEF TypeOK
  <2>2. CandPath'
    BY <2>5, <2>8 DEF CandPath, Sending
  <2>3. CachePath'
    BY DEF CachePath
  <2>4. DupPath'
    BY DEF DupPath
  <2> QED
    BY <2>1, <2>2, <2>3, <2>4
<1>17. ASSUME NEW t \in Tx, NEW m \in Mic, CountTry(t, m)
     PROVE  IInv'
  <2> USE <1>17 DEF CountTry
  <2>1. TypeOK'
    BY CandStates DEF TypeOK, Tracked, CandPath
  <2>2. CandPath'
    BY DEF TypeOK, CandPath, Sending
  <2>3. CachePath'
    BY DEF CachePath
  <2>4. DupPath'
    BY DEF DupPath
  <2> QED
    BY <2>1, <2>2, <2>3, <2>4
<1>18. ASSUME NEW t \in Tx, NEW m \in Mic, Answered(t, m)
     PROVE  IInv'
  <2> USE <1>18 DEF Answered
  <2>1. TypeOK'
    <3>1. AnswerOf(t, m) \in Answer
      BY Answers DEF AnswerOf
    <3>2. sent' \in [Tx -> Seq(Answer)]
      <4>1. target[t][m] \in Tx
        BY DEF CandPath
      <4> QED
        BY <3>1, <4>1 DEF TypeOK
    <3> QED
      BY <3>2, CandStates DEF TypeOK
  <2>2. CandPath'
    BY DEF TypeOK, CandPath, Sending
  <2>3. CachePath'
    BY DEF CachePath
  <2>4. DupPath'
    BY DEF DupPath
  <2> QED
    BY <2>1, <2>2, <2>3, <2>4
<1>19. ASSUME NEW t \in Tx, NEW m \in Mic, SendFails(t, m)
     PROVE  IInv'
  <2> USE <1>19 DEF SendFails
  <2>1. TypeOK'
    BY CandStates DEF TypeOK
  <2>2. CandPath'
    BY DEF TypeOK, CandPath, Sending
  <2>3. CachePath'
    BY DEF CachePath
  <2>4. DupPath'
    BY DEF DupPath
  <2> QED
    BY <2>1, <2>2, <2>3, <2>4
<1>20. ASSUME LoopPass
     PROVE  IInv'
  <2> USE <1>20 DEF LoopPass
  <2>5. PICK R \in SUBSET Resolvable : Resolve(R)
    OBVIOUS
  <2>6. \A u \in R : /\ dup[u] \in InWaiters
                    /\ payload[u] \in Corr
                    /\ acks[payload[u]] \in Mic
                    /\ acks[payload[u]] \in published[payload[u]]
    BY <2>5 DEF Resolvable, InWaiters, DupPath, CachePath, TypeOK
  <2>1. TypeOK'
    BY <2>5, <2>6, DupStates DEF TypeOK, Resolve
  <2>2. CandPath'
    BY DEF CandPath
  <2>3. CachePath'
    BY DEF CachePath
  <2>4. DupPath'
    BY <2>5, <2>6 DEF TypeOK, Resolve, DupPath, InWaiters
  <2> QED
    BY <2>1, <2>2, <2>3, <2>4
<1>21. ASSUME NEW t \in Tx, Timeout(t)
     PROVE  IInv'
  <2> USE <1>21 DEF Timeout
  <2>1. TypeOK'
    BY DupStates DEF TypeOK
  <2>2. CandPath'
    BY DEF CandPath
  <2>3. CachePath'
    BY DEF CachePath
  <2>4. DupPath'
    BY DEF TypeOK, DupPath
  <2> QED
    BY <2>1, <2>2, <2>3, <2>4
<1>22. ASSUME NEW t \in Tx, Discard(t)
     PROVE  IInv'
  <2> USE <1>22 DEF Discard
  <2>1. TypeOK'
    BY DupStates DEF TypeOK
  <2>2. CandPath'
    BY DEF CandPath
  <2>3. CachePath'
    BY DEF CachePath
  <2>4. DupPath'
    BY DEF TypeOK, DupPath
  <2> QED
    BY <2>1, <2>2, <2>3, <2>4
<1>23. ASSUME NEW t \in Tx, SubmitAck(t)
     PROVE  IInv'
  <2> USE <1>23 DEF SubmitAck
  <2>1. TypeOK'
    <3>1. Ack(reply[t]) \in Answer
      BY Answers DEF TypeOK, DupPath
    <3>2. sent' \in [Tx -> Seq(Answer)]
      BY <3>1 DEF TypeOK
    <3> QED
      BY <3>2, DupStates DEF TypeOK, Release
  <2>2. CandPath'
    BY DEF CandPath
  <2>3. CachePath'
    BY DEF CachePath
  <2>4. DupPath'
    BY DEF TypeOK, DupPath, Release
  <2> QED
    BY <2>1, <2>2, <2>3, <2>4
<1>24. ASSUME NEW t \in Tx, SubmitReject(t)
     PROVE  IInv'
  <2> USE <1>24 DEF SubmitReject
  <2>1. TypeOK'
    BY Answers, DupStates DEF TypeOK, DupPath, Release
  <2>2. CandPath'
    BY DEF CandPath
  <2>3. CachePath'
    BY DEF CachePath
  <2>4. DupPath'
    BY DEF TypeOK, DupPath, Release
  <2> QED
    BY <2>1, <2>2, <2>3, <2>4
<1>25. ASSUME NEW t \in Tx, GiveUp(t)
     PROVE  IInv'
  <2> USE <1>25 DEF GiveUp
  <2>1. TypeOK'
    BY DupStates DEF TypeOK, Release
  <2>2. CandPath'
    BY DEF CandPath
  <2>3. CachePath'
    BY DEF CachePath
  <2>4. DupPath'
    BY DEF TypeOK, DupPath, Release
  <2> QED
    BY <2>1, <2>2, <2>3, <2>4
<1>26. CASE UNCHANGED vars
  BY <1>26 DEF vars, TypeOK, CandPath, CachePath, DupPath
<1> QED
  BY <1>1, <1>2, <1>3, <1>4, <1>5, <1>6, <1>7, <1>8, <1>9, <1>10, <1>11, <1>12, <1>13, <1>14, <1>15, <1>16, <1>17, <1>18, <1>19, <1>20, <1>21, <1>22, <1>23, <1>24, <1>25, <1>26
  DEF Next, Receive, FirstStage, SecondStage, Duplicate, Quiescent

\* Every variable keeps its type, in particular the semaphore never goes
\* below zero, for every number of messages, payloads, MICs and slots.
THEOREM TypeCorrect == Spec => []TypeOK
<1>1. Init => IInv
  BY InitInvariant
<1>2. IInv /\ [Next]_vars => IInv'
  BY NextInvariant
<1>3. IInv => TypeOK
  BY DEF IInv
<1> QED
  BY <1>1, <1>2, <1>3, PTL DEF Spec

(***************************************************************************)
(* Every step of the bridge is a step of the contract, or leaves what the   *)
(* RAN and the network server can see as it is.                             *)
(***************************************************************************)
LEMMA ArrivalRefines ==
    ASSUME NEW t \in Tx, NEW c \in Corr, payload[t] = None,
           payload' = [payload EXCEPT ![t] = c], UNCHANGED <<published, sent>>
    PROVE  Contract!Next
  BY DEF Contract!Next, Contract!Arrive

LEMMA AckRefines ==
    ASSUME NEW t \in Tx, NEW m \in Mic, payload[t] \in Corr, m \in published[payload[t]],
           sent' = [sent EXCEPT ![t] = Append(@, Ack(m))], UNCHANGED <<payload, published>>
    PROVE  Contract!Next
  BY DEF Contract!Next, Contract!Acknowledge, Contract!Ack, Ack

LEMMA RejectRefines ==
    ASSUME NEW t \in Tx, NEW code \in {"MICFailed", "Other"}, payload[t] \in Corr,
           sent' = [sent EXCEPT ![t] = Append(@, Reject(code))],
           UNCHANGED <<payload, published>>
    PROVE  Contract!Next
  BY DEF Contract!Next, Contract!Refuse, Contract!Reject, Contract!Codes, Reject

LEMMA PublishRefines ==
    ASSUME NEW t \in Tx, NEW m \in Mic, IInv, cand[t][m] = "publishing",
           published' = [published EXCEPT ![payload[t]] = @ \cup {m}],
           UNCHANGED <<payload, sent>>
    PROVE  Contract!Next
<1>1. payload[t] \in Corr /\ m \in Genuine[payload[t]]
  BY DEF IInv, CandPath
<1> QED
  BY <1>1 DEF Contract!Next, Contract!Publish

LEMMA StepRefines == IInv /\ [Next]_vars => [Contract!Next]_(Contract!vars)
<1> SUFFICES ASSUME IInv, [Next]_vars PROVE [Contract!Next]_(Contract!vars)
  OBVIOUS
<1>1. ASSUME NEW t \in Tx, Receive(t)
      PROVE  Contract!Next
  BY <1>1, ArrivalRefines
  DEF Receive, ReceiveNew, ReceiveMalformed, ReceiveSolved, ReceivePending
<1>2. ASSUME NEW t \in Tx, NEW m \in Mic, Published(t, m) \/ PublishFails(t, m)
      PROVE  [Contract!Next]_(Contract!vars)
  <2>1. \/ published' = [published EXCEPT ![payload[t]] = @ \cup {m}]
        \/ published' = published
    BY <1>2 DEF Published, PublishFails
  <2>2. cand[t][m] = "publishing" /\ UNCHANGED <<payload, sent>>
    BY <1>2 DEF Published, PublishFails
  <2> QED
    BY <2>1, <2>2, PublishRefines DEF Contract!vars
<1>3. ASSUME NEW t \in Tx, Replied(t) \/ SubmitAck(t)
      PROVE  Contract!Next
  <2>1. /\ dup[t] \in {"replying", "solved"}
        /\ sent' = [sent EXCEPT ![t] = Append(@, Ack(reply[t]))]
        /\ UNCHANGED <<payload, published>>
    BY <1>3 DEF Replied, SubmitAck
  <2>2. payload[t] \in Corr /\ reply[t] \in published[payload[t]] /\ reply[t] \in Mic
    BY <2>1 DEF IInv, DupPath, TypeOK
  <2> QED
    BY <2>1, <2>2, AckRefines
<1>4. ASSUME NEW t \in Tx, SubmitReject(t)
      PROVE  Contract!Next
  <2>1. payload[t] \in Corr
    BY <1>4 DEF SubmitReject, IInv, DupPath
  <2> QED
    BY <1>4, <2>1, RejectRefines DEF SubmitReject
<1>5. ASSUME NEW t \in Tx, NEW m \in Mic, Answered(t, m)
      PROVE  Contract!Next
  <2> DEFINE u == target[t][m]
  <2>1. /\ u \in Tx
        /\ payload[u] = payload[t]
        /\ payload[u] \in Corr
    BY <1>5 DEF Answered, IInv, CandPath, Sending
  <2>2. CASE cand[t][m] = "sendAck"
    <3>1. m \in published[payload[u]]
      BY <2>1, <2>2 DEF IInv, CandPath
    <3>2. AnswerOf(t, m) = Ack(m)
      BY <2>2 DEF AnswerOf
    <3> QED
      BY <1>5, <2>1, <3>1, <3>2, AckRefines DEF Answered
  <2>3. CASE cand[t][m] # "sendAck"
    <3>1. PICK code \in {"MICFailed", "Other"} : AnswerOf(t, m) = Reject(code)
      BY <2>3 DEF AnswerOf
    <3> QED
      BY <1>5, <2>1, <3>1, RejectRefines DEF Answered
  <2> QED
    BY <2>2, <2>3
<1>6. ASSUME NEW t \in Tx,
             Unblock(t) \/ Timeout(t) \/ Discard(t) \/ GiveUp(t)
      PROVE  UNCHANGED Contract!vars
  BY <1>6 DEF Unblock, Timeout, Discard, GiveUp, Contract!vars
<1>7. ASSUME NEW t \in Tx, NEW m \in Mic,
             \/ Refuse(t, m) \/ StartPublish(t, m) \/ IgnoreResult(t, m)
             \/ HandleAck(t, m) \/ HandleLastTry(t, m) \/ CountTry(t, m)
             \/ HandleRefusal(t, m) \/ SendFails(t, m)
      PROVE  UNCHANGED Contract!vars
  BY <1>7 DEF Refuse, StartPublish, IgnoreResult, HandleAck, HandleLastTry, CountTry,
              HandleRefusal, SendFails, Contract!vars
<1>8. ASSUME LoopPass \/ Disconnect \/ Reconnect \/ UNCHANGED vars
      PROVE  UNCHANGED Contract!vars
  BY <1>8 DEF LoopPass, Disconnect, Reconnect, vars, Contract!vars
<1> QED
  BY <1>1, <1>2, <1>3, <1>4, <1>5, <1>6, <1>7, <1>8
  DEF Next, FirstStage, SecondStage, Duplicate, Quiescent

\* The bridge keeps its contract with the RAN: whatever the interleaving, the
\* faults and the evictions, every ack it sends, to an original or to a
\* duplicate, carries a MIC that verifies for that message's payload and that
\* the network server was sent before.
THEOREM RouterImplementsContract == Spec => ImplementsContract
<1>1. Init => IInv /\ Contract!Init
  BY InitInvariant DEF Init, Contract!Init
<1>2. IInv /\ [Next]_vars => IInv'
  BY NextInvariant
<1>3. IInv /\ [Next]_vars => [Contract!Next]_(Contract!vars)
  BY StepRefines
<1> QED
  BY <1>1, <1>2, <1>3, PTL DEF Spec, ImplementsContract, Contract!Spec

-----------------------------------------------------------------------------
(* The submitter pool.                                                      *)

Holders == {t \in Tx : dup[t] \in HoldsSlot}

\* A submitter that starts takes a slot.
LEMMA SlotTaken ==
    ASSUME TypeOK, PoolAccounting, NEW t \in Tx, NEW state \in HoldsSlot,
           dup[t] \notin HoldsSlot, dup' = [dup EXCEPT ![t] = state], slots' = slots - 1
    PROVE  PoolAccounting'
<1>1. Holders' = Holders \cup {t} /\ t \notin Holders
  BY DEF Holders, TypeOK
<1>2. IsFiniteSet(Holders)
  BY ConstantsAssumption, FS_Subset DEF Holders
<1>3. Cardinality(Holders') = Cardinality(Holders) + 1 /\ Cardinality(Holders) \in Nat
  BY <1>1, <1>2, FS_AddElement, FS_CardinalityType
<1> QED
  BY <1>3 DEF PoolAccounting, Holders, TypeOK

\* One that ends gives it back.
LEMMA SlotReturned ==
    ASSUME TypeOK, PoolAccounting, NEW t \in Tx, NEW state, state \notin HoldsSlot,
           dup[t] \in HoldsSlot, Release(t, state)
    PROVE  PoolAccounting'
<1>1. Holders' = Holders \ {t} /\ t \in Holders
  BY DEF Holders, TypeOK, Release
<1>2. IsFiniteSet(Holders)
  BY ConstantsAssumption, FS_Subset DEF Holders
<1>3. Cardinality(Holders') = Cardinality(Holders) - 1 /\ Cardinality(Holders) \in Nat
  BY <1>1, <1>2, FS_RemoveElement, FS_CardinalityType
<1> QED
  BY <1>3 DEF PoolAccounting, Holders, TypeOK, Release

\* A duplicate that moves on among the states with a slot, or those without.
LEMMA SlotsKept ==
    ASSUME PoolAccounting, slots' = slots,
           \A t \in Tx : dup'[t] \in HoldsSlot <=> dup[t] \in HoldsSlot
    PROVE  PoolAccounting'
<1>1. Holders' = Holders
  BY DEF Holders
<1> QED
  BY <1>1 DEF PoolAccounting, Holders

\* What receiving a duplicate starts from.
LEMMA FreshIsNoDuplicate ==
    ASSUME IInv, NEW t \in Tx, payload[t] = None
    PROVE  dup[t] = "none"
BY NoneAssumption DEF IInv, DupPath

\* Every step takes, returns or keeps slots as the duplicates it moves do.
LEMMA PoolStep == IInv /\ PoolAccounting /\ [Next]_vars => PoolAccounting'
<1> SUFFICES ASSUME IInv, PoolAccounting, [Next]_vars PROVE PoolAccounting'
  OBVIOUS
<1>0. TypeOK
  BY DEF IInv
<1>1. ASSUME NEW t \in Tx, NEW c \in Corr, ReceiveSolved(t, c)
      PROVE  PoolAccounting'
  <2>1. dup[t] = "none"
    BY <1>1, FreshIsNoDuplicate DEF ReceiveSolved
  <2> QED
    BY <1>0, <1>1, <2>1, SlotsKept DEF ReceiveSolved, TypeOK, HoldsSlot
<1>2. ASSUME NEW t \in Tx, NEW c \in Corr, ReceivePending(t, c)
      PROVE  PoolAccounting'
  <2>1. dup[t] = "none"
    BY <1>2, FreshIsNoDuplicate DEF ReceivePending
  <2>2. CASE dup' = [dup EXCEPT ![t] = "waiting"] /\ slots' = slots - 1
    BY <1>0, <2>1, <2>2, SlotTaken DEF HoldsSlot
  <2>3. CASE dup' = [dup EXCEPT ![t] = "blocked"] /\ slots' = slots
    BY <1>0, <2>1, <2>3, SlotsKept DEF TypeOK, HoldsSlot
  <2> QED
    BY <1>2, <2>2, <2>3 DEF ReceivePending
<1>3. ASSUME NEW t \in Tx, Unblock(t)
      PROVE  PoolAccounting'
  <2>1. PICK state \in HoldsSlot : dup' = [dup EXCEPT ![t] = state]
    BY <1>3 DEF Unblock, HoldsSlot
  <2>2. dup[t] \notin HoldsSlot /\ slots' = slots - 1
    BY <1>3 DEF Unblock, HoldsSlot
  <2> QED
    BY <1>0, <2>1, <2>2, SlotTaken
<1>4. ASSUME NEW t \in Tx, Replied(t) \/ Timeout(t) \/ Discard(t)
      PROVE  PoolAccounting'
  BY <1>0, <1>4, SlotsKept DEF Replied, Timeout, Discard, TypeOK, HoldsSlot
<1>5. ASSUME NEW t \in Tx, SubmitAck(t) \/ SubmitReject(t) \/ GiveUp(t)
      PROVE  PoolAccounting'
  <2>1. PICK state \in {"done", "dropped"} : Release(t, state)
    BY <1>5 DEF SubmitAck, SubmitReject, GiveUp
  <2>2. dup[t] \in HoldsSlot
    BY <1>5 DEF SubmitAck, SubmitReject, GiveUp, HoldsSlot
  <2> QED
    BY <1>0, <2>1, <2>2, SlotReturned DEF HoldsSlot
<1>6. ASSUME LoopPass
      PROVE  PoolAccounting'
  <2>1. PICK R \in SUBSET Resolvable :
            Resolve(R) /\ \A t \in R : dup[t] # "expired"
    <3>1. CASE {t \in Resolvable : dup[t] = "expired"} = {}
      BY <1>6, <3>1 DEF LoopPass
    <3>2. CASE {t \in Resolvable : dup[t] = "expired"} # {}
      <4>1. PICK R \in SUBSET (Resolvable \ {t \in Resolvable : dup[t] = "expired"}) :
                Resolve(R)
        BY <1>6, <3>2 DEF LoopPass
      <4> QED
        BY <4>1
    <3> QED
      BY <3>1, <3>2
  <2>2. \A t \in Tx : dup'[t] \in HoldsSlot <=> dup[t] \in HoldsSlot
    BY <2>1 DEF Resolve, Resolvable, InWaiters, HoldsSlot
  <2> QED
    BY <1>6, <2>2, SlotsKept DEF LoopPass
<1>7. ASSUME Disconnect
      PROVE  PoolAccounting'
  <2>1. \A t \in Tx : dup'[t] \in HoldsSlot <=> dup[t] \in HoldsSlot
    BY <1>7 DEF Disconnect, HoldsSlot
  <2> QED
    BY <1>7, <2>1, SlotsKept DEF Disconnect
<1>8. ASSUME UNCHANGED <<dup, slots>>
      PROVE  PoolAccounting'
  BY <1>8, SlotsKept
<1>9. ASSUME NEW t \in Tx, NEW c \in Corr, NEW challenge \in SUBSET Mic,
             ReceiveNew(t, c, challenge) \/ ReceiveMalformed(t, c, challenge)
      PROVE  UNCHANGED <<dup, slots>>
  BY <1>9 DEF ReceiveNew, ReceiveMalformed
<1>10. ASSUME NEW t \in Tx, NEW m \in Mic, FirstStage(t, m) \/ SecondStage(t, m)
       PROVE  UNCHANGED <<dup, slots>>
  BY <1>10 DEF FirstStage, SecondStage, Refuse, StartPublish, Published, PublishFails,
               IgnoreResult, HandleAck, HandleLastTry, CountTry, HandleRefusal, Answered,
               SendFails
<1>11. ASSUME Reconnect \/ UNCHANGED vars
       PROVE  UNCHANGED <<dup, slots>>
  BY <1>11 DEF Reconnect, vars
<1> QED
  BY <1>1, <1>2, <1>3, <1>4, <1>5, <1>6, <1>7, <1>8, <1>9, <1>10, <1>11
  DEF Next, Receive, Duplicate, Quiescent

\* No slot of the submitter pool is ever lost or given back twice, for every pool
\* size, number of duplicates and order of timeouts, passes and lost connections.
THEOREM PoolAccounted == Spec => []PoolAccounting
<1>1. Init => PoolAccounting
  <2> SUFFICES ASSUME Init PROVE PoolAccounting
    OBVIOUS
  <2>1. Holders = {}
    BY DEF Init, Holders, HoldsSlot
  <2>2. Cardinality(Holders) = 0
    BY <2>1, FS_EmptySet
  <2> QED
    BY <2>2, ConstantsAssumption DEF Init, PoolAccounting, Holders
<1> QED
  BY <1>1, InitInvariant, NextInvariant, PoolStep, PTL DEF Spec

-----------------------------------------------------------------------------
(* Duplicates are answered once.                                            *)

\* Candidates are answered to the original of their payload only.
SendsToOriginals ==
    /\ \A c \in Corr : corrTx[c] # None => dup[corrTx[c]] = "none"
    /\ \A t \in Tx, m \in Mic : cand[t][m] \in Sending => dup[target[t][m]] = "none"

\* A message that has not come, or is being handled as a duplicate, has no answer.
NotYetAnswered ==
    \A t \in Tx : payload[t] = None \/ dup[t] \notin {"none", "done"} => sent[t] = <<>>

AnswerInv == SendsToOriginals /\ NotYetAnswered /\ OneAnswerPerDuplicate

LEMMA AnswerInitially == Init => AnswerInv
<1> SUFFICES ASSUME Init PROVE AnswerInv
  OBVIOUS
<1> QED
  BY DEF Init, AnswerInv, SendsToOriginals, NotYetAnswered, OneAnswerPerDuplicate, Sending

\* Only the loop or its submitter answers a duplicate, and then it is through.
LEMMA AnswerStep == IInv /\ AnswerInv /\ [Next]_vars => AnswerInv'
<1> SUFFICES ASSUME IInv, AnswerInv, [Next]_vars PROVE AnswerInv'
  OBVIOUS
<1>0. TypeOK /\ SendsToOriginals /\ NotYetAnswered /\ OneAnswerPerDuplicate
  BY DEF IInv, AnswerInv
<1>1. ASSUME NEW t \in Tx, NEW c \in Corr, NEW challenge \in SUBSET Mic,
             ReceiveNew(t, c, challenge) \/ ReceiveMalformed(t, c, challenge)
      PROVE  AnswerInv'
  <2>1. dup[t] = "none" /\ dup' = dup /\ sent' = sent /\ target' = target
        /\ payload' = [payload EXCEPT ![t] = c]
    BY <1>1, FreshIsNoDuplicate DEF ReceiveNew, ReceiveMalformed
  <2>2. \A k \in Corr : corrTx'[k] \in {corrTx[k], None, t}
    BY <1>0, <1>1 DEF ReceiveNew, ReceiveMalformed, Stored, TypeOK
  <2>3. \A u \in Tx, m \in Mic : cand'[u][m] \in Sending => cand[u][m] \in Sending
    <3>1. CASE cand' = cand
      BY <3>1
    <3>2. CASE ReceiveNew(t, c, challenge)
      <4>1. /\ \A m \in Mic : cand'[t][m] \in {"queued", "none"}
            /\ \A u \in Tx \ {t} : cand'[u] = cand[u]
        BY <1>0, <3>2 DEF ReceiveNew, TypeOK
      <4> QED
        BY <4>1 DEF Sending
    <3> QED
      BY <1>1, <3>1, <3>2 DEF ReceiveMalformed
  <2>4. SendsToOriginals'
    BY <1>0, <2>1, <2>2, <2>3 DEF SendsToOriginals
  <2>5. \A u \in Tx : payload'[u] = None => payload[u] = None
    BY <1>0, <2>1, NoneAssumption DEF TypeOK
  <2>6. NotYetAnswered' /\ OneAnswerPerDuplicate'
    BY <1>0, <2>1, <2>5 DEF NotYetAnswered, OneAnswerPerDuplicate
  <2> QED
    BY <2>4, <2>6 DEF AnswerInv
<1>2. ASSUME NEW t \in Tx, NEW c \in Corr, ReceiveSolved(t, c) \/ ReceivePending(t, c)
      PROVE  AnswerInv'
  <2>1. payload[t] = None /\ payload' = [payload EXCEPT ![t] = c]
        /\ UNCHANGED <<corrTx, cand, target, sent>>
    BY <1>2 DEF ReceiveSolved, ReceivePending
  <2>2. PICK state \in DupState \ {"none", "done"} : dup' = [dup EXCEPT ![t] = state]
    BY <1>2, DupStates DEF ReceiveSolved, ReceivePending
  <2>3. \A k \in Corr : corrTx[k] # None => corrTx[k] # t
    BY <2>1, NoneAssumption DEF IInv, CachePath
  <2>4. \A u \in Tx, m \in Mic : cand[u][m] \in Sending => target[u][m] # t
    <3> SUFFICES ASSUME NEW u \in Tx, NEW m \in Mic, cand[u][m] \in Sending, target[u][m] = t
                 PROVE  FALSE
      OBVIOUS
    <3>1. cand[u][m] # "none" /\ payload[t] = payload[u]
      BY DEF IInv, CandPath, Sending
    <3> QED
      BY <2>1, <3>1, NoneAssumption DEF IInv, CandPath
  <2>5. SendsToOriginals'
    BY <1>0, <2>1, <2>2, <2>3, <2>4 DEF SendsToOriginals, TypeOK
  <2>6. NotYetAnswered' /\ OneAnswerPerDuplicate'
    BY <1>0, <2>1, <2>2 DEF NotYetAnswered, OneAnswerPerDuplicate, TypeOK
  <2> QED
    BY <2>5, <2>6 DEF AnswerInv
<1>3. ASSUME NEW t \in Tx, Replied(t) \/ SubmitAck(t) \/ SubmitReject(t)
      PROVE  AnswerInv'
  <2>1. /\ dup[t] \in {"replying", "solved", "timedOut"}
        /\ dup' = [dup EXCEPT ![t] = "done"]
        /\ UNCHANGED <<payload, corrTx, cand, target>>
    BY <1>3 DEF Replied, SubmitAck, SubmitReject, Release
  <2>2. \E a : sent' = [sent EXCEPT ![t] = Append(@, a)]
    BY <1>3 DEF Replied, SubmitAck, SubmitReject
  <2>3. sent[t] = <<>>
    BY <1>0, <2>1 DEF NotYetAnswered
  <2>4. Len(sent'[t]) = 1 /\ \A u \in Tx \ {t} : sent'[u] = sent[u]
    BY <1>0, <2>2, <2>3 DEF TypeOK
  <2>5. payload[t] # None
    BY <2>1, FreshIsNoDuplicate
  <2>6. SendsToOriginals'
    BY <1>0, <2>1 DEF SendsToOriginals, TypeOK
  <2>7. \A u \in Tx \ {t} : dup'[u] = dup[u]
    BY <1>0, <2>1 DEF TypeOK
  <2>8. dup'[t] = "done"
    BY <1>0, <2>1 DEF TypeOK
  <2>9. NotYetAnswered'
    BY <1>0, <2>1, <2>4, <2>5, <2>7, <2>8 DEF NotYetAnswered
  <2>10. OneAnswerPerDuplicate'
    <3>1. Len(sent'[t]) <= 1
      BY <2>4
    <3>2. \A u \in Tx \ {t} : dup'[u] # "none" => Len(sent'[u]) <= 1
      BY <1>0, <2>4, <2>7 DEF OneAnswerPerDuplicate
    <3> QED
      BY <3>1, <3>2 DEF OneAnswerPerDuplicate
  <2> QED
    BY <2>6, <2>9, <2>10 DEF AnswerInv
<1>4. ASSUME UNCHANGED <<payload, corrTx, cand, target, sent>>,
             \A t \in Tx : \/ dup'[t] = dup[t]
                           \/ {dup[t], dup'[t]} \cap {"none", "done"} = {}
      PROVE  AnswerInv'
  <2>1. SendsToOriginals'
    <3>1. \A u \in Tx : dup[u] = "none" => dup'[u] = "none"
      BY <1>4
    <3> QED
      BY <1>0, <1>4, <3>1, NoneAssumption DEF SendsToOriginals, TypeOK, IInv, CandPath
  <2>2. NotYetAnswered' /\ OneAnswerPerDuplicate'
    BY <1>0, <1>4 DEF NotYetAnswered, OneAnswerPerDuplicate
  <2> QED
    BY <2>1, <2>2 DEF AnswerInv
<1>5. ASSUME NEW t \in Tx, Unblock(t) \/ Timeout(t) \/ Discard(t) \/ GiveUp(t)
      PROVE  AnswerInv'
  BY <1>0, <1>4, <1>5 DEF Unblock, Timeout, Discard, GiveUp, Release, TypeOK
<1>6. ASSUME LoopPass \/ Disconnect
      PROVE  AnswerInv'
  <2>1. UNCHANGED <<payload, corrTx, cand, target, sent>>
    BY <1>6 DEF LoopPass, Disconnect
  <2>2. CASE Disconnect
    BY <1>4, <2>1, <2>2 DEF Disconnect
  <2>3. CASE LoopPass
    <3>1. PICK R \in SUBSET Resolvable : Resolve(R)
      BY <2>3 DEF LoopPass
    <3> QED
      BY <1>4, <2>1, <3>1 DEF Resolve, Resolvable, InWaiters
  <2> QED
    BY <1>6, <2>2, <2>3
<1>7. ASSUME NEW t \in Tx, NEW m \in Mic, Answered(t, m)
      PROVE  AnswerInv'
  <2> DEFINE u == target[t][m]
  <2>1. /\ u \in Tx /\ dup[u] = "none" /\ payload[u] # None
        /\ \A v \in Tx \ {u} : sent'[v] = sent[v]
    BY <1>0, <1>7, NoneAssumption DEF Answered, IInv, CandPath, SendsToOriginals, TypeOK, Sending
  <2>2. UNCHANGED <<payload, corrTx, dup>>
    BY <1>7 DEF Answered
  <2>3. \A v \in Tx, n \in Mic : cand'[v][n] \in Sending =>
            cand[v][n] \in Sending /\ target'[v][n] = target[v][n]
    BY <1>0, <1>7 DEF Answered, TypeOK, Sending
  <2>4. SendsToOriginals'
    BY <1>0, <2>2, <2>3 DEF SendsToOriginals
  <2>5. NotYetAnswered' /\ OneAnswerPerDuplicate'
    BY <1>0, <2>1, <2>2 DEF NotYetAnswered, OneAnswerPerDuplicate
  <2> QED
    BY <2>4, <2>5 DEF AnswerInv
<1>8. ASSUME UNCHANGED <<payload, corrTx, dup, sent>>,
             \A t \in Tx, m \in Mic : cand'[t][m] \in Sending =>
                 \/ cand[t][m] \in Sending /\ target'[t][m] = target[t][m]
                 \/ corrTx[payload[t]] # None /\ payload[t] \in Corr
                      /\ target'[t][m] = corrTx[payload[t]]
      PROVE  AnswerInv'
  <2>1. SendsToOriginals'
    BY <1>0, <1>8 DEF SendsToOriginals
  <2>2. NotYetAnswered' /\ OneAnswerPerDuplicate'
    BY <1>0, <1>8 DEF NotYetAnswered, OneAnswerPerDuplicate
  <2> QED
    BY <2>1, <2>2 DEF AnswerInv
<1>9. ASSUME NEW t \in Tx, NEW m \in Mic,
             HandleAck(t, m) \/ HandleLastTry(t, m) \/ HandleRefusal(t, m)
      PROVE  AnswerInv'
  <2>1. PICK state \in Sending : StartSend(t, m, state)
    BY <1>9 DEF HandleAck, HandleLastTry, HandleRefusal, Sending
  <2>2. corrTx[payload[t]] # None /\ payload[t] \in Corr
    BY <1>9 DEF HandleAck, HandleLastTry, HandleRefusal, Tracked, Known, IInv, CandPath
  <2>3. UNCHANGED <<payload, corrTx, dup, sent>>
    BY <1>9 DEF HandleAck, HandleLastTry, HandleRefusal
  <2>4. \A u \in Tx, n \in Mic : <<u, n>> # <<t, m>> =>
            cand'[u][n] = cand[u][n] /\ target'[u][n] = target[u][n]
    BY <1>0, <2>1 DEF StartSend, TypeOK
  <2>5. cand'[t][m] \in Sending => target'[t][m] = corrTx[payload[t]]
    BY <1>0, <2>1 DEF StartSend, TypeOK, Sending
  <2> QED
    BY <1>8, <2>2, <2>3, <2>4, <2>5
<1>10. ASSUME NEW t \in Tx, NEW m \in Mic,
              \/ FirstStage(t, m) \/ IgnoreResult(t, m) \/ CountTry(t, m)
              \/ SendFails(t, m)
       PROVE  AnswerInv'
  <2>1. PICK state \in CandState \ Sending : cand' = [cand EXCEPT ![t][m] = state]
    BY <1>10, CandStates DEF FirstStage, Refuse, StartPublish, Published, PublishFails,
         IgnoreResult, CountTry, SendFails, Refusals, Refusal, Sending
  <2>2. UNCHANGED <<payload, corrTx, dup, sent>>
    BY <1>10 DEF FirstStage, Refuse, StartPublish, Published, PublishFails,
         IgnoreResult, CountTry, SendFails
  <2>3. target' = target \/ target' = [target EXCEPT ![t][m] = None]
    BY <1>10 DEF FirstStage, Refuse, StartPublish, Published, PublishFails,
         IgnoreResult, CountTry, SendFails
  <2>4. \A u \in Tx, n \in Mic : cand'[u][n] \in Sending =>
            cand[u][n] \in Sending /\ target'[u][n] = target[u][n]
    BY <1>0, <2>1, <2>3 DEF TypeOK
  <2> QED
    BY <1>8, <2>2, <2>4
<1>11. ASSUME Reconnect \/ UNCHANGED vars
       PROVE  AnswerInv'
  BY <1>8, <1>11 DEF Reconnect, vars
<1> QED
  BY <1>1, <1>2, <1>3, <1>5, <1>6, <1>7, <1>9, <1>10, <1>11
  DEF Next, Receive, Duplicate, SecondStage, Quiescent

\* A duplicate is answered at most once, whatever its timeout races with.
THEOREM DuplicatesAnsweredOnce == Spec => []OneAnswerPerDuplicate
BY AnswerInitially, InitInvariant, NextInvariant, AnswerStep, PTL DEF Spec, AnswerInv
=============================================================================
