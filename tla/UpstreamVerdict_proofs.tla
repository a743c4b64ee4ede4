----------------------- MODULE UpstreamVerdict_proofs -----------------------
(***************************************************************************)
(* The verdicts of the uplink half when no entry of its caches expires      *)
(* before the candidates of its payload are through (~Slow): their results  *)
(* are counted and answered where they belong, and rightly.                 *)
(***************************************************************************)
EXTENDS UpstreamRouter_proofs

\* What a reception does to the registered transactions.
LEMMA Registered ==
    ASSUME IInv, NEW t \in Tx, NEW c \in Corr, corrTx' \in Stored(corrTx, c, t)
    PROVE  /\ corrTx'[c] = t
           /\ \A k \in Corr \ {c} : corrTx'[k] = corrTx[k] \/ (corrTx'[k] = None /\ MayExpire(k))
BY DEF IInv, TypeOK, Stored

\* A message that has not come has no candidates.
LEMMA NoCandidatesYet ==
    ASSUME IInv, NEW t \in Tx, payload[t] = None, NEW m \in Mic
    PROVE  cand[t][m] = "none"
BY NoneAssumption DEF IInv, CandPath

\* The states of a candidate that is not through, one by one.
LEMMA InFlightStates ==
    /\ {"queued", "publishing", "solved", "sendAck", "sendMICFailed", "sendOther",
        "DeviceNotFound", "MicChallengeFail", "InternalError", "NotSupported"} = InFlight
    /\ Sending \subseteq InFlight /\ Refusal \subseteq InFlight
    /\ "none" \notin InFlight
BY DEF InFlight, Refusal, Sending

-----------------------------------------------------------------------------
(* Results keep their transaction.                                          *)

\* A reception leaves the results on their way where they are: an entry they need
\* does not expire.
LEMMA ReceptionKeepsResults ==
    ASSUME ~Slow, IInv, ResultsKeepTheirTransaction,
           NEW t \in Tx, NEW c \in Corr, payload[t] = None, FirstSight(c),
           corrTx' \in Stored(corrTx, c, t), payload' = [payload EXCEPT ![t] = c],
           target' = target,
           \A u \in Tx \ {t} : cand'[u] = cand[u],
           \A m \in Mic : cand'[t][m] \notin Sending
    PROVE  ResultsKeepTheirTransaction'
<1>1. /\ payload'[t] = c
      /\ \A u \in Tx \ {t} : payload'[u] = payload[u]
  BY DEF IInv, TypeOK
<1>2. ASSUME NEW u \in Tx \ {t}, NEW m \in Mic, cand[u][m] \in InFlight
      PROVE  corrTx'[payload[u]] = u
  <2>1. payload[u] \in Corr /\ corrTx[payload[u]] = u
    BY <1>2, InFlightStates DEF ResultsKeepTheirTransaction, IInv, CandPath
  <2>2. payload[u] # c
    BY <2>1, NoneAssumption DEF FirstSight, Known
  <2>3. ~MayExpire(payload[u])
    BY <1>2 DEF MayExpire
  <2> QED
    BY <2>1, <2>2, <2>3, Registered
<1>3. corrTx'[c] = t
  BY Registered
<1> QED
  BY <1>1, <1>2, <1>3, InFlightStates DEF ResultsKeepTheirTransaction

\* Every step keeps the results in flight with their transaction.
LEMMA ResultsStep ==
    ASSUME ~Slow, IInv, ResultsKeepTheirTransaction, [Next]_vars
    PROVE  ResultsKeepTheirTransaction'
<1>1. ASSUME NEW t \in Tx, NEW c \in Corr, NEW challenge \in SUBSET Mic,
             ReceiveNew(t, c, challenge)
      PROVE  ResultsKeepTheirTransaction'
  <2>1. /\ \A u \in Tx \ {t} : cand'[u] = cand[u]
        /\ \A m \in Mic : cand'[t][m] \in {"queued", "none"}
    BY <1>1 DEF ReceiveNew, IInv, TypeOK
  <2> QED
    BY <1>1, <2>1, ReceptionKeepsResults DEF ReceiveNew, Sending
<1>2. ASSUME NEW t \in Tx, NEW c \in Corr, NEW challenge \in SUBSET Mic,
             ReceiveMalformed(t, c, challenge)
      PROVE  ResultsKeepTheirTransaction'
  <2>1. \A m \in Mic : cand'[t][m] = "none"
    BY <1>2, NoCandidatesYet DEF ReceiveMalformed
  <2> QED
    BY <1>2, <2>1, ReceptionKeepsResults DEF ReceiveMalformed, Sending
<1>3. ASSUME NEW t \in Tx, NEW c \in Corr, ReceiveSolved(t, c) \/ ReceivePending(t, c)
      PROVE  ResultsKeepTheirTransaction'
  <2>1. /\ UNCHANGED <<corrTx, cand, target>>
        /\ \A u \in Tx \ {t} : payload'[u] = payload[u]
        /\ \A m \in Mic : cand[t][m] = "none"
    BY <1>3, NoCandidatesYet DEF ReceiveSolved, ReceivePending, IInv, TypeOK
  <2> QED
    BY <2>1, InFlightStates DEF ResultsKeepTheirTransaction
<1>4. ASSUME UNCHANGED <<payload, corrTx, cand, target>>
      PROVE  ResultsKeepTheirTransaction'
  BY <1>4 DEF ResultsKeepTheirTransaction
<1>5. ASSUME NEW t \in Tx, Duplicate(t)
      PROVE  UNCHANGED <<payload, corrTx, cand, target>>
  BY <1>5 DEF Duplicate, Unblock, Replied, Timeout, Discard, SubmitAck, SubmitReject, GiveUp
<1>6. ASSUME LoopPass \/ Disconnect \/ Reconnect \/ Quiescent \/ UNCHANGED vars
      PROVE  UNCHANGED <<payload, corrTx, cand, target>>
  BY <1>6 DEF LoopPass, Disconnect, Reconnect, Quiescent, vars
<1>7. ASSUME NEW t \in Tx, NEW m \in Mic, UNCHANGED <<payload, corrTx>>,
             cand[t][m] \in InFlight,
             \A u \in Tx, n \in Mic : <<u, n>> # <<t, m>> =>
                 cand'[u][n] = cand[u][n] /\ target'[u][n] = target[u][n],
             cand'[t][m] \in Sending => target'[t][m] = corrTx[payload[t]]
      PROVE  ResultsKeepTheirTransaction'
  BY <1>7 DEF ResultsKeepTheirTransaction
<1>8. ASSUME NEW t \in Tx, NEW m \in Mic,
             HandleAck(t, m) \/ HandleLastTry(t, m) \/ HandleRefusal(t, m)
      PROVE  ResultsKeepTheirTransaction'
  <2>1. \E state : StartSend(t, m, state)
    BY <1>8 DEF HandleAck, HandleLastTry, HandleRefusal
  <2>2. UNCHANGED <<payload, corrTx>> /\ cand[t][m] \in InFlight
    BY <1>8, InFlightStates DEF HandleAck, HandleLastTry, HandleRefusal
  <2>3. \A u \in Tx, n \in Mic : <<u, n>> # <<t, m>> =>
            cand'[u][n] = cand[u][n] /\ target'[u][n] = target[u][n]
    BY <2>1 DEF StartSend, IInv, TypeOK
  <2>4. cand'[t][m] \in Sending => target'[t][m] = corrTx[payload[t]]
    BY <2>1 DEF StartSend, IInv, TypeOK, Sending
  <2> QED
    BY <1>7, <2>2, <2>3, <2>4
<1>9. ASSUME NEW t \in Tx, NEW m \in Mic,
             \/ FirstStage(t, m) \/ IgnoreResult(t, m) \/ CountTry(t, m)
             \/ Answered(t, m) \/ SendFails(t, m)
      PROVE  ResultsKeepTheirTransaction'
  <2>1. PICK state \in CandState \ Sending : cand' = [cand EXCEPT ![t][m] = state]
    BY <1>9, CandStates DEF FirstStage, Refuse, StartPublish, Published, PublishFails,
         IgnoreResult, CountTry, Answered, SendFails, Refusals, Refusal, Sending
  <2>2. UNCHANGED <<payload, corrTx>> /\ cand[t][m] \in InFlight
    BY <1>9, InFlightStates DEF FirstStage, Refuse, StartPublish, Published, PublishFails,
         IgnoreResult, CountTry, Answered, SendFails
  <2>3. target' = target \/ target' = [target EXCEPT ![t][m] = None]
    BY <1>9 DEF FirstStage, Refuse, StartPublish, Published, PublishFails,
         IgnoreResult, CountTry, Answered, SendFails
  <2>4. /\ cand'[t][m] = state
        /\ \A u \in Tx, n \in Mic : <<u, n>> # <<t, m>> =>
               cand'[u][n] = cand[u][n] /\ target'[u][n] = target[u][n]
    BY <2>1, <2>3 DEF IInv, TypeOK
  <2> QED
    BY <1>7, <2>1, <2>2, <2>4
<1> QED
  BY <1>1, <1>2, <1>3, <1>4, <1>5, <1>6, <1>8, <1>9 DEF Next, Receive, SecondStage

\* The results of a message are counted and answered where it is registered
\* (ResultsKeepTheirTransaction), for any number of messages and candidates, when no
\* entry expires under them.
THEOREM ResultsKept == ASSUME ~Slow PROVE Spec => []ResultsKeepTheirTransaction
<1>1. Init => ResultsKeepTheirTransaction
  BY InFlightStates DEF Init, ResultsKeepTheirTransaction
<1>2. IInv /\ ResultsKeepTheirTransaction /\ [Next]_vars => ResultsKeepTheirTransaction'
  BY ResultsStep
<1> QED
  BY <1>1, <1>2, InitInvariant, NextInvariant, PTL DEF Spec

-----------------------------------------------------------------------------
(* The try count.                                                           *)

\* The candidates of a message that have not been counted as failed.
Outstanding(t) == {m \in Mic : cand[t][m] \notin {"none", "counted"}}

\* They can be counted.
LEMMA OutstandingFinite ==
    ASSUME NEW t \in Tx
    PROVE  IsFiniteSet(Outstanding(t)) /\ Cardinality(Outstanding(t)) \in Nat
BY ConstantsAssumption, FS_Subset, FS_CardinalityType DEF Outstanding

\* A duplicate does not become an original.
LEMMA DuplicateForEver ==
    ASSUME IInv, [Next]_vars, NEW t \in Tx, dup'[t] = "none"
    PROVE  dup[t] = "none"
<1>1. ASSUME NEW u \in Tx, NEW c \in Corr, ReceiveSolved(u, c) \/ ReceivePending(u, c)
      PROVE  dup[t] = "none"
  BY <1>1 DEF ReceiveSolved, ReceivePending, IInv, TypeOK
<1>2. ASSUME NEW u \in Tx, NEW c \in Corr, NEW challenge \in SUBSET Mic,
             ReceiveNew(u, c, challenge) \/ ReceiveMalformed(u, c, challenge)
      PROVE  dup[t] = "none"
  BY <1>2 DEF ReceiveNew, ReceiveMalformed
<1>3. ASSUME NEW u \in Tx, Duplicate(u)
      PROVE  dup[t] = "none"
  BY <1>3 DEF Duplicate, Unblock, Replied, Timeout, Discard, SubmitAck, SubmitReject, GiveUp,
              Release, IInv, TypeOK
<1>4. ASSUME LoopPass
      PROVE  dup[t] = "none"
  BY <1>4 DEF LoopPass, Resolve
<1>5. ASSUME Disconnect
      PROVE  dup[t] = "none"
  BY <1>5 DEF Disconnect
<1>6. ASSUME NEW u \in Tx, NEW m \in Mic, FirstStage(u, m) \/ SecondStage(u, m)
      PROVE  dup[t] = "none"
  BY <1>6 DEF FirstStage, SecondStage, Refuse, StartPublish, Published, PublishFails,
              IgnoreResult, HandleAck, HandleLastTry, CountTry, HandleRefusal, Answered,
              SendFails
<1>7. ASSUME Reconnect \/ UNCHANGED vars
      PROVE  dup[t] = "none"
  BY <1>7 DEF Reconnect, vars
<1> QED
  BY <1>1, <1>2, <1>3, <1>4, <1>5, <1>6, <1>7 DEF Next, Receive, Quiescent

\* The steps of a candidate other than those that change the count.
LEMMA CandidateMoves ==
    ASSUME IInv, NEW t \in Tx, NEW m \in Mic,
           \/ FirstStage(t, m) \/ IgnoreResult(t, m) \/ HandleAck(t, m)
           \/ HandleLastTry(t, m) \/ HandleRefusal(t, m) \/ Answered(t, m) \/ SendFails(t, m)
    PROVE  \E state \in CandState \ {"none", "counted"} :
               cand[t][m] \in InFlight /\ cand' = [cand EXCEPT ![t][m] = state]
BY InFlightStates, CandStates
DEF FirstStage, Refuse, StartPublish, Published, PublishFails, IgnoreResult, HandleAck,
    HandleLastTry, HandleRefusal, Answered, SendFails, StartSend, Refusals, Refusal, Sending

CountsOutstanding(t) ==
    Original(t) /\ corrTx[payload[t]] = t /\ tries[payload[t]] # None
        /\ Situation[payload[t]] # "malformed"
    => tries[payload[t]] = Cardinality(Outstanding(t))

\* Every step keeps the count of every message that has one.
LEMMA TriesStep ==
    ASSUME ~Slow, IInv, ResultsKeepTheirTransaction, TriesCountOutstanding, [Next]_vars
    PROVE  TriesCountOutstanding'
<1> SUFFICES ASSUME NEW u \in Tx PROVE CountsOutstanding(u)'
  BY DEF TriesCountOutstanding, CountsOutstanding, Outstanding
<1>0. TypeOK /\ CountsOutstanding(u)
  BY DEF IInv, TriesCountOutstanding, CountsOutstanding, Outstanding
<1>1. ASSUME NEW t \in Tx, NEW c \in Corr, NEW challenge \in SUBSET Mic, u # t,
             ReceiveNew(t, c, challenge) \/ ReceiveMalformed(t, c, challenge)
      PROVE  CountsOutstanding(u)'
  <2>1. /\ payload'[u] = payload[u] /\ dup'[u] = dup[u] /\ cand'[u] = cand[u]
        /\ corrTx' \in Stored(corrTx, c, t)
        /\ \A k \in Corr \ {c} : tries'[k] = tries[k]
    BY <1>0, <1>1 DEF ReceiveNew, ReceiveMalformed, TypeOK
  <2>2. ASSUME Original(u)', (corrTx[payload[u]] = u)'
        PROVE  Original(u) /\ payload[u] \in Corr \ {c} /\ corrTx[payload[u]] = u
    BY <1>0, <1>1, <2>1, <2>2, Registered, NoneAssumption DEF Original, TypeOK
  <2> QED
    BY <1>0, <2>1, <2>2 DEF CountsOutstanding, Outstanding
<1>2. ASSUME NEW c \in Corr, NEW challenge \in SUBSET Mic, ReceiveNew(u, c, challenge)
      PROVE  CountsOutstanding(u)'
  <2>1. Outstanding(u)' = challenge
    BY <1>0, <1>2 DEF ReceiveNew, TypeOK, Outstanding
  <2>2. payload'[u] = c /\ tries'[c] = Cardinality(challenge)
    BY <1>0, <1>2 DEF ReceiveNew, TypeOK
  <2> QED
    BY <2>1, <2>2 DEF CountsOutstanding
<1>3. ASSUME NEW c \in Corr, NEW challenge \in SUBSET Mic, ReceiveMalformed(u, c, challenge)
      PROVE  CountsOutstanding(u)'
  BY <1>0, <1>3 DEF ReceiveMalformed, TypeOK, CountsOutstanding
<1>4. ASSUME NEW t \in Tx, NEW c \in Corr, ReceiveSolved(t, c) \/ ReceivePending(t, c)
      PROVE  CountsOutstanding(u)'
  <2>1. CASE u = t
    BY <1>0, <1>4, <2>1 DEF ReceiveSolved, ReceivePending, TypeOK, CountsOutstanding, Original
  <2>2. CASE u # t
    BY <1>0, <1>4, <2>2 DEF ReceiveSolved, ReceivePending, TypeOK, CountsOutstanding, Original,
                            Outstanding
  <2> QED
    BY <2>1, <2>2
<1>5. ASSUME UNCHANGED <<payload, corrTx, tries, cand>>
      PROVE  CountsOutstanding(u)'
  BY <1>0, <1>5, DuplicateForEver DEF CountsOutstanding, Original, Outstanding
<1>6. ASSUME NEW t \in Tx, Duplicate(t)
      PROVE  UNCHANGED <<payload, corrTx, tries, cand>>
  BY <1>6 DEF Duplicate, Unblock, Replied, Timeout, Discard, SubmitAck, SubmitReject, GiveUp
<1>7. ASSUME LoopPass \/ Disconnect \/ Reconnect \/ Quiescent \/ UNCHANGED vars
      PROVE  UNCHANGED <<payload, corrTx, tries, cand>>
  BY <1>7 DEF LoopPass, Disconnect, Reconnect, Quiescent, vars
<1>8. ASSUME NEW t \in Tx, NEW m \in Mic,
             \/ FirstStage(t, m) \/ IgnoreResult(t, m) \/ HandleAck(t, m)
             \/ HandleLastTry(t, m) \/ HandleRefusal(t, m) \/ Answered(t, m) \/ SendFails(t, m)
      PROVE  CountsOutstanding(u)'
  <2>1. UNCHANGED <<payload, corrTx, dup>>
    BY <1>8 DEF FirstStage, Refuse, StartPublish, Published, PublishFails, IgnoreResult,
                HandleAck, HandleLastTry, HandleRefusal, Answered, SendFails
  <2>2. tries' = tries \/ tries' = [tries EXCEPT ![payload[t]] = None]
    BY <1>8 DEF FirstStage, Refuse, StartPublish, Published, PublishFails, IgnoreResult,
                HandleAck, HandleLastTry, HandleRefusal, Answered, SendFails
  <2>3. PICK state \in CandState \ {"none", "counted"} :
            cand[t][m] \in InFlight /\ cand' = [cand EXCEPT ![t][m] = state]
    BY <1>8, CandidateMoves
  <2>4. cand[t][m] \notin {"none", "counted"}
    BY <2>3, InFlightStates
  <2>5. Outstanding(u)' = Outstanding(u)
    BY <1>0, <2>3, <2>4 DEF Outstanding, TypeOK
  <2>6. payload[u] \in Corr /\ tries'[payload[u]] # None => tries'[payload[u]] = tries[payload[u]]
    BY <1>0, <2>2 DEF TypeOK
  <2> QED
    BY <1>0, <2>1, <2>5, <2>6 DEF CountsOutstanding, Original, TypeOK
<1>9. ASSUME NEW t \in Tx, NEW m \in Mic, CountTry(t, m)
      PROVE  CountsOutstanding(u)'
  <2>1. /\ cand[t][m] \in InFlight /\ payload[t] \in Corr
        /\ corrTx[payload[t]] = t /\ tries[payload[t]] # None
        /\ UNCHANGED <<payload, corrTx, dup>>
    BY <1>9, InFlightStates DEF CountTry, Tracked, ResultsKeepTheirTransaction, IInv, CandPath
  <2>2. CASE u = t
    <3>1. m \in Outstanding(t) /\ Outstanding(t)' = Outstanding(t) \ {m}
      BY <1>0, <1>9, <2>1, InFlightStates DEF CountTry, Outstanding, TypeOK
    <3>2. Cardinality(Outstanding(t)') = Cardinality(Outstanding(t)) - 1
      BY <3>1, OutstandingFinite, FS_RemoveElement
    <3>3. tries'[payload[t]] = tries[payload[t]] - 1
      BY <1>0, <1>9, <2>1 DEF CountTry, TypeOK
    <3> QED
      BY <1>0, <2>1, <2>2, <3>2, <3>3 DEF CountsOutstanding, Original
  <2>3. CASE u # t
    <3>1. cand'[u] = cand[u]
      BY <1>0, <1>9, <2>3 DEF CountTry, TypeOK
    <3>2. \A k \in Corr \ {payload[t]} : tries'[k] = tries[k]
      BY <1>0, <1>9 DEF CountTry, TypeOK
    <3>3. Original(u) /\ corrTx[payload[u]] = u => payload[u] \in Corr \ {payload[t]}
      BY <1>0, <2>1, <2>3 DEF Original, TypeOK
    <3> QED
      BY <1>0, <2>1, <3>1, <3>2, <3>3 DEF CountsOutstanding, Original, Outstanding
  <2> QED
    BY <2>2, <2>3
<1> QED
  BY <1>1, <1>2, <1>3, <1>4, <1>5, <1>6, <1>7, <1>8, <1>9 DEF Next, Receive, SecondStage

\* The try count of a payload is the number of its outstanding candidates
\* (TriesCountOutstanding), for challenges of every length and results in every order,
\* when no entry expires under them.
THEOREM TriesCounted == ASSUME ~Slow PROVE Spec => []TriesCountOutstanding
<1>1. Init => TriesCountOutstanding
  BY DEF Init, TriesCountOutstanding, Original
<1>2. IInv /\ ResultsKeepTheirTransaction /\ TriesCountOutstanding /\ [Next]_vars
        => TriesCountOutstanding'
  BY TriesStep
<1> QED
  BY <1>1, <1>2, ResultsKept, InitInvariant, NextInvariant, PTL DEF Spec

-----------------------------------------------------------------------------
(* MICFailed is true.                                                       *)

\* What the state of a candidate says of its MIC and its device.  The answer is
\* started at the last try, when every other candidate has been counted: that is
\* where the try count is needed.
FailuresTrue ==
    \A t \in Tx, m \in Mic :
        /\ cand[t][m] # "none" => Situation[payload[t]] # "malformed"
        /\ cand[t][m] = "MicChallengeFail" =>
              m \notin Genuine[payload[t]] /\ Situation[payload[t]] # "keyless"
        /\ cand[t][m] = "InternalError" => Situation[payload[t]] = "keyless"
        /\ cand[t][m] = "counted" =>
              m \notin Genuine[payload[t]] \/ Situation[payload[t]] = "keyless"

NoneGenuine(t) == \A m \in Mic : cand[t][m] # "none" => m \notin Genuine[payload[t]]

MICFailedIsStartedTrue ==
    \A t \in Tx, m \in Mic : cand[t][m] = "sendMICFailed" => NoneGenuine(t)

\* The first stage finds out the truth, and later steps do not change it.
LEMMA FailuresStep ==
    ASSUME IInv, FailuresTrue, [Next]_vars
    PROVE  FailuresTrue'
<1>0. TypeOK
  BY DEF IInv
<1>1. ASSUME NEW t \in Tx, NEW c \in Corr,
             ReceiveSolved(t, c) \/ ReceivePending(t, c)
                \/ \E challenge \in SUBSET Mic : ReceiveMalformed(t, c, challenge)
      PROVE  FailuresTrue'
  <2>1. /\ payload[t] = None /\ cand' = cand
        /\ \A u \in Tx \ {t} : payload'[u] = payload[u]
    BY <1>0, <1>1 DEF ReceiveSolved, ReceivePending, ReceiveMalformed, TypeOK
  <2>2. \A m \in Mic : cand[t][m] = "none"
    BY <2>1, NoCandidatesYet
  <2> QED
    BY <2>1, <2>2 DEF FailuresTrue
<1>2. ASSUME NEW t \in Tx, NEW c \in Corr, NEW challenge \in SUBSET Mic,
             ReceiveNew(t, c, challenge)
      PROVE  FailuresTrue'
  <2>1. /\ payload'[t] = c /\ Situation[c] # "malformed"
        /\ \A m \in Mic : cand'[t][m] \in {"queued", "none"}
        /\ \A u \in Tx \ {t} : payload'[u] = payload[u] /\ cand'[u] = cand[u]
    BY <1>0, <1>2 DEF ReceiveNew, TypeOK
  <2> QED
    BY <2>1 DEF FailuresTrue
<1>3. ASSUME UNCHANGED <<payload, cand>>
      PROVE  FailuresTrue'
  BY <1>3 DEF FailuresTrue
<1>4. ASSUME NEW t \in Tx, Duplicate(t)
      PROVE  UNCHANGED <<payload, cand>>
  BY <1>4 DEF Duplicate, Unblock, Replied, Timeout, Discard, SubmitAck, SubmitReject, GiveUp
<1>5. ASSUME LoopPass \/ Disconnect \/ Reconnect \/ Quiescent \/ UNCHANGED vars
      PROVE  UNCHANGED <<payload, cand>>
  BY <1>5 DEF LoopPass, Disconnect, Reconnect, Quiescent, vars
<1>6. ASSUME NEW t \in Tx, NEW m \in Mic, FirstStage(t, m) \/ SecondStage(t, m)
      PROVE  FailuresTrue'
  <2>1. UNCHANGED payload /\ cand[t][m] \in InFlight
    BY <1>6, InFlightStates DEF FirstStage, SecondStage, Refuse, StartPublish, Published,
       PublishFails, IgnoreResult, HandleAck, HandleLastTry, CountTry, HandleRefusal,
       Answered, SendFails
  <2>2. cand[t][m] # "none"
    BY <2>1, InFlightStates
  <2>3. PICK state \in CandState : cand' = [cand EXCEPT ![t][m] = state]
    BY <1>6, CandidateMoves, CandStates DEF SecondStage, CountTry
  <2>4. /\ cand'[t][m] = state
        /\ \A u \in Tx, n \in Mic : <<u, n>> # <<t, m>> => cand'[u][n] = cand[u][n]
    BY <1>0, <2>3 DEF TypeOK
  <2>5. CASE state \notin {"MicChallengeFail", "InternalError", "counted"}
    BY <2>1, <2>2, <2>4, <2>5 DEF FailuresTrue
  <2>6. CASE state \in {"MicChallengeFail", "InternalError"}
    <3>1. state \in Refusals(payload[t], m)
      BY <1>0, <1>6, <2>4, <2>6 DEF FirstStage, SecondStage, Refuse, StartPublish, Published,
         PublishFails, IgnoreResult, HandleAck, HandleLastTry, CountTry, HandleRefusal,
         Answered, SendFails, StartSend, TypeOK
    <3> QED
      BY <2>1, <2>2, <2>4, <2>6, <3>1 DEF FailuresTrue, Refusals
  <2>7. CASE state = "counted"
    <3>1. cand[t][m] \in {"MicChallengeFail", "InternalError"}
      BY <1>0, <1>6, <2>4, <2>7, CandidateMoves DEF SecondStage, CountTry, TypeOK
    <3> QED
      BY <2>1, <2>2, <2>4, <2>7, <3>1 DEF FailuresTrue
  <2> QED
    BY <2>5, <2>6, <2>7
<1> QED
  BY <1>1, <1>2, <1>3, <1>4, <1>5, <1>6 DEF Next, Receive

\* Only a reception gives a message candidates, and it has none before.
LEMMA SameCandidates ==
    ASSUME IInv, [Next]_vars, NEW t \in Tx, payload[t] # None
    PROVE  /\ payload'[t] = payload[t]
           /\ \A m \in Mic : cand'[t][m] # "none" <=> cand[t][m] # "none"
<1>0. TypeOK
  BY DEF IInv
<1>1. ASSUME NEW u \in Tx, Receive(u)
      PROVE  payload'[t] = payload[t] /\ cand'[t] = cand[t]
  BY <1>0, <1>1 DEF Receive, ReceiveSolved, ReceivePending, ReceiveNew, ReceiveMalformed, TypeOK
<1>2. ASSUME NEW u \in Tx, Duplicate(u)
      PROVE  UNCHANGED <<payload, cand>>
  BY <1>2 DEF Duplicate, Unblock, Replied, Timeout, Discard, SubmitAck, SubmitReject, GiveUp
<1>3. ASSUME LoopPass \/ Disconnect \/ Reconnect \/ Quiescent \/ UNCHANGED vars
      PROVE  UNCHANGED <<payload, cand>>
  BY <1>3 DEF LoopPass, Disconnect, Reconnect, Quiescent, vars
<1>4. ASSUME NEW u \in Tx, NEW m \in Mic, FirstStage(u, m) \/ SecondStage(u, m)
      PROVE  /\ payload' = payload
             /\ \A n \in Mic : cand'[t][n] # "none" <=> cand[t][n] # "none"
  <2>1. UNCHANGED payload /\ cand[u][m] # "none"
    BY <1>4 DEF FirstStage, SecondStage, Refuse, StartPublish, Published, PublishFails,
       IgnoreResult, HandleAck, HandleLastTry, CountTry, HandleRefusal, Answered, SendFails,
       Refusal, Sending
  <2>2. \E state \in CandState \ {"none"} : cand' = [cand EXCEPT ![u][m] = state]
    BY <1>4, CandidateMoves, CandStates DEF SecondStage, CountTry
  <2> QED
    BY <1>0, <2>1, <2>2 DEF TypeOK
<1> QED
  BY <1>1, <1>2, <1>3, <1>4 DEF Next

\* At its last try a message has no other candidate left.
LEMMA LastTryIsAlone ==
    ASSUME IInv, AnswerInv, ResultsKeepTheirTransaction, TriesCountOutstanding, FailuresTrue,
           NEW t \in Tx, NEW m \in Mic, HandleLastTry(t, m)
    PROVE  NoneGenuine(t)
<1>1. /\ cand[t][m] = "MicChallengeFail" /\ cand[t][m] \in InFlight
      /\ payload[t] \in Corr /\ tries[payload[t]] = 1
      /\ tries[payload[t]] # None
    BY InFlightStates DEF HandleLastTry, Tracked, IsLastTry, IInv, CandPath
<1>2. corrTx[payload[t]] = t /\ t # None
  BY <1>1, NoneAssumption DEF ResultsKeepTheirTransaction
<1>3. Original(t)
  BY <1>1, <1>2, NoneAssumption DEF Original, AnswerInv, SendsToOriginals
<1>4. Cardinality(Outstanding(t)) = 1
  BY <1>1, <1>2, <1>3 DEF TriesCountOutstanding, FailuresTrue, Outstanding
<1>5. Outstanding(t) = {m}
  <2>1. m \in Outstanding(t)
    BY <1>1 DEF Outstanding
  <2> QED
    BY <1>4, <2>1, OutstandingFinite, FS_Singleton
<1>6. \A n \in Mic : cand[t][n] # "none" => n = m \/ cand[t][n] = "counted"
  BY <1>5 DEF Outstanding
<1> QED
  BY <1>1, <1>6 DEF FailuresTrue, NoneGenuine

\* An original is answered by its own candidates only.
LEMMA AnsweredByOwn ==
    ASSUME IInv, AnswerInv, ResultsKeepTheirTransaction, [Next]_vars,
           NEW t \in Tx, dup'[t] = "none", sent'[t] # sent[t]
    PROVE  \E m \in Mic : Answered(t, m) /\ sent'[t] = Append(sent[t], AnswerOf(t, m))
<1>0. TypeOK
  BY DEF IInv
<1>1. dup[t] = "none"
  BY DuplicateForEver
<1>2. ASSUME NEW u \in Tx, Receive(u)
      PROVE  UNCHANGED sent
  BY <1>2 DEF Receive, ReceiveSolved, ReceivePending, ReceiveNew, ReceiveMalformed
<1>3. ASSUME NEW u \in Tx, Duplicate(u)
      PROVE  UNCHANGED sent \/ (dup[u] # "none" /\ \E a : sent' = [sent EXCEPT ![u] = a])
  BY <1>3 DEF Duplicate, Unblock, Replied, Timeout, Discard, SubmitAck, SubmitReject, GiveUp
<1>4. ASSUME LoopPass \/ Disconnect \/ Reconnect \/ Quiescent \/ UNCHANGED vars
      PROVE  UNCHANGED sent
  BY <1>4 DEF LoopPass, Disconnect, Reconnect, Quiescent, vars
<1>5. ASSUME NEW u \in Tx, NEW m \in Mic, FirstStage(u, m) \/ SecondStage(u, m)
      PROVE  UNCHANGED sent \/ Answered(u, m)
  BY <1>5 DEF FirstStage, SecondStage, Refuse, StartPublish, Published, PublishFails,
              IgnoreResult, HandleAck, HandleLastTry, CountTry, HandleRefusal, SendFails
<1>6. PICK u \in Tx, m \in Mic : Answered(u, m)
  <2>1. \A u \in Tx : ~Duplicate(u)
    BY <1>0, <1>1, <1>3 DEF TypeOK
  <2> QED
    BY <1>2, <1>4, <1>5, <2>1 DEF Next
<1>7. target[u][m] = u
  BY <1>6, InFlightStates DEF Answered, ResultsKeepTheirTransaction
<1> QED
  BY <1>0, <1>6, <1>7 DEF Answered, TypeOK

\* MICFailed is started and sent only for a message without a genuine candidate.
LEMMA MICFailedStep ==
    ASSUME IInv, AnswerInv, ResultsKeepTheirTransaction, TriesCountOutstanding, FailuresTrue,
           MICFailedIsStartedTrue, MICFailedMeansNoneGenuine, [Next]_vars
    PROVE  MICFailedIsStartedTrue' /\ MICFailedMeansNoneGenuine'
<1>0. TypeOK
  BY DEF IInv
<1>1. ASSUME NEW t \in Tx, NEW m \in Mic, cand'[t][m] = "sendMICFailed"
      PROVE  cand[t][m] = "sendMICFailed" \/ HandleLastTry(t, m)
  <2>1. ASSUME NEW u \in Tx, Receive(u)
        PROVE  cand[t][m] = "sendMICFailed"
    <3>1. \/ cand' = cand
          \/ /\ \A n \in Mic : cand'[u][n] \in {"queued", "none"}
             /\ \A v \in Tx \ {u} : cand'[v] = cand[v]
      BY <1>0, <2>1 DEF Receive, ReceiveSolved, ReceivePending, ReceiveNew, ReceiveMalformed,
         TypeOK
    <3> QED
      BY <1>1, <3>1
  <2>2. ASSUME NEW u \in Tx, Duplicate(u)
        PROVE  UNCHANGED cand
    BY <2>2 DEF Duplicate, Unblock, Replied, Timeout, Discard, SubmitAck, SubmitReject, GiveUp
  <2>3. ASSUME LoopPass \/ Disconnect \/ Reconnect \/ Quiescent \/ UNCHANGED vars
        PROVE  UNCHANGED cand
    BY <2>3 DEF LoopPass, Disconnect, Reconnect, Quiescent, vars
  <2>4. ASSUME NEW u \in Tx, NEW n \in Mic, FirstStage(u, n) \/ SecondStage(u, n)
        PROVE  cand[t][m] = "sendMICFailed" \/ HandleLastTry(t, m)
    <3>1. CASE HandleLastTry(u, n)
      BY <1>0, <1>1, <3>1 DEF HandleLastTry, StartSend, TypeOK
    <3>2. CASE ~HandleLastTry(u, n)
      <4>1. PICK state \in CandState \ {"sendMICFailed"} :
                cand' = [cand EXCEPT ![u][n] = state]
        BY <2>4, <3>2, CandStates DEF FirstStage, SecondStage, Refuse, StartPublish, Published,
           PublishFails, IgnoreResult, HandleAck, CountTry, HandleRefusal, Answered, SendFails,
           StartSend, Refusals, Refusal, Sending
      <4> QED
        BY <1>0, <1>1, <4>1 DEF TypeOK
    <3> QED
      BY <3>1, <3>2
  <2> QED
    BY <1>1, <2>1, <2>2, <2>3, <2>4 DEF Next
<1>2. ASSUME NEW t \in Tx, payload[t] # None, NoneGenuine(t)
      PROVE  NoneGenuine(t)'
  BY <1>2, SameCandidates DEF NoneGenuine
<1>3. MICFailedIsStartedTrue'
  <2> SUFFICES ASSUME NEW t \in Tx, NEW m \in Mic, cand'[t][m] = "sendMICFailed"
               PROVE  NoneGenuine(t)'
    BY DEF MICFailedIsStartedTrue, NoneGenuine
  <2>1. NoneGenuine(t)
    BY <1>1, LastTryIsAlone DEF MICFailedIsStartedTrue
  <2>2. cand[t][m] # "none"
    BY <1>1 DEF HandleLastTry
  <2>3. payload[t] # None
    BY <2>2, NoneAssumption DEF IInv, CandPath
  <2> QED
    BY <1>2, <2>1, <2>3
<1>4. MICFailedMeansNoneGenuine'
  <2> SUFFICES ASSUME NEW t \in Tx, Original(t)', NEW i \in DOMAIN sent'[t],
                      sent'[t][i] = Reject("MICFailed")
               PROVE  NoneGenuine(t)'
    BY DEF MICFailedMeansNoneGenuine, NoneGenuine, Original, Reject
  <2>1. dup[t] = "none"
    BY DuplicateForEver DEF Original
  <2>2. CASE sent'[t] = sent[t]
    <3>1. payload[t] # None
      BY <1>0, <2>1, <2>2 DEF AnswerInv, NotYetAnswered
    <3>2. NoneGenuine(t)
      BY <2>1, <2>2, <3>1 DEF MICFailedMeansNoneGenuine, NoneGenuine, Original
    <3> QED
      BY <1>2, <3>1, <3>2
  <2>3. CASE sent'[t] # sent[t]
    <3>1. PICK m \in Mic : Answered(t, m) /\ sent'[t] = Append(sent[t], AnswerOf(t, m))
      BY <2>3, AnsweredByOwn DEF Original
    <3>2. payload[t] # None
      BY <3>1, NoneAssumption DEF Answered, Sending, IInv, CandPath
    <3>3. NoneGenuine(t)
      <4>1. CASE i <= Len(sent[t])
        <5>1. i \in DOMAIN sent[t] /\ sent[t][i] = Reject("MICFailed")
          BY <1>0, <3>1, <4>1 DEF TypeOK
        <5> QED
          BY <2>1, <3>2, <5>1 DEF MICFailedMeansNoneGenuine, NoneGenuine, Original
      <4>2. CASE i > Len(sent[t])
        <5>1. AnswerOf(t, m) = Reject("MICFailed")
          BY <1>0, <3>1, <4>2 DEF TypeOK
        <5>2. cand[t][m] = "sendMICFailed"
          BY <3>1, <5>1 DEF Answered, AnswerOf, Ack, Reject, Sending
        <5> QED
          BY <5>2 DEF MICFailedIsStartedTrue
      <4>3. i \in Nat /\ Len(sent[t]) \in Nat
        <5>1. sent[t] \in Seq(Answer) /\ AnswerOf(t, m) \in Answer
          BY <1>0, Answers DEF TypeOK, AnswerOf
        <5>2. sent'[t] \in Seq(Answer)
          BY <3>1, <5>1
        <5> QED
          BY <5>1, <5>2
      <4> QED
        BY <4>1, <4>2, <4>3
    <3> QED
      BY <1>2, <3>2, <3>3
  <2> QED
    BY <2>2, <2>3
<1> QED
  BY <1>3, <1>4

\* A message with a genuine candidate is never rejected with MICFailed
\* (MICFailedMeansNoneGenuine), in whatever order its candidates, of any number,
\* report, when no entry expires under them.
THEOREM NoWrongMICFailed == ASSUME ~Slow PROVE Spec => []MICFailedMeansNoneGenuine
<1> DEFINE MICFailedInv ==
        FailuresTrue /\ MICFailedIsStartedTrue /\ MICFailedMeansNoneGenuine
<1>1. Init => MICFailedInv
  BY DEF Init, FailuresTrue, MICFailedIsStartedTrue, MICFailedMeansNoneGenuine, Original
<1>3. IInv /\ AnswerInv /\ ResultsKeepTheirTransaction /\ TriesCountOutstanding
        /\ MICFailedInv /\ [Next]_vars => MICFailedInv'
  BY FailuresStep, MICFailedStep
<1>4. MICFailedInv => MICFailedMeansNoneGenuine
  OBVIOUS
<1> HIDE DEF MICFailedInv
<1> QED
  BY <1>1, <1>3, <1>4, AnswerInitially, ResultsKept, TriesCounted, InitInvariant, NextInvariant,
     AnswerStep, PTL DEF Spec

-----------------------------------------------------------------------------
(* At most one ack.                                                         *)

\* Each ack of an original comes from a candidate of its own that verifies and is
\* through, and no two come from the same.
AcksAreDone ==
    \A t \in Tx : dup[t] = "none" =>
        \A i \in DOMAIN sent[t] : sent[t][i].verdict = "ack" =>
            /\ sent[t][i].mic \in Genuine[payload[t]]
            /\ cand[t][sent[t][i].mic] = "done"
            /\ \A j \in DOMAIN sent[t] : sent[t][j] = sent[t][i] => j = i

OnlyGenuinePublished == \A c \in Corr : published[c] \subseteq Genuine[c]

\* Only a candidate that verified is published.
LEMMA PublishedStep ==
    ASSUME IInv, OnlyGenuinePublished, [Next]_vars
    PROVE  OnlyGenuinePublished'
<1>0. TypeOK
  BY DEF IInv
<1>1. ASSUME NEW t \in Tx, NEW m \in Mic, Published(t, m) \/ PublishFails(t, m)
      PROVE  OnlyGenuinePublished'
  <2>1. payload[t] \in Corr /\ m \in Genuine[payload[t]]
    BY <1>1 DEF Published, PublishFails, IInv, CandPath
  <2> QED
    <3>1. published' \in {published, [published EXCEPT ![payload[t]] = @ \cup {m}]}
      BY <1>1 DEF Published, PublishFails
    <3>2. \A c \in Corr :
              \/ published'[c] = published[c]
              \/ c = payload[t] /\ published'[c] = published[c] \cup {m}
      BY <1>0, <2>1, <3>1 DEF TypeOK
    <3> QED
      BY <2>1, <3>2 DEF OnlyGenuinePublished
<1>2. ASSUME published' = published
      PROVE  OnlyGenuinePublished'
  BY <1>2 DEF OnlyGenuinePublished
<1>3. ASSUME NEW t \in Tx, Receive(t) \/ Duplicate(t)
      PROVE  published' = published
  BY <1>3 DEF Receive, ReceiveSolved, ReceivePending, ReceiveNew, ReceiveMalformed, Duplicate,
              Unblock, Replied, Timeout, Discard, SubmitAck, SubmitReject, GiveUp
<1>4. ASSUME NEW t \in Tx, NEW m \in Mic,
             Refuse(t, m) \/ StartPublish(t, m) \/ SecondStage(t, m)
      PROVE  published' = published
  BY <1>4 DEF Refuse, StartPublish, SecondStage, IgnoreResult, HandleAck, HandleLastTry,
              CountTry, HandleRefusal, Answered, SendFails
<1>5. ASSUME LoopPass \/ Disconnect \/ Reconnect \/ Quiescent \/ UNCHANGED vars
      PROVE  published' = published
  BY <1>5 DEF LoopPass, Disconnect, Reconnect, Quiescent, vars
<1> QED
  BY <1>1, <1>2, <1>3, <1>4, <1>5 DEF Next, FirstStage

\* A candidate that is through stays so.
LEMMA DoneForEver ==
    ASSUME IInv, [Next]_vars, NEW t \in Tx, NEW m \in Mic, cand[t][m] = "done"
    PROVE  cand'[t][m] = "done" /\ payload'[t] = payload[t]
<1>0. TypeOK /\ payload[t] # None
  BY NoneAssumption DEF IInv, CandPath
<1>1. ASSUME NEW u \in Tx, Receive(u)
      PROVE  cand'[t] = cand[t]
  BY <1>0, <1>1 DEF Receive, ReceiveSolved, ReceivePending, ReceiveNew, ReceiveMalformed, TypeOK
<1>2. ASSUME NEW u \in Tx, Duplicate(u)
      PROVE  UNCHANGED cand
  BY <1>2 DEF Duplicate, Unblock, Replied, Timeout, Discard, SubmitAck, SubmitReject, GiveUp
<1>3. ASSUME LoopPass \/ Disconnect \/ Reconnect \/ Quiescent \/ UNCHANGED vars
      PROVE  UNCHANGED cand
  BY <1>3 DEF LoopPass, Disconnect, Reconnect, Quiescent, vars
<1>4. ASSUME NEW u \in Tx, NEW n \in Mic, FirstStage(u, n) \/ SecondStage(u, n)
      PROVE  cand'[t][m] = cand[t][m]
  <2>1. \E state \in CandState :
            cand[u][n] # "done" /\ cand' = [cand EXCEPT ![u][n] = state]
    BY <1>4, CandidateMoves, CandStates, InFlightStates DEF SecondStage, CountTry
  <2> QED
    BY <1>0, <2>1 DEF TypeOK
<1> QED
  BY <1>0, <1>1, <1>2, <1>3, <1>4, SameCandidates DEF Next

\* An ack that goes out is of a candidate that has not been acked before.
LEMMA AcksStep ==
    ASSUME IInv, AnswerInv, ResultsKeepTheirTransaction, OnlyGenuinePublished, AcksAreDone,
           [Next]_vars
    PROVE  AcksAreDone'
<1>0. TypeOK
  BY DEF IInv
<1> SUFFICES ASSUME NEW t \in Tx, dup'[t] = "none",
                    NEW i \in DOMAIN sent'[t], sent'[t][i].verdict = "ack"
             PROVE  /\ sent'[t][i].mic \in Genuine[payload'[t]]
                    /\ cand'[t][sent'[t][i].mic] = "done"
                    /\ \A j \in DOMAIN sent'[t] : sent'[t][j] = sent'[t][i] => j = i
  BY DEF AcksAreDone
<1>1. dup[t] = "none"
  BY DuplicateForEver
<1>2. CASE sent'[t] = sent[t]
  <2> DEFINE m == sent[t][i].mic
  <2>1. m \in Genuine[payload[t]] /\ cand[t][m] = "done"
    BY <1>1, <1>2 DEF AcksAreDone
  <2>2. payload[t] \in Corr
    BY <1>0, <1>1, <1>2 DEF AnswerInv, NotYetAnswered, TypeOK
  <2>3. m \in Mic
    BY <2>1, <2>2, ConstantsAssumption
  <2>4. cand'[t][m] = "done" /\ payload'[t] = payload[t]
    BY <2>1, <2>3, DoneForEver
  <2> QED
    BY <1>1, <1>2, <2>1, <2>4 DEF AcksAreDone
<1>3. CASE sent'[t] # sent[t]
  <2>1. PICK m \in Mic : Answered(t, m) /\ sent'[t] = Append(sent[t], AnswerOf(t, m))
    BY <1>3, AnsweredByOwn
  <2>2. sent[t] \in Seq(Answer) /\ AnswerOf(t, m) \in Answer
    BY <1>0, Answers DEF TypeOK, AnswerOf
  <2>3. /\ DOMAIN sent[t] = 1 .. Len(sent[t]) /\ Len(sent[t]) \in Nat
        /\ DOMAIN sent'[t] = 1 .. Len(sent[t]) + 1
        /\ \A j \in DOMAIN sent[t] : sent'[t][j] = sent[t][j]
        /\ sent'[t][Len(sent[t]) + 1] = AnswerOf(t, m)
    BY <2>1, <2>2
  <2>4. /\ cand[t][m] \in Sending /\ payload' = payload /\ payload[t] \in Corr
        /\ cand'[t][m] = "done"
    BY <1>0, <2>1 DEF Answered, TypeOK, IInv, CandPath, Sending
  <2>5. ASSUME NEW j \in DOMAIN sent[t], sent[t][j].verdict = "ack"
        PROVE  /\ sent[t][j].mic \in Genuine[payload[t]]
               /\ cand[t][sent[t][j].mic] = "done" /\ cand'[t][sent[t][j].mic] = "done"
               /\ sent[t][j].mic # m
               /\ \A k \in DOMAIN sent[t] : sent[t][k] = sent[t][j] => k = j
    <3>1. /\ sent[t][j].mic \in Genuine[payload[t]] /\ cand[t][sent[t][j].mic] = "done"
          /\ \A k \in DOMAIN sent[t] : sent[t][k] = sent[t][j] => k = j
      BY <1>1, <2>5 DEF AcksAreDone
    <3>2. sent[t][j].mic \in Mic
      BY <2>4, <3>1, ConstantsAssumption
    <3>3. cand'[t][sent[t][j].mic] = "done"
      BY <3>1, <3>2, DoneForEver
    <3>4. sent[t][j].mic # m
      BY <2>4, <3>1 DEF Sending
    <3> QED
      BY <3>1, <3>3, <3>4
  <2>6. AnswerOf(t, m).verdict = "ack" =>
            AnswerOf(t, m).mic = m /\ m \in Genuine[payload[t]]
    <3>1. AnswerOf(t, m).verdict = "ack" => cand[t][m] = "sendAck" /\ AnswerOf(t, m) = Ack(m)
      BY DEF AnswerOf, Reject
    <3>2. cand[t][m] = "sendAck" => m \in Genuine[payload[t]]
      BY <2>4 DEF IInv, CandPath, OnlyGenuinePublished
    <3> QED
      BY <3>1, <3>2 DEF Ack
  <2>7. CASE i \in DOMAIN sent[t]
    <3>1. sent[t][i].verdict = "ack" /\ sent'[t][i] = sent[t][i]
      BY <2>3, <2>7
    <3>2. sent[t][i] # AnswerOf(t, m)
      BY <2>5, <2>6, <2>7, <3>1
    <3> QED
      BY <2>3, <2>4, <2>5, <2>7, <3>1, <3>2
  <2>8. CASE i = Len(sent[t]) + 1
    <3>1. \A j \in DOMAIN sent[t] : sent[t][j] # AnswerOf(t, m)
      BY <2>3, <2>5, <2>6, <2>8
    <3> QED
      BY <2>3, <2>4, <2>6, <2>8, <3>1
  <2> QED
    BY <2>3, <2>7, <2>8
<1> QED
  BY <1>2, <1>3

\* With one genuine MIC there is one ack.
LEMMA OneGenuineOneAck ==
    ASSUME IInv, AnswerInv, AcksAreDone
    PROVE  AtMostOneAck
<1> SUFFICES ASSUME NEW t \in Tx, payload[t] # None, Cardinality(Genuine[payload[t]]) <= 1
             PROVE  Cardinality({i \in DOMAIN sent[t] : sent[t][i].verdict = "ack"}) <= 1
  BY DEF AtMostOneAck
<1> DEFINE acked == {i \in DOMAIN sent[t] : sent[t][i].verdict = "ack"}
<1>0. /\ payload[t] \in Corr /\ sent[t] \in Seq(Answer)
      /\ DOMAIN sent[t] = 1 .. Len(sent[t]) /\ Len(sent[t]) \in Nat
  BY DEF IInv, TypeOK
<1>1. ASSUME NEW i \in acked, NEW j \in acked
      PROVE  i = j
  <2>1. CASE dup[t] # "none"
    BY <1>0, <2>1 DEF AnswerInv, OneAnswerPerDuplicate
  <2>2. CASE dup[t] = "none"
    <3>1. sent[t][i].mic \in Genuine[payload[t]] /\ sent[t][j].mic \in Genuine[payload[t]]
      BY <2>2 DEF AcksAreDone
    <3>2. IsFiniteSet(Genuine[payload[t]])
      BY <1>0, ConstantsAssumption, FS_Subset
    <3>3. \E x : Genuine[payload[t]] = {x}
      <4>1. Cardinality(Genuine[payload[t]]) \in Nat /\ Cardinality(Genuine[payload[t]]) # 0
        BY <3>1, <3>2, FS_CardinalityType, FS_EmptySet
      <4>2. Cardinality(Genuine[payload[t]]) = 1
        BY <4>1
      <4> QED
        BY <3>2, <4>2, FS_Singleton
    <3>4. sent[t][i] = sent[t][j]
      <4>1. sent[t][i] \in Answer /\ sent[t][j] \in Answer
        BY <1>0
      <4> QED
        BY <3>1, <3>3, <4>1 DEF Answer, Ack, Reject
    <3> QED
      BY <2>2, <3>4 DEF AcksAreDone
  <2> QED
    BY <2>1, <2>2
<1> HIDE DEF acked
<1>2. acked = {} \/ \E i : acked = {i}
  BY <1>1
<1>3. Cardinality(acked) = 0 \/ Cardinality(acked) = 1
  BY <1>2, FS_EmptySet, FS_Singleton
<1> QED
  BY <1>3 DEF acked

\* A payload with one genuine MIC is acked at most once per transaction (AtMostOneAck),
\* whatever its candidates, their faults and its duplicates do, when no entry expires
\* under them.
THEOREM AckedOnce == ASSUME ~Slow PROVE Spec => []AtMostOneAck
<1> DEFINE AckInv == OnlyGenuinePublished /\ AcksAreDone
<1>1. Init => AckInv
  BY DEF Init, OnlyGenuinePublished, AcksAreDone
<1>3. IInv /\ AnswerInv /\ ResultsKeepTheirTransaction /\ AckInv /\ [Next]_vars => AckInv'
  BY PublishedStep, AcksStep
<1>4. IInv /\ AnswerInv /\ AckInv => AtMostOneAck
  BY OneGenuineOneAck
<1> HIDE DEF AckInv
<1> QED
  BY <1>1, <1>3, <1>4, AnswerInitially, ResultsKept, InitInvariant, NextInvariant, AnswerStep, PTL
  DEF Spec
=============================================================================
