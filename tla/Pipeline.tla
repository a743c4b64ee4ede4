------------------------------ MODULE Pipeline ------------------------------
(***************************************************************************)
(* The upstream pipeline (manager.py): two nodes, each a loop that takes    *)
(* items off its queue and starts a handler for each in its pool             *)
(* (async_pool.py), and the manager's task that started them.  The other    *)
(* two pipelines are the same with one node.                                *)
(***************************************************************************)
EXTENDS StopEvent, FiniteSets, Naturals

CONSTANTS
    Item,       \* bound: the messages on their way at a time
    PoolLimit   \* the handlers a node runs at a time

ASSUME PipelineAssumption == IsFiniteSet(Item) /\ PoolLimit \in Nat \ {0}

VARIABLES
    manager,    \* where the manager's task is, and with it Pipeline.run
    node,       \* node[n]: where PipelineNode.run is
    item,       \* item[i]: which queue or handler message i is in; "out": none
    free        \* free[n]: the semaphore of node n's pool

pipeVars == <<manager, node, item, free>>

Nodes == 1 .. 2

Queued == <<"queued1", "queued2">>

Running == <<"running1", "running2">>

PipeTypeOK ==
    /\ manager \in {"new", "running", "cancelled"}
    /\ node \in [Nodes -> {"new", "looping", "joining", "ended", "cancelled"}]
    /\ item \in [Item -> {"queued1", "running1", "queued2", "running2", "out"}]
    /\ free \in [Nodes -> 0 .. PoolLimit]

PipeInit ==
    /\ manager = "new"
    /\ node = [n \in Nodes |-> "new"]
    /\ item = [i \in Item |-> "out"]
    /\ free = [n \in Nodes |-> PoolLimit]

\* The handlers in node n's pool.
Busy(n) == {i \in Item : item[i] = Running[n]}

Move(i, to) == item' = [item EXCEPT ![i] = to]

\* The upstream loop puts a new candidate.
Put(i) == item[i] = "out" /\ Move(i, "queued1") /\ UNCHANGED <<manager, node, free>>

\* Pool.add waits for a free slot; which of the queued items is first is left open.
StartHandler(n, i) ==
    /\ node[n] = "looping"
    /\ item[i] = Queued[n]
    /\ free[n] > 0
    /\ Move(i, Running[n])
    /\ free' = [free EXCEPT ![n] = @ - 1]
    /\ UNCHANGED <<manager, node>>

\* Seeded bug: the slot of a handler that passed nothing on is not released.
ReleaseOnSuccess(n, passedOn) == free' = [free EXCEPT ![n] = IF passedOn THEN @ + 1 ELSE @]

\* Seeded bug: the slot is released by the handler and by its callback.
ReleaseTwice(n, passedOn) == free' = [free EXCEPT ![n] = @ + 2]

\* _task_done_callback
Release(n, passedOn) == free' = [free EXCEPT ![n] = @ + 1]

\* _handle_item: the first node's result goes to the second; the second has no queue
\* to pass on to; an exception is logged.
HandlerEnds(n, i) ==
    /\ item[i] = Running[n]
    /\ \/ n = 1 /\ Move(i, "queued2") /\ Release(n, TRUE)
       \/ Move(i, "out") /\ Release(n, FALSE)
    /\ UNCHANGED <<manager, node>>

\* Seeded bug: a node ends without waiting for its handlers.
AfterLoopEnded(n) == "ended"

AfterLoop(n) == IF Busy(n) = {} THEN "ended" ELSE "joining"

\* At the stop a node leaves its loop the first time it finds the queue empty.
LeaveLoop(n) ==
    /\ stop
    /\ node[n] = "looping"
    /\ \A i \in Item : item[i] # Queued[n]
    /\ node' = [node EXCEPT ![n] = AfterLoop(n)]
    /\ UNCHANGED <<manager, item, free>>

\* Pool.join
Joined(n) ==
    /\ node[n] = "joining"
    /\ Busy(n) = {}
    /\ node' = [node EXCEPT ![n] = "ended"]
    /\ UNCHANGED <<manager, item, free>>

\* The manager has returned, or its cancellation has ended it.
ManagerDone == manager = "cancelled" \/ \A n \in Nodes : node[n] = "ended"

\* The manager's task is cancelled.  Before the stop Pipeline.run only waits for it, and
\* the nodes, tasks of their own, run on.  From the stop on it awaits them, and both are
\* cancelled through gather; one that is joining passes it on to its handlers, a looping
\* one leaves them running.
ManagerCancelled ==
    LET Reached(n) == stop /\ node[n] # "ended"
        Passed(n) == IF Reached(n) /\ node[n] = "joining" THEN Busy(n) ELSE {}
    IN /\ manager' = "cancelled"
       /\ node' = [n \in Nodes |-> IF Reached(n) THEN "cancelled" ELSE node[n]]
       /\ item' = [i \in Item |-> IF \E n \in Nodes : i \in Passed(n) THEN "out" ELSE item[i]]
       /\ free' = [n \in Nodes |-> free[n] + Cardinality(Passed(n))]

NodeStep(n) ==
    \/ \E i \in Item : StartHandler(n, i) \/ HandlerEnds(n, i)
    \/ LeaveLoop(n) \/ Joined(n)
=============================================================================
