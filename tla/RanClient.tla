----------------------------- MODULE RanClient -----------------------------
(***************************************************************************)
(* RanTrafficRouter.run (ran.py): the two connection loops run until one of *)
(* them ends; then, without a stop, the other is cancelled and both start   *)
(* again after a delay.  A second task closes the RAN client at the stop.   *)
(***************************************************************************)
EXTENDS StopEvent

VARIABLES
    ran,            \* where run is
    ranCloser       \* where its disconnect_on_stop is

ranVars == <<ran, ranCloser>>

RanTypeOK ==
    /\ ran \in {"new", "up", "reaping", "sleeping", "closing", "draining", "ended", "raised"}
    /\ ranCloser \in {"waiting", "done"}

RanInit == ran = "new" /\ ranCloser = "waiting"

\* One of the loops ends: no connection, a broken one, or an exception of a handler.
RanLoopEnds ==
    /\ ran = "up"
    /\ \/ stop /\ ran' = "closing"
       \/ ~stop /\ ran' \in {"reaping", "sleeping"}     \* sleeping: both ended
    /\ UNCHANGED ranCloser

\* ran_core.close() ends both loops.
RanLoopClosed == ranCloser = "done" /\ RanLoopEnds

\* The loop that was cancelled is gone.
RanReaped ==
    /\ ran = "reaping"
    /\ ran' = "sleeping"
    /\ UNCHANGED ranCloser

RanRetry ==
    /\ ran = "sleeping"
    /\ ran' = IF stop THEN "draining" ELSE "up"
    /\ UNCHANGED ranCloser

RanCloserWakes ==
    /\ stop
    /\ ran # "new" /\ ranCloser = "waiting"
    /\ ranCloser' = "done"
    /\ UNCHANGED ran

\* At the stop run waits for the close and the other loop, or, if it was asleep,
\* for the ack loop only.
MayEnd ==
    \/ ran = "closing" /\ ranCloser = "done"
    \/ ran = "draining" /\ stop

RanEnds == MayEnd /\ ran' = "ended" /\ UNCHANGED ranCloser

\* What run awaits raises, and run with it.
RanRaises == (ran = "reaping" \/ MayEnd) /\ ran' = "raised" /\ UNCHANGED ranCloser

\* While run awaits a loop it cancelled, it takes its own cancellation for
\* the loop's (except CancelledError: pass) and goes on.
RanCancelled ==
    /\ ran' = IF ran = "reaping" THEN "sleeping" ELSE "ended"
    /\ UNCHANGED ranCloser

RanStep == RanReaped \/ RanRetry \/ RanCloserWakes \/ RanEnds
=============================================================================
