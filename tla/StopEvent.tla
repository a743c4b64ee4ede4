----------------------------- MODULE StopEvent -----------------------------
(* The event main sets at the first stop signal; every task watches it.     *)

VARIABLE stop

\* stop_all.  A second signal ends the process wherever it is.
StopAll == ~stop /\ stop' = TRUE
=============================================================================
