----------------------------- MODULE MCDownlink -----------------------------
(* A small instance of Downlink for TLC. *)
EXTENDS Downlink

CONSTANTS join, data, dev1, dev2

TwoSenders == (join :> dev1) @@ (data :> dev2)
=============================================================================
