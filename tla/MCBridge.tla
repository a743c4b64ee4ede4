------------------------------ MODULE MCBridge ------------------------------
(* Small instances of Bridge for TLC. *)
EXTENDS Bridge

CONSTANT i1

\* Which troubles come together.
Combinations == {{"setup", "messages"}, {"mqtt"}, {"ran", "health"}}
=============================================================================
