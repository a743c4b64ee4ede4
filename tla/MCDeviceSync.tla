---------------------------- MODULE MCDeviceSync ----------------------------
(* Small instances of DeviceSync for TLC. *)
EXTENDS DeviceSync, TLC

CONSTANTS d1, d2, a, b, c

\* Every device has addresses of its own, and always one of them: d1 may
\* change between two, d2 only gets new keys.
OwnAddresses == d1 :> {a, b} @@ d2 :> {c}

\* A device may also have no session.
Sessionless == d1 :> {a, Empty} @@ d2 :> {c, Empty}
=============================================================================
