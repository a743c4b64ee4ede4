------------------------- MODULE MCApplicationSync -------------------------
(* A small instance of ApplicationSync for TLC. *)
EXTENDS ApplicationSync
=============================================================================
