--------------------------- MODULE MCStoreForward ---------------------------
(* An instance of StoreForward for TLC. *)
EXTENDS StoreForward
=============================================================================
