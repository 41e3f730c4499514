----------------------------- MODULE MCPhoneAPI -----------------------------
(* PhoneAPI with one phone and little of everything. *)
EXTENDS PhoneAPI
=============================================================================
