----------------------------- MODULE MCRadioIf -----------------------------
(* RadioIf with two packets, sent by the main task. *)
EXTENDS RadioIf

CONSTANTS p1, p2

TwoPackets == {p1, p2}
MainTask == {"main"}
============================================================================
