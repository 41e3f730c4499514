-------------------------- MODULE ReliableDelivery --------------------------
(***************************************************************************)
(* What the mesh promises the phone about the messages it sends: how far a  *)
(* message has come, and what the phone has been told about it.             *)
(***************************************************************************)
CONSTANT Messages

VARIABLES
  phase,          \* "new", "pending" while the router retransmits, "settled"
  reached,        \* the phone of some other node has the message
  reports         \* what the sender's phone has been told

vars == <<phase, reached, reports>>

Reports == {"acked", "relayed", "failed", "refused"}

TypeOK ==
  /\ phase \in [Messages -> {"new", "pending", "settled"}]
  /\ reached \in [Messages -> BOOLEAN]
  /\ reports \in [Messages -> SUBSET Reports]

Init ==
  /\ phase = [m \in Messages |-> "new"]
  /\ reached = [m \in Messages |-> FALSE]
  /\ reports = [m \in Messages |-> {}]

(* A message is retransmitted from the start or never. *)
Submit(m) ==
  /\ phase[m] = "new"
  /\ phase' \in {[phase EXCEPT ![m] = "pending"], [phase EXCEPT ![m] = "settled"]}
  /\ UNCHANGED <<reached, reports>>

Reach(m) ==
  /\ phase[m] # "new" /\ ~ reached[m]
  /\ reached' = [reached EXCEPT ![m] = TRUE]
  /\ UNCHANGED <<phase, reports>>

Settle(m) ==
  /\ phase[m] = "pending"
  /\ phase' = [phase EXCEPT ![m] = "settled"]
  /\ UNCHANGED <<reached, reports>>

(* Whatever the phone is told ends the retransmissions.  It is told of an ack
   only if the message arrived, and of failure only when they had ended. *)
Report(m, r) ==
  /\ phase[m] # "new"
  /\ r = "acked" => reached[m]
  /\ r = "failed" => phase[m] = "settled"
  /\ reports' = [reports EXCEPT ![m] = @ \cup {r}]
  /\ phase' = [phase EXCEPT ![m] = "settled"]
  /\ UNCHANGED reached

Next ==
  \E m \in Messages :
    Submit(m) \/ Reach(m) \/ Settle(m) \/ \E r \in Reports : Report(m, r)

Spec == Init /\ [][Next]_vars
=============================================================================
