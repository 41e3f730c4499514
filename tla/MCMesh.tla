------------------------------- MODULE MCMesh -------------------------------
(* Values for the constants of module Mesh, chosen by its .cfg files. *)
EXTENDS Mesh

Nobody == {}
JustOne == {1}
JustTwo == {2}
Pair == 1 .. 2
Trio == 1 .. 3

(* Topologies: a chain in which each hears its neighbours, and everyone in
   range of everyone. *)
Line == [n \in Node |-> {r \in Node : r = n + 1 \/ n = r + 1}]
Complete == [n \in Node |-> Node \ {n}]

OnEveryNode == [c \in Channel |-> Node]
NotOnTwo == [c \in Channel |-> IF c = PRIMARY THEN Node ELSE Node \ {2}]
HashNoIndex == [c \in Channel |-> NoChannel]

AllKeys == Node \X Node
OneHasTwosKey == {<<1, 2>>}

DM == [from |-> 1, to |-> 3, id |-> 1, hopLimit |-> 2, wantAck |-> TRUE,
       port |-> "text", crypt |-> PRIMARY]

TextOrRequest == {DM, [DM EXCEPT !.id = 2, !.to = BROADCAST_NO_LORA, !.port = "request"]}
SecondaryToThree == {[DM EXCEPT !.crypt = "secondary"]}
RequestOrFlood ==
  {[DM EXCEPT !.port = "request"], [DM EXCEPT !.id = 2, !.to = BROADCAST, !.hopLimit = 3],
   [DM EXCEPT !.id = 3, !.port = "unreadable"]}
TextToTwo == {[DM EXCEPT !.to = 2]}
=============================================================================
