------------------------- MODULE MCMeshPacketQueue -------------------------
(* MeshPacketQueue with two originators, one of them the owner, three
   priorities and a queue of three. *)
EXTENDS MeshPacketQueue

CONSTANTS us, other

MCNodes == {us, other}
MCIds == {1, 2}
MCPriorities == {64, 70, 120}
============================================================================
