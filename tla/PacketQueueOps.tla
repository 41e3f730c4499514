-------------------------- MODULE PacketQueueOps --------------------------
(***************************************************************************)
(* The transmit queue of a radio (mesh/MeshPacketQueue.cpp) as operators    *)
(* on a sequence whose head is the next packet to send.  A packet is a      *)
(* record with at least the fields from, id and prio; `us' is the number    *)
(* of the node that owns the queue and maxLen its capacity.                 *)
(***************************************************************************)
EXTENDS Naturals, Sequences, SequencesExt

(* CompareMeshPacketFunc: a higher priority first, and for equal priorities
   the packets of other nodes, which are already on the mesh. *)
Precedes(us, p, q) ==
  \/ p.prio > q.prio
  \/ p.prio = q.prio /\ p.from # us /\ q.from = us

(* std::lower_bound in place of std::upper_bound: a slip in enqueue. *)
LowerBound(us, q, p) ==
  CHOOSE i \in 1 .. Len(q) + 1 :
    /\ \A j \in 1 .. i - 1 : Precedes(us, q[j], p)
    /\ i <= Len(q) => ~ Precedes(us, q[i], p)

(* std::upper_bound: the first position whose packet p must precede. *)
UpperBound(us, q, p) ==
  CHOOSE i \in 1 .. Len(q) + 1 :
    /\ \A j \in 1 .. i - 1 : ~ Precedes(us, p, q[j])
    /\ i <= Len(q) => Precedes(us, p, q[i])

(* A slip: push_back alone, without the upper_bound. *)
PushBack(us, q, p) == Append(q, p)

InsertInOrder(us, q, p) == InsertAt(q, UpperBound(us, q, p), p)

(* A slip: `<=' for `<'. *)
CanReplaceEqual(q, p) == q # <<>> /\ Last(q).prio <= p.prio

(* replaceLowerPriorityPacket succeeds: the packet at the back has a
   strictly lower priority than the new one. *)
CanReplace(q, p) == q # <<>> /\ Last(q).prio < p.prio

(* enqueue returns true. *)
Accepts(q, p, maxLen) == Len(q) < maxLen \/ CanReplace(q, p)

(* A slip: no test for a full queue. *)
EnqueueUnbounded(us, q, p, maxLen) == InsertInOrder(us, q, p)

(* The queue after enqueue(p). *)
Enqueue(us, q, p, maxLen) ==
  IF Len(q) < maxLen THEN InsertInOrder(us, q, p)
  ELSE IF CanReplace(q, p) THEN InsertInOrder(us, Front(q), p)
  ELSE q

IndexOf(q, from, id) == SelectInSeq(q, LAMBDA p : p.from = from /\ p.id = id)

(* The queue after remove(from, id): the first packet with that origin and
   id leaves it, and only that one. *)
RemovePacket(q, from, id) ==
  IF IndexOf(q, from, id) = 0 THEN q ELSE RemoveAt(q, IndexOf(q, from, id))

(* No packet stands before one that must precede it. *)
InOrder(us, q) ==
  \A i, j \in 1 .. Len(q) : i < j => ~ Precedes(us, q[j], q[i])
============================================================================
