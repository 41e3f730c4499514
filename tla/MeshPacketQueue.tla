-------------------------- MODULE MeshPacketQueue --------------------------
(***************************************************************************)
(* One node's transmit queue under every sequence of calls its callers      *)
(* make: RadioLibInterface::send enqueues, onNotify dequeues the packet it  *)
(* is about to transmit, cancelSending removes a packet by origin and id.   *)
(* A packet's stamp is its place in the order of the calls to enqueue.      *)
(***************************************************************************)
EXTENDS PacketQueueOps

CONSTANTS
  Us,           \* the node that owns the queue
  Nodes,        \* the originators of packets
  Ids,          \* the packet ids in use
  Priorities,   \* the priorities a packet may have after fixPriority
  MaxLen,       \* MAX_TX_QUEUE
  MaxSends      \* bound: calls to enqueue in one behaviour

ASSUME QueueAssumption ==
  /\ Us \in Nodes
  /\ Priorities \subseteq Nat
  /\ MaxLen \in Nat
  /\ MaxSends \in Nat

VARIABLES
  queue,        \* MeshPacketQueue::queue
  sends         \* calls to enqueue so far (history, the source of stamps)

vars == <<queue, sends>>

QueuedPacket == [from : Nodes, id : Ids, prio : Priorities, stamp : Nat]

TypeOK ==
  /\ queue \in Seq(QueuedPacket)
  /\ Len(queue) <= MaxLen
  /\ sends \in Nat

Init == queue = <<>> /\ sends = 0

(* RadioLibInterface::send: a rejected packet is released and forgotten. *)
Send(from, id, prio) ==
  LET p == [from |-> from, id |-> id, prio |-> prio, stamp |-> sends] IN
  /\ sends < MaxSends
  /\ queue' = Enqueue(Us, queue, p, MaxLen)
  /\ sends' = sends + 1

(* onNotify(TRANSMIT_DELAY_COMPLETED) takes the packet to transmit. *)
Dequeue ==
  /\ queue # <<>>
  /\ queue' = Tail(queue)
  /\ UNCHANGED sends

(* RadioLibInterface::cancelSending *)
Cancel(from, id) ==
  /\ queue' = RemovePacket(queue, from, id)
  /\ UNCHANGED sends

Next ==
  \/ \E from \in Nodes, id \in Ids, prio \in Priorities : Send(from, id, prio)
  \/ Dequeue
  \/ \E from \in Nodes, id \in Ids : Cancel(from, id)

Spec == Init /\ [][Next]_vars

----------------------------------------------------------------------------
(* The head is always the packet that should be sent next: no packet waits
   behind one of lower priority, nor a relayed packet behind one of our own
   of the same priority, whatever was evicted or cancelled in between
   (CompareMeshPacketFunc, and the comment at its last line). *)
Sorted == InOrder(Us, queue)

(* enqueue's "maintain a stable order": of two packets neither of which must
   precede the other, the one enqueued first is sent first. *)
FirstComeFirstServed ==
  \A i, j \in 1 .. Len(queue) :
    i < j /\ ~ Precedes(Us, queue[i], queue[j]) => queue[i].stamp < queue[j].stamp

Stamped == \A i \in 1 .. Len(queue) : queue[i].stamp < sends

(* A full queue gives up a packet only for one of strictly higher priority,
   and then the one it would have sent last: every packet that stays goes
   before the one lost, or came earlier. *)
EvictsOnlyTheLast ==
  [][sends' # sends =>
       \A v \in ToSet(queue) \ ToSet(queue') :
         \A p \in ToSet(queue') :
           /\ ~ Precedes(Us, v, p)
           /\ Precedes(Us, p, v) \/ p.stamp < v.stamp]_vars
============================================================================
