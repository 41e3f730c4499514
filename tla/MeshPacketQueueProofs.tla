----------------------- MODULE MeshPacketQueueProofs -----------------------
(***************************************************************************)
(* For every set of nodes and ids, every priorities and every capacity, the *)
(* transmit queue stays within its capacity, sorted, and first come first   *)
(* served.  The inductive invariant adds that every stamp in the queue is   *)
(* older than the next one.  The lemmas on the queue's operations are those *)
(* that module RouterProofs begins with; nothing else of it is used.        *)
(***************************************************************************)
EXTENDS MeshPacketQueue, RouterProofs

IInv == TypeOK /\ Sorted /\ FirstComeFirstServed /\ Stamped

(* A packet leaving the queue disturbs no part of the invariant. *)
LEMMA LeavingKeepsIInv ==
  ASSUME IInv, queue' \in Seq(QueuedPacket), Len(queue') <= Len(queue),
         Embeds(queue', queue), UNCHANGED sends
  PROVE  IInv'
<1>0. Len(queue) \in Nat /\ Len(queue') \in Nat /\ MaxLen \in Nat
  BY QueueAssumption, LenProperties DEF IInv, TypeOK
<1>1. TypeOK'
  BY <1>0, SMT DEF IInv, TypeOK
<1>2. Sorted'
  BY EmbedsInOrder, Zenon DEF IInv, Sorted
<1>3. FirstComeFirstServed'
  BY Zenon DEF IInv, FirstComeFirstServed, Embeds
<1>4. Stamped'
  BY Zenon DEF IInv, Stamped, Embeds
<1>. QED
  BY <1>1, <1>2, <1>3, <1>4 DEF IInv

(* Enqueueing, whether it inserts, evicts or rejects, keeps the invariant. *)
LEMMA SendKeepsIInv ==
  ASSUME IInv, NEW from \in Nodes, NEW id \in Ids, NEW prio \in Priorities,
         Send(from, id, prio)
  PROVE  IInv'
<1> DEFINE p == [from |-> from, id |-> id, prio |-> prio, stamp |-> sends]
<1>0. /\ queue \in Seq(QueuedPacket) /\ Len(queue) <= MaxLen /\ sends \in Nat
      /\ MaxLen \in Nat
  BY QueueAssumption DEF IInv, TypeOK
<1>1. p \in QueuedPacket
  BY <1>0 DEF QueuedPacket
<1>2. \A e \in QueuedPacket : e.prio \in Nat /\ e.stamp \in Nat
  <2>1. SUFFICES ASSUME NEW e \in QueuedPacket
                 PROVE  e.prio \in Nat /\ e.stamp \in Nat
    OBVIOUS
  <2>2. e.prio \in Priorities /\ e.stamp \in Nat
    BY DEF QueuedPacket
  <2>. QED
    BY <2>2, QueueAssumption
<1>3. queue' = Enqueue(Us, queue, p, MaxLen) /\ sends' = sends + 1
  BY DEF Send
<1>p. p.stamp = sends
  OBVIOUS
<1> HIDE DEF p
<1>4. /\ queue' \in Seq(QueuedPacket)
      /\ Len(queue') <= MaxLen
      /\ EmbedsWith(Us, queue', queue, p)
  BY <1>0, <1>1, <1>2, <1>3, EnqueueEmbedsWith, Zenon DEF IInv, Sorted
<1>q. \A k \in 1 .. Len(queue) : queue[k] \in QueuedPacket /\ queue[k].stamp < sends
  BY <1>0, LenProperties, ElementOfSeq DEF IInv, Stamped
<1>5. TypeOK'
  BY <1>0, <1>3, <1>4, SMT DEF TypeOK
<1>6. Sorted'
  BY <1>0, <1>1, <1>2, <1>4, EmbedsWithInOrder, Zenon DEF IInv, Sorted
<1>7. FirstComeFirstServed'
  <2>1. SUFFICES ASSUME NEW i \in 1 .. Len(queue'), NEW j \in 1 .. Len(queue'),
                        i < j, ~ Precedes(Us, queue'[i], queue'[j])
                 PROVE  queue'[i].stamp < queue'[j].stamp
    BY Zenon DEF FirstComeFirstServed
  <2>2. CASE \E m, n \in 1 .. Len(queue) :
               m < n /\ queue'[i] = queue[m] /\ queue'[j] = queue[n]
    BY <2>1, <2>2, Zenon DEF IInv, FirstComeFirstServed
  <2>3. CASE queue'[j] = p /\ \E m \in 1 .. Len(queue) : queue'[i] = queue[m]
    BY <2>3, <1>q, <1>p, Zenon
  <2>4. CASE queue'[i] = p /\ Precedes(Us, p, queue'[j])
    BY <2>1, <2>4, Zenon
  <2>. QED
    BY <1>4, <2>1, <2>2, <2>3, <2>4, Zenon DEF EmbedsWith
<1>8. Stamped'
  <2>1. SUFFICES ASSUME NEW i \in 1 .. Len(queue')
                 PROVE  queue'[i].stamp < sends'
    BY Zenon DEF Stamped
  <2>2. CASE queue'[i] = p
    BY <1>0, <1>3, <1>p, <2>2, SMT
  <2>3. CASE \E m \in 1 .. Len(queue) : queue'[i] = queue[m]
    <3>1. queue'[i].stamp \in Nat /\ queue'[i].stamp < sends
      BY <2>3, <1>q, <1>2, Zenon
    <3>. QED
      BY <1>0, <1>3, <3>1, SMT
  <2>. QED
    BY <1>4, <2>2, <2>3, Zenon DEF EmbedsWith
<1>. QED
  BY <1>5, <1>6, <1>7, <1>8 DEF IInv

LEMMA InitIInv == Init => IInv
<1>1. ASSUME Init
      PROVE  IInv
  <2>1. queue = <<>> /\ Len(queue) = 0 /\ sends = 0 /\ queue \in Seq(QueuedPacket)
    BY <1>1, EmptySeq DEF Init
  <2>. QED
    BY <2>1, QueueAssumption, SMT
       DEF IInv, TypeOK, Sorted, InOrder, FirstComeFirstServed, Stamped
<1>. QED
  BY <1>1

LEMMA NextIInv == IInv /\ [Next]_vars => IInv'
<1>1. SUFFICES ASSUME IInv, [Next]_vars
               PROVE  IInv'
  OBVIOUS
<1>0. queue \in Seq(QueuedPacket) /\ Len(queue) \in Nat
  BY <1>1, LenProperties DEF IInv, TypeOK
<1>2. CASE \E from \in Nodes, id \in Ids, prio \in Priorities : Send(from, id, prio)
  BY <1>1, <1>2, SendKeepsIInv
<1>3. CASE Dequeue
  <2>1. /\ queue' \in Seq(QueuedPacket)
        /\ Len(queue') = Len(queue) - 1
        /\ Embeds(queue', queue)
    BY <1>0, <1>3, TailEmbeds, Zenon DEF Dequeue
  <2>2. Len(queue') <= Len(queue)
    BY <1>0, <2>1, SMT
  <2>. QED
    BY <1>1, <1>3, <2>1, <2>2, LeavingKeepsIInv, Zenon DEF Dequeue
<1>4. CASE \E from \in Nodes, id \in Ids : Cancel(from, id)
  <2>1. PICK from \in Nodes, id \in Ids : Cancel(from, id)
    BY <1>4
  <2>2. /\ queue' \in Seq(QueuedPacket)
        /\ Len(queue') <= Len(queue)
        /\ Embeds(queue', queue)
    BY <1>0, <2>1, RemovePacketEmbeds, Zenon DEF Cancel
  <2>. QED
    BY <1>1, <2>1, <2>2, LeavingKeepsIInv, Zenon DEF Cancel
<1>5. CASE UNCHANGED vars
  BY <1>1, <1>5, Zenon DEF vars, IInv, TypeOK, Sorted, FirstComeFirstServed, Stamped
<1>. QED
  BY <1>1, <1>2, <1>3, <1>4, <1>5 DEF Next

(* The queue holds packets, and never more than MAX_TX_QUEUE of them
   (MeshPacketQueue::enqueue against maxLen). *)
THEOREM QueueTypeOK == Spec => []TypeOK
<1>1. IInv => TypeOK
  BY DEF IInv
<1>. QED
  BY <1>1, InitIInv, NextIInv, PTL DEF Spec

(* The head of the queue is the packet to send next, after any sequence of
   sends, evictions and cancellations (CompareMeshPacketFunc). *)
THEOREM QueueSorted == Spec => []Sorted
<1>1. IInv => Sorted
  BY DEF IInv
<1>. QED
  BY <1>1, InitIInv, NextIInv, PTL DEF Spec

(* Packets of the same rank leave in the order they came (enqueue's "maintain
   a stable order"). *)
THEOREM QueueFirstComeFirstServed == Spec => []FirstComeFirstServed
<1>1. IInv => FirstComeFirstServed
  BY DEF IInv
<1>. QED
  BY <1>1, InitIInv, NextIInv, PTL DEF Spec

(* A full queue: what it gives up, and for what. *)
LEMMA SendEvictsTheLast ==
  ASSUME IInv, NEW from \in Nodes, NEW id \in Ids, NEW prio \in Priorities,
         Send(from, id, prio),
         NEW v \in ToSet(queue) \ ToSet(queue'), NEW p \in ToSet(queue')
  PROVE  ~ Precedes(Us, v, p) /\ (Precedes(Us, p, v) \/ p.stamp < v.stamp)
<1> DEFINE x == [from |-> from, id |-> id, prio |-> prio, stamp |-> sends]
           f == Front(queue)
<1>1. /\ queue \in Seq(QueuedPacket) /\ sends \in Nat /\ MaxLen \in Nat /\ Len(queue) \in Nat
      /\ x \in QueuedPacket /\ queue' = Enqueue(Us, queue, x, MaxLen)
  BY QueueAssumption, LenProperties DEF IInv, TypeOK, Send, QueuedPacket
<1>2. \A e \in QueuedPacket : e.prio \in Nat
  BY QueueAssumption DEF QueuedPacket
<1>3. PICK j \in 1 .. Len(queue) : v = queue[j]
  BY <1>1, Places
<1>4. v \notin ToSet(queue')
  OBVIOUS
<1> HIDE DEF x
<1>5. ~ (Len(queue) < MaxLen)
  <2>1. SUFFICES ASSUME Len(queue) < MaxLen
                 PROVE  FALSE
    OBVIOUS
  <2>2. queue' = InsertInOrder(Us, queue, x)
    BY <1>1, <2>1, Zenon DEF Enqueue
  <2>3. queue' \in Seq(QueuedPacket) /\ \E i \in 1 .. Len(queue') : queue'[i] = v
    BY <1>1, <1>3, <2>2, InsertKeeps
  <2>. QED
    BY <1>4, <2>3, Places
<1>6. CanReplace(queue, x)
  BY <1>1, <1>5, Zenon DEF Enqueue
<1>7. queue' = InsertInOrder(Us, f, x)
  BY <1>1, <1>5, <1>6, Zenon DEF Enqueue
<1>8. queue # <<>> /\ Last(queue).prio < x.prio
  BY <1>6 DEF CanReplace
<1>9. f \in Seq(QueuedPacket) /\ Len(f) = Len(queue) - 1 /\ \A k \in 1 .. Len(f) : f[k] = queue[k]
  <2>1. Len(queue) >= 1 /\ f = SubSeq(queue, 1, Len(queue) - 1)
    BY <1>1, <1>8, EmptySeq, SMT DEF Front
  <2>2. 1 \in Nat \ {0} /\ Len(queue) - 1 \in Nat /\ Len(queue) - 1 <= Len(queue)
        /\ 1 <= (Len(queue) - 1) + 1
    BY <1>1, <2>1, SMT
  <2>3. PICK m \in Nat : m = Len(queue) - 1
    BY <2>2
  <2>4. /\ SubSeq(queue, 1, m) \in Seq(QueuedPacket) /\ Len(SubSeq(queue, 1, m)) = m - 1 + 1
        /\ \A i \in 1 .. m - 1 + 1 : SubSeq(queue, 1, m)[i] = queue[1 + i - 1]
    BY <1>1, <2>2, <2>3, SubSeqElements
  <2>. QED
    BY <1>1, <2>1, <2>3, <2>4, SMT
<1> HIDE DEF f
<1>10. /\ queue' \in Seq(QueuedPacket)
       /\ \A k \in 1 .. Len(f) : \E i \in 1 .. Len(queue') : queue'[i] = f[k]
       /\ \A i \in 1 .. Len(queue') : queue'[i] = x \/ \E k \in 1 .. Len(f) : queue'[i] = f[k]
  <2>1. PICK r : r = queue'
    OBVIOUS
  <2>3. PICK g \in Seq(QueuedPacket) : g = f
    BY <1>9
  <2>4. r = InsertInOrder(Us, g, x)
    BY <1>7, <2>1, <2>3
  <2>5. /\ r \in Seq(QueuedPacket)
        /\ \A k \in 1 .. Len(g) : \E i \in 1 .. Len(r) : r[i] = g[k]
        /\ \A i \in 1 .. Len(r) : r[i] = x \/ \E k \in 1 .. Len(g) : r[i] = g[k]
    BY <1>1, <2>4, InsertKeeps
  <2>2. /\ r \in Seq(QueuedPacket) /\ \A k \in 1 .. Len(f) : \E i \in 1 .. Len(r) : r[i] = f[k]
        /\ \A i \in 1 .. Len(r) : r[i] = x \/ \E k \in 1 .. Len(f) : r[i] = f[k]
    BY <2>3, <2>5
  <2>. QED
    BY <2>1, <2>2, Zenon
<1>11. j = Len(queue)
  <2>1. SUFFICES ASSUME j # Len(queue)
                 PROVE  FALSE
    OBVIOUS
  <2>2. j \in 1 .. Len(f)
    BY <1>1, <1>9, <2>1, SMT
  <2>3. \E i \in 1 .. Len(queue') : queue'[i] = v
    BY <1>3, <1>9, <1>10, <2>2
  <2>. QED
    BY <1>4, <1>10, <2>3, Places
<1>12. v.prio < x.prio /\ v.prio \in Nat /\ x.prio \in Nat
  <2>1. v = Last(queue) /\ v \in QueuedPacket
    BY <1>1, <1>3, <1>11, ElementOfSeq, Zenon DEF Last
  <2>. QED
    BY <1>1, <1>2, <1>8, <2>1
<1>13. CASE p = x
  <2>1. p.prio > v.prio /\ ~ (v.prio > p.prio) /\ v.prio # p.prio
    BY <1>12, <1>13, SMT
  <2>. QED
    BY <2>1, Zenon DEF Precedes
<1>14. CASE p # x
  <2>0. \E i \in 1 .. Len(queue') : p = queue'[i]
    BY <1>10, Places, Zenon
  <2>1. PICK k \in 1 .. Len(f) : p = f[k]
    BY <1>10, <1>14, <2>0, Zenon
  <2>2. p = queue[k] /\ k \in 1 .. Len(queue) /\ k < j
    BY <1>1, <1>9, <1>11, <2>1, SMT
  <2>3. ~ Precedes(Us, v, p)
    BY <1>3, <2>2, Zenon DEF IInv, Sorted, InOrder
  <2>4. Precedes(Us, p, v) \/ p.stamp < v.stamp
    BY <1>3, <2>2, Zenon DEF IInv, FirstComeFirstServed
  <2>. QED
    BY <2>3, <2>4
<1>. QED
  BY <1>13, <1>14

(* A full queue gives up a packet only for one of higher priority, and then the
   one that would have gone last (replaceLowerPriorityPacket). *)
THEOREM QueueEvictsOnlyTheLast == Spec => EvictsOnlyTheLast
<1> DEFINE A == sends' # sends =>
                  \A v \in ToSet(queue) \ ToSet(queue') :
                    \A p \in ToSet(queue') :
                      /\ ~ Precedes(Us, v, p)
                      /\ Precedes(Us, p, v) \/ p.stamp < v.stamp
<1>1. ASSUME IInv, [Next]_vars
      PROVE  [A]_vars
  <2>1. SUFFICES ASSUME sends' # sends
                 PROVE  A
    OBVIOUS
  <2>2. \E from \in Nodes, id \in Ids, prio \in Priorities : Send(from, id, prio)
    BY <1>1, <2>1, Zenon DEF Next, Dequeue, Cancel, vars
  <2>. QED
    BY <1>1, <2>2, SendEvictsTheLast, Zenon
<1>2. IInv /\ [Next]_vars => [A]_vars
  BY <1>1
<1> HIDE DEF A
<1>3. Spec => [][A]_vars
  BY <1>2, InitIInv, NextIInv, PTL DEF Spec
<1>. QED
  BY <1>3 DEF EvictsOnlyTheLast, A
============================================================================
