---------------------------- MODULE MeshProofs ----------------------------
(***************************************************************************)
(* For any number of nodes, any topology, keys, channels and roles, queues *)
(* of any size and messages of any number: each action of Mesh by what it  *)
(* may change, and the invariants that follow.                             *)
(***************************************************************************)
EXTENDS Mesh, RouterProofs

(* What a phone hands to its node. *)
LEMMA FromPhoneFacts ==
  ASSUME NEW m \in Message, NEW p, p = FromPhone(m)
  PROVE  /\ p \in Packet /\ p.from = m.from /\ p.to = m.to /\ p.id = m.id /\ p.hopLimit = m.hopLimit
         /\ p.wantAck = m.wantAck /\ p.crypt = m.crypt /\ p.plain /\ p.port = m.port
         /\ p.reqId = NoId /\ p.err = "NONE"
  BY DEF Message, FromPhone, Packet, Ports, Errors, NoId

LEMMA SubmissionFacts ==
  ASSUME NEW m \in Message, m.from # m.to, NEW s, IsNodeState(s), m.id \notin DOMAIN s.pending,
         NEW over, NEW t, t = SendToMesh(m.from, s, FromPhone(m), over)
  PROVE  Submitted(m, s, t)
<1>0. PICK n \in Node : n = m.from
  BY DEF Message
<1>1. PICK p : p = FromPhone(m)
  OBVIOUS
<1>2. /\ p \in Packet /\ p.from = m.from /\ p.to = m.to /\ p.id = m.id /\ p.hopLimit = m.hopLimit
      /\ p.wantAck = m.wantAck /\ p.crypt = m.crypt /\ p.plain /\ p.port = m.port
      /\ p.reqId = NoId /\ p.err = "NONE"
  BY <1>1, FromPhoneFacts
<1>3. m.crypt # NoChannel /\ m.crypt \in Channel \cup {PKI} /\ m.wantAck \in BOOLEAN
  BY RouterAssumption DEF Message
<1>4. PICK w : w = HandleOwn(n, s, p) /\ t = ReliableSend(n, w, p, over)
  BY <1>0, <1>1, <1>2 DEF SendToMesh, SendLocal
<1>a. PICK b, T : b = s.nextId /\ T = Refusing(n, p.id)
  OBVIOUS
<1>b. Allowed(n, s, w, b, T, {}) /\ w.pending = s.pending /\ w.recent = s.recent /\ w.txQueue = s.txQueue
  BY <1>2, <1>4, <1>a, OwnAnswered DEF Answered
<1>c. IsNodeState(w) /\ b \in Nat /\ b <= w.nextId
  BY <1>a, <1>b, StateFields DEF Allowed
<1>5. CASE ~ m.wantAck
  <2>1. t = FloodingSend(n, w, p, over)
    BY <1>2, <1>4, <1>5 DEF ReliableSend
  <2>2. p.crypt # NoChannel
    BY <1>2, <1>3
  <2>3. Allowed(n, Marks(w, p), t, b, T, Sends(n, p)) /\ t.pending = w.pending
    BY <1>2, <1>a, <1>c, <2>1, <2>2, FloodingAllowed
  <2>4. PICK u, v : u = Marks(s, p) /\ v = Marks(w, p)
    OBVIOUS
  <2>5. /\ IsNodeState(u) /\ u.recent = s.recent \cup {<<p.from, p.id>>}
        /\ u.pending = s.pending /\ u.txQueue = s.txQueue /\ u.fromRadio = s.fromRadio
        /\ u.toPhone = s.toPhone /\ u.uplink = s.uplink /\ u.nextId = s.nextId /\ u.failed = s.failed
    BY <1>2, <2>4, MarksFacts
  <2>6. /\ IsNodeState(v) /\ v.recent = w.recent \cup {<<p.from, p.id>>}
        /\ v.pending = w.pending /\ v.txQueue = w.txQueue /\ v.fromRadio = w.fromRadio
        /\ v.toPhone = w.toPhone /\ v.uplink = w.uplink /\ v.nextId = w.nextId /\ v.failed = w.failed
    BY <1>2, <1>c, <2>4, MarksFacts
  <2>7. Allowed(n, u, v, b, T, {})
    BY <1>b, <2>5, <2>6, AllowedBeside
  <2>8. Allowed(n, u, t, b, T, Sends(n, p))
    BY <1>c, <2>3, <2>4, <2>5, <2>7, AllowedBoth
  <2>. QED
    BY <1>0, <1>2, <1>5, <1>a, <1>b, <2>3, <2>4, <2>8 DEF Submitted
<1>6. CASE m.wantAck
  <2>1. PICK h : h = IF p.hopLimit = 0 THEN LoraHopLimit ELSE p.hopLimit
    OBVIOUS
  <2>2. h \in Nat /\ (h = m.hopLimit \/ h = LoraHopLimit)
    BY <1>2, <2>1, RouterAssumption DEF Packet
  <2>3. PICK q : q = [p EXCEPT !.hopLimit = h]
    OBVIOUS
  <2>4. /\ q \in Packet /\ q.from = m.from /\ q.to = m.to /\ q.id = m.id /\ q.hopLimit = h
        /\ q.wantAck = m.wantAck /\ q.crypt = m.crypt /\ q.plain /\ q.port = m.port
        /\ q.reqId = NoId /\ q.err = "NONE"
    BY <1>2, <2>2, <2>3 DEF Packet
  <2>5. PICK v, z : v = StartRetransmission(n, s, q) /\ z = StartRetransmission(n, w, q)
    OBVIOUS
  <2>6. t = FloodingSend(n, z, q, over)
    BY <1>2, <1>4, <1>6, <2>1, <2>3, <2>5 DEF ReliableSend
  <2>7. StopRetransmission(n, s, q.id) = s /\ StopRetransmission(n, w, q.id) = w
    BY <1>b, <2>4 DEF StopRetransmission
  <2>8. Starts(s, q, v) /\ Starts(w, q, z)
    BY <1>c, <2>4, <2>5, <2>7, StartFacts
  <2>9. v.pending = z.pending
    BY <1>b, <1>c, <2>4, <2>8, StartBeside
  <2>10. q.crypt # NoChannel
    BY <1>3, <2>4
  <2>11. IsNodeState(z) /\ z.nextId = w.nextId /\ IsNodeState(v)
    BY <2>8 DEF Starts
  <2>12. Refusing(n, q.id) = T
    BY <1>2, <1>a, <2>4
  <2>13. Allowed(n, Marks(z, q), t, b, T, Sends(n, q)) /\ t.pending = z.pending
    BY <1>c, <2>4, <2>6, <2>10, <2>11, <2>12, FloodingAllowed
  <2>14. PICK x, y : x = Marks(v, q) /\ y = Marks(z, q)
    OBVIOUS
  <2>15. /\ IsNodeState(x) /\ x.recent = s.recent \cup {<<q.from, q.id>>}
         /\ x.pending = v.pending /\ x.txQueue = s.txQueue /\ x.fromRadio = s.fromRadio
         /\ x.toPhone = s.toPhone /\ x.uplink = s.uplink /\ x.nextId = s.nextId /\ x.failed = s.failed
    BY <2>4, <2>8, <2>11, <2>14, MarksFacts DEF Starts
  <2>16. /\ IsNodeState(y) /\ y.recent = w.recent \cup {<<q.from, q.id>>}
         /\ y.pending = z.pending /\ y.txQueue = w.txQueue /\ y.fromRadio = w.fromRadio
         /\ y.toPhone = w.toPhone /\ y.uplink = w.uplink /\ y.nextId = w.nextId /\ y.failed = w.failed
    BY <2>4, <2>8, <2>11, <2>14, MarksFacts DEF Starts
  <2>17. Allowed(n, x, y, b, T, {})
    BY <1>b, <2>9, <2>15, <2>16, AllowedBeside
  <2>18. Allowed(n, x, t, b, T, Sends(n, q))
    BY <1>c, <2>13, <2>14, <2>15, <2>17, AllowedBoth
  <2>. QED
    BY <1>0, <1>2, <1>6, <1>a, <2>2, <2>4, <2>8, <2>9, <2>13, <2>14, <2>18 DEF Submitted
<1>. QED
  BY <1>5, <1>6

---------------------------------------------------------------------------
(* The mesh.  What holds of each node whatever it has been sent, S being the *)
(* messages of the phones so far.                                           *)
Sound(n, s, S) ==
  /\ IsNodeState(s) /\ FirstId <= s.nextId
  /\ Indexed => ~ s.failed
  /\ \A p \in ToSet(s.fromRadio) : Legible(p)
  /\ \A p \in ToSet(s.txQueue) : p \in Sealed
  /\ \A i \in DOMAIN s.pending :
       /\ Recorded(n, i, s.pending[i].packet)
       /\ i >= FirstId \/ \E m \in S : m.from = n /\ m.id = i /\ m.wantAck

BaseInv ==
  /\ TypeOK
  /\ \A n \in Node : Sound(n, node[n], sent) /\ (sending[n] = NoPacket \/ sending[n] \in Sealed)

LEMMA ToldLegible ==
  ASSUME NEW n \in Node, NEW b, NEW T, NEW p \in Told(n, b, T)
  PROVE  Legible(p)
<1>1. /\ p \in Packet /\ p.plain /\ p.hopStart = 0 /\ (Indexed => p.crypt # NoChannel)
      /\ p.port # "unreadable"
  BY DEF Told, Own
<1>2. p.hopStart <= HOP_MAX
  BY <1>1 DEF HOP_MAX
<1>. QED
  BY <1>1, <1>2 DEF Legible, Readable

LEMMA SoundAfter ==
  ASSUME NEW n \in Node, NEW s, NEW S, Sound(n, s, S), NEW t, NEW b \in Nat, b >= FirstId,
         NEW T, NEW L, \A q \in L : q \in Sealed, Allowed(n, s, t, b, T, L)
  PROVE  Sound(n, t, S)
<1>1. IsNodeState(s) /\ IsNodeState(t) /\ s.nextId <= t.nextId /\ FirstId <= s.nextId
  BY DEF Sound, Allowed
<1>2. FirstId <= t.nextId
  <2>1. s.nextId \in Nat /\ t.nextId \in Nat /\ FirstId \in Nat
    BY <1>1, StateFields, MeshAssumption
  <2>. QED
    BY <1>1, <2>1, SMT
<1>3. Indexed => ~ t.failed
  BY Zenon DEF Sound, Allowed
<1>4. ASSUME NEW p \in ToSet(t.fromRadio)
      PROVE  Legible(p)
  <2>1. p \in ToSet(s.fromRadio) \cup Told(n, b, T)
    BY <1>4 DEF Allowed, Adds
  <2>. QED
    BY <2>1, ToldLegible DEF Sound
<1>5. ASSUME NEW p \in ToSet(t.txQueue)
      PROVE  p \in Sealed
  <2>1. p \in ToSet(s.txQueue) \cup (Queued(n, b, T) \cup L)
    BY <1>5 DEF Allowed, Adds
  <2>2. \A q \in Queued(n, b, T) : q \in Sealed
    BY DEF Queued
  <2>. QED
    BY <2>1, <2>2 DEF Sound
<1>6. ASSUME NEW i \in DOMAIN t.pending
      PROVE  /\ Recorded(n, i, t.pending[i].packet)
             /\ i >= FirstId \/ \E m \in S : m.from = n /\ m.id = i /\ m.wantAck
  <2>1. CASE i \in DOMAIN s.pending /\ t.pending[i] = s.pending[i]
    BY <2>1 DEF Sound
  <2>2. CASE /\ i >= b /\ t.pending[i].packet.id = i
             /\ t.pending[i].packet \in Own(n, b, T) /\ t.pending[i].packet.plain
    <3>1. i \in Nat /\ FirstId \in Nat
      BY <1>1, StateFields, MeshAssumption
    <3>2. i >= FirstId
      BY <2>2, <3>1, SMT
    <3>. QED
      BY <2>2, <3>2 DEF Recorded, Own
  <2>. QED
    BY <1>6, <2>1, <2>2, Zenon DEF Allowed
<1>. QED
  BY <1>1, <1>2, <1>3, <1>4, <1>5, <1>6 DEF Sound

(* A node is as sound after a change to what Sound does not speak of. *)
LEMMA SoundSame ==
  ASSUME NEW n, NEW s, NEW S, Sound(n, s, S), NEW t, IsNodeState(t),
         t.nextId = s.nextId, t.failed = s.failed, t.fromRadio = s.fromRadio,
         t.txQueue = s.txQueue, t.pending = s.pending
  PROVE  Sound(n, t, S)
  BY DEF Sound

LEMMA SoundMore ==
  ASSUME NEW n, NEW s, NEW S, NEW R, S \subseteq R, Sound(n, s, S)
  PROVE  Sound(n, s, R)
  BY DEF Sound

---------------------------------------------------------------------------
(* The actions, by what they may change. *)

Only(n) == DOMAIN node' = Node /\ \A k \in Node \ {n} : node'[k] = node[k]

Submits(m) ==
  /\ m \in Messages /\ m \notin sent /\ sent' = sent \cup {m}
  /\ m.id \notin DOMAIN node[m.from].pending
  /\ Only(m.from) /\ Submitted(m, node[m.from], node'[m.from])
  /\ UNCHANGED <<sending, aired, reboots>>

(* r is s without the packet p of its receive queue. *)
Taken(s, p, r) ==
  /\ IsNodeState(r) /\ p \in ToSet(s.fromRadio) /\ ToSet(r.fromRadio) \subseteq ToSet(s.fromRadio)
  /\ Drains(s.fromRadio, p, r.fromRadio)
  /\ r.pending = s.pending /\ r.recent = s.recent /\ r.txQueue = s.txQueue
  /\ r.toPhone = s.toPhone /\ r.uplink = s.uplink /\ r.nextId = s.nextId /\ r.failed = s.failed

Handling(n, p, r, t) == t = r \/ Repeated(n, r, p, t) \/ Handled(n, r, p, t)

Handles(n, p, r) ==
  /\ Taken(node[n], p, r) /\ Legible(p) /\ Handling(n, p, r, node'[n])
  /\ Only(n) /\ UNCHANGED <<sending, sent, aired, reboots>>

Retries(n, id) ==
  /\ id \in DOMAIN node[n].pending
  /\ GaveUp(n, node[n], id, node'[n]) \/ SentAgain(n, node[n], id, node'[n])
  /\ Only(n) /\ UNCHANGED <<sending, sent, aired, reboots>>

Hearkens(n, id) ==
  /\ id \in node[n].uplink
  /\ Allowed(n, node[n], node'[n], node[n].nextId, {<<n, "routing", "NONE", id>>}, {})
  /\ node'[n].pending = node[n].pending
  /\ Only(n) /\ UNCHANGED <<sending, sent, aired, reboots>>

(* t is s without the first packet p of its transmit queue. *)
Dequeued(s, p, t) ==
  /\ IsNodeState(t) /\ p \in ToSet(s.txQueue) /\ ToSet(t.txQueue) \subseteq ToSet(s.txQueue)
  /\ \A k, i : Number(t, k, i) + (IF p.from = k /\ p.id = i THEN 1 ELSE 0) <= Number(s, k, i)
  /\ t.pending = s.pending /\ t.recent = s.recent /\ t.fromRadio = s.fromRadio
  /\ t.toPhone = s.toPhone /\ t.uplink = s.uplink /\ t.nextId = s.nextId /\ t.failed = s.failed

Airs(n, p) ==
  /\ sending[n] = NoPacket /\ sending' = [sending EXCEPT ![n] = p]
  /\ Dequeued(node[n], p, node'[n]) /\ Only(n)
  /\ aired' = [aired EXCEPT ![n] =
       [m \in Messages |-> IF p.from = m.from /\ p.id = m.id THEN @[m] + 1 ELSE @[m]]]
  /\ UNCHANGED <<sent, reboots>>

Reaches(n) ==
  /\ sending[n] # NoPacket /\ sending' = [sending EXCEPT ![n] = NoPacket]
  /\ DOMAIN node' = Node /\ node'[n] = node[n]
  /\ \A r \in Node :
       node'[r] = node[r] \/ (r \in Hears[n] /\ Received(node[r], OnAir(sending[n]), node'[r]))
  /\ UNCHANGED <<sent, aired, reboots>>

Boots(n) ==
  /\ Reboot(n) /\ node'[n] = Booted(node[n].nextId) /\ Only(n)

Steps ==
  \/ \E m \in Messages : Submits(m)
  \/ \E n \in Node : \E p, r : Handles(n, p, r)
  \/ \E n \in Node : \E id \in DOMAIN node[n].pending : Retries(n, id)
  \/ \E n \in Node : \E id \in node[n].uplink : Hearkens(n, id)
  \/ \E n \in Node : \E p : Airs(n, p)
  \/ \E n \in Node : Reaches(n)
  \/ \E n \in Node : Boots(n)

LEMMA BecomesFacts ==
  ASSUME DOMAIN node = Node, NEW n \in Node, NEW s, Becomes(n, s)
  PROVE  node'[n] = s /\ Only(n)
  BY DEF Becomes, Only

ReceivedTail(s) == [s EXCEPT !.fromRadio = Tail(@)]
QueuedTail(s) == [s EXCEPT !.txQueue = Tail(@)]

LEMMA FirstTaken ==
  ASSUME NEW s, IsNodeState(s), s.fromRadio # <<>>,
         NEW r, r = ReceivedTail(s), NEW p, p = Head(s.fromRadio)
  PROVE  Taken(s, p, r)
<1>1. PICK x : x = Tail(s.fromRadio)
  OBVIOUS
<1>2. s.fromRadio \in Seq(Packet) /\ Len(s.fromRadio) \in Nat /\ Len(s.fromRadio) <= MAX_RX_FROMRADIO
      /\ MAX_RX_FROMRADIO \in Nat
  BY StateFields, LenProperties, RouterAssumption
<1>3. x \in Seq(Packet) /\ Len(x) = Len(s.fromRadio) - 1 /\ \A i \in 1 .. Len(x) : x[i] = s.fromRadio[i + 1]
  BY <1>1, <1>2, HeadTailProperties
<1>4. Len(x) <= MAX_RX_FROMRADIO /\ Len(s.fromRadio) > 0
  BY <1>2, <1>3, EmptySeq, SMT
<1>5. r = [s EXCEPT !.fromRadio = x]
  BY <1>1 DEF ReceivedTail
<1>6. /\ IsNodeState(r) /\ r.fromRadio = x
      /\ r.pending = s.pending /\ r.recent = s.recent /\ r.txQueue = s.txQueue
      /\ r.toPhone = s.toPhone /\ r.uplink = s.uplink /\ r.nextId = s.nextId /\ r.failed = s.failed
  BY <1>3, <1>4, <1>5, SetFromRadio
<1>7. p = s.fromRadio[1] /\ 1 \in 1 .. Len(s.fromRadio)
  BY <1>2, <1>4, HeadTailProperties
<1>8. p \in ToSet(s.fromRadio)
  BY <1>2, <1>7, Places
<1>9. \A i \in 1 .. Len(x) : i + 1 \in 1 .. Len(s.fromRadio)
  BY <1>2, <1>3, SMT
<1>10. ToSet(x) \subseteq ToSet(s.fromRadio)
  <2>1. SUFFICES ASSUME NEW q \in ToSet(x)
                 PROVE  q \in ToSet(s.fromRadio)
    OBVIOUS
  <2>2. PICK i \in 1 .. Len(x) : q = x[i]
    BY <1>3, Places
  <2>. QED
    BY <1>2, <1>3, <1>9, <2>2, Places
<1>11. Drains(s.fromRadio, p, x)
  BY <1>1, <1>2, TailDrains
<1>. QED
  BY <1>6, <1>8, <1>10, <1>11 DEF Taken

LEMMA FirstDequeued ==
  ASSUME NEW s, IsNodeState(s), s.txQueue # <<>>,
         NEW r, r = QueuedTail(s), NEW p, p = Head(s.txQueue)
  PROVE  Dequeued(s, p, r)
<1>1. PICK x : x = Tail(s.txQueue)
  OBVIOUS
<1>2. s.txQueue \in Seq(Packet) /\ Len(s.txQueue) \in Nat /\ Len(s.txQueue) <= MAX_TX_QUEUE
      /\ MAX_TX_QUEUE \in Nat
  BY StateFields, LenProperties, RouterAssumption
<1>3. x \in Seq(Packet) /\ Len(x) = Len(s.txQueue) - 1 /\ \A i \in 1 .. Len(x) : x[i] = s.txQueue[i + 1]
  BY <1>1, <1>2, HeadTailProperties
<1>4. Len(x) <= MAX_TX_QUEUE /\ Len(s.txQueue) > 0
  BY <1>2, <1>3, EmptySeq, SMT
<1>5. r = [s EXCEPT !.txQueue = x]
  BY <1>1 DEF QueuedTail
<1>6. /\ IsNodeState(r) /\ r.txQueue = x
      /\ r.pending = s.pending /\ r.recent = s.recent /\ r.fromRadio = s.fromRadio
      /\ r.toPhone = s.toPhone /\ r.uplink = s.uplink /\ r.nextId = s.nextId /\ r.failed = s.failed
  BY <1>3, <1>4, <1>5, SetTxQueue
<1>7. p = s.txQueue[1] /\ 1 \in 1 .. Len(s.txQueue)
  BY <1>2, <1>4, HeadTailProperties
<1>8. p \in ToSet(s.txQueue)
  BY <1>2, <1>7, Places
<1>9. \A i \in 1 .. Len(x) : i + 1 \in 1 .. Len(s.txQueue)
  BY <1>2, <1>3, SMT
<1>10. ToSet(x) \subseteq ToSet(s.txQueue)
  <2>1. SUFFICES ASSUME NEW q \in ToSet(x)
                 PROVE  q \in ToSet(s.txQueue)
    OBVIOUS
  <2>2. PICK i \in 1 .. Len(x) : q = x[i]
    BY <1>3, Places
  <2>. QED
    BY <1>2, <1>3, <1>9, <2>2, Places
<1>11. \A k, i : Cardinality(PlacesOf(x, k, i)) + (IF p.from = k /\ p.id = i THEN 1 ELSE 0)
                  <= Cardinality(PlacesOf(s.txQueue, k, i))
  BY <1>1, <1>2, TailCopies
<1>12. \A k, i : Number(r, k, i) + (IF p.from = k /\ p.id = i THEN 1 ELSE 0) <= Number(s, k, i)
  BY <1>6, <1>11 DEF Number
<1>. QED
  BY <1>6, <1>8, <1>10, <1>12 DEF Dequeued

LEMMA OnAirFacts ==
  ASSUME NEW p \in Packet, NEW q, q = OnAir(p)
  PROVE  /\ q \in Packet /\ q.from = p.from /\ q.to = p.to /\ q.id = p.id /\ q.wantAck = p.wantAck
         /\ q.hopLimit = (IF p.hopLimit > HOP_MAX THEN HOP_RELIABLE ELSE p.hopLimit)
         /\ q.hopStart = p.hopStart % 8 /\ q.hopStart <= HOP_MAX
         /\ q.crypt = p.crypt /\ q.plain = p.plain /\ q.port = p.port
         /\ q.reqId = p.reqId /\ q.err = p.err
<1>1. p.hopStart % 8 \in Nat /\ p.hopStart % 8 <= HOP_MAX
  <2>1. p.hopStart \in Nat
    BY DEF Packet
  <2>. QED
    BY <2>1, SMT DEF HOP_MAX
<1>2. (IF p.hopLimit > HOP_MAX THEN HOP_RELIABLE ELSE p.hopLimit) \in Nat
  BY DEF Packet, HOP_RELIABLE
<1>. QED
  BY <1>1, <1>2 DEF OnAir, Packet

LEMMA OnAirLegible ==
  ASSUME NEW p \in Sealed
  PROVE  OnAir(p) \in Packet /\ Legible(OnAir(p))
<1>1. PICK q : q = OnAir(p)
  OBVIOUS
<1>2. p \in Packet /\ ~ p.plain /\ p.crypt # NoChannel
  BY DEF Sealed
<1>3. q \in Packet /\ q.hopStart <= HOP_MAX /\ q.crypt = p.crypt /\ q.plain = p.plain
  BY <1>1, <1>2, OnAirFacts
<1>. QED
  BY <1>1, <1>2, <1>3 DEF Legible, Readable

LEMMA PhoneSteps ==
  ASSUME BaseInv, NEW m \in Messages, NEW over, PhoneSend(m, over)
  PROVE  Submits(m)
<1>1. m \in Message /\ m.from \in Node /\ m.from # m.to /\ m.id < FirstId
  BY MeshAssumption DEF Message
<1>2. DOMAIN node = Node /\ Sound(m.from, node[m.from], sent) /\ sent \subseteq Messages
  BY <1>1 DEF BaseInv, TypeOK
<1>3. m.id \notin DOMAIN node[m.from].pending
  <2>1. SUFFICES ASSUME m.id \in DOMAIN node[m.from].pending
                 PROVE  FALSE
    OBVIOUS
  <2>2. m.id >= FirstId \/ \E l \in sent : l.from = m.from /\ l.id = m.id /\ l.wantAck
    BY <1>2, <2>1 DEF Sound
  <2>3. ~ (m.id >= FirstId)
    <3>1. m.id \in Nat /\ FirstId \in Nat
      BY <1>1, MeshAssumption DEF Message
    <3>. QED
      BY <1>1, <3>1, SMT
  <2>4. PICK l \in sent : l.id = m.id
    BY <2>2, <2>3
  <2>5. l = m
    BY <1>2, <2>4, MeshAssumption
  <2>. QED
    BY <2>4, <2>5 DEF PhoneSend
<1>4. PICK t : t = SendToMesh(m.from, node[m.from], FromPhone(m), over)
  OBVIOUS
<1>5. Becomes(m.from, t)
  BY <1>4 DEF PhoneSend
<1>6. node'[m.from] = t /\ Only(m.from)
  BY <1>1, <1>2, <1>5, BecomesFacts
<1>7. Submitted(m, node[m.from], t)
  BY <1>1, <1>2, <1>3, <1>4, SubmissionFacts DEF Sound
<1>. QED
  BY <1>3, <1>6, <1>7 DEF Submits, PhoneSend

LEMMA HandlingSteps ==
  ASSUME BaseInv, NEW n \in Node, NEW over, HandleReceivedPacket(n, over)
  PROVE  Handles(n, Head(node[n].fromRadio), ReceivedTail(node[n]))
<1>1. PICK s : s = node[n]
  OBVIOUS
<1>2. DOMAIN node = Node /\ Sound(n, s, sent) /\ IsNodeState(s)
  BY <1>1 DEF BaseInv, TypeOK, Sound
<1>3. PICK r : r = ReceivedTail(s)
  OBVIOUS
<1>4. PICK p : p = Head(s.fromRadio)
  OBVIOUS
<1>5. PICK t : t = PerhapsHandleReceived(n, r, p, over)
  OBVIOUS
<1>6. s.fromRadio # <<>> /\ Becomes(n, t)
  BY <1>1, <1>3, <1>4, <1>5 DEF HandleReceivedPacket, ReceivedTail
<1>7. node'[n] = t /\ Only(n)
  BY <1>2, <1>6, BecomesFacts
<1>8. Taken(s, p, r)
  BY <1>2, <1>3, <1>4, <1>6, FirstTaken
<1>9. Legible(p) /\ IsNodeState(r)
  BY <1>2, <1>8 DEF Sound, Taken
<1>10. Handling(n, p, r, t)
  BY <1>5, <1>9, HandlingFacts DEF Handling
<1>11. UNCHANGED <<sending, sent, aired, reboots>>
  BY DEF HandleReceivedPacket
<1>. QED
  BY <1>1, <1>3, <1>4, <1>7, <1>8, <1>9, <1>10, <1>11 DEF Handles

LEMMA RetrySteps ==
  ASSUME BaseInv, NEW n \in Node, NEW id \in DOMAIN node[n].pending, NEW over, DoRetransmission(n, id, over)
  PROVE  Retries(n, id)
<1>1. PICK s : s = node[n]
  OBVIOUS
<1>2. DOMAIN node = Node /\ IsNodeState(s) /\ id \in DOMAIN s.pending /\ Recorded(n, id, s.pending[id].packet)
  BY <1>1 DEF BaseInv, TypeOK, Sound
<1>3. PICK t : t = Retransmission(n, s, id, over)
  OBVIOUS
<1>4. Becomes(n, t) /\ UNCHANGED <<sending, sent, aired, reboots>>
  BY <1>1, <1>3 DEF DoRetransmission
<1>5. node'[n] = t /\ Only(n)
  BY <1>2, <1>4, BecomesFacts
<1>6. GaveUp(n, s, id, t) \/ SentAgain(n, s, id, t)
  BY <1>2, <1>3, RetransmissionFacts
<1>. QED
  BY <1>1, <1>4, <1>5, <1>6 DEF Retries

LEMMA EchoSteps ==
  ASSUME BaseInv, NEW n \in Node, NEW id \in node[n].uplink, MqttReceive(n, id)
  PROVE  Hearkens(n, id)
<1>1. PICK s : s = node[n]
  OBVIOUS
<1>2. DOMAIN node = Node /\ IsNodeState(s) /\ id \in s.uplink
  BY <1>1 DEF BaseInv, TypeOK, Sound
<1>3. PICK t : t = MqttEcho(n, s, id)
  OBVIOUS
<1>4. Becomes(n, t) /\ UNCHANGED <<sending, sent, aired, reboots>>
  BY <1>1, <1>3 DEF MqttReceive
<1>5. node'[n] = t /\ Only(n)
  BY <1>2, <1>4, BecomesFacts
<1>6. Allowed(n, s, t, s.nextId, {<<n, "routing", "NONE", id>>}, {}) /\ t.pending = s.pending
  BY <1>2, <1>3, EchoFacts
<1>. QED
  BY <1>1, <1>4, <1>5, <1>6 DEF Hearkens

LEMMA AirSteps ==
  ASSUME BaseInv, NEW n \in Node, StartSend(n)
  PROVE  \E p : Airs(n, p)
<1>1. PICK s : s = node[n]
  OBVIOUS
<1>2. DOMAIN node = Node /\ IsNodeState(s)
  BY <1>1 DEF BaseInv, TypeOK, Sound
<1>3. PICK t : t = QueuedTail(s)
  OBVIOUS
<1>4. PICK p : p = Head(s.txQueue)
  OBVIOUS
<1>5. s.txQueue # <<>> /\ Becomes(n, t)
  BY <1>1, <1>3 DEF StartSend, QueuedTail
<1>6. node'[n] = t /\ Only(n)
  BY <1>2, <1>5, BecomesFacts
<1>7. Dequeued(s, p, t)
  BY <1>2, <1>3, <1>4, <1>5, FirstDequeued
<1>8. /\ sending[n] = NoPacket /\ sending' = [sending EXCEPT ![n] = p]
      /\ aired' = [aired EXCEPT ![n] =
           [m \in Messages |-> IF p.from = m.from /\ p.id = m.id THEN @[m] + 1 ELSE @[m]]]
      /\ UNCHANGED <<sent, reboots>>
  BY <1>1, <1>4 DEF StartSend
<1>. QED
  BY <1>1, <1>6, <1>7, <1>8 DEF Airs

LEMMA ReachSteps ==
  ASSUME BaseInv, NEW n \in Node, CompleteSending(n)
  PROVE  Reaches(n)
<1>1. DOMAIN node = Node /\ sending[n] # NoPacket /\ OnAir(sending[n]) \in Packet
  BY OnAirLegible DEF BaseInv, TypeOK, CompleteSending
<1>2. PICK p : p = OnAir(sending[n])
  OBVIOUS
<1>3. PICK receivers \in SUBSET {r \in Hears[n] : sending[r] = NoPacket /\ Up(r)} :
         node' = [r \in Node |-> IF r \in receivers THEN EnqueueReceivedMessage(node[r], p) ELSE node[r]]
  BY <1>2 DEF CompleteSending
<1>4. n \notin receivers
  BY <1>1
<1>5. DOMAIN node' = Node /\ node'[n] = node[n]
  BY <1>3, <1>4
<1>6. ASSUME NEW r \in Node
      PROVE  node'[r] = node[r] \/ (r \in Hears[n] /\ Received(node[r], p, node'[r]))
  <2>1. PICK t : t = node'[r]
    OBVIOUS
  <2>2. t = node[r] \/ (r \in Hears[n] /\ t = EnqueueReceivedMessage(node[r], p))
    <3>1. PICK u : u = EnqueueReceivedMessage(node[r], p)
      OBVIOUS
    <3>2. t = IF r \in receivers THEN u ELSE node[r]
      BY <1>3, <2>1, <3>1, Zenon
    <3>3. r \in receivers => r \in Hears[n]
      BY Zenon
    <3>. QED
      BY <3>1, <3>2, <3>3
  <2>3. IsNodeState(node[r]) /\ p \in Packet
    BY <1>1, <1>2 DEF BaseInv, TypeOK
  <2>4. t = EnqueueReceivedMessage(node[r], p) => Received(node[r], p, t)
    BY <2>3, ReceivedFacts
  <2>. QED
    BY <2>1, <2>2, <2>4
<1>. QED
  BY <1>1, <1>2, <1>5, <1>6 DEF Reaches, CompleteSending

LEMMA BootSteps ==
  ASSUME BaseInv, NEW n \in Node, Reboot(n)
  PROVE  Boots(n)
<1>1. DOMAIN node = Node
  BY DEF BaseInv, TypeOK
<1>2. PICK t : t = Booted(node[n].nextId)
  OBVIOUS
<1>3. Becomes(n, t)
  BY <1>2 DEF Reboot
<1>4. node'[n] = t /\ Only(n)
  BY <1>1, <1>3, BecomesFacts
<1>. QED
  BY <1>2, <1>4 DEF Boots

LEMMA NextSteps ==
  ASSUME BaseInv, Next
  PROVE  Steps
<1>1. CASE \E m \in Messages : \E over \in Over(m.from) : PhoneSend(m, over)
  BY <1>1, PhoneSteps DEF Steps
<1>2. CASE \E n \in Node : \E over \in Over(n) : HandleReceivedPacket(n, over)
  BY <1>2, HandlingSteps DEF Steps
<1>3. CASE \E n \in Node : \E id \in DOMAIN node[n].pending, over \in Over(n) : DoRetransmission(n, id, over)
  BY <1>3, RetrySteps DEF Steps
<1>4. CASE \E n \in Node : \E id \in node[n].uplink : MqttReceive(n, id)
  BY <1>4, EchoSteps DEF Steps
<1>5. CASE \E n \in Node : StartSend(n)
  BY <1>5, AirSteps DEF Steps
<1>6. CASE \E n \in Node : CompleteSending(n)
  BY <1>6, ReachSteps DEF Steps
<1>7. CASE \E n \in Node : Reboot(n)
  BY <1>7, BootSteps DEF Steps
<1>. QED
  BY <1>1, <1>2, <1>3, <1>4, <1>5, <1>6, <1>7, Zenon DEF Next

---------------------------------------------------------------------------
(* BaseInv holds throughout. *)

LEMMA BaseOnly ==
  ASSUME BaseInv, NEW n \in Node, Only(n), sent \subseteq sent', sent' \subseteq Messages,
         Sound(n, node'[n], sent'), UNCHANGED <<sending, aired, reboots>>
  PROVE  BaseInv'
<1>1. ASSUME NEW k \in Node
      PROVE  Sound(k, node'[k], sent')
  <2>1. CASE k = n
    BY <2>1
  <2>2. CASE k # n
    <3>1. node'[k] = node[k] /\ Sound(k, node[k], sent)
      BY <2>2 DEF Only, BaseInv
    <3>. QED
      BY <3>1, SoundMore
  <2>. QED
    BY <2>1, <2>2
<1>2. TypeOK'
  <2>1. \A k \in Node : IsNodeState(node'[k])
    BY <1>1 DEF Sound
  <2>. QED
    BY <2>1 DEF BaseInv, TypeOK, Only
<1>. QED
  BY <1>1, <1>2 DEF BaseInv

LEMMA BaseSubmits ==
  ASSUME BaseInv, NEW m \in Messages, Submits(m)
  PROVE  BaseInv'
<1>1. PICK n \in Node : n = m.from
  BY MeshAssumption DEF Message
<1>2. PICK s : s = node[n]
  OBVIOUS
<1>3. PICK t : t = node'[n]
  OBVIOUS
<1>4. PICK S : S = sent \cup {m}
  OBVIOUS
<1>5. PICK q, v :
    /\ q \in Packet /\ q.from = m.from /\ q.to = m.to /\ q.id = m.id /\ q.plain /\ q.wantAck = m.wantAck
    /\ q.crypt = m.crypt
    /\ IF m.wantAck THEN Starts(s, q, v) ELSE v = s
    /\ Allowed(m.from, Marks(v, q), t, s.nextId, Refusing(m.from, m.id), Sends(m.from, q))
  BY <1>1, <1>2, <1>3, Zenon DEF Submits, Submitted
<1>6. Sound(n, s, sent) /\ IsNodeState(s) /\ s.nextId \in Nat /\ FirstId <= s.nextId /\ FirstId \in Nat
  BY <1>1, <1>2, StateFields, MeshAssumption DEF BaseInv, Sound
<1>7. Sound(n, s, S)
  BY <1>4, <1>6, SoundMore
<1>8. m.crypt # NoChannel /\ m \in S
  BY <1>4, RouterAssumption, MeshAssumption DEF Message
<1>9. Sound(n, v, S)
  <2>1. CASE ~ m.wantAck
    BY <1>5, <1>7, <2>1
  <2>2. CASE m.wantAck
    <3>1. Starts(s, q, v)
      BY <1>5, <2>2
    <3>2. /\ IsNodeState(v) /\ v.nextId = s.nextId /\ v.failed = s.failed /\ v.fromRadio = s.fromRadio
          /\ v.txQueue = s.txQueue
      BY <3>1 DEF Starts
    <3>3. ASSUME NEW i \in DOMAIN v.pending
          PROVE  /\ Recorded(n, i, v.pending[i].packet)
                 /\ i >= FirstId \/ \E l \in S : l.from = n /\ l.id = i /\ l.wantAck
      <4>1. CASE i = q.id
        <5>1. v.pending[i].packet = q
          BY <3>1, <4>1 DEF Starts
        <5>2. Recorded(n, i, q)
          BY <1>1, <1>5, <1>8, <4>1 DEF Recorded
        <5>. QED
          BY <1>1, <1>5, <1>8, <2>2, <4>1, <5>1, <5>2
      <4>2. CASE i # q.id
        <5>1. i \in DOMAIN s.pending /\ v.pending[i] = s.pending[i]
          BY <3>1, <4>2 DEF Starts
        <5>. QED
          BY <1>7, <5>1 DEF Sound
      <4>. QED
        BY <4>1, <4>2
    <3>. QED
      BY <1>7, <3>2, <3>3 DEF Sound
  <2>. QED
    BY <2>1, <2>2
<1>10. PICK w : w = Marks(v, q)
  OBVIOUS
<1>11. /\ IsNodeState(w)
       /\ w.pending = v.pending /\ w.txQueue = v.txQueue /\ w.fromRadio = v.fromRadio
       /\ w.nextId = v.nextId /\ w.failed = v.failed
  BY <1>5, <1>9, <1>10, MarksFacts DEF Sound
<1>12. Sound(n, w, S)
  BY <1>9, <1>11, SoundSame
<1>13. PICK L : L = Sends(n, q) /\ \A p \in L : p \in Sealed
  BY <1>5, SendsSealed
<1>14. Allowed(n, w, t, s.nextId, Refusing(n, m.id), L)
  BY <1>1, <1>5, <1>10, <1>13
<1>15. Sound(n, t, S)
  BY <1>6, <1>12, <1>13, <1>14, SoundAfter
<1>16. sent' = S /\ S \subseteq Messages /\ sent \subseteq S /\ Only(n) /\ UNCHANGED <<sending, aired, reboots>>
  BY <1>1, <1>4 DEF Submits, BaseInv, TypeOK
<1>. QED
  BY <1>3, <1>15, <1>16, BaseOnly

LEMMA RelayedAllSealed ==
  ASSUME NEW n \in Node, NEW p, Readable(p)
  PROVE  \A q \in Relayed(n, p) : q \in Sealed /\ q.from = p.from /\ q.id = p.id /\ p.from # n
<1>1. SUFFICES ASSUME NEW q \in Relayed(n, p)
               PROVE  q \in Sealed /\ q.from = p.from /\ q.id = p.id /\ p.from # n
  OBVIOUS
<1>2. q \in Sealed
  BY RelayedSealed
<1>3. PICK e : e = [p EXCEPT !.hopLimit = @ - 1]
  OBVIOUS
<1>4. WillRebroadcast(n, p) /\ q = OnQueue(n, e)
  BY <1>3 DEF Relayed
<1>5. e \in Packet /\ e.from = p.from /\ e.id = p.id
  BY <1>3, <1>4, RelayedFacts
<1>6. q.from = e.from /\ q.id = e.id
  BY <1>4, <1>5, OnQueueFacts
<1>. QED
  BY <1>2, <1>4, <1>5, <1>6 DEF WillRebroadcast

LEMMA TakenSound ==
  ASSUME NEW n, NEW s, NEW S, Sound(n, s, S), NEW p, NEW r, Taken(s, p, r)
  PROVE  Sound(n, r, S)
  BY DEF Sound, Taken

LEMMA RemembersFacts ==
  ASSUME NEW n, NEW s, IsNodeState(s), NEW p \in Packet, NEW t, t = Remembers(n, s, p)
  PROVE  /\ IsNodeState(t) /\ t.recent = s.recent \cup {<<p.from, p.id>>}
         /\ t.toPhone = Phoned(n, s, Decoded(n, p))
         /\ t.pending = s.pending /\ t.txQueue = s.txQueue /\ t.fromRadio = s.fromRadio
         /\ t.uplink = s.uplink /\ t.nextId = s.nextId /\ t.failed = s.failed
<1>1. PICK u : u = Marks(s, p)
  OBVIOUS
<1>2. PICK x : x = Phoned(n, s, Decoded(n, p))
  OBVIOUS
<1>3. PICK d : d = Decoded(n, p)
  OBVIOUS
<1>4. x \in Seq(Packet)
  BY <1>2, <1>3, DecodedFacts, PhonedType
<1>5. /\ IsNodeState(u) /\ u.recent = s.recent \cup {<<p.from, p.id>>}
      /\ u.pending = s.pending /\ u.txQueue = s.txQueue /\ u.fromRadio = s.fromRadio
      /\ u.uplink = s.uplink /\ u.nextId = s.nextId /\ u.failed = s.failed
  BY <1>1, MarksFacts
<1>6. t = [u EXCEPT !.toPhone = x]
  BY <1>1, <1>2 DEF Remembers
<1>. QED
  BY <1>2, <1>4, <1>5, <1>6, SetToPhone

LEMMA RemembersFields ==
  ASSUME NEW n, NEW s, IsNodeState(s), NEW p \in Packet, NEW t, t = Remembers(n, s, p)
  PROVE  /\ IsNodeState(t) /\ t.recent = s.recent \cup {<<p.from, p.id>>}
         /\ t.pending = s.pending /\ t.txQueue = s.txQueue /\ t.fromRadio = s.fromRadio
         /\ t.uplink = s.uplink /\ t.nextId = s.nextId /\ t.failed = s.failed
  BY RemembersFacts

LEMMA RemembersGrows ==
  ASSUME NEW n, NEW s, IsNodeState(s), NEW p \in Packet, NEW t, t = Remembers(n, s, p)
  PROVE  /\ s.recent \subseteq t.recent /\ ToSet(s.toPhone) \subseteq ToSet(t.toPhone)
         /\ ToSet(t.toPhone) \subseteq ToSet(s.toPhone) \cup {Decoded(n, p)}
<1>1. PICK d \in Packet : d = Decoded(n, p)
  BY DecodedFacts
<1>2. t.recent = s.recent \cup {<<p.from, p.id>>} /\ t.toPhone = Phoned(n, s, d)
  BY <1>1, RemembersFacts
<1>3. s.toPhone \in Seq(Packet)
  BY StateFields
<1>4. CASE t.toPhone = s.toPhone
  BY <1>2, <1>4
<1>5. CASE t.toPhone = Append(s.toPhone, d)
  <2>1. /\ t.toPhone \in Seq(Packet) /\ Len(t.toPhone) = Len(s.toPhone) + 1 /\ Len(s.toPhone) \in Nat
        /\ \A i \in 1 .. Len(s.toPhone) : t.toPhone[i] = s.toPhone[i]
    BY <1>3, <1>5, AppendProperties, LenProperties
  <2>2. \A i \in 1 .. Len(s.toPhone) : i \in 1 .. Len(t.toPhone)
    BY <2>1, SMT
  <2>3. ToSet(s.toPhone) \subseteq ToSet(t.toPhone)
    BY <1>3, <2>1, <2>2, Places
  <2>. QED
    BY <1>1, <1>2, <1>3, <1>5, <2>3, AppendAdds
<1>. QED
  BY <1>2, <1>4, <1>5 DEF Phoned

LEMMA SoundHandling ==
  ASSUME NEW n \in Node, NEW s, NEW S, Sound(n, s, S), NEW p, Legible(p), NEW t, Handling(n, p, s, t)
  PROVE  Sound(n, t, S)
<1>1. IsNodeState(s) /\ FirstId <= s.nextId /\ s.nextId \in Nat /\ FirstId \in Nat
  BY StateFields, MeshAssumption DEF Sound
<1>2. Readable(p) /\ p \in Packet
  BY DEF Legible, Readable
<1>3. CASE t = s
  BY <1>3
<1>4. CASE Repeated(n, s, p, t)
  <2>1. PICK T : T = Answers(n, s.nextId, p, p.to = n /\ p.wantAck, Expected(n, s, p))
    OBVIOUS
  <2>2. PICK L : L = IF Direct(p) THEN Relayed(n, p) ELSE {}
    OBVIOUS
  <2>3. Allowed(n, s, t, s.nextId, T, L)
    BY <1>4, <2>1, <2>2 DEF Repeated
  <2>4. \A q \in L : q \in Sealed
    BY <1>2, <2>2, RelayedAllSealed
  <2>. QED
    BY <1>1, <2>3, <2>4, SoundAfter
<1>5. CASE Handled(n, s, p, t)
  <2>1. PICK d : d = Decoded(n, p)
    OBVIOUS
  <2>2. PICK T : T = Answers(n, s.nextId, p, Heard(n, d), Expected(n, s, p))
    OBVIOUS
  <2>3. PICK L : L = Relayed(n, d)
    OBVIOUS
  <2>4. PICK r : r = Remembers(n, s, p)
    OBVIOUS
  <2>5. Allowed(n, r, t, s.nextId, T, L)
    BY <1>5, <2>1, <2>2, <2>3, <2>4 DEF Handled
  <2>6. Readable(d)
    BY <1>2, <2>1, DecodedReadable
  <2>7. \A q \in L : q \in Sealed
    BY <2>3, <2>6, RelayedAllSealed
  <2>8. /\ IsNodeState(r) /\ r.nextId = s.nextId /\ r.failed = s.failed /\ r.fromRadio = s.fromRadio
        /\ r.txQueue = s.txQueue /\ r.pending = s.pending
    BY <1>1, <1>2, <2>4, RemembersFields
  <2>9. Sound(n, r, S)
    BY <2>8, SoundSame
  <2>. QED
    BY <1>1, <2>5, <2>7, <2>9, SoundAfter
<1>. QED
  BY <1>3, <1>4, <1>5 DEF Handling

LEMMA BaseHandles ==
  ASSUME BaseInv, NEW n \in Node, NEW p, NEW r, Handles(n, p, r)
  PROVE  BaseInv'
<1>1. Sound(n, node[n], sent)
  BY DEF BaseInv
<1>2. Sound(n, r, sent)
  BY <1>1, TakenSound DEF Handles
<1>3. PICK t : t = node'[n]
  OBVIOUS
<1>4. Sound(n, t, sent)
  BY <1>2, <1>3, SoundHandling DEF Handles
<1>5. sent' = sent /\ sent \subseteq Messages
  BY DEF Handles, BaseInv, TypeOK
<1>. QED
  BY <1>3, <1>4, <1>5, BaseOnly DEF Handles

LEMMA BaseRetries ==
  ASSUME BaseInv, NEW n \in Node, NEW id, Retries(n, id)
  PROVE  BaseInv'
<1>1. PICK s : s = node[n]
  OBVIOUS
<1>2. PICK t : t = node'[n]
  OBVIOUS
<1>3. /\ Sound(n, s, sent) /\ IsNodeState(s) /\ id \in DOMAIN s.pending /\ FirstId <= s.nextId
      /\ s.nextId \in Nat /\ FirstId \in Nat /\ Recorded(n, id, s.pending[id].packet)
  BY <1>1, StateFields, MeshAssumption DEF BaseInv, Sound, Retries
<1>4. Sound(n, t, sent)
  <2>1. CASE GaveUp(n, s, id, t)
    <3>1. Allowed(n, s, t, s.nextId, {<<n, "routing", "MAX_RETRANSMIT", id>>}, {})
      BY <2>1 DEF GaveUp
    <3>. QED
      BY <1>3, <3>1, SoundAfter
  <2>2. CASE SentAgain(n, s, id, t)
    <3>1. PICK p : p = s.pending[id].packet
      OBVIOUS
    <3>2. PICK v : Allowed(n, Marks(s, p), v, s.nextId, Refusing(n, id), Sends(n, p)) /\ CountsDown(v, id, t)
      BY <2>2, <3>1 DEF SentAgain
    <3>3. p \in Packet
      BY <1>3, <3>1 DEF Recorded
    <3>4. PICK L : L = Sends(n, p) /\ \A q \in L : q \in Sealed
      BY <3>3, SendsSealed
    <3>5. PICK w : w = Marks(s, p)
      OBVIOUS
    <3>6. /\ IsNodeState(w)
          /\ w.pending = s.pending /\ w.txQueue = s.txQueue /\ w.fromRadio = s.fromRadio
          /\ w.nextId = s.nextId /\ w.failed = s.failed
      BY <1>3, <3>3, <3>5, MarksFacts
    <3>7. Sound(n, w, sent)
      BY <1>3, <3>6, SoundSame
    <3>8. Allowed(n, w, v, s.nextId, Refusing(n, id), L)
      BY <3>2, <3>4, <3>5
    <3>9. Sound(n, v, sent)
      BY <1>3, <3>4, <3>7, <3>8, SoundAfter
    <3>10. /\ IsNodeState(t) /\ t.nextId = v.nextId /\ t.failed = v.failed /\ t.fromRadio = v.fromRadio
           /\ t.txQueue = v.txQueue /\ DOMAIN t.pending = DOMAIN v.pending
           /\ \A i \in DOMAIN t.pending : t.pending[i].packet = v.pending[i].packet
      <4>1. CountsDown(v, id, t)
        BY <3>2
      <4>2. \A i \in DOMAIN t.pending : t.pending[i].packet = v.pending[i].packet
        BY <4>1 DEF CountsDown
      <4>. QED
        BY <4>1, <4>2 DEF CountsDown
    <3>. QED
      BY <3>9, <3>10 DEF Sound
  <2>. QED
    BY <1>1, <1>2, <2>1, <2>2 DEF Retries
<1>5. sent' = sent /\ sent \subseteq Messages
  BY DEF Retries, BaseInv, TypeOK
<1>. QED
  BY <1>2, <1>4, <1>5, BaseOnly DEF Retries

LEMMA BaseHearkens ==
  ASSUME BaseInv, NEW n \in Node, NEW id, Hearkens(n, id)
  PROVE  BaseInv'
<1>1. PICK s : s = node[n]
  OBVIOUS
<1>2. PICK t : t = node'[n]
  OBVIOUS
<1>3. Sound(n, s, sent) /\ IsNodeState(s) /\ FirstId <= s.nextId /\ s.nextId \in Nat /\ FirstId \in Nat
  BY <1>1, StateFields, MeshAssumption DEF BaseInv, Sound
<1>4. Allowed(n, s, t, s.nextId, {<<n, "routing", "NONE", id>>}, {})
  BY <1>1, <1>2 DEF Hearkens
<1>5. Sound(n, t, sent)
  BY <1>3, <1>4, SoundAfter
<1>6. sent' = sent /\ sent \subseteq Messages
  BY DEF Hearkens, BaseInv, TypeOK
<1>. QED
  BY <1>2, <1>5, <1>6, BaseOnly DEF Hearkens

LEMMA BaseAirs ==
  ASSUME BaseInv, NEW n \in Node, NEW p, Airs(n, p)
  PROVE  BaseInv'
<1>1. PICK s : s = node[n]
  OBVIOUS
<1>2. PICK t : t = node'[n]
  OBVIOUS
<1>3. Sound(n, s, sent) /\ Dequeued(s, p, t)
  BY <1>1, <1>2 DEF BaseInv, Airs
<1>4. Sound(n, t, sent) /\ p \in Sealed /\ p \in Packet
  BY <1>3 DEF Sound, Dequeued, Sealed
<1>5. \A k \in Node : Sound(k, node'[k], sent)
  BY <1>2, <1>4 DEF Airs, Only, BaseInv
<1>6. \A k \in Node : sending'[k] = NoPacket \/ sending'[k] \in Sealed
  BY <1>4 DEF Airs, BaseInv, TypeOK
<1>7. TypeOK'
  <2>1. sending' \in [Node -> Packet \cup {NoPacket}]
    BY <1>4 DEF Airs, BaseInv, TypeOK
  <2>2. PICK a : a = [m \in Messages |-> IF p.from = m.from /\ p.id = m.id THEN aired[n][m] + 1 ELSE aired[n][m]]
    OBVIOUS
  <2>3. a \in [Messages -> Nat]
    <3>1. \A m \in Messages : aired[n][m] \in Nat
      BY DEF BaseInv, TypeOK
    <3>. QED
      BY <2>2, <3>1
  <2>4. aired' = [aired EXCEPT ![n] = a]
    BY <2>2 DEF Airs
  <2>5. aired' \in [Node -> [Messages -> Nat]]
    BY <2>3, <2>4 DEF BaseInv, TypeOK
  <2>6. DOMAIN node' = Node /\ \A k \in Node : IsNodeState(node'[k])
    BY <1>5 DEF Sound, Airs, Only
  <2>. QED
    BY <2>1, <2>5, <2>6 DEF Airs, BaseInv, TypeOK
<1>. QED
  BY <1>5, <1>6, <1>7 DEF BaseInv, Airs

LEMMA SoundReceived ==
  ASSUME NEW n, NEW s, NEW S, Sound(n, s, S), NEW p, Legible(p), NEW t, Received(s, p, t)
  PROVE  Sound(n, t, S)
<1>1. \A q \in ToSet(t.fromRadio) : q \in ToSet(s.fromRadio) \/ q = p
  BY DEF Received, Adds
<1>2. \A q \in ToSet(t.fromRadio) : Legible(q)
  BY <1>1 DEF Sound
<1>. QED
  BY <1>2 DEF Sound, Received

LEMMA BaseReaches ==
  ASSUME BaseInv, NEW n \in Node, Reaches(n)
  PROVE  BaseInv'
<1>1. Legible(OnAir(sending[n]))
  BY OnAirLegible DEF BaseInv, Reaches
<1>2. ASSUME NEW k \in Node
      PROVE  Sound(k, node'[k], sent)
  <2>1. Sound(k, node[k], sent)
    BY DEF BaseInv
  <2>2. PICK t : t = node'[k]
    OBVIOUS
  <2>3. PICK p : p = OnAir(sending[n])
    OBVIOUS
  <2>4. t = node[k] \/ Received(node[k], p, t)
    BY <2>2, <2>3 DEF Reaches
  <2>. QED
    BY <1>1, <2>1, <2>2, <2>3, <2>4, SoundReceived
<1>3. \A k \in Node : sending'[k] = NoPacket \/ sending'[k] \in Sealed
  BY DEF Reaches, BaseInv, TypeOK
<1>4. TypeOK'
  <2>1. sending' \in [Node -> Packet \cup {NoPacket}]
    BY DEF Reaches, BaseInv, TypeOK
  <2>2. \A k \in Node : IsNodeState(node'[k])
    BY <1>2 DEF Sound
  <2>. QED
    BY <2>1, <2>2 DEF Reaches, BaseInv, TypeOK
<1>. QED
  BY <1>2, <1>3, <1>4 DEF BaseInv, Reaches

LEMMA BootedFacts ==
  ASSUME NEW k \in Nat, NEW s, s = Booted(k)
  PROVE  /\ IsNodeState(s) /\ DOMAIN s.pending = {} /\ s.recent = {} /\ s.txQueue = <<>> /\ s.fromRadio = <<>>
         /\ s.toPhone = <<>> /\ s.uplink = {} /\ s.nextId = k /\ ~ s.failed
         /\ ToSet(s.txQueue) = {} /\ ToSet(s.fromRadio) = {} /\ ToSet(s.toPhone) = {}
         /\ \A from, id : Number(s, from, id) = 0
<1>1. /\ s.pending = [i \in {} |-> i] /\ s.recent = {} /\ s.txQueue = <<>> /\ s.fromRadio = <<>>
      /\ s.toPhone = <<>> /\ s.uplink = {} /\ s.nextId = k /\ s.failed = FALSE
  BY DEF Booted
<1>2. DOMAIN s.pending = {}
  BY <1>1
<1>3. s.pending \in [DOMAIN s.pending -> Pending]
  BY <1>1, <1>2
<1>4. /\ <<>> \in Seq(Packet) /\ Len(<<>>) = 0 /\ ToSet(<<>>) = {}
  BY DEF ToSet
<1>5. 0 <= MAX_TX_QUEUE /\ 0 <= MAX_RX_FROMRADIO
  BY RouterAssumption
<1>6. IsNodeState(s)
  <2>1. s \in [pending : {s.pending}, recent : SUBSET (Node \X Nat),
            txQueue : Seq(Packet), fromRadio : Seq(Packet), toPhone : Seq(Packet),
            uplink : SUBSET Nat, nextId : Nat, failed : BOOLEAN]
    BY <1>4 DEF Booted
  <2>. QED
    BY <1>1, <1>2, <1>3, <1>4, <1>5, <2>1 DEF IsNodeState
<1>7. \A from, id : PlacesOf(<<>>, from, id) = {}
  BY DEF PlacesOf
<1>8. \A from, id : Number(s, from, id) = 0
  BY <1>1, <1>7, FS_EmptySet DEF Number
<1>. QED
  BY <1>1, <1>2, <1>4, <1>6, <1>8

LEMMA BootedSound ==
  ASSUME NEW n, NEW k \in Nat, FirstId <= k, NEW S
  PROVE  Sound(n, Booted(k), S)
<1>1. PICK s : s = Booted(k)
  OBVIOUS
<1>2. /\ IsNodeState(s) /\ DOMAIN s.pending = {} /\ s.nextId = k /\ ~ s.failed
      /\ ToSet(s.txQueue) = {} /\ ToSet(s.fromRadio) = {}
  BY <1>1, BootedFacts
<1>. QED
  BY <1>1, <1>2 DEF Sound

LEMMA BaseBoots ==
  ASSUME BaseInv, NEW n \in Node, Boots(n)
  PROVE  BaseInv'
<1>1. PICK t : t = node'[n]
  OBVIOUS
<1>2. node[n].nextId \in Nat /\ FirstId <= node[n].nextId
  BY StateFields DEF BaseInv, Sound
<1>3. Sound(n, t, sent)
  BY <1>1, <1>2, BootedSound DEF Boots
<1>4. \A k \in Node : Sound(k, node'[k], sent)
  BY <1>1, <1>3 DEF Boots, Only, BaseInv
<1>5. sending' = [sending EXCEPT ![n] = NoPacket] /\ UNCHANGED <<sent, aired>>
  BY DEF Boots, Reboot
<1>6. \A k \in Node : sending'[k] = NoPacket \/ sending'[k] \in Sealed
  BY <1>5 DEF BaseInv, TypeOK
<1>7. TypeOK'
  <2>1. sending' \in [Node -> Packet \cup {NoPacket}]
    BY <1>5 DEF BaseInv, TypeOK
  <2>2. reboots' \in Nat
    BY DEF Boots, Reboot, BaseInv, TypeOK
  <2>3. DOMAIN node' = Node /\ \A k \in Node : IsNodeState(node'[k])
    BY <1>4 DEF Sound, Boots, Only
  <2>. QED
    BY <1>5, <2>1, <2>2, <2>3 DEF BaseInv, TypeOK
<1>. QED
  BY <1>4, <1>5, <1>6, <1>7 DEF BaseInv

LEMMA BaseInit ==
  ASSUME Init
  PROVE  BaseInv
<1>1. FirstId \in Nat /\ FirstId <= FirstId
  BY MeshAssumption
<1>2. DOMAIN node = Node /\ \A n \in Node : Sound(n, node[n], sent)
  BY <1>1, BootedSound DEF Init
<1>3. TypeOK
  <2>1. \A n \in Node : IsNodeState(node[n])
    BY <1>2 DEF Sound
  <2>2. aired \in [Node -> [Messages -> Nat]]
    BY DEF Init
  <2>. QED
    BY <1>2, <2>1, <2>2 DEF Init, TypeOK
<1>4. \A n \in Node : sending[n] = NoPacket
  BY DEF Init
<1>. QED
  BY <1>2, <1>3, <1>4 DEF BaseInv

LEMMA BaseNext ==
  ASSUME BaseInv, [Next]_vars
  PROVE  BaseInv'
<1>1. CASE UNCHANGED vars
  BY <1>1 DEF BaseInv, TypeOK, vars
<1>2. CASE Next
  BY <1>2, NextSteps, BaseSubmits, BaseHandles, BaseRetries, BaseHearkens, BaseAirs, BaseReaches, BaseBoots
     DEF Steps
<1>. QED
  BY <1>1, <1>2

LEMMA BaseAlways == Spec => []BaseInv
<1>1. Init => BaseInv
  BY BaseInit
<1>2. BaseInv /\ [Next]_vars => BaseInv'
  BY BaseNext
<1>. QED
  BY <1>1, <1>2, PTL DEF Spec

(* TypeOK (Mesh): whatever the phones send and the channel loses, every      *)
(* node's queues stay within their capacities and hold packets, and its       *)
(* pending records are of packets (the arrays and maps of Router,             *)
(* ReliableRouter and RadioLibInterface).                                     *)
THEOREM MeshTypeOK == Spec => []TypeOK
<1>1. BaseInv => TypeOK
  BY DEF BaseInv
<1>. QED
  BY <1>1, BaseAlways, PTL

---------------------------------------------------------------------------
(* What the phone has been given is remembered, so it is given once. *)

Delivery(s) ==
  /\ \A i \in 1 .. Len(s.toPhone) : <<s.toPhone[i].from, s.toPhone[i].id>> \in s.recent
  /\ \A i, j \in 1 .. Len(s.toPhone) :
       i # j /\ s.toPhone[i].from = s.toPhone[j].from => s.toPhone[i].id # s.toPhone[j].id

DeliveryInv == \A n \in Node : Delivery(node[n])

LEMMA DeliveryKept ==
  ASSUME NEW s, Delivery(s), NEW t, t.toPhone = s.toPhone, s.recent \subseteq t.recent
  PROVE  Delivery(t)
  BY DEF Delivery

LEMMA DeliveryAppends ==
  ASSUME NEW s, IsNodeState(s), Delivery(s), NEW p \in Packet, <<p.from, p.id>> \notin s.recent,
         NEW t, t.toPhone = Append(s.toPhone, p), t.recent = s.recent \cup {<<p.from, p.id>>}
  PROVE  Delivery(t)
<1>1. s.toPhone \in Seq(Packet) /\ Len(s.toPhone) \in Nat
  BY StateFields, LenProperties
<1>2. PICK k \in Nat : k = Len(s.toPhone) + 1
  BY <1>1
<1>3. /\ Len(t.toPhone) = k /\ t.toPhone[k] = p
      /\ \A i \in 1 .. Len(s.toPhone) : t.toPhone[i] = s.toPhone[i]
  BY <1>1, <1>2, AppendProperties
<1>4. \A i \in 1 .. Len(t.toPhone) : i \in 1 .. Len(s.toPhone) \/ i = k
  BY <1>1, <1>2, <1>3, SMT
<1>5. \A i \in 1 .. Len(t.toPhone) : <<t.toPhone[i].from, t.toPhone[i].id>> \in t.recent
  BY <1>3, <1>4 DEF Delivery
<1>6. ASSUME NEW i \in 1 .. Len(t.toPhone), NEW j \in 1 .. Len(t.toPhone), i # j,
             t.toPhone[i].from = t.toPhone[j].from
      PROVE  t.toPhone[i].id # t.toPhone[j].id
  <2>1. CASE i \in 1 .. Len(s.toPhone) /\ j \in 1 .. Len(s.toPhone)
    BY <1>3, <1>6, <2>1 DEF Delivery
  <2>2. CASE i = k /\ j \in 1 .. Len(s.toPhone)
    <3>1. <<t.toPhone[j].from, t.toPhone[j].id>> \in s.recent /\ t.toPhone[i] = p
      BY <1>3, <2>2 DEF Delivery
    <3>. QED
      BY <1>6, <3>1
  <2>3. CASE j = k /\ i \in 1 .. Len(s.toPhone)
    <3>1. <<t.toPhone[i].from, t.toPhone[i].id>> \in s.recent /\ t.toPhone[j] = p
      BY <1>3, <2>3 DEF Delivery
    <3>. QED
      BY <1>6, <3>1
  <2>. QED
    BY <1>4, <1>6, <2>1, <2>2, <2>3
<1>. QED
  BY <1>5, <1>6 DEF Delivery

LEMMA DeliveryHandling ==
  ASSUME NEW n \in Node, NEW s, IsNodeState(s), Delivery(s), NEW p \in Packet,
         NEW t, Handling(n, p, s, t)
  PROVE  Delivery(t)
<1>1. CASE t = s
  BY <1>1
<1>2. CASE Repeated(n, s, p, t)
  <2>1. t.toPhone = s.toPhone /\ s.recent \subseteq t.recent
    BY <1>2 DEF Repeated, Allowed
  <2>. QED
    BY <2>1, DeliveryKept
<1>3. CASE Handled(n, s, p, t)
  <2>1. PICK r : r = Remembers(n, s, p)
    OBVIOUS
  <2>2. t.toPhone = r.toPhone /\ r.recent \subseteq t.recent /\ <<p.from, p.id>> \notin s.recent
    BY <1>3, <2>1 DEF Handled, Allowed
  <2>3. PICK d \in Packet : d = Decoded(n, p) /\ d.from = p.from /\ d.id = p.id
    BY DecodedFacts
  <2>4. /\ r.recent = s.recent \cup {<<d.from, d.id>>}
        /\ r.toPhone = s.toPhone \/ r.toPhone = Append(s.toPhone, d)
    <3>1. /\ r.recent = s.recent \cup {<<p.from, p.id>>}
          /\ r.toPhone = Phoned(n, s, d)
      BY <2>1, <2>3, RemembersFacts
    <3>2. Phoned(n, s, d) = s.toPhone \/ Phoned(n, s, d) = Append(s.toPhone, d)
      BY DEF Phoned
    <3>. QED
      BY <2>3, <3>1, <3>2
  <2>5. Delivery(r)
    <3>1. CASE r.toPhone = s.toPhone
      BY <2>4, <3>1, DeliveryKept
    <3>2. CASE r.toPhone = Append(s.toPhone, d)
      BY <2>2, <2>3, <2>4, <3>2, DeliveryAppends
    <3>. QED
      BY <2>4, <3>1, <3>2
  <2>. QED
    BY <2>2, <2>5, DeliveryKept
<1>. QED
  BY <1>1, <1>2, <1>3 DEF Handling

(* In every other step a node's phone is given nothing. *)
LEMMA SubmitsKeeps ==
  ASSUME NEW m \in Messages, NEW s, IsNodeState(s), NEW t, Submitted(m, s, t)
  PROVE  t.toPhone = s.toPhone /\ s.recent \cup {<<m.from, m.id>>} \subseteq t.recent
<1>1. PICK q, v :
    /\ q \in Packet /\ q.from = m.from /\ q.id = m.id
    /\ IF m.wantAck THEN Starts(s, q, v) ELSE v = s
    /\ Allowed(m.from, Marks(v, q), t, s.nextId, Refusing(m.from, m.id), Sends(m.from, q))
  BY Zenon DEF Submitted
<1>2. IsNodeState(v) /\ v.toPhone = s.toPhone /\ v.recent = s.recent
  <2>1. CASE m.wantAck
    BY <1>1, <2>1 DEF Starts
  <2>2. CASE ~ m.wantAck
    BY <1>1, <2>2
  <2>. QED
    BY <2>1, <2>2
<1>3. PICK w : w = Marks(v, q)
  OBVIOUS
<1>4. w.toPhone = v.toPhone /\ w.recent = v.recent \cup {<<q.from, q.id>>}
  BY <1>1, <1>2, <1>3, MarksFacts
<1>5. t.toPhone = w.toPhone /\ w.recent \subseteq t.recent
  BY <1>1, <1>3 DEF Allowed
<1>. QED
  BY <1>1, <1>2, <1>4, <1>5

LEMMA RetriesKeeps ==
  ASSUME NEW n \in Node, NEW s, IsNodeState(s), NEW id, Recorded(n, id, s.pending[id].packet),
         NEW t, GaveUp(n, s, id, t) \/ SentAgain(n, s, id, t)
  PROVE  t.toPhone = s.toPhone /\ s.recent \subseteq t.recent
<1>1. CASE GaveUp(n, s, id, t)
  BY <1>1 DEF GaveUp, Allowed
<1>2. CASE SentAgain(n, s, id, t)
  <2>1. PICK p \in Packet : p = s.pending[id].packet
    BY DEF Recorded
  <2>2. PICK v : Allowed(n, Marks(s, p), v, s.nextId, Refusing(n, id), Sends(n, p)) /\ CountsDown(v, id, t)
    BY <1>2, <2>1 DEF SentAgain
  <2>3. PICK w : w = Marks(s, p)
    OBVIOUS
  <2>4. w.toPhone = s.toPhone /\ s.recent \subseteq w.recent
    BY <2>3, MarksFacts
  <2>5. v.toPhone = w.toPhone /\ w.recent \subseteq v.recent
    BY <2>2, <2>3 DEF Allowed
  <2>6. t.toPhone = v.toPhone /\ t.recent = v.recent
    BY <2>2 DEF CountsDown
  <2>. QED
    BY <2>4, <2>5, <2>6
<1>. QED
  BY <1>1, <1>2

(* But for a reboot, a node's history only grows, and what its phone has   *)
(* been given changes only when it handles a packet.                       *)
Keeps(n) == node'[n].toPhone = node[n].toPhone /\ node[n].recent \subseteq node'[n].recent

LEMMA StepsKeep ==
  ASSUME BaseInv, Steps, NEW k \in Node
  PROVE  Keeps(k) \/ (\E p, r : Handles(k, p, r)) \/ Boots(k)
<1>1. IsNodeState(node[k]) /\ \A id \in DOMAIN node[k].pending : Recorded(k, id, node[k].pending[id].packet)
  BY DEF BaseInv, Sound
<1>2. node'[k] = node[k] => Keeps(k)
  BY DEF Keeps
<1>3. ASSUME NEW m \in Messages, Submits(m)
      PROVE  Keeps(k)
  <2>1. CASE m.from = k
    <3>1. PICK t : t = node'[k]
      OBVIOUS
    <3>2. Submitted(m, node[k], t)
      BY <1>3, <2>1, <3>1 DEF Submits
    <3>3. t.toPhone = node[k].toPhone /\ node[k].recent \cup {<<m.from, m.id>>} \subseteq t.recent
      BY <1>1, <3>2, SubmitsKeeps
    <3>. QED
      BY <3>1, <3>3 DEF Keeps
  <2>2. CASE m.from # k
    <3>1. Only(m.from) /\ k \in Node \ {m.from}
      BY <1>3, <2>2 DEF Submits
    <3>2. node'[k] = node[k]
      BY <3>1 DEF Only
    <3>. QED
      BY <1>2, <3>2
  <2>. QED
    BY <2>1, <2>2
<1>4. ASSUME NEW n \in Node, NEW p, NEW r, Handles(n, p, r)
      PROVE  Keeps(k) \/ (\E q, u : Handles(k, q, u))
  <2>1. CASE n = k
    BY <1>4, <2>1
  <2>2. CASE n # k
    <3>1. Only(n) /\ k \in Node \ {n}
      BY <1>4, <2>2 DEF Handles
    <3>2. node'[k] = node[k]
      BY <3>1 DEF Only
    <3>. QED
      BY <1>2, <3>2
  <2>. QED
    BY <2>1, <2>2
<1>5. ASSUME NEW n \in Node, NEW id, Retries(n, id)
      PROVE  Keeps(k)
  <2>1. CASE n = k
    <3>1. PICK t : t = node'[k]
      OBVIOUS
    <3>2. GaveUp(k, node[k], id, t) \/ SentAgain(k, node[k], id, t)
      BY <1>5, <2>1, <3>1 DEF Retries
    <3>3. Recorded(k, id, node[k].pending[id].packet)
      BY <1>1, <1>5, <2>1 DEF Retries
    <3>4. t.toPhone = node[k].toPhone /\ node[k].recent \subseteq t.recent
      BY <1>1, <3>2, <3>3, RetriesKeeps
    <3>. QED
      BY <3>1, <3>4 DEF Keeps
  <2>2. CASE n # k
    <3>1. Only(n) /\ k \in Node \ {n}
      BY <1>5, <2>2 DEF Retries
    <3>2. node'[k] = node[k]
      BY <3>1 DEF Only
    <3>. QED
      BY <1>2, <3>2
  <2>. QED
    BY <2>1, <2>2
<1>6. ASSUME NEW n \in Node, NEW id, Hearkens(n, id)
      PROVE  Keeps(k)
  <2>1. CASE n = k
    BY <1>6, <2>1 DEF Hearkens, Allowed, Keeps
  <2>2. CASE n # k
    <3>1. Only(n) /\ k \in Node \ {n}
      BY <1>6, <2>2 DEF Hearkens
    <3>2. node'[k] = node[k]
      BY <3>1 DEF Only
    <3>. QED
      BY <1>2, <3>2
  <2>. QED
    BY <2>1, <2>2
<1>7. ASSUME NEW n \in Node, NEW p, Airs(n, p)
      PROVE  Keeps(k)
  <2>1. CASE n = k
    BY <1>7, <2>1 DEF Airs, Dequeued, Keeps
  <2>2. CASE n # k
    <3>1. Only(n) /\ k \in Node \ {n}
      BY <1>7, <2>2 DEF Airs
    <3>2. node'[k] = node[k]
      BY <3>1 DEF Only
    <3>. QED
      BY <1>2, <3>2
  <2>. QED
    BY <2>1, <2>2
<1>8. ASSUME NEW n \in Node, Reaches(n)
      PROVE  Keeps(k)
  <2>1. node'[k] = node[k] \/ Received(node[k], OnAir(sending[n]), node'[k])
    BY <1>8 DEF Reaches
  <2>. QED
    BY <1>2, <2>1 DEF Received, Keeps
<1>9. ASSUME NEW n \in Node, Boots(n)
      PROVE  Keeps(k) \/ Boots(k)
  <2>1. CASE n = k
    BY <1>9, <2>1
  <2>2. CASE n # k
    <3>1. Only(n) /\ k \in Node \ {n}
      BY <1>9, <2>2 DEF Boots
    <3>2. node'[k] = node[k]
      BY <3>1 DEF Only
    <3>. QED
      BY <1>2, <3>2
  <2>. QED
    BY <2>1, <2>2
<1>. QED
  BY <1>3, <1>4, <1>5, <1>6, <1>7, <1>8, <1>9 DEF Steps

LEMMA DeliveryNext ==
  ASSUME BaseInv, DeliveryInv, [Next]_vars
  PROVE  DeliveryInv'
<1>1. CASE UNCHANGED vars
  BY <1>1 DEF DeliveryInv, vars
<1>2. CASE Next
  <2>1. SUFFICES ASSUME NEW k \in Node
                 PROVE  Delivery(node'[k])
    BY DEF DeliveryInv
  <2>2. PICK s : s = node[k]
    OBVIOUS
  <2>3. PICK t : t = node'[k]
    OBVIOUS
  <2>4. Delivery(s) /\ IsNodeState(s) /\ s.nextId \in Nat
    BY <2>2, StateFields DEF DeliveryInv, BaseInv, Sound
  <2>5. CASE Keeps(k)
    <3>1. t.toPhone = s.toPhone /\ s.recent \subseteq t.recent
      BY <2>2, <2>3, <2>5 DEF Keeps
    <3>. QED
      BY <2>3, <2>4, <3>1, DeliveryKept
  <2>6. ASSUME NEW p, NEW r, Handles(k, p, r)
        PROVE  Delivery(t)
    <3>1. /\ IsNodeState(r) /\ r.toPhone = s.toPhone /\ r.recent = s.recent
          /\ p \in Packet /\ Handling(k, p, r, t)
      BY <2>2, <2>3, <2>6 DEF Handles, Taken, Legible, Readable
    <3>2. Delivery(r)
      BY <2>4, <3>1, DeliveryKept
    <3>. QED
      BY <3>1, <3>2, DeliveryHandling
  <2>7. CASE Boots(k)
    <3>1. t.toPhone = <<>>
      BY <2>2, <2>3, <2>4, <2>7, BootedFacts DEF Boots
    <3>2. Len(t.toPhone) = 0
      BY <3>1
    <3>3. 1 .. Len(t.toPhone) = {}
      BY <3>2
    <3>. QED
      BY <2>3, <3>3 DEF Delivery
  <2>8. Steps
    BY <1>2, NextSteps
  <2>. QED
    BY <2>3, <2>5, <2>6, <2>7, <2>8, StepsKeep
<1>. QED
  BY <1>1, <1>2

(* DeliveredOnce: a phone is given a packet once, however many copies of it   *)
(* arrive by whatever paths, because a packet is remembered before it is      *)
(* given to the modules (PacketHistory::wasSeenRecently in                    *)
(* FloodingRouter::shouldFilterReceived) and, until a reboot, not forgotten.  *)
THEOREM MeshDeliveredOnce == Spec => []DeliveredOnce
<1>1. Init => DeliveryInv
  <2>1. SUFFICES ASSUME Init, NEW n \in Node
                 PROVE  Delivery(node[n])
    BY DEF DeliveryInv
  <2>2. Len(node[n].toPhone) = 0
    BY <2>1 DEF Init, Booted
  <2>3. 1 .. Len(node[n].toPhone) = {}
    BY <2>2
  <2>. QED
    BY <2>3 DEF Delivery
<1>2. BaseInv /\ DeliveryInv /\ [Next]_vars => DeliveryInv'
  BY DeliveryNext
<1>3. BaseInv /\ DeliveryInv => DeliveredOnce
  <2>1. SUFFICES ASSUME BaseInv, DeliveryInv, NEW n \in Node, NEW i \in DOMAIN node[n].toPhone,
                        NEW j \in DOMAIN node[n].toPhone, i # j,
                        node[n].toPhone[i].from = node[n].toPhone[j].from
                 PROVE  node[n].toPhone[i].id # node[n].toPhone[j].id
    BY DEF DeliveredOnce
  <2>2. node[n].toPhone \in Seq(Packet)
    <3>1. IsNodeState(node[n])
      BY <2>1 DEF BaseInv, Sound
    <3>. QED
      BY <3>1, StateFields
  <2>3. DOMAIN node[n].toPhone = 1 .. Len(node[n].toPhone)
    BY <2>2, LenProperties
  <2>. QED
    BY <2>1, <2>3 DEF DeliveryInv, Delivery
<1>. QED
  BY <1>1, <1>2, <1>3, BaseAlways, PTL DEF Spec

---------------------------------------------------------------------------
(* How often a message is sent at all. *)

Left(s, id) == IF id \in DOMAIN s.pending THEN s.pending[id].left ELSE 0

(* What is still to go out for the message m of the state s of its origin. *)
Spare(s, m) == Number(s, m.from, m.id) + Left(s, m.id)

Budget(m) == IF m.wantAck THEN NUM_RETRANSMISSIONS ELSE 1

Spent(m) == aired[m.from][m] + Spare(node[m.from], m)

AttemptsInv == \A m \in Messages : Spent(m) <= IF m \in sent THEN Budget(m) ELSE 0

LEMMA LeftType ==
  ASSUME NEW s, IsNodeState(s), NEW id
  PROVE  Left(s, id) \in Nat
  BY StateFields DEF Left, Pending

LEMMA SpareType ==
  ASSUME NEW s, IsNodeState(s), NEW m
  PROVE  Spare(s, m) \in Nat /\ Number(s, m.from, m.id) \in Nat /\ Left(s, m.id) \in Nat
<1>1. Number(s, m.from, m.id) \in Nat /\ Left(s, m.id) \in Nat
  BY NumberType, LeftType
<1>. QED
  BY <1>1 DEF Spare

LEMMA MessageFacts ==
  ASSUME NEW m \in Messages
  PROVE  /\ m \in Message /\ m.from \in Node /\ m.id \in Nat /\ m.wantAck \in BOOLEAN
         /\ m.id < FirstId /\ FirstId \in Nat /\ <<m.from, m.id>> \in Node \X Nat
         /\ Budget(m) \in Nat /\ Budget(m) >= 1
<1>1. /\ m \in Message /\ m.from \in Node /\ m.id \in Nat /\ m.wantAck \in BOOLEAN
      /\ m.id < FirstId /\ FirstId \in Nat
  BY MeshAssumption DEF Message
<1>2. NUM_RETRANSMISSIONS \in Nat /\ NUM_RETRANSMISSIONS >= 1
  BY RouterAssumption, SMT
<1>3. Budget(m) \in Nat /\ Budget(m) >= 1
  BY <1>2 DEF Budget
<1>. QED
  BY <1>1, <1>3

LEMMA AllowedSpare ==
  ASSUME NEW m \in Messages, NEW s, IsNodeState(s), NEW t, NEW b \in Nat, b >= FirstId, NEW T, NEW L,
         Allowed(m.from, s, t, b, T, L)
  PROVE  Spare(t, m) <= Spare(s, m) + (IF <<m.from, m.id>> \in PairsOf(L) THEN 1 ELSE 0)
<1>1. /\ m.from \in Node /\ m.id \in Nat /\ m.id < FirstId /\ FirstId \in Nat
      /\ <<m.from, m.id>> \in Node \X Nat
  BY MessageFacts
<1>2. ~ (m.id >= b)
  BY <1>1, SMT
<1>3. PICK x : x = <<m.from, m.id>>
  OBVIOUS
<1>4. x \in (Node \X Nat) \ Fresh(m.from, b) /\ x[1] = m.from /\ x[2] = m.id
  BY <1>1, <1>2, <1>3 DEF Fresh
<1>5. Number(t, x[1], x[2]) <= Number(s, x[1], x[2]) + (IF x \in PairsOf(L) THEN 1 ELSE 0)
  BY <1>4, Zenon DEF Allowed
<1>6. IsNodeState(t)
  BY DEF Allowed
<1>7. Left(t, m.id) <= Left(s, m.id)
  <2>1. Left(t, m.id) \in Nat /\ Left(s, m.id) \in Nat
    BY <1>6, LeftType
  <2>2. CASE m.id \in DOMAIN t.pending
    <3>1. m.id \in DOMAIN s.pending /\ t.pending[m.id] = s.pending[m.id]
      BY <1>2, <2>2, Zenon DEF Allowed
    <3>2. Left(t, m.id) = Left(s, m.id)
      BY <2>2, <3>1 DEF Left
    <3>. QED
      BY <2>1, <3>2
  <2>3. CASE m.id \notin DOMAIN t.pending
    <3>1. Left(t, m.id) = 0
      BY <2>3 DEF Left
    <3>. QED
      BY <2>1, <3>1
  <2>. QED
    BY <2>2, <2>3
<1>8. /\ Number(t, m.from, m.id) \in Nat /\ Left(t, m.id) \in Nat
      /\ Number(s, m.from, m.id) \in Nat /\ Left(s, m.id) \in Nat
  BY <1>6, SpareType
<1>9. Number(t, m.from, m.id) <= Number(s, m.from, m.id) + (IF x \in PairsOf(L) THEN 1 ELSE 0)
  BY <1>4, <1>5
<1>. QED
  BY <1>3, <1>7, <1>8, <1>9, SMT DEF Spare

LEMMA SparesSame ==
  ASSUME NEW s, NEW t, t.txQueue = s.txQueue, t.pending = s.pending, NEW m
  PROVE  Spare(t, m) = Spare(s, m)
  BY DEF Spare, Number, Left

LEMMA SpareSubmits ==
  ASSUME NEW m \in Messages, NEW l \in Messages, l.from = m.from, NEW s, IsNodeState(s),
         m.id \notin DOMAIN s.pending, s.nextId >= FirstId, NEW t, Submitted(m, s, t)
  PROVE  Spare(t, l) <= Spare(s, l) + (IF l = m THEN Budget(m) ELSE 0)
<1>1. PICK q, v :
    /\ q \in Packet /\ q.from = m.from /\ q.id = m.id
    /\ IF m.wantAck THEN Starts(s, q, v) ELSE v = s
    /\ Allowed(m.from, Marks(v, q), t, s.nextId, Refusing(m.from, m.id), Sends(m.from, q))
  BY Zenon DEF Submitted
<1>2. PICK n \in Node : n = m.from
  BY MessageFacts
<1>3. PICK L : L = Sends(n, q) /\ \A p \in L : p.from = m.from /\ p.id = m.id
  BY <1>1, SendsSealed
<1>4. IsNodeState(v)
  BY <1>1 DEF Starts
<1>5. PICK w : w = Marks(v, q)
  OBVIOUS
<1>6. IsNodeState(w) /\ w.pending = v.pending /\ w.txQueue = v.txQueue
  BY <1>1, <1>4, <1>5, MarksFacts
<1>7. PICK b \in Nat : b = s.nextId /\ b >= FirstId
  BY StateFields
<1>8. Allowed(l.from, w, t, b, Refusing(n, m.id), L)
  BY <1>1, <1>2, <1>3, <1>5, <1>7
<1>9. Spare(t, l) <= Spare(w, l) + (IF <<l.from, l.id>> \in PairsOf(L) THEN 1 ELSE 0)
  BY <1>6, <1>7, <1>8, AllowedSpare
<1>10. Spare(w, l) = Spare(v, l)
  BY <1>6, SparesSame
<1>11. <<l.from, l.id>> \in PairsOf(L) => l = m
  <2>1. <<l.from, l.id>> \in PairsOf(L) => l.id = m.id
    BY <1>3 DEF PairsOf
  <2>. QED
    BY <2>1, MeshAssumption
<1>12. Spare(v, l) <= Spare(s, l) + (IF l = m /\ m.wantAck THEN NUM_RETRANSMISSIONS - 1 ELSE 0)
  <2>0. Spare(s, l) \in Nat /\ Number(s, l.from, l.id) \in Nat
    BY SpareType
  <2>1. CASE ~ m.wantAck
    BY <1>1, <2>0, <2>1
  <2>2. CASE m.wantAck /\ l # m
    <3>1. l.id # m.id
      BY <2>2, MeshAssumption
    <3>2. Starts(s, q, v)
      BY <1>1, <2>2
    <3>3. Left(v, l.id) = Left(s, l.id) /\ Number(v, l.from, l.id) = Number(s, l.from, l.id)
      BY <1>1, <3>1, <3>2 DEF Starts, Left, Number
    <3>4. Spare(v, l) = Spare(s, l)
      BY <3>3 DEF Spare
    <3>. QED
      BY <2>0, <2>2, <3>4
  <2>3. CASE m.wantAck /\ l = m
    <3>1. Starts(s, q, v)
      BY <1>1, <2>3
    <3>2. /\ Left(v, l.id) = NUM_RETRANSMISSIONS - 1 /\ Left(s, l.id) = 0
          /\ Number(v, l.from, l.id) = Number(s, l.from, l.id)
      BY <1>1, <2>3, <3>1 DEF Starts, Left, Number
    <3>. QED
      BY <2>0, <2>3, <3>2, RouterAssumption, SMT DEF Spare
  <2>. QED
    BY <2>1, <2>2, <2>3
<1>13. Spare(t, l) \in Nat /\ Spare(w, l) \in Nat /\ Spare(v, l) \in Nat /\ Spare(s, l) \in Nat
  BY <1>1, <1>4, <1>6, SpareType DEF Allowed
<1>14. NUM_RETRANSMISSIONS \in Nat /\ NUM_RETRANSMISSIONS >= 1
  BY RouterAssumption, SMT
<1>. QED
  BY <1>9, <1>10, <1>11, <1>12, <1>13, <1>14, SMT DEF Budget

LEMMA SpareHandling ==
  ASSUME NEW m \in Messages, NEW n, n = m.from, NEW s, IsNodeState(s), s.nextId >= FirstId,
         NEW p, Legible(p), NEW t, Handling(n, p, s, t)
  PROVE  Spare(t, m) <= Spare(s, m)
<1>0. n \in Node /\ Readable(p) /\ p \in Packet /\ Spare(s, m) \in Nat
  BY MessageFacts, SpareType DEF Legible, Readable
<1>1. PICK b \in Nat : b = s.nextId /\ b >= FirstId
  BY StateFields
<1>2. \A L : (\A q \in L : p.from # n /\ q.from = p.from) => <<m.from, m.id>> \notin PairsOf(L)
  BY DEF PairsOf
<1>3. CASE t = s
  BY <1>0, <1>3
<1>4. CASE Repeated(n, s, p, t)
  <2>1. PICK T : T = Answers(n, b, p, p.to = n /\ p.wantAck, Expected(n, s, p))
    OBVIOUS
  <2>2. PICK L : L = IF Direct(p) THEN Relayed(n, p) ELSE {}
    OBVIOUS
  <2>3. Allowed(m.from, s, t, b, T, L)
    BY <1>1, <1>4, <2>1, <2>2 DEF Repeated
  <2>4. <<m.from, m.id>> \notin PairsOf(L)
    <3>1. \A q \in L : p.from # n /\ q.from = p.from
      BY <1>0, <2>2, RelayedAllSealed
    <3>. QED
      BY <1>2, <3>1
  <2>5. Spare(t, m) <= Spare(s, m) + (IF <<m.from, m.id>> \in PairsOf(L) THEN 1 ELSE 0)
    BY <1>1, <2>3, AllowedSpare
  <2>. QED
    BY <1>0, <2>4, <2>5
<1>5. CASE Handled(n, s, p, t)
  <2>1. PICK d : d = Decoded(n, p)
    OBVIOUS
  <2>2. PICK T : T = Answers(n, b, p, Heard(n, d), Expected(n, s, p))
    OBVIOUS
  <2>3. PICK L : L = Relayed(n, d)
    OBVIOUS
  <2>4. PICK r : r = Remembers(n, s, p)
    OBVIOUS
  <2>5. Allowed(m.from, r, t, b, T, L)
    BY <1>1, <1>5, <2>1, <2>2, <2>3, <2>4 DEF Handled
  <2>6. Readable(d) /\ d.from = p.from
    BY <1>0, <2>1, DecodedReadable, DecodedFacts
  <2>7. <<m.from, m.id>> \notin PairsOf(L)
    <3>1. \A q \in L : p.from # n /\ q.from = p.from
      BY <1>0, <2>3, <2>6, RelayedAllSealed
    <3>. QED
      BY <1>2, <3>1
  <2>8. IsNodeState(r) /\ r.txQueue = s.txQueue /\ r.pending = s.pending
    BY <1>0, <2>4, RemembersFields
  <2>9. Spare(t, m) <= Spare(r, m) + (IF <<m.from, m.id>> \in PairsOf(L) THEN 1 ELSE 0)
    BY <1>1, <2>5, <2>8, AllowedSpare
  <2>10. Spare(r, m) = Spare(s, m)
    BY <2>8, SparesSame
  <2>. QED
    BY <1>0, <2>7, <2>9, <2>10
<1>. QED
  BY <1>3, <1>4, <1>5 DEF Handling

LEMMA SpareRetries ==
  ASSUME NEW m \in Messages, NEW n, n = m.from, NEW s, IsNodeState(s), s.nextId >= FirstId,
         NEW id \in DOMAIN s.pending, Recorded(n, id, s.pending[id].packet),
         NEW t, GaveUp(n, s, id, t) \/ SentAgain(n, s, id, t)
  PROVE  Spare(t, m) <= Spare(s, m)
<1>0. n \in Node /\ Spare(s, m) \in Nat
  BY MessageFacts, SpareType
<1>1. PICK b \in Nat : b = s.nextId /\ b >= FirstId
  BY StateFields
<1>2. CASE GaveUp(n, s, id, t)
  <2>1. PICK T : T = {<<n, "routing", "MAX_RETRANSMIT", id>>}
    OBVIOUS
  <2>2. Allowed(m.from, s, t, b, T, {})
    BY <1>1, <1>2, <2>1 DEF GaveUp
  <2>3. Spare(t, m) <= Spare(s, m) + (IF <<m.from, m.id>> \in PairsOf({}) THEN 1 ELSE 0)
    BY <1>1, <2>2, AllowedSpare
  <2>4. <<m.from, m.id>> \notin PairsOf({})
    BY DEF PairsOf
  <2>. QED
    BY <1>0, <2>3, <2>4
<1>3. CASE SentAgain(n, s, id, t)
  <2>1. PICK p \in Packet : p = s.pending[id].packet /\ p.from = n /\ p.id = id
    BY DEF Recorded
  <2>2. PICK v : /\ Allowed(n, Marks(s, p), v, s.nextId, Refusing(n, id), Sends(n, p))
                 /\ v.pending = s.pending /\ CountsDown(v, id, t) /\ s.pending[id].left > 0
    BY <1>3, <2>1 DEF SentAgain
  <2>3. PICK L : L = Sends(n, p) /\ \A q \in L : q.from = n /\ q.id = id
    BY <2>1, SendsSealed
  <2>4. PICK w : w = Marks(s, p)
    OBVIOUS
  <2>5. IsNodeState(w) /\ w.pending = s.pending /\ w.txQueue = s.txQueue
    BY <2>1, <2>4, MarksFacts
  <2>6. Allowed(m.from, w, v, b, Refusing(n, id), L)
    BY <1>1, <2>2, <2>3, <2>4
  <2>7. Spare(v, m) <= Spare(w, m) + (IF <<m.from, m.id>> \in PairsOf(L) THEN 1 ELSE 0)
    BY <1>1, <2>5, <2>6, AllowedSpare
  <2>8. Spare(w, m) = Spare(s, m)
    BY <2>5, SparesSame
  <2>9. IsNodeState(v) /\ IsNodeState(t)
    BY <2>2 DEF Allowed, CountsDown
  <2>10. Spare(v, m) \in Nat /\ Spare(t, m) \in Nat /\ Left(v, m.id) \in Nat /\ Number(v, m.from, m.id) \in Nat
    BY <2>9, SpareType
  <2>11. Number(t, m.from, m.id) = Number(v, m.from, m.id)
    BY <2>2 DEF CountsDown, Number
  <2>12. CASE m.id = id
    <3>1. Left(t, m.id) = Left(v, m.id) - 1
      BY <2>2, <2>12 DEF CountsDown, Left
    <3>2. Spare(t, m) = Spare(v, m) - 1
      BY <2>10, <2>11, <3>1, SMT DEF Spare
    <3>. QED
      BY <1>0, <2>7, <2>8, <2>10, <3>2, SMT
  <2>13. CASE m.id # id
    <3>1. Left(t, m.id) = Left(v, m.id)
      BY <2>2, <2>13 DEF CountsDown, Left
    <3>2. Spare(t, m) = Spare(v, m)
      BY <2>11, <3>1 DEF Spare
    <3>3. <<m.from, m.id>> \notin PairsOf(L)
      BY <2>3, <2>13 DEF PairsOf
    <3>. QED
      BY <1>0, <2>7, <2>8, <2>10, <3>2, <3>3, SMT
  <2>. QED
    BY <2>12, <2>13
<1>. QED
  BY <1>2, <1>3

(* A step spends no more of a message than there was, or its phone sends it. *)
LEMMA SpentSteps ==
  ASSUME BaseInv, Steps, NEW m \in Messages
  PROVE  \/ Spent(m)' <= Spent(m) /\ sent \subseteq sent'
         \/ m \notin sent /\ m \in sent' /\ Spent(m)' <= Spent(m) + Budget(m)
<1>1. PICK n \in Node : n = m.from
  BY MessageFacts
<1>2. PICK s : s = node[n]
  OBVIOUS
<1>3. PICK t : t = node'[n]
  OBVIOUS
<1>4. /\ IsNodeState(s) /\ s.nextId >= FirstId /\ aired[n][m] \in Nat /\ Spare(s, m) \in Nat
  <2>1. IsNodeState(s) /\ s.nextId >= FirstId
    <3>1. IsNodeState(s) /\ FirstId <= s.nextId
      BY <1>2 DEF BaseInv, Sound
    <3>2. s.nextId \in Nat /\ FirstId \in Nat
      BY <3>1, StateFields, MeshAssumption
    <3>. QED
      BY <3>1, <3>2
  <2>. QED
    BY <2>1, SpareType DEF BaseInv, TypeOK
<1>5. IsNodeState(t) /\ Spare(t, m) \in Nat
  <2>1. BaseInv'
    BY BaseSubmits, BaseHandles, BaseRetries, BaseHearkens, BaseAirs, BaseReaches, BaseBoots DEF Steps
  <2>2. IsNodeState(t)
    BY <1>3, <2>1 DEF BaseInv, Sound
  <2>. QED
    BY <2>2, SpareType
<1>6. Spent(m) = aired[n][m] + Spare(s, m) /\ Spent(m)' = aired'[n][m] + Spare(t, m)
  BY <1>1, <1>2, <1>3 DEF Spent
<1>7. aired'[n][m] = aired[n][m] /\ Spare(t, m) <= Spare(s, m) => Spent(m)' <= Spent(m)
  BY <1>4, <1>5, <1>6, SMT
<1>8. t = s => Spare(t, m) <= Spare(s, m)
  BY <1>4
<1>9. ASSUME NEW l \in Messages, Submits(l)
      PROVE  \/ Spent(m)' <= Spent(m) /\ sent \subseteq sent'
             \/ m \notin sent /\ m \in sent' /\ Spent(m)' <= Spent(m) + Budget(m)
  <2>1. aired' = aired /\ sent' = sent \cup {l} /\ l \notin sent /\ l.id \notin DOMAIN node[l.from].pending
    BY <1>9 DEF Submits
  <2>2. CASE l.from = n
    <3>1. Submitted(l, s, t)
      BY <1>2, <1>3, <1>9, <2>2 DEF Submits
    <3>2. Spare(t, m) <= Spare(s, m) + (IF m = l THEN Budget(l) ELSE 0)
      BY <1>1, <1>2, <1>4, <2>1, <2>2, <3>1, SpareSubmits
    <3>3. CASE m = l
      <4>1. Budget(m) \in Nat
        BY MessageFacts
      <4>2. Spent(m)' <= Spent(m) + Budget(m)
        BY <1>4, <1>5, <1>6, <2>1, <3>2, <3>3, <4>1, SMT
      <4>. QED
        BY <2>1, <3>3, <4>2
    <3>4. CASE m # l
      <4>1. Spare(t, m) <= Spare(s, m)
        BY <1>4, <3>2, <3>4
      <4>. QED
        BY <1>7, <2>1, <4>1
    <3>. QED
      BY <3>3, <3>4
  <2>3. CASE l.from # n
    <3>1. Only(l.from) /\ n \in Node \ {l.from}
      BY <1>9, <2>3 DEF Submits
    <3>2. t = s
      BY <1>2, <1>3, <3>1 DEF Only
    <3>. QED
      BY <1>7, <1>8, <2>1, <3>2
  <2>. QED
    BY <2>2, <2>3
<1>10. ASSUME NEW k \in Node, NEW p, NEW r, Handles(k, p, r)
       PROVE  Spent(m)' <= Spent(m) /\ sent \subseteq sent'
  <2>1. aired' = aired /\ sent' = sent /\ Legible(p)
    BY <1>10 DEF Handles
  <2>2. CASE k = n
    <3>1. /\ IsNodeState(r) /\ r.nextId = s.nextId /\ r.txQueue = s.txQueue /\ r.pending = s.pending
          /\ Handling(n, p, r, t)
      BY <1>2, <1>3, <1>10, <2>2 DEF Handles, Taken
    <3>2. r.nextId >= FirstId
      BY <1>4, <3>1
    <3>3. Spare(t, m) <= Spare(r, m)
      BY <1>1, <2>1, <3>1, <3>2, SpareHandling
    <3>4. Spare(r, m) = Spare(s, m)
      BY <3>1, SparesSame
    <3>. QED
      BY <1>7, <2>1, <3>3, <3>4
  <2>3. CASE k # n
    <3>1. Only(k) /\ n \in Node \ {k}
      BY <1>10, <2>3 DEF Handles
    <3>2. t = s
      BY <1>2, <1>3, <3>1 DEF Only
    <3>. QED
      BY <1>7, <1>8, <2>1, <3>2
  <2>. QED
    BY <2>2, <2>3
<1>11. ASSUME NEW k \in Node, NEW id, Retries(k, id)
       PROVE  Spent(m)' <= Spent(m) /\ sent \subseteq sent'
  <2>1. aired' = aired /\ sent' = sent /\ id \in DOMAIN node[k].pending
    BY <1>11 DEF Retries
  <2>2. CASE k = n
    <3>1. GaveUp(n, s, id, t) \/ SentAgain(n, s, id, t)
      BY <1>2, <1>3, <1>11, <2>2 DEF Retries
    <3>2. Recorded(n, id, s.pending[id].packet) /\ id \in DOMAIN s.pending
      BY <1>2, <2>1, <2>2 DEF BaseInv, Sound
    <3>3. Spare(t, m) <= Spare(s, m)
      BY <1>1, <1>4, <3>1, <3>2, SpareRetries
    <3>. QED
      BY <1>7, <2>1, <3>3
  <2>3. CASE k # n
    <3>1. Only(k) /\ n \in Node \ {k}
      BY <1>11, <2>3 DEF Retries
    <3>2. t = s
      BY <1>2, <1>3, <3>1 DEF Only
    <3>. QED
      BY <1>7, <1>8, <2>1, <3>2
  <2>. QED
    BY <2>2, <2>3
<1>12. ASSUME NEW k \in Node, NEW id, Hearkens(k, id)
       PROVE  Spent(m)' <= Spent(m) /\ sent \subseteq sent'
  <2>1. aired' = aired /\ sent' = sent
    BY <1>12 DEF Hearkens
  <2>2. CASE k = n
    <3>1. PICK b \in Nat : b = s.nextId /\ b >= FirstId
      BY <1>4, StateFields
    <3>2. PICK T : T = {<<n, "routing", "NONE", id>>}
      OBVIOUS
    <3>3. Allowed(m.from, s, t, b, T, {})
      BY <1>1, <1>2, <1>3, <1>12, <2>2, <3>1, <3>2 DEF Hearkens
    <3>4. Spare(t, m) <= Spare(s, m) + (IF <<m.from, m.id>> \in PairsOf({}) THEN 1 ELSE 0)
      BY <1>4, <3>1, <3>3, AllowedSpare
    <3>5. <<m.from, m.id>> \notin PairsOf({})
      BY DEF PairsOf
    <3>. QED
      BY <1>4, <1>7, <2>1, <3>4, <3>5
  <2>3. CASE k # n
    <3>1. Only(k) /\ n \in Node \ {k}
      BY <1>12, <2>3 DEF Hearkens
    <3>2. t = s
      BY <1>2, <1>3, <3>1 DEF Only
    <3>. QED
      BY <1>7, <1>8, <2>1, <3>2
  <2>. QED
    BY <2>2, <2>3
<1>13. ASSUME NEW k \in Node, NEW p, Airs(k, p)
       PROVE  Spent(m)' <= Spent(m) /\ sent \subseteq sent'
  <2>1. sent' = sent /\ DOMAIN aired = Node
    BY <1>13 DEF Airs, BaseInv, TypeOK
  <2>2. CASE k = n
    <3>1. Dequeued(s, p, t)
      BY <1>2, <1>3, <1>13, <2>2 DEF Airs
    <3>2. aired'[n][m] = aired[n][m] + (IF p.from = m.from /\ p.id = m.id THEN 1 ELSE 0)
      BY <1>4, <1>13, <2>1, <2>2 DEF Airs
    <3>3. /\ Number(t, m.from, m.id) + (IF p.from = m.from /\ p.id = m.id THEN 1 ELSE 0) <= Number(s, m.from, m.id)
          /\ Left(t, m.id) = Left(s, m.id)
      BY <3>1 DEF Dequeued, Left
    <3>4. /\ Number(t, m.from, m.id) \in Nat /\ Left(t, m.id) \in Nat
          /\ Number(s, m.from, m.id) \in Nat /\ Left(s, m.id) \in Nat
      BY <1>4, <1>5, SpareType
    <3>5. Spent(m)' <= Spent(m)
      BY <1>4, <1>6, <3>2, <3>3, <3>4, SMT DEF Spare
    <3>. QED
      BY <2>1, <3>5
  <2>3. CASE k # n
    <3>1. Only(k) /\ n \in Node \ {k} /\ aired'[n][m] = aired[n][m]
      BY <1>13, <2>1, <2>3 DEF Airs
    <3>2. t = s
      BY <1>2, <1>3, <3>1 DEF Only
    <3>. QED
      BY <1>7, <1>8, <2>1, <3>1, <3>2
  <2>. QED
    BY <2>2, <2>3
<1>14. ASSUME NEW k \in Node, Reaches(k)
       PROVE  Spent(m)' <= Spent(m) /\ sent \subseteq sent'
  <2>1. aired' = aired /\ sent' = sent
    BY <1>14 DEF Reaches
  <2>2. t = s \/ Received(s, OnAir(sending[k]), t)
    BY <1>2, <1>3, <1>14 DEF Reaches
  <2>3. t.txQueue = s.txQueue /\ t.pending = s.pending
    BY <2>2 DEF Received
  <2>4. Spare(t, m) = Spare(s, m)
    BY <2>3, SparesSame
  <2>. QED
    BY <1>4, <1>7, <2>1, <2>4
<1>15. ASSUME NEW k \in Node, Boots(k)
       PROVE  Spent(m)' <= Spent(m) /\ sent \subseteq sent'
  <2>1. aired' = aired /\ sent' = sent
    BY <1>15 DEF Boots, Reboot
  <2>2. CASE k = n
    <3>1. s.nextId \in Nat /\ t = Booted(s.nextId)
      BY <1>2, <1>3, <1>4, <1>15, <2>2, StateFields DEF Boots
    <3>2. Number(t, m.from, m.id) = 0 /\ Left(t, m.id) = 0
      BY <3>1, BootedFacts DEF Left
    <3>3. Spare(t, m) = 0
      BY <3>2 DEF Spare
    <3>. QED
      BY <1>4, <1>7, <2>1, <3>3
  <2>3. CASE k # n
    <3>1. Only(k) /\ n \in Node \ {k}
      BY <1>15, <2>3 DEF Boots
    <3>2. t = s
      BY <1>2, <1>3, <3>1 DEF Only
    <3>. QED
      BY <1>7, <1>8, <2>1, <3>2
  <2>. QED
    BY <2>2, <2>3
<1>. QED
  BY <1>9, <1>10, <1>11, <1>12, <1>13, <1>14, <1>15, Zenon DEF Steps

LEMMA AttemptsNext ==
  ASSUME BaseInv, AttemptsInv, [Next]_vars
  PROVE  AttemptsInv'
<1>1. CASE UNCHANGED vars
  BY <1>1 DEF AttemptsInv, Spent, vars
<1>2. CASE Next
  <2>1. SUFFICES ASSUME NEW m \in Messages
                 PROVE  Spent(m)' <= IF m \in sent' THEN Budget(m) ELSE 0
    BY DEF AttemptsInv
  <2>2. BaseInv' /\ Steps
    BY <1>2, BaseNext, NextSteps
  <2>3. Spent(m) \in Nat /\ Spent(m)' \in Nat /\ Budget(m) \in Nat
    <3>1. /\ aired[m.from][m] \in Nat /\ aired'[m.from][m] \in Nat
          /\ IsNodeState(node[m.from]) /\ IsNodeState(node'[m.from])
      BY <2>2, MessageFacts DEF BaseInv, TypeOK
    <3>2. Spare(node[m.from], m) \in Nat /\ Spare(node'[m.from], m) \in Nat
      BY <3>1, SpareType
    <3>3. Spent(m) \in Nat
      BY <3>1, <3>2 DEF Spent
    <3>4. Spent(m)' \in Nat
      BY <3>1, <3>2 DEF Spent
    <3>. QED
      BY <3>3, <3>4, MessageFacts
  <2>4. Spent(m) <= IF m \in sent THEN Budget(m) ELSE 0
    BY DEF AttemptsInv
  <2>5. \/ Spent(m)' <= Spent(m) /\ sent \subseteq sent'
        \/ m \notin sent /\ m \in sent' /\ Spent(m)' <= Spent(m) + Budget(m)
    BY <2>2, SpentSteps
  <2>6. sent \subseteq sent' => (m \in sent => m \in sent')
    OBVIOUS
  <2>7. PICK x \in Nat : x = Spent(m)
    BY <2>3
  <2>8. PICK y \in Nat : y = Spent(m)'
    BY <2>3
  <2>9. y <= IF m \in sent' THEN Budget(m) ELSE 0
    BY <2>3, <2>4, <2>5, <2>6, <2>7, <2>8, SMT
  <2>. QED
    BY <2>8, <2>9
<1>. QED
  BY <1>1, <1>2

(* AttemptsBounded: what went out of a message, what waits in the queue and   *)
(* what its pending record still allows come to NUM_RETRANSMISSIONS at most,  *)
(* for one that wants no ack to one, reboots, early acks and evictions        *)
(* notwithstanding (ReliableRouter::startRetransmission, doRetransmissions).  *)
THEOREM MeshAttemptsBounded == Spec => []AttemptsBounded
<1>1. Init => AttemptsInv
  <2>1. SUFFICES ASSUME Init, NEW m \in Messages
                 PROVE  Spent(m) <= IF m \in sent THEN Budget(m) ELSE 0
    BY DEF AttemptsInv
  <2>2. m.from \in Node /\ FirstId \in Nat
    BY MessageFacts
  <2>3. PICK s : s = Booted(FirstId)
    OBVIOUS
  <2>4. node[m.from] = s /\ aired[m.from][m] = 0 /\ sent = {}
    BY <2>1, <2>2, <2>3 DEF Init
  <2>5. Number(s, m.from, m.id) = 0 /\ Left(s, m.id) = 0
    BY <2>2, <2>3, BootedFacts DEF Left
  <2>6. Spent(m) = 0
    BY <2>4, <2>5 DEF Spent, Spare
  <2>. QED
    BY <2>4, <2>6
<1>2. BaseInv /\ AttemptsInv /\ [Next]_vars => AttemptsInv'
  BY AttemptsNext
<1>3. BaseInv /\ AttemptsInv => AttemptsBounded
  <2>1. SUFFICES ASSUME BaseInv, AttemptsInv, NEW m \in Messages
                 PROVE  aired[m.from][m] + Copies(m.from, m)
                          + (IF Pends(m) THEN node[m.from].pending[m.id].left ELSE 0)
                        <= IF m.wantAck THEN NUM_RETRANSMISSIONS ELSE 1
    BY DEF AttemptsBounded
  <2>2. IsNodeState(node[m.from]) /\ aired[m.from][m] \in Nat
    BY <2>1, MessageFacts DEF BaseInv, TypeOK
  <2>3. Copies(m.from, m) = Number(node[m.from], m.from, m.id)
    <3>1. node[m.from].txQueue \in Seq(Packet)
      BY <2>2, StateFields
    <3>2. DOMAIN node[m.from].txQueue = 1 .. Len(node[m.from].txQueue)
      BY <3>1, LenProperties
    <3>. QED
      BY <3>2 DEF Copies, Number, PlacesOf, Is
  <2>4. Left(node[m.from], m.id) = (IF Pends(m) THEN node[m.from].pending[m.id].left ELSE 0)
    BY DEF Left, Pends
  <2>5. Spent(m) <= Budget(m) /\ Budget(m) \in Nat
    <3>1. Spent(m) <= IF m \in sent THEN Budget(m) ELSE 0
      BY <2>1 DEF AttemptsInv
    <3>2. Budget(m) \in Nat
      BY MessageFacts
    <3>3. PICK x : x = Spent(m)
      OBVIOUS
    <3>4. x \in Nat
      BY <2>2, <3>3, SpareType DEF Spent
    <3>. QED
      BY <3>1, <3>2, <3>3, <3>4, SMT
  <2>6. /\ Number(node[m.from], m.from, m.id) \in Nat /\ Left(node[m.from], m.id) \in Nat
    BY <2>2, SpareType
  <2>. QED
    BY <2>2, <2>3, <2>4, <2>5, <2>6 DEF Spent, Spare, Budget
<1>. QED
  BY <1>1, <1>2, <1>3, BaseAlways, PTL DEF Spec

---------------------------------------------------------------------------
(* Where packets come from: one whose id is not the firmware's is a copy of a *)
(* message, S being the messages of the phones so far.                        *)

(* What m is encrypted with, and whether its destination can decode that and  *)
(* a module there read it.                                                   *)
CryptOf(m) == OnQueue(m.from, FromPhone(m)).crypt
Decipherable(m) ==
  m.to \in Node => CanDecode(m.to, OnQueue(m.from, FromPhone(m))) /\ m.port # "unreadable"

CopyOf(p, m) ==
  /\ p.from = m.from /\ p.id = m.id /\ p.to = m.to /\ p.port = m.port /\ p.reqId = NoId
  /\ p.plain \/ p.crypt = CryptOf(m)

Traced(p, S) == p.id >= FirstId \/ \E m \in S : CopyOf(p, m)

(* No phone asks for more hops than the three bits of the header can tell. *)
ShortHops == \A m \in Messages : m.hopLimit <= HOP_MAX

Countable(p) == ShortHops => p.hopLimit <= p.hopStart /\ p.hopStart <= HOP_MAX

LEMMA LeadsNowhere ==
  ASSUME NEW n \in Node
  PROVE  Leads(n, n, 0)
<1>1. PICK walk : walk = [i \in 0 .. 0 |-> n]
  OBVIOUS
<1>2. walk \in [0 .. 0 -> Node] /\ walk[0] = n /\ \A i \in 0 .. 0 - 1 : walk[i + 1] \in Hears[walk[i]]
  BY <1>1
<1>. QED
  BY <1>2 DEF Leads

LEMMA LeadsOn ==
  ASSUME NEW m, NEW n, NEW k \in Nat, Leads(m, n, k), NEW r \in Node, r \in Hears[n]
  PROVE  Leads(m, r, k + 1)
<1>1. PICK walk \in [0 .. k -> Node] :
        walk[0] = m /\ walk[k] = n /\ \A i \in 0 .. k - 1 : walk[i + 1] \in Hears[walk[i]]
  BY DEF Leads
<1>2. PICK longer : longer = [i \in 0 .. k + 1 |-> IF i = k + 1 THEN r ELSE walk[i]]
  OBVIOUS
<1>3. longer \in [0 .. k + 1 -> Node] /\ longer[0] = m /\ longer[k + 1] = r /\ longer[k] = n
  BY <1>1, <1>2
<1>4. ASSUME NEW i \in 0 .. (k + 1) - 1
      PROVE  longer[i + 1] \in Hears[longer[i]]
  <2>1. CASE i = k
    BY <1>3, <2>1
  <2>2. CASE i # k
    <3>1. i \in 0 .. k - 1 /\ longer[i] = walk[i] /\ longer[i + 1] = walk[i + 1]
      BY <1>2, <1>4, <2>2
    <3>. QED
      BY <1>1, <3>1
  <2>. QED
    BY <2>1, <2>2
<1>. QED
  BY <1>3, <1>4 DEF Leads

(* p has come to n in as many hops as it says, or in one more. *)
Here(n, p) == ShortHops => Leads(p.from, n, p.hopStart - p.hopLimit)
There(n, p) == ShortHops => Leads(p.from, n, p.hopStart - p.hopLimit + 1)

LEMMA HereThenThere ==
  ASSUME NEW n, NEW p \in Packet, Countable(p), Here(n, p), NEW r \in Node, r \in Hears[n]
  PROVE  There(r, p)
<1>1. SUFFICES ASSUME ShortHops
               PROVE  Leads(p.from, r, p.hopStart - p.hopLimit + 1)
  BY DEF There
<1>2. p.hopStart \in Nat /\ p.hopLimit \in Nat /\ p.hopLimit <= p.hopStart
  BY <1>1 DEF Countable, Packet
<1>3. PICK k \in Nat : k = p.hopStart - p.hopLimit
  BY <1>2
<1>4. Leads(p.from, n, k)
  BY <1>1, <1>3 DEF Here
<1>5. Leads(p.from, r, k + 1)
  BY <1>4, LeadsOn
<1>. QED
  BY <1>3, <1>5

(* p, on its way out of node n, whose history is h: what n relays it has seen, *)
(* it has come to n in the hops it tells of, and it does not look as if it     *)
(* came straight from its sender.                                              *)
Outbound(n, h, p, S) ==
  /\ Traced(p, S) /\ Countable(p) /\ Here(n, p)
  /\ p.from # n => <<p.from, p.id>> \in h /\ (ShortHops => p.hopLimit < p.hopStart)

Inbound(n, p, S) ==
  Traced(p, S) /\ IF p.plain THEN p.from = n /\ p.id >= FirstId ELSE Countable(p) /\ There(n, p)

(* The packet of a pending record. *)
Kept(p, S) ==
  /\ p.port # "routing" /\ (ShortHops => p.hopLimit <= HOP_MAX)
  /\ p.id >= FirstId \/ \E m \in S : CopyOf(p, m) /\ p.crypt = m.crypt

Trace(n, s, S) ==
  /\ \A p \in ToSet(s.fromRadio) : Inbound(n, p, S)
  /\ \A p \in ToSet(s.txQueue) : Outbound(n, s.recent, p, S)
  /\ \A i \in DOMAIN s.pending : Kept(s.pending[i].packet, S)
  /\ \A i \in s.uplink : n \in MqttNodes /\ (i >= FirstId \/ \E m \in S : m.from = n /\ m.id = i)
  /\ \A p \in ToSet(s.toPhone) : Traced(p, S)
  /\ \A m \in Messages :
       m.to = n /\ Decipherable(m) /\ <<m.from, m.id>> \in s.recent =>
         \E p \in ToSet(s.toPhone) : Is(p, m) /\ p.plain

TraceInv ==
  \A n \in Node :
    Trace(n, node[n], sent) /\ (sending[n] = NoPacket \/ Outbound(n, node[n].recent, sending[n], sent))

LEMMA OwnTraced ==
  ASSUME NEW S \in SUBSET Messages, NEW n \in Node, NEW b \in Nat, b >= FirstId, NEW T, NEW p \in Own(n, b, T)
  PROVE  Traced(p, S) /\ p.from = n /\ p.id >= FirstId /\ p.hopLimit <= HOP_MAX /\ p \in Packet
<1>1. p \in Packet /\ p.from = n /\ p.id >= b /\ p.hopLimit <= HOP_MAX /\ p.id \in Nat /\ FirstId \in Nat
  BY MeshAssumption DEF Own, Packet
<1>2. p.id >= FirstId
  BY <1>1, SMT
<1>. QED
  BY <1>1, <1>2 DEF Traced

LEMMA TraceMore ==
  ASSUME NEW S, NEW R, S \subseteq R, NEW n, NEW s, Trace(n, s, S)
  PROVE  Trace(n, s, R)
<1>1. \A p : Traced(p, S) => Traced(p, R)
  BY DEF Traced
<1>2. \A p : Kept(p, S) => Kept(p, R)
  BY DEF Kept
<1>. QED
  BY <1>1, <1>2 DEF Trace, Inbound, Outbound

LEMMA TraceAfter ==
  ASSUME NEW S \in SUBSET Messages, NEW n \in Node, NEW s, IsNodeState(s), Trace(n, s, S), NEW t, NEW b \in Nat, b >= FirstId,
         NEW T, NEW L, \A q \in L : Outbound(n, s.recent, q, S), Allowed(n, s, t, b, T, L)
  PROVE  Trace(n, t, S)
<1>1. /\ IsNodeState(t) /\ s.recent \subseteq t.recent /\ t.toPhone = s.toPhone
      /\ t.recent \subseteq s.recent \cup Fresh(n, b) \cup PairsOf(L)
  BY Zenon DEF Allowed
<1>2. ASSUME NEW p \in ToSet(t.fromRadio)
      PROVE  Inbound(n, p, S)
  <2>1. p \in ToSet(s.fromRadio) \cup Told(n, b, T)
    BY <1>2 DEF Allowed, Adds
  <2>2. CASE p \in Told(n, b, T)
    <3>1. p \in Own(n, b, T) /\ p.plain
      BY <2>2 DEF Told
    <3>2. Traced(p, S) /\ p.from = n /\ p.id >= FirstId
      BY <3>1, OwnTraced
    <3>. QED
      BY <3>1, <3>2 DEF Inbound
  <2>. QED
    BY <2>1, <2>2 DEF Trace
<1>3. ASSUME NEW p \in ToSet(t.txQueue)
      PROVE  Outbound(n, t.recent, p, S)
  <2>1. p \in ToSet(s.txQueue) \cup (Queued(n, b, T) \cup L)
    BY <1>3 DEF Allowed, Adds
  <2>2. CASE p \in Queued(n, b, T)
    <3>1. p \in Own(n, b, T) /\ p.hopStart = p.hopLimit
      BY <2>2 DEF Queued
    <3>2. Traced(p, S) /\ p.from = n /\ p.hopLimit <= HOP_MAX /\ p.hopLimit \in Nat
      BY <3>1, OwnTraced DEF Packet
    <3>3. p.hopStart - p.hopLimit = 0
      BY <3>1, <3>2
    <3>4. Here(n, p)
      BY <3>2, <3>3, LeadsNowhere DEF Here
    <3>. QED
      BY <3>1, <3>2, <3>4 DEF Outbound, Countable
  <2>3. CASE Outbound(n, s.recent, p, S)
    BY <1>1, <2>3 DEF Outbound
  <2>. QED
    BY <2>1, <2>2, <2>3 DEF Trace
<1>4. ASSUME NEW i \in DOMAIN t.pending
      PROVE  Kept(t.pending[i].packet, S)
  <2>1. CASE i \in DOMAIN s.pending /\ t.pending[i] = s.pending[i]
    BY <2>1 DEF Trace
  <2>2. CASE t.pending[i].packet \in Own(n, b, T) /\ t.pending[i].packet.wantAck
    <3>1. PICK p : p = t.pending[i].packet
      OBVIOUS
    <3>2. p.id >= FirstId /\ p.hopLimit <= HOP_MAX
      <4>1. p \in Own(n, b, T)
        BY <2>2, <3>1
      <4>. QED
        BY <4>1, OwnTraced
    <3>3. p.port # "routing"
      BY <2>2, <3>1 DEF Own
    <3>. QED
      BY <3>1, <3>2, <3>3 DEF Kept
  <2>. QED
    BY <1>4, <2>1, <2>2, Zenon DEF Allowed
<1>5. ASSUME NEW i \in t.uplink
      PROVE  n \in MqttNodes /\ (i >= FirstId \/ \E m \in S : m.from = n /\ m.id = i)
  <2>1. i \in s.uplink \/ (n \in MqttNodes /\ <<n, i>> \in Fresh(n, b) \cup PairsOf(L))
    BY <1>5, Zenon DEF Allowed
  <2>2. CASE i \in s.uplink
    BY <2>2 DEF Trace
  <2>3. CASE n \in MqttNodes /\ <<n, i>> \in Fresh(n, b)
    <3>1. i \in Nat /\ i >= b /\ FirstId \in Nat
      BY <2>3, MeshAssumption DEF Fresh
    <3>2. i >= FirstId
      BY <3>1, SMT
    <3>. QED
      BY <2>3, <3>2
  <2>4. CASE n \in MqttNodes /\ <<n, i>> \in PairsOf(L)
    <3>1. PICK q \in L : q.from = n /\ q.id = i
      BY <2>4 DEF PairsOf
    <3>2. Traced(q, S)
      BY <3>1 DEF Outbound
    <3>. QED
      BY <2>4, <3>1, <3>2 DEF Traced, CopyOf
  <2>. QED
    BY <2>1, <2>2, <2>3, <2>4
<1>6. ASSUME NEW m \in Messages, m.to = n, Decipherable(m), <<m.from, m.id>> \in t.recent
      PROVE  \E p \in ToSet(t.toPhone) : Is(p, m) /\ p.plain
  <2>1. m.from # n /\ m.id < FirstId /\ m.id \in Nat /\ FirstId \in Nat
    BY <1>6, MeshAssumption DEF Message
  <2>2. <<m.from, m.id>> \notin Fresh(n, b)
    BY <2>1 DEF Fresh
  <2>3. <<m.from, m.id>> \in PairsOf(L) => <<m.from, m.id>> \in s.recent
    <3>1. SUFFICES ASSUME NEW q \in L, <<m.from, m.id>> = <<q.from, q.id>>
                   PROVE  <<m.from, m.id>> \in s.recent
      BY DEF PairsOf
    <3>2. q.from # n
      BY <2>1, <3>1
    <3>. QED
      BY <3>1, <3>2 DEF Outbound
  <2>4. <<m.from, m.id>> \in s.recent
    BY <1>1, <1>6, <2>2, <2>3
  <2>. QED
    BY <1>1, <1>6, <2>4 DEF Trace
<1>. QED
  BY <1>1, <1>2, <1>3, <1>4, <1>5, <1>6 DEF Trace

(* A copy that a relay sends on. *)
LEMMA RelayedIsCopy ==
  ASSUME NEW n \in Node, NEW p, Readable(p), NEW q \in Relayed(n, p)
  PROVE  /\ q \in Packet /\ q.from = p.from /\ q.to = p.to /\ q.id = p.id /\ q.port = p.port
         /\ q.reqId = p.reqId /\ q.err = p.err /\ q.crypt = p.crypt /\ ~ q.plain
         /\ q.hopLimit = p.hopLimit - 1 /\ q.hopStart = p.hopStart /\ p.from # n /\ p.to # n
<1>1. PICK e : e = [p EXCEPT !.hopLimit = @ - 1]
  OBVIOUS
<1>2. WillRebroadcast(n, p) /\ q = OnQueue(n, e)
  BY <1>1 DEF Relayed
<1>3. /\ e \in Packet /\ e.from = p.from /\ e.to = p.to /\ e.id = p.id /\ e.hopLimit = p.hopLimit - 1
      /\ e.hopStart = p.hopStart /\ e.crypt = p.crypt /\ e.port = p.port /\ e.reqId = p.reqId /\ e.err = p.err
  BY <1>1, <1>2, RelayedFacts DEF Readable, Packet
<1>4. p.from # n /\ p.to # n
  BY <1>2 DEF WillRebroadcast
<1>5. ~ UsesPKI(n, e)
  BY <1>3, <1>4 DEF UsesPKI
<1>. QED
  BY <1>2, <1>3, <1>4, <1>5, OnQueueFacts

LEMMA OneCopy ==
  ASSUME NEW S \in SUBSET Messages, NEW m \in Messages, NEW p, Traced(p, S), p.id = m.id
  PROVE  CopyOf(p, m) /\ m \in S
<1>1. ~ (p.id >= FirstId)
  <2>1. m.id \in Nat /\ FirstId \in Nat /\ m.id < FirstId
    BY MessageFacts
  <2>. QED
    BY <2>1, SMT
<1>2. PICK l \in S : CopyOf(p, l)
  BY <1>1 DEF Traced
<1>3. l = m
  BY <1>2, MeshAssumption DEF CopyOf
<1>. QED
  BY <1>2, <1>3

(* p, decoded or not, at a node that may have to relay it. *)
Relayable(n, p, S) ==
  p.from # n =>
    /\ Countable(p) /\ There(n, p)
    /\ p.id >= FirstId \/ \E m \in S : CopyOf(p, m) /\ p.crypt = CryptOf(m)

LEMMA RelayedOutbound ==
  ASSUME NEW S \in SUBSET Messages, NEW n \in Node, NEW p, Readable(p), Relayable(n, p, S), NEW h, <<p.from, p.id>> \in h, NEW q \in Relayed(n, p)
  PROVE  Outbound(n, h, q, S)
<1>1. /\ q \in Packet /\ q.from = p.from /\ q.to = p.to /\ q.id = p.id /\ q.port = p.port
      /\ q.reqId = p.reqId /\ q.crypt = p.crypt
      /\ q.hopLimit = p.hopLimit - 1 /\ q.hopStart = p.hopStart /\ p.from # n
  BY RelayedIsCopy
<1>2. Traced(q, S)
  BY <1>1 DEF Relayable, Traced, CopyOf
<1>3. Countable(q)
  <2>1. p.hopLimit \in Nat /\ p.hopStart \in Nat
    BY DEF Readable, Packet
  <2>. QED
    BY <1>1, <2>1 DEF Relayable, Countable
<1>4. ShortHops => q.hopLimit < q.hopStart
  <2>1. p.hopLimit \in Nat /\ p.hopStart \in Nat
    BY DEF Readable, Packet
  <2>2. ShortHops => p.hopLimit <= p.hopStart
    BY <1>1 DEF Relayable, Countable
  <2>. QED
    BY <1>1, <2>1, <2>2, SMT
<1>5. Here(n, q)
  <2>1. SUFFICES ASSUME ShortHops
                 PROVE  Leads(q.from, n, q.hopStart - q.hopLimit)
    BY DEF Here
  <2>2. Leads(p.from, n, p.hopStart - p.hopLimit + 1)
    BY <1>1, <2>1 DEF Relayable, There
  <2>3. p.hopLimit \in Nat /\ p.hopStart \in Nat
    BY DEF Readable, Packet
  <2>4. q.hopStart - q.hopLimit = p.hopStart - p.hopLimit + 1
    BY <1>1, <2>3
  <2>. QED
    BY <1>1, <2>2, <2>4
<1>. QED
  BY <1>1, <1>2, <1>3, <1>4, <1>5 DEF Outbound

LEMMA InboundRelayable ==
  ASSUME NEW S \in SUBSET Messages, NEW n, NEW p, Inbound(n, p, S)
  PROVE  Relayable(n, p, S)
<1>1. SUFFICES ASSUME p.from # n
               PROVE  /\ Countable(p) /\ There(n, p)
                      /\ p.id >= FirstId \/ \E m \in S : CopyOf(p, m) /\ p.crypt = CryptOf(m)
  BY DEF Relayable
<1>2. ~ p.plain /\ Countable(p) /\ There(n, p) /\ Traced(p, S)
  BY <1>1 DEF Inbound
<1>. QED
  BY <1>2 DEF Traced, CopyOf

LEMMA DecodedRelayable ==
  ASSUME NEW S \in SUBSET Messages, NEW n, NEW p \in Packet, Relayable(n, p, S), NEW d, d = Decoded(n, p)
  PROVE  Relayable(n, d, S)
<1>1. /\ d.from = p.from /\ d.to = p.to /\ d.id = p.id /\ d.hopLimit = p.hopLimit
      /\ d.hopStart = p.hopStart /\ d.crypt = p.crypt /\ d.port = p.port /\ d.reqId = p.reqId
  BY DecodedFacts
<1>2. (Countable(p) => Countable(d)) /\ (There(n, p) => There(n, d))
  BY <1>1 DEF Countable, There
<1>3. \A m \in S : CopyOf(p, m) /\ p.crypt = CryptOf(m) => CopyOf(d, m) /\ d.crypt = CryptOf(m)
  BY <1>1 DEF CopyOf
<1>. QED
  BY <1>1, <1>2, <1>3 DEF Relayable

(* Whoever first sees a message to it that it can decode gives it to the phone. *)
LEMMA RemembersTrace ==
  ASSUME NEW S \in SUBSET Messages, NEW n \in Node, NEW s, IsNodeState(s), Trace(n, s, S), NEW p \in Packet, Inbound(n, p, S),
         NEW t, t = Remembers(n, s, p)
  PROVE  Trace(n, t, S)
<1>1. PICK d : d = Decoded(n, p)
  OBVIOUS
<1>2. /\ d \in Packet /\ d.from = p.from /\ d.to = p.to /\ d.id = p.id /\ (d.plain <=> CanDecode(n, p))
  BY <1>1, DecodedFacts
<1>3. /\ IsNodeState(t) /\ t.recent = s.recent \cup {<<p.from, p.id>>} /\ t.toPhone = Phoned(n, s, d)
      /\ t.pending = s.pending /\ t.txQueue = s.txQueue /\ t.fromRadio = s.fromRadio /\ t.uplink = s.uplink
  BY <1>1, RemembersFacts
<1>4. s.toPhone \in Seq(Packet)
  BY StateFields
<1>5. ToSet(s.toPhone) \subseteq ToSet(t.toPhone) /\ ToSet(t.toPhone) \subseteq ToSet(s.toPhone) \cup {d}
  BY <1>1, RemembersGrows
<1>6. ASSUME NEW q \in ToSet(t.toPhone)
      PROVE  Traced(q, S)
  <2>1. Traced(p, S)
    BY DEF Inbound
  <2>2. Traced(d, S)
    <3>1. d.from = p.from /\ d.to = p.to /\ d.id = p.id /\ d.port = p.port /\ d.reqId = p.reqId
          /\ d.crypt = p.crypt /\ (p.plain => d.plain)
      <4>1. p.plain => CanDecode(n, p)
        BY DEF CanDecode
      <4>. QED
        BY <1>1, <4>1, DecodedFacts
    <3>. QED
      BY <2>1, <3>1 DEF Traced, CopyOf
  <2>. QED
    BY <1>5, <1>6, <2>2 DEF Trace
<1>7. ASSUME NEW q \in ToSet(t.txQueue)
      PROVE  Outbound(n, t.recent, q, S)
  BY <1>3, <1>7 DEF Trace, Outbound
<1>8. ASSUME NEW m \in Messages, m.to = n, Decipherable(m), <<m.from, m.id>> \in t.recent
      PROVE  \E q \in ToSet(t.toPhone) : Is(q, m) /\ q.plain
  <2>1. CASE <<m.from, m.id>> \in s.recent
    <3>1. PICK q \in ToSet(s.toPhone) : Is(q, m) /\ q.plain
      BY <1>8, <2>1 DEF Trace
    <3>. QED
      BY <1>5, <3>1
  <2>2. CASE <<m.from, m.id>> = <<p.from, p.id>>
    <3>1. m.from # n /\ m.to \in Node
      BY <1>8, MeshAssumption
    <3>2. ~ p.plain /\ CopyOf(p, m)
      BY <2>2, <3>1, OneCopy DEF Inbound
    <3>3. p.to = n /\ p.crypt = CryptOf(m)
      BY <1>8, <3>2 DEF CopyOf
    <3>4. PICK f \in Packet : f = FromPhone(m) /\ f.from = m.from /\ f.to = m.to
      BY MessageFacts, FromPhoneFacts
    <3>5. PICK x : x = OnQueue(m.from, f)
      OBVIOUS
    <3>6. x.from = m.from /\ x.to = m.to /\ ~ x.plain /\ x.crypt = CryptOf(m)
      BY <3>4, <3>5, OnQueueFacts DEF CryptOf
    <3>7. CanDecode(n, x)
      BY <1>8, <3>1, <3>4, <3>5 DEF Decipherable
    <3>8. CanDecode(n, p)
      BY <1>8, <2>2, <3>3, <3>6, <3>7 DEF CanDecode
    <3>9. d.plain /\ d.to = n /\ d.port # "unreadable"
      <4>1. d.port = p.port /\ p.port = m.port /\ m.port # "unreadable"
        BY <1>1, <1>8, <3>1, <3>2, DecodedFacts DEF CopyOf, Decipherable
      <4>. QED
        BY <1>2, <3>3, <3>8, <4>1
    <3>10. t.toPhone = Append(s.toPhone, d)
      BY <1>3, <3>9 DEF Phoned, Stopping, ForUs
    <3>11. t.toPhone \in Seq(Packet) /\ Len(t.toPhone) = Len(s.toPhone) + 1 /\ Len(s.toPhone) \in Nat
           /\ t.toPhone[Len(s.toPhone) + 1] = d
      BY <1>2, <1>4, <3>10, AppendProperties, LenProperties
    <3>12. Len(s.toPhone) + 1 \in 1 .. Len(t.toPhone)
      BY <3>11, SMT
    <3>13. d \in ToSet(t.toPhone)
      BY <3>11, <3>12, Places
    <3>. QED
      BY <1>2, <2>2, <3>9, <3>13 DEF Is
  <2>. QED
    BY <1>3, <1>8, <2>1, <2>2
<1>. QED
  BY <1>3, <1>6, <1>7, <1>8 DEF Trace

LEMMA TraceHandling ==
  ASSUME NEW S \in SUBSET Messages, NEW n \in Node, NEW s, IsNodeState(s), Trace(n, s, S), s.nextId >= FirstId,
         NEW p, Legible(p), Inbound(n, p, S), NEW t, Handling(n, p, s, t)
  PROVE  Trace(n, t, S)
<1>0. Readable(p) /\ p \in Packet /\ Relayable(n, p, S)
  BY InboundRelayable DEF Legible, Readable
<1>1. PICK b \in Nat : b = s.nextId /\ b >= FirstId
  BY StateFields
<1>2. CASE t = s
  BY <1>2
<1>3. CASE Repeated(n, s, p, t)
  <2>1. PICK T : T = Answers(n, b, p, p.to = n /\ p.wantAck, Expected(n, s, p))
    OBVIOUS
  <2>2. PICK L : L = IF Direct(p) THEN Relayed(n, p) ELSE {}
    OBVIOUS
  <2>3. Allowed(n, s, t, b, T, L) /\ <<p.from, p.id>> \in s.recent
    BY <1>1, <1>3, <2>1, <2>2 DEF Repeated
  <2>4. \A q \in L : Outbound(n, s.recent, q, S)
    BY <1>0, <2>2, <2>3, RelayedOutbound
  <2>. QED
    BY <1>1, <2>3, <2>4, TraceAfter
<1>4. CASE Handled(n, s, p, t)
  <2>1. PICK d : d = Decoded(n, p)
    OBVIOUS
  <2>2. PICK T : T = Answers(n, b, p, Heard(n, d), Expected(n, s, p))
    OBVIOUS
  <2>3. PICK L : L = Relayed(n, d)
    OBVIOUS
  <2>4. PICK r : r = Remembers(n, s, p)
    OBVIOUS
  <2>5. Allowed(n, r, t, b, T, L)
    BY <1>1, <1>4, <2>1, <2>2, <2>3, <2>4 DEF Handled
  <2>6. Trace(n, r, S) /\ IsNodeState(r) /\ <<p.from, p.id>> \in r.recent
    <3>1. Trace(n, r, S)
      BY <1>0, <2>4, RemembersTrace
    <3>2. r.recent = s.recent \cup {<<p.from, p.id>>} /\ IsNodeState(r)
      BY <1>0, <2>4, RemembersFacts
    <3>. QED
      BY <3>1, <3>2
  <2>7. Readable(d) /\ Relayable(n, d, S) /\ <<d.from, d.id>> \in r.recent
    BY <1>0, <2>1, <2>6, DecodedReadable, DecodedRelayable, DecodedFacts
  <2>8. \A q \in L : Outbound(n, r.recent, q, S)
    BY <2>3, <2>7, RelayedOutbound
  <2>. QED
    BY <1>1, <2>5, <2>6, <2>8, TraceAfter
<1>. QED
  BY <1>2, <1>3, <1>4 DEF Handling

(* What is sent of a message's record, or of the phone's message. *)
LEMMA SendsOutbound ==
  ASSUME NEW S \in SUBSET Messages, NEW n \in Node, NEW p \in Packet, p.from = n, p.plain, Kept(p, S), NEW h, NEW q \in Sends(n, p)
  PROVE  Outbound(n, h, q, S)
<1>1. q = OnQueue(n, p)
  BY DEF Sends
<1>2. /\ q.from = p.from /\ q.to = p.to /\ q.id = p.id /\ q.hopLimit = p.hopLimit /\ q.hopStart = p.hopLimit
      /\ q.crypt = (IF UsesPKI(n, p) THEN PKI ELSE p.crypt) /\ ~ q.plain /\ q.port = p.port
      /\ q.reqId = p.reqId /\ p.hopLimit \in Nat
  BY <1>1, OnQueueFacts DEF Packet
<1>3. Countable(q)
  BY <1>2 DEF Kept, Countable
<1>4. ASSUME NEW m \in S, CopyOf(p, m), p.crypt = m.crypt
      PROVE  CopyOf(q, m)
  <2>1. PICK f \in Packet : /\ f = FromPhone(m) /\ f.from = m.from /\ f.to = m.to /\ f.crypt = m.crypt
                            /\ f.plain /\ f.port = m.port
    BY MessageFacts, FromPhoneFacts
  <2>2. PICK x : x = OnQueue(n, f)
    OBVIOUS
  <2>3. x.crypt = (IF UsesPKI(n, f) THEN PKI ELSE f.crypt)
    BY <2>1, <2>2, OnQueueFacts
  <2>4. UsesPKI(n, f) <=> UsesPKI(n, p)
    BY <1>4, <2>1 DEF UsesPKI, CopyOf
  <2>5. CryptOf(m) = x.crypt
    BY <1>4, <2>1, <2>2 DEF CryptOf, CopyOf
  <2>6. q.crypt = CryptOf(m)
    BY <1>2, <1>4, <2>1, <2>3, <2>4, <2>5
  <2>. QED
    BY <1>2, <1>4, <2>6 DEF CopyOf
<1>5. Traced(q, S)
  BY <1>2, <1>4 DEF Kept, Traced
<1>6. Here(n, q)
  <2>1. q.from = n /\ q.hopStart - q.hopLimit = 0
    BY <1>2
  <2>. QED
    BY <2>1, LeadsNowhere DEF Here
<1>. QED
  BY <1>2, <1>3, <1>5, <1>6 DEF Outbound

(* Marking what the node itself sends. *)
LEMMA MarksTrace ==
  ASSUME NEW S \in SUBSET Messages, NEW n \in Node, NEW s, IsNodeState(s), Trace(n, s, S), NEW p \in Packet, p.from = n,
         NEW t, t = Marks(s, p)
  PROVE  Trace(n, t, S)
<1>1. /\ IsNodeState(t) /\ t.recent = s.recent \cup {<<p.from, p.id>>} /\ t.toPhone = s.toPhone
      /\ t.pending = s.pending /\ t.txQueue = s.txQueue /\ t.fromRadio = s.fromRadio /\ t.uplink = s.uplink
  BY MarksFacts
<1>2. \A q \in ToSet(t.txQueue) : Outbound(n, t.recent, q, S)
  BY <1>1 DEF Trace, Outbound
<1>3. \A m \in Messages : m.to = n /\ <<m.from, m.id>> \in t.recent => <<m.from, m.id>> \in s.recent
  BY <1>1, MeshAssumption
<1>. QED
  BY <1>1, <1>2, <1>3 DEF Trace

LEMMA TraceRetries ==
  ASSUME NEW S \in SUBSET Messages, NEW n \in Node, NEW s, IsNodeState(s), Trace(n, s, S), s.nextId >= FirstId,
         NEW id \in DOMAIN s.pending, Recorded(n, id, s.pending[id].packet),
         NEW t, GaveUp(n, s, id, t) \/ SentAgain(n, s, id, t)
  PROVE  Trace(n, t, S)
<1>1. PICK b \in Nat : b = s.nextId /\ b >= FirstId
  BY StateFields
<1>2. CASE GaveUp(n, s, id, t)
  <2>1. Allowed(n, s, t, b, {<<n, "routing", "MAX_RETRANSMIT", id>>}, {})
    BY <1>1, <1>2 DEF GaveUp
  <2>. QED
    BY <1>1, <2>1, TraceAfter
<1>3. CASE SentAgain(n, s, id, t)
  <2>1. PICK p \in Packet : p = s.pending[id].packet /\ p.from = n /\ p.plain /\ Kept(p, S)
    BY DEF Recorded, Trace
  <2>2. PICK v : Allowed(n, Marks(s, p), v, s.nextId, Refusing(n, id), Sends(n, p)) /\ CountsDown(v, id, t)
    BY <1>3, <2>1 DEF SentAgain
  <2>3. PICK w : w = Marks(s, p)
    OBVIOUS
  <2>4. IsNodeState(w) /\ Trace(n, w, S)
    BY <2>1, <2>3, MarksFacts, MarksTrace
  <2>5. PICK L : L = Sends(n, p)
    OBVIOUS
  <2>6. \A q \in L : Outbound(n, w.recent, q, S)
    BY <2>1, <2>5, SendsOutbound
  <2>7. Allowed(n, w, v, b, Refusing(n, id), L)
    BY <1>1, <2>2, <2>3, <2>5
  <2>8. Trace(n, v, S)
    BY <1>1, <2>4, <2>6, <2>7, TraceAfter
  <2>9. /\ t.recent = v.recent /\ t.txQueue = v.txQueue /\ t.fromRadio = v.fromRadio
        /\ t.toPhone = v.toPhone /\ t.uplink = v.uplink /\ DOMAIN t.pending = DOMAIN v.pending
        /\ \A i \in DOMAIN t.pending : t.pending[i].packet = v.pending[i].packet
    <3>1. CountsDown(v, id, t)
      BY <2>2
    <3>2. \A i \in DOMAIN t.pending : t.pending[i].packet = v.pending[i].packet
      BY <3>1 DEF CountsDown
    <3>. QED
      BY <3>1, <3>2 DEF CountsDown
  <2>. QED
    BY <2>8, <2>9 DEF Trace
<1>. QED
  BY <1>2, <1>3

LEMMA TraceSubmits ==
  ASSUME NEW S \in SUBSET Messages, NEW m \in S, NEW n \in Node, n = m.from, NEW s, IsNodeState(s), Trace(n, s, S),
         s.nextId >= FirstId, NEW t, Submitted(m, s, t)
  PROVE  Trace(n, t, S)
<1>1. PICK q, v :
    /\ q \in Packet /\ q.from = m.from /\ q.to = m.to /\ q.id = m.id /\ q.plain
    /\ q.crypt = m.crypt /\ q.port = m.port /\ q.reqId = NoId
    /\ q.hopLimit = m.hopLimit \/ (m.wantAck /\ q.hopLimit = LoraHopLimit)
    /\ IF m.wantAck THEN Starts(s, q, v) ELSE v = s
    /\ Allowed(m.from, Marks(v, q), t, s.nextId, Refusing(m.from, m.id), Sends(m.from, q))
  BY Zenon DEF Submitted
<1>2. PICK b \in Nat : b = s.nextId /\ b >= FirstId
  BY StateFields
<1>3. Kept(q, S)
  <2>1. q.port # "routing"
    BY <1>1, MessageFacts DEF Message
  <2>2. ShortHops => q.hopLimit <= HOP_MAX
    <3>1. LoraHopLimit <= HOP_MAX
      BY RouterAssumption DEF HOP_MAX
    <3>. QED
      BY <1>1, <3>1 DEF ShortHops
  <2>3. CopyOf(q, m)
    BY <1>1 DEF CopyOf
  <2>. QED
    BY <1>1, <2>1, <2>2, <2>3 DEF Kept
<1>4. IsNodeState(v) /\ Trace(n, v, S)
  <2>1. CASE ~ m.wantAck
    BY <1>1, <2>1
  <2>2. CASE m.wantAck
    <3>1. Starts(s, q, v)
      BY <1>1, <2>2
    <3>2. /\ IsNodeState(v) /\ v.recent = s.recent /\ v.txQueue = s.txQueue /\ v.fromRadio = s.fromRadio
          /\ v.toPhone = s.toPhone /\ v.uplink = s.uplink
      BY <3>1 DEF Starts
    <3>3. ASSUME NEW i \in DOMAIN v.pending
          PROVE  Kept(v.pending[i].packet, S)
      <4>1. CASE i = q.id
        <5>1. v.pending[i].packet = q
          BY <3>1, <4>1 DEF Starts
        <5>. QED
          BY <1>3, <5>1
      <4>2. CASE i # q.id
        <5>1. i \in DOMAIN s.pending /\ v.pending[i] = s.pending[i]
          BY <3>1, <4>2 DEF Starts
        <5>. QED
          BY <5>1 DEF Trace
      <4>. QED
        BY <4>1, <4>2
    <3>. QED
      BY <3>2, <3>3 DEF Trace
  <2>. QED
    BY <2>1, <2>2
<1>5. PICK w : w = Marks(v, q)
  OBVIOUS
<1>6. IsNodeState(w) /\ Trace(n, w, S)
  BY <1>1, <1>4, <1>5, MarksFacts, MarksTrace
<1>7. PICK L : L = Sends(n, q)
  OBVIOUS
<1>8. \A p \in L : Outbound(n, w.recent, p, S)
  BY <1>1, <1>3, <1>7, SendsOutbound
<1>9. Allowed(n, w, t, b, Refusing(n, m.id), L)
  BY <1>1, <1>2, <1>5, <1>7
<1>. QED
  BY <1>2, <1>6, <1>8, <1>9, TraceAfter

(* But for a reboot, a node forgets neither what it has seen nor what its *)
(* phone has been given.                                                  *)
Grows(k) ==
  node[k].recent \subseteq node'[k].recent /\ ToSet(node[k].toPhone) \subseteq ToSet(node'[k].toPhone)

LEMMA HandlingGrows ==
  ASSUME NEW n, NEW s, IsNodeState(s), NEW p \in Packet, NEW t, Handling(n, p, s, t)
  PROVE  s.recent \subseteq t.recent /\ ToSet(s.toPhone) \subseteq ToSet(t.toPhone)
<1>1. CASE t = s
  BY <1>1
<1>2. CASE Repeated(n, s, p, t)
  <2>1. s.recent \subseteq t.recent /\ t.toPhone = s.toPhone
    BY <1>2, Zenon DEF Repeated, Allowed
  <2>. QED
    BY <2>1
<1>3. CASE Handled(n, s, p, t)
  <2>1. PICK r : r = Remembers(n, s, p)
    OBVIOUS
  <2>2. r.recent \subseteq t.recent /\ t.toPhone = r.toPhone
    BY <1>3, <2>1, Zenon DEF Handled, Allowed
  <2>. QED
    BY <2>1, <2>2, RemembersGrows
<1>. QED
  BY <1>1, <1>2, <1>3 DEF Handling

LEMMA StepsGrow ==
  ASSUME BaseInv, Steps, NEW k \in Node
  PROVE  Grows(k) \/ Boots(k)
<1>1. IsNodeState(node[k])
  BY DEF BaseInv, Sound
<1>2. Keeps(k) => Grows(k)
  BY DEF Keeps, Grows
<1>3. ASSUME NEW p, NEW r, Handles(k, p, r)
      PROVE  Grows(k)
  <2>1. PICK t : t = node'[k]
    OBVIOUS
  <2>2. /\ IsNodeState(r) /\ r.toPhone = node[k].toPhone /\ r.recent = node[k].recent
        /\ p \in Packet /\ Handling(k, p, r, t)
    BY <1>3, <2>1 DEF Handles, Taken, Legible, Readable
  <2>3. r.recent \subseteq t.recent /\ ToSet(r.toPhone) \subseteq ToSet(t.toPhone)
    BY <2>2, HandlingGrows
  <2>. QED
    BY <2>1, <2>2, <2>3 DEF Grows
<1>. QED
  BY <1>2, <1>3, StepsKeep

LEMMA Untouched ==
  ASSUME NEW n, Only(n), NEW k \in Node, k # n
  PROVE  node'[k] = node[k]
<1>1. Only(n) /\ k \in Node \ {n}
  OBVIOUS
<1>. QED
  BY <1>1 DEF Only

(* What a node transmits it transmitted before, or takes from its queue now. *)
LEMMA StepsSend ==
  ASSUME BaseInv, Steps, NEW k \in Node
  PROVE  \/ sending'[k] = sending[k] /\ Grows(k)
         \/ sending'[k] = NoPacket
         \/ sending'[k] \in ToSet(node[k].txQueue) /\ node'[k].recent = node[k].recent
<1>1. sending' = sending => (sending'[k] = sending[k] /\ Grows(k)) \/ sending'[k] = NoPacket
  <2>1. SUFFICES ASSUME sending' = sending, Boots(k)
                 PROVE  sending'[k] = NoPacket
    BY StepsGrow
  <2>. QED
    BY <2>1 DEF Boots, Reboot, BaseInv, TypeOK
<1>2. ASSUME NEW n \in Node, NEW x, sending' = [sending EXCEPT ![n] = x], k # n
      PROVE  (sending'[k] = sending[k] /\ Grows(k)) \/ sending'[k] = NoPacket
  <2>1. sending'[k] = sending[k]
    BY <1>2 DEF BaseInv, TypeOK
  <2>2. Boots(k) => sending'[k] = NoPacket
    BY DEF Boots, Reboot, BaseInv, TypeOK
  <2>. QED
    BY <2>1, <2>2, StepsGrow
<1>3. ASSUME NEW n \in Node, NEW p, Airs(n, p)
      PROVE  \/ sending'[k] = sending[k] /\ Grows(k)
             \/ sending'[k] = NoPacket
             \/ sending'[k] \in ToSet(node[k].txQueue) /\ node'[k].recent = node[k].recent
  <2>1. CASE k = n
    <3>1. sending'[k] = p
      BY <1>3, <2>1 DEF Airs, BaseInv, TypeOK
    <3>. QED
      BY <1>3, <2>1, <3>1 DEF Airs, Dequeued
  <2>2. CASE k # n
    BY <1>2, <1>3, <2>2 DEF Airs
  <2>. QED
    BY <2>1, <2>2
<1>4. ASSUME NEW n \in Node, sending' = [sending EXCEPT ![n] = NoPacket]
      PROVE  (sending'[k] = sending[k] /\ Grows(k)) \/ sending'[k] = NoPacket
  <2>1. CASE k = n
    BY <1>4, <2>1 DEF BaseInv, TypeOK
  <2>2. CASE k # n
    BY <1>2, <1>4, <2>2
  <2>. QED
    BY <2>1, <2>2
<1>. QED
  BY <1>1, <1>3, <1>4 DEF Steps, Submits, Handles, Retries, Hearkens, Reaches, Boots, Reboot

(* What is received: the header tells a hop count of at most seven as it is. *)
LEMMA OnAirInbound ==
  ASSUME NEW S \in SUBSET Messages, NEW n \in Node, NEW h, NEW p \in Sealed, Outbound(n, h, p, S),
         NEW r \in Node, r \in Hears[n]
  PROVE  Inbound(r, OnAir(p), S)
<1>1. PICK q : q = OnAir(p)
  OBVIOUS
<1>2. /\ q \in Packet /\ q.from = p.from /\ q.to = p.to /\ q.id = p.id
      /\ q.hopLimit = (IF p.hopLimit > HOP_MAX THEN HOP_RELIABLE ELSE p.hopLimit)
      /\ q.hopStart = p.hopStart % 8 /\ q.hopStart <= HOP_MAX
      /\ q.crypt = p.crypt /\ q.plain = p.plain /\ q.port = p.port
      /\ q.reqId = p.reqId
  BY <1>1, OnAirFacts DEF Sealed
<1>3. ~ p.plain /\ p.hopLimit \in Nat /\ p.hopStart \in Nat
  BY DEF Sealed, Packet
<1>4. Traced(q, S)
  BY <1>2, <1>3 DEF Outbound, Traced, CopyOf
<1>5. Countable(q)
  <2>1. SUFFICES ASSUME ShortHops
                 PROVE  q.hopLimit <= q.hopStart /\ q.hopStart <= HOP_MAX
    BY DEF Countable
  <2>2. p.hopLimit <= p.hopStart /\ p.hopStart <= HOP_MAX
    BY <2>1 DEF Outbound, Countable
  <2>3. p.hopStart % 8 = p.hopStart /\ ~ (p.hopLimit > HOP_MAX)
    BY <1>3, <2>2, SMT DEF HOP_MAX
  <2>. QED
    BY <1>2, <2>2, <2>3
<1>6. There(r, q)
  <2>1. SUFFICES ASSUME ShortHops
                 PROVE  Leads(q.from, r, q.hopStart - q.hopLimit + 1)
    BY DEF There
  <2>2. p.hopLimit <= p.hopStart /\ p.hopStart <= HOP_MAX
    BY <2>1 DEF Outbound, Countable
  <2>3. p.hopStart % 8 = p.hopStart /\ ~ (p.hopLimit > HOP_MAX)
    BY <1>3, <2>2, SMT DEF HOP_MAX
  <2>4. There(r, p)
    BY HereThenThere DEF Outbound, Sealed
  <2>5. Leads(p.from, r, p.hopStart - p.hopLimit + 1)
    BY <2>1, <2>4 DEF There
  <2>6. q.hopStart = p.hopStart /\ q.hopLimit = p.hopLimit
    BY <1>2, <2>3
  <2>. QED
    BY <1>2, <2>5, <2>6
<1>. QED
  BY <1>1, <1>2, <1>3, <1>4, <1>5, <1>6 DEF Inbound

LEMMA TraceReceived ==
  ASSUME NEW S \in SUBSET Messages, NEW n, NEW s, Trace(n, s, S), NEW p, Inbound(n, p, S), NEW t, Received(s, p, t)
  PROVE  Trace(n, t, S)
<1>1. \A q \in ToSet(t.fromRadio) : q \in ToSet(s.fromRadio) \/ q = p
  BY DEF Received, Adds
<1>2. \A q \in ToSet(t.fromRadio) : Inbound(n, q, S)
  BY <1>1 DEF Trace
<1>. QED
  BY <1>2 DEF Trace, Received

LEMMA TraceSteps ==
  ASSUME BaseInv, TraceInv, Steps, NEW k \in Node
  PROVE  Trace(k, node'[k], sent')
<1>1. PICK s : s = node[k]
  OBVIOUS
<1>2. PICK t : t = node'[k]
  OBVIOUS
<1>s. PICK S \in SUBSET Messages : S = sent' /\ sent \subseteq S
  BY DEF Steps, Submits, Handles, Retries, Hearkens, Airs, Reaches, Boots, Reboot, BaseInv, TypeOK
<1>3. Trace(k, s, S) /\ IsNodeState(s) /\ Sound(k, s, sent) /\ FirstId <= s.nextId
  BY <1>1, <1>s, TraceMore DEF TraceInv, BaseInv, Sound
<1>4. s.nextId \in Nat /\ FirstId \in Nat
  BY <1>3, StateFields, MeshAssumption
<1>5. s.nextId >= FirstId
  BY <1>3, <1>4, SMT
<1>6. ASSUME NEW n, Only(n), k # n
      PROVE  Trace(k, t, S)
  BY <1>1, <1>2, <1>3, <1>6, Untouched
<1>7. ASSUME NEW m \in Messages, Submits(m)
      PROVE  Trace(k, t, S)
  <2>1. CASE m.from = k
    <3>1. Submitted(m, s, t)
      BY <1>1, <1>2, <1>7, <2>1 DEF Submits
    <3>2. m \in S
      BY <1>7, <1>s DEF Submits
    <3>. QED
      BY <1>3, <1>5, <2>1, <3>1, <3>2, TraceSubmits
  <2>. QED
    BY <1>6, <1>7, <2>1 DEF Submits
<1>8. ASSUME NEW n \in Node, NEW p, NEW r, Handles(n, p, r)
      PROVE  Trace(k, t, S)
  <2>1. CASE n = k
    <3>1. Taken(s, p, r) /\ Legible(p) /\ Handling(k, p, r, t)
      BY <1>1, <1>2, <1>8, <2>1 DEF Handles
    <3>2. IsNodeState(r) /\ Trace(k, r, S) /\ Inbound(k, p, S) /\ r.nextId >= FirstId
      BY <1>3, <1>5, <3>1 DEF Taken, Trace
    <3>. QED
      BY <3>1, <3>2, TraceHandling
  <2>. QED
    BY <1>6, <1>8, <2>1 DEF Handles
<1>9. ASSUME NEW n \in Node, NEW id, Retries(n, id)
      PROVE  Trace(k, t, S)
  <2>1. CASE n = k
    <3>1. id \in DOMAIN s.pending /\ (GaveUp(k, s, id, t) \/ SentAgain(k, s, id, t))
      BY <1>1, <1>2, <1>9, <2>1 DEF Retries
    <3>2. Recorded(k, id, s.pending[id].packet)
      BY <1>3, <3>1 DEF Sound
    <3>. QED
      BY <1>3, <1>5, <3>1, <3>2, TraceRetries
  <2>. QED
    BY <1>6, <1>9, <2>1 DEF Retries
<1>10. ASSUME NEW n \in Node, NEW id, Hearkens(n, id)
       PROVE  Trace(k, t, S)
  <2>1. CASE n = k
    <3>1. PICK b \in Nat : b = s.nextId /\ b >= FirstId
      BY <1>4, <1>5
    <3>2. PICK T : T = {<<k, "routing", "NONE", id>>}
      OBVIOUS
    <3>3. PICK L : L = {}
      OBVIOUS
    <3>4. Allowed(k, s, t, b, T, L)
      BY <1>1, <1>2, <1>10, <2>1, <3>1, <3>2, <3>3 DEF Hearkens
    <3>5. \A q \in L : Outbound(k, s.recent, q, S)
      BY <3>3
    <3>. QED
      BY <1>3, <3>1, <3>4, <3>5, TraceAfter
  <2>. QED
    BY <1>6, <1>10, <2>1 DEF Hearkens
<1>11. ASSUME NEW n \in Node, NEW p, Airs(n, p)
       PROVE  Trace(k, t, S)
  <2>1. CASE n = k
    <3>1. Dequeued(s, p, t)
      BY <1>1, <1>2, <1>11, <2>1 DEF Airs
    <3>. QED
      BY <1>3, <3>1 DEF Dequeued, Trace
  <2>. QED
    BY <1>6, <1>11, <2>1 DEF Airs
<1>12. ASSUME NEW n \in Node, Reaches(n)
       PROVE  Trace(k, t, S)
  <2>1. PICK x : x = sending[n]
    OBVIOUS
  <2>2. x \in Sealed /\ Outbound(n, node[n].recent, x, S)
    <3>1. x \in Sealed /\ Outbound(n, node[n].recent, x, sent)
      BY <1>12, <2>1 DEF Reaches, BaseInv, TraceInv
    <3>. QED
      BY <1>s, <3>1 DEF Outbound, Traced
  <2>3. PICK p : p = OnAir(x)
    OBVIOUS
  <2>4. k \in Hears[n] => Inbound(k, p, S)
    BY <2>2, <2>3, OnAirInbound
  <2>5. t = s \/ (k \in Hears[n] /\ Received(s, p, t))
    BY <1>1, <1>2, <1>12, <2>1, <2>3 DEF Reaches
  <2>. QED
    BY <1>3, <2>4, <2>5, TraceReceived
<1>13. ASSUME NEW n \in Node, Boots(n)
       PROVE  Trace(k, t, S)
  <2>1. CASE n = k
    <3>1. t = Booted(s.nextId)
      BY <1>1, <1>2, <1>13, <2>1 DEF Boots
    <3>2. /\ DOMAIN t.pending = {} /\ t.recent = {} /\ t.uplink = {}
          /\ ToSet(t.txQueue) = {} /\ ToSet(t.fromRadio) = {} /\ ToSet(t.toPhone) = {}
      BY <1>4, <3>1, BootedFacts
    <3>. QED
      BY <3>2 DEF Trace
  <2>. QED
    BY <1>6, <1>13, <2>1 DEF Boots
<1>14. Trace(k, t, S)
  BY <1>7, <1>8, <1>9, <1>10, <1>11, <1>12, <1>13 DEF Steps
<1>. QED
  BY <1>2, <1>s, <1>14

LEMMA TraceNext ==
  ASSUME BaseInv, TraceInv, [Next]_vars
  PROVE  TraceInv'
<1>1. CASE UNCHANGED vars
  BY <1>1 DEF TraceInv, vars
<1>2. CASE Next
  <2>1. SUFFICES ASSUME NEW k \in Node
                 PROVE  /\ Trace(k, node'[k], sent')
                        /\ sending'[k] = NoPacket \/ Outbound(k, node'[k].recent, sending'[k], sent')
    BY DEF TraceInv
  <2>2. Steps
    BY <1>2, NextSteps
  <2>3. Trace(k, node[k], sent) /\ (sending[k] = NoPacket \/ Outbound(k, node[k].recent, sending[k], sent))
    BY DEF TraceInv
  <2>4. sent \subseteq sent'
    BY <2>2 DEF Steps, Submits, Handles, Retries, Hearkens, Airs, Reaches, Boots, Reboot
  <2>5. sending'[k] = NoPacket \/ Outbound(k, node'[k].recent, sending'[k], sent')
    <3>1. CASE sending'[k] = sending[k] /\ Grows(k)
      BY <2>3, <2>4, <3>1 DEF Outbound, Grows, Traced
    <3>2. CASE sending'[k] \in ToSet(node[k].txQueue) /\ node'[k].recent = node[k].recent
      BY <2>3, <2>4, <3>2 DEF Trace, Outbound, Traced
    <3>. QED
      BY <2>2, <3>1, <3>2, StepsSend
  <2>. QED
    BY <2>2, <2>5, TraceSteps
<1>. QED
  BY <1>1, <1>2

LEMMA TraceInit ==
  ASSUME Init
  PROVE  TraceInv
<1>1. FirstId \in Nat
  BY MeshAssumption
<1>2. ASSUME NEW n \in Node
      PROVE  Trace(n, node[n], sent)
  <2>1. PICK t : t = Booted(FirstId)
    OBVIOUS
  <2>2. /\ DOMAIN t.pending = {} /\ t.recent = {} /\ t.uplink = {}
        /\ ToSet(t.txQueue) = {} /\ ToSet(t.fromRadio) = {} /\ ToSet(t.toPhone) = {}
    BY <1>1, <2>1, BootedFacts
  <2>3. node[n] = t
    BY <2>1 DEF Init
  <2>. QED
    BY <2>2, <2>3 DEF Trace
<1>3. \A n \in Node : sending[n] = NoPacket
  BY DEF Init
<1>. QED
  BY <1>2, <1>3 DEF TraceInv

LEMMA TraceAlways == Spec => []TraceInv
<1>1. Init => TraceInv
  BY TraceInit
<1>2. BaseInv /\ TraceInv /\ [Next]_vars => TraceInv'
  BY TraceNext
<1>. QED
  BY <1>1, <1>2, BaseAlways, PTL DEF Spec

(* HopsCountable (Mesh): a packet received over the air has come from its     *)
(* originator along a path of hop_start - hop_limit hops and one more, so     *)
(* that every relay has counted its own hop once (perhapsRebroadcast), on a   *)
(* mesh whose phones ask for seven hops at most.  Of a higher limit the three *)
(* bits of the header keep hop_start modulo eight, while                      *)
(* RadioInterface::beginSending replaces hop_limit.                           *)
THEOREM MeshHopsCountable ==
  ASSUME ShortHops
  PROVE  Spec => []HopsCountable
<1>1. TraceInv => HopsCountable
  BY DEF TraceInv, Trace, Inbound, Countable, There, HopsCountable
<1>. QED
  BY <1>1, TraceAlways, PTL

---------------------------------------------------------------------------
(* How often a relay sends a message on.  The origin's transmissions of it   *)
(* that have ended bound what each other node has transmitted, has queued    *)
(* and may still queue for the copies that wait in its receive queue; a      *)
(* reboot, after which all is new to the node, allows one more.              *)

Due(s, m) ==
  IF <<m.from, m.id>> \in s.recent THEN Directs(s.fromRadio, m.from, m.id)
  ELSE Owed(s.fromRadio, m.from, m.id)

Share(s, m) == Number(s, m.from, m.id) + Due(s, m)

(* The node has, or had, a copy. *)
Sees(s, m) ==
  <<m.from, m.id>> \in s.recent \/ \E p \in ToSet(s.fromRadio) : IsOf(p, m.from, m.id)

Carries(x, m) == x # NoPacket /\ IsOf(x, m.from, m.id)

(* Of a transmissions of m by its origin, which now transmits x, those that *)
(* have ended.                                                              *)
EndedOf(a, x, m) == a - (IF Carries(x, m) THEN 1 ELSE 0)

Ended(m) == EndedOf(aired[m.from][m], sending[m.from], m)

OneAtLeast(e) == IF e >= 1 THEN e ELSE 1

(* The bound on a node in state s that has transmitted m a times, after e of *)
(* its origin's transmissions and b reboots.                                 *)
Within(a, s, m, e, b) ==
  /\ Sees(s, m) => e >= 1
  /\ a + Share(s, m) <= OneAtLeast(e) + b

RelayInv ==
  \A m \in Messages :
    /\ Carries(sending[m.from], m) => aired[m.from][m] >= 1
    /\ \A k \in Node \ {m.from} : Within(aired[k][m], node[k], m, Ended(m), reboots)

(* t sees nothing of m that s does not, and owes no more. *)
Owes(m, s, t) == Share(t, m) <= Share(s, m) /\ (Sees(t, m) => Sees(s, m))

LEMMA ShareType ==
  ASSUME NEW s, IsNodeState(s), NEW m
  PROVE  /\ Share(s, m) \in Nat /\ Number(s, m.from, m.id) \in Nat /\ Due(s, m) \in Nat
         /\ Directs(s.fromRadio, m.from, m.id) \in Nat /\ Owed(s.fromRadio, m.from, m.id) \in Nat
         /\ Directs(s.fromRadio, m.from, m.id) <= Owed(s.fromRadio, m.from, m.id)
<1>1. Number(s, m.from, m.id) \in Nat
  BY NumberType
<1>2. /\ Directs(s.fromRadio, m.from, m.id) \in Nat /\ Owed(s.fromRadio, m.from, m.id) \in Nat
      /\ Directs(s.fromRadio, m.from, m.id) <= Owed(s.fromRadio, m.from, m.id)
  BY StateFields, OwedType
<1>3. Due(s, m) \in Nat
  BY <1>2 DEF Due
<1>. QED
  BY <1>1, <1>2, <1>3 DEF Share

LEMMA OwesSame ==
  ASSUME NEW m, NEW s, IsNodeState(s), NEW t, t.txQueue = s.txQueue, t.fromRadio = s.fromRadio,
         <<m.from, m.id>> \in t.recent <=> <<m.from, m.id>> \in s.recent
  PROVE  Owes(m, s, t)
<1>1. Share(t, m) = Share(s, m)
  BY DEF Share, Due, Number
<1>2. Share(s, m) \in Nat
  BY ShareType
<1>. QED
  BY <1>1, <1>2 DEF Owes, Sees

LEMMA OwesThen ==
  ASSUME NEW m, NEW s, NEW t, NEW u, IsNodeState(s), IsNodeState(t), IsNodeState(u),
         Owes(m, s, t), Owes(m, t, u)
  PROVE  Owes(m, s, u)
<1>1. Share(s, m) \in Nat /\ Share(t, m) \in Nat /\ Share(u, m) \in Nat
  BY ShareType
<1>2. Share(t, m) <= Share(s, m) /\ Share(u, m) <= Share(t, m)
  BY DEF Owes
<1>3. Share(u, m) <= Share(s, m)
  BY <1>1, <1>2, SMT
<1>. QED
  BY <1>3 DEF Owes

(* t has no more copies in either queue, and has seen what s has. *)
LEMMA OwesLess ==
  ASSUME NEW m, NEW s, IsNodeState(s), NEW t, IsNodeState(t),
         Number(t, m.from, m.id) <= Number(s, m.from, m.id),
         Directs(t.fromRadio, m.from, m.id) <= Directs(s.fromRadio, m.from, m.id),
         Owed(t.fromRadio, m.from, m.id) <= Owed(s.fromRadio, m.from, m.id),
         <<m.from, m.id>> \in t.recent <=> <<m.from, m.id>> \in s.recent
  PROVE  Share(t, m) <= Share(s, m)
<1>1. Due(t, m) <= Due(s, m)
  BY DEF Due
<1>2. /\ Number(s, m.from, m.id) \in Nat /\ Due(s, m) \in Nat
      /\ Number(t, m.from, m.id) \in Nat /\ Due(t, m) \in Nat
  BY ShareType
<1>. QED
  BY <1>1, <1>2, SMT DEF Share

(* What a handler of node n does to a message of another, if it sends on L. *)
Relays(m, s, t, L) ==
  /\ IsNodeState(t)
  /\ Number(t, m.from, m.id)
       <= Number(s, m.from, m.id) + (IF <<m.from, m.id>> \in PairsOf(L) THEN 1 ELSE 0)
  /\ Directs(t.fromRadio, m.from, m.id) <= Directs(s.fromRadio, m.from, m.id)
  /\ Owed(t.fromRadio, m.from, m.id) <= Owed(s.fromRadio, m.from, m.id)
  /\ <<m.from, m.id>> \in s.recent => <<m.from, m.id>> \in t.recent
  /\ <<m.from, m.id>> \in t.recent => <<m.from, m.id>> \in s.recent \/ <<m.from, m.id>> \in PairsOf(L)
  /\ \A p \in ToSet(t.fromRadio) : IsOf(p, m.from, m.id) => p \in ToSet(s.fromRadio)

LEMMA AllowedRelays ==
  ASSUME NEW m \in Messages, NEW n \in Node, n # m.from, NEW s, NEW t, NEW b, NEW T, NEW L,
         Allowed(n, s, t, b, T, L)
  PROVE  Relays(m, s, t, L)
<1>1. m.from \in Node \ {n} /\ m.id \in Nat /\ <<m.from, m.id>> \in Node \X Nat
  BY MessageFacts
<1>2. PICK x : x = <<m.from, m.id>>
  OBVIOUS
<1>3. x \in (Node \X Nat) \ Fresh(n, b) /\ x[1] = m.from /\ x[2] = m.id
  BY <1>1, <1>2 DEF Fresh
<1>4. Number(t, x[1], x[2]) <= Number(s, x[1], x[2]) + (IF x \in PairsOf(L) THEN 1 ELSE 0)
  BY <1>3, Zenon DEF Allowed
<1>5. Fades(n, s.fromRadio, t.fromRadio) /\ IsNodeState(t)
  BY Zenon DEF Allowed
<1>6. /\ Directs(t.fromRadio, m.from, m.id) <= Directs(s.fromRadio, m.from, m.id)
      /\ Owed(t.fromRadio, m.from, m.id) <= Owed(s.fromRadio, m.from, m.id)
  BY <1>1, <1>5 DEF Fades
<1>7. s.recent \subseteq t.recent /\ t.recent \subseteq s.recent \cup Fresh(n, b) \cup PairsOf(L)
  BY Zenon DEF Allowed
<1>8. ASSUME NEW p \in ToSet(t.fromRadio), IsOf(p, m.from, m.id)
      PROVE  p \in ToSet(s.fromRadio)
  <2>1. p \in ToSet(s.fromRadio) \cup Told(n, b, T)
    BY <1>8 DEF Allowed, Adds
  <2>2. p \notin Told(n, b, T)
    BY <1>1, <1>8 DEF Told, Own, IsOf
  <2>. QED
    BY <2>1, <2>2
<1>9. Number(t, m.from, m.id)
        <= Number(s, m.from, m.id) + (IF <<m.from, m.id>> \in PairsOf(L) THEN 1 ELSE 0)
  BY <1>2, <1>3, <1>4
<1>10. /\ <<m.from, m.id>> \in s.recent => <<m.from, m.id>> \in t.recent
       /\ <<m.from, m.id>> \in t.recent => <<m.from, m.id>> \in s.recent \/ <<m.from, m.id>> \in PairsOf(L)
  BY <1>2, <1>3, <1>7
<1>. QED
  BY <1>5, <1>6, <1>8, <1>9, <1>10 DEF Relays

(* It owes no more if what it sends on is not of m. *)
LEMMA AllowedOwes ==
  ASSUME NEW m \in Messages, NEW n \in Node, n # m.from, NEW s, IsNodeState(s), NEW t, NEW b, NEW T, NEW L,
         Allowed(n, s, t, b, T, L), <<m.from, m.id>> \notin PairsOf(L)
  PROVE  Owes(m, s, t) /\ IsNodeState(t)
<1>1. Relays(m, s, t, L)
  BY AllowedRelays
<1>2. /\ IsNodeState(t)
      /\ Number(t, m.from, m.id) <= Number(s, m.from, m.id) + 0
      /\ Directs(t.fromRadio, m.from, m.id) <= Directs(s.fromRadio, m.from, m.id)
      /\ Owed(t.fromRadio, m.from, m.id) <= Owed(s.fromRadio, m.from, m.id)
      /\ <<m.from, m.id>> \in t.recent <=> <<m.from, m.id>> \in s.recent
      /\ \A p \in ToSet(t.fromRadio) : IsOf(p, m.from, m.id) => p \in ToSet(s.fromRadio)
  BY <1>1 DEF Relays
<1>3. Number(t, m.from, m.id) <= Number(s, m.from, m.id)
  <2>1. Number(s, m.from, m.id) \in Nat
    BY NumberType
  <2>. QED
    BY <1>2, <2>1
<1>4. Share(t, m) <= Share(s, m)
  BY <1>2, <1>3, OwesLess
<1>. QED
  BY <1>2, <1>4 DEF Owes, Sees

(* Taking a packet from the queue and handling it: each relay is one less owed. *)
LEMMA TakenOwes ==
  ASSUME NEW m, NEW s, IsNodeState(s), NEW p, NEW r, Taken(s, p, r)
  PROVE  Owes(m, s, r)
<1>1. /\ IsNodeState(r) /\ Drains(s.fromRadio, p, r.fromRadio) /\ ToSet(r.fromRadio) \subseteq ToSet(s.fromRadio)
      /\ r.txQueue = s.txQueue /\ r.recent = s.recent
  BY DEF Taken
<1>2. /\ Directs(r.fromRadio, m.from, m.id) + (IF IsOf(p, m.from, m.id) /\ Direct(p) THEN 1 ELSE 0)
           <= Directs(s.fromRadio, m.from, m.id)
      /\ Owed(r.fromRadio, m.from, m.id) <= Owed(s.fromRadio, m.from, m.id)
  BY <1>1 DEF Drains
<1>3. Directs(r.fromRadio, m.from, m.id) \in Nat /\ Directs(s.fromRadio, m.from, m.id) \in Nat
  BY <1>1, ShareType
<1>4. Directs(r.fromRadio, m.from, m.id) <= Directs(s.fromRadio, m.from, m.id)
  BY <1>2, <1>3, SMT
<1>5. Number(r, m.from, m.id) = Number(s, m.from, m.id) /\ Number(s, m.from, m.id) \in Nat
  BY <1>1, NumberType DEF Number
<1>6. Number(r, m.from, m.id) <= Number(s, m.from, m.id)
  BY <1>5
<1>7. /\ IsNodeState(r) /\ Owed(r.fromRadio, m.from, m.id) <= Owed(s.fromRadio, m.from, m.id)
      /\ <<m.from, m.id>> \in r.recent <=> <<m.from, m.id>> \in s.recent
  BY <1>1, <1>2
<1>8. Share(r, m) <= Share(s, m)
  BY <1>4, <1>6, <1>7, OwesLess
<1>9. Sees(r, m) => Sees(s, m)
  BY <1>1 DEF Sees
<1>. QED
  BY <1>8, <1>9 DEF Owes

LEMMA RepeatedOwes ==
  ASSUME NEW m \in Messages, NEW n \in Node, n # m.from, NEW s, IsNodeState(s),
         NEW p, Legible(p), NEW r, Taken(s, p, r), NEW t, Repeated(n, r, p, t)
  PROVE  Owes(m, s, t)
<1>1. PICK L : L = IF Direct(p) THEN Relayed(n, p) ELSE {}
  OBVIOUS
<1>2. PICK T : T = Answers(n, r.nextId, p, p.to = n /\ p.wantAck, Expected(n, r, p))
  OBVIOUS
<1>3. PICK b : b = r.nextId
  OBVIOUS
<1>4. Allowed(n, r, t, b, T, L) /\ <<p.from, p.id>> \in r.recent
  BY <1>1, <1>2, <1>3 DEF Repeated
<1>5. /\ IsNodeState(r) /\ Drains(s.fromRadio, p, r.fromRadio) /\ ToSet(r.fromRadio) \subseteq ToSet(s.fromRadio)
      /\ r.txQueue = s.txQueue /\ r.recent = s.recent
  BY DEF Taken
<1>6. Readable(p)
  BY DEF Legible
<1>7. \A q \in L : Direct(p) /\ q.from = p.from /\ q.id = p.id
  BY <1>1, <1>6, RelayedAllSealed
<1>8. <<m.from, m.id>> \in PairsOf(L) => IsOf(p, m.from, m.id) /\ Direct(p)
  BY <1>7 DEF PairsOf, IsOf
<1>9. CASE <<m.from, m.id>> \notin PairsOf(L)
  <2>1. Owes(m, r, t) /\ IsNodeState(t)
    BY <1>4, <1>5, <1>9, AllowedOwes
  <2>2. Owes(m, s, r)
    BY TakenOwes
  <2>. QED
    BY <1>5, <2>1, <2>2, OwesThen
<1>10. CASE <<m.from, m.id>> \in PairsOf(L)
  <2>1. Relays(m, r, t, L)
    BY <1>4, AllowedRelays
  <2>2. /\ IsNodeState(t) /\ Number(t, m.from, m.id) <= Number(r, m.from, m.id) + 1
        /\ Directs(t.fromRadio, m.from, m.id) <= Directs(r.fromRadio, m.from, m.id)
        /\ <<m.from, m.id>> \in r.recent => <<m.from, m.id>> \in t.recent
    BY <1>10, <2>1 DEF Relays
  <2>3. <<m.from, m.id>> \in r.recent
    BY <1>4, <1>8, <1>10 DEF IsOf
  <2>4. Directs(r.fromRadio, m.from, m.id) + 1 <= Directs(s.fromRadio, m.from, m.id)
    BY <1>5, <1>8, <1>10 DEF Drains
  <2>5. /\ Due(t, m) = Directs(t.fromRadio, m.from, m.id) /\ Due(s, m) = Directs(s.fromRadio, m.from, m.id)
    BY <1>5, <2>2, <2>3 DEF Due
  <2>6. Number(r, m.from, m.id) = Number(s, m.from, m.id)
    BY <1>5 DEF Number
  <2>7. /\ Number(s, m.from, m.id) \in Nat /\ Number(t, m.from, m.id) \in Nat
        /\ Directs(s.fromRadio, m.from, m.id) \in Nat /\ Directs(t.fromRadio, m.from, m.id) \in Nat
        /\ Directs(r.fromRadio, m.from, m.id) \in Nat
    BY <1>5, <2>2, ShareType
  <2>8. Share(t, m) <= Share(s, m)
    BY <2>2, <2>4, <2>5, <2>6, <2>7, SMT DEF Share
  <2>9. Sees(s, m)
    BY <1>5, <2>3 DEF Sees
  <2>. QED
    BY <2>8, <2>9 DEF Owes
<1>. QED
  BY <1>9, <1>10

LEMMA HandledOwes ==
  ASSUME NEW m \in Messages, NEW n \in Node, n # m.from, NEW s, IsNodeState(s),
         NEW p, Legible(p), NEW r, Taken(s, p, r), NEW t, Handled(n, r, p, t)
  PROVE  Owes(m, s, t)
<1>1. PICK d : d = Decoded(n, p)
  OBVIOUS
<1>2. PICK L : L = Relayed(n, d)
  OBVIOUS
<1>3. PICK T : T = Answers(n, r.nextId, p, Heard(n, d), Expected(n, r, p))
  OBVIOUS
<1>4. PICK b : b = r.nextId
  OBVIOUS
<1>5. PICK w : w = Remembers(n, r, p)
  OBVIOUS
<1>6. Allowed(n, w, t, b, T, L) /\ <<p.from, p.id>> \notin r.recent
  BY <1>1, <1>2, <1>3, <1>4, <1>5 DEF Handled
<1>7. /\ IsNodeState(r) /\ Drains(s.fromRadio, p, r.fromRadio) /\ ToSet(r.fromRadio) \subseteq ToSet(s.fromRadio)
      /\ p \in ToSet(s.fromRadio) /\ r.txQueue = s.txQueue /\ r.recent = s.recent
  BY DEF Taken
<1>8. Readable(p) /\ p \in Packet
  BY DEF Legible, Readable
<1>9. Readable(d) /\ d.from = p.from /\ d.id = p.id
  BY <1>1, <1>8, DecodedReadable, DecodedFacts
<1>10. \A q \in L : q.from = p.from /\ q.id = p.id
  BY <1>2, <1>9, RelayedAllSealed
<1>11. /\ IsNodeState(w) /\ w.recent = r.recent \cup {<<p.from, p.id>>}
       /\ w.txQueue = r.txQueue /\ w.fromRadio = r.fromRadio
  <2>1. IsNodeState(r)
    BY <1>7
  <2>. QED
    BY <1>5, <1>8, <2>1, RemembersFields
<1>12. CASE ~ IsOf(p, m.from, m.id)
  <2>1. <<m.from, m.id>> \notin PairsOf(L) /\ <<m.from, m.id>> # <<p.from, p.id>>
    BY <1>10, <1>12 DEF PairsOf, IsOf
  <2>2. Owes(m, w, t) /\ IsNodeState(t)
    BY <1>6, <1>11, <2>1, AllowedOwes
  <2>3. Owes(m, r, w)
    BY <1>7, <1>11, <2>1, OwesSame
  <2>4. Owes(m, s, r)
    BY TakenOwes
  <2>5. Owes(m, s, w)
    BY <1>7, <1>11, <2>3, <2>4, OwesThen
  <2>. QED
    BY <1>11, <2>2, <2>5, OwesThen
<1>13. CASE IsOf(p, m.from, m.id)
  <2>1. Relays(m, w, t, L)
    BY <1>6, AllowedRelays
  <2>2. <<m.from, m.id>> = <<p.from, p.id>>
    BY <1>13 DEF IsOf
  <2>3. /\ IsNodeState(t)
        /\ Number(t, m.from, m.id)
             <= Number(w, m.from, m.id) + (IF <<m.from, m.id>> \in PairsOf(L) THEN 1 ELSE 0)
        /\ Directs(t.fromRadio, m.from, m.id) <= Directs(w.fromRadio, m.from, m.id)
        /\ <<m.from, m.id>> \in t.recent
    BY <1>11, <2>1, <2>2 DEF Relays
  <2>4. Directs(r.fromRadio, m.from, m.id) + 1 <= Owed(s.fromRadio, m.from, m.id)
    BY <1>7, <1>13 DEF Drains
  <2>5. Due(t, m) = Directs(t.fromRadio, m.from, m.id) /\ Due(s, m) = Owed(s.fromRadio, m.from, m.id)
    BY <1>6, <1>7, <2>2, <2>3 DEF Due
  <2>6. Number(w, m.from, m.id) = Number(s, m.from, m.id)
    BY <1>7, <1>11 DEF Number
  <2>7. /\ Number(s, m.from, m.id) \in Nat /\ Number(t, m.from, m.id) \in Nat
        /\ Owed(s.fromRadio, m.from, m.id) \in Nat /\ Directs(t.fromRadio, m.from, m.id) \in Nat
        /\ Directs(r.fromRadio, m.from, m.id) \in Nat
    BY <1>7, <2>3, ShareType
  <2>8. Directs(t.fromRadio, m.from, m.id) <= Directs(r.fromRadio, m.from, m.id)
    BY <1>11, <2>3
  <2>9. Share(t, m) <= Share(s, m)
    BY <2>3, <2>4, <2>5, <2>6, <2>7, <2>8, SMT DEF Share
  <2>10. Sees(s, m)
    BY <1>7, <1>13 DEF Sees
  <2>. QED
    BY <2>9, <2>10 DEF Owes
<1>. QED
  BY <1>12, <1>13

LEMMA HandlingOwes ==
  ASSUME NEW m \in Messages, NEW n \in Node, n # m.from, NEW s, IsNodeState(s),
         NEW p, Legible(p), NEW r, Taken(s, p, r), NEW t, Handling(n, p, r, t)
  PROVE  Owes(m, s, t)
<1>1. CASE t = r
  BY <1>1, TakenOwes
<1>2. CASE Repeated(n, r, p, t)
  BY <1>2, RepeatedOwes
<1>3. CASE Handled(n, r, p, t)
  BY <1>3, HandledOwes
<1>. QED
  BY <1>1, <1>2, <1>3 DEF Handling

LEMMA RetriesOwes ==
  ASSUME NEW m \in Messages, NEW n \in Node, n # m.from, NEW s, IsNodeState(s),
         NEW id \in DOMAIN s.pending, Recorded(n, id, s.pending[id].packet),
         NEW t, GaveUp(n, s, id, t) \/ SentAgain(n, s, id, t)
  PROVE  Owes(m, s, t)
<1>1. CASE GaveUp(n, s, id, t)
  <2>1. PICK T : T = {<<n, "routing", "MAX_RETRANSMIT", id>>}
    OBVIOUS
  <2>2. PICK L : L = {}
    OBVIOUS
  <2>3. Allowed(n, s, t, s.nextId, T, L)
    BY <1>1, <2>1, <2>2 DEF GaveUp
  <2>4. <<m.from, m.id>> \notin PairsOf(L)
    BY <2>2 DEF PairsOf
  <2>. QED
    BY <2>3, <2>4, AllowedOwes
<1>2. CASE SentAgain(n, s, id, t)
  <2>1. PICK p \in Packet : p = s.pending[id].packet /\ p.from = n /\ p.id = id
    BY DEF Recorded
  <2>2. PICK v : Allowed(n, Marks(s, p), v, s.nextId, Refusing(n, id), Sends(n, p)) /\ CountsDown(v, id, t)
    BY <1>2, <2>1 DEF SentAgain
  <2>3. PICK L : L = Sends(n, p) /\ \A q \in L : q.from = n /\ q.id = id
    BY <2>1, SendsSealed
  <2>4. <<m.from, m.id>> \notin PairsOf(L) /\ <<m.from, m.id>> # <<p.from, p.id>>
    BY <2>1, <2>3 DEF PairsOf
  <2>5. PICK w : w = Marks(s, p)
    OBVIOUS
  <2>6. /\ IsNodeState(w) /\ w.recent = s.recent \cup {<<p.from, p.id>>}
        /\ w.txQueue = s.txQueue /\ w.fromRadio = s.fromRadio
    BY <2>1, <2>5, MarksFacts
  <2>7. Owes(m, s, w)
    BY <2>4, <2>6, OwesSame
  <2>8. Allowed(n, w, v, s.nextId, Refusing(n, id), L)
    BY <2>2, <2>3, <2>5
  <2>9. Owes(m, w, v) /\ IsNodeState(v)
    BY <2>4, <2>6, <2>8, AllowedOwes
  <2>10. IsNodeState(t) /\ t.txQueue = v.txQueue /\ t.fromRadio = v.fromRadio /\ t.recent = v.recent
    BY <2>2 DEF CountsDown
  <2>11. Owes(m, v, t)
    BY <2>9, <2>10, OwesSame
  <2>12. Owes(m, s, v)
    BY <2>6, <2>7, <2>9, OwesThen
  <2>. QED
    BY <2>9, <2>10, <2>11, <2>12, OwesThen
<1>. QED
  BY <1>1, <1>2

LEMMA SubmitsOwes ==
  ASSUME NEW m \in Messages, NEW l \in Messages, l.from # m.from, NEW s, IsNodeState(s),
         NEW t, Submitted(l, s, t)
  PROVE  Owes(m, s, t)
<1>1. PICK q, v :
    /\ q \in Packet /\ q.from = l.from /\ q.id = l.id
    /\ IF l.wantAck THEN Starts(s, q, v) ELSE v = s
    /\ Allowed(l.from, Marks(v, q), t, s.nextId, Refusing(l.from, l.id), Sends(l.from, q))
  BY Zenon DEF Submitted
<1>2. PICK n \in Node : n = l.from /\ n # m.from
  BY MessageFacts
<1>3. PICK L : L = Sends(n, q) /\ \A p \in L : p.from = n
  BY <1>1, <1>2, SendsSealed
<1>4. /\ IsNodeState(v) /\ v.recent = s.recent /\ v.txQueue = s.txQueue /\ v.fromRadio = s.fromRadio
  BY <1>1 DEF Starts
<1>5. PICK w : w = Marks(v, q)
  OBVIOUS
<1>6. /\ IsNodeState(w) /\ w.recent = v.recent \cup {<<q.from, q.id>>}
      /\ w.txQueue = v.txQueue /\ w.fromRadio = v.fromRadio
  BY <1>1, <1>4, <1>5, MarksFacts
<1>7. <<m.from, m.id>> \notin PairsOf(L) /\ <<m.from, m.id>> # <<q.from, q.id>>
  BY <1>1, <1>2, <1>3 DEF PairsOf
<1>8. Owes(m, s, w)
  BY <1>4, <1>6, <1>7, OwesSame
<1>9. Allowed(n, w, t, s.nextId, Refusing(n, l.id), L)
  BY <1>1, <1>2, <1>3, <1>5
<1>10. Owes(m, w, t) /\ IsNodeState(t)
  BY <1>2, <1>6, <1>7, <1>9, AllowedOwes
<1>. QED
  BY <1>6, <1>8, <1>10, OwesThen

LEMMA HearkensOwes ==
  ASSUME NEW m \in Messages, NEW n \in Node, n # m.from, NEW s, IsNodeState(s), NEW b, NEW T,
         NEW t, Allowed(n, s, t, b, T, {})
  PROVE  Owes(m, s, t)
<1>1. <<m.from, m.id>> \notin PairsOf({})
  BY DEF PairsOf
<1>. QED
  BY <1>1, AllowedOwes

(* What the node owes and what it has sent stay within the bound ... *)
LEMMA WithinOwes ==
  ASSUME NEW m, NEW a \in Nat, NEW e \in Nat, NEW b \in Nat, NEW s, IsNodeState(s), NEW t, IsNodeState(t),
         Within(a, s, m, e, b), Owes(m, s, t), NEW f \in Nat, e <= f, NEW c \in Nat, b <= c
  PROVE  Within(a, t, m, f, c)
<1>1. Share(s, m) \in Nat /\ Share(t, m) \in Nat
  BY ShareType
<1>2. /\ Share(t, m) <= Share(s, m) /\ a + Share(s, m) <= OneAtLeast(e) + b
      /\ Sees(t, m) => e >= 1
  BY DEF Owes, Within
<1>3. a + Share(t, m) <= OneAtLeast(f) + c
  BY <1>1, <1>2, SMT DEF OneAtLeast
<1>4. Sees(t, m) => f >= 1
  BY <1>2, SMT
<1>. QED
  BY <1>3, <1>4 DEF Within

(* ... when it takes a packet from its transmit queue, ... *)
LEMMA WithinAirs ==
  ASSUME NEW m, NEW a \in Nat, NEW e \in Nat, NEW b \in Nat, NEW s, IsNodeState(s), NEW p, NEW t,
         Dequeued(s, p, t), Within(a, s, m, e, b)
  PROVE  Within(a + (IF IsOf(p, m.from, m.id) THEN 1 ELSE 0), t, m, e, b)
<1>1. IsNodeState(t) /\ t.recent = s.recent /\ t.fromRadio = s.fromRadio
  BY DEF Dequeued
<1>2. Number(t, m.from, m.id) + (IF IsOf(p, m.from, m.id) THEN 1 ELSE 0) <= Number(s, m.from, m.id)
  BY DEF Dequeued, IsOf
<1>3. Due(t, m) = Due(s, m) /\ (Sees(t, m) => Sees(s, m))
  BY <1>1 DEF Due, Sees
<1>4. Due(s, m) \in Nat /\ Number(s, m.from, m.id) \in Nat /\ Number(t, m.from, m.id) \in Nat
  BY <1>1, ShareType
<1>5. PICK i \in {0, 1} : i = IF IsOf(p, m.from, m.id) THEN 1 ELSE 0
  OBVIOUS
<1>6. a + Share(s, m) <= OneAtLeast(e) + b /\ (Sees(s, m) => e >= 1)
  BY DEF Within
<1>7. (a + i) + Share(t, m) <= OneAtLeast(e) + b
  BY <1>2, <1>3, <1>4, <1>5, <1>6, SMT DEF Share, OneAtLeast
<1>. QED
  BY <1>3, <1>5, <1>6, <1>7 DEF Within

(* ... when it receives a copy from another relay, which has a copy, ... *)
LEMMA WithinRelayed ==
  ASSUME NEW m, NEW a \in Nat, NEW e \in Nat, NEW b \in Nat, NEW s, IsNodeState(s), NEW p, NEW t,
         Received(s, p, t), Within(a, s, m, e, b), ~ (IsOf(p, m.from, m.id) /\ Direct(p)),
         IsOf(p, m.from, m.id) => e >= 1
  PROVE  Within(a, t, m, e, b)
<1>1. /\ IsNodeState(t) /\ t.recent = s.recent /\ t.txQueue = s.txQueue
      /\ Swells(s.fromRadio, p, t.fromRadio) /\ Adds(s.fromRadio, t.fromRadio, {p})
  BY DEF Received
<1>2. /\ Directs(s.fromRadio, m.from, m.id) \in Nat /\ Owed(s.fromRadio, m.from, m.id) \in Nat
      /\ Number(s, m.from, m.id) \in Nat /\ Share(s, m) \in Nat
  BY ShareType
<1>3. /\ Directs(t.fromRadio, m.from, m.id) <= Directs(s.fromRadio, m.from, m.id) + 0
      /\ Owed(t.fromRadio, m.from, m.id) <= Owed(s.fromRadio, m.from, m.id) + 0
  BY <1>1 DEF Swells
<1>4. /\ Directs(t.fromRadio, m.from, m.id) <= Directs(s.fromRadio, m.from, m.id)
      /\ Owed(t.fromRadio, m.from, m.id) <= Owed(s.fromRadio, m.from, m.id)
  BY <1>2, <1>3
<1>5. Number(t, m.from, m.id) = Number(s, m.from, m.id)
  BY <1>1 DEF Number
<1>6. Number(t, m.from, m.id) <= Number(s, m.from, m.id)
  BY <1>2, <1>5
<1>7. <<m.from, m.id>> \in t.recent <=> <<m.from, m.id>> \in s.recent
  BY <1>1
<1>8. Share(t, m) <= Share(s, m) /\ Share(t, m) \in Nat
  BY <1>1, <1>4, <1>6, <1>7, OwesLess, ShareType
<1>9. a + Share(s, m) <= OneAtLeast(e) + b /\ (Sees(s, m) => e >= 1)
  BY DEF Within
<1>10. a + Share(t, m) <= OneAtLeast(e) + b
  BY <1>2, <1>8, <1>9, SMT DEF OneAtLeast
<1>11. Sees(t, m) => Sees(s, m) \/ IsOf(p, m.from, m.id)
  BY <1>1 DEF Sees, Adds
<1>. QED
  BY <1>9, <1>10, <1>11 DEF Within

(* ... and when it receives what has just ended at the origin. *)
LEMMA WithinReceived ==
  ASSUME NEW m, NEW a \in Nat, NEW e \in Nat, NEW b \in Nat, NEW s, IsNodeState(s), NEW p, NEW t,
         Received(s, p, t), Within(a, s, m, e, b)
  PROVE  Within(a, t, m, e + 1, b)
<1>1. /\ IsNodeState(t) /\ t.recent = s.recent /\ t.txQueue = s.txQueue
      /\ Swells(s.fromRadio, p, t.fromRadio)
  BY DEF Received
<1>2. /\ Directs(s.fromRadio, m.from, m.id) \in Nat /\ Owed(s.fromRadio, m.from, m.id) \in Nat
      /\ Number(s, m.from, m.id) \in Nat /\ Due(s, m) \in Nat
      /\ Directs(t.fromRadio, m.from, m.id) \in Nat /\ Owed(t.fromRadio, m.from, m.id) \in Nat
      /\ Due(t, m) \in Nat
  BY <1>1, ShareType
<1>3. Number(t, m.from, m.id) = Number(s, m.from, m.id)
  BY <1>1 DEF Number
<1>4. a + Share(s, m) <= OneAtLeast(e) + b /\ (Sees(s, m) => e >= 1)
  BY DEF Within
<1>5. CASE e >= 1
  <2>1. PICK i \in {0, 1} : i = IF IsOf(p, m.from, m.id) /\ Direct(p) THEN 1 ELSE 0
    OBVIOUS
  <2>2. /\ Directs(t.fromRadio, m.from, m.id) <= Directs(s.fromRadio, m.from, m.id) + i
        /\ Owed(t.fromRadio, m.from, m.id) <= Owed(s.fromRadio, m.from, m.id) + i
    BY <1>1, <2>1 DEF Swells
  <2>3. /\ Directs(t.fromRadio, m.from, m.id) <= Directs(s.fromRadio, m.from, m.id) + 1
        /\ Owed(t.fromRadio, m.from, m.id) <= Owed(s.fromRadio, m.from, m.id) + 1
    BY <1>2, <2>1, <2>2, SMT
  <2>4. Due(t, m) <= Due(s, m) + 1
    BY <1>1, <2>3 DEF Due
  <2>5. a + Share(t, m) <= OneAtLeast(e + 1) + b
    BY <1>2, <1>3, <1>4, <1>5, <2>4, SMT DEF Share, OneAtLeast
  <2>. QED
    BY <1>5, <2>5, SMT DEF Within
<1>6. CASE ~ (e >= 1)
  <2>1. <<m.from, m.id>> \notin s.recent /\ \A x \in ToSet(s.fromRadio) : ~ IsOf(x, m.from, m.id)
    BY <1>4, <1>6 DEF Sees
  <2>2. s.fromRadio \in Seq(Packet)
    BY StateFields
  <2>3. Owed(s.fromRadio, m.from, m.id) = 1
    BY <2>1, <2>2, OwedNone
  <2>4. Owed(t.fromRadio, m.from, m.id) <= 1
    BY <1>1, <2>1 DEF Swells
  <2>5. Due(s, m) = 1 /\ Due(t, m) <= 1
    BY <1>1, <2>1, <2>3, <2>4 DEF Due
  <2>6. a + Share(t, m) <= OneAtLeast(e + 1) + b
    BY <1>2, <1>3, <1>4, <1>6, <2>5, SMT DEF Share, OneAtLeast
  <2>. QED
    BY <2>6, SMT DEF Within
<1>. QED
  BY <1>5, <1>6

(* No step takes back a transmission that has ended. *)
LEMMA EndedSteps ==
  ASSUME BaseInv, RelayInv, Steps, NEW m \in Messages
  PROVE  /\ Ended(m) \in Nat /\ Ended(m)' \in Nat /\ Ended(m) <= Ended(m)'
         /\ Carries(sending'[m.from], m) => aired'[m.from][m] >= 1
<1>1. PICK x : x = sending[m.from]
  OBVIOUS
<1>2. PICK y : y = sending'[m.from]
  OBVIOUS
<1>3. PICK a \in Nat : a = aired[m.from][m] /\ (Carries(x, m) => a >= 1)
  <2>1. aired[m.from][m] \in Nat
    BY MessageFacts DEF BaseInv, TypeOK
  <2>2. Carries(x, m) => aired[m.from][m] >= 1
    BY <1>1 DEF RelayInv
  <2>. QED
    BY <2>1, <2>2
<1>4. PICK c : c = aired'[m.from][m]
  OBVIOUS
<1>5. Ended(m) = EndedOf(a, x, m) /\ Ended(m)' = EndedOf(c, y, m)
  BY <1>1, <1>2, <1>3, <1>4 DEF Ended
<1>6. SUFFICES /\ c \in Nat /\ EndedOf(a, x, m) <= EndedOf(c, y, m)
               /\ Carries(y, m) => c >= 1
  <2>1. EndedOf(a, x, m) \in Nat
    BY <1>3, SMT DEF EndedOf
  <2>2. c \in Nat /\ (Carries(y, m) => c >= 1) => EndedOf(c, y, m) \in Nat
    BY SMT DEF EndedOf
  <2>. QED
    BY <1>2, <1>4, <1>5, <1>6, <2>1, <2>2
<1>7. CASE c = a /\ (y = x \/ y = NoPacket)
  <2>1. CASE y = x
    BY <1>3, <1>7, <2>1, SMT DEF EndedOf
  <2>2. CASE y = NoPacket
    <3>1. ~ Carries(y, m)
      BY <2>2 DEF Carries
    <3>. QED
      BY <1>3, <1>7, <3>1, SMT DEF EndedOf
  <2>. QED
    BY <1>7, <2>1, <2>2
<1>8. CASE x = NoPacket /\ \E p : y = p /\ c = a + (IF IsOf(p, m.from, m.id) THEN 1 ELSE 0)
  <2>1. ~ Carries(x, m) /\ (Carries(y, m) => IsOf(y, m.from, m.id))
    BY <1>8 DEF Carries
  <2>2. c = a + (IF IsOf(y, m.from, m.id) THEN 1 ELSE 0)
    BY <1>8
  <2>. QED
    BY <1>3, <2>1, <2>2, SMT DEF EndedOf
<1>9. aired' = aired /\ sending' = sending => c = a /\ y = x
  BY <1>1, <1>2, <1>3, <1>4
<1>10. ASSUME NEW n \in Node, aired' = aired, sending' = [sending EXCEPT ![n] = NoPacket]
       PROVE  c = a /\ (y = x \/ y = NoPacket)
  BY <1>1, <1>2, <1>3, <1>4, <1>10, MessageFacts DEF BaseInv, TypeOK
<1>11. ASSUME NEW n \in Node, NEW p, Airs(n, p)
       PROVE  \/ c = a /\ (y = x \/ y = NoPacket)
              \/ x = NoPacket /\ \E q : y = q /\ c = a + (IF IsOf(q, m.from, m.id) THEN 1 ELSE 0)
  <2>1. m.from \in Node /\ DOMAIN sending = Node /\ DOMAIN aired = Node
    BY MessageFacts DEF BaseInv, TypeOK
  <2>2. CASE n = m.from
    <3>1. x = NoPacket /\ y = p
      BY <1>1, <1>2, <1>11, <2>1, <2>2 DEF Airs
    <3>2. c = a + (IF IsOf(p, m.from, m.id) THEN 1 ELSE 0)
      BY <1>3, <1>4, <1>11, <2>1, <2>2 DEF Airs, IsOf
    <3>. QED
      BY <3>1, <3>2
  <2>3. CASE n # m.from
    BY <1>1, <1>2, <1>3, <1>4, <1>11, <2>1, <2>3 DEF Airs
  <2>. QED
    BY <2>2, <2>3
<1>. QED
  BY <1>7, <1>8, <1>9, <1>10, <1>11 DEF Steps, Submits, Handles, Retries, Hearkens, Reaches, Boots, Reboot

(* What is received of m that does not come from its origin is a relay's: of *)
(* it the origin has transmitted a copy, and it is not direct.               *)
LEMMA RelayedCopy ==
  ASSUME ShortHops, BaseInv, TraceInv, RelayInv, NEW m \in Messages, NEW n \in Node, n # m.from,
         sending[n] # NoPacket, NEW p, p = OnAir(sending[n]), IsOf(p, m.from, m.id)
  PROVE  ~ Direct(p) /\ Ended(m) >= 1
<1>1. PICK x : x = sending[n]
  OBVIOUS
<1>2. x \in Sealed /\ x \in Packet /\ Outbound(n, node[n].recent, x, sent)
  BY <1>1 DEF BaseInv, TraceInv, Sealed
<1>3. /\ p.from = x.from /\ p.id = x.id
      /\ p.hopLimit = (IF x.hopLimit > HOP_MAX THEN HOP_RELIABLE ELSE x.hopLimit)
      /\ p.hopStart = x.hopStart % 8
  BY <1>1, <1>2, OnAirFacts
<1>4. x.from = m.from /\ x.id = m.id
  BY <1>3 DEF IsOf
<1>5. <<m.from, m.id>> \in node[n].recent /\ x.hopLimit < x.hopStart /\ x.hopStart <= HOP_MAX
  BY <1>2, <1>4 DEF Outbound, Countable
<1>6. p.hopLimit # p.hopStart
  <2>1. x.hopLimit \in Nat /\ x.hopStart \in Nat
    BY <1>2 DEF Packet
  <2>. QED
    BY <1>3, <1>5, <2>1, SMT DEF HOP_MAX
<1>7. Sees(node[n], m)
  BY <1>5 DEF Sees
<1>8. Within(aired[n][m], node[n], m, Ended(m), reboots)
  BY DEF RelayInv
<1>. QED
  BY <1>6, <1>7, <1>8 DEF Direct, Within

(* What a node transmits of m, and owes, stays within the bound. *)
LEMMA WithinSteps ==
  ASSUME ShortHops, AssertionsHold, BaseInv, TraceInv, RelayInv, Steps,
         NEW m \in Messages, NEW k \in Node \ {m.from}
  PROVE  Within(aired'[k][m], node'[k], m, Ended(m)', reboots')
<1>1. PICK s : s = node[k]
  OBVIOUS
<1>2. PICK t : t = node'[k]
  OBVIOUS
<1>3. PICK a \in Nat : a = aired[k][m]
  BY DEF BaseInv, TypeOK
<1>4. PICK e \in Nat : e = Ended(m)
  BY EndedSteps
<1>5. PICK f \in Nat : f = Ended(m)' /\ e <= f
  BY <1>4, EndedSteps
<1>6. PICK b \in Nat : b = reboots
  BY DEF BaseInv, TypeOK
<1>7. IsNodeState(s) /\ Within(a, s, m, e, b) /\ Sound(k, s, sent)
  BY <1>1, <1>3, <1>4, <1>6 DEF BaseInv, RelayInv, Sound
<1>8. IsNodeState(t)
  <2>1. BaseInv'
    BY BaseSubmits, BaseHandles, BaseRetries, BaseHearkens, BaseAirs, BaseReaches, BaseBoots DEF Steps
  <2>. QED
    BY <1>2, <2>1 DEF BaseInv, Sound
<1>9. SUFFICES Within(aired'[k][m], t, m, f, reboots')
  BY <1>2, <1>5
<1>10. ASSUME Owes(m, s, t), aired' = aired, reboots' = reboots
       PROVE  Within(aired'[k][m], t, m, f, reboots')
  <2>1. b <= b
    BY <1>6
  <2>2. Within(a, t, m, f, b)
    BY <1>5, <1>7, <1>8, <1>10, <2>1, WithinOwes
  <2>. QED
    BY <1>3, <1>6, <1>10, <2>2
<1>11. (t = s => Owes(m, s, t)) /\ Owes(m, t, t) /\ b <= b
  <2>1. t = s => Owes(m, s, t)
    BY <1>7, OwesSame
  <2>2. Owes(m, t, t)
    BY <1>8, OwesSame
  <2>. QED
    BY <1>6, <2>1, <2>2
<1>12. ASSUME NEW n, Only(n), k # n
       PROVE  t = s
  BY <1>1, <1>2, <1>12, Untouched
<1>13. ASSUME NEW l \in Messages, Submits(l)
       PROVE  Within(aired'[k][m], t, m, f, reboots')
  <2>1. CASE l.from = k
    <3>1. Submitted(l, s, t)
      BY <1>1, <1>2, <1>13, <2>1 DEF Submits
    <3>2. l.from # m.from
      BY <2>1
    <3>3. Owes(m, s, t)
      BY <1>7, <3>1, <3>2, SubmitsOwes
    <3>. QED
      BY <1>10, <1>13, <3>3 DEF Submits
  <2>. QED
    BY <1>10, <1>11, <1>12, <1>13, <2>1 DEF Submits
<1>14. ASSUME NEW n \in Node, NEW p, NEW r, Handles(n, p, r)
       PROVE  Within(aired'[k][m], t, m, f, reboots')
  <2>1. CASE n = k
    <3>1. Taken(s, p, r) /\ Legible(p) /\ Handling(k, p, r, t)
      BY <1>1, <1>2, <1>14, <2>1 DEF Handles
    <3>2. Owes(m, s, t)
      BY <1>7, <3>1, HandlingOwes
    <3>. QED
      BY <1>10, <1>14, <3>2 DEF Handles
  <2>. QED
    BY <1>10, <1>11, <1>12, <1>14, <2>1 DEF Handles
<1>15. ASSUME NEW n \in Node, NEW id, Retries(n, id)
       PROVE  Within(aired'[k][m], t, m, f, reboots')
  <2>1. CASE n = k
    <3>1. id \in DOMAIN s.pending /\ (GaveUp(k, s, id, t) \/ SentAgain(k, s, id, t))
      BY <1>1, <1>2, <1>15, <2>1 DEF Retries
    <3>2. Recorded(k, id, s.pending[id].packet)
      BY <1>7, <3>1 DEF Sound
    <3>3. Owes(m, s, t)
      BY <1>7, <3>1, <3>2, RetriesOwes
    <3>. QED
      BY <1>10, <1>15, <3>3 DEF Retries
  <2>. QED
    BY <1>10, <1>11, <1>12, <1>15, <2>1 DEF Retries
<1>16. ASSUME NEW n \in Node, NEW id, Hearkens(n, id)
       PROVE  Within(aired'[k][m], t, m, f, reboots')
  <2>1. CASE n = k
    <3>1. Allowed(k, s, t, s.nextId, {<<k, "routing", "NONE", id>>}, {})
      BY <1>1, <1>2, <1>16, <2>1 DEF Hearkens
    <3>2. Owes(m, s, t)
      BY <1>7, <3>1, HearkensOwes
    <3>. QED
      BY <1>10, <1>16, <3>2 DEF Hearkens
  <2>. QED
    BY <1>10, <1>11, <1>12, <1>16, <2>1 DEF Hearkens
<1>17. ASSUME NEW n \in Node, NEW p, Airs(n, p)
       PROVE  Within(aired'[k][m], t, m, f, reboots')
  <2>1. reboots' = b /\ DOMAIN aired = Node
    BY <1>6, <1>17 DEF Airs, BaseInv, TypeOK
  <2>2. CASE n = k
    <3>1. Dequeued(s, p, t)
      BY <1>1, <1>2, <1>17, <2>2 DEF Airs
    <3>2. PICK c : c = a + (IF IsOf(p, m.from, m.id) THEN 1 ELSE 0)
      OBVIOUS
    <3>3. aired'[k][m] = c /\ c \in Nat
      BY <1>3, <1>17, <2>1, <2>2, <3>2 DEF Airs, IsOf
    <3>4. Within(c, t, m, e, b)
      BY <1>7, <3>1, <3>2, WithinAirs
    <3>5. Within(c, t, m, f, b)
      BY <1>5, <1>8, <1>11, <3>3, <3>4, WithinOwes
    <3>. QED
      BY <2>1, <3>3, <3>5
  <2>3. CASE n # k
    <3>1. t = s /\ aired'[k][m] = a
      BY <1>3, <1>12, <1>17, <2>1, <2>3 DEF Airs
    <3>2. Within(a, t, m, f, b)
      BY <1>5, <1>7, <1>8, <1>11, <3>1, WithinOwes
    <3>. QED
      BY <2>1, <3>1, <3>2
  <2>. QED
    BY <2>2, <2>3
<1>18. ASSUME NEW n \in Node, Reaches(n)
       PROVE  Within(aired'[k][m], t, m, f, reboots')
  <2>1. PICK p : p = OnAir(sending[n])
    OBVIOUS
  <2>2. aired' = aired /\ reboots' = reboots /\ (t = s \/ Received(s, p, t)) /\ sending[n] # NoPacket
    BY <1>1, <1>2, <1>18, <2>1 DEF Reaches
  <2>3. CASE t = s
    BY <1>10, <1>11, <2>2, <2>3
  <2>4. ASSUME Within(a, t, m, f, b)
        PROVE  Within(aired'[k][m], t, m, f, reboots')
    BY <1>3, <1>6, <2>2, <2>4
  <2>5. ASSUME Within(a, t, m, e, b)
        PROVE  Within(a, t, m, f, b)
    BY <1>5, <1>8, <1>11, <2>5, WithinOwes
  <2>6. CASE Received(s, p, t) /\ ~ IsOf(p, m.from, m.id)
    BY <1>7, <2>4, <2>5, <2>6, WithinRelayed
  <2>7. CASE Received(s, p, t) /\ IsOf(p, m.from, m.id) /\ n # m.from
    <3>1. ~ Direct(p) /\ e >= 1
      BY <1>4, <2>1, <2>2, <2>7, RelayedCopy
    <3>. QED
      BY <1>7, <2>4, <2>5, <2>7, <3>1, WithinRelayed
  <2>8. CASE Received(s, p, t) /\ IsOf(p, m.from, m.id) /\ n = m.from
    <3>1. f = e + 1
      <4>1. IsOf(sending[n], m.from, m.id)
        <5>1. sending[n] \in Packet
          BY <2>2 DEF BaseInv, TypeOK
        <5>. QED
          BY <2>1, <2>8, <5>1, OnAirFacts DEF IsOf
      <4>2. Carries(sending[m.from], m) /\ ~ Carries(sending'[m.from], m)
        BY <1>18, <2>2, <2>8, <4>1 DEF Carries, Reaches, BaseInv, TypeOK
      <4>3. aired[m.from][m] \in Nat /\ aired'[m.from][m] = aired[m.from][m]
        BY <2>2, MessageFacts DEF BaseInv, TypeOK
      <4>4. e = aired[m.from][m] - 1
        BY <1>4, <4>2 DEF Ended, EndedOf
      <4>5. f = aired[m.from][m] - 0
        BY <1>5, <4>2, <4>3 DEF Ended, EndedOf
      <4>. QED
        BY <4>3, <4>4, <4>5, SMT
    <3>2. Within(a, t, m, e + 1, b)
      BY <1>7, <2>8, WithinReceived
    <3>. QED
      BY <2>4, <3>1, <3>2
  <2>. QED
    BY <2>2, <2>3, <2>6, <2>7, <2>8
<1>19. ASSUME NEW n \in Node, Boots(n)
       PROVE  Within(aired'[k][m], t, m, f, reboots')
  <2>1. aired' = aired /\ reboots' = b + 1
    BY <1>6, <1>19 DEF Boots, Reboot, AssertionsHold
  <2>2. a + Share(s, m) <= OneAtLeast(e) + b /\ Share(s, m) \in Nat
    BY <1>7, ShareType DEF Within
  <2>3. CASE n = k
    <3>1. s.nextId \in Nat /\ t = Booted(s.nextId)
      BY <1>1, <1>2, <1>7, <1>19, <2>3, StateFields DEF Boots
    <3>2. /\ t.recent = {} /\ ToSet(t.fromRadio) = {} /\ t.fromRadio \in Seq(Packet)
          /\ Number(t, m.from, m.id) = 0
      BY <1>8, <3>1, BootedFacts, StateFields
    <3>3. Owed(t.fromRadio, m.from, m.id) = 1
      BY <3>2, OwedNone
    <3>4. Share(t, m) = 1 /\ ~ Sees(t, m)
      BY <3>2, <3>3 DEF Share, Due, Sees
    <3>5. a + Share(t, m) <= OneAtLeast(f) + (b + 1)
      BY <1>5, <2>2, <3>4, SMT DEF OneAtLeast
    <3>. QED
      BY <1>3, <2>1, <3>4, <3>5 DEF Within
  <2>4. CASE n # k
    <3>1. t = s
      BY <1>12, <1>19, <2>4 DEF Boots
    <3>2. Owes(m, s, t) /\ b + 1 \in Nat /\ b <= b + 1
      BY <1>6, <1>11, <3>1
    <3>3. Within(a, t, m, f, b + 1)
      BY <1>5, <1>7, <1>8, <3>2, WithinOwes
    <3>. QED
      BY <1>3, <2>1, <3>3
  <2>. QED
    BY <2>3, <2>4
<1>. QED
  BY <1>13, <1>14, <1>15, <1>16, <1>17, <1>18, <1>19, Zenon DEF Steps

LEMMA RelayNext ==
  ASSUME ShortHops, AssertionsHold, BaseInv, TraceInv, RelayInv, [Next]_vars
  PROVE  RelayInv'
<1>1. CASE UNCHANGED vars
  <2>1. \A m \in Messages : Ended(m)' = Ended(m)
    BY <1>1 DEF Ended, vars
  <2>. QED
    BY <1>1, <2>1 DEF RelayInv, vars
<1>2. CASE Next
  <2>1. Steps
    BY <1>2, NextSteps
  <2>2. \A m \in Messages : Carries(sending'[m.from], m) => aired'[m.from][m] >= 1
    BY <2>1, EndedSteps
  <2>3. \A m \in Messages, k \in Node : k # m.from =>
          Within(aired'[k][m], node'[k], m, Ended(m)', reboots')
    BY <2>1, WithinSteps
  <2>. QED
    BY <2>2, <2>3 DEF RelayInv
<1>. QED
  BY <1>1, <1>2

LEMMA RelayInit ==
  ASSUME Init
  PROVE  RelayInv
<1>1. SUFFICES ASSUME NEW m \in Messages
               PROVE  /\ ~ Carries(sending[m.from], m)
                      /\ \A k \in Node \ {m.from} : Within(aired[k][m], node[k], m, Ended(m), reboots)
  BY DEF RelayInv
<1>2. ~ Carries(sending[m.from], m) /\ aired[m.from][m] = 0 /\ reboots = 0
  BY MessageFacts DEF Init, Carries
<1>3. Ended(m) = 0
  <2>1. Ended(m) = 0 - 0
    BY <1>2 DEF Ended, EndedOf
  <2>. QED
    BY <2>1, SMT
<1>4. ASSUME NEW k \in Node \ {m.from}
      PROVE  Within(aired[k][m], node[k], m, Ended(m), reboots)
  <2>1. PICK t : t = Booted(FirstId)
    OBVIOUS
  <2>2. FirstId \in Nat
    BY MessageFacts
  <2>3. /\ IsNodeState(t) /\ t.recent = {} /\ ToSet(t.fromRadio) = {}
        /\ \A from, id : Number(t, from, id) = 0
    BY <2>1, <2>2, BootedFacts
  <2>4. Owed(t.fromRadio, m.from, m.id) = 1
    BY <2>3, StateFields, OwedNone
  <2>5. Share(t, m) = 1 /\ ~ Sees(t, m)
    BY <2>3, <2>4 DEF Share, Due, Sees
  <2>6. node[k] = t /\ aired[k][m] = 0
    BY <2>1 DEF Init
  <2>. QED
    BY <1>2, <1>3, <2>5, <2>6 DEF Within, OneAtLeast
<1>. QED
  BY <1>2, <1>4

(* RelayBounded: a relay transmits a message, or has it queued, at most as    *)
(* often as the originator transmitted it, and once more for each reboot that *)
(* made it forget: of the copies that come round it sends on only the first   *)
(* it sees and those straight from the originator                             *)
(* (shouldFilterReceived of FloodingRouter and ReliableRouter, PacketHistory).  *)
(* Of a higher hop limit than the header can tell a relayed copy may look       *)
(* direct, and `reboots' counts only the reboots of nodes that are up.          *)
THEOREM MeshRelayBounded ==
  ASSUME ShortHops
  PROVE  Spec /\ []AssertionsHold => []RelayBounded
<1>1. Init => RelayInv
  BY RelayInit
<1>2. AssertionsHold /\ BaseInv /\ TraceInv /\ RelayInv /\ [Next]_vars => RelayInv'
  BY RelayNext
<1>3. BaseInv /\ RelayInv => RelayBounded
  <2>1. SUFFICES ASSUME BaseInv, RelayInv, NEW m \in Messages, NEW n \in Node, n # m.from
                 PROVE  aired[n][m] + Copies(n, m) <= aired[m.from][m] + reboots
    BY DEF RelayBounded
  <2>2. PICK s : s = node[n] /\ IsNodeState(s)
    BY <2>1 DEF BaseInv, TypeOK
  <2>3. /\ aired[n][m] \in Nat /\ aired[m.from][m] \in Nat /\ reboots \in Nat
        /\ Number(s, m.from, m.id) \in Nat /\ Due(s, m) \in Nat
    BY <2>1, <2>2, ShareType, MessageFacts DEF BaseInv, TypeOK
  <2>4. Copies(n, m) = Number(s, m.from, m.id)
    <3>1. s.txQueue \in Seq(Packet)
      BY <2>2, StateFields
    <3>2. DOMAIN s.txQueue = 1 .. Len(s.txQueue)
      BY <3>1, LenProperties
    <3>. QED
      BY <2>2, <3>2 DEF Copies, Number, PlacesOf, Is
  <2>5. /\ Sees(s, m) => Ended(m) >= 1
        /\ aired[n][m] + Share(s, m) <= OneAtLeast(Ended(m)) + reboots
    BY <2>1, <2>2 DEF RelayInv, Within
  <2>6. Ended(m) \in Nat /\ Ended(m) <= aired[m.from][m]
    <3>1. Carries(sending[m.from], m) => aired[m.from][m] >= 1
      BY <2>1 DEF RelayInv
    <3>. QED
      BY <2>3, <3>1, SMT DEF Ended, EndedOf
  <2>7. CASE Ended(m) >= 1
    BY <2>3, <2>4, <2>5, <2>6, <2>7, SMT DEF OneAtLeast, Share
  <2>8. CASE ~ (Ended(m) >= 1)
    <3>1. <<m.from, m.id>> \notin s.recent /\ \A x \in ToSet(s.fromRadio) : ~ IsOf(x, m.from, m.id)
      BY <2>5, <2>8 DEF Sees
    <3>2. s.fromRadio \in Seq(Packet)
      BY <2>2, StateFields
    <3>3. Due(s, m) = 1
      BY <3>1, <3>2, OwedNone DEF Due
    <3>. QED
      BY <2>3, <2>4, <2>5, <2>8, <3>3, SMT DEF OneAtLeast, Share
  <2>. QED
    BY <2>7, <2>8
<1>. QED
  BY <1>1, <1>2, <1>3, BaseAlways, TraceAlways, PTL DEF Spec

---------------------------------------------------------------------------
(* What an ack vouches for. *)

(* Some other node has m, or the broker. *)
Known(m) ==
  m.from \in MqttNodes \/ \E k \in Node \ {m.from} : <<m.from, m.id>> \in node[k].recent

(* Whether node k may say that all is well with m. *)
Acked(k, m) ==
  \/ k = m.from /\ Known(m)
  \/ k = m.to /\ (Decipherable(m) => Delivered(m.to, m))

(* What a node may say, with what error, about an id. *)
Claims ==
  {x \in Node \X Errors \X Nat : \A m \in Messages : m.id = x[3] =>
     /\ m \in sent
     /\ x[2] = "NONE" => Acked(x[1], m)
     /\ x[2] = "MAX_RETRANSMIT" => x[1] = m.from /\ ~ Pends(m)}

Vouched(p, W) == p.port = "routing" => p.to \in Node /\ <<p.from, p.err, p.reqId>> \in W

Vouch(n, s, W) ==
  /\ \A p \in ToSet(s.fromRadio) :
       Vouched(p, W) /\ (p.from = n /\ ~ (p.id >= FirstId) => <<n, "NONE", p.id>> \in W)
  /\ \A p \in ToSet(s.txQueue) : Vouched(p, W)
  /\ \A p \in ToSet(s.toPhone) : Vouched(p, W)

VouchInv ==
  \A n \in Node :
    Vouch(n, node[n], Claims) /\ (sending[n] = NoPacket \/ Vouched(sending[n], Claims))

LEMMA VouchMore ==
  ASSUME NEW n, NEW s, NEW V, NEW W, V \subseteq W, Vouch(n, s, V)
  PROVE  Vouch(n, s, W)
  BY DEF Vouch, Vouched

(* All that T says as a routing packet is in W. *)
Honest(n, T, W) ==
  \A x \in T : x[2] = "routing" => x[1] \in Node /\ <<n, x[3], x[4]>> \in W

(* Of the firmware's own packets anything may be said. *)
Ample(W) == \A k \in Node, e \in Errors, i \in Nat : i >= FirstId => <<k, e, i>> \in W

(* Whoever likes may say that it refused, or could not read, packet id. *)
Excused(id, W) ==
  \A k \in Node, e \in Errors : e \notin {"NONE", "MAX_RETRANSMIT"} => <<k, e, id>> \in W

LEMMA OwnVouched ==
  ASSUME NEW n \in Node, NEW b, NEW T, NEW W, Honest(n, T, W), NEW p \in Own(n, b, T)
  PROVE  Vouched(p, W)
<1>1. PICK x \in T : x = <<p.to, p.port, p.err, p.reqId>>
  BY DEF Own, Saying
<1>2. x[1] = p.to /\ x[2] = p.port /\ x[3] = p.err /\ x[4] = p.reqId /\ p.from = n
  BY <1>1 DEF Own
<1>. QED
  BY <1>2 DEF Honest, Vouched

LEMMA VouchAfter ==
  ASSUME NEW n \in Node, NEW s, NEW t, NEW b \in Nat, b >= FirstId, NEW T, NEW L, NEW W, Honest(n, T, W),
         Vouch(n, s, W), \A q \in L : Vouched(q, W), Allowed(n, s, t, b, T, L)
  PROVE  Vouch(n, t, W)
<1>1. ASSUME NEW p \in ToSet(t.fromRadio)
      PROVE  Vouched(p, W) /\ (p.from = n /\ ~ (p.id >= FirstId) => <<n, "NONE", p.id>> \in W)
  <2>1. p \in ToSet(s.fromRadio) \cup Told(n, b, T)
    BY <1>1 DEF Allowed, Adds
  <2>2. CASE p \in Told(n, b, T)
    <3>1. p \in Own(n, b, T)
      BY <2>2 DEF Told
    <3>. QED
      BY <3>1, OwnTraced, OwnVouched
  <2>. QED
    BY <2>1, <2>2 DEF Vouch
<1>2. ASSUME NEW p \in ToSet(t.txQueue)
      PROVE  Vouched(p, W)
  <2>1. p \in ToSet(s.txQueue) \cup (Queued(n, b, T) \cup L)
    BY <1>2 DEF Allowed, Adds
  <2>2. CASE p \in Queued(n, b, T)
    <3>1. p \in Own(n, b, T)
      BY <2>2 DEF Queued
    <3>. QED
      BY <3>1, OwnVouched
  <2>. QED
    BY <2>1, <2>2 DEF Vouch
<1>3. t.toPhone = s.toPhone
  BY Zenon DEF Allowed
<1>. QED
  BY <1>1, <1>2, <1>3 DEF Vouch

LEMMA RefusingHonest ==
  ASSUME NEW n \in Node, NEW id, NEW W, Excused(id, W)
  PROVE  Honest(n, Refusing(n, id), W)
<1>1. SUFFICES ASSUME NEW e \in Refusals, NEW x, x = <<n, "routing", e, id>>
               PROVE  x[1] \in Node /\ <<n, x[3], x[4]>> \in W
  BY DEF Honest, Refusing
<1>2. e \in Errors /\ e \notin {"NONE", "MAX_RETRANSMIT"}
  BY DEF Refusals, Errors
<1>3. x[1] = n /\ x[3] = e /\ x[4] = id
  BY <1>1
<1>. QED
  BY <1>2, <1>3 DEF Excused

LEMMA AnswersHonest ==
  ASSUME NEW n \in Node, NEW b \in Nat, b >= FirstId, NEW p \in Packet, NEW heard, NEW told, NEW W, Ample(W),
         Excused(p.id, W), heard \/ told => <<n, "NONE", p.id>> \in W
  PROVE  Honest(n, Answers(n, b, p, heard, told), W)
<1>1. SUFFICES ASSUME NEW x \in Answers(n, b, p, heard, told), x[2] = "routing"
               PROVE  x[1] \in Node /\ <<n, x[3], x[4]>> \in W
  BY DEF Honest
<1>2. "NONE" \notin Refusals /\ "MAX_RETRANSMIT" \notin Refusals /\ p.from \in Node /\ FirstId \in Nat
  BY MeshAssumption DEF Refusals, Packet
<1>3. x[3] \in Errors /\ x[4] \in Nat /\ x[1] \in Node
  BY <1>1, <1>2 DEF Answers
<1>4. CASE x[4] = p.id /\ x[3] = "NONE"
  <2>1. heard \/ told
    BY <1>1, <1>2, <1>4 DEF Answers
  <2>. QED
    BY <1>3, <1>4, <2>1
<1>5. CASE x[4] = p.id /\ x[3] # "NONE"
  <2>1. x[3] # "MAX_RETRANSMIT"
    BY <1>1, <1>2, <1>5 DEF Answers
  <2>. QED
    BY <1>3, <1>5, <2>1 DEF Excused
<1>6. CASE x[4] # p.id
  <2>1. x[4] >= b
    BY <1>1, <1>6 DEF Answers
  <2>2. x[4] >= FirstId
    BY <1>2, <1>3, <2>1, SMT
  <2>. QED
    BY <1>3, <2>2 DEF Ample
<1>. QED
  BY <1>4, <1>5, <1>6

(* What a node relays of p says what p says. *)
LEMMA RelayedVouched ==
  ASSUME NEW n \in Node, NEW p, Readable(p), NEW W, Vouched(p, W)
  PROVE  \A q \in Relayed(n, p) : Vouched(q, W)
<1>1. SUFFICES ASSUME NEW q \in Relayed(n, p)
               PROVE  Vouched(q, W)
  OBVIOUS
<1>2. q.from = p.from /\ q.to = p.to /\ q.port = p.port /\ q.reqId = p.reqId /\ q.err = p.err
  BY RelayedIsCopy
<1>. QED
  BY <1>2 DEF Vouched

LEMMA SendsVouched ==
  ASSUME NEW n \in Node, NEW p \in Packet, p.port # "routing", NEW W
  PROVE  \A q \in Sends(n, p) : Vouched(q, W)
<1>1. SUFFICES ASSUME NEW q, q = OnQueue(n, p)
               PROVE  Vouched(q, W)
  BY DEF Sends
<1>2. q.port = p.port
  BY <1>1, OnQueueFacts
<1>. QED
  BY <1>2 DEF Vouched

LEMMA RemembersVouch ==
  ASSUME NEW n, NEW s, IsNodeState(s), NEW W, Vouch(n, s, W), NEW p \in Packet, Vouched(p, W),
         NEW t, t = Remembers(n, s, p)
  PROVE  Vouch(n, t, W)
<1>1. PICK d \in Packet : d = Decoded(n, p)
  BY DecodedFacts
<1>2. t.txQueue = s.txQueue /\ t.fromRadio = s.fromRadio
  BY RemembersFields
<1>3. Vouched(d, W)
  BY <1>1, DecodedFacts DEF Vouched
<1>4. \A q \in ToSet(t.toPhone) : Vouched(q, W)
  <2>1. ToSet(t.toPhone) \subseteq ToSet(s.toPhone) \cup {d}
    BY <1>1, RemembersGrows
  <2>. QED
    BY <1>3, <2>1 DEF Vouch
<1>. QED
  BY <1>2, <1>4 DEF Vouch

LEMMA VouchHandling ==
  ASSUME NEW n \in Node, NEW s, IsNodeState(s), s.nextId >= FirstId, NEW W, Vouch(n, s, W),
         NEW p, Legible(p), Vouched(p, W), NEW t, Handling(n, p, s, t), Ample(W), Excused(p.id, W),
         p.to = n /\ <<p.from, p.id>> \in t.recent => <<n, "NONE", p.id>> \in W,
         p.from = n => <<n, "NONE", p.id>> \in W
  PROVE  Vouch(n, t, W)
<1>1. Readable(p) /\ p \in Packet
  BY DEF Legible, Readable
<1>2. PICK b \in Nat : b = s.nextId /\ b >= FirstId
  BY StateFields
<1>3. CASE t = s
  BY <1>3
<1>4. CASE Repeated(n, s, p, t)
  <2>1. PICK T : T = Answers(n, b, p, p.to = n /\ p.wantAck, Expected(n, s, p))
    OBVIOUS
  <2>2. PICK L : L = IF Direct(p) THEN Relayed(n, p) ELSE {}
    OBVIOUS
  <2>3. Allowed(n, s, t, b, T, L) /\ <<p.from, p.id>> \in s.recent
    BY <1>2, <1>4, <2>1, <2>2 DEF Repeated
  <2>4. <<p.from, p.id>> \in t.recent
    BY <2>3, Zenon DEF Allowed
  <2>5. Honest(n, T, W)
    BY <1>1, <1>2, <2>1, <2>4, AnswersHonest DEF Expected
  <2>6. \A q \in L : Vouched(q, W)
    BY <1>1, <2>2, RelayedVouched
  <2>. QED
    BY <1>2, <2>3, <2>5, <2>6, VouchAfter
<1>5. CASE Handled(n, s, p, t)
  <2>1. PICK d : d = Decoded(n, p)
    OBVIOUS
  <2>2. PICK T : T = Answers(n, b, p, Heard(n, d), Expected(n, s, p))
    OBVIOUS
  <2>3. PICK L : L = Relayed(n, d)
    OBVIOUS
  <2>4. PICK r : r = Remembers(n, s, p)
    OBVIOUS
  <2>5. Allowed(n, r, t, b, T, L)
    BY <1>2, <1>5, <2>1, <2>2, <2>3, <2>4 DEF Handled
  <2>6. <<p.from, p.id>> \in r.recent
    BY <1>1, <2>4, RemembersFacts
  <2>7. <<p.from, p.id>> \in t.recent
    BY <2>5, <2>6, Zenon DEF Allowed
  <2>8. Readable(d) /\ d.to = p.to /\ Vouched(d, W)
    BY <1>1, <2>1, DecodedReadable, DecodedFacts DEF Vouched
  <2>9. Honest(n, T, W)
    BY <1>1, <1>2, <2>2, <2>7, <2>8, AnswersHonest DEF Heard, Expected
  <2>10. \A q \in L : Vouched(q, W)
    BY <2>3, <2>8, RelayedVouched
  <2>11. Vouch(n, r, W)
    BY <1>1, <2>4, RemembersVouch
  <2>. QED
    BY <1>2, <2>5, <2>9, <2>10, <2>11, VouchAfter
<1>. QED
  BY <1>3, <1>4, <1>5 DEF Handling

LEMMA VouchRetries ==
  ASSUME NEW S \in SUBSET Messages, NEW n \in Node, NEW s, IsNodeState(s), s.nextId >= FirstId, NEW W, Vouch(n, s, W), Trace(n, s, S),
         NEW id \in DOMAIN s.pending, Recorded(n, id, s.pending[id].packet), Excused(id, W),
         NEW t, GaveUp(n, s, id, t) \/ SentAgain(n, s, id, t),
         id \notin DOMAIN t.pending => <<n, "MAX_RETRANSMIT", id>> \in W
  PROVE  Vouch(n, t, W)
<1>1. PICK b \in Nat : b = s.nextId /\ b >= FirstId
  BY StateFields
<1>2. CASE GaveUp(n, s, id, t)
  <2>1. PICK T : T = {<<n, "routing", "MAX_RETRANSMIT", id>>}
    OBVIOUS
  <2>2. Honest(n, T, W)
    <3>1. SUFFICES ASSUME NEW x, x = <<n, "routing", "MAX_RETRANSMIT", id>>
                   PROVE  x[1] \in Node /\ <<n, x[3], x[4]>> \in W
      BY <2>1 DEF Honest
    <3>2. x[1] = n /\ x[3] = "MAX_RETRANSMIT" /\ x[4] = id
      BY <3>1
    <3>. QED
      BY <1>2, <3>2 DEF GaveUp
  <2>3. Allowed(n, s, t, b, T, {})
    BY <1>1, <1>2, <2>1 DEF GaveUp
  <2>. QED
    BY <1>1, <2>2, <2>3, VouchAfter
<1>3. CASE SentAgain(n, s, id, t)
  <2>1. PICK p \in Packet : p = s.pending[id].packet /\ p.port # "routing"
    BY DEF Recorded, Trace, Kept
  <2>2. PICK v : Allowed(n, Marks(s, p), v, s.nextId, Refusing(n, id), Sends(n, p)) /\ CountsDown(v, id, t)
    BY <1>3, <2>1 DEF SentAgain
  <2>3. PICK w : w = Marks(s, p)
    OBVIOUS
  <2>4. Vouch(n, w, W)
    BY <2>1, <2>3, MarksFacts DEF Vouch
  <2>5. PICK L : L = Sends(n, p)
    OBVIOUS
  <2>6. \A q \in L : Vouched(q, W)
    BY <2>1, <2>5, SendsVouched
  <2>7. PICK T : T = Refusing(n, id)
    OBVIOUS
  <2>8. Honest(n, T, W)
    BY <2>7, RefusingHonest
  <2>9. Allowed(n, w, v, b, T, L)
    BY <1>1, <2>2, <2>3, <2>5, <2>7
  <2>10. Vouch(n, v, W)
    BY <1>1, <2>4, <2>6, <2>8, <2>9, VouchAfter
  <2>11. t.txQueue = v.txQueue /\ t.fromRadio = v.fromRadio /\ t.toPhone = v.toPhone
    BY <2>2 DEF CountsDown
  <2>. QED
    BY <2>10, <2>11 DEF Vouch
<1>. QED
  BY <1>2, <1>3

LEMMA VouchSubmits ==
  ASSUME NEW m \in Messages, NEW n \in Node, n = m.from, NEW s, IsNodeState(s), NEW W, Vouch(n, s, W),
         s.nextId >= FirstId, Excused(m.id, W), NEW t, Submitted(m, s, t)
  PROVE  Vouch(n, t, W)
<1>1. PICK q, v :
    /\ q \in Packet /\ q.port = m.port
    /\ IF m.wantAck THEN Starts(s, q, v) ELSE v = s
    /\ Allowed(m.from, Marks(v, q), t, s.nextId, Refusing(m.from, m.id), Sends(m.from, q))
  BY Zenon DEF Submitted
<1>2. PICK b \in Nat : b = s.nextId /\ b >= FirstId
  BY StateFields
<1>3. q.port # "routing"
  BY <1>1, MessageFacts DEF Message
<1>4. IsNodeState(v) /\ v.txQueue = s.txQueue /\ v.fromRadio = s.fromRadio /\ v.toPhone = s.toPhone
  BY <1>1 DEF Starts
<1>5. PICK w : w = Marks(v, q)
  OBVIOUS
<1>6. Vouch(n, w, W)
  <2>1. w.txQueue = v.txQueue /\ w.fromRadio = v.fromRadio /\ w.toPhone = v.toPhone
    BY <1>1, <1>4, <1>5, MarksFacts
  <2>. QED
    BY <1>4, <2>1 DEF Vouch
<1>7. PICK L : L = Sends(n, q)
  OBVIOUS
<1>8. \A p \in L : Vouched(p, W)
  BY <1>1, <1>3, <1>7, SendsVouched
<1>9. PICK T : T = Refusing(n, m.id)
  OBVIOUS
<1>10. Honest(n, T, W)
  BY <1>9, RefusingHonest
<1>11. Allowed(n, w, t, b, T, L)
  BY <1>1, <1>2, <1>5, <1>7, <1>9
<1>. QED
  BY <1>2, <1>6, <1>8, <1>10, <1>11, VouchAfter

(* A message that is no longer pending does not become so again. *)
LEMMA PendsOnce ==
  ASSUME BaseInv, Steps, \A k \in Node : ~ Boots(k), NEW m \in sent, Pends(m)'
  PROVE  Pends(m)
<1>1. PICK s : s = node[m.from]
  OBVIOUS
<1>2. PICK t : t = node'[m.from]
  OBVIOUS
<1>3. m \in Messages /\ m.from \in Node /\ m.id \in Nat /\ m.id < FirstId /\ FirstId \in Nat
  BY MessageFacts DEF BaseInv, TypeOK
<1>4. IsNodeState(s) /\ s.nextId \in Nat /\ FirstId <= s.nextId
  BY <1>1, <1>3, StateFields DEF BaseInv, Sound
<1>5. SUFFICES ASSUME m.id \in DOMAIN t.pending
               PROVE  m.id \in DOMAIN s.pending
  BY <1>1, <1>2 DEF Pends
<1>6. ASSUME NEW r, r.pending = s.pending, NEW v, v.pending = t.pending, NEW T, NEW L, Allowed(m.from, r, v, s.nextId, T, L)
      PROVE  m.id \in DOMAIN s.pending
  <2>1. m.id \in DOMAIN r.pending \/ m.id >= s.nextId
    BY <1>5, <1>6 DEF Allowed
  <2>. QED
    BY <1>3, <1>4, <1>6, <2>1, SMT
<1>7. ASSUME NEW n, Only(n), m.from # n
      PROVE  m.id \in DOMAIN s.pending
  BY <1>1, <1>2, <1>3, <1>5, <1>7 DEF Only
<1>8. ASSUME NEW l \in Messages, Submits(l)
      PROVE  m.id \in DOMAIN s.pending
  <2>1. CASE l.from = m.from
    <3>1. Submitted(l, s, t)
      BY <1>1, <1>2, <1>8, <2>1 DEF Submits
    <3>2. PICK q, v : /\ q.id = l.id /\ (IF l.wantAck THEN Starts(s, q, v) ELSE v = s) /\ t.pending = v.pending
      BY <3>1, Zenon DEF Submitted
    <3>3. l.id # m.id
      BY <1>3, <1>8, MeshAssumption DEF Submits
    <3>. QED
      BY <1>5, <3>2, <3>3 DEF Starts
  <2>. QED
    BY <1>7, <1>8, <2>1 DEF Submits
<1>9. ASSUME NEW n \in Node, NEW p, NEW r, Handles(n, p, r)
      PROVE  m.id \in DOMAIN s.pending
  <2>1. CASE n = m.from
    <3>1. Taken(s, p, r) /\ Handling(n, p, r, t) /\ p \in Packet
      BY <1>1, <1>2, <1>9, <2>1 DEF Handles, Legible, Readable
    <3>2. r.pending = s.pending /\ r.nextId = s.nextId /\ IsNodeState(r)
      BY <3>1 DEF Taken
    <3>3. CASE t = r
      BY <1>5, <3>2, <3>3
    <3>4. CASE Repeated(n, r, p, t)
      BY <1>6, <2>1, <3>2, <3>4 DEF Repeated
    <3>5. CASE Handled(n, r, p, t)
      <4>1. PICK v : v = Remembers(n, r, p)
        OBVIOUS
      <4>2. v.pending = r.pending
        <5>1. IsNodeState(r) /\ p \in Packet
          BY <3>1, <3>2
        <5>. QED
          BY <4>1, <5>1, RemembersFacts
      <4>3. PICK T, L : Allowed(n, v, t, r.nextId, T, L)
        BY <3>5, <4>1 DEF Handled
      <4>. QED
        BY <1>6, <2>1, <3>2, <4>2, <4>3
    <3>. QED
      BY <3>1, <3>3, <3>4, <3>5 DEF Handling
  <2>. QED
    BY <1>7, <1>9, <2>1 DEF Handles
<1>10. ASSUME NEW n \in Node, NEW id \in DOMAIN node[n].pending, Retries(n, id)
       PROVE  m.id \in DOMAIN s.pending
  <2>1. CASE n = m.from
    <3>1. CASE GaveUp(n, s, id, t)
      BY <1>6, <2>1, <3>1 DEF GaveUp
    <3>2. CASE SentAgain(n, s, id, t)
      BY <1>5, <3>2 DEF SentAgain, CountsDown
    <3>. QED
      BY <1>1, <1>2, <1>10, <2>1, <3>1, <3>2 DEF Retries
  <2>. QED
    BY <1>7, <1>10, <2>1 DEF Retries
<1>11. ASSUME NEW n \in Node, NEW id, Hearkens(n, id)
       PROVE  m.id \in DOMAIN s.pending
  <2>1. CASE n = m.from
    BY <1>1, <1>2, <1>5, <1>11, <2>1 DEF Hearkens
  <2>. QED
    BY <1>7, <1>11, <2>1 DEF Hearkens
<1>12. ASSUME NEW n \in Node, NEW p, Airs(n, p)
       PROVE  m.id \in DOMAIN s.pending
  <2>1. CASE n = m.from
    BY <1>1, <1>2, <1>5, <1>12, <2>1 DEF Airs, Dequeued
  <2>. QED
    BY <1>7, <1>12, <2>1 DEF Airs
<1>13. ASSUME NEW n \in Node, Reaches(n)
       PROVE  m.id \in DOMAIN s.pending
  BY <1>1, <1>2, <1>3, <1>5, <1>13 DEF Reaches, Received
<1>. QED
  BY <1>8, <1>9, <1>10, <1>11, <1>12, <1>13 DEF Steps

(* What is known and delivered stays so while nobody reboots. *)
LEMMA ClaimsGrow ==
  ASSUME \A k \in Node : Grows(k), sent \subseteq sent', \A m \in sent : Pends(m)' => Pends(m)
  PROVE  Claims \subseteq Claims'
<1>1. ASSUME NEW m \in Messages, Known(m)
      PROVE  Known(m)'
  BY <1>1 DEF Known, Grows
<1>2. ASSUME NEW m \in Messages, m.to \in Node, Delivered(m.to, m)
      PROVE  Delivered(m.to, m)'
  <2>1. PICK p \in ToSet(node[m.to].toPhone) : Is(p, m) /\ p.plain
    BY <1>2 DEF Delivered
  <2>2. p \in ToSet(node'[m.to].toPhone)
    BY <1>2, <2>1 DEF Grows
  <2>. QED
    BY <2>1, <2>2 DEF Delivered
<1>3. SUFFICES ASSUME NEW x \in Claims, NEW m \in Messages, m.id = x[3]
               PROVE  /\ m \in sent'
                      /\ x[2] = "NONE" => Acked(x[1], m)'
                      /\ x[2] = "MAX_RETRANSMIT" => x[1] = m.from /\ ~ Pends(m)'
  BY DEF Claims
<1>4. /\ m \in sent
      /\ x[2] = "NONE" => Acked(x[1], m)
      /\ x[2] = "MAX_RETRANSMIT" => x[1] = m.from /\ ~ Pends(m)
  BY <1>3 DEF Claims
<1>5. x[1] \in Node
  BY <1>3 DEF Claims
<1>6. Acked(x[1], m) => Acked(x[1], m)'
  BY <1>1, <1>2, <1>5 DEF Acked
<1>. QED
  BY <1>4, <1>6

(* Whoever was sent a packet may say that it was delivered, once remembered. *)
LEMMA ClaimsDelivered ==
  ASSUME NEW S \in SUBSET Messages, S \subseteq sent', TraceInv', NEW n \in Node, NEW p \in Packet, Inbound(n, p, S), p.to = n,
         <<p.from, p.id>> \in node'[n].recent
  PROVE  <<n, "NONE", p.id>> \in Claims'
<1>1. p.id \in Nat /\ Traced(p, S) /\ Trace(n, node'[n], sent')
  BY DEF Packet, Inbound, TraceInv
<1>2. ASSUME NEW m \in Messages, m.id = p.id
      PROVE  m \in sent' /\ Acked(n, m)'
  <2>1. p.from = m.from /\ p.to = m.to /\ m \in S
    BY <1>1, <1>2, OneCopy DEF CopyOf
  <2>2. ASSUME Decipherable(m)
        PROVE  Delivered(m.to, m)'
    <3>1. \E q \in ToSet(node'[n].toPhone) : Is(q, m) /\ q.plain
      BY <1>1, <1>2, <2>1, <2>2 DEF Trace
    <3>. QED
      BY <2>1, <3>1 DEF Delivered
  <2>. QED
    BY <2>1, <2>2 DEF Acked
<1>3. PICK x \in Node \X Errors \X Nat : x = <<n, "NONE", p.id>>
  BY <1>1 DEF Errors
<1>4. x[1] = n /\ x[2] = "NONE" /\ x[3] = p.id
  BY <1>3
<1>. QED
  BY <1>2, <1>3, <1>4 DEF Claims

(* Of an id that is the firmware's own there is nothing to say. *)
LEMMA ClaimsOwn == Ample(Claims')
<1>1. SUFFICES ASSUME NEW k \in Node, NEW e \in Errors, NEW id \in Nat, id >= FirstId
               PROVE  <<k, e, id>> \in Claims'
  BY DEF Ample
<1>2. \A m \in Messages : m.id # id
  <2>1. SUFFICES ASSUME NEW m \in Messages
                 PROVE  m.id # id
    OBVIOUS
  <2>2. m.id \in Nat /\ m.id < FirstId /\ FirstId \in Nat
    BY MessageFacts
  <2>. QED
    BY <1>1, <2>2, SMT
<1>3. PICK x \in Node \X Errors \X Nat : x = <<k, e, id>>
  OBVIOUS
<1>4. x[3] = id
  BY <1>3
<1>. QED
  BY <1>2, <1>3, <1>4 DEF Claims

(* The originator may say that its message is known once another node or the *)
(* broker has it.                                                            *)
LEMMA ClaimsKnown ==
  ASSUME NEW m \in Messages, m \in sent', Known(m)'
  PROVE  <<m.from, "NONE", m.id>> \in Claims'
<1>1. PICK x \in Node \X Errors \X Nat : x = <<m.from, "NONE", m.id>>
  BY MessageFacts DEF Errors
<1>2. x[1] = m.from /\ x[2] = "NONE" /\ x[3] = m.id
  BY <1>1
<1>3. ASSUME NEW l \in Messages, l.id = x[3]
      PROVE  l = m
  BY <1>2, <1>3, MeshAssumption
<1>. QED
  BY <1>1, <1>2, <1>3 DEF Claims, Acked

(* It may say that it gave up once the message is no longer pending. *)
LEMMA ClaimsGaveUp ==
  ASSUME NEW m \in Messages, m \in sent', ~ Pends(m)'
  PROVE  <<m.from, "MAX_RETRANSMIT", m.id>> \in Claims'
<1>1. PICK x \in Node \X Errors \X Nat : x = <<m.from, "MAX_RETRANSMIT", m.id>>
  BY MessageFacts DEF Errors
<1>2. x[1] = m.from /\ x[2] = "MAX_RETRANSMIT" /\ x[3] = m.id
  BY <1>1
<1>3. ASSUME NEW l \in Messages, l.id = x[3]
      PROVE  l = m
  BY <1>2, <1>3, MeshAssumption
<1>. QED
  BY <1>1, <1>2, <1>3 DEF Claims

LEMMA ClaimsExcused ==
  ASSUME NEW id \in Nat, id >= FirstId \/ \E m \in Messages : m \in sent' /\ m.id = id
  PROVE  Excused(id, Claims')
<1>1. SUFFICES ASSUME NEW k \in Node, NEW e \in Errors, e \notin {"NONE", "MAX_RETRANSMIT"}
               PROVE  <<k, e, id>> \in Claims'
  BY DEF Excused
<1>2. CASE id >= FirstId
  BY <1>2, ClaimsOwn DEF Ample
<1>3. CASE \E m \in Messages : m \in sent' /\ m.id = id
  <2>1. \A l \in Messages : l.id = id => l \in sent'
    BY <1>3, MeshAssumption
  <2>2. PICK x \in Node \X Errors \X Nat : x = <<k, e, id>>
    OBVIOUS
  <2>3. x[2] = e /\ x[3] = id
    BY <2>2
  <2>. QED
    BY <1>1, <2>1, <2>2, <2>3 DEF Claims
<1>. QED
  BY <1>2, <1>3

LEMMA SentGrows ==
  ASSUME Steps
  PROVE  sent \subseteq sent'
  BY DEF Steps, Submits, Handles, Retries, Hearkens, Airs, Reaches, Boots, Reboot

LEMMA VouchSteps ==
  ASSUME BaseInv, TraceInv, TraceInv', VouchInv, Steps, \A k \in Node : ~ Boots(k), NEW k \in Node
  PROVE  Vouch(k, node'[k], Claims')
<1>1. PICK s : s = node[k]
  OBVIOUS
<1>2. PICK t : t = node'[k]
  OBVIOUS
<1>3. PICK W : W = Claims'
  OBVIOUS
<1>s. PICK S \in SUBSET Messages : S = sent
  BY DEF BaseInv, TypeOK
<1>p. S \subseteq sent'
  BY <1>s, SentGrows
<1>4. Claims \subseteq W
  <2>1. \A m \in sent : Pends(m)' => Pends(m)
    BY PendsOnce
  <2>. QED
    BY <1>3, <1>p, <1>s, <2>1, StepsGrow, ClaimsGrow
<1>5. Vouch(k, s, W)
  BY <1>1, <1>4, VouchMore DEF VouchInv
<1>a. Ample(W)
  BY <1>3, ClaimsOwn
<1>e. ASSUME NEW id \in Nat, id >= FirstId \/ \E m \in sent' : m \in Messages /\ m.id = id
      PROVE  Excused(id, W)
  BY <1>3, <1>e, ClaimsExcused
<1>6. Trace(k, s, S) /\ IsNodeState(s) /\ Sound(k, s, sent) /\ FirstId <= s.nextId
  BY <1>1, <1>s DEF TraceInv, BaseInv, Sound
<1>7. s.nextId \in Nat /\ FirstId \in Nat
  BY <1>6, StateFields, MeshAssumption
<1>8. s.nextId >= FirstId
  BY <1>6, <1>7, SMT
<1>9. ASSUME NEW n, Only(n), k # n
      PROVE  Vouch(k, t, W)
  BY <1>1, <1>2, <1>5, <1>9, Untouched
<1>10. ASSUME NEW m \in Messages, Submits(m)
       PROVE  Vouch(k, t, W)
  <2>1. CASE m.from = k
    <3>1. Submitted(m, s, t) /\ m \in sent'
      BY <1>1, <1>2, <1>10, <2>1 DEF Submits
    <3>2. Excused(m.id, W)
      BY <1>e, <3>1, MessageFacts
    <3>. QED
      BY <1>5, <1>6, <1>8, <2>1, <3>1, <3>2, VouchSubmits
  <2>. QED
    BY <1>9, <1>10, <2>1 DEF Submits
<1>11. ASSUME NEW n \in Node, NEW p, NEW r, Handles(n, p, r)
       PROVE  Vouch(k, t, W)
  <2>1. CASE n = k
    <3>1. Taken(s, p, r) /\ Legible(p) /\ Handling(k, p, r, t)
      BY <1>1, <1>2, <1>11, <2>1 DEF Handles
    <3>2. IsNodeState(r) /\ r.nextId >= FirstId /\ p \in ToSet(s.fromRadio)
      BY <1>8, <3>1 DEF Taken
    <3>3. Vouch(k, r, W)
      BY <1>5, <3>1 DEF Taken, Vouch
    <3>4. Inbound(k, p, S) /\ Vouched(p, W) /\ (p.from = k /\ ~ (p.id >= FirstId) => <<k, "NONE", p.id>> \in W)
      BY <1>5, <1>6, <3>2 DEF Trace, Vouch
    <3>5. p \in Packet /\ p.id \in Nat
      BY <3>1 DEF Legible, Readable, Packet
    <3>6. p.from = k => <<k, "NONE", p.id>> \in W
      BY <1>a, <3>4, <3>5 DEF Ample, Errors
    <3>7. p.to = k /\ <<p.from, p.id>> \in t.recent => <<k, "NONE", p.id>> \in W
      BY <1>2, <1>3, <1>p, <3>4, <3>5, ClaimsDelivered
    <3>8. Excused(p.id, W)
      <4>1. p.id >= FirstId \/ \E m \in sent' : m \in Messages /\ m.id = p.id
        BY <1>p, <3>4 DEF Inbound, Traced, CopyOf
      <4>. QED
        BY <1>e, <3>5, <4>1
    <3>. QED
      BY <1>a, <3>1, <3>2, <3>3, <3>4, <3>6, <3>7, <3>8, VouchHandling
  <2>. QED
    BY <1>9, <1>11, <2>1 DEF Handles
<1>12. ASSUME NEW n \in Node, NEW id, Retries(n, id)
       PROVE  Vouch(k, t, W)
  <2>1. CASE n = k
    <3>1. id \in DOMAIN s.pending /\ (GaveUp(k, s, id, t) \/ SentAgain(k, s, id, t))
      BY <1>1, <1>2, <1>12, <2>1 DEF Retries
    <3>2. /\ Recorded(k, id, s.pending[id].packet) /\ id \in Nat
          /\ id >= FirstId \/ \E m \in S : m.from = k /\ m.id = id
      BY <1>6, <1>s, <3>1, StateFields DEF Sound
    <3>3. Excused(id, W)
      <4>1. id >= FirstId \/ \E m \in sent' : m \in Messages /\ m.id = id
        BY <1>p, <3>2
      <4>. QED
        BY <1>e, <3>2, <4>1
    <3>4. ASSUME id \notin DOMAIN t.pending
          PROVE  <<k, "MAX_RETRANSMIT", id>> \in W
      <4>1. CASE id >= FirstId
        BY <1>a, <3>2, <4>1 DEF Ample, Errors
      <4>2. CASE \E m \in S : m.from = k /\ m.id = id
        <5>1. PICK m \in S : m.from = k /\ m.id = id
          BY <4>2
        <5>2. ~ Pends(m)'
          BY <1>2, <3>4, <5>1 DEF Pends
        <5>. QED
          BY <1>3, <1>p, <5>1, <5>2, ClaimsGaveUp
      <4>. QED
        BY <3>2, <4>1, <4>2
    <3>. QED
      BY <1>5, <1>6, <1>8, <3>1, <3>2, <3>3, <3>4, VouchRetries
  <2>. QED
    BY <1>9, <1>12, <2>1 DEF Retries
<1>13. ASSUME NEW n \in Node, NEW id, Hearkens(n, id)
       PROVE  Vouch(k, t, W)
  <2>1. CASE n = k
    <3>1. PICK b \in Nat : b = s.nextId /\ b >= FirstId
      BY <1>7, <1>8
    <3>2. PICK T : T = {<<k, "routing", "NONE", id>>}
      OBVIOUS
    <3>3. PICK L : L = {}
      OBVIOUS
    <3>4. Allowed(k, s, t, b, T, L) /\ id \in s.uplink
      BY <1>1, <1>2, <1>13, <2>1, <3>1, <3>2, <3>3 DEF Hearkens
    <3>5. id \in Nat /\ k \in MqttNodes /\ (id >= FirstId \/ \E m \in S : m.from = k /\ m.id = id)
      BY <1>6, <3>4, StateFields DEF Trace
    <3>6. ASSUME NEW m \in S, m.from = k, m.id = id
          PROVE  <<k, "NONE", id>> \in W
      <4>1. Known(m)'
        BY <3>5, <3>6 DEF Known
      <4>. QED
        BY <1>3, <1>p, <3>6, <4>1, ClaimsKnown
    <3>7. <<k, "NONE", id>> \in W
      BY <1>a, <3>5, <3>6 DEF Ample, Errors
    <3>8. Honest(k, T, W)
      <4>1. SUFFICES ASSUME NEW x, x = <<k, "routing", "NONE", id>>
                     PROVE  x[1] \in Node /\ <<k, x[3], x[4]>> \in W
        BY <3>2 DEF Honest
      <4>2. x[1] = k /\ x[3] = "NONE" /\ x[4] = id
        BY <4>1
      <4>. QED
        BY <3>7, <4>2
    <3>9. \A q \in L : Vouched(q, W)
      BY <3>3
    <3>. QED
      BY <1>5, <3>1, <3>4, <3>8, <3>9, VouchAfter
  <2>. QED
    BY <1>9, <1>13, <2>1 DEF Hearkens
<1>14. ASSUME NEW n \in Node, NEW p, Airs(n, p)
       PROVE  Vouch(k, t, W)
  <2>1. CASE n = k
    <3>1. Dequeued(s, p, t)
      BY <1>1, <1>2, <1>14, <2>1 DEF Airs
    <3>. QED
      BY <1>5, <3>1 DEF Dequeued, Vouch
  <2>. QED
    BY <1>9, <1>14, <2>1 DEF Airs
<1>15. ASSUME NEW n \in Node, Reaches(n)
       PROVE  Vouch(k, t, W)
  <2>1. CASE t = s
    BY <1>5, <2>1
  <2>2. CASE t # s
    <3>1. PICK x : x = sending[n]
      OBVIOUS
    <3>2. x \in Sealed /\ Outbound(n, node[n].recent, x, S) /\ Vouched(x, W)
      BY <1>4, <1>s, <1>15, <3>1 DEF Reaches, BaseInv, TraceInv, VouchInv, Vouched
    <3>3. PICK p : p = OnAir(x)
      OBVIOUS
    <3>4. Received(s, p, t) /\ n # k /\ node'[n] = node[n]
      BY <1>1, <1>2, <1>15, <2>2, <3>1, <3>3 DEF Reaches
    <3>5. /\ p.from = x.from /\ p.to = x.to /\ p.id = x.id /\ p.port = x.port /\ p.reqId = x.reqId /\ p.err = x.err
          /\ x.id \in Nat
      BY <3>2, <3>3, OnAirFacts DEF Sealed, Packet
    <3>6. Vouched(p, W)
      BY <3>2, <3>5 DEF Vouched
    <3>7. ASSUME x.from = k, ~ (x.id >= FirstId)
          PROVE  <<k, "NONE", x.id>> \in W
      <4>1. PICK m \in S : x.from = m.from /\ x.id = m.id
        BY <3>2, <3>7 DEF Outbound, Traced, CopyOf
      <4>2. <<m.from, m.id>> \in node'[n].recent /\ n # m.from
        BY <3>2, <3>4, <3>7, <4>1 DEF Outbound
      <4>3. Known(m)'
        BY <4>2 DEF Known
      <4>. QED
        BY <1>3, <1>p, <3>7, <4>1, <4>3, ClaimsKnown
    <3>8. \A q \in ToSet(t.fromRadio) : q \in ToSet(s.fromRadio) \/ q = p
      BY <3>4 DEF Received, Adds
    <3>9. \A q \in ToSet(t.fromRadio) :
            Vouched(q, W) /\ (q.from = k /\ ~ (q.id >= FirstId) => <<k, "NONE", q.id>> \in W)
      BY <1>5, <3>5, <3>6, <3>7, <3>8 DEF Vouch
    <3>10. t.txQueue = s.txQueue /\ t.toPhone = s.toPhone
      BY <3>4 DEF Received
    <3>. QED
      BY <1>5, <3>9, <3>10 DEF Vouch
  <2>. QED
    BY <2>1, <2>2
<1>16. Vouch(k, t, W)
  BY <1>10, <1>11, <1>12, <1>13, <1>14, <1>15 DEF Steps
<1>. QED
  BY <1>2, <1>3, <1>16

LEMMA VouchNext ==
  ASSUME BaseInv, TraceInv, TraceInv', VouchInv, [Next]_vars, MaxReboots = 0, AssertionsHold
  PROVE  VouchInv'
<1>1. CASE UNCHANGED vars
  <2>1. Claims' = Claims
    BY <1>1 DEF Claims, Acked, Known, Delivered, Pends, vars
  <2>. QED
    BY <1>1, <2>1 DEF VouchInv, vars
<1>2. CASE Next
  <2>1. Steps
    BY <1>2, NextSteps
  <2>2. \A n \in Node : ~ Boots(n)
    BY DEF Boots, Reboot, AssertionsHold, BaseInv, TypeOK
  <2>3. PICK W : W = Claims'
    OBVIOUS
  <2>4. Claims \subseteq W
    <3>1. \A m \in sent : Pends(m)' => Pends(m)
      BY <2>1, <2>2, PendsOnce
    <3>. QED
      BY <2>1, <2>2, <2>3, <3>1, SentGrows, StepsGrow, ClaimsGrow
  <2>5. ASSUME NEW k \in Node
        PROVE  sending'[k] = NoPacket \/ Vouched(sending'[k], W)
    <3>1. CASE sending'[k] = sending[k]
      BY <2>4, <3>1 DEF VouchInv, Vouched
    <3>2. CASE sending'[k] \in ToSet(node[k].txQueue)
      BY <2>4, <3>2 DEF VouchInv, Vouch, Vouched
    <3>. QED
      BY <2>1, <3>1, <3>2, StepsSend
  <2>6. \A k \in Node : Vouch(k, node'[k], W)
    BY <2>1, <2>2, <2>3, VouchSteps
  <2>. QED
    BY <2>3, <2>5, <2>6 DEF VouchInv
<1>. QED
  BY <1>1, <1>2

LEMMA VouchInit ==
  ASSUME Init
  PROVE  VouchInv
<1>1. FirstId \in Nat
  BY MeshAssumption
<1>2. ASSUME NEW n \in Node
      PROVE  Vouch(n, node[n], Claims)
  <2>1. PICK t : t = Booted(FirstId)
    OBVIOUS
  <2>2. ToSet(t.txQueue) = {} /\ ToSet(t.fromRadio) = {} /\ ToSet(t.toPhone) = {}
    BY <1>1, <2>1, BootedFacts
  <2>3. node[n] = t
    BY <2>1 DEF Init
  <2>. QED
    BY <2>2, <2>3 DEF Vouch
<1>3. \A n \in Node : sending[n] = NoPacket
  BY DEF Init
<1>. QED
  BY <1>2, <1>3 DEF VouchInv

(* As long as no node reboots, an ack in the queues or with a phone says what *)
(* is so.                                                                     *)
LEMMA VouchAlways ==
  ASSUME MaxReboots = 0
  PROVE  Spec /\ []AssertionsHold => []VouchInv
<1>1. Init => VouchInv
  BY VouchInit
<1>2. BaseInv /\ TraceInv /\ TraceInv' /\ VouchInv /\ [Next]_vars /\ AssertionsHold => VouchInv'
  BY VouchNext
<1>. QED
  BY <1>1, <1>2, BaseAlways, TraceAlways, PTL DEF Spec

(* ImplicitAckMeansHeard: the ack a node tells its own phone of a message says *)
(* that another node has the message, or the broker: what comes back with the  *)
(* node's own address went through a node that remembers it                    *)
(* (ReliableRouter::shouldFilterReceived, MQTT::onReceive). A reboot of that   *)
(* node forgets it, so the theorem is about meshes where none reboots.         *)
THEOREM MeshImplicitAckMeansHeard ==
  ASSUME MaxReboots = 0
  PROVE  Spec /\ []AssertionsHold => []ImplicitAckMeansHeard
<1>1. VouchInv => ImplicitAckMeansHeard
  <2>1. SUFFICES ASSUME VouchInv, NEW m \in Messages, NEW p \in ToSet(node[m.from].toPhone),
                        p.port = "routing", p.reqId = m.id, p.from = m.from, p.err = "NONE"
                 PROVE  \/ m.from \in MqttNodes
                        \/ \E n \in Node \ {m.from} : <<m.from, m.id>> \in node[n].recent
    BY DEF ImplicitAckMeansHeard, ReportsOf
  <2>2. PICK x \in Claims : x = <<m.from, "NONE", m.id>>
    BY <2>1, MessageFacts DEF VouchInv, Vouch, Vouched
  <2>3. Acked(m.from, m)
    BY <2>2 DEF Claims
  <2>4. Known(m)
    BY <2>3, MeshAssumption DEF Acked
  <2>. QED
    BY <2>4 DEF Known
<1>. QED
  BY <1>1, VouchAlways, PTL

(* AckMeansHandled: an ack from the destination says that the message was     *)
(* decoded there and given to the phone, where the destinations can decode    *)
(* what they are sent: ReliableRouter::sniffReceived acks what callModules    *)
(* has decoded, FloodingRouter's ack of a repeated packet follows the first   *)
(* copy's. Where a destination cannot, the latter acks what nobody read.      *)
THEOREM MeshAckMeansHandled ==
  ASSUME MaxReboots = 0, \A m \in Messages : Decipherable(m)
  PROVE  Spec /\ []AssertionsHold => []AckMeansHandled
<1>1. VouchInv => AckMeansHandled
  <2>1. SUFFICES ASSUME VouchInv, NEW m \in Messages, NEW p \in ToSet(node[m.from].toPhone),
                        p.port = "routing", p.reqId = m.id, p.from = m.to, p.err = "NONE"
                 PROVE  Delivered(m.to, m)
    BY DEF AckMeansHandled, ReportsOf
  <2>2. PICK x \in Claims : x = <<m.to, "NONE", m.id>>
    BY <2>1, MessageFacts DEF VouchInv, Vouch, Vouched
  <2>3. Acked(m.to, m)
    BY <2>2 DEF Claims
  <2>. QED
    BY <2>3, MeshAssumption DEF Acked
<1>. QED
  BY <1>1, VouchAlways, PTL

---------------------------------------------------------------------------
(* The promise of ReliableDelivery, message by message. *)

PhaseOf(m) == IF m \notin sent THEN "new" ELSE IF Pends(m) THEN "pending" ELSE "settled"
ReachedOf(m) == \E n \in Node \ {m.from} : Delivered(n, m)
ReportedOf(m) == {Outcome(m, p) : p \in {q \in ReportsOf(m) : q.plain}}

(* p tells the phone of m's sender about m. *)
Tells(p, m) == p.port = "routing" /\ p.reqId = m.id /\ p.plain

Unheard(m) == ReachedOf(m)' = ReachedOf(m) /\ ReportedOf(m)' = ReportedOf(m)
Stays(m) == PhaseOf(m)' = PhaseOf(m) /\ Unheard(m)

Submitting(m) == PhaseOf(m) = "new" /\ PhaseOf(m)' \in {"pending", "settled"} /\ Unheard(m)
Reaching(m) ==
  /\ PhaseOf(m) # "new" /\ ~ ReachedOf(m) /\ ReachedOf(m)'
  /\ PhaseOf(m)' = PhaseOf(m) /\ ReportedOf(m)' = ReportedOf(m)
Settling(m) == PhaseOf(m) = "pending" /\ PhaseOf(m)' = "settled" /\ Unheard(m)
Reporting(m, r) ==
  /\ PhaseOf(m) # "new" /\ PhaseOf(m)' = "settled" /\ ReachedOf(m)' = ReachedOf(m)
  /\ (r = "acked" => ReachedOf(m)) /\ (r = "failed" => PhaseOf(m) = "settled")
  /\ ReportedOf(m)' = ReportedOf(m) \cup {r}

Progress(m) ==
  Submitting(m) \/ Reaching(m) \/ Settling(m) \/ \E r \in Promise!Reports : Reporting(m, r)

(* One message at most gets any further. *)
Moves ==
  \/ \A l \in Messages : Stays(l)
  \/ \E m \in Messages : Progress(m) /\ \A l \in Messages \ {m} : Stays(l)

(* A step of the messages is one of the promise's. *)
LEMMA MovesImplements ==
  ASSUME Moves
  PROVE  [Promise!Next]_(Promise!vars)
<1>f. PICK f, g, h : /\ f = [m \in Messages |-> PhaseOf(m)] /\ g = [m \in Messages |-> ReachedOf(m)]
                     /\ h = [m \in Messages |-> ReportedOf(m)]
  OBVIOUS
<1>t. PICK f1, g1, h1 : /\ f1 = [m \in Messages |-> PhaseOf(m)'] /\ g1 = [m \in Messages |-> ReachedOf(m)']
                        /\ h1 = [m \in Messages |-> ReportedOf(m)']
  OBVIOUS
<1>v. Promise!vars = <<f, g, h>> /\ Promise!vars' = <<f1, g1, h1>>
  BY <1>f, <1>t DEF Promise!vars, PhaseOf, ReachedOf, ReportedOf
<1>1. CASE \A l \in Messages : Stays(l)
  <2>1. f1 = f /\ g1 = g /\ h1 = h
    BY <1>1, <1>f, <1>t DEF Stays, Unheard
  <2>. QED
    BY <1>v, <2>1
<1>2. ASSUME NEW m \in Messages, Progress(m), \A l \in Messages \ {m} : Stays(l)
      PROVE  Promise!Next
  <2>1. ASSUME PhaseOf(m)' = PhaseOf(m)
        PROVE  f1 = f
    BY <1>2, <1>f, <1>t, <2>1 DEF Stays
  <2>2. ASSUME ReachedOf(m)' = ReachedOf(m)
        PROVE  g1 = g
    BY <1>2, <1>f, <1>t, <2>2 DEF Stays, Unheard
  <2>3. ASSUME ReportedOf(m)' = ReportedOf(m)
        PROVE  h1 = h
    BY <1>2, <1>f, <1>t, <2>3 DEF Stays, Unheard
  <2>4. ASSUME NEW x, PhaseOf(m)' = x
        PROVE  f1 = [f EXCEPT ![m] = x]
    BY <1>2, <1>f, <1>t, <2>4 DEF Stays
  <2>5. CASE Submitting(m)
    <3>1. f[m] = "new" /\ f1 \in {[f EXCEPT ![m] = "pending"], [f EXCEPT ![m] = "settled"]} /\ g1 = g /\ h1 = h
      BY <1>f, <2>2, <2>3, <2>4, <2>5 DEF Submitting, Unheard
    <3>2. Promise!Submit(m)
      BY <1>f, <1>t, <3>1 DEF Promise!Submit, PhaseOf, ReachedOf, ReportedOf
    <3>. QED
      BY <3>2 DEF Promise!Next
  <2>6. CASE Reaching(m)
    <3>1. f[m] # "new" /\ ~ g[m] /\ g1 = [g EXCEPT ![m] = TRUE] /\ f1 = f /\ h1 = h
      <4>1. ReachedOf(m)' = TRUE
        BY <2>6 DEF Reaching, ReachedOf
      <4>2. g1 = [g EXCEPT ![m] = TRUE]
        BY <1>2, <1>f, <1>t, <4>1 DEF Stays, Unheard
      <4>. QED
        BY <1>f, <2>1, <2>3, <2>6, <4>2 DEF Reaching
    <3>2. Promise!Reach(m)
      BY <1>f, <1>t, <3>1 DEF Promise!Reach, PhaseOf, ReachedOf, ReportedOf
    <3>. QED
      BY <3>2 DEF Promise!Next
  <2>7. CASE Settling(m)
    <3>1. f[m] = "pending" /\ f1 = [f EXCEPT ![m] = "settled"] /\ g1 = g /\ h1 = h
      BY <1>f, <2>2, <2>3, <2>4, <2>7 DEF Settling, Unheard
    <3>2. Promise!Settle(m)
      BY <1>f, <1>t, <3>1 DEF Promise!Settle, PhaseOf, ReachedOf, ReportedOf
    <3>. QED
      BY <3>2 DEF Promise!Next
  <2>8. ASSUME NEW r \in Promise!Reports, Reporting(m, r)
        PROVE  Promise!Next
    <3>1. /\ f[m] # "new" /\ (r = "acked" => g[m]) /\ (r = "failed" => f[m] = "settled")
          /\ h1 = [h EXCEPT ![m] = @ \cup {r}] /\ f1 = [f EXCEPT ![m] = "settled"] /\ g1 = g
      <4>1. h1 = [h EXCEPT ![m] = @ \cup {r}]
        BY <1>2, <1>f, <1>t, <2>8 DEF Stays, Unheard, Reporting
      <4>. QED
        BY <1>f, <2>2, <2>4, <2>8, <4>1 DEF Reporting
    <3>2. Promise!Report(m, r)
      BY <1>f, <1>t, <3>1 DEF Promise!Report, PhaseOf, ReachedOf, ReportedOf
    <3>. QED
      BY <2>8, <3>2 DEF Promise!Next
  <2>. QED
    BY <1>2, <2>5, <2>6, <2>7, <2>8 DEF Progress
<1>. QED
  BY <1>1, <1>2 DEF Moves

(* The phones being told nothing, a record dropped settles its message. *)
Drops(m) == m \in sent /\ Pends(m) /\ ~ Pends(m)'

LEMMA PhaseSame ==
  ASSUME sent' = sent, NEW m \in Messages, m \in sent /\ Pends(m)' => Pends(m), ~ Drops(m)
  PROVE  PhaseOf(m)' = PhaseOf(m)
  BY DEF Drops, PhaseOf

LEMMA OneSettles ==
  ASSUME sent' = sent, \A l \in Messages : Unheard(l), \A l \in sent : Pends(l)' => Pends(l),
         \A l, m \in Messages : Drops(l) /\ Drops(m) => l = m
  PROVE  Moves
<1>1. \A l \in Messages : ~ Drops(l) => Stays(l)
  BY PhaseSame DEF Stays
<1>2. CASE \A l \in Messages : ~ Drops(l)
  BY <1>1, <1>2 DEF Moves
<1>3. CASE \E m \in Messages : Drops(m)
  <2>1. PICK m \in Messages : Drops(m)
    BY <1>3
  <2>2. Settling(m)
    BY <2>1 DEF Drops, Settling, PhaseOf
  <2>3. \A l \in Messages \ {m} : Stays(l)
    BY <1>1, <2>1
  <2>. QED
    BY <2>2, <2>3 DEF Moves, Progress
<1>. QED
  BY <1>2, <1>3

LEMMA PhonesSame ==
  ASSUME \A k \in Node : node'[k].toPhone = node[k].toPhone, NEW l \in Messages
  PROVE  Unheard(l)
<1>1. \A k \in Node : Delivered(k, l)' = Delivered(k, l)
  BY DEF Delivered
<1>2. ReportsOf(l)' = ReportsOf(l)
  BY MessageFacts DEF ReportsOf
<1>3. ReportedOf(l)' = ReportedOf(l)
  BY <1>2 DEF ReportedOf
<1>. QED
  BY <1>1, <1>3 DEF Unheard, ReachedOf

(* The phone of node n is given d. *)
LEMMA PhoneGiven ==
  ASSUME NEW n \in Node, NEW d, ToSet(node'[n].toPhone) = ToSet(node[n].toPhone) \cup {d},
         Only(n), NEW l \in Messages
  PROVE  /\ ReachedOf(l)' <=> ReachedOf(l) \/ (l.from # n /\ Is(d, l) /\ d.plain)
         /\ l.from = n /\ Tells(d, l) => ReportedOf(l)' = ReportedOf(l) \cup {Outcome(l, d)}
         /\ ~ (l.from = n /\ Tells(d, l)) => ReportedOf(l)' = ReportedOf(l)
<1>1. \A k \in Node \ {n} : node'[k] = node[k]
  BY DEF Only
<1>2. \A k \in Node : Delivered(k, l)' <=> Delivered(k, l) \/ (k = n /\ Is(d, l) /\ d.plain)
  BY <1>1 DEF Delivered
<1>3. ReachedOf(l)' <=> ReachedOf(l) \/ (l.from # n /\ Is(d, l) /\ d.plain)
  BY <1>2 DEF ReachedOf
<1>4. CASE l.from # n
  <2>1. ReportsOf(l)' = ReportsOf(l)
    BY <1>1, <1>4, MessageFacts DEF ReportsOf
  <2>2. ReportedOf(l)' = ReportedOf(l)
    BY <2>1 DEF ReportedOf
  <2>. QED
    BY <1>3, <1>4, <2>2
<1>5. CASE l.from = n
  <2>1. ReportsOf(l)' = ReportsOf(l) \cup (IF d.port = "routing" /\ d.reqId = l.id THEN {d} ELSE {})
    BY <1>5 DEF ReportsOf
  <2>2. Tells(d, l) => ReportedOf(l)' = ReportedOf(l) \cup {Outcome(l, d)}
    BY <2>1 DEF ReportedOf, Tells
  <2>3. ~ Tells(d, l) => ReportedOf(l)' = ReportedOf(l)
    BY <2>1 DEF ReportedOf, Tells
  <2>. QED
    BY <1>3, <1>5, <2>2, <2>3
<1>. QED
  BY <1>4, <1>5

(* A record is dropped for the packet that is handled: its message come back, *)
(* or an answer to it.                                                        *)
LEMMA HandlesDrops ==
  ASSUME BaseInv, NEW n \in Node, NEW p, NEW r, Handles(n, p, r), NEW l \in Messages, Drops(l)
  PROVE  l.from = n /\ ((p.from = n /\ l.id = p.id) \/ (Answering(n, p) /\ l.id = p.reqId))
<1>1. l.from = n
  <2>1. SUFFICES ASSUME l.from # n
                 PROVE  FALSE
    OBVIOUS
  <2>2. node'[l.from] = node[l.from]
    BY <2>1, Untouched, MessageFacts DEF Handles
  <2>. QED
    BY <2>2 DEF Drops, Pends
<1>2. PICK s, t : s = node[n] /\ t = node'[n]
  OBVIOUS
<1>3. l.id \in DOMAIN s.pending /\ l.id \notin DOMAIN t.pending
  BY <1>1, <1>2 DEF Drops, Pends
<1>4. Taken(s, p, r) /\ Handling(n, p, r, t)
  BY <1>2 DEF Handles
<1>5. r.pending = s.pending
  BY <1>4 DEF Taken
<1>6. Settles(n, r, p, t)
  BY <1>3, <1>4, <1>5 DEF Handling, Repeated, Handled
<1>. QED
  BY <1>1, <1>3, <1>5, <1>6 DEF Settles

LEMMA DropsOne ==
  ASSUME BaseInv, TraceInv, NEW n \in Node, NEW p, NEW r, Handles(n, p, r),
         NEW l \in Messages, Drops(l), NEW m \in Messages, Drops(m)
  PROVE  l = m
<1>1. /\ (p.from = n /\ l.id = p.id) \/ (Answering(n, p) /\ l.id = p.reqId)
      /\ (p.from = n /\ m.id = p.id) \/ (Answering(n, p) /\ m.id = p.reqId)
  BY HandlesDrops
<1>2. PICK S \in SUBSET Messages : S = sent
  BY DEF BaseInv, TypeOK
<1>3. Traced(p, S)
  BY <1>2 DEF Handles, Taken, TraceInv, Trace, Inbound
<1>4. ASSUME NEW k \in Messages, k.id = p.id
      PROVE  ~ Answering(n, p)
  BY <1>3, <1>4, OneCopy DEF CopyOf, Answering
<1>5. l.id = m.id
  BY <1>1, <1>4
<1>. QED
  BY <1>5, MeshAssumption

LEMMA RemembersPhone ==
  ASSUME NEW n, NEW s, IsNodeState(s), NEW p \in Packet, NEW t, t = Remembers(n, s, p), NEW d, d = Decoded(n, p)
  PROVE  t.toPhone = Phoned(n, s, d)
  BY RemembersFacts

(* The phone is told nothing, or given what was handled. *)
LEMMA HandlesPhone ==
  ASSUME BaseInv, NEW n \in Node, NEW p, NEW r, Handles(n, p, r), NEW d, d = Decoded(n, p)
  PROVE  \/ node'[n].toPhone = node[n].toPhone
         \/ /\ Handled(n, r, p, node'[n]) /\ (IsBroadcast(p.to) \/ p.to = n)
            /\ ToSet(node'[n].toPhone) = ToSet(node[n].toPhone) \cup {d}
<1>1. PICK s, t : s = node[n] /\ t = node'[n]
  OBVIOUS
<1>2. Taken(s, p, r) /\ Handling(n, p, r, t) /\ p \in Packet
  BY <1>1 DEF Handles, Legible, Readable
<1>3. IsNodeState(r) /\ r.toPhone = s.toPhone
  BY <1>2 DEF Taken
<1>4. CASE t = r
  BY <1>1, <1>3, <1>4
<1>5. CASE Repeated(n, r, p, t)
  <2>1. t.toPhone = r.toPhone
    BY <1>5, Zenon DEF Repeated, Allowed
  <2>. QED
    BY <1>1, <1>3, <2>1
<1>6. CASE Handled(n, r, p, t)
  <2>1. PICK u : u = Remembers(n, r, p)
    OBVIOUS
  <2>2. t.toPhone = u.toPhone
    BY <1>6, <2>1, Zenon DEF Handled, Allowed
  <2>3. u.toPhone = Phoned(n, r, d)
    <3>1. IsNodeState(r) /\ p \in Packet
      BY <1>2, <1>3
    <3>2. u.toPhone = Phoned(n, r, d)
      BY <2>1, <3>1, RemembersPhone
    <3>. QED
      BY <3>2
  <2>4. d \in Packet /\ d.to = p.to /\ s.toPhone \in Seq(Packet)
    BY <1>2, <1>3, DecodedFacts, StateFields
  <2>5. CASE t.toPhone = s.toPhone
    BY <1>1, <2>5
  <2>6. CASE t.toPhone # s.toPhone
    <3>1. t.toPhone = Append(s.toPhone, d) /\ (IsBroadcast(p.to) \/ p.to = n)
      BY <1>3, <2>2, <2>3, <2>4, <2>6 DEF Phoned, ForUs
    <3>2. ToSet(t.toPhone) = ToSet(s.toPhone) \cup {d}
      BY <2>4, <3>1, AppendSet
    <3>. QED
      BY <1>1, <1>6, <3>1, <3>2
  <2>. QED
    BY <2>5, <2>6
<1>. QED
  BY <1>2, <1>4, <1>5, <1>6 DEF Handling

(* A report is of a message that was sent, true, and the end of its record. *)
LEMMA HandlesReport ==
  ASSUME BaseInv, TraceInv, VouchInv, \A m \in Messages : Decipherable(m), \A l \in sent : Pends(l)' => Pends(l),
         NEW n \in Node, NEW p, NEW r, Handles(n, p, r), NEW d, d = Decoded(n, p),
         Handled(n, r, p, node'[n]), IsBroadcast(p.to) \/ p.to = n,
         ToSet(node'[n].toPhone) = ToSet(node[n].toPhone) \cup {d},
         NEW m \in Messages, m.from = n, Tells(d, m)
  PROVE  Moves
<1>1. p \in Packet /\ sent' = sent /\ Only(n)
  BY DEF Handles, Legible, Readable
<1>2. /\ d \in Packet /\ d.from = p.from /\ d.to = p.to /\ d.id = p.id /\ d.port = p.port
      /\ d.reqId = p.reqId /\ d.err = p.err /\ (d.plain <=> CanDecode(n, p))
  BY <1>1, DecodedFacts
<1>3. p.port = "routing" /\ p.reqId = m.id /\ CanDecode(n, p)
  BY <1>2 DEF Tells
<1>4. Vouched(p, Claims) /\ Traced(p, sent)
  BY DEF Handles, Taken, VouchInv, Vouch, TraceInv, Trace, Inbound
<1>5. p.to = n
  BY <1>3, <1>4, RouterAssumption DEF Vouched, IsBroadcast
<1>6. /\ m \in sent /\ (p.err = "NONE" => Acked(p.from, m))
      /\ (p.err = "MAX_RETRANSMIT" => p.from = m.from /\ ~ Pends(m))
  <2>1. PICK x \in Claims : x = <<p.from, p.err, m.id>>
    BY <1>3, <1>4 DEF Vouched
  <2>2. x[1] = p.from /\ x[2] = p.err /\ x[3] = m.id
    BY <2>1
  <2>. QED
    BY <2>1, <2>2 DEF Claims
<1>7. ASSUME NEW l \in Messages
      PROVE  p.id # l.id
  <2>1. PICK S \in SUBSET Messages : S = sent
    BY DEF BaseInv, TypeOK
  <2>2. p.id = l.id => CopyOf(p, l)
    BY <1>4, <2>1, OneCopy
  <2>3. l.port # "routing"
    BY MessageFacts DEF Message
  <2>. QED
    BY <1>3, <2>2, <2>3 DEF CopyOf
<1>8. ~ Pends(m)'
  <2>1. PICK t : t = node'[n]
    OBVIOUS
  <2>2. m.id \in Nat /\ m.id # NoId /\ m.id < FirstId /\ FirstId \in Nat
    BY MessageFacts DEF Message
  <2>3. r.nextId = node[n].nextId /\ FirstId <= node[n].nextId /\ node[n].nextId \in Nat
    BY StateFields DEF Handles, Taken, BaseInv, Sound
  <2>4. p.reqId < r.nextId
    BY <1>3, <2>2, <2>3, SMT
  <2>5. Answering(n, p)
    BY <1>3, <1>5, <2>2 DEF Answering
  <2>6. p.reqId \notin DOMAIN t.pending
    BY <1>3, <2>1, <2>4, <2>5, Zenon DEF Handled
  <2>. QED
    BY <1>3, <2>1, <2>6 DEF Pends
<1>9. ASSUME NEW l \in Messages \ {m}
      PROVE  Stays(l)
  <2>1. l.id # m.id
    BY MeshAssumption
  <2>2. ~ Is(d, l) /\ ~ Tells(d, l)
    BY <1>2, <1>3, <1>7, <2>1 DEF Is, Tells
  <2>3. Unheard(l)
    <3>1. (ReachedOf(l)' <=> ReachedOf(l)) /\ ReportedOf(l)' = ReportedOf(l)
      BY <1>1, <2>2, PhoneGiven
    <3>. QED
      BY <3>1 DEF Unheard, ReachedOf
  <2>4. ~ Drops(l)
    BY <1>3, <1>7, <2>1, HandlesDrops
  <2>. QED
    BY <1>1, <2>3, <2>4, PhaseSame DEF Stays
<1>10. PICK o : o = Outcome(m, d)
  OBVIOUS
<1>11. Reporting(m, o)
  <2>1. (ReachedOf(m)' <=> ReachedOf(m)) /\ ReportedOf(m)' = ReportedOf(m) \cup {o}
    <3>1. ~ Is(d, m)
      BY <1>2, <1>7 DEF Is
    <3>. QED
      BY <1>1, <1>10, <3>1, PhoneGiven
  <2>2. PhaseOf(m) # "new" /\ PhaseOf(m)' = "settled"
    BY <1>1, <1>6, <1>8 DEF PhaseOf
  <2>3. ASSUME o = "acked"
        PROVE  ReachedOf(m)
    <3>1. p.err = "NONE" /\ p.from # m.from
      BY <1>2, <1>10, <2>3 DEF Outcome
    <3>2. m.to = p.from /\ Delivered(m.to, m)
      BY <1>6, <3>1 DEF Acked
    <3>3. m.to \in Node \ {m.from}
      BY <1>1, <3>1, <3>2 DEF Packet
    <3>. QED
      BY <3>2, <3>3 DEF ReachedOf
  <2>4. ASSUME o = "failed"
        PROVE  PhaseOf(m) = "settled"
    BY <1>2, <1>6, <1>10, <2>4 DEF Outcome, PhaseOf
  <2>5. ReachedOf(m)' = ReachedOf(m)
    BY <2>1 DEF ReachedOf
  <2>. QED
    BY <2>1, <2>2, <2>3, <2>4, <2>5 DEF Reporting
<1>12. o \in Promise!Reports
  BY <1>10 DEF Outcome, Promise!Reports
<1>. QED
  BY <1>9, <1>11, <1>12 DEF Moves, Progress

LEMMA HandlesMoves ==
  ASSUME BaseInv, TraceInv, VouchInv, \A m \in Messages : Decipherable(m), \A l \in sent : Pends(l)' => Pends(l),
         NEW n \in Node, NEW p, NEW r, Handles(n, p, r)
  PROVE  Moves
<1>1. p \in Packet /\ sent' = sent /\ Only(n)
  BY DEF Handles, Legible, Readable
<1>2. ASSUME \A l \in Messages : Unheard(l)
      PROVE  Moves
  <2>1. \A l, m \in Messages : Drops(l) /\ Drops(m) => l = m
    BY DropsOne
  <2>. QED
    BY <1>1, <1>2, <2>1, OneSettles
<1>3. PICK d : d = Decoded(n, p)
  OBVIOUS
<1>4. /\ d \in Packet /\ d.from = p.from /\ d.id = p.id
  BY <1>1, <1>3, DecodedFacts
<1>5. CASE node'[n].toPhone = node[n].toPhone
  <2>1. \A k \in Node : node'[k].toPhone = node[k].toPhone
    BY <1>1, <1>5 DEF Only
  <2>2. \A l \in Messages : Unheard(l)
    BY <2>1, PhonesSame
  <2>. QED
    BY <1>2, <2>2
<1>6. CASE /\ Handled(n, r, p, node'[n]) /\ (IsBroadcast(p.to) \/ p.to = n)
           /\ ToSet(node'[n].toPhone) = ToSet(node[n].toPhone) \cup {d}
  <2>1. CASE \E m \in Messages : m.from = n /\ Tells(d, m)
    BY <1>3, <1>6, <2>1, HandlesReport
  <2>2. CASE ~ \E m \in Messages : m.from = n /\ Tells(d, m)
    <3>1. \A l \in Messages : ReportedOf(l)' = ReportedOf(l)
      BY <1>1, <1>6, <2>2, PhoneGiven
    <3>2. \A l \in Messages : ReachedOf(l)' <=> ReachedOf(l) \/ (l.from # n /\ Is(d, l) /\ d.plain)
      BY <1>1, <1>6, PhoneGiven
    <3>3. CASE \A l \in Messages : ReachedOf(l)' <=> ReachedOf(l)
      <4>1. \A l \in Messages : Unheard(l)
        BY <3>1, <3>3 DEF Unheard, ReachedOf
      <4>. QED
        BY <1>2, <4>1
    <3>4. CASE \E m \in Messages : ~ (ReachedOf(m)' <=> ReachedOf(m))
      <4>1. PICK m \in Messages : ~ (ReachedOf(m)' <=> ReachedOf(m))
        BY <3>4
      <4>2. ~ ReachedOf(m) /\ ReachedOf(m)' /\ m.from # n /\ Is(d, m)
        BY <3>2, <4>1
      <4>3. p.from = m.from /\ p.id = m.id
        BY <1>4, <4>2 DEF Is
      <4>4. m \in sent /\ p.reqId = NoId
        <5>1. PICK S \in SUBSET Messages : S = sent
          BY DEF BaseInv, TypeOK
        <5>2. Traced(p, S)
          BY <5>1 DEF Handles, Taken, TraceInv, Trace, Inbound
        <5>. QED
          BY <4>3, <5>1, <5>2, OneCopy DEF CopyOf
      <4>5. ASSUME NEW l \in Messages
            PROVE  PhaseOf(l)' = PhaseOf(l)
        <5>1. ~ Drops(l)
          BY <4>2, <4>3, <4>4, HandlesDrops DEF Answering
        <5>. QED
          BY <1>1, <5>1, PhaseSame
      <4>6. Reaching(m)
        BY <3>1, <4>2, <4>4, <4>5 DEF Reaching, PhaseOf
      <4>7. ASSUME NEW l \in Messages \ {m}
            PROVE  Stays(l)
        <5>1. l.id # m.id
          BY MeshAssumption
        <5>2. ~ Is(d, l)
          BY <4>2, <5>1 DEF Is
        <5>3. ReachedOf(l)' = ReachedOf(l)
          BY <3>2, <5>2 DEF ReachedOf
        <5>. QED
          BY <3>1, <4>5, <5>3 DEF Stays, Unheard
      <4>. QED
        BY <4>6, <4>7 DEF Moves, Progress
    <3>. QED
      BY <3>3, <3>4
  <2>. QED
    BY <2>1, <2>2
<1>. QED
  BY <1>3, <1>5, <1>6, HandlesPhone

LEMMA SubmitsMoves ==
  ASSUME BaseInv, \A l \in sent : Pends(l)' => Pends(l), \A k \in Node : node'[k].toPhone = node[k].toPhone,
         NEW m \in Messages, Submits(m)
  PROVE  Moves
<1>1. \A l \in Messages : Unheard(l)
  BY PhonesSame
<1>2. m \notin sent /\ sent' = sent \cup {m} /\ Only(m.from)
  BY DEF Submits
<1>3. ASSUME NEW l \in sent, Pends(l), l # m
      PROVE  Pends(l)'
  <2>0. l \in Messages
    BY DEF BaseInv, TypeOK
  <2>1. CASE l.from = m.from
    <3>1. PICK s, t : s = node[m.from] /\ t = node'[m.from]
      OBVIOUS
    <3>2. PICK q, v : (IF m.wantAck THEN Starts(s, q, v) ELSE v = s) /\ t.pending = v.pending
      BY <3>1, Zenon DEF Submits, Submitted
    <3>3. DOMAIN s.pending \subseteq DOMAIN t.pending
      BY <3>2 DEF Starts
    <3>. QED
      BY <1>3, <2>1, <3>1, <3>3 DEF Pends
  <2>2. CASE l.from # m.from
    <3>1. node'[l.from] = node[l.from]
      BY <1>2, <2>0, <2>2, MessageFacts, Untouched
    <3>. QED
      BY <1>3, <3>1 DEF Pends
  <2>. QED
    BY <2>1, <2>2
<1>4. \A l \in Messages \ {m} : PhaseOf(l)' = PhaseOf(l)
  BY <1>2, <1>3 DEF PhaseOf
<1>5. PhaseOf(m) = "new" /\ PhaseOf(m)' \in {"pending", "settled"}
  BY <1>2 DEF PhaseOf
<1>. QED
  BY <1>1, <1>4, <1>5 DEF Moves, Progress, Submitting, Stays

LEMMA RetriesDrops ==
  ASSUME BaseInv, NEW n \in Node, NEW id, Retries(n, id), NEW l \in Messages, Drops(l)
  PROVE  l.id = id
<1>1. l.from = n
  <2>1. SUFFICES ASSUME l.from # n
                 PROVE  FALSE
    OBVIOUS
  <2>2. node'[l.from] = node[l.from]
    BY <2>1, Untouched, MessageFacts DEF Retries
  <2>. QED
    BY <2>2 DEF Drops, Pends
<1>2. PICK s, t : s = node[n] /\ t = node'[n]
  OBVIOUS
<1>3. l.id \in DOMAIN s.pending /\ l.id \notin DOMAIN t.pending
  BY <1>1, <1>2 DEF Drops, Pends
<1>4. GaveUp(n, s, id, t) \/ SentAgain(n, s, id, t)
  BY <1>2 DEF Retries
<1>5. CASE GaveUp(n, s, id, t)
  BY <1>3, <1>5 DEF GaveUp
<1>6. CASE SentAgain(n, s, id, t)
  BY <1>3, <1>6 DEF SentAgain, CountsDown
<1>. QED
  BY <1>4, <1>5, <1>6

(* No other step touches a record. *)
LEMMA OthersKeep ==
  ASSUME Steps, NEW k \in Node
  PROVE  \/ node'[k].pending = node[k].pending
         \/ \E m \in Messages : Submits(m)
         \/ \E n \in Node : \E p, r : Handles(n, p, r)
         \/ \E n \in Node : \E id : Retries(n, id)
         \/ \E n \in Node : Boots(n)
<1>1. ASSUME NEW n \in Node, NEW id, Hearkens(n, id)
      PROVE  node'[k].pending = node[k].pending
  BY <1>1, Untouched DEF Hearkens
<1>2. ASSUME NEW n \in Node, NEW p, Airs(n, p)
      PROVE  node'[k].pending = node[k].pending
  BY <1>2, Untouched DEF Airs, Dequeued
<1>3. ASSUME NEW n \in Node, Reaches(n)
      PROVE  node'[k].pending = node[k].pending
  BY <1>3 DEF Reaches, Received
<1>. QED
  BY <1>1, <1>2, <1>3 DEF Steps

LEMMA StepsMove ==
  ASSUME BaseInv, TraceInv, VouchInv, \A m \in Messages : Decipherable(m), Steps, \A k \in Node : ~ Boots(k)
  PROVE  Moves
<1>1. \A l \in sent : Pends(l)' => Pends(l)
  BY PendsOnce
<1>2. CASE \E n \in Node : \E p, r : Handles(n, p, r)
  BY <1>1, <1>2, HandlesMoves
<1>3. CASE ~ \E n \in Node : \E p, r : Handles(n, p, r)
  <2>1. \A k \in Node : node'[k].toPhone = node[k].toPhone
    BY <1>3, StepsKeep DEF Keeps
  <2>2. \A l \in Messages : Unheard(l)
    BY <2>1, PhonesSame
  <2>3. CASE \E m \in Messages : Submits(m)
    BY <1>1, <2>1, <2>3, SubmitsMoves
  <2>4. CASE \E n \in Node : \E id : Retries(n, id)
    <3>1. PICK n \in Node : \E id : Retries(n, id)
      BY <2>4
    <3>2. PICK id : Retries(n, id)
      BY <3>1
    <3>3. sent' = sent
      BY <3>2 DEF Retries
    <3>4. \A l, m \in Messages : Drops(l) /\ Drops(m) => l = m
      BY <3>2, RetriesDrops, MeshAssumption
    <3>. QED
      BY <1>1, <2>2, <3>3, <3>4, OneSettles
  <2>5. CASE /\ ~ \E m \in Messages : Submits(m)
             /\ ~ \E n \in Node : \E id : Retries(n, id)
    <3>1. \A k \in Node : node'[k].pending = node[k].pending
      BY <1>3, <2>5, OthersKeep
    <3>2. sent' = sent
      BY <1>3, <2>5 DEF Steps, Hearkens, Airs, Reaches
    <3>3. \A l \in Messages : ~ Drops(l)
      BY <3>1, MessageFacts DEF Drops, Pends
    <3>. QED
      BY <1>1, <2>2, <3>2, <3>3, OneSettles
  <2>. QED
    BY <2>3, <2>4, <2>5
<1>. QED
  BY <1>2, <1>3

LEMMA PromiseInit ==
  ASSUME Init
  PROVE  Promise!Init
<1>1. ASSUME NEW n \in Node
      PROVE  ToSet(node[n].toPhone) = {}
  <2>1. PICK t : t = Booted(FirstId)
    OBVIOUS
  <2>2. ToSet(t.toPhone) = {} /\ node[n] = t
    BY <2>1, BootedFacts, MeshAssumption DEF Init
  <2>. QED
    BY <2>2
<1>2. ASSUME NEW m \in Messages
      PROVE  PhaseOf(m) = "new" /\ ReachedOf(m) = FALSE /\ ReportedOf(m) = {}
  <2>1. ReachedOf(m) = FALSE
    BY <1>1 DEF ReachedOf, Delivered
  <2>2. ReportedOf(m) = {}
    BY <1>1, MessageFacts DEF ReportedOf, ReportsOf
  <2>. QED
    BY <2>1, <2>2 DEF PhaseOf, Init
<1>. QED
  BY <1>2 DEF Promise!Init, PhaseOf, ReachedOf, ReportedOf

LEMMA PromiseNext ==
  ASSUME BaseInv, TraceInv, VouchInv, AssertionsHold, MaxReboots = 0, \A m \in Messages : Decipherable(m),
         [Next]_vars
  PROVE  [Promise!Next]_(Promise!vars)
<1>1. CASE UNCHANGED vars
  <2>1. \A l \in Messages : Unheard(l)
    BY <1>1, PhonesSame DEF vars
  <2>2. \A l \in Messages : Stays(l)
    BY <1>1, <2>1 DEF Stays, PhaseOf, Pends, vars
  <2>. QED
    BY <2>2, MovesImplements DEF Moves
<1>2. CASE Next
  <2>1. Steps
    BY <1>2, NextSteps
  <2>2. \A n \in Node : ~ Boots(n)
    BY DEF Boots, Reboot, AssertionsHold, BaseInv, TypeOK
  <2>3. Moves
    BY <2>1, <2>2, StepsMove
  <2>. QED
    BY <2>3, MovesImplements
<1>. QED
  BY <1>1, <1>2

(* ImplementsReliableDelivery: where nobody reboots and the destinations can  *)
(* decode what they are sent, every step of the mesh is a step of what        *)
(* ReliableDelivery promises the phone or none of its business: whatever the  *)
(* phone is told of a message ends its retransmissions, an ack only of one    *)
(* that arrived, a failure only when they had ended, and no message is        *)
(* retransmitted once settled (ReliableRouter::sniffReceived,                 *)
(* stopRetransmission and doRetransmissions).                                 *)
THEOREM MeshImplementsReliableDelivery ==
  ASSUME MaxReboots = 0, \A m \in Messages : Decipherable(m)
  PROVE  Spec /\ []AssertionsHold => ImplementsReliableDelivery
<1>1. Init => Promise!Init
  BY PromiseInit
<1>2. BaseInv /\ TraceInv /\ VouchInv /\ AssertionsHold /\ [Next]_vars => [Promise!Next]_(Promise!vars)
  BY PromiseNext
<1>. QED
  BY <1>1, <1>2, BaseAlways, TraceAlways, VouchAlways, PTL DEF Spec, ImplementsReliableDelivery, Promise!Spec

LEMMA SubmissionSpeaks ==
  ASSUME NEW m \in Message, m.from # m.to, NEW s, IsNodeState(s), Past(m.from, s), m.id < s.nextId,
         NEW over, NEW t, t = SendToMesh(m.from, s, FromPhone(m), over)
  PROVE  Speaks(m.from, s, t, {<<m.from, m.id>>})
<1>1. PICK n \in Node : n = m.from
  BY DEF Message
<1>2. PICK p : p = FromPhone(m)
  OBVIOUS
<1>3. p \in Packet /\ p.from = n /\ p.to = m.to /\ p.id = m.id
  BY <1>1, <1>2, FromPhoneFacts
<1>4. PICK w : w = HandleOwn(n, s, p) /\ t = ReliableSend(n, w, p, over)
  BY <1>1, <1>2, <1>3 DEF SendToMesh, SendLocal
<1>5. p.id < s.nextId /\ Past(n, s) /\ p.id \in Nat
  BY <1>1, <1>3 DEF Packet
<1>6. Speaks(n, s, w, {})
  <2>1. "NO_RESPONSE" \in Errors
    BY DEF Errors
  <2>2. w = NakToSelf(n, s, "NO_RESPONSE", p.id) \/ w = s
    BY <1>4 DEF HandleOwn
  <2>. QED
    BY <1>5, <2>1, <2>2, NakSpeaks, SpeaksNothing
<1>7. IsNodeState(w) /\ Past(n, w) /\ p.id < w.nextId
  <2>1. IsNodeState(w) /\ Past(n, w) /\ s.nextId <= w.nextId /\ s.nextId \in Nat /\ w.nextId \in Nat
    BY <1>6, StateFields DEF Speaks
  <2>. QED
    BY <1>5, <2>1
<1>8. PICK X : X = {<<n, p.id>>}
  OBVIOUS
<1>9. Speaks(n, w, t, X) /\ Speaks(n, s, w, X) /\ Given(n, s, X)
  <2>1. Speaks(n, w, t, X)
    BY <1>3, <1>4, <1>7, <1>8, ReliableSpeaks
  <2>2. Speaks(n, s, w, X)
    BY <1>6, SpeaksMore
  <2>3. Given(n, s, X)
    BY <1>3, <1>5, <1>8 DEF Given
  <2>. QED
    BY <2>1, <2>2, <2>3
<1>10. Speaks(n, s, t, X)
  BY <1>7, <1>9, SpeaksThen
<1>. QED
  BY <1>1, <1>3, <1>8, <1>10

---------------------------------------------------------------------------
(* What waits in n's receive queue for itself has an id that n gave, and no  *)
(* other word has; the history has that id once the phone has the word.      *)
Heeds(n, s) ==
  /\ Past(n, s)
  /\ \A p \in ToSet(s.fromRadio) : p.plain =>
       /\ p.from = n /\ p.to = n /\ FirstId <= p.id /\ p.id < s.nextId
       /\ <<n, p.id>> \in s.recent => p \in ToSet(s.toPhone)
  /\ \A p, q \in ToSet(s.fromRadio) : p.plain /\ q.plain /\ p.id = q.id => p = q
  /\ \A i \in DOMAIN s.pending : <<n, i>> \in s.recent

(* Its sender remembers p. *)
Signed(p, N) == <<p.from, p.id>> \in N[p.from].recent

Signs(s, N) ==
  /\ \A p \in ToSet(s.fromRadio) : p.plain \/ Signed(p, N)
  /\ \A p \in ToSet(s.txQueue) : Signed(p, N)

HeedInv ==
  \A n \in Node :
    Heeds(n, node[n]) /\ Signs(node[n], node) /\ (sending[n] = NoPacket \/ Signed(sending[n], node))

LEMMA HeedsAfter ==
  ASSUME NEW n \in Node, NEW s, IsNodeState(s), FirstId <= s.nextId, Heeds(n, s), NEW X, NEW t, Speaks(n, s, t, X),
         ToSet(s.toPhone) \subseteq ToSet(t.toPhone),
         \A p \in ToSet(s.fromRadio) :
           p.plain /\ <<n, p.id>> \in X /\ <<n, p.id>> \in t.recent =>
             <<n, p.id>> \in s.recent \/ p \in ToSet(t.toPhone)
  PROVE  Heeds(n, t)
<1>1. IsNodeState(t) /\ s.nextId \in Nat /\ t.nextId \in Nat /\ s.nextId <= t.nextId /\ FirstId \in Nat
  BY StateFields, MeshAssumption DEF Speaks
<1>2. ASSUME NEW p \in ToSet(t.fromRadio)
      PROVE  p.id \in Nat /\ (p \in ToSet(s.fromRadio) \/ p \in Said(s, t))
  BY <1>1, FromRadioPackets DEF Said
<1>3. ASSUME NEW p \in ToSet(s.fromRadio), p.plain
      PROVE  /\ p.from = n /\ p.to = n /\ FirstId <= p.id /\ p.id \in Nat /\ p.id < s.nextId
             /\ <<n, p.id>> \in s.recent => p \in ToSet(s.toPhone)
  <2>1. p.id \in Nat
    BY FromRadioPackets
  <2>. QED
    BY <1>3, <2>1 DEF Heeds
<1>4. ASSUME NEW p \in Said(s, t)
      PROVE  /\ p.plain /\ p.from = n /\ p.to = n /\ p.id < t.nextId /\ <<n, p.id>> \notin t.recent
             /\ s.nextId <= p.id
  BY <1>4 DEF Speaks, Word
<1>5. ASSUME NEW p \in ToSet(t.fromRadio), p.plain
      PROVE  /\ p.from = n /\ p.to = n /\ FirstId <= p.id /\ p.id < t.nextId
             /\ <<n, p.id>> \in t.recent => p \in ToSet(t.toPhone)
  <2>1. CASE p \in Said(s, t)
    <3>1. FirstId <= p.id
      <4>1. s.nextId <= p.id /\ p.id \in Nat
        BY <1>2, <1>4, <2>1
      <4>. QED
        BY <1>1, <4>1, SMT
    <3>. QED
      BY <1>4, <2>1, <3>1
  <2>2. CASE p \in ToSet(s.fromRadio)
    <3>1. p.id \in Nat /\ p.id < s.nextId
      BY <1>3, <1>5, <2>2
    <3>2. p.id < t.nextId
      BY <1>1, <3>1, SMT
    <3>3. ASSUME <<n, p.id>> \in t.recent
          PROVE  p \in ToSet(t.toPhone)
      <4>1. CASE <<n, p.id>> \in s.recent
        BY <1>3, <1>5, <2>2, <4>1
      <4>2. CASE <<n, p.id>> \notin s.recent
        <5>1. PICK x : x = <<n, p.id>>
          OBVIOUS
        <5>2. x \in X \/ (x[1] = n /\ s.nextId <= x[2])
          BY <3>3, <4>2, <5>1 DEF Speaks
        <5>3. x[2] = p.id
          BY <5>1
        <5>4. x \in X
          BY <1>1, <3>1, <5>2, <5>3, SMT
        <5>. QED
          BY <1>5, <2>2, <3>3, <4>2, <5>1, <5>4
      <4>. QED
        BY <4>1, <4>2
    <3>. QED
      BY <1>3, <1>5, <2>2, <3>2, <3>3
  <2>. QED
    BY <1>2, <2>1, <2>2
<1>6. ASSUME NEW p \in ToSet(t.fromRadio), NEW q \in ToSet(t.fromRadio), p.plain, q.plain, p.id = q.id
      PROVE  p = q
  <2>1. CASE p \in ToSet(s.fromRadio) /\ q \in ToSet(s.fromRadio)
    BY <1>6, <2>1 DEF Heeds
  <2>2. CASE p \in Said(s, t) /\ q \in Said(s, t)
    BY <1>6, <2>2 DEF Speaks
  <2>3. CASE p \in ToSet(s.fromRadio) /\ q \in Said(s, t)
    <3>1. p.id < s.nextId /\ s.nextId <= q.id
      BY <1>3, <1>4, <1>6, <2>3
    <3>. QED
      BY <1>1, <1>2, <1>6, <3>1, SMT
  <2>4. CASE q \in ToSet(s.fromRadio) /\ p \in Said(s, t)
    <3>1. q.id < s.nextId /\ s.nextId <= p.id
      BY <1>3, <1>4, <1>6, <2>4
    <3>. QED
      BY <1>1, <1>2, <1>6, <3>1, SMT
  <2>. QED
    BY <1>2, <2>1, <2>2, <2>3, <2>4
<1>7. ASSUME NEW i \in DOMAIN t.pending
      PROVE  <<n, i>> \in t.recent
  BY DEF Speaks, Heeds
<1>8. Past(n, t)
  BY DEF Speaks
<1>. QED
  BY <1>5, <1>6, <1>7, <1>8 DEF Heeds

(* The steps of the mesh, by what is said and heard of it. *)
Hands(s, p, r) == Taken(s, p, r) /\ ToSet(s.fromRadio) \subseteq ToSet(r.fromRadio) \cup {p}

Hearing(n) ==
  \E p, r : Handles(n, p, r) /\ Hands(node[n], p, r) /\ Listens(n, r, p, node'[n])

Posting(m) == Submits(m) /\ Speaks(m.from, node[m.from], node'[m.from], {<<m.from, m.id>>})

Retrying(n, id) ==
  /\ Retries(n, id) /\ Speaks(n, node[n], node'[n], {<<n, id>>})
  /\ \A i \in DOMAIN node[n].pending : i \in DOMAIN node'[n].pending \/ Telling(n, node'[n], i)

Echoing(n, id) == Hearkens(n, id) /\ Speaks(n, node[n], node'[n], {})

Arriving(n) ==
  /\ Reaches(n)
  /\ \A k \in Node : \/ node'[k] = node[k]
                     \/ Gains(node[k].fromRadio, OnAir(sending[n]), node'[k].fromRadio)

Talks ==
  \/ \E m \in Messages : Posting(m)
  \/ \E n \in Node : Hearing(n)
  \/ \E n \in Node : \E id \in DOMAIN node[n].pending : Retrying(n, id)
  \/ \E n \in Node : \E id : Echoing(n, id)
  \/ \E n \in Node : \E p : Airs(n, p)
  \/ \E n \in Node : Arriving(n)
  \/ \E n \in Node : Boots(n)

LEMMA FirstHands ==
  ASSUME NEW s, IsNodeState(s), s.fromRadio # <<>>, NEW r, r = ReceivedTail(s), NEW p, p = Head(s.fromRadio)
  PROVE  Hands(s, p, r)
<1>1. Taken(s, p, r)
  BY FirstTaken
<1>2. PICK x : x = Tail(s.fromRadio)
  OBVIOUS
<1>3. s.fromRadio \in Seq(Packet) /\ Len(s.fromRadio) \in Nat /\ Len(s.fromRadio) <= MAX_RX_FROMRADIO
      /\ MAX_RX_FROMRADIO \in Nat
  BY StateFields, LenProperties, RouterAssumption
<1>4. x \in Seq(Packet) /\ Len(x) = Len(s.fromRadio) - 1 /\ \A i \in 1 .. Len(x) : x[i] = s.fromRadio[i + 1]
  BY <1>2, <1>3, HeadTailProperties
<1>5. Len(x) <= MAX_RX_FROMRADIO /\ Len(s.fromRadio) > 0
  BY <1>3, <1>4, EmptySeq, SMT
<1>6. r = [s EXCEPT !.fromRadio = x]
  BY <1>2 DEF ReceivedTail
<1>7. r.fromRadio = x
  BY <1>4, <1>5, <1>6, SetFromRadio
<1>8. p = s.fromRadio[1]
  BY <1>3, <1>5, HeadTailProperties
<1>9. ASSUME NEW q \in ToSet(s.fromRadio)
      PROVE  q \in ToSet(x) \cup {p}
  <2>1. PICK i \in 1 .. Len(s.fromRadio) : q = s.fromRadio[i]
    BY <1>3, Places
  <2>2. CASE i = 1
    BY <1>8, <2>1, <2>2
  <2>3. CASE i # 1
    <3>1. PICK j \in 1 .. Len(x) : i = j + 1
      <4>1. i - 1 \in 1 .. Len(x) /\ i = (i - 1) + 1
        BY <1>3, <1>4, <2>3, SMT
      <4>. QED
        BY <4>1
    <3>2. q = x[j]
      BY <1>4, <2>1, <3>1
    <3>. QED
      BY <1>4, <3>2, Places
  <2>. QED
    BY <2>2, <2>3
<1>. QED
  BY <1>1, <1>7, <1>9 DEF Hands

(* A packet of n's own that comes to it has an id that n gave. *)
LEMMA HeedsOwn ==
  ASSUME HeedInv, NEW n \in Node, NEW p \in ToSet(node[n].fromRadio), p.from = n
  PROVE  p.id < node[n].nextId
<1>1. CASE p.plain
  BY <1>1 DEF HeedInv, Heeds
<1>2. CASE ~ p.plain
  <2>1. PICK x \in node[n].recent : x = <<n, p.id>>
    BY <1>2 DEF HeedInv, Signs, Signed
  <2>2. x[1] = n /\ x[2] = p.id
    BY <2>1
  <2>. QED
    BY <2>2 DEF HeedInv, Heeds, Past
<1>. QED
  BY <1>1, <1>2

LEMMA HandlingTalks ==
  ASSUME BaseInv, HeedInv, NEW n \in Node, NEW over, HandleReceivedPacket(n, over)
  PROVE  Hearing(n)
<1>1. PICK s : s = node[n]
  OBVIOUS
<1>2. PICK p, r, t : p = Head(s.fromRadio) /\ r = ReceivedTail(s) /\ t = node'[n]
  OBVIOUS
<1>3. Handles(n, p, r)
  BY <1>1, <1>2, HandlingSteps
<1>4. IsNodeState(s) /\ s.fromRadio # <<>> /\ Past(n, s) /\ DOMAIN node = Node
  BY <1>1 DEF BaseInv, TypeOK, HandleReceivedPacket, HeedInv, Heeds
<1>5. Hands(s, p, r) /\ Taken(s, p, r) /\ Legible(p)
  BY <1>1, <1>2, <1>3, <1>4, FirstHands DEF Handles
<1>6. IsNodeState(r) /\ Past(n, r) /\ r.nextId = s.nextId /\ p \in ToSet(s.fromRadio)
  BY <1>4, <1>5 DEF Taken, Past
<1>7. p.from = n => p.id < r.nextId
  BY <1>1, <1>6, HeedsOwn
<1>8. t = PerhapsHandleReceived(n, r, p, over)
  <2>1. PICK u : u = PerhapsHandleReceived(n, r, p, over)
    OBVIOUS
  <2>2. Becomes(n, u)
    BY <1>1, <1>2, <2>1 DEF HandleReceivedPacket, ReceivedTail
  <2>. QED
    BY <1>2, <1>4, <2>1, <2>2, BecomesFacts
<1>9. Listens(n, r, p, t)
  BY <1>5, <1>6, <1>7, <1>8, HandlingListens
<1>. QED
  BY <1>1, <1>2, <1>3, <1>5, <1>9 DEF Hearing

LEMMA PhoneTalks ==
  ASSUME BaseInv, HeedInv, NEW m \in Messages, NEW over, PhoneSend(m, over)
  PROVE  Posting(m)
<1>1. m \in Message /\ m.from \in Node /\ m.from # m.to /\ m.id < FirstId /\ m.id \in Nat /\ FirstId \in Nat
  BY MeshAssumption DEF Message
<1>2. PICK s, t : s = node[m.from] /\ t = node'[m.from]
  OBVIOUS
<1>3. DOMAIN node = Node /\ IsNodeState(s) /\ Past(m.from, s) /\ FirstId <= s.nextId /\ s.nextId \in Nat
  BY <1>1, <1>2, StateFields DEF BaseInv, TypeOK, Sound, HeedInv, Heeds
<1>4. m.id < s.nextId
  BY <1>1, <1>3, SMT
<1>5. t = SendToMesh(m.from, s, FromPhone(m), over)
  <2>1. PICK u : u = SendToMesh(m.from, s, FromPhone(m), over)
    OBVIOUS
  <2>2. Becomes(m.from, u)
    BY <1>2, <2>1 DEF PhoneSend
  <2>. QED
    BY <1>1, <1>2, <1>3, <2>1, <2>2, BecomesFacts
<1>6. Speaks(m.from, s, t, {<<m.from, m.id>>})
  BY <1>1, <1>3, <1>4, <1>5, SubmissionSpeaks
<1>7. Submits(m)
  BY PhoneSteps
<1>. QED
  BY <1>2, <1>6, <1>7 DEF Posting

LEMMA RetryTalks ==
  ASSUME BaseInv, HeedInv, NEW n \in Node, NEW id \in DOMAIN node[n].pending, NEW over, DoRetransmission(n, id, over)
  PROVE  Retrying(n, id)
<1>1. PICK s, t : s = node[n] /\ t = node'[n]
  OBVIOUS
<1>2. /\ DOMAIN node = Node /\ IsNodeState(s) /\ id \in DOMAIN s.pending /\ Recorded(n, id, s.pending[id].packet)
      /\ Past(n, s) /\ <<n, id>> \in s.recent
  BY <1>1 DEF BaseInv, TypeOK, Sound, HeedInv, Heeds
<1>3. t = Retransmission(n, s, id, over)
  <2>1. PICK u : u = Retransmission(n, s, id, over)
    OBVIOUS
  <2>2. Becomes(n, u)
    BY <1>1, <2>1 DEF DoRetransmission
  <2>. QED
    BY <1>1, <1>2, <2>1, <2>2, BecomesFacts
<1>4. /\ Speaks(n, s, t, {<<n, id>>})
      /\ \A i \in DOMAIN s.pending : i \in DOMAIN t.pending \/ Telling(n, t, i)
  BY <1>2, <1>3, RetransmissionSpeaks
<1>5. Retries(n, id)
  BY RetrySteps
<1>. QED
  BY <1>1, <1>4, <1>5 DEF Retrying

LEMMA EchoTalks ==
  ASSUME BaseInv, HeedInv, NEW n \in Node, NEW id \in node[n].uplink, MqttReceive(n, id)
  PROVE  Echoing(n, id)
<1>1. PICK s, t : s = node[n] /\ t = node'[n]
  OBVIOUS
<1>2. DOMAIN node = Node /\ IsNodeState(s) /\ Past(n, s) /\ id \in s.uplink
  BY <1>1 DEF BaseInv, TypeOK, HeedInv, Heeds
<1>3. t = MqttEcho(n, s, id)
  <2>1. PICK u : u = MqttEcho(n, s, id)
    OBVIOUS
  <2>2. Becomes(n, u)
    BY <1>1, <2>1 DEF MqttReceive
  <2>. QED
    BY <1>1, <1>2, <2>1, <2>2, BecomesFacts
<1>4. Speaks(n, s, t, {})
  BY <1>2, <1>3, EchoSpeaks
<1>5. Hearkens(n, id)
  BY EchoSteps
<1>. QED
  BY <1>1, <1>4, <1>5 DEF Echoing

LEMMA ReachTalks ==
  ASSUME BaseInv, NEW n \in Node, CompleteSending(n)
  PROVE  Arriving(n)
<1>1. DOMAIN node = Node /\ OnAir(sending[n]) \in Packet /\ \A k \in Node : IsNodeState(node[k])
  BY OnAirLegible DEF BaseInv, TypeOK, CompleteSending
<1>2. PICK p : p = OnAir(sending[n])
  OBVIOUS
<1>3. PICK receivers \in SUBSET {r \in Hears[n] : sending[r] = NoPacket /\ Up(r)} :
         node' = [r \in Node |-> IF r \in receivers THEN EnqueueReceivedMessage(node[r], p) ELSE node[r]]
  BY <1>2 DEF CompleteSending
<1>4. ASSUME NEW k \in Node
      PROVE  node'[k] = node[k] \/ Gains(node[k].fromRadio, p, node'[k].fromRadio)
  <2>1. PICK s, t : s = node[k] /\ t = node'[k]
    OBVIOUS
  <2>2. t = s \/ t = EnqueueReceivedMessage(s, p)
    BY <1>3, <2>1
  <2>3. IsNodeState(s) /\ p \in Packet
    BY <1>1, <1>2, <2>1
  <2>4. t = EnqueueReceivedMessage(s, p) => Gains(s.fromRadio, p, t.fromRadio)
    BY <2>3, EnqueueKeeps
  <2>. QED
    BY <2>1, <2>2, <2>4
<1>5. Reaches(n)
  BY ReachSteps
<1>. QED
  BY <1>2, <1>4, <1>5 DEF Arriving

LEMMA NextTalks ==
  ASSUME BaseInv, HeedInv, Next
  PROVE  Talks
<1>1. CASE \E m \in Messages : \E over \in Over(m.from) : PhoneSend(m, over)
  BY <1>1, PhoneTalks DEF Talks
<1>2. CASE \E n \in Node : \E over \in Over(n) : HandleReceivedPacket(n, over)
  BY <1>2, HandlingTalks DEF Talks
<1>3. CASE \E n \in Node : \E id \in DOMAIN node[n].pending, over \in Over(n) : DoRetransmission(n, id, over)
  BY <1>3, RetryTalks DEF Talks
<1>4. CASE \E n \in Node : \E id \in node[n].uplink : MqttReceive(n, id)
  BY <1>4, EchoTalks DEF Talks
<1>5. CASE \E n \in Node : StartSend(n)
  BY <1>5, AirSteps DEF Talks
<1>6. CASE \E n \in Node : CompleteSending(n)
  BY <1>6, ReachTalks DEF Talks
<1>7. CASE \E n \in Node : Reboot(n)
  BY <1>7, BootSteps DEF Talks
<1>. QED
  BY <1>1, <1>2, <1>3, <1>4, <1>5, <1>6, <1>7, Zenon DEF Next

---------------------------------------------------------------------------
(* What a step puts on n's queue is n's own, or p's. *)
Lines(n, s, p, t) ==
  \A q \in ToSet(t.txQueue) :
    q \in ToSet(s.txQueue) \/ q.from = n \/ (q.from = p.from /\ q.id = p.id)

LEMMA AllowedLines ==
  ASSUME NEW n, NEW s, NEW p, NEW t, NEW b, NEW T, NEW L, Allowed(n, s, t, b, T, L),
         \A q \in L : q.from = p.from /\ q.id = p.id
  PROVE  Lines(n, s, p, t)
<1>1. Adds(s.txQueue, t.txQueue, Queued(n, b, T) \cup L)
  BY Zenon DEF Allowed
<1>. QED
  BY <1>1 DEF Adds, Queued, Own, Lines

LEMMA HandlingLines ==
  ASSUME NEW n \in Node, NEW s, IsNodeState(s), NEW p, Legible(p), NEW t, Handling(n, p, s, t)
  PROVE  Lines(n, s, p, t)
<1>0. Readable(p) /\ p \in Packet
  BY DEF Legible, Readable
<1>1. CASE t = s
  BY <1>1 DEF Lines
<1>2. CASE Repeated(n, s, p, t)
  <2>1. PICK L : L = IF Direct(p) THEN Relayed(n, p) ELSE {}
    OBVIOUS
  <2>2. \A q \in L : q.from = p.from /\ q.id = p.id
    BY <1>0, <2>1, RelayedAllSealed
  <2>3. PICK T : T = Answers(n, s.nextId, p, p.to = n /\ p.wantAck, Expected(n, s, p))
    OBVIOUS
  <2>4. Allowed(n, s, t, s.nextId, T, L)
    BY <1>2, <2>1, <2>3 DEF Repeated
  <2>. QED
    BY <2>2, <2>4, AllowedLines
<1>3. CASE Handled(n, s, p, t)
  <2>1. PICK d : d = Decoded(n, p)
    OBVIOUS
  <2>2. Readable(d) /\ d.from = p.from /\ d.id = p.id
    BY <1>0, <2>1, DecodedReadable, DecodedFacts
  <2>3. PICK L : L = Relayed(n, d)
    OBVIOUS
  <2>4. \A q \in L : q.from = p.from /\ q.id = p.id
    BY <2>2, <2>3, RelayedAllSealed
  <2>5. PICK T : T = Answers(n, s.nextId, p, Heard(n, Decoded(n, p)), Expected(n, s, p))
    OBVIOUS
  <2>6. PICK r : r = Remembers(n, s, p)
    OBVIOUS
  <2>7. Allowed(n, r, t, s.nextId, T, L)
    BY <1>3, <2>1, <2>3, <2>5, <2>6 DEF Handled
  <2>8. Lines(n, r, p, t)
    BY <2>4, <2>7, AllowedLines
  <2>9. r.txQueue = s.txQueue
    BY <1>0, <2>6, RemembersFields
  <2>. QED
    BY <2>8, <2>9 DEF Lines
<1>. QED
  BY <1>1, <1>2, <1>3 DEF Handling

LEMMA SendsLines ==
  ASSUME NEW n, NEW s, NEW q \in Packet, NEW v, IsNodeState(v), v.txQueue = s.txQueue, NEW t, NEW b, NEW T,
         Allowed(n, Marks(v, q), t, b, T, Sends(n, q))
  PROVE  Lines(n, s, q, t)
<1>1. PICK w : w = Marks(v, q)
  OBVIOUS
<1>2. PICK L : L = Sends(n, q)
  OBVIOUS
<1>3. \A e \in L : e.from = q.from /\ e.id = q.id
  BY <1>2, SendsSealed
<1>4. Allowed(n, w, t, b, T, L)
  BY <1>1, <1>2
<1>5. Lines(n, w, q, t)
  BY <1>3, <1>4, AllowedLines
<1>6. w.txQueue = s.txQueue
  BY <1>1, MarksFacts
<1>. QED
  BY <1>5, <1>6 DEF Lines

LEMMA SubmittedLines ==
  ASSUME NEW m, NEW s, IsNodeState(s), NEW t, Submitted(m, s, t)
  PROVE  Lines(m.from, s, m, t)
<1>1. PICK q, v :
        /\ q \in Packet /\ q.from = m.from /\ q.id = m.id
        /\ IF m.wantAck THEN Starts(s, q, v) ELSE v = s
        /\ Allowed(m.from, Marks(v, q), t, s.nextId, Refusing(m.from, m.id), Sends(m.from, q))
  BY Zenon DEF Submitted
<1>2. IsNodeState(v) /\ v.txQueue = s.txQueue
  BY <1>1 DEF Starts
<1>3. PICK b, T : b = s.nextId /\ T = Refusing(m.from, m.id)
  OBVIOUS
<1>4. PICK n : n = m.from
  OBVIOUS
<1>5. Allowed(n, Marks(v, q), t, b, T, Sends(n, q))
  BY <1>1, <1>3, <1>4
<1>6. Lines(n, s, q, t)
  BY <1>1, <1>2, <1>5, SendsLines
<1>. QED
  BY <1>1, <1>4, <1>6 DEF Lines

LEMMA RetriedLines ==
  ASSUME NEW n, NEW s, IsNodeState(s), NEW id, Recorded(n, id, s.pending[id].packet),
         NEW t, GaveUp(n, s, id, t) \/ SentAgain(n, s, id, t)
  PROVE  Lines(n, s, s.pending[id].packet, t)
<1>1. PICK q \in Packet : q = s.pending[id].packet
  BY DEF Recorded
<1>2. CASE GaveUp(n, s, id, t)
  <2>1. PICK b, T : b = s.nextId /\ T = {<<n, "routing", "MAX_RETRANSMIT", id>>}
    OBVIOUS
  <2>2. Allowed(n, s, t, b, T, {})
    BY <1>2, <2>1 DEF GaveUp
  <2>3. Lines(n, s, q, t)
    BY <2>2, AllowedLines
  <2>. QED
    BY <1>1, <2>3
<1>3. CASE SentAgain(n, s, id, t)
  <2>1. PICK b, T : b = s.nextId /\ T = Refusing(n, id)
    OBVIOUS
  <2>2. PICK v : Allowed(n, Marks(s, q), v, b, T, Sends(n, q)) /\ CountsDown(v, id, t)
    BY <1>1, <1>3, <2>1 DEF SentAgain
  <2>3. Lines(n, s, q, v)
    BY <2>2, SendsLines
  <2>4. t.txQueue = v.txQueue
    BY <2>2 DEF CountsDown
  <2>. QED
    BY <1>1, <2>3, <2>4 DEF Lines
<1>. QED
  BY <1>2, <1>3

(* After the step the node heeds what it is told, and what its queues gained *)
(* is signed.                                                                *)
Signing(k) ==
  /\ \A p \in ToSet(node'[k].fromRadio) : p.plain \/ p \in ToSet(node[k].fromRadio) \/ Signed(p, node)
  /\ \A q \in ToSet(node'[k].txQueue) : q \in ToSet(node[k].txQueue) \/ Signed(q, node) \/ Signed(q, node')

Heeding(k) == Heeds(k, node'[k]) /\ Signing(k)

LEMMA SpeaksSigning ==
  ASSUME NEW n \in Node, NEW r, ToSet(r.fromRadio) \subseteq ToSet(node[n].fromRadio),
         r.txQueue = node[n].txQueue, NEW X, NEW t, t = node'[n], Speaks(n, r, t, X),
         NEW p, Lines(n, r, p, t), p.from = n \/ Signed(p, node)
  PROVE  Signing(n)
<1>1. ASSUME NEW w \in ToSet(t.fromRadio)
      PROVE  w.plain \/ w \in ToSet(node[n].fromRadio)
  <2>1. CASE w \in ToSet(r.fromRadio)
    BY <2>1
  <2>2. CASE w \notin ToSet(r.fromRadio)
    <3>1. w \in Said(r, t)
      BY <2>2 DEF Said
    <3>. QED
      BY <3>1 DEF Speaks, Word
  <2>. QED
    BY <2>1, <2>2
<1>2. ASSUME NEW q \in ToSet(t.txQueue)
      PROVE  q \in ToSet(node[n].txQueue) \/ Signed(q, node) \/ Signed(q, node')
  <2>1. q \in ToSet(r.txQueue) \/ q.from # n \/ <<n, q.id>> \in t.recent
    BY DEF Speaks
  <2>2. q \in ToSet(r.txQueue) \/ q.from = n \/ (q.from = p.from /\ q.id = p.id)
    BY DEF Lines
  <2>3. CASE q \in ToSet(r.txQueue)
    BY <2>3
  <2>4. CASE q.from = n /\ <<n, q.id>> \in t.recent
    BY <2>4 DEF Signed
  <2>5. CASE q.from # n /\ q.from = p.from /\ q.id = p.id
    BY <2>5 DEF Signed
  <2>. QED
    BY <2>1, <2>2, <2>3, <2>4, <2>5
<1>. QED
  BY <1>1, <1>2 DEF Signing

LEMMA StillHeeding ==
  ASSUME HeedInv, NEW k \in Node, node'[k] = node[k]
  PROVE  Heeding(k)
  BY DEF HeedInv, Heeding, Signing

LEMMA PostingHeeds ==
  ASSUME BaseInv, HeedInv, NEW m \in Messages, Posting(m), Grows(m.from)
  PROVE  Heeding(m.from)
<1>1. /\ m.from \in Node /\ m.id < FirstId /\ m.id \in Nat /\ FirstId \in Nat
  BY MeshAssumption DEF Message
<1>2. PICK n \in Node : n = m.from
  BY <1>1
<1>3. PICK s, t : s = node[n] /\ t = node'[n]
  OBVIOUS
<1>4. IsNodeState(s) /\ FirstId <= s.nextId /\ Heeds(n, s)
  BY <1>3 DEF BaseInv, Sound, HeedInv
<1>5. PICK X : X = {<<n, m.id>>}
  OBVIOUS
<1>6. Speaks(n, s, t, X) /\ Submitted(m, s, t)
  BY <1>2, <1>3, <1>5 DEF Posting, Submits
<1>7. ToSet(s.toPhone) \subseteq ToSet(t.toPhone)
  BY <1>2, <1>3 DEF Grows
<1>8. ASSUME NEW p \in ToSet(s.fromRadio), p.plain, <<n, p.id>> \in X
      PROVE  FALSE
  <2>1. p.id = m.id /\ p.id \in Nat
    BY <1>4, <1>5, <1>8, FromRadioPackets
  <2>2. FirstId <= p.id
    BY <1>4, <1>8 DEF Heeds
  <2>. QED
    BY <1>1, <2>1, <2>2, SMT
<1>9. Heeds(n, t)
  BY <1>4, <1>6, <1>7, <1>8, HeedsAfter
<1>10. Lines(n, s, m, t)
  BY <1>2, <1>4, <1>6, SubmittedLines
<1>11. Signing(n)
  BY <1>2, <1>3, <1>6, <1>10, SpeaksSigning
<1>. QED
  BY <1>2, <1>3, <1>9, <1>11 DEF Heeding

(* The rest of the receive queue is heeded as the whole was. *)
LEMMA HeedsRest ==
  ASSUME NEW n, NEW s, Heeds(n, s), NEW r, ToSet(r.fromRadio) \subseteq ToSet(s.fromRadio),
         r.recent = s.recent, r.nextId = s.nextId, r.toPhone = s.toPhone, DOMAIN r.pending = DOMAIN s.pending
  PROVE  Heeds(n, r)
  BY DEF Heeds, Past

LEMMA HearingHeeds ==
  ASSUME BaseInv, HeedInv, NEW n \in Node, Hearing(n)
  PROVE  Heeding(n)
<1>1. PICK p, r : Handles(n, p, r) /\ Hands(node[n], p, r) /\ Listens(n, r, p, node'[n])
  BY DEF Hearing
<1>2. PICK s, t : s = node[n] /\ t = node'[n]
  OBVIOUS
<1>3. /\ IsNodeState(s) /\ FirstId <= s.nextId /\ Heeds(n, s)
      /\ \A q \in ToSet(s.fromRadio) : q.plain \/ Signed(q, node)
  BY <1>2 DEF BaseInv, Sound, HeedInv, Signs
<1>4. Taken(s, p, r) /\ Legible(p) /\ Handling(n, p, r, t) /\ Listens(n, r, p, t)
  BY <1>1, <1>2 DEF Handles
<1>5. /\ IsNodeState(r) /\ ToSet(r.fromRadio) \subseteq ToSet(s.fromRadio) /\ p \in ToSet(s.fromRadio)
      /\ r.txQueue = s.txQueue /\ r.recent = s.recent /\ r.nextId = s.nextId
      /\ r.toPhone = s.toPhone /\ DOMAIN r.pending = DOMAIN s.pending
  BY <1>4 DEF Taken
<1>6. Heeds(n, r) /\ FirstId <= r.nextId
  BY <1>3, <1>5, HeedsRest
<1>7. PICK X : X = {<<p.from, p.id>>}
  OBVIOUS
<1>8. Speaks(n, r, t, X) /\ ToSet(r.toPhone) \subseteq ToSet(t.toPhone)
  BY <1>4, <1>7 DEF Listens
<1>9. p.from = n \/ Signed(p, node)
  BY <1>3, <1>5 DEF Heeds
<1>10. ASSUME NEW w \in ToSet(r.fromRadio), w.plain, <<n, w.id>> \in X, <<n, w.id>> \in t.recent
       PROVE  <<n, w.id>> \in r.recent \/ w \in ToSet(t.toPhone)
  <2>1. p.from = n /\ p.id = w.id
    BY <1>7, <1>10
  <2>2. CASE p.plain
    <3>1. w = p /\ p.to = n
      BY <1>3, <1>5, <1>10, <2>1, <2>2 DEF Heeds
    <3>2. \/ t = r
          \/ <<p.from, p.id>> \in r.recent \/ p \in ToSet(t.toPhone)
      BY <1>4, <2>2, <3>1 DEF Listens
    <3>. QED
      BY <1>10, <2>1, <3>1, <3>2
  <2>3. CASE ~ p.plain
    <3>1. Signed(p, node)
      BY <1>3, <1>5, <2>3
    <3>. QED
      BY <1>2, <1>5, <2>1, <3>1 DEF Signed
  <2>. QED
    BY <2>2, <2>3
<1>11. Heeds(n, t)
  BY <1>5, <1>6, <1>8, <1>10, HeedsAfter
<1>12. Lines(n, r, p, t)
  BY <1>4, <1>5, HandlingLines
<1>13. Signing(n)
  BY <1>2, <1>5, <1>8, <1>9, <1>12, SpeaksSigning
<1>. QED
  BY <1>2, <1>11, <1>13 DEF Heeding

LEMMA RetryingHeeds ==
  ASSUME BaseInv, HeedInv, NEW n \in Node, NEW id \in DOMAIN node[n].pending, Retrying(n, id), Grows(n)
  PROVE  Heeding(n)
<1>1. PICK s, t : s = node[n] /\ t = node'[n]
  OBVIOUS
<1>2. IsNodeState(s) /\ FirstId <= s.nextId /\ Heeds(n, s) /\ <<n, id>> \in s.recent
      /\ Recorded(n, id, s.pending[id].packet)
  BY <1>1 DEF BaseInv, Sound, HeedInv, Heeds
<1>3. PICK X : X = {<<n, id>>}
  OBVIOUS
<1>4. Speaks(n, s, t, X) /\ (GaveUp(n, s, id, t) \/ SentAgain(n, s, id, t))
  BY <1>1, <1>3 DEF Retrying, Retries
<1>5. ToSet(s.toPhone) \subseteq ToSet(t.toPhone)
  BY <1>1 DEF Grows
<1>6. \A p \in ToSet(s.fromRadio) : <<n, p.id>> \in X => <<n, p.id>> \in s.recent
  BY <1>2, <1>3
<1>7. Heeds(n, t)
  BY <1>2, <1>4, <1>5, <1>6, HeedsAfter
<1>8. PICK p : p = s.pending[id].packet
  OBVIOUS
<1>9. Lines(n, s, p, t) /\ p.from = n
  BY <1>2, <1>4, <1>8, RetriedLines DEF Recorded
<1>10. Signing(n)
  BY <1>1, <1>4, <1>9, SpeaksSigning
<1>. QED
  BY <1>1, <1>7, <1>10 DEF Heeding

LEMMA EchoingHeeds ==
  ASSUME BaseInv, HeedInv, NEW n \in Node, NEW id, Echoing(n, id), Grows(n)
  PROVE  Heeding(n)
<1>1. PICK s, t : s = node[n] /\ t = node'[n]
  OBVIOUS
<1>2. IsNodeState(s) /\ FirstId <= s.nextId /\ Heeds(n, s)
  BY <1>1 DEF BaseInv, Sound, HeedInv
<1>3. PICK b, T : b = s.nextId /\ T = {<<n, "routing", "NONE", id>>}
  OBVIOUS
<1>4. Speaks(n, s, t, {}) /\ Allowed(n, s, t, b, T, {})
  BY <1>1, <1>3 DEF Echoing, Hearkens
<1>5. ToSet(s.toPhone) \subseteq ToSet(t.toPhone)
  BY <1>1 DEF Grows
<1>6. Heeds(n, t)
  BY <1>2, <1>4, <1>5, HeedsAfter
<1>7. PICK p : p = [from |-> n]
  OBVIOUS
<1>8. Lines(n, s, p, t) /\ p.from = n
  BY <1>4, <1>7, AllowedLines
<1>9. Signing(n)
  BY <1>1, <1>4, <1>8, SpeaksSigning
<1>. QED
  BY <1>1, <1>6, <1>9 DEF Heeding

LEMMA AirsHeeds ==
  ASSUME HeedInv, NEW n \in Node, NEW p, Airs(n, p)
  PROVE  Heeding(n)
<1>1. PICK s, t : s = node[n] /\ t = node'[n]
  OBVIOUS
<1>2. Heeds(n, s) /\ Dequeued(s, p, t)
  BY <1>1 DEF HeedInv, Airs
<1>3. /\ ToSet(t.txQueue) \subseteq ToSet(s.txQueue) /\ t.fromRadio = s.fromRadio
      /\ t.recent = s.recent /\ t.nextId = s.nextId /\ t.toPhone = s.toPhone /\ t.pending = s.pending
  BY <1>2 DEF Dequeued
<1>4. Heeds(n, t)
  BY <1>2, <1>3, HeedsRest
<1>5. Signing(n)
  BY <1>1, <1>3 DEF Signing
<1>. QED
  BY <1>1, <1>4, <1>5 DEF Heeding

LEMMA ArrivingHeeds ==
  ASSUME BaseInv, HeedInv, NEW n \in Node, Reaches(n), NEW k \in Node
  PROVE  Heeding(k)
<1>1. PICK p : p = OnAir(sending[n])
  OBVIOUS
<1>2. node'[k] = node[k] \/ Received(node[k], p, node'[k])
  BY <1>1 DEF Reaches
<1>3. CASE Received(node[k], p, node'[k])
  <2>1. sending[n] \in Sealed /\ Signed(sending[n], node)
    BY DEF Reaches, BaseInv, HeedInv
  <2>2. ~ p.plain /\ Signed(p, node)
    <3>1. sending[n] \in Packet /\ ~ sending[n].plain
      BY <2>1 DEF Sealed
    <3>2. p.from = sending[n].from /\ p.id = sending[n].id /\ p.plain = sending[n].plain
      BY <1>1, <3>1, OnAirFacts
    <3>. QED
      BY <2>1, <3>1, <3>2 DEF Signed
  <2>3. PICK s, t : s = node[k] /\ t = node'[k]
    OBVIOUS
  <2>4. /\ ToSet(t.fromRadio) \subseteq ToSet(s.fromRadio) \cup {p} /\ t.txQueue = s.txQueue
        /\ t.recent = s.recent /\ t.nextId = s.nextId /\ t.toPhone = s.toPhone /\ t.pending = s.pending
    BY <1>3, <2>3 DEF Received, Adds
  <2>5. Heeds(k, s)
    BY <2>3 DEF HeedInv
  <2>6. Heeds(k, t)
    <3>1. \A q \in ToSet(t.fromRadio) : q.plain => q \in ToSet(s.fromRadio)
      BY <2>2, <2>4
    <3>. QED
      BY <2>4, <2>5, <3>1 DEF Heeds, Past
  <2>7. Signing(k)
    BY <2>2, <2>3, <2>4 DEF Signing
  <2>. QED
    BY <2>3, <2>6, <2>7 DEF Heeding
<1>. QED
  BY <1>2, <1>3, StillHeeding

LEMMA TalksHeed ==
  ASSUME BaseInv, HeedInv, Talks, \A n \in Node : ~ Boots(n), NEW k \in Node, \A n \in Node : Grows(n)
  PROVE  Heeding(k)
<1>1. ASSUME NEW n \in Node, Only(n), Heeding(n)
      PROVE  Heeding(k)
  <2>1. CASE k = n
    BY <1>1, <2>1
  <2>2. CASE k # n
    <3>1. node'[k] = node[k]
      BY <1>1, <2>2, Untouched
    <3>. QED
      BY <3>1, StillHeeding
  <2>. QED
    BY <2>1, <2>2
<1>2. ASSUME NEW m \in Messages, Posting(m)
      PROVE  Heeding(k)
  <2>1. m.from \in Node /\ Only(m.from)
    BY <1>2, MessageFacts DEF Posting, Submits
  <2>2. Grows(m.from)
    BY <2>1
  <2>3. Heeding(m.from)
    BY <1>2, <2>2, PostingHeeds
  <2>. QED
    BY <1>1, <2>1, <2>3
<1>3. ASSUME NEW n \in Node, Hearing(n)
      PROVE  Heeding(k)
  <2>1. Only(n)
    BY <1>3 DEF Hearing, Handles
  <2>. QED
    BY <1>1, <1>3, <2>1, HearingHeeds
<1>4. ASSUME NEW n \in Node, NEW id \in DOMAIN node[n].pending, Retrying(n, id)
      PROVE  Heeding(k)
  <2>1. Only(n)
    BY <1>4 DEF Retrying, Retries
  <2>. QED
    BY <1>1, <1>4, <2>1, RetryingHeeds
<1>5. ASSUME NEW n \in Node, NEW id, Echoing(n, id)
      PROVE  Heeding(k)
  <2>1. Only(n)
    BY <1>5 DEF Echoing, Hearkens
  <2>. QED
    BY <1>1, <1>5, <2>1, EchoingHeeds
<1>6. ASSUME NEW n \in Node, NEW p, Airs(n, p)
      PROVE  Heeding(k)
  <2>1. Only(n)
    BY <1>6 DEF Airs
  <2>. QED
    BY <1>1, <1>6, <2>1, AirsHeeds
<1>7. ASSUME NEW n \in Node, Arriving(n)
      PROVE  Heeding(k)
  BY <1>7, ArrivingHeeds DEF Arriving
<1>. QED
  BY <1>2, <1>3, <1>4, <1>5, <1>6, <1>7 DEF Talks

LEMMA HeedNext ==
  ASSUME BaseInv, BaseInv', HeedInv, [Next]_vars, MaxReboots = 0, AssertionsHold
  PROVE  HeedInv'
<1>1. CASE UNCHANGED vars
  BY <1>1 DEF HeedInv, Signs, Signed, vars
<1>2. CASE Next
  <2>1. Steps /\ Talks
    BY <1>2, NextSteps, NextTalks
  <2>2. \A n \in Node : ~ Boots(n)
    BY DEF Boots, Reboot, AssertionsHold, BaseInv, TypeOK
  <2>3. \A n \in Node : Grows(n)
    BY <2>1, <2>2, StepsGrow
  <2>4. ASSUME NEW p, p.from \in Node, Signed(p, node)
        PROVE  Signed(p, node')
    BY <2>3, <2>4 DEF Grows, Signed
  <2>5. ASSUME NEW k \in Node
        PROVE  Heeds(k, node'[k]) /\ Signs(node'[k], node')
    <3>1. Heeding(k)
      BY <2>1, <2>2, <2>3, TalksHeed
    <3>2. Signs(node[k], node)
      BY DEF HeedInv
    <3>3. ASSUME NEW p \in ToSet(node'[k].fromRadio)
          PROVE  p.plain \/ Signed(p, node')
      <4>1. p.from \in Node
        <5>1. PICK t : t = node'[k]
          OBVIOUS
        <5>2. IsNodeState(t)
          BY <5>1 DEF BaseInv, TypeOK
        <5>. QED
          BY <5>1, <5>2, FromRadioPackets
      <4>2. p.plain \/ Signed(p, node)
        BY <3>1, <3>2 DEF Heeding, Signing, Signs
      <4>. QED
        BY <2>4, <4>1, <4>2
    <3>4. ASSUME NEW p \in ToSet(node'[k].txQueue)
          PROVE  Signed(p, node')
      <4>1. p.from \in Node
        <5>1. p \in Sealed
          BY DEF BaseInv, Sound
        <5>. QED
          BY <5>1 DEF Sealed, Packet
      <4>2. Signed(p, node) \/ Signed(p, node')
        BY <3>1, <3>2 DEF Heeding, Signing, Signs
      <4>. QED
        BY <2>4, <4>1, <4>2
    <3>. QED
      BY <3>1, <3>3, <3>4 DEF Heeding, Signs
  <2>6. ASSUME NEW k \in Node
        PROVE  sending'[k] = NoPacket \/ Signed(sending'[k], node')
    <3>1. sending'[k] = NoPacket \/ sending'[k].from \in Node
      BY DEF BaseInv, Sealed, Packet
    <3>2. CASE sending'[k] = sending[k]
      BY <2>4, <3>1, <3>2 DEF HeedInv
    <3>3. CASE sending'[k] \in ToSet(node[k].txQueue)
      BY <2>4, <3>1, <3>3 DEF HeedInv, Signs
    <3>. QED
      BY <2>1, <3>2, <3>3, StepsSend
  <2>. QED
    BY <2>5, <2>6 DEF HeedInv
<1>. QED
  BY <1>1, <1>2

LEMMA HeedInit ==
  ASSUME Init
  PROVE  HeedInv
<1>1. FirstId \in Nat
  BY MeshAssumption
<1>2. PICK t : t = Booted(FirstId)
  OBVIOUS
<1>3. t.recent = {} /\ DOMAIN t.pending = {} /\ ToSet(t.txQueue) = {} /\ ToSet(t.fromRadio) = {}
  BY <1>1, <1>2, BootedFacts
<1>4. \A n \in Node : node[n] = t /\ sending[n] = NoPacket
  BY <1>2 DEF Init
<1>5. \A n \in Node : Heeds(n, t)
  BY <1>3 DEF Heeds, Past
<1>6. Signs(t, node)
  BY <1>3 DEF Signs
<1>. QED
  BY <1>4, <1>5, <1>6 DEF HeedInv

LEMMA HeedAlways ==
  ASSUME MaxReboots = 0
  PROVE  Spec /\ []AssertionsHold => []HeedInv
<1>1. Init => HeedInv
  BY HeedInit
<1>2. BaseInv /\ BaseInv' /\ HeedInv /\ [Next]_vars /\ AssertionsHold => HeedInv'
  BY HeedNext
<1>. QED
  BY <1>1, <1>2, BaseAlways, PTL DEF Spec

---------------------------------------------------------------------------
(* A message that is resolved is reported on: the phone has the report, or   *)
(* the node is yet to hear of it from itself.                                *)
Reported(n, s, id) ==
  (\E d \in ToSet(s.toPhone) : d.to = n /\ d.reqId = id) \/ Telling(n, s, id)

(* What is reported stays so, and what is dropped is reported. *)
Reports(n, s, t) ==
  /\ \A i : Reported(n, s, i) => Reported(n, t, i)
  /\ \A i \in DOMAIN s.pending : i \in DOMAIN t.pending \/ Reported(n, t, i)

ReportInv == \A m \in sent : m.wantAck /\ ~ Pends(m) => Reported(m.from, node[m.from], m.id)

LEMMA ReportsKept ==
  ASSUME NEW n, NEW s, NEW t, ToSet(s.toPhone) \subseteq ToSet(t.toPhone),
         ToSet(s.fromRadio) \subseteq ToSet(t.fromRadio),
         \A i \in DOMAIN s.pending : i \in DOMAIN t.pending \/ Telling(n, t, i)
  PROVE  Reports(n, s, t)
  BY DEF Reports, Reported, Telling

LEMMA PostingReports ==
  ASSUME NEW m \in Messages, Posting(m), Grows(m.from), Roomy(node'[m.from])
  PROVE  Reports(m.from, node[m.from], node'[m.from]) /\ (m.wantAck => m.id \in DOMAIN node'[m.from].pending)
<1>1. PICK n, s, t : n = m.from /\ s = node[n] /\ t = node'[n]
  OBVIOUS
<1>2. Submitted(m, s, t) /\ Speaks(n, s, t, {<<n, m.id>>}) /\ Roomy(t) /\ ToSet(s.toPhone) \subseteq ToSet(t.toPhone)
  BY <1>1 DEF Posting, Submits, Grows
<1>3. PICK q, v : q.id = m.id /\ (IF m.wantAck THEN Starts(s, q, v) ELSE v = s) /\ t.pending = v.pending
  BY <1>2, Zenon DEF Submitted
<1>4. DOMAIN s.pending \subseteq DOMAIN t.pending /\ (m.wantAck => m.id \in DOMAIN t.pending)
  BY <1>3 DEF Starts
<1>5. ToSet(s.fromRadio) \subseteq ToSet(t.fromRadio)
  BY <1>2 DEF Speaks
<1>6. Reports(n, s, t)
  BY <1>2, <1>4, <1>5, ReportsKept
<1>. QED
  BY <1>1, <1>4, <1>6

LEMMA HearingReports ==
  ASSUME HeedInv, NEW n \in Node, Hearing(n), Roomy(node'[n]), <<n, n>> \notin Ignores
  PROVE  Reports(n, node[n], node'[n])
<1>1. PICK p, r : Handles(n, p, r) /\ Hands(node[n], p, r) /\ Listens(n, r, p, node'[n])
  BY DEF Hearing
<1>2. PICK s, t : s = node[n] /\ t = node'[n]
  OBVIOUS
<1>3. /\ Heeds(n, s) /\ Taken(s, p, r) /\ Listens(n, r, p, t) /\ Roomy(t)
      /\ ToSet(s.fromRadio) \subseteq ToSet(r.fromRadio) \cup {p}
  BY <1>1, <1>2 DEF HeedInv, Hands
<1>4. p \in ToSet(s.fromRadio) /\ r.pending = s.pending /\ r.recent = s.recent /\ r.toPhone = s.toPhone
  BY <1>3 DEF Taken
<1>5. ToSet(r.fromRadio) \subseteq ToSet(t.fromRadio)
  BY <1>3 DEF Listens, Speaks
<1>6. ToSet(s.toPhone) \subseteq ToSet(t.toPhone)
  BY <1>3, <1>4 DEF Listens
<1>7. p.plain => p \in ToSet(t.toPhone)
  <2>1. SUFFICES ASSUME p.plain
                 PROVE  p \in ToSet(t.toPhone)
    OBVIOUS
  <2>2. p.from = n /\ p.to = n /\ (<<n, p.id>> \in s.recent => p \in ToSet(s.toPhone))
    BY <1>3, <1>4, <2>1 DEF Heeds
  <2>3. <<p.from, p.id>> \in r.recent \/ p \in ToSet(t.toPhone)
    BY <1>3, <2>1, <2>2 DEF Listens
  <2>. QED
    BY <1>4, <1>6, <2>2, <2>3
<1>8. ASSUME NEW i, Telling(n, s, i)
      PROVE  Reported(n, t, i)
  <2>1. PICK q \in ToSet(s.fromRadio) : q.plain /\ q.to = n /\ q.reqId = i
    BY <1>8 DEF Telling
  <2>2. CASE q = p
    BY <1>7, <2>1, <2>2 DEF Reported
  <2>3. CASE q # p
    <3>1. q \in ToSet(t.fromRadio)
      BY <1>3, <1>5, <2>1, <2>3
    <3>. QED
      BY <2>1, <3>1 DEF Reported, Telling
  <2>. QED
    BY <2>2, <2>3
<1>9. \A i : Reported(n, s, i) => Reported(n, t, i)
  BY <1>6, <1>8 DEF Reported
<1>10. \A i \in DOMAIN s.pending : i \in DOMAIN t.pending \/ Reported(n, t, i)
  BY <1>3, <1>4 DEF Listens, Reported
<1>. QED
  BY <1>2, <1>9, <1>10 DEF Reports

LEMMA ArrivingReports ==
  ASSUME BaseInv, NEW n \in Node, Arriving(n), NEW k \in Node, Roomy(node[k])
  PROVE  Reports(k, node[k], node'[k])
<1>1. PICK s, t : s = node[k] /\ t = node'[k]
  OBVIOUS
<1>2. t.toPhone = s.toPhone /\ t.pending = s.pending
  BY <1>1 DEF Arriving, Reaches, Received
<1>3. t = s \/ Gains(s.fromRadio, OnAir(sending[n]), t.fromRadio)
  BY <1>1 DEF Arriving
<1>4. \A q \in ToSet(s.fromRadio) : q.plain => q \in ToSet(t.fromRadio)
  BY <1>1, <1>3 DEF Gains, Roomy
<1>. QED
  BY <1>1, <1>2, <1>4 DEF Reports, Reported, Telling

LEMMA TalksReport ==
  ASSUME BaseInv, HeedInv, Talks, \A n \in Node : ~ Boots(n), \A n \in Node : Grows(n),
         NEW k \in Node, Roomy(node[k]), Roomy(node'[k]), <<k, k>> \notin Ignores
  PROVE  /\ Reports(k, node[k], node'[k])
         /\ \A m \in sent' \ sent : m.from = k /\ m.wantAck => m.id \in DOMAIN node'[k].pending
<1>0. node'[k] = node[k] => Reports(k, node[k], node'[k])
  BY DEF Reports
<1>1. ASSUME NEW n \in Node, Only(n), n = k => Reports(k, node[k], node'[k])
      PROVE  Reports(k, node[k], node'[k])
  BY <1>0, <1>1, Untouched
<1>2. ASSUME NEW m \in Messages, Posting(m)
      PROVE  /\ Reports(k, node[k], node'[k])
             /\ \A l \in sent' \ sent : l.from = k /\ l.wantAck => l.id \in DOMAIN node'[k].pending
  <2>1. m.from \in Node /\ Only(m.from) /\ sent' \ sent \subseteq {m} /\ Grows(m.from)
    BY <1>2, MessageFacts DEF Posting, Submits
  <2>2. CASE m.from = k
    BY <1>2, <2>1, <2>2, PostingReports
  <2>3. CASE m.from # k
    <3>1. node'[k] = node[k]
      BY <2>1, <2>3, Untouched
    <3>. QED
      BY <1>0, <2>1, <2>3, <3>1
  <2>. QED
    BY <2>2, <2>3
<1>3. ASSUME NEW n \in Node, Hearing(n)
      PROVE  Reports(k, node[k], node'[k]) /\ sent' = sent
  <2>1. Only(n) /\ sent' = sent
    BY <1>3 DEF Hearing, Handles
  <2>2. n = k => Reports(k, node[k], node'[k])
    BY <1>3, HearingReports
  <2>. QED
    BY <1>1, <2>1, <2>2
<1>4. ASSUME NEW n \in Node, NEW t, t = node'[n], NEW X, Speaks(n, node[n], t, X), Only(n),
             \A i \in DOMAIN node[n].pending : i \in DOMAIN t.pending \/ Telling(n, t, i)
      PROVE  Reports(k, node[k], node'[k])
  <2>1. ASSUME n = k
        PROVE  Reports(k, node[k], node'[k])
    <3>1. ToSet(node[n].fromRadio) \subseteq ToSet(t.fromRadio)
      BY <1>4, <2>1 DEF Speaks
    <3>2. ToSet(node[n].toPhone) \subseteq ToSet(t.toPhone)
      BY <1>4 DEF Grows
    <3>3. Reports(n, node[n], t)
      BY <1>4, <3>1, <3>2, ReportsKept
    <3>. QED
      BY <1>4, <2>1, <3>3
  <2>. QED
    BY <1>1, <1>4, <2>1
<1>5. ASSUME NEW n \in Node, NEW id \in DOMAIN node[n].pending, Retrying(n, id)
      PROVE  Reports(k, node[k], node'[k]) /\ sent' = sent
  <2>1. Only(n) /\ sent' = sent
    BY <1>5 DEF Retrying, Retries
  <2>. QED
    BY <1>4, <1>5, <2>1 DEF Retrying
<1>6. ASSUME NEW n \in Node, NEW id, Echoing(n, id)
      PROVE  Reports(k, node[k], node'[k]) /\ sent' = sent
  <2>1. Only(n) /\ sent' = sent /\ node'[n].pending = node[n].pending
    BY <1>6 DEF Echoing, Hearkens
  <2>. QED
    BY <1>4, <1>6, <2>1 DEF Echoing
<1>7. ASSUME NEW n \in Node, NEW p, Airs(n, p)
      PROVE  Reports(k, node[k], node'[k]) /\ sent' = sent
  <2>1. Only(n) /\ sent' = sent /\ Dequeued(node[n], p, node'[n])
    BY <1>7 DEF Airs
  <2>2. Reports(n, node[n], node'[n])
    BY <2>1 DEF Dequeued, Reports, Reported, Telling
  <2>. QED
    BY <1>1, <2>1, <2>2
<1>8. ASSUME NEW n \in Node, Arriving(n)
      PROVE  Reports(k, node[k], node'[k]) /\ sent' = sent
  BY <1>8, ArrivingReports DEF Arriving, Reaches
<1>. QED
  BY <1>2, <1>3, <1>5, <1>6, <1>7, <1>8 DEF Talks

(* The receive queues have room for what the phones' nodes tell themselves. *)
AllRoomy == \A m \in Messages : Roomy(node[m.from])

LEMMA ReportNext ==
  ASSUME BaseInv, BaseInv', HeedInv, ReportInv, [Next]_vars, MaxReboots = 0, AssertionsHold, AllRoomy, AllRoomy',
         \A m \in Messages : <<m.from, m.from>> \notin Ignores
  PROVE  ReportInv'
<1>1. CASE UNCHANGED vars
  BY <1>1 DEF ReportInv, Pends, vars
<1>2. CASE Next
  <2>1. Steps /\ Talks
    BY <1>2, NextSteps, NextTalks
  <2>2. \A n \in Node : ~ Boots(n)
    BY DEF Boots, Reboot, AssertionsHold, BaseInv, TypeOK
  <2>3. \A n \in Node : Grows(n)
    BY <2>1, <2>2, StepsGrow
  <2>4. ASSUME NEW m \in sent', m.wantAck, m.id \notin DOMAIN node'[m.from].pending
        PROVE  Reported(m.from, node'[m.from], m.id)
    <3>1. m \in Messages
      BY DEF BaseInv, TypeOK
    <3>2. m \in Messages /\ m.from \in Node
      BY <3>1, MessageFacts
    <3>3. PICK k \in Node : k = m.from
      BY <3>2
    <3>4. Roomy(node[k]) /\ Roomy(node'[k]) /\ <<k, k>> \notin Ignores
      BY <3>2, <3>3 DEF AllRoomy
    <3>5. /\ Reports(k, node[k], node'[k])
          /\ \A l \in sent' \ sent : l.from = k /\ l.wantAck => l.id \in DOMAIN node'[k].pending
      BY <2>1, <2>2, <2>3, <3>4, TalksReport
    <3>6. m \in sent
      BY <2>4, <3>3, <3>5
    <3>7. CASE Pends(m)
      BY <2>4, <3>3, <3>5, <3>7 DEF Pends, Reports
    <3>8. CASE ~ Pends(m)
      <4>1. Reported(k, node[k], m.id)
        BY <2>4, <3>3, <3>6, <3>8 DEF ReportInv
      <4>. QED
        BY <3>3, <3>5, <4>1 DEF Reports
    <3>. QED
      BY <3>7, <3>8
  <2>. QED
    BY <2>4 DEF ReportInv, Pends
<1>. QED
  BY <1>1, <1>2

(* ResolvedIsReported: a reliable message loses its record only when the phone *)
(* is given an ack, an answer or a failure, or the node has told itself of one *)
(* that waits in Router::fromRadioQueue: stopRetransmission and                 *)
(* doRetransmissions of ReliableRouter drop no record silently. What a node     *)
(* tells itself (sendAckNak to its own number) it hears, for the word has a new *)
(* id and no entry in PacketHistory until it is handled. The theorem is about   *)
(* meshes where no node reboots or ignores itself, while a sender's receive     *)
(* queue is never full of packets with such a word among them: a full queue     *)
(* drops its oldest packet, and that may be the report.                         *)
THEOREM MeshResolvedIsReported ==
  ASSUME MaxReboots = 0, \A m \in Messages : <<m.from, m.from>> \notin Ignores
  PROVE  Spec /\ []AssertionsHold /\ []AllRoomy => []ResolvedIsReported
<1>1. Init => ReportInv
  BY DEF Init, ReportInv
<1>2. BaseInv /\ BaseInv' /\ HeedInv /\ ReportInv /\ [Next]_vars /\ AssertionsHold /\ AllRoomy /\ AllRoomy' => ReportInv'
  BY ReportNext
<1>3. ReportInv => ResolvedIsReported
  BY DEF ReportInv, ResolvedIsReported, Reported, Telling
<1>. QED
  BY <1>1, <1>2, <1>3, BaseAlways, HeedAlways, PTL DEF Spec

---------------------------------------------------------------------------
(* What a phone hands over goes out.  First: what came back did go out. *)

Echoed(s, m) == \E p \in ToSet(s.fromRadio) : IsOf(p, m.from, m.id)

(* A node has had a copy of m from the air, or puts one out now. *)
Abroad(m) ==
  \/ \E k \in Node : Carries(sending[k], m)
  \/ \E k \in Node \ {m.from} : Sees(node[k], m)
  \/ Echoed(node[m.from], m)

AiredInv == \A m \in Messages : Abroad(m) => aired[m.from][m] >= 1

LEMMA CarriedOnAir ==
  ASSUME BaseInv, NEW m, NEW n \in Node, Reaches(n), IsOf(OnAir(sending[n]), m.from, m.id)
  PROVE  Carries(sending[n], m)
<1>1. sending[n] # NoPacket /\ sending[n] \in Packet
  BY DEF Reaches, BaseInv, TypeOK
<1>. QED
  BY <1>1, OnAirFacts DEF IsOf, Carries

(* Another node comes to see m from the air only. *)
LEMMA SeesSteps ==
  ASSUME BaseInv, Steps, NEW m \in Messages, NEW k \in Node \ {m.from}, Sees(node'[k], m)
  PROVE  Abroad(m)
<1>1. PICK s, t : s = node[k] /\ t = node'[k]
  OBVIOUS
<1>2. IsNodeState(s) /\ Sound(k, s, sent) /\ Sees(t, m)
  BY <1>1 DEF BaseInv, Sound
<1>3. Sees(s, m) => Abroad(m)
  BY <1>1 DEF Abroad
<1>4. Owes(m, s, t) \/ t = s => Abroad(m)
  BY <1>2, <1>3 DEF Owes
<1>5. ASSUME NEW n, Only(n), k # n
      PROVE  Abroad(m)
  BY <1>1, <1>4, <1>5, Untouched
<1>6. ASSUME NEW l \in Messages, Submits(l)
      PROVE  Abroad(m)
  <2>1. CASE l.from = k
    <3>1. Submitted(l, s, t) /\ l.from # m.from
      BY <1>1, <1>6, <2>1 DEF Submits
    <3>. QED
      BY <1>2, <1>4, <3>1, SubmitsOwes
  <2>. QED
    BY <1>5, <1>6, <2>1 DEF Submits
<1>7. ASSUME NEW n \in Node, NEW p, NEW r, Handles(n, p, r)
      PROVE  Abroad(m)
  <2>1. CASE n = k
    <3>1. Taken(s, p, r) /\ Legible(p) /\ Handling(k, p, r, t)
      BY <1>1, <1>7, <2>1 DEF Handles
    <3>. QED
      BY <1>2, <1>4, <3>1, HandlingOwes
  <2>. QED
    BY <1>5, <1>7, <2>1 DEF Handles
<1>8. ASSUME NEW n \in Node, NEW id, Retries(n, id)
      PROVE  Abroad(m)
  <2>1. CASE n = k
    <3>1. id \in DOMAIN s.pending /\ (GaveUp(k, s, id, t) \/ SentAgain(k, s, id, t))
      BY <1>1, <1>8, <2>1 DEF Retries
    <3>2. Recorded(k, id, s.pending[id].packet)
      BY <1>2, <3>1 DEF Sound
    <3>. QED
      BY <1>2, <1>4, <3>1, <3>2, RetriesOwes
  <2>. QED
    BY <1>5, <1>8, <2>1 DEF Retries
<1>9. ASSUME NEW n \in Node, NEW id, Hearkens(n, id)
      PROVE  Abroad(m)
  <2>1. CASE n = k
    <3>1. Allowed(k, s, t, s.nextId, {<<k, "routing", "NONE", id>>}, {})
      BY <1>1, <1>9, <2>1 DEF Hearkens
    <3>. QED
      BY <1>2, <1>4, <3>1, HearkensOwes
  <2>. QED
    BY <1>5, <1>9, <2>1 DEF Hearkens
<1>10. ASSUME NEW n \in Node, NEW p, Airs(n, p)
       PROVE  Abroad(m)
  <2>1. CASE n = k
    <3>1. t.recent = s.recent /\ t.fromRadio = s.fromRadio
      BY <1>1, <1>10, <2>1 DEF Airs, Dequeued
    <3>. QED
      BY <1>2, <1>3, <3>1 DEF Sees
  <2>. QED
    BY <1>5, <1>10, <2>1 DEF Airs
<1>11. ASSUME NEW n \in Node, Reaches(n)
       PROVE  Abroad(m)
  <2>1. PICK p : p = OnAir(sending[n])
    OBVIOUS
  <2>2. CASE t = s
    BY <1>4, <2>2
  <2>3. CASE Received(s, p, t)
    <3>1. t.recent = s.recent /\ ToSet(t.fromRadio) \subseteq ToSet(s.fromRadio) \cup {p}
      BY <2>3 DEF Received, Adds
    <3>2. Sees(s, m) \/ IsOf(p, m.from, m.id)
      BY <1>2, <3>1 DEF Sees
    <3>3. IsOf(p, m.from, m.id) => Carries(sending[n], m)
      BY <1>11, <2>1, CarriedOnAir
    <3>. QED
      BY <1>3, <3>2, <3>3 DEF Abroad
  <2>. QED
    BY <1>1, <1>11, <2>1, <2>2, <2>3 DEF Reaches
<1>12. ASSUME NEW n \in Node, Boots(n)
       PROVE  Abroad(m)
  <2>1. CASE n = k
    <3>1. s.nextId \in Nat /\ t = Booted(s.nextId)
      BY <1>1, <1>2, <1>12, <2>1, StateFields DEF Boots
    <3>2. t.recent = {} /\ ToSet(t.fromRadio) = {}
      BY <3>1, BootedFacts
    <3>. QED
      BY <1>2, <3>2 DEF Sees
  <2>. QED
    BY <1>5, <1>12, <2>1 DEF Boots
<1>. QED
  BY <1>6, <1>7, <1>8, <1>9, <1>10, <1>11, <1>12, Zenon DEF Steps

(* Its own words have other ids. *)
LEMMA AllowedEchoes ==
  ASSUME NEW m \in Messages, NEW s, NEW t, NEW b \in Nat, FirstId <= b, NEW T, NEW L,
         Allowed(m.from, s, t, b, T, L), Echoed(t, m)
  PROVE  Echoed(s, m)
<1>1. m.id \in Nat /\ m.id < FirstId /\ FirstId \in Nat
  BY MessageFacts
<1>2. ~ (m.id >= b)
  BY <1>1, SMT
<1>3. PICK p \in ToSet(t.fromRadio) : IsOf(p, m.from, m.id)
  BY DEF Echoed
<1>4. p \in ToSet(s.fromRadio) \cup Told(m.from, b, T)
  BY <1>3 DEF Allowed, Adds
<1>5. p \notin Told(m.from, b, T)
  BY <1>2, <1>3 DEF Told, Own, IsOf
<1>. QED
  BY <1>3, <1>4, <1>5 DEF Echoed

LEMMA EchoedSubmits ==
  ASSUME NEW m \in Messages, NEW l, l.from = m.from, NEW s, IsNodeState(s), FirstId <= s.nextId,
         NEW t, Submitted(l, s, t), Echoed(t, m)
  PROVE  Echoed(s, m)
<1>1. PICK q, v :
        /\ q \in Packet
        /\ IF l.wantAck THEN Starts(s, q, v) ELSE v = s
        /\ Allowed(l.from, Marks(v, q), t, s.nextId, Refusing(l.from, l.id), Sends(l.from, q))
  BY Zenon DEF Submitted
<1>2. IsNodeState(v) /\ v.fromRadio = s.fromRadio
  BY <1>1 DEF Starts
<1>3. PICK w, T, L : w = Marks(v, q) /\ T = Refusing(l.from, l.id) /\ L = Sends(l.from, q)
  OBVIOUS
<1>4. w.fromRadio = v.fromRadio
  BY <1>1, <1>2, <1>3, MarksFacts
<1>5. PICK b \in Nat : b = s.nextId
  BY StateFields
<1>6. Allowed(m.from, w, t, b, T, L) /\ FirstId <= b
  BY <1>1, <1>3, <1>5
<1>7. Echoed(w, m)
  BY <1>6, AllowedEchoes
<1>. QED
  BY <1>2, <1>4, <1>7 DEF Echoed

LEMMA EchoedHandling ==
  ASSUME NEW m \in Messages, NEW r, IsNodeState(r), FirstId <= r.nextId, NEW p, Legible(p),
         NEW t, Handling(m.from, p, r, t), Echoed(t, m)
  PROVE  Echoed(r, m)
<1>1. PICK b \in Nat : b = r.nextId
  BY StateFields
<1>2. PICK n : n = m.from
  OBVIOUS
<1>3. CASE t = r
  BY <1>3
<1>4. CASE Repeated(n, r, p, t)
  <2>1. PICK T, L : T = Answers(n, r.nextId, p, p.to = n /\ p.wantAck, Expected(n, r, p))
                    /\ L = IF Direct(p) THEN Relayed(n, p) ELSE {}
    OBVIOUS
  <2>2. Allowed(n, r, t, b, T, L)
    BY <1>1, <1>4, <2>1 DEF Repeated
  <2>. QED
    BY <1>1, <1>2, <2>2, AllowedEchoes
<1>5. CASE Handled(n, r, p, t)
  <2>1. PICK T, L : T = Answers(n, r.nextId, p, Heard(n, Decoded(n, p)), Expected(n, r, p))
                    /\ L = Relayed(n, Decoded(n, p))
    OBVIOUS
  <2>2. PICK w : w = Remembers(n, r, p)
    OBVIOUS
  <2>3. Allowed(n, w, t, b, T, L)
    BY <1>1, <1>5, <2>1, <2>2 DEF Handled
  <2>4. Echoed(w, m)
    BY <1>1, <1>2, <2>3, AllowedEchoes
  <2>5. w.fromRadio = r.fromRadio
    <3>1. p \in Packet
      BY DEF Legible, Readable
    <3>. QED
      BY <2>2, <3>1, RemembersFields
  <2>. QED
    BY <2>4, <2>5 DEF Echoed
<1>. QED
  BY <1>2, <1>3, <1>4, <1>5 DEF Handling

LEMMA EchoedRetries ==
  ASSUME NEW m \in Messages, NEW s, IsNodeState(s), FirstId <= s.nextId,
         NEW id, Recorded(m.from, id, s.pending[id].packet),
         NEW t, GaveUp(m.from, s, id, t) \/ SentAgain(m.from, s, id, t), Echoed(t, m)
  PROVE  Echoed(s, m)
<1>1. PICK b \in Nat : b = s.nextId
  BY StateFields
<1>2. PICK n : n = m.from
  OBVIOUS
<1>3. CASE GaveUp(n, s, id, t)
  <2>1. PICK T : T = {<<n, "routing", "MAX_RETRANSMIT", id>>}
    OBVIOUS
  <2>2. Allowed(n, s, t, b, T, {})
    BY <1>1, <1>3, <2>1 DEF GaveUp
  <2>. QED
    BY <1>1, <1>2, <2>2, AllowedEchoes
<1>4. CASE SentAgain(n, s, id, t)
  <2>1. PICK p \in Packet : p = s.pending[id].packet
    BY DEF Recorded
  <2>2. PICK w, T, L : w = Marks(s, p) /\ T = Refusing(n, id) /\ L = Sends(n, p)
    OBVIOUS
  <2>3. PICK v : Allowed(n, w, v, b, T, L) /\ CountsDown(v, id, t)
    BY <1>1, <1>4, <2>1, <2>2 DEF SentAgain
  <2>4. t.fromRadio = v.fromRadio
    BY <2>3 DEF CountsDown
  <2>5. Echoed(v, m)
    BY <2>4 DEF Echoed
  <2>6. Echoed(w, m)
    BY <1>1, <1>2, <2>3, <2>5, AllowedEchoes
  <2>7. w.fromRadio = s.fromRadio
    BY <2>1, <2>2, MarksFacts
  <2>. QED
    BY <2>6, <2>7 DEF Echoed
<1>. QED
  BY <1>2, <1>3, <1>4

(* A node's own message comes back to it from the air only. *)
LEMMA EchoedSteps ==
  ASSUME BaseInv, Steps, NEW m \in Messages, Echoed(node'[m.from], m)
  PROVE  Abroad(m)
<1>0. PICK k \in Node : k = m.from
  BY MessageFacts
<1>1. PICK s, t : s = node[k] /\ t = node'[k]
  OBVIOUS
<1>2. IsNodeState(s) /\ Sound(k, s, sent) /\ FirstId <= s.nextId /\ Echoed(t, m)
  BY <1>0, <1>1 DEF BaseInv, Sound
<1>3. Echoed(s, m) \/ t = s => Abroad(m)
  BY <1>0, <1>1, <1>2 DEF Abroad
<1>4. ASSUME NEW n, Only(n), k # n
      PROVE  Abroad(m)
  BY <1>1, <1>3, <1>4, Untouched
<1>5. ASSUME NEW l \in Messages, Submits(l)
      PROVE  Abroad(m)
  <2>1. CASE l.from = k
    <3>1. Submitted(l, s, t)
      BY <1>1, <1>5, <2>1 DEF Submits
    <3>. QED
      BY <1>0, <1>2, <1>3, <2>1, <3>1, EchoedSubmits
  <2>. QED
    BY <1>4, <1>5, <2>1 DEF Submits
<1>6. ASSUME NEW n \in Node, NEW p, NEW r, Handles(n, p, r)
      PROVE  Abroad(m)
  <2>1. CASE n = k
    <3>1. Taken(s, p, r) /\ Legible(p) /\ Handling(k, p, r, t)
      BY <1>1, <1>6, <2>1 DEF Handles
    <3>2. IsNodeState(r) /\ r.nextId = s.nextId /\ ToSet(r.fromRadio) \subseteq ToSet(s.fromRadio)
      BY <3>1 DEF Taken
    <3>3. FirstId <= r.nextId
      BY <1>2, <3>2
    <3>4. Echoed(r, m)
      BY <1>0, <1>2, <3>1, <3>2, <3>3, EchoedHandling
    <3>. QED
      BY <1>3, <3>2, <3>4 DEF Echoed
  <2>. QED
    BY <1>4, <1>6, <2>1 DEF Handles
<1>7. ASSUME NEW n \in Node, NEW id, Retries(n, id)
      PROVE  Abroad(m)
  <2>1. CASE n = k
    <3>1. id \in DOMAIN s.pending /\ (GaveUp(k, s, id, t) \/ SentAgain(k, s, id, t))
      BY <1>1, <1>7, <2>1 DEF Retries
    <3>2. Recorded(k, id, s.pending[id].packet)
      BY <1>2, <3>1 DEF Sound
    <3>. QED
      BY <1>0, <1>2, <1>3, <3>1, <3>2, EchoedRetries
  <2>. QED
    BY <1>4, <1>7, <2>1 DEF Retries
<1>8. ASSUME NEW n \in Node, NEW id, Hearkens(n, id)
      PROVE  Abroad(m)
  <2>1. CASE n = k
    <3>1. PICK b \in Nat : b = s.nextId
      BY <1>2, StateFields
    <3>2. PICK T : T = {<<k, "routing", "NONE", id>>}
      OBVIOUS
    <3>3. Allowed(k, s, t, b, T, {})
      BY <1>1, <1>8, <2>1, <3>1, <3>2 DEF Hearkens
    <3>. QED
      BY <1>0, <1>2, <1>3, <3>1, <3>3, AllowedEchoes
  <2>. QED
    BY <1>4, <1>8, <2>1 DEF Hearkens
<1>9. ASSUME NEW n \in Node, NEW p, Airs(n, p)
      PROVE  Abroad(m)
  <2>1. CASE n = k
    <3>1. t.fromRadio = s.fromRadio
      BY <1>1, <1>9, <2>1 DEF Airs, Dequeued
    <3>. QED
      BY <1>2, <1>3, <3>1 DEF Echoed
  <2>. QED
    BY <1>4, <1>9, <2>1 DEF Airs
<1>10. ASSUME NEW n \in Node, Reaches(n)
       PROVE  Abroad(m)
  <2>1. PICK p : p = OnAir(sending[n])
    OBVIOUS
  <2>2. CASE t = s
    BY <1>3, <2>2
  <2>3. CASE Received(s, p, t)
    <3>1. ToSet(t.fromRadio) \subseteq ToSet(s.fromRadio) \cup {p}
      BY <2>3 DEF Received, Adds
    <3>2. Echoed(s, m) \/ IsOf(p, m.from, m.id)
      BY <1>2, <3>1 DEF Echoed
    <3>3. IsOf(p, m.from, m.id) => Carries(sending[n], m)
      BY <1>10, <2>1, CarriedOnAir
    <3>. QED
      BY <1>3, <3>2, <3>3 DEF Abroad
  <2>. QED
    BY <1>1, <1>10, <2>1, <2>2, <2>3 DEF Reaches
<1>11. ASSUME NEW n \in Node, Boots(n)
       PROVE  Abroad(m)
  <2>1. CASE n = k
    <3>1. s.nextId \in Nat /\ t = Booted(s.nextId)
      BY <1>1, <1>2, <1>11, <2>1, StateFields DEF Boots
    <3>2. ToSet(t.fromRadio) = {}
      BY <3>1, BootedFacts
    <3>. QED
      BY <1>2, <3>2 DEF Echoed
  <2>. QED
    BY <1>4, <1>11, <2>1 DEF Boots
<1>. QED
  BY <1>5, <1>6, <1>7, <1>8, <1>9, <1>10, <1>11, Zenon DEF Steps

LEMMA AiredSteps ==
  ASSUME BaseInv, TraceInv, Steps, NEW m \in Messages
  PROVE  /\ aired[m.from][m] \in Nat /\ aired'[m.from][m] \in Nat /\ aired[m.from][m] <= aired'[m.from][m]
         /\ \A k \in Node : Carries(sending'[k], m) => Abroad(m) \/ aired'[m.from][m] >= 1
<1>1. PICK a \in Nat : a = aired[m.from][m]
  BY MessageFacts DEF BaseInv, TypeOK
<1>2. a <= a
  BY <1>1
<1>3. ASSUME aired' = aired, \A k \in Node : sending'[k] = sending[k] \/ sending'[k] = NoPacket
      PROVE  /\ aired'[m.from][m] = a
             /\ \A k \in Node : Carries(sending'[k], m) => Abroad(m)
  BY <1>1, <1>3 DEF Carries, Abroad
<1>4. sending' = sending => \A k \in Node : sending'[k] = sending[k] \/ sending'[k] = NoPacket
  OBVIOUS
<1>5. \A n \in Node : sending' = [sending EXCEPT ![n] = NoPacket] =>
        \A k \in Node : sending'[k] = sending[k] \/ sending'[k] = NoPacket
  BY DEF BaseInv, TypeOK
<1>6. ASSUME NEW n \in Node, NEW p, Airs(n, p)
      PROVE  /\ aired'[m.from][m] \in Nat /\ a <= aired'[m.from][m]
             /\ \A k \in Node : Carries(sending'[k], m) => Abroad(m) \/ aired'[m.from][m] >= 1
  <2>1. m.from \in Node /\ DOMAIN sending = Node /\ DOMAIN aired = Node
    BY MessageFacts DEF BaseInv, TypeOK
  <2>2. sending'[n] = p /\ \A k \in Node : k # n => sending'[k] = sending[k]
    BY <1>6, <2>1 DEF Airs
  <2>3. aired'[m.from][m] = a + (IF n = m.from /\ IsOf(p, m.from, m.id) THEN 1 ELSE 0)
    <3>1. CASE n = m.from
      BY <1>1, <1>6, <2>1, <3>1 DEF Airs, IsOf
    <3>2. CASE n # m.from
      BY <1>1, <1>6, <2>1, <3>2 DEF Airs
    <3>. QED
      BY <3>1, <3>2
  <2>4. PICK c : c = aired'[m.from][m]
    OBVIOUS
  <2>5. c \in Nat /\ a <= c /\ (n = m.from /\ IsOf(p, m.from, m.id) => c >= 1)
    BY <2>3, <2>4
  <2>6. ASSUME n # m.from, IsOf(p, m.from, m.id)
        PROVE  Abroad(m)
    <3>1. p \in ToSet(node[n].txQueue)
      BY <1>6 DEF Airs, Dequeued
    <3>2. Outbound(n, node[n].recent, p, sent)
      BY <3>1 DEF TraceInv, Trace
    <3>3. <<m.from, m.id>> \in node[n].recent
      BY <2>6, <3>2 DEF Outbound, IsOf
    <3>. QED
      BY <2>6, <3>3 DEF Sees, Abroad
  <2>7. ASSUME NEW k \in Node, Carries(sending'[k], m)
        PROVE  Abroad(m) \/ c >= 1
    <3>1. CASE k = n
      <4>1. IsOf(p, m.from, m.id)
        BY <2>2, <2>7, <3>1 DEF Carries
      <4>. QED
        BY <2>5, <2>6, <4>1
    <3>2. CASE k # n
      BY <2>2, <2>7, <3>2 DEF Abroad
    <3>. QED
      BY <3>1, <3>2
  <2>. QED
    BY <2>4, <2>5, <2>7
<1>7. \/ aired' = aired /\ \A k \in Node : sending'[k] = sending[k] \/ sending'[k] = NoPacket
      \/ \E n \in Node : \E p : Airs(n, p)
  BY <1>4, <1>5 DEF Steps, Submits, Handles, Retries, Hearkens, Reaches, Boots, Reboot
<1>. QED
  BY <1>1, <1>2, <1>3, <1>6, <1>7

LEMMA AiredNext ==
  ASSUME BaseInv, TraceInv, AiredInv, [Next]_vars
  PROVE  AiredInv'
<1>1. CASE UNCHANGED vars
  BY <1>1 DEF AiredInv, Abroad, vars
<1>2. CASE Next
  <2>1. Steps
    BY <1>2, NextSteps
  <2>2. ASSUME NEW m \in Messages, Abroad(m)'
        PROVE  aired'[m.from][m] >= 1
    <3>1. PICK a, c \in Nat : a = aired[m.from][m] /\ c = aired'[m.from][m] /\ a <= c
      BY <2>1, AiredSteps
    <3>2. Abroad(m) \/ c >= 1
      <4>1. \A k \in Node : Carries(sending'[k], m) => Abroad(m) \/ c >= 1
        BY <2>1, <3>1, AiredSteps
      <4>2. \A k \in Node \ {m.from} : Sees(node'[k], m) => Abroad(m)
        BY <2>1, SeesSteps
      <4>3. Echoed(node'[m.from], m) => Abroad(m)
        BY <2>1, EchoedSteps
      <4>4. \/ \E k \in Node : Carries(sending'[k], m)
            \/ \E k \in Node \ {m.from} : Sees(node'[k], m)
            \/ Echoed(node'[m.from], m)
        BY <2>2 DEF Abroad
      <4>. QED
        BY <4>1, <4>2, <4>3, <4>4
    <3>3. Abroad(m) => a >= 1
      BY <3>1 DEF AiredInv
    <3>. QED
      BY <3>1, <3>2, <3>3
  <2>. QED
    BY <2>2 DEF AiredInv
<1>. QED
  BY <1>1, <1>2

LEMMA AiredInit ==
  ASSUME Init
  PROVE  AiredInv
<1>1. FirstId \in Nat
  BY MeshAssumption
<1>2. PICK t : t = Booted(FirstId)
  OBVIOUS
<1>3. t.recent = {} /\ ToSet(t.fromRadio) = {}
  BY <1>1, <1>2, BootedFacts
<1>4. \A k \in Node : node[k] = t /\ sending[k] = NoPacket
  BY <1>2 DEF Init
<1>5. ASSUME NEW m \in Messages
      PROVE  ~ Abroad(m)
  <2>1. m.from \in Node
    BY MessageFacts
  <2>. QED
    BY <1>3, <1>4, <2>1 DEF Abroad, Carries, Sees, Echoed
<1>. QED
  BY <1>5 DEF AiredInv

---------------------------------------------------------------------------
(* The transmissions of m: all that its record does not still allow have      *)
(* gone out, a of them, or wait; and one has of a message without a record.   *)
Honoured(m, s, a) ==
  IF m.id \in DOMAIN s.pending
  THEN /\ Sendable(m.from, s.pending[m.id].packet)
       /\ s.pending[m.id].left < NUM_RETRANSMISSIONS
       /\ NUM_RETRANSMISSIONS <= a + Number(s, m.from, m.id) + s.pending[m.id].left
  ELSE 1 <= a + Number(s, m.from, m.id)

LEMMA HonouredOne ==
  ASSUME NEW m, NEW s, IsNodeState(s), NEW a \in Nat, Honoured(m, s, a)
  PROVE  1 <= a + Number(s, m.from, m.id)
<1>1. PICK c \in Nat : c = Number(s, m.from, m.id)
  BY NumberType
<1>2. CASE m.id \in DOMAIN s.pending
  <2>1. PICK l \in Nat : l = s.pending[m.id].left
    BY <1>2, StateFields DEF Pending
  <2>2. l < NUM_RETRANSMISSIONS /\ NUM_RETRANSMISSIONS <= a + c + l /\ NUM_RETRANSMISSIONS \in Nat
    BY <1>1, <1>2, <2>1, RouterAssumption DEF Honoured
  <2>3. 1 <= a + c
    BY <2>2, SMT
  <2>. QED
    BY <1>1, <2>3
<1>3. CASE m.id \notin DOMAIN s.pending
  BY <1>3 DEF Honoured
<1>. QED
  BY <1>2, <1>3

LEMMA HonouredSpared ==
  ASSUME NEW m, NEW s, IsNodeState(s), NEW t, IsNodeState(t), Spares(m.from, m.id, s, t),
         NEW a \in Nat, Honoured(m, s, a)
  PROVE  Honoured(m, t, a)
<1>1. PICK c, d \in Nat : c = Number(s, m.from, m.id) /\ d = Number(t, m.from, m.id)
  BY NumberType
<1>2. PICK N \in Nat : N = NUM_RETRANSMISSIONS
  BY RouterAssumption
<1>3. CASE m.id \in DOMAIN s.pending
  <2>1. PICK l \in Nat : l = s.pending[m.id].left
    BY <1>3, StateFields DEF Pending
  <2>2. Sendable(m.from, s.pending[m.id].packet) /\ l < N /\ N <= a + c + l
    BY <1>1, <1>2, <1>3, <2>1 DEF Honoured
  <2>3. CASE m.id \in DOMAIN t.pending /\ t.pending[m.id] = s.pending[m.id] /\ c <= d
    <3>1. N <= a + d + l
      BY <2>2, <2>3, SMT
    <3>. QED
      BY <1>1, <1>2, <2>1, <2>2, <2>3, <3>1 DEF Honoured
  <2>4. CASE m.id \notin DOMAIN t.pending /\ c <= d + (IF l < N - 1 THEN 1 ELSE 0)
    <3>1. 1 <= a + d
      BY <2>2, <2>4, SMT
    <3>. QED
      BY <1>1, <2>4, <3>1 DEF Honoured
  <2>. QED
    BY <1>1, <1>2, <1>3, <2>1, <2>3, <2>4 DEF Spares
<1>4. CASE m.id \notin DOMAIN s.pending
  <2>1. m.id \notin DOMAIN t.pending /\ c <= d /\ 1 <= a + c
    BY <1>1, <1>4 DEF Spares, Honoured
  <2>2. 1 <= a + d
    BY <2>1, SMT
  <2>. QED
    BY <1>1, <2>1, <2>2 DEF Honoured
<1>. QED
  BY <1>3, <1>4

(* What comes back did go out. *)
LEMMA HonouredAlready ==
  ASSUME NEW m, NEW t, IsNodeState(t), m.id \notin DOMAIN t.pending, NEW a \in Nat, a >= 1
  PROVE  Honoured(m, t, a)
<1>1. PICK d \in Nat : d = Number(t, m.from, m.id)
  BY NumberType
<1>2. 1 <= a + d
  BY SMT
<1>. QED
  BY <1>1, <1>2 DEF Honoured

LEMMA SendableSame ==
  ASSUME NEW n, NEW p, NEW q, Sendable(n, p), q.from = p.from, q.to = p.to, q.plain = p.plain,
         q.crypt = p.crypt, q.port = p.port
  PROVE  Sendable(n, q)
<1>1. UsesPKI(n, q) <=> UsesPKI(n, p)
  BY DEF UsesPKI
<1>. QED
  BY <1>1 DEF Sendable, EncodeError

LEMMA HonouredSent ==
  ASSUME NEW m \in Messages, Sendable(m.from, FromPhone(m)), NEW s, m.id \notin DOMAIN s.pending,
         NEW t, IsNodeState(t), Submitted(m, s, t), Number(t, m.from, m.id) >= 1, NEW a \in Nat
  PROVE  Honoured(m, t, a)
<1>1. PICK q, v :
        /\ q \in Packet /\ q.from = m.from /\ q.to = m.to /\ q.id = m.id /\ q.plain
        /\ q.crypt = m.crypt /\ q.port = m.port
        /\ IF m.wantAck THEN Starts(s, q, v) ELSE v = s
        /\ t.pending = v.pending
  BY Zenon DEF Submitted
<1>2. PICK d \in Nat : d = Number(t, m.from, m.id) /\ d >= 1
  BY NumberType
<1>3. CASE m.wantAck
  <2>1. m.id \in DOMAIN t.pending /\ t.pending[m.id] = [packet |-> q, left |-> NUM_RETRANSMISSIONS - 1]
    BY <1>1, <1>3 DEF Starts
  <2>2. Sendable(m.from, q)
    <3>1. PICK p : p = FromPhone(m)
      OBVIOUS
    <3>2. /\ p.from = m.from /\ p.to = m.to /\ p.plain = TRUE /\ p.crypt = m.crypt /\ p.port = m.port
      BY <3>1 DEF FromPhone
    <3>3. q.plain = p.plain
      BY <1>1, <3>2 DEF Packet
    <3>. QED
      BY <1>1, <3>1, <3>2, <3>3, SendableSame
  <2>3. PICK N \in Nat : N = NUM_RETRANSMISSIONS /\ N >= 1
    BY RouterAssumption, SMT
  <2>4. N - 1 < N /\ N <= a + d + (N - 1)
    BY <1>2, <2>3, SMT
  <2>. QED
    BY <1>2, <2>1, <2>2, <2>3, <2>4 DEF Honoured
<1>4. CASE ~ m.wantAck
  <2>1. m.id \notin DOMAIN t.pending
    BY <1>1, <1>4
  <2>2. 1 <= a + d
    BY <1>2, SMT
  <2>. QED
    BY <1>2, <2>1, <2>2 DEF Honoured
<1>. QED
  BY <1>3, <1>4

LEMMA HonouredAgain ==
  ASSUME NEW m, NEW s, IsNodeState(s), NEW t, IsNodeState(t),
         m.id \in DOMAIN s.pending, s.pending[m.id].left # 0, m.id \in DOMAIN t.pending,
         t.pending[m.id].packet = s.pending[m.id].packet, t.pending[m.id].left = s.pending[m.id].left - 1,
         Number(s, m.from, m.id) + 1 <= Number(t, m.from, m.id), NEW a \in Nat, Honoured(m, s, a)
  PROVE  Honoured(m, t, a)
<1>1. PICK c, d \in Nat : c = Number(s, m.from, m.id) /\ d = Number(t, m.from, m.id) /\ c + 1 <= d
  BY NumberType
<1>2. PICK N \in Nat : N = NUM_RETRANSMISSIONS
  BY RouterAssumption
<1>3. PICK l \in Nat : l = s.pending[m.id].left /\ l # 0
  BY StateFields DEF Pending
<1>4. Sendable(m.from, s.pending[m.id].packet) /\ l < N /\ N <= a + c + l
  BY <1>1, <1>2, <1>3 DEF Honoured
<1>5. l - 1 < N /\ N <= a + d + (l - 1)
  BY <1>1, <1>3, <1>4, SMT
<1>6. t.pending[m.id].packet = s.pending[m.id].packet /\ t.pending[m.id].left = l - 1
  BY <1>3
<1>. QED
  BY <1>1, <1>2, <1>4, <1>5, <1>6 DEF Honoured

(* The first packet of the queue goes out. *)
LEMMA HonouredAired ==
  ASSUME NEW m, NEW s, IsNodeState(s), s.txQueue # <<>>, NEW t, t = QueuedTail(s), NEW p, p = Head(s.txQueue),
         NEW a \in Nat, Honoured(m, s, a)
  PROVE  Honoured(m, t, a + (IF IsOf(p, m.from, m.id) THEN 1 ELSE 0))
<1>1. Dequeued(s, p, t)
  BY FirstDequeued
<1>2. IsNodeState(t) /\ t.pending = s.pending
  BY <1>1 DEF Dequeued
<1>3. PICK x \in {0, 1} : x = IF IsOf(p, m.from, m.id) THEN 1 ELSE 0
  OBVIOUS
<1>4. PICK c, d \in Nat : c = Number(s, m.from, m.id) /\ d = Number(t, m.from, m.id)
  BY <1>2, NumberType
<1>5. c <= d + x
  <2>1. s.txQueue \in Seq(Packet)
    BY StateFields
  <2>2. PICK q, r : q = s.txQueue /\ r = Tail(q)
    OBVIOUS
  <2>3. t.txQueue = r
    <3>1. t = [s EXCEPT !.txQueue = r]
      BY <2>2 DEF QueuedTail
    <3>. QED
      BY <3>1 DEF IsNodeState
  <2>4. Held(q, m.from, m.id) <= Held(r, m.from, m.id) + (IF p.from = m.from /\ p.id = m.id THEN 1 ELSE 0)
    BY <2>1, <2>2, TailLeaves
  <2>. QED
    BY <1>3, <1>4, <2>2, <2>3, <2>4 DEF Held, Number, IsOf
<1>6. CASE m.id \in DOMAIN s.pending
  <2>1. PICK l, N \in Nat : l = s.pending[m.id].left /\ N = NUM_RETRANSMISSIONS
    BY <1>6, StateFields, RouterAssumption DEF Pending
  <2>2. Sendable(m.from, s.pending[m.id].packet) /\ l < N /\ N <= a + c + l
    BY <1>4, <1>6, <2>1 DEF Honoured
  <2>3. N <= a + x + d + l
    BY <1>3, <1>5, <2>2, SMT
  <2>. QED
    BY <1>2, <1>3, <1>4, <1>6, <2>1, <2>2, <2>3 DEF Honoured
<1>7. CASE m.id \notin DOMAIN s.pending
  <2>1. 1 <= a + c
    BY <1>4, <1>7 DEF Honoured
  <2>2. 1 <= a + x + d
    BY <1>3, <1>5, <2>1, SMT
  <2>. QED
    BY <1>2, <1>3, <1>4, <1>7, <2>2 DEF Honoured
<1>. QED
  BY <1>6, <1>7

LEMMA HonouredUnmoved ==
  ASSUME NEW m, NEW s, IsNodeState(s), NEW t, IsNodeState(t), Unmoved(s, t), NEW a \in Nat, Honoured(m, s, a)
  PROVE  Honoured(m, t, a)
<1>1. Ready(s)
  BY StateReady
<1>2. Spares(m.from, m.id, s, t)
  BY <1>1, UnmovedLeaves DEF Leaves
<1>. QED
  BY <1>2, HonouredSpared

LEMMA HonouredGoes ==
  ASSUME NEW m, NEW s, IsNodeState(s), NEW t, IsNodeState(t), Goes(m.from, m.id, s, t), Room(s), Room(t),
         NEW a \in Nat, Honoured(m, s, a)
  PROVE  Honoured(m, t, a)
  BY HonouredSpared DEF Goes

SentInv ==
  reboots = 0 =>
    \A m \in sent : m.from \notin DutyLimited => Honoured(m, node[m.from], aired[m.from][m])

(* What a step of m's node must leave as it is. *)
Honours(m) ==
  LET a == aired[m.from][m]
      c == aired'[m.from][m]
  IN Honoured(m, node[m.from], a) => Honoured(m, node'[m.from], c)

LEMMA StatesOf ==
  ASSUME BaseInv, BaseInv', NEW n \in Node
  PROVE  /\ DOMAIN node = Node /\ IsNodeState(node[n]) /\ Ready(node[n]) /\ IsNodeState(node'[n])
         /\ \A m \in Messages : aired[n][m] \in Nat
<1>1. DOMAIN node = Node /\ IsNodeState(node[n]) /\ IsNodeState(node'[n])
  BY DEF BaseInv, TypeOK, Sound
<1>2. Ready(node[n])
  BY <1>1, StateReady
<1>. QED
  BY <1>1, <1>2 DEF BaseInv, TypeOK

LEMMA PhoneHonours ==
  ASSUME BaseInv, BaseInv', NEW l \in Messages, NEW over \in Over(l.from), PhoneSend(l, over),
         NEW m \in Messages, m.from \notin DutyLimited, Sendable(m.from, FromPhone(m)),
         Room(node[m.from]), Room(node'[m.from])
  PROVE  IF m = l THEN Honoured(m, node'[m.from], aired'[m.from][m]) ELSE Honours(m)
<1>0. PICK n \in Node : n = m.from
  BY MessageFacts
<1>1. PICK s, t, p : s = node[n] /\ t = node'[n] /\ p = FromPhone(l)
  OBVIOUS
<1>2. DOMAIN node = Node /\ IsNodeState(s) /\ Ready(s) /\ IsNodeState(t) /\ Room(s) /\ Room(t)
  BY <1>0, <1>1, StatesOf
<1>3. PICK a \in Nat : a = aired[n][m] /\ a = aired'[n][m]
  BY <1>0, StatesOf DEF PhoneSend
<1>4. l \in Message /\ l.from \in Node
  BY MessageFacts
<1>5. p \in Packet /\ p.from = l.from /\ p.id = l.id
  BY <1>1, <1>4, FromPhoneFacts
<1>6. PICK u : u = SendToMesh(l.from, node[l.from], p, over)
  OBVIOUS
<1>7. node'[l.from] = u /\ Only(l.from)
  <2>1. Becomes(l.from, u)
    BY <1>1, <1>6 DEF PhoneSend
  <2>. QED
    BY <1>2, <1>4, <2>1, BecomesFacts
<1>8. CASE m = l
  <2>1. n = l.from /\ t = SendToMesh(n, s, p, over) /\ p.from = n /\ Sendable(n, p) /\ p.id = m.id
    BY <1>0, <1>1, <1>5, <1>6, <1>7, <1>8
  <2>2. over = FALSE
    BY <1>0, <2>1 DEF Over
  <2>w. PICK w : w = HandleOwn(n, s, p)
    OBVIOUS
  <2>3. t = SendLocal(n, w, p, FALSE) /\ IsNodeState(w) /\ Ready(w)
    <3>1. t = SendLocal(n, w, p, FALSE)
      BY <2>1, <2>2, <2>w DEF SendToMesh
    <3>2. IsNodeState(w)
      BY <1>0, <1>2, <1>5, <2>w, OwnAnswered DEF Answered, Allowed
    <3>. QED
      BY <3>1, <3>2, StateReady
  <2>4. Number(t, n, p.id) >= 1
    BY <1>2, <1>5, <2>1, <2>3, SendLocalAdds
  <2>5. Submitted(m, s, t) /\ m.id \notin DOMAIN s.pending
    <3>1. Submits(l)
      BY PhoneSteps
    <3>. QED
      BY <1>0, <1>1, <1>8, <3>1 DEF Submits
  <2>6. Honoured(m, t, a)
    BY <1>0, <1>2, <2>1, <2>4, <2>5, HonouredSent
  <2>. QED
    BY <1>0, <1>1, <1>3, <1>8, <2>6
<1>9. CASE m # l /\ l.from = n
  <2>1. p.id # m.id
    BY <1>5, <1>9, MeshAssumption
  <2>2. PICK i : i = m.id
    OBVIOUS
  <2>3. PICK w : w = HandleOwn(n, s, p) /\ t = SendLocal(n, w, p, over)
    BY <1>1, <1>6, <1>7, <1>9 DEF SendToMesh
  <2>w. Leaves(n, i, s, w) /\ Ready(w)
    <3>1. w = s \/ w = NakToSelf(n, s, "NO_RESPONSE", p.id)
      BY <2>3 DEF HandleOwn
    <3>2. Unmoved(s, w)
      BY <1>2, <3>1, NakUnmoved, UnmovedFields
    <3>. QED
      BY <1>2, <3>2, UnmovedLeaves DEF Unmoved
  <2>5a. Goes(n, i, w, t)
    BY <1>5, <2>1, <2>2, <2>3, <2>w, SendLocalGoes
  <2>4. Goes(n, i, s, t)
    BY <2>w, <2>5a, LeavesGoes
  <2>5. Honoured(m, s, a) => Honoured(m, t, a)
    BY <1>0, <1>2, <2>2, <2>4, HonouredGoes
  <2>. QED
    BY <1>0, <1>1, <1>3, <1>9, <2>5 DEF Honours
<1>10. CASE m # l /\ l.from # n
  <2>1. t = s
    BY <1>1, <1>7, <1>10, Untouched
  <2>. QED
    BY <1>0, <1>1, <1>3, <1>10, <2>1 DEF Honours
<1>. QED
  BY <1>8, <1>9, <1>10

LEMMA HandlingHonours ==
  ASSUME BaseInv, BaseInv', AiredInv, NEW over, NEW m \in Messages,
         HandleReceivedPacket(m.from, over), Room(node[m.from]), Room(node'[m.from])
  PROVE  Honours(m)
<1>0. PICK n \in Node : n = m.from
  BY MessageFacts
<1>1. PICK s, p, r, t : s = node[n] /\ p = Head(s.fromRadio) /\ r = ReceivedTail(s) /\ t = node'[n]
  OBVIOUS
<1>2. DOMAIN node = Node /\ IsNodeState(s) /\ IsNodeState(t) /\ Room(s) /\ Room(t)
  BY <1>0, <1>1, StatesOf
<1>3. PICK a \in Nat : a = aired[n][m] /\ a = aired'[n][m]
  BY <1>0, StatesOf DEF HandleReceivedPacket
<1>4. Taken(s, p, r) /\ Legible(p)
  BY <1>0, <1>1, HandlingSteps DEF Handles
<1>5. IsNodeState(r) /\ r.pending = s.pending /\ r.txQueue = s.txQueue /\ r.nextId = s.nextId
      /\ p \in ToSet(s.fromRadio)
  BY <1>4 DEF Taken
<1>6. t = PerhapsHandleReceived(n, r, p, over)
  <2>1. PICK u : u = PerhapsHandleReceived(n, r, p, over)
    OBVIOUS
  <2>2. Becomes(n, u)
    BY <1>0, <1>1, <2>1 DEF HandleReceivedPacket, ReceivedTail
  <2>. QED
    BY <1>1, <1>2, <2>1, <2>2, BecomesFacts
<1>7. PICK i \in Nat : i = m.id
  BY MessageFacts
<1>8. i < r.nextId
  <2>1. FirstId <= s.nextId /\ s.nextId \in Nat
    BY <1>1, <1>2, StateFields DEF BaseInv, Sound
  <2>2. i < FirstId /\ FirstId \in Nat
    BY <1>7, MessageFacts
  <2>. QED
    BY <1>5, <2>1, <2>2, SMT
<1>9. Spared(n, i, r, p, t)
  BY <1>4, <1>5, <1>6, <1>8, HandlingSpares
<1>10. ASSUME Honoured(m, s, a)
       PROVE  Honoured(m, t, a)
  <2>1. Unmoved(s, r)
    BY <1>5, StateReady DEF Unmoved
  <2>2. Honoured(m, r, a)
    BY <1>2, <1>5, <1>10, <2>1, HonouredUnmoved
  <2>3. Room(r)
    BY <1>2, <1>5 DEF Room
  <2>4. CASE Spares(n, i, r, t)
    BY <1>0, <1>2, <1>5, <1>7, <2>2, <2>4, HonouredSpared
  <2>5. CASE p.from = n /\ p.id = i /\ i \notin DOMAIN t.pending
    <3>1. Abroad(m)
      BY <1>0, <1>1, <1>5, <1>7, <2>5 DEF Abroad, Echoed, IsOf
    <3>2. a >= 1
      BY <1>0, <1>3, <3>1 DEF AiredInv
    <3>. QED
      BY <1>2, <1>7, <2>5, <3>2, HonouredAlready
  <2>. QED
    BY <1>2, <1>9, <2>3, <2>4, <2>5 DEF Spared
<1>. QED
  BY <1>0, <1>1, <1>3, <1>10 DEF Honours

LEMMA RetryHonours ==
  ASSUME BaseInv, BaseInv', NEW m \in Messages, m.from \notin DutyLimited,
         NEW id \in DOMAIN node[m.from].pending, NEW over \in Over(m.from),
         DoRetransmission(m.from, id, over), Room(node[m.from]), Room(node'[m.from])
  PROVE  Honours(m)
<1>0. PICK n \in Node : n = m.from
  BY MessageFacts
<1>1. PICK s, t : s = node[n] /\ t = node'[n]
  OBVIOUS
<1>2. DOMAIN node = Node /\ IsNodeState(s) /\ IsNodeState(t) /\ Room(s) /\ Room(t)
  BY <1>0, <1>1, StatesOf
<1>3. PICK a \in Nat : a = aired[n][m] /\ a = aired'[n][m]
  BY <1>0, StatesOf DEF DoRetransmission
<1>4. id \in DOMAIN s.pending /\ Recorded(n, id, s.pending[id].packet)
  BY <1>0, <1>1 DEF BaseInv, Sound
<1>5. t = Retransmission(n, s, id, over)
  <2>1. PICK u : u = Retransmission(n, s, id, over)
    OBVIOUS
  <2>2. Becomes(n, u)
    BY <1>0, <1>1, <2>1 DEF DoRetransmission
  <2>. QED
    BY <1>1, <1>2, <2>1, <2>2, BecomesFacts
<1>6. PICK i : i = m.id
  OBVIOUS
<1>7. CASE i # id \/ s.pending[id].left = 0
  <2>1. Goes(n, i, s, t)
    BY <1>2, <1>4, <1>5, <1>7, RetransmissionSpares
  <2>2. Honoured(m, s, a) => Honoured(m, t, a)
    BY <1>0, <1>2, <1>6, <2>1, HonouredGoes
  <2>. QED
    BY <1>0, <1>1, <1>3, <2>2 DEF Honours
<1>8. CASE i = id /\ s.pending[id].left # 0
  <2>1. over \in Unlimited
    BY DEF Over, Unlimited
  <2>2. ASSUME Honoured(m, s, a)
        PROVE  Honoured(m, t, a)
    <3>1. Sendable(n, s.pending[i].packet)
      BY <1>0, <1>4, <1>6, <1>8, <2>2 DEF Honoured
    <3>2. t = Retransmission(n, s, i, over) /\ Recorded(n, i, s.pending[i].packet)
          /\ i \in DOMAIN s.pending /\ s.pending[i].left # 0
      BY <1>4, <1>5, <1>8
    <3>3. /\ i \in DOMAIN t.pending
          /\ t.pending[i].packet = s.pending[i].packet /\ t.pending[i].left = s.pending[i].left - 1
          /\ Number(s, n, i) + 1 <= Number(t, n, i)
      BY <1>2, <2>1, <3>1, <3>2, RetransmissionAdds
    <3>. QED
      BY <1>0, <1>2, <1>6, <2>2, <3>2, <3>3, HonouredAgain
  <2>. QED
    BY <1>0, <1>1, <1>3, <2>2 DEF Honours
<1>. QED
  BY <1>7, <1>8

LEMMA EchoHonours ==
  ASSUME BaseInv, BaseInv', NEW m \in Messages, NEW id, MqttReceive(m.from, id)
  PROVE  Honours(m)
<1>0. PICK n \in Node : n = m.from
  BY MessageFacts
<1>1. PICK s, t : s = node[n] /\ t = node'[n]
  OBVIOUS
<1>2. DOMAIN node = Node /\ IsNodeState(s) /\ Ready(s) /\ IsNodeState(t)
  BY <1>0, <1>1, StatesOf
<1>3. PICK a \in Nat : a = aired[n][m] /\ a = aired'[n][m]
  BY <1>0, StatesOf DEF MqttReceive
<1>4. t = MqttEcho(n, s, id)
  <2>1. PICK u : u = MqttEcho(n, s, id)
    OBVIOUS
  <2>2. Becomes(n, u)
    BY <1>0, <1>1, <2>1 DEF MqttReceive
  <2>. QED
    BY <1>1, <1>2, <2>1, <2>2, BecomesFacts
<1>5. Unmoved(s, t)
  BY <1>2, <1>4, EchoUnmoved
<1>6. Honoured(m, s, a) => Honoured(m, t, a)
  BY <1>2, <1>5, HonouredUnmoved
<1>. QED
  BY <1>0, <1>1, <1>3, <1>6 DEF Honours

LEMMA AirHonours ==
  ASSUME BaseInv, BaseInv', NEW m \in Messages, StartSend(m.from)
  PROVE  Honours(m)
<1>0. PICK n \in Node : n = m.from
  BY MessageFacts
<1>1. PICK s, t, p : s = node[n] /\ t = node'[n] /\ p = Head(s.txQueue)
  OBVIOUS
<1>2. DOMAIN node = Node /\ IsNodeState(s) /\ s.txQueue # <<>>
  BY <1>0, <1>1, StatesOf DEF StartSend
<1>3. PICK a \in Nat : a = aired[n][m]
  BY <1>0, StatesOf
<1>4. t = QueuedTail(s)
  <2>1. PICK u : u = QueuedTail(s)
    OBVIOUS
  <2>2. Becomes(n, u)
    BY <1>0, <1>1, <2>1 DEF StartSend, QueuedTail
  <2>. QED
    BY <1>1, <1>2, <2>1, <2>2, BecomesFacts
<1>5. aired'[n][m] = a + (IF IsOf(p, m.from, m.id) THEN 1 ELSE 0)
  <2>1. DOMAIN aired = Node
    BY DEF BaseInv, TypeOK
  <2>2. aired' = [aired EXCEPT ![n] =
          [l \in Messages |-> IF p.from = l.from /\ p.id = l.id THEN @[l] + 1 ELSE @[l]]]
    BY <1>0, <1>1 DEF StartSend
  <2>. QED
    BY <1>3, <2>1, <2>2 DEF IsOf
<1>6. Honoured(m, s, a) => Honoured(m, t, a + (IF IsOf(p, m.from, m.id) THEN 1 ELSE 0))
  BY <1>1, <1>2, <1>4, HonouredAired
<1>. QED
  BY <1>0, <1>1, <1>3, <1>5, <1>6 DEF Honours

(* A step of another node. *)
LEMMA OthersHonour ==
  ASSUME NEW m, node'[m.from] = node[m.from], aired'[m.from][m] = aired[m.from][m]
  PROVE  Honours(m)
  BY DEF Honours

LEMMA ElsewhereHonours ==
  ASSUME NEW n, Only(n), NEW m \in Messages, m.from # n, aired' = aired
  PROVE  Honours(m)
<1>1. PICK k \in Node : k = m.from /\ k # n
  BY MessageFacts
<1>2. node'[k] = node[k]
  BY <1>1, Untouched
<1>. QED
  BY <1>1, <1>2, OthersHonour

LEMMA AirsElsewhere ==
  ASSUME BaseInv, NEW n \in Node, NEW p, Airs(n, p), NEW m \in Messages, m.from # n
  PROVE  Honours(m)
<1>1. PICK k \in Node : k = m.from /\ k # n
  BY MessageFacts
<1>2. node'[k] = node[k]
  BY <1>1, Untouched DEF Airs
<1>3. aired'[k][m] = aired[k][m]
  BY <1>1 DEF Airs, BaseInv, TypeOK
<1>. QED
  BY <1>1, <1>2, <1>3, OthersHonour

LEMMA ReachHonours ==
  ASSUME BaseInv, BaseInv', NEW n \in Node, Reaches(n), NEW m \in Messages
  PROVE  Honours(m)
<1>0. PICK k \in Node : k = m.from
  BY MessageFacts
<1>1. PICK s, t, p : s = node[k] /\ t = node'[k] /\ p = OnAir(sending[n])
  OBVIOUS
<1>2. IsNodeState(s) /\ Ready(s) /\ IsNodeState(t)
  BY <1>0, <1>1, StatesOf
<1>3. PICK a \in Nat : a = aired[k][m] /\ a = aired'[k][m]
  BY <1>0, StatesOf DEF Reaches
<1>4. CASE t = s
  BY <1>0, <1>1, <1>3, <1>4, OthersHonour
<1>5. CASE Received(s, p, t)
  <2>1. Unmoved(s, t)
    <3>1. t.pending = s.pending /\ t.txQueue = s.txQueue
      BY <1>5 DEF Received
    <3>2. Ready(t)
      BY <1>2, StateReady
    <3>. QED
      BY <3>1, <3>2 DEF Unmoved
  <2>2. Honoured(m, s, a) => Honoured(m, t, a)
    BY <1>2, <2>1, HonouredUnmoved
  <2>. QED
    BY <1>0, <1>1, <1>3, <2>2 DEF Honours
<1>. QED
  BY <1>0, <1>1, <1>4, <1>5 DEF Reaches

(* The transmit queues have room for another packet. *)
AllRoom == \A m \in Messages : Room(node[m.from])

(* What a step that reboots no node does to m. *)
Served(m) == IF m \in sent' \ sent THEN Honoured(m, node'[m.from], aired'[m.from][m]) ELSE Honours(m)

LEMMA StepServes ==
  ASSUME BaseInv, BaseInv', AiredInv, Next, \A n \in Node : ~ Reboot(n), AllRoom, AllRoom',
         NEW m \in Messages, m.from \notin DutyLimited, Sendable(m.from, FromPhone(m))
  PROVE  Served(m)
<1>0. Room(node[m.from]) /\ Room(node'[m.from]) /\ m.from \in Node
  BY MessageFacts DEF AllRoom
<1>1. ASSUME NEW l \in Messages, NEW over \in Over(l.from), PhoneSend(l, over)
      PROVE  Served(m)
  <2>1. IF m = l THEN Honoured(m, node'[m.from], aired'[m.from][m]) ELSE Honours(m)
    BY <1>0, <1>1, PhoneHonours
  <2>2. sent' \ sent = {l}
    BY <1>1 DEF PhoneSend
  <2>. QED
    BY <2>1, <2>2 DEF Served
<1>2. sent' = sent /\ Honours(m) => Served(m)
  BY DEF Served
<1>3. ASSUME NEW n \in Node, NEW over \in Over(n), HandleReceivedPacket(n, over)
      PROVE  Served(m)
  <2>1. sent' = sent /\ aired' = aired
    BY <1>3 DEF HandleReceivedPacket
  <2>2. CASE n = m.from
    <3>1. HandleReceivedPacket(m.from, over)
      BY <1>3, <2>2
    <3>. QED
      BY <1>0, <1>2, <2>1, <3>1, HandlingHonours
  <2>3. CASE n # m.from
    <3>1. Only(n)
      BY <1>3, HandlingSteps DEF Handles
    <3>. QED
      BY <1>2, <2>1, <2>3, <3>1, ElsewhereHonours
  <2>. QED
    BY <2>2, <2>3
<1>4. ASSUME NEW n \in Node, NEW id \in DOMAIN node[n].pending, NEW over \in Over(n), DoRetransmission(n, id, over)
      PROVE  Served(m)
  <2>1. sent' = sent /\ aired' = aired
    BY <1>4 DEF DoRetransmission
  <2>2. CASE n = m.from
    <3>1. DoRetransmission(m.from, id, over) /\ id \in DOMAIN node[m.from].pending /\ over \in Over(m.from)
      BY <1>4, <2>2
    <3>. QED
      BY <1>0, <1>2, <2>1, <3>1, RetryHonours
  <2>3. CASE n # m.from
    <3>1. Only(n)
      BY <1>4, RetrySteps DEF Retries
    <3>. QED
      BY <1>2, <2>1, <2>3, <3>1, ElsewhereHonours
  <2>. QED
    BY <2>2, <2>3
<1>5. ASSUME NEW n \in Node, NEW id \in node[n].uplink, MqttReceive(n, id)
      PROVE  Served(m)
  <2>1. sent' = sent /\ aired' = aired
    BY <1>5 DEF MqttReceive
  <2>2. CASE n = m.from
    <3>1. MqttReceive(m.from, id)
      BY <1>5, <2>2
    <3>. QED
      BY <1>2, <2>1, <3>1, EchoHonours
  <2>3. CASE n # m.from
    <3>1. Only(n)
      BY <1>5, EchoSteps DEF Hearkens
    <3>. QED
      BY <1>2, <2>1, <2>3, <3>1, ElsewhereHonours
  <2>. QED
    BY <2>2, <2>3
<1>6. ASSUME NEW n \in Node, StartSend(n)
      PROVE  Served(m)
  <2>1. sent' = sent
    BY <1>6 DEF StartSend
  <2>2. CASE n = m.from
    <3>1. StartSend(m.from)
      BY <1>6, <2>2
    <3>. QED
      BY <1>2, <2>1, <3>1, AirHonours
  <2>3. CASE n # m.from
    <3>1. PICK p : Airs(n, p)
      BY <1>6, AirSteps
    <3>. QED
      BY <1>2, <2>1, <2>3, <3>1, AirsElsewhere
  <2>. QED
    BY <2>2, <2>3
<1>7. ASSUME NEW n \in Node, CompleteSending(n)
      PROVE  Served(m)
  <2>1. sent' = sent
    BY <1>7 DEF CompleteSending
  <2>2. Reaches(n)
    BY <1>7, ReachSteps
  <2>. QED
    BY <1>2, <2>1, <2>2, ReachHonours
<1>. QED
  BY <1>1, <1>3, <1>4, <1>5, <1>6, <1>7, Zenon DEF Next

LEMMA NextReboots ==
  ASSUME BaseInv, Next, AssertionsHold, reboots' = 0
  PROVE  reboots = 0 /\ \A n \in Node : ~ Reboot(n)
<1>1. reboots \in Nat
  BY DEF BaseInv, TypeOK
<1>2. ASSUME NEW n \in Node, Reboot(n)
      PROVE  FALSE
  <2>1. Up(n)
    BY DEF AssertionsHold
  <2>2. reboots' = reboots + 1
    BY <1>2, <2>1 DEF Reboot
  <2>. QED
    BY <1>1, <2>2
<1>3. reboots' = reboots
  BY <1>2, Zenon DEF Next, PhoneSend, HandleReceivedPacket, DoRetransmission, MqttReceive, StartSend, CompleteSending
<1>. QED
  BY <1>2, <1>3

LEMMA SentNext ==
  ASSUME BaseInv, BaseInv', AiredInv, SentInv, [Next]_vars, AssertionsHold, AllRoom, AllRoom',
         \A m \in Messages : Sendable(m.from, FromPhone(m))
  PROVE  SentInv'
<1>1. CASE UNCHANGED vars
  BY <1>1 DEF SentInv, vars
<1>2. CASE Next
  <2>1. ASSUME reboots' = 0, NEW m \in sent', m.from \notin DutyLimited
        PROVE  Honoured(m, node'[m.from], aired'[m.from][m])
    <3>1. m \in Messages
      BY DEF BaseInv, TypeOK
    <3>2. reboots = 0 /\ \A n \in Node : ~ Reboot(n)
      BY <1>2, <2>1, NextReboots
    <3>3. Served(m)
      BY <1>2, <2>1, <3>1, <3>2, StepServes
    <3>4. CASE m \in sent
      <4>1. Honoured(m, node[m.from], aired[m.from][m])
        BY <2>1, <3>2, <3>4 DEF SentInv
      <4>. QED
        BY <3>3, <3>4, <4>1 DEF Served, Honours
    <3>5. CASE m \notin sent
      BY <2>1, <3>3, <3>5 DEF Served
    <3>. QED
      BY <3>4, <3>5
  <2>. QED
    BY <2>1 DEF SentInv
<1>. QED
  BY <1>1, <1>2

LEMMA AiredAlways == Spec => []AiredInv
<1>1. Init => AiredInv
  BY AiredInit
<1>2. BaseInv /\ TraceInv /\ AiredInv /\ [Next]_vars => AiredInv'
  BY AiredNext
<1>. QED
  BY <1>1, <1>2, BaseAlways, TraceAlways, PTL DEF Spec

(* NeverForgotten: a message is not forgotten before it went out once: until   *)
(* then a copy of it waits in the transmit queue, in whatever order acks,      *)
(* echoes and timers come. ReliableRouter::stopRetransmission drops a record,  *)
(* and takes one queued copy with it only when a retransmission was made; what *)
(* the records still allow, what waits and what went out together never fall   *)
(* short of NUM_RETRANSMISSIONS, and what is heard back did go out. The        *)
(* theorem is about messages that Router::send does transmit (the transmitter  *)
(* on, another node or all of them addressed, a channel or a key to encrypt    *)
(* with), while no assertion fails, a reboot that the mesh does not count, and *)
(* while a sender's transmit queue has room: a full one puts out the packet of *)
(* the lowest priority (MeshPacketQueue::replaceLowerPriorityPacket).          *)
THEOREM MeshNeverForgotten ==
  ASSUME \A m \in Messages : Sendable(m.from, FromPhone(m))
  PROVE  Spec /\ []AssertionsHold /\ []AllRoom => []NeverForgotten
<1>1. Init => SentInv
  BY DEF Init, SentInv
<1>2. BaseInv /\ BaseInv' /\ AiredInv /\ SentInv /\ [Next]_vars /\ AssertionsHold /\ AllRoom /\ AllRoom' => SentInv'
  BY SentNext
<1>3. BaseInv /\ SentInv => NeverForgotten
  <2>1. SUFFICES ASSUME BaseInv, SentInv, NEW m \in sent, reboots = 0, m.from \notin DutyLimited
                 PROVE  aired[m.from][m] > 0 \/ Copies(m.from, m) > 0
    <3>1. BaseInv => reboots > 0 \/ reboots = 0
      BY DEF BaseInv, TypeOK
    <3>. QED
      BY <3>1 DEF NeverForgotten
  <2>2. m \in Messages
    BY <2>1 DEF BaseInv, TypeOK
  <2>3. IsNodeState(node[m.from]) /\ aired[m.from][m] \in Nat
    BY <2>1, <2>2, MessageFacts DEF BaseInv, TypeOK
  <2>4. Copies(m.from, m) = Number(node[m.from], m.from, m.id)
    <3>1. node[m.from].txQueue \in Seq(Packet)
      BY <2>3, StateFields
    <3>2. DOMAIN node[m.from].txQueue = 1 .. Len(node[m.from].txQueue)
      BY <3>1, LenProperties
    <3>. QED
      BY <3>2 DEF Copies, Number, PlacesOf, Is
  <2>5. Honoured(m, node[m.from], aired[m.from][m])
    BY <2>1 DEF SentInv
  <2>6. 1 <= aired[m.from][m] + Number(node[m.from], m.from, m.id)
    BY <2>3, <2>5, HonouredOne
  <2>7. Number(node[m.from], m.from, m.id) \in Nat
    BY <2>3, NumberType
  <2>. QED
    BY <2>3, <2>4, <2>6, <2>7
<1>. QED
  BY <1>1, <1>2, <1>3, BaseAlways, AiredAlways, PTL DEF Spec
=============================================================================
