-------------------------------- MODULE Mesh --------------------------------
(***************************************************************************)
(* Several nodes, each running the router stack of module Router, on a      *)
(* shared radio channel that loses packets.  Every handler runs to its end  *)
(* on its node's main loop, so it is one action; the nodes, the airtime of  *)
(* a packet and the timers interleave freely.                               *)
(***************************************************************************)
EXTENDS Router

CONSTANTS
  Hears,          \* Node -> the nodes in range of its transmitter
  Messages,       \* what the phones may send, each once
  MaxSent,        \* bound: how many of them in one behaviour
  FirstId,        \* packet ids the firmware generates start here
  DutyLimited,    \* nodes that may find their duty cycle used up
  MaxReboots,     \* bound: reboots in one behaviour
  NoPacket

Message ==
  [from : Node, to : Node \cup {BROADCAST, BROADCAST_NO_LORA}, id : Nat \ {NoId},
   hopLimit : Nat, wantAck : BOOLEAN, port : {"text", "request", "unreadable"},
   crypt : Channel \cup {PKI}]

ASSUME MeshAssumption ==
  /\ Hears \in [Node -> SUBSET Node] /\ \A n \in Node : n \notin Hears[n]
  /\ Messages \subseteq Message
  /\ FirstId \in Nat \ {NoId}
  /\ \A m \in Messages :
       m.from # m.to /\ m.id < FirstId /\ \A l \in Messages : l.id = m.id => l = m
  /\ MaxSent \in Nat /\ MaxReboots \in Nat
  /\ NoPacket \notin Packet

VARIABLES
  node,           \* the router state of each node
  sending,        \* RadioInterface::sendingPacket of each node, or NoPacket
  sent,           \* the messages the phones have sent
  aired,          \* how often each node started to transmit each message
  reboots         \* reboots so far

vars == <<node, sending, sent, aired, reboots>>

TypeOK ==
  /\ DOMAIN node = Node /\ \A n \in Node : IsNodeState(node[n])
  /\ sending \in [Node -> Packet \cup {NoPacket}]
  /\ sent \subseteq Messages
  /\ aired \in [Node -> [Messages -> Nat]]
  /\ reboots \in Nat

Init ==
  /\ node = [n \in Node |-> Booted(FirstId)]
  /\ sending = [n \in Node |-> NoPacket]
  /\ sent = {}
  /\ aired = [n \in Node |-> [m \in Messages |-> 0]]
  /\ reboots = 0

Up(n) == ~ node[n].failed
Over(n) == IF n \in DutyLimited THEN BOOLEAN ELSE {FALSE}
Becomes(n, s) == node' = [node EXCEPT ![n] = s]

FromPhone(m) ==
  [from |-> m.from, to |-> m.to, id |-> m.id, hopLimit |-> m.hopLimit,
   hopStart |-> 0, wantAck |-> m.wantAck, prio |-> UNSET, crypt |-> m.crypt,
   plain |-> TRUE, port |-> m.port, reqId |-> NoId, err |-> "NONE"]

(* MeshService::handleToRadio, sendToMesh *)
PhoneSend(m, over) ==
  /\ m \notin sent /\ Cardinality(sent) < MaxSent /\ Up(m.from)
  /\ sent' = sent \cup {m}
  /\ Becomes(m.from, SendToMesh(m.from, node[m.from], FromPhone(m), over))
  /\ UNCHANGED <<sending, aired, reboots>>

(* One packet of Router::runOnce's loop over the receive queue. *)
HandleReceivedPacket(n, over) ==
  LET s == node[n] IN
  /\ Up(n) /\ s.fromRadio # <<>>
  /\ Becomes(n, PerhapsHandleReceived(
       n, [s EXCEPT !.fromRadio = Tail(@)], Head(s.fromRadio), over))
  /\ UNCHANGED <<sending, sent, aired, reboots>>

(* The timer of a pending packet may run out at any time. *)
DoRetransmission(n, id, over) ==
  /\ Up(n)
  /\ Becomes(n, Retransmission(n, node[n], id, over))
  /\ UNCHANGED <<sending, sent, aired, reboots>>

(* Our own packet comes back from the MQTT broker. *)
MqttReceive(n, id) ==
  /\ Up(n)
  /\ Becomes(n, MqttEcho(n, node[n], id))
  /\ UNCHANGED <<sending, sent, aired, reboots>>

(* onNotify(TRANSMIT_DELAY_COMPLETED) with the channel found free *)
StartSend(n) ==
  LET p == Head(node[n].txQueue) IN
  /\ Up(n) /\ sending[n] = NoPacket /\ node[n].txQueue # <<>>
  /\ sending' = [sending EXCEPT ![n] = p]
  /\ Becomes(n, [node[n] EXCEPT !.txQueue = Tail(@)])
  /\ aired' = [aired EXCEPT ![n] =
       [m \in Messages |-> IF p.from = m.from /\ p.id = m.id THEN @[m] + 1 ELSE @[m]]]
  /\ UNCHANGED <<sent, reboots>>

(* onNotify(ISR_TX) here and, there, the ISR_RX of the nodes that got the
   packet: any of those in range whose own transmitter is off. *)
CompleteSending(n) ==
  /\ Up(n) /\ sending[n] # NoPacket
  /\ \E receivers \in SUBSET {r \in Hears[n] : sending[r] = NoPacket /\ Up(r)} :
       node' = [r \in Node |->
         IF r \in receivers THEN EnqueueReceivedMessage(node[r], OnAir(sending[n]))
         ELSE node[r]]
  /\ sending' = [sending EXCEPT ![n] = NoPacket]
  /\ UNCHANGED <<sent, aired, reboots>>

(* A failed assertion reboots the node, and so may anything else: all of the
   router's state is in RAM.  Packet ids continue from a random number. *)
Reboot(n) ==
  /\ ~ Up(n) \/ reboots < MaxReboots
  /\ Becomes(n, Booted(node[n].nextId))
  /\ sending' = [sending EXCEPT ![n] = NoPacket]
  /\ reboots' = IF Up(n) THEN reboots + 1 ELSE reboots
  /\ UNCHANGED <<sent, aired>>

Next ==
  \/ \E m \in Messages : \E over \in Over(m.from) : PhoneSend(m, over)
  \/ \E n \in Node : \E over \in Over(n) : HandleReceivedPacket(n, over)
  \/ \E n \in Node : \E id \in DOMAIN node[n].pending, over \in Over(n) :
       DoRetransmission(n, id, over)
  \/ \E n \in Node : \E id \in node[n].uplink : MqttReceive(n, id)
  \/ \E n \in Node : StartSend(n)
  \/ \E n \in Node : CompleteSending(n)
  \/ \E n \in Node : Reboot(n)

Spec == Init /\ [][Next]_vars

(* The main loop runs for ever, timers run out, and a transmission ends. *)
Fairness ==
  \A n \in Node :
    /\ WF_vars(\E over \in Over(n) : HandleReceivedPacket(n, over))
    /\ WF_vars(\E id \in DOMAIN node[n].pending, over \in Over(n) :
                 DoRetransmission(n, id, over))
    /\ WF_vars(StartSend(n))
    /\ WF_vars(CompleteSending(n))

FairSpec == Spec /\ Fairness

----------------------------------------------------------------------------
Is(p, m) == p.from = m.from /\ p.id = m.id

Delivered(n, m) == \E p \in ToSet(node[n].toPhone) : Is(p, m) /\ p.plain

(* The routing packets about m that m's phone has been given. *)
ReportsOf(m) ==
  {p \in ToSet(node[m.from].toPhone) : p.port = "routing" /\ p.reqId = m.id}

Copies(n, m) == Cardinality({i \in DOMAIN node[n].txQueue : Is(node[n].txQueue[i], m)})

Pends(m) == m.id \in DOMAIN node[m.from].pending

(* A phone is given a packet once, however many copies of it arrive by
   whatever paths (PacketHistory::wasSeenRecently in shouldFilterReceived). *)
DeliveredOnce ==
  \A n \in Node : \A i, j \in DOMAIN node[n].toPhone :
    /\ i # j
    /\ node[n].toPhone[i].from = node[n].toPhone[j].from
    => node[n].toPhone[i].id # node[n].toPhone[j].id

(* An ack from the destination itself says that the message was decoded there
   and given to the destination's phone (ReliableRouter::sniffReceived). *)
AckMeansHandled ==
  \A m \in Messages : \A p \in ReportsOf(m) :
    p.from = m.to /\ p.err = "NONE" => Delivered(m.to, m)

(* An implicit ack says that some other node has the message, or the broker:
   shouldFilterReceived and MQTT::onReceive are its only sources. *)
ImplicitAckMeansHeard ==
  \A m \in Messages : \A p \in ReportsOf(m) :
    p.from = m.from /\ p.err = "NONE" =>
      \/ m.from \in MqttNodes
      \/ \E n \in Node \ {m.from} : <<m.from, m.id>> \in node[n].recent

(* NUM_RETRANSMISSIONS counts everything: what went out, what waits in the
   queue and what the pending record still allows. *)
AttemptsBounded ==
  \A m \in Messages :
    aired[m.from][m] + Copies(m.from, m)
      + (IF Pends(m) THEN node[m.from].pending[m.id].left ELSE 0)
    <= IF m.wantAck THEN NUM_RETRANSMISSIONS ELSE 1

(* A relay repeats a message at most as often as its originator sent it:
   copies that come round through other relays are not repeated. *)
RelayBounded ==
  \A m \in Messages, n \in Node :
    n # m.from => aired[n][m] + Copies(n, m) <= aired[m.from][m] + reboots

(* No ack, however early, cancels a message that was never transmitted: until
   it is, a copy stays in the queue (stopRetransmission), but for a reboot or
   a duty cycle used up. *)
NeverForgotten ==
  \A m \in sent :
    \/ aired[m.from][m] > 0 \/ Copies(m.from, m) > 0
    \/ reboots > 0 \/ m.from \in DutyLimited

(* A reliable message that is no longer pending has been reported on, or its
   report is in the receive queue: the record is never dropped silently. *)
ResolvedIsReported ==
  \A m \in sent :
    m.wantAck /\ ~ Pends(m) =>
      \E p \in ToSet(node[m.from].toPhone) \cup ToSet(node[m.from].fromRadio) :
        p.to = m.from /\ p.reqId = m.id

(* Handling what the mesh sends never fails an assertion: every index the
   router encodes with is a channel's (Channels::getKey). *)
AssertionsHold == \A n \in Node : Up(n)

(* k hops lead from m to n. *)
Leads(m, n, k) ==
  \E walk \in [0 .. k -> Node] :
    /\ walk[0] = m /\ walk[k] = n
    /\ \A i \in 0 .. k - 1 : walk[i + 1] \in Hears[walk[i]]

(* A packet received over the air has come from its originator in as many
   hops as hop_start - hop_limit says, and one more: every relay counts its
   own, once (perhapsRebroadcast). *)
HopsCountable ==
  \A n \in Node : \A p \in ToSet(node[n].fromRadio) :
    ~ p.plain => /\ p.hopLimit <= p.hopStart
                 /\ Leads(p.from, n, p.hopStart - p.hopLimit + 1)

(* The mesh keeps the promises of ReliableDelivery.  A packet that reaches the
   phone still encrypted tells it nothing. *)
Outcome(m, p) ==
  IF p.err = "NONE" THEN (IF p.from = m.from THEN "relayed" ELSE "acked")
  ELSE IF p.err = "MAX_RETRANSMIT" THEN "failed" ELSE "refused"

Promise ==
  INSTANCE ReliableDelivery WITH
    phase <- [m \in Messages |-> IF m \notin sent THEN "new"
                                 ELSE IF Pends(m) THEN "pending" ELSE "settled"],
    reached <- [m \in Messages |-> \E n \in Node \ {m.from} : Delivered(n, m)],
    reports <- [m \in Messages |-> {Outcome(m, p) : p \in {q \in ReportsOf(m) : q.plain}}]

ImplementsReliableDelivery == Promise!Spec

(* The phone at last hears of every reliable message: an ack, an answer or a
   failure. *)
EventuallyReported ==
  \A m \in Messages :
    m \in sent /\ m.wantAck ~>
      \E p \in ToSet(node[m.from].toPhone) : p.plain /\ p.reqId = m.id

(* A flood dies out: nothing is left to handle, send or retransmit. *)
EventuallyQuiet ==
  <>[](\A n \in Node :
         /\ node[n].fromRadio = <<>> /\ node[n].txQueue = <<>>
         /\ DOMAIN node[n].pending = {} /\ sending[n] = NoPacket)
=============================================================================
