------------------------------- MODULE Router -------------------------------
(***************************************************************************)
(* The router stack of one node, mesh/Router.cpp, FloodingRouter.cpp and    *)
(* ReliableRouter.cpp with the parts of MeshModule, RoutingModule and       *)
(* RadioLibInterface they call, as operators on the node's state.           *)
(*                                                                          *)
(* The state s of node n is a record:                                       *)
(*   pending    ReliableRouter::pending, id |-> [packet, left]; the key's   *)
(*              other half, the originator, is always n                     *)
(*   recent     PacketHistory::recentPackets, <<originator, id>> pairs      *)
(*   txQueue    RadioLibInterface::txQueue                                  *)
(*   fromRadio  Router::fromRadioQueue                                      *)
(*   toPhone    the packets MeshService::handleFromRadio was given          *)
(*   uplink     ids of own packets published to MQTT, not yet come back     *)
(*   nextId     what generatePacketId returns next                          *)
(*   failed     an assertion has failed and the node is about to reboot     *)
(*                                                                          *)
(* `over' is Router::send's duty-cycle test, the same throughout a handler. *)
(***************************************************************************)
EXTENDS PacketQueueOps, FiniteSets

CONSTANTS
  Node,
  BROADCAST, BROADCAST_NO_LORA,   \* the two broadcast addresses
  PKI,            \* the "channel" of a packet encrypted for one receiver
  Channel,        \* the channels
  PRIMARY,        \* the channel at index 0
  NoChannel,      \* what an index that is no channel's stands for
  OnChannel,      \* Channel -> the nodes that have it
  HashAsIndex,    \* Channel -> the channel its hash denotes read as an index
  Keys,           \* <<n, m>> : n has the public key of m
  Ignores,        \* <<n, m>> : n ignores what comes from m
  Routers,        \* nodes in the role ROUTER or REPEATER
  Mute,           \* CLIENT_MUTE, or rebroadcast mode NONE
  LocalOnly,      \* rebroadcast mode LOCAL_ONLY
  TxDisabled,     \* lora.tx_enabled is false
  Responders,     \* nodes with a module that answers requests
  MqttNodes,      \* nodes that publish what they originate to MQTT
  NUM_RETRANSMISSIONS, MAX_TX_QUEUE, MAX_RX_FROMRADIO,
  LoraHopLimit    \* config.lora.hop_limit

HOP_MAX == 7
HOP_RELIABLE == 3
NoId == 0

UNSET == 0
DEFAULT == 64
RELIABLE == 70
RESPONSE == 80
HIGH == 100
ACK == 120

Ports == {"text", "request", "unreadable", "response", "routing"}
Errors == {"NONE", "MAX_RETRANSMIT", "NO_CHANNEL", "NO_RESPONSE",
           "PKI_UNKNOWN_PUBKEY", "PKI_FAILED", "DUTY_CYCLE_LIMIT"}
IsBroadcast(to) == to \in {BROADCAST, BROADCAST_NO_LORA}

ASSUME RouterAssumption ==
  /\ BROADCAST \notin Node /\ BROADCAST_NO_LORA \notin Node
  /\ PKI \notin Channel \cup {NoChannel} /\ NoChannel \notin Channel /\ PRIMARY \in Channel
  /\ OnChannel \in [Channel -> SUBSET Node]
  /\ HashAsIndex \in [Channel -> Channel \cup {NoChannel}]
  /\ NUM_RETRANSMISSIONS \in Nat \ {0}
  /\ MAX_TX_QUEUE \in Nat /\ MAX_RX_FROMRADIO \in Nat \ {0}
  /\ LoraHopLimit \in 0 .. HOP_MAX

(* A meshtastic_MeshPacket. crypt is the key it is or will be encrypted with,
   plain its which_payload_variant: decoded or encrypted. *)
Packet ==
  [from : Node, to : Node \cup {BROADCAST, BROADCAST_NO_LORA}, id : Nat,
   hopLimit : Nat, hopStart : Nat, wantAck : BOOLEAN,
   prio : {UNSET, DEFAULT, RELIABLE, RESPONSE, HIGH, ACK},
   crypt : Channel \cup {PKI, NoChannel}, plain : BOOLEAN,
   port : Ports, reqId : Nat, err : Errors]

Pending == [packet : Packet, left : Nat]

IsNodeState(s) ==
  /\ s \in [pending : {s.pending}, recent : SUBSET (Node \X Nat),
            txQueue : Seq(Packet), fromRadio : Seq(Packet), toPhone : Seq(Packet),
            uplink : SUBSET Nat, nextId : Nat, failed : BOOLEAN]
  /\ DOMAIN s.pending \subseteq Nat
  /\ s.pending \in [DOMAIN s.pending -> Pending]
  /\ Len(s.txQueue) <= MAX_TX_QUEUE /\ Len(s.fromRadio) <= MAX_RX_FROMRADIO

Booted(firstId) ==
  [pending |-> [i \in {} |-> i], recent |-> {}, txQueue |-> <<>>, fromRadio |-> <<>>,
   toPhone |-> <<>>, uplink |-> {}, nextId |-> firstId, failed |-> FALSE]

----------------------------------------------------------------------------
(* Queues *)

(* A slip: a full receive queue grows. *)
EnqueueAlways(s, p) == [s EXCEPT !.fromRadio = Append(@, p)]

EnqueueReceivedMessage(s, p) ==
  [s EXCEPT !.fromRadio =
     Append(IF Len(@) < MAX_RX_FROMRADIO THEN @ ELSE Tail(@), p)]

(* Router::cancelSending, RadioLibInterface::cancelSending *)
CancelSending(s, from, id) == [s EXCEPT !.txQueue = RemovePacket(@, from, id)]

(* RadioLibInterface::send *)
RadioSend(n, s, p) ==
  IF n \in TxDisabled \/ p.to = BROADCAST_NO_LORA THEN s
  ELSE [s EXCEPT !.txQueue = Enqueue(n, @, p, MAX_TX_QUEUE)]

----------------------------------------------------------------------------
(* Sending *)

AllocAckNak(n, s, err, to, idFrom, crypt, hopLimit) ==
  [from |-> n, to |-> to, id |-> s.nextId, hopLimit |-> hopLimit,
   hopStart |-> 0, wantAck |-> FALSE, prio |-> ACK, crypt |-> crypt,
   plain |-> TRUE, port |-> "routing", reqId |-> idFrom, err |-> err]

(* sendAckNak to the node itself: sendLocal puts it in the receive queue. *)
NakToSelf(n, s, err, idFrom) ==
  EnqueueReceivedMessage(
    [s EXCEPT !.nextId = @ + 1],
    AllocAckNak(n, s, err, n, idFrom, PRIMARY, 0))

AbortSendAndNak(n, s, err, p) == NakToSelf(n, s, err, p.id)

FixPriority(p) ==
  IF p.prio # UNSET THEN p
  ELSE [p EXCEPT !.prio =
    IF p.plain /\ p.port = "routing" THEN ACK
    ELSE IF p.plain /\ p.port = "text" THEN HIGH
    ELSE IF p.plain /\ p.reqId # NoId THEN RESPONSE
    ELSE IF p.wantAck \/ (p.plain /\ p.port = "request") THEN RELIABLE
    ELSE DEFAULT]

(* Router::send's changes to the packet it is about to encode. *)
Prepared(n, p) ==
  FixPriority([p EXCEPT !.wantAck = @ /\ ~ IsBroadcast(p.to),
                        !.hopStart = IF p.from = n THEN p.hopLimit ELSE @])

(* perhapsEncode: a packet of our own to one node whose key we have goes by
   PKI, unless it is a routing packet or names a channel other than the first. *)
UsesPKI(n, p) ==
  /\ p.from = n /\ p.crypt \in {PKI, PRIMARY} /\ p.port # "routing"
  /\ <<n, p.to>> \in Keys

EncodeError(n, p) ==
  IF UsesPKI(n, p) THEN "NONE"
  ELSE IF p.crypt = PKI THEN "PKI_FAILED"
  ELSE IF n \notin OnChannel[p.crypt] THEN "NO_CHANNEL"
  ELSE "NONE"

Encoded(n, p) ==
  [p EXCEPT !.crypt = IF UsesPKI(n, p) THEN PKI ELSE @, !.plain = FALSE]

(* An index that is no channel's fails the assertion of Channels::getKey. *)
RouterSend(n, s, p, over) ==
  IF p.to = n THEN s
  ELSE IF over THEN
    IF p.from = n THEN AbortSendAndNak(n, s, "DUTY_CYCLE_LIMIT", p) ELSE s
  ELSE IF ~ p.plain THEN RadioSend(n, s, Prepared(n, p))
  ELSE IF p.crypt = NoChannel THEN [s EXCEPT !.failed = TRUE]
  ELSE IF EncodeError(n, p) # "NONE" THEN AbortSendAndNak(n, s, EncodeError(n, p), p)
  ELSE LET published == n \in MqttNodes /\ p.from = n
       IN RadioSend(n,
            [s EXCEPT !.uplink = IF published THEN @ \cup {p.id} ELSE @],
            Encoded(n, Prepared(n, p)))

FloodingSend(n, s, p, over) ==
  RouterSend(n, [s EXCEPT !.recent = @ \cup {<<p.from, p.id>>}], p, over)

(* A slip: the queued copy goes, even if none was ever sent. *)
StopRetransmissionAndSending(n, s, id) ==
  IF id \notin DOMAIN s.pending THEN s
  ELSE [CancelSending(s, n, id) EXCEPT !.pending = [i \in DOMAIN @ \ {id} |-> @[i]]]

(* A packet that never left this node over LoRa stays in the queue. *)
StopRetransmission(n, s, id) ==
  IF id \notin DOMAIN s.pending THEN s
  ELSE LET stopped == IF s.pending[id].left < NUM_RETRANSMISSIONS - 1
                      THEN CancelSending(s, n, id) ELSE s
       IN [stopped EXCEPT !.pending =
             [i \in DOMAIN @ \ {id} |-> @[i]]]

(* A slip: the transmission under way is not counted. *)
StartAllRetransmissions(n, s, p) ==
  [StopRetransmission(n, s, p.id) EXCEPT !.pending =
     [i \in DOMAIN @ \cup {p.id} |->
        IF i = p.id THEN [packet |-> p, left |-> NUM_RETRANSMISSIONS] ELSE @[i]]]

StartRetransmission(n, s, p) ==
  [StopRetransmission(n, s, p.id) EXCEPT !.pending =
     [i \in DOMAIN @ \cup {p.id} |->
        IF i = p.id THEN [packet |-> p, left |-> NUM_RETRANSMISSIONS - 1]
        ELSE @[i]]]

(* ReliableRouter::send *)
ReliableSend(n, s, p, over) ==
  IF ~ p.wantAck THEN FloodingSend(n, s, p, over)
  ELSE LET q == [p EXCEPT !.hopLimit = IF @ = 0 THEN LoraHopLimit ELSE @]
       IN FloodingSend(n, StartRetransmission(n, s, q), q, over)

(* Router::sendLocal, but for HandleOwn below: only a phone's packet is ever a
   broadcast here. *)
SendLocal(n, s, p, over) ==
  IF p.to = n THEN EnqueueReceivedMessage(s, p) ELSE ReliableSend(n, s, p, over)

(* A broadcast of our own phone is handled here as if received.  It is not
   relayed, not given to the phone, and no module replies to it; but its
   originator is still 0, so that a request is answered with NO_RESPONSE. *)
HandleOwn(n, s, p) ==
  IF IsBroadcast(p.to) /\ p.port = "request"
  THEN NakToSelf(n, s, "NO_RESPONSE", p.id) ELSE s

(* MeshService::sendToMesh of what the phone sends *)
SendToMesh(n, s, p, over) == SendLocal(n, HandleOwn(n, s, p), p, over)

SendAckNak(n, s, err, to, idFrom, crypt, hopLimit, over) ==
  SendLocal(n, [s EXCEPT !.nextId = @ + 1],
            AllocAckNak(n, s, err, to, idFrom, crypt, hopLimit), over)

(* RoutingModule::getHopLimitForResponse *)
HopLimitForResponse(p) ==
  LET hopsUsed == IF p.hopStart < p.hopLimit THEN LoraHopLimit
                  ELSE p.hopStart - p.hopLimit
  IN IF p.hopStart = 0 THEN LoraHopLimit
     ELSE IF hopsUsed > LoraHopLimit THEN hopsUsed
     ELSE IF hopsUsed + 2 < LoraHopLimit THEN hopsUsed + 2
     ELSE LoraHopLimit

----------------------------------------------------------------------------
(* Receiving *)

(* perhapsDecode *)
CanDecode(n, p) ==
  \/ p.plain
  \/ p.crypt = PKI /\ p.to = n /\ <<n, p.from>> \in Keys
  \/ p.crypt \in Channel /\ n \in OnChannel[p.crypt]

Decoded(n, p) == IF CanDecode(n, p) THEN [p EXCEPT !.plain = TRUE] ELSE p

(* The channel index a decoded packet carries: 0 if it came by PKI. *)
ReplyChannel(p) == IF p.crypt = PKI THEN PRIMARY ELSE p.crypt

(* The same field of a packet still encrypted is the hash, 0 for PKI. *)
HashChannel(p) == IF p.crypt = PKI THEN PRIMARY ELSE HashAsIndex[p.crypt]

(* A slip: any packet that tells its hops. *)
DirectOrRelayed(p) == p.hopStart > 0

Direct(p) == p.hopStart > 0 /\ p.hopStart = p.hopLimit

WillRebroadcast(n, p) ==
  p.to # n /\ p.hopLimit > 0 /\ p.from # n /\ n \notin Mute

(* A slip: a relay does not count its hop. *)
RebroadcastUncounted(n, s, p, over) ==
  IF WillRebroadcast(n, p) THEN RouterSend(n, s, p, over) ELSE s

PerhapsRebroadcast(n, s, p, over) ==
  IF WillRebroadcast(n, p)
  THEN RouterSend(n, s, [p EXCEPT !.hopLimit = @ - 1], over)
  ELSE s

(* FloodingRouter::sniffReceived *)
FloodingSniffReceived(n, s, p, over) ==
  LET answered == p.plain /\ p.reqId # NoId /\ p.to # n /\ ~ IsBroadcast(p.to)
  IN PerhapsRebroadcast(n,
       IF answered THEN CancelSending(s, p.to, p.reqId) ELSE s, p, over)

(* ReliableRouter::sniffReceived answers a packet to us that wants an ack. *)
Acknowledge(n, s, p, replying, over) ==
  IF p.to # n \/ ~ p.wantAck \/ replying THEN s
  ELSE IF p.plain THEN
    IF p.reqId = NoId
    THEN SendAckNak(n, s, "NONE", p.from, p.id, ReplyChannel(p),
                    HopLimitForResponse(p), over)
    ELSE IF Direct(p)
    THEN SendAckNak(n, s, "NONE", p.from, p.id, ReplyChannel(p), 0, over)
    ELSE s
  ELSE SendAckNak(n, s,
         IF p.crypt = PKI /\ <<n, p.from>> \notin Keys
         THEN "PKI_UNKNOWN_PUBKEY" ELSE "NO_CHANNEL",
         p.from, p.id, PRIMARY, HopLimitForResponse(p), over)

(* A slip: an ack does not end the retransmissions. *)
SniffWithoutStopping(n, s, p, replying, over) ==
  FloodingSniffReceived(n, Acknowledge(n, s, p, replying, over), p, over)

ReliableSniffReceived(n, s, p, replying, over) ==
  LET acked == Acknowledge(n, s, p, replying, over)
      stopped == IF p.to = n /\ p.plain /\ p.reqId # NoId
                 THEN StopRetransmission(n, acked, p.reqId) ELSE acked
  IN FloodingSniffReceived(n, stopped, p, over)

ForUs(n, p) == IsBroadcast(p.to) \/ p.to = n

(* A slip: what was acknowledged is taken for handled. *)
RoutingModuleReceivedAcked(n, s, p, replying, over) ==
  LET sniffed == ReliableSniffReceived(n, s, p, replying, over)
  IN [sniffed EXCEPT !.toPhone =
        IF IsBroadcast(p.to) \/ (p.to = n /\ ~ p.wantAck) THEN Append(@, p) ELSE @]

(* RoutingModule::handleReceivedProtobuf *)
RoutingModuleReceived(n, s, p, replying, over) ==
  IF ~ p.plain /\ n \in LocalOnly /\ (p.crypt # PKI \/ IsBroadcast(p.to)) THEN s
  ELSE LET sniffed == ReliableSniffReceived(n, s, p, replying, over)
       IN [sniffed EXCEPT !.toPhone =
             IF ForUs(n, p) THEN Append(@, p) ELSE @]

(* setReplyTo *)
Response(n, s, p) ==
  [from |-> n, to |-> p.from, id |-> s.nextId, hopLimit |-> HopLimitForResponse(p),
   hopStart |-> 0, wantAck |-> p.wantAck, prio |-> RELIABLE, crypt |-> ReplyChannel(p),
   plain |-> TRUE, port |-> "response", reqId |-> p.id, err |-> "NONE"]

(* ProtobufModule::handleReceived returns STOP: the module of the packet's port
   cannot read its payload, and none is called after it. *)
Stopping(n, p) == p.plain /\ p.port = "unreadable" /\ ForUs(n, p)

(* MeshModule::callModules: a module that replies, then the routing module,
   which is last, then the reply goes out. *)
CallModules(n, s, p, over) ==
  LET asked == p.plain /\ p.port = "request" /\ ForUs(n, p)
      replying == asked /\ n \in Responders /\ (p.from # n \/ p.to = n)
      numbered == IF replying THEN [s EXCEPT !.nextId = @ + 1] ELSE s
      routed == RoutingModuleReceived(n, numbered, p, replying, over)
  IN IF Stopping(n, p) THEN s
     ELSE IF replying THEN SendLocal(n, routed, Response(n, s, p), over)
     ELSE IF asked /\ p.from # n
     THEN SendAckNak(n, routed, "NO_RESPONSE", p.from, p.id, ReplyChannel(p),
                     HopLimitForResponse(p), over)
     ELSE routed

HandleReceived(n, s, p, over) == CallModules(n, s, Decoded(n, p), over)

(* ReliableRouter::shouldFilterReceived: someone repeats a packet of ours. *)
ImplicitAck(n, s, p) ==
  IF p.from = n /\ p.id \in DOMAIN s.pending
  THEN StopRetransmission(n, NakToSelf(n, s, "NONE", p.id), p.id)
  ELSE s

(* FloodingRouter::shouldFilterReceived, of a packet seen before. *)
HandleDuplicate(n, s, p, over) ==
  LET cancelled == IF n \in Routers THEN s ELSE CancelSending(s, p.from, p.id)
  IN IF ~ Direct(p) THEN cancelled
     ELSE IF WillRebroadcast(n, p) THEN PerhapsRebroadcast(n, cancelled, p, over)
     ELSE IF p.to = n /\ p.wantAck
     THEN SendAckNak(n, cancelled, "NONE", p.from, p.id, HashChannel(p), 0, over)
     ELSE cancelled

(* A slip: what is received is not remembered. *)
HandleUnremembered(n, s, p, over) ==
  IF <<n, p.from>> \in Ignores THEN s
  ELSE LET acked == ImplicitAck(n, s, p)
       IN IF <<p.from, p.id>> \in acked.recent
          THEN HandleDuplicate(n, acked, p, over)
          ELSE HandleReceived(n, acked, p, over)

PerhapsHandleReceived(n, s, p, over) ==
  IF <<n, p.from>> \in Ignores THEN s
  ELSE LET acked == ImplicitAck(n, s, p)
       IN IF <<p.from, p.id>> \in acked.recent
          THEN HandleDuplicate(n, acked, p, over)
          ELSE HandleReceived(n,
                 [acked EXCEPT !.recent = @ \cup {<<p.from, p.id>>}], p, over)

(* Slips: giving up is reported as success, or not at all, or the record of a
   packet given up is kept. *)
RetransmissionSucceeds(n, s, id, over) ==
  LET entry == s.pending[id]
  IN IF entry.left = 0 THEN StopRetransmission(n, NakToSelf(n, s, "NONE", id), id)
     ELSE [FloodingSend(n, s, entry.packet, over) EXCEPT !.pending[id].left = @ - 1]

RetransmissionWithoutNak(n, s, id, over) ==
  LET entry == s.pending[id]
  IN IF entry.left = 0 THEN StopRetransmission(n, s, id)
     ELSE [FloodingSend(n, s, entry.packet, over) EXCEPT !.pending[id].left = @ - 1]

RetransmissionKept(n, s, id, over) ==
  LET entry == s.pending[id]
  IN IF entry.left = 0 THEN s
     ELSE [FloodingSend(n, s, entry.packet, over) EXCEPT !.pending[id].left = @ - 1]

(* ReliableRouter::doRetransmissions, for an entry whose time has come. *)
Retransmission(n, s, id, over) ==
  LET entry == s.pending[id]
  IN IF entry.left = 0
     THEN StopRetransmission(n, NakToSelf(n, s, "MAX_RETRANSMIT", id), id)
     ELSE [FloodingSend(n, s, entry.packet, over)
             EXCEPT !.pending[id].left = @ - 1]

(* MQTT::onReceive of a packet this node published itself. *)
MqttEcho(n, s, id) ==
  NakToSelf(n, [s EXCEPT !.uplink = @ \ {id}], "NONE", id)

(* RadioInterface::beginSending and handleReceiveInterrupt: what a receiver
   gets of a packet, its header's three-bit hop counts among it. *)
OnAir(p) ==
  [p EXCEPT !.hopLimit = IF @ > HOP_MAX THEN HOP_RELIABLE ELSE @,
            !.hopStart = @ % 8,
            !.prio = UNSET]
============================================================================
