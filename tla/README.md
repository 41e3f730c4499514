# Meshtastic firmware: a verification project

TLA+ models of the firmware under `src/`, checked with TLC on small instances
and, where it says so, proved with TLAPS for every value of the constants.
Paths below are relative to `src/src/`.

## The system

A node runs one cooperative main loop (`concurrency/OSThread`) in which the
router, the radio thread, the modules and MQTT take turns; interrupt handlers of
the radio run at any moment, and on some boards a Bluetooth task calls into the
same code. Nodes share a lossy, half-duplex radio channel. All router state is in
RAM. What follows lists the components, what they keep, what they do and what
makes them correct.

| component | state | operations | correct when |
|---|---|---|---|
| transmit queue, `mesh/MeshPacketQueue` | a priority queue of packets | enqueue, dequeue, getFront, remove, eviction | the head is always what should go next; ties in order of arrival; never above capacity; an eviction takes the last |
| flooding router, `mesh/FloodingRouter`, `mesh/PacketHistory` | packets seen in the last ten minutes | filter duplicates, relay, cancel a relay someone else did | one delivery per phone; a flood ends; a relay does not amplify |
| reliable router, `mesh/ReliableRouter` | `pending`: packet, tries left, next time | send, ack, nak, implicit ack, retransmit | every reliable message ends in a report, and the report is true |
| router, `mesh/Router` | receive queue of four | encode, decode, dispatch, duty cycle, local naks | errors go to the phone, not to the mesh; assertions hold |
| modules, `mesh/MeshModule`, `modules/RoutingModule` | `currentReply` | answer a request, give packets to the phone | one answer or ack per request |
| radio thread, `mesh/RadioLibInterface`, `mesh/SX126xInterface`, `concurrency/NotifiedWorkerThread` | notification word, sendingPacket, isReceiving, interrupt handler enabled | delays, scan, transmit, receive, standby | never deaf, never two transmissions, waiting packets always go |
| mesh service and phone API, `mesh/MeshService`, `mesh/PhoneAPI`, `mesh/StreamAPI` | queues to the phone, download state, last 20 ids | configuration download, packets both ways | order of the download; no duplicate packets; bounded queues |
| MQTT, `mqtt/MQTT` | publish queue | uplink, downlink, echo as implicit ack | an echo ends retransmissions only |
| node database, `mesh/NodeDB`, `SafeFile` | nodes, preferences in flash | update, evict, save atomically | a crash leaves the old or the new preferences |
| XModem, `xmodem` | transfer state | blocks, acks, retries, cancel | the file arrives or the transfer is cancelled |
| power, `PowerFSM`, `sleep` | state, timers | events, timed transitions | no sleep with packets waiting |
| airtime, `airtime` | counters by period | log, utilisation | duty-cycle limits hold |
| administration, `modules/AdminModule` | open edit transaction | settings, favourites, resets, shutdown | a committed edit is durable; what is saved when |
| store and forward, `modules/StoreForwardModule` | the store, an index per client, whom it serves | record, replay to clients and to the own phone | no gap, no repeat; it is there for others again |

They interact by calls (`sendLocal`, `send`, `cancelSending`, `handleReceived`,
`sniffReceived`, `saveToDisk`), by queues (`fromRadioQueue`, `txQueue`, `toPhoneQueue`), by the
notification word between the interrupt handlers and the radio thread, and by
packets on the air. What is hard in it: acks, copies and retransmissions that
cross; copies of one packet by several paths; handlers that nest; an interrupt
between two statements; a Bluetooth task between two statements of the main loop;
queues at their limit; requests repeated over a new connection; power cuts in the
midst of a save; reboots that forget everything. `PROJECT.json` lists these
hazards by line.

## Modules

| module | models | built on |
|---|---|---|
| `PacketQueueOps` | the queue's operations on a sequence | |
| `MeshPacketQueue` | the queue under any sequence of calls | `PacketQueueOps` |
| `MeshPacketQueueProofs` | theorems on the queue | `MeshPacketQueue`, `RouterProofs`, TLAPS |
| `Router` | one node's router stack: each handler an operator on the node's state | `PacketQueueOps` |
| `Mesh` | nodes, phones, radio channel, MQTT, reboots: one action per handler | `Router` |
| `ReliableDelivery` | what a phone is promised about its messages | |
| `RouterProofs` | lemmas on the queue's operations and on each function of the router | `Router`, TLAPS |
| `MeshProofs` | theorems on the mesh, and that it keeps the promises | `Mesh`, `RouterProofs`, `ReliableDelivery` |
| `RadioIf` | one node's radio thread, interrupts and callers | |
| `RadioIfProofs` | theorems on the radio thread | `RadioIf`, TLAPS |
| `MeshService` | the queues to the phone: each function half of an action | |
| `PhoneAPI` | a phone's session over Bluetooth, between two tasks | `MeshService` |
| `PhoneAPIProofs` | theorems on the session | `PhoneAPI`, TLAPS |
| `SafeFile` | one file written beside its old version, step by step | |
| `NodeDB` | settings and nodes in memory and on the flash: save, load, evict | `SafeFile` |
| `AdminModule` | what is asked of both, restarts and power cuts | `NodeDB` |
| `AdminModuleProofs` | theorems on the files, the settings and the nodes | `AdminModule`, TLAPS |
| `XModem` | the file transfer adapter: each case of `handlePacket` | |
| `FileTransfer` | the adapter with a client and a link that breaks | `XModem` |
| `FileTransferProofs` | theorems on uploads and downloads | `FileTransfer`, TLAPS |
| `StoreForward` | the store-and-forward server, its clients and its phone | |
| `StoreForwardProofs` | theorems on the replay | `StoreForward`, TLAPS |
| `MCMeshPacketQueue`, `MCMesh`, `MCRadioIf`, `MCPhoneAPI`, `MCAdminModule`, `MCFileTransfer`, `MCStoreForward` | constants for TLC | |

**Router and Mesh.** A node's state is a record: `pending`, `recent` (packet
history), `txQueue`, `fromRadio`, `toPhone`, `uplink` (published to MQTT), `nextId`
and `failed` (an assertion failed). `Router` translates each C++ function to an
operator of the same name on that record, with the functions it calls inside it,
in their order. `Mesh` turns the handlers the main loop runs into actions:
`PhoneSend`, `HandleReceivedPacket` (one packet of `Router::runOnce`),
`DoRetransmission` (one entry of `doRetransmissions`), `MqttReceive`, `StartSend`
and `CompleteSending` (the radio's part in a transmission, received by any subset
of those in range who are not transmitting), `Reboot`. A message is
identified by originator and id; its payload is its port. Encryption is the key:
a channel or PKI, and who has it. `HashAsIndex` says what a channel's hash denotes
when it is read as a channel index. A payload that the module of its port cannot read
(`Stopping`) stops the dispatch: it is neither acknowledged nor given to the phone.
`HandleOwn` is what `sendLocal` makes of the phone's own broadcast: a request in one is
answered `NO_RESPONSE` to the phone itself.

**RadioIf.** The radio thread is a stack `todo` of steps, one per stretch of code
that nothing can divide but an interrupt matters to; `setStandby` pushes a
`checkNotification` of its own, so handlers nest as they do in the code. Reading
and clearing the notification are two steps. `send` is two steps as well, between
which another task may run.

**ReliableDelivery.** Phases new, pending, settled; whether the message reached a
phone; what the sender's phone was told. `Mesh!Promise` maps to it: an ack from the
destination only for a message that arrived, failure only after the
retransmissions ended, and every report ends them. A report that reaches the phone
still encrypted tells it nothing and counts as none.

**MeshService and PhoneAPI.** The main task gives packets to the queues
(`HandleFromRadio`) and runs `MeshService::loop`, which is two actions:
`LoopNotify`, up to what `notifyObservers` returns, and `LoopStore`, which sets
`oldFromNum`; the Bluetooth task may run between them. The phone writes
(`WantConfig`, `HandleToRadioPacket`, `Disconnect`) and reads: one action for each
message `getFromRadio` can return, named for it, with the fetching `available`
does in the same call. `fromNumChanged` stands for `fromNum # oldFromNum`.
`api` is what `close()` clears. The link can be lost at any read, and what was read
is then gone, since the firmware keeps no copy. `onDisconnect` and the timeout in
`onNotify` both close the session, in either order.
`SendToPhone` queues a packet (`EnqueueToPhone`) or, a text on an ESP32 that is a store and forward
server, leaves it to the history (`LeaveToHistory`) and only tells the observers.

**SafeFile, NodeDB and AdminModule.** `io` is the write under way: opened, written,
read back, the old file removed, the new one renamed, on other platforms than the
ESP32 by copying. Each is a step, power may fail between any two, and one may fail. A
file on the flash is absent, whole or torn, and with what content. `saving` is the
list of files `saveToDisk` still has to write, whether this is its second try, and what is to be saved
after it (`after`: position settings are saved in two goes). `Encoded` is what `pb_encode` makes of a file:
the stream has the size of the nodes that count, and some more (`Spare`), and the callback writes the whole
vector; `okay` is what it returns. A file encoded in part is hashed, read back and moved as it is. `Migrated` is what the
constructor makes of an old position setting, in memory only. `given` is a private key that a phone
has set and that is not saved yet. `Misread` is a whole file that a start cannot open or read.
`NodeDB` keeps the vector of nodes and its count apart, as the code does: some
handlers change one and not the other. `AdminModule` adds a handler per action,
and the restarts that follow most of them.

**XModem and FileTransfer.** A disjunct of `handlePacket` per case of the C++
function. The file on the flash is the sequence of its blocks. A file that cannot be
opened (`RefuseReceiving`) and a block that cannot be written (`ReceiveUnwritten`) are
outcomes beside them: `handlePacket` acknowledges that block as any other. `Overlaid` is the
name left in the buffer when one is copied over another. The client is not
in this repository; `FileTransfer` has one that follows the protocol: it repeats
what was not answered, asks again for what is damaged or out of turn, cancels when it is
refused, and starts over a limited number of times later.

**StoreForward.** The store with its wrap, an index per client, and the four
variables with which the thread (`RunOnce`) and the phone's reads (`GetForPhone`)
serve one client at a time. `got` is what each client was given.

## Runs

| run | instance | checks |
|---|---|---|
| `queue` | capacity 3, 5 sends, 3 priorities, 2 originators, 2 ids | order, stability, bound, eviction |
| `delivery` | 3 nodes all in range, one of them a router role, a reliable message 1 to 3, or a request of phone 1 that stays off LoRa, 2 transmissions | truth of acks, implicit acks, no message settled without a report, refinement of `ReliableDelivery` |
| `faults` | a line of 3, secondary channel unknown to the node in the middle, MQTT on node 1, duty cycle on node 2, one reboot | single delivery, bound on attempts, early acks, each hop counted |
| `flood` | a line of 3, either a request 1 to 3 that every node could answer a message that no module can read, or a broadcast with 3 hops | no amplification, a report at last, silence at last |
| `false_ack` | 2 nodes, node 1 has node 2's key but not the reverse | a false ack (violation) |
| `hash_index` | 2 nodes, no keys exchanged | the failed assertion (violation) |
| `radio` | 2 packets, 1 reconfiguration, main task only | assertions, never deaf, work scheduled, packets leave |
| `radio_front` | as `radio` | the front of an empty queue is used (violation) |
| `phone` | one phone; queues of one; 2 channels, one config of each kind, one file; 3 nodes, one eviction; 2 packets to the phone, 2 ids from it with one remembered, 3 writes, an ordinary and the special nonce | the download is whole, packets in order, announced, sent once; the phone is answered and unblocked at last |
| `storage` | 2 other nodes and room for 2, in a stream with room for 1 more than count; an ESP32 or another platform; 3 settings, 2 keys; two flash faults, failed reads and power cuts in a save together, any number of restarts between saves | files old or new, the key, favourites, durable commits |
| `xmodem` | a file of one block and one of two, whose name begins with the other's; 3 retransmissions, 2 tries of the client, 3 damaged or late messages or failed writes, 3 lost links, restarts or stops; any number of transfers | transfers that end are whole, and those that go on end |
| `storeforward` | one client, one other node, the own phone; a store of 2, 3 messages, 2 requests with windows of 1 or 2, a clock of 2, one restart | replayed whole, once, in order; the server does not stay busy |

Bounds: `MaxSends`, `MaxSent`, `MaxReboots`, `MaxReconfigures`, the number of
packets, and the hop limits. Two transmissions stand for
`NUM_RETRANSMISSIONS` of three: the first, which must not be cancelled by an early
ack, the last, after which a failure is reported; a third adds states of neither
kind. `MAX_RX_FROMRADIO` is the code's four and overflows in `faults`. A queue of three
evicts, and a queue of `MAX_TX_QUEUE` four does not fill in the mesh. A line of three
has a node that only hears relays; the triangle has copies over two paths.
A queue of one to the phone overflows with the second packet; two channels are the
least with which a download can be restarted in the midst of them; two ids with
one remembered forget one. In `storage` a database of two is full with one newcomer, which the second evicts unless it is a
favourite, and after a reset one node fits into a save and the other does not; a second fault is what the second try of a save
meets. A vector in which many nodes move at once takes more, and the theorems are for any number. A file of two blocks has a first, a last and a resent
one, and three errors with three breaks exhaust the client's tries, twice for
an upload. A store of two starts over under the third message, when a client may
have been served one. In `phone`, evictions happen only during a download of the
nodes: elsewhere the phone does not see them.
Deadlock is not checked where the system comes to rest on its own.

Fairness. In `Mesh`: weak fairness of the handlers of each node, because the main
loop runs for ever, timers run out and a transmission ends. No packet need be
received by anyone. In `RadioIf`: weak fairness of the thread, of delays and of
transmissions; strong fairness that a scan and a look at the receiver do not find
the channel busy for ever; and an end to arriving packets, since a node that
receives without pause never transmits. Nothing is assumed of lost interrupts: the
properties exempt behaviours in which a notification was cleared unseen, in which
`startTransmit` failed, the radio was reconfigured or `startSend` dropped a packet (each
leaves a waiting packet without a timer until the next packet goes by). In `PhoneAPI`: weak fairness of the
main loop's two steps and of the radio's sending what is queued, and of a phone
that, connected, reads what it was told of until it reads nothing; a phone need
not connect, ask or write. In `FileTransfer`: of the client, which goes on with
the transfer it wants; the firmware answers within the client's write and needs
none. In `StoreForward`: of the thread, which runs every `packetTimeMax` and at last
finds the channel free; nothing of the phone or the clients.

Each property of a passing run is shown to depend on the code: `PROJECT.json` names,
for each, a slip in one operation that TLC finds to violate it. The slips are
defined beside the operations they stand for.

## Findings

* `false_ack`: `FloodingRouter::shouldFilterReceived` acknowledges a repeated copy
  with `NONE` even if the first copy could not be decoded.
* `hash_index`: the same statement uses the hash in a packet still encrypted as a
  channel index.
* `radio_front`: `setTransmitDelay` after `startReceive` may find the queue empty.

Not run, but seen on the way: a packet that `startSend` drops because
`config.lora.tx_enabled` was cleared after it was queued leaves the radio in standby,
deaf until it is reconfigured or told to send again (`Attended` makes the exception); a phone's hop limit above 7 is lowered in
`beginSending` after `hop_start` was set to it; a full receive queue may drop the
node's own nak; with a Bluetooth task, `assert(txp)` can fail. The properties of the later
modules say what holds, and where they make an exception it is one of these:

* Phone. `handleStartConfig` does not reset `config_state`, so asking again in the
  midst of the channels leaves out those before it, and asking again later starts
  them beyond the last. `onWrite` drops a write that equals the beginning of the last one,
  `lastToRadio` outlives the connection, and so a request repeated with the same nonce
  is not answered. A status queued between `notifyObservers` and `oldFromNum = fromNum`
  is not announced; the phone finds it when something else is. A rate-limited
  traceroute gets a status that says all is well, and its repetition is ignored
  as a duplicate. A packet counts as read once it is encoded. An eviction during a
  download moves a node to an index already read. `available()` may reset an
  XModem answer younger than the one it fetched.
* Storage. `saveProto` returns whether the protobuf could be encoded and ignores
  what `close()` returns, although the comment before it promises
  true for success: a failed readback is never tried again, and a second try that fails is
  the last (`unsaved` has the files of both). On an nRF52 a failed
  save of one file formats the flash, and with it goes a `config.proto` that was not to
  be saved. `factoryReset` and `installDefaultDeviceState` set the count of nodes to
  zero and leave the vector, of which as many as `pb_encode` has room for are saved and return after the restart
  (`admin.pb.h`:192 and :204 speak of all configuration and of a reset). With more, the encoding fails,
  the file that holds a part of them passes the readback (its hash is of what was written) and replaces the old one, and the
  second try fails alike, on an nRF52 after a format (`Encoded`, `SaveProto`). A private key set in an open
  transaction is in use before it is saved (`given`). Position settings are saved after the nodes, in a save of
  their own. `gps_enabled` is turned into a `gps_mode` after the constructor has decided what to save. A
  database full of favourites has no victim, and `meshNodes->at(-1)` aborts.
  Removing an unlisted node from a full one clears a place past its end. A favourite
  without a user record is dropped at the next start. `SetOwner` in an open transaction
  may be saved at once by `updateUser`, and a shutdown saves what was not committed
  (`admin.pb.h`:187). On an ESP32, `reboot_count` makes every start rewrite `db.proto`,
  whose old version is removed first.
* XModem. `isEOT` is reset only by the ACK after the last block: a download left there
  ends the next one after its first block, with an EOT as if it were whole
  (`cutShort`). An upload that is left keeps `isReceiving`, without a timeout, so every
  other transfer is refused until an EOT or a CAN, and CAN removes the half file. CAN removes the
  file last named even if it was being downloaded. A data block repeated after a lost
  ACK is answered with NAK. `retrans` is reset by an ACK only. An unread answer is
  overwritten by the next. `handlePacket` ignores what `file.write` returns (line 162): with a
  full flash an upload ends with an ACK and a block missing (`spoilt`). The name of a file is copied
  over the one before without its end (line 121): a shorter one keeps the tail of the longer, and
  the transfer is of the file so named until the node restarts (`made.as`).
* Store and forward. With `historyReturnMax` messages sent, `runOnce` neither sends
  nor ends: the server stays busy until that client aborts (`BusyEnds` makes the
  exception), or, when the client is the phone, with `requestCount` where it
  was for the next. The thread serves the phone too, with the last client's window.
  A request with a short window moves the index past older messages, which a later,
  longer window does not reach. A message heard in the first second (time 0) is never
  replayed. When the store is full it forgets everything at once.

## Proofs

The queue, for every capacity, set of priorities and set of nodes
(`QueueAssumption`):

* `QueueTypeOK`: never above capacity.
* `QueueSorted`: the order is inductive on its own once types are known. The lemmas at the
  start of `RouterProofs` carry it: `UpperBound` returns a position that splits the
  queue (by the well-ordering of positions), insertion there keeps the order,
  removing an element or the last one keeps it.
* `QueueFirstComeFirstServed`: not inductive alone; with `Stamped` (every stamp in the
  queue is below the counter) and `Sorted` it is, because a new packet has the
  greatest stamp and goes behind every packet it need not precede.
* `QueueEvictsOnlyTheLast`, an action property: what a full queue loses to a newcomer goes
  last, and would have gone after it.

The radio thread, for every set of packets and every number of reconfigurations:

* `RadioTypeOK`: each packet has one owner (the queue or the transmission under way),
  for any set of calling tasks.
* `RadioAssertionsHold`: under the assumption that no Bluetooth task calls it,
  `startSend` finds a packet and no transmission. `Attempt` looked at the queue, but
  `setStandby` and the interrupt handlers nested in it run before `startSend`. The
  inductive invariant (`StackOK`) describes the stack above a scan to come: only
  interrupt handlers and standby steps; the notification they have still to read is
  not the end of a delay; and once a `timer` step may start a delay, nothing above
  the scan reads the notification again. So no second attempt to send nests there.
  `StackOK` was checked by TLC with two packets before it was proved.

* `RadioAttended`: the radio is never left deaf, whichever tasks call. `Attended` speaks of
  a thread with an empty stack; the invariant (`AttendedInv`) of every stack: each step on
  it that stops the radio has below it one that listens, scans or transmits, and the radio
  is awake unless such a step is still to come, a notification was cleared unseen, or a packet
  was dropped and the radio is in the standby that the scan put it in (`StillOK`).
* `RadioWorkScheduled`: in the same way (`WorkInv`), each step that stops a delay has below it
  one that begins it again. Both were checked by TLC with a Bluetooth task beside the main one.

The phone's session, for any capacity of the queues, number of ids remembered, channels,
files and nodes (`ServiceAssumption`, `PhoneAssumption`):

* `PhoneTypeOK`, and with it the bounds of the queues.
* `PhonePacketsKept`: the invariant counts: each packet that came is read, waits, or is
  excused by a lost link or an overflow; what waits came after all that was read
  (`OrderOK`); and behind one that waits there are no more than came after it, which is why
  one dropped from the head has a queue's length behind it.
* `PhonePacketsAnnounced`: `AnnouncedOK` covers the moment between the two steps of `loop`, when
  `fromNumChanged` is about to be cleared.
* `PhoneSentOnce`: the ids remembered are distinct and older than the next, and an id sent but
  forgotten was followed by as many others (`RememberedOK`), by counting the set of those.
* `PhoneDownloadWhole`: for each state of the session the invariant (`Stage`) says what the phone has read by
  then: all of the kinds before, and of the present one as much as `config_state` says. Of the other nodes it has
  those before `readIndex` that are still in the database, in its order (`SentNodes`), except as many (`Missed`) as an
  eviction has moved under the index. It needs that what is in the database keeps the order it had (`InPlace`).

Storage, for any number of nodes, files, settings, faults and power cuts
(`NodeDBAssumption`, `SafeFileAssumption`):

* `FlashOldOrNew`: `WriteOK` says what the file under way and its temporary copy hold at each step of
  a write; the old version goes only when the temporary one is all that was written, which is `Encoded` of
  the vector and not always all of it.
* `AdminKeyKept`, `AdminFavouritesKept`, `AdminConfigSaved`, `AdminTypeOK`: a save goes through its list of files
  one by one, and for each file the flash, what was last closed, and the memory (the settings up to `Migrated`, the key up to
  `given`, the nodes up to `Encoded`) agree, or it is still on that list or among those of `after`. Looking for this invariant showed that one flash fault was too few for the
  run: with two, the second try of a save fails as well, and `ConfigSaved` was false. The
  failure is a critical error in the code, and `unsaved` has those files now.

Store and forward, for any store, clients, windows and restarts (`StoreForwardAssumption`):

* `StoreReplayedOnce`: an index stands at the last message its client was given (`IndexOK`), and
  the store holds what was heard since it was last emptied (`StoreOK`).
* `StoreReplayWhole`: the client served got all it asked for up to its index (`ServedOK`).

File transfers, for any files and any number of errors (`XModemAssumption`), and any way in which a
name may overlay another as long as doing it twice changes nothing (`NameAssumption`):

* `TransferUploadWhole`, `TransferFetchWhole`, `FileTransferTypeOK`: the file being received is a beginning of
  the one sent, block by block, unless a write failed (`ReceivingOK`); of every file only the last block is short
  (`FlashOK`), which is where a download ends; the adapter's and the phone's block numbers agree up to the
  block whose answer is on its way (`PutOK`, `GetOK`), so a late or repeated one is out of turn. A phone that
  asks for a download again gets the same file (`Settled`).

The mesh, for any nodes, topology, channels, keys, messages, number of transmissions and
capacity of the queues (`RouterAssumption`, `MeshAssumption`). The handlers nest deeply, so the argument
goes through what each may do at most. `Allowed` is that: the state after differs from the one before by
packets of the node's own with what it may say (`Own`, `Told`), by at most one copy more of what it sends
on, by records of its own new ids. A lemma per function of `Router`, in `RouterProofs`, says what it is
allowed; `Settles` and `SniffPending` say which records a handler drops. `Steps` puts the
actions in these terms (`NextSteps`), and the invariants are proved of `Steps`:

* `MeshTypeOK` from `BaseInv`: beside types, that what waits to be transmitted is encrypted and has a key, that
  what waits to be handled is encrypted or the node's own, and that a record is of a packet of the node's own.
* `MeshDeliveredOnce` from `DeliveryInv`: what a phone was given is in the node's history (until a
  reboot empties both: the model's `toPhone` is what was given since).
* `MeshAttemptsBounded` from `AttemptsInv`: transmitted, waiting and still allowed together
  never exceed the budget, and a message not sent yet has none of the three.
* `MeshHopsCountable` from `TraceInv` (`Here`, `There`): what a node has in hand of another's packet came along the topology in as many hops as its
  header says, and one more (`Leads`); a relay lowers the limit by one and its neighbours are one hop further. It assumes
  that no phone asks for more than seven hops (`ShortHops`): `beginSending` lowers a higher limit to three
  after `hop_start` was set to it.
* `TraceInv` says besides, which the next ones need: what is about has the hops and the key of a message that was sent, or an id
  of the firmware's own; what a node relays it remembers; what a destination
  remembers and can decode and read its phone has.
* `MeshRelayBounded` from `RelayInv`: what a relay has transmitted of a message, has queued and may still
  queue (`Share`) is bounded by the origin's transmissions that have ended, of which each gave it one copy at
  most, and one for each reboot. What it may still queue depends on the order of its receive queue: each copy
  straight from the origin counts, any other only when it is the first the node handles (`Owed`). So `Allowed`,
  `Taken` and `Received` say what becomes of that (`Fades`, `Drains`, `Swells`). It assumes `ShortHops`, since of
  a higher hop limit a relayed copy may look direct, and `[]AssertionsHold`, since `reboots` does not
  count those that a failed assertion brings on.
* `MeshImplicitAckMeansHeard` and `MeshAckMeansHandled` from `VouchInv`: every routing packet, wherever
  it is, says what is so (`Claims`), and what is so stays so. They assume `MaxReboots = 0` and
  `[]AssertionsHold`, since a rebooted node forgets what was acked for it, and the second that destinations can decode
  what they are sent (`Decipherable`, which says too that a module there can read the payload): the run `false_ack` is the
  counterexample. The run `delivery` satisfies all three. `[]AssertionsHold` is a hypothesis of these theorems and no theorem of
  its own: the run `hash_index` shows that the code does not see to it.
* `MeshImplementsReliableDelivery`: under the same assumptions, each step of the mesh is one of
  `ReliableDelivery` or a stutter. `Moves` says it message by message: a step settles,
  reports or delivers one message at most, since what answers one message is never a copy of another.
* `MeshResolvedIsReported` from `HeedInv` and `ReportInv`: the words a node tells itself (`sendAckNak` to its own
  number) have ids of their own, which no packet history holds until they are handled (`HeedInv`); so
  each is heard, and a record that is gone has left a report with the phone or a word in the receive queue
  (`ReportInv`). It assumes `MaxReboots = 0`, `[]AssertionsHold`, that no node ignores itself and
  `[]AllRoomy`: a sender's receive queue is never full with such a word among its packets. The last is needed, for a
  full `fromRadioQueue` drops its oldest packet: with three nodes and `MAX_RX_FROMRADIO` 1 or 2 TLC finds the
  property violated, and at 3 it holds.
* `MeshNeverForgotten` from `AiredInv` and `SentInv`. `SentInv` counts from below what `MeshAttemptsBounded` counts
  from above: what went out, what waits in the transmit queue and what the record of a message still allows are at
  least `NUM_RETRANSMISSIONS`, or 1 for a message without a record. `stopRetransmission` may take a copy out of the
  queue only when the record says that it is not the first. A record also goes when the sender hears its own packet
  repeated, and that takes `AiredInv`: a message that is on the air, or that a node had from the air, went out at its
  originator. It assumes that `Router::send` does transmit the messages (`Sendable`: the transmitter is on, others are addressed,
  there is a channel or a key), `[]AssertionsHold` (a failed assertion is a reboot that `reboots` does not count)
  and `[]AllRoom`: a sender's transmit queue is never full. The runs `delivery` and `faults` satisfy all
  of these.

Each invariant was checked by TLC, on a small instance of its component, before it was proved.

Only model-checked:

* What the assumptions above exclude. `NeverForgotten`, for one, does not hold for all constants: a node whose
  transmitter is off, a full transmit queue and a message that cannot be encoded each lose a packet without a trace.
* Liveness under fairness, and `ENABLED`, which are out of the prover's reach: `EventuallyReported`,
  `EventuallyQuiet`, `EventuallyLeaves`, `ConfigAnswered`, `Unblocked`, `Transferred`, `BusyEnds`.

## Abstractions

* The packet history does not expire: behaviours are shorter than
  `FLOOD_EXPIRE_TIME`. Timers may run out at any time, so `nextTxMsec` and its
  adjustments are not state.
* One packet of `runOnce`'s loop, one entry of `doRetransmissions` per action: more
  interleavings than the main loop has, and those a Bluetooth task adds.
* Generated ids are unique. `decoded.request_id` read from a packet that is not
  decoded matches no pending id.
* `sendLocal`'s channel override gives the primary channel. `from` is 0 in a packet from
  the phone until `Router::send` fills it in: the model has the node's number from the
  start, and `HandleOwn` is where the code tells the two apart: the phone's own broadcast is not given
  back to it, but a request in it is answered to the phone with `NO_RESPONSE`, which also ends its
  retransmissions.
* Collisions and half-duplex operation: any subset of the idle nodes in range
  receives a transmission. That a transmission may be aborted is in `RadioIf`; to
  `Mesh` it is one nobody receives.
* `toPhone` is everything the phone was given; the queue's capacity is the phone API's.
* In `RadioIf` the queue is a set and its operations are atomic;
  `startReceiveDutyCycleAuto` with `enableInterrupt`, and `startTransmit` with it, are one
  step (packets are much longer than the time between); a task's `notify` is atomic.
* Of the modules that end the dispatch with `STOP` there is the one that cannot read its payload. One that
  has handled a packet and stops, perhaps with a reply (administration, store and forward), and one that asks to ignore a request
  (`ignoreRequest`) are not modelled.
* Not modelled of the router: packets too large, port filters
  (`CORE_PORTNUMS_ONLY`, neighbour info), `KNOWN_ONLY`, the NodeInfo sent after
  `PKI_UNKNOWN_PUBKEY`, MQTT downlink of other nodes' packets, traceroute's changes.
* In `PhoneAPI` a packet is the number it came as, and whether it is a text. The
  Bluetooth task's calls are atomic; two calls of `close()` at once, a packet dequeued
  while `getNodenumFromRequestId` rotates the queue, and memory are not modelled. A write
  that is a proper prefix of the last one counts as another. Only traceroutes are
  rate-limited; the 30 seconds last as long as the run. Whether an ESP32 is a store and forward server may
  change between two texts.
* In storage, what `module.proto` and `channels.proto` hold is left out: they are files that can fail to be
  saved, with what follows from it for the others. So are the changes of `moduleConfig` that are not saved:
  `installRoleDefaults` under a new role (`modules/AdminModule.cpp`:485, `mesh/NodeDB.cpp`:612-658; of `config` it
  changes what the save that follows takes along), the intervals that every start coerces (`mesh/NodeDB.cpp`:219-236). Settings are a key and
  a value, nodes are of one size, owner data is no state, and a licensed node, which makes no key, does not occur. What a truncated
  encoding holds of the node it breaks off in is not read as a node with a user. Which of the
  nodes that are not favourites is evicted is open. A hash that agrees by accident does
  not occur. Opening a file for writing starts it afresh, a leftover `.tmp` too (true of
  ESP32 and portduino; the nRF52's library is not in this repository). Between a factory
  reset and its restart nothing is asked or heard; the own node is not removed.
* In `FileTransfer` a block is its file and number, damage is a flag (the CRC finds it),
  and sequence numbers do not reach 2^16. One client uses the adapter at a time. A write
  that fails leaves nothing of its block; of one that leaves a part nothing more is claimed.
* In `StoreForward` a replayed message counts as given when it is handed to the mesh; the
  channel utilisation holds the thread up, and no more. Only ESP32 builds give the own
  phone stored messages; others are behaviours without `GetForPhone`.

## Not modelled

`PROJECT.json` gives each component's status. Left out on purpose: ciphers,
compression (`unishox2`), protobuf encoding and the bytes of frames are pure
computation or generated code; screens, input, GPS, sensors and boards are drivers
whose logic is mostly I/O (much of the source by lines); the remaining
modules carry application data over the router that is modelled.
`StreamAPI`'s framing, the MQTT connection and proxy, airtime counters and `PowerFSM` could
be modelled and are not yet.

## Plan

Done: queue, router stack, mesh, abstract delivery, radio thread; phone sessions;
storage and administration; file transfers; store and forward; the proofs above.
Next, in this order:

1. Time: `PacketHistory` expiry and purge, `nextTxMsec` with rollover on a small width,
   airtime counters by period.
2. `PowerFSM` with what vetoes sleep, MQTT downlink, an abstract specification of a
   phone's session.
