------------------------------ MODULE PhoneAPI ------------------------------
(***************************************************************************)
(* A phone over Bluetooth: mesh/PhoneAPI.cpp between MeshService's queues   *)
(* and the client, with nimble/NimbleBluetooth.cpp as the transport.  The   *)
(* phone's writes and reads run in the Bluetooth task, MeshService::loop    *)
(* and what arrives from the mesh in the main one; the loop is two steps,   *)
(* for the Bluetooth task may run between them.                             *)
(*                                                                          *)
(* api is the session's state, which close() clears:                        *)
(*   state, config_state, readIndex, config_nonce   as in the class         *)
(*   notification  clientNotification, 0 for none                           *)
(* What is fetched into the other slots leaves them in the same call.       *)
(***************************************************************************)
EXTENDS MeshService, FiniteSets, SequencesExt

CONSTANTS
  MAX_NUM_CHANNELS, Configs, ModuleConfigs, Files,   \* how many of each there are
  Nonces, SPECIAL_NONCE,  \* the ids a phone asks for its configuration with
  Recent,                 \* the size of recentToRadioPacketIds
  MAX_NUM_NODES,
  MaxPackets, MaxIds, MaxWrites, MaxEvictions   \* bounds

ASSUME PhoneAssumption ==
  /\ {MAX_NUM_CHANNELS, Configs, ModuleConfigs, Recent} \subseteq Nat \ {0}
  /\ {Files, MaxPackets, MaxIds, MaxWrites, MaxEvictions} \subseteq Nat
  /\ Nonces \subseteq Nat \ {0} /\ SPECIAL_NONCE \in Nat /\ MAX_NUM_NODES \in Nat \ {0}

VARIABLES
  api,
  lastToRadio,            \* the transport's copy of the last write
  recentToRadioPacketIds,
  traced,                 \* a traceroute has gone out
  free,                   \* the transmit queue has room
  mainLoop,               \* "notified": between notifyObservers and its result
  meshNodes,              \* the node database, own node first: each node's place
                          \* when the download began, 0 for one that came since
  evictions,              \* since it began
  link,                   \* the Bluetooth connection
  reading,                \* the phone reads until it reads nothing
  told,                   \* a notification of the phone is on its way
  asked,                  \* the nonce whose configuration it waits for, or 0
  repeated,               \* it asked with the very bytes it had written last
  writes,
  download,               \* what it has read since it asked
  received,               \* the packets it has read, ever
  blocked,                \* the last status it read said the queue is full
  nextId, sent,           \* its packets, and those handed to the mesh (history)
  lostInRead,             \* packets whose read the link did not survive (history)
  skipped                 \* config_state when the phone asked (history)

session == <<api, lastToRadio, recentToRadioPacketIds, traced>>
nodeDB == <<meshNodes, evictions>>
phone == <<link, reading, told, asked, repeated, writes, download, received, blocked>>
packetHistory == <<nextId, sent, lostInRead>>
history == <<packetHistory, skipped>>
vars == <<service, session, free, mainLoop, nodeDB, phone, history>>

States == {"NOTHING", "MY_INFO", "OWN_NODEINFO", "METADATA", "CHANNELS", "CONFIG",
           "MODULECONFIG", "OTHER_NODEINFOS", "FILEMANIFEST", "PACKETS"}

Closed == [state |-> "NOTHING", config_state |-> 0, readIndex |-> 0,
           config_nonce |-> 0, notification |-> 0]

(* Types, and that a phone that may read, or is told, is connected. *)
TypeOK ==
  /\ ServiceTypeOK
  /\ api \in [state : States, config_state : Nat, readIndex : 0 .. MAX_NUM_NODES,
              config_nonce : Nonces \cup {0}, notification : Nat]
  /\ recentToRadioPacketIds \in Seq(1 .. MaxIds) /\ Len(recentToRadioPacketIds) <= Recent
  /\ mainLoop \in {"idle", "notified"}
  /\ {traced, free, link, reading, told, blocked, repeated} \subseteq BOOLEAN
  /\ asked \in Nonces \cup {0} /\ nextId \in 1 .. MaxIds + 1
  /\ skipped \in Nat
  /\ reading \/ told \/ asked # 0 => link

AllNodes == [i \in 1 .. MAX_NUM_NODES |-> i]

Init ==
  /\ ServiceInit
  /\ api = Closed /\ lastToRadio = <<>> /\ recentToRadioPacketIds = <<>>
  /\ traced = FALSE /\ free = TRUE /\ mainLoop = "idle"
  /\ meshNodes = AllNodes /\ evictions = 0
  /\ link = FALSE /\ reading = FALSE /\ told = FALSE /\ asked = 0
  /\ repeated = FALSE /\ writes = 0
  /\ download = <<>> /\ received = <<>> /\ blocked = FALSE
  /\ nextId = 1 /\ sent = [id \in 1 .. MaxIds |-> 0] /\ lostInRead = {}
  /\ skipped = 0

----------------------------------------------------------------------------
(* The main task. *)

(* handleFromRadio, or a module's sendToMesh with a copy to the phone *)
HandleFromRadio(text) ==
  /\ mainLoop = "idle" /\ arrived < MaxPackets
  /\ SendToPhone(text)
  /\ UNCHANGED <<statusQueue, toPhoneClientNotificationQueue, session, free, mainLoop,
                 nodeDB, phone, history>>

Observing == api.state # "NOTHING"

(* checkConnectionTimeout, in onNotify *)
TimedOut == Observing /\ ~ link

(* A slip: loop without its look at the transmit queue. *)
LoopBlind ==
  /\ mainLoop = "idle" /\ fromNumChanged
  /\ told' = (told \/ (api.state = "PACKETS" /\ ~ TimedOut))
  /\ api' = IF TimedOut THEN Closed ELSE api
  /\ mainLoop' = IF TimedOut THEN "idle" ELSE "notified"
  /\ UNCHANGED <<service, lastToRadio, recentToRadioPacketIds, traced, free, nodeDB, link,
                 reading, asked, repeated, writes, download, received, blocked, history>>

(* loop, up to what notifyObservers returns: a status if there is room again,
   then the phone's onNotify, which closes a session whose phone is gone *)
LoopNotify ==
  LET unblocked == ~ lastQueueStatus.free /\ free IN
  /\ mainLoop = "idle" /\ (unblocked \/ fromNumChanged)
  /\ IF unblocked THEN SendQueueStatusToPhone([free |-> free, id |-> 0])
                  ELSE UNCHANGED <<statusQueue, fromNumChanged>>
  /\ api' = IF TimedOut THEN Closed ELSE api
  /\ told' = (told \/ (api.state = "PACKETS" /\ ~ TimedOut))
  /\ mainLoop' = IF TimedOut THEN "idle" ELSE "notified"
  /\ UNCHANGED <<packetQueue, toPhoneClientNotificationQueue, lastToRadio,
                 recentToRadioPacketIds, traced, free, nodeDB, link, reading, asked,
                 repeated, writes, download, received, blocked, history>>

(* loop: oldFromNum = fromNum, whatever came in between *)
LoopStore ==
  /\ mainLoop = "notified" /\ mainLoop' = "idle"
  /\ fromNumChanged' = FALSE
  /\ UNCHANGED <<packetQueue, statusQueue, toPhoneClientNotificationQueue, session, free,
                 nodeDB, phone, history>>

(* The radio sends what is queued. *)
TxQueueDrains ==
  /\ ~ free /\ free' = TRUE
  /\ UNCHANGED <<service, session, mainLoop, nodeDB, phone, history>>

(* getOrCreateMeshNode with the database full: the i-th node goes, those after
   it move up, and the new one is last.  Only those matter that come before the
   last node of a download is read. *)
Evict(i) ==
  /\ mainLoop = "idle" /\ evictions < MaxEvictions
  /\ download # <<>> /\ asked \notin {0, SPECIAL_NONCE} /\ api.readIndex < Len(meshNodes)
  /\ i \in 2 .. Len(meshNodes)
  /\ meshNodes' = Append(RemoveAt(meshNodes, i), 0)
  /\ evictions' = evictions + 1
  /\ UNCHANGED <<service, session, free, mainLoop, phone, history>>

----------------------------------------------------------------------------
(* The Bluetooth task: the connection, and what the phone writes. *)

Connect ==
  /\ ~ link /\ api.state = "NOTHING" /\ writes < MaxWrites
  /\ link' = TRUE
  /\ UNCHANGED <<service, session, free, mainLoop, nodeDB, reading, told, asked, repeated,
                 writes, download, received, blocked, history>>

Forget ==
  /\ download' = <<>> /\ repeated' = FALSE
  /\ skipped' = 0 /\ meshNodes' = AllNodes /\ evictions' = 0

LinkGone ==
  /\ link' = FALSE /\ reading' = FALSE /\ told' = FALSE /\ asked' = 0 /\ blocked' = FALSE
  /\ Forget

LinkLost ==
  /\ link /\ LinkGone
  /\ UNCHANGED <<service, session, free, mainLoop, writes, received, packetHistory>>

(* onDisconnect *)
OnDisconnect ==
  /\ ~ link /\ api.state # "NOTHING"
  /\ api' = Closed
  /\ UNCHANGED <<service, lastToRadio, recentToRadioPacketIds, traced, free, mainLoop,
                 nodeDB, phone, history>>

(* onWrite drops a write that equals the last one. *)
Write(bytes) ==
  /\ link /\ writes < MaxWrites
  /\ writes' = writes + 1
  /\ lastToRadio' = bytes

(* The phone asks for its configuration, first thing or again; then it reads. *)
Ask(nonce, restarted) ==
  LET new == <<"want_config", nonce>> # lastToRadio IN
  /\ Write(<<"want_config", nonce>>)
  /\ api' = IF new THEN restarted ELSE api
  /\ asked' = nonce /\ repeated' = ~ new /\ reading' = TRUE /\ download' = <<>>
  /\ skipped' = api.config_state /\ meshNodes' = AllNodes /\ evictions' = 0
  /\ UNCHANGED <<service, recentToRadioPacketIds, traced, free, mainLoop, link, told,
                 received, blocked, packetHistory>>

(* Slips: readIndex is not reset; a session under way is not restarted. *)
WantConfigReadsOn(nonce) ==
  Ask(nonce, [api EXCEPT !.state = "MY_INFO", !.config_nonce = nonce])
WantConfigOnce(nonce) ==
  Ask(nonce, IF api.state # "NOTHING" THEN api
             ELSE [api EXCEPT !.state = "MY_INFO", !.config_nonce = nonce])

(* handleStartConfig: it starts anew, but for config_state. *)
WantConfig(nonce) ==
  Ask(nonce, [api EXCEPT !.state = "MY_INFO", !.readIndex = 0, !.config_nonce = nonce])

(* A slip: no test for a packet seen. *)
NeverSeen(id) == FALSE

(* wasSeenRecently: the oldest id goes when there is no room *)
SeenRecently(id) == Contains(recentToRadioPacketIds, id)
Remember(id) == recentToRadioPacketIds' = DiscardOldest(recentToRadioPacketIds, id, Recent)

(* A second traceroute within 30 s is not sent; its status says all is well. *)
RateLimited(id) ==
  /\ SendClientNotification(id) /\ SendQueueStatusToPhone([free |-> free, id |-> id])
  /\ UNCHANGED <<sent, free, traced>>

(* service->handleToRadio: it is sent, which may fill the transmit queue *)
HandleToRadio(id, traceroute) ==
  /\ sent' = [sent EXCEPT ![id] = @ + 1]
  /\ free' \in {free, FALSE}
  /\ SendQueueStatusToPhone([free |-> free', id |-> id])
  /\ traced' = (traced \/ traceroute)
  /\ UNCHANGED toPhoneClientNotificationQueue

(* A packet from the phone, a new one or one it sends again; it sends none
   while it waits for its configuration. *)
HandleToRadioPacket(id, traceroute) ==
  /\ asked = 0 /\ id <= nextId /\ nextId' = IF id = nextId THEN id + 1 ELSE nextId
  /\ Write(<<"packet", id>>)
  /\ IF <<"packet", id>> = lastToRadio \/ SeenRecently(id)
     THEN UNCHANGED <<statusQueue, toPhoneClientNotificationQueue, fromNumChanged, sent,
                      free, traced, recentToRadioPacketIds>>
     ELSE /\ Remember(id)
          /\ \/ traceroute /\ traced /\ RateLimited(id)
             \/ HandleToRadio(id, traceroute)
  /\ UNCHANGED <<packetQueue, api, mainLoop, nodeDB, link, reading, told, asked, repeated,
                 download, received, blocked, lostInRead, skipped>>

Disconnect ==
  /\ Write(<<"disconnect", 0>>)
  /\ api' = Closed
  /\ LinkGone
  /\ UNCHANGED <<service, recentToRadioPacketIds, traced, free, mainLoop, received,
                 packetHistory>>

----------------------------------------------------------------------------
(* getFromRadio: the phone reads one message.  It is gone from the device
   once it is encoded, whether or not the link lasts until it is there. *)

ConfigKinds == {"my_info", "own_node", "metadata", "channel", "config", "moduleConfig",
                "node_info", "fileInfo", "config_complete_id"}

Receive(x) ==
  /\ download' = IF x[1] \in ConfigKinds THEN Append(download, x) ELSE download
  /\ received' = IF x[1] = "packet" THEN Append(received, x[2]) ELSE received
  /\ blocked' = IF x[1] = "queueStatus" THEN ~ x[2] ELSE blocked
  /\ asked' = IF x = <<"config_complete_id", asked>> THEN 0 ELSE asked
  /\ UNCHANGED <<link, reading, told, repeated, nodeDB, lostInRead, skipped>>

GetFromRadio(state, x) ==
  /\ link /\ reading /\ api.state = state
  /\ \/ Receive(x)
     \/ /\ LinkGone /\ UNCHANGED received
        /\ lostInRead' = lostInRead \cup IF x[1] = "packet" THEN {x[2]} ELSE {}
  /\ UNCHANGED <<writes, lastToRadio, recentToRadioPacketIds, traced, free, mainLoop,
                 nextId, sent>>

(* The states before the packets: each sends something, and changes api only. *)
Step(state, x, next) ==
  GetFromRadio(state, x) /\ api' = next /\ UNCHANGED service

SendMyInfo == Step("MY_INFO", <<"my_info", 0>>, [api EXCEPT !.state = "OWN_NODEINFO"])

SendOwnNodeInfo ==
  Step("OWN_NODEINFO", <<"own_node", meshNodes[api.readIndex + 1]>>,
       [api EXCEPT !.state = "METADATA", !.readIndex = @ + 1])

SendMetadata == Step("METADATA", <<"metadata", 0>>, [api EXCEPT !.state = "CHANNELS"])

(* The next of several, and after the last the next state with its counter. *)
Advance(last, state, start) ==
  [api EXCEPT !.state = IF last THEN state ELSE @,
              !.config_state = IF last THEN start ELSE @ + 1]

SendChannel ==
  Step("CHANNELS", <<"channel", api.config_state>>,
       Advance(api.config_state + 1 >= MAX_NUM_CHANNELS, "CONFIG", 1))

SendConfig ==
  Step("CONFIG", <<"config", api.config_state>>,
       Advance(api.config_state >= Configs, "MODULECONFIG", 1))

SendModuleConfig ==
  Step("MODULECONFIG", <<"moduleConfig", api.config_state>>,
       Advance(api.config_state >= ModuleConfigs,
               IF api.config_nonce = SPECIAL_NONCE THEN "FILEMANIFEST" ELSE "OTHER_NODEINFOS",
               0))

SendNodeInfo ==
  /\ api.readIndex < Len(meshNodes)
  /\ Step("OTHER_NODEINFOS", <<"node_info", meshNodes[api.readIndex + 1]>>,
          [api EXCEPT !.readIndex = @ + 1])

(* FILEMANIFEST, and OTHER_NODEINFOS without another node, which goes on to it *)
NoMoreNodes == api.state = "OTHER_NODEINFOS" /\ api.readIndex >= Len(meshNodes)

SendFileInfo ==
  /\ api.state = "FILEMANIFEST" \/ NoMoreNodes
  /\ api.config_state < Files
  /\ Step(api.state, <<"fileInfo", api.config_state>>,
          [api EXCEPT !.state = "FILEMANIFEST", !.config_state = @ + 1])

SendConfigComplete ==
  /\ api.state = "FILEMANIFEST" \/ NoMoreNodes
  /\ api.config_state = Files
  /\ Step(api.state, <<"config_complete_id", api.config_nonce>>,
          [api EXCEPT !.state = "PACKETS", !.config_state = 0, !.config_nonce = 0])

(* PACKETS: available fetches a status and a notification, and only without
   either a packet; a status goes first. *)
Notifications ==
  IF api.notification = 0 THEN toPhoneClientNotificationQueue
  ELSE <<api.notification>> \o toPhoneClientNotificationQueue

FetchNotification(rest) ==
  /\ toPhoneClientNotificationQueue' = IF rest = <<>> THEN <<>> ELSE Tail(rest)
  /\ api' = [api EXCEPT !.notification = IF rest = <<>> THEN 0 ELSE Head(rest)]

SendQueueStatus ==
  /\ toPhoneQueueStatusQueue # <<>>
  /\ GetFromRadio("PACKETS", <<"queueStatus", Head(toPhoneQueueStatusQueue).free>>)
  /\ toPhoneQueueStatusQueue' = Tail(toPhoneQueueStatusQueue)
  /\ FetchNotification(Notifications)
  /\ UNCHANGED <<packetQueue, lastQueueStatus, fromNumChanged>>

SendNotification ==
  /\ toPhoneQueueStatusQueue = <<>> /\ Notifications # <<>>
  /\ GetFromRadio("PACKETS", <<"clientNotification", Head(Notifications)>>)
  /\ toPhoneClientNotificationQueue' = Tail(Notifications)
  /\ api' = [api EXCEPT !.notification = 0]
  /\ UNCHANGED <<packetQueue, statusQueue, fromNumChanged>>

SendPacket ==
  /\ toPhoneQueueStatusQueue = <<>> /\ Notifications = <<>> /\ toPhoneQueue # <<>>
  /\ GetFromRadio("PACKETS", <<"packet", Head(toPhoneQueue)>>)
  /\ toPhoneQueue' = Tail(toPhoneQueue)
  /\ UNCHANGED <<api, arrived, dropped, statusQueue, toPhoneClientNotificationQueue,
                 fromNumChanged>>

NothingToRead ==
  /\ link /\ reading
  /\ \/ api.state = "NOTHING"
     \/ /\ api.state = "PACKETS" /\ toPhoneQueue = <<>>
        /\ toPhoneQueueStatusQueue = <<>> /\ Notifications = <<>>
  /\ reading' = FALSE
  /\ IF asked = 0 THEN Forget ELSE UNCHANGED <<download, repeated, nodeDB, skipped>>
  /\ UNCHANGED <<service, session, free, mainLoop, link, told, asked, writes, received, blocked,
                 packetHistory>>

(* The notification reaches the phone, which starts to read. *)
Notified ==
  /\ link /\ told /\ told' = FALSE /\ reading' = TRUE
  /\ UNCHANGED <<service, session, free, mainLoop, nodeDB, link, asked, repeated, writes,
                 download, received, blocked, history>>

PhoneReads ==
  \/ SendMyInfo \/ SendOwnNodeInfo \/ SendMetadata \/ SendChannel \/ SendConfig
  \/ SendModuleConfig \/ SendNodeInfo \/ SendFileInfo \/ SendConfigComplete
  \/ SendQueueStatus \/ SendNotification \/ SendPacket \/ NothingToRead

PhoneWrites ==
  \/ \E nonce \in Nonces : WantConfig(nonce)
  \/ \E id \in 1 .. MaxIds, traceroute \in BOOLEAN : HandleToRadioPacket(id, traceroute)
  \/ Disconnect

Next ==
  \/ \E text \in BOOLEAN : HandleFromRadio(text)
  \/ LoopNotify \/ LoopStore \/ TxQueueDrains
  \/ \E i \in 2 .. MAX_NUM_NODES : Evict(i)
  \/ Connect \/ LinkLost \/ OnDisconnect
  \/ PhoneWrites \/ PhoneReads \/ Notified

Spec == Init /\ [][Next]_vars

(* The main loop runs on, and a phone reads what it may read. *)
FairSpec ==
  /\ Spec
  /\ WF_vars(LoopNotify) /\ WF_vars(LoopStore) /\ WF_vars(TxQueueDrains)
  /\ WF_vars(PhoneReads) /\ WF_vars(Notified)

----------------------------------------------------------------------------
Count(kind, from, to) == [i \in 1 .. to - from + 1 |-> <<kind, from + i - 1>>]
Completed == download # <<>> /\ Last(download)[1] = "config_complete_id"
OtherNodes == ToSet(meshNodes) \ {0, 1}

LastChannel == IF skipped < MAX_NUM_CHANNELS THEN MAX_NUM_CHANNELS - 1 ELSE skipped

(* What comes before the other nodes, and after them. *)
BeforeNodes ==
  << <<"my_info", 0>>, <<"own_node", 1>>, <<"metadata", 0>> >>
  \o Count("channel", skipped, LastChannel)
  \o Count("config", 1, Configs) \o Count("moduleConfig", 1, ModuleConfigs)
AfterNodes(nonce) ==
  Count("fileInfo", 0, Files - 1) \o << <<"config_complete_id", nonce>> >>

(* The other nodes, in the database's order, none twice. *)
Ordered(infos) ==
  \A i, j \in 1 .. Len(infos) :
    /\ infos[i][1] = "node_info"
    /\ i < j => infos[i][2] < infos[j][2] \/ infos[j][2] = 0

(* A finished download is whole and in the order the clients assume.  Asking
   again in the middle of one costs the channels before config_state; an
   eviction under way costs at most one of the other nodes; the special nonce
   leaves the others out.  Asking again with the same bytes is not noticed. *)
DownloadWhole ==
  Completed /\ ~ repeated =>
    LET nonce == Last(download)[2]
        infos == SubSeq(download, Len(BeforeNodes) + 1,
                        Len(download) - Len(AfterNodes(nonce))) IN
    /\ download = BeforeNodes \o infos \o AfterNodes(nonce)
    /\ Ordered(infos)
    /\ IF nonce = SPECIAL_NONCE THEN infos = <<>>
       ELSE Cardinality(OtherNodes \ {x[2] : x \in ToSet(infos)}) <= evictions

(* The phone reads packets in the order they came, each once.  One it never
   reads was lost with the link while it read it, or is in the history of a
   store and forward server, or was lost to a full queue: for a text only when
   as many as the queue holds have come since. *)
PacketsKept ==
  LET kept == received \o toPhoneQueue IN
  /\ \A i, j \in DOMAIN kept : i < j => kept[i] < kept[j]
  /\ \A n \in 1 .. arrived :
       \/ n \in ToSet(kept) \cup lostInRead
       \/ \E p \in dropped : p.num = n /\ (p.text => arrived - n >= MAX_RX_TOPHONE)

(* sendToPhone tells the observers whatever it does, and loop forgets nothing:
   a connected phone that has stopped reading is told of waiting packets. *)
PacketsAnnounced ==
  api.state = "PACKETS" /\ link /\ toPhoneQueue # <<>> =>
    reading \/ told \/ fromNumChanged

(* A packet of the phone's is sent once, although it sends it again, unless as
   many others as are remembered came since. *)
SentOnce ==
  \A id \in 1 .. MaxIds :
    sent[id] > 1 => Cardinality({other \in 1 .. nextId - 1 : other # id}) >= Recent

(* A phone that asks, and stays, gets its configuration, unless it asks with
   the bytes it wrote last, which the transport drops. *)
ConfigAnswered == asked # 0 ~> asked = 0 \/ repeated

(* A phone that was told the transmit queue is full is told when it is not,
   or the status that says so waits for it to read: when a write of its own
   falls between the two steps of loop, no notification follows. *)
Unblocked ==
  blocked ~> \/ ~ blocked
             \/ toPhoneQueueStatusQueue # <<>> /\ Last(toPhoneQueueStatusQueue).free
=============================================================================
