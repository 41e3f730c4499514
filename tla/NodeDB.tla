------------------------------- MODULE NodeDB -------------------------------
(***************************************************************************)
(* The node's settings and the nodes it knows, in memory and in the        *)
(* preferences files (NodeDB.cpp). "config" is config.proto: the private   *)
(* key and, in one value, the other settings. "device" is db.proto: the    *)
(* node records. What module.proto and channels.proto hold is left out:    *)
(* they are only files whose saving can fail. Saving is synchronous:       *)
(* between the steps of one save nothing else runs, but power may fail.    *)
(***************************************************************************)
EXTENDS SafeFile, Sequences, FiniteSets

CONSTANTS Self, Others, NoNode,  \* node numbers
          MaxNodes,              \* MAX_NUM_NODES
          Spare,                 \* how many nodes sizeof(devicestate) has room for
          Keys, NoKey            \* private keys

ASSUME NodeDBAssumption ==
  /\ Files = {"config", "device"} /\ FullAtomic = {"config"}
  /\ Self \notin Others /\ NoNode \notin Others /\ NoNode # Self
  /\ MaxNodes \in Nat \ {0} /\ Spare \in Nat /\ Cardinality(Keys) > 1

VARIABLES up,            \* "off", "boot" while the constructor runs, or "on"
          config,
          meshNodes,     \* the vector, all of it
          numMeshNodes,  \* how much of it counts
          saving,        \* the save under way
          unsaved        \* history: the atomic files whose last save failed, and was reported
                         \* as made or failed for the second time

dbVars == <<up, config, meshNodes, numMeshNodes, saving, unsaved>>

Node == [num : {Self, NoNode} \union Others, user : BOOLEAN, favorite : BOOLEAN]
Fresh(n) == [num |-> n, user |-> FALSE, favorite |-> FALSE]
Blank == Fresh(NoNode)
NoNodes == [i \in 1..MaxNodes |-> Blank]
DefaultConfig == [key |-> NoKey, edit |-> "default"]

(* "legacy" is a position setting with gps_enabled, which the constructor  *)
(* turns into a gps_mode, in memory, after it has decided what to save.    *)
Migrated(c) == IF c.edit = "legacy" THEN [c EXCEPT !.edit = "changed"] ELSE c

NoSave == [todo |-> <<>>, what |-> {}, after |-> {}, good |-> TRUE, retried |-> FALSE, then |-> "on"]
Idle == saving = NoSave
Running == up = "on" /\ Idle

(* saveToDiskNoRetry: config before device. *)
InOrder(what) == (IF "config" \in what THEN <<"config">> ELSE <<>>)
                 \o (IF "device" \in what THEN <<"device">> ELSE <<>>)
SaveOf(what, after, retried, then) ==
  [todo |-> InOrder(what), what |-> what, after |-> after, good |-> TRUE, retried |-> retried, then |-> then]
SaveToDisk(what) == saving' = IF what = {} THEN NoSave ELSE SaveOf(what, {}, FALSE, "on")
SaveDeviceState == saving' = SaveOf({"device"}, {}, TRUE, "on")   \* saveDeviceStateToDisk(): not tried again

(* What pb_encode makes of it. The whole vector is to be written, but the  *)
(* stream has the size of the nodes that count, and Spare more: when it is *)
(* full pb_encode fails, unless it was the last node that did not fit. The *)
(* part that did not fit is taken for no node when it is read.             *)
InMemory(f) == IF f = "config" THEN config ELSE meshNodes
Encoded(f) == IF f = "config" THEN config
              ELSE [i \in 1..MaxNodes |-> IF i <= numMeshNodes + Spare THEN meshNodes[i] ELSE Blank]

SaveProto == /\ saving.todo # <<>>
             /\ \E okay \in BOOLEAN :
                  /\ okay \/ Encoded(Head(saving.todo)) # InMemory(Head(saving.todo))
                  /\ OpenFile(Head(saving.todo), Encoded(Head(saving.todo)), okay)
             /\ UNCHANGED dbVars

(* The flash can be formatted before the second try, but only on an nRF52. *)
Format == file' = [f \in Files |-> Absent] /\ Lose(Files)

(* saveProto returns okay, that the protobuf could be encoded and written, *)
(* and not what close() returned. A second failure is a critical error.    *)
(* module.proto and channels.proto follow config.proto and can fail too.   *)
SaveClosed ==
  /\ At("closed")
  /\ io' = NoIo
  /\ unsaved' = IF file[io.on] # Whole(io.of) /\ (io.okay \/ saving.retried)
                  THEN unsaved \union ({io.on} \intersect FullAtomic) ELSE unsaved \ {io.on}
  /\ \E othersSaved \in BOOLEAN :
       LET good == saving.good /\ io.okay /\ othersSaved
           rest == Tail(saving.todo)
           again == rest = <<>> /\ ~good /\ ~saving.retried
       IN /\ IF othersSaved THEN UNCHANGED faults ELSE io.on = "config" /\ Fault
          /\ saving' = CASE rest # <<>> -> [saving EXCEPT !.todo = rest, !.good = good]
                         [] again -> [saving EXCEPT !.todo = InOrder(saving.what), !.retried = TRUE]
                         [] rest = <<>> /\ ~again /\ saving.after # {} ->
                              SaveOf(saving.after, {}, FALSE, saving.then)
                         [] OTHER -> NoSave
          /\ up' = IF rest = <<>> /\ ~again /\ saving.after = {} THEN saving.then ELSE up
          /\ \/ again /\ ~esp32 /\ Format
             \/ UNCHANGED <<file, last>>
  /\ UNCHANGED <<config, meshNodes, numMeshNodes, esp32>>

---------------------------------------------------------------------------
(* The vector and its count. *)

Listed(nodes, count, n) == \E i \in 1..count : nodes[i].num = n
Index(nodes, count, n) == CHOOSE i \in 1..count : nodes[i].num = n

(* The nodes to keep move to the front; the places from there to "until"   *)
(* are cleared, the others keep what they held.                            *)
Kept(nodes, count, keep) == {i \in 1..count : nodes[i] \in keep}
KeptCount(nodes, count, keep) == Cardinality(Kept(nodes, count, keep))
KeptAt(nodes, count, keep, k) ==
  CHOOSE i \in Kept(nodes, count, keep) : Cardinality(Kept(nodes, i, keep)) = k
Compact(nodes, count, keep, until) ==
  [k \in 1..MaxNodes |-> IF k <= KeptCount(nodes, count, keep) THEN nodes[KeptAt(nodes, count, keep, k)]
                         ELSE IF k <= until THEN Blank ELSE nodes[k]]

HasUser == {node \in Node : node.user}

(* isFull(): at the limit, or short of memory. *)
IsFull(count, lowHeap) == count >= MaxNodes \/ lowHeap

(* A slip: only the oldest is looked for. *)
VictimsAny(nodes, count) == 2..count

(* Whom a full database drops: never the first place, nor a favourite or   *)
(* ignored node (favorite here). Which of the rest depends on keys and     *)
(* ages, which are not modelled.                                           *)
Victims(nodes, count) == {i \in 2..count : ~nodes[i].favorite}

Evict(nodes, count, v) ==
  [i \in 1..MaxNodes |-> IF i \in v..(count - 1) THEN nodes[i + 1] ELSE nodes[i]]

(* getOrCreateMeshNode: the databases it can leave. None if there is no    *)
(* victim: the vector is then read at -1 and the program aborts.           *)
GetOrCreate(nodes, count, n, lowHeap) ==
  IF Listed(nodes, count, n) THEN {[nodes |-> nodes, count |-> count]}
  ELSE IF ~IsFull(count, lowHeap)
    THEN {[nodes |-> [nodes EXCEPT ![count + 1] = Fresh(n)], count |-> count + 1]}
    ELSE {[nodes |-> [Evict(nodes, count, v) EXCEPT ![count] = Fresh(n)], count |-> count] :
            v \in Victims(nodes, count)}

SetNodes(db) == meshNodes' = db.nodes /\ numMeshNodes' = db.count

(* A slip: a packet is handled while the vector is being written. *)
UpdateFromAnyTime(n) ==
  /\ up = "on"
  /\ \E db \in GetOrCreate(meshNodes, numMeshNodes, n, FALSE) : SetNodes(db)
  /\ UNCHANGED <<up, config, saving, unsaved, fsVars>>

(* updateFrom: a packet of a node was heard. *)
UpdateFrom(n) ==
  /\ Running
  /\ \E lowHeap \in BOOLEAN : \E db \in GetOrCreate(meshNodes, numMeshNodes, n, lowHeap) : SetNodes(db)
  /\ UNCHANGED <<up, config, saving, unsaved, fsVars>>

(* updateUser: its user record was. It is saved if it brought a change and *)
(* no record was saved in the last minute.                                 *)
UpdateUser(n) ==
  /\ Running
  /\ \E lowHeap \in BOOLEAN : \E db \in GetOrCreate(meshNodes, numMeshNodes, n, lowHeap) :
       SetNodes([db EXCEPT !.nodes[Index(db.nodes, db.count, n)].user = TRUE])
  /\ \E throttled \in BOOLEAN : SaveToDisk(IF throttled THEN {} ELSE {"device"})
  /\ UNCHANGED <<up, config, unsaved, fsVars>>

---------------------------------------------------------------------------
(* Power. *)

PowerOff == /\ up' = "off" /\ saving' = NoSave /\ config' = DefaultConfig
            /\ meshNodes' = NoNodes /\ numMeshNodes' = 0

(* loadProto and the defaults loadFromDisk falls back on. What is left of  *)
(* a torn file may end at the boundary of a field and be taken for whole:  *)
(* the key and the nodes are among the last fields.                        *)
LoadedConfig(found) ==
  CASE found["config"].is = "whole" -> {found["config"].of}
    [] found["config"].is = "torn" -> {DefaultConfig, [found["config"].of EXCEPT !.key = NoKey]}
    [] OTHER -> {DefaultConfig}
LoadedNodes(found) ==
  CASE found["device"].is = "whole" -> {found["device"].of}
    [] found["device"].is = "torn" ->
         {[i \in 1..MaxNodes |-> IF i <= k THEN found["device"].of[i] ELSE Blank] : k \in 0..MaxNodes}
    [] OTHER -> {NoNodes}

(* Opening or reading a whole file can fail; it is then like a torn one.   *)
Misread == {{}} \union {{f} : f \in {g \in Files : file[g].is = "whole"}}
Found(misread) == [f \in Files |-> IF f \in misread THEN Torn(file[f].of) ELSE file[f]]

NewKey == {k \in Keys : last["config"].is = "whole" => k # last["config"].of.key}

(* cleanupMeshDB, then getOrCreateMeshNode for the node itself. *)
WithSelf(nodes) == GetOrCreate(Compact(nodes, MaxNodes, HasUser, MaxNodes),
                               KeptCount(nodes, MaxNodes, HasUser), Self, FALSE)

(* The constructor: load, drop the nodes without a user, list the own node,*)
(* make a key if there is none, save what changed. On an ESP32 the counter *)
(* of restarts changes every time, and with it the device state. That a    *)
(* setting was migrated is no reason to save it.                           *)
Boot ==
  /\ up = "off"
  /\ \E misread \in Misread :
       /\ IF misread = {} THEN UNCHANGED <<last, faults>> ELSE Fault /\ Lose(misread)
       /\ \E c \in LoadedConfig(Found(misread)), nodes \in LoadedNodes(Found(misread)) :
            LET new == c.key = NoKey
                device == new \/ esp32 \/ Found(misread)["device"].is # "whole"
            IN /\ \E db \in WithSelf(nodes) :
                    SetNodes([db EXCEPT !.nodes[Index(db.nodes, db.count, Self)].user = TRUE])
               /\ \E k \in (IF new THEN NewKey ELSE {c.key}) : config' = Migrated([c EXCEPT !.key = k])
               /\ SaveToDisk((IF new THEN {"config"} ELSE {}) \union (IF device THEN {"device"} ELSE {}))
               /\ up' = IF new \/ device THEN "boot" ELSE "on"
  /\ UNCHANGED <<unsaved, file, io, esp32>>
=============================================================================
