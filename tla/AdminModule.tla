---------------------------- MODULE AdminModule ----------------------------
(***************************************************************************)
(* What a phone or an administrator asks of the settings and of the node   *)
(* database (AdminModule.cpp): each change is saved at once unless an edit *)
(* transaction is open, and most are followed by a restart.                *)
(***************************************************************************)
EXTENDS NodeDB

VARIABLES hasOpenEditTransaction,
          wiped,     \* history: a factory reset awaits its restart
          given      \* history: the private key a phone has set, until it is saved, if it did

adminVars == <<hasOpenEditTransaction, wiped, given>>
vars == <<fsVars, dbVars, adminVars>>

Init == /\ FsInit
        /\ up = "off" /\ config = DefaultConfig /\ meshNodes = NoNodes /\ numMeshNodes = 0
        /\ saving = NoSave /\ unsaved = {}
        /\ hasOpenEditTransaction = FALSE /\ wiped = FALSE /\ given = {}

SaveChanges(what) == IF hasOpenEditTransaction THEN UNCHANGED saving ELSE SaveToDisk(what)

Settings == {"default", "changed"}

(* Bound: in the seconds between a factory reset and its restart nothing   *)
(* is asked or heard.                                                      *)
Asked == Running /\ ~wiped /\ UNCHANGED <<up, unsaved, fsVars, wiped>>

BeginEdit == /\ Asked /\ hasOpenEditTransaction' = TRUE
             /\ UNCHANGED <<config, meshNodes, numMeshNodes, saving, given>>

(* A slip: the transaction is closed only after the save was asked for. *)
CommitEditLate == /\ Asked /\ hasOpenEditTransaction' = FALSE
                  /\ SaveChanges(Files)
                  /\ UNCHANGED <<config, meshNodes, numMeshNodes, given>>

CommitEdit == /\ Asked /\ hasOpenEditTransaction' = FALSE
              /\ SaveToDisk(Files)
              /\ UNCHANGED <<config, meshNodes, numMeshNodes, given>>

(* handleSetConfig, but for the two cases below. What a new role or region *)
(* changes in moduleConfig is left out.                                    *)
SetConfig == /\ Asked
             /\ \E edit \in Settings : config' = [config EXCEPT !.edit = edit]
             /\ SaveChanges({"config"})
             /\ UNCHANGED <<meshNodes, numMeshNodes, hasOpenEditTransaction, given>>

(* Position settings: the device state is saved first, on its own. *)
SetPosition ==
  /\ Asked
  /\ \E edit \in Settings \union {"legacy"} : config' = [config EXCEPT !.edit = edit]
  /\ IF hasOpenEditTransaction THEN UNCHANGED saving
     ELSE saving' = SaveOf({"device"}, {"config"}, FALSE, "on")
  /\ UNCHANGED <<meshNodes, numMeshNodes, hasOpenEditTransaction, given>>

(* Security settings bring a private key, or none until the next start.    *)
SetSecurity ==
  /\ Asked
  /\ \E k \in Keys \union {NoKey} : config' = [config EXCEPT !.key = k] /\ given' = {k}
  /\ SaveChanges({"config"})
  /\ UNCHANGED <<meshNodes, numMeshNodes, hasOpenEditTransaction>>

(* set_fixed_position and remove_fixed_position. *)
SetFixedPosition ==
  /\ Asked
  /\ \E edit \in Settings : config' = [config EXCEPT !.edit = edit]
  /\ SaveChanges(Files)
  /\ UNCHANGED <<meshNodes, numMeshNodes, hasOpenEditTransaction, given>>

(* handleSetModuleConfig, handleSetChannel: if the files they save, which  *)
(* are left out, fail, an nRF52 formats the flash and writes only those.   *)
SetModuleConfig ==
  /\ Running /\ ~wiped /\ ~hasOpenEditTransaction
  /\ ~esp32 /\ Fault /\ Format
  /\ UNCHANGED <<dbVars, io, esp32, adminVars>>

(* handleSetOwner: the user record of the node itself, which updateUser    *)
(* saves, if none was in the last minute, although a transaction is open.  *)
SetOwner == /\ Asked
            /\ \E throttled \in BOOLEAN :
                 IF throttled THEN SaveChanges({"device"}) ELSE SaveToDisk({"device"})
            /\ UNCHANGED <<config, meshNodes, numMeshNodes, hasOpenEditTransaction, given>>

(* set_favorite_node, remove_favorite_node, and the like for ignored ones. *)
SetFavorite(n, favorite) ==
  /\ Asked /\ Listed(meshNodes, numMeshNodes, n)
  /\ meshNodes' = [meshNodes EXCEPT ![Index(meshNodes, numMeshNodes, n)].favorite = favorite]
  /\ SaveChanges({"device"})
  /\ UNCHANGED <<config, numMeshNodes, hasOpenEditTransaction, given>>

(* removeNodeByNum clears one place, however many it freed. *)
RemoveNode(n) ==
  /\ Asked
  /\ LET others == {node \in Node : node.num # n}
         count == KeptCount(meshNodes, numMeshNodes, others)
     IN /\ count < MaxNodes
        /\ SetNodes([nodes |-> Compact(meshNodes, numMeshNodes, others, count + 1), count |-> count])
  /\ SaveDeviceState
  /\ UNCHANGED <<config, hasOpenEditTransaction, given>>

(* nodedb_reset: the first place is kept, whoever has it. *)
ResetNodes ==
  /\ Asked
  /\ SetNodes([nodes |-> [NoNodes EXCEPT ![1] = meshNodes[1]], count |-> 1])
  /\ SaveDeviceState
  /\ UNCHANGED <<config, hasOpenEditTransaction, given>>

(* factoryReset: /prefs is deleted, the defaults installed and saved. The  *)
(* count of nodes is set to zero, the vector keeps them: as many of them   *)
(* as pb_encode has room for are saved and return. The key survives unless *)
(* the bonds are erased too; a new one is made at the next start.          *)
FactoryReset ==
  /\ Running /\ ~wiped
  /\ Format
  /\ \E eraseBleBonds \in BOOLEAN :
       config' = [DefaultConfig EXCEPT !.key = IF eraseBleBonds THEN NoKey ELSE config.key]
  /\ numMeshNodes' = 0
  /\ SaveToDisk(Files)
  /\ wiped' = TRUE
  /\ UNCHANGED <<up, meshNodes, unsaved, io, faults, esp32, hasOpenEditTransaction, given>>

(* doDeepSleep saves everything, an open transaction or not. *)
Shutdown == /\ Asked /\ saving' = SaveOf(Files, {}, FALSE, "off")
            /\ UNCHANGED <<config, meshNodes, numMeshNodes, hasOpenEditTransaction, given>>

Forget == hasOpenEditTransaction' = FALSE /\ wiped' = FALSE /\ given' = {}

(* The restart after a change, a reset, or power cut while nothing is      *)
(* being saved; in the midst of a save it is counted with the faults.      *)
Restart == /\ Running /\ PowerOff /\ Forget
           /\ UNCHANGED <<unsaved, fsVars>>

(* A database full of favourites: getOrCreateMeshNode aborts the program. *)
Abort(n) == /\ Running /\ ~wiped
            /\ \E lowHeap \in BOOLEAN : GetOrCreate(meshNodes, numMeshNodes, n, lowHeap) = {}
            /\ PowerOff /\ Forget
            /\ UNCHANGED <<unsaved, fsVars>>

Crash == /\ ~Idle /\ PowerOff /\ FsCrash /\ Forget
         /\ UNCHANGED unsaved

Saving == /\ SaveProto \/ SaveClosed \/ (FsStep /\ UNCHANGED dbVars)
          /\ UNCHANGED wiped
          /\ hasOpenEditTransaction' = (up' # "off" /\ hasOpenEditTransaction)
          /\ given' = IF up' = "off" \/ (At("closed") /\ file["config"] = Whole(config)) THEN {} ELSE given

Admin == \/ BeginEdit \/ CommitEdit \/ SetConfig \/ SetPosition \/ SetSecurity \/ SetFixedPosition
         \/ SetModuleConfig \/ SetOwner \/ ResetNodes \/ FactoryReset \/ Shutdown
         \/ \E n \in Others : RemoveNode(n)
         \/ \E n \in Others, favorite \in BOOLEAN : SetFavorite(n, favorite)

Heard(n) == ~wiped /\ (UpdateFrom(n) \/ UpdateUser(n)) /\ UNCHANGED adminVars

Starts == Boot /\ UNCHANGED adminVars

Next == Starts \/ Restart \/ Crash \/ Saving \/ Admin \/ \E n \in Others : Heard(n) \/ Abort(n)

Spec == Init /\ [][Next]_vars
---------------------------------------------------------------------------
(* Properties. *)

Configs == [key : Keys \union {NoKey}, edit : Settings \union {"legacy"}]
Contents(f) == IF f = "config" THEN Configs ELSE [1..MaxNodes -> Node]

(* TypeOK: what is in memory and on the flash stays in its domain; a save  *)
(* writes the files in order and the write under way is that of its head.  *)
TypeOK ==
  /\ \A f \in Files : file[f].is \in {"absent", "torn", "whole"}
  /\ \A f \in Files : file[f].is # "absent" => file[f].of \in Contents(f)
  /\ config \in Configs /\ meshNodes \in [1..MaxNodes -> Node] /\ numMeshNodes \in 0..MaxNodes
  /\ up \in {"off", "boot", "on"} /\ unsaved \subseteq Files
  /\ ~At("none") => saving.todo # <<>> /\ io.on = Head(saving.todo) /\ io.of = Encoded(io.on)

(* KeyKept: a running node has the private key its settings were last      *)
(* saved with, or the one a phone has set and that waits for a commit or   *)
(* could not be saved. Its peers know the node by that key. Failed saves,  *)
(* second tries, resets of the nodes and restarts do not cost it; a power  *)
(* cut or a failed rename within the window, a format, a whole file that   *)
(* cannot be read at the start and a factory reset may.                    *)
KeyKept == Running /\ ~wiped /\ last["config"].is = "whole" =>
             config.key \in given \/ last["config"].of.key \in {config.key, NoKey}

(* FavouritesKept: a node saved as a favourite, with its user, is one until*)
(* the phone says otherwise: newcomers do not push it out of a full        *)
(* database and a restart does not lose it.                                *)
FavouritesKept ==
  /\ Running /\ ~wiped /\ ~hasOpenEditTransaction
  /\ last["device"].is = "whole"
  => \A i \in 1..MaxNodes :
      LET saved == last["device"].of[i]
      IN saved.favorite /\ saved.user =>
           \E j \in 1..numMeshNodes : meshNodes[j] = saved

(* ConfigSaved: with no transaction open and no save under way, the next   *)
(* start makes of config.proto the settings it would make of those in      *)
(* memory: a committed edit is durable, position settings saved in two     *)
(* goes too, and a write that reported its failure was made good by the    *)
(* second try. Not so after a failure close() alone knew of or a second    *)
(* one, which is a critical error, nor after the format an nRF52 answers a *)
(* failed save of another file with.                                       *)
ConfigSaved ==
  Running /\ ~hasOpenEditTransaction /\ "config" \notin unsaved /\ last["config"] # Absent =>
    file["config"].is = "whole" /\ Migrated(file["config"].of) = Migrated(config)
=============================================================================
