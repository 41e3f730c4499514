------------------------------ MODULE SafeFile ------------------------------
(***************************************************************************)
(* A preferences file is written beside its old version, read back and     *)
(* moved over it (SafeFile.cpp, FSCommon.cpp). The steps of one write are  *)
(* separate here because power can fail between any two of them. io is the *)
(* write under way; there is at most one, the caller waits for it.         *)
(***************************************************************************)
EXTENDS Integers

CONSTANTS Files,        \* the preferences files
          FullAtomic,   \* those whose old version stays until the new one is read back
          NoValue,      \* what an absent file holds
          MaxFaults     \* bound: flash operations that fail, or are cut short by a power cut

ASSUME SafeFileAssumption == FullAtomic \subseteq Files /\ MaxFaults \in Nat

VARIABLES file,     \* what each name holds
          io,       \* the write under way, and what the name with ".tmp" holds meanwhile
          last,     \* history: what close() last put under each name with success,
                    \* Absent again once a failure, of a read too, or a power cut cost it
          faults,
          esp32     \* the platform: on an ESP32 rename is atomic, elsewhere it copies

fsVars == <<file, io, last, faults, esp32>>

Absent == [is |-> "absent", of |-> NoValue]
Torn(v) == [is |-> "torn", of |-> v]
Whole(v) == [is |-> "whole", of |-> v]

(* A temporary file that a power cut or a failure leaves behind is never   *)
(* read: the next write of the file starts it afresh.                      *)
NoIo == [at |-> "none", on |-> NoValue, of |-> NoValue, tmp |-> Absent, okay |-> TRUE]

FsInit == /\ file = [f \in Files |-> Absent]
          /\ last = [f \in Files |-> Absent]
          /\ io = NoIo /\ faults = 0
          /\ esp32 \in BOOLEAN

Fault == faults < MaxFaults /\ faults' = faults + 1

(* The names in fs may have lost their old version without the new one. *)
Lose(fs) == last' = [f \in Files |-> IF f \in fs THEN Absent ELSE last[f]]

At(step) == io.at = step
GoTo(step) == io' = [io EXCEPT !.at = step]

(* A slip: the old version is removed first whatever was asked. *)
OpenFileBare(f, v, encoded) ==
  /\ At("none")
  /\ file' = [file EXCEPT ![f] = Absent]
  /\ io' = [at |-> "write", on |-> f, of |-> v, tmp |-> Torn(v), okay |-> encoded]
  /\ UNCHANGED <<last, faults, esp32>>

(* The old version is removed first unless the write is fully atomic; then *)
(* the temporary file is opened, empty. v is what the caller has to write, *)
(* all it was asked for only if it could be encoded: the hash is of v.     *)
OpenFile(f, v, encoded) ==
  /\ At("none")
  /\ file' = IF f \in FullAtomic THEN file ELSE [file EXCEPT ![f] = Absent]
  /\ \/ /\ io' = [at |-> "write", on |-> f, of |-> v, tmp |-> Torn(v), okay |-> encoded]
        /\ UNCHANGED <<faults, last>>
     \/ /\ Fault
        /\ io' = [at |-> "closed", on |-> f, of |-> v, tmp |-> Absent, okay |-> FALSE]
        /\ Lose({f} \ FullAtomic)
  /\ UNCHANGED esp32

(* All the bytes reach the flash, or too few do and write() says so, or    *)
(* others do and nobody has noticed yet.                                   *)
Write ==
  /\ At("write")
  /\ \/ io' = [io EXCEPT !.at = "readback", !.tmp = Whole(io.of)] /\ UNCHANGED faults
     \/ \E noticed \in BOOLEAN :
          Fault /\ io' = [io EXCEPT !.at = "readback", !.okay = io.okay /\ ~noticed]
  /\ UNCHANGED <<file, last, esp32>>

(* A slip: the temporary file is taken for good without being read back. *)
ReadbackBlind ==
  /\ At("readback")
  /\ GoTo(IF io.on \in FullAtomic THEN "remove" ELSE "rename")
  /\ UNCHANGED <<file, last, faults, esp32>>

(* testReadback(): the hash of what can be read is the hash of what was    *)
(* written, or close() returns false; that is not passed on by saveProto.  *)
Readback ==
  /\ At("readback")
  /\ IF io.tmp.is = "whole"
       THEN GoTo(IF io.on \in FullAtomic THEN "remove" ELSE "rename") /\ UNCHANGED last
       ELSE GoTo("closed") /\ Lose({io.on} \ FullAtomic)
  /\ UNCHANGED <<file, faults, esp32>>

RemoveOld ==
  /\ At("remove")
  /\ \/ file' = [file EXCEPT ![io.on] = Absent] /\ GoTo("rename") /\ UNCHANGED faults
     \/ file[io.on].is # "absent" /\ Fault /\ GoTo("closed") /\ UNCHANGED file
  /\ UNCHANGED <<last, esp32>>

Closed == last' = [last EXCEPT ![io.on] = Whole(io.of)]

(* renameFile(): a rename on an ESP32, elsewhere the start of a copy. *)
Rename ==
  /\ At("rename")
  /\ \/ /\ esp32
        /\ file' = [file EXCEPT ![io.on] = io.tmp]
        /\ Closed /\ GoTo("closed") /\ UNCHANGED faults
     \/ /\ ~esp32
        /\ file' = [file EXCEPT ![io.on] = Torn(io.of)]
        /\ GoTo("copy") /\ UNCHANGED <<last, faults>>
     \/ Fault /\ GoTo("closed") /\ Lose({io.on}) /\ UNCHANGED file
  /\ UNCHANGED esp32

(* copyFile() looks at no result of its writes, so a copy that fell short  *)
(* counts as made and its source is removed.                               *)
Copy ==
  /\ At("copy") /\ GoTo("closed")
  /\ \/ file' = [file EXCEPT ![io.on] = io.tmp] /\ Closed /\ UNCHANGED faults
     \/ Fault /\ Lose({io.on}) /\ UNCHANGED file
  /\ UNCHANGED esp32

FsStep == Write \/ Readback \/ RemoveOld \/ Rename \/ Copy

(* The steps after which the name holds neither version. *)
InWindow(f) == /\ io.on = f
               /\ \/ io.at \in {"rename", "copy"}
                  \/ f \notin FullAtomic /\ io.at \in {"write", "readback"}

(* Power fails: what is on the flash stays as it is. *)
FsCrash == /\ io' = NoIo
           /\ Lose({f \in Files : InWindow(f)})
           /\ Fault
           /\ UNCHANGED <<file, esp32>>

(* OldOrNew: outside the window between the removal of the old version and *)
(* the renaming of the new one, and unless a power cut or a failed rename  *)
(* hit that window, a name holds, whole, what was last closed with success:*)
(* short writes, failed readbacks and failed removals do it no harm. What  *)
(* the caller could encode only in part is closed with success all the     *)
(* same, as it is, and takes the place of the old version.                 *)
OldOrNew == \A f \in Files : last[f] = Absent \/ InWindow(f) \/ file[f] = last[f]
=============================================================================
