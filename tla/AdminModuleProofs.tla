------------------------ MODULE AdminModuleProofs ------------------------
(***************************************************************************)
(* For any number of nodes, keys and places, of failing flash operations   *)
(* and of power cuts: what is on the flash outside the window is what was  *)
(* closed last, and what a running node has in memory agrees with it.      *)
(***************************************************************************)
EXTENDS AdminModule, FiniteSetTheorems, SequenceTheorems, WellFoundedInduction, TLAPS

Places == [1..MaxNodes -> Node]
Value == Configs \union Places \union {NoValue}
Content == [is : {"absent", "torn", "whole"}, of : Value]

Io == [at : {"none", "write", "readback", "remove", "rename", "copy", "closed"},
       on : Files \union {NoValue}, of : Value, tmp : Content, okay : BOOLEAN]

FsTypes ==
  /\ file \in [Files -> Content] /\ last \in [Files -> Content]
  /\ io \in Io

(* The write under way: a whole temporary file is the new version; it is so *)
(* from the readback on; only an atomic write removes the old version late; *)
(* one that is not has left, once closed, the new version or none.          *)
WriteOK ==
  /\ At("none") => io = NoIo
  /\ ~At("none") => io.on \in Files
  /\ io.tmp.is = "whole" => io.tmp = Whole(io.of)
  /\ io.at \in {"remove", "rename", "copy"} => io.tmp.is = "whole"
  /\ At("remove") => io.on \in FullAtomic
  /\ At("closed") /\ io.on \notin FullAtomic => last[io.on] \in {Absent, Whole(io.of)}

FsOK == FsTypes /\ WriteOK /\ OldOrNew

---------------------------------------------------------------------------
(* The file system: each step keeps FsOK. *)

LEMMA FsUnchanged == FsOK /\ UNCHANGED fsVars => FsOK'
  BY DEF FsOK, FsTypes, Io, WriteOK, OldOrNew, InWindow, fsVars, At

LEMMA ValueFacts ==
  /\ Absent \in Content
  /\ \A v \in Value : Torn(v) \in Content /\ Whole(v) \in Content
  /\ NoValue \in Value
  BY DEF Absent, Torn, Whole, Content, Value

LEMMA OpenFileOK ==
  ASSUME FsOK, NEW f \in Files, NEW v \in Value, NEW encoded \in BOOLEAN, OpenFile(f, v, encoded)
  PROVE  FsOK'
<1>1. FsTypes'
  <2>1. file' \in [Files -> Content] /\ last' \in [Files -> Content]
    BY ValueFacts DEF FsOK, FsTypes, OpenFile, Lose
  <2>2. io' \in Io
    <3>1. ASSUME NEW at \in {"write", "closed"}, NEW tmp \in Content, NEW okay \in BOOLEAN
          PROVE  [at |-> at, on |-> f, of |-> v, tmp |-> tmp, okay |-> okay] \in Io
      BY DEF Io
    <3>. QED
      BY <3>1, ValueFacts DEF OpenFile
  <2>. QED
    BY <2>1, <2>2 DEF FsTypes
<1>2. WriteOK'
  <2>1. last' \in [Files -> Content] /\ (f \notin FullAtomic /\ io'.at = "closed" => last'[f] = Absent)
    BY <1>1 DEF FsTypes, OpenFile, Lose
  <2>. QED
    BY <2>1 DEF WriteOK, OpenFile, At, Torn, Absent
<1>3. OldOrNew'
  BY DEF FsOK, FsTypes, OldOrNew, InWindow, OpenFile, Lose, At
<1>. QED
  BY <1>1, <1>2, <1>3 DEF FsOK

LEMMA FsStepOK ==
  ASSUME FsOK, FsStep
  PROVE  FsOK'
<1>0. io.on \in Files /\ io.of \in Value
  BY DEF FsOK, FsTypes, Io, WriteOK, FsStep, Write, Readback, RemoveOld, Rename, Copy, At
<1>1. CASE Write
  <2>1. /\ io' \in Io /\ io'.at = "readback" /\ io'.on = io.on /\ io'.of = io.of
        /\ io'.tmp \in {io.tmp, Whole(io.of)}
    <3>1. CASE io' = [io EXCEPT !.at = "readback", !.tmp = Whole(io.of)]
      BY <1>0, <3>1, ValueFacts DEF FsOK, FsTypes, Io
    <3>2. ASSUME NEW okay \in BOOLEAN, io' = [io EXCEPT !.at = "readback", !.okay = okay]
          PROVE  io' \in Io /\ io'.at = "readback" /\ io'.on = io.on /\ io'.of = io.of /\ io'.tmp = io.tmp
      BY <3>2 DEF FsOK, FsTypes, Io
    <3>3. ASSUME NEW noticed \in BOOLEAN
          PROVE  (io.okay /\ ~noticed) \in BOOLEAN
      OBVIOUS
    <3>. QED
      BY <1>1, <3>1, <3>2, <3>3 DEF Write
  <2>2. FsTypes'
    BY <1>1, <2>1 DEF FsOK, FsTypes, Write
  <2>3. WriteOK'
    BY <1>0, <2>1 DEF FsOK, WriteOK, At, Whole
  <2>4. OldOrNew'
    BY <1>1, <2>1 DEF FsOK, FsTypes, OldOrNew, InWindow, Write, At
  <2>. QED
    BY <2>2, <2>3, <2>4 DEF FsOK
<1>2. CASE Readback
  BY <1>0, <1>2, ValueFacts
     DEF FsOK, FsTypes, Io, WriteOK, OldOrNew, InWindow, Readback, GoTo, Lose, At, Absent
<1>3. CASE RemoveOld
  BY <1>0, <1>3, ValueFacts
     DEF FsOK, FsTypes, Io, WriteOK, OldOrNew, InWindow, RemoveOld, GoTo, At, Absent
<1>4. CASE Rename
  BY <1>0, <1>4, ValueFacts
     DEF FsOK, FsTypes, Io, WriteOK, OldOrNew, InWindow, Rename, GoTo, Closed, Lose, Fault, At, Absent
<1>5. CASE Copy
  BY <1>0, <1>5, ValueFacts
     DEF FsOK, FsTypes, Io, WriteOK, OldOrNew, InWindow, Copy, GoTo, Closed, Lose, Fault, At, Absent
<1>. QED
  BY <1>1, <1>2, <1>3, <1>4, <1>5 DEF FsStep

LEMMA FsCrashOK == FsOK /\ FsCrash => FsOK'
  BY ValueFacts DEF FsOK, FsTypes, Io, WriteOK, OldOrNew, InWindow, FsCrash, Lose, NoIo, At, Absent

LEMMA ForgetIoOK ==
  ASSUME FsOK, At("closed"), io' = NoIo, UNCHANGED <<file, last>>
  PROVE  FsOK'
  BY ValueFacts DEF FsOK, FsTypes, Io, WriteOK, OldOrNew, InWindow, NoIo, At, Absent

LEMMA FormatOK ==
  ASSUME FsOK, Format, io' = NoIo
  PROVE  FsOK'
  BY ValueFacts DEF FsOK, FsTypes, Io, WriteOK, OldOrNew, InWindow, Format, Lose, NoIo, At, Absent

(* A read that fails costs what is promised of a name, and nothing else. *)
LEMMA LoseOK ==
  ASSUME FsOK, UNCHANGED <<file, io>>, NEW fs, Lose(fs)
  PROVE  FsOK'
  BY ValueFacts DEF FsOK, FsTypes, WriteOK, OldOrNew, InWindow, Lose, At
---------------------------------------------------------------------------
(* The vector: what compaction and eviction do to it. *)

(* A nonempty set of naturals has a least element. *)
LEMMA LeastNat ==
  ASSUME NEW T, T \subseteq Nat, T # {}
  PROVE  \E x \in T : \A y \in T : x <= y
<1>1. PICK x \in T : \A y \in T : <<y, x>> \notin OpToRel(<, Nat)
  BY NatLessThanWellFounded, WFMin, Zenon
<1>2. \A y \in Nat, z \in Nat : y < z => <<y, z>> \in OpToRel(<, Nat)
  BY Zenon DEF OpToRel
<1>3. \A y \in T : ~ (y < x)
  BY <1>1, <1>2, Zenon
<1>. QED
  BY <1>3, SMT

(* How many of the first i places are kept grows with each that is. *)
LEMMA KeptGrows ==
  ASSUME NEW nodes, NEW keep, NEW i \in Nat
  PROVE  /\ IsFiniteSet(Kept(nodes, i, keep)) /\ KeptCount(nodes, i, keep) \in 0..i
         /\ i = 0 => KeptCount(nodes, i, keep) = 0
         /\ KeptCount(nodes, i + 1, keep) =
              KeptCount(nodes, i, keep) + IF nodes[i + 1] \in keep THEN 1 ELSE 0
<1>1. /\ IsFiniteSet(1..i) /\ Cardinality(1..i) = i
  BY FS_Interval, SMT
<1>2. /\ IsFiniteSet(Kept(nodes, i, keep)) /\ Cardinality(Kept(nodes, i, keep)) \in Nat
      /\ Cardinality(Kept(nodes, i, keep)) <= i
  BY <1>1, FS_Subset, FS_CardinalityType DEF Kept
<1>3. i = 0 => Kept(nodes, i, keep) = {}
  BY SMT DEF Kept
<1>4. Kept(nodes, i + 1, keep) =
        Kept(nodes, i, keep) \union IF nodes[i + 1] \in keep THEN {i + 1} ELSE {}
  BY SMT DEF Kept
<1>5. i + 1 \notin Kept(nodes, i, keep)
  BY SMT DEF Kept
<1>6. CASE nodes[i + 1] \in keep
  BY <1>2, <1>3, <1>4, <1>5, <1>6, FS_AddElement, FS_EmptySet DEF KeptCount
<1>7. CASE nodes[i + 1] \notin keep
  <2>1. Kept(nodes, i + 1, keep) = Kept(nodes, i, keep)
    BY <1>4, <1>7
  <2>. QED
    BY <1>2, <1>3, <1>7, <2>1, FS_EmptySet, SMT DEF KeptCount
<1>. QED
  BY <1>6, <1>7

LEMMA KeptNext ==
  ASSUME NEW nodes, NEW keep, NEW i \in Nat \ {0}
  PROVE  /\ KeptCount(nodes, i - 1, keep) \in Nat
         /\ nodes[i] \in keep => KeptCount(nodes, i, keep) = KeptCount(nodes, i - 1, keep) + 1
         /\ nodes[i] \notin keep => KeptCount(nodes, i, keep) = KeptCount(nodes, i - 1, keep)
<1>1. PICK j \in Nat : i = j + 1 /\ i - 1 = j
  BY SMT
<1>2. KeptCount(nodes, j, keep) \in Nat
  BY KeptGrows, SMT
<1>3. KeptCount(nodes, j + 1, keep) = KeptCount(nodes, j, keep) + IF nodes[j + 1] \in keep THEN 1 ELSE 0
  BY KeptGrows
<1>4. nodes[j + 1] \in keep => KeptCount(nodes, j + 1, keep) = KeptCount(nodes, j, keep) + 1
  BY <1>3
<1>5. nodes[j + 1] \notin keep => KeptCount(nodes, j + 1, keep) = KeptCount(nodes, j, keep)
  BY <1>2, <1>3, SMT
<1>. QED
  BY <1>1, <1>2, <1>4, <1>5, Zenon

LEMMA KeptMonotone ==
  ASSUME NEW nodes, NEW keep, NEW i \in Nat, NEW j \in Nat, i <= j
  PROVE  KeptCount(nodes, i, keep) <= KeptCount(nodes, j, keep)
<1>1. Kept(nodes, i, keep) \subseteq Kept(nodes, j, keep)
  BY SMT DEF Kept
<1>2. IsFiniteSet(Kept(nodes, j, keep))
  BY KeptGrows
<1>. QED
  BY <1>1, <1>2, FS_Subset, Zenon DEF KeptCount

LEMMA KeptStrict ==
  ASSUME NEW nodes, NEW keep, NEW i \in Nat, NEW j \in Nat, i < j, nodes[j] \in keep
  PROVE  KeptCount(nodes, i, keep) < KeptCount(nodes, j, keep)
<1>1. j \in Nat \ {0} /\ j - 1 \in Nat /\ i <= j - 1
  BY SMT
<1>2. /\ KeptCount(nodes, j - 1, keep) \in Nat
      /\ KeptCount(nodes, j, keep) = KeptCount(nodes, j - 1, keep) + 1
  BY <1>1, KeptNext
<1>3. KeptCount(nodes, i, keep) <= KeptCount(nodes, j - 1, keep)
  BY <1>1, KeptMonotone
<1>4. KeptCount(nodes, i, keep) \in Nat
  BY KeptGrows, SMT
<1>. QED
  BY <1>2, <1>3, <1>4, SMT

(* The kept places and their ranks correspond one to one. *)
LEMMA KeptRanks ==
  ASSUME NEW nodes, NEW keep, NEW count \in Nat
  PROVE  /\ \A k \in 1..KeptCount(nodes, count, keep) :
              /\ KeptAt(nodes, count, keep, k) \in Kept(nodes, count, keep)
              /\ KeptCount(nodes, KeptAt(nodes, count, keep, k), keep) = k
         /\ \A i \in Kept(nodes, count, keep) :
              /\ KeptCount(nodes, i, keep) \in 1..KeptCount(nodes, count, keep)
              /\ KeptAt(nodes, count, keep, KeptCount(nodes, i, keep)) = i
<1> DEFINE R(i) == KeptCount(nodes, i, keep)
           K == Kept(nodes, count, keep)
<1>1. \A i \in Nat : /\ R(i) \in 0..i
                     /\ R(i + 1) = R(i) + IF nodes[i + 1] \in keep THEN 1 ELSE 0
  BY KeptGrows
<1>2. \A i \in K : i \in 1..count /\ nodes[i] \in keep
  BY DEF Kept
<1>3. \A i, j \in Nat : i <= j => R(i) <= R(j)
  BY KeptMonotone, Zenon
<1>4. ASSUME NEW i \in K, NEW j \in K, i < j
      PROVE  R(i) < R(j)
  <2>1. i \in Nat /\ j \in Nat /\ nodes[j] \in keep
    BY <1>2, SMT
  <2>. QED
    BY <1>4, <2>1, KeptStrict, Zenon
<1>5. ASSUME NEW k \in 1..R(count)
      PROVE  \E i \in K : R(i) = k
  <2> DEFINE T == {i \in 0..count : k <= R(i)}
  <2>1. count \in T /\ T \subseteq Nat
    BY <1>1, SMT
  <2> HIDE DEF T
  <2>2. PICK i \in T : \A j \in T : i <= j
    BY <2>1, LeastNat, Zenon
  <2>3. R(0) = 0
    BY KeptGrows, SMT
  <2>4. /\ i \in 1..count /\ i - 1 \in Nat /\ i - 1 <= count /\ (i - 1) + 1 = i
        /\ k <= R(i) /\ i - 1 \notin T
    BY <2>2, <2>3, SMT DEF T
  <2>5. R(i - 1) < k
    BY <1>1, <2>4, SMT DEF T
  <2>6. R(i) = R(i - 1) + IF nodes[i] \in keep THEN 1 ELSE 0
    BY <1>1, <2>4, Zenon
  <2>7. R(i - 1) \in Nat
    BY <1>1, <2>4, SMT
  <2>8. nodes[i] \in keep /\ R(i) = k
    BY <2>4, <2>5, <2>6, <2>7, SMT
  <2>. QED
    BY <2>4, <2>8 DEF Kept
<1>6. \A k : KeptAt(nodes, count, keep, k) = CHOOSE i \in K : R(i) = k
  BY Zenon DEF KeptAt, KeptCount
<1>7. \A i \in K : R(i) \in 1..R(count)
  <2> SUFFICES ASSUME NEW i \in K
               PROVE  R(i) \in 1..R(count)
    OBVIOUS
  <2>1. i \in Nat /\ i - 1 \in Nat /\ (i - 1) + 1 = i /\ i <= count
    BY <1>2, SMT
  <2>2. R(i) = R(i - 1) + 1
    <3>1. i \in Nat \ {0} /\ nodes[i] \in keep
      BY <1>2, SMT
    <3>. QED
      BY <3>1, KeptNext, Zenon
  <2>3. R(i) <= R(count) /\ R(i - 1) \in Nat /\ R(count) \in Nat
    BY <1>1, <1>3, <2>1, SMT
  <2>. QED
    BY <2>2, <2>3, SMT
<1>8. \A i, j \in K : R(i) = R(j) => i = j
  <2>1. \A i \in K : i \in Nat /\ R(i) \in Nat
    BY <1>1, <1>2, SMT
  <2>. QED
    BY <1>4, <2>1, SMT
<1> HIDE DEF R, K
<1>9. \A k \in 1..R(count) : KeptAt(nodes, count, keep, k) \in K /\ R(KeptAt(nodes, count, keep, k)) = k
  BY <1>5, <1>6, Zenon
<1>10. \A i \in K : KeptAt(nodes, count, keep, R(i)) = i
  BY <1>7, <1>8, <1>9, Zenon
<1>. QED
  BY <1>7, <1>9, <1>10 DEF R, K

(* No two places that count are of one node, and the others are blank. *)
Distinct(nodes, count) == \A i, j \in 1..count : nodes[i].num = nodes[j].num => i = j
BlankBeyond(nodes, count) == \A i \in count + 1 .. MaxNodes : nodes[i] = Blank

(* So it is on the flash, where no count is kept, for those with a user. *)
Unique(nodes) ==
  \A i, j \in 1..MaxNodes : nodes[i].user /\ nodes[j].user /\ nodes[i].num = nodes[j].num => i = j

(* Each node saved as a favourite, with its user, has a place. *)
Favourites(saved, nodes, count) ==
  \A i \in 1..MaxNodes :
    saved[i].favorite /\ saved[i].user => \E j \in 1..count : nodes[j] = saved[i]

LEMMA NodeFacts ==
  /\ Blank \in Node /\ ~Blank.user /\ ~Blank.favorite
  /\ \A n \in Others \union {Self} :
       Fresh(n) \in Node /\ Fresh(n).num = n /\ ~Fresh(n).user /\ ~Fresh(n).favorite
  /\ NoNodes \in Places
  /\ MaxNodes \in Nat \ {0}
  BY NodeDBAssumption DEF Blank, Fresh, Node, NoNodes, Places

LEMMA UniqueFromDistinct ==
  ASSUME NEW nodes \in Places, NEW count \in 0..MaxNodes,
         Distinct(nodes, count), BlankBeyond(nodes, count)
  PROVE  Unique(nodes) /\ Favourites(nodes, nodes, count)
<1>1. \A i \in 1..MaxNodes : nodes[i].user => i \in 1..count
  BY NodeFacts, SMT DEF BlankBeyond
<1>. QED
  BY <1>1 DEF Unique, Distinct, Favourites

LEMMA CompactFacts ==
  ASSUME NEW nodes \in Places, NEW count \in 0..MaxNodes, NEW keep, NEW until
  PROVE  /\ KeptCount(nodes, count, keep) \in 0..count
         /\ Compact(nodes, count, keep, until) \in Places
         /\ \A k \in 1..KeptCount(nodes, count, keep) :
              \E i \in 1..count : /\ nodes[i] \in keep /\ KeptCount(nodes, i, keep) = k
                                  /\ Compact(nodes, count, keep, until)[k] = nodes[i]
         /\ \A i \in 1..count : nodes[i] \in keep =>
              \E k \in 1..KeptCount(nodes, count, keep) : Compact(nodes, count, keep, until)[k] = nodes[i]
         /\ \A k \in KeptCount(nodes, count, keep) + 1 .. MaxNodes :
              Compact(nodes, count, keep, until)[k] = IF k <= until THEN Blank ELSE nodes[k]
<1> DEFINE c == KeptCount(nodes, count, keep)
           v == Compact(nodes, count, keep, until)
           at(k) == KeptAt(nodes, count, keep, k)
<1>0. count \in Nat /\ MaxNodes \in Nat /\ 1..count \subseteq 1..MaxNodes
  BY NodeFacts, SMT
<1>1. c \in 0..count
  BY <1>0, KeptGrows
<1>2. \A k \in 1..c : at(k) \in 1..count /\ nodes[at(k)] \in keep /\ KeptCount(nodes, at(k), keep) = k
  BY <1>0, KeptRanks, Zenon DEF Kept
<1>3. \A i \in 1..count : nodes[i] \in keep => \E k \in 1..c : at(k) = i
  <2>1. ASSUME NEW i \in Kept(nodes, count, keep)
        PROVE  \E k \in 1..c : at(k) = i
    <3>1. KeptCount(nodes, i, keep) \in 1..c /\ at(KeptCount(nodes, i, keep)) = i
      BY <1>0, KeptRanks
    <3>. QED
      BY <3>1
  <2>. QED
    BY <2>1, Zenon DEF Kept
<1>4. v = [k \in 1..MaxNodes |-> IF k <= c THEN nodes[at(k)] ELSE IF k <= until THEN Blank ELSE nodes[k]]
  BY DEF Compact
<1> HIDE DEF c, v, at
<1>5. \A k \in 1..c : v[k] = nodes[at(k)]
  BY <1>0, <1>1, <1>4, SMT
<1>6. \A k \in c + 1 .. MaxNodes : v[k] = IF k <= until THEN Blank ELSE nodes[k]
  BY <1>0, <1>1, <1>4, SMT
<1>7. v \in Places
  <2>1. \A k \in 1..c : nodes[at(k)] \in Node
    BY <1>0, <1>2, Zenon DEF Places
  <2>2. \A k \in 1..MaxNodes : v[k] \in Node
    BY <1>0, <1>1, <1>5, <1>6, <2>1, NodeFacts, SMT DEF Places
  <2>. QED
    BY <1>4, <2>2, Zenon DEF Places
<1>8. \A k \in 1..c : \E i \in 1..count : nodes[i] \in keep /\ KeptCount(nodes, i, keep) = k /\ v[k] = nodes[i]
  BY <1>2, <1>5, Zenon
<1>9. \A i \in 1..count : nodes[i] \in keep => \E k \in 1..c : v[k] = nodes[i]
  BY <1>3, <1>5, Zenon
<1>. QED
  BY <1>1, <1>6, <1>7, <1>8, <1>9 DEF c, v

(* getOrCreateMeshNode: afterwards the node has a place, and so has every   *)
(* favourite that had one.                                                  *)
LEMMA GetOrCreateFacts ==
  ASSUME NEW nodes \in Places, NEW count \in 0..MaxNodes, NEW n \in Others \union {Self},
         NEW lowHeap \in BOOLEAN, NEW db \in GetOrCreate(nodes, count, n, lowHeap)
  PROVE  /\ db = [nodes |-> db.nodes, count |-> db.count]
         /\ db.nodes \in Places /\ db.count \in 1..MaxNodes /\ Listed(db.nodes, db.count, n)
         /\ Distinct(nodes, count) => Distinct(db.nodes, db.count)
         /\ BlankBeyond(nodes, count) => BlankBeyond(db.nodes, db.count)
         /\ \A i \in 1..count : nodes[i].favorite => \E j \in 1..db.count : db.nodes[j] = nodes[i]
<1>1. CASE Listed(nodes, count, n)
  BY <1>1, NodeFacts DEF GetOrCreate, Listed
<1>2. CASE ~Listed(nodes, count, n) /\ ~IsFull(count, lowHeap)
  <2>1. db = [nodes |-> [nodes EXCEPT ![count + 1] = Fresh(n)], count |-> count + 1]
    BY <1>2 DEF GetOrCreate
  <2>2. count + 1 \in 1..MaxNodes /\ count \in Nat /\ MaxNodes \in Nat
    BY <1>2, NodeFacts, SMT DEF IsFull
  <2>3. /\ db.nodes \in Places /\ db.nodes[count + 1] = Fresh(n) /\ db.count = count + 1
        /\ \A i \in 1..MaxNodes : i # count + 1 => db.nodes[i] = nodes[i]
    BY <2>1, <2>2, NodeFacts, SMT DEF Places
  <2>4. db = [nodes |-> db.nodes, count |-> db.count]
    BY <2>1
  <2>5. Listed(db.nodes, db.count, n)
    BY <2>2, <2>3, NodeFacts, SMT DEF Listed
  <2>6. Distinct(nodes, count) => Distinct(db.nodes, db.count)
    BY <1>2, <2>2, <2>3, NodeFacts, SMT DEF Distinct, Listed
  <2>7. BlankBeyond(nodes, count) => BlankBeyond(db.nodes, db.count)
    BY <2>2, <2>3, SMT DEF BlankBeyond
  <2>8. \A i \in 1..count : i \in 1..db.count /\ db.nodes[i] = nodes[i]
    BY <2>2, <2>3, SMT
  <2>. QED
    BY <2>2, <2>3, <2>4, <2>5, <2>6, <2>7, <2>8
<1>3. CASE ~Listed(nodes, count, n) /\ IsFull(count, lowHeap)
  <2>1. PICK w \in Victims(nodes, count) :
          db = [nodes |-> [Evict(nodes, count, w) EXCEPT ![count] = Fresh(n)], count |-> count]
    BY <1>3 DEF GetOrCreate
  <2>2. /\ w \in 2..count /\ ~nodes[w].favorite
        /\ count \in 1..MaxNodes /\ count \in Nat /\ MaxNodes \in Nat
    BY <2>1, NodeFacts, SMT DEF Victims
  <2>3. /\ db.nodes \in Places /\ db.nodes[count] = Fresh(n) /\ db.count = count
        /\ \A i \in 1..MaxNodes : i # count =>
             db.nodes[i] = IF i \in w..(count - 1) THEN nodes[i + 1] ELSE nodes[i]
    BY <2>1, <2>2, NodeFacts, SMT DEF Places, Evict
  <2>4. db = [nodes |-> db.nodes, count |-> db.count]
    BY <2>1
  <2>5. Listed(db.nodes, db.count, n)
    BY <2>2, <2>3, NodeFacts, SMT DEF Listed
  <2>6. Distinct(nodes, count) => Distinct(db.nodes, db.count)
    BY <1>3, <2>2, <2>3, NodeFacts, SMT DEF Distinct, Listed
  <2>7. BlankBeyond(nodes, count) => BlankBeyond(db.nodes, db.count)
    BY <2>2, <2>3, SMT DEF BlankBeyond
  <2>8. ASSUME NEW i \in 1..count, nodes[i].favorite
        PROVE  \E j \in 1..db.count : db.nodes[j] = nodes[i]
    <3>1. CASE i < w
      BY <2>2, <2>3, <3>1, SMT
    <3>2. CASE w < i
      <4>1. i - 1 \in 1..db.count /\ db.nodes[i - 1] = nodes[i]
        BY <2>2, <2>3, <3>2, SMT
      <4>. QED
        BY <4>1
    <3>. QED
      BY <2>2, <2>8, <3>1, <3>2, SMT
  <2>. QED
    BY <2>2, <2>3, <2>4, <2>5, <2>6, <2>7, <2>8
<1>. QED
  BY <1>1, <1>2, <1>3

(* The user record of a listed node arrives. *)
LEMMA MarkFacts ==
  ASSUME NEW nodes \in Places, NEW count \in 1..MaxNodes, NEW n, Listed(nodes, count, n)
  PROVE  LET marked == [nodes EXCEPT ![Index(nodes, count, n)].user = TRUE]
         IN /\ marked \in Places
            /\ Distinct(nodes, count) => Distinct(marked, count)
            /\ BlankBeyond(nodes, count) => BlankBeyond(marked, count)
            /\ \A i \in 1..MaxNodes : nodes[i].user => marked[i] = nodes[i]
<1> DEFINE at == Index(nodes, count, n)
           marked == [nodes EXCEPT ![at].user = TRUE]
<1>1. at \in 1..count
  BY Zenon DEF Listed, Index
<1>2. count \in Nat /\ MaxNodes \in Nat /\ at \in 1..MaxNodes
  BY <1>1, NodeFacts, SMT
<1> HIDE DEF at
<1>3. /\ marked \in Places
      /\ \A i \in 1..MaxNodes : /\ marked[i].num = nodes[i].num
                                /\ i # at \/ nodes[i].user => marked[i] = nodes[i]
  <2>1. marked = [nodes EXCEPT ![at] = [nodes[at] EXCEPT !.user = TRUE]]
    OBVIOUS
  <2>2. nodes[at] \in Node
    BY <1>2 DEF Places
  <2>3. [nodes[at] EXCEPT !.user = TRUE] \in Node /\ [nodes[at] EXCEPT !.user = TRUE].num = nodes[at].num
    BY <2>2 DEF Node
  <2>4. nodes[at].user => [nodes[at] EXCEPT !.user = TRUE] = nodes[at]
    BY <2>2 DEF Node
  <2>. QED
    BY <1>2, <2>1, <2>3, <2>4 DEF Places
<1> HIDE DEF marked
<1>4. Distinct(nodes, count) => Distinct(marked, count)
  BY <1>2, <1>3, SMT DEF Distinct
<1>5. BlankBeyond(nodes, count) => BlankBeyond(marked, count)
  BY <1>1, <1>2, <1>3, SMT DEF BlankBeyond
<1>. QED
  BY <1>3, <1>4, <1>5 DEF marked, at

---------------------------------------------------------------------------
(* The save under way. *)

Save == [todo : Seq(Files), what : SUBSET Files, after : SUBSET Files, good : BOOLEAN,
         retried : BOOLEAN, then : {"on", "off"}]

SaveOK ==
  /\ saving \in Save
  /\ saving.todo = <<>> => saving = NoSave
  /\ saving.todo # <<>> => saving.what # {}
  /\ \A i \in 1..Len(saving.todo) : saving.todo[i] \in saving.what

ToWrite(f) == \E i \in 1..Len(saving.todo) : saving.todo[i] = f

LEMMA InOrderFacts ==
  ASSUME NEW what \in SUBSET Files
  PROVE  /\ InOrder(what) \in Seq(Files)
         /\ what # {} => InOrder(what) # <<>>
         /\ \A i \in 1..Len(InOrder(what)) : InOrder(what)[i] \in what
         /\ \A f \in what : \E i \in 1..Len(InOrder(what)) : InOrder(what)[i] = f
<1> DEFINE c == IF "config" \in what THEN <<"config">> ELSE <<>>
           d == IF "device" \in what THEN <<"device">> ELSE <<>>
<1>1. /\ c \in Seq(Files) /\ d \in Seq(Files)
      /\ "config" \in what => Len(c) = 1 /\ c[1] = "config"
      /\ "config" \notin what => Len(c) = 0
      /\ "device" \in what => Len(d) = 1 /\ d[1] = "device"
      /\ "device" \notin what => Len(d) = 0
  <2>1. <<>> \in Seq(Files) /\ Len(<<>>) = 0
    BY EmptySeq
  <2>2. \A f \in Files : <<f>> \in Seq(Files) /\ Len(<<f>>) = 1 /\ <<f>>[1] = f
    BY SMT
  <2>. QED
    BY <2>1, <2>2, NodeDBAssumption, Zenon
<1>2. what \subseteq {"config", "device"} /\ InOrder(what) = c \o d
  BY NodeDBAssumption DEF InOrder
<1> HIDE DEF c, d
<1>3. Len(c) \in Nat /\ Len(d) \in Nat
  BY <1>1, LenProperties
<1>4. /\ c \o d \in Seq(Files) /\ Len(c \o d) = Len(c) + Len(d)
      /\ \A i \in 1..Len(c) + Len(d) : (c \o d)[i] = IF i <= Len(c) THEN c[i] ELSE d[i - Len(c)]
  BY <1>1, ConcatProperties
<1> DEFINE q == InOrder(what)
<1>5. /\ q \in Seq(Files) /\ Len(q) = Len(c) + Len(d)
      /\ \A i \in 1..Len(q) : q[i] = IF i <= Len(c) THEN c[i] ELSE d[i - Len(c)]
  BY <1>2, <1>4, Zenon
<1> HIDE DEF q
<1>6. \A i \in 1..Len(q) : q[i] \in what
  BY <1>1, <1>3, <1>5, SMT
<1>7. /\ "config" \in what => 1 \in 1..Len(q) /\ q[1] = "config"
      /\ "device" \in what => Len(q) \in 1..Len(q) /\ q[Len(q)] = "device"
  BY <1>1, <1>3, <1>5, SMT
<1>8. \A f \in what : \E i \in 1..Len(q) : q[i] = f
  BY <1>2, <1>7, Zenon
<1>9. what # {} => q # <<>>
  BY <1>8, EmptySeq, SMT
<1>. QED
  BY <1>5, <1>6, <1>8, <1>9 DEF q

LEMMA SaveOfFacts ==
  ASSUME NEW what \in SUBSET Files, what # {}, NEW after \in SUBSET Files,
         NEW retried \in BOOLEAN, NEW then \in {"on", "off"},
         saving' = SaveOf(what, after, retried, then)
  PROVE  SaveOK' /\ saving'.after = after /\ \A f \in what : ToWrite(f)'
<1>1. saving' = [todo |-> InOrder(what), what |-> what, after |-> after, good |-> TRUE,
                 retried |-> retried, then |-> then]
  BY Zenon DEF SaveOf
<1>2. saving' \in Save
  <2>1. InOrder(what) \in Seq(Files)
    BY InOrderFacts
  <2>2. \A q \in Seq(Files) : [todo |-> q, what |-> what, after |-> after, good |-> TRUE,
                              retried |-> retried, then |-> then] \in Save
    BY DEF Save
  <2>. QED
    BY <1>1, <2>1, <2>2
<1>3. saving'.todo = InOrder(what) /\ saving'.what = what /\ saving'.after = after
  BY <1>1
<1>. QED
  BY <1>2, <1>3, InOrderFacts DEF SaveOK, ToWrite

LEMMA SaveToDiskFacts ==
  ASSUME NEW what \in SUBSET Files, SaveToDisk(what)
  PROVE  /\ SaveOK'
         /\ what = {} => saving' = NoSave
         /\ \A f \in what : ToWrite(f)'
<1>1. CASE what = {}
  BY <1>1, EmptySeq, SMT DEF SaveToDisk, NoSave, SaveOK, Save
<1>2. CASE what # {}
  <2>1. saving' = SaveOf(what, {}, FALSE, "on")
    BY <1>2 DEF SaveToDisk
  <2>2. {} \in SUBSET Files
    OBVIOUS
  <2>3. PICK retried \in BOOLEAN : retried = FALSE
    OBVIOUS
  <2>. QED
    BY <1>2, <2>1, <2>2, <2>3, SaveOfFacts
<1>. QED
  BY <1>1, <1>2

---------------------------------------------------------------------------
(* The inductive invariant. *)

DbTypes ==
  /\ up \in {"off", "boot", "on"} /\ unsaved \subseteq Files
  /\ config \in Configs /\ meshNodes \in Places /\ numMeshNodes \in 0..MaxNodes

ContentsOK ==
  \A f \in Files :
    /\ file[f].is # "absent" => file[f].of \in Contents(f)
    /\ last[f] = Absent \/ (last[f].is = "whole" /\ last[f].of \in Contents(f))

LinkOK ==
  /\ ~At("none") => saving.todo # <<>> /\ io.on = Head(saving.todo) /\ io.of = Encoded(io.on)
  /\ up = "off" => saving = NoSave

IInv == FsOK /\ SaveOK /\ DbTypes /\ ContentsOK /\ LinkOK

(* The node database has no place twice, in memory and on the flash. *)
PlacesOK ==
  /\ Unique(meshNodes) /\ Distinct(meshNodes, numMeshNodes)
  /\ ~wiped => BlankBeyond(meshNodes, numMeshNodes)
  /\ file["device"].is # "absent" => Unique(file["device"].of)

(* What was closed last is what is in memory, or is about to be: with the   *)
(* save under way, or with the second try that its failure has made sure of.*)
KeyOK == up # "off" /\ last["config"].is = "whole" =>
           config.key \in given \/ last["config"].of.key \in {config.key, NoKey}

Retried(f) == saving.todo # <<>> /\ f \in saving.what /\ ~saving.good /\ ~saving.retried

Same(c) == Migrated(c) = Migrated(config)

ConfigOK ==
  up # "off" /\ ~hasOpenEditTransaction /\ "config" \notin unsaved /\ last["config"] # Absent =>
    \/ last["config"].is = "whole" /\ Same(last["config"].of)
    \/ ToWrite("config") \/ Retried("config") \/ "config" \in saving.after

FavouritesOK ==
  up # "off" /\ ~wiped /\ ~hasOpenEditTransaction /\ last["device"].is = "whole" =>
    ToWrite("device") \/ Favourites(last["device"].of, meshNodes, numMeshNodes)

Inv == IInv /\ PlacesOK /\ KeyOK /\ ConfigOK /\ FavouritesOK

LEMMA Names == Files = {"config", "device"} /\ FullAtomic = {"config"}
  BY NodeDBAssumption

LEMMA ContentsFacts ==
  /\ Contents("config") = Configs /\ Contents("device") = Places
  /\ DefaultConfig \in Configs
  BY NodeDBAssumption DEF Contents, Places, DefaultConfig, Configs, Settings

LEMMA EncodedFacts ==
  ASSUME DbTypes
  PROVE  /\ \A f \in Files : Encoded(f) \in Contents(f) /\ Encoded(f) \in Value
         /\ Encoded("config") = config /\ Encoded("device") \in Places
         /\ \A i \in 1..MaxNodes : Encoded("device")[i] \in {meshNodes[i], Blank}
<1>1. Encoded("device") = [i \in 1..MaxNodes |-> IF i <= numMeshNodes + Spare THEN meshNodes[i] ELSE Blank]
  BY DEF Encoded
<1>2. Encoded("config") = config
  BY DEF Encoded
<1>3. Encoded("device") \in Places /\ \A i \in 1..MaxNodes : Encoded("device")[i] \in {meshNodes[i], Blank}
  BY <1>1, NodeFacts DEF DbTypes, Places
<1>. QED
  BY <1>2, <1>3, Names, ContentsFacts DEF DbTypes, Value

(* What pb_encode has no room for are no nodes, and as many places as count *)
(* it has room for.                                                         *)
LEMMA EncodedKeeps ==
  ASSUME DbTypes, Unique(meshNodes)
  PROVE  /\ Unique(Encoded("device"))
         /\ BlankBeyond(meshNodes, numMeshNodes) => Favourites(Encoded("device"), meshNodes, numMeshNodes)
<1>1. \A i \in 1..MaxNodes : Encoded("device")[i] \in {meshNodes[i], Blank}
  BY EncodedFacts
<1>2. Unique(Encoded("device"))
  BY <1>1, NodeFacts DEF Unique
<1>3. ASSUME BlankBeyond(meshNodes, numMeshNodes), NEW i \in 1..MaxNodes,
             Encoded("device")[i].favorite, Encoded("device")[i].user
      PROVE  \E j \in 1..numMeshNodes : meshNodes[j] = Encoded("device")[i]
  <2>1. Encoded("device")[i] = meshNodes[i] /\ meshNodes[i] # Blank
    BY <1>1, <1>3, NodeFacts
  <2>2. i \in 1..numMeshNodes
    BY <1>3, <2>1, NodeFacts, SMT DEF BlankBeyond, DbTypes
  <2>. QED
    BY <2>1, <2>2
<1>. QED
  BY <1>2, <1>3 DEF Favourites

LEMMA QuietFs ==
  ASSUME IInv, saving = NoSave
  PROVE  /\ At("none") /\ io = NoIo
         /\ \A f \in Files : last[f] = Absent \/ file[f] = last[f]
<1>1. At("none")
  BY DEF IInv, LinkOK, NoSave
<1>. QED
  BY <1>1 DEF IInv, FsOK, WriteOK, OldOrNew, InWindow, At

LEMMA InitInv == Init => Inv
<1> SUFFICES ASSUME Init
             PROVE  Inv
  OBVIOUS
<1>1. FsOK
  <2>1. FsTypes
    BY ValueFacts DEF Init, FsInit, FsTypes, Io, NoIo
  <2>. QED
    BY <2>1 DEF Init, FsInit, FsOK, WriteOK, OldOrNew, At, NoIo, Absent
<1>2. SaveOK
  BY EmptySeq, SMT DEF Init, SaveOK, Save, NoSave
<1>3. DbTypes
  BY NodeFacts, ContentsFacts DEF Init, DbTypes
<1>4. ContentsOK
  BY DEF Init, FsInit, ContentsOK, Absent
<1>5. LinkOK
  BY DEF Init, FsInit, LinkOK, At, NoIo
<1>6. PlacesOK
  <2>1. Distinct(NoNodes, 0) /\ BlankBeyond(NoNodes, 0)
    BY SMT DEF Distinct, BlankBeyond, NoNodes
  <2>2. Unique(NoNodes)
    BY <2>1, NodeFacts, UniqueFromDistinct, SMT
  <2>3. file["device"].is = "absent"
    BY Names DEF Init, FsInit, Absent
  <2>. QED
    BY <2>1, <2>2, <2>3 DEF Init, PlacesOK
<1>7. KeyOK /\ ConfigOK /\ FavouritesOK
  BY DEF Init, KeyOK, ConfigOK, FavouritesOK
<1>. QED
  BY <1>1, <1>2, <1>3, <1>4, <1>5, <1>6, <1>7 DEF Inv, IInv

---------------------------------------------------------------------------
(* A change of what is in memory keeps the invariant if it is saved, or the *)
(* transaction is open, or nothing saved is lost by it.                     *)
LEMMA ChangeKeeps ==
  ASSUME Inv, Running, ~wiped, UNCHANGED <<up, unsaved, fsVars, wiped>>, SaveOK',
         config' \in Configs, config'.key \in given' \/ UNCHANGED <<config.key, given>>,
         meshNodes' \in Places, numMeshNodes' \in 0..MaxNodes,
         Distinct(meshNodes', numMeshNodes'), BlankBeyond(meshNodes', numMeshNodes'),
         \/ hasOpenEditTransaction' \/ ToWrite("config")' \/ "config" \in saving'.after
         \/ ~hasOpenEditTransaction /\ config' = config,
         \/ hasOpenEditTransaction' \/ ToWrite("device")'
         \/ /\ ~hasOpenEditTransaction
            /\ \A i \in 1..numMeshNodes : meshNodes[i].favorite /\ meshNodes[i].user =>
                 \E j \in 1..numMeshNodes' : meshNodes'[j] = meshNodes[i]
  PROVE  Inv'
<1> USE DEF Inv, IInv
<1>1. saving = NoSave /\ saving.todo = <<>> /\ up = "on" /\ up' = "on"
  BY DEF Running, Idle, NoSave
<1>2. At("none") /\ At("none")'
  BY <1>1, QuietFs DEF fsVars, At
<1>3. FsOK' /\ ContentsOK' /\ DbTypes' /\ LinkOK'
  <2>1. FsOK'
    BY FsUnchanged
  <2>2. ContentsOK'
    BY DEF ContentsOK, fsVars, Contents
  <2>3. DbTypes' /\ LinkOK'
    BY <1>1, <1>2 DEF DbTypes, LinkOK
  <2>. QED
    BY <2>1, <2>2, <2>3
<1>4. PlacesOK'
  <2>1. Unique(meshNodes')
    BY UniqueFromDistinct
  <2>. QED
    BY <2>1 DEF PlacesOK, fsVars
<1>5. KeyOK'
  BY <1>1 DEF KeyOK, fsVars
<1>6. ~ToWrite("config") /\ ~ToWrite("device") /\ ~Retried("config") /\ "config" \notin saving.after
  BY <1>1, EmptySeq, SMT DEF ToWrite, Retried, NoSave
<1>7. ConfigOK'
  BY <1>1, <1>6 DEF ConfigOK, Same, fsVars
<1>8. FavouritesOK'
  <2> SUFFICES ASSUME ~hasOpenEditTransaction', last["device"].is = "whole", ~ToWrite("device")'
               PROVE  Favourites(last["device"].of, meshNodes', numMeshNodes')
    BY DEF FavouritesOK, fsVars
  <2>1. Favourites(last["device"].of, meshNodes, numMeshNodes)
    BY <1>1, <1>6 DEF FavouritesOK
  <2>. QED
    BY <2>1 DEF Favourites
<1>. QED
  BY <1>3, <1>4, <1>5, <1>7, <1>8

(* Nothing asked for, or what a transaction leaves to its end. *)
LEMMA SaveChangesFacts ==
  ASSUME Inv, Running, NEW what \in SUBSET Files, SaveChanges(what)
  PROVE  SaveOK' /\ (hasOpenEditTransaction \/ \A f \in what : ToWrite(f)')
<1>1. CASE hasOpenEditTransaction
  BY <1>1 DEF SaveChanges, Inv, IInv, SaveOK
<1>2. CASE ~hasOpenEditTransaction
  BY <1>2, SaveToDiskFacts DEF SaveChanges
<1>. QED
  BY <1>1, <1>2

LEMMA PlacesKept ==
  ASSUME Inv, ~wiped
  PROVE  /\ config \in Configs /\ meshNodes \in Places /\ numMeshNodes \in 0..MaxNodes
         /\ Distinct(meshNodes, numMeshNodes) /\ BlankBeyond(meshNodes, numMeshNodes)
  BY DEF Inv, IInv, DbTypes, PlacesOK

LEMMA SettingsKeep ==
  ASSUME Inv, \/ BeginEdit \/ CommitEdit \/ SetConfig \/ SetPosition \/ SetSecurity \/ SetFixedPosition
              \/ SetOwner \/ Shutdown
  PROVE  Inv'
<1>1. Running /\ ~wiped /\ UNCHANGED <<up, unsaved, fsVars, wiped, meshNodes, numMeshNodes>>
  BY DEF BeginEdit, CommitEdit, SetConfig, SetPosition, SetSecurity, SetFixedPosition, SetOwner, Shutdown, Asked
<1>2. /\ config \in Configs /\ meshNodes' \in Places /\ numMeshNodes' \in 0..MaxNodes
      /\ Distinct(meshNodes', numMeshNodes') /\ BlankBeyond(meshNodes', numMeshNodes')
      /\ \A i \in 1..numMeshNodes : \E j \in 1..numMeshNodes' : meshNodes'[j] = meshNodes[i]
  BY <1>1, PlacesKept
<1>3. Files \in SUBSET Files /\ Files # {} /\ {"config"} \in SUBSET Files /\ {"device"} \in SUBSET Files
      /\ {} \in SUBSET Files
  BY Names
<1>4. CASE BeginEdit
  <2>1. SaveOK' /\ hasOpenEditTransaction' /\ config' = config /\ given' = given
    BY <1>4 DEF BeginEdit, Inv, IInv, SaveOK
  <2>. QED
    BY <1>1, <1>2, <2>1, ChangeKeeps, Zenon
<1>5. CASE CommitEdit
  <2>1. SaveToDisk(Files) /\ config' = config /\ given' = given
    BY <1>5 DEF CommitEdit
  <2>2. SaveOK' /\ \A f \in Files : ToWrite(f)'
    BY <1>3, <2>1, SaveToDiskFacts
  <2>3. ToWrite("config")' /\ ToWrite("device")'
    BY <2>2, Names
  <2>. QED
    BY <1>1, <1>2, <2>1, <2>2, <2>3, ChangeKeeps, Zenon
<1>6. CASE SetConfig
  <2>1. SaveOK' /\ (hasOpenEditTransaction \/ ToWrite("config")')
    BY <1>1, <1>3, <1>6, SaveChangesFacts DEF SetConfig
  <2>2. config' \in Configs /\ config'.key = config.key /\ UNCHANGED <<hasOpenEditTransaction, given>>
    BY <1>2, <1>6 DEF SetConfig, Configs
  <2>. QED
    BY <1>1, <1>2, <2>1, <2>2, ChangeKeeps, Zenon
<1>7. CASE SetFixedPosition
  <2>1. SaveOK' /\ (hasOpenEditTransaction \/ \A f \in Files : ToWrite(f)')
    BY <1>1, <1>3, <1>7, SaveChangesFacts DEF SetFixedPosition
  <2>2. hasOpenEditTransaction \/ ToWrite("config")'
    BY <2>1, Names
  <2>3. config' \in Configs /\ config'.key = config.key /\ UNCHANGED <<hasOpenEditTransaction, given>>
    BY <1>2, <1>7 DEF SetFixedPosition, Configs
  <2>. QED
    BY <1>1, <1>2, <2>1, <2>2, <2>3, ChangeKeeps, Zenon
<1>8. CASE SetSecurity
  <2>1. SaveOK' /\ (hasOpenEditTransaction \/ ToWrite("config")')
    BY <1>1, <1>3, <1>8, SaveChangesFacts DEF SetSecurity
  <2>2. config' \in Configs /\ config'.key \in given' /\ UNCHANGED hasOpenEditTransaction
    BY <1>2, <1>8 DEF SetSecurity, Configs
  <2>. QED
    BY <1>1, <1>2, <2>1, <2>2, ChangeKeeps, Zenon
<1>9. CASE SetPosition
  <2>1. config' \in Configs /\ config'.key = config.key /\ UNCHANGED <<hasOpenEditTransaction, given>>
    BY <1>2, <1>9 DEF SetPosition, Configs
  <2>2. CASE hasOpenEditTransaction
    <3>1. SaveOK'
      BY <1>9, <2>2 DEF SetPosition, Inv, IInv, SaveOK
    <3>. QED
      BY <1>1, <1>2, <2>1, <2>2, <3>1, ChangeKeeps, Zenon
  <2>3. CASE ~hasOpenEditTransaction
    <3>1. PICK retried \in BOOLEAN : saving' = SaveOf({"device"}, {"config"}, retried, "on")
      BY <1>9, <2>3 DEF SetPosition
    <3>2. SaveOK' /\ saving'.after = {"config"}
      BY <1>3, <3>1, SaveOfFacts
    <3>3. SaveOK' /\ "config" \in saving'.after
      BY <3>2
    <3>. QED
      BY <1>1, <1>2, <2>1, <2>3, <3>3, ChangeKeeps, Zenon
  <2>. QED
    BY <2>2, <2>3
<1>10. CASE SetOwner
  <2>1. SaveOK'
    BY <1>1, <1>3, <1>10, SaveChangesFacts, SaveToDiskFacts DEF SetOwner
  <2>2. config' = config /\ UNCHANGED <<hasOpenEditTransaction, given>>
    BY <1>10 DEF SetOwner
  <2>. QED
    BY <1>1, <1>2, <2>1, <2>2, ChangeKeeps, Zenon
<1>11. CASE Shutdown
  <2>1. PICK retried \in BOOLEAN : saving' = SaveOf(Files, {}, retried, "off")
    BY <1>11 DEF Shutdown
  <2>2. config' = config /\ given' = given
    BY <1>11 DEF Shutdown
  <2>3. SaveOK' /\ \A f \in Files : ToWrite(f)'
    BY <1>3, <2>1, SaveOfFacts
  <2>4. ToWrite("config")' /\ ToWrite("device")'
    BY <2>3, Names
  <2>. QED
    BY <1>1, <1>2, <2>2, <2>3, <2>4, ChangeKeeps, Zenon
<1>. QED
  BY <1>4, <1>5, <1>6, <1>7, <1>8, <1>9, <1>10, <1>11

LEMMA SetFavoriteKeeps ==
  ASSUME Inv, NEW n, NEW favorite \in BOOLEAN, SetFavorite(n, favorite)
  PROVE  Inv'
<1> DEFINE at == Index(meshNodes, numMeshNodes, n)
<1>1. Running /\ ~wiped /\ UNCHANGED <<up, unsaved, fsVars, wiped>>
  BY DEF SetFavorite, Asked
<1>2. PICK c \in Nat : c = numMeshNodes /\ 1..c \subseteq 1..MaxNodes
  BY <1>1, PlacesKept, NodeFacts, SMT
<1>3. at \in 1..MaxNodes /\ at \in 1..numMeshNodes
  BY <1>2, Zenon DEF SetFavorite, Listed, Index
<1> HIDE DEF at
<1>4. /\ meshNodes' = [meshNodes EXCEPT ![at].favorite = favorite]
      /\ UNCHANGED <<config, numMeshNodes, hasOpenEditTransaction, given>> /\ SaveChanges({"device"})
  BY DEF SetFavorite, at
<1>5. SaveOK' /\ (hasOpenEditTransaction \/ ToWrite("device")')
  <2>1. {"device"} \in SUBSET Files
    BY Names
  <2>. QED
    BY <1>1, <1>4, <2>1, SaveChangesFacts
<1>6. /\ meshNodes' \in Places
      /\ \A i \in 1..MaxNodes : meshNodes'[i].num = meshNodes[i].num /\ (i # at => meshNodes'[i] = meshNodes[i])
  <2>1. meshNodes' = [meshNodes EXCEPT ![at] = [meshNodes[at] EXCEPT !.favorite = favorite]]
    BY <1>4
  <2>2. meshNodes \in Places /\ meshNodes[at] \in Node
    BY <1>1, <1>3, PlacesKept DEF Places
  <2>3. /\ [meshNodes[at] EXCEPT !.favorite = favorite] \in Node
        /\ [meshNodes[at] EXCEPT !.favorite = favorite].num = meshNodes[at].num
    BY <2>2 DEF Node
  <2>. QED
    BY <1>3, <2>1, <2>2, <2>3 DEF Places
<1>7. Distinct(meshNodes', numMeshNodes')
  BY <1>1, <1>2, <1>4, <1>6, PlacesKept DEF Distinct
<1>8. BlankBeyond(meshNodes', numMeshNodes')
  BY <1>1, <1>2, <1>3, <1>4, <1>6, PlacesKept, NodeFacts, SMT DEF BlankBeyond
<1>. QED
  BY <1>1, <1>4, <1>5, <1>6, <1>7, <1>8, PlacesKept, ChangeKeeps, Zenon

LEMMA RemoveNodeKeeps ==
  ASSUME Inv, NEW n \in Others, RemoveNode(n)
  PROVE  Inv'
<1>a. PICK others : others = {node \in Node : node.num # n}
  OBVIOUS
<1>b. PICK count : count = KeptCount(meshNodes, numMeshNodes, others)
  OBVIOUS
<1>1. Running /\ ~wiped /\ UNCHANGED <<up, unsaved, fsVars, wiped>>
  BY DEF RemoveNode, Asked
<1>2. /\ meshNodes \in Places /\ numMeshNodes \in 0..MaxNodes
      /\ Distinct(meshNodes, numMeshNodes) /\ BlankBeyond(meshNodes, numMeshNodes) /\ config \in Configs
  BY <1>1, PlacesKept
<1>3. /\ meshNodes' = Compact(meshNodes, numMeshNodes, others, count + 1) /\ numMeshNodes' = count
      /\ saving' = SaveOf({"device"}, {}, TRUE, "on")
      /\ UNCHANGED <<config, hasOpenEditTransaction, given>>
  BY <1>a, <1>b DEF RemoveNode, SetNodes, SaveDeviceState
<1>4. SaveOK' /\ ToWrite("device")'
  <2>1. {"device"} \in SUBSET Files /\ {} \in SUBSET Files
    BY Names
  <2>2. PICK retried \in BOOLEAN : retried = TRUE
    OBVIOUS
  <2>. QED
    BY <1>3, <2>1, <2>2, SaveOfFacts
<1>5. /\ count \in 0..numMeshNodes /\ meshNodes' \in Places
      /\ \A k \in 1..count : \E i \in 1..numMeshNodes :
           KeptCount(meshNodes, i, others) = k /\ meshNodes'[k] = meshNodes[i]
      /\ \A k \in count + 1 .. MaxNodes : meshNodes'[k] = IF k <= count + 1 THEN Blank ELSE meshNodes[k]
  <2>1. PICK until : until = count + 1
    OBVIOUS
  <2>2. meshNodes' = Compact(meshNodes, numMeshNodes, others, until)
    BY <1>3, <2>1
  <2>3. count \in 0..numMeshNodes /\ meshNodes' \in Places
    BY <1>2, <1>b, <2>2, CompactFacts
  <2>4. \A k \in 1..count : \E i \in 1..numMeshNodes :
          /\ meshNodes[i] \in others /\ KeptCount(meshNodes, i, others) = k /\ meshNodes'[k] = meshNodes[i]
    BY <1>2, <1>b, <2>2, CompactFacts
  <2>5. \A k \in count + 1 .. MaxNodes : meshNodes'[k] = IF k <= until THEN Blank ELSE meshNodes[k]
    BY <1>2, <1>b, <2>2, CompactFacts
  <2>. QED
    BY <2>1, <2>3, <2>4, <2>5
<1>6. numMeshNodes <= count + 1
  <2>1. IsFiniteSet(1..numMeshNodes) /\ Cardinality(1..numMeshNodes) = numMeshNodes
    BY <1>2, FS_Interval, SMT
  <2>2. \A i \in 1..numMeshNodes : meshNodes[i] \in Node
    BY <1>2, NodeFacts, SMT DEF Places
  <2>3. CASE \E w \in 1..numMeshNodes : meshNodes[w].num = n
    <3>1. PICK w \in 1..numMeshNodes : meshNodes[w].num = n
      BY <2>3
    <3>2. Kept(meshNodes, numMeshNodes, others) = (1..numMeshNodes) \ {w}
      BY <1>2, <1>a, <2>2, <3>1 DEF Kept, Distinct
    <3>. QED
      <4>1. count = numMeshNodes - 1
        BY <1>b, <2>1, <3>1, <3>2, FS_RemoveElement DEF KeptCount
      <4>. QED
        BY <1>2, <4>1, NodeFacts, SMT
  <2>4. CASE ~\E w \in 1..numMeshNodes : meshNodes[w].num = n
    <3>1. Kept(meshNodes, numMeshNodes, others) = 1..numMeshNodes
      BY <1>a, <2>2, <2>4 DEF Kept
    <3>. QED
      BY <1>2, <1>b, <2>1, <3>1, NodeFacts, SMT DEF KeptCount
  <2>. QED
    BY <2>3, <2>4
<1>7. count \in 0..MaxNodes /\ count \in Nat /\ MaxNodes \in Nat
  BY <1>2, <1>5, NodeFacts, SMT
<1>8. Distinct(meshNodes', count)
  <2> SUFFICES ASSUME NEW k \in 1..count, NEW l \in 1..count, meshNodes'[k].num = meshNodes'[l].num
               PROVE  k = l
    BY DEF Distinct
  <2>1. PICK i \in 1..numMeshNodes : KeptCount(meshNodes, i, others) = k /\ meshNodes'[k] = meshNodes[i]
    BY <1>5
  <2>2. PICK j \in 1..numMeshNodes : KeptCount(meshNodes, j, others) = l /\ meshNodes'[l] = meshNodes[j]
    BY <1>5
  <2>3. i = j
    BY <1>2, <2>1, <2>2 DEF Distinct
  <2>. QED
    BY <2>1, <2>2, <2>3
<1>9. BlankBeyond(meshNodes', count)
  BY <1>2, <1>5, <1>6, <1>7, SMT DEF BlankBeyond
<1>. QED
  BY <1>1, <1>2, <1>3, <1>4, <1>5, <1>7, <1>8, <1>9, ChangeKeeps, Zenon

LEMMA ResetNodesKeeps ==
  ASSUME Inv, ResetNodes
  PROVE  Inv'
<1>1. Running /\ ~wiped /\ UNCHANGED <<up, unsaved, fsVars, wiped>>
  BY DEF ResetNodes, Asked
<1>2. meshNodes \in Places /\ config \in Configs
  BY <1>1, PlacesKept
<1>3. /\ meshNodes' = [NoNodes EXCEPT ![1] = meshNodes[1]] /\ numMeshNodes' = 1
      /\ saving' = SaveOf({"device"}, {}, TRUE, "on")
      /\ UNCHANGED <<config, hasOpenEditTransaction, given>>
  BY DEF ResetNodes, SetNodes, SaveDeviceState
<1>4. SaveOK' /\ ToWrite("device")'
  <2>1. {"device"} \in SUBSET Files /\ {} \in SUBSET Files
    BY Names
  <2>2. PICK retried \in BOOLEAN : retried = TRUE
    OBVIOUS
  <2>. QED
    BY <1>3, <2>1, <2>2, SaveOfFacts
<1>5. 1 \in 0..MaxNodes /\ 1 \in 1..MaxNodes
  BY NodeFacts, SMT
<1>6. meshNodes' \in Places
  BY <1>2, <1>3, <1>5, NodeFacts DEF Places
<1>7. Distinct(meshNodes', numMeshNodes') /\ BlankBeyond(meshNodes', numMeshNodes')
  BY <1>3, <1>5, NodeFacts, SMT DEF Distinct, BlankBeyond, NoNodes
<1>. QED
  BY <1>1, <1>2, <1>3, <1>4, <1>5, <1>6, <1>7, ChangeKeeps, Zenon

LEMMA HeardKeeps ==
  ASSUME Inv, NEW n \in Others, Heard(n)
  PROVE  Inv'
<1>1. Running /\ ~wiped /\ UNCHANGED <<up, config, unsaved, fsVars, hasOpenEditTransaction, wiped, given>>
  BY DEF Heard, UpdateFrom, UpdateUser, adminVars
<1>2. /\ meshNodes \in Places /\ numMeshNodes \in 0..MaxNodes
      /\ Distinct(meshNodes, numMeshNodes) /\ BlankBeyond(meshNodes, numMeshNodes) /\ config \in Configs
  BY <1>1, PlacesKept
<1>3. n \in Others \union {Self} /\ MaxNodes \in Nat
  BY NodeFacts
<1>4. CASE UpdateFrom(n)
  <2>0. PICK lowHeap \in BOOLEAN : \E db \in GetOrCreate(meshNodes, numMeshNodes, n, lowHeap) : SetNodes(db)
    BY <1>4 DEF UpdateFrom
  <2>1. PICK db \in GetOrCreate(meshNodes, numMeshNodes, n, lowHeap) :
          meshNodes' = db.nodes /\ numMeshNodes' = db.count
    BY <2>0 DEF SetNodes
  <2>2. SaveOK'
    BY <1>4 DEF UpdateFrom, Inv, IInv, SaveOK
  <2>3. /\ meshNodes' \in Places /\ numMeshNodes' \in 0..MaxNodes
        /\ Distinct(meshNodes', numMeshNodes') /\ BlankBeyond(meshNodes', numMeshNodes')
        /\ \A i \in 1..numMeshNodes : meshNodes[i].favorite => \E j \in 1..numMeshNodes' : meshNodes'[j] = meshNodes[i]
    BY <1>2, <1>3, <2>1, GetOrCreateFacts
  <2>. QED
    BY <1>1, <1>2, <2>2, <2>3, ChangeKeeps, Zenon
<1>5. CASE UpdateUser(n)
  <2>0. PICK lowHeap \in BOOLEAN : \E db \in GetOrCreate(meshNodes, numMeshNodes, n, lowHeap) :
          SetNodes([db EXCEPT !.nodes[Index(db.nodes, db.count, n)].user = TRUE])
    BY <1>5 DEF UpdateUser
  <2>1. PICK db \in GetOrCreate(meshNodes, numMeshNodes, n, lowHeap) :
          SetNodes([db EXCEPT !.nodes[Index(db.nodes, db.count, n)].user = TRUE])
    BY <2>0
  <2>2. SaveOK'
    BY <1>5, SaveToDiskFacts, Names DEF UpdateUser
  <2>3. /\ db = [nodes |-> db.nodes, count |-> db.count]
        /\ db.nodes \in Places /\ db.count \in 1..MaxNodes /\ Listed(db.nodes, db.count, n)
        /\ Distinct(db.nodes, db.count) /\ BlankBeyond(db.nodes, db.count)
        /\ \A i \in 1..numMeshNodes : meshNodes[i].favorite => \E j \in 1..db.count : db.nodes[j] = meshNodes[i]
    BY <1>2, <1>3, GetOrCreateFacts
  <2>4. /\ meshNodes' = [db.nodes EXCEPT ![Index(db.nodes, db.count, n)].user = TRUE]
        /\ numMeshNodes' = db.count
    BY <2>1, <2>3 DEF SetNodes
  <2>5. /\ meshNodes' \in Places
        /\ Distinct(meshNodes', numMeshNodes') /\ BlankBeyond(meshNodes', numMeshNodes')
        /\ \A i \in 1..MaxNodes : db.nodes[i].user => meshNodes'[i] = db.nodes[i]
    BY <2>3, <2>4, MarkFacts
  <2>6. numMeshNodes' \in 0..MaxNodes /\ 1..numMeshNodes' \subseteq 1..MaxNodes
    BY <1>3, <2>3, <2>4, SMT
  <2>7. \A i \in 1..numMeshNodes : meshNodes[i].favorite /\ meshNodes[i].user =>
          \E j \in 1..numMeshNodes' : meshNodes'[j] = meshNodes[i]
    BY <2>3, <2>4, <2>5, <2>6
  <2>. QED
    BY <1>1, <1>2, <2>2, <2>5, <2>6, <2>7, ChangeKeeps, Zenon
<1>. QED
  BY <1>4, <1>5 DEF Heard

---------------------------------------------------------------------------
(* Power off and on. *)

LEMMA PowerOffKeeps ==
  ASSUME Inv, PowerOff, UNCHANGED <<file, unsaved>>, FsOK', At("none")',
         \A f \in Files : last'[f] \in {last[f], Absent}
  PROVE  Inv'
<1>1. SaveOK'
  BY EmptySeq, SMT DEF PowerOff, SaveOK, Save, NoSave
<1>2. DbTypes' /\ LinkOK'
  BY NodeFacts, ContentsFacts DEF Inv, IInv, PowerOff, DbTypes, LinkOK
<1>3. ContentsOK'
  BY DEF Inv, IInv, ContentsOK, Contents
<1>4. PlacesOK'
  <2>1. Distinct(NoNodes, 0) /\ BlankBeyond(NoNodes, 0)
    BY SMT DEF Distinct, BlankBeyond, NoNodes
  <2>2. Unique(NoNodes)
    BY <2>1, NodeFacts, UniqueFromDistinct, SMT
  <2>. QED
    BY <2>1, <2>2 DEF Inv, PowerOff, PlacesOK
<1>5. KeyOK' /\ ConfigOK' /\ FavouritesOK'
  BY DEF PowerOff, KeyOK, ConfigOK, FavouritesOK
<1>. QED
  BY <1>1, <1>2, <1>3, <1>4, <1>5 DEF Inv, IInv

LEMMA RestartsKeep ==
  ASSUME Inv, Restart \/ Crash \/ \E n \in Others : Abort(n)
  PROVE  Inv'
<1>1. CASE Restart \/ \E n \in Others : Abort(n)
  <2>1. Running /\ PowerOff /\ UNCHANGED <<fsVars, unsaved>>
    BY <1>1 DEF Restart, Abort
  <2>2. At("none")'
    BY <2>1, QuietFs DEF Inv, Running, Idle, At, fsVars
  <2>3. FsOK'
    BY <2>1, FsUnchanged DEF Inv, IInv
  <2>. QED
    BY <2>1, <2>2, <2>3, PowerOffKeeps DEF fsVars
<1>2. CASE Crash
  <2>1. PowerOff /\ FsCrash /\ UNCHANGED unsaved
    BY <1>2 DEF Crash
  <2>2. FsOK'
    BY <2>1, FsCrashOK DEF Inv, IInv
  <2>3. At("none")' /\ UNCHANGED file /\ \A f \in Files : last'[f] \in {last[f], Absent}
    BY <2>1 DEF FsCrash, Lose, At, NoIo
  <2>. QED
    BY <2>1, <2>2, <2>3, PowerOffKeeps
<1>. QED
  BY <1>1, <1>2

(* What the constructor finds. *)
LEMMA LoadedFacts ==
  ASSUME Inv, NEW misread \in Misread
  PROVE  /\ misread \subseteq Files
         /\ \A c \in LoadedConfig(Found(misread)) : c \in Configs
         /\ \A nodes \in LoadedNodes(Found(misread)) : nodes \in Places /\ Unique(nodes)
         /\ file["config"].is = "whole" /\ "config" \notin misread =>
              \A c \in LoadedConfig(Found(misread)) : c = file["config"].of
         /\ file["device"].is = "whole" /\ "device" \notin misread =>
              \A nodes \in LoadedNodes(Found(misread)) : nodes = file["device"].of
<1>1. /\ file["config"].is # "absent" => file["config"].of \in Configs
      /\ file["device"].is # "absent" => file["device"].of \in Places /\ Unique(file["device"].of)
  BY Names, ContentsFacts DEF Inv, IInv, ContentsOK, PlacesOK
<1>2. PICK found : found = Found(misread)
  OBVIOUS
<1>3. /\ misread \subseteq Files
      /\ \A f \in Files : /\ f \notin misread => found[f] = file[f]
                          /\ f \in misread => file[f].is = "whole" /\ found[f] = Torn(file[f].of)
  BY <1>2 DEF Misread, Found
<1>4. /\ found["config"].is # "absent" => found["config"].of \in Configs
      /\ found["device"].is # "absent" => found["device"].of \in Places /\ Unique(found["device"].of)
  <2>1. \A v : Torn(v).of = v
    BY DEF Torn
  <2>2. ASSUME NEW f \in Files, found[f].is # "absent"
        PROVE  found[f].of = file[f].of /\ file[f].is # "absent"
    <3>1. CASE f \in misread
      <4>1. file[f].is = "whole" /\ found[f] = Torn(file[f].of)
        BY <1>3, <3>1
      <4>. QED
        BY <2>1, <4>1
    <3>2. CASE f \notin misread
      BY <1>3, <2>2, <3>2
    <3>. QED
      BY <3>1, <3>2
  <2>. QED
    BY <1>1, <2>2, Names
<1>5. \A c \in LoadedConfig(found) : c \in Configs
  BY <1>4, ContentsFacts DEF LoadedConfig, Configs
<1>6. Unique(NoNodes)
  BY NodeFacts, SMT DEF Unique, NoNodes
<1>7. ASSUME NEW k \in 0..MaxNodes, found["device"].is = "torn"
      PROVE  LET nodes == [i \in 1..MaxNodes |-> IF i <= k THEN found["device"].of[i] ELSE Blank]
             IN nodes \in Places /\ Unique(nodes)
  BY <1>4, <1>7, NodeFacts, SMT DEF Places, Unique
<1>8. \A nodes \in LoadedNodes(found) : nodes \in Places /\ Unique(nodes)
  BY <1>4, <1>6, <1>7, NodeFacts DEF LoadedNodes
<1>9. /\ file["config"].is = "whole" /\ "config" \notin misread => \A c \in LoadedConfig(found) : c = file["config"].of
      /\ file["device"].is = "whole" /\ "device" \notin misread =>
           \A nodes \in LoadedNodes(found) : nodes = file["device"].of
  <2>1. ASSUME file["config"].is = "whole", "config" \notin misread
        PROVE  \A c \in LoadedConfig(found) : c = file["config"].of
    <3>1. found["config"] = file["config"]
      BY <1>3, <2>1, Names
    <3>2. LoadedConfig(found) = {found["config"].of}
      BY <2>1, <3>1, Zenon DEF LoadedConfig
    <3>. QED
      BY <3>1, <3>2
  <2>2. ASSUME file["device"].is = "whole", "device" \notin misread
        PROVE  \A nodes \in LoadedNodes(found) : nodes = file["device"].of
    <3>1. found["device"] = file["device"]
      BY <1>3, <2>2, Names
    <3>2. LoadedNodes(found) = {found["device"].of}
      BY <2>2, <3>1, Zenon DEF LoadedNodes
    <3>. QED
      BY <3>1, <3>2
  <2>. QED
    BY <2>1, <2>2
<1>. QED
  BY <1>2, <1>3, <1>5, <1>8, <1>9

(* The database is cleaned and the node itself listed. *)
LEMMA WithSelfFacts ==
  ASSUME NEW nodes \in Places, Unique(nodes), NEW db \in WithSelf(nodes)
  PROVE  /\ db = [nodes |-> db.nodes, count |-> db.count]
         /\ db.nodes \in Places /\ db.count \in 1..MaxNodes /\ Listed(db.nodes, db.count, Self)
         /\ Distinct(db.nodes, db.count) /\ BlankBeyond(db.nodes, db.count)
         /\ \A i \in 1..MaxNodes : nodes[i].favorite /\ nodes[i].user =>
              \E j \in 1..db.count : db.nodes[j] = nodes[i]
<1>1. PICK count : count = KeptCount(nodes, MaxNodes, HasUser)
  OBVIOUS
<1>2. PICK kept : kept = Compact(nodes, MaxNodes, HasUser, MaxNodes)
  OBVIOUS
<1>3. MaxNodes \in Nat /\ MaxNodes \in 0..MaxNodes
  BY NodeFacts, SMT
<1>4. count \in 0..MaxNodes /\ kept \in Places
  BY <1>1, <1>2, <1>3, CompactFacts
<1>5. \A k \in 1..count : \E i \in 1..MaxNodes :
        nodes[i] \in HasUser /\ KeptCount(nodes, i, HasUser) = k /\ kept[k] = nodes[i]
  BY <1>1, <1>2, <1>3, CompactFacts
<1>6. \A i \in 1..MaxNodes : nodes[i] \in HasUser => \E k \in 1..count : kept[k] = nodes[i]
  BY <1>1, <1>2, <1>3, CompactFacts
<1>7. \A k \in count + 1 .. MaxNodes : kept[k] = IF k <= MaxNodes THEN Blank ELSE nodes[k]
  BY <1>1, <1>2, <1>3, CompactFacts
<1>8. Distinct(kept, count)
  <2> SUFFICES ASSUME NEW k \in 1..count, NEW l \in 1..count, kept[k].num = kept[l].num
               PROVE  k = l
    BY DEF Distinct
  <2>1. PICK i \in 1..MaxNodes : nodes[i] \in HasUser /\ KeptCount(nodes, i, HasUser) = k /\ kept[k] = nodes[i]
    BY <1>5
  <2>2. PICK j \in 1..MaxNodes : nodes[j] \in HasUser /\ KeptCount(nodes, j, HasUser) = l /\ kept[l] = nodes[j]
    BY <1>5
  <2>3. i = j
    BY <2>1, <2>2 DEF Unique, HasUser
  <2>. QED
    BY <2>1, <2>2, <2>3
<1>9. BlankBeyond(kept, count)
  BY <1>3, <1>4, <1>7, SMT DEF BlankBeyond
<1>10. db \in GetOrCreate(kept, count, Self, FALSE)
  BY <1>1, <1>2 DEF WithSelf
<1>11. /\ db = [nodes |-> db.nodes, count |-> db.count]
       /\ db.nodes \in Places /\ db.count \in 1..MaxNodes /\ Listed(db.nodes, db.count, Self)
       /\ Distinct(db.nodes, db.count) /\ BlankBeyond(db.nodes, db.count)
       /\ \A k \in 1..count : kept[k].favorite => \E j \in 1..db.count : db.nodes[j] = kept[k]
  <2>1. PICK n \in Others \union {Self} : n = Self
    OBVIOUS
  <2>2. PICK lowHeap \in BOOLEAN : lowHeap = FALSE
    OBVIOUS
  <2>3. db \in GetOrCreate(kept, count, n, lowHeap)
    BY <1>10, <2>1, <2>2
  <2>4. /\ db = [nodes |-> db.nodes, count |-> db.count]
        /\ db.nodes \in Places /\ db.count \in 1..MaxNodes /\ Listed(db.nodes, db.count, n)
    BY <1>4, <2>3, GetOrCreateFacts
  <2>5. Distinct(db.nodes, db.count) /\ BlankBeyond(db.nodes, db.count)
    BY <1>4, <1>8, <1>9, <2>3, GetOrCreateFacts
  <2>6. \A k \in 1..count : kept[k].favorite => \E j \in 1..db.count : db.nodes[j] = kept[k]
    BY <1>4, <2>3, GetOrCreateFacts
  <2>. QED
    BY <2>1, <2>4, <2>5, <2>6
<1>12. ASSUME NEW i \in 1..MaxNodes, nodes[i].favorite, nodes[i].user
       PROVE  \E j \in 1..db.count : db.nodes[j] = nodes[i]
  <2>1. nodes[i] \in HasUser
    BY <1>12 DEF HasUser, Places
  <2>2. PICK k \in 1..count : kept[k] = nodes[i]
    BY <1>6, <2>1
  <2>. QED
    BY <1>11, <1>12, <2>2
<1>. QED
  BY <1>11, <1>12

LEMMA BootKeeps ==
  ASSUME Inv, Starts
  PROVE  Inv'
<1>1. up = "off" /\ UNCHANGED <<unsaved, file, io, esp32, hasOpenEditTransaction, wiped, given>> /\ FsTypes /\ ContentsOK
  BY DEF Starts, Boot, adminVars, Inv, IInv, FsOK
<1>2. saving = NoSave
  BY <1>1 DEF Inv, IInv, LinkOK
<1>3. At("none") /\ At("none")' /\ \A f \in Files : last[f] = Absent \/ file[f] = last[f]
  BY <1>1, <1>2, QuietFs DEF Inv, At
<1>a. PICK misread \in Misread :
        /\ IF misread = {} THEN UNCHANGED <<last, faults>> ELSE Fault /\ Lose(misread)
        /\ \E c \in LoadedConfig(Found(misread)), nodes \in LoadedNodes(Found(misread)) :
             LET new == c.key = NoKey
                 device == new \/ esp32 \/ Found(misread)["device"].is # "whole"
             IN /\ \E db \in WithSelf(nodes) :
                     SetNodes([db EXCEPT !.nodes[Index(db.nodes, db.count, Self)].user = TRUE])
                /\ \E k \in (IF new THEN NewKey ELSE {c.key}) : config' = Migrated([c EXCEPT !.key = k])
                /\ SaveToDisk((IF new THEN {"config"} ELSE {}) \union (IF device THEN {"device"} ELSE {}))
                /\ up' = IF new \/ device THEN "boot" ELSE "on"
  BY Zenon DEF Starts, Boot
<1>b. \A f \in Files : last'[f] = IF f \in misread THEN Absent ELSE last[f]
  BY <1>a DEF Lose
<1>4. PICK c \in LoadedConfig(Found(misread)) : \E nodes \in LoadedNodes(Found(misread)) :
        LET new == c.key = NoKey
            device == new \/ esp32 \/ Found(misread)["device"].is # "whole"
        IN /\ \E db \in WithSelf(nodes) :
                SetNodes([db EXCEPT !.nodes[Index(db.nodes, db.count, Self)].user = TRUE])
           /\ \E k \in (IF new THEN NewKey ELSE {c.key}) : config' = Migrated([c EXCEPT !.key = k])
           /\ SaveToDisk((IF new THEN {"config"} ELSE {}) \union (IF device THEN {"device"} ELSE {}))
           /\ up' = IF new \/ device THEN "boot" ELSE "on"
  BY <1>a, Zenon
<1>5. PICK nodes \in LoadedNodes(Found(misread)) :
        LET new == c.key = NoKey
            device == new \/ esp32 \/ Found(misread)["device"].is # "whole"
        IN /\ \E db \in WithSelf(nodes) :
                SetNodes([db EXCEPT !.nodes[Index(db.nodes, db.count, Self)].user = TRUE])
           /\ \E k \in (IF new THEN NewKey ELSE {c.key}) : config' = Migrated([c EXCEPT !.key = k])
           /\ SaveToDisk((IF new THEN {"config"} ELSE {}) \union (IF device THEN {"device"} ELSE {}))
           /\ up' = IF new \/ device THEN "boot" ELSE "on"
  BY <1>4, Zenon
<1>6. PICK what : what = (IF c.key = NoKey THEN {"config"} ELSE {})
                         \union (IF c.key = NoKey \/ esp32 \/ Found(misread)["device"].is # "whole"
                                 THEN {"device"} ELSE {})
  OBVIOUS
<1>7. /\ SaveToDisk(what) /\ up' \in {"boot", "on"}
      /\ \E k \in (IF c.key = NoKey THEN NewKey ELSE {c.key}) : config' = Migrated([c EXCEPT !.key = k])
  BY <1>5, <1>6
<1>8. PICK db \in WithSelf(nodes) : SetNodes([db EXCEPT !.nodes[Index(db.nodes, db.count, Self)].user = TRUE])
  BY <1>5
<1>9. /\ c \in Configs /\ nodes \in Places /\ Unique(nodes)
      /\ file["config"].is = "whole" /\ "config" \notin misread => c = file["config"].of
      /\ file["device"].is = "whole" /\ "device" \notin misread => nodes = file["device"].of
  BY LoadedFacts
<1>10. /\ db = [nodes |-> db.nodes, count |-> db.count]
       /\ db.nodes \in Places /\ db.count \in 1..MaxNodes /\ Listed(db.nodes, db.count, Self)
       /\ Distinct(db.nodes, db.count) /\ BlankBeyond(db.nodes, db.count)
       /\ \A i \in 1..MaxNodes : nodes[i].favorite /\ nodes[i].user =>
            \E j \in 1..db.count : db.nodes[j] = nodes[i]
  BY <1>9, WithSelfFacts
<1>11. /\ meshNodes' = [db.nodes EXCEPT ![Index(db.nodes, db.count, Self)].user = TRUE]
       /\ numMeshNodes' = db.count
  BY <1>8, <1>10 DEF SetNodes
<1>12. /\ meshNodes' \in Places
       /\ Distinct(meshNodes', numMeshNodes') /\ BlankBeyond(meshNodes', numMeshNodes')
       /\ \A i \in 1..MaxNodes : db.nodes[i].user => meshNodes'[i] = db.nodes[i]
  BY <1>10, <1>11, MarkFacts
<1>13. numMeshNodes' \in 0..MaxNodes /\ 1..numMeshNodes' \subseteq 1..MaxNodes
  BY <1>10, <1>11, NodeFacts, SMT
<1>14. SaveOK' /\ (c.key = NoKey => ToWrite("config")')
  <2>1. what \in SUBSET Files /\ (c.key = NoKey => "config" \in what)
    BY <1>6, Names
  <2>. QED
    BY <1>7, <2>1, SaveToDiskFacts
<1>15. config' \in Configs /\ (c.key # NoKey => config'.key = c.key /\ Migrated(config') = Migrated(c))
  <2>1. PICK k \in (IF c.key = NoKey THEN NewKey ELSE {c.key}) : config' = Migrated([c EXCEPT !.key = k])
    BY <1>7
  <2>2. k \in Keys \union {NoKey} /\ (c.key # NoKey => [c EXCEPT !.key = k] = c)
    BY <1>9, <2>1 DEF Configs, NewKey
  <2>3. \A d \in Configs : /\ Migrated(d) \in Configs /\ Migrated(d).key = d.key
                           /\ Migrated(Migrated(d)) = Migrated(d)
    BY DEF Configs, Settings, Migrated
  <2>4. [c EXCEPT !.key = k] \in Configs
    BY <1>9, <2>2 DEF Configs
  <2>. QED
    BY <2>1, <2>2, <2>3, <2>4
<1>16. /\ \A f \in Files : last[f].is = "whole" => file[f] = last[f]
       /\ \A f \in Files : last[f] # Absent => last[f] = Whole(last[f].of) /\ file[f] = last[f]
  <2>1. \A f \in Files : last[f].is = "whole" => last[f] # Absent
    BY DEF Absent
  <2>2. \A f \in Files : last[f].is = "whole" => last[f] = Whole(last[f].of)
    BY <1>1 DEF FsTypes, Content, Whole
  <2>. QED
    BY <1>1, <1>3, <2>1, <2>2 DEF ContentsOK
<1>17. FsOK' /\ ContentsOK' /\ DbTypes' /\ LinkOK'
  <2>1. FsOK'
    BY <1>1, <1>a, FsUnchanged, LoseOK DEF Inv, IInv, Boot, fsVars
  <2>2. ContentsOK'
    BY <1>1, <1>b DEF ContentsOK, Contents, Absent
  <2>3. DbTypes' /\ LinkOK'
    BY <1>1, <1>3, <1>7, <1>12, <1>13, <1>15 DEF DbTypes, LinkOK, Inv, IInv
  <2>. QED
    BY <2>1, <2>2, <2>3
<1>18. PlacesOK'
  <2>1. Unique(meshNodes')
    BY <1>12, <1>13, UniqueFromDistinct
  <2>. QED
    BY <1>1, <1>12, <2>1 DEF PlacesOK, Inv
<1>19. KeyOK'
  <2>1. last'["config"].is = "whole" => last'["config"].of = c
    BY <1>9, <1>16, <1>b, Names DEF Absent
  <2>. QED
    BY <1>15, <2>1 DEF KeyOK
<1>20. ConfigOK'
  <2>1. last'["config"] # Absent => last'["config"].is = "whole" /\ last'["config"].of = c
    BY <1>9, <1>16, <1>b, Names DEF Whole
  <2>. QED
    BY <1>14, <1>15, <2>1 DEF ConfigOK, Same
<1>21. FavouritesOK'
  <2>1. last'["device"].is = "whole" => last'["device"].of = nodes
    BY <1>9, <1>16, <1>b, Names DEF Absent
  <2>2. ASSUME NEW i \in 1..MaxNodes, nodes[i].favorite, nodes[i].user
        PROVE  \E j \in 1..numMeshNodes' : meshNodes'[j] = nodes[i]
    <3>1. PICK j \in 1..numMeshNodes' : db.nodes[j] = nodes[i]
      BY <1>10, <1>11, <2>2
    <3>. QED
      BY <1>12, <1>13, <2>2, <3>1
  <2>. QED
    BY <2>1, <2>2 DEF FavouritesOK, Favourites
<1>. QED
  BY <1>14, <1>17, <1>18, <1>19, <1>20, <1>21 DEF Inv, IInv

LEMMA FactoryResetKeeps ==
  ASSUME Inv, FactoryReset
  PROVE  Inv'
<1>1. /\ Running /\ Format /\ wiped' = TRUE /\ numMeshNodes' = 0
      /\ UNCHANGED <<up, meshNodes, unsaved, io>> /\ SaveToDisk(Files)
  BY DEF FactoryReset
<1>2. At("none") /\ io' = NoIo
  BY <1>1, QuietFs DEF Inv, Running, Idle
<1>3. FsOK'
  BY <1>1, <1>2, FormatOK DEF Inv, IInv
<1>4. SaveOK'
  BY <1>1, SaveToDiskFacts
<1>5. \A f \in Files : file'[f] = Absent /\ last'[f] = Absent
  BY <1>1 DEF Format, Lose
<1>6. config' \in Configs
  <2>1. config \in Configs
    BY DEF Inv, IInv, DbTypes
  <2>. QED
    BY <2>1, NodeDBAssumption DEF FactoryReset, DefaultConfig, Configs, Settings
<1>7. DbTypes' /\ LinkOK' /\ ContentsOK'
  BY <1>1, <1>2, <1>5, <1>6, NodeFacts DEF Inv, IInv, DbTypes, LinkOK, ContentsOK, At, NoIo, Absent, Running
<1>8. PlacesOK'
  BY <1>1, <1>5, Names DEF Inv, PlacesOK, Distinct, Absent
<1>9. KeyOK' /\ ConfigOK' /\ FavouritesOK'
  BY <1>5, Names DEF KeyOK, ConfigOK, FavouritesOK, Absent
<1>. QED
  BY <1>3, <1>4, <1>7, <1>8, <1>9 DEF Inv, IInv

(* The flash is formatted because other files could not be saved. *)
LEMMA SetModuleConfigKeeps ==
  ASSUME Inv, SetModuleConfig
  PROVE  Inv'
<1>1. Running /\ Format /\ UNCHANGED <<dbVars, io, adminVars>>
  BY DEF SetModuleConfig
<1>2. At("none") /\ io' = NoIo
  BY <1>1, QuietFs DEF Inv, Running, Idle
<1>3. FsOK'
  BY <1>1, <1>2, FormatOK DEF Inv, IInv
<1>4. \A f \in Files : file'[f] = Absent /\ last'[f] = Absent
  BY <1>1 DEF Format, Lose
<1>5. SaveOK' /\ DbTypes' /\ LinkOK' /\ ContentsOK'
  BY <1>1, <1>2, <1>4 DEF Inv, IInv, SaveOK, DbTypes, LinkOK, ContentsOK, At, NoIo, Absent, dbVars
<1>6. PlacesOK'
  BY <1>1, <1>4, Names DEF Inv, PlacesOK, Absent, dbVars, adminVars
<1>7. KeyOK' /\ ConfigOK' /\ FavouritesOK'
  BY <1>4, Names DEF KeyOK, ConfigOK, FavouritesOK, Absent
<1>. QED
  BY <1>3, <1>5, <1>6, <1>7 DEF Inv, IInv

---------------------------------------------------------------------------
(* The steps of a save. *)

LEMMA HeadTail ==
  ASSUME NEW S, NEW q \in Seq(S), q # <<>>
  PROVE  /\ Head(q) \in S /\ 1 \in 1..Len(q) /\ q[1] = Head(q) /\ Tail(q) \in Seq(S)
         /\ \A i \in 1..Len(Tail(q)) : i + 1 \in 1..Len(q) /\ Tail(q)[i] = q[i + 1]
         /\ \A i \in 1..Len(q) : q[i] = Head(q) \/ \E j \in 1..Len(Tail(q)) : Tail(q)[j] = q[i]
         /\ Tail(q) = <<>> => \A i \in 1..Len(q) : q[i] = Head(q)
<1>1. /\ Len(q) \in Nat /\ Len(q) >= 1 /\ Head(q) = q[1] /\ Head(q) \in S /\ Tail(q) \in Seq(S)
      /\ Len(Tail(q)) = Len(q) - 1
      /\ \A i \in 1..Len(Tail(q)) : Tail(q)[i] = q[i + 1]
  BY HeadTailProperties, LenProperties, EmptySeq, SMT
<1>2. ASSUME NEW i \in 1..Len(q)
      PROVE  q[i] = Head(q) \/ \E j \in 1..Len(Tail(q)) : Tail(q)[j] = q[i]
  <2>1. CASE i = 1
    BY <1>1, <2>1
  <2>2. CASE i # 1
    <3>1. i - 1 \in 1..Len(Tail(q)) /\ (i - 1) + 1 = i
      BY <1>1, <2>2, SMT
    <3>. QED
      BY <1>1, <3>1
  <2>. QED
    BY <2>1, <2>2
<1>3. Tail(q) = <<>> => \A i \in 1..Len(q) : i = 1
  <2>1. Len(<<>>) = 0
    BY EmptySeq
  <2>2. Tail(q) = <<>> => Len(Tail(q)) = 0
    BY <2>1, Zenon
  <2>. QED
    BY <1>1, <2>2, SMT
<1>4. 1 \in 1..Len(q) /\ \A i \in 1..Len(Tail(q)) : i + 1 \in 1..Len(q)
  BY <1>1, SMT
<1>. QED
  BY <1>1, <1>2, <1>3, <1>4

(* A step that changes the flash only: what it brings there is in memory. *)
LEMMA FlashStepKeeps ==
  ASSUME Inv, saving.todo # <<>>, UNCHANGED <<dbVars, wiped>>, FsOK', LinkOK',
         hasOpenEditTransaction => hasOpenEditTransaction', given' = given,
         \A f \in Files : /\ file'[f] \in {file[f], Absent, Torn(Encoded(f)), Whole(Encoded(f))}
                          /\ last'[f] \in {last[f], Absent, Whole(Encoded(f))}
  PROVE  Inv'
<1>1. SaveOK' /\ DbTypes'
  BY DEF Inv, IInv, SaveOK, DbTypes, dbVars
<1>2. ContentsOK'
  <2> SUFFICES ASSUME NEW f \in Files
               PROVE  /\ file'[f].is # "absent" => file'[f].of \in Contents(f)
                      /\ last'[f] = Absent \/ (last'[f].is = "whole" /\ last'[f].of \in Contents(f))
    BY DEF ContentsOK, Contents
  <2>1. Encoded(f) \in Contents(f)
    BY EncodedFacts DEF Inv, IInv
  <2>. QED
    BY <2>1 DEF Inv, IInv, ContentsOK, Absent, Torn, Whole
<1>3. /\ Encoded("config") = config /\ Unique(Encoded("device"))
      /\ BlankBeyond(meshNodes, numMeshNodes) => Favourites(Encoded("device"), meshNodes, numMeshNodes)
      /\ UNCHANGED <<config, meshNodes, numMeshNodes, up, saving, unsaved>>
  BY EncodedFacts, EncodedKeeps DEF Inv, IInv, PlacesOK, dbVars
<1>4. PlacesOK'
  BY <1>3, Names DEF Inv, PlacesOK, Absent, Torn, Whole
<1>5. KeyOK'
  BY <1>3, Names DEF Inv, KeyOK, Absent, Whole
<1>6. ConfigOK'
  <2>1. last'["config"] \in {last["config"], Absent, Whole(config)}
    BY <1>3, Names
  <2>2. Same(config)
    BY DEF Same
  <2>3. up # "off" /\ ~hasOpenEditTransaction /\ "config" \notin unsaved /\ last'["config"] # Absent =>
          \/ last'["config"].is = "whole" /\ Same(last'["config"].of)
          \/ ToWrite("config") \/ Retried("config") \/ "config" \in saving.after
    BY <2>1, <2>2 DEF Inv, ConfigOK, Whole
  <2>. QED
    BY <1>3, <2>3 DEF ConfigOK, Same, ToWrite, Retried
<1>7. FavouritesOK'
  <2> SUFFICES ASSUME up # "off", ~wiped, ~hasOpenEditTransaction, last'["device"].is = "whole", ~ToWrite("device")
               PROVE  Favourites(last'["device"].of, meshNodes, numMeshNodes)
    BY <1>3 DEF FavouritesOK, ToWrite
  <2>1. Favourites(Encoded("device"), meshNodes, numMeshNodes)
    BY <1>3, PlacesKept
  <2>2. last["device"].is = "whole" => Favourites(last["device"].of, meshNodes, numMeshNodes)
    BY DEF Inv, FavouritesOK
  <2>. QED
    BY <1>3, <2>1, <2>2, Names DEF Absent, Whole
<1>. QED
  BY <1>1, <1>2, <1>4, <1>5, <1>6, <1>7 DEF Inv, IInv

LEMMA SaveProtoKeeps ==
  ASSUME Inv, SaveProto, UNCHANGED wiped, hasOpenEditTransaction' = (up' # "off" /\ hasOpenEditTransaction),
         given' = IF up' = "off" \/ (At("closed") /\ file["config"] = Whole(config)) THEN {} ELSE given
  PROVE  Inv'
<1>1. PICK f : f = Head(saving.todo)
  OBVIOUS
<1>2. PICK okay \in BOOLEAN : saving.todo # <<>> /\ OpenFile(f, Encoded(f), okay) /\ UNCHANGED dbVars
  BY <1>1 DEF SaveProto
<1>3. f \in Files /\ up # "off"
  <2>1. saving.todo \in Seq(Files)
    BY DEF Inv, IInv, SaveOK, Save
  <2>2. f \in Files
    BY <1>1, <1>2, <2>1, HeadTail
  <2>. QED
    BY <1>2, <2>2 DEF Inv, IInv, LinkOK, NoSave
<1>4. (hasOpenEditTransaction => hasOpenEditTransaction') /\ given' = given
  BY <1>2, <1>3 DEF dbVars, OpenFile, At
<1>5. Encoded(f) \in Value
  BY <1>3, EncodedFacts DEF Inv, IInv
<1>6. FsOK'
  BY <1>2, <1>3, <1>5, OpenFileOK DEF Inv, IInv
<1>7. LinkOK'
  <2>1. Encoded(f)' = Encoded(f) /\ saving'.todo = saving.todo /\ up' = up
    BY <1>2 DEF Encoded, dbVars
  <2>2. io'.on = f /\ io'.of = Encoded(f)
    BY <1>2 DEF OpenFile
  <2>. QED
    BY <1>1, <1>2, <1>3, <2>1, <2>2 DEF LinkOK
<1>8. \A g \in Files : file'[g] \in {file[g], Absent} /\ last'[g] \in {last[g], Absent}
  BY <1>2 DEF OpenFile, Lose, Inv, IInv, FsOK, FsTypes
<1>. QED
  BY <1>2, <1>4, <1>6, <1>7, <1>8, FlashStepKeeps

LEMMA FsStepKeeps ==
  ASSUME Inv, FsStep, UNCHANGED <<dbVars, wiped>>,
         hasOpenEditTransaction' = (up' # "off" /\ hasOpenEditTransaction),
         given' = IF up' = "off" \/ (At("closed") /\ file["config"] = Whole(config)) THEN {} ELSE given
  PROVE  Inv'
<1>1. ~At("none") /\ ~At("none")' /\ ~At("closed") /\ io'.on = io.on /\ io'.of = io.of
  BY DEF FsStep, Write, Readback, RemoveOld, Rename, Copy, GoTo, At, Inv, IInv, FsOK, FsTypes, Io
<1>2. saving.todo # <<>> /\ io.on = Head(saving.todo) /\ io.of = Encoded(io.on) /\ up # "off"
  BY <1>1 DEF Inv, IInv, LinkOK, NoSave
<1>3. io.on \in Files /\ (io.at \in {"rename", "copy"} => io.tmp = Whole(io.of))
  BY <1>1 DEF Inv, IInv, FsOK, WriteOK
<1>4. LinkOK'
  BY <1>1, <1>2 DEF LinkOK, Encoded, dbVars
<1>5. FsOK'
  BY FsStepOK DEF Inv, IInv
<1>6. \A f \in Files : /\ file'[f] \in {file[f], Absent, Torn(Encoded(f)), Whole(Encoded(f))}
                       /\ last'[f] \in {last[f], Absent, Whole(Encoded(f))}
  BY <1>2, <1>3
     DEF FsStep, Write, Readback, RemoveOld, Rename, Copy, Lose, Closed, At, Inv, IInv, FsOK, FsTypes
<1>7. (hasOpenEditTransaction => hasOpenEditTransaction') /\ given' = given
  BY <1>1, <1>2 DEF dbVars
<1>. QED
  BY <1>2, <1>4, <1>5, <1>6, <1>7, FlashStepKeeps

(* A file has been closed: the next one, a second try, or the end. *)
LEMMA SaveClosedKeeps ==
  ASSUME Inv, SaveClosed, UNCHANGED wiped,
         hasOpenEditTransaction' = (up' # "off" /\ hasOpenEditTransaction),
         given' = IF up' = "off" \/ (At("closed") /\ file["config"] = Whole(config)) THEN {} ELSE given
  PROVE  Inv'
<1>0. PICK othersSaved \in BOOLEAN :
        LET good == saving.good /\ io.okay /\ othersSaved
            rest == Tail(saving.todo)
            again == rest = <<>> /\ ~good /\ ~saving.retried
        IN /\ saving' = CASE rest # <<>> -> [saving EXCEPT !.todo = rest, !.good = good]
                         [] again -> [saving EXCEPT !.todo = InOrder(saving.what), !.retried = TRUE]
                         [] rest = <<>> /\ ~again /\ saving.after # {} ->
                              SaveOf(saving.after, {}, FALSE, saving.then)
                         [] OTHER -> NoSave
           /\ up' = IF rest = <<>> /\ ~again /\ saving.after = {} THEN saving.then ELSE up
           /\ \/ again /\ ~esp32 /\ Format
              \/ UNCHANGED <<file, last>>
  BY Zenon DEF SaveClosed
<1> DEFINE rest == Tail(saving.todo)
           good == saving.good /\ io.okay /\ othersSaved
           again == rest = <<>> /\ ~good /\ ~saving.retried
<1>1. /\ At("closed") /\ io' = NoIo /\ UNCHANGED <<config, meshNodes, numMeshNodes>>
      /\ unsaved' = IF file[io.on] # Whole(io.of) /\ (io.okay \/ saving.retried)
                    THEN unsaved \union ({io.on} \intersect FullAtomic) ELSE unsaved \ {io.on}
  BY DEF SaveClosed
<1>2. saving' = CASE rest # <<>> -> [saving EXCEPT !.todo = rest, !.good = good]
                  [] again -> [saving EXCEPT !.todo = InOrder(saving.what), !.retried = TRUE]
                  [] rest = <<>> /\ ~again /\ saving.after # {} ->
                       SaveOf(saving.after, {}, FALSE, saving.then)
                  [] OTHER -> NoSave
  BY <1>0, Zenon
<1>3. up' = IF rest = <<>> /\ ~again /\ saving.after = {} THEN saving.then ELSE up
  BY <1>0, Zenon
<1>4. (again /\ Format) \/ UNCHANGED <<file, last>>
  BY <1>0, Zenon
<1>5. ~At("none") /\ io.on \in Files /\ saving.todo # <<>> /\ saving \in Save
      /\ io.on = Head(saving.todo) /\ io.of = Encoded(io.on) /\ up # "off"
      /\ saving.what # {} /\ \A i \in 1..Len(saving.todo) : saving.todo[i] \in saving.what
  BY <1>1 DEF Inv, IInv, FsOK, WriteOK, LinkOK, SaveOK, NoSave, At
<1>6. saving.todo \in Seq(Files) /\ saving.what \in SUBSET Files /\ saving.then \in {"on", "off"}
      /\ saving.after \in SUBSET Files /\ saving.good \in BOOLEAN
  BY <1>5 DEF Save
<1>7. /\ rest \in Seq(Files) /\ \A i \in 1..Len(rest) : rest[i] \in saving.what
      /\ io.on \in saving.what
      /\ \A g \in Files : ToWrite(g) => g = io.on \/ \E j \in 1..Len(rest) : rest[j] = g
      /\ rest = <<>> => \A g \in Files : ToWrite(g) => g = io.on
  <2>1. PICK q \in Seq(Files) : q = saving.todo
    BY <1>6
  <2>2. /\ 1 \in 1..Len(q) /\ q[1] = Head(q) /\ Tail(q) \in Seq(Files)
        /\ \A i \in 1..Len(Tail(q)) : i + 1 \in 1..Len(q) /\ Tail(q)[i] = q[i + 1]
        /\ \A i \in 1..Len(q) : q[i] = Head(q) \/ \E j \in 1..Len(Tail(q)) : Tail(q)[j] = q[i]
        /\ Tail(q) = <<>> => \A i \in 1..Len(q) : q[i] = Head(q)
    BY <1>5, <2>1, HeadTail
  <2>3. /\ io.on = Head(q) /\ rest = Tail(q) /\ \A i \in 1..Len(q) : q[i] \in saving.what
        /\ \A g \in Files : ToWrite(g) => \E i \in 1..Len(q) : q[i] = g
    BY <1>5, <2>1 DEF ToWrite
  <2>. QED
    BY <2>2, <2>3, Zenon
<1> HIDE DEF rest
<1>8. /\ Encoded("config") = config
      /\ BlankBeyond(meshNodes, numMeshNodes) => Favourites(Encoded("device"), meshNodes, numMeshNodes)
  BY EncodedFacts, EncodedKeeps DEF Inv, IInv, PlacesOK
<1>9. FsOK'
  <2>1. CASE Format
    BY <1>1, <2>1, FormatOK DEF Inv, IInv
  <2>2. CASE UNCHANGED <<file, last>>
    BY <1>1, <2>2, ForgetIoOK DEF Inv, IInv
  <2>. QED
    BY <1>4, <2>1, <2>2
<1>10. SaveOK' /\ up' \in {"off", "boot", "on"} /\ (up' = "off" => saving' = NoSave)
       /\ (rest # <<>> => saving'.todo = rest /\ saving'.what = saving.what /\ saving'.good = good
                          /\ saving'.retried = saving.retried /\ saving'.after = saving.after)
       /\ (again => saving'.after = saving.after /\ \A g \in saving.what : ToWrite(g)')
       /\ (rest = <<>> /\ ~again => \A g \in saving.after : ToWrite(g)')
  <2>1. CASE rest # <<>>
    <3>1. saving' = [saving EXCEPT !.todo = rest, !.good = good] /\ up' = up
      BY <1>2, <1>3, <2>1
    <3>2. /\ saving'.todo = rest /\ saving'.what = saving.what /\ saving'.good = good
          /\ saving'.retried = saving.retried /\ saving'.then = saving.then
          /\ saving'.after = saving.after /\ saving' \in Save
      BY <1>5, <1>7, <3>1 DEF Save
    <3>3. SaveOK'
      BY <1>5, <1>7, <2>1, <3>2 DEF SaveOK
    <3>. QED
      BY <1>5, <2>1, <3>1, <3>2, <3>3 DEF Inv, IInv, DbTypes
  <2>2. CASE again
    <3>1. saving' = [saving EXCEPT !.todo = InOrder(saving.what), !.retried = TRUE] /\ up' = up
      BY <1>2, <1>3, <2>2
    <3>2. InOrder(saving.what) \in Seq(Files)
      BY <1>6, InOrderFacts
    <3>3. /\ saving'.todo = InOrder(saving.what) /\ saving'.what = saving.what
          /\ saving'.after = saving.after /\ saving' \in Save
      BY <1>5, <3>1, <3>2 DEF Save
    <3>4. SaveOK' /\ \A g \in saving.what : ToWrite(g)'
      BY <1>5, <1>6, <3>3, InOrderFacts DEF SaveOK, ToWrite
    <3>. QED
      BY <1>5, <2>2, <3>1, <3>3, <3>4 DEF Inv, IInv, DbTypes
  <2>3. CASE rest = <<>> /\ ~again /\ saving.after # {}
    <3>1. saving' = SaveOf(saving.after, {}, FALSE, saving.then) /\ up' = up
      BY <1>2, <1>3, <2>3
    <3>2. PICK retried \in BOOLEAN : retried = FALSE
      OBVIOUS
    <3>3. {} \in SUBSET Files
      OBVIOUS
    <3>4. SaveOK' /\ \A g \in saving.after : ToWrite(g)'
      BY <1>6, <2>3, <3>1, <3>2, <3>3, SaveOfFacts
    <3>. QED
      BY <1>5, <2>3, <3>1, <3>4 DEF Inv, IInv, DbTypes
  <2>4. CASE rest = <<>> /\ ~again /\ saving.after = {}
    <3>1. saving' = NoSave /\ up' = saving.then
      BY <1>2, <1>3, <2>4
    <3>2. SaveOK'
      BY <3>1, EmptySeq, SMT DEF SaveOK, Save, NoSave
    <3>. QED
      BY <1>6, <2>4, <3>1, <3>2
  <2>. QED
    BY <2>1, <2>2, <2>3, <2>4
<1>11. DbTypes'
  <2>1. unsaved' \subseteq Files
    BY <1>1, <1>5 DEF Inv, IInv, DbTypes
  <2>. QED
    BY <1>1, <1>10, <2>1 DEF Inv, IInv, DbTypes
<1>12. ContentsOK' /\ LinkOK'
  <2>1. LinkOK'
    BY <1>1, <1>10 DEF LinkOK, At, NoIo
  <2>2. \A f \in Files : file'[f] \in {file[f], Absent} /\ last'[f] \in {last[f], Absent}
    BY <1>4 DEF Format, Lose
  <2>3. ContentsOK'
    BY <2>2 DEF Inv, IInv, ContentsOK, Contents, Absent
  <2>. QED
    BY <2>1, <2>3
<1>13. PlacesOK'
  <2>1. file'["device"] \in {file["device"], Absent}
    BY <1>4, Names DEF Format
  <2>. QED
    BY <1>1, <2>1 DEF Inv, PlacesOK, Absent
<1>14. CASE Format
  <2>1. last'["config"] = Absent /\ last'["device"] = Absent
    BY <1>14, Names DEF Format, Lose
  <2>2. KeyOK' /\ ConfigOK' /\ FavouritesOK'
    BY <2>1 DEF KeyOK, ConfigOK, FavouritesOK, Absent
  <2>. QED
    BY <1>9, <1>10, <1>11, <1>12, <1>13, <2>2 DEF Inv, IInv
<1>15. CASE UNCHANGED <<file, last>>
  <2>1. KeyOK'
    <3>1. CASE At("closed") /\ file["config"] = Whole(config)
      <4>1. ~InWindow("config")
        BY <1>1, Names DEF InWindow, At
      <4>2. last["config"] \in {Absent, Whole(config)}
        BY <3>1, <4>1, Names DEF Inv, IInv, FsOK, OldOrNew
      <4>. QED
        BY <1>1, <1>15, <4>2 DEF KeyOK, Absent, Whole
    <3>2. CASE ~(At("closed") /\ file["config"] = Whole(config))
      BY <1>1, <1>5, <1>15, <3>2 DEF Inv, KeyOK
    <3>. QED
      BY <3>1, <3>2
  <2>2. ASSUME up' # "off", ~hasOpenEditTransaction', "config" \notin unsaved', last["config"] # Absent
        PROVE  \/ last["config"].is = "whole" /\ Same(last["config"].of)
               \/ ToWrite("config")' \/ Retried("config")' \/ "config" \in saving'.after
    <3>0. ~hasOpenEditTransaction /\ io.at = "closed"
      BY <1>1, <2>2 DEF At
    <3>1. CASE io.on = "config" /\ file["config"] = Whole(config)
      <4>1. ~InWindow("config")
        BY <3>0, Names DEF InWindow
      <4>2. last["config"] = Whole(config)
        BY <2>2, <3>1, <4>1, Names DEF Inv, IInv, FsOK, OldOrNew
      <4>. QED
        BY <4>2 DEF Whole, Same
    <3>2. CASE io.on = "config" /\ file["config"] # Whole(config)
      <4>1. ~io.okay /\ ~saving.retried
        BY <1>1, <1>5, <1>8, <2>2, <3>2, Names
      <4>2. CASE rest # <<>>
        BY <1>7, <1>10, <3>2, <4>1, <4>2 DEF Retried
      <4>3. CASE rest = <<>>
        BY <1>7, <1>10, <3>2, <4>1, <4>3
      <4>. QED
        BY <4>2, <4>3
    <3>3. CASE io.on # "config"
      <4>1. \/ last["config"].is = "whole" /\ Same(last["config"].of)
            \/ ToWrite("config") \/ Retried("config") \/ "config" \in saving.after
        <5>1. "config" \notin unsaved
          BY <1>1, <2>2, <3>3
        <5>. QED
          BY <1>5, <2>2, <3>0, <5>1 DEF Inv, ConfigOK
      <4>2. CASE ToWrite("config")
        BY <1>7, <1>10, <3>3, <4>2, EmptySeq, Names DEF ToWrite
      <4>3. CASE Retried("config")
        <5>1. "config" \in saving.what /\ ~saving.good /\ ~saving.retried
          BY <4>3 DEF Retried
        <5>. QED
          BY <1>10, <5>1 DEF Retried
      <4>4. CASE "config" \in saving.after
        BY <1>10, <4>4
      <4>. QED
        BY <4>1, <4>2, <4>3, <4>4
    <3>. QED
      BY <3>1, <3>2, <3>3
  <2>3. ConfigOK'
    BY <1>1, <1>15, <2>2 DEF ConfigOK, Same
  <2>4. ASSUME up' # "off", ~wiped, ~hasOpenEditTransaction', last["device"].is = "whole"
        PROVE  ToWrite("device")' \/ Favourites(last["device"].of, meshNodes, numMeshNodes)
    <3>1. CASE io.on = "device"
      <4>1. last["device"] \in {Absent, Whole(Encoded("device"))}
        BY <1>1, <1>5, <3>1, Names DEF Inv, IInv, FsOK, WriteOK
      <4>2. last["device"].of = Encoded("device")
        BY <2>4, <4>1 DEF Absent, Whole
      <4>. QED
        BY <1>8, <2>4, <4>2, PlacesKept
    <3>2. CASE io.on # "device"
      <4>1. ToWrite("device") \/ Favourites(last["device"].of, meshNodes, numMeshNodes)
        BY <1>5, <2>4 DEF Inv, FavouritesOK
      <4>2. CASE ToWrite("device")
        BY <1>7, <1>10, <3>2, <4>2, EmptySeq, Names DEF ToWrite
      <4>. QED
        BY <4>1, <4>2
    <3>. QED
      BY <3>1, <3>2
  <2>5. FavouritesOK'
    BY <1>1, <1>15, <2>4 DEF FavouritesOK
  <2>. QED
    BY <1>9, <1>10, <1>11, <1>12, <1>13, <2>1, <2>3, <2>5 DEF Inv, IInv
<1>. QED
  BY <1>4, <1>14, <1>15

---------------------------------------------------------------------------
LEMMA NextInv == Inv /\ [Next]_vars => Inv'
<1> SUFFICES ASSUME Inv, [Next]_vars
             PROVE  Inv'
  OBVIOUS
<1>1. CASE Starts
  BY <1>1, BootKeeps
<1>2. CASE Restart \/ Crash \/ \E n \in Others : Abort(n)
  BY <1>2, RestartsKeep
<1>3. CASE Saving
  BY <1>3, SaveProtoKeeps, FsStepKeeps, SaveClosedKeeps DEF Saving
<1>4. CASE Admin
  <2>1. CASE BeginEdit \/ CommitEdit \/ SetConfig \/ SetPosition \/ SetSecurity \/ SetFixedPosition
             \/ SetOwner \/ Shutdown
    BY <2>1, SettingsKeep
  <2>0. CASE SetModuleConfig
    BY <2>0, SetModuleConfigKeeps
  <2>2. CASE ResetNodes
    BY <2>2, ResetNodesKeeps
  <2>3. CASE FactoryReset
    BY <2>3, FactoryResetKeeps
  <2>4. ASSUME NEW n \in Others, RemoveNode(n)
        PROVE  Inv'
    BY <2>4, RemoveNodeKeeps
  <2>5. ASSUME NEW n \in Others, NEW favorite \in BOOLEAN, SetFavorite(n, favorite)
        PROVE  Inv'
    BY <2>5, SetFavoriteKeeps
  <2>. QED
    BY <1>4, <2>0, <2>1, <2>2, <2>3, <2>4, <2>5, Zenon DEF Admin
<1>5. ASSUME NEW n \in Others, Heard(n)
      PROVE  Inv'
  BY <1>5, HeardKeeps
<1>6. CASE UNCHANGED vars
  <2>1. FsOK'
    BY <1>6, FsUnchanged DEF vars, Inv, IInv
  <2>2. SaveOK' /\ DbTypes' /\ ContentsOK' /\ LinkOK'
    BY <1>6 DEF vars, fsVars, dbVars, Inv, IInv, SaveOK, DbTypes, ContentsOK, Contents, LinkOK, At, Encoded
  <2>3. PlacesOK' /\ KeyOK' /\ ConfigOK' /\ FavouritesOK'
    BY <1>6 DEF vars, fsVars, dbVars, adminVars, Inv, PlacesOK, KeyOK, ConfigOK, Same, FavouritesOK, ToWrite, Retried
  <2>. QED
    BY <2>1, <2>2, <2>3 DEF Inv, IInv
<1>. QED
  BY <1>1, <1>2, <1>3, <1>4, <1>5, <1>6, Zenon DEF Next

LEMMA SpecInv == Spec => []Inv
  BY InitInv, NextInv, PTL DEF Spec

---------------------------------------------------------------------------
(* TypeOK: what is in memory and on the flash stays in its domain, and the *)
(* write under way is that of the first file the save has still to write.  *)
THEOREM AdminTypeOK == Spec => []TypeOK
<1>1. Inv => TypeOK
  <2> SUFFICES ASSUME Inv
               PROVE  TypeOK
    OBVIOUS
  <2>1. \A f \in Files : file[f].is \in {"absent", "torn", "whole"}
    BY DEF Inv, IInv, FsOK, FsTypes, Content
  <2>. QED
    BY <2>1 DEF Inv, IInv, ContentsOK, DbTypes, LinkOK, Places, TypeOK
<1>. QED
  BY <1>1, SpecInv, PTL

(* OldOrNew: whatever SafeFile's steps, their failures and the power cuts  *)
(* between them, a name holds what was last closed under it with success,  *)
(* outside the window and unless a failure within the window emptied it,   *)
(* however many nodes there are and however few of them could be encoded.  *)
THEOREM FlashOldOrNew == Spec => []OldOrNew
<1>1. Inv => OldOrNew
  BY DEF Inv, IInv, FsOK
<1>. QED
  BY <1>1, SpecInv, PTL

(* KeyKept: saves, second tries, restarts and a constructor that makes a   *)
(* key when it finds none never leave a running node with another key than *)
(* the one its settings were last saved with, or one a phone has set.      *)
THEOREM AdminKeyKept == Spec => []KeyKept
<1>1. Inv => KeyKept
  BY DEF Inv, KeyOK, KeyKept, Running
<1>. QED
  BY <1>1, SpecInv, PTL

(* FavouritesKept: neither the eviction of getOrCreateMeshNode, nor        *)
(* removeNodeByNum, nor the cleanup at the start drops a saved favourite.  *)
THEOREM AdminFavouritesKept == Spec => []FavouritesKept
<1>1. Inv => FavouritesKept
  <2> SUFFICES ASSUME Inv, Running, ~wiped, ~hasOpenEditTransaction, last["device"].is = "whole"
               PROVE  Favourites(last["device"].of, meshNodes, numMeshNodes)
    BY DEF FavouritesKept, Favourites
  <2>1. ~ToWrite("device")
    BY EmptySeq, SMT DEF Running, Idle, NoSave, ToWrite
  <2>. QED
    BY <2>1 DEF Inv, FavouritesOK, Running
<1>. QED
  BY <1>1, SpecInv, PTL

(* ConfigSaved: once a save has ended, the second of the two that position *)
(* settings ask for and the second try included, the next start makes of   *)
(* what is on the flash the settings that are in memory, short of the      *)
(* failures it names.                                                      *)
THEOREM AdminConfigSaved == Spec => []ConfigSaved
<1>1. Inv => ConfigSaved
  <2> SUFFICES ASSUME Inv, Running, ~hasOpenEditTransaction, "config" \notin unsaved, last["config"] # Absent
               PROVE  file["config"].is = "whole" /\ Same(file["config"].of)
    BY DEF ConfigSaved, Same
  <2>1. ~ToWrite("config") /\ ~Retried("config") /\ saving = NoSave /\ "config" \notin saving.after
    BY EmptySeq, SMT DEF Running, Idle, NoSave, ToWrite, Retried
  <2>2. last["config"].is = "whole" /\ Same(last["config"].of)
    BY <2>1 DEF Inv, ConfigOK, Running
  <2>. QED
    BY <2>1, <2>2, QuietFs, Names DEF Inv
<1>. QED
  BY <1>1, SpecInv, PTL
=============================================================================
