------------------------ MODULE FileTransferProofs ------------------------
(***************************************************************************)
(* For any files and any number of damaged blocks, late answers, lost      *)
(* links, restarts and stopped transfers: what the adapter stores is a     *)
(* beginning of the file, block by block, as long as no write fails, and   *)
(* what a phone fetches is a beginning of what is stored.                  *)
(***************************************************************************)
EXTENDS FileTransfer, SequenceTheorems, TLAPS

Prefix(n, j) == [i \in 1..j |-> Block(n, i)]

Answer == [control : {"NUL", "SOH", "ACK", "NAK", "CAN", "EOT"}, seq : Nat, name : Names \union {""},
           block : Blocks, good : BOOLEAN]

OpenFile == [open : BOOLEAN, at : Nat \ {0}]

AdapterTypes ==
  /\ isReceiving \in BOOLEAN /\ isTransmitting \in BOOLEAN /\ isEOT \in BOOLEAN
  /\ retrans \in 0..MAXRETRANS /\ packetno \in Nat /\ filename \in Names \union {""}
  /\ file \in OpenFile /\ xmodemStore \in Answer

(* Of every file the flash holds blocks, of which only the last is short:  *)
(* that is where a download ends.                                          *)
NoneShort(s) == \A i \in 1..Len(s) : ~Short(s[i])
Tidy(s) == s \in Seq(Blocks \ {Empty}) /\ \A i \in 1..Len(s) : Short(s[i]) => i = Len(s)

FlashOK ==
  /\ DOMAIN flash = Names
  /\ \A n \in Names : flash[n] = NoFile \/ Tidy(flash[n])

(* Of the one being received it holds what comes before the block expected *)
(* next, if all of it could be written.                                    *)
Received(n) == packetno - 1 <= Size[n] /\ flash[filename] = Prefix(n, packetno - 1)

ReceivingOK ==
  isReceiving => /\ ~isTransmitting /\ file.open /\ filename \in Names
                 /\ packetno # 0 /\ Tidy(flash[filename])
                 /\ spoilt \/ \E n \in Names : Received(n)

TransmittingOK == isTransmitting => filename \in Names /\ packetno > 0

AdapterOK == AdapterTypes /\ FlashOK /\ ReceivingOK /\ TransmittingOK

---------------------------------------------------------------------------
(* Blocks and files. *)

LEMMA BlockFacts ==
  ASSUME NEW n \in Names, NEW i \in 1..Size[n]
  PROVE  /\ Block(n, i) \in Blocks /\ Block(n, i) # Empty /\ Block(n, i).i = i /\ Block(n, i).of = n
         /\ Short(Block(n, i)) <=> i = Size[n]
         /\ Empty \in Blocks /\ Short(Empty)
<1>1. Block(n, i) \in {Block(n, k) : k \in 1..Size[n]}
  OBVIOUS
<1>2. Block(n, i) \in Blocks /\ Empty \in Blocks
  BY <1>1, Zenon DEF Blocks
<1>3. Block(n, i).i = i /\ Block(n, i).of = n /\ Empty.i = 0
  BY DEF Block, Empty
<1>4. i # 0
  BY XModemAssumption, SMT
<1>5. Block(n, i) # Empty
  BY <1>3, <1>4
<1>. QED
  BY <1>2, <1>3, <1>5 DEF Short

LEMMA SizeFacts == \A n \in Names : Size[n] \in Nat \ {0} /\ 1 \in 1..Size[n]
  BY XModemAssumption, SMT

LEMMA PrefixFacts ==
  ASSUME NEW n \in Names, NEW j \in 0..Size[n]
  PROVE  /\ Prefix(n, j) \in Seq(Blocks) /\ Len(Prefix(n, j)) = j
         /\ \A i \in 1..j : Prefix(n, j)[i] = Block(n, i)
         /\ Prefix(n, j) # NoFile
         /\ j = 0 => Prefix(n, j) = <<>>
<1> DEFINE s == Prefix(n, j)
<1>1. Size[n] \in Nat /\ j \in Nat /\ 1..j \subseteq 1..Size[n]
  BY SizeFacts, SMT
<1>2. \A i \in 1..j : Block(n, i) \in Blocks
  BY <1>1, BlockFacts
<1>3. s \in Seq(Blocks) /\ Len(s) = j /\ \A i \in 1..j : s[i] = Block(n, i)
  BY <1>1, <1>2, SMT DEF Prefix
<1> HIDE DEF s
<1>4. s # NoFile
  <2>1. Len(NoFile) = 1 /\ NoFile[1] = Empty
    BY SMT DEF NoFile
  <2>2. ASSUME s = NoFile
        PROVE  FALSE
    <3>1. j = 1 /\ s[1] = Empty
      BY <1>3, <2>1, <2>2
    <3>2. s[1] = Block(n, 1)
      BY <1>3, <3>1, SMT
    <3>. QED
      BY <3>1, <3>2, SizeFacts, BlockFacts
  <2>. QED
    BY <2>2
<1>5. j = 0 => s = <<>>
  BY <1>3, EmptySeq
<1>. QED
  BY <1>3, <1>4, <1>5 DEF s

LEMMA PrefixGrows ==
  ASSUME NEW n \in Names, NEW j \in 1..Size[n]
  PROVE  Append(Prefix(n, j - 1), Block(n, j)) = Prefix(n, j)
<1>1. j - 1 \in 0..Size[n] /\ j \in 0..Size[n] /\ (j - 1) + 1 = j
  BY SizeFacts, SMT
<1>2. PICK s \in Seq(Blocks) : s = Prefix(n, j - 1)
  BY <1>1, PrefixFacts
<1>3. PICK t \in Seq(Blocks) : t = Prefix(n, j)
  BY <1>1, PrefixFacts
<1>4. /\ Len(s) = j - 1 /\ \A i \in 1..Len(s) : s[i] = Block(n, i)
      /\ Len(t) = j /\ \A i \in 1..Len(t) : t[i] = Block(n, i)
  BY <1>1, <1>2, <1>3, PrefixFacts
<1>5. PICK u \in Seq(Blocks) : u = Append(s, Block(n, j))
  BY AppendProperties, BlockFacts
<1>6. Len(u) = Len(s) + 1 /\ u[Len(s) + 1] = Block(n, j) /\ \A i \in 1..Len(s) : u[i] = s[i]
  BY <1>5, AppendProperties, BlockFacts
<1>7. \A i \in 1..j : i = j \/ i \in 1..Len(s)
  BY <1>4, SMT
<1>8. \A i \in 1..j : u[i] = t[i]
  BY <1>1, <1>4, <1>6, <1>7
<1>9. Len(u) = Len(t)
  BY <1>1, <1>4, <1>6
<1>10. u = t
  BY <1>4, <1>8, <1>9, SeqEqual
<1>. QED
  BY <1>2, <1>3, <1>5, <1>10

LEMMA SubSeqOfComplete ==
  ASSUME NEW n \in Names, NEW j \in 0..Size[n]
  PROVE  SubSeq(Complete(n), 1, j) = Prefix(n, j)
<1>1. Size[n] \in Nat /\ j \in Nat /\ j \in Int /\ 1..j \subseteq 1..Size[n]
  BY SizeFacts, SMT
<1>2. PICK s : s = SubSeq(Complete(n), 1, j)
  OBVIOUS
<1>3. \A i \in 1..j : Complete(n)[i] = Block(n, i) /\ Complete(n)[i] \in Blocks
  BY <1>1, BlockFacts DEF Complete
<1>4. s \in Seq(Blocks) /\ Len(s) = (IF 1 <= j THEN j - 1 + 1 ELSE 0)
      /\ \A i \in 1..j - 1 + 1 : s[i] = Complete(n)[1 + i - 1]
  BY <1>1, <1>2, <1>3, SubSeqProperties
<1>5. Len(s) = j /\ \A i \in 1..j : s[i] = Complete(n)[i]
  <2>1. Len(s) = j /\ j - 1 + 1 = j /\ \A i \in 1..j : 1 + i - 1 = i
    BY <1>1, <1>4, SMT
  <2>. QED
    BY <1>4, <2>1
<1>. QED
  BY <1>2, <1>3, <1>4, <1>5, PrefixFacts, SeqEqual

(* Of what is read one by one, the blocks so far. *)
LEMMA TakenFacts ==
  ASSUME NEW s \in Seq(Blocks), NEW k \in Nat, k <= Len(s)
  PROVE  /\ SubSeq(s, 1, k) \in Seq(Blocks) /\ Len(SubSeq(s, 1, k)) = k
         /\ \A i \in 1..k : SubSeq(s, 1, k)[i] = s[i]
         /\ k = 0 => SubSeq(s, 1, k) = <<>>
         /\ k = Len(s) => SubSeq(s, 1, k) = s
<1>1. Len(s) \in Nat /\ \A i \in 1..Len(s) : s[i] \in Blocks
  BY LenProperties, ElementOfSeq
<1>2. k \in Int /\ 1 \in Int /\ 1..k \subseteq 1..Len(s) /\ k - 1 + 1 = k
  BY <1>1, SMT
<1>3. PICK t : t = SubSeq(s, 1, k)
  OBVIOUS
<1>4. t \in Seq(Blocks) /\ Len(t) = (IF 1 <= k THEN k - 1 + 1 ELSE 0) /\ \A i \in 1..k - 1 + 1 : t[i] = s[1 + i - 1]
  BY <1>1, <1>2, <1>3, SubSeqProperties
<1>5. Len(t) = k /\ \A i \in 1..k : t[i] = s[i]
  <2>1. Len(t) = k /\ \A i \in 1..k : 1 + i - 1 = i
    BY <1>4, SMT
  <2>. QED
    BY <1>2, <1>4, <2>1
<1>6. k = 0 => t = <<>>
  BY <1>4, <1>5, EmptySeq
<1>7. k = Len(s) => t = s
  BY <1>4, <1>5, SeqEqual
<1>. QED
  BY <1>3, <1>4, <1>5, <1>6, <1>7

LEMMA TakenGrows ==
  ASSUME NEW s \in Seq(Blocks), NEW k \in Nat, k + 1 <= Len(s)
  PROVE  Append(SubSeq(s, 1, k), s[k + 1]) = SubSeq(s, 1, k + 1)
<1>1. k <= Len(s) /\ k + 1 \in Nat /\ k + 1 \in 1..Len(s)
  BY LenProperties, SMT
<1>2. s[k + 1] \in Blocks
  BY <1>1, ElementOfSeq
<1>3. PICK t \in Seq(Blocks) : t = SubSeq(s, 1, k) /\ Len(t) = k /\ \A i \in 1..k : t[i] = s[i]
  BY <1>1, TakenFacts
<1>4. PICK u \in Seq(Blocks) : u = SubSeq(s, 1, k + 1) /\ Len(u) = k + 1 /\ \A i \in 1..k + 1 : u[i] = s[i]
  BY <1>1, TakenFacts
<1>5. PICK v \in Seq(Blocks) : v = Append(t, s[k + 1])
  BY <1>2, AppendProperties
<1>6. Len(v) = k + 1 /\ v[k + 1] = s[k + 1] /\ \A i \in 1..k : v[i] = t[i]
  BY <1>2, <1>3, <1>5, AppendProperties
<1>7. \A i \in 1..k + 1 : i = k + 1 \/ i \in 1..k
  BY SMT
<1>8. \A i \in 1..Len(v) : v[i] = u[i]
  BY <1>3, <1>4, <1>6, <1>7
<1>9. v = u
  BY <1>4, <1>6, <1>8, SeqEqual
<1>. QED
  BY <1>3, <1>4, <1>5, <1>9

LEMMA TidyFacts ==
  ASSUME NEW s, Tidy(s)
  PROVE  /\ s \in Seq(Blocks) /\ Len(s) \in Nat /\ s # NoFile
         /\ \A i \in 1..Len(s) : s[i] \in Blocks /\ s[i] # Empty /\ (Short(s[i]) => i = Len(s))
<1>1. s \in Seq(Blocks \ {Empty}) /\ \A i \in 1..Len(s) : Short(s[i]) => i = Len(s)
  BY DEF Tidy
<1>2. Len(s) \in Nat /\ \A i \in 1..Len(s) : s[i] \in Blocks \ {Empty}
  BY <1>1, LenProperties, ElementOfSeq
<1>3. s \in Seq(Blocks)
  BY <1>1, SMT
<1>4. s # NoFile
  <2>1. Len(NoFile) = 1 /\ NoFile[1] = Empty
    BY SMT DEF NoFile
  <2>2. 1 \in 1..1
    BY SMT
  <2>. QED
    BY <1>2, <2>1, <2>2
<1>. QED
  BY <1>1, <1>2, <1>3, <1>4

LEMMA NothingTidy == Tidy(<<>>) /\ NoneShort(<<>>)
<1>1. <<>> \in Seq(Blocks \ {Empty}) /\ Len(<<>>) = 0 /\ 1..0 = {}
  BY SMT
<1>. QED
  BY <1>1 DEF Tidy, NoneShort

LEMMA AppendTidy ==
  ASSUME NEW s, Tidy(s), NoneShort(s), NEW block \in Blocks \ {Empty}
  PROVE  /\ Tidy(Append(s, block))
         /\ ~Short(block) => NoneShort(Append(s, block))
<1>1. s \in Seq(Blocks \ {Empty}) /\ Len(s) \in Nat
  BY LenProperties DEF Tidy
<1>2. PICK t : t = Append(s, block)
  OBVIOUS
<1>3. /\ t \in Seq(Blocks \ {Empty}) /\ Len(t) = Len(s) + 1 /\ t[Len(s) + 1] = block
      /\ \A i \in 1..Len(s) : t[i] = s[i]
  BY <1>1, <1>2, AppendProperties
<1>4. \A i \in 1..Len(t) : i = Len(t) \/ i \in 1..Len(s)
  BY <1>1, <1>3, SMT
<1>5. \A i \in 1..Len(s) : ~Short(t[i])
  BY <1>3 DEF NoneShort
<1>6. Tidy(t)
  BY <1>3, <1>4, <1>5 DEF Tidy
<1>7. ~Short(block) => NoneShort(t)
  BY <1>3, <1>4, <1>5 DEF NoneShort
<1>. QED
  BY <1>2, <1>6, <1>7

LEMMA CompleteTidy ==
  ASSUME NEW n \in Names
  PROVE  Tidy(Complete(n))
<1>1. PICK size \in Nat : size = Size[n]
  BY SizeFacts
<1>2. PICK s : s = Complete(n)
  OBVIOUS
<1>3. \A i \in 1..size : Block(n, i) \in Blocks \ {Empty} /\ (Short(Block(n, i)) => i = size)
  BY <1>1, BlockFacts
<1>4. s = [i \in 1..size |-> Block(n, i)]
  BY <1>1, <1>2 DEF Complete
<1>5. s \in Seq(Blocks \ {Empty}) /\ Len(s) = size /\ \A i \in 1..size : s[i] = Block(n, i)
  BY <1>3, <1>4, SMT
<1>. QED
  BY <1>2, <1>3, <1>5 DEF Tidy

(* What is read of a file: its blocks, and nothing after them. *)
LEMMA ReadFacts ==
  ASSUME FlashOK, NEW n \in Names, NEW k \in Nat \ {0}
  PROVE  /\ ReadBlock(n, k) \in Blocks
         /\ flash[n] # NoFile =>
              /\ Tidy(flash[n]) /\ Len(flash[n]) \in Nat
              /\ k <= Len(flash[n]) => /\ k \in 1..Len(flash[n]) /\ ReadBlock(n, k) = flash[n][k]
                                       /\ ReadBlock(n, k) # Empty
              /\ ~(k <= Len(flash[n])) => ReadBlock(n, k) = Empty
<1>1. CASE flash[n] = NoFile
  BY <1>1, SizeFacts, BlockFacts DEF ReadBlock
<1>2. CASE flash[n] # NoFile
  <2>1. PICK s : s = flash[n] /\ Tidy(s)
    BY <1>2 DEF FlashOK
  <2>2. Len(s) \in Nat /\ \A i \in 1..Len(s) : s[i] \in Blocks /\ s[i] # Empty
    BY <2>1, TidyFacts
  <2>3. k <= Len(s) => k \in 1..Len(s)
    BY <2>2, SMT
  <2>4. ReadBlock(n, k) = IF k <= Len(s) THEN s[k] ELSE Empty
    BY <1>2, <2>1 DEF ReadBlock
  <2>. QED
    BY <2>1, <2>2, <2>3, <2>4, SizeFacts, BlockFacts
<1>. QED
  BY <1>1, <1>2

LEMMA NameFacts ==
  ASSUME NEW n \in Names, NEW m \in Names \union {""}
  PROVE  Overlaid[n, m] \in Names /\ Overlaid[n, Overlaid[n, m]] = Overlaid[n, m]
<1>1. <<n, m>> \in Names \X (Names \union {""})
  OBVIOUS
<1>. QED
  BY <1>1, NameAssumption

---------------------------------------------------------------------------
(* A packet is handled. *)

LEMMA ControlFacts ==
  \A c \in {"NUL", "SOH", "ACK", "NAK", "CAN", "EOT"} :
    Control(c) \in Answer /\ Control(c).control = c /\ Control(c).seq = 0
  BY SizeFacts DEF Control, Answer, Blocks, Block, Empty

LEMMA FileFacts == /\ Closed \in OpenFile /\ 1 \in Nat
                   /\ [open |-> TRUE, at |-> 1] \in OpenFile /\ [open |-> TRUE, at |-> 2] \in OpenFile
  BY DEF Closed, OpenFile

LEMMA DataFacts ==
  \A seq \in Nat, block \in Blocks, good \in BOOLEAN :
    /\ Data(seq, block, good) \in Answer /\ Data(seq, block, good).control = "SOH"
    /\ Data(seq, block, good).seq = seq /\ Data(seq, block, good).block = block
    /\ Data(seq, block, good).good = good
  BY DEF Data, Answer

LEMMA OpenFacts ==
  \A c, n : /\ Open(c, n).control = c /\ Open(c, n).seq = 0 /\ Open(c, n).name = n
  BY DEF Open, Control

(* What comes in as the block expected next must be that block. *)
Fits(p) ==
  p.control \in {"SOH", "STX"} /\ isReceiving /\ p.seq = packetno /\ p.good =>
    /\ NoneShort(flash[filename])
    /\ \E n \in Names : /\ packetno \in 1..Size[n] /\ p.block = Block(n, packetno)
                        /\ spoilt \/ Received(n)

(* A packet with all it can come to. *)
Sent(p) ==
  \/ Send(p)
  \/ RefuseReceiving(p) /\ UNCHANGED histories
  \/ ReceiveUnwritten(p) /\ spoilt' = TRUE /\ UNCHANGED cutShort

LEMMA HandleOK ==
  ASSUME AdapterOK, NEW p, Fits(p), Sent(p)
  PROVE  AdapterOK'
<1>1. ASSUME NEW n \in Names, NEW stored, flash' = [flash EXCEPT ![n] = stored],
             stored = NoFile \/ Tidy(stored)
      PROVE  FlashOK' /\ flash'[n] = stored
  <2>1. DOMAIN flash = Names
    BY DEF AdapterOK, FlashOK
  <2>2. DOMAIN flash' = Names /\ flash'[n] = stored /\ \A m \in Names : m # n => flash'[m] = flash[m]
    BY <1>1, <2>1
  <2>. QED
    BY <1>1, <2>2 DEF AdapterOK, FlashOK
<1>2. UNCHANGED flash => FlashOK'
  BY DEF AdapterOK, FlashOK
<1>3. AdapterTypes
  BY DEF AdapterOK
<1>a. \A n \in Names, k \in Nat \ {0} : ReadBlock(n, k) \in Blocks
  BY ReadFacts DEF AdapterOK
<1>b. \A c \in {"ACK", "NAK", "CAN", "EOT"} : sendControl(c) => xmodemStore' \in Answer
  BY ControlFacts DEF sendControl
<1>c. FALSE \in BOOLEAN /\ TRUE \in BOOLEAN
  OBVIOUS
<1>d. \A n \in Names : Overlaid[n, filename] \in Names
  BY <1>3, NameFacts, Zenon DEF AdapterTypes
<1>e. ~(Start(p) /\ p.control = "SOH") => spoilt' = spoilt \/ spoilt' = TRUE
  BY DEF Sent, Send, histories
<1>f. ASSUME isReceiving' => /\ isReceiving /\ ~(Start(p) /\ p.control = "SOH")
                             /\ UNCHANGED <<isTransmitting, file, filename, packetno, flash>>
      PROVE  ReceivingOK'
  BY <1>e, <1>f DEF AdapterOK, ReceivingOK, Received
<1>g. isReceiving => ~isTransmitting
  BY DEF AdapterOK, ReceivingOK
<1>4. CASE StartReceiving(p)
  <2>1. PICK n \in Names : n = Overlaid[p.name, filename] /\ ~isTransmitting /\ p.name \in Names
    BY <1>d, <1>4 DEF StartReceiving, Start
  <2>2. /\ filename' = n /\ packetno' = 1 /\ isReceiving' = TRUE /\ file' = [open |-> TRUE, at |-> 1]
        /\ flash' = [flash EXCEPT ![n] = <<>>] /\ sendControl("ACK")
        /\ UNCHANGED <<isTransmitting, isEOT, retrans>>
    BY <1>4, <2>1 DEF StartReceiving, Name
  <2>3. FlashOK' /\ flash'[n] = <<>> /\ Tidy(<<>>)
    BY <1>1, <2>2, NothingTidy
  <2>4. AdapterTypes'
    <3>1. file' \in OpenFile /\ packetno' \in Nat
      BY <2>2, FileFacts
    <3>. QED
      BY <1>3, <1>b, <1>c, <2>2, <3>1, Zenon DEF AdapterTypes
  <2>5. packetno' # 0 /\ Received(n)'
    <3>1. PICK size \in Nat : size = Size[n]
      BY SizeFacts
    <3>2. 1 - 1 = 0 /\ 0 <= size /\ 1 # 0 /\ 0 \in 0..size
      BY SMT
    <3>3. Prefix(n, 0) = <<>>
      BY <3>1, <3>2, PrefixFacts
    <3>. QED
      BY <2>2, <2>3, <3>1, <3>2, <3>3 DEF Received
  <2>6. ReceivingOK' /\ TransmittingOK'
    BY <2>1, <2>2, <2>3, <2>5 DEF ReceivingOK, TransmittingOK
  <2>. QED
    BY <2>3, <2>4, <2>6 DEF AdapterOK
<1>5. CASE RefuseReceiving(p)
  <2>1. Name(p) \in Names /\ ~isTransmitting /\ ~isReceiving
    BY <1>d, <1>5 DEF RefuseReceiving, Start, Name
  <2>2. AdapterTypes'
    BY <1>3, <1>b, <1>5, <2>1, FileFacts, Zenon DEF AdapterTypes, RefuseReceiving
  <2>. QED
    BY <1>2, <1>5, <2>1, <2>2 DEF AdapterOK, RefuseReceiving, ReceivingOK, TransmittingOK
<1>6. CASE StartTransmitting(p)
  <2>1. PICK n \in Names : n = Overlaid[p.name, filename] /\ ~isReceiving /\ ~isTransmitting
    BY <1>d, <1>6 DEF StartTransmitting, Start
  <2>a. Name(p) = n
    BY <2>1 DEF Name
  <2>2. AdapterTypes'
    <3>1. ReadBlock(n, 1) \in Blocks
      BY <1>a
    <3>2. /\ filename' = n /\ UNCHANGED <<isReceiving, retrans>>
      BY <1>6, <2>a DEF StartTransmitting
    <3>3. CASE flash[n] # NoFile
      <4>1. /\ packetno' = 1 /\ isTransmitting' = TRUE /\ xmodemStore' = Data(1, ReadBlock(n, 1), TRUE)
            /\ isEOT' = (isEOT \/ Short(ReadBlock(n, 1))) /\ file' = [open |-> TRUE, at |-> 2]
        BY <1>6, <2>a, <3>3 DEF StartTransmitting
      <4>2. 1 \in Nat /\ xmodemStore' \in Answer /\ file' \in OpenFile
        BY <1>c, <3>1, <4>1, DataFacts, FileFacts
      <4>3. isEOT' \in BOOLEAN
        BY <4>1
      <4>. QED
        BY <1>3, <1>c, <2>1, <3>2, <4>1, <4>2, <4>3, Zenon DEF AdapterTypes
    <3>4. CASE flash[n] = NoFile
      <4>1. sendControl("NAK") /\ file' = Closed /\ UNCHANGED <<packetno, isTransmitting, isEOT>>
        BY <1>6, <2>a, <3>4 DEF StartTransmitting
      <4>. QED
        BY <1>3, <1>b, <2>1, <3>2, <4>1, FileFacts, Zenon DEF AdapterTypes
    <3>. QED
      BY <3>3, <3>4
  <2>3. TransmittingOK'
    <3>1. isTransmitting' => packetno' = 1
      BY <1>6, <2>1 DEF StartTransmitting
    <3>2. 1 > 0
      BY SMT
    <3>3. filename' = n
      BY <1>6, <2>a DEF StartTransmitting
    <3>. QED
      BY <3>1, <3>2, <3>3 DEF TransmittingOK
  <2>4. ReceivingOK'
    BY <1>6, <2>1 DEF StartTransmitting, ReceivingOK
  <2>5. FlashOK'
    BY <1>2, <1>6 DEF StartTransmitting
  <2>. QED
    BY <2>2, <2>3, <2>4, <2>5 DEF AdapterOK
<1>7. CASE Receive(p) \/ (ReceiveUnwritten(p) /\ spoilt' = TRUE)
  <2>1. /\ isReceiving /\ ~isTransmitting /\ file.open /\ filename \in Names /\ packetno # 0
        /\ Tidy(flash[filename]) /\ p.control \in {"SOH", "STX"} /\ ~Start(p)
    BY <1>7 DEF Receive, ReceiveUnwritten, AdapterOK, ReceivingOK
  <2>2. xmodemStore' \in Answer /\ UNCHANGED <<isReceiving, isTransmitting, isEOT, retrans, filename, file>>
    BY <1>7, <1>b DEF Receive, ReceiveUnwritten
  <2>3. CASE p.seq = packetno /\ p.good
    <3>1. PICK n \in Names : /\ NoneShort(flash[filename]) /\ packetno \in 1..Size[n] /\ p.block = Block(n, packetno)
                             /\ spoilt \/ Received(n)
      BY <2>1, <2>3, Zenon DEF Fits
    <3>2. PICK k : k = packetno
      OBVIOUS
    <3>3. /\ k \in 1..Size[n] /\ k \in 0..Size[n] /\ k + 1 \in Nat /\ k + 1 # 0 /\ (k + 1) - 1 = k /\ k <= Size[n]
      BY <3>1, <3>2, SizeFacts, SMT
    <3>4. p.block \in Blocks \ {Empty}
      BY <3>1, BlockFacts
    <3>5. PICK stored : stored = Append(flash[filename], p.block) /\ Tidy(stored)
      BY <2>1, <3>1, <3>4, AppendTidy
    <3>6. packetno' = k + 1
      BY <1>7, <2>3, <3>2 DEF Receive, ReceiveUnwritten
    <3>7. AdapterTypes'
      BY <1>3, <2>2, <3>3, <3>6, Zenon DEF AdapterTypes
    <3>8. CASE ReceiveUnwritten(p) /\ spoilt' = TRUE
      <4>1. flash' = flash
        BY <3>8 DEF ReceiveUnwritten
      <4>. QED
        BY <1>2, <2>1, <2>2, <3>3, <3>6, <3>7, <3>8, <4>1 DEF AdapterOK, ReceivingOK, TransmittingOK
    <3>9. CASE Receive(p)
      <4>1. flash' = [flash EXCEPT ![filename] = stored]
        BY <2>3, <3>5, <3>9 DEF Receive
      <4>2. FlashOK' /\ flash'[filename] = stored
        BY <1>1, <2>1, <3>5, <4>1
      <4>3. spoilt' \/ Received(n)'
        <5>1. CASE Received(n)
          <6>1. flash[filename] = Prefix(n, k - 1)
            BY <3>2, <5>1 DEF Received
          <6>2. stored = Prefix(n, k)
            BY <3>1, <3>2, <3>3, <3>5, <6>1, PrefixGrows
          <6>. QED
            BY <2>2, <3>3, <3>6, <4>2, <6>2 DEF Received
        <5>2. CASE spoilt
          BY <1>e, <2>1, <5>2
        <5>. QED
          BY <3>1, <5>1, <5>2
      <4>. QED
        BY <2>1, <2>2, <3>3, <3>5, <3>6, <3>7, <4>2, <4>3 DEF AdapterOK, ReceivingOK, TransmittingOK
    <3>. QED
      BY <1>7, <3>8, <3>9
  <2>4. CASE ~(p.seq = packetno /\ p.good)
    <3>1. UNCHANGED <<flash, packetno>>
      BY <1>7, <2>4 DEF Receive, ReceiveUnwritten
    <3>2. AdapterTypes'
      BY <1>3, <2>2, <3>1, Zenon DEF AdapterTypes
    <3>3. ReceivingOK'
      BY <1>f, <2>1, <2>2, <3>1
    <3>. QED
      BY <1>2, <2>1, <2>2, <3>1, <3>2, <3>3 DEF AdapterOK, TransmittingOK
  <2>. QED
    BY <2>3, <2>4
<1>8. CASE ReceiveWeird(p) \/ Unexpected(p)
  <2>1. AdapterTypes'
    BY <1>3, <1>b, <1>c, <1>8, Zenon DEF AdapterTypes, ReceiveWeird, Unexpected
  <2>2. ReceivingOK'
    <3>1. ReceiveWeird(p) => ~isReceiving'
      BY DEF ReceiveWeird
    <3>2. Unexpected(p) => /\ p.control # "SOH" 
                           /\ UNCHANGED <<isReceiving, isTransmitting, file, filename, packetno, flash>>
      BY DEF Unexpected
    <3>. QED
      BY <1>8, <1>f, <3>1, <3>2
  <2>. QED
    BY <1>2, <1>8, <2>1, <2>2 DEF AdapterOK, TransmittingOK, ReceiveWeird, Unexpected
<1>9. CASE Ignore(p)
  <2>1. AdapterTypes' /\ FlashOK' /\ TransmittingOK'
    BY <1>2, <1>3, <1>9, Zenon DEF AdapterOK, AdapterTypes, TransmittingOK, Ignore, xmodemVars
  <2>2. ReceivingOK'
    BY <1>9, <1>f DEF Ignore, xmodemVars
  <2>. QED
    BY <2>1, <2>2 DEF AdapterOK
<1>10. CASE EndOfTransmission(p)
  <2>1. AdapterTypes'
    BY <1>3, <1>b, <1>c, <1>10, FileFacts, Zenon DEF AdapterTypes, EndOfTransmission
  <2>. QED
    BY <1>2, <1>10, <2>1 DEF AdapterOK, ReceivingOK, TransmittingOK, EndOfTransmission
<1>11. CASE Cancel(p)
  <2>1. FlashOK'
    BY <1>11 DEF AdapterOK, FlashOK, Cancel
  <2>2. AdapterTypes'
    BY <1>3, <1>b, <1>c, <1>11, FileFacts, Zenon DEF AdapterTypes, Cancel
  <2>. QED
    BY <1>11, <2>1, <2>2 DEF AdapterOK, ReceivingOK, TransmittingOK, Cancel
<1>12. ASSUME NEW number \in Nat, NEW k \in Nat \ {0}, isTransmitting, SendBlock(number, k)
       PROVE  xmodemStore' \in Answer /\ isEOT' \in BOOLEAN /\ file' \in OpenFile
  <2>1. filename \in Names
    BY <1>12 DEF AdapterOK, TransmittingOK
  <2>2. PICK block \in Blocks : xmodemStore' = Data(number, block, TRUE) /\ isEOT' = (isEOT \/ Short(block))
    BY <1>a, <1>12, <2>1 DEF SendBlock, Blocks
  <2>3. isEOT' \in BOOLEAN
    BY <2>2
  <2>4. file' = [file EXCEPT !.at = k + 1] /\ k + 1 \in Nat \ {0}
    BY <1>12, SMT DEF SendBlock
  <2>5. file' \in OpenFile
    BY <1>3, <2>4 DEF AdapterTypes, OpenFile
  <2>6. xmodemStore' \in Answer
    BY <1>c, <2>2, DataFacts
  <2>. QED
    BY <2>3, <2>5, <2>6
<1>13. CASE NextBlock(p)
  <2>1. /\ isTransmitting /\ SendBlock(packetno + 1, file.at) /\ packetno' = packetno + 1 /\ retrans' = MAXRETRANS
        /\ UNCHANGED <<isReceiving, isTransmitting, filename, flash>>
    BY <1>13 DEF NextBlock
  <2>2. packetno + 1 \in Nat /\ packetno + 1 > 0 /\ file.at \in Nat \ {0} /\ MAXRETRANS \in 0..MAXRETRANS
    <3>1. packetno \in Nat /\ file \in [open : BOOLEAN, at : Nat \ {0}]
      BY <1>3, Zenon DEF AdapterTypes, OpenFile
    <3>. QED
      BY <3>1, XModemAssumption, SMT
  <2>3. AdapterTypes'
    BY <1>3, <1>12, <2>1, <2>2, Zenon DEF AdapterTypes
  <2>. QED
    BY <1>2, <2>1, <2>2, <2>3 DEF AdapterOK, ReceivingOK, TransmittingOK
<1>14. CASE FinishSending(p)
  <2>1. AdapterTypes'
    BY <1>3, <1>b, <1>c, <1>14, FileFacts, Zenon DEF AdapterTypes, FinishSending
  <2>. QED
    BY <1>2, <1>14, <2>1 DEF AdapterOK, ReceivingOK, TransmittingOK, FinishSending
<1>15. CASE Resend(p)
  <2>1. /\ isTransmitting /\ SendBlock(packetno, packetno) /\ retrans' = retrans - 1 /\ retrans > 1
        /\ UNCHANGED <<isReceiving, isTransmitting, packetno, filename, flash>>
    BY <1>15 DEF Resend
  <2>2. packetno \in Nat /\ packetno \in Nat \ {0} /\ retrans - 1 \in 0..MAXRETRANS
    <3>1. packetno \in Nat /\ packetno > 0 /\ retrans \in 0..MAXRETRANS
      BY <1>3, <2>1, Zenon DEF AdapterTypes, AdapterOK, TransmittingOK
    <3>. QED
      BY <2>1, <3>1, XModemAssumption, SMT
  <2>3. AdapterTypes'
    BY <1>3, <1>12, <2>1, <2>2, Zenon DEF AdapterTypes
  <2>. QED
    BY <1>2, <2>1, <2>3 DEF AdapterOK, ReceivingOK, TransmittingOK
<1>16. CASE GiveUp(p)
  <2>1. 0 \in 0..MAXRETRANS
    BY XModemAssumption, SMT
  <2>2. AdapterTypes'
    BY <1>3, <1>b, <1>c, <1>16, <2>1, FileFacts, Zenon DEF AdapterTypes, GiveUp
  <2>. QED
    BY <1>2, <1>16, <2>2 DEF AdapterOK, ReceivingOK, TransmittingOK, GiveUp
<1>. QED
  BY <1>4, <1>5, <1>6, <1>7, <1>8, <1>9, <1>10, <1>11, <1>13, <1>14, <1>15, <1>16 DEF Sent, Send, handlePacket

(* What the packets of the phone come to, one by one. *)

(* The adapter expects block number next of n, and has the ones before. *)
Uploading(n, next) ==
  /\ isReceiving /\ packetno = next
  /\ next <= Size[n] => NoneShort(flash[filename])
  /\ spoilt \/ flash[filename] = Prefix(n, next - 1)

LEMMA PutOpened ==
  ASSUME AdapterOK, NEW n \in Names, Send(Open("SOH", n)) \/ (RefuseReceiving(Open("SOH", n)) /\ UNCHANGED histories)
  PROVE  /\ AdapterOK'
         /\ xmodemStore'.control \in {"ACK", "NAK", "CAN"}
         /\ xmodemStore'.control = "ACK" => Uploading(n, 1)'
         /\ isReceiving => isReceiving' /\ UNCHANGED <<filename, packetno, flash, spoilt>>
<1>1. PICK p : p = Open("SOH", n)
  OBVIOUS
<1>2. p.control = "SOH" /\ p.seq = 0 /\ p.name = n
  BY <1>1, OpenFacts
<1>3. isReceiving => packetno # 0
  BY DEF AdapterOK, ReceivingOK
<1>a. Sent(p)
  BY <1>1 DEF Sent
<1>4. AdapterOK'
  BY <1>a, <1>2, <1>3, HandleOK DEF Fits
<1>5. StartReceiving(p) \/ RefuseReceiving(p) \/ (Receive(p) /\ p.seq # packetno /\ ~Start(p)) \/ ReceiveWeird(p)
  <2>1. ~StartTransmitting(p) /\ ~EndOfTransmission(p) /\ ~Cancel(p) /\ ~NextBlock(p) /\ ~FinishSending(p)
        /\ ~Resend(p) /\ ~GiveUp(p) /\ ~Unexpected(p)
    BY <1>2, Zenon DEF StartTransmitting, EndOfTransmission, Cancel, NextBlock, FinishSending, Resend, GiveUp, Unexpected
  <2>2. ~Ignore(p) /\ (Receive(p) => isReceiving /\ ~Start(p))
    BY <1>2 DEF Ignore, Receive, Start
  <2>3. handlePacket(p) \/ RefuseReceiving(p)
    BY <1>1 DEF Send
  <2>. QED
    BY <1>2, <1>3, <2>1, <2>2, <2>3 DEF handlePacket
<1>6. Control("ACK").control = "ACK" /\ Control("NAK").control = "NAK" /\ Control("CAN").control = "CAN"
  BY ControlFacts
<1>7. CASE StartReceiving(p)
  <2>1. PICK m \in Names : m = Name(p)
    <3>1. filename \in Names \union {""} /\ p.name \in Names
      BY <1>7, Zenon DEF AdapterOK, AdapterTypes, StartReceiving, Start
    <3>. QED
      BY <3>1, NameFacts DEF Name
  <2>2. /\ ~isReceiving /\ xmodemStore' = Control("ACK") /\ isReceiving' = TRUE /\ packetno' = 1
        /\ filename' = m /\ flash' = [flash EXCEPT ![m] = <<>>]
    BY <1>7, <2>1 DEF StartReceiving, Start, sendControl
  <2>3. flash'[m] = <<>>
    BY <2>2 DEF AdapterOK, FlashOK
  <2>4. Prefix(n, 1 - 1) = <<>>
    BY SizeFacts, PrefixFacts
  <2>5. Uploading(n, 1)'
    BY <2>2, <2>3, <2>4, NothingTidy DEF Uploading
  <2>. QED
    BY <1>4, <1>6, <2>2, <2>5
<1>8. CASE RefuseReceiving(p)
  BY <1>2, <1>4, <1>6, <1>8 DEF RefuseReceiving, Start, sendControl
<1>9. CASE Receive(p) /\ p.seq # packetno /\ ~Start(p)
  <2>1. ~RefuseReceiving(p)
    BY <1>9 DEF RefuseReceiving
  <2>2. spoilt' = spoilt
    BY <1>1, <1>9, <2>1 DEF Send
  <2>3. xmodemStore' = Control("NAK") /\ UNCHANGED <<isReceiving, filename, packetno, flash>>
    BY <1>9 DEF Receive, sendControl
  <2>. QED
    BY <1>4, <1>6, <2>2, <2>3
<1>10. CASE ReceiveWeird(p)
  BY <1>2, <1>4, <1>6, <1>10 DEF ReceiveWeird, sendControl
<1>. QED
  BY <1>5, <1>7, <1>8, <1>9, <1>10

(* A name copied over what it left there before changes nothing. *)
Settled(n) == filename = Overlaid[n, filename]

LEMMA GetOpened ==
  ASSUME AdapterOK, NEW n \in Names, Send(Open("STX", n))
  PROVE  /\ AdapterOK' /\ UNCHANGED flash
         /\ Settled(n) => filename' = filename
         /\ xmodemStore'.control \in {"SOH", "NAK", "CAN"}
         /\ xmodemStore'.control = "SOH" =>
              xmodemStore'.seq = 1 /\ xmodemStore'.block = ReadBlock(filename', 1) /\ Settled(n)'
         /\ isTransmitting' =>
              /\ packetno' = 1 /\ file' = [open |-> TRUE, at |-> 2] /\ flash[filename'] # NoFile
              /\ Short(ReadBlock(filename', 1)) => isEOT'
              /\ isEOT' /\ ~cutShort' => Short(ReadBlock(filename', 1))
<1>1. PICK p : p = Open("STX", n)
  OBVIOUS
<1>2. p.control = "STX" /\ p.seq = 0 /\ p.name = n
  BY <1>1, OpenFacts
<1>a. handlePacket(p) /\ Sent(p)
  BY <1>1 DEF Send, Sent
<1>3. isReceiving => packetno # 0
  BY DEF AdapterOK, ReceivingOK
<1>4. AdapterOK'
  BY <1>a, <1>2, <1>3, HandleOK DEF Fits
<1>5. StartTransmitting(p) \/ (Receive(p) /\ p.seq # packetno) \/ ReceiveWeird(p)
  <2>1. ~StartReceiving(p) /\ ~EndOfTransmission(p) /\ ~Cancel(p) /\ ~NextBlock(p) /\ ~FinishSending(p)
        /\ ~Resend(p) /\ ~GiveUp(p) /\ ~Unexpected(p)
    BY <1>2, Zenon DEF StartReceiving, EndOfTransmission, Cancel, NextBlock, FinishSending, Resend, GiveUp, Unexpected
  <2>2. ~Ignore(p) /\ (Receive(p) => isReceiving)
    BY <1>2 DEF Ignore, Receive, Start
  <2>. QED
    BY <1>a, <1>2, <1>3, <2>1, <2>2 DEF handlePacket
<1>6. Control("NAK").control = "NAK" /\ Control("CAN").control = "CAN"
  BY ControlFacts
<1>7. CASE StartTransmitting(p)
  <2>1. Start(p) /\ ~isTransmitting /\ ~isReceiving
    BY <1>7 DEF StartTransmitting, Start
  <2>2. cutShort' = isEOT
    BY <1>1, <1>2, <2>1 DEF Send
  <2>a. PICK m \in Names : m = Name(p) /\ Overlaid[n, m] = m /\ (Settled(n) => filename = m)
    <3>1. filename \in Names \union {""}
      BY Zenon DEF AdapterOK, AdapterTypes
    <3>. QED
      BY <1>2, <3>1, NameFacts, Zenon DEF Name, Settled
  <2>3. UNCHANGED flash /\ filename' = m
    BY <1>7, <2>a DEF StartTransmitting
  <2>b. Settled(n)' /\ (Settled(n) => filename' = filename)
    BY <2>3, <2>a, Zenon DEF Settled
  <2>4. CASE flash[m] # NoFile
    <3>1. PICK block : block = ReadBlock(m, 1)
      OBVIOUS
    <3>2. /\ xmodemStore' = Data(1, block, TRUE) /\ isEOT' = (isEOT \/ Short(block))
          /\ packetno' = 1 /\ file' = [open |-> TRUE, at |-> 2]
      BY <1>7, <2>a, <2>4, <3>1, Zenon DEF StartTransmitting
    <3>3. xmodemStore'.control = "SOH" /\ xmodemStore'.seq = 1 /\ xmodemStore'.block = block
      BY <3>2 DEF Data
    <3>. QED
      BY <1>4, <2>2, <2>3, <2>b, <2>4, <3>1, <3>2, <3>3, Zenon
  <2>5. CASE flash[m] = NoFile
    <3>1. xmodemStore' = Control("NAK") /\ ~isTransmitting'
      BY <1>7, <2>1, <2>a, <2>5, Zenon DEF StartTransmitting, sendControl
    <3>. QED
      BY <1>4, <1>6, <2>3, <2>b, <3>1
  <2>. QED
    BY <2>4, <2>5
<1>8. CASE Receive(p) /\ p.seq # packetno
  <2>1. ~isTransmitting /\ UNCHANGED <<flash, isTransmitting, filename>> /\ xmodemStore' = Control("NAK")
    BY <1>8 DEF Receive, sendControl, AdapterOK, ReceivingOK
  <2>. QED
    BY <1>4, <1>6, <2>1
<1>9. CASE ReceiveWeird(p)
  BY <1>2, <1>4, <1>6, <1>9 DEF ReceiveWeird, sendControl
<1>. QED
  BY <1>5, <1>7, <1>8, <1>9

LEMMA BlockSent ==
  ASSUME AdapterOK, NEW n \in Names, NEW k \in 1..Size[n], NEW good \in BOOLEAN,
         Uploading(n, k) \/ Uploading(n, k + 1),
         \/ Send(Data(k, Block(n, k), good))
         \/ ReceiveUnwritten(Data(k, Block(n, k), good)) /\ spoilt' = TRUE /\ UNCHANGED cutShort
  PROVE  /\ AdapterOK' /\ (Uploading(n, k)' \/ Uploading(n, k + 1)')
         /\ Uploading(n, k + 1) => Uploading(n, k + 1)'
         /\ xmodemStore'.control \in {"ACK", "NAK"}
         /\ xmodemStore'.control = "ACK" => Uploading(n, k + 1)'
<1>1. PICK p : p = Data(k, Block(n, k), good)
  OBVIOUS
<1>2. /\ k \in Nat /\ k # 0 /\ k <= Size[n] /\ k # k + 1 /\ (k + 1) - 1 = k
      /\ (k + 1 <= Size[n] => k # Size[n])
  BY SizeFacts, SMT
<1>3. p.control = "SOH" /\ p.seq = k /\ p.block = Block(n, k)
  BY <1>1, <1>2, BlockFacts, DataFacts
<1>a. Sent(p) /\ isReceiving
  BY <1>1 DEF Sent, Uploading
<1>4. AdapterOK'
  <2>1. Fits(p)
    <3>1. SUFFICES ASSUME packetno = k
                   PROVE  Fits(p)
      BY <1>3 DEF Fits
    <3>2. Uploading(n, k)
      BY <1>2, <3>1 DEF Uploading
    <3>3. NoneShort(flash[filename]) /\ (spoilt \/ Received(n))
      <4>1. k - 1 <= Size[n]
        BY <1>2, SizeFacts, SMT
      <4>. QED
        BY <1>2, <3>1, <3>2, <4>1 DEF Uploading, Received
    <3>. QED
      BY <1>3, <3>1, <3>3 DEF Fits
  <2>. QED
    BY <1>a, <2>1, HandleOK
<1>b. ~Start(p) /\ ~RefuseReceiving(p)
  BY <1>a DEF Start, RefuseReceiving
<1>5. (Receive(p) /\ spoilt' = spoilt) \/ (ReceiveUnwritten(p) /\ spoilt' = TRUE)
  <2>1. handlePacket(p) => Receive(p)
    BY <1>a, <1>3, Zenon
     DEF handlePacket, StartReceiving, StartTransmitting, ReceiveWeird, Ignore, Start, EndOfTransmission, Cancel,
         NextBlock, FinishSending, Resend, GiveUp, Unexpected
  <2>2. Send(p) => handlePacket(p) /\ spoilt' = spoilt
    BY <1>b DEF Send
  <2>. QED
    BY <1>a, <1>b, <2>1, <2>2, Zenon DEF Sent
<1>6. UNCHANGED <<isReceiving, filename>>
  BY <1>5 DEF Receive, ReceiveUnwritten
<1>7. CASE packetno = k /\ p.good
  <2>1. packetno' = k + 1 /\ xmodemStore' = Control("ACK")
    BY <1>3, <1>5, <1>7 DEF Receive, ReceiveUnwritten, sendControl
  <2>2. NoneShort(flash[filename]) /\ (spoilt \/ flash[filename] = Prefix(n, k - 1))
    BY <1>2, <1>7 DEF Uploading
  <2>3. Uploading(n, k + 1)'
    <3>1. CASE ReceiveUnwritten(p) /\ spoilt' = TRUE
      BY <1>a, <1>6, <2>1, <2>2, <3>1 DEF Uploading, ReceiveUnwritten
    <3>2. CASE Receive(p) /\ spoilt' = spoilt
      <4>1. filename \in Names /\ Tidy(flash[filename]) /\ DOMAIN flash = Names
        BY <1>a DEF AdapterOK, ReceivingOK, FlashOK
      <4>2. flash' = [flash EXCEPT ![filename] = Append(flash[filename], Block(n, k))]
        BY <1>3, <1>7, <3>2 DEF Receive
      <4>3. flash'[filename'] = Append(flash[filename], Block(n, k))
        BY <1>6, <4>1, <4>2
      <4>4. k + 1 <= Size[n] => NoneShort(Append(flash[filename], Block(n, k)))
        BY <1>2, <2>2, <4>1, AppendTidy, BlockFacts
      <4>5. spoilt \/ flash'[filename'] = Prefix(n, k)
        BY <2>2, <4>3, PrefixGrows
      <4>. QED
        BY <1>2, <1>6, <1>a, <2>1, <3>2, <4>3, <4>4, <4>5 DEF Uploading
    <3>. QED
      BY <1>5, <3>1, <3>2
  <2>. QED
    BY <1>4, <2>1, <2>3, ControlFacts
<1>8. CASE ~(packetno = k /\ p.good)
  <2>1. ~ReceiveUnwritten(p)
    BY <1>3, <1>8 DEF ReceiveUnwritten
  <2>2. spoilt' = spoilt /\ UNCHANGED <<packetno, flash>> /\ xmodemStore' = Control("NAK")
    BY <1>3, <1>5, <1>8, <2>1 DEF Receive, sendControl
  <2>3. /\ Uploading(n, k) => Uploading(n, k)'
        /\ Uploading(n, k + 1) => Uploading(n, k + 1)'
    BY <1>6, <2>2 DEF Uploading
  <2>. QED
    BY <1>4, <2>2, <2>3, ControlFacts
<1>. QED
  BY <1>7, <1>8

LEMMA EndSent ==
  ASSUME AdapterOK, Send(Control("EOT"))
  PROVE  AdapterOK' /\ UNCHANGED <<flash, filename, spoilt>> /\ xmodemStore'.control = "ACK"
<1>1. PICK p : p = Control("EOT")
  OBVIOUS
<1>2. p.control = "EOT"
  BY <1>1, ControlFacts
<1>a. handlePacket(p) /\ Sent(p) /\ spoilt' = spoilt
  BY <1>1, <1>2 DEF Send, Sent
<1>3. AdapterOK'
  BY <1>a, <1>2, HandleOK DEF Fits
<1>4. EndOfTransmission(p)
  BY <1>a, <1>2, Zenon
     DEF handlePacket, StartReceiving, StartTransmitting, Receive, ReceiveWeird, Ignore, Cancel,
         NextBlock, FinishSending, Resend, GiveUp, Unexpected
<1>. QED
  BY <1>a, <1>3, <1>4, ControlFacts DEF EndOfTransmission, sendControl

LEMMA CancelSent ==
  ASSUME AdapterOK, Send(Control("CAN"))
  PROVE  AdapterOK'
<1>1. PICK p : p = Control("CAN")
  OBVIOUS
<1>. QED
  BY <1>1, ControlFacts, HandleOK DEF Fits, Sent

LEMMA AckSent ==
  ASSUME AdapterOK, Send(Control("ACK"))
  PROVE  /\ AdapterOK' /\ UNCHANGED <<flash, filename>>
         /\ \/ /\ isTransmitting /\ ~isEOT /\ packetno' = packetno + 1 /\ SendBlock(packetno + 1, file.at)
            \/ isTransmitting /\ isEOT /\ ~isTransmitting' /\ xmodemStore' = Control("EOT")
            \/ ~isTransmitting /\ ~isTransmitting' /\ xmodemStore' = Control("CAN")
<1>1. PICK p : p = Control("ACK")
  OBVIOUS
<1>2. p.control = "ACK"
  BY <1>1, ControlFacts
<1>a. handlePacket(p) /\ Sent(p)
  BY <1>1 DEF Send, Sent
<1>3. AdapterOK'
  BY <1>a, <1>2, HandleOK DEF Fits
<1>4. NextBlock(p) \/ FinishSending(p) \/ Unexpected(p)
  BY <1>a, <1>2, Zenon
     DEF handlePacket, StartReceiving, StartTransmitting, Receive, ReceiveWeird, Ignore, EndOfTransmission,
         Cancel, Resend, GiveUp
<1>5. CASE NextBlock(p)
  BY <1>3, <1>5 DEF NextBlock
<1>6. CASE FinishSending(p)
  BY <1>3, <1>6 DEF FinishSending, sendControl
<1>7. CASE Unexpected(p)
  BY <1>3, <1>7 DEF Unexpected, sendControl
<1>. QED
  BY <1>4, <1>5, <1>6, <1>7

LEMMA NakSent ==
  ASSUME AdapterOK, Send(Control("NAK"))
  PROVE  /\ AdapterOK' /\ UNCHANGED <<flash, filename>>
         /\ \/ isTransmitting /\ SendBlock(packetno, packetno) /\ UNCHANGED packetno
            \/ ~isTransmitting' /\ xmodemStore' = Control("CAN")
<1>1. PICK p : p = Control("NAK")
  OBVIOUS
<1>2. p.control = "NAK"
  BY <1>1, ControlFacts
<1>a. handlePacket(p) /\ Sent(p)
  BY <1>1 DEF Send, Sent
<1>3. AdapterOK'
  BY <1>a, <1>2, HandleOK DEF Fits
<1>4. Resend(p) \/ GiveUp(p) \/ Unexpected(p)
  BY <1>a, <1>2, Zenon
     DEF handlePacket, StartReceiving, StartTransmitting, Receive, ReceiveWeird, Ignore, EndOfTransmission,
         Cancel, NextBlock, FinishSending
<1>5. CASE Resend(p)
  BY <1>3, <1>5 DEF Resend
<1>6. CASE GiveUp(p)
  BY <1>3, <1>6 DEF GiveUp, sendControl
<1>7. CASE Unexpected(p)
  BY <1>3, <1>7 DEF Unexpected, sendControl
<1>. QED
  BY <1>4, <1>5, <1>6, <1>7

---------------------------------------------------------------------------
(* The phone and the adapter together. *)

Phone == [wants : {"nothing", "put", "get"}, name : Names \union {""},
          step : {"rest", "start", "open", "blocks", "end"}, k : Nat, got : Seq(Blocks)]

Pending(c) == inbox.control = c \/ xmodemStore.control = c

(* A phone under way has a file and has made nothing yet. *)
PhoneOK ==
  /\ phone \in Phone /\ inbox \in Answer
  /\ phone.step # "rest" => phone.wants # "nothing" /\ phone.name \in Names /\ made = NothingMade

Upload(next) == Uploading(phone.name, next)

(* An upload: the adapter expects the block the phone is at or, once it has*)
(* taken it, the next; an ACK not yet looked at means that it has.         *)
PutOK ==
  Puts =>
    /\ phone.step = "open" => phone.k = 0 /\ (Pending("ACK") => Upload(1))
    /\ phone.step = "blocks" =>
         /\ phone.k \in 1..Size[phone.name] /\ (Upload(phone.k) \/ Upload(phone.k + 1))
         /\ Pending("ACK") => Upload(phone.k + 1)
    /\ phone.step = "end" => spoilt \/ flash[filename] = Complete(phone.name)

NextRead == ReadBlock(filename, phone.k + 1)

(* A download under way: the adapter has sent the block after those the    *)
(* phone has, and isEOT, when it was clear at the start, marks the last.   *)
Download ==
  /\ packetno = phone.k + 1 /\ file = [open |-> TRUE, at |-> phone.k + 2]
  /\ flash[filename] # NoFile /\ phone.k <= Len(flash[filename])
  /\ phone.got = SubSeq(flash[filename], 1, phone.k)
  /\ (Short(NextRead) => isEOT) /\ (isEOT /\ ~cutShort => Short(NextRead))
  /\ ~Pending("EOT")

GetOK ==
  Gets /\ Waits =>
    /\ phone.step \in {"open", "blocks"}
    /\ phone.step = "open" => /\ phone.k = 0 /\ phone.got = <<>> /\ ~Pending("EOT")
                              /\ Pending("SOH") => Settled(phone.name)
    /\ \A a \in {inbox, xmodemStore} :
         a.control = "SOH" => a.seq <= phone.k + 1 /\ (a.seq = phone.k + 1 => a.block = NextRead)
    /\ isTransmitting => Download
    /\ Pending("EOT") => ~Pending("SOH") /\ (~cutShort => phone.got = flash[filename])

MadeOK ==
  /\ made.what = "put" => spoilt \/ flash[made.as] = Complete(made.name)
  /\ made.what = "get" /\ ~cutShort => made.got = flash[made.as]

Inv == AdapterOK /\ PhoneOK /\ PutOK /\ GetOK /\ MadeOK

(* A phone that does not wait is owed nothing. *)
LEMMA NotWaiting ==
  ASSUME AdapterOK', PhoneOK', phone'.step \in {"rest", "start"}, made' = NothingMade
  PROVE  Inv'
  BY DEF Inv, PutOK, GetOK, MadeOK, Puts, Waits, NothingMade

LEMMA StillMade ==
  ASSUME Inv, phone.step # "rest", made' = made
  PROVE  made' = NothingMade /\ MadeOK'
<1>1. made = NothingMade
  BY DEF Inv, PhoneOK
<1>2. NothingMade.what = "nothing"
  BY DEF NothingMade
<1>. QED
  BY <1>1, <1>2 DEF MadeOK

LEMMA HushOK == AdapterOK /\ UNCHANGED <<xmodemVars, histories>> => AdapterOK'
<1>1. SUFFICES ASSUME AdapterOK, UNCHANGED <<xmodemVars, histories>>
               PROVE  AdapterOK'
  OBVIOUS
<1>2. UNCHANGED <<isReceiving, isTransmitting, isEOT, retrans, packetno, filename, file, flash, xmodemStore>>
  BY <1>1 DEF xmodemVars
<1>3. AdapterTypes' /\ FlashOK'
  BY <1>1, <1>2, Zenon DEF AdapterOK, AdapterTypes, FlashOK
<1>4. ReceivingOK' /\ TransmittingOK'
  BY <1>1, <1>2 DEF AdapterOK, ReceivingOK, TransmittingOK, Received, histories
<1>. QED
  BY <1>3, <1>4 DEF AdapterOK

LEMMA GoesFacts ==
  ASSUME phone \in Phone, NEW step \in {"rest", "start", "open", "blocks", "end"}, NEW k \in Nat, Goes(step, k)
  PROVE  /\ phone' \in Phone /\ phone'.step = step /\ phone'.k = k
         /\ UNCHANGED <<phone.wants, phone.name, phone.got>>
  BY DEF Phone, Goes

LEMMA RetransFacts == MAXRETRANS \in 0..MAXRETRANS /\ 0 \in Nat
  BY XModemAssumption, SMT

LEMMA RestingFacts ==
  /\ Resting \in Phone /\ Resting.step = "rest" /\ Resting.wants = "nothing"
  /\ Nothing \in Answer /\ Nothing.control = "NUL"
  /\ NothingMade.what = "nothing"
<1>1. <<>> \in Seq(Blocks)
  OBVIOUS
<1>. QED
  BY <1>1, ControlFacts DEF Resting, Phone, Nothing, NothingMade

(* The phone opens the transfer, the first time or again. *)
LEMMA OpenOK ==
  ASSUME Inv, phone.step \in {"start", "open"}, inbox' \in {inbox, Nothing}, made' = made,
         phone.step = "start" => inbox' = Nothing,
         phone' \in Phone, phone'.step = "open", phone'.k = 0, Gets => phone'.got = <<>>,
         phone'.wants = phone.wants, phone'.name = phone.name,
         Send(Opening) \/ (RefuseReceiving(Opening) /\ UNCHANGED histories)
  PROVE  Inv'
<1>1. PICK n \in Names : n = phone.name
  BY DEF Inv, PhoneOK
<1>2. phone.wants \in {"put", "get"}
  <2>1. phone.wants \in {"nothing", "put", "get"}
    BY DEF Inv, PhoneOK, Phone
  <2>. QED
    BY <2>1 DEF Inv, PhoneOK
<1>3. made' = NothingMade /\ MadeOK'
  BY StillMade
<1>4. inbox' \in Answer
  BY RestingFacts DEF Inv, PhoneOK
<1>5. PhoneOK'
  BY <1>1, <1>2, <1>3, <1>4 DEF PhoneOK
<1>6. CASE Puts
  <2>1. Send(Open("SOH", n)) \/ (RefuseReceiving(Open("SOH", n)) /\ UNCHANGED histories)
    BY <1>1, <1>6 DEF Opening
  <2>2. /\ AdapterOK'
        /\ xmodemStore'.control = "ACK" => Uploading(n, 1)'
        /\ isReceiving => isReceiving' /\ UNCHANGED <<filename, packetno, flash, spoilt>>
    BY <2>1, PutOpened DEF Inv
  <2>3. inbox'.control = "ACK" => Uploading(n, 1)
    <3>1. inbox'.control = "ACK" => inbox.control = "ACK" /\ phone.step = "open"
      BY RestingFacts
    <3>. QED
      BY <1>1, <1>6, <3>1 DEF Inv, PutOK, Pending, Upload
  <2>a. inbox'.control = "ACK" => Uploading(n, 1)'
    BY <2>2, <2>3 DEF Uploading
  <2>4. PutOK'
    BY <1>1, <2>2, <2>a DEF PutOK, Pending, Upload
  <2>5. GetOK'
    BY <1>6 DEF Puts, Gets, GetOK
  <2>. QED
    BY <1>3, <1>5, <2>2, <2>4, <2>5 DEF Inv
<1>7. CASE Gets
  <2>1. Opening = Open("STX", n) /\ Opening.control = "STX"
    BY <1>1, <1>7, OpenFacts DEF Opening, Gets, Puts
  <2>2. Send(Open("STX", n))
    BY <2>1 DEF RefuseReceiving
  <2>3. /\ AdapterOK' /\ UNCHANGED flash
        /\ Settled(n) => filename' = filename
        /\ xmodemStore'.control \in {"SOH", "NAK", "CAN"}
        /\ xmodemStore'.control = "SOH" =>
             xmodemStore'.seq = 1 /\ xmodemStore'.block = ReadBlock(filename', 1) /\ Settled(n)'
        /\ isTransmitting' =>
             /\ packetno' = 1 /\ file' = [open |-> TRUE, at |-> 2] /\ flash[filename'] # NoFile
             /\ Short(ReadBlock(filename', 1)) => isEOT'
             /\ isEOT' /\ ~cutShort' => Short(ReadBlock(filename', 1))
    BY <2>2, GetOpened DEF Inv
  <2>4. NextRead' = ReadBlock(filename', 1)
    BY <2>3 DEF NextRead, ReadBlock
  <2>5. /\ inbox'.control # "EOT"
        /\ inbox'.control = "SOH" => /\ inbox'.seq <= 1 /\ (inbox'.seq = 1 => inbox'.block = ReadBlock(filename', 1))
                                     /\ Settled(n)'
    <3>1. CASE inbox' = Nothing
      BY <3>1, RestingFacts
    <3>2. CASE inbox' = inbox /\ phone.step = "open"
      <4>1. phone.k = 0 /\ NextRead = ReadBlock(filename, 1)
        BY <1>7, <3>2 DEF Inv, GetOK, Waits, NextRead
      <4>2. inbox.control # "EOT" /\ (inbox.control = "SOH" => Settled(n))
        BY <1>1, <1>7, <3>2 DEF Inv, GetOK, Waits, Pending
      <4>3. inbox.control = "SOH" => inbox.seq <= 1 /\ (inbox.seq = 1 => inbox.block = ReadBlock(filename, 1))
        BY <1>7, <3>2, <4>1 DEF Inv, GetOK, Waits
      <4>4. Settled(n) => filename' = filename /\ Settled(n)' /\ ReadBlock(filename', 1) = ReadBlock(filename, 1)
        <5>1. SUFFICES ASSUME Settled(n)
                       PROVE  filename' = filename /\ Settled(n)' /\ ReadBlock(filename', 1) = ReadBlock(filename, 1)
          OBVIOUS
        <5>2. filename' = filename
          BY <2>3, <5>1
        <5>. QED
          BY <5>1, <5>2 DEF Settled
      <4>. QED
        BY <3>2, <4>2, <4>3, <4>4
    <3>. QED
      BY <3>1, <3>2
  <2>6. phone'.got = <<>>
    BY <1>7
  <2>7. isTransmitting' => Download'
    <3>1. SUFFICES ASSUME isTransmitting'
                   PROVE  Download'
      OBVIOUS
    <3>2. PICK m \in Names : m = filename'
      BY <2>3, <3>1 DEF AdapterOK, TransmittingOK
    <3>3. PICK stored : stored = flash'[m] /\ stored # NoFile /\ Tidy(stored)
      BY <2>3, <3>1, <3>2 DEF AdapterOK, FlashOK
    <3>4. 0 \in Nat /\ 0 <= Len(stored) /\ SubSeq(stored, 1, 0) = <<>>
      <4>1. stored \in Seq(Blocks) /\ Len(stored) \in Nat
        BY <3>3, TidyFacts
      <4>2. 0 \in Nat /\ 0 <= Len(stored)
        BY <4>1, SMT
      <4>. QED
        BY <4>1, <4>2, TakenFacts
    <3>5. ~Pending("EOT")'
      BY <2>3, <2>5 DEF Pending
    <3>6. /\ packetno' = 1 /\ file' = [open |-> TRUE, at |-> 2]
          /\ (Short(NextRead') => isEOT') /\ (isEOT' /\ ~cutShort' => Short(NextRead'))
      BY <2>3, <2>4, <3>1
    <3>. QED
      BY <2>6, <3>2, <3>3, <3>4, <3>5, <3>6 DEF Download
  <2>8. GetOK'
    <3>1. Pending("SOH")' => Settled(n)'
      BY <2>3, <2>5 DEF Pending
    <3>2. ~Pending("EOT")'
      BY <2>3, <2>5 DEF Pending
    <3>3. \A a \in {inbox', xmodemStore'} : a.control = "SOH" => a.seq <= 1 /\ (a.seq = 1 => a.block = NextRead')
      BY <2>3, <2>4, <2>5
    <3>. QED
      BY <1>1, <2>6, <2>7, <3>1, <3>2, <3>3 DEF GetOK
  <2>9. PutOK'
    BY <1>7 DEF Gets, Puts, PutOK
  <2>. QED
    BY <1>3, <1>5, <2>3, <2>8, <2>9 DEF Inv
<1>. QED
  BY <1>2, <1>6, <1>7 DEF Puts, Gets

(* A downloading phone asks for a block again. *)
LEMMA AskedAgain ==
  ASSUME Inv, Gets, Waits, inbox' \in {inbox, Nothing}, made' = made,
         phone' \in Phone, phone'.step = "blocks", UNCHANGED <<phone.wants, phone.name, phone.k, phone.got>>,
         Send(Control("NAK"))
  PROVE  Inv'
<1>1. PICK n \in Names : n = phone.name
  BY DEF Inv, PhoneOK, Waits
<1>2. PICK k \in Nat : k = phone.k
  BY DEF Inv, PhoneOK, Phone
<1>3. made' = NothingMade /\ MadeOK'
  BY StillMade DEF Waits
<1>4. inbox' \in Answer
  BY RestingFacts DEF Inv, PhoneOK
<1>5. PhoneOK' /\ PutOK'
  BY <1>1, <1>3, <1>4 DEF PhoneOK, PutOK, Gets, Puts
<1>6. cutShort' = cutShort
  BY ControlFacts DEF Send
<1>7. /\ AdapterOK' /\ UNCHANGED <<flash, filename>>
      /\ \/ isTransmitting /\ SendBlock(packetno, packetno) /\ UNCHANGED packetno
         \/ ~isTransmitting' /\ xmodemStore' = Control("CAN")
  BY NakSent DEF Inv
<1>8. NextRead' = NextRead
  BY <1>7 DEF NextRead, ReadBlock
<1>9. /\ inbox'.control = "SOH" => inbox'.seq <= k + 1 /\ (inbox'.seq = k + 1 => inbox'.block = NextRead)
      /\ inbox'.control = "EOT" => Pending("EOT")
  <2>1. CASE inbox' = Nothing
    BY <2>1, RestingFacts
  <2>2. CASE inbox' = inbox
    BY <1>2, <2>2 DEF Inv, GetOK, Pending
  <2>. QED
    BY <2>1, <2>2
<1>10. CASE isTransmitting /\ SendBlock(packetno, packetno) /\ UNCHANGED packetno
  <2>1. Download
    BY <1>10 DEF Inv, GetOK
  <2>2. /\ packetno = k + 1 /\ file = [open |-> TRUE, at |-> k + 2]
    BY <1>2, <2>1 DEF Download
  <2>3. ReadBlock(filename, packetno) = NextRead
    BY <1>2, <2>2 DEF NextRead
  <2>4. /\ xmodemStore' = Data(k + 1, NextRead, TRUE) /\ isEOT' = (isEOT \/ Short(NextRead))
        /\ file' = [file EXCEPT !.at = (k + 1) + 1]
    BY <1>10, <2>2, <2>3 DEF SendBlock
  <2>5. file' = [open |-> TRUE, at |-> k + 2]
    <3>1. (k + 1) + 1 = k + 2
      OBVIOUS
    <3>. QED
      BY <2>2, <2>4, <3>1
  <2>6. xmodemStore'.control = "SOH" /\ xmodemStore'.seq = k + 1 /\ xmodemStore'.block = NextRead
    BY <2>4 DEF Data
  <2>7. /\ (Short(NextRead') => isEOT') /\ (isEOT' /\ ~cutShort' => Short(NextRead'))
    BY <1>6, <1>8, <2>1, <2>4, Zenon DEF Download
  <2>8. Download'
    BY <1>2, <1>7, <1>9, <1>10, <2>1, <2>5, <2>6, <2>7 DEF Download, Pending
  <2>9. GetOK'
    BY <1>2, <1>8, <1>9, <2>1, <2>6, <2>8 DEF GetOK, Pending, Download
  <2>. QED
    BY <1>3, <1>5, <1>7, <2>9 DEF Inv
<1>11. CASE ~isTransmitting' /\ xmodemStore' = Control("CAN")
  <2>1. xmodemStore'.control = "CAN"
    BY <1>11, ControlFacts
  <2>2. Pending("EOT")' => /\ ~Pending("SOH")' /\ inbox' = inbox
                           /\ (~cutShort' => phone'.got = flash'[filename'])
    BY <1>6, <1>7, <2>1, RestingFacts DEF Inv, GetOK, Pending
  <2>3. GetOK'
    BY <1>2, <1>8, <1>9, <1>11, <2>1, <2>2 DEF GetOK
  <2>. QED
    BY <1>3, <1>5, <1>7, <2>3 DEF Inv
<1>. QED
  BY <1>7, <1>10, <1>11

(* An uploading phone sends a block, the next or the same. *)
SentData(k, good) ==
  \/ Send(Data(k, Block(phone.name, k), good))
  \/ ReceiveUnwritten(Data(k, Block(phone.name, k), good)) /\ spoilt' = TRUE /\ UNCHANGED cutShort

LEMMA SentBlock ==
  ASSUME Inv, Puts, Waits, NEW k \in 1..Size[phone.name], Upload(k) \/ Upload(k + 1),
         inbox' = Nothing \/ (inbox' = inbox /\ (inbox.control = "ACK" => Upload(k + 1))), made' = made,
         phone' \in Phone, phone'.step = "blocks", phone'.k = k, UNCHANGED <<phone.wants, phone.name>>,
         NEW good \in BOOLEAN, SentData(k, good)
  PROVE  Inv'
<1>1. PICK n \in Names : n = phone.name
  BY DEF Inv, PhoneOK, Waits
<1>2. made' = NothingMade /\ MadeOK'
  BY StillMade DEF Waits
<1>3. inbox' \in Answer
  BY RestingFacts DEF Inv, PhoneOK
<1>4. PhoneOK' /\ GetOK'
  BY <1>1, <1>2, <1>3 DEF PhoneOK, GetOK, Gets, Puts
<1>5. /\ Uploading(n, k) \/ Uploading(n, k + 1)
      /\ \/ Send(Data(k, Block(n, k), good))
         \/ ReceiveUnwritten(Data(k, Block(n, k), good)) /\ spoilt' = TRUE /\ UNCHANGED cutShort
  BY <1>1 DEF Upload, SentData
<1>6. /\ AdapterOK' /\ (Uploading(n, k)' \/ Uploading(n, k + 1)')
      /\ Uploading(n, k + 1) => Uploading(n, k + 1)'
      /\ xmodemStore'.control = "ACK" => Uploading(n, k + 1)'
  BY <1>1, <1>5, BlockSent DEF Inv
<1>7. inbox'.control = "ACK" => Uploading(n, k + 1)'
  BY <1>1, <1>6, RestingFacts DEF Upload
<1>8. PutOK'
  BY <1>1, <1>6, <1>7 DEF PutOK, Upload, Pending
<1>. QED
  BY <1>2, <1>4, <1>6, <1>8 DEF Inv

(* The phone sends again what it sent last. *)
SentAgain ==
  \/ phone.step = "open" /\ (Send(Opening) \/ (RefuseReceiving(Opening) /\ UNCHANGED histories))
  \/ phone.step = "blocks" /\ Puts /\ \E good \in BOOLEAN : SentData(phone.k, good)
  \/ phone.step = "blocks" /\ Gets /\ Send(Control("NAK"))
  \/ phone.step = "end" /\ Send(Control("EOT"))

LEMMA AgainOK ==
  ASSUME Inv, Waits, SentAgain, inbox' \in {inbox, Nothing}, UNCHANGED <<phone, made>>
  PROVE  Inv'
<1>1. phone' \in Phone /\ phone'.k = phone.k /\ made' = made /\ UNCHANGED <<phone.wants, phone.name, phone.got>>
  BY DEF Inv, PhoneOK
<1>2. CASE phone.step = "open" /\ (Send(Opening) \/ (RefuseReceiving(Opening) /\ UNCHANGED histories))
  <2>1. phone.k = 0 /\ (Gets => phone.got = <<>>)
    <3>1. Puts \/ Gets
      BY <1>2 DEF Inv, PhoneOK, Phone, Puts, Gets
    <3>. QED
      BY <1>2, <3>1 DEF Inv, PutOK, GetOK, Waits
  <2>. QED
    BY <1>1, <1>2, <2>1, OpenOK
<1>3. CASE phone.step = "blocks" /\ Puts /\ \E good \in BOOLEAN : SentData(phone.k, good)
  <2>1. /\ phone.k \in 1..Size[phone.name] /\ (Upload(phone.k) \/ Upload(phone.k + 1))
        /\ Pending("ACK") => Upload(phone.k + 1)
    BY <1>3 DEF Inv, PutOK
  <2>. QED
    BY <1>1, <1>3, <2>1, SentBlock DEF Pending
<1>4. CASE phone.step = "blocks" /\ Gets /\ Send(Control("NAK"))
  BY <1>1, <1>4, AskedAgain
<1>5. CASE phone.step = "end" /\ Send(Control("EOT"))
  <2>1. ~Gets
    BY <1>5 DEF Inv, GetOK, Waits
  <2>2. AdapterOK' /\ UNCHANGED <<flash, filename, spoilt>>
    BY <1>5, EndSent DEF Inv
  <2>3. made' = NothingMade /\ MadeOK'
    BY <1>5, StillMade
  <2>4. PhoneOK' /\ GetOK'
    BY <1>1, <2>1, <2>3, RestingFacts DEF Inv, PhoneOK, GetOK, Gets
  <2>5. PutOK'
    BY <1>5, <2>2 DEF Inv, PutOK, Puts, Complete
  <2>. QED
    BY <2>2, <2>3, <2>4, <2>5 DEF Inv
<1>. QED
  BY <1>2, <1>3, <1>4, <1>5 DEF SentAgain

(* The phone leaves a transfer, by a CAN or without a word. *)
LEMMA LeftOff ==
  ASSUME Inv, phone.step # "rest", inbox' \in {inbox, Nothing}, made' = made,
         phone' = Resting \/ Goes("start", 0), Send(Control("CAN")) \/ Hush
  PROVE  Inv'
<1>1. AdapterOK'
  BY CancelSent, HushOK DEF Inv, Hush
<1>2. phone' \in Phone /\ phone'.step \in {"rest", "start"}
      /\ (phone'.step # "rest" => phone'.wants = phone.wants /\ phone'.name = phone.name)
  BY RestingFacts, GoesFacts DEF Inv, PhoneOK
<1>3. made' = NothingMade
  BY StillMade
<1>4. PhoneOK'
  BY <1>2, <1>3, RestingFacts DEF Inv, PhoneOK
<1>. QED
  BY <1>1, <1>2, <1>3, <1>4, NotWaiting

LEMMA RetryOK ==
  ASSUME Inv, Waits, Retry, inbox' = Nothing
  PROVE  Inv'
<1>1. CASE tries < MaxTries
  <2>1. UNCHANGED <<phone, made>>
    BY <1>1 DEF Retry
  <2>2. /\ phone.step = "open" => SendOpen
        /\ phone.step = "blocks" /\ Puts => SendBlockOf(phone.k)
        /\ phone.step = "blocks" /\ ~Puts /\ Gets => Say("NAK")
        /\ phone.step = "end" => Say("EOT")
    <3>1. CASE phone.step = "open"
      BY <1>1, <3>1 DEF Retry
    <3>2. CASE phone.step = "blocks" /\ Puts
      BY <1>1, <3>2 DEF Retry, Puts, Gets
    <3>3. CASE phone.step = "blocks" /\ ~Puts /\ Gets
      BY <1>1, <3>3 DEF Retry
    <3>4. CASE phone.step = "end"
      BY <1>1, <3>4 DEF Retry
    <3>. QED
      BY <3>1, <3>2, <3>3, <3>4
  <2>3. phone.step \in {"open", "blocks", "end"} /\ (Puts \/ (~Puts /\ Gets))
    BY DEF Inv, PhoneOK, Phone, Puts, Gets, Waits
  <2>4. SentAgain
    BY <2>2, <2>3 DEF SentAgain, SendOpen, SendBlockOf, SentData, Say
  <2>. QED
    BY <2>1, <2>4, AgainOK
<1>2. CASE ~(tries < MaxTries)
  <2>1. Goes("start", 0) /\ made' = made /\ (Send(Control("CAN")) \/ Hush)
    BY <1>2 DEF Retry, Say
  <2>. QED
    BY <2>1, LeftOff DEF Waits
<1>. QED
  BY <1>1, <1>2

(* Nothing happens but that answers are read, or looked at and dropped. *)
LEMMA Quiet ==
  ASSUME Inv, UNCHANGED <<isReceiving, isTransmitting, isEOT, retrans, packetno, filename, file, flash, phone, made, cutShort, spoilt>>,
         xmodemStore' \in {xmodemStore, Nothing}, inbox' \in {inbox, xmodemStore, Nothing}
  PROVE  Inv'
<1>1. xmodemStore \in Answer /\ inbox \in Answer
  BY DEF Inv, AdapterOK, AdapterTypes, PhoneOK
<1>2. xmodemStore' \in Answer /\ inbox' \in Answer
  BY <1>1, RestingFacts
<1>3. AdapterTypes' /\ FlashOK'
  BY <1>2, Zenon DEF Inv, AdapterOK, AdapterTypes, FlashOK
<1>4. ReceivingOK' /\ TransmittingOK'
  BY DEF Inv, AdapterOK, ReceivingOK, TransmittingOK, Received
<1>5. PhoneOK'
  BY <1>2 DEF Inv, PhoneOK
<1>6. MadeOK'
  BY DEF Inv, MadeOK
<1>7. /\ Pending("ACK")' => Pending("ACK")
      /\ Pending("EOT")' => Pending("EOT")
      /\ Pending("SOH")' => Pending("SOH")
  BY RestingFacts DEF Pending
<1>8. PutOK'
  BY <1>7 DEF Inv, PutOK, Upload, Uploading, Puts, Complete
<1>9. NextRead' = NextRead
  BY DEF NextRead, ReadBlock
<1>10. Download => Download'
  BY <1>7, <1>9 DEF Download, Short
<1>11. GetOK'
  <2>1. SUFFICES ASSUME Gets, Waits
                 PROVE  GetOK'
    BY DEF GetOK, Gets, Waits
  <2>2. \A a \in {inbox', xmodemStore'} :
          a.control = "SOH" => a.seq <= phone.k + 1 /\ (a.seq = phone.k + 1 => a.block = NextRead)
    BY <2>1, RestingFacts DEF Inv, GetOK
  <2>. QED
    BY <1>7, <1>9, <1>10, <2>1, <2>2 DEF Inv, GetOK, Settled
<1>. QED
  BY <1>3, <1>4, <1>5, <1>6, <1>8, <1>11 DEF Inv, AdapterOK

LEMMA WantOK == Inv /\ Want => Inv'
<1>1. SUFFICES ASSUME Inv, Want
               PROVE  Inv'
  OBVIOUS
<1>2. AdapterOK' /\ made' = NothingMade /\ inbox' \in Answer
  BY <1>1, HushOK DEF Want, Hush, Inv, PhoneOK
<1>3. PICK wants \in {"put", "get"}, n \in Names :
        phone' = [Resting EXCEPT !.wants = wants, !.name = n, !.step = "start"]
  BY <1>1 DEF Want
<1>4. phone' \in Phone /\ phone'.step = "start" /\ phone'.wants = wants /\ phone'.name = n
  BY <1>3, RestingFacts DEF Phone
<1>5. PhoneOK'
  BY <1>2, <1>4 DEF PhoneOK
<1>. QED
  BY <1>2, <1>4, <1>5, NotWaiting

LEMMA BeginOK == Inv /\ Begin => Inv'
<1>1. SUFFICES ASSUME Inv, Begin
               PROVE  Inv'
  OBVIOUS
<1>2. phone.step = "start" /\ inbox' = Nothing /\ made' = made
  BY <1>1 DEF Begin
<1>3. phone \in Phone /\ 0 \in Nat /\ <<>> \in Seq(Blocks)
  BY <1>1 DEF Inv, PhoneOK
<1>4. phone' = [phone EXCEPT !.step = "open", !.k = 0, !.got = <<>>]
  BY <1>1 DEF Begin
<1>5. /\ phone' \in Phone /\ phone'.step = "open" /\ phone'.k = 0 /\ phone'.got = <<>>
      /\ phone'.wants = phone.wants /\ phone'.name = phone.name
  BY <1>3, <1>4 DEF Phone
<1>6. Send(Opening) \/ (RefuseReceiving(Opening) /\ UNCHANGED histories)
  BY <1>1 DEF Begin, SendOpen
<1>. QED
  BY <1>1, <1>2, <1>5, <1>6, OpenOK

LEMMA ReadOK == Inv /\ Read => Inv'
  BY Quiet DEF Read, histories

LEMMA PutAcceptedOK == Inv /\ PutAccepted => Inv'
<1>1. SUFFICES ASSUME Inv, PutAccepted
               PROVE  Inv'
  OBVIOUS
<1>2. inbox' = Nothing /\ Pending("ACK") /\ Puts /\ Waits /\ phone.step \in {"open", "blocks", "end"}
  BY <1>1 DEF PutAccepted, Look, Pending, Waits
<1>3. PICK n \in Names : n = phone.name
  BY <1>1, <1>2 DEF Inv, PhoneOK
<1>4. CASE phone.step = "end"
  <2>1. /\ phone' = Resting /\ made' = [what |-> "put", name |-> n, as |-> filename, got |-> <<>>]
        /\ UNCHANGED <<xmodemVars, histories>>
    BY <1>1, <1>3, <1>4 DEF PutAccepted, Hush
  <2>2. AdapterOK' /\ flash' = flash /\ spoilt' = spoilt
    BY <1>1, <2>1, HushOK DEF Inv, xmodemVars, histories
  <2>3. spoilt \/ flash[filename] = Complete(n)
    BY <1>1, <1>2, <1>3, <1>4 DEF Inv, PutOK
  <2>4. made'.what = "put" /\ made'.name = n /\ made'.as = filename
    BY <2>1
  <2>5. PhoneOK'
    BY <1>2, <2>1, RestingFacts DEF PhoneOK
  <2>6. MadeOK'
    BY <2>2, <2>3, <2>4 DEF MadeOK, Complete
  <2>7. PutOK' /\ GetOK'
    BY <2>1, RestingFacts DEF PutOK, GetOK, Puts, Gets
  <2>. QED
    BY <2>2, <2>5, <2>6, <2>7 DEF Inv
<1>5. CASE phone.step \in {"open", "blocks"}
  <2>1. PICK k \in Nat : k = phone.k
    BY <1>1 DEF Inv, PhoneOK, Phone
  <2>2. k \in 0..Size[n] /\ Upload(k + 1)
    <3>1. CASE phone.step = "open"
      BY <1>1, <1>2, <3>1, <2>1, SizeFacts DEF Inv, PutOK
    <3>2. CASE phone.step = "blocks"
      BY <1>1, <1>2, <1>3, <3>2, <2>1, SizeFacts DEF Inv, PutOK
    <3>. QED
      BY <1>5, <3>1, <3>2
  <2>3. made' = made
    BY <1>1, <1>5 DEF PutAccepted
  <2>4. CASE k < Size[n]
    <3>1. Goes("blocks", k + 1) /\ SendBlockOf(k + 1)
      BY <1>1, <1>3, <1>5, <2>1, <2>4 DEF PutAccepted
    <3>2. k + 1 \in 1..Size[n] /\ k + 1 \in Nat
      BY <2>4, SizeFacts, SMT
    <3>3. phone' \in Phone /\ phone'.step = "blocks" /\ phone'.k = k + 1 /\ UNCHANGED <<phone.wants, phone.name>>
      BY <1>1, <3>1, <3>2, GoesFacts DEF Inv, PhoneOK
    <3>4. \E good \in BOOLEAN : SentData(k + 1, good)
      BY <1>3, <3>1 DEF SendBlockOf, SentData
    <3>. QED
      BY <1>1, <1>2, <1>3, <2>2, <2>3, <3>2, <3>3, <3>4, SentBlock
  <2>5. CASE ~(k < Size[n])
    <3>1. Goes("end", k) /\ Send(Control("EOT"))
      BY <1>1, <1>3, <1>5, <2>1, <2>5 DEF PutAccepted, Say
    <3>2. k = Size[n]
      BY <2>2, <2>5, SizeFacts, SMT
    <3>3. AdapterOK' /\ UNCHANGED <<flash, filename, spoilt>>
      BY <1>1, <3>1, EndSent DEF Inv
    <3>4. spoilt \/ flash[filename] = Complete(n)
      <4>1. (spoilt \/ flash[filename] = Prefix(n, (k + 1) - 1)) /\ (k + 1) - 1 = k
        BY <1>3, <2>2 DEF Upload, Uploading
      <4>. QED
        BY <3>2, <4>1 DEF Prefix, Complete
    <3>5. phone' \in Phone /\ phone'.step = "end" /\ UNCHANGED <<phone.wants, phone.name>>
      BY <1>1, <2>1, <3>1, GoesFacts DEF Inv, PhoneOK
    <3>6. made' = NothingMade /\ MadeOK'
      BY <1>1, <1>5, <2>3, StillMade
    <3>7. PhoneOK'
      BY <1>1, <1>2, <1>3, <3>5, <3>6, RestingFacts DEF PhoneOK, Puts
    <3>8. PutOK' /\ GetOK'
      BY <1>2, <1>3, <3>3, <3>4, <3>5 DEF PutOK, GetOK, Puts, Gets, Complete
    <3>. QED
      BY <3>3, <3>6, <3>7, <3>8 DEF Inv
  <2>. QED
    BY <2>4, <2>5
<1>. QED
  BY <1>2, <1>4, <1>5

LEMMA PutRefusedOK == Inv /\ PutRefused => Inv'
  BY RetryOK DEF PutRefused, Look, Waits

(* The block the phone waits for has come: it takes it and says so. *)
LEMMA GetBlockOK == Inv /\ GetBlock => Inv'
<1>1. SUFFICES ASSUME Inv, GetBlock
               PROVE  Inv'
  OBVIOUS
<1>2. /\ inbox' = Nothing /\ Gets /\ Waits /\ made' = made
      /\ inbox.control = "SOH" /\ inbox.seq = phone.k + 1
  BY <1>1 DEF GetBlock, Look
<1>3. PICK n \in Names : n = phone.name
  BY <1>1, <1>2 DEF Inv, PhoneOK, Waits
<1>4. PICK k \in Nat : k = phone.k
  BY <1>1 DEF Inv, PhoneOK, Phone
<1>5. PICK block \in Blocks : block = inbox.block /\ block = NextRead /\ block = ReadBlock(filename, k + 1)
  <2>1. inbox.block \in Blocks
    BY <1>1 DEF Inv, PhoneOK, Answer
  <2>2. inbox.block = NextRead
    BY <1>1, <1>2 DEF Inv, GetOK
  <2>. QED
    BY <1>4, <2>1, <2>2 DEF NextRead
<1>6. PICK got \in Seq(Blocks) : got = (IF block = Empty THEN phone.got ELSE Append(phone.got, block))
  <2>1. phone.got \in Seq(Blocks)
    BY <1>1 DEF Inv, PhoneOK, Phone
  <2>. QED
    BY <2>1, AppendProperties
<1>7. phone' = [phone EXCEPT !.step = "blocks", !.k = k + 1, !.got = got]
  BY <1>1, <1>2, <1>4, <1>5, <1>6 DEF GetBlock
<1>8. /\ phone' \in Phone /\ phone'.step = "blocks" /\ phone'.k = k + 1 /\ phone'.got = got
      /\ UNCHANGED <<phone.wants, phone.name>>
  <2>1. phone \in Phone /\ k + 1 \in Nat
    BY <1>1 DEF Inv, PhoneOK
  <2>. QED
    BY <1>7, <2>1 DEF Phone
<1>9. made' = NothingMade /\ MadeOK'
  BY <1>1, <1>2, StillMade DEF Waits
<1>10. PhoneOK' /\ PutOK'
  BY <1>2, <1>3, <1>8, <1>9, RestingFacts DEF PhoneOK, PutOK, Gets, Puts
<1>11. cutShort' = cutShort /\ Send(Control("ACK"))
  BY <1>1, ControlFacts DEF GetBlock, Say, Send
<1>12. /\ AdapterOK' /\ UNCHANGED <<flash, filename>>
       /\ \/ /\ isTransmitting /\ ~isEOT /\ packetno' = packetno + 1 /\ SendBlock(packetno + 1, file.at)
          \/ isTransmitting /\ isEOT /\ ~isTransmitting' /\ xmodemStore' = Control("EOT")
          \/ ~isTransmitting /\ ~isTransmitting' /\ xmodemStore' = Control("CAN")
  BY <1>1, <1>11, AckSent DEF Inv
<1>13. NextRead' = ReadBlock(filename, k + 2)
  <2>1. (k + 1) + 1 = k + 2
    OBVIOUS
  <2>. QED
    BY <1>8, <1>12, <2>1 DEF NextRead, ReadBlock
<1>14. inbox'.control # "SOH" /\ inbox'.control # "EOT"
  BY <1>2, RestingFacts
<1>15. isTransmitting =>
         /\ packetno = k + 1 /\ file = [open |-> TRUE, at |-> k + 2]
         /\ flash[filename] # NoFile /\ k <= Len(flash[filename]) /\ phone.got = SubSeq(flash[filename], 1, k)
         /\ (Short(block) => isEOT) /\ (isEOT /\ ~cutShort => Short(block))
  BY <1>1, <1>2, <1>4, <1>5 DEF Inv, GetOK, Download
<1>16. PICK stored : stored = flash[filename]
  OBVIOUS
<1>a. isTransmitting => /\ stored \in Seq(Blocks) /\ Len(stored) \in Nat
                        /\ k + 1 <= Len(stored) => /\ k + 1 \in 1..Len(stored) /\ block = stored[k + 1] /\ block # Empty
                                                   /\ Short(block) => k + 1 = Len(stored)
                        /\ ~(k + 1 <= Len(stored)) => block = Empty
  <2>1. SUFFICES ASSUME isTransmitting
                 PROVE  /\ stored \in Seq(Blocks) /\ Len(stored) \in Nat
                        /\ k + 1 <= Len(stored) => /\ k + 1 \in 1..Len(stored) /\ block = stored[k + 1] /\ block # Empty
                                                   /\ Short(block) => k + 1 = Len(stored)
                        /\ ~(k + 1 <= Len(stored)) => block = Empty
    OBVIOUS
  <2>2. PICK m \in Names : m = filename
    BY <1>1, <2>1 DEF Inv, AdapterOK, TransmittingOK
  <2>3. PICK next \in Nat \ {0} : next = k + 1
    BY SMT
  <2>4. /\ Tidy(stored) /\ Len(stored) \in Nat
        /\ next <= Len(stored) => next \in 1..Len(stored) /\ block = stored[next] /\ block # Empty
        /\ ~(next <= Len(stored)) => block = Empty
    BY <1>1, <1>5, <1>15, <1>16, <2>1, <2>2, <2>3, ReadFacts DEF Inv, AdapterOK
  <2>5. stored \in Seq(Blocks) /\ \A i \in 1..Len(stored) : Short(stored[i]) => i = Len(stored)
    BY <2>4, TidyFacts
  <2>. QED
    BY <2>3, <2>4, <2>5
<1>17. isTransmitting /\ k + 1 <= Len(stored) => got = SubSeq(stored, 1, k + 1)
  BY <1>6, <1>15, <1>16, <1>a, TakenGrows
<1>18. CASE isTransmitting /\ ~isEOT /\ packetno' = packetno + 1 /\ SendBlock(packetno + 1, file.at)
  <2>1. k + 1 <= Len(stored)
    <3>1. block # Empty
      BY <1>15, <1>18 DEF Short
    <3>. QED
      BY <1>18, <1>a, <3>1
  <2>2. got = SubSeq(stored, 1, k + 1)
    BY <1>17, <1>18, <2>1
  <2>3. packetno + 1 = k + 2 /\ file.at = k + 2 /\ file.open
    BY <1>15, <1>18, SMT
  <2>4. ReadBlock(filename, file.at) = NextRead'
    BY <1>13, <1>15, <1>18, <2>3
  <2>5. /\ xmodemStore' = Data(k + 2, NextRead', TRUE) /\ isEOT' = (isEOT \/ Short(NextRead'))
        /\ file' = [file EXCEPT !.at = (k + 2) + 1]
    <3>1. PICK next : next = NextRead'
      OBVIOUS
    <3>2. SendBlock(k + 2, k + 2) /\ file.open /\ ReadBlock(filename, k + 2) = next
      BY <1>18, <2>3, <2>4, <3>1
    <3>. QED
      BY <3>1, <3>2 DEF SendBlock
  <2>6. file' = [open |-> TRUE, at |-> (k + 1) + 2]
    <3>1. PICK at : at = (k + 2) + 1 /\ at = (k + 1) + 2
      OBVIOUS
    <3>2. file' = [file EXCEPT !.at = at] /\ file = [open |-> TRUE, at |-> k + 2]
      BY <1>15, <1>18, <2>5, <3>1
    <3>. QED
      BY <3>1, <3>2
  <2>7. xmodemStore'.control = "SOH" /\ xmodemStore'.seq = k + 2 /\ xmodemStore'.block = NextRead'
    BY <2>5 DEF Data
  <2>8. (Short(NextRead') => isEOT') /\ (isEOT' /\ ~cutShort' => Short(NextRead'))
    BY <1>18, <2>5, Zenon
  <2>9. flash'[filename'] = stored /\ stored # NoFile
    BY <1>12, <1>15, <1>16, <1>18
  <2>10. packetno' = (k + 1) + 1
    BY <1>15, <1>18
  <2>11. Download'
    BY <1>8, <1>14, <2>1, <2>2, <2>6, <2>7, <2>8, <2>9, <2>10 DEF Download, Pending
  <2>12. GetOK'
    BY <1>8, <1>14, <2>7, <2>11 DEF GetOK, Pending
  <2>. QED
    BY <1>9, <1>10, <1>12, <2>12 DEF Inv
<1>19. CASE isTransmitting /\ isEOT /\ ~isTransmitting' /\ xmodemStore' = Control("EOT")
  <2>1. xmodemStore'.control = "EOT"
    BY <1>19, ControlFacts
  <2>2. ~cutShort => got = stored
    <3>1. SUFFICES ASSUME ~cutShort
                   PROVE  got = stored
      OBVIOUS
    <3>2. Short(block)
      BY <1>15, <1>19, <3>1
    <3>3. CASE k + 1 <= Len(stored)
      BY <1>17, <1>19, <1>a, <3>2, <3>3, SubSeqFull
    <3>4. CASE ~(k + 1 <= Len(stored))
      <4>1. k <= Len(stored) /\ Len(stored) \in Nat
        BY <1>15, <1>16, <1>19, <1>a
      <4>2. Len(stored) = k
        BY <3>4, <4>1, SMT
      <4>3. got = phone.got
        BY <1>6, <1>19, <1>a, <3>4
      <4>. QED
        BY <1>15, <1>16, <1>19, <1>a, <4>2, <4>3, SubSeqFull
    <3>. QED
      BY <3>3, <3>4
  <2>3. GetOK'
    BY <1>8, <1>11, <1>12, <1>14, <1>16, <1>19, <2>1, <2>2 DEF GetOK, Pending
  <2>. QED
    BY <1>9, <1>10, <1>12, <2>3 DEF Inv
<1>20. CASE ~isTransmitting /\ ~isTransmitting' /\ xmodemStore' = Control("CAN")
  <2>1. xmodemStore'.control = "CAN"
    BY <1>20, ControlFacts
  <2>2. GetOK'
    BY <1>8, <1>14, <1>20, <2>1 DEF GetOK, Pending
  <2>. QED
    BY <1>9, <1>10, <1>12, <2>2 DEF Inv
<1>. QED
  BY <1>12, <1>18, <1>19, <1>20

LEMMA GetDamagedOK == Inv /\ GetDamaged => Inv'
<1>1. SUFFICES ASSUME Inv, GetDamaged
               PROVE  Inv'
  OBVIOUS
<1>2. inbox' = Nothing /\ Gets /\ Waits /\ made' = made /\ Goes("blocks", phone.k) /\ Send(Control("NAK"))
  BY <1>1 DEF GetDamaged, Look
<1>3. phone \in Phone /\ phone.k \in Nat
  BY <1>1 DEF Inv, PhoneOK, Phone
<1>4. phone' \in Phone /\ phone'.step = "blocks" /\ UNCHANGED <<phone.wants, phone.name, phone.k, phone.got>>
  BY <1>2, <1>3, GoesFacts
<1>. QED
  BY <1>1, <1>2, <1>4, AskedAgain

LEMMA GetDoneOK == Inv /\ GetDone => Inv'
<1>1. SUFFICES ASSUME Inv, GetDone
               PROVE  Inv'
  OBVIOUS
<1>2. /\ inbox' = Nothing /\ Gets /\ Waits /\ Pending("EOT") /\ phone' = Resting /\ UNCHANGED <<xmodemVars, histories>>
      /\ made' = [what |-> "get", name |-> phone.name, as |-> filename, got |-> phone.got]
  BY <1>1 DEF GetDone, Look, Pending, Waits, Hush
<1>3. AdapterOK' /\ flash' = flash /\ cutShort' = cutShort
  BY <1>1, <1>2, HushOK DEF Inv, xmodemVars, histories
<1>4. ~cutShort => phone.got = flash[filename]
  BY <1>1, <1>2 DEF Inv, GetOK
<1>5. made'.what = "get" /\ made'.as = filename /\ made'.got = phone.got
  BY <1>2
<1>6. MadeOK'
  BY <1>2, <1>3, <1>4, <1>5 DEF MadeOK
<1>7. PhoneOK' /\ PutOK' /\ GetOK'
  BY <1>2, RestingFacts DEF PhoneOK, PutOK, GetOK, Puts, Gets
<1>. QED
  BY <1>3, <1>6, <1>7 DEF Inv

LEMMA TurnedOK == Inv /\ Turned => Inv'
<1>1. SUFFICES ASSUME Inv, Turned
               PROVE  Inv'
  OBVIOUS
<1>2. inbox' = Nothing /\ Waits /\ made' = made /\ (phone' = Resting \/ Goes("start", 0))
      /\ (Send(Control("CAN")) \/ Hush)
  BY <1>1 DEF Turned, Look, Say
<1>. QED
  BY <1>1, <1>2, LeftOff DEF Waits

LEMMA DropOK == Inv /\ Drop => Inv'
  BY Quiet DEF Drop, Look, Hush, xmodemVars, histories

LEMMA TimeoutOK == Inv /\ Timeout => Inv'
<1>1. SUFFICES ASSUME Inv, Timeout
               PROVE  Inv'
  OBVIOUS
<1>2. Waits /\ inbox' = inbox
  BY <1>1 DEF Timeout
<1>3. CASE inbox = Nothing /\ xmodemStore = Nothing
  BY <1>1, <1>2, <1>3, RetryOK DEF Timeout
<1>4. CASE ~(inbox = Nothing /\ xmodemStore = Nothing)
  <2>1. UNCHANGED <<phone, made>>
    BY <1>1, <1>4 DEF Timeout
  <2>2. phone.step \in {"open", "blocks", "end"} /\ (Puts \/ (~Puts /\ Gets))
    BY <1>1, <1>2 DEF Inv, PhoneOK, Phone, Puts, Gets, Waits
  <2>3. phone.step = "open" => Send(Opening)
    BY <1>1, <1>4 DEF Timeout
  <2>4. phone.step = "blocks" /\ Puts => SentData(phone.k, TRUE)
    BY <1>1, <1>4 DEF Timeout, Puts, Gets, SentData
  <2>5. phone.step = "blocks" /\ ~Puts /\ Gets => Send(Control("NAK"))
    BY <1>1, <1>4 DEF Timeout
  <2>6. phone.step = "end" => Send(Control("EOT"))
    BY <1>1, <1>4 DEF Timeout
  <2>7. SentAgain
    <3>1. TRUE \in BOOLEAN
      OBVIOUS
    <3>. QED
      BY <2>2, <2>3, <2>4, <2>5, <2>6, <3>1 DEF SentAgain
  <2>. QED
    BY <1>1, <1>2, <2>1, <2>7, AgainOK
<1>. QED
  BY <1>3, <1>4

LEMMA BreakOK == Inv /\ Break => Inv'
  BY LeftOff DEF Break

LEMMA StopOK == Inv /\ Stop => Inv'
  BY LeftOff DEF Stop, Say

(* A restart forgets what the adapter was at; the files stay. *)
LEMMA RebootOK == Inv /\ Reboot => Inv'
<1>1. SUFFICES ASSUME Inv, Reboot
               PROVE  Inv'
  OBVIOUS
<1>2. /\ isReceiving' = FALSE /\ isTransmitting' = FALSE /\ isEOT' = FALSE /\ retrans' = MAXRETRANS
      /\ packetno' = 0 /\ filename' = "" /\ file' = Closed /\ xmodemStore' = Nothing /\ inbox' = Nothing
      /\ UNCHANGED <<flash, made, cutShort, spoilt>>
      /\ phone' = IF phone.step = "rest" THEN phone ELSE [phone EXCEPT !.step = "start", !.k = 0]
  BY <1>1 DEF Reboot, histories
<1>3. AdapterOK'
  <2>1. retrans' \in 0..MAXRETRANS /\ packetno' \in Nat
    BY <1>2, RetransFacts
  <2>2. FALSE \in BOOLEAN /\ "" \in Names \union {""}
    OBVIOUS
  <2>3. AdapterTypes'
    BY <1>2, <2>1, <2>2, FileFacts, RestingFacts, Zenon DEF AdapterTypes
  <2>4. FlashOK'
    BY <1>1, <1>2 DEF Inv, AdapterOK, FlashOK
  <2>. QED
    BY <1>2, <2>3, <2>4 DEF AdapterOK, ReceivingOK, TransmittingOK
<1>4. CASE phone.step = "rest"
  <2>1. phone' = phone
    BY <1>2, <1>4
  <2>2. PhoneOK' /\ MadeOK'
    BY <1>1, <1>2, <1>4, <2>1, RestingFacts DEF Inv, PhoneOK, MadeOK, Complete
  <2>3. PutOK' /\ GetOK'
    BY <1>4, <2>1 DEF PutOK, GetOK, Puts, Gets, Waits
  <2>. QED
    BY <1>3, <2>2, <2>3 DEF Inv
<1>5. CASE phone.step # "rest"
  <2>1. Goes("start", 0) /\ phone \in Phone
    BY <1>1, <1>2, <1>5 DEF Goes, Inv, PhoneOK
  <2>2. phone' \in Phone /\ phone'.step = "start" /\ UNCHANGED <<phone.wants, phone.name>>
    BY <2>1, GoesFacts
  <2>3. made' = NothingMade
    BY <1>1, <1>2, <1>5, StillMade
  <2>4. PhoneOK'
    BY <1>1, <1>2, <1>5, <2>2, <2>3, RestingFacts DEF Inv, PhoneOK
  <2>. QED
    BY <1>3, <2>2, <2>3, <2>4, NotWaiting
<1>. QED
  BY <1>4, <1>5

---------------------------------------------------------------------------
(* The theorems. *)

LEMMA InitInv == Init => Inv
<1>1. SUFFICES ASSUME Init
               PROVE  Inv
  OBVIOUS
<1>2. PICK stored \in SUBSET Names : flash = [n \in Names |-> IF n \in stored THEN Complete(n) ELSE NoFile]
  BY <1>1 DEF Init
<1>4. FlashOK
  BY <1>2, CompleteTidy DEF FlashOK
<1>5. /\ isReceiving = FALSE /\ isTransmitting = FALSE /\ isEOT = FALSE /\ retrans = MAXRETRANS
      /\ packetno = 0 /\ filename = "" /\ file = Closed /\ xmodemStore = Nothing /\ inbox = Nothing
      /\ phone = Resting /\ made = NothingMade
  BY <1>1 DEF Init, XModemInit
<1>6. AdapterTypes
  <2>1. retrans \in 0..MAXRETRANS /\ packetno \in Nat
    BY <1>5, RetransFacts
  <2>2. FALSE \in BOOLEAN /\ "" \in Names \union {""}
    OBVIOUS
  <2>. QED
    BY <1>5, <2>1, <2>2, FileFacts, RestingFacts, Zenon DEF AdapterTypes
<1>7. AdapterOK
  BY <1>4, <1>5, <1>6 DEF AdapterOK, ReceivingOK, TransmittingOK
<1>8. PhoneOK /\ PutOK /\ GetOK /\ MadeOK
  BY <1>5, RestingFacts DEF PhoneOK, PutOK, GetOK, MadeOK, Puts, Gets, Waits
<1>. QED
  BY <1>7, <1>8 DEF Inv

LEMMA NextInv == Inv /\ [Next]_vars => Inv'
<1>1. SUFFICES ASSUME Inv, [Next]_vars
               PROVE  Inv'
  OBVIOUS
<1>2. CASE UNCHANGED vars
  BY <1>1, <1>2, Quiet DEF vars, xmodemVars, histories
<1>3. CASE Want \/ Begin \/ Read \/ PutAccepted \/ PutRefused
  BY <1>1, <1>3, WantOK, BeginOK, ReadOK, PutAcceptedOK, PutRefusedOK
<1>4. CASE GetBlock \/ GetDamaged \/ GetDone \/ Turned \/ Drop
  BY <1>1, <1>4, GetBlockOK, GetDamagedOK, GetDoneOK, TurnedOK, DropOK
<1>5. CASE Timeout \/ Break \/ Reboot \/ Stop
  BY <1>1, <1>5, TimeoutOK, BreakOK, RebootOK, StopOK
<1>. QED
  BY <1>1, <1>2, <1>3, <1>4, <1>5 DEF Next, Hears

LEMMA SpecInv == Spec => []Inv
  BY InitInv, NextInv, PTL DEF Spec

(* What the adapter keeps stays in its domain: it never receives and       *)
(* transmits at once, and it receives into an open file (XModemAdapter's   *)
(* flags, which outlive the link and the transfer they were set for).      *)
THEOREM FileTransferTypeOK == Spec => []TypeOK
<1>1. Inv => TypeOK
  <2>1. SUFFICES ASSUME Inv
                 PROVE  TypeOK
    OBVIOUS
  <2>2. AdapterTypes /\ ReceivingOK
    BY <2>1 DEF Inv, AdapterOK
  <2>3. xmodemStore.control \in {"NUL", "SOH", "ACK", "NAK", "CAN", "EOT"} /\ xmodemStore.block \in Blocks
    BY <2>2 DEF AdapterTypes, Answer
  <2>4. /\ isReceiving \in BOOLEAN /\ isTransmitting \in BOOLEAN /\ isEOT \in BOOLEAN
        /\ retrans \in 0..MAXRETRANS /\ packetno \in Nat /\ filename \in Names \union {""}
    BY <2>2, Zenon DEF AdapterTypes
  <2>. QED
    BY <2>2, <2>3, <2>4, Zenon DEF TypeOK, ReceivingOK
<1>. QED
  BY SpecInv, <1>1, PTL

(* An upload the phone has seen through left on the flash the file it sent,*)
(* under the name the adapter made of the one it was given, and while one  *)
(* is received the file holds the blocks before the one expected next, if  *)
(* every block of it was written (handlePacket: the number and the checksum*)
(* of a block are looked at before it is written, what write returns never *)
(* is).                                                                    *)
THEOREM TransferUploadWhole == Spec => []UploadWhole
<1>1. Inv => UploadWhole
  <2>1. SUFFICES ASSUME Inv
                 PROVE  UploadWhole
    OBVIOUS
  <2>2. InStep
    <3>1. SUFFICES ASSUME isReceiving, ~spoilt
                   PROVE  \E n \in Names : /\ packetno - 1 <= Size[n]
                                           /\ flash[filename] = SubSeq(Complete(n), 1, packetno - 1)
      BY DEF InStep
    <3>2. PICK n \in Names : Received(n)
      BY <2>1, <3>1 DEF Inv, AdapterOK, ReceivingOK
    <3>3. packetno \in Nat /\ packetno # 0
      BY <2>1, <3>1, Zenon DEF Inv, AdapterOK, AdapterTypes, ReceivingOK
    <3>4. packetno - 1 \in 0..Size[n]
      BY <3>2, <3>3, SizeFacts, SMT DEF Received
    <3>5. PICK j \in 0..Size[n] : j = packetno - 1
      BY <3>4
    <3>. QED
      BY <3>2, <3>5, SubSeqOfComplete DEF Received
  <2>. QED
    BY <2>1, <2>2 DEF Inv, MadeOK, UploadWhole
<1>. QED
  BY SpecInv, <1>1, PTL

(* A download the phone has seen through gave it the whole of the file the *)
(* adapter opened, whatever an upload that failed has left in it, unless it*)
(* began with isEOT left set (handlePacket: the block after the last one   *)
(* acknowledged is sent, the same again after a NAK).                      *)
THEOREM TransferFetchWhole == Spec => []FetchWhole
<1>1. Inv => FetchWhole
  BY DEF Inv, MadeOK, FetchWhole
<1>. QED
  BY SpecInv, <1>1, PTL
====
