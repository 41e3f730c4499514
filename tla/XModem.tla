------------------------------- MODULE XModem -------------------------------
(***************************************************************************)
(* File transfer over the phone link (xmodem.cpp). The adapter is driven by*)
(* the packets the phone writes: each is handled at once and leaves at most*)
(* one answer in xmodemStore, which the phone reads later; a second answer *)
(* takes the place of an unread one. One actor after another uses the same *)
(* flags, and they outlive the link.                                       *)
(***************************************************************************)
EXTENDS Integers, Sequences

CONSTANTS Names,          \* file names
          Overlaid,       \* the name left when one is copied over another and not ended: a longer
                          \* one keeps its tail
          Size,           \* the number of blocks of each, the last one short
          MAXRETRANS

ASSUME NameAssumption ==
  /\ Overlaid \in [Names \X (Names \union {""}) -> Names]
  /\ \A n \in Names : Overlaid[n, ""] = n
  /\ \A n \in Names, m \in Names \union {""} : Overlaid[n, Overlaid[n, m]] = Overlaid[n, m]

ASSUME XModemAssumption ==
  /\ Size \in [Names -> Nat \ {0}]
  /\ MAXRETRANS \in Nat \ {0}

VARIABLES isReceiving, isTransmitting, isEOT, retrans, packetno, filename,
          file,          \* the open file and the block it reads next
          flash,         \* the files: a sequence of blocks, or NoFile
          xmodemStore

xmodemVars == <<isReceiving, isTransmitting, isEOT, retrans, packetno, filename, file, flash, xmodemStore>>

Closed == [open |-> FALSE, at |-> 1]
Block(n, i) == [of |-> n, i |-> i]
Empty == Block("", 0)
NoFile == <<Empty>>
Complete(n) == [i \in 1..Size[n] |-> Block(n, i)]
Short(block) == block = Empty \/ block.i = Size[block.of]

Control(c) == [control |-> c, seq |-> 0, name |-> "", block |-> Empty, good |-> TRUE]
Nothing == Control("NUL")
Open(c, n) == [Control(c) EXCEPT !.name = n]
Data(seq, block, good) == [control |-> "SOH", seq |-> seq, name |-> "", block |-> block, good |-> good]

XModemInit == /\ isReceiving = FALSE /\ isTransmitting = FALSE /\ isEOT = FALSE
              /\ retrans = MAXRETRANS /\ packetno = 0 /\ filename = "" /\ file = Closed
              /\ xmodemStore = Nothing

sendControl(c) == xmodemStore' = Control(c)

(* Block number k of the file is read and sent; a short one is the last.   *)
(* A file closed meanwhile reads as empty.                                 *)
ReadBlock(n, k) == IF flash[n] # NoFile /\ k <= Len(flash[n]) THEN flash[n][k] ELSE Empty
SendBlock(number, k) ==
  LET block == IF file.open THEN ReadBlock(filename, k) ELSE Empty
  IN /\ xmodemStore' = Data(number, block, TRUE)
     /\ isEOT' = (isEOT \/ Short(block))
     /\ file' = [file EXCEPT !.at = k + 1]

Start(p) == p.seq = 0 /\ ~isReceiving /\ ~isTransmitting /\ p.name \in Names
Name(p) == Overlaid[p.name, filename]

(* SOH with a name: the phone uploads. The old file is gone from here on.  *)
StartReceiving(p) ==
  /\ p.control = "SOH" /\ Start(p)
  /\ filename' = Name(p)
  /\ flash' = [flash EXCEPT ![Name(p)] = <<>>]
  /\ file' = [open |-> TRUE, at |-> 1]
  /\ isReceiving' = TRUE /\ packetno' = 1
  /\ sendControl("ACK")
  /\ UNCHANGED <<isTransmitting, isEOT, retrans>>

(* ... unless the file cannot be opened for writing: for handlePacket this *)
(* is an outcome of its own, with RefuseReceiving in place of the first.   *)
RefuseReceiving(p) ==
  /\ p.control = "SOH" /\ Start(p)
  /\ filename' = Name(p) /\ file' = Closed
  /\ sendControl("NAK")
  /\ UNCHANGED <<isReceiving, isTransmitting, isEOT, retrans, packetno, flash>>

(* STX with a name: the phone downloads. *)
StartTransmitting(p) ==
  /\ p.control = "STX" /\ Start(p)
  /\ filename' = Name(p)
  /\ IF flash[Name(p)] # NoFile
       THEN /\ packetno' = 1 /\ isTransmitting' = TRUE
            /\ xmodemStore' = Data(1, ReadBlock(Name(p), 1), TRUE)
            /\ isEOT' = (isEOT \/ Short(ReadBlock(Name(p), 1)))
            /\ file' = [open |-> TRUE, at |-> 2]
       ELSE /\ sendControl("NAK") /\ file' = Closed
            /\ UNCHANGED <<packetno, isTransmitting, isEOT>>
  /\ UNCHANGED <<isReceiving, retrans, flash>>

(* A slip: a block is taken although its number is not the expected one. *)
ReceiveAny(p) ==
  /\ p.control \in {"SOH", "STX"} /\ ~Start(p) /\ isReceiving
  /\ IF p.good
       THEN /\ flash' = [flash EXCEPT ![filename] = Append(@, p.block)]
            /\ packetno' = packetno + 1 /\ sendControl("ACK")
       ELSE sendControl("NAK") /\ UNCHANGED <<flash, packetno>>
  /\ UNCHANGED <<isReceiving, isTransmitting, isEOT, retrans, filename, file>>

(* The expected block, undamaged, is appended; any other is refused, a     *)
(* repeated one too.                                                       *)
Receive(p) ==
  /\ p.control \in {"SOH", "STX"} /\ ~Start(p) /\ isReceiving
  /\ IF p.seq = packetno /\ p.good
       THEN /\ flash' = [flash EXCEPT ![filename] = Append(@, p.block)]
            /\ packetno' = packetno + 1 /\ sendControl("ACK")
       ELSE sendControl("NAK") /\ UNCHANGED <<flash, packetno>>
  /\ UNCHANGED <<isReceiving, isTransmitting, isEOT, retrans, filename, file>>

(* What write returns is not looked at: the block is acknowledged although *)
(* there was no room for it. An outcome of its own, as RefuseReceiving is. *)
ReceiveUnwritten(p) ==
  /\ p.control \in {"SOH", "STX"} /\ ~Start(p) /\ isReceiving
  /\ p.seq = packetno /\ p.good
  /\ packetno' = packetno + 1 /\ sendControl("ACK")
  /\ UNCHANGED <<isReceiving, isTransmitting, isEOT, retrans, filename, file, flash>>

(* A slip: the transmission is taken to go on. *)
ReceiveWeirdOn(p) ==
  /\ p.control \in {"SOH", "STX"} /\ ~Start(p) /\ ~isReceiving /\ isTransmitting
  /\ sendControl("CAN")
  /\ UNCHANGED <<isReceiving, isTransmitting, isEOT, retrans, packetno, filename, file, flash>>

(* Data while transmitting. Neither the file nor isEOT is looked after.    *)
ReceiveWeird(p) ==
  /\ p.control \in {"SOH", "STX"} /\ ~Start(p) /\ ~isReceiving /\ isTransmitting
  /\ sendControl("CAN") /\ isTransmitting' = FALSE
  /\ UNCHANGED <<isReceiving, isEOT, retrans, packetno, filename, file, flash>>

(* Data out of the blue is not answered. *)
Ignore(p) == /\ p.control \in {"SOH", "STX"} /\ ~Start(p) /\ ~isReceiving /\ ~isTransmitting
             /\ UNCHANGED xmodemVars

EndOfTransmission(p) ==
  /\ p.control = "EOT" /\ sendControl("ACK")
  /\ file' = Closed /\ isReceiving' = FALSE
  /\ UNCHANGED <<isTransmitting, isEOT, retrans, packetno, filename, flash>>

(* A slip: the file goes, but the reception is still taken to be under way.*)
CancelHalf(p) ==
  /\ p.control = "CAN" /\ sendControl("ACK")
  /\ file' = Closed
  /\ flash' = [n \in Names |-> IF n = filename THEN NoFile ELSE flash[n]]
  /\ UNCHANGED <<isReceiving, isTransmitting, isEOT, retrans, packetno, filename>>

(* The file last named is removed, be it one the phone was reading; a      *)
(* transmission goes on as far as the flag is concerned.                   *)
Cancel(p) ==
  /\ p.control = "CAN" /\ sendControl("ACK")
  /\ file' = Closed /\ isReceiving' = FALSE
  /\ flash' = [n \in Names |-> IF n = filename THEN NoFile ELSE flash[n]]
  /\ UNCHANGED <<isTransmitting, isEOT, retrans, packetno, filename>>

(* ACK: the next block, or the end. *)
NextBlock(p) ==
  /\ p.control = "ACK" /\ isTransmitting /\ ~isEOT
  /\ retrans' = MAXRETRANS /\ packetno' = packetno + 1
  /\ SendBlock(packetno + 1, file.at)
  /\ UNCHANGED <<isReceiving, isTransmitting, filename, flash>>

FinishSending(p) ==
  /\ p.control = "ACK" /\ isTransmitting /\ isEOT
  /\ sendControl("EOT") /\ file' = Closed /\ isTransmitting' = FALSE /\ isEOT' = FALSE
  /\ UNCHANGED <<isReceiving, retrans, packetno, filename, flash>>

(* A slip: the file is not wound back before the block is sent again. *)
ResendForward(p) ==
  /\ p.control = "NAK" /\ isTransmitting /\ retrans > 1
  /\ retrans' = retrans - 1
  /\ SendBlock(packetno, file.at)
  /\ UNCHANGED <<isReceiving, isTransmitting, packetno, filename, flash>>

(* NAK: the same block again, so often in a row. *)
Resend(p) ==
  /\ p.control = "NAK" /\ isTransmitting /\ retrans > 1
  /\ retrans' = retrans - 1
  /\ SendBlock(packetno, packetno)
  /\ UNCHANGED <<isReceiving, isTransmitting, packetno, filename, flash>>

(* retrans stays where it is: only an ACK of a later transfer resets it.   *)
(* (Bound: below zero the count makes no difference.)                      *)
GiveUp(p) ==
  /\ p.control = "NAK" /\ isTransmitting /\ retrans <= 1
  /\ retrans' = 0
  /\ sendControl("CAN") /\ file' = Closed /\ isTransmitting' = FALSE
  /\ UNCHANGED <<isReceiving, isEOT, packetno, filename, flash>>

Unexpected(p) ==
  /\ p.control \in {"ACK", "NAK"} /\ ~isTransmitting
  /\ sendControl("CAN")
  /\ UNCHANGED <<isReceiving, isTransmitting, isEOT, retrans, packetno, filename, file, flash>>

handlePacket(p) ==
  \/ StartReceiving(p) \/ StartTransmitting(p) \/ Receive(p) \/ ReceiveWeird(p) \/ Ignore(p)
  \/ EndOfTransmission(p) \/ Cancel(p)
  \/ NextBlock(p) \/ FinishSending(p) \/ Resend(p) \/ GiveUp(p) \/ Unexpected(p)
=============================================================================
