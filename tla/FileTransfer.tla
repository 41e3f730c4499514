---------------------------- MODULE FileTransfer ----------------------------
(***************************************************************************)
(* XModem with the phone at the other end of the link. The phone is not    *)
(* part of the firmware: it is a client of the protocol that waits for each*)
(* answer, sends again when none comes in time, asks again for a block that*)
(* is damaged or out of turn, and after MaxTries of these starts over, until*)
(* the transfer it wants is made.                                          *)
(***************************************************************************)
EXTENDS XModem

CONSTANTS MaxTries,    \* of the phone
          MaxErrors,   \* bound: damaged blocks and answers that come too late
          MaxBreaks    \* bound: lost links, restarts of the node and transfers the user stops

ASSUME FileTransferAssumption == MaxTries \in Nat \ {0} /\ MaxErrors \in Nat /\ MaxBreaks \in Nat

VARIABLES phone,      \* what it wants, of which file, where it stands, the blocks it has got
          inbox,      \* the answer it has read and not looked at
          tries, errors, breaks,
          made,       \* the transfer the phone last saw through
          cutShort,   \* history: the transmission under way began with isEOT already set
          spoilt      \* history: a block of the upload under way was not written

histories == <<cutShort, spoilt>>
vars == <<xmodemVars, phone, inbox, tries, errors, breaks, made, histories>>

Resting == [wants |-> "nothing", name |-> "", step |-> "rest", k |-> 0, got |-> <<>>]
NothingMade == [what |-> "nothing", name |-> "", as |-> "", got |-> <<>>]

Init == /\ XModemInit
        /\ \E stored \in SUBSET Names : flash = [n \in Names |-> IF n \in stored THEN Complete(n) ELSE NoFile]
        /\ phone = Resting /\ inbox = Nothing /\ tries = 0 /\ errors = 0 /\ breaks = 0
        /\ made = NothingMade /\ cutShort = FALSE /\ spoilt = FALSE

Puts == phone.wants = "put"
Gets == phone.wants = "get"
Waits == phone.step \in {"open", "blocks", "end"}
Error == errors < MaxErrors /\ errors' = errors + 1

Send(p) ==
  /\ handlePacket(p)
  /\ cutShort' = IF p.control = "STX" /\ Start(p) THEN isEOT ELSE cutShort
  /\ spoilt' = IF p.control = "SOH" /\ Start(p) THEN FALSE ELSE spoilt

Hush == UNCHANGED <<xmodemVars, histories>>

(* The node can fail to open a file it is to write. *)
Opening == Open(IF Puts THEN "SOH" ELSE "STX", phone.name)
SendOpen == \/ Send(Opening) /\ UNCHANGED errors
            \/ Error /\ RefuseReceiving(Opening) /\ UNCHANGED histories

(* A block can be damaged on its way to the node, which can fail to write it. *)
SendBlockOf(k) ==
  \/ Send(Data(k, Block(phone.name, k), TRUE)) /\ UNCHANGED errors
  \/ Error /\ Send(Data(k, Block(phone.name, k), FALSE))
  \/ Error /\ ReceiveUnwritten(Data(k, Block(phone.name, k), TRUE))
           /\ spoilt' = TRUE /\ UNCHANGED cutShort

Say(c) == Send(Control(c)) /\ UNCHANGED errors

Goes(step, k) == phone' = [phone EXCEPT !.step = step, !.k = k]

Want == /\ phone.step = "rest"
        /\ \E wants \in {"put", "get"}, n \in Names :
             /\ wants = "get" => flash[n] # NoFile
             /\ phone' = [Resting EXCEPT !.wants = wants, !.name = n, !.step = "start"]
        /\ made' = NothingMade /\ tries' = 0
        /\ Hush /\ UNCHANGED <<inbox, errors, breaks>>

Begin == /\ phone.step = "start" /\ inbox = Nothing
         /\ phone' = [phone EXCEPT !.step = "open", !.k = 0, !.got = <<>>]
         /\ SendOpen
         /\ tries' = 0 /\ UNCHANGED <<inbox, breaks, made>>

Read == /\ inbox = Nothing /\ xmodemStore # Nothing
        /\ inbox' = xmodemStore /\ xmodemStore' = Nothing
        /\ UNCHANGED <<isReceiving, isTransmitting, isEOT, retrans, packetno, filename, file, flash,
                       phone, tries, errors, breaks, made, histories>>

(* The same again; or, after so many times, from the start: an upload is   *)
(* cancelled, a download is left for the node to find out about.           *)
Retry ==
  /\ IF tries < MaxTries
       THEN /\ tries' = tries + 1 /\ UNCHANGED phone
            /\ CASE phone.step = "open" -> SendOpen
                 [] phone.step = "blocks" /\ Puts -> SendBlockOf(phone.k)
                 [] phone.step = "blocks" /\ Gets -> Say("NAK")
                 [] phone.step = "end" -> Say("EOT")
       ELSE /\ Goes("start", 0) /\ UNCHANGED tries
            /\ IF Puts THEN Say("CAN") ELSE Hush /\ UNCHANGED errors
  /\ UNCHANGED <<breaks, made>>

Look == inbox # Nothing /\ inbox' = Nothing

(* The answers an uploading phone can make something of. *)
PutAccepted ==
  /\ Look /\ Puts /\ Waits /\ inbox.control = "ACK"
  /\ IF phone.step = "end"
       THEN /\ phone' = Resting /\ made' = [what |-> "put", name |-> phone.name, as |-> filename, got |-> <<>>]
            /\ Hush /\ UNCHANGED errors
       ELSE /\ UNCHANGED made
            /\ IF phone.k < Size[phone.name]
                 THEN Goes("blocks", phone.k + 1) /\ SendBlockOf(phone.k + 1)
                 ELSE Goes("end", phone.k) /\ Say("EOT")
  /\ tries' = 0 /\ UNCHANGED breaks

PutRefused == Look /\ Puts /\ phone.step = "blocks" /\ inbox.control = "NAK" /\ Retry

(* And a downloading one. A block can be damaged on its way to it. *)
GetBlock ==
  /\ Look /\ Gets /\ Waits /\ inbox.control = "SOH" /\ inbox.seq = phone.k + 1
  /\ phone' = [phone EXCEPT !.step = "blocks", !.k = inbox.seq,
                            !.got = IF inbox.block = Empty THEN @ ELSE Append(@, inbox.block)]
  /\ Say("ACK") /\ tries' = 0 /\ UNCHANGED <<breaks, made>>

GetDamaged ==
  /\ Look /\ Gets /\ Waits /\ inbox.control = "SOH"
  /\ IF inbox.seq # phone.k + 1 THEN UNCHANGED errors ELSE Error
  /\ tries < MaxTries /\ tries' = tries + 1
  /\ Goes("blocks", phone.k) /\ Send(Control("NAK")) /\ UNCHANGED <<breaks, made>>

GetDone ==
  /\ Look /\ Gets /\ phone.step = "blocks" /\ inbox.control = "EOT"
  /\ phone' = Resting /\ made' = [what |-> "get", name |-> phone.name, as |-> filename, got |-> phone.got]
  /\ Hush /\ UNCHANGED <<tries, errors, breaks>>

(* Every other answer makes the phone start over, or comes to a phone that *)
(* does not wait for one. A NAK may come from an upload somebody has left: *)
(* the phone cancels that first. A file that is not there is given up.     *)
Refused == CASE inbox.control = "CAN" -> TRUE
             [] inbox.control = "NAK" -> Gets \/ phone.step = "open"
             [] inbox.control = "SOH" -> Gets /\ inbox.seq # phone.k + 1 /\ tries = MaxTries
             [] inbox.control = "EOT" -> Gets /\ phone.step = "open"
             [] OTHER -> FALSE

Meaningless == IF Puts THEN \/ inbox.control \in {"SOH", "EOT"}
                            \/ inbox.control = "NAK" /\ phone.step = "end"
                       ELSE inbox.control = "ACK"

Turned ==
  /\ Look /\ Waits /\ Refused
  /\ IF Gets /\ flash[filename] = NoFile THEN phone' = Resting ELSE Goes("start", 0)
  /\ IF inbox.control = "NAK" THEN Say("CAN") ELSE Hush /\ UNCHANGED errors
  /\ UNCHANGED <<tries, breaks, made>>

Drop ==
  /\ Look /\ (Waits => Meaningless)
  /\ Hush /\ UNCHANGED <<phone, tries, errors, breaks, made>>

Timeout ==
  /\ Waits
  /\ IF inbox = Nothing /\ xmodemStore = Nothing THEN Retry
     ELSE /\ errors < MaxErrors /\ tries < MaxTries /\ tries' = tries + 1 /\ errors' = errors + 1
          /\ CASE phone.step = "open" -> Send(Opening)
               [] phone.step = "blocks" /\ Puts -> Send(Data(phone.k, Block(phone.name, phone.k), TRUE))
               [] phone.step = "blocks" /\ Gets -> Send(Control("NAK"))
               [] phone.step = "end" -> Send(Control("EOT"))
          /\ UNCHANGED <<phone, breaks, made>>
  /\ UNCHANGED inbox

Breaks == breaks < MaxBreaks /\ breaks' = breaks + 1

(* The link is lost. What the node had to say stays for the next one. *)
Break == /\ Breaks /\ phone.step # "rest"
         /\ Goes("start", 0) /\ inbox' = Nothing
         /\ Hush /\ UNCHANGED <<tries, errors, made>>

Reboot == /\ Breaks
          /\ isReceiving' = FALSE /\ isTransmitting' = FALSE /\ isEOT' = FALSE
          /\ retrans' = MAXRETRANS /\ packetno' = 0 /\ filename' = "" /\ file' = Closed
          /\ xmodemStore' = Nothing /\ UNCHANGED flash
          /\ phone' = IF phone.step = "rest" THEN phone ELSE [phone EXCEPT !.step = "start", !.k = 0]
          /\ inbox' = Nothing
          /\ UNCHANGED <<tries, errors, made, histories>>

(* The user stops the transfer, or does not connect again for it. *)
Stop == /\ Breaks /\ phone.step # "rest"
        /\ phone' = Resting /\ inbox' = Nothing
        /\ IF Waits THEN Say("CAN") ELSE Hush /\ UNCHANGED errors
        /\ UNCHANGED <<tries, made>>

Hears == Read \/ PutAccepted \/ PutRefused \/ GetBlock \/ GetDone \/ Turned \/ Drop

Next == \/ Want \/ Begin \/ Hears \/ GetDamaged \/ Timeout
        \/ Break \/ Reboot \/ Stop

(* The phone goes on with what it wants: it starts, reads, looks at what it*)
(* has read, and does not wait for ever. Nothing is asked of the firmware, *)
(* which answers within the phone's write.                                 *)
Fairness == WF_vars(Begin) /\ WF_vars(Hears \/ GetDamaged) /\ WF_vars(Timeout)

Spec == Init /\ [][Next]_vars /\ Fairness
---------------------------------------------------------------------------
(* Properties. *)

Blocks == {Empty} \union UNION {{Block(n, i) : i \in 1..Size[n]} : n \in Names}

(* TypeOK: what the adapter keeps stays in its domain; it never receives   *)
(* and transmits at once, and it receives into an open file.               *)
TypeOK ==
  /\ isReceiving \in BOOLEAN /\ isTransmitting \in BOOLEAN /\ isEOT \in BOOLEAN
  /\ retrans \in 0..MAXRETRANS /\ packetno \in Nat /\ filename \in Names \union {""}
  /\ xmodemStore.control \in {"NUL", "SOH", "ACK", "NAK", "CAN", "EOT"} /\ xmodemStore.block \in Blocks
  /\ ~(isReceiving /\ isTransmitting)
  /\ isReceiving => file.open /\ filename \in Names

(* InStep: the file being received holds the blocks of one file up to the  *)
(* one expected next, each once and in order, unless one was not written.  *)
InStep ==
  isReceiving /\ ~spoilt =>
    \E n \in Names : packetno - 1 <= Size[n] /\ flash[filename] = SubSeq(Complete(n), 1, packetno - 1)

(* UploadWhole: when the phone has read the ACK to its EOT, the file on the*)
(* flash is the file it sent: no block is missing, twice or damaged,       *)
(* whatever was sent again, lost or left over from an earlier transfer; and*)
(* at no time before is there a block in it that is out of its place. It is*)
(* under the name the adapter has (made.as), which keeps the tail of a     *)
(* longer one before it; and whole only if every write succeeded: handlePacket   *)
(* acknowledges a block whether it was written or not.                     *)
UploadWhole ==
  InStep /\ (made.what = "put" /\ ~spoilt => flash[made.as] = Complete(made.name))

(* FetchWhole: when the phone has read EOT it has the whole of the file the*)
(* adapter named, unless an earlier download was left at its last block:   *)
(* isEOT is then still set when the next one begins, and ends it early.    *)
FetchWhole == made.what = "get" /\ ~cutShort => made.got = flash[made.as]

(* Transferred: no flag, file or answer left over from a broken, stopped or*)
(* refused transfer keeps a phone that goes on trying from its transfer.   *)
Transferred == phone.step # "rest" ~> phone.step = "rest"
=============================================================================
